------------------------ MODULE ConsistencyHistoryProofs ------------------------
(***************************************************************************)
(* Proofs about what the verdicts of IndexConsistency say of the catalogs  *)
(* that a collection has had while it was audited: that a warning is real, *)
(* and that the verdict on a cluster nobody changes is right.  They rest   *)
(* on the invariant of IndexConsistencyProofs and on a second one, which   *)
(* follows every observation back to the catalogs it was made of.          *)
(***************************************************************************)
EXTENDS IndexConsistencyProofs

-----------------------------------------------------------------------------
(* What an observation keeps of the definitions it was made of. *)

Unbuilt(D) == {[d EXCEPT !.building = FALSE] : d \in D}

(* The definitions of D without a name in N or a specification in P.         *)
Compared(D, N, P) == {d \in D : d.name \notin N /\ d.spec \notin P}

LEMMA FactsOf ==
  ASSUME NEW D, NEW E
  PROVE  Facts(D) = Facts(E) <=>
            /\ \A d \in D : \E e \in E : e.name = d.name /\ e.spec = d.spec
            /\ \A e \in E : \E d \in D : e.name = d.name /\ e.spec = d.spec
<1>1. \A d, e : <<d.name, d.spec>> = <<e.name, e.spec>> <=> d.name = e.name /\ d.spec = e.spec
  OBVIOUS
<1>2. ASSUME NEW X, NEW Y
      PROVE  Facts(X) \subseteq Facts(Y) <=>
                \A d \in X : \E e \in Y : e.name = d.name /\ e.spec = d.spec
  <2>1. ASSUME Facts(X) \subseteq Facts(Y), NEW d \in X
        PROVE  \E e \in Y : e.name = d.name /\ e.spec = d.spec
    <3>1. <<d.name, d.spec>> \in Facts(Y)
      BY <2>1 DEF Facts
    <3>2. PICK e \in Y : <<d.name, d.spec>> = <<e.name, e.spec>>
      BY <3>1 DEF Facts
    <3> QED
      BY <3>2, <1>1
  <2>2. ASSUME \A d \in X : \E e \in Y : e.name = d.name /\ e.spec = d.spec
        PROVE  Facts(X) \subseteq Facts(Y)
    <3>1. ASSUME NEW f \in Facts(X) PROVE f \in Facts(Y)
      <4>1. PICK d \in X : f = <<d.name, d.spec>>
        BY <3>1 DEF Facts
      <4>2. PICK e \in Y : e.name = d.name /\ e.spec = d.spec
        BY <2>2
      <4> QED
        BY <4>1, <4>2 DEF Facts
    <3> QED
      BY <3>1
  <2> QED
    BY <2>1, <2>2
<1>3. Facts(D) = Facts(E) <=> Facts(D) \subseteq Facts(E) /\ Facts(E) \subseteq Facts(D)
  OBVIOUS
<1>4. Facts(D) \subseteq Facts(E) <=>
         \A d \in D : \E e \in E : e.name = d.name /\ e.spec = d.spec
  BY <1>2
<1>5. Facts(E) \subseteq Facts(D) <=>
         \A e \in E : \E d \in D : e.name = d.name /\ e.spec = d.spec
  BY <1>2
<1> QED
  BY <1>3, <1>4, <1>5

LEMMA FactsShared ==
  ASSUME NEW D, NEW E, Facts(D) = Facts(E), NEW d \in D
  PROVE  \E e \in E : e.name = d.name /\ e.spec = d.spec
BY FactsOf

(* Neither a mark nor leaving it out changes names or specifications.        *)
LEMMA UnbuiltFacts ==
  ASSUME NEW D \in SUBSET Definitions
  PROVE  /\ Unbuilt(D) \in SUBSET Definitions
         /\ \A d \in Unbuilt(D) : ~d.building
         /\ Facts(Unbuilt(D)) = Facts(D)
<1> DEFINE u(d) == [d EXCEPT !.building = FALSE]
<1>1. \A d \in D : u(d) \in Definitions /\ u(d).name = d.name /\ u(d).spec = d.spec
                   /\ u(d).building = FALSE
  BY DEF Definitions
<1>2. Unbuilt(D) = {u(d) : d \in D}
  BY DEF Unbuilt
<1> HIDE DEF u
<1>3. \A d \in D : \E e \in Unbuilt(D) : e.name = d.name /\ e.spec = d.spec
  BY <1>1, <1>2
<1>4. \A e \in Unbuilt(D) : \E d \in D : e.name = d.name /\ e.spec = d.spec
  BY <1>1, <1>2
<1>5. Facts(Unbuilt(D)) = Facts(D)
  BY <1>3, <1>4, FactsOf
<1> QED
  BY <1>1, <1>2, <1>5

LEMMA MarkFacts ==
  ASSUME NEW D \in SUBSET Definitions, NEW builds
  PROVE  /\ Mark(D, builds) \in SUBSET Definitions
         /\ Facts(Mark(D, builds)) = Facts(D)
         /\ (\A d \in D : d.building => d.name \in builds) =>
               \A m \in Mark(D, builds) : m.building <=> m.name \in builds
<1> DEFINE u(d) == [d EXCEPT !.building = d.building \/ d.name \in builds]
<1>1. \A d \in D : /\ u(d) \in Definitions /\ u(d).name = d.name /\ u(d).spec = d.spec
                   /\ u(d).building <=> d.building \/ d.name \in builds
  BY DEF Definitions
<1>2. Mark(D, builds) = {u(d) : d \in D}
  BY DEF Mark
<1> HIDE DEF u
<1>3. \A d \in D : \E e \in Mark(D, builds) : e.name = d.name /\ e.spec = d.spec
  BY <1>1, <1>2
<1>4. \A e \in Mark(D, builds) : \E d \in D : e.name = d.name /\ e.spec = d.spec
  BY <1>1, <1>2
<1>5. Facts(Mark(D, builds)) = Facts(D)
  BY <1>3, <1>4, FactsOf
<1> QED
  BY <1>1, <1>2, <1>5

LEMMA SameFields ==
  ASSUME NEW d \in Definitions, NEW e \in Definitions,
         d.name = e.name, d.spec = e.spec, d.building <=> e.building
  PROVE  d = e
BY DEF Definitions

(* If all that is being built is among the names, a mark restores what was   *)
(* left out.                                                                 *)
LEMMA MarkRestores ==
  ASSUME NEW D \in SUBSET Definitions, NEW builds,
         \A d \in D : d.building => d.name \in builds
  PROVE  Mark(Unbuilt(D), builds) = Mark(D, builds)
<1> DEFINE u(d) == [d EXCEPT !.building = FALSE]
           m(d) == [d EXCEPT !.building = d.building \/ d.name \in builds]
<1>1. ASSUME NEW d \in D PROVE m(u(d)) = m(d)
  <2>1. /\ u(d) \in Definitions /\ u(d).name = d.name /\ u(d).spec = d.spec /\ ~u(d).building
        /\ m(d) \in Definitions /\ m(d).name = d.name /\ m(d).spec = d.spec
        /\ m(d).building <=> d.building \/ d.name \in builds
    BY DEF Definitions
  <2>2. \A x \in Definitions : /\ m(x) \in Definitions /\ m(x).name = x.name /\ m(x).spec = x.spec
                               /\ m(x).building <=> x.building \/ x.name \in builds
    BY DEF Definitions
  <2> HIDE DEF u, m
  <2>3. /\ m(u(d)) \in Definitions /\ m(u(d)).name = d.name /\ m(u(d)).spec = d.spec
        /\ m(u(d)).building <=> d.name \in builds
    BY <2>1, <2>2
  <2>4. m(d).building <=> d.name \in builds
    BY <2>1
  <2> QED
    BY <2>1, <2>3, <2>4, SameFields
<1>2. Unbuilt(D) = {u(d) : d \in D} /\ Mark(D, builds) = {m(d) : d \in D}
  BY DEF Unbuilt, Mark
<1>3. Mark(Unbuilt(D), builds) = {m(d) : d \in Unbuilt(D)}
  BY DEF Mark
<1> HIDE DEF u, m
<1> QED
  BY <1>1, <1>2, <1>3

-----------------------------------------------------------------------------
(* What the comparison finds. *)

LEMMA TwoMembers ==
  ASSUME NEW S, Cardinality(S) > 1
  PROVE  \E x, y \in S : x # y
<1>1. SUFFICES ASSUME \A x, y \in S : x = y PROVE FALSE
  OBVIOUS
<1>2. CASE S = {}
  BY <1>2, FS_EmptySet
<1>3. ASSUME NEW x \in S PROVE FALSE
  <2>1. S = {x}
    BY <1>1
  <2>2. Cardinality({x}) = 1
    BY FS_Singleton
  <2> QED
    BY <2>1, <2>2
<1> QED
  BY <1>2, <1>3

LEMMA OneMember ==
  ASSUME NEW S, IsFiniteSet(S), ~(Cardinality(S) > 1), NEW x \in S, NEW y \in S
  PROVE  x = y
<1>1. SUFFICES ASSUME x # y PROVE FALSE
  OBVIOUS
<1>2. Cardinality({x}) = 1 /\ IsFiniteSet({x}) /\ Cardinality(S) \in Nat
  BY FS_Singleton, FS_CardinalityType
<1>3. {x} \subseteq S /\ {x} # S
  BY <1>1
<1>4. Cardinality({x}) < Cardinality(S)
  BY <1>2, <1>3, FS_Subset
<1> QED
  BY <1>2, <1>4

(* On each of the servers e, a definition has one name and a name one        *)
(* definition.                                                               *)
Sound(e, obs) == \A s \in e : \A i, j \in obs[s] : i.name = j.name <=> i.spec = j.spec

LEMMA SoundObservation ==
  ASSUME NEW D \in SUBSET Definitions, OneEach(D), NEW E, Facts(E) = Facts(D)
  PROVE  \A i, j \in E : i.name = j.name <=> i.spec = j.spec
<1>1. TAKE i, j \in E
<1>2. PICK k \in D : k.name = i.name /\ k.spec = i.spec
  BY FactsOf
<1>3. PICK l \in D : l.name = j.name /\ l.spec = j.spec
  BY FactsOf
<1> QED
  BY <1>2, <1>3 DEF OneEach

(* What each kind of difference says of the observation that the comparison  *)
(* was made of.                                                              *)
Told(d, e, obs, N, P) ==
    CASE d.code = "missing_on_shard" ->
             /\ d.shards # {}
             /\ \A t \in d.shards : t \in e /\ \E s \in e, n \in d.names :
                   /\ Called(n, Compared(obs[s], N, P)) # {}
                   /\ Called(n, Compared(obs[t], N, P)) = {}
      [] d.code = "spec_mismatch" ->
             \E s, t \in e, n \in d.names :
                \E i \in Called(n, Compared(obs[s], N, P)), j \in Called(n, Compared(obs[t], N, P)) :
                   i.spec # j.spec
      [] d.code = "name_mismatch" ->
             \E s, t \in e, r \in d.specs :
                \E i \in Meaning(r, Compared(obs[s], N, P)), j \in Meaning(r, Compared(obs[t], N, P)) :
                   i.name # j.name
      [] OTHER -> FALSE

LEMMA CandidateShows ==
  ASSUME NEW e, NEW obs, DOMAIN obs = e, NEW N, NEW P,
         NEW d \in Candidates(e, obs, N, P)
  PROVE  Told(d, e, obs, N, P)
<1> DEFINE kept == [s \in DOMAIN obs |->
                   {x \in obs[s] : x.name \notin N /\ x.spec \notin P}]
           holders(n) == {s \in DOMAIN obs : Called(n, kept[s]) # {}}
           knowers(p) == {s \in DOMAIN obs : Meaning(p, kept[s]) # {}}
           namesOf(p) == NamesIn(UNION {Meaning(p, kept[s]) : s \in e})
           renamed == {p \in SpecsIn(AllOf(kept)) :
                         OnAll(knowers(p), e) /\ Cardinality(namesOf(p)) > 1}
           rest == NamesIn(AllOf(kept)) \ UNION {namesOf(p) : p \in renamed}
           lacking == {n \in rest : ~OnAll(holders(n), e)}
           specsOf(n) == SpecsIn(Called(n, AllOf(kept)))
           reference(n) == UNION {SpecsIn(Called(n, kept[s])) :
                                    s \in {t \in e \cap holders(n) :
                                             \A u \in e \cap holders(n) : t <= u}}
           A == {Difference("name_mismatch", namesOf(p), e, {p}) : p \in renamed}
           B == {Difference("missing_on_shard", {n}, e \ holders(n), reference(n)) :
                    n \in lacking}
           C == {Difference("spec_mismatch", {n}, e, specsOf(n)) :
                    n \in {m \in rest \ lacking : Cardinality(specsOf(m)) > 1}}
<1>1. d \in A \cup B \cup C
  BY DEF Candidates
<1>2. \A s \in e : kept[s] = Compared(obs[s], N, P)
  BY DEF Compared
<1>3. DOMAIN kept = e
  OBVIOUS
<1> HIDE DEF kept
<1>4. CASE d \in A
  <2>1. PICK p \in renamed : d = Difference("name_mismatch", namesOf(p), e, {p})
    BY <1>4
  <2>2. Cardinality(namesOf(p)) > 1
    BY <2>1
  <2>3. PICK n, m \in namesOf(p) : n # m
    BY <2>2, TwoMembers
  <2>4. PICK s \in e : \E i \in Meaning(p, kept[s]) : i.name = n
    BY <2>3 DEF NamesIn
  <2>5. PICK t \in e : \E j \in Meaning(p, kept[t]) : j.name = m
    BY <2>3 DEF NamesIn
  <2>6. d.code = "name_mismatch" /\ d.specs = {p}
    BY <2>1 DEF Difference
  <2>7. \E i \in Meaning(p, Compared(obs[s], N, P)), j \in Meaning(p, Compared(obs[t], N, P)) :
           i.name # j.name
    BY <1>2, <2>3, <2>4, <2>5
  <2> QED
    BY <2>6, <2>7 DEF Told
<1>5. CASE d \in B
  <2>1. PICK n \in lacking : d = Difference("missing_on_shard", {n}, e \ holders(n), reference(n))
    BY <1>5
  <2>2. d.code = "missing_on_shard" /\ d.names = {n} /\ d.shards = e \ holders(n)
    BY <2>1 DEF Difference
  <2>3. n \in NamesIn(AllOf(kept)) /\ ~OnAll(holders(n), e)
    BY <2>1
  <2>4. holders(n) # e
    BY <2>3 DEF OnAll
  <2>5. holders(n) \subseteq e
    OBVIOUS
  <2>6. PICK s \in e : \E i \in kept[s] : i.name = n
    BY <1>3, <2>3 DEF NamesIn, AllOf
  <2>7. Called(n, Compared(obs[s], N, P)) # {}
    BY <1>2, <2>6 DEF Called
  <2>8. \A t \in e \ holders(n) : Called(n, Compared(obs[t], N, P)) = {}
    BY <1>2
  <2> QED
    BY <2>2, <2>4, <2>5, <2>7, <2>8 DEF Told
<1>6. CASE d \in C
  <2>1. PICK n \in {m \in rest \ lacking : Cardinality(specsOf(m)) > 1} :
           d = Difference("spec_mismatch", {n}, e, specsOf(n))
    BY <1>6
  <2>2. d.code = "spec_mismatch" /\ d.names = {n}
    BY <2>1 DEF Difference
  <2>3. PICK p, q \in specsOf(n) : p # q
    BY <2>1, TwoMembers
  <2>4. PICK s \in e : \E i \in Called(n, kept[s]) : i.spec = p
    BY <1>3, <2>3 DEF SpecsIn, AllOf, Called
  <2>5. PICK t \in e : \E j \in Called(n, kept[t]) : j.spec = q
    BY <1>3, <2>3 DEF SpecsIn, AllOf, Called
  <2>6. \E i \in Called(n, Compared(obs[s], N, P)), j \in Called(n, Compared(obs[t], N, P)) :
           i.spec # j.spec
    BY <1>2, <2>3, <2>4, <2>5
  <2> QED
    BY <2>2, <2>6 DEF Told
<1> QED
  BY <1>1, <1>4, <1>5, <1>6

(* A definition that one server has and another has not.                     *)
Lacks(i, D) == \A j \in D : ~(j.name = i.name /\ j.spec = i.spec)

LEMMA CandidateDiffers ==
  ASSUME NEW e, NEW obs, DOMAIN obs = e, Sound(e, obs), NEW N, NEW P,
         Candidates(e, obs, N, P) # {}
  PROVE  \E s, t \in e : \E i \in Compared(obs[s], N, P) : Lacks(i, obs[t])
<1>1. PICK d \in Candidates(e, obs, N, P) : TRUE
  OBVIOUS
<1>2. Told(d, e, obs, N, P)
  BY CandidateShows
<1>3. CASE d.code = "missing_on_shard"
  <2>1. d.shards # {}
    BY <1>2, <1>3 DEF Told
  <2>2. PICK t \in e, s \in e, n \in d.names :
           Called(n, Compared(obs[s], N, P)) # {} /\ Called(n, Compared(obs[t], N, P)) = {}
    BY <1>2, <1>3, <2>1 DEF Told
  <2>3. PICK i \in Compared(obs[s], N, P) : i.name = n
    BY <2>2 DEF Called
  <2>4. Lacks(i, obs[t])
    BY <2>2, <2>3 DEF Called, Compared, Lacks
  <2> QED
    BY <2>3, <2>4
<1>4. CASE d.code = "spec_mismatch"
  <2>1. PICK s \in e, t \in e, n \in d.names :
           \E i \in Called(n, Compared(obs[s], N, P)), j \in Called(n, Compared(obs[t], N, P)) :
              i.spec # j.spec
    BY <1>2, <1>4 DEF Told
  <2>2. PICK i \in Called(n, Compared(obs[s], N, P)), j \in Called(n, Compared(obs[t], N, P)) :
           i.spec # j.spec
    BY <2>1
  <2>3. i \in Compared(obs[s], N, P) /\ i.name = n /\ j \in obs[t] /\ j.name = n
    BY DEF Called, Compared
  <2>4. Lacks(i, obs[t])
    BY <2>2, <2>3 DEF Lacks, Sound
  <2> QED
    BY <2>3, <2>4
<1>5. CASE d.code = "name_mismatch"
  <2>1. PICK s \in e, t \in e, r \in d.specs :
           \E i \in Meaning(r, Compared(obs[s], N, P)), j \in Meaning(r, Compared(obs[t], N, P)) :
              i.name # j.name
    BY <1>2, <1>5 DEF Told
  <2>2. PICK i \in Meaning(r, Compared(obs[s], N, P)), j \in Meaning(r, Compared(obs[t], N, P)) :
           i.name # j.name
    BY <2>1
  <2>3. i \in Compared(obs[s], N, P) /\ i.spec = r /\ j \in obs[t] /\ j.spec = r
    BY DEF Meaning, Compared
  <2>4. Lacks(i, obs[t])
    BY <2>2, <2>3 DEF Lacks, Sound
  <2> QED
    BY <2>3, <2>4
<1> QED
  BY <1>2, <1>3, <1>4, <1>5 DEF Told

(* Where nothing is found, every server has what one of them has.            *)
LEMMA NoCandidate ==
  ASSUME NEW e, NEW obs, DOMAIN obs = e, IsFiniteSet(e), Observation(obs), NEW N, NEW P,
         Candidates(e, obs, N, P) = {},
         NEW s \in e, NEW t \in e, NEW i \in Compared(obs[s], N, P)
  PROVE  \E j \in Compared(obs[t], N, P) : j.name = i.name /\ j.spec = i.spec
<1> DEFINE kept == [x \in DOMAIN obs |->
                   {d \in obs[x] : d.name \notin N /\ d.spec \notin P}]
           holders(n) == {x \in DOMAIN obs : Called(n, kept[x]) # {}}
           knowers(p) == {x \in DOMAIN obs : Meaning(p, kept[x]) # {}}
           namesOf(p) == NamesIn(UNION {Meaning(p, kept[x]) : x \in e})
           renamed == {p \in SpecsIn(AllOf(kept)) :
                         OnAll(knowers(p), e) /\ Cardinality(namesOf(p)) > 1}
           rest == NamesIn(AllOf(kept)) \ UNION {namesOf(p) : p \in renamed}
           lacking == {n \in rest : ~OnAll(holders(n), e)}
           specsOf(n) == SpecsIn(Called(n, AllOf(kept)))
           reference(n) == UNION {SpecsIn(Called(n, kept[x])) :
                                    x \in {y \in e \cap holders(n) :
                                             \A u \in e \cap holders(n) : y <= u}}
           A == {Difference("name_mismatch", namesOf(p), e, {p}) : p \in renamed}
           B == {Difference("missing_on_shard", {n}, e \ holders(n), reference(n)) :
                    n \in lacking}
           C == {Difference("spec_mismatch", {n}, e, specsOf(n)) :
                    n \in {m \in rest \ lacking : Cardinality(specsOf(m)) > 1}}
<1>1. A \cup B \cup C = {}
  BY DEF Candidates
<1>2. \A x \in e : kept[x] = Compared(obs[x], N, P)
  BY DEF Compared
<1>3. DOMAIN kept = e
  OBVIOUS
<1> HIDE DEF kept
<1>4. renamed = {}
  BY <1>1
<1>5. i.name \in NamesIn(AllOf(kept)) /\ i \in Called(i.name, AllOf(kept))
  BY <1>2, <1>3 DEF NamesIn, AllOf, Called
<1>6. i.name \in rest
  BY <1>4, <1>5
<1>7. lacking = {}
  <2>1. SUFFICES ASSUME NEW n \in lacking PROVE FALSE
    OBVIOUS
  <2>2. Difference("missing_on_shard", {n}, e \ holders(n), reference(n)) \in B
    OBVIOUS
  <2> HIDE DEF A, B, C
  <2> QED
    BY <1>1, <2>2
<1>8. Cardinality(holders(i.name)) = Cardinality(e)
  BY <1>6, <1>7 DEF OnAll
<1>9. holders(i.name) = e
  <2> DEFINE H == holders(i.name)
  <2>1. H \subseteq e /\ Cardinality(H) = Cardinality(e)
    BY <1>8
  <2> HIDE DEF H
  <2>2. Cardinality(e) \in Nat
    BY FS_CardinalityType
  <2>3. H # e => Cardinality(H) < Cardinality(e)
    BY <2>1, FS_Subset
  <2>4. H = e
    BY <2>1, <2>2, <2>3
  <2> QED
    BY <2>4 DEF H
<1>10. PICK j \in Compared(obs[t], N, P) : j.name = i.name
  BY <1>2, <1>9 DEF Called
<1>11. j \in Called(i.name, AllOf(kept))
  BY <1>2, <1>3, <1>10 DEF AllOf, Called
<1>12. ~(Cardinality(specsOf(i.name)) > 1)
  BY <1>1, <1>6, <1>7
<1>13. i.spec \in specsOf(i.name) /\ j.spec \in specsOf(i.name)
  BY <1>5, <1>11 DEF SpecsIn
<1>14. IsFiniteSet(specsOf(i.name))
  <2>1. ASSUME NEW p \in specsOf(i.name) PROVE p \in Specs
    <3>1. PICK d \in AllOf(kept) : d.spec = p
      BY <2>1 DEF SpecsIn, Called
    <3>2. PICK x \in e : d \in obs[x]
      BY <1>2, <1>3, <3>1 DEF AllOf, Compared
    <3>3. d \in Definitions
      BY <3>2 DEF Observation
    <3> QED
      BY <3>1, <3>3 DEF Definitions
  <2>2. specsOf(i.name) \subseteq Specs
    BY <2>1
  <2> HIDE DEF specsOf
  <2> QED
    BY <2>2, FS_Subset, ConsistencyAssumption
<1> DEFINE S == specsOf(i.name)
<1>15. i.spec = j.spec
  <2>1. IsFiniteSet(S) /\ ~(Cardinality(S) > 1) /\ i.spec \in S /\ j.spec \in S
    BY <1>12, <1>13, <1>14
  <2> HIDE DEF S
  <2> QED
    BY <2>1, OneMember
<1> QED
  BY <1>10, <1>15

-----------------------------------------------------------------------------
(* From a difference to the moments it was there. *)

(* Of two catalogs that are one change apart, all servers but one agree.     *)
Close(W) ==
    \A x, y \in W : W = {x, y} => \E u : \A s \in Shards : s = u \/ x[s] = y[s]

LEMMA OneMoment ==
  ASSUME NEW W, Close(W), NEW x \in W, NEW y \in W,
         NEW s \in Shards, NEW t \in Shards, s # t
  PROVE  \E m \in Moments(W) : m[1][s] = x[s] /\ m[2][t] = y[t]
<1>1. CASE \A p, q \in W : W # {p, q}
  <2>1. <<x, y>> \in Moments(W)
    BY <1>1 DEF Moments
  <2> QED
    BY <2>1
<1>2. ASSUME NEW p \in W, NEW q \in W, W = {p, q}
      PROVE  \E m \in Moments(W) : m[1][s] = x[s] /\ m[2][t] = y[t]
  <2>1. PICK u : \A r \in Shards : r = u \/ p[r] = q[r]
    BY <1>2 DEF Close
  <2>2. x[s] = y[s] \/ x[t] = y[t]
    BY <1>2, <2>1
  <2>3. <<x, x>> \in Moments(W) /\ <<y, y>> \in Moments(W)
    BY DEF Moments
  <2> QED
    BY <2>2, <2>3
<1> QED
  BY <1>1, <1>2

(* Every shard of obs shows what it had in one of the catalogs W.            *)
Witnessed(obs, W) == \A s \in DOMAIN obs : \E cat \in W : Facts(obs[s]) = Facts(cat[s])
Catalogued(W) == \A cat \in W, s \in Shards : cat[s] \in SUBSET Definitions /\ OneEach(cat[s])

LEMMA WitnessedSound ==
  ASSUME NEW W, Catalogued(W), NEW obs, DOMAIN obs \subseteq Shards, Witnessed(obs, W)
  PROVE  Sound(DOMAIN obs, obs)
<1>1. ASSUME NEW s \in DOMAIN obs
      PROVE  \A i, j \in obs[s] : i.name = j.name <=> i.spec = j.spec
  <2>1. PICK cat \in W : Facts(obs[s]) = Facts(cat[s])
    BY DEF Witnessed
  <2>2. cat[s] \in SUBSET Definitions /\ OneEach(cat[s])
    BY DEF Catalogued
  <2> HIDE DEF Sound
  <2> QED
    BY <2>1, <2>2, SoundObservation
<1> QED
  BY <1>1 DEF Sound

LEMMA DifferenceWasThere ==
  ASSUME NEW W, Close(W), Catalogued(W), NEW e \in SUBSET Shards,
         NEW obs, DOMAIN obs = e, Witnessed(obs, W), NEW N, NEW P,
         NEW d \in Candidates(e, obs, N, P)
  PROVE  Shown(d, W, e, P)
<1>1. Told(d, e, obs, N, P)
  BY CandidateShows
<1>2. Sound(e, obs)
  BY WitnessedSound
<1>3. CASE d.code = "missing_on_shard"
  <2>1. d.shards # {}
    BY <1>1, <1>3 DEF Told
  <2>2. ASSUME NEW t \in d.shards
        PROVE  \E m \in Moments(W), s \in e, n \in d.names :
                  Called(n, m[1][s]) # {} /\ SpecsIn(Called(n, m[2][t])) \subseteq P
    <3>1. t \in e
      BY <1>1, <1>3 DEF Told
    <3>2. PICK s \in e, n \in d.names :
             Called(n, Compared(obs[s], N, P)) # {} /\ Called(n, Compared(obs[t], N, P)) = {}
      BY <1>1, <1>3 DEF Told
    <3>3. PICK x \in W : Facts(obs[s]) = Facts(x[s])
      BY DEF Witnessed
    <3>4. PICK y \in W : Facts(obs[t]) = Facts(y[t])
      BY <3>1 DEF Witnessed
    <3>5. n \notin N /\ \E i \in obs[s] : i.name = n
      BY <3>2 DEF Called, Compared
    <3>6. Called(n, x[s]) # {}
      <4>1. PICK i \in obs[s] : i.name = n
        BY <3>5
      <4>2. PICK k \in x[s] : k.name = i.name
        BY <3>3, FactsShared
      <4> QED
        BY <4>1, <4>2 DEF Called
    <3>7. ASSUME NEW k \in y[t], k.name = n PROVE k.spec \in P
      <4>1. PICK j \in obs[t] : j.name = n /\ j.spec = k.spec
        BY <3>4, <3>7, FactsShared
      <4>2. j \notin Compared(obs[t], N, P)
        BY <3>2, <4>1 DEF Called
      <4> QED
        BY <3>5, <4>1, <4>2 DEF Compared
    <3>8. SpecsIn(Called(n, y[t])) \subseteq P
      BY <3>7 DEF SpecsIn, Called
    <3>9. PICK m \in Moments(W) : m[1][s] = x[s] /\ m[2][t] = y[t]
      BY <3>1, <3>2, OneMoment
    <3> QED
      BY <3>6, <3>8, <3>9
  <2> QED
    BY <1>3, <2>1, <2>2 DEF Shown
<1>4. CASE d.code = "spec_mismatch"
  <2>1. PICK s \in e, t \in e, n \in d.names :
           \E i \in Called(n, Compared(obs[s], N, P)), j \in Called(n, Compared(obs[t], N, P)) :
              i.spec # j.spec
    BY <1>1, <1>4 DEF Told
  <2>2. PICK i \in obs[s], j \in obs[t] : i.name = n /\ j.name = n /\ i.spec # j.spec
    BY <2>1 DEF Called, Compared
  <2>3. s # t
    BY <1>2, <2>2 DEF Sound
  <2>4. PICK x \in W : Facts(obs[s]) = Facts(x[s])
    BY DEF Witnessed
  <2>5. PICK y \in W : Facts(obs[t]) = Facts(y[t])
    BY DEF Witnessed
  <2>6. PICK k \in x[s] : k.name = i.name /\ k.spec = i.spec
    BY <2>4, FactsShared
  <2>7. PICK l \in y[t] : l.name = j.name /\ l.spec = j.spec
    BY <2>5, FactsShared
  <2>8. PICK m \in Moments(W) : m[1][s] = x[s] /\ m[2][t] = y[t]
    BY <2>3, OneMoment
  <2>9. k \in Called(n, m[1][s]) /\ l \in Called(n, m[2][t]) /\ k.spec # l.spec
    BY <2>2, <2>6, <2>7, <2>8 DEF Called
  <2> QED
    BY <1>4, <2>9 DEF Shown
<1>5. CASE d.code = "name_mismatch"
  <2>1. PICK s \in e, t \in e, r \in d.specs :
           \E i \in Meaning(r, Compared(obs[s], N, P)), j \in Meaning(r, Compared(obs[t], N, P)) :
              i.name # j.name
    BY <1>1, <1>5 DEF Told
  <2>2. PICK i \in obs[s], j \in obs[t] : i.spec = r /\ j.spec = r /\ i.name # j.name
    BY <2>1 DEF Meaning, Compared
  <2>3. s # t
    BY <1>2, <2>2 DEF Sound
  <2>4. PICK x \in W : Facts(obs[s]) = Facts(x[s])
    BY DEF Witnessed
  <2>5. PICK y \in W : Facts(obs[t]) = Facts(y[t])
    BY DEF Witnessed
  <2>6. PICK k \in x[s] : k.name = i.name /\ k.spec = i.spec
    BY <2>4, FactsShared
  <2>7. PICK l \in y[t] : l.name = j.name /\ l.spec = j.spec
    BY <2>5, FactsShared
  <2>8. PICK m \in Moments(W) : m[1][s] = x[s] /\ m[2][t] = y[t]
    BY <2>3, OneMoment
  <2>9. k \in Meaning(r, m[1][s]) /\ l \in Meaning(r, m[2][t]) /\ k.name # l.name
    BY <2>2, <2>6, <2>7, <2>8 DEF Meaning
  <2> QED
    BY <1>5, <2>9 DEF Shown
<1> QED
  BY <1>1, <1>3, <1>4, <1>5 DEF Told

-----------------------------------------------------------------------------
(* What becomes of the differences in a verdict. *)

(* A warning of the evaluation was found in the second reading too.          *)
LEMMA WarningWasConfirmed ==
  ASSUME NEW e, NEW first, NEW reread, NEW second,
         NEW d \in Legacy(e, first, reread, second).diffs, d.code \in Warnings
  PROVE  LET built == Building(first) \cup Building(second) IN
         /\ reread /\ Observed(e, first) \subseteq DOMAIN second
         /\ d \in Candidates(Observed(e, first), second, NamesIn(built), SpecsIn(built))
<1> DEFINE shards == Observed(e, first)
           before == FirstCandidates(e, first)
           again == before # {} /\ reread /\ shards \subseteq DOMAIN second
           built == Building(first) \cup (IF again THEN Building(second) ELSE {})
           after == Candidates(shards, second, NamesIn(built), SpecsIn(built))
           stable == IF again THEN Stable(before, after) ELSE {}
           complete == shards = e /\ (before = {} \/ again)
           vague == ~complete \/ stable # before
           other == (IF vague THEN {Inconclusive} ELSE {})
                     \cup {Difference("build_in_progress", {n}, {}, {}) : n \in NamesIn(built)}
<1>1. Legacy(e, first, reread, second).diffs = stable \cup other
  BY DEF Legacy
<1>2. \A x \in other : x.code \notin Warnings
  <2>1. Inconclusive.code \notin Warnings
    BY DEF Inconclusive, Difference, Warnings
  <2>2. \A n : Difference("build_in_progress", {n}, {}, {}).code \notin Warnings
    BY DEF Difference, Warnings
  <2> HIDE DEF vague, built
  <2> QED
    BY <2>1, <2>2
<1>3. d \in stable
  <2> HIDE DEF stable, other
  <2> QED
    BY <1>1, <1>2
<1>4. stable # {} => again
  <2> HIDE DEF again
  <2> QED
    OBVIOUS
<1>5. again /\ d \in after
  <2> HIDE DEF again, after, before
  <2> QED
    BY <1>3 DEF Stable
<1>6. built = Building(first) \cup Building(second)
  <2>1. again
    BY <1>5
  <2> HIDE DEF again
  <2> QED
    BY <2>1
<1>7. reread /\ shards \subseteq DOMAIN second
  BY <1>5
<1> HIDE DEF shards, built
<1>8. d \in Candidates(shards, second, NamesIn(built), SpecsIn(built))
  BY <1>5
<1> QED
  BY <1>6, <1>7, <1>8 DEF shards

(* What is not visible, or being built, adds no warning.                     *)
LEMMA WarningsOfEvaluation ==
  ASSUME NEW v, Verdict(v), NEW lost \in BOOLEAN, NEW builds,
         NEW d \in WithBuilds(WithGap(v, lost), builds).diffs, d.code \in Warnings
  PROVE  d \in v.diffs
<1> DEFINE w == WithGap(v, lost)
<1>1. Inconclusive.code \notin Warnings
  BY DEF Inconclusive, Difference, Warnings
<1>2. \A n : Difference("build_in_progress", {n}, {}, {}).code \notin Warnings
  BY DEF Difference, Warnings
<1>3. Verdict(w)
  BY GapState
<1>4. w.diffs \subseteq v.diffs \cup {Inconclusive}
  BY DEF WithGap
<1> HIDE DEF w
<1>5. WithBuilds(w, builds).diffs =
         w.diffs \cup {Difference("build_in_progress", {n}, {}, {}) : n \in builds}
  BY <1>3 DEF WithBuilds, Verdict
<1> QED
  BY <1>1, <1>2, <1>4, <1>5 DEF w

LEMMA ShownOfMore ==
  ASSUME NEW d, NEW W, NEW e, NEW E, e \subseteq E, NEW K, Shown(d, W, e, K)
  PROVE  Shown(d, W, E, K)
<1>1. CASE d.code = "missing_on_shard"
  <2>1. /\ d.shards # {}
        /\ \A t \in d.shards : \E m \in Moments(W), s \in e, n \in d.names :
              Called(n, m[1][s]) # {} /\ SpecsIn(Called(n, m[2][t])) \subseteq K
    BY <1>1 DEF Shown
  <2>2. ASSUME NEW t \in d.shards
        PROVE  \E m \in Moments(W), s \in E, n \in d.names :
                  Called(n, m[1][s]) # {} /\ SpecsIn(Called(n, m[2][t])) \subseteq K
    <3>1. PICK m \in Moments(W), s \in e, n \in d.names :
             Called(n, m[1][s]) # {} /\ SpecsIn(Called(n, m[2][t])) \subseteq K
      BY <2>1
    <3>2. s \in E
      OBVIOUS
    <3> QED
      BY <3>1, <3>2
  <2> QED
    BY <1>1, <2>1, <2>2 DEF Shown
<1>2. CASE d.code = "spec_mismatch"
  <2>1. PICK m \in Moments(W), s \in e, t \in e, n \in d.names :
           \E i \in Called(n, m[1][s]), j \in Called(n, m[2][t]) : i.spec # j.spec
    BY <1>2 DEF Shown
  <2>2. s \in E /\ t \in E
    OBVIOUS
  <2> QED
    BY <1>2, <2>1, <2>2 DEF Shown
<1>3. CASE d.code = "name_mismatch"
  <2>1. PICK m \in Moments(W), s \in e, t \in e, r \in d.specs :
           \E i \in Meaning(r, m[1][s]), j \in Meaning(r, m[2][t]) : i.name # j.name
    BY <1>3 DEF Shown
  <2>2. s \in E /\ t \in E
    OBVIOUS
  <2> QED
    BY <1>3, <2>1, <2>2 DEF Shown
<1>4. CASE d.code \notin {"missing_on_shard", "spec_mismatch", "name_mismatch"}
  BY <1>4 DEF Shown
<1> QED
  BY <1>1, <1>2, <1>3, <1>4

-----------------------------------------------------------------------------
(* The verdict on definitions that nobody changes. *)

(* A verdict of the evaluation, if the second reading shows what the first   *)
(* one did.                                                                  *)
LEMMA EvaluationOfSame ==
  ASSUME NEW e, NEW first, NEW reread, NEW second
  PROVE  LET v == Legacy(e, first, reread, second)
             before == FirstCandidates(e, first)
         IN
         /\ v.state = "inconsistent" => before # {}
         /\ v.state = "consistent" => v.complete
         /\ v.complete => Observed(e, first) = e
         /\ v.complete /\ before # {} => reread /\ e \subseteq DOMAIN second
         /\ v.complete /\ before # {} /\ second = first => v.state = "inconsistent"
<1> DEFINE shards == Observed(e, first)
           before == FirstCandidates(e, first)
           again == before # {} /\ reread /\ shards \subseteq DOMAIN second
           built == Building(first) \cup (IF again THEN Building(second) ELSE {})
           after == Candidates(shards, second, NamesIn(built), SpecsIn(built))
           stable == IF again THEN Stable(before, after) ELSE {}
           complete == shards = e /\ (before = {} \/ again)
           vague == ~complete \/ stable # before
           state == CASE stable # {} -> "inconsistent"
                      [] stable = {} /\ (vague \/ built # {}) -> "inconclusive"
                      [] OTHER -> "consistent"
           v == Legacy(e, first, reread, second)
<1>1. v.complete = complete /\ v.state = state
  BY DEF Legacy
<1>2. state = "inconsistent" <=> stable # {}
  <2> HIDE DEF stable, vague, built
  <2> QED
    OBVIOUS
<1>3. state = "consistent" => complete
  <2> HIDE DEF stable, complete, built
  <2> QED
    OBVIOUS
<1>4. stable # {} => before # {}
  <2> HIDE DEF before, after
  <2> QED
    OBVIOUS
<1>5. complete => shards = e /\ (before # {} => reread /\ e \subseteq DOMAIN second)
  <2> HIDE DEF before, shards
  <2> QED
    OBVIOUS
<1>6. complete /\ before # {} /\ second = first => stable # {}
  <2>1. SUFFICES ASSUME complete, before # {}, second = first PROVE stable = before
    OBVIOUS
  <2>2. again
    BY <2>1
  <2>3. built = Building(first)
    <3> HIDE DEF again
    <3> QED
      BY <2>1, <2>2
  <2>4. before = Candidates(shards, first, NamesIn(Building(first)), SpecsIn(Building(first)))
    BY DEF FirstCandidates
  <2>5. after = before
    <3> HIDE DEF built, before, shards
    <3> QED
      BY <2>1, <2>3, <2>4
  <2> HIDE DEF again, after, before
  <2> QED
    BY <2>2, <2>5 DEF Stable
<1> HIDE DEF v, complete, state, stable, before, shards
<1> QED
  BY <1>1, <1>2, <1>3, <1>4, <1>5, <1>6 DEF v, before, shards

(* What is being built on the shards S, and whether two shards of e differ   *)
(* in what has neither a name in N nor a specification in P.                 *)
BuildsIn(cat, S) == NamesIn({d \in UNION {cat[s] : s \in S} : d.building})
Differ(C, e) == \E s, t \in e : Facts(C[s]) # Facts(C[t])
DifferBut(C, e, N, P) ==
    \E s, t \in e : Facts(Compared(C[s], N, P)) # Facts(Compared(C[t], N, P))

(* What the builds name, on the shards e.                                    *)
Built(C, e, builds) == {d \in UNION {C[s] : s \in e} : d.name \in builds}

LEMMA MarkedBuilds ==
  ASSUME NEW e, NEW C, \A s \in e : C[s] \in SUBSET Definitions, NEW builds,
         \A s \in e : \A d \in C[s] : d.building => d.name \in builds,
         NEW first, DOMAIN first = e, \A s \in e : first[s] = Mark(C[s], builds)
  PROVE  /\ NamesIn(Building(first)) = NamesIn(Built(C, e, builds))
         /\ SpecsIn(Building(first)) = SpecsIn(Built(C, e, builds))
<1> DEFINE B == Built(C, e, builds)
<1>1. ASSUME NEW m \in Building(first) PROVE \E d \in B : d.name = m.name /\ d.spec = m.spec
  <2>1. m \in AllOf(first) /\ m.building
    BY DEF Building
  <2>2. PICK s \in e : m \in first[s]
    BY <2>1 DEF AllOf
  <2>3. m \in Mark(C[s], builds)
    BY <2>2
  <2>4. m.name \in builds
    BY <2>1, <2>3, MarkFacts
  <2>5. Facts(Mark(C[s], builds)) = Facts(C[s])
    BY MarkFacts
  <2>6. PICK d \in C[s] : d.name = m.name /\ d.spec = m.spec
    BY <2>3, <2>5, FactsShared
  <2> QED
    BY <2>4, <2>6 DEF Built
<1>2. ASSUME NEW d \in B PROVE \E m \in Building(first) : m.name = d.name /\ m.spec = d.spec
  <2>1. PICK s \in e : d \in C[s] /\ d.name \in builds
    BY DEF Built
  <2>2. PICK m \in Mark(C[s], builds) : m.name = d.name /\ m.spec = d.spec
    BY <2>1, MarkFacts, FactsShared
  <2>3. m.building
    BY <2>1, <2>2, MarkFacts
  <2>4. m \in AllOf(first)
    BY <2>2 DEF AllOf
  <2> QED
    BY <2>2, <2>3, <2>4 DEF Building
<1> HIDE DEF B
<1>3. NamesIn(Building(first)) = NamesIn(B) /\ SpecsIn(Building(first)) = SpecsIn(B)
  BY <1>1, <1>2 DEF NamesIn, SpecsIn
<1> QED
  BY <1>3 DEF B

LEMMA CalmEvaluation ==
  ASSUME NEW e \in SUBSET Shards,
         NEW C, \A s \in e : C[s] \in SUBSET Definitions /\ OneEach(C[s]),
         NEW builds, NEW first, Observation(first), DOMAIN first \subseteq e,
         \A s \in DOMAIN first : first[s] \in {Mark(C[s], builds), Mark(Unbuilt(C[s]), builds)},
         NEW reread, NEW second, Observation(second),
         reread => /\ DOMAIN second \subseteq DOMAIN first
                   /\ \A s \in DOMAIN second : second[s] = Mark(Unbuilt(C[s]), builds)
  PROVE  LET v == Legacy(e, first, reread, second)
             B == Built(C, e, builds)
         IN
         /\ v.state = "inconsistent" => Differ(C, e)
         /\ v.complete /\ builds = BuildsIn(C, e) =>
               (v.state = "inconsistent" <=> DifferBut(C, e, NamesIn(B), SpecsIn(B)))
<1> DEFINE v == Legacy(e, first, reread, second)
           before == FirstCandidates(e, first)
           B == Built(C, e, builds)
<1>1. \A s \in DOMAIN first : Facts(first[s]) = Facts(C[s])
  <2>1. ASSUME NEW s \in DOMAIN first PROVE Facts(first[s]) = Facts(C[s])
    <3>1. C[s] \in SUBSET Definitions
      OBVIOUS
    <3>2. Facts(Mark(C[s], builds)) = Facts(C[s])
      BY <3>1, MarkFacts
    <3>3. Facts(Mark(Unbuilt(C[s]), builds)) = Facts(C[s])
      BY <3>1, MarkFacts, UnbuiltFacts
    <3> QED
      BY <3>2, <3>3
  <2> QED
    BY <2>1
<1>2. Sound(DOMAIN first, first)
  <2>1. ASSUME NEW s \in DOMAIN first
        PROVE  \A i, j \in first[s] : i.name = j.name <=> i.spec = j.spec
    <3>1. C[s] \in SUBSET Definitions /\ OneEach(C[s]) /\ Facts(first[s]) = Facts(C[s])
      BY <1>1
    <3> QED
      BY <3>1, SoundObservation
  <2> QED
    BY <2>1 DEF Sound
<1>3. before = Candidates(DOMAIN first, first, NamesIn(Building(first)), SpecsIn(Building(first)))
  <2>1. Observed(e, first) = DOMAIN first
    BY DEF Observed
  <2> QED
    BY <2>1 DEF FirstCandidates
<1>4. before # {} => \E s, t \in DOMAIN first :
                        \E i \in Compared(first[s], NamesIn(Building(first)), SpecsIn(Building(first))) :
                           Lacks(i, first[t])
  BY <1>2, <1>3, CandidateDiffers
<1> HIDE DEF before
<1>5. ASSUME v.state = "inconsistent" PROVE Differ(C, e)
  <2>1. before # {}
    BY <1>5, EvaluationOfSame DEF before
  <2>2. PICK s \in DOMAIN first, t \in DOMAIN first :
           \E i \in Compared(first[s], NamesIn(Building(first)), SpecsIn(Building(first))) :
              Lacks(i, first[t])
    BY <1>4, <2>1
  <2>3. PICK i \in first[s] : Lacks(i, first[t])
    BY <2>2 DEF Compared
  <2>4. Facts(first[s]) # Facts(first[t])
    BY <2>3, FactsShared DEF Lacks
  <2> QED
    BY <1>1, <2>4 DEF Differ
<1>6. ASSUME v.complete, builds = BuildsIn(C, e)
      PROVE  v.state = "inconsistent" <=> DifferBut(C, e, NamesIn(B), SpecsIn(B))
  <2>1. DOMAIN first = e
    <3>1. Observed(e, first) = e
      BY <1>6, EvaluationOfSame
    <3> QED
      BY <3>1 DEF Observed
  <2>2. \A s \in e : \A d \in C[s] : d.building => d.name \in builds
    BY <1>6 DEF BuildsIn, NamesIn
  <2>3. \A s \in e : Mark(Unbuilt(C[s]), builds) = Mark(C[s], builds)
    BY <2>2, MarkRestores
  <2>4. \A s \in e : first[s] = Mark(C[s], builds)
    BY <2>1, <2>3
  <2>5. NamesIn(Building(first)) = NamesIn(B) /\ SpecsIn(Building(first)) = SpecsIn(B)
    <3>1. \A s \in e : C[s] \in SUBSET Definitions
      OBVIOUS
    <3> HIDE DEF v
    <3> QED
      BY <2>1, <2>2, <2>4, <3>1, MarkedBuilds
  <2> DEFINE N == NamesIn(B)
             P == SpecsIn(B)
  <2>6. before = Candidates(e, first, N, P)
    BY <1>3, <2>1, <2>5
  <2> HIDE DEF N, P, B, v
  <2>10. ASSUME NEW s \in e
         PROVE  /\ \A i \in first[s] : \E k \in C[s] : k.name = i.name /\ k.spec = i.spec
                /\ \A k \in C[s] : \E i \in first[s] : i.name = k.name /\ i.spec = k.spec
    <3>1. Facts(first[s]) = Facts(C[s])
      BY <1>1, <2>1
    <3>2. \A i \in first[s] : \E k \in C[s] : k.name = i.name /\ k.spec = i.spec
      BY <3>1, FactsShared
    <3>3. \A k \in C[s] : \E i \in first[s] : i.name = k.name /\ i.spec = k.spec
      BY <3>1, FactsShared
    <3> QED
      BY <3>2, <3>3
  <2>7. CASE before = {}
    <3>1. v.state # "inconsistent"
      BY <2>7, EvaluationOfSame DEF before, v
    <3>2. IsFiniteSet(e)
      BY ConsistencyAssumption, FS_Subset
    <3>3. ASSUME NEW s \in e, NEW t \in e, NEW k \in Compared(C[s], N, P)
          PROVE  \E l \in Compared(C[t], N, P) : l.name = k.name /\ l.spec = k.spec
      <4>1. k \in C[s] /\ k.name \notin N /\ k.spec \notin P
        BY DEF Compared
      <4>2. PICK i \in first[s] : i.name = k.name /\ i.spec = k.spec
        BY <2>10, <4>1
      <4>3. i \in Compared(first[s], N, P)
        BY <4>1, <4>2 DEF Compared
      <4>4. PICK j \in Compared(first[t], N, P) : j.name = i.name /\ j.spec = i.spec
        <5>1. Candidates(e, first, N, P) = {}
          BY <2>6, <2>7
        <5> HIDE DEF Compared
        <5> QED
          BY <2>1, <3>2, <4>3, <5>1, NoCandidate
      <4>5. j \in first[t] /\ j.name \notin N /\ j.spec \notin P
        BY DEF Compared
      <4>6. PICK l \in C[t] : l.name = j.name /\ l.spec = j.spec
        BY <2>10, <4>5
      <4>7. l \in Compared(C[t], N, P)
        BY <4>5, <4>6 DEF Compared
      <4> QED
        BY <4>2, <4>4, <4>6, <4>7
    <3>4. \A s, t \in e : Facts(Compared(C[s], N, P)) = Facts(Compared(C[t], N, P))
      BY <3>3, FactsOf
    <3> QED
      BY <3>1, <3>4 DEF N, P, DifferBut
  <2>8. CASE before # {}
    <3>1. reread /\ e \subseteq DOMAIN second
      BY <1>6, <2>8, EvaluationOfSame DEF before, v
    <3>2. DOMAIN second = e /\ \A s \in e : second[s] = first[s]
      BY <2>1, <2>3, <2>4, <3>1
    <3>3. second = first
      BY <2>1, <3>2 DEF Observation
    <3>4. v.state = "inconsistent"
      BY <1>6, <2>8, <3>3, EvaluationOfSame DEF before, v
    <3>5. PICK s \in e, t \in e : \E i \in Compared(first[s], N, P) : Lacks(i, first[t])
      BY <1>4, <2>1, <2>5, <2>8 DEF N, P
    <3>6. PICK i \in first[s] : i.name \notin N /\ i.spec \notin P /\ Lacks(i, first[t])
      BY <3>5 DEF Compared
    <3>7. PICK k \in C[s] : k.name = i.name /\ k.spec = i.spec
      BY <2>10, <3>6
    <3>8. k \in Compared(C[s], N, P)
      BY <3>6, <3>7 DEF Compared
    <3>9. ASSUME NEW l \in Compared(C[t], N, P), l.name = k.name, l.spec = k.spec PROVE FALSE
      <4>1. l \in C[t]
        BY DEF Compared
      <4>2. PICK j \in first[t] : j.name = l.name /\ j.spec = l.spec
        BY <2>10, <4>1
      <4> QED
        BY <3>6, <3>7, <3>9, <4>2 DEF Lacks
    <3>10. Facts(Compared(C[s], N, P)) # Facts(Compared(C[t], N, P))
      BY <3>8, <3>9, FactsShared
    <3> QED
      BY <3>4, <3>10 DEF N, P, DifferBut
  <2> QED
    BY <2>7, <2>8
<1> QED
  BY <1>5, <1>6

(***************************************************************************)
(* The invariant.                                                          *)
(***************************************************************************)
CatalogOK(c) ==
    /\ catalog[c] \in was[c]
    /\ Catalogued(was[c])

SeenOK(c, a) ==
    /\ a.seen.shards \subseteq Shards
    /\ a.seen.err = "none" => \E cat \in was[c] : a.seen.builds = BuildsIn(cat, a.seen.shards)

(* The first observation is of catalogs the collection has had; its builds   *)
(* are marked when it is weighed.                                            *)
Raw(c, a) ==
    \A s \in DOMAIN a.first : \E cat \in was[c] : a.first[s] \in {cat[s], Unbuilt(cat[s])}
Marked(c, a) ==
    \A s \in DOMAIN a.first : \E cat \in was[c] :
        a.first[s] \in {Mark(cat[s], a.seen.builds), Mark(Unbuilt(cat[s]), a.seen.builds)}
FirstOK(c, a) ==
    /\ DOMAIN a.first \subseteq Shards
    /\ a.at = "stats" => a.first = Nothing
    /\ a.at \in {"reading", "judge", "direct", "weigh"} => Raw(c, a)
    /\ a.at \in {"confirm", "finish"} => Marked(c, a)

(* The second one is of catalogs since the first was weighed, but for shards *)
(* that are not expected.                                                    *)
SecondOK(c, a) ==
    /\ a.reread => a.at \in {"confirm", "finish", "done"}
    /\ a.at = "confirm" => a.reread /\ a.todo \subseteq DOMAIN a.first
    /\ a.reread =>
          /\ DOMAIN a.second \subseteq DOMAIN a.first
          /\ catalog[c] \in lately[c] /\ lately[c] \subseteq was[c] /\ Close(lately[c])
          /\ \A s \in DOMAIN a.second \cap Expected(c) : \E cat \in lately[c] :
                a.second[s] = Mark(Unbuilt(cat[s]), a.seen.builds)

(* What is said in the end.                                                  *)
OfDefinitions(a) == a.strategy \in {"stats", "direct"}
RealWarnings(c, a) ==
    OfDefinitions(a) /\ DOMAIN a.first \subseteq Expected(c) =>
        \A d \in a.verdict.diffs : d.code \in Warnings =>
            Shown(d, lately[c], Expected(c), SpecsIn(Building(a.first) \cup Building(a.second)))
RightVerdict(c, a) ==
    /\ OfDefinitions(a) /\ Calm(c)
    /\ DOMAIN a.first \subseteq Expected(c) /\ a.seen.shards \subseteq Expected(c)
    => /\ a.verdict.state = "inconsistent" => ~Alike(c)
       /\ a.verdict.state = "consistent" => Alike(c)
       /\ a.verdict.complete => (a.verdict.state = "inconsistent" <=> ~Agree(c))

HistoryOK(c, a) ==
    /\ CatalogOK(c)
    /\ SeenOK(c, a) /\ FirstOK(c, a) /\ SecondOK(c, a)
    /\ a.at = "done" => RealWarnings(c, a) /\ RightVerdict(c, a)

HistoryInv ==
    /\ DOMAIN was = Collections /\ DOMAIN lately = Collections
    /\ \A c \in Collections : HistoryOK(c, audit[c])

-----------------------------------------------------------------------------
(* What the steps of others leave alone. *)

LEMMA HistoryStable ==
  ASSUME NEW c, catalog'[c] = catalog[c], was'[c] = was[c], lately'[c] = lately[c],
         routing'[c] = routing[c], NEW a, HistoryOK(c, a)
  PROVE  HistoryOK(c, a)'
<1>1. Expected(c)' = Expected(c)
  BY DEF Expected
<1>2. CatalogOK(c)'
  BY DEF HistoryOK, CatalogOK
<1>3. SeenOK(c, a)' /\ FirstOK(c, a)'
  BY DEF HistoryOK, SeenOK, FirstOK, Raw, Marked
<1>4. SecondOK(c, a)'
  BY <1>1 DEF HistoryOK, SecondOK
<1>5. RealWarnings(c, a) => RealWarnings(c, a)'
  BY <1>1 DEF RealWarnings
<1>6. (Calm(c)' <=> Calm(c)) /\ (Alike(c)' <=> Alike(c))
  BY <1>1 DEF Calm, Alike
<1>7. Agree(c)' <=> Agree(c)
  <2>1. InBuild(c)' = InBuild(c)
    BY <1>1 DEF InBuild
  <2>2. \A s : Settled(c, s)' = Settled(c, s)
    BY <2>1 DEF Settled
  <2> QED
    BY <1>1, <2>2 DEF Agree
<1>8. RightVerdict(c, a) => RightVerdict(c, a)'
  BY <1>1, <1>6, <1>7 DEF RightVerdict
<1> QED
  BY <1>2, <1>3, <1>4, <1>5, <1>8 DEF HistoryOK

(* A step of one goroutine.                                                  *)
LEMMA HistoryMoves ==
  ASSUME ConsistencyInv, HistoryInv, NEW c \in Collections, NEW b, Becomes(c, b),
         UNCHANGED <<catalog, was, routing>>,
         DOMAIN lately' = Collections,
         \A k \in Collections \ {c} : lately'[k] = lately[k],
         HistoryOK(c, b)'
  PROVE  HistoryInv'
<1>1. audit'[c] = b /\ \A k \in Collections \ {c} : audit'[k] = audit[k]
  BY DEF ConsistencyInv, AuditsOK, Becomes
<1>2. ASSUME NEW k \in Collections PROVE HistoryOK(k, audit[k])'
  <2>1. CASE k = c
    BY <1>1, <2>1
  <2>2. CASE k # c
    BY <1>1, <2>2, HistoryStable DEF HistoryInv
  <2> QED
    BY <2>1, <2>2
<1> QED
  BY <1>2 DEF HistoryInv

LEMMA HistoryGoes ==
  ASSUME ConsistencyInv, HistoryInv, NEW c \in Collections, NEW b, Becomes(c, b),
         UNCHANGED <<catalog, was, lately, routing>>, HistoryOK(c, b)
  PROVE  HistoryInv'
<1>1. HistoryOK(c, b)'
  BY HistoryStable
<1> QED
  BY <1>1, HistoryMoves DEF HistoryInv

(* Steps that leave every audit alone.                                       *)
LEMMA HistoryRests ==
  ASSUME ConsistencyInv, HistoryInv, UNCHANGED <<catalog, was, lately, audit>>,
         \A c \in Collections : routing'[c] = routing[c]
  PROVE  HistoryInv'
<1>1. ASSUME NEW k \in Collections PROVE HistoryOK(k, audit[k])'
  BY HistoryStable DEF HistoryInv
<1> QED
  BY <1>1 DEF HistoryInv

(* The routing is read before any audit starts.                              *)
LEMMA NewAuditFacts ==
  /\ NewAudit.at = "queued" /\ NewAudit.seen.shards = {} /\ NewAudit.seen.err # "none"
  /\ DOMAIN NewAudit.first = {} /\ ~NewAudit.reread
BY DEF NewAudit, NotSeen, Nothing, Unread

LEMMA HistoryReadRouting ==
  ASSUME ConsistencyInv, HistoryInv, NEW c \in Collections, ReadRouting(c)
  PROVE  HistoryInv'
<1>1. UNCHANGED <<catalog, was, lately, audit>> /\ phase = "routing"
  BY DEF ReadRouting, cluster
<1>2. ASSUME NEW k \in Collections PROVE HistoryOK(k, audit[k])'
  <2>1. audit[k] = NewAudit
    BY <1>1 DEF ConsistencyInv, AuditsOK, AuditOK
  <2>2. CatalogOK(k)'
    BY <1>1 DEF HistoryInv, HistoryOK, CatalogOK
  <2>3. HistoryOK(k, NewAudit)'
    <3> HIDE DEF NewAudit
    <3> QED
      BY <2>2, NewAuditFacts DEF HistoryOK, SeenOK, FirstOK, SecondOK
  <2> QED
    BY <1>1, <2>1, <2>3
<1> QED
  BY <1>1, <1>2 DEF HistoryInv

LEMMA HistoryDispatch ==
  ASSUME ConsistencyInv, HistoryInv, NEW c \in Collections, Dispatch(c)
  PROVE  HistoryInv'
<1> DEFINE a == audit[c]
           b == [audit[c] EXCEPT !.at = "start", !.strategy = target.strategy,
                     !.official = IF ByDatabase THEN OfNamespace(c) ELSE @]
<1>1. /\ Becomes(c, b) /\ a.at = "queued"
      /\ UNCHANGED <<catalog, was, lately, routing>>
  BY DEF Dispatch, cluster, discovered, Queued
<1>2. DOMAIN a = Fields
  BY DEF ConsistencyInv, AuditsOK, AuditOK, AuditType
<1>3. b.at = "start" /\ b.seen = a.seen /\ b.first = a.first /\ b.reread = a.reread
  BY <1>2 DEF Fields
<1> HIDE DEF b
<1>4. HistoryOK(c, a)
  BY DEF HistoryInv
<1>5. HistoryOK(c, b)
  BY <1>1, <1>3, <1>4 DEF HistoryOK, SeenOK, FirstOK, SecondOK
<1> QED
  BY <1>1, <1>5, HistoryGoes

(* A verdict that says nothing.                                              *)
LEMMA QuietEnd ==
  ASSUME NEW c, NEW a, HistoryOK(c, a), ~a.reread, NEW b, NEW v,
         DOMAIN b = Fields, b.seen = a.seen, b.first = a.first, ~b.reread,
         v \in {Skipped, Incomplete}
  PROVE  HistoryOK(c, [b EXCEPT !.at = "done", !.verdict = v])
<1> DEFINE d == [b EXCEPT !.at = "done", !.verdict = v]
<1>1. /\ d.at = "done" /\ d.seen = a.seen /\ d.first = a.first /\ ~d.reread
      /\ d.verdict = v /\ d.second = b.second
  BY DEF Fields
<1>2. v.state \in {"skipped", "inconclusive"} /\ v.complete = FALSE
      /\ \A x \in v.diffs : x.code \notin Warnings
  BY DEF Skipped, Incomplete, NoVerdict, Inconclusive, Difference, Warnings
<1> HIDE DEF d
<1>3. RealWarnings(c, d) /\ RightVerdict(c, d)
  BY <1>1, <1>2 DEF RealWarnings, RightVerdict
<1>4. SeenOK(c, d) /\ FirstOK(c, d) /\ SecondOK(c, d)
  BY <1>1 DEF HistoryOK, SeenOK, FirstOK, SecondOK
<1>5. HistoryOK(c, d)
  BY <1>3, <1>4 DEF HistoryOK
<1> QED
  BY <1>5 DEF d

LEMMA HistoryStart ==
  ASSUME ConsistencyInv, HistoryInv, NEW c \in Collections, Start(c)
  PROVE  HistoryInv'
<1> DEFINE a == audit[c]
<1>1. /\ a.at = "start" /\ UNCHANGED <<catalog, was, lately, routing>>
  BY DEF Start, cluster, discovered
<1>2. DOMAIN a = Fields /\ HistoryOK(c, a)
  BY DEF ConsistencyInv, AuditsOK, AuditOK, AuditType, HistoryInv
<1>3. ~a.reread
  BY <1>1, <1>2 DEF HistoryOK, SecondOK
<1>4. CASE Conclude(c, audit[c], Skipped)
  <2>1. HistoryOK(c, [a EXCEPT !.at = "done", !.verdict = Skipped])
    BY <1>2, <1>3, QuietEnd
  <2> QED
    BY <1>1, <1>4, <2>1, HistoryGoes DEF Conclude
<1>5. CASE Conclude(c, [audit[c] EXCEPT !.faulty = ~Excused(WhyBlocked(c))], Incomplete)
  <2> DEFINE b == [audit[c] EXCEPT !.faulty = ~Excused(WhyBlocked(c))]
  <2>1. DOMAIN b = Fields /\ b.seen = a.seen /\ b.first = a.first /\ ~b.reread
    BY <1>2, <1>3 DEF Fields
  <2> HIDE DEF b
  <2>2. HistoryOK(c, [b EXCEPT !.at = "done", !.verdict = Incomplete])
    BY <1>2, <1>3, <2>1, QuietEnd
  <2>3. Becomes(c, [b EXCEPT !.at = "done", !.verdict = Incomplete])
    BY <1>5 DEF Conclude, b
  <2> QED
    BY <1>1, <2>2, <2>3, HistoryGoes
<1>6. CASE Becomes(c, [audit[c] EXCEPT !.at =
                 IF @ = "start" /\ target.strategy = "metadata" /\ filtered
                 THEN "metadata" ELSE "visibility"])
  <2> DEFINE b == [audit[c] EXCEPT !.at =
                 IF @ = "start" /\ target.strategy = "metadata" /\ filtered
                 THEN "metadata" ELSE "visibility"]
  <2>1. /\ b.at \in {"metadata", "visibility"} /\ b.seen = a.seen /\ b.first = a.first
        /\ b.reread = a.reread
    BY <1>2 DEF Fields
  <2> HIDE DEF b
  <2>2. HistoryOK(c, b)
    BY <1>2, <1>3, <2>1 DEF HistoryOK, SeenOK, FirstOK, SecondOK
  <2>3. Becomes(c, b)
    BY <1>6 DEF b
  <2> QED
    BY <1>1, <2>2, <2>3, HistoryGoes
<1> QED
  BY <1>4, <1>5, <1>6 DEF Start

LEMMA HistoryReadMetadata ==
  ASSUME ConsistencyInv, HistoryInv, NEW c \in Collections, ReadMetadata(c)
  PROVE  HistoryInv'
<1> DEFINE a == audit[c]
<1>1. /\ a.at = "metadata" /\ UNCHANGED <<catalog, was, lately, routing>>
  BY DEF ReadMetadata, cluster, discovered
<1>2. DOMAIN a = Fields /\ HistoryOK(c, a)
  BY DEF ConsistencyInv, AuditsOK, AuditOK, AuditType, HistoryInv
<1>3. ASSUME NEW s, Becomes(c, [audit[c] EXCEPT !.at = "visibility", !.official = s])
      PROVE  HistoryInv'
  <2> DEFINE b == [audit[c] EXCEPT !.at = "visibility", !.official = s]
  <2>1. b.at = "visibility" /\ b.seen = a.seen /\ b.first = a.first /\ b.reread = a.reread
    BY <1>2 DEF Fields
  <2> HIDE DEF b
  <2>2. HistoryOK(c, b)
    BY <1>1, <1>2, <2>1 DEF HistoryOK, SeenOK, FirstOK, SecondOK
  <2>3. Becomes(c, b)
    BY <1>3 DEF b
  <2> QED
    BY <1>1, <2>2, <2>3, HistoryGoes
<1> QED
  BY <1>3 DEF ReadMetadata

LEMMA HistoryReadVisibility ==
  ASSUME ConsistencyInv, HistoryInv, NEW c \in Collections, ReadVisibility(c)
  PROVE  HistoryInv'
<1> DEFINE a == audit[c]
<1>1. /\ a.at = "visibility" /\ UNCHANGED <<catalog, was, lately, routing>>
  BY DEF ReadVisibility, cluster, discovered
<1>2. DOMAIN a = Fields /\ HistoryOK(c, a) /\ a.first = Nothing
  BY <1>1 DEF ConsistencyInv, AuditsOK, AuditOK, AuditType, PlaceOK, Early, HistoryInv
<1>3. ASSUME NEW s, s.shards \subseteq Shards,
             s.err = "none" => s.builds = BuildsIn(catalog[c], s.shards),
             Becomes(c, [audit[c] EXCEPT !.at = "choose", !.seen = s])
      PROVE  HistoryInv'
  <2> DEFINE b == [audit[c] EXCEPT !.at = "choose", !.seen = s]
  <2>1. b.at = "choose" /\ b.seen = s /\ b.first = Nothing /\ b.reread = a.reread
    BY <1>2 DEF Fields
  <2> HIDE DEF b
  <2>2. SeenOK(c, b)
    BY <1>2, <1>3, <2>1 DEF SeenOK, HistoryOK, CatalogOK
  <2>3. HistoryOK(c, b)
    BY <1>1, <1>2, <2>1, <2>2 DEF HistoryOK, FirstOK, SecondOK
  <2>4. Becomes(c, b)
    BY <1>3 DEF b
  <2> QED
    BY <1>1, <2>3, <2>4, HistoryGoes
<1>4. ASSUME NEW S \in {owners[c]} \cup {owners[c] \ {s} : s \in owners[c]},
             Becomes(c, [audit[c] EXCEPT !.at = "choose", !.seen =
                [err |-> "none", shards |-> S,
                 builds |-> NamesIn({d \in UNION {catalog[c][s] : s \in S} : d.building})]])
      PROVE  HistoryInv'
  <2> DEFINE s == [err |-> "none", shards |-> S, builds |-> BuildsIn(catalog[c], S)]
  <2>1. S \subseteq Shards
    BY DEF ConsistencyInv, ClusterOK
  <2>2. s.shards = S /\ s.builds = BuildsIn(catalog[c], S)
    OBVIOUS
  <2>3. Becomes(c, [audit[c] EXCEPT !.at = "choose", !.seen = s])
    BY <1>4 DEF BuildsIn
  <2> HIDE DEF s
  <2> QED
    BY <1>3, <2>1, <2>2, <2>3
<1>5. ASSUME NEW e \in Why,
             Becomes(c, [audit[c] EXCEPT !.at = "choose", !.seen = [NotSeen EXCEPT !.err = e]])
      PROVE  HistoryInv'
  <2> DEFINE s == [NotSeen EXCEPT !.err = e]
  <2>1. s.shards = {} /\ s.err # "none"
    BY WhyIsReason DEF NotSeen, Reasons
  <2> HIDE DEF s
  <2> QED
    BY <1>3, <1>5, <2>1 DEF s
<1> QED
  BY <1>4, <1>5 DEF ReadVisibility

(* A step before the second reading.                                         *)
Unconfirmed == {"choose", "stats", "reading", "judge", "direct", "weigh", "cut"}

LEMMA HistoryAdvances ==
  ASSUME ConsistencyInv, HistoryInv, NEW c \in Collections, NEW b, Becomes(c, b),
         UNCHANGED <<catalog, was, lately, routing>>,
         audit[c].at \in Unconfirmed, b.at \in Unconfirmed \cup {"finish"},
         b.seen = audit[c].seen, b.reread = audit[c].reread, FirstOK(c, b)
  PROVE  HistoryInv'
<1>1. HistoryOK(c, audit[c])
  BY DEF HistoryInv
<1>2. HistoryOK(c, b)
  BY <1>1 DEF HistoryOK, SeenOK, SecondOK, Unconfirmed
<1> QED
  BY <1>2, HistoryGoes

LEMMA FirstOfNothing ==
  ASSUME NEW c, NEW b, b.first = Nothing
  PROVE  FirstOK(c, b)
<1>1. DOMAIN Nothing = {}
  BY DEF Nothing
<1> QED
  BY <1>1 DEF FirstOK, Raw, Marked

LEMMA HistoryChoose ==
  ASSUME ConsistencyInv, HistoryInv, NEW c \in Collections, Choose(c)
  PROVE  HistoryInv'
<1> DEFINE a == audit[c]
           b == [a EXCEPT !.faulty = @ \/ ~Excused(a.official.err)]
<1>1. /\ a.at = "choose" /\ UNCHANGED <<catalog, was, lately, routing>>
  BY DEF Choose, cluster, discovered
<1>2. DOMAIN a = Fields /\ HistoryOK(c, a) /\ a.first = Nothing /\ ~a.reread
  BY <1>1 DEF ConsistencyInv, AuditsOK, AuditOK, AuditType, PlaceOK, Early, HistoryInv,
              HistoryOK, SecondOK
<1>3. ASSUME NEW d, Becomes(c, d), d.at \in {"stats", "finish", "direct"},
             d.seen = a.seen, d.first = Nothing, d.reread = a.reread
      PROVE  HistoryInv'
  <2>1. FirstOK(c, d)
    BY <1>3, FirstOfNothing
  <2> QED
    BY <1>1, <1>3, <2>1, HistoryAdvances DEF Unconfirmed
<1>4. CASE Conclude(c, b, Incomplete)
  <2>1. DOMAIN b = Fields /\ b.seen = a.seen /\ b.first = a.first /\ ~b.reread
    BY <1>2 DEF Fields
  <2> HIDE DEF b
  <2>2. HistoryOK(c, [b EXCEPT !.at = "done", !.verdict = Incomplete])
    BY <1>2, <2>1, QuietEnd
  <2> QED
    BY <1>1, <1>4, <2>2, HistoryGoes DEF Conclude
<1>5. CASE Becomes(c, [b EXCEPT !.at = "stats", !.strategy = "stats",
                                !.fallback = FallBack(a, "stats", a.official.err)])
  <2> DEFINE d == [b EXCEPT !.at = "stats", !.strategy = "stats",
                            !.fallback = FallBack(a, "stats", a.official.err)]
  <2>1. d.at = "stats" /\ d.seen = a.seen /\ d.first = a.first /\ d.reread = a.reread
    BY <1>2 DEF Fields
  <2> HIDE DEF d, b
  <2> QED
    BY <1>2, <1>3, <1>5, <2>1 DEF d
<1>6. CASE Becomes(c, [a EXCEPT !.at = "finish"])
  <2> DEFINE d == [a EXCEPT !.at = "finish"]
  <2>1. d.at = "finish" /\ d.seen = a.seen /\ d.first = a.first /\ d.reread = a.reread
    BY <1>2 DEF Fields
  <2> HIDE DEF d
  <2> QED
    BY <1>2, <1>3, <1>6, <2>1 DEF d
<1>7. CASE Becomes(c, [a EXCEPT !.at = "stats"])
  <2> DEFINE d == [a EXCEPT !.at = "stats"]
  <2>1. d.at = "stats" /\ d.seen = a.seen /\ d.first = a.first /\ d.reread = a.reread
    BY <1>2 DEF Fields
  <2> HIDE DEF d
  <2> QED
    BY <1>2, <1>3, <1>7, <2>1 DEF d
<1>8. CASE Becomes(c, ToDirect(c, a))
  <2>1. /\ ToDirect(c, a).at = "direct" /\ ToDirect(c, a).seen = a.seen
        /\ ToDirect(c, a).first = Nothing /\ ToDirect(c, a).reread = a.reread
    BY <1>2 DEF ToDirect, Fields
  <2> QED
    BY <1>3, <1>8, <2>1
<1> QED
  BY <1>4, <1>5, <1>6, <1>7, <1>8 DEF Choose

LEMMA HistoryStatsFail ==
  ASSUME ConsistencyInv, HistoryInv, NEW c \in Collections, StatsFail(c)
  PROVE  HistoryInv'
<1> DEFINE a == audit[c]
<1>1. /\ a.at \in Unconfirmed /\ UNCHANGED <<catalog, was, lately, routing>>
  BY DEF StatsFail, cluster, discovered, Unconfirmed
<1>2. DOMAIN a = Fields
  BY DEF ConsistencyInv, AuditsOK, AuditOK, AuditType
<1>3. PICK e \in Why : Becomes(c, [a EXCEPT !.at = "judge", !.why = e, !.first = Nothing])
  BY DEF StatsFail
<1> DEFINE d == [a EXCEPT !.at = "judge", !.why = e, !.first = Nothing]
<1>4. d.at = "judge" /\ d.seen = a.seen /\ d.first = Nothing /\ d.reread = a.reread
  BY <1>2 DEF Fields
<1> HIDE DEF d
<1>5. FirstOK(c, d)
  BY <1>4, FirstOfNothing
<1> QED
  BY <1>1, <1>3, <1>4, <1>5, HistoryAdvances DEF d, Unconfirmed

LEMMA HistoryStartStats ==
  ASSUME ConsistencyInv, HistoryInv, NEW c \in Collections, StartStats(c)
  PROVE  HistoryInv'
<1> DEFINE a == audit[c]
           d == [a EXCEPT !.at = "reading", !.todo = owners[c]]
<1>1. /\ a.at = "stats" /\ UNCHANGED <<catalog, was, lately, routing>> /\ Becomes(c, d)
  BY DEF StartStats, cluster, discovered
<1>2. DOMAIN a = Fields /\ HistoryOK(c, a)
  BY DEF ConsistencyInv, AuditsOK, AuditOK, AuditType, HistoryInv
<1>3. d.at = "reading" /\ d.seen = a.seen /\ d.first = a.first /\ d.reread = a.reread
  BY <1>2 DEF Fields
<1> HIDE DEF d
<1>4. d.first = Nothing
  BY <1>1, <1>2, <1>3 DEF HistoryOK, FirstOK
<1>5. FirstOK(c, d)
  BY <1>4, FirstOfNothing
<1> QED
  BY <1>1, <1>3, <1>5, HistoryAdvances DEF Unconfirmed

(* One more shard is read.                                                   *)
LEMMA FirstOfMore ==
  ASSUME NEW c, NEW a, NEW b, HistoryOK(c, a), a.at \in {"reading", "direct"},
         b.at \in {"reading", "judge", "direct", "weigh"},
         NEW s \in Shards, NEW D \in {catalog[c][s], Unbuilt(catalog[c][s])},
         b.first = With(a.first, s, D)
  PROVE  FirstOK(c, b)
<1>1. Raw(c, a) /\ catalog[c] \in was[c] /\ DOMAIN a.first \subseteq Shards
  BY DEF HistoryOK, FirstOK, CatalogOK
<1>2. DOMAIN b.first = DOMAIN a.first \cup {s}
  BY DEF With
<1>3. \A t \in DOMAIN b.first : b.first[t] = IF t = s THEN D ELSE a.first[t]
  BY DEF With
<1>4. Raw(c, b)
  BY <1>1, <1>2, <1>3 DEF Raw
<1> QED
  BY <1>1, <1>2, <1>4 DEF FirstOK

LEMMA HistoryReadStats ==
  ASSUME ConsistencyInv, HistoryInv, NEW c \in Collections, ReadStats(c)
  PROVE  HistoryInv'
<1> DEFINE a == audit[c]
<1>1. /\ a.at = "reading" /\ UNCHANGED <<catalog, was, lately, routing>>
  BY DEF ReadStats, cluster, discovered
<1>2. DOMAIN a = Fields /\ HistoryOK(c, a) /\ a.todo \subseteq Shards
  BY DEF ConsistencyInv, AuditsOK, AuditOK, AuditType, HistoryInv
<1>3. PICK s \in a.todo :
         Becomes(c, [a EXCEPT !.todo = @ \ {s}, !.first = With(@, s, catalog[c][s]),
                              !.at = IF a.todo = {s} THEN "judge" ELSE @])
  BY DEF ReadStats
<1> DEFINE d == [a EXCEPT !.todo = @ \ {s}, !.first = With(@, s, catalog[c][s]),
                              !.at = IF a.todo = {s} THEN "judge" ELSE @]
<1>4. /\ d.at \in {"reading", "judge"} /\ d.seen = a.seen /\ d.reread = a.reread
      /\ d.first = With(a.first, s, catalog[c][s])
  BY <1>1, <1>2 DEF Fields
<1>5. Becomes(c, d)
  BY <1>3
<1> HIDE DEF d
<1>6. FirstOK(c, d)
  BY <1>1, <1>2, <1>4, FirstOfMore
<1> QED
  BY <1>1, <1>4, <1>5, <1>6, HistoryAdvances DEF Unconfirmed

LEMMA HistoryJudge ==
  ASSUME ConsistencyInv, HistoryInv, NEW c \in Collections, Judge(c)
  PROVE  HistoryInv'
<1> DEFINE a == audit[c]
           reason == IF a.why = "none" THEN "incomplete_coverage" ELSE a.why
           b == [a EXCEPT !.faulty = @ \/ ~Excused(a.why)]
<1>1. /\ a.at = "judge" /\ UNCHANGED <<catalog, was, lately, routing>>
  BY DEF Judge, cluster, discovered
<1>2. DOMAIN a = Fields /\ HistoryOK(c, a)
  BY DEF ConsistencyInv, AuditsOK, AuditOK, AuditType, HistoryInv
<1>3. CASE Becomes(c, [a EXCEPT !.at = "weigh"])
  <2> DEFINE d == [a EXCEPT !.at = "weigh"]
  <2>1. d.at = "weigh" /\ d.seen = a.seen /\ d.first = a.first /\ d.reread = a.reread
    BY <1>2 DEF Fields
  <2> HIDE DEF d
  <2>2. FirstOK(c, d)
    BY <1>1, <1>2, <2>1 DEF HistoryOK, FirstOK, Raw
  <2> QED
    BY <1>1, <1>3, <2>1, <2>2, HistoryAdvances DEF d, Unconfirmed
<1>4. CASE Becomes(c, [b EXCEPT !.at = "cut"])
  <2> DEFINE d == [b EXCEPT !.at = "cut"]
  <2>1. d.at = "cut" /\ d.seen = a.seen /\ d.first = a.first /\ d.reread = a.reread
    BY <1>2 DEF Fields
  <2> HIDE DEF d, b
  <2>2. FirstOK(c, d)
    BY <1>1, <1>2, <2>1 DEF HistoryOK, FirstOK
  <2> QED
    BY <1>1, <1>4, <2>1, <2>2, HistoryAdvances DEF d, Unconfirmed
<1>5. CASE Becomes(c, ToDirect(c, [b EXCEPT !.strategy = "direct",
                                            !.fallback = FallBack(a, "direct", reason)]))
  <2> DEFINE d == ToDirect(c, [b EXCEPT !.strategy = "direct",
                                        !.fallback = FallBack(a, "direct", reason)])
  <2>1. d.at = "direct" /\ d.seen = a.seen /\ d.first = Nothing /\ d.reread = a.reread
    BY <1>2 DEF Fields, ToDirect
  <2> HIDE DEF d, b
  <2>2. FirstOK(c, d)
    BY <2>1, FirstOfNothing
  <2> QED
    BY <1>1, <1>5, <2>1, <2>2, HistoryAdvances DEF d, Unconfirmed
<1> QED
  BY <1>3, <1>4, <1>5 DEF Judge

LEMMA HistoryReadDirect ==
  ASSUME ConsistencyInv, HistoryInv, NEW c \in Collections, ReadDirect(c)
  PROVE  HistoryInv'
<1> DEFINE a == audit[c]
           s == Least(a.todo)
           observed == [a EXCEPT !.first = With(@, s, Listed(c, s)), !.todo = @ \ {s},
                                 !.at = IF a.todo = {s} THEN "weigh" ELSE @]
           fault == [a EXCEPT !.faulty = TRUE, !.todo = {}, !.at = "weigh"]
           pass(e) == [a EXCEPT !.faulty = @ \/ ~Excused(e), !.todo = a.todo \ {s},
                                !.at = IF a.todo \ {s} = {} THEN "weigh" ELSE @]
<1>1. /\ a.at = "direct" /\ UNCHANGED <<catalog, was, lately, routing>>
  BY DEF ReadDirect, cluster, discovered
<1>2. DOMAIN a = Fields /\ HistoryOK(c, a) /\ a.todo \subseteq Shards /\ a.todo # {}
  BY <1>1 DEF ConsistencyInv, AuditsOK, AuditOK, AuditType, PlaceOK, HistoryInv
<1>3. s \in Shards
  BY <1>2, LeastIsMember, ConsistencyAssumption
<1>4. ASSUME NEW d, Becomes(c, d), d.at \in {"direct", "weigh"}, d.seen = a.seen,
             d.reread = a.reread, d.first = a.first
      PROVE  HistoryInv'
  <2>1. FirstOK(c, d)
    BY <1>1, <1>2, <1>4 DEF HistoryOK, FirstOK, Raw
  <2> QED
    BY <1>1, <1>4, <2>1, HistoryAdvances DEF Unconfirmed
<1>5. \/ Becomes(c, fault) \/ Becomes(c, observed)
      \/ \E e \in Reasons : Becomes(c, pass(e))
  BY DEF ReadDirect, ReadShard
<1>6. CASE Becomes(c, fault)
  <2>1. fault.at = "weigh" /\ fault.seen = a.seen /\ fault.reread = a.reread
        /\ fault.first = a.first
    BY <1>2 DEF Fields
  <2> HIDE DEF fault
  <2> QED
    BY <1>4, <1>6, <2>1
<1>7. ASSUME NEW e \in Reasons, Becomes(c, pass(e)) PROVE HistoryInv'
  <2> DEFINE d == pass(e)
  <2>1. d.at \in {"direct", "weigh"} /\ d.seen = a.seen /\ d.reread = a.reread
        /\ d.first = a.first
    BY <1>1, <1>2 DEF Fields
  <2>2. Becomes(c, d)
    BY <1>7
  <2> HIDE DEF d, s
  <2> QED
    BY <1>4, <2>1, <2>2
<1>8. CASE Becomes(c, observed)
  <2>1. /\ observed.at \in {"direct", "weigh"} /\ observed.seen = a.seen
        /\ observed.reread = a.reread
        /\ observed.first = With(a.first, s, Listed(c, s))
    BY <1>1, <1>2 DEF Fields
  <2>2. Listed(c, s) = Unbuilt(catalog[c][s])
    BY DEF Listed, Unbuilt
  <2> HIDE DEF observed, s
  <2>3. FirstOK(c, observed)
    BY <1>1, <1>2, <1>3, <2>1, <2>2, FirstOfMore
  <2> QED
    BY <1>1, <1>8, <2>1, <2>3, HistoryAdvances DEF Unconfirmed
<1> QED
  BY <1>5, <1>6, <1>7, <1>8

(* What is weighed is marked.                                                *)
LEMMA MarkedOfRaw ==
  ASSUME NEW c, NEW a, NEW b, Raw(c, a), b.seen = a.seen,
         b.first = [s \in DOMAIN a.first |-> Mark(a.first[s], a.seen.builds)]
  PROVE  Marked(c, b)
<1>1. SUFFICES ASSUME NEW s \in DOMAIN b.first
               PROVE  \E cat \in was[c] :
                         b.first[s] \in {Mark(cat[s], b.seen.builds),
                                         Mark(Unbuilt(cat[s]), b.seen.builds)}
  BY DEF Marked
<1>2. s \in DOMAIN a.first /\ b.first[s] = Mark(a.first[s], b.seen.builds)
  OBVIOUS
<1>3. PICK cat \in was[c] : a.first[s] \in {cat[s], Unbuilt(cat[s])}
  BY <1>2 DEF Raw
<1> QED
  BY <1>2, <1>3

LEMMA HistoryWeigh ==
  ASSUME ConsistencyInv, HistoryInv, NEW c \in Collections, Weigh(c)
  PROVE  HistoryInv'
<1> DEFINE a == audit[c]
           first == [s \in DOMAIN a.first |-> Mark(a.first[s], a.seen.builds)]
           shards == Observed(Expected(c), first)
           found == FirstCandidates(Expected(c), first)
           affected == (UNION {d.shards : d \in found})
                      \cup (IF \E d \in found : d.code = "missing_on_shard"
                            THEN shards ELSE {})
           b == [a EXCEPT !.first = first]
<1>1. /\ a.at = "weigh" /\ UNCHANGED <<catalog, was, routing>>
  BY DEF Weigh, discovered
<1>2. DOMAIN a = Fields /\ HistoryOK(c, a)
  BY DEF ConsistencyInv, AuditsOK, AuditOK, AuditType, HistoryInv
<1>3. ~a.reread /\ Raw(c, a) /\ DOMAIN a.first \subseteq Shards /\ SeenOK(c, a) /\ CatalogOK(c)
  BY <1>1, <1>2 DEF HistoryOK, FirstOK, SecondOK
<1>4. DOMAIN first = DOMAIN a.first
  OBVIOUS
<1>5. ASSUME NEW d, Becomes(c, d), UNCHANGED lately, d.at = "finish", d.seen = a.seen,
             d.reread = a.reread, d.first = first
      PROVE  HistoryInv'
  <2>1. FirstOK(c, d)
    BY <1>3, <1>5, MarkedOfRaw DEF FirstOK
  <2> QED
    BY <1>1, <1>5, <2>1, HistoryAdvances DEF Unconfirmed
<1>6. ASSUME UNCHANGED lately, Becomes(c, [b EXCEPT !.at = "finish"]) PROVE HistoryInv'
  <2> DEFINE d == [b EXCEPT !.at = "finish"]
  <2>1. d.at = "finish" /\ d.seen = a.seen /\ d.reread = a.reread /\ d.first = first
    BY <1>2 DEF Fields
  <2> HIDE DEF d, b, first
  <2> QED
    BY <1>5, <1>6, <2>1 DEF d
<1>7. ASSUME UNCHANGED lately, Becomes(c, [b EXCEPT !.at = "finish", !.faulty = TRUE])
      PROVE  HistoryInv'
  <2> DEFINE d == [b EXCEPT !.at = "finish", !.faulty = TRUE]
  <2>1. d.at = "finish" /\ d.seen = a.seen /\ d.reread = a.reread /\ d.first = first
    BY <1>2 DEF Fields
  <2> HIDE DEF d, b, first
  <2> QED
    BY <1>5, <1>7, <2>1 DEF d
<1>8. ASSUME found # {}, lately' = [lately EXCEPT ![c] = {catalog[c]}], NEW d, Becomes(c, d),
             d.at = "confirm", d.seen = a.seen, d.reread = TRUE, d.first = first,
             d.todo = affected \cap shards, d.second = Without(first, affected)
      PROVE  HistoryInv'
  <2>3. shards \subseteq affected
    <3>1. PICK x \in found : TRUE
      BY <1>8
    <3>2. x.code = "missing_on_shard" \/ x.shards = shards
      BY <3>1, CandidateShards DEF FirstCandidates
    <3> HIDE DEF found, shards
    <3> QED
      BY <3>1, <3>2
  <2>4. shards = Expected(c) \cap DOMAIN first
    BY DEF Observed
  <2> HIDE DEF b, affected, shards, found
  <2>5. /\ lately'[c] = {catalog[c]} /\ DOMAIN lately' = Collections
        /\ \A k \in Collections \ {c} : lately'[k] = lately[k]
    BY <1>8 DEF HistoryInv
  <2>6. DOMAIN d.second = DOMAIN first \ affected
    BY <1>8 DEF Without
  <2>7. DOMAIN d.second \cap Expected(c) = {}
    BY <2>3, <2>4, <2>6
  <2>8. Close({catalog[c]})
    BY DEF Close
  <2>9. /\ Expected(c)' = Expected(c) /\ CatalogOK(c)'
        /\ catalog'[c] = catalog[c] /\ was'[c] = was[c]
    BY <1>1, <1>3 DEF Expected, CatalogOK
  <2>10. d.todo \subseteq DOMAIN d.first
    BY <1>8, <2>4
  <2>11. SecondOK(c, d)'
    <3>1. DOMAIN d.second \subseteq DOMAIN d.first
      BY <1>8, <2>6
    <3>2. catalog[c] \in was[c]
      BY <1>3 DEF CatalogOK
    <3> QED
      BY <1>8, <2>5, <2>7, <2>8, <2>9, <2>10, <3>1, <3>2 DEF SecondOK
  <2>12. SeenOK(c, d)'
    BY <1>3, <1>8, <2>9 DEF SeenOK
  <2>13. FirstOK(c, d)'
    <3>1. Marked(c, d)
      BY <1>3, <1>8, MarkedOfRaw
    <3>2. Marked(c, d)'
      BY <2>9, <3>1 DEF Marked
    <3> QED
      BY <1>3, <1>4, <1>8, <3>2 DEF FirstOK
  <2>14. HistoryOK(c, d)'
    BY <1>8, <2>9, <2>11, <2>12, <2>13 DEF HistoryOK
  <2> QED
    BY <1>1, <1>8, <2>5, <2>14, HistoryMoves
<1>9. ASSUME found # {}, lately' = [lately EXCEPT ![c] = {catalog[c]}],
             Becomes(c, [b EXCEPT !.at = "confirm", !.reread = TRUE,
                                  !.todo = affected \cap shards,
                                  !.second = Without(first, affected)])
      PROVE  HistoryInv'
  <2> DEFINE d == [b EXCEPT !.at = "confirm", !.reread = TRUE,
                                  !.todo = affected \cap shards,
                                  !.second = Without(first, affected)]
  <2>1. /\ d.at = "confirm" /\ d.seen = a.seen /\ d.reread = TRUE /\ d.first = first
        /\ d.todo = affected \cap shards /\ d.second = Without(first, affected)
    BY <1>2 DEF Fields
  <2>2. Becomes(c, d)
    BY <1>9
  <2> HIDE DEF d, affected, shards, found, first
  <2> QED
    BY <1>8, <1>9, <2>1, <2>2
<1> QED
  BY <1>6, <1>7, <1>9 DEF Weigh

LEMMA HistoryConfirm ==
  ASSUME ConsistencyInv, HistoryInv, NEW c \in Collections, Confirm(c)
  PROVE  HistoryInv'
<1> DEFINE a == audit[c]
           s == Least(a.todo)
           observed == [a EXCEPT !.second = With(@, s, Mark(Listed(c, s), a.seen.builds)),
                                 !.todo = @ \ {s},
                                 !.at = IF a.todo = {s} THEN "finish" ELSE @]
           fault == [a EXCEPT !.faulty = TRUE, !.todo = {}, !.at = "finish"]
           pass(e) == [a EXCEPT !.faulty = @ \/ ~Excused(e), !.todo = a.todo \ {s},
                                !.at = IF a.todo \ {s} = {} THEN "finish" ELSE @]
<1>1. /\ a.at = "confirm" /\ UNCHANGED <<catalog, was, lately, routing>>
  BY DEF Confirm, cluster, discovered
<1>2. DOMAIN a = Fields /\ HistoryOK(c, a) /\ a.todo \subseteq Shards /\ a.todo # {}
  BY <1>1 DEF ConsistencyInv, AuditsOK, AuditOK, AuditType, PlaceOK, HistoryInv
<1>3. s \in a.todo
  BY <1>2, LeastIsMember, ConsistencyAssumption
<1>4. /\ a.reread /\ a.todo \subseteq DOMAIN a.first /\ DOMAIN a.second \subseteq DOMAIN a.first
      /\ catalog[c] \in lately[c]
      /\ \A t \in DOMAIN a.second \cap Expected(c) : \E cat \in lately[c] :
            a.second[t] = Mark(Unbuilt(cat[t]), a.seen.builds)
  BY <1>1, <1>2 DEF HistoryOK, SecondOK
<1>5. ASSUME NEW d, Becomes(c, d), d.at \in {"confirm", "finish"}, d.seen = a.seen,
             d.reread = a.reread, d.first = a.first, d.todo \subseteq a.todo,
             \/ d.second = a.second
             \/ d.second = With(a.second, s, Mark(Unbuilt(catalog[c][s]), a.seen.builds))
      PROVE  HistoryInv'
  <2> HIDE DEF s
  <2>1. DOMAIN d.second \subseteq DOMAIN a.first
    BY <1>3, <1>4, <1>5 DEF With
  <2>2. \A t \in DOMAIN d.second \cap Expected(c) : \E cat \in lately[c] :
            d.second[t] = Mark(Unbuilt(cat[t]), d.seen.builds)
    <3>1. CASE d.second = a.second
      BY <1>4, <1>5, <3>1
    <3>2. CASE d.second = With(a.second, s, Mark(Unbuilt(catalog[c][s]), a.seen.builds))
      <4>1. \A t \in DOMAIN d.second :
               \/ t = s /\ d.second[t] = Mark(Unbuilt(catalog[c][t]), d.seen.builds)
               \/ t \in DOMAIN a.second /\ d.second[t] = a.second[t]
        BY <1>5, <3>2 DEF With
      <4> QED
        BY <1>4, <1>5, <4>1
    <3> QED
      BY <1>5, <3>1, <3>2
  <2>3. SecondOK(c, d)
    BY <1>1, <1>2, <1>4, <1>5, <2>1, <2>2 DEF HistoryOK, SecondOK
  <2>4. FirstOK(c, d) /\ SeenOK(c, d)
    BY <1>1, <1>2, <1>5 DEF HistoryOK, FirstOK, Marked, SeenOK
  <2>5. HistoryOK(c, d)
    BY <1>2, <1>5, <2>3, <2>4 DEF HistoryOK
  <2> QED
    BY <1>1, <1>5, <2>5, HistoryGoes
<1>6. \/ Becomes(c, fault) \/ Becomes(c, observed)
      \/ \E e \in Reasons : Becomes(c, pass(e))
  BY DEF Confirm, ReadShard
<1>7. CASE Becomes(c, fault)
  <2>1. /\ fault.at = "finish" /\ fault.seen = a.seen /\ fault.reread = a.reread
        /\ fault.first = a.first /\ fault.second = a.second /\ fault.todo \subseteq a.todo
    BY <1>2 DEF Fields
  <2> HIDE DEF fault, s
  <2> QED
    BY <1>5, <1>7, <2>1
<1>8. ASSUME NEW e \in Reasons, Becomes(c, pass(e)) PROVE HistoryInv'
  <2> DEFINE d == pass(e)
  <2>1. /\ d.at \in {"confirm", "finish"} /\ d.seen = a.seen /\ d.reread = a.reread
        /\ d.first = a.first /\ d.second = a.second /\ d.todo \subseteq a.todo
    BY <1>1, <1>2 DEF Fields
  <2>2. Becomes(c, d)
    BY <1>8
  <2> HIDE DEF d, s
  <2> QED
    BY <1>5, <2>1, <2>2
<1>9. CASE Becomes(c, observed)
  <2>1. /\ observed.at \in {"confirm", "finish"} /\ observed.seen = a.seen
        /\ observed.reread = a.reread /\ observed.first = a.first
        /\ observed.todo \subseteq a.todo
        /\ observed.second = With(a.second, s, Mark(Listed(c, s), a.seen.builds))
    BY <1>1, <1>2 DEF Fields
  <2>2. Listed(c, s) = Unbuilt(catalog[c][s])
    BY DEF Listed, Unbuilt
  <2> HIDE DEF observed, s
  <2> QED
    BY <1>5, <1>9, <2>1, <2>2
<1> QED
  BY <1>6, <1>7, <1>8, <1>9

-----------------------------------------------------------------------------
(* The end of an audit. *)

LEMMA ConfirmedIsReal ==
  ASSUME NEW c, NEW a, HistoryOK(c, a), a.at = "finish",
         Expected(c) \subseteq Shards, DOMAIN a.first \subseteq Expected(c),
         NEW d \in Legacy(Expected(c), a.first, a.reread, a.second).diffs, d.code \in Warnings
  PROVE  Shown(d, lately[c], Expected(c), SpecsIn(Building(a.first) \cup Building(a.second)))
<1> DEFINE W == lately[c]
           e == DOMAIN a.first
           N == NamesIn(Building(a.first) \cup Building(a.second))
           P == SpecsIn(Building(a.first) \cup Building(a.second))
<1>1. Observed(Expected(c), a.first) = e
  BY DEF Observed
<1>2. a.reread /\ e \subseteq DOMAIN a.second /\ d \in Candidates(e, a.second, N, P)
  BY <1>1, WarningWasConfirmed
<1>3. /\ DOMAIN a.second \subseteq e /\ W \subseteq was[c] /\ Close(W)
      /\ \A s \in DOMAIN a.second \cap Expected(c) : \E cat \in W :
            a.second[s] = Mark(Unbuilt(cat[s]), a.seen.builds)
  BY <1>2 DEF HistoryOK, SecondOK
<1>4. DOMAIN a.second = e /\ e \in SUBSET Shards
  BY <1>2, <1>3
<1>5. Catalogued(W)
  BY <1>3 DEF HistoryOK, CatalogOK, Catalogued
<1>6. Witnessed(a.second, W)
  <2>1. ASSUME NEW s \in DOMAIN a.second PROVE \E cat \in W : Facts(a.second[s]) = Facts(cat[s])
    <3>1. PICK cat \in W : a.second[s] = Mark(Unbuilt(cat[s]), a.seen.builds)
      BY <1>3, <1>4
    <3>2. cat[s] \in SUBSET Definitions
      BY <1>4, <1>5 DEF Catalogued
    <3>3. Unbuilt(cat[s]) \in SUBSET Definitions /\ Facts(Unbuilt(cat[s])) = Facts(cat[s])
      BY <3>2, UnbuiltFacts
    <3>4. Facts(Mark(Unbuilt(cat[s]), a.seen.builds)) = Facts(Unbuilt(cat[s]))
      BY <3>3, MarkFacts
    <3> QED
      BY <3>1, <3>3, <3>4
  <2> QED
    BY <2>1 DEF Witnessed
<1> HIDE DEF W, e, N, P
<1>7. Shown(d, W, e, P)
  BY <1>2, <1>3, <1>4, <1>5, <1>6, DifferenceWasThere
<1>8. e \subseteq Expected(c)
  BY DEF e
<1>9. Shown(d, W, Expected(c), P)
  BY <1>7, <1>8, ShownOfMore
<1> QED
  BY <1>9 DEF W, P

LEMMA EvaluationKept ==
  ASSUME NEW v, Verdict(v), NEW lost \in BOOLEAN, NEW builds
  PROVE  LET w == WithBuilds(WithGap(v, lost), builds) IN
         /\ w.state = "inconsistent" <=> v.state = "inconsistent"
         /\ w.state = "consistent" => v.state = "consistent" /\ ~lost /\ builds = {}
         /\ w.complete => ~lost /\ v.complete
<1> DEFINE g == WithGap(v, lost)
           w == WithBuilds(g, builds)
<1>1. /\ Verdict(g)
      /\ g.state = "inconsistent" <=> v.state = "inconsistent"
      /\ g.state = "consistent" => v.state = "consistent" /\ ~lost
      /\ g.complete => ~lost /\ v.complete
  <2>1. CASE lost
    <3>1. Verdict(g) /\ g.state # "consistent"
      BY <2>1, GapState
    <3>2. g.complete = FALSE
          /\ g.state = IF v.state = "inconsistent" THEN v.state ELSE "inconclusive"
      BY <2>1 DEF WithGap
    <3> QED
      BY <3>1, <3>2
  <2>2. CASE ~lost
    BY <2>2 DEF WithGap
  <2> QED
    BY <2>1, <2>2
<1> HIDE DEF g
<1>2. /\ w.complete = g.complete
      /\ w.state = IF builds # {} /\ g.state = "consistent" THEN "inconclusive" ELSE g.state
  BY <1>1 DEF WithBuilds, Verdict
<1> QED
  BY <1>1, <1>2 DEF g

LEMMA CalmIsRight ==
  ASSUME ConsistencyInv, NEW c \in Collections, NEW a, AuditType(a), HistoryOK(c, a),
         a.at = "finish", Calm(c), DOMAIN a.first \subseteq Expected(c),
         a.seen.shards \subseteq Expected(c)
  PROVE  LET v == Legacy(Expected(c), a.first, a.reread, a.second)
             whole == a.seen.err = "none" /\ Expected(c) \subseteq a.seen.shards
         IN
         /\ v.state = "inconsistent" => ~Alike(c)
         /\ v.complete /\ whole => (v.state = "inconsistent" <=> ~Agree(c))
         /\ v.state = "consistent" /\ whole /\ a.seen.builds = {} => Alike(c)
<1> DEFINE e == Expected(c)
           C == catalog[c]
           builds == a.seen.builds
           B == Built(C, e, builds)
           v == Legacy(e, a.first, a.reread, a.second)
           whole == a.seen.err = "none" /\ e \subseteq a.seen.shards
<1>1. e \in SUBSET Shards
  BY DEF ConsistencyInv, DiscoveredOK, Expected
<1>2. \A s \in e : C[s] \in SUBSET Definitions /\ OneEach(C[s])
  BY <1>1 DEF HistoryOK, CatalogOK, Catalogued
<1>3. \A cat \in was[c], s \in e : cat[s] = C[s]
  BY DEF Calm
<1>4. Observation(a.first) /\ Observation(a.second)
  BY DEF AuditType
<1>5. \A s \in DOMAIN a.first :
         a.first[s] \in {Mark(C[s], builds), Mark(Unbuilt(C[s]), builds)}
  <2>1. Marked(c, a)
    BY DEF HistoryOK, FirstOK
  <2> QED
    BY <1>3, <2>1 DEF Marked
<1>6. a.reread =>
         /\ DOMAIN a.second \subseteq DOMAIN a.first
         /\ \A s \in DOMAIN a.second : a.second[s] = Mark(Unbuilt(C[s]), builds)
  BY <1>3 DEF HistoryOK, SecondOK
<1>7. /\ v.state = "inconsistent" => Differ(C, e)
      /\ v.complete /\ builds = BuildsIn(C, e) =>
            (v.state = "inconsistent" <=> DifferBut(C, e, NamesIn(B), SpecsIn(B)))
  <2>1. DOMAIN a.first \subseteq e
    OBVIOUS
  <2> HIDE DEF e, C, builds
  <2> QED
    BY <1>1, <1>2, <1>4, <1>5, <1>6, <2>1, CalmEvaluation
<1>8. v.state = "inconsistent" => ~Alike(c)
  BY <1>7 DEF Alike, Differ
<1>9. whole => builds = BuildsIn(C, e)
  <2>1. SUFFICES ASSUME whole PROVE builds = BuildsIn(C, e)
    OBVIOUS
  <2>2. PICK cat \in was[c] : builds = BuildsIn(cat, a.seen.shards)
    BY <2>1 DEF HistoryOK, SeenOK
  <2>3. a.seen.shards = e
    BY <2>1
  <2>4. \A s \in e : cat[s] = C[s]
    BY <1>3
  <2>5. UNION {cat[s] : s \in e} = UNION {C[s] : s \in e}
    BY <2>4
  <2> QED
    BY <2>2, <2>3, <2>5 DEF BuildsIn
<1>10. whole => InBuild(c) = B
  <2>1. SUFFICES ASSUME whole PROVE InBuild(c) = B
    OBVIOUS
  <2> DEFINE all == UNION {C[s] : s \in e}
  <2>2. InBuild(c) = {d \in all : d.name \in NamesIn({x \in all : x.building})}
    BY DEF InBuild
  <2>3. B = {d \in all : d.name \in builds}
    BY DEF Built
  <2>4. builds = NamesIn({x \in all : x.building})
    BY <1>9, <2>1 DEF BuildsIn
  <2> HIDE DEF builds, all, B
  <2> QED
    BY <2>2, <2>3, <2>4
<1>11. whole => (Agree(c) <=> ~DifferBut(C, e, NamesIn(B), SpecsIn(B)))
  <2>1. SUFFICES ASSUME whole PROVE Agree(c) <=> ~DifferBut(C, e, NamesIn(B), SpecsIn(B))
    OBVIOUS
  <2>2. \A s : Settled(c, s) = Compared(C[s], NamesIn(B), SpecsIn(B))
    <3>1. InBuild(c) = B
      BY <1>10, <2>1
    <3> HIDE DEF B
    <3> QED
      BY <3>1 DEF Settled, Compared
  <2> HIDE DEF B, C
  <2> QED
    BY <2>2 DEF Agree, DifferBut
<1>12. v.complete /\ whole => (v.state = "inconsistent" <=> ~Agree(c))
  BY <1>7, <1>9, <1>11
<1>13. v.state = "consistent" /\ whole /\ builds = {} => Alike(c)
  <2>1. SUFFICES ASSUME v.state = "consistent", whole, builds = {} PROVE Alike(c)
    OBVIOUS
  <2>2. v.complete
    BY <2>1, EvaluationOfSame
  <2>3. Agree(c)
    BY <1>12, <2>1, <2>2
  <2>4. InBuild(c) = {}
    BY <1>10, <2>1 DEF Built
  <2>5. \A s : Settled(c, s) = catalog[c][s]
    BY <2>4 DEF Settled, NamesIn, SpecsIn
  <2> QED
    BY <2>3, <2>5 DEF Agree, Alike
<1> QED
  BY <1>8, <1>12, <1>13

LEMMA HistoryFinish ==
  ASSUME ConsistencyInv, HistoryInv, NEW c \in Collections, Finish(c)
  PROVE  HistoryInv'
<1> DEFINE a == audit[c]
           e == Expected(c)
           lost == a.seen.err # "none" \/ ~(e \subseteq a.seen.shards)
           v == CASE a.at = "cut" -> Incomplete
                  [] a.at = "finish" /\ a.strategy = "metadata" ->
                        Official(e, a.seen.shards, {i[2] : i \in a.official.issues})
                  [] OTHER -> Legacy(e, a.first, a.reread, a.second)
           w == WithBuilds(WithGap(v, lost), a.seen.builds)
           b == [a EXCEPT !.faulty = @ \/ ~Excused(IF lost THEN a.seen.err ELSE "none")]
           d == [b EXCEPT !.at = "done", !.verdict = w]
<1>1. /\ a.at \in {"finish", "cut"} /\ UNCHANGED <<catalog, was, lately, routing>>
      /\ Becomes(c, d)
  BY DEF Finish, Conclude, cluster, discovered
<1>2. DOMAIN a = Fields /\ HistoryOK(c, a) /\ AuditType(a)
  BY DEF ConsistencyInv, AuditsOK, AuditOK, AuditType, HistoryInv
<1>3. /\ d.at = "done" /\ d.verdict = w /\ d.seen = a.seen /\ d.first = a.first
      /\ d.second = a.second /\ d.reread = a.reread /\ d.strategy = a.strategy
  BY <1>2 DEF Fields
<1>4. lost \in BOOLEAN
  OBVIOUS
<1>5. ASSUME OfDefinitions(a), a.at = "finish"
      PROVE  RealWarnings(c, d) /\ RightVerdict(c, d)
  <2>1. v = Legacy(e, a.first, a.reread, a.second)
    BY <1>5 DEF OfDefinitions
  <2>2. Verdict(v)
    BY <2>1, LegacyState DEF Verdict
  <2>3. ASSUME DOMAIN a.first \subseteq e, NEW x \in w.diffs, x.code \in Warnings
        PROVE  Shown(x, lately[c], e, SpecsIn(Building(a.first) \cup Building(a.second)))
    <3>1. x \in v.diffs
      <4> HIDE DEF v, lost
      <4> QED
        BY <1>4, <2>2, <2>3, WarningsOfEvaluation
    <3>2. e \subseteq Shards
      BY DEF ConsistencyInv, DiscoveredOK, Expected
    <3> HIDE DEF v
    <3> QED
      BY <1>2, <1>5, <2>1, <2>3, <3>1, <3>2, ConfirmedIsReal
  <2>4. ASSUME Calm(c), DOMAIN a.first \subseteq e, a.seen.shards \subseteq e
        PROVE  /\ w.state = "inconsistent" => ~Alike(c)
               /\ w.state = "consistent" => Alike(c)
               /\ w.complete => (w.state = "inconsistent" <=> ~Agree(c))
    <3>1. /\ v.state = "inconsistent" => ~Alike(c)
          /\ v.complete /\ ~lost => (v.state = "inconsistent" <=> ~Agree(c))
          /\ v.state = "consistent" /\ ~lost /\ a.seen.builds = {} => Alike(c)
      <4> HIDE DEF v
      <4> QED
        BY <1>2, <1>5, <2>1, <2>4, CalmIsRight
    <3>2. /\ w.state = "inconsistent" <=> v.state = "inconsistent"
          /\ w.state = "consistent" => v.state = "consistent" /\ ~lost /\ a.seen.builds = {}
          /\ w.complete => ~lost /\ v.complete
      <4> HIDE DEF v, lost
      <4> QED
        BY <1>4, <2>2, EvaluationKept
    <3> HIDE DEF v, w, lost
    <3> QED
      BY <3>1, <3>2
  <2> HIDE DEF d, w, v
  <2>5. RealWarnings(c, d) /\ RightVerdict(c, d)
    BY <1>3, <2>3, <2>4 DEF RealWarnings, RightVerdict
  <2> QED
    BY <2>5
<1>6. ASSUME OfDefinitions(a), a.at = "cut"
      PROVE  RealWarnings(c, d) /\ RightVerdict(c, d)
  <2>1. v = Incomplete
    BY <1>6
  <2>2. Verdict(v) /\ v.state = "inconclusive" /\ v.complete = FALSE
    BY <2>1 DEF Verdict, Incomplete
  <2>3. \A x \in v.diffs : x.code \notin Warnings
    BY <2>1 DEF Incomplete, Inconclusive, Difference, Warnings
  <2>4. \A x \in w.diffs : x.code \notin Warnings
    <3> HIDE DEF v, lost
    <3> QED
      BY <1>4, <2>2, <2>3, WarningsOfEvaluation
  <2>5. w.state # "inconsistent" /\ w.state # "consistent" /\ ~w.complete
    <3> HIDE DEF v, lost
    <3> QED
      BY <1>4, <2>2, EvaluationKept
  <2> HIDE DEF d, w, v
  <2>6. RealWarnings(c, d) /\ RightVerdict(c, d)
    BY <1>3, <2>4, <2>5 DEF RealWarnings, RightVerdict
  <2> QED
    BY <2>6
<1> HIDE DEF d, w, v, lost
<1>7. RealWarnings(c, d) /\ RightVerdict(c, d)
  <2>1. CASE ~OfDefinitions(a)
    BY <1>3, <2>1 DEF RealWarnings, RightVerdict, OfDefinitions
  <2> QED
    BY <1>1, <1>5, <1>6, <2>1
<1>8. SeenOK(c, d) /\ FirstOK(c, d) /\ SecondOK(c, d)
  BY <1>1, <1>2, <1>3 DEF HistoryOK, SeenOK, FirstOK, SecondOK
<1>9. HistoryOK(c, d)
  BY <1>2, <1>7, <1>8 DEF HistoryOK
<1> QED
  BY <1>1, <1>9, HistoryGoes

-----------------------------------------------------------------------------
(* The changes of the cluster. *)

LEMMA HistoryChanges ==
  ASSUME ConsistencyInv, HistoryInv, NEW c \in Collections, NEW s \in Shards,
         NEW D \in SUBSET Definitions, OneEach(D), Changes(c, s, D)
  PROVE  HistoryInv'
<1> DEFINE a == audit[c]
           old == catalog[c]
           new == catalog'[c]
<1>1. /\ catalog' = [catalog EXCEPT ![c][s] = D]
      /\ was' = [was EXCEPT ![c] = @ \cup {catalog'[c]}]
      /\ lately' = [lately EXCEPT ![c] = IF audit[c].reread THEN @ \cup {catalog'[c]} ELSE @]
      /\ audit' = audit /\ routing' = routing
      /\ a.at \notin {"finish", "cut", "done"}
  BY DEF Changes, discovered
<1>2. DOMAIN catalog = Collections /\ old \in [Shards -> SUBSET Definitions]
  BY DEF ConsistencyInv, ClusterOK
<1>3. /\ DOMAIN was' = Collections /\ DOMAIN lately' = Collections
      /\ was'[c] = was[c] \cup {new}
      /\ lately'[c] = IF a.reread THEN lately[c] \cup {new} ELSE lately[c]
      /\ \A k \in Collections \ {c} : /\ catalog'[k] = catalog[k] /\ was'[k] = was[k]
                                     /\ lately'[k] = lately[k]
  BY <1>1, <1>2 DEF HistoryInv
<1>4. new[s] = D /\ \A t \in Shards \ {s} : new[t] = old[t]
  BY <1>1, <1>2
<1>5. HistoryOK(c, a) /\ Expected(c)' = Expected(c)
  BY <1>1 DEF HistoryInv, Expected
<1>6. CatalogOK(c)'
  <2>1. \A t \in Shards : old[t] \in SUBSET Definitions /\ OneEach(old[t])
    BY <1>5 DEF HistoryOK, CatalogOK, Catalogued
  <2>2. \A t \in Shards : new[t] \in SUBSET Definitions /\ OneEach(new[t])
    BY <1>4, <2>1
  <2> QED
    BY <1>3, <1>5, <2>2 DEF HistoryOK, CatalogOK, Catalogued
<1>7. SeenOK(c, a) => SeenOK(c, a)'
  BY <1>1, <1>3 DEF SeenOK
<1>8. FirstOK(c, a) => FirstOK(c, a)'
  BY <1>1, <1>3 DEF FirstOK, Raw, Marked
<1>9. SecondOK(c, a) => SecondOK(c, a)'
  <2>1. CASE ~a.reread
    BY <1>1, <2>1 DEF SecondOK
  <2>2. ASSUME a.reread, SecondOK(c, a) PROVE SecondOK(c, a)'
    <3>1. /\ DOMAIN a.second \subseteq DOMAIN a.first
          /\ old \in lately[c] /\ lately[c] \subseteq was[c] /\ Close(lately[c])
          /\ \A t \in DOMAIN a.second \cap Expected(c) : \E cat \in lately[c] :
                a.second[t] = Mark(Unbuilt(cat[t]), a.seen.builds)
      BY <2>2 DEF SecondOK
    <3>2. lately'[c] = lately[c] \cup {new}
      BY <1>3, <2>2
    <3>3. Close(lately[c] \cup {new})
      <4>1. SUFFICES ASSUME NEW x \in lately[c] \cup {new}, NEW y \in lately[c] \cup {new},
                            lately[c] \cup {new} = {x, y}
                     PROVE  \E u : \A t \in Shards : t = u \/ x[t] = y[t]
        BY DEF Close
      <4>2. CASE new = old
        <5>1. lately[c] \cup {new} = lately[c]
          BY <3>1, <4>2
        <5> QED
          BY <3>1, <4>1, <5>1 DEF Close
      <4>3. CASE new # old
        <5>1. {x, y} = {old, new}
          BY <3>1, <4>1, <4>3
        <5>2. \A t \in Shards : t = s \/ x[t] = y[t]
          BY <1>4, <5>1
        <5> QED
          BY <5>2
      <4> QED
        BY <4>2, <4>3
    <3>4. new \in lately'[c] /\ lately'[c] \subseteq was'[c]
      BY <1>3, <3>1, <3>2
    <3>5. \A t \in DOMAIN a.second \cap Expected(c) : \E cat \in lately'[c] :
             a.second[t] = Mark(Unbuilt(cat[t]), a.seen.builds)
      BY <3>1, <3>2
    <3> HIDE DEF a
    <3>6. Close(lately'[c])
      BY <3>2, <3>3
    <3>7. /\ a.reread => a.at \in {"confirm", "finish", "done"}
          /\ a.at = "confirm" => a.reread /\ a.todo \subseteq DOMAIN a.first
      BY <2>2 DEF SecondOK
    <3>8. a' = a
      BY <1>1 DEF a
    <3> QED
      BY <1>5, <3>1, <3>4, <3>5, <3>6, <3>7, <3>8 DEF SecondOK
  <2> QED
    BY <2>1, <2>2
<1>10. HistoryOK(c, audit[c])'
  BY <1>1, <1>5, <1>6, <1>7, <1>8, <1>9 DEF HistoryOK
<1>11. ASSUME NEW k \in Collections PROVE HistoryOK(k, audit[k])'
  <2>1. CASE k = c
    BY <1>10, <2>1
  <2>2. CASE k # c
    BY <1>1, <1>3, <2>2, HistoryStable DEF HistoryInv
  <2> QED
    BY <2>1, <2>2
<1> QED
  BY <1>3, <1>11 DEF HistoryInv

(* A server still has one definition of a name when a build is over.         *)
LEMMA BuiltOneEach ==
  ASSUME NEW D \in SUBSET Definitions, OneEach(D), NEW d \in D
  PROVE  LET b == [d EXCEPT !.building = FALSE] IN
         b \in Definitions /\ OneEach((D \ {d}) \cup {b})
<1> DEFINE b == [d EXCEPT !.building = FALSE]
<1>1. b \in Definitions /\ b.name = d.name /\ b.spec = d.spec
  BY DEF Definitions
<1> HIDE DEF b
<1>2. OneEach((D \ {d}) \cup {b})
  <2>1. SUFFICES ASSUME NEW x \in (D \ {d}) \cup {b}, NEW y \in (D \ {d}) \cup {b},
                        x.name = y.name \/ x.spec = y.spec
                 PROVE  x = y
    BY DEF OneEach
  <2>2. CASE x \in D \ {d} /\ y \in D \ {d}
    BY <2>1, <2>2 DEF OneEach
  <2>3. CASE x = b /\ y \in D \ {d}
    BY <1>1, <2>1, <2>3 DEF OneEach
  <2>4. CASE x \in D \ {d} /\ y = b
    BY <1>1, <2>1, <2>4 DEF OneEach
  <2> QED
    BY <2>2, <2>3, <2>4
<1> QED
  BY <1>1, <1>2 DEF b

LEMMA HistoryOfCluster ==
  ASSUME ConsistencyInv, HistoryInv, NEW c \in Collections, NEW s \in Shards,
         StartBuild(c, s) \/ FinishBuild(c, s) \/ Drop(c, s) \/ MoveChunk(c, s)
  PROVE  HistoryInv'
<1>1. \A t \in Shards : catalog[c][t] \in SUBSET Definitions /\ OneEach(catalog[c][t])
  BY DEF HistoryInv, HistoryOK, CatalogOK, Catalogued
<1>2. CASE StartBuild(c, s)
  <2>1. PICK n \in Names \ NamesIn(catalog[c][s]), p \in Specs \ SpecsIn(catalog[c][s]) :
           Changes(c, s, catalog[c][s] \cup {[name |-> n, spec |-> p, building |-> TRUE]})
    BY <1>2 DEF StartBuild
  <2> DEFINE d == [name |-> n, spec |-> p, building |-> TRUE]
  <2>2. d \in Definitions /\ d.name = n /\ d.spec = p
    BY DEF Definitions
  <2>3. Changes(c, s, catalog[c][s] \cup {d})
    BY <2>1
  <2> HIDE DEF d
  <2>4. \A x \in catalog[c][s] : x.name # n /\ x.spec # p
    BY DEF NamesIn, SpecsIn
  <2>5. OneEach(catalog[c][s] \cup {d})
    BY <1>1, <2>2, <2>4 DEF OneEach
  <2> QED
    BY <1>1, <2>2, <2>3, <2>5, HistoryChanges
<1>3. CASE FinishBuild(c, s)
  <2>1. PICK d \in catalog[c][s] :
           Changes(c, s, (catalog[c][s] \ {d}) \cup {[d EXCEPT !.building = FALSE]})
    BY <1>3 DEF FinishBuild
  <2> DEFINE b == [d EXCEPT !.building = FALSE]
  <2>2. b \in Definitions /\ OneEach((catalog[c][s] \ {d}) \cup {b})
    BY <1>1, BuiltOneEach
  <2>3. Changes(c, s, (catalog[c][s] \ {d}) \cup {b})
    BY <2>1
  <2> HIDE DEF b
  <2> QED
    BY <1>1, <2>2, <2>3, HistoryChanges
<1>4. CASE Drop(c, s)
  <2>1. PICK d \in catalog[c][s] : Changes(c, s, catalog[c][s] \ {d})
    BY <1>4 DEF Drop
  <2>2. OneEach(catalog[c][s] \ {d})
    BY <1>1 DEF OneEach
  <2> QED
    BY <1>1, <2>1, <2>2, HistoryChanges
<1>5. CASE MoveChunk(c, s)
  <2>1. owners[c] \subseteq Shards
    BY DEF ConsistencyInv, ClusterOK
  <2>2. PICK t \in Shards : Changes(c, s, catalog[c][t])
    BY <1>5, <2>1 DEF MoveChunk
  <2> QED
    BY <1>1, <2>2, HistoryChanges
<1> QED
  BY <1>2, <1>3, <1>4, <1>5

-----------------------------------------------------------------------------
(* The invariant, and the theorems. *)

LEMMA HistoryInit == Init => HistoryInv
<1> SUFFICES ASSUME Init PROVE HistoryInv
  OBVIOUS
<1>1. /\ was = [c \in Collections |-> {catalog[c]}] /\ lately = [c \in Collections |-> {}]
      /\ audit = [c \in Collections |-> NewAudit] /\ catalog \in [Collections -> Catalogs]
  BY DEF Init
<1>2. ASSUME NEW c \in Collections PROVE HistoryOK(c, audit[c])
  <2>1. catalog[c] \in Catalogs /\ was[c] = {catalog[c]} /\ audit[c] = NewAudit
    BY <1>1
  <2>2. \A s \in Shards : catalog[c][s] \in SUBSET Definitions /\ OneEach(catalog[c][s])
    BY <2>1, ConsistencyAssumption
  <2>3. CatalogOK(c)
    BY <2>1, <2>2 DEF CatalogOK, Catalogued
  <2> HIDE DEF NewAudit
  <2> QED
    BY <2>1, <2>3, NewAuditFacts DEF HistoryOK, SeenOK, FirstOK, SecondOK
<1> QED
  BY <1>1, <1>2 DEF HistoryInv

LEMMA HistoryOfAudit ==
  ASSUME ConsistencyInv, HistoryInv, NEW c \in Collections, AuditStep(c)
  PROVE  HistoryInv'
BY HistoryStart, HistoryReadMetadata, HistoryReadVisibility, HistoryChoose, HistoryStartStats,
   HistoryReadStats, HistoryStatsFail, HistoryJudge, HistoryReadDirect, HistoryWeigh,
   HistoryConfirm, HistoryFinish DEF AuditStep

LEMMA HistoryKept == ConsistencyInv /\ HistoryInv /\ [Next]_vars => HistoryInv'
<1> SUFFICES ASSUME ConsistencyInv, HistoryInv, [Next]_vars PROVE HistoryInv'
  OBVIOUS
<1>1. CASE \/ EndRouting \/ ReadVersion \/ ReadShards \/ EndDispatch \/ Return
           \/ (\E d \in Databases : ReadScope(d))
           \/ Cancel \/ UNCHANGED vars
  <2>1. UNCHANGED <<catalog, was, lately, audit, routing>>
    BY <1>1 DEF EndRouting, ReadVersion, ReadShards, EndDispatch, Return, ReadScope, Cancel,
                vars, cluster, discovered
  <2> QED
    BY <2>1, HistoryRests
<1>2. ASSUME NEW c \in Collections, ReadRouting(c) \/ Dispatch(c) \/ AuditStep(c)
      PROVE  HistoryInv'
  BY <1>2, HistoryReadRouting, HistoryDispatch, HistoryOfAudit
<1>3. ASSUME NEW c \in Collections, NEW s \in Shards,
             StartBuild(c, s) \/ FinishBuild(c, s) \/ Drop(c, s) \/ MoveChunk(c, s)
      PROVE  HistoryInv'
  BY <1>3, HistoryOfCluster
<1> QED
  BY <1>1, <1>2, <1>3 DEF Next, Step

LEMMA HistoryAlways == Spec => []HistoryInv
BY InvAlways, HistoryInit, HistoryKept, PTL DEF Spec

(* confirmLegacyDifferences, evaluateLegacyIndexConsistency: whatever is     *)
(* created, built or dropped between the readings, and however often, both   *)
(* sides of a difference that is reported were there after the first reading *)
(* was over, and at one moment if the cluster has changed only once since.   *)
THEOREM WarningsReal == Spec => []WarningsAreReal
<1>1. HistoryInv => WarningsAreReal
  <2> SUFFICES ASSUME HistoryInv, NEW c \in Collections, ByDefinitions(c), ReadExpected(c),
                      NEW d \in audit[c].verdict.diffs, d.code \in Warnings
               PROVE  Shown(d, lately[c], Expected(c),
                            SpecsIn(Building(audit[c].first) \cup Building(audit[c].second)))
    BY DEF WarningsAreReal
  <2>1. RealWarnings(c, audit[c]) /\ OfDefinitions(audit[c])
    BY DEF HistoryInv, HistoryOK, ByDefinitions, Done, OfDefinitions
  <2> QED
    BY <2>1 DEF RealWarnings, ReadExpected
<1> QED
  BY <1>1, HistoryAlways, PTL

(* collectLegacyIndexConsistency: where nobody changes the definitions on    *)
(* the expected shards, and only these are read, "inconsistent" is said only *)
(* if two of them differ, "consistent" only if none do, and of a whole       *)
(* observation the verdict says which: for any catalogs and shards, whatever *)
(* reading fails.                                                            *)
THEOREM CalmVerdictRight == Spec => []VerdictOfCalmCluster
<1>1. HistoryInv => VerdictOfCalmCluster
  <2> SUFFICES ASSUME HistoryInv, NEW c \in Collections, ByDefinitions(c), Calm(c),
                      OnlyExpected(c)
               PROVE  VerdictRight(c)
    BY DEF VerdictOfCalmCluster
  <2>1. RightVerdict(c, audit[c]) /\ OfDefinitions(audit[c])
    BY DEF HistoryInv, HistoryOK, ByDefinitions, Done, OfDefinitions
  <2> QED
    BY <2>1 DEF RightVerdict, VerdictRight, OnlyExpected, ReadExpected
<1> QED
  BY <1>1, HistoryAlways, PTL

=============================================================================
