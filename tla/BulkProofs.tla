------------------------------ MODULE BulkProofs ------------------------------
(***************************************************************************)
(* Proofs about Bulk, for every collection, batch size, set of options and *)
(* number of retries.                                                      *)
(***************************************************************************)
EXTENDS Bulk, FiniteSetTheorems, TLAPS

(* Where a cursor is open. *)
Reading == {"next", "batch", "exec", "pause"}

(***************************************************************************)
(* The inductive invariant.  What the cursor has yet to return, and what   *)
(* was gathered but not sent, is not written; an attempt begins only when  *)
(* nothing is written at all; until the call returns, the result counts    *)
(* every document written; every document that still matches is written,   *)
(* gathered or due.                                                        *)
(***************************************************************************)
CursorOK ==
    /\ cursors = IF at \in Reading THEN 1 ELSE 0
    /\ at \notin Reading => ids = {} /\ due = {} /\ ~drained
    /\ at = "next" => ~drained /\ Cardinality(ids) < BatchSize
    /\ drained => due = {}
    /\ at \in {"batch", "exec"} => ids # {}

Fresh ==
    /\ ids \cap due = {}
    /\ \A d \in due : applied[d] = 0
    /\ at # "pause" => \A d \in ids : applied[d] = 0

LoopOK ==
    /\ at # "returned" => err = "none"
    /\ at = "backoff" => attempt # MaxRetries
    /\ at \in {"start", "count", "open", "backoff"} => processed = 0
    /\ processed = 0 /\ at # "returned" => Written = {}

StillToDo ==
    /\ at \in {"next", "batch", "exec"} => Matching \subseteq due \cup ids \cup Written
    /\ at = "pause" => Matching \subseteq due \cup Written

NothingNew == done /\ at = "exec" => Written \cup ids \subseteq atCancel

BulkInv ==
    /\ TypeOK
    /\ CursorOK /\ Fresh /\ LoopOK /\ StillToDo /\ NothingNew
    /\ AppliedOnce /\ ReportIsTrue /\ CompleteWhenDone /\ StopsAtCancel

-----------------------------------------------------------------------------
(* Sets of documents are finite. *)
LEMMA FiniteDocs ==
  ASSUME NEW S \in SUBSET Docs
  PROVE  IsFiniteSet(S) /\ Cardinality(S) \in Nat
BY BulkAssumption, FS_Subset, FS_CardinalityType

(* The options do not change, and bound the number of retries. *)
LEMMA RetriesType ==
  ASSUME TypeOK
  PROVE  MaxRetries \in Nat \ {0}
<1>1. opts.maxRetries \in Nat
  BY BulkAssumption DEF TypeOK
<1> QED
  BY <1>1, BulkAssumption DEF MaxRetries

(* Ending an attempt leaves the documents and the counts alone.              *)
LEMMA AttemptEnds ==
  ASSUME BulkInv, NEW e \in {"cancelled", "server", "transient", "decode"},
         NEW r \in BOOLEAN, at # "returned", EndAttempt(e, r),
         UNCHANGED <<opts, server, context, attempt, result>>
  PROVE  BulkInv'
<1>1. /\ cursors' = 0 /\ due' = {} /\ drained' = FALSE /\ ids' = {}
      /\ \/ at' = "backoff" /\ err' = err /\ processed = 0 /\ attempt # MaxRetries
         \/ at' = "returned" /\ err' = e
  BY DEF EndAttempt, ShouldRetry, NoProgress, Closed, Return
<1>2. /\ opts' = opts /\ doc' = doc /\ applied' = applied /\ done' = done
      /\ atCancel' = atCancel /\ attempt' = attempt
      /\ processed' = processed /\ affected' = affected
  BY DEF server, context, result
<1>3. Cardinality({}) = 0
  BY FS_EmptySet
<1>4. TypeOK'
  <2>1. MaxRetries' = MaxRetries /\ 0 <= BatchSize
    BY <1>2, BulkAssumption DEF MaxRetries
  <2>2. TypeOK
    BY DEF BulkInv
  <2>3. /\ opts' \in Options /\ doc' \in [Docs -> {"matches", "changed", "gone"}]
        /\ applied' \in [Docs -> Nat] /\ done' \in BOOLEAN /\ atCancel' \subseteq Docs
        /\ attempt' \in 0 .. MaxRetries' /\ processed' \in Nat /\ affected' \in Nat
    BY <1>2, <2>1, <2>2 DEF TypeOK
  <2>4. /\ at' \in {"backoff", "returned"}
        /\ err' \in {"none", "dangerous", "cancelled", "server", "transient", "decode"}
        /\ cursors' \in Nat /\ due' \subseteq Docs /\ drained' \in BOOLEAN
        /\ ids' \subseteq Docs /\ Cardinality(ids') <= BatchSize
    BY <1>1, <1>3, <2>1, <2>2 DEF TypeOK
  <2> QED
    BY <2>3, <2>4 DEF TypeOK
<1>5. CursorOK' /\ Fresh' /\ StillToDo' /\ NothingNew'
  BY <1>1, <1>2 DEF CursorOK, Reading, Fresh, StillToDo, NothingNew
<1>6. Written' = Written /\ Matching' = Matching
  BY <1>2 DEF Written, Matching
<1>7. LoopOK'
  BY <1>1, <1>2, <1>6 DEF BulkInv, LoopOK, MaxRetries
<1>8. AppliedOnce' /\ CompleteWhenDone' /\ StopsAtCancel'
  BY <1>1, <1>2, <1>6 DEF BulkInv, AppliedOnce, CompleteWhenDone, StopsAtCancel
<1>9. ReportIsTrue'
  BY <1>1, <1>2, <1>6 DEF BulkInv, ReportIsTrue
<1> QED
  BY <1>4, <1>5, <1>7, <1>8, <1>9 DEF BulkInv

(* The two halves of the types: what the server and the caller know, and     *)
(* where the code is.                                                        *)
DataTyped ==
    /\ opts \in Options
    /\ doc \in [Docs -> {"matches", "changed", "gone"}]
    /\ applied \in [Docs -> Nat]
    /\ done \in BOOLEAN /\ atCancel \subseteq Docs
    /\ processed \in Nat /\ affected \in Nat

CodeTyped ==
    /\ at \in {"start", "count", "open", "next", "batch", "exec", "pause",
               "backoff", "returned"}
    /\ err \in {"none", "dangerous", "cancelled", "server", "transient", "decode"}
    /\ attempt \in 0 .. MaxRetries
    /\ cursors \in Nat /\ due \subseteq Docs /\ drained \in BOOLEAN
    /\ ids \subseteq Docs /\ Cardinality(ids) <= BatchSize

(* Together they are TypeOK, before a step and after it. *)
LEMMA TypesSplit ==
  /\ TypeOK <=> DataTyped /\ CodeTyped
  /\ TypeOK' <=> DataTyped' /\ CodeTyped'
BY DEF TypeOK, DataTyped, CodeTyped

(* A step that touches neither the documents, nor the counts, nor the        *)
(* context.                                                                  *)
LEMMA Quiet ==
  ASSUME BulkInv, at # "returned", UNCHANGED <<opts, server, context, result>>
  PROVE  /\ Written' = Written /\ Matching' = Matching /\ MaxRetries' = MaxRetries
         /\ AppliedOnce' /\ ReportIsTrue' /\ StopsAtCancel' /\ DataTyped'
<1>1. Written' = Written /\ Matching' = Matching /\ MaxRetries' = MaxRetries
  BY DEF Written, Matching, MaxRetries, server
<1>2. AppliedOnce' /\ StopsAtCancel'
  BY <1>1 DEF BulkInv, AppliedOnce, StopsAtCancel, server, context
<1>3. ReportIsTrue'
  BY <1>1 DEF BulkInv, ReportIsTrue, result
<1>4. DataTyped'
  BY TypesSplit DEF BulkInv, DataTyped, server, context, result
<1> QED
  BY <1>1, <1>2, <1>3, <1>4

(* The call succeeds once nothing that matches is left to write.             *)
LEMMA Succeeds ==
  ASSUME BulkInv, at # "returned", Complete, Matching \subseteq Written,
         UNCHANGED <<opts, server, context, attempt, result>>
  PROVE  BulkInv'
<1>1. /\ cursors' = 0 /\ due' = {} /\ drained' = FALSE /\ ids' = {}
      /\ at' = "returned" /\ err' = "none"
  BY DEF Complete, Closed, Return
<1>2. TypeOK'
  <2>1. Cardinality({}) = 0
    BY FS_EmptySet
  <2>2. attempt' \in 0 .. MaxRetries' /\ 0 <= BatchSize
    BY Quiet, TypesSplit, BulkAssumption DEF BulkInv, CodeTyped
  <2>3. CodeTyped'
    BY <1>1, <2>1, <2>2 DEF CodeTyped
  <2> QED
    BY <2>3, Quiet, TypesSplit
<1>3. CursorOK' /\ Fresh' /\ LoopOK' /\ StillToDo' /\ NothingNew'
  BY <1>1 DEF CursorOK, Reading, Fresh, LoopOK, StillToDo, NothingNew
<1>4. CompleteWhenDone'
  BY Quiet DEF CompleteWhenDone
<1> QED
  BY <1>2, <1>3, <1>4, Quiet DEF BulkInv

(* The call returns before anything is read: refused, cancelled, failed, or  *)
(* with nothing to do.                                                       *)
LEMMA ReturnsEarly ==
  ASSUME BulkInv, at \in {"start", "count", "backoff"},
         NEW e \in {"none", "dangerous", "cancelled", "server"}, Return(e),
         e = "none" => CountOnly,
         UNCHANGED <<opts, server, context, attempt, cursorVars, result>>
  PROVE  BulkInv'
<1>1. at' = "returned" /\ err' = e
  BY DEF Return
<1>2. TypeOK'
  <2>1. CodeTyped'
    BY <1>1, Quiet, TypesSplit DEF BulkInv, CodeTyped, cursorVars
  <2> QED
    BY <2>1, Quiet, TypesSplit
<1>3. CursorOK' /\ Fresh' /\ LoopOK' /\ StillToDo' /\ NothingNew'
  BY <1>1 DEF BulkInv, CursorOK, Reading, Fresh, LoopOK, StillToDo, NothingNew, cursorVars
<1>4. CompleteWhenDone'
  BY <1>1, Quiet DEF CompleteWhenDone, CountOnly
<1> QED
  BY <1>2, <1>3, <1>4, Quiet DEF BulkInv

(* The failure of a call to the server ends the attempt. *)
LEMMA FailureEnds ==
  ASSUME BulkInv, at # "returned", NEW e \in Failures, NEW r \in BOOLEAN, EndAttempt(e, r),
         UNCHANGED <<opts, server, context, attempt, result>>
  PROVE  BulkInv'
<1>1. e \in {"cancelled", "server", "transient", "decode"}
  BY DEF Failures
<1> QED
  BY <1>1, AttemptEnds

-----------------------------------------------------------------------------
(* One lemma per action. *)

LEMMA BeginKept ==
  ASSUME BulkInv, Begin
  PROVE  BulkInv'
<1>1. at = "start" /\ UNCHANGED <<opts, server, context, attempt, cursorVars, result>>
  BY DEF Begin
<1>2. CASE Return("dangerous") \/ Return("cancelled")
  BY <1>1, <1>2, ReturnsEarly
<1>3. CASE at' = "count" /\ err' = err
  <2>1. TypeOK'
    <3>1. CodeTyped'
      BY <1>1, <1>3, Quiet, TypesSplit DEF BulkInv, CodeTyped, cursorVars
    <3> QED
      BY <1>1, <3>1, Quiet, TypesSplit
  <2>2. CursorOK' /\ Fresh' /\ StillToDo' /\ NothingNew'
    BY <1>1, <1>3 DEF BulkInv, CursorOK, Reading, Fresh, StillToDo, NothingNew, cursorVars, server
  <2>3. LoopOK' /\ CompleteWhenDone'
    BY <1>1, <1>3, Quiet DEF BulkInv, LoopOK, CompleteWhenDone, result
  <2> QED
    BY <1>1, <2>1, <2>2, <2>3, Quiet DEF BulkInv
<1> QED
  BY <1>2, <1>3 DEF Begin

LEMMA CountKept ==
  ASSUME BulkInv, Count
  PROVE  BulkInv'
<1>1. at = "count" /\ UNCHANGED <<opts, server, context, attempt, cursorVars, result>>
  BY DEF Count
<1>2. CASE Return("server") \/ Return("cancelled") \/ (CountOnly /\ Return("none"))
  BY <1>1, <1>2, ReturnsEarly
<1>3. CASE at' = "open" /\ err' = err
  <2>1. TypeOK'
    <3>1. CodeTyped'
      BY <1>1, <1>3, Quiet, TypesSplit DEF BulkInv, CodeTyped, cursorVars
    <3> QED
      BY <1>1, <3>1, Quiet, TypesSplit
  <2>2. CursorOK' /\ Fresh' /\ StillToDo' /\ NothingNew'
    BY <1>1, <1>3 DEF BulkInv, CursorOK, Reading, Fresh, StillToDo, NothingNew, cursorVars, server
  <2>3. LoopOK' /\ CompleteWhenDone'
    BY <1>1, <1>3, Quiet DEF BulkInv, LoopOK, CompleteWhenDone, result
  <2> QED
    BY <1>1, <2>1, <2>2, <2>3, Quiet DEF BulkInv
<1> QED
  BY <1>2, <1>3 DEF Count

LEMMA OpenKept ==
  ASSUME BulkInv, Open
  PROVE  BulkInv'
<1>1. at = "open" /\ UNCHANGED <<opts, server, context, attempt, result>>
  BY DEF Open
<1>2. CASE \E e \in Failures : EndAttempt(e, CursorRetryable(e))
  BY <1>1, <1>2, FailureEnds DEF CursorRetryable
<1>3. CASE /\ cursors' = cursors + 1
           /\ due' = Matching /\ drained' = FALSE /\ ids' = {}
           /\ at' = "next" /\ UNCHANGED err
  <2>1. cursors = 0 /\ processed = 0 /\ Written = {} /\ err = "none"
    BY <1>1 DEF BulkInv, CursorOK, Reading, LoopOK
  <2>2. TypeOK'
    <3>1. Cardinality({}) = 0 /\ 0 <= BatchSize /\ Matching \subseteq Docs
      BY FS_EmptySet, BulkAssumption DEF Matching
    <3>2. attempt' \in 0 .. MaxRetries'
      BY <1>1, Quiet, TypesSplit DEF BulkInv, CodeTyped
    <3>3. Cardinality(ids') <= BatchSize
      BY <1>3, <3>1
    <3>4. err' \in {"none"} /\ cursors' \in Nat
      BY <1>3, <2>1
    <3>5. CodeTyped'
      BY <1>3, <3>1, <3>2, <3>3, <3>4 DEF CodeTyped
    <3> QED
      BY <1>1, <3>5, Quiet, TypesSplit
  <2>3. Fresh'
    BY <1>1, <1>3, <2>1 DEF BulkInv, TypeOK, Fresh, Written, Matching, server
  <2>4. CursorOK' /\ NothingNew'
    <3>1. Cardinality({}) < BatchSize
      BY FS_EmptySet, BulkAssumption
    <3> QED
      BY <1>1, <1>3, <2>1, <3>1 DEF CursorOK, Reading, NothingNew
  <2>5. StillToDo' /\ LoopOK' /\ CompleteWhenDone'
    BY <1>1, <1>3, <2>1, Quiet DEF LoopOK, StillToDo, CompleteWhenDone, result
  <2> QED
    BY <1>1, <2>2, <2>3, <2>4, <2>5, Quiet DEF BulkInv
<1> QED
  BY <1>2, <1>3 DEF Open

LEMMA ReadKept ==
  ASSUME BulkInv, Read
  PROVE  BulkInv'
<1>1. at = "next" /\ UNCHANGED <<opts, server, context, attempt, result>>
  BY DEF Read
<1>2. CASE EndAttempt("cancelled", FALSE) \/ EndAttempt("decode", FALSE)
  BY <1>1, <1>2, AttemptEnds
<1>3. ASSUME NEW d \in due,
             ids' = ids \cup {d}, due' = due \ {d},
             at' = IF Cardinality(ids') >= BatchSize THEN "batch" ELSE "next",
             UNCHANGED <<cursors, drained, err>>
      PROVE  BulkInv'
  <2>1. at' \in {"batch", "next"}
    BY <1>3
  <2>2. ids \subseteq Docs /\ due \subseteq Docs /\ err = "none" /\ ~drained
    BY <1>1 DEF BulkInv, TypeOK, LoopOK, CursorOK
  <2>3. TypeOK'
    <3>1. Cardinality(ids') <= BatchSize
      <4>1. d \notin ids /\ IsFiniteSet(ids) /\ Cardinality(ids) \in Nat
        BY <2>2, FiniteDocs DEF BulkInv, Fresh
      <4>2. Cardinality(ids') = Cardinality(ids) + 1
        BY <1>3, <4>1, FS_AddElement
      <4>3. Cardinality(ids) < BatchSize
        BY <1>1 DEF BulkInv, CursorOK
      <4> QED
        BY <4>1, <4>2, <4>3, BulkAssumption
    <3>2. CodeTyped'
      BY <1>1, <1>3, <2>1, <2>2, <3>1, Quiet, TypesSplit DEF BulkInv, CodeTyped
    <3> QED
      BY <1>1, <3>2, Quiet, TypesSplit
  <2>4. CursorOK' /\ NothingNew'
    <3>1. at' = "next" => Cardinality(ids') < BatchSize
      BY <1>3, <2>2, FiniteDocs, BulkAssumption
    <3> QED
      BY <1>1, <1>3, <2>1, <2>2, <3>1 DEF BulkInv, CursorOK, Reading, NothingNew
  <2>5. Fresh'
    BY <1>1, <1>3, <2>1 DEF BulkInv, Fresh, server
  <2>6. StillToDo'
    BY <1>1, <1>3, <2>1, Quiet DEF BulkInv, StillToDo
  <2>7. LoopOK' /\ CompleteWhenDone'
    BY <1>1, <1>3, <2>1, <2>2, Quiet DEF BulkInv, LoopOK, CompleteWhenDone, result
  <2> QED
    BY <1>1, <2>3, <2>4, <2>5, <2>6, <2>7, Quiet DEF BulkInv
<1> QED
  BY <1>2, <1>3 DEF Read

LEMMA ExhaustedKept ==
  ASSUME BulkInv, Exhausted
  PROVE  BulkInv'
<1>1. /\ at = "next" /\ due \cap Matching = {} /\ AfterLast
      /\ UNCHANGED <<opts, server, context, attempt, result>>
  BY DEF Exhausted
<1>2. Matching \subseteq ids \cup Written /\ err = "none"
  BY <1>1 DEF BulkInv, StillToDo, LoopOK
<1>3. CASE ids = {}
  <2>1. Complete /\ Matching \subseteq Written
    BY <1>1, <1>2, <1>3 DEF AfterLast
  <2> QED
    BY <1>1, <2>1, Succeeds
<1>4. CASE ids # {}
  <2>1. drained' = TRUE /\ due' = {} /\ at' = "batch" /\ UNCHANGED <<cursors, ids, err>>
    BY <1>1, <1>4 DEF AfterLast
  <2>2. CodeTyped'
    BY <1>1, <2>1, Quiet, TypesSplit DEF BulkInv, CodeTyped
  <2>3. CursorOK' /\ NothingNew'
    BY <1>1, <1>4, <2>1 DEF BulkInv, CursorOK, Reading, NothingNew
  <2>4. Fresh'
    BY <1>1, <2>1 DEF BulkInv, Fresh, server
  <2>5. StillToDo' /\ LoopOK' /\ CompleteWhenDone'
    BY <1>1, <1>2, <2>1, Quiet DEF BulkInv, LoopOK, StillToDo, CompleteWhenDone, result
  <2> QED
    BY <1>1, <2>2, <2>3, <2>4, <2>5, Quiet, TypesSplit DEF BulkInv
<1> QED
  BY <1>3, <1>4

LEMMA ReadFailsKept ==
  ASSUME BulkInv, ReadFails
  PROVE  BulkInv'
BY FailureEnds DEF ReadFails, CursorRetryable

LEMMA CheckBatchKept ==
  ASSUME BulkInv, CheckBatch
  PROVE  BulkInv'
<1>1. at = "batch" /\ UNCHANGED <<opts, server, context, attempt, result>>
  BY DEF CheckBatch
<1>2. CASE EndAttempt("cancelled", FALSE)
  BY <1>1, <1>2, AttemptEnds
<1>3. CASE ~done /\ at' = "exec" /\ UNCHANGED <<cursorVars, err>>
  <2>1. CodeTyped'
    BY <1>1, <1>3, Quiet, TypesSplit DEF BulkInv, CodeTyped, cursorVars
  <2>2. CursorOK' /\ NothingNew'
    BY <1>1, <1>3 DEF BulkInv, CursorOK, Reading, NothingNew, cursorVars, context
  <2>3. Fresh'
    BY <1>1, <1>3 DEF BulkInv, Fresh, server, cursorVars
  <2>4. StillToDo' /\ LoopOK' /\ CompleteWhenDone'
    BY <1>1, <1>3, Quiet DEF BulkInv, LoopOK, StillToDo, CompleteWhenDone, result, cursorVars
  <2> QED
    BY <1>1, <2>1, <2>2, <2>3, <2>4, Quiet, TypesSplit DEF BulkInv
<1> QED
  BY <1>2, <1>3 DEF CheckBatch, Stopped

(* What the server does with a batch, or a part of it. *)
LEMMA Applied ==
  ASSUME BulkInv, at = "exec", NEW S \in SUBSET Present(ids), Apply(S),
         UNCHANGED <<opts, context>>
  PROVE  /\ doc' \in [Docs -> {"matches", "changed", "gone"}]
         /\ applied' \in [Docs -> Nat]
         /\ AppliedOnce' /\ StopsAtCancel'
         /\ Written' = Written \cup S /\ Written \cap S = {}
         /\ Matching' \subseteq Matching
         /\ \A d \in due : applied'[d] = 0
         /\ Cardinality(Written') = Cardinality(Written) + Cardinality(S)
         /\ Cardinality(S) <= Cardinality(ids)
<1>1. S \subseteq ids /\ ids \subseteq Docs /\ due \subseteq Docs
  BY DEF Present, BulkInv, TypeOK
<1>2. /\ applied \in [Docs -> Nat] /\ opts.op \in Operations
      /\ doc \in [Docs -> {"matches", "changed", "gone"}]
  BY BulkAssumption DEF BulkInv, TypeOK
<1>3. \A d \in ids \cup due : applied[d] = 0
  BY DEF BulkInv, Fresh
<1>4. \A d \in Docs : applied'[d] = IF d \in S THEN applied[d] + 1 ELSE applied[d]
  BY DEF Apply
<1>5. applied' \in [Docs -> Nat]
  BY <1>2 DEF Apply
<1>6. /\ doc' \in [Docs -> {"matches", "changed", "gone"}]
      /\ \A d \in Docs : doc'[d] = "matches" => doc[d] = "matches"
  BY <1>2 DEF Apply, Operations
<1>7. Written' = Written \cup S /\ Written \cap S = {}
  BY <1>1, <1>2, <1>3, <1>4 DEF Written
<1>8. Matching' \subseteq Matching
  BY <1>6 DEF Matching
<1>9. AppliedOnce'
  BY <1>1, <1>2, <1>3, <1>4 DEF BulkInv, AppliedOnce
<1>10. StopsAtCancel'
  BY <1>1, <1>7 DEF BulkInv, StopsAtCancel, NothingNew, context
<1>11. \A d \in due : applied'[d] = 0
  BY <1>1, <1>3, <1>4 DEF BulkInv, Fresh
<1>12. /\ IsFiniteSet(Written) /\ IsFiniteSet(S) /\ IsFiniteSet(ids)
       /\ Cardinality(Written) \in Nat /\ Cardinality(S) \in Nat
  BY <1>1, FiniteDocs DEF Written
<1>13. Cardinality(Written \cup S) = Cardinality(Written) + Cardinality(S)
  <2>1. Cardinality(Written \cup S) =
          Cardinality(Written) + Cardinality(S) - Cardinality(Written \cap S)
    BY <1>12, FS_Union
  <2>2. Cardinality(Written \cap S) = 0
    BY <1>7, FS_EmptySet
  <2> QED
    BY <1>12, <2>1, <2>2
<1>14. Cardinality(S) <= Cardinality(ids)
  BY <1>1, <1>12, FS_Subset
<1> QED
  BY <1>5, <1>6, <1>7, <1>8, <1>9, <1>10, <1>11, <1>13, <1>14

(* The context ends, and with it nothing else. *)
LEMMA CancelKept ==
  ASSUME BulkInv, Cancel
  PROVE  BulkInv'
<1>1. /\ at # "returned" /\ done' = TRUE
      /\ atCancel' = Written \cup (IF at = "exec" THEN ids ELSE {})
      /\ UNCHANGED <<opts, server, at, err, attempt, cursorVars, result>>
  BY DEF Cancel
<1>2. Written' = Written /\ Matching' = Matching /\ MaxRetries' = MaxRetries
  BY <1>1 DEF Written, Matching, MaxRetries, server
<1>3. TypeOK'
  <2>1. CodeTyped'
    BY <1>1, <1>2, TypesSplit DEF BulkInv, CodeTyped, cursorVars
  <2>2. DataTyped'
    BY <1>1, TypesSplit DEF BulkInv, DataTyped, CodeTyped, Written, server, result
  <2> QED
    BY <2>1, <2>2, TypesSplit
<1>4. CursorOK' /\ Fresh'
  BY <1>1 DEF BulkInv, CursorOK, Fresh, cursorVars, server
<1>5. LoopOK' /\ StillToDo' /\ CompleteWhenDone'
  BY <1>1, <1>2 DEF BulkInv, LoopOK, StillToDo, CompleteWhenDone, cursorVars, result
<1>6. AppliedOnce' /\ ReportIsTrue'
  BY <1>1, <1>2 DEF BulkInv, AppliedOnce, ReportIsTrue, server, result
<1>7. StopsAtCancel' /\ NothingNew'
  BY <1>1, <1>2 DEF StopsAtCancel, NothingNew, cursorVars
<1> QED
  BY <1>3, <1>4, <1>5, <1>6, <1>7 DEF BulkInv

(* Another client only makes fewer documents match. *)
LEMMA OtherClientKept ==
  ASSUME BulkInv, OtherClient
  PROVE  BulkInv'
<1>1. PICK d \in Matching, p \in {"changed", "gone"} : doc' = [doc EXCEPT ![d] = p]
  BY DEF OtherClient
<1>2. /\ at # "returned"
      /\ UNCHANGED <<opts, applied, context, at, err, attempt, cursorVars, result>>
  BY DEF OtherClient
<1>3. Written' = Written /\ MaxRetries' = MaxRetries
  BY <1>2 DEF Written, MaxRetries
<1>4. doc' \in [Docs -> {"matches", "changed", "gone"}] /\ Matching' \subseteq Matching
  BY <1>1 DEF Matching, BulkInv, TypeOK
<1>5. TypeOK'
  <2>1. CodeTyped'
    BY <1>2, <1>3, TypesSplit DEF BulkInv, CodeTyped, cursorVars
  <2>2. DataTyped'
    BY <1>2, <1>4, TypesSplit DEF BulkInv, DataTyped, context, result
  <2> QED
    BY <2>1, <2>2, TypesSplit
<1>6. CursorOK' /\ Fresh' /\ NothingNew'
  BY <1>2, <1>3 DEF BulkInv, CursorOK, Fresh, NothingNew, cursorVars, context
<1>7. LoopOK' /\ StillToDo' /\ CompleteWhenDone'
  BY <1>2, <1>3, <1>4 DEF BulkInv, LoopOK, StillToDo, CompleteWhenDone, cursorVars, result
<1>8. AppliedOnce' /\ ReportIsTrue' /\ StopsAtCancel'
  BY <1>2, <1>3 DEF BulkInv, AppliedOnce, ReportIsTrue, StopsAtCancel, context, result
<1> QED
  BY <1>5, <1>6, <1>7, <1>8 DEF BulkInv

(* A wait that the context cuts short. *)
LEMMA CancelWaitKept ==
  ASSUME BulkInv, CancelWait
  PROVE  BulkInv'
<1>1. UNCHANGED <<opts, server, context, attempt, result>>
  BY DEF CancelWait
<1>2. CASE at = "pause" /\ EndAttempt("cancelled", FALSE)
  BY <1>1, <1>2, AttemptEnds
<1>3. CASE at = "backoff" /\ Return("cancelled") /\ UNCHANGED cursorVars
  BY <1>1, <1>3, ReturnsEarly
<1> QED
  BY <1>2, <1>3 DEF CancelWait

(* The timer of a pause, or of the wait before another attempt.              *)
LEMMA TimerKept ==
  ASSUME BulkInv, TimerFires
  PROVE  BulkInv'
<1>1. UNCHANGED <<opts, server, context, result>>
  BY DEF TimerFires
<1>2. CASE at = "pause" /\ Proceed /\ UNCHANGED attempt
  <2>1. CASE drained
    <3>1. Complete /\ Matching \subseteq Written
      BY <1>2, <2>1 DEF Proceed, BulkInv, CursorOK, StillToDo
    <3> QED
      BY <1>1, <1>2, <3>1, Succeeds
  <2>2. CASE ~drained
    <3>1. at' = "next" /\ ids' = {} /\ UNCHANGED <<cursors, due, drained, err, attempt>>
      BY <1>2, <2>2 DEF Proceed, ClearIds
    <3>2. Cardinality({}) = 0 /\ 0 < BatchSize
      BY FS_EmptySet, BulkAssumption
    <3>3. CodeTyped'
      <4>1. Cardinality(ids') <= BatchSize /\ ids' \subseteq Docs
        BY <3>1, <3>2, BulkAssumption
      <4>2. CodeTyped /\ MaxRetries' = MaxRetries
        BY <1>1, <1>2, Quiet, TypesSplit DEF BulkInv
      <4> QED
        BY <3>1, <4>1, <4>2 DEF CodeTyped
    <3>4. CursorOK' /\ NothingNew'
      BY <1>2, <2>2, <3>1, <3>2 DEF BulkInv, CursorOK, Reading, NothingNew
    <3>5. Fresh'
      BY <1>1, <3>1 DEF BulkInv, Fresh, server
    <3>6. StillToDo' /\ LoopOK' /\ CompleteWhenDone'
      BY <1>1, <1>2, <3>1, Quiet DEF BulkInv, LoopOK, StillToDo, CompleteWhenDone, result
    <3> QED
      BY <1>1, <1>2, <3>3, <3>4, <3>5, <3>6, Quiet, TypesSplit DEF BulkInv
  <2> QED
    BY <2>1, <2>2 DEF BulkInv, TypeOK
<1>3. CASE /\ at = "backoff" /\ at' = "open" /\ attempt' = attempt + 1
           /\ UNCHANGED <<err, cursorVars>>
  <2>1. attempt + 1 \in 0 .. MaxRetries
    BY <1>3, RetriesType DEF BulkInv, LoopOK, TypeOK
  <2>2. CodeTyped'
    BY <1>1, <1>3, <2>1, Quiet, TypesSplit DEF BulkInv, CodeTyped, cursorVars
  <2>3. CursorOK' /\ NothingNew' /\ StillToDo'
    BY <1>3 DEF BulkInv, CursorOK, Reading, NothingNew, StillToDo, cursorVars
  <2>4. Fresh'
    BY <1>1, <1>3 DEF BulkInv, Fresh, server, cursorVars
  <2>5. LoopOK' /\ CompleteWhenDone'
    BY <1>1, <1>3, Quiet DEF BulkInv, LoopOK, CompleteWhenDone, result
  <2> QED
    BY <1>1, <1>3, <2>2, <2>3, <2>4, <2>5, Quiet, TypesSplit DEF BulkInv
<1> QED
  BY <1>2, <1>3 DEF TimerFires, Resume, NextAttempt

(* The server writes a batch, and says so. *)
LEMMA ExecKept ==
  ASSUME BulkInv, Exec
  PROVE  BulkInv'
<1> DEFINE S == Present(ids)
<1>0. /\ at = "exec" /\ Apply(S) /\ S \subseteq ids /\ UNCHANGED <<opts, context, attempt>>
      /\ processed' = processed + Cardinality(ids)
      /\ affected' = affected + Cardinality(S)
  BY DEF Exec, Tally, Present
<1>1. /\ doc' \in [Docs -> {"matches", "changed", "gone"}] /\ applied' \in [Docs -> Nat]
      /\ AppliedOnce' /\ StopsAtCancel'
      /\ Written' = Written \cup S /\ Matching' \subseteq Matching
      /\ \A d \in due : applied'[d] = 0
      /\ Cardinality(Written') = Cardinality(Written) + Cardinality(S)
      /\ Cardinality(S) <= Cardinality(ids)
  BY <1>0, Applied
<1>2. /\ ids # {} /\ IsFiniteSet(ids) /\ Cardinality(ids) \in Nat \ {0}
      /\ Cardinality(S) \in Nat /\ Cardinality(Written) \in Nat
  <2>1. ids # {} /\ ids \subseteq Docs /\ S \subseteq Docs
    BY <1>0 DEF BulkInv, CursorOK, TypeOK
  <2> QED
    BY <2>1, FiniteDocs, FS_EmptySet DEF Written
<1>3. Matching' \subseteq due \cup Written'
  <2> SUFFICES ASSUME NEW d \in Docs, doc'[d] = "matches", d \in ids
               PROVE  d \in S
    BY <1>0, <1>1 DEF BulkInv, StillToDo, Matching
  <2>1. doc[d] = "matches"
    BY <1>1 DEF Matching
  <2> QED
    BY <2>1 DEF Present
<1> HIDE DEF S
<1>4. /\ processed' \in Nat \ {0} /\ affected' \in Nat
      /\ affected' = Cardinality(Written') /\ affected' <= processed'
  <2>1. /\ affected = Cardinality(Written) /\ affected <= processed
        /\ processed \in Nat /\ affected \in Nat
    BY <1>0 DEF BulkInv, ReportIsTrue, TypeOK
  <2> QED
    BY <1>0, <1>1, <1>2, <2>1
<1>5. ReportIsTrue'
  BY <1>4, BulkAssumption DEF ReportIsTrue
<1>6. DataTyped' /\ MaxRetries' = MaxRetries
  BY <1>0, <1>1, <1>4, TypesSplit DEF BulkInv, DataTyped, MaxRetries, context
<1>7. CodeTyped /\ err = "none" /\ cursors = 1
  BY <1>0, TypesSplit DEF BulkInv, LoopOK, CursorOK, Reading
<1>8. Cardinality({}) = 0 /\ 0 < BatchSize /\ BatchSize \in Nat
  BY FS_EmptySet, BulkAssumption
<1>9. CASE at' = "pause" /\ UNCHANGED <<cursorVars, err>>
  <2>1. CodeTyped'
    BY <1>0, <1>6, <1>7, <1>9 DEF CodeTyped, cursorVars
  <2>2. CursorOK' /\ NothingNew' /\ StillToDo'
    BY <1>0, <1>3, <1>9 DEF BulkInv, CursorOK, Reading, NothingNew, StillToDo, cursorVars
  <2>3. Fresh'
    BY <1>1, <1>9 DEF BulkInv, Fresh, cursorVars
  <2>4. LoopOK' /\ CompleteWhenDone'
    BY <1>4, <1>7, <1>9 DEF LoopOK, CompleteWhenDone
  <2> QED
    BY <1>1, <1>5, <1>6, <2>1, <2>2, <2>3, <2>4, TypesSplit DEF BulkInv
<1>10. CASE drained /\ Complete
  <2>0. /\ cursors' = 0 /\ due' = {} /\ drained' = FALSE /\ ids' = {}
        /\ at' = "returned" /\ err' = "none"
    BY <1>10 DEF Complete, Closed, Return
  <2>1. CodeTyped'
    <3>1. Cardinality(ids') <= BatchSize
      BY <1>8, <2>0
    <3>2. attempt' \in 0 .. MaxRetries'
      BY <1>0, <1>6, <1>7 DEF CodeTyped
    <3> QED
      BY <2>0, <3>1, <3>2 DEF CodeTyped
  <2>2. CursorOK' /\ NothingNew' /\ StillToDo' /\ Fresh' /\ LoopOK'
    BY <2>0 DEF CursorOK, Reading, NothingNew, StillToDo, Fresh, LoopOK
  <2>3. CompleteWhenDone'
    BY <1>3, <1>10 DEF BulkInv, CursorOK, CompleteWhenDone
  <2> QED
    BY <1>1, <1>5, <1>6, <2>1, <2>2, <2>3, TypesSplit DEF BulkInv
<1>11. CASE /\ ~drained /\ at' = "next" /\ ids' = {}
            /\ UNCHANGED <<cursors, due, drained, err>>
  <2>0. Cardinality(ids') = 0 /\ ids' \subseteq Docs
    BY <1>8, <1>11
  <2>1. CodeTyped'
    BY <1>0, <1>6, <1>7, <1>8, <1>11, <2>0 DEF CodeTyped
  <2>2. CursorOK' /\ NothingNew'
    BY <1>7, <1>8, <1>11, <2>0 DEF CursorOK, Reading, NothingNew
  <2>3. Fresh' /\ StillToDo'
    BY <1>1, <1>3, <1>11 DEF Fresh, StillToDo
  <2>4. LoopOK' /\ CompleteWhenDone'
    BY <1>4, <1>7, <1>11 DEF LoopOK, CompleteWhenDone
  <2> QED
    BY <1>1, <1>5, <1>6, <2>1, <2>2, <2>3, <2>4, TypesSplit DEF BulkInv
<1>12. CASE Proceed
  BY <1>10, <1>11, <1>12 DEF Proceed, ClearIds, BulkInv, TypeOK
<1> QED
  BY <1>9, <1>12 DEF Exec

(* The call fails after the server has written some of the batch, or none:   *)
(* the one case in which the report falls short, by no more than the batch.  *)
LEMMA ExecFailsKept ==
  ASSUME BulkInv, ExecFails
  PROVE  BulkInv'
<1>0. at = "exec" /\ UNCHANGED <<opts, context, attempt, result>>
  BY DEF ExecFails
<1>1. PICK S \in SUBSET Present(ids) : Apply(S)
  BY DEF ExecFails
<1>2. PICK e \in Failures : EndAttempt(e, FALSE)
  BY DEF ExecFails, BatchRetryable
<1>3. /\ cursors' = 0 /\ due' = {} /\ drained' = FALSE /\ ids' = {}
      /\ at' = "returned" /\ err' = e
  BY <1>2 DEF EndAttempt, ShouldRetry, Closed, Return
<1>4. e \in {"transient", "server", "cancelled"}
  BY DEF Failures
<1>5. /\ doc' \in [Docs -> {"matches", "changed", "gone"}] /\ applied' \in [Docs -> Nat]
      /\ AppliedOnce' /\ StopsAtCancel'
      /\ Cardinality(Written') = Cardinality(Written) + Cardinality(S)
      /\ Cardinality(S) <= Cardinality(ids)
  BY <1>0, <1>1, Applied
<1>6. TypeOK'
  <2>1. DataTyped' /\ MaxRetries' = MaxRetries
    BY <1>0, <1>5, TypesSplit DEF BulkInv, DataTyped, MaxRetries, context, result
  <2>2. Cardinality(ids') <= BatchSize /\ ids' \subseteq Docs
    BY <1>3, FS_EmptySet, BulkAssumption
  <2>3. attempt' \in 0 .. MaxRetries'
    BY <1>0, <2>1, TypesSplit DEF BulkInv, CodeTyped
  <2>4. CodeTyped'
    BY <1>3, <1>4, <2>2, <2>3 DEF CodeTyped
  <2> QED
    BY <2>1, <2>4, TypesSplit
<1>7. CursorOK' /\ Fresh' /\ LoopOK' /\ StillToDo' /\ NothingNew'
  BY <1>3 DEF CursorOK, Reading, Fresh, LoopOK, StillToDo, NothingNew
<1>8. CompleteWhenDone'
  BY <1>3, <1>4 DEF CompleteWhenDone
<1>9. ReportIsTrue'
  <2>1. /\ affected = Cardinality(Written) /\ affected <= processed
        /\ processed \in Nat /\ affected \in Nat /\ Cardinality(ids) <= BatchSize
        /\ BatchSize \in Nat
    BY <1>0, BulkAssumption DEF BulkInv, ReportIsTrue, TypeOK
  <2>2. S \subseteq Docs /\ ids \subseteq Docs
    BY DEF Present, BulkInv, TypeOK
  <2>3. Cardinality(S) \in Nat /\ Cardinality(ids) \in Nat
    BY <2>2, FiniteDocs
  <2>4. affected' = affected /\ processed' = processed
    BY <1>0 DEF result
  <2>5. Cardinality(Written') <= affected + BatchSize /\ affected <= Cardinality(Written')
    BY <1>5, <2>1, <2>3
  <2>6. ~(at' # "returned" \/ err' = "none")
    BY <1>3, <1>4
  <2> QED
    BY <2>1, <2>4, <2>5, <2>6 DEF ReportIsTrue
<1> QED
  BY <1>5, <1>6, <1>7, <1>8, <1>9 DEF BulkInv

-----------------------------------------------------------------------------
(* The theorems. *)

(* Nothing is written, read or counted at first. *)
LEMMA BulkInitially == Init => BulkInv
<1> SUFFICES ASSUME Init PROVE BulkInv
  OBVIOUS
<1>1. Cardinality({}) = 0 /\ BatchSize \in Nat \ {0}
  BY FS_EmptySet, BulkAssumption
<1>2. Written = {}
  BY DEF Init, Written
<1>3. DataTyped /\ opts.maxRetries \in Nat
  BY BulkAssumption DEF Init, DataTyped
<1>4. MaxRetries \in Nat
  BY <1>3, BulkAssumption DEF MaxRetries
<1>5. CodeTyped
  <2>1. Cardinality(ids) <= BatchSize /\ attempt \in 0 .. MaxRetries
    BY <1>1, <1>4 DEF Init
  <2> QED
    BY <2>1 DEF Init, CodeTyped
<1>6. CursorOK /\ Fresh /\ LoopOK /\ StillToDo /\ NothingNew
  BY <1>2 DEF Init, CursorOK, Reading, Fresh, LoopOK, StillToDo, NothingNew
<1>7. AppliedOnce /\ CompleteWhenDone /\ StopsAtCancel
  BY DEF Init, AppliedOnce, CompleteWhenDone, StopsAtCancel
<1>8. ReportIsTrue
  BY <1>1, <1>2 DEF Init, ReportIsTrue
<1> QED
  BY <1>3, <1>5, <1>6, <1>7, <1>8, TypesSplit DEF BulkInv

(* Every step keeps the invariant. *)
LEMMA BulkInductive == BulkInv /\ [Next]_vars => BulkInv'
<1> SUFFICES ASSUME BulkInv, [Next]_vars PROVE BulkInv'
  OBVIOUS
<1>1. CASE Step
  BY <1>1, BeginKept, CountKept, OpenKept, ReadKept, ReadFailsKept, ExhaustedKept,
     CheckBatchKept, ExecKept, ExecFailsKept, CancelWaitKept DEF Step
<1>2. CASE TimerFires \/ Cancel \/ OtherClient
  BY <1>2, TimerKept, CancelKept, OtherClientKept
<1>3. CASE UNCHANGED vars
  <2>1. Written' = Written /\ Matching' = Matching /\ MaxRetries' = MaxRetries
    BY <1>3 DEF vars, Written, Matching, MaxRetries, server
  <2>2. DataTyped' /\ CodeTyped'
    BY <1>3, <2>1, TypesSplit DEF BulkInv, DataTyped, CodeTyped, vars, server, context,
       result, cursorVars
  <2>3. CursorOK' /\ Fresh' /\ LoopOK' /\ StillToDo' /\ NothingNew'
    BY <1>3, <2>1 DEF BulkInv, CursorOK, Fresh, LoopOK, StillToDo, NothingNew, vars,
       server, context, result, cursorVars
  <2>4. AppliedOnce' /\ ReportIsTrue' /\ CompleteWhenDone' /\ StopsAtCancel'
    BY <1>3, <2>1 DEF BulkInv, AppliedOnce, ReportIsTrue, CompleteWhenDone, StopsAtCancel,
       vars, server, context, result
  <2> QED
    BY <2>2, <2>3, <2>4, TypesSplit DEF BulkInv
<1> QED
  BY <1>1, <1>2, <1>3 DEF Next

(* So it always holds. *)
LEMMA BulkInvariant == Spec => []BulkInv
BY BulkInitially, BulkInductive, PTL DEF Spec

(* Type correctness; a batch never exceeds BatchSize (bulk.go:225).          *)
THEOREM BulkTypeCorrect == Spec => []TypeOK
<1>1. BulkInv => TypeOK
  BY DEF BulkInv
<1> QED
  BY <1>1, BulkInvariant, PTL

(* One call writes no document twice, whatever fails and is tried again      *)
(* (shouldRetryBulkCursor, bulk.go:193-201).                                 *)
THEOREM WrittenOnce == Spec => []AppliedOnce
<1>1. BulkInv => AppliedOnce
  BY DEF BulkInv
<1> QED
  BY <1>1, BulkInvariant, PTL

(* The result counts every document written, except at most those of the one *)
(* batch whose answer was an error (bulk.go:248-258).                        *)
THEOREM TrueReport == Spec => []ReportIsTrue
<1>1. BulkInv => ReportIsTrue
  BY DEF BulkInv
<1> QED
  BY <1>1, BulkInvariant, PTL

(* Success means that no document that still matches is unwritten            *)
(* (bulk.go:169-190, :216-241).                                              *)
THEOREM SuccessIsComplete == Spec => []CompleteWhenDone
<1>1. BulkInv => CompleteWhenDone
  BY DEF BulkInv
<1> QED
  BY <1>1, BulkInvariant, PTL

(* Once cancelled, only the batch under way reaches the server (bulk.go:217, *)
(* :245).                                                                    *)
THEOREM CancelStops == Spec => []StopsAtCancel
<1>1. BulkInv => StopsAtCancel
  BY DEF BulkInv
<1> QED
  BY <1>1, BulkInvariant, PTL

(* Whichever way a call ends, its cursor is closed (bulk.go:209-213).        *)
THEOREM NoCursorLeft == Spec => []CursorClosed
<1>1. BulkInv => CursorClosed
  BY DEF BulkInv, CursorOK, Reading, CursorClosed
<1> QED
  BY <1>1, BulkInvariant, PTL
=============================================================================
