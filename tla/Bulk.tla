--------------------------------- MODULE Bulk ---------------------------------
(***************************************************************************)
(* One call of BulkDelete or BulkUpdate (src/pkg/mot/bulk.go): count the   *)
(* documents that match the filter, read their _ids through a cursor, and  *)
(* send them to the server batch by batch, pausing in between.  A cursor   *)
(* that fails for a passing reason is opened again; a batch is not sent    *)
(* again.  Meanwhile other clients write to the collection, the server     *)
(* fails, its answers get lost, and the caller cancels.                    *)
(***************************************************************************)
EXTENDS Naturals, FiniteSets

CONSTANTS
    Docs,           \* the documents of the collection
    BatchSize,      \* BulkOptions.BatchSize
    DefaultRetries, \* defaultBulkMaxRetries
    Options         \* the options of the calls that are considered

Operations == {"delete", "keep", "leave"}
    (* BulkDelete; BulkUpdate after which a document still matches the       *)
    (* filter; BulkUpdate after which it does not.                           *)

ASSUME BulkAssumption ==
    /\ IsFiniteSet(Docs)
    /\ BatchSize \in Nat \ {0}
    /\ DefaultRetries \in Nat \ {0}
    /\ Options \subseteq [op : Operations, dryRun : BOOLEAN, emptyFilter : BOOLEAN,
                          allowEmpty : BOOLEAN, pause : BOOLEAN, maxRetries : Nat]

VARIABLES
    opts,       \* BulkOptions
    doc,        \* what the filter says of each document, or "gone"
    applied,    \* how often the write has been applied to each document
    done,       \* whether the caller's context is cancelled
    atCancel,   \* the documents written or under way when it was cancelled
    at,         \* where the call is
    err,        \* the kind of error it returns
    attempt,    \* the attempt of runBulk's loop
    cursors,    \* open cursors
    due,        \* documents the cursor has yet to return
    drained,    \* the cursor has returned its last document
    ids,        \* the batch being gathered
    processed,  \* BulkResult.Processed
    affected    \* BulkResult.Deleted, or Matched

cursorVars == <<cursors, due, drained, ids>>
result == <<processed, affected>>
server == <<doc, applied>>
context == <<done, atCancel>>
vars == <<opts, server, context, at, err, attempt, cursorVars, result>>

Matching == {d \in Docs : doc[d] = "matches"}
Written == {d \in Docs : applied[d] > 0}

Init ==
    /\ opts \in Options
    /\ doc = [d \in Docs |-> "matches"]
    /\ applied = [d \in Docs |-> 0]
    /\ done = FALSE /\ atCancel = {}
    /\ at = "start" /\ err = "none"
    /\ attempt = 0
    /\ cursors = 0 /\ due = {} /\ drained = FALSE /\ ids = {}
    /\ processed = 0 /\ affected = 0

Return(e) == at' = "returned" /\ err' = e

-----------------------------------------------------------------------------
(* validateBulkOptions and the start of runBulk. *)

Dangerous == opts.emptyFilter /\ ~opts.dryRun /\ ~opts.allowEmpty

Begin ==
    /\ at = "start"
    /\ \/ Dangerous /\ Return("dangerous")
       \/ ~Dangerous /\ done /\ Return("cancelled")
       \/ ~Dangerous /\ ~done /\ at' = "count" /\ UNCHANGED err
    /\ UNCHANGED <<opts, server, context, attempt, cursorVars, result>>

CountOnly == opts.dryRun \/ Matching = {}

Count ==
    /\ at = "count"
    /\ \/ Return("server")
       \/ done /\ Return("cancelled")
       \/ CountOnly /\ Return("none")
       \/ ~CountOnly /\ at' = "open" /\ UNCHANGED err
    /\ UNCHANGED <<opts, server, context, attempt, cursorVars, result>>

-----------------------------------------------------------------------------
(* Ends of an attempt: runBulkOnce returns, closing its cursor under a       *)
(* context of its own (cleanupContext), and runBulk decides what is next.    *)

MaxRetries == IF opts.maxRetries = 0 THEN DefaultRetries ELSE opts.maxRetries

(* Not looking at the progress, any attempt would be made again. *)
AnyProgress == TRUE
NoProgress == processed = 0

Closed == 0

ShouldRetry(retryable) == retryable /\ attempt # MaxRetries /\ NoProgress

EndAttempt(e, retryable) ==
    /\ cursors' = Closed /\ due' = {} /\ drained' = FALSE /\ ids' = {}
    /\ IF ShouldRetry(retryable) THEN at' = "backoff" /\ UNCHANGED err
       ELSE Return(e)

Complete ==
    /\ cursors' = Closed /\ due' = {} /\ drained' = FALSE /\ ids' = {}
    /\ Return("none")

(* What the server or the driver says when a call does not succeed.          *)
(* Of a cursor, a passing failure is worth another attempt.                  *)
Failures == {"transient", "server"} \cup (IF done THEN {"cancelled"} ELSE {})
CursorRetryable(e) == e = "transient"

Open ==
    /\ at = "open"
    /\ \/ \E e \in Failures : EndAttempt(e, CursorRetryable(e))
       \/ /\ cursors' = cursors + 1
          /\ due' = Matching /\ drained' = FALSE /\ ids' = {}
          /\ at' = "next" /\ UNCHANGED err
    /\ UNCHANGED <<opts, server, context, attempt, result>>

(* cur.Next: a document that matched when the cursor was opened, whether or  *)
(* not it still does; only those that no longer match can be left out.       *)
Read ==
    /\ at = "next"
    /\ \E d \in due :
          /\ \/ done /\ EndAttempt("cancelled", FALSE)
             \/ ~done /\ EndAttempt("decode", FALSE)
             \/ /\ ~done
                /\ ids' = ids \cup {d} /\ due' = due \ {d}
                /\ at' = IF Cardinality(ids') >= BatchSize THEN "batch" ELSE "next"
                /\ UNCHANGED <<cursors, drained, err>>
    /\ UNCHANGED <<opts, server, context, attempt, result>>

(* After the last document: the rest of the batch, if there is any. *)
AfterLast ==
    IF ids = {} THEN Complete
    ELSE /\ drained' = TRUE /\ due' = {} /\ at' = "batch"
         /\ UNCHANGED <<cursors, ids, err>>

Exhausted ==
    /\ at = "next"
    /\ due \cap Matching = {}
    /\ AfterLast
    /\ UNCHANGED <<opts, server, context, attempt, result>>

(* cur.Err; without it a failure would look like the end of the documents. *)
ErrUnseen ==
    /\ at = "next"
    /\ AfterLast
    /\ UNCHANGED <<opts, server, context, attempt, result>>

ReadFails ==
    /\ at = "next"
    /\ \E e \in Failures : EndAttempt(e, CursorRetryable(e))
    /\ UNCHANGED <<opts, server, context, attempt, result>>

-----------------------------------------------------------------------------
(* executeBulkBatch *)

(* The context; unchecked, a batch would be sent after its end. *)
Unchecked == FALSE
Stopped == done

CheckBatch ==
    /\ at = "batch"
    /\ \/ Stopped /\ EndAttempt("cancelled", FALSE)
       \/ ~Stopped /\ at' = "exec" /\ UNCHANGED <<cursorVars, err>>
    /\ UNCHANGED <<opts, server, context, attempt, result>>

(* DeleteMany or UpdateMany with {_id: {$in: ids}}: the server writes the    *)
(* documents that still exist, whether or not they still match.              *)
Present(S) == {d \in S : doc[d] # "gone"}

Apply(S) ==
    /\ applied' = [d \in Docs |-> IF d \in S THEN applied[d] + 1 ELSE applied[d]]
    /\ doc' = [d \in Docs |->
                 CASE d \notin S -> doc[d]
                   [] d \in S /\ opts.op = "delete" -> "gone"
                   [] d \in S /\ opts.op = "keep" -> doc[d]
                   [] d \in S /\ opts.op = "leave" -> "changed"]

(* Counting what the server was asked to write, and what it wrote. *)
Tally ==
    /\ processed' = processed + Cardinality(ids)
    /\ affected' = affected + Cardinality(Present(ids))

(* ids[:0] *)
ClearIds == ids' = {}

(* After a batch: the next document, or the end. *)
Proceed ==
    IF drained THEN Complete
    ELSE /\ at' = "next" /\ ClearIds
         /\ UNCHANGED <<cursors, due, drained, err>>

Exec ==
    /\ at = "exec"
    /\ Apply(Present(ids))
    /\ Tally
    /\ IF opts.pause THEN at' = "pause" /\ UNCHANGED <<cursorVars, err>> ELSE Proceed
    /\ UNCHANGED <<opts, context, attempt>>

(* The call fails: the server may have written any part of the batch.  The   *)
(* error is never one to retry, even if it would be for a cursor.            *)
AsForCursor(e) == CursorRetryable(e)
BatchRetryable(e) == FALSE

ExecFails ==
    /\ at = "exec"
    /\ \E S \in SUBSET Present(ids) : Apply(S)
    /\ \E e \in Failures : EndAttempt(e, BatchRetryable(e))
    /\ UNCHANGED <<opts, context, attempt, result>>

-----------------------------------------------------------------------------
(* waitWithContext: the pause after a batch, and before another attempt.     *)
(* The timer may be as long as the caller likes.                             *)

(* Without counting, attempts would go on for ever. *)
SameAttempt == attempt
NextAttempt == attempt + 1

Resume ==
    \/ at = "pause" /\ Proceed /\ UNCHANGED attempt
    \/ at = "backoff" /\ at' = "open" /\ attempt' = NextAttempt
       /\ UNCHANGED <<err, cursorVars>>

TimerFires ==
    /\ at \in {"pause", "backoff"}
    /\ Resume
    /\ UNCHANGED <<opts, server, context, result>>

(* time.Sleep would not hear of the context. *)
Sleeping == FALSE
WaitCancelled == done

CancelWait ==
    /\ WaitCancelled
    /\ \/ at = "pause" /\ EndAttempt("cancelled", FALSE)
       \/ at = "backoff" /\ Return("cancelled") /\ UNCHANGED cursorVars
    /\ UNCHANGED <<opts, server, context, attempt, result>>

-----------------------------------------------------------------------------
(* The caller, and the other clients of the collection. *)

Cancel ==
    /\ ~done /\ at # "returned"
    /\ done' = TRUE
    /\ atCancel' = Written \cup (IF at = "exec" THEN ids ELSE {})
    /\ UNCHANGED <<opts, server, at, err, attempt, cursorVars, result>>

OtherClient ==
    /\ at # "returned"
    /\ \E d \in Matching, p \in {"changed", "gone"} : doc' = [doc EXCEPT ![d] = p]
    /\ UNCHANGED <<opts, applied, context, at, err, attempt, cursorVars, result>>

-----------------------------------------------------------------------------
Step ==
    \/ Begin \/ Count \/ Open \/ Read \/ ReadFails \/ Exhausted
    \/ CheckBatch \/ Exec \/ ExecFails \/ CancelWait

Next ==
    \/ Step \/ TimerFires \/ Cancel \/ OtherClient
    \/ at = "returned" /\ UNCHANGED vars

(* The call goes on while it can; the driver ends every call.  Nothing is    *)
(* said of the timers.                                                       *)
Spec == Init /\ [][Next]_vars /\ WF_vars(Step)

-----------------------------------------------------------------------------
(* Properties *)

TypeOK ==
    /\ opts \in Options
    /\ doc \in [Docs -> {"matches", "changed", "gone"}]
    /\ applied \in [Docs -> Nat]
    /\ done \in BOOLEAN /\ atCancel \subseteq Docs
    /\ at \in {"start", "count", "open", "next", "batch", "exec", "pause",
               "backoff", "returned"}
    /\ err \in {"none", "dangerous", "cancelled", "server", "transient", "decode"}
    /\ attempt \in 0 .. MaxRetries
    /\ cursors \in Nat /\ due \subseteq Docs /\ drained \in BOOLEAN
    /\ ids \subseteq Docs /\ Cardinality(ids) <= BatchSize
    /\ processed \in Nat /\ affected \in Nat

(* "No retry once a batch is done, so that an update that is not idempotent  *)
(* is not replayed" (bulk_test.go:245): whatever fails, no document is       *)
(* written twice by one call (shouldRetryBulkCursor, executeBulkBatch).      *)
AppliedOnce == \A d \in Docs : applied[d] <= 1

(* "The facts that are done must be returned" (06-write-operation-safety.md, *)
(* partial results): the result counts what the server has written, all of   *)
(* it when the call succeeds, all but one batch when it fails.               *)
ReportIsTrue ==
    /\ affected <= processed
    /\ affected <= Cardinality(Written)
    /\ Cardinality(Written) <= affected + BatchSize
    /\ at # "returned" \/ err = "none" => affected = Cardinality(Written)

(* A call that succeeds has written every document that matched all along,   *)
(* however many times its cursor had to be opened (bulk.go:169-190).         *)
CompleteWhenDone ==
    at = "returned" /\ err = "none" /\ ~opts.dryRun => Matching \subseteq Written

(* "On cancellation no new batch is executed" (06-write-operation-safety.md, *)
(* cancel semantics): only the batch under way can still reach the server,   *)
(* not the rest that was read (bulk.go:217, :245).                           *)
StopsAtCancel == done => Written \subseteq atCancel

(* Cursors have no timeout (pkg/mongo/client.go:340), so that one left open  *)
(* stays open on the server: at most one is, and none when the call returns, *)
(* cancelled or not (bulk.go:209-213).                                       *)
CursorClosed == cursors <= 1 /\ (at \in {"returned", "backoff"} => cursors = 0)

(* "Pause must be cancellable" (06-write-operation-safety.md): a cancelled   *)
(* call returns, however long the timer it waits for.                        *)
CancelEnds == done ~> at = "returned"

(* If timers fire, every call returns: failing cursors are not opened again  *)
(* for ever (bulk.go:194).                                                   *)
CallEnds == WF_vars(TimerFires) => <>(at = "returned")
=============================================================================
