------------------------------ MODULE RemoteSlots ------------------------------
(***************************************************************************)
(* The remote slots of a CollectorSession (src/pkg/mot/session.go).        *)
(*                                                                         *)
(* Every remote operation of every capability runs between                 *)
(* acquireCapabilityRemoteSlot and the release function it returns: first  *)
(* a token of the capability's own semaphore, if it has one, then a token  *)
(* of the session's semaphore, given back in the opposite order.  The      *)
(* session may be closed, and a context cancelled, at any of these points. *)
(*                                                                         *)
(* The semaphores are golang.org/x/sync/semaphore with weight 1: tokens    *)
(* are handed to the waiters in order of arrival.                          *)
(***************************************************************************)
EXTENDS Naturals, FiniteSets, Sequences, SequencesExt

CONSTANTS
    Ops,            \* remote operations
    Capabilities,   \* capability calls that brought a semaphore of their own
    CapabilityOf,   \* the capability call an operation belongs to, or NoCapability
    NoCapability,
    Session,        \* the session's semaphore
    SlotLimit,      \* CollectorSessionOptions.MaxConcurrency
    CapabilityLimit \* Concurrency or NodeConcurrency of each capability call

ASSUME SlotsAssumption ==
    /\ IsFiniteSet(Ops)
    /\ NoCapability \notin Capabilities /\ Session \notin Capabilities
    /\ Session # NoCapability
    /\ CapabilityOf \in [Ops -> Capabilities \cup {NoCapability}]
    /\ SlotLimit \in Nat \ {0}
    /\ CapabilityLimit \in [Capabilities -> Nat \ {0}]

VARIABLES
    used,     \* tokens of each semaphore that are taken
    queue,    \* operations waiting for one, in order of arrival
    at,       \* where each operation is
    err,      \* why it was refused, if it was
    done,     \* whether its context is cancelled or past its deadline
    shut,     \* CollectorSession.closed
    inFlight, \* CollectorSession.remoteInFlight
    started,  \* stats.RemoteOperations
    peak      \* stats.PeakRemoteOperations

semaphores == <<used, queue>>
counters == <<inFlight, started, peak>>
slotVars == <<semaphores, counters, at, err, done, shut>>

Semaphores == Capabilities \cup {Session}
Size(s) == IF s = Session THEN SlotLimit ELSE CapabilityLimit[s]

SlotsInit ==
    /\ used = [s \in Semaphores |-> 0]
    /\ queue = [s \in Semaphores |-> <<>>]
    /\ at = [o \in Ops |-> "idle"]
    /\ err = [o \in Ops |-> "none"]
    /\ done = [o \in Ops |-> FALSE]
    /\ shut = FALSE
    /\ inFlight = 0 /\ started = 0 /\ peak = 0

-----------------------------------------------------------------------------
(* semaphore.Weighted *)

Waiting(s, o) == o \in ToSet(queue[s])

TakeToken(s) ==
    /\ used[s] < Size(s)
    /\ queue[s] = <<>>
    /\ used' = [used EXCEPT ![s] = @ + 1]
    /\ UNCHANGED queue

Enqueue(s, o) ==
    /\ used[s] = Size(s) \/ queue[s] # <<>>
    /\ queue' = [queue EXCEPT ![s] = Append(@, o)]
    /\ UNCHANGED used

(* A token that comes back goes to the first in the queue. *)
ReturnToken(s) ==
    \/ /\ queue[s] = <<>>
       /\ used' = [used EXCEPT ![s] = @ - 1]
       /\ UNCHANGED queue
    \/ /\ queue[s] # <<>>
       /\ queue' = [queue EXCEPT ![s] = Tail(@)]
       /\ UNCHANGED used

LeaveQueue(s, o) ==
    /\ \E i \in DOMAIN queue[s] :
          /\ queue[s][i] = o
          /\ queue' = [queue EXCEPT ![s] = RemoveAt(@, i)]
    /\ UNCHANGED used

-----------------------------------------------------------------------------
(* An operation.  IgnoresLimit: a capability that forgot to hand its limit on. *)
IgnoresLimit(o) == FALSE
HasLimit(o) == CapabilityOf[o] # NoCapability

Goto(o, p) == at' = [at EXCEPT ![o] = p]

Refuse(o, e) == err' = [err EXCEPT ![o] = e]

(* Where an operation goes when it gives up, or has given back, its slot.    *)
(* Leaving at once is what forgetting the capability's token would be.       *)
LeaveAtOnce(o) == "done"
OutOfSlot(o) == IF HasLimit(o) THEN "unlimit" ELSE "done"

(* acquireCapabilityRemoteSlot: a token of the capability first. *)
Start(o) ==
    LET s == CapabilityOf[o] IN
    /\ at[o] = "idle"
    /\ \/ /\ ~HasLimit(o)
          /\ Goto(o, "open")
          /\ UNCHANGED <<semaphores, err>>
       \/ /\ HasLimit(o) /\ done[o]
          /\ Goto(o, "done") /\ Refuse(o, "cancelled")
          /\ UNCHANGED semaphores
       \/ /\ HasLimit(o) /\ ~done[o]
          /\ TakeToken(s) /\ Goto(o, "open")
          /\ UNCHANGED err
       \/ /\ HasLimit(o) /\ ~done[o]
          /\ Enqueue(s, o) /\ Goto(o, "limit")
          /\ UNCHANGED err
    /\ UNCHANGED <<counters, done, shut>>

(* The queue has reached the operation, or its context is done first; a      *)
(* token that reaches a cancelled operation is given back.                   *)
AwaitLimit(o) ==
    LET s == CapabilityOf[o] IN
    /\ at[o] = "limit"
    /\ \/ /\ ~Waiting(s, o) /\ ~done[o]
          /\ Goto(o, "open")
          /\ UNCHANGED <<semaphores, err>>
       \/ /\ ~Waiting(s, o) /\ done[o]
          /\ ReturnToken(s)
          /\ Goto(o, "done") /\ Refuse(o, "cancelled")
       \/ /\ Waiting(s, o) /\ done[o]
          /\ LeaveQueue(s, o)
          /\ Goto(o, "done") /\ Refuse(o, "cancelled")
    /\ UNCHANGED <<counters, done, shut>>

(* acquireRemoteSlot: requireOpen. *)
CheckOpen(o) ==
    /\ at[o] = "open"
    /\ \/ /\ shut
          /\ Goto(o, OutOfSlot(o)) /\ Refuse(o, "closed")
       \/ /\ ~shut
          /\ Goto(o, "ask")
          /\ UNCHANGED err
    /\ UNCHANGED <<semaphores, counters, done, shut>>

AskSlot(o) ==
    /\ at[o] = "ask"
    /\ \/ /\ done[o]
          /\ Goto(o, OutOfSlot(o)) /\ Refuse(o, "cancelled")
          /\ UNCHANGED semaphores
       \/ /\ ~done[o]
          /\ TakeToken(Session) /\ Goto(o, "reopen")
          /\ UNCHANGED err
       \/ /\ ~done[o]
          /\ Enqueue(Session, o) /\ Goto(o, "slot")
          /\ UNCHANGED err
    /\ UNCHANGED <<counters, done, shut>>

AwaitSlot(o) ==
    /\ at[o] = "slot"
    /\ \/ /\ ~Waiting(Session, o) /\ ~done[o]
          /\ Goto(o, "reopen")
          /\ UNCHANGED <<semaphores, err>>
       \/ /\ ~Waiting(Session, o) /\ done[o]
          /\ ReturnToken(Session)
          /\ Goto(o, OutOfSlot(o)) /\ Refuse(o, "cancelled")
       \/ /\ Waiting(Session, o) /\ done[o]
          /\ LeaveQueue(Session, o)
          /\ Goto(o, OutOfSlot(o)) /\ Refuse(o, "cancelled")
    /\ UNCHANGED <<counters, done, shut>>

(* requireOpen once more: the session may have been closed during the wait.  *)
(* NeverAsked: the operation goes on without it.  RefuseKeepingSlot: it is   *)
(* refused, and the slot is forgotten.                                       *)
NeverAsked == TRUE
StillOpen == ~shut

RefuseKeepingSlot(o) ==
    /\ shut
    /\ Goto(o, OutOfSlot(o)) /\ Refuse(o, "closed")
    /\ UNCHANGED semaphores
RefuseSlot(o) ==
    /\ shut
    /\ ReturnToken(Session)
    /\ Goto(o, OutOfSlot(o)) /\ Refuse(o, "closed")

CheckOpenAgain(o) ==
    /\ at[o] = "reopen"
    /\ \/ RefuseSlot(o)
       \/ /\ StillOpen
          /\ Goto(o, "enter")
          /\ UNCHANGED <<semaphores, err>>
    /\ UNCHANGED <<counters, done, shut>>

(* Under the lock: count the operation in. *)
Enter(o) ==
    /\ at[o] = "enter"
    /\ inFlight' = inFlight + 1
    /\ started' = started + 1
    /\ peak' = IF inFlight + 1 > peak THEN inFlight + 1 ELSE peak
    /\ Goto(o, "work")
    /\ UNCHANGED <<semaphores, err, done, shut>>

(* The release function: count the operation out, then give the slot back,   *)
(* then the capability's token.                                              *)
CountOut(o) ==
    /\ at[o] = "work"
    /\ inFlight' = inFlight - 1
    /\ Goto(o, "giveback")
    /\ UNCHANGED <<semaphores, started, peak, err, done, shut>>

GiveBack(o) ==
    /\ at[o] = "giveback"
    /\ ReturnToken(Session)
    /\ Goto(o, OutOfSlot(o))
    /\ UNCHANGED <<counters, err, done, shut>>

Release(o) == CountOut(o) \/ GiveBack(o)

Unlimit(o) ==
    /\ at[o] = "unlimit"
    /\ ReturnToken(CapabilityOf[o])
    /\ Goto(o, "done")
    /\ UNCHANGED <<counters, err, done, shut>>

(* The caller's context ends. *)
CancelOp(o) ==
    /\ ~done[o]
    /\ done' = [done EXCEPT ![o] = TRUE]
    /\ UNCHANGED <<semaphores, counters, at, err, shut>>

(* CollectorSession.Close, as far as the slots see it. *)
Shut ==
    /\ ~shut
    /\ shut' = TRUE
    /\ UNCHANGED <<semaphores, counters, at, err, done>>

-----------------------------------------------------------------------------
Acquiring(o) ==
    AwaitLimit(o) \/ CheckOpen(o) \/ AskSlot(o) \/ AwaitSlot(o)
        \/ CheckOpenAgain(o) \/ Enter(o)

OpStep(o) == Acquiring(o) \/ Release(o) \/ Unlimit(o)

SlotsQuiet == \A o \in Ops : at[o] = "done"

SlotsNext ==
    \/ \E o \in Ops :
          Start(o) \/ OpStep(o) \/ (at[o] # "done" /\ CancelOp(o))
    \/ Shut
    \/ SlotsQuiet /\ UNCHANGED slotVars

SlotsSpec == SlotsInit /\ [][SlotsNext]_slotVars

(* Goroutines that can run do run, and the driver ends every operation;      *)
(* starting, cancelling and closing are the caller's.                        *)
SlotsFairSpec == SlotsSpec /\ \A o \in Ops : WF_slotVars(OpStep(o))

-----------------------------------------------------------------------------
(* Properties *)

Places == {"idle", "limit", "open", "ask", "slot", "reopen", "enter", "work",
           "giveback", "unlimit", "done"}

SlotsTypeOK ==
    /\ used \in [Semaphores -> Nat]
    /\ queue \in [Semaphores -> Seq(Ops)]
    /\ at \in [Ops -> Places]
    /\ err \in [Ops -> {"none", "cancelled", "closed"}]
    /\ done \in [Ops -> BOOLEAN]
    /\ shut \in BOOLEAN
    /\ inFlight \in Nat /\ started \in Nat /\ peak \in Nat

(* Who has a token of semaphore s, by where the code of each operation is. *)
SlotOwners ==
    {o \in Ops : \/ at[o] \in {"reopen", "enter", "work", "giveback"}
                 \/ at[o] = "slot" /\ ~Waiting(Session, o)}
LimitOwners(s) ==
    {o \in Ops : /\ CapabilityOf[o] = s
                 /\ \/ at[o] \in {"open", "ask", "slot", "reopen", "enter",
                                  "work", "giveback", "unlimit"}
                    \/ at[o] = "limit" /\ ~Waiting(s, o)}
Owners(s) == IF s = Session THEN SlotOwners ELSE LimitOwners(s)

(* Every taken token has an operation that will give it back, on each of the *)
(* refusals too (session.go:474, :519), and no semaphore exceeds its size.   *)
TokensAccounted ==
    \A s \in Semaphores :
        /\ used[s] = Cardinality(Owners(s))
        /\ used[s] <= Size(s)

(* PeakRemoteOperations never shows more than MaxConcurrency: an operation   *)
(* is counted out before its slot is free (session.go:488-492).              *)
PeakWithinLimit == inFlight <= peak /\ peak <= SlotLimit

(* "The effective concurrency is the smaller of the two"                     *)
(* (sdkization/goals/04-context-and-lifecycle.md, the paragraph after the    *)
(* life-cycle rules): of one capability call, no more operations are at work *)
(* than its own limit or the session's.                                      *)
Working(s) == {o \in Ops : CapabilityOf[o] = s /\ at[o] = "work"}
SmallerLimitHolds ==
    \A s \in Capabilities :
        /\ Cardinality(Working(s)) <= CapabilityLimit[s]
        /\ Cardinality(Working(s)) <= SlotLimit

(* An operation that is still waiting when the session is closed never runs. *)
ClosedWhileWaiting ==
    \A o \in Ops :
        [](at[o] \in {"open", "slot"} /\ shut => [](at[o] # "work"))

(* Nobody is left waiting for a slot or a token (session.go:470, :511): every *)
(* operation that starts ends, with a limit of its capability or without one, *)
(* wherever it is and whichever others are cancelled or refused.              *)
EveryOperationEnds == \A o \in Ops : at[o] # "idle" ~> at[o] = "done"
=============================================================================
