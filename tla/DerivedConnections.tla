-------------------------- MODULE DerivedConnections --------------------------
(***************************************************************************)
(* The pool of derived connections of a CollectorSession                   *)
(* (src/pkg/mot/session.go): concurrent derivedConnection calls share one  *)
(* dial per connection key through a singleflight group, Close takes the   *)
(* pooled connections out and disconnects them, and an abandoned dial may  *)
(* still be running when Close has returned.                               *)
(*                                                                         *)
(* A member of Calls is one invocation of derivedConnection with a context *)
(* of its own.  The function that runs inside the singleflight group dials *)
(* under the context of the call that started it (its leader), and a call  *)
(* leads at most one dial, so the connection a dial creates is named after *)
(* its leader: connection x is the one dialled under the context of x.     *)
(*                                                                         *)
(* A member of Closers is one goroutine calling Close.                     *)
(***************************************************************************)
EXTENDS Naturals, FiniteSets

CONSTANTS
    Calls,       \* invocations of derivedConnection
    Keys,        \* derivedConnectionKey: address, replica set, direct option
    KeyOf,       \* the key each call asks for
    Closers,     \* goroutines that call Close
    NoCall,      \* no call, no connection
    DialTimeout  \* TRUE: ConnectTimeout > 0, a dial may time out by itself

ASSUME PoolAssumption ==
    /\ IsFiniteSet(Calls)
    /\ KeyOf \in [Calls -> Keys]
    /\ NoCall \notin Calls
    /\ DialTimeout \in BOOLEAN

VARIABLES
    closed,      \* CollectorSession.closed
    connections, \* CollectorSession.connections: the pooled connection of each key
    hits,        \* stats.DerivedConnectionCacheHits
    opened,      \* stats.DerivedConnectionsOpened
    failures,    \* stats.DerivedConnectionFailures
    pc,          \* where each call is
    ctxDone,     \* whether the context of each call is cancelled or past its deadline
    result,      \* what the result channel of a call holds, then what it returned
    phase,       \* where the function running in the singleflight group is, per key
    leader,      \* the call under whose context it runs
    value,       \* what it is about to return
    delivered,   \* the dialled connections whose load.delivered flag is set
    life,        \* each connection at the driver: not dialled, open, disconnected
    once,        \* closeOnce: fresh, running or done
    closer,      \* where each Close call is
    toClose      \* the connections Close has taken out and not yet disconnected

pool == <<closed, connections>>
stats == <<hits, opened, failures>>
callVars == <<pc, result, delivered>>
flight == <<phase, leader, value>>
closing == <<once, closer, toClose>>
vars == <<pool, stats, callVars, ctxDone, flight, life, closing>>

NoConn == NoCall
Errors == {"closed", "cancelled", "remote"}
NoAnswer == [err |-> "none", conn |-> NoConn, opened |-> FALSE]
Failed(e) == [err |-> e, conn |-> NoConn, opened |-> FALSE]
Cached(x) == [err |-> "ok", conn |-> x, opened |-> FALSE]
Dialled(x) == [err |-> "ok", conn |-> x, opened |-> TRUE]
Answers == [err : {"none", "ok"} \cup Errors, conn : Calls \cup {NoConn},
            opened : BOOLEAN]

-----------------------------------------------------------------------------
(* newCollectorSession: nothing pooled, no dial running. *)
Init ==
    /\ closed = FALSE
    /\ connections = [k \in Keys |-> NoConn]
    /\ hits = 0 /\ opened = 0 /\ failures = 0
    /\ pc = [c \in Calls |-> "idle"]
    /\ ctxDone = [c \in Calls |-> FALSE]
    /\ result = [c \in Calls |-> NoAnswer]
    /\ phase = [k \in Keys |-> "none"]
    /\ leader = [k \in Keys |-> NoCall]
    /\ value = [k \in Keys |-> NoAnswer]
    /\ delivered = {}
    /\ life = [x \in Calls |-> "unborn"]
    /\ once = "fresh"
    /\ closer = [d \in Closers |-> "idle"]
    /\ toClose = {}

Pooled == {connections[k] : k \in Keys} \ {NoConn}

(* The calls registered with the flight of key k that have no result yet.    *)
(* derivedConnectionKey.stringValue is the name of the flight; a shorter name *)
(* would let the calls of another key register with it, and a group that     *)
(* answered only the call that started the function would leave the others.  *)
WaitersOfAnyKey(k) == {c \in Calls : pc[c] = "wait" /\ result[c] = NoAnswer}
LeaderOnly(k) == {c \in Calls : c = leader[k] /\ pc[c] = "wait" /\ result[c] = NoAnswer}
Waiters(k) == {c \in Calls : pc[c] = "wait" /\ KeyOf[c] = k /\ result[c] = NoAnswer}

Return(c, a) ==
    /\ pc' = [pc EXCEPT ![c] = "done"]
    /\ result' = [result EXCEPT ![c] = a]

-----------------------------------------------------------------------------
(* derivedConnection, as its caller runs it. *)

(* requireOpen *)
Begin(c) ==
    /\ pc[c] = "idle"
    /\ \/ /\ closed
          /\ Return(c, Failed("closed"))
       \/ /\ ~closed
          /\ pc' = [pc EXCEPT ![c] = "lookup"]
          /\ UNCHANGED result
    /\ UNCHANGED <<pool, stats, ctxDone, flight, life, closing, delivered>>

(* The locked look at the pool: a hit returns at once. *)
Lookup(c) ==
    /\ pc[c] = "lookup"
    /\ \/ /\ connections[KeyOf[c]] # NoConn
          /\ hits' = hits + 1
          /\ Return(c, Cached(connections[KeyOf[c]]))
       \/ /\ connections[KeyOf[c]] = NoConn
          /\ pc' = [pc EXCEPT ![c] = "join"]
          /\ UNCHANGED <<hits, result>>
    /\ UNCHANGED <<pool, opened, failures, ctxDone, flight, life, closing, delivered>>

(* singleflight DoChan: start the function of this key, or join the one running. *)
Join(c) ==
    LET k == KeyOf[c] IN
    /\ pc[c] = "join"
    /\ pc' = [pc EXCEPT ![c] = "wait"]
    /\ \/ /\ phase[k] = "none"
          /\ phase' = [phase EXCEPT ![k] = "check"]
          /\ leader' = [leader EXCEPT ![k] = c]
       \/ /\ phase[k] # "none"
          /\ UNCHANGED <<phase, leader>>
    /\ UNCHANGED <<pool, stats, ctxDone, value, life, closing, delivered, result>>

(* opened /\ delivered.CompareAndSwap(false, true); without the swap every   *)
(* waiter of the flight would take itself for the one that opened.           *)
FirstIfOpened(c) == result[c].opened
FirstDelivery(c) == result[c].opened /\ result[c].conn \notin delivered

(* The result arrives.  The first call to take a freshly opened connection   *)
(* is not a cache hit; every other one is, and counts itself in a next step. *)
Receive(c) ==
    /\ pc[c] = "wait"
    /\ result[c] # NoAnswer
    /\ \/ /\ result[c].err # "ok"
          /\ pc' = [pc EXCEPT ![c] = "done"]
          /\ UNCHANGED delivered
       \/ /\ result[c].err = "ok"
          /\ FirstDelivery(c)
          /\ delivered' = delivered \cup {result[c].conn}
          /\ pc' = [pc EXCEPT ![c] = "done"]
       \/ /\ result[c].err = "ok"
          /\ ~FirstDelivery(c)
          /\ pc' = [pc EXCEPT ![c] = "count"]
          /\ UNCHANGED delivered
    /\ UNCHANGED <<pool, stats, ctxDone, flight, life, closing, result>>

CountHit(c) ==
    /\ pc[c] = "count"
    /\ hits' = hits + 1
    /\ pc' = [pc EXCEPT ![c] = "done"]
    /\ UNCHANGED <<pool, opened, failures, ctxDone, flight, life, closing, delivered, result>>

(* select on ctx.Done: the call gives up, the dial goes on without it. *)
Abandon(c) ==
    /\ pc[c] = "wait"
    /\ ctxDone[c]
    /\ Return(c, Failed("cancelled"))
    /\ UNCHANGED <<pool, stats, ctxDone, flight, life, closing, delivered>>

(* The caller cancels its context, or its deadline passes.  Nothing looks at *)
(* the context before the call begins or after it has returned: one that was *)
(* done before is one that is cancelled as soon as the call has begun.       *)
Cancel(c) ==
    /\ pc[c] \notin {"idle", "done"}
    /\ ~ctxDone[c]
    /\ ctxDone' = [ctxDone EXCEPT ![c] = TRUE]
    /\ UNCHANGED <<pool, stats, callVars, flight, life, closing>>

-----------------------------------------------------------------------------
(* The function running in the singleflight group for key k. *)

Settle(k, a) ==
    /\ phase' = [phase EXCEPT ![k] = "settle"]
    /\ value' = [value EXCEPT ![k] = a]
    /\ UNCHANGED leader

Advance(k, p) ==
    /\ phase' = [phase EXCEPT ![k] = p]
    /\ UNCHANGED <<leader, value>>

(* An earlier flight may have filled the pool since the call looked. *)
NeverFilled(k) == FALSE
FilledMeanwhile(k) == connections[k] # NoConn

(* Look at the pool again. *)
Recheck(k) ==
    /\ phase[k] = "check"
    /\ \/ /\ FilledMeanwhile(k)
          /\ Settle(k, Cached(connections[k]))
       \/ /\ ~FilledMeanwhile(k)
          /\ Advance(k, "dial")
    /\ UNCHANGED <<pool, stats, callVars, ctxDone, life, closing>>

(* connectionFactory.Connect succeeds; it may, even if its context is done.  *)
DialOk(k) ==
    /\ phase[k] = "dial"
    /\ Advance(k, "publish")
    /\ life' = [life EXCEPT ![leader[k]] = "open"]
    /\ UNCHANGED <<pool, stats, callVars, ctxDone, closing>>

(* It fails: the node is unreachable, the leader's context is done, or the   *)
(* dial's own timeout passes, which mapContextError reports as a cancellation *)
(* too.  A client left by a failed ping is disconnected before this returns. *)
DialErr(k) ==
    /\ phase[k] = "dial"
    /\ failures' = failures + 1
    /\ \/ Settle(k, Failed("remote"))
       \/ /\ ctxDone[leader[k]] \/ DialTimeout
          /\ Settle(k, Failed("cancelled"))
    /\ UNCHANGED <<pool, hits, opened, callVars, ctxDone, life, closing>>

(* Close has run since the dial began. *)
NeverTooLate == FALSE
TooLate == closed

(* Under the lock: put the connection in the pool, unless it comes too late. *)
Publish(k) ==
    /\ phase[k] = "publish"
    /\ \/ /\ TooLate
          /\ Advance(k, "discard")
          /\ UNCHANGED <<connections, opened>>
       \/ /\ ~TooLate
          /\ connections' = [connections EXCEPT ![k] = leader[k]]
          /\ opened' = opened + 1
          /\ Settle(k, Dialled(leader[k]))
    /\ UNCHANGED <<closed, hits, failures, callVars, ctxDone, life, closing>>

(* The late connection is disconnected, with a cleanup context. *)
Discard(k) ==
    /\ phase[k] = "discard"
    /\ life' = [life EXCEPT ![leader[k]] = "closed"]
    /\ Settle(k, Failed("closed"))
    /\ UNCHANGED <<pool, stats, callVars, ctxDone, closing>>

(* The group forgets the key and sends the result to every registered call. *)
Finish(k) ==
    /\ phase[k] = "settle"
    /\ result' = [c \in Calls |-> IF c \in Waiters(k) THEN value[k] ELSE result[c]]
    /\ phase' = [phase EXCEPT ![k] = "none"]
    /\ leader' = [leader EXCEPT ![k] = NoCall]
    /\ value' = [value EXCEPT ![k] = NoAnswer]
    /\ UNCHANGED <<pool, stats, pc, delivered, ctxDone, life, closing>>

-----------------------------------------------------------------------------
(* Close *)

CallClose(d) ==
    /\ closer[d] = "idle"
    /\ closer' = [closer EXCEPT ![d] = "called"]
    /\ UNCHANGED <<pool, stats, callVars, ctxDone, flight, life, once, toClose>>

EnterOnce(d) ==
    /\ closer[d] = "called"
    /\ once = "fresh"
    /\ once' = "running"
    /\ closer' = [closer EXCEPT ![d] = "closing"]

(* A Close that takes the connections out without marking the session closed. *)
CloseBeginUnmarked(d) ==
    /\ EnterOnce(d)
    /\ toClose' = Pooled
    /\ connections' = [k \in Keys |-> NoConn]
    /\ UNCHANGED <<closed, stats, callVars, ctxDone, flight, life>>

(* The first caller marks the session closed and takes every connection out. *)
CloseBegin(d) ==
    /\ EnterOnce(d)
    /\ closed' = TRUE
    /\ toClose' = Pooled
    /\ connections' = [k \in Keys |-> NoConn]
    /\ UNCHANGED <<stats, callVars, ctxDone, flight, life>>

(* One disconnect; an error is collected and the loop goes on.  The code     *)
(* sorts the connections by key, which no property here tells apart.         *)
CloseOne(d) ==
    /\ closer[d] = "closing"
    /\ \E x \in toClose :
          /\ life' = [life EXCEPT ![x] = "closed"]
          /\ toClose' = toClose \ {x}
    /\ UNCHANGED <<pool, stats, callVars, ctxDone, flight, once, closer>>

CloseEnd(d) ==
    /\ closer[d] = "closing"
    /\ toClose = {}
    /\ once' = "done"
    /\ closer' = [closer EXCEPT ![d] = "returned"]
    /\ UNCHANGED <<pool, stats, callVars, ctxDone, flight, life, toClose>>

(* closeOnce.Do lets the other callers go once the first one is through, not *)
(* as soon as it has started.                                                *)
OnceStarted == once # "fresh"
OnceDone == once = "done"

CloseRepeat(d) ==
    /\ closer[d] = "called"
    /\ OnceDone
    /\ closer' = [closer EXCEPT ![d] = "returned"]
    /\ UNCHANGED <<pool, stats, callVars, ctxDone, flight, life, once, toClose>>

-----------------------------------------------------------------------------
CallStep(c) == Lookup(c) \/ Join(c) \/ Receive(c) \/ CountHit(c) \/ Abandon(c)

FlightStep(k) ==
    Recheck(k) \/ DialOk(k) \/ DialErr(k) \/ Publish(k) \/ Discard(k) \/ Finish(k)

CloseStep(d) == CloseBegin(d) \/ CloseOne(d) \/ CloseEnd(d) \/ CloseRepeat(d)

Quiet ==
    /\ \A c \in Calls : pc[c] = "done"
    /\ \A k \in Keys : phase[k] = "none"
    /\ \A d \in Closers : closer[d] = "returned"

(* Every call and every Close has returned: nothing is left to happen. *)
AllReturned == Quiet /\ UNCHANGED vars

Next ==
    \/ \E c \in Calls : Begin(c) \/ Cancel(c) \/ CallStep(c)
    \/ \E k \in Keys : FlightStep(k)
    \/ \E d \in Closers : CallClose(d) \/ CloseStep(d)
    \/ AllReturned

Spec == Init /\ [][Next]_vars

(* The Go scheduler runs every goroutine that can run, and the driver ends   *)
(* every dial and disconnect.  Nobody has to call, to cancel or to close.    *)
Fairness ==
    /\ \A c \in Calls : WF_vars(CallStep(c))
    /\ \A k \in Keys : WF_vars(FlightStep(k))
    /\ \A d \in Closers : WF_vars(CloseStep(d))

FairSpec == Spec /\ Fairness

-----------------------------------------------------------------------------
(* Properties *)

TypeOK ==
    /\ closed \in BOOLEAN
    /\ connections \in [Keys -> Calls \cup {NoConn}]
    /\ hits \in Nat /\ opened \in Nat /\ failures \in Nat
    /\ pc \in [Calls -> {"idle", "lookup", "join", "wait", "count", "done"}]
    /\ ctxDone \in [Calls -> BOOLEAN]
    /\ result \in [Calls -> Answers]
    /\ phase \in [Keys -> {"none", "check", "dial", "publish", "discard", "settle"}]
    /\ leader \in [Keys -> Calls \cup {NoCall}]
    /\ value \in [Keys -> Answers]
    /\ delivered \subseteq Calls
    /\ life \in [Calls -> {"unborn", "open", "closed"}]
    /\ once \in {"fresh", "running", "done"}
    /\ closer \in [Closers -> {"idle", "called", "closing", "returned"}]
    /\ toClose \subseteq Calls

(* The three places an open connection can be in. *)
InPool(x) == connections[KeyOf[x]] = x
InFlight(x) == leader[KeyOf[x]] = x /\ phase[KeyOf[x]] \in {"publish", "discard"}
InClose(x) == x \in toClose

(* Every open connection is in exactly one of those places, and none is in   *)
(* the pool of a closed session, so somebody will disconnect it; each place  *)
(* holds open connections only, so nobody disconnects one twice.  The second *)
(* look of derivedConnection at s.closed (session.go:246) is what keeps a    *)
(* dial that outlives Close within this.                                     *)
OwnedOnce ==
    \A x \in Calls :
        /\ life[x] = "open" <=> InPool(x) \/ InFlight(x) \/ InClose(x)
        /\ InPool(x) => ~closed
        /\ ~(InPool(x) /\ InFlight(x))
        /\ ~(InPool(x) /\ InClose(x))
        /\ ~(InFlight(x) /\ InClose(x))

(* The point of the singleflight group and of its second look at the pool:   *)
(* until Close, no key ever has two open connections.                        *)
OneConnectionPerKey ==
    ~closed =>
        \A x, y \in Calls :
            /\ life[x] = "open" /\ life[y] = "open"
            /\ KeyOf[x] = KeyOf[y]
            => x = y

(* The counters account for every successful call: each is a cache hit or    *)
(* the first delivery of a connection, never both (session.go:270).          *)
HitsExplainReturns ==
    Cardinality({c \in Calls : pc[c] = "done" /\ result[c].err = "ok"})
        = hits + Cardinality(delivered)

(* A call that succeeds returns a connection dialled for its own key, and    *)
(* only Close can have disconnected it.                                      *)
ReturnedConnection ==
    \A c \in Calls :
        pc[c] = "done" /\ result[c].err = "ok" =>
            LET x == result[c].conn IN
            /\ x \in Calls
            /\ KeyOf[x] = KeyOf[c]
            /\ life[x] = "open" \/ (life[x] = "closed" /\ closed)

(* Close is idempotent and complete: whichever call of it returns, the pool  *)
(* is empty and every connection it held has been disconnected.              *)
CloseIsComplete ==
    \A d \in Closers : closer[d] = "returned" => Pooled = {} /\ toClose = {}

(* Every call that begins returns, whoever is cancelled or closes: from some *)
(* moment on no call is under way.  Each call begins once, so this asks the  *)
(* same of every one of them.                                                *)
EveryCallReturns == <>[](\A c \in Calls : pc[c] \in {"idle", "done"})

(* Every Close returns and, once the dials it raced with are over, no        *)
(* connection of the session is left open, ever again.                       *)
CloseDrains ==
    <>[](\A d \in Closers :
            closer[d] # "idle" =>
                closer[d] = "returned" /\ \A x \in Calls : life[x] # "open")

(* "The session does not store a business ctx; every method is given its     *)
(* caller's", and capabilities may run concurrently                          *)
(* (sdkization/goals/04-context-and-lifecycle.md:143-144): a call should be  *)
(* told it was cancelled only if its own context is done.                    *)
CancelledByOwnContext ==
    \A c \in Calls :
        pc[c] = "done" /\ result[c].err = "cancelled" => ctxDone[c]

-----------------------------------------------------------------------------
(* The abstract pool this implements. *)
Asked(c) ==
    CASE pc[c] = "idle" -> "idle"
      [] pc[c] = "done" -> "answered"
      [] OTHER -> "pending"

Answered(c) ==
    IF pc[c] = "done" THEN [err |-> result[c].err, conn |-> result[c].conn]
                      ELSE [err |-> "none", conn |-> NoConn]

Abstract == INSTANCE ConnectionPool WITH
    call <- [c \in Calls |-> Asked(c)],
    answer <- [c \in Calls |-> Answered(c)]

PoolSpec == Abstract!Spec
=============================================================================
