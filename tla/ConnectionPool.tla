---------------------------- MODULE ConnectionPool ----------------------------
(***************************************************************************)
(* What the pool of derived connections promises the callers of            *)
(* CollectorSession.derivedConnection, whatever happens inside: calls with *)
(* the same key share one open connection, connections are disconnected    *)
(* only after the session is closed and then only once, and a call that    *)
(* succeeds is given a connection of its own key.                          *)
(*                                                                         *)
(* As in DerivedConnections, a connection is named after the call it was   *)
(* dialled for.                                                            *)
(***************************************************************************)
CONSTANTS Calls, Keys, KeyOf, NoCall

VARIABLES
    closed, \* whether the session is closed
    life,   \* each connection: unborn, open or closed
    call,   \* each call: idle, pending or answered
    answer  \* what each call returned

vars == <<closed, life, call, answer>>

Nothing == [err |-> "none", conn |-> NoCall]

Init ==
    /\ closed = FALSE
    /\ life = [x \in Calls |-> "unborn"]
    /\ call = [c \in Calls |-> "idle"]
    /\ answer = [c \in Calls |-> Nothing]

Ask(c) ==
    /\ call[c] = "idle"
    /\ ~closed
    /\ call' = [call EXCEPT ![c] = "pending"]
    /\ UNCHANGED <<closed, life, answer>>

Reply(c, e, x) ==
    /\ call' = [call EXCEPT ![c] = "answered"]
    /\ answer' = [answer EXCEPT ![c] = [err |-> e, conn |-> x]]
    /\ UNCHANGED <<closed, life>>

(* A call on a closed session, or one overtaken by Close, may be refused. *)
Refuse(c) ==
    /\ call[c] \in {"idle", "pending"}
    /\ closed
    /\ Reply(c, "closed", NoCall)

(* Only an open session starts a connection that stays; a connection whose  *)
(* dial Close has overtaken may open late, to be disconnected.              *)
Open(x) ==
    /\ call[x] # "idle"
    /\ life[x] = "unborn"
    /\ closed \/ \A y \in Calls : KeyOf[y] = KeyOf[x] => life[y] # "open"
    /\ life' = [life EXCEPT ![x] = "open"]
    /\ UNCHANGED <<closed, call, answer>>

Serve(c, x) ==
    /\ call[c] = "pending"
    /\ KeyOf[x] = KeyOf[c]
    /\ life[x] = "open" \/ (closed /\ life[x] = "closed")
    /\ Reply(c, "ok", x)

Fail(c) ==
    /\ call[c] = "pending"
    /\ \E e \in {"cancelled", "remote"} : Reply(c, e, NoCall)

Close ==
    /\ closed' = TRUE
    /\ UNCHANGED <<life, call, answer>>

Disconnect(x) ==
    /\ closed
    /\ life[x] = "open"
    /\ life' = [life EXCEPT ![x] = "closed"]
    /\ UNCHANGED <<closed, call, answer>>

(* Most steps of a pool are its own affair: looks, flights and counters.    *)
Inside == UNCHANGED vars

Next ==
    \/ Inside
    \/ \E c \in Calls : Ask(c) \/ Refuse(c) \/ Fail(c)
    \/ \E x \in Calls : Open(x) \/ Disconnect(x)
    \/ \E c, x \in Calls : Serve(c, x)
    \/ Close

Spec == Init /\ [][Next]_vars
=============================================================================
