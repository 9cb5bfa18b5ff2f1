---------------------------- MODULE SharedInventory ----------------------------
(***************************************************************************)
(* The inventories a CollectorSession shares between its capabilities      *)
(* (src/pkg/mot/session_catalog.go, session_discovery.go,                  *)
(* session_replica.go): topology, shards, databases, collections of a      *)
(* database, databases and members of a replica set.  All of them follow   *)
(* one protocol: look, join the flight of the key, look again, take a      *)
(* remote slot under the leader's context, read, store, give the slot      *)
(* back, answer everybody who joined.                                      *)
(*                                                                         *)
(* A member of Calls is one such call; a call leads at most one load, and  *)
(* the load it leads is the operation of RemoteSlots with the same name.   *)
(* The other operations compete for the slots; those in Readers read the   *)
(* members of a replica set for themselves (Doctor, Overview) and then     *)
(* offer them to the session with rememberReplicaSetInventory.             *)
(***************************************************************************)
EXTENDS RemoteSlots

CONSTANTS
    Calls,         \* inventory calls, each with a context of its own
    Readers,       \* operations that remember what they read
    Keys,          \* inventories: the names of the flights
    KeyOf,         \* the inventory a call, or a reader, is about
    None,          \* no call, nothing read, nothing stored
    Unreadable,    \* a read that failed
    Versions,      \* successive contents of the server, 0..n
    EmptyVersions, \* those whose database list is empty
    NilKeys        \* inventories kept in a slice, where an empty list is nil

ASSUME InventoryAssumption ==
    /\ Calls \subseteq Ops /\ Readers \subseteq Ops
    /\ Calls \cap Readers = {}
    /\ KeyOf \in [Calls \cup Readers -> Keys]
    /\ Versions \subseteq Nat /\ 0 \in Versions
    /\ EmptyVersions \subseteq Versions
    /\ NilKeys \subseteq Keys
    /\ \A r \in Readers : KeyOf[r] \notin NilKeys  \* members are kept by pointer
    /\ None \notin Ops \cup Versions /\ Unreadable \notin Versions /\ None # Unreadable
    /\ \A c \in Calls : CapabilityOf[c] = NoCapability

VARIABLES
    server,    \* what the server would answer now
    inventory, \* what the session keeps, per key
    loads,     \* stats: loads of each key
    pc,        \* where each call is
    result,    \* what its result channel holds, then what it returned
    phase,     \* where the function in the singleflight group is, per key
    leader,    \* the call that started it
    value,     \* what it is about to return
    read       \* what an operation has read under its slot

calls == <<pc, result>>
flight == <<phase, leader, value>>
vars == <<slotVars, server, inventory, loads, calls, flight, read>>

NoAnswer == [err |-> "none", got |-> None]
Failed(e) == [err |-> e, got |-> None]
Gives(v) == [err |-> "ok", got |-> v]

Init ==
    /\ SlotsInit
    /\ server = 0
    /\ inventory = [k \in Keys |-> None]
    /\ loads = [k \in Keys |-> 0]
    /\ pc = [c \in Calls |-> "idle"]
    /\ result = [c \in Calls |-> NoAnswer]
    /\ phase = [k \in Keys |-> "none"]
    /\ leader = [k \in Keys |-> None]
    /\ value = [k \in Keys |-> NoAnswer]
    /\ read = [o \in Ops |-> None]

-----------------------------------------------------------------------------
(* A call: databaseNames, collectionMetadata, replicaSetDatabases,           *)
(* clusterTopology, shards or replicaSetInventory.                           *)

Return(c, a) ==
    /\ pc' = [pc EXCEPT ![c] = "done"]
    /\ result' = [result EXCEPT ![c] = a]

Begin(c) ==
    /\ pc[c] = "idle"
    /\ \/ shut /\ Return(c, Failed("closed"))
       \/ ~shut /\ pc' = [pc EXCEPT ![c] = "look"] /\ UNCHANGED result
    /\ UNCHANGED <<slotVars, server, inventory, loads, flight, read>>

Look(c) ==
    LET v == inventory[KeyOf[c]] IN
    /\ pc[c] = "look"
    /\ \/ v # None /\ Return(c, Gives(v))
       \/ v = None /\ pc' = [pc EXCEPT ![c] = "join"] /\ UNCHANGED result
    /\ UNCHANGED <<slotVars, server, inventory, loads, flight, read>>

Join(c) ==
    LET k == KeyOf[c] IN
    /\ pc[c] = "join"
    /\ pc' = [pc EXCEPT ![c] = "wait"]
    /\ \/ /\ phase[k] = "none"
          /\ phase' = [phase EXCEPT ![k] = "check"]
          /\ leader' = [leader EXCEPT ![k] = c]
       \/ /\ phase[k] # "none"
          /\ UNCHANGED <<phase, leader>>
    /\ UNCHANGED <<slotVars, server, inventory, loads, result, value, read>>

(* waitForCatalogResult, waitForDiscoveryResult *)
Receive(c) ==
    /\ pc[c] = "wait"
    /\ result[c] # NoAnswer
    /\ pc' = [pc EXCEPT ![c] = "done"]
    /\ UNCHANGED <<slotVars, server, inventory, loads, result, flight, read>>

Abandon(c) ==
    /\ pc[c] = "wait"
    /\ done[c]
    /\ Return(c, Failed("cancelled"))
    /\ UNCHANGED <<slotVars, server, inventory, loads, flight, read>>

-----------------------------------------------------------------------------
(* The function running in the singleflight group for key k. *)

Advance(k, p) ==
    /\ phase' = [phase EXCEPT ![k] = p]
    /\ UNCHANGED <<leader, value>>

Settle(k, a) ==
    /\ phase' = [phase EXCEPT ![k] = "settle"]
    /\ value' = [value EXCEPT ![k] = a]
    /\ UNCHANGED leader

NeverFilled(k) == FALSE
FilledMeanwhile(k) == inventory[k] # None

(* Look again; if there is nothing still, ask for a remote slot. *)
Recheck(k) ==
    /\ phase[k] = "check"
    /\ \/ /\ FilledMeanwhile(k)
          /\ Settle(k, Gives(inventory[k]))
          /\ UNCHANGED slotVars
       \/ /\ ~FilledMeanwhile(k)
          /\ Start(leader[k])
          /\ Advance(k, "load")
    /\ UNCHANGED <<server, inventory, loads, calls, read>>

(* The remote read, by the operation that holds the slot. *)
ReadRemote(o) ==
    /\ at[o] = "work"
    /\ read[o] = None
    /\ \E v \in {server, Unreadable} : read' = [read EXCEPT ![o] = v]
    /\ UNCHANGED <<slotVars, server, inventory, loads, calls, flight>>

(* databaseInventory is a slice: an empty list leaves it nil. *)
Kept(k, v) == IF k \in NilKeys /\ v \in EmptyVersions THEN None ELSE v

(* A read is stored only when it succeeded. *)
WhateverCame(v) == v # None
Readable(v) == v \in Versions

(* Under the lock; whether the session is closed is not asked. *)
Store(k) ==
    LET v == read[leader[k]] IN
    /\ phase[k] = "load"
    /\ at[leader[k]] = "work" /\ Readable(v)
    /\ inventory' = [inventory EXCEPT ![k] = Kept(k, v)]
    /\ loads' = [loads EXCEPT ![k] = @ + 1]
    /\ value' = [value EXCEPT ![k] = Gives(v)]
    /\ phase' = [phase EXCEPT ![k] = "release"]
    /\ UNCHANGED <<slotVars, server, calls, leader, read>>

(* The return that an error takes, without the deferred release(). *)
ReadFailedKeepingSlot(k) ==
    /\ phase[k] = "load"
    /\ read[leader[k]] = Unreadable
    /\ Settle(k, Failed("remote"))
    /\ UNCHANGED <<slotVars, server, inventory, loads, calls, read>>

(* A read that fails stores nothing.  Its error is the driver's, or a        *)
(* cancellation when the leader's context is done.                           *)
ReadFailed(k) ==
    /\ phase[k] = "load"
    /\ read[leader[k]] = Unreadable
    /\ \E e \in {"remote"} \cup (IF done[leader[k]] THEN {"cancelled"} ELSE {}) :
          value' = [value EXCEPT ![k] = Failed(e)]
    /\ phase' = [phase EXCEPT ![k] = "release"]
    /\ UNCHANGED <<slotVars, server, inventory, loads, calls, leader, read>>

(* The slot was refused. *)
SlotRefused(k) ==
    /\ phase[k] = "load"
    /\ at[leader[k]] = "done"
    /\ Settle(k, Failed(err[leader[k]]))
    /\ UNCHANGED <<slotVars, server, inventory, loads, calls, read>>

(* The steps of acquireRemoteSlot, and of the deferred release(). *)
LoadStep(k) ==
    LET o == leader[k] IN
    /\ phase[k] \in {"load", "release"}
    /\ Acquiring(o) \/ Unlimit(o) \/ (phase[k] = "release" /\ Release(o))
    /\ UNCHANGED <<server, inventory, loads, calls, flight, read>>

Released(k) ==
    /\ phase[k] = "release"
    /\ at[leader[k]] = "done"
    /\ Advance(k, "settle")
    /\ UNCHANGED <<slotVars, server, inventory, loads, calls, read>>

Waiters(k) == {c \in Calls : pc[c] = "wait" /\ KeyOf[c] = k /\ result[c] = NoAnswer}

Finish(k) ==
    /\ phase[k] = "settle"
    /\ result' = [c \in Calls |-> IF c \in Waiters(k) THEN value[k] ELSE result[c]]
    /\ phase' = [phase EXCEPT ![k] = "none"]
    /\ leader' = [leader EXCEPT ![k] = None]
    /\ value' = [value EXCEPT ![k] = NoAnswer]
    /\ UNCHANGED <<slotVars, server, inventory, loads, pc, read>>

-----------------------------------------------------------------------------
(* The other operations of the session. *)

Others == Ops \ Calls

StartOther(o) ==
    /\ Start(o)
    /\ UNCHANGED <<server, inventory, loads, calls, flight, read>>

OtherStep(o) ==
    /\ Acquiring(o) \/ Unlimit(o) \/ ((o \in Readers => read[o] # None) /\ Release(o))
    /\ UNCHANGED <<server, inventory, loads, calls, flight, read>>

(* rememberReplicaSetInventory, by a reader that has given its slot back:    *)
(* nothing happens if the session is closed or has the inventory already.    *)
Overwrites(k) == TRUE
Unknown(k) == inventory[k] = None

Remember(r) ==
    LET k == KeyOf[r] IN
    /\ at[r] = "done"
    /\ read[r] \in Versions
    /\ \/ /\ ~shut /\ Unknown(k)
          /\ inventory' = [inventory EXCEPT ![k] = read[r]]
          /\ loads' = [loads EXCEPT ![k] = @ + 1]
       \/ /\ shut \/ ~Unknown(k)
          /\ UNCHANGED <<inventory, loads>>
    /\ read' = [read EXCEPT ![r] = None]
    /\ UNCHANGED <<slotVars, server, calls, flight>>

-----------------------------------------------------------------------------
(* Contexts, Close and the server. *)

Cancel(o) ==
    /\ IF o \in Calls THEN pc[o] # "done" ELSE at[o] # "done"
    /\ CancelOp(o)
    /\ UNCHANGED <<server, inventory, loads, calls, flight, read>>

Close ==
    /\ Shut
    /\ UNCHANGED <<server, inventory, loads, calls, flight, read>>

ServerChanges ==
    /\ server + 1 \in Versions
    /\ server' = server + 1
    /\ UNCHANGED <<slotVars, inventory, loads, calls, flight, read>>

CallStep(c) == Look(c) \/ Join(c) \/ Receive(c) \/ Abandon(c)

FlightStep(k) ==
    Recheck(k) \/ Store(k) \/ ReadFailed(k) \/ SlotRefused(k) \/ LoadStep(k)
        \/ Released(k) \/ Finish(k)

Quiet ==
    /\ \A c \in Calls : pc[c] = "done"
    /\ \A k \in Keys : phase[k] = "none"
    /\ \A o \in Others : at[o] = "done"
    /\ \A r \in Readers : read[r] \notin Versions
    /\ shut

Next ==
    \/ \E c \in Calls : Begin(c) \/ CallStep(c)
    \/ \E k \in Keys : FlightStep(k)
    \/ \E o \in Calls \cup Readers : ReadRemote(o)
    \/ \E o \in Others : StartOther(o) \/ OtherStep(o)
    \/ \E r \in Readers : Remember(r)
    \/ \E o \in Ops : Cancel(o)
    \/ Close \/ ServerChanges
    \/ Quiet /\ UNCHANGED vars

Spec == Init /\ [][Next]_vars

(* Every goroutine that can run does, and the driver ends every read. *)
Fairness ==
    /\ \A c \in Calls : WF_vars(CallStep(c))
    /\ \A k \in Keys : WF_vars(FlightStep(k))
    /\ \A o \in Calls \cup Readers : WF_vars(ReadRemote(o))
    /\ \A o \in Others : WF_vars(OtherStep(o))
    /\ \A r \in Readers : WF_vars(Remember(r))

FairSpec == Spec /\ Fairness

-----------------------------------------------------------------------------
(* Properties *)

Outcomes == {NoAnswer} \cup {Failed(e) : e \in {"closed", "cancelled", "remote"}}
                \cup {Gives(v) : v \in Versions}

TypeOK ==
    /\ SlotsTypeOK
    /\ server \in Versions
    /\ inventory \in [Keys -> Versions \cup {None}]
    /\ loads \in [Keys -> Nat]
    /\ pc \in [Calls -> {"idle", "look", "join", "wait", "done"}]
    /\ result \in [Calls -> Outcomes]
    /\ phase \in [Keys -> {"none", "check", "load", "release", "settle"}]
    /\ leader \in [Keys -> Calls \cup {None}]
    /\ value \in [Keys -> Outcomes]
    /\ read \in [Ops -> Versions \cup {None, Unreadable}]

(* "The database and collection catalogs are loaded only once between        *)
(* concurrent capabilities" (session_test.go:478), whatever they contain.    *)
LoadedOnce == \A k \in Keys : loads[k] <= 1

(* The capabilities of one request see one state of the deployment, however  *)
(* the server changes meanwhile: no two calls are given different contents   *)
(* of an inventory, until somebody has remembered it (session_catalog.go:84).*)
(* A reader whose slot was refused remembers nothing.                        *)
Remembered(r) == at[r] = "done" /\ err[r] = "none" /\ read[r] = None
NobodyRemembered(k) == \A r \in Readers : KeyOf[r] = k => ~Remembered(r)
OneSnapshot ==
    \A c, d \in Calls :
        /\ KeyOf[c] = KeyOf[d] /\ NobodyRemembered(KeyOf[c])
        /\ pc[c] = "done" /\ pc[d] = "done"
        /\ result[c].err = "ok" /\ result[d].err = "ok"
        => result[c].got = result[d].got

(* What a session has learnt it keeps: a later failure, cancellation or      *)
(* Close takes no inventory away, and remembering never replaces one.        *)
NeverForgets ==
    [][\A k \in Keys :
          inventory[k] # None =>
              /\ inventory'[k] # None
              /\ inventory'[k] # inventory[k] => phase[k] = "load"]_vars

(* A call that waits for a load cannot be stuck behind the slot the load     *)
(* needs, not even when there is one slot: nobody holds a slot while waiting *)
(* for an inventory.                                                         *)
EveryCallReturns == \A c \in Calls : pc[c] = "look" ~> pc[c] = "done"
=============================================================================
