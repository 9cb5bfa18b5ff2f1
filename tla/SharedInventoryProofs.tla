------------------------- MODULE SharedInventoryProofs -------------------------
(***************************************************************************)
(* Proofs about SharedInventory, for any number of calls, readers and      *)
(* inventories, any contents of the server and any slots.                  *)
(***************************************************************************)
EXTENDS SharedInventory, RemoteSlotsProofs

(***************************************************************************)
(* The inductive invariant.                                                *)
(***************************************************************************)
Typed ==
    /\ server \in Versions
    /\ inventory \in [Keys -> Versions \cup {None}]
    /\ loads \in [Keys -> Nat]
    /\ pc \in [Calls -> {"idle", "look", "join", "wait", "done"}]
    /\ result \in [Calls -> Outcomes]
    /\ phase \in [Keys -> {"none", "check", "load", "release", "settle"}]
    /\ leader \in [Keys -> Calls \cup {None}]
    /\ value \in [Keys -> Outcomes]
    /\ read \in [Ops -> Versions \cup {None, Unreadable}]

(* Where an operation goes once its slot is refused or given back. *)
Leaving == {"unlimit", "done"}
Ending == {"giveback", "unlimit", "done"}

(* A flight is led by a call about its own key, so no call leads two; while  *)
(* it loads, its slot is not given back, so a leader that is done was        *)
(* refused.                                                                  *)
FlightOK ==
    \A k \in Keys :
        /\ phase[k] # "none" => leader[k] \in Calls /\ KeyOf[leader[k]] = k
        /\ phase[k] = "load" =>
              /\ at[leader[k]] \notin {"giveback", "unlimit"}
              /\ at[leader[k]] = "done" => err[leader[k]] # "none"

(* Only an operation that had its slot has read, and it was not refused. *)
ReadOK ==
    \A o \in Ops :
        /\ at[o] \notin Leaving => err[o] = "none"
        /\ read[o] # None => err[o] = "none" /\ at[o] \in Ending \cup {"work"}

(* Whatever is read of it can be kept.                                       *)
Keepable(k) == k \notin NilKeys \/ EmptyVersions = {}

(* Until somebody has remembered an inventory, it is absent while it is      *)
(* loaded, and whatever anybody was given, or is about to be, is what is     *)
(* kept.                                                                     *)
Agrees(k, a) == a.err = "ok" => inventory[k] # None /\ a.got = inventory[k]
SnapshotOK ==
    \A k \in Keys : NobodyRemembered(k) =>
        /\ phase[k] = "load" => inventory[k] = None
        /\ Keepable(k) =>
              /\ Agrees(k, value[k])
              /\ \A c \in Calls : KeyOf[c] = k => Agrees(k, result[c])

InventoryInv == SlotInv /\ Typed /\ FlightOK /\ ReadOK /\ SnapshotOK

-----------------------------------------------------------------------------
(* The steps of an operation towards its slot and out of it. *)

(* One step moves one operation, and refuses it only before its work. *)
LEMMA OneMoves ==
  ASSUME SlotInv, NEW o \in Ops, Start(o) \/ OpStep(o)
  PROVE  /\ at[o] # "done" /\ UNCHANGED <<done, shut>>
         /\ \A p \in Ops \ {o} : at'[p] = at[p] /\ err'[p] = err[p]
         /\ \/ err' = err /\ at[o] \notin Leaving /\ at'[o] \notin Leaving
            \/ err' = err /\ at[o] \in Ending /\ at'[o] \in Leaving
            \/ at[o] \notin Ending \cup {"work"} /\ at'[o] \in Leaving /\ err'[o] # "none"
         /\ at[o] \in Ending \cup {"work"} => at'[o] \in Ending
<1>0. at \in [Ops -> Places] /\ err \in [Ops -> {"none", "cancelled", "closed"}]
  BY DEF SlotInv, SlotsTypeOK
<1>1. CASE Start(o)
  BY <1>0, <1>1 DEF Start, Goto, Refuse, Leaving, Ending
<1>2. CASE AwaitLimit(o)
  BY <1>0, <1>2 DEF AwaitLimit, Goto, Refuse, Leaving, Ending
<1>3. CASE CheckOpen(o) \/ AskSlot(o)
  BY <1>0, <1>3 DEF CheckOpen, AskSlot, Goto, Refuse, OutOfSlot, Leaving, Ending
<1>4. CASE AwaitSlot(o)
  BY <1>0, <1>4 DEF AwaitSlot, Goto, Refuse, OutOfSlot, Leaving, Ending
<1>5. CASE CheckOpenAgain(o)
  BY <1>0, <1>5 DEF CheckOpenAgain, RefuseSlot, Goto, Refuse, OutOfSlot, Leaving, Ending
<1>6. CASE Enter(o) \/ CountOut(o)
  BY <1>0, <1>6 DEF Enter, CountOut, Goto, Leaving, Ending
<1>7. CASE GiveBack(o) \/ Unlimit(o)
  BY <1>0, <1>7 DEF GiveBack, Unlimit, Goto, OutOfSlot, Leaving, Ending
<1> QED
  BY <1>1, <1>2, <1>3, <1>4, <1>5, <1>6, <1>7 DEF OpStep, Acquiring, Release

(* An inventory call has no limit of its own: it leaves refused or with work *)
(* done.                                                                     *)
LEMMA CallMoves ==
  ASSUME SlotInv, NEW c \in Calls, c \in Ops, Start(c) \/ Acquiring(c)
  PROVE  /\ at'[c] \notin {"giveback", "unlimit"}
         /\ at'[c] = "done" => err'[c] # "none"
<1>0. at \in [Ops -> Places] /\ err \in [Ops -> {"none", "cancelled", "closed"}]
  BY DEF SlotInv, SlotsTypeOK
<1>1. ~HasLimit(c)
  BY InventoryAssumption DEF HasLimit
<1>2. CASE Start(c) \/ AwaitLimit(c)
  BY <1>0, <1>1, <1>2 DEF Start, AwaitLimit, Goto, Refuse
<1>3. CASE CheckOpen(c) \/ AskSlot(c)
  BY <1>0, <1>1, <1>3 DEF CheckOpen, AskSlot, Goto, Refuse, OutOfSlot
<1>4. CASE AwaitSlot(c)
  BY <1>0, <1>1, <1>4 DEF AwaitSlot, Goto, Refuse, OutOfSlot
<1>5. CASE CheckOpenAgain(c) \/ Enter(c)
  BY <1>0, <1>1, <1>5
  DEF CheckOpenAgain, Enter, RefuseSlot, Goto, Refuse, OutOfSlot
<1> QED
  BY <1>2, <1>3, <1>4, <1>5 DEF Acquiring

(* The calls and readers are operations of the slots. *)
LEMMA CallsAreOps ==
  /\ Calls \subseteq Ops /\ Readers \subseteq Ops
  /\ \A k \in Keys : FlightOK /\ phase[k] # "none" => leader[k] \in Calls
  /\ Others \subseteq Ops /\ \A o \in Others : o \notin Calls
BY InventoryAssumption DEF FlightOK, Others

(* What a step of the inventories does to the slots. *)
SlotStep ==
    \/ UNCHANGED slotVars
    \/ \E o \in Ops : Start(o) \/ OpStep(o) \/ CancelOp(o)
    \/ Shut

(* It is a step RemoteSlots allows, or a cancellation. *)
LEMMA StepsOfSlots ==
  ASSUME FlightOK, [Next]_vars
  PROVE  SlotStep
<1>1. ASSUME NEW c \in Calls, Begin(c) \/ CallStep(c) PROVE SlotStep
  BY <1>1 DEF Begin, CallStep, Look, Join, Receive, Abandon, SlotStep
<1>2. ASSUME NEW k \in Keys, FlightStep(k) PROVE SlotStep
  <2>1. CASE Recheck(k)
    BY <2>1, CallsAreOps DEF Recheck, SlotStep
  <2>2. CASE LoadStep(k)
    <3>1. leader[k] \in Ops /\ OpStep(leader[k])
      BY <2>2, CallsAreOps DEF LoadStep, OpStep
    <3> QED
      BY <3>1 DEF SlotStep
  <2>3. CASE Store(k) \/ ReadFailed(k) \/ SlotRefused(k) \/ Released(k) \/ Finish(k)
    BY <2>3 DEF Store, ReadFailed, SlotRefused, Released, Finish, SlotStep
  <2> QED
    BY <1>2, <2>1, <2>2, <2>3 DEF FlightStep
<1>3. ASSUME NEW o \in Calls \cup Readers, ReadRemote(o) PROVE SlotStep
  BY <1>3 DEF ReadRemote, SlotStep
<1>4. ASSUME NEW o \in Others, StartOther(o) \/ OtherStep(o) PROVE SlotStep
  <2>1. o \in Ops /\ (Start(o) \/ OpStep(o))
    BY <1>4, CallsAreOps DEF StartOther, OtherStep, OpStep
  <2> QED
    BY <2>1 DEF SlotStep
<1>5. ASSUME NEW r \in Readers, Remember(r) PROVE SlotStep
  BY <1>5 DEF Remember, SlotStep
<1>6. ASSUME NEW o \in Ops, Cancel(o) PROVE SlotStep
  BY <1>6 DEF Cancel, SlotStep
<1>7. CASE Close \/ ServerChanges \/ UNCHANGED vars
  BY <1>7 DEF Close, ServerChanges, vars, SlotStep
<1> QED
  BY <1>1, <1>2, <1>3, <1>4, <1>5, <1>6, <1>7 DEF Next

(* So every invariant of the slots is kept. *)
LEMMA SlotsKept ==
  ASSUME SlotInv, FlightOK, [Next]_vars
  PROVE  SlotInv'
<1>0. done \in [Ops -> BOOLEAN] /\ shut \in BOOLEAN
  BY DEF SlotInv, SlotsTypeOK
<1>1. ASSUME NEW o \in Ops, Start(o) \/ OpStep(o) PROVE SlotInv'
  BY <1>1, SlotsInductive DEF SlotsNext
<1>2. ASSUME NEW o \in Ops, CancelOp(o) PROVE SlotInv'
  BY <1>0, <1>2, StillKept DEF CancelOp
<1>3. CASE Shut \/ UNCHANGED slotVars
  BY <1>3, SlotsInductive DEF SlotsNext
<1> QED
  BY <1>1, <1>2, <1>3, StepsOfSlots DEF SlotStep

-----------------------------------------------------------------------------
(* Types. *)

(* The shapes of an answer. *)
LEMMA Answers ==
  /\ NoAnswer \in Outcomes
  /\ \A e \in {"closed", "cancelled", "remote"} : Failed(e) \in Outcomes
  /\ \A v \in Versions : Gives(v) \in Outcomes
  /\ None \notin Versions /\ Unreadable \notin Versions
BY InventoryAssumption DEF Outcomes

(* The calls: Begin, Look, Join, Receive and Abandon keep the types. *)
LEMMA CallTyped ==
  ASSUME Typed, NEW c \in Calls, Begin(c) \/ CallStep(c)
  PROVE  Typed'
<1>0. KeyOf[c] \in Keys
  BY InventoryAssumption
<1>1. CASE Begin(c)
  BY <1>1, Answers DEF Begin, Return, Typed, flight
<1>2. CASE Look(c)
  <2>1. inventory[KeyOf[c]] # None => Gives(inventory[KeyOf[c]]) \in Outcomes
    BY <1>0, Answers DEF Typed
  <2> QED
    BY <1>2, <2>1 DEF Look, Return, Typed, flight
<1>3. CASE Join(c)
  BY <1>0, <1>3 DEF Join, Typed
<1>4. CASE Receive(c)
  BY <1>4 DEF Receive, Typed, flight
<1>5. CASE Abandon(c)
  BY <1>5, Answers DEF Abandon, Return, Typed, flight
<1> QED
  BY <1>1, <1>2, <1>3, <1>4, <1>5 DEF CallStep

(* The flights keep them: what they return is an answer (TypeOK would not    *)
(* hold if a refused slot were taken for a read).                            *)
LEMMA FlightTyped ==
  ASSUME Typed, SlotInv, FlightOK, NEW k \in Keys, FlightStep(k)
  PROVE  Typed'
<1>1. CASE Recheck(k)
  <2>1. inventory[k] # None => Gives(inventory[k]) \in Outcomes
    BY Answers DEF Typed
  <2> QED
    BY <1>1, <2>1 DEF Recheck, FilledMeanwhile, Settle, Advance, Typed, calls
<1>2. CASE Store(k)
  <2> DEFINE v == read[leader[k]]
  <2>1. v \in Versions /\ Gives(v) \in Outcomes /\ Kept(k, v) \in Versions \cup {None}
    BY <1>2, Answers DEF Store, Readable, Kept
  <2>2. loads[k] + 1 \in Nat
    BY DEF Typed
  <2> HIDE DEF v
  <2>3. /\ inventory' = [inventory EXCEPT ![k] = Kept(k, v)]
        /\ loads' = [loads EXCEPT ![k] = loads[k] + 1]
        /\ value' = [value EXCEPT ![k] = Gives(v)]
        /\ phase' = [phase EXCEPT ![k] = "release"]
        /\ UNCHANGED <<server, pc, result, leader, read>>
    BY <1>2 DEF Store, calls, v
  <2> QED
    BY <2>1, <2>2, <2>3 DEF Typed
<1>3. CASE ReadFailed(k)
  BY <1>3, Answers DEF ReadFailed, Typed, calls
<1>4. CASE SlotRefused(k)
  <2>1. err[leader[k]] \in {"cancelled", "closed"}
    <3>1. leader[k] \in Ops /\ err[leader[k]] # "none"
      BY <1>4, CallsAreOps DEF SlotRefused, FlightOK
    <3> QED
      BY <3>1 DEF SlotInv, SlotsTypeOK
  <2> QED
    BY <1>4, <2>1, Answers DEF SlotRefused, Settle, Typed, calls
<1>5. CASE LoadStep(k)
  BY <1>5 DEF LoadStep, Typed, calls, flight
<1>6. CASE Released(k)
  BY <1>6 DEF Released, Advance, Typed, calls
<1>7. CASE Finish(k)
  BY <1>7, Answers DEF Finish, Typed
<1> QED
  BY <1>1, <1>2, <1>3, <1>4, <1>5, <1>6, <1>7 DEF FlightStep

(* Every other step keeps them. *)
LEMMA TypesKept ==
  ASSUME Typed, SlotInv, FlightOK, [Next]_vars
  PROVE  Typed'
<1>1. ASSUME NEW o \in Calls \cup Readers, ReadRemote(o) PROVE Typed'
  <2>1. PICK v \in {server, Unreadable} : read' = [read EXCEPT ![o] = v]
    BY <1>1 DEF ReadRemote
  <2>2. v \in Versions \cup {None, Unreadable}
    BY <2>1 DEF Typed
  <2>3. UNCHANGED <<server, inventory, loads, pc, result, phase, leader, value>>
    BY <1>1 DEF ReadRemote, calls, flight
  <2> QED
    BY <2>1, <2>2, <2>3 DEF Typed
<1>2. ASSUME NEW o \in Others, StartOther(o) \/ OtherStep(o) PROVE Typed'
  BY <1>2 DEF StartOther, OtherStep, Typed, calls, flight
<1>3. ASSUME NEW r \in Readers, Remember(r) PROVE Typed'
  <2>1. KeyOf[r] \in Keys /\ loads[KeyOf[r]] + 1 \in Nat
    BY InventoryAssumption DEF Typed
  <2> QED
    BY <1>3, <2>1 DEF Remember, Typed, calls, flight
<1>4. ASSUME NEW o \in Ops, Cancel(o) PROVE Typed'
  BY <1>4 DEF Cancel, Typed, calls, flight
<1>5. CASE Close \/ ServerChanges \/ UNCHANGED vars
  BY <1>5 DEF Close, ServerChanges, vars, Typed, calls, flight
<1> QED
  BY <1>1, <1>2, <1>3, <1>4, <1>5, CallTyped, FlightTyped DEF Next

-----------------------------------------------------------------------------
(* Who leads, and who has read. *)

FlightOf(k) ==
    /\ phase[k] # "none" => leader[k] \in Calls /\ KeyOf[leader[k]] = k
    /\ phase[k] = "load" =>
          /\ at[leader[k]] \notin {"giveback", "unlimit"}
          /\ at[leader[k]] = "done" => err[leader[k]] # "none"

(* A flight of another key has another leader: one operation's step leaves   *)
(* it alone.                                                                 *)
LEMMA OtherFlight ==
  ASSUME FlightOK, NEW k \in Keys, NEW o,
         phase'[k] = phase[k], leader'[k] = leader[k],
         o \in Calls => KeyOf[o] # k,
         \A p \in Ops \ {o} : at'[p] = at[p] /\ err'[p] = err[p]
  PROVE  FlightOf(k)'
BY CallsAreOps DEF FlightOK, FlightOf

(* Nobody's slot moves, and the flight ends its load or stays. *)
LEMMA QuietFlight ==
  ASSUME FlightOK, NEW k \in Keys, leader'[k] = leader[k],
         UNCHANGED <<at, err>>, phase[k] # "none",
         phase'[k] \in {"settle", "release"}
  PROVE  FlightOf(k)'
BY DEF FlightOK, FlightOf

LEMMA FlightKept ==
  ASSUME Typed, SlotInv, FlightOK, [Next]_vars
  PROVE  FlightOK'
<1> SUFFICES ASSUME NEW j \in Keys PROVE FlightOf(j)'
  BY DEF FlightOK, FlightOf
<1>0. ASSUME UNCHANGED <<phase, leader, at, err>> PROVE FlightOf(j)'
  BY <1>0 DEF FlightOK, FlightOf
<1>1. ASSUME NEW c \in Calls, Begin(c) \/ CallStep(c) PROVE FlightOf(j)'
  <2>1. CASE Join(c)
    <3>1. KeyOf[c] \in Keys /\ UNCHANGED <<at, err>>
      BY <2>1, InventoryAssumption DEF Join, slotVars
    <3> QED
      BY <2>1, <3>1 DEF Join, FlightOK, FlightOf, Typed
  <2>2. CASE Begin(c) \/ Look(c) \/ Receive(c) \/ Abandon(c)
    BY <1>0, <2>2 DEF Begin, Look, Receive, Abandon, flight, slotVars
  <2> QED
    BY <1>1, <2>1, <2>2 DEF CallStep
<1>2. ASSUME NEW k \in Keys, FlightStep(k) PROVE FlightOf(j)'
  <2>0. phase[k] # "none" => leader[k] \in Calls /\ leader[k] \in Ops /\ KeyOf[leader[k]] = k
    BY CallsAreOps DEF FlightOK
  <2>1. CASE Recheck(k)
    <3>1. CASE UNCHANGED slotVars
      <4>1. CASE FilledMeanwhile(k)
        BY <2>0, <2>1, <3>1, <4>1
        DEF Recheck, Settle, FlightOK, FlightOf, Typed, slotVars
      <4>2. CASE ~FilledMeanwhile(k)
        <5>1. Start(leader[k]) /\ leader[k] \in Ops
          BY <2>0, <2>1, <4>2 DEF Recheck
        <5>2. at[leader[k]] = "idle" /\ at'[leader[k]] # "idle"
          BY <5>1 DEF Start, Goto, SlotInv, SlotsTypeOK
        <5> QED
          BY <3>1, <5>2 DEF slotVars
      <4> QED
        BY <4>1, <4>2
    <3>2. CASE Start(leader[k]) /\ Advance(k, "load")
      <4>1. /\ \A p \in Ops \ {leader[k]} : at'[p] = at[p] /\ err'[p] = err[p]
            /\ at'[leader[k]] \notin {"giveback", "unlimit"}
            /\ at'[leader[k]] = "done" => err'[leader[k]] # "none"
        BY <2>0, <2>1, <3>2, OneMoves, CallMoves DEF Recheck
      <4>2. phase[k] = "check" /\ phase' = [phase EXCEPT ![k] = "load"] /\ leader' = leader
        BY <2>1, <3>2 DEF Recheck, Advance
      <4>3. CASE j = k
        BY <2>0, <4>1, <4>2, <4>3 DEF FlightOf, Typed
      <4>4. CASE j # k
        BY <2>0, <4>1, <4>2, <4>4, OtherFlight DEF Typed
      <4> QED
        BY <4>3, <4>4
    <3> QED
      BY <2>1, <3>1, <3>2 DEF Recheck
  <2>2. CASE LoadStep(k)
    <3>1. OpStep(leader[k]) /\ UNCHANGED <<phase, leader>> /\ phase[k] \in {"load", "release"}
      BY <2>2 DEF LoadStep, OpStep, flight
    <3>2. \A p \in Ops \ {leader[k]} : at'[p] = at[p] /\ err'[p] = err[p]
      BY <2>0, <3>1, OneMoves
    <3>3. CASE j # k
      BY <2>0, <3>1, <3>2, <3>3, OtherFlight
    <3>4. CASE j = k /\ phase[k] = "load"
      <4>1. ~Unlimit(leader[k])
        BY <3>4 DEF Unlimit, FlightOK
      <4>2. Acquiring(leader[k])
        BY <2>2, <3>4, <4>1 DEF LoadStep
      <4> QED
        BY <2>0, <3>1, <3>4, <4>2, CallMoves DEF FlightOf
    <3>5. CASE j = k /\ phase[k] = "release"
      BY <2>0, <3>1, <3>5 DEF FlightOf
    <3> QED
      BY <3>1, <3>3, <3>4, <3>5
  <2>3. CASE Store(k) \/ ReadFailed(k) \/ SlotRefused(k) \/ Released(k)
    <3>1. /\ UNCHANGED <<at, err>> /\ leader' = leader /\ phase[k] # "none"
          /\ \E q \in {"settle", "release"} : phase' = [phase EXCEPT ![k] = q]
      BY <2>3 DEF Store, ReadFailed, SlotRefused, Released, Settle, Advance, slotVars
    <3>2. CASE j = k
      BY <3>1, <3>2, QuietFlight DEF Typed
    <3>3. CASE j # k
      BY <3>1, <3>3 DEF FlightOK, FlightOf, Typed
    <3> QED
      BY <3>2, <3>3
  <2>4. CASE Finish(k)
    BY <2>4 DEF Finish, FlightOK, FlightOf, Typed, slotVars
  <2> QED
    BY <1>2, <2>1, <2>2, <2>3, <2>4 DEF FlightStep
<1>3. ASSUME NEW o \in Calls \cup Readers, ReadRemote(o) PROVE FlightOf(j)'
  BY <1>0, <1>3 DEF ReadRemote, flight, slotVars
<1>4. ASSUME NEW o \in Others, StartOther(o) \/ OtherStep(o) PROVE FlightOf(j)'
  <2>1. o \in Ops /\ o \notin Calls /\ (Start(o) \/ OpStep(o))
    BY <1>4, CallsAreOps DEF StartOther, OtherStep, OpStep
  <2>2. UNCHANGED <<phase, leader>>
    BY <1>4 DEF StartOther, OtherStep, flight
  <2> QED
    BY <2>1, <2>2, OneMoves, OtherFlight
<1>5. ASSUME NEW r \in Readers, Remember(r) PROVE FlightOf(j)'
  BY <1>0, <1>5 DEF Remember, flight, slotVars
<1>6. ASSUME NEW o \in Ops, Cancel(o) PROVE FlightOf(j)'
  BY <1>0, <1>6 DEF Cancel, CancelOp, flight
<1>7. CASE Close \/ ServerChanges \/ UNCHANGED vars
  BY <1>0, <1>7 DEF Close, Shut, ServerChanges, vars, flight, slotVars
<1> QED
  BY <1>1, <1>2, <1>3, <1>4, <1>5, <1>6, <1>7 DEF Next

(* Only reading and remembering change what has been read. *)
LEMMA ReadChanges ==
  ASSUME [Next]_vars
  PROVE  \/ read' = read
         \/ \E o \in Calls \cup Readers : ReadRemote(o)
         \/ \E r \in Readers : Remember(r)
<1>1. ASSUME NEW c \in Calls, Begin(c) \/ CallStep(c) PROVE read' = read
  BY <1>1 DEF Begin, CallStep, Look, Join, Receive, Abandon
<1>2. ASSUME NEW k \in Keys, FlightStep(k) PROVE read' = read
  BY <1>2 DEF FlightStep, Recheck, Store, ReadFailed, SlotRefused, LoadStep,
              Released, Finish
<1>3. ASSUME NEW o \in Others, StartOther(o) \/ OtherStep(o) PROVE read' = read
  BY <1>3 DEF StartOther, OtherStep
<1>4. ASSUME NEW o \in Ops, Cancel(o) PROVE read' = read
  BY <1>4 DEF Cancel
<1>5. CASE Close \/ ServerChanges \/ UNCHANGED vars
  BY <1>5 DEF Close, ServerChanges, vars
<1> QED
  BY <1>1, <1>2, <1>3, <1>4, <1>5 DEF Next

(* Reading needs the slot, and remembering consumes what was read. *)
LEMMA ReadKept ==
  ASSUME Typed, SlotInv, FlightOK, ReadOK, [Next]_vars
  PROVE  ReadOK'
<1>1. ASSUME NEW o \in Calls \cup Readers, ReadRemote(o) PROVE ReadOK'
  <2>1. /\ at[o] = "work" /\ UNCHANGED <<at, err>>
        /\ \A p \in Ops \ {o} : read'[p] = read[p]
    BY <1>1 DEF ReadRemote, slotVars, Typed
  <2> QED
    BY <2>1 DEF ReadOK, Leaving
<1>2. ASSUME NEW r \in Readers, Remember(r) PROVE ReadOK'
  <2>1. UNCHANGED <<at, err>> /\ \A p \in Ops : read'[p] = read[p] \/ read'[p] = None
    BY <1>2 DEF Remember, slotVars, Typed
  <2> QED
    BY <2>1 DEF ReadOK
<1>3. ASSUME read' = read, SlotStep PROVE ReadOK'
  <2>1. CASE UNCHANGED <<at, err>>
    BY <1>3, <2>1 DEF ReadOK
  <2>2. ASSUME NEW o \in Ops, Start(o) \/ OpStep(o) PROVE ReadOK'
    <3>1. ASSUME NEW p \in Ops \ {o}
          PROVE  at'[p] = at[p] /\ err'[p] = err[p] /\ read'[p] = read[p]
      BY <1>3, <2>2, OneMoves
    <3>2. /\ at'[o] \notin Leaving => err'[o] = "none"
          /\ read'[o] # None => err'[o] = "none" /\ at'[o] \in Ending \cup {"work"}
      BY <1>3, <2>2, OneMoves DEF ReadOK, Leaving, Ending
    <3> QED
      BY <3>1, <3>2 DEF ReadOK
  <2> QED
    BY <1>3, <2>1, <2>2 DEF SlotStep, CancelOp, Shut, slotVars
<1> QED
  BY <1>1, <1>2, <1>3, StepsOfSlots, ReadChanges

-----------------------------------------------------------------------------
(* One snapshot. *)

(* What a reader has remembered stays remembered. *)
LEMMA RememberedForEver ==
  ASSUME Typed, SlotInv, FlightOK, [Next]_vars, NEW r \in Readers, Remembered(r)
  PROVE  Remembered(r)'
<1>0. r \in Ops /\ at[r] = "done" /\ err[r] = "none" /\ read[r] = None
  BY CallsAreOps DEF Remembered
<1>1. at'[r] = at[r] /\ err'[r] = err[r]
  <2>1. ASSUME NEW o \in Ops, Start(o) \/ OpStep(o) PROVE at'[r] = at[r] /\ err'[r] = err[r]
    BY <1>0, <2>1, OneMoves
  <2> QED
    BY <2>1, StepsOfSlots DEF SlotStep, CancelOp, Shut, slotVars
<1>2. read'[r] = None
  <2>1. ASSUME NEW o \in Calls \cup Readers, ReadRemote(o) PROVE read'[r] = None
    BY <1>0, <2>1 DEF ReadRemote, Typed
  <2>2. ASSUME NEW q \in Readers, Remember(q) PROVE read'[r] = None
    BY <1>0, <2>2 DEF Remember, Typed
  <2> QED
    BY <1>0, <2>1, <2>2, ReadChanges
<1> QED
  BY <1>0, <1>1, <1>2 DEF Remembered

(* Of one inventory: what SnapshotOK asks. *)
SnapshotOf(k) ==
    /\ phase[k] = "load" => inventory[k] = None
    /\ Keepable(k) =>
          /\ Agrees(k, value[k])
          /\ \A c \in Calls : KeyOf[c] = k => Agrees(k, result[c])

(* An inventory whose flight and calls stay as they are. *)
LEMMA SameSnapshot ==
  ASSUME NEW k \in Keys, SnapshotOf(k),
         inventory'[k] = inventory[k], value'[k] = value[k],
         phase'[k] = phase[k] \/ phase'[k] # "load",
         \A c \in Calls : KeyOf[c] = k =>
            result'[c] = result[c] \/ result'[c].err # "ok" \/ result'[c] = value[k]
                \/ (inventory[k] # None /\ result'[c] = Gives(inventory[k]))
  PROVE  SnapshotOf(k)'
BY DEF SnapshotOf, Agrees, Gives

(* Each step gives what is kept, or keeps what it gives. *)
LEMMA SnapshotKept ==
  ASSUME Typed, SlotInv, FlightOK, ReadOK, SnapshotOK, [Next]_vars
  PROVE  SnapshotOK'
<1> SUFFICES ASSUME NEW j \in Keys, NobodyRemembered(j)' PROVE SnapshotOf(j)'
  BY DEF SnapshotOK, SnapshotOf, NobodyRemembered
<1>0. SnapshotOf(j)
  <2>1. NobodyRemembered(j)
    BY RememberedForEver DEF NobodyRemembered
  <2> QED
    BY <2>1 DEF SnapshotOK, SnapshotOf
<1>a. ASSUME UNCHANGED <<inventory, flight, result>> PROVE SnapshotOf(j)'
  BY <1>0, <1>a, SameSnapshot DEF flight
<1>1. ASSUME NEW c \in Calls, Begin(c) \/ CallStep(c) PROVE SnapshotOf(j)'
  <2>1. CASE Join(c)
    <3>1. UNCHANGED <<inventory, value, result>>
      BY <2>1 DEF Join
    <3>2. phase'[j] = phase[j] \/ phase'[j] # "load"
      BY <2>1, InventoryAssumption DEF Join, Typed
    <3> QED
      BY <1>0, <3>1, <3>2, SameSnapshot
  <2>2. CASE Receive(c)
    BY <1>a, <2>2 DEF Receive
  <2>3. CASE Begin(c) \/ Look(c) \/ Abandon(c)
    <3>1. UNCHANGED <<inventory, value, phase>>
      BY <2>3 DEF Begin, Look, Abandon, flight
    <3>2. \/ result' = result
          \/ \E e \in {"closed", "cancelled"} : result' = [result EXCEPT ![c] = Failed(e)]
          \/ /\ inventory[KeyOf[c]] # None
             /\ result' = [result EXCEPT ![c] = Gives(inventory[KeyOf[c]])]
      BY <2>3 DEF Begin, Look, Abandon, Return
    <3>3. ASSUME NEW d \in Calls, KeyOf[d] = j
          PROVE  \/ result'[d] = result[d] \/ result'[d].err # "ok"
                 \/ (inventory[j] # None /\ result'[d] = Gives(inventory[j]))
      BY <3>2, <3>3 DEF Typed, Failed
    <3> QED
      BY <1>0, <3>1, <3>3, SameSnapshot
  <2> QED
    BY <1>1, <2>1, <2>2, <2>3 DEF CallStep
<1>2. ASSUME NEW k \in Keys, FlightStep(k) PROVE SnapshotOf(j)'
  <2>1. CASE Recheck(k)
    <3>1. UNCHANGED <<inventory, result>>
      BY <2>1 DEF Recheck, calls
    <3>2. CASE j # k
      BY <1>0, <2>1, <3>1, <3>2, SameSnapshot
      DEF Recheck, Settle, Advance, Typed
    <3>3. CASE j = k /\ Settle(k, Gives(inventory[k])) /\ FilledMeanwhile(k)
      BY <1>0, <3>1, <3>3
      DEF Settle, FilledMeanwhile, SnapshotOf, Agrees, Gives, Typed
    <3>4. CASE j = k /\ Advance(k, "load") /\ ~FilledMeanwhile(k)
      BY <1>0, <3>1, <3>4 DEF Advance, FilledMeanwhile, SnapshotOf, Agrees, Typed
    <3> QED
      BY <2>1, <3>2, <3>3, <3>4 DEF Recheck
  <2>2. CASE Store(k)
    <3> DEFINE v == read[leader[k]]
    <3>0. /\ v \in Versions /\ phase[k] = "load"
          /\ inventory' = [inventory EXCEPT ![k] = Kept(k, v)]
          /\ value' = [value EXCEPT ![k] = Gives(v)]
          /\ phase' = [phase EXCEPT ![k] = "release"]
          /\ UNCHANGED result
      BY <2>2 DEF Store, Readable, calls
    <3> HIDE DEF v
    <3>1. CASE j # k
      BY <1>0, <3>0, <3>1, SameSnapshot DEF Typed
    <3>2. CASE j = k
      <4>1. inventory[k] = None /\ phase'[k] # "load"
        BY <1>0, <3>0, <3>2 DEF SnapshotOf, Typed
      <4>2. Keepable(k) => /\ inventory'[k] = v /\ v # None
                                /\ value'[k].err = "ok" /\ value'[k].got = v
        BY <3>0, Answers DEF Keepable, Kept, Gives, Typed
      <4>3. Keepable(k) => \A c \in Calls : KeyOf[c] = k => result[c].err # "ok"
        BY <1>0, <3>2, <4>1 DEF SnapshotOf, Agrees
      <4> QED
        BY <3>0, <3>2, <4>1, <4>2, <4>3 DEF SnapshotOf, Agrees
    <3> QED
      BY <3>1, <3>2
  <2>3. CASE ReadFailed(k) \/ SlotRefused(k)
    <3>1. PICK e \in {"remote", "cancelled", "closed"} : value' = [value EXCEPT ![k] = Failed(e)]
      <4>1. CASE ReadFailed(k)
        BY <4>1 DEF ReadFailed
      <4>2. CASE SlotRefused(k)
        <5>1. leader[k] \in Ops /\ err[leader[k]] # "none"
          BY <4>2, CallsAreOps DEF SlotRefused, FlightOK
        <5>2. err[leader[k]] \in {"cancelled", "closed"}
          BY <5>1 DEF SlotInv, SlotsTypeOK
        <5> QED
          BY <4>2, <5>2 DEF SlotRefused, Settle
      <4> QED
        BY <2>3, <4>1, <4>2
    <3>2. /\ UNCHANGED <<inventory, result>>
          /\ \E q \in {"settle", "release"} : phase' = [phase EXCEPT ![k] = q]
      BY <2>3 DEF ReadFailed, SlotRefused, Settle, calls
    <3> QED
      BY <1>0, <3>1, <3>2 DEF SnapshotOf, Agrees, Failed, Typed
  <2>4. CASE LoadStep(k)
    BY <1>a, <2>4 DEF LoadStep, calls
  <2>5. CASE Released(k)
    BY <1>0, <2>5, SameSnapshot DEF Released, Advance, calls, Typed
  <2>6. CASE Finish(k)
    <3>1. ASSUME NEW d \in Calls, KeyOf[d] = j
          PROVE  result'[d] = result[d] \/ result'[d] = value[j]
      BY <2>6, <3>1 DEF Finish, Waiters
    <3>2. UNCHANGED inventory /\ (phase'[j] = phase[j] \/ phase'[j] # "load")
          /\ (value'[j] = value[j] \/ value'[j].err # "ok")
      BY <2>6 DEF Finish, NoAnswer, Typed
    <3> QED
      BY <1>0, <3>1, <3>2 DEF SnapshotOf, Agrees
  <2> QED
    BY <1>2, <2>1, <2>2, <2>3, <2>4, <2>5, <2>6 DEF FlightStep
<1>3. ASSUME NEW o \in Calls \cup Readers, ReadRemote(o) PROVE SnapshotOf(j)'
  BY <1>a, <1>3 DEF ReadRemote, calls
<1>4. ASSUME NEW o \in Others, StartOther(o) \/ OtherStep(o) PROVE SnapshotOf(j)'
  BY <1>a, <1>4 DEF StartOther, OtherStep, calls
<1>5. ASSUME NEW r \in Readers, Remember(r) PROVE SnapshotOf(j)'
  <2>1. KeyOf[r] # j
    <3>1. r \in Ops /\ at[r] = "done" /\ read[r] # None /\ UNCHANGED <<at, err>>
      BY <1>5, CallsAreOps, Answers DEF Remember, slotVars
    <3>2. err[r] = "none" /\ read'[r] = None
      BY <1>5, <3>1 DEF ReadOK, Remember, Typed
    <3> QED
      BY <3>1, <3>2 DEF NobodyRemembered, Remembered
  <2>2. inventory'[j] = inventory[j]
    BY <1>5, <2>1 DEF Remember, Typed
  <2>3. UNCHANGED <<value, phase, result>>
    BY <1>5 DEF Remember, calls, flight
  <2> QED
    BY <1>0, <2>2, <2>3, SameSnapshot
<1>6. ASSUME NEW o \in Ops, Cancel(o) PROVE SnapshotOf(j)'
  BY <1>a, <1>6 DEF Cancel, calls
<1>7. CASE Close \/ ServerChanges \/ UNCHANGED vars
  BY <1>a, <1>7 DEF Close, ServerChanges, vars, calls
<1> QED
  BY <1>1, <1>2, <1>3, <1>4, <1>5, <1>6, <1>7 DEF Next

-----------------------------------------------------------------------------
(* The theorems. *)

LEMMA InventoryInitially == Init => InventoryInv
<1> SUFFICES ASSUME Init PROVE InventoryInv
  OBVIOUS
<1>1. SlotInv
  BY SlotsInitially DEF Init
<1>2. Typed
  BY Answers, InventoryAssumption DEF Init, Typed
<1>3. FlightOK
  BY DEF Init, FlightOK
<1>4. ReadOK
  BY DEF Init, SlotsInit, ReadOK
<1>5. SnapshotOK
  BY DEF Init, SnapshotOK, Agrees, NoAnswer
<1> QED
  BY <1>1, <1>2, <1>3, <1>4, <1>5 DEF InventoryInv

LEMMA InventoryInductive == InventoryInv /\ [Next]_vars => InventoryInv'
BY SlotsKept, TypesKept, FlightKept, ReadKept, SnapshotKept DEF InventoryInv

LEMMA InventoryInvariant == Spec => []InventoryInv
BY InventoryInitially, InventoryInductive, PTL DEF Spec

(* Type correctness: only what was read goes into an inventory, and every    *)
(* call is answered with an inventory or with one of the three errors        *)
(* (session_catalog.go:97-105).                                              *)
THEOREM InventoryTypeCorrect == Spec => []TypeOK
<1>1. InventoryInv => TypeOK
  BY DEF InventoryInv, SlotInv, Typed, TypeOK
<1> QED
  BY <1>1, InventoryInvariant, PTL

(* No token of a semaphore is lost by a load, whether it is refused, fails,  *)
(* or stores: the loads are operations of RemoteSlots (session_catalog.go:91).*)
THEOREM LoadsGiveBack == Spec => []TokensAccounted
<1>1. InventoryInv => TokensAccounted
  BY DEF InventoryInv, SlotInv
<1> QED
  BY <1>1, InventoryInvariant, PTL

(* Two calls about one inventory are given the same contents until somebody  *)
(* has remembered it, when no inventory is kept in a slice or none is empty: *)
(* the flights and the second look (session_catalog.go:84) are enough,       *)
(* however many calls there are and however often the server changes.        *)
THEOREM SnapshotShared == ASSUME NilKeys = {} \/ EmptyVersions = {} PROVE Spec => []OneSnapshot
<1>1. InventoryInv => OneSnapshot
  <2> SUFFICES ASSUME InventoryInv, NEW c \in Calls, NEW d \in Calls,
                      KeyOf[c] = KeyOf[d], NobodyRemembered(KeyOf[c]),
                      result[c].err = "ok", result[d].err = "ok"
               PROVE  result[c].got = result[d].got
    BY DEF OneSnapshot
  <2>1. KeyOf[c] \in Keys
    BY InventoryAssumption
  <2> QED
    BY <2>1 DEF InventoryInv, SnapshotOK, Agrees, Keepable
<1> QED
  BY <1>1, InventoryInvariant, PTL

(* An inventory the session has learnt is never taken away, and only a       *)
(* flight that was reading it may replace it: not a failure, not Close, not  *)
(* rememberReplicaSetInventory (session_replica.go:88).                      *)
THEOREM InventoriesKept == Spec => NeverForgets
<1> DEFINE Keeps == \A k \in Keys : inventory[k] # None =>
                       /\ inventory'[k] # None
                       /\ inventory'[k] # inventory[k] => phase[k] = "load"
<1>1. ASSUME InventoryInv, [Next]_vars PROVE [Keeps]_vars
  <2> SUFFICES ASSUME NEW k \in Keys, inventory[k] # None
               PROVE  /\ inventory'[k] # None
                      /\ inventory'[k] # inventory[k] => phase[k] = "load"
    OBVIOUS
  <2> Typed
    BY <1>1 DEF InventoryInv
  <2>1. ASSUME NEW j \in Keys, Store(j)
        PROVE  inventory'[k] # None /\ (inventory'[k] # inventory[k] => phase[k] = "load")
    <3>1. /\ inventory' = [inventory EXCEPT ![j] = Kept(j, read[leader[j]])]
          /\ phase[j] = "load" /\ read[leader[j]] \in Versions
      BY <2>1 DEF Store, Readable
    <3>2. CASE j = k
      <4>1. k \notin NilKeys
        <5>1. k \in NilKeys => NobodyRemembered(k)
          BY InventoryAssumption DEF NobodyRemembered
        <5> QED
          BY <1>1, <3>1, <3>2, <5>1 DEF InventoryInv, SnapshotOK
      <4> QED
        BY <3>1, <3>2, <4>1, Answers DEF Kept, Typed
    <3>3. CASE j # k
      BY <3>1, <3>3 DEF Typed
    <3> QED
      BY <3>2, <3>3
  <2>2. ASSUME NEW r \in Readers, Remember(r) PROVE inventory'[k] = inventory[k]
    BY <2>2 DEF Remember, Unknown, Typed
  <2>3. ASSUME NEW c \in Calls, Begin(c) \/ CallStep(c) PROVE inventory' = inventory
    BY <2>3 DEF Begin, CallStep, Look, Join, Receive, Abandon
  <2>4. ASSUME NEW j \in Keys, FlightStep(j), ~Store(j) PROVE inventory' = inventory
    BY <2>4 DEF FlightStep, Recheck, ReadFailed, SlotRefused, LoadStep, Released, Finish
  <2>5. ASSUME NEW o \in Calls \cup Readers, ReadRemote(o) PROVE inventory' = inventory
    BY <2>5 DEF ReadRemote
  <2>6. ASSUME NEW o \in Others, StartOther(o) \/ OtherStep(o) PROVE inventory' = inventory
    BY <2>6 DEF StartOther, OtherStep
  <2>7. ASSUME NEW o \in Ops, Cancel(o) PROVE inventory' = inventory
    BY <2>7 DEF Cancel
  <2>8. CASE Close \/ ServerChanges \/ UNCHANGED vars
    BY <2>8 DEF Close, ServerChanges, vars
  <2> QED
    BY <1>1, <2>1, <2>2, <2>3, <2>4, <2>5, <2>6, <2>7, <2>8 DEF Next
<1> QED
  BY <1>1, InventoryInvariant, PTL DEF Spec, NeverForgets
=============================================================================
