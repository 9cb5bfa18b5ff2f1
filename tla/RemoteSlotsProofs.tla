--------------------------- MODULE RemoteSlotsProofs ---------------------------
(***************************************************************************)
(* Proofs about RemoteSlots, for every finite set of operations, every     *)
(* assignment of them to capability calls and every limit.                 *)
(***************************************************************************)
EXTENDS RemoteSlots, FiniteSetTheorems, SequenceTheorems, TLAPS

(* No operation waits twice. *)
NoRepeat(q) == \A i, j \in DOMAIN q : q[i] = q[j] => i = j

-----------------------------------------------------------------------------
(* Queues: what the three changes of a queue do to the set of those waiting. *)

(* An element at a position is among those waiting. *)
LEMMA MemberOf ==
  ASSUME NEW q, NEW i \in DOMAIN q
  PROVE  q[i] \in ToSet(q)
BY DEF ToSet

(* One more at the end. *)
LEMMA Appended ==
  ASSUME NEW S, NEW q \in Seq(S), NEW e \in S, NoRepeat(q), e \notin ToSet(q)
  PROVE  /\ Append(q, e) \in Seq(S)
         /\ NoRepeat(Append(q, e))
         /\ ToSet(Append(q, e)) = ToSet(q) \cup {e}
<1>1. /\ Append(q, e) \in Seq(S)
      /\ Len(Append(q, e)) = Len(q) + 1
      /\ \A i \in 1 .. Len(q) : Append(q, e)[i] = q[i]
      /\ Append(q, e)[Len(q) + 1] = e
  BY AppendProperties
<1>2. DOMAIN q = 1 .. Len(q) /\ DOMAIN Append(q, e) = 1 .. Len(q) + 1 /\ Len(q) \in Nat
  BY <1>1
<1>3. ToSet(Append(q, e)) = ToSet(q) \cup {e}
  BY <1>1, <1>2 DEF ToSet
<1>4. NoRepeat(Append(q, e))
  BY <1>1, <1>2 DEF ToSet, NoRepeat
<1> QED
  BY <1>1, <1>3, <1>4

(* The first has been served. *)
LEMMA Shortened ==
  ASSUME NEW S, NEW q \in Seq(S), q # <<>>, NoRepeat(q)
  PROVE  /\ Head(q) \in ToSet(q)
         /\ Tail(q) \in Seq(S)
         /\ NoRepeat(Tail(q))
         /\ ToSet(Tail(q)) = ToSet(q) \ {Head(q)}
<1>1. /\ Head(q) = q[1] /\ Tail(q) \in Seq(S)
      /\ Len(Tail(q)) = Len(q) - 1 /\ Len(q) \in Nat \ {0}
      /\ \A i \in 1 .. Len(Tail(q)) : Tail(q)[i] = q[i + 1]
  BY HeadTailProperties, EmptySeq
<1>2. DOMAIN q = 1 .. Len(q) /\ DOMAIN Tail(q) = 1 .. Len(q) - 1
  BY <1>1
<1>3. NoRepeat(Tail(q))
  BY <1>1, <1>2 DEF NoRepeat
<1>4. ToSet(Tail(q)) \subseteq ToSet(q) \ {Head(q)}
  BY <1>1, <1>2 DEF ToSet, NoRepeat
<1>5. ASSUME NEW x \in ToSet(q) \ {Head(q)} PROVE x \in ToSet(Tail(q))
  <2>1. PICK i \in 1 .. Len(q) : x = q[i] /\ i # 1
    BY <1>1, <1>2, <1>5 DEF ToSet
  <2>2. i - 1 \in 1 .. Len(q) - 1
    BY <1>1, <2>1
  <2>3. Tail(q)[i - 1] = q[i]
    BY <1>1, <2>1, <2>2
  <2>4. i - 1 \in DOMAIN Tail(q) /\ x = Tail(q)[i - 1]
    BY <1>2, <2>1, <2>2, <2>3
  <2> QED
    BY <2>4, MemberOf
<1>6. Head(q) \in ToSet(q)
  BY <1>1, <1>2, MemberOf
<1> QED
  BY <1>1, <1>3, <1>4, <1>5, <1>6

(* One has given up, wherever it stood. *)
LEMMA Removed ==
  ASSUME NEW S, NEW q \in Seq(S), NEW i \in DOMAIN q, NoRepeat(q)
  PROVE  /\ RemoveAt(q, i) \in Seq(S)
         /\ NoRepeat(RemoveAt(q, i))
         /\ ToSet(RemoveAt(q, i)) = ToSet(q) \ {q[i]}
<1> DEFINE r == RemoveAt(q, i)
           a == SubSeq(q, 1, i - 1)
           b == SubSeq(q, i + 1, Len(q))
<1>1. DOMAIN q = 1 .. Len(q) /\ Len(q) \in Nat /\ i \in 1 .. Len(q)
  OBVIOUS
<1>2. /\ a \in Seq(S) /\ Len(a) = i - 1
      /\ \A j \in 1 .. i - 1 : a[j] = q[j]
  BY <1>1, SubSeqProperties
<1>3. /\ b \in Seq(S) /\ Len(b) = Len(q) - i
      /\ \A j \in 1 .. Len(q) - i : b[j] = q[i + j]
  <2>1. \A j \in i + 1 .. Len(q) : q[j] \in S
    BY <1>1
  <2>2. /\ b \in Seq(S)
        /\ Len(b) = IF i + 1 <= Len(q) THEN Len(q) - (i + 1) + 1 ELSE 0
        /\ \A j \in 1 .. Len(q) - (i + 1) + 1 : b[j] = q[i + 1 + j - 1]
    BY <1>1, <2>1, SubSeqProperties
  <2> HIDE DEF b
  <2>3. Len(b) = Len(q) - i
    BY <1>1, <2>2
  <2>4. ASSUME NEW j \in 1 .. Len(q) - i PROVE b[j] = q[i + j]
    <3>1. j \in 1 .. Len(q) - (i + 1) + 1 /\ i + 1 + j - 1 = i + j
      BY <1>1
    <3> QED
      BY <2>2, <3>1
  <2> QED
    BY <2>2, <2>3, <2>4
<1>4. /\ r \in Seq(S) /\ Len(r) = Len(q) - 1
      /\ \A j \in 1 .. i - 1 : r[j] = q[j]
      /\ \A j \in i .. Len(q) - 1 : r[j] = q[j + 1]
  <2> HIDE DEF a, b
  <2>1. /\ a \o b \in Seq(S) /\ Len(a \o b) = Len(a) + Len(b)
        /\ \A j \in 1 .. Len(a) + Len(b) :
              (a \o b)[j] = IF j <= Len(a) THEN a[j] ELSE b[j - Len(a)]
    BY <1>2, <1>3, ConcatProperties
  <2>2. r = a \o b
    BY DEF RemoveAt, a, b
  <2>3. \A j \in i .. Len(q) - 1 : r[j] = q[j + 1]
    <3> TAKE j \in i .. Len(q) - 1
    <3>1. j \in 1 .. Len(a) + Len(b) /\ ~(j <= Len(a)) /\ j - Len(a) \in 1 .. Len(q) - i
      BY <1>1, <1>2, <1>3
    <3>2. r[j] = b[j - Len(a)] /\ b[j - Len(a)] = q[i + (j - Len(a))]
      BY <1>3, <2>1, <2>2, <3>1
    <3>3. i + (j - Len(a)) = j + 1
      BY <1>1, <1>2
    <3> QED
      BY <3>2, <3>3
  <2>4. \A j \in 1 .. i - 1 : r[j] = q[j]
    <3> TAKE j \in 1 .. i - 1
    <3>1. j \in 1 .. Len(a) + Len(b) /\ j <= Len(a)
      BY <1>1, <1>2, <1>3
    <3> QED
      BY <1>2, <2>1, <2>2, <3>1
  <2>5. Len(a) + Len(b) = Len(q) - 1
    BY <1>1, <1>2, <1>3
  <2> QED
    BY <2>1, <2>2, <2>3, <2>4, <2>5
<1>5. DOMAIN r = 1 .. Len(q) - 1
  BY <1>4
<1> HIDE DEF r
<1>6. NoRepeat(r)
  <2> SUFFICES ASSUME NEW j \in 1 .. Len(q) - 1, NEW l \in 1 .. Len(q) - 1, j < l
               PROVE  r[j] # r[l]
    BY <1>1, <1>5 DEF NoRepeat
  <2> DEFINE J == IF j < i THEN j ELSE j + 1
             L == IF l < i THEN l ELSE l + 1
  <2>1. J \in 1 .. Len(q) /\ L \in 1 .. Len(q) /\ J # L
    BY <1>1
  <2>2. ASSUME NEW m \in 1 .. Len(q) - 1
        PROVE  r[m] = q[IF m < i THEN m ELSE m + 1]
    <3>1. CASE m < i
      BY <1>1, <1>4, <3>1
    <3>2. CASE m >= i
      BY <1>1, <1>4, <3>2
    <3> QED
      BY <1>1, <3>1, <3>2
  <2> QED
    BY <1>1, <2>1, <2>2 DEF NoRepeat
<1>7. ToSet(r) \subseteq ToSet(q) \ {q[i]}
  <2> SUFFICES ASSUME NEW j \in 1 .. Len(q) - 1
               PROVE  r[j] \in ToSet(q) /\ r[j] # q[i]
    BY <1>5 DEF ToSet
  <2>1. CASE j < i
    BY <1>1, <1>4, <2>1 DEF ToSet, NoRepeat
  <2>2. CASE j >= i
    BY <1>1, <1>4, <2>2 DEF ToSet, NoRepeat
  <2> QED
    BY <1>1, <2>1, <2>2
<1>8. ASSUME NEW x \in ToSet(q) \ {q[i]} PROVE x \in ToSet(r)
  <2>1. PICK j \in 1 .. Len(q) : x = q[j]
    BY <1>1 DEF ToSet
  <2>2. CASE j < i
    <3>1. j \in DOMAIN r /\ r[j] = q[j]
      BY <1>1, <1>4, <1>5, <2>1, <2>2
    <3> QED
      BY <2>1, <3>1, MemberOf
  <2>3. CASE j > i
    <3>1. j - 1 \in i .. Len(q) - 1 /\ r[j - 1] = q[j]
      BY <1>1, <1>4, <2>1, <2>3
    <3>2. j - 1 \in DOMAIN r
      BY <1>1, <1>5, <3>1
    <3> QED
      BY <2>1, <3>1, <3>2, MemberOf
  <2>4. j # i
    BY <1>8, <2>1
  <2> QED
    BY <1>1, <2>1, <2>2, <2>3, <2>4
<1> QED
  BY <1>4, <1>6, <1>7, <1>8 DEF r

-----------------------------------------------------------------------------
(***************************************************************************)
(* The inductive invariant: types; who waits in a queue is where the code  *)
(* waits, and waits once; every taken token has an owner; remoteInFlight   *)
(* counts the operations at work, all of which own a slot.                 *)
(***************************************************************************)
WaitingAt(s) == IF s = Session THEN "slot" ELSE "limit"

QueueOK ==
    /\ \A s \in Semaphores : NoRepeat(queue[s])
    /\ \A s \in Semaphores, o \in Ops :
          Waiting(s, o) =>
              /\ at[o] = WaitingAt(s)
              /\ s # Session => CapabilityOf[o] = s
    /\ \A o \in Ops : at[o] \in {"limit", "unlimit"} => HasLimit(o)

AtWork == {o \in Ops : at[o] = "work"}

CountOK ==
    /\ inFlight = Cardinality(AtWork)
    /\ inFlight <= peak
    /\ peak <= SlotLimit

SlotInv == SlotsTypeOK /\ QueueOK /\ TokensAccounted /\ CountOK

(* Whether an operation that waits nowhere and is at place p has a token of s. *)
Holds(s, o, p) ==
    IF s = Session THEN p \in {"slot", "reopen", "enter", "work", "giveback"}
    ELSE /\ CapabilityOf[o] = s
         /\ p \in {"limit", "open", "ask", "slot", "reopen", "enter", "work",
                   "giveback", "unlimit"}

(* The owners of a token are those past the request for it who do not wait. *)
LEMMA OwnersAre ==
  ASSUME QueueOK, NEW s \in Semaphores
  PROVE  Owners(s) = {o \in Ops : Holds(s, o, at[o]) /\ ~Waiting(s, o)}
<1>1. CASE s = Session
  BY <1>1 DEF QueueOK, Owners, SlotOwners, Holds, WaitingAt
<1>2. CASE s # Session
  BY <1>2 DEF QueueOK, Owners, LimitOwners, Holds, WaitingAt
<1> QED
  BY <1>1, <1>2

(* They are finitely many, whatever the state. *)
LEMMA OwnersFinite ==
  ASSUME NEW s \in Semaphores
  PROVE  IsFiniteSet(Owners(s)) /\ Owners(s) \subseteq Ops /\ Cardinality(Owners(s)) \in Nat
<1>1. Owners(s) \subseteq Ops
  BY DEF Owners, SlotOwners, LimitOwners
<1> QED
  BY <1>1, SlotsAssumption, FS_Subset, FS_CardinalityType

(* Every semaphore has at least one token (validation: session.go:112-117). *)
LEMMA SizeType ==
  ASSUME NEW s \in Semaphores
  PROVE  Size(s) \in Nat \ {0}
BY SlotsAssumption DEF Size, Semaphores

(* OwnersAre, after a step. *)
LEMMA OwnersAreNext ==
  ASSUME QueueOK', NEW s \in Semaphores
  PROVE  Owners(s)' = {o \in Ops : Holds(s, o, at'[o]) /\ ~Waiting(s, o)'}
<1>1. CASE s = Session
  BY <1>1 DEF QueueOK, Owners, SlotOwners, Holds, WaitingAt
<1>2. CASE s # Session
  BY <1>2 DEF QueueOK, Owners, LimitOwners, Holds, WaitingAt
<1> QED
  BY <1>1, <1>2

(* A semaphore none of whose owners changes. *)
LEMMA OwnersKept ==
  ASSUME SlotInv, QueueOK', NEW o \in Ops, NEW p \in Places,
         at' = [at EXCEPT ![o] = p],
         NEW t \in Semaphores, queue'[t] = queue[t],
         Holds(t, o, p) <=> Holds(t, o, at[o])
  PROVE  Owners(t)' = Owners(t)
<1>1. Owners(t) = {b \in Ops : Holds(t, b, at[b]) /\ ~Waiting(t, b)}
  BY OwnersAre DEF SlotInv
<1>2. Owners(t)' = {b \in Ops : Holds(t, b, at'[b]) /\ ~Waiting(t, b)'}
  BY OwnersAreNext
<1>3. \A b \in Ops : Waiting(t, b)' <=> Waiting(t, b)
  BY DEF Waiting
<1>4. \A b \in Ops : Holds(t, b, at'[b]) <=> Holds(t, b, at[b])
  BY DEF SlotInv, SlotsTypeOK
<1> QED
  BY <1>1, <1>2, <1>3, <1>4

(* One semaphore changes, the others do not. *)
LEMMA AllAccounted ==
  ASSUME SlotInv, QueueOK', NEW o \in Ops, NEW p \in Places,
         at' = [at EXCEPT ![o] = p], NEW s \in Semaphores,
         \A t \in Semaphores \ {s} :
            /\ used'[t] = used[t] /\ queue'[t] = queue[t]
            /\ Holds(t, o, p) <=> Holds(t, o, at[o]),
         used'[s] = Cardinality(Owners(s)'), used'[s] <= Size(s)
  PROVE  TokensAccounted'
<1> SUFFICES ASSUME NEW t \in Semaphores
             PROVE  used'[t] = Cardinality(Owners(t)') /\ used'[t] <= Size(t)
  BY DEF TokensAccounted
<1>1. CASE t = s
  BY <1>1
<1>2. CASE t # s
  <2>1. Owners(t)' = Owners(t)
    BY <1>2, OwnersKept
  <2> QED
    BY <1>2, <2>1 DEF SlotInv, TokensAccounted
<1> QED
  BY <1>1, <1>2

-----------------------------------------------------------------------------
(* The semaphores keep their types, whichever way a step treats them. *)
QueuesTyped ==
    /\ used \in [Semaphores -> Nat]
    /\ queue \in [Semaphores -> Seq(Ops)]

(* Counts stay natural numbers: an operation that gives back owns a token. *)
LEMMA SemaphoresTyped ==
  ASSUME SlotInv, NEW o \in Ops, NEW s \in Semaphores,
         \/ UNCHANGED semaphores
         \/ TakeToken(s)
         \/ Enqueue(s, o)
         \/ ReturnToken(s) /\ o \in Owners(s)
         \/ LeaveQueue(s, o)
  PROVE  QueuesTyped'
<1>0. QueuesTyped /\ queue[s] \in Seq(Ops) /\ used[s] \in Nat
  BY DEF SlotInv, SlotsTypeOK, QueuesTyped
<1>1. CASE UNCHANGED semaphores
  BY <1>0, <1>1 DEF QueuesTyped, semaphores
<1>2. CASE TakeToken(s)
  BY <1>0, <1>2 DEF QueuesTyped, TakeToken
<1>3. CASE Enqueue(s, o)
  <2>1. Append(queue[s], o) \in Seq(Ops)
    BY <1>0, AppendProperties
  <2> QED
    BY <1>0, <1>3, <2>1 DEF QueuesTyped, Enqueue
<1>4. CASE ReturnToken(s) /\ o \in Owners(s)
  <2>1. used[s] # 0
    <3>1. Owners(s) # {} /\ IsFiniteSet(Owners(s))
      BY <1>4, OwnersFinite
    <3>2. Cardinality(Owners(s)) # 0
      BY <3>1, FS_EmptySet
    <3> QED
      BY <3>2 DEF SlotInv, TokensAccounted
  <2>2. queue[s] # <<>> => Tail(queue[s]) \in Seq(Ops)
    BY <1>0, HeadTailProperties
  <2>3. used[s] - 1 \in Nat
    BY <1>0, <2>1
  <2>4. CASE queue[s] = <<>>
    <3>1. used' = [used EXCEPT ![s] = used[s] - 1] /\ queue' = queue
      BY <1>4, <2>4 DEF ReturnToken
    <3> QED
      BY <1>0, <2>3, <3>1 DEF QueuesTyped
  <2>5. CASE queue[s] # <<>>
    <3>1. used' = used /\ queue' = [queue EXCEPT ![s] = Tail(queue[s])]
      BY <1>4, <2>5 DEF ReturnToken
    <3> QED
      BY <1>0, <2>2, <2>5, <3>1 DEF QueuesTyped
  <2> QED
    BY <2>4, <2>5
<1>5. CASE LeaveQueue(s, o)
  <2>1. PICK i \in DOMAIN queue[s] : queue' = [queue EXCEPT ![s] = RemoveAt(@, i)]
    BY <1>5 DEF LeaveQueue
  <2>2. RemoveAt(queue[s], i) \in Seq(Ops)
    BY <1>0, Removed DEF SlotInv, QueueOK
  <2> QED
    BY <1>0, <1>5, <2>1, <2>2 DEF QueuesTyped, LeaveQueue
<1> QED
  BY <1>1, <1>2, <1>3, <1>4, <1>5

-----------------------------------------------------------------------------
(* The five ways a step can treat the semaphores. *)

(* It leaves them alone. *)
LEMMA Apart ==
  ASSUME SlotInv, NEW o \in Ops, NEW p \in Places,
         at' = [at EXCEPT ![o] = p], UNCHANGED semaphores,
         \A t \in Semaphores : ~Waiting(t, o),
         \A t \in Semaphores : Holds(t, o, p) <=> Holds(t, o, at[o]),
         p \in {"limit", "unlimit"} => HasLimit(o)
  PROVE  QueuesTyped' /\ QueueOK' /\ TokensAccounted'
<1>1. QueueOK'
  BY DEF SlotInv, QueueOK, SlotsTypeOK, Waiting, semaphores, HasLimit
<1>2. \A t \in Semaphores : Owners(t)' = Owners(t)
  BY <1>1, OwnersKept DEF semaphores
<1>3. QueuesTyped'
  BY SemaphoresTyped DEF Semaphores
<1> QED
  BY <1>1, <1>2, <1>3 DEF SlotInv, TokensAccounted, semaphores

(* The operation takes a free token of s. *)
LEMMA Takes ==
  ASSUME SlotInv, NEW o \in Ops, NEW p \in Places, NEW s \in Semaphores,
         at' = [at EXCEPT ![o] = p], TakeToken(s),
         \A t \in Semaphores : ~Waiting(t, o),
         ~Holds(s, o, at[o]), Holds(s, o, p),
         \A t \in Semaphores \ {s} : Holds(t, o, p) <=> Holds(t, o, at[o]),
         p \in {"limit", "unlimit"} => HasLimit(o)
  PROVE  QueuesTyped' /\ QueueOK' /\ TokensAccounted'
<1>1. QueueOK'
  BY DEF SlotInv, QueueOK, SlotsTypeOK, Waiting, TakeToken, HasLimit
<1>2. Owners(s) = {b \in Ops : Holds(s, b, at[b]) /\ ~Waiting(s, b)}
  BY OwnersAre DEF SlotInv
<1>3. Owners(s)' = {b \in Ops : Holds(s, b, at'[b]) /\ ~Waiting(s, b)'}
  BY <1>1, OwnersAreNext
<1>4. \A b \in Ops : Waiting(s, b)' <=> Waiting(s, b)
  BY DEF Waiting, TakeToken
<1>5. Owners(s)' = Owners(s) \cup {o} /\ o \notin Owners(s)
  BY <1>2, <1>3, <1>4 DEF SlotInv, SlotsTypeOK
<1>6. Cardinality(Owners(s)') = Cardinality(Owners(s)) + 1
  BY <1>5, OwnersFinite, FS_AddElement
<1>7. used'[s] = used[s] + 1 /\ used[s] < Size(s) /\ used[s] \in Nat
  BY DEF TakeToken, SlotInv, SlotsTypeOK
<1>8. used'[s] = Cardinality(Owners(s)') /\ used'[s] <= Size(s)
  BY <1>6, <1>7, SizeType DEF SlotInv, TokensAccounted
<1>9. \A t \in Semaphores \ {s} : used'[t] = used[t] /\ queue'[t] = queue[t]
  BY DEF TakeToken, SlotInv, SlotsTypeOK
<1>10. QueuesTyped'
  BY SemaphoresTyped
<1> QED
  BY <1>1, <1>8, <1>9, <1>10, AllAccounted

(* It starts to wait for s. *)
LEMMA Waits ==
  ASSUME SlotInv, NEW o \in Ops, NEW s \in Semaphores,
         at' = [at EXCEPT ![o] = WaitingAt(s)], Enqueue(s, o),
         s # Session => CapabilityOf[o] = s,
         \A t \in Semaphores : ~Waiting(t, o),
         ~Holds(s, o, at[o]),
         \A t \in Semaphores \ {s} :
            Holds(t, o, WaitingAt(s)) <=> Holds(t, o, at[o]),
         WaitingAt(s) = "limit" => HasLimit(o)
  PROVE  QueuesTyped' /\ QueueOK' /\ TokensAccounted'
<1> DEFINE p == WaitingAt(s)
<1>0. p \in Places /\ p \in {"slot", "limit"}
  BY DEF WaitingAt, Places
<1>1. queue[s] \in Seq(Ops) /\ NoRepeat(queue[s]) /\ o \notin ToSet(queue[s])
  BY DEF SlotInv, SlotsTypeOK, QueueOK, Waiting
<1>2. /\ queue'[s] = Append(queue[s], o) /\ used' = used
      /\ \A t \in Semaphores \ {s} : queue'[t] = queue[t]
  BY DEF Enqueue, SlotInv, SlotsTypeOK
<1>3. NoRepeat(queue'[s]) /\ ToSet(queue'[s]) = ToSet(queue[s]) \cup {o}
  BY <1>1, <1>2, Appended
<1>4. /\ \A b \in Ops : Waiting(s, b)' <=> Waiting(s, b) \/ b = o
      /\ \A t \in Semaphores \ {s}, b \in Ops : Waiting(t, b)' <=> Waiting(t, b)
  BY <1>2, <1>3 DEF Waiting
<1>5. at'[o] = p /\ \A b \in Ops \ {o} : at'[b] = at[b]
  BY DEF SlotInv, SlotsTypeOK
<1>6. QueueOK'
  <2>1. \A t \in Semaphores : NoRepeat(queue'[t])
    BY <1>2, <1>3 DEF SlotInv, QueueOK
  <2>2. ASSUME NEW t \in Semaphores, NEW b \in Ops, Waiting(t, b)'
        PROVE  at'[b] = WaitingAt(t) /\ (t # Session => CapabilityOf[b] = t)
    BY <1>4, <1>5, <2>2 DEF SlotInv, QueueOK
  <2>3. ASSUME NEW b \in Ops, at'[b] \in {"limit", "unlimit"} PROVE HasLimit(b)
    BY <1>0, <1>5, <2>3 DEF SlotInv, QueueOK
  <2> QED
    BY <2>1, <2>2, <2>3 DEF QueueOK, HasLimit
<1>7. Owners(s) = {b \in Ops : Holds(s, b, at[b]) /\ ~Waiting(s, b)}
  BY OwnersAre DEF SlotInv
<1>8. Owners(s)' = {b \in Ops : Holds(s, b, at'[b]) /\ ~Waiting(s, b)'}
  BY <1>6, OwnersAreNext
<1>9. Owners(s)' = Owners(s)
  BY <1>4, <1>5, <1>7, <1>8
<1>10. used'[s] = Cardinality(Owners(s)') /\ used'[s] <= Size(s)
  BY <1>2, <1>9 DEF SlotInv, TokensAccounted
<1>11. QueuesTyped'
  BY SemaphoresTyped
<1> QED
  BY <1>0, <1>2, <1>6, <1>10, <1>11, AllAccounted

(* It gives a token of s back, which goes to the first who waits. *)
LEMMA Returns ==
  ASSUME SlotInv, NEW o \in Ops, NEW p \in Places, NEW s \in Semaphores,
         at' = [at EXCEPT ![o] = p], ReturnToken(s),
         \A t \in Semaphores : ~Waiting(t, o),
         Holds(s, o, at[o]), ~Holds(s, o, p),
         \A t \in Semaphores \ {s} : Holds(t, o, p) <=> Holds(t, o, at[o]),
         p \in {"limit", "unlimit"} => HasLimit(o)
  PROVE  QueuesTyped' /\ QueueOK' /\ TokensAccounted'
<1>0. at'[o] = p /\ \A b \in Ops \ {o} : at'[b] = at[b]
  BY DEF SlotInv, SlotsTypeOK
<1>1. \A t \in Semaphores \ {s} : used'[t] = used[t] /\ queue'[t] = queue[t]
  BY DEF ReturnToken, SlotInv, SlotsTypeOK
<1>2. Owners(s) = {b \in Ops : Holds(s, b, at[b]) /\ ~Waiting(s, b)}
  BY OwnersAre DEF SlotInv
<1>3. o \in Owners(s) /\ IsFiniteSet(Owners(s)) /\ Cardinality(Owners(s)) \in Nat
  BY <1>2, OwnersFinite
<1>4. /\ Cardinality(Owners(s) \ {o}) = Cardinality(Owners(s)) - 1
      /\ IsFiniteSet(Owners(s) \ {o})
  BY <1>3, FS_RemoveElement
<1>5. used[s] = Cardinality(Owners(s)) /\ used[s] <= Size(s) /\ Size(s) \in Nat
  BY SizeType DEF SlotInv, TokensAccounted
<1>6. QueuesTyped'
  BY <1>3, SemaphoresTyped
<1>7. CASE queue[s] = <<>>
  <2>1. used'[s] = used[s] - 1 /\ queue' = queue
    BY <1>7 DEF ReturnToken, SlotInv, SlotsTypeOK
  <2>2. \A t \in Semaphores, b \in Ops : Waiting(t, b)' <=> Waiting(t, b)
    BY <2>1 DEF Waiting
  <2>3. QueueOK'
    BY <1>0, <2>1, <2>2 DEF SlotInv, QueueOK, HasLimit
  <2>4. Owners(s)' = {b \in Ops : Holds(s, b, at'[b]) /\ ~Waiting(s, b)'}
    BY <2>3, OwnersAreNext
  <2>5. Owners(s)' = Owners(s) \ {o}
    BY <1>0, <1>2, <2>2, <2>4
  <2>6. used'[s] = Cardinality(Owners(s)') /\ used'[s] <= Size(s)
    BY <1>3, <1>4, <1>5, <2>1, <2>5
  <2> QED
    BY <1>1, <1>6, <2>3, <2>6, AllAccounted
<1>8. CASE queue[s] # <<>>
  <2> DEFINE h == Head(queue[s])
  <2>0. queue[s] \in Seq(Ops) /\ NoRepeat(queue[s])
    BY DEF SlotInv, SlotsTypeOK, QueueOK
  <2>1. used' = used /\ queue'[s] = Tail(queue[s])
    BY <1>8 DEF ReturnToken, SlotInv, SlotsTypeOK
  <2>2. /\ h \in ToSet(queue[s]) /\ h \in Ops /\ NoRepeat(queue'[s])
        /\ ToSet(queue'[s]) = ToSet(queue[s]) \ {h}
    BY <1>8, <2>0, <2>1, Shortened, HeadTailProperties
  <2> HIDE DEF h
  <2>3. /\ \A b \in Ops : Waiting(s, b)' <=> Waiting(s, b) /\ b # h
        /\ \A t \in Semaphores \ {s}, b \in Ops : Waiting(t, b)' <=> Waiting(t, b)
    BY <1>1, <2>2 DEF Waiting
  <2>4. Waiting(s, h) /\ h # o /\ Holds(s, h, at[h])
    <3>1. Waiting(s, h) /\ h # o
      BY <2>2 DEF Waiting
    <3>2. at[h] = WaitingAt(s) /\ (s # Session => CapabilityOf[h] = s)
      BY <2>2, <3>1 DEF SlotInv, QueueOK
    <3> QED
      BY <3>1, <3>2 DEF Holds, WaitingAt
  <2>5. QueueOK'
    <3>1. \A t \in Semaphores : NoRepeat(queue'[t])
      BY <1>1, <2>2 DEF SlotInv, QueueOK
    <3>2. ASSUME NEW t \in Semaphores, NEW b \in Ops, Waiting(t, b)'
          PROVE  at'[b] = WaitingAt(t) /\ (t # Session => CapabilityOf[b] = t)
      BY <1>0, <2>3, <3>2 DEF SlotInv, QueueOK
    <3>3. ASSUME NEW b \in Ops, at'[b] \in {"limit", "unlimit"} PROVE HasLimit(b)
      BY <1>0, <3>3 DEF SlotInv, QueueOK
    <3> QED
      BY <3>1, <3>2, <3>3 DEF QueueOK, HasLimit
  <2>6. Owners(s)' = {b \in Ops : Holds(s, b, at'[b]) /\ ~Waiting(s, b)'}
    BY <2>5, OwnersAreNext
  <2>7. Owners(s)' = (Owners(s) \ {o}) \cup {h} /\ h \notin Owners(s) \ {o}
    BY <1>0, <1>2, <2>2, <2>3, <2>4, <2>6
  <2>8. Cardinality(Owners(s)') = Cardinality(Owners(s) \ {o}) + 1
    BY <1>4, <2>7, FS_AddElement
  <2>9. used'[s] = Cardinality(Owners(s)') /\ used'[s] <= Size(s)
    BY <1>3, <1>4, <1>5, <2>1, <2>8
  <2> QED
    BY <1>1, <1>6, <2>5, <2>9, AllAccounted
<1> QED
  BY <1>6, <1>7, <1>8

(* It stops waiting for s. *)
LEMMA Leaves ==
  ASSUME SlotInv, NEW o \in Ops, NEW p \in Places, NEW s \in Semaphores,
         at' = [at EXCEPT ![o] = p], LeaveQueue(s, o), Waiting(s, o),
         ~Holds(s, o, p),
         \A t \in Semaphores \ {s} : Holds(t, o, p) <=> Holds(t, o, at[o]),
         p \in {"limit", "unlimit"} => HasLimit(o)
  PROVE  QueuesTyped' /\ QueueOK' /\ TokensAccounted'
<1>0. at'[o] = p /\ \A b \in Ops \ {o} : at'[b] = at[b]
  BY DEF SlotInv, SlotsTypeOK
<1>1. PICK i \in DOMAIN queue[s] :
         queue[s][i] = o /\ queue' = [queue EXCEPT ![s] = RemoveAt(@, i)]
  BY DEF LeaveQueue
<1>2. /\ used' = used /\ queue'[s] = RemoveAt(queue[s], i)
      /\ \A t \in Semaphores \ {s} : queue'[t] = queue[t]
  BY <1>1 DEF LeaveQueue, SlotInv, SlotsTypeOK
<1>3. queue[s] \in Seq(Ops) /\ NoRepeat(queue[s])
  BY DEF SlotInv, SlotsTypeOK, QueueOK
<1>4. NoRepeat(queue'[s]) /\ ToSet(queue'[s]) = ToSet(queue[s]) \ {o}
  BY <1>1, <1>2, <1>3, Removed
<1>5. /\ \A b \in Ops : Waiting(s, b)' <=> Waiting(s, b) /\ b # o
      /\ \A t \in Semaphores \ {s}, b \in Ops : Waiting(t, b)' <=> Waiting(t, b)
  BY <1>2, <1>4 DEF Waiting
<1>6. \A t \in Semaphores \ {s} : ~Waiting(t, o)
  BY SlotsAssumption DEF SlotInv, QueueOK, WaitingAt
<1>7. QueueOK'
  <2>1. \A t \in Semaphores : NoRepeat(queue'[t])
    BY <1>2, <1>4 DEF SlotInv, QueueOK
  <2>2. ASSUME NEW t \in Semaphores, NEW b \in Ops, Waiting(t, b)'
        PROVE  at'[b] = WaitingAt(t) /\ (t # Session => CapabilityOf[b] = t)
    BY <1>0, <1>5, <1>6, <2>2 DEF SlotInv, QueueOK
  <2>3. ASSUME NEW b \in Ops, at'[b] \in {"limit", "unlimit"} PROVE HasLimit(b)
    BY <1>0, <2>3 DEF SlotInv, QueueOK
  <2> QED
    BY <2>1, <2>2, <2>3 DEF QueueOK, HasLimit
<1>8. Owners(s) = {b \in Ops : Holds(s, b, at[b]) /\ ~Waiting(s, b)}
  BY OwnersAre DEF SlotInv
<1>9. Owners(s)' = {b \in Ops : Holds(s, b, at'[b]) /\ ~Waiting(s, b)'}
  BY <1>7, OwnersAreNext
<1>10. Owners(s)' = Owners(s)
  BY <1>0, <1>5, <1>8, <1>9
<1>11. used'[s] = Cardinality(Owners(s)') /\ used'[s] <= Size(s)
  BY <1>2, <1>10 DEF SlotInv, TokensAccounted
<1>12. QueuesTyped'
  BY SemaphoresTyped
<1> QED
  BY <1>2, <1>7, <1>11, <1>12, AllAccounted

-----------------------------------------------------------------------------
(* The counters, and where the operations are. *)
CountersTyped == inFlight \in Nat /\ started \in Nat /\ peak \in Nat

OpsTyped ==
    /\ at \in [Ops -> Places]
    /\ err \in [Ops -> {"none", "cancelled", "closed"}]
    /\ done \in [Ops -> BOOLEAN]
    /\ shut \in BOOLEAN

(* The parts of the invariant, as the lemmas below yield them. *)
LEMMA Assembled ==
  ASSUME QueuesTyped', QueueOK', TokensAccounted',
         OpsTyped', CountersTyped', CountOK'
  PROVE  SlotInv'
BY DEF SlotInv, SlotsTypeOK, QueuesTyped, OpsTyped, CountersTyped

(* The operations at work are finitely many. *)
LEMMA AtWorkFinite ==
  /\ IsFiniteSet(AtWork) /\ Cardinality(AtWork) \in Nat
  /\ IsFiniteSet(AtWork') /\ Cardinality(AtWork') \in Nat
<1>1. AtWork \subseteq Ops /\ AtWork' \subseteq Ops
  BY DEF AtWork
<1> QED
  BY <1>1, SlotsAssumption, FS_Subset, FS_CardinalityType

(* An operation that neither starts nor ends its work, refused or not. *)
LEMMA Moved ==
  ASSUME SlotInv, NEW o \in Ops, NEW p \in Places,
         at' = [at EXCEPT ![o] = p], at[o] # "work", p # "work",
         err' = err \/ Refuse(o, "cancelled") \/ Refuse(o, "closed"),
         UNCHANGED <<counters, done, shut>>
  PROVE  OpsTyped' /\ CountersTyped' /\ CountOK'
<1>1. AtWork' = AtWork
  BY DEF AtWork, SlotInv, SlotsTypeOK
<1>2. CountersTyped' /\ CountOK'
  BY <1>1 DEF SlotInv, SlotsTypeOK, CountersTyped, CountOK, counters
<1>3. OpsTyped'
  BY DEF SlotInv, SlotsTypeOK, OpsTyped, Refuse
<1> QED
  BY <1>2, <1>3

(* One that enters owns a slot, so the count stays within the limit. *)
LEMMA CountedIn ==
  ASSUME SlotInv, NEW o \in Ops, Enter(o)
  PROVE  CountersTyped' /\ CountOK'
<1>1. AtWork' = AtWork \cup {o} /\ o \notin AtWork
  BY DEF AtWork, SlotInv, SlotsTypeOK, Enter, Goto
<1>2. AtWork' \subseteq Owners(Session)
  BY <1>1 DEF AtWork, Owners, SlotOwners, Enter
<1>3. Session \in Semaphores
  BY DEF Semaphores
<1>4. Cardinality(AtWork') = Cardinality(AtWork) + 1
  BY <1>1, AtWorkFinite, FS_AddElement
<1>5. Cardinality(AtWork') <= Cardinality(Owners(Session))
  BY <1>2, <1>3, OwnersFinite, FS_Subset
<1>6. used[Session] = Cardinality(Owners(Session)) /\ used[Session] <= SlotLimit
  BY <1>3 DEF SlotInv, TokensAccounted, Size
<1>7. inFlight + 1 = Cardinality(AtWork') /\ inFlight + 1 <= SlotLimit
  <2>1. Cardinality(Owners(Session)) \in Nat /\ SlotLimit \in Nat
    BY <1>3, OwnersFinite, SlotsAssumption
  <2> QED
    BY <1>4, <1>5, <1>6, <2>1, AtWorkFinite DEF SlotInv, CountOK
<1>8. /\ inFlight' = inFlight + 1 /\ started' = started + 1
      /\ peak' = IF inFlight + 1 > peak THEN inFlight + 1 ELSE peak
  BY DEF Enter
<1>9. inFlight \in Nat /\ started \in Nat /\ peak \in Nat /\ peak <= SlotLimit
  BY DEF SlotInv, SlotsTypeOK, CountOK
<1> QED
  BY <1>7, <1>8, <1>9, SlotsAssumption DEF CountersTyped, CountOK

(* One that leaves was counted. *)
LEMMA CountedOut ==
  ASSUME SlotInv, NEW o \in Ops, CountOut(o)
  PROVE  CountersTyped' /\ CountOK'
<1>1. AtWork' = AtWork \ {o} /\ o \in AtWork
  BY DEF AtWork, SlotInv, SlotsTypeOK, CountOut, Goto
<1>2. Cardinality(AtWork') = Cardinality(AtWork) - 1
  BY <1>1, AtWorkFinite, FS_RemoveElement
<1>3. inFlight = Cardinality(AtWork) /\ peak \in Nat /\ inFlight \in Nat
      /\ inFlight <= peak /\ peak <= SlotLimit
  BY DEF SlotInv, SlotsTypeOK, CountOK
<1>4. inFlight' = inFlight - 1 /\ started' = started /\ peak' = peak
  BY DEF CountOut
<1>5. inFlight' = Cardinality(AtWork') /\ inFlight' \in Nat /\ inFlight' <= peak
  BY <1>2, <1>3, <1>4, AtWorkFinite
<1> QED
  BY <1>3, <1>4, <1>5 DEF CountersTyped, CountOK, SlotInv, SlotsTypeOK

-----------------------------------------------------------------------------
(* Where the code goes, and which tokens it has there. *)

(* An operation waits in the queue its code is at, and in no other. *)
LEMMA WaitsNowhereElse ==
  ASSUME QueueOK, NEW o \in Ops, NEW t \in Semaphores
  PROVE  /\ at[o] \notin {"limit", "slot"} => ~Waiting(t, o)
         /\ at[o] = "slot" /\ t # Session => ~Waiting(t, o)
         /\ at[o] = "limit" /\ t # CapabilityOf[o] => ~Waiting(t, o)
BY DEF QueueOK, WaitingAt

(* A capability's semaphore is not the session's. *)
LEMMA ItsLimit ==
  ASSUME NEW o \in Ops
  PROVE  /\ HasLimit(o) => CapabilityOf[o] \in Semaphores \ {Session}
         /\ ~HasLimit(o) => \A t \in Semaphores \ {Session} : CapabilityOf[o] # t
BY SlotsAssumption DEF HasLimit, Semaphores

(* Out of the slot an operation keeps its capability's token, to give it back. *)
LEMMA KeepsLimit ==
  ASSUME NEW o \in Ops, NEW p \in {"open", "ask", "slot", "reopen", "giveback"}
  PROVE  /\ OutOfSlot(o) \in Places \ {"work"}
         /\ ~Holds(Session, o, OutOfSlot(o))
         /\ \A t \in Semaphores \ {Session} :
               Holds(t, o, OutOfSlot(o)) <=> Holds(t, o, p)
         /\ OutOfSlot(o) \in {"limit", "unlimit"} => HasLimit(o)
<1>1. CASE HasLimit(o)
  BY <1>1 DEF OutOfSlot, Holds, Places
<1>2. CASE ~HasLimit(o)
  BY <1>2, ItsLimit DEF OutOfSlot, Holds, Places
<1> QED
  BY <1>1, <1>2

-----------------------------------------------------------------------------
(* One lemma per action: it keeps the invariant. *)

(* acquireCapabilityRemoteSlot *)
LEMMA StartKept ==
  ASSUME SlotInv, NEW o \in Ops, Start(o)
  PROVE  SlotInv'
<1> DEFINE s == CapabilityOf[o]
<1>0. at[o] = "idle" /\ UNCHANGED <<counters, done, shut>>
  BY DEF Start
<1>1. \A t \in Semaphores : ~Waiting(t, o) /\ ~Holds(t, o, at[o])
  BY <1>0, WaitsNowhereElse DEF SlotInv, Holds
<1>2. CASE ~HasLimit(o) /\ Goto(o, "open") /\ UNCHANGED <<semaphores, err>>
  <2>1. \A t \in Semaphores : ~Holds(t, o, "open")
    BY <1>2, ItsLimit DEF Holds
  <2>2. QueuesTyped' /\ QueueOK' /\ TokensAccounted'
    BY <1>1, <1>2, <2>1, Apart DEF Goto, Places
  <2>3. OpsTyped' /\ CountersTyped' /\ CountOK'
    BY <1>0, <1>2, Moved DEF Goto, Places
  <2> QED
    BY <2>2, <2>3, Assembled
<1>3. CASE Goto(o, "done") /\ Refuse(o, "cancelled") /\ UNCHANGED semaphores
  <2>1. \A t \in Semaphores : ~Holds(t, o, "done")
    BY DEF Holds
  <2>2. QueuesTyped' /\ QueueOK' /\ TokensAccounted'
    BY <1>1, <1>3, <2>1, Apart DEF Goto, Places
  <2>3. OpsTyped' /\ CountersTyped' /\ CountOK'
    BY <1>0, <1>3, Moved DEF Goto, Places
  <2> QED
    BY <2>2, <2>3, Assembled
<1>4. CASE HasLimit(o) /\ TakeToken(s) /\ Goto(o, "open") /\ UNCHANGED err
  <2>1. s \in Semaphores /\ s # Session
    BY <1>4, ItsLimit
  <2>2. /\ Holds(s, o, "open")
        /\ \A t \in Semaphores \ {s} : ~Holds(t, o, "open")
    BY <2>1 DEF Holds
  <2>3. QueuesTyped' /\ QueueOK' /\ TokensAccounted'
    BY <1>1, <1>4, <2>1, <2>2, Takes DEF Goto, Places
  <2>4. OpsTyped' /\ CountersTyped' /\ CountOK'
    BY <1>0, <1>4, Moved DEF Goto, Places
  <2> QED
    BY <2>3, <2>4, Assembled
<1>5. CASE HasLimit(o) /\ Enqueue(s, o) /\ Goto(o, "limit") /\ UNCHANGED err
  <2>1. s \in Semaphores /\ s # Session /\ WaitingAt(s) = "limit"
    BY <1>5, ItsLimit DEF WaitingAt
  <2>2. \A t \in Semaphores \ {s} : ~Holds(t, o, "limit")
    BY <2>1 DEF Holds
  <2>3. QueuesTyped' /\ QueueOK' /\ TokensAccounted'
    BY <1>1, <1>5, <2>1, <2>2, Waits DEF Goto
  <2>4. OpsTyped' /\ CountersTyped' /\ CountOK'
    BY <1>0, <1>5, Moved DEF Goto, Places
  <2> QED
    BY <2>3, <2>4, Assembled
<1> QED
  BY <1>2, <1>3, <1>4, <1>5 DEF Start

(* Its wait for the capability's token. *)
LEMMA AwaitLimitKept ==
  ASSUME SlotInv, NEW o \in Ops, AwaitLimit(o)
  PROVE  SlotInv'
<1> DEFINE s == CapabilityOf[o]
<1>0. at[o] = "limit" /\ UNCHANGED <<counters, done, shut>>
  BY DEF AwaitLimit
<1>1. HasLimit(o) /\ s \in Semaphores /\ s # Session
  BY <1>0, ItsLimit DEF SlotInv, QueueOK
<1>2. \A t \in Semaphores \ {s} :
         /\ ~Waiting(t, o)
         /\ ~Holds(t, o, at[o]) /\ ~Holds(t, o, "open") /\ ~Holds(t, o, "done")
  BY <1>0, <1>1, WaitsNowhereElse DEF SlotInv, Holds
<1>3. Holds(s, o, at[o]) /\ Holds(s, o, "open") /\ ~Holds(s, o, "done")
  BY <1>0, <1>1 DEF Holds
<1>4. CASE ~Waiting(s, o) /\ Goto(o, "open") /\ UNCHANGED <<semaphores, err>>
  <2>1. QueuesTyped' /\ QueueOK' /\ TokensAccounted'
    BY <1>1, <1>2, <1>3, <1>4, Apart DEF Goto, Places
  <2>2. OpsTyped' /\ CountersTyped' /\ CountOK'
    BY <1>0, <1>4, Moved DEF Goto, Places
  <2> QED
    BY <2>1, <2>2, Assembled
<1>5. CASE ~Waiting(s, o) /\ ReturnToken(s) /\ Goto(o, "done") /\ Refuse(o, "cancelled")
  <2>1. QueuesTyped' /\ QueueOK' /\ TokensAccounted'
    BY <1>1, <1>2, <1>3, <1>5, Returns DEF Goto, Places
  <2>2. OpsTyped' /\ CountersTyped' /\ CountOK'
    BY <1>0, <1>5, Moved DEF Goto, Places
  <2> QED
    BY <2>1, <2>2, Assembled
<1>6. CASE Waiting(s, o) /\ LeaveQueue(s, o) /\ Goto(o, "done") /\ Refuse(o, "cancelled")
  <2>1. QueuesTyped' /\ QueueOK' /\ TokensAccounted'
    BY <1>1, <1>2, <1>3, <1>6, Leaves DEF Goto, Places
  <2>2. OpsTyped' /\ CountersTyped' /\ CountOK'
    BY <1>0, <1>6, Moved DEF Goto, Places
  <2> QED
    BY <2>1, <2>2, Assembled
<1> QED
  BY <1>4, <1>5, <1>6 DEF AwaitLimit

(* acquireRemoteSlot, the first check. *)
LEMMA CheckOpenKept ==
  ASSUME SlotInv, NEW o \in Ops, CheckOpen(o)
  PROVE  SlotInv'
<1> DEFINE out == OutOfSlot(o)
<1>0. /\ at[o] = "open"
      /\ UNCHANGED <<semaphores, counters, done, shut>>
  BY DEF CheckOpen
<1>1. \A t \in Semaphores :
         /\ ~Waiting(t, o)
         /\ Holds(t, o, at[o]) <=> Holds(t, o, out)
         /\ Holds(t, o, at[o]) <=> Holds(t, o, "ask")
  BY <1>0, WaitsNowhereElse, KeepsLimit DEF SlotInv, Holds
<1>2. out \in Places \ {"work"} /\ (out \in {"limit", "unlimit"} => HasLimit(o))
  BY KeepsLimit
<1> HIDE DEF out
<1>3. CASE Goto(o, out) /\ Refuse(o, "closed")
  <2>1. QueuesTyped' /\ QueueOK' /\ TokensAccounted'
    BY <1>0, <1>1, <1>2, <1>3, Apart DEF Goto
  <2>2. OpsTyped' /\ CountersTyped' /\ CountOK'
    BY <1>0, <1>2, <1>3, Moved DEF Goto
  <2> QED
    BY <2>1, <2>2, Assembled
<1>4. CASE Goto(o, "ask") /\ UNCHANGED err
  <2>1. QueuesTyped' /\ QueueOK' /\ TokensAccounted'
    BY <1>0, <1>1, <1>4, Apart DEF Goto, Places
  <2>2. OpsTyped' /\ CountersTyped' /\ CountOK'
    BY <1>0, <1>4, Moved DEF Goto, Places
  <2> QED
    BY <2>1, <2>2, Assembled
<1> QED
  BY <1>3, <1>4 DEF CheckOpen, out

(* Its request for a slot. *)
LEMMA AskSlotKept ==
  ASSUME SlotInv, NEW o \in Ops, AskSlot(o)
  PROVE  SlotInv'
<1> DEFINE out == OutOfSlot(o)
<1>0. at[o] = "ask" /\ UNCHANGED <<counters, done, shut>> /\ Session \in Semaphores
  BY DEF AskSlot, Semaphores
<1>1. \A t \in Semaphores :
         /\ ~Waiting(t, o)
         /\ Holds(t, o, at[o]) <=> Holds(t, o, out)
         /\ t # Session => /\ Holds(t, o, at[o]) <=> Holds(t, o, "reopen")
                           /\ Holds(t, o, at[o]) <=> Holds(t, o, "slot")
  BY <1>0, WaitsNowhereElse, KeepsLimit DEF SlotInv, Holds
<1>2. out \in Places \ {"work"} /\ (out \in {"limit", "unlimit"} => HasLimit(o))
  BY KeepsLimit
<1>3. /\ ~Holds(Session, o, at[o])
      /\ Holds(Session, o, "reopen") /\ WaitingAt(Session) = "slot"
  BY <1>0 DEF Holds, WaitingAt
<1> HIDE DEF out
<1>4. CASE Goto(o, out) /\ Refuse(o, "cancelled") /\ UNCHANGED semaphores
  <2>1. QueuesTyped' /\ QueueOK' /\ TokensAccounted'
    BY <1>1, <1>2, <1>4, Apart DEF Goto
  <2>2. OpsTyped' /\ CountersTyped' /\ CountOK'
    BY <1>0, <1>2, <1>4, Moved DEF Goto
  <2> QED
    BY <2>1, <2>2, Assembled
<1>5. CASE TakeToken(Session) /\ Goto(o, "reopen") /\ UNCHANGED err
  <2>1. QueuesTyped' /\ QueueOK' /\ TokensAccounted'
    BY <1>0, <1>1, <1>3, <1>5, Takes DEF Goto, Places
  <2>2. OpsTyped' /\ CountersTyped' /\ CountOK'
    BY <1>0, <1>5, Moved DEF Goto, Places
  <2> QED
    BY <2>1, <2>2, Assembled
<1>6. CASE Enqueue(Session, o) /\ Goto(o, "slot") /\ UNCHANGED err
  <2>1. QueuesTyped' /\ QueueOK' /\ TokensAccounted'
    BY <1>0, <1>1, <1>3, <1>6, Waits DEF Goto
  <2>2. OpsTyped' /\ CountersTyped' /\ CountOK'
    BY <1>0, <1>6, Moved DEF Goto, Places
  <2> QED
    BY <2>1, <2>2, Assembled
<1> QED
  BY <1>4, <1>5, <1>6 DEF AskSlot, out

(* Its wait for one. *)
LEMMA AwaitSlotKept ==
  ASSUME SlotInv, NEW o \in Ops, AwaitSlot(o)
  PROVE  SlotInv'
<1> DEFINE out == OutOfSlot(o)
<1>0. at[o] = "slot" /\ UNCHANGED <<counters, done, shut>> /\ Session \in Semaphores
  BY DEF AwaitSlot, Semaphores
<1>1. \A t \in Semaphores \ {Session} :
         /\ ~Waiting(t, o)
         /\ Holds(t, o, at[o]) <=> Holds(t, o, out)
         /\ Holds(t, o, at[o]) <=> Holds(t, o, "reopen")
  BY <1>0, WaitsNowhereElse, KeepsLimit DEF SlotInv, Holds
<1>2. out \in Places \ {"work"} /\ (out \in {"limit", "unlimit"} => HasLimit(o))
  BY KeepsLimit
<1>3. /\ Holds(Session, o, at[o]) /\ Holds(Session, o, "reopen")
      /\ ~Holds(Session, o, out)
  BY <1>0, KeepsLimit DEF Holds
<1> HIDE DEF out
<1>4. CASE ~Waiting(Session, o) /\ Goto(o, "reopen") /\ UNCHANGED <<semaphores, err>>
  <2>1. QueuesTyped' /\ QueueOK' /\ TokensAccounted'
    BY <1>1, <1>3, <1>4, Apart DEF Goto, Places
  <2>2. OpsTyped' /\ CountersTyped' /\ CountOK'
    BY <1>0, <1>4, Moved DEF Goto, Places
  <2> QED
    BY <2>1, <2>2, Assembled
<1>5. CASE /\ ~Waiting(Session, o) /\ ReturnToken(Session)
           /\ Goto(o, out) /\ Refuse(o, "cancelled")
  <2>1. QueuesTyped' /\ QueueOK' /\ TokensAccounted'
    BY <1>0, <1>1, <1>2, <1>3, <1>5, Returns DEF Goto
  <2>2. OpsTyped' /\ CountersTyped' /\ CountOK'
    BY <1>0, <1>2, <1>5, Moved DEF Goto
  <2> QED
    BY <2>1, <2>2, Assembled
<1>6. CASE /\ Waiting(Session, o) /\ LeaveQueue(Session, o)
           /\ Goto(o, out) /\ Refuse(o, "cancelled")
  <2>1. QueuesTyped' /\ QueueOK' /\ TokensAccounted'
    BY <1>0, <1>1, <1>2, <1>3, <1>6, Leaves DEF Goto
  <2>2. OpsTyped' /\ CountersTyped' /\ CountOK'
    BY <1>0, <1>2, <1>6, Moved DEF Goto
  <2> QED
    BY <2>1, <2>2, Assembled
<1> QED
  BY <1>4, <1>5, <1>6 DEF AwaitSlot, out

(* The second check, after the wait. *)
LEMMA CheckOpenAgainKept ==
  ASSUME SlotInv, NEW o \in Ops, CheckOpenAgain(o)
  PROVE  SlotInv'
<1> DEFINE out == OutOfSlot(o)
<1>0. /\ at[o] = "reopen" /\ UNCHANGED <<counters, done, shut>>
      /\ Session \in Semaphores
  BY DEF CheckOpenAgain, Semaphores
<1>1. \A t \in Semaphores :
         /\ ~Waiting(t, o)
         /\ Holds(t, o, at[o]) <=> Holds(t, o, "enter")
         /\ t # Session => (Holds(t, o, at[o]) <=> Holds(t, o, out))
  BY <1>0, WaitsNowhereElse, KeepsLimit DEF SlotInv, Holds
<1>2. out \in Places \ {"work"} /\ (out \in {"limit", "unlimit"} => HasLimit(o))
  BY KeepsLimit
<1>3. Holds(Session, o, at[o]) /\ ~Holds(Session, o, out)
  BY <1>0, KeepsLimit DEF Holds
<1> HIDE DEF out
<1>4. CASE ReturnToken(Session) /\ Goto(o, out) /\ Refuse(o, "closed")
  <2>1. QueuesTyped' /\ QueueOK' /\ TokensAccounted'
    BY <1>0, <1>1, <1>2, <1>3, <1>4, Returns DEF Goto
  <2>2. OpsTyped' /\ CountersTyped' /\ CountOK'
    BY <1>0, <1>2, <1>4, Moved DEF Goto
  <2> QED
    BY <2>1, <2>2, Assembled
<1>5. CASE Goto(o, "enter") /\ UNCHANGED <<semaphores, err>>
  <2>1. QueuesTyped' /\ QueueOK' /\ TokensAccounted'
    BY <1>1, <1>5, Apart DEF Goto, Places
  <2>2. OpsTyped' /\ CountersTyped' /\ CountOK'
    BY <1>0, <1>5, Moved DEF Goto, Places
  <2> QED
    BY <2>1, <2>2, Assembled
<1> QED
  BY <1>4, <1>5 DEF CheckOpenAgain, RefuseSlot, out

(* Counted in. *)
LEMMA EnterKept ==
  ASSUME SlotInv, NEW o \in Ops, Enter(o)
  PROVE  SlotInv'
<1>0. /\ at[o] = "enter" /\ at' = [at EXCEPT ![o] = "work"]
      /\ UNCHANGED <<semaphores, err, done, shut>>
  BY DEF Enter, Goto
<1>1. \A t \in Semaphores :
         ~Waiting(t, o) /\ (Holds(t, o, at[o]) <=> Holds(t, o, "work"))
  BY <1>0, WaitsNowhereElse DEF SlotInv, Holds
<1>2. QueuesTyped' /\ QueueOK' /\ TokensAccounted'
  BY <1>0, <1>1, Apart DEF Places
<1>3. OpsTyped'
  BY <1>0 DEF SlotInv, SlotsTypeOK, OpsTyped, Places
<1> QED
  BY <1>2, <1>3, CountedIn, Assembled

(* The release function. *)
LEMMA ReleaseKept ==
  ASSUME SlotInv, NEW o \in Ops, Release(o)
  PROVE  SlotInv'
<1>1. CASE CountOut(o)
  <2>0. /\ at[o] = "work" /\ at' = [at EXCEPT ![o] = "giveback"]
        /\ UNCHANGED <<semaphores, err, done, shut>>
    BY <1>1 DEF CountOut, Goto
  <2>1. \A t \in Semaphores :
           ~Waiting(t, o) /\ (Holds(t, o, at[o]) <=> Holds(t, o, "giveback"))
    BY <2>0, WaitsNowhereElse DEF SlotInv, Holds
  <2>2. QueuesTyped' /\ QueueOK' /\ TokensAccounted'
    BY <2>0, <2>1, Apart DEF Places
  <2>3. OpsTyped'
    BY <2>0 DEF SlotInv, SlotsTypeOK, OpsTyped, Places
  <2> QED
    BY <1>1, <2>2, <2>3, CountedOut, Assembled
<1>2. CASE GiveBack(o)
  <2> DEFINE out == OutOfSlot(o)
  <2>0. /\ at[o] = "giveback" /\ at' = [at EXCEPT ![o] = out]
        /\ ReturnToken(Session) /\ UNCHANGED <<counters, err, done, shut>>
        /\ Session \in Semaphores
    BY <1>2 DEF GiveBack, Goto, Semaphores
  <2>1. \A t \in Semaphores :
           /\ ~Waiting(t, o)
           /\ t # Session => (Holds(t, o, at[o]) <=> Holds(t, o, out))
    BY <2>0, WaitsNowhereElse, KeepsLimit DEF SlotInv
  <2>2. Holds(Session, o, at[o]) /\ ~Holds(Session, o, out)
    BY <2>0, KeepsLimit DEF Holds
  <2>3. out \in Places \ {"work"} /\ (out \in {"limit", "unlimit"} => HasLimit(o))
    BY KeepsLimit
  <2> HIDE DEF out
  <2>4. QueuesTyped' /\ QueueOK' /\ TokensAccounted'
    BY <2>0, <2>1, <2>2, <2>3, Returns
  <2>5. OpsTyped' /\ CountersTyped' /\ CountOK'
    BY <2>0, <2>3, Moved
  <2> QED
    BY <2>4, <2>5, Assembled
<1> QED
  BY <1>1, <1>2 DEF Release

(* The capability's token goes back last. *)
LEMMA UnlimitKept ==
  ASSUME SlotInv, NEW o \in Ops, Unlimit(o)
  PROVE  SlotInv'
<1> DEFINE s == CapabilityOf[o]
<1>0. /\ at[o] = "unlimit" /\ at' = [at EXCEPT ![o] = "done"]
      /\ ReturnToken(s) /\ UNCHANGED <<counters, err, done, shut>>
  BY DEF Unlimit, Goto
<1>1. s \in Semaphores /\ s # Session
  BY <1>0, ItsLimit DEF SlotInv, QueueOK
<1>2. \A t \in Semaphores : ~Waiting(t, o) /\ ~Holds(t, o, "done")
  BY <1>0, WaitsNowhereElse DEF SlotInv, Holds
<1>3. Holds(s, o, at[o]) /\ \A t \in Semaphores \ {s} : ~Holds(t, o, at[o])
  BY <1>0, <1>1 DEF Holds
<1>4. QueuesTyped' /\ QueueOK' /\ TokensAccounted'
  BY <1>0, <1>1, <1>2, <1>3, Returns DEF Places
<1>5. OpsTyped' /\ CountersTyped' /\ CountOK'
  BY <1>0, Moved DEF Places
<1> QED
  BY <1>4, <1>5, Assembled

(* Cancelling, closing and standing still: no operation moves. *)
LEMMA StillKept ==
  ASSUME SlotInv, UNCHANGED <<semaphores, counters, at, err>>,
         done' \in [Ops -> BOOLEAN], shut' \in BOOLEAN
  PROVE  SlotInv'
<1>1. QueuesTyped' /\ OpsTyped' /\ CountersTyped'
  BY DEF SlotInv, SlotsTypeOK, QueuesTyped, OpsTyped, CountersTyped,
         semaphores, counters
<1>2. QueueOK'
  BY DEF SlotInv, QueueOK, Waiting, HasLimit, semaphores
<1>3. \A s \in Semaphores : Owners(s)' = Owners(s)
  BY DEF Owners, SlotOwners, LimitOwners, Waiting, semaphores
<1>4. TokensAccounted'
  BY <1>3 DEF SlotInv, TokensAccounted, semaphores
<1>5. AtWork' = AtWork
  BY DEF AtWork
<1>6. CountOK'
  BY <1>5 DEF SlotInv, CountOK, counters
<1> QED
  BY <1>1, <1>2, <1>4, <1>6, Assembled

-----------------------------------------------------------------------------
(* The theorems. *)

(* The invariant holds at first. *)
LEMMA SlotsInitially == SlotsInit => SlotInv
<1> SUFFICES ASSUME SlotsInit PROVE SlotInv
  OBVIOUS
<1>1. SlotsTypeOK
  <2>1. <<>> \in Seq(Ops)
    OBVIOUS
  <2>2. queue \in [Semaphores -> Seq(Ops)]
    BY <2>1 DEF SlotsInit
  <2> QED
    BY <2>2 DEF SlotsInit, SlotsTypeOK, Places
<1>2. \A s \in Semaphores : ToSet(queue[s]) = {} /\ NoRepeat(queue[s])
  BY DEF SlotsInit, ToSet, NoRepeat
<1>3. QueueOK
  BY <1>2 DEF SlotsInit, QueueOK, Waiting
<1>4. \A s \in Semaphores : Owners(s) = {}
  BY DEF SlotsInit, Owners, SlotOwners, LimitOwners
<1>5. TokensAccounted
  <2>1. Cardinality({}) = 0
    BY FS_EmptySet
  <2>2. \A s \in Semaphores : used[s] = 0
    BY DEF SlotsInit
  <2>3. \A s \in Semaphores : 0 <= Size(s)
    BY SizeType
  <2> QED
    BY <1>4, <2>1, <2>2, <2>3 DEF TokensAccounted
<1>6. AtWork = {}
  BY DEF SlotsInit, AtWork
<1>7. CountOK
  BY <1>6, FS_EmptySet, SlotsAssumption DEF SlotsInit, CountOK
<1> QED
  BY <1>1, <1>3, <1>5, <1>7 DEF SlotInv

(* Every step keeps it. *)
LEMMA SlotsInductive == SlotInv /\ [SlotsNext]_slotVars => SlotInv'
<1> SUFFICES ASSUME SlotInv, [SlotsNext]_slotVars PROVE SlotInv'
  OBVIOUS
<1>0. done \in [Ops -> BOOLEAN] /\ shut \in BOOLEAN
  BY DEF SlotInv, SlotsTypeOK
<1>1. ASSUME NEW o \in Ops, Start(o) PROVE SlotInv'
  BY <1>1, StartKept
<1>2. ASSUME NEW o \in Ops, OpStep(o) PROVE SlotInv'
  BY <1>2, AwaitLimitKept, CheckOpenKept, AskSlotKept, AwaitSlotKept,
     CheckOpenAgainKept, EnterKept, ReleaseKept, UnlimitKept
  DEF OpStep, Acquiring
<1>3. ASSUME NEW o \in Ops, CancelOp(o) PROVE SlotInv'
  BY <1>0, <1>3, StillKept DEF CancelOp
<1>4. CASE Shut
  BY <1>0, <1>4, StillKept DEF Shut
<1>5. CASE UNCHANGED slotVars
  BY <1>0, <1>5, StillKept DEF slotVars
<1> QED
  BY <1>1, <1>2, <1>3, <1>4, <1>5 DEF SlotsNext

(* So it always holds. *)
LEMMA SlotsInvariant == SlotsSpec => []SlotInv
BY SlotsInitially, SlotsInductive, PTL DEF SlotsSpec

(* Type correctness: the variables of the slots keep their types on every    *)
(* path of acquireCapabilityRemoteSlot and of the release function.          *)
THEOREM SlotsTypeCorrect == SlotsSpec => []SlotsTypeOK
<1>1. SlotInv => SlotsTypeOK
  BY DEF SlotInv
<1> QED
  BY <1>1, SlotsInvariant, PTL

(* No token is lost and none is invented, on any path through                *)
(* acquireCapabilityRemoteSlot and the release function, for any limits.     *)
THEOREM NoTokenLost == SlotsSpec => []TokensAccounted
<1>1. SlotInv => TokensAccounted
  BY DEF SlotInv
<1> QED
  BY <1>1, SlotsInvariant, PTL

(* PeakRemoteOperations never exceeds MaxConcurrency (session.go:478-492).   *)
THEOREM PeakBounded == SlotsSpec => []PeakWithinLimit
<1>1. SlotInv => PeakWithinLimit
  BY DEF SlotInv, CountOK, PeakWithinLimit
<1> QED
  BY <1>1, SlotsInvariant, PTL

(* One capability call never has more operations at work than its own limit, *)
(* nor than the session's.                                                   *)
THEOREM SmallerLimit == SlotsSpec => []SmallerLimitHolds
<1>1. ASSUME SlotInv, NEW s \in Capabilities
      PROVE  /\ Cardinality(Working(s)) <= CapabilityLimit[s]
             /\ Cardinality(Working(s)) <= SlotLimit
  <2>1. s \in Semaphores /\ s # Session /\ Session \in Semaphores
    BY SlotsAssumption DEF Semaphores
  <2>2. Working(s) \subseteq Owners(s) /\ Working(s) \subseteq Owners(Session)
    BY <2>1 DEF Working, Owners, SlotOwners, LimitOwners
  <2>3. /\ Cardinality(Working(s)) <= Cardinality(Owners(s))
        /\ Cardinality(Working(s)) <= Cardinality(Owners(Session))
        /\ Cardinality(Working(s)) \in Nat
    BY <2>1, <2>2, OwnersFinite, FS_Subset, FS_CardinalityType
  <2>4. /\ Cardinality(Owners(s)) <= CapabilityLimit[s]
        /\ Cardinality(Owners(Session)) <= SlotLimit
    BY <1>1, <2>1 DEF SlotInv, TokensAccounted, Size
  <2>5. /\ Cardinality(Owners(s)) \in Nat /\ Cardinality(Owners(Session)) \in Nat
        /\ CapabilityLimit[s] \in Nat /\ SlotLimit \in Nat
    BY <2>1, OwnersFinite, SlotsAssumption
  <2> QED
    BY <2>3, <2>4, <2>5
<1>2. SlotInv => SmallerLimitHolds
  BY <1>1 DEF SmallerLimitHolds
<1> QED
  BY <1>2, SlotsInvariant, PTL

(* Where an operation can still be after Close found it waiting. *)
TurnedAway(o) == shut /\ at[o] \in {"open", "slot", "reopen", "unlimit", "done"}

(* No step brings such an operation to work: each check of the session that  *)
(* is still ahead of it (session.go:464, :473) refuses it.                   *)
LEMMA StaysAway ==
  ASSUME SlotInv, NEW o \in Ops, TurnedAway(o), [SlotsNext]_slotVars
  PROVE  TurnedAway(o)'
<1>0. at \in [Ops -> Places] /\ OutOfSlot(o) \in {"unlimit", "done"}
  BY DEF SlotInv, SlotsTypeOK, OutOfSlot
<1>1. shut'
  BY DEF TurnedAway, SlotsNext, Start, OpStep, Acquiring, AwaitLimit, CheckOpen, AskSlot,
         AwaitSlot, CheckOpenAgain, Enter, Release, CountOut, GiveBack, Unlimit,
         CancelOp, Shut, slotVars
<1>2. ASSUME NEW b \in Ops, b # o, Start(b) \/ OpStep(b) PROVE at'[o] = at[o]
  BY <1>0, <1>2 DEF Start, OpStep, Acquiring, AwaitLimit, CheckOpen, AskSlot, AwaitSlot,
         CheckOpenAgain, RefuseSlot, Enter, Release, CountOut, GiveBack, Unlimit, Goto
<1>3. ASSUME Start(o) \/ OpStep(o) PROVE at'[o] \in {"reopen", "unlimit", "done"}
  BY <1>0, <1>3 DEF TurnedAway, Start, OpStep, Acquiring, AwaitLimit, CheckOpen, AskSlot,
         AwaitSlot, CheckOpenAgain, RefuseSlot, StillOpen, Enter, Release, CountOut,
         GiveBack, Unlimit, Goto
<1>4. ASSUME \/ \E b \in Ops : CancelOp(b)
             \/ Shut
             \/ UNCHANGED slotVars
      PROVE  at' = at
  BY <1>4 DEF CancelOp, Shut, slotVars
<1>5. at'[o] \in {"open", "slot", "reopen", "unlimit", "done"}
  BY <1>2, <1>3, <1>4 DEF TurnedAway, SlotsNext
<1> QED
  BY <1>1, <1>5 DEF TurnedAway

(* An operation that waits when the session is closed never reaches the      *)
(* server, although its token may still arrive (session.go:470-476).         *)
THEOREM ClosedNeverWorks == SlotsSpec => ClosedWhileWaiting
<1> SUFFICES ASSUME NEW o \in Ops
             PROVE  SlotsSpec => [](at[o] \in {"open", "slot"} /\ shut => [](at[o] # "work"))
  BY DEF ClosedWhileWaiting
<1>1. at[o] \in {"open", "slot"} /\ shut => TurnedAway(o)
  BY DEF TurnedAway
<1>2. TurnedAway(o) => at[o] # "work"
  BY DEF TurnedAway
<1>3. SlotInv /\ TurnedAway(o) /\ [SlotsNext]_slotVars => TurnedAway(o)'
  BY StaysAway
<1> QED
  BY <1>1, <1>2, <1>3, SlotsInvariant, PTL DEF SlotsSpec
=============================================================================
