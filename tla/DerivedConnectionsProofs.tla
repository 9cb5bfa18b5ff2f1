---------------------- MODULE DerivedConnectionsProofs ------------------------
(***************************************************************************)
(* Proofs about DerivedConnections, for every finite set of calls, every   *)
(* set of keys and any number of goroutines calling Close.                 *)
(***************************************************************************)
EXTENDS DerivedConnections, FiniteSetTheorems, TLAPS

(***************************************************************************)
(* The inductive invariant.  OwnedOnce alone says nothing of where a dial  *)
(* has got to; what makes it inductive is that the leader of a running     *)
(* dial has no connection yet (a call leads once), that a key being dialled *)
(* has nothing in the pool, and that Close takes connections out exactly   *)
(* when it marks the session closed.                                       *)
(***************************************************************************)

(* What a result of key k may say. *)
GoodAnswer(k, a) ==
    /\ a.err = "none" => a = NoAnswer
    /\ a.err = "closed" => closed
    /\ a.err # "ok" => a.conn = NoConn
    /\ a.err = "ok" =>
          /\ a.conn \in Calls
          /\ KeyOf[a.conn] = k
          /\ life[a.conn] \in {"open", "closed"}

AnswersOK ==
    /\ \A c \in Calls : GoodAnswer(KeyOf[c], result[c])
    /\ \A k \in Keys : GoodAnswer(k, value[k])
    /\ \A c \in Calls : pc[c] = "count" => result[c].err = "ok"

(* The function running for key k and the call it was started by. *)
FlightOK ==
    \A k \in Keys :
        /\ phase[k] # "none" =>
              /\ leader[k] \in Calls
              /\ KeyOf[leader[k]] = k
              /\ pc[leader[k]] \in {"wait", "count", "done"}
        /\ phase[k] \in {"check", "dial"} => life[leader[k]] = "unborn"
        /\ phase[k] \in {"publish", "discard"} => life[leader[k]] = "open"
        /\ phase[k] \in {"dial", "publish"} => connections[k] = NoConn
        /\ phase[k] = "discard" => closed

PoolOK ==
    \A k \in Keys :
        /\ connections[k] # NoConn => KeyOf[connections[k]] = k
        /\ closed => connections[k] = NoConn

LifeOK ==
    \A x \in Calls :
        /\ pc[x] \in {"idle", "lookup", "join"} => life[x] = "unborn"
        /\ life[x] = "closed" => closed

CloseOK ==
    /\ closed <=> once # "fresh"
    /\ toClose # {} => closed
    /\ once = "done" => toClose = {}
    /\ \A d \in Closers :
          /\ closer[d] = "closing" => once = "running"
          /\ closer[d] = "returned" => once = "done"
          /\ \A e \in Closers : closer[d] = "closing" /\ closer[e] = "closing" => d = e

IInv ==
    /\ TypeOK
    /\ AnswersOK
    /\ FlightOK
    /\ PoolOK
    /\ LifeOK
    /\ CloseOK
    /\ OwnedOnce

-----------------------------------------------------------------------------
(* The results a flight or a call can hold, and what their fields are. *)
LEMMA AnswerTypes ==
    /\ NoAnswer \in Answers /\ NoAnswer.err = "none" /\ NoAnswer.conn = NoConn
    /\ \A e \in Errors :
          /\ Failed(e) \in Answers
          /\ Failed(e).err = e /\ Failed(e).conn = NoConn
    /\ \A x \in Calls \cup {NoConn} :
          /\ Cached(x) \in Answers
          /\ Cached(x).err = "ok" /\ Cached(x).conn = x
          /\ Dialled(x) \in Answers
          /\ Dialled(x).err = "ok" /\ Dialled(x).conn = x
    /\ \A a \in Answers : a.conn \in Calls \cup {NoConn}
    /\ Errors = {"closed", "cancelled", "remote"}
BY DEF NoAnswer, Failed, Cached, Dialled, Answers, Errors, NoConn

LEMMA Initially == Init => IInv
<1> SUFFICES ASSUME Init PROVE IInv
  OBVIOUS
<1> USE PoolAssumption, AnswerTypes DEF Init, NoConn
<1>1. TypeOK
  BY DEF TypeOK
<1>2. AnswersOK
  BY DEF AnswersOK, GoodAnswer
<1>3. FlightOK /\ PoolOK /\ LifeOK /\ CloseOK
  BY DEF FlightOK, PoolOK, LifeOK, CloseOK
<1>4. OwnedOnce
  BY DEF OwnedOnce, InPool, InFlight, InClose
<1> QED
  BY <1>1, <1>2, <1>3, <1>4 DEF IInv

(* Every step keeps the invariant: one step of the proof per action, and     *)
(* under it one per conjunct the action touches.                             *)
LEMMA InductiveStep == IInv /\ [Next]_vars => IInv'
<1> SUFFICES ASSUME IInv, [Next]_vars PROVE IInv'
  OBVIOUS
<1> USE PoolAssumption
        DEF IInv, NoConn, vars, pool, stats, callVars, flight, closing
<1>1. ASSUME NEW c \in Calls, Begin(c) PROVE IInv'
  <2>1. /\ Failed("closed") \in Answers
        /\ Failed("closed").err = "closed" /\ Failed("closed").conn = NoConn
    BY AnswerTypes
  <2>2. TypeOK'
    BY <1>1, <2>1 DEF Begin, Return, TypeOK
  <2>3. AnswersOK'
    <3>1. \A x \in Calls : GoodAnswer(KeyOf[x], result'[x])
      BY <1>1, <2>1 DEF Begin, Return, AnswersOK, GoodAnswer, TypeOK
    <3>2. \A x \in Calls : pc'[x] = "count" => result'[x].err = "ok"
      BY <1>1 DEF Begin, Return, AnswersOK, TypeOK
    <3> QED
      BY <1>1, <3>1, <3>2 DEF Begin, AnswersOK, GoodAnswer
  <2>4. FlightOK'
    BY <1>1 DEF Begin, Return, FlightOK, TypeOK
  <2>5. LifeOK'
    BY <1>1 DEF Begin, Return, LifeOK, TypeOK
  <2> QED
    BY <1>1, <2>1, <2>2, <2>3, <2>4, <2>5 DEF Begin, Return, PoolOK, CloseOK,
           OwnedOnce, InPool, InFlight, InClose
<1>2. ASSUME NEW c \in Calls, Cancel(c) PROVE IInv'
  <2>1. TypeOK'
    BY <1>2 DEF Cancel, TypeOK
  <2> QED
    BY <1>2, <2>1 DEF Cancel, AnswersOK, GoodAnswer, FlightOK, PoolOK, LifeOK,
           CloseOK, OwnedOnce, InPool, InFlight, InClose
<1>3. ASSUME NEW c \in Calls, Lookup(c) PROVE IInv'
  <2>1. /\ Cached(connections[KeyOf[c]]) \in Answers
        /\ Cached(connections[KeyOf[c]]).err = "ok"
        /\ Cached(connections[KeyOf[c]]).conn = connections[KeyOf[c]]
    BY AnswerTypes DEF TypeOK
  <2>2. TypeOK'
    BY <1>3, <2>1 DEF Lookup, Return, TypeOK
  <2>3. AnswersOK'
    <3>1. \A x \in Calls : GoodAnswer(KeyOf[x], result'[x])
      BY <1>3, <2>1 DEF Lookup, Return, AnswersOK, GoodAnswer, TypeOK, PoolOK,
             OwnedOnce, InPool
    <3>2. \A x \in Calls : pc'[x] = "count" => result'[x].err = "ok"
      BY <1>3 DEF Lookup, Return, AnswersOK, TypeOK
    <3> QED
      BY <1>3, <3>1, <3>2 DEF Lookup, AnswersOK, GoodAnswer
  <2>4. FlightOK'
    BY <1>3 DEF Lookup, Return, FlightOK, TypeOK
  <2>5. LifeOK'
    BY <1>3 DEF Lookup, Return, LifeOK, TypeOK
  <2> QED
    BY <1>3, <2>1, <2>2, <2>3, <2>4, <2>5 DEF Lookup, Return, PoolOK, CloseOK,
           OwnedOnce, InPool, InFlight, InClose
<1>4. ASSUME NEW c \in Calls, Join(c) PROVE IInv'
  <2>1. TypeOK'
    BY <1>4 DEF Join, TypeOK
  <2>2. AnswersOK'
    BY <1>4 DEF Join, AnswersOK, GoodAnswer, TypeOK
  <2>3. FlightOK'
    BY <1>4 DEF Join, FlightOK, TypeOK, LifeOK
  <2>4. LifeOK'
    BY <1>4 DEF Join, LifeOK, TypeOK
  <2>5. OwnedOnce'
    BY <1>4 DEF Join, OwnedOnce, InPool, InFlight, InClose, TypeOK, FlightOK
  <2> QED
    BY <1>4, <2>1, <2>2, <2>3, <2>4, <2>5 DEF Join, PoolOK, CloseOK
<1>5. ASSUME NEW c \in Calls, Receive(c) PROVE IInv'
  <2>1. TypeOK'
    <3>1. result[c].err = "ok" => result[c].conn \in Calls
      BY DEF AnswersOK, GoodAnswer
    <3>2. pc' \in [Calls -> {"idle", "lookup", "join", "wait", "count", "done"}]
      BY <1>5 DEF Receive, TypeOK
    <3>3. delivered' \subseteq Calls
      BY <1>5, <3>1 DEF Receive, TypeOK
    <3> QED
      BY <1>5, <3>2, <3>3 DEF Receive, TypeOK
  <2>2. AnswersOK'
    BY <1>5 DEF Receive, AnswersOK, GoodAnswer, TypeOK
  <2>3. FlightOK'
    BY <1>5 DEF Receive, FirstDelivery, FlightOK, TypeOK
  <2>4. LifeOK'
    BY <1>5 DEF Receive, FirstDelivery, LifeOK, TypeOK
  <2> QED
    BY <1>5, <2>1, <2>2, <2>3, <2>4 DEF Receive, FirstDelivery, PoolOK,
           CloseOK, OwnedOnce, InPool, InFlight, InClose
<1>6. ASSUME NEW c \in Calls, CountHit(c) PROVE IInv'
  <2>1. TypeOK'
    BY <1>6 DEF CountHit, TypeOK
  <2>2. AnswersOK'
    BY <1>6 DEF CountHit, AnswersOK, GoodAnswer, TypeOK
  <2>3. FlightOK'
    BY <1>6 DEF CountHit, FlightOK, TypeOK
  <2>4. LifeOK'
    BY <1>6 DEF CountHit, LifeOK, TypeOK
  <2> QED
    BY <1>6, <2>1, <2>2, <2>3, <2>4 DEF CountHit, PoolOK, CloseOK, OwnedOnce,
           InPool, InFlight, InClose
<1>7. ASSUME NEW c \in Calls, Abandon(c) PROVE IInv'
  <2>0. /\ Failed("cancelled") \in Answers
        /\ Failed("cancelled").err = "cancelled"
        /\ Failed("cancelled").conn = NoConn
    BY AnswerTypes
  <2>1. TypeOK'
    BY <1>7, <2>0 DEF Abandon, Return, TypeOK
  <2>2. AnswersOK'
    BY <1>7, <2>0 DEF Abandon, Return, AnswersOK, GoodAnswer, TypeOK
  <2>3. FlightOK'
    BY <1>7 DEF Abandon, Return, FlightOK, TypeOK
  <2>4. LifeOK'
    BY <1>7 DEF Abandon, Return, LifeOK, TypeOK
  <2> QED
    BY <1>7, <2>1, <2>2, <2>3, <2>4 DEF Abandon, Return, PoolOK, CloseOK,
           OwnedOnce, InPool, InFlight, InClose
<1>8. ASSUME NEW k \in Keys, Recheck(k) PROVE IInv'
  <2>1. TypeOK'
    BY <1>8, AnswerTypes DEF Recheck, FilledMeanwhile, Settle, Advance, TypeOK
  <2>2. AnswersOK'
    BY <1>8, AnswerTypes DEF Recheck, FilledMeanwhile, Settle, Advance,
           AnswersOK, GoodAnswer, TypeOK, PoolOK, OwnedOnce, InPool, InFlight,
           InClose
  <2>3. FlightOK'
    BY <1>8 DEF Recheck, FilledMeanwhile, Settle, Advance, FlightOK, TypeOK
  <2>4. OwnedOnce'
    BY <1>8 DEF Recheck, FilledMeanwhile, Settle, Advance, OwnedOnce, InPool,
           InFlight, InClose, TypeOK
  <2> QED
    BY <1>8, <2>1, <2>2, <2>3, <2>4 DEF Recheck, FilledMeanwhile, Settle,
           Advance, PoolOK, LifeOK, CloseOK
<1>9. ASSUME NEW k \in Keys, DialOk(k) PROVE IInv'
  <2>1. TypeOK'
    BY <1>9 DEF DialOk, Advance, TypeOK, FlightOK
  <2>2. AnswersOK'
    BY <1>9 DEF DialOk, Advance, AnswersOK, GoodAnswer, TypeOK, FlightOK
  <2>3. FlightOK'
    BY <1>9 DEF DialOk, Advance, FlightOK, TypeOK
  <2>4. LifeOK'
    BY <1>9 DEF DialOk, Advance, LifeOK, TypeOK, FlightOK
  <2>5. OwnedOnce'
    BY <1>9 DEF DialOk, Advance, OwnedOnce, InPool, InFlight, InClose, TypeOK,
           FlightOK, PoolOK
  <2> QED
    BY <1>9, <2>1, <2>2, <2>3, <2>4, <2>5 DEF DialOk, Advance, PoolOK, CloseOK
<1>10. ASSUME NEW k \in Keys, DialErr(k) PROVE IInv'
  <2>0. PICK e \in {"remote", "cancelled"} :
           /\ failures' = failures + 1
           /\ Settle(k, Failed(e))
           /\ UNCHANGED <<pool, hits, opened, callVars, ctxDone, life, closing>>
    BY <1>10 DEF DialErr
  <2>5. Failed(e) \in Answers /\ Failed(e).err = e /\ Failed(e).conn = NoConn
    BY AnswerTypes DEF Errors
  <2>1. TypeOK'
    BY <2>0, <2>5 DEF Settle, TypeOK
  <2>2. AnswersOK'
    BY <2>0, <2>5 DEF Settle, AnswersOK, GoodAnswer, TypeOK
  <2>3. FlightOK'
    BY <1>10 DEF DialErr, Settle, FlightOK, TypeOK
  <2>4. OwnedOnce'
    BY <1>10 DEF DialErr, Settle, OwnedOnce, InPool, InFlight, InClose, TypeOK
  <2> QED
    BY <1>10, <2>1, <2>2, <2>3, <2>4 DEF DialErr, Settle, PoolOK, LifeOK,
           CloseOK
<1>11. ASSUME NEW k \in Keys, Publish(k) PROVE IInv'
  <2>1. /\ Dialled(leader[k]) \in Answers
        /\ Dialled(leader[k]).err = "ok" /\ Dialled(leader[k]).conn = leader[k]
    BY AnswerTypes DEF TypeOK
  <2>2. TypeOK'
    BY <1>11, <2>1 DEF Publish, TooLate, Settle, Advance, TypeOK, FlightOK
  <2>3. AnswersOK'
    BY <1>11, <2>1 DEF Publish, TooLate, Settle, Advance, AnswersOK,
           GoodAnswer, TypeOK, FlightOK
  <2>4. FlightOK'
    BY <1>11 DEF Publish, TooLate, Settle, Advance, FlightOK, TypeOK
  <2>5. PoolOK'
    BY <1>11 DEF Publish, TooLate, Settle, Advance, PoolOK, TypeOK, FlightOK
  <2>6. OwnedOnce'
    BY <1>11 DEF Publish, TooLate, Settle, Advance, OwnedOnce, InPool,
           InFlight, InClose, TypeOK, FlightOK, PoolOK, CloseOK
  <2> QED
    BY <1>11, <2>1, <2>2, <2>3, <2>4, <2>5, <2>6 DEF Publish, TooLate, Settle,
           Advance, LifeOK, CloseOK
<1>12. ASSUME NEW k \in Keys, Discard(k) PROVE IInv'
  <2>0. /\ Failed("closed") \in Answers
        /\ Failed("closed").err = "closed" /\ Failed("closed").conn = NoConn
    BY AnswerTypes
  <2>1. TypeOK'
    BY <1>12, <2>0 DEF Discard, Settle, TypeOK
  <2>2. AnswersOK'
    BY <1>12, <2>0 DEF Discard, Settle, AnswersOK, GoodAnswer, TypeOK,
           FlightOK
  <2>3. FlightOK'
    BY <1>12 DEF Discard, Settle, FlightOK, TypeOK
  <2>4. LifeOK'
    BY <1>12 DEF Discard, Settle, LifeOK, TypeOK, FlightOK
  <2>5. OwnedOnce'
    BY <1>12 DEF Discard, Settle, OwnedOnce, InPool, InFlight, InClose, TypeOK,
           FlightOK
  <2> QED
    BY <1>12, <2>1, <2>2, <2>3, <2>4, <2>5 DEF Discard, Settle, PoolOK,
           CloseOK
<1>13. ASSUME NEW k \in Keys, Finish(k) PROVE IInv'
  <2>0. NoAnswer \in Answers /\ NoAnswer.err = "none" /\ NoAnswer.conn = NoConn
    BY AnswerTypes
  <2>1. TypeOK'
    BY <1>13, <2>0 DEF Finish, Waiters, TypeOK
  <2>2. AnswersOK'
    BY <1>13, <2>0 DEF Finish, Waiters, AnswersOK, GoodAnswer, TypeOK
  <2>3. FlightOK'
    BY <1>13 DEF Finish, Waiters, FlightOK, TypeOK
  <2>4. OwnedOnce'
    BY <1>13 DEF Finish, Waiters, OwnedOnce, InPool, InFlight, InClose, TypeOK
  <2> QED
    BY <1>13, <2>1, <2>2, <2>3, <2>4 DEF Finish, Waiters, PoolOK, LifeOK,
           CloseOK
<1>14. ASSUME NEW d \in Closers, CallClose(d) PROVE IInv'
  <2>1. TypeOK'
    BY <1>14 DEF CallClose, TypeOK
  <2>2. CloseOK'
    BY <1>14 DEF CallClose, CloseOK, TypeOK
  <2> QED
    BY <1>14, <2>1, <2>2 DEF CallClose, AnswersOK, GoodAnswer, FlightOK,
           PoolOK, LifeOK, OwnedOnce, InPool, InFlight, InClose
<1>15. ASSUME NEW d \in Closers, CloseBegin(d) PROVE IInv'
  <2>1. TypeOK'
    BY <1>15 DEF CloseBegin, EnterOnce, Pooled, TypeOK
  <2>2. AnswersOK'
    BY <1>15 DEF CloseBegin, EnterOnce, Pooled, AnswersOK, GoodAnswer, TypeOK
  <2>3. FlightOK'
    BY <1>15 DEF CloseBegin, EnterOnce, Pooled, FlightOK, TypeOK
  <2>4. PoolOK'
    BY <1>15 DEF CloseBegin, EnterOnce, Pooled, PoolOK, TypeOK
  <2>5. LifeOK'
    BY <1>15 DEF CloseBegin, EnterOnce, Pooled, LifeOK, TypeOK
  <2>6. CloseOK'
    BY <1>15 DEF CloseBegin, EnterOnce, Pooled, CloseOK, TypeOK
  <2>7. OwnedOnce'
    BY <1>15 DEF CloseBegin, EnterOnce, Pooled, OwnedOnce, InPool, InFlight,
           InClose, TypeOK, FlightOK, PoolOK, CloseOK
  <2> QED
    BY <1>15, <2>1, <2>2, <2>3, <2>4, <2>5, <2>6, <2>7 DEF CloseBegin,
           EnterOnce, Pooled
<1>16. ASSUME NEW d \in Closers, CloseOne(d) PROVE IInv'
  <2>1. TypeOK'
    BY <1>16 DEF CloseOne, TypeOK
  <2>2. AnswersOK'
    BY <1>16 DEF CloseOne, AnswersOK, GoodAnswer, TypeOK, OwnedOnce, InPool,
           InFlight, InClose
  <2>3. FlightOK'
    BY <1>16 DEF CloseOne, FlightOK, TypeOK, OwnedOnce, InPool, InFlight,
           InClose
  <2>4. LifeOK'
    BY <1>16 DEF CloseOne, LifeOK, TypeOK, CloseOK, OwnedOnce, InPool,
           InFlight, InClose
  <2>5. CloseOK'
    BY <1>16 DEF CloseOne, CloseOK, TypeOK
  <2>6. OwnedOnce'
    BY <1>16 DEF CloseOne, OwnedOnce, InPool, InFlight, InClose, TypeOK
  <2> QED
    BY <1>16, <2>1, <2>2, <2>3, <2>4, <2>5, <2>6 DEF CloseOne, PoolOK
<1>17. ASSUME NEW d \in Closers, CloseEnd(d) PROVE IInv'
  <2>1. TypeOK'
    BY <1>17 DEF CloseEnd, TypeOK
  <2>2. CloseOK'
    BY <1>17 DEF CloseEnd, CloseOK, TypeOK
  <2> QED
    BY <1>17, <2>1, <2>2 DEF CloseEnd, AnswersOK, GoodAnswer, FlightOK, PoolOK,
           LifeOK, OwnedOnce, InPool, InFlight, InClose
<1>18. ASSUME NEW d \in Closers, CloseRepeat(d) PROVE IInv'
  <2>1. TypeOK'
    BY <1>18 DEF CloseRepeat, OnceDone, TypeOK
  <2>2. CloseOK'
    BY <1>18 DEF CloseRepeat, OnceDone, CloseOK, TypeOK
  <2> QED
    BY <1>18, <2>1, <2>2 DEF CloseRepeat, OnceDone, AnswersOK, GoodAnswer,
           FlightOK, PoolOK, LifeOK, OwnedOnce, InPool, InFlight, InClose
<1>19. CASE UNCHANGED vars
  BY <1>19 DEF TypeOK, AnswersOK, GoodAnswer, FlightOK, PoolOK, LifeOK, CloseOK,
     OwnedOnce, InPool, InFlight, InClose
<1> QED
  BY <1>1, <1>2, <1>3, <1>4, <1>5, <1>6, <1>7, <1>8, <1>9, <1>10, <1>11, <1>12,
     <1>13, <1>14, <1>15, <1>16, <1>17, <1>18, <1>19
     DEF Next, CallStep, FlightStep, CloseStep, AllReturned

LEMMA Invariance == Spec => []IInv
BY Initially, InductiveStep, PTL DEF Spec

-----------------------------------------------------------------------------
(* Every variable keeps its type. *)
THEOREM TypeCorrect == Spec => []TypeOK
<1>1. IInv => TypeOK
  BY DEF IInv
<1> QED
  BY <1>1, Invariance, PTL

(* No derived connection leaks and none is disconnected twice, however many  *)
(* calls, cancellations, abandoned dials and Close calls race.               *)
THEOREM ConnectionsOwnedOnce == Spec => []OwnedOnce
<1>1. IInv => OwnedOnce
  BY DEF IInv
<1> QED
  BY <1>1, Invariance, PTL

LEMMA OwnedTogether == IInv => OneConnectionPerKey
<1> SUFFICES ASSUME IInv, ~closed,
                    NEW x \in Calls, NEW y \in Calls,
                    life[x] = "open", life[y] = "open", KeyOf[x] = KeyOf[y]
             PROVE  x = y
  BY DEF OneConnectionPerKey
<1> DEFINE k == KeyOf[x]
<1>1. k \in Keys /\ KeyOf[y] = k
  BY PoolAssumption
<1>2. ~InClose(x) /\ ~InClose(y)
  BY DEF IInv, CloseOK, InClose
<1>3. (InPool(x) \/ InFlight(x)) /\ (InPool(y) \/ InFlight(y))
  BY <1>2 DEF IInv, OwnedOnce
<1>4. phase[k] \in {"publish", "discard"} => connections[k] = NoConn
  BY <1>1 DEF IInv, FlightOK
<1> QED
  BY <1>1, <1>3, <1>4, PoolAssumption DEF InPool, InFlight, NoConn

(* The singleflight group and the second look at the pool let no key have    *)
(* two open connections before Close.                                        *)
THEOREM OneDialPerKey == Spec => []OneConnectionPerKey
BY OwnedTogether, Invariance, PTL

(* A call that succeeds has a connection of its own key.                     *)
THEOREM RightConnection == Spec => []ReturnedConnection
<1>1. IInv => ReturnedConnection
  BY PoolAssumption
     DEF IInv, AnswersOK, GoodAnswer, LifeOK, ReturnedConnection
<1> QED
  BY <1>1, Invariance, PTL

(* When any Close has returned, the pool is empty and disconnected.          *)
THEOREM CloseComplete == Spec => []CloseIsComplete
<1>1. IInv => CloseIsComplete
  <2> SUFFICES ASSUME IInv, NEW d \in Closers, closer[d] = "returned"
               PROVE  Pooled = {} /\ toClose = {}
    BY DEF CloseIsComplete
  <2>1. once = "done" /\ closed /\ toClose = {}
    BY DEF IInv, CloseOK
  <2> QED
    BY <2>1 DEF IInv, PoolOK, Pooled
<1> QED
  BY <1>1, Invariance, PTL

-----------------------------------------------------------------------------
(* The accounting of the cache hits needs the cardinality of a set that      *)
(* grows by one call at a time.                                              *)
Served == {c \in Calls : pc[c] = "done" /\ result[c].err = "ok"}

LEMMA ServedGrows ==
  ASSUME TypeOK, NEW c \in Calls, c \notin Served, Served' = Served \cup {c}
  PROVE  Cardinality(Served') = Cardinality(Served) + 1
<1>1. IsFiniteSet(Served)
  BY PoolAssumption, FS_Subset DEF Served
<1> QED
  BY <1>1, FS_AddElement

LEMMA DeliveredGrows ==
  ASSUME TypeOK, NEW x \in Calls, x \notin delivered, delivered' = delivered \cup {x}
  PROVE  Cardinality(delivered') = Cardinality(delivered) + 1
<1>1. IsFiniteSet(delivered)
  BY PoolAssumption, FS_Subset DEF TypeOK
<1> QED
  BY <1>1, FS_AddElement

LEMMA CountsAreNaturals ==
  ASSUME TypeOK
  PROVE  Cardinality(Served) \in Nat /\ Cardinality(delivered) \in Nat
<1>1. IsFiniteSet(Served) /\ IsFiniteSet(delivered)
  BY PoolAssumption, FS_Subset DEF TypeOK, Served
<1> QED
  BY <1>1, FS_CardinalityType

(* Every successful call is one cache hit or one first delivery.             *)
THEOREM HitsAccounted == Spec => []HitsExplainReturns
<1>1. Init => HitsExplainReturns
  <2> SUFFICES ASSUME Init PROVE HitsExplainReturns
    OBVIOUS
  <2>1. Served = {}
    BY DEF Init, Served
  <2>2. hits = 0 /\ delivered = {} /\ Cardinality({}) = 0
    BY FS_EmptySet DEF Init
  <2>3. Cardinality(Served) = hits + Cardinality(delivered)
    BY <2>1, <2>2
  <2> QED
    BY <2>3 DEF HitsExplainReturns, Served
<1>2. IInv /\ HitsExplainReturns /\ [Next]_vars => HitsExplainReturns'
  <2> SUFFICES ASSUME IInv, HitsExplainReturns, [Next]_vars
               PROVE  HitsExplainReturns'
    OBVIOUS
  <2> USE DEF vars, pool, stats, callVars, flight, closing
  <2>0. /\ TypeOK
        /\ HitsExplainReturns <=> Cardinality(Served) = hits + Cardinality(delivered)
        /\ HitsExplainReturns' <=> Cardinality(Served') = hits' + Cardinality(delivered')
        /\ hits \in Nat
    BY DEF HitsExplainReturns, Served, IInv, TypeOK
  <2>1. ASSUME Served' = Served, UNCHANGED <<hits, delivered>>
        PROVE  HitsExplainReturns'
    BY <2>0, <2>1
  <2>2. ASSUME NEW c \in Calls, c \notin Served, Served' = Served \cup {c},
               hits' = hits + 1, delivered' = delivered
        PROVE  HitsExplainReturns'
    BY <2>0, <2>2, ServedGrows, CountsAreNaturals
  <2>3. ASSUME NEW c \in Calls, Begin(c) PROVE HitsExplainReturns'
    <3>1. Failed("closed").err = "closed"
      BY AnswerTypes
    <3>2. Served' = Served
      BY <2>0, <2>3, <3>1 DEF Begin, Return, Served, TypeOK
    <3> QED
      BY <2>1, <2>3, <3>2 DEF Begin
  <2>4. ASSUME NEW c \in Calls, Lookup(c) PROVE HitsExplainReturns'
    <3>1. CASE connections[KeyOf[c]] # NoConn
      <4>1. Cached(connections[KeyOf[c]]).err = "ok"
        BY <2>0, AnswerTypes, PoolAssumption DEF TypeOK
      <4>2. c \notin Served /\ Served' = Served \cup {c}
        BY <2>0, <2>4, <3>1, <4>1 DEF Lookup, Return, Served, TypeOK
      <4> QED
        BY <2>2, <2>4, <3>1, <4>2 DEF Lookup
    <3>2. CASE connections[KeyOf[c]] = NoConn
      <4>1. Served' = Served
        BY <2>0, <2>4, <3>2 DEF Lookup, Served, TypeOK
      <4> QED
        BY <2>1, <2>4, <3>2, <4>1 DEF Lookup
    <3> QED
      BY <3>1, <3>2
  <2>5. ASSUME NEW c \in Calls, Join(c) PROVE HitsExplainReturns'
    <3>1. Served' = Served
      BY <2>0, <2>5 DEF Join, Served, TypeOK
    <3> QED
      BY <2>1, <2>5, <3>1 DEF Join
  <2>6. ASSUME NEW c \in Calls, Receive(c) PROVE HitsExplainReturns'
    <3>1. CASE result[c].err = "ok" /\ FirstDelivery(c)
      <4>1. result[c].conn \in Calls
        BY <3>1 DEF IInv, AnswersOK, GoodAnswer
      <4>2. c \notin Served /\ Served' = Served \cup {c}
        BY <2>0, <2>6, <3>1 DEF Receive, Served, TypeOK
      <4>3. /\ result[c].conn \notin delivered
            /\ delivered' = delivered \cup {result[c].conn}
            /\ hits' = hits
        BY <2>6, <3>1 DEF Receive, FirstDelivery
      <4>4. Cardinality(Served') = Cardinality(Served) + 1
        BY <2>0, <4>2, ServedGrows
      <4>5. Cardinality(delivered') = Cardinality(delivered) + 1
        BY <2>0, <4>1, <4>3, DeliveredGrows
      <4> QED
        BY <2>0, <4>3, <4>4, <4>5, CountsAreNaturals
    <3>2. CASE ~(result[c].err = "ok" /\ FirstDelivery(c))
      <4>1. Served' = Served /\ UNCHANGED <<hits, delivered>>
        BY <2>0, <2>6, <3>2 DEF Receive, Served, TypeOK
      <4> QED
        BY <2>1, <4>1
    <3> QED
      BY <3>1, <3>2
  <2>7. ASSUME NEW c \in Calls, CountHit(c) PROVE HitsExplainReturns'
    <3>1. result[c].err = "ok"
      BY <2>7 DEF CountHit, IInv, AnswersOK
    <3>2. c \notin Served /\ Served' = Served \cup {c}
      BY <2>0, <2>7, <3>1 DEF CountHit, Served, TypeOK
    <3> QED
      BY <2>2, <2>7, <3>2 DEF CountHit
  <2>8. ASSUME NEW c \in Calls, Abandon(c) PROVE HitsExplainReturns'
    <3>1. Failed("cancelled").err = "cancelled"
      BY AnswerTypes
    <3>2. Served' = Served
      BY <2>0, <2>8, <3>1 DEF Abandon, Return, Served, TypeOK
    <3> QED
      BY <2>1, <2>8, <3>2 DEF Abandon
  <2>9. ASSUME NEW k \in Keys, Finish(k) PROVE HitsExplainReturns'
    <3>1. Served' = Served
      BY <2>0, <2>9 DEF Finish, Waiters, Served, TypeOK
    <3> QED
      BY <2>1, <2>9, <3>1 DEF Finish
  <2>10. ASSUME UNCHANGED <<pc, result, hits, delivered>> PROVE HitsExplainReturns'
    BY <2>1, <2>10 DEF Served
  <2>11. CASE \E c \in Calls : Cancel(c)
    BY <2>10, <2>11 DEF Cancel
  <2>12. CASE \E k \in Keys : Recheck(k) \/ DialOk(k) \/ DialErr(k) \/ Publish(k) \/ Discard(k)
    BY <2>10, <2>12 DEF Recheck, DialOk, DialErr, Publish, Discard
  <2>13. CASE \E d \in Closers : CallClose(d) \/ CloseStep(d)
    BY <2>10, <2>13
       DEF CallClose, CloseStep, CloseBegin, EnterOnce, CloseOne, CloseEnd, CloseRepeat
  <2>14. CASE UNCHANGED vars
    BY <2>10, <2>14
  <2> QED
    BY <2>3, <2>4, <2>5, <2>6, <2>7, <2>8, <2>9, <2>11, <2>12, <2>13, <2>14
       DEF Next, CallStep, FlightStep, AllReturned
<1> QED
  BY <1>1, <1>2, Invariance, PTL DEF Spec

-----------------------------------------------------------------------------
(* Refinement: every step of the session is a step of the abstract pool, or  *)
(* one the callers cannot see.                                               *)
LEMMA AnsweredAs ==
  ASSUME IInv, NEW c \in Calls, NEW e, NEW x,
         pc[c] # "done", pc' = [pc EXCEPT ![c] = "done"],
         \A b \in Calls \ {c} : pc[b] = "done" => result'[b] = result[b],
         result'[c].err = e, result'[c].conn = x,
         UNCHANGED <<closed, life>>
  PROVE  Abstract!Reply(c, e, x)
BY DEF IInv, TypeOK, Abstract!Reply, Asked, Answered

LEMMA Invisible ==
  ASSUME \A c \in Calls : Asked(c)' = Asked(c) /\ Answered(c)' = Answered(c),
         UNCHANGED <<closed, life>>
  PROVE  UNCHANGED Abstract!vars
BY DEF Abstract!vars

(* A call in the middle of its work that moves on without returning.         *)
LEMMA StillPending ==
  ASSUME IInv, NEW c \in Calls, NEW p \in {"lookup", "join", "wait", "count"},
         pc[c] \in {"lookup", "join", "wait", "count"}, pc' = [pc EXCEPT ![c] = p],
         UNCHANGED <<result, closed, life>>
  PROVE  UNCHANGED Abstract!vars
<1>1. \A b \in Calls : Asked(b)' = Asked(b) /\ Answered(b)' = Answered(b)
  BY DEF IInv, TypeOK, Asked, Answered
<1> QED
  BY <1>1, Invisible

(* The steps of the abstract pool that answer a call.                        *)
LEMMA ServeStep ==
  ASSUME NEW c \in Calls, NEW x \in Calls, Asked(c) = "pending",
         KeyOf[x] = KeyOf[c],
         life[x] = "open" \/ (closed /\ life[x] = "closed"),
         Abstract!Reply(c, "ok", x)
  PROVE  Abstract!Next
<1>1. Abstract!Serve(c, x)
  BY DEF Abstract!Serve
<1> QED
  BY <1>1 DEF Abstract!Next

LEMMA RefuseStep ==
  ASSUME NEW c \in Calls, Asked(c) \in {"idle", "pending"}, closed,
         Abstract!Reply(c, "closed", NoCall)
  PROVE  Abstract!Next
<1>1. Abstract!Refuse(c)
  BY DEF Abstract!Refuse
<1> QED
  BY <1>1 DEF Abstract!Next

LEMMA FailStep ==
  ASSUME NEW c \in Calls, Asked(c) = "pending", NEW e \in {"cancelled", "remote"},
         Abstract!Reply(c, e, NoCall)
  PROVE  Abstract!Next
<1>1. Abstract!Fail(c)
  BY DEF Abstract!Fail
<1> QED
  BY <1>1 DEF Abstract!Next

(* A connection may open when nothing of its key is open yet.                *)
LEMMA NothingOpen ==
  ASSUME IInv, NEW k \in Keys, phase[k] = "dial", ~closed,
         NEW y \in Calls, KeyOf[y] = k
  PROVE  life[y] # "open"
<1>1. connections[k] = NoConn
  BY DEF IInv, FlightOK
<1>2. ~InPool(y)
  BY <1>1, PoolAssumption DEF InPool, NoConn
<1>3. ~InFlight(y)
  BY DEF InFlight
<1>4. ~InClose(y)
  BY DEF IInv, CloseOK, InClose
<1> QED
  BY <1>2, <1>3, <1>4 DEF IInv, OwnedOnce

LEMMA StepRefines == IInv /\ [Next]_vars => [Abstract!Next]_(Abstract!vars)
<1> SUFFICES ASSUME IInv, [Next]_vars PROVE [Abstract!Next]_(Abstract!vars)
  OBVIOUS
<1> USE PoolAssumption DEF vars, pool, stats, callVars, flight, closing
<1>0. TypeOK
  BY DEF IInv
<1>1. ASSUME NEW c \in Calls, Begin(c) PROVE Abstract!Next
  <2>1. CASE closed
    <3>1. Failed("closed").err = "closed" /\ Failed("closed").conn = NoConn
      BY AnswerTypes
    <3>2. Abstract!Reply(c, "closed", NoCall)
      BY <1>0, <1>1, <2>1, <3>1, AnsweredAs DEF Begin, Return, TypeOK, NoConn
    <3>3. Asked(c) = "idle"
      BY <1>1 DEF Begin, Asked
    <3> QED
      BY <2>1, <3>2, <3>3, RefuseStep
  <2>2. CASE ~closed
    <3>1. /\ pc[c] = "idle" /\ pc' = [pc EXCEPT ![c] = "lookup"]
          /\ UNCHANGED <<result, closed, life>>
      BY <1>1, <2>2 DEF Begin
    <3>2. /\ Asked(c) = "idle" /\ Asked(c)' = "pending"
          /\ \A b \in Calls \ {c} : Asked(b)' = Asked(b)
          /\ \A b \in Calls : Answered(b)' = Answered(b)
      BY <1>0, <3>1 DEF Asked, Answered, TypeOK
    <3>3. Abstract!Ask(c)
      BY <2>2, <3>1, <3>2 DEF Abstract!Ask
    <3> QED
      BY <3>3 DEF Abstract!Next
  <2> QED
    BY <2>1, <2>2
<1>2. ASSUME NEW c \in Calls, Lookup(c) PROVE [Abstract!Next]_(Abstract!vars)
  <2>1. CASE connections[KeyOf[c]] # NoConn
    <3> DEFINE x == connections[KeyOf[c]]
    <3>1. x \in Calls /\ KeyOf[x] = KeyOf[c] /\ life[x] = "open"
      BY <1>0, <2>1 DEF IInv, TypeOK, PoolOK, OwnedOnce, InPool
    <3>2. Cached(x).err = "ok" /\ Cached(x).conn = x
      BY <3>1, AnswerTypes
    <3>3. Abstract!Reply(c, "ok", x)
      BY <1>0, <1>2, <2>1, <3>2, AnsweredAs DEF Lookup, Return, TypeOK
    <3>4. Asked(c) = "pending"
      BY <1>2 DEF Lookup, Asked
    <3> QED
      BY <3>1, <3>3, <3>4, ServeStep
  <2>2. CASE connections[KeyOf[c]] = NoConn
    BY <1>2, <2>2, StillPending DEF Lookup
  <2> QED
    BY <2>1, <2>2
<1>3. ASSUME NEW c \in Calls, Join(c) PROVE UNCHANGED Abstract!vars
  BY <1>3, StillPending DEF Join
<1>4. ASSUME NEW c \in Calls, Receive(c) PROVE [Abstract!Next]_(Abstract!vars)
  <2> DEFINE x == result[c].conn
  <2>1. GoodAnswer(KeyOf[c], result[c]) /\ result[c] # NoAnswer /\ result[c] \in Answers
    BY <1>0, <1>4 DEF Receive, IInv, AnswersOK, TypeOK
  <2>2. CASE result[c].err = "ok" /\ ~FirstDelivery(c)
    BY <1>4, <2>2, StillPending DEF Receive
  <2>4. Asked(c) = "pending"
    BY <1>4 DEF Receive, Asked
  <2>3. CASE ~(result[c].err = "ok" /\ ~FirstDelivery(c))
    <3>1. pc' = [pc EXCEPT ![c] = "done"] /\ UNCHANGED <<result, closed, life>>
      BY <1>4, <2>3 DEF Receive
    <3>2. Abstract!Reply(c, result[c].err, x)
      BY <1>0, <1>4, <3>1, AnsweredAs DEF Receive, TypeOK
    <3>3. CASE result[c].err = "ok"
      <4>1. x \in Calls /\ KeyOf[x] = KeyOf[c] /\ life[x] \in {"open", "closed"}
        BY <2>1, <3>3 DEF GoodAnswer
      <4>2. life[x] = "closed" => closed
        BY <4>1 DEF IInv, LifeOK
      <4>3. Abstract!Reply(c, "ok", x)
        BY <3>2, <3>3
      <4> HIDE DEF x
      <4> QED
        BY <2>4, <4>1, <4>2, <4>3, ServeStep
    <3>4. CASE result[c].err = "closed"
      <4>1. closed /\ x = NoCall
        BY <2>1, <3>4 DEF GoodAnswer, NoConn
      <4>2. Abstract!Reply(c, "closed", NoCall)
        BY <3>2, <3>4, <4>1
      <4> QED
        BY <2>4, <4>1, <4>2, RefuseStep
    <3>5. CASE result[c].err \in {"cancelled", "remote"}
      <4>1. x = NoCall
        BY <2>1, <3>5 DEF GoodAnswer, NoConn
      <4>2. Abstract!Reply(c, result[c].err, NoCall)
        BY <3>2, <4>1
      <4> QED
        BY <2>4, <3>5, <4>2, FailStep
    <3>6. result[c].err \in {"ok", "closed", "cancelled", "remote"}
      BY <2>1 DEF GoodAnswer, Answers, Errors
    <3> QED
      BY <3>3, <3>4, <3>5, <3>6
  <2> QED
    BY <2>2, <2>3
<1>5. ASSUME NEW c \in Calls, CountHit(c) PROVE Abstract!Next
  <2> DEFINE x == result[c].conn
  <2>1. result[c].err = "ok" /\ GoodAnswer(KeyOf[c], result[c])
    BY <1>5 DEF CountHit, IInv, AnswersOK
  <2>2. x \in Calls /\ KeyOf[x] = KeyOf[c] /\ life[x] \in {"open", "closed"}
    BY <2>1 DEF GoodAnswer
  <2>3. life[x] = "closed" => closed
    BY <2>2 DEF IInv, LifeOK
  <2>4. Abstract!Reply(c, "ok", x)
    BY <1>0, <1>5, <2>1, AnsweredAs DEF CountHit, TypeOK
  <2>5. Asked(c) = "pending"
    BY <1>5 DEF CountHit, Asked
  <2> HIDE DEF x
  <2> QED
    BY <2>2, <2>3, <2>4, <2>5, ServeStep
<1>6. ASSUME NEW c \in Calls, Abandon(c) PROVE Abstract!Next
  <2>1. Failed("cancelled").err = "cancelled" /\ Failed("cancelled").conn = NoConn
    BY AnswerTypes
  <2>2. Abstract!Reply(c, "cancelled", NoCall)
    BY <1>0, <1>6, <2>1, AnsweredAs DEF Abandon, Return, TypeOK, NoConn
  <2>3. Asked(c) = "pending"
    BY <1>6 DEF Abandon, Asked
  <2> QED
    BY <2>2, <2>3, FailStep
<1>7. ASSUME UNCHANGED <<pc, result, closed, life>> PROVE UNCHANGED Abstract!vars
  BY <1>7, Invisible DEF Asked, Answered
<1>8. ASSUME NEW k \in Keys, DialOk(k) PROVE Abstract!Next
  <2> DEFINE x == leader[k]
  <2>1. /\ x \in Calls /\ KeyOf[x] = k
        /\ pc[x] \in {"wait", "count", "done"} /\ life[x] = "unborn"
    BY <1>8 DEF DialOk, IInv, FlightOK
  <2>2. closed \/ \A y \in Calls : KeyOf[y] = KeyOf[x] => life[y] # "open"
    BY <1>8, <2>1, NothingOpen DEF DialOk
  <2>3. /\ life' = [life EXCEPT ![x] = "open"]
        /\ UNCHANGED <<closed, pc, result>>
    BY <1>8 DEF DialOk
  <2>4. Abstract!Open(x)
    BY <2>1, <2>2, <2>3 DEF Abstract!Open, Asked, Answered
  <2> QED
    BY <2>1, <2>4 DEF Abstract!Next
<1>9. ASSUME NEW k \in Keys, Discard(k) PROVE Abstract!Next
  <2>1. leader[k] \in Calls /\ life[leader[k]] = "open" /\ closed
    BY <1>9 DEF Discard, IInv, FlightOK
  <2> QED
    BY <1>9, <2>1
       DEF Discard, Abstract!Next, Abstract!Disconnect, Asked, Answered
<1>10. ASSUME NEW k \in Keys, Finish(k) PROVE UNCHANGED Abstract!vars
  <2>1. \A c \in Calls : Asked(c)' = Asked(c) /\ Answered(c)' = Answered(c)
    BY <1>0, <1>10 DEF Finish, Waiters, Asked, Answered, TypeOK
  <2> QED
    BY <1>10, <2>1, Invisible DEF Finish
<1>11. ASSUME NEW d \in Closers, CloseBegin(d) PROVE Abstract!Next
  BY <1>11 DEF CloseBegin, EnterOnce, Abstract!Next, Abstract!Close, Asked, Answered
<1>12. ASSUME NEW d \in Closers, CloseOne(d) PROVE Abstract!Next
  <2>1. PICK x \in toClose : life' = [life EXCEPT ![x] = "closed"]
    BY <1>12 DEF CloseOne
  <2>2. x \in Calls /\ life[x] = "open" /\ closed
    BY <1>0, <2>1 DEF IInv, TypeOK, CloseOK, OwnedOnce, InClose
  <2> QED
    BY <1>12, <2>1, <2>2
       DEF CloseOne, Abstract!Next, Abstract!Disconnect, Asked, Answered
<1>13. CASE \/ \E c \in Calls : Cancel(c)
            \/ \E k \in Keys : Recheck(k) \/ DialErr(k) \/ Publish(k)
            \/ \E d \in Closers : CallClose(d) \/ CloseEnd(d) \/ CloseRepeat(d)
            \/ UNCHANGED vars
  BY <1>7, <1>13
     DEF Cancel, Recheck, DialErr, Publish, CallClose, CloseEnd, CloseRepeat
<1> QED
  BY <1>1, <1>2, <1>3, <1>4, <1>5, <1>6, <1>8, <1>9, <1>10, <1>11, <1>12, <1>13
     DEF Next, CallStep, FlightStep, CloseStep, AllReturned

(* The session's pool implements what it promises its callers.               *)
THEOREM ImplementsPool == Spec => PoolSpec
<1>1. Init => Abstract!Init
  BY DEF Init, Abstract!Init, Abstract!Nothing, Asked, Answered, NoConn
<1> QED
  BY <1>1, StepRefines, Invariance, PTL DEF Spec, PoolSpec, Abstract!Spec
===============================================================================
