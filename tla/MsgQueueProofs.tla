--------------------------- MODULE MsgQueueProofs ---------------------------
(***************************************************************************)
(* Proofs about the message queue, for any set of producers, any capacity  *)
(* and any number of sends: it implements the bounded queue of MsgFifo,    *)
(* and the loop never sleeps over a message.                               *)
(***************************************************************************)
EXTENDS MsgQueue, TLAPS

(* The inductive invariant: the types, no lost wake-up, a send under way    *)
(* has a number, a popped message is held until it is dispatched, and the   *)
(* loop's thread is past the destruction exactly when the queue is gone.    *)
IInv ==
  /\ TypeOK
  /\ NoLostWakeup
  /\ \A p \in Producers : ppc[p] # "idle" => sent[p] >= 1
  /\ cpc = "dispatch" => msgInfo # None
  /\ alive <=> cpc \notin {"unset", "gone"}

(* The queue starts in the invariant: empty, switched on, without tokens.  *)
LEMMA InitIInv == Init => IInv
<1> SUFFICES ASSUME Init PROVE IInv
  OBVIOUS
<1> USE MaxSendsAssumption DEF Init
<1>1. /\ ppc \in [Producers -> {"idle", "check", "room", "sem", "push", "wild"}]
      /\ patient \in [Producers -> BOOLEAN]
      /\ sent \in [Producers -> 0..MaxSends]
  OBVIOUS
<1>2. source \in BOOLEAN /\ pushOnOff \in BOOLEAN /\ alive \in BOOLEAN
  OBVIOUS
<1>3. queue \in Seq(Messages) /\ accepted \in Seq(Messages) /\ handled \in Seq(Messages)
  OBVIOUS
<1>4. TypeOK
  BY <1>1, <1>2, <1>3 DEF TypeOK
<1>5. alive <=> cpc \notin {"unset", "gone"}
  OBVIOUS
<1> QED
  BY <1>4, <1>5 DEF IInv, NoLostWakeup

(* A producer that is in a send sends a message of its own.                *)
LEMMA MessageType ==
  ASSUME IInv, NEW p \in Producers, ppc[p] # "idle"
  PROVE  Message(p) \in Messages
  BY MaxSendsAssumption DEF IInv, TypeOK, Message, Messages

(* Every step of a producer keeps the invariant.                           *)
LEMMA ProducerIInv ==
  ASSUME IInv, NEW p \in Producers, ProducerStep(p) \/ \E timed \in BOOLEAN : SendBegin(p, timed)
  PROVE  IInv'
<1> USE MaxSendsAssumption DEF IInv, TypeOK, NoLostWakeup
<1>1. ASSUME NEW timed \in BOOLEAN, SendBegin(p, timed) PROVE IInv'
  BY <1>1 DEF SendBegin, histVars
<1>2. CASE CheckPushOn(p)
  BY <1>2 DEF CheckPushOn, Destroyed, histVars
<1>3. CASE PushWait(p)
  BY <1>3 DEF PushWait, Destroyed, histVars
<1>4. CASE RoomToken(p)
  BY <1>4 DEF RoomToken, histVars
<1>5. CASE RoomTimeout(p)
  BY <1>5 DEF RoomTimeout, Return, GoWild, histVars
<1>6. CASE Push(p)
  <2>1. Message(p) \in Messages
    BY <1>6, MessageType DEF Push
  <2>2. sendSem' = 1
    BY <1>6 DEF Push, PostIfZero
  <2>3. queue' \in Seq(Messages) /\ accepted' \in Seq(Messages) /\ late' \subseteq Messages
    BY <1>6, <2>1 DEF Push
  <2> QED
    BY <1>6, <2>2, <2>3 DEF Push, Return
<1>7. CASE PushRefused(p)
  BY <1>7 DEF PushRefused, Return, GoWild, histVars
<1> QED
  BY <1>1, <1>2, <1>3, <1>4, <1>5, <1>6, <1>7 DEF ProducerStep

(* Every step of the loop's thread, and of the finalization, keeps it.     *)
LEMMA LoopIInv ==
  ASSUME IInv, Serve \/ FinalizeBegin \/ Finalize
  PROVE  IInv'
<1> USE NoneAssumption DEF IInv, TypeOK, NoLostWakeup, producerVars, histVars
<1>1. CASE Poll
  BY <1>1 DEF Poll
<1>2. CASE MessageToken
  BY <1>2 DEF MessageToken
<1>3. CASE MessageTimeout
  BY <1>3 DEF MessageTimeout
<1>4. CASE Pop
  <2>1. Head(queue) \in Messages /\ Tail(queue) \in Seq(Messages)
    BY <1>4 DEF Pop
  <2>2. recvSem' \in {0, 1}
    BY <1>4 DEF Pop, PostIfZero
  <2> QED
    BY <1>4, <2>1, <2>2 DEF Pop
<1>5. CASE PopEmpty
  BY <1>5 DEF PopEmpty
<1>6. CASE Dispatch
  BY <1>6 DEF Dispatch
<1>7. CASE FinalizeBegin
  BY <1>7 DEF FinalizeBegin
<1>8. CASE Suspend
  BY <1>8 DEF Suspend
<1>9. CASE Drain
  <2>1. Head(queue) \in Messages /\ Tail(queue) \in Seq(Messages)
    BY <1>9 DEF Drain
  <2>2. recvSem' \in {0, 1}
    BY <1>9 DEF Drain, PostIfZero
  <2> QED
    BY <1>9, <2>1, <2>2 DEF Drain
<1>10. CASE DrainEnd
  BY <1>10 DEF DrainEnd
<1>11. CASE Deinit
  <2>1. TypeOK'
    <3>1. queue' \in Seq(Messages) /\ sendSem' \in {0, 1} /\ recvSem' \in {0, 1}
      BY <1>11 DEF Deinit
    <3>2. alive' \in BOOLEAN
      BY <1>11 DEF Deinit
    <3> QED
      BY <1>11, <3>1, <3>2 DEF Deinit
  <2>2. (alive <=> cpc \notin {"unset", "gone"})'
    BY <1>11 DEF Deinit
  <2> QED
    BY <1>11, <2>1, <2>2 DEF Deinit
<1>12. CASE UnsetSource
  BY <1>12 DEF UnsetSource
<1> QED
  BY <1>1, <1>2, <1>3, <1>4, <1>5, <1>6, <1>7, <1>8, <1>9, <1>10, <1>11, <1>12 DEF Serve, Finalize

(* The invariant holds throughout every behaviour of the queue.            *)
THEOREM QueueInv == Spec => []IInv
<1>1. IInv /\ [Next]_vars => IInv'
  <2> SUFFICES ASSUME IInv, [Next]_vars PROVE IInv'
    OBVIOUS
  <2>1. CASE UNCHANGED vars
    BY <2>1 DEF IInv, TypeOK, NoLostWakeup, vars
  <2> QED
    BY <2>1, ProducerIInv, LoopIInv DEF Next
<1> QED
  BY <1>1, InitIInv, PTL DEF Spec

(* Type correctness; in particular both semaphores are flags: a push or pop *)
(* posts only at count zero, under the lock.                               *)
THEOREM QueueTypeOK == Spec => []TypeOK
<1>1. IInv => TypeOK
  BY DEF IInv
<1> QED
  BY <1>1, QueueInv, PTL

(* Whenever the loop sleeps on sendSem and the queue holds a message, there *)
(* is a token to wake it, although UtilsMsgQueuePopMem tests and sleeps in  *)
(* two steps.                                                              *)
THEOREM QueueNoLostWakeup == Spec => []NoLostWakeup
<1>1. IInv => NoLostWakeup
  BY DEF IInv
<1> QED
  BY <1>1, QueueInv, PTL

(* The queue of utils_msg_queue.c implements the bounded queue of MsgFifo:  *)
(* every step appends an accepted message where there is room, takes the    *)
(* oldest, destroys the queue, or leaves it alone.                         *)
THEOREM QueueImplementsFifo == Spec => ImplementsFifo
<1>1. Init => Fifo!Init
  BY DEF Init, Fifo!Init
<1>2. IInv /\ [Next]_vars => [Fifo!Next]_(Fifo!vars)
  <2> SUFFICES ASSUME IInv, [Next]_vars, ~UNCHANGED Fifo!vars PROVE Fifo!Next
    OBVIOUS
  <2> USE DEF Fifo!vars, producerVars, histVars
  <2>1. ASSUME NEW p \in Producers, Push(p) PROVE Fifo!Next
    <3>1. Message(p) \in Messages
      BY <2>1, MessageType DEF Push
    <3>2. Len(queue) \in Nat
      BY DEF IInv, TypeOK
    <3>3. Fifo!Accept(Message(p))
      BY <2>1, <3>2, CapAssumption DEF Push, IsFull, Fifo!Accept, Fifo!Enqueue
    <3> QED
      BY <3>1, <3>3 DEF Fifo!Next
  <2>2. CASE Pop \/ Drain
    BY <2>2 DEF Pop, Drain, IInv, Fifo!Next, Fifo!Take, Fifo!Dequeue
  <2>3. CASE Deinit
    BY <2>3 DEF Deinit, IInv, Fifo!Next, Fifo!Destroy
  <2>4. ASSUME NEW p \in Producers, ProducerStep(p) \/ \E timed \in BOOLEAN : SendBegin(p, timed), ~Push(p)
        PROVE  UNCHANGED Fifo!vars
    BY <2>4 DEF ProducerStep, SendBegin, CheckPushOn, PushWait, RoomToken, RoomTimeout, PushRefused
  <2>5. ASSUME Serve \/ FinalizeBegin \/ Finalize, ~Pop, ~Drain, ~Deinit
        PROVE  UNCHANGED Fifo!vars
    BY <2>5 DEF Serve, Finalize, Poll, MessageToken, MessageTimeout, PopEmpty, Dispatch, FinalizeBegin,
         Suspend, DrainEnd, UnsetSource
  <2>6. CASE UNCHANGED vars
    BY <2>6 DEF vars
  <2> QED
    BY <2>1, <2>2, <2>3, <2>4, <2>5, <2>6 DEF Next
<1> QED
  BY <1>1, <1>2, QueueInv, PTL DEF Spec, ImplementsFifo, Fifo!Spec
=============================================================================
