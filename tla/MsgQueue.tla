------------------------------ MODULE MsgQueue ------------------------------
(***************************************************************************)
(* The scheduler's message queue: utils_msg_queue.c over utils_queue.c, as *)
(* the event source of event_source_msg_queue.c uses it.  Producers are    *)
(* any threads; the one consumer is the thread of the event loop, which    *)
(* also finalizes the source after the loop has ended.                     *)
(*                                                                         *)
(* Every section under the queue's lock is one step, every wait on one of  *)
(* the two semaphores is a step of its own: between the check that decides *)
(* to wait, the wait, and the push or pop after it, others run.            *)
(* The two-minute timeout on the lock itself is taken never to expire: no  *)
(* holder of the lock waits for anything.                                  *)
(***************************************************************************)
EXTENDS Naturals, Sequences, SequencesExt

CONSTANTS Producers,   \* threads that call EventSourceMsgQueueSend
          None,        \* NULL
          Cap,         \* capacity given to EventSourceMsgQueueNew
          MaxSends     \* bound: sends of each producer

ASSUME CapAssumption == Cap \in Nat \ {0}
ASSUME MaxSendsAssumption == MaxSends \in Nat

Messages == Producers \X (1..MaxSends)

ASSUME NoneAssumption == None \notin Messages

VARIABLES
  source,     \* g_msgQueueSource # NULL
  queue,      \* msgQueue.queue: the messages, oldest first
  pushOnOff,  \* msgQueue.pushOnOff
  sendSem,    \* count of msgQueue.sendSem, posted by pushes
  recvSem,    \* count of msgQueue.recvSem, posted by pops
  alive,      \* UtilsMsgQueueDeinit has not run
  ppc,        \* where each producer is in EventSourceMsgQueueSend
  patient,    \* the producer's send was given a timeout > 0
  sent,       \* number of sends each producer has begun
  cpc,        \* where the loop's thread is
  msgInfo,    \* mqSource->msgInfo: the message popped and not yet handled
  accepted,   \* history: messages in the order the queue took them
  handled,    \* history: messages in the order their handlers ran
  late        \* history: messages taken while pushOnOff was already FALSE

vars == <<source, queue, pushOnOff, sendSem, recvSem, alive, ppc, patient, sent,
          cpc, msgInfo, accepted, handled, late>>

producerVars == <<ppc, patient, sent>>
histVars == <<accepted, handled, late>>

IsFull == Len(queue) >= Cap
Message(p) == <<p, sent[p]>>

\* The semaphores are used as flags: posted only when their count is zero.
PostIfZero(count) == IF count = 0 THEN 1 ELSE count

Init ==
  /\ source = TRUE
  /\ queue = <<>>
  /\ pushOnOff = TRUE
  /\ sendSem = 0
  /\ recvSem = 0
  /\ alive = TRUE
  /\ ppc = [p \in Producers |-> "idle"]
  /\ patient = [p \in Producers |-> FALSE]
  /\ sent = [p \in Producers |-> 0]
  /\ cpc = "iterate"
  /\ msgInfo = None
  /\ accepted = <<>>
  /\ handled = <<>>
  /\ late = {}
-----------------------------------------------------------------------------
(* Faulty variants of the steps below.                                     *)

\* A push that had to wait for room does not post sendSem.
PushNoPost(p) ==
  /\ ppc[p] = "push" /\ alive /\ ~IsFull
  /\ queue' = Append(queue, Message(p))
  /\ accepted' = Append(accepted, Message(p))
  /\ late' = IF pushOnOff THEN late ELSE late \cup {Message(p)}
  /\ ppc' = [ppc EXCEPT ![p] = "idle"]
  /\ UNCHANGED <<source, pushOnOff, sendSem, recvSem, alive, patient, sent, cpc, msgInfo, handled>>

\* A message goes in front of those that wait.
PushInFront(p) ==
  /\ ppc[p] = "push" /\ alive /\ ~IsFull
  /\ queue' = <<Message(p)>> \o queue
  /\ sendSem' = PostIfZero(sendSem)
  /\ accepted' = Append(accepted, Message(p))
  /\ late' = IF pushOnOff THEN late ELSE late \cup {Message(p)}
  /\ ppc' = [ppc EXCEPT ![p] = "idle"]
  /\ UNCHANGED <<source, pushOnOff, recvSem, alive, patient, sent, cpc, msgInfo, handled>>

\* The push trusts PushWait and does not test again for room.
PushUnchecked(p) ==
  /\ ppc[p] = "push" /\ alive
  /\ queue' = Append(queue, Message(p))
  /\ sendSem' = PostIfZero(sendSem)
  /\ accepted' = Append(accepted, Message(p))
  /\ late' = IF pushOnOff THEN late ELSE late \cup {Message(p)}
  /\ ppc' = [ppc EXCEPT ![p] = "idle"]
  /\ UNCHANGED <<source, pushOnOff, recvSem, alive, patient, sent, cpc, msgInfo, handled>>

\* The wait for room has no timeout.
RoomTimeoutNever(p) == ppc[p] = "sem" /\ alive /\ recvSem > 0 /\ UNCHANGED vars

\* Finalization drains without suspending the pushes first.
FinalizeNoSuspend ==
  /\ cpc = "final"
  /\ cpc' = "drain"
  /\ UNCHANGED <<source, queue, pushOnOff, sendSem, recvSem, alive, producerVars, msgInfo, histVars>>
-----------------------------------------------------------------------------
(* EventSourceMsgQueueSend and UtilsMsgQueuePushMem, on any thread.        *)

Return(p) == ppc' = [ppc EXCEPT ![p] = "idle"]
GoWild(p) == ppc' = [ppc EXCEPT ![p] = "wild"]

\* The send begins with the pointer to the source it read.
SendBegin(p, timed) ==
  /\ ppc[p] = "idle"
  /\ source
  /\ sent[p] < MaxSends
  /\ sent' = [sent EXCEPT ![p] = @ + 1]
  /\ patient' = [patient EXCEPT ![p] = timed]
  /\ ppc' = [ppc EXCEPT ![p] = "check"]
  /\ UNCHANGED <<source, queue, pushOnOff, sendSem, recvSem, alive, cpc, msgInfo, histVars>>

\* A producer that comes to the source after its destruction: the fields it
\* reads may still say that the queue is off and the lock gone, and it is
\* refused; once the memory is freed it may do anything.
Destroyed == {"idle", "wild"}

CheckPushOn(p) ==
  /\ ppc[p] = "check"
  /\ \E pc \in IF alive THEN {IF pushOnOff THEN "room" ELSE "idle"} ELSE Destroyed :
       ppc' = [ppc EXCEPT ![p] = pc]
  /\ UNCHANGED <<source, queue, pushOnOff, sendSem, recvSem, alive, patient, sent, cpc, msgInfo, histVars>>

\* PushWait up to its unlock: go on, give up, or wait for room.
PushWait(p) ==
  /\ ppc[p] = "room"
  /\ \E pc \in IF alive THEN {IF ~IsFull THEN "push" ELSE IF patient[p] THEN "sem" ELSE "idle"}
               ELSE Destroyed :
       ppc' = [ppc EXCEPT ![p] = pc]
  /\ UNCHANGED <<source, queue, pushOnOff, sendSem, recvSem, alive, patient, sent, cpc, msgInfo, histVars>>

\* IotcSemWait on recvSem gets a token, which may be a stale one.
RoomToken(p) ==
  /\ ppc[p] = "sem"
  /\ alive
  /\ recvSem > 0
  /\ recvSem' = recvSem - 1
  /\ ppc' = [ppc EXCEPT ![p] = "push"]
  /\ UNCHANGED <<source, queue, pushOnOff, sendSem, alive, patient, sent, cpc, msgInfo, histVars>>

\* It expires, or the semaphore was destroyed under the sleeper.
RoomTimeout(p) ==
  /\ ppc[p] = "sem"
  /\ ~alive \/ recvSem = 0
  /\ Return(p) \/ (~alive /\ GoWild(p))
  /\ UNCHANGED <<source, queue, pushOnOff, sendSem, recvSem, alive, patient, sent, cpc, msgInfo, histVars>>

\* The push under the lock; pushOnOff is not looked at again.
Push(p) ==
  /\ ppc[p] = "push"
  /\ alive
  /\ ~IsFull
  /\ queue' = Append(queue, Message(p))
  /\ sendSem' = PostIfZero(sendSem)
  /\ accepted' = Append(accepted, Message(p))
  /\ late' = IF pushOnOff THEN late ELSE late \cup {Message(p)}
  /\ Return(p)
  /\ UNCHANGED <<source, pushOnOff, recvSem, alive, patient, sent, cpc, msgInfo, handled>>

\* The queue has filled up again, the allocation of the node failed, or the
\* lock is gone: the message is refused.
PushRefused(p) ==
  /\ ppc[p] = "push"
  /\ Return(p) \/ (~alive /\ GoWild(p))
  /\ UNCHANGED <<source, queue, pushOnOff, sendSem, recvSem, alive, patient, sent, cpc, msgInfo, histVars>>
-----------------------------------------------------------------------------
(* The loop's thread: poll, check and dispatch of the source.              *)

\* MsgQueueSourcePoll handles what an earlier poll left, then PopWait looks.
Poll ==
  /\ cpc = "iterate"
  /\ handled' = IF msgInfo = None THEN handled ELSE Append(handled, msgInfo)
  /\ msgInfo' = None
  /\ cpc' = IF queue = <<>> THEN "sem" ELSE "pop"
  /\ UNCHANGED <<source, queue, pushOnOff, sendSem, recvSem, alive, producerVars, accepted, late>>

\* IotcSemWait on sendSem gets a token, which may be a stale one.
MessageToken ==
  /\ cpc = "sem"
  /\ sendSem > 0
  /\ sendSem' = sendSem - 1
  /\ cpc' = "pop"
  /\ UNCHANGED <<source, queue, pushOnOff, recvSem, alive, producerVars, msgInfo, histVars>>

MessageTimeout ==
  /\ cpc = "sem"
  /\ sendSem = 0
  /\ cpc' = "iterate"
  /\ UNCHANGED <<source, queue, pushOnOff, sendSem, recvSem, alive, producerVars, msgInfo, histVars>>

\* UtilsMsgQueuePopMem under the lock.
Pop ==
  /\ cpc = "pop"
  /\ queue # <<>>
  /\ msgInfo' = Head(queue)
  /\ queue' = Tail(queue)
  /\ recvSem' = PostIfZero(recvSem)
  /\ cpc' = "dispatch"
  /\ UNCHANGED <<source, pushOnOff, sendSem, alive, producerVars, histVars>>

\* The token was stale: the queue is empty and the poll reports no event.
PopEmpty ==
  /\ cpc = "pop"
  /\ queue = <<>>
  /\ cpc' = "iterate"
  /\ UNCHANGED <<source, queue, pushOnOff, sendSem, recvSem, alive, producerVars, msgInfo, histVars>>

\* MsgQueueSourceCheck and MsgQueueSourceDispatch: the handler runs.
Dispatch ==
  /\ cpc = "dispatch"
  /\ handled' = Append(handled, msgInfo)
  /\ msgInfo' = None
  /\ cpc' = "iterate"
  /\ UNCHANGED <<source, queue, pushOnOff, sendSem, recvSem, alive, producerVars, accepted, late>>

\* The loop has ended and SchedMsgQueueDeinit deletes the source:
\* MsgQueueSourceFinalize begins with what is still held.
FinalizeBegin ==
  /\ cpc = "iterate"
  /\ handled' = IF msgInfo = None THEN handled ELSE Append(handled, msgInfo)
  /\ msgInfo' = None
  /\ cpc' = "final"
  /\ UNCHANGED <<source, queue, pushOnOff, sendSem, recvSem, alive, producerVars, accepted, late>>

\* UtilsMsgQueueSuspend.
Suspend ==
  /\ cpc = "final"
  /\ pushOnOff' = FALSE
  /\ cpc' = "drain"
  /\ UNCHANGED <<source, queue, sendSem, recvSem, alive, producerVars, msgInfo, histVars>>

\* One round of the drain: pop without waiting, handle.
Drain ==
  /\ cpc = "drain"
  /\ queue # <<>>
  /\ queue' = Tail(queue)
  /\ recvSem' = PostIfZero(recvSem)
  /\ handled' = Append(handled, Head(queue))
  /\ UNCHANGED <<source, pushOnOff, sendSem, alive, producerVars, cpc, msgInfo, accepted, late>>

DrainEnd ==
  /\ cpc = "drain"
  /\ queue = <<>>
  /\ cpc' = "deinit"
  /\ UNCHANGED <<source, queue, pushOnOff, sendSem, recvSem, alive, producerVars, msgInfo, histVars>>

\* UtilsMsgQueueDeinit frees the queue, the semaphores and the lock.
Deinit ==
  /\ cpc = "deinit"
  /\ queue' = <<>>
  /\ sendSem' = 0
  /\ recvSem' = 0
  /\ alive' = FALSE
  /\ cpc' = "unset"
  /\ UNCHANGED <<source, pushOnOff, producerVars, msgInfo, histVars>>

\* SchedMsgQueueDeinit forgets the source after it was freed.
UnsetSource ==
  /\ cpc = "unset"
  /\ source' = FALSE
  /\ cpc' = "gone"
  /\ UNCHANGED <<queue, pushOnOff, sendSem, recvSem, alive, producerVars, msgInfo, histVars>>
-----------------------------------------------------------------------------
ProducerStep(p) ==
  \/ CheckPushOn(p) \/ PushWait(p)
  \/ RoomToken(p) \/ RoomTimeout(p)
  \/ Push(p) \/ PushRefused(p)

Serve == Poll \/ MessageToken \/ MessageTimeout \/ Pop \/ PopEmpty \/ Dispatch

Finalize == Suspend \/ Drain \/ DrainEnd \/ Deinit \/ UnsetSource

Next ==
  \/ \E p \in Producers : ProducerStep(p) \/ \E timed \in BOOLEAN : SendBegin(p, timed)
  \/ Serve
  \/ FinalizeBegin
  \/ Finalize

(* Threads are preemptively scheduled and timed waits end.  Nobody has to   *)
(* send, and nobody has to stop the loop.                                  *)
Fairness == /\ \A p \in Producers : WF_vars(ProducerStep(p))
            /\ WF_vars(Serve)
            /\ WF_vars(Finalize)

Spec == Init /\ [][Next]_vars /\ Fairness
-----------------------------------------------------------------------------
(* Type invariant; in particular both semaphores stay flags (0 or 1).      *)
TypeOK ==
  /\ source \in BOOLEAN /\ pushOnOff \in BOOLEAN /\ alive \in BOOLEAN
  /\ queue \in Seq(Messages)
  /\ sendSem \in {0, 1} /\ recvSem \in {0, 1}
  /\ ppc \in [Producers -> {"idle", "check", "room", "sem", "push", "wild"}]
  /\ patient \in [Producers -> BOOLEAN]
  /\ sent \in [Producers -> 0..MaxSends]
  /\ cpc \in {"iterate", "sem", "pop", "dispatch", "final", "drain", "deinit", "unset", "gone"}
  /\ msgInfo \in Messages \cup {None}
  /\ accepted \in Seq(Messages) /\ handled \in Seq(Messages)
  /\ late \subseteq Messages

(* NoLostWakeup: the loop never sleeps on sendSem over a message: whenever  *)
(* it waits and the queue is not empty, the semaphore has a token.  The     *)
(* test for emptiness and the wait are not atomic, and pushes post only     *)
(* when the count is zero.                                                  *)
NoLostWakeup == cpc = "sem" /\ queue # <<>> => sendSem = 1

(* Fifo: the queue with its lock, semaphores and timeouts is a bounded      *)
(* first-in first-out queue.                                                *)
Fifo == INSTANCE MsgFifo
ImplementsFifo == Fifo!Spec

(* SendReturns: every send returns, unless the source is freed while it     *)
(* runs; two producers that wait for room share one flag, so one of them    *)
(* may be left to its timeout.                                              *)
SendReturns == \A p \in Producers : ppc[p] # "idle" ~> ppc[p] \in {"idle", "wild"}

(* AcceptedHandled: a message accepted while pushes are on is eventually    *)
(* handled, by the loop or by the drain of finalization.                    *)
AcceptedHandled ==
  \A m \in Messages : m \in ToSet(accepted) \ late ~> m \in ToSet(handled)

(* SendsSettle: every send returns, unless the source is freed while it     *)
(* runs, and what was accepted while pushes were on is handled.             *)
SendsSettle == SendReturns /\ AcceptedHandled
=============================================================================
