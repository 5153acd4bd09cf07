------------------------ MODULE SchedExecutorProofs ------------------------
(***************************************************************************)
(* Proofs about the executor, for any number of callers, any capacity of   *)
(* the queue and any number of calls.  The invariant ties the two locks,   *)
(* the shared taskInfo and the positions of the callers together: taskInfo *)
(* points into the frame of the caller that holds apiLock, and the handler *)
(* keeps taskLock for as long as it runs that caller's callback.           *)
(***************************************************************************)
EXTENDS SchedExecutor, FiniteSetTheorems, TLAPS

\* The handler is inside a callback started by a "wait" message.
InTask == loop = "run" \/ (loop = "inline" /\ inline = "run")

(* The inductive invariant behind FrameAlive and OkMeansRan.               *)
IInv ==
  /\ TypeOK
  /\ \A c \in Callers : pc[c] \in InCall <=> apiLock = c
  /\ \A c \in Callers : pc[c] \in Published => task = c
  /\ task # None => pc[task] \in Published
  /\ running # None => task = running /\ runs[running] >= 1
  /\ InTask <=> running # None
  /\ taskLock = Loop <=> running # None \/ loop = "notask"
  /\ loop = "inline" <=> inline # "none"
  /\ finish => task # None /\ runs[task] >= 1
  /\ \A c \in Callers : ret[c] = "OK" => runs[c] >= 1

USE DEF InCall, Published, Kinds

(* The executor starts in the invariant: no call, no task, no token.       *)
LEMMA InitIInv == Init => IInv
<1> SUFFICES ASSUME Init PROVE IInv
  OBVIOUS
<1> USE ThreadAssumption DEF Init
<1>1. TypeOK
  <2>1. /\ pc \in [Callers -> {"idle", "api"} \cup InCall]
        /\ waitRet \in [Callers -> {"none", "OK", "TIMEOUT"}]
        /\ ret \in [Callers -> {"none", "OK", "TIMEOUT"}]
    OBVIOUS
  <2>2. runs \in [Callers -> Nat] /\ stale \in [Callers -> Nat]
    OBVIOUS
  <2>3. queue \in Seq(Kinds)
    OBVIOUS
  <2>4. finish \in BOOLEAN
    OBVIOUS
  <2> QED
    BY <2>1, <2>2, <2>3, <2>4 DEF TypeOK
<1>2. /\ \A c \in Callers : pc[c] \in InCall <=> apiLock = c
      /\ \A c \in Callers : pc[c] \in Published => task = c
      /\ \A c \in Callers : ret[c] = "OK" => runs[c] >= 1
  OBVIOUS
<1>3. /\ InTask <=> running # None
      /\ taskLock = Loop <=> running # None \/ loop = "notask"
      /\ loop = "inline" <=> inline # "none"
  BY DEF InTask
<1> QED
  BY <1>1, <1>2, <1>3 DEF IInv

(* The number of wait messages with the loop is a natural number.          *)
LEMMA WaitMessagesNat == TypeOK => WaitMessages \in Nat
<1> SUFFICES ASSUME TypeOK PROVE WaitMessages \in Nat
  OBVIOUS
<1> DEFINE W == {i \in DOMAIN queue : queue[i] = "wait"}
<1>1. IsFiniteSet(1..Len(queue))
  BY FS_Interval DEF TypeOK
<1>2. W \subseteq 1..Len(queue)
  BY DEF TypeOK
<1>3. Cardinality(W) \in Nat
  BY <1>1, <1>2, FS_Subset, FS_CardinalityType
<1> QED
  BY <1>3 DEF WaitMessages

(* Every step of a caller and of the loop keeps every variable in its type. *)
LEMMA TypePreserved == IInv /\ [Next]_vars => TypeOK'
<1> SUFFICES ASSUME TypeOK, loop = "inline" => inline # "none", [Next]_vars PROVE TypeOK'
  BY DEF IInv
<1> USE ThreadAssumption DEF TypeOK
<1>1. CASE UNCHANGED vars
  BY <1>1 DEF vars
<1>2. ASSUME NEW c \in Callers, WaitCall(c) PROVE TypeOK'
  BY <1>2 DEF WaitCall, loopVars
<1>3. ASSUME NEW c \in Callers, AsyncCall(c) PROVE TypeOK'
  BY <1>3 DEF AsyncCall, Fifo!Enqueue, loopVars, callerVars
<1>4. ASSUME NEW c \in Callers, CallerStep(c) PROVE TypeOK'
  <2>1. CASE LockApi(c)
    BY <2>1 DEF LockApi, loopVars, histVars
  <2>2. CASE LockApiTimeout(c)
    BY <2>2 DEF LockApiTimeout, loopVars, histVars
  <2>3. CASE SetTaskInfo(c)
    BY <2>3, WaitMessagesNat DEF SetTaskInfo, loopVars
  <2>4. CASE SetTaskInfoTimeout(c)
    BY <2>4 DEF SetTaskInfoTimeout, loopVars, histVars
  <2>5. CASE Send(c)
    BY <2>5 DEF Send, Fifo!Enqueue, loopVars, histVars
  <2>6. CASE SendFails(c)
    BY <2>6 DEF SendFails, loopVars, histVars
  <2>7. CASE ClearTaskInfo(c)
    BY <2>7 DEF ClearTaskInfo, loopVars, histVars
  <2>8. CASE SemWait(c)
    BY <2>8 DEF SemWait, loopVars, histVars
  <2>9. CASE SemWaitTimeout(c)
    BY <2>9 DEF SemWaitTimeout, loopVars, histVars
  <2>10. CASE GetTaskResult(c)
    <3>1. waitSem' \in Nat /\ expired' \in Nat
      BY <2>10 DEF GetTaskResult
    <3>2. ret' \in [Callers -> {"none", "OK", "TIMEOUT"}]
      BY <2>10 DEF GetTaskResult
    <3> QED
      BY <2>10, <3>1, <3>2 DEF GetTaskResult, loopVars
  <2> QED
    BY <1>4, <2>1, <2>2, <2>3, <2>4, <2>5, <2>6, <2>7, <2>8, <2>9, <2>10 DEF CallerStep
<1>5. CASE LoopStep
  <2>1. CASE TakeMessage
    BY <2>1 DEF TakeMessage, Fifo!Dequeue, callerVars, taskVars, histVars
  <2>2. CASE WaitHandlerStart
    BY <2>2 DEF WaitHandlerStart, callerVars, taskVars
  <2>3. CASE WaitHandlerNoTask
    BY <2>3 DEF WaitHandlerNoTask, callerVars, taskVars, histVars
  <2>7. CASE WaitHandlerUnlock
    BY <2>7 DEF WaitHandlerUnlock, callerVars, taskVars, histVars
  <2>4. CASE WaitHandlerEnd
    BY <2>4 DEF WaitHandlerEnd, callerVars, histVars
  <2>5. CASE AsyncHandlerEnd
    BY <2>5 DEF AsyncHandlerEnd, callerVars, taskVars, histVars
  <2>6. CASE InlineReturn
    BY <2>6 DEF InlineReturn, callerVars, taskVars, histVars
  <2> QED
    BY <1>5, <2>1, <2>2, <2>3, <2>4, <2>5, <2>6, <2>7 DEF LoopStep
<1>6. CASE InlineCall
  BY <1>6 DEF InlineCall, callerVars, taskVars
<1> QED
  BY <1>1, <1>2, <1>3, <1>4, <1>5, <1>6 DEF Next

(* Every step keeps taskInfo inside the frame of the caller in the call.    *)
LEMMA NextIInv == IInv /\ [Next]_vars => IInv'
<1> SUFFICES ASSUME IInv, [Next]_vars PROVE IInv'
  OBVIOUS
<1>0. TypeOK /\ TypeOK'
  BY TypePreserved DEF IInv
<1> USE ThreadAssumption, <1>0 DEF IInv, TypeOK, InTask
<1>1. CASE UNCHANGED vars
  BY <1>1 DEF vars
<1>2. ASSUME NEW c \in Callers, WaitCall(c) PROVE IInv'
  BY <1>2 DEF WaitCall, loopVars
<1>3. ASSUME NEW c \in Callers, AsyncCall(c) PROVE IInv'
  BY <1>3 DEF AsyncCall, loopVars, callerVars
<1>4. ASSUME NEW c \in Callers, CallerStep(c) PROVE IInv'
  <2>1. CASE LockApi(c)
    BY <2>1 DEF LockApi, loopVars, histVars
  <2>2. CASE LockApiTimeout(c)
    BY <2>2 DEF LockApiTimeout, loopVars, histVars
  <2>3. CASE SetTaskInfo(c)
    BY <2>3 DEF SetTaskInfo, loopVars
  <2>4. CASE SetTaskInfoTimeout(c)
    BY <2>4 DEF SetTaskInfoTimeout, loopVars, histVars
  <2>5. CASE Send(c)
    BY <2>5 DEF Send, loopVars, histVars
  <2>6. CASE SendFails(c)
    BY <2>6 DEF SendFails, loopVars, histVars
  <2>7. CASE ClearTaskInfo(c)
    BY <2>7 DEF ClearTaskInfo, loopVars, histVars
  <2>8. CASE SemWait(c)
    BY <2>8 DEF SemWait, loopVars, histVars
  <2>9. CASE SemWaitTimeout(c)
    BY <2>9 DEF SemWaitTimeout, loopVars, histVars
  <2>10. CASE GetTaskResult(c)
    BY <2>10 DEF GetTaskResult, loopVars
  <2> QED
    BY <1>4, <2>1, <2>2, <2>3, <2>4, <2>5, <2>6, <2>7, <2>8, <2>9, <2>10 DEF CallerStep
<1>5. CASE LoopStep
  <2>1. CASE TakeMessage
    BY <2>1 DEF TakeMessage, callerVars, taskVars, histVars
  <2>2. CASE WaitHandlerStart
    BY <2>2 DEF WaitHandlerStart, callerVars, taskVars
  <2>3. CASE WaitHandlerNoTask
    BY <2>3 DEF WaitHandlerNoTask, callerVars, taskVars, histVars
  <2>7. CASE WaitHandlerUnlock
    BY <2>7 DEF WaitHandlerUnlock, callerVars, taskVars, histVars
  <2>4. CASE WaitHandlerEnd
    BY <2>4 DEF WaitHandlerEnd, callerVars, histVars
  <2>5. CASE AsyncHandlerEnd
    BY <2>5 DEF AsyncHandlerEnd, callerVars, taskVars, histVars
  <2>6. CASE InlineReturn
    BY <2>6 DEF InlineReturn, callerVars, taskVars, histVars
  <2> QED
    BY <1>5, <2>1, <2>2, <2>3, <2>4, <2>5, <2>6, <2>7 DEF LoopStep
<1>6. CASE InlineCall
  BY <1>6 DEF InlineCall, callerVars, taskVars
<1> QED
  BY <1>1, <1>2, <1>3, <1>4, <1>5, <1>6 DEF Next

(* The invariant holds throughout every behaviour of the executor.         *)
THEOREM ExecutorInv == Spec => []IInv
  BY InitIInv, NextIInv, PTL DEF Spec

(* Type correctness of the executor's context, its callers and its loop.   *)
THEOREM ExecutorTypeOK == Spec => []TypeOK
<1>1. IInv => TypeOK
  BY DEF IInv
<1> QED
  BY <1>1, ExecutorInv, PTL

(* The loop never runs a callback whose caller has returned from           *)
(* SchedAsyncExecutorWait, for any number of callers and messages.         *)
THEOREM ExecutorFrameAlive == Spec => []FrameAlive
<1>1. IInv => FrameAlive
  BY DEF IInv, FrameAlive
<1> QED
  BY <1>1, ExecutorInv, PTL

(* IOTC_OK is returned only by a call whose own callback was run.          *)
THEOREM ExecutorOkMeansRan == Spec => []OkMeansRan
<1>1. IInv => OkMeansRan
  BY DEF IInv, OkMeansRan
<1> QED
  BY <1>1, ExecutorInv, PTL
=============================================================================
