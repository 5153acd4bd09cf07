--------------------------- MODULE SchedExecutor ---------------------------
(***************************************************************************)
(* The scheduler's executor (schedule/sched_executor.c): threads of the    *)
(* application hand a callback to the scheduler's event loop and wait for  *)
(* its result with a timeout.                                              *)
(*                                                                         *)
(* SchedAsyncExecutorWait serialises its callers with apiLock, publishes   *)
(* the caller's callback and the addresses of the caller's stack variables *)
(* in the shared taskInfo, posts a message WITHOUT any identity to the     *)
(* loop's queue and sleeps on waitSem.  The loop's handler runs whatever   *)
(* taskInfo holds when the message is served.  A caller that gives up      *)
(* leaves its message behind; that stale message later serves another      *)
(* caller's task.                                                          *)
(*                                                                         *)
(* Time is abstract: a timed wait may give up whenever it is not granted.  *)
(* The two-minute default timeout of UtilsExMutexLock, whose failure       *)
(* ExecutorMsgWaitHandler, ClearTaskInfo and GetTaskResult ignore, is      *)
(* taken never to expire: a callback returns within two minutes.           *)
(***************************************************************************)
EXTENDS Naturals, Sequences, FiniteSets

CONSTANTS Callers,    \* threads of the application
          Loop,       \* the thread that runs the scheduler's event loop
          None,       \* NULL
          Cap,        \* SCHED_MSG_QUEUE_MAX_CAP
          MaxCalls    \* bound: calls (of either kind) made in a behaviour

ASSUME CapAssumption == Cap \in Nat \ {0}
ASSUME MaxCallsAssumption == MaxCalls \in Nat
ASSUME ThreadAssumption == Loop \notin Callers /\ None \notin Callers /\ Loop # None

VARIABLES
  pc,        \* where each caller is in SchedAsyncExecutorWait
  waitRet,   \* what the caller's IotcSemWait returned
  ret,       \* what the caller's last call returned
  apiLock,   \* the caller holding ctx.apiLock
  taskLock,  \* Loop while the handler holds ctx.taskLock (callers hold it for one step)
  task,      \* ctx.taskInfo: the caller whose callback and frame it points to
  finish,    \* EXECUTOR_TASK_BIT_MAP_FINISH of ctx.taskInfo.bitMap
  waitSem,   \* count of ctx.waitSem
  queue,     \* the loop's message queue: "wait" and "async" messages
  loop,      \* where the loop is in the handler of the message it took
  inline,    \* where the loop returns to after a call made on its own thread
  running,   \* the caller whose callback the handler is running
  runs,      \* history: times the callback of the caller's call was started
  stale,     \* history: stale "wait" messages when the caller's task was set
  expired,   \* history: calls that sent a message and whose wait then expired
  calls      \* history: number of calls made, for the bound

vars == <<pc, waitRet, ret, apiLock, taskLock, task, finish, waitSem, queue,
          loop, inline, running, runs, stale, expired, calls>>

callerVars == <<pc, waitRet, ret>>
taskVars   == <<task, finish>>
loopVars   == <<loop, inline, running>>
histVars   == <<runs, stale, expired, calls>>

Kinds == {"wait", "async"}

\* The queue as MsgFifo promises it; the executor never destroys it.
Fifo == INSTANCE MsgFifo WITH Messages <- Kinds, alive <- TRUE

\* Where a call stands between taking apiLock and giving it back.
InCall == {"set", "send", "clear", "wait", "result"}

\* Where the caller's frame is, or may be, published in taskInfo.
Published == {"send", "clear", "wait", "result"}

WaitMessages == Cardinality({i \in DOMAIN queue : queue[i] = "wait"})
                + (IF loop = "lock" THEN 1 ELSE 0)

Init ==
  /\ pc = [c \in Callers |-> "idle"]
  /\ waitRet = [c \in Callers |-> "none"]
  /\ ret = [c \in Callers |-> "none"]
  /\ apiLock = None
  /\ taskLock = None
  /\ task = None
  /\ finish = FALSE
  /\ waitSem = 0
  /\ queue = <<>>
  /\ loop = "poll"
  /\ inline = "none"
  /\ running = None
  /\ runs = [c \in Callers |-> 0]
  /\ stale = [c \in Callers |-> 0]
  /\ expired = 0
  /\ calls = 0
-----------------------------------------------------------------------------
(* Faulty variants of the steps below, each a slip the code could have.     *)
(* They show that the properties at the end can fail.                      *)

\* The result is read without clearing taskInfo.
GetTaskResultNoClear(c) ==
  /\ pc[c] = "result"
  /\ taskLock = None
  /\ ret' = [ret EXCEPT ![c] = IF finish THEN "OK" ELSE "TIMEOUT"]
  /\ waitSem' = IF finish /\ waitRet[c] # "OK" /\ waitSem > 0 THEN waitSem - 1 ELSE waitSem
  /\ expired' = IF ~finish /\ waitRet[c] # "OK" THEN expired + 1 ELSE expired
  /\ apiLock' = None
  /\ pc' = [pc EXCEPT ![c] = "idle"]
  /\ UNCHANGED <<waitRet, taskLock, taskVars, queue, loopVars, runs, stale, calls>>

\* A token taken is believed, whoever posted it.
GetTaskResultTrustsToken(c) ==
  /\ pc[c] = "result"
  /\ taskLock = None
  /\ ret' = [ret EXCEPT ![c] = IF finish \/ waitRet[c] = "OK" THEN "OK" ELSE "TIMEOUT"]
  /\ waitSem' = IF finish /\ waitRet[c] # "OK" /\ waitSem > 0 THEN waitSem - 1 ELSE waitSem
  /\ expired' = IF ~finish /\ waitRet[c] # "OK" THEN expired + 1 ELSE expired
  /\ task' = None
  /\ finish' = FALSE
  /\ apiLock' = None
  /\ pc' = [pc EXCEPT ![c] = "idle"]
  /\ UNCHANGED <<waitRet, taskLock, queue, loopVars, runs, stale, calls>>

\* A send that was slow to be accepted is repeated.
SendTwice(c) ==
  /\ pc[c] = "send"
  /\ queue' = queue \o <<"wait", "wait">>
  /\ pc' = [pc EXCEPT ![c] = "wait"]
  /\ UNCHANGED <<waitRet, ret, apiLock, taskLock, task, finish, waitSem, loopVars, histVars>>

\* The handler returns after waking the caller, without unlocking taskLock.
WaitHandlerEndKeepLock ==
  /\ loop = "run"
  /\ finish' = TRUE
  /\ waitSem' = waitSem + 1
  /\ running' = None
  /\ loop' = "poll"
  /\ UNCHANGED <<callerVars, apiLock, taskLock, task, queue, inline, histVars>>
-----------------------------------------------------------------------------
(* SchedAsyncExecutorWait on a thread of the application.                  *)

\* The call begins: it will lock apiLock with the caller's timeout.
WaitCall(c) ==
  /\ pc[c] = "idle"
  /\ calls < MaxCalls
  /\ calls' = calls + 1
  /\ pc' = [pc EXCEPT ![c] = "api"]
  /\ ret' = [ret EXCEPT ![c] = "none"]
  /\ waitRet' = [waitRet EXCEPT ![c] = "none"]
  /\ runs' = [runs EXCEPT ![c] = 0]
  /\ stale' = [stale EXCEPT ![c] = 0]
  /\ UNCHANGED <<apiLock, taskLock, task, finish, waitSem, queue, loopVars, expired>>

LockApi(c) ==
  /\ pc[c] = "api"
  /\ apiLock = None
  /\ apiLock' = c
  /\ pc' = [pc EXCEPT ![c] = "set"]
  /\ UNCHANGED <<waitRet, ret, taskLock, task, finish, waitSem, queue, loopVars, histVars>>

\* UtilsExMutexLockTimeout on apiLock fails.
LockApiTimeout(c) ==
  /\ pc[c] = "api"
  /\ apiLock # None
  /\ pc' = [pc EXCEPT ![c] = "idle"]
  /\ ret' = [ret EXCEPT ![c] = "TIMEOUT"]
  /\ UNCHANGED <<waitRet, apiLock, taskLock, task, finish, waitSem, queue, loopVars, histVars>>

\* SetTaskInfo under taskLock.
SetTaskInfo(c) ==
  /\ pc[c] = "set"
  /\ taskLock = None
  /\ task' = c
  /\ finish' = FALSE
  /\ stale' = [stale EXCEPT ![c] = WaitMessages]
  /\ pc' = [pc EXCEPT ![c] = "send"]
  /\ UNCHANGED <<waitRet, ret, apiLock, taskLock, waitSem, queue, loopVars, runs, expired, calls>>

\* SetTaskInfo gives up on taskLock; the call returns without a task set.
SetTaskInfoTimeout(c) ==
  /\ pc[c] = "set"
  /\ taskLock # None
  /\ pc' = [pc EXCEPT ![c] = "idle"]
  /\ ret' = [ret EXCEPT ![c] = "TIMEOUT"]
  /\ apiLock' = None
  /\ UNCHANGED <<waitRet, taskLock, task, finish, waitSem, queue, loopVars, histVars>>

Send(c) ==
  /\ pc[c] = "send"
  /\ Fifo!Enqueue("wait")
  /\ pc' = [pc EXCEPT ![c] = "wait"]
  /\ UNCHANGED <<waitRet, ret, apiLock, taskLock, task, finish, waitSem, loopVars, histVars>>

\* The queue refuses the message: it is full, or the wait for room ended.
SendFails(c) ==
  /\ pc[c] = "send"
  /\ pc' = [pc EXCEPT ![c] = "clear"]
  /\ UNCHANGED <<waitRet, ret, apiLock, taskLock, task, finish, waitSem, queue, loopVars, histVars>>

\* ClearTaskInfo under taskLock, then apiLock is given back.
ClearTaskInfo(c) ==
  /\ pc[c] = "clear"
  /\ taskLock = None
  /\ task' = None
  /\ finish' = FALSE
  /\ apiLock' = None
  /\ ret' = [ret EXCEPT ![c] = "TIMEOUT"]
  /\ pc' = [pc EXCEPT ![c] = "idle"]
  /\ UNCHANGED <<waitRet, taskLock, waitSem, queue, loopVars, histVars>>

\* IotcSemWait takes a token.
SemWait(c) ==
  /\ pc[c] = "wait"
  /\ waitSem > 0
  /\ waitSem' = waitSem - 1
  /\ waitRet' = [waitRet EXCEPT ![c] = "OK"]
  /\ pc' = [pc EXCEPT ![c] = "result"]
  /\ UNCHANGED <<ret, apiLock, taskLock, task, finish, queue, loopVars, histVars>>

\* IotcSemWait expires.
SemWaitTimeout(c) ==
  /\ pc[c] = "wait"
  /\ waitSem = 0
  /\ waitRet' = [waitRet EXCEPT ![c] = "TIMEOUT"]
  /\ pc' = [pc EXCEPT ![c] = "result"]
  /\ UNCHANGED <<ret, apiLock, taskLock, task, finish, waitSem, queue, loopVars, histVars>>

\* GetTaskResult under taskLock, then apiLock is given back.  A task that
\* finished after the wait expired still counts, and its token is taken.
GetTaskResult(c) ==
  /\ pc[c] = "result"
  /\ taskLock = None
  /\ ret' = [ret EXCEPT ![c] = IF finish THEN "OK" ELSE "TIMEOUT"]
  /\ waitSem' = IF finish /\ waitRet[c] # "OK" /\ waitSem > 0 THEN waitSem - 1 ELSE waitSem
  /\ expired' = IF ~finish /\ waitRet[c] # "OK" THEN expired + 1 ELSE expired
  /\ task' = None
  /\ finish' = FALSE
  /\ apiLock' = None
  /\ pc' = [pc EXCEPT ![c] = "idle"]
  /\ UNCHANGED <<waitRet, taskLock, queue, loopVars, runs, stale, calls>>

\* SchedAsyncExecutor: the callback travels in the message, nobody waits.
AsyncCall(c) ==
  /\ pc[c] = "idle"
  /\ calls < MaxCalls
  /\ calls' = calls + 1
  /\ Fifo!Enqueue("async")
  /\ UNCHANGED <<callerVars, apiLock, taskLock, task, finish, waitSem, loopVars, runs, stale, expired>>
-----------------------------------------------------------------------------
(* The loop's thread: MsgInfoHandler serves one message at a time.         *)

TakeMessage ==
  /\ loop = "poll"
  /\ Fifo!Dequeue
  /\ loop' = IF Head(queue) = "wait" THEN "lock" ELSE "async"
  /\ UNCHANGED <<callerVars, apiLock, taskLock, taskVars, waitSem, inline, running, histVars>>

\* ExecutorMsgWaitHandler finds a task, whoever's it is, and starts it.
WaitHandlerStart ==
  /\ loop = "lock"
  /\ taskLock = None
  /\ task # None
  /\ taskLock' = Loop
  /\ running' = task
  /\ runs' = [runs EXCEPT ![task] = @ + 1]
  /\ loop' = "run"
  /\ UNCHANGED <<callerVars, apiLock, taskVars, waitSem, queue, inline, stale, expired, calls>>

\* ExecutorMsgWaitHandler locks taskLock and finds no task.
WaitHandlerNoTask ==
  /\ loop = "lock"
  /\ taskLock = None
  /\ task = None
  /\ taskLock' = Loop
  /\ loop' = "notask"
  /\ UNCHANGED <<callerVars, apiLock, taskVars, waitSem, queue, inline, running, histVars>>

WaitHandlerUnlock ==
  /\ loop = "notask"
  /\ taskLock' = None
  /\ loop' = "poll"
  /\ UNCHANGED <<callerVars, apiLock, taskVars, waitSem, queue, inline, running, histVars>>

\* The callback returns: *errcode is written, FINISH set, the caller woken.
WaitHandlerEnd ==
  /\ loop = "run"
  /\ finish' = TRUE
  /\ waitSem' = waitSem + 1
  /\ taskLock' = None
  /\ running' = None
  /\ loop' = "poll"
  /\ UNCHANGED <<callerVars, apiLock, task, queue, inline, histVars>>

\* ExecutorMsgHandler: the callback of an "async" message returns.
AsyncHandlerEnd ==
  /\ loop = "async"
  /\ loop' = "poll"
  /\ UNCHANGED <<callerVars, apiLock, taskLock, taskVars, waitSem, queue, inline, running, histVars>>

\* SchedAsyncExecutorWait called by a callback on the loop's own thread runs
\* its callback in place: no lock, no message, no shared state.
InlineCall ==
  /\ loop \in {"run", "async"}
  /\ calls < MaxCalls
  /\ calls' = calls + 1
  /\ inline' = loop
  /\ loop' = "inline"
  /\ UNCHANGED <<callerVars, apiLock, taskLock, taskVars, waitSem, queue, running, runs, stale, expired>>

InlineReturn ==
  /\ loop = "inline"
  /\ loop' = inline
  /\ inline' = "none"
  /\ UNCHANGED <<callerVars, apiLock, taskLock, taskVars, waitSem, queue, running, histVars>>
-----------------------------------------------------------------------------
CallerStep(c) ==
  \/ LockApi(c) \/ LockApiTimeout(c)
  \/ SetTaskInfo(c) \/ SetTaskInfoTimeout(c)
  \/ Send(c) \/ SendFails(c) \/ ClearTaskInfo(c)
  \/ SemWait(c) \/ SemWaitTimeout(c) \/ GetTaskResult(c)

LoopStep ==
  \/ TakeMessage
  \/ WaitHandlerStart \/ WaitHandlerEnd
  \/ WaitHandlerNoTask \/ WaitHandlerUnlock
  \/ AsyncHandlerEnd
  \/ InlineReturn

Next ==
  \/ \E c \in Callers : WaitCall(c) \/ AsyncCall(c) \/ CallerStep(c)
  \/ LoopStep
  \/ InlineCall

(* Threads are preemptively scheduled, every timed wait ends, and every    *)
(* callback returns; nobody is obliged to make a call.                     *)
Fairness == /\ \A c \in Callers : WF_vars(CallerStep(c))
            /\ WF_vars(LoopStep)

Spec == Init /\ [][Next]_vars /\ Fairness
-----------------------------------------------------------------------------
(* Type invariant: every variable of the executor's context, of the callers *)
(* and of the loop stays in the range the C types and the code give it.    *)
TypeOK ==
  /\ pc \in [Callers -> {"idle", "api"} \cup InCall]
  /\ waitRet \in [Callers -> {"none", "OK", "TIMEOUT"}]
  /\ ret \in [Callers -> {"none", "OK", "TIMEOUT"}]
  /\ apiLock \in Callers \cup {None}
  /\ taskLock \in {Loop, None}
  /\ task \in Callers \cup {None}
  /\ finish \in BOOLEAN
  /\ waitSem \in Nat
  /\ queue \in Seq(Kinds)
  /\ loop \in {"poll", "lock", "run", "notask", "async", "inline"}
  /\ inline \in {"none", "run", "async"}
  /\ running \in Callers \cup {None}
  /\ runs \in [Callers -> Nat]
  /\ stale \in [Callers -> Nat]
  /\ expired \in Nat
  /\ calls \in Nat

(* FrameAlive: while the loop runs a callback for a caller, that caller has *)
(* not returned from SchedAsyncExecutorWait.  The handler writes *errcode   *)
(* and *outData on the caller's stack, also when the caller's wait expired  *)
(* long ago and when a stale message started the callback.                  *)
FrameAlive == running # None => pc[running] \in Published

(* OkMeansRan: SchedAsyncExecutorWait returns IOTC_OK only when the          *)
(* callback of this very call was run, whatever tokens and messages earlier *)
(* calls left in the semaphore and in the queue.                            *)
OkMeansRan == \A c \in Callers : ret[c] = "OK" => runs[c] >= 1

(* TimeoutMeansNotRan: a call that returns IOTC_ERR_TIMEOUT has not run its  *)
(* callback, unless a stale message of an expired call ran it between       *)
(* SetTaskInfo and a refused send.                                          *)
TimeoutMeansNotRan ==
  \A c \in Callers : ret[c] = "TIMEOUT" /\ runs[c] > 0 => stale[c] > 0

(* RunsBounded: a callback is run once, plus at most once for every stale   *)
(* message that expired calls had left in the queue when it was published.  *)
RunsBounded == \A c \in Callers : runs[c] <= 1 + stale[c]

(* TokensAccounted: between calls, the tokens left in waitSem and the wait   *)
(* messages left with the loop are together no more than the calls whose    *)
(* wait expired: a call that ends normally leaves nothing behind that could *)
(* wake a later caller before its task ran.                                 *)
TokensAccounted == apiLock = None => waitSem + WaitMessages <= expired

(* Leftovers: what earlier calls leave in the queue and in waitSem changes   *)
(* a later call only within these bounds.                                   *)
Leftovers == TimeoutMeansNotRan /\ RunsBounded /\ TokensAccounted

(* CallReturns: every SchedAsyncExecutorWait returns, whatever the loop and  *)
(* the other callers do.                                                    *)
CallReturns == \A c \in Callers : pc[c] # "idle" ~> pc[c] = "idle"
=============================================================================
