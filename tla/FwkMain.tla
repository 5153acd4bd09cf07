------------------------------ MODULE FwkMain ------------------------------
(***************************************************************************)
(* The life of the component (frameworks/main/fwk_main.c, the one loop it  *)
(* runs from main_loop.c and sched_main_loop.c, and IotcOhMain, IotcOhStop *)
(* and IotcOhReset of the SDK).  The application starts a main task, which *)
(* initializes, runs the event loop, deinitializes and starts over until   *)
(* g_existsFlag falls; application threads stop and reset it and wait for  *)
(* its notice; callbacks on the loop ask for a reset themselves.           *)
(*                                                                         *)
(* Only App calls IotcOhMain.  FwkInitAll is four stages: the loop list is *)
(* emptied, the event loop made, the loop registered, the rest done.       *)
(* Global lock sections are single steps.                                  *)
(***************************************************************************)
EXTENDS Naturals, FiniteSets

CONSTANTS Callers,      \* application threads
          App,          \* the one that calls IotcOhMain
          None,         \* no semaphore
          MaxTasks,     \* bound: main tasks ever created
          Uses          \* ways the component is used: [by, calls, upsets, rough],
                        \* the threads that stop and reset it, the bounds on API
                        \* calls and on notifications and failures, and whether
                        \* anything may go wrong: a wait of 30 seconds runs out,
                        \* initialization fails, stop and reset are called before
                        \* the loop runs, anything while a stop is under way

Tasks == 1..MaxTasks
Stages == 4

VARIABLES
  units,      \* the init units are registered
  exists,     \* g_existsFlag
  resetSem,   \* g_resetSem: None or its count
  exitSem,    \* g_exitSem
  taskId,     \* g_mainTaskId, 0 for NULL
  tpc,        \* per task: where it is in IotcFwkMainTaskBody
  inited,     \* stages of FwkInitAll done
  reg,        \* the loop is in loopList
  quit,       \* the event loop's quit flag; meaningful while inited >= 2
  cpc, op,    \* per caller: step and operation
  calls,      \* history: calls made
  upsets,     \* history: notifications of callbacks and failures to initialize
  restarted,  \* history: callers since whose reset the task began its cycle anew
  cleared,    \* history: callers since whose reset nothing initialized was kept
  use         \* the way the component is used

tvars == <<taskId, tpc, inited, reg, quit, restarted, cleared>>
cvars == <<cpc, op, calls, units>>
svars == <<exists, resetSem, exitSem>>
vars == <<svars, tvars, cvars, upsets, use>>

Live(t) == tpc[t] \notin {"none", "gone", "exitnotice"}
Looping == \E t \in Tasks : tpc[t] = "loop"
Post(sem) == IF sem = None THEN None ELSE sem + 1

Init ==
  /\ units = FALSE /\ exists = FALSE /\ resetSem = None /\ exitSem = None
  /\ taskId = 0 /\ tpc = [t \in Tasks |-> "none"]
  /\ inited = 0 /\ reg = FALSE /\ quit = FALSE
  /\ cpc = [c \in Callers |-> "idle"] /\ op = [c \in Callers |-> "none"]
  /\ calls = 0 /\ upsets = 0 /\ restarted = Callers /\ cleared = Callers
  /\ use \in Uses
-----------------------------------------------------------------------------
(* Faulty variants of the steps below.                                     *)

\* The reset notice is posted as soon as the loop has ended.
LoopEndNotices(t) ==
  /\ tpc[t] = "loop" /\ quit
  /\ reg' = FALSE
  /\ resetSem' = Post(resetSem)
  /\ tpc' = [tpc EXCEPT ![t] = "deinit"]
  /\ UNCHANGED <<exists, exitSem, cvars, taskId, inited, quit, restarted, cleared, upsets>>

\* The exit function does not reach the loop.
LoopExitQuitLost(c) ==
  /\ cpc[c] = "quit"
  /\ cpc' = [cpc EXCEPT ![c] = "wait"]
  /\ UNCHANGED <<svars, tvars, op, calls, units, upsets>>

\* The task posts its exit before it deinitializes.
DeinitAfterNotice(t) ==
  /\ tpc[t] = "deinit"
  /\ exitSem' = IF exists THEN exitSem ELSE Post(exitSem)
  /\ tpc' = [tpc EXCEPT ![t] = "cond"]
  /\ inited' = 0 /\ reg' = FALSE /\ quit' = FALSE
  /\ cleared' = Callers
  /\ UNCHANGED <<exists, resetSem, cvars, taskId, restarted, upsets>>

\* A finished call leaves its semaphore to the next one.
DestroyKeep(c) ==
  /\ cpc[c] \in {"success", "failure"}
  /\ cpc' = [cpc EXCEPT ![c] = "idle"] /\ op' = [op EXCEPT ![c] = "none"]
  /\ UNCHANGED <<svars, tvars, calls, units, upsets>>

-----------------------------------------------------------------------------
(* Application threads.                                                    *)

Begin(c, o) ==
  /\ cpc[c] = "idle"
  /\ calls < use.calls
  /\ calls' = calls + 1
  /\ op' = [op EXCEPT ![c] = o]

AtOnce(c) ==
  /\ cpc[c] = "idle"
  /\ calls < use.calls
  /\ calls' = calls + 1
  /\ UNCHANGED <<svars, tvars, cpc, op, upsets>>

Refused(c) == AtOnce(c) /\ UNCHANGED units

Return(c) == cpc' = [cpc EXCEPT ![c] = "idle"] /\ op' = [op EXCEPT ![c] = "none"]

\* IotcOhMain: refused while a main task runs; registers the init units.
Main ==
  /\ taskId = 0
  /\ ~use.rough => \A c \in Callers : op[c] # "stop"
  /\ Begin(App, "main")
  /\ units' = TRUE
  /\ cpc' = [cpc EXCEPT ![App] = "main"]
  /\ UNCHANGED <<svars, tvars, upsets>>

MainRefused == taskId # 0 /\ Refused(App)

\* IotcFwkMain: the flag, then the task, which may run before its id is stored.
MainFlag ==
  /\ cpc[App] = "main"
  /\ exists' = TRUE
  /\ cpc' = [cpc EXCEPT ![App] = "create"]
  /\ UNCHANGED <<resetSem, exitSem, tvars, op, calls, units, upsets>>

Create ==
  /\ cpc[App] = "create"
  /\ \E t \in Tasks :
       /\ tpc[t] = "none" /\ \A s \in Tasks : s < t => tpc[s] # "none"
       /\ tpc' = [tpc EXCEPT ![t] = "notice"]
  /\ cpc' = [cpc EXCEPT ![App] = "store"]
  /\ UNCHANGED <<svars, taskId, inited, reg, quit, restarted, cleared, op, calls, units, upsets>>

CreateFails ==
  /\ cpc[App] = "create"
  /\ exists' = FALSE
  /\ units' = FALSE
  /\ Return(App)
  /\ UNCHANGED <<resetSem, exitSem, tvars, calls, upsets>>

Store ==
  /\ cpc[App] = "store"
  /\ taskId' = CHOOSE t \in Tasks : tpc[t] # "none" /\ \A s \in Tasks : tpc[s] # "none" => s <= t
  /\ Return(App)
  /\ UNCHANGED <<svars, tpc, inited, reg, quit, restarted, cleared, calls, units, upsets>>

MayCall == use.rough \/ (Looping /\ exists /\ op[App] # "main")

\* IotcFwkReset and IotcFwkStop look at the flag without the lock.
Reset(c) ==
  /\ MayCall /\ exists
  /\ Begin(c, "reset")
  /\ cpc' = [cpc EXCEPT ![c] = "sem"]
  /\ UNCHANGED <<svars, tvars, units, upsets>>

ResetRefused(c) == ~exists /\ Refused(c)

\* Without a main task a stop is a success at once, and IotcOhStop then
\* unregisters the init units.
Stop(c) ==
  /\ MayCall /\ exists
  /\ Begin(c, "stop")
  /\ cpc' = [cpc EXCEPT ![c] = "sem"]
  /\ UNCHANGED <<svars, tvars, units, upsets>>

StopAtOnce(c) ==
  /\ ~exists /\ AtOnce(c)
  /\ units' = FALSE
  /\ ~use.rough => op[App] # "main" /\ \A t \in Tasks : ~Live(t)

SemOf(c) == IF op[c] = "reset" THEN resetSem ELSE exitSem

\* MainTaskCreateSem: under the lock, whatever became of the flag; refused
\* while another call waits.
MainTaskCreateSem(c) ==
  /\ cpc[c] = "sem" /\ SemOf(c) = None
  /\ IF op[c] = "reset"
     THEN /\ resetSem' = 0 /\ exitSem' = exitSem
          /\ cpc' = [cpc EXCEPT ![c] = "snapshot"]
          /\ restarted' = restarted \ {c}
          /\ cleared' = IF inited > 0 THEN cleared \ {c} ELSE cleared
     ELSE /\ exitSem' = 0 /\ resetSem' = resetSem
          /\ cpc' = [cpc EXCEPT ![c] = "flag"]
          /\ UNCHANGED <<restarted, cleared>>
  /\ UNCHANGED <<exists, taskId, tpc, inited, reg, quit, op, calls, units, upsets>>

CreateSemFails(c) ==
  /\ cpc[c] = "sem" /\ (SemOf(c) # None \/ use.rough)
  /\ Return(c)
  /\ UNCHANGED <<svars, tvars, calls, units, upsets>>

StopFlag(c) ==
  /\ cpc[c] = "flag"
  /\ exists' = FALSE
  /\ cpc' = [cpc EXCEPT ![c] = "snapshot"]
  /\ UNCHANGED <<resetSem, exitSem, tvars, op, calls, units, upsets>>

\* FwkMainLoopExit: the list is copied under the lock, the exit functions
\* are called outside it; a list without loops has nobody to tell.
LoopExitSnapshot(c) ==
  /\ cpc[c] = "snapshot"
  /\ cpc' = [cpc EXCEPT ![c] = IF reg THEN "quit" ELSE "wait"]
  /\ UNCHANGED <<svars, tvars, op, calls, units, upsets>>

LoopExitQuit(c) ==
  /\ cpc[c] = "quit"
  /\ quit' = (inited >= 2)
  /\ cpc' = [cpc EXCEPT ![c] = "wait"]
  /\ UNCHANGED <<svars, taskId, tpc, inited, reg, restarted, cleared, op, calls, units, upsets>>

\* MainTaskWaitAndDestroySem.  A wait for a task that has ended runs out.
WaitToken(c) ==
  /\ cpc[c] = "wait" /\ SemOf(c) > 0
  /\ resetSem' = IF op[c] = "reset" THEN resetSem - 1 ELSE resetSem
  /\ exitSem' = IF op[c] = "stop" THEN exitSem - 1 ELSE exitSem
  /\ cpc' = [cpc EXCEPT ![c] = "success"]
  /\ UNCHANGED <<exists, tvars, op, calls, units, upsets>>

WaitTimeout(c) ==
  /\ cpc[c] = "wait" /\ SemOf(c) = 0
  /\ use.rough \/ \A t \in Tasks : tpc[t] \in {"none", "gone"}
  /\ cpc' = [cpc EXCEPT ![c] = "failure"]
  /\ UNCHANGED <<svars, tvars, op, calls, units, upsets>>

\* After a successful stop IotcOhStop unregisters the init units.
Destroy(c) ==
  /\ cpc[c] \in {"success", "failure"}
  /\ resetSem' = IF op[c] = "reset" THEN None ELSE resetSem
  /\ exitSem' = IF op[c] = "stop" THEN None ELSE exitSem
  /\ units' = (units /\ ~(op[c] = "stop" /\ cpc[c] = "success"))
  /\ Return(c)
  /\ restarted' = restarted \cup {c} /\ cleared' = cleared \cup {c}
  /\ UNCHANGED <<exists, taskId, tpc, inited, reg, quit, calls, upsets>>
-----------------------------------------------------------------------------
(* A callback on the loop: IotcFwkNotifyReset, and IotcFwkNotifyStop, which *)
(* nothing in the tree calls.                                              *)

NotifyReset ==
  /\ Looping /\ upsets < use.upsets
  /\ upsets' = upsets + 1
  /\ quit' = TRUE
  /\ UNCHANGED <<svars, taskId, tpc, inited, reg, restarted, cleared, cvars>>

NotifyStop ==
  /\ Looping /\ upsets < use.upsets /\ use.rough
  /\ upsets' = upsets + 1
  /\ exists' = FALSE
  /\ quit' = TRUE
  /\ UNCHANGED <<resetSem, exitSem, taskId, tpc, inited, reg, restarted, cleared, cvars>>
-----------------------------------------------------------------------------
(* The main task.                                                          *)

Notice(t) ==
  /\ tpc[t] = "notice"
  /\ resetSem' = Post(resetSem)
  /\ restarted' = Callers
  /\ tpc' = [tpc EXCEPT ![t] = "init"]
  /\ UNCHANGED <<exists, exitSem, taskId, inited, reg, quit, cleared, cvars, upsets>>

\* FwkInitAll: stages done before a failure are not done again.
InitStage(t) ==
  /\ tpc[t] = "init" /\ inited < Stages
  /\ inited' = inited + 1
  /\ reg' = CASE inited' = 1 -> FALSE [] inited' = 3 -> TRUE [] OTHER -> reg
  /\ quit' = IF inited' = 2 THEN FALSE ELSE quit
  /\ UNCHANGED <<svars, taskId, tpc, restarted, cleared, cvars, upsets>>

\* A failure ends the cycle without deinitialization.
InitFails(t) ==
  /\ tpc[t] = "init" /\ inited < Stages /\ use.rough
  /\ upsets < use.upsets
  /\ upsets' = upsets + 1
  /\ tpc' = [tpc EXCEPT ![t] = "cond"]
  /\ UNCHANGED <<svars, taskId, inited, reg, quit, restarted, cleared, cvars>>

\* FwkMainLoopEntry.
Entry(t) ==
  /\ tpc[t] = "init" /\ inited = Stages
  /\ tpc' = [tpc EXCEPT ![t] = IF reg THEN "loop" ELSE "deinit"]
  /\ UNCHANGED <<svars, taskId, inited, reg, quit, restarted, cleared, cvars, upsets>>

\* The loop sees its quit flag; LoopTask takes it off the list.
LoopEnd(t) ==
  /\ tpc[t] = "loop" /\ quit
  /\ reg' = FALSE
  /\ tpc' = [tpc EXCEPT ![t] = "deinit"]
  /\ UNCHANGED <<svars, cvars, taskId, inited, quit, restarted, cleared, upsets>>

\* FwkDeinitAll.
Deinit(t) ==
  /\ tpc[t] = "deinit"
  /\ tpc' = [tpc EXCEPT ![t] = "cond"]
  /\ inited' = 0 /\ reg' = FALSE /\ quit' = FALSE
  /\ cleared' = Callers
  /\ UNCHANGED <<svars, cvars, taskId, restarted, upsets>>

Cond(t) ==
  /\ tpc[t] = "cond"
  /\ tpc' = [tpc EXCEPT ![t] = IF exists THEN "notice" ELSE "exit"]
  /\ UNCHANGED <<svars, cvars, taskId, inited, reg, quit, restarted, cleared, upsets>>

Exit(t) ==
  /\ tpc[t] = "exit"
  /\ taskId' = 0
  /\ tpc' = [tpc EXCEPT ![t] = "exitnotice"]
  /\ UNCHANGED <<svars, cvars, inited, reg, quit, restarted, cleared, upsets>>

ExitNotice(t) ==
  /\ tpc[t] = "exitnotice"
  /\ exitSem' = Post(exitSem)
  /\ tpc' = [tpc EXCEPT ![t] = "gone"]
  /\ UNCHANGED <<exists, resetSem, cvars, taskId, inited, reg, quit, restarted, cleared, upsets>>
-----------------------------------------------------------------------------
Proceed(c) ==
  MainTaskCreateSem(c) \/ CreateSemFails(c) \/ StopFlag(c) \/ LoopExitSnapshot(c)
  \/ LoopExitQuit(c) \/ WaitToken(c) \/ WaitTimeout(c) \/ Destroy(c)

CallerStep(c) == Reset(c) \/ ResetRefused(c) \/ Stop(c) \/ StopAtOnce(c) \/ Proceed(c)

AppStep == MainFlag \/ Create \/ CreateFails \/ Store

TaskStep(t) ==
  \/ Notice(t) \/ InitStage(t) \/ InitFails(t) \/ Entry(t) \/ LoopEnd(t)
  \/ Deinit(t) \/ Cond(t) \/ Exit(t) \/ ExitNotice(t)

Next ==
  /\ \/ Main \/ MainRefused \/ AppStep
     \/ \E c \in use.by : CallerStep(c)
     \/ NotifyReset \/ NotifyStop
     \/ \E t \in Tasks : TaskStep(t)
  /\ UNCHANGED use

(* Threads are scheduled; a wait ends with a token or its time; the loop    *)
(* sees its quit flag (QuitStops of EventLoop).                             *)
Fairness ==
  /\ WF_vars(AppStep /\ UNCHANGED use)
  /\ \A c \in Callers : WF_vars(Proceed(c) /\ UNCHANGED use)
  /\ \A t \in Tasks : WF_vars(TaskStep(t) /\ UNCHANGED use)

Spec == Init /\ [][Next]_vars /\ Fairness
-----------------------------------------------------------------------------
(* Type invariant.                                                         *)
TypeOK ==
  /\ units \in BOOLEAN /\ exists \in BOOLEAN /\ reg \in BOOLEAN /\ quit \in BOOLEAN
  /\ resetSem \in {None} \cup Nat /\ exitSem \in {None} \cup Nat
  /\ taskId \in 0..MaxTasks
  /\ inited \in 0..Stages
  /\ reg => inited >= 1
  /\ \A c \in Callers : cpc[c] = "idle" <=> op[c] = "none"
  /\ \A t \in Tasks : tpc[t] \in {"none", "notice", "init", "loop", "deinit", "cond", "exit", "exitnotice", "gone"}

(* OneRunning: CHECK_MAIN_RUNNING_RETURN keeps two main tasks from running  *)
(* at the same time, although g_mainTaskId is read and written unlocked.    *)
OneRunning == Cardinality({t \in Tasks : Live(t)}) <= 1

(* SemOwned: g_exitSem and g_resetSem exist exactly while one call that made *)
(* them is under way, although calls look at the flag before they take the  *)
(* lock: a notice never reaches another call's semaphore or a destroyed one.*)
Owns(c, o) == op[c] = o /\ cpc[c] # "sem"
SemOwned ==
  /\ (exitSem # None) <=> \E c \in Callers : Owns(c, "stop")
  /\ (resetSem # None) <=> \E c \in Callers : Owns(c, "reset")
  /\ \A c, d \in Callers, o \in {"stop", "reset"} : Owns(c, o) /\ Owns(d, o) => c = d

(* StopOkMeansStopped: "该接口为同步接口，返回即表示停止成功/失败"           *)
(* (docs/iotc-api-overview.md:52): IotcOhStop succeeds only when no main     *)
(* task runs, and so never unregisters the init units a task works on.      *)
StopOkMeansStopped == (\E t \in Tasks : Live(t)) => units

(* SmoothStopOk: it does while nothing goes wrong and the component is      *)
(* stopped when its loop runs.                                              *)
SmoothStopOk == ~use.rough => StopOkMeansStopped

(* ResetOkMeansReset: "调用后部件会重置所有组件业务的运行状态 ...            *)
(* 返回即表示复位成功/失败" (docs/iotc-api-overview.md:36): when IotcOhReset *)
(* succeeds while nothing goes wrong, what was initialized when it was      *)
(* called has been deinitialized.                                           *)
SmoothResetOk ==
  [][~use.rough => \A c \in Callers : WaitToken(c) /\ op[c] = "reset" => c \in cleared]_vars

(* ResetOkMeansRestarted: IotcOhReset succeeds only if the main task began  *)
(* its cycle anew after the call.                                           *)
ResetOkMeansRestarted ==
  [][\A c \in Callers : WaitToken(c) /\ op[c] = "reset" => c \in restarted]_vars

(* IdMeansLive: g_mainTaskId names a task that has not ended, so that       *)
(* IotcOhMain is not refused for ever; while nothing goes wrong.            *)
IdMeansLive == ~use.rough /\ taskId # 0 => Live(taskId)

(* CleanExit: a main task that has ended has deinitialized everything; a    *)
(* failed initialization leaves what it did.                                *)
CleanExit == ~use.rough /\ (\A t \in Tasks : tpc[t] \in {"none", "exitnotice", "gone"}) => inited = 0 /\ ~reg

(* StopTakesEffect: once a stop has lowered the flag, the main task ends,   *)
(* if no reset crosses the stop.                                            *)
StopTakesEffect == (~use.rough /\ use.by = {App} /\ use.upsets = 0 /\ \E c \in Callers : op[c] = "stop" /\ ~exists) ~> \A t \in Tasks : ~Live(t)

(* TasksSound: one main task, and semaphores that belong to one call, in     *)
(* every use.                                                               *)
TasksSound == TypeOK /\ OneRunning /\ SemOwned

(* SmoothLife: while nothing goes wrong, success means stopped, an ended     *)
(* task leaves no id and nothing initialized.                               *)
SmoothLife == SmoothStopOk /\ IdMeansLive /\ CleanExit

(* ResetTruthful: what a successful IotcOhReset says is true.               *)
ResetTruthful == SmoothResetOk /\ ResetOkMeansRestarted

(* LifeSound: one main task and semaphores of one call in every use, and    *)
(* while nothing goes wrong an ended task leaves nothing behind.            *)
LifeSound == TasksSound /\ SmoothLife

(* CallsTruthful: a successful IotcOhReset has restarted the task, and a    *)
(* stop that no reset crosses takes effect.                                 *)
CallsTruthful == ResetTruthful /\ StopTakesEffect
=============================================================================
