------------------------------- MODULE WatchDog -------------------------------
(***************************************************************************)
(* The software watch dog of src/core/infrastructure/DFx/dfx_watch_dog.c   *)
(* and its use by the scheduler's loop (sched_main_loop.c): the main task  *)
(* starts it, registers itself, feeds it from the idle callback of every   *)
(* turn of the loop and stops it; the watch dog's task wakes up at an      *)
(* interval and calls the handler, which reboots the product, for a task   *)
(* that was not fed in time.                                               *)
(*                                                                         *)
(* Every start makes a task of its own.  Time advances by Tick; the sleep  *)
(* of a task is counted down, the callbacks take no time except the        *)
(* handler, which may last.  `age` is the time since the main task was fed *)
(* and `rounds` the rounds of the watch dog since then.                    *)
(***************************************************************************)
EXTENDS Integers, FiniteSets

CONSTANTS Interval,  \* DFX_WATCH_DOG_SCHEDULE_INTERVAL
          Timeout,   \* IOTC_CONF_WATCH_DOG_TIMEOUT, in the same unit
          MaxAge,    \* bound of the model on age
          MaxStarts  \* starts of the framework

VARIABLE wd

Tids == 1 .. MaxStarts
NoNode == [on |-> FALSE, flag |-> FALSE, running |-> 0]

WdInit ==
  wd = [main |-> "down", starts |-> 0, ctx |-> FALSE, isRunning |-> FALSE, sem |-> "none",
        node |-> NoNode, pc |-> [t \in Tids |-> "none"], due |-> [t \in Tids |-> 0],
        age |-> 0, rounds |-> 0, fired |-> FALSE, stray |-> FALSE, broken |-> FALSE]

Alive(t) == wd.pc[t] \notin {"none", "gone"}
Quiet(w) == [w EXCEPT !.fired = FALSE]

-----------------------------------------------------------------------------
(* The main task.                                                          *)

DfxWatchDogInit ==
  /\ wd.main = "down" /\ wd.starts < MaxStarts
  /\ wd' = Quiet([wd EXCEPT !.main = "up", !.starts = @ + 1, !.ctx = TRUE, !.isRunning = FALSE,
                            !.sem = "none", !.node = NoNode, !.pc[wd.starts + 1] = "new"])

(* The node is not watched before it is fed for the first time.            *)
DfxAddWatchDog ==
  /\ wd.main = "up"
  /\ wd' = Quiet([wd EXCEPT !.main = "loop", !.node = [NoNode EXCEPT !.on = TRUE]])

(* Faulty: what the task has already waited is kept. *)
FeedKeepsRunning ==
  /\ wd.main = "loop"
  /\ wd' = Quiet([wd EXCEPT !.node.flag = TRUE, !.age = 0, !.rounds = 0])

DfxFeedWatchDog ==
  /\ wd.main = "loop"
  /\ wd' = Quiet([wd EXCEPT !.node.flag = TRUE, !.node.running = 0, !.age = 0, !.rounds = 0])

DfxDelWatchDog ==
  /\ wd.main = "loop"
  /\ wd' = Quiet([wd EXCEPT !.main = "up", !.node = NoNode, !.age = 0, !.rounds = 0])

Cleared(w) ==
  [w EXCEPT !.main = "down", !.ctx = FALSE, !.isRunning = FALSE, !.sem = "none", !.node = NoNode,
            !.stray = @ \/ \E t \in Tids : w.pc[t] \notin {"none", "gone"}]

(* The flag is read without the lock.  A task that has not begun yet looks *)
(* like none at all: it is not waited for and finds everything cleared.    *)
DfxWatchDogDeinit ==
  /\ wd.main = "up"
  /\ wd' = Quiet(IF wd.isRunning THEN [wd EXCEPT !.main = "wait", !.sem = "0", !.isRunning = FALSE]
                 ELSE Cleared(wd))

DeinitWoken == wd.main = "wait" /\ wd.sem = "1" /\ wd' = Quiet(Cleared(wd))

(* The wait is far longer than the interval: only the handler outlasts it. *)
DeinitTimeout ==
  /\ wd.main = "wait" /\ wd.sem = "0" /\ \E t \in Tids : wd.pc[t] = "handler"
  /\ wd' = Quiet(Cleared(wd))

-----------------------------------------------------------------------------
(* The watch dog's task.                                                   *)

WatchDogTaskBegin(t) ==
  /\ wd.pc[t] = "new"
  /\ wd' = Quiet([wd EXCEPT !.isRunning = TRUE, !.pc[t] = "sleep", !.due[t] = Interval])

(* One round over the list.  A cleared context has no list to walk.        *)
WatchDogProc(t) ==
  /\ wd.pc[t] = "sleep" /\ wd.due[t] = 0
  /\ LET w == Quiet(wd)
         slept == [w EXCEPT !.due[t] = Interval]
         watched == wd.node.on /\ wd.node.flag
         round == IF watched THEN [slept EXCEPT !.rounds = IF @ > Timeout THEN @ ELSE @ + 1] ELSE slept
     IN wd' = IF ~wd.isRunning THEN [w EXCEPT !.pc[t] = "ending"]
              ELSE IF ~wd.ctx THEN [w EXCEPT !.broken = TRUE]
              ELSE IF ~watched THEN slept
              ELSE IF Timeout > wd.node.running
              THEN [round EXCEPT !.node.running = @ + Interval]
              ELSE [w EXCEPT !.node.running = 0, !.rounds = 0, !.fired = TRUE, !.pc[t] = "handler"]

(* The handler reboots the product; where it comes back, the task goes on. *)
HandlerReturns(t) ==
  /\ wd.pc[t] = "handler"
  /\ wd' = Quiet([wd EXCEPT !.pc[t] = "sleep", !.due[t] = Interval])

WatchDogTaskEnd(t) ==
  /\ wd.pc[t] = "ending"
  /\ wd' = Quiet([wd EXCEPT !.pc[t] = "gone", !.sem = IF @ = "none" THEN @ ELSE "1"])

Tick ==
  /\ wd.age < MaxAge
  /\ \A t \in Tids : wd.pc[t] = "sleep" => wd.due[t] > 0
  /\ wd' = Quiet([wd EXCEPT !.due = [t \in Tids |-> IF wd.pc[t] = "sleep" THEN @[t] - 1 ELSE @[t]],
                            !.age = IF wd.node.flag THEN @ + 1 ELSE @])

WdStep ==
  \/ DfxWatchDogInit \/ DfxAddWatchDog \/ DfxFeedWatchDog \/ DfxDelWatchDog
  \/ DfxWatchDogDeinit \/ DeinitWoken \/ DeinitTimeout \/ Tick
  \/ \E t \in Tids : WatchDogTaskBegin(t) \/ WatchDogProc(t) \/ HandlerReturns(t) \/ WatchDogTaskEnd(t)

WdNext == ~wd.broken /\ WdStep

WdSpec == WdInit /\ [][WdNext]_wd

-----------------------------------------------------------------------------
(* As long as no stop left a task of the watch dog behind (one that had    *)
(* not begun, or whose handler outlasted the wait): the handler is called  *)
(* only when the loop was not fed for the whole timeout; a loop that hangs *)
(* is found within one round more than the timeout holds; a stop that      *)
(* returns has ended the task, so none works on a cleared context and no   *)
(* two work on one.                                                        *)
WatchSound ==
  ~wd.stray =>
    /\ wd.fired => wd.age >= Timeout
    /\ wd.node.flag => (wd.rounds - 1) * Interval < Timeout
    /\ wd.main = "down" => ~\E t \in Tids : Alive(t)
    /\ Cardinality({t \in Tids : Alive(t)}) <= 1
    /\ ~wd.broken
=============================================================================
