---------------------------- MODULE MCFramework ----------------------------
(***************************************************************************)
(* The framework's threads and map, each one on its own instance: a        *)
(* behaviour belongs to the component that Init chooses, and the others    *)
(* stay where they begin.                                                  *)
(*                                                                         *)
(* Executor: three application threads, of which any two may be waiting    *)
(* for apiLock while the third is in a call; a queue of two messages, so   *)
(* that it fills; four calls, enough for an expired call, a call served by *)
(* its stale message and a call that meets the token left over.            *)
(*                                                                         *)
(* Event loop: two pollable sources and one that is not, so that insertion *)
(* at the front and at the back both happen and callbacks can delete their *)
(* own source, one already passed and one still ahead.  A regular use, and *)
(* one where dispatches fail and the loop is reset.                        *)
(*                                                                         *)
(* Init units: two arrays, levels interleaved across and within them.      *)
(*                                                                         *)
(* Main task: two application threads, two lives of the task; used         *)
(* smoothly by both, smoothly by one of them without callbacks, and        *)
(* roughly by both.                                                        *)
(*                                                                         *)
(* Watch dog: two starts of the framework and ages up to twice the timeout.*)
(*                                                                         *)
(* Hash map: five keys that meet in two chains, some with equal hashes.    *)
(***************************************************************************)
EXTENDS SchedExecutor, HashMap

CONSTANTS s1, s2, s3,   \* event sources
          app, other    \* application threads

VARIABLES
  which,
  lpc, sourceList, addList, pollSourceCnt, quit, suspend, suspendTime, sem, cursor, serving, life, use,
  initList, initMap, phase, policy, result, up, fails,
  units, exists, resetSem, exitSem, taskId, tpc, inited, reg, mQuit, cpc, op, mCalls, upsets,
  restarted, cleared, mUse,
  wd

MCKeys == {<<1>>, <<0, 1>>, <<16>>, <<1, 0>>, <<7, 0, 0, 0, 2>>}

Regular == [mayFail |-> {}, maxStale |-> 0]
Failing == [mayFail |-> {s3}, maxStale |-> 2]

SmoothBoth == [by |-> {app, other}, calls |-> 4, upsets |-> 1, rough |-> FALSE]
SmoothOne  == [by |-> {app}, calls |-> 4, upsets |-> 0, rough |-> FALSE]
RoughBoth  == [by |-> {app, other}, calls |-> 3, upsets |-> 1, rough |-> TRUE]

EL == INSTANCE EventLoop
        WITH Sources <- {s1, s2, s3}, PollSources <- {s1, s2}, MaxPosts <- 1, Uses <- {Regular, Failing}
FI == INSTANCE FwkInit
        WITH Arrays <- << <<1, 0, 1>>, <<0, 1>> >>, Policies <- {"BLOCK", "RETURN", "DEINIT_ALL"}, MaxFails <- 2
FM == INSTANCE FwkMain
        WITH Callers <- {app, other}, App <- app, MaxTasks <- 2, Uses <- {SmoothBoth, SmoothOne, RoughBoth},
             quit <- mQuit, calls <- mCalls, use <- mUse
WD == INSTANCE WatchDog
        WITH Interval <- 2, Timeout <- 6, MaxAge <- 12, MaxStarts <- 2

elVars == <<lpc, sourceList, addList, pollSourceCnt, quit, suspend, suspendTime, sem, cursor, serving, life, use>>
fiVars == <<initList, initMap, phase, policy, result, up, fails>>
fmVars == <<units, exists, resetSem, exitSem, taskId, tpc, inited, reg, mQuit, cpc, op, mCalls, upsets,
            restarted, cleared, mUse>>

MCInit ==
  /\ which \in {"executor", "loop", "init", "main", "dog", "map"}
  /\ Init /\ EL!Init /\ FI!Init /\ FM!Init /\ WD!WdInit /\ HmInit
  /\ which # "loop" => use = Regular
  /\ which # "main" => mUse = SmoothOne

MCNext ==
  /\ UNCHANGED which
  /\ \/ which = "executor" /\ Next /\ UNCHANGED <<elVars, fiVars, fmVars, wd, hmVars>>
     \/ which = "loop" /\ EL!Next /\ UNCHANGED <<vars, fiVars, fmVars, wd, hmVars>>
     \/ which = "init" /\ FI!Next /\ UNCHANGED <<vars, elVars, fmVars, wd, hmVars>>
     \/ which = "main" /\ FM!Next /\ UNCHANGED <<vars, elVars, fiVars, wd, hmVars>>
     \/ which = "dog" /\ WD!WdNext /\ UNCHANGED <<vars, elVars, fiVars, fmVars, hmVars>>
     \/ which = "map" /\ HmNext /\ UNCHANGED <<vars, elVars, fiVars, fmVars, wd>>

(* The fairness each component states for itself.                          *)
MCSpec ==
  /\ MCInit /\ [][MCNext]_<<which, vars, elVars, fiVars, fmVars, wd, hmVars>>
  /\ \A c \in Callers : WF_vars(which = "executor" /\ CallerStep(c))
  /\ WF_vars(which = "executor" /\ LoopStep)
  /\ WF_elVars(which = "loop" /\ EL!LoopStep)
  /\ WF_fmVars(which = "main" /\ FM!AppStep /\ UNCHANGED mUse)
  /\ \A c \in {app, other} : WF_fmVars(which = "main" /\ FM!Proceed(c) /\ UNCHANGED mUse)
  /\ \A t \in 1..2 : WF_fmVars(which = "main" /\ FM!TaskStep(t) /\ UNCHANGED mUse)

-----------------------------------------------------------------------------
(* ThreadsSound: what callers left behind changes a later call only within *)
(* bounds (SchedAsyncExecutorWait), the loop's walk and lists survive what *)
(* callbacks do to them (EventLoopRun), there is one main task whose end   *)
(* leaves nothing behind (IotcFwkMainTaskBody), and the watch dog bites    *)
(* only a loop that hangs (WatchDogProc).                                  *)
ThreadsSound == Leftovers /\ EL!LoopSound /\ FM!LifeSound /\ WD!WatchSound

(* QuitStops: a running loop asked to quit stops (EventLoopQuit).          *)
QuitStops == EL!QuitStops

(* InitSound: each unit is up at most once and levels are kept in order    *)
(* (FwkInitAll, FwkDeinitAll).                                             *)
InitSound == FI!InitSound

(* CallsTruthful: a successful IotcOhReset has restarted the main task,    *)
(* and an IotcOhStop that no reset crosses takes effect.                   *)
CallsTruthful == FM!CallsTruthful
=============================================================================
