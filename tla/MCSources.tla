----------------------------- MODULE MCSources -----------------------------
(***************************************************************************)
(* The event sources that keep lists of their own: a behaviour belongs to  *)
(* the one that Init chooses, and the other stays where it begins.         *)
(*                                                                         *)
(* Timers: two, one above EVENT_TIMER_MAX_NUM = 1, and a clock of four     *)
(* ticks that wraps within one interval and a stall.                       *)
(*                                                                         *)
(* Descriptors: two, as many as may be watched, of three priorities, with  *)
(* a read callback or with a read and a write callback.                    *)
(***************************************************************************)
CONSTANTS f1, f2,   \* descriptors
          None

VARIABLES
  which,
  now, stall, phase, timerList, addList, cnt, idBase, cursor, serving, age, fired, gone,
  watchList, fCnt, eventCnt, fPhase, tmpNode, todo

TS == INSTANCE TimerSource
        WITH Width <- 4, Intervals <- {1, 2}, MaxNum <- 1, MaxIds <- 2, MaxStall <- 2
FS == INSTANCE FdSource
        WITH Fds <- {f1, f2}, Prios <- {0, 1, 2}, Wants <- {{"read"}, {"read", "write"}}, MaxCnt <- 2,
             cnt <- fCnt, phase <- fPhase

tsVars == <<now, stall, phase, timerList, addList, cnt, idBase, cursor, serving, age, fired, gone>>
fsVars == <<watchList, fCnt, eventCnt, fPhase, tmpNode, todo>>

MCInit == which \in {"timers", "descriptors"} /\ TS!Init /\ FS!Init

MCNext ==
  /\ UNCHANGED which
  /\ \/ which = "timers" /\ TS!Next /\ UNCHANGED fsVars
     \/ which = "descriptors" /\ FS!Next /\ UNCHANGED tsVars

(* The fairness each source states for itself.                             *)
MCSpec ==
  /\ MCInit /\ [][MCNext]_<<which, tsVars, fsVars>>
  /\ WF_tsVars(which = "timers" /\ TS!LoopStep) /\ WF_tsVars(which = "timers" /\ TS!Tick)
  /\ WF_fsVars(which = "descriptors" /\ FS!LoopStep)

-----------------------------------------------------------------------------
(* TimersSound: the timers, their states and their number agree, whatever  *)
(* the callbacks of TimerSourceDispatch add, update and remove, and no     *)
(* callback starts early, over a wrap of the clock, or after its timer was *)
(* removed.                                                                *)
TimersSound == []TS!TimersSound /\ TS!FiresTruly

(* ArmedFires: an armed timer fires, is armed again or is removed.         *)
ArmedFires == TS!ArmedFires

(* ServesByPriority: list, order and counters of the descriptors agree,    *)
(* and the one served is at most one priority below the highest with       *)
(* events (FdSourceDispatch).                                              *)
ServesByPriority == FS!ServesByPriority

(* EventServed: no priority starves a descriptor (FdSourceDispatch).       *)
EventServed == FS!EventServed
=============================================================================
