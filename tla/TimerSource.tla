---------------------------- MODULE TimerSource ----------------------------
(***************************************************************************)
(* The timer event source (frameworks/event_loop/event_source_timer.c,     *)
(* schedule/sched_timer.c).  Everything runs on the loop's thread: the     *)
(* loop prepares, checks and dispatches the source, and callbacks (of      *)
(* timers or, between two iterations, of other sources) add, remove and    *)
(* update timers.  Time is a 32-bit millisecond counter that wraps; here   *)
(* it wraps at Width.                                                      *)
(***************************************************************************)
EXTENDS Naturals, Sequences, Functions

CONSTANTS Width,      \* the clock counts modulo Width
          Intervals,  \* intervals given to timers, in ticks
          MaxNum,     \* EVENT_TIMER_MAX_NUM
          MaxIds,     \* bound: timers ever added
          MaxStall    \* bound: ticks between two checks, below Width

VARIABLES
  now,        \* IotcGetSysTimeMs()
  stall,      \* ticks since the last check
  phase,      \* what the loop does with the source
  timerList,  \* runtime list
  addList,    \* timers added and not yet taken over
  cnt,        \* timerSource->cnt
  idBase,     \* timerSource->idBase
  cursor,     \* the walk of TimerSourceDispatch
  serving,    \* id of the timer whose callback runs, 0 if none
  age,        \* history: per id, ticks since it was last armed, up to Longest
  fired,      \* history: per id, callbacks since it was last armed (up to 2)
  gone        \* history: ids removed and not updated since

vars == <<now, stall, phase, timerList, addList, cnt, idBase, cursor, serving, age, fired, gone>>

Ids == 1..MaxIds
Types == {"ONCE", "REPEAT"}
Bits == {"DELETE", "FINISH"}
Longest == CHOOSE m \in Intervals : \A k \in Intervals : k <= m
Open == phase \in {"idle", "callback"}

\* Faulty variant: the readings are subtracted as if the clock never wrapped.
DeltaNoWrap(later, earlier) == IF later >= earlier THEN later - earlier ELSE Width

\* UtilsDeltaTime: the distance of two readings of the wrapping clock.
Delta(later, earlier) == (later + Width - earlier) % Width

\* TimerNodeUpdate and TimerNodeNew.
Armed(id, type, ms) ==
  [id |-> id, type |-> type, interval |-> ms, remain |-> ms, last |-> now,
   bits |-> {}, status |-> "RUNNING"]

Has(list, id) == \E i \in DOMAIN list : list[i].id = id
Without(list, id) == SelectSeq(list, LAMBDA n : n.id # id)
With(list, id, node) == [i \in DOMAIN list |-> IF list[i].id = id THEN node ELSE list[i]]
Node(list, id) == list[CHOOSE i \in DOMAIN list : list[i].id = id]

Init ==
  /\ now = 0 /\ stall = 0
  /\ phase = "idle"
  /\ timerList = <<>> /\ addList = <<>>
  /\ cnt = 0 /\ idBase = 0
  /\ cursor = 1 /\ serving = 0
  /\ age = [i \in Ids |-> 0] /\ fired = [i \in Ids |-> 0] /\ gone = {}
-----------------------------------------------------------------------------
(* Faulty variants of the steps below.                                     *)

\* A running timer is unlinked by Remove although a walk may stand on it.
RemoveUnlink(id) ==
  /\ Open /\ ~Has(addList, id) /\ Has(timerList, id)
  /\ timerList' = Without(timerList, id)
  /\ gone' = gone \cup {id}
  /\ UNCHANGED <<now, stall, phase, addList, cnt, idBase, cursor, serving, age, fired>>

\* Remove only changes the status of a running timer.
RemoveStatusOnly(id) ==
  /\ Open /\ ~Has(addList, id) /\ Has(timerList, id)
  /\ timerList' = With(timerList, id, [Node(timerList, id) EXCEPT !.status = "INVALID"])
  /\ gone' = gone \cup {id}
  /\ UNCHANGED <<now, stall, phase, addList, cnt, idBase, cursor, serving, age, fired>>

\* A timer that is not due starts its interval again.
CheckOneRestart(n) ==
  [n EXCEPT !.remain = IF Delta(now, n.last) > n.remain THEN 0 ELSE n.interval, !.last = now]

-----------------------------------------------------------------------------
(* The calls, made by callbacks on the loop's thread.                      *)

\* A timer is refused once cnt has reached the maximum.
Room == cnt < MaxNum

Add(type, ms) ==
  /\ Open /\ Room
  /\ idBase < MaxIds
  /\ idBase' = idBase + 1
  /\ addList' = Append(addList, Armed(idBase + 1, type, ms))
  /\ UNCHANGED <<now, stall, phase, timerList, cnt, cursor, serving, age, fired, gone>>

\* A timer not yet taken over goes at once.
RemovePending(id) ==
  /\ Open /\ Has(addList, id)
  /\ addList' = Without(addList, id)
  /\ gone' = gone \cup {id}
  /\ UNCHANGED <<now, stall, phase, timerList, cnt, idBase, cursor, serving, age, fired>>

\* A running timer is marked and goes when the loop prepares next.
Remove(id) ==
  /\ Open /\ ~Has(addList, id) /\ Has(timerList, id)
  /\ timerList' = With(timerList, id,
       [Node(timerList, id) EXCEPT !.bits = @ \cup {"DELETE"}, !.status = "INVALID"])
  /\ gone' = gone \cup {id}
  /\ UNCHANGED <<now, stall, phase, addList, cnt, idBase, cursor, serving, age, fired>>

UpdatePending(id, type, ms) ==
  /\ Open /\ Has(addList, id)
  /\ addList' = With(addList, id, Armed(id, type, ms))
  /\ age' = [age EXCEPT ![id] = 0] /\ fired' = [fired EXCEPT ![id] = 0]
  /\ UNCHANGED <<now, stall, phase, timerList, cnt, idBase, cursor, serving, gone>>

\* Update clears the marks: it revives a finished or a removed timer that
\* is still in the list.
Update(id, type, ms) ==
  /\ Open /\ ~Has(addList, id) /\ Has(timerList, id)
  /\ timerList' = With(timerList, id, Armed(id, type, ms))
  /\ gone' = gone \ {id}
  /\ age' = [age EXCEPT ![id] = 0] /\ fired' = [fired EXCEPT ![id] = 0]
  /\ UNCHANGED <<now, stall, phase, addList, cnt, idBase, cursor, serving>>
-----------------------------------------------------------------------------
(* The loop.                                                               *)

Tick ==
  /\ stall < MaxStall
  /\ stall' = stall + 1
  /\ now' = (now + 1) % Width
  /\ age' = [i \in Ids |-> IF age[i] < Longest THEN age[i] + 1 ELSE age[i]]
  /\ UNCHANGED <<phase, timerList, addList, cnt, idBase, cursor, serving, fired, gone>>

\* TimerSourcePrepare: added timers are taken over, marked ones freed.  The
\* count of timers only ever grows.
Prepare ==
  /\ phase = "idle"
  /\ timerList' = SelectSeq(timerList \o addList, LAMBDA n : "DELETE" \notin n.bits)
  /\ cnt' = cnt + Len(addList)
  /\ addList' = <<>>
  /\ phase' = "prepared"
  /\ UNCHANGED <<now, stall, idBase, cursor, serving, age, fired, gone>>

CheckOne(n) ==
  LET delta == Delta(now, n.last)
  IN [n EXCEPT !.remain = IF delta > n.remain THEN 0 ELSE n.remain - delta, !.last = now]

\* TimerSourceCheck: dispatch follows only if some timer was overdue.
Check ==
  /\ phase = "prepared"
  /\ timerList' = [i \in DOMAIN timerList |-> CheckOne(timerList[i])]
  /\ stall' = 0
  /\ cursor' = 1
  /\ UNCHANGED serving
  /\ phase' = IF \E i \in DOMAIN timerList : Delta(now, timerList[i].last) > timerList[i].remain
                THEN "dispatch" ELSE "idle"
  /\ UNCHANGED <<now, addList, cnt, idBase, age, fired, gone>>

Due(n) == n.remain = 0 /\ n.bits = {}

\* The walk comes to the next timer that is due.
CallbackBegin ==
  /\ phase = "dispatch"
  /\ \E i \in DOMAIN timerList :
       /\ i >= cursor /\ Due(timerList[i])
       /\ \A j \in cursor..(i - 1) : ~Due(timerList[j])
       /\ cursor' = i
       /\ serving' = timerList[i].id
       /\ timerList' = [timerList EXCEPT ![i].remain = timerList[i].interval]
       /\ fired' = [fired EXCEPT ![timerList[i].id] = IF @ < 2 THEN @ + 1 ELSE @]
  /\ phase' = "callback"
  /\ UNCHANGED <<now, stall, addList, cnt, idBase, age, gone>>

\* The callback returns: a one-shot timer is marked finished, whatever the
\* callback did to it.
CallbackEnd ==
  /\ phase = "callback"
  /\ timerList' = [timerList EXCEPT ![cursor] =
       IF @.type = "ONCE" THEN [@ EXCEPT !.bits = @ \cup {"FINISH"}, !.status = "FINISH"] ELSE @]
  /\ cursor' = cursor + 1 /\ serving' = 0
  /\ phase' = "dispatch"
  /\ UNCHANGED <<now, stall, addList, cnt, idBase, age, fired, gone>>

DispatchEnd ==
  /\ phase = "dispatch"
  /\ \A i \in DOMAIN timerList : i >= cursor => ~Due(timerList[i])
  /\ phase' = "idle"
  /\ UNCHANGED <<now, stall, timerList, addList, cnt, idBase, cursor, serving, age, fired, gone>>
-----------------------------------------------------------------------------
Call ==
  \/ \E t \in Types, ms \in Intervals : Add(t, ms)
  \/ \E id \in Ids : RemovePending(id) \/ Remove(id)
  \/ \E id \in Ids, t \in Types, ms \in Intervals : UpdatePending(id, t, ms) \/ Update(id, t, ms)

LoopStep == Prepare \/ Check \/ CallbackBegin \/ CallbackEnd \/ DispatchEnd

Next == Call \/ Tick \/ LoopStep

(* The loop's thread is scheduled, callbacks return and time passes.        *)
Spec == Init /\ [][Next]_vars /\ WF_vars(LoopStep) /\ WF_vars(Tick)
-----------------------------------------------------------------------------
Nodes == [id : Ids, type : Types, interval : Intervals, remain : 0..(Width - 1),
          last : 0..(Width - 1), bits : SUBSET Bits, status : {"RUNNING", "FINISH", "INVALID"}]

(* Type invariant.                                                         *)
TypeOK ==
  /\ now \in 0..(Width - 1) /\ stall \in 0..MaxStall
  /\ phase \in {"idle", "prepared", "dispatch", "callback"}
  /\ \A n \in Range(timerList) \cup Range(addList) : n \in Nodes
  /\ cnt \in Nat /\ idBase \in 0..MaxIds
  /\ cursor \in Nat \ {0} /\ serving \in 0..MaxIds
  /\ gone \subseteq Ids

(* WalkSafe: while a timer's callback runs, the node the walk stands on is  *)
(* still there and is the one that was due: TimerSourceDispatch writes to   *)
(* it after the callback.                                                   *)
WalkSafe == phase = "callback" => cursor \in DOMAIN timerList /\ timerList[cursor].id = serving

(* NeverEarly: a callback starts no sooner than its interval after the      *)
(* timer was armed, also when the millisecond clock wraps between the two.  *)
NeverEarly ==
  [][phase = "dispatch" /\ phase' = "callback" =>
       age[timerList[cursor'].id] >= timerList[cursor'].interval]_vars

(* RemovedStaysSilent: once removed, a timer's callback does not start,     *)
(* even when it was due in the walk that removed it.                        *)
RemovedStaysSilent ==
  [][phase = "dispatch" /\ phase' = "callback" => timerList[cursor'].id \notin gone]_vars

(* OnceIsOnce: a one-shot timer fires at most once for each time it is      *)
(* armed.                                                                   *)
OnceIsOnce == \A n \in Range(timerList) \cup Range(addList) : n.type = "ONCE" => fired[n.id] <= 1

(* StatusRunning: EventSourceTimerGetStatus answers RUNNING only for a      *)
(* timer that can still fire.                                               *)
StatusRunning == \A n \in Range(timerList) \cup Range(addList) : n.status = "RUNNING" => n.bits = {}

(* CountBounds: cnt never falls below the number of timers in the runtime   *)
(* list, so that the maximum bounds the list up to what one iteration adds. *)
CountBounds == Len(timerList) <= cnt /\ cnt <= idBase

(* ArmedFires: a timer that is armed between two iterations fires, is       *)
(* armed again or is removed.                                               *)
ArmedFires ==
  \A id \in Ids :
    phase = "idle" /\ (\E n \in Range(timerList) \cup Range(addList) : n.id = id /\ n.bits = {}) /\ fired[id] = 0
      ~> fired[id] > 0 \/ age[id] = 0 \/ id \in gone

(* TimersSound: the timers, their states and their number agree, whatever   *)
(* callbacks add, update and remove.                                        *)
TimersSound == TypeOK /\ WalkSafe /\ OnceIsOnce /\ StatusRunning /\ CountBounds

(* FiresTruly: no callback starts before its interval is over or after its  *)
(* timer was removed (TimerSourceDispatch).                                 *)
FiresTruly == NeverEarly /\ RemovedStaysSilent
=============================================================================
