------------------------------ MODULE FdSource ------------------------------
(***************************************************************************)
(* The file descriptor event source (frameworks/event_loop/                *)
(* event_source_fd.c) and its wrappers of wifi_sched_fd_watch.c.  All on   *)
(* the loop's thread: a poll collects events, each iteration serves one    *)
(* descriptor chosen by an aging priority, and callbacks watch, suspend,   *)
(* resume and remove descriptors.  A descriptor is watched once at a time: *)
(* it is watched when its link is made and removed before it is closed.    *)
(***************************************************************************)
EXTENDS Naturals, Sequences, FiniteSets, SequencesExt

CONSTANTS Fds,     \* file descriptors
          Prios,   \* FdEventPriority
          Wants,   \* sets of callbacks a watch is given
          MaxCnt,  \* EVENT_SOURCE_FD_MAX_WATCH_SIZE
          None

VARIABLES
  watchList,  \* nodes [fd, prio, cur, wants, suspended, events]
  cnt,        \* fdSource->cnt
  eventCnt,   \* fdSource->eventCnt
  phase,      \* "idle", "polled", or "callback" while a callback runs
  tmpNode,    \* the copy of the node being served, None if none
  todo        \* events of tmpNode whose callbacks are still to be called

vars == <<watchList, cnt, eventCnt, phase, tmpNode, todo>>

Open == phase \in {"idle", "callback"}
Events == {"read", "write", "except"}
IndexOf(fd) == CHOOSE i \in DOMAIN watchList : watchList[i].fd = fd
Watched(fd) == \E i \in DOMAIN watchList : watchList[i].fd = fd
Minus(a, b) == IF a > b THEN a - b ELSE 0
EventsIn(list) == {<<i, e>> \in (DOMAIN list) \X Events : e \in list[i].events}

Init ==
  /\ watchList = <<>> /\ cnt = 0 /\ eventCnt = 0
  /\ phase = "idle" /\ tmpNode = None /\ todo = {}
-----------------------------------------------------------------------------
(* Faulty variants of the operators below.                                 *)

\* Removing a node forgets to count its events down.
RemoveKeepEvents(fd) ==
  IF ~Watched(fd) THEN UNCHANGED <<watchList, cnt, eventCnt>>
  ELSE /\ watchList' = RemoveAt(watchList, IndexOf(fd))
       /\ cnt' = cnt - 1
       /\ UNCHANGED eventCnt

\* The walk keeps the last of the nodes with events.
ReplacesAlways(i, j) == TRUE

\* Priorities do not age.
AgedNever(n) == n

-----------------------------------------------------------------------------
(* The calls, made on the loop's thread.                                   *)

\* Where EventSourceFdWatch inserts: at the tail unless the tail's priority
\* is lower, otherwise before the first node of lower or equal priority.
Place(p) ==
  IF watchList = <<>> \/ watchList[Len(watchList)].prio >= p
    THEN Len(watchList) + 1
    ELSE CHOOSE i \in DOMAIN watchList :
           watchList[i].prio <= p /\ \A j \in 1..(i - 1) : watchList[j].prio > p

FdWatch(fd, p, w) ==
  /\ Open /\ ~Watched(fd)
  /\ cnt < MaxCnt
  /\ cnt' = cnt + 1
  /\ watchList' = InsertAt(watchList, Place(p),
       [fd |-> fd, prio |-> p, cur |-> p, wants |-> w, suspended |-> FALSE, events |-> {}])
  /\ UNCHANGED <<eventCnt, phase, tmpNode, todo>>

\* "挂起后所有已有的事件不处理": events already collected are dropped.
FdSuspend(fd) ==
  /\ Open /\ Watched(fd)
  /\ watchList' = [watchList EXCEPT ![IndexOf(fd)].suspended = TRUE, ![IndexOf(fd)].events = {}]
  /\ eventCnt' = Minus(eventCnt, Cardinality(watchList[IndexOf(fd)].events))
  /\ UNCHANGED <<cnt, phase, tmpNode, todo>>

FdResume(fd) ==
  /\ Open /\ Watched(fd)
  /\ watchList' = [watchList EXCEPT ![IndexOf(fd)].suspended = FALSE]
  /\ UNCHANGED <<cnt, eventCnt, phase, tmpNode, todo>>

\* EventSourceFdRemove: the first node of the descriptor is freed.
RemoveFd(fd) ==
  IF ~Watched(fd) THEN UNCHANGED <<watchList, cnt, eventCnt>>
  ELSE /\ watchList' = RemoveAt(watchList, IndexOf(fd))
       /\ cnt' = cnt - 1
       /\ eventCnt' = Minus(eventCnt, Cardinality(watchList[IndexOf(fd)].events))

FdRemove(fd) == Open /\ RemoveFd(fd) /\ UNCHANGED <<phase, tmpNode, todo>>
-----------------------------------------------------------------------------
(* The loop.                                                               *)

\* FdSourcePoll: a node is asked only for what it wants and has not got.
Poll ==
  /\ phase = "idle"
  /\ \E found \in [DOMAIN watchList -> SUBSET Events] :
       /\ \A i \in DOMAIN watchList :
            found[i] \subseteq (IF watchList[i].suspended THEN {} ELSE watchList[i].wants \ watchList[i].events)
       /\ watchList' = [i \in DOMAIN watchList |-> [watchList[i] EXCEPT !.events = @ \cup found[i]]]
       /\ eventCnt' = eventCnt + Cardinality({<<i, e>> \in (DOMAIN watchList) \X Events : e \in found[i]})
  /\ phase' = "polled"
  /\ UNCHANGED <<cnt, tmpNode, todo>>

Ready == {i \in DOMAIN watchList : watchList[i].events # {}}

NothingToDispatch ==
  /\ phase = "polled" /\ (eventCnt = 0 \/ Ready = {})
  /\ phase' = "idle"
  /\ UNCHANGED <<watchList, cnt, eventCnt, tmpNode, todo>>

\* The walk of FdSourceDispatch: every node with events ages by one, and a
\* node replaces the earlier choice only if its priority before aging is
\* above the choice's priority after aging.
Aged(n) == [n EXCEPT !.cur = @ + 1]
Replaces(i, j) == watchList[j].cur > Aged(watchList[i]).cur
Better(best, i) == IF best = 0 \/ Replaces(best, i) THEN i ELSE best
Chosen == FoldLeft(Better, 0, SetToSortSeq(Ready, <))

\* The chosen node is copied and reset before its callbacks are called.
Dispatch ==
  /\ phase = "polled" /\ Ready # {}
  /\ tmpNode' = watchList[Chosen]
  /\ watchList' = [i \in DOMAIN watchList |->
       IF i = Chosen THEN [watchList[i] EXCEPT !.cur = watchList[i].prio, !.events = {}]
       ELSE IF i \in Ready THEN Aged(watchList[i]) ELSE watchList[i]]
  /\ eventCnt' = Minus(eventCnt, Cardinality(watchList[Chosen].events))
  /\ todo' = IF "read" \in tmpNode'.wants THEN tmpNode'.events ELSE {}
  /\ phase' = "serve"
  /\ UNCHANGED cnt

\* FdEventProcess: read, write and exception callbacks in this order, the
\* last two only if the node has a read callback too (see Dispatch).
Rank == [read |-> 1, write |-> 2, except |-> 3]

CallbackBegin ==
  /\ phase = "serve"
  /\ \E e \in todo : (\A f \in todo : Rank[e] <= Rank[f]) /\ todo' = todo \ {e}
  /\ phase' = "callback"
  /\ UNCHANGED <<watchList, cnt, eventCnt, tmpNode>>

CallbackEnd ==
  /\ phase = "callback"
  /\ phase' = "serve"
  /\ UNCHANGED <<watchList, cnt, eventCnt, tmpNode, todo>>

\* All callbacks answered true.
ServedKeep ==
  /\ phase = "serve" /\ todo = {}
  /\ tmpNode' = None /\ phase' = "idle"
  /\ UNCHANGED <<watchList, cnt, eventCnt, todo>>

\* A callback answered false: its descriptor is removed, by number.
ServedRemove ==
  /\ phase = "serve" /\ todo = {} /\ "read" \in tmpNode.wants
  /\ RemoveFd(tmpNode.fd)
  /\ tmpNode' = None /\ phase' = "idle"
  /\ UNCHANGED todo
-----------------------------------------------------------------------------
Call ==
  \E fd \in Fds :
    \/ \E p \in Prios, w \in Wants : FdWatch(fd, p, w)
    \/ FdSuspend(fd) \/ FdResume(fd) \/ FdRemove(fd)

LoopStep ==
  \/ Poll \/ NothingToDispatch \/ Dispatch \/ CallbackBegin \/ CallbackEnd
  \/ ServedKeep \/ ServedRemove

Next == Call \/ LoopStep

(* The loop's thread is scheduled and callbacks return.                     *)
Spec == Init /\ [][Next]_vars /\ WF_vars(LoopStep)
-----------------------------------------------------------------------------
(* Type invariant.                                                         *)
TypeOK ==
  /\ \A n \in Range(watchList) \cup ({tmpNode} \ {None}) :
       /\ n.fd \in Fds /\ n.prio \in Prios /\ n.cur \in Nat /\ n.wants \in Wants
       /\ n.events \subseteq n.wants /\ n.suspended \in BOOLEAN
  /\ cnt \in 0..MaxCnt /\ eventCnt \in 0..(3 * MaxCnt)
  /\ phase \in {"idle", "polled", "serve", "callback"}
  /\ todo \subseteq Events

(* CountsExact: cnt is the number of nodes, which bounds the arrays that    *)
(* FdSourcePrepareFdSet fills without a test, and eventCnt is the number of *)
(* events collected and not served, on which FdSourceCheck relies.          *)
CountsExact == cnt = Len(watchList) /\ eventCnt = Cardinality(EventsIn(watchList))

(* SortedByPriority: the list stays in descending order of the priority a   *)
(* descriptor was watched with.                                             *)
SortedByPriority ==
  \A i, j \in DOMAIN watchList : i < j => watchList[i].prio >= watchList[j].prio

(* SuspendedHasNoEvents: a suspended descriptor has no event waiting, so    *)
(* that none is served before it is resumed ("挂起后所有已有的事件不处理").  *)
SuspendedHasNoEvents == \A n \in Range(watchList) : n.suspended => n.events = {}

(* ServesHighest: "选择优先级最高的有事件fd处理" (event_source_fd.c:193): the   *)
(* descriptor served has the highest priority of those with events.         *)
ServesHighest ==
  [][phase = "polled" /\ phase' = "serve" => \A i \in Ready : watchList[i].cur <= tmpNode'.cur]_vars

(* NearHighest: what the walk gives instead.  It compares a priority before *)
(* its aging with one after it (event_source_fd.c:192-194), so that the     *)
(* descriptor served may be one below the highest, and never more.          *)
NearHighest ==
  [][phase = "polled" /\ phase' = "serve" =>
       \A i \in Ready : watchList[i].cur <= tmpNode'.cur + 1]_vars

(* EventServed: an event collected for a descriptor is served, unless the   *)
(* descriptor is suspended or removed first: no priority starves another.   *)
EventServed ==
  \A fd \in Fds :
    (\E n \in Range(watchList) : n.fd = fd /\ n.events # {})
      ~> (\A n \in Range(watchList) : n.fd = fd => n.events = {})

(* WatchListSound: the list, its order and its two counters agree, whatever *)
(* callbacks watch, suspend and remove.                                     *)
WatchListSound == TypeOK /\ CountsExact /\ SortedByPriority /\ SuspendedHasNoEvents

(* ServesByPriority: the list, its order and its counters agree, and the    *)
(* descriptor served is at most one priority below the highest with events, *)
(* which is less than FdSourceDispatch's comment says (ServesHighest).      *)
ServesByPriority == []WatchListSound /\ NearHighest
=============================================================================
