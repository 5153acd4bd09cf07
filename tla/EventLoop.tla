----------------------------- MODULE EventLoop -----------------------------
(***************************************************************************)
(* The event loop (frameworks/event_loop/event_loop.c).  One thread runs   *)
(* it; callbacks of the sources it dispatches, on the same thread, add and *)
(* delete sources while the loop walks its list; other threads ask it to   *)
(* quit, suspend and resume.  Nodes leave the running list only when the   *)
(* next iteration prepares, so that a walk survives what callbacks do.     *)
(*                                                                         *)
(* What a source reports is left to the environment: any live source may   *)
(* have an event.  Poll times are abstracted to whether polling ends;       *)
(* memory for a node is always there.                                      *)
(***************************************************************************)
EXTENDS Naturals, Sequences, FiniteSets, SequencesExt

CONSTANTS Sources,      \* event sources
          PollSources,  \* those with a poll operation
          None,         \* NULL
          MaxPosts,     \* bound: tokens that resumes pile up in loop->sem
          Uses          \* ways the loop is used: [mayFail, maxStale], the sources
                        \* whose dispatch may return false, and the bound on the
                        \* count EventLoopReset leaves behind; 0: never called

VARIABLES
  lpc,            \* where the loop's thread is in EventLoopRun
  sourceList,     \* loop->sourceList: nodes [src, del, poll]
  addList,        \* loop->addList
  pollSourceCnt,  \* loop->pollSourceCnt
  quit,           \* EVENT_LOOP_FLAG_QUIT
  suspend,        \* EVENT_LOOP_FLAG_SUSPEND
  suspendTime,    \* loop->suspendTime # 0
  sem,            \* loop->sem: None, or its count
  cursor,         \* position of the walk of LoopCheckAndDispatchEvent
  serving,        \* the source whose dispatch is running
  life,           \* "live" from EventSourceNew to EventSourceFree
  use             \* the way this loop is used

vars == <<lpc, sourceList, addList, pollSourceCnt, quit, suspend, suspendTime,
          sem, cursor, serving, life, use>>

lists == <<sourceList, addList, pollSourceCnt, life>>
flags == <<quit, suspend, suspendTime, sem>>

Nodes == [src : Sources \cup {None}, del : BOOLEAN, poll : BOOLEAN]
NewNode(s) == [src |-> s, del |-> FALSE, poll |-> s \in PollSources]
Holds(list, s) == \E i \in DOMAIN list : list[i].src = s
Running == lpc # "stopped"

Init ==
  /\ lpc = "stopped"
  /\ sourceList = <<>> /\ addList = <<>> /\ pollSourceCnt = 0
  /\ quit = FALSE /\ suspend = FALSE /\ suspendTime = FALSE
  /\ sem = None
  /\ cursor = 1 /\ serving = None
  /\ life = [s \in Sources |-> "none"]
  /\ use \in Uses
-----------------------------------------------------------------------------
(* Faulty variants of the steps below.                                     *)

\* A source is added again without looking through the list of additions.
AddSourceOneList(s) ==
  /\ lpc \in {"stopped", "callback"}
  /\ life' = [life EXCEPT ![s] = "live"]
  /\ Len(addList) < 2
  /\ addList' = IF Holds(sourceList, s) THEN addList ELSE Append(addList, NewNode(s))
  /\ UNCHANGED <<lpc, sourceList, pollSourceCnt, flags, cursor, serving>>

\* A deleted source's node is unlinked at once.
DelSourceUnlink(s) ==
  /\ lpc \in {"stopped", "callback"}
  /\ Holds(sourceList, s)
  /\ sourceList' = SelectSeq(sourceList, LAMBDA n : n.src # s)
  /\ life' = [life EXCEPT ![s] = "none"]
  /\ pollSourceCnt' = IF s \in PollSources THEN pollSourceCnt - 1 ELSE pollSourceCnt
  /\ UNCHANGED <<lpc, addList, flags, cursor, serving>>

\* A suspended loop is woken only by EventLoopResume.
SuspendEndOnlyResume ==
  /\ lpc = "sem"
  /\ sem > 0
  /\ lpc' = "wake"
  /\ UNCHANGED <<lists, flags, cursor, serving>>

-----------------------------------------------------------------------------
(* The owner of the loop while it is stopped, or a callback it runs.       *)

\* EventSourceNew and EventLoopAddSource; a source already in one of the
\* lists is not added a second time.
AddSource(s) ==
  /\ lpc \in {"stopped", "callback"}
  /\ life' = [life EXCEPT ![s] = "live"]
  /\ addList' = IF Holds(sourceList, s) \/ Holds(addList, s)
                  THEN addList ELSE Append(addList, NewNode(s))
  /\ UNCHANGED <<lpc, sourceList, pollSourceCnt, flags, cursor, serving>>

\* EventLoopDelSource of a source in the running list: the node is marked
\* and forgets the source, which is freed.
DelSource(s) ==
  /\ lpc \in {"stopped", "callback"}
  /\ Holds(sourceList, s)
  /\ sourceList' = [i \in DOMAIN sourceList |->
                      IF sourceList[i].src = s
                        THEN [sourceList[i] EXCEPT !.del = TRUE, !.src = None]
                        ELSE sourceList[i]]
  /\ life' = [life EXCEPT ![s] = "none"]
  /\ UNCHANGED <<lpc, addList, pollSourceCnt, flags, cursor, serving>>

\* EventLoopDelSource of a source not yet taken over: the node goes at once.
DelSourcePending(s) ==
  /\ lpc \in {"stopped", "callback"}
  /\ ~Holds(sourceList, s)
  /\ Holds(addList, s)
  /\ addList' = SelectSeq(addList, LAMBDA n : n.src # s)
  /\ life' = [life EXCEPT ![s] = "none"]
  /\ UNCHANGED <<lpc, sourceList, pollSourceCnt, flags, cursor, serving>>

\* EventLoopFree and a new EventLoopNew: every source in a list is freed.
Recreate ==
  /\ lpc = "stopped"
  /\ life' = [s \in Sources |-> IF Holds(sourceList, s) \/ Holds(addList, s) THEN "none" ELSE life[s]]
  /\ sourceList' = <<>> /\ addList' = <<>> /\ pollSourceCnt' = 0
  /\ quit' = FALSE /\ suspend' = FALSE /\ suspendTime' = FALSE /\ sem' = None
  /\ UNCHANGED <<lpc, cursor, serving>>

\* EventLoopReset: the lists are emptied, the counter and the flags stay.
Reset ==
  /\ pollSourceCnt < use.maxStale
  /\ lpc = "stopped"
  /\ life' = [s \in Sources |-> IF Holds(sourceList, s) \/ Holds(addList, s) THEN "none" ELSE life[s]]
  /\ sourceList' = <<>> /\ addList' = <<>>
  /\ UNCHANGED <<lpc, pollSourceCnt, flags, cursor, serving>>
-----------------------------------------------------------------------------
(* Other threads, under the loop's lock.                                   *)

Quit ==
  /\ quit' = TRUE
  /\ UNCHANGED <<lpc, lists, suspend, suspendTime, sem, cursor, serving>>

Suspend ==
  /\ suspend' = TRUE /\ suspendTime' = TRUE
  /\ UNCHANGED <<lpc, lists, quit, sem, cursor, serving>>

\* Resume posts only if the loop already sleeps; otherwise it is refused.
Resume ==
  /\ sem # None
  /\ sem < MaxPosts
  /\ sem' = sem + 1
  /\ UNCHANGED <<lpc, lists, quit, suspend, suspendTime, cursor, serving>>
-----------------------------------------------------------------------------
(* The loop's thread.                                                      *)

Run ==
  /\ lpc = "stopped"
  /\ lpc' = "suspend"
  /\ UNCHANGED <<lists, flags, cursor, serving>>

NotSuspended ==
  /\ lpc = "suspend"
  /\ ~suspend \/ ~suspendTime
  /\ lpc' = "update"
  /\ UNCHANGED <<lists, flags, cursor, serving>>

\* LoopCheckSuspend up to the wait; if no semaphore can be made the request
\* is dropped.
SuspendBegin ==
  /\ lpc = "suspend"
  /\ suspend /\ suspendTime
  /\ suspend' = FALSE
  /\ \/ sem' = 0 /\ lpc' = "sem"
     \/ sem' = None /\ lpc' = "update"
  /\ UNCHANGED <<lists, quit, suspendTime, cursor, serving>>

\* The wait ends by a token or by its time; a quit does not end it.
SuspendEnd ==
  /\ lpc = "sem"
  /\ sem' = IF sem > 0 THEN sem - 1 ELSE sem
  /\ lpc' = "wake"
  /\ UNCHANGED <<lists, quit, suspend, suspendTime, cursor, serving>>

SemDestroy ==
  /\ lpc = "wake"
  /\ sem' = None
  /\ lpc' = "update"
  /\ UNCHANGED <<lists, quit, suspend, suspendTime, cursor, serving>>

\* LoopUpdateSource: pollable sources go to the front of the list.
Insert(list, n) == IF n.poll THEN <<n>> \o list ELSE Append(list, n)

UpdateSource ==
  /\ lpc = "update"
  /\ sourceList' = FoldLeft(Insert, sourceList, addList)
  /\ pollSourceCnt' = pollSourceCnt + Len(SelectSeq(addList, LAMBDA n : n.poll))
  /\ addList' = <<>>
  /\ lpc' = "prepare"
  /\ UNCHANGED <<life, flags, cursor, serving>>

\* LoopPrepareEvent: marked nodes are removed, the others asked for a time.
Minus(a, b) == IF a > b THEN a - b ELSE 0

Prepare ==
  /\ lpc = "prepare"
  /\ sourceList' = SelectSeq(sourceList, LAMBDA n : ~n.del)
  /\ pollSourceCnt' = Minus(pollSourceCnt, Len(SelectSeq(sourceList, LAMBDA n : n.del /\ n.poll)))
  /\ lpc' = "poll"
  /\ UNCHANGED <<addList, life, flags, cursor, serving>>

\* LoopPollEvent: with a count of zero it sleeps; otherwise it polls the
\* pollable nodes until the time is used up.  Time is used up only by
\* polling a node: with none to poll and a count above zero it never ends.
Poll ==
  /\ lpc = "poll"
  /\ pollSourceCnt = 0 \/ \E i \in DOMAIN sourceList : sourceList[i].poll /\ ~sourceList[i].del
  /\ cursor' = 1
  /\ lpc' = "dispatch"
  /\ UNCHANGED <<lists, flags, serving>>

\* The walk passes sources without events and comes to one that has one.
DispatchBegin ==
  /\ lpc = "dispatch"
  /\ \E i \in DOMAIN sourceList :
       /\ i >= cursor
       /\ ~sourceList[i].del /\ sourceList[i].src # None
       /\ cursor' = i
       /\ serving' = sourceList[i].src
  /\ lpc' = "callback"
  /\ UNCHANGED <<lists, flags>>

\* The dispatch returns true.
DispatchEnd ==
  /\ lpc = "callback"
  /\ serving' = None
  /\ cursor' = cursor + 1
  /\ lpc' = "dispatch"
  /\ UNCHANGED <<lists, flags>>

\* The dispatch returns false: the node is marked, the source is kept.  The
\* log then names the source, which a source that deleted itself has taken
\* from the node: the program ends there.
DispatchFailed ==
  /\ lpc = "callback"
  /\ serving \in use.mayFail
  /\ sourceList' = [sourceList EXCEPT ![cursor].del = TRUE]
  /\ serving' = None
  /\ cursor' = cursor + 1
  /\ lpc' = IF sourceList[cursor].src = None THEN "crashed" ELSE "dispatch"
  /\ UNCHANGED <<addList, pollSourceCnt, life, flags>>

\* The walk is over: idle callback, then LoopCheckQuit.
IdleAndCheckQuit ==
  /\ lpc = "dispatch"
  /\ lpc' = IF quit THEN "stopped" ELSE "suspend"
  /\ UNCHANGED <<lists, flags, cursor, serving>>
-----------------------------------------------------------------------------
Sync == \E s \in Sources : AddSource(s) \/ DelSource(s) \/ DelSourcePending(s)

LoopStep ==
  /\ \/ NotSuspended \/ SuspendBegin \/ SuspendEnd \/ SemDestroy
     \/ UpdateSource \/ Prepare \/ Poll
     \/ DispatchBegin \/ DispatchEnd \/ DispatchFailed \/ IdleAndCheckQuit
  /\ UNCHANGED use

OtherStep ==
  /\ lpc # "crashed"
  /\ Run \/ Sync \/ Recreate \/ Reset \/ Quit \/ Suspend \/ Resume
  /\ UNCHANGED use

Next == LoopStep \/ OtherStep

(* The loop's thread is scheduled, a suspension ends with its time, and a   *)
(* callback returns.  Nobody is obliged to call the loop.                   *)
Spec == Init /\ [][Next]_vars /\ WF_vars(LoopStep)
-----------------------------------------------------------------------------
(* Type invariant of the loop.                                             *)
TypeOK ==
  /\ lpc \in {"stopped", "suspend", "sem", "wake", "update", "prepare", "poll", "dispatch", "callback", "crashed"}
  /\ sourceList \in Seq(Nodes) /\ addList \in Seq(Nodes)
  /\ pollSourceCnt \in Nat
  /\ quit \in BOOLEAN /\ suspend \in BOOLEAN /\ suspendTime \in BOOLEAN
  /\ sem \in {None} \cup 0..MaxPosts
  /\ cursor \in Nat \ {0}
  /\ serving \in Sources \cup {None}
  /\ life \in [Sources -> {"none", "live"}]

(* UniqueSource: "The same source can only be added once" (event_loop.c:422) *)
(* however callbacks add, delete and add again during a walk.              *)
UniqueSource ==
  LET all == sourceList \o addList
  IN \A i, j \in DOMAIN all : all[i].src # None /\ all[i].src = all[j].src => i = j

(* NoDangling: no node of either list points to a source that was freed.   *)
NoDangling ==
  LET all == sourceList \o addList
  IN \A i \in DOMAIN all : all[i].src # None => life[all[i].src] = "live"

(* WalkSafe: while a dispatch runs, the node the walk stands on is still in *)
(* the list and still the one whose source is being dispatched, unless the  *)
(* callback deleted its own source, and then the node is a marked one.      *)
WalkSafe ==
  lpc = "callback" =>
    /\ cursor \in DOMAIN sourceList
    /\ \/ sourceList[cursor].src = serving
       \/ sourceList[cursor].src = None /\ sourceList[cursor].del

\* No dispatch fails and the loop is not reset while it runs.
Regular == use.mayFail = {} /\ use.maxStale = 0

(* PollCountExact: pollSourceCnt is the number of pollable nodes in the     *)
(* running list; LoopPollEvent ends only because of it.                     *)
PollCountExact == Regular => pollSourceCnt = Len(SelectSeq(sourceList, LAMBDA n : n.poll))

(* NoLeak: a live source is in one of the lists, so that the loop's owner   *)
(* can still delete it.                                                     *)
NoLeak == Regular => \A s \in Sources : life[s] = "live" => Holds(sourceList \o addList, s)

(* QuitStops: "This interface only sets the quit flag, and the loop quit by *)
(* itself" (event_loop.h): a running loop asked to quit stops.              *)
QuitStops == Regular /\ quit /\ Running ~> ~Running

(* ListsSound: the lists, the poll count and the life of the sources agree   *)
(* after every addition, deletion, reset and failed dispatch.               *)
ListsSound == TypeOK /\ UniqueSource /\ NoDangling /\ PollCountExact /\ NoLeak

(* LoopSound: the walk never stands on a node that is gone, and the lists,  *)
(* the poll count and the life of the sources agree, whatever the callbacks *)
(* of the loop add, delete and reset.  (That the program goes on is said    *)
(* only of sources that do not delete themselves and then fail.)            *)
LoopSound == WalkSafe /\ ListsSound
=============================================================================
