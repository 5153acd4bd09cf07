------------------------------ MODULE EventBus ------------------------------
(***************************************************************************)
(* The event bus (frameworks/event_bus/event_bus.c) and the listeners the  *)
(* application registers (event_bus_public.c).  A publication copies the   *)
(* subscriptions that may match under the lock and calls the listeners     *)
(* outside it, while they and other threads subscribe and unsubscribe.     *)
(* An asynchronous publication goes through the executor's queue to the    *)
(* loop thread.                                                            *)
(*                                                                         *)
(* A subscription is made for one event, for all events or for those a     *)
(* match function accepts.  Memory is always available.                    *)
(***************************************************************************)
EXTENDS Naturals, Sequences, FiniteSets

CONSTANTS Threads,      \* threads that publish
          Loop,         \* the thread the executor runs on
          Listeners,    \* listener functions
          Events,       \* events, positive numbers
          Accepts,      \* the events each match function accepts
          Uses,         \* <<listener, kind, argument>>: the subscriptions made
          None,
          MaxPosts,     \* bound: asynchronous publications
          MaxWalks,     \* bound: publications of both kinds
          MaxListeners  \* LISTENER_MAX_NUM

Kinds == {"single", "all", "match"}
Posts == 1..MaxPosts

VARIABLES
  up,        \* g_eventMutex exists
  list,      \* g_eventList: <<listener, kind, argument>>
  walk,      \* per thread: the publication under way, or None
  queue,     \* asynchronous publications the executor holds
  param,     \* per asynchronous publication: its parameter
  extern,    \* g_listenerList
  num,       \* g_listenerNum
  reg,       \* per thread: it has passed the test for room
  asked,     \* history: subscriptions answered with IOTC_OK and not removed
  shadowed,  \* history: those of them that another listener's match kept off the list
  walks,     \* history: publications begun
  part       \* which of the two is used: they share no state

busvars == <<up, list, asked, shadowed>>
extvars == <<extern, num, reg>>
vars == <<busvars, walk, queue, param, extvars, walks, part>>

Matches(node, e) ==
  CASE node[2] = "single" -> node[3] = e
    [] node[2] = "all"    -> TRUE
    [] node[2] = "match"  -> e \in Accepts[node[3]]

Nodes == {list[k] : k \in DOMAIN list}
Hears(l, e) == \E node \in Nodes : node[1] = l /\ Matches(node, e)
Counted(heard, l) == [heard EXCEPT ![l] = @ + 1]

Init ==
  /\ up = TRUE /\ list = <<>> /\ asked = {} /\ shadowed = {}
  /\ walk = [t \in Threads |-> None]
  /\ queue = <<>> /\ param = [p \in Posts |-> "unused"]
  /\ extern = <<>> /\ num = 0 /\ reg = {}
  /\ walks = 0
  /\ part \in {"bus", "listeners"}
-----------------------------------------------------------------------------
(* Faulty variants of the operators below.                                 *)

\* A publication walks the list itself, from where it stands.
DeliverLive(t) ==
  /\ walk[t] # None
  /\ walk[t].left # <<>>
  /\ LET w == walk[t]
         k == w.done + 1
     IN  /\ walk' = [walk EXCEPT ![t] =
              IF k > Len(list) THEN [w EXCEPT !.left = <<>>]
              ELSE [w EXCEPT !.done = k, !.left = IF k = Len(list) THEN <<>> ELSE @,
                     !.heard = IF Matches(list[k], w.event) THEN Counted(@, list[k][1]) ELSE @]]
         /\ UNCHANGED <<busvars, queue, param, extvars, walks>>

\* The walk of UnsubScribe loses the rest of the list with the node it frees.
KeptUpTo(l) ==
  LET before == {k \in DOMAIN list : \A j \in 1..k : list[j][1] # l}
  IN  SubSeq(list, 1, Cardinality(before))

\* An asynchronous publication waits for a subscriber.
AsyncHandleWaits ==
  /\ walk[Loop] = None
  /\ queue # <<>> /\ list # <<>>
  /\ queue' = Tail(queue)
  /\ walk' = [walk EXCEPT ![Loop] =
       [event |-> Head(queue)[2], post |-> Head(queue)[1], done |-> 0, left |-> <<>>,
        heard |-> [l \in Listeners |-> 0], due |-> [l \in Listeners |-> 0], whole |-> {}]]
  /\ UNCHANGED <<busvars, param, extvars, walks>>

\* The test for room is left out.
RegTestAlways(t) ==
  /\ t \notin reg
  /\ num < MaxListeners + 3
  /\ reg' = reg \cup {t}
  /\ UNCHANGED <<busvars, walk, queue, param, extern, num, walks>>
-----------------------------------------------------------------------------
(* Subscriptions, by any thread and by listeners while they are called.    *)

\* IsExisted, as called for u: the event is 0 and the match NULL where the
\* kind has none, and the kinds are not compared.
IsExisted(u) ==
  \E node \in Nodes :
    \/ node[2] = "single" /\ node[1] = u[1] /\ u[2] = "single" /\ node[3] = u[3]
    \/ node[2] = "all" /\ node[1] = u[1]
    \/ node[2] = "match" /\ u[2] = "match" /\ node[3] = u[3]

\* The match function is compared and the listener is not.
Shadowed(u) ==
  u[2] = "match" /\ \E node \in Nodes : node[2] = "match" /\ node[3] = u[3] /\ node[1] # u[1]

Subscribe(u) ==
  /\ up
  /\ list' = IF IsExisted(u) THEN list ELSE Append(list, u)
  /\ asked' = asked \cup {u}
  /\ shadowed' = IF Shadowed(u) THEN shadowed \cup {u} ELSE shadowed \ {u}
  /\ UNCHANGED <<up, walk, queue, param, extvars, walks>>

Kept(l) == SelectSeq(list, LAMBDA node : node[1] # l)

NoLonger(ls) ==
  [t \in Threads |-> IF walk[t] = None THEN None ELSE [walk[t] EXCEPT !.whole = @ \ ls]]

Unsubscribe(l) ==
  /\ up
  /\ list' = Kept(l)
  /\ asked' = {u \in asked : u[1] # l} /\ shadowed' = {u \in shadowed : u[1] # l}
  /\ walk' = NoLonger({l})
  /\ UNCHANGED <<up, queue, param, extvars, walks>>

Deinit ==
  /\ up
  /\ up' = FALSE /\ list' = <<>> /\ asked' = {} /\ shadowed' = {}
  /\ walk' = NoLonger(Listeners)
  /\ UNCHANGED <<queue, param, extvars, walks>>

BusInit ==
  /\ ~up
  /\ up' = TRUE
  /\ UNCHANGED <<list, asked, shadowed, walk, queue, param, extvars, walks>>
-----------------------------------------------------------------------------
(* Publication.                                                            *)

\* GetPublishList: subscriptions for another event are left out, match
\* functions are asked later.
MayMatch(node, e) == node[2] # "single" \/ node[3] = e

Walk(e, p) ==
  [event |-> e, post |-> p, done |-> 0,
   left |-> IF up THEN SelectSeq(list, LAMBDA node : MayMatch(node, e)) ELSE <<>>,
   heard |-> [l \in Listeners |-> 0],      \* history
   due |-> [l \in Listeners |->            \* history: its subscriptions for the event
     Cardinality({k \in DOMAIN list : list[k][1] = l /\ Matches(list[k], e)})],
   whole |-> {l \in Listeners : Hears(l, e)}]  \* history: subscribed from the start on

PublishSync(t, e) ==
  /\ walk[t] = None
  /\ walks < MaxWalks
  /\ walks' = walks + 1
  /\ walk' = [walk EXCEPT ![t] = Walk(e, 0)]
  /\ UNCHANGED <<busvars, queue, param, extvars>>

Deliver(t) ==
  /\ walk[t] # None
  /\ walk[t].left # <<>>
  /\ LET w == walk[t]
         node == Head(w.left)
     IN  walk' = [walk EXCEPT ![t] =
           [w EXCEPT !.left = Tail(@),
                     !.heard = IF Matches(node, w.event) THEN Counted(@, node[1]) ELSE @]]
  /\ UNCHANGED <<busvars, queue, param, extvars, walks>>

\* The end of the walk, and for an asynchronous publication of AsyncHandle.
WalkEnd(t) ==
  /\ walk[t] # None /\ walk[t].left = <<>>
  /\ walk' = [walk EXCEPT ![t] = None]
  /\ param' = IF walk[t].post = 0 THEN param ELSE [param EXCEPT ![walk[t].post] = "freed"]
  /\ UNCHANGED <<busvars, queue, extvars, walks>>

FirstUnused(p) == param[p] = "unused" /\ \A q \in 1..(p - 1) : param[q] # "unused"

\* EventBusPublishAsyncInner: accepted by the executor, or refused, by it or
\* before it is asked, and then left to the caller.
Post(p, e) ==
  /\ up
  /\ walks < MaxWalks
  /\ walks' = walks + 1
  /\ param' = [param EXCEPT ![p] = "held"]
  /\ queue' = Append(queue, <<p, e>>)
  /\ UNCHANGED <<busvars, walk, extvars>>

PostRefused(p, e) ==
  /\ param' = [param EXCEPT ![p] = "caller"]
  /\ UNCHANGED <<busvars, walk, queue, extvars, walks>>

AsyncHandle ==
  /\ walk[Loop] = None
  /\ queue # <<>>
  /\ queue' = Tail(queue)
  /\ walk' = [walk EXCEPT ![Loop] = Walk(Head(queue)[2], Head(queue)[1])]
  /\ UNCHANGED <<busvars, param, extvars, walks>>
-----------------------------------------------------------------------------
(* Listeners of the application.                                           *)

\* IotcRegPublicEventListener: the test is outside the lock.
RegTest(t) ==
  /\ t \notin reg
  /\ num <= MaxListeners
  /\ reg' = reg \cup {t}
  /\ UNCHANGED <<busvars, walk, queue, param, extern, num, walks>>

RegInsert(t, l) ==
  /\ t \in reg
  /\ extern' = Append(extern, l) /\ num' = num + 1
  /\ reg' = reg \ {t}
  /\ UNCHANGED <<busvars, walk, queue, param, walks>>

Unreg(l) ==
  /\ extern' = SelectSeq(extern, LAMBDA x : x # l)
  /\ num' = num - Cardinality({k \in DOMAIN extern : extern[k] = l})
  /\ UNCHANGED <<busvars, walk, queue, param, reg, walks>>

UnregAll ==
  /\ extern' = <<>> /\ num' = 0
  /\ UNCHANGED <<busvars, walk, queue, param, reg, walks>>
-----------------------------------------------------------------------------
LoopStep == part = "bus" /\ (AsyncHandle \/ Deliver(Loop) \/ WalkEnd(Loop)) /\ UNCHANGED part

BusNext ==
  \/ \E u \in Uses : Subscribe(u)
  \/ \E l \in Listeners : Unsubscribe(l)
  \/ Deinit \/ BusInit
  \/ \E t \in Threads : Deliver(t) \/ WalkEnd(t) \/ \E e \in Events : PublishSync(t, e)
  \/ \E p \in Posts, e \in Events : FirstUnused(p) /\ (Post(p, e) \/ PostRefused(p, e))
  \/ AsyncHandle

ExternNext ==
  \/ \E t \in Threads : RegTest(t) \/ \E l \in Listeners : RegInsert(t, l)
  \/ \E l \in Listeners : Unreg(l)
  \/ UnregAll

Next ==
  /\ (part = "bus" /\ BusNext) \/ (part = "listeners" /\ ExternNext)
  /\ UNCHANGED part

Spec == Init /\ [][Next]_vars /\ WF_vars(LoopStep)
-----------------------------------------------------------------------------
(* Type invariant.                                                         *)
TypeOK ==
  /\ Nodes \subseteq Uses
  /\ ~up => list = <<>>
  /\ \A k, j \in DOMAIN list : list[k] = list[j] => k = j
  /\ \A p \in Posts : param[p] \in {"unused", "held", "freed", "caller"}
  /\ \A t \in Threads : walk[t] = None \/ walk[t].event \in Events

(* OncePerSubscription: a listener subscribed from the beginning of a       *)
(* publication to its end is called once for each of its subscriptions that *)
(* accept the event, whoever subscribes or unsubscribes meanwhile           *)
(* (EventBusPublishSyncInner on its copy), and no listener more often.  One *)
(* subscribed to the event and then to all is called twice: only the other  *)
(* order is a repetition to IsExisted.                                      *)
OncePerSubscription ==
  \A t \in Threads : walk[t] # None =>
    /\ walk[t].left = <<>> => \A l \in walk[t].whole : walk[t].heard[l] = walk[t].due[l]
    /\ \A l \in Listeners : walk[t].heard[l] <= walk[t].due[l]

(* AskedHears: "0 成功，非0失败" (event_bus_sub.h:57): after a successful      *)
(* subscription, until it is removed, the listener hears what it asked for.  *)
AskedHears == \A u \in asked : \A e \in Events : Matches(u, e) => Hears(u[1], e)

(* SubscribedHears: so it is, but for a match function that another         *)
(* listener has subscribed: IsExisted takes it for a repetition and answers *)
(* IOTC_OK (event_bus.c:64-66).                                             *)
SubscribedHears ==
  \A u \in asked \ shadowed : \A e \in Events : Matches(u, e) => Hears(u[1], e)

(* ParamOwned: the parameter of an asynchronous publication is in exactly   *)
(* one hand: the caller's after a refusal, the queue's or the loop's while  *)
(* it is held, nobody's once freed.                                         *)
ParamOwned ==
  \A p \in Posts : (param[p] = "held") <=>
    \/ \E k \in DOMAIN queue : queue[k][1] = p
    \/ walk[Loop] # None /\ walk[Loop].post = p

(* AsyncFreed: an accepted asynchronous publication is published and its    *)
(* parameter freed.                                                         *)
AsyncFreed == \A p \in Posts : param[p] = "held" ~> param[p] = "freed"

(* ListenerNumExact: g_listenerNum is the length of g_listenerList, so that *)
(* the copy made for the callbacks is large enough.                         *)
ListenerNumExact == num = Len(extern)

(* ListenerBound: the unlocked test lets the list grow past its maximum by  *)
(* no more than the threads registering at the same time.                   *)
ListenerBound == num + Cardinality(reg) <= MaxListeners + Cardinality(Threads)

(* BusSound: the list of subscriptions is what was asked for, but for        *)
(* matches that another listener has, and every parameter has one owner.    *)
BusSound == TypeOK /\ SubscribedHears /\ ParamOwned

(* ListenersSound: the list of the application's listeners and its counter  *)
(* agree, and are bounded.                                                  *)
ListenersSound == ListenerNumExact /\ ListenerBound

(* DeliverySound: who is subscribed throughout a publication hears it once  *)
(* for each subscription, the list is what was asked for but for matches    *)
(* that another listener has, every parameter has one owner, and the        *)
(* application's listeners are counted.                                     *)
DeliverySound == OncePerSubscription /\ BusSound /\ ListenersSound
=============================================================================
