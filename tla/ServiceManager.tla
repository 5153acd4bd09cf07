--------------------------- MODULE ServiceManager ---------------------------
(***************************************************************************)
(* The service manager (frameworks/service/service_manager.c): services    *)
(* are registered, started and stopped, finish by themselves, subscribe to *)
(* each other's messages and answer them.                                  *)
(*                                                                         *)
(* The callbacks of a service (onStart, onStop, the message handlers) run  *)
(* outside the lock, on the loop thread, and call the manager again; stack *)
(* holds the calls whose callback is running.  A service has one message   *)
(* or none.                                                                *)
(*                                                                         *)
(* What the services of the tree do: one subscribes while it starts        *)
(* (m2m_cloud_svc.c, local_ctl_svc.c, wifi_svc_softap.c) or when a peer    *)
(* connects to it (ble_svc_report.c, sle_svc_report.c); in an onStart the  *)
(* subscription comes last, so that one that fails has not subscribed or   *)
(* has called its finish callback; services are unregistered when the      *)
(* component shuts down.                                                   *)
(***************************************************************************)
EXTENDS Naturals, Sequences, FiniteSets

CONSTANTS Services,
          Senders,    \* services that have a message, msgNum > 0
          MaxDepth,   \* bound: calls inside callbacks
          MaxInst     \* bound: instance ids

VARIABLES
  inst,      \* per service: instanceId of its node, 0 when not registered
  running,   \* SERVICE_BIT_MAP_RUNNING
  subs,      \* per service: subList of its message, services
  subNum,    \* per service: subNum of its message
  nextInst,  \* instanceIdBase
  stack,     \* the calls under way
  on,        \* services whose onStart succeeded and that have not finished
  early,     \* services that finished inside their own onStart
  phase      \* "up", or "down" while the component shuts down

mvars == <<inst, running, subs, subNum, nextInst>>
vars == <<mvars, stack, on, early, phase>>

Subscribers(d) == {subs[d][k] : k \in DOMAIN subs[d]}
Less(n, k) == IF n > k THEN n - k ELSE 0
Top == stack[Len(stack)]
Pop == SubSeq(stack, 1, Len(stack) - 1)
Push(frame) == Len(stack) < MaxDepth /\ stack' = Append(stack, frame)
TopIs(kind, s) == stack # <<>> /\ Top.kind = kind /\ Top.svc = s
Open(kind, s) == \E k \in DOMAIN stack : stack[k].kind = kind /\ stack[k].svc = s
Frame(kind, s, left, want) == [kind |-> kind, svc |-> s, left |-> left, want |-> want, resp |-> <<>>]

Init ==
  /\ inst = [s \in Services |-> 0] /\ running = [s \in Services |-> FALSE]
  /\ subs = [s \in Services |-> <<>>] /\ subNum = [s \in Services |-> 0]
  /\ nextInst = 1
  /\ stack = <<>> /\ on = {} /\ early = {} /\ phase = "up"
-----------------------------------------------------------------------------
(* Faulty variants of the operators below.                                 *)

\* A failed start leaves the service running.
StartEndAlways(s, ok) ==
  /\ TopIs("start", s)
  /\ stack' = Pop
  /\ running' = [running EXCEPT ![s] = inst[s] # 0]
  /\ on' = IF ok THEN on \cup {s} ELSE on
  /\ UNCHANGED <<inst, subs, subNum, nextInst, early, phase>>

\* A service that finishes keeps its subscriptions.
ClearedKeep(s) == subs

\* The compaction drops what follows a gap.
SortedPrefix(resp) ==
  LET gaps == {k \in DOMAIN resp : resp[k] = 0}
  IN  [k \in DOMAIN resp |-> IF \E g \in gaps : g < k THEN 0 ELSE resp[k]]
-----------------------------------------------------------------------------
(* Registration.                                                           *)

Register(s) ==
  /\ phase = "up"
  /\ inst[s] = 0 /\ nextInst < MaxInst
  /\ inst' = [inst EXCEPT ![s] = nextInst] /\ nextInst' = nextInst + 1
  /\ UNCHANGED <<running, subs, subNum, stack, on, early, phase>>

ShutDown ==
  /\ phase = "up" /\ stack = <<>>
  /\ phase' = "down"
  /\ UNCHANGED <<mvars, stack, on, early>>

\* The node goes with its message and its subscribers; what it subscribed to
\* itself stays.  The services end themselves before they unregister.
Unregister(s) ==
  /\ phase = "down" /\ stack = <<>> /\ inst[s] # 0
  /\ inst' = [inst EXCEPT ![s] = 0] /\ running' = [running EXCEPT ![s] = FALSE]
  /\ subs' = [subs EXCEPT ![s] = <<>>] /\ subNum' = [subNum EXCEPT ![s] = 0]
  /\ on' = on \ {s} /\ early' = early \ {s}
  /\ UNCHANGED <<nextInst, stack, phase>>

\* ServiceManagerDeinit and the next ServiceManagerInit.
Deinit ==
  /\ phase = "down" /\ stack = <<>>
  /\ inst' = [s \in Services |-> 0] /\ running' = [s \in Services |-> FALSE]
  /\ subs' = [s \in Services |-> <<>>] /\ subNum' = [s \in Services |-> 0]
  /\ nextInst' = 1
  /\ on' = {} /\ early' = {} /\ phase' = "up"
  /\ UNCHANGED stack
-----------------------------------------------------------------------------
(* Start, stop, finish.                                                    *)

StartService(s) ==
  /\ phase = "up"
  /\ inst[s] # 0 /\ ~running[s]
  /\ Push(Frame("start", s, <<>>, FALSE))
  /\ early' = early \ {s}
  /\ UNCHANGED <<mvars, on, phase>>

\* ClearServiceAllMsgSub.
Cleared(s) == [d \in Services |-> IF d = s THEN subs[d] ELSE SelectSeq(subs[d], LAMBDA x : x # s)]

ClearAllMsgSub(s) ==
  /\ subs' = Cleared(s)
  /\ subNum' = [d \in Services |-> Less(subNum[d], Len(subs[d]) - Len(Cleared(s)[d]))]

\* onStart returns; the service is looked up again and a bit that is set
\* by now stays.  Subscriptions stay whatever onStart returned.
StartEnd(s, ok) ==
  /\ TopIs("start", s)
  /\ ok \/ s \in on \/ \A d \in Services : s \notin Subscribers(d)
  /\ stack' = Pop
  /\ running' = [running EXCEPT ![s] = @ \/ (ok /\ inst[s] # 0)]
  /\ on' = IF ok /\ s \notin early THEN on \cup {s} ELSE on
  /\ UNCHANGED <<inst, subs, subNum, nextInst, early, phase>>

StopService(s) ==
  /\ inst[s] # 0 /\ running[s]
  /\ Push(Frame("stop", s, <<>>, FALSE))
  /\ UNCHANGED <<mvars, on, early, phase>>

\* onStop returns, with or without having finished the service.
StopEnd(s) ==
  /\ TopIs("stop", s)
  /\ stack' = Pop
  /\ UNCHANGED <<mvars, on, early, phase>>

\* OnServiceFinish, from onStop, from onStart or when the service ends by
\* itself.
Finish(s) ==
  /\ s \in on \/ Open("start", s)
  /\ on' = on \ {s}
  /\ early' = IF Open("start", s) THEN early \cup {s} ELSE early \ {s}
  /\ running' = [running EXCEPT ![s] = FALSE]
  /\ ClearAllMsgSub(s)
  /\ UNCHANGED <<inst, nextInst, stack, phase>>
-----------------------------------------------------------------------------
(* Messages.                                                               *)

SubscribeMessage(s, d) ==
  /\ s \in on \/ (Open("start", s) /\ s \notin early)
  /\ inst[s] # 0 /\ d # s /\ inst[d] # 0 /\ d \in Senders
  /\ s \notin Subscribers(d)
  /\ subs' = [subs EXCEPT ![d] = Append(@, s)]
  /\ subNum' = [subNum EXCEPT ![d] = @ + 1]
  /\ UNCHANGED <<inst, running, nextInst, stack, on, early, phase>>

RemoveSubscribe(s, d) ==
  /\ inst[s] # 0 /\ s \in Subscribers(d)
  /\ subs' = [subs EXCEPT ![d] = SelectSeq(@, LAMBDA x : x # s)]
  /\ subNum' = [subNum EXCEPT ![d] = Less(@, 1)]
  /\ UNCHANGED <<inst, running, nextInst, stack, on, early, phase>>

\* GetMsgSubList: subNum handlers are copied under the lock.
SendMessage(d, want) ==
  /\ phase = "up" /\ d \in on
  /\ subNum[d] > 0 /\ ~Open("send", d)
  /\ Push(Frame("send", d, SubSeq(subs[d], 1, subNum[d]), want))
  /\ UNCHANGED <<mvars, on, early, phase>>

\* A handler answers or does not.
Handle(answers) ==
  /\ stack # <<>> /\ Top.kind = "send" /\ Top.left # <<>>
  /\ stack' = [stack EXCEPT ![Len(stack)] =
       [@ EXCEPT !.left = Tail(@), !.resp = Append(@, IF answers THEN Len(@) + 1 ELSE 0)]]
  /\ UNCHANGED <<mvars, on, early, phase>>

\* ResponseMessageSort: every response behind the first gap is copied into
\* that gap.
Sorted(resp) ==
  LET gaps == {k \in DOMAIN resp : resp[k] = 0}
      gap == CHOOSE g \in gaps : \A k \in gaps : g <= k
      behind == {k \in DOMAIN resp : k > gap /\ resp[k] # 0}
      last == CHOOSE b \in behind : \A k \in behind : k <= b
  IN  IF gaps = {} \/ behind = {} THEN resp
      ELSE [k \in DOMAIN resp |->
              IF k < gap THEN resp[k] ELSE IF k = gap THEN resp[last] ELSE 0]

Answers(resp) == {k \in DOMAIN resp : resp[k] # 0}
Delivered(resp) == {Sorted(resp)[k] : k \in 1..Cardinality(Answers(resp))} \ {0}

SendEnd ==
  /\ stack # <<>> /\ Top.kind = "send" /\ Top.left = <<>>
  /\ stack' = Pop
  /\ UNCHANGED <<mvars, on, early, phase>>
-----------------------------------------------------------------------------
Next ==
  \/ \E s \in Services :
       \/ Register(s) \/ Unregister(s)
       \/ StartService(s) \/ StopService(s) \/ StopEnd(s) \/ Finish(s)
       \/ \E b \in BOOLEAN : StartEnd(s, b) \/ SendMessage(s, b)
       \/ \E d \in Services : SubscribeMessage(s, d) \/ RemoveSubscribe(s, d)
  \/ ShutDown \/ Deinit \/ SendEnd
  \/ \E b \in BOOLEAN : Handle(b)

Spec == Init /\ [][Next]_vars
-----------------------------------------------------------------------------
(* Type invariant.                                                         *)
TypeOK ==
  /\ \A s \in Services : inst[s] \in 0..(MaxInst - 1) /\ running[s] \in BOOLEAN
  /\ \A s, d \in Services : inst[s] = inst[d] /\ inst[s] # 0 => s = d
  /\ on \subseteq Services /\ early \subseteq Services /\ phase \in {"up", "down"}
  /\ Len(stack) <= MaxDepth

(* RunningMeansOn: the manager's running bit agrees with the service, over  *)
(* starts inside starts and finishes inside any callback: a service that is *)
(* not on is not taken for running, and one that is on can be stopped.  The *)
(* exception is one that finishes inside its own onStart: if that returns   *)
(* success the bit is set and stays (ServiceProxyStartService).             *)
RunningMeansOn == \A s \in Services \ early : running[s] <=> s \in on

(* SubNumExact: subNum, which sizes the copy of the handlers, is the length *)
(* of the list it counts, and nobody is on the list twice.                  *)
SubNumExact == \A d \in Services : subNum[d] = Len(subs[d]) /\ Len(subs[d]) = Cardinality(Subscribers(d))

(* SubsAlive: while the component is up a message goes only to services     *)
(* that are on or starting; whoever finished has been taken off every list  *)
(* (ClearServiceAllMsgSub), also when it had subscribed on a connection.    *)
SubsAlive ==
  phase = "up" => \A d \in Services : \A s \in Subscribers(d) : s \in on \/ Open("start", s)

(* NoResponseLost: the sender of a message receives every response the      *)
(* handlers gave, unless two of them stand behind the first handler that    *)
(* gave none: ResponseMessageSort never moves its index on and copies both  *)
(* into the same place.                                                     *)
NoResponseLost ==
  stack # <<>> /\ Top.kind = "send" /\ Top.left = <<>> /\ Top.want =>
    \/ Delivered(Top.resp) = Answers(Top.resp)
    \/ \E g \in DOMAIN Top.resp : /\ Top.resp[g] = 0
                                  /\ Cardinality({k \in Answers(Top.resp) : k > g}) > 1

(* SubsSound: the lists of subscribers and their counters agree with the    *)
(* services' lives.                                                         *)
SubsSound == TypeOK /\ SubNumExact /\ SubsAlive

(* ServicesSound: running bits, subscriptions and counters agree with the   *)
(* services' lives, and no response is lost but in the one case the code    *)
(* loses it, over calls made inside callbacks.                              *)
ServicesSound == RunningMeansOn /\ SubsSound /\ NoResponseLost
=============================================================================
