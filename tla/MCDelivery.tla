---------------------------- MODULE MCDelivery -----------------------------
(***************************************************************************)
(* What carries messages, events and packets to the loop, each component   *)
(* on its own instance: a behaviour belongs to the component that Init     *)
(* chooses, and the others stay where they begin.                          *)
(*                                                                         *)
(* Message queue: two producers that send twice over a queue of two: it    *)
(* fills, both wait for room at once, and stale tokens appear in both      *)
(* semaphores.                                                             *)
(*                                                                         *)
(* Event bus: two listeners that share a match function, one of them also  *)
(* subscribed to a single event and to all; two of the application's own.  *)
(* One publication, of either kind, with subscriptions changing under it:  *)
(* publications work on copies of their own and do not touch each other.   *)
(*                                                                         *)
(* Stacks: two in the LAN and the cloud's over TLS, one more than may be   *)
(* watched, with as many descriptors as stacks.                            *)
(*                                                                         *)
(* Services: one with a message and two that subscribe to it, with calls   *)
(* inside callbacks.                                                       *)
(***************************************************************************)
EXTENDS MsgQueue, TLC

CONSTANTS loop, app,        \* threads that publish
          l1, l2, m1,       \* listeners and a match function
          dev, s1, s2       \* services

VARIABLES
  which,
  up, list, walk, bQueue, param, extern, num, reg, asked, shadowed, walks, part,
  os, watched, st, errs, sem, readable, freedUse,
  inst, running, subs, subNum, nextInst, stack, on, early, phase

EB == INSTANCE EventBus
        WITH Threads <- {loop, app}, Loop <- loop, Listeners <- {l1, l2}, Events <- {1, 2},
             Accepts <- m1 :> {2},
             Uses <- {<<l1, "single", 1>>, <<l1, "all", None>>, <<l1, "match", m1>>, <<l2, "match", m1>>},
             MaxPosts <- 1, MaxWalks <- 1, MaxListeners <- 2, queue <- bQueue
NS == INSTANCE NetStack
        WITH LanStacks <- {"lan1", "lan2"}, Cloud <- "cloud", CloudKind <- "tls", Fds <- {1, 2, 3},
             MaxWatch <- 2, MaxErr <- 3
SM == INSTANCE ServiceManager
        WITH Services <- {dev, s1, s2}, Senders <- {dev}, MaxDepth <- 2, MaxInst <- 4

ebVars == <<up, list, walk, bQueue, param, extern, num, reg, asked, shadowed, walks, part>>
nsVars == <<os, watched, st, errs, sem, readable, freedUse>>
smVars == <<inst, running, subs, subNum, nextInst, stack, on, early, phase>>

MCInit ==
  /\ which \in {"queue", "bus", "stacks", "services"}
  /\ Init /\ EB!Init /\ NS!NsInit /\ SM!Init
  /\ which # "bus" => part = "bus"

MCNext ==
  /\ UNCHANGED which
  /\ \/ which = "queue" /\ Next /\ UNCHANGED <<ebVars, nsVars, smVars>>
     \/ which = "bus" /\ EB!Next /\ UNCHANGED <<vars, nsVars, smVars>>
     \/ which = "stacks" /\ NS!NsNext /\ UNCHANGED <<vars, ebVars, smVars>>
     \/ which = "services" /\ SM!Next /\ UNCHANGED <<vars, ebVars, nsVars>>

(* The fairness each component states for itself.                          *)
MCSpec ==
  /\ MCInit /\ [][MCNext]_<<which, vars, ebVars, nsVars, smVars>>
  /\ \A p \in Producers : WF_vars(which = "queue" /\ ProducerStep(p))
  /\ WF_vars(which = "queue" /\ Serve) /\ WF_vars(which = "queue" /\ Finalize)
  /\ WF_ebVars(which = "bus" /\ EB!LoopStep)
  /\ \A s \in {"lan1", "lan2", "cloud"} : WF_nsVars(which = "stacks" /\ NS!Read(s))

-----------------------------------------------------------------------------
(* DeliverySound: who is subscribed throughout a publication hears it once *)
(* for each subscription (EventBusPublishSyncInner), and list, parameters  *)
(* and listeners agree, but for a match that another listener has.         *)
DeliverySound == EB!DeliverySound

(* AsyncFreed: an accepted asynchronous publication is published and its   *)
(* parameter freed (EventBusPublishAsync).                                 *)
AsyncFreed == EB!AsyncFreed

(* StackSound: sockets, descriptors and the loop's watches agree over      *)
(* every order of creation, connection, failure and teardown.              *)
StackSound == NS!StackSound

(* ReadResumes: a readable stack is read, although a failed read never     *)
(* releases the shared buffer (LinkFdReadCallback).                        *)
ReadResumes == NS!ReadResumes

(* ServicesSound: running bits, subscriptions and counters agree with the  *)
(* lives of the services (service_manager.c), and a response is lost in    *)
(* one case only.                                                          *)
ServicesSound == SM!ServicesSound
=============================================================================
