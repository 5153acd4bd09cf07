------------------------------ MODULE NetStack ------------------------------
(***************************************************************************)
(* The network stacks under the CoAP endpoints: socket, link, session,     *)
(* endpoint and event source are created in order, connected, watched and  *)
(* torn down (coap_net_stack.c, m2m_cloud_link.c and the sockets).  The    *)
(* stacks share the descriptors of the system, the watch list of the loop  *)
(* and one receive buffer guarded by a semaphore (utils_buffer.c).         *)
(***************************************************************************)
EXTENDS Integers, Sequences, FiniteSets, FiniteSetsExt

CONSTANTS
  LanStacks,    \* stacks made by CoapNetStackCreate, on UDP sockets
  Cloud,        \* the stack made by M2mCloudLinkCreate
  CloudKind,    \* its socket: "tcp" or "tls" (IOTC_CONF_TCP_SUPPORT)
  Fds,          \* descriptors of the system, a set of positive numbers
  MaxWatch,     \* EVENT_SOURCE_FD_MAX_WATCH_SIZE
  MaxErr        \* bound: reads that fail

Stacks == LanStacks \cup {Cloud}

Kind(s) == IF s = Cloud THEN CloudKind ELSE "udp"

NoFd == 0       \* TRANS_SOCKET_INVALID_FD

VARIABLES
  os,           \* who has each descriptor open, or "free"
  watched,      \* pairs of a descriptor and the stack to call
  st,           \* the objects of each stack
  errs,         \* reads that failed
  sem,          \* semaphore of the shared receive buffer
  readable,     \* stacks with something to read
  freedUse      \* stacks whose teardown used an object already freed

nsVars == <<os, watched, st, errs, sem, readable, freedUse>>

Empty == [link |-> FALSE, sess |-> FALSE, endpoint |-> FALSE, source |-> FALSE,
          fd |-> NoFd,     \* TransSocket.fd
          own |-> NoFd]    \* the descriptor the TCP, TLS or UDP socket keeps

NsInit ==
  /\ os = [f \in Fds |-> "free"]
  /\ watched = {}
  /\ st = [s \in Stacks |-> Empty]
  /\ errs = 0
  /\ sem = 1
  /\ readable = {}
  /\ freedUse = {}

(* The part of the state a call works on. *)
Here == [os |-> os, watched |-> watched, st |-> st, used |-> freedUse]

Becomes(n) == os' = n.os /\ watched' = n.watched /\ st' = n.st /\ freedUse' = n.used

-----------------------------------------------------------------------------
(* Sockets. *)

Free(n) == {f \in Fds : n.os[f] = "free"}

IotcClose(n, f) == [n EXCEPT !.os[f] = "free"]

Opened(n, s, f) == [n EXCEPT !.os[f] = s, !.st[s].own = f, !.st[s].fd = f]

(* A descriptor is opened and its options set; closed again if one fails.   *)
UdpSocketConnect(n, s, ok) ==
  IF n.st[s].own # NoFd THEN [n EXCEPT !.st[s].fd = n.st[s].own]
  ELSE IF Free(n) = {} \/ ~ok THEN n
  ELSE Opened(n, s, Min(Free(n)))

(* CreateAndConnectTls frees the client when it cannot connect.             *)
TlsSocketConnect(n, s, ok) ==
  IF n.st[s].own # NoFd THEN [n EXCEPT !.st[s].fd = n.st[s].own]
  ELSE IF Free(n) = {} \/ ~ok THEN n
  ELSE Opened(n, s, Min(Free(n)))

(* When the connection is refused the descriptor is closed, and the socket  *)
(* keeps its number.                                                        *)
TcpSocketConnect(n, s, ok) ==
  IF n.st[s].own # NoFd THEN [n EXCEPT !.st[s].fd = n.st[s].own]
  ELSE IF Free(n) = {} THEN n
  ELSE IF ~ok THEN [n EXCEPT !.st[s].own = Min(Free(n))]
  ELSE Opened(n, s, Min(Free(n)))

TransSocketConnect(n, s, ok) ==
  CASE n.st[s].fd # NoFd -> n
    [] n.st[s].fd = NoFd /\ Kind(s) = "udp" -> UdpSocketConnect(n, s, ok)
    [] n.st[s].fd = NoFd /\ Kind(s) = "tls" -> TlsSocketConnect(n, s, ok)
    [] n.st[s].fd = NoFd /\ Kind(s) = "tcp" -> TcpSocketConnect(n, s, ok)

TransSocketClose(n, s) ==
  IF n.st[s].fd = NoFd THEN n
  ELSE [IotcClose(n, n.st[s].own) EXCEPT !.st[s].own = NoFd, !.st[s].fd = NoFd]

TransSocketFree(n, s) ==
  IF n.st[s].own = NoFd THEN n
  ELSE [IotcClose(n, n.st[s].own) EXCEPT !.st[s].own = NoFd, !.st[s].fd = NoFd]

-----------------------------------------------------------------------------
(* The watch list of the loop. *)

CanWatch(n, s) == n.st[s].fd # NoFd /\ Cardinality(n.watched) < MaxWatch

WifiSchedLinkRecvWatch(n, s) ==
  IF CanWatch(n, s) THEN [n EXCEPT !.watched = @ \cup {<<n.st[s].fd, s>>}] ELSE n

WifiSchedFdRemove(n, f) == [n EXCEPT !.watched = {w \in @ : w[1] # f}]

-----------------------------------------------------------------------------
(* Stop and destroy. *)

(* Faulty: the descriptor is closed while the loop still watches it. *)
StopKeepsWatch(n, s) ==
  LET m == [n EXCEPT !.st[s].source = FALSE]
  IN IF m.st[s].link /\ m.st[s].fd # NoFd THEN TransSocketClose(m, s) ELSE m

CoapNetStackStop(n, s) ==
  LET m == [n EXCEPT !.st[s].source = FALSE]
  IN IF m.st[s].link /\ m.st[s].fd # NoFd
     THEN TransSocketClose(WifiSchedFdRemove(m, m.st[s].fd), s)
     ELSE m

M2mCloudLinkClose(n) == CoapNetStackStop(n, Cloud)

(* CoapEndpointFree takes its handlers out of the session.                  *)
CoapEndpointFree(n, s) ==
  [n EXCEPT !.st[s].endpoint = FALSE,
            !.used = IF n.st[s].endpoint /\ ~n.st[s].sess THEN @ \cup {s} ELSE @]

TransSessFree(n, s) ==
  [n EXCEPT !.st[s].sess = FALSE,
            !.used = IF n.st[s].sess /\ ~n.st[s].link THEN @ \cup {s} ELSE @]

TransLinkFree(n, s) ==
  IF n.st[s].link THEN [TransSocketClose(n, s) EXCEPT !.st[s].link = FALSE] ELSE n

CoapNetStackDestroy(n, s) ==
  TransLinkFree(TransSessFree(CoapEndpointFree(CoapNetStackStop(n, s), s), s), s)

CloudLinkSessDeinit(n) ==
  TransSocketFree(TransLinkFree(TransSessFree(n, Cloud), Cloud), Cloud)

(* The cloud's teardown frees the session before the endpoint.              *)
M2mCloudLinkDeinit(n) == CoapEndpointFree(CloudLinkSessDeinit(M2mCloudLinkClose(n)), Cloud)

-----------------------------------------------------------------------------
(* Create: each object in turn, and everything back when one fails.         *)

Steps == <<"link", "sess", "endpoint">>

Made(n, s, k) ==
  [n EXCEPT !.st[s] = [f \in DOMAIN @ |-> IF f \in {Steps[i] : i \in 1..k} THEN TRUE ELSE @[f]]]

(* The last socket of a LAN stack was closed with its link; a new one is    *)
(* given.  k objects could be made.                                         *)
CoapNetStackCreate(n, s, k) ==
  LET clean == CoapNetStackDestroy(n, s)
      fresh == Made([clean EXCEPT !.st[s] = Empty], s, k)
  IN IF k = Len(Steps) THEN fresh ELSE CoapNetStackDestroy(fresh, s)

CloudLinkSessInit(n, k) ==
  LET made == Made(n, Cloud, k)
  IN IF k >= 2 THEN made ELSE CloudLinkSessDeinit(made)

M2mCloudLinkCreate(n, k) ==
  LET made == CloudLinkSessInit(M2mCloudLinkDeinit(n), IF k < 2 THEN k ELSE 2)
  IN IF k = Len(Steps) THEN Made(made, Cloud, k) ELSE M2mCloudLinkDeinit(made)

(* Start: connect, watch, and the event source; all undone if one fails.    *)
Start(n, s, ok, src) ==
  LET connected == TransSocketConnect(n, s, ok)
      watching == WifiSchedLinkRecvWatch(connected, s)
  IN IF ~CanWatch(connected, s) THEN CoapNetStackStop(connected, s)
     ELSE IF ~src THEN CoapNetStackStop(watching, s)
     ELSE [watching EXCEPT !.st[s].source = TRUE]

(* A stack is not started twice: its owners keep it stopped or started.     *)
CoapNetStackStart(n, s, ok, src) ==
  IF n.st[s].link /\ n.st[s].endpoint THEN Start(n, s, ok, src) ELSE n

M2mCloudLinkConnect(n, ok, src) == Start(M2mCloudLinkClose(n), Cloud, ok, src)

-----------------------------------------------------------------------------
(* Steps. *)

Create(s) ==
  \E k \in 0..Len(Steps) :
    /\ Becomes(IF s = Cloud THEN M2mCloudLinkCreate(Here, k) ELSE CoapNetStackCreate(Here, s, k))
    /\ readable' = readable \ {s}
    /\ UNCHANGED <<errs, sem>>

Connect(s) ==
  \E ok, src \in BOOLEAN :
    /\ st[s].link /\ ~st[s].source
    /\ Becomes(IF s = Cloud THEN M2mCloudLinkConnect(Here, ok, src)
               ELSE CoapNetStackStart(Here, s, ok, src))
    /\ UNCHANGED <<errs, sem, readable>>

Stop(s) ==
  /\ st[s].source
  /\ Becomes(CoapNetStackStop(Here, s))
  /\ readable' = readable \ {s}
  /\ UNCHANGED <<errs, sem>>

Destroy(s) ==
  /\ st[s].link
  /\ Becomes(IF s = Cloud THEN M2mCloudLinkDeinit(Here) ELSE CoapNetStackDestroy(Here, s))
  /\ readable' = readable \ {s}
  /\ UNCHANGED <<errs, sem>>

(* The network: something can be read from an open descriptor.              *)
Arrive(s) ==
  /\ st[s].fd # NoFd
  /\ s \notin readable
  /\ readable' = readable \cup {s}
  /\ UNCHANGED <<os, watched, st, errs, sem, freedUse>>

(* CloudSessLinkErrorCallback; a LAN stack registers no error callback.     *)
TransLinkRecvErrorEvent(s) == IF s = Cloud THEN M2mCloudLinkClose(Here) ELSE Here

(* Faulty: it gives up without the post. *)
GetBufferNoPost == sem = 0 /\ sem' = 0

(* UtilsGetBuffer gives up after its wait and posts the semaphore itself.   *)
GetBufferTimeout == sem = 0 /\ sem' = 1

ReadNoBuffer(s) ==
  /\ \E w \in watched : w[2] = s
  /\ s \in readable
  /\ GetBufferTimeout
  /\ UNCHANGED <<os, watched, st, errs, readable, freedUse>>

(* The read fails: the error is reported and the buffer is not released.    *)
ReadFails(s) ==
  /\ \E w \in watched : w[2] = s
  /\ s \in readable /\ sem = 1
  /\ errs < MaxErr /\ errs' = errs + 1
  /\ sem' = 0
  /\ readable' = readable \ {s}
  /\ Becomes(TransLinkRecvErrorEvent(s))

(* TransSessMsgCorNodeProcess: up to the first handler that does not say    *)
(* continue; only an error is reported.                                     *)
CorNodeProcess(codes) ==
  LET stop == {i \in DOMAIN codes : codes[i] # "continue"}
  IN stop = {} \/ codes[Min(stop)] # "err"

(* The message is read and handed to the session's handlers.                *)
ReadEvent(s) ==
  \E codes \in [1..2 -> {"continue", "ok", "err"}] :
    /\ \E w \in watched : w[2] = s
    /\ s \in readable /\ sem = 1
    /\ readable' = readable \ {s}
    /\ Becomes(IF CorNodeProcess(codes) THEN Here ELSE TransLinkRecvErrorEvent(s))
    /\ UNCHANGED <<errs, sem>>

Read(s) == ReadNoBuffer(s) \/ ReadFails(s) \/ ReadEvent(s)

NsNext ==
  \E s \in Stacks :
    Create(s) \/ Connect(s) \/ Stop(s) \/ Destroy(s) \/ Arrive(s) \/ Read(s)

(* The loop serves every watched descriptor that stays readable.            *)
NsFair == \A s \in Stacks : WF_nsVars(Read(s))

NsSpec == NsInit /\ [][NsNext]_nsVars /\ NsFair

-----------------------------------------------------------------------------
NsTypeOK ==
  /\ os \in [Fds -> Stacks \cup {"free"}]
  /\ watched \subseteq Fds \X Stacks
  /\ st \in [Stacks -> [link : BOOLEAN, sess : BOOLEAN, endpoint : BOOLEAN,
                        source : BOOLEAN, fd : Fds \cup {NoFd}, own : Fds \cup {NoFd}]]
  /\ sem \in 0..1
  /\ readable \subseteq Stacks

(* OwnSocket: a connected socket's descriptor is open and is its own, as    *)
(* SocketIf promises of socketConnect: a value from zero on is the          *)
(* socket's descriptor, anything else an error code.                        *)
OwnSocket == \A s \in Stacks : st[s].fd # NoFd => os[st[s].fd] = s

(* StackSound: what the stacks hold agrees with the system and the loop.    *)
(*  - a connected socket has its own open descriptor, and no descriptor is  *)
(*    open that no socket knows of;                                         *)
(*  - the loop watches exactly descriptors of links that exist, so that     *)
(*    LinkFdReadCallback never gets a link that was freed;                  *)
(*  - a stack with an event source has its endpoint, which the source uses; *)
(*  - a LAN stack's teardown touches no object it has freed.                *)
StackSound ==
  /\ NsTypeOK
  /\ OwnSocket
  /\ \A f \in Fds : os[f] # "free" => st[os[f]].own = f
  /\ \A w \in watched : st[w[2]].link /\ st[w[2]].fd = w[1]
  /\ \A s \in Stacks : st[s].source => st[s].endpoint /\ \E w \in watched : w[2] = s
  /\ freedUse \subseteq {Cloud}

(* ReadResumes: what can be read is read, unless the stack stops first; a   *)
(* receive buffer that a failed read never released delays it (checked for *)
(* finitely many failed reads: each one costs another stack its turn).      *)
ReadResumes == \A s \in Stacks : s \in readable ~> s \notin readable \/ ~st[s].source
=============================================================================
