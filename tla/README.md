# Verification of communication_iot_connect

TLA+ models of the IoT connection component, checked with TLC on small instances and, for the
executor, the message queue and the hash map, proved with TLAPS for every value of the constants.
`PROJECT.json` lists the components, the runs, the map from definitions to source lines, the hazards
and the theorems.

## 1. The system

One process, a few threads. An application thread starts the component (`IotcOhMain`). A main task
then initializes every part level by level, runs one event loop, deinitializes, and starts over
until it is told to stop. Nearly all protocol code runs on the loop's thread; what other threads
want is handed to it through a message queue. The hard parts are therefore of four kinds:

* threads against the loop: the executor, the message queue, the event bus, start, stop and reset,
  the callbacks of the Bluetooth and SLE hosts;
* callbacks against the structure that calls them: sources, timers, descriptors, subscriptions,
  services and table entries are added and removed by the very callbacks a walk is calling;
* the loop against the outside: messages that are lost, repeated, late or out of order, a link that
  breaks in the middle of a handler, power cuts between two writes to flash;
* boundaries: lengths at the border of their encoding, sequence numbers and clocks that wrap, tables
  and queues that are full.

| Part | Module | Talks to |
|---|---|---|
| executor (`schedule/sched_executor.c`) | SchedExecutor, over MsgFifo | message queue, every API of the SDK |
| message queue (`utils_msg_queue.c`, `event_source_msg_queue.c`) | MsgQueue | event loop |
| event loop, timers, descriptors (`frameworks/event_loop`) | EventLoop, TimerSource, FdSource | all parts |
| init units, main task (`fwk_init.c`, `fwk_main.c`, `main_loop.c`) | FwkInit, FwkMain | event loop |
| watch dog (`DFx/dfx_watch_dog.c`) | WatchDog | event loop |
| event bus (`event_bus.c`, `event_bus_public.c`) | EventBus | executor |
| service manager (`service_manager.c`) | ServiceManager | all services |
| hash map, clock and calendar (`utils`) | HashMap, UtilsTime | local control, LAN search, cloud |
| CoAP codecs, endpoint, stacks, links, sockets (`wifi/infrastructure/transport`) | CoapCodec, CoapEndpoint, NetStack, StreamLink | cloud, softap, local control, LAN search |
| cloud service (`wifi/application/cloud`) | CloudFsm, CloudKeys, DeviceControl | CoAP client, timers, device service |
| Wi-Fi connection, softap (`wifi/application/connect`, `softap`) | WifiConnect, Softap | host, CoAP, SPEKE, device service |
| local control, LAN search (`wifi/application`) | LocalControl, LanSearch | CoAP, SPEKE, device service |
| BLE (`core/ble`, its adapter) | BleStack, BleLink, AdvData | host, SPEKE, device service |
| SLE (`core/sle`, its adapters) | SleStack, AdvData | host |
| security (`infrastructure/security`) | Speke, SpekeFlat, DeviceStore | sessions, device service |
| device service, product (`core/device`, `infrastructure/product`, SDK) | DeviceControl, DeviceStore | cloud, local control, application |

## 2. Modules

Every module is named after the part it models and keeps the names of the source. In a module,
`Name` is the operation as the code has it, and the operators commented as faulty beside it are
plausible slips of the code, used to see that the properties notice them. Modules of one record
variable (`ep`, `bs`, `dc`, ...) have their operations as operators on the whole state, because in
the code handlers run inside each other and each of them is one step of the loop.

**Threads and queue.** *MsgFifo* is the abstract specification of a bounded queue. *MsgQueue* is the
real one: sections under the lock are steps, every wait on `sendSem` and `recvSem` is a step of its
own, and timed waits may give up. The producer's program counter `ppc` follows `UtilsMsgQueuePush`,
the consumer's `cpc` follows the loop's iteration and then the source's finalization. MsgQueue
implements MsgFifo (`ImplementsFifo`), and *SchedExecutor* uses MsgFifo's operations for its own
queue, so the executor is checked over what the queue was shown to promise. Messages carry no
identity, as in the code: a message left by an expired call serves the task of a later one.

**Loop and sources.** *EventLoop*, *TimerSource* and *FdSource* model a walk over a list whose
callbacks change the list. The walk is a cursor, a callback is a phase in which every operation is
possible, and what the environment reports (events, ready descriptors, time) is arbitrary. The
timer's clock wraps. *WatchDog* has the watch dog's own task beside the loop that feeds it; every
start makes a new task.

**Framework.** *FwkInit* is the levelled initialization with failures and the three policies.
*FwkMain* is the life of the component: main tasks, application threads that stop and reset it, the
loop list that is copied, and the notices through two semaphores; a call's look at the flag, the
making of its semaphore and the lowering of the flag are steps of their own. *EventBus* has
publications as walks over copies, subscriptions of all kinds (also several of one listener, and one
match function of two listeners) and the application's listeners. *ServiceManager* has a stack of
open callbacks, because start, stop, finish and messages nest; any registered service may subscribe.

**Transport.** *CoapCodec* builds and reads packets of both formats; a wire is a sequence of bytes
and of opaque runs with their lengths, so that options and frames can lie at every border of the
encoding. *CoapEndpoint* is the endpoint over a network that loses, repeats and delays: pending
requests, retransmissions that also answer repeated requests, and the server; handlers may send
while the check for timeouts is walking the list. *NetStack* creates,
connects, watches and tears down sockets, links, sessions and endpoints that share the system's
descriptors and one buffer. *StreamLink* has the sending and receiving loops over a byte stream that
is cut into records anywhere; a frame has its length and, apart from it, the length that its first
two octets say when they are read as one number.

**Cloud.** *CloudFsm* is the cloud service: a refused send runs the link error callback, an accepted
send first runs the handler of an expired request, and what a handler of the state table returns
overwrites what those have switched to. A binding is a number, so that the login info in flash, the
register info in RAM and the credentials in memory can disagree. `PowerCut` and `Reboot` keep the
flash and lose the rest. *CloudKeys* has the negotiation of the link's session key with symbolic
derivation. *DeviceControl* has one service with one value: the product holds it, requests write it,
the application changes it on its own thread, and every channel has the value it was told last.

**Wi-Fi.** *WifiConnect* takes over, verifies and keeps a network configuration against a host that
brings the link up and down. *Softap* is the provisioning service with its table of peers.
*LocalControl* and *LanSearch* have the tables of phones with ages, limits and sequence numbers.

**BLE and SLE.** *BleStack* and *SleStack* have two threads: the loop, and the host's callbacks that
post to a bounded queue. *BleLink* reassembles, decrypts and dispatches a phone's commands. *AdvData*
builds advertising data octet by octet, with symbols for the characters of the device's identity,
and has a scanner read it back.

**Security and store.** *Speke* runs the key exchange of both sides over a link that loses, repeats
and swaps messages; keys and codes are terms. *SpekeFlat* is the in-place JSON reader against the
tree a text was printed from. *DeviceStore* has the files, the encrypted items, the configuration in
RAM, writes and reads that fail, and power cuts between the steps of a write.

**Containers and time.** *HashMap* numbers the values so that the release of each is told apart, and
takes a traversal node by node. *UtilsTime* has the clock over a counter of one word and the calendar
arithmetic, walked day by day next to a calendar that only knows the lengths of the months.

## 3. Runs

A run joins parts that share no state: the variable `which` is chosen by Init and never changes, the
chosen part moves and the others stay where they begin (or are switched off where only safety is
checked). The parts of a run are thus checked side by side and not against each other.

| Run | Parts | Bounds | Shows |
|---|---|---|---|
| framework | SchedExecutor, EventLoop, FwkInit, FwkMain, WatchDog, HashMap | 3 callers, queue of 2, 4 calls; 3 sources; 5 units, 2 failures; 2 threads, 2 main tasks; 2 starts of the watch dog; 5 keys in 2 chains | `FrameAlive`: a callback never outlives its caller's frame. `OkMeansRan`: OK means that this call's callback ran. `ThreadsSound`: leftovers of expired calls are bounded, the walk and its lists survive what callbacks do, there is one main task whose end leaves nothing behind, the watch dog bites only a loop that hangs. `MapSound`: the map holds what was put. `CallReturns`, `QuitStops`: calls return, quit stops the loop. `InitSound`: units are up once, levels in order. `CallsTruthful`: reset means restarted, a stop takes effect |
| sources | TimerSource, FdSource | clock of 4 ticks, 2 timers; 2 descriptors, 3 priorities | `TimersSound`: no timer fires early across a wrap or after removal. `ArmedFires`. `ServesByPriority`: counts bound the arrays, the one served is at most one step below the highest priority, which is less than the comment promises (section 6). `EventServed`: no descriptor starves |
| delivery | MsgQueue, EventBus, NetStack, ServiceManager | 2 producers with 2 sends each, queue of 2; 2 threads, 2 listeners with 4 subscriptions of which two have one match; 3 stacks; 3 services, nesting of 2 | `NoLostWakeup`, `ImplementsFifo`: two messages in the queue leave in the order they came. `SendsSettle`: sends return, what was accepted is handled. `DeliverySound`: who is subscribed throughout a publication hears it once for each subscription, a successful subscription is heard unless another listener has its match, parameters have one owner. `AsyncFreed`. `StackSound`: stacks, descriptors and watch list agree. `ReadResumes`: a read error does not end reading for ever. `ServicesSound`: running bits agree with the services over nested starts and finishes, subscriptions and their counts agree, and no response is lost but in one case |
| cloud | CloudFsm, WifiConnect | 2 bindings, 1 SLE device, up to 3 disturbances; 2 networks | see below |
| links | CoapEndpoint, BleStack | 2 peers that use one id and token, at most 1 or 2 pending requests; 1 connection number | `EndpointSound`: one call of each handler, with its own answer; a repeated request that is not handled again gets the response kept for it, sent to the peer that asked. `RequestsSettle`. `BleSound`: the service's bookkeeping follows the host. `AdvertisingEnds` |
| sessions | CoapCodec, StreamLink, CloudKeys, BleLink, Speke, SpekeFlat, SleStack, AdvData, Softap, DeviceControl | lengths around 12, 13, 268, 269, 270; 2 frames in 2 records; 3 commands of 2 fragments; 2 overlapping negotiations; 2 stations; 2 requests over 2 links | `WireSound`: packets are read back, streams lose nothing, both ends hold one key. `LinkSound`: commands are whole and run once, and no two different messages carry one number. `SpekeSound`: both sides end with one key or none. `SleSound`: the service follows the SLE host, and its tables are overrun only in two named ways. `AdvSound`: what is advertised reads back. `HotspotSound`: places, messages and the end of provisioning. `ControlSound`: every channel is told what the product holds |
| device | UtilsTime, DeviceStore, LanSearch, LocalControl | counter of 16, every day of 150 years; 5 time zones; 2 files, 2 saves, 1 fault; 3 phones for 2 places, 3 control messages | `TimeSound`: clock and calendar are right. `KeptSound`: what is kept is what was saved last, or tried to be. `LanSound`: sessions of phones are bounded, end in time and take a numbered message once; peers of the search end in time while the check runs |
| fwkmain_stop_early | FwkMain | 1 thread, 3 calls | **violation**: a stop during initialization times out, the same thread's next one succeeds at once while the task runs |
| cloud_restore_stray | CloudFsm | 2 bindings, 2 disturbances | **violation**: restoring a device that is not bound leaves the revoke flag, which revokes the next binding |
| tcp_stale_fd | NetStack with a TCP socket | 3 stacks, 3 descriptors | **violation**: a failed connection keeps the number of its closed descriptor |
| fdsource_highest | FdSource | 2 descriptors, 3 priorities | **violation**: a descriptor is served although one of a priority one higher is ready |
| codec_269 | CoapCodec | as above, 269 included | **violation**: a value of 269 is written with a one-byte extension |

The bounds are the smallest at which the case a property is about occurs: an expired call needs a
second call to be served by its message and a third to meet its token; two producers must wait for
room at once; order needs two messages in the queue and a second send of one producer; a walk needs a node before, at and behind the cursor; a wrap needs a clock shorter
than two intervals; a table must be full while one more wants in; a repeated request needs its
answer kept once and given up once. Breaking the code in the way of each faulty operator makes TLC
report the property it is paired with.

Some parts have several *uses* or *builds* chosen at the start. In a smooth or calm use the stronger
properties are stated; in a rough one more goes wrong (waits run out, initialization fails, power is
cut inside a handler, several requests expire in one check) and the remaining ones still hold. In
other modules a history (`gaps`, `gap`, `late`, `stray`) records that the code met a case it does not
handle, and the conjuncts that do not survive it say so. Where deadlock is not checked, the modelled
program may stop: the application has ended, the machine is in EXIT until the next boot, or the
bounds are used up.

**The cloud service.** `CloudSound`: a stopped service leaves no endpoint, request or timer; ONLINE
means link, heartbeat, an armed token timer and the binding in flash; a waiting state has its
request pending.
`RevokesItsOwn`: a late revocation can only wipe the binding it was sent for, although its handler
looks at nothing. `ComesOnline`: a bound device comes online when the disturbances end.
`RestoreForgets`: in the calm use a binding that was to be revoked is forgotten for good, although
answers are lost and power is cut anywhere but between the two writes of the revoke handler, which is
the exception it names. `ConnectSound` and `VerifySettles`: every network configuration has someone
at work on it and ends checked or forgotten, unless a timer or subscription it needs cannot be had or
one of the cases below occurs.

**Limits the model checker showed**, which the statements name:

* CloudFsm: a link error exactly between INIT and CREATE_LINK takes the machine past the creation of
  the link, and an old revocation expires in the new binding's time (`skipped`); a link error in
  INIT, after a revocation, logs in again with the credentials still in memory; several requests
  that expire in one check lose all handlers but the last; a power cut between the two writes of the
  revoke handler (`m2m_cloud_fsm.c:345`-`351`) keeps the binding and forgets the flag; an answer for an
  SLE device leaves the machine in its waiting state; the refreshed token is asked for in time but not
  stored (`m2m_cloud_token.c:113`-`117`), so nothing is said of the token itself.
* CoapEndpoint: of the requests that expire together only the last one's handler is called
  (`coap_endpoint_client.c:101`-`109`; `missed`); the walk keeps the time it began with, so a request
  that a handler sends a moment later has an age of nearly 2^32 and expires at once (`:132`-`140`).
* MsgQueue: a sender that has the source in hand while the loop frees it goes on with freed memory
  (`sched_msg_queue.c:53`; `wild`), and a push accepted after the drain is freed unhandled (`late`).
* EventLoop: a source that deletes itself in its dispatch and reports failure is used after it was
  freed (`event_loop.c:312`; `crashed`).
* FwkInit: `FwkUnregInitUnit` forgets units that are up, which are then never taken down.
* FwkMain: the exit notice of a task comes after its id is cleared; where the next task was started in
  between, its stop may be told of the old one's end (`fwk_main.c:91`). Stopping is therefore only
  claimed to mean stopped while the application stops the component when its loop runs.
* EventBus: of two listeners with one match function the second is told IOTC_OK and hears nothing
  (`event_bus.c:64`-`66`); one that subscribed to an event and to all is called twice.
* ServiceManager: a service that finishes inside its own `onStart` and returns success keeps its running
  bit (`service_manager.c:217`).
* WifiConnect: a configuration received while connected, a link that comes up just as the 60 s
  end, or a timer or subscription that could not be added leaves the network to be verified for ever
  (`svc_conn_action.c:61`, `:96`, `:122`, `svc_conn_net_info.c:106`).
* NetStack: a read error keeps the shared buffer until the next reader's timeout
  (`trans_link.c:184`), after which two holders may share it (`utils_buffer.c:100`). The cloud's link
  frees its own endpoint inside a callback that then goes on with it (`m2m_cloud_link.c:160`-`181`,
  `coap_endpoint.c:121`); `StackSound` allows this use after free to the cloud's stack only.
* StreamLink: over TCP a short send offers the whole data again, and frames that arrive together are
  handed over together; over TLS a frame longer than the buffer ends the link, or is misread
  when it is about twice as long (`trans_link.c:150`). How long a frame is, `CoapTcpV1GetRemainSize`
  takes from its first two octets as one number (`coap_codec_tcp_v1.c:350`), while the encoder writes
  and the decoder reads a nibble with an extension (`:71`-`98`, `:205`-`249`); a frame is received alone
  and whole where the two agree, and the others are cut or joined. TLS is not the default build
  (`iotc_conf.h:136`).
* CloudKeys: a local session overwrites the salt of the cloud's link (`local_ctl_coap_api.c:585`), and
  protected messages are then refused until the link is negotiated again.
* BleStack and SleStack: events are lost at a full queue; a stop while connected keeps the count of
  connections; a result that comes after its wait mixes the handles of two attempts.
* SleStack: nothing is compared with the size of the adapter's tables (`iotc_sle_ext.c:140`, `:178`):
  services of the application overrun them, and so does a third start with the data service alone,
  since a stop does not empty them; the list of services may grow between its count and its copy.
* BleLink: the fragments of an incomplete command survive a disconnection (`linklayer_recv.c:116`). In
  the default build a get is answered twice under one number, by the report inside the handler
  (`ble_svc_custom_sec_data.c:199`) and by the answer itself (`linklayer_process.c:211`).
* AdvData: a device with BLE alone advertises, in the default build, the value whose comment speaks of
  a dialogue for Wi-Fi, and one without a dialogue advertises 0 (`ble_adv_data.c:114`, `:374`).
* Speke: the BLE server serves only the first of overlapping negotiations (`ble_speke_session.c:44`).
* Softap: near the end of the number range the sequence check accepts at most two windows
  (`svc_softap_coap.c:479`); a send that finds no buffer leaves the mark "in clear" with the session, and
  its next message leaves unencrypted (`stuck`); when the closing timer cannot be added the service
  ends inside its own handler; a station that takes over an address meets the session of the former
  one until the next check.
* DeviceStore: `posix` truncates the file before it writes (`adapter/kv/posix/iotc_kv.c:108`), and
  `oh_lite` accepts a short write (`adapter/kv/oh_lite/iotc_kv.c:99`) and answers OK with length 0 where
  the length could not be read (`:211`), so that a save is reported as done unverified; a read that
  fails at start is only logged (`config_info.c:107`), and the service goes on with empty values; the
  clear of the login info keeps `uidHash`.
* LocalControl: the resources beside the control resource carry no number, so a repeated write is
  carried out again (`local_ctl_coap_api.c:500`, `:552`).
* LanSearch: creating a peer leaves the counter behind (`lan_search_peer_mngr.c:238`-`246`), so between
  two checks the number of peers is not bounded; after a stop the expiry check is not started again,
  because 0 is taken for a timer (`:97`, `:126`).
* DeviceControl: a report overtaken by a request or lost at a full queue leaves a channel with an old
  value until the next full report; the bridge answers late through pointers of an old link
  (`m2m_cloud_response.c:231`).
* UtilsTime: on cmsis2 the product of ticks and milliseconds overflows before the division
  (`adapter/os/cmsis2/iotc_os.c:244`), while `utils_common.c:44` handles a turn at 2^32; the clock is
  right until the first such turn. A zone given with minutes and no hours, or with negative minutes, is
  not the zone that is applied (`utils_time.c:178`).
* WatchDog: a stop before the task has begun, or while its handler runs on, leaves a task behind.

**Time in CloudFsm.** Timers other than the machine's have periods of a minute against
milliseconds, so they do not fire before the machine has left a state it leaves at once (`Settled`).
A request of an old connection that expires while the new one waits for the same answer counts as a
disturbance (`Slow`): it means the new answer took longer than the rest of the old timeout.

## 4. Fairness

* Loop thread (`WF` of its steps): the OS schedules it and callbacks return. In EventLoop a
  suspension ends with its time; in TimerSource the clock ticks.
* Callers and producers: a thread inside a call is scheduled, and a timed wait ends by a token or by
  its timeout. Nobody is obliged to make a call.
* FwkMain: the main task and threads inside a call go on.
* NetStack: the loop reads a watched descriptor that stays readable.
* CoapEndpoint: the event source is checked or dispatched, one following the other, and time passes; the
  network owes nothing.
* BleStack: the loop serves its queue and its timer, the host answers what it was asked, time passes.
* WifiConnect: due timers fire, posted events are handled, the hotspot ends by its own timeout. Neither
  a requested restart nor the network is obliged to come.
* CloudFsm: the machine's timer and the endpoint's check run, the cloud answers what reaches it, the
  device reboots when told to, and its program starts the service. Losses, refusals and errors are
  bounded by `trouble`; nothing obliges the network to fail or not to fail before that. All of it is
  assumed in the calm use alone, for which the liveness is stated.

Weak fairness suffices everywhere. In a joined run the fairness of a part is stated for the
behaviours of that part.

## 5. Proofs

`SchedExecutorProofs` proves, for any set of callers, any capacity and any number of calls:

* `ExecutorTypeOK`: type correctness;
* `ExecutorFrameAlive`: the loop never runs a callback whose caller has returned;
* `ExecutorOkMeansRan`: IOTC_OK is returned only if this call's callback ran.

None of these is inductive as it stands. `IInv` adds what makes the code work: the caller in a call is
the one that holds `apiLock`; the shared task is set exactly while that caller is between
`SetTaskInfo` and `GetTaskResult`; the handler holds `taskLock` exactly while it runs a callback or
has found no task; a finished task has run. A caller can leave only through `GetTaskResult` or
`ClearTaskInfo`, both of which need `taskLock`, and so not while its callback runs. The assumptions
are that the loop is not one of the callers and that the capacity is positive.

`MsgQueueProofs` proves, for any set of producers, any positive capacity and any number of sends:

* `QueueTypeOK`: type correctness, in particular that both semaphores never count past one;
* `QueueNoLostWakeup`: whenever the loop sleeps on `sendSem` and a message is there, so is a token;
* `QueueImplementsFifo`: every step of the queue is a step of `MsgFifo` or leaves it alone, so that
  what the executor is proved over is what the queue provides.

Its `IInv` adds that a send under way has a number (its message is one of `Messages`), that a popped
message is held until it is dispatched, and that the loop's thread is past `UtilsMsgQueueDeinit`
exactly when the queue is gone, which the refinement needs for its `alive`. The assumptions
are that the capacity is positive, the number of sends a natural number, and `None` no message.

`HashMapProofs` proves, for any set of keys (non-empty byte strings), any number of chains and any
number of insertions:

* `HashBelowFold`: the hash of a key stays below the bits that `Hash` folds back, so the model leaves
  the folding out;
* `HashMapSound`: `UtilsHashMapGetValue` returns what was inserted last and not removed, the length
  counts it, every value is held under one key or was released once, and a traversal that runs to its
  end has visited every node there was, though its callback removes nodes.

The invariant `HmInv` says what the chains are: every node is in the chain of its hash, a key is in a
chain at most once, and every key with a value is found; and what a traversal still has to do:
the keys visited and the keys from the cursor on are disjoint and together those there were at the
beginning. A removal shifts the chain under the cursor, which is why the next node must have been
saved before the callback.

Only model-checked: everything about the other modules. Liveness under fairness is out of the
prover's reach, and so is what the scanning and calendar functions compute for every input, which
needs induction over data.

## 6. Disagreements with the documentation

1. `docs/iotc-api-overview.md:52` calls `IotcOhStop` synchronous, its return meaning success or
   failure. `IotcFwkStop` lowers `g_existsFlag` before it waits. A stop during initialization tells no
   loop and times out; the same thread's next call finds the flag down and answers IOTC_OK at once
   while the task runs (run fwkmain_stop_early).
2. `docs/iotc-api-overview.md:68` says the same of `IotcOhRestore`. The revoke flag of a device that
   is not bound outlives the call and revokes a later binding (run cloud_restore_stray).
3. `trans_socket.h:38` and `:67` promise of `socketConnect` a descriptor or an error, and that a
   closed socket can be connected again. `TcpSocketConnect` keeps the number of the descriptor it has
   closed (`trans_socket_tcp.c:117`), which may be another socket's by the next close (run
   tcp_stale_fd).
4. `coap_codec_comm.c:176` gives the one-byte extension the values up to 13 + 0xFF. The test below it
   lets 269 pass (run codec_269), and the next one is off in the same way at 65805.
5. `event_source_fd.c:193` says that the ready descriptor of the highest priority is served. The
   priorities are raised during the walk, and one that is exactly one higher does not replace the one
   found before it (run fdsource_highest). `ServesByPriority` states what does hold: at most one below.
6. `event_bus_sub.h:57` gives 0 for success. A second listener with the match function of another is
   given 0 and is not subscribed (`event_bus.c:64`). `SubscribedHears` leaves this case out; without the
   exception it is `AskedHears`, which no run claims.
7. `coap_codec_tcp_v1.c:214` speaks of two octets reserved for the length. The encoder does not fill
   them and the receiver reads them (`:350`): the two rules for the length of a frame described under
   StreamLink above.

## 7. Abstractions

Memory does not fail; flash, sends, sockets and the hosts fail where a module says so (`faults`,
`trouble`). Locks with a two-minute timeout are taken never to expire, since no holder waits for
long. Log, wording and formats are left out, except in CoapCodec, SpekeFlat and AdvData, which are
about them. Cryptography is symbolic: two terms are equal exactly when their inputs are.
SchedExecutor and EventBus do not model their destruction under callers. CloudFsm leaves out
payloads and the length of the backoff, takes the reboot of a restore to work, and lets the cloud
refuse a login without credentials. CoapCodec looks at TCP frames below 525 octets: for longer ones
`CoapTcpV1ParseHeader` computes another length. Ages and clocks are counted in steps of the period of
the check that looks at them.

## 8. Not modelled

* The SLE client application, its session manager and its link layer. In the standard build the
  adapter polls for a state it never sets, so the service never runs; and `sle_client_event_service.c`,
  `sle_session_mngr.c`, `sle_linklayer_service.c`, `sle_linklayer_encrypt_sesskey.c` and
  `sle_svc_custom_sec_data.c` use names that nothing declares.
* Adapters other than those named in section 2 and in `PROJECT.json`: platform calls without state.
* Cryptographic computation, base64, JSON trees and string helpers.
* Functions without callers (`DfxDelNoDogTaskRecord`, `ServiceProxyResetService`,
  `ServiceProxySendAsyncMessage`) and the handler of an event that nothing publishes
  (`EventSubForStopCoapServerAndClearAllClient`).
* The parts of a run are not composed with each other: that, say, a lost BLE event and a failing save
  meet is outside every run. The interfaces they share (the executor, the queue, the timers) are
  modelled with arbitrary use.
