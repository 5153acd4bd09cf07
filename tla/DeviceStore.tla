---------------------------- MODULE DeviceStore ----------------------------
(***************************************************************************)
(* What the device keeps across a restart: the encrypted key-value store   *)
(* (security_store.c with security_key.c and security_random.c), the file  *)
(* stores under it (adapter/kv/posix and adapter/kv/oh_lite), the device   *)
(* configuration (core/device/config), the network flag of the connect     *)
(* service (svc_conn_conf.c) and the device service that reads and writes  *)
(* them (core/device/service).                                             *)
(*                                                                         *)
(* All handlers run on the scheduler's loop, so they do not interleave;    *)
(* power may fail between any two steps of a file write.                   *)
(***************************************************************************)
EXTENDS Integers, Sequences, FiniteSets

CONSTANTS
  Kvs,          \* builds of the file store: "posix", "oh_lite"
  Paths,        \* store paths an application may set
  Default,      \* SDK_CONFIG_PATH
  Users,        \* account hashes (uidHash) that bind the device
  MaxSaves,     \* bound: commits
  MaxStoreFaults     \* bound: faults of the file system and of the key hooks

None == "none"
Items == {"dev", "conn"}
Zero == [dev |-> [id |-> None, uid |-> None, login |-> FALSE, revoke |-> FALSE],
         conn |-> 0]

NoFile == [k |-> "absent"]
Torn == [k |-> "torn"]
Empty == [k |-> "empty"]
Whole(v) == [k |-> "whole", v |-> v]

VARIABLE ds

DsInit ==
  \E kv \in Kvs:
    ds = [kv |-> kv,
          up |-> FALSE,                        \* g_isInit of the file store
          mutex |-> FALSE,                     \* the store's mutex exists
          path |-> None,                       \* g_storePath
          tag |-> None,                        \* g_tag
          list |-> {},                         \* registered items
          ram |-> Zero,                        \* g_storeInfo, g_connDataInfo
          len |-> [i \in Items |-> TRUE],      \* storeItem->len # 0
          reg |-> FALSE,                       \* g_regFlag
          files |-> [p \in Paths |-> [i \in Items |-> NoFile]],
          op |-> <<>>,                         \* commit in progress: item, step
          \* history
          com |-> [p \in Paths |-> [i \in Items |-> Zero[i]]],  \* last good commit
          tried |-> [p \in Paths |-> [i \in Items |-> {}]],  \* values saved since then
          spoilt |-> {},                       \* files a cut or failed write hit
          dirty |-> {},                        \* items not saved, or not read, well
          orphan |-> FALSE,                    \* login data cleared, account kept
          saves |-> 0, faults |-> 0]

Idle(s) == s.op = <<>>
StoreFault(s) == [s EXCEPT !.faults = @ + 1]
CanFail(s) == s.faults < MaxStoreFaults

-----------------------------------------------------------------------------
(* The file stores.  Opening for a write creates the file; the posix store  *)
(* also empties it, the other writes over what is there.                    *)

PosixOpen(f) == Empty
OhLiteOpen(f) == IF f = NoFile THEN Empty ELSE f

KvOpen(s, f) == IF s.kv = "posix" THEN PosixOpen(f) ELSE OhLiteOpen(f)

(* Reading asks for the length first; the oh_lite store makes the file then. *)
PosixRead(f) == f
OhLiteRead(f) == IF f = NoFile THEN Empty ELSE f
KvRead(s, f) == IF s.kv = "posix" THEN PosixRead(f) ELSE OhLiteRead(f)

(* A bad write puts part of the data into the file or nothing.  For the     *)
(* posix store both are errors; the other only looks for a negative result, *)
(* so it reports as done what came out short, or writing nothing at all.    *)
(* new tells whether the file is the one that was to be written.            *)
KvSetValue(s, i) ==
  LET put(t, f) == [t EXCEPT !.files[s.tag][i] = f]
      bad(f, ok) == [st |-> StoreFault(put(s, f)), ok |-> ok, new |-> FALSE]
      kept == s.files[s.tag][i]
  IN {[st |-> put(s, Whole(s.ram[i])), ok |-> TRUE, new |-> TRUE]}
     \cup (IF ~CanFail(s) THEN {}
           ELSE {bad(kept, FALSE), bad(Torn, s.kv = "oh_lite")}
                \cup (IF s.kv = "oh_lite" THEN {bad(kept, TRUE)} ELSE {}))

(* Deleting a file that does not exist is an error of both stores.          *)
KvDelValue(s, i) ==
  IF s.files[s.tag][i] = NoFile THEN [st |-> s, ok |-> FALSE]
  ELSE [st |-> [s EXCEPT !.files[s.tag][i] = NoFile], ok |-> TRUE]

-----------------------------------------------------------------------------
(* Reading an item.  The file is checked against its code before it counts; *)
(* decrypting a file of the right length that fails the check wipes the     *)
(* item's memory, a copied one is left as it was.  An empty file is the     *)
(* file of a new device.  Reading may fail, as deriving the key may; when   *)
(* the oh_lite store cannot tell the length it answers that it is 0.        *)

CipherV1DecryptAndVerify(s, i, f) ==
  CASE f.k = "whole" ->
         [st |-> [s EXCEPT !.ram[i] = f.v, !.len[i] = TRUE], ok |-> TRUE]
    [] f.k = "torn" ->
         [st |-> IF i = "dev" /\ s.kv = "oh_lite" THEN [s EXCEPT !.ram[i] = Zero[i]] ELSE s,
          ok |-> FALSE]

(* Faulty: the code of the file is not compared, so that a torn file is     *)
(* taken in with the part of the data it has.                               *)
ReadUnverified(s, i) ==
  LET f == s.files[s.tag][i]
      part == [dev |-> [Zero.dev EXCEPT !.id = "id"], conn |-> 1]
  IN {IF f.k = "whole" THEN CipherV1DecryptAndVerify(s, i, f)
      ELSE [st |-> [s EXCEPT !.len[i] = f = Torn, !.ram[i] = IF f = Torn THEN part[i] ELSE @],
            ok |-> TRUE]}

ReadFails(s, i) ==
  IF ~CanFail(s) THEN {}
  ELSE {[st |-> StoreFault(s), ok |-> FALSE]}
       \cup (IF s.kv = "oh_lite"
             THEN {[st |-> [StoreFault(s) EXCEPT !.len[i] = FALSE], ok |-> TRUE]} ELSE {})

StoreItemRead(s, i) ==
  LET f == s.files[s.tag][i] IN
  {IF f \in {NoFile, Empty}
   THEN [st |-> [s EXCEPT !.len[i] = FALSE, !.files[s.tag][i] = KvRead(s, f)], ok |-> TRUE]
   ELSE CipherV1DecryptAndVerify(s, i, f)}
  \cup ReadFails(s, i)

SecurityStorePull(s, i) ==
  IF ~s.mutex \/ i \notin s.list THEN {[st |-> s, ok |-> FALSE]} ELSE StoreItemRead(s, i)

(* A commit encrypts the item, writes the file and reads it back.  What     *)
(* cannot be encrypted, because the item is not registered, is empty or the *)
(* key hooks fail, leaves the file alone.                                   *)
SecurityGenHkdfLocalKey(s) == IF CanFail(s) THEN BOOLEAN ELSE {TRUE}

Refused(s, i) == [s EXCEPT !.dirty = @ \cup {i}, !.saves = @ + 1]

SecurityStoreCommit(s, i) ==
  (IF s.mutex /\ s.up /\ i \in s.list /\ s.len[i]
   THEN {[s EXCEPT !.op = <<i, "open">>, !.saves = @ + 1]}
   ELSE {Refused(s, i)})
  \cup {StoreFault(Refused(s, i)) : derived \in SecurityGenHkdfLocalKey(s) \ {TRUE}}

StoreItemWriteOpen(s) ==
  LET i == s.op[1] IN
  [s EXCEPT !.files[s.tag][i] = KvOpen(s, @), !.op = <<i, "write">>,
            !.spoilt = @ \cup {<<s.tag, i>>}, !.tried[s.tag][i] = @ \cup {s.ram[i]}]

CommitFails(s, i) == [s EXCEPT !.op = <<>>, !.dirty = @ \cup {i}]
CommitDone(s, i) ==
  [s EXCEPT !.op = <<>>, !.dirty = @ \ {i}, !.spoilt = @ \ {<<s.tag, i>>},
            !.com[s.tag][i] = s.ram[i], !.tried[s.tag][i] = {}]

StoreItemWriteFile(s) ==
  LET i == s.op[1] IN
  {IF w.ok THEN [w.st EXCEPT !.op = <<i, "check", w.new>>] ELSE CommitFails(w.st, i) :
     w \in KvSetValue(s, i)}

(* Faulty: what was written is not read back. *)
NoReadBack(s) == {CommitDone(s, s.op[1])}

(* What is read back passes its check and has the code of what was written. *)
(* A length of 0 passes too, as that of a new device: the commit is then    *)
(* reported as done and nothing was verified.                               *)
StoreItemReadBack(s) ==
  LET i == s.op[1] IN
  {IF r.ok /\ r.st.len[i] /\ s.op[3] THEN CommitDone(r.st, i) ELSE CommitFails(r.st, i) :
     r \in StoreItemRead(s, i)}

SecurityStoreDel(s, i) ==
  IF ~s.mutex \/ ~s.up \/ i \notin s.list THEN s
  ELSE LET r == KvDelValue(s, i) IN
       IF r.ok THEN [r.st EXCEPT !.len[i] = FALSE, !.com[s.tag][i] = Zero[i],
                                 !.dirty = @ \cup {i}, !.spoilt = @ \ {<<s.tag, i>>}]
       ELSE s

-----------------------------------------------------------------------------
(* Start and stop of the store and of the services that use it.             *)

IotcOhStoreDataInit(s) ==
  [s EXCEPT !.mutex = TRUE, !.list = {}, !.up = TRUE,
            !.tag = IF s.path = None THEN Default ELSE s.path]

IotcOhStoreDataDeinit(s) ==
  [s EXCEPT !.path = None, !.mutex = FALSE, !.list = {}, !.up = FALSE, !.tag = None]

IotcOhStorePathSet(s, p) == [s EXCEPT !.path = p]

(* ConfigInfoInit and ConnectConfigInfoInit: a failed read is only logged.  *)
ConfigInfoInit(s, i) ==
  LET z == [s EXCEPT !.ram[i] = Zero[i], !.dirty = @ \ {i}]
      got(t) == IF t.faults > s.faults THEN [t EXCEPT !.dirty = @ \cup {i}]
                ELSE IF s.files[s.tag][i].k # "whole" THEN t
                ELSE [t EXCEPT !.com[s.tag][i] = t.ram[i], !.tried[s.tag][i] = {}]
  IN IF ~s.mutex THEN {z}
     ELSE {got(r.st) : r \in SecurityStorePull([z EXCEPT !.list = @ \cup {i}], i)}

ConfigInfoDeinit(s, i) == IF s.mutex THEN [s EXCEPT !.list = @ \ {i}] ELSE s

-----------------------------------------------------------------------------
(* The device configuration.  Every change is made in memory first and then *)
(* saved; saving sets the item's length.                                    *)

ConfigInfoSave(s) == SecurityStoreCommit([s EXCEPT !.len.dev = TRUE], "dev")

IsDeviceBinded(s) == s.ram.dev.id # None

(* The binding by a phone; over a channel other than BLE it has no account. *)
DeviceServiceRecvAuthInfo(s, u) ==
  IF s.ram.dev.uid # None /\ s.ram.dev.uid # u THEN {s}
  ELSE ConfigInfoSave([s EXCEPT !.ram.dev.id = "id", !.ram.dev.uid = u])

(* The login data of the cloud. *)
DeviceServiceRecvLoginInfo(s) ==
  ConfigInfoSave([s EXCEPT !.ram.dev.id = "id", !.ram.dev.login = TRUE])

(* Forgets the device's identity and login data and keeps the account.      *)
ConfigClearLoginInfo(s) ==
  ConfigInfoSave([s EXCEPT !.ram.dev.id = None, !.ram.dev.login = FALSE,
                           !.orphan = @ \/ s.ram.dev.uid # None])

SetRevokeFlag(s) == ConfigInfoSave([s EXCEPT !.ram.dev.revoke = TRUE])
ClearRevokeFlag(s) == ConfigInfoSave([s EXCEPT !.ram.dev.revoke = FALSE])

GetBindStatus(s) ==
  IF ~IsDeviceBinded(s) THEN "notBind"
  ELSE IF s.ram.dev.revoke THEN "revoke" ELSE "bind"

(* Registration data lives in memory only. *)
DeviceServiceRecvBindingInfo(s) == [s EXCEPT !.reg = TRUE]

(* The restore event drops the registration data and, on a device that has  *)
(* BLE only, the binding.                                                   *)
RevokeEventConfigCallback(s, bleOnly) ==
  LET t == [s EXCEPT !.reg = FALSE] IN
  IF bleOnly
  THEN ConfigInfoSave([t EXCEPT !.ram.dev.id = None, !.ram.dev.uid = None])
  ELSE {t}

ConfigSetNetInfoFlag(s, f) ==
  SecurityStoreCommit([s EXCEPT !.ram.conn = f, !.len.conn = TRUE], "conn")

-----------------------------------------------------------------------------
(* Actions. *)

May == Idle(ds) /\ ds.saves < MaxSaves
Step(S) == \E t \in S: ds' = t

(* The framework's init unit and the services are started once per run.     *)
StoreStart == Idle(ds) /\ ~ds.up /\ ds' = IotcOhStoreDataInit(ds)
StoreStop == Idle(ds) /\ ds' = IotcOhStoreDataDeinit(ds)
(* An application sets the path before it starts the SDK. *)
SetPath == Idle(ds) /\ ~ds.up /\ \E p \in Paths: ds' = IotcOhStorePathSet(ds, p)
ServiceStart == Idle(ds) /\ \E i \in Items \ ds.list: Step(ConfigInfoInit(ds, i))
ServiceStop == Idle(ds) /\ \E i \in ds.list: ds' = ConfigInfoDeinit(ds, i)

(* A message reaches the device service or the connect service once it runs. *)
Runs(i) == i \in ds.list

RecvAuthInfo == May /\ Runs("dev") /\ \E u \in Users \cup {None}: Step(DeviceServiceRecvAuthInfo(ds, u))
RecvLoginInfo == May /\ Runs("dev") /\ Step(DeviceServiceRecvLoginInfo(ds))
RecvBindingInfo == Idle(ds) /\ Runs("dev") /\ ds' = DeviceServiceRecvBindingInfo(ds)
CleanLoginInfo == May /\ Runs("dev") /\ Step(ConfigClearLoginInfo(ds))
RevokeFlag == May /\ Step(SetRevokeFlag(ds) \cup ClearRevokeFlag(ds))
RestoreEvent == May /\ \E b \in BOOLEAN: Step(RevokeEventConfigCallback(ds, b))
NetInfoFlag == May /\ Runs("conn") /\ \E f \in 0 .. 2: Step(ConfigSetNetInfoFlag(ds, f))
Delete == May /\ \E i \in Items: ds' = SecurityStoreDel(ds, i)

WriteOpen == ~Idle(ds) /\ ds.op[2] = "open" /\ ds' = StoreItemWriteOpen(ds)
WriteClose == ~Idle(ds) /\ ds.op[2] = "write" /\ Step(StoreItemWriteFile(ds))
ReadBack == ~Idle(ds) /\ ds.op[2] = "check" /\ Step(StoreItemReadBack(ds))

(* Power fails: memory is lost, and a write under way may leave part of it. *)
PowerCut ==
  /\ CanFail(ds)
  /\ \E part \in BOOLEAN:
       /\ part => ~Idle(ds) /\ ds.op[2] = "write"
       /\ ds' = [StoreFault(ds) EXCEPT
                   !.up = FALSE, !.mutex = FALSE, !.path = None, !.tag = None,
                   !.list = {}, !.ram = Zero, !.reg = FALSE, !.op = <<>>,
                   !.len = [i \in Items |-> TRUE], !.dirty = {},
                   !.files = IF part THEN [@ EXCEPT ![ds.tag][ds.op[1]] = Torn] ELSE @]

DsNext ==
  \/ StoreStart \/ StoreStop \/ SetPath \/ ServiceStart \/ ServiceStop
  \/ RecvAuthInfo \/ RecvLoginInfo \/ RecvBindingInfo \/ CleanLoginInfo
  \/ RevokeFlag \/ RestoreEvent \/ NetInfoFlag \/ Delete
  \/ WriteOpen \/ WriteClose \/ ReadBack \/ PowerCut

DsSpec == DsInit /\ [][DsNext]_ds

-----------------------------------------------------------------------------
(* What a fresh start would read of item i under path p. *)
Stored(s, p, i) == IF s.files[p][i].k = "whole" THEN s.files[p][i].v ELSE Zero[i]

(* What the device keeps is what was last saved well.  (1) A file on which  *)
(* no save was cut short, failed or went unverified since its last good     *)
(* commit holds that commit's value.  (2) Whatever happened to it, a file   *)
(* that passes its check holds the last value saved or read well, or one    *)
(* whose saving failed since: never an earlier value and never a mixture.   *)
(* (3) While a service runs, was read well at its start and its last save   *)
(* was verified, memory and file agree, so a power cut between two saves    *)
(* changes no answer of GetBindStatus.  (4) An unbound device has no        *)
(* account left that makes it refuse a new owner, unless the cloud's login  *)
(* data was cleared alone.                                                  *)
(* Wrong if a commit that was not read back were reported as done, if a     *)
(* damaged file passed for a good one, or if a clearing handler forgot its  *)
(* save or one of the fields.                                               *)
StoreSound ==
  /\ \A p \in Paths, i \in Items:
       /\ <<p, i>> \notin ds.spoilt => Stored(ds, p, i) = ds.com[p][i]
       /\ ds.files[p][i].k = "whole" => ds.files[p][i].v \in {ds.com[p][i]} \cup ds.tried[p][i]
  /\ \A i \in ds.list:
       Idle(ds) /\ i \notin ds.dirty =>
         ds.tag # None /\ ds.ram[i] = Stored(ds, ds.tag, i)
  /\ GetBindStatus(ds) = "notBind" /\ ~ds.orphan => ds.ram.dev.uid = None

=============================================================================
