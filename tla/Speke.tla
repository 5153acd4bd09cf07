------------------------------- MODULE Speke -------------------------------
(***************************************************************************)
(* The password-authenticated key exchange of the near-field and LAN       *)
(* services (core/infrastructure/security/speke) and the session keys that *)
(* follow it (security_sess_key.c): a client asks, the server answers with *)
(* its salt, challenge and public key, the client confirms with its own,   *)
(* the server confirms back, and both keep a data key.                     *)
(*                                                                         *)
(* Cryptography is symbolic.  A context's secret and its challenge are     *)
(* named by the context; a public key is the pin, the salt and the secret  *)
(* it was made from, a shared key the pin and salt of the other side's key *)
(* with both secrets, a code the key and the two challenges.               *)
(***************************************************************************)
EXTENDS Integers, Sequences, FiniteSets, SequencesExt

CONSTANTS
  Builds,      \* "ble": the context is freed after a confirmation; "keep": not
  Pins,        \* pin codes the two sides may hold
  MaxStarts,   \* bound: negotiations the client starts
  MaxFaults,   \* bound: messages lost, repeated, swapped or garbled
  MaxDrops,    \* bound: disconnections
  MaxData,     \* bound: data messages
  MaxSns       \* bound: serial numbers of the session key

None == [id |-> 0]    \* no context, no key
Zero == <<>>          \* dataEncKey of a new session: all bytes zero

VARIABLE sp

NewSess == [ctx |-> None, key |-> Zero, told |-> "none"]

SpInit ==
  \E b \in Builds, pc \in Pins, ps \in Pins:
    sp = [build |-> b, pinC |-> pc, pinS |-> ps,
          up |-> FALSE,                 \* the server's session exists
          c |-> NewSess, s |-> NewSess,
          c2s |-> <<>>, s2c |-> <<>>,   \* messages on their way
          n |-> 0,                      \* contexts made so far
          sk |-> [sn1 |-> 0, sn2 |-> 0, trans |-> None, auth |-> None],
          got |-> None,                 \* what the last key request returned
          \* history
          cMade |-> {}, sMade |-> {},   \* data keys either side derived
          sns |-> 0, starts |-> 0, faults |-> 0, drops |-> 0,
          sent |-> 0, lost |-> FALSE,   \* data sent, and some of it refused
          epoch |-> 0]                  \* starts since the server's session began

-----------------------------------------------------------------------------
(* A negotiation context. *)

(* The secret of a new context is one no other context has. *)
GenerateSpekeNegoRandom(n) == n + 1

NegoContextInit(id, pin, salt) ==
  [id |-> id, pin |-> pin, salt |-> salt, pub |-> TRUE, remote |-> 0, hk |-> Zero]

InitNegoCtxPubKey(x) == [pin |-> x.pin, salt |-> x.salt, x |-> x.id]

NegoContextSetRemoteChallenge(x, ch) == [x EXCEPT !.remote = ch]

(* remotePubKey ^ random: the generator is the one of the other side's key. *)
CalSharedKey(x, pk) == <<pk.pin, pk.salt, {x.id, pk.x}>>

(* Faulty: the key depends on the secrets and not on the pins. *)
GenSessionKeyNoPin(x, pk) == [x EXCEPT !.hk = <<x.salt, {x.id, pk.x}>>]

NegoContextGenSessionKey(x, pk) == [x EXCEPT !.hk = <<x.salt, CalSharedKey(x, pk)>>]

NegoContextGenHmac(x) == <<x.hk, x.id, x.remote>>

(* Faulty: the two challenges keep their order. *)
VerifyHmacSameOrder(x, h) == h = <<x.hk, x.id, x.remote>>

NegoContextVerifyHmac(x, h) == h = <<x.hk, x.remote, x.id>>

NegoContextGenDataEncKey(x) == x.hk

-----------------------------------------------------------------------------
(* The four messages.  A handler returns the session and its answer; an     *)
(* answer of "err" is the error the caller turns into an error code.        *)

Err == [type |-> "err"]
Done(sess, msg) == [sess |-> sess, msg |-> msg]

ReqMsg == [type |-> "req"]
RspMsg(x) == [type |-> "rsp", ch |-> x.id, salt |-> x.salt, pk |-> InitNegoCtxPubKey(x)]
CfmMsg(x) ==
  [type |-> "cfm", ch |-> x.id, pk |-> InitNegoCtxPubKey(x), kcf |-> NegoContextGenHmac(x)]
ServerCfmMsg(x) == [type |-> "scfm", kcf |-> NegoContextGenHmac(x)]

(* The server's context is made with its session, so that a repeated        *)
(* request is answered alike; its public key is freed once it was sent and  *)
(* made again, the same, for the next request.                              *)
SpekeServerProcessReq(sess) ==
  IF sess.ctx = None THEN Done(sess, Err)
  ELSE Done([sess EXCEPT !.ctx.pub = FALSE], RspMsg(sess.ctx))

InitNegoCtxFromPayload(m, id, pin) ==
  NegoContextGenSessionKey(
    NegoContextSetRemoteChallenge(NegoContextInit(id, pin, m.salt), m.ch), m.pk)

(* Every answer makes a new context, which replaces the one before.         *)
SpekeClientProcessRsp(sess, m, id, pin) ==
  LET x == InitNegoCtxFromPayload(m, id, pin) IN Done([sess EXCEPT !.ctx = x], CfmMsg(x))

(* The context takes the client's challenge and key before the code is      *)
(* checked; the data key changes only after.                                *)
SpekeServerProcessCfm(sess, m) ==
  IF sess.ctx = None THEN Done(sess, Err)
  ELSE LET x == NegoContextGenSessionKey(NegoContextSetRemoteChallenge(sess.ctx, m.ch), m.pk)
       IN IF NegoContextVerifyHmac(x, m.kcf)
          THEN Done([sess EXCEPT !.ctx = x, !.key = NegoContextGenDataEncKey(x)],
                    ServerCfmMsg(x))
          ELSE Done([sess EXCEPT !.ctx = x], Err)

SpekeClientProcessCfm(sess, m) ==
  IF sess.ctx = None \/ ~NegoContextVerifyHmac(sess.ctx, m.kcf) THEN Done(sess, Err)
  ELSE Done([sess EXCEPT !.key = NegoContextGenDataEncKey(sess.ctx)], [type |-> "none"])

(* After either confirmation the caller is told; the BLE service then frees *)
(* the context, whatever the result was.                                    *)
NotifySpekeFinished(d, build) ==
  [d EXCEPT !.sess.told = IF d.msg = Err THEN "failed" ELSE "ok",
            !.sess.ctx = IF build = "ble" THEN None ELSE @]

(* Data is sealed with the data key; what was sealed with another is refused. *)
SpekeEncryptData(sess) == [type |-> "data", key |-> sess.key]
SpekeDecryptData(sess, m) == m.key = sess.key

(* A message that does not parse, or whose type is not one of the four, is  *)
(* answered with an error and changes nothing.                              *)
ServerDispatch(sess, m, build) ==
  CASE m.type = "req" -> SpekeServerProcessReq(sess)
    [] m.type = "cfm" -> NotifySpekeFinished(SpekeServerProcessCfm(sess, m), build)
    [] OTHER -> Done(sess, Err)

(* The client is the SLE client, which keeps its context. *)
ClientDispatch(sess, m, id, pin) ==
  CASE m.type = "rsp" -> SpekeClientProcessRsp(sess, m, id, pin)
    [] m.type = "scfm" -> NotifySpekeFinished(SpekeClientProcessCfm(sess, m), "keep")
    [] OTHER -> Done(sess, [type |-> "none"])

-----------------------------------------------------------------------------
(* Actions of the exchange. *)

ClientStartReq ==
  /\ sp.starts < MaxStarts
  /\ sp' = [sp EXCEPT !.c2s = Append(@, ReqMsg), !.starts = @ + 1, !.epoch = @ + 1]

(* CreateBleSpekeSess and its like: the first message makes the session and *)
(* its context, a later one finds them, the context freed or not.           *)
CreateServerSess(s) ==
  IF s.up THEN s
  ELSE LET id == GenerateSpekeNegoRandom(s.n) IN
       [s EXCEPT !.up = TRUE, !.n = id,
                 !.s = [NewSess EXCEPT !.ctx = NegoContextInit(id, s.pinS, id)]]

ServerReceives ==
  /\ sp.c2s # <<>> /\ Head(sp.c2s).type # "data"
  /\ LET t == CreateServerSess([sp EXCEPT !.c2s = Tail(@)])
         d == ServerDispatch(t.s, Head(sp.c2s), sp.build)
     IN sp' = [t EXCEPT !.s = d.sess, !.s2c = Append(@, d.msg),
                        !.sMade = IF d.sess.key = Zero THEN @ ELSE @ \cup {d.sess.key}]

ClientReceives ==
  /\ sp.s2c # <<>> /\ Head(sp.s2c).type # "data"
  /\ LET m == Head(sp.s2c)
         d == ClientDispatch(sp.c, m, GenerateSpekeNegoRandom(sp.n), sp.pinC)
     IN sp' = [sp EXCEPT !.s2c = Tail(@), !.c = d.sess,
                         !.n = IF m.type = "rsp" THEN GenerateSpekeNegoRandom(@) ELSE @,
                         !.c2s = IF d.msg.type = "cfm" THEN Append(@, d.msg) ELSE @,
                         !.cMade = IF d.sess.ctx = None THEN @ ELSE @ \cup {d.sess.ctx.hk}]

(* Once told of success a side sends data. *)
SendData ==
  /\ sp.sent < MaxData
  /\ \/ sp.c.told = "ok"
        /\ sp' = [sp EXCEPT !.c2s = Append(@, SpekeEncryptData(sp.c)), !.sent = @ + 1]
     \/ sp.up /\ sp.s.told = "ok"
        /\ sp' = [sp EXCEPT !.s2c = Append(@, SpekeEncryptData(sp.s)), !.sent = @ + 1]

ReceiveData ==
  \/ /\ sp.c2s # <<>> /\ Head(sp.c2s).type = "data"
     /\ sp' = [sp EXCEPT !.c2s = Tail(@), !.lost = @ \/ ~SpekeDecryptData(sp.s, Head(sp.c2s))]
  \/ /\ sp.s2c # <<>> /\ Head(sp.s2c).type = "data"
     /\ sp' = [sp EXCEPT !.s2c = Tail(@), !.lost = @ \/ ~SpekeDecryptData(sp.c, Head(sp.s2c))]

(* The link loses, repeats or swaps a message, or one arrives that does not *)
(* parse.                                                                   *)
Faulted(q) ==
  {Tail(q), <<Head(q)>> \o q, <<[type |-> "bad"]>> \o q}
  \cup (IF Len(q) > 1 THEN {<<q[2], q[1]>> \o SubSeq(q, 3, Len(q))} ELSE {})

LinkFault ==
  /\ sp.faults < MaxFaults
  /\ \/ sp.c2s # <<>> /\ \E q \in Faulted(sp.c2s): sp' = [sp EXCEPT !.c2s = q, !.faults = @ + 1]
     \/ sp.s2c # <<>> /\ \E q \in Faulted(sp.s2c): sp' = [sp EXCEPT !.s2c = q, !.faults = @ + 1]

(* The link goes down: the server's session is freed, the client makes a    *)
(* new one for the next connection.                                         *)
SpekeFreeSession ==
  /\ sp.drops < MaxDrops
  /\ sp' = [sp EXCEPT !.up = FALSE, !.c = NewSess, !.s = NewSess, !.c2s = <<>>, !.s2c = <<>>,
                      !.drops = @ + 1, !.epoch = 0, !.faults = 0, !.sent = 0, !.lost = FALSE]

-----------------------------------------------------------------------------
(* Session keys: derived from the shared password and two serial numbers,   *)
(* kept until a number changes.                                             *)

SessKeyParamUpdate(k) == [k EXCEPT !.trans = None, !.auth = None]

(* Faulty: a new number leaves the keys made from the old one. *)
AddSnKeepsKeys(k, type, sn) == IF type = 1 THEN [k EXCEPT !.sn1 = sn] ELSE [k EXCEPT !.sn2 = sn]

SecuritySessKeyAddSn(k, type, sn) ==
  SessKeyParamUpdate(IF type = 1 THEN [k EXCEPT !.sn1 = sn] ELSE [k EXCEPT !.sn2 = sn])

Ready(k) == k.sn1 # 0 /\ k.sn2 # 0

SecuritySessKeyGenTransKey(k) ==
  IF k.trans # None \/ ~Ready(k) THEN k
  ELSE [SessKeyParamUpdate(k) EXCEPT !.trans = [key |-> "trans", sn |-> <<k.sn1, k.sn2>>]]

SecuritySessKeyGenAuthKey(k) ==
  IF k.auth # None \/ ~Ready(k) \/ k.trans = None THEN k
  ELSE [k EXCEPT !.auth = [key |-> "auth", sn |-> <<k.sn1, k.sn2>>, from |-> k.trans]]

AddSn ==
  /\ sp.sns < MaxSns
  /\ \E type \in {1, 2}:
       sp' = [sp EXCEPT !.sk = SecuritySessKeyAddSn(@, type, sp.sns + 1), !.sns = @ + 1,
                        !.got = None]

GenKey ==
  \/ LET k == SecuritySessKeyGenTransKey(sp.sk) IN sp' = [sp EXCEPT !.sk = k, !.got = k.trans]
  \/ LET k == SecuritySessKeyGenAuthKey(sp.sk) IN sp' = [sp EXCEPT !.sk = k, !.got = k.auth]

(* The two halves share no state, so a behaviour exercises one of them.     *)
SpNext ==
  \/ sp.sns = 0 /\ (ClientStartReq \/ ServerReceives \/ ClientReceives
                    \/ SendData \/ ReceiveData
                    \/ LinkFault \/ SpekeFreeSession)
  \/ sp.starts = 0 /\ sp.drops = 0 /\ (AddSn \/ GenKey)

SpSpec == SpInit /\ [][SpNext]_sp

-----------------------------------------------------------------------------
Quiet == sp.c2s = <<>> /\ sp.s2c = <<>>

(* Both sides end with the same key or know that they did not.  (1) A data  *)
(* key one side holds was derived by the other too, from equal pins.        *)
(* (2) With messages delivered in order and once, a client that was told    *)
(* the negotiation succeeded holds the server's present key.  (3) With      *)
(* equal pins such a link always ends in success, whatever number of        *)
(* requests overlap, except for the BLE server, which only serves the first *)
(* of overlapping negotiations.  (4) With different pins no side holds a    *)
(* key.  (5) Data sent over such a link after a single negotiation is never *)
(* refused.  (6) A session key handed out belongs to the present serial     *)
(* numbers.  Wrong if a context were mixed from two negotiations, a code    *)
(* were checked against the wrong challenge, or a new serial number left an *)
(* old key in the cache.                                                    *)
SpekeSound ==
  /\ sp.c.key # Zero => sp.c.key \in sp.sMade
  /\ sp.s.key # Zero => sp.s.key \in sp.cMade
  /\ Quiet /\ sp.faults = 0 /\ sp.epoch > 0 =>
       /\ sp.c.told = "ok" => sp.c.key = sp.s.key
       /\ sp.pinC = sp.pinS /\ (sp.build = "keep" \/ sp.epoch = 1) => sp.c.told = "ok"
  /\ sp.pinC # sp.pinS => sp.c.key = Zero /\ sp.s.key = Zero
  /\ sp.faults = 0 /\ sp.epoch = 1 => ~sp.lost
  /\ sp.got # None => sp.got.sn = <<sp.sk.sn1, sp.sk.sn2>>

=============================================================================
