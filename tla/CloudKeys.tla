------------------------------- MODULE CloudKeys -------------------------------
(***************************************************************************)
(* The session key of the cloud link (cloud/biz/m2m_cloud_psk.c), the      *)
(* handlers of m2m_cloud_fsm.c that negotiate it and the two places of     *)
(* coap_codec_tcp_v1.c that use it, with the local sessions of             *)
(* local_ctl_coap_api.c, which write the same salt.                        *)
(*                                                                         *)
(* The device sends a fresh number sn1, the cloud answers with its own sn2 *)
(* and the mode; both derive the key from the device's secret (the one for *)
(* registering, or the one for logging in) and the salt (sn1, sn2).  A     *)
(* derived value is the tuple of what it is derived from, so two of them   *)
(* are equal exactly when their inputs are.  The cloud is external: it     *)
(* does its half of the same derivation.  `overwritten` records that a     *)
(* local session was opened since the salt was agreed on.                  *)
(***************************************************************************)
EXTENDS Integers

CONSTANTS MaxLinks,  \* negotiations that are begun
          MaxLocal   \* local sessions that are opened

VARIABLE ck

Secrets == {"regInfo.psk", "loginInfo.psk"}
NoKey == [pw |-> "none", salt |-> <<0, 0>>]
Kdf(pw, salt) == [pw |-> pw, salt |-> salt]

CkInit ==
  \E reg \in BOOLEAN :
    ck = [register |-> reg, fsm |-> "CONNECT", sns |-> 0, links |-> 0, locals |-> 0,
          sn1 |-> 0, salt |-> <<0, 0>>, key |-> NoKey, pskFinish |-> FALSE, encrypt |-> FALSE,
          answers |-> {}, overwritten |-> FALSE, last |-> "none",
          cloud |-> [secret |-> IF reg THEN "regInfo.psk" ELSE "loginInfo.psk",
                     salt |-> <<0, 0>>, key |-> NoKey, plaintext |-> FALSE]]

Quiet(s) == [s EXCEPT !.last = "none"]
WithCloud == {"REGISTER", "LOGIN", "ONLINE"}

-----------------------------------------------------------------------------
(* Negotiation.                                                            *)

(* CloudFsmPskHandler: what was agreed on before counts no more, the       *)
(* request is sent in the clear; one that cannot be sent ends the link.    *)
M2mCloudBuildPskRequest(s) == [s EXCEPT !.sns = @ + 1, !.sn1 = s.sns + 1]

CloudFsmPskHandler ==
  /\ ck.fsm = "CONNECT" /\ ck.links < MaxLinks
  /\ LET s == M2mCloudBuildPskRequest([Quiet(ck) EXCEPT !.links = @ + 1, !.pskFinish = FALSE])
     IN  ck' \in {s, [s EXCEPT !.fsm = "PSK_WAIT_RESP"]}

(* External: the cloud takes the request, or refuses it.                   *)
CloudAnswers ==
  /\ ck.fsm = "PSK_WAIT_RESP" /\ \A a \in ck.answers : a.sn1 # ck.sn1
  /\ \E plain \in BOOLEAN, ok \in BOOLEAN :
       LET sn2  == ck.sns + 1
           salt == <<ck.sn1, sn2>>
       IN  ck' = [Quiet(ck) EXCEPT
                    !.sns = sn2,
                    !.answers = @ \cup {[sn1 |-> ck.sn1, sn2 |-> sn2, plaintext |-> plain, ok |-> ok]},
                    !.cloud = IF ok THEN [@ EXCEPT !.salt = salt, !.plaintext = plain,
                                                   !.key = Kdf(ck.cloud.secret, salt)]
                              ELSE @]

(* Faulty: the secret for logging in is used while registering too. *)
KeyGenLoginPsk(s, sn1, sn2) ==
  [s EXCEPT !.salt = <<sn1, sn2>>, !.overwritten = FALSE, !.pskFinish = TRUE,
            !.key = Kdf("loginInfo.psk", <<sn1, sn2>>)]

StationSessKeyGen(s, sn1, sn2) ==
  [s EXCEPT !.salt = <<sn1, sn2>>, !.overwritten = FALSE, !.pskFinish = TRUE,
            !.key = Kdf(IF s.register THEN "regInfo.psk" ELSE "loginInfo.psk", <<sn1, sn2>>)]

M2mCloudParsePskResponse(s, a) ==
  StationSessKeyGen([s EXCEPT !.encrypt = a.plaintext], s.sn1, a.sn2)

(* The endpoint hands over an answer to the request that waits, by its     *)
(* token, or the timeout; the answer of an earlier request finds none.     *)
M2mCloudPskRegRespHandler ==
  \/ /\ ck.fsm = "PSK_WAIT_RESP"
     /\ ck' = [Quiet(ck) EXCEPT !.fsm = "CONNECT"]
  \/ \E a \in ck.answers :
       /\ ck' = IF ck.fsm # "PSK_WAIT_RESP" \/ a.sn1 # ck.sn1
                THEN [Quiet(ck) EXCEPT !.answers = @ \ {a}]
                ELSE IF ~a.ok
                THEN [Quiet(ck) EXCEPT !.answers = @ \ {a}, !.fsm = "CONNECT"]
                ELSE [M2mCloudParsePskResponse(Quiet(ck), a) EXCEPT
                        !.answers = @ \ {a}, !.pskFinish = TRUE,
                        !.fsm = IF ck.register THEN "REGISTER" ELSE "LOGIN"]

-----------------------------------------------------------------------------
(* Messages.  The authentication key is derived from key and salt at every *)
(* message; what each end puts on the wire is [enc, key, mac].             *)

StationSessCalHmac(key, salt) == <<key, salt>>
InClear == [enc |-> FALSE, key |-> NoKey, mac |-> <<>>]
Protected(key, salt) == [enc |-> TRUE, key |-> key, mac |-> StationSessCalHmac(key, salt)]

CoapTcpEncrypt(s) ==
  IF s.pskFinish /\ ~s.encrypt THEN Protected(s.key, s.salt) ELSE InClear

CloudSide(c) == IF c.plaintext THEN InClear ELSE Protected(c.key, c.salt)

(* The device sends; the cloud reads it with its own copy.                 *)
M2mCloudSendRequest ==
  /\ ck.fsm \in WithCloud
  /\ ck' = [ck EXCEPT !.last = IF CoapTcpEncrypt(ck) = CloudSide(ck.cloud) THEN "read" ELSE "refused"]

(* CoapTcpV1Decode does not look at the result of CoapTcpDecrypt: a        *)
(* message that fails the comparison is handed over as it arrived.  What   *)
(* the cloud says on a new link before the negotiation comes in the clear, *)
(* while pskFinish is still that of the link before.                       *)
CoapTcpDecrypt ==
  \/ /\ ck.fsm \in WithCloud
     /\ ck' = [ck EXCEPT !.last = IF CoapTcpEncrypt(ck) = CloudSide(ck.cloud) THEN "read" ELSE "unread"]
  \/ /\ ck.fsm = "CONNECT" /\ ck.links > 0
     /\ ck' = [ck EXCEPT !.last = IF CoapTcpEncrypt(ck) = InClear THEN "read" ELSE "csm unread"]

-----------------------------------------------------------------------------
(* The life of the link.                                                   *)

(* The secret for logging in comes with the answer to the registration and *)
(* is used from the next negotiation on.                                   *)
M2mCloudRegisterRegRespHandler ==
  /\ ck.fsm = "REGISTER"
  /\ ck' = [Quiet(ck) EXCEPT !.register = FALSE, !.fsm = "LOGIN", !.cloud.secret = "loginInfo.psk"]

CloudLoginRespHandler ==
  /\ ck.fsm = "LOGIN"
  /\ ck' = [Quiet(ck) EXCEPT !.fsm = "ONLINE"]

LinkError ==
  /\ ck.fsm \in WithCloud \cup {"PSK_WAIT_RESP"}
  /\ ck' = [Quiet(ck) EXCEPT !.fsm = "CONNECT"]

(* A phone opens a session over the local network, whatever the link does. *)
localCtlSessKeyGen ==
  /\ ck.locals < MaxLocal
  /\ ck' = [Quiet(ck) EXCEPT !.locals = @ + 1, !.sns = @ + 2, !.salt = <<ck.sns + 1, ck.sns + 2>>,
                             !.overwritten = TRUE]

CkNext ==
  \/ CloudFsmPskHandler \/ CloudAnswers \/ M2mCloudPskRegRespHandler
  \/ M2mCloudSendRequest \/ CoapTcpDecrypt
  \/ M2mCloudRegisterRegRespHandler \/ CloudLoginRespHandler \/ LinkError \/ localCtlSessKeyGen

CkSpec == CkInit /\ [][CkNext]_ck

-----------------------------------------------------------------------------
(* Once a negotiation is over, whatever retries, late answers and changes  *)
(* of secret went before, each end reads what the other sends: they hold   *)
(* the same key, mode and salt.  The exception is a salt that a local      *)
(* session overwrote since: then every protected message is refused by the *)
(* cloud, or handed over unread, until the link is negotiated again.  A    *)
(* message handed over unread otherwise is one that came in the clear on a *)
(* link that is not negotiated yet.                                        *)
KeysSound ==
  /\ ck.register \in BOOLEAN /\ ck.key.pw \in Secrets \cup {"none"}
  /\ ck.fsm \in WithCloud /\ ~ck.overwritten =>
       CoapTcpEncrypt(ck) = CloudSide(ck.cloud)
  /\ ck.last \in {"refused", "unread"} => ck.overwritten /\ ~ck.cloud.plaintext
  /\ ck.last = "csm unread" => ck.fsm = "CONNECT" /\ ck.pskFinish

==============================================================================
