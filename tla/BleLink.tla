------------------------------ MODULE BleLink ------------------------------
(***************************************************************************)
(* Commands of a phone over the BLE data characteristic: reassembly of the *)
(* fragments of a command (linklayer_recv.c), decryption and dispatch to a *)
(* service (linklayer_process.c, linklayer_encrypt*.c, linklayer_service.c)*)
(* the session with its window of received sequence numbers                *)
(* (ble_session_mngr.c), the services (application/profile) and the        *)
(* reports to the phone (application/report).  All of it runs on the       *)
(* scheduler's loop.                                                       *)
(*                                                                         *)
(* A fragment of any command sent on the present connection may arrive at  *)
(* any time: fragments are lost, repeated and reordered.                   *)
(***************************************************************************)
EXTENDS Integers, Sequences, FiniteSets

CONSTANTS
  MaxCmd,       \* bound: commands the phone sends
  MaxConn,      \* bound: connections
  MaxFrags,     \* fragments of a command, at most PKG_MAX_NUM_LIMIT
  PkgTimeout,   \* PKG_TIMEOUT, in ticks
  SeqSpan,      \* 2^32, the span of the sequence numbers
  Interval,     \* SEQ_MAX_INTERVAL
  FirstSeqs,    \* sequence numbers a phone may start with
  MaxSends,     \* bound: messages with a sequence number
  MaxReports    \* bound: reports of the device

Plain == 0
Speke == 1
SessKey == 2

(* The services and the encryption each supports (g_svcInfoTab).            *)
SuppEncType(kind) ==
  CASE kind \in {"create", "badcreate", "speke"} -> {Plain}
    [] kind = "netcfg" -> {Speke}
    [] kind \in {"put", "get"} -> {Speke, SessKey}

Kinds == {"create", "badcreate", "speke", "netcfg", "put", "get"}

NoPkg == [tok |-> 0]

VARIABLE bl

BlInit ==
  bl = [conn |-> FALSE, conns |-> 0,
        cmds |-> <<>>,                        \* commands the phone has sent
        pkg |-> NoPkg,                        \* g_pkgList, one entry at most
        enc |-> Plain,                        \* g_encryptType
        sess |-> 0, ids |-> 0,                \* session, 0 for none; sessions made
        max |-> 0, bits |-> {},               \* maxRecvSeq, recvBitMap
        sendSeq |-> 1,                        \* nextSendSeq
        spk |-> 0,                            \* steps of SPEKE done, 2 when agreed
        later |-> 0,                          \* PutCharReportExecutorCallback queued
        \* the phone
        psess |-> 0, pseq |-> 0,
        \* history
        ran |-> {},                           \* puts run since the window was initialised
        outs |-> {},                          \* numbers sent since the session was reset,
                                              \* each with the kind of its message
        twice |-> FALSE, mixed |-> FALSE, reused |-> FALSE, stale |-> FALSE,
        reports |-> 0]

-----------------------------------------------------------------------------
(* The window of received sequence numbers.  The code computes in 32 bits;  *)
(* the distances below are those of its case distinction.                   *)

BleSessRecvSeqInit(s, q) == [s EXCEPT !.max = q, !.bits = {0}, !.ran = {}]

Ahead(s, q) == (q - s.max) % SeqSpan
Behind(s, q) == (s.max - q) % SeqSpan

(* Faulty: a number behind the window's maximum is taken unseen. *)
SeqCheckNoBitmap(s, q) ==
  \/ s.bits = {}
  \/ q # s.max /\ (Ahead(s, q) <= Interval \/ Behind(s, q) <= Interval)

BleSessRecvSeqCheck(s, q) ==
  \/ s.bits = {}
  \/ /\ q # s.max
     /\ \/ Ahead(s, q) <= Interval
        \/ Behind(s, q) <= Interval /\ Behind(s, q) \notin s.bits

BleSessRecvSeqUpdate(s, q) ==
  IF s.bits = {} THEN BleSessRecvSeqInit(s, q)
  ELSE IF q = s.max THEN s
  ELSE IF Ahead(s, q) <= Interval
  THEN [s EXCEPT !.max = q, !.bits = {0} \cup {b \in {c + Ahead(s, q) : c \in @} : b <= Interval + 1}]
  ELSE [s EXCEPT !.bits = @ \cup {Behind(s, q)}]

-----------------------------------------------------------------------------
(* Sending to the phone. *)

(* A message with the next sequence number reaches the phone: an answer, a  *)
(* report or the copy of a report.                                          *)
WithSeq(s, how) ==
  [s EXCEPT !.reused = @ \/ \E o \in s.outs : o[1] = s.sendSeq /\ <<o[2], how>> # <<"report", "copy">>,
            !.outs = @ \cup {<<s.sendSeq, how>>}]

BleSessSendSeqUpdate(s) == [s EXCEPT !.sendSeq = @ + 1]

LinkLayerGetEncryptType(s) == IF s.sess # 0 THEN SessKey ELSE s.enc

(* Encryption needs the keys it names.                                      *)
LinkLayerEncryptDataInto(s, e) == e = Plain \/ (e = Speke /\ s.spk = 2) \/ (e = SessKey /\ s.sess # 0)

CreateAndSendRptCmdData(s, kind) ==
  /\ s.conn
  /\ LinkLayerGetEncryptType(s) \in SuppEncType(kind)
  /\ LinkLayerEncryptDataInto(s, LinkLayerGetEncryptType(s))

(* The number is used up when the text is built, sent or not.               *)
BuildBleCustomSecDataService(s, how) == BleSessSendSeqUpdate(WithSeq(s, how))

(* The text that answers a get is reported and, if that succeeds, sent      *)
(* again as the answer, under one number.  (With IOTC_CONF_AILIFE_SUPPORT,  *)
(* which is off by default, it is sent once.)                               *)
BleCustomSecDataGetChar(s) ==
  IF CreateAndSendRptCmdData(s, "get") THEN BuildBleCustomSecDataService(WithSeq(s, "report"), "copy")
  ELSE BleSessSendSeqUpdate(s)

-----------------------------------------------------------------------------
(* The services. *)

(* The window is initialised before the hash of the user is compared.       *)
ProcessCreateSessionCmd(s, c) ==
  LET w == BleSessRecvSeqInit(s, c.seq)
      k == [w EXCEPT !.sess = w.ids + 1, !.ids = @ + 1]
  IN IF c.kind = "badcreate" THEN w ELSE BleSessSendSeqUpdate(WithSeq(k, "answer"))

(* Faulty: the number is recorded only when the command has succeeded. *)
UpdateAfterRun(s, c, ok) ==
  IF ~BleSessRecvSeqCheck(s, c.seq) THEN s
  ELSE LET r == [s EXCEPT !.twice = @ \/ c \in s.ran, !.ran = @ \cup {c}]
       IN IF ~ok THEN r
          ELSE LET w == BleSessRecvSeqUpdate(r, c.seq)
               IN IF c.kind = "put" THEN [w EXCEPT !.later = @ + 1]
                  ELSE BleCustomSecDataGetChar(w)

(* The number is checked and recorded, then the command goes to the device. *)
(* A put is followed by a report from the executor; a get is answered.      *)
PutCustomSecData(s, c, ok) ==
  IF ~BleSessRecvSeqCheck(s, c.seq) THEN s
  ELSE LET w == BleSessRecvSeqUpdate(s, c.seq)
           r == [w EXCEPT !.twice = @ \/ c \in w.ran, !.ran = @ \cup {c}]
       IN IF ~ok THEN r
          ELSE IF c.kind = "put" THEN [r EXCEPT !.later = @ + 1]
          ELSE BleCustomSecDataGetChar(r)

(* The negotiation is modelled in module Speke; here it takes two messages. *)
PutBleSvcSpeke(s) == [s EXCEPT !.spk = IF @ < 2 THEN @ + 1 ELSE 2]

(* Bind and network information go to the device and connection services.   *)
PutBleSvcNetCfg(s) == s

-----------------------------------------------------------------------------
(* A complete command. *)

LinkLayerDecryptData(s, c) ==
  \/ c.enc = Plain
  \/ c.enc = Speke /\ s.spk = 2
  \/ c.enc = SessKey /\ s.sess # 0 /\ c.sess = s.sess

SvcCheckEncType(c) == c.enc \in SuppEncType(c.kind)

LinkLayerProcessData(s, c, ok) ==
  CASE ~SvcCheckEncType(c) -> s
    [] SvcCheckEncType(c) /\ c.kind \in {"create", "badcreate"} -> ProcessCreateSessionCmd(s, c)
    [] SvcCheckEncType(c) /\ c.kind = "speke" -> PutBleSvcSpeke(s)
    [] SvcCheckEncType(c) /\ c.kind = "netcfg" -> PutBleSvcNetCfg(s)
    [] SvcCheckEncType(c) /\ c.kind \in {"put", "get"} -> PutCustomSecData(s, c, ok)

-----------------------------------------------------------------------------
(* Reassembly. *)

ClearTimeoutPkg(s) ==
  IF s.pkg.tok # 0 /\ s.pkg.age >= PkgTimeout THEN [s EXCEPT !.pkg = NoPkg] ELSE s

(* Faulty: fragments are counted without looking whether one is known. *)
InsertNoDedup(s, k, i) ==
  LET t == ClearTimeoutPkg(s)
      c == s.cmds[k]
      new == [tok |-> c.tok, n |-> c.n, cur |-> 0, got |-> {}, age |-> 0]
      p == IF t.pkg.tok = 0 THEN new ELSE t.pkg
  IN IF p.tok # c.tok THEN {}
     ELSE {[t EXCEPT !.pkg = [p EXCEPT !.got = @ \cup {<<i, k>>}, !.cur = @ + 1]]}

(* Fragment i of command k, or nothing when the insertion is refused: the   *)
(* pool is full of another command, or the fragment lies past the buffer    *)
(* made for the first one of this token.                                    *)
LinkLayerRecvPkgInsert(s, k, i) ==
  LET t == ClearTimeoutPkg(s)
      c == s.cmds[k]
      new == [tok |-> c.tok, n |-> c.n, cur |-> 0, got |-> {}, age |-> 0]
      p == IF t.pkg.tok = 0 THEN new ELSE t.pkg
  IN IF p.tok # c.tok THEN {}
     ELSE IF \E g \in p.got : g[1] = i THEN {[t EXCEPT !.pkg = p]}
     ELSE IF i > p.n THEN {}
     ELSE {[t EXCEPT !.pkg = [p EXCEPT !.got = @ \cup {<<i, k>>}, !.cur = @ + 1]]}

LinkLayerRecvCompleteCheck(s) == s.pkg.cur = s.pkg.n

(* The buffer changes hands and the entry goes.                             *)
LinkLayerRecvMergePkgs(s) ==
  [s EXCEPT !.pkg = NoPkg,
            !.mixed = @ \/ Cardinality({g[2] : g \in s.pkg.got}) > 1
                        \/ {g[1] : g \in s.pkg.got} # 1..s.pkg.n]

(* A fragment is inserted and sets the encryption type; the last one makes  *)
(* the command run.  What mixes two commands does not decrypt or parse.     *)
LinkLayerProcessBtData(k, i, ok) ==
  /\ bl.conn /\ bl.cmds[k].conn = bl.conns
  /\ bl.sendSeq + bl.later < MaxSends
  /\ LET c == bl.cmds[k]
     IN IF LinkLayerRecvPkgInsert(bl, k, i) = {} THEN bl' = ClearTimeoutPkg(bl)
        ELSE \E t \in LinkLayerRecvPkgInsert(bl, k, i) :
               LET e == [t EXCEPT !.enc = c.enc]
                   m == LinkLayerRecvMergePkgs(e)
                   whole == \A g \in t.pkg.got : g[2] = k
               IN bl' = IF ~LinkLayerRecvCompleteCheck(e) THEN e
                        ELSE IF whole /\ LinkLayerDecryptData(m, c)
                        THEN LinkLayerProcessData(m, c, ok)
                        ELSE m

-----------------------------------------------------------------------------
(* The executor's report after a put, and reports of changed states. *)

PutCharReportExecutorCallback ==
  /\ bl.later > 0
  /\ LET s == [bl EXCEPT !.later = @ - 1]
     IN bl' = IF CreateAndSendRptCmdData(s, "put") THEN BuildBleCustomSecDataService(s, "report")
              ELSE BleSessSendSeqUpdate(s)

BleReportCustomSecDataService ==
  /\ bl.conn /\ bl.reports < MaxReports
  /\ LET s == [bl EXCEPT !.reports = @ + 1]
     IN bl' = IF CreateAndSendRptCmdData(s, "put")
              THEN BleSessSendSeqUpdate(WithSeq(s, "report")) ELSE s

-----------------------------------------------------------------------------
(* Connections. *)

BleSessReset(s) ==
  [s EXCEPT !.sess = 0, !.max = 0, !.bits = {}, !.sendSeq = 1, !.spk = 0,
            !.ran = {}, !.outs = {}]

(* The cached fragments stay; LinkLayerClearAllCachePkg is only called when *)
(* the service stops.                                                       *)
Disconnect ==
  /\ bl.conn
  /\ bl' = [BleSessReset(bl) EXCEPT !.conn = FALSE, !.stale = @ \/ bl.pkg.tok # 0]

LinkLayerClearAllCachePkg ==
  /\ bl.conn /\ bl.pkg.tok # 0
  /\ bl' = [BleSessReset(bl) EXCEPT !.conn = FALSE, !.pkg = NoPkg]

Connect ==
  /\ ~bl.conn /\ bl.conns < MaxConn
  /\ bl' = [bl EXCEPT !.conn = TRUE, !.conns = @ + 1, !.psess = 0]

-----------------------------------------------------------------------------
(* The phone: tokens count up on a connection; a session is known to it     *)
(* once its answer has come.                                                *)

Mine == {k \in 1..Len(bl.cmds) : bl.cmds[k].conn = bl.conns}

Command(kind, n, q) ==
  [tok |-> Cardinality(Mine) + 1, n |-> n, kind |-> kind, conn |-> bl.conns,
   seq |-> q, sess |-> bl.psess,
   enc |-> CASE kind \in {"create", "badcreate", "speke"} -> Plain
             [] kind = "netcfg" -> Speke
             [] kind \in {"put", "get"} -> IF bl.psess # 0 THEN SessKey ELSE Speke]

PhoneSends(kind, n, q) ==
  /\ bl.conn /\ Len(bl.cmds) < MaxCmd
  /\ kind \in {"put", "get"} => bl.psess # 0 \/ bl.spk = 2
  /\ kind = "netcfg" => bl.spk = 2
  /\ q \in (IF kind \in {"create", "badcreate"} THEN FirstSeqs ELSE {bl.pseq})
  /\ bl' = [bl EXCEPT !.cmds = Append(@, Command(kind, n, q)), !.pseq = (q + 1) % SeqSpan]

PhoneLearns ==
  /\ bl.conn /\ bl.sess # 0 /\ bl.psess # bl.sess
  /\ bl' = [bl EXCEPT !.psess = bl.sess]

BlTick ==
  /\ bl.pkg.tok # 0 /\ bl.pkg.age < PkgTimeout
  /\ bl' = [bl EXCEPT !.pkg.age = @ + 1]

BlNext ==
  \/ \E k \in 1..Len(bl.cmds), i \in 1..MaxFrags, ok \in BOOLEAN :
       i <= bl.cmds[k].n /\ LinkLayerProcessBtData(k, i, ok)
  \/ PutCharReportExecutorCallback
  \/ BleReportCustomSecDataService
  \/ Connect \/ Disconnect \/ LinkLayerClearAllCachePkg
  \/ \E kind \in Kinds, n \in 1..MaxFrags, q \in FirstSeqs \cup {bl.pseq} : PhoneSends(kind, n, q)
  \/ PhoneLearns
  \/ BlTick

BlSpec == BlInit /\ [][BlNext]_bl

-----------------------------------------------------------------------------
(* Properties. *)

(* Lost, repeated and reordered fragments, retries and reconnections do not *)
(* corrupt the dialogue: a merged command is made of all fragments of one   *)
(* command, unless a connection ended with an incomplete command in the     *)
(* cache; a command to the device runs at most once after each              *)
(* initialisation of the window of sequence numbers, also when they wrap;   *)
(* and no two messages of a session carry one sequence number but for the   *)
(* report and the answer with the one text that answers a get.              *)
LinkSound ==
  /\ bl.mixed => bl.stale
  /\ ~bl.twice
  /\ ~bl.reused

=============================================================================
