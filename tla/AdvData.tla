------------------------------- MODULE AdvData -------------------------------
(***************************************************************************)
(* What the device puts on the air: the advertising data and the scan      *)
(* response of the BLE and SLE services                                    *)
(* (src/core/ble/application/adv/ble_adv_data.c,                           *)
(* src/core/sle/application/adv/sle_adv_data.c) and the variants that the  *)
(* SDK registers as custom callbacks                                       *)
(* (src/sdk/oh_connect/biz/iotc_oh_{ble,sle}_adv_data.c).                  *)
(*                                                                         *)
(* A payload is a sequence of octets.  Lengths, types and flags are the    *)
(* numbers of the code; an octet of the device's identity is a symbol      *)
(* (a number above 1000) that says which character of which field it is.   *)
(* The builders fill a packed structure that starts as zeros and send its  *)
(* first octets, so a field that is left out in front of another one       *)
(* leaves zeros behind.                                                    *)
(***************************************************************************)
EXTENDS Integers, Sequences, SequencesExt, FiniteSets

CONSTANTS Sides,        \* subset of {"ble", "sle"}
          ProLen,       \* characters of a product id: 5, or 4 with the AI Life build
          SnLens,       \* lengths of serial numbers
          NameLens,     \* lengths of the maker's and the type's names together
          AdvMax,       \* IOTC_ADPT_BLE_ADV_VALUE_MAX_LEN, 31
          Nearlink      \* IOTC_CONF_OH_NEARLINK_SUPPORT

VARIABLE ad

Types == {"nearby_half", "nearby_fa", "onehop_half", "onehop_fa", "only_name", "custom"}
Modes == {"none", "agent", "supply"}
Combos == {"combo", "only", "other"}
Binds == {"not", "bind", "revoke"}

Error == [ok |-> FALSE, adv |-> <<>>, rsp |-> <<>>]

Pro(i) == 1000 + i
Sn(i) == 2000 + i
Text(i) == 3000 + i
Sub(i) == 4000 + i
Mac(i) == 5000 + i
SubPro == 6000
Power == 6001

Zeros(n) == [i \in 1 .. n |-> 0]
Chars(C(_), a, b) == [i \in 1 .. b - a + 1 |-> C(a + i - 1)]
SnTail(d, n) == Chars(Sn, d.sn - n + 1, d.sn)

(* The first n octets of the structure, n being what the parts counted.    *)
Packed(head, base, width, tail) ==
  LET whole == head \o (IF base = <<>> THEN Zeros(width) ELSE base) \o tail
  IN SubSeq(whole, 1, Len(head) + Len(base) + Len(tail))

(* GetSubProIdInt: 0 unless the sub product id has two characters.         *)
GetSubProIdInt(d) == IF d.sub = 2 THEN SubPro ELSE 0

-----------------------------------------------------------------------------
(* BLE.                                                                    *)

BleProLen == ProLen
BleLike(d) == IF d.type = "custom" THEN "nearby_half" ELSE d.type
Ailife == ProLen = 4

BleAdvFlags == <<2, 1, 6>>

BleBaseLen == 6 + BleProLen
BleLayout(head, base, tail) == Packed(head, base, BleBaseLen, tail)

BleCustomHead(d) ==
  LET t == BleLike(d)
      business == CASE t \in {"nearby_half", "nearby_fa"} -> IF Ailife THEN 1 ELSE 23
                    [] t \in {"onehop_half", "onehop_fa"} -> 6
                    [] t = "only_name" -> 0
      extension == CASE t = "nearby_half" -> 1 + 2 * 3
                     [] t = "nearby_fa" -> 1 + 2 * 6
                     [] t = "onehop_half" -> 1
                     [] t \in {"onehop_fa", "only_name"} -> 0
  IN <<238, 253, 1, business, extension>>

BleNearbyBase(d) ==
  IF d.pro < BleProLen THEN <<>>
  ELSE <<4, GetSubProIdInt(d), 17, Power, IF Ailife THEN 18 ELSE 21>>
         \o Chars(Pro, 1, BleProLen) \o <<255>>

(* Which dialogue a phone shows; the mode has the upper six bits.          *)
BleGetAdvProtocol(d, bind, online) ==
  CASE bind = "bind" -> IF d.combo = "combo" /\ ~online THEN 3 ELSE 0
    [] bind # "bind" /\ d.combo = "combo" ->
         (CASE d.mode = "agent" -> 6 [] d.mode = "supply" -> 1 [] d.mode = "none" -> 0)
    [] bind # "bind" /\ d.combo = "only" -> IF Ailife THEN 5 ELSE 1
    [] bind # "bind" /\ d.combo = "other" -> 0

BleTransmit(d, p) ==
  CASE d.sn < 2 -> <<>>
    [] d.sn >= 2 /\ BleLike(d) = "nearby_half" -> <<0, p * 4, 2>> \o SnTail(d, 2)
    [] d.sn >= 2 /\ BleLike(d) = "nearby_fa" -> <<23, 1, p * 4, 20, 2>> \o SnTail(d, 2)

(* The type list names custom, product id, sub product id and power.       *)
BleOnehop(d, p) ==
  IF d.sn < 2 \/ d.pro < BleProLen THEN <<>>
  ELSE <<23, 0>> \o <<7, 23, 1, p * 4, 20, 2>> \o SnTail(d, 2)
         \o Chars(Pro, 1, BleProLen) \o <<GetSubProIdInt(d), Power>>

BleCustomValue(d, p) ==
  CASE BleLike(d) \in {"nearby_half", "nearby_fa"} ->
         BleLayout(BleCustomHead(d), BleNearbyBase(d), BleTransmit(d, p))
    [] BleLike(d) \in {"onehop_half", "onehop_fa"} ->
         BleCustomHead(d) \o BleOnehop(d, p)
    [] BleLike(d) = "only_name" -> BleCustomHead(d)

(* Faulty: the length octet counts the value without its type. *)
CopyShortLength(d, p, room) ==
  LET v == BleCustomValue(d, p)
  IN IF Len(v) + 2 > room THEN <<>> ELSE <<Len(v), 22>> \o v

(* An empty sequence stands for the error: the part would not fit.         *)
BleCustomAdvCopyToBuf(d, p, room) ==
  LET v == BleCustomValue(d, p)
  IN IF Len(v) + 2 > room THEN <<>> ELSE <<Len(v) + 1, 22>> \o v

(* "Hi" or "Oh" for a device that is not bound, both capitals for one that *)
(* is.                                                                     *)
Small == Text(200)
NameHead(bind) == <<Text(101), IF bind = "bind" THEN Text(102) ELSE Small>>
Dash == 45
One == 49
Short(d) == Chars(Text, 1, IF d.name < 10 THEN d.name ELSE 10)

(* At most 25 characters with their terminator in the buffer of 26; the    *)
(* tail of the address takes the place of a short serial number.           *)
BleGenAdvName(d, bind) ==
  LET tail == IF d.sn < 4 THEN Chars(Mac, 1, 4) ELSE SnTail(d, 4)
      name == NameHead(bind) \o <<Dash>> \o Short(d) \o <<Dash, One>>
                \o Chars(Pro, 1, d.pro) \o Chars(Sub, 1, d.sub) \o tail
  IN IF d.pro = 0 \/ d.sub < 0 \/ (d.sn < 4 /\ ~d.mac) \/ Len(name) > 25
     THEN <<>> ELSE name

RspStruct(name) == <<Len(name) + 1, 9>> \o name

GetBleAilifeAdvDataInner(d, bind, online) ==
  LET custom == BleCustomAdvCopyToBuf(d, BleGetAdvProtocol(d, bind, online),
                                      AdvMax - Len(BleAdvFlags))
      name == BleGenAdvName(d, bind)
  IN IF (d.type # "only_name" /\ custom = <<>>) \/ name = <<>> \/ Len(name) + 2 > AdvMax
     THEN Error
     ELSE [ok |-> TRUE, rsp |-> RspStruct(name),
           adv |-> BleAdvFlags \o (IF d.type = "only_name" THEN <<>> ELSE custom)]

-----------------------------------------------------------------------------
(* The SDK's BLE variant: a name of 27 octets at most, the last one the    *)
(* capabilities of the device, and no substitute for a short serial number.*)

Capacity == 97

OhBleAdvFlags == <<2, 1, 6>>

OhBleGenAdvName(d, bind) ==
  LET name == NameHead(bind) \o <<Dash>> \o Short(d) \o <<Dash, One>>
                \o Chars(Pro, 1, d.pro) \o SnTail(d, 4)
  IN IF d.pro = 0 \/ d.sn < 4 \/ Len(name) > 27 THEN <<>> ELSE Append(name, Capacity)

IotcOhGetBleAdvData(d, bind, online) ==
  LET custom == BleCustomAdvCopyToBuf(d, BleGetAdvProtocol(d, bind, online),
                                      AdvMax - Len(OhBleAdvFlags))
      name == OhBleGenAdvName(d, bind)
  IN IF (Nearlink /\ custom = <<>>) \/ name = <<>> \/ Len(name) + 2 > AdvMax
     THEN Error
     ELSE [ok |-> TRUE, rsp |-> RspStruct(name),
           adv |-> OhBleAdvFlags \o (IF Nearlink THEN custom ELSE <<>>)]

(* The callback is used for the custom type alone.                         *)
GetBleAdvData(d, bind, online) ==
  IF d.type = "custom" /\ d.cb THEN IotcOhGetBleAdvData(d, bind, online)
  ELSE GetBleAilifeAdvDataInner(d, bind, online)

-----------------------------------------------------------------------------
(* SLE.  Four characters of the product id in every build; the custom type *)
(* is no kind of nearby discovery here.                                    *)

SleProLen == 4

SleAdvFlags == <<2, 1, 6>>

SleBaseLen == 6 + SleProLen
SleLayout(head, base, tail) == Packed(head, base, SleBaseLen, tail)

SleCustomHead(d) ==
  LET business == CASE d.type \in {"nearby_half", "nearby_fa"} -> 1
                    [] d.type \in {"onehop_half", "onehop_fa"} -> 6
                    [] d.type \in {"only_name", "custom"} -> 0
      extension == CASE d.type = "nearby_half" -> 1 + 2 * 3
                     [] d.type = "nearby_fa" -> 1 + 2 * 6
                     [] d.type = "onehop_half" -> 1
                     [] d.type \in {"onehop_fa", "only_name", "custom"} -> 0
  IN <<238, 253, 1, business, extension>>

SleNearbyBase(d) ==
  IF d.pro < SleProLen THEN <<>>
  ELSE <<4, GetSubProIdInt(d), 17, Power, 18>> \o Chars(Pro, 1, SleProLen) \o <<255>>

SleGetAdvProtocol(d, bind, online) ==
  CASE bind = "bind" -> IF d.combo = "combo" /\ ~online THEN 3 ELSE 0
    [] bind # "bind" /\ d.combo = "combo" ->
         (CASE d.mode = "agent" -> 6 [] d.mode = "supply" -> 1 [] d.mode = "none" -> 0)
    [] bind # "bind" /\ d.combo = "only" -> 5
    [] bind # "bind" /\ d.combo = "other" -> 0

SleTransmit(d, p) ==
  CASE d.sn < 2 -> <<>>
    [] d.sn >= 2 /\ d.type = "nearby_half" -> <<0, p * 4, 2>> \o SnTail(d, 2)
    [] d.sn >= 2 /\ d.type = "nearby_fa" -> <<23, 1, p * 4, 20, 2>> \o SnTail(d, 2)

SleOnehop(d, p) ==
  IF d.sn < 2 \/ d.pro < SleProLen THEN <<>>
  ELSE <<23, 0>> \o <<7, 23, 1, p * 4, 20, 2>> \o SnTail(d, 2)
         \o Chars(Pro, 1, SleProLen) \o <<GetSubProIdInt(d), Power>>

SleCustomAdvCopyToBuf(d, p, room) ==
  LET v == CASE d.type \in {"nearby_half", "nearby_fa"} ->
                  SleLayout(SleCustomHead(d), SleNearbyBase(d), SleTransmit(d, p))
             [] d.type \in {"onehop_half", "onehop_fa"} -> SleCustomHead(d) \o SleOnehop(d, p)
             [] d.type \in {"only_name", "custom"} -> SleCustomHead(d)
  IN IF Len(v) + 2 > room THEN <<>> ELSE <<Len(v) + 1, 22>> \o v

SleGenAdvName(d, bind) ==
  LET tail == IF d.sn < 4 THEN Chars(Mac, 1, 4) ELSE SnTail(d, 4)
      name == NameHead(bind) \o <<Dash>> \o Short(d) \o <<Dash, One>>
                \o Chars(Pro, 1, d.pro) \o Chars(Sub, 1, d.sub) \o tail
  IN IF d.pro = 0 \/ d.sub < 0 \/ (d.sn < 4 /\ ~d.mac) \/ Len(name) > 25
     THEN <<>> ELSE name

GetSleAilifeAdvDataInner(d, bind, online) ==
  LET custom == SleCustomAdvCopyToBuf(d, SleGetAdvProtocol(d, bind, online),
                                      AdvMax - Len(SleAdvFlags))
      name == SleGenAdvName(d, bind)
  IN IF (d.type # "only_name" /\ custom = <<>>) \/ name = <<>> \/ Len(name) + 2 > AdvMax
     THEN Error
     ELSE [ok |-> TRUE, rsp |-> RspStruct(name),
           adv |-> SleAdvFlags \o (IF d.type = "only_name" THEN <<>> ELSE custom)]

OhSleAdvFlags == <<2, 1, 6>>

OhSleGenAdvName(d, bind) ==
  LET name == NameHead(bind) \o <<Dash>> \o Short(d) \o <<Dash, One>>
                \o Chars(Pro, 1, d.pro) \o SnTail(d, 4)
  IN IF d.pro = 0 \/ d.sn < 4 \/ Len(name) > 27 THEN <<>> ELSE Append(name, Capacity)

IotcOhGetSleAdvData(d, bind) ==
  LET name == OhSleGenAdvName(d, bind)
  IN IF name = <<>> \/ Len(name) + 2 > AdvMax THEN Error
     ELSE [ok |-> TRUE, adv |-> OhSleAdvFlags, rsp |-> RspStruct(name)]

GetSleAdvData(d, bind, online) ==
  IF d.type = "custom" /\ d.cb THEN IotcOhGetSleAdvData(d, bind)
  ELSE GetSleAilifeAdvDataInner(d, bind, online)

-----------------------------------------------------------------------------
(* The device: what the options accept (CheckDevInfo), or none set.        *)

CheckDevInfo ==
  [pro : {ProLen}, sn : SnLens, name : NameLens, sub : {-1, 0, 2}]
    \cup {[pro |-> 0, sn |-> 0, name |-> 0, sub |-> -1]}

Devices ==
  {[pro |-> i.pro, sn |-> i.sn, name |-> i.name, sub |-> i.sub, side |-> s, type |-> t,
    combo |-> c, mode |-> m, cb |-> b, mac |-> a] :
     i \in CheckDevInfo, s \in Sides, t \in Types, c \in Combos, m \in Modes,
     b \in BOOLEAN, a \in BOOLEAN}

(* Symbols that make no difference are held fixed.                         *)
Distinct(d) ==
  /\ d.mac \/ d.sn < 4
  /\ d.mode = "none" \/ d.combo = "combo"
  /\ d.cb => d.type = "custom"

AdvInit ==
  \E d \in Devices :
    /\ Distinct(d)
    /\ ad = [dev |-> d, bind |-> "not", online |-> FALSE, on |-> FALSE,
             air |-> Error, at |-> <<"not", FALSE>>]

Build(a) ==
  [a EXCEPT !.air = IF a.dev.side = "ble" THEN GetBleAdvData(a.dev, a.bind, a.online)
                    ELSE GetSleAdvData(a.dev, a.bind, a.online),
            !.at = <<a.bind, a.online>>]

(* A start of advertising asks the callback for the data.                  *)
BleGetAdvInfoCallback ==
  /\ ad.dev.side = "ble" /\ ~ad.on
  /\ ad' = [Build(ad) EXCEPT !.on = TRUE]

SleGetAdvInfoCallback ==
  /\ ad.dev.side = "sle" /\ ~ad.on
  /\ ad' = [Build(ad) EXCEPT !.on = TRUE]

(* The bind status changes without an event of its own.                    *)
BindStatus ==
  \E b \in Binds \ {ad.bind} : ad' = [ad EXCEPT !.bind = b]

(* The cloud's events of being registered and on line renew the data; the  *)
(* status of being on line is set and never taken back.                    *)
AdvUpdateEvent ==
  /\ ad.bind = "bind"
  /\ \E up \in BOOLEAN :
       LET now == [ad EXCEPT !.online = @ \/ up]
       IN ad' = IF ad.on THEN Build(now) ELSE now

AdvStop == ad.on /\ ad' = [ad EXCEPT !.on = FALSE, !.air = Error, !.at = <<"not", FALSE>>]

AdvNext ==
  BleGetAdvInfoCallback \/ SleGetAdvInfoCallback \/ BindStatus \/ AdvUpdateEvent \/ AdvStop

AdvSpec == AdvInit /\ [][AdvNext]_ad

-----------------------------------------------------------------------------
(* A scanner that follows lengths and types and knows nothing else.        *)

Splits(s) ==
  LET from[i \in 1 .. Len(s) + 1] ==
        i = Len(s) + 1 \/ (s[i] >= 1 /\ i + s[i] <= Len(s) /\ from[i + s[i] + 1])
  IN from[1]

Body(s, type) ==
  LET at[i \in 1 .. Len(s) + 1] ==
        IF i = Len(s) + 1 THEN <<>>
        ELSE IF s[i + 1] = type THEN SubSeq(s, i + 2, i + s[i])
        ELSE at[i + s[i] + 1]
  IN at[1]

(* The values that follow a tag in a list of tagged values.                *)
Tagged(s, Width(_), tag) ==
  LET at[i \in 1 .. Len(s) + 1] ==
        IF i = Len(s) + 1 THEN <<>>
        ELSE IF s[i] = tag THEN SubSeq(s, i + 1, i + Width(tag))
        ELSE IF i + Width(s[i]) + 1 > Len(s) THEN <<>>
        ELSE at[i + Width(s[i]) + 1]
  IN at[1]

Half(tag) == IF tag = 0 THEN 1 ELSE 2
Fa(tag) == IF tag = 23 THEN 2 ELSE 3

(* What the scanner learns from the service data: product id, tail of the  *)
(* serial number and mode.                                                 *)
Scan(v) ==
  LET ext == SubSeq(v, 6, Len(v))
      width(tag) == CASE tag \in {4, 17} -> 1 [] tag = 18 -> 4 [] tag = 21 -> 5
                      [] tag = 255 -> 7 [] OTHER -> 99
      pro == IF Tagged(ext, width, 18) # <<>> THEN Tagged(ext, width, 18)
             ELSE Tagged(ext, width, 21)
      rest == Tagged(ext, width, 255)
      sent == SubSeq(ext, Len(pro) + 7, Len(ext))
  IN IF v[4] = 6
     THEN [pro |-> SubSeq(ext, 4 + ext[3], Len(ext) - 2),
           sn |-> Tail(Tagged(SubSeq(ext, 4, 3 + ext[3]), Fa, 20)),
           mode |-> Tagged(SubSeq(ext, 4, 3 + ext[3]), Fa, 23)[2] \div 4]
     ELSE IF v[5] = 7
     THEN [pro |-> pro, sn |-> Tagged(sent, Half, 2), mode |-> Tagged(sent, Half, 0)[1] \div 4]
     ELSE [pro |-> pro, sn |-> Tail(Tagged(sent, Fa, 20)), mode |-> Tagged(sent, Fa, 23)[2] \div 4]

(* What each number of the enumeration (PROTOCOL_...) says of the device,  *)
(* after the enumeration's comments: a control box, setting up Wi-Fi,      *)
(* Wi-Fi lost, registering a device that has BLE only, activation by       *)
(* proxy.  Two uses go beyond them: a device without a dialogue of its own *)
(* keeps 0, and outside the AI-life build a BLE only device asks for the   *)
(* dialogue of Wi-Fi set-up instead of its own, 5.                         *)
Says(mode, d, at) ==
  LET bound == at[1] = "bind"
      lost == bound /\ d.combo = "combo" /\ ~at[2]
      instead == d.combo = "only" /\ d.side = "ble" /\ ~Ailife
  IN CASE mode = 0 -> IF bound THEN ~lost
                      ELSE d.combo = "other" \/ (d.combo = "combo" /\ d.mode = "none")
       [] mode = 1 -> ~bound /\ ((d.combo = "combo" /\ d.mode = "supply") \/ instead)
       [] mode = 3 -> lost
       [] mode = 5 -> ~bound /\ d.combo = "only" /\ ~instead
       [] mode = 6 -> ~bound /\ d.combo = "combo" /\ d.mode = "agent"
       [] OTHER -> FALSE

FitsName(d, sub) == 9 + (IF d.name < 10 THEN d.name ELSE 10) + d.pro + sub <= 25

(* When the data cannot be built, and only then, the device is off the air.*)
Buildable(d) ==
  /\ d.pro > 0
  /\ IF d.type = "custom" /\ d.cb THEN d.sn >= 4
     ELSE d.sub >= 0 /\ (d.sn >= 4 \/ d.mac) /\ FitsName(d, d.sub)

Discovery(d) ==
  CASE d.side = "ble" -> d.type # "only_name" /\ ~(d.type = "custom" /\ d.cb /\ ~Nearlink)
    [] d.side = "sle" -> d.type \notin {"only_name", "custom"}

(* What is on the air: whenever the device's description allows a name at  *)
(* all, both payloads fit the 31 octets of the radio, their lengths        *)
(* partition them exactly, and a scanner that follows lengths and tags     *)
(* reads back the product id, the last two characters of the serial number *)
(* and the dialogue that the bind and on-line state at the time of building*)
(* calls for; the capital of the name agrees with that state.              *)
AdvSound ==
  LET d == ad.dev
      name == Body(ad.air.rsp, 9)
      svc == Body(ad.air.adv, 22)
      got == Scan(svc)
      pro == IF d.side = "ble" THEN BleProLen ELSE SleProLen
  IN /\ ad.on => (ad.air.ok <=> Buildable(d))
     /\ ad.air.ok =>
          /\ Len(ad.air.adv) <= AdvMax /\ Len(ad.air.rsp) <= AdvMax
          /\ Splits(ad.air.adv) /\ Splits(ad.air.rsp)
          /\ (name[2] = Small) <=> (ad.at[1] # "bind")
          /\ Chars(Pro, 1, d.pro) = SubSeq(name, Len(Short(d)) + 6, Len(Short(d)) + 5 + d.pro)
          /\ Discovery(d) /\ d.sn >= 2 =>
               /\ got.pro = Chars(Pro, 1, pro) /\ got.sn = SnTail(d, 2)
               /\ Says(got.mode, d, ad.at)
=============================================================================
