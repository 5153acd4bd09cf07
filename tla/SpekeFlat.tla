----------------------------- MODULE SpekeFlat -----------------------------
(***************************************************************************)
(* The JSON reader of the key exchange (security_speke_flat.c), which      *)
(* finds members of a message by scanning it in place instead of building  *)
(* a tree.  A text is a sequence of characters; positions count from 0 as  *)
(* in the code, and Len + 1 is the code's error value.  The reference is   *)
(* the tree a text was printed from.                                       *)
(***************************************************************************)
EXTENDS Integers, Sequences, FiniteSets, SequencesExt

CONSTANTS
  Keys,        \* member names, one character each
  Strings,     \* contents of string values, as sequences of characters
  Digits,      \* digits of number values
  MaxLen,      \* SpekeFlatGetMaxLen: longest string or number a member may be
  MaxMembers,  \* bound: members of an object
  MaxDepth     \* SPEKE_FLAT_MAX_DEPTH

Q == "\""
Bs == "\\"
Sp == " "

VARIABLES doc, text, ok, found

flatVars == <<doc, text, ok, found>>

-----------------------------------------------------------------------------
(* The trees and the texts they print as. *)

Num(d) == [t |-> "num", d |-> d]
Str(s) == [t |-> "str", s |-> s]
Obj(m) == [t |-> "obj", m |-> m]
Arr(e) == [t |-> "arr", e |-> e]

Leaves == {Num(d) : d \in Digits} \cup {Str(s) : s \in Strings}
Members(V) == UNION {[1 .. n -> Keys \X V] : n \in 0 .. MaxMembers}
Inner == Leaves \cup {Arr(<<v>>) : v \in Leaves}
           \cup {Obj(<<<<k, v>>>>) : k \in Keys, v \in Leaves}
Docs == {Obj(m) : m \in Members(Inner)}

PrintLeaf(v) == IF v.t = "num" THEN <<v.d>> ELSE <<Q>> \o v.s \o <<Q>>
PrintVal(v) ==
  CASE v.t \in {"num", "str"} -> PrintLeaf(v)
    [] v.t = "arr" -> <<"[">> \o PrintLeaf(v.e[1]) \o <<"]">>
    [] v.t = "obj" -> <<"{", Q, v.m[1][1], Q, ":">> \o PrintLeaf(v.m[1][2]) \o <<"}">>
PrintDoc(d) ==
  LET member(i) == <<Q, d.m[i][1], Q, ":", Sp>> \o PrintVal(d.m[i][2])
      all == [i \in 1 .. Len(d.m) |-> (IF i = 1 THEN <<>> ELSE <<",">>) \o member(i)]
  IN <<"{">> \o FlattenSeq(all) \o <<"}">>

-----------------------------------------------------------------------------
(* The reader.  Past the end there is no character.                         *)

Ch(s, i) == IF i < Len(s) THEN s[i + 1] ELSE "end"
Bad(s) == Len(s) + 1

SpekeFlatSkipWs(s, i) ==
  LET skip[j \in 0 .. Len(s)] == IF Ch(s, j) = Sp THEN skip[j + 1] ELSE j
  IN IF i > Len(s) THEN i ELSE skip[i]

(* Faulty: an escaped quote ends the string. *)
SkipStrNoEscape(s, i) ==
  LET skip[j \in 0 .. Len(s)] ==
        IF j = Len(s) THEN Len(s) ELSE IF Ch(s, j) = Q THEN j + 1 ELSE skip[j + 1]
  IN IF Ch(s, i) # Q THEN Len(s) ELSE skip[i + 1]

(* The position after a string; the end of the text when it does not end.   *)
SpekeFlatSkipStr(s, i) ==
  LET skip[j \in 0 .. Len(s)] ==
        CASE j = Len(s) -> Len(s)
          [] Ch(s, j) = Bs -> IF j + 2 > Len(s) THEN Len(s) ELSE skip[j + 2]
          [] Ch(s, j) = Q -> j + 1
          [] OTHER -> skip[j + 1]
  IN IF Ch(s, i) # Q THEN Len(s) ELSE skip[i + 1]

SpekeFlatSkipNested(s, i, open, close) ==
  LET skip[j \in 0 .. Len(s)] ==
        [n \in 0 .. Len(s) |->
           CASE j = Len(s) -> Len(s)
             [] Ch(s, j) = Q -> skip[SpekeFlatSkipStr(s, j)][n]
             [] Ch(s, j) = open -> skip[j + 1][n + 1]
             [] Ch(s, j) = close -> IF n = 1 THEN j + 1 ELSE skip[j + 1][n - 1]
             [] OTHER -> skip[j + 1][n]]
  IN skip[i][0]

SpekeFlatSkipVal(s, i) ==
  LET skip[j \in 0 .. Len(s)] ==
        IF j = Len(s) \/ Ch(s, j) \in {",", "}", "]", Sp} THEN j ELSE skip[j + 1]
  IN CASE i >= Len(s) -> Len(s)
       [] Ch(s, i) = Q -> SpekeFlatSkipStr(s, i)
       [] Ch(s, i) = "{" -> SpekeFlatSkipNested(s, i, "{", "}")
       [] Ch(s, i) = "[" -> SpekeFlatSkipNested(s, i, "[", "]")
       [] OTHER -> skip[i]

(* Braces balance, at most MaxDepth deep, brackets balance on their own,    *)
(* and nothing but space follows the closing brace.                         *)
SpekeFlatValidate(s) ==
  LET start == SpekeFlatSkipWs(s, 0)
      scan[j \in 0 .. Len(s)] ==
        [st \in (0 .. MaxDepth) \X (0 .. Len(s)) \X BOOLEAN |->
           LET d == st[1]  a == st[2] IN
           CASE j = Len(s) -> d = 0 /\ a = 0 /\ st[3]
             [] st[3] -> Ch(s, j) = Sp /\ scan[j + 1][st]
             [] Ch(s, j) = Q -> scan[SpekeFlatSkipStr(s, j)][st]
             [] Ch(s, j) = "{" -> d < MaxDepth /\ scan[j + 1][<<d + 1, a, FALSE>>]
             [] Ch(s, j) = "}" -> d > 0 /\ scan[j + 1][<<d - 1, a, d = 1>>]
             [] Ch(s, j) = "[" -> scan[j + 1][<<d, a + 1, FALSE>>]
             [] Ch(s, j) = "]" -> a > 0 /\ scan[j + 1][<<d, a - 1, FALSE>>]
             [] OTHER -> scan[j + 1][st]]
  IN Ch(s, start) = "{" /\ scan[start][<<0, 0, FALSE>>]

SpekeFlatScanKey(s, i) == IF Ch(s, i) # Q THEN Bad(s) ELSE SpekeFlatSkipStr(s, i)

SpekeFlatScanColon(s, i) ==
  LET j == SpekeFlatSkipWs(s, i) IN
  IF i > Len(s) \/ Ch(s, j) # ":" THEN Bad(s) ELSE SpekeFlatSkipWs(s, j + 1)

SpekeFlatSkipEntryVal(s, i) ==
  LET j == SpekeFlatSkipWs(s, SpekeFlatSkipVal(s, i)) IN
  IF Ch(s, j) = "," THEN j + 1 ELSE j

Missing == <<0, 0>>

(* The first member of the object named k, as a range of positions.         *)
SpekeFlatFindKey(s, k) ==
  LET start == SpekeFlatSkipWs(s, 0)
      find[b \in 0 .. Len(s)] ==
        LET i == SpekeFlatSkipWs(s, b)
            e == SpekeFlatScanKey(s, i)
            v == SpekeFlatScanColon(s, e)
            next == SpekeFlatSkipEntryVal(s, v)
        IN CASE i >= Len(s) \/ Ch(s, i) = "}" -> Missing
             [] e > Len(s) \/ v > Len(s) -> Missing
             [] SubSeq(s, i + 2, e - 1) = <<k>> -> <<v, SpekeFlatSkipVal(s, v)>>
             [] OTHER -> IF next <= i THEN Missing ELSE find[next]
  IN IF Ch(s, start) # "{" THEN Missing ELSE find[start + 1]

(* The length is unsigned: that of a lone quote wraps and is too long.      *)
SpekeFlatGetMaxLen(n) == n \in 0 .. MaxLen

(* What the typed readers accept of the range found. *)
SpekeFlatGetStr(s, k) ==
  LET r == SpekeFlatFindKey(s, k) IN
  IF r = Missing \/ Ch(s, r[1]) # Q \/ r[2] < 2 \/ Ch(s, r[2] - 1) # Q
       \/ ~SpekeFlatGetMaxLen(r[2] - r[1] - 2)
  THEN Missing ELSE <<r[1] + 1, r[2] - 1>>

SpekeFlatGetObj(s, k) ==
  LET r == SpekeFlatFindKey(s, k) IN
  IF r = Missing \/ Ch(s, r[1]) # "{" \/ r[2] < 2 \/ Ch(s, r[2] - 1) # "}" THEN Missing ELSE r

SpekeFlatGetNum(s, k) ==
  LET r == SpekeFlatFindKey(s, k) IN
  IF r = Missing \/ r[2] <= r[1] \/ ~SpekeFlatGetMaxLen(r[2] - r[1])
       \/ \E i \in r[1] .. r[2] - 1: Ch(s, i) \notin Digits
  THEN Missing ELSE r

-----------------------------------------------------------------------------
(* A message arrives whole, cut short, or with one character lost.          *)

FlatInit ==
  /\ doc \in Docs
  /\ text \in {PrintDoc(doc)}
  /\ ok = FALSE /\ found = <<>>

Read(s) ==
  /\ text' = s /\ doc' = doc
  /\ ok' = SpekeFlatValidate(s)
  /\ found' = [k \in Keys |-> [str |-> SpekeFlatGetStr(s, k), obj |-> SpekeFlatGetObj(s, k),
                               num |-> SpekeFlatGetNum(s, k)]]

Cut(s, n) == SubSeq(s, 1, n)
Without(s, i) == SubSeq(s, 1, i - 1) \o SubSeq(s, i + 1, Len(s))

ReadWhole == found = <<>> /\ Read(text)
ReadCut == found = <<>> /\ \E s \in {Cut(text, n) : n \in 1 .. Len(text) - 1}: Read(s)
ReadDamaged == found = <<>> /\ \E s \in {Without(text, i) : i \in 1 .. Len(text)}: Read(s)

FlatNext == ReadWhole \/ ReadCut \/ ReadDamaged
FlatSpec == FlatInit /\ [][FlatNext]_flatVars

-----------------------------------------------------------------------------
(* The value a tree gives for k: that of the first member with the name.    *)
First(d, k) ==
  LET at == {i \in 1 .. Len(d.m): d.m[i][1] = k} IN
  IF at = {} THEN [t |-> "none"]
  ELSE d.m[CHOOSE i \in at: \A j \in at: i <= j][2]

Part(r) == SubSeq(text, r[1] + 1, r[2])

(* The scanner reads what a parser would.  (1) It accepts every printed     *)
(* message and finds, by type, exactly the first top-level member of each   *)
(* name that is not too long, never one nested deeper or inside a string.   *)
(* (2) It refuses a message that was cut anywhere.  (3) Whatever was lost,  *)
(* what it returns lies inside the text.  Wrong if an escaped quote ended a *)
(* string, a brace in a string counted, or a nested member were taken for   *)
(* its own.                                                                 *)
FlatSound ==
  LET printed == PrintDoc(doc) IN
  found # <<>> =>
    /\ text = printed =>
         /\ ok
         /\ \A k \in Keys:
              LET v == First(doc, k) IN
              /\ IF v.t = "str" /\ Len(v.s) <= MaxLen
                 THEN found[k].str # Missing /\ Part(found[k].str) = v.s
                 ELSE found[k].str = Missing
              /\ IF v.t = "obj" THEN found[k].obj # Missing /\ Part(found[k].obj) = PrintVal(v)
                 ELSE found[k].obj = Missing
              /\ IF v.t = "num" THEN found[k].num # Missing /\ Part(found[k].num) = <<v.d>>
                 ELSE found[k].num = Missing
    /\ (\E n \in 1 .. Len(printed) - 1: text = Cut(printed, n)) => ~ok
    /\ \A k \in Keys: \A r \in {found[k].str, found[k].obj, found[k].num}:
         r[1] <= r[2] /\ r[2] <= Len(text)

=============================================================================
