---------------------------- MODULE HashMapProofs ----------------------------
(***************************************************************************)
(* Proof that the hash map is sound for every set of keys and every number *)
(* of chains.  MapSound is not inductive: that a look-up finds what was    *)
(* inserted needs that a chain holds a key at most once and only keys of   *)
(* its index (Chained), and that a traversal misses nothing needs what it  *)
(* has still to visit (Walked).                                            *)
(***************************************************************************)
EXTENDS HashMap, FiniteSetTheorems, TLAPS

HmInv == HmTypeOK /\ Chained /\ Released /\ Walked /\ Counted

(* A sequence over a set has its elements there.                           *)
LEMMA SeqElement ==
  ASSUME NEW S, NEW s \in Seq(S)
  PROVE  Len(s) \in Nat /\ \A j \in 1 .. Len(s) : s[j] \in S
  OBVIOUS

(* A byte string's hash stays below the bits that Hash would fold back     *)
(* (utils_hash_map.c:63), so that branch of the code is never taken.       *)
THEOREM HashBelowFold == \A k \in Keys : Hash(k) \in Nat /\ Hash(k) < FoldMask
<1> SUFFICES ASSUME NEW k \in Keys PROVE Hash(k) \in Nat /\ Hash(k) < FoldMask
  OBVIOUS
<1>1. k \in Seq(0 .. 255)
  BY HashMapAssumption
<1>2. \A i \in 0 .. 3 : FromEnd(k, i) \in 0 .. 255
  <2>1. Len(k) \in Nat /\ \A j \in 1 .. Len(k) : k[j] \in 0 .. 255
    BY <1>1, SeqElement, Zenon
  <2> SUFFICES ASSUME NEW i \in 0 .. 3 PROVE FromEnd(k, i) \in 0 .. 255
    OBVIOUS
  <2>2. CASE Len(k) > i
    <3>1. Len(k) - i \in 1 .. Len(k)
      BY <2>1, <2>2
    <3>2. k[Len(k) - i] \in 0 .. 255
      BY <3>1, <2>1
    <3> QED BY <3>2, <2>2 DEF FromEnd
  <2>3. CASE ~(Len(k) > i)
    BY <2>3 DEF FromEnd
  <2> QED BY <2>2, <2>3
<1>3. /\ FromEnd(k, 0) \in 0 .. 255 /\ FromEnd(k, 1) \in 0 .. 255
      /\ FromEnd(k, 2) \in 0 .. 255 /\ FromEnd(k, 3) \in 0 .. 255
  BY <1>2
<1> DEFINE a == FromEnd(k, 0)  b == FromEnd(k, 1)  c == FromEnd(k, 2)  d == FromEnd(k, 3)
<1>4. Hash(k) = a + 16 * b + 256 * c + 4096 * d
  BY SMT DEF Hash
<1> HIDE DEF a, b, c, d
<1>5. a \in 0 .. 255 /\ b \in 0 .. 255 /\ c \in 0 .. 255 /\ d \in 0 .. 255
  BY <1>3, SMT DEF a, b, c, d
<1> QED BY <1>4, <1>5, SMT DEF FoldMask

(* The index of a key is the number of a chain.                            *)
LEMMA IndexType == \A k \in Keys : Index(k) \in Buckets
<1> SUFFICES ASSUME NEW k \in Keys PROVE Index(k) \in Buckets
  OBVIOUS
<1>1. Hash(k) \in Nat
  BY HashBelowFold
<1> QED BY <1>1, HashMapAssumption DEF Index, Buckets

(* Removing a node from a chain moves those behind it up by one.           *)
LEMMA UnlinkChain ==
  ASSUME NEW c \in Seq(Node), NEW i \in 1 .. Len(c)
  PROVE  /\ Unlink(c, i) \in Seq(Node)
         /\ Len(Unlink(c, i)) = Len(c) - 1
         /\ \A j \in 1 .. Len(c) - 1 : Unlink(c, i)[j] = IF j < i THEN c[j] ELSE c[j + 1]
<1>1. Len(c) \in Nat /\ \A j \in 1 .. Len(c) : c[j] \in Node
  BY SeqElement
<1>2. \A j \in 1 .. Len(c) - 1 : (IF j < i THEN c[j] ELSE c[j + 1]) \in Node
  BY <1>1
<1>3. Len(c) - 1 \in Nat
  BY <1>1
<1>4. Unlink(c, i) \in [1 .. Len(c) - 1 -> Node]
  BY <1>2 DEF Unlink
<1>5. Unlink(c, i) \in Seq(Node) /\ Len(Unlink(c, i)) = Len(c) - 1
  BY <1>3, <1>4
<1> QED BY <1>5 DEF Unlink

(* Where keys are distinct, the first match is the only one.               *)
LEMMA FirstMatch ==
  ASSUME NEW c \in Seq(Node), NEW k \in Keys, Match(c, k) # {},
         \A i, j \in 1 .. Len(c) : c[i].key = c[j].key => i = j
  PROVE  First(c, k) \in 1 .. Len(c) /\ c[First(c, k)].key = k
<1>1. PICK i \in Match(c, k) : TRUE
  OBVIOUS
<1>2. \A j \in Match(c, k) : j = i
  BY <1>1 DEF Match
<1>3. i \in Nat
  BY <1>1 DEF Match
<1>4. \E n \in Match(c, k) : \A j \in Match(c, k) : n <= j
  BY <1>1, <1>2, <1>3
<1>5. First(c, k) \in Match(c, k)
  BY <1>4 DEF First
<1> QED BY <1>5 DEF Match

(* The nodes of a chain have keys.                                         *)
LEMMA ChainKeys ==
  HmTypeOK => \A d \in Buckets : \A n \in 1 .. Len(arr[d]) : arr[d][n].key \in Keys
<1> SUFFICES ASSUME HmTypeOK, NEW d \in Buckets, NEW n \in 1 .. Len(arr[d])
             PROVE  arr[d][n].key \in Keys
  OBVIOUS
<1>1. arr[d] \in Seq(Node)
  BY DEF HmTypeOK
<1>2. arr[d][n] \in Node
  BY <1>1, SeqElement
<1> QED BY <1>2 DEF Node

(* The empty map.                                                          *)
LEMMA InitHmInv == HmInit => HmInv
<1> SUFFICES ASSUME HmInit PROVE HmInv
  OBVIOUS
<1> USE DEF HmInit
<1>1. HmTypeOK
  <2>1. arr \in [Buckets -> Seq(Node)]
    OBVIOUS
  <2>2. held \in [Keys -> 0 .. nextv] /\ nextv \in Nat
    OBVIOUS
  <2>3. on \in BOOLEAN
    OBVIOUS
  <2>4. wb \in 0 .. BucketSize
    BY HashMapAssumption
  <2> QED BY <2>1, <2>2, <2>3, <2>4 DEF HmTypeOK
<1>2. \A b \in Buckets : Len(arr[b]) = 0
  OBVIOUS
<1>3. Chained
  BY <1>2 DEF Chained
<1>4. Released
  BY DEF Released
<1>5. Live = {}
  BY DEF Live
<1>6. Counted
  BY <1>5, FS_EmptySet DEF Counted
<1> QED BY <1>1, <1>3, <1>4, <1>6 DEF HmInv, Walked

(* Inserting keeps the map sound: a key that is there keeps its node, any  *)
(* other adds one to its chain and to the counter.                         *)
LEMMA InsertHmInv == HmInv /\ UtilsHashMapInsert => HmInv'
<1> SUFFICES ASSUME HmInv, UtilsHashMapInsert PROVE HmInv'
  OBVIOUS
<1> USE DEF HmInv
<1>1. PICK key \in Keys : Insert(key, nextv + 1) /\ held' = [held EXCEPT ![key] = nextv + 1]
  BY DEF UtilsHashMapInsert
<1>2. nextv' = nextv + 1 /\ ~on /\ UNCHANGED <<on, wb, wp, seen, start>>
  BY DEF UtilsHashMapInsert, walkVars
<1> DEFINE b == Index(key)
           c == arr[b]
           i == First(c, key)
           node == CreateNode(key, nextv + 1)
<1>3. b \in Buckets
  BY IndexType
<1>4. c \in Seq(Node) /\ Len(c) \in Nat
  BY <1>3 DEF HmTypeOK
<1>5. nextv \in Nat /\ node \in Node
  BY DEF HmTypeOK, CreateNode, Node
<1>6. \A m, n \in 1 .. Len(c) : c[m].key = c[n].key => m = n
  BY <1>3 DEF Chained
<1>7. Walked'
  BY <1>2 DEF Walked
<1>8. held' \in [Keys -> 0 .. nextv']
  BY <1>1, <1>2, <1>5 DEF HmTypeOK
<1>9. held'[key] = nextv + 1 /\ \A k \in Keys \ {key} : held'[k] = held[k]
  BY <1>1 DEF HmTypeOK
<1>10. CASE Match(c, key) # {}
  <2>1. i \in 1 .. Len(c) /\ c[i].key = key
    BY <1>4, <1>6, <1>10, FirstMatch
  <2>2. /\ arr' = [arr EXCEPT ![b] = [c EXCEPT ![i] = node]]
        /\ freed' = freed \cup {c[i].val} /\ size' = size
    BY <1>1, <1>10 DEF Insert
  <2>3. held[key] = c[i].val /\ held[key] # 0
    BY <2>1, <1>3 DEF Chained
  <2>4. [c EXCEPT ![i] = node] \in Seq(Node) /\ Len([c EXCEPT ![i] = node]) = Len(c)
    BY <1>4, <1>5, <2>1
  <2>5. arr' \in [Buckets -> Seq(Node)]
    BY <2>2, <2>4 DEF HmTypeOK
  <2>6. HmTypeOK'
    BY <1>2, <1>5, <1>8, <2>2, <2>3, <2>5 DEF HmTypeOK
  <2>7. \A d \in Buckets : Len(arr'[d]) = Len(arr[d])
    BY <2>2, <2>4 DEF HmTypeOK
  <2>8. \A d \in Buckets : \A n \in 1 .. Len(arr[d]) :
          arr'[d][n] = IF d = b /\ n = i THEN node ELSE arr[d][n]
    BY <1>4, <2>1, <2>2 DEF HmTypeOK
  <2>9. \A d \in Buckets : \A n \in 1 .. Len(arr[d]) : arr'[d][n].key = arr[d][n].key
    BY <2>1, <2>8 DEF CreateNode
  <2>10. \A d \in Buckets : \A n \in 1 .. Len(arr[d]) : arr[d][n].key \in Keys
    BY ChainKeys
  <2>11. \A d \in Buckets : \A n \in 1 .. Len(arr[d]) :
           arr[d][n].key = key => d = b /\ n = i
    BY <1>6, <2>1 DEF Chained
  <2>12. Chained'
    <3>1. ASSUME NEW d \in Buckets, NEW n \in 1 .. Len(arr'[d])
          PROVE  /\ Index(arr'[d][n].key) = d
                 /\ arr'[d][n].val = held'[arr'[d][n].key]
                 /\ arr'[d][n].val # 0
      <4>1. n \in 1 .. Len(arr[d])
        BY <3>1, <2>7
      <4>2. CASE d = b /\ n = i
        <5>1. arr'[d][n] = node
          BY <2>8, <4>1, <4>2
        <5> QED BY <5>1, <4>2, <1>9, <1>5 DEF CreateNode
      <4>3. CASE ~(d = b /\ n = i)
        <5>1. arr'[d][n] = arr[d][n]
          BY <2>8, <4>1, <4>3
        <5>2. arr[d][n].key \in Keys \ {key}
          BY <2>10, <2>11, <4>1, <4>3
        <5> QED BY <5>1, <5>2, <4>1, <1>9 DEF Chained
      <4> QED BY <4>2, <4>3
    <3>2. ASSUME NEW d \in Buckets, NEW m \in 1 .. Len(arr'[d]), NEW n \in 1 .. Len(arr'[d]),
                 arr'[d][m].key = arr'[d][n].key
          PROVE  m = n
      BY <3>2, <2>7, <2>9 DEF Chained
    <3>3. ASSUME NEW k \in Keys, held'[k] # 0
          PROVE  \E n \in 1 .. Len(arr'[Index(k)]) : arr'[Index(k)][n].key = k
      <4>1. held[k] # 0
        BY <1>9, <2>3, <3>3
      <4>2. Index(k) \in Buckets
        BY IndexType
      <4>3. PICK n \in 1 .. Len(arr[Index(k)]) : arr[Index(k)][n].key = k
        BY <4>1 DEF Chained
      <4> QED BY <4>2, <4>3, <2>7, <2>9
    <3> QED BY <3>1, <3>2, <3>3 DEF Chained
  <2>13. Released'
    <3>1. \A k \in Keys : held[k] \in 0 .. nextv
      BY DEF HmTypeOK
    <3>2. nextv + 1 \notin freed /\ \A k \in Keys : held[k] # nextv + 1
      BY <1>5, <3>1 DEF HmTypeOK
    <3>3. \A k \in Keys \ {key} : held[k] # held[key]
      BY <2>3 DEF Released
    <3>4. \A k \in Keys : held'[k] \notin freed'
      BY <1>9, <2>2, <2>3, <3>2, <3>3, <1>5 DEF Released
    <3>5. \A k, l \in Keys : held'[k] = held'[l] /\ held'[k] # 0 => k = l
      BY <1>9, <3>2 DEF Released
    <3>6. \A v \in 1 .. nextv' : v \in freed' \/ \E k \in Keys : held'[k] = v
      <4> SUFFICES ASSUME NEW v \in 1 .. nextv' PROVE v \in freed' \/ \E k \in Keys : held'[k] = v
        OBVIOUS
      <4>1. CASE v = nextv + 1
        BY <4>1, <1>9
      <4>2. CASE v \in 1 .. nextv
        BY <4>2, <1>9, <2>2, <2>3 DEF Released
      <4> QED BY <4>1, <4>2, <1>2, <1>5
    <3> QED BY <3>4, <3>5, <3>6 DEF Released
  <2>14. Live' = Live
    BY <1>5, <1>9, <2>3 DEF Live
  <2>15. Counted'
    BY <2>2, <2>14 DEF Counted
  <2> QED BY <1>7, <2>6, <2>12, <2>13, <2>15
<1>11. CASE Match(c, key) = {}
  <2>1. /\ arr' = [arr EXCEPT ![b] = Append(c, node)]
        /\ freed' = freed /\ size' = size + 1
    BY <1>1, <1>11 DEF Insert
  <2>2. \A n \in 1 .. Len(c) : c[n].key # key
    BY <1>11 DEF Match
  <2>3. held[key] = 0
    BY <2>2 DEF Chained
  <2>4. /\ Append(c, node) \in Seq(Node) /\ Len(Append(c, node)) = Len(c) + 1
        /\ Append(c, node)[Len(c) + 1] = node
        /\ \A n \in 1 .. Len(c) : Append(c, node)[n] = c[n]
    BY <1>4, <1>5
  <2>5. arr' \in [Buckets -> Seq(Node)]
    BY <2>1, <2>4 DEF HmTypeOK
  <2>6. HmTypeOK'
    BY <1>2, <1>5, <1>8, <2>1, <2>5 DEF HmTypeOK
  <2>7. arr'[b] = Append(c, node) /\ \A d \in Buckets \ {b} : arr'[d] = arr[d]
    BY <2>1, <1>3 DEF HmTypeOK
  <2>8. \A d \in Buckets : \A n \in 1 .. Len(arr[d]) : arr[d][n].key \in Keys
    BY ChainKeys
  <2>9. \A d \in Buckets : \A n \in 1 .. Len(arr[d]) :
          arr[d][n].key # key /\ n \in 1 .. Len(arr'[d]) /\ arr'[d][n] = arr[d][n]
    BY <1>4, <2>2, <2>4, <2>7 DEF Chained
  <2>10. \A d \in Buckets : \A n \in 1 .. Len(arr'[d]) :
           n \in 1 .. Len(arr[d]) \/ (d = b /\ n = Len(c) + 1)
    BY <1>4, <2>4, <2>7
  <2>11. arr'[b][Len(c) + 1] = node
    BY <2>4, <2>7
  <2>12. Chained'
    <3>1. ASSUME NEW d \in Buckets, NEW n \in 1 .. Len(arr'[d])
          PROVE  /\ Index(arr'[d][n].key) = d
                 /\ arr'[d][n].val = held'[arr'[d][n].key]
                 /\ arr'[d][n].val # 0
      <4>1. CASE n \in 1 .. Len(arr[d])
        BY <4>1, <2>8, <2>9, <1>9 DEF Chained
      <4>2. CASE d = b /\ n = Len(c) + 1
        BY <4>2, <2>11, <1>5, <1>9 DEF CreateNode
      <4> QED BY <4>1, <4>2, <2>10
    <3>2. ASSUME NEW d \in Buckets, NEW m \in 1 .. Len(arr'[d]), NEW n \in 1 .. Len(arr'[d]),
                 arr'[d][m].key = arr'[d][n].key
          PROVE  m = n
      <4>1. node.key = key
        BY DEF CreateNode
      <4>2. CASE m \in 1 .. Len(arr[d]) /\ n \in 1 .. Len(arr[d])
        BY <4>2, <3>2, <2>9 DEF Chained
      <4>3. CASE m \in 1 .. Len(arr[d]) /\ d = b /\ n = Len(c) + 1
        BY <4>1, <4>3, <3>2, <2>9, <2>11
      <4>4. CASE n \in 1 .. Len(arr[d]) /\ d = b /\ m = Len(c) + 1
        BY <4>1, <4>4, <3>2, <2>9, <2>11
      <4> QED BY <4>2, <4>3, <4>4, <2>10
    <3>3. ASSUME NEW k \in Keys, held'[k] # 0
          PROVE  \E n \in 1 .. Len(arr'[Index(k)]) : arr'[Index(k)][n].key = k
      <4>1. CASE k = key
        <5>1. Len(c) + 1 \in 1 .. Len(arr'[b])
          BY <1>4, <2>4, <2>7
        <5> QED BY <4>1, <5>1, <2>11 DEF CreateNode
      <4>2. CASE k # key
        <5>1. held[k] # 0 /\ Index(k) \in Buckets
          BY <1>9, <3>3, <4>2, IndexType
        <5>2. PICK n \in 1 .. Len(arr[Index(k)]) : arr[Index(k)][n].key = k
          BY <5>1 DEF Chained
        <5> QED BY <5>1, <5>2, <2>9
      <4> QED BY <4>1, <4>2
    <3> QED BY <3>1, <3>2, <3>3 DEF Chained
  <2>13. Released'
    <3>1. \A k \in Keys : held[k] \in 0 .. nextv
      BY DEF HmTypeOK
    <3>2. nextv + 1 \notin freed /\ \A k \in Keys : held[k] # nextv + 1
      BY <1>5, <3>1 DEF HmTypeOK
    <3>4. \A k \in Keys : held'[k] \notin freed'
      BY <1>9, <2>1, <3>2 DEF Released
    <3>5. \A k, l \in Keys : held'[k] = held'[l] /\ held'[k] # 0 => k = l
      BY <1>9, <3>2 DEF Released
    <3>6. \A v \in 1 .. nextv' : v \in freed' \/ \E k \in Keys : held'[k] = v
      <4> SUFFICES ASSUME NEW v \in 1 .. nextv' PROVE v \in freed' \/ \E k \in Keys : held'[k] = v
        OBVIOUS
      <4>1. CASE v = nextv + 1
        BY <4>1, <1>9
      <4>2. CASE v \in 1 .. nextv
        <5>1. v # 0
          BY <4>2
        <5> QED BY <4>2, <5>1, <1>9, <2>1, <2>3 DEF Released
      <4> QED BY <4>1, <4>2, <1>2, <1>5
    <3> QED BY <3>4, <3>5, <3>6 DEF Released
  <2>14. Live' = Live \cup {key} /\ key \notin Live
    BY <1>5, <1>9, <2>3 DEF Live
  <2>15. Counted'
    BY <2>1, <2>14, FS_AddElement DEF Counted
  <2> QED BY <1>7, <2>6, <2>12, <2>13, <2>15
<1> QED BY <1>10, <1>11

MapTypeOK ==
  /\ arr \in [Buckets -> Seq(Node)] /\ size \in Nat
  /\ nextv \in Nat /\ freed \subseteq 1 .. nextv
  /\ held \in [Keys -> 0 .. nextv]

(* Removing a key takes its one node out of its chain, releases the value  *)
(* and leaves every other node and value alone.                            *)
LEMMA RemoveMap ==
  ASSUME HmInv, NEW key \in Keys, Remove(key)
  PROVE  MapTypeOK' /\ Chained' /\ Released' /\ Counted'
<1> USE DEF HmInv
<1> DEFINE b == Index(key)
           c == arr[b]
           i == First(c, key)
<1>1. b \in Buckets
  BY IndexType
<1>2. c \in Seq(Node) /\ Len(c) \in Nat
  BY <1>1 DEF HmTypeOK
<1>3. \A m, n \in 1 .. Len(c) : c[m].key = c[n].key => m = n
  BY <1>1 DEF Chained
<1>4. /\ Match(c, key) # {}
      /\ arr' = [arr EXCEPT ![b] = Unlink(c, i)] /\ freed' = freed \cup {c[i].val}
      /\ size' = size - 1 /\ held' = [held EXCEPT ![key] = 0] /\ nextv' = nextv
  BY DEF Remove
<1>5. i \in 1 .. Len(c) /\ c[i].key = key
  BY <1>2, <1>3, <1>4, FirstMatch
<1>6. held[key] = c[i].val /\ held[key] # 0
  BY <1>1, <1>5 DEF Chained
<1>7. /\ Unlink(c, i) \in Seq(Node) /\ Len(Unlink(c, i)) = Len(c) - 1
      /\ \A j \in 1 .. Len(c) - 1 : Unlink(c, i)[j] = IF j < i THEN c[j] ELSE c[j + 1]
  BY <1>2, <1>5, UnlinkChain
<1>8. held'[key] = 0 /\ \A k \in Keys \ {key} : held'[k] = held[k]
  BY <1>4 DEF HmTypeOK
<1>9. Live' = Live \ {key} /\ key \in Live
  BY <1>6, <1>8 DEF Live
<1>10. Counted'
  BY <1>4, <1>9, FS_RemoveElement DEF Counted
<1>11. MapTypeOK'
  <2>1. arr' \in [Buckets -> Seq(Node)]
    BY <1>4, <1>7 DEF HmTypeOK
  <2>2. held' \in [Keys -> 0 .. nextv']
    BY <1>4 DEF HmTypeOK
  <2>3. held[key] \in 1 .. nextv
    BY <1>6 DEF HmTypeOK
  <2>4. size' \in Nat
    BY <1>10, FS_CardinalityType DEF Counted
  <2> QED BY <1>4, <1>6, <2>1, <2>2, <2>3, <2>4 DEF HmTypeOK, MapTypeOK
<1>12. arr'[b] = Unlink(c, i) /\ \A d \in Buckets \ {b} : arr'[d] = arr[d]
  BY <1>1, <1>4 DEF HmTypeOK
<1> DEFINE Old(d, n) == IF d = b /\ n >= i THEN n + 1 ELSE n
<1>13. \A d \in Buckets : \A n \in 1 .. Len(arr'[d]) :
         /\ Old(d, n) \in 1 .. Len(arr[d]) /\ arr'[d][n] = arr[d][Old(d, n)]
         /\ ~(d = b /\ Old(d, n) = i)
  BY <1>2, <1>5, <1>7, <1>12
<1>14. \A d \in Buckets : \A n \in 1 .. Len(arr[d]) : arr[d][n].key \in Keys
  BY ChainKeys
<1>15. \A d \in Buckets : \A n \in 1 .. Len(arr'[d]) : arr'[d][n].key \in Keys \ {key}
  <2> SUFFICES ASSUME NEW d \in Buckets, NEW n \in 1 .. Len(arr'[d])
               PROVE  arr[d][Old(d, n)].key \in Keys \ {key}
    BY <1>13
  <2>1. Old(d, n) \in 1 .. Len(arr[d]) /\ ~(d = b /\ Old(d, n) = i)
    BY <1>13
  <2> HIDE DEF Old
  <2>2. arr[d][Old(d, n)].key = key => d = b
    BY <2>1 DEF Chained
  <2>3. arr[d][Old(d, n)].key # key
    BY <2>1, <2>2, <1>3, <1>5
  <2> QED BY <1>14, <2>1, <2>3
<1>16. Chained'
  <2>1. ASSUME NEW d \in Buckets, NEW n \in 1 .. Len(arr'[d])
        PROVE  /\ Index(arr'[d][n].key) = d
               /\ arr'[d][n].val = held'[arr'[d][n].key]
               /\ arr'[d][n].val # 0
    <3>1. Old(d, n) \in 1 .. Len(arr[d]) /\ arr'[d][n] = arr[d][Old(d, n)]
      BY <1>13
    <3>2. arr'[d][n].key \in Keys \ {key}
      BY <1>15
    <3> HIDE DEF Old
    <3> QED BY <3>1, <3>2, <1>8 DEF Chained
  <2>2. ASSUME NEW d \in Buckets, NEW m \in 1 .. Len(arr'[d]), NEW n \in 1 .. Len(arr'[d]),
               arr'[d][m].key = arr'[d][n].key
        PROVE  m = n
    <3>1. /\ Old(d, m) \in 1 .. Len(arr[d]) /\ arr'[d][m] = arr[d][Old(d, m)]
          /\ Old(d, n) \in 1 .. Len(arr[d]) /\ arr'[d][n] = arr[d][Old(d, n)]
      BY <1>13
    <3>2. Old(d, m) = Old(d, n)
      <4> HIDE DEF Old
      <4> QED BY <2>2, <3>1 DEF Chained
    <3>3. m \in Nat /\ n \in Nat /\ i \in Nat
      BY <1>5
    <3> QED BY <3>2, <3>3
  <2>3. ASSUME NEW k \in Keys, held'[k] # 0
        PROVE  \E n \in 1 .. Len(arr'[Index(k)]) : arr'[Index(k)][n].key = k
    <3>1. k # key /\ held[k] # 0 /\ Index(k) \in Buckets
      BY <1>8, <2>3, IndexType
    <3>2. PICK n \in 1 .. Len(arr[Index(k)]) : arr[Index(k)][n].key = k
      BY <3>1 DEF Chained
    <3>3. CASE Index(k) # b
      BY <3>1, <3>2, <3>3, <1>12
    <3>4. CASE Index(k) = b
      <4>1. n # i
        BY <3>1, <3>2, <3>4, <1>5
      <4>2. n \in 1 .. Len(c)
        BY <3>2, <3>4
      <4>3. CASE n < i
        <5>1. n \in 1 .. Len(c) - 1 /\ Unlink(c, i)[n] = c[n]
          BY <4>2, <4>3, <1>2, <1>5, <1>7
        <5> QED BY <5>1, <3>2, <3>4, <1>7, <1>12
      <4>4. CASE n > i
        <5>1. n - 1 \in 1 .. Len(c) - 1 /\ Unlink(c, i)[n - 1] = c[n]
          BY <4>2, <4>4, <1>2, <1>5, <1>7
        <5> QED BY <5>1, <3>2, <3>4, <1>7, <1>12
      <4> QED BY <4>1, <4>2, <4>3, <4>4, <1>5
    <3> QED BY <3>3, <3>4
  <2> QED BY <2>1, <2>2, <2>3 DEF Chained
<1>17. Released'
  <2>1. \A k \in Keys \ {key} : held[k] # held[key]
    BY <1>6 DEF Released
  <2>2. 0 \notin freed'
    BY <1>11 DEF MapTypeOK
  <2>3. \A k \in Keys : held'[k] \notin freed'
    BY <1>4, <1>6, <1>8, <2>1, <2>2 DEF Released
  <2>4. \A k, l \in Keys : held'[k] = held'[l] /\ held'[k] # 0 => k = l
    BY <1>8 DEF Released
  <2>5. \A v \in 1 .. nextv' : v \in freed' \/ \E k \in Keys : held'[k] = v
    BY <1>4, <1>6, <1>8 DEF Released
  <2> QED BY <2>3, <2>4, <2>5 DEF Released
<1> QED BY <1>10, <1>11, <1>16, <1>17

(* Removal outside a traversal.                                            *)
LEMMA RemoveHmInv == HmInv /\ UtilsHashMapRemove => HmInv'
<1> SUFFICES ASSUME HmInv, UtilsHashMapRemove PROVE HmInv'
  OBVIOUS
<1>1. PICK key \in Keys : Remove(key)
  BY DEF UtilsHashMapRemove
<1>2. ~on /\ UNCHANGED <<on, wb, wp, seen, start>>
  BY DEF UtilsHashMapRemove, walkVars
<1>3. MapTypeOK' /\ Chained' /\ Released' /\ Counted'
  BY <1>1, RemoveMap
<1>4. HmTypeOK'
  BY <1>2, <1>3 DEF HmInv, HmTypeOK, MapTypeOK
<1> QED BY <1>2, <1>3, <1>4 DEF HmInv, Walked

(* Emptying the map releases every value it held.                          *)
LEMMA DeleteHmInv == HmInv /\ UtilsHashMapDelete => HmInv'
<1> SUFFICES ASSUME HmInv, UtilsHashMapDelete PROVE HmInv'
  OBVIOUS
<1> USE DEF HmInv
<1> DEFINE there == {v \in 1 .. nextv : \E b \in Buckets : \E i \in 1 .. Len(arr[b]) : arr[b][i].val = v}
<1>1. /\ ~on /\ arr' = [b \in Buckets |-> <<>>] /\ freed' = freed \cup there
      /\ size' = 0 /\ held' = [k \in Keys |-> 0] /\ nextv' = nextv
      /\ UNCHANGED <<on, wb, wp, seen, start>>
  BY DEF UtilsHashMapDelete, walkVars
<1>2. HmTypeOK'
  <2>1. arr' \in [Buckets -> Seq(Node)] /\ held' \in [Keys -> 0 .. nextv']
    BY <1>1 DEF HmTypeOK
  <2> QED BY <1>1, <2>1 DEF HmTypeOK
<1>3. \A b \in Buckets : Len(arr'[b]) = 0
  BY <1>1
<1>4. \A k \in Keys : held'[k] = 0
  BY <1>1
<1>5. Chained'
  BY <1>3, <1>4 DEF Chained
<1>6. Released'
  <2>1. \A v \in 1 .. nextv : v \notin freed => v \in there
    <3> SUFFICES ASSUME NEW v \in 1 .. nextv, v \notin freed PROVE v \in there
      OBVIOUS
    <3>1. PICK k \in Keys : held[k] = v
      BY DEF Released
    <3>2. Index(k) \in Buckets /\ held[k] # 0
      BY <3>1, IndexType
    <3>3. PICK i \in 1 .. Len(arr[Index(k)]) : arr[Index(k)][i].key = k
      BY <3>2 DEF Chained
    <3>4. arr[Index(k)][i].val = v
      BY <3>1, <3>2, <3>3 DEF Chained
    <3> QED BY <3>2, <3>4
  <2>2. 0 \notin freed'
    BY <1>2 DEF HmTypeOK
  <2> HIDE DEF there
  <2> QED BY <1>1, <1>4, <2>1, <2>2 DEF Released
<1>7. Live' = {}
  BY <1>4 DEF Live
<1>8. Counted'
  BY <1>1, <1>7, FS_EmptySet DEF Counted
<1> QED BY <1>1, <1>2, <1>5, <1>6, <1>8 DEF Walked

(* At its begin a traversal has everything still to visit.                 *)
LEMMA BeginHmInv == HmInv /\ IterateBegin => HmInv'
<1> SUFFICES ASSUME HmInv, IterateBegin PROVE HmInv'
  OBVIOUS
<1> USE DEF HmInv
<1>1. /\ on' = TRUE /\ wb' = 0 /\ wp' = 1 /\ seen' = {} /\ start' = Live
      /\ UNCHANGED <<arr, size, freed, held, nextv>>
  BY DEF IterateBegin, mapVars
<1>2. Live \subseteq Keys /\ Live' = Live
  BY <1>1 DEF Live
<1>3. HmTypeOK'
  BY <1>1, <1>2, HashMapAssumption DEF HmTypeOK
<1>4. Chained' /\ Released' /\ Counted'
  BY <1>1, <1>2 DEF Chained, Released, Counted
<1>5. Todo' = {k \in Keys : \E b \in Buckets : \E i \in 1 .. Len(arr[b]) : arr[b][i].key = k}
  BY <1>1 DEF Todo, Buckets
<1>6. ASSUME NEW k \in Keys
      PROVE  k \in Live <=> \E b \in Buckets : \E i \in 1 .. Len(arr[b]) : arr[b][i].key = k
  <2>1. ASSUME k \in Live PROVE \E b \in Buckets : \E i \in 1 .. Len(arr[b]) : arr[b][i].key = k
    BY <2>1, IndexType DEF Live, Chained
  <2>2. ASSUME NEW b \in Buckets, NEW i \in 1 .. Len(arr[b]), arr[b][i].key = k PROVE k \in Live
    BY <2>2 DEF Live, Chained
  <2> QED BY <2>1, <2>2
<1>7. Todo' = Live
  BY <1>2, <1>5, <1>6
<1>8. Walked'
  BY <1>1, <1>7 DEF Walked
<1> QED BY <1>3, <1>4, <1>8

(* The callback of one node moves its key from what is still to visit to   *)
(* what was visited, whether or not it removes the node.                   *)
LEMMA NodeHmInv == HmInv /\ IterateNode => HmInv'
<1> SUFFICES ASSUME HmInv, IterateNode PROVE HmInv'
  OBVIOUS
<1> USE DEF HmInv
<1> DEFINE c == arr[wb]
           key == c[wp].key
<1>1. /\ on /\ wb \in Buckets /\ wp \in 1 .. Len(c)
      /\ seen' = seen \cup {key} /\ UNCHANGED <<on, wb, start>>
  BY HashMapAssumption DEF IterateNode, Buckets, HmTypeOK
<1>2. key \in Keys /\ Index(key) = wb
  BY <1>1, ChainKeys DEF Chained
<1>3. c \in Seq(Node) /\ Len(c) \in Nat
  BY <1>1 DEF HmTypeOK
<1>4. \A m, n \in 1 .. Len(c) : c[m].key = c[n].key => m = n
  BY <1>1 DEF Chained
<1>5. key \in Todo
  BY <1>1, <1>2 DEF Todo, Buckets
<1>6. \A d \in Buckets : \A n \in 1 .. Len(arr[d]) : arr[d][n].key = key => d = wb /\ n = wp
  BY <1>1, <1>2, <1>4 DEF Chained
<1>7. ASSUME Todo' = Todo \ {key} PROVE Walked'
  BY <1>1, <1>5, <1>7 DEF Walked
<1>8. seen' \subseteq Keys
  BY <1>1, <1>2 DEF HmTypeOK
<1>9. CASE Remove(key) /\ wp' = wp
  <2>1. MapTypeOK' /\ Chained' /\ Released' /\ Counted'
    BY <1>2, <1>9, RemoveMap
  <2>2. HmTypeOK'
    BY <1>1, <1>8, <1>9, <2>1 DEF HmTypeOK, MapTypeOK
  <2>3. Match(c, key) # {} /\ arr' = [arr EXCEPT ![wb] = Unlink(c, First(c, key))]
    BY <1>2, <1>9 DEF Remove
  <2>4. First(c, key) = wp
    <3>1. First(c, key) \in 1 .. Len(c) /\ c[First(c, key)].key = key
      BY <1>2, <1>3, <1>4, <2>3, FirstMatch
    <3> QED BY <3>1, <1>1, <1>4
  <2>5. /\ Len(Unlink(c, wp)) = Len(c) - 1
        /\ \A j \in 1 .. Len(c) - 1 : Unlink(c, wp)[j] = IF j < wp THEN c[j] ELSE c[j + 1]
    BY <1>1, <1>3, UnlinkChain
  <2>6. arr'[wb] = Unlink(c, wp) /\ \A d \in Buckets \ {wb} : arr'[d] = arr[d]
    BY <1>1, <2>3, <2>4 DEF HmTypeOK
  <2>7. ASSUME NEW k \in Todo' PROVE k \in Todo \ {key}
    <3>1. PICK d \in Buckets : d >= wb /\ \E n \in 1 .. Len(arr'[d]) : (d = wb => n >= wp) /\ arr'[d][n].key = k
      BY <1>1, <1>9, <2>7 DEF Todo
    <3>2. PICK n \in 1 .. Len(arr'[d]) : (d = wb => n >= wp) /\ arr'[d][n].key = k
      BY <3>1
    <3>3. k \in Keys
      BY <2>7 DEF Todo
    <3>4. CASE d = wb
      <4>1. n + 1 \in 1 .. Len(c) /\ n + 1 > wp /\ c[n + 1].key = k
        BY <1>1, <1>3, <2>5, <2>6, <3>2, <3>4
      <4>2. k # key
        BY <1>1, <1>4, <4>1
      <4>3. k \in Todo
        BY <1>1, <3>3, <4>1 DEF Todo, Buckets
      <4> QED BY <4>2, <4>3
    <3>5. CASE d # wb
      <4>1. n \in 1 .. Len(arr[d]) /\ arr[d][n].key = k
        BY <2>6, <3>2, <3>5
      <4> QED BY <1>6, <3>1, <3>3, <3>5, <4>1 DEF Todo
    <3> QED BY <3>4, <3>5
  <2>8. ASSUME NEW k \in Todo, k # key PROVE k \in Todo'
    <3>1. PICK d \in Buckets : d >= wb /\ \E n \in 1 .. Len(arr[d]) : (d = wb => n >= wp) /\ arr[d][n].key = k
      BY <2>8 DEF Todo
    <3>2. PICK n \in 1 .. Len(arr[d]) : (d = wb => n >= wp) /\ arr[d][n].key = k
      BY <3>1
    <3>3. k \in Keys
      BY <2>8 DEF Todo
    <3>4. CASE d = wb
      <4>1. n > wp
        BY <1>1, <2>8, <3>2, <3>4
      <4>2. n - 1 \in 1 .. Len(arr'[wb]) /\ n - 1 >= wp /\ arr'[wb][n - 1].key = k
        BY <1>1, <1>3, <2>5, <2>6, <3>2, <3>4, <4>1
      <4> QED BY <1>1, <1>9, <3>3, <4>2 DEF Todo, Buckets
    <3>5. CASE d # wb
      BY <1>1, <1>9, <2>6, <3>1, <3>2, <3>3, <3>5 DEF Todo
    <3> QED BY <3>4, <3>5
  <2>9. Todo' = Todo \ {key}
    BY <2>7, <2>8
  <2> QED BY <1>7, <2>1, <2>2, <2>9
<1>10. CASE UNCHANGED mapVars /\ wp' = wp + 1
  <2>1. arr' = arr /\ size' = size /\ freed' = freed /\ held' = held /\ nextv' = nextv
    BY <1>10 DEF mapVars
  <2>2. HmTypeOK'
    BY <1>1, <1>8, <1>10, <2>1 DEF HmTypeOK
  <2>3. Chained' /\ Released' /\ Counted'
    BY <2>1 DEF Chained, Released, Counted, Live
  <2>4. ASSUME NEW k \in Todo' PROVE k \in Todo \ {key}
    <3>1. PICK d \in Buckets : d >= wb /\ \E n \in 1 .. Len(arr[d]) : (d = wb => n >= wp + 1) /\ arr[d][n].key = k
      BY <1>1, <1>10, <2>1, <2>4 DEF Todo
    <3>2. PICK n \in 1 .. Len(arr[d]) : (d = wb => n >= wp + 1) /\ arr[d][n].key = k
      BY <3>1
    <3>3. k \in Keys
      BY <2>4 DEF Todo
    <3>4. d = wb => n >= wp /\ n # wp
      BY <1>1, <3>2
    <3> QED BY <1>6, <3>1, <3>2, <3>3, <3>4 DEF Todo
  <2>5. ASSUME NEW k \in Todo, k # key PROVE k \in Todo'
    <3>1. PICK d \in Buckets : d >= wb /\ \E n \in 1 .. Len(arr[d]) : (d = wb => n >= wp) /\ arr[d][n].key = k
      BY <2>5 DEF Todo
    <3>2. PICK n \in 1 .. Len(arr[d]) : (d = wb => n >= wp) /\ arr[d][n].key = k
      BY <3>1
    <3>3. k \in Keys
      BY <2>5 DEF Todo
    <3>4. d = wb => n >= wp + 1
      BY <1>1, <2>5, <3>2
    <3> QED BY <1>1, <1>10, <2>1, <3>1, <3>2, <3>3, <3>4 DEF Todo
  <2>6. Todo' = Todo \ {key}
    BY <2>4, <2>5
  <2> QED BY <1>7, <2>2, <2>3, <2>6
<1> QED BY <1>9, <1>10 DEF IterateNode, NextNode

(* A chain that is done leaves the chains behind it to visit.              *)
LEMMA BucketHmInv == HmInv /\ IterateBucket => HmInv'
<1> SUFFICES ASSUME HmInv, IterateBucket PROVE HmInv'
  OBVIOUS
<1> USE DEF HmInv
<1>1. /\ wb \in Buckets /\ wp > Len(arr[wb]) /\ wb' = wb + 1 /\ wp' = 1
      /\ UNCHANGED <<arr, size, freed, held, nextv, on, seen, start>>
  BY HashMapAssumption DEF IterateBucket, mapVars, HmTypeOK, Buckets
<1>2. HmTypeOK'
  BY <1>1, HashMapAssumption DEF HmTypeOK, Buckets
<1>3. Chained' /\ Released' /\ Counted'
  BY <1>1 DEF Chained, Released, Counted, Live
<1>4. wp \in Nat /\ \A b \in Buckets : Len(arr[b]) \in Nat
  BY DEF HmTypeOK
<1>5. ASSUME NEW b \in Buckets, NEW i \in 1 .. Len(arr[b])
      PROVE  (b >= wb /\ (b = wb => i >= wp)) <=> (b >= wb + 1 /\ (b = wb + 1 => i >= 1))
  BY <1>1, <1>4 DEF Buckets
<1>6. Todo' = Todo
  <2>1. Todo' = {k \in Keys : \E b \in Buckets : b >= wb + 1 /\
                   \E i \in 1 .. Len(arr[b]) : (b = wb + 1 => i >= 1) /\ arr[b][i].key = k}
    BY <1>1 DEF Todo
  <2> QED BY <1>5, <2>1 DEF Todo
<1>7. Walked'
  BY <1>1, <1>6 DEF Walked
<1> QED BY <1>2, <1>3, <1>7

(* Every step keeps the invariant.                                         *)
LEMMA NextHmInv == HmInv /\ [HmNext]_hmVars => HmInv'
<1> SUFFICES ASSUME HmInv, [HmNext]_hmVars PROVE HmInv'
  OBVIOUS
<1>1. CASE UtilsHashMapInsert
  BY <1>1, InsertHmInv
<1>2. CASE UtilsHashMapRemove
  BY <1>2, RemoveHmInv
<1>3. CASE UtilsHashMapDelete
  BY <1>3, DeleteHmInv
<1>4. CASE IterateBegin
  BY <1>4, BeginHmInv
<1>5. CASE IterateNode
  BY <1>5, NodeHmInv
<1>6. CASE IterateBucket
  BY <1>6, BucketHmInv
<1>7. CASE IterateEnd
  <2>1. on' = FALSE /\ UNCHANGED <<arr, size, freed, held, nextv, wb, wp, seen, start>>
    BY <1>7 DEF IterateEnd, mapVars
  <2>2. HmTypeOK'
    BY <2>1 DEF HmInv, HmTypeOK
  <2>3. Chained' /\ Released' /\ Counted'
    BY <2>1 DEF HmInv, Chained, Released, Counted, Live
  <2> QED BY <2>1, <2>2, <2>3 DEF HmInv, Walked
<1>8. CASE UNCHANGED hmVars
  <2>1. UNCHANGED <<arr, size, freed, held, nextv, on, wb, wp, seen, start>>
    BY <1>8 DEF hmVars, mapVars, walkVars
  <2>2. HmTypeOK'
    BY <2>1 DEF HmInv, HmTypeOK
  <2>3. Chained' /\ Released' /\ Counted'
    BY <2>1 DEF HmInv, Chained, Released, Counted, Live
  <2>4. Walked'
    BY <2>1 DEF HmInv, Walked, Todo
  <2> QED BY <2>2, <2>3, <2>4 DEF HmInv
<1> QED BY <1>1, <1>2, <1>3, <1>4, <1>5, <1>6, <1>7, <1>8 DEF HmNext

(* A look-up finds the value that the callers mean the map to hold.        *)
LEMMA LookUp == HmInv => \A k \in Keys : UtilsHashMapGetValue(k) = held[k]
<1> SUFFICES ASSUME HmInv, NEW k \in Keys PROVE UtilsHashMapGetValue(k) = held[k]
  OBVIOUS
<1> USE DEF HmInv
<1> DEFINE c == arr[Index(k)]
<1>1. Index(k) \in Buckets /\ c \in Seq(Node)
  BY IndexType DEF HmTypeOK
<1>2. CASE Match(c, k) = {}
  <2>1. held[k] = 0
    BY <1>2 DEF Match, Chained
  <2> QED BY <1>2, <2>1 DEF UtilsHashMapGetValue
<1>3. CASE Match(c, k) # {}
  <2>1. \A i, j \in 1 .. Len(c) : c[i].key = c[j].key => i = j
    BY <1>1 DEF Chained
  <2>2. First(c, k) \in 1 .. Len(c) /\ c[First(c, k)].key = k
    BY <1>1, <1>3, <2>1, FirstMatch
  <2>3. c[First(c, k)].val = held[k]
    BY <1>1, <2>2 DEF Chained
  <2> QED BY <1>3, <2>3 DEF UtilsHashMapGetValue
<1> QED BY <1>2, <1>3

(* For every set of keys and every number of chains, the hash map of       *)
(* utils_hash_map.c is sound: look-ups, the counter, the release of values *)
(* and traversals that remove nodes (MapSound).                            *)
THEOREM HashMapSound == HmSpec => []MapSound
<1>1. HmInit => HmInv
  BY InitHmInv
<1>2. HmInv /\ [HmNext]_hmVars => HmInv'
  BY NextHmInv
<1>3. HmInv => MapSound
  <2> SUFFICES ASSUME HmInv PROVE MapSound
    OBVIOUS
  <2>1. \A k \in Keys : UtilsHashMapGetValue(k) = held[k]
    BY LookUp
  <2>2. wb = BucketSize => Todo = {}
    BY HashMapAssumption DEF Todo, Buckets
  <2>3. on /\ wb = BucketSize => seen = start
    BY <2>2 DEF HmInv, Walked
  <2> QED BY <2>1, <2>3 DEF HmInv, MapSound, Counted
<1> QED BY <1>1, <1>2, <1>3, PTL DEF HmSpec
=============================================================================
