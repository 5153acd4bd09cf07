------------------------------- MODULE HashMap -------------------------------
(***************************************************************************)
(* The hash map of src/core/infrastructure/utils/utils_hash_map.c, which   *)
(* keeps the peers of LAN search and the clients of local control: an      *)
(* array of chains, a counter of nodes, a callback that releases values.   *)
(*                                                                         *)
(* A value is the number of the insertion that brought it, so that the     *)
(* release of each is told apart.  `held` is what the callers mean the map *)
(* to hold (0: nothing); the code has no such variable.  A traversal is    *)
(* taken node by node: between two nodes the callback may remove the node  *)
(* it is called for, and nothing else is allowed.                          *)
(***************************************************************************)
EXTENDS Integers, Sequences, FiniteSets

CONSTANTS Keys,        \* byte strings
          BucketSize,  \* chains
          MaxValues    \* insertions

ASSUME HashMapAssumption ==
  /\ Keys \subseteq Seq(0 .. 255) \ {<<>>}
  /\ BucketSize \in Nat \ {0}
  /\ MaxValues \in Nat

VARIABLES arr, size, freed,        \* the map
          held, nextv,             \* its callers
          on, wb, wp, seen, start  \* the traversal: chain, node, keys visited, keys there at first

mapVars == <<arr, size, freed, held, nextv>>
walkVars == <<on, wb, wp, seen, start>>
hmVars == <<mapVars, walkVars>>

Buckets == 0 .. BucketSize - 1
Node == [key : Keys, val : Nat]

-----------------------------------------------------------------------------
(* The hash is over the last four bytes, 4 bits apart.  The folding of the *)
(* top 4 of its 32 bits is left out: HashBelowFold shows that a sum of     *)
(* four bytes does not reach them.                                         *)

FoldMask == 268435456   \* 0x10000000
FromEnd(key, i) == IF Len(key) > i THEN key[Len(key) - i] ELSE 0
Hash(key) ==
  FromEnd(key, 0) + 16 * FromEnd(key, 1) + 256 * FromEnd(key, 2) + 4096 * FromEnd(key, 3)

Index(key) == Hash(key) % BucketSize

Match(chain, key) == {i \in 1 .. Len(chain) : chain[i].key = key}
First(chain, key) == CHOOSE i \in Match(chain, key) : \A j \in Match(chain, key) : i <= j
Unlink(chain, i) == [j \in 1 .. Len(chain) - 1 |-> IF j < i THEN chain[j] ELSE chain[j + 1]]

CreateNode(key, value) == [key |-> key, val |-> value]

UtilsHashMapGetValue(key) ==
  LET chain == arr[Index(key)]
  IN IF Match(chain, key) = {} THEN 0 ELSE chain[First(chain, key)].val

Live == {k \in Keys : held[k] # 0}

HmInit ==
  /\ arr = [b \in Buckets |-> <<>>] /\ size = 0 /\ freed = {}
  /\ held = [k \in Keys |-> 0] /\ nextv = 0
  /\ on = FALSE /\ wb = 0 /\ wp = 1 /\ seen = {} /\ start = {}

(* A key that is there gets the new value and its old one is released; any *)
(* other key goes to the end of its chain.                                 *)
Insert(key, value) ==
  LET b == Index(key)
      chain == arr[b]
      node == CreateNode(key, value)
  IN IF Match(chain, key) # {}
     THEN /\ arr' = [arr EXCEPT ![b] = [chain EXCEPT ![First(chain, key)] = node]]
          /\ freed' = freed \cup {chain[First(chain, key)].val}
          /\ size' = size
     ELSE /\ arr' = [arr EXCEPT ![b] = Append(chain, node)]
          /\ size' = size + 1
          /\ freed' = freed

UtilsHashMapInsert ==
  /\ ~on /\ nextv < MaxValues
  /\ \E key \in Keys :
       /\ Insert(key, nextv + 1)
       /\ held' = [held EXCEPT ![key] = nextv + 1]
  /\ nextv' = nextv + 1
  /\ UNCHANGED walkVars

Remove(key) ==
  LET b == Index(key)
      i == First(arr[b], key)
  IN /\ Match(arr[b], key) # {}
     /\ arr' = [arr EXCEPT ![b] = Unlink(arr[b], i)]
     /\ freed' = freed \cup {arr[b][i].val}
     /\ size' = size - 1
     /\ held' = [held EXCEPT ![key] = 0]
     /\ nextv' = nextv

UtilsHashMapRemove ==
  /\ ~on
  /\ \E key \in Keys : Remove(key)
  /\ UNCHANGED walkVars

(* Every node and its value; the array stays.                              *)
UtilsHashMapDelete ==
  /\ ~on
  /\ arr' = [b \in Buckets |-> <<>>]
  /\ freed' = freed \cup {v \in 1 .. nextv : \E b \in Buckets : \E i \in 1 .. Len(arr[b]) : arr[b][i].val = v}
  /\ size' = 0
  /\ held' = [k \in Keys |-> 0]
  /\ UNCHANGED <<nextv, walkVars>>

-----------------------------------------------------------------------------
(* The traversal.                                                          *)

IterateBegin ==
  /\ ~on
  /\ on' = TRUE /\ wb' = 0 /\ wp' = 1 /\ seen' = {} /\ start' = Live
  /\ UNCHANGED mapVars

(* Faulty: the next node is taken from the node after the callback, which  *)
(* may have released it; a released node leads nowhere. *)
NextAfterCall(removed) == IF removed THEN wp' = Len(arr[wb]) + 1 ELSE wp' = wp + 1

(* The next node was saved before the callback; after a removal it stands  *)
(* where the removed one stood.                                            *)
NextNode(removed) == wp' = IF removed THEN wp ELSE wp + 1

(* The callback of one node: expiry checks remove it, searches do not.     *)
IterateNode ==
  /\ on /\ wb < BucketSize /\ wp <= Len(arr[wb])
  /\ seen' = seen \cup {arr[wb][wp].key}
  /\ \/ Remove(arr[wb][wp].key) /\ NextNode(TRUE)
     \/ UNCHANGED mapVars /\ NextNode(FALSE)
  /\ UNCHANGED <<on, wb, start>>

IterateBucket ==
  /\ on /\ wb < BucketSize /\ wp > Len(arr[wb])
  /\ wb' = wb + 1 /\ wp' = 1
  /\ UNCHANGED <<mapVars, on, seen, start>>

(* At the end, or where the callback says so.                              *)
IterateEnd ==
  /\ on /\ on' = FALSE
  /\ UNCHANGED <<mapVars, wb, wp, seen, start>>

HmNext ==
  \/ UtilsHashMapInsert \/ UtilsHashMapRemove \/ UtilsHashMapDelete
  \/ IterateBegin \/ IterateNode \/ IterateBucket \/ IterateEnd

HmSpec == HmInit /\ [][HmNext]_hmVars

-----------------------------------------------------------------------------
HmTypeOK ==
  /\ arr \in [Buckets -> Seq(Node)] /\ size \in Nat
  /\ nextv \in Nat /\ freed \subseteq 1 .. nextv
  /\ held \in [Keys -> 0 .. nextv]
  /\ on \in BOOLEAN /\ wb \in 0 .. BucketSize /\ wp \in Nat \ {0}
  /\ seen \subseteq Keys /\ start \subseteq Keys

(* What the chains say of the keys they hold, and that they miss none.     *)
Chained ==
  /\ \A b \in Buckets : \A i \in 1 .. Len(arr[b]) :
       /\ Index(arr[b][i].key) = b
       /\ arr[b][i].val = held[arr[b][i].key]
       /\ arr[b][i].val # 0
  /\ \A b \in Buckets : \A i, j \in 1 .. Len(arr[b]) : arr[b][i].key = arr[b][j].key => i = j
  /\ \A k \in Keys : held[k] # 0 => \E i \in 1 .. Len(arr[Index(k)]) : arr[Index(k)][i].key = k

(* Every value is either held under one key or released.                   *)
Released ==
  /\ \A k \in Keys : held[k] \notin freed
  /\ \A k, l \in Keys : held[k] = held[l] /\ held[k] # 0 => k = l
  /\ \A v \in 1 .. nextv : v \in freed \/ \E k \in Keys : held[k] = v

Todo ==
  {k \in Keys : \E b \in Buckets : b >= wb /\
     \E i \in 1 .. Len(arr[b]) : (b = wb => i >= wp) /\ arr[b][i].key = k}

Walked == on => seen \cap Todo = {} /\ seen \cup Todo = start

Counted == IsFiniteSet(Live) /\ size = Cardinality(Live)

(* UtilsHashMapGetValue returns for every key the value inserted last and  *)
(* not removed since, UtilsHashMapLength counts the keys that have one,    *)
(* every other value was released exactly once, and a traversal that runs  *)
(* to its end was called for each node that was there at its begin, though *)
(* its callback removes nodes on the way.                                  *)
MapSound ==
  /\ \A k \in Keys : UtilsHashMapGetValue(k) = held[k]
  /\ size = Cardinality(Live)
  /\ Released
  /\ on /\ wb = BucketSize => seen = start
=============================================================================
