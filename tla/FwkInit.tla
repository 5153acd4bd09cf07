------------------------------ MODULE FwkInit ------------------------------
(***************************************************************************)
(* Levelled initialization (frameworks/init/fwk_init.c).  Arrays of units  *)
(* are registered; FwkInitAll goes through the levels upwards, array by    *)
(* array and unit by unit, and skips what is already initialized, so that  *)
(* it can be called again after a failure; FwkDeinitAll goes back.  A unit *)
(* is a pair <<array, index>>.                                             *)
(***************************************************************************)
EXTENDS Naturals, Sequences, FiniteSets

CONSTANTS Arrays,    \* Arrays[a]: the levels of the units of array a
          Policies,  \* policies FwkInitAll is called with
          MaxFails   \* bound: initFuncs that fail

AllUnits == UNION {{<<a, i>> : i \in 1..Len(Arrays[a])} : a \in DOMAIN Arrays}
Level(u) == Arrays[u[1]][u[2]]

VARIABLES
  initList,  \* g_initList: sequence of registered arrays
  initMap,   \* the units marked in the bit maps of the registered arrays
  phase,     \* "idle", "init" or "deinit"
  policy,    \* of the running FwkInitAll
  result,    \* of the last FwkInitAll: "none", "ok" or "error"
  up,        \* history: units whose initFunc succeeded last, in that order, of
             \* arrays that were not unregistered since
  fails      \* history: failures so far

vars == <<initList, initMap, phase, policy, result, up, fails>>

Registered == {u \in AllUnits : \E k \in DOMAIN initList : initList[k] = u[1]}
Pos(a) == CHOOSE k \in DOMAIN initList : initList[k] = a
UpSet == {up[k] : k \in DOMAIN up}
Drop(u) == SelectSeq(up, LAMBDA v : v # u)

Init ==
  /\ initList = <<>> /\ initMap = {}
  /\ phase = "idle" /\ policy = "RETURN" /\ result = "none"
  /\ up = <<>> /\ fails = 0
-----------------------------------------------------------------------------
(* Faulty variants of the operators below.                                 *)

\* The units of one array are deinitialized in the order of the array.
DeinitBeforeForward(u, v) ==
  \/ Level(u) > Level(v)
  \/ Level(u) = Level(v) /\ Pos(u[1]) < Pos(v[1])
  \/ Level(u) = Level(v) /\ u[1] = v[1] /\ u[2] < v[2]

\* A unit is initialized without being marked.
InitUnitUnmarked(u) ==
  /\ up' = Append(up, u)
  /\ Len(up) < 6
  /\ UNCHANGED <<initList, initMap, phase, policy, result, fails>>
-----------------------------------------------------------------------------
(* Registration, while no initialization runs.                             *)

\* FwkRegInitUnits: an array registered already stays as it is.
Reg(a) ==
  /\ phase = "idle"
  /\ initList' = IF \E k \in DOMAIN initList : initList[k] = a THEN initList ELSE Append(initList, a)
  /\ UNCHANGED <<initMap, phase, policy, result, up, fails>>

\* FwkUnregInitUnit: the node goes with its bit map, whether or not units of
\* the array are up; those are not deinitialized any more.
Unreg(a) ==
  /\ phase = "idle"
  /\ initList' = SelectSeq(initList, LAMBDA b : b # a)
  /\ initMap' = {u \in initMap : u[1] # a}
  /\ up' = SelectSeq(up, LAMBDA u : u[1] # a)
  /\ UNCHANGED <<phase, policy, result, fails>>
-----------------------------------------------------------------------------
(* FwkInitAll and FwkDeinitAll, one unit at a time.                        *)

InitAll(p) ==
  /\ phase = "idle"
  /\ phase' = "init" /\ policy' = p
  /\ UNCHANGED <<initList, initMap, result, up, fails>>

\* The order in which InitAllUnit visits the units.
InitBefore(u, v) ==
  \/ Level(u) < Level(v)
  \/ Level(u) = Level(v) /\ Pos(u[1]) < Pos(v[1])
  \/ Level(u) = Level(v) /\ u[1] = v[1] /\ u[2] < v[2]

NextToInit(u) ==
  /\ phase = "init"
  /\ u \in Registered \ initMap
  /\ \A v \in Registered \ initMap : v # u => InitBefore(u, v)

InitUnit(u) ==
  /\ initMap' = initMap \cup {u}
  /\ up' = Append(up, u)
  /\ UNCHANGED <<initList, phase, policy, result, fails>>

\* A failure ends the walk; FWK_INIT_POLICY_BLOCK starts it again.
InitUnitFails(u) ==
  /\ fails < MaxFails
  /\ fails' = fails + 1
  /\ phase' = IF policy = "BLOCK" THEN "init" ELSE IF policy = "DEINIT_ALL" THEN "deinit" ELSE "idle"
  /\ result' = "error"
  /\ UNCHANGED <<initList, initMap, policy, up>>

\* FWK_INIT_FAILED_DEINIT_ALL deinitializes also when nothing failed.
InitAllEnd ==
  /\ phase = "init"
  /\ Registered \subseteq initMap
  /\ result' = "ok"
  /\ phase' = IF policy = "DEINIT_ALL" THEN "deinit" ELSE "idle"
  /\ UNCHANGED <<initList, initMap, policy, up, fails>>

DeinitAll ==
  /\ phase = "idle"
  /\ phase' = "deinit"
  /\ UNCHANGED <<initList, initMap, policy, result, up, fails>>

\* The order in which FwkDeinitAll visits the units: levels downwards, the
\* arrays in the order of registration, the units of an array backwards.
DeinitBefore(u, v) ==
  \/ Level(u) > Level(v)
  \/ Level(u) = Level(v) /\ Pos(u[1]) < Pos(v[1])
  \/ Level(u) = Level(v) /\ u[1] = v[1] /\ u[2] > v[2]

DeinitUnit(u) ==
  /\ phase = "deinit"
  /\ u \in initMap
  /\ \A v \in initMap : v # u => DeinitBefore(u, v)
  /\ initMap' = initMap \ {u}
  /\ up' = Drop(u)
  /\ UNCHANGED <<initList, phase, policy, result, fails>>

DeinitAllEnd ==
  /\ phase = "deinit"
  /\ initMap = {}
  /\ phase' = "idle"
  /\ UNCHANGED <<initList, initMap, policy, result, up, fails>>
-----------------------------------------------------------------------------
Next ==
  \/ \E a \in DOMAIN Arrays : Reg(a) \/ Unreg(a)
  \/ \E p \in Policies : InitAll(p)
  \/ \E u \in AllUnits : NextToInit(u) /\ (InitUnit(u) \/ InitUnitFails(u))
  \/ InitAllEnd \/ DeinitAll \/ DeinitAllEnd
  \/ \E u \in AllUnits : DeinitUnit(u)

Spec == Init /\ [][Next]_vars
-----------------------------------------------------------------------------
(* Type invariant.                                                         *)
TypeOK ==
  /\ \A k, l \in DOMAIN initList : initList[k] \in DOMAIN Arrays /\ (initList[k] = initList[l] => k = l)
  /\ initMap \subseteq Registered
  /\ phase \in {"idle", "init", "deinit"} /\ policy \in Policies \cup {"RETURN"}
  /\ result \in {"none", "ok", "error"}
  /\ fails \in 0..MaxFails

(* InitOnce: a unit's initFunc is not called again before its deinitFunc,   *)
(* over failures, retries and registrations, and the bit maps say exactly   *)
(* which units are up, of arrays that are not unregistered while units of   *)
(* them are up (FwkUnregInitUnit forgets those).                            *)
InitOnce == TypeOK /\ UpSet = initMap /\ Len(up) = Cardinality(UpSet)

(* LevelsBelowUp: while initializing, everything registered at a lower      *)
(* level is up before a unit of a higher level is initialized.              *)
LevelsBelowUp ==
  [][\A u \in AllUnits : u \in initMap' \ initMap =>
       \A v \in Registered : Level(v) < Level(u) => v \in initMap]_vars

(* DependentsDownFirst: deinitialization takes down a unit only when every  *)
(* unit of a higher level, and every later unit of its own array and level, *)
(* is down: what a unit may depend on outlives it.                          *)
DependentsDownFirst ==
  [][\A u \in AllUnits : phase = "deinit" /\ u \in initMap \ initMap' =>
       \A v \in initMap' : Level(v) <= Level(u) /\ (Level(v) = Level(u) /\ v[1] = u[1] => v[2] < u[2])]_vars

(* LevelOrder: dependencies come up before what depends on them and go down *)
(* after it.                                                                *)
LevelOrder == LevelsBelowUp /\ DependentsDownFirst

(* InitSound: over failures, retries and registrations each unit is up at   *)
(* most once, the bit maps say which are, and levels come up and go down in *)
(* order.                                                                   *)
InitSound == []InitOnce /\ LevelOrder
=============================================================================
