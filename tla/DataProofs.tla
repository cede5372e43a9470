----------------------------- MODULE DataProofs -----------------------------
(***************************************************************************)
(* Proofs about the counts of KeyOnce: those of the keys and those of the  *)
(* threads' values, for every finite set of threads, table of keys and     *)
(* number of rounds.                                                       *)
(***************************************************************************)
EXTENDS OnceProofs, FiniteSetTheorems

-----------------------------------------------------------------------------
(***************************************************************************)
(* The invariant.  Types as far as they are needed, and who is where: keys *)
(* are created by the one thread in init_routine, and used when all have   *)
(* returned from pthread_once.                                             *)
(***************************************************************************)
DataShapes ==
  /\ count \in [Keys -> Int]
  /\ made \subseteq Keys
  /\ data \in [Threads -> [Keys -> BOOLEAN]]
  /\ dpc \in [Threads -> DataPlaces]
  /\ key \in [Threads -> Keys]
  /\ setting \in [Threads -> Keys]
  /\ add \in [Threads -> -1..1]
  /\ from \in [Threads -> Callbacks \cup {"ready"}]

Creating == {"create", "createcount", "createdtor"}

Roles ==
  \A t \in Threads :
    /\ dpc[t] \in Creating => opc[t] = "running"
    /\ dpc[t] \notin Creating \cup {"idle"} => \A u \in Threads : opc[u] = "done"

\* A pthread_setspecific that is under way changes the value, of a key that
\* nobody deletes meanwhile.
SetsMade ==
  \A t \in Threads : dpc[t] = "set" =>
    /\ setting[t] \in made
    /\ add[t] = IF data[t][setting[t]] THEN -1 ELSE 1

\* The value of k is gone and its count still to be taken down: the
\* destructor may set it anew in between.
Owes(t, k) ==
  /\ key[t] = k
  /\ dpc[t] \in {"dtor", "uncount"} \/ (dpc[t] = "set" /\ from[t] = "dtor")

Holders(k) == {t \in Threads : data[t][k]}
Owing(k)   == {t \in Threads : Owes(t, k)}
Exists(k)  == k \in made \/ \E t \in Threads : dpc[t] = "createdtor" /\ key[t] = k

CountsKept ==
  \A k \in Keys :
    /\ count[k] = (IF Exists(k) THEN 1 ELSE 0) + Cardinality(Holders(k)) + Cardinality(Owing(k))
    /\ k \notin made => Holders(k) = {} /\ Owing(k) = {}
    /\ (\E t \in Threads : dpc[t] = "createcount" /\ key[t] = k) => count[k] = 0

KeyInv == DataShapes /\ Roles /\ SetsMade /\ CountsKept

Values(t) == {k \in Keys : data[t][k]}

\* The thread's own count, and the rounds: a table is freed, and a thread
\* gone, for want of values or after the last round.
RoundsTypes ==
  /\ table \in [Threads -> {"none", "there", "freed"}]
  /\ dataCount \in [Threads -> Int]
  /\ itr \in [Threads -> Nat]

RoundsOf(t) ==
  /\ dataCount[t] = Cardinality(Values(t)) + (IF dpc[t] = "set" THEN add[t] ELSE 0)
  /\ table[t] = "none" => Values(t) = {} /\ dpc[t] # "set"
  /\ table[t] = "freed" => dpc[t] = "gone"
  /\ dpc[t] # "gone" => itr[t] < Iterations
  /\ dpc[t] = "gone" /\ Values(t) # {} => itr[t] = Iterations

RoundsInv == RoundsTypes /\ \A t \in Threads : RoundsOf(t)

-----------------------------------------------------------------------------
(***************************************************************************)
(* Types and roles.                                                        *)
(***************************************************************************)
DataAction(t) == DataStep(t) \/ ExitData(t) \/ CallbackReturns(t) \/ UserCall(t)

\* What a step of KeyOnce is to the data.
LEMMA KeyOnceSplits ==
  ASSUME KeyOnceNext
  PROVE  \E t \in Threads :
           \/ OncePart(t)
           \/ OnceInitialised(t) /\ dpc[t] = "idle" /\ UNCHANGED dataVars
           \/ opc[t] = "running" /\ CreateKey(t) /\ UNCHANGED onceVars
           \/ (\A u \in Threads : opc[u] = "done") /\ Ready(t) /\ UNCHANGED onceVars
           \/ DataAction(t) /\ UNCHANGED onceVars
BY DEF KeyOnceNext, KeyOnceStep, InitRoutine, Starts, DataAction

\* The key after k.
LEMMA NextOf ==
  ASSUME NEW k \in Keys
  PROVE  (k + 1) % KeysMax \in Keys
<1>1. KeysMax \in Nat \ {0} /\ k \in Int /\ 0 <= k /\ k <= KeysMax - 1
  BY KeyAssumption DEF Keys
<1>2. (k + 1) % KeysMax \in 0..(KeysMax - 1)
  BY <1>1
<1> QED
  BY <1>2 DEF Keys

LEMMA ShapesStep ==
  ASSUME KeyInv, NEW t \in Threads, DataAction(t) \/ CreateKey(t) \/ Ready(t)
  PROVE  DataShapes'
<1> USE DEF KeyInv, DataShapes, DataPlaces, Callbacks, DataAt, DataGoto, Count,
            keyTable, ownData, handlers, loop, setCall
<1>1. CASE CreateKey(t)
  <2>1. 0 \in Keys
    BY KeyAssumption DEF Keys
  <2> QED
    BY <1>1, <2>1 DEF CreateKey
<1>2. CASE CreateTest(t)
  <2>1. 0 \in Keys
    BY KeyAssumption DEF Keys
  <2>2. \/ UNCHANGED key
        \/ key[t] + 1 \in Keys /\ key' = [key EXCEPT ![t] = key[t] + 1]
        \/ key' = [key EXCEPT ![t] = 0]
    BY <1>2 DEF CreateTest
  <2>3. key' \in [Threads -> Keys]
    BY <2>1, <2>2
  <2>4. dpc' \in [Threads -> DataPlaces]
    BY <1>2 DEF CreateTest
  <2> QED
    BY <1>2, <2>3, <2>4 DEF CreateTest
<1>3. CASE CreateCount(t)
  BY <1>3 DEF CreateCount
<1>4. CASE CreateDestructor(t)
  <2>1. 0 \in Keys
    BY KeyAssumption DEF Keys
  <2> QED
    BY <1>4, <2>1 DEF CreateDestructor
<1>5. CASE Ready(t) \/ ExitData(t)
  BY <1>5 DEF Ready, ExitData
<1>6. CASE SetValue(t)
  <2>1. 0 \in Keys
    BY KeyAssumption DEF Keys
  <2>2. count' = [count EXCEPT ![setting[t]] = @ + add[t]]
        /\ data' = [data EXCEPT ![t][setting[t]] = (add[t] = 1)]
    BY <1>6 DEF SetValue
  <2>3. count' \in [Keys -> Int]
    BY <2>2
  <2>4. data' \in [Threads -> [Keys -> BOOLEAN]]
    BY <2>2
  <2>5. dpc' \in [Threads -> DataPlaces] /\ from' \in [Threads -> Callbacks \cup {"ready"}]
    BY <1>6 DEF SetValue
  <2>6. setting' \in [Threads -> Keys] /\ add' \in [Threads -> -1..1]
    BY <1>6, <2>1 DEF SetValue
  <2> QED
    BY <1>6, <2>3, <2>4, <2>5, <2>6 DEF SetValue
<1>7. CASE PopAll(t) \/ CallbackReturns(t)
  BY <1>7 DEF PopAll, CallbackReturns
<1>8. CASE SweepValue(t)
  <2>1. data' \in [Threads -> [Keys -> BOOLEAN]]
    BY <1>8 DEF SweepValue
  <2>2. dpc' \in [Threads -> DataPlaces]
    BY <1>8 DEF SweepValue
  <2> QED
    BY <1>8, <2>1, <2>2 DEF SweepValue
<1>9. CASE SweepOn(t) \/ Uncount(t)
  <2>1. (key[t] + 1) % KeysMax \in Keys
    BY NextOf
  <2>2. UNCHANGED key \/ key' = [key EXCEPT ![t] = (key[t] + 1) % KeysMax]
    BY <1>9 DEF SweepOn, Uncount, NextKey
  <2>3. key' \in [Threads -> Keys]
    BY <2>1, <2>2
  <2>4. dpc' = [dpc EXCEPT ![t] = "sweep"] \/ dpc' = [dpc EXCEPT ![t] = "gone"]
    BY <1>9 DEF SweepOn, Uncount, NextKey
  <2>5. count' = count \/ count' = [count EXCEPT ![key[t]] = @ - 1]
    BY <1>9 DEF SweepOn, Uncount
  <2>6. UNCHANGED <<made, data, setting, add, from>>
    BY <1>9 DEF SweepOn, Uncount
  <2> QED
    BY <2>3, <2>4, <2>5, <2>6
<1>10. ASSUME NEW k \in Keys, NEW v \in BOOLEAN, SetEnter(t, k, v)
       PROVE  DataShapes'
  <2>1. Change(t, k, v) \in -1..1
    BY DEF Change
  <2> QED
    BY <1>10, <2>1 DEF SetEnter
<1>11. ASSUME NEW k \in Keys, NEW v \in BOOLEAN, SetUnseen(t, k, v)
       PROVE  DataShapes'
  BY <1>11 DEF SetUnseen
<1>12. ASSUME NEW k \in Keys, DeleteKey(t, k)
       PROVE  DataShapes'
  BY <1>12 DEF DeleteKey
<1>13. CASE Push(t) \/ Pop(t)
  BY <1>13 DEF Push, Pop
<1> QED
  BY <1>1, <1>2, <1>3, <1>4, <1>5, <1>6, <1>7, <1>8, <1>9, <1>10, <1>11, <1>12, <1>13
     DEF DataAction, DataStep, UserCall

\* No step of the data takes a thread that has not been let there by
\* KeyOnce to the creation of a key, or to the use of one.
LEMMA PlacesStep ==
  ASSUME KeyInv, NEW t \in Threads, DataAction(t)
  PROVE  /\ \A u \in Threads \ {t} : dpc'[u] = dpc[u]
         /\ dpc[t] # "idle"
         /\ dpc'[t] \in Creating => dpc[t] \in Creating
         /\ dpc'[t] \notin Creating \cup {"idle"} => dpc[t] \notin Creating \cup {"idle"}
<1> USE DEF KeyInv, DataShapes, DataPlaces, Callbacks, Creating, DataAt, DataGoto,
            keyTable, ownData, handlers, loop, setCall
<1>1. CASE CreateTest(t) \/ CreateCount(t) \/ CreateDestructor(t)
  BY <1>1 DEF CreateTest, CreateCount, CreateDestructor
<1>2. CASE SetValue(t)
  BY <1>2 DEF SetValue
<1>3. CASE PopAll(t) \/ SweepValue(t)
  BY <1>3 DEF PopAll, SweepValue
<1>4. CASE SweepOn(t) \/ Uncount(t)
  BY <1>4 DEF SweepOn, Uncount, NextKey
<1>5. CASE ExitData(t) \/ CallbackReturns(t)
  BY <1>5 DEF ExitData, CallbackReturns
<1>6. ASSUME NEW k \in Keys, NEW v \in BOOLEAN, SetEnter(t, k, v) \/ SetUnseen(t, k, v)
      PROVE  /\ dpc'[t] = "set" \/ dpc'[t] = dpc[t]
             /\ dpc[t] \in Callbacks \cup {"ready"}
             /\ \A u \in Threads \ {t} : dpc'[u] = dpc[u]
  BY <1>6 DEF SetEnter, SetUnseen
<1>7. ASSUME NEW k \in Keys, DeleteKey(t, k)
      PROVE  dpc[t] = "ready" /\ UNCHANGED dpc
  BY <1>7 DEF DeleteKey
<1>8. CASE Push(t) \/ Pop(t)
  BY <1>8 DEF Push, Pop
<1> QED
  BY <1>1, <1>2, <1>3, <1>4, <1>5, <1>6, <1>7, <1>8 DEF DataAction, DataStep, UserCall

\* pthread_once takes nobody out of init_routine, and does nothing when all
\* have returned.
LEMMA OncePartRoles ==
  ASSUME OnceInv, NEW t \in Threads, OncePart(t)
  PROVE  /\ \A u \in Threads : opc[u] = "running" => opc'[u] = "running"
         /\ (\A u \in Threads : opc[u] = "done") => \A u \in Threads : opc'[u] = "done"
BY DEF OnceInv, OncePart, OnceEnter, OnceLock, OnceTest, OnceUnlock, OnceReturn, OnceAt, OnceGoto

LEMMA RolesStep ==
  ASSUME OnceInv, KeyInv, KeyOnceNext
  PROVE  Roles'
<1>1. PICK t \in Threads :
        \/ OncePart(t)
        \/ OnceInitialised(t) /\ dpc[t] = "idle" /\ UNCHANGED dataVars
        \/ opc[t] = "running" /\ CreateKey(t) /\ UNCHANGED onceVars
        \/ (\A u \in Threads : opc[u] = "done") /\ Ready(t) /\ UNCHANGED onceVars
        \/ DataAction(t) /\ UNCHANGED onceVars
  BY KeyOnceSplits
<1> USE DEF KeyInv, Roles
<1>2. CASE OncePart(t)
  <2>1. UNCHANGED dpc
    BY <1>2 DEF OncePart, dataVars
  <2> QED
    BY <1>2, <2>1, OncePartRoles
<1>3. CASE OnceInitialised(t) /\ dpc[t] = "idle" /\ UNCHANGED dataVars
  <2>1. UNCHANGED dpc /\ opc[t] = "running" /\ opc' = [opc EXCEPT ![t] = "unlock"]
    BY <1>3 DEF OnceInitialised, OnceAt, OnceGoto, dataVars
  <2>2. \A u \in Threads \ {t} : opc'[u] = opc[u]
    BY <2>1 DEF OnceInv
  <2>3. dpc[t] = "idle"
    BY <1>3
  <2> QED
    BY <2>1, <2>2, <2>3 DEF Creating
<1>4. CASE opc[t] = "running" /\ CreateKey(t) /\ UNCHANGED onceVars
  BY <1>4 DEF CreateKey, DataGoto, onceVars, Creating, DataShapes
<1>5. CASE (\A u \in Threads : opc[u] = "done") /\ Ready(t) /\ UNCHANGED onceVars
  BY <1>5 DEF Ready, DataGoto, onceVars, Creating, DataShapes
<1>6. CASE DataAction(t) /\ UNCHANGED onceVars
  BY <1>6, PlacesStep DEF onceVars
<1> QED
  BY <1>1, <1>2, <1>3, <1>4, <1>5, <1>6

\* Two threads are not in init_routine at once.
LEMMA OneCreates ==
  ASSUME OnceInv, Roles, NEW t \in Threads, NEW u \in Threads,
         dpc[t] \in Creating, dpc[u] \in Creating
  PROVE  t = u
BY DEF OnceInv, Place, Roles

\* And when somebody uses the keys nobody is.
LEMMA NobodyCreates ==
  ASSUME Roles, NEW t \in Threads, dpc[t] \notin Creating \cup {"idle"}
  PROVE  \A u \in Threads : dpc[u] \notin Creating
BY DEF Roles

-----------------------------------------------------------------------------
(***************************************************************************)
(* The counts of the keys.                                                 *)
(***************************************************************************)
\* What a step says of the counts if no key is made, no value comes or goes
\* and nobody owes a count that did not before.
LEMMA CountsSame ==
  ASSUME CountsKept, UNCHANGED <<count, made, data>>,
         \A u \in Threads, k \in Keys :
           /\ Owes(u, k)' = Owes(u, k)
           /\ dpc'[u] = "createdtor" /\ key'[u] = k <=> dpc[u] = "createdtor" /\ key[u] = k
           /\ dpc'[u] = "createcount" /\ key'[u] = k => count[k] = 0
  PROVE  CountsKept'
<1> SUFFICES ASSUME NEW k \in Keys
             PROVE  /\ count'[k] = (IF Exists(k)' THEN 1 ELSE 0) + Cardinality(Holders(k)')
                                      + Cardinality(Owing(k)')
                    /\ k \notin made' => Holders(k)' = {} /\ Owing(k)' = {}
                    /\ (\E t \in Threads : dpc'[t] = "createcount" /\ key'[t] = k) => count'[k] = 0
  BY DEF CountsKept
<1>1. Holders(k)' = Holders(k) /\ Owing(k)' = Owing(k)
  BY DEF Holders, Owing
<1>2. Exists(k)' <=> Exists(k)
  BY DEF Exists
<1> QED
  BY <1>1, <1>2 DEF CountsKept

LEMMA CountsTyped ==
  ASSUME IsFiniteSet(Threads), NEW k \in Keys
  PROVE  /\ IsFiniteSet(Holders(k)) /\ IsFiniteSet(Owing(k))
         /\ Cardinality(Holders(k)) \in Nat /\ Cardinality(Owing(k)) \in Nat
<1>1. Holders(k) \in SUBSET Threads /\ Owing(k) \in SUBSET Threads
  BY DEF Holders, Owing
<1> QED
  BY <1>1, FS_Subset, FS_CardinalityType

\* A key in use is made.
LEMMA UsedIsMade ==
  ASSUME IsFiniteSet(Threads), KeyInv, NEW t \in Threads, dpc[t] \notin Creating \cup {"idle"},
         NEW k \in Keys, count[k] # 0
  PROVE  k \in made
<1>1. CASE Exists(k)
  BY <1>1, NobodyCreates DEF KeyInv, Exists, Creating
<1>2. CASE ~Exists(k)
  <2>1. k \notin made
    BY <1>2 DEF Exists
  <2>2. Holders(k) = {} /\ Owing(k) = {} /\ count[k] = 0 + Cardinality({}) + Cardinality({})
    BY <1>2, <2>1 DEF KeyInv, CountsKept
  <2> QED
    BY <2>2, FS_EmptySet
<1> QED
  BY <1>1, <1>2

LEMMA CountsQuiet ==
  ASSUME OnceInv, KeyInv, NEW t \in Threads,
         \/ CreateKey(t) \/ CreateTest(t) \/ Ready(t) \/ ExitData(t) \/ PopAll(t)
         \/ SweepOn(t) \/ CallbackReturns(t) \/ Push(t) \/ Pop(t)
         \/ \E k \in Keys, v \in BOOLEAN : SetEnter(t, k, v) \/ SetUnseen(t, k, v)
  PROVE  CountsKept'
<1> USE DEF KeyInv, DataShapes, DataPlaces, Callbacks, DataAt, DataGoto, Owes,
            keyTable, ownData, handlers, loop, setCall
<1> DEFINE Same ==
      \A u \in Threads, k \in Keys :
        /\ Owes(u, k)' = Owes(u, k)
        /\ dpc'[u] = "createdtor" /\ key'[u] = k <=> dpc[u] = "createdtor" /\ key[u] = k
        /\ dpc'[u] = "createcount" /\ key'[u] = k => count[k] = 0
<1>0. \A u \in Threads, k \in Keys : dpc[u] = "createcount" /\ key[u] = k => count[k] = 0
  BY DEF CountsKept
<1>1. CASE CreateKey(t)
  <2>1. UNCHANGED <<count, made, data>>
    BY <1>1 DEF CreateKey
  <2>2. Same
    BY <1>0, <1>1 DEF CreateKey
  <2> QED
    BY <2>1, <2>2, CountsSame
<1>2. CASE CreateTest(t)
  <2>1. UNCHANGED <<count, made, data>>
    BY <1>2 DEF CreateTest
  <2>2. Same
    <3>1. \A u \in Threads \ {t} : dpc'[u] = dpc[u] /\ key'[u] = key[u] /\ from'[u] = from[u]
      BY <1>2 DEF CreateTest
    <3>2. /\ dpc[t] = "create" /\ dpc'[t] \in {"create", "createcount", "idle"}
          /\ dpc'[t] = "createcount" => count[key[t]] = 0 /\ key'[t] = key[t]
      BY <1>2 DEF CreateTest
    <3> QED
      BY <1>0, <3>1, <3>2
  <2> QED
    BY <2>1, <2>2, CountsSame
<1>3. CASE Ready(t) \/ ExitData(t) \/ PopAll(t) \/ CallbackReturns(t) \/ Push(t) \/ Pop(t)
  <2>1. UNCHANGED <<count, made, data>>
    BY <1>3 DEF Ready, ExitData, PopAll, CallbackReturns, Push, Pop
  <2>2. Same
    <3>1. \A u \in Threads \ {t} : dpc'[u] = dpc[u]
      BY <1>3 DEF Ready, ExitData, PopAll, CallbackReturns, Push, Pop
    <3>2. \/ dpc'[t] = dpc[t]
          \/ /\ dpc[t] \in {"idle", "ready", "pop", "handler"}
             /\ dpc'[t] \in {"ready", "pop", "handler", "sweep", "gone"}
          \/ dpc[t] = "dtor" /\ dpc'[t] = "uncount"
      BY <1>3 DEF Ready, ExitData, PopAll, CallbackReturns, Push, Pop
    <3>3. UNCHANGED <<key, from>>
      BY <1>3 DEF Ready, ExitData, PopAll, CallbackReturns, Push, Pop
    <3> QED
      BY <1>0, <3>1, <3>2, <3>3
  <2> QED
    BY <2>1, <2>2, CountsSame
<1>4. CASE SweepOn(t)
  <2>1. UNCHANGED <<count, made, data>>
    BY <1>4 DEF SweepOn
  <2>2. Same
    <3>1. \A u \in Threads \ {t} : dpc'[u] = dpc[u] /\ key'[u] = key[u] /\ from'[u] = from[u]
      BY <1>4 DEF SweepOn, NextKey
    <3>2. dpc[t] = "sweep" /\ dpc'[t] \in {"sweep", "gone"}
      BY <1>4 DEF SweepOn, NextKey
    <3> QED
      BY <1>0, <3>1, <3>2
  <2> QED
    BY <2>1, <2>2, CountsSame
<1>5. ASSUME NEW l \in Keys, NEW v \in BOOLEAN, SetEnter(t, l, v) \/ SetUnseen(t, l, v)
      PROVE  CountsKept'
  <2>1. UNCHANGED <<count, made, data>>
    BY <1>5 DEF SetEnter, SetUnseen
  <2>2. Same
    <3>1. /\ \A u \in Threads \ {t} : dpc'[u] = dpc[u] /\ from'[u] = from[u]
          /\ UNCHANGED key
      BY <1>5 DEF SetEnter, SetUnseen
    <3>2. /\ dpc[t] \in {"ready", "handler", "dtor"}
          /\ \/ dpc'[t] = dpc[t]
             \/ dpc'[t] = "set" /\ from'[t] = dpc[t]
      BY <1>5 DEF SetEnter, SetUnseen
    <3> QED
      BY <1>0, <3>1, <3>2
  <2> QED
    BY <2>1, <2>2, CountsSame
<1> QED
  BY <1>1, <1>2, <1>3, <1>4, <1>5

\* The step makes a key.
LEMMA CountsCreate ==
  ASSUME IsFiniteSet(Threads), OnceInv, KeyInv, NEW t \in Threads,
         CreateCount(t) \/ CreateDestructor(t)
  PROVE  CountsKept'
<1> USE DEF KeyInv, DataShapes, DataPlaces, Callbacks, DataAt, DataGoto, Count,
            keyTable, ownData, handlers, loop, setCall
<1> DEFINE n == key[t]
<1>1. /\ dpc[t] \in Creating /\ n \in Keys /\ UNCHANGED data
      /\ \A u \in Threads \ {t} : dpc'[u] = dpc[u] /\ key'[u] = key[u]
      /\ UNCHANGED from
  BY DEF CreateCount, CreateDestructor, Creating
<1>2. \A u \in Threads \ {t} : dpc[u] \notin Creating
  BY <1>1, OneCreates
<1>3. \A u \in Threads : ~ (dpc[u] \notin Creating \cup {"idle"})
  BY <1>1, NobodyCreates
<1>4. \A k \in Keys : Holders(k)' = Holders(k) /\ Owing(k)' = Owing(k)
  <2>1. \A u \in Threads, k \in Keys : ~Owes(u, k)
    BY <1>3 DEF Owes, Creating
  <2>2. \A u \in Threads, k \in Keys : ~Owes(u, k)'
    <3>1. dpc'[t] \in {"createdtor", "idle"}
      BY DEF CreateCount, CreateDestructor
    <3> QED
      BY <1>1, <1>3, <3>1 DEF Owes, Creating
  <2> QED
    BY <1>1, <2>1, <2>2 DEF Holders, Owing
<1>5. CASE CreateCount(t)
  <2>1. /\ dpc[t] = "createcount" /\ dpc'[t] = "createdtor" /\ UNCHANGED <<key, made>>
        /\ count' = [count EXCEPT ![n] = @ + 1] /\ count[n] = 0
    BY <1>1, <1>5 DEF CreateCount, CountsKept
  <2>2. /\ n \notin made
        /\ Holders(n) = {} /\ Owing(n) = {}
    <3>1. Cardinality(Holders(n)) \in Nat /\ Cardinality(Owing(n)) \in Nat
      BY <1>1, CountsTyped
    <3>2. count[n] = (IF Exists(n) THEN 1 ELSE 0) + Cardinality(Holders(n)) + Cardinality(Owing(n))
      BY <1>1 DEF CountsKept
    <3>3. ~Exists(n)
      BY <2>1, <3>1, <3>2
    <3>4. n \notin made
      BY <3>3 DEF Exists
    <3> QED
      BY <1>1, <3>4 DEF CountsKept
  <2>3. \A k \in Keys \ {n} : Exists(k)' <=> Exists(k)
    BY <1>1, <2>1 DEF Exists
  <2>4. Exists(n)'
    BY <2>1 DEF Exists
  <2>5. \A k \in Keys : ~ \E u \in Threads : dpc'[u] = "createcount" /\ key'[u] = k
    BY <1>1, <1>2, <2>1 DEF Creating
  <2>6. count'[n] = 1 + Cardinality(Holders(n)) + Cardinality(Owing(n))
    BY <1>1, <2>1, <2>2, FS_EmptySet
  <2>7. \A k \in Keys \ {n} : count'[k] = count[k]
    BY <2>1
  <2>8. ASSUME NEW k \in Keys
        PROVE  /\ count'[k] = (IF Exists(k)' THEN 1 ELSE 0) + Cardinality(Holders(k)')
                                + Cardinality(Owing(k)')
               /\ k \notin made' => Holders(k)' = {} /\ Owing(k)' = {}
    <3>1. CASE k = n
      BY <1>4, <2>1, <2>2, <2>4, <2>6, <3>1
    <3>2. CASE k # n
      BY <1>4, <2>1, <2>3, <2>7, <3>2 DEF CountsKept
    <3> QED
      BY <3>1, <3>2
  <2> QED
    BY <2>5, <2>8 DEF CountsKept
<1>6. CASE CreateDestructor(t)
  <2>1. /\ dpc[t] = "createdtor" /\ dpc'[t] = "idle" /\ UNCHANGED count
        /\ made' = made \cup {n}
    BY <1>6 DEF CreateDestructor
  <2>2. \A k \in Keys : Exists(k)' <=> Exists(k)
    BY <1>1, <1>2, <2>1 DEF Exists, Creating
  <2>3. \A k \in Keys : ~ \E u \in Threads : dpc'[u] = "createcount" /\ key'[u] = k
    BY <1>1, <1>2, <2>1 DEF Creating
  <2> QED
    BY <1>4, <2>1, <2>2, <2>3 DEF CountsKept
<1> QED
  BY <1>5, <1>6

\* Nobody creates a key while thread t does one of the other steps.
LEMMA CountsUse ==
  ASSUME Roles, NEW t \in Threads, dpc[t] \notin Creating \cup {"idle"},
         \A u \in Threads \ {t} : dpc'[u] = dpc[u], dpc'[t] \notin Creating, NEW k \in Keys
  PROVE  /\ Exists(k) <=> k \in made
         /\ Exists(k)' <=> k \in made'
         /\ ~ \E u \in Threads : dpc'[u] = "createcount" /\ key'[u] = k
<1>1. \A u \in Threads : dpc[u] \notin Creating /\ dpc'[u] \notin Creating
  BY NobodyCreates
<1> QED
  BY <1>1 DEF Exists, Creating

LEMMA CountsSetValue ==
  ASSUME IsFiniteSet(Threads), KeyInv, NEW t \in Threads, SetValue(t)
  PROVE  CountsKept'
<1>0. PICK n \in Keys : n = setting[t]
  BY DEF KeyInv, DataShapes
<1>1. /\ dpc[t] = "set" /\ n \in made /\ n \in Keys /\ UNCHANGED <<key, made>>
      /\ add[t] = IF data[t][n] THEN -1 ELSE 1
      /\ from[t] \in {"ready", "handler", "dtor"} /\ dpc'[t] = from[t]
      /\ \A u \in Threads \ {t} : dpc'[u] = dpc[u] /\ from'[u] = from[u] /\ data'[u] = data[u]
      /\ count' = [count EXCEPT ![n] = @ + add[t]]
      /\ data' = [data EXCEPT ![t][n] = (add[t] = 1)]
  BY <1>0
  DEF SetValue, DataAt, DataGoto, Count, KeyInv, DataShapes, SetsMade, handlers, loop,
      Callbacks
<1>2. \A k \in Keys : Owing(k)' = Owing(k)
  BY <1>1 DEF Owing, Owes
<1>3. \A k \in Keys : /\ Exists(k) <=> k \in made
                      /\ Exists(k)' <=> k \in made
                      /\ ~ \E u \in Threads : dpc'[u] = "createcount" /\ key'[u] = k
  BY <1>1, CountsUse DEF KeyInv, Creating
<1>4. \A k \in Keys \ {n} : Holders(k)' = Holders(k) /\ count'[k] = count[k]
  BY <1>1 DEF Holders, KeyInv, DataShapes
<1>5. count'[n] = count[n] + add[t]
  BY <1>1 DEF KeyInv, DataShapes
<1>6. Cardinality(Holders(n)') = Cardinality(Holders(n)) + add[t]
  <2>1. IsFiniteSet(Holders(n)) /\ Cardinality(Holders(n)) \in Nat
    BY <1>1, CountsTyped
  <2>2. CASE data[t][n]
    <3>0. ~data'[t][n] /\ \A u \in Threads \ {t} : data'[u] = data[u]
      <4>1. add[t] # 1
        BY <1>1, <2>2
      <4>2. data \in [Threads -> [Keys -> BOOLEAN]]
        BY DEF KeyInv, DataShapes
      <4>3. data'[t][n] = (add[t] = 1)
        BY <1>1, <4>2
      <4> QED
        BY <1>1, <4>1, <4>3
    <3>1. Holders(n)' = Holders(n) \ {t} /\ t \in Holders(n)
      BY <2>2, <3>0 DEF Holders
    <3> QED
      BY <1>1, <2>1, <2>2, <3>1, FS_RemoveElement
  <2>3. CASE ~data[t][n]
    <3>1. Holders(n)' = Holders(n) \cup {t} /\ t \notin Holders(n)
      BY <1>1, <2>3 DEF Holders, KeyInv, DataShapes
    <3> QED
      BY <1>1, <2>1, <2>3, <3>1, FS_AddElement
  <2> QED
    BY <2>2, <2>3
<1>7. count[n] = 1 + Cardinality(Holders(n)) + Cardinality(Owing(n))
  BY <1>1, <1>3 DEF KeyInv, CountsKept
<1>8. /\ Cardinality(Holders(n)) \in Nat /\ Cardinality(Owing(n)) \in Nat /\ add[t] \in Int
  BY <1>1, CountsTyped DEF KeyInv, DataShapes
<1>9. count'[n] = 1 + Cardinality(Holders(n)') + Cardinality(Owing(n))
  BY <1>5, <1>6, <1>7, <1>8
<1>10. ASSUME NEW k \in Keys
       PROVE  /\ count'[k] = (IF Exists(k)' THEN 1 ELSE 0) + Cardinality(Holders(k)')
                                + Cardinality(Owing(k)')
              /\ k \notin made' => Holders(k)' = {} /\ Owing(k)' = {}
  <2>1. CASE k = n
    BY <1>1, <1>2, <1>3, <1>9, <2>1
  <2>2. CASE k # n
    BY <1>1, <1>2, <1>3, <1>4, <2>2 DEF KeyInv, CountsKept
  <2> QED
    BY <2>1, <2>2
<1> QED
  BY <1>3, <1>10 DEF CountsKept

LEMMA CountsSweep ==
  ASSUME IsFiniteSet(Threads), KeyInv, NEW t \in Threads, SweepValue(t)
  PROVE  CountsKept'
<1>0. PICK n \in Keys : n = key[t]
  BY DEF KeyInv, DataShapes
<1>1. /\ dpc[t] = "sweep" /\ n \in Keys /\ n = key[t] /\ UNCHANGED <<key, made, count, from>>
      /\ data[t][n] /\ dpc'[t] \in {"dtor", "uncount"}
      /\ \A u \in Threads \ {t} : dpc'[u] = dpc[u] /\ data'[u] = data[u]
      /\ data' = [data EXCEPT ![t][n] = FALSE]
  BY <1>0 DEF SweepValue, DataAt, DataGoto, KeyInv, DataShapes, handlers, loop, keyTable, setCall
<1>2. \A k \in Keys \ {n} : Holders(k)' = Holders(k) /\ Owing(k)' = Owing(k)
  BY <1>1 DEF Holders, Owing, Owes, KeyInv, DataShapes
<1>3. /\ Holders(n)' = Holders(n) \ {t} /\ t \in Holders(n)
      /\ Owing(n)' = Owing(n) \cup {t} /\ t \notin Owing(n)
  BY <1>1 DEF Holders, Owing, Owes, KeyInv, DataShapes
<1>4. \A k \in Keys : /\ Exists(k) <=> k \in made
                      /\ Exists(k)' <=> k \in made
                      /\ ~ \E u \in Threads : dpc'[u] = "createcount" /\ key'[u] = k
  BY <1>1, CountsUse DEF KeyInv, Creating
<1>5. /\ Cardinality(Holders(n)) \in Nat /\ Cardinality(Owing(n)) \in Nat
      /\ Cardinality(Holders(n)') = Cardinality(Holders(n)) - 1
      /\ Cardinality(Owing(n)') = Cardinality(Owing(n)) + 1
  <2>1. /\ IsFiniteSet(Holders(n)) /\ IsFiniteSet(Owing(n))
        /\ Cardinality(Holders(n)) \in Nat /\ Cardinality(Owing(n)) \in Nat
    BY CountsTyped
  <2>2. Cardinality(Holders(n)') = Cardinality(Holders(n)) - 1
    BY <1>3, <2>1, FS_RemoveElement
  <2>3. Cardinality(Owing(n)') = Cardinality(Owing(n)) + 1
    BY <1>3, <2>1, FS_AddElement
  <2> QED
    BY <2>1, <2>2, <2>3
<1>6. n \in made
  BY <1>1, <1>3 DEF KeyInv, CountsKept
<1>7. count[n] = 1 + Cardinality(Holders(n)') + Cardinality(Owing(n)')
  BY <1>1, <1>4, <1>5, <1>6 DEF KeyInv, CountsKept
<1>8. ASSUME NEW k \in Keys
      PROVE  /\ count'[k] = (IF Exists(k)' THEN 1 ELSE 0) + Cardinality(Holders(k)')
                              + Cardinality(Owing(k)')
             /\ k \notin made' => Holders(k)' = {} /\ Owing(k)' = {}
  <2>1. CASE k = n
    BY <1>1, <1>4, <1>6, <1>7, <2>1
  <2>2. CASE k # n
    BY <1>1, <1>2, <1>4, <2>2 DEF KeyInv, CountsKept
  <2> QED
    BY <2>1, <2>2
<1> QED
  BY <1>4, <1>8 DEF CountsKept

LEMMA CountsUncount ==
  ASSUME IsFiniteSet(Threads), KeyInv, NEW t \in Threads, Uncount(t)
  PROVE  CountsKept'
<1>0. PICK n \in Keys : n = key[t]
  BY DEF KeyInv, DataShapes
<1>1. /\ dpc[t] = "uncount" /\ n \in Keys /\ n = key[t] /\ UNCHANGED <<made, data, from>>
      /\ dpc'[t] \in {"sweep", "gone"}
      /\ \A u \in Threads \ {t} : dpc'[u] = dpc[u] /\ key'[u] = key[u]
      /\ count' = [count EXCEPT ![n] = @ - 1]
  BY <1>0 DEF Uncount, NextKey, Count, DataAt, DataGoto, KeyInv, DataShapes, handlers, setCall
<1>2. /\ \A k \in Keys : Holders(k)' = Holders(k)
      /\ \A k \in Keys \ {n} : Owing(k)' = Owing(k) /\ count'[k] = count[k]
  BY <1>1 DEF Holders, Owing, Owes, KeyInv, DataShapes
<1>3. Owing(n)' = Owing(n) \ {t} /\ t \in Owing(n)
  BY <1>1 DEF Owing, Owes
<1>4. \A k \in Keys : /\ Exists(k) <=> k \in made
                      /\ Exists(k)' <=> k \in made
                      /\ ~ \E u \in Threads : dpc'[u] = "createcount" /\ key'[u] = k
  BY <1>1, CountsUse DEF KeyInv, Creating
<1>5. /\ Cardinality(Holders(n)) \in Nat /\ Cardinality(Owing(n)) \in Nat
      /\ Cardinality(Owing(n)') = Cardinality(Owing(n)) - 1
  <2>1. /\ IsFiniteSet(Owing(n))
        /\ Cardinality(Holders(n)) \in Nat /\ Cardinality(Owing(n)) \in Nat
    BY CountsTyped
  <2>2. Cardinality(Owing(n)') = Cardinality(Owing(n)) - 1
    BY <1>3, <2>1, FS_RemoveElement
  <2> QED
    BY <2>1, <2>2
<1>6. n \in made
  BY <1>1, <1>3 DEF KeyInv, CountsKept
<1>7. count'[n] = 1 + Cardinality(Holders(n)) + Cardinality(Owing(n)')
  <2>1. count[n] = 1 + Cardinality(Holders(n)) + Cardinality(Owing(n))
    BY <1>1, <1>4, <1>6 DEF KeyInv, CountsKept
  <2>2. count'[n] = count[n] - 1
    BY <1>1 DEF KeyInv, DataShapes
  <2> QED
    BY <1>5, <2>1, <2>2
<1>8. ASSUME NEW k \in Keys
      PROVE  /\ count'[k] = (IF Exists(k)' THEN 1 ELSE 0) + Cardinality(Holders(k)')
                              + Cardinality(Owing(k)')
             /\ k \notin made' => Holders(k)' = {} /\ Owing(k)' = {}
  <2>1. CASE k = n
    BY <1>1, <1>2, <1>4, <1>6, <1>7, <2>1
  <2>2. CASE k # n
    BY <1>1, <1>2, <1>4, <2>2 DEF KeyInv, CountsKept
  <2> QED
    BY <2>1, <2>2
<1> QED
  BY <1>4, <1>8 DEF CountsKept

\* A key whose count is 1 is nobody's.
LEMMA CountsDelete ==
  ASSUME IsFiniteSet(Threads), KeyInv, NEW t \in Threads, NEW n \in Keys, DeleteKey(t, n)
  PROVE  CountsKept' /\ n \in made
<1>1. /\ dpc[t] = "ready" /\ count[n] = 1 /\ made' = made \ {n}
      /\ count' = [count EXCEPT ![n] = 0] /\ UNCHANGED <<dpc, key, from, data>>
  BY DEF DeleteKey, DataAt, ownData, loop, setCall
<1>2. \A k \in Keys : Holders(k)' = Holders(k) /\ Owing(k)' = Owing(k)
  BY <1>1 DEF Holders, Owing, Owes
<1>3. \A k \in Keys : /\ Exists(k) <=> k \in made
                      /\ Exists(k)' <=> k \in made'
                      /\ ~ \E u \in Threads : dpc'[u] = "createcount" /\ key'[u] = k
  BY <1>1, CountsUse DEF KeyInv, Creating
<1>4. n \in made
  BY <1>1, UsedIsMade DEF Creating
<1>5. Holders(n) = {} /\ Owing(n) = {}
  <2>1. count[n] = 1 + Cardinality(Holders(n)) + Cardinality(Owing(n))
    BY <1>3, <1>4 DEF KeyInv, CountsKept
  <2>2. /\ IsFiniteSet(Holders(n)) /\ IsFiniteSet(Owing(n))
        /\ Cardinality(Holders(n)) \in Nat /\ Cardinality(Owing(n)) \in Nat
    BY CountsTyped
  <2>3. Cardinality(Holders(n)) = 0 /\ Cardinality(Owing(n)) = 0
    BY <1>1, <2>1, <2>2
  <2> QED
    BY <2>2, <2>3, FS_EmptySet
<1>6. /\ count'[n] = 0 /\ \A k \in Keys \ {n} : count'[k] = count[k] /\ (k \in made' <=> k \in made)
      /\ n \notin made' /\ Cardinality({}) = 0
  BY <1>1, FS_EmptySet DEF KeyInv, DataShapes
<1>7. ASSUME NEW k \in Keys
      PROVE  /\ count'[k] = (IF Exists(k)' THEN 1 ELSE 0) + Cardinality(Holders(k)')
                              + Cardinality(Owing(k)')
             /\ k \notin made' => Holders(k)' = {} /\ Owing(k)' = {}
  <2>1. CASE k = n
    BY <1>2, <1>3, <1>5, <1>6, <2>1
  <2>2. CASE k # n
    BY <1>2, <1>3, <1>6, <2>2 DEF KeyInv, CountsKept
  <2> QED
    BY <2>1, <2>2
<1> QED
  BY <1>3, <1>4, <1>7 DEF CountsKept

LEMMA CountsStep ==
  ASSUME IsFiniteSet(Threads), OnceInv, KeyInv, NEW t \in Threads,
         DataAction(t) \/ CreateKey(t) \/ Ready(t)
  PROVE  CountsKept'
<1>1. ASSUME NEW k \in Keys, DeleteKey(t, k) PROVE CountsKept'
  BY <1>1, CountsDelete
<1>2. \/ \/ CreateKey(t) \/ CreateTest(t) \/ Ready(t) \/ ExitData(t) \/ PopAll(t)
         \/ SweepOn(t) \/ CallbackReturns(t) \/ Push(t) \/ Pop(t)
         \/ \E k \in Keys, v \in BOOLEAN : SetEnter(t, k, v) \/ SetUnseen(t, k, v)
      \/ CreateCount(t) \/ CreateDestructor(t)
      \/ SetValue(t) \/ SweepValue(t) \/ Uncount(t)
      \/ \E k \in Keys : DeleteKey(t, k)
  BY DEF DataAction, DataStep, UserCall
<1> QED
  BY <1>1, <1>2, CountsQuiet, CountsCreate, CountsSetValue, CountsSweep, CountsUncount

LEMMA SetsStep ==
  ASSUME IsFiniteSet(Threads), KeyInv, NEW t \in Threads,
         DataAction(t) \/ CreateKey(t) \/ Ready(t)
  PROVE  SetsMade'
<1> USE DEF KeyInv, DataShapes, SetsMade, DataPlaces, Callbacks, DataAt, DataGoto,
            keyTable, ownData, handlers, loop, setCall
<1>1. ASSUME NEW k \in Keys, NEW v \in BOOLEAN, SetEnter(t, k, v) PROVE SetsMade'
  <2>1. /\ dpc[t] \notin Creating \cup {"idle"} /\ count[k] # 0 /\ Change(t, k, v) # 0
        /\ UNCHANGED <<made, data>>
        /\ setting' = [setting EXCEPT ![t] = k]
        /\ add' = [add EXCEPT ![t] = Change(t, k, v)]
        /\ \A u \in Threads \ {t} : dpc'[u] = dpc[u]
    BY <1>1 DEF SetEnter, Creating
  <2>2. k \in made
    BY <2>1, UsedIsMade
  <2>3. Change(t, k, v) = IF data[t][k] THEN -1 ELSE 1
    BY <2>1 DEF Change
  <2> QED
    BY <2>1, <2>2, <2>3
<1>2. ASSUME NEW k \in Keys, DeleteKey(t, k), NobodySets(k) PROVE SetsMade'
  BY <1>2 DEF DeleteKey, NobodySets
<1>3. ASSUME NEW k \in Keys, NEW v \in BOOLEAN, SetUnseen(t, k, v) PROVE SetsMade'
  BY <1>3 DEF SetUnseen
<1>4. CASE SetValue(t)
  <2>1. /\ \A u \in Threads \ {t} : /\ dpc'[u] = dpc[u] /\ data'[u] = data[u]
                                    /\ setting'[u] = setting[u] /\ add'[u] = add[u]
        /\ UNCHANGED made
        /\ dpc'[t] # "set"
    BY <1>4 DEF SetValue
  <2> QED
    BY <2>1
<1>5. CASE CreateKey(t) \/ CreateTest(t) \/ CreateCount(t) \/ CreateDestructor(t) \/ Ready(t)
  BY <1>5 DEF CreateKey, CreateTest, CreateCount, CreateDestructor, Ready
<1>6. CASE ExitData(t) \/ PopAll(t) \/ CallbackReturns(t) \/ Push(t) \/ Pop(t)
  BY <1>6 DEF ExitData, PopAll, CallbackReturns, Push, Pop
<1>7. CASE SweepValue(t) \/ SweepOn(t) \/ Uncount(t)
  <2>1. /\ \A u \in Threads \ {t} : dpc'[u] = dpc[u] /\ data'[u] = data[u]
        /\ UNCHANGED <<made, setting, add>>
        /\ dpc'[t] \in {"dtor", "uncount", "sweep", "gone"}
    BY <1>7 DEF SweepValue, SweepOn, Uncount, NextKey
  <2> QED
    BY <2>1
<1> QED
  BY <1>1, <1>2, <1>3, <1>4, <1>5, <1>6, <1>7 DEF DataAction, DataStep, UserCall

LEMMA KeyInvStep ==
  ASSUME IsFiniteSet(Threads), OnceInv, KeyInv, [KeyOnceNext]_keyOnceVars
  PROVE  KeyInv'
<1>1. ASSUME NEW t \in Threads, DataAction(t) \/ CreateKey(t) \/ Ready(t)
      PROVE  DataShapes' /\ SetsMade' /\ CountsKept'
  BY <1>1, ShapesStep, SetsStep, CountsStep
<1>2. CASE UNCHANGED dataVars
  <2>1. UNCHANGED <<count, made, data, dpc, key, setting, add, from>>
    BY <1>2 DEF dataVars, keyTable, ownData, loop, setCall
  <2>2. DataShapes' /\ SetsMade'
    BY <2>1 DEF KeyInv, DataShapes, SetsMade
  <2>3. CountsKept'
    BY <2>1 DEF KeyInv, CountsKept, Exists, Holders, Owing, Owes
  <2> QED
    BY <2>2, <2>3, RolesStep, <2>1 DEF KeyInv, Roles, keyOnceVars, onceVars
<1>3. CASE KeyOnceNext
  <2>1. Roles'
    BY <1>3, RolesStep
  <2>2. UNCHANGED dataVars \/ \E t \in Threads : DataAction(t) \/ CreateKey(t) \/ Ready(t)
    BY <1>3, KeyOnceSplits DEF OncePart
  <2> QED
    BY <1>1, <1>2, <2>1, <2>2 DEF KeyInv
<1> QED
  BY <1>2, <1>3 DEF keyOnceVars

LEMMA KeyInvInit ==
  ASSUME KeyOnceInit
  PROVE  KeyInv
<1> USE DEF KeyOnceInit, DataInit
<1>1. 0 \in Keys
  BY KeyAssumption DEF Keys
<1>2. DataShapes
  BY <1>1 DEF DataShapes, DataPlaces
<1>3. Roles /\ SetsMade
  BY DEF Roles, SetsMade, Creating
<1>4. \A k \in Keys : Holders(k) = {} /\ Owing(k) = {} /\ ~Exists(k)
  BY DEF Holders, Owing, Owes, Exists
<1>5. Cardinality({}) = 0 /\ \A k \in Keys : count[k] = 0
  BY FS_EmptySet
<1>6. CountsKept
  BY <1>4, <1>5 DEF CountsKept
<1> QED
  BY <1>2, <1>3, <1>6 DEF KeyInv

LEMMA KeyInvariance ==
  ASSUME ~StaticInit, IsFiniteSet(Threads)
  PROVE  KeyOnceSpec => []KeyInv
<1>1. KeyOnceInit => KeyInv
  BY KeyInvInit
<1>2. OnceInv /\ KeyInv /\ [KeyOnceNext]_keyOnceVars => KeyInv'
  BY KeyInvStep
<1>3. KeyOnceSpec => []OnceInv
  BY OnceInvariance
<1> QED
  BY <1>1, <1>2, <1>3, PTL DEF KeyOnceSpec

\* Between calls the count of a key is one more than the number of threads
\* that have a value of it, whoever sets, changes, clears, deletes and exits:
\* pthread_setspecific, pthread_key_delete and _thread_cleanupspecific.
THEOREM KeyCountedAlways ==
  ASSUME ~StaticInit, IsFiniteSet(Threads)
  PROVE  KeyOnceSpec => []KeyCounted
<1>1. KeyInv => KeyCounted
  <2> SUFFICES ASSUME KeyInv, NEW k \in made,
                      \A t \in Threads : dpc[t] \in {"idle", "ready", "pop", "handler", "gone"}
               PROVE  count[k] = 1 + Cardinality({t \in Threads : data[t][k]})
    BY DEF KeyCounted
  <2>1. k \in Keys /\ Exists(k) /\ Holders(k) = {t \in Threads : data[t][k]}
    BY DEF KeyInv, DataShapes, Exists, Holders
  <2>2. Owing(k) = {}
    BY DEF Owing, Owes
  <2>3. Cardinality(Holders(k)) \in Nat /\ Cardinality({}) = 0
    BY <2>1, CountsTyped, FS_EmptySet
  <2>4. count[k] = 1 + Cardinality(Holders(k)) + Cardinality(Owing(k))
    BY <2>1 DEF KeyInv, CountsKept
  <2>5. count[k] = 1 + Cardinality(Holders(k))
    BY <2>2, <2>3, <2>4
  <2> QED
    BY <2>1, <2>5
<1> QED
  BY <1>1, KeyInvariance, PTL

\* What a thread has set pthread_getspecific finds until the thread ends: no
\* pthread_key_delete and no destructor of others takes the key away.
THEOREM ValueStaysAlways ==
  ASSUME ~StaticInit, IsFiniteSet(Threads)
  PROVE  KeyOnceSpec => []ValueStays
<1>1. KeyInv => ValueStays
  <2> SUFFICES ASSUME KeyInv, NEW t \in Threads, NEW k \in Keys, table[t] = "there", data[t][k]
               PROVE  count[k] # 0
    BY DEF ValueStays, Specific
  <2>1. t \in Holders(k) /\ k \in made /\ Exists(k)
    BY DEF KeyInv, CountsKept, Holders, Exists
  <2>2. Cardinality(Holders(k)) \in Nat /\ Cardinality(Owing(k)) \in Nat
    BY CountsTyped
  <2> QED
    BY <2>1, <2>2 DEF KeyInv, CountsKept
<1> QED
  BY <1>1, KeyInvariance, PTL


-----------------------------------------------------------------------------
(***************************************************************************)
(* The rounds of the destructors.                                          *)
(***************************************************************************)
LEMMA ValuesFinite ==
  ASSUME NEW t \in Threads
  PROVE  IsFiniteSet(Values(t)) /\ Cardinality(Values(t)) \in Nat
<1>1. IsFiniteSet(Keys)
  BY FS_Interval, KeyAssumption DEF Keys
<1> QED
  BY <1>1, FS_Subset, FS_CardinalityType DEF Values

LEMMA RoundsTypesStep ==
  ASSUME KeyInv, RoundsInv, NEW t \in Threads, DataAction(t) \/ CreateKey(t) \/ Ready(t)
  PROVE  RoundsTypes'
<1> USE DEF RoundsInv, RoundsTypes, ownData, loop
<1>1. CASE CreateKey(t) \/ CreateTest(t) \/ CreateCount(t) \/ CreateDestructor(t) \/ Ready(t)
  BY <1>1 DEF CreateKey, CreateTest, CreateCount, CreateDestructor, Ready
<1>2. CASE ExitData(t) \/ PopAll(t) \/ CallbackReturns(t) \/ Push(t) \/ Pop(t) \/ SetValue(t)
  BY <1>2 DEF ExitData, PopAll, CallbackReturns, Push, Pop, SetValue
<1>3. CASE SweepValue(t)
  BY <1>3 DEF SweepValue
<1>4. CASE SweepOn(t) \/ Uncount(t)
  <2>1. /\ UNCHANGED dataCount
        /\ UNCHANGED table \/ table' = [table EXCEPT ![t] = "freed"]
        /\ \/ UNCHANGED itr
           \/ itr' = [itr EXCEPT ![t] = itr[t]]
           \/ itr' = [itr EXCEPT ![t] = itr[t] + 1]
    BY <1>4 DEF SweepOn, Uncount, NextKey
  <2>2. itr[t] \in Nat /\ itr[t] + 1 \in Nat
    OBVIOUS
  <2> QED
    BY <2>1, <2>2
<1>5. ASSUME NEW k \in Keys, NEW v \in BOOLEAN, SetEnter(t, k, v) \/ SetUnseen(t, k, v)
      PROVE  RoundsTypes'
  <2>1. Change(t, k, v) \in Int
    BY DEF Change
  <2> QED
    BY <1>5, <2>1 DEF SetEnter, SetUnseen
<1>6. ASSUME NEW k \in Keys, DeleteKey(t, k) PROVE RoundsTypes'
  BY <1>6 DEF DeleteKey
<1> QED
  BY <1>1, <1>2, <1>3, <1>4, <1>5, <1>6 DEF DataAction, DataStep, UserCall

\* What a thread keeps of its own is its own.
LEMMA RoundsOthers ==
  ASSUME KeyInv, RoundsInv, NEW t \in Threads, DataAction(t) \/ CreateKey(t) \/ Ready(t),
         NEW u \in Threads \ {t}
  PROVE  RoundsOf(u)'
<1> USE DEF KeyInv, DataShapes, RoundsInv, RoundsTypes, DataAt, DataGoto, ownData, loop, setCall
<1> DEFINE Same == /\ dataCount'[u] = dataCount[u] /\ data'[u] = data[u] /\ dpc'[u] = dpc[u]
                   /\ add'[u] = add[u] /\ table'[u] = table[u] /\ itr'[u] = itr[u]
<1>1. CASE CreateKey(t) \/ CreateTest(t) \/ CreateCount(t) \/ CreateDestructor(t) \/ Ready(t)
  <2> Same
    BY <1>1 DEF CreateKey, CreateTest, CreateCount, CreateDestructor, Ready
  <2> QED
    BY DEF RoundsOf, Values
<1>2. CASE ExitData(t) \/ PopAll(t) \/ CallbackReturns(t) \/ Push(t) \/ Pop(t)
  <2> Same
    BY <1>2 DEF ExitData, PopAll, CallbackReturns, Push, Pop
  <2> QED
    BY DEF RoundsOf, Values
<1>3. CASE SweepValue(t) \/ SweepOn(t) \/ Uncount(t) \/ SetValue(t)
  <2> Same
    BY <1>3 DEF SweepValue, SweepOn, Uncount, NextKey, SetValue
  <2> QED
    BY DEF RoundsOf, Values
<1>4. ASSUME NEW k \in Keys, NEW v \in BOOLEAN,
             SetEnter(t, k, v) \/ SetUnseen(t, k, v) \/ DeleteKey(t, k)
      PROVE  RoundsOf(u)'
  <2> Same
    BY <1>4 DEF SetEnter, SetUnseen, DeleteKey
  <2> QED
    BY DEF RoundsOf, Values
<1> QED
  BY <1>1, <1>2, <1>3, <1>4 DEF DataAction, DataStep, UserCall

\* The steps that leave the thread's values and its count alone.
LEMMA RoundsQuiet ==
  ASSUME KeyInv, RoundsInv, NEW t \in Threads,
         \/ CreateKey(t) \/ CreateTest(t) \/ CreateCount(t) \/ CreateDestructor(t) \/ Ready(t)
         \/ ExitData(t) \/ PopAll(t) \/ CallbackReturns(t) \/ Push(t) \/ Pop(t)
         \/ \E k \in Keys : DeleteKey(t, k)
  PROVE  RoundsOf(t)'
<1> USE DEF KeyInv, DataShapes, RoundsInv, RoundsTypes, DataAt, DataGoto, ownData, loop, setCall
<1>1. /\ dataCount'[t] = dataCount[t] /\ table'[t] = table[t]
      /\ itr'[t] = itr[t] /\ UNCHANGED data
      /\ dpc[t] \notin {"set", "gone"} \/ UNCHANGED dpc
  BY DEF CreateKey, CreateTest, CreateCount, CreateDestructor, Ready, ExitData, PopAll,
         CallbackReturns, Push, Pop, DeleteKey
<1>2. \/ UNCHANGED <<dpc, add>>
      \/ dpc'[t] \notin {"set", "gone"}
      \/ dpc'[t] = "gone" /\ table[t] # "there" /\ dpc[t] = "pop"
  BY DEF CreateKey, CreateTest, CreateCount, CreateDestructor, Ready, ExitData, PopAll,
         CallbackReturns, Push, Pop, DeleteKey
<1>3. Values(t)' = Values(t)
  BY <1>1 DEF Values
<1>4. RoundsOf(t)
  OBVIOUS
<1>5. CASE UNCHANGED <<dpc, add>>
  BY <1>1, <1>3, <1>4, <1>5 DEF RoundsOf
<1>6. CASE dpc[t] \notin {"set", "gone"} /\ dpc'[t] \notin {"set", "gone"}
  BY <1>1, <1>3, <1>4, <1>6 DEF RoundsOf
<1>7. CASE dpc'[t] = "gone" /\ table[t] # "there" /\ dpc[t] = "pop"
  <2>1. table[t] = "none" /\ Values(t) = {}
    BY <1>4, <1>7 DEF RoundsOf
  <2> QED
    BY <1>1, <1>3, <1>4, <1>7, <2>1 DEF RoundsOf
<1>8. UNCHANGED <<dpc, add>> \/ (UNCHANGED dpc => UNCHANGED add)
  BY DEF CreateKey, CreateTest, CreateCount, CreateDestructor, Ready, ExitData, PopAll,
         CallbackReturns, Push, Pop, DeleteKey
<1> QED
  BY <1>1, <1>2, <1>5, <1>6, <1>7, <1>8

LEMMA RoundsSet ==
  ASSUME KeyInv, RoundsInv, NEW t \in Threads, NEW k \in Keys, NEW v \in BOOLEAN,
         SetEnter(t, k, v) \/ SetUnseen(t, k, v)
  PROVE  RoundsOf(t)'
<1> USE DEF KeyInv, DataShapes, RoundsInv, RoundsTypes, DataAt, DataGoto, handlers, loop, setCall
<1>1. /\ UNCHANGED <<data, itr>> /\ table'[t] = "there" /\ dpc[t] \notin {"set", "gone"}
      /\ \/ UNCHANGED <<dpc, dataCount>>
         \/ /\ dpc'[t] = "set" /\ add'[t] = Change(t, k, v)
            /\ dataCount'[t] = dataCount[t] + Change(t, k, v)
  BY DEF SetEnter, SetUnseen, Callbacks
<1>2. Values(t)' = Values(t)
  BY <1>1 DEF Values
<1>3. RoundsOf(t)
  OBVIOUS
<1>4. CASE UNCHANGED <<dpc, dataCount>>
  BY <1>1, <1>2, <1>3, <1>4 DEF RoundsOf
<1>5. CASE /\ dpc'[t] = "set" /\ add'[t] = Change(t, k, v)
           /\ dataCount'[t] = dataCount[t] + Change(t, k, v)
  <2>1. dataCount[t] = Cardinality(Values(t)) /\ itr[t] < Iterations
    BY <1>1, <1>3, ValuesFinite DEF RoundsOf
  <2> QED
    BY <1>1, <1>2, <1>5, <2>1 DEF RoundsOf
<1> QED
  BY <1>1, <1>4, <1>5

LEMMA RoundsSetValue ==
  ASSUME KeyInv, RoundsInv, NEW t \in Threads, SetValue(t)
  PROVE  RoundsOf(t)'
<1> USE DEF KeyInv, DataShapes, RoundsInv, RoundsTypes, DataAt, DataGoto, handlers, loop
<1>0. PICK n \in Keys : n = setting[t]
  OBVIOUS
<1>1. /\ dpc[t] = "set" /\ dpc'[t] \notin {"set", "gone"}
      /\ add[t] = IF data[t][n] THEN -1 ELSE 1
      /\ UNCHANGED <<dataCount, table, itr>>
      /\ data' = [data EXCEPT ![t][n] = (add[t] = 1)]
  BY <1>0 DEF SetValue, SetsMade, Callbacks
<1>2. RoundsOf(t)
  OBVIOUS
<1>3. data'[t][n] = (add[t] = 1) /\ \A k \in Keys \ {n} : data'[t][k] = data[t][k]
  BY <1>1
<1>4. IsFiniteSet(Values(t)) /\ Cardinality(Values(t)) \in Nat
  BY ValuesFinite
<1>5. Cardinality(Values(t)') = Cardinality(Values(t)) + add[t]
  <2>1. CASE data[t][n]
    <3>0. ~data'[t][n]
      <4>1. add[t] # 1
        BY <1>1, <2>1
      <4> QED
        BY <1>3, <4>1
    <3>1. Values(t)' = Values(t) \ {n} /\ n \in Values(t)
      BY <1>3, <2>1, <3>0 DEF Values
    <3> QED
      BY <1>1, <1>4, <2>1, <3>1, FS_RemoveElement
  <2>2. CASE ~data[t][n]
    <3>1. Values(t)' = Values(t) \cup {n} /\ n \notin Values(t)
      BY <1>1, <1>3, <2>2 DEF Values
    <3> QED
      BY <1>1, <1>4, <2>2, <3>1, FS_AddElement
  <2> QED
    BY <2>1, <2>2
<1>6. table[t] = "there"
  BY <1>1, <1>2 DEF RoundsOf
<1>7. dataCount'[t] = Cardinality(Values(t)') /\ itr[t] < Iterations
  BY <1>1, <1>2, <1>5 DEF RoundsOf
<1> QED
  BY <1>1, <1>6, <1>7 DEF RoundsOf

\* The round goes on, the next one begins, or it was the last.
LEMMA RoundsNextKey ==
  ASSUME KeyInv, RoundsInv, NEW t \in Threads, NextKey(t), dpc[t] \notin {"set", "gone"}
  PROVE  /\ dpc'[t] \in {"sweep", "gone"} /\ itr'[t] \in Nat
         /\ dpc'[t] = "sweep" => itr'[t] < Iterations /\ table'[t] = table[t]
         /\ dpc'[t] = "gone" => itr'[t] = Iterations /\ table'[t] = "freed"
<1> USE DEF KeyInv, DataShapes, RoundsInv, RoundsTypes, DataGoto
<1>1. PICK r \in Nat :
        /\ itr' = [itr EXCEPT ![t] = r]
        /\ \/ r < Iterations /\ UNCHANGED table /\ dpc' = [dpc EXCEPT ![t] = "sweep"]
           \/ r = Iterations /\ table' = [table EXCEPT ![t] = "freed"]
              /\ dpc' = [dpc EXCEPT ![t] = "gone"]
  <2>1. itr[t] \in Nat /\ itr[t] + 1 \in Nat
    OBVIOUS
  <2> QED
    BY <2>1 DEF NextKey
<1> QED
  BY <1>1

LEMMA RoundsSweep ==
  ASSUME KeyInv, RoundsInv, NEW t \in Threads, SweepValue(t) \/ SweepOn(t) \/ Uncount(t)
  PROVE  RoundsOf(t)'
<1> USE DEF KeyInv, DataShapes, RoundsInv, RoundsTypes, DataAt, DataGoto, handlers, loop, setCall
<1>1. RoundsOf(t) /\ IsFiniteSet(Values(t)) /\ Cardinality(Values(t)) \in Nat
  BY ValuesFinite
<1>2. dpc[t] \in {"sweep", "uncount"} /\ dataCount[t] = Cardinality(Values(t)) /\ table[t] # "freed"
  BY <1>1 DEF SweepValue, SweepOn, Uncount, RoundsOf
<1>3. CASE SweepValue(t)
  <2>0. PICK n \in Keys : n = key[t]
    OBVIOUS
  <2>1. /\ data[t][n] /\ data' = [data EXCEPT ![t][n] = FALSE]
        /\ dataCount'[t] = dataCount[t] - 1 /\ dpc'[t] \in {"dtor", "uncount"}
        /\ UNCHANGED <<table, itr>>
    BY <1>3, <2>0 DEF SweepValue
  <2>2. Values(t)' = Values(t) \ {n} /\ n \in Values(t)
    BY <2>1 DEF Values
  <2>3. Cardinality(Values(t)') = Cardinality(Values(t)) - 1
    BY <1>1, <2>2, FS_RemoveElement
  <2>4. Values(t) # {} /\ table[t] = "there"
    BY <1>1, <1>2, <2>2 DEF RoundsOf
  <2>5. dataCount'[t] = Cardinality(Values(t)') /\ itr[t] < Iterations
    BY <1>1, <1>2, <2>1, <2>3 DEF RoundsOf
  <2> QED
    BY <2>1, <2>4, <2>5 DEF RoundsOf
<1>4. CASE NextKey(t) /\ UNCHANGED <<data, dataCount>>
  <2>1. Values(t)' = Values(t)
    BY <1>4 DEF Values
  <2>2. /\ dpc'[t] \in {"sweep", "gone"}
        /\ dpc'[t] = "sweep" => itr'[t] < Iterations /\ table'[t] = table[t]
        /\ dpc'[t] = "gone" => itr'[t] = Iterations /\ table'[t] = "freed"
    BY <1>2, <1>4, RoundsNextKey
  <2> QED
    BY <1>1, <1>2, <1>4, <2>1, <2>2 DEF RoundsOf
<1>5. CASE SweepOn(t) /\ dataCount[t] = 0 /\ dpc'[t] = "gone"
  <2>1. Values(t)' = Values(t) /\ UNCHANGED <<data, dataCount>>
    BY <1>5 DEF SweepOn, Values
  <2>2. Values(t) = {}
    BY <1>1, <1>2, <1>5, FS_EmptySet
  <2> QED
    BY <1>2, <1>5, <2>1, <2>2 DEF RoundsOf, SweepOn
<1>6. SweepOn(t) => \/ NextKey(t) /\ UNCHANGED <<data, dataCount>>
                    \/ dataCount[t] = 0 /\ dpc'[t] = "gone"
  BY DEF SweepOn
<1>7. Uncount(t) => NextKey(t) /\ UNCHANGED <<data, dataCount>>
  BY DEF Uncount
<1> QED
  BY <1>3, <1>4, <1>5, <1>6, <1>7

LEMMA RoundsStep ==
  ASSUME KeyInv, RoundsInv, [KeyOnceNext]_keyOnceVars
  PROVE  RoundsInv'
<1>1. ASSUME NEW t \in Threads, DataAction(t) \/ CreateKey(t) \/ Ready(t)
      PROVE  RoundsInv'
  <2>1. RoundsOf(t)'
    BY <1>1, RoundsQuiet, RoundsSet, RoundsSetValue, RoundsSweep DEF DataAction, DataStep, UserCall
  <2> QED
    BY <1>1, <2>1, RoundsTypesStep, RoundsOthers DEF RoundsInv
<1>2. CASE UNCHANGED dataVars
  BY <1>2 DEF dataVars, ownData, loop, setCall, RoundsInv, RoundsTypes, RoundsOf, Values
<1> QED
  BY <1>1, <1>2, KeyOnceSplits DEF OncePart, keyOnceVars

LEMMA RoundsInvariance ==
  ASSUME ~StaticInit, IsFiniteSet(Threads)
  PROVE  KeyOnceSpec => []RoundsInv
<1>1. KeyOnceInit => RoundsInv
  <2> SUFFICES ASSUME KeyOnceInit PROVE RoundsInv
    OBVIOUS
  <2>1. RoundsTypes
    BY DEF KeyOnceInit, DataInit, RoundsTypes
  <2>2. \A t \in Threads : Values(t) = {}
    BY DEF KeyOnceInit, DataInit, Values
  <2>3. Cardinality({}) = 0 /\ 0 < Iterations
    BY FS_EmptySet, KeyAssumption
  <2>4. ASSUME NEW t \in Threads PROVE RoundsOf(t)
    <3>1. Cardinality(Values(t)) = 0 /\ Values(t) = {}
      BY <2>2, <2>3
    <3>2. /\ dataCount[t] = 0 /\ dpc[t] = "idle" /\ table[t] = "none" /\ itr[t] = 0
      BY DEF KeyOnceInit, DataInit
    <3> QED
      BY <2>3, <3>1, <3>2 DEF RoundsOf
  <2> QED
    BY <2>1, <2>4 DEF RoundsInv
<1>2. KeyInv /\ RoundsInv /\ [KeyOnceNext]_keyOnceVars => RoundsInv'
  BY RoundsStep
<1> QED
  BY <1>1, <1>2, KeyInvariance, PTL DEF KeyOnceSpec

\* A thread dies with a value only after the last of the rounds of
\* _thread_cleanupspecific, whatever its handlers and destructors set:
\* specific_data_count does not lose a value.
THEOREM DestructorsRunAlways ==
  ASSUME ~StaticInit, IsFiniteSet(Threads)
  PROVE  KeyOnceSpec => []DestructorsRun
<1>1. RoundsInv => DestructorsRun
  BY DEF RoundsInv, RoundsOf, Values, DestructorsRun
<1> QED
  BY <1>1, RoundsInvariance, PTL

-----------------------------------------------------------------------------
(***************************************************************************)
(* The bounds of what is counted.                                          *)
(***************************************************************************)
\* The handlers on a stack have been pushed, and the rounds end.
BoundsInv ==
  /\ destructor \in [Keys -> BOOLEAN]
  /\ cleanup \in [Threads -> Nat]
  /\ pushes \in [Threads -> Nat]
  /\ \A t \in Threads : cleanup[t] <= pushes[t] /\ pushes[t] <= MaxPush /\ itr[t] <= Iterations

LEMMA BoundsStep ==
  ASSUME KeyInv, RoundsInv, BoundsInv, NEW t \in Threads,
         DataAction(t) \/ CreateKey(t) \/ Ready(t)
  PROVE  BoundsInv'
<1> USE DEF BoundsInv, keyTable, handlers, loop
<1>1. CASE CreateKey(t) \/ CreateTest(t) \/ CreateCount(t) \/ Ready(t)
  BY <1>1 DEF CreateKey, CreateTest, CreateCount, Ready
<1>2. CASE CreateDestructor(t)
  <2>1. (key[t] \in Destroyed) \in BOOLEAN
    OBVIOUS
  <2>2. destructor' \in [Keys -> BOOLEAN]
    BY <1>2, <2>1 DEF CreateDestructor
  <2> QED
    BY <1>2, <2>2 DEF CreateDestructor
<1>3. CASE ExitData(t) \/ CallbackReturns(t) \/ SetValue(t) \/ SweepValue(t)
  BY <1>3 DEF ExitData, CallbackReturns, SetValue, SweepValue
<1>4. CASE PopAll(t) \/ Pop(t)
  <2>1. UNCHANGED <<destructor, pushes, itr>>
    BY <1>4 DEF PopAll, Pop
  <2>2. \/ UNCHANGED cleanup
        \/ cleanup[t] > 0 /\ cleanup' = [cleanup EXCEPT ![t] = cleanup[t] - 1]
    BY <1>4 DEF PopAll, Pop
  <2> QED
    BY <2>1, <2>2
<1>5. CASE Push(t)
  <2>1. /\ pushes[t] < MaxPush /\ UNCHANGED <<destructor, itr>>
        /\ pushes' = [pushes EXCEPT ![t] = pushes[t] + 1]
        /\ cleanup' = [cleanup EXCEPT ![t] = cleanup[t] + 1]
    BY <1>5 DEF Push
  <2>2. MaxPush \in Nat
    BY KeyAssumption
  <2> QED
    BY <2>1, <2>2
<1>6. CASE SweepOn(t) \/ Uncount(t)
  <2>1. UNCHANGED <<destructor, cleanup, pushes>>
    BY <1>6 DEF SweepOn, Uncount
  <2>2. UNCHANGED itr \/ (NextKey(t) /\ dpc[t] \notin {"set", "gone"})
    BY <1>6 DEF SweepOn, Uncount, DataAt
  <2>3. ASSUME NextKey(t), dpc[t] \notin {"set", "gone"} PROVE BoundsInv'
    <3>1. itr'[t] <= Iterations
      BY <2>3, RoundsNextKey, KeyAssumption
    <3>2. \A u \in Threads \ {t} : itr'[u] = itr[u]
      BY <2>3 DEF NextKey, RoundsInv, RoundsTypes
    <3> QED
      BY <2>1, <3>1, <3>2
  <2> QED
    BY <2>1, <2>2, <2>3
<1>7. ASSUME NEW k \in Keys, NEW v \in BOOLEAN, SetEnter(t, k, v) \/ SetUnseen(t, k, v)
      PROVE  BoundsInv'
  BY <1>7 DEF SetEnter, SetUnseen
<1>8. ASSUME NEW k \in Keys, DeleteKey(t, k) PROVE BoundsInv'
  BY <1>8 DEF DeleteKey
<1> QED
  BY <1>1, <1>2, <1>3, <1>4, <1>5, <1>6, <1>7, <1>8 DEF DataAction, DataStep, UserCall

LEMMA BoundsInvariance ==
  ASSUME ~StaticInit, IsFiniteSet(Threads)
  PROVE  KeyOnceSpec => []BoundsInv
<1>1. KeyOnceInit => BoundsInv
  BY KeyAssumption DEF KeyOnceInit, DataInit, BoundsInv
<1>2. KeyInv /\ RoundsInv /\ BoundsInv /\ [KeyOnceNext]_keyOnceVars => BoundsInv'
  <2> SUFFICES ASSUME KeyInv, RoundsInv, BoundsInv, [KeyOnceNext]_keyOnceVars PROVE BoundsInv'
    OBVIOUS
  <2>1. CASE UNCHANGED dataVars
    BY <2>1 DEF dataVars, keyTable, handlers, loop, BoundsInv
  <2> QED
    BY <2>1, BoundsStep, KeyOnceSplits DEF OncePart, keyOnceVars
<1> QED
  BY <1>1, <1>2, KeyInvariance, RoundsInvariance, PTL DEF KeyOnceSpec

\* The counts of the keys: one for the key, one for every thread that has a
\* value and one for every thread that still has to take its own down.
LEMMA CountBound ==
  ASSUME IsFiniteSet(Threads), KeyInv
  PROVE  count \in [Keys -> 0..(2 * Cardinality(Threads) + 1)]
<1>1. ASSUME NEW k \in Keys PROVE count[k] \in 0..(2 * Cardinality(Threads) + 1)
  <2>1. Holders(k) \in SUBSET Threads /\ Owing(k) \in SUBSET Threads
    BY DEF Holders, Owing
  <2>2. Cardinality(Threads) \in Nat
    BY FS_CardinalityType
  <2>3. Cardinality(Holders(k)) <= Cardinality(Threads)
    BY <2>1, FS_Subset
  <2>4. Cardinality(Owing(k)) <= Cardinality(Threads)
    BY <2>1, FS_Subset
  <2>5. Cardinality(Holders(k)) \in Nat /\ Cardinality(Owing(k)) \in Nat
    BY CountsTyped
  <2>6. count[k] = (IF Exists(k) THEN 1 ELSE 0) + Cardinality(Holders(k)) + Cardinality(Owing(k))
    BY DEF KeyInv, CountsKept
  <2> QED
    BY <2>2, <2>3, <2>4, <2>5, <2>6
<1>2. count \in [Keys -> Int]
  BY DEF KeyInv, DataShapes
<1> QED
  BY <1>1, <1>2

\* A thread counts a value before it is there, but none twice.
LEMMA DataCountBound ==
  ASSUME KeyInv, RoundsInv
  PROVE  dataCount \in [Threads -> 0..KeysMax]
<1>1. IsFiniteSet(Keys) /\ Cardinality(Keys) = KeysMax
  <2>1. KeysMax \in Nat \ {0}
    BY KeyAssumption
  <2>2. 0 \in Int /\ KeysMax - 1 \in Int /\ KeysMax - 1 - 0 + 1 = KeysMax /\ 0 <= KeysMax - 1
    BY <2>1
  <2>3. IsFiniteSet(0..(KeysMax - 1))
    BY <2>2, FS_Interval
  <2>4. Cardinality(0..(KeysMax - 1)) = KeysMax
    BY <2>2, FS_Interval
  <2> QED
    BY <2>3, <2>4 DEF Keys
<1>2. ASSUME NEW t \in Threads PROVE dataCount[t] \in 0..KeysMax
  <2>1. IsFiniteSet(Values(t)) /\ Cardinality(Values(t)) \in Nat /\ KeysMax \in Nat
    BY ValuesFinite, KeyAssumption
  <2>2. dataCount[t] = Cardinality(Values(t)) + (IF dpc[t] = "set" THEN add[t] ELSE 0)
    BY DEF RoundsInv, RoundsOf
  <2>3. Cardinality(Values(t)) <= KeysMax
    <3>1. Values(t) \in SUBSET Keys
      BY DEF Values
    <3> QED
      BY <1>1, <3>1, FS_Subset
  <2>4. CASE dpc[t] # "set"
    BY <2>1, <2>2, <2>3, <2>4
  <2>5. CASE dpc[t] = "set"
    <3>1. PICK n \in Keys : n = setting[t]
      BY DEF KeyInv, DataShapes
    <3>2. add[t] = IF data[t][n] THEN -1 ELSE 1
      BY <2>5, <3>1 DEF KeyInv, SetsMade
    <3>3. CASE data[t][n]
      <4>1. n \in Values(t)
        BY <3>3 DEF Values
      <4>2. Cardinality(Values(t)) # 0
        BY <2>1, <4>1, FS_EmptySet
      <4> QED
        BY <2>1, <2>2, <2>3, <2>5, <3>2, <3>3, <4>2
    <3>4. CASE ~data[t][n]
      <4>1. n \notin Values(t) /\ Values(t) \cup {n} \in SUBSET Keys
        BY <3>4 DEF Values
      <4>2. Cardinality(Values(t) \cup {n}) = Cardinality(Values(t)) + 1
        BY <2>1, <4>1, FS_AddElement
      <4>3. Cardinality(Values(t) \cup {n}) <= KeysMax
        BY <1>1, <4>1, FS_Subset
      <4> QED
        BY <2>1, <2>2, <2>5, <3>2, <3>4, <4>2, <4>3
    <3> QED
      BY <3>3, <3>4
  <2> QED
    BY <2>4, <2>5
<1> QED
  BY <1>2 DEF RoundsInv, RoundsTypes

\* pthread_once and its mutex, the key table and what threads keep of their
\* own stay within their types: no count of uthread_spec.c is taken below
\* zero, and specific_data_count not above the number of keys.
THEOREM KeyOnceTypeCorrect ==
  ASSUME ~StaticInit, IsFiniteSet(Threads)
  PROVE  KeyOnceSpec => []KeyOnceTypeOK
<1> DEFINE Somebody == runs = 0 \/ Threads # {}
<1>0. KeyOnceSpec => []Somebody
  <2>1. KeyOnceInit => Somebody
    BY DEF KeyOnceInit, OnceInit
  <2>2. Somebody /\ [KeyOnceNext]_keyOnceVars => Somebody'
    BY DEF KeyOnceNext, keyOnceVars, onceVars
  <2> QED
    BY <2>1, <2>2, PTL DEF KeyOnceSpec
<1>1. OnceInv /\ Somebody => OnceTypeOK
  <2> SUFFICES ASSUME OnceInv, Somebody PROVE OnceTypeOK
    OBVIOUS
  <2>1. runs \in 0..Cardinality(Threads)
    <3>1. Cardinality(Threads) \in Nat /\ Cardinality({}) = 0
      BY FS_CardinalityType, FS_EmptySet
    <3>2. runs = 0 \/ runs = 1
      BY DEF OnceInv, Progress
    <3>3. CASE runs = 0
      BY <3>1, <3>3
    <3>4. CASE runs = 1
      <4>1. Threads # {}
        BY <3>4
      <4>2. Cardinality(Threads) # 0
        BY <4>1, FS_EmptySet
      <4> QED
        BY <3>1, <3>4, <4>2
    <3> QED
      BY <3>2, <3>3, <3>4
  <2> QED
    BY <2>1 DEF OnceInv, OnceTypeOK, IInv, Progress
<1>2. KeyInv /\ RoundsInv /\ BoundsInv => DataTypeOK
  <2> SUFFICES ASSUME KeyInv, RoundsInv, BoundsInv PROVE DataTypeOK
    OBVIOUS
  <2>1. cleanup \in [Threads -> 0..MaxPush] /\ pushes \in [Threads -> 0..MaxPush]
    BY KeyAssumption DEF BoundsInv
  <2>2. itr \in [Threads -> 0..Iterations]
    BY KeyAssumption DEF BoundsInv, RoundsInv, RoundsTypes
  <2>3. table \in [Threads -> {"none", "there", "freed"}] /\ destructor \in [Keys -> BOOLEAN]
    BY DEF RoundsInv, RoundsTypes, BoundsInv
  <2> QED
    BY <2>1, <2>2, <2>3, CountBound, DataCountBound DEF DataTypeOK, KeyInv, DataShapes
<1> QED
  BY <1>0, <1>1, <1>2, OnceInvariance, KeyInvariance, RoundsInvariance, BoundsInvariance,
     PTL DEF KeyOnceTypeOK
=============================================================================
