----------------------------- MODULE ThreadData -----------------------------
(***************************************************************************)
(* Thread-specific data (uthread_spec.c) and cleanup handlers              *)
(* (uthread_clean.c), with the part of pthread_exit that runs the handlers *)
(* and the destructors.                                                    *)
(*                                                                         *)
(* The key table is shared and nothing guards it: DosEnterMustComplete     *)
(* holds signals up, not threads.  What a thread keeps of its own, its     *)
(* table of values and its handlers, changes together with the next step   *)
(* that others can see.  Of a value only its being non-NULL matters.       *)
(***************************************************************************)
EXTENDS Pthreads, Integers, FiniteSets

CONSTANTS
  KeysMax,       \* PTHREAD_KEYS_MAX
  Iterations,    \* PTHREAD_DESTRUCTOR_ITERATIONS
  Destroyed,     \* bound: the keys that are created with a destructor
  Pushers,       \* bound: the threads that push cleanup handlers,
  MaxPush        \* and how many each pushes in its life

ASSUME KeyAssumption ==
  /\ KeysMax \in Nat \ {0}
  /\ Iterations \in Nat \ {0}
  /\ Destroyed \subseteq 0..(KeysMax - 1)
  /\ Pushers \subseteq Threads
  /\ MaxPush \in Nat

Keys == 0..(KeysMax - 1)

VARIABLES
  count,        \* count of every entry of key_table
  destructor,   \* has it a destructor?
  made,         \* the keys that calls of pthread_key_create have handed out
  data,         \* specific_data: has the thread a value for the key?
  dataCount,    \* specific_data_count
  table,        \* the table of the thread's values
  cleanup,      \* the handlers on the thread's stack
  pushes,       \* the handlers it has pushed so far
  dpc,          \* where it is
  key, itr,     \* the loop variables of its pthread_key_create or exit
  setting,      \* the key of its pthread_setspecific
  add,          \* what that adds to the count of the key
  from          \* where it returns to

keyTable == <<count, destructor, made>>
ownData  == <<data, dataCount, table>>
handlers == <<cleanup, pushes>>
loop     == <<key, itr>>
setCall  == <<setting, add, from>>
dataVars == <<keyTable, ownData, handlers, dpc, loop, setCall>>

\* In "handler" and "dtor" the application's own code runs.
Callbacks == {"handler", "dtor"}
DataPlaces == Callbacks \cup
  {"idle", "create", "createcount", "createdtor", "ready", "set", "pop", "sweep",
   "uncount", "gone"}

DataTypeOK ==
  /\ count \in [Keys -> 0..(2 * Cardinality(Threads) + 1)]
  /\ destructor \in [Keys -> BOOLEAN]
  /\ made \subseteq Keys
  /\ data \in [Threads -> [Keys -> BOOLEAN]]
  /\ dataCount \in [Threads -> 0..KeysMax]
  /\ table \in [Threads -> {"none", "there", "freed"}]
  /\ {cleanup, pushes} \subseteq [Threads -> 0..MaxPush]
  /\ dpc \in [Threads -> DataPlaces]
  /\ key \in [Threads -> Keys]
  /\ itr \in [Threads -> 0..Iterations]
  /\ setting \in [Threads -> Keys]
  /\ add \in [Threads -> -1..1]
  /\ from \in [Threads -> Callbacks \cup {"ready"}]

DataInit ==
  /\ count = [k \in Keys |-> 0]
  /\ destructor = [k \in Keys |-> FALSE]
  /\ made = {}
  /\ data = [t \in Threads |-> [k \in Keys |-> FALSE]]
  /\ dataCount = [t \in Threads |-> 0]
  /\ table = [t \in Threads |-> "none"]
  /\ cleanup = [t \in Threads |-> 0]
  /\ pushes = [t \in Threads |-> 0]
  /\ dpc = [t \in Threads |-> "idle"]
  /\ key = [t \in Threads |-> 0]
  /\ itr = [t \in Threads |-> 0]
  /\ setting = [t \in Threads |-> 0]
  /\ add = [t \in Threads |-> 0]
  /\ from = [t \in Threads |-> "ready"]

-----------------------------------------------------------------------------
DataAt(t, l)   == dpc[t] = l
DataGoto(t, l) == dpc' = [dpc EXCEPT ![t] = l]

\* ++ and -- on a count of the key table: one instruction, which on one
\* processor no other thread comes into.
Count(k, d) == count' = [count EXCEPT ![k] = @ + d]

-----------------------------------------------------------------------------
(***************************************************************************)
(* Wrong versions of some operations, for trying the properties out.       *)
(***************************************************************************)
\* Setting a value that was there before is counted again.
ChangeAlways(t, k, v) == IF v THEN 1 ELSE IF data[t][k] THEN -1 ELSE 0

\* Every non-zero count is taken for 1.
DeleteKeyInUse(t, k) ==
  /\ DataAt(t, "ready")
  /\ count[k] > 0
  /\ destructor' = [destructor EXCEPT ![k] = FALSE]
  /\ count' = [count EXCEPT ![k] = 0]
  /\ made' = made \ {k}
  /\ UNCHANGED <<ownData, handlers, dpc, loop, setCall>>

\* One handler runs, whatever it or others before it have pushed.
PopOne(t) ==
  /\ DataAt(t, "pop")
  /\ cleanup' = [cleanup EXCEPT ![t] = IF @ > 0 THEN @ - 1 ELSE 0]
  /\ DataGoto(t, IF table[t] = "there" THEN "sweep" ELSE "gone")
  /\ UNCHANGED <<keyTable, ownData, pushes, loop, setCall>>

\* The rounds are not counted.
NextKeyForEver(t) ==
  /\ key' = [key EXCEPT ![t] = (@ + 1) % KeysMax]
  /\ UNCHANGED <<itr, table>>
  /\ DataGoto(t, "sweep")

\* One round only.
NextKeyOneRound(t) ==
  /\ key' = [key EXCEPT ![t] = (@ + 1) % KeysMax]
  /\ UNCHANGED itr
  /\ \/ key[t] + 1 < KeysMax /\ UNCHANGED table /\ DataGoto(t, "sweep")
     \/ key[t] + 1 = KeysMax /\ table' = [table EXCEPT ![t] = "freed"] /\ DataGoto(t, "gone")

-----------------------------------------------------------------------------
(***************************************************************************)
(* pthread_key_create: the search for a free entry, ++, the destructor.    *)
(***************************************************************************)
CreateKey(t) ==
  /\ DataAt(t, "idle")
  /\ key' = [key EXCEPT ![t] = 0]
  /\ DataGoto(t, "create")
  /\ UNCHANGED <<keyTable, ownData, handlers, itr, setCall>>

CreateTest(t) ==
  /\ DataAt(t, "create")
  /\ \/ count[key[t]] = 0 /\ DataGoto(t, "createcount") /\ UNCHANGED key
     \/ /\ count[key[t]] # 0
        /\ key[t] + 1 \in Keys
        /\ key' = [key EXCEPT ![t] = @ + 1]
        /\ UNCHANGED dpc
     \/ /\ count[key[t]] # 0
        /\ key[t] + 1 \notin Keys     \* EAGAIN
        /\ key' = [key EXCEPT ![t] = 0]
        /\ DataGoto(t, "idle")
  /\ UNCHANGED <<keyTable, ownData, handlers, itr, setCall>>

CreateCount(t) ==
  /\ DataAt(t, "createcount")
  /\ Count(key[t], 1)
  /\ DataGoto(t, "createdtor")
  /\ UNCHANGED <<destructor, made, ownData, handlers, loop, setCall>>

\* The key is the caller's when the call returns.
CreateDestructor(t) ==
  /\ DataAt(t, "createdtor")
  /\ destructor' = [destructor EXCEPT ![key[t]] = key[t] \in Destroyed]
  /\ made' = made \cup {key[t]}
  /\ key' = [key EXCEPT ![t] = 0]
  /\ DataGoto(t, "idle")
  /\ UNCHANGED <<count, ownData, handlers, itr, setCall>>

\* The thread begins to use the keys.
Ready(t) ==
  /\ DataAt(t, "idle")
  /\ DataGoto(t, "ready")
  /\ UNCHANGED <<keyTable, ownData, handlers, loop, setCall>>

(***************************************************************************)
(* pthread_key_delete.  The application deletes a key while nobody is in a *)
(* pthread_setspecific of it; otherwise the call changes nothing.          *)
(***************************************************************************)
NobodySets(k) == \A u \in Threads : dpc[u] = "set" => setting[u] # k

DeleteKey(t, k) ==
  /\ DataAt(t, "ready")
  /\ count[k] = 1
  /\ destructor' = [destructor EXCEPT ![k] = FALSE]
  /\ count' = [count EXCEPT ![k] = 0]
  /\ made' = made \ {k}
  /\ UNCHANGED <<ownData, handlers, dpc, loop, setCall>>

-----------------------------------------------------------------------------
\* What the value changes in the counts.
Change(t, k, v) ==
  IF v /\ ~data[t][k] THEN 1 ELSE IF ~v /\ data[t][k] THEN -1 ELSE 0

(***************************************************************************)
(* pthread_setspecific, of a value (v) or of NULL: the table, the test of  *)
(* the count, the thread's own count; then the count of the key, and the   *)
(* value.                                                                  *)
(***************************************************************************)
SetEnter(t, k, v) ==
  /\ dpc[t] \in Callbacks \cup {"ready"}
  /\ count[k] # 0
  /\ Change(t, k, v) # 0
  /\ table' = [table EXCEPT ![t] = "there"]
  /\ dataCount' = [dataCount EXCEPT ![t] = @ + Change(t, k, v)]
  /\ setting' = [setting EXCEPT ![t] = k]
  /\ add' = [add EXCEPT ![t] = Change(t, k, v)]
  /\ from' = [from EXCEPT ![t] = dpc[t]]
  /\ DataGoto(t, "set")
  /\ UNCHANGED <<keyTable, data, handlers, loop>>

\* A call that others cannot see: one value for another, NULL for NULL, or
\* EINVAL, with the table there or not.  ENOMEM leaves everything alone.
SetUnseen(t, k, v) ==
  /\ dpc[t] \in Callbacks \cup {"ready"}
  /\ count[k] = 0 \/ Change(t, k, v) = 0
  /\ table' = [table EXCEPT ![t] = "there"]
  /\ UNCHANGED <<keyTable, data, dataCount, handlers, dpc, loop, setCall>>

SetValue(t) ==
  /\ DataAt(t, "set")
  /\ Count(setting[t], add[t])
  /\ data' = [data EXCEPT ![t][setting[t]] = (add[t] = 1)]
  /\ DataGoto(t, from[t])
  /\ setting' = [setting EXCEPT ![t] = 0]
  /\ add' = [add EXCEPT ![t] = 0]
  /\ from' = [from EXCEPT ![t] = "ready"]
  /\ UNCHANGED <<destructor, made, dataCount, table, handlers, loop>>

\* pthread_getspecific
Specific(t, k) == table[t] = "there" /\ count[k] # 0 /\ data[t][k]

-----------------------------------------------------------------------------
\* pthread_cleanup_push, also by a handler that runs.
Push(t) ==
  /\ dpc[t] \in {"ready", "handler"}
  /\ t \in Pushers /\ pushes[t] < MaxPush
  /\ pushes' = [pushes EXCEPT ![t] = @ + 1]
  /\ cleanup' = [cleanup EXCEPT ![t] = @ + 1]
  /\ UNCHANGED <<keyTable, ownData, dpc, loop, setCall>>

\* pthread_cleanup_pop(0); what a handler does when it runs here it could
\* have done as part of the thread's routine.
Pop(t) ==
  /\ DataAt(t, "ready")
  /\ cleanup[t] > 0
  /\ cleanup' = [cleanup EXCEPT ![t] = @ - 1]
  /\ UNCHANGED <<keyTable, ownData, pushes, dpc, loop, setCall>>

(***************************************************************************)
(* pthread_exit: all handlers, the one of the attributes (cleanup_attr)    *)
(* being the last, and _thread_cleanupspecific if the thread has a table.  *)
(***************************************************************************)
ExitData(t) ==
  /\ DataAt(t, "ready")
  /\ DataGoto(t, "pop")
  /\ UNCHANGED <<keyTable, ownData, handlers, loop, setCall>>

PopAll(t) ==
  /\ DataAt(t, "pop")
  /\ \/ cleanup[t] > 0 /\ cleanup' = [cleanup EXCEPT ![t] = @ - 1] /\ DataGoto(t, "handler")
     \/ /\ cleanup[t] = 0
        /\ UNCHANGED cleanup
        /\ DataGoto(t, IF table[t] = "there" THEN "sweep" ELSE "gone")
  /\ UNCHANGED <<keyTable, ownData, pushes, loop, setCall>>

\* A callback returns.
CallbackReturns(t) ==
  /\ \/ DataAt(t, "handler") /\ DataGoto(t, "pop")
     \/ DataAt(t, "dtor") /\ DataGoto(t, "uncount")
  /\ UNCHANGED <<keyTable, ownData, handlers, loop, setCall>>

\* The two loops of _thread_cleanupspecific, and the free after them.
NextKey(t) ==
  LET round == IF key[t] + 1 < KeysMax THEN itr[t] ELSE itr[t] + 1
  IN /\ key' = [key EXCEPT ![t] = (@ + 1) % KeysMax]
     /\ itr' = [itr EXCEPT ![t] = round]
     /\ \/ round < Iterations /\ UNCHANGED table /\ DataGoto(t, "sweep")
        \/ round = Iterations /\ table' = [table EXCEPT ![t] = "freed"] /\ DataGoto(t, "gone")

\* The value goes, and its destructor runs.
SweepValue(t) ==
  /\ DataAt(t, "sweep")
  /\ dataCount[t] # 0
  /\ data[t][key[t]]
  /\ data' = [data EXCEPT ![t][key[t]] = FALSE]
  /\ dataCount' = [dataCount EXCEPT ![t] = @ - 1]
  /\ DataGoto(t, IF destructor[key[t]] THEN "dtor" ELSE "uncount")
  /\ UNCHANGED <<keyTable, table, handlers, loop, setCall>>

SweepOn(t) ==
  /\ DataAt(t, "sweep")
  /\ \/ dataCount[t] # 0 /\ ~data[t][key[t]] /\ NextKey(t)
     \/ /\ dataCount[t] = 0
        /\ table' = [table EXCEPT ![t] = "freed"]
        /\ DataGoto(t, "gone")
        /\ UNCHANGED loop
  /\ UNCHANGED <<keyTable, data, dataCount, handlers, setCall>>

Uncount(t) ==
  /\ DataAt(t, "uncount")
  /\ Count(key[t], -1)
  /\ NextKey(t)
  /\ UNCHANGED <<destructor, made, data, dataCount, handlers, setCall>>

-----------------------------------------------------------------------------
\* What a thread or one of its callbacks may do.  Bound: handlers do not
\* call pthread_setspecific, and destructors only with a value.
UserCall(t) ==
  \/ /\ dpc[t] # "handler"
     /\ \E k \in Keys, v \in BOOLEAN :
          /\ dpc[t] = "dtor" => v
          /\ SetEnter(t, k, v) \/ SetUnseen(t, k, v)
  \/ Push(t) \/ Pop(t)
  \/ \E k \in Keys : NobodySets(k) /\ DeleteKey(t, k)

\* What goes on by itself; every callback returns.
DataStep(t) ==
  \/ CreateTest(t) \/ CreateCount(t) \/ CreateDestructor(t) \/ SetValue(t)
  \/ PopAll(t) \/ SweepValue(t) \/ SweepOn(t) \/ Uncount(t)

-----------------------------------------------------------------------------
\* Between calls the count of a key is one for the key and one for every
\* thread that has a value, those included that died with it; so
\* pthread_key_delete answers EBUSY exactly while somebody has one.
KeyCounted ==
  (\A t \in Threads : dpc[t] \in {"idle", "ready", "pop", "handler", "gone"}) =>
    \A k \in made : count[k] = 1 + Cardinality({t \in Threads : data[t][k]})

\* A value a thread has set is what pthread_getspecific finds until the
\* thread ends, whatever others do to the key meanwhile.
ValueStays == \A t \in Threads, k \in Keys : table[t] = "there" /\ data[t][k] => Specific(t, k)

\* A thread dies with a value only after as many rounds of destructors as
\* PTHREAD_DESTRUCTOR_ITERATIONS: each must have set one again.
DestructorsRun ==
  \A t \in Threads : dpc[t] = "gone" /\ (\E k \in Keys : data[t][k]) => itr[t] = Iterations

\* The destructors come after every cleanup handler, those included that a
\* handler has pushed.
HandlersFirst ==
  \A t \in Threads : dpc[t] \in {"sweep", "dtor", "gone"} => cleanup[t] = 0

\* A thread that exits gets through its handlers and destructors, though
\* every destructor may set a value again.
ExitEnds == \A t \in Threads : dpc[t] = "pop" ~> dpc[t] = "gone"
=============================================================================
