---------------------------- MODULE SelectProofs ----------------------------
(***************************************************************************)
(* Proofs about Signals and Select, for every set of threads, of signals,  *)
(* of masks and of handlers: what is nested in a thread, the signals that  *)
(* its handlers keep blocked, the record of a select, and the mask that    *)
(* comes back.                                                             *)
(***************************************************************************)
EXTENDS Select, TLAPS, WellFoundedInduction, SequenceTheorems

\* The signal that is delivered is one of those that are pending.
LEMMA MinOfNats ==
  ASSUME NEW S, S \subseteq Nat, S # {}
  PROVE  Min(S) \in S
<1> DEFINE R == {ss \in Nat \X Nat : ss[1] < ss[2]}
<1>1. IsWellFoundedOn(R, Nat)
  BY NatLessThanWellFounded DEF OpToRel
<1> HIDE DEF R
<1>2. \E x \in S : \A y \in S : <<y, x>> \notin R
  BY <1>1, WFMin
<1>3. \E x \in S : \A y \in S : x <= y
  <2>1. PICK x \in S : \A y \in S : <<y, x>> \notin R
    BY <1>2
  <2>2. ASSUME NEW y \in S PROVE x <= y
    <3>1. x \in Nat /\ y \in Nat
      OBVIOUS
    <3>2. <<y, x>> \in R <=> y < x
      BY <3>1 DEF R
    <3> QED
      BY <2>1, <3>1, <3>2
  <2> QED
    BY <2>2
<1> QED
  BY <1>3 DEF Min

-----------------------------------------------------------------------------
(***************************************************************************)
(* The invariant: types first, as far as the other parts need them.        *)
(***************************************************************************)
MasksOK ==
  /\ signals \in [Threads -> [Sigs -> Dispositions]]
  /\ pending \in [Threads -> SUBSET Sigs]
  /\ blocked \in [Threads -> SUBSET Sigs]
  /\ old \in [Threads -> SUBSET Sigs]

FramesOK == frames \in [Threads -> Seq(Frames)]

PlacesOK ==
  /\ pc \in [Threads -> SigPlaces]
  /\ then \in [Threads -> Thens]

\* A thread in pthread_kill that is to add a signal knows which.
CallsOK ==
  /\ call = [t \in Threads |-> call[t]]
  /\ \A t \in Threads : pc[t] = "add" => call[t].sig \in Sigs

Typed == MasksOK /\ FramesOK /\ PlacesOK /\ CallsOK

\* The calls that wait are at the bottom: above them there are handlers, the
\* deliveries these begin, and their kills.
Below(p, n) == p = "run" \/ (p = "deliver" /\ n = "run")

Nested ==
  \A t \in Threads :
    /\ pc[t] \notin {"run", "deliver"} \cup InKill => Outside(t)
    /\ pc[t] = "deliver" /\ then[t] # "run" => Outside(t)
    /\ \A i \in 1..Len(frames[t]) : i = 1 \/ Below(frames[t][i].pc, frames[t][i].then)

\* The signal of a handler that runs is blocked, and will be when any of the
\* handlers above it has returned.
Shields(f) == f.mode # "SYSV" /\ ~f.acked

Shielded ==
  \A t \in Threads \ {Main} : \A i \in 1..Len(frames[t]) : Shields(frames[t][i]) =>
    /\ frames[t][i].sig \in blocked[t]
    /\ \A j \in (i+1)..Len(frames[t]) :
         frames[t][i].sig \in frames[t][j].old /\ frames[t][i].sig # frames[t][j].sig

\* Where the thread is below all its handlers.
BasePc(t)   == IF Outside(t) THEN pc[t] ELSE frames[t][1].pc
BaseThen(t) == IF Outside(t) THEN then[t] ELSE frames[t][1].then

Starting == \/ BasePc(Selecter) = "selecting"
            \/ BasePc(Selecter) = "deliver" /\ BaseThen(Selecter) = "selecting"

\* The record is there while the helper or the caller may look at it, the
\* helper is done with it when the caller collects, and there is no helper
\* when the next select starts.
SelTyped ==
  /\ sel \in [live : BOOLEAN, event : BOOLEAN, done : {0, 1, 3}, result : {-1, 0, 1}]
  /\ helper \in {"none", "poll", "copy", "test", "result", "post", "abandon"}
  /\ {found, answer} \subseteq {-1, 0, 1}

RecordKept ==
  /\ helper \notin {"none", "post"} => sel.live
  /\ BasePc(Selecter) \in {"select", "giveup", "collect"} => sel.live /\ sel.event
  /\ helper = "abandon" => ~sel.event
  /\ sel.live /\ sel.event /\ sel.done = 3 => helper \in {"post", "none"}
  /\ Starting => helper = "none" /\ answer <= 0
  /\ found = 1 /\ helper \in {"test", "result"} => copied
  /\ sel.result > 0 => copied

SigInv == Typed /\ Nested /\ Shielded
SelInv == SigInv /\ SelTyped /\ RecordKept /\ SelectSafe

-----------------------------------------------------------------------------
(***************************************************************************)
(* The steps that enter no handler and leave none.                         *)
(***************************************************************************)
Plain(t) ==
  \/ DeliverEnd(t) \/ KillGoesOn(t) \/ WaitEnds(t) \/ FdDone(t) \/ LockGranted(t)
  \/ KillEnter(t) \/ Yield(t)
  \/ \E s \in Sigs : Raise(t, s)
  \/ \E s \in Sigs, m \in NewModes : Install(t, s, m)
  \/ \E new \in NewMasks(t) : Sigmask(t, new)
  \/ \E w \in {"sleep", "pause", "fd", "lock"} : WaitStart(t, w)
  \/ \E mask \in Masks : SuspendStart(t, mask)

\* They move one thread, and start calls that wait outside of handlers only;
Moves(t) ==
  /\ UNCHANGED frames
  /\ \A u \in Threads \ {t} : pc'[u] = pc[u] /\ then'[u] = then[u] /\ blocked'[u] = blocked[u]
  /\ blocked'[t] = blocked[t] \/ Outside(t)
  /\ pc'[t] \notin {"run", "deliver"} \cup InKill => Outside(t)
  /\ pc'[t] = "deliver" /\ then'[t] # "run" => Outside(t)

\* and those of Signals take nobody into select.
Quiet(t) ==
  /\ pc'[t] \in {"select", "giveup", "collect"} => pc'[t] = pc[t]
  /\ pc'[t] = "selecting" => pc[t] = "selecting" \/ (pc[t] = "deliver" /\ then[t] = "selecting")
  /\ pc'[t] = "deliver" /\ then'[t] = "selecting" => pc[t] = "deliver" /\ then[t] = "selecting"

LEMMA PlainTypes ==
  ASSUME SigInv, NEW t \in Threads, Plain(t)
  PROVE  MasksOK' /\ FramesOK' /\ PlacesOK'
<1> USE ThreadAssumption, SignalAssumption
        DEF SigInv, Typed, MasksOK, PlacesOK, CallsOK, SigPlaces, Thens, InKill,
            masks, asked, DelPending, AddPending, Goto, Block, NewState, Note,
            Spend, DeliverPending, DeliverOrNote, At, Outside, WaitBegins
<1>1. CASE DeliverEnd(t)
  BY <1>1 DEF DeliverEnd, FramesOK
<1>2. CASE KillAdd(t)
  <2>1. call[t].sig \in Sigs
    BY <1>2 DEF KillAdd
  <2>2. pending' \in [Threads -> SUBSET Sigs]
    BY <1>2, <2>1 DEF KillAdd
  <2> QED
    BY <1>2, <2>2 DEF KillAdd, FramesOK
<1>3. CASE KillTell(t)
  BY <1>3 DEF KillTell, FramesOK
<1>4. CASE KillLeave(t)
  BY <1>4 DEF KillLeave, NoCall, FramesOK
<1>5. CASE WaitPosted(t)
  BY <1>5 DEF WaitPosted, FramesOK
<1>6. CASE SleepEnds(t)
  BY <1>6 DEF SleepEnds, FramesOK
<1>7. CASE Restore(t)
  BY <1>7 DEF Restore, FramesOK
<1>8. CASE FdDone(t)
  BY <1>8 DEF FdDone, FramesOK
<1>9. CASE LockGranted(t)
  BY <1>9 DEF LockGranted, FramesOK
<1>10. CASE KillEnter(t)
  BY <1>10 DEF KillEnter, FramesOK
<1>11. CASE Yield(t)
  BY <1>11 DEF Yield, FramesOK
<1>12. ASSUME NEW s \in Sigs, Raise(t, s)
      PROVE MasksOK' /\ FramesOK' /\ PlacesOK'
  BY <1>12 DEF Raise, FramesOK
<1>13. ASSUME NEW s \in Sigs, NEW m \in NewModes, Install(t, s, m)
      PROVE MasksOK' /\ FramesOK' /\ PlacesOK'
  <2>1. signals' \in [Threads -> [Sigs -> Dispositions]]
    <3>1. m \in Dispositions
      OBVIOUS
    <3> QED
      BY <1>13, <3>1 DEF Install
  <2>2. pending' = pending \/ pending' = [pending EXCEPT ![t] = @ \ {s}]
    BY <1>13 DEF Install
  <2>3. pending' \in [Threads -> SUBSET Sigs]
    BY <2>2
  <2> QED
    BY <1>13, <2>1, <2>3 DEF Install, FramesOK
<1>14. ASSUME NEW new \in NewMasks(t), Sigmask(t, new)
      PROVE MasksOK' /\ FramesOK' /\ PlacesOK'
  BY <1>14 DEF Sigmask, NewMasks, FramesOK
<1>15. ASSUME NEW w \in {"sleep", "pause", "fd", "lock"}, WaitStart(t, w)
      PROVE MasksOK' /\ FramesOK' /\ PlacesOK'
  BY <1>15 DEF WaitStart, FramesOK
<1>16. ASSUME NEW mask \in Masks, SuspendStart(t, mask)
      PROVE MasksOK' /\ FramesOK' /\ PlacesOK'
  BY <1>16 DEF SuspendStart, FramesOK
<1> QED
  BY <1>1, <1>2, <1>3, <1>4, <1>5, <1>6, <1>7, <1>8, <1>9, 
     <1>10, <1>11, <1>12, <1>13, <1>14, <1>15, <1>16
     DEF Plain, KillGoesOn, WaitEnds, LockInterrupted

LEMMA PlainCalls ==
  ASSUME SigInv, NEW t \in Threads, Plain(t)
  PROVE  CallsOK'
<1> USE ThreadAssumption, SignalAssumption
        DEF SigInv, Typed, MasksOK, PlacesOK, CallsOK, SigPlaces, Thens, InKill,
            masks, asked, DelPending, AddPending, Goto, Block, NewState, Note,
            Spend, DeliverPending, DeliverOrNote, At, Outside, WaitBegins
<1>1. CASE DeliverEnd(t)
  BY <1>1 DEF DeliverEnd
<1>2. CASE KillAdd(t)
  BY <1>2 DEF KillAdd
<1>3. CASE KillTell(t)
  BY <1>3 DEF KillTell
<1>4. CASE KillLeave(t)
  <2>1. pc'[t] \in {"deliver", "run"} /\ \A u \in Threads \ {t} : pc'[u] = pc[u]
    BY <1>4 DEF KillLeave
  <2>2. call' = [call EXCEPT ![t] = NoCall]
    BY <1>4 DEF KillLeave
  <2> QED
    BY <2>1, <2>2
<1>5. CASE WaitPosted(t)
  BY <1>5 DEF WaitPosted
<1>6. CASE SleepEnds(t)
  BY <1>6 DEF SleepEnds
<1>7. CASE Restore(t)
  BY <1>7 DEF Restore
<1>8. CASE FdDone(t)
  BY <1>8 DEF FdDone
<1>9. CASE LockGranted(t)
  BY <1>9 DEF LockGranted
<1>10. CASE KillEnter(t)
  <2>1. PICK u \in Threads, s \in Sigs :
          LET how == IF signals[u][s] = "IGN" THEN "none" ELSE How(u)
          IN /\ call' = [call EXCEPT ![t] = [target |-> u, sig |-> s, how |-> how]]
             /\ Goto(t, CASE how = "none"   -> "leave"
                          [] how = "kernel" -> "tell"
                          [] OTHER          -> "add")
    BY <1>10 DEF KillEnter
  <2>2. \A v \in Threads \ {t} : pc'[v] = pc[v] /\ call'[v] = call[v]
    BY <2>1
  <2>3. call'[t].sig = s /\ call' = [v \in Threads |-> call'[v]]
    BY <2>1
  <2> QED
    BY <2>2, <2>3
<1>11. CASE Yield(t)
  BY <1>11 DEF Yield
<1>12. ASSUME NEW s \in Sigs, Raise(t, s)
      PROVE CallsOK'
  BY <1>12 DEF Raise
<1>13. ASSUME NEW s \in Sigs, NEW m \in NewModes, Install(t, s, m)
      PROVE CallsOK'
  BY <1>13 DEF Install
<1>14. ASSUME NEW new \in NewMasks(t), Sigmask(t, new)
      PROVE CallsOK'
  BY <1>14 DEF Sigmask, NewMasks
<1>15. ASSUME NEW w \in {"sleep", "pause", "fd", "lock"}, WaitStart(t, w)
      PROVE CallsOK'
  BY <1>15 DEF WaitStart
<1>16. ASSUME NEW mask \in Masks, SuspendStart(t, mask)
      PROVE CallsOK'
  BY <1>16 DEF SuspendStart
<1> QED
  BY <1>1, <1>2, <1>3, <1>4, <1>5, <1>6, <1>7, <1>8, <1>9, 
     <1>10, <1>11, <1>12, <1>13, <1>14, <1>15, <1>16
     DEF Plain, KillGoesOn, WaitEnds, LockInterrupted

LEMMA PlainMoves ==
  ASSUME SigInv, NEW t \in Threads, Plain(t)
  PROVE  Moves(t) /\ Quiet(t)
<1> USE ThreadAssumption, SignalAssumption
        DEF SigInv, Typed, MasksOK, PlacesOK, CallsOK, SigPlaces, Thens, InKill,
            masks, asked, DelPending, AddPending, Goto, Block, NewState, Note,
            Spend, DeliverPending, DeliverOrNote, At, Outside, WaitBegins
<1>1. CASE DeliverEnd(t)
  BY <1>1 DEF DeliverEnd, Nested, Moves, Quiet
<1>2. CASE KillAdd(t)
  BY <1>2 DEF KillAdd, Nested, Moves, Quiet
<1>3. CASE KillTell(t)
  BY <1>3 DEF KillTell, Nested, Moves, Quiet
<1>4. CASE KillLeave(t)
  BY <1>4 DEF KillLeave, NoCall, Nested, Moves, Quiet
<1>5. CASE WaitPosted(t)
  BY <1>5 DEF WaitPosted, Nested, Moves, Quiet
<1>6. CASE SleepEnds(t)
  BY <1>6 DEF SleepEnds, Nested, Moves, Quiet
<1>7. CASE Restore(t)
  BY <1>7 DEF Restore, Nested, Moves, Quiet
<1>8. CASE FdDone(t)
  BY <1>8 DEF FdDone, Nested, Moves, Quiet
<1>9. CASE LockGranted(t)
  BY <1>9 DEF LockGranted, Nested, Moves, Quiet
<1>10. CASE KillEnter(t)
  BY <1>10 DEF KillEnter, Nested, Moves, Quiet
<1>11. CASE Yield(t)
  BY <1>11 DEF Yield, Nested, Moves, Quiet
<1>12. ASSUME NEW s \in Sigs, Raise(t, s)
      PROVE Moves(t) /\ Quiet(t)
  BY <1>12 DEF Raise, Nested, Moves, Quiet
<1>13. ASSUME NEW s \in Sigs, NEW m \in NewModes, Install(t, s, m)
      PROVE Moves(t) /\ Quiet(t)
  BY <1>13 DEF Install, Nested, Moves, Quiet
<1>14. ASSUME NEW new \in NewMasks(t), Sigmask(t, new)
      PROVE Moves(t) /\ Quiet(t)
  BY <1>14 DEF Sigmask, NewMasks, Nested, Moves, Quiet
<1>15. ASSUME NEW w \in {"sleep", "pause", "fd", "lock"}, WaitStart(t, w)
      PROVE Moves(t) /\ Quiet(t)
  BY <1>15 DEF WaitStart, Nested, Moves, Quiet
<1>16. ASSUME NEW mask \in Masks, SuspendStart(t, mask)
      PROVE Moves(t) /\ Quiet(t)
  BY <1>16 DEF SuspendStart, Nested, Moves, Quiet
<1> QED
  BY <1>1, <1>2, <1>3, <1>4, <1>5, <1>6, <1>7, <1>8, <1>9, 
     <1>10, <1>11, <1>12, <1>13, <1>14, <1>15, <1>16
     DEF Plain, KillGoesOn, WaitEnds, LockInterrupted

LEMMA PlainStep ==
  ASSUME SigInv, NEW t \in Threads, Plain(t)
  PROVE  Typed' /\ Moves(t) /\ Quiet(t)
BY PlainTypes, PlainCalls, PlainMoves DEF Typed

\* Such a step keeps the invariant, whoever takes it: Signals or Select.
LEMMA MovesKeep ==
  ASSUME SigInv, Typed', NEW t \in Threads, Moves(t)
  PROVE  SigInv'
<1>1. Nested'
  BY DEF SigInv, Nested, Moves, Outside, Below
<1>2. Shielded'
  <2>1. ASSUME NEW u \in Threads \ {Main}, NEW i \in 1..Len(frames[u])
        PROVE  blocked'[u] = blocked[u]
    <3>1. frames[u] # <<>>
      OBVIOUS
    <3> QED
      BY <3>1 DEF Moves, Outside
  <2> QED
    BY <2>1 DEF SigInv, Shielded, Moves, Shields
<1> QED
  BY <1>1, <1>2 DEF SigInv

-----------------------------------------------------------------------------
(***************************************************************************)
(* The steps that enter a handler or leave one.  They leave alone what is  *)
(* below all handlers.                                                     *)
(***************************************************************************)
SameBase ==
  \A u \in Threads : BasePc(u)' = BasePc(u) /\ BaseThen(u)' = BaseThen(u)

\* A sequence without its last element.
LEMMA Prefix ==
  ASSUME NEW S, NEW s \in Seq(S), NEW m \in Nat, m < Len(s)
  PROVE  /\ SubSeq(s, 1, m) \in Seq(S)
         /\ Len(SubSeq(s, 1, m)) = m
         /\ \A i \in 1..m : SubSeq(s, 1, m)[i] = s[i]
         /\ SubSeq(s, 1, m) = <<>> <=> m = 0
<1>1. SubSeq(s, 1, m) \in Seq(S)
  OBVIOUS
<1>2. Len(SubSeq(s, 1, m)) = m
  OBVIOUS
<1>3. \A i \in 1..m : SubSeq(s, 1, m)[i] = s[i]
  OBVIOUS
<1>4. SubSeq(s, 1, m) = <<>> <=> Len(SubSeq(s, 1, m)) = 0
  BY <1>1, EmptySeq, Zenon
<1>5. SubSeq(s, 1, m) = <<>> <=> m = 0
  BY <1>2, <1>4
<1> QED
  BY <1>1, <1>2, <1>3, <1>5

LEMMA Popped ==
  ASSUME NEW S, NEW s \in Seq(S), s # <<>>
  PROVE  /\ Len(s) \in Nat \ {0}
         /\ s[Len(s)] \in S
         /\ SubSeq(s, 1, Len(s) - 1) \in Seq(S)
         /\ Len(SubSeq(s, 1, Len(s) - 1)) = Len(s) - 1
         /\ \A i \in 1..(Len(s) - 1) : SubSeq(s, 1, Len(s) - 1)[i] = s[i]
         /\ SubSeq(s, 1, Len(s) - 1) = <<>> <=> Len(s) = 1
<1> DEFINE m == Len(s) - 1
<1>1. Len(s) \in Nat \ {0} /\ s[Len(s)] \in S
  BY EmptySeq
<1>2. m \in Nat /\ m < Len(s) /\ (m = 0 <=> Len(s) = 1)
  BY <1>1
<1> HIDE DEF m
<1>3. /\ SubSeq(s, 1, m) \in Seq(S)
      /\ Len(SubSeq(s, 1, m)) = m
      /\ \A i \in 1..m : SubSeq(s, 1, m)[i] = s[i]
      /\ SubSeq(s, 1, m) = <<>> <=> m = 0
  BY <1>2, Prefix
<1> QED
  BY <1>1, <1>2, <1>3, Zenon DEF m

LEMMA SetTwice ==
  ASSUME NEW A, NEW B, NEW C, NEW g \in [A -> [B -> C]], NEW a \in A, NEW b \in B, NEW c \in C
  PROVE  [g EXCEPT ![a][b] = c] \in [A -> [B -> C]]
OBVIOUS

\* The handler of signal s is entered, from place back.
Enters(t, s, back, f) ==
  /\ frames' = [frames EXCEPT ![t] = Append(@, f)]
  /\ f \in Frames
  /\ f.sig = s /\ f.pc = back /\ f.then = then[t] /\ f.old = blocked[t]
  /\ blocked'[t] \in SUBSET Sigs /\ blocked[t] \subseteq blocked'[t]
  /\ Shields(f) => s \in blocked'[t]
  /\ \A u \in Threads \ {t} : blocked'[u] = blocked[u]
  /\ \/ f.mode = "SYSV" /\ blocked'[t] = blocked[t]
     \/ f.mode = "ACK" /\ blocked'[t] = blocked[t] \cup {s}
     \/ f.mode = "BSD"
  /\ pc' = [pc EXCEPT ![t] = "run"]
  /\ UNCHANGED <<then, call, asked>>

LEMMA DeliverStep ==
  ASSUME Typed, NEW t \in Threads, NEW s \in Sigs, NEW back \in SigPlaces \ InKill,
         NEW kernel \in BOOLEAN, Deliver(t, s, back, kernel)
  PROVE  /\ Typed'
         /\ \/ \E f : Enters(t, s, back, f)
            \/ /\ pc' = pc \/ pc' = [pc EXCEPT ![t] = back]
               /\ UNCHANGED <<frames, blocked, then, call, asked>>
<1> USE DEF Typed, MasksOK, PlacesOK, CallsOK
<1>1. pending' = [pending EXCEPT ![t] = @ \ {s}]
  BY DEF Deliver, DelPending
<1>2. CASE Kills(t, s) /\ Terminate(t) /\ UNCHANGED <<pc, frames>>
  BY <1>1, <1>2 DEF Terminate, asked, FramesOK
<1>3. CASE /\ ~Handles(t, s) /\ Goto(t, back)
           /\ UNCHANGED <<signals, blocked, state, then, call, left, frames, asked, ended>>
  BY <1>1, <1>3 DEF Goto, asked, FramesOK, InKill
<1>4. CASE /\ Handles(t, s)
           /\ Push(t, [sig |-> s, mode |-> signals[t][s], old |-> blocked[t], pc |-> back,
                       then |-> then[t], kernel |-> kernel, acked |-> FALSE])
           /\ Block(t, BlockedIn(t, s))
           /\ signals' = IF signals[t][s] = "SYSV" THEN [signals EXCEPT ![t][s] = "DFL"]
                                                   ELSE signals
           /\ Goto(t, "run")
           /\ UNCHANGED <<state, then, call, left, asked, ended>>
  <2> DEFINE f == [sig |-> s, mode |-> signals[t][s], old |-> blocked[t], pc |-> back,
                   then |-> then[t], kernel |-> kernel, acked |-> FALSE]
  <2>1. f \in Frames
    BY DEF Frames
  <2>2. /\ signals[t][s] \in {"SYSV", "ACK", "BSD"}
        /\ BlockedIn(t, s) \in SUBSET Sigs
        /\ blocked[t] \subseteq BlockedIn(t, s)
        /\ signals[t][s] # "SYSV" => s \in BlockedIn(t, s)
        /\ \/ signals[t][s] = "SYSV" /\ BlockedIn(t, s) = blocked[t]
           \/ signals[t][s] = "ACK" /\ BlockedIn(t, s) = blocked[t] \cup {s}
           \/ signals[t][s] = "BSD"
    BY <1>4, SignalAssumption DEF BlockedIn, Handles, Dispositions
  <2>3. f.sig = s /\ f.pc = back /\ f.then = then[t] /\ f.old = blocked[t]
        /\ f.mode = signals[t][s]
        /\ (Shields(f) => s \in BlockedIn(t, s))
    BY <2>2 DEF Shields
  <2>4. frames' = [frames EXCEPT ![t] = Append(@, f)]
    BY <1>4 DEF Push
  <2> HIDE DEF f
  <2>5. blocked' = [blocked EXCEPT ![t] = BlockedIn(t, s)] /\ pc' = [pc EXCEPT ![t] = "run"]
    BY <1>4 DEF Block, Goto
  <2>6. Enters(t, s, back, f)
    BY <1>4, <2>1, <2>2, <2>3, <2>4, <2>5 DEF Enters
  <2>7. FramesOK'
    BY <2>1, <2>4 DEF FramesOK
  <2>8. signals' = signals \/ signals' = [signals EXCEPT ![t][s] = "DFL"]
    BY <1>4
  <2>9. signals' \in [Threads -> [Sigs -> Dispositions]]
    <3>1. "DFL" \in Dispositions
      BY DEF Dispositions
    <3>2. [signals EXCEPT ![t][s] = "DFL"] \in [Threads -> [Sigs -> Dispositions]]
      BY <3>1, SetTwice
    <3> QED
      BY <2>8, <3>2
  <2>10. MasksOK'
    BY <1>1, <1>4, <2>2, <2>5, <2>9 DEF asked
  <2>11. PlacesOK'
    BY <1>4, <2>5 DEF SigPlaces
  <2>12. CallsOK'
    BY <1>4, <2>5
  <2> QED
    BY <2>6, <2>7, <2>10, <2>11, <2>12
<1> QED
  BY <1>2, <1>3, <1>4 DEF Deliver

LEMMA EnterKeeps ==
  ASSUME SigInv, Typed', NEW t \in Threads, NEW s \in Sigs, NEW f, Enters(t, s, pc[t], f),
         pc[t] \notin InKill, t = Main \/ s \notin blocked[t]
  PROVE  SigInv' /\ SameBase
<1>1. /\ frames[t] \in Seq(Frames)
      /\ frames'[t] = Append(frames[t], f)
      /\ \A u \in Threads \ {t} : frames'[u] = frames[u] /\ pc'[u] = pc[u] /\ then'[u] = then[u]
      /\ pc'[t] = "run"
  BY DEF SigInv, Typed, FramesOK, PlacesOK, Enters
<1>2. /\ Len(frames'[t]) = Len(frames[t]) + 1
      /\ Len(frames[t]) \in Nat
      /\ frames'[t] # <<>>
      /\ \A i \in 1..Len(frames[t]) : frames'[t][i] = frames[t][i]
      /\ frames'[t][Len(frames[t]) + 1] = f
  BY <1>1 DEF Enters
<1>3. Outside(t) <=> Len(frames[t]) = 0
  BY <1>1 DEF Outside
<1>4. Nested'
  <2>1. Len(frames[t]) # 0 => Below(f.pc, f.then)
    BY <1>3 DEF SigInv, Nested, Enters, Below
  <2>2. \A i \in 1..Len(frames'[t]) : i = 1 \/ Below(frames'[t][i].pc, frames'[t][i].then)
    BY <1>2, <2>1 DEF SigInv, Nested
  <2> QED
    BY <1>1, <2>2 DEF SigInv, Nested, Outside
<1>5. Shielded'
  <2> SUFFICES ASSUME NEW u \in Threads \ {Main}, NEW i \in 1..Len(frames'[u]),
                      Shields(frames'[u][i])
               PROVE  /\ frames'[u][i].sig \in blocked'[u]
                      /\ \A j \in (i+1)..Len(frames'[u]) :
                           /\ frames'[u][i].sig \in frames'[u][j].old
                           /\ frames'[u][i].sig # frames'[u][j].sig
    BY DEF Shielded, Shields
  <2>1. CASE u # t
    BY <1>1, <2>1 DEF SigInv, Shielded, Enters
  <2>2. CASE u = t /\ i = Len(frames[t]) + 1
    BY <1>2, <2>2 DEF Enters
  <2>3. CASE u = t /\ i \in 1..Len(frames[t])
    <3>1. frames'[t][i] = frames[t][i] /\ frames[t][i].sig \in blocked[t]
      BY <1>2, <2>3 DEF SigInv, Shielded
    <3>2. \A j \in (i+1)..Len(frames[t]) :
            frames[t][i].sig \in frames[t][j].old /\ frames[t][i].sig # frames[t][j].sig
      BY <2>3, <3>1 DEF SigInv, Shielded
    <3> QED
      BY <1>2, <2>3, <3>1, <3>2 DEF Enters
  <2> QED
    BY <1>2, <2>1, <2>2, <2>3
<1>6. SameBase
  <2> SUFFICES ASSUME NEW u \in Threads
               PROVE  BasePc(u)' = BasePc(u) /\ BaseThen(u)' = BaseThen(u)
    BY DEF SameBase
  <2>1. CASE u # t
    BY <1>1, <2>1 DEF BasePc, BaseThen, Outside
  <2>2. CASE u = t
    BY <1>2, <1>3, <2>2 DEF BasePc, BaseThen, Outside, Enters
  <2> QED
    BY <2>1, <2>2
<1> QED
  BY <1>4, <1>5, <1>6 DEF SigInv

LEMMA ReturnStep ==
  ASSUME SigInv, NEW t \in Threads, HandlerReturns(t)
  PROVE  SigInv' /\ SameBase
<1> DEFINE f == Top(t)
           n == Len(frames[t])
<1>1. /\ FramesOK /\ ~Outside(t) /\ pc[t] = "run"
      /\ n \in Nat \ {0} /\ f \in Frames /\ f = frames[t][n]
      /\ SubSeq(frames[t], 1, n - 1) \in Seq(Frames)
      /\ Len(SubSeq(frames[t], 1, n - 1)) = n - 1
      /\ \A i \in 1..(n - 1) : SubSeq(frames[t], 1, n - 1)[i] = frames[t][i]
      /\ SubSeq(frames[t], 1, n - 1) = <<>> <=> n = 1
  <2>1. FramesOK /\ ~Outside(t) /\ pc[t] = "run"
    BY DEF SigInv, Typed, HandlerReturns, At
  <2>2. frames[t] \in Seq(Frames) /\ frames[t] # <<>>
    BY <2>1 DEF FramesOK, Outside
  <2> QED
    BY <2>1, <2>2, Popped DEF Top
<1>0. n = 1 \/ Below(f.pc, f.then)
  <2>1. n \in 1..n
    BY <1>1
  <2>2. n = 1 \/ Below(frames[t][n].pc, frames[t][n].then)
    BY <2>1 DEF SigInv, Nested
  <2> QED
    BY <1>1, <2>2
<1> HIDE DEF f, n
<1>2. CASE Terminate(t) /\ UNCHANGED <<pc, frames, pending>>
  <2>1. UNCHANGED <<frames, pc, then, call, signals, pending, blocked, old>>
    BY <1>2 DEF Terminate, asked
  <2>2. SigInv'
    BY <2>1 DEF SigInv, Typed, MasksOK, FramesOK, PlacesOK, CallsOK, Nested, Shielded, Shields,
                Outside
  <2> QED
    BY <2>1, <2>2 DEF SameBase, BasePc, BaseThen, Outside
<1>3. CASE Pop(t) /\ ~(Terminate(t) /\ UNCHANGED <<pc, frames, pending>>)
  <2>1. /\ frames' = [frames EXCEPT ![t] = SubSeq(@, 1, Len(@) - 1)]
        /\ blocked' = [blocked EXCEPT ![t] = BlockedAfter(t, f)]
        /\ pc' = [pc EXCEPT ![t] = f.pc]
        /\ then' = [then EXCEPT ![t] = f.then]
        /\ UNCHANGED <<signals, pending, call, old>>
    BY <1>3 DEF HandlerReturns, Pop, Block, Goto, f, n
  <2>2. /\ f.old \in SUBSET Sigs /\ f.pc \in SigPlaces \ InKill /\ f.then \in Thens
        /\ BlockedAfter(t, f) \in {f.old, blocked[t]}
    BY <1>1 DEF Frames, BlockedAfter
  <2>3. /\ frames'[t] = SubSeq(frames[t], 1, n - 1)
        /\ blocked'[t] \in {f.old, blocked[t]}
        /\ pc'[t] = f.pc /\ then'[t] = f.then
        /\ \A u \in Threads \ {t} : /\ frames'[u] = frames[u] /\ blocked'[u] = blocked[u]
                                    /\ pc'[u] = pc[u] /\ then'[u] = then[u]
    BY <1>1, <2>1, <2>2 DEF SigInv, Typed, FramesOK, MasksOK, PlacesOK, n
  <2>4. /\ Len(frames'[t]) = n - 1
        /\ \A i \in 1..(n - 1) : frames'[t][i] = frames[t][i]
    BY <1>1, <2>3
  <2>5. frames'[t] = <<>> <=> n = 1
    BY <1>1, <2>3
  <2>6. Typed'
    <3>1. FramesOK'
      BY <1>1, <2>1 DEF FramesOK, n
    <3>2. MasksOK'
      BY <2>1, <2>2 DEF SigInv, Typed, MasksOK
    <3>3. PlacesOK'
      BY <2>1, <2>2 DEF SigInv, Typed, PlacesOK
    <3>4. CallsOK'
      BY <2>1, <2>2 DEF SigInv, Typed, CallsOK, PlacesOK, InKill
    <3> QED
      BY <3>1, <3>2, <3>3, <3>4 DEF Typed
  <2>7. Nested'
    <3>2. /\ pc'[t] \notin {"run", "deliver"} \cup InKill => frames'[t] = <<>>
          /\ pc'[t] = "deliver" /\ then'[t] # "run" => frames'[t] = <<>>
      BY <1>0, <2>3, <2>5 DEF Below
    <3>3. \A i \in 1..(n - 1) : i = 1 \/ Below(frames'[t][i].pc, frames'[t][i].then)
      BY <1>1, <2>4 DEF SigInv, Nested, n
    <3> QED
      BY <2>3, <2>4, <3>2, <3>3 DEF SigInv, Nested, Outside
  <2>8. Shielded'
    <3> SUFFICES ASSUME NEW u \in Threads \ {Main}, NEW i \in 1..Len(frames'[u]),
                        Shields(frames'[u][i])
                 PROVE  /\ frames'[u][i].sig \in blocked'[u]
                        /\ \A j \in (i+1)..Len(frames'[u]) :
                             /\ frames'[u][i].sig \in frames'[u][j].old
                             /\ frames'[u][i].sig # frames'[u][j].sig
      BY DEF Shielded, Shields
    <3>1. CASE u # t
      BY <2>3, <3>1 DEF SigInv, Shielded
    <3>2. CASE u = t
      <4>1. frames'[t][i] = frames[t][i] /\ i \in 1..(n - 1) /\ i \in 1..n
        BY <1>1, <2>4, <3>2
      <4>2. /\ frames[t][i].sig \in blocked[t]
            /\ \A j \in (i+1)..n :
                 frames[t][i].sig \in frames[t][j].old /\ frames[t][i].sig # frames[t][j].sig
        BY <3>2, <4>1 DEF SigInv, Shielded, Shields, n
      <4>3. frames[t][i].sig \in f.old
        BY <1>1, <4>1, <4>2
      <4>4. frames'[t][i].sig \in blocked'[t]
        BY <2>3, <4>1, <4>2, <4>3
      <4>5. \A j \in (i+1)..(n - 1) :
              frames'[t][i].sig \in frames'[t][j].old /\ frames'[t][i].sig # frames'[t][j].sig
        BY <1>1, <2>4, <4>1, <4>2
      <4> QED
        BY <2>4, <3>2, <4>4, <4>5
    <3> QED
      BY <3>1, <3>2
  <2>9. SameBase
    <3> SUFFICES ASSUME NEW u \in Threads
                 PROVE  BasePc(u)' = BasePc(u) /\ BaseThen(u)' = BaseThen(u)
      BY DEF SameBase
    <3>1. CASE u # t
      BY <2>3, <3>1 DEF BasePc, BaseThen, Outside
    <3>2. CASE u = t
      BY <1>1, <2>3, <2>4, <2>5, <3>2 DEF BasePc, BaseThen, Outside
    <3> QED
      BY <3>1, <3>2
  <2> QED
    BY <2>6, <2>7, <2>8, <2>9 DEF SigInv
<1> QED
  BY <1>2, <1>3 DEF HandlerReturns

\* Nothing that the invariant speaks of changes.
Still == UNCHANGED <<frames, pc, then, blocked, signals, old, call>>

LEMMA StillKeeps ==
  ASSUME SigInv, Still, pending' \in [Threads -> SUBSET Sigs]
  PROVE  SigInv' /\ SameBase
BY DEF Still, SigInv, Typed, MasksOK, FramesOK, PlacesOK, CallsOK, Nested, Shielded, Shields,
       Outside, SameBase, BasePc, BaseThen

LEMMA NextStep ==
  ASSUME SigInv, NEW t \in Threads, DeliverNext(t)
  PROVE  SigInv' /\ SameBase
<1> DEFINE s == Min(pending[t] \ blocked[t])
<1>1. s \in pending[t] \ blocked[t] /\ s \in Sigs
  <2>1. /\ pending[t] \ blocked[t] \subseteq Nat /\ pending[t] \ blocked[t] # {}
        /\ pending[t] \subseteq Sigs
    BY SignalAssumption DEF DeliverNext, SigInv, Typed, MasksOK
  <2> QED
    BY <2>1, MinOfNats
<1>2. Deliver(t, s, "deliver", FALSE) /\ pc[t] = "deliver"
  BY DEF DeliverNext, At
<1> HIDE DEF s
<1>3. /\ Typed'
      /\ \/ \E f : Enters(t, s, "deliver", f)
         \/ /\ pc' = pc \/ pc' = [pc EXCEPT ![t] = "deliver"]
            /\ UNCHANGED <<frames, blocked, then, call>>
  BY <1>1, <1>2, DeliverStep DEF SigInv, SigPlaces, InKill
<1>4. CASE \E f : Enters(t, s, "deliver", f)
  BY <1>1, <1>2, <1>3, <1>4, EnterKeeps DEF InKill
<1>5. CASE /\ pc' = pc \/ pc' = [pc EXCEPT ![t] = "deliver"]
           /\ UNCHANGED <<frames, blocked, then, call>>
  <2>1. pc' = pc
    BY <1>2, <1>5 DEF SigInv, Typed, PlacesOK
  <2> QED
    BY <1>3, <1>5, <2>1 DEF SigInv, Nested, Shielded, Shields, Outside, SameBase, BasePc, BaseThen
<1> QED
  BY <1>3, <1>4, <1>5

LEMMA KernelStep ==
  ASSUME SigInv, NEW s \in Sigs, EmxHandler(s)
  PROVE  SigInv' /\ SameBase
<1>1. pc[Main] \notin InKill /\ Main \in Threads
  BY SignalAssumption DEF EmxHandler
<1>2. CASE SignalsBlocked({})
  <2>1. Still /\ pending' \in [Threads -> SUBSET Sigs]
    BY <1>2 DEF EmxHandler, Still, AddPending, asked, SigInv, Typed, MasksOK
  <2> QED
    BY <2>1, StillKeeps
<1>3. CASE ~SignalsBlocked({})
  <2>1. Deliver(Main, s, pc[Main], TRUE)
    BY <1>3 DEF EmxHandler
  <2>2. /\ Typed'
        /\ \/ \E f : Enters(Main, s, pc[Main], f)
           \/ /\ pc' = pc \/ pc' = [pc EXCEPT ![Main] = pc[Main]]
              /\ UNCHANGED <<frames, blocked, then, call>>
    BY <1>1, <2>1, DeliverStep DEF SigInv, Typed, PlacesOK
  <2>3. CASE \E f : Enters(Main, s, pc[Main], f)
    BY <1>1, <2>2, <2>3, EnterKeeps
  <2>4. CASE /\ pc' = pc \/ pc' = [pc EXCEPT ![Main] = pc[Main]]
             /\ UNCHANGED <<frames, blocked, then, call>>
    <3>1. pc' = pc
      BY <2>4 DEF SigInv, Typed, PlacesOK
    <3> QED
      BY <2>2, <2>4, <3>1 DEF SigInv, Nested, Shielded, Shields, Outside, SameBase, BasePc,
                              BaseThen
  <2> QED
    BY <2>2, <2>3, <2>4
<1> QED
  BY <1>2, <1>3

\* A handler acknowledges its signal.
LEMMA AckInside ==
  ASSUME SigInv, NEW t \in Threads, NEW s \in Sigs, Ack(t, s), ~Outside(t)
  PROVE  SigInv' /\ SameBase
<1> DEFINE n == Len(frames[t])
<1>1. /\ frames[t] \in Seq(Frames) /\ n \in Nat \ {0} /\ n \in 1..n
      /\ frames[t][n] \in Frames /\ frames[t][n].sig = s
  <2>1. frames[t] \in Seq(Frames) /\ frames[t] # <<>>
    BY DEF SigInv, Typed, FramesOK, Outside
  <2> QED
    BY <2>1, Popped DEF Ack, Top
<1>2. /\ frames' = [frames EXCEPT ![t][n].acked = TRUE]
      /\ blocked' = [blocked EXCEPT ![t] = @ \ {s}]
      /\ \/ UNCHANGED <<pc, then>>
         \/ pc' = [pc EXCEPT ![t] = "deliver"] /\ then' = [then EXCEPT ![t] = "run"]
      /\ UNCHANGED <<signals, pending, call, old>>
  BY DEF Ack, Block, DeliverOrNote, DeliverPending, Note, Goto, SigInv, Typed, MasksOK
<1>3. pc[t] = "run"
  BY DEF Ack, At
<1> DEFINE g == [frames[t][n] EXCEPT !.acked = TRUE]
<1>4. /\ g \in Frames /\ ~Shields(g)
      /\ g.pc = frames[t][n].pc /\ g.then = frames[t][n].then /\ g.old = frames[t][n].old
      /\ g.sig = frames[t][n].sig
  BY <1>1 DEF Frames, Shields
<1>5. frames'[t] = [frames[t] EXCEPT ![n] = g] /\ \A u \in Threads \ {t} : frames'[u] = frames[u]
  BY <1>2 DEF SigInv, Typed, FramesOK
<1> HIDE DEF n, g
<1>6. /\ frames'[t] \in Seq(Frames) /\ Len(frames'[t]) = n
      /\ \A i \in 1..n : frames'[t][i] = IF i = n THEN g ELSE frames[t][i]
  BY <1>1, <1>4, <1>5 DEF n
<1>7. Typed'
  <2>1. FramesOK'
    BY <1>1, <1>5, <1>6, <1>2 DEF FramesOK, SigInv, Typed
  <2>2. MasksOK'
    BY <1>2 DEF SigInv, Typed, MasksOK
  <2>3. PlacesOK'
    BY <1>2 DEF SigInv, Typed, PlacesOK, SigPlaces, Thens
  <2>4. CallsOK'
    BY <1>2 DEF SigInv, Typed, CallsOK, PlacesOK
  <2> QED
    BY <2>1, <2>2, <2>3, <2>4 DEF Typed
<1>8. /\ pc'[t] = "run" \/ (pc'[t] = "deliver" /\ then'[t] = "run")
      /\ \A u \in Threads \ {t} : pc'[u] = pc[u] /\ then'[u] = then[u] /\ blocked'[u] = blocked[u]
      /\ blocked'[t] = blocked[t] \ {s}
  BY <1>2, <1>3 DEF SigInv, Typed, PlacesOK, MasksOK
<1>9. Nested'
  <2>1. \A i \in 1..n : i = 1 \/ Below(frames'[t][i].pc, frames'[t][i].then)
    BY <1>1, <1>4, <1>6 DEF SigInv, Nested, n
  <2> QED
    BY <1>5, <1>6, <1>8, <2>1 DEF SigInv, Nested, Outside
<1>10. Shielded'
  <2> SUFFICES ASSUME NEW u \in Threads \ {Main}, NEW i \in 1..Len(frames'[u]),
                      Shields(frames'[u][i])
               PROVE  /\ frames'[u][i].sig \in blocked'[u]
                      /\ \A j \in (i+1)..Len(frames'[u]) :
                           /\ frames'[u][i].sig \in frames'[u][j].old
                           /\ frames'[u][i].sig # frames'[u][j].sig
    BY DEF Shielded, Shields
  <2>1. CASE u # t
    BY <1>5, <1>8, <2>1 DEF SigInv, Shielded
  <2>2. CASE u = t
    <3>1. i \in 1..n /\ i # n /\ frames'[t][i] = frames[t][i]
      BY <1>4, <1>6, <2>2
    <3>2. /\ frames[t][i].sig \in blocked[t]
          /\ \A j \in (i+1)..n :
               frames[t][i].sig \in frames[t][j].old /\ frames[t][i].sig # frames[t][j].sig
      BY <2>2, <3>1 DEF SigInv, Shielded, n
    <3>3. n \in (i+1)..n
      BY <1>1, <3>1
    <3>4. frames[t][i].sig # s
      BY <1>1, <3>2, <3>3
    <3>5. \A j \in (i+1)..n : frames'[t][j].old = frames[t][j].old
                              /\ frames'[t][j].sig = frames[t][j].sig
      <4>1. ASSUME NEW j \in (i+1)..n
            PROVE  frames'[t][j].old = frames[t][j].old /\ frames'[t][j].sig = frames[t][j].sig
        <5>1. j \in 1..n
          BY <1>1, <3>1
        <5> QED
          BY <1>4, <1>6, <5>1
      <4> QED
        BY <4>1
    <3> QED
      BY <1>6, <1>8, <2>2, <3>1, <3>2, <3>4, <3>5
  <2> QED
    BY <2>1, <2>2
<1>11. SameBase
  <2> SUFFICES ASSUME NEW u \in Threads
               PROVE  BasePc(u)' = BasePc(u) /\ BaseThen(u)' = BaseThen(u)
    BY DEF SameBase
  <2>1. CASE u # t
    BY <1>5, <1>8, <2>1 DEF BasePc, BaseThen, Outside
  <2>2. CASE u = t
    <3>1. frames'[t] # <<>>
      BY <1>1, <1>6, EmptySeq
    <3>2. 1 \in 1..n
      BY <1>1
    <3>3. frames'[t][1].pc = frames[t][1].pc /\ frames'[t][1].then = frames[t][1].then
      BY <1>4, <1>6, <3>2
    <3> QED
      BY <1>1, <1>5, <2>2, <3>1, <3>3 DEF BasePc, BaseThen, Outside
  <2> QED
    BY <2>1, <2>2
<1> QED
  BY <1>7, <1>9, <1>10, <1>11 DEF SigInv

LEMMA AckOutside ==
  ASSUME SigInv, NEW t \in Threads, NEW s \in Sigs, Ack(t, s), Outside(t)
  PROVE  Typed' /\ Moves(t) /\ Quiet(t)
<1>1. /\ UNCHANGED frames
      /\ blocked' = [blocked EXCEPT ![t] = @ \ {s}]
      /\ \/ UNCHANGED <<pc, then>>
         \/ pc' = [pc EXCEPT ![t] = "deliver"] /\ then' = [then EXCEPT ![t] = "run"]
      /\ UNCHANGED <<signals, pending, call, old>>
  BY DEF Ack, Block, DeliverOrNote, DeliverPending, Note, Goto, SigInv, Typed, MasksOK
<1>2. pc[t] = "run"
  BY DEF Ack, At
<1>3. Typed'
  <2>1. FramesOK'
    BY <1>1 DEF FramesOK, SigInv, Typed
  <2>2. MasksOK'
    BY <1>1 DEF SigInv, Typed, MasksOK
  <2>3. PlacesOK'
    BY <1>1 DEF SigInv, Typed, PlacesOK, SigPlaces, Thens
  <2>4. CallsOK'
    BY <1>1 DEF SigInv, Typed, CallsOK, PlacesOK
  <2> QED
    BY <2>1, <2>2, <2>3, <2>4 DEF Typed
<1> QED
  BY <1>1, <1>2, <1>3 DEF Moves, Quiet, SigInv, Typed, PlacesOK, MasksOK

-----------------------------------------------------------------------------
(***************************************************************************)
(* What a step of Signals does to the place of the selecter: nothing, or   *)
(* it moves there outside of handlers, and not into select.                *)
(***************************************************************************)
BaseQuiet ==
  /\ BasePc(Selecter)' \in {"select", "giveup", "collect"} => BasePc(Selecter)' = BasePc(Selecter)
  /\ Starting' => Starting

LEMMA MovesBase ==
  ASSUME SigInv, NEW t \in Threads, Moves(t), Quiet(t)
  PROVE  BaseQuiet
<1>1. CASE t # Selecter
  BY <1>1, SelecterAssumption DEF Moves, BaseQuiet, Starting, BasePc, BaseThen, Outside
<1>2. CASE t = Selecter
  BY <1>2, SelecterAssumption DEF Moves, Quiet, BaseQuiet, Starting, BasePc, BaseThen, Outside
<1> QED
  BY <1>1, <1>2

LEMMA SameBaseQuiet ==
  ASSUME SameBase
  PROVE  BaseQuiet
BY SelecterAssumption DEF SameBase, BaseQuiet, Starting

LEMMA SigStep ==
  ASSUME SigInv, SigNext
  PROVE  SigInv' /\ BaseQuiet
<1>1. ASSUME NEW t \in Threads, Plain(t) PROVE SigInv' /\ BaseQuiet
  BY <1>1, PlainStep, MovesKeep, MovesBase
<1>2. ASSUME NEW t \in Threads, DeliverNext(t) PROVE SigInv' /\ BaseQuiet
  BY <1>2, NextStep, SameBaseQuiet
<1>3. ASSUME NEW t \in Threads, HandlerReturns(t) PROVE SigInv' /\ BaseQuiet
  BY <1>3, ReturnStep, SameBaseQuiet
<1>4. ASSUME NEW s \in Sigs, EmxHandler(s) PROVE SigInv' /\ BaseQuiet
  BY <1>4, KernelStep, SameBaseQuiet
<1>5. ASSUME NEW t \in Threads, NEW s \in Sigs, Ack(t, s) PROVE SigInv' /\ BaseQuiet
  <2>1. CASE Outside(t)
    BY <1>5, <2>1, AckOutside, MovesKeep, MovesBase
  <2>2. CASE ~Outside(t)
    BY <1>5, <2>2, AckInside, SameBaseQuiet
  <2> QED
    BY <2>1, <2>2
<1>6. \/ \E t \in Threads : Plain(t) \/ DeliverNext(t) \/ HandlerReturns(t)
      \/ \E t \in Threads, s \in Sigs : Ack(t, s)
      \/ \E s \in Sigs : EmxHandler(s)
  BY Zenon DEF SigNext, Handled, Calls, Plain
<1> QED
  BY <1>1, <1>2, <1>3, <1>4, <1>5, <1>6

-----------------------------------------------------------------------------
(***************************************************************************)
(* The steps of Select.                                                    *)
(***************************************************************************)
Caller == SelectEnter \/ SelectGoesOn

LEMMA CallerMoves ==
  ASSUME SigInv, Caller
  PROVE  Typed' /\ Moves(Selecter) /\ Outside(Selecter)
<1> DEFINE Goes(l) == pc' = [pc EXCEPT ![Selecter] = l]
           Next(l) == then' = [then EXCEPT ![Selecter] = l]
<1>1. UNCHANGED <<signals, pending, blocked, call, frames, old>>
  BY DEF Caller, SelectGoesOn, SelectEnter, SelectStart, SelectFails, SelectWakes, SelectGiveUp,
         SelectCollect, SelectReturn, KeepSignals, asked
<1>2. Outside(Selecter)
  <2>1. SelectEnter => Outside(Selecter)
    BY DEF SelectEnter
  <2>2. SelectGoesOn =>
          pc[Selecter] \in {"selecting", "select", "giveup", "collect", "selected"}
    BY DEF SelectGoesOn, SelectStart, SelectFails, SelectWakes, SelectGiveUp, SelectCollect,
           SelectReturn, At
  <2>3. SelectGoesOn => Outside(Selecter)
    BY <2>2, SelecterAssumption DEF SigInv, Nested, InKill
  <2> QED
    BY <2>1, <2>3 DEF Caller
<1>3. \/ UNCHANGED then /\ \/ Goes("selecting") \/ Goes("select") \/ Goes("giveup")
                            \/ Goes("collect") \/ Goes("selected") \/ Goes("run")
      \/ Goes("deliver") /\ (Next("run") \/ Next("selecting"))
  <2> USE DEF CallerTo, Goto, DeliverPending, WaitBegins
  <2>1. CASE SelectEnter
    <3>1. CASE noted[Selecter]
      BY <2>1, <3>1 DEF SelectEnter
    <3>2. CASE ~noted[Selecter]
      BY <2>1, <3>2 DEF SelectEnter
    <3> QED
      BY <3>1, <3>2
  <2>2. CASE SelectStart
    BY <2>2 DEF SelectStart
  <2>3. CASE SelectFails
    BY <2>3 DEF SelectFails
  <2>4. CASE SelectWakes
    BY <2>4 DEF SelectWakes
  <2>5. CASE SelectGiveUp
    BY <2>5 DEF SelectGiveUp
  <2>6. CASE SelectCollect
    BY <2>6 DEF SelectCollect
  <2>7. CASE SelectReturn
    <3>1. CASE noted[Selecter]
      BY <2>7, <3>1 DEF SelectReturn
    <3>2. CASE ~noted[Selecter]
      BY <2>7, <3>2 DEF SelectReturn
    <3> QED
      BY <3>1, <3>2
  <2> QED
    BY <2>1, <2>2, <2>3, <2>4, <2>5, <2>6, <2>7 DEF Caller, SelectGoesOn
<1>4. PlacesOK' /\ CallsOK'
  BY <1>1, <1>3 DEF SigInv, Typed, PlacesOK, CallsOK, SigPlaces, Thens, InKill
<1>5. MasksOK' /\ FramesOK'
  BY <1>1 DEF SigInv, Typed, MasksOK, FramesOK
<1>6. \A u \in Threads \ {Selecter} : pc'[u] = pc[u] /\ then'[u] = then[u]
  BY <1>3 DEF SigInv, Typed, PlacesOK
<1> QED
  BY <1>1, <1>2, <1>4, <1>5, <1>6 DEF Typed, Moves

LEMMA HelperStays ==
  ASSUME SigInv, Helper
  PROVE  SigInv' /\ SameBase
<1>1. CallerStays
  BY DEF Helper, HelperPoll, HelperCopy, HelperTest, HelperResult, HelperPost, HelperAbandon
<1>2. Still /\ pending' \in [Threads -> SUBSET Sigs]
  BY <1>1 DEF CallerStays, Still, masks, asked, SigInv, Typed, MasksOK
<1> QED
  BY <1>2, StillKeeps

LEMMA SigInvStep ==
  ASSUME SigInv, [SelNext]_selVars
  PROVE  SigInv'
<1>1. CASE SigNext
  BY <1>1, SigStep
<1>2. CASE Caller
  BY <1>2, CallerMoves, MovesKeep, SelecterAssumption
<1>3. CASE Helper
  BY <1>3, HelperStays
<1>4. CASE UNCHANGED selVars
  <2>1. Still /\ pending' \in [Threads -> SUBSET Sigs]
    BY <1>4 DEF selVars, sigVars, masks, places, asked, Still, SigInv, Typed, MasksOK
  <2> QED
    BY <2>1, StillKeeps
<1> QED
  BY <1>1, <1>2, <1>3, <1>4 DEF SelNext, Caller

LEMMA SigInvInit ==
  ASSUME SelInit
  PROVE  SigInv
<1> USE SignalAssumption DEF SelInit, SigInit
<1>1. MasksOK
  BY DEF MasksOK
<1>2. FramesOK
  BY DEF FramesOK
<1>3. PlacesOK /\ CallsOK
  BY DEF PlacesOK, CallsOK, SigPlaces, Thens
<1>4. Nested /\ Shielded
  BY DEF Nested, Shielded, Outside
<1> QED
  BY <1>1, <1>2, <1>3, <1>4 DEF SigInv, Typed

(***************************************************************************)
(* A handler that is entered again was not shielded.                       *)
(***************************************************************************)
LEMMA ShieldedNoReentry ==
  ASSUME SigInv
  PROVE  NoReentry
<1> SUFFICES ASSUME NEW t \in Threads \ {Main}, NEW i \in DOMAIN frames[t],
                    NEW j \in DOMAIN frames[t], i < j, frames[t][i].sig = frames[t][j].sig,
                    ~(frames[t][i].mode = "SYSV" \/ frames[t][i].acked)
             PROVE  FALSE
  BY DEF NoReentry
<1>1. frames[t] \in Seq(Frames)
  BY DEF SigInv, Typed, FramesOK
<1>2. i \in 1..Len(frames[t]) /\ j \in (i+1)..Len(frames[t])
  BY <1>1
<1>3. Shields(frames[t][i])
  BY DEF Shields
<1> QED
  BY <1>2, <1>3 DEF SigInv, Shielded

(* No thread other than thread 1 enters a handler again while it runs,     *)
(* unless SA_SYSV or the acknowledgement opens its signal, for any threads,*)
(* signals, masks and handlers: uthread_deliver_signal, the calls that     *)
(* deliver and pthread_signal(SIG_ACK).                                    *)
THEOREM NoReentryAlways == SelSpec => []NoReentry
<1>1. SelInit => SigInv
  BY SigInvInit
<1>2. SigInv /\ [SelNext]_selVars => SigInv'
  BY SigInvStep
<1>3. SigInv => NoReentry
  BY ShieldedNoReentry
<1> QED
  BY <1>1, <1>2, <1>3, PTL DEF SelSpec

-----------------------------------------------------------------------------
(***************************************************************************)
(* The record of a select.                                                 *)
(***************************************************************************)
\* The caller is outside of handlers: its place is the base.
LEMMA CallerBase ==
  ASSUME SigInv, Caller
  PROVE  /\ BasePc(Selecter) = pc[Selecter] /\ BaseThen(Selecter) = then[Selecter]
         /\ BasePc(Selecter)' = pc'[Selecter] /\ BaseThen(Selecter)' = then'[Selecter]
BY CallerMoves DEF Moves, Outside, BasePc, BaseThen

LEMMA CallerRecord ==
  ASSUME SelInv, Caller
  PROVE  (SelTyped /\ RecordKept /\ SelectSafe)'
<1> DEFINE b == BasePc(Selecter)
<1>1. /\ pc \in [Threads -> SigPlaces] /\ then \in [Threads -> Thens]
      /\ b = pc[Selecter] /\ BaseThen(Selecter) = then[Selecter]
      /\ b' = pc'[Selecter] /\ BaseThen(Selecter)' = then'[Selecter]
  BY CallerBase DEF SelInv, SigInv, Typed, PlacesOK
<1> HIDE DEF b
<1>2. Starting <=> b = "selecting" \/ (b = "deliver" /\ then[Selecter] = "selecting")
  BY <1>1 DEF Starting, b
<1>3. Starting' <=> b' = "selecting" \/ (b' = "deliver" /\ then'[Selecter] = "selecting")
  BY <1>1 DEF Starting, b
<1>4. b \in {"select", "giveup", "collect"} => sel.live /\ sel.event
  BY DEF SelInv, RecordKept, b
<1>5. (b' \in {"select", "giveup", "collect"} => sel'.live /\ sel'.event)
        => (BasePc(Selecter) \in {"select", "giveup", "collect"} => sel.live /\ sel.event)'
  BY DEF b
<1> USE SelecterAssumption
        DEF SelInv, SelTyped, SelectSafe, Use, Freed, At, Goto, DeliverPending,
            WaitBegins, CallerTo, HelperTo
<1>11. CASE SelectEnter
  BY <1>1, <1>2, <1>3, <1>4, <1>5, <1>11 DEF SelectEnter, RecordKept
<1>12. CASE SelectStart
  BY <1>1, <1>2, <1>3, <1>4, <1>5, <1>12 DEF SelectStart, RecordKept
<1>13. CASE SelectFails
  BY <1>1, <1>2, <1>3, <1>4, <1>5, <1>13 DEF SelectFails, RecordKept
<1>14. CASE SelectWakes
  BY <1>1, <1>2, <1>3, <1>4, <1>5, <1>14 DEF SelectWakes, RecordKept
<1>15. CASE SelectGiveUp
  <2>1. /\ b = "giveup" /\ b' = "selected" /\ sel' = [sel EXCEPT !.event = FALSE]
        /\ misused' = (misused \/ ~sel.live) /\ answer' = -1
        /\ UNCHANGED <<helper, found, copied>>
    BY <1>1, <1>15 DEF SelectGiveUp
  <2>2. /\ sel'.live = sel.live /\ sel'.event = FALSE /\ sel'.result = sel.result
        /\ SelTyped'
    BY <2>1
  <2>3. RecordKept'
    BY <1>3, <1>5, <2>1, <2>2 DEF RecordKept
  <2>4. sel.live /\ ~misused
    BY <1>4, <2>1
  <2>5. ~misused'
    BY <2>1, <2>4, Zenon
  <2>6. ~(answer' > 0)
    BY <2>1, SMT
  <2> QED
    BY <2>2, <2>3, <2>5, <2>6
<1>16. CASE SelectCollect
  <2>1. /\ b = "collect" /\ b' = "selected" /\ sel' = Freed /\ sel.done = 3
        /\ misused' = (misused \/ ~sel.live) /\ answer' = sel.result
        /\ UNCHANGED <<helper, found, copied>>
    BY <1>1, <1>16 DEF SelectCollect
  <2>2. sel.live /\ sel.event /\ helper \in {"none", "post"}
    BY <1>4, <2>1 DEF RecordKept
  <2>3. sel.result \in {-1, 0, 1} /\ (sel.result > 0 => copied)
    BY DEF RecordKept
  <2>4. SelTyped'
    BY <2>1, <2>3
  <2>5. RecordKept'
    BY <1>3, <1>5, <2>1, <2>2 DEF RecordKept
  <2>6. SelectSafe'
    BY <2>1, <2>2, <2>3
  <2> QED
    BY <2>4, <2>5, <2>6
<1>17. CASE SelectReturn
  BY <1>1, <1>2, <1>3, <1>4, <1>5, <1>17 DEF SelectReturn, RecordKept
<1> QED
  BY <1>11, <1>12, <1>13, <1>14, <1>15, <1>16, <1>17 DEF Caller, SelectGoesOn

LEMMA HelperRecord ==
  ASSUME SelInv, Helper
  PROVE  (SelTyped /\ RecordKept /\ SelectSafe)'
<1>1. (Starting <=> Starting') /\ BasePc(Selecter)' = BasePc(Selecter)
  BY HelperStays, SelecterAssumption DEF SelInv, SameBase, Starting
<1> DEFINE b == BasePc(Selecter)
<1>0. /\ (b \in {"select", "giveup", "collect"} => sel'.live /\ sel'.event)
           => (BasePc(Selecter) \in {"select", "giveup", "collect"} => sel.live /\ sel.event)'
      /\ b \in {"select", "giveup", "collect"} => sel.live /\ sel.event
      /\ helper # "none" => ~Starting
  BY <1>1 DEF SelInv, RecordKept
<1> HIDE DEF b
<1> USE <1>1 DEF SelInv, SelTyped, RecordKept, SelectSafe, Use, Freed, HelperTo, CallerStays
<1>2. CASE HelperPoll
  <2>1. /\ helper = "poll" /\ found' \in {-1, 0, 1} /\ sel.live
        /\ sel' = IF found' = 0 THEN sel ELSE [sel EXCEPT !.done = 1]
        /\ helper' = IF found' = 1 THEN "copy" ELSE "test"
        /\ misused' = (misused \/ ~sel.live) /\ UNCHANGED <<copied, answer>>
    BY <1>2 DEF HelperPoll
  <2>2. SelTyped' /\ SelectSafe'
    BY <2>1
  <2>3. /\ sel'.live = sel.live /\ sel'.event = sel.event /\ sel'.result = sel.result
        /\ sel'.done \in {sel.done, 1}
    BY <2>1
  <2>4. RecordKept'
    BY <1>0, <2>1, <2>3
  <2> QED
    BY <2>2, <2>4
<1>3. CASE HelperCopy
  BY <1>3 DEF HelperCopy
<1>4. CASE HelperTest
  <2>1. /\ helper = "test" /\ sel.live /\ sel' = sel /\ sel.done \in {0, 1, 3}
        /\ sel.event \in BOOLEAN
        /\ helper' = CASE sel.event /\ sel.done = 0 -> "poll"
                       [] sel.event /\ sel.done > 0 -> "result"
                       [] ~sel.event                -> "abandon"
        /\ misused' = (misused \/ ~sel.live) /\ UNCHANGED <<copied, answer, found>>
    BY <1>4 DEF HelperTest
  <2>2. \/ helper' \in {"poll", "result"} /\ sel.event
        \/ helper' = "abandon" /\ ~sel.event
    BY <2>1
  <2>3. SelTyped' /\ SelectSafe'
    BY <2>1, <2>2
  <2>4. RecordKept'
    BY <1>0, <2>1, <2>2
  <2> QED
    BY <2>3, <2>4
<1>5. CASE HelperResult
  <2>1. /\ helper = "result" /\ sel.live /\ helper' = "post"
        /\ sel' = [sel EXCEPT !.result = found, !.done = 3]
        /\ misused' = (misused \/ ~sel.live) /\ UNCHANGED <<copied, answer, found>>
    BY <1>5 DEF HelperResult
  <2>2. /\ sel'.live = sel.live /\ sel'.event = sel.event /\ sel'.result = found
        /\ found \in {-1, 0, 1}
    BY <2>1
  <2>3. SelTyped' /\ SelectSafe'
    BY <2>1, <2>2
  <2>4. RecordKept'
    BY <1>0, <2>1, <2>2
  <2> QED
    BY <2>3, <2>4
<1>6. CASE HelperPost
  BY <1>6 DEF HelperPost
<1>7. CASE HelperAbandon
  BY <1>7 DEF HelperAbandon
<1> QED
  BY <1>2, <1>3, <1>4, <1>5, <1>6, <1>7 DEF Helper

LEMMA QuietRecord ==
  ASSUME SelInv, BaseQuiet, UNCHANGED selOnly
  PROVE  (SelTyped /\ RecordKept /\ SelectSafe)'
BY DEF SelInv, BaseQuiet, selOnly, SelTyped, RecordKept, SelectSafe

LEMMA SelInvStep ==
  ASSUME SelInv, [SelNext]_selVars
  PROVE  SelInv'
<1>1. SigInv'
  BY SigInvStep DEF SelInv
<1>2. CASE SigNext /\ UNCHANGED selOnly
  BY <1>1, <1>2, SigStep, QuietRecord DEF SelInv
<1>3. CASE Caller
  BY <1>1, <1>3, CallerRecord DEF SelInv
<1>4. CASE Helper
  BY <1>1, <1>4, HelperRecord DEF SelInv
<1>5. CASE UNCHANGED selVars
  <2>1. BaseQuiet /\ UNCHANGED selOnly
    BY <1>5 DEF selVars, sigVars, places, BaseQuiet, Starting, BasePc, BaseThen, Outside
  <2> QED
    BY <1>1, <2>1, QuietRecord DEF SelInv
<1> QED
  BY <1>2, <1>3, <1>4, <1>5 DEF SelNext, Caller

LEMMA SelInvInit ==
  ASSUME SelInit
  PROVE  SelInv
<1>1. SigInv
  BY SigInvInit
<1>2. BasePc(Selecter) = "run"
  BY SelecterAssumption DEF SelInit, SigInit, BasePc, Outside
<1>3. ~Starting
  BY <1>2 DEF Starting
<1> QED
  BY <1>1, <1>2, <1>3 DEF SelInit, SelInv, SelTyped, RecordKept, SelectSafe, Freed

(* The record that pthread_select shares with its helper is never used     *)
(* after it was freed nor freed twice, and a positive result comes with    *)
(* the sets filled in, whoever calls select and whatever signals come.     *)
THEOREM SelectSafeAlways == SelSpec => []SelectSafe
<1>1. SelInit => SelInv
  BY SelInvInit
<1>2. SelInv /\ [SelNext]_selVars => SelInv'
  BY SelInvStep
<1>3. SelInv => SelectSafe
  BY DEF SelInv
<1> QED
  BY <1>1, <1>2, <1>3, PTL DEF SelSpec

-----------------------------------------------------------------------------
(***************************************************************************)
(* That the mask a thread has asked for comes back.                        *)
(***************************************************************************)
\* A thread is in pthread_sigsuspend, below all its handlers.
InSuspend(p, n) == p \in {"suspend", "restore"} \/ (p = "deliver" /\ n = "restore")
Suspending(t)   == InSuspend(BasePc(t), BaseThen(t))

\* The signals that the handlers up to the i-th may leave blocked, and
\* whether one of them will put an earlier mask back.
Acking(t, i)   == {frames[t][j].sig : j \in {k \in 1..i : frames[t][k].mode = "ACK"}}
Restores(t, i) == \E j \in 1..i : frames[t][j].mode = "BSD"

\* The mask m of a thread in the i-th of its handlers holds what the thread
\* has asked for, and without an earlier mask to come it holds little else.
Within(t, m, i) ==
  /\ own[t] \subseteq m
  /\ Restores(t, i) \/ m \subseteq own[t] \cup unacked[t] \cup Acking(t, i)

\* In pthread_sigsuspend the mask to come is old_blocked.
MaskKept(t) ==
  IF Suspending(t)
  THEN own[t] \subseteq old[t] /\ old[t] \subseteq own[t] \cup unacked[t]
  ELSE /\ Within(t, blocked[t], Len(frames[t]))
       /\ \A i \in 1..Len(frames[t]) :
            Within(t, frames[t][i].old, i - 1) /\ frames[t][i].sig \notin own[t]

AskedOK == own \in [Threads -> SUBSET Sigs] /\ unacked \in [Threads -> SUBSET Sigs]

MaskInv == SigInv /\ AskedOK /\ \A t \in Threads : MaskKept(t)

-----------------------------------------------------------------------------
\* What the invariant says of a thread depends on nothing else.
LEMMA MaskSame ==
  ASSUME MaskInv, NEW t \in Threads, Suspending(t)' = Suspending(t),
         frames'[t] = frames[t], blocked'[t] = blocked[t], own'[t] = own[t],
         unacked'[t] = unacked[t], old'[t] = old[t]
  PROVE  MaskKept(t)'
BY DEF MaskInv, MaskKept, Within, Acking, Restores

\* A thread in no handler.
LEMMA MaskOutside ==
  ASSUME NEW t \in Threads, Outside(t)
  PROVE  MaskKept(t) <=>
           IF InSuspend(pc[t], then[t])
           THEN own[t] \subseteq old[t] /\ old[t] \subseteq own[t] \cup unacked[t]
           ELSE own[t] \subseteq blocked[t] /\ blocked[t] \subseteq own[t] \cup unacked[t]
<1>1. frames[t] = <<>> /\ Len(frames[t]) = 0
  BY DEF Outside
<1>2. Acking(t, 0) = {} /\ ~Restores(t, 0)
  BY DEF Acking, Restores
<1>3. Suspending(t) = InSuspend(pc[t], then[t])
  BY DEF Suspending, BasePc, BaseThen
<1> QED
  BY <1>1, <1>2, <1>3 DEF MaskKept, Within

LEMMA MaskOutsideNext ==
  ASSUME NEW t \in Threads, Outside(t)'
  PROVE  MaskKept(t)' <=>
           IF InSuspend(pc'[t], then'[t])
           THEN own'[t] \subseteq old'[t] /\ old'[t] \subseteq own'[t] \cup unacked'[t]
           ELSE own'[t] \subseteq blocked'[t] /\ blocked'[t] \subseteq own'[t] \cup unacked'[t]
<1>1. frames'[t] = <<>> /\ Len(frames'[t]) = 0
  BY DEF Outside
<1>2. Acking(t, 0)' = {} /\ ~Restores(t, 0)'
  BY DEF Acking, Restores
<1>3. Suspending(t)' = InSuspend(pc'[t], then'[t])
  BY DEF Suspending, BasePc, BaseThen
<1> QED
  BY <1>1, <1>2, <1>3 DEF MaskKept, Within

-----------------------------------------------------------------------------
(***************************************************************************)
(* The steps that change no mask.                                          *)
(***************************************************************************)
\* Thread t moves, into no sigsuspend and out of none.
Maskless(t) ==
  /\ UNCHANGED <<frames, blocked, asked>>
  /\ \A u \in Threads \ {t} : pc'[u] = pc[u] /\ then'[u] = then[u]
  /\ InSuspend(pc'[t], then'[t]) = InSuspend(pc[t], then[t])

LEMMA MasklessKeeps ==
  ASSUME MaskInv, NEW t \in Threads, Maskless(t), NEW u \in Threads
  PROVE  MaskKept(u)'
<1>1. Suspending(u)' = Suspending(u)
  BY DEF Maskless, Suspending, BasePc, BaseThen, Outside
<1> QED
  BY <1>1, MaskSame DEF Maskless, asked

LEMMA PlainMaskless ==
  ASSUME SigInv, NEW t \in Threads, Plain(t)
  PROVE  \/ Maskless(t) \/ Restore(t)
         \/ \E new \in NewMasks(t) : Sigmask(t, new)
         \/ \E mask \in Masks : SuspendStart(t, mask)
<1> USE DEF SigInv, Typed, PlacesOK, masks, asked, Maskless, InSuspend,
            DelPending, AddPending, Goto, Block, NewState, Note,
            Spend, DeliverPending, DeliverOrNote, At, WaitBegins
<1>1. CASE DeliverEnd(t)
  BY <1>1 DEF DeliverEnd, Thens
<1>2. CASE KillAdd(t)
  BY <1>2 DEF KillAdd
<1>3. CASE KillTell(t)
  BY <1>3 DEF KillTell
<1>4. CASE KillLeave(t)
  BY <1>4 DEF KillLeave
<1>5. CASE WaitPosted(t)
  BY <1>5 DEF WaitPosted
<1>6. CASE SleepEnds(t)
  BY <1>6 DEF SleepEnds
<1>7. CASE FdDone(t)
  BY <1>7 DEF FdDone
<1>8. CASE LockGranted(t)
  BY <1>8 DEF LockGranted
<1>9. CASE KillEnter(t)
  <2>1. \/ pc' = [pc EXCEPT ![t] = "leave"] \/ pc' = [pc EXCEPT ![t] = "tell"]
        \/ pc' = [pc EXCEPT ![t] = "add"]
    BY <1>9 DEF KillEnter
  <2> QED
    BY <1>9, <2>1 DEF KillEnter
<1>10. CASE Yield(t)
  BY <1>10 DEF Yield
<1>11. ASSUME NEW s \in Sigs, Raise(t, s)
      PROVE  Maskless(t)
  BY <1>11 DEF Raise
<1>12. ASSUME NEW s \in Sigs, NEW m \in NewModes, Install(t, s, m)
      PROVE  Maskless(t)
  BY <1>12 DEF Install
<1>13. ASSUME NEW w \in {"sleep", "pause", "fd", "lock"}, WaitStart(t, w)
      PROVE  Maskless(t)
  BY <1>13 DEF WaitStart
<1> QED
  BY <1>1, <1>2, <1>3, <1>4, <1>5, <1>6, <1>7, <1>8, <1>9, <1>10, <1>11, <1>12, <1>13
     DEF Plain, KillGoesOn, WaitEnds, LockInterrupted

-----------------------------------------------------------------------------
(***************************************************************************)
(* The steps outside of handlers that change a mask.                       *)
(***************************************************************************)
\* What they leave of the other threads.
Others(t) ==
  \A u \in Threads \ {t} :
    /\ frames'[u] = frames[u] /\ blocked'[u] = blocked[u] /\ own'[u] = own[u]
    /\ unacked'[u] = unacked[u] /\ old'[u] = old[u]
    /\ Suspending(u)' = Suspending(u)

LEMMA OthersKeep ==
  ASSUME MaskInv, NEW t \in Threads, Others(t), MaskKept(t)'
  PROVE  \A u \in Threads : MaskKept(u)'
<1>1. ASSUME NEW u \in Threads \ {t} PROVE MaskKept(u)'
  BY MaskSame DEF Others
<1> QED
  BY <1>1

LEMMA MaskRestore ==
  ASSUME MaskInv, NEW t \in Threads, Restore(t)
  PROVE  AskedOK' /\ \A u \in Threads : MaskKept(u)'
<1>1. Typed /\ SigInv /\ AskedOK /\ Outside(t) /\ Outside(t)' /\ Moves(t)
  <2>1. Moves(t)
    BY PlainMoves DEF MaskInv, Plain, WaitEnds
  <2>2. Outside(t)
    BY DEF MaskInv, SigInv, Nested, Restore, At, InKill
  <2> QED
    BY <2>1, <2>2 DEF MaskInv, SigInv, Outside, Moves
<1>2. /\ pc[t] = "restore" /\ pc'[t] = "run" /\ blocked'[t] = old[t]
      /\ UNCHANGED <<own, unacked, old>>
  BY <1>1 DEF Restore, At, Block, Goto, asked, Typed, PlacesOK, MasksOK
<1>3. own[t] \subseteq old[t] /\ old[t] \subseteq own[t] \cup unacked[t]
  BY <1>1, <1>2, MaskOutside DEF MaskInv, InSuspend
<1>4. MaskKept(t)'
  <2>1. MaskKept(t)' <=>
           IF InSuspend(pc'[t], then'[t])
           THEN own'[t] \subseteq old'[t] /\ old'[t] \subseteq own'[t] \cup unacked'[t]
           ELSE own'[t] \subseteq blocked'[t] /\ blocked'[t] \subseteq own'[t] \cup unacked'[t]
    BY <1>1, MaskOutsideNext
  <2> QED
    BY <1>2, <1>3, <2>1 DEF InSuspend
<1>5. Others(t)
  BY <1>1, <1>2 DEF Others, Moves, Suspending, BasePc, BaseThen, Outside
<1> QED
  BY <1>1, <1>2, <1>4, <1>5, OthersKeep DEF AskedOK

LEMMA MaskSuspendStart ==
  ASSUME MaskInv, NEW t \in Threads, NEW mask \in Masks, SuspendStart(t, mask)
  PROVE  AskedOK' /\ \A u \in Threads : MaskKept(u)'
<1>1. Typed /\ AskedOK /\ Outside(t) /\ Outside(t)' /\ Moves(t)
  <2>1. Moves(t)
    BY PlainMoves DEF MaskInv, Plain
  <2>2. Outside(t)
    BY DEF SuspendStart
  <2> QED
    BY <2>1, <2>2 DEF MaskInv, SigInv, Outside, Moves
<1>2. /\ pc[t] = "run" /\ pc'[t] = "suspend" /\ old'[t] = blocked[t]
      /\ old' = [old EXCEPT ![t] = blocked[t]]
      /\ UNCHANGED <<own, unacked>>
  BY <1>1 DEF SuspendStart, At, WaitBegins, Goto, Typed, PlacesOK, MasksOK
<1>3. own[t] \subseteq blocked[t] /\ blocked[t] \subseteq own[t] \cup unacked[t]
  BY <1>1, <1>2, MaskOutside DEF MaskInv, InSuspend
<1>4. MaskKept(t)'
  BY <1>1, <1>2, <1>3, MaskOutsideNext DEF InSuspend
<1>5. Others(t)
  BY <1>1, <1>2 DEF Others, Moves, Suspending, BasePc, BaseThen, Outside, Typed, MasksOK
<1> QED
  BY <1>1, <1>2, <1>4, <1>5, OthersKeep DEF AskedOK

LEMMA MaskSigmask ==
  ASSUME MaskInv, NEW t \in Threads, NEW new \in NewMasks(t), Sigmask(t, new)
  PROVE  AskedOK' /\ \A u \in Threads : MaskKept(u)'
<1>1. Typed /\ AskedOK /\ Outside(t) /\ Outside(t)' /\ Moves(t)
  <2>1. Moves(t)
    BY PlainMoves DEF MaskInv, Plain
  <2>2. Outside(t)
    BY DEF Sigmask
  <2> QED
    BY <2>1, <2>2 DEF MaskInv, SigInv, Outside, Moves
<1>2. /\ pc[t] = "run" /\ (pc'[t] = "run" \/ (pc'[t] = "deliver" /\ then'[t] = "run"))
      /\ own' = [own EXCEPT ![t] = new] /\ unacked' = [unacked EXCEPT ![t] = {}]
      /\ blocked' = [blocked EXCEPT ![t] = new] /\ UNCHANGED old
  <2>1. /\ pc[t] = "run" /\ own' = [own EXCEPT ![t] = new]
        /\ unacked' = [unacked EXCEPT ![t] = {}] /\ blocked' = [blocked EXCEPT ![t] = new]
        /\ UNCHANGED old
        /\ \/ UNCHANGED <<pc, then>>
           \/ pc' = [pc EXCEPT ![t] = "deliver"] /\ then' = [then EXCEPT ![t] = "run"]
    BY DEF Sigmask, At, DeliverPending, Goto, Block
  <2>2. pc'[t] = "run" \/ (pc'[t] = "deliver" /\ then'[t] = "run")
    <3>1. pc \in [Threads -> SigPlaces] /\ then \in [Threads -> Thens]
      BY <1>1 DEF Typed, PlacesOK
    <3> QED
      BY <2>1, <3>1
  <2> QED
    BY <2>1, <2>2
<1>3. new \in SUBSET Sigs
  <2>1. blocked[t] \in SUBSET Sigs /\ Masks \subseteq SUBSET Sigs
    BY <1>1, SignalAssumption DEF Typed, MasksOK
  <2>2. new \in Masks \/ \E m \in Masks : new = blocked[t] \cup m \/ new = blocked[t] \ m
    BY DEF NewMasks
  <2> QED
    BY <2>1, <2>2
<1>4. own'[t] = new /\ unacked'[t] = {} /\ blocked'[t] = new /\ AskedOK'
  BY <1>1, <1>2, <1>3 DEF AskedOK, Typed, MasksOK
<1>5. MaskKept(t)'
  BY <1>1, <1>2, <1>4, MaskOutsideNext DEF InSuspend
<1>6. Others(t)
  BY <1>1, <1>2 DEF Others, Moves, Suspending, BasePc, BaseThen, Outside, AskedOK
<1> QED
  BY <1>4, <1>5, <1>6, OthersKeep

LEMMA MaskAckOutside ==
  ASSUME MaskInv, NEW t \in Threads, NEW s \in Sigs, Ack(t, s), Outside(t)
  PROVE  AskedOK' /\ \A u \in Threads : MaskKept(u)'
<1>1. Typed /\ AskedOK /\ Outside(t)' /\ Moves(t)
  BY AckOutside DEF MaskInv, SigInv, Outside, Moves
<1>2. /\ pc[t] = "run" /\ (pc'[t] = "run" \/ (pc'[t] = "deliver" /\ then'[t] = "run"))
      /\ own' = [own EXCEPT ![t] = @ \ {s}] /\ unacked' = [unacked EXCEPT ![t] = @ \ {s}]
      /\ blocked' = [blocked EXCEPT ![t] = @ \ {s}] /\ UNCHANGED old
  <2>1. /\ pc[t] = "run" /\ blocked' = [blocked EXCEPT ![t] = blocked[t] \ {s}] /\ UNCHANGED old
        /\ own' = [own EXCEPT ![t] = @ \ {s}] /\ unacked' = [unacked EXCEPT ![t] = @ \ {s}]
        /\ \/ UNCHANGED <<pc, then>>
           \/ pc' = [pc EXCEPT ![t] = "deliver"] /\ then' = [then EXCEPT ![t] = "run"]
    BY DEF Ack, At, DeliverOrNote, DeliverPending, Note, Goto, Block
  <2>2. pc'[t] = "run" \/ (pc'[t] = "deliver" /\ then'[t] = "run")
    <3>1. pc \in [Threads -> SigPlaces] /\ then \in [Threads -> Thens]
      BY <1>1 DEF Typed, PlacesOK
    <3> QED
      BY <2>1, <3>1
  <2> QED
    BY <2>1, <2>2, Zenon
<1>3. own[t] \subseteq blocked[t] /\ blocked[t] \subseteq own[t] \cup unacked[t]
  BY <1>2, MaskOutside DEF MaskInv, InSuspend
<1>4. /\ own'[t] = own[t] \ {s} /\ unacked'[t] = unacked[t] \ {s}
      /\ blocked'[t] = blocked[t] \ {s} /\ AskedOK'
  BY <1>1, <1>2 DEF AskedOK, Typed, MasksOK
<1>5. MaskKept(t)'
  BY <1>1, <1>2, <1>3, <1>4, MaskOutsideNext DEF InSuspend
<1>6. Others(t)
  BY <1>1, <1>2 DEF Others, Moves, Suspending, BasePc, BaseThen, Outside, AskedOK
<1> QED
  BY <1>4, <1>5, <1>6, OthersKeep

-----------------------------------------------------------------------------
(***************************************************************************)
(* The steps that enter a handler, leave it or acknowledge in it.          *)
(***************************************************************************)
LEMMA MaskEnter ==
  ASSUME MaskInv, SigInv', NEW t \in Threads, NEW s \in Sigs, NEW f, Enters(t, s, pc[t], f), SameBase,
         s \notin blocked[t] \/ s \notin own[t]
  PROVE  AskedOK' /\ \A u \in Threads : MaskKept(u)'
<1>0. PICK n \in Nat : n = Len(frames[t])
  BY DEF MaskInv, SigInv, Typed, FramesOK
<1>1. /\ frames[t] \in Seq(Frames) /\ n \in Nat
      /\ frames'[t] = Append(frames[t], f)
      /\ Len(frames'[t]) = n + 1
      /\ \A i \in 1..n : frames'[t][i] = frames[t][i]
      /\ frames'[t][n + 1] = f
  BY <1>0 DEF MaskInv, SigInv, Typed, FramesOK, Enters
<1>2. UNCHANGED <<own, unacked, old>>
  BY DEF Enters, asked
<1>3. AskedOK'
  BY <1>2 DEF MaskInv, AskedOK
<1>4. \A u \in Threads : Suspending(u)' = Suspending(u)
  BY DEF SameBase, Suspending
<1>5. Others(t)
  BY <1>2, <1>4 DEF Others, Enters, MaskInv, SigInv, Typed, FramesOK
<1>6. \A i \in 0..n : Acking(t, i)' = Acking(t, i) /\ Restores(t, i)' = Restores(t, i)
  <2>1. ASSUME NEW i \in 0..n PROVE \A j \in 1..i : frames'[t][j] = frames[t][j]
    BY <1>1
  <2> QED
    BY <2>1 DEF Acking, Restores
<1>7. /\ Acking(t, n) \subseteq Acking(t, n + 1)'
      /\ Restores(t, n) => Restores(t, n + 1)'
      /\ f.mode = "ACK" => s \in Acking(t, n + 1)'
      /\ f.mode = "BSD" => Restores(t, n + 1)'
  <2>1. n + 1 \in 1..(n + 1) /\ \A j \in 1..n : j \in 1..(n + 1) /\ frames'[t][j] = frames[t][j]
    BY <1>1
  <2>2. f.sig = s
    BY DEF Enters
  <2>3. Acking(t, n) \subseteq Acking(t, n + 1)'
    BY <2>1 DEF Acking
  <2>4. Restores(t, n) => Restores(t, n + 1)'
    BY <2>1 DEF Restores
  <2>5. f.mode = "ACK" => s \in Acking(t, n + 1)'
    BY <1>1, <2>1, <2>2 DEF Acking
  <2>6. f.mode = "BSD" => Restores(t, n + 1)'
    BY <1>1, <2>1 DEF Restores
  <2> QED
    BY <2>3, <2>4, <2>5, <2>6
<1>8. MaskKept(t)'
  <2>1. CASE Suspending(t)
    BY <1>2, <1>4, <2>1 DEF MaskInv, MaskKept
  <2>2. CASE ~Suspending(t)
    <3>1. /\ Within(t, blocked[t], n)
          /\ \A i \in 1..n : Within(t, frames[t][i].old, i - 1) /\ frames[t][i].sig \notin own[t]
      BY <1>0, <2>2 DEF MaskInv, MaskKept
    <3>2. s \notin own[t]
      BY <3>1 DEF Within
    <3>3. own'[t] \subseteq blocked'[t]
      BY <1>2, <3>1 DEF Within, Enters
    <3>4. Restores(t, n + 1)' \/ blocked'[t] \subseteq own'[t] \cup unacked'[t] \cup Acking(t, n + 1)'
      BY <1>2, <1>7, <3>1 DEF Within, Enters
    <3>5. \A i \in 1..n : (own'[t] \subseteq frames'[t][i].old
                            /\ (Restores(t, i - 1)'
                                \/ frames'[t][i].old \subseteq own'[t] \cup unacked'[t] \cup Acking(t, i - 1)'))
                          /\ frames'[t][i].sig \notin own'[t]
      <4>1. ASSUME NEW i \in 1..n PROVE i - 1 \in 0..n
        BY <1>1
      <4> QED
        BY <1>1, <1>2, <1>6, <3>1, <4>1 DEF Within
    <3>6. /\ own'[t] \subseteq f.old /\ s \notin own'[t]
          /\ Restores(t, n)' \/ f.old \subseteq own'[t] \cup unacked'[t] \cup Acking(t, n)'
      <4>1. n \in 0..n /\ f.old = blocked[t]
        BY <1>1 DEF Enters
      <4>2. Acking(t, n)' = Acking(t, n) /\ Restores(t, n)' = Restores(t, n)
        BY <1>6, <4>1
      <4>3. own[t] \subseteq f.old
            /\ (Restores(t, n) \/ f.old \subseteq own[t] \cup unacked[t] \cup Acking(t, n))
        BY <3>1, <4>1 DEF Within
      <4> QED
        BY <1>2, <3>2, <4>2, <4>3, Zenon
    <3>7. ASSUME NEW i \in 1..(n + 1)
          PROVE  Within(t, frames[t][i].old, i - 1)' /\ frames'[t][i].sig \notin own'[t]
      <4>1. CASE i \in 1..n
        BY <3>5, <4>1 DEF Within
      <4>2. CASE i = n + 1
        <5>1. i - 1 = n /\ frames'[t][i] = f /\ f.sig = s
          BY <1>1, <4>2 DEF Enters
        <5>2. Within(t, f.old, n)'
          BY <3>6 DEF Within
        <5> QED
          BY <3>6, <5>1, <5>2 DEF Within
      <4> QED
        BY <1>1, <4>1, <4>2
    <3>8. Within(t, blocked[t], n + 1)'
      BY <3>3, <3>4 DEF Within
    <3>9. Len(frames[t])' = n + 1 /\ ~Suspending(t)'
      BY <1>1, <1>4, <2>2
    <3> QED
      BY <3>7, <3>8, <3>9, Zenon DEF MaskKept
  <2> QED
    BY <2>1, <2>2
<1> QED
  BY <1>3, <1>5, <1>8, OthersKeep

LEMMA MaskReturn ==
  ASSUME MaskInv, NEW t \in Threads, HandlerReturns(t)
  PROVE  AskedOK' /\ \A u \in Threads : MaskKept(u)'
<1>0. PICK n \in Nat, f \in Frames :
        /\ n + 1 = Len(frames[t]) /\ f = frames[t][n + 1] /\ f = Top(t)
        /\ Len(SubSeq(frames[t], 1, n)) = n
        /\ \A i \in 1..n : SubSeq(frames[t], 1, n)[i] = frames[t][i]
  <2>1. frames[t] \in Seq(Frames) /\ frames[t] # <<>>
    BY DEF MaskInv, SigInv, Typed, FramesOK, HandlerReturns, Outside
  <2>2. PICK n \in Nat : n = Len(frames[t]) - 1
    BY <2>1, Popped
  <2>3. n + 1 = Len(frames[t]) /\ frames[t][n + 1] \in Frames
    BY <2>1, <2>2, Popped
  <2>4. /\ Len(SubSeq(frames[t], 1, n)) = n
        /\ \A i \in 1..n : SubSeq(frames[t], 1, n)[i] = frames[t][i]
    BY <2>1, <2>2, Popped
  <2> QED
    BY <2>3, <2>4 DEF Top
<1>1. \A u \in Threads : Suspending(u)' = Suspending(u)
  BY ReturnStep DEF MaskInv, SameBase, Suspending
<1>2. CASE Terminate(t) /\ UNCHANGED <<pc, frames, pending>>
  <2>1. UNCHANGED <<frames, blocked, own, unacked, old>>
    BY <1>2 DEF Terminate, asked
  <2>2. \A u \in Threads : MaskKept(u)'
    BY <1>1, <2>1, MaskSame
  <2> QED
    BY <2>1, <2>2 DEF MaskInv, AskedOK
<1>3. CASE ~(Terminate(t) /\ UNCHANGED <<pc, frames, pending>>)
  <2> DEFINE new == {s \in blocked[t] : f.mode = "ACK" /\ s = f.sig}
  <2>1. /\ frames' = [frames EXCEPT ![t] = SubSeq(@, 1, Len(@) - 1)]
        /\ blocked' = [blocked EXCEPT ![t] = IF f.mode = "BSD" THEN f.old ELSE blocked[t]]
        /\ unacked' = [unacked EXCEPT ![t] = @ \cup new]
        /\ UNCHANGED <<own, old>>
    BY <1>0, <1>3 DEF HandlerReturns, Pop, Block, BlockedAfter
  <2>2. new \in SUBSET Sigs /\ new \subseteq {f.sig} /\ (f.mode # "ACK" => new = {})
        /\ (f.mode = "ACK" /\ f.sig \in blocked[t] => f.sig \in new)
    BY DEF MaskInv, SigInv, Typed, MasksOK
  <2> HIDE DEF new
  <2>3. /\ frames'[t] = SubSeq(frames[t], 1, n)
        /\ Len(frames'[t]) = n
        /\ \A i \in 1..n : frames'[t][i] = frames[t][i]
        /\ blocked'[t] = IF f.mode = "BSD" THEN f.old ELSE blocked[t]
        /\ unacked'[t] = unacked[t] \cup new
    BY <1>0, <2>1 DEF MaskInv, SigInv, Typed, FramesOK, MasksOK, AskedOK
  <2>4. AskedOK'
    BY <2>1, <2>2 DEF MaskInv, AskedOK
  <2>5. Others(t)
    BY <1>1, <2>1 DEF Others, MaskInv, SigInv, Typed, FramesOK, MasksOK, AskedOK
  <2>6. \A i \in 0..n : Acking(t, i)' = Acking(t, i) /\ Restores(t, i)' = Restores(t, i)
    <3>1. ASSUME NEW i \in 0..n PROVE \A j \in 1..i : frames'[t][j] = frames[t][j]
      BY <2>3
    <3> QED
      BY <3>1 DEF Acking, Restores
  <2>7. /\ Acking(t, n + 1) \subseteq Acking(t, n) \cup (IF f.mode = "ACK" THEN {f.sig} ELSE {})
        /\ f.mode # "BSD" /\ Restores(t, n + 1) => Restores(t, n)
    <3>1. \A j \in 1..(n + 1) : j \in 1..n \/ j = n + 1
      OBVIOUS
    <3>2. f = frames[t][n + 1]
      BY <1>0
    <3> QED
      BY <3>1, <3>2 DEF Acking, Restores
  <2>8. CASE Suspending(t)
    <3>1. own[t] \subseteq old[t] /\ old[t] \subseteq own[t] \cup unacked[t]
      BY <2>8 DEF MaskInv, MaskKept
    <3>2. own'[t] \subseteq old'[t] /\ old'[t] \subseteq own'[t] \cup unacked'[t]
      BY <2>1, <2>3, <3>1
    <3>3. MaskKept(t)'
      BY <1>1, <2>8, <3>2 DEF MaskKept
    <3> QED
      BY <2>4, <2>5, <3>3, OthersKeep
  <2>9. CASE ~Suspending(t)
    <3>1. /\ Within(t, blocked[t], n + 1)
          /\ \A i \in 1..(n + 1) : Within(t, frames[t][i].old, i - 1) /\ frames[t][i].sig \notin own[t]
      BY <1>0, <2>9 DEF MaskInv, MaskKept
    <3>2. ASSUME NEW m, NEW i \in 0..n, Within(t, m, i)
          PROVE  Within(t, m, i)'
      <4>1. Acking(t, i)' = Acking(t, i) /\ Restores(t, i)' = Restores(t, i)
        BY <2>6
      <4> QED
        BY <2>1, <2>3, <3>2, <4>1 DEF Within
    <3>3. Within(t, blocked[t], n)'
      <4>1. CASE f.mode = "BSD"
        <5>1. n + 1 \in 1..(n + 1) /\ (n + 1) - 1 = n /\ n \in 0..n
          OBVIOUS
        <5>2. Within(t, f.old, n)
          BY <1>0, <3>1, <5>1
        <5>3. Within(t, f.old, n)'
          BY <3>2, <5>1, <5>2
        <5> QED
          BY <2>3, <4>1, <5>3 DEF Within
      <4>2. CASE f.mode # "BSD"
        <5>1. n \in 0..n
          OBVIOUS
        <5>2. Acking(t, n)' = Acking(t, n) /\ Restores(t, n)' = Restores(t, n)
          BY <2>6, <5>1
        <5>3. own[t] \subseteq blocked[t]
              /\ (Restores(t, n) \/ blocked[t] \subseteq own[t] \cup unacked[t] \cup Acking(t, n + 1))
          BY <2>7, <3>1, <4>2 DEF Within
        <5>4. blocked'[t] = blocked[t]
          BY <2>3, <4>2
        <5>5. blocked[t] \subseteq own[t] \cup unacked[t] \cup Acking(t, n + 1)
                => blocked[t] \subseteq own[t] \cup unacked'[t] \cup Acking(t, n)
          BY <2>2, <2>3, <2>7
        <5> QED
          BY <2>1, <5>2, <5>3, <5>4, <5>5 DEF Within
      <4> QED
        BY <4>1, <4>2
    <3>4. ASSUME NEW i \in 1..n
          PROVE  Within(t, frames[t][i].old, i - 1)' /\ frames'[t][i].sig \notin own'[t]
      <4>1. i \in 1..(n + 1) /\ i - 1 \in 0..n /\ frames'[t][i] = frames[t][i]
        BY <2>3
      <4>2. Within(t, frames[t][i].old, i - 1) /\ frames[t][i].sig \notin own[t]
        BY <3>1, <4>1
      <4>3. PICK o : o = frames[t][i].old
        OBVIOUS
      <4>4. Within(t, o, i - 1)'
        BY <3>2, <4>1, <4>2, <4>3
      <4> QED
        BY <2>1, <4>1, <4>2, <4>3, <4>4 DEF Within
    <3>5. Len(frames[t])' = n /\ ~Suspending(t)'
      BY <1>1, <2>3, <2>9
    <3>6. MaskKept(t)'
      BY <3>3, <3>4, <3>5, Zenon DEF MaskKept
    <3> QED
      BY <2>4, <2>5, <3>6, OthersKeep
  <2> QED
    BY <2>8, <2>9
<1> QED
  BY <1>2, <1>3

LEMMA MaskAckInside ==
  ASSUME MaskInv, NEW t \in Threads, NEW s \in Sigs, Ack(t, s), ~Outside(t)
  PROVE  AskedOK' /\ \A u \in Threads : MaskKept(u)'
<1>0. PICK n \in Nat, f \in Frames :
        /\ n + 1 = Len(frames[t]) /\ f = frames[t][n + 1] /\ f = Top(t)
  <2>1. frames[t] \in Seq(Frames) /\ frames[t] # <<>>
    BY DEF MaskInv, SigInv, Typed, FramesOK, Outside
  <2>2. PICK n \in Nat : n = Len(frames[t]) - 1
    BY <2>1, Popped
  <2>3. n + 1 = Len(frames[t]) /\ frames[t][n + 1] \in Frames
    BY <2>1, <2>2, Popped
  <2> QED
    BY <2>3 DEF Top
<1>1. \A u \in Threads : Suspending(u)' = Suspending(u)
  BY AckInside DEF MaskInv, SameBase, Suspending
<1>2. /\ f.sig = s /\ f.mode = "ACK"
      /\ UNCHANGED <<own, unacked, old>>
      /\ frames' = [frames EXCEPT ![t][n + 1].acked = TRUE]
      /\ blocked' = [blocked EXCEPT ![t] = blocked[t] \ {s}]
  BY <1>0 DEF Ack, Block
<1>3. /\ blocked'[t] = blocked[t] \ {s}
      /\ Len(frames'[t]) = n + 1
      /\ \A i \in 1..(n + 1) : /\ frames'[t][i].sig = frames[t][i].sig
                               /\ frames'[t][i].mode = frames[t][i].mode
                               /\ frames'[t][i].old = frames[t][i].old
  <2>1. /\ frames[t] \in Seq(Frames) /\ blocked \in [Threads -> SUBSET Sigs]
        /\ frames \in [Threads -> Seq(Frames)]
    BY DEF MaskInv, SigInv, Typed, FramesOK, MasksOK
  <2>2. frames'[t] = [frames[t] EXCEPT ![n + 1].acked = TRUE]
    BY <1>2, <2>1
  <2>3. DOMAIN frames[t] = 1..(n + 1) /\ \A i \in 1..(n + 1) : frames[t][i] \in Frames
    BY <1>0, <2>1
  <2>4. \A i \in 1..(n + 1) :
          frames'[t][i] = IF i = n + 1 THEN [frames[t][i] EXCEPT !.acked = TRUE] ELSE frames[t][i]
    BY <2>2, <2>3
  <2>5. ASSUME NEW g \in Frames
        PROVE  LET h == [g EXCEPT !.acked = TRUE]
               IN h.sig = g.sig /\ h.mode = g.mode /\ h.old = g.old
    BY DEF Frames
  <2>6. Len(frames'[t]) = n + 1
    BY <1>0, <2>1, <2>2
  <2> QED
    BY <1>2, <2>1, <2>3, <2>4, <2>5, <2>6
<1>4. Others(t)
  BY <1>1, <1>2 DEF Others, MaskInv, SigInv, Typed, FramesOK, MasksOK
<1>5. AskedOK'
  BY <1>2 DEF MaskInv, AskedOK
<1>6. \A i \in 0..(n + 1) : Acking(t, i)' = Acking(t, i) /\ Restores(t, i)' = Restores(t, i)
  <2>1. ASSUME NEW i \in 0..(n + 1)
        PROVE  \A j \in 1..i : frames'[t][j].sig = frames[t][j].sig /\ frames'[t][j].mode = frames[t][j].mode
    BY <1>3
  <2> QED
    BY <2>1 DEF Acking, Restores
<1>7. ASSUME NEW m, NEW i \in 0..(n + 1)
      PROVE  Within(t, m, i)' <=> Within(t, m, i)
  <2>1. Acking(t, i)' = Acking(t, i) /\ Restores(t, i)' = Restores(t, i)
    BY <1>6
  <2> QED
    BY <1>2, <2>1 DEF Within
<1>8. CASE Suspending(t)
  <2>1. MaskKept(t)'
    BY <1>1, <1>2, <1>8 DEF MaskInv, MaskKept
  <2> QED
    BY <1>4, <1>5, <2>1, OthersKeep
<1>9. CASE ~Suspending(t)
  <2>1. /\ Within(t, blocked[t], n + 1)
        /\ \A i \in 1..(n + 1) : Within(t, frames[t][i].old, i - 1) /\ frames[t][i].sig \notin own[t]
    BY <1>0, <1>9 DEF MaskInv, MaskKept
  <2>2. Within(t, blocked[t], n + 1)'
    <3>1. n + 1 \in 0..(n + 1) /\ n + 1 \in 1..(n + 1)
      OBVIOUS
    <3>2. s \notin own[t]
      BY <1>0, <1>2, <2>1, <3>1
    <3>3. Acking(t, n + 1)' = Acking(t, n + 1) /\ Restores(t, n + 1)' = Restores(t, n + 1)
      BY <1>6, <3>1
    <3> QED
      BY <1>2, <1>3, <2>1, <3>2, <3>3 DEF Within
  <2>3. ASSUME NEW i \in 1..(n + 1)
        PROVE  Within(t, frames[t][i].old, i - 1)' /\ frames'[t][i].sig \notin own'[t]
    <3>1. i - 1 \in 0..(n + 1)
      OBVIOUS
    <3>2. PICK o : o = frames[t][i].old
      OBVIOUS
    <3>3. Within(t, o, i - 1)'
      BY <1>7, <2>1, <3>1, <3>2
    <3> QED
      BY <1>2, <1>3, <2>1, <3>2, <3>3 DEF Within
  <2>4. Len(frames[t])' = n + 1 /\ ~Suspending(t)'
    BY <1>1, <1>3, <1>9
  <2>5. MaskKept(t)'
    BY <2>2, <2>3, <2>4, Zenon DEF MaskKept
  <2> QED
    BY <1>4, <1>5, <2>5, OthersKeep
<1> QED
  BY <1>8, <1>9

\* uthread_deliver_signal that enters no handler.
LEMMA MaskNoEnter ==
  ASSUME MaskInv, SameBase, UNCHANGED <<frames, blocked, asked>>
  PROVE  AskedOK' /\ \A u \in Threads : MaskKept(u)'
<1>1. UNCHANGED <<own, unacked, old>>
  BY DEF asked
<1>2. \A u \in Threads : Suspending(u)' = Suspending(u)
  BY DEF SameBase, Suspending
<1> QED
  BY <1>1, <1>2, MaskSame DEF MaskInv, AskedOK

LEMMA MaskDeliver ==
  ASSUME MaskInv, SigInv', SameBase, NEW t \in Threads, NEW s \in Sigs, NEW kernel \in BOOLEAN,
         pc[t] \notin InKill, Deliver(t, s, pc[t], kernel), s \notin blocked[t] \/ s \notin own[t]
  PROVE  AskedOK' /\ \A u \in Threads : MaskKept(u)'
<1>1. Typed /\ pc[t] \in SigPlaces \ InKill
  BY DEF MaskInv, SigInv, Typed, PlacesOK
<1>2. \/ \E f : Enters(t, s, pc[t], f)
      \/ UNCHANGED <<frames, blocked, asked>>
  BY <1>1, DeliverStep
<1> QED
  BY <1>2, MaskEnter, MaskNoEnter

LEMMA MaskDeliverNext ==
  ASSUME MaskInv, NEW t \in Threads, DeliverNext(t)
  PROVE  AskedOK' /\ \A u \in Threads : MaskKept(u)'
<1>1. PICK s \in Sigs : s \notin blocked[t] /\ Deliver(t, s, "deliver", FALSE)
  <2>1. /\ pending[t] \ blocked[t] \subseteq Nat /\ pending[t] \ blocked[t] # {}
        /\ pending[t] \subseteq Sigs
    BY SignalAssumption DEF DeliverNext, MaskInv, SigInv, Typed, MasksOK
  <2>2. Min(pending[t] \ blocked[t]) \in pending[t] \ blocked[t]
    BY <2>1, MinOfNats
  <2> QED
    BY <2>1, <2>2 DEF DeliverNext
<1>2. pc[t] = "deliver" /\ pc[t] \notin InKill
  BY DEF DeliverNext, At, InKill
<1>3. SigInv' /\ SameBase
  BY NextStep DEF MaskInv
<1> QED
  BY <1>1, <1>2, <1>3, MaskDeliver

LEMMA MaskKernel ==
  ASSUME MaskInv, NEW s \in Sigs, EmxHandler(s)
  PROVE  AskedOK' /\ \A u \in Threads : MaskKept(u)'
<1>1. SigInv' /\ SameBase /\ Main \in Threads
  BY KernelStep, SignalAssumption DEF MaskInv
<1>2. CASE SignalsBlocked({})
  BY <1>1, <1>2, MaskNoEnter DEF EmxHandler
<1>3. CASE ~SignalsBlocked({})
  <2>1. pc[Main] \notin InKill /\ s \notin own[Main] /\ Deliver(Main, s, pc[Main], TRUE)
    BY <1>3 DEF EmxHandler
  <2> QED
    BY <1>1, <2>1, MaskDeliver
<1> QED
  BY <1>2, <1>3

-----------------------------------------------------------------------------
(***************************************************************************)
(* All steps.                                                              *)
(***************************************************************************)
LEMMA MaskPlain ==
  ASSUME MaskInv, NEW t \in Threads, Plain(t)
  PROVE  AskedOK' /\ \A u \in Threads : MaskKept(u)'
<1>1. CASE Maskless(t)
  <2>1. AskedOK'
    BY <1>1 DEF Maskless, asked, MaskInv, AskedOK
  <2> QED
    BY <1>1, <2>1, MasklessKeeps
<1> QED
  BY <1>1, PlainMaskless, MaskRestore, MaskSigmask, MaskSuspendStart DEF MaskInv

LEMMA MaskCaller ==
  ASSUME MaskInv, Caller
  PROVE  AskedOK' /\ \A u \in Threads : MaskKept(u)'
<1>1. Maskless(Selecter)
  <2>1. UNCHANGED <<frames, blocked, asked>>
    BY DEF Caller, SelectGoesOn, SelectEnter, SelectStart, SelectFails, SelectWakes, SelectGiveUp,
           SelectCollect, SelectReturn, KeepSignals
  <2>2. \A u \in Threads \ {Selecter} : pc'[u] = pc[u] /\ then'[u] = then[u]
    BY CallerMoves DEF Moves, MaskInv
  <2>3. ~InSuspend(pc[Selecter], then[Selecter]) /\ ~InSuspend(pc'[Selecter], then'[Selecter])
    <3>1. pc \in [Threads -> SigPlaces] /\ then \in [Threads -> Thens]
      BY DEF MaskInv, SigInv, Typed, PlacesOK
    <3> USE <3>1, SelecterAssumption DEF At, Goto, CallerTo, DeliverPending, WaitBegins, InSuspend
    <3>2. CASE SelectEnter
      BY <3>2 DEF SelectEnter
    <3>3. CASE SelectStart
      BY <3>3 DEF SelectStart
    <3>4. CASE SelectFails
      BY <3>4 DEF SelectFails
    <3>5. CASE SelectWakes
      BY <3>5 DEF SelectWakes
    <3>6. CASE SelectGiveUp
      BY <3>6 DEF SelectGiveUp
    <3>7. CASE SelectCollect
      BY <3>7 DEF SelectCollect
    <3>8. CASE SelectReturn
      BY <3>8 DEF SelectReturn
    <3> QED
      BY <3>2, <3>3, <3>4, <3>5, <3>6, <3>7, <3>8 DEF Caller, SelectGoesOn
  <2> QED
    BY <2>1, <2>2, <2>3 DEF Maskless, InSuspend
<1>2. AskedOK'
  BY <1>1 DEF Maskless, asked, MaskInv, AskedOK
<1> QED
  BY <1>1, <1>2, MasklessKeeps, SelecterAssumption

LEMMA MaskInvStep ==
  ASSUME MaskInv, [SelNext]_selVars
  PROVE  MaskInv'
<1> DEFINE Kept == AskedOK' /\ \A u \in Threads : MaskKept(u)'
<1> SUFFICES Kept
  BY SigInvStep DEF MaskInv
<1>1. ASSUME NEW t \in Threads, Plain(t) PROVE Kept
  BY <1>1, MaskPlain
<1>2. ASSUME NEW t \in Threads, DeliverNext(t) PROVE Kept
  BY <1>2, MaskDeliverNext
<1>3. ASSUME NEW t \in Threads, HandlerReturns(t) PROVE Kept
  BY <1>3, MaskReturn
<1>4. ASSUME NEW s \in Sigs, EmxHandler(s) PROVE Kept
  BY <1>4, MaskKernel
<1>5. ASSUME NEW t \in Threads, NEW s \in Sigs, Ack(t, s) PROVE Kept
  BY <1>5, MaskAckOutside, MaskAckInside
<1>6. CASE Caller
  BY <1>6, MaskCaller
<1>7. CASE Helper
  <2>1. SameBase
    BY <1>7, HelperStays DEF MaskInv
  <2>2. UNCHANGED <<frames, blocked, asked>>
    BY <1>7 DEF Helper, HelperPoll, HelperCopy, HelperTest, HelperResult, HelperPost, HelperAbandon,
                CallerStays, masks
  <2> QED
    BY <2>1, <2>2, MaskNoEnter
<1>8. CASE UNCHANGED selVars
  <2>1. UNCHANGED <<frames, pc, then, blocked, asked>>
    BY <1>8 DEF selVars, sigVars, masks, places
  <2>2. SameBase
    BY <2>1 DEF SameBase, BasePc, BaseThen, Outside
  <2> QED
    BY <2>1, <2>2, MaskNoEnter
<1>9. CASE SigNext
  <2>1. \/ \E t \in Threads : Plain(t) \/ DeliverNext(t) \/ HandlerReturns(t)
        \/ \E t \in Threads, s \in Sigs : Ack(t, s)
        \/ \E s \in Sigs : EmxHandler(s)
    BY <1>9, Zenon DEF SigNext, Handled, Calls, Plain
  <2> HIDE DEF Kept
  <2> QED
    BY <1>1, <1>2, <1>3, <1>4, <1>5, <2>1
<1> HIDE DEF Kept
<1> QED
  BY <1>6, <1>7, <1>8, <1>9 DEF SelNext, Caller

LEMMA MaskInvInit ==
  ASSUME SelInit
  PROVE  MaskInv
<1>1. SigInv
  BY SigInvInit
<1>2. AskedOK
  BY DEF SelInit, SigInit, AskedOK
<1>3. ASSUME NEW t \in Threads PROVE MaskKept(t)
  <2>1. Outside(t) /\ pc[t] = "run" /\ own[t] = {} /\ blocked[t] = {}
    BY DEF SelInit, SigInit, Outside
  <2>2. ~InSuspend(pc[t], then[t])
    BY <2>1 DEF InSuspend
  <2> QED
    BY <2>1, <2>2, MaskOutside
<1> QED
  BY <1>1, <1>2, <1>3 DEF MaskInv

(* Outside of handlers and waits a thread has the mask it has asked for,   *)
(* but for signals whose handler has not acknowledged, whatever handlers,  *)
(* interruptions and calls were nested before: uthread_deliver_signal,     *)
(* pthread_sigsuspend, pthread_sigmask and pthread_signal(SIG_ACK).        *)
THEOREM MaskRestoredAlways == SelSpec => []MaskRestored
<1>1. SelInit => MaskInv
  BY MaskInvInit
<1>2. MaskInv /\ [SelNext]_selVars => MaskInv'
  BY MaskInvStep
<1>3. MaskInv => MaskRestored
  <2> SUFFICES ASSUME MaskInv, NEW t \in Threads, pc[t] = "run", Outside(t)
               PROVE  own[t] \subseteq blocked[t] /\ blocked[t] \subseteq own[t] \cup unacked[t]
    BY DEF MaskRestored
  <2>1. ~InSuspend(pc[t], then[t])
    BY DEF InSuspend
  <2> QED
    BY <2>1, MaskOutside DEF MaskInv
<1> QED
  BY <1>1, <1>2, <1>3, PTL DEF SelSpec
-----------------------------------------------------------------------------
(***************************************************************************)
(* The types of the rest: what is noted and posted, the states, the kills  *)
(* that are under way and what the kernel has for thread 1.                *)
(***************************************************************************)
States      == WaitStates \cup {"PS_RUNNING", "PS_DEAD"}
KillRecords == [target : Threads \cup {NoThread}, sig : Sigs \cup {0},
                how : {"none", "post", "both", "cancel", "kernel", "note"}]

NotesOK == /\ noted \in [Threads -> BOOLEAN] /\ posted \in [Threads -> BOOLEAN]
           /\ state \in [Threads -> States]
           /\ left \in [Threads -> Nat] /\ ended \in BOOLEAN

\* A kill with something to do has a signal.
KillsOK == /\ call \in [Threads -> KillRecords] /\ owed \in SUBSET Sigs
           /\ \A t \in Threads : call[t].how # "none" => call[t].sig \in Sigs

OthersOK == timed \in BOOLEAN /\ copied \in BOOLEAN /\ misused \in BOOLEAN

\* What a step may do to the fields of a thread.
Notes == /\ \/ UNCHANGED noted
            \/ \E u, b : noted' = [noted EXCEPT ![u] = b] /\ b \in BOOLEAN
         /\ \/ UNCHANGED posted
            \/ \E u, b : posted' = [posted EXCEPT ![u] = b] /\ b \in BOOLEAN
         /\ \/ UNCHANGED state
            \/ \E u, s : state' = [state EXCEPT ![u] = s] /\ s \in States
            \/ \E t \in Threads : Terminate(t)
         /\ UNCHANGED left \/ \E t \in Threads : Spend(t)
         /\ UNCHANGED ended \/ ended' = TRUE

LEMMA NotesKeep ==
  ASSUME NotesOK, Notes
  PROVE  NotesOK'
<1> USE DEF NotesOK
<1>1. noted' \in [Threads -> BOOLEAN]
  BY DEF Notes
<1>2. posted' \in [Threads -> BOOLEAN]
  BY DEF Notes
<1>3. state' \in [Threads -> States]
  BY DEF Notes, Terminate, States
<1>4. left' \in [Threads -> Nat]
  BY DEF Notes, Spend
<1>5. ended' \in BOOLEAN
  BY DEF Notes
<1> QED
  BY <1>1, <1>2, <1>3, <1>4, <1>5

LEMMA PostNotes ==
  ASSUME NotesOK, NEW t, Post(t)
  PROVE  \E u, b : posted' = [posted EXCEPT ![u] = b] /\ b \in BOOLEAN
<1> DEFINE b == posted[t] \/ state[t] \in {Waits[w] : w \in OnEvent}
<1>1. posted' = [posted EXCEPT ![t] = b] /\ b \in BOOLEAN
  BY DEF Post
<1> QED
  BY <1>1

LEMMA WaitStatesAre ==
  \A w \in {"sleep", "pause", "suspend", "fd", "lock", "select"} : Waits[w] \in States
BY DEF States, WaitStates, Waits

LEMMA PlainNotes ==
  ASSUME NotesOK, NEW t \in Threads, Plain(t)
  PROVE  Notes
<1> USE DEF masks, asked, Note, NewState, DeliverPending, DeliverOrNote, WaitBegins
<1> DEFINE Noted == \/ UNCHANGED noted
                    \/ \E u, b : noted' = [noted EXCEPT ![u] = b] /\ b \in BOOLEAN
           Stated == \/ UNCHANGED state
                     \/ \E u, s : state' = [state EXCEPT ![u] = s] /\ s \in States
<1>1. CASE DeliverEnd(t) \/ KillAdd(t) \/ KillLeave(t) \/ Yield(t)
  BY <1>1 DEF DeliverEnd, KillAdd, KillLeave, Yield, Notes
<1>2. CASE KillTell(t)
  <2>1. UNCHANGED <<state, left, ended>>
    BY <1>2 DEF KillTell
  <2>2. Noted
    BY <1>2 DEF KillTell
  <2>3. UNCHANGED posted \/ Post(call[t].target)
    BY <1>2 DEF KillTell
  <2> QED
    BY <2>1, <2>2, <2>3, PostNotes DEF Notes
<1>3. CASE WaitPosted(t) \/ SleepEnds(t) \/ Restore(t) \/ FdDone(t) \/ LockGranted(t)
  <2>1. "PS_RUNNING" \in States
    BY DEF States
  <2>2. UNCHANGED <<posted, left, ended>>
    BY <1>3 DEF WaitPosted, SleepEnds, Restore, FdDone, LockGranted
  <2>3. Noted
    BY <1>3 DEF WaitPosted, SleepEnds, Restore, FdDone, LockGranted
  <2>4. Stated
    BY <1>3, <2>1 DEF WaitPosted, SleepEnds, Restore, FdDone, LockGranted
  <2> QED
    BY <2>2, <2>3, <2>4 DEF Notes
<1>4. CASE KillEnter(t)
  BY <1>4 DEF KillEnter, Notes
<1>5. ASSUME NEW s \in Sigs, Raise(t, s) PROVE Notes
  BY <1>5 DEF Raise, Notes
<1>6. ASSUME NEW s \in Sigs, NEW m \in NewModes, Install(t, s, m) PROVE Notes
  BY <1>6 DEF Install, Notes
<1>7. ASSUME NEW new \in NewMasks(t), Sigmask(t, new) PROVE Notes
  <2>1. Noted
    BY <1>7 DEF Sigmask
  <2> QED
    BY <1>7, <2>1 DEF Sigmask, Notes
<1>8. ASSUME NEW w \in {"sleep", "pause", "fd", "lock"}, WaitStart(t, w) PROVE Notes
  BY <1>8, WaitStatesAre DEF WaitStart, Notes
<1>9. ASSUME NEW mask \in Masks, SuspendStart(t, mask) PROVE Notes
  BY <1>9, WaitStatesAre DEF SuspendStart, Notes
<1> QED
  BY <1>1, <1>2, <1>3, <1>4, <1>5, <1>6, <1>7, <1>8, <1>9
     DEF Plain, KillGoesOn, WaitEnds, LockInterrupted

LEMMA DeliveryNotes ==
  ASSUME NotesOK, NEW t \in Threads,
         \/ DeliverNext(t) \/ HandlerReturns(t) \/ \E s \in Sigs : Ack(t, s)
         \/ t = Main /\ \E s \in Sigs : EmxHandler(s)
  PROVE  Notes
<1> DEFINE Ends == \/ UNCHANGED <<state, left, ended>>
                   \/ Terminate(t) /\ UNCHANGED left /\ ended' = TRUE
<1>1. ASSUME NEW s, NEW back, NEW kernel, Deliver(t, s, back, kernel) PROVE Ends
  BY <1>1 DEF Deliver, Terminate
<1>2. CASE DeliverNext(t)
  BY <1>1, <1>2 DEF DeliverNext, Notes
<1>3. CASE HandlerReturns(t)
  BY <1>3 DEF HandlerReturns, Terminate, Notes
<1>4. ASSUME NEW s \in Sigs, Ack(t, s) PROVE Notes
  BY <1>4 DEF Ack, DeliverOrNote, DeliverPending, Note, Notes
<1>5. ASSUME t = Main, NEW s \in Sigs, EmxHandler(s) PROVE Notes
  <2>1. Ends
    BY <1>1, <1>5 DEF EmxHandler
  <2>2. Post(Main) /\ (UNCHANGED noted \/ Note(Main))
    BY <1>5 DEF EmxHandler
  <2> QED
    BY <2>1, <2>2, PostNotes DEF Note, Notes
<1> QED
  BY <1>2, <1>3, <1>4, <1>5

LEMMA SelectNotes ==
  ASSUME NotesOK, OthersOK, Caller \/ Helper
  PROVE  Notes /\ OthersOK'
<1> USE SelecterAssumption DEF CallerTo, NewState, DeliverPending, WaitBegins, asked, masks,
        CallerStays, KeepSignals, Use, OthersOK
<1>1. CASE SelectEnter
  BY <1>1 DEF SelectEnter, Notes
<1>2. CASE SelectStart
  BY <1>2, WaitStatesAre DEF SelectStart, Notes
<1>3. CASE SelectFails \/ SelectGiveUp \/ SelectCollect
  BY <1>3 DEF SelectFails, SelectGiveUp, SelectCollect, Notes
<1>4. CASE SelectWakes
  <2>1. "PS_RUNNING" \in States
    BY DEF States
  <2> QED
    BY <1>4, <2>1 DEF SelectWakes, Notes
<1>5. CASE SelectReturn
  BY <1>5 DEF SelectReturn, Notes
<1>6. CASE HelperPoll \/ HelperCopy \/ HelperTest \/ HelperResult \/ HelperAbandon
  BY <1>6 DEF HelperPoll, HelperCopy, HelperTest, HelperResult, HelperAbandon, Notes
<1>7. CASE HelperPost
  <2>1. UNCHANGED posted \/ Post(Selecter)
    BY <1>7 DEF HelperPost
  <2> QED
    BY <1>7, <2>1, PostNotes DEF HelperPost, Notes
<1> QED
  BY <1>1, <1>2, <1>3, <1>4, <1>5, <1>6, <1>7 DEF Caller, SelectGoesOn, Helper

\* The kills.
LEMMA HowIs ==
  ASSUME NEW u
  PROVE  How(u) \in {"post", "both", "cancel", "kernel", "note"}
BY DEF How

LEMMA KillsStep ==
  ASSUME KillsOK, [SelNext]_selVars
  PROVE  KillsOK'
<1> USE DEF KillsOK
<1>1. ASSUME NEW t \in Threads, KillEnter(t) PROVE KillsOK'
  <2>1. PICK u \in Threads, s \in Sigs :
          call' = [call EXCEPT ![t] = [target |-> u, sig |-> s,
                     how |-> IF signals[u][s] = "IGN" THEN "none" ELSE How(u)]]
    BY <1>1 DEF KillEnter
  <2>2. PICK how \in {"none", "post", "both", "cancel", "kernel", "note"} :
          call' = [call EXCEPT ![t] = [target |-> u, sig |-> s, how |-> how]]
    BY <2>1, HowIs
  <2>3. [target |-> u, sig |-> s, how |-> how] \in KillRecords
    BY DEF KillRecords
  <2>4. UNCHANGED owed
    BY <1>1 DEF KillEnter
  <2> QED
    BY <2>2, <2>3, <2>4
<1>2. ASSUME NEW t \in Threads, KillTell(t) PROVE KillsOK'
  <2>1. UNCHANGED call
    BY <1>2 DEF KillTell
  <2>2. UNCHANGED owed \/ (call[t].how = "kernel" /\ owed' = owed \cup {call[t].sig})
    BY <1>2 DEF KillTell
  <2> QED
    BY <2>1, <2>2
<1>3. ASSUME NEW t \in Threads, KillLeave(t) PROVE KillsOK'
  <2>1. NoCall \in KillRecords /\ NoCall.how = "none"
    BY DEF NoCall, KillRecords
  <2>2. call' = [call EXCEPT ![t] = NoCall] /\ UNCHANGED owed
    BY <1>3 DEF KillLeave
  <2> QED
    BY <2>1, <2>2
<1>4. ASSUME NEW s \in Sigs, EmxHandler(s) PROVE KillsOK'
  <2>1. owed' = owed \ {s}
    BY <1>4 DEF EmxHandler
  <2>2. UNCHANGED call
    BY <1>4 DEF EmxHandler, Deliver, Terminate
  <2> QED
    BY <2>1, <2>2
<1> DEFINE Same == UNCHANGED <<call, owed>>
<1>5. Same => KillsOK'
  OBVIOUS
<1>6. ASSUME NEW t \in Threads, NEW back, NEW kernel, NEW s, Deliver(t, s, back, kernel)
      PROVE  UNCHANGED call
  BY <1>6 DEF Deliver, Terminate
<1>7. ASSUME NEW t \in Threads, DeliverNext(t) \/ DeliverEnd(t) \/ HandlerReturns(t) PROVE Same
  BY <1>6, <1>7 DEF DeliverNext, DeliverEnd, HandlerReturns, Terminate
<1>8. ASSUME NEW t \in Threads, KillAdd(t) \/ WaitEnds(t) \/ FdDone(t) \/ LockGranted(t) PROVE Same
  BY <1>8 DEF KillAdd, WaitEnds, WaitPosted, SleepEnds, Restore, LockInterrupted, FdDone,
              LockGranted
<1>9. ASSUME NEW t \in Threads, Calls(t), ~KillEnter(t) PROVE Same
  BY <1>9 DEF Calls, Yield, Raise, Ack, Install, Sigmask, WaitStart, SuspendStart
<1>10. CASE Caller
  BY <1>10, <1>5 DEF Caller, SelectGoesOn, SelectEnter, SelectStart, SelectFails, SelectWakes,
                     SelectGiveUp, SelectCollect, SelectReturn, KeepSignals
<1>11. CASE Helper
  BY <1>11, <1>5 DEF Helper, HelperPoll, HelperCopy, HelperTest, HelperResult, HelperPost,
                     HelperAbandon, CallerStays
<1>12. CASE UNCHANGED selVars
  BY <1>12, <1>5 DEF selVars, sigVars, places
<1> HIDE DEF Same, KillsOK
<1>13. CASE SigNext
  BY <1>1, <1>2, <1>3, <1>4, <1>5, <1>7, <1>8, <1>9, <1>13 DEF SigNext, Handled, KillGoesOn
<1> QED
  BY <1>10, <1>11, <1>12, <1>13 DEF SelNext, Caller

LEMMA NotesStep ==
  ASSUME NotesOK, OthersOK, [SelNext]_selVars
  PROVE  NotesOK' /\ OthersOK'
<1>1. CASE SigNext /\ UNCHANGED selOnly
  <2>1. \/ \E t \in Threads : Plain(t) \/ DeliverNext(t) \/ HandlerReturns(t)
        \/ \E t \in Threads, s \in Sigs : Ack(t, s)
        \/ \E s \in Sigs : EmxHandler(s)
    BY <1>1, Zenon DEF SigNext, Handled, Calls, Plain
  <2>2. Main \in Threads
    BY SignalAssumption
  <2>3. Notes
    BY <2>1, <2>2, PlainNotes, DeliveryNotes
  <2> QED
    BY <1>1, <2>3, NotesKeep DEF selOnly, OthersOK
<1>2. CASE Caller \/ Helper
  BY <1>2, SelectNotes, NotesKeep
<1>3. CASE UNCHANGED selVars
  BY <1>3 DEF selVars, selOnly, sigVars, masks, places, NotesOK, OthersOK
<1> QED
  BY <1>1, <1>2, <1>3 DEF SelNext, Caller

\* Masks, handlers, waits, kills and the record of a select stay within
\* their types: no delivery, return or interruption sends a thread to a place
\* or gives it a frame, a mask or a signal that there is not.
THEOREM SelTypeCorrect == SelSpec => []SelTypeOK
<1>1. SelInit => NotesOK /\ KillsOK /\ OthersOK
  <2> SUFFICES ASSUME SelInit PROVE NotesOK /\ KillsOK /\ OthersOK
    OBVIOUS
  <2> USE SignalAssumption DEF SelInit, SigInit
  <2>1. NotesOK
    BY DEF NotesOK, States
  <2>2. NoCall \in KillRecords /\ NoCall.how = "none"
    BY DEF NoCall, KillRecords
  <2>3. KillsOK
    BY <2>2 DEF KillsOK
  <2> QED
    BY <2>1, <2>3 DEF OthersOK
<1>2. NotesOK /\ KillsOK /\ OthersOK /\ [SelNext]_selVars => (NotesOK /\ KillsOK /\ OthersOK)'
  BY NotesStep, KillsStep
<1>3. SelInit => SelInv /\ MaskInv
  BY SelInvInit, MaskInvInit
<1>4. SelInv /\ MaskInv /\ [SelNext]_selVars => SelInv' /\ MaskInv'
  BY SelInvStep, MaskInvStep
<1>5. NotesOK /\ KillsOK /\ OthersOK /\ SelInv /\ MaskInv => SelTypeOK
  <2> SUFFICES ASSUME NotesOK, KillsOK, OthersOK, SelInv, MaskInv PROVE SelTypeOK
    OBVIOUS
  <2>1. SigTypeOK
    BY DEF SigTypeOK, NotesOK, KillsOK, States, KillRecords, SelInv, SigInv, Typed, MasksOK,
           FramesOK, PlacesOK, MaskInv, AskedOK
  <2> QED
    BY <2>1 DEF SelTypeOK, SelInv, SelTyped, OthersOK
<1> QED
  BY <1>1, <1>2, <1>3, <1>4, <1>5, PTL DEF SelSpec
=============================================================================
