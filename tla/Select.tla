------------------------------- MODULE Select -------------------------------
(***************************************************************************)
(* pthread_select (uthread_select.c) on top of Signals.  A helper thread   *)
(* polls the file descriptors; it shares a record on the heap with its     *)
(* caller, who waits for an event that the helper or a signal posts, for   *)
(* no longer than the timeout.  Who comes last is to free the record.      *)
(***************************************************************************)
EXTENDS Signals

CONSTANT Selecter    \* bound: the one thread that calls select

ASSUME SelecterAssumption == Selecter \in Threads

VARIABLES
  sel,       \* the record: is it allocated, its event, done, result
  helper,    \* where the helper thread is
  found,     \* its local result
  copied,    \* have the results been copied to the caller's sets?
  timed,     \* has the caller given a timeout?
  answer,    \* what select returns: a positive number, 0 or -1
  misused    \* has the record been used, or freed, after it was freed?

selOnly == <<sel, helper, found, copied, timed, answer, misused>>
selVars == <<sigVars, selOnly>>

SelTypeOK ==
  /\ SigTypeOK
  /\ sel \in [live : BOOLEAN, event : BOOLEAN, done : {0, 1, 3}, result : {-1, 0, 1}]
  /\ helper \in {"none", "poll", "copy", "test", "result", "post", "abandon"}
  /\ {copied, timed, misused} \subseteq BOOLEAN
  /\ {found, answer} \subseteq {-1, 0, 1}

\* No record, or one that has been freed.
Freed == [live |-> FALSE, event |-> FALSE, done |-> 0, result |-> 0]

SelInit ==
  /\ SigInit
  /\ sel = Freed
  /\ helper = "none"
  /\ found = 0
  /\ copied = FALSE
  /\ timed = FALSE
  /\ answer = 0
  /\ misused = FALSE

Use           == misused' = (misused \/ ~sel.live)
HelperTo(l)   == helper' = l
CallerTo(l)   == Goto(Selecter, l)

\* What a step of the helper, and one of the caller, leave alone.
CallerStays   == UNCHANGED <<masks, state, pc, then, call, left, frames, owed, asked, ended, timed, answer>>
KeepSignals   == UNCHANGED <<signals, pending, blocked, call, frames, owed, asked, ended>>

-----------------------------------------------------------------------------
(***************************************************************************)
(* Wrong versions of some operations, for trying the properties out.       *)
(***************************************************************************)
\* done is counted on, past 1.
HelperResultCounts ==
  /\ helper = "result" /\ ~ended
  /\ Use
  /\ sel' = [sel EXCEPT !.result = found, !.done = @ + 1]
  /\ HelperTo("post")
  /\ CallerStays
  /\ UNCHANGED <<posted, found, copied>>

\* The caller that gives up frees the record.
SelectGiveUpFrees ==
  /\ At(Selecter, "giveup")
  /\ Use
  /\ sel' = Freed
  /\ answer' = -1
  /\ CallerTo("selected")
  /\ KeepSignals
  /\ UNCHANGED <<noted, state, posted, then, left, helper, found, copied, timed>>

-----------------------------------------------------------------------------
(***************************************************************************)
(* The caller.                                                             *)
(***************************************************************************)
\* Bound: the helper of an earlier select has ended.
SelectEnter ==
  /\ At(Selecter, "run") /\ Outside(Selecter) /\ Spend(Selecter)
  /\ helper = "none"
  /\ timed' \in BOOLEAN
  /\ answer' = 0
  /\ IF noted[Selecter] THEN DeliverPending(Selecter, "selecting")
                        ELSE CallerTo("selecting") /\ UNCHANGED <<noted, then>>
  /\ UNCHANGED <<signals, pending, blocked, state, posted, call, frames, owed, asked, ended,
                 sel, helper, found, copied, misused>>

SelectStart ==
  /\ At(Selecter, "selecting")
  /\ sel' = [live |-> TRUE, event |-> TRUE, done |-> 0, result |-> 0]
  /\ HelperTo("poll")
  /\ copied' = FALSE
  /\ WaitBegins(Selecter, "select")
  /\ KeepSignals
  /\ UNCHANGED <<noted, then, left, found, timed, answer, misused>>

\* malloc fails, or _beginthread does, and then the record is lost.
SelectFails ==
  /\ At(Selecter, "selecting")
  /\ answer' = -1
  /\ CallerTo("selected")
  /\ KeepSignals
  /\ UNCHANGED <<noted, state, posted, then, left, sel, helper, found, copied, timed, misused>>

\* The event has been posted or the time is over; done is tested.
SelectWakes ==
  /\ At(Selecter, "select")
  /\ posted[Selecter] \/ timed
  /\ Use
  /\ NewState(Selecter, "PS_RUNNING")
  /\ CallerTo(IF sel.done = 0 THEN "giveup" ELSE "collect")
  /\ KeepSignals
  /\ UNCHANGED <<noted, posted, then, left, sel, helper, found, copied, timed, answer>>

\* The helper is told to free the record; it may be past looking.
SelectGiveUp ==
  /\ At(Selecter, "giveup")
  /\ Use
  /\ sel' = [sel EXCEPT !.event = FALSE]
  /\ answer' = -1
  /\ CallerTo("selected")
  /\ KeepSignals
  /\ UNCHANGED <<noted, state, posted, then, left, helper, found, copied, timed>>

SelectCollect ==
  /\ At(Selecter, "collect") /\ sel.done = 3
  /\ Use
  /\ answer' = sel.result
  /\ sel' = Freed
  /\ CallerTo("selected")
  /\ KeepSignals
  /\ UNCHANGED <<noted, state, posted, then, left, helper, found, copied, timed>>

SelectReturn ==
  /\ At(Selecter, "selected")
  /\ IF noted[Selecter] THEN DeliverPending(Selecter, "run") /\ answer' = IF answer > 0 THEN answer ELSE -1
                        ELSE CallerTo("run") /\ UNCHANGED <<noted, then, answer>>
  /\ timed' = FALSE
  /\ KeepSignals
  /\ UNCHANGED <<state, posted, left, sel, helper, found, copied, misused>>

-----------------------------------------------------------------------------
(***************************************************************************)
(* The helper, _thread_select.                                             *)
(***************************************************************************)
HelperPoll ==
  /\ helper = "poll" /\ ~ended
  /\ Use
  /\ found' \in {-1, 0, 1}
  /\ sel' = IF found' = 0 THEN sel ELSE [sel EXCEPT !.done = 1]
  /\ HelperTo(IF found' = 1 THEN "copy" ELSE "test")
  /\ CallerStays
  /\ UNCHANGED <<posted, copied>>

HelperCopy ==
  /\ helper = "copy" /\ ~ended
  /\ Use
  /\ copied' = TRUE
  /\ HelperTo("test")
  /\ CallerStays
  /\ UNCHANGED <<posted, sel, found>>

\* while (self->event != 0 && self->done == 0); then event is tested again.
HelperTest ==
  /\ helper = "test" /\ ~ended
  /\ Use
  /\ HelperTo(CASE sel.event /\ sel.done = 0 -> "poll"
                [] sel.event /\ sel.done > 0 -> "result"
                [] ~sel.event                -> "abandon")
  /\ CallerStays
  /\ UNCHANGED <<posted, sel, found, copied>>

HelperResult ==
  /\ helper = "result" /\ ~ended
  /\ Use
  /\ sel' = [sel EXCEPT !.result = found, !.done = 3]
  /\ HelperTo("post")
  /\ CallerStays
  /\ UNCHANGED <<posted, found, copied>>

\* The caller may have closed the event by now.
HelperPost ==
  /\ helper = "post" /\ ~ended
  /\ IF state[Selecter] = "PS_SELECT_WAIT" THEN Post(Selecter) ELSE UNCHANGED posted
  /\ HelperTo("none")
  /\ found' = 0
  /\ CallerStays
  /\ UNCHANGED <<sel, copied, misused>>

HelperAbandon ==
  /\ helper = "abandon" /\ ~ended
  /\ Use
  /\ sel' = Freed
  /\ HelperTo("none")
  /\ found' = 0
  /\ CallerStays
  /\ UNCHANGED <<posted, copied>>

-----------------------------------------------------------------------------
Helper == \/ HelperPoll \/ HelperCopy \/ HelperTest \/ HelperResult
          \/ HelperPost \/ HelperAbandon

SelectGoesOn == \/ SelectStart \/ SelectFails \/ SelectWakes
                \/ SelectGiveUp \/ SelectCollect \/ SelectReturn

\* The kernel runs every thread, and a handler returns.
Steps(t) == \/ (Handled(t) \/ KillGoesOn(t) \/ WaitEnds(t)) /\ UNCHANGED selOnly
            \/ t = Selecter /\ SelectGoesOn

SelNext ==
  \/ SigNext /\ UNCHANGED selOnly
  \/ SelectEnter \/ SelectGoesOn \/ Helper

SelSpec == SelInit /\ [][SelNext]_selVars
                   /\ \A t \in Threads : WF_selVars(Steps(t))
                   /\ WF_selVars(Helper)

-----------------------------------------------------------------------------
(***************************************************************************)
(* Properties.                                                             *)
(***************************************************************************)
(* No handler is entered again while it runs, in a thread whose signals    *)
(* all come through its pending set: whatever handlers, waits and calls    *)
(* are nested in it, uthread_deliver_signal keeps the signal blocked until *)
(* it has returned or has acknowledged.  (SA_SYSV leaves it open, and the  *)
(* kernel calls the handlers of thread 1 without a look at sig_blocked.)   *)
NoReentry ==
  \A t \in Threads \ {Main} : \A i, j \in DOMAIN frames[t] :
    i < j /\ frames[t][i].sig = frames[t][j].sig
      => frames[t][i].mode = "SYSV" \/ frames[t][i].acked

(* Outside of handlers and waits the mask of a thread is the one it has    *)
(* asked for, but for signals whose handler has not acknowledged: no order *)
(* of nested handlers, sigsuspend and interruptions leaves a signal        *)
(* blocked, or opens one.                                                  *)
MaskRestored ==
  \A t \in Threads : pc[t] = "run" /\ Outside(t) =>
    own[t] \subseteq blocked[t] /\ blocked[t] \subseteq own[t] \cup unacked[t]

(* The record of a select is not touched after it was freed, and not freed *)
(* twice, whether the helper, a signal or the timeout comes first; and a   *)
(* positive result comes with the sets filled in.                          *)
SelectSafe == ~misused /\ (answer > 0 => copied)

(* A kill that has seen its target in sleep, pause, sigsuspend or select   *)
(* ends that wait; the lock of a file is given up by a thread that a       *)
(* signal is noted for (thread 1 may have handled it inside the wait); a   *)
(* select with a timeout returns; and the helper of a select that has      *)
(* given up ends.                                                          *)
WaitsEnd ==
  /\ \A t \in Threads :
       (\/ /\ state[t] \in {Waits[w] : w \in OnEvent}
           /\ \E k \in Threads : pc[k] = "add" /\ call[k].target = t /\ call[k].how \in {"post", "both"}
        \/ pc[t] = "lock" /\ noted[t] /\ t # Main)
       ~> (state[t] = "PS_RUNNING" \/ ended)
  /\ (pc[Selecter] = "select" /\ timed) ~> (pc[Selecter] = "selected" \/ ended)
  /\ (helper # "none" /\ ~sel.event) ~> (helper = "none" \/ ended)
=============================================================================
