---------------------------- MODULE AsyncioBridge ----------------------------
(***************************************************************************)
(* The adapter of Dex.py that lets a coroutine await a Dex.Future:         *)
(* _future__await__ creates an asyncio future on the running loop,         *)
(* registers on_done with Dex.Future.finally_, keeps the returned future   *)
(* in async_fut.dex_future, and yields from the asyncio future.  When the  *)
(* Dex future settles, on_done reads its value and hands set_result or     *)
(* set_exception to the loop with call_soon_threadsafe, then clears        *)
(* async_fut.dex_future.                                                   *)
(*                                                                         *)
(* Several awaits, one per element of Awaits, wait on the same Dex future. *)
(* The loop thread runs the await bodies, the callbacks it was handed      *)
(* (in FIFO order) and task cancellation; on_done runs on the thread that  *)
(* dispatches the Dex future's callbacks.  When Threaded is FALSE that is  *)
(* the loop's own thread, so no routine starts while another is half-way;  *)
(* when it is TRUE the two threads interleave freely.  finally_ on a       *)
(* future that has already settled invokes the callback at once, inside    *)
(* the call (modelled from the spec, section 4.1).                         *)
(***************************************************************************)
EXTENDS Naturals, Sequences

CONSTANTS
  Threaded,  \* whether Dex callbacks run on a thread other than the asyncio loop's
  Awaits     \* the awaits of the one Dex future

ASSUME BridgeAssumption == Threaded \in BOOLEAN

VARIABLES
  dexState,   \* the awaited Dex future: "pending", "resolved" or "rejected"
  awaitPc,    \* each await: "idle", "chaining" (in finally_/the assignment), "awaiting", "done"
  asyncFut,   \* its asyncio future: "none", "pending", "result", "exception", "cancelled"
  dexRef,     \* async_fut.dex_future is not None
  onDonePc,   \* its on_done: "unregistered", "registered", "clear" (before line 21), "done"
  ready,      \* callbacks handed to the loop with call_soon_threadsafe, in order
  raised      \* callbacks that raised InvalidStateError inside the loop

vars == <<dexState, awaitPc, asyncFut, dexRef, onDonePc, ready, raised>>

(* The loop method on_done hands over for the Dex future's state.         *)
Setter == [resolved |-> "result", rejected |-> "exception"]

(* A routine of the loop thread, or of the Dex thread, is half-way.       *)
LoopBusy == \E a \in Awaits : awaitPc[a] = "chaining"
DexBusy  == \E a \in Awaits : onDonePc[a] = "clear"

(* A routine may start on the loop thread, or on the Dex thread.          *)
LoopMayRun == ~LoopBusy /\ (Threaded \/ ~DexBusy)
DexMayRun  == ~DexBusy /\ (Threaded \/ ~LoopBusy)

-----------------------------------------------------------------------------
Init ==
  /\ dexState = "pending"
  /\ awaitPc = [a \in Awaits |-> "idle"]
  /\ asyncFut = [a \in Awaits |-> "none"]
  /\ dexRef = [a \in Awaits |-> FALSE]
  /\ onDonePc = [a \in Awaits |-> "unregistered"]
  /\ ready = <<>>
  /\ raised = 0

(* The Dex future settles (outside the bridge).                           *)
DexComplete ==
  /\ dexState = "pending"
  /\ DexMayRun
  /\ \E s \in {"resolved", "rejected"} : dexState' = s
  /\ UNCHANGED <<awaitPc, asyncFut, dexRef, onDonePc, ready, raised>>

(* _future__await__ up to the return of finally_: loop.create_future,     *)
(* then finally_ registers on_done, which on a settled future runs at     *)
(* once: it hands the setter to the loop and clears dex_future.           *)
AwaitStart(a) ==
  /\ awaitPc[a] = "idle"
  /\ LoopMayRun
  /\ awaitPc' = [awaitPc EXCEPT ![a] = "chaining"]
  /\ asyncFut' = [asyncFut EXCEPT ![a] = "pending"]
  /\ IF dexState = "pending"
     THEN /\ onDonePc' = [onDonePc EXCEPT ![a] = "registered"]
          /\ UNCHANGED ready
     ELSE /\ onDonePc' = [onDonePc EXCEPT ![a] = "done"]
          /\ ready' = Append(ready, [await |-> a, set |-> Setter[dexState]])
  /\ UNCHANGED <<dexState, dexRef, raised>>

(* The assignment async_fut.dex_future = ..., then yield from the asyncio *)
(* future.                                                                *)
AwaitAssign(a) ==
  /\ awaitPc[a] = "chaining"
  /\ awaitPc' = [awaitPc EXCEPT ![a] = "awaiting"]
  /\ dexRef' = [dexRef EXCEPT ![a] = TRUE]
  /\ UNCHANGED <<dexState, asyncFut, onDonePc, ready, raised>>

(* Mutant: the failure branch hands nothing to the loop.                  *)
OnDoneScheduleDropped(a) ==
  /\ onDonePc[a] = "registered"
  /\ dexState # "pending"
  /\ DexMayRun
  /\ onDonePc' = [onDonePc EXCEPT ![a] = "clear"]
  /\ ready' = IF dexState = "resolved"
              THEN Append(ready, [await |-> a, set |-> "result"]) ELSE ready
  /\ UNCHANGED <<dexState, awaitPc, asyncFut, dexRef, raised>>

(* Mutant: the except branch hands the error to set_result.              *)
OnDoneScheduleAsResult(a) ==
  /\ onDonePc[a] = "registered"
  /\ dexState # "pending"
  /\ DexMayRun
  /\ onDonePc' = [onDonePc EXCEPT ![a] = "clear"]
  /\ ready' = Append(ready, [await |-> a, set |-> "result"])
  /\ UNCHANGED <<dexState, awaitPc, asyncFut, dexRef, raised>>

(* on_done, lines 14-19: get_value, then call_soon_threadsafe of          *)
(* set_result with the value, or of set_exception with the error raised.  *)
OnDoneSchedule(a) ==
  /\ onDonePc[a] = "registered"
  /\ dexState # "pending"
  /\ DexMayRun
  /\ onDonePc' = [onDonePc EXCEPT ![a] = "clear"]
  /\ ready' = Append(ready, [await |-> a, set |-> Setter[dexState]])
  /\ UNCHANGED <<dexState, awaitPc, asyncFut, dexRef, raised>>

(* on_done, line 21: async_fut.dex_future = None.                          *)
OnDoneClear(a) ==
  /\ onDonePc[a] = "clear"
  /\ onDonePc' = [onDonePc EXCEPT ![a] = "done"]
  /\ dexRef' = [dexRef EXCEPT ![a] = FALSE]
  /\ UNCHANGED <<dexState, awaitPc, asyncFut, ready, raised>>

(* The loop runs the oldest callback handed to it: set_result or          *)
(* set_exception, which raise InvalidStateError on a future that is       *)
(* already done; the loop reports that and carries on.                     *)
RunReady ==
  /\ ready # <<>>
  /\ LoopMayRun
  /\ LET h == Head(ready) IN
     IF asyncFut[h.await] = "pending"
     THEN /\ asyncFut' = [asyncFut EXCEPT ![h.await] = h.set]
          /\ UNCHANGED raised
     ELSE /\ raised' = raised + 1
          /\ UNCHANGED asyncFut
  /\ ready' = Tail(ready)
  /\ UNCHANGED <<dexState, awaitPc, dexRef, onDonePc>>

(* The task running the await is cancelled: Task.cancel cancels the       *)
(* asyncio future it is waiting on.  The Dex future is left running.      *)
TaskCancel(a) ==
  /\ awaitPc[a] = "awaiting"
  /\ asyncFut[a] = "pending"
  /\ LoopMayRun
  /\ asyncFut' = [asyncFut EXCEPT ![a] = "cancelled"]
  /\ UNCHANGED <<dexState, awaitPc, dexRef, onDonePc, ready, raised>>

(* The task wakes up on the done asyncio future and the await returns the *)
(* value or raises (line 25).                                             *)
AwaitReturn(a) ==
  /\ awaitPc[a] = "awaiting"
  /\ asyncFut[a] \in {"result", "exception", "cancelled"}
  /\ LoopMayRun
  /\ awaitPc' = [awaitPc EXCEPT ![a] = "done"]
  /\ UNCHANGED <<dexState, asyncFut, dexRef, onDonePc, ready, raised>>

Next ==
  \/ DexComplete
  \/ RunReady
  \/ \E a \in Awaits :
       \/ AwaitStart(a) \/ AwaitAssign(a)
       \/ OnDoneSchedule(a) \/ OnDoneClear(a)
       \/ TaskCancel(a) \/ AwaitReturn(a)

(* libdex invokes a registered callback once its future has settled, a   *)
(* running loop runs the callbacks handed to it and wakes the tasks whose *)
(* futures are done, and a started routine runs to its end.  Whether the *)
(* Dex future settles and whether a task is cancelled is up to the        *)
(* program and gets no fairness.                                          *)
Fairness ==
  /\ WF_vars(RunReady)
  /\ \A a \in Awaits :
       /\ WF_vars(AwaitAssign(a)) /\ WF_vars(AwaitReturn(a))
       /\ WF_vars(OnDoneSchedule(a)) /\ WF_vars(OnDoneClear(a))

Spec == Init /\ [][Next]_vars /\ Fairness

-----------------------------------------------------------------------------
TypeOK ==
  /\ dexState \in {"pending", "resolved", "rejected"}
  /\ awaitPc \in [Awaits -> {"idle", "chaining", "awaiting", "done"}]
  /\ asyncFut \in [Awaits -> {"none", "pending", "result", "exception", "cancelled"}]
  /\ dexRef \in [Awaits -> BOOLEAN]
  /\ onDonePc \in [Awaits -> {"unregistered", "registered", "clear", "done"}]
  /\ ready \in Seq([await : Awaits, set : {"result", "exception"}])
  /\ raised \in Nat

(* The await reports what the Dex future did: an asyncio future that got  *)
(* a result belongs to a resolved Dex future and one that got an          *)
(* exception to a rejected one, and so does every setter still queued on  *)
(* the loop, whichever thread on_done ran on.                             *)
MirrorsDex ==
  /\ \A a \in Awaits :
       /\ asyncFut[a] = "result" => dexState = "resolved"
       /\ asyncFut[a] = "exception" => dexState = "rejected"
  /\ \A i \in DOMAIN ready : ready[i].set = Setter[dexState]

(* Every await of a settled Dex future returns or raises: once the Dex    *)
(* future has settled, each coroutine suspended in it resumes.             *)
AwaitSettles ==
  \A a \in Awaits :
    (awaitPc[a] = "awaiting" /\ dexState # "pending") ~> awaitPc[a] = "done"

(* The adapter releases its back-reference (spec, section 5): once on_done *)
(* has run and the await body has finished its assignment,                *)
(* async_fut.dex_future no longer holds the finally_ future.               *)
BackRefReleased ==
  \A a \in Awaits :
    (onDonePc[a] = "done" /\ awaitPc[a] \in {"awaiting", "done"}) => ~dexRef[a]

(* Exactly one transition on the foreign side (spec, section 5): every    *)
(* setter on_done hands to the loop finds its asyncio future still        *)
(* pending, so none raises InvalidStateError.                              *)
SingleTransition == raised = 0

(* The back-reference is released once the foreign side is settled (spec, *)
(* section 5), by cancellation too: when the task awaiting at line 25 is  *)
(* cancelled while its on_done is still registered on a pending Dex       *)
(* future, async_fut.dex_future is eventually cleared.  Only on_done       *)
(* clears it, and cancellation is not passed on to the Dex future, so it  *)
(* stays set for as long as that future stays pending.  The inline        *)
(* on_done of an already settled future (BackRefReleased) is excluded.    *)
BackRefReleasedOnCancel ==
  \A a \in Awaits :
    (onDonePc[a] = "registered" /\ asyncFut[a] = "cancelled") ~> ~dexRef[a]

=============================================================================
