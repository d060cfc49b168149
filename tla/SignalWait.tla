----------------------------- MODULE SignalWait -----------------------------
(***************************************************************************)
(* The single-occurrence signal wait emitted by generate_signal_wait and   *)
(* generate_body_preamble: <iface>_wait_<signal>_future allocates a        *)
(* GDBusFutureSignalData shared by two listeners, a "cancelled" handler on *)
(* the promise's GCancellable and a signal handler on the proxy.  Whichever *)
(* runs first completes the promise and frees the shared data.             *)
(*                                                                         *)
(* Every step that changes state is an action; the C statements of one     *)
(* callback that only touch the shared data are grouped into the step that *)
(* first dereferences it.  When Threaded is FALSE the waiter, the signal   *)
(* emission and the cancellation all run on the proxy's main context, so a *)
(* callback is never interleaved with another one; when it is TRUE the     *)
(* token may fire, and the wait may be issued, on another thread.          *)
(***************************************************************************)
EXTENDS Naturals

CONSTANTS
  Threaded,  \* whether the token may fire, and a wait be issued, off the proxy's context
  Waits      \* the wait calls issued on one proxy, each with its own data and token

ASSUME ThreadedAssumption == Threaded \in BOOLEAN

VARIABLES
  waitPc,        \* progress of each <iface>_wait_<signal>_future call
  sigPc,         \* progress of each wait's _<iface>_wait_<signal>_signalled_cb
  cancelPc,      \* progress of each wait's gdbus_future_signal_cancelled_cb
  dataAlive,     \* the wait's GDBusFutureSignalData is allocated and not yet freed
  frees,         \* calls of gdbus_future_signal_data_free on that data so far
  sigHandler,    \* the wait's signal handler is connected on the proxy
  sigIdStored,   \* data->signalled_handler_id holds that handler's id
  cancelHandler, \* the wait's "cancelled" handler is connected on its token
  cancelled,     \* the wait promise's GCancellable has been cancelled
  promise,       \* state of data->promise
  completions    \* dex_promise_resolve*/dex_promise_reject calls on it

vars == <<waitPc, sigPc, cancelPc, dataAlive, frees, sigHandler, sigIdStored,
          cancelHandler, cancelled, promise, completions>>

PromiseStates == {"none", "pending", "resolved", "rejected"}

(* A pending promise takes the first completion; a later one is ignored.  *)
Complete(p, outcome) == IF p = "pending" THEN outcome ELSE p

(* Wait w's callbacks are not in the middle of running.                   *)
SigIdle(w)    == sigPc[w] \in {"idle", "done"}
CancelIdle(w) == cancelPc[w] \in {"idle", "done"}

(* On a single context no function or callback starts while another one   *)
(* is part-way through.                                                   *)
Quiet ==
  \A w \in Waits : waitPc[w] # "connected" /\ SigIdle(w) /\ CancelIdle(w)

-----------------------------------------------------------------------------
Init ==
  /\ waitPc = [w \in Waits |-> "idle"]
  /\ sigPc = [w \in Waits |-> "idle"]
  /\ cancelPc = [w \in Waits |-> "idle"]
  /\ dataAlive = [w \in Waits |-> FALSE]
  /\ frees = [w \in Waits |-> 0]
  /\ sigHandler = [w \in Waits |-> FALSE]
  /\ sigIdStored = [w \in Waits |-> FALSE]
  /\ cancelHandler = [w \in Waits |-> FALSE]
  /\ cancelled = [w \in Waits |-> FALSE]
  /\ promise = [w \in Waits |-> "none"]
  /\ completions = [w \in Waits |-> 0]

(* gdbus_future_signal_data_free: disconnect the signal handler by the    *)
(* stored id (a zero id disconnects nothing), drop the proxy and the      *)
(* promise, free the data.                                                *)
DataFree(w) ==
  /\ dataAlive' = [dataAlive EXCEPT ![w] = FALSE]
  /\ frees' = [frees EXCEPT ![w] = @ + 1]
  /\ sigHandler' = [sigHandler EXCEPT ![w] = @ /\ ~sigIdStored[w]]

(* The wait function up to g_signal_connect: allocate the data, take the  *)
(* proxy, create the cancellable promise, connect both handlers.          *)
WaitConnect(w) ==
  /\ waitPc[w] = "idle"
  /\ Threaded \/ Quiet
  /\ waitPc' = [waitPc EXCEPT ![w] = "connected"]
  /\ dataAlive' = [dataAlive EXCEPT ![w] = TRUE]
  /\ promise' = [promise EXCEPT ![w] = "pending"]
  /\ cancelHandler' = [cancelHandler EXCEPT ![w] = TRUE]
  /\ sigHandler' = [sigHandler EXCEPT ![w] = TRUE]
  /\ UNCHANGED <<sigPc, cancelPc, frees, sigIdStored, cancelled, completions>>

(* Store the handler id returned by g_signal_connect in the data and hand *)
(* dex_ref (data->promise) to the caller.                                 *)
WaitReturn(w) ==
  /\ waitPc[w] = "connected"
  /\ waitPc' = [waitPc EXCEPT ![w] = "returned"]
  /\ sigIdStored' = [sigIdStored EXCEPT ![w] = TRUE]
  /\ UNCHANGED <<sigPc, cancelPc, dataAlive, frees, sigHandler, cancelHandler,
                 cancelled, promise, completions>>

(* The consumer discards the future and the token fires (once): the       *)
(* "cancelled" handler runs if it is still connected.                     *)
Cancel(w) ==
  /\ waitPc[w] = "returned"
  /\ ~cancelled[w]
  /\ Threaded \/ Quiet
  /\ cancelled' = [cancelled EXCEPT ![w] = TRUE]
  /\ cancelPc' = [cancelPc EXCEPT ![w] = IF cancelHandler[w] THEN "reject" ELSE "done"]
  /\ UNCHANGED <<waitPc, sigPc, dataAlive, frees, sigHandler, sigIdStored,
                 cancelHandler, promise, completions>>

(* Mutant: the cancelled callback frees the data without rejecting.       *)
CancelledRejectSkipped(w) ==
  /\ cancelPc[w] = "reject"
  /\ cancelPc' = [cancelPc EXCEPT ![w] = "free"]
  /\ UNCHANGED <<waitPc, sigPc, dataAlive, frees, sigHandler, sigIdStored,
                 cancelHandler, cancelled, promise, completions>>

(* gdbus_future_signal_cancelled_cb: reject with G_IO_ERROR_CANCELLED ... *)
CancelledReject(w) ==
  /\ cancelPc[w] = "reject"
  /\ cancelPc' = [cancelPc EXCEPT ![w] = "free"]
  /\ promise' = [promise EXCEPT ![w] = Complete(@, "rejected")]
  /\ completions' = [completions EXCEPT ![w] = @ + 1]
  /\ UNCHANGED <<waitPc, sigPc, dataAlive, frees, sigHandler, sigIdStored,
                 cancelHandler, cancelled>>

(* ... then free the shared data.                                         *)
CancelledFree(w) ==
  /\ cancelPc[w] = "free"
  /\ cancelPc' = [cancelPc EXCEPT ![w] = "done"]
  /\ DataFree(w)
  /\ UNCHANGED <<waitPc, sigPc, sigIdStored, cancelHandler, cancelled,
                 promise, completions>>

(* The proxy emits the signal and invokes the connected handler, which    *)
(* first builds the boxed signal record from the arguments.               *)
Emit(w) ==
  /\ sigHandler[w]
  /\ SigIdle(w)
  /\ Threaded \/ Quiet
  /\ sigPc' = [sigPc EXCEPT ![w] = "disconnect"]
  /\ UNCHANGED <<waitPc, cancelPc, dataAlive, frees, sigHandler, sigIdStored,
                 cancelHandler, cancelled, promise, completions>>

(* Mutant: the signal handler does not disconnect the "cancelled" handler. *)
SignalledDisconnectSkipped(w) ==
  /\ sigPc[w] = "disconnect"
  /\ sigPc' = [sigPc EXCEPT ![w] = "resolve"]
  /\ UNCHANGED <<waitPc, cancelPc, dataAlive, frees, sigHandler, sigIdStored,
                 cancelHandler, cancelled, promise, completions>>

(* g_cancellable_disconnect of data->cancelled_handler_id, which waits    *)
(* for a "cancelled" handler that is running, then the id is zeroed.      *)
SignalledDisconnect(w) ==
  /\ sigPc[w] = "disconnect"
  /\ cancelPc[w] \notin {"reject", "free"}
  /\ sigPc' = [sigPc EXCEPT ![w] = "resolve"]
  /\ cancelHandler' = [cancelHandler EXCEPT ![w] = FALSE]
  /\ UNCHANGED <<waitPc, cancelPc, dataAlive, frees, sigHandler, sigIdStored,
                 cancelled, promise, completions>>

(* dex_promise_resolve_boxed (or _boolean TRUE) on data->promise.         *)
SignalledResolve(w) ==
  /\ sigPc[w] = "resolve"
  /\ sigPc' = [sigPc EXCEPT ![w] = "free"]
  /\ promise' = [promise EXCEPT ![w] = Complete(@, "resolved")]
  /\ completions' = [completions EXCEPT ![w] = @ + 1]
  /\ UNCHANGED <<waitPc, cancelPc, dataAlive, frees, sigHandler, sigIdStored,
                 cancelHandler, cancelled>>

(* gdbus_future_signal_data_free (data) at the end of the signal handler. *)
SignalledFree(w) ==
  /\ sigPc[w] = "free"
  /\ sigPc' = [sigPc EXCEPT ![w] = "done"]
  /\ DataFree(w)
  /\ UNCHANGED <<waitPc, cancelPc, sigIdStored, cancelHandler, cancelled,
                 promise, completions>>

Next ==
  \E w \in Waits :
    \/ WaitConnect(w) \/ WaitReturn(w)
    \/ Cancel(w) \/ CancelledReject(w) \/ CancelledFree(w)
    \/ Emit(w) \/ SignalledDisconnect(w) \/ SignalledResolve(w) \/ SignalledFree(w)

(* Once a function or callback has started it runs to its end; whether    *)
(* the signal is ever emitted or a token ever fires is up to the          *)
(* environment and gets no fairness.                                      *)
Fairness ==
  \A w \in Waits :
    /\ WF_vars(WaitReturn(w))
    /\ WF_vars(CancelledReject(w)) /\ WF_vars(CancelledFree(w))
    /\ WF_vars(SignalledDisconnect(w)) /\ WF_vars(SignalledResolve(w))
    /\ WF_vars(SignalledFree(w))

Spec == Init /\ [][Next]_vars /\ Fairness

-----------------------------------------------------------------------------
TypeOK ==
  /\ waitPc \in [Waits -> {"idle", "connected", "returned"}]
  /\ sigPc \in [Waits -> {"idle", "disconnect", "resolve", "free", "done"}]
  /\ cancelPc \in [Waits -> {"idle", "reject", "free", "done"}]
  /\ dataAlive \in [Waits -> BOOLEAN]
  /\ frees \in [Waits -> Nat]
  /\ sigHandler \in [Waits -> BOOLEAN]
  /\ sigIdStored \in [Waits -> BOOLEAN]
  /\ cancelHandler \in [Waits -> BOOLEAN]
  /\ cancelled \in [Waits -> BOOLEAN]
  /\ promise \in [Waits -> PromiseStates]
  /\ completions \in [Waits -> Nat]

(* The parts of a safe teardown of wait w's shared data.                  *)
CompletedOnce(w) ==
  /\ completions[w] <= 1
  /\ (promise[w] \in {"resolved", "rejected"}) <=> (completions[w] = 1)

FreedOnce(w) == frees[w] <= 1

DerefsLive(w) ==
  (\/ waitPc[w] = "connected"
   \/ sigPc[w] \in {"disconnect", "resolve", "free"}
   \/ cancelPc[w] \in {"reject", "free"}) => dataAlive[w]

NoDanglingHandler(w) ==
  frees[w] > 0 => (~sigHandler[w] /\ (cancelHandler[w] => cancelled[w]))

(* First writer wins, and nothing touches the data after it: whatever the *)
(* order of the signal and the token, each wait's promise is completed by *)
(* exactly one of its two callbacks, its data is freed at most once, the  *)
(* wait function and each callback dereference the data only while it is  *)
(* allocated, and once it is freed no handler that can still fire (a      *)
(* connected signal handler, or a "cancelled" handler on a token that has *)
(* not fired) points at it.                                               *)
TeardownSafe ==
  \A w \in Waits :
    CompletedOnce(w) /\ FreedOnce(w) /\ DerefsLive(w) /\ NoDanglingHandler(w)

(* Every wait settles: once its signal handler has been invoked or its    *)
(* token has fired, its promise is eventually resolved or rejected.       *)
Settles ==
  \A w \in Waits :
    (sigPc[w] # "idle" \/ cancelled[w]) ~> (promise[w] \in {"resolved", "rejected"})

=============================================================================
