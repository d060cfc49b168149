----------------------------- MODULE MethodCall -----------------------------
(***************************************************************************)
(* The one-shot bus operations emitted by generate_proxy and              *)
(* generate_method_call: <iface>_proxy_new_future and                      *)
(* <iface>_call_<method>_future create a cancellable DexPromise, start the *)
(* GIO async primitive with the promise's GCancellable and a reference to  *)
(* the promise as user_data, and return the promise to the caller.  The    *)
(* completion callback finishes the call and resolves or rejects it.       *)
(*                                                                         *)
(* The promise's reference count is kept, since the callback and the       *)
(* caller share it.  The GIO primitive invokes the callback exactly once,  *)
(* failing with G_IO_ERROR_CANCELLED when the token fired before the       *)
(* result was returned (modelled from the spec, section 6).                *)
(***************************************************************************)
EXTENDS Naturals

CONSTANTS
  ProxyCalls,   \* calls of <iface>_proxy_new_future
  MethodCalls   \* calls of <iface>_call_<method>_future

ASSUME CallsAssumption == ProxyCalls \cap MethodCalls = {}

Calls == ProxyCalls \cup MethodCalls

VARIABLES
  callPc,       \* "idle", "inflight" (primitive running) or "done" (callback ran)
  refs,         \* reference count of the call's DexPromise
  callerHolds,  \* the caller still holds the reference it was returned
  cancelled,    \* the promise's GCancellable has fired
  promise       \* state of the promise

vars == <<callPc, refs, callerHolds, cancelled, promise>>

PromiseStates == {"none", "pending", "resolved", "rejected"}

(* The outcomes of a finished GIO call: a result, or an error.            *)
Outcomes == {"ok", "error"}

-----------------------------------------------------------------------------
Init ==
  /\ callPc = [c \in Calls |-> "idle"]
  /\ refs = [c \in Calls |-> 0]
  /\ callerHolds = [c \in Calls |-> FALSE]
  /\ cancelled = [c \in Calls |-> FALSE]
  /\ promise = [c \in Calls |-> "none"]

(* Mutant: the call passes the promise as user_data without dex_ref.      *)
StartCallUnreffed(c) ==
  /\ callPc[c] = "idle"
  /\ callPc' = [callPc EXCEPT ![c] = "inflight"]
  /\ refs' = [refs EXCEPT ![c] = 1]
  /\ callerHolds' = [callerHolds EXCEPT ![c] = TRUE]
  /\ promise' = [promise EXCEPT ![c] = "pending"]
  /\ UNCHANGED cancelled

(* Common body of both functions: dex_promise_new_cancellable (one        *)
(* reference, returned to the caller), start the primitive with           *)
(* dex_ref (promise) as user_data (a second reference).                   *)
StartCall(c) ==
  /\ callPc[c] = "idle"
  /\ callPc' = [callPc EXCEPT ![c] = "inflight"]
  /\ refs' = [refs EXCEPT ![c] = 2]
  /\ callerHolds' = [callerHolds EXCEPT ![c] = TRUE]
  /\ promise' = [promise EXCEPT ![c] = "pending"]
  /\ UNCHANGED cancelled

(* <iface>_proxy_new_future.                                              *)
ProxyNewFuture(c) == c \in ProxyCalls /\ StartCall(c)

(* <iface>_call_<method>_future.                                          *)
CallFuture(c) == c \in MethodCalls /\ StartCall(c)

(* The outcome the finish function reports: G_IO_ERROR_CANCELLED once    *)
(* the token has fired, else the bus's result.                            *)
Finished(c, outcome) == IF cancelled[c] THEN "error" ELSE outcome

(* Mutant: the failure branch returns without rejecting the promise.      *)
CompleteDroppingError(c, outcome) ==
  /\ callPc[c] = "inflight"
  /\ callPc' = [callPc EXCEPT ![c] = "done"]
  /\ promise' = [promise EXCEPT ![c] =
                   IF Finished(c, outcome) = "ok" THEN "resolved" ELSE @]
  /\ UNCHANGED <<refs, callerHolds, cancelled>>

(* The callback body shared by both: finish, reject on failure, resolve   *)
(* (with the proxy, TRUE, or the boxed out-arguments) on success.  The    *)
(* reference held in user_data is not dropped.                            *)
Complete(c, outcome) ==
  /\ callPc[c] = "inflight"
  /\ callPc' = [callPc EXCEPT ![c] = "done"]
  /\ promise' = [promise EXCEPT ![c] =
                   IF Finished(c, outcome) = "ok" THEN "resolved" ELSE "rejected"]
  /\ UNCHANGED <<refs, callerHolds, cancelled>>

(* <iface>_proxy_new_future_cb: a NULL proxy rejects, else resolve_object. *)
ProxyNewFutureCb(c) == c \in ProxyCalls /\ \E o \in Outcomes : Complete(c, o)

(* <iface>_call_<method>_future_cb.                                       *)
CallFutureCb(c) == c \in MethodCalls /\ \E o \in Outcomes : Complete(c, o)

(* The caller drops the future it was returned (dex_unref).               *)
Release(c) ==
  /\ callerHolds[c]
  /\ callerHolds' = [callerHolds EXCEPT ![c] = FALSE]
  /\ refs' = [refs EXCEPT ![c] = @ - 1]
  /\ UNCHANGED <<callPc, cancelled, promise>>

(* The consumer discards the future and the promise's token fires.        *)
Cancel(c) ==
  /\ callPc[c] # "idle"
  /\ ~cancelled[c]
  /\ cancelled' = [cancelled EXCEPT ![c] = TRUE]
  /\ UNCHANGED <<callPc, refs, callerHolds, promise>>

Next ==
  \E c \in Calls :
    \/ ProxyNewFuture(c) \/ CallFuture(c)
    \/ ProxyNewFutureCb(c) \/ CallFutureCb(c)
    \/ Release(c) \/ Cancel(c)

(* The GIO primitive always invokes its callback (spec, section 6).       *)
Fairness ==
  \A c \in Calls : WF_vars(ProxyNewFutureCb(c)) /\ WF_vars(CallFutureCb(c))

Spec == Init /\ [][Next]_vars /\ Fairness

-----------------------------------------------------------------------------
TypeOK ==
  /\ callPc \in [Calls -> {"idle", "inflight", "done"}]
  /\ refs \in [Calls -> Nat]
  /\ callerHolds \in [Calls -> BOOLEAN]
  /\ cancelled \in [Calls -> BOOLEAN]
  /\ promise \in [Calls -> PromiseStates]

(* The promise outlives the caller's interest: while the GIO primitive is *)
(* running, the promise its callback will complete is still referenced,   *)
(* even after the caller has dropped the future it was returned.          *)
PromiseAliveForCallback ==
  \A c \in Calls : callPc[c] = "inflight" => refs[c] >= 1

(* Every call settles: the future returned by a call is eventually        *)
(* resolved or rejected, whether or not its token fires.                  *)
Settles ==
  \A c \in Calls :
    callPc[c] = "inflight" ~> promise[c] \in {"resolved", "rejected"}

(* Leak-free teardown: once the callback has run and the caller has       *)
(* dropped its future, no reference to the promise remains.               *)
NoPromiseLeak ==
  \A c \in Calls : (callPc[c] = "done" /\ ~callerHolds[c]) => refs[c] = 0

=============================================================================
