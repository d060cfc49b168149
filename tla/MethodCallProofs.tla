-------------------------- MODULE MethodCallProofs --------------------------
(***************************************************************************)
(* Proofs about MethodCall.  The promise's reference count is exactly the *)
(* references the code hands out and never drops: one for the caller      *)
(* while it holds the future, one for the GIO callback's user_data from    *)
(* the start of the call on.  That accounting is inductive and gives       *)
(* PromiseAliveForCallback for every set of calls.                         *)
(***************************************************************************)
EXTENDS MethodCall, TLAPS

(* The references to call c's promise, counted from the code.             *)
RefsAccount(c) ==
  /\ callPc[c] = "idle" => ~callerHolds[c]
  /\ refs[c] = (IF callPc[c] = "idle" THEN 0 ELSE 1)
               + (IF callerHolds[c] THEN 1 ELSE 0)

(* Where call c's promise is in its life, counted from the same code.    *)
PromiseAccount(c) ==
  /\ callPc[c] = "idle" <=> promise[c] = "none"
  /\ callPc[c] = "inflight" => promise[c] = "pending"
  /\ callPc[c] = "done" => promise[c] \in {"resolved", "rejected"}

IInv == TypeOK /\ \A c \in Calls : RefsAccount(c) /\ PromiseAccount(c)

-----------------------------------------------------------------------------
(* Each start, callback, release and cancellation keeps IInv.              *)
LEMMA AccountStep == IInv /\ [Next]_vars => IInv'
<1> SUFFICES ASSUME IInv, [Next]_vars PROVE IInv'
  OBVIOUS
<1>0. TypeOK /\ \A c \in Calls : RefsAccount(c) /\ PromiseAccount(c)
  BY DEF IInv
<1>1. CASE UNCHANGED vars
  BY <1>0, <1>1 DEF vars, IInv, TypeOK, RefsAccount, PromiseAccount
<1>2. ASSUME NEW c \in Calls, StartCall(c) PROVE IInv'
  BY <1>0, <1>2 DEF IInv, TypeOK, RefsAccount, PromiseAccount, StartCall, PromiseStates
<1>3. ASSUME NEW c \in Calls, NEW o \in Outcomes, Complete(c, o) PROVE IInv'
  BY <1>0, <1>3 DEF IInv, TypeOK, RefsAccount, PromiseAccount, Complete, Finished, PromiseStates
<1>4. ASSUME NEW c \in Calls, Release(c) PROVE IInv'
  <2>1. refs[c] >= 1
    BY <1>0, <1>4 DEF TypeOK, RefsAccount, PromiseAccount, Release
  <2>2. QED
    BY <1>0, <1>4, <2>1 DEF IInv, TypeOK, RefsAccount, PromiseAccount, Release
<1>5. ASSUME NEW c \in Calls, Cancel(c) PROVE IInv'
  BY <1>0, <1>5 DEF IInv, TypeOK, RefsAccount, PromiseAccount, Cancel
<1>6. QED
  BY <1>1, <1>2, <1>3, <1>4, <1>5
     DEF Next, ProxyNewFuture, CallFuture, ProxyNewFutureCb, CallFutureCb

(* The promise outlives the caller's interest, for any number of proxy    *)
(* and method calls: while a GIO call is in flight its callback's         *)
(* user_data reference keeps the promise alive, whatever the caller has   *)
(* released or cancelled (the dex_ref (promise) of lines 323 and 522).    *)
THEOREM PromiseAliveForCallbackHolds == Spec => []PromiseAliveForCallback
<1>1. Init => IInv
  BY DEF Init, IInv, TypeOK, RefsAccount, PromiseAccount, PromiseStates
<1>2. IInv => PromiseAliveForCallback
  BY DEF IInv, TypeOK, RefsAccount, PromiseAccount, PromiseAliveForCallback
<1>3. QED
  BY <1>1, <1>2, AccountStep, PTL DEF Spec

(* The leak of the NoPromiseLeak run is not an accident of the small      *)
(* instance: for any set of calls, once a callback has run and the caller *)
(* has dropped its future, exactly one reference to the promise remains,  *)
(* the user_data reference that the callbacks never drop.                  *)
THEOREM PromiseLeakedAfterCallback ==
  Spec => [](\A c \in Calls : (callPc[c] = "done" /\ ~callerHolds[c]) => refs[c] = 1)
<1>1. Init => IInv
  BY DEF Init, IInv, TypeOK, RefsAccount, PromiseAccount, PromiseStates
<1>2. IInv => \A c \in Calls : (callPc[c] = "done" /\ ~callerHolds[c]) => refs[c] = 1
  BY DEF IInv, TypeOK, RefsAccount
<1>3. QED
  BY <1>1, <1>2, AccountStep, PTL DEF Spec

=============================================================================
