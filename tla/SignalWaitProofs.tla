-------------------------- MODULE SignalWaitProofs --------------------------
(***************************************************************************)
(* Proofs about SignalWait.  On a single main context (Threaded = FALSE)   *)
(* the two teardown routines of a wait never interleave, and the local     *)
(* state of each wait is always in one of the phases below; that phase     *)
(* invariant is inductive and implies TeardownSafe.                        *)
(***************************************************************************)
EXTENDS SignalWait, TLAPS

(* Before the wait function is called.                                    *)
Fresh(w) ==
  /\ sigPc[w] = "idle" /\ cancelPc[w] = "idle"
  /\ ~dataAlive[w] /\ frees[w] = 0
  /\ ~sigHandler[w] /\ ~sigIdStored[w] /\ ~cancelHandler[w] /\ ~cancelled[w]
  /\ promise[w] = "none" /\ completions[w] = 0

(* Inside the wait function, both handlers connected, the id not stored.  *)
Connecting(w) ==
  /\ sigPc[w] = "idle" /\ cancelPc[w] = "idle"
  /\ dataAlive[w] /\ frees[w] = 0
  /\ sigHandler[w] /\ ~sigIdStored[w] /\ cancelHandler[w] /\ ~cancelled[w]
  /\ promise[w] = "pending" /\ completions[w] = 0

(* Returned; neither callback has started.                                *)
Armed(w) ==
  /\ sigPc[w] = "idle" /\ cancelPc[w] = "idle"
  /\ dataAlive[w] /\ frees[w] = 0
  /\ sigHandler[w] /\ cancelHandler[w] /\ ~cancelled[w]
  /\ promise[w] = "pending" /\ completions[w] = 0

(* The signal handler is running; it has disconnected the "cancelled"     *)
(* handler once past "disconnect", and resolved once at "free".           *)
Signalling(w) ==
  /\ sigPc[w] \in {"disconnect", "resolve", "free"} /\ cancelPc[w] = "idle"
  /\ dataAlive[w] /\ frees[w] = 0
  /\ sigHandler[w] /\ ~cancelled[w]
  /\ cancelHandler[w] <=> sigPc[w] = "disconnect"
  /\ promise[w] = IF sigPc[w] = "free" THEN "resolved" ELSE "pending"
  /\ completions[w] = IF sigPc[w] = "free" THEN 1 ELSE 0

(* The signal handler has finished; the token may have fired since, with  *)
(* no handler left to run.                                                *)
Signalled(w) ==
  /\ sigPc[w] = "done" /\ cancelPc[w] \in {"idle", "done"}
  /\ ~dataAlive[w] /\ frees[w] = 1
  /\ ~sigHandler[w] /\ ~cancelHandler[w]
  /\ cancelled[w] <=> cancelPc[w] = "done"
  /\ promise[w] = "resolved" /\ completions[w] = 1

(* The "cancelled" handler is running; it has rejected once at "free".    *)
Cancelling(w) ==
  /\ sigPc[w] = "idle" /\ cancelPc[w] \in {"reject", "free"}
  /\ dataAlive[w] /\ frees[w] = 0
  /\ sigHandler[w] /\ cancelHandler[w] /\ cancelled[w]
  /\ promise[w] = IF cancelPc[w] = "free" THEN "rejected" ELSE "pending"
  /\ completions[w] = IF cancelPc[w] = "free" THEN 1 ELSE 0

(* The "cancelled" handler has finished; it stays connected to a token    *)
(* that cannot fire again.                                                *)
CancelledDone(w) ==
  /\ sigPc[w] = "idle" /\ cancelPc[w] = "done"
  /\ ~dataAlive[w] /\ frees[w] = 1
  /\ ~sigHandler[w] /\ cancelHandler[w] /\ cancelled[w]
  /\ promise[w] = "rejected" /\ completions[w] = 1

(* The phases of one wait on a single context.                            *)
WaitPhase(w) ==
  \/ waitPc[w] = "idle" /\ Fresh(w)
  \/ waitPc[w] = "connected" /\ Connecting(w)
  \/ /\ waitPc[w] = "returned" /\ sigIdStored[w]
     /\ \/ Armed(w) \/ Signalling(w) \/ Signalled(w)
        \/ Cancelling(w) \/ CancelledDone(w)

IInv == TypeOK /\ \A w \in Waits : WaitPhase(w)

-----------------------------------------------------------------------------
(* Every step keeps each variable in its type, on one context or several. *)
LEMMA TypeStep == TypeOK /\ [Next]_vars => TypeOK'
  <2> SUFFICES ASSUME TypeOK, [Next]_vars PROVE TypeOK'
    OBVIOUS
  <2>1. CASE UNCHANGED vars
    BY <2>1 DEF vars, TypeOK
  <2>2. ASSUME NEW w \in Waits,
               \/ WaitConnect(w) \/ WaitReturn(w)
               \/ Cancel(w) \/ CancelledReject(w) \/ CancelledFree(w)
               \/ Emit(w) \/ SignalledDisconnect(w) \/ SignalledResolve(w)
               \/ SignalledFree(w)
        PROVE TypeOK'
    <3>1. CASE WaitConnect(w)
      BY <3>1 DEF TypeOK, PromiseStates, WaitConnect
    <3>2. CASE WaitReturn(w)
      BY <3>2 DEF TypeOK, PromiseStates, WaitReturn
    <3>3. CASE Cancel(w)
      BY <3>3 DEF TypeOK, PromiseStates, Cancel
    <3>4. CASE CancelledReject(w)
      BY <3>4 DEF TypeOK, PromiseStates, CancelledReject, Complete
    <3>5. CASE CancelledFree(w)
      BY <3>5 DEF TypeOK, PromiseStates, CancelledFree, DataFree
    <3>6. CASE Emit(w)
      BY <3>6 DEF TypeOK, PromiseStates, Emit
    <3>7. CASE SignalledDisconnect(w)
      BY <3>7 DEF TypeOK, PromiseStates, SignalledDisconnect
    <3>8. CASE SignalledResolve(w)
      BY <3>8 DEF TypeOK, PromiseStates, SignalledResolve, Complete
    <3>9. CASE SignalledFree(w)
      BY <3>9 DEF TypeOK, PromiseStates, SignalledFree, DataFree
    <3>10. QED
      BY <2>2, <3>1, <3>2, <3>3, <3>4, <3>5, <3>6, <3>7, <3>8, <3>9
  <2>3. QED
    BY <2>1, <2>2 DEF Next

(* Type correctness of the wait: every variable keeps its type whether    *)
(* the callbacks run on one context or on several threads.                *)
THEOREM TypeCorrect == Spec => []TypeOK
<1>1. Init => TypeOK
  BY DEF Init, TypeOK, PromiseStates
<1>2. QED
  BY <1>1, TypeStep, PTL DEF Spec

-----------------------------------------------------------------------------
USE DEF WaitPhase, Fresh, Connecting, Armed, Signalling, Signalled,
        Cancelling, CancelledDone

(* On one context, a step of wait w leaves every other wait's phase as it *)
(* was and moves w from one phase to another.                             *)
LEMMA PhaseStep == ~Threaded /\ IInv /\ [Next]_vars => IInv'
<1> SUFFICES ASSUME ~Threaded, IInv, [Next]_vars PROVE IInv'
  OBVIOUS
<1>0. TypeOK /\ \A u \in Waits : WaitPhase(u)
  BY DEF IInv
<1>1. TypeOK'
  BY TypeStep DEF IInv
<1>2. CASE UNCHANGED vars
  <2>1. /\ waitPc' = waitPc /\ sigPc' = sigPc /\ cancelPc' = cancelPc
        /\ dataAlive' = dataAlive /\ frees' = frees /\ sigHandler' = sigHandler
        /\ sigIdStored' = sigIdStored /\ cancelHandler' = cancelHandler
        /\ cancelled' = cancelled /\ promise' = promise
        /\ completions' = completions
    BY <1>2 DEF vars
  <2>2. QED
    BY <1>1, <2>1 DEF IInv
<1>3. ASSUME NEW w \in Waits, WaitConnect(w)
      PROVE \A u \in Waits : WaitPhase(u)'
  <2>1. WaitPhase(w)'
    BY <1>3 DEF IInv, TypeOK, WaitConnect
  <2>2. ASSUME NEW u \in Waits, u # w PROVE WaitPhase(u)'
    BY <1>3, <2>2 DEF IInv, TypeOK, WaitConnect
  <2> HIDE DEF WaitPhase
  <2>3. QED
    BY <2>1, <2>2
<1>4. ASSUME NEW w \in Waits, WaitReturn(w)
      PROVE \A u \in Waits : WaitPhase(u)'
  <2>1. WaitPhase(w)'
    BY <1>4 DEF IInv, TypeOK, WaitReturn
  <2>2. ASSUME NEW u \in Waits, u # w PROVE WaitPhase(u)'
    BY <1>4, <2>2 DEF IInv, TypeOK, WaitReturn
  <2> HIDE DEF WaitPhase
  <2>3. QED
    BY <2>1, <2>2
<1>5. ASSUME NEW w \in Waits, Cancel(w)
      PROVE \A u \in Waits : WaitPhase(u)'
  <2>0. SigIdle(w) /\ CancelIdle(w) /\ waitPc[w] # "connected"
    BY <1>5 DEF Cancel, Quiet
  <2>1. WaitPhase(w)'
    BY <1>5, <2>0 DEF IInv, TypeOK, Cancel, SigIdle, CancelIdle
  <2>2. ASSUME NEW u \in Waits, u # w PROVE WaitPhase(u)'
    BY <1>5, <2>2 DEF IInv, TypeOK, Cancel
  <2> HIDE DEF WaitPhase
  <2>3. QED
    BY <2>1, <2>2
<1>6. ASSUME NEW w \in Waits, CancelledReject(w)
      PROVE \A u \in Waits : WaitPhase(u)'
  <2>1. WaitPhase(w)'
    BY <1>6 DEF IInv, TypeOK, CancelledReject, Complete
  <2>2. ASSUME NEW u \in Waits, u # w PROVE WaitPhase(u)'
    BY <1>6, <2>2 DEF IInv, TypeOK, CancelledReject
  <2> HIDE DEF WaitPhase
  <2>3. QED
    BY <2>1, <2>2
<1>7. ASSUME NEW w \in Waits, CancelledFree(w)
      PROVE \A u \in Waits : WaitPhase(u)'
  <2>1. /\ waitPc[w] = "returned" /\ sigIdStored[w]
        /\ Cancelling(w) /\ cancelPc[w] = "free"
    BY <1>7 DEF IInv, CancelledFree
  <2>7. cancelPc'[w] = "done"
    BY <1>0, <1>7 DEF TypeOK, CancelledFree
  <2>8. ~dataAlive'[w]
    BY <1>0, <1>7 DEF TypeOK, CancelledFree, DataFree
  <2>9. frees'[w] = 1
    BY <1>0, <1>7, <2>1 DEF TypeOK, CancelledFree, DataFree
  <2>10. ~sigHandler'[w]
    <3>1. sigHandler'[w] = (sigHandler[w] /\ ~sigIdStored[w])
      BY <1>0, <1>7 DEF TypeOK, CancelledFree, DataFree
    <3>2. QED
      BY <2>1, <3>1, Zenon
  <2>5. /\ cancelPc'[w] = "done" /\ ~dataAlive'[w] /\ frees'[w] = 1
        /\ ~sigHandler'[w]
    BY <2>7, <2>8, <2>9, <2>10
  <2>6. /\ waitPc' = waitPc /\ sigPc' = sigPc /\ sigIdStored' = sigIdStored
        /\ cancelHandler' = cancelHandler /\ cancelled' = cancelled
        /\ promise' = promise /\ completions' = completions
    BY <1>7 DEF CancelledFree
  <2>4. WaitPhase(w)'
    BY <2>1, <2>5, <2>6
  <2>2. ASSUME NEW u \in Waits, u # w PROVE WaitPhase(u)'
    BY <1>7, <2>2 DEF IInv, TypeOK, CancelledFree, DataFree
  <2> HIDE DEF WaitPhase
  <2>3. QED
    BY <2>4, <2>2
<1>8. ASSUME NEW w \in Waits, Emit(w)
      PROVE \A u \in Waits : WaitPhase(u)'
  <2>0. SigIdle(w) /\ CancelIdle(w) /\ waitPc[w] # "connected"
    BY <1>8 DEF Emit, Quiet
  <2>1. WaitPhase(w)'
    BY <1>8, <2>0 DEF IInv, TypeOK, Emit, SigIdle, CancelIdle
  <2>2. ASSUME NEW u \in Waits, u # w PROVE WaitPhase(u)'
    BY <1>8, <2>2 DEF IInv, TypeOK, Emit
  <2> HIDE DEF WaitPhase
  <2>3. QED
    BY <2>1, <2>2
<1>9. ASSUME NEW w \in Waits, SignalledDisconnect(w)
      PROVE \A u \in Waits : WaitPhase(u)'
  <2>1. WaitPhase(w)'
    BY <1>9 DEF IInv, TypeOK, SignalledDisconnect
  <2>2. ASSUME NEW u \in Waits, u # w PROVE WaitPhase(u)'
    BY <1>9, <2>2 DEF IInv, TypeOK, SignalledDisconnect
  <2> HIDE DEF WaitPhase
  <2>3. QED
    BY <2>1, <2>2
<1>10. ASSUME NEW w \in Waits, SignalledResolve(w)
       PROVE \A u \in Waits : WaitPhase(u)'
  <2>1. WaitPhase(w)'
    BY <1>10 DEF IInv, TypeOK, SignalledResolve, Complete
  <2>2. ASSUME NEW u \in Waits, u # w PROVE WaitPhase(u)'
    BY <1>10, <2>2 DEF IInv, TypeOK, SignalledResolve
  <2> HIDE DEF WaitPhase
  <2>3. QED
    BY <2>1, <2>2
<1>11. ASSUME NEW w \in Waits, SignalledFree(w)
       PROVE \A u \in Waits : WaitPhase(u)'
  <2>1. WaitPhase(w)'
    BY <1>11 DEF IInv, TypeOK, SignalledFree, DataFree
  <2>2. ASSUME NEW u \in Waits, u # w PROVE WaitPhase(u)'
    BY <1>11, <2>2 DEF IInv, TypeOK, SignalledFree, DataFree
  <2> HIDE DEF WaitPhase
  <2>3. QED
    BY <2>1, <2>2
<1>12. QED
  BY <1>1, <1>2, <1>3, <1>4, <1>5, <1>6, <1>7, <1>8, <1>9, <1>10, <1>11
     DEF IInv, Next

(* First writer wins, and nothing touches the data after it (TeardownSafe), *)
(* for any number of waits, when the waits, the signal emissions and the    *)
(* cancellations all run on the proxy's main context.                       *)
THEOREM TeardownSafeOnOneContext == ~Threaded => (Spec => []TeardownSafe)
<1> SUFFICES ASSUME ~Threaded PROVE Spec => []TeardownSafe
  OBVIOUS
<1>0. IInv /\ [Next]_vars => IInv'
  BY PhaseStep
<1>1. Init => IInv
  BY DEF Init, IInv, TypeOK, PromiseStates
<1>2. IInv => TeardownSafe
  BY DEF IInv, TypeOK, TeardownSafe, CompletedOnce, FreedOnce, DerefsLive,
         NoDanglingHandler
<1>3. QED
  BY <1>0, <1>1, <1>2, PTL DEF Spec

=============================================================================
