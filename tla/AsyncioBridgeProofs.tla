------------------------- MODULE AsyncioBridgeProofs -------------------------
(***************************************************************************)
(* Proofs about AsyncioBridge.  Until the Dex future settles nothing is   *)
(* handed to the loop and no asyncio future has an outcome; after it      *)
(* settles every setter handed over, and every outcome set, is the one    *)
(* for the Dex future's state.  That is inductive, on one thread or two,  *)
(* and gives MirrorsDex for every number of awaits.                       *)
(***************************************************************************)
EXTENDS AsyncioBridge, SequenceTheorems, TLAPS

(* The callbacks on_done can hand the loop once the Dex future is s.      *)
Entry(s) == [await : Awaits, set : {Setter[s]}]

Settled == {"resolved", "rejected"}

(* The asyncio outcomes an await can have seen.                           *)
Seen(a, s) == asyncFut[a] \in {"none", "pending", "cancelled"} \cup s

IInv ==
  /\ TypeOK
  /\ dexState = "pending" => ready = <<>> /\ \A a \in Awaits : Seen(a, {})
  /\ dexState \in Settled =>
       /\ ready \in Seq(Entry(dexState))
       /\ \A a \in Awaits : Seen(a, {Setter[dexState]})

-----------------------------------------------------------------------------
(* A setter on_done hands over for a settled future is an Entry, and one   *)
(* of the callbacks TypeOK allows.                                         *)
LEMMA EntryType ==
  ASSUME NEW s \in Settled, NEW a \in Awaits
  PROVE  /\ [await |-> a, set |-> Setter[s]] \in Entry(s)
         /\ Entry(s) \subseteq [await : Awaits, set : {"result", "exception"}]
  BY DEF Entry, Setter, Settled

(* Handing a setter to the loop keeps IInv.                                *)
LEMMA HandOver ==
  ASSUME IInv, NEW a \in Awaits, dexState \in Settled,
         ready' = Append(ready, [await |-> a, set |-> Setter[dexState]]),
         dexState' = dexState,
         \A b \in Awaits : asyncFut'[b] \in {asyncFut[b], "pending"}
  PROVE  /\ ready' \in Seq(Entry(dexState'))
         /\ ready' \in Seq([await : Awaits, set : {"result", "exception"}])
         /\ \A b \in Awaits : Seen(b, {Setter[dexState]})'
  <1>1. ready \in Seq(Entry(dexState))
    BY DEF IInv
  <1>2. ready' \in Seq(Entry(dexState))
    BY <1>1, EntryType, AppendProperties
  <1>3. ready' \in Seq([await : Awaits, set : {"result", "exception"}])
    BY <1>2, EntryType, SeqMonotonic
  <1>4. \A b \in Awaits : Seen(b, {Setter[dexState]})'
    BY DEF IInv, Seen
  <1>5. QED
    BY <1>2, <1>3, <1>4

(* Every step of the loop thread or the Dex thread keeps IInv.             *)
LEMMA BridgeStep == IInv /\ [Next]_vars => IInv'
<1> SUFFICES ASSUME IInv, [Next]_vars PROVE IInv'
  OBVIOUS
<1>0. /\ TypeOK
      /\ dexState = "pending" => ready = <<>> /\ \A a \in Awaits : Seen(a, {})
      /\ dexState \in Settled =>
           /\ ready \in Seq(Entry(dexState))
           /\ \A a \in Awaits : Seen(a, {Setter[dexState]})
  BY DEF IInv
<1>1. CASE UNCHANGED vars
  BY <1>0, <1>1 DEF vars, IInv, TypeOK, Seen
<1>2. CASE DexComplete
  <2>1. ready = <<>> /\ ready' = <<>> /\ dexState' \in Settled
    BY <1>0, <1>2 DEF DexComplete, TypeOK, Settled
  <2>2. ready' \in Seq(Entry(dexState'))
    BY <2>1, EmptySeq
  <2>3. QED
    BY <1>0, <1>2, <2>1, <2>2 DEF DexComplete, IInv, TypeOK, Seen, Settled
<1>3. ASSUME NEW a \in Awaits, AwaitStart(a) PROVE IInv'
  <2>1. CASE dexState = "pending"
    BY <1>0, <1>3, <2>1 DEF AwaitStart, IInv, TypeOK, Seen, Settled
  <2>2. CASE dexState \in Settled
    <3>0. /\ ready' = Append(ready, [await |-> a, set |-> Setter[dexState]])
          /\ dexState' = dexState
          /\ \A b \in Awaits : asyncFut'[b] \in {asyncFut[b], "pending"}
      BY <1>0, <1>3, <2>2 DEF AwaitStart, TypeOK, Settled
    <3>1. /\ ready' \in Seq(Entry(dexState'))
          /\ ready' \in Seq([await : Awaits, set : {"result", "exception"}])
          /\ \A b \in Awaits : Seen(b, {Setter[dexState]})'
      BY <2>2, <3>0, HandOver
    <3>2. QED
      BY <1>0, <1>3, <2>2, <3>1 DEF AwaitStart, IInv, TypeOK, Settled
  <2>3. QED
    BY <1>0, <2>1, <2>2 DEF TypeOK, Settled
<1>4. ASSUME NEW a \in Awaits, AwaitAssign(a) PROVE IInv'
  BY <1>0, <1>4 DEF AwaitAssign, IInv, TypeOK, Seen
<1>5. ASSUME NEW a \in Awaits, OnDoneSchedule(a) PROVE IInv'
  <2>1. dexState \in Settled
    BY <1>0, <1>5 DEF OnDoneSchedule, TypeOK, Settled
  <2>4. /\ ready' = Append(ready, [await |-> a, set |-> Setter[dexState]])
        /\ dexState' = dexState
        /\ \A b \in Awaits : asyncFut'[b] \in {asyncFut[b], "pending"}
    BY <1>5 DEF OnDoneSchedule
  <2>2. /\ ready' \in Seq(Entry(dexState'))
        /\ ready' \in Seq([await : Awaits, set : {"result", "exception"}])
        /\ \A b \in Awaits : Seen(b, {Setter[dexState]})'
    BY <2>1, <2>4, HandOver
  <2>3. QED
    BY <1>0, <1>5, <2>1, <2>2 DEF OnDoneSchedule, IInv, TypeOK, Settled
<1>6. ASSUME NEW a \in Awaits, OnDoneClear(a) PROVE IInv'
  BY <1>0, <1>6 DEF OnDoneClear, IInv, TypeOK, Seen
<1>7. CASE RunReady
  <2>1. dexState \in Settled /\ ready \in Seq(Entry(dexState))
    BY <1>0, <1>7 DEF RunReady, TypeOK, Settled
  <2>2. /\ Head(ready) \in Entry(dexState)
        /\ Tail(ready) \in Seq(Entry(dexState))
    BY <1>7, <2>1, HeadTailProperties DEF RunReady
  <2>9. Entry(dexState) \subseteq [await : Awaits, set : {"result", "exception"}]
    BY <2>1 DEF Entry, Setter, Settled
  <2>3. Tail(ready) \in Seq([await : Awaits, set : {"result", "exception"}])
    BY <2>2, <2>9, SeqMonotonic
  <2>6. /\ Head(ready).await \in Awaits
        /\ Head(ready).set = Setter[dexState]
        /\ Head(ready).set \in {"result", "exception"}
    BY <2>1, <2>2, EntryType DEF Entry
  <2>7. /\ asyncFut' = IF asyncFut[Head(ready).await] = "pending"
                       THEN [asyncFut EXCEPT ![Head(ready).await] = Head(ready).set]
                       ELSE asyncFut
        /\ raised' \in {raised, raised + 1}
        /\ ready' = Tail(ready)
        /\ UNCHANGED <<dexState, awaitPc, dexRef, onDonePc>>
    BY <1>7 DEF RunReady
  <2>4. \A b \in Awaits : Seen(b, {Setter[dexState]})'
    BY <1>0, <2>1, <2>6, <2>7 DEF Seen, TypeOK
  <2>8. TypeOK'
    BY <1>0, <2>3, <2>6, <2>7 DEF TypeOK
  <2>5. QED
    BY <2>1, <2>2, <2>4, <2>7, <2>8 DEF IInv, Settled
<1>8. ASSUME NEW a \in Awaits, TaskCancel(a) PROVE IInv'
  BY <1>0, <1>8 DEF TaskCancel, IInv, TypeOK, Seen
<1>9. ASSUME NEW a \in Awaits, AwaitReturn(a) PROVE IInv'
  BY <1>0, <1>9 DEF AwaitReturn, IInv, TypeOK, Seen
<1>10. QED
  BY <1>1, <1>2, <1>3, <1>4, <1>5, <1>6, <1>7, <1>8, <1>9 DEF Next

(* The await reports what the Dex future did, for any number of awaits    *)
(* and whether on_done runs on the loop's thread or another: no asyncio   *)
(* future gets a result for a rejected Dex future or an exception for a   *)
(* resolved one, and no setter queued by on_done's call_soon_threadsafe   *)
(* contradicts the Dex future.                                            *)
THEOREM MirrorsDexHolds == Spec => []MirrorsDex
<1>1. Init => IInv
  BY EmptySeq DEF Init, IInv, TypeOK, Seen, Settled
<1>2. IInv => MirrorsDex
  <2> SUFFICES ASSUME IInv PROVE MirrorsDex
    OBVIOUS
  <2>1. \A a \in Awaits :
          /\ asyncFut[a] = "result" => dexState = "resolved"
          /\ asyncFut[a] = "exception" => dexState = "rejected"
    BY DEF IInv, TypeOK, Seen, Settled, Setter
  <2>2. \A i \in DOMAIN ready : ready[i].set = Setter[dexState]
    <3>1. CASE dexState = "pending"
      BY <3>1 DEF IInv
    <3>2. CASE dexState \in Settled
      <4>1. ready \in Seq(Entry(dexState))
        BY <3>2 DEF IInv
      <4>2. \A i \in DOMAIN ready : ready[i] \in Entry(dexState)
        BY <4>1, LenProperties
      <4>3. QED
        BY <4>2 DEF Entry
    <3>3. QED
      BY <3>1, <3>2 DEF IInv, TypeOK, Settled
  <2>3. QED
    BY <2>1, <2>2 DEF MirrorsDex
<1>3. QED
  BY <1>1, <1>2, BridgeStep, PTL DEF Spec
=============================================================================
