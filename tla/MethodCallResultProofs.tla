----------------------- MODULE MethodCallResultProofs -----------------------
(***************************************************************************)
(* Proofs about the result records of MethodCallResult.  OwnershipExact   *)
(* counts holders, so its proof is a cardinality argument: a copy adds one *)
(* new record to the holders of each allocation it points at, a free takes *)
(* one away, and the callback's build starts from no records at all.  For  *)
(* that the invariant is strengthened with two facts about where records   *)
(* come from: the live ids are among those the copies handed out, and a   *)
(* call has no records before its callback has run.                        *)
(***************************************************************************)
EXTENDS MethodCallResult, MethodCallProofs, FiniteSetTheorems, TLAPS

(* The live records of call c whose field f points at allocation k.        *)
Holders(c, f, k) == {i \in live[c] : ptr[c][i][f] = k}

(* Where the records of each method call come from.                       *)
Shape ==
  \A c \in MethodCalls :
    /\ live[c] \subseteq 0 .. copies[c]
    /\ callPc[c] # "done" => live[c] = {}

ResultInv == IInv /\ ResultTypeOK /\ Shape /\ OwnershipExact

-----------------------------------------------------------------------------
(* The holders of an allocation are a finite set of record ids.            *)
LEMMA HoldersFinite ==
  ASSUME ResultTypeOK, NEW c \in Calls, NEW f \in Fields, NEW k \in Ids
  PROVE  IsFiniteSet(Holders(c, f, k))
<1>1. IsFiniteSet(Ids)
  BY ResultAssumption, FS_Interval DEF Ids
<1>2. Holders(c, f, k) \subseteq Ids
  BY DEF Holders, ResultTypeOK
<1>3. QED
  BY <1>1, <1>2, FS_Subset

(* Every step with results is a step, or a stutter, of MethodCall.         *)
LEMMA CallsStep == [NextWithResults]_allVars => [Next]_vars
<1> SUFFICES ASSUME [NextWithResults]_allVars PROVE [Next]_vars
  OBVIOUS
<1>1. CASE UNCHANGED allVars
  BY <1>1 DEF allVars
<1>2. CASE \E c \in Calls :
             \/ ProxyNewFuture(c) \/ CallFuture(c) \/ ProxyNewFutureCb(c)
             \/ Release(c) \/ Cancel(c)
  BY <1>2 DEF Next
<1>3. ASSUME NEW c \in MethodCalls, CallFutureResultCb(c) PROVE Next
  <2>1. CallFutureCb(c)
    BY <1>3 DEF CallFutureResultCb, CallFutureCb
  <2>2. QED
    BY <2>1 DEF Next, Calls
<1>4. ASSUME NEW c \in MethodCalls, NEW i \in Ids,
             CopyRecord(c, i) \/ FreeRecord(c, i)
      PROVE  UNCHANGED vars
  BY <1>4 DEF CopyRecord, FreeRecord
<1>5. QED
  BY <1>1, <1>2, <1>3, <1>4 DEF NextWithResults

-----------------------------------------------------------------------------
(* A copy makes record n = copies[c] + 1, which was not live, and adds it  *)
(* to the holders of what each of its fields points at.                    *)
LEMMA CopyStep ==
  ASSUME ResultInv, NEW c \in MethodCalls, NEW i \in Ids, CopyRecord(c, i)
  PROVE  ResultTypeOK' /\ Shape' /\ OwnershipExact'
<1> DEFINE n == copies[c] + 1
           At(f) == IF Kind[f] = "dup" THEN n ELSE ptr[c][i][f]
<1>1. /\ ResultTypeOK /\ Shape /\ OwnershipExact /\ TypeOK
      /\ c \in Calls
  BY DEF ResultInv, IInv, Calls
<1>2. /\ i \in live[c] /\ copies[c] < MaxCopies
      /\ copies' = [copies EXCEPT ![c] = n]
      /\ live' = [live EXCEPT ![c] = @ \cup {n}]
      /\ ptr' = [ptr EXCEPT ![c][n] = [f \in Fields |-> At(f)]]
      /\ owners' = [owners EXCEPT ![c] =
                      [f \in Fields |-> IF Owned(f)
                                        THEN [owners[c][f] EXCEPT ![At(f)] = @ + 1]
                                        ELSE owners[c][f]]]
      /\ UNCHANGED vars
  BY DEF CopyRecord
<1>3. n \in Ids /\ n \notin live[c] /\ n # 0
  BY <1>1, <1>2, ResultAssumption DEF Shape, ResultTypeOK, Ids
<1>4. \A f \in Fields : At(f) \in Ids
  BY <1>1, <1>3 DEF ResultTypeOK
<1>5. ResultTypeOK'
  <2>1. copies' \in [Calls -> 0 .. MaxCopies]
    BY <1>1, <1>2, <1>3 DEF ResultTypeOK, Ids
  <2>2. live' \in [Calls -> SUBSET Ids]
    BY <1>1, <1>2, <1>3 DEF ResultTypeOK
  <2>3. ptr' \in [Calls -> [Ids -> [Fields -> Ids]]]
    BY <1>1, <1>2, <1>3, <1>4 DEF ResultTypeOK
  <2>4. owners' \in [Calls -> [Fields -> [Ids -> Nat]]]
    BY <1>1, <1>2, <1>4 DEF ResultTypeOK
  <2>5. QED
    BY <2>1, <2>2, <2>3, <2>4 DEF ResultTypeOK
<1>6. Shape'
  <2> SUFFICES ASSUME NEW d \in MethodCalls
               PROVE  /\ live'[d] \subseteq 0 .. copies'[d]
                      /\ callPc'[d] # "done" => live'[d] = {}
    BY DEF Shape
  <2>1. callPc' = callPc
    BY <1>2 DEF vars
  <2>2. CASE d # c
    BY <1>1, <1>2, <2>1, <2>2 DEF Shape, ResultTypeOK, Calls
  <2>3. CASE d = c
    <3>1. live[c] \subseteq 0 .. copies[c] /\ copies[c] \in Nat
      BY <1>1 DEF Shape, ResultTypeOK
    <3>2. live'[c] \subseteq 0 .. copies'[c]
      BY <1>1, <1>2, <3>1 DEF ResultTypeOK
    <3>3. callPc[c] = "done"
      BY <1>1, <1>2 DEF Shape
    <3>4. QED
      BY <2>1, <2>3, <3>2, <3>3
  <2>4. QED
    BY <2>2, <2>3
<1>7. OwnershipExact'
  <2> SUFFICES ASSUME NEW d \in MethodCalls, NEW f \in Fields, NEW k \in Ids,
                      Owned(f)
               PROVE  owners'[d][f][k] = Cardinality(Holders(d, f, k)')
    BY DEF OwnershipExact, Holders
  <2>1. owners[d][f][k] = Cardinality(Holders(d, f, k))
    BY <1>1 DEF OwnershipExact, Holders
  <2>2. CASE d # c
    BY <1>1, <1>2, <2>1, <2>2 DEF ResultTypeOK, Holders, Calls
  <2>3. CASE d = c
    <3>1. Holders(c, f, k)' =
            IF At(f) = k THEN Holders(c, f, k) \cup {n} ELSE Holders(c, f, k)
      BY <1>1, <1>2, <1>3, <2>3 DEF ResultTypeOK, Holders
    <3>2. owners'[c][f][k] =
            IF At(f) = k THEN owners[c][f][k] + 1 ELSE owners[c][f][k]
      BY <1>1, <1>2, <1>4 DEF ResultTypeOK
    <3>3. IsFiniteSet(Holders(c, f, k)) /\ n \notin Holders(c, f, k)
      BY <1>1, <1>3, HoldersFinite DEF Holders
    <3>4. QED
      BY <2>1, <2>3, <3>1, <3>2, <3>3, FS_AddElement
  <2>4. QED
    BY <2>2, <2>3
<1>8. QED
  BY <1>5, <1>6, <1>7

(* A free of a consumer's copy i takes i out of the holders of what each   *)
(* of its fields points at.                                               *)
LEMMA FreeStep ==
  ASSUME ResultInv, NEW c \in MethodCalls, NEW i \in Ids, FreeRecord(c, i)
  PROVE  ResultTypeOK' /\ Shape' /\ OwnershipExact'
<1>1. /\ ResultTypeOK /\ Shape /\ OwnershipExact /\ TypeOK
      /\ c \in Calls
  BY DEF ResultInv, IInv, Calls
<1>2. /\ i \in live[c] /\ i # 0
      /\ live' = [live EXCEPT ![c] = @ \ {i}]
      /\ owners' = [owners EXCEPT ![c] =
                      [f \in Fields |-> IF Owned(f)
                                        THEN [owners[c][f] EXCEPT ![ptr[c][i][f]] = @ - 1]
                                        ELSE owners[c][f]]]
      /\ UNCHANGED <<vars, copies, ptr>>
  BY DEF FreeRecord
<1>3. ResultTypeOK /\ \A f \in Fields : Owned(f) => owners[c][f][ptr[c][i][f]] >= 1
  <2> SUFFICES ASSUME NEW f \in Fields, Owned(f)
               PROVE  owners[c][f][ptr[c][i][f]] >= 1
    BY <1>1
  <2> DEFINE k == ptr[c][i][f]
  <2>1. k \in Ids /\ i \in Holders(c, f, k)
    BY <1>1, <1>2 DEF ResultTypeOK, Holders
  <2>2. IsFiniteSet(Holders(c, f, k))
    BY <1>1, <2>1, HoldersFinite
  <2>3. Cardinality(Holders(c, f, k)) >= 1
    BY <2>1, <2>2, FS_EmptySet, FS_CardinalityType
  <2>4. QED
    BY <1>1, <2>1, <2>3 DEF OwnershipExact, Holders
<1>4. ResultTypeOK'
  BY <1>1, <1>2, <1>3 DEF ResultTypeOK
<1>5. Shape'
  <2> SUFFICES ASSUME NEW d \in MethodCalls
               PROVE  /\ live'[d] \subseteq 0 .. copies'[d]
                      /\ callPc'[d] # "done" => live'[d] = {}
    BY DEF Shape
  <2>1. callPc' = callPc /\ copies' = copies
    BY <1>2 DEF vars
  <2>2. live'[d] \subseteq live[d]
    BY <1>1, <1>2 DEF ResultTypeOK
  <2>3. QED
    BY <1>1, <2>1, <2>2 DEF Shape
<1>6. OwnershipExact'
  <2> SUFFICES ASSUME NEW d \in MethodCalls, NEW f \in Fields, NEW k \in Ids,
                      Owned(f)
               PROVE  owners'[d][f][k] = Cardinality(Holders(d, f, k)')
    BY DEF OwnershipExact, Holders
  <2>1. owners[d][f][k] = Cardinality(Holders(d, f, k))
    BY <1>1 DEF OwnershipExact, Holders
  <2>2. CASE d # c
    BY <1>1, <1>2, <2>1, <2>2 DEF ResultTypeOK, Holders, Calls
  <2>3. CASE d = c
    <3>1. Holders(c, f, k)' = Holders(c, f, k) \ {i}
      BY <1>1, <1>2, <2>3 DEF ResultTypeOK, Holders
    <3>2. owners'[c][f][k] =
            IF ptr[c][i][f] = k THEN owners[c][f][k] - 1 ELSE owners[c][f][k]
      BY <1>1, <1>2 DEF ResultTypeOK
    <3>3. IsFiniteSet(Holders(c, f, k))
      BY <1>1, HoldersFinite
    <3>4. i \in Holders(c, f, k) <=> ptr[c][i][f] = k
      BY <1>2 DEF Holders
    <3>5. Cardinality(Holders(c, f, k) \ {i}) =
            IF i \in Holders(c, f, k) THEN Cardinality(Holders(c, f, k)) - 1
                                      ELSE Cardinality(Holders(c, f, k))
      BY <3>3, FS_RemoveElement
    <3>6. QED
      BY <2>1, <2>3, <3>1, <3>2, <3>4, <3>5
  <2>4. QED
    BY <2>2, <2>3
<1>7. QED
  BY <1>4, <1>5, <1>6

(* The callback of a method call: on success it builds record 0, whose    *)
(* fields are the only holders of the allocations _finish handed over;    *)
(* before it the call had no records, so every count was zero.            *)
LEMMA BuildStep ==
  ASSUME ResultInv, NEW c \in MethodCalls, NEW o \in Outcomes,
         Complete(c, o), BuildResult(c, o)
  PROVE  ResultTypeOK' /\ Shape' /\ OwnershipExact'
<1>1. /\ ResultTypeOK /\ Shape /\ OwnershipExact /\ TypeOK
      /\ c \in Calls
  BY DEF ResultInv, IInv, Calls
<1>2. /\ callPc[c] = "inflight"
      /\ callPc' = [callPc EXCEPT ![c] = "done"]
  BY DEF Complete
<1>3. live[c] = {}
  BY <1>1, <1>2 DEF Shape
<1>4. ASSUME NEW d \in MethodCalls PROVE callPc'[d] # "done" => d # c
  BY <1>1, <1>2 DEF TypeOK
<1>8. \A d \in MethodCalls \ {c} : callPc'[d] = callPc[d]
  BY <1>1, <1>2 DEF TypeOK, Calls
<1>9. copies[c] \in Nat
  BY <1>1 DEF ResultTypeOK
<1>5. CASE Finished(c, o) # "ok"
  <2>1. UNCHANGED resultVars
    BY <1>5 DEF BuildResult
  <2>2. Shape'
    <3> SUFFICES ASSUME NEW d \in MethodCalls
                 PROVE  /\ live'[d] \subseteq 0 .. copies'[d]
                        /\ callPc'[d] # "done" => live'[d] = {}
      BY DEF Shape
    <3>1. CASE d = c
      BY <1>3, <2>1, <3>1 DEF resultVars
    <3>2. CASE d # c
      BY <1>1, <1>8, <2>1, <3>2 DEF Shape, resultVars
    <3>3. QED
      BY <3>1, <3>2
  <2>3. QED
    BY <1>1, <2>1, <2>2 DEF ResultTypeOK, OwnershipExact, resultVars
<1>6. CASE Finished(c, o) = "ok"
  <2>1. /\ live' = [live EXCEPT ![c] = {0}]
        /\ ptr' = [ptr EXCEPT ![c][0] = [f \in Fields |-> 0]]
        /\ owners' = [owners EXCEPT ![c] =
                        [f \in Fields |-> [owners[c][f] EXCEPT
                                             ![0] = IF Owned(f) THEN 1 ELSE 0]]]
        /\ UNCHANGED copies
    BY <1>6 DEF BuildResult
  <2>2. 0 \in Ids
    BY ResultAssumption DEF Ids
  <2>3. ResultTypeOK'
    BY <1>1, <2>1, <2>2 DEF ResultTypeOK
  <2>4. Shape'
    <3> SUFFICES ASSUME NEW d \in MethodCalls
                 PROVE  /\ live'[d] \subseteq 0 .. copies'[d]
                        /\ callPc'[d] # "done" => live'[d] = {}
      BY DEF Shape
    <3>1. CASE d = c
      <4>1. live'[c] = {0} /\ copies'[c] = copies[c] /\ callPc'[c] = "done"
        BY <1>1, <1>2, <2>1 DEF ResultTypeOK, TypeOK, Calls
      <4>2. QED
        BY <1>9, <3>1, <4>1
    <3>2. CASE d # c
      BY <1>1, <1>8, <2>1, <3>2 DEF Shape, ResultTypeOK, Calls
    <3>3. QED
      BY <3>1, <3>2
  <2>5. OwnershipExact'
    <3> SUFFICES ASSUME NEW d \in MethodCalls, NEW f \in Fields, NEW k \in Ids,
                        Owned(f)
                 PROVE  owners'[d][f][k] = Cardinality(Holders(d, f, k)')
      BY DEF OwnershipExact, Holders
    <3>1. CASE d # c
      <4>1. owners[d][f][k] = Cardinality(Holders(d, f, k))
        BY <1>1 DEF OwnershipExact, Holders
      <4>2. QED
        BY <1>1, <2>1, <3>1, <4>1 DEF ResultTypeOK, Holders, Calls
    <3>2. CASE d = c
      <4>1. Holders(c, f, k) = {}
        BY <1>3 DEF Holders
      <4>2. owners[c][f][k] = 0
        BY <1>1, <4>1, FS_EmptySet DEF OwnershipExact, Holders
      <4>3. Holders(c, f, k)' = IF k = 0 THEN {0} ELSE {}
        BY <1>1, <2>1, <2>2 DEF ResultTypeOK, Holders
      <4>4. owners'[c][f][k] = IF k = 0 THEN 1 ELSE 0
        BY <1>1, <2>1, <4>2 DEF ResultTypeOK
      <4>5. QED
        BY <3>2, <4>3, <4>4, FS_EmptySet, FS_Singleton
    <3>3. QED
      BY <3>1, <3>2
  <2>6. QED
    BY <2>3, <2>4, <2>5
<1>7. QED
  BY <1>5, <1>6

(* The steps of MethodCall that leave the records alone never take a done *)
(* method call back, so a call without records still has none.            *)
LEMMA CallsOnlyStep ==
  ASSUME ResultInv, UNCHANGED resultVars,
         NEW c \in Calls,
         \/ ProxyNewFuture(c) \/ CallFuture(c) \/ ProxyNewFutureCb(c)
         \/ Release(c) \/ Cancel(c)
  PROVE  ResultTypeOK' /\ Shape' /\ OwnershipExact'
<1>1. ResultTypeOK /\ Shape /\ OwnershipExact /\ TypeOK
  BY DEF ResultInv, IInv
<1>2. ASSUME NEW d \in MethodCalls PROVE callPc[d] = "done" => callPc'[d] = "done"
  <2>1. CASE ProxyNewFuture(c) \/ CallFuture(c)
    BY <1>1, <2>1 DEF ProxyNewFuture, CallFuture, StartCall, TypeOK, Calls
  <2>2. CASE ProxyNewFutureCb(c)
    <3>1. c \in ProxyCalls /\ c # d
      BY <2>2, CallsAssumption DEF ProxyNewFutureCb
    <3>2. QED
      BY <1>1, <2>2, <3>1 DEF ProxyNewFutureCb, Complete, TypeOK
  <2>3. CASE Release(c) \/ Cancel(c)
    BY <2>3 DEF Release, Cancel
  <2>4. QED
    BY <2>1, <2>2, <2>3
<1>3. ResultTypeOK' /\ OwnershipExact'
  BY <1>1 DEF ResultTypeOK, OwnershipExact, resultVars
<1>4. Shape'
  <2> SUFFICES ASSUME NEW d \in MethodCalls
               PROVE  /\ live'[d] \subseteq 0 .. copies'[d]
                      /\ callPc'[d] # "done" => live'[d] = {}
    BY DEF Shape
  <2>1. live'[d] = live[d] /\ copies'[d] = copies[d]
    BY DEF resultVars
  <2>2. callPc'[d] # "done" => callPc[d] # "done"
    BY <1>2
  <2>3. QED
    BY <1>1, <2>1, <2>2 DEF Shape
<1>5. QED
  BY <1>3, <1>4

(* Every step keeps ResultInv.                                            *)
LEMMA ResultStep == ResultInv /\ [NextWithResults]_allVars => ResultInv'
<1> SUFFICES ASSUME ResultInv, [NextWithResults]_allVars PROVE ResultInv'
  OBVIOUS
<1>1. IInv'
  BY CallsStep, AccountStep DEF ResultInv
<1>2. ResultTypeOK' /\ Shape' /\ OwnershipExact'
  <2>1. CASE UNCHANGED allVars
    BY <2>1 DEF ResultInv, allVars, vars, resultVars, ResultTypeOK, Shape,
                OwnershipExact
  <2>2. CASE /\ \E c \in Calls :
                  \/ ProxyNewFuture(c) \/ CallFuture(c) \/ ProxyNewFutureCb(c)
                  \/ Release(c) \/ Cancel(c)
             /\ UNCHANGED resultVars
    BY <2>2, CallsOnlyStep
  <2>3. ASSUME NEW c \in MethodCalls, CallFutureResultCb(c)
        PROVE  ResultTypeOK' /\ Shape' /\ OwnershipExact'
    BY <2>3, BuildStep DEF CallFutureResultCb
  <2>4. ASSUME NEW c \in MethodCalls, NEW i \in Ids, CopyRecord(c, i)
        PROVE  ResultTypeOK' /\ Shape' /\ OwnershipExact'
    BY <2>4, CopyStep
  <2>5. ASSUME NEW c \in MethodCalls, NEW i \in Ids, FreeRecord(c, i)
        PROVE  ResultTypeOK' /\ Shape' /\ OwnershipExact'
    BY <2>5, FreeStep
  <2>6. QED
    BY <2>1, <2>2, <2>3, <2>4, <2>5 DEF NextWithResults
<1>3. QED
  BY <1>1, <1>2 DEF ResultInv

(* The callback's initial state satisfies the strengthened invariant.     *)
LEMMA InitResultInv == InitWithResults => ResultInv
<1> SUFFICES ASSUME InitWithResults PROVE ResultInv
  OBVIOUS
<1>1. IInv
  BY DEF InitWithResults, Init, IInv, TypeOK, RefsAccount, PromiseAccount,
         PromiseStates
<1>2. 0 \in Ids
  BY ResultAssumption DEF Ids
<1>3. ResultTypeOK /\ Shape
  BY <1>2, ResultAssumption DEF InitWithResults, ResultTypeOK, Shape, Calls
<1>4. OwnershipExact
  BY FS_EmptySet DEF InitWithResults, OwnershipExact, Calls
<1>5. QED
  BY <1>1, <1>3, <1>4 DEF ResultInv

(* Copy-then-free is exact for any method, any number of copies and any   *)
(* order of copies and frees: each allocation behind a field with a       *)
(* free_func has exactly as many owners as live records point at it, so   *)
(* the generated _copy and _free never free what a live record still uses *)
(* and never leave an allocation with no record to free it.               *)
THEOREM OwnershipExactHolds == SpecWithResults => []OwnershipExact
<1>1. InitWithResults => ResultInv
  BY InitResultInv
<1>2. ResultInv => OwnershipExact
  BY DEF ResultInv
<1>3. QED
  BY <1>1, <1>2, ResultStep, PTL DEF SpecWithResults

(* The strengthened invariant holds throughout.                            *)
LEMMA OwnershipResultInv == SpecWithResults => []ResultInv
<1>1. InitWithResults => ResultInv
  BY InitResultInv
<1>2. QED
  BY <1>1, ResultStep, PTL DEF SpecWithResults

-----------------------------------------------------------------------------
(* The result records leave the calls' own accounting alone: the         *)
(* invariant of MethodCallProofs holds of the composition.                *)
LEMMA InitWithResultsIInv == InitWithResults => IInv
  BY DEF InitWithResults, Init, IInv, TypeOK, RefsAccount, PromiseAccount, PromiseStates

LEMMA IInvStepWithResults == IInv /\ [NextWithResults]_allVars => IInv'
  BY CallsStep, AccountStep

(* Building, copying and freeing result records does not disturb the     *)
(* promise's reference count: for any method and any copies and frees,   *)
(* the count equals the references of the pending call and the caller,   *)
(* so the promise is alive when <iface>_call_<method>_future_cb runs.     *)
THEOREM PromiseAliveWithResults == SpecWithResults => []PromiseAliveForCallback
<1>1. IInv => PromiseAliveForCallback
  BY DEF IInv, TypeOK, RefsAccount, PromiseAccount, PromiseAliveForCallback
<1>2. QED
  BY <1>1, InitWithResultsIInv, IInvStepWithResults, PTL DEF SpecWithResults

(* No live record uses freed memory: for any method and any order of      *)
(* copies and frees, whatever a live record's field with a free_func       *)
(* points at still has an owner, so the generated _free of one copy never  *)
(* releases what the promise's record or another copy still uses.         *)
THEOREM NoUseAfterFree ==
  SpecWithResults =>
    [](\A c \in MethodCalls, i \in Ids, f \in Fields :
         (i \in live[c] /\ Owned(f)) => owners[c][f][ptr[c][i][f]] >= 1)
<1>1. ResultInv => \A c \in MethodCalls, i \in Ids, f \in Fields :
                     (i \in live[c] /\ Owned(f)) => owners[c][f][ptr[c][i][f]] >= 1
  <2> SUFFICES ASSUME ResultInv, NEW c \in MethodCalls, NEW i \in Ids, NEW f \in Fields,
                      i \in live[c], Owned(f)
               PROVE  owners[c][f][ptr[c][i][f]] >= 1
    OBVIOUS
  <2> DEFINE k == ptr[c][i][f]
  <2>1. c \in Calls /\ ResultTypeOK /\ OwnershipExact
    BY DEF ResultInv, Calls
  <2>2. k \in Ids /\ i \in Holders(c, f, k)
    BY <2>1 DEF ResultTypeOK, Holders
  <2>3. IsFiniteSet(Holders(c, f, k))
    BY <2>1, <2>2, HoldersFinite
  <2>4. Cardinality(Holders(c, f, k)) >= 1
    BY <2>2, <2>3, FS_EmptySet, FS_CardinalityType
  <2>5. QED
    BY <2>1, <2>2, <2>4 DEF OwnershipExact, Holders
<1>2. QED
  BY <1>1, OwnershipResultInv, PTL
=============================================================================
