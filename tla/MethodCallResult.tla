-------------------------- MODULE MethodCallResult --------------------------
(***************************************************************************)
(* The boxed result records of methods with out-arguments, composed with   *)
(* MethodCall.  On success <iface>_call_<method>_future_cb allocates a     *)
(* <Iface><Method>Result, moves the out-values that _finish returned into  *)
(* it and resolves the promise with it (dex_promise_resolve_boxed), so the *)
(* promise's value slot owns that record.  Consumers get copies through    *)
(* the boxed type: g_boxed_copy runs the generated _copy and g_boxed_free  *)
(* the generated _free.                                                    *)
(*                                                                         *)
(* A record is known by an id: 0 is the one the callback built, 1, 2, ...  *)
(* the copies in the order they were made.  Each field of a record points  *)
(* at an allocation, known by the id of the record whose build or copy     *)
(* made it, and each allocation has a count of owners.  How a field is     *)
(* copied and freed is given by its kind, the copy_func/free_func pair     *)
(* gdbus-codegen gives its D-Bus type (modelled from that tool, which is   *)
(* not in this repository):                                                *)
(*   "plain": no pair, the value is copied as it is (integers, booleans);  *)
(*   "dup":   g_strdup/g_free or g_strdupv/g_strfreev, a fresh allocation; *)
(*   "ref":   g_variant_ref/g_variant_unref, and the fd_list's             *)
(*            g_object_ref/g_clear_object, one more owner of the same one. *)
(* _finish fills every out-argument, so a field of a record built by the   *)
(* callback is never NULL and the NULL branches of _copy are not taken.    *)
(***************************************************************************)
EXTENDS MethodCall, FiniteSets

CONSTANTS
  Fields,     \* the out-arguments of the method, and fd_list if it has one
  Kind,       \* how each field is copied and freed
  MaxCopies   \* how many copies of a result consumers make, at most

ASSUME ResultAssumption ==
  /\ Kind \in [Fields -> {"plain", "dup", "ref"}]
  /\ MaxCopies \in Nat

Ids == 0 .. MaxCopies

VARIABLES
  live,     \* the records of each call allocated and not yet freed
  copies,   \* how many copies of each call's result were made
  ptr,      \* ptr[c][i][f]: the allocation field f of record i points at
  owners    \* owners[c][f][k]: the owners of allocation k of field f

resultVars == <<live, copies, ptr, owners>>

allVars == <<vars, resultVars>>

(* The fields that own what they point at: those with a free_func.        *)
Owned(f) == Kind[f] # "plain"

-----------------------------------------------------------------------------
InitWithResults ==
  /\ Init
  /\ live = [c \in Calls |-> {}]
  /\ copies = [c \in Calls |-> 0]
  /\ ptr = [c \in Calls |-> [i \in Ids |-> [f \in Fields |-> 0]]]
  /\ owners = [c \in Calls |-> [f \in Fields |-> [k \in Ids |-> 0]]]

(* The success branch of the callback: r = g_new0, r->x = arg_x for each   *)
(* out-argument (and r->fd_list = fd_list), each taking over the one       *)
(* reference _finish returned, then dex_promise_resolve_boxed (promise,    *)
(* ..., r), which hands r to the promise.  A failure allocates nothing.    *)
BuildResult(c, outcome) ==
  IF Finished(c, outcome) = "ok"
  THEN /\ live' = [live EXCEPT ![c] = {0}]
       /\ ptr' = [ptr EXCEPT ![c][0] = [f \in Fields |-> 0]]
       /\ owners' = [owners EXCEPT ![c] =
                       [f \in Fields |-> [owners[c][f] EXCEPT
                                            ![0] = IF Owned(f) THEN 1 ELSE 0]]]
       /\ UNCHANGED copies
  ELSE UNCHANGED resultVars

(* <iface>_call_<method>_future_cb of a method with out-arguments.        *)
CallFutureResultCb(c) ==
  /\ c \in MethodCalls
  /\ \E o \in Outcomes : Complete(c, o) /\ BuildResult(c, o)

(* Mutant: _copy assigns every field as it is, as if no field had a        *)
(* copy_func.                                                             *)
CopyRecordShallow(c, i) ==
  /\ i \in live[c]
  /\ copies[c] < MaxCopies
  /\ LET n == copies[c] + 1 IN
       /\ copies' = [copies EXCEPT ![c] = n]
       /\ live' = [live EXCEPT ![c] = @ \cup {n}]
       /\ ptr' = [ptr EXCEPT ![c][n] = ptr[c][i]]
  /\ UNCHANGED <<vars, owners>>

(* <Iface><Method>Result_copy, run by g_boxed_copy on a live record i:    *)
(* n = g_new0, then n->x = copy_func (r->x) for a field with a copy_func   *)
(* (g_strdup makes a fresh allocation, g_variant_ref and g_object_ref add  *)
(* an owner to the same one) and n->x = r->x for the others.              *)
CopyRecord(c, i) ==
  /\ i \in live[c]
  /\ copies[c] < MaxCopies
  /\ LET n == copies[c] + 1
         At(f) == IF Kind[f] = "dup" THEN n ELSE ptr[c][i][f]
     IN
       /\ copies' = [copies EXCEPT ![c] = n]
       /\ live' = [live EXCEPT ![c] = @ \cup {n}]
       /\ ptr' = [ptr EXCEPT ![c][n] = [f \in Fields |-> At(f)]]
       /\ owners' = [owners EXCEPT ![c] =
                       [f \in Fields |-> IF Owned(f)
                                         THEN [owners[c][f] EXCEPT ![At(f)] = @ + 1]
                                         ELSE owners[c][f]]]
  /\ UNCHANGED vars

(* <Iface><Method>Result_free, run by g_boxed_free on a consumer's copy:  *)
(* free_func (r->x) for each field with one (g_clear_object for fd_list),  *)
(* then free (r).  The record the callback built stays in the promise     *)
(* until the promise is finalized, which the leaked user_data reference   *)
(* never lets happen.                                                     *)
FreeRecord(c, i) ==
  /\ i \in live[c] \ {0}
  /\ live' = [live EXCEPT ![c] = @ \ {i}]
  /\ owners' = [owners EXCEPT ![c] =
                  [f \in Fields |-> IF Owned(f)
                                    THEN [owners[c][f] EXCEPT ![ptr[c][i][f]] = @ - 1]
                                    ELSE owners[c][f]]]
  /\ UNCHANGED <<vars, copies, ptr>>

NextWithResults ==
  \/ /\ \E c \in Calls :
          \/ ProxyNewFuture(c) \/ CallFuture(c) \/ ProxyNewFutureCb(c)
          \/ Release(c) \/ Cancel(c)
     /\ UNCHANGED resultVars
  \/ \E c \in MethodCalls :
       \/ CallFutureResultCb(c)
       \/ \E i \in Ids : CopyRecord(c, i) \/ FreeRecord(c, i)

(* As in MethodCall: the GIO primitive always invokes its callback.  When  *)
(* consumers copy and free results is up to them.                         *)
FairnessWithResults ==
  \A c \in Calls :
    WF_allVars(ProxyNewFutureCb(c) /\ UNCHANGED resultVars)
    /\ WF_allVars(CallFutureResultCb(c))

SpecWithResults ==
  InitWithResults /\ [][NextWithResults]_allVars /\ FairnessWithResults

-----------------------------------------------------------------------------
ResultTypeOK ==
  /\ live \in [Calls -> SUBSET Ids]
  /\ copies \in [Calls -> 0 .. MaxCopies]
  /\ ptr \in [Calls -> [Ids -> [Fields -> Ids]]]
  /\ owners \in [Calls -> [Fields -> [Ids -> Nat]]]

(* Copy-then-free leaves no allocation shared without being counted and   *)
(* none counted without a holder, in any order of copies and frees of     *)
(* the callback's record and of copies of copies: each allocation behind  *)
(* a field with a free_func has exactly as many owners as there are live  *)
(* records pointing at it.  A free therefore never releases what another  *)
(* live record still uses, and the last free releases it.                 *)
OwnershipExact ==
  \A c \in MethodCalls, f \in Fields, k \in Ids :
    Owned(f) =>
      owners[c][f][k] = Cardinality({i \in live[c] : ptr[c][i][f] = k})
=============================================================================
