# TLA+ models of the libdex GDBus binding

This directory holds TLA+ models of the runtime that libdex's gdbus-codegen
extension emits. The generator is `src/src/dex-gdbus-codegen-extension.py`;
the asyncio adapter is `src/src/Dex.py`. It also holds TLC configurations that
check the models on small instances, and TLAPS proofs, for every instance,
of their safety properties.

The generator itself is a string templater. What matters at run time is the C
it writes, so each module models the generated C functions. Each definition
names the Python lines that emit the statements it models; `PROJECT.json` maps
every definition to those lines.

## The system and its parts

| Part | Code | Module |
|---|---|---|
| Method calls and proxy construction: `<iface>_call_<m>_future`, `<iface>_proxy_new_future` and their `_cb` callbacks | generator lines 268-328, 392-527 | `MethodCall`, proofs in `MethodCallProofs` |
| Single-occurrence signal wait: `<iface>_wait_<s>_future`, `_signalled_cb`, `gdbus_future_signal_cancelled_cb`, `gdbus_future_signal_data_free` | lines 589-684, 869-898 | `SignalWait`, proofs in `SignalWaitProofs` |
| Continuous signal monitor: the `<Iface>Signals` enum, `_signal_monitor_new`, the per-signal `_cb`, `next_<s>`, `cancel`, `finalize` | lines 181-210, 686-867 | `SignalMonitor`, proofs in `SignalMonitorProofs`, `SignalMonitorFifoProofs` and `SignalMonitorLossProofs` |
| DexChannel (libdex, not in this repository) | spec §3, §4.4 | `Channel` (pure operators) |
| DexPromise and GCancellable (libdex and GIO) | spec §2, §4.1, §6 | `Complete`, `Cancel`, `Release` inside the modules above; no separate contract module |
| Boxed method results: `<Iface><Method>Result_copy`, `_free`, and the record the callback builds | lines 337-391, 425-437 | `MethodCallResult`, proofs in `MethodCallResultProofs` |
| asyncio adapter `Dex.Future.__await__` | `Dex.py` lines 6-25 | `AsyncioBridge`, proofs in `AsyncioBridgeProofs` |

How the parts interact:

- Every generated operation creates a cancellable `DexPromise` and starts a GIO
  primitive or connects a handler. It then returns the promise as a future.
- GIO callbacks, signal handlers and `GCancellable::cancelled` handlers
  complete the promise.
- The monitor connects one handler per requested signal. Each handler feeds a
  `DexChannel`, and `next_<s>` receives from it.
- A Python coroutine that awaits any of these futures goes through `Dex.py`.
  `Dex.py` registers `on_done` with `finally_`, and `on_done` hands the outcome
  to the asyncio loop.

## What each module models

**MethodCall.** There is one element of `ProxyCalls` or `MethodCalls` per call.
Its variables are:

- `callPc`: idle, inflight or done.
- `refs`: the promise's reference count.
- `callerHolds`: the caller still holds its reference.
- `cancelled`: the token has fired.
- `promise`: the promise's state.

Actions:

- `StartCall` is the body shared by both start functions: `dex_promise_new_cancellable` (one reference, the caller's) and `dex_ref (promise)` as user_data (a second one).
- `ProxyNewFuture` and `CallFuture` bind it to each function.
- `Complete` is the shared callback body. `Finished` is the outcome of the
  `_finish` call, which is an error once the token has fired.
- `ProxyNewFutureCb` and `CallFutureCb` bind the callback body to each callback.
- `Release` is the caller's `dex_unref`.
- `Cancel` fires the token.

Out-arguments are abstracted to ok/error here. `MethodCallResult` adds the
result records.

**MethodCallResult** (EXTENDS MethodCall) composes the calls with the boxed
result records of methods that have out-arguments (lines 337-391, 425-437).

- On success, `CallFutureResultCb` is `Complete` together with
  `BuildResult`. It does `r = g_new0`, then `r->x = arg_x`, which takes over
  the reference `_finish` returned, then `dex_promise_resolve_boxed`. So the
  promise's value slot owns record 0.
- `CopyRecord` is the generated `_copy`, which `g_boxed_copy` runs.
  - A field's kind stands for the `copy_func`/`free_func` pair gdbus-codegen
    gives its type. "dup" (`g_strdup`, `g_strdupv`) makes a fresh
    allocation. "ref" (`g_variant_ref`, and `g_object_ref` for the
    `fd_list`) adds an owner. "plain" copies the value.
  - Copies get ids 1, 2, ..., up to `MaxCopies`.
- `FreeRecord` is the generated `_free`: each `free_func`, then `free (r)`.
  Consumers free their copies. Record 0 would be freed with the promise, which
  the leaked user_data reference never lets happen.
- Variables:
  - `live`: each call's records.
  - `ptr`: which allocation each field points at.
  - `owners`: each allocation's owner count.
- `_finish` fills every out-argument, so the NULL branches of `_copy` are not
  taken.

MethodCall's own `Spec` and its proofs are unchanged. The `method_call` run
checks `SpecWithResults`.

**SignalWait.** There is one element of `Waits` per call of the wait function,
each with its own `GDBusFutureSignalData` and token. The program counters
`waitPc`, `sigPc` and `cancelPc` split the wait function and the two callbacks
at the statements that touch the shared data:

- `WaitConnect`: allocate, connect both handlers.
- `WaitReturn`: store the signal handler id and return.
- `Emit`: enter the signal handler, build the record.
- `SignalledDisconnect`: `g_cancellable_disconnect`.
  This step cannot happen while a cancelled handler is running, because
  `g_cancellable_disconnect` waits for a running handler.
- `SignalledResolve`.
- `SignalledFree`.
- `Cancel`: the token fires.
- `CancelledReject`.
- `CancelledFree`.

`DataFree` is `gdbus_future_signal_data_free`. It disconnects the signal
handler only through the stored id.

The boolean constant `Threaded` selects the scheduling:

- `FALSE`: the waiter, the emission and the token all run on the proxy's main
  context. A function or callback then never starts while another is
  part-way through; that is the guard `Quiet`.
- `TRUE`: the token may fire, and a wait may be issued, from another thread.

**SignalMonitor.** Signals are numbered `1..NumSignals`. Its variables are:

- the monitor's lifecycle `monitorPc`;
- the requested set;
- the object reference (`objectHeld`, `releases`);
- per signal, `handler` (connected) and `chan` (a `Channel` record, or
  `NoChannel` for NULL);
- `emitted`;
- the futures each `next_<s>` call returned (`outcomes`).

`Flag(k) == k` is the generated enum value `(n+1) << 0`, and `FlagTest` is the
C test `signals & FLAG`. `SignalCb` is the per-signal handler:

- It returns if the channel is NULL or closed.
- Otherwise it sends an already-resolved future and disowns the send.

An emission is represented by its rank among that signal's emissions, which
is what ordering compares.

The remaining actions:

- `NextSignal`: `next_<s>`.
- `MonitorCancel`: the handlers are cleared, the send sides closed and the
  object released; the channels stay in their fields.
- `MonitorFinalize`: the same, and the channels are cleared.

Everything runs on the object's context, so each function is one step.

**Channel.** This is libdex's `DexChannel` as the monitor uses it, from the
spec: a record with the items in send order, the receive calls waiting in call
order, and whether the send side is open. Its operators are pure functions
that `SignalMonitor` applies.

**AsyncioBridge.** Several awaits (`Awaits`) of one Dex future. Its variables
are:

- `awaitPc`: idle, chaining, awaiting or done.
- `asyncFut`: the asyncio future.
- `dexRef`: `async_fut.dex_future` is not None.
- `onDonePc`.
- `ready`: the loop's FIFO of callbacks handed over with
  `call_soon_threadsafe`.
- `raised`: InvalidStateError raised inside the loop.

Actions:

- `AwaitStart`: `create_future` and the `finally_` call. On a settled Dex
  future, libdex runs `on_done` inside it (spec §4.1).
- `AwaitAssign`: the assignment at line 23, then the yield.
- `OnDoneSchedule`: lines 14-19.
- `OnDoneClear`: line 21.
- `RunReady`: the loop runs the oldest callback.
- `TaskCancel`.
- `AwaitReturn`.

`Threaded` tells whether Dex callbacks run on the loop's own thread or on
another one.

## Runs

| Run (cfg) | Checks | Result |
|---|---|---|
| `SignalWait.cfg` (MCSignalWait, 3 waits, one context) | `TeardownSafe`, `Settles` | holds |
| `SignalWaitThreaded.cfg` (1 wait, threaded) | `TeardownSafe` | violated |
| `MethodCall.cfg` (MCMethodCall, 1 proxy call, 2 method calls, 2 copies) | `PromiseAliveForCallback`, `OwnershipExact`, `Settles` | holds |
| `MethodCallLeak.cfg` | `NoPromiseLeak` | violated |
| `SignalMonitor.cfg` (3 signals, 2 emissions and 3 next calls each) | `FifoDelivery`, `NoStrandedNext`, `ObjectReleasedOnce`, `NoRecordLost` | holds |
| `SignalMonitorFlags.cfg` (3 signals) | `ChannelsMatchRequest` | violated |
| `SignalMonitorBackpressure.cfg` (2 signals) | `BackpressureBound` | violated |
| `SignalMonitorNextAfterCancel.cfg` (2 signals) | `NextRejectsCancelled` | violated |
| `AsyncioBridge.cfg` (MCAsyncioBridge, 2 awaits, threaded) | `MirrorsDex`, `AwaitSettles` | holds |
| `AsyncioBridgeBackRef.cfg` (1 await, one thread) | `BackRefReleased` | violated |
| `AsyncioBridgeCancelled.cfg` (1 await, one thread) | `SingleTransition` | violated |
| `AsyncioBridgeCancelLeak.cfg` (1 await, one thread) | `BackRefReleasedOnCancel` | violated |

What the properties say:

- `TeardownSafe`: each wait's promise is completed exactly once, its data is
  freed at most once and used only while allocated, and once the data is freed
  no handler that can still fire points at it.
- `PromiseAliveForCallback`: a GIO call in flight always has a reference to
  the promise it will complete, even after the caller dropped its future.
- `FifoDelivery`: the i-th `next_<s>` that yields a record yields the i-th
  emission of `s`.
- `NoStrandedNext`: after cancel or finalize, no `next_<s>` future is still
  pending.
- `NoRecordLost`: until finalize, every emission that reached a handler is
  either the value of a resolved `next_<s>` future or still queued in the
  channel. Cancel keeps the channel in its field (line 843), so records queued
  before cancel are still delivered after it (spec §7). The mutant is a cancel
  that clears the channel fields as finalize does.
- `ObjectReleasedOnce`: the object reference is dropped at most once, and it
  is held while a handler is connected.
- `MirrorsDex`: every asyncio outcome, and every queued setter, matches the
  Dex future's state.
- `OwnershipExact`: each allocation behind a result field with a
  `free_func` has exactly as many owners as there are live records pointing at
  it. This holds whatever the order of copies, copies of copies and frees.
  Then no free releases what a live record still uses, and the last free
  releases it.
- `Settles` and `AwaitSettles` (liveness): every call, wait and await settles.

Every property of a passing run has a mutant in `PROJECT.json`: a plausible
bug in the mapped code that TLC shows breaks it.

### Bounds

- **Three waits** let two waits be part-way through a callback while a third
  starts. **Three method calls** of two kinds cover both functions and both
  callbacks.
- The result records have **one field of each kind** (string, variant,
  integer) and **two copies** per call. With these, a copy of a copy is
  made, and the original and the copies are freed in every order.
- **Three signals** is the smallest interface where the enum values stop being
  distinct bits (1, 2, 3). **Two emissions and three `next` calls** per signal
  cover:
  - items queued ahead of receivers, and receivers ahead of items;
  - a receive left waiting when cancel comes;
  - receives after cancel.
- **Two awaits** show that on_done's setters for different awaits do not mix.

Each violation is found in under ten steps, on the smallest instance that
shows it.

### Fairness

Fairness is weak, and only on steps that the code guarantees will happen once
they can:

- steps inside a callback that has already started (a C function runs to its
  end);
- GIO's completion callback, which GIO always invokes (spec §6);
- libdex invoking a registered `finally_` callback;
- a running asyncio loop running its ready callbacks and waking tasks.

The environment gets no fairness: emitting a signal, firing a token, settling
the Dex future and cancelling a task are all unforced. The liveness properties
are therefore stated from the point where the environment has acted, for
example `sigPc # "idle" \/ cancelled ~> settled`.

## Findings

1. **Signal wait, threaded (spec_code_divergence).** The two listeners tear
   down independently.
   - Sequence: the token fires on another thread and the cancelled handler
     rejects. The signal is then emitted; its handler is still connected,
     because the data is not yet freed. The cancelled handler then frees the
     data while the signal handler runs.
   - Spec §9 asks for one first-writer-wins transition.
   - On one main context the design is safe. That is proved below.
2. **Promise leak (code_bug).** The `dex_ref (promise)` passed as user_data
   (lines 323, 522) is never dropped by the callbacks (lines 283-285,
   422-441).
3. **Signal flags (code_bug).** The `<Iface>Signals` values are `1, 2, 3, ...`
   (line 188), not bits. `signals & FLAG` then makes a request for signal 1 also
   subscribe signal 3.
4. **No backpressure (spec_code_divergence).** `dex_future_disown
   (dex_channel_send (...))` (line 750) never blocks, so the unbuffered channel
   grows without limit. Spec §4.4 says the send blocks.
5. **Error after cancel (spec_code_divergence).** cancel leaves the closed
   channels in their fields (lines 840-850). Pending and later `next_<s>` calls
   therefore get end-of-stream, not `G_IO_ERROR_CANCELLED` (spec §4.4 and the
   scenario in §8).
6. **Back-reference kept (spec_code_divergence).** Awaiting an already-settled
   Dex future runs `on_done` inside `finally_`. Line 23 then stores the
   `finally_` future after `on_done` cleared it.
7. **Setter on a cancelled future (code_bug).** `on_done` hands `set_result`
   to the loop without checking `done()`. A task cancelled first makes the
   loop raise InvalidStateError.
8. **Cancelled await keeps the Dex future (spec_code_divergence).** Cancelling
   the task that awaits at line 25 cancels only the asyncio future. Nothing
   cancels the Dex future, and only `on_done` clears `async_fut.dex_future`.
   - If the Dex future never settles, the cancelled await keeps the `finally_`
     future and its callback forever. An example is a signal wait whose signal
     never comes, awaited under `asyncio.wait_for`.
   - The property is stated for an await whose `on_done` was registered on a
     still-pending Dex future, so the inline `on_done` of finding 6 is
     excluded. TLC's lasso: the await starts on a pending Dex future, stores
     `dex_future`, the task is cancelled and the await returns; the Dex
     future, which gets no fairness, then stays pending with `dex_future`
     still set.
   - Spec §5 says the back-reference is released once the foreign side has
     settled.

## Proofs

`SignalWaitProofs` (TLAPS, all obligations checked) proves two safety theorems.

- **`TypeCorrect`**: `Spec => []TypeOK`. It holds for every `Waits` and either
  value of `Threaded`. It rests on the lemma `TypeStep`, with one step per
  action.
- **`TeardownSafeOnOneContext`**: `~Threaded => (Spec => []TeardownSafe)`. It
  holds for every set of waits.

`TeardownSafe` is not inductive on its own. For example, it does not say that
a running cancelled handler implies a live signal handler and an untouched
promise. The proof therefore uses the strengthening `IInv`: `TypeOK`, plus,
for each wait, `WaitPhase(w)`. `WaitPhase(w)` says the wait's local state is
exactly one of seven phases:

- `Fresh`;
- `Connecting`;
- `Armed`;
- `Signalling` (the signal handler is running);
- `Signalled`;
- `Cancelling` (the cancelled handler is running);
- `CancelledDone`.

Each phase fixes every other variable of the wait. `IInv` was first checked
with TLC on the 575 states of `SignalWait.cfg`.

The proof has three parts:

- `Init => IInv`.
- The lemma `PhaseStep`: `~Threaded /\ IInv /\ [Next]_vars => IInv'`.
  - It has one step per action.
  - Each step shows the acting wait moves from one phase to the next, and that
    every other wait's phase is unchanged.
  - The `Quiet` guard of `Cancel` and `Emit` is what excludes starting a
    callback while the other one is running. Without it, `Cancelling` and
    `Signalling` could overlap, which is exactly the threaded counterexample.
- `IInv => TeardownSafe`, and then PTL.

`MethodCallProofs` proves two reference-count theorems for every set of calls.

- **`PromiseAliveForCallbackHolds`**: `Spec => []PromiseAliveForCallback`.
- **`PromiseLeakedAfterCallback`**: once a call's callback has run and the
  caller has dropped its reference, the promise's count is still 1. This is
  the leak that the `method_call_leak` run shows, stated for every instance.

Both rest on `RefsAccount(c)`, which does the reference bookkeeping. An idle
call holds no caller reference. The count is the D-Bus call's reference
(present while the call is not idle) plus the caller's. The lemma
`AccountStep` shows that every action keeps it. Release has a separate step
showing the count is at least 1 before it is decremented.

`MethodCallResultProofs` proves three theorems about the composed
specification `SpecWithResults`, the one the `method_call` run checks, for
every method, kind of field and number of copies:

- **`OwnershipExactHolds`**: `SpecWithResults => []OwnershipExact`.
- **`NoUseAfterFree`**: every allocation that an owned field of a live record
  points at has at least one owner. It follows from `ResultInv`: the record
  is one of the allocation's holders, so their count is at least 1.
- **`PromiseAliveWithResults`**: `SpecWithResults => []PromiseAliveForCallback`.

The proof of `OwnershipExactHolds` goes as follows.

- The proof counts holders: `Holders(c, f, k)` is the set of live records
  whose field `f` points at allocation `k`.
- The inductive invariant `ResultInv` adds MethodCall's `IInv`, the type of
  the record variables, and `Shape`:
  - live ids are at most `copies`, so a copy's new id was not live;
  - a call that is not done has no records, so the build starts with every
    count at zero.
- `CopyStep` adds the new id to a holder set with `FS_AddElement`.
  `FreeStep` removes one with `FS_RemoveElement`, after showing the count was
  at least 1. `BuildStep` goes from empty sets to `{0}`.
- `CallsStep` shows every step is a step of MethodCall, so `AccountStep`
  carries `IInv` over.
- `ResultInv` was first checked with TLC on the 17,797 states of the
  `method_call` run.

`AsyncioBridgeProofs` proves **`MirrorsDexHolds`**: `Spec => []MirrorsDex`,
for every set of awaits and either value of `Threaded`. `MirrorsDex` alone is
not inductive. For example, a setter queued on the loop must already agree
with a Dex future that cannot change any more. The strengthening `IInv` adds
two cases:

- while the Dex future is pending, nothing is queued and no asyncio future
  holds a result or an exception;
- once it has settled, every queued entry carries `Setter[dexState]` (the set
  `Entry`), and every asyncio future holds either that outcome or no outcome
  (`Seen`).

The lemma `HandOver` covers appending to the queue, and `RunReady` uses
`HeadTailProperties`. `DexComplete` is the only step that changes
`dexState`, and it fires only while nothing is queued.

`SignalMonitorProofs` proves two theorems for every `NumSignals`, `MaxEmits`
and `MaxNexts`.

- **`ObjectReleasedOnceHolds`**: `Spec => []ObjectReleasedOnce`.
- **`NoStrandedNextHolds`**: `Spec => []NoStrandedNext`.

Their inductive invariant `IInv` has five parts:

- `NullChannels`: there is one channel field per signal, and a field without
  a channel is exactly `NoChannel`.
- The shape of every channel (`ChanOK`).
- `Lifecycle`: what the monitor holds in each phase. Before new it holds
  nothing. While active it holds the object. After cancel or finalize it has
  released the object once, no handler is connected, and every send side is
  closed with nobody waiting.
- `PendingWaits`: every pending `next_<signal>` future is a receive waiting
  on its channel.
- `WaitingValid`: the waiting receives are distinct calls of that signal
  whose futures are pending.

`WaitingValid` is what lets the handler step work. The handler resolves the
future of the oldest waiting receive and removes it. Because the waiting
receives are distinct, no other waiting receive names that future, so every
future that stays pending is still waiting. There is one lemma per action:
`NewStep`, `CbStep`, `NextStep` (through `NextEffect`, which covers the three
branches of `dex_channel_receive`), `CancelStep` and `FinalizeStep`.
`IInvStep` combines them, and `InitIInv` covers the initial state. `IInv` was
first checked with TLC as an invariant of the `SignalMonitor.cfg` instance.

`SignalMonitorFifoProofs` proves **`FifoDeliveryHolds`**:
`Spec => []FifoDelivery`, for every `NumSignals`, `MaxEmits` and `MaxNexts`.
`FifoDelivery` says the i-th resolved future carries emission i. It is not
inductive, because it says nothing of the records still in the channel. The
strengthening `FifoInv` adds `IInv` and, for each signal, `Ranks(k)`. Let
`n` be the number of `next_<s>` futures and `e` the number of emissions.
Then:

- the j-th queued record is emission `n + j`;
- the p-th waiting receive is future `e + p`;
- while the send side is open, `n + |queued| = e + |waiting|`;
- a closed channel has nobody waiting.

The predicate `Delivered(k)` is the form of `FifoDelivery` that the steps
preserve. There is one lemma per action:

- `FifoCbStep`: the handler hands emission `e+1` to the oldest receive, which
  is future `e+1`, or queues it as item `n + |queued| + 1 = e + 1`;
- `FifoNextStep`: `next_<signal>` takes the head item, whose rank is `n+1`,
  or waits as receive `e + |waiting| + 1 = n + 1`;
- `FifoNewStep` and `FifoTeardownStep`.

`FifoInv` was first checked with TLC on the 29,569 states of
`SignalMonitor.cfg`. Z3 does not finish the rank arithmetic when a leaf
mixes `Len(outcomes[k])`, `emitted[k]` and the queue lengths. Those leaves
first name each term by a fresh natural (`PICK`) and do the arithmetic on
the names.

`SignalMonitorLossProofs` proves **`NoRecordLostHolds`**:
`Spec => []NoRecordLost`, for every `NumSignals`, `MaxEmits` and
`MaxNexts`. It is a counting argument. With `n` the number of `next_<s>`
futures and `e` the number of emissions, the strengthening `LossInv` adds
three facts per signal to `FifoInv`:

- `HandlerOpen(k)`: a connected handler's channel has its send side open,
  so the handler never drops an emission;
- `ResolvedPrefix(k)`: the resolved futures are exactly futures `1..e`;
- `Balance(k)`: until finalize, `n + |queued| >= e`, with equality while
  records are queued.

With `Ranks(k)` from `FifoInv`, these give `NoRecordLost` (`KeptNoLoss`):
the resolved futures carry `1..min(n, e)`, and the queue holds the rest up to
`e`. There is one lemma per action:

- `KeptCbStep`: the emission `e+1` either resolves future `e+1`, because
  then `n >= e+1`, or is queued;
- `KeptNextStep`: future `n+1` takes the head record `n+1 <= e`, or, with
  nothing queued, `n >= e` and the future is not resolved;
- `KeptTeardownStep`: cancel and finalize reject only waiting receives,
  whose futures were pending, and cancel keeps the queue;
- `KeptNewStep`.

`LossInv` was first checked with TLC on the 29,569 states of
`SignalMonitor.cfg`.

No abstract promise contract is stated, and so no refinement. Mapped onto
the generated code it held by the shape of the models. Every method call may
fail on the bus, so any completion is a legal one. A wait's second
completion is already excluded by `TeardownSafe`. The monitor's futures can
be created already resolved, which no step-by-step contract allows.

Only model-checked:

- **Liveness (`Settles`, `AwaitSettles`).** It needs fairness and ENABLED,
  which TLAPS does not handle here.
- **The violation runs.** They are counterexamples, and TLC finds them.

## Not modelled

- **The signal records' copy/free functions** (lines 537-587). They are
  emitted from the same template text as the method results that
  `MethodCallResult` models, but they are not composed with `SignalWait`.
  Descriptor passing on signals is marked FIXME in the code and is not
  generated.
- **Records the application builds itself.** `_free` calls each `free_func`
  without the NULL check `_copy` makes. `g_variant_unref (NULL)` is a critical
  warning, so a record made with `g_new0` and a NULL variant field misbehaves
  when freed. The generated code never builds such a record.
- **Header layout, documentation text, `init`'s version check and
  `to_asyncio`**, which only checks that a loop exists and returns `self`.
  None of these changes runtime state.
- **`Dex.py` line 8**: `get_event_loop` never returns None, so that branch is
  dead.
- **The width of `signalled_handler_id`** (declared `guint`, while
  `g_signal_connect` returns `gulong`). GLib allocates handler ids from a
  32-bit sequence, so no id is truncated before that sequence itself wraps.
- **libdex and GIO internals.** They appear only through the behaviour the
  spec gives them: one completion per promise, a token that fires once, FIFO
  channels that can be closed, and callbacks invoked exactly once.
