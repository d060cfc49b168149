---------------------------- MODULE SignalMonitor ----------------------------
(***************************************************************************)
(* The continuous signal monitor emitted by generate_signal_monitor:       *)
(* <iface>_signal_monitor_new takes a reference to the object and, for     *)
(* each signal whose flag is set in the requested mask, creates a channel  *)
(* and connects a handler that sends every emission on it; next_<signal>   *)
(* receives from that channel; cancel and finalize disconnect the          *)
(* handlers, close the channels' send sides and drop the object.           *)
(*                                                                         *)
(* Signals are numbered 1..NumSignals in declaration order.  An emission's *)
(* payload is abstracted to its rank among the emissions of its signal     *)
(* that reached the handler, which is what ordering properties compare.    *)
(* Everything runs on the object's main context, so each function and     *)
(* handler is one step.                                                    *)
(***************************************************************************)
EXTENDS Naturals, Sequences, Channel

CONSTANTS
  NumSignals,   \* signals of the interface
  MaxEmits,     \* emissions of each signal that reach its handler
  MaxNexts      \* next_<signal> calls for each signal

ASSUME ConstantsAssumption ==
  /\ NumSignals \in Nat \ {0}
  /\ MaxEmits \in Nat
  /\ MaxNexts \in Nat

Kinds == 1..NumSignals

(* A monitor field that holds no channel (NULL).                          *)
NoChannel == [items |-> <<>>, waiting |-> <<>>, sendOpen |-> FALSE, null |-> TRUE]

VARIABLES
  monitorPc,   \* "none", "active", "cancelled" (cancel has run), "finalized"
  requested,   \* the signals the caller asked to monitor
  objectHeld,  \* self->object holds a reference to the object
  releases,    \* references to the object the monitor has dropped
  handler,     \* self-><signal>_signal_id is a connected handler
  chan,        \* self-><signal>_channel, or NoChannel
  emitted,     \* emissions of each signal that reached its handler
  outcomes     \* for each signal, the futures returned by next_<signal>, in call order

vars == <<monitorPc, requested, objectHeld, releases, handler, chan, emitted,
          outcomes>>

IsChannel(k) == "null" \notin DOMAIN chan[k]

(* The <Iface>Signals value generated for signal k: (n + 1) << 0 for the  *)
(* n-th signal.                                                           *)
Flag(k) == k

Bit(x, i) == (x \div 2^i) % 2

(* signals & FLAG(k) # 0, for signals the OR of the flags of set S.       *)
FlagTest(S, k) ==
  \E i \in 0..NumSignals : Bit(Flag(k), i) = 1 /\ \E j \in S : Bit(Flag(j), i) = 1

(* The futures next_<signal> returns: resolved with an emission's rank,   *)
(* pending, rejected by the monitor ("Monitoring cancelled") or           *)
(* end-of-stream.                                                         *)
Outcomes == [status : {"resolved", "pending", "cancelled", "closed"}, value : Nat]

(* Reject every waiting receive call of each channel with end-of-stream.  *)
RejectWaiting(o, ch) ==
  [k \in Kinds |-> [i \in DOMAIN o[k] |->
                      IF \E p \in DOMAIN ch[k].waiting : ch[k].waiting[p] = i
                      THEN Future("closed", 0) ELSE o[k][i]]]

-----------------------------------------------------------------------------
Init ==
  /\ monitorPc = "none"
  /\ requested = {}
  /\ objectHeld = FALSE
  /\ releases = 0
  /\ handler = [k \in Kinds |-> FALSE]
  /\ chan = [k \in Kinds |-> NoChannel]
  /\ emitted = [k \in Kinds |-> 0]
  /\ outcomes = [k \in Kinds |-> <<>>]

(* <iface>_signal_monitor_new (object, signals) with the flags of S.       *)
MonitorNew(S) ==
  /\ monitorPc = "none"
  /\ monitorPc' = "active"
  /\ requested' = S
  /\ objectHeld' = TRUE
  /\ chan' = [k \in Kinds |-> IF FlagTest(S, k) THEN ChannelNew ELSE NoChannel]
  /\ handler' = [k \in Kinds |-> FlagTest(S, k)]
  /\ UNCHANGED <<releases, emitted, outcomes>>

(* Mutant: every handler uses the first signal's channel field.          *)
SignalCbFirstChannel(k) ==
  /\ handler[k]
  /\ emitted[k] < MaxEmits
  /\ emitted' = [emitted EXCEPT ![k] = @ + 1]
  /\ IF IsChannel(1) /\ ChannelCanSend(chan[1])
     THEN LET r == ChannelTaker(chan[1]) IN
          /\ chan' = [chan EXCEPT ![1] = ChannelSend(@, emitted'[k])]
          /\ outcomes' = IF r = 0 THEN outcomes
                         ELSE [outcomes EXCEPT ![1][r] = Future("resolved", emitted'[k])]
     ELSE UNCHANGED <<chan, outcomes>>
  /\ UNCHANGED <<monitorPc, requested, objectHeld, releases, handler>>

(* The capacity every monitor channel is created with, dex_channel_new (0). *)
MonitorChannelCapacity == 0

(* <iface>_signal_monitor_<signal>_cb: return unless the channel exists   *)
(* and can send; otherwise send an already-resolved future of the record  *)
(* and disown the send's future.                                          *)
SignalCb(k) ==
  /\ handler[k]
  /\ emitted[k] < MaxEmits
  /\ emitted' = [emitted EXCEPT ![k] = @ + 1]
  /\ IF IsChannel(k) /\ ChannelCanSend(chan[k])
     THEN LET r == ChannelTaker(chan[k]) IN
          /\ chan' = [chan EXCEPT ![k] = ChannelSend(@, emitted'[k])]
          /\ outcomes' = IF r = 0 THEN outcomes
                         ELSE [outcomes EXCEPT ![k][r] = Future("resolved", emitted'[k])]
     ELSE UNCHANGED <<chan, outcomes>>
  /\ UNCHANGED <<monitorPc, requested, objectHeld, releases, handler>>

(* <iface>_signal_monitor_next_<signal>: receive from the channel, or a   *)
(* future rejected with G_IO_ERROR_CANCELLED when there is none.           *)
NextSignal(k) ==
  /\ monitorPc \in {"active", "cancelled"}
  /\ Len(outcomes[k]) < MaxNexts
  /\ IF IsChannel(k)
     THEN /\ chan' = [chan EXCEPT ![k] = ChannelReceive(@, Len(outcomes[k]) + 1)]
          /\ outcomes' = [outcomes EXCEPT ![k] = Append(@, ChannelReceived(chan[k]))]
     ELSE /\ outcomes' = [outcomes EXCEPT ![k] = Append(@, Future("cancelled", 0))]
          /\ UNCHANGED chan
  /\ UNCHANGED <<monitorPc, requested, objectHeld, releases, handler, emitted>>

(* The teardown both cancel and finalize do: g_clear_signal_handler and   *)
(* dex_channel_close_send for every signal, then g_clear_object.          *)
CloseAll ==
  /\ handler' = [k \in Kinds |-> FALSE]
  /\ outcomes' = RejectWaiting(outcomes, chan)
  /\ releases' = IF objectHeld THEN releases + 1 ELSE releases
  /\ objectHeld' = FALSE

(* Mutant: cancel drops the object with g_object_unref, leaving the field. *)
MonitorCancelUnref ==
  /\ monitorPc \in {"active", "cancelled"}
  /\ monitorPc' = "cancelled"
  /\ handler' = [k \in Kinds |-> FALSE]
  /\ chan' = [k \in Kinds |-> IF IsChannel(k) THEN ChannelCloseSend(chan[k]) ELSE chan[k]]
  /\ outcomes' = RejectWaiting(outcomes, chan)
  /\ releases' = releases + 1
  /\ UNCHANGED <<requested, objectHeld, emitted>>

(* Mutant: cancel only disconnects the handlers and drops the object.     *)
MonitorCancelNoClose ==
  /\ monitorPc \in {"active", "cancelled"}
  /\ monitorPc' = "cancelled"
  /\ handler' = [k \in Kinds |-> FALSE]
  /\ releases' = IF objectHeld THEN releases + 1 ELSE releases
  /\ objectHeld' = FALSE
  /\ UNCHANGED <<requested, chan, emitted, outcomes>>

(* Mutant: cancel also clears the channel fields, as finalize does.       *)
MonitorCancelClearsChannels ==
  /\ monitorPc \in {"active", "cancelled"}
  /\ monitorPc' = "cancelled"
  /\ CloseAll
  /\ chan' = [k \in Kinds |-> NoChannel]
  /\ UNCHANGED <<requested, emitted>>

(* <iface>_signal_monitor_cancel: the channels stay in their fields.      *)
MonitorCancel ==
  /\ monitorPc \in {"active", "cancelled"}
  /\ monitorPc' = "cancelled"
  /\ CloseAll
  /\ chan' = [k \in Kinds |-> IF IsChannel(k) THEN ChannelCloseSend(chan[k]) ELSE chan[k]]
  /\ UNCHANGED <<requested, emitted>>

(* <iface>_signal_monitor_finalize, when the last reference is dropped:   *)
(* as cancel, and dex_clear of every channel.                             *)
MonitorFinalize ==
  /\ monitorPc \in {"active", "cancelled"}
  /\ monitorPc' = "finalized"
  /\ CloseAll
  /\ chan' = [k \in Kinds |-> NoChannel]
  /\ UNCHANGED <<requested, emitted>>

Next ==
  \/ \E S \in SUBSET Kinds : MonitorNew(S)
  \/ \E k \in Kinds : SignalCb(k) \/ NextSignal(k)
  \/ MonitorCancel
  \/ MonitorFinalize

Spec == Init /\ [][Next]_vars

-----------------------------------------------------------------------------
TypeOK ==
  /\ monitorPc \in {"none", "active", "cancelled", "finalized"}
  /\ requested \subseteq Kinds
  /\ objectHeld \in BOOLEAN
  /\ releases \in Nat
  /\ handler \in [Kinds -> BOOLEAN]
  /\ emitted \in [Kinds -> Nat]
  /\ outcomes \in [Kinds -> Seq(Outcomes)]

(* Per-signal FIFO without loss or duplication: the i-th next_<signal>    *)
(* call that yields a record yields the i-th emission of that signal, for *)
(* any interleaving of emissions, next calls, cancel and finalize.        *)
FifoDelivery ==
  \A k \in Kinds : \A i \in DOMAIN outcomes[k] :
    outcomes[k][i].status = "resolved" => outcomes[k][i].value = i

(* No record is lost before finalize (spec 7: records queued before       *)
(* cancellation are still delivered after it): every emission of a signal *)
(* that reached the handler is either the value of a resolved             *)
(* next_<signal> future or still queued in the channel that cancel leaves *)
(* in the monitor's field, whatever the interleaving of emissions,        *)
(* next calls and cancels.                                                *)
NoRecordLost ==
  monitorPc \in {"active", "cancelled"} =>
    \A k \in Kinds :
      {outcomes[k][i].value : i \in {j \in DOMAIN outcomes[k] :
                                       outcomes[k][j].status = "resolved"}}
        \cup {chan[k].items[j] : j \in DOMAIN chan[k].items}
      = 1..emitted[k]

(* Cancelling or finalizing the monitor strands no consumer: no           *)
(* next_<signal> future is still pending afterwards.                      *)
NoStrandedNext ==
  monitorPc \in {"cancelled", "finalized"} =>
    \A k \in Kinds : \A i \in DOMAIN outcomes[k] : outcomes[k][i].status # "pending"

(* The monitor's reference to the object is dropped at most once, however *)
(* often cancel runs and whether or not finalize follows, and it is held  *)
(* while any handler bound to the object is connected.                    *)
ObjectReleasedOnce ==
  /\ releases <= 1
  /\ (\E k \in Kinds : handler[k]) => objectHeld

(* The monitor listens to exactly the signals the caller asked for: a     *)
(* signal has a channel (and a handler) iff it is in the requested set.   *)
ChannelsMatchRequest ==
  monitorPc = "active" => \A k \in Kinds : IsChannel(k) <=> k \in requested

(* Backpressure (spec 4.4): the send on an unbuffered channel blocks the  *)
(* signal handler until a receiver is ready, so no channel holds more     *)
(* than its capacity plus the one blocked send; the handler's send is the *)
(* code behaviour this is about.                                          *)
BackpressureBound ==
  \A k \in Kinds : Len(chan[k].items) <= MonitorChannelCapacity + 1

(* Every rejection a next_<signal> future gets from a cancelled monitor   *)
(* is G_IO_ERROR_CANCELLED (spec 4.4 and 8), never the channel's          *)
(* end-of-stream: a call pending at cancel and every call after it.       *)
NextRejectsCancelled ==
  \A k \in Kinds : \A i \in DOMAIN outcomes[k] : outcomes[k][i].status # "closed"

=============================================================================
