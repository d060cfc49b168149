------------------------- MODULE SignalMonitorProofs -------------------------
(***************************************************************************)
(* Proofs about SignalMonitor.  The monitor's lifecycle fixes what it     *)
(* holds: nothing before new, the object while active, nothing after      *)
(* cancel or finalize, when every handler is disconnected and every send  *)
(* side closed.  And every next_<signal> future still pending is one of   *)
(* the receive calls waiting on its channel, which is what lets closing   *)
(* the channel settle it.  Both hold for every number of signals and      *)
(* every bound on emissions and next calls.                               *)
(***************************************************************************)
EXTENDS SignalMonitor, SequenceTheorems, TLAPS

(* A channel field, or NoChannel, has the shape the Channel operators     *)
(* expect.                                                                *)
ChanOK(c) ==
  /\ c.items \in Seq(Nat)
  /\ c.waiting \in Seq(Nat \ {0})
  /\ c.sendOpen \in BOOLEAN

(* Receive call i of signal k is waiting on its channel.                  *)
Waiting(k, i) == \E p \in 1..Len(chan[k].waiting) : chan[k].waiting[p] = i

(* What the monitor holds in each phase of its lifecycle.                 *)
Lifecycle ==
  /\ monitorPc = "none" =>
       /\ releases = 0 /\ ~objectHeld
       /\ \A k \in Kinds : ~handler[k] /\ outcomes[k] = <<>>
  /\ monitorPc = "active" => releases = 0 /\ objectHeld
  /\ monitorPc \in {"cancelled", "finalized"} =>
       /\ releases = 1 /\ ~objectHeld
       /\ \A k \in Kinds : ~handler[k] /\ ~chan[k].sendOpen /\ chan[k].waiting = <<>>

(* A pending next_<signal> future is a receive waiting on the channel.     *)
PendingWaits ==
  \A k \in Kinds : \A i \in 1..Len(outcomes[k]) :
    outcomes[k][i].status = "pending" => Waiting(k, i)

(* And the receives waiting on a channel are distinct next_<signal> calls *)
(* of that signal whose futures are still pending.                        *)
WaitingValid ==
  \A k \in Kinds : \A p \in 1..Len(chan[k].waiting) :
    /\ chan[k].waiting[p] \in 1..Len(outcomes[k])
    /\ outcomes[k][chan[k].waiting[p]].status = "pending"
    /\ \A q \in 1..Len(chan[k].waiting) : chan[k].waiting[q] = chan[k].waiting[p] => q = p

(* There is a channel field per signal, and one that holds no channel     *)
(* holds NoChannel.                                                       *)
NullChannels ==
  /\ DOMAIN chan = Kinds
  /\ \A k \in Kinds : ~IsChannel(k) => chan[k] = NoChannel

IInv ==
  /\ NullChannels
  /\ TypeOK
  /\ \A k \in Kinds : ChanOK(chan[k])
  /\ Lifecycle
  /\ PendingWaits
  /\ WaitingValid

-----------------------------------------------------------------------------
LEMMA NoChannelOK == ChanOK(NoChannel) /\ ~NoChannel.sendOpen /\ NoChannel.waiting = <<>>
  BY EmptySeq DEF ChanOK, NoChannel

LEMMA NewChannelOK == ChanOK(ChannelNew) /\ ChannelNew.waiting = <<>>
  BY EmptySeq DEF ChanOK, ChannelNew

(* Closing the send side keeps the shape and leaves nobody waiting.        *)
LEMMA CloseSendOK ==
  ASSUME NEW c, ChanOK(c)
  PROVE  /\ ChanOK(ChannelCloseSend(c))
         /\ ~ChannelCloseSend(c).sendOpen /\ ChannelCloseSend(c).waiting = <<>>
  BY EmptySeq DEF ChanOK, ChannelCloseSend

(* The futures RejectWaiting leaves are still futures, none pending that   *)
(* was not pending before, and none pending that was waiting.             *)
LEMMA RejectWaitingOK ==
  ASSUME TypeOK, PendingWaits
  PROVE  /\ RejectWaiting(outcomes, chan) \in [Kinds -> Seq(Outcomes)]
         /\ \A k \in Kinds :
              /\ Len(RejectWaiting(outcomes, chan)[k]) = Len(outcomes[k])
              /\ \A i \in 1..Len(outcomes[k]) :
                   RejectWaiting(outcomes, chan)[k][i].status # "pending"
  <1>1. ASSUME NEW k \in Kinds
        PROVE  /\ RejectWaiting(outcomes, chan)[k] \in Seq(Outcomes)
               /\ Len(RejectWaiting(outcomes, chan)[k]) = Len(outcomes[k])
               /\ \A i \in 1..Len(outcomes[k]) :
                    RejectWaiting(outcomes, chan)[k][i].status # "pending"
    <2>1. outcomes[k] \in Seq(Outcomes)
      BY DEF TypeOK
    <2>2. DOMAIN outcomes[k] = 1..Len(outcomes[k]) /\ Len(outcomes[k]) \in Nat
      BY <2>1, LenProperties
    <2>3. RejectWaiting(outcomes, chan)[k] \in [1..Len(outcomes[k]) -> Outcomes]
      BY <2>1, <2>2, LenProperties DEF RejectWaiting, Outcomes, Future
    <2>4. RejectWaiting(outcomes, chan)[k] \in Seq(Outcomes)
      BY <2>2, <2>3, IsASeq
    <2>5. \A i \in 1..Len(outcomes[k]) :
            RejectWaiting(outcomes, chan)[k][i].status # "pending"
      BY <2>2 DEF RejectWaiting, PendingWaits, Waiting, Future
    <2>6. QED
      BY <2>2, <2>3, <2>4, <2>5, LenProperties
  <1>2. QED
    BY <1>1 DEF RejectWaiting

(* monitor_new on a monitor that was never created keeps IInv.            *)
LEMMA NewStep ==
  ASSUME IInv, NEW S \in SUBSET Kinds, MonitorNew(S)
  PROVE  IInv'
  <1>1. \A k \in Kinds : outcomes[k] = <<>> /\ outcomes'[k] = <<>>
    BY DEF IInv, Lifecycle, MonitorNew
  <1>2. \A k \in Kinds : ChanOK(chan'[k]) /\ chan'[k].waiting = <<>>
    BY NoChannelOK, NewChannelOK DEF MonitorNew
  <1>3. TypeOK'
    <2>1. outcomes' \in [Kinds -> Seq(Outcomes)]
      BY DEF IInv, TypeOK, MonitorNew
    <2>2. handler' \in [Kinds -> BOOLEAN]
      BY DEF MonitorNew, FlagTest
    <2>3. /\ requested' \subseteq Kinds /\ emitted' \in [Kinds -> Nat]
          /\ objectHeld' \in BOOLEAN /\ releases' \in Nat
          /\ monitorPc' \in {"none", "active", "cancelled", "finalized"}
      BY DEF IInv, TypeOK, MonitorNew
    <2>4. QED
      BY <2>1, <2>2, <2>3 DEF TypeOK
  <1>4. Lifecycle'
    BY DEF IInv, Lifecycle, MonitorNew
  <1>5. PendingWaits' /\ WaitingValid'
    BY <1>1, <1>2, EmptySeq DEF PendingWaits, WaitingValid
  <1>7. NullChannels'
    BY DEF MonitorNew, NullChannels, IsChannel, ChannelNew
  <1>6. QED
    BY <1>2, <1>3, <1>4, <1>5, <1>7 DEF IInv

(* The common part of cancel and finalize: every pending future is        *)
(* rejected and no handler stays connected.                                *)
LEMMA CloseAllStep ==
  ASSUME IInv, CloseAll, monitorPc \in {"active", "cancelled"}
  PROVE  /\ outcomes' \in [Kinds -> Seq(Outcomes)]
         /\ \A k \in Kinds : \A i \in 1..Len(outcomes'[k]) : outcomes'[k][i].status # "pending"
         /\ handler' \in [Kinds -> BOOLEAN] /\ \A k \in Kinds : ~handler'[k]
         /\ releases' = 1 /\ objectHeld' = FALSE
  <1>1. /\ RejectWaiting(outcomes, chan) \in [Kinds -> Seq(Outcomes)]
        /\ \A k \in Kinds :
             /\ Len(RejectWaiting(outcomes, chan)[k]) = Len(outcomes[k])
             /\ \A i \in 1..Len(outcomes[k]) :
                  RejectWaiting(outcomes, chan)[k][i].status # "pending"
    BY RejectWaitingOK DEF IInv
  <1>2. releases' = 1 /\ objectHeld' = FALSE
    BY DEF IInv, Lifecycle, CloseAll
  <1>3. QED
    BY <1>1, <1>2 DEF CloseAll

(* cancel keeps IInv: the channels are closed and stay in their fields.   *)
LEMMA CancelStep ==
  ASSUME IInv, MonitorCancel
  PROVE  IInv'
  <1>1. ASSUME NEW k \in Kinds
        PROVE  /\ ChanOK(chan'[k]) /\ ~chan'[k].sendOpen /\ chan'[k].waiting = <<>>
               /\ ~IsChannel(k)' => chan'[k] = NoChannel
    <2>1. ChanOK(chan[k]) /\ (~IsChannel(k) => chan[k] = NoChannel)
      BY DEF IInv, NullChannels
    <2>2. CASE IsChannel(k)
      <3>1. chan'[k] = ChannelCloseSend(chan[k])
        BY <2>2 DEF MonitorCancel
      <3>2. DOMAIN chan'[k] = DOMAIN chan[k]
        BY <3>1 DEF ChannelCloseSend
      <3>3. QED
        BY <2>1, <2>2, <3>1, <3>2, CloseSendOK DEF IsChannel
    <2>3. CASE ~IsChannel(k)
      BY <2>1, <2>3, NoChannelOK DEF MonitorCancel
    <2>4. QED
      BY <2>2, <2>3
  <1>2. /\ outcomes' \in [Kinds -> Seq(Outcomes)]
        /\ \A k \in Kinds : \A i \in 1..Len(outcomes'[k]) : outcomes'[k][i].status # "pending"
        /\ handler' \in [Kinds -> BOOLEAN] /\ \A k \in Kinds : ~handler'[k]
        /\ releases' = 1 /\ objectHeld' = FALSE
    BY CloseAllStep DEF MonitorCancel
  <1>3. TypeOK'
    <2>1. objectHeld' \in BOOLEAN /\ releases' \in Nat
      BY <1>2
    <2>2. requested' \subseteq Kinds /\ emitted' \in [Kinds -> Nat]
      BY DEF IInv, TypeOK, MonitorCancel
    <2>3. monitorPc' \in {"none", "active", "cancelled", "finalized"}
      BY DEF MonitorCancel
    <2>4. QED
      BY <1>2, <2>1, <2>2, <2>3 DEF TypeOK
  <1>4. Lifecycle'
    BY <1>1, <1>2 DEF MonitorCancel, Lifecycle
  <1>5. PendingWaits' /\ WaitingValid' /\ NullChannels'
    BY <1>1, <1>2, EmptySeq DEF PendingWaits, WaitingValid, NullChannels, MonitorCancel
  <1>6. QED
    BY <1>1, <1>3, <1>4, <1>5 DEF IInv

(* finalize keeps IInv: the channel fields are cleared.                   *)
LEMMA FinalizeStep ==
  ASSUME IInv, MonitorFinalize
  PROVE  IInv'
  <1>1. \A k \in Kinds : chan'[k] = NoChannel
    BY DEF MonitorFinalize
  <1>2. /\ outcomes' \in [Kinds -> Seq(Outcomes)]
        /\ \A k \in Kinds : \A i \in 1..Len(outcomes'[k]) : outcomes'[k][i].status # "pending"
        /\ handler' \in [Kinds -> BOOLEAN] /\ \A k \in Kinds : ~handler'[k]
        /\ releases' = 1 /\ objectHeld' = FALSE
    BY CloseAllStep DEF MonitorFinalize
  <1>3. TypeOK'
    <2>1. objectHeld' \in BOOLEAN /\ releases' \in Nat
      BY <1>2
    <2>2. requested' \subseteq Kinds /\ emitted' \in [Kinds -> Nat]
      BY DEF IInv, TypeOK, MonitorFinalize
    <2>3. monitorPc' \in {"none", "active", "cancelled", "finalized"}
      BY DEF MonitorFinalize
    <2>4. QED
      BY <1>2, <2>1, <2>2, <2>3 DEF TypeOK
  <1>4. Lifecycle'
    BY <1>1, <1>2, NoChannelOK DEF MonitorFinalize, Lifecycle
  <1>5. PendingWaits' /\ WaitingValid' /\ NullChannels'
    BY <1>1, <1>2, NoChannelOK, EmptySeq DEF PendingWaits, WaitingValid, NullChannels, MonitorFinalize
  <1>6. QED
    BY <1>1, <1>3, <1>4, <1>5, NoChannelOK DEF IInv

(* What next_<signal> does to signal k, whichever branch it takes: append *)
(* one future, which is pending exactly when the call is added to the     *)
(* waiting receives of an open channel.                                    *)
LEMMA NextEffect ==
  ASSUME IInv, NEW k \in Kinds, NextSignal(k)
  PROVE  \E f \in Outcomes :
           /\ outcomes'[k] = Append(outcomes[k], f)
           /\ ChanOK(chan'[k])
           /\ DOMAIN chan'[k] = DOMAIN chan[k]
           /\ chan'[k].sendOpen = chan[k].sendOpen
           /\ \/ f.status # "pending" /\ chan'[k].waiting = chan[k].waiting
              \/ /\ f.status = "pending" /\ chan[k].sendOpen
                 /\ chan'[k].waiting = Append(chan[k].waiting, Len(outcomes[k]) + 1)
  <1> DEFINE c == chan[k]
             n == Len(outcomes[k])
  <1>0. /\ ChanOK(c) /\ outcomes[k] \in Seq(Outcomes) /\ n \in Nat
        /\ k \in DOMAIN chan /\ k \in DOMAIN outcomes
    BY LenProperties DEF IInv, TypeOK, NullChannels
  <1>6. IsChannel(k) =>
          /\ chan'[k] = ChannelReceive(c, n + 1)
          /\ outcomes'[k] = Append(outcomes[k], ChannelReceived(c))
    BY <1>0 DEF NextSignal
  <1>1. CASE IsChannel(k) /\ c.items # <<>>
    <2>1. /\ chan'[k] = [c EXCEPT !.items = Tail(@)]
          /\ outcomes'[k] = Append(outcomes[k], Future("resolved", Head(c.items)))
      BY <1>1, <1>6 DEF ChannelReceive, ChannelReceived
    <2>2. Head(c.items) \in Nat /\ Tail(c.items) \in Seq(Nat)
      BY <1>0, <1>1, HeadTailProperties DEF ChanOK
    <2>3. Future("resolved", Head(c.items)) \in Outcomes
      BY <2>2 DEF Future, Outcomes
    <2>4. /\ ChanOK(chan'[k])
          /\ DOMAIN chan'[k] = DOMAIN chan[k]
          /\ chan'[k].sendOpen = chan[k].sendOpen
          /\ chan'[k].waiting = chan[k].waiting
      BY <1>0, <2>1, <2>2 DEF ChanOK
    <2>5. Future("resolved", Head(c.items)).status # "pending"
      BY DEF Future
    <2>7. QED
      BY <2>1, <2>3, <2>4, <2>5
  <1>2. CASE IsChannel(k) /\ c.items = <<>> /\ c.sendOpen
    <2>1. /\ chan'[k] = [c EXCEPT !.waiting = Append(@, n + 1)]
          /\ outcomes'[k] = Append(outcomes[k], Future("pending", 0))
      BY <1>2, <1>6 DEF ChannelReceive, ChannelReceived
    <2>2. Append(c.waiting, n + 1) \in Seq(Nat \ {0})
      BY <1>0, AppendProperties DEF ChanOK
    <2>3. /\ ChanOK(chan'[k])
          /\ DOMAIN chan'[k] = DOMAIN chan[k]
          /\ chan'[k].sendOpen = chan[k].sendOpen
          /\ chan'[k].waiting = Append(chan[k].waiting, n + 1)
      BY <1>0, <2>1, <2>2 DEF ChanOK
    <2>4. Future("pending", 0) \in Outcomes /\ Future("pending", 0).status = "pending"
      BY DEF Future, Outcomes
    <2>7. QED
      BY <1>2, <2>1, <2>3, <2>4
  <1>3. CASE IsChannel(k) /\ c.items = <<>> /\ ~c.sendOpen
    <2>1. /\ chan'[k] = c
          /\ outcomes'[k] = Append(outcomes[k], Future("closed", 0))
      BY <1>3, <1>6 DEF ChannelReceive, ChannelReceived
    <2>2. Future("closed", 0) \in Outcomes /\ Future("closed", 0).status # "pending"
      BY DEF Future, Outcomes
    <2>7. QED
      BY <1>0, <2>1, <2>2
  <1>4. CASE ~IsChannel(k)
    <2>1. /\ chan'[k] = c
          /\ outcomes'[k] = Append(outcomes[k], Future("cancelled", 0))
      BY <1>0, <1>4 DEF NextSignal
    <2>2. Future("cancelled", 0) \in Outcomes /\ Future("cancelled", 0).status # "pending"
      BY DEF Future, Outcomes
    <2>7. QED
      BY <1>0, <2>1, <2>2
  <1>5. QED
    BY <1>1, <1>2, <1>3, <1>4

(* next_<signal> keeps IInv: a pending future it returns is the receive   *)
(* it adds to the waiting ones, under a number no waiting receive has.    *)
LEMMA NextStep ==
  ASSUME IInv, NEW k \in Kinds, NextSignal(k)
  PROVE  IInv'
  <1> DEFINE n == Len(outcomes[k])
             w == chan[k].waiting
  <1>0. PICK f \in Outcomes :
           /\ outcomes'[k] = Append(outcomes[k], f)
           /\ ChanOK(chan'[k])
           /\ DOMAIN chan'[k] = DOMAIN chan[k]
           /\ chan'[k].sendOpen = chan[k].sendOpen
           /\ \/ f.status # "pending" /\ chan'[k].waiting = w
              \/ /\ f.status = "pending" /\ chan[k].sendOpen
                 /\ chan'[k].waiting = Append(w, n + 1)
    BY NextEffect
  <1>1. /\ DOMAIN chan' = Kinds
        /\ outcomes' = [outcomes EXCEPT ![k] = Append(outcomes[k], f)]
        /\ \A j \in Kinds \ {k} : chan'[j] = chan[j]
        /\ ~IsChannel(k) => chan'[k] = chan[k]
    BY <1>0 DEF NextSignal, IInv, NullChannels
  <1>2. UNCHANGED <<monitorPc, requested, objectHeld, releases, handler, emitted>>
    BY DEF NextSignal
  <1>3. /\ outcomes[k] \in Seq(Outcomes) /\ n \in Nat
        /\ outcomes'[k] \in Seq(Outcomes) /\ Len(outcomes'[k]) = n + 1
        /\ \A i \in 1..n : outcomes'[k][i] = outcomes[k][i]
        /\ outcomes'[k][n + 1] = f
        /\ \A j \in Kinds \ {k} : outcomes'[j] = outcomes[j]
        /\ w \in Seq(Nat \ {0}) /\ Len(w) \in Nat
    BY <1>0, <1>1, AppendProperties, LenProperties DEF IInv, TypeOK, ChanOK
  <1>4. TypeOK'
    <2>1. outcomes' \in [Kinds -> Seq(Outcomes)]
      BY <1>1, <1>3 DEF IInv, TypeOK
    <2>2. QED
      BY <1>2, <2>1 DEF IInv, TypeOK
  <1>5. \A j \in Kinds : ChanOK(chan'[j])
    BY <1>0, <1>1 DEF IInv
  <1>6. NullChannels'
    <2>1. ASSUME NEW j \in Kinds, ~IsChannel(j)'
          PROVE  chan'[j] = NoChannel
      <3>1. CASE j = k
        BY <1>0, <1>1, <2>1, <3>1 DEF IInv, NullChannels, IsChannel
      <3>2. CASE j # k
        BY <1>1, <2>1, <3>2 DEF IInv, NullChannels, IsChannel
      <3>3. QED
        BY <3>1, <3>2
    <2>2. QED
      BY <1>1, <2>1 DEF NullChannels
  <1>7. Lifecycle'
    <2>1. monitorPc \in {"active", "cancelled"}
      BY DEF NextSignal
    <2>2. ASSUME monitorPc = "cancelled"
          PROVE  ~chan'[k].sendOpen /\ chan'[k].waiting = <<>>
      <3>1. ~chan[k].sendOpen /\ w = <<>>
        BY <2>2 DEF IInv, Lifecycle
      <3>2. QED
        BY <1>0, <3>1
    <2>3. QED
      BY <1>1, <1>2, <2>1, <2>2 DEF IInv, Lifecycle
  <1>11. /\ Len(chan'[k].waiting) \in Nat
         /\ \A p \in 1..Len(w) : p \in 1..Len(chan'[k].waiting) /\ chan'[k].waiting[p] = w[p]
    <2>1. CASE chan'[k].waiting = w
      BY <1>3, <2>1
    <2>2. CASE chan'[k].waiting = Append(w, n + 1)
      BY <1>3, <2>2, AppendProperties
    <2>3. QED
      BY <1>0, <2>1, <2>2
  <1>12. \A q \in 1..Len(w) :
           /\ w[q] \in 1..n
           /\ outcomes'[k][w[q]].status = "pending"
           /\ \A q2 \in 1..Len(w) : w[q2] = w[q] => q2 = q
    <2>1. \A q \in 1..Len(w) :
            /\ w[q] \in 1..n
            /\ outcomes[k][w[q]].status = "pending"
            /\ \A q2 \in 1..Len(w) : w[q2] = w[q] => q2 = q
      BY DEF IInv, WaitingValid
    <2>2. QED
      BY <1>3, <2>1
  <1>8. PendingWaits'
    <2>1. ASSUME NEW j \in Kinds, NEW i \in 1..Len(outcomes'[j]),
                 outcomes'[j][i].status = "pending"
          PROVE  Waiting(j, i)'
      <3>1. CASE j # k
        <4>1. i \in 1..Len(outcomes[j]) /\ outcomes[j][i].status = "pending"
          BY <1>3, <2>1, <3>1
        <4>2. Waiting(j, i)
          BY <4>1 DEF IInv, PendingWaits
        <4>3. QED
          BY <1>1, <3>1, <4>2 DEF Waiting
      <3>2. CASE j = k /\ i \in 1..n
        <4>1. PICK p \in 1..Len(w) : w[p] = i
          BY <1>3, <2>1, <3>2 DEF IInv, PendingWaits, Waiting
        <4>2. p \in 1..Len(chan'[k].waiting) /\ chan'[k].waiting[p] = i
          BY <1>11, <4>1
        <4>3. QED
          BY <3>2, <4>2 DEF Waiting
      <3>6. CASE j = k /\ i = n + 1
        <4>4. chan'[k].waiting = Append(w, n + 1)
          BY <1>0, <1>3, <2>1, <3>6
        <4>5. Len(w) + 1 \in 1..Len(chan'[k].waiting)
              /\ chan'[k].waiting[Len(w) + 1] = n + 1
          BY <1>3, <4>4, AppendProperties
        <4>6. QED
          BY <3>6, <4>5 DEF Waiting
      <3>10. QED
        BY <1>3, <2>1, <3>1, <3>2, <3>6
    <2>2. QED
      BY <2>1 DEF PendingWaits
  <1>9. WaitingValid'
    <2>1. ASSUME NEW j \in Kinds, NEW p \in 1..Len(chan'[j].waiting)
          PROVE  /\ chan'[j].waiting[p] \in 1..Len(outcomes'[j])
                 /\ outcomes'[j][chan'[j].waiting[p]].status = "pending"
                 /\ \A q \in 1..Len(chan'[j].waiting) :
                      chan'[j].waiting[q] = chan'[j].waiting[p] => q = p
      <3>1. CASE j # k
        <4>1. chan'[j] = chan[j] /\ outcomes'[j] = outcomes[j]
          BY <1>1, <1>3, <3>1
        <4>2. QED
          BY <2>1, <4>1 DEF IInv, WaitingValid
      <3>2. 1..n \subseteq 1..Len(outcomes'[k])
        BY <1>3
      <3>3. CASE j = k /\ chan'[k].waiting = w
        <4>1. p \in 1..Len(w)
          BY <2>1, <3>3
        <4>2. /\ w[p] \in 1..n
              /\ outcomes'[k][w[p]].status = "pending"
              /\ \A q2 \in 1..Len(w) : w[q2] = w[p] => q2 = p
          BY <1>12, <4>1
        <4>3. QED
          BY <3>2, <3>3, <4>2
      <3>4. CASE j = k /\ chan'[k].waiting = Append(w, n + 1) /\ f.status = "pending"
        <4>1. /\ Len(chan'[k].waiting) = Len(w) + 1
              /\ \A q \in 1..Len(w) : chan'[k].waiting[q] = w[q]
              /\ chan'[k].waiting[Len(w) + 1] = n + 1
          BY <1>3, <3>4, AppendProperties
        <4>5. /\ \A q \in 1..Len(w) : w[q] \in 1..n
              /\ outcomes'[k][n + 1].status = "pending"
              /\ n + 1 \in 1..Len(outcomes'[k])
              /\ Len(w) \in Nat
          BY <1>3, <1>12, <3>4
        <4>2. CASE p \in 1..Len(w)
          <5>1. /\ w[p] \in 1..n
                /\ outcomes'[k][w[p]].status = "pending"
                /\ \A q2 \in 1..Len(w) : w[q2] = w[p] => q2 = p
            BY <1>12, <4>2
          <5>2. chan'[k].waiting[p] = w[p]
            BY <4>1, <4>2
          <5>3. ASSUME NEW q \in 1..Len(chan'[k].waiting),
                       chan'[k].waiting[q] = chan'[k].waiting[p]
                PROVE  q = p
            <6>1. CASE q \in 1..Len(w)
              BY <4>1, <5>1, <5>2, <5>3, <6>1
            <6>2. CASE q = Len(w) + 1
              BY <1>3, <4>1, <5>1, <5>2, <5>3, <6>2
            <6>3. QED
              BY <4>1, <4>5, <6>1, <6>2
          <5>4. QED
            BY <3>2, <3>4, <5>1, <5>2, <5>3
        <4>3. CASE p = Len(w) + 1
          <5>1. chan'[k].waiting[p] = n + 1
            BY <4>1, <4>3
          <5>2. ASSUME NEW q \in 1..Len(chan'[k].waiting), chan'[k].waiting[q] = n + 1
                PROVE  q = p
            <6>1. CASE q \in 1..Len(w)
              <7>1. w[q] \in 1..n /\ chan'[k].waiting[q] = w[q]
                BY <4>1, <4>5, <6>1
              <7>2. QED
                BY <1>3, <5>2, <7>1
            <6>2. QED
              BY <4>1, <4>3, <4>5, <6>1
          <5>3. QED
            BY <3>4, <4>5, <5>1, <5>2
        <4>6. p \in 1..Len(w) \/ p = Len(w) + 1
          BY <2>1, <3>4, <4>1, <4>5
        <4>4. QED
          BY <4>2, <4>3, <4>6
      <3>5. QED
        BY <1>0, <3>1, <3>3, <3>4
    <2>2. QED
      BY <2>1 DEF WaitingValid
  <1>10. QED
    BY <1>4, <1>5, <1>6, <1>7, <1>8, <1>9 DEF IInv
(* The signal handler keeps IInv: the receive it hands the emission to is *)
(* the oldest waiting one, whose future it resolves, and that receive     *)
(* leaves the waiting ones; no other waiting receive shares its number.   *)
LEMMA CbStep ==
  ASSUME IInv, NEW k \in Kinds, SignalCb(k)
  PROVE  IInv'
  <1> DEFINE w == chan[k].waiting
             x == emitted'[k]
  <1>0. /\ ChanOK(chan[k]) /\ w \in Seq(Nat \ {0}) /\ outcomes[k] \in Seq(Outcomes)
        /\ k \in DOMAIN chan /\ k \in DOMAIN outcomes
        /\ monitorPc = "active"
        /\ x \in Nat /\ emitted' \in [Kinds -> Nat]
    BY DEF SignalCb, IInv, TypeOK, ChanOK, NullChannels, Lifecycle
  <1>1. UNCHANGED <<monitorPc, requested, objectHeld, releases, handler>>
    BY DEF SignalCb
  <1>2. CASE ~(IsChannel(k) /\ ChannelCanSend(chan[k]))
    <2>1. UNCHANGED <<chan, outcomes>>
      BY <1>2 DEF SignalCb
    <2>2. TypeOK'
      BY <1>0, <1>1, <2>1 DEF IInv, TypeOK
    <2>3. NullChannels' /\ \A j \in Kinds : ChanOK(chan'[j])
      BY <2>1 DEF IInv, NullChannels, IsChannel
    <2>4. Lifecycle'
      BY <1>1, <2>1 DEF IInv, Lifecycle
    <2>5. PendingWaits' /\ WaitingValid'
      BY <2>1 DEF IInv, PendingWaits, WaitingValid, Waiting
    <2>6. QED
      BY <2>2, <2>3, <2>4, <2>5 DEF IInv
  <1>3. CASE IsChannel(k) /\ chan[k].sendOpen /\ w = <<>>
    <2>1. /\ chan' = [chan EXCEPT ![k] = [chan[k] EXCEPT !.items = Append(@, x)]]
          /\ UNCHANGED outcomes
      BY <1>3 DEF SignalCb, ChannelCanSend, ChannelTaker, ChannelSend
    <2>2. Append(chan[k].items, x) \in Seq(Nat)
      BY <1>0, AppendProperties DEF ChanOK
    <2>3. /\ ChanOK(chan'[k]) /\ DOMAIN chan'[k] = DOMAIN chan[k]
          /\ chan'[k].waiting = w /\ chan'[k].sendOpen = chan[k].sendOpen
      <3>1. chan'[k] = [chan[k] EXCEPT !.items = Append(chan[k].items, x)]
        BY <1>0, <2>1
      <3>2. DOMAIN chan'[k] = DOMAIN chan[k]
        BY <3>1
      <3>3. chan'[k].waiting = w /\ chan'[k].sendOpen = chan[k].sendOpen
        BY <3>1
      <3>4. chan'[k].items \in Seq(Nat)
        BY <2>2, <3>1
      <3>5. QED
        BY <1>0, <3>2, <3>3, <3>4 DEF ChanOK
    <2>4. /\ DOMAIN chan' = Kinds
          /\ \A j \in Kinds \ {k} : chan'[j] = chan[j]
      BY <2>1 DEF IInv, NullChannels
    <2>5. TypeOK'
      BY <1>0, <1>1, <2>1 DEF IInv, TypeOK
    <2>6. NullChannels' /\ \A j \in Kinds : ChanOK(chan'[j])
      BY <1>3, <2>3, <2>4 DEF IInv, NullChannels, IsChannel
    <2>7. Lifecycle'
      BY <1>0, <1>1, <2>1 DEF IInv, Lifecycle
    <2>8. PendingWaits' /\ WaitingValid'
      BY <2>1, <2>3, <2>4 DEF IInv, PendingWaits, WaitingValid, Waiting
    <2>9. QED
      BY <2>5, <2>6, <2>7, <2>8 DEF IInv
  <1>4. CASE IsChannel(k) /\ chan[k].sendOpen /\ w # <<>>
    <2> DEFINE r == Head(w)
    <2>0. r \in Nat \ {0} /\ ChannelTaker(chan[k]) = r
      BY <1>0, <1>4, HeadTailProperties DEF ChannelTaker
    <2>1. /\ chan' = [chan EXCEPT ![k] = [chan[k] EXCEPT !.waiting = Tail(w)]]
          /\ outcomes' = [outcomes EXCEPT ![k][r] = Future("resolved", x)]
      BY <1>4, <2>0 DEF SignalCb, ChannelCanSend, ChannelSend
    <2>2. /\ Len(w) \in Nat \ {0} /\ r = w[1] /\ Tail(w) \in Seq(Nat \ {0})
          /\ Len(Tail(w)) = Len(w) - 1
          /\ \A q \in 1..Len(Tail(w)) : Tail(w)[q] = w[q + 1]
      BY <1>0, <1>4, HeadTailProperties, LenProperties
    <2>3. /\ ChanOK(chan'[k]) /\ DOMAIN chan'[k] = DOMAIN chan[k]
          /\ chan'[k].waiting = Tail(w) /\ chan'[k].sendOpen = chan[k].sendOpen
      <3>1. chan'[k] = [chan[k] EXCEPT !.waiting = Tail(w)]
        BY <1>0, <2>1
      <3>2. DOMAIN chan'[k] = DOMAIN chan[k]
        BY <3>1
      <3>3. chan'[k].waiting = Tail(w) /\ chan'[k].sendOpen = chan[k].sendOpen
            /\ chan'[k].items = chan[k].items
        BY <3>1
      <3>4. QED
        BY <1>0, <2>2, <3>2, <3>3 DEF ChanOK
    <2>4. /\ DOMAIN chan' = Kinds
          /\ \A j \in Kinds \ {k} : chan'[j] = chan[j]
      BY <2>1 DEF IInv, NullChannels
    <2>5. /\ r \in 1..Len(outcomes[k])
          /\ \A q \in 1..Len(w) :
               /\ w[q] \in 1..Len(outcomes[k])
               /\ outcomes[k][w[q]].status = "pending"
               /\ w[q] = r => q = 1
      BY <2>2 DEF IInv, WaitingValid
    <2>6. /\ outcomes'[k] = [outcomes[k] EXCEPT ![r] = Future("resolved", x)]
          /\ outcomes'[k] \in Seq(Outcomes)
          /\ Len(outcomes'[k]) = Len(outcomes[k])
          /\ outcomes'[k][r].status = "resolved"
          /\ \A i \in 1..Len(outcomes[k]) \ {r} : outcomes'[k][i] = outcomes[k][i]
          /\ \A j \in Kinds \ {k} : outcomes'[j] = outcomes[j]
      <3>1. outcomes'[k] = [outcomes[k] EXCEPT ![r] = Future("resolved", x)]
        BY <1>0, <2>1
      <3>2. Future("resolved", x) \in Outcomes
        BY <1>0 DEF Future, Outcomes
      <3>3. DOMAIN outcomes[k] = 1..Len(outcomes[k]) /\ Len(outcomes[k]) \in Nat
        BY <1>0, LenProperties
      <3>4. outcomes'[k] \in [1..Len(outcomes[k]) -> Outcomes]
        BY <1>0, <2>5, <3>1, <3>2, <3>3
      <3>5. outcomes'[k] \in Seq(Outcomes) /\ Len(outcomes'[k]) = Len(outcomes[k])
        BY <3>3, <3>4, IsASeq, LenProperties
      <3>6. QED
        BY <2>1, <2>5, <3>1, <3>3, <3>5 DEF Future
    <2>7. TypeOK'
      <3>1. outcomes' \in [Kinds -> Seq(Outcomes)]
        BY <2>1, <2>6 DEF IInv, TypeOK
      <3>2. QED
        BY <1>0, <1>1, <3>1 DEF IInv, TypeOK
    <2>8. NullChannels' /\ \A j \in Kinds : ChanOK(chan'[j])
      BY <1>4, <2>3, <2>4 DEF IInv, NullChannels, IsChannel
    <2>9. Lifecycle'
      BY <1>0, <1>1 DEF IInv, Lifecycle
    <2>10. PendingWaits'
      <3>1. ASSUME NEW j \in Kinds, NEW i \in 1..Len(outcomes'[j]),
                   outcomes'[j][i].status = "pending"
            PROVE  Waiting(j, i)'
        <4>1. CASE j # k
          BY <2>4, <2>6, <3>1, <4>1 DEF IInv, PendingWaits, Waiting
        <4>2. CASE j = k
          <5>1. i # r /\ i \in 1..Len(outcomes[k]) /\ outcomes[k][i].status = "pending"
            BY <2>6, <3>1, <4>2
          <5>2. PICK p \in 1..Len(w) : w[p] = i
            BY <5>1 DEF IInv, PendingWaits, Waiting
          <5>3. p # 1
            BY <2>2, <5>1, <5>2
          <5>4. p - 1 \in 1..Len(Tail(w)) /\ Tail(w)[p - 1] = i
            BY <2>2, <5>2, <5>3
          <5>5. QED
            BY <2>3, <4>2, <5>4 DEF Waiting
        <4>3. QED
          BY <4>1, <4>2
      <3>2. QED
        BY <3>1 DEF PendingWaits
    <2>11. WaitingValid'
      <3>1. ASSUME NEW j \in Kinds, NEW p \in 1..Len(chan'[j].waiting)
            PROVE  /\ chan'[j].waiting[p] \in 1..Len(outcomes'[j])
                   /\ outcomes'[j][chan'[j].waiting[p]].status = "pending"
                   /\ \A q \in 1..Len(chan'[j].waiting) :
                        chan'[j].waiting[q] = chan'[j].waiting[p] => q = p
        <4>1. CASE j # k
          BY <2>4, <2>6, <3>1, <4>1 DEF IInv, WaitingValid
        <4>2. CASE j = k
          <5>0. chan'[k].waiting = Tail(w) /\ p \in 1..Len(chan'[k].waiting)
            BY <2>3, <3>1, <4>2
          <5>1. p \in 1..Len(Tail(w)) /\ chan'[k].waiting[p] = w[p + 1]
                /\ p + 1 \in 1..Len(w)
            BY <2>2, <5>0
          <5>2. w[p + 1] # r /\ w[p + 1] \in 1..Len(outcomes[k])
                /\ outcomes[k][w[p + 1]].status = "pending"
            BY <2>5, <5>1
          <5>3. /\ chan'[k].waiting[p] \in 1..Len(outcomes'[k])
                /\ outcomes'[k][chan'[k].waiting[p]].status = "pending"
            BY <2>6, <5>1, <5>2
          <5>4. ASSUME NEW q \in 1..Len(chan'[k].waiting),
                       chan'[k].waiting[q] = chan'[k].waiting[p]
                PROVE  q = p
            <6>1. q \in 1..Len(Tail(w)) /\ chan'[k].waiting[q] = w[q + 1]
                  /\ q + 1 \in 1..Len(w)
              BY <2>2, <2>3, <5>4
            <6>2. q + 1 = p + 1
              BY <5>1, <5>4, <6>1 DEF IInv, WaitingValid
            <6>3. QED
              BY <5>1, <6>1, <6>2
          <5>5. QED
            BY <4>2, <5>3, <5>4
        <4>3. QED
          BY <4>1, <4>2
      <3>2. QED
        BY <3>1 DEF WaitingValid
    <2>12. QED
      BY <2>7, <2>8, <2>9, <2>10, <2>11 DEF IInv
  <1>5. QED
    BY <1>2, <1>3, <1>4 DEF ChannelCanSend

-----------------------------------------------------------------------------
LEMMA InitIInv == Init => IInv
  <1> SUFFICES ASSUME Init PROVE IInv
    OBVIOUS
  <1>1. \A k \in Kinds : chan[k] = NoChannel /\ outcomes[k] = <<>>
    BY DEF Init
  <1>2. TypeOK
    BY EmptySeq DEF Init, TypeOK
  <1>3. NullChannels /\ \A k \in Kinds : ChanOK(chan[k])
    BY <1>1, NoChannelOK DEF Init, NullChannels
  <1>4. Lifecycle /\ PendingWaits /\ WaitingValid
    BY <1>1, NoChannelOK, EmptySeq DEF Init, Lifecycle, PendingWaits, WaitingValid
  <1>5. QED
    BY <1>2, <1>3, <1>4 DEF IInv

LEMMA IInvStep == IInv /\ [Next]_vars => IInv'
  <1> SUFFICES ASSUME IInv, [Next]_vars PROVE IInv'
    OBVIOUS
  <1>1. CASE \E S \in SUBSET Kinds : MonitorNew(S)
    BY <1>1, NewStep
  <1>2. CASE \E k \in Kinds : SignalCb(k)
    BY <1>2, CbStep
  <1>3. CASE \E k \in Kinds : NextSignal(k)
    BY <1>3, NextStep
  <1>4. CASE MonitorCancel
    BY <1>4, CancelStep
  <1>5. CASE MonitorFinalize
    BY <1>5, FinalizeStep
  <1>6. CASE UNCHANGED vars
    BY <1>6 DEF vars, IInv, NullChannels, IsChannel, TypeOK, ChanOK, Lifecycle,
                PendingWaits, WaitingValid, Waiting
  <1>7. QED
    BY <1>1, <1>2, <1>3, <1>4, <1>5, <1>6 DEF Next

(* The monitor's reference to the object is dropped at most once and is   *)
(* held while a handler is connected, for every number of signals and of  *)
(* emissions and next calls: cancel, repeated or followed by finalize,    *)
(* never drops it twice (g_clear_object in the generated teardown).        *)
THEOREM ObjectReleasedOnceHolds == Spec => []ObjectReleasedOnce
  <1>1. IInv => ObjectReleasedOnce
    BY DEF IInv, TypeOK, Lifecycle, ObjectReleasedOnce
  <1>2. QED
    BY <1>1, InitIInv, IInvStep, PTL DEF Spec

(* No next_<signal> future is left pending once the monitor is cancelled  *)
(* or finalized, for every number of signals and bound: every pending one *)
(* is a receive waiting on its channel, and cancel and finalize close the *)
(* send side of every channel, which rejects all its waiting receives.     *)
THEOREM NoStrandedNextHolds == Spec => []NoStrandedNext
  <1>1. IInv => NoStrandedNext
    <2> SUFFICES ASSUME IInv, monitorPc \in {"cancelled", "finalized"},
                        NEW k \in Kinds, NEW i \in DOMAIN outcomes[k],
                        outcomes[k][i].status = "pending"
                 PROVE  FALSE
      BY DEF NoStrandedNext
    <2>1. i \in 1..Len(outcomes[k])
      BY DEF IInv, TypeOK
    <2>2. Waiting(k, i)
      BY <2>1 DEF IInv, PendingWaits
    <2>3. chan[k].waiting = <<>>
      BY DEF IInv, Lifecycle
    <2>4. QED
      BY <2>2, <2>3, EmptySeq DEF Waiting
  <1>2. QED
    BY <1>1, InitIInv, IInvStep, PTL DEF Spec
=============================================================================
