----------------------- MODULE SignalMonitorFifoProofs -----------------------
(***************************************************************************)
(* The proof that the monitor delivers each signal's emissions in order,  *)
(* FifoDelivery.  It is not inductive by itself: whether the next receive *)
(* or the next send resolves a future with the right rank depends on what *)
(* the channel holds.  The strengthening ties the channel to the two      *)
(* counters the handler and next_<signal> advance, emitted[k] and the     *)
(* number n of next_<signal> calls so far:                                *)
(*   - the j-th queued item is the emission ranked n + j, the one the      *)
(*     (n + j)-th next call will take;                                     *)
(*   - the p-th waiting receive is call emitted[k] + p, the one the        *)
(*     (emitted[k] + p)-th emission will be handed to;                     *)
(*   - while the send side is open no emission was dropped and no call    *)
(*     was turned away, so n + queued items = emitted + waiting receives;  *)
(*   - before monitor_new no handler ran, so nothing was emitted.          *)
(***************************************************************************)
EXTENDS SignalMonitorProofs

(* The ranks queued on, and the calls waiting at, the channel of signal k; *)
(* a closed channel has no waiting receives.                              *)
Ranks(k) ==
  /\ \A j \in 1..Len(chan[k].items) : chan[k].items[j] = Len(outcomes[k]) + j
  /\ \A p \in 1..Len(chan[k].waiting) : chan[k].waiting[p] = emitted[k] + p
  /\ chan[k].sendOpen =>
       Len(outcomes[k]) + Len(chan[k].items) = emitted[k] + Len(chan[k].waiting)
  /\ ~chan[k].sendOpen => chan[k].waiting = <<>>

(* FifoDelivery for signal k.                                             *)
Delivered(k) ==
  \A i \in 1..Len(outcomes[k]) :
    outcomes[k][i].status = "resolved" => outcomes[k][i].value = i

FifoRest ==
  /\ monitorPc = "none" => \A k \in Kinds : emitted[k] = 0
  /\ \A k \in Kinds : Ranks(k) /\ Delivered(k)

FifoInv == IInv /\ FifoRest

-----------------------------------------------------------------------------
LEMMA DeliveredIsFifo == TypeOK => (FifoDelivery <=> \A k \in Kinds : Delivered(k))
  <1> SUFFICES ASSUME TypeOK PROVE FifoDelivery <=> \A k \in Kinds : Delivered(k)
    OBVIOUS
  <1>1. \A k \in Kinds : DOMAIN outcomes[k] = 1..Len(outcomes[k])
    BY LenProperties DEF TypeOK
  <1>2. QED
    BY <1>1 DEF FifoDelivery, Delivered

(* An emission is queued as the next rank or handed to the oldest waiting *)
(* receive, which is the call with that rank.                             *)
LEMMA FifoCbStep ==
  ASSUME IInv, FifoRest, NEW k \in Kinds, SignalCb(k)
  PROVE  FifoRest'
  <1> DEFINE c == chan[k]
             w == c.waiting
             n == Len(outcomes[k])
             e == emitted[k]
  <1>0. /\ ChanOK(c) /\ outcomes[k] \in Seq(Outcomes) /\ n \in Nat /\ e \in Nat
        /\ w \in Seq(Nat \ {0}) /\ c.items \in Seq(Nat)
        /\ monitorPc = "active" /\ emitted' = [emitted EXCEPT ![k] = e + 1]
        /\ DOMAIN chan = Kinds /\ emitted \in [Kinds -> Nat]
        /\ outcomes \in [Kinds -> Seq(Outcomes)]
        /\ Ranks(k) /\ Delivered(k)
    BY LenProperties DEF SignalCb, IInv, TypeOK, ChanOK, NullChannels, Lifecycle, FifoRest
  <1>1. /\ monitorPc' = monitorPc
        /\ \A j \in Kinds \ {k} :
             chan'[j] = chan[j] /\ outcomes'[j] = outcomes[j] /\ emitted'[j] = emitted[j]
    BY <1>0 DEF SignalCb
  <1>2. \A j \in Kinds \ {k} : Ranks(j)' /\ Delivered(j)'
    <2> SUFFICES ASSUME NEW j \in Kinds \ {k} PROVE Ranks(j)' /\ Delivered(j)'
      OBVIOUS
    <2>1. chan'[j] = chan[j] /\ outcomes'[j] = outcomes[j] /\ emitted'[j] = emitted[j]
      BY <1>1
    <2>2. Ranks(j) /\ Delivered(j)
      BY DEF FifoRest
    <2>3. QED
      BY <2>1, <2>2 DEF Ranks, Delivered
  <1>3. CASE ~(IsChannel(k) /\ c.sendOpen)
    <2>1. UNCHANGED <<chan, outcomes>>
      BY <1>3 DEF SignalCb, ChannelCanSend
    <2>2. ~c.sendOpen
      BY <1>3 DEF IInv, NullChannels, NoChannel
    <2>3. w = <<>>
      BY <1>0, <2>2 DEF Ranks
    <2>4. QED
      BY <1>0, <1>1, <1>2, <2>1, <2>2, <2>3 DEF FifoRest, Ranks, Delivered
  <1>4. CASE IsChannel(k) /\ c.sendOpen /\ w = <<>>
    <2> DEFINE items == Append(c.items, e + 1)
    <2>1. /\ chan'[k] = [c EXCEPT !.items = items]
          /\ outcomes' = outcomes
      BY <1>0, <1>4 DEF SignalCb, ChannelCanSend, ChannelTaker, ChannelSend
    <2>2. /\ chan'[k].items = items /\ chan'[k].waiting = <<>> /\ chan'[k].sendOpen
          /\ outcomes'[k] = outcomes[k] /\ emitted'[k] = e + 1
      BY <1>0, <1>4, <2>1
    <2>3. n + Len(c.items) = e
      BY <1>0, <1>4 DEF Ranks
    <2>4. /\ Len(items) = Len(c.items) + 1 /\ Len(c.items) \in Nat
          /\ \A j \in 1..Len(c.items) : items[j] = c.items[j]
          /\ items[Len(c.items) + 1] = e + 1
      BY <1>0, AppendProperties, LenProperties
    <2>5. \A j \in 1..Len(items) : items[j] = n + j
      <3> SUFFICES ASSUME NEW j \in 1..Len(items) PROVE items[j] = n + j
        OBVIOUS
      <3>1. CASE j \in 1..Len(c.items)
        BY <1>0, <2>4, <3>1 DEF Ranks
      <3>2. CASE j = Len(c.items) + 1
        BY <1>0, <2>3, <2>4, <3>2
      <3>3. j \in 1..Len(c.items) \/ j = Len(c.items) + 1
        BY <2>4
      <3>4. QED
        BY <3>1, <3>2, <3>3
    <2>6. Ranks(k)'
      BY <1>0, <2>2, <2>3, <2>4, <2>5, EmptySeq DEF Ranks
    <2>7. QED
      BY <1>0, <1>1, <1>2, <2>1, <2>6 DEF FifoRest, Delivered
  <1>5. CASE IsChannel(k) /\ c.sendOpen /\ w # <<>>
    <2> DEFINE r == Head(w)
    <2>1. /\ Len(w) \in Nat \ {0} /\ r = w[1] /\ 1 \in 1..Len(w)
          /\ Tail(w) \in Seq(Nat \ {0}) /\ Len(Tail(w)) = Len(w) - 1
          /\ \A q \in 1..Len(Tail(w)) : Tail(w)[q] = w[q + 1]
      BY <1>0, <1>5, HeadTailProperties, LenProperties
    <2>2. r = e + 1
      BY <1>0, <2>1 DEF Ranks
    <2>3. r \in 1..n
      <3>1. \A p \in 1..Len(w) : w[p] \in 1..n
        BY DEF IInv, WaitingValid
      <3>2. QED
        BY <2>1, <3>1
    <2>4. /\ chan'[k] = [c EXCEPT !.waiting = Tail(w)]
          /\ outcomes'[k] = [outcomes[k] EXCEPT ![r] = Future("resolved", e + 1)]
      <3>1. ChannelTaker(c) = r /\ r # 0
        BY <1>5, <2>3 DEF ChannelTaker
      <3>2. QED
        BY <1>0, <1>5, <3>1 DEF SignalCb, ChannelCanSend, ChannelSend
    <2>5. /\ chan'[k].items = c.items /\ chan'[k].waiting = Tail(w) /\ chan'[k].sendOpen
          /\ emitted'[k] = e + 1
      BY <1>0, <1>5, <2>4
    <2>6. /\ Len(outcomes'[k]) = n
          /\ outcomes'[k][r] = Future("resolved", e + 1)
          /\ \A i \in 1..n \ {r} : outcomes'[k][i] = outcomes[k][i]
      BY <1>0, <2>3, <2>4, LenProperties
    <2>7. \A q \in 1..Len(Tail(w)) : Tail(w)[q] = (e + 1) + q
      BY <1>0, <2>1 DEF Ranks
    <2>8. Ranks(k)'
      BY <1>0, <2>1, <2>5, <2>6, <2>7 DEF Ranks
    <2>9. Delivered(k)'
      <3> SUFFICES ASSUME NEW i \in 1..n, outcomes'[k][i].status = "resolved"
                   PROVE  outcomes'[k][i].value = i
        BY <2>6 DEF Delivered
      <3>1. CASE i = r
        BY <2>2, <2>6, <3>1 DEF Future
      <3>2. CASE i # r
        BY <1>0, <2>6, <3>2 DEF Delivered
      <3>3. QED
        BY <3>1, <3>2
    <2>10. QED
      BY <1>0, <1>1, <1>2, <2>8, <2>9 DEF FifoRest
  <1>6. QED
    BY <1>3, <1>4, <1>5
(* A next_<signal> call is number n + 1: it takes the item of that rank,  *)
(* or waits as the receive the emission of that rank will be handed to,   *)
(* or is rejected.                                                        *)
LEMMA FifoNextStep ==
  ASSUME IInv, FifoRest, NEW k \in Kinds, NextSignal(k)
  PROVE  FifoRest'
  <1> DEFINE c == chan[k]
             n == Len(outcomes[k])
             e == emitted[k]
  <1>0. /\ ChanOK(c) /\ outcomes[k] \in Seq(Outcomes) /\ n \in Nat /\ e \in Nat
        /\ c.waiting \in Seq(Nat \ {0}) /\ c.items \in Seq(Nat)
        /\ DOMAIN chan = Kinds /\ outcomes \in [Kinds -> Seq(Outcomes)]
        /\ Ranks(k) /\ Delivered(k)
    BY LenProperties DEF IInv, TypeOK, ChanOK, NullChannels, FifoRest
  <1>1. /\ UNCHANGED <<monitorPc, emitted>>
        /\ \A j \in Kinds \ {k} : chan'[j] = chan[j] /\ outcomes'[j] = outcomes[j]
    BY <1>0 DEF NextSignal
  <1>2. \A j \in Kinds \ {k} : Ranks(j)' /\ Delivered(j)'
    <2> SUFFICES ASSUME NEW j \in Kinds \ {k} PROVE Ranks(j)' /\ Delivered(j)'
      OBVIOUS
    <2>1. Ranks(j) /\ Delivered(j)
      BY DEF FifoRest
    <2>2. QED
      BY <1>1, <2>1 DEF Ranks, Delivered
  (* Appending a future f keeps Delivered(k) when f resolves with n + 1.   *)
  <1>3. ASSUME NEW f \in Outcomes, outcomes'[k] = Append(outcomes[k], f),
               f.status = "resolved" => f.value = n + 1
        PROVE  Delivered(k)' /\ Len(outcomes'[k]) = n + 1
    <2>1. /\ Len(outcomes'[k]) = n + 1
          /\ \A i \in 1..n : outcomes'[k][i] = outcomes[k][i]
          /\ outcomes'[k][n + 1] = f
      BY <1>0, <1>3, AppendProperties
    <2>2. QED
      BY <1>0, <1>3, <2>1 DEF Delivered
  <1>4. IsChannel(k) =>
          /\ chan'[k] = ChannelReceive(c, n + 1)
          /\ outcomes'[k] = Append(outcomes[k], ChannelReceived(c))
    BY <1>0 DEF NextSignal
  <1>5. CASE IsChannel(k) /\ c.items # <<>>
    <2> DEFINE f == Future("resolved", Head(c.items))
    <2>1. /\ chan'[k] = [c EXCEPT !.items = Tail(c.items)]
          /\ outcomes'[k] = Append(outcomes[k], f)
      BY <1>5, <1>4 DEF ChannelReceive, ChannelReceived
    <2>2. /\ Len(c.items) \in Nat \ {0} /\ Head(c.items) = c.items[1]
          /\ Len(Tail(c.items)) = Len(c.items) - 1
          /\ \A j \in 1..Len(Tail(c.items)) : Tail(c.items)[j] = c.items[j + 1]
      BY <1>0, <1>5, HeadTailProperties, LenProperties
    <2>3. f \in Outcomes /\ f.value = n + 1
      BY <1>0, <2>2 DEF Ranks, Future, Outcomes
    <2>4. Delivered(k)' /\ Len(outcomes'[k]) = n + 1
      BY <1>3, <2>1, <2>3
    <2>5. /\ chan'[k].items = Tail(c.items) /\ chan'[k].waiting = c.waiting
          /\ chan'[k].sendOpen = c.sendOpen
      BY <1>0, <2>1
    <2>6. \A j \in 1..Len(Tail(c.items)) : Tail(c.items)[j] = (n + 1) + j
      <3> SUFFICES ASSUME NEW j \in 1..Len(Tail(c.items))
                   PROVE  Tail(c.items)[j] = (n + 1) + j
        OBVIOUS
      <3>1. j + 1 \in 1..Len(c.items) /\ Tail(c.items)[j] = c.items[j + 1]
        BY <2>2
      <3>2. c.items[j + 1] = n + (j + 1)
        BY <1>0, <3>1 DEF Ranks
      <3>3. QED
        BY <1>0, <3>1, <3>2
    <2>7. Ranks(k)'
      <3>1. emitted'[k] = e
        BY <1>1
      <3>2. ASSUME c.sendOpen PROVE (n + 1) + Len(Tail(c.items)) = e + Len(c.waiting)
        <4>1. n + Len(c.items) = e + Len(c.waiting)
          BY <1>0, <3>2 DEF Ranks
        <4>2. /\ Len(c.waiting) \in Nat /\ Len(Tail(c.items)) \in Nat
              /\ Len(Tail(c.items)) + 1 = Len(c.items)
          BY <1>0, <2>2, LenProperties
        <4>3. PICK nn, ll, tt, ww \in Nat :
                /\ nn = n /\ ll = Len(c.items)
                /\ tt = Len(Tail(c.items)) /\ ww = Len(c.waiting)
          BY <1>0, <4>2, LenProperties
        <4>4. PICK ee \in Nat : ee = e
          BY <1>0
        <4>5. nn + ll = ee + ww /\ tt + 1 = ll
          BY <4>1, <4>2, <4>3, <4>4
        <4>7. (nn + 1) + tt = ee + ww
          BY <4>5
        <4>6. QED
          BY <4>3, <4>4, <4>7
      <3>3. ~c.sendOpen => c.waiting = <<>>
        BY <1>0 DEF Ranks
      <3>4. \A p \in 1..Len(c.waiting) : c.waiting[p] = e + p
        BY <1>0 DEF Ranks
      <3>5. QED
        BY <2>4, <2>5, <2>6, <3>1, <3>2, <3>3, <3>4 DEF Ranks
    <2>8. QED
      BY <1>1, <1>2, <2>4, <2>7 DEF FifoRest
  <1>6. CASE IsChannel(k) /\ c.items = <<>> /\ c.sendOpen
    <2> DEFINE f == Future("pending", 0)
              ws == Append(c.waiting, n + 1)
    <2>1. /\ chan'[k] = [c EXCEPT !.waiting = ws]
          /\ outcomes'[k] = Append(outcomes[k], f)
      BY <1>6, <1>4 DEF ChannelReceive, ChannelReceived
    <2>2. f \in Outcomes /\ f.status = "pending"
      BY DEF Future, Outcomes
    <2>3. Delivered(k)' /\ Len(outcomes'[k]) = n + 1
      BY <1>3, <2>1, <2>2
    <2>4. /\ chan'[k].items = <<>> /\ chan'[k].waiting = ws /\ chan'[k].sendOpen
      BY <1>0, <1>6, <2>1
    <2>5. n = e + Len(c.waiting) /\ Len(c.waiting) \in Nat
      BY <1>0, <1>6, EmptySeq, LenProperties DEF Ranks
    <2>6. /\ Len(ws) = Len(c.waiting) + 1
          /\ \A p \in 1..Len(c.waiting) : ws[p] = c.waiting[p]
          /\ ws[Len(c.waiting) + 1] = n + 1
      BY <1>0, AppendProperties
    <2>7. \A p \in 1..Len(ws) : ws[p] = e + p
      <3> SUFFICES ASSUME NEW p \in 1..Len(ws) PROVE ws[p] = e + p
        OBVIOUS
      <3>1. CASE p \in 1..Len(c.waiting)
        BY <1>0, <2>6, <3>1 DEF Ranks
      <3>2. CASE p = Len(c.waiting) + 1
        BY <1>0, <2>5, <2>6, <3>2
      <3>3. p \in 1..Len(c.waiting) \/ p = Len(c.waiting) + 1
        BY <2>5, <2>6
      <3>4. QED
        BY <3>1, <3>2, <3>3
    <2>8. Ranks(k)'
      <3>1. emitted'[k] = e /\ Len(outcomes'[k]) = n + 1
        BY <1>1, <2>3
      <3>2. Len(ws) + e = n + 1
        BY <1>0, <2>5, <2>6
      <3>3. QED
        BY <2>4, <2>7, <3>1, <3>2, EmptySeq DEF Ranks
    <2>9. QED
      BY <1>1, <1>2, <2>3, <2>8 DEF FifoRest
  <1>7. CASE IsChannel(k) /\ c.items = <<>> /\ ~c.sendOpen
    <2>1. chan'[k] = c /\ outcomes'[k] = Append(outcomes[k], Future("closed", 0))
      BY <1>7, <1>4 DEF ChannelReceive, ChannelReceived
    <2>2. Future("closed", 0) \in Outcomes /\ Future("closed", 0).status # "resolved"
      BY DEF Future, Outcomes
    <2>3. Delivered(k)'
      BY <1>3, <2>1, <2>2
    <2>4. /\ chan'[k].items = <<>> /\ chan'[k].waiting = <<>> /\ ~chan'[k].sendOpen
          /\ emitted'[k] = e
      BY <1>0, <1>1, <1>7, <2>1 DEF Ranks
    <2>6. Ranks(k)'
      <3>1. \A j \in 1..Len(chan'[k].items) : chan'[k].items[j] = Len(outcomes'[k]) + j
        BY <2>4, EmptySeq
      <3>2. \A p \in 1..Len(chan'[k].waiting) : chan'[k].waiting[p] = emitted'[k] + p
        BY <2>4, EmptySeq
      <3>3. QED
        BY <2>4, <3>1, <3>2 DEF Ranks
    <2>5. QED
      BY <1>1, <1>2, <2>3, <2>6 DEF FifoRest
  <1>8. CASE ~IsChannel(k)
    <2>1. chan'[k] = c /\ outcomes'[k] = Append(outcomes[k], Future("cancelled", 0))
      BY <1>0, <1>8 DEF NextSignal
    <2>2. Future("cancelled", 0) \in Outcomes /\ Future("cancelled", 0).status # "resolved"
      BY DEF Future, Outcomes
    <2>3. Delivered(k)'
      BY <1>3, <2>1, <2>2
    <2>4. c = NoChannel
      BY <1>8 DEF IInv, NullChannels
    <2>5. Ranks(k)'
      BY <1>1, <2>1, <2>4, EmptySeq DEF Ranks, NoChannel
    <2>6. QED
      BY <1>1, <1>2, <2>3, <2>5 DEF FifoRest
  <1>9. QED
    BY <1>5, <1>6, <1>7, <1>8
(* monitor_new starts every channel empty, with nothing emitted or asked. *)
LEMMA FifoNewStep ==
  ASSUME IInv, FifoRest, NEW S \in SUBSET Kinds, MonitorNew(S)
  PROVE  FifoRest'
  <1>1. \A k \in Kinds : outcomes'[k] = <<>> /\ emitted'[k] = 0
    BY DEF IInv, Lifecycle, MonitorNew, FifoRest
  <1>2. \A k \in Kinds : chan'[k].items = <<>> /\ chan'[k].waiting = <<>>
    BY DEF MonitorNew, ChannelNew, NoChannel
  <1>3. monitorPc' = "active"
    BY DEF MonitorNew
  <1>4. ASSUME NEW k \in Kinds PROVE Ranks(k)' /\ Delivered(k)'
    <2>1. Len(outcomes'[k]) = 0 /\ Len(chan'[k].items) = 0 /\ Len(chan'[k].waiting) = 0
          /\ emitted'[k] = 0 /\ chan'[k].waiting = <<>>
      BY <1>1, <1>2, EmptySeq
    <2>2. QED
      BY <2>1 DEF Ranks, Delivered
  <1>5. QED
    BY <1>3, <1>4 DEF FifoRest

(* What RejectWaiting leaves in each slot: the future that was there, or  *)
(* end-of-stream.                                                         *)
LEMMA RejectWaitingSlots ==
  ASSUME TypeOK, NEW k \in Kinds
  PROVE  /\ Len(RejectWaiting(outcomes, chan)[k]) = Len(outcomes[k])
         /\ \A i \in 1..Len(outcomes[k]) :
              \/ RejectWaiting(outcomes, chan)[k][i] = outcomes[k][i]
              \/ RejectWaiting(outcomes, chan)[k][i].status = "closed"
  <1>1. outcomes[k] \in Seq(Outcomes)
    BY DEF TypeOK
  <1>2. DOMAIN outcomes[k] = 1..Len(outcomes[k]) /\ Len(outcomes[k]) \in Nat
    BY <1>1, LenProperties
  <1>3. RejectWaiting(outcomes, chan)[k] \in [1..Len(outcomes[k]) -> Outcomes]
    BY <1>1, <1>2, LenProperties DEF RejectWaiting, Outcomes, Future
  <1>4. Len(RejectWaiting(outcomes, chan)[k]) = Len(outcomes[k])
    BY <1>2, <1>3, IsASeq, LenProperties
  <1>5. QED
    BY <1>2, <1>4 DEF RejectWaiting, Future

(* cancel and finalize: every channel ends closed with nobody waiting and *)
(* its queued items kept or dropped, and every future stays as it was or  *)
(* becomes end-of-stream, so no rank changes.                              *)
LEMMA FifoTeardownStep ==
  ASSUME IInv, FifoRest, MonitorCancel \/ MonitorFinalize
  PROVE  FifoRest'
  <1>1. /\ monitorPc' # "none" /\ emitted' = emitted
        /\ outcomes' = RejectWaiting(outcomes, chan)
    BY DEF MonitorCancel, MonitorFinalize, CloseAll
  <1>2. ASSUME NEW k \in Kinds
        PROVE  /\ chan'[k].waiting = <<>> /\ ~chan'[k].sendOpen
               /\ chan'[k].items \in {chan[k].items, <<>>}
    <2>1. CASE MonitorFinalize
      BY <2>1 DEF MonitorFinalize, NoChannel
    <2>2. CASE MonitorCancel /\ IsChannel(k)
      <3>1. chan'[k] = ChannelCloseSend(chan[k])
        BY <2>2 DEF MonitorCancel
      <3>2. QED
        BY <3>1 DEF ChannelCloseSend
    <2>3. CASE MonitorCancel /\ ~IsChannel(k)
      <3>1. chan'[k] = chan[k] /\ chan[k] = NoChannel
        BY <2>3 DEF MonitorCancel, IInv, NullChannels
      <3>2. QED
        BY <3>1 DEF NoChannel
    <2>4. QED
      BY <2>1, <2>2, <2>3
  <1>3. ASSUME NEW k \in Kinds PROVE Ranks(k)' /\ Delivered(k)'
    <2>1. /\ Len(outcomes'[k]) = Len(outcomes[k])
          /\ \A i \in 1..Len(outcomes[k]) :
               outcomes'[k][i] = outcomes[k][i] \/ outcomes'[k][i].status = "closed"
      BY <1>1, RejectWaitingSlots DEF IInv
    <2>2. Ranks(k) /\ Delivered(k)
      BY DEF FifoRest
    <2>3. Ranks(k)'
      <3>1. \A j \in 1..Len(chan'[k].items) : chan'[k].items[j] = Len(outcomes'[k]) + j
        <4>1. CASE chan'[k].items = <<>>
          BY <4>1, EmptySeq
        <4>2. CASE chan'[k].items = chan[k].items
          BY <2>1, <2>2, <4>2 DEF Ranks
        <4>3. QED
          BY <1>2, <4>1, <4>2
      <3>2. \A p \in 1..Len(chan'[k].waiting) : chan'[k].waiting[p] = emitted'[k] + p
        BY <1>2, EmptySeq
      <3>3. QED
        BY <1>2, <3>1, <3>2, Zenon DEF Ranks
    <2>4. Delivered(k)'
      BY <2>1, <2>2 DEF Delivered
    <2>5. QED
      BY <2>3, <2>4
  <1>4. QED
    BY <1>1, <1>3 DEF FifoRest
-----------------------------------------------------------------------------
LEMMA InitFifo == Init => FifoInv
  <1> SUFFICES ASSUME Init PROVE FifoInv
    OBVIOUS
  <1>1. IInv
    BY InitIInv
  <1>2. ASSUME NEW k \in Kinds PROVE Ranks(k) /\ Delivered(k)
    <2>1. /\ Len(outcomes[k]) = 0 /\ Len(chan[k].items) = 0 /\ Len(chan[k].waiting) = 0
          /\ emitted[k] = 0 /\ chan[k].waiting = <<>>
      BY EmptySeq DEF Init, NoChannel
    <2>2. QED
      BY <2>1 DEF Ranks, Delivered
  <1>3. QED
    BY <1>1, <1>2 DEF Init, FifoInv, FifoRest

LEMMA FifoStep == FifoInv /\ [Next]_vars => FifoInv'
  <1> SUFFICES ASSUME FifoInv, [Next]_vars PROVE FifoInv'
    OBVIOUS
  <1>0. IInv /\ FifoRest /\ IInv'
    BY IInvStep DEF FifoInv
  <1>1. CASE \E S \in SUBSET Kinds : MonitorNew(S)
    BY <1>0, <1>1, FifoNewStep DEF FifoInv
  <1>2. CASE \E k \in Kinds : SignalCb(k)
    BY <1>0, <1>2, FifoCbStep DEF FifoInv
  <1>3. CASE \E k \in Kinds : NextSignal(k)
    BY <1>0, <1>3, FifoNextStep DEF FifoInv
  <1>4. CASE MonitorCancel \/ MonitorFinalize
    BY <1>0, <1>4, FifoTeardownStep DEF FifoInv
  <1>5. CASE UNCHANGED vars
    BY <1>0, <1>5 DEF vars, FifoInv, FifoRest, Ranks, Delivered
  <1>6. QED
    BY <1>1, <1>2, <1>3, <1>4, <1>5 DEF Next

(* For every number of signals and every bound on emissions and next      *)
(* calls, the i-th next_<signal> call that yields a record yields the      *)
(* i-th emission of that signal: the generated handler sends each         *)
(* emission on the signal's own channel and next_<signal> receives from   *)
(* it, whatever the interleaving with cancel and finalize.                *)
THEOREM FifoDeliveryHolds == Spec => []FifoDelivery
  <1>1. FifoInv => FifoDelivery
    BY DeliveredIsFifo DEF FifoInv, FifoRest, IInv
  <1>2. QED
    BY <1>1, InitFifo, FifoStep, PTL DEF Spec
=============================================================================
