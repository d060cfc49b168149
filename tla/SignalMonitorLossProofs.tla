----------------------- MODULE SignalMonitorLossProofs -----------------------
(***************************************************************************)
(* The proof that the monitor loses no record before finalize,            *)
(* NoRecordLost.  On top of FifoInv it counts what each signal's handler  *)
(* and next_<signal> calls have done, with n the number of next_<signal>  *)
(* calls and e the emissions that reached the handler:                     *)
(*   - a handler is connected only to an open channel, so no emission is  *)
(*     dropped;                                                           *)
(*   - the resolved futures are exactly calls 1 .. e: a call up to e got   *)
(*     a record, one past it is pending, end-of-stream or cancelled;      *)
(*   - until finalize, n + queued items >= e, with equality while items   *)
(*     are queued: what was emitted and not taken is still queued.        *)
(***************************************************************************)
EXTENDS SignalMonitorFifoProofs

(* A connected handler sends on an open channel.                          *)
HandlerOpen(k) == handler[k] => chan[k].sendOpen

(* The resolved next_<signal> futures of signal k are calls 1 .. e.       *)
ResolvedPrefix(k) ==
  \A i \in 1..Len(outcomes[k]) :
    outcomes[k][i].status = "resolved" <=> i <= emitted[k]

(* Until finalize, what was emitted and not taken is queued.              *)
Balance(k) ==
  monitorPc \in {"active", "cancelled"} =>
    /\ Len(outcomes[k]) + Len(chan[k].items) >= emitted[k]
    /\ chan[k].items # <<>> =>
         Len(outcomes[k]) + Len(chan[k].items) = emitted[k]

Kept(k) == HandlerOpen(k) /\ ResolvedPrefix(k) /\ Balance(k)

LossInv == FifoInv /\ \A k \in Kinds : Kept(k)

-----------------------------------------------------------------------------
(* The resolved futures and the queue together hold emissions 1 .. e.     *)
LEMMA KeptNoLoss ==
  ASSUME FifoInv, NEW k \in Kinds, Kept(k), monitorPc \in {"active", "cancelled"}
  PROVE  {outcomes[k][i].value : i \in {j \in DOMAIN outcomes[k] :
                                          outcomes[k][j].status = "resolved"}}
           \cup {chan[k].items[j] : j \in DOMAIN chan[k].items}
         = 1..emitted[k]
  <1> DEFINE o == outcomes[k]
             its == chan[k].items
  <1>0. /\ o \in Seq(Outcomes) /\ its \in Seq(Nat) /\ emitted[k] \in Nat
        /\ Ranks(k) /\ Delivered(k)
    BY DEF FifoInv, FifoRest, IInv, TypeOK, ChanOK
  <1>1. PICK n, L, e \in Nat : n = Len(o) /\ L = Len(its) /\ e = emitted[k]
    BY <1>0, LenProperties
  <1>2. DOMAIN o = 1..n /\ DOMAIN its = 1..L
    BY <1>0, <1>1, LenProperties
  <1>3. \A i \in 1..n : o[i].status = "resolved" <=> i <= e
    BY <1>1 DEF Kept, ResolvedPrefix
  <1>4. \A i \in 1..n : o[i].status = "resolved" => o[i].value = i
    BY <1>0, <1>1 DEF Delivered
  <1>5. \A j \in 1..L : its[j] = n + j
    BY <1>0, <1>1 DEF Ranks
  <1>6. n + L >= e /\ (L > 0 => n + L = e)
    <2>1. its # <<>> <=> L > 0
      BY <1>0, <1>1, EmptySeq, LenProperties
    <2>2. QED
      BY <1>1, <2>1 DEF Kept, Balance
  <1>7. {o[i].value : i \in {j \in DOMAIN o : o[j].status = "resolved"}}
          = {i \in 1..n : i <= e}
    BY <1>2, <1>3, <1>4
  <1>8. {its[j] : j \in DOMAIN its} = {n + j : j \in 1..L}
    BY <1>2, <1>5
  <1>9. {i \in 1..n : i <= e} \cup {n + j : j \in 1..L} = 1..e
    <2>1. ASSUME NEW x \in 1..e PROVE x \in {i \in 1..n : i <= e} \cup {n + j : j \in 1..L}
      <3>1. CASE x <= n
        BY <2>1, <3>1
      <3>2. CASE x > n
        <4>1. x - n \in 1..L /\ x = n + (x - n)
          BY <1>6, <2>1, <3>2
        <4>2. QED
          BY <4>1
      <3>3. QED
        BY <3>1, <3>2
    <2>2. ASSUME NEW j \in 1..L PROVE n + j \in 1..e
      BY <1>6, <2>2
    <2>3. QED
      BY <2>1, <2>2
  <1>10. QED
    BY <1>1, <1>7, <1>8, <1>9

(* An emission reaches an open channel: it is handed to the oldest waiting *)
(* receive, call e + 1, or queued when nobody waits.                      *)
LEMMA KeptCbStep ==
  ASSUME FifoInv, \A j \in Kinds : Kept(j), NEW k \in Kinds, SignalCb(k)
  PROVE  \A j \in Kinds : Kept(j)'
  <1> DEFINE c == chan[k]
             w == c.waiting
  <1>0. /\ ChanOK(c) /\ outcomes[k] \in Seq(Outcomes)
        /\ Ranks(k) /\ Kept(k) /\ handler[k]
        /\ DOMAIN chan = Kinds /\ emitted \in [Kinds -> Nat]
        /\ outcomes \in [Kinds -> Seq(Outcomes)]
    BY DEF SignalCb, FifoInv, IInv, TypeOK, NullChannels, FifoRest
  <1>1. monitorPc = "active" /\ c.sendOpen /\ IsChannel(k)
    <2>1. monitorPc = "active"
      <3>1. Lifecycle /\ TypeOK
        BY DEF FifoInv, IInv
      <3>2. QED
        BY <1>0, <3>1 DEF Lifecycle, TypeOK
    <2>2. c.sendOpen
      BY <1>0 DEF Kept, HandlerOpen
    <2>3. IsChannel(k)
      <3>1. ~IsChannel(k) => c = NoChannel
        BY DEF FifoInv, IInv, NullChannels
      <3>2. QED
        BY <2>2, <3>1 DEF NoChannel
    <2>4. QED
      BY <2>1, <2>2, <2>3
  <1>2. /\ UNCHANGED <<monitorPc, handler>>
        /\ emitted'[k] = emitted[k] + 1
        /\ \A j \in Kinds \ {k} :
             chan'[j] = chan[j] /\ outcomes'[j] = outcomes[j] /\ emitted'[j] = emitted[j]
    BY <1>0 DEF SignalCb
  <1>3. \A j \in Kinds \ {k} : Kept(j)'
    <2> SUFFICES ASSUME NEW j \in Kinds \ {k} PROVE Kept(j)'
      OBVIOUS
    <2>1. Kept(j)
      OBVIOUS
    <2>2. QED
      BY <1>2, <2>1 DEF Kept, HandlerOpen, ResolvedPrefix, Balance
  <1>4. PICK n, L, W, e \in Nat :
          /\ n = Len(outcomes[k]) /\ L = Len(c.items) /\ W = Len(w)
          /\ e = emitted[k]
    BY <1>0, LenProperties DEF ChanOK
  <1>5. /\ n + L = e + W
        /\ n + L >= e /\ (L > 0 => n + L = e)
        /\ \A i \in 1..n : outcomes[k][i].status = "resolved" <=> i <= e
    <2>1. c.items # <<>> <=> L > 0
      BY <1>0, <1>4, EmptySeq, LenProperties DEF ChanOK
    <2>2. n + L = e + W
      BY <1>0, <1>1, <1>4 DEF Ranks
    <2>3. n + L >= e /\ (c.items # <<>> => n + L = e)
      BY <1>0, <1>1, <1>4 DEF Kept, Balance
    <2>4. \A i \in 1..n : outcomes[k][i].status = "resolved" <=> i <= e
      BY <1>0, <1>4 DEF Kept, ResolvedPrefix
    <2>5. QED
      BY <2>1, <2>2, <2>3, <2>4
  <1>6. CASE w = <<>>
    <2>1. /\ chan'[k] = [c EXCEPT !.items = Append(c.items, emitted'[k])]
          /\ outcomes' = outcomes
      BY <1>0, <1>1, <1>2, <1>6 DEF SignalCb, ChannelCanSend, ChannelTaker, ChannelSend
    <2>2. /\ Len(chan'[k].items) = L + 1 /\ chan'[k].items # <<>>
          /\ chan'[k].sendOpen
      <3>1. chan'[k].items = Append(c.items, emitted'[k]) /\ chan'[k].sendOpen
        BY <1>0, <1>1, <2>1
      <3>2. c.items \in Seq(Nat) /\ emitted'[k] \in Nat
        BY <1>0, <1>2 DEF ChanOK
      <3>3. Len(Append(c.items, emitted'[k])) = L + 1
        BY <1>4, <3>2, AppendProperties
      <3>4. QED
        BY <3>1, <3>3, EmptySeq, <3>2, AppendProperties
    <2>3. W = 0
      <3>1. w \in Seq(Nat \ {0})
        BY <1>0 DEF ChanOK
      <3>2. QED
        BY <1>4, <1>6, <3>1, EmptySeq
    <2>4. n + (L + 1) = e + 1 /\ \A i \in 1..n : (i <= e <=> i <= e + 1)
      BY <1>5, <2>3
    <2>5. HandlerOpen(k)'
      BY <2>2 DEF HandlerOpen
    <2>6. ResolvedPrefix(k)'
      <3>1. outcomes'[k] = outcomes[k] /\ emitted'[k] = e + 1
        BY <1>2, <1>4, <2>1
      <3>2. QED
        BY <1>4, <1>5, <2>4, <3>1 DEF ResolvedPrefix
    <2>7. Balance(k)'
      <3>1. Len(outcomes'[k]) = n /\ Len(chan'[k].items) = L + 1 /\ emitted'[k] = e + 1
        BY <1>2, <1>4, <2>1, <2>2
      <3>2. n + (L + 1) >= e + 1
        BY <2>4
      <3>3. QED
        BY <3>1, <2>2, <2>4, <3>2 DEF Balance
    <2>8. Kept(k)'
      BY <2>5, <2>6, <2>7 DEF Kept
    <2>9. QED
      BY <1>3, <2>8
  <1>7. CASE w # <<>>
    <2> DEFINE r == Head(w)
    <2>1. r = e + 1 /\ W > 0
      BY <1>0, <1>4, <1>7, EmptySeq, LenProperties DEF Ranks, ChanOK
    <2>2. L = 0 /\ c.items = <<>> /\ r \in 1..n
      <3>1. L = 0
        BY <1>5, <2>1
      <3>2. c.items = <<>>
        BY <1>0, <1>4, <3>1, EmptySeq DEF ChanOK
      <3>3. \A p \in 1..Len(w) : w[p] \in 1..Len(outcomes[k])
        BY DEF FifoInv, IInv, WaitingValid
      <3>4. r = w[1] /\ 1 \in 1..Len(w)
        BY <1>0, <1>4, <2>1, HeadTailProperties DEF ChanOK
      <3>5. QED
        BY <1>4, <3>1, <3>2, <3>3, <3>4
    <2>3. /\ chan'[k] = [c EXCEPT !.waiting = Tail(w)]
          /\ outcomes'[k] = [outcomes[k] EXCEPT ![r] = Future("resolved", emitted'[k])]
      <3>1. ChannelTaker(c) = r /\ r # 0
        BY <1>1, <1>7, <2>2 DEF ChannelTaker
      <3>2. QED
        BY <1>0, <1>1, <1>2, <1>7, <3>1 DEF SignalCb, ChannelCanSend, ChannelSend
    <2>4. /\ chan'[k].items = <<>> /\ chan'[k].sendOpen
          /\ Len(outcomes'[k]) = n
          /\ outcomes'[k][r].status = "resolved"
          /\ \A i \in 1..n \ {r} : outcomes'[k][i] = outcomes[k][i]
      BY <1>0, <1>1, <1>4, <2>2, <2>3, LenProperties DEF Future
    <2>5. /\ n >= e + 1
          /\ \A i \in 1..n \ {r} : (i <= e <=> i <= e + 1)
      BY <1>5, <2>1, <2>2
    <2>6. ResolvedPrefix(k)'
      <3> SUFFICES ASSUME NEW i \in 1..n
                   PROVE  outcomes'[k][i].status = "resolved" <=> i <= emitted'[k]
        BY <1>4, <2>4 DEF ResolvedPrefix
      <3>1. CASE i = r
        BY <1>2, <1>4, <2>1, <2>4, <3>1
      <3>2. CASE i # r
        BY <1>2, <1>4, <1>5, <2>4, <2>5, <3>2
      <3>3. QED
        BY <3>1, <3>2
    <2>7. Balance(k)'
      BY <1>2, <1>4, <2>4, <2>5, EmptySeq DEF Balance
    <2>8. QED
      BY <1>2, <1>3, <2>4, <2>6, <2>7 DEF Kept, HandlerOpen
  <1>8. QED
    BY <1>6, <1>7

(* A next_<signal> call is number n + 1: it takes a queued record, the    *)
(* emission of rank n + 1 <= e, or gets a pending, end-of-stream or       *)
(* cancelled future when nothing is queued, and then n >= e.              *)
LEMMA KeptNextStep ==
  ASSUME FifoInv, \A j \in Kinds : Kept(j), NEW k \in Kinds, NextSignal(k)
  PROVE  \A j \in Kinds : Kept(j)'
  <1> DEFINE c == chan[k]
  <1>0. /\ ChanOK(c) /\ outcomes[k] \in Seq(Outcomes)
        /\ Ranks(k) /\ Kept(k)
        /\ DOMAIN chan = Kinds /\ emitted \in [Kinds -> Nat]
        /\ outcomes \in [Kinds -> Seq(Outcomes)]
        /\ monitorPc \in {"active", "cancelled"}
    BY DEF NextSignal, FifoInv, IInv, TypeOK, NullChannels, FifoRest
  <1>1. /\ UNCHANGED <<monitorPc, handler, emitted>>
        /\ \A j \in Kinds \ {k} : chan'[j] = chan[j] /\ outcomes'[j] = outcomes[j]
    BY <1>0 DEF NextSignal
  <1>2. \A j \in Kinds \ {k} : Kept(j)'
    <2> SUFFICES ASSUME NEW j \in Kinds \ {k} PROVE Kept(j)'
      OBVIOUS
    <2>1. Kept(j)
      OBVIOUS
    <2>2. QED
      BY <1>1, <2>1 DEF Kept, HandlerOpen, ResolvedPrefix, Balance
  <1>3. PICK n, L, e \in Nat :
          /\ n = Len(outcomes[k]) /\ L = Len(c.items) /\ e = emitted[k]
    BY <1>0, LenProperties DEF ChanOK
  <1>4. /\ n + L >= e /\ (L > 0 => n + L = e)
        /\ \A i \in 1..n : outcomes[k][i].status = "resolved" <=> i <= e
        /\ (c.items # <<>> <=> L > 0)
    <2>1. c.items # <<>> <=> L > 0
      BY <1>0, <1>3, EmptySeq, LenProperties DEF ChanOK
    <2>2. n + L >= e /\ (c.items # <<>> => n + L = e)
      BY <1>0, <1>3 DEF Kept, Balance
    <2>3. \A i \in 1..n : outcomes[k][i].status = "resolved" <=> i <= e
      BY <1>0, <1>3 DEF Kept, ResolvedPrefix
    <2>4. QED
      BY <2>1, <2>2, <2>3
  (* The call appends a future f; the queue shrinks by what it took.      *)
  <1>5. ASSUME NEW f \in Outcomes, NEW L2 \in Nat,
               outcomes'[k] = Append(outcomes[k], f),
               Len(chan'[k].items) = L2,
               chan'[k].sendOpen = c.sendOpen,
               f.status = "resolved" <=> n + 1 <= e,
               n + 1 + L2 >= e,
               chan'[k].items # <<>> => n + 1 + L2 = e
        PROVE  Kept(k)'
    <2>1. /\ Len(outcomes'[k]) = n + 1
          /\ \A i \in 1..n : outcomes'[k][i] = outcomes[k][i]
          /\ outcomes'[k][n + 1] = f
      BY <1>0, <1>3, <1>5, AppendProperties
    <2>2. HandlerOpen(k)'
      BY <1>0, <1>1, <1>5 DEF Kept, HandlerOpen
    <2>3. ResolvedPrefix(k)'
      <3> SUFFICES ASSUME NEW i \in 1..n + 1
                   PROVE  outcomes'[k][i].status = "resolved" <=> i <= emitted'[k]
        BY <2>1 DEF ResolvedPrefix
      <3>1. emitted'[k] = e
        BY <1>1, <1>3
      <3>2. CASE i \in 1..n
        BY <1>4, <2>1, <3>1, <3>2
      <3>3. CASE i = n + 1
        BY <1>5, <2>1, <3>1, <3>3
      <3>4. QED
        BY <3>2, <3>3
    <2>4. Balance(k)'
      BY <1>1, <1>3, <1>5, <2>1 DEF Balance
    <2>5. QED
      BY <2>2, <2>3, <2>4 DEF Kept
  <1>6. IsChannel(k) =>
          /\ chan'[k] = ChannelReceive(c, n + 1)
          /\ outcomes'[k] = Append(outcomes[k], ChannelReceived(c))
    BY <1>0, <1>3 DEF NextSignal
  <1>7. CASE IsChannel(k) /\ c.items # <<>>
    <2> DEFINE f == Future("resolved", Head(c.items))
    <2>1. /\ chan'[k] = [c EXCEPT !.items = Tail(c.items)]
          /\ outcomes'[k] = Append(outcomes[k], f)
      BY <1>6, <1>7 DEF ChannelReceive, ChannelReceived
    <2>2. /\ Len(Tail(c.items)) = L - 1 /\ L > 0
          /\ chan'[k].items = Tail(c.items) /\ chan'[k].sendOpen = c.sendOpen
      BY <1>0, <1>3, <1>4, <1>7, <2>1, HeadTailProperties DEF ChanOK
    <2>3. f \in Outcomes /\ f.status = "resolved"
      BY <1>0, <1>7, HeadTailProperties DEF Future, Outcomes, ChanOK
    <2>4. n + 1 <= e /\ n + 1 + (L - 1) = e /\ L - 1 \in Nat
      BY <1>4, <2>2
    <2>5. Kept(k)'
      BY <1>5, <2>1, <2>2, <2>3, <2>4
    <2>6. QED
      BY <1>2, <2>5
  <1>8. CASE IsChannel(k) /\ c.items = <<>>
    <2> DEFINE f == IF c.sendOpen THEN Future("pending", 0) ELSE Future("closed", 0)
    <2>1. outcomes'[k] = Append(outcomes[k], f)
      BY <1>6, <1>8 DEF ChannelReceive, ChannelReceived
    <2>2. chan'[k].items = <<>> /\ chan'[k].sendOpen = c.sendOpen
      <3>1. CASE c.sendOpen
        <4>1. chan'[k] = [c EXCEPT !.waiting = Append(@, n + 1)]
          BY <1>6, <1>8, <3>1 DEF ChannelReceive
        <4>2. QED
          BY <1>8, <4>1
      <3>2. CASE ~c.sendOpen
        BY <1>6, <1>8, <3>2 DEF ChannelReceive
      <3>3. QED
        BY <3>1, <3>2
    <2>3. f \in Outcomes /\ f.status # "resolved"
      BY DEF Future, Outcomes
    <2>4. L = 0 /\ n >= e /\ ~(n + 1 <= e) /\ n + 1 + 0 >= e
      BY <1>4, <1>8
    <2>5. Kept(k)'
      BY <1>5, <2>1, <2>2, <2>3, <2>4, EmptySeq
    <2>6. QED
      BY <1>2, <2>5
  <1>9. CASE ~IsChannel(k)
    <2>1. c = NoChannel
      BY <1>9 DEF FifoInv, IInv, NullChannels
    <2>2. /\ chan'[k] = c
          /\ outcomes'[k] = Append(outcomes[k], Future("cancelled", 0))
      BY <1>0, <1>9 DEF NextSignal
    <2>3. Future("cancelled", 0) \in Outcomes /\ Future("cancelled", 0).status # "resolved"
      BY DEF Future, Outcomes
    <2>4. /\ chan'[k].items = <<>> /\ chan'[k].sendOpen = c.sendOpen /\ L = 0
      BY <1>3, <2>1, <2>2, EmptySeq DEF NoChannel
    <2>5. n >= e /\ ~(n + 1 <= e) /\ n + 1 + 0 >= e
      BY <1>4, <2>4
    <2>6. Kept(k)'
      BY <1>5, <2>2, <2>3, <2>4, <2>5, EmptySeq
    <2>7. QED
      BY <1>2, <2>6
  <1>10. QED
    BY <1>2, <1>7, <1>8, <1>9

(* cancel and finalize disconnect every handler and reject only waiting *)
(* receives, whose futures were pending: no resolved future changes, and *)
(* cancel keeps what each channel has queued.                            *)
LEMMA KeptTeardownStep ==
  ASSUME FifoInv, \A j \in Kinds : Kept(j), MonitorCancel \/ MonitorFinalize
  PROVE  \A j \in Kinds : Kept(j)'
  <1>1. /\ monitorPc' \in {"cancelled", "finalized"} /\ emitted' = emitted
        /\ outcomes' = RejectWaiting(outcomes, chan)
        /\ \A j \in Kinds : ~handler'[j]
    BY DEF MonitorCancel, MonitorFinalize, CloseAll
  <1> SUFFICES ASSUME NEW k \in Kinds PROVE Kept(k)'
    OBVIOUS
  <1>2. /\ ChanOK(chan[k]) /\ outcomes[k] \in Seq(Outcomes) /\ Kept(k)
        /\ emitted \in [Kinds -> Nat] /\ TypeOK /\ WaitingValid
    BY DEF FifoInv, IInv, TypeOK
  <1>3. PICK n, e \in Nat : n = Len(outcomes[k]) /\ e = emitted[k]
    BY <1>2, LenProperties
  <1>4. HandlerOpen(k)'
    BY <1>1 DEF HandlerOpen
  <1>5. Len(outcomes'[k]) = n
    BY <1>1, <1>2, <1>3, RejectWaitingSlots
  (* A resolved future is not a waiting receive, so it stays.            *)
  <1>6. ASSUME NEW i \in 1..n, outcomes[k][i].status = "resolved"
        PROVE  outcomes'[k][i] = outcomes[k][i]
    <2>1. DOMAIN chan[k].waiting = 1..Len(chan[k].waiting)
      BY <1>2 DEF ChanOK
    <2>2. ~\E p \in DOMAIN chan[k].waiting : chan[k].waiting[p] = i
      BY <1>2, <1>6, <2>1 DEF WaitingValid
    <2>3. DOMAIN outcomes[k] = 1..n
      BY <1>2, <1>3
    <2>4. QED
      BY <1>1, <2>2, <2>3 DEF RejectWaiting
  <1>7. ResolvedPrefix(k)'
    <2> SUFFICES ASSUME NEW i \in 1..n
                 PROVE  outcomes'[k][i].status = "resolved" <=> i <= emitted'[k]
      BY <1>5 DEF ResolvedPrefix
    <2>1. outcomes'[k][i] = outcomes[k][i] \/ outcomes'[k][i].status = "closed"
      BY <1>1, <1>2, <1>3, RejectWaitingSlots
    <2>2. outcomes[k][i].status = "resolved" <=> i <= e
      BY <1>2, <1>3 DEF Kept, ResolvedPrefix
    <2>3. outcomes'[k][i].status = "resolved" <=> outcomes[k][i].status = "resolved"
      BY <1>6, <2>1
    <2>4. QED
      BY <1>1, <1>3, <2>2, <2>3
  <1>8. Balance(k)'
    <2>1. CASE MonitorFinalize
      BY <2>1 DEF MonitorFinalize, Balance
    <2>2. CASE MonitorCancel
      <3>1. chan'[k].items = chan[k].items
        <4>1. CASE IsChannel(k)
          <5>1. chan'[k] = ChannelCloseSend(chan[k])
            BY <2>2, <4>1 DEF MonitorCancel
          <5>2. QED
            BY <5>1 DEF ChannelCloseSend
        <4>2. CASE ~IsChannel(k)
          BY <2>2, <4>2 DEF MonitorCancel
        <4>3. QED
          BY <4>1, <4>2
      <3>2. monitorPc \in {"active", "cancelled"}
        BY <2>2 DEF MonitorCancel
      <3>3. QED
        BY <1>1, <1>2, <1>3, <1>5, <3>1, <3>2 DEF Kept, Balance
    <2>3. QED
      BY <2>1, <2>2
  <1>9. QED
    BY <1>4, <1>7, <1>8 DEF Kept

(* monitor_new connects handlers exactly to the new, open channels, and  *)
(* before it nothing was emitted or asked for.                            *)
LEMMA KeptNewStep ==
  ASSUME FifoInv, NEW S \in SUBSET Kinds, MonitorNew(S)
  PROVE  \A j \in Kinds : Kept(j)'
  <1> SUFFICES ASSUME NEW k \in Kinds PROVE Kept(k)'
    OBVIOUS
  <1>1. outcomes'[k] = <<>> /\ emitted'[k] = 0 /\ chan'[k].items = <<>>
    BY DEF FifoInv, IInv, Lifecycle, FifoRest, MonitorNew, ChannelNew, NoChannel
  <1>2. HandlerOpen(k)'
    BY DEF MonitorNew, ChannelNew, HandlerOpen
  <1>3. Len(outcomes'[k]) = 0 /\ Len(chan'[k].items) = 0
    BY <1>1, EmptySeq
  <1>4. QED
    BY <1>1, <1>2, <1>3 DEF Kept, ResolvedPrefix, Balance

-----------------------------------------------------------------------------
LEMMA InitLoss == Init => LossInv
  <1> SUFFICES ASSUME Init PROVE LossInv
    OBVIOUS
  <1>1. FifoInv
    BY InitFifo
  <1>2. ASSUME NEW k \in Kinds PROVE Kept(k)
    <2>1. ~handler[k] /\ outcomes[k] = <<>> /\ monitorPc = "none"
      BY DEF Init
    <2>2. Len(outcomes[k]) = 0
      BY <2>1, EmptySeq
    <2>3. QED
      BY <2>1, <2>2 DEF Kept, HandlerOpen, ResolvedPrefix, Balance
  <1>3. QED
    BY <1>1, <1>2 DEF LossInv

LEMMA LossStep == LossInv /\ [Next]_vars => LossInv'
  <1> SUFFICES ASSUME LossInv, [Next]_vars PROVE LossInv'
    OBVIOUS
  <1>0. FifoInv /\ FifoInv' /\ \A j \in Kinds : Kept(j)
    BY FifoStep DEF LossInv
  <1>1. CASE \E S \in SUBSET Kinds : MonitorNew(S)
    BY <1>0, <1>1, KeptNewStep DEF LossInv
  <1>2. CASE \E k \in Kinds : SignalCb(k)
    BY <1>0, <1>2, KeptCbStep DEF LossInv
  <1>3. CASE \E k \in Kinds : NextSignal(k)
    BY <1>0, <1>3, KeptNextStep DEF LossInv
  <1>4. CASE MonitorCancel \/ MonitorFinalize
    BY <1>0, <1>4, KeptTeardownStep DEF LossInv
  <1>5. CASE UNCHANGED vars
    BY <1>0, <1>5 DEF vars, LossInv, Kept, HandlerOpen, ResolvedPrefix, Balance
  <1>6. QED
    BY <1>1, <1>2, <1>3, <1>4, <1>5 DEF Next

(* For every number of signals and every bound on emissions and next      *)
(* calls, until finalize every emission that reached a handler is either  *)
(* the value of a resolved next_<signal> future or still queued on the    *)
(* signal's channel: cancel closes the send side but keeps the queue, and *)
(* the handler never sends on a closed channel.                           *)
THEOREM NoRecordLostHolds == Spec => []NoRecordLost
  <1>1. LossInv => NoRecordLost
    BY KeptNoLoss DEF LossInv, NoRecordLost
  <1>2. QED
    BY <1>1, InitLoss, LossStep, PTL DEF Spec
=============================================================================
