------------------------------- MODULE Channel -------------------------------
(***************************************************************************)
(* The libdex DexChannel as the monitor uses it, modelled from the spec    *)
(* (section 3): a closeable FIFO.  A channel value is a record of the      *)
(* items sent and not yet received, in send order; the receive calls       *)
(* waiting for an item, in call order; and whether the send side is open.  *)
(* An item is never queued while a receiver waits, and the reverse.        *)
(* Capacity decides only when a sender's future completes, which the      *)
(* monitor never looks at (it disowns it), so it is left to the property   *)
(* that is about it.                                                       *)
(***************************************************************************)
EXTENDS Naturals, Sequences

(* dex_channel_new: empty, both ends open.                                *)
ChannelNew == [items |-> <<>>, waiting |-> <<>>, sendOpen |-> TRUE]

(* dex_channel_can_send.                                                  *)
ChannelCanSend(ch) == ch.sendOpen

(* The receive call that dex_channel_send hands its item to, or 0 when it *)
(* is queued (or dropped, the send side being closed).                    *)
ChannelTaker(ch) ==
  IF ch.sendOpen /\ ch.waiting # <<>> THEN Head(ch.waiting) ELSE 0

(* dex_channel_send of item x: the oldest waiting receive takes it, else  *)
(* it is queued; a closed send side drops it.                             *)
ChannelSend(ch, x) ==
  IF ~ch.sendOpen THEN ch
  ELSE IF ch.waiting # <<>> THEN [ch EXCEPT !.waiting = Tail(@)]
  ELSE [ch EXCEPT !.items = Append(@, x)]

(* A future's state: resolved with a value, pending, or rejected.         *)
Future(status, v) == [status |-> status, value |-> v]

(* What dex_channel_receive's future is at once: resolved with the oldest *)
(* item, else pending while the send side is open, else end-of-stream.    *)
ChannelReceived(ch) ==
  IF ch.items # <<>> THEN Future("resolved", Head(ch.items))
  ELSE IF ch.sendOpen THEN Future("pending", 0) ELSE Future("closed", 0)

(* dex_channel_receive by receive call r.                                 *)
ChannelReceive(ch, r) ==
  IF ch.items # <<>> THEN [ch EXCEPT !.items = Tail(@)]
  ELSE IF ch.sendOpen THEN [ch EXCEPT !.waiting = Append(@, r)]
  ELSE ch

(* dex_channel_close_send: waiting receivers see end-of-stream; items     *)
(* already queued stay receivable.                                        *)
ChannelCloseSend(ch) == [ch EXCEPT !.sendOpen = FALSE, !.waiting = <<>>]
=============================================================================
