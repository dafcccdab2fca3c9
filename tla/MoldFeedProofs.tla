--------------------------- MODULE MoldFeedProofs ---------------------------
(***************************************************************************)
(* Proofs about mold_udp_pacer, for every mtu_ and max_delay_, every       *)
(* stream and any number of flushes and heartbeats, and about a pacer, a   *)
(* network and a channel, for any number of packets and any faults.        *)
(***************************************************************************)
EXTENDS MoldFeed, FoldLemmas, SequenceTheorems

(* The pacer.  The inductive invariant speaks of every packet by itself    *)
(* and of its neighbour; that the packets together are the stream follows  *)
(* from it in every state.                                                 *)
Packets == [sequence_number : Nat, block_count : Nat,
            blocks : Seq(Messages), size : Nat]

\* The sequence number that follows packets 1 to k - 1.
NumberOf(k) ==
    IF k = 1 THEN 0
    ELSE packets[k - 1].sequence_number + packets[k - 1].block_count

\* count blocks, numbered from first on, in size bytes.
BlocksInOrder(blocks, first, count, size) ==
    /\ count = Len(blocks)
    /\ count <= MaxBlocks
    /\ size < mtu_ \/ blocks = << >>
    /\ size = SizeOf(blocks)
    /\ \A i \in 1..Len(blocks) : blocks[i].count = first + i - 1

(* Every packet carries as many blocks as it says, numbered from its own   *)
(* sequence number on, in less than mtu_ bytes, and starts where the       *)
(* packet before it has ended: no packet, heartbeats included, makes the   *)
(* receiver see a gap or an old number.                                    *)
PacketsInOrder ==
    \A k \in 1..Len(packets) :
        LET p == packets[k]
        IN  /\ p.sequence_number = NumberOf(k)
            /\ BlocksInOrder(p.blocks, p.sequence_number, p.block_count, p.size)

\* The queue continues the packets, and ends with the last message accepted.
QueueInOrder ==
    /\ first_block_ = NumberOf(Len(packets) + 1)
    /\ BlocksInOrder(packet_, first_block_, block_count_, packet_size_)
    /\ first_block_ + block_count_ = Accepted

\* The clock of the sends is not ahead of the stream, nor, while a message
\* waits, of the first message of the queue.
ClockBehind ==
    /\ last_send_ <= stream.ts
    /\ first_block_ts_ <= stream.ts
    /\ block_count_ > 0 => last_send_ <= first_block_ts_

IInv ==
    /\ PacerTypeOK
    /\ packets \in Seq(Packets)
    /\ failed => stream.count > 0
    /\ PacketsInOrder
    /\ QueueInOrder
    /\ ClockBehind
    /\ DelayBounded
-----------------------------------------------------------------------------
USE MoldPacerAssumption

(* What a packet is as large as.                                           *)
LEMMA SizeEmpty == SizeOf(<< >>) = HeaderSize
<1> DEFINE f == [i \in DOMAIN << >> |-> << >>[i].len + 2]
<1>1. DOMAIN << >> = {}
  OBVIOUS
<1>2. SumFunctionOnSet(f, {}) = 0
  BY FS_EmptySet, SumUnfolded
<1> HIDE DEF f
<1>3. HeaderSize + SumFunctionOnSet(f, {}) = HeaderSize
  BY <1>2
<1> QED
  BY <1>1, <1>3 DEF SizeOf, f

LEMMA SizeAppended ==
  ASSUME NEW blocks \in Seq(Messages), NEW msg \in Messages
  PROVE  SizeOf(Append(blocks, msg)) = SizeOf(blocks) + msg.len + 2
<1> DEFINE more == Append(blocks, msg)
           n == Len(blocks)
           f == [i \in DOMAIN more |-> more[i].len + 2]
           g == [i \in DOMAIN blocks |-> blocks[i].len + 2]
<1>1. /\ n \in Nat /\ DOMAIN blocks = 1..n /\ DOMAIN more = 1..(n + 1)
      /\ more[n + 1] = msg /\ \A i \in 1..n : more[i] = blocks[i]
  OBVIOUS
<1>2. msg.len \in Nat /\ \A i \in 1..n : blocks[i].len \in Nat
  <2>1. \A m \in Messages : m.len \in Nat
    BY DEF Messages
  <2>2. \A i \in 1..n : blocks[i] \in Messages
    OBVIOUS
  <2> QED
    BY <2>1, <2>2
<1> HIDE DEF more, n
<1> DEFINE S == 1..(n + 1)
           e == n + 1
<1>3. /\ f[e] = msg.len + 2
      /\ \A i \in 1..n : f[i] = g[i] /\ g[i] \in Nat
      /\ \A i \in S : f[i] \in Int
  BY <1>1, <1>2
<1>4. IsFiniteSet(S) /\ IsFiniteSet(1..n) /\ e \in S /\ S \ {e} = 1..n
  BY <1>1, FS_Interval
<1> HIDE DEF f, g, S, e
<1>5. SumFunctionOnSet(f, S) = f[e] + SumFunctionOnSet(f, S \ {e})
  BY <1>3, <1>4, SumRemove
<1>6. SumFunctionOnSet(f, 1..n) = SumFunctionOnSet(g, 1..n)
  BY <1>3, <1>4, SumSame
<1>7. SumFunctionOnSet(g, 1..n) \in Nat
  BY <1>3, <1>4, SumIsNat
<1>8. SizeOf(more) = HeaderSize + SumFunctionOnSet(f, S)
  BY <1>1 DEF SizeOf, f, S
<1>9. SizeOf(blocks) = HeaderSize + SumFunctionOnSet(g, 1..n)
  BY <1>1 DEF SizeOf, g
<1>10. SizeOf(more) = SizeOf(blocks) + msg.len + 2
  <2>1. SumFunctionOnSet(f, S) = msg.len + 2 + SumFunctionOnSet(g, 1..n)
    BY <1>3, <1>4, <1>5, <1>6
  <2> QED
    BY <1>2, <1>7, <1>8, <1>9, <2>1
<1> QED
  BY <1>10 DEF more

LEMMA SizeOne ==
  ASSUME NEW msg \in Messages
  PROVE  SizeOf(<<msg>>) = HeaderSize + msg.len + 2
<1>1. << >> \in Seq(Messages) /\ Append(<< >>, msg) = <<msg>>
  OBVIOUS
<1> QED
  BY <1>1, SizeAppended, SizeEmpty
-----------------------------------------------------------------------------
LEMMA InitIInv == PacerInit => IInv
<1> SUFFICES ASSUME PacerInit PROVE IInv
  OBVIOUS
<1> USE DEF PacerInit
<1>1. PacerTypeOK
  <2>1. packet_ \in Seq(Messages)
    OBVIOUS
  <2>2. packet_size_ \in HeaderSize..mtu_ /\ block_count_ \in 0..MaxBlocks
    OBVIOUS
  <2>3. stream \in [count : 0..MaxCount, ts : Nat, slept : Nat]
    OBVIOUS
  <2> QED
    BY <2>1, <2>2, <2>3 DEF PacerTypeOK
<1>2. packets \in Seq(Packets) /\ PacketsInOrder
  BY DEF PacketsInOrder
<1>3. QueueInOrder
  BY SizeEmpty DEF QueueInOrder, NumberOf, BlocksInOrder, Accepted
<1>4. ClockBehind /\ DelayBounded /\ (failed => stream.count > 0)
  BY DEF ClockBehind, DelayBounded
<1> QED
  BY <1>1, <1>2, <1>3, <1>4 DEF IInv

\* A packet that is sent continues the packets before it, and the number that
\* follows it is the one that follows the queue.
LEMMA SendInOrder ==
  ASSUME IInv, NEW ts, Send(ts)
  PROVE  /\ packets' \in Seq(Packets)
         /\ PacketsInOrder'
         /\ (NumberOf(Len(packets) + 1))' = first_block_ + block_count_
<1> DEFINE p == [sequence_number |-> first_block_,
                 block_count |-> block_count_,
                 blocks |-> packet_,
                 size |-> packet_size_]
           n == Len(packets) + 1
<1> USE DEF IInv
<1>1. p \in Packets
  BY DEF PacerTypeOK, Packets
<1>2. packets' = Append(packets, p)
  BY DEF Send
<1> HIDE DEF p
<1>3. packets' \in Seq(Packets) /\ Len(packets') = n /\ n \in Nat \ {0}
  BY <1>1, <1>2
<1>4. packets'[n] = p /\ \A k \in 1..(n - 1) : packets'[k] = packets[k]
  BY <1>1, <1>2
<1>5. \A k \in 1..n : (NumberOf(k))' = NumberOf(k)
  BY <1>3, <1>4 DEF NumberOf
<1>6. ASSUME NEW k \in 1..n
      PROVE  /\ packets'[k].sequence_number = NumberOf(k)
             /\ BlocksInOrder(packets'[k].blocks,
                              packets'[k].sequence_number,
                              packets'[k].block_count,
                              packets'[k].size)
  <2>1. CASE k = n
    BY <1>4, <2>1 DEF QueueInOrder, p
  <2>2. CASE k # n
    <3>1. k \in 1..Len(packets) /\ packets'[k] = packets[k]
      BY <1>3, <1>4, <2>2
    <3> QED
      BY <3>1 DEF PacketsInOrder
  <2> QED
    BY <2>1, <2>2
<1>7. PacketsInOrder'
  <2> SUFFICES ASSUME NEW k \in 1..Len(packets')
               PROVE  /\ packets'[k].sequence_number = (NumberOf(k))'
                      /\ BlocksInOrder(packets'[k].blocks,
                                       packets'[k].sequence_number,
                                       packets'[k].block_count,
                                       packets'[k].size)
    BY DEF PacketsInOrder, BlocksInOrder
  <2> QED
    BY <1>3, <1>5, <1>6
<1>8. (NumberOf(Len(packets) + 1))' = first_block_ + block_count_
  BY <1>3, <1>4 DEF NumberOf, p
<1> QED
  BY <1>3, <1>7, <1>8

\* Packets that stay are in order.
LEMMA KeptInOrder ==
  ASSUME IInv, UNCHANGED packets
  PROVE  /\ packets' \in Seq(Packets)
         /\ PacketsInOrder'
         /\ (NumberOf(Len(packets) + 1))' = first_block_
  BY DEF IInv, PacketsInOrder, QueueInOrder, NumberOf

\* flush and heartbeat: a send at a time of the past, and an empty queue.
LEMMA SendAlone ==
  ASSUME IInv, NEW ts \in Nat, ts <= stream.ts, Send(ts), Emptied,
         UNCHANGED <<stream, failed>>
  PROVE  IInv'
<1> USE DEF IInv
<1>1. packets' \in Seq(Packets) /\ PacketsInOrder'
  BY SendInOrder
<1>2. PacerTypeOK'
  BY DEF PacerTypeOK, Send, Emptied
<1>3. QueueInOrder'
  <2>1. (NumberOf(Len(packets) + 1))' = first_block_ + block_count_
    BY SendInOrder
  <2>2. BlocksInOrder(packet_, first_block_, block_count_, packet_size_)'
    BY SizeEmpty DEF BlocksInOrder, Emptied
  <2>3. first_block_' + block_count_' = Accepted'
    BY DEF QueueInOrder, Accepted, Emptied, PacerTypeOK
  <2> QED
    BY <2>1, <2>2, <2>3 DEF QueueInOrder, Emptied
<1>4. ClockBehind' /\ DelayBounded'
  BY DEF ClockBehind, DelayBounded, Send, Emptied
<1> QED
  BY <1>1, <1>2, <1>3, <1>4
-----------------------------------------------------------------------------
\* handle_message: the queue may be sent (<1>8, <1>9); if a block stays in it,
\* the message is not late (<1>10).  Then one case for each end of coalesce.
LEMMA MessageHandled ==
  ASSUME IInv, NEW len \in Lens, NEW gap \in Gaps, ~failed,
         stream.count < MaxCount, handle_message(len, gap)
  PROVE  IInv'
<1> DEFINE msg == [count |-> stream.count, len |-> len]
           ts == stream.ts + gap
           last == IF stream.count = 0 THEN ts ELSE last_send_
           elapsed == ts - last
           flushed == /\ block_count_ > 0
                      /\ Late(elapsed) \/ (Fits(len) /\ packet_full(len))
<1> USE DEF IInv
<1>1. /\ stream.count \in 0..MaxCount /\ stream.ts \in Nat
      /\ stream.slept \in Nat /\ last_send_ \in Nat
      /\ first_block_ \in Nat /\ first_block_ts_ \in Nat
      /\ packet_ \in Seq(Messages) /\ packet_size_ \in HeaderSize..mtu_
      /\ block_count_ \in 0..MaxBlocks
  BY DEF PacerTypeOK
<1>2. /\ len \in Nat /\ gap \in Nat /\ ts \in Nat /\ ts >= stream.ts
      /\ last \in Nat /\ last <= ts /\ elapsed \in Nat
  <2>1. len \in Nat /\ gap \in Nat
    OBVIOUS
  <2>2. ts \in Nat /\ ts >= stream.ts
    BY <1>1, <2>1
  <2>3. last \in Nat /\ last <= ts
    BY <1>1, <2>2 DEF ClockBehind
  <2> QED
    BY <2>1, <2>2, <2>3
<1>3. msg \in Messages
  BY <1>1 DEF Messages
<1>4. /\ stream' = [count |-> stream.count + 1,
                    ts |-> ts,
                    slept |-> stream.slept
                                + IF Late(elapsed) THEN elapsed ELSE 0]
      /\ \/ flushed /\ Send(ts)
         \/ ~flushed /\ last_send_' = last /\ UNCHANGED packets
      /\ \/ /\ Fits(len) /\ (flushed \/ block_count_ = 0)
            /\ StartPacket(msg, ts) /\ UNCHANGED failed
         \/ /\ Fits(len) /\ ~flushed /\ block_count_ > 0
            /\ AddBlock(msg) /\ UNCHANGED failed
         \/ /\ ~Fits(len) /\ failed' = TRUE
            /\ \/ flushed /\ Emptied
               \/ ~flushed /\ UNCHANGED queue
  BY DEF handle_message
<1>5. /\ first_block_ + block_count_ = stream.count
      /\ BlocksInOrder(packet_, first_block_, block_count_, packet_size_)
  BY <1>1 DEF QueueInOrder, Accepted
<1>6. /\ stream' \in [count : 0..MaxCount, ts : Nat, slept : Nat]
      /\ stream'.count = stream.count + 1 /\ stream'.ts = ts
  <2>1. stream.slept + (IF Late(elapsed) THEN elapsed ELSE 0) \in Nat
    BY <1>1, <1>2
  <2>2. stream.count + 1 \in 0..MaxCount
    BY <1>1
  <2> QED
    BY <1>2, <1>4, <2>1, <2>2
<1>7. last_send_' \in Nat /\ last_send_' <= ts
  BY <1>2, <1>4 DEF Send
<1>8. packets' \in Seq(Packets) /\ PacketsInOrder'
  BY <1>4, SendInOrder, KeptInOrder
<1>9. (NumberOf(Len(packets) + 1))'
         = IF flushed THEN stream.count ELSE first_block_
  BY <1>4, <1>5, SendInOrder, KeptInOrder
<1>10. ASSUME ~flushed, block_count_ > 0
       PROVE  /\ last_send_' = last_send_ /\ last_send_ <= first_block_ts_
              /\ ts - first_block_ts_ < max_delay_
  <2>1. stream.count # 0 /\ last = last_send_
    BY <1>1, <1>5, <1>10
  <2>2. elapsed < max_delay_
    BY <1>2, <1>10 DEF Late
  <2> QED
    BY <1>1, <1>2, <1>4, <1>10, <2>1, <2>2 DEF ClockBehind
<1> HIDE DEF msg, ts, last, elapsed, flushed
<1>11. CASE Fits(len) /\ (flushed \/ block_count_ = 0)
            /\ StartPacket(msg, ts) /\ UNCHANGED failed
  <2>1. /\ first_block_' = stream.count /\ first_block_ts_' = ts
        /\ packet_' = <<msg>> /\ packet_size_' = HeaderSize + len + 2
        /\ block_count_' = 1
    BY <1>11 DEF StartPacket, msg
  <2>2. packet_size_' \in HeaderSize..mtu_ /\ packet_size_' < mtu_
    BY <1>2, <1>11, <2>1 DEF Fits
  <2>3. packet_' \in Seq(Messages)
    BY <1>3, <2>1
  <2>4. PacerTypeOK'
    BY <1>1, <1>2, <1>6, <1>7, <1>11, <2>1, <2>2, <2>3 DEF PacerTypeOK
  <2>5. BlocksInOrder(packet_, first_block_, block_count_, packet_size_)'
    <3>1. Len(packet_') = 1 /\ packet_'[1].count = stream.count
      BY <2>1 DEF msg
    <3>2. packet_size_' = SizeOf(packet_')
      BY <1>3, <2>1, SizeOne DEF msg
    <3> QED
      BY <1>1, <2>1, <2>2, <3>1, <3>2 DEF BlocksInOrder
  <2>6. QueueInOrder'
    <3>1. (NumberOf(Len(packets) + 1))' = stream.count
      BY <1>1, <1>5, <1>9, <1>11
    <3>2. (first_block_ + block_count_ = Accepted)'
      BY <1>1, <1>6, <1>11, <2>1 DEF Accepted
    <3> QED
      BY <2>1, <2>5, <3>1, <3>2 DEF QueueInOrder
  <2>7. ClockBehind' /\ DelayBounded'
    BY <1>2, <1>6, <1>7, <2>1 DEF ClockBehind, DelayBounded
  <2> QED
    BY <1>8, <1>11, <2>4, <2>6, <2>7
<1>12. CASE Fits(len) /\ ~flushed /\ block_count_ > 0
            /\ AddBlock(msg) /\ UNCHANGED failed
  <2>1. /\ packet_' = Append(packet_, msg)
        /\ packet_size_' = packet_size_ + len + 2
        /\ block_count_' = block_count_ + 1
        /\ UNCHANGED <<first_block_, first_block_ts_>>
    BY <1>12 DEF AddBlock, msg
  <2>2. ~packet_full(len)
    BY <1>12 DEF flushed
  <2>3. packet_size_' \in HeaderSize..mtu_ /\ packet_size_' < mtu_
    BY <1>1, <1>2, <2>1, <2>2 DEF packet_full
  <2>4. block_count_' \in 0..MaxBlocks
    BY <1>1, <2>1, <2>2 DEF packet_full
  <2>5. PacerTypeOK'
    BY <1>1, <1>3, <1>6, <1>7, <1>12, <2>1, <2>3, <2>4 DEF PacerTypeOK
  <2>6. BlocksInOrder(packet_, first_block_, block_count_, packet_size_)'
    <3>1. Len(packet_') = block_count_' /\ block_count_' = Len(packet_) + 1
      BY <1>1, <1>3, <1>5, <2>1 DEF BlocksInOrder
    <3>2. packet_'[Len(packet_) + 1].count = first_block_ + Len(packet_)
      BY <1>1, <1>3, <1>5, <2>1 DEF BlocksInOrder, msg
    <3>3. \A i \in 1..Len(packet_) : packet_'[i].count = first_block_ + i - 1
      <4>1. \A i \in 1..Len(packet_) : packet_'[i] = packet_[i]
        BY <1>1, <1>3, <2>1
      <4>2. \A i \in 1..Len(packet_) : packet_[i].count = first_block_ + i - 1
        BY <1>5 DEF BlocksInOrder
      <4> QED
        BY <4>1, <4>2
    <3>4. \A i \in 1..Len(packet_') : packet_'[i].count = first_block_ + i - 1
      <4>1. \A i \in 1..Len(packet_') :
               i = Len(packet_) + 1 \/ i \in 1..Len(packet_)
        BY <1>1, <3>1
      <4>2. Len(packet_) \in Nat
        BY <1>1
      <4>3. first_block_ + (Len(packet_) + 1) - 1 = first_block_ + Len(packet_)
        BY <1>1, <4>2
      <4> QED
        BY <3>2, <3>3, <4>1, <4>3
    <3>5. packet_size_' = SizeOf(packet_')
      <4>1. SizeOf(packet_') = SizeOf(packet_) + len + 2
        BY <1>1, <1>3, <2>1, SizeAppended DEF msg
      <4> QED
        BY <1>5, <2>1, <4>1 DEF BlocksInOrder
    <3> QED
      BY <2>1, <2>3, <2>4, <3>1, <3>4, <3>5 DEF BlocksInOrder
  <2>7. QueueInOrder'
    <3>1. (first_block_ + block_count_ = Accepted)'
      BY <1>1, <1>5, <1>6, <1>12, <2>1 DEF Accepted
    <3> QED
      BY <1>9, <1>12, <2>1, <2>6, <3>1 DEF QueueInOrder
  <2>8. ClockBehind' /\ DelayBounded'
    BY <1>1, <1>2, <1>6, <1>7, <1>10, <1>12, <2>1
       DEF ClockBehind, DelayBounded
  <2> QED
    BY <1>8, <1>12, <2>5, <2>7, <2>8
<1>13. CASE ~Fits(len) /\ failed' = TRUE /\ flushed /\ Emptied
  <2>1. /\ first_block_' = first_block_ + block_count_
        /\ first_block_ts_' = first_block_ts_
        /\ packet_' = << >> /\ packet_size_' = HeaderSize
        /\ block_count_' = 0
    BY <1>13 DEF Emptied
  <2>2. PacerTypeOK'
    BY <1>1, <1>6, <1>7, <1>13, <2>1 DEF PacerTypeOK
  <2>3. QueueInOrder'
    <3>1. BlocksInOrder(packet_, first_block_, block_count_, packet_size_)'
      BY <2>1, SizeEmpty DEF BlocksInOrder
    <3>2. (first_block_ + block_count_ = Accepted)'
      BY <1>1, <1>5, <1>6, <1>13, <2>1 DEF Accepted
    <3> QED
      BY <1>5, <1>9, <1>13, <2>1, <3>1, <3>2 DEF QueueInOrder
  <2>4. ClockBehind' /\ DelayBounded'
    BY <1>1, <1>2, <1>6, <1>7, <2>1 DEF ClockBehind, DelayBounded
  <2> QED
    BY <1>1, <1>6, <1>8, <2>2, <2>3, <2>4
<1>14. CASE ~Fits(len) /\ failed' = TRUE /\ ~flushed /\ UNCHANGED queue
  <2>1. UNCHANGED <<packet_, packet_size_, first_block_, first_block_ts_,
                    block_count_>>
    BY <1>14 DEF queue
  <2>2. PacerTypeOK'
    BY <1>1, <1>6, <1>7, <1>14, <2>1 DEF PacerTypeOK
  <2>3. QueueInOrder'
    <3>1. BlocksInOrder(packet_, first_block_, block_count_, packet_size_)'
      BY <1>5, <2>1 DEF BlocksInOrder
    <3>2. (first_block_ + block_count_ = Accepted)'
      BY <1>1, <1>5, <1>6, <1>14, <2>1 DEF Accepted
    <3> QED
      BY <1>9, <1>14, <2>1, <3>1, <3>2 DEF QueueInOrder
  <2>4. ClockBehind' /\ DelayBounded'
    BY <1>1, <1>2, <1>6, <1>7, <1>10, <1>14, <2>1
       DEF ClockBehind, DelayBounded
  <2> QED
    BY <1>1, <1>6, <1>8, <2>2, <2>3, <2>4
<1> QED
  BY <1>4, <1>11, <1>12, <1>13, <1>14

LEMMA NextIInv == IInv /\ [PacerNext]_pacer_vars => IInv'
<1> SUFFICES ASSUME IInv, [PacerNext]_pacer_vars PROVE IInv'
  OBVIOUS
<1>1. ASSUME ~failed, stream.count < MaxCount,
             NEW len \in Lens, NEW gap \in Gaps, handle_message(len, gap)
      PROVE  IInv'
  BY <1>1, MessageHandled
<1>2. CASE flush
  <2>1. stream.ts \in Nat /\ stream.ts <= stream.ts
    BY DEF IInv, PacerTypeOK
  <2> QED
    BY <1>2, <2>1, SendAlone DEF flush
<1>3. CASE heartbeat
  <2>1. first_block_ts_ \in Nat /\ first_block_ts_ <= stream.ts
    BY DEF IInv, PacerTypeOK, ClockBehind
  <2> QED
    BY <1>3, <2>1, SendAlone DEF heartbeat
<1>4. CASE UNCHANGED pacer_vars
  BY <1>4 DEF pacer_vars, queue, IInv, PacerTypeOK, PacketsInOrder,
              QueueInOrder, ClockBehind, DelayBounded, Accepted, NumberOf,
              BlocksInOrder
<1> QED
  BY <1>1, <1>2, <1>3, <1>4 DEF PacerNext
-----------------------------------------------------------------------------
(* Sizes and counts stay in their ranges: the size of a packet below mtu_, *)
(* the 16-bit count of its blocks below the limit.                         *)
THEOREM TypeCorrect == PacerSpec => []PacerTypeOK
<1>1. IInv => PacerTypeOK
  BY DEF IInv
<1> QED
  BY <1>1, InitIInv, NextIInv, PTL DEF PacerSpec

(* No message waits in the queue for max_delay_ or longer in the time of   *)
(* the stream, whatever is flushed and however heartbeats move last_send_. *)
THEOREM DelayCorrect == PacerSpec => []DelayBounded
<1>1. IInv => DelayBounded
  BY DEF IInv
<1> QED
  BY <1>1, InitIInv, NextIInv, PTL DEF PacerSpec

(* The sequence numbers of the packets are those of the messages in them,  *)
(* without a gap or an overlap between packets.                            *)
THEOREM NumbersCorrect == PacerSpec => []PacketsInOrder
<1>1. IInv => PacketsInOrder
  BY DEF IInv
<1> QED
  BY <1>1, InitIInv, NextIInv, PTL DEF PacerSpec

(* Every packet is smaller than mtu_ and as large as its blocks make it,   *)
(* and its 16-bit block count is the number of its blocks.                 *)
THEOREM PacketsCorrect == PacerSpec => []PacketsFit
<1>1. IInv => PacketsFit
  <2> SUFFICES ASSUME IInv, NEW k \in DOMAIN packets
               PROVE  LET p == packets[k]
                      IN  /\ p.size < mtu_ \/ p.blocks = << >>
                          /\ p.block_count = Len(p.blocks)
                          /\ p.block_count <= MaxBlocks
                          /\ p.size = SizeOf(p.blocks)
    BY DEF PacketsFit
  <2>1. k \in 1..Len(packets)
    BY DEF IInv
  <2> QED
    BY <2>1 DEF IInv, PacketsInOrder, BlocksInOrder
<1> QED
  BY <1>1, InitIInv, NextIInv, PTL DEF PacerSpec
-----------------------------------------------------------------------------
(* The stream: what the first k packets carry together.                    *)
LEMMA SentNone == BlocksSent(0) = << >>
<1>1. [k \in 1..0 |-> packets[k].blocks] = << >>
  OBVIOUS
<1> QED
  BY <1>1, FlattenEmpty DEF BlocksSent

LEMMA SentOneMore ==
  ASSUME IInv, NEW k \in Nat, k + 1 <= Len(packets)
  PROVE  /\ BlocksSent(k) \in Seq(Messages)
         /\ BlocksSent(k + 1) = BlocksSent(k) \o packets[k + 1].blocks
<1> DEFINE few == [j \in 1..k |-> packets[j].blocks]
           more == [j \in 1..(k + 1) |-> packets[j].blocks]
           e == packets[k + 1].blocks
<1>1. \A j \in 1..(k + 1) : packets[j].blocks \in Seq(Messages)
  <2>1. \A p \in Packets : p.blocks \in Seq(Messages)
    BY DEF Packets
  <2>2. packets \in Seq(Packets)
    BY DEF IInv
  <2>3. \A j \in 1..(k + 1) : packets[j] \in Packets
    BY <2>2
  <2> QED
    BY <2>1, <2>3
<1>2. few \in Seq(Seq(Messages)) /\ e \in Seq(Messages)
  BY <1>1
<1>3. more = Append(few, e)
  OBVIOUS
<1>4. BlocksSent(k) = FlattenSeq(few) /\ BlocksSent(k + 1) = FlattenSeq(more)
  BY DEF BlocksSent
<1> HIDE DEF few, more, e
<1>5. FlattenSeq(few) \in Seq(Messages)
  BY <1>2, FlattenTyped
<1>6. FlattenSeq(Append(few, e)) = FlattenSeq(few) \o e
  BY <1>2, FlattenAppended
<1> QED
  BY <1>3, <1>4, <1>5, <1>6 DEF e

\* Messages numbered from first on.
NumberedFrom(blocks, first) ==
    \A i \in 1..Len(blocks) : blocks[i].count = first + i - 1

LEMMA NumberedOn ==
  ASSUME NEW a \in Seq(Messages), NEW b \in Seq(Messages),
         NumberedFrom(a, 0), NumberedFrom(b, Len(a))
  PROVE  /\ a \o b \in Seq(Messages)
         /\ Len(a \o b) = Len(a) + Len(b)
         /\ NumberedFrom(a \o b, 0)
<1> DEFINE all == a \o b
<1>1. Len(a) \in Nat /\ Len(b) \in Nat
  OBVIOUS
<1>2. /\ all \in Seq(Messages) /\ Len(all) = Len(a) + Len(b)
      /\ \A i \in 1..Len(all) :
            all[i] = IF i <= Len(a) THEN a[i] ELSE b[i - Len(a)]
  OBVIOUS
<1> HIDE DEF all
<1>3. ASSUME NEW i \in 1..Len(all) PROVE all[i].count = 0 + i - 1
  <2>1. CASE i <= Len(a)
    <3>1. i \in 1..Len(a) /\ all[i] = a[i]
      BY <1>1, <1>2, <2>1
    <3> QED
      BY <3>1 DEF NumberedFrom
  <2>2. CASE ~ (i <= Len(a))
    <3>1. i - Len(a) \in 1..Len(b) /\ all[i] = b[i - Len(a)]
      BY <1>1, <1>2, <2>2
    <3>2. b[i - Len(a)].count = Len(a) + (i - Len(a)) - 1
      BY <3>1 DEF NumberedFrom
    <3> QED
      BY <1>1, <3>1, <3>2
  <2> QED
    BY <2>1, <2>2
<1> QED
  BY <1>2, <1>3 DEF NumberedFrom, all

\* As many blocks as the next number says, in order.
SentInOrder(k) ==
    /\ BlocksSent(k) \in Seq(Messages)
    /\ Len(BlocksSent(k)) = NumberOf(k + 1)
    /\ NumberedFrom(BlocksSent(k), 0)

LEMMA AllSentInOrder ==
  ASSUME IInv
  PROVE  \A k \in 0..Len(packets) : SentInOrder(k)
<1> DEFINE n == Len(packets)
           Bad == {k \in 0..n : ~ SentInOrder(k)}
<1> SUFFICES ASSUME Bad # {} PROVE FALSE
  OBVIOUS
<1>1. n \in Nat
  BY DEF IInv
<1>2. PICK k \in Bad : \A j \in Bad : k <= j
  <2>1. Bad \in SUBSET (0..n)
    OBVIOUS
  <2> HIDE DEF Bad, n
  <2> QED
    BY <1>1, <2>1, SmallestNumber
<1>3. k \in 0..n /\ ~ SentInOrder(k)
  OBVIOUS
<1>4. CASE k = 0
  <2>1. NumberOf(0 + 1) = 0
    BY DEF NumberOf
  <2>2. << >> \in Seq(Messages) /\ Len(<< >>) = 0
    OBVIOUS
  <2>3. NumberedFrom(<< >>, 0)
    BY <2>2 DEF NumberedFrom
  <2> HIDE DEF Bad, n
  <2>4. SentInOrder(0)
    BY <2>1, <2>2, <2>3, SentNone DEF SentInOrder
  <2> QED
    BY <1>3, <1>4, <2>4
<1>5. CASE k # 0
  <2>1. PICK j \in 0..n : j + 1 = k /\ j \notin Bad
    <3>1. k - 1 \in 0..n /\ k - 1 + 1 = k /\ k - 1 \notin Bad
      BY <1>1, <1>2, <1>3, <1>5
    <3> HIDE DEF Bad, n
    <3> QED
      BY <3>1
  <2>2. SentInOrder(j)
    BY <2>1
  <2> DEFINE sent == BlocksSent(j)
             p == packets[k]
  <2>3. sent \in Seq(Messages) /\ Len(sent) = NumberOf(k) /\ NumberedFrom(sent, 0)
    BY <2>1, <2>2 DEF SentInOrder
  <2>4. k \in 1..Len(packets) /\ j \in Nat /\ j + 1 <= Len(packets)
    BY <1>1, <1>3, <1>5, <2>1
  <2>5. BlocksSent(k) = sent \o p.blocks
    BY <2>1, <2>4, SentOneMore
  <2>6. p.blocks \in Seq(Messages)
    <3>1. p \in Packets
      BY <2>4 DEF IInv
    <3> QED
      BY <3>1 DEF Packets
  <2>7. /\ p.sequence_number = NumberOf(k)
        /\ BlocksInOrder(p.blocks, p.sequence_number, p.block_count, p.size)
    BY <2>4 DEF IInv, PacketsInOrder
  <2>8. NumberedFrom(p.blocks, Len(sent)) /\ p.block_count = Len(p.blocks)
    BY <2>3, <2>7 DEF BlocksInOrder, NumberedFrom
  <2>9. NumberOf(k + 1) = Len(sent) + Len(p.blocks)
    <3>1. k + 1 # 1 /\ k + 1 - 1 = k
      BY <2>4
    <3> QED
      BY <2>3, <2>7, <2>8, <3>1 DEF NumberOf
  <2> HIDE DEF sent, p, Bad, n
  <2>10. SentInOrder(k)
    BY <2>3, <2>5, <2>6, <2>8, <2>9, NumberedOn DEF SentInOrder
  <2> QED
    BY <1>3, <2>10
<1> QED
  BY <1>4, <1>5

(* The packets and the queue carry every accepted message once and in      *)
(* order, and the number of every packet, heartbeats included, is that of  *)
(* the message that follows the packets before it.                         *)
THEOREM StreamCorrect == PacerSpec => []StreamPreserved
<1>1. IInv => StreamPreserved
  <2> SUFFICES ASSUME IInv PROVE StreamPreserved
    OBVIOUS
  <2> DEFINE n == Len(packets)
             sent == BlocksSent(n)
             all == sent \o packet_
  <2>1. n \in Nat /\ DOMAIN packets = 1..n /\ packet_ \in Seq(Messages)
    BY DEF IInv, PacerTypeOK
  <2>2. SentInOrder(n)
    BY <2>1, AllSentInOrder
  <2>3. /\ sent \in Seq(Messages) /\ Len(sent) = first_block_
        /\ NumberedFrom(sent, 0)
    BY <2>2 DEF SentInOrder, IInv, QueueInOrder
  <2>4. /\ block_count_ = Len(packet_)
        /\ first_block_ + block_count_ = Accepted
        /\ NumberedFrom(packet_, first_block_)
    BY DEF IInv, QueueInOrder, BlocksInOrder, NumberedFrom
  <2> HIDE DEF sent
  <2>5. /\ all \in Seq(Messages) /\ Len(all) = Len(sent) + Len(packet_)
        /\ NumberedFrom(all, 0)
    BY <2>1, <2>3, <2>4, NumberedOn
  <2> HIDE DEF all
  <2>6. /\ Len(all) = Accepted /\ DOMAIN all = 1..Len(all)
        /\ \A i \in 1..Len(all) : all[i].count = i - 1
    BY <2>3, <2>4, <2>5 DEF NumberedFrom
  <2>7. ASSUME NEW k \in 1..n
        PROVE  packets[k].sequence_number = Len(BlocksSent(k - 1))
    <3>1. k - 1 \in 0..n /\ k - 1 + 1 = k
      BY <2>1
    <3>2. Len(BlocksSent(k - 1)) = NumberOf(k)
      BY <3>1, AllSentInOrder DEF SentInOrder
    <3> QED
      BY <3>2 DEF IInv, PacketsInOrder
  <2> QED
    BY <2>1, <2>6, <2>7 DEF StreamPreserved, all, sent
<1> QED
  BY <1>1, InitIInv, NextIInv, PTL DEF PacerSpec
-----------------------------------------------------------------------------
(* A replay: no flush and no heartbeat empties the queue between messages. *)
\* Once there is a message the queue is not empty, so a late message is a
\* send: the sleeps are intervals between sends, one after the other.
SleepsInv ==
    /\ SleepsMatchIntervals
    /\ ~failed => /\ stream.slept <= last_send_
                  /\ stream.count > 0 => block_count_ > 0

LEMMA SleepsHandled ==
  ASSUME IInv, SleepsInv, NEW len \in Lens, NEW gap \in Gaps, ~failed,
         handle_message(len, gap)
  PROVE  SleepsInv'
<1> DEFINE msg == [count |-> stream.count, len |-> len]
           ts == stream.ts + gap
           last == IF stream.count = 0 THEN ts ELSE last_send_
           elapsed == ts - last
           slept == stream.slept + IF Late(elapsed) THEN elapsed ELSE 0
           flushed == /\ block_count_ > 0
                      /\ Late(elapsed) \/ (Fits(len) /\ packet_full(len))
<1>1. /\ stream.count \in Nat /\ stream.ts \in Nat /\ stream.slept \in Nat
      /\ last_send_ \in Nat /\ last_send_ <= stream.ts /\ gap \in Nat
      /\ block_count_ \in Nat
  BY DEF IInv, PacerTypeOK, ClockBehind
<1>2. /\ stream' = [count |-> stream.count + 1, ts |-> ts, slept |-> slept]
      /\ \/ flushed /\ last_send_' = ts
         \/ ~flushed /\ last_send_' = last
      /\ \/ block_count_' = 1 /\ failed' = failed
         \/ block_count_' = block_count_ + 1 /\ failed' = failed
         \/ failed' = TRUE
  BY DEF handle_message, Send, StartPacket, AddBlock
<1>3. stream'.count = stream.count + 1 /\ stream'.ts = ts /\ stream'.slept = slept
  BY <1>2
<1>4. stream.slept <= last_send_ /\ (stream.count > 0 => block_count_ > 0)
  BY DEF SleepsInv
<1> HIDE DEF flushed
<1>5. slept <= ts /\ slept <= last_send_'
  <2>1. CASE stream.count = 0
    <3>1. elapsed = 0 /\ ~ Late(elapsed)
      BY <1>1, <2>1 DEF Late
    <3>2. last_send_' = ts
      BY <1>2, <2>1
    <3> QED
      BY <1>1, <1>4, <3>1, <3>2
  <2>2. CASE stream.count # 0 /\ Late(elapsed)
    <3>1. flushed /\ last = last_send_
      BY <1>1, <1>4, <2>2 DEF flushed
    <3> QED
      BY <1>1, <1>2, <1>4, <2>2, <3>1
  <2>3. CASE stream.count # 0 /\ ~ Late(elapsed)
    <3>1. slept = stream.slept /\ last = last_send_
      BY <1>1, <2>3
    <3>2. last_send_' = ts \/ last_send_' = last_send_
      BY <1>2, <3>1
    <3> QED
      BY <1>1, <1>4, <3>1, <3>2
  <2> QED
    BY <2>1, <2>2, <2>3
<1>6. failed' \/ block_count_' > 0
  BY <1>1, <1>2
<1> QED
  BY <1>3, <1>5, <1>6 DEF SleepsInv, SleepsMatchIntervals

(* Without flushes and heartbeats in between, as in a replay, the pacer    *)
(* never sleeps longer than the time that the stream spans.                *)
THEOREM SleepsCorrect ==
  MaxIdleSends = 0 => (PacerSpec => []SleepsMatchIntervals)
<1> SUFFICES ASSUME MaxIdleSends = 0
             PROVE  PacerSpec => []SleepsMatchIntervals
  OBVIOUS
<1>1. PacerInit => SleepsInv
  BY DEF PacerInit, SleepsInv, SleepsMatchIntervals
<1>2. IInv /\ SleepsInv /\ [PacerNext]_pacer_vars => SleepsInv'
  <2> SUFFICES ASSUME IInv, SleepsInv, [PacerNext]_pacer_vars PROVE SleepsInv'
    OBVIOUS
  <2>1. ~ (Len(packets) < MaxIdleSends)
    BY DEF IInv
  <2>2. CASE PacerNext
    BY <2>1, <2>2, SleepsHandled DEF PacerNext
  <2>3. CASE UNCHANGED pacer_vars
    BY <2>3 DEF pacer_vars, queue, SleepsInv, SleepsMatchIntervals
  <2> QED
    BY <2>2, <2>3
<1>3. SleepsInv => SleepsMatchIntervals
  BY DEF SleepsInv
<1> QED
  BY <1>1, <1>2, <1>3, InitIInv, NextIInv, PTL DEF PacerSpec
-----------------------------------------------------------------------------
(* The feed.  What the handler knows about gaps, whatever the network      *)
(* does; on a network that neither loses, doubles nor reorders packets the *)
(* feed is a first-in first-out stream, and only the queue of the pacer is *)
(* left at the end.                                                        *)
Calls == [seqno : 0..MaxCount, offset : Nat, message : Messages]

\* No packet reaches beyond the queue.
PacketsPast ==
    \A k \in 1..Len(packets) :
        packets[k].sequence_number + packets[k].block_count <= first_block_

(* The channel believes every header; what it knows whatever arrives is    *)
(* where the next message starts.                                          *)
OffsetsAddUp ==
    /\ message_offset_ = LengthOf(Delivered, Len(handled))
    /\ \A i \in 1..Len(handled) :
          handled[i].offset = LengthOf(Delivered, i - 1)

(* Until the first mismatch the expected number is that of the next        *)
(* message, and the messages are the first ones of the stream.             *)
NoGapYet ==
    mismatches = 0 =>
        /\ expected_sequence_number_ = Len(handled)
        /\ \A i \in 1..Len(handled) : handled[i].message.count = i - 1

FeedInv ==
    /\ IInv
    /\ FeedTypeOK
    /\ PacketsPast
    /\ OffsetsAddUp
    /\ NoGapYet

\* The number that follows what was received and the k - 1 oldest packets
\* on the wire.
WireNumber(k) ==
    IF k = 1 THEN expected_sequence_number_
    ELSE wire[k - 1].sequence_number + wire[k - 1].block_count

(* On a perfect network the wire continues what the channel has received,  *)
(* and the queue continues the wire.                                       *)
WireInOrder ==
    /\ mismatches = 0
    /\ \A k \in 1..Len(wire) : wire[k].sequence_number = WireNumber(k)
    /\ first_block_ = WireNumber(Len(wire) + 1)
-----------------------------------------------------------------------------
USE MoldFeedAssumption

(* The length of the first n messages.                                     *)
LEMMA MessagesHaveLengths ==
  ASSUME NEW s \in Seq(Messages), NEW i \in 1..Len(s)
  PROVE  s[i].len \in Nat
<1>1. s[i] \in Messages
  OBVIOUS
<1> QED
  BY <1>1 DEF Messages

LEMMA LengthOfNone == \A s : LengthOf(s, 0) = 0
<1> TAKE s
<1>1. 1..0 = {}
  OBVIOUS
<1>2. SumFunctionOnSet([i \in {} |-> s[i].len], {}) = 0
  BY FS_EmptySet, SumUnfolded
<1> QED
  BY <1>1, <1>2 DEF LengthOf

LEMMA LengthIsNat ==
  ASSUME NEW s \in Seq(Messages), NEW n \in 0..Len(s)
  PROVE  LengthOf(s, n) \in Nat
<1> DEFINE f == [i \in 1..n |-> s[i].len]
<1>1. IsFiniteSet(1..n)
  BY FS_Interval
<1>2. \A i \in 1..n : f[i] \in Nat
  BY MessagesHaveLengths
<1> HIDE DEF f
<1>3. SumFunctionOnSet(f, 1..n) \in Nat
  BY <1>1, <1>2, SumIsNat
<1> QED
  BY <1>3 DEF LengthOf, f

LEMMA LengthOfNext ==
  ASSUME NEW s \in Seq(Messages), NEW n \in 0..(Len(s) - 1)
  PROVE  LengthOf(s, n + 1) = LengthOf(s, n) + s[n + 1].len
<1> DEFINE f == [i \in 1..(n + 1) |-> s[i].len]
           g == [i \in 1..n |-> s[i].len]
           S == 1..(n + 1)
           e == n + 1
<1>0. n \in Nat /\ n + 1 \in Nat
  OBVIOUS
<1>1. /\ IsFiniteSet(S) /\ IsFiniteSet(1..n) /\ e \in S /\ S \ {e} = 1..n
  <2>1. IsFiniteSet(1..(n + 1)) /\ IsFiniteSet(1..n)
    BY <1>0, FS_Interval
  <2>2. e \in S /\ S \ {e} = 1..n
    BY <1>0
  <2> QED
    BY <2>1, <2>2
<1>2. (\A i \in S : f[i] \in Nat) /\ f[e] = s[n + 1].len
  BY MessagesHaveLengths
<1>3. \A i \in 1..n : f[i] = g[i] /\ g[i] \in Nat
  BY MessagesHaveLengths
<1> HIDE DEF f, g, S, e
<1>4. SumFunctionOnSet(f, S) = f[e] + SumFunctionOnSet(f, S \ {e})
  BY <1>1, <1>2, SumRemove
<1>5. SumFunctionOnSet(f, 1..n) = SumFunctionOnSet(g, 1..n)
  BY <1>1, <1>3, SumSame
<1>6. SumFunctionOnSet(g, 1..n) \in Nat
  BY <1>1, <1>3, SumIsNat
<1>7. /\ LengthOf(s, n + 1) = SumFunctionOnSet(f, S)
      /\ LengthOf(s, n) = SumFunctionOnSet(g, 1..n)
  BY DEF LengthOf, f, g, S
<1>8. f[e] \in Nat
  BY <1>1, <1>2
<1>9. SumFunctionOnSet(f, S) = f[e] + SumFunctionOnSet(g, 1..n)
  BY <1>1, <1>4, <1>5
<1> QED
  BY <1>2, <1>6, <1>7, <1>8, <1>9

LEMMA LengthOfPrefix ==
  ASSUME NEW s \in Seq(Messages), NEW t \in Seq(Messages), NEW n \in 0..Len(s)
  PROVE  LengthOf(s \o t, n) = LengthOf(s, n)
<1>1. \A i \in 1..n : (s \o t)[i] = s[i]
  OBVIOUS
<1>2. [i \in 1..n |-> (s \o t)[i].len] = [i \in 1..n |-> s[i].len]
  BY <1>1
<1> QED
  BY <1>2 DEF LengthOf

\* The smallest n for which it does not hold would follow one for which it does.
LEMMA LengthOfConcat ==
  ASSUME NEW s \in Seq(Messages), NEW t \in Seq(Messages)
  PROVE  \A n \in 0..Len(t) :
            LengthOf(s \o t, Len(s) + n) = LengthOf(s, Len(s)) + LengthOf(t, n)
<1> DEFINE all == s \o t
           Bad == {n \in 0..Len(t) : LengthOf(all, Len(s) + n)
                                       # LengthOf(s, Len(s)) + LengthOf(t, n)}
<1> SUFFICES ASSUME Bad # {} PROVE FALSE
  OBVIOUS
<1>1. /\ Len(s) \in Nat /\ Len(t) \in Nat /\ all \in Seq(Messages)
      /\ Len(all) = Len(s) + Len(t)
      /\ \A i \in 1..Len(t) : all[Len(s) + i] = t[i]
  OBVIOUS
<1>2. PICK m \in Bad : \A k \in Bad : m <= k
  <2>1. Bad \in SUBSET (0..Len(t))
    OBVIOUS
  <2> HIDE DEF Bad
  <2> QED
    BY <1>1, <2>1, SmallestNumber
<1>3. /\ m \in 0..Len(t)
      /\ LengthOf(all, Len(s) + m) # LengthOf(s, Len(s)) + LengthOf(t, m)
  OBVIOUS
<1>4. LengthOf(s, Len(s)) \in Nat
  BY <1>1, LengthIsNat
<1>5. CASE m = 0
  <2>1. Len(s) + m = Len(s) /\ Len(s) \in 0..Len(s)
    BY <1>1, <1>5
  <2>2. LengthOf(all, Len(s)) = LengthOf(s, Len(s))
    BY <2>1, LengthOfPrefix
  <2> QED
    BY <1>3, <1>4, <1>5, <2>1, <2>2, LengthOfNone
<1>6. CASE m # 0
  <2> DEFINE k == m - 1
             n == Len(s) + k
  <2>1. /\ k \in 0..(Len(t) - 1) /\ k \in 0..Len(t) /\ k < m /\ k + 1 = m
        /\ k + 1 \in 1..Len(t)
        /\ n \in 0..(Len(all) - 1) /\ n + 1 = Len(s) + m /\ n + 1 = Len(s) + (k + 1)
    BY <1>1, <1>3, <1>6
  <2>2. k \notin Bad
    BY <1>2, <2>1
  <2>3. LengthOf(all, n) = LengthOf(s, Len(s)) + LengthOf(t, k)
    BY <2>1, <2>2
  <2> HIDE DEF k, all, n, Bad
  <2>4. LengthOf(all, n + 1) = LengthOf(all, n) + all[n + 1].len
    BY <1>1, <2>1, LengthOfNext
  <2>5. LengthOf(t, k + 1) = LengthOf(t, k) + t[k + 1].len
    BY <2>1, LengthOfNext
  <2>6. all[n + 1] = t[k + 1]
    BY <1>1, <2>1
  <2>7. LengthOf(t, k) \in Nat /\ t[k + 1].len \in Nat
    BY <2>1, LengthIsNat, MessagesHaveLengths
  <2> QED
    BY <1>3, <1>4, <2>1, <2>3, <2>4, <2>5, <2>6, <2>7
<1> QED
  BY <1>5, <1>6
-----------------------------------------------------------------------------
(* The sender.                                                             *)
LEMMA SendsAtMostOne ==
  ASSUME PacerNext
  PROVE  UNCHANGED packets \/ \E p : packets' = Append(packets, p)
  BY DEF PacerNext, handle_message, flush, heartbeat, Send

LEMMA NothingOnWire ==
  ASSUME NEW M, NEW w \in Seq(M), NEW S, NEW s \in Seq(S)
  PROVE  w \o SubSeq(s, Len(s) + 1, Len(s)) = w
<1>1. Len(s) \in Int /\ Len(s) + 1 \in Int /\ Len(s) < Len(s) + 1
  OBVIOUS
<1>2. SubSeq(s, Len(s) + 1, Len(s)) = << >>
  BY <1>1, SubSeqEmpty
<1> QED
  BY <1>2, ConcatEmptySeq

LEMMA OneOnWire ==
  ASSUME NEW M, NEW w \in Seq(M), NEW S, NEW s \in Seq(S), NEW p \in S
  PROVE  w \o SubSeq(Append(s, p), Len(s) + 1, Len(Append(s, p)))
            = Append(w, p)
<1> DEFINE more == Append(s, p)
           n == Len(s) + 1
<1>1. /\ more \in Seq(S) /\ Len(more) = n /\ more[n] = p
      /\ n \in 1..Len(more) /\ n \in n..Len(more) /\ n \in Int
  OBVIOUS
<1> HIDE DEF more, n
<1>2. SubSeq(more, n, n) = <<more[n]>> \o SubSeq(more, n + 1, n)
  BY <1>1, SubSeqRecursiveFirst
<1>3. SubSeq(more, n + 1, n) = << >>
  BY <1>1, SubSeqEmpty
<1>4. SubSeq(more, n, n) = <<p>>
  <2>1. <<p>> \in Seq(S)
    OBVIOUS
  <2>2. <<p>> \o << >> = <<p>>
    BY <2>1, ConcatEmptySeq
  <2> QED
    BY <1>1, <1>2, <1>3, <2>2
<1>5. w \o <<p>> = Append(w, p)
  OBVIOUS
<1> QED
  BY <1>1, <1>4, <1>5 DEF more, n

\* What the sender puts on the wire is the packet after those sent before.
LEMMA SenderSends ==
  ASSUME IInv, PacerNext, NEW M, wire \in Seq(M),
         wire' = wire \o SubSeq(packets', Len(packets) + 1, Len(packets'))
  PROVE  \/ UNCHANGED <<packets, wire, first_block_>>
         \/ \E p \in Packets :
               /\ packets' = Append(packets, p) /\ wire' = Append(wire, p)
               /\ p.sequence_number = first_block_
               /\ p.sequence_number + p.block_count = first_block_'
               /\ first_block_ <= first_block_'
<1> DEFINE n == Len(packets)
<1>1. IInv' /\ packets \in Seq(Packets) /\ n \in Nat
  BY NextIInv DEF IInv
<1>2. CASE UNCHANGED packets
  <2>2. wire' = wire
    BY <1>1, <1>2, NothingOnWire
  <2>3. first_block_' = first_block_
    BY <1>1, <1>2 DEF IInv, QueueInOrder, NumberOf
  <2> QED
    BY <1>2, <2>2, <2>3
<1>3. ASSUME NEW p, packets' = Append(packets, p)
      PROVE  /\ p \in Packets /\ wire' = Append(wire, p)
             /\ p.sequence_number = first_block_
             /\ p.sequence_number + p.block_count = first_block_'
             /\ first_block_ <= first_block_'
  <2>1. /\ Len(packets') = n + 1 /\ packets'[n + 1] = p
        /\ \A k \in 1..n : packets'[k] = packets[k]
    BY <1>1, <1>3
  <2>2. p \in Packets
    <3>1. packets' \in Seq(Packets)
      BY <1>1 DEF IInv
    <3> QED
      BY <1>1, <2>1, <3>1
  <2>4. wire' = Append(wire, p)
    BY <1>1, <1>3, <2>2, OneOnWire
  <2>5. \A k \in 1..(n + 1) : packets'[k].sequence_number = (NumberOf(k))'
    BY <1>1, <2>1 DEF IInv, PacketsInOrder
  <2>6. \A k \in 1..(n + 1) : (NumberOf(k))' = NumberOf(k)
    BY <1>1, <2>1 DEF NumberOf
  <2>7. p.sequence_number = first_block_
    <3>1. n + 1 \in 1..(n + 1)
      BY <1>1
    <3> QED
      BY <2>1, <2>5, <2>6, <3>1 DEF IInv, QueueInOrder
  <2>8. p.sequence_number + p.block_count = first_block_'
    BY <1>1, <2>1 DEF IInv, QueueInOrder, NumberOf
  <2>9. p.sequence_number \in Nat /\ p.block_count \in Nat
    BY <2>2 DEF Packets
  <2> QED
    BY <2>2, <2>4, <2>7, <2>8, <2>9
<1> QED
  BY <1>2, <1>3, SendsAtMostOne
-----------------------------------------------------------------------------
(* What every packet on the wire is, the oldest and the doubled ones too.  *)
LEMMA PacketIsGood ==
  ASSUME IInv, PacketsPast, NEW p \in Range(packets)
  PROVE  /\ p \in Packets
         /\ p.sequence_number \in 0..MaxCount
         /\ p.block_count = Len(p.blocks)
         /\ \A i \in 1..Len(p.blocks) :
               p.blocks[i].count = p.sequence_number + i - 1
         /\ p.sequence_number + p.block_count <= first_block_
         /\ first_block_ <= stream.count /\ stream.count <= MaxCount
<1>1. packets \in Seq(Packets) /\ DOMAIN packets = 1..Len(packets)
  BY DEF IInv
<1>2. PICK k \in 1..Len(packets) : p = packets[k]
  BY <1>1 DEF Range
<1>3. p \in Packets
  BY <1>1, <1>2
<1>4. p.sequence_number \in Nat /\ p.block_count \in Nat
  BY <1>3 DEF Packets
<1>5. BlocksInOrder(p.blocks, p.sequence_number, p.block_count, p.size)
  BY <1>2 DEF IInv, PacketsInOrder
<1>6. p.sequence_number + p.block_count <= first_block_
  BY <1>2 DEF PacketsPast
<1>7. first_block_ <= stream.count /\ stream.count <= MaxCount
  <2>1. /\ first_block_ \in Nat /\ block_count_ \in Nat
        /\ stream.count \in 0..MaxCount
    BY DEF IInv, PacerTypeOK
  <2>2. first_block_ + block_count_ <= stream.count
    BY <2>1 DEF IInv, QueueInOrder, Accepted
  <2> QED
    BY <2>1, <2>2
<1>8. p.sequence_number \in 0..MaxCount
  <2>1. first_block_ \in Nat /\ stream.count \in 0..MaxCount
    BY DEF IInv, PacerTypeOK
  <2> QED
    BY <1>4, <1>6, <1>7, <2>1
<1> QED
  BY <1>3, <1>5, <1>6, <1>7, <1>8 DEF BlocksInOrder

LEMMA WireRemoved ==
  ASSUME NEW S, NEW w \in Seq(S), NEW k \in DOMAIN w
  PROVE  RemoveAt(w, k) \in Seq(S)
<1>1. SubSeq(w, 1, k - 1) \in Seq(S) /\ SubSeq(w, k + 1, Len(w)) \in Seq(S)
  OBVIOUS
<1> QED
  BY <1>1 DEF RemoveAt

LEMMA WireInserted ==
  ASSUME NEW S, NEW w \in Seq(S), NEW k \in DOMAIN w, NEW e \in S
  PROVE  InsertAt(w, k, e) \in Seq(S)
<1>1. SubSeq(w, 1, k - 1) \in Seq(S) /\ SubSeq(w, k, Len(w)) \in Seq(S)
  OBVIOUS
<1>2. <<e>> \in Seq(S)
  OBVIOUS
<1> QED
  BY <1>1, <1>2 DEF InsertAt
-----------------------------------------------------------------------------
LEMMA InitFeedInv == FeedInit => FeedInv
<1> SUFFICES ASSUME FeedInit PROVE FeedInv
  OBVIOUS
<1>1. IInv /\ PacerTypeOK
  BY InitIInv DEF FeedInit, IInv
<1>2. packets = << >> /\ wire = << >> /\ handled = << >>
  BY DEF FeedInit, PacerInit, ChannelInit
<1>3. FeedTypeOK
  <2>1. wire \in Seq(Range(packets)) /\ handled \in Seq(Calls)
    BY <1>2
  <2>2. expected_sequence_number_ \in 0..MaxCount /\ message_offset_ \in Nat
    BY DEF FeedInit, ChannelInit
  <2>3. registered \in BOOLEAN /\ mismatches \in Nat /\ done \in BOOLEAN
    BY DEF FeedInit, ChannelInit
  <2> QED
    BY <1>1, <2>1, <2>2, <2>3 DEF FeedTypeOK, Calls
<1>4. PacketsPast
  BY <1>2 DEF PacketsPast
<1>5. OffsetsAddUp
  <2>1. Len(handled) = 0 /\ message_offset_ = 0
    BY <1>2 DEF FeedInit, ChannelInit
  <2> QED
    BY <2>1, LengthOfNone DEF OffsetsAddUp
<1>6. NoGapYet
  BY <1>2 DEF NoGapYet, FeedInit, ChannelInit
<1> QED
  BY <1>1, <1>3, <1>4, <1>5, <1>6 DEF FeedInv

\* What does not change stays true.
LEMMA PacerKept ==
  ASSUME FeedInv, UNCHANGED pacer_vars
  PROVE  IInv' /\ PacketsPast' /\ (Range(packets))' = Range(packets)
<1>1. IInv'
  BY NextIInv DEF FeedInv
<1>2. packets' = packets /\ first_block_' = first_block_
  BY DEF pacer_vars, queue
<1> QED
  BY <1>1, <1>2 DEF FeedInv, PacketsPast

LEMMA ChannelKept ==
  ASSUME FeedInv,
         UNCHANGED <<expected_sequence_number_, message_offset_, handled,
                     mismatches>>
  PROVE  OffsetsAddUp' /\ NoGapYet'
  BY DEF FeedInv, OffsetsAddUp, NoGapYet, Delivered

\* Steps of the network and of the socket.
LEMMA NetworkStep ==
  ASSUME FeedInv, UNCHANGED pacer_vars,
         UNCHANGED <<expected_sequence_number_, message_offset_, handled,
                     mismatches>>,
         registered' \in BOOLEAN, done' \in BOOLEAN,
         wire' \in Seq(Range(packets))
  PROVE  FeedInv'
<1>1. IInv' /\ PacketsPast' /\ (Range(packets))' = Range(packets)
  BY PacerKept
<1>2. OffsetsAddUp' /\ NoGapYet'
  BY ChannelKept
<1>3. PacerTypeOK'
  BY <1>1 DEF IInv
<1>4. FeedTypeOK'
  BY <1>1, <1>3 DEF FeedInv, FeedTypeOK
<1> QED
  BY <1>1, <1>2, <1>4 DEF FeedInv

LEMMA SenderStep ==
  ASSUME FeedInv, Sender
  PROVE  FeedInv'
<1>1. /\ IInv /\ packets \in Seq(Packets) /\ PacketsPast
      /\ first_block_ \in Nat /\ wire \in Seq(Range(packets))
  BY DEF FeedInv, IInv, FeedTypeOK, PacerTypeOK
<1>2. /\ PacerNext /\ UNCHANGED channel_vars /\ UNCHANGED done
      /\ wire' = wire \o SubSeq(packets', Len(packets) + 1, Len(packets'))
  BY DEF Sender
<1>3. UNCHANGED <<expected_sequence_number_, message_offset_, registered,
                  handled, mismatches>>
  BY <1>2 DEF channel_vars
<1>4. IInv' /\ PacerTypeOK'
  BY <1>1, <1>2, NextIInv DEF IInv
<1>5. PacketsPast' /\ wire' \in Seq((Range(packets))')
  <2>1. CASE UNCHANGED <<packets, wire, first_block_>>
    BY <1>1, <2>1 DEF PacketsPast
  <2>2. ASSUME NEW p \in Packets,
               packets' = Append(packets, p), wire' = Append(wire, p),
               p.sequence_number + p.block_count = first_block_',
               first_block_ <= first_block_'
        PROVE  PacketsPast' /\ wire' \in Seq((Range(packets))')
    <3>1. /\ Len(packets') = Len(packets) + 1 /\ Len(packets) \in Nat
          /\ packets'[Len(packets) + 1] = p
          /\ \A k \in 1..Len(packets) : packets'[k] = packets[k]
          /\ DOMAIN packets = 1..Len(packets)
          /\ DOMAIN packets' = 1..(Len(packets) + 1)
      BY <1>1, <2>2
    <3>2. \A k \in 1..Len(packets) :
             packets[k].sequence_number + packets[k].block_count \in Nat
      <4>1. \A q \in Packets : q.sequence_number + q.block_count \in Nat
        BY DEF Packets
      <4>2. \A k \in 1..Len(packets) : packets[k] \in Packets
        BY <1>1
      <4> QED
        BY <4>1, <4>2
    <3>3. first_block_' \in Nat
      BY <1>4 DEF PacerTypeOK
    <3>4. ASSUME NEW k \in 1..Len(packets')
          PROVE  packets'[k].sequence_number + packets'[k].block_count
                    <= first_block_'
      <4>1. CASE k = Len(packets) + 1
        BY <2>2, <3>1, <3>3, <4>1
      <4>2. CASE k # Len(packets) + 1
        <5>1. k \in 1..Len(packets)
          BY <3>1, <4>2
        <5>2. packets[k].sequence_number + packets[k].block_count
                 <= first_block_
          BY <1>1, <5>1 DEF PacketsPast
        <5> QED
          BY <1>1, <2>2, <3>1, <3>2, <3>3, <5>1, <5>2
      <4> QED
        BY <4>1, <4>2
    <3>5. Range(packets) \subseteq Range(packets') /\ p \in Range(packets')
      BY <3>1 DEF Range
    <3>6. wire \in Seq(Range(packets'))
      BY <1>1, <3>5
    <3>7. wire' \in Seq(Range(packets'))
      BY <2>2, <3>5, <3>6
    <3> QED
      BY <3>4, <3>7 DEF PacketsPast
  <2> QED
    BY <1>1, <1>2, <2>1, <2>2, SenderSends
<1>6. OffsetsAddUp' /\ NoGapYet'
  BY <1>3, ChannelKept
<1>7. FeedTypeOK'
  BY <1>2, <1>3, <1>4, <1>5 DEF FeedInv, FeedTypeOK
<1> QED
  BY <1>4, <1>5, <1>6, <1>7 DEF FeedInv
-----------------------------------------------------------------------------
(* handle_received.                                                        *)
\* The messages handled, before and after a packet.
LEMMA DeliveredTyped ==
  ASSUME handled \in Seq(Calls)
  PROVE  /\ Delivered \in Seq(Messages) /\ Len(Delivered) = Len(handled)
         /\ \A i \in 1..Len(handled) : Delivered[i] = handled[i].message
<1>1. \A i \in 1..Len(handled) : handled[i].message \in Messages
  <2>1. \A c \in Calls : c.message \in Messages
    BY DEF Calls
  <2> QED
    BY <2>1
<1>2. DOMAIN handled = 1..Len(handled) /\ Len(handled) \in Nat
  OBVIOUS
<1> QED
  BY <1>1, <1>2 DEF Delivered

LEMMA HandlerCallsTyped ==
  ASSUME NEW blocks \in Seq(Messages),
         expected_sequence_number_ \in 0..MaxCount, message_offset_ \in Nat
  PROVE  LET calls == HandlerCalls(blocks)
         IN  /\ calls \in Seq(Calls) /\ Len(calls) = Len(blocks)
             /\ \A i \in 1..Len(blocks) :
                   /\ calls[i].offset
                         = message_offset_ + LengthOf(blocks, i - 1)
                   /\ calls[i].message = blocks[i]
<1>0. Len(blocks) \in Nat
  OBVIOUS
<1>1. ASSUME NEW i \in 1..Len(blocks)
      PROVE  LengthOf(blocks, i - 1) \in Nat /\ blocks[i] \in Messages
  <2>1. i - 1 \in 0..Len(blocks)
    BY <1>0
  <2> QED
    BY <2>1, LengthIsNat
<1>2. \A i \in 1..Len(blocks) :
         [seqno |-> expected_sequence_number_,
          offset |-> message_offset_ + LengthOf(blocks, i - 1),
          message |-> blocks[i]] \in Calls
  BY <1>1 DEF Calls
<1> QED
  BY <1>0, <1>2 DEF HandlerCalls

LEMMA PacketDelivered ==
  ASSUME handled \in Seq(Calls), NEW blocks \in Seq(Messages),
         expected_sequence_number_ \in 0..MaxCount, message_offset_ \in Nat,
         handled' = handled \o HandlerCalls(blocks)
  PROVE  /\ handled' \in Seq(Calls)
         /\ Len(handled') = Len(handled) + Len(blocks)
         /\ Delivered' = Delivered \o blocks
         /\ \A i \in 1..Len(handled) : handled'[i] = handled[i]
         /\ \A i \in 1..Len(blocks) :
               LET call == handled'[Len(handled) + i]
               IN  /\ call.offset = message_offset_ + LengthOf(blocks, i - 1)
                   /\ call.message = blocks[i]
<1> DEFINE calls == HandlerCalls(blocks)
           n == Len(handled)
<1>1. n \in Nat /\ Len(blocks) \in Nat
  OBVIOUS
<1>2. /\ calls \in Seq(Calls) /\ Len(calls) = Len(blocks)
      /\ \A i \in 1..Len(blocks) :
            /\ calls[i].offset = message_offset_ + LengthOf(blocks, i - 1)
            /\ calls[i].message = blocks[i]
  BY HandlerCallsTyped
<1> HIDE DEF calls
<1>3. /\ handled' \in Seq(Calls) /\ Len(handled') = n + Len(blocks)
      /\ \A i \in 1..n : handled'[i] = handled[i]
      /\ \A i \in 1..Len(blocks) : handled'[n + i] = calls[i]
  <2>1. handled' = handled \o calls
    BY DEF calls
  <2>2. /\ handled \o calls \in Seq(Calls)
        /\ Len(handled \o calls) = n + Len(blocks)
        /\ \A i \in 1..(n + Len(blocks)) : (handled \o calls)[i] =
              IF i <= n THEN handled[i] ELSE calls[i - n]
    <3>1. calls \in Seq(Calls) /\ Len(calls) = Len(blocks)
      BY <1>2
    <3> QED
      BY <3>1, ConcatProperties
  <2> HIDE DEF n
  <2>3. ASSUME NEW i \in 1..n PROVE handled'[i] = handled[i]
    BY <1>1, <2>1, <2>2
  <2>4. ASSUME NEW i \in 1..Len(blocks) PROVE handled'[n + i] = calls[i]
    <3>1. n + i \in 1..(n + Len(blocks)) /\ ~(n + i <= n) /\ (n + i) - n = i
      BY <1>1
    <3> QED
      BY <2>1, <2>2, <3>1
  <2> QED
    BY <2>1, <2>2, <2>3, <2>4
<1>4. Delivered' = Delivered \o blocks
  <2>1. /\ Delivered \in Seq(Messages) /\ Len(Delivered) = n
        /\ \A i \in 1..n : Delivered[i] = handled[i].message
    BY DeliveredTyped
  <2>2. /\ Delivered' \in Seq(Messages) /\ Len(Delivered') = n + Len(blocks)
        /\ \A i \in 1..(n + Len(blocks)) : Delivered'[i] = handled'[i].message
    <3>1. \A i \in 1..Len(handled') : handled'[i].message \in Messages
      <4>1. \A c \in Calls : c.message \in Messages
        BY DEF Calls
      <4> QED
        BY <1>3, <4>1
    <3>2. DOMAIN handled' = 1..Len(handled') /\ Len(handled') \in Nat
      BY <1>3
    <3> QED
      BY <1>3, <3>1, <3>2 DEF Delivered
  <2>3. ASSUME NEW i \in 1..(n + Len(blocks))
        PROVE  Delivered'[i] = (Delivered \o blocks)[i]
    <3>1. (Delivered \o blocks)[i] =
             IF i <= n THEN Delivered[i] ELSE blocks[i - n]
      BY <2>1, ConcatProperties
    <3>2. CASE i <= n
      <4>1. i \in 1..n
        BY <1>1, <3>2
      <4>2. Delivered'[i] = handled'[i].message
        BY <2>2
      <4> QED
        BY <1>3, <2>1, <3>1, <3>2, <4>1, <4>2
    <3>3. CASE ~ (i <= n)
      <4>1. i - n \in 1..Len(blocks) /\ n + (i - n) = i
        BY <1>1, <3>3
      <4>2. handled'[i].message = blocks[i - n]
        <5> DEFINE j == i - n
        <5>1. j \in 1..Len(blocks) /\ n + j = i
          BY <4>1
        <5> HIDE DEF j, n
        <5>2. calls[j].message = blocks[j]
          BY <1>2, <5>1
        <5>3. handled'[n + j] = calls[j]
          BY <1>3, <5>1
        <5>4. handled'[i].message = blocks[j]
          BY <5>1, <5>2, <5>3
        <5> QED
          BY <5>4 DEF j
      <4> QED
        BY <2>2, <3>1, <3>3, <4>2
    <3> QED
      BY <3>2, <3>3
  <2>4. /\ Delivered \o blocks \in Seq(Messages)
        /\ Len(Delivered \o blocks) = n + Len(blocks)
    BY <2>1, ConcatProperties
  <2> QED
    BY <2>2, <2>3, <2>4, SeqEqual
<1> QED
  BY <1>2, <1>3, <1>4

LEMMA ReceiveStep ==
  ASSUME FeedInv, Receive
  PROVE  FeedInv'
<1>1. PICK k \in DOMAIN wire :
         /\ handle_received(wire[k]) /\ wire' = RemoveAt(wire, k)
         /\ UNCHANGED <<pacer_vars, done>>
  BY DEF Receive
<1> DEFINE p == wire[k]
           n == Len(handled)
<1>2. /\ wire \in Seq(Range(packets)) /\ handled \in Seq(Calls)
      /\ expected_sequence_number_ \in 0..MaxCount /\ message_offset_ \in Nat
      /\ mismatches \in Nat /\ registered \in BOOLEAN /\ done \in BOOLEAN
  BY DEF FeedInv, FeedTypeOK, Calls
<1>3. p \in Range(packets) /\ wire' \in Seq(Range(packets))
  <2>1. p \in Range(packets)
    BY <1>2
  <2>2. wire' \in Seq(Range(packets))
    BY <1>1, <1>2, WireRemoved
  <2> QED
    BY <2>1, <2>2
<1> HIDE DEF p
<1>4. /\ p \in Packets /\ p.sequence_number \in 0..MaxCount
      /\ p.block_count = Len(p.blocks)
      /\ \A i \in 1..Len(p.blocks) :
            p.blocks[i].count = p.sequence_number + i - 1
      /\ p.sequence_number + p.block_count <= first_block_
      /\ first_block_ <= stream.count /\ stream.count <= MaxCount
  BY <1>3, PacketIsGood DEF FeedInv
<1>5. /\ handled' = handled \o HandlerCalls(p.blocks)
      /\ message_offset_' = message_offset_ + LengthOf(p.blocks, p.block_count)
      /\ expected_sequence_number_' = p.sequence_number + p.block_count
      /\ \/ InSequence(p) /\ UNCHANGED mismatches
         \/ ~InSequence(p) /\ mismatches' = mismatches + 1
      /\ UNCHANGED registered /\ UNCHANGED done
  BY <1>1 DEF handle_received, p
<1>6. p.blocks \in Seq(Messages) /\ Len(p.blocks) \in Nat /\ n \in Nat
  BY <1>2, <1>4 DEF Packets
<1>7. /\ handled' \in Seq(Calls)
      /\ Len(handled') = n + Len(p.blocks)
      /\ Delivered' = Delivered \o p.blocks
      /\ \A i \in 1..n : handled'[i] = handled[i]
      /\ \A i \in 1..Len(p.blocks) :
            LET call == handled'[n + i]
            IN  /\ call.offset = message_offset_ + LengthOf(p.blocks, i - 1)
                /\ call.message = p.blocks[i]
  BY <1>2, <1>5, <1>6, PacketDelivered
<1>8. IInv' /\ PacketsPast' /\ (Range(packets))' = Range(packets)
  BY <1>1, PacerKept
<1>9. /\ Delivered \in Seq(Messages) /\ Len(Delivered) = n
      /\ OffsetsAddUp
  BY <1>2, DeliveredTyped DEF FeedInv
<1>10. LengthOf(p.blocks, p.block_count) \in Nat
  <2>1. p.block_count \in 0..Len(p.blocks)
    BY <1>4, <1>6
  <2> QED
    BY <1>6, <2>1, LengthIsNat
<1>11. FeedTypeOK'
  <2>1. PacerTypeOK'
    BY <1>8 DEF IInv
  <2>2. expected_sequence_number_' \in 0..MaxCount
    <3>1. stream.count \in Nat /\ first_block_ \in Nat
      BY DEF FeedInv, IInv, PacerTypeOK
    <3> QED
      BY <1>4, <1>5, <1>6, <3>1
  <2>3. message_offset_' \in Nat
    BY <1>2, <1>5, <1>10
  <2>4. mismatches' \in Nat
    BY <1>2, <1>5
  <2>5. registered' \in BOOLEAN /\ done' \in BOOLEAN
    BY <1>2, <1>5
  <2> QED
    BY <1>3, <1>7, <1>8, <2>1, <2>2, <2>3, <2>4, <2>5 DEF FeedTypeOK, Calls
<1>12. \A i \in 0..Len(p.blocks) :
          LengthOf(Delivered', n + i) = message_offset_ + LengthOf(p.blocks, i)
  <2>1. \A i \in 0..Len(p.blocks) :
           LengthOf(Delivered \o p.blocks, Len(Delivered) + i)
              = LengthOf(Delivered, Len(Delivered)) + LengthOf(p.blocks, i)
    BY <1>6, <1>9, LengthOfConcat
  <2>2. message_offset_ = LengthOf(Delivered, Len(Delivered))
    BY <1>9 DEF OffsetsAddUp
  <2> QED
    BY <1>7, <1>9, <2>1, <2>2
<1>13. OffsetsAddUp'
  <2>1. message_offset_' = LengthOf(Delivered', Len(handled'))
    <3>1. Len(p.blocks) \in 0..Len(p.blocks)
      BY <1>6
    <3> QED
      BY <1>4, <1>5, <1>7, <1>12, <3>1
  <2>2. ASSUME NEW i \in 1..Len(handled')
        PROVE  handled'[i].offset = LengthOf(Delivered', i - 1)
    <3>1. CASE i \in 1..n
      <4>1. i - 1 \in 0..Len(Delivered)
        BY <1>6, <1>9, <3>1
      <4>2. LengthOf(Delivered', i - 1) = LengthOf(Delivered, i - 1)
        BY <1>6, <1>7, <1>9, <4>1, LengthOfPrefix
      <4> QED
        BY <1>7, <1>9, <3>1, <4>2 DEF OffsetsAddUp
    <3>2. CASE i \notin 1..n
      <4> DEFINE j == i - n
      <4>1. /\ j \in 1..Len(p.blocks) /\ n + j = i
            /\ j - 1 \in 0..Len(p.blocks) /\ n + (j - 1) = i - 1
        BY <1>6, <1>7, <3>2
      <4> HIDE DEF j, n
      <4>2. handled'[i].offset = message_offset_ + LengthOf(p.blocks, j - 1)
        BY <1>7, <4>1
      <4>3. LengthOf(Delivered', i - 1)
               = message_offset_ + LengthOf(p.blocks, j - 1)
        BY <1>12, <4>1
      <4> QED
        BY <4>2, <4>3
    <3> QED
      BY <3>1, <3>2
  <2> QED
    BY <2>1, <2>2 DEF OffsetsAddUp
<1>14. NoGapYet'
  <2> SUFFICES ASSUME mismatches' = 0
               PROVE  /\ expected_sequence_number_' = Len(handled')
                      /\ \A i \in 1..Len(handled') :
                            handled'[i].message.count = i - 1
    BY DEF NoGapYet
  <2>1. mismatches = 0 /\ p.sequence_number = expected_sequence_number_
    BY <1>2, <1>5 DEF InSequence
  <2>2. /\ p.sequence_number = n
        /\ \A i \in 1..n : handled[i].message.count = i - 1
    BY <2>1 DEF FeedInv, NoGapYet
  <2>3. ASSUME NEW i \in 1..Len(handled')
        PROVE  handled'[i].message.count = i - 1
    <3>1. CASE i \in 1..n
      BY <1>7, <2>2, <3>1
    <3>2. CASE i \notin 1..n
      <4> DEFINE j == i - n
      <4>1. j \in 1..Len(p.blocks) /\ n + j = i /\ n + j - 1 = i - 1
        BY <1>6, <1>7, <3>2
      <4> HIDE DEF j, n
      <4>2. handled'[i].message = p.blocks[j]
        BY <1>7, <4>1
      <4>3. p.blocks[j].count = n + j - 1
        BY <1>4, <2>2, <4>1
      <4> QED
        BY <4>1, <4>2, <4>3
    <3> QED
      BY <3>1, <3>2
  <2>4. expected_sequence_number_' = Len(handled')
    BY <1>4, <1>5, <1>7, <2>2
  <2> QED
    BY <2>3, <2>4
<1> QED
  BY <1>8, <1>11, <1>13, <1>14 DEF FeedInv

LEMMA NextFeedInv == FeedInv /\ [FeedNext]_feed_vars => FeedInv'
<1> SUFFICES ASSUME FeedInv, [FeedNext]_feed_vars PROVE FeedInv'
  OBVIOUS
<1>1. /\ wire \in Seq(Range(packets)) /\ done \in BOOLEAN
      /\ registered \in BOOLEAN
  BY DEF FeedInv, FeedTypeOK
<1>2. CASE Sender
  BY <1>2, SenderStep
<1>3. CASE EndOfReplay
  BY <1>1, <1>3, NetworkStep DEF EndOfReplay, channel_vars
<1>4. CASE Receive
  BY <1>4, ReceiveStep
<1>5. CASE Lose
  <2>1. PICK k \in DOMAIN wire : wire' = RemoveAt(wire, k)
    BY <1>5 DEF Lose
  <2>2. wire' \in Seq(Range(packets))
    BY <1>1, <2>1, WireRemoved
  <2> QED
    BY <1>1, <1>5, <2>2, NetworkStep DEF Lose, channel_vars
<1>6. CASE Duplicate
  <2>1. PICK k \in DOMAIN wire : wire' = InsertAt(wire, k, wire[k])
    BY <1>6 DEF Duplicate
  <2>2. wire[k] \in Range(packets)
    BY <1>1
  <2>3. wire' \in Seq(Range(packets))
    BY <1>1, <2>1, <2>2, WireInserted
  <2> QED
    BY <1>1, <1>6, <2>3, NetworkStep DEF Duplicate, channel_vars
<1>7. CASE ReceiveError
  <2>1. registered' \in BOOLEAN
    BY <1>7 DEF ReceiveError, handle_error
  <2>2. UNCHANGED <<expected_sequence_number_, message_offset_, handled,
                    mismatches>>
    BY <1>7 DEF ReceiveError, handle_error
  <2>3. UNCHANGED pacer_vars /\ UNCHANGED <<wire, done>>
    BY <1>7 DEF ReceiveError
  <2> QED
    BY <1>1, <2>1, <2>2, <2>3, NetworkStep
<1>8. CASE UNCHANGED feed_vars
  BY <1>1, <1>8, NetworkStep DEF feed_vars, channel_vars
<1> QED
  BY <1>2, <1>3, <1>4, <1>5, <1>6, <1>7, <1>8 DEF FeedNext
-----------------------------------------------------------------------------
(* The numbers, offsets and messages of the channel stay in their ranges,  *)
(* and only packets that were sent are on the wire, however often.         *)
THEOREM FeedTyped == FeedSpec => []FeedTypeOK
<1>1. FeedInv => FeedTypeOK
  BY DEF FeedInv
<1> QED
  BY <1>1, InitFeedInv, NextFeedInv, PTL DEF FeedSpec

(* Whatever is lost, doubled or overtaken: while the channel has reported  *)
(* no mismatch, its handler got the first messages of the stream, each     *)
(* once, in order, with the offset it has in the stream.                   *)
THEOREM GapsReported == FeedSpec => []NoSilentGap
<1>1. FeedInv => NoSilentGap
  <2> SUFFICES ASSUME FeedInv, mismatches = 0, NEW i \in DOMAIN handled
               PROVE  /\ Delivered[i].count = i - 1
                      /\ handled[i].offset = LengthOf(Delivered, i - 1)
    BY DEF NoSilentGap
  <2>1. handled \in Seq(Calls)
    BY DEF FeedInv, FeedTypeOK, Calls
  <2>2. i \in 1..Len(handled)
    BY <2>1
  <2>3. Delivered[i] = handled[i].message
    BY <2>1, <2>2, DeliveredTyped
  <2> QED
    BY <2>2, <2>3 DEF FeedInv, NoGapYet, OffsetsAddUp
<1> QED
  BY <1>1, InitFeedInv, NextFeedInv, PTL DEF FeedSpec

(* The receiver and the network do not disturb the pacer: what was proved  *)
(* of it alone holds in the feed.                                          *)
THEOREM FeedImplementsPacer == FeedSpec => PacerSpec
<1>1. FeedInit => PacerInit
  BY DEF FeedInit
<1>2. [FeedNext]_feed_vars => [PacerNext]_pacer_vars
  BY DEF FeedNext, feed_vars, Sender, EndOfReplay, Receive, Lose, Duplicate,
         ReceiveError
<1> QED
  BY <1>1, <1>2, PTL DEF FeedSpec, PacerSpec
-----------------------------------------------------------------------------
(* A perfect network.                                                      *)
Perfect == NetworkFaults = {}

LEMMA InitWireInOrder == FeedInit => WireInOrder
  BY DEF FeedInit, PacerInit, ChannelInit, WireInOrder, WireNumber

LEMMA OldestRemoved ==
  ASSUME NEW S, NEW w \in Seq(S), w # << >>
  PROVE  /\ RemoveAt(w, 1) = Tail(w)
         /\ Len(Tail(w)) = Len(w) - 1
         /\ \A k \in 1..(Len(w) - 1) : Tail(w)[k] = w[k + 1]
<1>1. SubSeq(w, 1, 1 - 1) = << >>
  BY SubSeqEmpty
<1>2. SubSeq(w, 1 + 1, Len(w)) = Tail(w)
  BY TailIsSubSeq
<1>3. Tail(w) \in Seq(S)
  BY HeadTailProperties
<1>4. << >> \o Tail(w) = Tail(w)
  BY <1>3, ConcatEmptySeq
<1>5. RemoveAt(w, 1) = Tail(w)
  BY <1>1, <1>2, <1>4 DEF RemoveAt
<1>6. Len(Tail(w)) = Len(w) - 1 /\ \A k \in 1..(Len(w) - 1) : Tail(w)[k] = w[k + 1]
  OBVIOUS
<1> QED
  BY <1>5, <1>6

LEMMA SenderInOrder ==
  ASSUME FeedInv, WireInOrder, Sender
  PROVE  WireInOrder'
<1>1. /\ IInv /\ wire \in Seq(Range(packets)) /\ PacerNext
      /\ wire' = wire \o SubSeq(packets', Len(packets) + 1, Len(packets'))
      /\ UNCHANGED <<expected_sequence_number_, mismatches>>
  BY DEF FeedInv, FeedTypeOK, Sender, channel_vars
<1>2. CASE UNCHANGED <<packets, wire, first_block_>>
  BY <1>1, <1>2 DEF WireInOrder, WireNumber
<1>3. ASSUME NEW p \in Packets, wire' = Append(wire, p),
             p.sequence_number = first_block_,
             p.sequence_number + p.block_count = first_block_'
      PROVE  WireInOrder'
  <2> DEFINE n == Len(wire)
  <2>1. /\ Len(wire') = n + 1 /\ n \in Nat /\ wire'[n + 1] = p
        /\ \A k \in 1..n : wire'[k] = wire[k]
    <3> DEFINE M == Range(packets) \cup {p}
    <3>1. wire \in Seq(M) /\ p \in M
      BY <1>1
    <3> HIDE DEF M
    <3> QED
      BY <1>3, <3>1
  <2>2. \A k \in 1..(n + 1) : (WireNumber(k))' = WireNumber(k)
    BY <1>1, <2>1 DEF WireNumber
  <2>3. ASSUME NEW k \in 1..Len(wire')
        PROVE  wire'[k].sequence_number = (WireNumber(k))'
    <3>1. CASE k = n + 1
      BY <1>3, <2>1, <2>2, <3>1 DEF WireInOrder
    <3>2. CASE k # n + 1
      <4>1. k \in 1..n
        BY <2>1, <3>2
      <4> QED
        BY <2>1, <2>2, <4>1 DEF WireInOrder
    <3> QED
      BY <3>1, <3>2
  <2>4. first_block_' = (WireNumber(Len(wire) + 1))'
    BY <1>3, <2>1 DEF WireNumber
  <2> QED
    BY <1>1, <2>3, <2>4 DEF WireInOrder
<1> QED
  BY <1>1, <1>2, <1>3, SenderSends

LEMMA ReceiveInOrder ==
  ASSUME Perfect, FeedInv, WireInOrder, Receive
  PROVE  /\ WireInOrder'
         /\ wire # << >> /\ wire[1].sequence_number = expected_sequence_number_
         /\ handle_received(wire[1])
<1>1. /\ wire \in Seq(Range(packets))
  BY DEF FeedInv, FeedTypeOK
<1>2. /\ wire # << >> /\ handle_received(wire[1]) /\ wire' = RemoveAt(wire, 1)
      /\ UNCHANGED pacer_vars
  BY <1>1 DEF Receive, Perfect
<1>3. Len(wire) \in Nat /\ Len(wire) >= 1
  BY <1>1, <1>2
<1>4. wire[1].sequence_number = expected_sequence_number_
  BY <1>3 DEF WireInOrder, WireNumber
<1>5. /\ Len(wire') = Len(wire) - 1
      /\ \A k \in 1..(Len(wire) - 1) : wire'[k] = wire[k + 1]
  BY <1>1, <1>2, OldestRemoved
<1>6. /\ mismatches' = 0
      /\ expected_sequence_number_' = wire[1].sequence_number + wire[1].block_count
      /\ first_block_' = first_block_
  BY <1>2, <1>4 DEF handle_received, InSequence, WireInOrder, pacer_vars, queue
<1>7. \A k \in 1..Len(wire) : (WireNumber(k))' = WireNumber(k + 1)
  <2> SUFFICES ASSUME NEW k \in 1..Len(wire)
               PROVE  (WireNumber(k))' = WireNumber(k + 1)
    OBVIOUS
  <2>1. CASE k = 1
    BY <1>6, <2>1 DEF WireNumber
  <2>2. CASE k # 1
    <3>1. /\ k - 1 \in 1..(Len(wire) - 1) /\ (k - 1) + 1 = k /\ k + 1 # 1
          /\ (k + 1) - 1 = k
      BY <1>3, <2>2
    <3>2. wire'[k - 1] = wire[k]
      BY <1>5, <3>1
    <3> QED
      BY <2>2, <3>1, <3>2 DEF WireNumber
  <2> QED
    BY <2>1, <2>2
<1>8. ASSUME NEW k \in 1..Len(wire')
      PROVE  wire'[k].sequence_number = (WireNumber(k))'
  <2>1. k \in 1..(Len(wire) - 1) /\ k \in 1..Len(wire) /\ k + 1 \in 1..Len(wire)
    BY <1>3, <1>5
  <2> QED
    BY <1>5, <1>7, <2>1 DEF WireInOrder
<1>9. first_block_' = (WireNumber(Len(wire) + 1))'
  <2>1. Len(wire') + 1 = Len(wire) /\ Len(wire) \in 1..Len(wire)
    BY <1>3, <1>5
  <2>2. first_block_ = WireNumber(Len(wire) + 1)
    BY DEF WireInOrder
  <2>3. \A m : m = Len(wire) => (WireNumber(m))' = WireNumber(m + 1)
    BY <1>7, <2>1
  <2>4. (WireNumber(Len(wire) + 1))' = WireNumber(Len(wire) + 1)
    BY <2>1, <2>3
  <2> QED
    BY <1>6, <2>2, <2>4
<1>10. WireInOrder'
  BY <1>6, <1>8, <1>9 DEF WireInOrder
<1> QED
  BY <1>2, <1>4, <1>10

LEMMA NextWireInOrder ==
  ASSUME Perfect
  PROVE  FeedInv /\ WireInOrder /\ [FeedNext]_feed_vars => WireInOrder'
<1> SUFFICES ASSUME FeedInv, WireInOrder, [FeedNext]_feed_vars
             PROVE  WireInOrder'
  OBVIOUS
<1>1. ~ Lose /\ ~ Duplicate
  BY DEF Perfect, Lose, Duplicate
<1>2. ASSUME UNCHANGED <<expected_sequence_number_, mismatches, wire,
                         first_block_>>
      PROVE  WireInOrder'
  BY <1>2 DEF WireInOrder, WireNumber
<1>3. CASE EndOfReplay
  BY <1>2, <1>3 DEF EndOfReplay, channel_vars, pacer_vars, queue
<1>4. CASE ReceiveError
  BY <1>2, <1>4 DEF ReceiveError, handle_error, pacer_vars, queue
<1>5. CASE UNCHANGED feed_vars
  BY <1>2, <1>5 DEF feed_vars, channel_vars, pacer_vars, queue
<1> QED
  BY <1>1, <1>3, <1>4, <1>5, SenderInOrder, ReceiveInOrder DEF FeedNext

(* On a perfect network only the queue of the pacer has not been handled   *)
(* when the sender is gone and nothing is on the way: no packet, and no    *)
(* message of a packet, is left out.                                       *)
THEOREM QueueUnhandled == Perfect => (FeedSpec => []OnlyQueueUnhandled)
<1> SUFFICES ASSUME Perfect PROVE FeedSpec => []OnlyQueueUnhandled
  OBVIOUS
<1>1. FeedInv /\ WireInOrder => OnlyQueueUnhandled
  <2> SUFFICES ASSUME FeedInv, WireInOrder, wire = << >>
               PROVE  Accepted = Len(handled) + block_count_
    BY DEF OnlyQueueUnhandled
  <2>1. first_block_ = expected_sequence_number_
    BY DEF WireInOrder, WireNumber
  <2>2. expected_sequence_number_ = Len(handled)
    BY DEF FeedInv, NoGapYet, WireInOrder
  <2>3. first_block_ + block_count_ = Accepted
    BY DEF FeedInv, IInv, QueueInOrder
  <2> QED
    BY <2>1, <2>2, <2>3
<1> QED
  BY <1>1, InitFeedInv, NextFeedInv, InitWireInOrder, NextWireInOrder, PTL
     DEF FeedSpec
-----------------------------------------------------------------------------
(* The refinement: what the sender has read of its file is produced, what  *)
(* the handler got is consumed.                                            *)
produced_ == [i \in 1..stream.count |-> i - 1]
consumed_ == [i \in DOMAIN handled |-> handled[i].message.count]

\* The first n messages.
FirstCounts(n) == [i \in 1..n |-> i - 1]

LEMMA FirstCountsTyped ==
  ASSUME NEW n \in Nat
  PROVE  /\ FirstCounts(n) \in Seq(Int) /\ Len(FirstCounts(n)) = n
         /\ \A i \in 1..n : FirstCounts(n)[i] = i - 1
  BY DEF FirstCounts

LEMMA PrefixOfCounts ==
  ASSUME NEW n \in Nat, NEW m \in 0..n
  PROVE  SubSeq(FirstCounts(n), 1, m) = FirstCounts(m)
<1> DEFINE s == SubSeq(FirstCounts(n), 1, m)
           t == FirstCounts(m)
<1>1. /\ FirstCounts(n) \in Seq(Int)
      /\ \A i \in 1..n : FirstCounts(n)[i] = i - 1
      /\ t \in Seq(Int) /\ Len(t) = m /\ \A i \in 1..m : t[i] = i - 1
  BY FirstCountsTyped
<1>2. /\ 1 \in Int /\ m \in Int /\ \A i \in 1..m : FirstCounts(n)[i] \in Int
  BY <1>1
<1>3. /\ s \in Seq(Int)
      /\ Len(s) = IF 1 <= m THEN m - 1 + 1 ELSE 0
      /\ \A i \in 1..(m - 1 + 1) : s[i] = FirstCounts(n)[1 + i - 1]
  BY <1>2, SubSeqProperties
<1>4. Len(s) = m
  BY <1>2, <1>3
<1>5. ASSUME NEW i \in 1..m PROVE s[i] = t[i]
  <2>1. i \in 1..(m - 1 + 1) /\ 1 + i - 1 = i /\ i \in 1..n
    OBVIOUS
  <2> QED
    BY <1>1, <1>3, <2>1
<1> HIDE DEF s, t
<1>6. s = t
  BY <1>1, <1>3, <1>4, <1>5, SeqEqual
<1> QED
  BY <1>6 DEF s, t

LEMMA CountsAppended ==
  ASSUME NEW n \in Nat
  PROVE  Append(FirstCounts(n), n) = FirstCounts(n + 1)
<1>1. /\ FirstCounts(n) \in Seq(Int) /\ Len(FirstCounts(n)) = n
      /\ \A i \in 1..n : FirstCounts(n)[i] = i - 1
      /\ FirstCounts(n + 1) \in Seq(Int) /\ Len(FirstCounts(n + 1)) = n + 1
      /\ \A i \in 1..(n + 1) : FirstCounts(n + 1)[i] = i - 1
  BY FirstCountsTyped
<1>2. /\ Append(FirstCounts(n), n) \in Seq(Int)
      /\ Len(Append(FirstCounts(n), n)) = n + 1
      /\ \A i \in 1..(n + 1) : Append(FirstCounts(n), n)[i] = i - 1
  BY <1>1
<1> QED
  BY <1>1, <1>2, SeqEqual

LEMMA StrictPrefixOfCounts ==
  ASSUME NEW n \in Nat, NEW m \in 0..n, m # n
  PROVE  IsStrictPrefix(FirstCounts(m), FirstCounts(n))
<1>1. Len(FirstCounts(m)) = m /\ Len(FirstCounts(n)) = n /\ m \in Nat
  BY FirstCountsTyped
<1>2. SubSeq(FirstCounts(n), 1, m) = FirstCounts(m)
  BY PrefixOfCounts
<1>3. SubSeq(FirstCounts(m), 1, m) = FirstCounts(m)
  BY <1>1, PrefixOfCounts
<1> QED
  BY <1>1, <1>2, <1>3 DEF IsStrictPrefix, IsPrefix

LEMMA CountsHandled ==
  ASSUME NEW calls \in Seq(Calls),
         \A i \in 1..Len(calls) : calls[i].message.count = i - 1
  PROVE  /\ [i \in DOMAIN calls |-> calls[i].message.count]
               = FirstCounts(Len(calls))
         /\ Len(calls) \in Nat
<1>1. DOMAIN calls = 1..Len(calls) /\ Len(calls) \in Nat
  OBVIOUS
<1> QED
  BY <1>1 DEF FirstCounts

\* A message counts once it is read; a packet with messages is consumed.
LEMMA PacerMapped ==
  ASSUME FeedInv, PacerNext
  PROVE  \/ stream' = stream
         \/ stream.count < MaxCount /\ stream'.count = stream.count + 1
<1>1. ASSUME NEW len, NEW gap, handle_message(len, gap)
      PROVE  stream'.count = stream.count + 1
  BY <1>1 DEF handle_message
<1> QED
  BY <1>1 DEF PacerNext, flush, heartbeat

LEMMA ReceiveMapped ==
  ASSUME Perfect, FeedInv, WireInOrder, Receive
  PROVE  /\ stream' = stream
         /\ \/ handled' = handled
            \/ Len(handled) < Len(handled') /\ Len(handled') <= stream.count
<1> DEFINE p == wire[1]
<1>1. /\ wire # << >> /\ p.sequence_number = expected_sequence_number_
      /\ handle_received(p)
  BY ReceiveInOrder
<1>2. /\ wire \in Seq(Range(packets)) /\ handled \in Seq(Calls)
      /\ expected_sequence_number_ \in 0..MaxCount /\ message_offset_ \in Nat
  BY DEF FeedInv, FeedTypeOK, Calls
<1>3. p \in Range(packets)
  BY <1>1, <1>2
<1> HIDE DEF p
<1>4. /\ p \in Packets /\ p.block_count = Len(p.blocks)
      /\ p.sequence_number + p.block_count <= first_block_
      /\ first_block_ <= stream.count
  BY <1>3, PacketIsGood DEF FeedInv
<1>5. p.blocks \in Seq(Messages) /\ Len(p.blocks) \in Nat
  BY <1>4 DEF Packets
<1>6. handled' = handled \o HandlerCalls(p.blocks)
  BY <1>1 DEF handle_received
<1>7. Len(handled') = Len(handled) + Len(p.blocks) /\ Len(handled) \in Nat
  <2>1. /\ HandlerCalls(p.blocks) \in Seq(Calls)
        /\ Len(HandlerCalls(p.blocks)) = Len(p.blocks)
    BY <1>2, <1>5, HandlerCallsTyped
  <2>2. handled \in Seq(Calls)
    BY <1>2
  <2> DEFINE calls == HandlerCalls(p.blocks)
  <2> HIDE DEF calls
  <2>3. Len(handled \o calls) = Len(handled) + Len(calls)
    BY <2>1, <2>2, ConcatProperties DEF calls
  <2>4. Len(handled) \in Nat
    BY <2>2
  <2> QED
    BY <1>6, <2>1, <2>3, <2>4 DEF calls
<1>8. expected_sequence_number_ = Len(handled)
  BY DEF FeedInv, NoGapYet, WireInOrder
<1>9. Len(handled') <= stream.count
  <2>1. first_block_ \in Nat /\ stream.count \in Nat
    BY DEF FeedInv, IInv, PacerTypeOK
  <2> QED
    BY <1>1, <1>4, <1>5, <1>7, <1>8, <2>1
<1>10. CASE Len(p.blocks) = 0
  <2>1. HandlerCalls(p.blocks) = << >>
    BY <1>10 DEF HandlerCalls
  <2>2. handled' = handled
    BY <1>2, <1>6, <2>1, ConcatEmptySeq
  <2> QED
    BY <2>2 DEF Receive, pacer_vars
<1>11. CASE Len(p.blocks) # 0
  <2>1. Len(handled) < Len(handled')
    BY <1>5, <1>7, <1>11
  <2> QED
    BY <1>9, <2>1 DEF Receive, pacer_vars
<1> QED
  BY <1>10, <1>11

LEMMA StreamInit == FeedInit => Stream!Init
  BY DEF FeedInit, PacerInit, ChannelInit, Stream!Init

LEMMA StreamStep ==
  ASSUME Perfect, FeedInv, WireInOrder, FeedInv', WireInOrder',
         [FeedNext]_feed_vars
  PROVE  [Stream!Next]_(Stream!vars)
<1>1. /\ produced_ = FirstCounts(stream.count) /\ stream.count \in 0..MaxCount
      /\ consumed_ = FirstCounts(Len(handled)) /\ Len(handled) \in Nat
  <2>1. handled \in Seq(Calls) /\ stream.count \in 0..MaxCount
    BY DEF FeedInv, FeedTypeOK, Calls, PacerTypeOK
  <2>2. \A i \in 1..Len(handled) : handled[i].message.count = i - 1
    BY DEF FeedInv, NoGapYet, WireInOrder
  <2> QED
    BY <2>1, <2>2, CountsHandled DEF produced_, consumed_, FirstCounts
<1>2. /\ produced_' = FirstCounts(stream'.count)
      /\ consumed_' = FirstCounts(Len(handled')) /\ Len(handled') \in Nat
  <2>1. handled' \in Seq(Calls)
    BY DEF FeedInv, FeedTypeOK, Calls
  <2>2. \A i \in 1..Len(handled') : handled'[i].message.count = i - 1
    BY DEF FeedInv, NoGapYet, WireInOrder
  <2> QED
    BY <2>1, <2>2, CountsHandled DEF produced_, consumed_, FirstCounts
<1>10. Len(produced_) = stream.count /\ stream.count \in Nat
  BY <1>1, FirstCountsTyped
<1>3. CASE stream' = stream /\ handled' = handled
  BY <1>3 DEF Stream!vars
<1>4. CASE /\ stream.count < MaxCount /\ stream'.count = stream.count + 1
           /\ handled' = handled
  <2>2. produced_' = Append(produced_, Len(produced_))
    BY <1>1, <1>2, <1>4, <1>10, CountsAppended
  <2>3. consumed_' = consumed_
    BY <1>4 DEF consumed_
  <2> QED
    BY <1>4, <1>10, <2>2, <2>3
       DEF Stream!Next, Stream!Produce, produced_, consumed_
<1>5. CASE /\ stream' = stream
           /\ Len(handled) < Len(handled') /\ Len(handled') <= stream.count
  <2> DEFINE n == Len(handled')
  <2>1. /\ n \in 1..stream.count /\ n \in 0..stream.count
        /\ Len(handled) \in 0..n /\ Len(handled) # n /\ n \in Nat
    BY <1>1, <1>2, <1>5, <1>10
  <2>2. consumed_' = SubSeq(produced_, 1, n)
    <3>1. SubSeq(FirstCounts(stream.count), 1, n) = FirstCounts(n)
      BY <1>10, <2>1, PrefixOfCounts
    <3> QED
      BY <1>1, <1>2, <3>1
  <2>3. IsStrictPrefix(consumed_, consumed_')
    BY <1>1, <1>2, <2>1, StrictPrefixOfCounts
  <2>4. produced_' = produced_
    BY <1>5 DEF produced_
  <2> HIDE DEF n
  <2>6. consumed_' \in {SubSeq(produced_, 1, m) : m \in 1..Len(produced_)}
    BY <1>10, <2>1, <2>2
  <2>7. Stream!IsStrictPrefix(consumed_, consumed_')
    BY <2>3 DEF Stream!IsStrictPrefix, Stream!IsPrefix, IsStrictPrefix, IsPrefix
  <2>8. Stream!Consume
    BY <2>4, <2>6, <2>7 DEF Stream!Consume, produced_, consumed_
  <2> QED
    BY <2>8 DEF Stream!Next
<1>6. CASE Sender
  BY <1>3, <1>4, <1>6, PacerMapped DEF Sender, channel_vars
<1>7. CASE Receive
  BY <1>3, <1>5, <1>7, ReceiveMapped
<1>8. CASE EndOfReplay \/ Lose \/ Duplicate \/ ReceiveError
  BY <1>3, <1>8 DEF EndOfReplay, Lose, Duplicate, ReceiveError, handle_error,
                    pacer_vars, channel_vars
<1>9. CASE UNCHANGED feed_vars
  BY <1>3, <1>9 DEF feed_vars, pacer_vars, channel_vars
<1> QED
  BY <1>6, <1>7, <1>8, <1>9 DEF FeedNext

(* On a perfect network the pacer, the packets and the channel together    *)
(* are a first-in first-out stream of the messages of the file.            *)
THEOREM FeedIsStream == Perfect => (FeedSpec => ImplementsStream)
<1> SUFFICES ASSUME Perfect PROVE FeedSpec => ImplementsStream
  OBVIOUS
<1>1. FeedInv /\ WireInOrder /\ [FeedNext]_feed_vars
         => FeedInv' /\ WireInOrder' /\ [Stream!Next]_(Stream!vars)
  BY NextFeedInv, NextWireInOrder, StreamStep
<1> QED
  BY <1>1, InitFeedInv, InitWireInOrder, StreamInit, PTL
     DEF FeedSpec, ImplementsStream, Stream!Spec
=============================================================================
