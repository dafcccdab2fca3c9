----------------------------- MODULE MoldPacer -----------------------------
(***************************************************************************)
(* mold_udp_pacer: packs a stream of ITCH-5.x messages into MoldUDP64      *)
(* packets.  Messages close in time share a packet; a packet goes out when *)
(* the next message does not fit, or is max_delay_ later than the last     *)
(* send, in which case the caller also sleeps for that long.               *)
(*                                                                         *)
(* A message is its position in the stream and its length; timestamps and  *)
(* lengths are numbers in units of the model's choosing.  The stream is    *)
(* what process_iostream_mlist produces: consecutive counts from 0, with   *)
(* timestamps that never decrease.                                         *)
(***************************************************************************)
EXTENDS Integers, SequencesExt

CONSTANTS
    max_delay_,     \* config::maximum_delay_microseconds
    mtu_,           \* config::maximum_transmission_unit
    HeaderSize,     \* mold_udp_protocol::header_size
    MaxBlocks,      \* numeric_limits<uint16_t>::max(), limit of block_count_
    Lens,           \* message lengths
    Gaps,           \* times between consecutive messages
    MaxCount,       \* bound: the number of messages of the stream
    MaxIdleSends    \* bound: packets after which heartbeat and flush stop

ASSUME MoldPacerAssumption ==
    /\ max_delay_ \in Nat \ {0} /\ mtu_ \in Nat /\ HeaderSize \in Nat
    /\ mtu_ >= HeaderSize
    /\ MaxBlocks \in Nat \ {0} /\ Lens \subseteq Nat /\ Gaps \subseteq Nat
    /\ MaxCount \in Nat /\ MaxIdleSends \in Nat

VARIABLES
    last_send_,       \* the time of the last send, in message timestamps
    packet_,          \* the blocks in the packet under construction
    packet_size_,     \* its size, header included
    first_block_,     \* the sequence number of its first block
    first_block_ts_,  \* the timestamp of the last block that was a first one
    block_count_,     \* the number of its blocks
    packets,          \* every packet given to the sink so far
    stream,           \* count and timestamp of the message to come and of the
                      \* last one, and how long the sleeper has slept
    failed            \* an assertion ended the stream

queue == <<packet_, packet_size_, first_block_, first_block_ts_, block_count_>>
pacer_vars == <<last_send_, queue, packets, stream, failed>>

PacerInit ==
    /\ last_send_ = 0
    /\ packet_ = << >>
    /\ packet_size_ = HeaderSize
    /\ first_block_ = 0
    /\ first_block_ts_ = 0
    /\ block_count_ = 0
    /\ packets = << >>
    /\ stream = [count |-> 0, ts |-> 0, slept |-> 0]
    /\ failed = FALSE
-----------------------------------------------------------------------------
\* The second assertion of coalesce; the first is about 16-bit lengths.
Fits(len) == len + 2 < mtu_ - HeaderSize

\* Faulty variants: one byte too many, and no limit on the size.
packet_full_off_by_one(len) ==
    \/ len + 2 + packet_size_ > mtu_
    \/ block_count_ = MaxBlocks
packet_full_by_count(len) == block_count_ = MaxBlocks

packet_full(len) ==
    \/ len + 2 + packet_size_ >= mtu_
    \/ block_count_ = MaxBlocks

\* Faulty variant: one tick more than max_delay_.
LateAfterMax(elapsed) == elapsed > max_delay_

Late(elapsed) == elapsed >= max_delay_

\* Faulty variant: the time of the send is not recorded.
SendUntimed(ts) ==
    /\ packets' = Append(packets,
                         [sequence_number |-> first_block_,
                          block_count |-> block_count_,
                          blocks |-> packet_,
                          size |-> packet_size_])
    /\ UNCHANGED last_send_

\* fillup_header_fields, then sink().
Send(ts) ==
    /\ packets' = Append(packets,
                         [sequence_number |-> first_block_,
                          block_count |-> block_count_,
                          blocks |-> packet_,
                          size |-> packet_size_])
    /\ last_send_' = ts

\* Faulty variant: the next sequence number is not advanced.
EmptiedSameNumber ==
    /\ block_count_' = 0
    /\ packet_' = << >>
    /\ packet_size_' = HeaderSize
    /\ UNCHANGED <<first_block_, first_block_ts_>>

\* The rest of flush_impl.
Emptied ==
    /\ first_block_' = first_block_ + block_count_
    /\ block_count_' = 0
    /\ packet_' = << >>
    /\ packet_size_' = HeaderSize
    /\ UNCHANGED first_block_ts_

\* coalesce with an empty queue, and with a packet that has room.
StartPacket(msg, ts) ==
    /\ first_block_' = msg.count
    /\ first_block_ts_' = ts
    /\ packet_' = <<msg>>
    /\ packet_size_' = HeaderSize + msg.len + 2
    /\ block_count_' = 1

AddBlock(msg) ==
    /\ packet_' = Append(packet_, msg)
    /\ packet_size_' = packet_size_ + msg.len + 2
    /\ block_count_' = block_count_ + 1
    /\ UNCHANGED <<first_block_, first_block_ts_>>

(* handle_message: the first message of the stream sets the clock.  A late *)
(* message flushes the queue before it is looked at, another one only when *)
(* the packet is too full for it.                                          *)
handle_message(len, gap) ==
    LET msg == [count |-> stream.count, len |-> len]
        ts == stream.ts + gap
        last == IF msg.count = 0 THEN ts ELSE last_send_
        elapsed == ts - last
        late == Late(elapsed)
        flushed == /\ block_count_ > 0
                   /\ late \/ (Fits(len) /\ packet_full(len))
    IN  /\ stream' = [count |-> msg.count + 1,
                      ts |-> ts,
                      slept |-> stream.slept + IF late THEN elapsed ELSE 0]
        /\ \/ flushed /\ Send(ts)
           \/ ~flushed /\ last_send_' = last /\ UNCHANGED packets
        /\ \/ /\ Fits(len)
              /\ flushed \/ block_count_ = 0
              /\ StartPacket(msg, ts)
              /\ UNCHANGED failed
           \/ /\ Fits(len)
              /\ ~flushed /\ block_count_ > 0
              /\ AddBlock(msg)
              /\ UNCHANGED failed
           \/ /\ ~Fits(len)                                \* JB_ASSERT_THROW
              /\ failed' = TRUE
              /\ \/ flushed /\ Emptied
                 \/ ~flushed /\ UNCHANGED queue

\* flush, from outside: nothing to do on an empty queue.
flush ==
    /\ block_count_ > 0
    /\ Send(stream.ts)
    /\ Emptied
    /\ UNCHANGED <<stream, failed>>

\* heartbeat: a packet even if the queue is empty, and a send time that is
\* the timestamp of the last first block.
heartbeat ==
    /\ Send(first_block_ts_)
    /\ Emptied
    /\ UNCHANGED <<stream, failed>>

PacerNext ==
    /\ ~failed
    /\ \/ /\ stream.count < MaxCount
          /\ \E len \in Lens, gap \in Gaps : handle_message(len, gap)
       \/ Len(packets) < MaxIdleSends /\ flush
       \/ Len(packets) < MaxIdleSends /\ heartbeat

PacerSpec == PacerInit /\ [][PacerNext]_pacer_vars
-----------------------------------------------------------------------------
Messages == [count : 0..(MaxCount - 1), len : Lens]

\* The messages that made it past the assertion, by their counts.
Accepted == stream.count - IF failed THEN 1 ELSE 0

\* All blocks given to the sink, in order.
BlocksSent(upto) == FlattenSeq([k \in 1..upto |-> packets[k].blocks])

PacerTypeOK ==
    /\ last_send_ \in Nat /\ first_block_ \in Nat /\ first_block_ts_ \in Nat
    /\ packet_ \in Seq(Messages)
    /\ packet_size_ \in HeaderSize..mtu_
    /\ block_count_ \in 0..MaxBlocks
    /\ stream \in [count : 0..MaxCount, ts : Nat, slept : Nat]
    /\ failed \in BOOLEAN

\* A header, and every block with the two bytes of its length.
SizeOf(blocks) ==
    HeaderSize + SumFunctionOnSet([i \in DOMAIN blocks |-> blocks[i].len + 2],
                                  DOMAIN blocks)

(* "Maximum MoldUDP message to be sent in a single UDP message": every     *)
(* packet is smaller than mtu_, its size and its block count are those of  *)
(* the blocks in it, and the 16-bit count does not wrap.                   *)
PacketsFit ==
    \A k \in DOMAIN packets :
        LET p == packets[k]
        IN  /\ p.size < mtu_ \/ p.blocks = << >>
            /\ p.block_count = Len(p.blocks)
            /\ p.block_count <= MaxBlocks
            /\ p.size = SizeOf(p.blocks)

(* "enough information to request retransmissions": the packets and the    *)
(* queue carry every message once and in order, and the sequence number of *)
(* every packet, heartbeats included, is the count of the message that     *)
(* follows those of the packets before it.                                 *)
StreamPreserved ==
    LET all == BlocksSent(Len(packets)) \o packet_
    IN  /\ Len(all) = Accepted
        /\ \A i \in DOMAIN all : all[i].count = i - 1
        /\ \A k \in DOMAIN packets :
              packets[k].sequence_number = Len(BlocksSent(k - 1))

(* "Maximum time a MoldUDP packet is delayed before sending it": when the  *)
(* last message has been handled, no block of the queue is older than it   *)
(* by max_delay_ or more, whatever heartbeats did to last_send_.           *)
DelayBounded ==
    block_count_ > 0 => stream.ts - first_block_ts_ < max_delay_

(* "match the original time interval between messages": a replay, which    *)
(* sends no heartbeats, never sleeps longer than the time the stream       *)
(* spans.  (heartbeat moves last_send_ back to the time of the last first  *)
(* block, and the next message then sleeps for that time once more.)       *)
SleepsMatchIntervals == stream.slept <= stream.ts
=============================================================================
