---------------------------- MODULE MoldChannel ----------------------------
(***************************************************************************)
(* mold_udp_channel: breaks MoldUDP64 packets into ITCH-5.0 messages and   *)
(* calls a handler for each of them.  The channel takes packets as they    *)
(* come: it reports a packet out of sequence and processes it all the      *)
(* same.                                                                   *)
(***************************************************************************)
EXTENDS Integers, SequencesExt

VARIABLES
    expected_sequence_number_,
    message_offset_,     \* bytes of the messages handled so far
    registered,          \* a callback is registered with the io_service
    handled,             \* the calls of handler_: <<seqno, offset, message>>
    mismatches           \* packets reported as out of sequence

channel_vars ==
    <<expected_sequence_number_, message_offset_, registered, handled,
      mismatches>>

ChannelInit ==
    /\ expected_sequence_number_ = 0
    /\ message_offset_ = 0
    /\ registered = TRUE
    /\ handled = << >>
    /\ mismatches = 0

\* The length of the first n messages of a packet.
LengthOf(blocks, n) ==
    SumFunctionOnSet([i \in 1..n |-> blocks[i].len], 1..n)

\* Faulty variant: the last block is forgotten.
HandlerCallsButLast(blocks) ==
    [i \in 1..(Len(blocks) - 1) |->
        [seqno |-> expected_sequence_number_,
         offset |-> message_offset_ + LengthOf(blocks, i - 1),
         message |-> blocks[i]]]

\* One call of handler_ per block.
HandlerCalls(blocks) ==
    [i \in 1..Len(blocks) |->
        [seqno |-> expected_sequence_number_,
         offset |-> message_offset_ + LengthOf(blocks, i - 1),
         message |-> blocks[i]]]

\* Faulty variant: only packets from the past are reported.
NotFromThePast(packet) == packet.sequence_number >= expected_sequence_number_

InSequence(packet) == packet.sequence_number = expected_sequence_number_

\* handle_received.  A packet of no bytes only registers the callback again,
\* a stuttering step; so does the end of this handler.
handle_received(packet) ==
    /\ registered
    /\ handled' = handled \o HandlerCalls(packet.blocks)
    /\ message_offset_' =
          message_offset_ + LengthOf(packet.blocks, packet.block_count)
    /\ expected_sequence_number_' =
          packet.sequence_number + packet.block_count
    /\ \/ InSequence(packet) /\ UNCHANGED mismatches
       \/ ~InSequence(packet) /\ mismatches' = mismatches + 1
    /\ UNCHANGED registered

\* An error: no callback is registered again.
handle_error ==
    /\ registered
    /\ registered' = FALSE
    /\ UNCHANGED <<expected_sequence_number_, message_offset_, handled,
                   mismatches>>
=============================================================================
