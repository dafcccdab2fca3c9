------------------------------ MODULE MoldFeed ------------------------------
(***************************************************************************)
(* A replay and a feed handler: mold_udp_pacer, the network, and           *)
(* mold_udp_channel.  itch5moldreplay and moldreplay read a file, hand     *)
(* every message to the pacer and send its packets over UDP; the channel   *)
(* of moldfeedhandler receives them.  UDP may lose, duplicate and reorder  *)
(* packets, and the receiving socket may report an error.                  *)
(***************************************************************************)
EXTENDS MoldPacer, MoldChannel, FiniteSets

CONSTANTS
    NetworkFaults,   \* what UDP does: {"lost", "duplicated", "reordered"}
    SocketErrors,    \* whether the receiving socket may report an error
    MaxWire,         \* bound: packets in flight when a duplicate is made
    MaxMismatches    \* bound: mismatches reported when a duplicate is made

ASSUME MoldFeedAssumption ==
    /\ NetworkFaults \subseteq {"lost", "duplicated", "reordered"}
    /\ SocketErrors \in BOOLEAN
    /\ MaxWire \in Nat /\ MaxMismatches \in Nat

VARIABLES
    wire,   \* packets in flight, in the order they were sent
    done    \* the sender has returned and its pacer is gone

feed_vars == <<pacer_vars, channel_vars, wire, done>>

FeedInit ==
    /\ PacerInit
    /\ ChannelInit
    /\ wire = << >>
    /\ done = FALSE

\* The sink: whatever the pacer sends goes on the wire.
Sender ==
    /\ ~done
    /\ PacerNext
    /\ wire' = wire \o SubSeq(packets', Len(packets) + 1, Len(packets'))
    /\ UNCHANGED <<channel_vars, done>>

\* process_iostream_mlist returns at the end of the file, an exception leaves
\* it; the pacer is destroyed either way.
EndOfReplay ==
    /\ ~done
    /\ stream.count = MaxCount \/ failed
    /\ done' = TRUE
    /\ UNCHANGED <<pacer_vars, channel_vars, wire>>

\* Without reordering the oldest packet is the one that arrives.
Receive ==
    \E k \in DOMAIN wire :
        /\ k = 1 \/ "reordered" \in NetworkFaults
        /\ handle_received(wire[k])
        /\ wire' = RemoveAt(wire, k)
        /\ UNCHANGED <<pacer_vars, done>>

Lose ==
    /\ "lost" \in NetworkFaults
    /\ \E k \in DOMAIN wire : wire' = RemoveAt(wire, k)
    /\ UNCHANGED <<pacer_vars, channel_vars, done>>

Duplicate ==
    /\ "duplicated" \in NetworkFaults
    /\ Len(wire) < MaxWire /\ mismatches < MaxMismatches
    /\ \E k \in DOMAIN wire : wire' = InsertAt(wire, k, wire[k])
    /\ UNCHANGED <<pacer_vars, channel_vars, done>>

ReceiveError ==
    /\ SocketErrors
    /\ handle_error
    /\ UNCHANGED <<pacer_vars, wire, done>>

FeedNext ==
    Sender \/ EndOfReplay \/ Receive \/ Lose \/ Duplicate \/ ReceiveError

\* The io_service runs the callback of a socket that has data.
FeedSpec == FeedInit /\ [][FeedNext]_feed_vars /\ WF_feed_vars(Receive)
-----------------------------------------------------------------------------
FeedTypeOK ==
    /\ PacerTypeOK
    /\ expected_sequence_number_ \in 0..MaxCount
    /\ message_offset_ \in Nat
    /\ registered \in BOOLEAN
    /\ handled \in Seq([seqno : 0..MaxCount, offset : Nat, message : Messages])
    /\ mismatches \in Nat
    /\ wire \in Seq(Range(packets))
    /\ done \in BOOLEAN

\* The messages the handler got.
Delivered == [i \in DOMAIN handled |-> handled[i].message]

(* No gap goes unreported: as long as no packet was out of sequence, the   *)
(* handler got the messages of the stream from the first one on, each      *)
(* once, in order, with the offset it has in the stream, whatever the      *)
(* network did to later packets.                                           *)
NoSilentGap ==
    mismatches = 0 =>
        \A i \in DOMAIN handled :
            /\ Delivered[i].count = i - 1
            /\ handled[i].offset = LengthOf(Delivered, i - 1)

(* Nothing calls flush() when the file ends, so its last messages stay     *)
(* behind in the queue of the pacer; on a perfect network every other      *)
(* message has been handled once the wire is empty.                        *)
OnlyQueueUnhandled ==
    done /\ wire = << >> =>
        Accepted = Len(handled) + block_count_

(* What the sender sends on a network that loses nothing is handled, as    *)
(* long as the socket works.                                               *)
SentIsHandled ==
    \A n \in 1..MaxCount :
        Len(BlocksSent(Len(packets))) >= n ~> Len(handled) >= n
-----------------------------------------------------------------------------
(* On a perfect network the feed is a first-in first-out stream.           *)
Stream == INSTANCE MessageStream WITH
    produced <- [i \in 1..stream.count |-> i - 1],
    consumed <- [i \in DOMAIN handled |-> handled[i].message.count]
ImplementsStream == Stream!Spec
=============================================================================
