--------------------------- MODULE RtpSlotRewriter ---------------------------
(***************************************************************************)
(* The rewriter of one receive slot (rtp_slot_rewriter.cpp): it renumbers  *)
(* the RTP packets of the sources that the slot carries one after another, *)
(* so that the subscriber sees a single stream.                            *)
(*                                                                         *)
(* A packet is the n-th of its source; its sequence number and timestamp   *)
(* follow from n and wrap around as on the wire.  The network may lose,    *)
(* duplicate and reorder packets, but holds none back for half the         *)
(* sequence numbers (11 minutes of voice), and send_packets may still      *)
(* bring those of a source that the slot has stopped carrying.  A slot may *)
(* carry a source for as long as it likes.  A malformed packet is refused  *)
(* before any state is read and is left out.                               *)
(*                                                                         *)
(* Three things are kept only to state what the numbers should be: of each *)
(* source the packet that was its first (anchor) and where in the whole    *)
(* stream that went (place), both counted without ever wrapping around,    *)
(* and where the newest packet went (top).  No guard reads them.           *)
(***************************************************************************)
EXTENDS Integers, Sequences, FiniteSets

CONSTANTS
    SequenceNumbers,  \* how many there are: 2^16 on the wire
    Timestamps,       \* how many there are: 2^32 on the wire
    MaxStep,          \* clock_rate * 10, the longest step that is believed
    DefaultStep,      \* default_timestamp_step
    Starts,           \* where a source may start to count both
    Gains,            \* ticks from a packet of a source to its next
    MaxReorder,       \* how many packets late a packet may come
    MaxSources,       \* bound: sources one after another
    MaxPackets,       \* bound: packets of one source
    MaxOut            \* bound: packets let through

ASSUME RewriterConstants ==
    /\ SequenceNumbers \in Nat \ {0} /\ Timestamps \in Nat \ {0}
    /\ MaxStep \in Nat /\ DefaultStep \in 1..MaxStep /\ MaxStep < Timestamps
    /\ Starts \subseteq 0..(SequenceNumbers - 1)
    /\ Starts \subseteq 0..(Timestamps - 1)
    /\ Gains \subseteq 0..(Timestamps - 1)
    /\ MaxReorder \in Nat /\ 2 * MaxReorder <= SequenceNumbers
    /\ MaxSources \in Nat /\ MaxPackets \in Nat /\ MaxOut \in Nat

VARIABLES
    generation,
    source_initialized, output_initialized,
    source_anchor_sequence, sequence_offset, timestamp_offset,
    latest_input,     \* [sequence, timestamp] of the newest packet taken
    latest_output,    \* what it was renumbered to
    timestamp_step,
    sources,          \* the sources so far: where it starts, gain, generation;
                      \* history: its first packet (anchor) and its place
    out,              \* every packet let through, with its new numbers
    top               \* history: the place of latest_output

source == <<source_initialized, source_anchor_sequence, sequence_offset,
            timestamp_offset>>
latest == <<latest_input, latest_output, timestamp_step, output_initialized>>
streamVars == <<generation, source, latest, sources, out, top>>

-----------------------------------------------------------------------------
SequenceSum(a, b) == (a + b) % SequenceNumbers

TimestampSum(a, b) == (a + b) % Timestamps

\* static_cast<int16_t>(a - b)
SequenceDifference(a, b) ==
    LET d == SequenceSum(a, -b) IN
    IF 2 * d < SequenceNumbers THEN d ELSE d - SequenceNumbers

sequence_is_newer(value, reference) == SequenceDifference(value, reference) > 0

\* The n-th packet of the k-th source.
Packet(k, n) ==
    [sequence  |-> SequenceSum(sources[k].first, n),
     timestamp |-> TimestampSum(sources[k].first, n * sources[k].gain)]

\* Where the n-th packet of source k belongs in the whole stream, from where its
\* first one went.  A sequence number tells no more than the distance it stands for.
Place(k, n) ==
    LET from == sources[k] IN
    [sequence  |-> from.place.sequence + SequenceDifference(n, from.anchor),
     timestamp |-> from.place.timestamp + (n - from.anchor) * from.gain]

PlaceOf(x) == Place(x.source, x.index)

\* Mutant: the packets from before a switch are let through.
KeepsBeforeAnchor(packet) == FALSE

\* rewrite's second refusal: older than the first packet of the source.
BeforeAnchor(packet) ==
    source_initialized /\ SequenceDifference(packet.sequence, source_anchor_sequence) < 0

\* Mutant: two packets of one frame make the step zero.
NextStepOfAny(packet) == TimestampSum(packet.timestamp, -latest_input.timestamp)

\* timestamp_step_ after a packet that is newer than all before it.
NextStep(packet) ==
    LET input_delta == TimestampSum(packet.timestamp, -latest_input.timestamp) IN
    IF input_delta > 0 /\ input_delta <= MaxStep THEN input_delta ELSE timestamp_step

\* The first packet of a source continues the stream where it stands.
NextSequence == SequenceSum(latest_output.sequence, 1)
NextTimestamp == TimestampSum(latest_output.timestamp, timestamp_step)

-----------------------------------------------------------------------------
begin_source(first, gain) ==
    /\ Len(sources) < MaxSources
    /\ generation' = generation + 1
    /\ source_initialized' = FALSE
    /\ sources' = Append(sources, [first |-> first, gain |-> gain,
                                   generation |-> generation + 1, anchor |-> 0,
                                   place |-> [sequence |-> 0, timestamp |-> 0]])
    /\ UNCHANGED <<source_anchor_sequence, sequence_offset, timestamp_offset,
                   latest, out, top>>

\* Called when the slot is released, so only while it carries a source.
end_source ==
    /\ sources # <<>> /\ sources[Len(sources)].generation = generation
    /\ generation' = generation + 1
    /\ source_initialized' = FALSE
    /\ UNCHANGED <<source_anchor_sequence, sequence_offset, timestamp_offset,
                   latest, sources, out, top>>

\* The network brings the n-th packet of source k, not too late.
Arrives(k, n) ==
    /\ Cardinality(out) < MaxOut
    /\ \A x \in out : x.source = k => x.index <= n + MaxReorder

Emit(k, n, output) ==
    out' = out \cup {[source |-> k, index |-> n, sequence |-> output.sequence,
                      timestamp |-> output.timestamp]}

(***************************************************************************)
(* rewrite: a packet of another generation or from before the anchor is    *)
(* refused.  The first packet of a source fixes the offsets.               *)
(***************************************************************************)
RewriteFirst(k, n) ==
    LET packet == Packet(k, n)
        output == IF output_initialized
                  THEN [sequence |-> NextSequence, timestamp |-> NextTimestamp]
                  ELSE packet
        place  == IF output_initialized
                  THEN [sequence  |-> top.sequence + 1,
                        timestamp |-> top.timestamp + timestamp_step]
                  ELSE packet
    IN  /\ Arrives(k, n)
        /\ sources[k].generation = generation
        /\ ~source_initialized
        /\ source_initialized' = TRUE
        /\ source_anchor_sequence' = packet.sequence
        /\ sequence_offset' = SequenceSum(output.sequence, -packet.sequence)
        /\ timestamp_offset' = TimestampSum(output.timestamp, -packet.timestamp)
        /\ latest_input' = packet
        /\ latest_output' = output
        /\ output_initialized' = TRUE
        /\ Emit(k, n, output)
        /\ sources' = [sources EXCEPT ![k].anchor = n, ![k].place = place]
        /\ top' = place
        /\ UNCHANGED <<generation, timestamp_step>>

RewriteNext(k, n) ==
    LET packet == Packet(k, n)
        output == [sequence |-> SequenceSum(packet.sequence, sequence_offset),
                   timestamp |-> TimestampSum(packet.timestamp, timestamp_offset)]
    IN  /\ Arrives(k, n)
        /\ sources[k].generation = generation
        /\ source_initialized
        /\ ~BeforeAnchor(packet)
        /\ IF sequence_is_newer(packet.sequence, latest_input.sequence)
           THEN /\ timestamp_step' = NextStep(packet)
                /\ latest_input' = packet
                /\ latest_output' = output
                /\ top' = Place(k, n)
                /\ UNCHANGED output_initialized
           ELSE UNCHANGED <<latest, top>>
        /\ Emit(k, n, output)
        /\ UNCHANGED <<generation, source, sources>>

-----------------------------------------------------------------------------
StreamInit ==
    /\ generation = 0
    /\ source_initialized = FALSE /\ output_initialized = FALSE
    /\ source_anchor_sequence = 0 /\ sequence_offset = 0 /\ timestamp_offset = 0
    /\ latest_input = [sequence |-> 0, timestamp |-> 0]
    /\ latest_output = [sequence |-> 0, timestamp |-> 0]
    /\ timestamp_step = DefaultStep
    /\ sources = <<>>
    /\ out = {}
    /\ top = [sequence |-> 0, timestamp |-> 0]

StreamNext ==
    \/ \E first \in Starts, gain \in Gains : begin_source(first, gain)
    \/ end_source
    \/ \E k \in DOMAIN sources, n \in 1..MaxPackets : RewriteFirst(k, n)
    \/ \E k \in DOMAIN sources, n \in 1..MaxPackets : RewriteNext(k, n)

StreamSpec == StreamInit /\ [][StreamNext]_streamVars

-----------------------------------------------------------------------------
Headers == [sequence : 0..(SequenceNumbers - 1), timestamp : 0..(Timestamps - 1)]

\* All numbers stay within their width.
StreamTypeOK ==
    /\ generation \in Nat
    /\ source_initialized \in BOOLEAN /\ output_initialized \in BOOLEAN
    /\ source_anchor_sequence \in 0..(SequenceNumbers - 1)
    /\ sequence_offset \in 0..(SequenceNumbers - 1)
    /\ timestamp_offset \in 0..(Timestamps - 1)
    /\ latest_input \in Headers /\ latest_output \in Headers
    /\ timestamp_step \in 1..MaxStep
    /\ \A x \in out : [sequence |-> x.sequence, timestamp |-> x.timestamp] \in Headers

\* x was to be heard before y: an earlier source, or earlier in its source.
Precedes(x, y) ==
    \/ x.source < y.source
    \/ x.source = y.source /\ x.index < y.index

\* How many numbers there should be from x to y.
Distance(x, y) ==
    IF x.source = y.source THEN y.index - x.index
    ELSE PlaceOf(y).sequence - PlaceOf(x).sequence

\* x came half the numbers or more after the first packet of its source.
Far(x) == 2 * (x.index - sources[x.source].anchor) >= SequenceNumbers

(***************************************************************************)
(* The subscriber's stream is in order across any number of switches and   *)
(* of turns of the numbers: of any two packets less than half the numbers  *)
(* apart the later one has the newer sequence number, however the packets  *)
(* were lost, repeated or reordered on their way to the rewriter.  All     *)
(* packets of a source come after all of the sources before it, and a      *)
(* packet that comes twice gets the same numbers both times.               *)
(***************************************************************************)
StreamInOrder ==
    /\ StreamTypeOK
    /\ \A x, y \in out :
          /\ Precedes(x, y) =>
                /\ Distance(x, y) > 0
                /\ 2 * Distance(x, y) < SequenceNumbers =>
                       sequence_is_newer(y.sequence, x.sequence)
          /\ x.source = y.source /\ x.index = y.index => x = y

(***************************************************************************)
(* The media timeline never runs backwards, and it advances from one       *)
(* source to the next: a timestamp used by one source is never given to a  *)
(* packet of another, where a receiver would take both for one frame.  The *)
(* timestamps on the wire differ by what the timeline says, up to half of  *)
(* them.                                                                   *)
(*                                                                         *)
(* Not promised of a source that is carried for more than all sequence     *)
(* numbers: half of them are refused (BeforeAnchor), latest_output is then *)
(* stuck at its first half, and the next source follows on from there.     *)
(***************************************************************************)
TimelineAdvances ==
    \A x, y \in out : Precedes(x, y) /\ ~Far(x) =>
        LET d == PlaceOf(y).timestamp - PlaceOf(x).timestamp IN
        /\ d >= 0
        /\ x.source # y.source => d > 0
        /\ 2 * d < Timestamps => TimestampSum(y.timestamp, -x.timestamp) = d
==============================================================================
