------------------------------- MODULE Paths -------------------------------
(***************************************************************************)
(* How a peer is reached, and how a transfer is spread over the ways there *)
(* are (src/core/engine_impl.cpp): the transport add_peer chooses and the  *)
(* lanes beside it, the region imported from it with a key per transport,  *)
(* the chunks build_subops makes and the lane each goes to.  Addresses,    *)
(* offsets and lengths are numbers of Width bits.  Costs are compared      *)
(* exactly; the code divides doubles.                                      *)
(***************************************************************************)
EXTENDS Integers, Sequences, SequencesExt, FiniteSetsExt, TLC

CONSTANTS
    Setups,      \* the transports of this engine, in order of preference
    Offers,      \* what the peer's envelope offers: sets of names
    Weight,      \* relative_capacity of each transport
    MaxSegment,  \* max_segment_bytes of each, 0 for no limit
    ChunkBytes,  \* chunk_bytes
    Width,       \* bits of an address
    Transfers,   \* transfers asked for: sequences of segments
    LocalLength, RemoteLength,   \* lengths of the two regions
    Descriptors  \* regions there are: the transports with keys for them at
                 \* the peer and here, and what the peer exported it for

VARIABLES
    setup,     \* providers_
    theirs,    \* the peer's identity; this engine's is Mine
    offered,   \* what it offers, {} for a bare blob
    peer,      \* what add_peer made, or why it did not
    remote,    \* what import_region made of a descriptor, or why it did not
    plan       \* what build_subops made of a transfer

vars == <<setup, theirs, offered, peer, remote, plan>>

Mine == [host |-> 1, process |-> 1, engine |-> 1]
Identities ==
    {Mine, [Mine EXCEPT !.engine = 2], [Mine EXCEPT !.process = 2], [Mine EXCEPT !.host = 2]}

locality_of(a, b) ==
    CASE a.host # b.host -> "Remote"
      [] a.host = b.host /\ a.process # b.process -> "SameHost"
      [] a.host = b.host /\ a.process = b.process /\ a.engine # b.engine -> "SameProcess"
      [] OTHER -> "SameEngine"

\* Without an identity in the blob the peer counts as remote.
Locality == IF offered = {} THEN "Remote" ELSE locality_of(Mine, theirs)

\* "rdma#1" is of the family of "rdma".
family(n) == IF n = "rdma#1" THEN "rdma" ELSE n

None == [status |-> "none", lanes |-> <<>>, path |-> "none"]

Init ==
    /\ setup \in Setups
    /\ theirs \in Identities
    /\ offered \in Offers
    /\ peer = None
    /\ remote = [status |-> "none"]
    /\ plan = <<>>

-----------------------------------------------------------------------------
\* Slip: a mapping serves a peer wherever it is.
suitsAnywhere(n, place) == n # "local" \/ place = "SameProcess"
suits(n, place) ==
    CASE n = "ipc" -> place \in {"SameHost", "SameProcess"}
      [] n = "local" -> place = "SameProcess"
      [] OTHER -> TRUE

Usable(n) == suits(n, Locality) /\ (offered = {} \/ n \in offered)

\* The transports beside the chosen one: of its family, and offered by name.
Sibling(n, chosen) ==
    /\ n # chosen /\ n \in offered
    /\ suits(n, Locality) /\ family(n) = family(chosen)

PathOf(n) ==
    CASE n = "local" -> "SameProcess"
      [] n = "ipc" -> "Ipc"
      [] family(n) = "ucx" -> "Ucx"
      [] OTHER -> "Rdma"

\* add_peer: the first transport that is usable has to connect, and a sibling
\* that does not is left out.  `answers' are those that connect.
add_peer(answers) ==
    LET usable == SelectSeq(setup, Usable)
        chosen == Head(usable)
        lanes == <<chosen>> \o SelectSeq(setup, LAMBDA n : Sibling(n, chosen) /\ n \in answers)
    IN  /\ peer = None
        /\ peer' = IF usable = <<>> THEN [None EXCEPT !.status = "Unsupported"]
                   ELSE IF chosen \notin answers THEN [None EXCEPT !.status = "PeerDisconnected"]
                   ELSE [status |-> "Ok", lanes |-> lanes, path |-> PathOf(chosen)]
        /\ UNCHANGED <<setup, theirs, offered, remote, plan>>

-----------------------------------------------------------------------------
\* import_region: at least one lane can use the region.  A descriptor without
\* named keys has the one that any transport may use.
import_region(d) ==
    /\ peer.status = "Ok" /\ remote.status = "none"
    /\ remote' = IF d.keys = {} \/ ToSet(peer.lanes) \cap d.keys # {}
                 THEN d @@ [status |-> "Ok", valid |-> TRUE]
                 ELSE [status |-> "Unsupported"]
    /\ UNCHANGED <<setup, theirs, offered, peer, plan>>

\* The owner takes it back (see Peers), and submissions are refused.
invalidate ==
    /\ remote.status = "Ok" /\ remote.valid /\ plan = <<>>
    /\ remote' = [remote EXCEPT !.valid = FALSE]
    /\ UNCHANGED <<setup, theirs, offered, peer, plan>>

\* The transport of a lane has a key for the region at both ends.
HasKeys(lanes, lane) ==
    lanes[lane] \in remote.mine /\ (remote.keys = {} \/ lanes[lane] \in remote.keys)

-----------------------------------------------------------------------------
Wrap(n) == n % 2^Width

\* Slip: the end of the range is computed first.
WithinBySum(offset, length, total) == Wrap(offset + length) <= total
within(offset, length, total) == offset <= total /\ length <= total - offset

\* No longer than any lane carries in one operation.
ChunkOf(lanes) ==
    Min({ChunkBytes} \cup {MaxSegment[lanes[k]] : k \in {j \in DOMAIN lanes : MaxSegment[lanes[j]] > 0}})

\* A weight that is not positive counts as next to nothing.
Share(n) == IF Weight[n] > 0 THEN 1000 * Weight[n] ELSE 1

\* Slip: what a lane has already is left out of its cost.
CheaperNow(lanes, assigned, n, j, k) == n * Share(lanes[k]) < n * Share(lanes[j])
\* Lane j costs less than lane k for n more bytes.
Cheaper(lanes, assigned, n, j, k) ==
    (assigned[j] + n) * Share(lanes[k]) < (assigned[k] + n) * Share(lanes[j])

\* The first of the lanes that no other is cheaper than.
LaneFor(lanes, assigned, n) ==
    Min({k \in DOMAIN lanes : \A j \in DOMAIN lanes : ~ Cheaper(lanes, assigned, n, j, k)})

\* The checks of one segment, in their order.
SegmentStatus(kind, s) ==
    IF ~ remote.valid THEN "StaleGeneration"
    ELSE IF kind \notin remote.access THEN "InvalidArgument"
    ELSE IF s.length # s.remoteLength THEN "InvalidArgument"
    ELSE IF ~ within(s.offset, s.length, LocalLength) THEN "OutOfRange"
    ELSE IF ~ within(s.remoteOffset, s.remoteLength, RemoteLength) THEN "OutOfRange"
    ELSE "Ok"

\* How many chunks a segment makes.
Chunks(length, chunk) == (length + chunk - 1) \div chunk

\* The chunks of segment i, after `done': each to the lane it costs least on,
\* and none at all if that lane has no key for the region.
SplitSegment(lanes, s, i, done) ==
    LET chunk == ChunkOf(lanes)
        after[c \in 0..Chunks(s.length, chunk)] ==
            IF c = 0 THEN done
            ELSE LET before == after[c - 1]
                     off == (c - 1) * chunk
                     n == Min({chunk, s.length - off})
                     lane == LaneFor(lanes, before.assigned, n)
                 IN  IF before.status # "Ok" THEN before
                     ELSE IF ~ HasKeys(lanes, lane) THEN [before EXCEPT !.status = "Unsupported"]
                     ELSE [before EXCEPT
                        !.assigned[lane] = @ + n,
                        !.ops = Append(@, [segment |-> i, lane |-> lane, length |-> n,
                                           local |-> Wrap(s.offset + off),
                                           remote |-> Wrap(s.remoteOffset + off)])]
    IN  after[Chunks(s.length, chunk)]

\* build_subops: segment by segment, and nothing is submitted of a transfer
\* with a bad one.
build_subops(lanes, kind, segments) ==
    LET upTo[i \in 0..Len(segments)] ==
            IF i = 0 THEN [status |-> "Ok", ops |-> <<>>, assigned |-> [k \in DOMAIN lanes |-> 0]]
            ELSE LET before == upTo[i - 1]
                     status == SegmentStatus(kind, segments[i])
                 IN  IF before.status # "Ok" THEN before
                     ELSE IF status # "Ok" THEN [before EXCEPT !.status = status]
                     ELSE SplitSegment(lanes, segments[i], i, before)
    IN  upTo[Len(segments)]

Submit(kind, segments) ==
    /\ remote.status = "Ok" /\ plan = <<>>
    /\ plan' = <<segments, build_subops(peer.lanes, kind, segments), kind>>
    /\ UNCHANGED <<setup, theirs, offered, peer, remote>>

Next ==
    \/ \E answers \in SUBSET ToSet(setup) : add_peer(answers)
    \/ \E d \in Descriptors : import_region(d)
    \/ invalidate
    \/ \E t \in Transfers, kind \in {"read", "write"} : Submit(kind, t)

-----------------------------------------------------------------------------
(* Properties.                                                             *)

\* A peer is reached only by transports that can reach it where it is and that
\* it offers, over lanes of one kind, each of them once; memory is mapped or
\* copied directly only on one host; and no usable transport that this engine
\* prefers was passed over.
PathIsUsable ==
    peer.status = "Ok" =>
        LET lanes == peer.lanes
            SamePlace == offered # {} /\ theirs.host = Mine.host
        IN  /\ \A j, k \in DOMAIN lanes : family(lanes[j]) = family(lanes[k])
            /\ \A j, k \in DOMAIN lanes : lanes[j] = lanes[k] => j = k
            /\ ToSet(lanes) \subseteq ToSet(setup)
            /\ offered # {} => ToSet(lanes) \subseteq offered
            /\ ToSet(lanes) \cap {"ipc", "local"} # {} => SamePlace
            /\ "local" \in ToSet(lanes) => theirs.process = Mine.process
            /\ \A i \in DOMAIN setup :
                 Usable(setup[i]) => i >= CHOOSE j \in DOMAIN setup : setup[j] = lanes[1]

Planned == plan # <<>> /\ plan[2].status = "Ok"

\* The bytes a transfer names, as (segment, local byte, remote byte).
BytesOf(segments) ==
    UNION {{<<i, segments[i].offset + b, segments[i].remoteOffset + b>>
              : b \in 0..(segments[i].length - 1)} : i \in DOMAIN segments}
BytesMoved(ops) ==
    UNION {{<<ops[o].segment, ops[o].local + b, ops[o].remote + b>>
              : b \in 0..(ops[o].length - 1)} : o \in DOMAIN ops}

\* The operations of a transfer move every byte it names exactly once, from
\* where it is to where it belongs, inside both regions, none of them in a
\* piece longer than its lane carries.
EveryByteOnce ==
    Planned =>
        LET ops == plan[2].ops
            total == FoldSeq(LAMBDA op, sum : op.length + sum, 0, ops)
        IN  /\ BytesMoved(ops) = BytesOf(plan[1])
            /\ Cardinality(BytesMoved(ops)) = total
            /\ \A o \in DOMAIN ops :
                 /\ ops[o].local + ops[o].length <= LocalLength
                 /\ ops[o].remote + ops[o].length <= RemoteLength
                 /\ LET most == MaxSegment[peer.lanes[ops[o].lane]]
                    IN  most > 0 => ops[o].length <= most

\* Every operation of a transfer rides a lane whose transport has a key for
\* the region at both ends, and the region is one its owner still exports, for
\* what is done to it.
CarriedAsExported ==
    Planned =>
        /\ \A o \in DOMAIN plan[2].ops :
             LET name == peer.lanes[plan[2].ops[o].lane]
             IN  name \in remote.mine /\ (name \in remote.keys \/ remote.keys = {})
        /\ plan[1] # <<>> => remote.valid /\ plan[3] \in remote.access

\* A transfer moves the bytes it names, once, over lanes that may carry them.
MovedAsAsked == EveryByteOnce /\ CarriedAsExported

\* Lanes finish together: a lane with something to do is, in proportion to
\* what it carries, at most one chunk behind any other lane.
LanesFinishTogether ==
    Planned =>
        LET lanes == peer.lanes
            chunk == ChunkOf(lanes)
            assigned == plan[2].assigned
        IN  \A j, k \in DOMAIN lanes :
                assigned[j] > 0 =>
                    assigned[j] * Share(lanes[k]) <= (assigned[k] + chunk) * Share(lanes[j])
=============================================================================
