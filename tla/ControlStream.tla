--------------------------- MODULE ControlStream ---------------------------
(***************************************************************************)
(* The receiving half of the control channels of the RDMA transport        *)
(* (rdma_provider.cpp, poll_control).  What ControlOutbox sends arrives as *)
(* a stream of bytes, in pieces of any size, and one poll reads every      *)
(* connection and hands out whole messages, up to a number shared by all   *)
(* of them.  Byte i of message m is <<m, i>>; the first HeaderBytes of     *)
(* them are its header, which says how long the message is.                *)
(***************************************************************************)
EXTENDS Integers, Sequences, SequencesExt

CONSTANTS
    Conns,       \* connections, in the order of ctrl_conns_ (a sequence)
    Outgoing,    \* the messages each peer sends: their sizes
    Foreigners,  \* which connections' peers may speak another major version: sets of them
    HeaderBytes, \* kControlHeaderBytes
    MaxItems     \* messages one poll_control hands out at most

VARIABLES
    foreign,   \* connections whose peer speaks another major version
    ahead,     \* bytes the peer has yet to send
    arrived,   \* bytes in the socket
    finished,  \* whether the peer has closed
    rx,        \* rx of each connection
    alive,     \* whether the connection still counts as alive
    handed     \* messages handed to the engine, by connection

vars == <<foreign, ahead, arrived, finished, rx, alive, handed>>

Ids == DOMAIN Conns
Frame(m, size) == [i \in 1..size |-> <<m, i>>]
Stream(c) == FlattenSeq([m \in DOMAIN Outgoing[c] |-> Frame(m, Outgoing[c][m])])

Init ==
    /\ foreign \in Foreigners
    /\ ahead = [k \in Ids |-> Stream(Conns[k])]
    /\ arrived = [k \in Ids |-> <<>>]
    /\ finished = [k \in Ids |-> FALSE]
    /\ rx = [k \in Ids |-> <<>>]
    /\ alive = [k \in Ids |-> TRUE]
    /\ handed = [k \in Ids |-> <<>>]

\* Some of what the peer sends gets here.
Arrive(k) ==
    /\ ~finished[k]
    /\ \E n \in 1..Len(ahead[k]) :
         /\ arrived' = [arrived EXCEPT ![k] = @ \o SubSeq(ahead[k], 1, n)]
         /\ ahead' = [ahead EXCEPT ![k] = SubSeq(@, n + 1, Len(@))]
    /\ UNCHANGED <<foreign, finished, rx, alive, handed>>

\* The peer closes, perhaps in the middle of a message.
PeerEnds(k) ==
    /\ ~finished[k]
    /\ finished' = [finished EXCEPT ![k] = TRUE]
    /\ UNCHANGED <<foreign, ahead, arrived, rx, alive, handed>>

\* Slip: a message is there as soon as its header is.
HeaderIsThere(c, bytes) == Len(bytes) >= HeaderBytes
\* The message at the front has arrived to its last byte.
MessageIsThere(c, bytes) ==
    Len(bytes) >= HeaderBytes /\ Len(bytes) >= Outgoing[c][bytes[1][1]]

\* decode_control_header, of what the front of rx is taken to be.
HeaderIsGood(c, bytes) == c \notin foreign

\* Slip: what there was no room for is dropped.
RestDropped(bytes) == <<>>
\* What is kept for the next poll.
Rest(bytes) == bytes

\* The loop over what a connection has: whole messages come off the front as
\* long as there is room, and a bad header throws away all that was read.
Parse(c, bytes, room) ==
    LET step[i \in 0..room] ==
            IF i = 0 THEN [rx |-> bytes, out |-> <<>>]
            ELSE LET got == step[i - 1]
                 IN  IF Len(got.rx) < HeaderBytes THEN got
                     ELSE IF ~HeaderIsGood(c, got.rx) THEN [got EXCEPT !.rx = <<>>]
                     ELSE IF ~MessageIsThere(c, got.rx) THEN got
                     ELSE LET m == got.rx[1][1]
                          IN  [rx |-> SubSeq(got.rx, Outgoing[c][m] + 1, Len(got.rx)),
                               out |-> Append(got.out, m)]
    IN  [step[room] EXCEPT !.rx = Rest(@)]

\* poll_control: each connection in turn is read, all that is there, and then
\* parsed as far as there is room.  The end of a stream is seen by the read
\* after its last bytes, which may be in the same poll.
poll_control ==
    LET got[k \in 0..Len(Conns)] ==
            IF k = 0 THEN [room |-> MaxItems, each |-> <<>>]
            ELSE LET before == got[k - 1]
                     p == Parse(Conns[k], rx[k] \o arrived[k], before.room)
                 IN  [room |-> before.room - Len(p.out), each |-> Append(before.each, p)]
    IN  \E each \in {got[Len(Conns)].each}, ends \in SUBSET {k \in Ids : finished[k]} :
        /\ {k \in Ids : finished[k] /\ arrived[k] = <<>>} \subseteq ends
        /\ rx' = [k \in Ids |-> each[k].rx]
        /\ handed' = [k \in Ids |-> handed[k] \o each[k].out]
        /\ arrived' = [k \in Ids |-> <<>>]
        /\ alive' = [k \in Ids |-> alive[k] /\ k \notin ends]
        /\ UNCHANGED <<foreign, ahead, finished>>

Next == poll_control \/ \E k \in Ids : Arrive(k) \/ PeerEnds(k)

\* The engine's progress polls again and again.
Fairness == WF_vars(poll_control)

-----------------------------------------------------------------------------
(* Properties.                                                             *)

\* However the stream is cut up, the engine gets the peer's messages, each
\* once and in order: "a header split across two reads must not be parsed as
\* if it were whole".
HandedInOrder ==
    \A k \in Ids : IsPrefix(handed[k], [m \in DOMAIN Outgoing[Conns[k]] |-> m])

\* The messages of connection k that came whole before the peer ended.
CameWhole(k) ==
    {m \in DOMAIN Outgoing[Conns[k]] :
        \A i \in DOMAIN ahead[k] : ahead[k][i][1] # m}

\* "Whatever already arrived is still parsed - its last message may be the
\* one that explains the departure": what came whole is handed out, also past
\* the number one poll hands out and after the connection has ended.
LastWordsAreHeard ==
    \A k \in Ids :
        Conns[k] \notin foreign =>
            [](finished[k] => <>(CameWhole(k) \subseteq ToSet(handed[k])))
=============================================================================
