---------------------------- MODULE IpcProvider ----------------------------
(***************************************************************************)
(* The same-host transport (src/transport/ipc/ipc_provider.cpp): two       *)
(* processes that publish their device regions to each other over one      *)
(* socket, map each other's regions on first use, and withdraw a region    *)
(* before its memory may be freed.                                         *)
(*                                                                         *)
(* Both processes run the same code and both may export, import, withdraw  *)
(* and close.  A frame is one step; what a process has queued and what is  *)
(* in the socket are one channel, out[p].  A process that dies is to its   *)
(* peer one that closed its socket.                                        *)
(***************************************************************************)
EXTENDS Integers, Sequences, FiniteSets

CONSTANTS
    Procs,      \* the two processes
    KeysOf,     \* the keys each of them hands out: 1..n, in order
    Capacity,   \* frames a channel takes before it answers kWouldBlock
    MaxDials,   \* how often the two are connected
    Talkers     \* who sends a control message, once

ASSUME ProcsAssumption ==
    "none" \notin Procs /\ \E p, q \in Procs : p # q /\ Procs = {p, q}
ASSUME KeysAssumption ==
    \A p \in Procs : IsFiniteSet(KeysOf[p]) /\ KeysOf[p] \subseteq Nat \ {0}

\* A new connection can take a publication of everything there is.
ASSUME CapacityAssumption ==
    /\ Capacity \in Nat /\ MaxDials \in Nat
    /\ \A p \in Procs : Cardinality(KeysOf[p]) <= Capacity

VARIABLES
    dials,      \* connections made so far
    dialler,    \* who is connecting and not yet accepted, or "none"
    sock,       \* processes whose sock_ is open
    gone,       \* processes with peer_gone_ set
    nextKey,    \* next_key_
    exported,   \* exported_
    imported,   \* imported_: "no", "known" or "mapped"
    acks,       \* withdraw_acks_: "none", "waiting" or "acked"
    released,   \* how each deregistration ended
    want,       \* the key a submit in progress needs, or 0
    controls,   \* who has sent its control message
    out         \* the frames from each process, oldest first

vars == <<dials, dialler, sock, gone, nextKey, exported, imported, acks,
          released, want, controls, out>>
local == <<nextKey, exported, acks, released, want, controls>>

Keys == UNION {KeysOf[p] : p \in Procs}
Peer(p) == CHOOSE q \in Procs : q # p
Frame(type, k) == [type |-> type, key |-> k]

Init ==
    /\ dials = 0 /\ dialler = "none" /\ sock = {} /\ gone = {}
    /\ nextKey = [p \in Procs |-> 1]
    /\ exported = [p \in Procs |-> {}]
    /\ imported = [p \in Procs |-> [k \in Keys |-> "no"]]
    /\ acks = [p \in Procs |-> [k \in Keys |-> "none"]]
    /\ released = [p \in Procs |-> [k \in Keys |-> "no"]]
    /\ want = [p \in Procs |-> 0]
    /\ controls = {}
    /\ out = [p \in Procs |-> <<>>]

-----------------------------------------------------------------------------
(* The channel.                                                            *)

\* The acceptor holds its lock through the handshake, which the dialler may
\* leave first.
Free(p) == dialler \in {"none", p}
HungUp(p) == dialler = "none" /\ Peer(p) \notin sock

\* send_frame: what the outbox answers.
Sent(p) == p \in sock /\ ~HungUp(p) /\ Len(out[p]) < Capacity
Refused(p) == p \in sock /\ ~HungUp(p) /\ Len(out[p]) = Capacity
Broken(p) == p \notin sock \/ HungUp(p)
Post(p, f) == out' = [out EXCEPT ![p] = Append(@, f)]

\* The socket is closed: frames still queued in the outbox are lost.
Hangup(p) ==
    /\ sock' = sock \ {p}
    /\ \E n \in 0..Len(out[p]) : out' = [out EXCEPT ![p] = SubSeq(@, 1, n)]

Unmap(p) == imported' = [imported EXCEPT ![p] = [k \in Keys |-> "no"]]

\* peer_is_gone_locked: nothing the second time.
PeerIsGone(p) ==
    \/ p \in gone /\ UNCHANGED <<gone, imported, sock, out>>
    \/ /\ p \notin gone
       /\ gone' = gone \cup {p}
       /\ Unmap(p)
       /\ IF p \in sock THEN Hangup(p) ELSE UNCHANGED <<sock, out>>

-----------------------------------------------------------------------------
(* Connecting and closing.                                                 *)

\* The keys of a set in ascending order, as a map has them.
InOrder(S) ==
    {s \in [1..Cardinality(S) -> S] : \A i, j \in DOMAIN s : i < j => s[i] < s[j]}

\* Slip: what was exported before the connection is not published on it.
PublishNone(p) == {<<>>}
publish_all(p) ==
    {[i \in DOMAIN s |-> Frame("publish", s[i])] : s \in InOrder(exported[p])}

\* connect returns: this side is up, and the peer is still in accept.
Dial(p) ==
    /\ dials < MaxDials /\ sock = {} /\ dialler = "none"
    /\ dials' = dials + 1 /\ dialler' = p
    /\ sock' = {p}
    /\ \E all \in publish_all(p) : out' = [q \in Procs |-> IF q = p THEN all ELSE <<>>]
    /\ UNCHANGED <<gone, imported, local>>

\* accept returns.
Accept(q) ==
    /\ dialler # "none" /\ q = Peer(dialler)
    /\ dialler' = "none"
    /\ sock' = sock \cup {q}
    /\ \E all \in publish_all(q) : out' = [out EXCEPT ![q] = all]
    /\ UNCHANGED <<dials, gone, imported, local>>

disconnect(p) ==
    /\ dialler = "none" /\ p \in sock
    /\ Unmap(p)
    /\ Hangup(p)
    /\ UNCHANGED <<dials, dialler, gone, local>>

-----------------------------------------------------------------------------
(* Regions.                                                                *)

\* The region is kept and, with a peer there, published; a frame that is not
\* taken means the peer is gone.
register_region(p) ==
    LET k == nextKey[p] IN
    /\ Free(p) /\ k \in KeysOf[p]
    /\ nextKey' = [nextKey EXCEPT ![p] = @ + 1]
    /\ exported' = [exported EXCEPT ![p] = @ \cup {k}]
    /\ \/ p \notin sock /\ UNCHANGED <<out, gone, imported, sock>>
       \/ Sent(p) /\ Post(p, Frame("publish", k)) /\ UNCHANGED <<gone, imported, sock>>
       \/ p \in sock /\ ~Sent(p) /\ PeerIsGone(p)
    /\ UNCHANGED <<dials, dialler, acks, released, want, controls>>

\* deregister_region up to its wait: without a socket, or when the frame is
\* not taken, it returns kOk at once.
DeregisterBegin(p, k) ==
    /\ Free(p) /\ k \in exported[p]
    /\ exported' = [exported EXCEPT ![p] = @ \ {k}]
    /\ \/ /\ Sent(p)
          /\ Post(p, Frame("withdraw", k))
          /\ acks' = [acks EXCEPT ![p][k] = "waiting"]
          /\ UNCHANGED released
       \/ /\ ~Sent(p)
          /\ released' = [released EXCEPT ![p][k] = IF Refused(p) THEN "refused" ELSE "alone"]
          /\ UNCHANGED <<acks, out>>
    /\ UNCHANGED <<dials, dialler, sock, gone, nextKey, imported, want, controls>>

\* The wait: it pumps like everyone else and ends on the acknowledgement, or
\* at its deadline without having freed anything.
DeregisterEnd(p, k) ==
    /\ Free(p) /\ acks[p][k] = "acked"
    /\ acks' = [acks EXCEPT ![p][k] = "none"]
    /\ released' = [released EXCEPT ![p][k] = "acked"]
    /\ UNCHANGED <<dials, dialler, sock, gone, nextKey, exported, imported, want,
                   controls, out>>

DeregisterTimeout(p, k) ==
    /\ Free(p) /\ acks[p][k] = "waiting"
    /\ acks' = [acks EXCEPT ![p][k] = "none"]
    /\ released' = [released EXCEPT ![p][k] = "timeout"]
    /\ UNCHANGED <<dials, dialler, sock, gone, nextKey, exported, imported, want,
                   controls, out>>

-----------------------------------------------------------------------------
(* pump: what every caller runs to make progress on the socket.            *)

\* Slip: the withdrawal is acknowledged and the mapping kept for later.
AckOnly(p, k) == UNCHANGED imported
Withdrawn(p, k) == imported' = [imported EXCEPT ![p][k] = "no"]

\* Slip: nobody acknowledges while it waits for an acknowledgement itself.
AcknowledgeIdle(p, k) ==
    out' = [out EXCEPT ![Peer(p)] = Tail(@),
                       ![p] = IF Sent(p) /\ \A j \in Keys : acks[p][j] # "waiting"
                              THEN Append(@, Frame("ack", k)) ELSE @]

\* An acknowledgement that is not taken is lost.
Acknowledge(p, k) ==
    out' = [out EXCEPT ![Peer(p)] = Tail(@),
                       ![p] = IF Sent(p) THEN Append(@, Frame("ack", k)) ELSE @]

PumpFrame(p) ==
    LET f == Head(out[Peer(p)])
        taken == [out EXCEPT ![Peer(p)] = Tail(@)]
    IN  /\ Free(p) /\ p \in sock /\ out[Peer(p)] # <<>>
        /\ \/ /\ f.type = "publish" /\ out' = taken
              /\ imported' = [imported EXCEPT ![p][f.key] = "known"]
              /\ UNCHANGED acks
           \/ /\ f.type = "withdraw"
              /\ Withdrawn(p, f.key)
              /\ Acknowledge(p, f.key)
              /\ UNCHANGED acks
           \/ /\ f.type = "ack" /\ out' = taken
              /\ acks' = [acks EXCEPT ![p][f.key] = IF @ = "waiting" THEN "acked" ELSE @]
              /\ UNCHANGED imported
           \/ /\ f.type = "control" /\ out' = taken
              /\ UNCHANGED <<imported, acks>>
        /\ UNCHANGED <<dials, dialler, sock, gone, nextKey, exported, released,
                       want, controls>>

\* Everything that arrived has been read and the peer has hung up; or what is
\* still queued cannot be sent, which is found first.
Noticed(p) == HungUp(p) /\ (out[Peer(p)] = <<>> \/ out[p] # <<>>)

PumpEnd(p) ==
    /\ p \in sock /\ Noticed(p)
    /\ PeerIsGone(p)
    /\ UNCHANGED <<dials, dialler, local>>

-----------------------------------------------------------------------------
(* Transfers and control.                                                  *)

\* submit, before its lock: it pumps until the key is known or its time is up.
SubmitBegin(p, k) ==
    /\ Free(p) /\ want[p] = 0
    /\ want' = [want EXCEPT ![p] = k]
    /\ UNCHANGED <<dials, dialler, sock, gone, nextKey, exported, imported, acks,
                   released, controls, out>>

\* Under the lock: refused if the peer is gone, the key unknown or the device
\* unable to map it, and copied through the mapping, taken on first use,
\* otherwise.
MayCopy(p, k) == p \notin gone /\ p \in sock /\ imported[p][k] # "no"

SubmitEnd(p) ==
    /\ Free(p) /\ want[p] # 0
    /\ want' = [want EXCEPT ![p] = 0]
    /\ \/ /\ MayCopy(p, want[p])
          /\ imported' = [imported EXCEPT ![p][want[p]] = "mapped"]
       \/ UNCHANGED imported
    /\ UNCHANGED <<dials, dialler, sock, gone, nextKey, exported, acks, released,
                   controls, out>>

\* send_control and broadcast_control: only a broken channel means that the
\* peer is gone.
SendControl(p) ==
    /\ Free(p) /\ p \in sock /\ p \notin gone /\ p \in Talkers \ controls
    /\ controls' = controls \cup {p}
    /\ \/ Sent(p) /\ Post(p, Frame("control", 0)) /\ UNCHANGED <<gone, imported, sock>>
       \/ Refused(p) /\ UNCHANGED <<out, gone, imported, sock>>
       \/ Broken(p) /\ PeerIsGone(p)
    /\ UNCHANGED <<dials, dialler, nextKey, exported, acks, released, want>>

-----------------------------------------------------------------------------
Pump(p) == PumpFrame(p) \/ PumpEnd(p)
Region(p) ==
    \/ register_region(p)
    \/ \E k \in KeysOf[p] :
         DeregisterBegin(p, k) \/ DeregisterEnd(p, k) \/ DeregisterTimeout(p, k)
Transfer(p) == (\E k \in KeysOf[Peer(p)] : SubmitBegin(p, k)) \/ SubmitEnd(p)

Next ==
    \E p \in Procs :
        \/ Dial(p) \/ Accept(p) \/ disconnect(p)
        \/ Region(p) \/ Pump(p) \/ Transfer(p) \/ SendControl(p)

Spec == Init /\ [][Next]_vars

\* Each process keeps pumping (poll_control in every progress turn, and the
\* wait in deregister_region) and accept returns once it was dialled.
Fairness ==
    /\ \A p \in Procs : WF_vars(Pump(p)) /\ WF_vars(Accept(p))
    /\ \A p \in Procs : \A k \in KeysOf[p] : WF_vars(DeregisterEnd(p, k))

-----------------------------------------------------------------------------
(* Properties.                                                             *)

\* Every variable holds what the code's type for it can hold.
TypeOK ==
    /\ dials \in 0..MaxDials /\ dialler \in Procs \cup {"none"}
    /\ sock \subseteq Procs /\ gone \subseteq Procs
    /\ \A p \in Procs : exported[p] \subseteq 1..(nextKey[p] - 1)
    /\ imported \in [Procs -> [Keys -> {"no", "known", "mapped"}]]
    /\ acks \in [Procs -> [Keys -> {"none", "waiting", "acked"}]]
    /\ \A p \in Procs : Len(out[p]) <= Capacity

\* Memory that deregister_region has released on the peer's word is not
\* mapped by the peer, then or later.
AcknowledgedIsUnmapped ==
    \A p \in Procs : \A k \in KeysOf[p] :
        released[p][k] = "acked" => imported[Peer(p)][k] # "mapped"

\* deregister_region: when the frame is not taken, "The peer is gone; its
\* mappings went with it."
RefusedIsUnmapped ==
    \A p \in Procs : \A k \in KeysOf[p] :
        released[p][k] = "refused" => imported[Peer(p)][k] # "mapped"

\* While both ends are up, what one knows of the other is what the other
\* exports, up to frames on their way: a region that is exported is known or
\* its publication is coming, and one that is not is unknown or its
\* withdrawal is coming.  Of a process that never took its peer for gone:
\* peer_gone_ is not reset, and with it set a refused publication no longer
\* closes the socket.
Coming(p, type, k) == \E i \in DOMAIN out[p] : out[p][i] = Frame(type, k)
ViewsAgree ==
    \A p \in Procs \ gone : (Procs \subseteq sock) =>
        \A k \in KeysOf[p] :
            /\ k \in exported[p] =>
                 imported[Peer(p)][k] # "no" \/ Coming(p, "publish", k)
            /\ (k \notin exported[p] /\ released[p][k] # "refused") =>
                 imported[Peer(p)][k] = "no" \/ Coming(p, "withdraw", k)

\* A process that has found its peer gone holds no mapping from then on, even
\* if it is connected again (peer_is_gone_locked).
GoneHoldsNothing ==
    \A p \in gone : \A k \in Keys : imported[p][k] # "mapped"

\* Nobody keeps mapped what its owner believes unmapped: memory released on
\* the peer's word, and the memory of a peer that has gone.
NoStaleMapping == TypeOK /\ AcknowledgedIsUnmapped /\ GoneHoldsNothing

\* A withdrawal on its way is acknowledged, also when both ends withdraw at
\* once, unless one of them closes or the answering end has its channel full,
\* which loses the acknowledgement: the wait serves the peer's withdrawal while
\* it waits for its own.
WithdrawalIsAnswered ==
    \A p \in Procs : \A k \in KeysOf[p] :
        (acks[p][k] = "waiting" /\ Coming(p, "withdraw", k))
            ~> (acks[p][k] # "waiting" \/ ~ (Procs \subseteq sock)
                  \/ Len(out[Peer(p)]) = Capacity)

\* A process whose peer has closed learns of it and lets go of its mappings
\* (pump).
ClosureIsNoticed ==
    \A p \in Procs :
        (dialler = "none" /\ p \in sock /\ Peer(p) \notin sock)
            ~> (p \in gone \/ p \notin sock)

\* Neither end waits for ever on the other: withdrawals are answered, and the
\* closing of the other end is noticed.
NobodyWaitsForEver == WithdrawalIsAnswered /\ ClosureIsNoticed
=============================================================================
