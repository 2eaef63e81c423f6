--------------------------- MODULE Notifications ---------------------------
(***************************************************************************)
(* Engine::notify: a message to a peer engine that ends on the peer's      *)
(* acknowledgement (src/core/engine_impl.cpp).  The sending engine has     *)
(* threads inside notify(), one progress() pass at a time, remove_peer()   *)
(* calls and a close(); each peer is an engine that queues what it reads   *)
(* and replies.  notify_pending_ holds what still waits: taking a          *)
(* notification out of it is what claims the right to end it.              *)
(*                                                                         *)
(* Each action is a section under the engine's lock mu_, or a run of code  *)
(* between two of them whose effects only this thread sees.  A control     *)
(* channel is a FIFO in each direction.  Payloads, ids on the wire and     *)
(* statistics are left out: a notification stands for its own id.          *)
(***************************************************************************)
EXTENDS Naturals, FiniteSets, Sequences

CONSTANTS
    Notes,        \* the notifications callers may send
    Peers,        \* the engine's peers at the start
    Removable,    \* the peers the application may remove
    Closes,       \* whether the application may call close()
    QueueDepth,   \* notify_queue_depth of a peer engine
    Severs        \* disconnect() closes the control channel: true of
                  \* IpcProvider, false of RdmaProvider, whose disconnect
                  \* stops the queue pairs and leaves the socket open

ASSUME NotesAssumption == IsFiniteSet(Notes)
ASSUME PeersAssumption == /\ Removable \subseteq Peers
                          /\ Peers \cap {"none", "progress", "close"} = {}
ASSUME DepthAssumption == QueueDepth \in Nat
ASSUME SeversAssumption == Severs \in BOOLEAN /\ Closes \in BOOLEAN

VARIABLES
    \* The sending engine.
    closed,      \* closed_
    peers,       \* keys of peers_
    connected,   \* peers whose connected_ is set
    call,        \* where the thread inside notify() is
    to,          \* the peer a notification is for (RequestImpl::peer())
    state,       \* RequestImpl::state_
    reason,      \* status of RequestImpl::error_
    cancel,      \* requests whose cancel_requested_ is set
    pending,     \* keys of notify_pending_
    hand,        \* what each end_notifications() has taken and not yet ended
    completed,   \* completed_, in order
    pass,        \* where progress() is
    gone,        \* the peers reap_departed_peers() has left to do
    reaping,     \* the one it is at
    remover,     \* where remove_peer(p) is
    closer,      \* where close() is
    \* The channels and the peer engines.
    link,        \* of the control channel: "up", "cut" by the peer, "down"
    toPeer,      \* notifications on their way
    fromPeer,    \* replies on their way
    queue,       \* the peer's notifications_
    queued,      \* all the peer ever put in its queue
    owes,        \* the reply the peer is about to send
    lost         \* notifications whose reply was not taken by the channel

peerMap  == <<closed, peers, connected>>
callVars == <<call, to>>
reqVars  == <<state, reason, cancel>>
ending   == <<pending, hand, completed>>
passVars == <<pass, gone, reaping>>
others   == <<remover, closer>>
channel  == <<link, toPeer, fromPeer>>
peerVars == <<queue, queued, owes, lost>>
sender   == <<peerMap, callVars, reqVars, ending, passVars, others>>
vars     == <<sender, channel, peerVars>>

None     == "none"
Endings  == {"Succeeded", "Failed", "Cancelled"}
Enders   == {"progress", "close"} \cup Peers   \* a peer stands for its remover
Replies  == Notes \X {"Ack", "Refused"}
Ended(n) == state[n] \in Endings

TypeOK ==
    /\ closed \in BOOLEAN
    /\ peers \subseteq Peers /\ connected \subseteq Peers
    /\ call \in [Notes -> {"idle", "entered", "recorded", "returned", "rejected"}]
    /\ to \in [Notes -> Peers \cup {None}]
    /\ state \in [Notes -> {"WaitNotifyAck"} \cup Endings]
    /\ reason \in [Notes -> {"Ok", "PeerDisconnected", "ResourceExhausted", "WouldBlock"}]
    /\ cancel \subseteq Notes /\ pending \subseteq Notes
    /\ hand \in [Enders -> SUBSET Notes]
    /\ completed \in Seq(Notes)
    /\ pass \in {"idle", "reap", "reaped", "failing", "sweep", "sweeping", "poll"}
    /\ gone \subseteq Peers /\ reaping \in Peers \cup {None}
    /\ remover \in [Peers -> {"idle", "erased", "failing", "done"}]
    /\ closer \in {"idle", "closing", "cancelling", "done"}
    /\ link \in [Peers -> {"up", "cut", "down"}]
    /\ toPeer \in [Peers -> Seq(Notes)]
    /\ fromPeer \in [Peers -> Seq(Replies)]
    /\ queue \in [Peers -> Seq(Notes)]
    /\ \A p \in Peers : Len(queue[p]) <= QueueDepth
    /\ queued \subseteq Notes /\ lost \subseteq Notes
    /\ owes \in [Peers -> Replies \cup {<<>>}]

Init ==
    /\ closed = FALSE /\ peers = Peers /\ connected = Peers
    /\ call = [n \in Notes |-> "idle"]
    /\ to = [n \in Notes |-> None]
    /\ state = [n \in Notes |-> "WaitNotifyAck"]
    /\ reason = [n \in Notes |-> "Ok"]
    /\ cancel = {} /\ pending = {} /\ completed = <<>>
    /\ hand = [a \in Enders |-> {}]
    /\ pass = "idle" /\ gone = {} /\ reaping = None
    /\ remover = [p \in Peers |-> "idle"] /\ closer = "idle"
    /\ link = [p \in Peers |-> "up"]
    /\ toPeer = [p \in Peers |-> <<>>] /\ fromPeer = [p \in Peers |-> <<>>]
    /\ queue = [p \in Peers |-> <<>>]
    /\ queued = {} /\ lost = {}
    /\ owes = [p \in Peers |-> <<>>]

-----------------------------------------------------------------------------
\* Requests (src/core/request_impl.cpp).  Only the first ending counts.
fail(n, why) ==
    IF Ended(n) THEN UNCHANGED <<state, reason>>
    ELSE /\ state' = [state EXCEPT ![n] = "Failed"]
         /\ reason' = [reason EXCEPT ![n] = why]

finish(n, how) ==
    /\ state' = IF Ended(n) THEN state ELSE [state EXCEPT ![n] = how]
    /\ UNCHANGED reason

publish(n) == completed' = Append(completed, n)

\* Slip: the entry stays in the map.
FindNotification(n) == UNCHANGED pending

take_notification(n) == pending' = pending \ {n}

\* end_notifications, under mu_: the matching entries leave the map for the
\* hand of thread a, which ends them one by one afterwards.
end_notifications(a, match) ==
    /\ hand' = [hand EXCEPT ![a] = pending \cap match]
    /\ pending' = pending \ match
    /\ UNCHANGED completed

\* Its loop after the lock: one turn.
EndOne(a, failed) ==
    \E n \in hand[a] :
        /\ IF failed /\ n \notin cancel THEN fail(n, "PeerDisconnected")
                                        ELSE finish(n, "Cancelled")
        /\ publish(n)
        /\ hand' = [hand EXCEPT ![a] = @ \ {n}]
        /\ UNCHANGED <<cancel, pending>>

\* What end_notifications matches: a peer's, or the cancelled.
For(p) == {n \in Notes : to[n] = p}
Cancelled == cancel

\* disconnect() of the provider, for every lane of the peer.  Replies already
\* read off the socket are kept by the provider; the rest go with it.
disconnect(p) ==
    /\ UNCHANGED toPeer
    /\ IF Severs /\ link[p] # "down"
       THEN /\ link' = [link EXCEPT ![p] = "down"]
            /\ \E k \in 0 .. Len(fromPeer[p]) :
                   fromPeer' = [fromPeer EXCEPT ![p] = SubSeq(@, 1, k)]
       ELSE UNCHANGED <<link, fromPeer>>

-----------------------------------------------------------------------------
\* notify(peer, payload): the checks on the way in.
NotifyEnter(n, p) ==
    /\ call[n] = "idle"
    /\ IF closed \/ p \notin connected
       THEN /\ call' = [call EXCEPT ![n] = "rejected"]
            /\ UNCHANGED to
       ELSE /\ call' = [call EXCEPT ![n] = "entered"]
            /\ to' = [to EXCEPT ![n] = p]
    /\ UNCHANGED <<peerMap, reqVars, ending, passVars, others, channel, peerVars>>

\* Slip: closed_ is looked at only on the way in.
OpenOnTheWayIn == TRUE

\* closed_ looked at again, where close() looks for what is left.
StillOpen == ~closed

NotifyRecord(n) ==
    /\ call[n] = "entered"
    /\ call' = [call EXCEPT ![n] = IF StillOpen THEN "recorded" ELSE "rejected"]
    /\ pending' = IF StillOpen THEN pending \cup {n} ELSE pending
    /\ UNCHANGED <<peerMap, to, reqVars, hand, completed, passVars, others,
                   channel, peerVars>>

\* send_control answers: the channel takes the message, its backlog is full,
\* or it is finished.  A channel the peer has closed may still take one: the
\* socket learns of it from the answer to what it sends.
SendAnswers(p) ==
    CASE link[p] = "up"   -> {"Ok", "WouldBlock"}
      [] link[p] = "cut"  -> {"PeerDisconnected"} \cup (IF Severs THEN {} ELSE {"Ok"})
      [] link[p] = "down" -> {"PeerDisconnected"}

\* Slip: a send that fails leaves the notification recorded.
LeaveRecorded(n, why) == UNCHANGED <<pending, state, reason>>

\* A send that fails takes the notification back, unless somebody has ended it
\* since, and tells the caller rather than poll_completions.
TakeBack(n, why) ==
    IF n \in pending THEN take_notification(n) /\ fail(n, why)
                     ELSE UNCHANGED <<pending, state, reason>>

NotifySend(n) ==
    /\ call[n] = "recorded"
    /\ call' = [call EXCEPT ![n] = "returned"]
    /\ \E answer \in SendAnswers(to[n]) :
          IF answer = "Ok"
          THEN /\ toPeer' = IF link[to[n]] = "up"
                            THEN [toPeer EXCEPT ![to[n]] = Append(@, n)] ELSE toPeer
               /\ UNCHANGED <<pending, state, reason>>
          ELSE TakeBack(n, answer) /\ UNCHANGED toPeer
    /\ UNCHANGED <<peerMap, to, cancel, hand, completed, passVars, others, link,
                   fromPeer, peerVars>>

\* Request::cancel, by a caller who has been given the request.
Cancel(n) ==
    /\ call[n] = "returned" /\ ~Ended(n) /\ n \notin cancel
    /\ cancel' = cancel \cup {n}
    /\ UNCHANGED <<peerMap, callVars, state, reason, ending, passVars, others,
                   channel, peerVars>>

-----------------------------------------------------------------------------
\* progress(): the peers that have gone, then the cancelled notifications,
\* then what the control channels hold.
ReapBegin ==
    /\ pass = "idle"
    /\ gone' = {p \in peers \cap connected : link[p] # "up"}
    /\ pass' = IF gone' = {} THEN "sweep" ELSE "reap"
    /\ UNCHANGED <<peerMap, callVars, reqVars, ending, reaping, others, channel,
                   peerVars>>

\* One of them: no longer connected, its lanes disconnected, ...
ReapDisconnect(p) ==
    /\ pass = "reap" /\ p \in gone
    /\ connected' = connected \ {p}
    /\ disconnect(p)
    /\ gone' = gone \ {p} /\ reaping' = p
    /\ pass' = "reaped"
    /\ UNCHANGED <<closed, peers, callVars, reqVars, ending, others, peerVars>>

\* ... and then its notifications, with kPeerDisconnected.
ReapEnd ==
    /\ pass = "reaped"
    /\ end_notifications("progress", For(reaping))
    /\ reaping' = None
    /\ pass' = "failing"
    /\ UNCHANGED <<peerMap, callVars, reqVars, gone, others, channel, peerVars>>

\* The cancelled ones, whoever they are for.
SweepCancelled ==
    /\ pass = "sweep"
    /\ end_notifications("progress", Cancelled)
    /\ pass' = "sweeping"
    /\ UNCHANGED <<peerMap, callVars, reqVars, gone, reaping, others, channel,
                   peerVars>>

PassEndOne ==
    /\ pass \in {"failing", "sweeping"}
    /\ EndOne("progress", pass = "failing")
    /\ UNCHANGED <<peerMap, callVars, passVars, others, channel, peerVars>>

PassNext ==
    /\ hand["progress"] = {}
    /\ \/ pass = "failing"  /\ pass' = IF gone = {} THEN "sweep" ELSE "reap"
       \/ pass = "sweeping" /\ pass' = "poll"
       \/ pass = "poll" /\ pass' = "idle" /\ \A p \in Peers : fromPeer[p] = <<>>
    /\ UNCHANGED <<peerMap, callVars, reqVars, ending, gone, reaping, others,
                   channel, peerVars>>

\* An acknowledgement or a refusal: take_notification claims the request, and
\* whoever finds it gone leaves it alone.  A batch is one message or more.
HandleReply(p) ==
    /\ pass = "poll" /\ fromPeer[p] # <<>>
    /\ LET n == Head(fromPeer[p])[1] IN
          IF n \in pending
          THEN /\ take_notification(n)
               /\ IF Head(fromPeer[p])[2] = "Ack" THEN finish(n, "Succeeded")
                                           ELSE fail(n, "ResourceExhausted")
               /\ publish(n)
          ELSE UNCHANGED <<pending, state, reason, completed>>
    /\ fromPeer' = [fromPeer EXCEPT ![p] = Tail(@)]
    /\ pass' \in {"poll", "idle"}
    /\ UNCHANGED <<peerMap, callVars, cancel, hand, gone, reaping, others, link,
                   toPeer, peerVars>>

-----------------------------------------------------------------------------
\* remove_peer(p): off the map, its notifications ended, then disconnected.
RemoveErase(p) ==
    /\ remover[p] = "idle" /\ p \in Removable
    /\ connected' = connected \ {p}
    /\ peers' = peers \ {p}
    /\ remover' = [remover EXCEPT ![p] = "erased"]
    /\ UNCHANGED <<closed, callVars, reqVars, ending, passVars, closer, channel,
                   peerVars>>

RemoveEnd(p) ==
    /\ remover[p] = "erased"
    /\ end_notifications(p, For(p))
    /\ remover' = [remover EXCEPT ![p] = "failing"]
    /\ UNCHANGED <<peerMap, callVars, reqVars, passVars, closer, channel, peerVars>>

RemoveEndOne(p) ==
    /\ remover[p] = "failing"
    /\ EndOne(p, TRUE)
    /\ UNCHANGED <<peerMap, callVars, passVars, others, channel, peerVars>>

RemoveDisconnect(p) ==
    /\ remover[p] = "failing" /\ hand[p] = {}
    /\ disconnect(p)
    /\ remover' = [remover EXCEPT ![p] = "done"]
    /\ UNCHANGED <<peerMap, callVars, reqVars, ending, passVars, closer, peerVars>>

\* close(): closed_ first; once the transfers have drained (module Transfers)
\* what is still unacknowledged is cancelled.  Transfers that do not drain in
\* time leave the engine closed and the notifications waiting, for a later
\* close().
CloseBegin ==
    /\ closer = "idle" /\ Closes
    /\ closed' = TRUE
    /\ closer' = "closing"
    /\ UNCHANGED <<peers, connected, callVars, reqVars, ending, passVars, remover,
                   channel, peerVars>>

CloseTimeout ==
    /\ closer = "closing"
    /\ closer' = "idle"
    /\ UNCHANGED <<peerMap, callVars, reqVars, ending, passVars, remover, channel,
                   peerVars>>

CloseCancel ==
    /\ closer = "closing"
    /\ end_notifications("close", Notes)
    /\ closer' = "cancelling"
    /\ UNCHANGED <<peerMap, callVars, reqVars, passVars, remover, channel, peerVars>>

CloseEndOne ==
    /\ closer = "cancelling"
    /\ EndOne("close", FALSE)
    /\ UNCHANGED <<peerMap, callVars, passVars, others, channel, peerVars>>

CloseDone ==
    /\ closer = "cancelling" /\ hand["close"] = {}
    /\ closer' = "done"
    /\ UNCHANGED <<peerMap, callVars, reqVars, ending, passVars, remover, channel,
                   peerVars>>

-----------------------------------------------------------------------------
HasRoom(p) == Len(queue[p]) < QueueDepth

\* Slip: acknowledged whether or not it was queued.
AlwaysAck(p) == "Ack"

\* Acknowledged only once it is in the queue, and refused otherwise.
Answer(p) == IF HasRoom(p) THEN "Ack" ELSE "Refused"

\* A peer engine's progress(): a notification it reads is queued while there
\* is room.
Receive(p) ==
    /\ link[p] # "cut" /\ toPeer[p] # <<>> /\ owes[p] = <<>>
    /\ LET n == Head(toPeer[p]) IN
          /\ queue' = IF HasRoom(p) THEN [queue EXCEPT ![p] = Append(@, n)] ELSE queue
          /\ queued' = IF HasRoom(p) THEN queued \cup {n} ELSE queued
          /\ owes' = [owes EXCEPT ![p] = <<n, Answer(p)>>]
    /\ toPeer' = [toPeer EXCEPT ![p] = Tail(@)]
    /\ UNCHANGED <<sender, link, fromPeer, lost>>

\* Slip: no reply for a notification that was dropped.
SendAckOnly(p) == IF owes[p][2] = "Ack" THEN Append(fromPeer[p], owes[p]) ELSE fromPeer[p]

SendReply(p) == Append(fromPeer[p], owes[p])

\* The reply, back over the channel it arrived on, which may not take it: the
\* backlog is full, or the other side has closed.  It is not sent again.
Reply(p) ==
    /\ owes[p] # <<>>
    /\ owes' = [owes EXCEPT ![p] = <<>>]
    /\ \/ /\ link[p] = "up"
          /\ fromPeer' = [fromPeer EXCEPT ![p] = SendReply(p)]
          /\ UNCHANGED lost
       \/ /\ lost' = lost \cup {owes[p][1]}
          /\ UNCHANGED fromPeer
    /\ UNCHANGED <<sender, link, toPeer, queue, queued>>

\* The application at the peer collects: poll_notifications(max_items).
poll_notifications(p) ==
    /\ \E k \in 1 .. Len(queue[p]) :
          queue' = [queue EXCEPT ![p] = SubSeq(@, k + 1, Len(@))]
    /\ UNCHANGED <<sender, channel, queued, owes, lost>>

\* The peer goes: its process ends or it closes the connection.  What it has
\* not read is lost, what it has sent can still be read.
PeerGoes(p) ==
    /\ link[p] = "up"
    /\ link' = [link EXCEPT ![p] = "cut"]
    /\ toPeer' = [toPeer EXCEPT ![p] = <<>>]
    /\ owes' = [owes EXCEPT ![p] = <<>>]
    /\ UNCHANGED <<sender, fromPeer, queue, queued, lost>>

-----------------------------------------------------------------------------
Notify(n)  == NotifyRecord(n) \/ NotifySend(n)
Progress   == \/ ReapBegin \/ ReapEnd \/ SweepCancelled \/ PassEndOne \/ PassNext
              \/ \E p \in Peers : ReapDisconnect(p) \/ HandleReply(p)
Remove(p)  == RemoveEnd(p) \/ RemoveEndOne(p) \/ RemoveDisconnect(p)
Close      == CloseTimeout \/ CloseCancel \/ CloseEndOne \/ CloseDone
PeerRuns(p) == Receive(p) \/ Reply(p)

Next ==
    \/ \E n \in Notes : Notify(n) \/ Cancel(n) \/ \E p \in Peers : NotifyEnter(n, p)
    \/ Progress
    \/ \E p \in Peers : \/ RemoveErase(p) \/ Remove(p) \/ PeerRuns(p)
                        \/ poll_notifications(p) \/ PeerGoes(p)
    \/ CloseBegin \/ Close

Spec == Init /\ [][Next]_vars

\* A thread inside notify(), remove_peer() or end_notifications() goes on,
\* progress() is called again and again (its thread does, or a caller's poll),
\* and a peer that has not gone drives its own.
Fairness ==
    /\ \A n \in Notes : WF_vars(Notify(n))
    /\ WF_vars(Progress)
    /\ \A p \in Peers : WF_vars(Remove(p)) /\ WF_vars(PeerRuns(p))
    /\ WF_vars(CloseEndOne \/ CloseDone)

FairSpec == Spec /\ Fairness

-----------------------------------------------------------------------------
(* Properties *)

\* What notify() reports is the truth about the peer: a success was put in the
\* peer's queue; one refused for want of room, or by a full channel, was not
\* (include/hux/engine.h, and the note above the acknowledgement in
\* progress()).
OutcomeIsTrue ==
    \A n \in Notes :
        /\ state[n] = "Succeeded" => n \in queued
        /\ reason[n] \in {"ResourceExhausted", "WouldBlock"} => n \notin queued

\* Each notification is handed to poll_completions at most once, however many
\* of the reply, the peer's departure, its removal, a cancel and close() race
\* for it; never before it has ended, and never when notify() itself reported
\* the failure.
ReportedOnce ==
    /\ \A i, j \in 1 .. Len(completed) : completed[i] = completed[j] => i = j
    /\ \A i \in 1 .. Len(completed) :
          Ended(completed[i]) /\ completed[i] \notin pending

\* Once close() has cancelled what was left, nothing is recorded again: no
\* notify() that was on its way in leaves a request nobody will end.
NothingAfterClose == closer \in {"cancelling", "done"} => pending = {}

\* A notification waits only for a peer that is still there: one whose
\* notify() has returned and whose peer has gone has been ended, or progress()
\* is about to end it.  Of a transport whose disconnect closes the channel,
\* and of peers nobody has removed.
WaitsOnlyOnThePresent ==
    \A n \in pending :
        call[n] = "returned" /\ to[n] \in peers => to[n] \in connected \cup {reaping}

\* A departure ends only the notifications of the peer that went: one that
\* fails with kPeerDisconnected was for a peer that is gone.
FailsOnlyItsOwn ==
    \A n \in Notes :
        reason[n] = "PeerDisconnected" => to[n] \notin connected \/ link[to[n]] # "up"

\* A departure ends the notifications of the peer that went, all of them and
\* no others (end_notifications, and notify() taking back what it recorded for
\* a peer that went meanwhile).
DepartureEndsItsOwn == TypeOK /\ WaitsOnlyOnThePresent /\ FailsOnlyItsOwn

\* A cancelled notification ends, whatever became of its reply.
CancelEnds == \A n \in Notes : (n \in cancel) ~> Ended(n)

\* Every notification whose notify() returned ends, by its reply or by its
\* peer's departure, unless its reply was lost to a full channel.
NotifyEnds ==
    \A n \in Notes : (call[n] = "returned") ~> (Ended(n) \/ n \in lost)

\* No caller of notify() waits for ever: the notification ends by itself, and
\* one that lost its reply ends when it is cancelled.
NotificationsEnd == CancelEnds /\ NotifyEnds

\* include/hux/engine.h says of notify() that a peer that is removed before
\* acknowledging fails it; so one that outlives the removal ends.
RemovalEnds ==
    \A p \in Peers, n \in Notes :
        (call[n] = "returned" /\ to[n] = p /\ remover[p] = "done") ~> Ended(n)
=============================================================================
