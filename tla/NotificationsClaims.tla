------------------------ MODULE NotificationsClaims ------------------------
(***************************************************************************)
(* Proofs about Notifications, for any notifications, peers and queue      *)
(* depth: its types, who holds a notification at any moment (ClaimInv),    *)
(* and so that each is reported at most once.                              *)
(***************************************************************************)
EXTENDS Notifications, SequenceTheorems, TLAPS

\* The actions, grouped by what they may change.
Ends(a)      == \/ a = "progress" /\ PassEndOne
                \/ a = "close" /\ CloseEndOne
                \/ a \in Peers /\ RemoveEndOne(a)
Takes        == \/ ReapEnd \/ SweepCancelled \/ CloseCancel
                \/ \E p \in Peers : RemoveEnd(p)

In(x, s) == \E i \in 1 .. Len(s) : s[i] = x
Distinct(s) == \A i, j \in 1 .. Len(s) : s[i] = s[j] => i = j

-----------------------------------------------------------------------------
(* Queues *)

\* A message put on a queue is the only thing that is new on it.
LEMMA InAppend ==
    ASSUME NEW S, NEW s \in Seq(S), NEW x \in S, NEW y
    PROVE  In(y, Append(s, x)) <=> In(y, s) \/ y = x
BY AppendProperties DEF In

\* A queue in which everything is there once stays so when something that is
\* not on it is put there.
LEMMA DistinctAppend ==
    ASSUME NEW S, NEW s \in Seq(S), NEW x \in S, Distinct(s), ~In(x, s)
    PROVE  Distinct(Append(s, x))
BY AppendProperties DEF Distinct, In

\* Reading a queue takes its head off it and adds nothing.
LEMMA InTail ==
    ASSUME NEW S, NEW s \in Seq(S), s # <<>>
    PROVE  /\ In(Head(s), s)
           /\ \A y : In(y, Tail(s)) => In(y, s)
           /\ Tail(s) \in Seq(S) /\ Head(s) \in S /\ Len(Tail(s)) = Len(s) - 1
BY HeadTailProperties, EmptySeq DEF In

\* What is read off a queue of distinct messages is not on it any more.
LEMMA DistinctTail ==
    ASSUME NEW S, NEW s \in Seq(S), s # <<>>, Distinct(s)
    PROVE  Distinct(Tail(s)) /\ ~In(Head(s), Tail(s))
BY HeadTailProperties, EmptySeq DEF Distinct, In

\* A queue cut short holds nothing new.
LEMMA InPrefix ==
    ASSUME NEW S, NEW s \in Seq(S), NEW k \in 0 .. Len(s)
    PROVE  /\ SubSeq(s, 1, k) \in Seq(S)
           /\ \A y : In(y, SubSeq(s, 1, k)) => In(y, s)
<1>1. \A i \in 1 .. k : s[i] \in S
  BY ElementOfSeq
<1> QED
  BY <1>1, SubSeqProperties, LenProperties DEF In

\* Nor does one whose front is taken off.
LEMMA SuffixShorter ==
    ASSUME NEW S, NEW s \in Seq(S), NEW k \in 1 .. Len(s)
    PROVE  SubSeq(s, k + 1, Len(s)) \in Seq(S) /\ Len(SubSeq(s, k + 1, Len(s))) <= Len(s)
<1>1. Len(s) \in Nat /\ \A i \in k + 1 .. Len(s) : s[i] \in S
  BY ElementOfSeq, LenProperties
<1> QED
  BY <1>1, SubSeqProperties

-----------------------------------------------------------------------------
(* Types *)

\* A notification on its way has the peer it is for.
TypeInv ==
    /\ TypeOK
    /\ \A n \in Notes : call[n] \in {"entered", "recorded", "returned"} => to[n] \in Peers

\* The statuses and states a notification may have.
Reasons == {"Ok", "PeerDisconnected", "ResourceExhausted", "WouldBlock"}
States  == {"WaitNotifyAck"} \cup Endings

\* What a send may answer.
LEMMA AnswersAreReasons ==
    ASSUME TypeInv, NEW n \in Notes, call[n] = "recorded"
    PROVE  to[n] \in Peers /\ SendAnswers(to[n]) \subseteq Reasons
<1>1. to[n] \in Peers /\ link[to[n]] \in {"up", "cut", "down"}
  BY DEF TypeInv, TypeOK
<1> QED
  BY <1>1 DEF SendAnswers, Reasons

\* Ending a request leaves it ended, and nobody else's.
LEMMA FailEffect ==
    ASSUME TypeOK, NEW n \in Notes, NEW why \in Reasons, fail(n, why)
    PROVE  /\ state' \in [Notes -> States] /\ reason' \in [Notes -> Reasons]
           /\ \A m \in Notes \ {n} : state'[m] = state[m] /\ reason'[m] = reason[m]
           /\ ~Ended(n) => state'[n] = "Failed" /\ reason'[n] = why
           /\ Ended(n) => state'[n] = state[n] /\ reason'[n] = reason[n]
<1>1. CASE Ended(n)
  BY <1>1 DEF fail, TypeOK, States, Reasons
<1>2. CASE ~Ended(n)
  <2>1. /\ state' = [state EXCEPT ![n] = "Failed"]
        /\ reason' = [reason EXCEPT ![n] = why]
    BY <1>2 DEF fail
  <2> QED
    BY <1>2, <2>1 DEF TypeOK, States, Reasons, Endings
<1> QED
  BY <1>1, <1>2

\* The same of an ending that is no failure.
LEMMA FinishEffect ==
    ASSUME TypeOK, NEW n \in Notes, NEW how \in Endings, finish(n, how)
    PROVE  /\ state' \in [Notes -> States] /\ reason' = reason
           /\ \A m \in Notes \ {n} : state'[m] = state[m]
           /\ ~Ended(n) => state'[n] = how
           /\ Ended(n) => state'[n] = state[n]
<1>1. CASE Ended(n)
  BY <1>1 DEF finish, TypeOK, States
<1>2. CASE ~Ended(n)
  <2>1. state' = [state EXCEPT ![n] = how] /\ reason' = reason
    BY <1>2 DEF finish
  <2> QED
    BY <1>2, <2>1 DEF TypeOK, States
<1> QED
  BY <1>1, <1>2

\* end_notifications moves entries from the map to a hand.
LEMMA TakingKeepsTypes ==
    ASSUME TypeInv, Takes
    PROVE  TypeInv'
<1> USE DEF TypeInv, TypeOK, end_notifications, Enders, peerMap, callVars, reqVars, ending,
            passVars, others, channel, peerVars
<1>1. CASE ReapEnd
  BY <1>1 DEF ReapEnd
<1>2. CASE SweepCancelled
  BY <1>2 DEF SweepCancelled
<1>3. CASE CloseCancel
  BY <1>3 DEF CloseCancel
<1>4. ASSUME NEW p \in Peers, RemoveEnd(p) PROVE TypeInv'
  BY <1>4 DEF RemoveEnd
<1> QED
  BY <1>1, <1>2, <1>3, <1>4, ZenonT(60) DEF Takes

\* What a thread that ends one of its notifications changes.
LEMMA EndingFrame ==
    ASSUME TypeOK, NEW a, Ends(a)
    PROVE  /\ a \in Enders
           /\ EndOne(a, a \in Peers \/ (a = "progress" /\ pass = "failing"))
           /\ UNCHANGED <<peerMap, callVars, passVars, others, channel, peerVars>>
BY PeersAssumption, ZenonT(60) DEF Ends, Enders, PassEndOne, CloseEndOne, RemoveEndOne

\* A thread inside notify(), or a caller who cancels.
LEMMA CallersKeepTypes ==
    ASSUME TypeInv, NEW n \in Notes,
           Notify(n) \/ Cancel(n) \/ \E p \in Peers : NotifyEnter(n, p)
    PROVE  TypeInv'
<1> DEFINE Places == {"idle", "entered", "recorded", "returned", "rejected"}
<1>1. /\ call \in [Notes -> Places] /\ to \in [Notes -> Peers \cup {None}]
      /\ pending \subseteq Notes /\ toPeer \in [Peers -> Seq(Notes)]
      /\ state \in [Notes -> States] /\ reason \in [Notes -> Reasons]
      /\ \A m \in Notes : call[m] \in {"entered", "recorded", "returned"} => to[m] \in Peers
  BY DEF TypeInv, TypeOK, States, Reasons
<1>2. ASSUME call' \in [Notes -> Places], to' \in [Notes -> Peers \cup {None}],
             \A m \in Notes : call'[m] \in {"entered", "recorded", "returned"}
                                 => to'[m] \in Peers,
             pending' \subseteq Notes, toPeer' \in [Peers -> Seq(Notes)],
             state' \in [Notes -> States], reason' \in [Notes -> Reasons],
             cancel' \subseteq Notes,
             UNCHANGED <<peerMap, hand, completed, passVars, others, link, fromPeer, peerVars>>
      PROVE  TypeInv'
  BY <1>2, ZenonT(60) DEF TypeInv, TypeOK, peerMap, passVars, others, peerVars, States, Reasons
<1>3. cancel \subseteq Notes
  BY DEF TypeInv, TypeOK
<1>4. ASSUME NEW p \in Peers, NotifyEnter(n, p) PROVE TypeInv'
  <2>1. \/ call' = [call EXCEPT ![n] = "rejected"] /\ to' = to
        \/ call' = [call EXCEPT ![n] = "entered"] /\ to' = [to EXCEPT ![n] = p]
    BY <1>4, ZenonT(60) DEF NotifyEnter
  <2>2. call' \in [Notes -> Places]
    BY <1>1, <2>1
  <2>3. to' \in [Notes -> Peers \cup {None}]
    BY <1>1, <2>1, ZenonT(60)
  <2>4. ASSUME NEW m \in Notes, call'[m] \in {"entered", "recorded", "returned"}
        PROVE  to'[m] \in Peers
    <3>1. CASE m = n
      BY <1>1, <2>1, <2>4, <3>1
    <3>2. CASE m # n
      BY <1>1, <2>1, <2>4, <3>2
    <3> QED
      BY <3>1, <3>2
  <2> QED
    BY <1>1, <1>2, <1>3, <1>4, <2>2, <2>3, <2>4, ZenonT(60) DEF NotifyEnter, reqVars, ending, channel
<1>5. CASE NotifyRecord(n)
  <2>1. /\ call' \in [Notes -> Places] /\ pending' \subseteq Notes
        /\ \A m \in Notes : call'[m] \in {"entered", "recorded", "returned"}
                               => to[m] \in Peers
    BY <1>1, <1>5 DEF NotifyRecord
  <2> QED
    BY <1>1, <1>2, <1>3, <1>5, <2>1, ZenonT(60) DEF NotifyRecord, reqVars, channel
<1>6. CASE NotifySend(n)
  <2>1. PICK answer \in SendAnswers(to[n]) :
            IF answer = "Ok"
            THEN /\ toPeer' = IF link[to[n]] = "up"
                              THEN [toPeer EXCEPT ![to[n]] = Append(@, n)] ELSE toPeer
                 /\ UNCHANGED <<pending, state, reason>>
            ELSE TakeBack(n, answer) /\ UNCHANGED toPeer
    BY <1>6, ZenonT(60) DEF NotifySend
  <2>2. to[n] \in Peers /\ answer \in Reasons
    BY <1>6, AnswersAreReasons, ZenonT(60) DEF NotifySend
  <2>3. toPeer' \in [Peers -> Seq(Notes)]
    <3>1. toPeer' = toPeer \/ toPeer' = [toPeer EXCEPT ![to[n]] = Append(@, n)]
      BY <2>1, ZenonT(60)
    <3>2. Append(toPeer[to[n]], n) \in Seq(Notes)
      BY <1>1, <2>2, AppendProperties
    <3> QED
      BY <1>1, <2>2, <3>1, <3>2, ZenonT(60)
  <2>4. /\ pending' \subseteq Notes
        /\ state' \in [Notes -> States] /\ reason' \in [Notes -> Reasons]
    <3>1. CASE UNCHANGED <<pending, state, reason>>
      BY <1>1, <3>1, ZenonT(60)
    <3>2. CASE fail(n, answer) /\ pending' = pending \ {n}
      BY <1>1, <2>2, <3>2, FailEffect DEF TypeInv
    <3> QED
      BY <2>1, <3>1, <3>2, ZenonT(60) DEF TakeBack, take_notification
  <2>5. /\ call' \in [Notes -> Places]
        /\ \A m \in Notes : call'[m] \in {"entered", "recorded", "returned"}
                               => to[m] \in Peers
    BY <1>1, <1>6, <2>2 DEF NotifySend
  <2> QED
    BY <1>1, <1>2, <1>3, <1>6, <2>3, <2>4, <2>5, ZenonT(60) DEF NotifySend
<1>7. CASE Cancel(n)
  <2>1. cancel' \subseteq Notes
    BY <1>3, <1>7 DEF Cancel
  <2> QED
    BY <1>1, <1>2, <1>7, <2>1, ZenonT(60) DEF Cancel, callVars, ending, channel
<1> QED
  BY <1>4, <1>5, <1>6, <1>7, ZenonT(60) DEF Notify

\* One turn of the loop that ends what a hand holds.
LEMMA EndingKeepsTypes ==
    ASSUME TypeInv, NEW a, Ends(a)
    PROVE  TypeInv'
<1> DEFINE failed == a \in Peers \/ (a = "progress" /\ pass = "failing")
<1>1. /\ a \in Enders
      /\ EndOne(a, failed)
      /\ UNCHANGED <<peerMap, callVars, passVars, others, channel, peerVars>>
  BY EndingFrame DEF TypeInv
<1>2. PICK n \in hand[a] :
          /\ IF failed /\ n \notin cancel THEN fail(n, "PeerDisconnected")
                                          ELSE finish(n, "Cancelled")
          /\ publish(n)
          /\ hand' = [hand EXCEPT ![a] = @ \ {n}]
          /\ UNCHANGED <<cancel, pending>>
  BY <1>1, ZenonT(60) DEF EndOne
<1>3. n \in Notes
  BY <1>1 DEF TypeInv, TypeOK
<1>4. state' \in [Notes -> States] /\ reason' \in [Notes -> Reasons]
  <2>1. CASE fail(n, "PeerDisconnected")
    BY <1>3, <2>1, FailEffect DEF Reasons, TypeInv
  <2>2. CASE finish(n, "Cancelled")
    BY <1>3, <2>2, FinishEffect DEF Endings, TypeInv, TypeOK, Reasons
  <2> QED
    BY <1>2, <2>1, <2>2, ZenonT(60)
<1>5. completed' \in Seq(Notes)
  BY <1>2, <1>3, AppendProperties DEF publish, TypeInv, TypeOK
<1>6. hand' \in [Enders -> SUBSET Notes]
  BY <1>1, <1>2 DEF TypeInv, TypeOK
<1> QED
  BY <1>1, <1>2, <1>4, <1>5, <1>6, ZenonT(60) DEF TypeInv, TypeOK, States, Reasons, peerMap,
     callVars, passVars, others, channel, peerVars

\* disconnect() cuts the replies of a peer short.
LEMMA DisconnectEffect ==
    ASSUME TypeOK, NEW p \in Peers, disconnect(p)
    PROVE  /\ toPeer' = toPeer
           /\ link' \in [Peers -> {"up", "cut", "down"}]
           /\ \A q \in Peers : link'[q] = link[q] \/ (q = p /\ link'[q] = "down")
           /\ Severs => link'[p] = "down"
           /\ fromPeer' \in [Peers -> Seq(Replies)]
           /\ \A q \in Peers : \A x : In(x, fromPeer'[q]) => In(x, fromPeer[q])
<1> USE DEF TypeOK
<1>1. CASE Severs /\ link[p] # "down"
  <2>1. PICK k \in 0 .. Len(fromPeer[p]) :
             fromPeer' = [fromPeer EXCEPT ![p] = SubSeq(@, 1, k)]
    BY <1>1, ZenonT(60) DEF disconnect
  <2>2. toPeer' = toPeer /\ link' = [link EXCEPT ![p] = "down"]
    BY <1>1 DEF disconnect
  <2>3. /\ SubSeq(fromPeer[p], 1, k) \in Seq(Replies)
        /\ \A x : In(x, SubSeq(fromPeer[p], 1, k)) => In(x, fromPeer[p])
    BY InPrefix
  <2>4. /\ fromPeer' \in [Peers -> Seq(Replies)]
        /\ fromPeer'[p] = SubSeq(fromPeer[p], 1, k)
        /\ \A q \in Peers \ {p} : fromPeer'[q] = fromPeer[q]
    BY <2>1, <2>3
  <2> QED
    BY <2>2, <2>3, <2>4, ZenonT(60)
<1>2. CASE ~(Severs /\ link[p] # "down")
  BY <1>2 DEF disconnect
<1> QED
  BY <1>1, <1>2

\* progress(), but for the notifications it ends.
LEMMA ProgressKeepsTypes ==
    ASSUME TypeInv, \/ ReapBegin \/ PassNext
                    \/ \E p \in Peers : ReapDisconnect(p) \/ HandleReply(p)
    PROVE  TypeInv'
<1>1. CASE ReapBegin
  BY <1>1 DEF ReapBegin, TypeInv, TypeOK, peerMap, callVars, reqVars, ending, others,
     channel, peerVars
<1>2. CASE PassNext
  BY <1>2 DEF PassNext, TypeInv, TypeOK, peerMap, callVars, reqVars, ending, others,
     channel, peerVars
<1>3. ASSUME NEW p \in Peers, ReapDisconnect(p) PROVE TypeInv'
  <2>1. /\ link' \in [Peers -> {"up", "cut", "down"}] /\ toPeer' = toPeer
        /\ fromPeer' \in [Peers -> Seq(Replies)]
    BY <1>3, DisconnectEffect DEF ReapDisconnect, TypeInv
  <2> QED
    BY <1>3, <2>1, SMTT(60) DEF ReapDisconnect, TypeInv, TypeOK, callVars, reqVars, ending, others,
       peerVars
<1>4. ASSUME NEW p \in Peers, HandleReply(p) PROVE TypeInv'
  <2> DEFINE n == Head(fromPeer[p])[1]
  <2>0. /\ fromPeer \in [Peers -> Seq(Replies)] /\ pending \subseteq Notes
        /\ completed \in Seq(Notes)
        /\ state \in [Notes -> States] /\ reason \in [Notes -> Reasons]
    BY DEF TypeInv, TypeOK, States, Reasons
  <2>1. /\ Head(fromPeer[p]) \in Replies /\ Tail(fromPeer[p]) \in Seq(Replies)
        /\ n \in Notes
    BY SMTT(60), <1>4, <2>0, InTail DEF HandleReply, Replies
  <2>2. fromPeer' \in [Peers -> Seq(Replies)]
    BY <1>4, <2>0, <2>1 DEF HandleReply
  <2>3. /\ pending' \subseteq Notes /\ completed' \in Seq(Notes)
        /\ state' \in [Notes -> States] /\ reason' \in [Notes -> Reasons]
    <3>1. Append(completed, n) \in Seq(Notes)
      BY <2>0, <2>1, AppendProperties
    <3>2. CASE n \in pending /\ Head(fromPeer[p])[2] = "Ack"
      <4>1. finish(n, "Succeeded") /\ publish(n) /\ pending' = pending \ {n}
        BY <1>4, <3>2, ZenonT(60) DEF HandleReply, take_notification
      <4> QED
        BY <2>0, <2>1, <3>1, <4>1, FinishEffect DEF publish, Endings, TypeInv
    <3>3. CASE n \in pending /\ Head(fromPeer[p])[2] # "Ack"
      <4>1. fail(n, "ResourceExhausted") /\ publish(n) /\ pending' = pending \ {n}
        BY <1>4, <3>3, ZenonT(60) DEF HandleReply, take_notification
      <4> QED
        BY <2>0, <2>1, <3>1, <4>1, FailEffect DEF publish, Reasons, TypeInv
    <3>4. CASE n \notin pending
      BY <1>4, <2>0, <3>4, ZenonT(60) DEF HandleReply
    <3> QED
      BY <3>2, <3>3, <3>4, ZenonT(60)
  <2>4. /\ pass' \in {"poll", "idle"}
        /\ UNCHANGED <<peerMap, callVars, cancel, hand, gone, reaping, others, link,
                       toPeer, peerVars>>
    BY <1>4, ZenonT(60) DEF HandleReply
  <2> QED
    BY <2>2, <2>3, <2>4, ZenonT(60) DEF States, Reasons, TypeInv, TypeOK, peerMap, callVars,
       others, peerVars
<1> QED
  BY <1>1, <1>2, <1>3, <1>4, ZenonT(60)

\* remove_peer() and close(), but for the notifications they end.
LEMMA ClosersKeepTypes ==
    ASSUME TypeInv, \/ CloseBegin \/ CloseTimeout \/ CloseDone
                    \/ \E p \in Peers : RemoveErase(p) \/ RemoveDisconnect(p)
    PROVE  TypeInv'
<1> USE DEF TypeInv, TypeOK, peerMap, callVars, reqVars, ending, passVars, others,
            channel, peerVars
<1>1. CASE CloseBegin \/ CloseTimeout \/ CloseDone
  BY <1>1, ZenonT(60) DEF CloseBegin, CloseTimeout, CloseDone
<1>2. ASSUME NEW p \in Peers, RemoveErase(p) PROVE TypeInv'
  BY <1>2 DEF RemoveErase
<1>3. ASSUME NEW p \in Peers, RemoveDisconnect(p) PROVE TypeInv'
  <2>1. /\ link' \in [Peers -> {"up", "cut", "down"}] /\ toPeer' = toPeer
        /\ fromPeer' \in [Peers -> Seq(Replies)]
    BY <1>3, DisconnectEffect, SMTT(60) DEF RemoveDisconnect
  <2> QED
    BY <1>3, <2>1, ZenonT(60) DEF RemoveDisconnect
<1> QED
  BY <1>1, <1>2, <1>3, ZenonT(60), SMTT(60)

\* The peer engines.
LEMMA PeersKeepTypes ==
    ASSUME TypeInv, NEW p \in Peers, PeerRuns(p) \/ poll_notifications(p) \/ PeerGoes(p)
    PROVE  TypeInv'
<1>1. /\ queue \in [Peers -> Seq(Notes)] /\ \A q \in Peers : Len(queue[q]) <= QueueDepth
      /\ toPeer \in [Peers -> Seq(Notes)] /\ fromPeer \in [Peers -> Seq(Replies)]
      /\ owes \in [Peers -> Replies \cup {<<>>}] /\ queued \subseteq Notes
      /\ link \in [Peers -> {"up", "cut", "down"}] /\ lost \subseteq Notes
  BY DEF TypeInv, TypeOK
<1>2. ASSUME queue' \in [Peers -> Seq(Notes)], \A q \in Peers : Len(queue'[q]) <= QueueDepth,
             toPeer' \in [Peers -> Seq(Notes)], fromPeer' \in [Peers -> Seq(Replies)],
             owes' \in [Peers -> Replies \cup {<<>>}], queued' \subseteq Notes,
             link' \in [Peers -> {"up", "cut", "down"}], lost' \subseteq Notes,
             UNCHANGED sender
      PROVE  TypeInv'
  BY <1>2, ZenonT(60) DEF TypeInv, TypeOK, sender, peerMap, callVars, reqVars, ending, passVars,
     others
<1>3. CASE Receive(p)
  <2>1. Head(toPeer[p]) \in Notes /\ Tail(toPeer[p]) \in Seq(Notes)
    BY <1>1, <1>3, InTail DEF Receive
  <2>2. toPeer' \in [Peers -> Seq(Notes)]
    BY <1>1, <1>3, <2>1 DEF Receive
  <2>3. owes' \in [Peers -> Replies \cup {<<>>}] /\ queued' \subseteq Notes
    BY <1>1, <1>3, <2>1 DEF Receive, Replies, Answer
  <2>4. queue' \in [Peers -> Seq(Notes)] /\ \A q \in Peers : Len(queue'[q]) <= QueueDepth
    <3>1. CASE HasRoom(p)
      <4>1. queue' = [queue EXCEPT ![p] = Append(@, Head(toPeer[p]))]
        BY <1>3, <3>1 DEF Receive
      <4>2. /\ Append(queue[p], Head(toPeer[p])) \in Seq(Notes)
            /\ Len(Append(queue[p], Head(toPeer[p]))) = Len(queue[p]) + 1
            /\ Len(queue[p]) \in Nat
        BY <1>1, <2>1, AppendProperties, LenProperties
      <4> QED
        BY <1>1, <3>1, <4>1, <4>2, DepthAssumption DEF HasRoom
    <3>2. CASE ~HasRoom(p)
      BY <1>1, <1>3, <3>2 DEF Receive
    <3> QED
      BY <3>1, <3>2, ZenonT(60)
  <2> QED
    BY <1>1, <1>2, <1>3, <2>2, <2>3, <2>4, ZenonT(60) DEF Receive
<1>4. CASE Reply(p)
  <2>1. owes[p] \in Replies /\ owes[p][1] \in Notes
    BY <1>1, <1>4 DEF Reply, Replies
  <2>2. Append(fromPeer[p], owes[p]) \in Seq(Replies)
    BY <1>1, <2>1, AppendProperties
  <2>3. fromPeer' \in [Peers -> Seq(Replies)] /\ lost' \subseteq Notes
    BY <1>1, <1>4, <2>1, <2>2, ZenonT(60) DEF Reply, SendReply
  <2>4. owes' \in [Peers -> Replies \cup {<<>>}]
    BY <1>1, <1>4 DEF Reply
  <2> QED
    BY <1>1, <1>2, <1>4, <2>3, <2>4, ZenonT(60) DEF Reply
<1>5. CASE poll_notifications(p)
  <2>1. PICK k \in 1 .. Len(queue[p]) :
             queue' = [queue EXCEPT ![p] = SubSeq(@, k + 1, Len(@))]
    BY <1>5, ZenonT(60) DEF poll_notifications
  <2>2. /\ SubSeq(queue[p], k + 1, Len(queue[p])) \in Seq(Notes)
        /\ Len(SubSeq(queue[p], k + 1, Len(queue[p]))) <= Len(queue[p])
    BY <1>1, SuffixShorter
  <2>3. queue' \in [Peers -> Seq(Notes)]
    BY <1>1, <2>1, <2>2
  <2>4. \A q \in Peers : Len(queue'[q]) <= QueueDepth
    BY <1>1, <2>1, <2>2, DepthAssumption, LenProperties
  <2> QED
    BY <1>1, <1>2, <1>5, <2>3, <2>4, ZenonT(60) DEF poll_notifications, channel
<1>6. CASE PeerGoes(p)
  <2>1. /\ toPeer' \in [Peers -> Seq(Notes)] /\ link' \in [Peers -> {"up", "cut", "down"}]
        /\ owes' \in [Peers -> Replies \cup {<<>>}]
    BY <1>1, <1>6, EmptySeq DEF PeerGoes
  <2> QED
    BY <1>1, <1>2, <1>6, <2>1, ZenonT(60) DEF PeerGoes
<1> QED
  BY <1>3, <1>4, <1>5, <1>6, ZenonT(60) DEF PeerRuns

\* Every step is one of these: what the proofs below go through.
LEMMA Steps ==
    ASSUME [Next]_vars
    PROVE  \/ \E n \in Notes : \/ NotifyRecord(n) \/ NotifySend(n) \/ Cancel(n)
                               \/ \E p \in Peers : NotifyEnter(n, p)
           \/ Takes \/ \E a : Ends(a)
           \/ ReapBegin \/ PassNext
           \/ \E p \in Peers : ReapDisconnect(p) \/ HandleReply(p)
           \/ CloseBegin \/ CloseTimeout \/ CloseDone
           \/ \E p \in Peers : RemoveErase(p) \/ RemoveDisconnect(p)
           \/ \E p \in Peers : \/ Receive(p) \/ Reply(p) \/ poll_notifications(p)
                               \/ PeerGoes(p)
           \/ UNCHANGED vars
<1>1. CASE Progress
  BY <1>1 DEF Progress, Takes, Ends
<1>2. CASE Close
  BY <1>2 DEF Close, Takes, Ends
<1>3. ASSUME NEW p \in Peers, Remove(p)
      PROVE  Takes \/ (\E a : Ends(a)) \/ RemoveDisconnect(p)
  BY <1>3 DEF Remove, Takes, Ends
<1> QED
  BY <1>1, <1>2, <1>3 DEF Next, Notify, PeerRuns

\* Type correctness, in every reachable state.
LEMMA TypesInvariant ==
    Spec => []TypeInv
<1>1. Init => TypeInv
  <2> SUFFICES ASSUME Init PROVE TypeInv
    OBVIOUS
  <2>1. /\ completed \in Seq(Notes)
        /\ toPeer \in [Peers -> Seq(Notes)] /\ fromPeer \in [Peers -> Seq(Replies)]
        /\ queue \in [Peers -> Seq(Notes)] /\ \A p \in Peers : Len(queue[p]) = 0
    BY EmptySeq DEF Init
  <2>2. \A p \in Peers : Len(queue[p]) <= QueueDepth
    BY <2>1, DepthAssumption
  <2>3. /\ call \in [Notes -> {"idle", "entered", "recorded", "returned", "rejected"}]
        /\ to \in [Notes -> Peers \cup {None}]
        /\ state \in [Notes -> {"WaitNotifyAck"} \cup Endings]
        /\ reason \in [Notes -> {"Ok", "PeerDisconnected", "ResourceExhausted",
                                 "WouldBlock"}]
        /\ \A n \in Notes : call[n] = "idle"
    BY DEF Init
  <2>4. /\ hand \in [Enders -> SUBSET Notes]
        /\ remover \in [Peers -> {"idle", "erased", "failing", "done"}]
        /\ link \in [Peers -> {"up", "cut", "down"}]
        /\ owes \in [Peers -> Replies \cup {<<>>}]
    BY DEF Init
  <2> QED
    BY <2>1, <2>2, <2>3, <2>4, ZenonT(60) DEF Init, TypeInv, TypeOK
<1>2. TypeInv /\ [Next]_vars => TypeInv'
  <2> SUFFICES ASSUME TypeInv, [Next]_vars PROVE TypeInv'
    OBVIOUS
  <2>1. CASE UNCHANGED vars
    BY <2>1 DEF vars, sender, peerMap, callVars, reqVars, ending, passVars, others,
       channel, peerVars, TypeInv, TypeOK
  <2> QED
    BY <2>1, Steps, TakingKeepsTypes, CallersKeepTypes, EndingKeepsTypes,
       ProgressKeepsTypes, ClosersKeepTypes, PeersKeepTypes DEF Notify, PeerRuns
<1> QED
  BY <1>1, <1>2, PTL DEF Spec

-----------------------------------------------------------------------------
(* Who may end a notification *)

\* A notification is in the map, or in the hand of one thread, or ended; what
\* has been ended is never recorded again.  A thread takes only when its hand
\* is empty.
ClaimInv ==
    /\ \A n \in pending : call[n] \in {"recorded", "returned"} /\ ~Ended(n)
    /\ \A a \in Enders : \A n \in hand[a] :
          /\ call[n] \in {"recorded", "returned"} /\ ~Ended(n) /\ n \notin pending
          /\ \A b \in Enders : n \in hand[b] => a = b
    /\ \A n \in Notes : Ended(n) => call[n] \in {"recorded", "returned"}
    /\ \A n \in Notes : reason[n] # "Ok" => Ended(n)
    /\ pass \notin {"failing", "sweeping"} => hand["progress"] = {}
    /\ \A p \in Peers : remover[p] # "failing" => hand[p] = {}
    /\ closer # "cancelling" => hand["close"] = {}

\* What poll_completions is handed is ended, and there once.
ReportInv == Distinct(completed) /\ \A n \in Notes : In(n, completed) => Ended(n)

\* A thread takes from the map into an empty hand: what it takes was nobody's.
LEMMA TakingKeepsClaims ==
    ASSUME TypeInv, ClaimInv, Takes
    PROVE  ClaimInv'
<1>0. /\ pending \subseteq Notes /\ hand \in [Enders -> SUBSET Notes]
      /\ remover \in [Peers -> {"idle", "erased", "failing", "done"}]
  BY DEF TypeInv, TypeOK
<1>1. ASSUME NEW a \in Enders, NEW match, hand[a] = {}, end_notifications(a, match),
             UNCHANGED <<call, state, reason>>,
             \/ /\ a = "progress" /\ pass' \in {"failing", "sweeping"}
                /\ UNCHANGED <<remover, closer>>
             \/ a = "close" /\ closer' = "cancelling" /\ UNCHANGED <<pass, remover>>
             \/ /\ a \in Peers /\ remover' = [remover EXCEPT ![a] = "failing"]
                /\ UNCHANGED <<pass, closer>>
      PROVE  ClaimInv'
  <2>1. /\ hand'[a] = pending \cap match /\ pending' = pending \ match
        /\ \A b \in Enders \ {a} : hand'[b] = hand[b]
    BY <1>0, <1>1 DEF end_notifications
  <2>2. \A n \in Notes : Ended(n)' <=> Ended(n)
    BY <1>1 DEF Ended
  <2>3. \A n \in pending' : call'[n] \in {"recorded", "returned"} /\ ~Ended(n)'
    BY <1>0, <1>1, <2>1, <2>2, SMTT(60) DEF ClaimInv
  <2>4. \A b \in Enders : \A n \in hand'[b] :
            /\ call'[n] \in {"recorded", "returned"} /\ ~Ended(n)' /\ n \notin pending'
            /\ \A c \in Enders : n \in hand'[c] => b = c
    BY SMTT(60), <1>0, <1>1, <2>1, <2>2 DEF ClaimInv
  <2>5. \A n \in Notes : /\ Ended(n)' => call'[n] \in {"recorded", "returned"}
                         /\ reason'[n] # "Ok" => Ended(n)'
    BY <1>1, <2>2 DEF ClaimInv
  <2>6. pass' \notin {"failing", "sweeping"} => hand'["progress"] = {}
    BY <1>1, <2>1, PeersAssumption DEF ClaimInv, Enders
  <2>7. ASSUME NEW p \in Peers, remover'[p] # "failing" PROVE hand'[p] = {}
    <3>1. p # a
      BY <1>0, <1>1, <2>7, PeersAssumption
    <3>2. remover'[p] = remover[p] /\ hand'[p] = hand[p]
      BY <1>0, <1>1, <2>1, <3>1, ZenonT(60) DEF Enders
    <3> QED
      BY <2>7, <3>2 DEF ClaimInv
  <2>8. closer' # "cancelling" => hand'["close"] = {}
    BY <1>1, <2>1, PeersAssumption DEF ClaimInv, Enders
  <2> QED
    BY <2>3, <2>4, <2>5, <2>6, <2>7, <2>8 DEF ClaimInv
<1>2. CASE ReapEnd
  BY <1>1, <1>2, ZenonT(60) DEF ReapEnd, ClaimInv, Enders, callVars, reqVars, others
<1>3. CASE SweepCancelled
  BY <1>1, <1>3, ZenonT(60) DEF SweepCancelled, ClaimInv, Enders, callVars, reqVars, others
<1>4. CASE CloseCancel
  BY <1>1, <1>4, ZenonT(60) DEF CloseCancel, ClaimInv, Enders, callVars, reqVars, passVars
<1>5. ASSUME NEW p \in Peers, RemoveEnd(p) PROVE ClaimInv'
  BY <1>1, <1>5, ZenonT(60) DEF RemoveEnd, ClaimInv, Enders, callVars, reqVars, passVars
<1> QED
  BY <1>2, <1>3, <1>4, <1>5 DEF Takes

\* What ending one of them does: the request ends, reported, and leaves the hand.
LEMMA EndingEffect ==
    ASSUME TypeInv, ClaimInv, NEW a, Ends(a)
    PROVE  \E n \in Notes :
              /\ a \in Enders /\ n \in hand[a] /\ ~Ended(n)
              /\ hand' = [hand EXCEPT ![a] = @ \ {n}]
              /\ completed' = Append(completed, n)
              /\ \A m \in Notes \ {n} : state'[m] = state[m] /\ reason'[m] = reason[m]
              /\ \/ state'[n] = "Cancelled" /\ reason'[n] = reason[n]
                 \/ /\ state'[n] = "Failed" /\ reason'[n] = "PeerDisconnected"
                    /\ a \in Peers \/ (a = "progress" /\ pass = "failing")
              /\ UNCHANGED <<cancel, pending, peerMap, callVars, passVars, others,
                             channel, peerVars>>
<1> USE DEF TypeInv
<1> DEFINE failed == a \in Peers \/ (a = "progress" /\ pass = "failing")
<1>1. /\ a \in Enders
      /\ EndOne(a, failed)
      /\ UNCHANGED <<peerMap, callVars, passVars, others, channel, peerVars>>
  BY EndingFrame
<1>2. PICK n \in hand[a] :
          /\ IF failed /\ n \notin cancel THEN fail(n, "PeerDisconnected")
                                          ELSE finish(n, "Cancelled")
          /\ publish(n)
          /\ hand' = [hand EXCEPT ![a] = @ \ {n}]
          /\ UNCHANGED <<cancel, pending>>
  BY <1>1, ZenonT(60) DEF EndOne
<1>3. n \in Notes /\ ~Ended(n)
  BY <1>1 DEF TypeOK, ClaimInv
<1>4. CASE failed /\ fail(n, "PeerDisconnected")
  BY <1>1, <1>2, <1>3, <1>4, FailEffect, ZenonT(60) DEF publish, Reasons
<1>5. CASE finish(n, "Cancelled")
  BY <1>1, <1>2, <1>3, <1>5, FinishEffect, ZenonT(60) DEF publish, Endings
<1> QED
  BY <1>2, <1>4, <1>5, ZenonT(60)

\* Ending it leaves every other claim alone.
LEMMA EndingKeepsClaims ==
    ASSUME TypeInv, ClaimInv, NEW a, Ends(a)
    PROVE  ClaimInv'
<1>0. pending \subseteq Notes /\ hand \in [Enders -> SUBSET Notes]
  BY DEF TypeInv, TypeOK
<1>1. PICK n \in Notes :
          /\ a \in Enders /\ n \in hand[a] /\ ~Ended(n)
          /\ hand' = [hand EXCEPT ![a] = @ \ {n}]
          /\ \A m \in Notes \ {n} : state'[m] = state[m] /\ reason'[m] = reason[m]
          /\ state'[n] \in Endings
          /\ UNCHANGED <<pending, call, pass, remover, closer>>
  BY EndingEffect, ZenonT(60) DEF Endings, callVars, passVars, others
<1>2. /\ hand'[a] = hand[a] \ {n}
      /\ \A b \in Enders \ {a} : hand'[b] = hand[b]
      /\ \A b \in Enders : hand'[b] \subseteq hand[b] /\ n \notin hand'[b]
  BY <1>0, <1>1 DEF ClaimInv
<1>3. \A m \in Notes \ {n} : Ended(m)' <=> Ended(m)
  BY <1>1 DEF Ended
<1>4. Ended(n)' /\ call[n] \in {"recorded", "returned"} /\ n \notin pending
  BY <1>1 DEF Ended, ClaimInv
<1>5. \A m \in pending' : call'[m] \in {"recorded", "returned"} /\ ~Ended(m)'
  BY <1>0, <1>1, <1>3, <1>4, SMTT(60) DEF ClaimInv
<1>6. \A b \in Enders : \A m \in hand'[b] :
          /\ call'[m] \in {"recorded", "returned"} /\ ~Ended(m)' /\ m \notin pending'
          /\ \A c \in Enders : m \in hand'[c] => b = c
  BY <1>0, <1>1, <1>2, <1>3, SMTT(60) DEF ClaimInv
<1>7. \A m \in Notes : /\ Ended(m)' => call'[m] \in {"recorded", "returned"}
                       /\ reason'[m] # "Ok" => Ended(m)'
  BY SMTT(60), <1>1, <1>3, <1>4 DEF ClaimInv
<1>8. /\ pass' \notin {"failing", "sweeping"} => hand'["progress"] = {}
      /\ \A p \in Peers : remover'[p] # "failing" => hand'[p] = {}
      /\ closer' # "cancelling" => hand'["close"] = {}
  BY <1>1, <1>2, SMTT(60) DEF ClaimInv, Enders
<1> QED
  BY <1>5, <1>6, <1>7, <1>8 DEF ClaimInv

\* A thread that takes a notification back, or ends it on its reply, has it
\* out of the map in the same section.
LEMMA OneEndsFromTheMap ==
    ASSUME TypeInv, ClaimInv, NEW n \in pending, NEW ended \in Endings,
           pending' = pending \ {n}, UNCHANGED <<hand, remover, closer>>,
           state'[n] = ended, call'[n] \in {"recorded", "returned"},
           \A m \in Notes \ {n} : /\ state'[m] = state[m] /\ reason'[m] = reason[m]
                                  /\ call'[m] = call[m],
           pass' = pass \/ (pass = "poll" /\ pass' = "idle")
    PROVE  ClaimInv'
<1>0. pending \subseteq Notes /\ hand \in [Enders -> SUBSET Notes]
  BY DEF TypeInv, TypeOK
<1>1. /\ \A m \in Notes \ {n} : Ended(m)' <=> Ended(m)
      /\ Ended(n)' /\ \A a \in Enders : n \notin hand[a]
  BY <1>0 DEF Ended, ClaimInv
<1>2. /\ pass' \notin {"failing", "sweeping"} => hand'["progress"] = {}
      /\ \A p \in Peers : remover'[p] # "failing" => hand'[p] = {}
      /\ closer' # "cancelling" => hand'["close"] = {}
  BY DEF ClaimInv
<1>3. \A m \in pending' : call'[m] \in {"recorded", "returned"} /\ ~Ended(m)'
  BY SMTT(60), <1>0, <1>1 DEF ClaimInv
<1>4. \A a \in Enders : \A m \in hand'[a] :
          /\ call'[m] \in {"recorded", "returned"} /\ ~Ended(m)' /\ m \notin pending'
          /\ \A b \in Enders : m \in hand'[b] => a = b
  BY <1>0, <1>1 DEF ClaimInv
<1>5. \A m \in Notes : /\ Ended(m)' => call'[m] \in {"recorded", "returned"}
                       /\ reason'[m] # "Ok" => Ended(m)'
  BY <1>0, <1>1, ZenonT(60) DEF ClaimInv
<1> QED
  BY <1>2, <1>3, <1>4, <1>5, SMTT(60) DEF ClaimInv

\* notify() and cancel.
LEMMA CallersKeepClaims ==
    ASSUME TypeInv, ClaimInv, NEW n \in Notes,
           \/ NotifyRecord(n) \/ NotifySend(n) \/ Cancel(n)
           \/ \E p \in Peers : NotifyEnter(n, p)
    PROVE  ClaimInv'
<1>0. /\ pending \subseteq Notes /\ hand \in [Enders -> SUBSET Notes]
      /\ call \in [Notes -> {"idle", "entered", "recorded", "returned", "rejected"}]
  BY DEF TypeInv, TypeOK
<1>1. ASSUME NEW p \in Peers, NotifyEnter(n, p) PROVE ClaimInv'
  <2>1. /\ call[n] = "idle" /\ UNCHANGED <<state, reason, pending, hand, pass, remover,
                                           closer>>
        /\ \A m \in Notes \ {n} : call'[m] = call[m]
    BY <1>0, <1>1 DEF NotifyEnter, reqVars, ending, passVars, others
  <2> QED
    BY <1>0, <2>1, ZenonT(60) DEF ClaimInv, Ended
<1>2. CASE NotifyRecord(n)
  <2>1. /\ call[n] = "entered" /\ UNCHANGED <<state, reason, hand, pass, remover, closer>>
        /\ \A m \in Notes \ {n} : call'[m] = call[m]
        /\ \/ pending' = pending \cup {n} /\ call'[n] = "recorded"
           \/ pending' = pending
    BY <1>0, <1>2 DEF NotifyRecord, reqVars, passVars, others
  <2>2. ~Ended(n) /\ n \notin pending /\ \A a \in Enders : n \notin hand[a]
    BY <2>1, ZenonT(60) DEF ClaimInv
  <2>3. \A m \in Notes : Ended(m)' <=> Ended(m)
    BY <2>1 DEF Ended
  <2>4. /\ pass' \notin {"failing", "sweeping"} => hand'["progress"] = {}
        /\ \A p \in Peers : remover'[p] # "failing" => hand'[p] = {}
        /\ closer' # "cancelling" => hand'["close"] = {}
    BY <2>1, ZenonT(60) DEF ClaimInv
  <2>5. ASSUME NEW m \in pending'
        PROVE  call'[m] \in {"recorded", "returned"} /\ ~Ended(m)'
    <3>1. CASE m = n
      BY <2>1, <2>2, <2>3, <3>1, ZenonT(60)
    <3>2. CASE m # n
      <4>1. m \in pending /\ m \in Notes
        BY <1>0, <2>1, <3>2, SMTT(60)
      <4>2. call'[m] = call[m] /\ (Ended(m)' <=> Ended(m))
        BY <2>1, <2>3, <3>2, <4>1
      <4> QED
        BY <4>1, <4>2 DEF ClaimInv
    <3> QED
      BY <3>1, <3>2
  <2>6. \A a \in Enders : \A m \in hand'[a] :
            /\ call'[m] \in {"recorded", "returned"} /\ ~Ended(m)' /\ m \notin pending'
            /\ \A b \in Enders : m \in hand'[b] => a = b
    BY <1>0, <2>1, <2>2, <2>3, ZenonT(60) DEF ClaimInv
  <2>7. \A m \in Notes : /\ Ended(m)' => call'[m] \in {"recorded", "returned"}
                         /\ reason'[m] # "Ok" => Ended(m)'
    BY <2>1, <2>2, <2>3, ZenonT(60) DEF ClaimInv
  <2> QED
    BY <2>4, <2>5, <2>6, <2>7, ZenonT(60) DEF ClaimInv
<1>3. CASE NotifySend(n)
  <2>1. /\ call[n] = "recorded" /\ call'[n] = "returned"
        /\ UNCHANGED <<hand, pass, remover, closer>>
        /\ \A m \in Notes \ {n} : call'[m] = call[m]
    BY <1>0, <1>3 DEF NotifySend, passVars, others
  <2>2. PICK answer \in SendAnswers(to[n]) :
            \/ UNCHANGED <<pending, state, reason>>
            \/ answer \in Reasons /\ TakeBack(n, answer)
    BY <1>3, <2>1, AnswersAreReasons, ZenonT(60) DEF NotifySend
  <2>3. CASE UNCHANGED <<pending, state, reason>>
    BY <1>0, <2>1, <2>3, ZenonT(90) DEF ClaimInv, Ended
  <2>4. CASE answer \in Reasons /\ TakeBack(n, answer) /\ n \in pending
    <3>1. ~Ended(n) /\ pending' = pending \ {n} /\ fail(n, answer)
      BY <2>4, ZenonT(90) DEF TakeBack, ClaimInv, take_notification
    <3> QED
      BY <2>1, <2>4, <3>1, FailEffect, OneEndsFromTheMap DEF Endings, TypeInv
  <2> QED
    BY <2>2, <2>3, <2>4, SMTT(60) DEF TakeBack
<1>4. CASE Cancel(n)
  BY <1>4, ZenonT(60) DEF Cancel, ClaimInv, Ended, callVars, ending, passVars, others
<1> QED
  BY <1>1, <1>2, <1>3, <1>4

\* What reading a reply does: nothing to requests that have been claimed since.
LEMMA ReplyEffect ==
    ASSUME TypeInv, ClaimInv, NEW p \in Peers, HandleReply(p)
    PROVE  LET r == Head(fromPeer[p]) IN
              /\ In(r, fromPeer[p]) /\ r \in Replies
              /\ \/ UNCHANGED <<pending, state, reason, completed>>
                 \/ /\ r[1] \in pending /\ pending' = pending \ {r[1]}
                    /\ completed' = Append(completed, r[1])
                    /\ \/ r[2] = "Ack" /\ state'[r[1]] = "Succeeded" /\ reason' = reason
                       \/ /\ r[2] = "Refused" /\ state'[r[1]] = "Failed"
                          /\ reason'[r[1]] = "ResourceExhausted"
                    /\ \A m \in Notes \ {r[1]} :
                          state'[m] = state[m] /\ reason'[m] = reason[m]
              /\ \A q \in Peers : \A x : In(x, fromPeer'[q]) => In(x, fromPeer[q])
              /\ pass = "poll" /\ pass' \in {"poll", "idle"}
              /\ UNCHANGED <<peerMap, callVars, cancel, hand, gone, reaping, others,
                             link, toPeer, peerVars>>
<1> USE DEF TypeInv
<1> DEFINE r == Head(fromPeer[p])
<1>1. /\ r \in Replies /\ r[1] \in Notes /\ r[2] \in {"Ack", "Refused"}
      /\ In(r, fromPeer[p])
      /\ \A x : In(x, Tail(fromPeer[p])) => In(x, fromPeer[p])
  BY InTail DEF HandleReply, Replies, TypeOK
<1>2. \A q \in Peers : \A x : In(x, fromPeer'[q]) => In(x, fromPeer[q])
  BY <1>1, ZenonT(60) DEF HandleReply, TypeOK
<1>3. /\ pass = "poll" /\ pass' \in {"poll", "idle"}
      /\ UNCHANGED <<peerMap, callVars, cancel, hand, gone, reaping, others, link,
                     toPeer, peerVars>>
  BY ZenonT(60) DEF HandleReply
<1>4. CASE r[1] \notin pending
  BY <1>1, <1>2, <1>3, <1>4 DEF HandleReply
<1>5. CASE r[1] \in pending
  <2>1. ~Ended(r[1])
    BY <1>5 DEF ClaimInv
  <2>2. /\ pending' = pending \ {r[1]} /\ completed' = Append(completed, r[1])
        /\ IF r[2] = "Ack" THEN finish(r[1], "Succeeded")
                           ELSE fail(r[1], "ResourceExhausted")
    BY <1>5, ZenonT(60) DEF HandleReply, take_notification, publish
  <2>3. CASE r[2] = "Ack"
    BY <1>1, <1>2, <1>3, <1>5, <2>1, <2>2, <2>3, FinishEffect, ZenonT(60) DEF Endings
  <2>4. CASE r[2] = "Refused"
    BY <1>1, <1>2, <1>3, <1>5, <2>1, <2>2, <2>4, FailEffect, ZenonT(60) DEF Reasons
  <2> QED
    BY <1>1, <2>3, <2>4, ZenonT(60)
<1> QED
  BY <1>4, <1>5, ZenonT(60)

\* Every step keeps the claims.
LEMMA ClaimsStep ==
    ASSUME TypeInv, ClaimInv, [Next]_vars
    PROVE  ClaimInv'
<1> USE DEF peerMap, callVars, reqVars, ending, passVars, others, channel, peerVars
<1>1. ASSUME NEW p \in Peers, HandleReply(p) PROVE ClaimInv'
  <2> DEFINE n == Head(fromPeer[p])[1]
  <2>1. UNCHANGED <<call, hand, remover, closer>> /\ pass = "poll" /\ pass' \in {"poll", "idle"}
    BY <1>1, ReplyEffect, ZenonT(150)
  <2>2. CASE UNCHANGED <<pending, state, reason>>
    BY <2>1, <2>2, ZenonT(90) DEF ClaimInv, Ended
  <2>3. CASE /\ n \in pending /\ pending' = pending \ {n}
             /\ state'[n] \in Endings
             /\ \A m \in Notes \ {n} : state'[m] = state[m] /\ reason'[m] = reason[m]
    <3>1. call'[n] \in {"recorded", "returned"}
      BY <2>1, <2>3 DEF ClaimInv
    <3>2. PICK u : u = n
      OBVIOUS
    <3>3. /\ u \in pending /\ pending' = pending \ {u} /\ state'[u] \in Endings
          /\ call'[u] \in {"recorded", "returned"}
          /\ \A m \in Notes \ {u} : state'[m] = state[m] /\ reason'[m] = reason[m]
      BY <2>3, <3>1, <3>2, ZenonT(30)
    <3>4. /\ UNCHANGED <<hand, remover, closer>> /\ (pass' = pass \/ (pass = "poll" /\ pass' = "idle"))
          /\ \A m \in Notes \ {u} : call'[m] = call[m]
      BY <2>1, ZenonT(30)
    <3> HIDE DEF n
    <3>5. \A m \in Notes \ {u} : state'[m] = state[m] /\ reason'[m] = reason[m] /\ call'[m] = call[m]
      BY <3>3, <3>4, ZenonT(30)
    <3> QED
      BY <3>3, <3>4, <3>5, OneEndsFromTheMap, ZenonT(60)
  <2> QED
    BY <1>1, <2>2, <2>3, ReplyEffect, ZenonT(60) DEF Endings
<1>2. CASE ReapBegin \/ PassNext
  BY <1>2, ZenonT(60) DEF ReapBegin, PassNext, ClaimInv, Ended
<1>3. ASSUME NEW p \in Peers, ReapDisconnect(p) PROVE ClaimInv'
  BY <1>3 DEF ReapDisconnect, ClaimInv, Ended
<1>4. CASE CloseBegin \/ CloseTimeout \/ CloseDone
  BY <1>4, ZenonT(60) DEF CloseBegin, CloseTimeout, CloseDone, ClaimInv, Ended
<1>5. ASSUME NEW p \in Peers, RemoveErase(p) \/ RemoveDisconnect(p) PROVE ClaimInv'
  <2>1. /\ UNCHANGED <<call, state, reason, pending, hand, pass, closer>>
        /\ remover[p] = "idle" \/ hand[p] = {}
        /\ \A q \in Peers \ {p} : remover'[q] = remover[q]
    BY <1>5 DEF RemoveErase, RemoveDisconnect, TypeInv, TypeOK
  <2>2. hand[p] = {}
    BY <2>1, ZenonT(60) DEF ClaimInv
  <2> QED
    BY <2>1, <2>2, ZenonT(60) DEF ClaimInv, Ended
<1>6. ASSUME NEW p \in Peers, \/ Receive(p) \/ Reply(p) \/ poll_notifications(p)
                              \/ PeerGoes(p)
      PROVE  ClaimInv'
  BY <1>6, ZenonT(60) DEF Receive, Reply, poll_notifications, PeerGoes, sender, ClaimInv, Ended
<1>7. CASE UNCHANGED vars
  BY <1>7, ZenonT(60) DEF vars, sender, ClaimInv, Ended
<1> QED
  BY <1>1, <1>2, <1>3, <1>4, <1>5, <1>6, <1>7, Steps, TakingKeepsClaims,
     EndingKeepsClaims, CallersKeepClaims

\* A notification that is reported was claimed, and so not reported before.
LEMMA ReportsStep ==
    ASSUME TypeInv, ClaimInv, ReportInv, [Next]_vars
    PROVE  ReportInv'
<1> USE DEF peerMap, callVars, reqVars, ending, passVars, others, channel, peerVars
<1>1. ASSUME UNCHANGED completed, \A n \in Notes : Ended(n) => Ended(n)'
      PROVE  ReportInv'
  BY <1>1 DEF ReportInv
<1>2. ASSUME NEW n \in Notes, ~Ended(n), completed' = Append(completed, n),
             state'[n] \in Endings, \A m \in Notes \ {n} : state'[m] = state[m]
      PROVE  ReportInv'
  <2>1. completed \in Seq(Notes) /\ ~In(n, completed)
    BY <1>2 DEF ReportInv, TypeInv, TypeOK
  <2>2. Distinct(completed')
    BY <1>2, <2>1, DistinctAppend, ZenonT(60) DEF ReportInv
  <2>3. \A m \in Notes : In(m, completed') => In(m, completed) \/ m = n
    BY <1>2, <2>1, InAppend, ZenonT(60)
  <2> QED
    BY <1>2, <2>2, <2>3, ZenonT(60) DEF ReportInv, Ended
<1>3. ASSUME NEW n \in Notes,
             \/ NotifyRecord(n) \/ NotifySend(n) \/ Cancel(n)
             \/ \E p \in Peers : NotifyEnter(n, p)
      PROVE  ReportInv'
  <2>1. CASE NotifySend(n)
    <3>1. UNCHANGED completed
      BY <2>1, ZenonT(60) DEF NotifySend
    <3>2. UNCHANGED state \/ \E why \in Reasons : fail(n, why)
      BY <2>1, AnswersAreReasons, ZenonT(60) DEF NotifySend, TakeBack
    <3>3. \A m \in Notes : Ended(m) => Ended(m)'
      BY <3>2, FailEffect, SMTT(60) DEF Ended, TypeInv
    <3> QED
      BY <1>1, <3>1, <3>3
  <2> QED
    BY <1>1, <1>3, <2>1 DEF NotifyRecord, Cancel, NotifyEnter, Ended
<1>4. CASE Takes
  BY <1>1, <1>4, SMTT(60) DEF Takes, ReapEnd, SweepCancelled, CloseCancel, RemoveEnd,
     end_notifications, Ended
<1>5. ASSUME NEW a, Ends(a) PROVE ReportInv'
  BY <1>2, <1>5, EndingEffect, SMTT(60) DEF Endings
<1>6. ASSUME NEW p \in Peers, HandleReply(p) PROVE ReportInv'
  <2>1. \A n \in pending : n \in Notes /\ ~Ended(n)
    BY SMTT(60) DEF ClaimInv, TypeInv, TypeOK
  <2> QED
    BY <1>1, <1>2, <1>6, <2>1, ReplyEffect, SMTT(60) DEF Endings, Ended
<1>7. CASE ReapBegin \/ PassNext \/ CloseBegin \/ CloseTimeout \/ CloseDone
  BY <1>1, <1>7 DEF ReapBegin, PassNext, CloseBegin, CloseTimeout, CloseDone, Ended
<1>8. ASSUME NEW p \in Peers,
             ReapDisconnect(p) \/ RemoveErase(p) \/ RemoveDisconnect(p)
      PROVE  ReportInv'
  BY <1>1, <1>8, ZenonT(60) DEF ReapDisconnect, RemoveErase, RemoveDisconnect, Ended
<1>9. ASSUME NEW p \in Peers, \/ Receive(p) \/ Reply(p) \/ poll_notifications(p)
                              \/ PeerGoes(p)
      PROVE  ReportInv'
  BY <1>1, <1>9 DEF Receive, Reply, poll_notifications, PeerGoes, sender, Ended
<1>10. CASE UNCHANGED vars
  BY <1>1, <1>10 DEF vars, sender, Ended
<1> QED
  BY SMTT(60), <1>3, <1>4, <1>5, <1>6, <1>7, <1>8, <1>9, <1>10, Steps

\* Who holds a notification is decided under the lock, in every reachable
\* state.
LEMMA ClaimsInvariant ==
    Spec => [](TypeInv /\ ClaimInv /\ ReportInv)
<1>1. Init => ClaimInv /\ ReportInv
  BY DEF Init, ClaimInv, ReportInv, Ended, Endings, Enders, Distinct, In
<1>2. TypeInv /\ ClaimInv /\ ReportInv /\ [Next]_vars => ClaimInv' /\ ReportInv'
  BY ClaimsStep, ReportsStep
<1> QED
  BY <1>1, <1>2, TypesInvariant, PTL DEF Spec

\* ReportedOnce: however many of the reply, the departure, the removal, a
\* cancel and close() race for a notification, poll_completions is handed it at
\* most once, ended, and not while it is still in the map
\* (take_notification and end_notifications in src/core/engine_impl.cpp).
THEOREM ReportedAtMostOnce ==
    Spec => []ReportedOnce
<1>1. TypeInv /\ ClaimInv /\ ReportInv => ReportedOnce
  <2> SUFFICES ASSUME TypeInv, ClaimInv, ReportInv PROVE ReportedOnce
    OBVIOUS
  <2>1. \A i \in 1 .. Len(completed) : completed[i] \in Notes /\ In(completed[i], completed)
    BY ElementOfSeq DEF In, TypeInv, TypeOK
  <2> QED
    BY <2>1 DEF ReportedOnce, ReportInv, ClaimInv, Distinct
<1> QED
  BY <1>1, ClaimsInvariant, PTL
============================================================================
