------------------------ MODULE NotificationsProofs ------------------------
(***************************************************************************)
(* Proofs about Notifications, continued: nothing is left behind by        *)
(* close() (CloseInv); what the messages on the channels stand for         *)
(* (WireInv), and so that outcomes are true of the peer; what is known of  *)
(* a peer that has gone (DepartInv), and so that its departure ends its    *)
(* own notifications.                                                      *)
(***************************************************************************)
EXTENDS NotificationsClaims

-----------------------------------------------------------------------------
(* close() *)

\* closed_ is set before close() looks for what is left, and stays set.
CloseInv ==
    /\ closer # "idle" => closed
    /\ NothingAfterClose

\* NothingAfterClose: closed_ is looked at again where a notification is
\* recorded, so that nothing enters the map behind the back of close() (the
\* second check in notify(), src/core/engine_impl.cpp).
THEOREM NothingIsLeftByClose ==
    Spec => []NothingAfterClose
<1> USE DEF peerMap, callVars, reqVars, ending, passVars, others, channel, peerVars
<1>1. Init => CloseInv
  BY DEF Init, CloseInv, NothingAfterClose
<1>2. TypeInv /\ ClaimInv /\ CloseInv /\ [Next]_vars => CloseInv'
  <2> SUFFICES ASSUME TypeInv, ClaimInv, CloseInv, [Next]_vars PROVE CloseInv'
    OBVIOUS
  <2> USE DEF CloseInv, NothingAfterClose
  <2>1. ASSUME UNCHANGED <<closed, closer>>, pending' \subseteq pending PROVE CloseInv'
    BY <2>1
  <2>2. ASSUME NEW n \in Notes,
               \/ NotifyRecord(n) \/ NotifySend(n) \/ Cancel(n)
               \/ \E p \in Peers : NotifyEnter(n, p)
        PROVE  CloseInv'
    <3>1. CASE NotifyRecord(n)
      BY <3>1 DEF NotifyRecord, StillOpen
    <3> QED
      BY <2>1, <2>2, <3>1, ZenonT(60) DEF NotifySend, TakeBack, take_notification, Cancel, NotifyEnter
  <2>3. CASE Takes
    BY <2>3 DEF Takes, ReapEnd, SweepCancelled, CloseCancel, RemoveEnd,
       end_notifications, TypeInv, TypeOK
  <2>4. ASSUME NEW a, Ends(a) PROVE CloseInv'
    BY <2>1, <2>4, EndingEffect, ZenonT(60)
  <2>5. ASSUME NEW p \in Peers, HandleReply(p) PROVE CloseInv'
    BY <2>1, <2>5, ReplyEffect, ZenonT(60)
  <2>6. CASE ReapBegin \/ PassNext \/ CloseBegin \/ CloseTimeout \/ CloseDone
    BY <2>6 DEF ReapBegin, PassNext, CloseBegin, CloseTimeout, CloseDone
  <2>7. ASSUME NEW p \in Peers,
               ReapDisconnect(p) \/ RemoveErase(p) \/ RemoveDisconnect(p)
        PROVE  CloseInv'
    BY <2>1, <2>7, ZenonT(60) DEF ReapDisconnect, RemoveErase, RemoveDisconnect
  <2>8. ASSUME NEW p \in Peers, \/ Receive(p) \/ Reply(p) \/ poll_notifications(p)
                                \/ PeerGoes(p)
        PROVE  CloseInv'
    BY <2>1, <2>8 DEF Receive, Reply, poll_notifications, PeerGoes, sender
  <2>9. CASE UNCHANGED vars
    BY <2>1, <2>9 DEF vars, sender
  <2> QED
    BY <2>2, <2>3, <2>4, <2>5, <2>6, <2>7, <2>8, <2>9, Steps
<1>3. CloseInv => NothingAfterClose
  BY DEF CloseInv
<1> QED
  BY <1>1, <1>2, <1>3, ClaimsInvariant, PTL DEF Spec

-----------------------------------------------------------------------------
(* What the messages stand for *)

Sent(n) == call[n] = "returned"
Read(n) == \A p \in Peers : ~In(n, toPeer[p])

\* A notification is on at most one channel, at most once, and is not queued
\* before it is read.  A reply, and an ending that came from one, tells whether
\* it was queued.
WireInv ==
    /\ \A p \in Peers : Distinct(toPeer[p])
    /\ \A p \in Peers, n \in Notes :
          In(n, toPeer[p]) => Sent(n) /\ to[n] = p /\ n \notin queued
    /\ \A n \in queued : Sent(n)
    /\ \A p \in Peers, n \in Notes :
          /\ In(<<n, "Ack">>, fromPeer[p]) \/ owes[p] = <<n, "Ack">> => n \in queued
          /\ In(<<n, "Refused">>, fromPeer[p]) \/ owes[p] = <<n, "Refused">>
                => Sent(n) /\ Read(n) /\ n \notin queued
    /\ \A n \in Notes :
          /\ state[n] = "Succeeded" => n \in queued
          /\ reason[n] \in {"ResourceExhausted", "WouldBlock"}
                => Sent(n) /\ Read(n) /\ n \notin queued

\* Steps that neither send nor read a notification, nor end one on a reply.
LEMMA WireFrame ==
    ASSUME TypeInv, WireInv, UNCHANGED <<toPeer, queued>>,
           \A p \in Peers : owes'[p] \in {owes[p], <<>>},
           \A p \in Peers : \A x :
              In(x, fromPeer'[p]) => In(x, fromPeer[p]) \/ (x = owes[p] /\ x # <<>>),
           \A n \in Notes : Sent(n) => Sent(n)' /\ to'[n] = to[n],
           \A n \in Notes : state'[n] = "Succeeded" => state[n] = "Succeeded",
           \A n \in Notes : reason'[n] \in {"ResourceExhausted", "WouldBlock"}
                               => reason[n] \in {"ResourceExhausted", "WouldBlock"}
    PROVE  WireInv'
<1> USE DEF TypeInv, TypeOK
<1>1. \A n \in Notes : Read(n)' <=> Read(n)
  BY ZenonT(60) DEF Read
<1>2. \A p \in Peers : Distinct(toPeer'[p])
  BY ZenonT(60) DEF WireInv
<1>3. \A p \in Peers, n \in Notes :
          In(n, toPeer'[p]) => Sent(n)' /\ to'[n] = p /\ n \notin queued'
  BY ZenonT(60) DEF WireInv
<1>4. \A n \in queued' : Sent(n)'
  BY ZenonT(60) DEF WireInv
<1>5. ASSUME NEW p \in Peers, NEW n \in Notes
      PROVE  /\ In(<<n, "Ack">>, fromPeer'[p]) \/ owes'[p] = <<n, "Ack">> => n \in queued'
             /\ In(<<n, "Refused">>, fromPeer'[p]) \/ owes'[p] = <<n, "Refused">>
                   => Sent(n)' /\ Read(n)' /\ n \notin queued'
  <2>1. <<n, "Ack">> # <<>> /\ <<n, "Refused">> # <<>>
    BY ZenonT(60)
  <2>2. /\ In(<<n, "Ack">>, fromPeer'[p]) \/ owes'[p] = <<n, "Ack">>
              => In(<<n, "Ack">>, fromPeer[p]) \/ owes[p] = <<n, "Ack">>
        /\ In(<<n, "Refused">>, fromPeer'[p]) \/ owes'[p] = <<n, "Refused">>
              => In(<<n, "Refused">>, fromPeer[p]) \/ owes[p] = <<n, "Refused">>
    BY <2>1, ZenonT(60)
  <2> QED
    BY <1>1, <2>2 DEF WireInv
<1>6. \A n \in Notes :
          /\ state'[n] = "Succeeded" => n \in queued'
          /\ reason'[n] \in {"ResourceExhausted", "WouldBlock"}
                => Sent(n)' /\ Read(n)' /\ n \notin queued'
  BY <1>1, ZenonT(60) DEF WireInv
<1> QED
  BY <1>2, <1>3, <1>4, <1>5, <1>6, ZenonT(60) DEF WireInv

\* notify() sends a notification once, or reports that it did not.
LEMMA SendingKeepsWires ==
    ASSUME TypeInv, ClaimInv, WireInv, NEW n \in Notes, NotifySend(n)
    PROVE  WireInv'
<1> USE DEF TypeInv, TypeOK
<1>1. /\ call[n] = "recorded" /\ call'[n] = "returned" /\ to[n] \in Peers
      /\ \A m \in Notes \ {n} : call'[m] = call[m]
      /\ UNCHANGED <<to, fromPeer, queued, owes>>
  BY DEF NotifySend, peerVars
<1>2. /\ ~Sent(n) /\ Sent(n)' /\ \A m \in Notes : Sent(m) => Sent(m)'
      /\ \A p \in Peers : ~In(n, toPeer[p])
      /\ n \notin queued /\ Read(n)
  BY <1>1, ZenonT(60) DEF Sent, WireInv, Read
<1>3. PICK answer \in SendAnswers(to[n]) :
          IF answer = "Ok"
          THEN /\ toPeer' = IF link[to[n]] = "up"
                            THEN [toPeer EXCEPT ![to[n]] = Append(@, n)] ELSE toPeer
               /\ UNCHANGED <<pending, state, reason>>
          ELSE TakeBack(n, answer) /\ UNCHANGED toPeer
  BY ZenonT(60) DEF NotifySend
<1>4. CASE toPeer' = [toPeer EXCEPT ![to[n]] = Append(@, n)] /\ UNCHANGED <<state, reason>>
  <2>1. \A q \in Peers, m \in Notes :
            In(m, toPeer'[q]) => In(m, toPeer[q]) \/ (m = n /\ q = to[n])
    BY SMTT(60), <1>1, <1>4, InAppend
  <2>2. \A q \in Peers : Distinct(toPeer'[q])
    BY <1>1, <1>2, <1>4, DistinctAppend DEF WireInv
  <2>3. \A m \in Notes \ {n} : Read(m) => Read(m)'
    BY SMTT(60), <2>1 DEF Read
  <2>4. \A p \in Peers, m \in Notes :
            In(m, toPeer'[p]) => Sent(m)' /\ to'[m] = p /\ m \notin queued'
    BY <1>1, <1>2, <2>1 DEF WireInv
  <2>5. \A m \in queued' : Sent(m)'
    BY <1>1, <1>2, ZenonT(60) DEF WireInv
  <2>6. \A p \in Peers, m \in Notes :
          /\ In(<<m, "Ack">>, fromPeer'[p]) \/ owes'[p] = <<m, "Ack">> => m \in queued'
          /\ In(<<m, "Refused">>, fromPeer'[p]) \/ owes'[p] = <<m, "Refused">>
                => Sent(m)' /\ Read(m)' /\ m \notin queued'
    BY <1>1, <1>2, <2>3, ZenonT(90) DEF WireInv
  <2>7. \A m \in Notes :
          /\ state'[m] = "Succeeded" => m \in queued'
          /\ reason'[m] \in {"ResourceExhausted", "WouldBlock"}
                => Sent(m)' /\ Read(m)' /\ m \notin queued'
    BY <1>1, <1>2, <1>4, <2>3, ZenonT(60) DEF WireInv
  <2> QED
    BY <2>2, <2>4, <2>5, <2>6, <2>7, ZenonT(60) DEF WireInv
<1>5. CASE UNCHANGED <<toPeer, state, reason>>
  BY <1>1, <1>2, <1>5, WireFrame, ZenonT(60)
<1>6. CASE answer # "Ok" /\ n \in pending
  <2>1. fail(n, answer) /\ UNCHANGED toPeer /\ answer \in Reasons /\ ~Ended(n)
    BY SMTT(60), <1>1, <1>3, <1>6 DEF TakeBack, SendAnswers, Reasons, ClaimInv
  <2>2. /\ state'[n] = "Failed"
        /\ \A m \in Notes \ {n} : state'[m] = state[m] /\ reason'[m] = reason[m]
    BY <2>1, FailEffect
  <2>3. \A m \in Notes : Read(m)' <=> Read(m)
    BY <2>1 DEF Read
  <2>4. \A p \in Peers, m \in Notes :
            In(m, toPeer'[p]) => Sent(m)' /\ to'[m] = p /\ m \notin queued'
    BY <1>1, <1>2, <2>1, ZenonT(60) DEF WireInv
  <2>5. \A m \in queued' : Sent(m)'
    BY <1>1, <1>2, ZenonT(60) DEF WireInv
  <2>6. \A p \in Peers, m \in Notes :
          /\ In(<<m, "Ack">>, fromPeer'[p]) \/ owes'[p] = <<m, "Ack">> => m \in queued'
          /\ In(<<m, "Refused">>, fromPeer'[p]) \/ owes'[p] = <<m, "Refused">>
                => Sent(m)' /\ Read(m)' /\ m \notin queued'
    BY <1>1, <1>2, <2>3, ZenonT(90) DEF WireInv
  <2>7. \A m \in Notes :
          /\ state'[m] = "Succeeded" => m \in queued'
          /\ reason'[m] \in {"ResourceExhausted", "WouldBlock"}
                => Sent(m)' /\ Read(m)' /\ m \notin queued'
    BY <1>1, <1>2, <2>2, <2>3 DEF WireInv
  <2> QED
    BY <2>1, <2>4, <2>5, <2>6, <2>7, ZenonT(60) DEF WireInv
<1> QED
  BY <1>3, <1>4, <1>5, <1>6 DEF TakeBack

\* The peer reads a notification once, and its reply says what it did with it.
LEMMA ReceivingKeepsWires ==
    ASSUME TypeInv, WireInv, NEW p \in Peers, Receive(p)
    PROVE  WireInv'
<1> USE DEF TypeInv, TypeOK
<1>0. PICK n \in Notes : n = Head(toPeer[p])
  BY InTail DEF Receive
<1>1. /\ toPeer' = [toPeer EXCEPT ![p] = Tail(@)]
      /\ owes' = [owes EXCEPT ![p] = <<n, Answer(p)>>]
      /\ queued' = IF HasRoom(p) THEN queued \cup {n} ELSE queued
      /\ UNCHANGED <<call, to, state, reason, fromPeer>>
  BY <1>0 DEF Receive, sender, callVars, reqVars
<1>2. In(n, toPeer[p]) /\ ~In(n, Tail(toPeer[p])) /\ Distinct(Tail(toPeer[p]))
  BY <1>0, InTail, DistinctTail, ZenonT(90) DEF Receive, WireInv
<1>3. Sent(n) /\ to[n] = p /\ n \notin queued /\ ~Read(n)
  BY <1>2, ZenonT(60) DEF WireInv, Read
<1>4. \A q \in Peers, m \in Notes : In(m, toPeer'[q]) => In(m, toPeer[q]) /\ m # n
  <2>1. \A m : In(m, Tail(toPeer[p])) => In(m, toPeer[p])
    BY InTail DEF Receive
  <2> QED
    BY SMTT(60), <1>1, <1>2, <1>3, <2>1 DEF WireInv
<1>5. /\ Read(n)' /\ \A m \in Notes : Read(m) => Read(m)'
      /\ \A m \in Notes : Sent(m)' <=> Sent(m)
  BY <1>1, <1>2, <1>4 DEF Read, Sent
<1>6. \A q \in Peers : Distinct(toPeer'[q])
  BY <1>1, <1>2, ZenonT(90) DEF WireInv
<1>7. \A q \in Peers, m \in Notes :
          In(m, toPeer'[q]) => Sent(m)' /\ to'[m] = q /\ m \notin queued'
  BY <1>1, <1>4, <1>5, ZenonT(60) DEF WireInv
<1>8. \A m \in queued' : Sent(m)'
  BY <1>1, <1>3, <1>5 DEF WireInv
<1>9. ASSUME NEW q \in Peers, NEW m \in Notes
      PROVE  /\ In(<<m, "Ack">>, fromPeer'[q]) \/ owes'[q] = <<m, "Ack">> => m \in queued'
             /\ In(<<m, "Refused">>, fromPeer'[q]) \/ owes'[q] = <<m, "Refused">>
                   => Sent(m)' /\ Read(m)' /\ m \notin queued'
  <2>1. owes'[q] = owes[q] \/ (q = p /\ owes'[q] = <<n, Answer(p)>>)
    BY <1>1
  <2>2. CASE m = n
    <3>1. \A a \in {"Ack", "Refused"} : ~In(<<n, a>>, fromPeer[q]) /\ owes[q] # <<n, a>>
      BY <1>3, ZenonT(60) DEF WireInv
    <3>2. /\ owes'[q] = <<n, "Ack">> => Answer(p) = "Ack"
          /\ owes'[q] = <<n, "Refused">> => Answer(p) = "Refused"
      BY <2>1, <3>1
    <3> QED
      BY <1>1, <1>3, <1>5, <2>2, <3>1, <3>2 DEF Answer
  <2>3. CASE m # n
    BY <1>1, <1>5, <2>1, <2>3, ZenonT(90) DEF WireInv
  <2> QED
    BY <2>2, <2>3, ZenonT(60)
<1>10. \A m \in Notes :
          /\ state'[m] = "Succeeded" => m \in queued'
          /\ reason'[m] \in {"ResourceExhausted", "WouldBlock"}
                => Sent(m)' /\ Read(m)' /\ m \notin queued'
  BY <1>1, <1>3, <1>5, ZenonT(60) DEF WireInv
<1> QED
  BY <1>6, <1>7, <1>8, <1>9, <1>10, ZenonT(60) DEF WireInv

\* Every step keeps them.
LEMMA WiresStep ==
    ASSUME TypeInv, ClaimInv, WireInv, [Next]_vars
    PROVE  WireInv'
<1> USE DEF peerMap, callVars, reqVars, ending, passVars, others, channel, peerVars
<1>1. ASSUME UNCHANGED <<call, to, state, reason, toPeer, fromPeer, queued, owes>>
      PROVE  WireInv'
  BY <1>1, ZenonT(60) DEF WireInv, Sent, Read
<1>2. ASSUME NEW n \in Notes,
             \/ NotifyRecord(n) \/ Cancel(n) \/ \E p \in Peers : NotifyEnter(n, p)
      PROVE  WireInv'
  <2>1. /\ UNCHANGED <<state, reason, toPeer, fromPeer, queued, owes>>
        /\ \A m \in Notes : call[m] = "returned" => call'[m] = "returned" /\ to'[m] = to[m]
    BY <1>2, ZenonT(90) DEF NotifyRecord, Cancel, NotifyEnter, TypeInv, TypeOK
  <2> QED
    BY <2>1, WireFrame DEF Sent
<1>3. CASE Takes
  BY <1>1, <1>3 DEF Takes, ReapEnd, SweepCancelled, CloseCancel, RemoveEnd
<1>4. ASSUME NEW a, Ends(a) PROVE WireInv'
  <2>1. /\ UNCHANGED <<call, to, toPeer, fromPeer, queued, owes>>
        /\ \A m \in Notes :
              \/ state'[m] = state[m] /\ reason'[m] = reason[m]
              \/ state'[m] = "Cancelled" /\ reason'[m] = reason[m]
              \/ state'[m] = "Failed" /\ reason'[m] = "PeerDisconnected"
    BY <1>4, EndingEffect, ZenonT(60)
  <2> QED
    BY <2>1, WireFrame, ZenonT(60) DEF Sent
<1>5. ASSUME NEW p \in Peers, HandleReply(p) PROVE WireInv'
  <2>1. PICK n \in Notes, how \in {"Ack", "Refused"} :
             Head(fromPeer[p]) = <<n, how>> /\ In(<<n, how>>, fromPeer[p])
    BY <1>5, ReplyEffect DEF Replies
  <2>2. /\ UNCHANGED <<call, to, toPeer, queued, owes>>
        /\ \A q \in Peers : \A x : In(x, fromPeer'[q]) => In(x, fromPeer[q])
    BY <1>5, ReplyEffect
  <2>3. \A m \in Notes : (Sent(m)' <=> Sent(m)) /\ (Read(m)' <=> Read(m))
    BY <2>2 DEF Sent, Read
  <2>4. \/ UNCHANGED <<state, reason>>
        \/ /\ how = "Ack" /\ reason' = reason
           /\ \A m \in Notes \ {n} : state'[m] = state[m]
        \/ /\ how = "Refused" /\ state'[n] = "Failed"
           /\ \A m \in Notes \ {n} : state'[m] = state[m] /\ reason'[m] = reason[m]
    BY <1>5, <2>1, ReplyEffect
  <2>5. \A m \in Notes :
          /\ state'[m] = "Succeeded" => m \in queued'
          /\ reason'[m] \in {"ResourceExhausted", "WouldBlock"}
                => Sent(m)' /\ Read(m)' /\ m \notin queued'
    BY <2>1, <2>2, <2>3, <2>4, ZenonT(60) DEF WireInv
  <2>6. \A q \in Peers, m \in Notes :
          /\ In(<<m, "Ack">>, fromPeer'[q]) \/ owes'[q] = <<m, "Ack">> => m \in queued'
          /\ In(<<m, "Refused">>, fromPeer'[q]) \/ owes'[q] = <<m, "Refused">>
                => Sent(m)' /\ Read(m)' /\ m \notin queued'
    BY <2>2, <2>3, ZenonT(90) DEF WireInv
  <2>7. /\ \A q \in Peers : Distinct(toPeer'[q])
        /\ \A q \in Peers, m \in Notes :
              In(m, toPeer'[q]) => Sent(m)' /\ to'[m] = q /\ m \notin queued'
        /\ \A m \in queued' : Sent(m)'
    BY <2>2, <2>3, ZenonT(60) DEF WireInv, TypeInv, TypeOK
  <2> QED
    BY <2>5, <2>6, <2>7, ZenonT(60) DEF WireInv
<1>6. CASE ReapBegin \/ PassNext \/ CloseBegin \/ CloseTimeout \/ CloseDone
  BY <1>1, <1>6, ZenonT(60) DEF ReapBegin, PassNext, CloseBegin, CloseTimeout, CloseDone
<1>7. ASSUME NEW p \in Peers, ReapDisconnect(p) \/ RemoveDisconnect(p) PROVE WireInv'
  <2>1. /\ disconnect(p)
        /\ UNCHANGED <<call, to, state, reason, queued, owes>>
    BY <1>7 DEF ReapDisconnect, RemoveDisconnect
  <2>2. /\ toPeer' = toPeer
        /\ \A q \in Peers : \A x : In(x, fromPeer'[q]) => In(x, fromPeer[q])
    BY <2>1, DisconnectEffect, ZenonT(60) DEF TypeInv
  <2> QED
    BY <2>1, <2>2, WireFrame, ZenonT(60) DEF Sent
<1>8. ASSUME NEW p \in Peers, RemoveErase(p) \/ poll_notifications(p) PROVE WireInv'
  BY <1>1, <1>8 DEF RemoveErase, poll_notifications, sender
<1>9. ASSUME NEW p \in Peers, Reply(p) PROVE WireInv'
  <2>1. /\ UNCHANGED <<call, to, state, reason, toPeer, queued>>
        /\ owes' = [owes EXCEPT ![p] = <<>>] /\ owes[p] # <<>>
        /\ fromPeer' = fromPeer \/ fromPeer' = [fromPeer EXCEPT ![p] = Append(@, owes[p])]
    BY <1>9 DEF Reply, sender, SendReply
  <2>2. owes[p] \in Replies
    BY <2>1 DEF TypeInv, TypeOK
  <2>3. \A q \in Peers : \A x :
            In(x, fromPeer'[q]) => In(x, fromPeer[q]) \/ (x = owes[q] /\ x # <<>>)
    <3>1. \A x : In(x, Append(fromPeer[p], owes[p])) <=> In(x, fromPeer[p]) \/ x = owes[p]
      BY <2>2, InAppend DEF TypeInv, TypeOK
    <3>2. \A q \in Peers : \/ fromPeer'[q] = fromPeer[q]
                           \/ q = p /\ fromPeer'[q] = Append(fromPeer[p], owes[p])
      BY <2>1 DEF TypeInv, TypeOK
    <3> QED
      BY <2>1, <3>1, <3>2, ZenonT(60)
  <2>4. \A q \in Peers : owes'[q] \in {owes[q], <<>>}
    BY <2>1 DEF TypeInv, TypeOK
  <2> QED
    BY <2>1, <2>3, <2>4, WireFrame, ZenonT(60) DEF Sent
<1>10. ASSUME NEW p \in Peers, PeerGoes(p) PROVE WireInv'
  <2>1. /\ UNCHANGED <<call, to, state, reason, fromPeer, queued>>
        /\ \A q \in Peers : /\ owes'[q] \in {owes[q], <<>>}
                            /\ toPeer'[q] \in {toPeer[q], <<>>}
    BY <1>10 DEF PeerGoes, sender, TypeInv, TypeOK
  <2>2. /\ Distinct(<<>>) /\ \A x : ~In(x, <<>>)
    BY DEF Distinct, In
  <2>3. \A m \in Notes : (Sent(m)' <=> Sent(m)) /\ (Read(m) => Read(m)')
    BY <2>1, <2>2, ZenonT(60) DEF Sent, Read
  <2>4. \A m \in Notes : <<m, "Ack">> # <<>> /\ <<m, "Refused">> # <<>>
    OBVIOUS
  <2>5. \A q \in Peers, m \in Notes :
          /\ In(<<m, "Ack">>, fromPeer'[q]) \/ owes'[q] = <<m, "Ack">> => m \in queued'
          /\ In(<<m, "Refused">>, fromPeer'[q]) \/ owes'[q] = <<m, "Refused">>
                => Sent(m)' /\ Read(m)' /\ m \notin queued'
    BY <2>1, <2>3, <2>4, ZenonT(60) DEF WireInv
  <2>6. /\ \A q \in Peers : Distinct(toPeer'[q])
        /\ \A q \in Peers, m \in Notes :
              In(m, toPeer'[q]) => Sent(m)' /\ to'[m] = q /\ m \notin queued'
        /\ \A m \in queued' : Sent(m)'
    <3>1. \A q \in Peers : Distinct(toPeer'[q])
      BY <2>1, <2>2, ZenonT(60) DEF WireInv
    <3>2. \A q \in Peers, m \in Notes : In(m, toPeer'[q]) => In(m, toPeer[q])
      BY <2>1, <2>2, ZenonT(60)
    <3> QED
      BY <2>1, <2>3, <3>1, <3>2, ZenonT(60) DEF WireInv, TypeInv, TypeOK
  <2>7. \A m \in Notes :
          /\ state'[m] = "Succeeded" => m \in queued'
          /\ reason'[m] \in {"ResourceExhausted", "WouldBlock"}
                => Sent(m)' /\ Read(m)' /\ m \notin queued'
    BY <2>1, <2>3, ZenonT(60) DEF WireInv
  <2> QED
    BY <2>5, <2>6, <2>7, ZenonT(60) DEF WireInv
<1>11. CASE UNCHANGED vars
  BY <1>1, <1>11 DEF vars, sender
<1> QED
  BY <1>2, <1>3, <1>4, <1>5, <1>6, <1>7, <1>8, <1>9, <1>10, <1>11, Steps,
     SendingKeepsWires, ReceivingKeepsWires

\* OutcomeIsTrue: a notification that succeeded was put in the peer's queue,
\* and one refused for want of room, there or in the channel, never was (the
\* acknowledgement is sent after the queueing, and a failed send is taken back;
\* src/core/engine_impl.cpp, notify() and progress()).
THEOREM OutcomesAreTrue ==
    Spec => []OutcomeIsTrue
<1>1. Init => WireInv
  BY DEF Init, WireInv, Sent, Read, Distinct, In
<1>2. TypeInv /\ ClaimInv /\ WireInv /\ [Next]_vars => WireInv'
  BY WiresStep
<1>3. WireInv => OutcomeIsTrue
  BY DEF WireInv, OutcomeIsTrue
<1> QED
  BY <1>1, <1>2, <1>3, ClaimsInvariant, PTL DEF Spec

-----------------------------------------------------------------------------
(* Departures *)

\* What a hand holds for a departed peer is for that peer, which is no longer
\* connected.  Where disconnect closes the channel, that of a peer that was
\* reaped is closed, so that no notification can be sent to it any more.
DepartInv ==
    /\ pass = "reaped" => reaping \in Peers \ connected
    /\ pass # "reaped" => reaping = None
    /\ \A p \in Peers : remover[p] # "idle" => p \notin connected
    /\ pass = "failing" => \A n \in hand["progress"] : to[n] \notin connected
    /\ \A p \in Peers : \A n \in hand[p] : to[n] \notin connected
    /\ FailsOnlyItsOwn
    /\ Severs => /\ \A p \in peers : p \in connected \/ link[p] = "down"
                 /\ WaitsOnlyOnThePresent

\* Steps that end nothing and in which no peer leaves.
LEMMA DepartFrame ==
    ASSUME TypeInv, ClaimInv, DepartInv,
           UNCHANGED <<reaping, hand, state, reason, peers>>,
           \A n \in pending' : call'[n] = "returned" => n \in pending /\ call[n] = "returned",
           (pass' = "reaped") <=> (pass = "reaped"),
           pass' = "failing" => pass = "failing" \/ hand["progress"] = {},
           \A p \in Peers : remover'[p] # "idle" => remover[p] # "idle" \/ p \notin connected',
           \A n \in Notes : call[n] \in {"recorded", "returned"} => to'[n] = to[n],
           \A p \in Peers : link'[p] = "up" => link[p] = "up",
           \A p \in Peers : link[p] = "down" => link'[p] = "down",
           connected' = connected
    PROVE  DepartInv'
<1> USE DEF TypeInv, TypeOK
<1>1. FailsOnlyItsOwn'
  <2> SUFFICES ASSUME NEW n \in Notes, reason'[n] = "PeerDisconnected"
               PROVE  to'[n] \notin connected' \/ link'[to'[n]] # "up"
    BY ZenonT(60) DEF FailsOnlyItsOwn
  <2>1. call[n] \in {"recorded", "returned"} /\ to[n] \in Peers /\ to'[n] = to[n]
    BY ZenonT(60) DEF ClaimInv
  <2> QED
    BY <2>1, ZenonT(90) DEF DepartInv, FailsOnlyItsOwn
<1>2. Severs => WaitsOnlyOnThePresent'
  <2> SUFFICES ASSUME Severs, NEW n \in pending', call'[n] = "returned", to'[n] \in peers'
               PROVE  to'[n] \in connected' \cup {reaping'}
    BY ZenonT(60) DEF WaitsOnlyOnThePresent
  <2>1. n \in pending /\ n \in Notes /\ call[n] = "returned" /\ to'[n] = to[n]
    BY ZenonT(60)
  <2> QED
    BY <2>1, ZenonT(60) DEF DepartInv, WaitsOnlyOnThePresent
<1>3. Severs => \A p \in peers' : p \in connected' \/ link'[p] = "down"
  BY ZenonT(60) DEF DepartInv
<1>4. /\ pass' = "failing" => \A n \in hand'["progress"] : to'[n] \notin connected'
      /\ \A p \in Peers : \A n \in hand'[p] : to'[n] \notin connected'
  <2>1. \A a \in Enders : \A n \in hand[a] : n \in Notes /\ to'[n] = to[n]
    BY ZenonT(60) DEF ClaimInv
  <2>2. ASSUME NEW p \in Peers, NEW n \in hand'[p] PROVE to'[n] \notin connected'
    <3>1. p \in Enders /\ n \in hand[p]
      BY ZenonT(60) DEF Enders
    <3>2. to'[n] = to[n]
      BY <2>1, <3>1, ZenonT(60)
    <3> QED
      BY <3>1, <3>2, ZenonT(60) DEF DepartInv
  <2>3. pass' = "failing" => \A n \in hand'["progress"] : to'[n] \notin connected'
    BY <2>1 DEF DepartInv, Enders
  <2> QED
    BY <2>2, <2>3, ZenonT(60)
<1>5. /\ pass' = "reaped" => reaping' \in Peers \ connected'
      /\ pass' # "reaped" => reaping' = None
      /\ \A p \in Peers : remover'[p] # "idle" => p \notin connected'
  BY ZenonT(60) DEF DepartInv
<1> QED
  BY <1>1, <1>2, <1>3, <1>4, <1>5, ZenonT(60) DEF DepartInv

\* A peer that progress() finds gone: no longer connected, its channel closed.
LEMMA ReapingKeepsDepartures ==
    ASSUME TypeInv, ClaimInv, DepartInv, NEW p \in Peers, ReapDisconnect(p)
    PROVE  DepartInv'
<1> USE DEF TypeInv, TypeOK
<1>1. /\ pass = "reap" /\ pass' = "reaped" /\ reaping' = p
      /\ connected' = connected \ {p} /\ disconnect(p)
      /\ UNCHANGED <<peers, call, to, state, reason, pending, hand, remover>>
  BY SMTT(60) DEF ReapDisconnect, callVars, reqVars, ending, others
<1>2. /\ \A q \in Peers : link'[q] = link[q] \/ (q = p /\ link'[q] = "down")
      /\ Severs => link'[p] = "down"
  BY <1>1, DisconnectEffect
<1>3. reaping = None /\ None \notin Peers
  BY SMTT(60), <1>1, PeersAssumption DEF DepartInv, None
<1>4. FailsOnlyItsOwn'
  <2> SUFFICES ASSUME NEW n \in Notes, reason'[n] = "PeerDisconnected"
               PROVE  to'[n] \notin connected' \/ link'[to'[n]] # "up"
    BY ZenonT(60) DEF FailsOnlyItsOwn
  <2>1. call[n] \in {"recorded", "returned"} /\ to[n] \in Peers /\ to'[n] = to[n]
    BY SMTT(60), <1>1 DEF ClaimInv
  <2> QED
    BY <1>1, <1>2, <2>1 DEF DepartInv, FailsOnlyItsOwn
<1>5. Severs => /\ \A q \in peers' : q \in connected' \/ link'[q] = "down"
                /\ WaitsOnlyOnThePresent'
  BY <1>1, <1>2, <1>3 DEF DepartInv, WaitsOnlyOnThePresent
<1> QED
  BY SMTT(60), <1>1, <1>4, <1>5 DEF DepartInv

\* A thread takes what is for the peer that went.
LEMMA TakingKeepsDepartures ==
    ASSUME TypeInv, ClaimInv, DepartInv, Takes
    PROVE  DepartInv'
<1> USE DEF TypeInv, TypeOK, peerMap, callVars, reqVars, ending, passVars, others,
            channel, peerVars, end_notifications, Enders
<1>1. UNCHANGED <<peers, connected, call, to, state, reason, link>>
  BY ZenonT(60) DEF Takes, ReapEnd, SweepCancelled, CloseCancel, RemoveEnd
<1>2. FailsOnlyItsOwn'
  BY <1>1 DEF DepartInv, FailsOnlyItsOwn
<1>3. CASE ReapEnd
  <2>1. /\ pass = "reaped" /\ pass' = "failing" /\ reaping' = None
        /\ hand'["progress"] = pending \cap For(reaping)
        /\ pending' = pending \ For(reaping)
        /\ \A p \in Peers : hand'[p] = hand[p]
        /\ UNCHANGED remover
    BY <1>3, PeersAssumption DEF ReapEnd
  <2>2. \A n \in hand'["progress"] : to'[n] \notin connected'
    BY <1>1, <2>1, ZenonT(60) DEF DepartInv, For
  <2>3. Severs => \A p \in peers' : p \in connected' \/ link'[p] = "down"
    <3>1. Severs => \A p \in peers : p \in connected \/ link[p] = "down"
      BY DEF DepartInv
    <3> QED
      BY <1>1, <2>1, <3>1, ZenonT(60)
  <2>4. Severs => WaitsOnlyOnThePresent'
    BY <1>1, <2>1, ZenonT(60) DEF DepartInv, WaitsOnlyOnThePresent, For
  <2> QED
    BY <1>1, <1>2, <2>1, <2>2, <2>3, <2>4, ZenonT(60) DEF DepartInv
<1>4. CASE SweepCancelled \/ CloseCancel
  <2>1. /\ \A p \in Peers : hand'[p] = hand[p]
        /\ pending' \subseteq pending
        /\ pass' = "failing" => pass = "failing" /\ hand'["progress"] = hand["progress"]
        /\ (pass' = "reaped") <=> (pass = "reaped")
        /\ UNCHANGED <<reaping, remover>>
    BY <1>4, PeersAssumption, ZenonT(60) DEF SweepCancelled, CloseCancel
  <2> QED
    BY <1>1, <1>2, <2>1, ZenonT(60) DEF DepartInv, WaitsOnlyOnThePresent
<1>5. ASSUME NEW q \in Peers, RemoveEnd(q) PROVE DepartInv'
  <2>1. /\ hand'[q] = pending \cap For(q) /\ pending' \subseteq pending
        /\ \A a \in Enders \ {q} : hand'[a] = hand[a]
        /\ q # "progress" /\ remover[q] = "erased"
        /\ \A p \in Peers \ {q} : remover'[p] = remover[p]
        /\ UNCHANGED <<pass, reaping>>
    BY <1>5, PeersAssumption DEF RemoveEnd
  <2>2. \A n \in hand'[q] : to'[n] \notin connected'
    BY <1>1, <2>1, ZenonT(60) DEF DepartInv, For
  <2> QED
    BY <1>1, <1>2, <2>1, <2>2, ZenonT(60) DEF DepartInv, WaitsOnlyOnThePresent
<1> QED
  BY <1>3, <1>4, <1>5 DEF Takes

\* Whoever fails a notification holds it for a peer that is not connected.
LEMMA EndingKeepsDepartures ==
    ASSUME TypeInv, ClaimInv, DepartInv, NEW a, Ends(a)
    PROVE  DepartInv'
<1> USE DEF TypeInv, TypeOK
<1>1. PICK n \in Notes :
          /\ a \in Enders /\ n \in hand[a]
          /\ hand' = [hand EXCEPT ![a] = @ \ {n}]
          /\ \A m \in Notes \ {n} : reason'[m] = reason[m]
          /\ \/ reason'[n] = reason[n]
             \/ a \in Peers \/ (a = "progress" /\ pass = "failing")
          /\ UNCHANGED <<pending, peers, connected, call, to, pass, reaping, remover,
                         link>>
  BY EndingEffect, ZenonT(90) DEF peerMap, callVars, passVars, others, channel
<1>2. \A b \in Enders : hand'[b] \subseteq hand[b]
  BY <1>1
<1>3. FailsOnlyItsOwn'
  BY <1>1 DEF FailsOnlyItsOwn, DepartInv
<1>4. "progress" \in Enders /\ Peers \subseteq Enders
  BY DEF Enders
<1>5. /\ pass' = "failing" => \A m \in hand'["progress"] : to'[m] \notin connected'
      /\ \A p \in Peers : \A m \in hand'[p] : to'[m] \notin connected'
  BY ZenonT(60), <1>1, <1>2, <1>4 DEF DepartInv
<1> QED
  BY <1>1, <1>3, <1>5 DEF DepartInv, WaitsOnlyOnThePresent

\* A send to a peer whose channel is closed is taken back by notify() itself.
LEMMA SendingKeepsDepartures ==
    ASSUME TypeInv, ClaimInv, DepartInv, NEW n \in Notes, NotifySend(n)
    PROVE  DepartInv'
<1> USE DEF TypeInv, TypeOK
<1>1. /\ call[n] = "recorded" /\ call' = [call EXCEPT ![n] = "returned"]
      /\ to[n] \in Peers /\ link[to[n]] \in {"up", "cut", "down"}
      /\ UNCHANGED <<peers, connected, to, hand, pass, reaping, remover, link>>
  BY DEF NotifySend, peerMap, passVars, others
<1>2. /\ pending' \subseteq pending
      /\ link[to[n]] = "down" => n \notin pending'
      /\ \A m \in Notes : \/ reason'[m] = reason[m]
                          \/ m = n /\ reason'[n] = "WouldBlock"
                          \/ m = n /\ link[to[n]] # "up"
  <2>1. PICK answer \in SendAnswers(to[n]) :
            IF answer = "Ok" THEN UNCHANGED <<pending, state, reason>>
                             ELSE TakeBack(n, answer)
    BY DEF NotifySend
  <2>2. /\ answer \in Reasons
        /\ link[to[n]] = "down" => answer # "Ok"
        /\ link[to[n]] = "up" => answer \in {"Ok", "WouldBlock"}
    BY SMTT(60), <1>1, <2>1 DEF SendAnswers, Reasons
  <2>3. CASE answer # "Ok" /\ n \in pending
    <3>1. fail(n, answer) /\ pending' = pending \ {n} /\ ~Ended(n)
      BY <2>1, <2>3, SMTT(60) DEF TakeBack, take_notification, ClaimInv
    <3>2. /\ reason'[n] = answer
          /\ \A m \in Notes \ {n} : reason'[m] = reason[m]
      BY ZenonT(60), <2>2, <3>1, FailEffect
    <3> QED
      BY <2>2, <2>3, <3>1, <3>2, SMTT(60)
  <2>4. CASE answer = "Ok" \/ n \notin pending
    BY <2>1, <2>2, <2>4 DEF TakeBack
  <2> QED
    BY SMTT(60), <2>3, <2>4
<1>3. FailsOnlyItsOwn'
  BY <1>1, <1>2, ZenonT(60) DEF DepartInv, FailsOnlyItsOwn
<1>4. Severs => WaitsOnlyOnThePresent'
  <2> SUFFICES ASSUME Severs, NEW m \in pending', call'[m] = "returned", to'[m] \in peers'
               PROVE  to'[m] \in connected' \cup {reaping'}
    BY ZenonT(60) DEF WaitsOnlyOnThePresent
  <2>1. CASE m = n
    BY ZenonT(60), <1>1, <1>2, <2>1 DEF DepartInv
  <2>2. CASE m # n
    BY SMTT(60), <1>1, <1>2, <2>2 DEF DepartInv, WaitsOnlyOnThePresent
  <2> QED
    BY <2>1, <2>2, ZenonT(60)
<1> QED
  BY ZenonT(60), <1>1, <1>2, <1>3, <1>4 DEF DepartInv

\* Every step keeps what is known of departed peers.
LEMMA DepartsStep ==
    ASSUME TypeInv, ClaimInv, DepartInv, [Next]_vars
    PROVE  DepartInv'
<1> USE DEF peerMap, callVars, reqVars, ending, passVars, others, channel, peerVars
<1>1. ASSUME NEW n \in Notes,
             \/ NotifyRecord(n) \/ Cancel(n) \/ \E p \in Peers : NotifyEnter(n, p)
      PROVE  DepartInv'
  <2>1. /\ UNCHANGED <<pass, reaping, hand, state, reason, peers, connected, remover, link>>
        /\ \A m \in Notes : call[m] \in {"recorded", "returned"} => to'[m] = to[m]
    BY <1>1, ZenonT(60) DEF NotifyRecord, Cancel, NotifyEnter, TypeInv, TypeOK
  <2>2. \A m \in pending' : call'[m] = "returned" => m \in pending /\ call[m] = "returned"
    BY <1>1 DEF NotifyRecord, Cancel, NotifyEnter, TypeInv, TypeOK
  <2> QED
    BY <2>1, <2>2, DepartFrame
<1>2. ASSUME NEW p \in Peers, HandleReply(p) PROVE DepartInv'
  <2>1. /\ UNCHANGED <<peers, connected, call, to, hand, reaping, remover, link>>
        /\ pass = "poll" /\ pass' \in {"poll", "idle"} /\ pending' \subseteq pending
        /\ \A m \in Notes : reason'[m] = "PeerDisconnected" => reason[m] = reason'[m]
    BY <1>2, ReplyEffect, ZenonT(90) DEF Replies, TypeInv, TypeOK
  <2> QED
    BY <2>1, ZenonT(60) DEF DepartInv, FailsOnlyItsOwn, WaitsOnlyOnThePresent
<1>3. CASE ReapBegin \/ PassNext
  <2>1. /\ UNCHANGED <<reaping, hand, state, reason, peers, connected, pending, call, to,
                       remover, link>>
        /\ pass' \notin {"reaped", "failing"} /\ pass # "reaped"
    BY <1>3 DEF ReapBegin, PassNext
  <2> QED
    BY <2>1, DepartFrame
<1>4. CASE CloseBegin \/ CloseTimeout \/ CloseDone
  BY <1>4, DepartFrame, ZenonT(60) DEF CloseBegin, CloseTimeout, CloseDone
<1>5. ASSUME NEW p \in Peers, RemoveErase(p) PROVE DepartInv'
  <2>1. /\ connected' = connected \ {p} /\ peers' = peers \ {p}
        /\ \A q \in Peers \ {p} : remover'[q] = remover[q]
        /\ UNCHANGED <<call, to, state, reason, pending, hand, pass, reaping, link>>
    BY <1>5, SMTT(60) DEF RemoveErase, TypeInv, TypeOK
  <2> QED
    BY <2>1, ZenonT(60) DEF DepartInv, FailsOnlyItsOwn, WaitsOnlyOnThePresent
<1>6. ASSUME NEW p \in Peers, RemoveDisconnect(p) PROVE DepartInv'
  <2>1. /\ disconnect(p) /\ remover[p] = "failing"
        /\ \A q \in Peers \ {p} : remover'[q] = remover[q]
        /\ UNCHANGED <<peers, connected, call, to, state, reason, pending, hand, pass,
                       reaping>>
    BY <1>6 DEF RemoveDisconnect, TypeInv, TypeOK
  <2>2. \A q \in Peers : link'[q] = link[q] \/ link'[q] = "down"
    BY <2>1, DisconnectEffect, ZenonT(60) DEF TypeInv
  <2> QED
    BY ZenonT(60), <2>1, <2>2, DepartFrame
<1>7. ASSUME NEW p \in Peers, \/ Receive(p) \/ Reply(p) \/ poll_notifications(p)
                              \/ PeerGoes(p)
      PROVE  DepartInv'
  <2>1. /\ UNCHANGED sender
        /\ \A q \in Peers : link'[q] = link[q] \/ (link[q] = "up" /\ link'[q] = "cut")
    BY <1>7 DEF Receive, Reply, poll_notifications, PeerGoes, TypeInv, TypeOK
  <2> QED
    BY <2>1, DepartFrame, ZenonT(60) DEF sender
<1>8. CASE UNCHANGED vars
  BY <1>8, DepartFrame, ZenonT(60) DEF vars, sender
<1> QED
  BY SMTT(60), <1>1, <1>2, <1>3, <1>4, <1>5, <1>6, <1>7, <1>8, Steps, SendingKeepsDepartures,
     TakingKeepsDepartures, EndingKeepsDepartures, ReapingKeepsDepartures

\* DepartureEndsItsOwn: of a transport whose disconnect closes the channel, a
\* notification whose notify() has returned waits only for a peer that is still
\* there, and only those of a peer that went fail with kPeerDisconnected
\* (reap_departed_peers, remove_peer and the take-back in notify(),
\* src/core/engine_impl.cpp).  Of a peer that was removed nothing is claimed: see
\* RemovalEnds.
THEOREM DeparturesEndTheirOwn ==
    ASSUME Severs
    PROVE  Spec => []DepartureEndsItsOwn
<1>1. Init => DepartInv
  BY DEF Init, DepartInv, FailsOnlyItsOwn, WaitsOnlyOnThePresent, Enders
<1>2. TypeInv /\ ClaimInv /\ DepartInv /\ [Next]_vars => DepartInv'
  BY DepartsStep
<1>3. TypeInv /\ DepartInv => DepartureEndsItsOwn
  BY ZenonT(60) DEF TypeInv, DepartInv, DepartureEndsItsOwn
<1> QED
  BY <1>1, <1>2, <1>3, ClaimsInvariant, PTL DEF Spec
=============================================================================
