-------------------------- MODULE TransfersProofs ---------------------------
(***************************************************************************)
(* Proofs about Transfers, second part: QuietInv is inductive, and from it *)
(* a request that has ended is quiet, for any number of requests, peers,   *)
(* lanes and sub-operations; and every admitted request has one owner      *)
(* until it ends.                                                          *)
(***************************************************************************)
EXTENDS TransfersTypes

\* A thread gets to finish a part from post_ops.
LEMMA FinishMoves ==
    ASSUME TypeOK, [Next]_vars
    PROVE  \A u \in Threads : pc'[u] = "finish" =>
               \/ pc[u] = "finish" /\ cur'[u] = cur[u]
               \/ PostCheck(u) \/ PostCount(u)
<1> DEFINE Goal == \A u \in Threads : pc'[u] = "finish" =>
                       \/ pc[u] = "finish" /\ cur'[u] = cur[u]
                       \/ PostCheck(u) \/ PostCount(u)
<1>a. ASSUME NEW t \in Threads, PostCheck(t) \/ PostCount(t) PROVE Goal
  <2>1. \A u \in Threads : u # t => pc'[u] = pc[u] /\ cur'[u] = cur[u]
    BY ZenonT(60), <1>a DEF PostCheck, PostCount, Goto, Resume, locals, TypeOK, ThreadTypes
  <2> QED
    BY ZenonT(60), <1>a, <2>1
<1> USE DEF TypeOK, ThreadTypes, Threads,
            Goto, Resume, data, engine, world, threadVars, locals, reqVars,
            outVars, peerVars, reapVars
<1>1. ASSUME NEW r \in Requests, Submitter(r) PROVE Goal
  BY ZenonT(60), <1>1 DEF Submitter, Enter, CheckBound, Admit, Prepare, PostNext, Return
<1>2. ASSUME NEW t \in Threads, Poster(t) PROVE Goal
  BY ZenonT(60), <1>a, <1>2 DEF Poster, PostSubmit, PartFinished, SealIfIdle, Claim,
              DecideAbandoned, Finish, Publish
<1>3. ASSUME ProgressThread PROVE Goal
  <2>1. \A u \in Threads : u # Progress => pc'[u] = pc[u] /\ cur'[u] = cur[u]
    BY ZenonT(90), <1>3 DEF ProgressThread, ProgressStop, DrainBegin, DrainNext, DrainEnd,
                ReapScan, ReapStop, ReapClaim, ReapFail, ReapNext,
                PollTransports, HandleEvent, EventsDone, DecideCompleted,
                SendHandoff
  <2>2. pc'[Progress] # "finish"
    BY ZenonT(90), <1>3 DEF ProgressThread, ProgressStop, DrainBegin, DrainNext, DrainEnd,
                ReapScan, ReapStop, ReapClaim, ReapFail, ReapNext,
                PollTransports, HandleEvent, EventsDone, DecideCompleted,
                SendHandoff
  <2> QED
    BY ZenonT(60), <2>1, <2>2
<1>4. ASSUME \/ \E r \in Requests : Cancel(r) \/ DependencySettles(r)
             \/ PollCompletions \/ Closer
             \/ \E p \in Peers : RemovePeer(p) \/ RemoveStop(p) \/ PeerGoes(p)
             \/ \E o \in Ops : TransportCompletes(o)
      PROVE  Goal
  BY ZenonT(60), <1>4 DEF Cancel, DependencySettles, PollCompletions, Closer, CloseBegin,
              CloseTimeout, CloseDrained, CloseJoin, SetClosing, RemovePeer,
              RemoveStop, PeerGoes, TransportCompletes
<1>5. ASSUME UNCHANGED vars PROVE Goal
  BY ZenonT(60), <1>5 DEF vars
<1> QED
  BY ZenonT(60), <1>1, <1>2, <1>3, <1>4, <1>5 DEF Next

\* A thread gets to seal a request by finishing its last part.
LEMMA SealMoves ==
    ASSUME TypeOK, [Next]_vars
    PROVE  \A u \in Threads : pc'[u] = "seal" =>
               \/ pc[u] = "seal" /\ cur'[u] = cur[u]
               \/ PartFinished(u)
<1> DEFINE Goal == \A u \in Threads : pc'[u] = "seal" =>
                       \/ pc[u] = "seal" /\ cur'[u] = cur[u]
                       \/ PartFinished(u)
<1>a. ASSUME NEW t \in Threads, PartFinished(t) PROVE Goal
  <2>1. \A u \in Threads : u # t => pc'[u] = pc[u] /\ cur'[u] = cur[u]
    BY ZenonT(60), <1>a DEF PartFinished, Goto, Resume, TypeOK, ThreadTypes
  <2> QED
    BY ZenonT(60), <1>a, <2>1
<1> USE DEF TypeOK, ThreadTypes, Threads,
            Goto, Resume, data, engine, world, threadVars, locals, reqVars,
            outVars, peerVars, reapVars
<1>1. ASSUME NEW r \in Requests, Submitter(r) PROVE Goal
  BY ZenonT(60), <1>1 DEF Submitter, Enter, CheckBound, Admit, Prepare, PostNext, Return
<1>2. ASSUME NEW t \in Threads, Poster(t) PROVE Goal
  BY ZenonT(90), <1>a, <1>2 DEF Poster, PostCheck, PostSubmit, PostCount, SealIfIdle, Claim,
              DecideAbandoned, Finish, Publish
<1>3. ASSUME ProgressThread PROVE Goal
  <2>1. \A u \in Threads : u # Progress => pc'[u] = pc[u] /\ cur'[u] = cur[u]
    BY ZenonT(90), <1>3 DEF ProgressThread, ProgressStop, DrainBegin, DrainNext, DrainEnd,
                ReapScan, ReapStop, ReapClaim, ReapFail, ReapNext,
                PollTransports, HandleEvent, EventsDone, DecideCompleted,
                SendHandoff
  <2>2. pc'[Progress] # "seal"
    BY ZenonT(90), <1>3 DEF ProgressThread, ProgressStop, DrainBegin, DrainNext, DrainEnd,
                ReapScan, ReapStop, ReapClaim, ReapFail, ReapNext,
                PollTransports, HandleEvent, EventsDone, DecideCompleted,
                SendHandoff
  <2> QED
    BY ZenonT(150), <2>1, <2>2
<1>4. ASSUME \/ \E r \in Requests : Cancel(r) \/ DependencySettles(r)
             \/ PollCompletions \/ Closer
             \/ \E p \in Peers : RemovePeer(p) \/ RemoveStop(p) \/ PeerGoes(p)
             \/ \E o \in Ops : TransportCompletes(o)
      PROVE  Goal
  BY ZenonT(60), <1>4 DEF Cancel, DependencySettles, PollCompletions, Closer, CloseBegin,
              CloseTimeout, CloseDrained, CloseJoin, SetClosing, RemovePeer,
              RemoveStop, PeerGoes, TransportCompletes
<1>5. ASSUME UNCHANGED vars PROVE Goal
  BY ZenonT(60), <1>5 DEF vars
<1> QED
  BY ZenonT(60), <1>1, <1>2, <1>3, <1>4, <1>5 DEF Next

\* A request is sealed by the thread that gave up its last part, or by the reaper.
LEMMA SealedMoves ==
    ASSUME TypeOK, [Next]_vars
    PROVE  \A x \in sealed' : \/ x \in sealed \/ ReapFail(x)
                             \/ \E t \in Threads : SealIfIdle(t) /\ cur[t][1] = x
<1> DEFINE Goal == \A x \in sealed' : \/ x \in sealed \/ ReapFail(x)
                                     \/ \E t \in Threads : SealIfIdle(t) /\ cur[t][1] = x
<1>a. ASSUME NEW t \in Threads, SealIfIdle(t) PROVE Goal
  <2>1. sealed' \subseteq sealed \cup {cur[t][1]}
    BY ZenonT(60), <1>a DEF SealIfIdle
  <2> QED
    BY ZenonT(60), <1>a, <2>1
<1>b. ASSUME NEW r \in Requests, ReapFail(r) PROVE Goal
  <2>1. sealed' = sealed \cup {r}
    BY ZenonT(60), <1>b DEF ReapFail
  <2> QED
    BY ZenonT(60), <1>b, <2>1
<1> USE DEF TypeOK,
            Goto, Resume, data, engine, world, threadVars, locals, reqVars,
            outVars, peerVars, reapVars
<1>1. ASSUME NEW r \in Requests, Submitter(r) PROVE Goal
  BY ZenonT(60), <1>1 DEF Submitter, Enter, CheckBound, Admit, Prepare, PostNext, Return
<1>2. ASSUME NEW t \in Threads, Poster(t) PROVE Goal
  BY ZenonT(60), <1>a, <1>2 DEF Poster, PostCheck, PostSubmit, PostCount, PartFinished,
                                Claim,
              DecideAbandoned, Finish, Publish
<1>3. ASSUME ProgressThread PROVE Goal
  BY ZenonT(60), <1>b, <1>3 DEF ProgressThread, ProgressStop, DrainBegin, DrainNext,
                                DrainEnd,
              ReapScan, ReapStop, ReapClaim, ReapNext, PollTransports,
              HandleEvent, EventsDone, DecideCompleted, SendHandoff
<1>4. ASSUME \/ \E r \in Requests : Cancel(r) \/ DependencySettles(r)
             \/ PollCompletions \/ Closer
             \/ \E p \in Peers : RemovePeer(p) \/ RemoveStop(p) \/ PeerGoes(p)
             \/ \E o \in Ops : TransportCompletes(o)
      PROVE  Goal
  BY ZenonT(60), <1>4 DEF Cancel, DependencySettles, PollCompletions, Closer, CloseBegin,
              CloseTimeout, CloseDrained, CloseJoin, SetClosing, RemovePeer,
              RemoveStop, PeerGoes, TransportCompletes
<1>5. ASSUME UNCHANGED vars PROVE Goal
  BY ZenonT(60), <1>5 DEF vars
<1> QED
  BY ZenonT(60), <1>1, <1>2, <1>3, <1>4, <1>5 DEF Next

\* With no part left and all of them built, none will ever be.
LEMMA NoPartsLeftStays ==
    ASSUME TypeOK, HandsInv, [Next]_vars, NEW x \in Requests, NoPartsLeft(x)
    PROVE  NoPartsLeft(x)'
<1>1. ~Prepare(x)
  BY ZenonT(60) DEF Prepare, NoPartsLeft, Unprepared
<1>2. pc'[x] \notin Unprepared
  BY ZenonT(60), <1>1, PcMoves DEF NoPartsLeft
<1>3. \A l \in Lanes : PlaceMove(x, l, place[<<x, l>>], place'[<<x, l>>])
  BY ZenonT(60), PlaceMoves
<1>4. \A l \in Lanes : place'[<<x, l>>] = place[<<x, l>>]
  BY ZenonT(60), <1>1, <1>3 DEF PlaceMove, NoPartsLeft, LiveParts
<1> QED
  BY ZenonT(60), <1>2, <1>4 DEF NoPartsLeft, LiveParts, Unprepared

\* Parts are finished with nothing left to post, and requests sealed after
\* their last part.
LEMMA PartStep ==
    ASSUME TypeOK, HandsInv, PartsCounted, PartInv, [Next]_vars
    PROVE  PartInv'
<1> USE DEF PartInv
<1>0. \A o \in Ops : OpMove(op[o], op'[o])
  BY ZenonT(60), OpMoves
<1>1. DonePartsPosted'
  <2> SUFFICES ASSUME NEW o \in Ops, place'[o[1]] = "done" PROVE op'[o] # "queued"
    BY ZenonT(60) DEF DonePartsPosted
  <2>1. PICK x \in Requests, l \in Lanes : o[1] = <<x, l>>
    BY SMTT(60) DEF Ops, Parts
  <2>2. PlaceMove(x, l, place[<<x, l>>], place'[<<x, l>>])
    BY ZenonT(60), PlaceMoves
  <2>3. op[o] # "queued"
    <3>1. CASE place[<<x, l>>] = "done"
      BY ZenonT(60), <2>1, <3>1 DEF DonePartsPosted
    <3>2. ASSUME NEW t \in Threads, PartFinished(t), cur[t] = <<x, l>>
          PROVE  op[o] # "queued"
      BY ZenonT(60), <2>1, <3>2 DEF PartFinished, FinishingPosted, Queued
    <3> QED
      BY ZenonT(60), <2>1, <2>2, <3>1, <3>2 DEF PlaceMove
  <2> QED
    BY ZenonT(60), <1>0, <2>3 DEF OpMove
<1>2. FinishingPosted'
  <2> SUFFICES ASSUME NEW u \in Threads, pc'[u] = "finish" PROVE Queued(cur[u])' = {}
    BY ZenonT(60) DEF FinishingPosted
  <2>1. CASE pc[u] = "finish" /\ cur'[u] = cur[u]
    <3>1. Queued(cur[u]) = {}
      BY ZenonT(60), <2>1 DEF FinishingPosted
    <3> QED
      BY ZenonT(60), <1>0, <2>1, <3>1 DEF Queued, OpMove
  <2>2. CASE PostCheck(u)
    <3>1. cur' = cur /\ pc' # [pc EXCEPT ![u] = "submit"]
      BY ZenonT(60), <2>2 DEF PostCheck, locals, TypeOK, ThreadTypes
    <3>2. op' = [o \in Ops |-> IF o \in Queued(cur[u]) THEN "dropped" ELSE op[o]]
      BY ZenonT(60), <2>2, <3>1 DEF PostCheck, Goto
    <3> QED
      BY ZenonT(60), <3>1, <3>2 DEF Queued
  <2>3. CASE PostCount(u)
    <3>1. cur' = cur
      BY ZenonT(60), <2>3 DEF PostCount, Goto, Resume, TypeOK, ThreadTypes
    <3>2. \/ Queued(cur[u]) = {} /\ op' = op
          \/ op' = [o \in Ops |-> IF o \in Queued(cur[u]) THEN "dropped" ELSE op[o]]
      BY ZenonT(60), <2>3 DEF PostCount, Goto, Resume, TypeOK, ThreadTypes
    <3> QED
      BY ZenonT(60), <3>1, <3>2 DEF Queued
  <2> QED
    BY ZenonT(60), <2>1, <2>2, <2>3, FinishMoves
<1>3. SealingIsLast'
  <2> SUFFICES ASSUME NEW u \in Threads, pc'[u] = "seal" PROVE NoPartsLeft(cur[u][1])'
    BY ZenonT(60) DEF SealingIsLast
  <2>0. cur[u] \in Parts /\ cur[u][1] \in Requests /\ cur[u][2] \in Lanes
    BY ZenonT(60), CurType DEF TypeOK
  <2>1. CASE pc[u] = "seal" /\ cur'[u] = cur[u]
    <3>1. PICK x \in Requests : x = cur[u][1]
      BY ZenonT(60), <2>0
    <3>2. NoPartsLeft(x)
      BY ZenonT(60), <2>1, <3>1 DEF SealingIsLast
    <3>3. NoPartsLeft(x)'
      BY ZenonT(60), <3>2, NoPartsLeftStays
    <3> QED
      BY ZenonT(60), <2>1, <3>1, <3>3 DEF NoPartsLeft, LiveParts
  <2>2. CASE PartFinished(u)
    <3>1. cur'[u] = cur[u] /\ partsLeft'[cur[u][1]] = 0
      BY ZenonT(60), <2>0, <2>2 DEF PartFinished, Goto, Resume, TypeOK, ThreadTypes,
                                    RequestTypes
    <3>2. place[cur[u]] = "held"
      BY ZenonT(60), <2>2 DEF PartFinished, HandsInv, PartsAreHeld, Posting
    <3>3. pc[cur[u][1]] \notin Unprepared
      BY SMTT(60), <2>0, <3>2 DEF HandsInv, PartsAreBuilt, Parts
    <3>4. pc'[cur[u][1]] \notin Unprepared
      BY ZenonT(60), <2>0, <3>3, PcMoves DEF Prepare, Unprepared
    <3>5. PartsCounted'
      BY ZenonT(60), PartsCountedStep
    <3> DEFINE x == cur[u][1]
    <3>6. Cardinality(LiveParts(x)') = 0
      BY ZenonT(60), <2>0, <3>1, <3>4, <3>5 DEF PartsCounted, LiveParts
    <3>7. LiveParts(x)' = {}
      <4>1. IsFiniteSet(LiveParts(x)')
        BY ZenonT(60), LanesFinite DEF LiveParts
      <4> QED
        BY ZenonT(60), <3>6, <4>1, FS_EmptySet
    <3> QED
      BY ZenonT(60), <3>1, <3>4, <3>7 DEF NoPartsLeft, LiveParts
  <2> QED
    BY ZenonT(60), <2>1, <2>2, SealMoves
<1>4. SealedIsLast'
  <2> SUFFICES ASSUME NEW x \in sealed' PROVE (Terminal(x) \/ NoPartsLeft(x))'
    BY ZenonT(60) DEF SealedIsLast
  <2>0. x \in Requests
    BY ZenonT(60), TypeStep DEF TypeOK, RequestTypes
  <2>1. Terminal(x) => Terminal(x)'
    BY ZenonT(60), <2>0, TerminalStays DEF Terminal
  <2>2. CASE x \in sealed
    BY ZenonT(60), <2>0, <2>1, <2>2, NoPartsLeftStays DEF SealedIsLast
  <2>3. CASE ReapFail(x)
    BY ZenonT(60), <2>0, <2>3 DEF ReapFail, Terminal, TerminalStates, TypeOK, RequestTypes
  <2>4. ASSUME NEW t \in Threads, SealIfIdle(t), cur[t][1] = x PROVE NoPartsLeft(x)'
    <3>1. NoPartsLeft(x)
      BY ZenonT(60), <2>4 DEF SealIfIdle, SealingIsLast
    <3> QED
      BY ZenonT(60), <2>0, <3>1, NoPartsLeftStays
  <2> QED
    BY ZenonT(60), <2>2, <2>3, <2>4, SealedMoves
<1> QED
  BY ZenonT(60), <1>1, <1>2, <1>3, <1>4

\* A thread gets to end a request by sealing it or by its last completion.
LEMMA EndingMoves ==
    ASSUME TypeOK, [Next]_vars
    PROVE  \A u \in Threads : pc'[u] \in Ending =>
               \/ pc[u] \in Ending /\ cur'[u] = cur[u]
               \/ SealIfIdle(u)
               \/ u = Progress /\ \E o \in Ops : HandleEvent(o)
<1> DEFINE Goal == \A u \in Threads : pc'[u] \in Ending =>
                       \/ pc[u] \in Ending /\ cur'[u] = cur[u]
                       \/ SealIfIdle(u)
                       \/ u = Progress /\ \E o \in Ops : HandleEvent(o)
<1>a. ASSUME NEW t \in Threads, SealIfIdle(t) PROVE Goal
  <2>1. \A u \in Threads : u # t => pc'[u] = pc[u] /\ cur'[u] = cur[u]
    BY ZenonT(60), <1>a DEF SealIfIdle, Goto, Resume, TypeOK, ThreadTypes
  <2> QED
    BY ZenonT(60), <1>a, <2>1
<1>b. ASSUME NEW o \in Ops, HandleEvent(o) PROVE Goal
  <2>1. \A u \in Threads : u # Progress => pc'[u] = pc[u] /\ cur'[u] = cur[u]
    BY ZenonT(60), <1>b DEF HandleEvent, Goto, TypeOK, ThreadTypes
  <2> QED
    BY ZenonT(60), <1>b, <2>1
<1> USE DEF TypeOK, ThreadTypes, Threads, Ending,
            Goto, Resume, data, engine, world, threadVars, locals, reqVars,
            outVars, peerVars, reapVars
<1>1. ASSUME NEW r \in Requests, Submitter(r) PROVE Goal
  BY ZenonT(150), <1>1 DEF Submitter, Enter, CheckBound, Admit, Prepare, PostNext, Return
<1>2. ASSUME NEW t \in Threads, Poster(t) PROVE Goal
  BY ZenonT(90), <1>a, <1>2 DEF Poster, PostCheck, PostSubmit, PostCount, PartFinished,
                                Claim,
              DecideAbandoned, Finish, Publish
<1>3. ASSUME ProgressThread PROVE Goal
  <2>1. \A u \in Threads : u # Progress => pc'[u] = pc[u] /\ cur'[u] = cur[u]
    BY ZenonT(90), <1>3 DEF ProgressThread, ProgressStop, DrainBegin, DrainNext, DrainEnd,
                ReapScan, ReapStop, ReapClaim, ReapFail, ReapNext,
                PollTransports, HandleEvent, EventsDone, DecideCompleted,
                SendHandoff
  <2>2. \/ pc'[Progress] \notin Ending
        \/ pc[Progress] \in Ending /\ cur'[Progress] = cur[Progress]
        \/ \E o \in Ops : HandleEvent(o)
    BY ZenonT(150), <1>3 DEF ProgressThread, ProgressStop, DrainBegin, DrainNext, DrainEnd,
                ReapScan, ReapStop, ReapClaim, ReapFail, ReapNext,
                PollTransports, EventsDone, DecideCompleted, SendHandoff
  <2> QED
    BY ZenonT(150), <2>1, <2>2
<1>4. ASSUME \/ \E r \in Requests : Cancel(r) \/ DependencySettles(r)
             \/ PollCompletions \/ Closer
             \/ \E p \in Peers : RemovePeer(p) \/ RemoveStop(p) \/ PeerGoes(p)
             \/ \E o \in Ops : TransportCompletes(o)
      PROVE  Goal
  BY ZenonT(60), <1>4 DEF Cancel, DependencySettles, PollCompletions, Closer, CloseBegin,
              CloseTimeout, CloseDrained, CloseJoin, SetClosing, RemovePeer,
              RemoveStop, PeerGoes, TransportCompletes
<1>5. ASSUME UNCHANGED vars PROVE Goal
  BY ZenonT(60), <1>5 DEF vars
<1> QED
  BY ZenonT(60), <1>1, <1>2, <1>3, <1>4, <1>5 DEF Next

\* A request ends where it is finished or where the reaper fails it.
LEMMA TerminalMoves ==
    ASSUME TypeOK, [Next]_vars
    PROVE  \A x \in Requests : Terminal(x)' =>
               \/ Terminal(x) \/ ReapFail(x)
               \/ \E t \in Threads : Finish(t) /\ cur[t][1] = x
<1> DEFINE Goal == \A x \in Requests : Terminal(x)' =>
                       \/ Terminal(x) \/ ReapFail(x)
                       \/ \E t \in Threads : Finish(t) /\ cur[t][1] = x
<1>a. ASSUME NEW t \in Threads, Finish(t) PROVE Goal
  <2>1. \A x \in Requests : x # cur[t][1] => state'[x] = state[x]
    BY ZenonT(60), <1>a DEF Finish, TypeOK, RequestTypes
  <2> QED
    BY ZenonT(60), <1>a, <2>1 DEF Terminal
<1>b. ASSUME NEW r \in Requests, ReapFail(r) PROVE Goal
  <2>1. \A x \in Requests : x # r => state'[x] = state[x]
    BY ZenonT(60), <1>b DEF ReapFail, TypeOK, RequestTypes
  <2> QED
    BY ZenonT(60), <1>b, <2>1 DEF Terminal
<1> USE DEF TypeOK, RequestTypes, Terminal, TerminalStates,
            Goto, Resume, data, engine, world, threadVars, locals, reqVars,
            outVars, peerVars, reapVars
<1>1. ASSUME NEW r \in Requests, Submitter(r) PROVE Goal
  BY ZenonT(60), <1>1 DEF Submitter, Enter, CheckBound, Admit, Prepare, PostNext, Return
<1>2. ASSUME NEW t \in Threads, Poster(t) PROVE Goal
  BY ZenonT(90), <1>a, <1>2 DEF Poster, PostCheck, PostSubmit, PostCount, PartFinished,
              SealIfIdle, Claim, DecideAbandoned, Publish
<1>3. ASSUME ProgressThread PROVE Goal
  BY ZenonT(60), <1>b, <1>3 DEF ProgressThread, ProgressStop, DrainBegin, DrainNext,
                                DrainEnd,
              ReapScan, ReapStop, ReapClaim, ReapNext, PollTransports,
              HandleEvent, EventsDone, DecideCompleted, SendHandoff
<1>4. ASSUME \/ \E r \in Requests : Cancel(r) \/ DependencySettles(r)
             \/ PollCompletions \/ Closer
             \/ \E p \in Peers : RemovePeer(p) \/ RemoveStop(p) \/ PeerGoes(p)
             \/ \E o \in Ops : TransportCompletes(o)
      PROVE  Goal
  BY ZenonT(90), <1>4 DEF Cancel, DependencySettles, PollCompletions, Closer, CloseBegin,
              CloseTimeout, CloseDrained, CloseJoin, SetClosing, RemovePeer,
              RemoveStop, PeerGoes, TransportCompletes
<1>5. ASSUME UNCHANGED vars PROVE Goal
  BY ZenonT(60), <1>5 DEF vars
<1> QED
  BY ZenonT(60), <1>1, <1>2, <1>3, <1>4, <1>5 DEF Next

\* A connection is stopped by the reaper or by remove_peer, and stays so.
LEMMA StopMoves ==
    ASSUME TypeOK, [Next]_vars
    PROVE  \/ stopped' = stopped
           \/ \E p \in Peers : stopped' = stopped \cup {p} /\ op' = Flushed(p)
<1> DEFINE Goal == \/ stopped' = stopped
                   \/ \E p \in Peers : stopped' = stopped \cup {p} /\ op' = Flushed(p)
<1> USE DEF TypeOK,
            Goto, Resume, data, engine, world, threadVars, locals, reqVars,
            outVars, peerVars, reapVars
<1>1. ASSUME NEW r \in Requests, Submitter(r) PROVE Goal
  BY ZenonT(60), <1>1 DEF Submitter, Enter, CheckBound, Admit, Prepare, PostNext, Return
<1>2. ASSUME NEW t \in Threads, Poster(t) PROVE Goal
  BY ZenonT(60), <1>2 DEF Poster, PostCheck, PostSubmit, PostCount, PartFinished,
              SealIfIdle, Claim, DecideAbandoned, Finish, Publish
<1>3. ASSUME ProgressThread PROVE Goal
  BY ZenonT(60), <1>3 DEF ProgressThread, ProgressStop, DrainBegin, DrainNext, DrainEnd,
              ReapScan, ReapStop, ReapClaim, ReapFail, ReapNext,
              PollTransports, HandleEvent, EventsDone, DecideCompleted,
              SendHandoff
<1>4. ASSUME \/ \E r \in Requests : Cancel(r) \/ DependencySettles(r)
             \/ PollCompletions \/ Closer
             \/ \E p \in Peers : RemovePeer(p) \/ RemoveStop(p) \/ PeerGoes(p)
             \/ \E o \in Ops : TransportCompletes(o)
      PROVE  Goal
  BY ZenonT(60), <1>4 DEF Cancel, DependencySettles, PollCompletions, Closer, CloseBegin,
              CloseTimeout, CloseDrained, CloseJoin, SetClosing, RemovePeer,
              RemoveStop, PeerGoes, TransportCompletes
<1>5. ASSUME UNCHANGED vars PROVE Goal
  BY ZenonT(60), <1>5 DEF vars
<1> QED
  BY ZenonT(60), <1>1, <1>2, <1>3, <1>4, <1>5 DEF Next

\* Where the counts meet: with no part left to post, completions as many as
\* were accepted are all there will be.
LEMMA CountsMeet ==
    ASSUME TypeOK, HandsInv, AcceptedCounted, DonePartsPosted,
           NEW x \in Requests, NoPartsLeft(x),
           NEW D \in SUBSET Taken(x), Cardinality(D) >= accepted[x]
    PROVE  \A o \in OpsOf(x) : op[o] = "dropped" \/ o \in D
<1>1. \A o \in OpsOf(x) : op[o] # "queued"
  <2> SUFFICES ASSUME NEW o \in OpsOf(x) PROVE op[o] # "queued"
    OBVIOUS
  <2>1. PICK l \in Lanes : o \in Ops /\ o[1] = <<x, l>> /\ l \in PartsOf(x)
    <3>1. o \in Ops /\ o[1] = <<x, o[1][2]>> /\ o[1][2] \in Lanes
      BY SMTT(60) DEF OpsOf, Ops, Parts
    <3>2. o[2] \in 1 .. MaxOps /\ o[2] <= Plan[x][o[1][2]]
      BY ZenonT(60), <3>1 DEF OpsOf, Ops
    <3>3. Plan[x][o[1][2]] \in Nat
      BY SMTT(60), <3>1, PlanAssumption
    <3> QED
      BY SMTT(60), <3>1, <3>2, <3>3, PlanAssumption DEF PartsOf
  <2>2. place[<<x, l>>] = "done"
    BY ZenonT(60), <2>1 DEF NoPartsLeft, LiveParts, HandsInv, PartsAreBuilt
  <2> QED
    BY ZenonT(60), <2>1, <2>2 DEF DonePartsPosted
<1>2. \A t \in Threads : Uncounted(t, x) = 0
  <2> SUFFICES ASSUME NEW t \in Threads, pc[t] = "count", cur[t][1] = x PROVE FALSE
    BY ZenonT(60) DEF Uncounted
  <2>1. place[cur[t]] = "held"
    BY ZenonT(60) DEF HandsInv, PartsAreHeld, Posting
  <2>2. cur[t] = <<x, cur[t][2]>> /\ cur[t][2] \in Lanes
    BY SMTT(60) DEF TypeOK, ThreadTypes, Parts
  <2> QED
    BY ZenonT(60), <2>1, <2>2 DEF NoPartsLeft, LiveParts
<1>3. accepted[x] = Cardinality(Taken(x))
  BY SMTT(60), <1>2 DEF AcceptedCounted, TypeOK, RequestTypes, Threads
<1>4. D = Taken(x)
  <2>1. IsFiniteSet(Taken(x)) /\ Cardinality(Taken(x)) \in Nat
    BY ZenonT(60), OpsFinite DEF Taken, OpsOf
  <2>2. Cardinality(D) <= Cardinality(Taken(x)) /\ Cardinality(D) \in Nat
    BY ZenonT(60), <2>1, FS_Subset, FS_CardinalityType
  <2> QED
    BY SMTT(60), <1>3, <2>1, <2>2, FS_Subset
<1> QED
  BY ZenonT(60), <1>1, <1>4 DEF Taken

\* The last completion, sealed or not, leaves nothing outstanding.
LEMMA LastCompletion ==
    ASSUME TypeOK, HandsInv, CountInv, PartInv,
           NEW o \in Ops, HandleEvent(o), pc'[Progress] \in Ending
    PROVE  Settled(cur[Progress][1])'
<1>1. PICK x \in Requests : x = o[1][1]
  BY ZenonT(60) DEF Ops, Parts
<1>2. /\ op[o] \in {"pollOk", "pollErr"} /\ ~Terminal(x) /\ IsLast(x)
      /\ op' = [op EXCEPT ![o] = IF @ = "pollOk" THEN "doneOk" ELSE "doneErr"]
      /\ cur' = [cur EXCEPT ![Progress] = o[1]]
  BY ZenonT(60), <1>1 DEF HandleEvent, Goto, Ending, TypeOK, ThreadTypes, Threads
<1>3. cur'[Progress][1] = x
  BY ZenonT(60), <1>1, <1>2 DEF TypeOK, ThreadTypes, Threads
<1> DEFINE D == Done(x) \cup {o}
<1>4. /\ D \in SUBSET Taken(x) /\ D \in SUBSET OpsOf(x) /\ o \notin Done(x)
      /\ IsFiniteSet(Done(x)) /\ IsFiniteSet(OpsOf(x))
  BY ZenonT(60), <1>1, <1>2, OpsFinite DEF Done, Taken, OpsOf
<1>5. Cardinality(D) = completed[x] + 1
  BY ZenonT(90), <1>4, FS_AddElement DEF CountInv, CompletedCounted
<1>6. \A q \in OpsOf(x) : op[q] = "dropped" \/ q \in D
  <2>1. CASE x \in sealed
    <3>1. NoPartsLeft(x)
      BY ZenonT(60), <1>2, <2>1 DEF PartInv, SealedIsLast
    <3>2. Cardinality(D) >= accepted[x]
      BY ZenonT(60), <1>2, <1>5, <2>1 DEF IsLast
    <3> HIDE DEF D
    <3> QED
      BY ZenonT(60), <1>4, <3>1, <3>2, CountsMeet DEF CountInv, PartInv
  <2>2. CASE x \notin sealed
    <3>1. Cardinality(D) >= Cardinality(OpsOf(x))
      BY ZenonT(60), <1>2, <1>5, <2>2 DEF IsLast
    <3> HIDE DEF D
    <3>2. Cardinality(D) <= Cardinality(OpsOf(x)) /\ Cardinality(D) \in Nat
             /\ Cardinality(OpsOf(x)) \in Nat
      BY ZenonT(60), <1>4, FS_Subset, FS_CardinalityType
    <3> QED
      BY SMTT(60), <1>4, <3>1, <3>2, FS_Subset
  <2> QED
    BY ZenonT(60), <2>1, <2>2
<1>7. \A q \in OpsOf(x) : op'[q] \in {"dropped", "doneOk", "doneErr"}
  BY ZenonT(60), <1>2, <1>6 DEF Done, OpsOf, TypeOK, PartTypes
<1> QED
  BY ZenonT(60), <1>3, <1>7 DEF Settled, OpsOf

\* What ends has nothing outstanding, or has had its connections stopped.
LEMMA EndStep ==
    ASSUME TypeOK, HandsInv, CountInv, PartInv, EndInv, [Next]_vars
    PROVE  EndInv'
<1>0. stopped \subseteq stopped'
  BY ZenonT(60), StopMoves
<1>1. EndersSettled'
  <2> SUFFICES ASSUME NEW u \in Threads, pc'[u] \in Ending PROVE Settled(cur[u][1])'
    BY ZenonT(60) DEF EndersSettled, Ending
  <2>1. PICK x \in Requests : x = cur[u][1]
    BY ZenonT(60), CurType DEF TypeOK
  <2>2. CASE pc[u] \in Ending /\ cur'[u] = cur[u]
    <3>1. Settled(x)'
      BY ZenonT(60), <2>1, <2>2, SettledStays DEF EndInv, EndersSettled
    <3> QED
      BY ZenonT(60), <2>1, <2>2, <3>1 DEF Settled, OpsOf
  <2>3. CASE SealIfIdle(u)
    <3>1. cur'[u] = cur[u] /\ pc[u] = "seal" /\ completed[x] >= accepted[x]
      BY ZenonT(60), <2>1, <2>3 DEF SealIfIdle, Goto, Resume, Ending, TypeOK, ThreadTypes
    <3>2. NoPartsLeft(x)
      BY ZenonT(60), <2>1, <3>1 DEF PartInv, SealingIsLast
    <3>3. Done(x) \in SUBSET Taken(x) /\ Cardinality(Done(x)) >= accepted[x]
      BY ZenonT(60), <3>1 DEF Done, Taken, CountInv, CompletedCounted
    <3>4. \A o \in OpsOf(x) : op[o] = "dropped" \/ o \in Done(x)
      BY ZenonT(60), <3>2, <3>3, CountsMeet DEF CountInv, PartInv
    <3>5. Settled(x)
      BY ZenonT(60), <3>4 DEF Settled, Done
    <3>6. Settled(x)'
      BY ZenonT(60), <3>5, SettledStays
    <3> QED
      BY ZenonT(60), <2>1, <3>1, <3>6 DEF Settled, OpsOf
  <2>4. ASSUME u = Progress, NEW o \in Ops, HandleEvent(o) PROVE Settled(cur[u][1])'
    BY ZenonT(60), <2>4, LastCompletion
  <2> QED
    BY ZenonT(60), <2>2, <2>3, <2>4, EndingMoves
<1>2. EndedSettled'
  <2> SUFFICES ASSUME NEW x \in Requests, Terminal(x)'
               PROVE  Settled(x)' \/ PeerOf[x] \in stopped'
    BY ZenonT(60) DEF EndedSettled
  <2>1. CASE Terminal(x)
    BY ZenonT(60), <1>0, <2>1, SettledStays DEF EndInv, EndedSettled
  <2>2. CASE ReapFail(x)
    BY ZenonT(60), <1>0, <2>2 DEF ReapFail, EndInv, StrandedStopped
  <2>3. ASSUME NEW t \in Threads, Finish(t), cur[t][1] = x PROVE Settled(x)'
    <3>1. Settled(x)
      BY ZenonT(60), <2>3 DEF Finish, EndInv, EndersSettled, Ending
    <3> QED
      BY ZenonT(60), <3>1, SettledStays
  <2> QED
    BY ZenonT(60), <2>1, <2>2, <2>3, TerminalMoves
<1>3. StoppedIsQuiet'
  <2> SUFFICES ASSUME NEW o \in Ops, PeerOf[o[1][1]] \in stopped' PROVE op'[o] # "nic"
    BY ZenonT(60) DEF StoppedIsQuiet
  <2>1. ASSUME NEW p \in Peers, stopped' = stopped \cup {p}, op' = Flushed(p)
        PROVE  op'[o] # "nic"
    BY ZenonT(60), <2>1 DEF Flushed, EndInv, StoppedIsQuiet
  <2>2. CASE stopped' = stopped
    <3>1. op[o] # "nic"
      BY ZenonT(60), <2>2 DEF EndInv, StoppedIsQuiet
    <3>2. ASSUME NEW t \in Threads, PostSubmit(t) PROVE op'[o] # "nic"
      BY ZenonT(60), <2>2, <3>1, <3>2 DEF PostSubmit, ProviderSubmit, Prefixes, Queued
    <3>3. ASSUME NEW t \in Threads, PostCount(t) PROVE op'[o] # "nic"
      BY ZenonT(60), <3>1, <3>3 DEF PostCount
    <3>4. ASSUME op[o] = "queued" => op'[o] \in {"queued", "dropped"} PROVE op'[o] # "nic"
      BY ZenonT(60), <3>1, <3>4, OpMoves DEF OpMove
    <3> QED
      BY ZenonT(60), <3>2, <3>3, <3>4, AcceptedMoves
  <2> QED
    BY ZenonT(60), <2>1, <2>2, StopMoves
<1>4. StrandedStopped'
  <2> DEFINE Goal == /\ pc'[Progress] = "strand" =>
                           (pc[Progress] = "strand" /\ reaped' = reaped) \/ reaped' \in stopped'
                     /\ \A r \in stranded' : r \in stranded \/ PeerOf[r] \in stopped
  <2>0. pc[Progress] = "strand" => reaped \in stopped
    BY ZenonT(60) DEF EndInv, StrandedStopped
  <2> USE <2>0, RequestsAssumption DEF TypeOK, ThreadTypes, Threads,
              Goto, Resume, data, engine, world, threadVars, locals, reqVars,
              outVars, peerVars, reapVars
  <2>1. ASSUME NEW r \in Requests, Submitter(r) PROVE Goal
    BY ZenonT(60), <2>1 DEF Submitter, Enter, CheckBound, Admit, Prepare, PostNext, Return
  <2>2. ASSUME NEW t \in Threads, Poster(t) PROVE Goal
    BY ZenonT(90), <2>2 DEF Poster, PostCheck, PostSubmit, PostCount, PartFinished,
                SealIfIdle, Claim, DecideAbandoned, Finish, Publish
  <2>3. ASSUME ProgressThread PROVE Goal
    BY ZenonT(90), <2>3 DEF ProgressThread, ProgressStop, DrainBegin, DrainNext, DrainEnd,
                ReapScan, ReapStop, ReapClaim, ReapFail, ReapNext,
                PollTransports, HandleEvent, EventsDone, DecideCompleted,
                SendHandoff
  <2>4. ASSUME \/ \E r \in Requests : Cancel(r) \/ DependencySettles(r)
               \/ PollCompletions \/ Closer
               \/ \E p \in Peers : RemovePeer(p) \/ RemoveStop(p) \/ PeerGoes(p)
               \/ \E o \in Ops : TransportCompletes(o)
        PROVE  Goal
    BY ZenonT(90), <2>4 DEF Cancel, DependencySettles, PollCompletions, Closer,
                CloseBegin, CloseTimeout, CloseDrained, CloseJoin, SetClosing,
                RemovePeer, RemoveStop, PeerGoes, TransportCompletes
  <2>5. ASSUME UNCHANGED vars PROVE Goal
    BY ZenonT(60), <2>5 DEF vars
  <2> QED
    BY ZenonT(90), <1>0, <2>1, <2>2, <2>3, <2>4, <2>5 DEF Next, EndInv, StrandedStopped
<1> QED
  BY ZenonT(60), <1>1, <1>2, <1>3, <1>4 DEF EndInv

\* The engine starts within the invariant.
LEMMA QuietInit == Init => QuietInv
<1> SUFFICES ASSUME Init PROVE QuietInv
  OBVIOUS
<1>1. TypeOK
  <2>1. RequestTypes
    BY ZenonT(60) DEF Init, RequestTypes
  <2>2. PartTypes
    BY ZenonT(60) DEF Init, PartTypes, OpPlaces, PartPlaces
  <2>3. EngineTypes
    BY SMTT(60) DEF Init, EngineTypes
  <2>4. PeerTypes
    BY ZenonT(60), RequestsAssumption, PeersAssumption DEF Init, PeerTypes
  <2>5. ThreadTypes
    BY ZenonT(60), NoPartType DEF Init, ThreadTypes, NoResult
  <2> QED
    BY ZenonT(60), <2>1, <2>2, <2>3, <2>4, <2>5 DEF TypeOK
<1>2. /\ \A r \in Requests : pc[r] = "start"
      /\ \A t \in Threads : pc[t] \in {"start", "pass"}
  BY ZenonT(60), RequestsAssumption DEF Init, Threads
<1>3. HandsInv
  BY ZenonT(60), <1>2 DEF Init, HandsInv, PartsAreHeld, OwnParts, OneHolder, PartsAreBuilt,
                          Posting,
              AfterParts, Unprepared, Parts
<1>4. CountInv
  <2>1. \A r \in Requests : Taken(r) = {} /\ Done(r) = {}
    BY ZenonT(60) DEF Init, Taken, Done, OpsOf
  <2>2. \A r \in Requests, t \in Threads : Uncounted(t, r) = 0
    BY ZenonT(60), <1>2 DEF Uncounted
  <2>3. PartsCounted
    BY ZenonT(60), <1>2 DEF PartsCounted, Unprepared
  <2>4. AcceptedCounted
    <3>1. \A r \in Requests : r \in Threads /\ Progress \in Threads /\ accepted[r] = 0
      BY ZenonT(60) DEF Init, Threads
    <3> QED
      BY SMTT(60), <2>1, <2>2, <3>1, FS_EmptySet DEF AcceptedCounted
  <2>5. CompletedCounted
    BY ZenonT(60), <2>1, FS_EmptySet DEF Init, CompletedCounted
  <2> QED
    BY ZenonT(60), <2>3, <2>4, <2>5 DEF CountInv
<1>5. PartInv
  <2>1. \A o \in Ops : place[o[1]] = "none"
    BY ZenonT(60) DEF Init, Ops
  <2> QED
    BY ZenonT(60), <1>2, <2>1 DEF Init, PartInv, DonePartsPosted, FinishingPosted,
                                  SealingIsLast,
                      SealedIsLast
<1>6. EndInv
  BY ZenonT(60), <1>2 DEF Init, EndInv, EndersSettled, EndedSettled, StoppedIsQuiet,
                          StrandedStopped,
              Ending, Terminal, TerminalStates, Threads
<1> QED
  BY ZenonT(60), <1>1, <1>3, <1>4, <1>5, <1>6 DEF QuietInv

\* Every step keeps the invariant.
LEMMA QuietStep == QuietInv /\ [Next]_vars => QuietInv'
<1> SUFFICES ASSUME QuietInv, [Next]_vars PROVE QuietInv'
  OBVIOUS
<1> USE DEF QuietInv
<1>1. TypeOK'
  BY ZenonT(60), TypeStep
<1>2. HandsInv'
  BY ZenonT(60), HandsStep
<1>3. CountInv'
  BY ZenonT(60), PartsCountedStep, AcceptedCountedStep, CompletedCountedStep DEF CountInv
<1>4. PartInv'
  BY ZenonT(60), PartStep DEF CountInv
<1>5. EndInv'
  BY ZenonT(60), EndStep
<1> QED
  BY ZenonT(60), <1>1, <1>2, <1>3, <1>4, <1>5

\* The fields of the engine, its requests, peers and threads keep their types.
THEOREM TypeCorrect == Spec => []TypeOK
<1>1. Init => TypeOK
  BY ZenonT(60), QuietInit DEF QuietInv
<1>2. TypeOK /\ [Next]_vars => TypeOK'
  BY ZenonT(60), TypeStep
<1> QED
  BY <1>1, <1>2, PTL DEF Spec

\* The counters of a request count what they say, parts are posted before they
\* are finished, and nothing is ended while a transport may still touch it.
THEOREM QuietInvariant == Spec => []QuietInv
  BY QuietInit, QuietStep, PTL DEF Spec

\* Once a request has ended, no transport reads its source or writes its
\* destination: for any number of requests, peers, lanes and sub-operations,
\* and any interleaving of submitters, progress thread, cancels, departures,
\* removals and close.
THEOREM EndedRequestsAreQuiet == Spec => []EndedIsQuiet
<1>1. QuietInv => EndedIsQuiet
  <2> SUFFICES ASSUME QuietInv, NEW r \in Requests, Terminal(r), NEW o \in OpsOf(r)
               PROVE  op[o] # "nic"
    BY ZenonT(60) DEF EndedIsQuiet
  <2>1. o \in Ops /\ o[1][1] = r
    BY ZenonT(60) DEF OpsOf
  <2>2. Settled(r) \/ PeerOf[r] \in stopped
    BY ZenonT(60) DEF QuietInv, EndInv, EndedSettled
  <2> QED
    BY ZenonT(60), <2>1, <2>2 DEF QuietInv, EndInv, Settled, StoppedIsQuiet
<1> QED
  BY <1>1, QuietInvariant, PTL

-----------------------------------------------------------------------------
(* Who owns a request.                                                     *)

\* Where a submitter is before admission, and a thread once it has taken a
\* request out of inflight_ and before it has ended it.
Early    == {"start", "bound", "admit", "refused"}
Deciding == {"decide", "handoff", "end"}
Claims(t, r) == pc[t] \in Deciding /\ cur[t][1] = r

\* Nobody owns a request that is not admitted; after that it is in inflight_,
\* with the reaper, claimed by one thread, or ended, and in one of these only.
EarlyIsOut == \A r \in Requests : pc[r] \in Early =>
                  /\ r \notin inflight /\ r \notin stranded /\ ~Terminal(r)
                  /\ \A t \in Threads : ~Claims(t, r)
Accounted  == \A r \in Requests : pc[r] \notin Early =>
                  \/ r \in inflight \/ r \in stranded \/ Terminal(r)
                  \/ \E t \in Threads : Claims(t, r)
OneOwner   == \A r \in Requests :
                  /\ r \in inflight => r \notin stranded /\ ~Terminal(r)
                  /\ r \in stranded => ~Terminal(r)
                  /\ \A t \in Threads : Claims(t, r) =>
                        r \notin inflight /\ r \notin stranded /\ ~Terminal(r)
OneClaim   == \A r \in Requests, t, u \in Threads : Claims(t, r) /\ Claims(u, r) => t = u
\* What progress() goes back to fits what it is doing.
PhaseFits  == /\ pc[Progress] \in Posting \cup {"drain", "seal"} => phase = "drain"
              /\ pc[Progress] \in {"event", "handoff"} => phase = "event"
              /\ pc[Progress] = "lost" => phase = "lost"
              /\ pc[Progress] \in Ending => phase # "lost"
              /\ stranded # {} => phase = "lost" /\ pc[Progress] \in {"lost", "publish"}
              /\ \A r \in Requests : pc[r] # "handoff"
OwnInv == EarlyIsOut /\ Accounted /\ OneOwner /\ OneClaim /\ PhaseFits

\* A request is admitted by its submitter, in Admit.
LEMMA EarlyMoves ==
    ASSUME TypeOK, [Next]_vars
    PROVE  \A x \in Requests : (pc'[x] \in Early <=> pc[x] \in Early) \/ Admit(x)
<1> DEFINE Goal == \A x \in Requests : (pc'[x] \in Early <=> pc[x] \in Early) \/ Admit(x)
<1>a. ASSUME NEW r \in Requests, Admit(r) PROVE Goal
  <2>1. \A x \in Requests : x # r => pc'[x] = pc[x]
    BY ZenonT(60), <1>a DEF Admit, Goto, TypeOK, ThreadTypes, Threads
  <2> QED
    BY ZenonT(60), <1>a, <2>1
<1> USE RequestsAssumption
        DEF TypeOK, ThreadTypes, Threads, Early, Goto, Resume, data, engine, world,
            threadVars, locals, reqVars, outVars, peerVars, reapVars
<1>p. ASSUME ProgressThread PROVE \A x \in Requests : pc'[x] = pc[x]
  BY ZenonT(90), <1>p
     DEF ProgressThread, ProgressStop, DrainBegin, DrainNext, DrainEnd, ReapScan,
         ReapStop, ReapClaim, ReapFail, ReapNext, PollTransports, HandleEvent,
         EventsDone, DecideCompleted, SendHandoff
<1>1. ASSUME NEW r \in Requests, Submitter(r) PROVE Goal
  BY ZenonT(90), <1>1, <1>a
     DEF Submitter, Enter, CheckBound, Prepare, PostNext, Return
<1>2. ASSUME NEW t \in Threads, Poster(t) PROVE Goal
  BY ZenonT(150), <1>2, <1>a
     DEF Poster, PostCheck, PostSubmit, PostCount, PartFinished, SealIfIdle, Claim,
         DecideAbandoned, Finish, Publish
<1>3. ASSUME ProgressThread PROVE Goal
  BY ZenonT(60), <1>p, <1>3
<1>4. ASSUME \/ \E r \in Requests : Cancel(r) \/ DependencySettles(r)
             \/ PollCompletions \/ Closer
             \/ \E p \in Peers : RemovePeer(p) \/ RemoveStop(p) \/ PeerGoes(p)
             \/ \E o \in Ops : TransportCompletes(o)
      PROVE  Goal
  BY ZenonT(60), <1>4, <1>a
     DEF Cancel, DependencySettles, PollCompletions, Closer, CloseBegin, CloseTimeout,
         CloseDrained, CloseJoin, SetClosing, RemovePeer, RemoveStop, PeerGoes,
         TransportCompletes
<1>5. ASSUME UNCHANGED vars PROVE Goal
  BY ZenonT(60), <1>5 DEF vars
<1> QED
  BY ZenonT(90), <1>1, <1>2, <1>3, <1>4, <1>5 DEF Next

\* A thread takes a request in Claim and lets go of it in Finish.
LEMMA ClaimMoves ==
    ASSUME TypeOK, [Next]_vars
    PROVE  \A u \in Threads :
               \/ /\ pc'[u] \in Deciding <=> pc[u] \in Deciding
                  /\ pc[u] \in Deciding => cur'[u] = cur[u]
               \/ Claim(u) \/ Finish(u)
<1> DEFINE Same(u) == /\ pc'[u] \in Deciding <=> pc[u] \in Deciding
                      /\ pc[u] \in Deciding => cur'[u] = cur[u]
           Goal == \A u \in Threads : Same(u) \/ Claim(u) \/ Finish(u)
<1>a. ASSUME NEW t \in Threads, Claim(t) \/ Finish(t) PROVE Goal
  <2>1. \A u \in Threads : u # t => pc'[u] = pc[u] /\ cur'[u] = cur[u]
    BY ZenonT(60), <1>a DEF Claim, Finish, Goto, Resume, TypeOK, ThreadTypes
  <2> QED
    BY ZenonT(60), <1>a, <2>1
<1> USE DEF TypeOK, ThreadTypes, Threads, Deciding,
            Goto, Resume, data, engine, world, threadVars, locals, reqVars,
            outVars, peerVars, reapVars
<1>1. ASSUME NEW r \in Requests, Submitter(r) PROVE Goal
  BY ZenonT(150), <1>1
     DEF Submitter, Enter, CheckBound, Admit, Prepare, PostNext, Return
<1>2. ASSUME NEW t \in Threads, Poster(t) PROVE Goal
  BY ZenonT(150), <1>a, <1>2
     DEF Poster, PostCheck, PostSubmit, PostCount, PartFinished, SealIfIdle,
         DecideAbandoned, Publish
<1>3. ASSUME ProgressThread PROVE Goal
  <2>1. \A u \in Threads : u # Progress => pc'[u] = pc[u] /\ cur'[u] = cur[u]
    BY ZenonT(90), <1>3
       DEF ProgressThread, ProgressStop, DrainBegin, DrainNext, DrainEnd, ReapScan,
           ReapStop, ReapClaim, ReapFail, ReapNext, PollTransports, HandleEvent,
           EventsDone, DecideCompleted, SendHandoff
  <2>2. Same(Progress)
    BY ZenonT(150), <1>3
       DEF ProgressThread, ProgressStop, DrainBegin, DrainNext, DrainEnd, ReapScan,
           ReapStop, ReapClaim, ReapFail, ReapNext, PollTransports, HandleEvent,
           EventsDone, DecideCompleted, SendHandoff
  <2> QED
    BY ZenonT(150), <2>1, <2>2
<1>4. ASSUME \/ \E r \in Requests : Cancel(r) \/ DependencySettles(r)
             \/ PollCompletions \/ Closer
             \/ \E p \in Peers : RemovePeer(p) \/ RemoveStop(p) \/ PeerGoes(p)
             \/ \E o \in Ops : TransportCompletes(o)
      PROVE  Goal
  BY ZenonT(60), <1>4
     DEF Cancel, DependencySettles, PollCompletions, Closer, CloseBegin, CloseTimeout,
         CloseDrained, CloseJoin, SetClosing, RemovePeer, RemoveStop, PeerGoes,
         TransportCompletes
<1>5. ASSUME UNCHANGED vars PROVE Goal
  BY ZenonT(60), <1>5 DEF vars
<1> QED
  BY ZenonT(90), <1>1, <1>2, <1>3, <1>4, <1>5 DEF Next

\* inflight_ and the reaper's list change in these steps only.
LEMMA InflightMoves ==
    ASSUME TypeOK, [Next]_vars
    PROVE  \/ inflight' = inflight /\ stranded' = stranded
           \/ \E r \in Requests : Admit(r) \/ ReapFail(r)
           \/ ReapClaim \/ \E t \in Threads : Claim(t)
<1> DEFINE Goal == \/ inflight' = inflight /\ stranded' = stranded
                   \/ \E r \in Requests : Admit(r) \/ ReapFail(r)
                   \/ ReapClaim \/ \E t \in Threads : Claim(t)
<1> USE DEF TypeOK, Goto, Resume, data, engine, world, threadVars, locals, reqVars,
            outVars, peerVars, reapVars
<1>1. ASSUME NEW r \in Requests, Submitter(r) PROVE Goal
  BY ZenonT(60), <1>1
     DEF Submitter, Enter, CheckBound, Prepare, PostNext, Return
<1>2. ASSUME NEW t \in Threads, Poster(t) PROVE Goal
  BY ZenonT(60), <1>2
     DEF Poster, PostCheck, PostSubmit, PostCount, PartFinished, SealIfIdle,
         DecideAbandoned, Finish, Publish
<1>3. ASSUME ProgressThread PROVE Goal
  BY ZenonT(60), <1>3
     DEF ProgressThread, ProgressStop, DrainBegin, DrainNext, DrainEnd, ReapScan,
         ReapStop, ReapNext, PollTransports, HandleEvent, EventsDone, DecideCompleted,
         SendHandoff
<1>4. ASSUME \/ \E r \in Requests : Cancel(r) \/ DependencySettles(r)
             \/ PollCompletions \/ Closer
             \/ \E p \in Peers : RemovePeer(p) \/ RemoveStop(p) \/ PeerGoes(p)
             \/ \E o \in Ops : TransportCompletes(o)
      PROVE  Goal
  BY ZenonT(60), <1>4
     DEF Cancel, DependencySettles, PollCompletions, Closer, CloseBegin, CloseTimeout,
         CloseDrained, CloseJoin, SetClosing, RemovePeer, RemoveStop, PeerGoes,
         TransportCompletes
<1>5. ASSUME UNCHANGED vars PROVE Goal
  BY ZenonT(60), <1>5 DEF vars
<1> QED
  BY ZenonT(90), <1>1, <1>2, <1>3, <1>4, <1>5 DEF Next

\* What progress() goes back to goes on fitting what it does.
LEMMA PhaseStep ==
    ASSUME TypeOK, PhaseFits, [Next]_vars
    PROVE  PhaseFits'
<1> USE RequestsAssumption
        DEF TypeOK, ThreadTypes, Threads, PhaseFits, Posting, Ending, Goto, Resume, data,
            engine, world, threadVars, locals, reqVars, outVars, peerVars, reapVars
<1>1. ASSUME NEW r \in Requests, Submitter(r) PROVE PhaseFits'
  BY ZenonT(150), <1>1
     DEF Submitter, Enter, CheckBound, Admit, Prepare, PostNext, Return
<1>2. ASSUME NEW t \in Threads, Poster(t) PROVE PhaseFits'
  BY ZenonT(150), <1>2
     DEF Poster, PostCheck, PostSubmit, PostCount, PartFinished, SealIfIdle, Claim,
         DecideAbandoned, Finish, Publish
<1>3. ASSUME ProgressThread PROVE PhaseFits'
  BY ZenonT(150), <1>3
     DEF ProgressThread, ProgressStop, DrainBegin, DrainNext, DrainEnd, ReapScan,
         ReapStop, ReapClaim, ReapFail, ReapNext, PollTransports, HandleEvent,
         EventsDone, DecideCompleted, SendHandoff
<1>4. ASSUME \/ \E r \in Requests : Cancel(r) \/ DependencySettles(r)
             \/ PollCompletions \/ Closer
             \/ \E p \in Peers : RemovePeer(p) \/ RemoveStop(p) \/ PeerGoes(p)
             \/ \E o \in Ops : TransportCompletes(o)
      PROVE  PhaseFits'
  BY ZenonT(90), <1>4
     DEF Cancel, DependencySettles, PollCompletions, Closer, CloseBegin, CloseTimeout,
         CloseDrained, CloseJoin, SetClosing, RemovePeer, RemoveStop, PeerGoes,
         TransportCompletes
<1>5. ASSUME UNCHANGED vars PROVE PhaseFits'
  BY ZenonT(60), <1>5 DEF vars
<1> QED
  BY ZenonT(90), <1>1, <1>2, <1>3, <1>4, <1>5 DEF Next

\* Every step leaves each request with the one owner it has.
LEMMA OwnStep ==
    ASSUME TypeOK, OwnInv, [Next]_vars
    PROVE  OwnInv'
<1>0. /\ EarlyIsOut /\ Accounted /\ OneOwner /\ OneClaim /\ PhaseFits
      /\ \A t \in Threads : cur[t][1] \in Requests
      /\ Requests \subseteq Threads /\ Progress \in Threads /\ Progress \notin Requests
      /\ DOMAIN pc = Threads /\ DOMAIN cur = Threads /\ DOMAIN state = Requests
      /\ phase \in {"drain", "lost", "event"}
  BY ZenonT(60), CurType, RequestsAssumption
     DEF OwnInv, TypeOK, ThreadTypes, RequestTypes, Threads
<1>1. PhaseFits'
  BY ZenonT(60), <1>0, PhaseStep
<1> DEFINE Goal == EarlyIsOut' /\ Accounted' /\ OneOwner' /\ OneClaim'
<1>2. ASSUME NEW r \in Requests, Admit(r) PROVE Goal
  <2>1. /\ pc[r] = "admit" /\ stranded' = stranded
        /\ \/ inflight' = inflight /\ pc'[r] = "refused"
           \/ inflight' = inflight \cup {r} /\ pc'[r] = "prepare"
        /\ \A u \in Threads : u # r => pc'[u] = pc[u]
        /\ cur' = cur /\ state' = state
    BY ZenonT(60), <1>0, <1>2 DEF Admit, Goto, data, reqVars, locals, reapVars
  <2>2. \A x \in Requests : Terminal(x)' <=> Terminal(x)
    BY ZenonT(60), <2>1 DEF Terminal
  <2>3. \A u \in Threads, x \in Requests : Claims(u, x)' <=> Claims(u, x)
    BY ZenonT(60), <1>0, <2>1 DEF Claims, Deciding
  <2>4. /\ \A x \in Requests : x # r => (pc'[x] \in Early <=> pc[x] \in Early)
        /\ pc[r] \in Early
        /\ \/ pc'[r] \in Early /\ inflight' = inflight
           \/ pc'[r] \notin Early /\ inflight' = inflight \cup {r}
    BY ZenonT(60), <1>0, <2>1 DEF Early
  <2>5. EarlyIsOut'
    BY ZenonT(60), <1>0, <2>1, <2>2, <2>3, <2>4 DEF EarlyIsOut
  <2>6. Accounted'
    BY ZenonT(60), <1>0, <2>1, <2>2, <2>3, <2>4 DEF Accounted
  <2>7. OneOwner'
    BY ZenonT(60), <1>0, <2>1, <2>2, <2>3, <2>4 DEF OneOwner, EarlyIsOut
  <2>8. OneClaim'
    BY ZenonT(60), <1>0, <2>3 DEF OneClaim
  <2> QED
    BY <2>5, <2>6, <2>7, <2>8
<1>3. ASSUME NEW t \in Threads, Claim(t) PROVE Goal
  <2>0. PICK x \in Requests : x = cur[t][1]
    BY ZenonT(60), <1>0
  <2>1. /\ pc[t] = "claim" /\ stranded' = stranded /\ state' = state
        /\ inflight' = inflight \ {x}
        /\ \A u \in Threads : u # t => pc'[u] = pc[u] /\ cur'[u] = cur[u]
        /\ x \in inflight => pc'[t] = "decide" /\ cur'[t] = cur[t]
        /\ x \notin inflight => pc'[t] \in {"post", "drain", "lost", "event"}
    BY ZenonT(60), <1>0, <1>3, <2>0
       DEF Claim, Goto, Resume, data, reqVars, reapVars
  <2>2. \A y \in Requests : /\ Terminal(y)' <=> Terminal(y)
                            /\ pc'[y] \in Early <=> pc[y] \in Early
    BY ZenonT(60), <1>0, <2>1 DEF Terminal, Early
  <2>3. \A u \in Threads, y \in Requests :
           Claims(u, y)' <=> Claims(u, y) \/ (u = t /\ y = x /\ x \in inflight)
    BY ZenonT(60), <1>0, <2>0, <2>1 DEF Claims, Deciding
  <2>5. EarlyIsOut'
    BY ZenonT(60), <1>0, <2>1, <2>2, <2>3 DEF EarlyIsOut
  <2>6. Accounted'
    BY ZenonT(60), <1>0, <2>1, <2>2, <2>3 DEF Accounted
  <2>7. OneOwner'
    <3> SUFFICES ASSUME NEW y \in Requests
                 PROVE  /\ y \in inflight' => y \notin stranded' /\ ~Terminal(y)'
                        /\ y \in stranded' => ~Terminal(y)'
                        /\ \A u \in Threads : Claims(u, y)' =>
                              y \notin inflight' /\ y \notin stranded' /\ ~Terminal(y)'
      BY ZenonT(60) DEF OneOwner
    <3>1. CASE y = x /\ x \in inflight
      BY ZenonT(60), <1>0, <2>1, <2>2, <3>1 DEF OneOwner
    <3>2. CASE ~(y = x /\ x \in inflight)
      BY ZenonT(60), <1>0, <2>1, <2>2, <2>3, <3>2 DEF OneOwner
    <3> QED
      BY ZenonT(60), <3>1, <3>2
  <2>8. OneClaim'
    <3> SUFFICES ASSUME NEW y \in Requests, NEW u \in Threads, NEW v \in Threads,
                        Claims(u, y)', Claims(v, y)'
                 PROVE  u = v
      BY ZenonT(60) DEF OneClaim
    <3>1. CASE y = x /\ x \in inflight
      BY ZenonT(60), <1>0, <2>3, <3>1 DEF OneOwner
    <3>2. CASE ~(y = x /\ x \in inflight)
      BY ZenonT(60), <1>0, <2>3, <3>2 DEF OneClaim
    <3> QED
      BY ZenonT(60), <3>1, <3>2
  <2> QED
    BY <2>5, <2>6, <2>7, <2>8
<1>4. ASSUME NEW t \in Threads, Finish(t) PROVE Goal
  <2>0. PICK x \in Requests : x = cur[t][1]
    BY ZenonT(60), <1>0
  <2>1. Claims(t, x) /\ ~Terminal(x)
    BY ZenonT(60), <1>0, <1>4, <2>0 DEF Finish, Claims, Deciding, OneOwner
  <2>2. /\ pc[t] = "end" /\ stranded' = stranded /\ inflight' = inflight
        /\ pc'[t] = "publish" /\ cur' = cur
        /\ \A u \in Threads : u # t => pc'[u] = pc[u]
        /\ state' = [state EXCEPT ![x] = Outcome[verdict[t]]]
    BY ZenonT(60), <1>0, <1>4, <2>0, <2>1 DEF Finish, Goto, engine, reapVars
  <2>3. Outcome[verdict[t]] \in TerminalStates
    BY SMTT(60) DEF TypeOK, ThreadTypes, Outcome, TerminalStates
  <2>4. \A y \in Requests : /\ Terminal(y)' <=> Terminal(y) \/ y = x
                            /\ pc'[y] \in Early <=> pc[y] \in Early
    BY ZenonT(60), <1>0, <2>2, <2>3 DEF Terminal, Early
  <2>5. \A u \in Threads, y \in Requests : Claims(u, y)' <=> Claims(u, y) /\ u # t
    BY ZenonT(60), <1>0, <2>2 DEF Claims, Deciding
  <2>6. \A y \in Requests : Claims(t, y) => y = x
    BY ZenonT(60), <2>0 DEF Claims
  <2>7. EarlyIsOut'
    BY ZenonT(60), <1>0, <2>1, <2>2, <2>4, <2>5 DEF EarlyIsOut
  <2>8. Accounted'
    <3> SUFFICES ASSUME NEW y \in Requests, pc'[y] \notin Early, y # x
                 PROVE  \/ y \in inflight \/ y \in stranded \/ Terminal(y)
                        \/ \E u \in Threads : Claims(u, y)'
      BY ZenonT(60), <2>2, <2>4 DEF Accounted, Early
    <3> QED
      BY ZenonT(60), <1>0, <2>4, <2>5, <2>6 DEF Accounted
  <2>9. OneOwner'
    <3> SUFFICES ASSUME NEW y \in Requests
                 PROVE  /\ y \in inflight' => y \notin stranded' /\ ~Terminal(y)'
                        /\ y \in stranded' => ~Terminal(y)'
                        /\ \A u \in Threads : Claims(u, y)' =>
                              y \notin inflight' /\ y \notin stranded' /\ ~Terminal(y)'
      BY ZenonT(60) DEF OneOwner
    <3>1. CASE y = x
      BY ZenonT(60), <1>0, <2>1, <2>2, <2>5, <3>1 DEF OneOwner, OneClaim
    <3>2. CASE y # x
      BY ZenonT(60), <1>0, <2>2, <2>4, <2>5, <3>2 DEF OneOwner
    <3> QED
      BY ZenonT(60), <3>1, <3>2
  <2>10. OneClaim'
    BY ZenonT(60), <1>0, <2>5 DEF OneClaim
  <2> QED
    BY <2>7, <2>8, <2>9, <2>10
<1>5. ASSUME ReapClaim PROVE Goal
  <2>1. /\ stranded = {} /\ stranded' \subseteq inflight /\ inflight' = inflight \ stranded'
        /\ cur' = cur /\ state' = state
        /\ pc[Progress] = "strand" /\ pc'[Progress] = "lost"
        /\ \A u \in Threads : u # Progress => pc'[u] = pc[u]
    BY ZenonT(60), <1>0, <1>5 DEF ReapClaim, PhaseFits, Goto, data, reqVars
  <2>2. \A y \in Requests : /\ Terminal(y)' <=> Terminal(y)
                            /\ pc'[y] \in Early <=> pc[y] \in Early
    BY ZenonT(60), <1>0, <2>1 DEF Terminal
  <2>3. \A u \in Threads, y \in Requests : Claims(u, y)' <=> Claims(u, y)
    BY ZenonT(60), <1>0, <2>1 DEF Claims, Deciding
  <2>4. inflight \subseteq Requests /\ stranded' \subseteq Requests
    BY ZenonT(60), <2>1 DEF TypeOK, EngineTypes
  <2>5. EarlyIsOut'
    BY ZenonT(60), <1>0, <2>1, <2>2, <2>3 DEF EarlyIsOut
  <2>6. Accounted'
    BY ZenonT(60), <1>0, <2>1, <2>2, <2>3 DEF Accounted
  <2>7. OneOwner'
    BY ZenonT(90), <1>0, <2>1, <2>2, <2>3, <2>4 DEF OneOwner
  <2>8. OneClaim'
    BY ZenonT(60), <1>0, <2>3 DEF OneClaim
  <2> QED
    BY <2>5, <2>6, <2>7, <2>8
<1>6. ASSUME NEW r \in Requests, ReapFail(r) PROVE Goal
  <2>1. r \in stranded /\ ~Terminal(r)
    BY ZenonT(60), <1>0, <1>6 DEF ReapFail, OneOwner
  <2>2. /\ stranded' = stranded \ {r} /\ inflight' = inflight
        /\ state' = [state EXCEPT ![r] = "Failed"]
        /\ pc[Progress] = "lost" /\ pc'[Progress] = "publish"
        /\ \A u \in Threads : u # Progress => pc'[u] = pc[u] /\ cur'[u] = cur[u]
    BY ZenonT(60), <1>0, <1>6, <2>1 DEF ReapFail, Goto
  <2>3. \A y \in Requests : /\ Terminal(y)' <=> Terminal(y) \/ y = r
                            /\ pc'[y] \in Early <=> pc[y] \in Early
    BY ZenonT(60), <1>0, <2>2 DEF Terminal, TerminalStates
  <2>4. \A u \in Threads, y \in Requests : Claims(u, y)' <=> Claims(u, y)
    BY ZenonT(60), <1>0, <2>2 DEF Claims, Deciding
  <2>5. inflight \subseteq Requests /\ stranded \subseteq Requests
    BY ZenonT(60) DEF TypeOK, EngineTypes, PeerTypes
  <2>6. EarlyIsOut'
    BY ZenonT(60), <1>0, <2>1, <2>2, <2>3, <2>4 DEF EarlyIsOut
  <2>7. Accounted'
    BY ZenonT(60), <1>0, <2>1, <2>2, <2>3, <2>4 DEF Accounted
  <2>8. OneOwner'
    BY ZenonT(90), <1>0, <2>1, <2>2, <2>3, <2>4, <2>5 DEF OneOwner
  <2>9. OneClaim'
    BY ZenonT(60), <1>0, <2>4 DEF OneClaim
  <2> QED
    BY <2>6, <2>7, <2>8, <2>9
<1>7. ASSUME ~ \E r \in Requests : Admit(r) \/ ReapFail(r),
             ~ReapClaim,
             ~ \E t \in Threads : Claim(t) \/ Finish(t)
      PROVE  Goal
  <2>1. inflight' = inflight /\ stranded' = stranded
    BY ZenonT(60), <1>7, InflightMoves
  <2>2. \A x \in Requests : pc'[x] \in Early <=> pc[x] \in Early
    BY ZenonT(60), <1>7, EarlyMoves
  <2>3. \A x \in Requests : Terminal(x)' <=> Terminal(x)
    <3>1. \A x \in Requests : Terminal(x) => Terminal(x)'
      BY ZenonT(60), TerminalStays DEF Terminal
    <3> QED
      BY ZenonT(60), <1>7, <3>1, TerminalMoves
  <2>4. \A u \in Threads, x \in Requests : Claims(u, x)' <=> Claims(u, x)
    BY ZenonT(60), <1>7, ClaimMoves DEF Claims
  <2>5. inflight \subseteq Requests /\ stranded \subseteq Requests
    BY ZenonT(60) DEF TypeOK, EngineTypes, PeerTypes
  <2> QED
    BY ZenonT(90), <1>0, <2>1, <2>2, <2>3, <2>4, <2>5
       DEF EarlyIsOut, Accounted, OneOwner, OneClaim
<1> QED
  BY ZenonT(60), <1>1, <1>2, <1>3, <1>4, <1>5, <1>6, <1>7 DEF OwnInv
=============================================================================
