-------------------------- MODULE TransfersEndings --------------------------
(***************************************************************************)
(* Proofs about Transfers, third part: a request succeeds only whole, what *)
(* a thread is about to say of it is true, its ending is reported once,    *)
(* and close() waits for all of it.                                        *)
(***************************************************************************)
EXTENDS TransfersProofs

-----------------------------------------------------------------------------
(* What a success is made of.                                              *)

Whole(r) == \A o \in OpsOf(r) : op[o] = "doneOk"

\* An error is noted before its completion is counted; only a request that is
\* given up is sealed; nothing is posted before the parts are built.
ErrorsStick    == \A o \in Ops : op[o] = "doneErr" => o[1][1] \in err
SealedGivenUp  == \A r \in sealed : Abandoning(r)
PostedPrepared == \A o \in Ops : op[o] # "queued" => pc[o[1][1]] \notin Unprepared
\* The last completion of a request nobody gave up is that of a whole one.
LastIsWhole    == pc[Progress] \in {"claim", "decide"} /\ phase = "event" =>
                      Abandoning(cur[Progress][1]) \/ Whole(cur[Progress][1])
\* What a thread is about to say of a request is so.
VerdictIsTrue  == \A t \in Threads : pc[t] \in {"handoff", "end"} =>
                      /\ verdict[t] = "succeeded" => Whole(cur[t][1])
                      /\ verdict[t] = "cancelled" => cur[t][1] \in cancel
                      /\ pc[t] = "handoff" => verdict[t] = "succeeded"
                      /\ pc[t] = "end" /\ verdict[t] = "succeeded" => cur[t][1] \in handoff
\* The peer is told of a success just before it happens.
ToldSucceeds   == \A r \in handoff :
                      /\ Whole(r)
                      /\ \/ state[r] = "Succeeded"
                         \/ \E t \in Threads : Claims(t, r) /\ pc[t] = "end" /\ verdict[t] = "succeeded"
SucceededTold  == \A r \in Requests : state[r] = "Succeeded" => r \in handoff
WholeInv == ErrorsStick /\ SealedGivenUp /\ PostedPrepared /\ LastIsWhole /\ VerdictIsTrue
               /\ ToldSucceeds /\ SucceededTold

\* Nobody takes back an error, a cancel or what a peer was told.
LEMMA GivenUpStays ==
    ASSUME TypeOK, [Next]_vars
    PROVE  err \subseteq err' /\ cancel \subseteq cancel'
<1> DEFINE Goal == err \subseteq err' /\ cancel \subseteq cancel'
<1> USE DEF TypeOK, Goto, Resume, data, engine, world, threadVars, locals, reqVars,
            outVars, peerVars, reapVars
<1>1. ASSUME NEW r \in Requests, Submitter(r) PROVE Goal
  BY ZenonT(60), <1>1
     DEF Submitter, Enter, CheckBound, Admit, Prepare, PostNext, Return
<1>2. ASSUME NEW t \in Threads, Poster(t) PROVE Goal
  BY ZenonT(90), <1>2
     DEF Poster, PostCheck, PostSubmit, PostCount, PartFinished, SealIfIdle, Claim,
         DecideAbandoned, Finish, Publish
<1>3. ASSUME ProgressThread PROVE Goal
  BY ZenonT(90), <1>3
     DEF ProgressThread, ProgressStop, DrainBegin, DrainNext, DrainEnd, ReapScan,
         ReapStop, ReapClaim, ReapFail, ReapNext, PollTransports, HandleEvent,
         EventsDone, DecideCompleted, SendHandoff
<1>4. ASSUME \/ \E r \in Requests : Cancel(r) \/ DependencySettles(r)
             \/ PollCompletions \/ Closer
             \/ \E p \in Peers : RemovePeer(p) \/ RemoveStop(p) \/ PeerGoes(p)
             \/ \E o \in Ops : TransportCompletes(o)
      PROVE  Goal
  BY ZenonT(60), <1>4
     DEF Cancel, DependencySettles, PollCompletions, Closer, CloseBegin, CloseTimeout,
         CloseDrained, CloseJoin, SetClosing, RemovePeer, RemoveStop, PeerGoes,
         TransportCompletes
<1>5. ASSUME UNCHANGED vars PROVE Goal
  BY ZenonT(60), <1>5 DEF vars
<1> QED
  BY ZenonT(90), <1>1, <1>2, <1>3, <1>4, <1>5 DEF Next

\* A peer is told in SendHandoff.
LEMMA HandoffMoves ==
    ASSUME TypeOK, [Next]_vars
    PROVE  handoff' = handoff \/ SendHandoff
<1> DEFINE Goal == handoff' = handoff \/ SendHandoff
<1> USE DEF TypeOK, Goto, Resume, data, engine, world, threadVars, locals, reqVars,
            outVars, peerVars, reapVars
<1>1. ASSUME NEW r \in Requests, Submitter(r) PROVE Goal
  BY ZenonT(60), <1>1
     DEF Submitter, Enter, CheckBound, Admit, Prepare, PostNext, Return
<1>2. ASSUME NEW t \in Threads, Poster(t) PROVE Goal
  BY ZenonT(60), <1>2
     DEF Poster, PostCheck, PostSubmit, PostCount, PartFinished, SealIfIdle, Claim,
         DecideAbandoned, Finish, Publish
<1>3. ASSUME ProgressThread PROVE Goal
  BY ZenonT(60), <1>3
     DEF ProgressThread, ProgressStop, DrainBegin, DrainNext, DrainEnd, ReapScan,
         ReapStop, ReapClaim, ReapFail, ReapNext, PollTransports, HandleEvent,
         EventsDone, DecideCompleted
<1>4. ASSUME \/ \E r \in Requests : Cancel(r) \/ DependencySettles(r)
             \/ PollCompletions \/ Closer
             \/ \E p \in Peers : RemovePeer(p) \/ RemoveStop(p) \/ PeerGoes(p)
             \/ \E o \in Ops : TransportCompletes(o)
      PROVE  Goal
  BY ZenonT(60), <1>4
     DEF Cancel, DependencySettles, PollCompletions, Closer, CloseBegin, CloseTimeout,
         CloseDrained, CloseJoin, SetClosing, RemovePeer, RemoveStop, PeerGoes,
         TransportCompletes
<1>5. ASSUME UNCHANGED vars PROVE Goal
  BY ZenonT(60), <1>5 DEF vars
<1> QED
  BY ZenonT(90), <1>1, <1>2, <1>3, <1>4, <1>5 DEF Next

\* A sub-operation leaves its part in the hands of the thread that posts it.
LEMMA QueuedMoves ==
    ASSUME TypeOK, [Next]_vars
    PROVE  \A q \in Ops : op[q] = "queued" =>
               \/ op'[q] = "queued"
               \/ \E u \in Threads : pc[u] \in Posting /\ cur[u] = q[1]
<1> DEFINE Goal == \A q \in Ops : op[q] = "queued" =>
                       \/ op'[q] = "queued"
                       \/ \E u \in Threads : pc[u] \in Posting /\ cur[u] = q[1]
<1> USE DEF TypeOK, PartTypes, Posting, Queued, Goto, Resume, data, engine, world,
            threadVars, locals, reqVars, outVars, peerVars, reapVars
<1>1. ASSUME NEW r \in Requests, Submitter(r) PROVE Goal
  BY ZenonT(60), <1>1
     DEF Submitter, Enter, CheckBound, Admit, Prepare, PostNext, Return
<1>2. ASSUME NEW t \in Threads, Poster(t) PROVE Goal
  BY ZenonT(90), <1>2
     DEF Poster, PostCheck, PostSubmit, ProviderSubmit, Prefixes, PostCount, PartFinished, SealIfIdle, Claim,
         DecideAbandoned, Finish, Publish
<1>3. ASSUME ProgressThread PROVE Goal
  BY ZenonT(90), <1>3
     DEF ProgressThread, ProgressStop, DrainBegin, DrainNext, DrainEnd, ReapScan,
         ReapStop, Flushed, ReapClaim, ReapFail, ReapNext, PollTransports, HandleEvent,
         EventsDone, DecideCompleted, SendHandoff
<1>4. ASSUME \/ \E r \in Requests : Cancel(r) \/ DependencySettles(r)
             \/ PollCompletions \/ Closer
             \/ \E p \in Peers : RemovePeer(p) \/ RemoveStop(p) \/ PeerGoes(p)
             \/ \E o \in Ops : TransportCompletes(o)
      PROVE  Goal
  BY ZenonT(60), <1>4
     DEF Cancel, DependencySettles, PollCompletions, Closer, CloseBegin, CloseTimeout,
         CloseDrained, CloseJoin, SetClosing, RemovePeer, RemoveStop, Flushed, PeerGoes,
         TransportCompletes
<1>5. ASSUME UNCHANGED vars PROVE Goal
  BY ZenonT(60), <1>5 DEF vars
<1> QED
  BY ZenonT(90), <1>1, <1>2, <1>3, <1>4, <1>5 DEF Next

\* How a thread comes to have a verdict, and leaves it.
LEMMA VerdictMoves ==
    ASSUME TypeOK, [Next]_vars
    PROVE  \A u \in Threads :
               /\ pc'[u] \in {"handoff", "end"} =>
                     \/ pc[u] = pc'[u] /\ cur'[u] = cur[u] /\ verdict'[u] = verdict[u]
                     \/ DecideAbandoned(u)
                     \/ u = Progress /\ (DecideCompleted \/ SendHandoff)
               /\ pc[u] = "end" =>
                     \/ pc'[u] = "end" /\ cur'[u] = cur[u] /\ verdict'[u] = verdict[u]
                     \/ Finish(u)
<1> DEFINE Same(u) == pc'[u] = pc[u] /\ cur'[u] = cur[u] /\ verdict'[u] = verdict[u]
           Ok(u) == /\ pc'[u] \in {"handoff", "end"} =>
                          \/ Same(u) \/ DecideAbandoned(u)
                          \/ u = Progress /\ (DecideCompleted \/ SendHandoff)
                    /\ pc[u] = "end" => Same(u) \/ Finish(u)
           Goal == \A u \in Threads : Ok(u)
<1>a. ASSUME \A u \in Threads : Same(u) PROVE Goal
  BY ZenonT(60), <1>a
<1>b. ASSUME NEW t \in Threads, \A u \in Threads : u # t => Same(u), Ok(t) PROVE Goal
  BY ZenonT(60), <1>b
<1>c. ASSUME Goal PROVE \A u \in Threads :
               /\ pc'[u] \in {"handoff", "end"} =>
                     \/ pc[u] = pc'[u] /\ cur'[u] = cur[u] /\ verdict'[u] = verdict[u]
                     \/ DecideAbandoned(u)
                     \/ u = Progress /\ (DecideCompleted \/ SendHandoff)
               /\ pc[u] = "end" =>
                     \/ pc'[u] = "end" /\ cur'[u] = cur[u] /\ verdict'[u] = verdict[u]
                     \/ Finish(u)
  BY ZenonT(60), <1>c
<1>t. Requests \subseteq Threads /\ Progress \in Threads
  BY ZenonT(60) DEF Threads
<1> HIDE DEF Goal
<1> USE DEF TypeOK, ThreadTypes, Goto, Resume, data, engine, world,
            threadVars, locals, reqVars, outVars, peerVars, reapVars
<1>1. ASSUME NEW r \in Requests, Submitter(r) PROVE Goal
  <2>1. \A u \in Threads : u # r => Same(u)
    BY ZenonT(60), <1>1, <1>t
       DEF Submitter, Enter, CheckBound, Admit, Prepare, PostNext, Return
  <2>2. Ok(r)
    BY ZenonT(60), <1>1, <1>t
       DEF Submitter, Enter, CheckBound, Admit, Prepare, PostNext, Return
  <2> QED
    BY ZenonT(60), <1>b, <1>t, <2>1, <2>2
<1>2. ASSUME NEW t \in Threads, Poster(t) PROVE Goal
  <2>1. \A u \in Threads : u # t => Same(u)
    BY ZenonT(90), <1>2
       DEF Poster, PostCheck, PostSubmit, PostCount, PartFinished, SealIfIdle, Claim,
           DecideAbandoned, Finish, Publish
  <2>2. Ok(t)
    <3>1. CASE Finish(t) \/ DecideAbandoned(t)
      BY ZenonT(60), <3>1 DEF Finish, DecideAbandoned
    <3>2. CASE ~Finish(t) /\ ~DecideAbandoned(t)
      BY ZenonT(150), <1>2, <3>2
         DEF Poster, PostCheck, PostSubmit, PostCount, PartFinished, SealIfIdle, Claim,
             Publish
    <3> QED
      BY ZenonT(60), <3>1, <3>2
  <2> QED
    BY ZenonT(60), <1>b, <2>1, <2>2
<1>3. ASSUME ProgressThread PROVE Goal
  <2>1. \A u \in Threads : u # Progress => Same(u)
    BY ZenonT(90), <1>3
       DEF ProgressThread, ProgressStop, DrainBegin, DrainNext, DrainEnd, ReapScan,
           ReapStop, ReapClaim, ReapFail, ReapNext, PollTransports, HandleEvent,
           EventsDone, DecideCompleted, SendHandoff
  <2>2. Ok(Progress)
    BY ZenonT(90), <1>3, <1>t
       DEF ProgressThread, ProgressStop, DrainBegin, DrainNext, DrainEnd, ReapScan,
           ReapStop, ReapClaim, ReapFail, ReapNext, PollTransports, HandleEvent,
           EventsDone, DecideCompleted, SendHandoff
  <2> QED
    BY ZenonT(60), <1>b, <1>t, <2>1, <2>2
<1>4. ASSUME \/ \E r \in Requests : Cancel(r) \/ DependencySettles(r)
             \/ PollCompletions \/ Closer
             \/ \E p \in Peers : RemovePeer(p) \/ RemoveStop(p) \/ PeerGoes(p)
             \/ \E o \in Ops : TransportCompletes(o)
      PROVE  Goal
  BY ZenonT(60), <1>a, <1>4
     DEF Cancel, DependencySettles, PollCompletions, Closer, CloseBegin, CloseTimeout,
         CloseDrained, CloseJoin, SetClosing, RemovePeer, RemoveStop, PeerGoes,
         TransportCompletes
<1>5. ASSUME UNCHANGED vars PROVE Goal
  BY ZenonT(60), <1>a, <1>5 DEF vars
<1> QED
  BY ZenonT(90), <1>c, <1>1, <1>2, <1>3, <1>4, <1>5 DEF Next

\* progress() gets to claim a request from its last part or its last completion.
LEMMA LastMoves ==
    ASSUME TypeOK, [Next]_vars
    PROVE  pc'[Progress] \in {"claim", "decide"} =>
               \/ /\ pc[Progress] \in {"claim", "decide"}
                  /\ cur'[Progress] = cur[Progress] /\ phase' = phase
               \/ SealIfIdle(Progress)
               \/ \E o \in Ops : HandleEvent(o)
<1> DEFINE Goal == pc'[Progress] \in {"claim", "decide"} =>
               \/ /\ pc[Progress] \in {"claim", "decide"}
                  /\ cur'[Progress] = cur[Progress] /\ phase' = phase
               \/ SealIfIdle(Progress)
               \/ \E o \in Ops : HandleEvent(o)
<1>a. ASSUME NEW t \in Threads, SealIfIdle(t) PROVE Goal
  <2>1. t # Progress => pc'[Progress] = pc[Progress] /\ cur'[Progress] = cur[Progress]
    BY ZenonT(60), <1>a DEF SealIfIdle, Goto, Resume, TypeOK, ThreadTypes, Threads
  <2> QED
    BY ZenonT(60), <1>a, <2>1 DEF SealIfIdle
<1>b. phase \notin {"claim", "decide"} /\ Progress \in Threads /\ Progress \notin Requests
  BY ZenonT(60), RequestsAssumption DEF TypeOK, ThreadTypes, Threads
<1> USE DEF TypeOK, ThreadTypes, Threads, Goto, Resume, data, engine, world,
            threadVars, locals, reqVars, outVars, peerVars, reapVars
<1>1. ASSUME NEW r \in Requests, Submitter(r) PROVE Goal
  BY ZenonT(90), <1>1, <1>a, <1>b
     DEF Submitter, Enter, CheckBound, Admit, Prepare, PostNext, Return
<1>2. ASSUME NEW t \in Threads, Poster(t) PROVE Goal
  BY ZenonT(150), <1>2, <1>a, <1>b
     DEF Poster, PostCheck, PostSubmit, PostCount, PartFinished, Claim,
         DecideAbandoned, Finish, Publish
<1>3. ASSUME ProgressThread PROVE Goal
  BY ZenonT(90), <1>3, <1>a, <1>b
     DEF ProgressThread, ProgressStop, DrainBegin, DrainNext, DrainEnd, ReapScan,
         ReapStop, ReapClaim, ReapFail, ReapNext, PollTransports, EventsDone,
         DecideCompleted, SendHandoff
<1>4. ASSUME \/ \E r \in Requests : Cancel(r) \/ DependencySettles(r)
             \/ PollCompletions \/ Closer
             \/ \E p \in Peers : RemovePeer(p) \/ RemoveStop(p) \/ PeerGoes(p)
             \/ \E o \in Ops : TransportCompletes(o)
      PROVE  Goal
  BY ZenonT(60), <1>4, <1>a, <1>b
     DEF Cancel, DependencySettles, PollCompletions, Closer, CloseBegin, CloseTimeout,
         CloseDrained, CloseJoin, SetClosing, RemovePeer, RemoveStop, PeerGoes,
         TransportCompletes
<1>5. ASSUME UNCHANGED vars PROVE Goal
  BY ZenonT(60), <1>5 DEF vars
<1> QED
  BY ZenonT(90), <1>1, <1>2, <1>3, <1>4, <1>5 DEF Next

\* An unsealed request's last completion finds every sub-operation counted.
LEMMA LastUnsealed ==
    ASSUME TypeOK, CountInv, NEW o \in Ops, NEW x \in Requests, x = o[1][1], x \notin sealed,
           HandleEvent(o), pc'[Progress] = "claim"
    PROVE  \A q \in OpsOf(x) : op'[q] \in {"doneOk", "doneErr"}
<1>1. /\ op[o] \in {"pollOk", "pollErr"} /\ IsLast(x)
      /\ op' = [op EXCEPT ![o] = IF @ = "pollOk" THEN "doneOk" ELSE "doneErr"]
  BY ZenonT(60) DEF HandleEvent, Goto, TypeOK, ThreadTypes, Threads
<1> DEFINE D == Done(x) \cup {o}
<1>2. /\ D \in SUBSET OpsOf(x) /\ o \notin Done(x)
      /\ IsFiniteSet(Done(x)) /\ IsFiniteSet(OpsOf(x))
  BY ZenonT(60), <1>1, OpsFinite DEF Done, OpsOf
<1>3. Cardinality(D) = completed[x] + 1
  <2>1. completed[x] = Cardinality(Done(x))
    BY ZenonT(60) DEF CountInv, CompletedCounted
  <2> QED
    BY ZenonT(60), <1>2, <2>1, FS_AddElement
<1>4. Cardinality(D) >= Cardinality(OpsOf(x))
  BY ZenonT(60), <1>1, <1>3 DEF IsLast
<1>5. \A q \in OpsOf(x) : q \in D
  <2> HIDE DEF D
  <2>1. Cardinality(D) <= Cardinality(OpsOf(x)) /\ Cardinality(D) \in Nat
           /\ Cardinality(OpsOf(x)) \in Nat
    BY ZenonT(60), <1>2, FS_Subset, FS_CardinalityType
  <2> QED
    BY SMTT(60), <1>2, <1>4, <2>1, FS_Subset
<1> QED
  BY ZenonT(60), <1>1, <1>5 DEF Done, OpsOf, TypeOK, PartTypes

\* What is given up stays so, and what is whole stays whole.
LEMMA WholeStays ==
    ASSUME TypeOK, [Next]_vars, NEW r \in Requests
    PROVE  (Abandoning(r) => Abandoning(r)') /\ (Whole(r) => Whole(r)')
<1>1. Terminal(r) => Terminal(r)'
  BY ZenonT(60), TerminalStays DEF Terminal
<1> QED
  BY ZenonT(60), <1>1, OpMoves, GivenUpStays DEF Abandoning, Whole, OpsOf, OpMove

\* A request comes to have succeeded in Finish.
LEMMA SucceededMoves ==
    ASSUME TypeOK, [Next]_vars
    PROVE  \A x \in Requests : state'[x] = "Succeeded" =>
               \/ state[x] = "Succeeded"
               \/ \E t \in Threads : /\ Finish(t) /\ cur[t][1] = x /\ ~Terminal(x)
                                     /\ verdict[t] = "succeeded"
<1> SUFFICES ASSUME NEW x \in Requests, state'[x] = "Succeeded", ~Terminal(x)
             PROVE  \E t \in Threads : /\ Finish(t) /\ cur[t][1] = x
                                       /\ verdict[t] = "succeeded"
  BY ZenonT(60), TerminalStays
<1>1. Terminal(x)'
  BY ZenonT(60) DEF Terminal, TerminalStates
<1>2. ~ReapFail(x)
  BY ZenonT(60) DEF ReapFail, TypeOK, RequestTypes
<1>3. PICK t \in Threads : Finish(t) /\ cur[t][1] = x
  BY ZenonT(60), <1>1, <1>2, TerminalMoves
<1>4. Outcome[verdict[t]] = "Succeeded"
  BY ZenonT(60), <1>3 DEF Finish, TypeOK, RequestTypes
<1>5. verdict[t] = "succeeded"
  <2>1. verdict[t] \in {"succeeded", "failed", "cancelled"}
    BY ZenonT(60) DEF TypeOK, ThreadTypes
  <2> QED
    BY SMTT(60), <1>4, <2>1 DEF Outcome
<1> QED
  BY ZenonT(60), <1>3, <1>5

\* Every step keeps successes whole, and what is said of a request true.
LEMMA WholeStep ==
    ASSUME QuietInv, OwnInv, WholeInv, [Next]_vars
    PROVE  WholeInv'
<1>0. /\ TypeOK /\ HandsInv /\ CountInv
      /\ OneOwner /\ OneClaim /\ PhaseFits
      /\ ErrorsStick /\ SealedGivenUp /\ PostedPrepared /\ LastIsWhole /\ VerdictIsTrue
      /\ ToldSucceeds /\ SucceededTold
  BY ZenonT(60) DEF QuietInv, OwnInv, WholeInv
<1>1. /\ DOMAIN pc = Threads /\ DOMAIN cur = Threads /\ DOMAIN verdict = Threads
      /\ Progress \in Threads /\ \A t \in Threads : cur[t][1] \in Requests
      /\ \A o \in Ops : o[1][1] \in Requests /\ o[1][2] \in Lanes /\ o[1] = <<o[1][1], o[1][2]>>
      /\ handoff \subseteq Requests /\ sealed' \subseteq Requests
  <2>1. TypeOK'
    BY ZenonT(60), <1>0, TypeStep
  <2>2. \A o \in Ops : o[1][1] \in Requests /\ o[1][2] \in Lanes /\ o[1] = <<o[1][1], o[1][2]>>
    BY SMTT(60) DEF Ops, Parts
  <2> QED
    BY ZenonT(60), <1>0, <2>1, <2>2, CurType DEF TypeOK, ThreadTypes, RequestTypes, Threads
<1>2. err \subseteq err' /\ cancel \subseteq cancel'
  BY ZenonT(60), <1>0, GivenUpStays
<1>3. ErrorsStick'
  <2> SUFFICES ASSUME NEW o \in Ops, op'[o] = "doneErr" PROVE o[1][1] \in err'
    BY ZenonT(60) DEF ErrorsStick
  <2>1. CASE op[o] = "doneErr"
    BY ZenonT(60), <1>0, <1>2, <2>1 DEF ErrorsStick
  <2>2. ASSUME NEW q \in Ops, HandleEvent(q), op[o] # "doneErr" PROVE o[1][1] \in err'
    BY ZenonT(60), <1>0, <2>2 DEF HandleEvent, TypeOK, PartTypes
  <2> QED
    BY ZenonT(60), <1>0, <2>1, <2>2, CompletedMoves
<1>4. SealedGivenUp'
  <2> SUFFICES ASSUME NEW x \in sealed' PROVE Abandoning(x)'
    BY ZenonT(60) DEF SealedGivenUp
  <2>1. CASE x \in sealed
    BY ZenonT(60), <1>0, <1>1, <2>1, WholeStays DEF SealedGivenUp
  <2>2. CASE ReapFail(x)
    <3>1. x \in err' \/ Terminal(x)
      BY ZenonT(60), <2>2 DEF ReapFail
    <3> QED
      BY ZenonT(60), <1>0, <1>1, <3>1, WholeStays DEF Abandoning
  <2>3. ASSUME NEW t \in Threads, SealIfIdle(t), cur[t][1] = x, x \notin sealed
        PROVE  Abandoning(x)'
    <3>1. Abandoning(x)
      BY ZenonT(60), <2>3 DEF SealIfIdle
    <3> QED
      BY ZenonT(60), <1>0, <1>1, <3>1, WholeStays
  <2> QED
    BY ZenonT(60), <1>0, <2>1, <2>2, <2>3, SealedMoves
<1>5. PostedPrepared'
  <2> SUFFICES ASSUME NEW o \in Ops, op'[o] # "queued" PROVE pc'[o[1][1]] \notin Unprepared
    BY ZenonT(60) DEF PostedPrepared, Unprepared
  <2>1. PICK x \in Requests, l \in Lanes : x = o[1][1] /\ o[1] = <<x, l>>
    BY ZenonT(60), <1>1
  <2>2. pc[x] \notin Unprepared
    <3>1. ASSUME NEW u \in Threads, pc[u] \in Posting, cur[u] = o[1]
          PROVE  pc[x] \notin Unprepared
      <4>1. place[<<x, l>>] = "held"
        BY ZenonT(60), <1>0, <2>1, <3>1 DEF HandsInv, PartsAreHeld
      <4> QED
        BY ZenonT(60), <1>0, <4>1 DEF HandsInv, PartsAreBuilt
    <3> QED
      BY ZenonT(60), <1>0, <2>1, <3>1, QueuedMoves DEF PostedPrepared
  <2>3. Prepare(x) => pc'[x] \notin Unprepared
    BY ZenonT(60), <2>2 DEF Prepare, Unprepared
  <2> QED
    BY ZenonT(60), <1>0, <2>1, <2>2, <2>3, PcMoves
<1>6. LastIsWhole'
  <2> SUFFICES ASSUME pc'[Progress] \in {"claim", "decide"}, phase' = "event"
               PROVE  Abandoning(cur[Progress][1])' \/ Whole(cur[Progress][1])'
    BY ZenonT(60) DEF LastIsWhole
  <2>1. ASSUME pc[Progress] \in {"claim", "decide"}, cur'[Progress] = cur[Progress],
               phase' = phase
        PROVE  Abandoning(cur[Progress][1])' \/ Whole(cur[Progress][1])'
    <3>1. PICK x \in Requests : x = cur[Progress][1] /\ x = cur'[Progress][1]
      BY ZenonT(60), <1>1, <2>1
    <3>2. Abandoning(x) \/ Whole(x)
      BY ZenonT(60), <1>0, <2>1, <3>1 DEF LastIsWhole
    <3>3. Abandoning(x)' \/ Whole(x)'
      BY ZenonT(60), <1>0, <3>2, WholeStays
    <3> QED
      BY ZenonT(60), <3>1, <3>3 DEF Abandoning, Terminal, Whole, OpsOf
  <2>2. ~SealIfIdle(Progress)
    BY ZenonT(60), <1>0 DEF SealIfIdle, PhaseFits
  <2>3. ASSUME NEW o \in Ops, HandleEvent(o)
        PROVE  Abandoning(cur[Progress][1])' \/ Whole(cur[Progress][1])'
    <3>1. PICK x \in Requests : x = o[1][1]
      BY ZenonT(60), <1>1
    <3>2. cur'[Progress][1] = x /\ pc'[Progress] = "claim"
      BY ZenonT(60), <1>1, <2>3, <3>1 DEF HandleEvent, Goto
    <3>3. CASE x \in sealed
      <4>1. Abandoning(x)'
        BY ZenonT(60), <1>0, <3>3, WholeStays DEF SealedGivenUp
      <4> QED
        BY ZenonT(60), <3>2, <4>1 DEF Abandoning, Terminal
    <3>4. CASE x \notin sealed /\ x \notin err'
      <4>1. \A q \in OpsOf(x) : op'[q] \in {"doneOk", "doneErr"}
        BY ZenonT(60), <1>0, <2>3, <3>1, <3>2, <3>4, LastUnsealed
      <4>2. \A q \in OpsOf(x) : op'[q] # "doneErr"
        BY ZenonT(60), <1>3, <3>4 DEF ErrorsStick, OpsOf
      <4> QED
        BY ZenonT(60), <3>2, <4>1, <4>2 DEF Whole, OpsOf
    <3>5. CASE x \in err'
      BY ZenonT(60), <3>2, <3>5 DEF Abandoning
    <3> QED
      BY ZenonT(60), <3>3, <3>4, <3>5
  <2> QED
    BY ZenonT(60), <1>0, <2>1, <2>2, <2>3, LastMoves
<1>7. VerdictIsTrue'
  <2> SUFFICES ASSUME NEW u \in Threads, pc'[u] \in {"handoff", "end"}
               PROVE  /\ verdict'[u] = "succeeded" => Whole(cur[u][1])'
                      /\ verdict'[u] = "cancelled" => cur'[u][1] \in cancel'
                      /\ pc'[u] = "handoff" => verdict'[u] = "succeeded"
                      /\ pc'[u] = "end" /\ verdict'[u] = "succeeded" => cur'[u][1] \in handoff'
    BY ZenonT(60) DEF VerdictIsTrue
  <2>0. PICK x \in Requests : x = cur[u][1]
    BY ZenonT(60), <1>1
  <2>a. handoff \subseteq handoff'
    BY ZenonT(60), <1>0, HandoffMoves DEF SendHandoff
  <2>b. ASSUME cur'[u][1] = x, Whole(x) PROVE Whole(cur[u][1])'
    <3>1. Whole(x)'
      BY ZenonT(60), <1>0, <2>b, WholeStays
    <3> QED
      BY ZenonT(60), <2>b, <3>1 DEF Whole, OpsOf
  <2>1. CASE pc[u] = pc'[u] /\ cur'[u] = cur[u] /\ verdict'[u] = verdict[u]
    BY ZenonT(60), <1>0, <1>2, <2>0, <2>1, <2>a, <2>b DEF VerdictIsTrue
  <2>2. CASE DecideAbandoned(u)
    <3>1. /\ pc'[u] = "end" /\ cur' = cur /\ cancel' = cancel
          /\ verdict'[u] = IF x \in cancel THEN "cancelled" ELSE "failed"
      BY ZenonT(60), <1>1, <2>0, <2>2 DEF DecideAbandoned, Goto, data, reqVars
    <3> QED
      BY ZenonT(60), <2>0, <3>1
  <2>3. CASE u = Progress /\ DecideCompleted
    <3>1. /\ pc[u] = "decide" /\ phase = "event" /\ cur' = cur /\ cancel' = cancel
          /\ verdict'[u] = IF x \in cancel THEN "cancelled"
                           ELSE IF x \in err THEN "failed" ELSE "succeeded"
          /\ verdict'[u] # "succeeded" => pc'[u] = "end"
          /\ verdict'[u] = "succeeded" => pc'[u] = "handoff"
      BY ZenonT(60), <1>1, <2>0, <2>3 DEF DecideCompleted, Goto, data, reqVars
    <3>2. Claims(u, x) /\ ~Terminal(x)
      BY ZenonT(60), <1>0, <2>0, <3>1 DEF Claims, Deciding, OneOwner
    <3>3. verdict'[u] = "succeeded" => Whole(x)
      BY ZenonT(60), <1>0, <2>0, <2>3, <3>1, <3>2 DEF LastIsWhole, Abandoning
    <3> QED
      BY ZenonT(60), <2>0, <2>b, <3>1, <3>3
  <2>4. CASE u = Progress /\ SendHandoff
    <3>1. /\ pc[u] = "handoff" /\ pc'[u] = "end" /\ cur' = cur /\ verdict' = verdict
          /\ x \in handoff'
      BY ZenonT(60), <1>1, <2>0, <2>4 DEF SendHandoff, Goto, locals
    <3>2. verdict[u] = "succeeded" /\ Whole(x)
      BY ZenonT(60), <1>0, <2>0, <3>1 DEF VerdictIsTrue
    <3> QED
      BY ZenonT(60), <2>0, <2>b, <3>1, <3>2
  <2> QED
    BY ZenonT(60), <1>0, <2>1, <2>2, <2>3, <2>4, VerdictMoves
<1>8. ToldSucceeds'
  <2> SUFFICES ASSUME NEW r \in handoff'
               PROVE  /\ Whole(r)'
                      /\ \/ state'[r] = "Succeeded"
                         \/ \E t \in Threads : /\ Claims(t, r)' /\ pc'[t] = "end"
                                               /\ verdict'[t] = "succeeded"
    BY ZenonT(60) DEF ToldSucceeds
  <2>1. CASE r \in handoff
    <3>0. r \in Requests
      BY ZenonT(60), <1>1, <2>1
    <3>1. Whole(r)'
      BY ZenonT(60), <1>0, <2>1, <3>0, WholeStays DEF ToldSucceeds
    <3>2. CASE state[r] = "Succeeded"
      <4>1. state'[r] = "Succeeded"
        BY ZenonT(60), <1>0, <3>0, <3>2, TerminalStays DEF Terminal, TerminalStates
      <4> QED
        BY ZenonT(60), <3>1, <4>1
    <3>3. ASSUME NEW t \in Threads, Claims(t, r), pc[t] = "end", verdict[t] = "succeeded"
          PROVE  \/ state'[r] = "Succeeded"
                 \/ Claims(t, r)' /\ pc'[t] = "end" /\ verdict'[t] = "succeeded"
      <4>1. CASE pc'[t] = "end" /\ cur'[t] = cur[t] /\ verdict'[t] = verdict[t]
        BY ZenonT(60), <3>3, <4>1 DEF Claims
      <4>2. CASE Finish(t)
        <5>1. ~Terminal(r) /\ cur[t][1] = r
          BY ZenonT(60), <1>0, <3>0, <3>3 DEF OneOwner, Claims
        <5>a. state' = [state EXCEPT ![r] = Outcome[verdict[t]]]
          BY ZenonT(60), <4>2, <5>1 DEF Finish
        <5>2. state'[r] = Outcome["succeeded"]
          BY ZenonT(60), <1>0, <3>0, <3>3, <5>a DEF TypeOK, RequestTypes
        <5> QED
          BY SMTT(60), <5>2 DEF Outcome
      <4> QED
        BY ZenonT(60), <1>0, <3>3, <4>1, <4>2, VerdictMoves
    <3> QED
      BY ZenonT(60), <1>0, <2>1, <3>1, <3>2, <3>3 DEF ToldSucceeds
  <2>2. CASE r \notin handoff
    <3>1. SendHandoff
      BY ZenonT(60), <1>0, <2>2, HandoffMoves
    <3>2. /\ pc[Progress] = "handoff" /\ pc'[Progress] = "end" /\ cur' = cur
          /\ verdict' = verdict /\ r = cur[Progress][1]
      BY ZenonT(60), <1>1, <2>2, <3>1 DEF SendHandoff, Goto, locals
    <3>3. verdict[Progress] = "succeeded" /\ Whole(r) /\ r \in Requests
      BY ZenonT(60), <1>0, <1>1, <3>2 DEF VerdictIsTrue
    <3>4. Whole(r)'
      BY ZenonT(60), <1>0, <3>3, WholeStays
    <3>5. Claims(Progress, r)'
      BY ZenonT(60), <3>2 DEF Claims, Deciding
    <3> QED
      BY ZenonT(60), <1>1, <3>2, <3>3, <3>4, <3>5
  <2> QED
    BY ZenonT(60), <2>1, <2>2
<1>9. SucceededTold'
  <2> SUFFICES ASSUME NEW x \in Requests, state'[x] = "Succeeded" PROVE x \in handoff'
    BY ZenonT(60) DEF SucceededTold
  <2>1. handoff \subseteq handoff'
    BY ZenonT(60), <1>0, HandoffMoves DEF SendHandoff
  <2>2. ASSUME NEW t \in Threads, Finish(t), cur[t][1] = x, verdict[t] = "succeeded"
        PROVE  x \in handoff
    BY ZenonT(60), <1>0, <2>2 DEF Finish, VerdictIsTrue
  <2> QED
    BY ZenonT(60), <1>0, <2>1, <2>2, SucceededMoves DEF SucceededTold
<1> QED
  BY ZenonT(60), <1>3, <1>4, <1>5, <1>6, <1>7, <1>8, <1>9 DEF WholeInv

-----------------------------------------------------------------------------
(* The completion queue.                                                   *)

Elems(s)    == {s[i] : i \in 1 .. Len(s)}
Distinct(s) == \A i, j \in 1 .. Len(s) : s[i] = s[j] => i = j

\* What is appended is in the list with all that was there.
LEMMA ListAppend ==
    ASSUME NEW S, NEW s \in Seq(S), NEW x \in S
    PROVE  /\ Append(s, x) \in Seq(S) /\ Append(s, x) # <<>>
           /\ Elems(Append(s, x)) = Elems(s) \cup {x}
           /\ Distinct(s) /\ x \notin Elems(s) => Distinct(Append(s, x))
<1>1. /\ Append(s, x) \in Seq(S) /\ Append(s, x) # <<>> /\ Len(s) \in Nat
      /\ Len(Append(s, x)) = Len(s) + 1 /\ Append(s, x)[Len(s) + 1] = x
      /\ \A i \in 1 .. Len(s) : Append(s, x)[i] = s[i]
  BY SMTT(60)
<1>2. Elems(Append(s, x)) = Elems(s) \cup {x}
  BY SMTT(60), <1>1 DEF Elems
<1>3. ASSUME Distinct(s), x \notin Elems(s) PROVE Distinct(Append(s, x))
  BY SMTT(60), <1>1, <1>3 DEF Distinct, Elems
<1> QED
  BY <1>1, <1>2, <1>3

\* The first of a list goes, and the others stay.
LEMMA ListTail ==
    ASSUME NEW S, NEW s \in Seq(S), s # <<>>
    PROVE  /\ Tail(s) \in Seq(S) /\ Head(s) \in S
           /\ Elems(s) = Elems(Tail(s)) \cup {Head(s)}
           /\ Distinct(s) => Distinct(Tail(s)) /\ Head(s) \notin Elems(Tail(s))
<1>1. /\ Tail(s) \in Seq(S) /\ Head(s) \in S /\ Len(s) \in Nat /\ Len(s) >= 1
      /\ Len(Tail(s)) = Len(s) - 1 /\ Head(s) = s[1]
      /\ \A i \in 1 .. Len(s) - 1 : Tail(s)[i] = s[i + 1]
  BY SMTT(60)
<1>2. Elems(s) = Elems(Tail(s)) \cup {Head(s)}
  <2>1. \A i \in 2 .. Len(s) : i - 1 \in 1 .. Len(s) - 1 /\ s[i] = Tail(s)[i - 1]
    BY SMTT(60), <1>1
  <2>2. ASSUME NEW x \in Elems(s) PROVE x \in Elems(Tail(s)) \cup {Head(s)}
    <3>1. PICK i \in 1 .. Len(s) : x = s[i]
      BY ZenonT(150) DEF Elems
    <3>2. i = 1 \/ i \in 2 .. Len(s)
      BY SMTT(120), <1>1
    <3>3. CASE i = 1
      BY ZenonT(150), <1>1, <3>1, <3>3
    <3>4. CASE i \in 2 .. Len(s)
      <4>1. i - 1 \in 1 .. Len(Tail(s)) /\ x = Tail(s)[i - 1]
        BY ZenonT(150), <1>1, <2>1, <3>1, <3>4
      <4> QED
        BY ZenonT(150), <4>1 DEF Elems
    <3> QED
      BY <3>2, <3>3, <3>4
  <2>3. Elems(Tail(s)) \cup {Head(s)} \subseteq Elems(s)
    BY SMTT(60), <1>1 DEF Elems
  <2> QED
    BY <2>2, <2>3
<1>3. ASSUME Distinct(s) PROVE Distinct(Tail(s)) /\ Head(s) \notin Elems(Tail(s))
  BY SMTT(60), <1>1, <1>3 DEF Distinct, Elems
<1> QED
  BY <1>1, <1>2, <1>3

\* A list is its first n elements and the rest.
First(s, n) == {s[i] : i \in 1 .. n}
Rest(s, n)  == SubSeq(s, n + 1, Len(s))
LEMMA ListSplit ==
    ASSUME NEW S, NEW s \in Seq(S), NEW n \in 1 .. Len(s)
    PROVE  /\ Elems(s) = First(s, n) \cup Elems(Rest(s, n))
           /\ Distinct(s) => Distinct(Rest(s, n)) /\ First(s, n) \cap Elems(Rest(s, n)) = {}
<1>0. PICK r, F : r = SubSeq(s, n + 1, Len(s)) /\ F = {s[i] : i \in 1 .. n}
  BY ZenonT(150)
<1>1. /\ Len(s) \in Nat /\ r \in Seq(S) /\ Len(r) = Len(s) - n
      /\ \A i \in 1 .. Len(s) - n : r[i] = s[i + n]
  BY SMTT(60), <1>0
<1>2. \A i \in n + 1 .. Len(s) : i - n \in 1 .. Len(s) - n /\ s[i] = r[i - n]
  BY SMTT(60), <1>1
<1>4. Elems(s) = F \cup Elems(r)
  <2>1. ASSUME NEW x \in Elems(s) PROVE x \in F \cup Elems(r)
    <3>1. PICK i \in 1 .. Len(s) : x = s[i]
      BY ZenonT(150) DEF Elems
    <3>2. i \in 1 .. n \/ i \in n + 1 .. Len(s)
      BY SMTT(120), <1>1
    <3>3. CASE i \in 1 .. n
      BY ZenonT(150), <1>0, <3>1, <3>3
    <3>4. CASE i \in n + 1 .. Len(s)
      <4>1. i - n \in 1 .. Len(r) /\ x = r[i - n]
        BY ZenonT(150), <1>1, <1>2, <3>1, <3>4
      <4> QED
        BY ZenonT(150), <4>1 DEF Elems
    <3> QED
      BY <3>2, <3>3, <3>4
  <2>2. F \cup Elems(r) \subseteq Elems(s)
    BY SMTT(60), <1>0, <1>1 DEF Elems
  <2> QED
    BY <2>1, <2>2
<1>5. ASSUME Distinct(s) PROVE Distinct(r) /\ F \cap Elems(r) = {}
  <2>1. Distinct(r)
    BY SMTT(60), <1>1, <1>5 DEF Distinct
  <2>2. \A f \in F : f \notin Elems(r)
    BY SMTT(60), <1>0, <1>1, <1>5 DEF Distinct, Elems
  <2> QED
    BY <2>1, <2>2
<1> QED
  BY <1>0, <1>4, <1>5 DEF First, Rest

\* Collected, pushed out or still queued: a reported request is in one of the
\* three, and in the queue once.
ListsApart ==
    /\ Distinct(completedQ)
    /\ Elems(completedQ) \cap polled = {} /\ Elems(completedQ) \cap dropped = {}
    /\ polled \cap dropped = {}
\* A request is reported by the one thread that ended it, and only then.
Reports(t, r) == pc[t] = "publish" /\ cur[t][1] = r
ReportedEnded  == \A r \in Requests : r \in Published => Terminal(r)
ReportersOwn   == \A r \in Requests, t \in Threads : Reports(t, r) =>
                      /\ Terminal(r) /\ r \notin Published
                      /\ \A u \in Threads : Reports(u, r) => u = t
EndedReported  == \A r \in Requests : Terminal(r) =>
                      r \in Published \/ \E t \in Threads : Reports(t, r)
ReportInv == ListsApart /\ ReportedEnded /\ ReportersOwn /\ EndedReported

\* Publish adds its request to what is reported, and pushes out one at most.
LEMMA PublishEffect ==
    ASSUME TypeOK, ListsApart, NEW t \in Threads, Publish(t), cur[t][1] \notin Published
    PROVE  ListsApart' /\ Published' = Published \cup {cur[t][1]}
<1>0. PICK x \in Requests : x = cur[t][1]
  BY ZenonT(60), CurType DEF TypeOK
<1>1. Published = Elems(completedQ) \cup polled \cup dropped
      /\ Published' = Elems(completedQ') \cup polled' \cup dropped'
  BY ZenonT(60) DEF Published, Elems
<1>2. PICK q \in Seq(Requests) : q = Append(completedQ, x)
  BY ZenonT(60), ListAppend DEF TypeOK, EngineTypes
<1>3. /\ q # <<>> /\ Elems(q) = Elems(completedQ) \cup {x} /\ Distinct(q)
  BY ZenonT(60), <1>0, <1>1, <1>2, ListAppend DEF TypeOK, EngineTypes, ListsApart
<1>4. /\ Elems(q) = Elems(Tail(q)) \cup {Head(q)}
      /\ Distinct(Tail(q)) /\ Head(q) \notin Elems(Tail(q))
  BY ZenonT(60), <1>3, ListTail
<1>5. /\ polled' = polled
      /\ \/ completedQ' = completedQ /\ dropped' = dropped \cup {x}
         \/ completedQ' = q /\ dropped' = dropped
         \/ completedQ' = Tail(q) /\ dropped' = dropped \cup {Head(q)}
  BY ZenonT(60), <1>0, <1>2 DEF Publish
<1>6. x \notin Elems(completedQ) /\ x \notin polled /\ x \notin dropped
  BY ZenonT(60), <1>0, <1>1
<1>7. /\ Distinct(completedQ)
      /\ Elems(completedQ) \cap polled = {} /\ Elems(completedQ) \cap dropped = {}
      /\ polled \cap dropped = {}
  BY ZenonT(60) DEF ListsApart
<1>8. CASE completedQ' = completedQ /\ dropped' = dropped \cup {x}
  <2>1. Elems(completedQ') = Elems(completedQ) /\ Distinct(completedQ')
    BY ZenonT(60), <1>3, <1>4, <1>7, <1>8
  <2>2. /\ Elems(completedQ') \cap polled' = {} /\ Elems(completedQ') \cap dropped' = {}
        /\ polled' \cap dropped' = {}
        /\ Elems(completedQ') \cup polled' \cup dropped'
              = Elems(completedQ) \cup polled \cup dropped \cup {x}
    BY SMTT(60), <1>5, <1>6, <1>7, <1>8, <2>1
  <2> QED
    BY ZenonT(60), <1>0, <1>1, <2>1, <2>2 DEF ListsApart
<1>9. CASE completedQ' = q /\ dropped' = dropped
  <2>1. Elems(completedQ') = Elems(completedQ) \cup {x} /\ Distinct(completedQ')
    BY ZenonT(60), <1>3, <1>4, <1>7, <1>9
  <2>2. /\ Elems(completedQ') \cap polled' = {} /\ Elems(completedQ') \cap dropped' = {}
        /\ polled' \cap dropped' = {}
        /\ Elems(completedQ') \cup polled' \cup dropped'
              = Elems(completedQ) \cup polled \cup dropped \cup {x}
    BY SMTT(60), <1>5, <1>6, <1>7, <1>9, <2>1
  <2> QED
    BY ZenonT(60), <1>0, <1>1, <2>1, <2>2 DEF ListsApart
<1>10. CASE completedQ' = Tail(q) /\ dropped' = dropped \cup {Head(q)}
  <2>1. /\ Elems(completedQ') \cup {Head(q)} = Elems(completedQ) \cup {x}
        /\ Head(q) \notin Elems(completedQ') /\ Distinct(completedQ')
    BY ZenonT(60), <1>3, <1>4, <1>7, <1>10
  <2>2. /\ Elems(completedQ') \cap polled' = {} /\ Elems(completedQ') \cap dropped' = {}
        /\ polled' \cap dropped' = {}
        /\ Elems(completedQ') \cup polled' \cup dropped'
              = Elems(completedQ) \cup polled \cup dropped \cup {x}
    BY SMTT(60), <1>5, <1>6, <1>7, <1>10, <2>1
  <2> QED
    BY ZenonT(60), <1>0, <1>1, <2>1, <2>2 DEF ListsApart
<1> QED
  BY ZenonT(60), <1>5, <1>8, <1>9, <1>10

\* poll_completions moves requests within what is reported.
LEMMA PollEffect ==
    ASSUME TypeOK, ListsApart, PollCompletions
    PROVE  ListsApart' /\ Published' = Published
<1>1. PICK n \in 1 .. Len(completedQ) :
           /\ polled' = polled \cup First(completedQ, n)
           /\ completedQ' = Rest(completedQ, n)
           /\ dropped' = dropped
  BY ZenonT(60) DEF PollCompletions, First, Rest
<1>2. PICK F : F = First(completedQ, n)
  OBVIOUS
<1>3. /\ Elems(completedQ) = F \cup Elems(completedQ')
      /\ Distinct(completedQ') /\ F \cap Elems(completedQ') = {}
  BY ZenonT(60), <1>1, <1>2, ListSplit DEF TypeOK, EngineTypes, ListsApart
<1>4. polled' = polled \cup F
  BY ZenonT(60), <1>1, <1>2
<1>5. /\ Elems(completedQ) \cap polled = {} /\ Elems(completedQ) \cap dropped = {}
      /\ polled \cap dropped = {}
  BY ZenonT(60) DEF ListsApart
<1>6. Published = Elems(completedQ) \cup polled \cup dropped
      /\ Published' = Elems(completedQ') \cup polled' \cup dropped'
  BY ZenonT(60) DEF Published, Elems
<1>7. /\ Elems(completedQ') \cap polled' = {} /\ Elems(completedQ') \cap dropped' = {}
      /\ polled' \cap dropped' = {}
  BY SMTT(60), <1>1, <1>3, <1>4, <1>5
<1>8. Published' = Published
  BY SMTT(60), <1>1, <1>3, <1>4, <1>6
<1> QED
  BY ZenonT(60), <1>3, <1>7, <1>8 DEF ListsApart

\* The lists change where a thread publishes and where a caller collects.
LEMMA ListMoves ==
    ASSUME TypeOK, [Next]_vars
    PROVE  \/ UNCHANGED outVars
           \/ PollCompletions \/ \E t \in Threads : Publish(t)
<1> DEFINE Goal == UNCHANGED outVars \/ PollCompletions \/ \E t \in Threads : Publish(t)
<1> USE DEF TypeOK, Goto, Resume, data, engine, world, threadVars, locals, reqVars,
            outVars, peerVars, reapVars
<1>1. ASSUME NEW r \in Requests, Submitter(r) PROVE Goal
  BY ZenonT(60), <1>1
     DEF Submitter, Enter, CheckBound, Admit, Prepare, PostNext, Return
<1>2. ASSUME NEW t \in Threads, Poster(t) PROVE Goal
  BY ZenonT(60), <1>2
     DEF Poster, PostCheck, PostSubmit, PostCount, PartFinished, SealIfIdle, Claim,
         DecideAbandoned, Finish
<1>3. ASSUME ProgressThread PROVE Goal
  BY ZenonT(60), <1>3
     DEF ProgressThread, ProgressStop, DrainBegin, DrainNext, DrainEnd, ReapScan,
         ReapStop, ReapClaim, ReapFail, ReapNext, PollTransports, HandleEvent,
         EventsDone, DecideCompleted, SendHandoff
<1>4. ASSUME \/ \E r \in Requests : Cancel(r) \/ DependencySettles(r)
             \/ PollCompletions \/ Closer
             \/ \E p \in Peers : RemovePeer(p) \/ RemoveStop(p) \/ PeerGoes(p)
             \/ \E o \in Ops : TransportCompletes(o)
      PROVE  Goal
  BY ZenonT(60), <1>4
     DEF Cancel, DependencySettles, Closer, CloseBegin, CloseTimeout, CloseDrained,
         CloseJoin, SetClosing, RemovePeer, RemoveStop, PeerGoes, TransportCompletes
<1>5. ASSUME UNCHANGED vars PROVE Goal
  BY ZenonT(60), <1>5 DEF vars
<1> QED
  BY ZenonT(90), <1>1, <1>2, <1>3, <1>4, <1>5 DEF Next

\* A thread gets to report a request by ending it, and leaves by publishing it.
LEMMA ReportMoves ==
    ASSUME TypeOK, [Next]_vars
    PROVE  \A u \in Threads :
               \/ /\ pc'[u] = "publish" <=> pc[u] = "publish"
                  /\ pc[u] = "publish" => cur'[u] = cur[u]
               \/ Finish(u) \/ Publish(u)
               \/ u = Progress /\ \E r \in Requests : ReapFail(r)
<1> DEFINE Same(u) == /\ pc'[u] = "publish" <=> pc[u] = "publish"
                      /\ pc[u] = "publish" => cur'[u] = cur[u]
           Reaps == \E r \in Requests : ReapFail(r)
           Goal == \A u \in Threads :
                       Same(u) \/ Finish(u) \/ Publish(u) \/ (u = Progress /\ Reaps)
<1>a. ASSUME NEW t \in Threads, Finish(t) \/ Publish(t) PROVE Goal
  <2>1. \A u \in Threads : u # t => pc'[u] = pc[u] /\ cur'[u] = cur[u]
    BY ZenonT(60), <1>a DEF Finish, Publish, Goto, Resume, TypeOK, ThreadTypes
  <2> QED
    BY ZenonT(60), <1>a, <2>1
<1> USE DEF TypeOK, ThreadTypes, Threads,
            Goto, Resume, data, engine, world, threadVars, locals, reqVars,
            outVars, peerVars, reapVars
<1>1. ASSUME NEW r \in Requests, Submitter(r) PROVE Goal
  BY ZenonT(150), <1>1
     DEF Submitter, Enter, CheckBound, Admit, Prepare, PostNext, Return
<1>2. ASSUME NEW t \in Threads, Poster(t) PROVE Goal
  BY ZenonT(150), <1>a, <1>2
     DEF Poster, PostCheck, PostSubmit, PostCount, PartFinished, SealIfIdle, Claim,
         DecideAbandoned
<1>3. ASSUME ProgressThread PROVE Goal
  <2>1. \A u \in Threads : u # Progress => pc'[u] = pc[u] /\ cur'[u] = cur[u]
    BY ZenonT(90), <1>3
       DEF ProgressThread, ProgressStop, DrainBegin, DrainNext, DrainEnd, ReapScan,
           ReapStop, ReapClaim, ReapFail, ReapNext, PollTransports, HandleEvent,
           EventsDone, DecideCompleted, SendHandoff
  <2>2. Same(Progress) \/ Reaps
    BY ZenonT(150), <1>3
       DEF ProgressThread, ProgressStop, DrainBegin, DrainNext, DrainEnd, ReapScan,
           ReapStop, ReapClaim, ReapNext, PollTransports, HandleEvent, EventsDone,
           DecideCompleted, SendHandoff
  <2> QED
    BY ZenonT(150), <2>1, <2>2
<1>4. ASSUME \/ \E r \in Requests : Cancel(r) \/ DependencySettles(r)
             \/ PollCompletions \/ Closer
             \/ \E p \in Peers : RemovePeer(p) \/ RemoveStop(p) \/ PeerGoes(p)
             \/ \E o \in Ops : TransportCompletes(o)
      PROVE  Goal
  BY ZenonT(60), <1>4
     DEF Cancel, DependencySettles, PollCompletions, Closer, CloseBegin, CloseTimeout,
         CloseDrained, CloseJoin, SetClosing, RemovePeer, RemoveStop, PeerGoes,
         TransportCompletes
<1>5. ASSUME UNCHANGED vars PROVE Goal
  BY ZenonT(60), <1>5 DEF vars
<1> QED
  BY ZenonT(90), <1>1, <1>2, <1>3, <1>4, <1>5 DEF Next

\* Every ending is reported by the thread that made it.
LEMMA ReportStep ==
    ASSUME TypeOK, OwnInv, ReportInv, [Next]_vars
    PROVE  ReportInv'
<1>0. /\ ListsApart /\ ReportedEnded /\ ReportersOwn /\ EndedReported /\ OneOwner
      /\ \A t \in Threads : cur[t][1] \in Requests
      /\ Requests \subseteq Threads /\ Progress \in Threads
      /\ DOMAIN pc = Threads /\ DOMAIN cur = Threads /\ DOMAIN state = Requests
      /\ phase # "publish"
  BY ZenonT(60), CurType
     DEF OwnInv, ReportInv, TypeOK, ThreadTypes, RequestTypes, Threads
<1> DEFINE Goal == ReportedEnded' /\ ReportersOwn' /\ EndedReported'
<1>1. UNCHANGED outVars => ListsApart' /\ Published' = Published
  BY ZenonT(60), <1>0 DEF outVars, ListsApart, Published, Elems, Distinct
<1>a. ASSUME NEW u \in Threads, NEW x \in Requests, ~Terminal(x), Published' = Published,
             \A y \in Requests : Terminal(y)' <=> Terminal(y) \/ y = x,
             \A v \in Threads, y \in Requests :
                 Reports(v, y)' <=> Reports(v, y) \/ (v = u /\ y = x)
      PROVE  Goal
  <2>1. x \notin Published /\ \A v \in Threads : ~Reports(v, x)
    BY ZenonT(60), <1>0, <1>a DEF ReportedEnded, ReportersOwn
  <2>2. ReportedEnded'
    BY ZenonT(60), <1>0, <1>a DEF ReportedEnded
  <2>3. ReportersOwn'
    <3> SUFFICES ASSUME NEW y \in Requests, NEW t \in Threads, Reports(t, y)'
                 PROVE  /\ Terminal(y)' /\ y \notin Published'
                        /\ \A v \in Threads : Reports(v, y)' => v = t
      BY ZenonT(60) DEF ReportersOwn
    <3>1. CASE y = x
      BY ZenonT(60), <1>a, <2>1, <3>1
    <3>2. CASE y # x
      BY ZenonT(60), <1>0, <1>a, <3>2 DEF ReportersOwn
    <3> QED
      BY ZenonT(60), <3>1, <3>2
  <2>4. EndedReported'
    BY ZenonT(60), <1>0, <1>a DEF EndedReported
  <2> QED
    BY ZenonT(60), <2>2, <2>3, <2>4
<1>2. ASSUME NEW t \in Threads, Finish(t) PROVE ListsApart' /\ Goal
  <2>0. PICK x \in Requests : x = cur[t][1]
    BY ZenonT(60), <1>0
  <2>1. ~Terminal(x)
    BY ZenonT(60), <1>0, <1>2, <2>0 DEF Finish, OneOwner, Claims, Deciding
  <2>2. /\ pc[t] = "end" /\ pc'[t] = "publish" /\ cur' = cur /\ UNCHANGED outVars
        /\ \A u \in Threads : u # t => pc'[u] = pc[u]
        /\ state' = [state EXCEPT ![x] = Outcome[verdict[t]]]
    BY ZenonT(60), <1>0, <1>2, <2>0, <2>1 DEF Finish, Goto, engine
  <2>3. Outcome[verdict[t]] \in TerminalStates
    BY SMTT(60) DEF TypeOK, ThreadTypes, Outcome, TerminalStates
  <2>4. \A y \in Requests : Terminal(y)' <=> Terminal(y) \/ y = x
    BY ZenonT(60), <1>0, <2>2, <2>3 DEF Terminal
  <2>5. \A v \in Threads, y \in Requests :
           Reports(v, y)' <=> Reports(v, y) \/ (v = t /\ y = x)
    BY ZenonT(60), <1>0, <2>0, <2>2 DEF Reports
  <2> QED
    BY ZenonT(60), <1>1, <1>a, <2>1, <2>2, <2>4, <2>5
<1>3. ASSUME NEW r \in Requests, ReapFail(r) PROVE ListsApart' /\ Goal
  <2>1. ~Terminal(r)
    BY ZenonT(60), <1>0, <1>3 DEF ReapFail, OneOwner
  <2>2. /\ pc[Progress] = "lost" /\ pc'[Progress] = "publish" /\ UNCHANGED outVars
        /\ cur'[Progress][1] = r
        /\ \A u \in Threads : u # Progress => pc'[u] = pc[u] /\ cur'[u] = cur[u]
        /\ state' = [state EXCEPT ![r] = "Failed"]
    BY ZenonT(60), <1>0, <1>3, <2>1 DEF ReapFail, Goto
  <2>3. \A y \in Requests : Terminal(y)' <=> Terminal(y) \/ y = r
    BY ZenonT(60), <1>0, <2>2 DEF Terminal, TerminalStates
  <2>4. \A v \in Threads, y \in Requests :
           Reports(v, y)' <=> Reports(v, y) \/ (v = Progress /\ y = r)
    BY ZenonT(60), <1>0, <2>2 DEF Reports
  <2> QED
    BY ZenonT(60), <1>0, <1>1, <1>a, <2>1, <2>2, <2>3, <2>4
<1>4. ASSUME NEW t \in Threads, Publish(t) PROVE ListsApart' /\ Goal
  <2>0. PICK x \in Requests : x = cur[t][1]
    BY ZenonT(60), <1>0
  <2>1. Reports(t, x) /\ Terminal(x) /\ x \notin Published
    BY ZenonT(60), <1>0, <1>4, <2>0 DEF Publish, Reports, ReportersOwn
  <2>2. ListsApart' /\ Published' = Published \cup {x}
    BY ZenonT(60), <1>0, <1>4, <2>0, <2>1, PublishEffect
  <2>3. /\ pc'[t] # "publish" /\ state' = state
        /\ \A u \in Threads : u # t => pc'[u] = pc[u] /\ cur'[u] = cur[u]
    BY ZenonT(60), <1>0, <1>4 DEF Publish, Goto, Resume, data, reqVars
  <2>4. \A y \in Requests : Terminal(y)' <=> Terminal(y)
    BY ZenonT(60), <2>3 DEF Terminal
  <2>5. \A v \in Threads, y \in Requests : Reports(v, y)' <=> Reports(v, y) /\ v # t
    BY ZenonT(60), <2>3 DEF Reports
  <2>6. \A y \in Requests : Reports(t, y) => y = x
    BY ZenonT(60), <2>0 DEF Reports
  <2>7. ReportedEnded'
    BY ZenonT(60), <1>0, <2>1, <2>2, <2>4 DEF ReportedEnded
  <2>8. ReportersOwn'
    <3> SUFFICES ASSUME NEW y \in Requests, NEW u \in Threads, Reports(u, y), u # t
                 PROVE  /\ Terminal(y)' /\ y \notin Published'
                        /\ \A v \in Threads : Reports(v, y)' => v = u
      BY ZenonT(60), <2>5 DEF ReportersOwn
    <3>1. y # x
      <4> SUFFICES ASSUME y = x PROVE FALSE
        OBVIOUS
      <4>1. Reports(u, x)
        BY ZenonT(60)
      <4> QED
        BY ZenonT(60), <1>0, <2>1, <4>1 DEF ReportersOwn
    <3> QED
      BY ZenonT(60), <1>0, <2>2, <2>4, <2>5, <3>1 DEF ReportersOwn
  <2>9. EndedReported'
    <3> SUFFICES ASSUME NEW y \in Requests, Terminal(y), y # x
                 PROVE  y \in Published \/ \E u \in Threads : Reports(u, y)'
      BY ZenonT(60), <2>2, <2>4 DEF EndedReported
    <3> QED
      BY ZenonT(60), <1>0, <2>5, <2>6 DEF EndedReported
  <2> QED
    BY ZenonT(60), <2>2, <2>7, <2>8, <2>9
<1>5. ASSUME ~ \E t \in Threads : Finish(t) \/ Publish(t),
             ~ \E r \in Requests : ReapFail(r)
      PROVE  ListsApart' /\ Goal
  <2>1. ListsApart' /\ Published' = Published
    BY ZenonT(60), <1>0, <1>1, <1>5, ListMoves, PollEffect
  <2>2. \A x \in Requests : Terminal(x)' <=> Terminal(x)
    <3>1. \A x \in Requests : Terminal(x) => Terminal(x)'
      BY ZenonT(60), TerminalStays DEF Terminal
    <3> QED
      BY ZenonT(60), <1>5, <3>1, TerminalMoves
  <2>3. \A u \in Threads, x \in Requests : Reports(u, x)' <=> Reports(u, x)
    BY ZenonT(60), <1>5, ReportMoves DEF Reports
  <2> QED
    BY ZenonT(60), <1>0, <2>1, <2>2, <2>3 DEF ReportedEnded, ReportersOwn, EndedReported
<1> QED
  BY ZenonT(60), <1>2, <1>3, <1>4, <1>5 DEF ReportInv

-----------------------------------------------------------------------------
(* close().                                                                *)

\* Once close() has seen inflight_ empty it stays so, and close() returns only
\* after the progress thread.
CloseInv == /\ closing \in {"stopping", "closed"} => inflight = {}
            /\ closing = "closed" => pc[Progress] = "stopped"

\* Only close() moves on, and the progress thread does not come back.
LEMMA CloseMoves ==
    ASSUME TypeOK, [Next]_vars
    PROVE  /\ closing' = closing \/ Closer
           /\ pc[Progress] = "stopped" => pc'[Progress] = "stopped"
<1> DEFINE Goal == /\ closing' = closing \/ Closer
                   /\ pc[Progress] = "stopped" => pc'[Progress] = "stopped"
<1> USE RequestsAssumption
        DEF TypeOK, ThreadTypes, Threads, Goto, Resume, data, engine, world,
            threadVars, locals, reqVars, outVars, peerVars, reapVars
<1>1. ASSUME NEW r \in Requests, Submitter(r) PROVE Goal
  BY ZenonT(90), <1>1
     DEF Submitter, Enter, CheckBound, Admit, Prepare, PostNext, Return
<1>2. ASSUME NEW t \in Threads, Poster(t) PROVE Goal
  BY ZenonT(150), <1>2
     DEF Poster, PostCheck, PostSubmit, PostCount, PartFinished, SealIfIdle, Claim,
         DecideAbandoned, Finish, Publish
<1>3. ASSUME ProgressThread PROVE Goal
  BY ZenonT(90), <1>3
     DEF ProgressThread, ProgressStop, DrainBegin, DrainNext, DrainEnd, ReapScan,
         ReapStop, ReapClaim, ReapFail, ReapNext, PollTransports, HandleEvent,
         EventsDone, DecideCompleted, SendHandoff
<1>4. ASSUME \/ \E r \in Requests : Cancel(r) \/ DependencySettles(r)
             \/ PollCompletions \/ Closer
             \/ \E p \in Peers : RemovePeer(p) \/ RemoveStop(p) \/ PeerGoes(p)
             \/ \E o \in Ops : TransportCompletes(o)
      PROVE  Goal
  BY ZenonT(60), <1>4
     DEF Cancel, DependencySettles, PollCompletions, Closer, CloseBegin, CloseTimeout,
         CloseDrained, CloseJoin, SetClosing, RemovePeer, RemoveStop, PeerGoes,
         TransportCompletes
<1>5. ASSUME UNCHANGED vars PROVE Goal
  BY ZenonT(60), <1>5 DEF vars
<1> QED
  BY ZenonT(90), <1>1, <1>2, <1>3, <1>4, <1>5 DEF Next

\* close() goes on finding inflight_ empty.
LEMMA CloseStep ==
    ASSUME TypeOK, OwnInv, CloseInv, [Next]_vars
    PROVE  CloseInv'
<1>1. CASE Closer
  <2>1. inflight' = inflight /\ pc' = pc
    BY ZenonT(60), <1>1 DEF Closer, CloseBegin, CloseTimeout, CloseDrained, CloseJoin,
                            SetClosing, threadVars
  <2>2. \/ closing' \notin {"stopping", "closed"}
        \/ closing' = "stopping" /\ inflight = {}
        \/ closing' = "closed" /\ closing = "stopping" /\ pc[Progress] = "stopped"
    BY ZenonT(60), <1>1 DEF Closer, CloseBegin, CloseTimeout, CloseDrained, CloseJoin,
                            SetClosing
  <2> QED
    BY ZenonT(60), <2>1, <2>2 DEF CloseInv
<1>2. CASE ~Closer
  <2>1. /\ closing' = closing
        /\ pc[Progress] = "stopped" => pc'[Progress] = "stopped"
    BY ZenonT(60), <1>2, CloseMoves
  <2>2. closing \in {"stopping", "closed"} => inflight' \subseteq inflight
    <3>1. ASSUME NEW r \in Requests, Admit(r)
          PROVE  closing # "open" => inflight' = inflight
      BY ZenonT(60), <3>1 DEF Admit
    <3>2. ReapClaim => inflight' \subseteq inflight
      BY ZenonT(60) DEF ReapClaim
    <3>3. ASSUME NEW r \in Requests, ReapFail(r) PROVE inflight' = inflight
      BY ZenonT(60), <3>3 DEF ReapFail
    <3>4. ASSUME NEW t \in Threads, Claim(t) PROVE inflight' \subseteq inflight
      BY ZenonT(60), <3>4 DEF Claim
    <3> QED
      BY ZenonT(60), <3>1, <3>2, <3>3, <3>4, InflightMoves
  <2> QED
    BY ZenonT(60), <2>1, <2>2 DEF CloseInv
<1> QED
  BY ZenonT(60), <1>1, <1>2
=============================================================================
