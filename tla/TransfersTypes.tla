--------------------------- MODULE TransfersTypes ---------------------------
(***************************************************************************)
(* Proofs about Transfers, first part: the types; the moves a step makes   *)
(* with a sub-operation, a part or a request; parts stay in one thread's   *)
(* hands; and the counters of a request count what they say.               *)
(***************************************************************************)
EXTENDS Transfers, FiniteSetTheorems, TLAPS

\* The sub-operations are finitely many, and so is any collection of them:
\* what the counters count can be counted.
LEMMA OpsFinite ==
    \A S \in SUBSET Ops : IsFiniteSet(S) /\ Cardinality(S) \in Nat
<1>1. IsFiniteSet(Parts)
  BY ZenonT(60), FS_Product, RequestsAssumption, PlanAssumption DEF Parts
<1>2. IsFiniteSet(1 .. MaxOps)
  BY SMTT(60), FS_Interval, PlanAssumption
<1>3. IsFiniteSet(Parts \X (1 .. MaxOps))
  BY ZenonT(60), <1>1, <1>2, FS_Product
<1>4. IsFiniteSet(Ops)
  BY ZenonT(60), <1>3, FS_Subset DEF Ops
<1> QED
  BY ZenonT(60), <1>4, FS_Subset, FS_CardinalityType

\* So are the lanes that carry a request.
LEMMA LanesFinite ==
    \A S \in SUBSET Lanes : IsFiniteSet(S) /\ Cardinality(S) \in Nat
  BY ZenonT(60), PlanAssumption, FS_Subset, FS_CardinalityType

\* The value of an idle thread's cur is a part.
LEMMA NoPartType == NoPart \in Parts
<1>1. PICK r \in Requests, l \in Lanes : TRUE
  BY ZenonT(60), RequestsAssumption, PlanAssumption
<1>2. <<r, l>> \in Parts
  BY ZenonT(60), <1>1 DEF Parts
<1> QED
  BY ZenonT(60), <1>2 DEF NoPart

\* A thread works for a request, on a lane.
LEMMA CurType ==
    ASSUME ThreadTypes
    PROVE  \A t \in Threads : /\ cur[t] \in Parts
                              /\ cur[t][1] \in Requests /\ cur[t][2] \in Lanes
  BY ZenonT(60) DEF ThreadTypes, Parts

\* The fields of a request keep their types.
LEMMA RequestTypesStep ==
    ASSUME TypeOK, [Next]_vars
    PROVE  RequestTypes'
<1> USE CurType
<1> USE DEF TypeOK, data, engine, world, threadVars, locals, reqVars, outVars, peerVars,
            reapVars
<1>1. UNCHANGED <<reqVars, dep>> => RequestTypes'
  BY ZenonT(60) DEF RequestTypes
<1>2. ASSUME
          \/ ProgressStop \/ DrainBegin \/ DrainEnd \/ ReapScan \/ ReapClaim \/
              ReapNext \/ PollTransports \/ EventsDone \/ DecideCompleted \/
              PollCompletions \/ CloseBegin \/ CloseTimeout \/ CloseDrained \/
              CloseJoin
          \/ \E r \in Requests :
              Enter(r) \/ CheckBound(r) \/ Admit(r) \/ PostNext(r) \/ Return(r)
          \/ \E t \in Threads :
              PostCheck(t) \/ Claim(t) \/ DecideAbandoned(t) \/ Publish(t)
          \/ \E p \in Peers :
              ReapStop(p) \/ RemovePeer(p) \/ RemoveStop(p) \/ PeerGoes(p)
          \/ \E o \in Ops :
              TransportCompletes(o)
      PROVE  UNCHANGED <<reqVars, dep>>
  BY ZenonT(90), <1>2
     DEF Enter, CheckBound, Admit, PostNext, Return, PostCheck, Claim,
         DecideAbandoned, Publish, ProgressStop, DrainBegin, DrainEnd,
         ReapScan, ReapStop, ReapClaim, ReapNext, PollTransports, EventsDone,
         DecideCompleted, PollCompletions, RemovePeer, RemoveStop, PeerGoes,
         CloseBegin, CloseTimeout, CloseDrained, CloseJoin,
         TransportCompletes, SetClosing, Goto, Resume
<1>3. ASSUME NEW r \in Requests, Prepare(r) PROVE RequestTypes'
  BY ZenonT(60), <1>3, LanesFinite DEF Prepare, RequestTypes, PartsOf, TerminalStates
<1>4. ASSUME NEW r \in Requests, Cancel(r) PROVE RequestTypes'
  BY ZenonT(60), <1>4 DEF Cancel, RequestTypes, TerminalStates
<1>5. ASSUME NEW r \in Requests, DependencySettles(r) PROVE RequestTypes'
  BY ZenonT(60), <1>5 DEF DependencySettles, RequestTypes
<1>6. ASSUME NEW t \in Threads, PostSubmit(t) PROVE RequestTypes'
  BY ZenonT(60), <1>6 DEF PostSubmit, RequestTypes, TerminalStates
<1>7. ASSUME NEW t \in Threads, PostCount(t) PROVE RequestTypes'
  <2>1. sr[t].accepted \in Nat
    BY ZenonT(60), <1>7 DEF PostCount, Goto, ThreadTypes
  <2>2. accepted' \in [Requests -> Nat]
    BY SMTT(60), <1>7, <2>1 DEF PostCount, RequestTypes
  <2>3. err' \in SUBSET Requests
    BY SMTT(60), <1>7 DEF PostCount, Goto, RequestTypes
  <2>4. state' \in [Requests -> {"Queued", "WaitDependency", "Inflight", "Draining"}
                                \cup TerminalStates]
    BY ZenonT(60), <1>7 DEF PostCount, Goto, RequestTypes
  <2> QED
    BY ZenonT(60), <1>7, <2>2, <2>3, <2>4 DEF PostCount, RequestTypes
<1>8. ASSUME NEW t \in Threads, PartFinished(t) PROVE RequestTypes'
  BY SMTT(60), <1>8 DEF PartFinished, RequestTypes
<1>9. ASSUME NEW t \in Threads, SealIfIdle(t) PROVE RequestTypes'
  BY SMTT(60), <1>9 DEF SealIfIdle, RequestTypes
<1>10. ASSUME NEW t \in Threads, Finish(t) PROVE RequestTypes'
  BY SMTT(60), <1>10 DEF Finish, RequestTypes, Outcome, TerminalStates, ThreadTypes
<1>11. ASSUME NEW p \in Parts, DrainNext(p) PROVE RequestTypes'
  BY ZenonT(60), <1>11 DEF DrainNext, RequestTypes, Parts
<1>12. ASSUME NEW r \in Requests, ReapFail(r) PROVE RequestTypes'
  BY ZenonT(60), <1>12 DEF ReapFail, RequestTypes, TerminalStates
<1>13. ASSUME NEW o \in Ops, HandleEvent(o) PROVE RequestTypes'
  BY SMTT(60), <1>13 DEF HandleEvent, RequestTypes, Ops, Parts
<1>14. ASSUME SendHandoff PROVE RequestTypes'
  BY ZenonT(60), <1>14 DEF SendHandoff, RequestTypes, Threads
<1> QED
  BY ZenonT(150), <1>1, <1>2, <1>3, <1>4, <1>5, <1>6, <1>7, <1>8, <1>9, <1>10, <1>11,
     <1>12, <1>13, <1>14
     DEF Next, vars, Submitter, Poster, ProgressThread, Closer

\* So do the places of sub-operations and parts.
LEMMA PartTypesStep ==
    ASSUME TypeOK, [Next]_vars
    PROVE  PartTypes'
<1> USE CurType
<1> USE DEF TypeOK, data, engine, world, threadVars, locals, reqVars, outVars, peerVars,
            reapVars
<1>1. UNCHANGED <<op, place>> => PartTypes'
  BY ZenonT(60) DEF PartTypes
<1>2. ASSUME
          \/ ProgressStop \/ ReapScan \/ ReapClaim \/ ReapNext \/ EventsDone \/
              DecideCompleted \/ SendHandoff \/ PollCompletions \/ CloseBegin \/
              CloseTimeout \/ CloseDrained \/ CloseJoin
          \/ \E r \in Requests :
              Enter(r) \/ CheckBound(r) \/ Admit(r) \/ Return(r) \/ Cancel(r) \/
              DependencySettles(r) \/ ReapFail(r)
          \/ \E t \in Threads :
              SealIfIdle(t) \/ Claim(t) \/ DecideAbandoned(t) \/ Finish(t) \/
              Publish(t)
          \/ \E p \in Peers :
              RemovePeer(p) \/ PeerGoes(p)
      PROVE  UNCHANGED <<op, place>>
  BY ZenonT(60), <1>2
     DEF Enter, CheckBound, Admit, Return, Cancel, DependencySettles,
         SealIfIdle, Claim, DecideAbandoned, Finish, Publish, ProgressStop,
         ReapScan, ReapClaim, ReapFail, ReapNext, EventsDone, DecideCompleted,
         SendHandoff, PollCompletions, RemovePeer, PeerGoes, CloseBegin,
         CloseTimeout, CloseDrained, CloseJoin, SetClosing, Goto, Resume
<1>3. ASSUME NEW r \in Requests, Prepare(r) PROVE PartTypes'
  BY ZenonT(60), <1>3 DEF Prepare, PartTypes, PartPlaces
<1>4. ASSUME NEW r \in Requests, PostNext(r) PROVE PartTypes'
  BY ZenonT(150), <1>4 DEF PostNext, PartTypes, PartPlaces, Parts
<1>5. ASSUME NEW t \in Threads, PostCheck(t) PROVE PartTypes'
  BY ZenonT(60), <1>5 DEF PostCheck, PartTypes, OpPlaces
<1>6. ASSUME NEW t \in Threads, PostSubmit(t) PROVE PartTypes'
  BY ZenonT(60), <1>6 DEF PostSubmit, PartTypes, ProviderSubmit, OpPlaces
<1>7. ASSUME NEW t \in Threads, PostCount(t) PROVE PartTypes'
  BY ZenonT(150), <1>7 DEF PostCount, PartTypes, PartPlaces, OpPlaces
<1>8. ASSUME NEW t \in Threads, PartFinished(t) PROVE PartTypes'
  BY ZenonT(60), <1>8 DEF PartFinished, PartTypes, PartPlaces
<1>9. ASSUME DrainBegin PROVE PartTypes'
  BY ZenonT(60), <1>9 DEF DrainBegin, PartTypes, PartPlaces
<1>10. ASSUME NEW p \in Parts, DrainNext(p) PROVE PartTypes'
  BY ZenonT(60), <1>10 DEF DrainNext, PartTypes, PartPlaces
<1>11. ASSUME DrainEnd PROVE PartTypes'
  BY ZenonT(60), <1>11 DEF DrainEnd, PartTypes, PartPlaces
<1>12. ASSUME NEW p \in Peers, ReapStop(p) PROVE PartTypes'
  BY ZenonT(60), <1>12 DEF ReapStop, PartTypes, Flushed, OpPlaces
<1>13. ASSUME PollTransports PROVE PartTypes'
  BY ZenonT(60), <1>13 DEF PollTransports, PartTypes, OpPlaces
<1>14. ASSUME NEW o \in Ops, HandleEvent(o) PROVE PartTypes'
  BY ZenonT(60), <1>14 DEF HandleEvent, PartTypes, OpPlaces
<1>15. ASSUME NEW p \in Peers, RemoveStop(p) PROVE PartTypes'
  BY ZenonT(60), <1>15 DEF RemoveStop, PartTypes, Flushed, OpPlaces
<1>16. ASSUME NEW o \in Ops, TransportCompletes(o) PROVE PartTypes'
  BY ZenonT(60), <1>16 DEF TransportCompletes, PartTypes, OpPlaces
<1> QED
  BY ZenonT(60), <1>1, <1>2, <1>3, <1>4, <1>5, <1>6, <1>7, <1>8, <1>9, <1>10, <1>11,
     <1>12, <1>13, <1>14, <1>15, <1>16
     DEF Next, vars, Submitter, Poster, ProgressThread, Closer

\* So do the engine's own fields.
LEMMA EngineTypesStep ==
    ASSUME TypeOK, [Next]_vars
    PROVE  EngineTypes'
<1> USE CurType
<1> USE DEF TypeOK, data, engine, world, threadVars, locals, reqVars, outVars, peerVars,
            reapVars
<1>1. UNCHANGED <<inflight, outVars, stats, closing>> => EngineTypes'
  BY ZenonT(60) DEF EngineTypes
<1>2. ASSUME
          \/ ProgressStop \/ DrainBegin \/ DrainEnd \/ ReapScan \/ ReapNext \/
              PollTransports \/ EventsDone
          \/ \E r \in Requests :
              Enter(r) \/ CheckBound(r) \/ Prepare(r) \/ PostNext(r) \/
              Return(r) \/ Cancel(r) \/ DependencySettles(r)
          \/ \E t \in Threads :
              PostCheck(t) \/ PostSubmit(t) \/ PostCount(t) \/ PartFinished(t) \/
              SealIfIdle(t) \/ Finish(t)
          \/ \E p \in Parts :
              DrainNext(p)
          \/ \E p \in Peers :
              ReapStop(p) \/ RemovePeer(p) \/ RemoveStop(p) \/ PeerGoes(p)
          \/ \E o \in Ops :
              HandleEvent(o) \/ TransportCompletes(o)
      PROVE  UNCHANGED <<inflight, outVars, stats, closing>>
  BY ZenonT(90), <1>2
     DEF Enter, CheckBound, Prepare, PostNext, Return, Cancel,
         DependencySettles, PostCheck, PostSubmit, PostCount, PartFinished,
         SealIfIdle, Finish, ProgressStop, DrainBegin, DrainNext, DrainEnd,
         ReapScan, ReapStop, ReapNext, PollTransports, HandleEvent,
         EventsDone, RemovePeer, RemoveStop, PeerGoes, TransportCompletes,
         Goto, Resume
<1>3. ASSUME NEW r \in Requests, Admit(r) PROVE EngineTypes'
  BY ZenonT(60), <1>3 DEF Admit, EngineTypes
<1>4. ASSUME NEW t \in Threads, Claim(t) PROVE EngineTypes'
  BY ZenonT(60), <1>4 DEF Claim, EngineTypes
<1>5. ASSUME NEW t \in Threads, DecideAbandoned(t) PROVE EngineTypes'
  BY SMTT(60), <1>5 DEF DecideAbandoned, EngineTypes, Count
<1>6. ASSUME NEW t \in Threads, Publish(t) PROVE EngineTypes'
  <2> DEFINE q == Append(completedQ, cur[t][1])
  <2>1. /\ q \in Seq(Requests) /\ q # <<>>
        /\ Head(q) \in Requests /\ Tail(q) \in Seq(Requests)
    BY SMTT(60), <1>6 DEF Publish, Goto, EngineTypes
  <2>2. /\ completedQ' \in {completedQ, q, Tail(q)}
        /\ dropped' \in {dropped, dropped \cup {cur[t][1]}, dropped \cup {Head(q)}}
    BY ZenonT(60), <1>6, ZenonT(60) DEF Publish
  <2> HIDE DEF q
  <2>3. completedQ' \in Seq(Requests) /\ dropped' \in SUBSET Requests
    BY ZenonT(60), <2>1, <2>2 DEF EngineTypes
  <2> QED
    BY ZenonT(60), <1>6, <2>3 DEF Publish, EngineTypes
<1>7. ASSUME ReapClaim PROVE EngineTypes'
  BY ZenonT(60), <1>7 DEF ReapClaim, EngineTypes
<1>8. ASSUME NEW r \in Requests, ReapFail(r) PROVE EngineTypes'
  BY SMTT(60), <1>8 DEF ReapFail, EngineTypes, Count
<1>9. ASSUME DecideCompleted PROVE EngineTypes'
  BY SMTT(60), <1>9 DEF DecideCompleted, EngineTypes, Count
<1>10. ASSUME SendHandoff PROVE EngineTypes'
  BY SMTT(60), <1>10 DEF SendHandoff, EngineTypes, Count
<1>11. ASSUME PollCompletions PROVE EngineTypes'
  BY SMTT(60), <1>11 DEF PollCompletions, EngineTypes
<1>12. ASSUME CloseBegin PROVE EngineTypes'
  BY ZenonT(60), <1>12 DEF CloseBegin, EngineTypes, SetClosing
<1>13. ASSUME CloseTimeout PROVE EngineTypes'
  BY ZenonT(60), <1>13 DEF CloseTimeout, EngineTypes, SetClosing
<1>14. ASSUME CloseDrained PROVE EngineTypes'
  BY ZenonT(60), <1>14 DEF CloseDrained, EngineTypes, SetClosing
<1>15. ASSUME CloseJoin PROVE EngineTypes'
  BY ZenonT(60), <1>15 DEF CloseJoin, EngineTypes, SetClosing
<1> QED
  BY ZenonT(90), <1>1, <1>2, <1>3, <1>4, <1>5, <1>6, <1>7, <1>8, <1>9, <1>10, <1>11,
     <1>12, <1>13, <1>14, <1>15
     DEF Next, vars, Submitter, Poster, ProgressThread, Closer

\* So do those of peers and the reaper's lists.
LEMMA PeerTypesStep ==
    ASSUME TypeOK, [Next]_vars
    PROVE  PeerTypes'
<1> USE CurType
<1> USE DEF TypeOK, data, engine, world, threadVars, locals, reqVars, outVars, peerVars,
            reapVars
<1>1. UNCHANGED <<peerVars, reapVars>> => PeerTypes'
  BY ZenonT(60) DEF PeerTypes
<1>2. ASSUME
          \/ ProgressStop \/ DrainBegin \/ DrainEnd \/ ReapNext \/
              PollTransports \/ EventsDone \/ DecideCompleted \/ SendHandoff \/
              PollCompletions \/ CloseBegin \/ CloseTimeout \/ CloseDrained \/
              CloseJoin
          \/ \E r \in Requests :
              Enter(r) \/ CheckBound(r) \/ Admit(r) \/ Prepare(r) \/
              PostNext(r) \/ Return(r) \/ Cancel(r) \/ DependencySettles(r)
          \/ \E t \in Threads :
              PostCheck(t) \/ PostSubmit(t) \/ PostCount(t) \/ PartFinished(t) \/
              SealIfIdle(t) \/ Claim(t) \/ DecideAbandoned(t) \/ Finish(t) \/
              Publish(t)
          \/ \E p \in Parts :
              DrainNext(p)
          \/ \E o \in Ops :
              HandleEvent(o) \/ TransportCompletes(o)
      PROVE  UNCHANGED <<peerVars, reapVars>>
  BY ZenonT(150), <1>2
     DEF Enter, CheckBound, Admit, Prepare, PostNext, Return, Cancel,
         DependencySettles, PostCheck, PostSubmit, PostCount, PartFinished,
         SealIfIdle, Claim, DecideAbandoned, Finish, Publish, ProgressStop,
         DrainBegin, DrainNext, DrainEnd, ReapNext, PollTransports,
         HandleEvent, EventsDone, DecideCompleted, SendHandoff,
         PollCompletions, CloseBegin, CloseTimeout, CloseDrained, CloseJoin,
         TransportCompletes, SetClosing, Goto, Resume
<1>3. ASSUME ReapScan PROVE PeerTypes'
  BY ZenonT(60), <1>3 DEF ReapScan, PeerTypes
<1>4. ASSUME NEW p \in Peers, ReapStop(p) PROVE PeerTypes'
  BY ZenonT(60), <1>4 DEF ReapStop, PeerTypes
<1>5. ASSUME ReapClaim PROVE PeerTypes'
  BY ZenonT(60), <1>5 DEF ReapClaim, PeerTypes, EngineTypes
<1>6. ASSUME NEW r \in Requests, ReapFail(r) PROVE PeerTypes'
  BY ZenonT(60), <1>6 DEF ReapFail, PeerTypes
<1>7. ASSUME NEW p \in Peers, RemovePeer(p) PROVE PeerTypes'
  BY ZenonT(60), <1>7 DEF RemovePeer, PeerTypes
<1>8. ASSUME NEW p \in Peers, RemoveStop(p) PROVE PeerTypes'
  BY ZenonT(60), <1>8 DEF RemoveStop, PeerTypes
<1>9. ASSUME NEW p \in Peers, PeerGoes(p) PROVE PeerTypes'
  BY ZenonT(60), <1>9 DEF PeerGoes, PeerTypes
<1> QED
  BY ZenonT(60), <1>1, <1>2, <1>3, <1>4, <1>5, <1>6, <1>7, <1>8, <1>9
     DEF Next, vars, Submitter, Poster, ProgressThread, Closer

\* So do the threads.
LEMMA ThreadTypesStep ==
    ASSUME TypeOK, [Next]_vars
    PROVE  ThreadTypes'
<1> USE DEF TypeOK, data, engine, world, threadVars, locals, reqVars, outVars, peerVars,
            reapVars
<1>1. UNCHANGED threadVars => ThreadTypes'
  BY ZenonT(60) DEF ThreadTypes
<1>2. ASSUME
          \/ PollCompletions \/ CloseBegin \/ CloseTimeout \/ CloseDrained \/
              CloseJoin
          \/ \E r \in Requests :
              Cancel(r) \/ DependencySettles(r)
          \/ \E p \in Peers :
              RemovePeer(p) \/ RemoveStop(p) \/ PeerGoes(p)
          \/ \E o \in Ops :
              TransportCompletes(o)
      PROVE  UNCHANGED threadVars
  BY ZenonT(60), <1>2
     DEF Cancel, DependencySettles, PollCompletions, RemovePeer, RemoveStop,
         PeerGoes, CloseBegin, CloseTimeout, CloseDrained, CloseJoin,
         TransportCompletes, SetClosing, Goto, Resume
<1>3. ASSUME NEW r \in Requests, Enter(r) PROVE ThreadTypes'
  BY ZenonT(60), <1>3 DEF Enter, Goto, ThreadTypes
<1>4. ASSUME NEW r \in Requests, CheckBound(r) PROVE ThreadTypes'
  BY ZenonT(60), <1>4 DEF CheckBound, Goto, ThreadTypes
<1>5. ASSUME NEW r \in Requests, Admit(r) PROVE ThreadTypes'
  BY ZenonT(150), <1>5 DEF Admit, Goto, ThreadTypes
<1>6. ASSUME NEW r \in Requests, Prepare(r) PROVE ThreadTypes'
  BY ZenonT(60), <1>6 DEF Prepare, Goto, ThreadTypes
<1>7. ASSUME NEW r \in Requests, PostNext(r) PROVE ThreadTypes'
  BY SMTT(60), <1>7 DEF PostNext, Goto, ThreadTypes, Parts, Threads
<1>8. ASSUME NEW r \in Requests, Return(r) PROVE ThreadTypes'
  BY ZenonT(60), <1>8 DEF Return, Goto, ThreadTypes
<1>9. ASSUME NEW t \in Threads, PostCheck(t) PROVE ThreadTypes'
  BY ZenonT(60), <1>9 DEF PostCheck, Goto, ThreadTypes
<1>10. ASSUME NEW t \in Threads, PostSubmit(t) PROVE ThreadTypes'
  BY SMTT(60), <1>10, OpsFinite DEF PostSubmit, Goto, ThreadTypes, ProviderSubmit,
                                    Prefixes, Queued
<1>11. ASSUME NEW t \in Threads, PostCount(t) PROVE ThreadTypes'
  <2>1. sr' \in [Threads -> [accepted : Nat, status : {"ok", "wouldBlock", "error"}]]
    BY ZenonT(60), <1>11 DEF PostCount, NoResult, ThreadTypes
  <2>2. cur' \in [Threads -> Parts]
    BY ZenonT(60), <1>11, NoPartType DEF PostCount, Resume, ThreadTypes
  <2>3. \E w \in {"drain", "lost", "event", "post", "finish"} : Goto(t, w)
    BY ZenonT(60), <1>11 DEF PostCount, Resume, ThreadTypes
  <2> QED
    BY SMTT(60), <1>11, <2>1, <2>2, <2>3 DEF PostCount, Goto, ThreadTypes
<1>12. ASSUME NEW t \in Threads, PartFinished(t) PROVE ThreadTypes'
  BY ZenonT(150), <1>12, NoPartType DEF PartFinished, Goto, ThreadTypes, Resume
<1>13. ASSUME NEW t \in Threads, SealIfIdle(t) PROVE ThreadTypes'
  BY ZenonT(150), <1>13, NoPartType DEF SealIfIdle, Goto, ThreadTypes, Resume
<1>14. ASSUME NEW t \in Threads, Claim(t) PROVE ThreadTypes'
  BY ZenonT(150), <1>14, NoPartType DEF Claim, Goto, ThreadTypes, Resume
<1>15. ASSUME NEW t \in Threads, DecideAbandoned(t) PROVE ThreadTypes'
  BY ZenonT(60), <1>15 DEF DecideAbandoned, Goto, ThreadTypes
<1>16. ASSUME NEW t \in Threads, Finish(t) PROVE ThreadTypes'
  BY ZenonT(60), <1>16 DEF Finish, Goto, ThreadTypes
<1>17. ASSUME NEW t \in Threads, Publish(t) PROVE ThreadTypes'
  BY ZenonT(60), <1>17, NoPartType DEF Publish, Goto, ThreadTypes, Resume
<1>18. ASSUME ProgressStop PROVE ThreadTypes'
  BY ZenonT(60), <1>18 DEF ProgressStop, Goto, ThreadTypes
<1>19. ASSUME DrainBegin PROVE ThreadTypes'
  BY ZenonT(60), <1>19 DEF DrainBegin, Goto, ThreadTypes
<1>20. ASSUME NEW p \in Parts, DrainNext(p) PROVE ThreadTypes'
  BY SMTT(60), <1>20 DEF DrainNext, Goto, ThreadTypes, Threads
<1>21. ASSUME DrainEnd PROVE ThreadTypes'
  BY ZenonT(60), <1>21 DEF DrainEnd, Goto, ThreadTypes
<1>22. ASSUME ReapScan PROVE ThreadTypes'
  BY ZenonT(60), <1>22 DEF ReapScan, Goto, ThreadTypes
<1>23. ASSUME NEW p \in Peers, ReapStop(p) PROVE ThreadTypes'
  BY ZenonT(60), <1>23 DEF ReapStop, Goto, ThreadTypes
<1>24. ASSUME ReapClaim PROVE ThreadTypes'
  BY ZenonT(60), <1>24 DEF ReapClaim, Goto, ThreadTypes
<1>25. ASSUME NEW r \in Requests, ReapFail(r) PROVE ThreadTypes'
  BY ZenonT(60), <1>25, PlanAssumption DEF ReapFail, Goto, ThreadTypes, Parts, Threads
<1>26. ASSUME ReapNext PROVE ThreadTypes'
  BY ZenonT(60), <1>26 DEF ReapNext, Goto, ThreadTypes
<1>27. ASSUME PollTransports PROVE ThreadTypes'
  BY ZenonT(60), <1>27 DEF PollTransports, Goto, ThreadTypes
<1>28. ASSUME NEW o \in Ops, HandleEvent(o) PROVE ThreadTypes'
  BY ZenonT(60), <1>28 DEF HandleEvent, Goto, ThreadTypes, Ops, Threads
<1>29. ASSUME EventsDone PROVE ThreadTypes'
  BY ZenonT(60), <1>29 DEF EventsDone, Goto, ThreadTypes
<1>30. ASSUME DecideCompleted PROVE ThreadTypes'
  BY ZenonT(60), <1>30 DEF DecideCompleted, Goto, ThreadTypes, Threads
<1>31. ASSUME SendHandoff PROVE ThreadTypes'
  BY ZenonT(60), <1>31 DEF SendHandoff, Goto, ThreadTypes, Threads
<1> QED
  BY ZenonT(90), <1>1, <1>2, <1>3, <1>4, <1>5, <1>6, <1>7, <1>8, <1>9, <1>10, <1>11,
     <1>12, <1>13, <1>14, <1>15, <1>16, <1>17, <1>18, <1>19, <1>20, <1>21,
     <1>22, <1>23, <1>24, <1>25, <1>26, <1>27, <1>28, <1>29, <1>30, <1>31
     DEF Next, vars, Submitter, Poster, ProgressThread, Closer

\* Every step keeps the variables in their types.
LEMMA TypeStep == TypeOK /\ [Next]_vars => TypeOK'
  BY ZenonT(60), RequestTypesStep, PartTypesStep, EngineTypesStep, PeerTypesStep,
     ThreadTypesStep
     DEF TypeOK

\* The moves a sub-operation can make.
OpMove(a, b) ==
    \/ b = a
    \/ a = "queued" /\ b \in {"dropped", "nic", "err"}
    \/ a = "nic" /\ b \in {"ok", "err"}
    \/ a = "ok" /\ b = "pollOk"
    \/ a = "err" /\ b = "pollErr"
    \/ a = "pollOk" /\ b \in {"doneOk", "lost"}
    \/ a = "pollErr" /\ b \in {"doneErr", "lost"}

\* A step moves a sub-operation only along that path: never back into a queue,
\* and never again once it is given up, counted or lost.
LEMMA OpMoves ==
    ASSUME TypeOK, [Next]_vars
    PROVE  \A o \in Ops : OpMove(op[o], op'[o])
<1> USE DEF TypeOK, data, engine, world, threadVars, locals, reqVars, outVars, peerVars,
            reapVars
<1>1. UNCHANGED op => \A o \in Ops : OpMove(op[o], op'[o])
  BY ZenonT(60) DEF OpMove
<1>2. ASSUME
          \/ ProgressStop \/ DrainBegin \/ DrainEnd \/ ReapScan \/ ReapClaim \/
              ReapNext \/ EventsDone \/ DecideCompleted \/ SendHandoff \/
              PollCompletions \/ CloseBegin \/ CloseTimeout \/ CloseDrained \/
              CloseJoin
          \/ \E r \in Requests :
              Enter(r) \/ CheckBound(r) \/ Admit(r) \/ Prepare(r) \/
              PostNext(r) \/ Return(r) \/ Cancel(r) \/ DependencySettles(r) \/
              ReapFail(r)
          \/ \E t \in Threads :
              PartFinished(t) \/ SealIfIdle(t) \/ Claim(t) \/
              DecideAbandoned(t) \/ Finish(t) \/ Publish(t)
          \/ \E p \in Parts :
              DrainNext(p)
          \/ \E p \in Peers :
              RemovePeer(p) \/ PeerGoes(p)
      PROVE  UNCHANGED op
  BY ZenonT(90), <1>2
     DEF Enter, CheckBound, Admit, Prepare, PostNext, Return, Cancel,
         DependencySettles, PartFinished, SealIfIdle, Claim, DecideAbandoned,
         Finish, Publish, ProgressStop, DrainBegin, DrainNext, DrainEnd,
         ReapScan, ReapClaim, ReapFail, ReapNext, EventsDone, DecideCompleted,
         SendHandoff, PollCompletions, RemovePeer, PeerGoes, CloseBegin,
         CloseTimeout, CloseDrained, CloseJoin, SetClosing, Goto, Resume
<1>3. ASSUME NEW t \in Threads, PostCheck(t) PROVE \A o \in Ops : OpMove(op[o], op'[o])
  BY ZenonT(60), <1>3 DEF PostCheck, PartTypes, OpMove, Queued
<1>4. ASSUME NEW t \in Threads, PostSubmit(t) PROVE \A o \in Ops : OpMove(op[o], op'[o])
  BY ZenonT(60), <1>4 DEF PostSubmit, PartTypes, OpMove, ProviderSubmit, Prefixes, Queued
<1>5. ASSUME NEW t \in Threads, PostCount(t) PROVE \A o \in Ops : OpMove(op[o], op'[o])
  BY ZenonT(60), <1>5 DEF PostCount, PartTypes, OpMove, Queued
<1>6. ASSUME NEW p \in Peers, ReapStop(p) PROVE \A o \in Ops : OpMove(op[o], op'[o])
  BY ZenonT(60), <1>6 DEF ReapStop, PartTypes, OpMove, Flushed
<1>7. ASSUME PollTransports PROVE \A o \in Ops : OpMove(op[o], op'[o])
  BY ZenonT(60), <1>7 DEF PollTransports, PartTypes, OpMove
<1>8. ASSUME NEW q \in Ops, HandleEvent(q) PROVE \A o \in Ops : OpMove(op[o], op'[o])
  BY ZenonT(60), <1>8 DEF HandleEvent, PartTypes, OpMove
<1>9. ASSUME NEW p \in Peers, RemoveStop(p) PROVE \A o \in Ops : OpMove(op[o], op'[o])
  BY ZenonT(60), <1>9 DEF RemoveStop, PartTypes, OpMove, Flushed
<1>10. ASSUME NEW q \in Ops, TransportCompletes(q)
       PROVE  \A o \in Ops : OpMove(op[o], op'[o])
  BY ZenonT(60), <1>10 DEF TransportCompletes, PartTypes, OpMove
<1> QED
  BY ZenonT(150), <1>1, <1>2, <1>3, <1>4, <1>5, <1>6, <1>7, <1>8, <1>9, <1>10
     DEF Next, vars, Submitter, Poster, ProgressThread, Closer

\* What a request has settled stays settled.
LEMMA SettledStays ==
    ASSUME TypeOK, [Next]_vars, NEW r \in Requests, Settled(r)
    PROVE  Settled(r)'
  BY ZenonT(60), OpMoves DEF Settled, OpsOf, OpMove

\* An ended request never changes its state again.
LEMMA TerminalStays ==
    ASSUME TypeOK, [Next]_vars
    PROVE  \A r \in Requests : Terminal(r) => state'[r] = state[r]
<1> USE DEF TypeOK, data, engine, world, threadVars, locals, reqVars, outVars, peerVars,
            reapVars
<1>1. UNCHANGED state => \A x \in Requests : Terminal(x) => state'[x] = state[x]
  OBVIOUS
<1>2. ASSUME
          \/ ProgressStop \/ DrainBegin \/ DrainEnd \/ ReapScan \/ ReapClaim \/
              ReapNext \/ PollTransports \/ EventsDone \/ DecideCompleted \/
              SendHandoff \/ PollCompletions \/ CloseBegin \/ CloseTimeout \/
              CloseDrained \/ CloseJoin
          \/ \E r \in Requests :
              Enter(r) \/ CheckBound(r) \/ Admit(r) \/ PostNext(r) \/ Return(r) \/
              DependencySettles(r)
          \/ \E t \in Threads :
              PostCheck(t) \/ PartFinished(t) \/ SealIfIdle(t) \/ Claim(t) \/
              DecideAbandoned(t) \/ Publish(t)
          \/ \E p \in Parts :
              DrainNext(p)
          \/ \E p \in Peers :
              ReapStop(p) \/ RemovePeer(p) \/ RemoveStop(p) \/ PeerGoes(p)
          \/ \E o \in Ops :
              HandleEvent(o) \/ TransportCompletes(o)
      PROVE  UNCHANGED state
  BY ZenonT(90), <1>2
     DEF Enter, CheckBound, Admit, PostNext, Return, DependencySettles,
         PostCheck, PartFinished, SealIfIdle, Claim, DecideAbandoned, Publish,
         ProgressStop, DrainBegin, DrainNext, DrainEnd, ReapScan, ReapStop,
         ReapClaim, ReapNext, PollTransports, HandleEvent, EventsDone,
         DecideCompleted, SendHandoff, PollCompletions, RemovePeer,
         RemoveStop, PeerGoes, CloseBegin, CloseTimeout, CloseDrained,
         CloseJoin, TransportCompletes, SetClosing, Goto, Resume
<1>3. ASSUME NEW r \in Requests, Prepare(r)
      PROVE  \A x \in Requests : Terminal(x) => state'[x] = state[x]
  BY ZenonT(60), <1>3 DEF Prepare, RequestTypes, Terminal
<1>4. ASSUME NEW r \in Requests, Cancel(r)
      PROVE  \A x \in Requests : Terminal(x) => state'[x] = state[x]
  BY ZenonT(60), <1>4 DEF Cancel, RequestTypes, Terminal
<1>5. ASSUME NEW t \in Threads, PostSubmit(t)
      PROVE  \A x \in Requests : Terminal(x) => state'[x] = state[x]
  BY ZenonT(60), <1>5 DEF PostSubmit, RequestTypes, Terminal
<1>6. ASSUME NEW t \in Threads, PostCount(t)
      PROVE  \A x \in Requests : Terminal(x) => state'[x] = state[x]
  BY ZenonT(60), <1>6 DEF PostCount, RequestTypes, Terminal
<1>7. ASSUME NEW t \in Threads, Finish(t)
      PROVE  \A x \in Requests : Terminal(x) => state'[x] = state[x]
  BY ZenonT(60), <1>7 DEF Finish, RequestTypes, Terminal
<1>8. ASSUME NEW r \in Requests, ReapFail(r)
      PROVE  \A x \in Requests : Terminal(x) => state'[x] = state[x]
  BY ZenonT(60), <1>8 DEF ReapFail, RequestTypes, Terminal
<1> QED
  BY ZenonT(90), <1>1, <1>2, <1>3, <1>4, <1>5, <1>6, <1>7, <1>8
     DEF Next, vars, Submitter, Poster, ProgressThread, Closer

\* The moves a part can make.
PlaceMove(r, l, a, b) ==
    \/ b = a
    \/ a = "none" /\ b \in {"todo", "pending"} /\ Prepare(r) /\ l \in PartsOf(r)
    \/ a \notin {"none", "done"} /\ b \notin {"none", "done"}
    \/ a = "held" /\ b = "done" /\ \E t \in Threads : PartFinished(t) /\ cur[t] = <<r, l>>

\* A part is built once, by the thread that submits its request, and once
\* finished stays so.
LEMMA PlaceMoves ==
    ASSUME TypeOK, HandsInv, [Next]_vars
    PROVE  \A x \in Requests, l \in Lanes : PlaceMove(x, l, place[<<x, l>>], place'[<<x, l>>])
<1> USE DEF TypeOK, data, engine, world, threadVars, locals, reqVars, outVars, peerVars,
            reapVars
<1>1. UNCHANGED place => \A x \in Requests, l \in Lanes :
             PlaceMove(x, l, place[<<x, l>>], place'[<<x, l>>])
  BY ZenonT(60) DEF PlaceMove
<1>2. ASSUME
          \/ ProgressStop \/ ReapScan \/ ReapClaim \/ ReapNext \/
              PollTransports \/ EventsDone \/ DecideCompleted \/ SendHandoff \/
              PollCompletions \/ CloseBegin \/ CloseTimeout \/ CloseDrained \/
              CloseJoin
          \/ \E r \in Requests :
              Enter(r) \/ CheckBound(r) \/ Admit(r) \/ Return(r) \/ Cancel(r) \/
              DependencySettles(r) \/ ReapFail(r)
          \/ \E t \in Threads :
              PostCheck(t) \/ PostSubmit(t) \/ SealIfIdle(t) \/ Claim(t) \/
              DecideAbandoned(t) \/ Finish(t) \/ Publish(t)
          \/ \E p \in Peers :
              ReapStop(p) \/ RemovePeer(p) \/ RemoveStop(p) \/ PeerGoes(p)
          \/ \E o \in Ops :
              HandleEvent(o) \/ TransportCompletes(o)
      PROVE  UNCHANGED place
  BY ZenonT(90), <1>2
     DEF Enter, CheckBound, Admit, Return, Cancel, DependencySettles,
         PostCheck, PostSubmit, SealIfIdle, Claim, DecideAbandoned, Finish,
         Publish, ProgressStop, ReapScan, ReapStop, ReapClaim, ReapFail,
         ReapNext, PollTransports, HandleEvent, EventsDone, DecideCompleted,
         SendHandoff, PollCompletions, RemovePeer, RemoveStop, PeerGoes,
         CloseBegin, CloseTimeout, CloseDrained, CloseJoin,
         TransportCompletes, SetClosing, Goto, Resume
<1>3. ASSUME NEW r \in Requests, Prepare(r) PROVE \A x \in Requests, l \in Lanes :
             PlaceMove(x, l, place[<<x, l>>], place'[<<x, l>>])
  <2>1. \A l \in Lanes : place[<<r, l>>] = "none"
    BY ZenonT(60), <1>3 DEF Prepare, HandsInv, PartsAreBuilt, Unprepared
  <2>2. \A x \in Requests, l \in Lanes :
           IF x = r /\ l \in PartsOf(r) THEN place'[<<x, l>>] \in {"todo", "pending"}
           ELSE place'[<<x, l>>] = place[<<x, l>>]
    BY ZenonT(60), <1>3 DEF Prepare, PartTypes, Parts
  <2> QED
    BY ZenonT(60), <1>3, <2>1, <2>2 DEF PlaceMove
<1>4. ASSUME NEW r \in Requests, PostNext(r) PROVE \A x \in Requests, l \in Lanes :
             PlaceMove(x, l, place[<<x, l>>], place'[<<x, l>>])
  BY ZenonT(60), <1>4 DEF PostNext, PartTypes, PlaceMove, Parts
<1>5. ASSUME NEW t \in Threads, PostCount(t) PROVE \A x \in Requests, l \in Lanes :
             PlaceMove(x, l, place[<<x, l>>], place'[<<x, l>>])
  BY ZenonT(90), <1>5 DEF PostCount, PartTypes, PlaceMove, Parts, HandsInv, PartsAreHeld,
                          Posting
<1>6. ASSUME NEW t \in Threads, PartFinished(t) PROVE \A x \in Requests, l \in Lanes :
             PlaceMove(x, l, place[<<x, l>>], place'[<<x, l>>])
  <2>1. place[cur[t]] = "held"
    BY ZenonT(60), <1>6 DEF PartFinished, HandsInv, PartsAreHeld, Posting
  <2>2. \A x \in Requests, l \in Lanes :
           place'[<<x, l>>] = IF cur[t] = <<x, l>> THEN "done" ELSE place[<<x, l>>]
    BY ZenonT(60), <1>6 DEF PartFinished, PartTypes, ThreadTypes, Parts
  <2> QED
    BY ZenonT(60), <1>6, <2>1, <2>2 DEF PlaceMove
<1>7. ASSUME DrainBegin PROVE \A x \in Requests, l \in Lanes :
             PlaceMove(x, l, place[<<x, l>>], place'[<<x, l>>])
  BY ZenonT(60), <1>7 DEF DrainBegin, PartTypes, PlaceMove, Parts
<1>8. ASSUME NEW q \in Parts, DrainNext(q) PROVE \A x \in Requests, l \in Lanes :
             PlaceMove(x, l, place[<<x, l>>], place'[<<x, l>>])
  BY ZenonT(60), <1>8 DEF DrainNext, PartTypes, PlaceMove, Parts
<1>9. ASSUME DrainEnd PROVE \A x \in Requests, l \in Lanes :
             PlaceMove(x, l, place[<<x, l>>], place'[<<x, l>>])
  BY ZenonT(90), <1>9 DEF DrainEnd, PartTypes, PlaceMove, Parts
<1> QED
  BY ZenonT(90), <1>1, <1>2, <1>3, <1>4, <1>5, <1>6, <1>7, <1>8, <1>9
     DEF Next, vars, Submitter, Poster, ProgressThread, Closer
\* Only Prepare takes a submitter past building its parts.
LEMMA PcMoves ==
    ASSUME TypeOK, [Next]_vars
    PROVE  \A x \in Requests : (pc'[x] \in Unprepared <=> pc[x] \in Unprepared) \/ Prepare(x)
<1> DEFINE Goal == \A x \in Requests : (pc'[x] \in Unprepared <=> pc[x] \in Unprepared) \/ Prepare(x)
<1> USE RequestsAssumption
        DEF TypeOK, ThreadTypes, Threads, Unprepared, Goto, Resume, data, engine, world,
            threadVars, locals, reqVars, outVars, peerVars, reapVars
<1>1. ASSUME NEW r \in Requests, Submitter(r) PROVE Goal
  <2>1. CASE Prepare(r)
    <3>1. \A x \in Requests : x # r => pc'[x] = pc[x]
      BY ZenonT(60), <2>1 DEF Prepare
    <3> QED
      BY ZenonT(60), <2>1, <3>1
  <2>2. CASE ~Prepare(r)
    BY ZenonT(90), <1>1, <2>2 DEF Submitter, Enter, CheckBound, Admit, PostNext, Return
  <2> QED
    BY ZenonT(60), <2>1, <2>2
<1>2. ASSUME NEW t \in Threads, Poster(t) PROVE Goal
  BY ZenonT(150), <1>2 DEF Poster, PostCheck, PostSubmit, PostCount, PartFinished,
                          SealIfIdle, Claim,
              DecideAbandoned, Finish, Publish
<1>3. ASSUME ProgressThread PROVE Goal
  <2>1. \A x \in Requests : pc'[x] = pc[x]
    BY ZenonT(90), <1>3 DEF ProgressThread, ProgressStop, DrainBegin, DrainNext, DrainEnd,
                            ReapScan,
                ReapStop, ReapClaim, ReapFail, ReapNext, PollTransports, HandleEvent,
                EventsDone, DecideCompleted, SendHandoff
  <2> QED
    BY ZenonT(60), <2>1
<1>4. ASSUME \/ \E r \in Requests : Cancel(r) \/ DependencySettles(r)
             \/ PollCompletions \/ Closer
             \/ \E p \in Peers : RemovePeer(p) \/ RemoveStop(p) \/ PeerGoes(p)
             \/ \E o \in Ops : TransportCompletes(o)
      PROVE  Goal
  BY ZenonT(60), <1>4 DEF Cancel, DependencySettles, PollCompletions, Closer, CloseBegin,
                          CloseTimeout,
              CloseDrained, CloseJoin, SetClosing, RemovePeer, RemoveStop, PeerGoes,
              TransportCompletes
<1>5. ASSUME UNCHANGED vars PROVE Goal
  BY ZenonT(60), <1>5 DEF vars
<1> QED
  BY ZenonT(90), <1>1, <1>2, <1>3, <1>4, <1>5 DEF Next

\* Parts are there from Prepare on, and not before.
LEMMA BuiltStep ==
    ASSUME TypeOK, HandsInv, [Next]_vars
    PROVE  PartsAreBuilt'
<1> SUFFICES ASSUME NEW x \in Requests, NEW l \in Lanes
             PROVE  /\ pc'[x] \in Unprepared => place'[<<x, l>>] = "none"
                    /\ pc'[x] \notin Unprepared /\ l \in PartsOf(x) => place'[<<x, l>>] # "none"
  BY ZenonT(60) DEF PartsAreBuilt, PartsOf, Unprepared
<1>1. /\ pc[x] \in Unprepared => place[<<x, l>>] = "none"
      /\ pc[x] \notin Unprepared /\ l \in PartsOf(x) => place[<<x, l>>] # "none"
  BY ZenonT(60) DEF HandsInv, PartsAreBuilt
<1>2. PlaceMove(x, l, place[<<x, l>>], place'[<<x, l>>])
  BY ZenonT(60), PlaceMoves
<1>3. CASE Prepare(x)
  <2>1. pc'[x] \notin Unprepared
    BY ZenonT(60), <1>3 DEF Prepare, Goto, Unprepared, TypeOK, ThreadTypes, Threads
  <2>2. l \in PartsOf(x) => place'[<<x, l>>] \in {"todo", "pending"}
    BY ZenonT(60), <1>3 DEF Prepare, Parts
  <2> QED
    BY ZenonT(60), <2>1, <2>2
<1>4. CASE ~Prepare(x)
  <2>1. pc'[x] \in Unprepared <=> pc[x] \in Unprepared
    BY ZenonT(60), <1>4, PcMoves
  <2> QED
    BY ZenonT(60), <1>1, <1>2, <1>4, <2>1 DEF PlaceMove
<1> QED
  BY ZenonT(60), <1>3, <1>4

-----------------------------------------------------------------------------
(* The hands a part is in, and the counters.                               *)

\* Parts stay in at most one thread's hands.
LEMMA HandsStep ==
    ASSUME TypeOK, HandsInv, [Next]_vars
    PROVE  HandsInv'
<1>0. PartsAreBuilt'
  BY ZenonT(60), BuiltStep
<1> USE DEF TypeOK, data, engine, world, threadVars, locals, reqVars, outVars, peerVars,
            reapVars
<1>1. UNCHANGED <<pc, cur, place>> => HandsInv'
  BY SMTT(60) DEF HandsInv, PartsAreHeld, OwnParts, OneHolder, PartsAreBuilt
<1>2. ASSUME
          \/ PollCompletions \/ CloseBegin \/ CloseTimeout \/ CloseDrained \/
              CloseJoin
          \/ \E r \in Requests :
              Cancel(r) \/ DependencySettles(r)
          \/ \E p \in Peers :
              RemovePeer(p) \/ RemoveStop(p) \/ PeerGoes(p)
          \/ \E o \in Ops :
              TransportCompletes(o)
      PROVE  UNCHANGED <<pc, cur, place>>
  BY ZenonT(60), <1>2
     DEF Cancel, DependencySettles, PollCompletions, RemovePeer, RemoveStop,
         PeerGoes, CloseBegin, CloseTimeout, CloseDrained, CloseJoin,
         TransportCompletes, SetClosing, Goto, Resume
<1>3. ASSUME NEW r \in Requests, Enter(r) PROVE HandsInv'
  BY ZenonT(150), <1>0, <1>3, RequestsAssumption
     DEF Enter, Goto, HandsInv, PartsAreHeld, OwnParts, OneHolder, Posting, AfterParts,
         Unprepared, PartTypes, ThreadTypes, Threads
<1>4. ASSUME NEW r \in Requests, CheckBound(r) PROVE HandsInv'
  BY ZenonT(150), <1>0, <1>4, RequestsAssumption
     DEF CheckBound, Goto, HandsInv, PartsAreHeld, OwnParts, OneHolder, Posting,
         AfterParts, Unprepared, PartTypes, ThreadTypes, Threads
<1>5. ASSUME NEW r \in Requests, Admit(r) PROVE HandsInv'
  BY SMTT(60), <1>0, <1>5, RequestsAssumption
     DEF Admit, Goto, HandsInv, PartsAreHeld, OwnParts, OneHolder, Posting, AfterParts,
         Unprepared, PartTypes, ThreadTypes, Threads
<1>6. ASSUME NEW r \in Requests, Prepare(r) PROVE HandsInv'
  <2> USE <1>6, RequestsAssumption
           DEF Prepare, Goto, HandsInv, Posting, AfterParts, Unprepared, PartTypes,
               ThreadTypes, Threads, Parts
  <2>1. PartsAreHeld'
    BY SMTT(60) DEF PartsAreHeld, PartsAreBuilt
  <2>2. OwnParts'
    BY ZenonT(150) DEF OwnParts
  <2>3. OneHolder'
    BY SMTT(60) DEF OneHolder
  <2> QED
    BY ZenonT(60), <1>0, <2>1, <2>2, <2>3
<1>7. ASSUME NEW r \in Requests, PostNext(r) PROVE HandsInv'
  <2> USE <1>7, RequestsAssumption
           DEF PostNext, Goto, HandsInv, Posting, AfterParts, Unprepared, PartTypes,
               ThreadTypes, Threads, Parts
  <2>1. PartsAreHeld'
    BY SMTT(60) DEF PartsAreHeld
  <2>2. OwnParts'
    BY SMTT(60) DEF OwnParts
  <2>3. OneHolder'
    BY SMTT(60) DEF OneHolder, PartsAreHeld
  <2> QED
    BY ZenonT(60), <1>0, <2>1, <2>2, <2>3
<1>8. ASSUME NEW r \in Requests, Return(r) PROVE HandsInv'
  BY ZenonT(60), <1>0, <1>8, RequestsAssumption
     DEF Return, Goto, HandsInv, PartsAreHeld, OwnParts, OneHolder, Posting, AfterParts,
         Unprepared, PartTypes, ThreadTypes, Threads
<1>9. ASSUME NEW t \in Threads, PostCheck(t) PROVE HandsInv'
  BY SMTT(60), <1>0, <1>9, RequestsAssumption
     DEF PostCheck, Goto, HandsInv, PartsAreHeld, OwnParts, OneHolder, Posting,
         AfterParts, Unprepared, PartTypes, ThreadTypes, Threads
<1>10. ASSUME NEW t \in Threads, PostSubmit(t) PROVE HandsInv'
  BY SMTT(60), <1>0, <1>10, RequestsAssumption
     DEF PostSubmit, Goto, HandsInv, PartsAreHeld, OwnParts, OneHolder, Posting,
         AfterParts, Unprepared, PartTypes, ThreadTypes, Threads
<1>11. ASSUME NEW t \in Threads, PostCount(t) PROVE HandsInv'
  <2> USE <1>11, RequestsAssumption
           DEF PostCount, Goto, HandsInv, Posting, AfterParts, Unprepared, PartTypes,
               ThreadTypes, Threads, Resume
  <2>1. PartsAreHeld'
    BY SMTT(60) DEF PartsAreHeld, OneHolder
  <2>2. OwnParts'
    BY ZenonT(150) DEF OwnParts
  <2>3. OneHolder'
    BY SMTT(60) DEF OneHolder
  <2> QED
    BY ZenonT(60), <1>0, <2>1, <2>2, <2>3
<1>12. ASSUME NEW t \in Threads, PartFinished(t) PROVE HandsInv'
  BY SMTT(60), <1>0, <1>12, RequestsAssumption
     DEF PartFinished, Goto, HandsInv, PartsAreHeld, OwnParts, OneHolder, Posting,
         AfterParts, Unprepared, PartTypes, ThreadTypes, Threads, Resume
<1>13. ASSUME NEW t \in Threads, SealIfIdle(t) PROVE HandsInv'
  BY SMTT(60), <1>0, <1>13, RequestsAssumption
     DEF SealIfIdle, Goto, HandsInv, PartsAreHeld, OwnParts, OneHolder, Posting,
         AfterParts, Unprepared, PartTypes, ThreadTypes, Threads, Resume
<1>14. ASSUME NEW t \in Threads, Claim(t) PROVE HandsInv'
  BY SMTT(60), <1>0, <1>14, RequestsAssumption
     DEF Claim, Goto, HandsInv, PartsAreHeld, OwnParts, OneHolder, Posting, AfterParts,
         Unprepared, PartTypes, ThreadTypes, Threads, Resume
<1>15. ASSUME NEW t \in Threads, DecideAbandoned(t) PROVE HandsInv'
  BY ZenonT(150), <1>0, <1>15, RequestsAssumption
     DEF DecideAbandoned, Goto, HandsInv, PartsAreHeld, OwnParts, OneHolder, Posting,
         AfterParts, Unprepared, PartTypes, ThreadTypes, Threads
<1>16. ASSUME NEW t \in Threads, Finish(t) PROVE HandsInv'
  BY ZenonT(60), <1>0, <1>16, RequestsAssumption
     DEF Finish, Goto, HandsInv, PartsAreHeld, OwnParts, OneHolder, Posting, AfterParts,
         Unprepared, PartTypes, ThreadTypes, Threads
<1>17. ASSUME NEW t \in Threads, Publish(t) PROVE HandsInv'
  BY ZenonT(60), <1>0, <1>17, RequestsAssumption
     DEF Publish, Goto, HandsInv, PartsAreHeld, OwnParts, OneHolder, Posting, AfterParts,
         Unprepared, PartTypes, ThreadTypes, Threads, Resume
<1>18. ASSUME ProgressStop PROVE HandsInv'
  BY ZenonT(60), <1>0, <1>18, RequestsAssumption
     DEF ProgressStop, Goto, HandsInv, PartsAreHeld, OwnParts, OneHolder, Posting,
         AfterParts, Unprepared, PartTypes, ThreadTypes, Threads
<1>19. ASSUME DrainBegin PROVE HandsInv'
  <2> USE <1>19, RequestsAssumption
           DEF DrainBegin, Goto, HandsInv, Posting, AfterParts, Unprepared, PartTypes,
               ThreadTypes, Threads
  <2>1. PartsAreHeld'
    BY ZenonT(60) DEF PartsAreHeld
  <2>2. OwnParts'
    BY ZenonT(60) DEF OwnParts
  <2>3. OneHolder'
    BY ZenonT(60) DEF OneHolder
  <2> QED
    BY ZenonT(150), <1>0, <2>1, <2>2, <2>3
<1>20. ASSUME NEW p \in Parts, DrainNext(p) PROVE HandsInv'
  <2> USE <1>20, RequestsAssumption
           DEF DrainNext, Goto, HandsInv, Posting, AfterParts, Unprepared, PartTypes,
               ThreadTypes, Threads, Parts
  <2>1. PartsAreHeld'
    BY SMTT(60) DEF PartsAreHeld
  <2>2. OwnParts'
    BY ZenonT(60) DEF OwnParts
  <2>3. OneHolder'
    BY SMTT(60) DEF OneHolder, PartsAreHeld
  <2> QED
    BY ZenonT(60), <1>0, <2>1, <2>2, <2>3
<1>21. ASSUME DrainEnd PROVE HandsInv'
  <2> USE <1>21, RequestsAssumption
           DEF DrainEnd, Goto, HandsInv, Posting, AfterParts, Unprepared, PartTypes,
               ThreadTypes, Threads
  <2>1. PartsAreHeld'
    BY ZenonT(60) DEF PartsAreHeld
  <2>2. OwnParts'
    BY ZenonT(60) DEF OwnParts
  <2>3. OneHolder'
    BY ZenonT(60) DEF OneHolder
  <2> QED
    BY ZenonT(60), <1>0, <2>1, <2>2, <2>3
<1>22. ASSUME ReapScan PROVE HandsInv'
  BY ZenonT(60), <1>0, <1>22, RequestsAssumption
     DEF ReapScan, Goto, HandsInv, PartsAreHeld, OwnParts, OneHolder, Posting, AfterParts,
         Unprepared, PartTypes, ThreadTypes, Threads
<1>23. ASSUME NEW p \in Peers, ReapStop(p) PROVE HandsInv'
  BY ZenonT(150), <1>0, <1>23, RequestsAssumption
     DEF ReapStop, Goto, HandsInv, PartsAreHeld, OwnParts, OneHolder, Posting, AfterParts,
         Unprepared, PartTypes, ThreadTypes, Threads
<1>24. ASSUME ReapClaim PROVE HandsInv'
  BY ZenonT(60), <1>0, <1>24, RequestsAssumption
     DEF ReapClaim, Goto, HandsInv, PartsAreHeld, OwnParts, OneHolder, Posting,
         AfterParts, Unprepared, PartTypes, ThreadTypes, Threads
<1>25. ASSUME NEW r \in Requests, ReapFail(r) PROVE HandsInv'
  BY ZenonT(60), <1>0, <1>25, RequestsAssumption
     DEF ReapFail, Goto, HandsInv, PartsAreHeld, OwnParts, OneHolder, Posting, AfterParts,
         Unprepared, PartTypes, ThreadTypes, Threads, Parts
<1>26. ASSUME ReapNext PROVE HandsInv'
  BY ZenonT(60), <1>0, <1>26, RequestsAssumption
     DEF ReapNext, Goto, HandsInv, PartsAreHeld, OwnParts, OneHolder, Posting, AfterParts,
         Unprepared, PartTypes, ThreadTypes, Threads
<1>27. ASSUME PollTransports PROVE HandsInv'
  BY ZenonT(60), <1>0, <1>27, RequestsAssumption
     DEF PollTransports, Goto, HandsInv, PartsAreHeld, OwnParts, OneHolder, Posting,
         AfterParts, Unprepared, PartTypes, ThreadTypes, Threads
<1>28. ASSUME NEW o \in Ops, HandleEvent(o) PROVE HandsInv'
  <2>1. /\ UNCHANGED place
        /\ \A r \in Requests : pc'[r] = pc[r] /\ cur'[r] = cur[r]
        /\ pc'[Progress] \in Posting => pc'[Progress] = pc[Progress] /\ cur' = cur
    BY ZenonT(150), <1>28, RequestsAssumption
       DEF HandleEvent, Goto, Posting, ThreadTypes, Threads
  <2>2. \A t \in Threads : pc'[t] \in Posting => pc'[t] = pc[t] /\ cur'[t] = cur[t]
    BY ZenonT(60), <2>1 DEF Threads
  <2>3. PartsAreHeld'
    BY ZenonT(60), <2>1, <2>2 DEF HandsInv, PartsAreHeld
  <2>4. OwnParts'
    BY ZenonT(60), <2>1 DEF HandsInv, OwnParts
  <2>5. OneHolder'
    BY ZenonT(60), <2>2 DEF HandsInv, OneHolder
  <2> QED
    BY ZenonT(60), <1>0, <2>3, <2>4, <2>5 DEF HandsInv
<1>29. ASSUME EventsDone PROVE HandsInv'
  BY ZenonT(60), <1>0, <1>29, RequestsAssumption
     DEF EventsDone, Goto, HandsInv, PartsAreHeld, OwnParts, OneHolder, Posting,
         AfterParts, Unprepared, PartTypes, ThreadTypes, Threads
<1>30. ASSUME DecideCompleted PROVE HandsInv'
  BY SMTT(60), <1>0, <1>30, RequestsAssumption
     DEF DecideCompleted, Goto, HandsInv, PartsAreHeld, OwnParts, OneHolder, Posting,
         AfterParts, Unprepared, PartTypes, ThreadTypes, Threads
<1>31. ASSUME SendHandoff PROVE HandsInv'
  BY ZenonT(60), <1>0, <1>31, RequestsAssumption
     DEF SendHandoff, Goto, HandsInv, PartsAreHeld, OwnParts, OneHolder, Posting,
         AfterParts, Unprepared, PartTypes, ThreadTypes, Threads
<1> QED
  BY ZenonT(150), <1>1, <1>2, <1>3, <1>4, <1>5, <1>6, <1>7, <1>8, <1>9, <1>10, <1>11,
     <1>12, <1>13, <1>14, <1>15, <1>16, <1>17, <1>18, <1>19, <1>20, <1>21,
     <1>22, <1>23, <1>24, <1>25, <1>26, <1>27, <1>28, <1>29, <1>30, <1>31
     DEF Next, vars, Submitter, Poster, ProgressThread, Closer

\* parts_left_ is written when the parts are built and when one is finished.
LEMMA PartsLeftMoves ==
    ASSUME TypeOK, [Next]_vars
    PROVE  \A x \in Requests : \/ partsLeft'[x] = partsLeft[x]
                               \/ Prepare(x)
                               \/ \E t \in Threads : PartFinished(t) /\ cur[t][1] = x
<1> DEFINE Goal == \A x \in Requests : \/ partsLeft'[x] = partsLeft[x]
                                       \/ Prepare(x)
                                       \/ \E t \in Threads : PartFinished(t) /\ cur[t][1] = x
<1>a. ASSUME NEW r \in Requests, Prepare(r) PROVE Goal
  <2>1. \A x \in Requests : x # r => partsLeft'[x] = partsLeft[x]
    BY ZenonT(60), <1>a DEF Prepare, TypeOK, RequestTypes
  <2> QED
    BY ZenonT(60), <1>a, <2>1
<1>b. ASSUME NEW t \in Threads, PartFinished(t) PROVE Goal
  <2>1. \A x \in Requests : x # cur[t][1] => partsLeft'[x] = partsLeft[x]
    BY ZenonT(60), <1>b DEF PartFinished, TypeOK, RequestTypes
  <2> QED
    BY ZenonT(60), <1>b, <2>1
<1> USE DEF TypeOK, RequestTypes,
            Goto, Resume, data, engine, world, threadVars, locals, reqVars,
            outVars, peerVars, reapVars
<1>1. ASSUME NEW r \in Requests, Submitter(r) PROVE Goal
  BY ZenonT(60), <1>a, <1>1 DEF Submitter, Enter, CheckBound, Admit, PostNext, Return
<1>2. ASSUME NEW t \in Threads, Poster(t) PROVE Goal
  BY ZenonT(60), <1>b, <1>2 DEF Poster, PostCheck, PostSubmit, PostCount, SealIfIdle, Claim,
              DecideAbandoned, Finish, Publish
<1>3. ASSUME ProgressThread PROVE Goal
  BY ZenonT(60), <1>3 DEF ProgressThread, ProgressStop, DrainBegin, DrainNext, DrainEnd,
              ReapScan, ReapStop, ReapClaim, ReapFail, ReapNext,
              PollTransports, HandleEvent, EventsDone, DecideCompleted,
              SendHandoff
<1>4. ASSUME \/ \E r \in Requests : Cancel(r) \/ DependencySettles(r)
             \/ PollCompletions \/ Closer
             \/ \E p \in Peers : RemovePeer(p) \/ RemoveStop(p) \/ PeerGoes(p)
             \/ \E o \in Ops : TransportCompletes(o)
      PROVE  Goal
  BY ZenonT(60), <1>4 DEF Cancel, DependencySettles, PollCompletions, Closer, CloseBegin,
              CloseTimeout, CloseDrained, CloseJoin, SetClosing, RemovePeer,
              RemoveStop, PeerGoes, TransportCompletes
<1>5. ASSUME UNCHANGED vars PROVE Goal
  BY ZenonT(60), <1>5 DEF vars
<1> QED
  BY ZenonT(60), <1>1, <1>2, <1>3, <1>4, <1>5 DEF Next

\* parts_left_ counts the parts that may still post.
LEMMA PartsCountedStep ==
    ASSUME TypeOK, HandsInv, PartsCounted, [Next]_vars
    PROVE  PartsCounted'
<1> SUFFICES ASSUME NEW x \in Requests, pc'[x] \notin Unprepared
             PROVE  partsLeft'[x] = Cardinality(LiveParts(x)')
  BY ZenonT(60) DEF PartsCounted, Unprepared
<1>1. \A l \in Lanes : PlaceMove(x, l, place[<<x, l>>], place'[<<x, l>>])
  BY ZenonT(60), PlaceMoves
<1>2. LiveParts(x) \in SUBSET Lanes /\ LiveParts(x)' \in SUBSET Lanes
  BY ZenonT(60) DEF LiveParts
<1>3. CASE Prepare(x)
  <2>1. \A l \in Lanes : place'[<<x, l>>] = IF l \notin PartsOf(x) THEN place[<<x, l>>]
                           ELSE IF dep[x] = "waiting" THEN "pending" ELSE "todo"
    BY ZenonT(60), <1>3 DEF Prepare, Parts
  <2>2. \A l \in Lanes : place[<<x, l>>] = "none"
    BY ZenonT(60), <1>3 DEF Prepare, HandsInv, PartsAreBuilt, Unprepared
  <2>3. LiveParts(x)' = PartsOf(x)
    BY ZenonT(60), <2>1, <2>2 DEF LiveParts, PartsOf
  <2> QED
    BY ZenonT(60), <1>3, <2>3 DEF Prepare, TypeOK, RequestTypes
<1>4. ASSUME NEW t \in Threads, PartFinished(t), cur[t][1] = x
      PROVE  partsLeft'[x] = Cardinality(LiveParts(x)')
  <2>1. cur[t] \in Parts /\ cur[t] = <<x, cur[t][2]>> /\ cur[t][2] \in Lanes
    BY SMTT(60), <1>4 DEF TypeOK, ThreadTypes, Parts
  <2>2. place[cur[t]] = "held"
    BY ZenonT(60), <1>4 DEF PartFinished, HandsInv, PartsAreHeld, Posting
  <2>3. pc[x] \notin Unprepared
    BY ZenonT(60), <2>1, <2>2 DEF HandsInv, PartsAreBuilt
  <2>4. partsLeft[x] = Cardinality(LiveParts(x))
    BY ZenonT(60), <2>3 DEF PartsCounted
  <2>5. cur[t][2] \in LiveParts(x)
    BY ZenonT(60), <2>1, <2>2 DEF LiveParts
  <2>6. \A l \in Lanes : place'[<<x, l>>] = IF l = cur[t][2] THEN "done" ELSE place[<<x, l>>]
    BY SMTT(60), <1>4, <2>1 DEF PartFinished, TypeOK, PartTypes, Parts
  <2>7. LiveParts(x)' = LiveParts(x) \ {cur[t][2]}
    BY ZenonT(60), <2>6 DEF LiveParts
  <2>8. Cardinality(LiveParts(x)') = Cardinality(LiveParts(x)) - 1
    BY SMTT(60), <1>2, <2>5, <2>7, LanesFinite, FS_RemoveElement
  <2>9. Cardinality(LiveParts(x)') \in Nat
    BY ZenonT(60), <1>2, LanesFinite
  <2> QED
    BY SMTT(60), <1>4, <2>4, <2>8, <2>9 DEF PartFinished, TypeOK, RequestTypes
<1>5. CASE /\ ~Prepare(x)
           /\ ~ \E t \in Threads : PartFinished(t) /\ cur[t][1] = x
  <2>1. partsLeft'[x] = partsLeft[x]
    BY ZenonT(60), <1>5, PartsLeftMoves
  <2>2. pc[x] \notin Unprepared
    BY ZenonT(60), <1>5, PcMoves
  <2>3. \A l \in Lanes : ~ \E t \in Threads : PartFinished(t) /\ cur[t] = <<x, l>>
    BY SMTT(60), <1>5
  <2>4. LiveParts(x)' = LiveParts(x)
    BY ZenonT(60), <1>1, <1>5, <2>3 DEF LiveParts, PlaceMove
  <2> QED
    BY ZenonT(60), <2>1, <2>2, <2>4 DEF PartsCounted
<1> QED
  BY ZenonT(60), <1>3, <1>4, <1>5

\* Only a submit, and the count that follows it, changes what transports have
\* taken or what accepted_subops_ says.
LEMMA AcceptedMoves ==
    ASSUME TypeOK, [Next]_vars
    PROVE  \/ \E t \in Threads : PostSubmit(t) \/ PostCount(t)
           \/ /\ accepted' = accepted
              /\ \A o \in Ops : op[o] = "queued" => op'[o] \in {"queued", "dropped"}
              /\ \A t \in Threads : /\ pc'[t] = "count" <=> pc[t] = "count"
                                    /\ pc[t] = "count" => cur'[t] = cur[t] /\ sr'[t] = sr[t]
<1> SUFFICES ASSUME ~ \E t \in Threads : PostSubmit(t) \/ PostCount(t)
             PROVE  /\ accepted' = accepted
                    /\ \A o \in Ops : op[o] = "queued" => op'[o] \in {"queued", "dropped"}
                    /\ \A t \in Threads : /\ pc'[t] = "count" <=> pc[t] = "count"
                                          /\ pc[t] = "count" => cur'[t] = cur[t] /\ sr'[t] = sr[t]
  OBVIOUS
<1>1. accepted' = accepted
  <2> USE DEF TypeOK, RequestTypes,
              Goto, Resume, data, engine, world, threadVars, locals, reqVars,
              outVars, peerVars, reapVars
  <2>1. ASSUME NEW r \in Requests, Submitter(r) PROVE accepted' = accepted
    BY ZenonT(60), <2>1 DEF Submitter, Enter, CheckBound, Admit, Prepare, PostNext, Return
  <2>2. ASSUME NEW t \in Threads, Poster(t) PROVE accepted' = accepted
    BY ZenonT(60), <2>2 DEF Poster, PostCheck, PartFinished, SealIfIdle, Claim,
                DecideAbandoned, Finish, Publish
  <2>3. ASSUME ProgressThread PROVE accepted' = accepted
    BY ZenonT(60), <2>3 DEF ProgressThread, ProgressStop, DrainBegin, DrainNext, DrainEnd,
                ReapScan, ReapStop, ReapClaim, ReapFail, ReapNext,
                PollTransports, HandleEvent, EventsDone, DecideCompleted,
                SendHandoff
  <2>4. ASSUME \/ \E r \in Requests : Cancel(r) \/ DependencySettles(r)
               \/ PollCompletions \/ Closer
               \/ \E p \in Peers : RemovePeer(p) \/ RemoveStop(p) \/ PeerGoes(p)
               \/ \E o \in Ops : TransportCompletes(o)
        PROVE  accepted' = accepted
    BY ZenonT(60), <2>4 DEF Cancel, DependencySettles, PollCompletions, Closer,
                CloseBegin, CloseTimeout, CloseDrained, CloseJoin, SetClosing,
                RemovePeer, RemoveStop, PeerGoes, TransportCompletes
  <2>5. ASSUME UNCHANGED vars PROVE accepted' = accepted
    BY ZenonT(60), <2>5 DEF vars
  <2> QED
    BY ZenonT(150), <2>1, <2>2, <2>3, <2>4, <2>5 DEF Next
<1>2. \A o \in Ops : op[o] = "queued" => op'[o] \in {"queued", "dropped"}
  <2> DEFINE Goal == \A o \in Ops : op[o] = "queued" => op'[o] \in {"queued", "dropped"}
  <2> USE DEF TypeOK, PartTypes, Queued, Flushed,
              Goto, Resume, data, engine, world, threadVars, locals, reqVars,
              outVars, peerVars, reapVars
  <2>1. ASSUME NEW r \in Requests, Submitter(r) PROVE Goal
    BY ZenonT(60), <2>1 DEF Submitter, Enter, CheckBound, Admit, Prepare, PostNext, Return
  <2>2. ASSUME NEW t \in Threads, Poster(t) PROVE Goal
    BY ZenonT(60), <2>2 DEF Poster, PostCheck, PartFinished, SealIfIdle, Claim,
                DecideAbandoned, Finish, Publish
  <2>3. ASSUME ProgressThread PROVE Goal
    BY ZenonT(90), <2>3 DEF ProgressThread, ProgressStop, DrainBegin, DrainNext, DrainEnd,
                ReapScan, ReapStop, ReapClaim, ReapFail, ReapNext,
                PollTransports, HandleEvent, EventsDone, DecideCompleted,
                SendHandoff
  <2>4. ASSUME \/ \E r \in Requests : Cancel(r) \/ DependencySettles(r)
               \/ PollCompletions \/ Closer
               \/ \E p \in Peers : RemovePeer(p) \/ RemoveStop(p) \/ PeerGoes(p)
               \/ \E o \in Ops : TransportCompletes(o)
        PROVE  Goal
    BY ZenonT(60), <2>4 DEF Cancel, DependencySettles, PollCompletions, Closer,
                CloseBegin, CloseTimeout, CloseDrained, CloseJoin, SetClosing,
                RemovePeer, RemoveStop, PeerGoes, TransportCompletes
  <2>5. ASSUME UNCHANGED vars PROVE Goal
    BY ZenonT(60), <2>5 DEF vars
  <2> QED
    BY ZenonT(150), <2>1, <2>2, <2>3, <2>4, <2>5 DEF Next
<1>3. \A u \in Threads : /\ pc'[u] = "count" <=> pc[u] = "count"
                         /\ pc[u] = "count" => cur'[u] = cur[u] /\ sr'[u] = sr[u]
  <2> DEFINE Goal == \A u \in Threads : /\ pc'[u] = "count" <=> pc[u] = "count"
                                        /\ pc[u] = "count" => cur'[u] = cur[u] /\ sr'[u] = sr[u]
  <2> USE DEF TypeOK, ThreadTypes, Threads,
              Goto, Resume, data, engine, world, threadVars, locals, reqVars,
              outVars, peerVars, reapVars
  <2>1. ASSUME NEW r \in Requests, Submitter(r) PROVE Goal
    BY ZenonT(60), <2>1 DEF Submitter, Enter, CheckBound, Admit, Prepare, PostNext, Return
  <2>2. ASSUME NEW t \in Threads, Poster(t) PROVE Goal
    BY ZenonT(90), <2>2 DEF Poster, PostCheck, PartFinished, SealIfIdle, Claim,
                DecideAbandoned, Finish, Publish
  <2>3. ASSUME ProgressThread PROVE Goal
    <3>1. \A u \in Threads : u # Progress => pc'[u] = pc[u] /\ cur'[u] = cur[u]
      BY ZenonT(90), <2>3 DEF ProgressThread, ProgressStop, DrainBegin, DrainNext, DrainEnd,
                  ReapScan, ReapStop, ReapClaim, ReapFail, ReapNext,
                  PollTransports, HandleEvent, EventsDone, DecideCompleted,
                  SendHandoff
    <3>2. sr' = sr /\ pc[Progress] # "count"
      BY ZenonT(60), <2>3 DEF ProgressThread, ProgressStop, DrainBegin, DrainNext, DrainEnd,
                  ReapScan, ReapStop, ReapClaim, ReapFail, ReapNext,
                  PollTransports, HandleEvent, EventsDone, DecideCompleted,
                  SendHandoff
    <3>3. pc'[Progress] # "count"
      BY ZenonT(90), <2>3 DEF ProgressThread, ProgressStop, DrainBegin, DrainNext, DrainEnd,
                  ReapScan, ReapStop, ReapClaim, ReapFail, ReapNext,
                  PollTransports, HandleEvent, EventsDone, DecideCompleted,
                  SendHandoff
    <3> QED
      BY ZenonT(60), <3>1, <3>2, <3>3
  <2>4. ASSUME \/ \E r \in Requests : Cancel(r) \/ DependencySettles(r)
               \/ PollCompletions \/ Closer
               \/ \E p \in Peers : RemovePeer(p) \/ RemoveStop(p) \/ PeerGoes(p)
               \/ \E o \in Ops : TransportCompletes(o)
        PROVE  Goal
    BY ZenonT(60), <2>4 DEF Cancel, DependencySettles, PollCompletions, Closer,
                CloseBegin, CloseTimeout, CloseDrained, CloseJoin, SetClosing,
                RemovePeer, RemoveStop, PeerGoes, TransportCompletes
  <2>5. ASSUME UNCHANGED vars PROVE Goal
    BY ZenonT(60), <2>5 DEF vars
  <2> QED
    BY ZenonT(60), <2>1, <2>2, <2>3, <2>4, <2>5 DEF Next
<1> QED
  BY ZenonT(60), <1>1, <1>2, <1>3

\* accepted_subops_, with what a thread has yet to add to it, counts what
\* transports have taken.
LEMMA AcceptedCountedStep ==
    ASSUME TypeOK, HandsInv, AcceptedCounted, [Next]_vars
    PROVE  AcceptedCounted'
<1> SUFFICES ASSUME NEW x \in Requests
             PROVE  accepted'[x] + Uncounted(x, x)' + Uncounted(Progress, x)'
                       = Cardinality(Taken(x)')
  BY ZenonT(60) DEF AcceptedCounted
<1>1. accepted[x] + Uncounted(x, x) + Uncounted(Progress, x) = Cardinality(Taken(x))
  BY ZenonT(60) DEF AcceptedCounted
<1>2. /\ accepted[x] \in Nat /\ x \in Threads /\ Progress \in Threads /\ x # Progress
      /\ \A t \in Threads : sr[t].accepted \in Nat
  BY ZenonT(60), RequestsAssumption DEF TypeOK, RequestTypes, ThreadTypes, Threads
<1>3. \A t \in Threads : Uncounted(t, x) \in Nat
  BY ZenonT(60), <1>2 DEF Uncounted
<1>4. Taken(x) \in SUBSET Ops /\ Taken(x)' \in SUBSET Ops
  BY ZenonT(60) DEF Taken, OpsOf
<1>5. ASSUME NEW t \in Threads, PostSubmit(t)
      PROVE  accepted'[x] + Uncounted(x, x)' + Uncounted(Progress, x)' = Cardinality(Taken(x)')
  <2>1. PICK taken \in Prefixes(cur[t]), s \in {"ok", "wouldBlock", "error"} :
           /\ op' = [o \in Ops |-> IF o \in taken
                                   THEN IF PeerOf[cur[t][1]] \in stopped THEN "err" ELSE "nic"
                                   ELSE op[o]]
           /\ sr' = [sr EXCEPT ![t] = [accepted |-> Cardinality(taken), status |-> s]]
    BY ZenonT(60), <1>5 DEF PostSubmit, ProviderSubmit
  <2>2. /\ taken \in SUBSET Ops
        /\ \A o \in taken : o[1] = cur[t] /\ op[o] = "queued"
    BY ZenonT(60), <2>1 DEF Prefixes, Queued
  <2>3. /\ accepted' = accepted /\ cur' = cur
        /\ pc[t] = "submit" /\ pc' = [pc EXCEPT ![t] = "count"]
    BY ZenonT(60), <1>5 DEF PostSubmit, Goto
  <2>4. Cardinality(taken) \in Nat /\ IsFiniteSet(taken)
    BY ZenonT(60), <2>2, OpsFinite
  <2>5. \A u \in Threads : u # t => Uncounted(u, x)' = Uncounted(u, x)
    BY ZenonT(60), <2>1, <2>3 DEF Uncounted, TypeOK, ThreadTypes
  <2>6. Uncounted(t, x) = 0
    BY ZenonT(60), <2>3 DEF Uncounted
  <2>7. CASE cur[t][1] = x
    <3>1. t = x \/ t = Progress
      BY ZenonT(60), <2>3, <2>7 DEF Threads, HandsInv, OwnParts, Posting
    <3>2. Uncounted(t, x)' = Cardinality(taken)
      BY ZenonT(60), <2>1, <2>3, <2>7 DEF Uncounted, TypeOK, ThreadTypes
    <3>3. Taken(x)' = Taken(x) \cup taken
      BY ZenonT(60), <2>1, <2>2, <2>7 DEF Taken, OpsOf, TypeOK, PartTypes
    <3>4. Taken(x) \cap taken = {}
      BY ZenonT(60), <2>2 DEF Taken
    <3>5. Cardinality(Taken(x) \cup taken) = Cardinality(Taken(x)) + Cardinality(taken)
      <4>1. IsFiniteSet(Taken(x)) /\ Cardinality(Taken(x)) \in Nat
        BY ZenonT(60), <1>4, OpsFinite
      <4> QED
        BY SMTT(60), <2>4, <3>4, <4>1, FS_Union, FS_EmptySet
    <3> QED
      BY SMTT(60), <1>1, <1>2, <1>3, <2>3, <2>4, <2>5, <2>6, <3>1, <3>2, <3>3, <3>5
  <2>8. CASE cur[t][1] # x
    <3>1. Uncounted(t, x)' = 0
      BY ZenonT(60), <2>3, <2>8 DEF Uncounted
    <3>2. Taken(x)' = Taken(x)
      BY ZenonT(60), <2>1, <2>2, <2>8 DEF Taken, OpsOf, TypeOK, PartTypes
    <3> QED
      BY ZenonT(60), <1>1, <1>2, <2>3, <2>5, <2>6, <3>1, <3>2
  <2> QED
    BY ZenonT(60), <2>7, <2>8
<1>6. ASSUME NEW t \in Threads, PostCount(t)
      PROVE  accepted'[x] + Uncounted(x, x)' + Uncounted(Progress, x)' = Cardinality(Taken(x)')
  <2>1. /\ pc[t] = "count" /\ sr' = [sr EXCEPT ![t] = NoResult]
        /\ accepted' = [accepted EXCEPT ![cur[t][1]] = @ + sr[t].accepted]
    BY ZenonT(60), <1>6 DEF PostCount
  <2>2. \A o \in Ops : op'[o] = op[o] \/ (op[o] = "queued" /\ op'[o] = "dropped")
    BY ZenonT(60), <1>6 DEF PostCount, Queued, TypeOK, PartTypes
  <2>3. Taken(x)' = Taken(x)
    BY ZenonT(60), <2>2 DEF Taken, OpsOf
  <2>4. \A u \in Threads : u # t => pc'[u] = pc[u] /\ cur'[u] = cur[u] /\ sr'[u] = sr[u]
    BY ZenonT(60), <1>6 DEF PostCount, Goto, Resume, TypeOK, ThreadTypes
  <2>5. \A u \in Threads : u # t => Uncounted(u, x)' = Uncounted(u, x)
    BY ZenonT(60), <2>4 DEF Uncounted
  <2>6. pc'[t] # "count"
    BY ZenonT(60), <1>6 DEF PostCount, Goto, Resume, TypeOK, ThreadTypes
  <2>7. Uncounted(t, x)' = 0
    BY ZenonT(60), <2>6 DEF Uncounted
  <2>8. CASE cur[t][1] = x
    <3>1. t = x \/ t = Progress
      BY ZenonT(60), <2>1, <2>8 DEF Threads, HandsInv, OwnParts, Posting
    <3>2. Uncounted(t, x) = sr[t].accepted
      BY ZenonT(60), <2>1, <2>8 DEF Uncounted
    <3>3. accepted'[x] = accepted[x] + sr[t].accepted
      BY ZenonT(60), <2>1, <2>8 DEF TypeOK, RequestTypes
    <3> QED
      BY SMTT(60), <1>1, <1>2, <1>3, <2>3, <2>5, <2>7, <3>1, <3>2, <3>3
  <2>9. CASE cur[t][1] # x
    <3>1. Uncounted(t, x) = 0 /\ accepted'[x] = accepted[x]
      BY ZenonT(60), <2>1, <2>9 DEF Uncounted, TypeOK, RequestTypes
    <3> QED
      BY ZenonT(60), <1>1, <1>2, <2>3, <2>5, <2>7, <3>1
  <2> QED
    BY ZenonT(60), <2>8, <2>9
<1>7. CASE ~ \E t \in Threads : PostSubmit(t) \/ PostCount(t)
  <2>1. /\ accepted' = accepted
        /\ \A o \in Ops : op[o] = "queued" => op'[o] \in {"queued", "dropped"}
        /\ \A t \in Threads : /\ pc'[t] = "count" <=> pc[t] = "count"
                              /\ pc[t] = "count" => cur'[t] = cur[t] /\ sr'[t] = sr[t]
    BY ZenonT(60), <1>7, AcceptedMoves
  <2>2. \A o \in Ops : OpMove(op[o], op'[o])
    BY ZenonT(60), OpMoves
  <2>3. Taken(x)' = Taken(x)
    BY ZenonT(60), <2>1, <2>2 DEF Taken, OpsOf, OpMove
  <2>4. \A t \in Threads : Uncounted(t, x)' = Uncounted(t, x)
    BY ZenonT(60), <2>1 DEF Uncounted
  <2> QED
    BY ZenonT(60), <1>1, <1>2, <2>1, <2>3, <2>4
<1> QED
  BY ZenonT(60), <1>5, <1>6, <1>7

\* Only on_subop_complete counts a completion.
LEMMA CompletedMoves ==
    ASSUME TypeOK, [Next]_vars
    PROVE  \/ \E o \in Ops : HandleEvent(o)
           \/ /\ completed' = completed
              /\ \A o \in Ops : op'[o] \in {"doneOk", "doneErr"} => op'[o] = op[o]
<1> SUFFICES ASSUME ~ \E o \in Ops : HandleEvent(o)
             PROVE  /\ completed' = completed
                    /\ \A o \in Ops : op'[o] \in {"doneOk", "doneErr"} => op'[o] = op[o]
  OBVIOUS
<1>1. completed' = completed
  <2> USE DEF TypeOK, RequestTypes,
              Goto, Resume, data, engine, world, threadVars, locals, reqVars,
              outVars, peerVars, reapVars
  <2>1. ASSUME NEW r \in Requests, Submitter(r) PROVE completed' = completed
    BY ZenonT(60), <2>1 DEF Submitter, Enter, CheckBound, Admit, Prepare, PostNext, Return
  <2>2. ASSUME NEW t \in Threads, Poster(t) PROVE completed' = completed
    BY ZenonT(60), <2>2 DEF Poster, PostCheck, PostSubmit, PostCount, PartFinished,
                SealIfIdle, Claim, DecideAbandoned, Finish, Publish
  <2>3. ASSUME ProgressThread PROVE completed' = completed
    BY ZenonT(60), <2>3 DEF ProgressThread, ProgressStop, DrainBegin, DrainNext, DrainEnd,
                ReapScan, ReapStop, ReapClaim, ReapFail, ReapNext,
                PollTransports, EventsDone, DecideCompleted, SendHandoff
  <2>4. ASSUME \/ \E r \in Requests : Cancel(r) \/ DependencySettles(r)
               \/ PollCompletions \/ Closer
               \/ \E p \in Peers : RemovePeer(p) \/ RemoveStop(p) \/ PeerGoes(p)
               \/ \E o \in Ops : TransportCompletes(o)
        PROVE  completed' = completed
    BY ZenonT(60), <2>4 DEF Cancel, DependencySettles, PollCompletions, Closer,
                CloseBegin, CloseTimeout, CloseDrained, CloseJoin, SetClosing,
                RemovePeer, RemoveStop, PeerGoes, TransportCompletes
  <2>5. ASSUME UNCHANGED vars PROVE completed' = completed
    BY ZenonT(60), <2>5 DEF vars
  <2> QED
    BY ZenonT(60), <2>1, <2>2, <2>3, <2>4, <2>5 DEF Next
<1>2. \A x \in Ops : op'[x] \in {"doneOk", "doneErr"} => op'[x] = op[x]
  <2> DEFINE Goal == \A x \in Ops : op'[x] \in {"doneOk", "doneErr"} => op'[x] = op[x]
  <2> USE DEF TypeOK, PartTypes, Queued, Flushed, ProviderSubmit,
              Goto, Resume, data, engine, world, threadVars, locals, reqVars,
              outVars, peerVars, reapVars
  <2>1. ASSUME NEW r \in Requests, Submitter(r) PROVE Goal
    BY ZenonT(60), <2>1 DEF Submitter, Enter, CheckBound, Admit, Prepare, PostNext, Return
  <2>2. ASSUME NEW t \in Threads, Poster(t) PROVE Goal
    BY ZenonT(90), <2>2 DEF Poster, PostCheck, PostSubmit, PostCount, PartFinished,
                SealIfIdle, Claim, DecideAbandoned, Finish, Publish
  <2>3. ASSUME ProgressThread PROVE Goal
    BY ZenonT(60), <2>3 DEF ProgressThread, ProgressStop, DrainBegin, DrainNext, DrainEnd,
                ReapScan, ReapStop, ReapClaim, ReapFail, ReapNext,
                PollTransports, EventsDone, DecideCompleted, SendHandoff
  <2>4. ASSUME \/ \E r \in Requests : Cancel(r) \/ DependencySettles(r)
               \/ PollCompletions \/ Closer
               \/ \E p \in Peers : RemovePeer(p) \/ RemoveStop(p) \/ PeerGoes(p)
               \/ \E o \in Ops : TransportCompletes(o)
        PROVE  Goal
    BY ZenonT(90), <2>4 DEF Cancel, DependencySettles, PollCompletions, Closer,
                CloseBegin, CloseTimeout, CloseDrained, CloseJoin, SetClosing,
                RemovePeer, RemoveStop, PeerGoes, TransportCompletes
  <2>5. ASSUME UNCHANGED vars PROVE Goal
    BY ZenonT(60), <2>5 DEF vars
  <2> QED
    BY ZenonT(150), <2>1, <2>2, <2>3, <2>4, <2>5 DEF Next
<1> QED
  BY ZenonT(60), <1>1, <1>2

\* completed_subops_ counts the completions.
LEMMA CompletedCountedStep ==
    ASSUME TypeOK, CompletedCounted, [Next]_vars
    PROVE  CompletedCounted'
<1> SUFFICES ASSUME NEW x \in Requests PROVE completed'[x] = Cardinality(Done(x)')
  BY ZenonT(60) DEF CompletedCounted
<1>1. completed[x] = Cardinality(Done(x))
  BY ZenonT(60) DEF CompletedCounted
<1>2. ASSUME NEW o \in Ops, HandleEvent(o) PROVE completed'[x] = Cardinality(Done(x)')
  <2>1. o[1][1] \in Requests
    BY ZenonT(60) DEF Ops, Parts
  <2>2. CASE o[1][1] = x /\ x \in inflight /\ ~Terminal(x)
    <3>1. completed'[x] = completed[x] + 1
      BY ZenonT(90), <1>2, <2>2 DEF HandleEvent, TypeOK, RequestTypes
    <3>2. op[o] \in {"pollOk", "pollErr"} /\ op'[o] \in {"doneOk", "doneErr"}
      BY ZenonT(60), <1>2, <2>2 DEF HandleEvent, TypeOK, PartTypes
    <3>3. \A q \in Ops : q # o => op'[q] = op[q]
      BY ZenonT(60), <1>2 DEF HandleEvent, TypeOK, PartTypes
    <3>4. Done(x)' = Done(x) \cup {o} /\ o \notin Done(x)
      BY ZenonT(60), <2>2, <3>2, <3>3 DEF Done, OpsOf
    <3>5. IsFiniteSet(Done(x))
      BY ZenonT(60), OpsFinite DEF Done, OpsOf
    <3> QED
      BY ZenonT(60), <1>1, <3>1, <3>4, <3>5, FS_AddElement
  <2>3. CASE ~(o[1][1] = x /\ x \in inflight /\ ~Terminal(x))
    <3>1. completed'[x] = completed[x]
      BY ZenonT(60), <1>2, <2>1, <2>3 DEF HandleEvent, TypeOK, RequestTypes
    <3>2. op[o] \in {"pollOk", "pollErr"} /\ \A q \in Ops : q # o => op'[q] = op[q]
      BY ZenonT(60), <1>2 DEF HandleEvent, TypeOK, PartTypes
    <3>3. o[1][1] = x => op'[o] = "lost"
      BY ZenonT(60), <1>2, <2>3 DEF HandleEvent, TypeOK, PartTypes
    <3>4. Done(x)' = Done(x)
      BY ZenonT(60), <3>2, <3>3 DEF Done, OpsOf
    <3> QED
      BY ZenonT(60), <1>1, <3>1, <3>4
  <2> QED
    BY ZenonT(60), <2>2, <2>3
<1>3. CASE ~ \E o \in Ops : HandleEvent(o)
  <2>1. /\ completed' = completed
        /\ \A o \in Ops : op'[o] \in {"doneOk", "doneErr"} => op'[o] = op[o]
    BY ZenonT(60), <1>3, CompletedMoves
  <2>2. \A o \in Ops : OpMove(op[o], op'[o])
    BY ZenonT(60), OpMoves
  <2>3. Done(x)' = Done(x)
    BY ZenonT(60), <2>1, <2>2 DEF Done, OpsOf, OpMove
  <2> QED
    BY ZenonT(60), <1>1, <2>1, <2>3
<1> QED
  BY ZenonT(60), <1>2, <1>3
=============================================================================
