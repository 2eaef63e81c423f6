-------------------------- MODULE TransfersPromise --------------------------
(***************************************************************************)
(* Proofs about Transfers, last part: what the invariants of the endings   *)
(* give a caller.  Successes are whole, endings are reported and counted   *)
(* exactly, close() drains, and the engine implements RequestLifecycle.    *)
(***************************************************************************)
EXTENDS TransfersEndings

-----------------------------------------------------------------------------
(* Counting the endings.                                                   *)

\* Threads and requests, and any collection of them, can be counted.
LEMMA ThreadsFinite ==
    /\ \A S \in SUBSET Threads : IsFiniteSet(S) /\ Cardinality(S) \in Nat
    /\ \A S \in SUBSET Requests : IsFiniteSet(S) /\ Cardinality(S) \in Nat
<1>1. IsFiniteSet(Threads)
  BY ZenonT(60), FS_AddElement, RequestsAssumption DEF Threads
<1> QED
  BY ZenonT(60), <1>1, FS_Subset, FS_CardinalityType, RequestsAssumption

\* Sets with nothing in common are counted apart.
LEMMA DisjointCount ==
    ASSUME NEW A, NEW B, IsFiniteSet(A), IsFiniteSet(B), A \cap B = {}
    PROVE  Cardinality(A \cup B) = Cardinality(A) + Cardinality(B)
<1>1. Cardinality(A) \in Nat /\ Cardinality(B) \in Nat
  BY ZenonT(60), FS_CardinalityType
<1>2. Cardinality(A \cup B) = Cardinality(A) + Cardinality(B) - Cardinality(A \cap B)
  BY ZenonT(60), FS_Union
<1>3. Cardinality(A \cap B) = 0
  BY ZenonT(60), FS_EmptySet
<1> QED
  BY SMTT(60), <1>1, <1>2, <1>3

\* A list without repetition is as long as it has elements.
LEMMA ListCount ==
    ASSUME NEW S, NEW s \in Seq(S), Distinct(s)
    PROVE  IsFiniteSet(Elems(s)) /\ Cardinality(Elems(s)) = Len(s)
<1>1. Len(s) \in Nat
  BY SMTT(60)
<1>2. IsFiniteSet(1 .. Len(s)) /\ Cardinality(1 .. Len(s)) = Len(s)
  BY SMTT(60), <1>1, FS_Interval
<1> DEFINE f == [i \in 1 .. Len(s) |-> s[i]]
<1>3. f \in [1 .. Len(s) -> Elems(s)]
  BY ZenonT(60) DEF Elems
<1>4. \A a, b \in 1 .. Len(s) : f[a] = f[b] => a = b
  BY ZenonT(60) DEF Distinct
<1>5. \A y \in Elems(s) : \E i \in 1 .. Len(s) : f[i] = y
  BY ZenonT(60) DEF Elems
<1> HIDE DEF f
<1>6. f \in Bijection(1 .. Len(s), Elems(s))
  BY ZenonT(60), <1>3, <1>4, <1>5 DEF Bijection, Injection, Surjection, IsInjective
<1> QED
  BY ZenonT(60), <1>2, <1>6, FS_Bijection DEF ExistsBijection

\* Each ending is queued for poll_completions once: in sets, ReportInv; in
\* numbers, EndsAreReportedOnce.
LEMMA ReportedExactly ==
    ASSUME TypeOK, ReportInv
    PROVE  EndsAreReportedOnce
<1>0. /\ ListsApart /\ ReportedEnded /\ ReportersOwn /\ EndedReported
      /\ completedQ \in Seq(Requests) /\ polled \in SUBSET Requests
      /\ dropped \in SUBSET Requests
      /\ \A t \in Threads : cur[t][1] \in Requests
  BY ZenonT(60), CurType DEF ReportInv, TypeOK, EngineTypes
<1> DEFINE E == Elems(completedQ)
           Ended == {r \in Requests : Terminal(r)}
           P == {t \in Threads : pc[t] = "publish"}
           R == Ended \ Published
<1>1. Published = E \cup polled \cup dropped
  BY ZenonT(60) DEF Published, Elems
<1>2. IsFiniteSet(E) /\ Cardinality(E) = Len(completedQ) /\ E \in SUBSET Requests
  <2>1. E \in SUBSET Requests
    BY SMTT(60), <1>0 DEF Elems
  <2> QED
    BY ZenonT(60), <1>0, <2>1, ListCount DEF ListsApart
<1>3. Published \in SUBSET Ended
  BY ZenonT(60), <1>0, <1>1, <1>2 DEF ReportedEnded
<1>4. Cardinality(Published) = Len(completedQ) + Cardinality(polled) + Cardinality(dropped)
  <2>1. E \cap polled = {} /\ (E \cup polled) \cap dropped = {}
    BY ZenonT(60), <1>0 DEF ListsApart
  <2> HIDE DEF E
  <2>2. /\ IsFiniteSet(polled) /\ Cardinality(polled) \in Nat
        /\ IsFiniteSet(dropped) /\ Cardinality(dropped) \in Nat
        /\ IsFiniteSet(E \cup polled) /\ Cardinality(E) \in Nat
        /\ Cardinality(E \cup polled) \in Nat
    BY ZenonT(60), <1>0, <1>2, ThreadsFinite
  <2>3. Cardinality(E \cup polled) = Cardinality(E) + Cardinality(polled)
    BY ZenonT(60), <1>2, <2>1, <2>2, DisjointCount
  <2>4. Cardinality((E \cup polled) \cup dropped) = Cardinality(E \cup polled) + Cardinality(dropped)
    BY ZenonT(60), <2>1, <2>2, DisjointCount
  <2> QED
    BY SMTT(60), <1>1, <1>2, <2>2, <2>3, <2>4
<1>5. IsFiniteSet(P) /\ Cardinality(R) = Cardinality(P)
  <2>1. IsFiniteSet(P)
    BY ZenonT(60), ThreadsFinite
  <2> DEFINE g == [t \in P |-> cur[t][1]]
  <2>2. g \in [P -> R]
    <3> SUFFICES ASSUME NEW t \in P PROVE cur[t][1] \in R
      BY ZenonT(60)
    <3>1. t \in Threads /\ cur[t][1] \in Requests /\ Reports(t, cur[t][1])
      BY ZenonT(60), <1>0 DEF Reports
    <3> QED
      BY ZenonT(60), <1>0, <3>1 DEF ReportersOwn
  <2>3. \A a, b \in P : g[a] = g[b] => a = b
    <3> SUFFICES ASSUME NEW a \in P, NEW b \in P, cur[a][1] = cur[b][1] PROVE a = b
      BY ZenonT(60)
    <3>1. PICK x \in Requests : x = cur[a][1] /\ Reports(a, x) /\ Reports(b, x)
      BY ZenonT(60), <1>0 DEF Reports
    <3> QED
      BY ZenonT(60), <1>0, <3>1 DEF ReportersOwn
  <2>4. \A y \in R : \E t \in P : g[t] = y
    BY ZenonT(60), <1>0 DEF EndedReported, Reports
  <2> HIDE DEF g, P, R
  <2>5. g \in Bijection(P, R)
    BY ZenonT(60), <2>2, <2>3, <2>4 DEF Bijection, Injection, Surjection, IsInjective
  <2> QED
    BY ZenonT(60), <2>1, <2>5, FS_Bijection DEF ExistsBijection
<1>6. Cardinality(Ended) = Cardinality(Published) + Cardinality(P)
  <2>1. /\ Ended = Published \cup R /\ Published \cap R = {}
        /\ Ended \in SUBSET Requests /\ R \in SUBSET Requests
    BY ZenonT(60), <1>3
  <2> HIDE DEF Ended, P, R
  <2>2. /\ IsFiniteSet(Published) /\ Cardinality(Published) \in Nat
        /\ IsFiniteSet(R) /\ Cardinality(R) \in Nat
    BY ZenonT(60), <1>3, <2>1, ThreadsFinite
  <2>3. Cardinality(Published \cup R) = Cardinality(Published) + Cardinality(R)
    BY ZenonT(60), <2>1, <2>2, DisjointCount
  <2> QED
    BY ZenonT(60), <1>5, <2>1, <2>3
<1>7. Published \subseteq Ended
  BY <1>3
<1> QED
  BY ZenonT(60), <1>4, <1>6, <1>7 DEF EndsAreReportedOnce

\* The requests that have ended in a way, and the threads about to end one so.
EndedAs(v)  == {r \in Requests : state[r] = Outcome[v]}
EndingAs(v) == {t \in Threads : pc[t] = "end" /\ verdict[t] = v}
Verdicts    == {"succeeded", "failed", "cancelled"}

\* The counters change where a thread decides and where the reaper fails.
LEMMA StatsMoves ==
    ASSUME TypeOK, [Next]_vars
    PROVE  \/ stats' = stats
           \/ \E t \in Threads : DecideAbandoned(t)
           \/ DecideCompleted \/ SendHandoff \/ \E r \in Requests : ReapFail(r)
<1> DEFINE Goal == \/ stats' = stats
                   \/ \E t \in Threads : DecideAbandoned(t)
                   \/ DecideCompleted \/ SendHandoff \/ \E r \in Requests : ReapFail(r)
<1> USE DEF TypeOK, Goto, Resume, data, engine, world, threadVars, locals, reqVars,
            outVars, peerVars, reapVars
<1>1. ASSUME NEW r \in Requests, Submitter(r) PROVE Goal
  BY ZenonT(60), <1>1
     DEF Submitter, Enter, CheckBound, Admit, Prepare, PostNext, Return
<1>2. ASSUME NEW t \in Threads, Poster(t) PROVE Goal
  BY ZenonT(60), <1>2
     DEF Poster, PostCheck, PostSubmit, PostCount, PartFinished, SealIfIdle, Claim,
         Finish, Publish
<1>3. ASSUME ProgressThread PROVE Goal
  BY ZenonT(60), <1>3
     DEF ProgressThread, ProgressStop, DrainBegin, DrainNext, DrainEnd, ReapScan,
         ReapStop, ReapClaim, ReapNext, PollTransports, HandleEvent, EventsDone
<1>4. ASSUME \/ \E r \in Requests : Cancel(r) \/ DependencySettles(r)
             \/ PollCompletions \/ Closer
             \/ \E p \in Peers : RemovePeer(p) \/ RemoveStop(p) \/ PeerGoes(p)
             \/ \E o \in Ops : TransportCompletes(o)
      PROVE  Goal
  BY ZenonT(60), <1>4
     DEF Cancel, DependencySettles, PollCompletions, Closer, CloseBegin, CloseTimeout,
         CloseDrained, CloseJoin, SetClosing, RemovePeer, RemoveStop, PeerGoes,
         TransportCompletes
<1>5. ASSUME UNCHANGED vars PROVE Goal
  BY ZenonT(60), <1>5 DEF vars
<1> QED
  BY ZenonT(90), <1>1, <1>2, <1>3, <1>4, <1>5 DEF Next

\* The three endings have three different states.
LEMMA OutcomeFacts ==
    /\ DOMAIN Outcome = Verdicts
    /\ \A v \in Verdicts : Outcome[v] \in TerminalStates
    /\ \A v, w \in Verdicts : Outcome[v] = Outcome[w] => v = w
    /\ Outcome["failed"] = "Failed"
  BY SMTT(60) DEF Outcome, Verdicts, TerminalStates

\* Every ending is counted as it is decided, once.
LEMMA StatsStep ==
    ASSUME TypeOK, OwnInv, VerdictIsTrue, StatsCountEndings, [Next]_vars
    PROVE  StatsCountEndings'
<1>0. /\ OneOwner /\ DOMAIN pc = Threads /\ DOMAIN cur = Threads /\ DOMAIN verdict = Threads
      /\ DOMAIN state = Requests /\ Progress \in Threads /\ Progress \notin Requests
      /\ \A t \in Threads : cur[t][1] \in Requests /\ verdict[t] \in Verdicts
      /\ stats \in [Verdicts -> Nat]
  BY ZenonT(60), CurType, RequestsAssumption
     DEF OwnInv, TypeOK, ThreadTypes, RequestTypes, EngineTypes, Threads, Verdicts
<1>1. \A v \in Verdicts : stats[v] = Cardinality(EndedAs(v)) + Cardinality(EndingAs(v))
  BY ZenonT(60), OutcomeFacts DEF StatsCountEndings, EndedAs, EndingAs
<1>2. \A v \in Verdicts : /\ IsFiniteSet(EndedAs(v)) /\ Cardinality(EndedAs(v)) \in Nat
                          /\ IsFiniteSet(EndingAs(v)) /\ Cardinality(EndingAs(v)) \in Nat
  BY ZenonT(60), ThreadsFinite DEF EndedAs, EndingAs
<1> DEFINE Goal == \A v \in Verdicts :
                      stats'[v] = Cardinality(EndedAs(v)') + Cardinality(EndingAs(v)')
<1>a. ASSUME NEW w \in Verdicts, NEW t \in Threads, stats' = [stats EXCEPT ![w] = @ + 1],
             t \notin EndingAs(w), EndingAs(w)' = EndingAs(w) \cup {t},
             \A v \in Verdicts : /\ EndedAs(v)' = EndedAs(v)
                                 /\ v # w => EndingAs(v)' = EndingAs(v)
      PROVE  Goal
  <2> SUFFICES ASSUME NEW v \in Verdicts
               PROVE  stats'[v] = Cardinality(EndedAs(v)') + Cardinality(EndingAs(v)')
    BY ZenonT(60)
  <2>1. CASE v = w
    <3>1. Cardinality(EndingAs(w)') = Cardinality(EndingAs(w)) + 1
      BY ZenonT(60), <1>2, <1>a, FS_AddElement
    <3>2. stats'[w] = stats[w] + 1 /\ EndedAs(w)' = EndedAs(w)
      BY ZenonT(60), <1>0, <1>a
    <3>3. stats[w] = Cardinality(EndedAs(w)) + Cardinality(EndingAs(w))
      BY ZenonT(60), <1>1
    <3>4. Cardinality(EndedAs(w)) \in Nat /\ Cardinality(EndingAs(w)) \in Nat
      BY ZenonT(60), <1>2
    <3>5. stats'[w] = Cardinality(EndedAs(w)') + Cardinality(EndingAs(w)')
      BY SMTT(60), <3>1, <3>2, <3>3, <3>4
    <3> QED
      BY ZenonT(60), <2>1, <3>5
  <2>2. CASE v # w
    BY ZenonT(60), <1>0, <1>1, <1>a, <2>2
  <2> QED
    BY ZenonT(60), <2>1, <2>2
<1>b. ASSUME state' = state PROVE \A v \in Verdicts : EndedAs(v)' = EndedAs(v)
  BY ZenonT(60), <1>b DEF EndedAs
<1>c. ASSUME NEW t \in Threads, NEW w \in Verdicts, pc[t] # "end", pc'[t] = "end",
             verdict'[t] = w,
             \A u \in Threads : u # t => pc'[u] = pc[u] /\ verdict'[u] = verdict[u]
      PROVE  /\ t \notin EndingAs(w) /\ EndingAs(w)' = EndingAs(w) \cup {t}
             /\ \A v \in Verdicts : v # w => EndingAs(v)' = EndingAs(v)
  <2>1. \A v \in Verdicts, u \in Threads :
           u \in EndingAs(v)' <=> u \in EndingAs(v) \/ (u = t /\ v = w)
    BY ZenonT(60), <1>c DEF EndingAs
  <2>2. \A v \in Verdicts : EndingAs(v) \subseteq Threads /\ EndingAs(v)' \subseteq Threads
    BY ZenonT(60) DEF EndingAs
  <2>3. t \notin EndingAs(w)
    BY ZenonT(60), <1>c DEF EndingAs
  <2> HIDE DEF Goal
  <2>4. EndingAs(w)' = EndingAs(w) \cup {t}
    BY ZenonT(60), <2>1, <2>2
  <2>5. \A v \in Verdicts : v # w => EndingAs(v)' = EndingAs(v)
    BY ZenonT(60), <2>1, <2>2
  <2> QED
    BY ZenonT(60), <2>3, <2>4, <2>5
<1>3. ASSUME NEW t \in Threads, DecideAbandoned(t) PROVE Goal
  <2>1. PICK w \in Verdicts : w = IF cur[t][1] \in cancel THEN "cancelled" ELSE "failed"
    BY ZenonT(60) DEF Verdicts
  <2>2. /\ pc[t] = "decide" /\ pc'[t] = "end" /\ verdict'[t] = w /\ state' = state
        /\ stats' = [stats EXCEPT ![w] = @ + 1]
        /\ \A u \in Threads : u # t => pc'[u] = pc[u] /\ verdict'[u] = verdict[u]
    BY ZenonT(60), <1>0, <1>3, <2>1 DEF DecideAbandoned, Count, Goto, data, reqVars
  <2> HIDE DEF Goal
  <2> QED
    BY ZenonT(60), <1>a, <1>b, <1>c, <2>2
<1>4. ASSUME DecideCompleted PROVE Goal
  <2>1. PICK w \in Verdicts : w = IF cur[Progress][1] \in cancel THEN "cancelled"
                                  ELSE IF cur[Progress][1] \in err THEN "failed" ELSE "succeeded"
    BY ZenonT(60) DEF Verdicts
  <2>2. /\ pc[Progress] = "decide" /\ verdict'[Progress] = w /\ state' = state
        /\ \A u \in Threads : u # Progress => pc'[u] = pc[u] /\ verdict'[u] = verdict[u]
        /\ \/ pc'[Progress] = "end" /\ stats' = [stats EXCEPT ![w] = @ + 1]
           \/ pc'[Progress] = "handoff" /\ stats' = stats
    BY ZenonT(60), <1>0, <1>4, <2>1 DEF DecideCompleted, Count, Goto, data, reqVars
  <2>3. CASE pc'[Progress] = "end" /\ stats' = [stats EXCEPT ![w] = @ + 1]
    <3> HIDE DEF Goal
    <3> QED
      BY ZenonT(60), <1>0, <1>a, <1>b, <1>c, <2>2, <2>3
  <2>4. CASE pc'[Progress] = "handoff" /\ stats' = stats
    <3>1. \A v \in Verdicts : EndingAs(v)' = EndingAs(v)
      BY ZenonT(60), <2>2, <2>4 DEF EndingAs
    <3> QED
      BY ZenonT(60), <1>1, <1>b, <2>2, <2>4, <3>1
  <2> QED
    BY ZenonT(60), <2>2, <2>3, <2>4
<1>5. ASSUME SendHandoff PROVE Goal
  <2>1. /\ pc[Progress] = "handoff" /\ pc'[Progress] = "end" /\ state' = state
        /\ stats' = [stats EXCEPT !["succeeded"] = @ + 1] /\ verdict' = verdict
        /\ \A u \in Threads : u # Progress => pc'[u] = pc[u]
    BY ZenonT(60), <1>0, <1>5 DEF SendHandoff, Count, Goto, locals
  <2>2. verdict[Progress] = "succeeded" /\ "succeeded" \in Verdicts
    BY ZenonT(60), <1>0, <2>1 DEF VerdictIsTrue, Verdicts
  <2> HIDE DEF Goal
  <2> QED
    BY ZenonT(60), <1>0, <1>a, <1>b, <1>c, <2>1, <2>2
<1>6. ASSUME NEW r \in Requests, ReapFail(r) PROVE Goal
  <2>1. ~Terminal(r) /\ "failed" \in Verdicts
    BY ZenonT(60), <1>0, <1>6 DEF ReapFail, OneOwner, Verdicts
  <2>2. /\ pc[Progress] = "lost" /\ pc'[Progress] = "publish" /\ verdict' = verdict
        /\ \A u \in Threads : u # Progress => pc'[u] = pc[u]
        /\ stats' = [stats EXCEPT !["failed"] = @ + 1]
        /\ state' = [state EXCEPT ![r] = "Failed"]
    BY ZenonT(60), <1>0, <1>6, <2>1 DEF ReapFail, Count, Goto
  <2>3. \A v \in Verdicts : EndingAs(v)' = EndingAs(v)
    BY ZenonT(60), <2>2 DEF EndingAs
  <2>4. \A v \in Verdicts : r \notin EndedAs(v)
    BY ZenonT(60), <2>1, OutcomeFacts DEF EndedAs, Terminal
  <2>5. EndedAs("failed")' = EndedAs("failed") \cup {r}
    BY ZenonT(60), <1>0, <2>2, OutcomeFacts DEF EndedAs
  <2>6. \A v \in Verdicts : v # "failed" => EndedAs(v)' = EndedAs(v)
    <3> SUFFICES ASSUME NEW v \in Verdicts, v # "failed" PROVE EndedAs(v)' = EndedAs(v)
      BY ZenonT(60)
    <3>1. Outcome[v] # "Failed"
      BY ZenonT(60), <2>1, OutcomeFacts
    <3>2. state[r] # Outcome[v]
      BY ZenonT(60), <2>4 DEF EndedAs
    <3> QED
      BY ZenonT(60), <1>0, <2>2, <3>1, <3>2 DEF EndedAs
  <2>7. Cardinality(EndedAs("failed")') = Cardinality(EndedAs("failed")) + 1
    BY ZenonT(60), <1>2, <2>1, <2>4, <2>5, FS_AddElement
  <2>8. stats'["failed"] = Cardinality(EndedAs("failed")') + Cardinality(EndingAs("failed")')
    <3>1. stats'["failed"] = stats["failed"] + 1
      BY ZenonT(60), <1>0, <2>1, <2>2
    <3>2. stats["failed"] = Cardinality(EndedAs("failed")) + Cardinality(EndingAs("failed"))
      BY ZenonT(60), <1>1, <2>1
    <3>3. Cardinality(EndedAs("failed")) \in Nat /\ Cardinality(EndingAs("failed")) \in Nat
      BY ZenonT(60), <1>2, <2>1
    <3>4. EndingAs("failed")' = EndingAs("failed")
      BY ZenonT(60), <2>1, <2>3
    <3> QED
      BY SMTT(60), <2>7, <3>1, <3>2, <3>3, <3>4
  <2>9. \A v \in Verdicts : v # "failed" =>
           stats'[v] = Cardinality(EndedAs(v)') + Cardinality(EndingAs(v)')
    BY ZenonT(60), <1>0, <1>1, <2>2, <2>3, <2>6
  <2> QED
    BY ZenonT(60), <2>8, <2>9
<1>7. ASSUME NEW t \in Threads, Finish(t) PROVE Goal
  <2>0. PICK x \in Requests, w \in Verdicts : x = cur[t][1] /\ w = verdict[t]
    BY ZenonT(60), <1>0
  <2>1. ~Terminal(x)
    BY ZenonT(60), <1>0, <1>7, <2>0 DEF Finish, OneOwner, Claims, Deciding
  <2>2. /\ pc[t] = "end" /\ pc'[t] = "publish" /\ stats' = stats
        /\ \A u \in Threads : u # t => pc'[u] = pc[u] /\ verdict'[u] = verdict[u]
        /\ state' = [state EXCEPT ![x] = Outcome[w]]
    BY ZenonT(60), <1>0, <1>7, <2>0, <2>1 DEF Finish, Goto, engine
  <2>3. \A v \in Verdicts : x \notin EndedAs(v)
    BY ZenonT(60), <2>1, OutcomeFacts DEF EndedAs, Terminal
  <2>4. EndedAs(w)' = EndedAs(w) \cup {x}
    BY ZenonT(60), <1>0, <2>2 DEF EndedAs
  <2>5. \A v \in Verdicts : v # w => EndedAs(v)' = EndedAs(v)
    <3> SUFFICES ASSUME NEW v \in Verdicts, v # w PROVE EndedAs(v)' = EndedAs(v)
      BY ZenonT(60)
    <3>1. Outcome[v] # Outcome[w]
      BY ZenonT(60), OutcomeFacts
    <3>2. state[x] # Outcome[v]
      BY ZenonT(60), <2>3 DEF EndedAs
    <3> QED
      BY ZenonT(60), <1>0, <2>2, <3>1, <3>2 DEF EndedAs
  <2>6. t \in EndingAs(w) /\ EndingAs(w)' = EndingAs(w) \ {t}
    BY ZenonT(60), <1>0, <2>0, <2>2 DEF EndingAs
  <2>7. \A v \in Verdicts : v # w => EndingAs(v)' = EndingAs(v)
    <3> SUFFICES ASSUME NEW v \in Verdicts, v # w PROVE EndingAs(v)' = EndingAs(v)
      BY ZenonT(60)
    <3> QED
      BY ZenonT(60), <1>0, <2>0, <2>2 DEF EndingAs
  <2>8. /\ Cardinality(EndedAs(w)') = Cardinality(EndedAs(w)) + 1
        /\ Cardinality(EndingAs(w)') = Cardinality(EndingAs(w)) - 1
    <3>1. Cardinality(EndedAs(w)') = Cardinality(EndedAs(w)) + 1
      BY ZenonT(60), <1>2, <2>3, <2>4, FS_AddElement
    <3>2. Cardinality(EndingAs(w)') = Cardinality(EndingAs(w)) - 1
      BY ZenonT(60), <1>2, <2>6, FS_RemoveElement
    <3> QED
      BY <3>1, <3>2
  <2>9. stats'[w] = Cardinality(EndedAs(w)') + Cardinality(EndingAs(w)')
    <3>1. stats'[w] = Cardinality(EndedAs(w)) + Cardinality(EndingAs(w))
      BY ZenonT(60), <1>1, <2>2
    <3>2. Cardinality(EndedAs(w)) \in Nat /\ Cardinality(EndingAs(w)) \in Nat
      BY ZenonT(60), <1>2
    <3> QED
      BY SMTT(60), <2>8, <3>1, <3>2
  <2>10. \A v \in Verdicts : v # w =>
            stats'[v] = Cardinality(EndedAs(v)') + Cardinality(EndingAs(v)')
    BY ZenonT(60), <1>1, <2>2, <2>5, <2>7
  <2> QED
    BY ZenonT(60), <2>9, <2>10
<1>8. ASSUME ~ \E t \in Threads : DecideAbandoned(t) \/ Finish(t),
             ~DecideCompleted, ~SendHandoff, ~ \E r \in Requests : ReapFail(r)
      PROVE  Goal
  <2>1. stats' = stats
    BY ZenonT(60), <1>8, StatsMoves
  <2>2. \A v \in Verdicts : EndedAs(v)' = EndedAs(v)
    <3>1. \A x \in Requests : (Terminal(x)' => Terminal(x)) /\ (Terminal(x) => state'[x] = state[x])
      BY ZenonT(60), <1>8, TerminalMoves, TerminalStays
    <3> QED
      BY ZenonT(60), <3>1, OutcomeFacts DEF EndedAs, Terminal
  <2>3. \A v \in Verdicts : EndingAs(v)' = EndingAs(v)
    <3>1. \A u \in Threads : /\ pc'[u] = "end" <=> pc[u] = "end"
                             /\ pc[u] = "end" => verdict'[u] = verdict[u]
      BY ZenonT(60), <1>8, VerdictMoves
    <3> QED
      BY ZenonT(60), <3>1 DEF EndingAs
  <2> QED
    BY ZenonT(60), <1>1, <2>1, <2>2, <2>3
<1> QED
  <2>1. Goal
    BY ZenonT(60), <1>3, <1>4, <1>5, <1>6, <1>7, <1>8
  <2> QED
    BY ZenonT(60), <2>1, OutcomeFacts DEF StatsCountEndings, EndedAs, EndingAs

-----------------------------------------------------------------------------
(* The endings.                                                            *)

EndingsInv == /\ OwnInv /\ WholeInv /\ ReportInv /\ CloseInv /\ StatsCountEndings

\* The engine starts with nothing owned, ended or reported.
LEMMA EndingsInit == Init => EndingsInv
<1> SUFFICES ASSUME Init PROVE EndingsInv
  OBVIOUS
<1>1. /\ \A r \in Requests : pc[r] = "start"
      /\ \A t \in Threads : pc[t] \in {"start", "pass"}
      /\ pc[Progress] = "pass"
      /\ \A r \in Requests : ~Terminal(r) /\ state[r] = "Queued"
      /\ inflight = {} /\ stranded = {} /\ handoff = {} /\ sealed = {}
      /\ \A o \in Ops : op[o] = "queued"
  BY ZenonT(60), RequestsAssumption DEF Init, Threads, Terminal, TerminalStates
<1>2. OwnInv
  <2>1. \A t \in Threads, r \in Requests : ~Claims(t, r)
    BY ZenonT(60), <1>1 DEF Claims, Deciding
  <2>2. PhaseFits
    BY ZenonT(60), <1>1 DEF PhaseFits, Posting, Ending
  <2> QED
    BY ZenonT(60), <1>1, <2>1, <2>2
       DEF OwnInv, EarlyIsOut, Accounted, OneOwner, OneClaim, Early
<1>3. WholeInv
  BY ZenonT(60), <1>1 DEF WholeInv, ErrorsStick, SealedGivenUp, PostedPrepared, LastIsWhole,
                          VerdictIsTrue, ToldSucceeds, SucceededTold
<1>4. ReportInv
  <2>1. completedQ = <<>> /\ polled = {} /\ dropped = {}
    BY ZenonT(60) DEF Init
  <2>2. Elems(completedQ) = {} /\ Distinct(completedQ)
    BY SMTT(60), <2>1 DEF Elems, Distinct
  <2>3. Published = {}
    BY SMTT(60), <2>1 DEF Published
  <2>4. \A t \in Threads, r \in Requests : ~Reports(t, r)
    BY ZenonT(60), <1>1 DEF Reports
  <2> QED
    BY ZenonT(60), <1>1, <2>1, <2>2, <2>3, <2>4
       DEF ReportInv, ListsApart, ReportedEnded, ReportersOwn, EndedReported
<1>5. CloseInv
  BY ZenonT(60) DEF Init, CloseInv
<1>6. StatsCountEndings
  <2>1. \A v \in Verdicts : EndedAs(v) = {} /\ EndingAs(v) = {}
    BY ZenonT(60), <1>1, OutcomeFacts DEF EndedAs, EndingAs, TerminalStates
  <2>2. \A v \in Verdicts : stats[v] = 0
    BY SMTT(60) DEF Init, Verdicts
  <2>3. 0 = 0 + 0
    BY SMTT(60)
  <2>4. \A v \in Verdicts : stats[v] = Cardinality(EndedAs(v)) + Cardinality(EndingAs(v))
    BY ZenonT(60), <2>1, <2>2, <2>3, FS_EmptySet
  <2> QED
    BY ZenonT(60), <2>4, OutcomeFacts DEF StatsCountEndings, EndedAs, EndingAs
<1> QED
  BY ZenonT(60), <1>2, <1>3, <1>4, <1>5, <1>6 DEF EndingsInv

\* A request of the engine has one owner at a time, is whole when it succeeds,
\* and is counted and reported by whoever ends it.
THEOREM EndingsInvariant == Spec => [](QuietInv /\ EndingsInv)
<1>1. QuietInv /\ EndingsInv /\ [Next]_vars => EndingsInv'
  <2> SUFFICES ASSUME QuietInv, EndingsInv, [Next]_vars PROVE EndingsInv'
    OBVIOUS
  <2>0. /\ TypeOK /\ OwnInv /\ WholeInv /\ ReportInv /\ CloseInv /\ StatsCountEndings
        /\ VerdictIsTrue
    BY ZenonT(60) DEF QuietInv, EndingsInv, WholeInv
  <2> QED
    BY ZenonT(60), <2>0, OwnStep, WholeStep, ReportStep, CloseStep, StatsStep DEF EndingsInv
<1> QED
  BY <1>1, EndingsInit, QuietInit, QuietStep, PTL DEF Spec

\* A request succeeds, and its peer is told the bytes have landed, only when
\* every sub-operation on every lane completed without an error: for any plan,
\* number of lanes and of requests.
THEOREM SuccessesAreWhole == Spec => []SuccessIsWhole
<1>1. EndingsInv => SuccessIsWhole
  BY ZenonT(60) DEF EndingsInv, WholeInv, ToldSucceeds, SucceededTold, SuccessIsWhole, Whole
<1> QED
  BY <1>1, EndingsInvariant, PTL

\* Every ended request is queued for poll_completions exactly once, whichever
\* of submitter, reaper and completion path ended it and whatever the depth of
\* the queue.
THEOREM EndingsAreReportedOnce == Spec => []EndsAreReportedOnce
<1>1. QuietInv /\ EndingsInv => EndsAreReportedOnce
  BY ZenonT(60), ReportedExactly DEF QuietInv, EndingsInv
<1> QED
  BY <1>1, EndingsInvariant, PTL

\* And stats() counts each of them once, as what it was.
THEOREM EndingsAreCounted == Spec => []EndingsAreExact
<1>1. QuietInv /\ EndingsInv => EndingsAreExact
  BY ZenonT(60), ReportedExactly DEF QuietInv, EndingsInv, EndingsAreExact
<1> QED
  BY <1>1, EndingsInvariant, PTL

\* Once close() has returned kOk nothing is in flight or with a transport, and
\* every request handed to a caller has ended.
THEOREM CloseDrains == Spec => []CloseMeansDrained
<1>1. QuietInv /\ EndingsInv => CloseMeansDrained
  <2> SUFFICES ASSUME QuietInv, EndingsInv, closing = "closed"
               PROVE  /\ inflight = {}
                      /\ \A o \in Ops : op[o] # "nic"
                      /\ \A r \in Requests : pc[r] = "done" => Terminal(r)
    BY ZenonT(60) DEF CloseMeansDrained
  <2>1. /\ inflight = {} /\ pc[Progress] = "stopped" /\ Accounted /\ PostedPrepared
        /\ EndersSettled /\ EndedSettled /\ StoppedIsQuiet /\ OwnParts
    BY ZenonT(60) DEF QuietInv, HandsInv, EndInv, EndingsInv, OwnInv, WholeInv, CloseInv
  <2>2. stranded = {}
    BY ZenonT(60), <2>1 DEF EndingsInv, OwnInv, PhaseFits
  <2>3. \A r \in Requests : pc[r] \notin Early =>
           Terminal(r) \/ \E t \in Threads : Claims(t, r)
    BY ZenonT(60), <2>1, <2>2 DEF Accounted
  <2>4. ASSUME NEW o \in Ops PROVE op[o] # "nic"
    <3>1. PICK x \in Requests : x = o[1][1] /\ o \in OpsOf(x)
      BY ZenonT(60) DEF Ops, Parts, OpsOf
    <3>2. CASE Settled(x) \/ PeerOf[x] \in stopped
      BY ZenonT(60), <2>1, <3>1, <3>2 DEF Settled, StoppedIsQuiet
    <3>3. CASE Terminal(x)
      BY ZenonT(60), <2>1, <3>2, <3>3 DEF EndedSettled
    <3>4. ASSUME NEW t \in Threads, Claims(t, x) PROVE Settled(x)
      BY ZenonT(60), <2>1, <3>4 DEF Claims, Deciding, EndersSettled, Ending
    <3>5. CASE pc[x] \in Early
      BY ZenonT(60), <2>1, <3>1, <3>5 DEF PostedPrepared, Early, Unprepared
    <3> QED
      BY ZenonT(60), <2>3, <3>2, <3>3, <3>4, <3>5
  <2>5. ASSUME NEW r \in Requests, pc[r] = "done" PROVE Terminal(r)
    <3>1. pc[r] \notin Early
      BY ZenonT(60), <2>5 DEF Early
    <3>2. ASSUME NEW t \in Threads, Claims(t, r) PROVE FALSE
      <4>1. t \in Requests
        BY ZenonT(60), <2>1, <3>2 DEF Claims, Deciding, Threads
      <4>2. t = r
        BY ZenonT(60), <2>1, <3>2, <4>1 DEF Claims, Deciding, OwnParts, AfterParts
      <4> QED
        BY ZenonT(60), <2>5, <3>2, <4>2 DEF Claims, Deciding
    <3> QED
      BY ZenonT(60), <2>3, <3>1, <3>2
  <2> QED
    BY ZenonT(60), <2>1, <2>4, <2>5
<1> QED
  BY <1>1, EndingsInvariant, PTL

-----------------------------------------------------------------------------
(* The engine implements RequestLifecycle.                                 *)

\* What a request is to its caller, and the requests a transport works on.
LifePhase(r) == IF Terminal(r) THEN state[r]
                ELSE IF pc[r] \in Early THEN "none" ELSE "live"
Touched      == {r \in Requests : \E o \in OpsOf(r) : op[o] = "nic"}
TouchedLive  == \A r \in Touched : LifePhase(r) = "live" /\ r \notin handoff

\* A cancel is asked for in Cancel.
LEMMA CancelMoves ==
    ASSUME TypeOK, [Next]_vars
    PROVE  cancel' = cancel \/ \E r \in Requests : Cancel(r)
<1> DEFINE Goal == cancel' = cancel \/ \E r \in Requests : Cancel(r)
<1> USE DEF TypeOK, Goto, Resume, data, engine, world, threadVars, locals, reqVars,
            outVars, peerVars, reapVars
<1>1. ASSUME NEW r \in Requests, Submitter(r) PROVE Goal
  BY ZenonT(60), <1>1
     DEF Submitter, Enter, CheckBound, Admit, Prepare, PostNext, Return
<1>2. ASSUME NEW t \in Threads, Poster(t) PROVE Goal
  BY ZenonT(60), <1>2
     DEF Poster, PostCheck, PostSubmit, PostCount, PartFinished, SealIfIdle, Claim,
         DecideAbandoned, Finish, Publish
<1>3. ASSUME ProgressThread PROVE Goal
  BY ZenonT(60), <1>3
     DEF ProgressThread, ProgressStop, DrainBegin, DrainNext, DrainEnd, ReapScan,
         ReapStop, ReapClaim, ReapFail, ReapNext, PollTransports, HandleEvent,
         EventsDone, DecideCompleted, SendHandoff
<1>4. ASSUME \/ \E r \in Requests : Cancel(r) \/ DependencySettles(r)
             \/ PollCompletions \/ Closer
             \/ \E p \in Peers : RemovePeer(p) \/ RemoveStop(p) \/ PeerGoes(p)
             \/ \E o \in Ops : TransportCompletes(o)
      PROVE  Goal
  BY ZenonT(60), <1>4
     DEF DependencySettles, PollCompletions, Closer, CloseBegin, CloseTimeout,
         CloseDrained, CloseJoin, SetClosing, RemovePeer, RemoveStop, PeerGoes,
         TransportCompletes
<1>5. ASSUME UNCHANGED vars PROVE Goal
  BY ZenonT(60), <1>5 DEF vars
<1> QED
  BY ZenonT(90), <1>1, <1>2, <1>3, <1>4, <1>5 DEF Next

\* A transport works for live requests only, whose peers were told nothing.
LEMMA TouchedAreLive ==
    ASSUME QuietInv, EndingsInv
    PROVE  TouchedLive
<1> SUFFICES ASSUME NEW r \in Requests, NEW o \in OpsOf(r), op[o] = "nic"
             PROVE  LifePhase(r) = "live" /\ r \notin handoff
  BY ZenonT(60) DEF TouchedLive, Touched
<1>1. o \in Ops /\ o[1][1] = r
  BY ZenonT(60) DEF OpsOf
<1>2. ~Terminal(r)
  BY ZenonT(60), <1>1 DEF QuietInv, EndInv, EndedSettled, Settled, StoppedIsQuiet
<1>3. pc[r] \notin Early
  BY ZenonT(60), <1>1 DEF EndingsInv, WholeInv, PostedPrepared, Early, Unprepared
<1>4. r \notin handoff
  BY ZenonT(60) DEF EndingsInv, WholeInv, ToldSucceeds, Whole
<1> QED
  BY ZenonT(60), <1>2, <1>3, <1>4 DEF LifePhase

\* Whoever claims a request, or finds it stranded, ends a live one no transport
\* works on.
LEMMA ClaimedAreQuiet ==
    ASSUME QuietInv, EndingsInv, NEW r \in Requests,
           r \in stranded \/ \E t \in Threads : Claims(t, r)
    PROVE  LifePhase(r) = "live" /\ r \notin Touched
<1>1. pc[r] \notin Early /\ ~Terminal(r)
  BY ZenonT(60) DEF EndingsInv, OwnInv, EarlyIsOut, OneOwner
<1>2. Settled(r) \/ PeerOf[r] \in stopped
  BY ZenonT(60) DEF QuietInv, EndInv, EndersSettled, StrandedStopped, Claims, Deciding, Ending
<1>3. \A o \in OpsOf(r) : op[o] # "nic"
  BY ZenonT(60), <1>2 DEF QuietInv, EndInv, StoppedIsQuiet, Settled, OpsOf
<1> QED
  BY ZenonT(60), <1>1, <1>3 DEF LifePhase, Touched

\* A step that ends nothing and admits nothing leaves what a caller sees.
LEMMA LifePhaseKept ==
    ASSUME state' = state, \A r \in Requests : pc'[r] \in Early <=> pc[r] \in Early
    PROVE  \A r \in Requests : LifePhase(r)' = LifePhase(r)
  BY ZenonT(60) DEF LifePhase, Terminal

\* Every step of the engine is a step of RequestLifecycle or changes nothing a
\* caller sees.
LEMMA LifecycleStep ==
    ASSUME QuietInv, EndingsInv, TouchedLive', [Next]_vars
    PROVE  \/ Lifecycle!Next
           \/ UNCHANGED Lifecycle!vars
<1>0. /\ TypeOK /\ OwnInv /\ OneOwner /\ OneClaim /\ VerdictIsTrue /\ ToldSucceeds
      /\ \A t \in Threads : cur[t][1] \in Requests /\ verdict[t] \in Verdicts
      /\ Requests \subseteq Threads /\ Progress \in Threads /\ Progress \notin Requests
      /\ DOMAIN pc = Threads /\ DOMAIN cur = Threads /\ DOMAIN state = Requests
  BY ZenonT(60), CurType, RequestsAssumption
     DEF QuietInv, EndingsInv, OwnInv, WholeInv, TypeOK, ThreadTypes, RequestTypes, Threads,
         Verdicts
<1> DEFINE P == [r \in Requests |-> LifePhase(r)]
<1>1. /\ P = [r \in Requests |->
                 IF Terminal(r) THEN state[r]
                 ELSE IF pc[r] \in {"start", "bound", "admit", "refused"} THEN "none"
                 ELSE "live"]
      /\ P' = [r \in Requests |->
                 IF Terminal(r) THEN state[r]
                 ELSE IF pc[r] \in {"start", "bound", "admit", "refused"} THEN "none"
                 ELSE "live"]'
  BY ZenonT(60) DEF LifePhase, Early
<1>2. UNCHANGED op => Touched' = Touched
  BY ZenonT(60) DEF Touched, OpsOf
<1>3. UNCHANGED outVars => Published' = Published
  BY ZenonT(60) DEF outVars, Published
<1> DEFINE Goal == Lifecycle!Next \/ UNCHANGED Lifecycle!vars
\* Accept.
<1>4. ASSUME NEW r \in Requests, Admit(r) PROVE Goal
  <2>1. /\ pc[r] = "admit" /\ state' = state /\ UNCHANGED <<cancel, op, handoff, outVars>>
        /\ \A x \in Requests : x # r => pc'[x] = pc[x]
        /\ pc'[r] \in {"refused", "prepare"}
    BY ZenonT(60), <1>0, <1>4 DEF Admit, Goto, data, reqVars
  <2>2. ~Terminal(r) /\ P[r] = "none"
    BY ZenonT(60), <1>0, <2>1 DEF OwnInv, EarlyIsOut, LifePhase, Early
  <2>3. CASE pc'[r] = "refused"
    <3>1. P' = P
      BY ZenonT(60), <2>1, <2>3, LifePhaseKept DEF Early
    <3> QED
      BY ZenonT(60), <1>1, <1>2, <1>3, <2>1, <3>1 DEF Lifecycle!vars, Touched
  <2>4. CASE pc'[r] = "prepare"
    <3>1. P' = [P EXCEPT ![r] = "live"]
      BY ZenonT(60), <2>1, <2>2, <2>4 DEF LifePhase, Terminal, Early
    <3>2. Lifecycle!Accept(r)
      BY ZenonT(60), <1>1, <1>2, <1>3, <2>1, <2>2, <3>1 DEF Lifecycle!Accept, Touched
    <3> QED
      BY ZenonT(60), <3>2 DEF Lifecycle!Next
  <2> QED
    BY ZenonT(60), <2>1, <2>3, <2>4
\* Ask.
<1>5. ASSUME NEW r \in Requests, Cancel(r) PROVE Goal
  <2>1. /\ pc[r] = "done" /\ ~Terminal(r) /\ cancel' = cancel \cup {r} /\ pc' = pc
        /\ state' = [state EXCEPT ![r] = "Draining"]
        /\ UNCHANGED <<op, handoff, outVars>>
    BY ZenonT(60), <1>5 DEF Cancel, engine, threadVars
  <2>2. P[r] = "live"
    BY ZenonT(60), <2>1 DEF LifePhase, Early
  <2>3. P' = P
    <3>1. \A x \in Requests : LifePhase(x)' = LifePhase(x)
      BY ZenonT(60), <1>0, <2>1 DEF LifePhase, Terminal, TerminalStates
    <3> QED
      BY ZenonT(60), <3>1
  <2>4. Lifecycle!Ask(r)
    BY ZenonT(60), <1>1, <1>2, <1>3, <2>1, <2>2, <2>3 DEF Lifecycle!Ask, Touched
  <2> QED
    BY ZenonT(60), <2>4 DEF Lifecycle!Next
\* Tell.
<1>6. ASSUME SendHandoff PROVE Goal
  <2>0. PICK x \in Requests : x = cur[Progress][1]
    BY ZenonT(60), <1>0
  <2>1. /\ pc[Progress] = "handoff" /\ handoff' = handoff \cup {x} /\ state' = state
        /\ \A r \in Requests : pc'[r] = pc[r]
        /\ UNCHANGED <<cancel, op, outVars>>
    BY ZenonT(60), <1>0, <1>6, <2>0 DEF SendHandoff, Goto
  <2>2. P[x] = "live" /\ x \notin Touched
    BY ZenonT(60), <1>0, <2>0, <2>1, ClaimedAreQuiet DEF Claims, Deciding
  <2>3. P' = P
    BY ZenonT(60), <2>1, LifePhaseKept
  <2>4. Lifecycle!Tell(x)
    BY ZenonT(60), <1>1, <1>2, <1>3, <2>1, <2>2, <2>3 DEF Lifecycle!Tell, Touched
  <2> QED
    BY ZenonT(60), <2>4 DEF Lifecycle!Next
\* End, by the thread that claimed the request.
<1>7. ASSUME NEW t \in Threads, Finish(t) PROVE Goal
  <2>0. PICK x \in Requests, w \in Verdicts : x = cur[t][1] /\ w = verdict[t]
    BY ZenonT(60), <1>0
  <2>1. pc[t] = "end" /\ Claims(t, x) /\ ~Terminal(x) /\ P[x] = "live" /\ x \notin Touched
    BY ZenonT(60), <1>0, <1>7, <2>0, ClaimedAreQuiet DEF Finish, Claims, Deciding, OneOwner
  <2>2. /\ pc'[t] = "publish" /\ \A u \in Threads : u # t => pc'[u] = pc[u]
        /\ state' = [state EXCEPT ![x] = Outcome[w]]
        /\ UNCHANGED <<cancel, op, handoff, outVars>>
    BY ZenonT(60), <1>0, <1>7, <2>0, <2>1 DEF Finish, Goto, engine
  <2>3. Outcome[w] \in TerminalStates
    BY ZenonT(60), OutcomeFacts
  <2>4. P' = [P EXCEPT ![x] = Outcome[w]]
    <3>1. LifePhase(x)' = Outcome[w]
      BY ZenonT(60), <1>0, <2>2, <2>3 DEF LifePhase, Terminal
    <3>2. \A y \in Requests : pc'[y] \in Early <=> pc[y] \in Early
      BY ZenonT(60), <1>0, <2>1, <2>2 DEF Early
    <3>3. \A y \in Requests : y # x => LifePhase(y)' = LifePhase(y)
      BY ZenonT(60), <1>0, <2>2, <3>2 DEF LifePhase, Terminal
    <3> QED
      BY ZenonT(60), <3>1, <3>3
  <2>5. /\ Outcome[w] = "Cancelled" => x \in cancel
        /\ x \in handoff <=> Outcome[w] = "Succeeded"
    <3>1. /\ Outcome[w] = "Cancelled" => w = "cancelled"
          /\ Outcome[w] = "Succeeded" <=> w = "succeeded"
      BY SMTT(60) DEF Outcome, Verdicts
    <3>2. /\ w = "succeeded" => x \in handoff
          /\ w = "cancelled" => x \in cancel
      BY ZenonT(60), <1>0, <2>0, <2>1 DEF VerdictIsTrue
    <3>3. x \in handoff => w = "succeeded"
      <4> SUFFICES ASSUME x \in handoff PROVE w = "succeeded"
        OBVIOUS
      <4>1. state[x] # "Succeeded"
        BY ZenonT(60), <2>1 DEF Terminal, TerminalStates
      <4>2. PICK u \in Threads : Claims(u, x) /\ verdict[u] = "succeeded"
        BY ZenonT(60), <1>0, <4>1 DEF ToldSucceeds
      <4> QED
        BY ZenonT(60), <1>0, <2>0, <2>1, <4>2 DEF OneClaim
    <3> QED
      BY ZenonT(60), <3>1, <3>2, <3>3
  <2>6. Lifecycle!End(x)
    BY ZenonT(60), <1>1, <1>2, <1>3, <2>1, <2>2, <2>3, <2>4, <2>5
       DEF Lifecycle!End, Lifecycle!Endings, TerminalStates, Touched
  <2> QED
    BY ZenonT(60), <2>6 DEF Lifecycle!Next
\* End, by the reaper.
<1>8. ASSUME NEW r \in Requests, ReapFail(r) PROVE Goal
  <2>1. r \in stranded /\ ~Terminal(r) /\ P[r] = "live" /\ r \notin Touched
    BY ZenonT(60), <1>0, <1>8, ClaimedAreQuiet DEF ReapFail, OneOwner
  <2>2. /\ \A x \in Requests : pc'[x] = pc[x]
        /\ state' = [state EXCEPT ![r] = "Failed"]
        /\ UNCHANGED <<cancel, op, handoff, outVars>>
    BY ZenonT(60), <1>0, <1>8, <2>1 DEF ReapFail, Goto
  <2>3. P' = [P EXCEPT ![r] = "Failed"]
    <3>1. LifePhase(r)' = "Failed"
      BY ZenonT(60), <1>0, <2>2 DEF LifePhase, Terminal, TerminalStates
    <3>2. \A y \in Requests : y # r => LifePhase(y)' = LifePhase(y)
      BY ZenonT(60), <1>0, <2>2 DEF LifePhase, Terminal
    <3> QED
      BY ZenonT(60), <3>1, <3>2
  <2>4. r \notin handoff
    BY ZenonT(60), <1>0, <2>1 DEF ToldSucceeds, OneOwner, Terminal, TerminalStates
  <2>5. Lifecycle!End(r)
    BY ZenonT(60), <1>1, <1>2, <1>3, <2>1, <2>2, <2>3, <2>4
       DEF Lifecycle!End, Lifecycle!Endings, Touched
  <2> QED
    BY ZenonT(60), <2>5 DEF Lifecycle!Next
\* Report.
<1>9. ASSUME NEW t \in Threads, Publish(t) PROVE Goal
  <2>0. PICK x \in Requests : x = cur[t][1]
    BY ZenonT(60), <1>0
  <2>1. pc[t] = "publish" /\ Terminal(x) /\ x \notin Published /\ ListsApart
    BY ZenonT(60), <1>0, <1>9, <2>0
       DEF Publish, EndingsInv, ReportInv, ReportersOwn, Reports
  <2>2. Published' = Published \cup {x}
    BY ZenonT(60), <1>0, <1>9, <2>0, <2>1, PublishEffect
  <2>3. /\ state' = state /\ UNCHANGED <<cancel, op, handoff>>
        /\ \A u \in Threads : u # t => pc'[u] = pc[u]
        /\ pc'[t] \in {phase, "post"}
    BY ZenonT(60), <1>0, <1>9 DEF Publish, Goto, Resume, data, reqVars
  <2>4. P' = P
    <3>1. phase \notin Early
      BY ZenonT(60), <1>0 DEF TypeOK, ThreadTypes, Early
    <3>2. \A r \in Requests : pc'[r] \in Early <=> pc[r] \in Early
      BY ZenonT(60), <1>0, <2>1, <2>3, <3>1 DEF Early
    <3> QED
      BY ZenonT(60), <2>3, <3>2, LifePhaseKept
  <2>5. P[x] \in TerminalStates
    BY ZenonT(60), <2>1 DEF LifePhase, Terminal
  <2>6. Lifecycle!Report(x)
    BY ZenonT(60), <1>1, <1>2, <2>1, <2>2, <2>3, <2>4, <2>5
       DEF Lifecycle!Report, Lifecycle!Endings, TerminalStates, Touched
  <2> QED
    BY ZenonT(60), <2>6 DEF Lifecycle!Next
\* Everything else is Touch: it is invisible, or a transport starts or stops.
<1>10. ASSUME ~ \E r \in Requests : Admit(r) \/ Cancel(r) \/ ReapFail(r),
              ~ \E t \in Threads : Finish(t) \/ Publish(t),
              ~SendHandoff
       PROVE  Goal
  <2>1. cancel' = cancel /\ handoff' = handoff
    BY ZenonT(60), <1>0, <1>10, CancelMoves, HandoffMoves
  <2>2. Published' = Published
    BY ZenonT(60), <1>0, <1>3, <1>10, ListMoves, PollEffect DEF EndingsInv, ReportInv
  <2>3. \A x \in Requests : LifePhase(x)' = LifePhase(x)
    <3>1. \A x \in Requests : /\ Terminal(x)' => Terminal(x)
                              /\ Terminal(x) => state'[x] = state[x]
                              /\ pc'[x] \in Early <=> pc[x] \in Early
      BY ZenonT(60), <1>0, <1>10, TerminalMoves, TerminalStays, EarlyMoves
    <3>2. \A x \in Requests : Terminal(x)' <=> Terminal(x)
      BY ZenonT(60), <3>1 DEF Terminal
    <3> QED
      BY ZenonT(60), <3>1, <3>2 DEF LifePhase
  <2>4. P' = P
    BY ZenonT(60), <2>3
  <2>5. \A r \in Touched' : r \in Requests /\ P[r] = "live" /\ r \notin handoff
    <3>1. \A r \in Touched' : LifePhase(r)' = "live" /\ r \notin handoff'
      BY ZenonT(60) DEF TouchedLive
    <3>2. Touched' \subseteq Requests
      BY ZenonT(60) DEF Touched
    <3> QED
      BY ZenonT(60), <2>1, <2>3, <3>1, <3>2
  <2>6. Lifecycle!Touch
    BY ZenonT(60), <1>1, <2>1, <2>2, <2>4, <2>5 DEF Lifecycle!Touch, Touched
  <2> QED
    BY ZenonT(60), <2>6 DEF Lifecycle!Next
<1> QED
  BY ZenonT(60), <1>4, <1>5, <1>6, <1>7, <1>8, <1>9, <1>10

\* The engine, with its lanes, threads, queues and reaper, keeps the promise of
\* RequestLifecycle: the initial states correspond, and every step is one of its
\* steps or a stutter.
THEOREM EngineKeepsItsPromise == Spec => LifecycleRefined
<1>1. Init => Lifecycle!Init
  <2> SUFFICES ASSUME Init PROVE Lifecycle!Init
    OBVIOUS
  <2>1. /\ \A r \in Requests : state[r] = "Queued" /\ pc[r] = "start"
        /\ cancel = {} /\ handoff = {} /\ polled = {} /\ dropped = {} /\ completedQ = <<>>
        /\ \A o \in Ops : op[o] = "queued"
    BY ZenonT(60), RequestsAssumption DEF Init, Threads
  <2>2. Published = {}
    BY SMTT(60), <2>1 DEF Published
  <2> QED
    BY ZenonT(60), <2>1, <2>2 DEF Lifecycle!Init, Terminal, TerminalStates, OpsOf
<1>2. QuietInv /\ EndingsInv => TouchedLive
  BY TouchedAreLive
<1>3. QuietInv /\ EndingsInv /\ TouchedLive' /\ [Next]_vars
      => [Lifecycle!Next]_(Lifecycle!vars)
  BY ZenonT(60), LifecycleStep
<1> QED
  BY <1>1, <1>2, <1>3, EndingsInvariant, PTL DEF Spec, LifecycleRefined, Lifecycle!Spec
=============================================================================
