----------------------------- MODULE Transfers -----------------------------
(***************************************************************************)
(* The life of a transfer inside one engine: EngineImpl::submit_vector,    *)
(* post_ops, drain_pending, reap_departed_peers, progress, remove_peer and *)
(* close (src/core/engine_impl.cpp) together with the state of each        *)
(* RequestImpl (src/core/request_impl.cpp).                                *)
(*                                                                         *)
(* A request is split into sub-operations, one list per lane (adapter) of  *)
(* its peer.  Each list is a "part", a PendingSubmit in the code.  The     *)
(* thread that submitted a request and the thread that runs progress()     *)
(* both post parts; a request ends once, by whoever erases it from         *)
(* inflight_.  Every step below is one critical section of the code (of    *)
(* mu_ or of a request's own mutex) or one call into a transport; what a   *)
(* thread does between two of them is invisible to the others.             *)
(***************************************************************************)
EXTENDS Integers, FiniteSets, Sequences

CONSTANTS
    Requests,        \* requests, each submitted by a thread of its own
    Progress,        \* the thread that runs progress()
    Peers,           \* peers the engine was given with add_peer
    PeerOf,          \* the peer each request goes to
    Lanes,           \* adapters by which a peer is reached
    MaxOps,          \* most sub-operations build_subops puts on one lane
    Plan,            \* build_subops: sub-operations per request and lane
    Quantum,         \* scheduler_quantum_bytes, counted in sub-operations
    MaxInflight,     \* EngineConfig::max_inflight_requests
    CompletionDepth, \* EngineConfig::completion_queue_depth
    Env              \* what the surroundings of the engine may do: a subset of
                     \* {"cancel", "depend", "depart", "remove", "close", "poll"}

ASSUME RequestsAssumption == /\ Requests # {} /\ IsFiniteSet(Requests)
                             /\ Progress \notin Requests
ASSUME PeersAssumption    == PeerOf \in [Requests -> Peers]
ASSUME PlanAssumption     == /\ Lanes # {} /\ IsFiniteSet(Lanes)
                             /\ MaxOps \in Nat
                             /\ Plan \in [Requests -> [Lanes -> 0 .. MaxOps]]
ASSUME BoundsAssumption   == /\ Quantum \in Nat \ {0}
                             /\ MaxInflight \in Nat
                             /\ CompletionDepth \in Nat

Threads == Requests \cup {Progress}
Parts   == Requests \X Lanes
Ops     == {o \in Parts \X (1 .. MaxOps) : o[2] <= Plan[o[1][1]][o[1][2]]}

\* The lanes that carry some of request r, and its sub-operations.
PartsOf(r) == {l \in Lanes : Plan[r][l] > 0}
OpsOf(r)   == {o \in Ops : o[1][1] = r}

VARIABLES
    \* RequestImpl
    state,      \* state_
    cancel,     \* cancel_requested_
    err,        \* error_ holds an error
    accepted,   \* accepted_subops_
    completed,  \* completed_subops_
    sealed,     \* sealed_
    partsLeft,  \* parts_left_
    handoff,    \* the ready handoff has been offered to the control channel
    dep,        \* the device events the request waits for
    \* sub-operations and the parts that hold those not yet posted
    op,         \* where each sub-operation is
    place,      \* where each part is
    \* EngineImpl
    inflight,   \* inflight_
    completedQ, \* completed_
    polled,     \* requests poll_completions has handed out
    dropped,    \* requests keep_completed_locked pushed out
    stats,      \* requests_succeeded, requests_failed, requests_cancelled
    closing,    \* how far close() is; closed_ is closing # "open"
    \* PeerImpl
    known,      \* the peer is in peers_
    connected,  \* connected_
    gone,       \* a lane's alive() is false
    stopped,    \* disconnect() has returned for every lane
    \* threads
    pc, cur,    \* where a thread is, and the part it works on
    sr,         \* SubmitResult of the submit it just made
    verdict,    \* how it is about to end cur's request
    phase,      \* what progress() goes back to once a request is dealt with
    reaping,    \* peers reap_departed_peers collected and has still to do
    reaped,     \* the one it is doing
    stranded    \* requests it claimed and has still to fail

reqVars    == <<state, cancel, err, accepted, completed, sealed, partsLeft, handoff>>
outVars    == <<completedQ, polled, dropped>>
peerVars   == <<known, connected, gone, stopped>>
reapVars   == <<reaping, reaped, stranded>>
locals     == <<cur, sr, verdict, phase>>
threadVars == <<pc, locals>>
data       == <<reqVars, op, place>>
engine     == <<inflight, outVars, stats, closing>>
world      == <<dep, peerVars>>
vars       == <<data, engine, world, threadVars, reapVars>>

TerminalStates == {"Succeeded", "Failed", "Cancelled"}
Terminal(r)    == state[r] \in TerminalStates
\* RequestImpl::abandoning: nothing more of r may be posted.
Abandoning(r)  == Terminal(r) \/ r \in cancel \/ r \in err

\* Where a sub-operation is: still in a part, given up with it, with the
\* transport (which may touch memory), completed there, taken by poll(),
\* counted by on_subop_complete, or dropped because its request had ended.
OpPlaces == {"queued", "dropped", "nic", "ok", "err", "pollOk", "pollErr",
             "doneOk", "doneErr", "lost"}
\* Where a part is: not built, still in submit_vector's list, in pending_, in
\* drain_pending's turn or still_waiting, in a thread's hands, or finished.
PartPlaces == {"none", "todo", "pending", "turn", "waiting", "held", "done"}

\* The values of a thread's locals while they are not in use.
NoPart   == CHOOSE p \in Parts : TRUE
NoResult == [accepted |-> 0, status |-> "ok"]

Init ==
    /\ state = [r \in Requests |-> "Queued"]
    /\ cancel = {}
    /\ err = {}
    /\ accepted = [r \in Requests |-> 0]
    /\ completed = [r \in Requests |-> 0]
    /\ sealed = {}
    /\ partsLeft = [r \in Requests |-> 0]
    /\ handoff = {}
    /\ dep \in [Requests -> IF "depend" \in Env THEN {"met", "waiting"} ELSE {"met"}]
    /\ op = [o \in Ops |-> "queued"]
    /\ place = [p \in Parts |-> "none"]
    /\ inflight = {}
    /\ completedQ = <<>> /\ polled = {} /\ dropped = {}
    /\ stats = [succeeded |-> 0, failed |-> 0, cancelled |-> 0]
    /\ closing = "open"
    /\ known = Peers
    /\ connected = Peers
    /\ gone = {}
    /\ stopped = {}
    /\ pc = [t \in Threads |-> IF t = Progress THEN "pass" ELSE "start"]
    /\ cur = [t \in Threads |-> NoPart]
    /\ sr = [t \in Threads |-> NoResult]
    /\ verdict = [t \in Threads |-> "failed"]
    /\ phase = "drain"
    /\ reaping = {} /\ stranded = {}
    /\ reaped = CHOOSE p \in Peers : TRUE

Goto(t, where) == pc' = [pc EXCEPT ![t] = where]
\* A submitter goes back to its list of parts, progress() to what it was doing.
Resume(t) == /\ Goto(t, IF t = Progress THEN phase ELSE "post")
             /\ cur' = [cur EXCEPT ![t] = NoPart]

-----------------------------------------------------------------------------
(* submit_vector, by the thread that submits r.                            *)

\* The checks before anything is admitted (1093-1111).
Enter(r) ==
    /\ pc[r] = "start"
    /\ Goto(r, IF closing # "open" \/ PeerOf[r] \notin connected \/ dep[r] = "failed"
               THEN "refused" ELSE "bound")
    /\ UNCHANGED <<data, engine, world, locals, reapVars>>

\* The queue bound, then build_subops; a request of no sub-operation at all
\* is refused (1115-1139).
CheckBound(r) ==
    /\ pc[r] = "bound"
    /\ Goto(r, IF Cardinality(inflight) >= MaxInflight \/ PartsOf(r) = {}
               THEN "refused" ELSE "admit")
    /\ UNCHANGED <<data, engine, world, locals, reapVars>>

\* Slip: closed_ is not looked at again under mu_.
AdmitUnchecked(r) ==
    /\ pc[r] = "admit"
    /\ Goto(r, "prepare") /\ inflight' = inflight \cup {r}
    /\ UNCHANGED <<data, outVars, stats, closing, world, locals, reapVars>>

\* Admission, with closed_ looked at again under mu_ (1160-1176).
Admit(r) ==
    /\ pc[r] = "admit"
    /\ IF closing # "open"
       THEN Goto(r, "refused") /\ UNCHANGED inflight
       ELSE Goto(r, "prepare") /\ inflight' = inflight \cup {r}
    /\ UNCHANGED <<data, outVars, stats, closing, world, locals, reapVars>>

\* One part per lane, counted before any is posted; a request whose events
\* have not completed goes to pending_ whole and is handed back (1194-1233).
Prepare(r) ==
    /\ pc[r] = "prepare"
    /\ partsLeft' = [partsLeft EXCEPT ![r] = Cardinality(PartsOf(r))]
    /\ place' = [p \in Parts |->
                    IF p[1] = r /\ p[2] \in PartsOf(r)
                    THEN IF dep[r] = "waiting" THEN "pending" ELSE "todo"
                    ELSE place[p]]
    /\ \/ /\ dep[r] = "waiting"
          /\ state' = IF Terminal(r) \/ r \in cancel THEN state
                      ELSE [state EXCEPT ![r] = "WaitDependency"]
          /\ Goto(r, "done")
          /\ UNCHANGED err
       \/ /\ dep[r] # "waiting"
          /\ err' = err \cup {x \in {r} : dep[r] = "failed" /\ ~Terminal(r)}
          /\ Goto(r, "post")
          /\ UNCHANGED state
    /\ UNCHANGED <<cancel, accepted, completed, sealed, handoff, op, engine, world,
                   locals, reapVars>>

\* The loop over the parts (1235-1241); with none left the call returns kOk.
PostNext(r) ==
    /\ pc[r] = "post"
    /\ \E l \in Lanes :
          /\ place[<<r, l>>] = "todo"
          /\ place' = [place EXCEPT ![<<r, l>>] = "held"]
          /\ cur' = [cur EXCEPT ![r] = <<r, l>>]
    /\ Goto(r, "check")
    /\ UNCHANGED <<reqVars, op, engine, world, sr, verdict, phase, reapVars>>

Return(r) ==
    /\ pc[r] = "post"
    /\ \A l \in Lanes : place[<<r, l>>] # "todo"
    /\ Goto(r, "done")
    /\ UNCHANGED <<data, engine, world, locals, reapVars>>

-----------------------------------------------------------------------------
(* post_ops, part_done and end_abandoned, by any thread t that holds a     *)
(* part.                                                                   *)

Queued(p) == {o \in Ops : o[1] = p /\ op[o] = "queued"}
\* The sets of sub-operations that come first in a part, in its order.
Prefixes(p) == {S \in SUBSET Queued(p) :
                   \A o \in S, q \in Queued(p) : q[2] <= o[2] => q \in S}
\* What one turn offers: whole sub-operations up to the quantum, at least one.
Slice(p) == CHOOSE S \in Prefixes(p) :
                Cardinality(S) = IF Cardinality(Queued(p)) <= Quantum
                                 THEN Cardinality(Queued(p)) ELSE Quantum

\* What another lane failed, or a caller cancelled, is given up unposted.
PostCheck(t) ==
    /\ pc[t] = "check"
    /\ IF Abandoning(cur[t][1])
       THEN /\ op' = [o \in Ops |-> IF o \in Queued(cur[t]) THEN "dropped" ELSE op[o]]
            /\ Goto(t, "finish")
       ELSE Goto(t, "submit") /\ UNCHANGED op
    /\ UNCHANGED <<reqVars, place, engine, world, locals, reapVars>>

\* Sub-operations of peer p a transport still has to hand over through poll();
\* only they can fill its queue or its congestion window.
Outstanding(p) == {o \in Ops : PeerOf[o[1][1]] = p /\ op[o] \in {"nic", "ok", "err"}}

\* TransportProvider::submit: a prefix of the slice is taken.  On a stopped
\* connection it is flushed without moving a byte, and refused otherwise.
ProviderSubmit(t) ==
    LET part == cur[t]
        peer == PeerOf[part[1]]
    IN \E taken \in Prefixes(part), s \in {"ok", "wouldBlock", "error"} :
         /\ taken \subseteq Slice(part)
         /\ (s = "ok") <=> (taken = Slice(part))
         /\ s = "wouldBlock" => peer \notin stopped /\ (taken # {} \/ Outstanding(peer) # {})
         /\ op' = [o \in Ops |-> IF o \in taken
                                 THEN IF peer \in stopped THEN "err" ELSE "nic"
                                 ELSE op[o]]
         /\ sr' = [sr EXCEPT ![t] = [accepted |-> Cardinality(taken), status |-> s]]

\* set_state(kInflight) and the submit (903-909).
PostSubmit(t) ==
    /\ pc[t] = "submit"
    /\ LET r == cur[t][1] IN
         state' = IF Terminal(r) \/ r \in cancel THEN state
                  ELSE [state EXCEPT ![r] = "Inflight"]
    /\ ProviderSubmit(t)
    /\ Goto(t, "count")
    /\ UNCHANGED <<cancel, err, accepted, completed, sealed, partsLeft, handoff, place,
                   engine, world, cur, verdict, phase, reapVars>>

\* add_accepted_subops and what follows from the result (910-943): the rest of
\* the part waits for a later turn, or the part is finished, or the error is
\* noted and the rest given up.
PostCount(t) ==
    LET part == cur[t]
        r    == part[1]
        more == Queued(part) # {}
    IN
    /\ pc[t] = "count"
    /\ sr' = [sr EXCEPT ![t] = NoResult]
    /\ accepted' = [accepted EXCEPT ![r] = @ + sr[t].accepted]
    /\ \/ /\ sr[t].status = "wouldBlock" \/ (sr[t].status = "ok" /\ more)
          /\ place' = [place EXCEPT ![part] = IF t = Progress THEN "waiting" ELSE "pending"]
          /\ Resume(t)
          /\ UNCHANGED <<op, state, err>>
       \/ /\ sr[t].status = "ok" /\ ~more
          /\ Goto(t, "finish")
          /\ UNCHANGED <<state, err, op, place, cur>>
       \/ /\ sr[t].status = "error"
          /\ err' = err \cup {x \in {r} : ~Terminal(r)}
          /\ state' = IF Terminal(r) \/ r \in cancel THEN state
                      ELSE [state EXCEPT ![r] = "Draining"]
          /\ op' = [o \in Ops |-> IF o \in Queued(part) THEN "dropped" ELSE op[o]]
          /\ Goto(t, "finish")
          /\ UNCHANGED <<place, cur>>
    /\ UNCHANGED <<cancel, completed, sealed, partsLeft, handoff, engine, world, verdict,
                   phase, reapVars>>

\* part_finished: only the last part of a request goes on to decide.
PartFinished(t) ==
    LET r    == cur[t][1]
        left == IF partsLeft[r] > 0 THEN partsLeft[r] - 1 ELSE 0
    IN
    /\ pc[t] = "finish"
    /\ partsLeft' = [partsLeft EXCEPT ![r] = left]
    /\ place' = [place EXCEPT ![cur[t]] = "done"]
    /\ IF left = 0 THEN Goto(t, "seal") /\ UNCHANGED cur ELSE Resume(t)
    /\ UNCHANGED <<state, cancel, err, accepted, completed, sealed, handoff, op, engine,
                   world, sr, verdict, phase, reapVars>>

\* Slip: the last part ends the request without waiting for what was accepted.
SealAnyway(t) ==
    LET r == cur[t][1] IN
    /\ pc[t] = "seal"
    /\ IF Abandoning(r)
       THEN sealed' = sealed \cup {r} /\ Goto(t, "claim") /\ UNCHANGED cur
       ELSE Resume(t) /\ UNCHANGED sealed
    /\ UNCHANGED <<state, cancel, err, accepted, completed, partsLeft, handoff, op,
                   place, engine, world, sr, verdict, phase, reapVars>>

\* abandoning() and seal_if_idle (955-959).
SealIfIdle(t) ==
    LET r == cur[t][1] IN
    /\ pc[t] = "seal"
    /\ IF Abandoning(r)
       THEN /\ sealed' = sealed \cup {r}
            /\ IF ~Terminal(r) /\ completed[r] >= accepted[r]
               THEN Goto(t, "claim") /\ UNCHANGED cur ELSE Resume(t)
       ELSE Resume(t) /\ UNCHANGED sealed
    /\ UNCHANGED <<state, cancel, err, accepted, completed, partsLeft, handoff, op,
                   place, engine, world, sr, verdict, phase, reapVars>>

-----------------------------------------------------------------------------
(* Ending a request: whoever takes it out of inflight_ decides how it ends,*)
(* counts it, ends it and queues it for poll_completions.                  *)

\* Slip: whether the request was still in inflight_ is not looked at.
ClaimAnyway(t) ==
    /\ pc[t] = "claim"
    /\ inflight' = inflight \ {cur[t][1]}
    /\ Goto(t, "decide")
    /\ UNCHANGED <<data, outVars, stats, closing, world, locals, reapVars>>

Claim(t) ==
    LET r == cur[t][1] IN
    /\ pc[t] = "claim"
    /\ inflight' = inflight \ {r}
    /\ IF r \in inflight THEN Goto(t, "decide") /\ UNCHANGED cur ELSE Resume(t)
    /\ UNCHANGED <<data, outVars, stats, closing, world, sr, verdict, phase, reapVars>>

Count(what) == stats' = [stats EXCEPT ![what] = @ + 1]

\* Slip: what was given up is taken to have been cancelled.
DecideCancelled(t) ==
    /\ pc[t] = "decide"
    /\ ~(t = Progress /\ phase = "event")
    /\ verdict' = [verdict EXCEPT ![t] = "cancelled"]
    /\ Count("cancelled")
    /\ Goto(t, "end")
    /\ UNCHANGED <<data, inflight, outVars, closing, world, cur, sr, phase, reapVars>>

\* A thread that gave up the last part (end_abandoned, 971-978).
DecideAbandoned(t) ==
    LET v == IF cur[t][1] \in cancel THEN "cancelled" ELSE "failed" IN
    /\ pc[t] = "decide"
    /\ ~(t = Progress /\ phase = "event")
    /\ verdict' = [verdict EXCEPT ![t] = v]
    /\ Count(v)
    /\ Goto(t, "end")
    /\ UNCHANGED <<data, inflight, outVars, closing, world, cur, sr, phase, reapVars>>

\* progress() after the last completion (1695-1707).
DecideCompleted ==
    LET r == cur[Progress][1]
        v == IF r \in cancel THEN "cancelled" ELSE IF r \in err THEN "failed" ELSE "succeeded"
    IN
    /\ pc[Progress] = "decide" /\ phase = "event"
    /\ verdict' = [verdict EXCEPT ![Progress] = v]
    /\ IF v = "succeeded"
       THEN Goto(Progress, "handoff") /\ UNCHANGED stats
       ELSE Goto(Progress, "end") /\ Count(v)
    /\ UNCHANGED <<data, inflight, outVars, closing, world, cur, sr, phase, reapVars>>

\* Slip: a success is not counted before the request ends.
SendHandoffUncounted ==
    /\ pc[Progress] = "handoff"
    /\ handoff' = handoff \cup {cur[Progress][1]}
    /\ Goto(Progress, "end")
    /\ UNCHANGED <<state, cancel, err, accepted, completed, sealed, partsLeft, op, place,
                   inflight, outVars, stats, closing, world, locals, reapVars>>

\* The ready handoffs of a write, then the count (1710-1753).
SendHandoff ==
    /\ pc[Progress] = "handoff"
    /\ handoff' = handoff \cup {cur[Progress][1]}
    /\ Count("succeeded")
    /\ Goto(Progress, "end")
    /\ UNCHANGED <<state, cancel, err, accepted, completed, sealed, partsLeft, op, place,
                   inflight, outVars, closing, world, locals, reapVars>>

Outcome == [succeeded |-> "Succeeded", failed |-> "Failed", cancelled |-> "Cancelled"]

\* finish_success, fail and finish_cancelled: nothing once terminal.
Finish(t) ==
    LET r == cur[t][1] IN
    /\ pc[t] = "end"
    /\ IF Terminal(r) THEN UNCHANGED <<state, err>>
       ELSE /\ state' = [state EXCEPT ![r] = Outcome[verdict[t]]]
            /\ err' = err \cup {x \in {r} : verdict[t] = "failed"}
    /\ verdict' = [verdict EXCEPT ![t] = "failed"]
    /\ Goto(t, "publish")
    /\ UNCHANGED <<cancel, accepted, completed, sealed, partsLeft, handoff, op, place,
                   engine, world, cur, sr, phase, reapVars>>

\* publish and keep_completed_locked: past the depth the oldest goes.
Publish(t) ==
    LET q == Append(completedQ, cur[t][1]) IN
    /\ pc[t] = "publish"
    /\ IF CompletionDepth = 0
       THEN UNCHANGED completedQ /\ dropped' = dropped \cup {cur[t][1]}
       ELSE IF Len(q) <= CompletionDepth
       THEN completedQ' = q /\ UNCHANGED dropped
       ELSE completedQ' = Tail(q) /\ dropped' = dropped \cup {Head(q)}
    /\ Resume(t)
    /\ UNCHANGED <<data, inflight, polled, stats, closing, world, sr, verdict, phase,
                   reapVars>>

-----------------------------------------------------------------------------
(* progress(): one scheduling pass, departed peers, then completions.      *)

\* progress_loop looks at stopping_ before each pass.
ProgressStop ==
    /\ pc[Progress] = "pass" /\ closing = "stopping"
    /\ Goto(Progress, "stopped")
    /\ UNCHANGED <<data, engine, world, locals, reapVars>>

\* drain_pending takes the whole of pending_ for this turn.
DrainBegin ==
    /\ pc[Progress] = "pass" /\ closing # "stopping"
    /\ place' = [p \in Parts |-> IF place[p] = "pending" THEN "turn" ELSE place[p]]
    /\ phase' = "drain"
    /\ Goto(Progress, "drain")
    /\ UNCHANGED <<reqVars, op, engine, world, cur, sr, verdict, reapVars>>

\* Slip: a part whose request was given up goes on waiting for its events.
DrainWaits(p) ==
    /\ pc[Progress] = "drain" /\ place[p] = "turn"
    /\ IF dep[p[1]] = "waiting"
       THEN place' = [place EXCEPT ![p] = "waiting"] /\ UNCHANGED <<err, pc, cur>>
       ELSE /\ place' = [place EXCEPT ![p] = "held"]
            /\ cur' = [cur EXCEPT ![Progress] = p]
            /\ err' = err \cup {x \in {p[1]} : dep[p[1]] = "failed" /\ ~Abandoning(p[1])}
            /\ Goto(Progress, "check")
    /\ UNCHANGED <<state, cancel, accepted, completed, sealed, partsLeft, handoff, op,
                   engine, world, sr, verdict, phase, reapVars>>

\* One part of the turn: it waits on, or is offered to post_ops (1058-1080).
\* An event that can no longer complete ends the request, failed.
DrainNext(p) ==
    /\ pc[Progress] = "drain" /\ place[p] = "turn"
    /\ \/ /\ ~Abandoning(p[1]) /\ dep[p[1]] = "waiting"
          /\ place' = [place EXCEPT ![p] = "waiting"]
          /\ UNCHANGED <<err, pc, cur>>
       \/ /\ Abandoning(p[1]) \/ dep[p[1]] # "waiting"
          /\ place' = [place EXCEPT ![p] = "held"]
          /\ cur' = [cur EXCEPT ![Progress] = p]
          /\ err' = err \cup {x \in {p[1]} : dep[p[1]] = "failed" /\ ~Abandoning(p[1])}
          /\ Goto(Progress, "check")
    /\ UNCHANGED <<state, cancel, accepted, completed, sealed, partsLeft, handoff, op,
                   engine, world, sr, verdict, phase, reapVars>>

\* What is still waiting goes back to pending_; then the peers are looked at
\* (1082-1085, 1410-1421).
DrainEnd ==
    /\ pc[Progress] = "drain" /\ \A p \in Parts : place[p] # "turn"
    /\ place' = [p \in Parts |-> IF place[p] = "waiting" THEN "pending" ELSE place[p]]
    /\ Goto(Progress, "scan")
    /\ UNCHANGED <<reqVars, op, engine, world, locals, reapVars>>

ReapScan ==
    /\ pc[Progress] = "scan"
    /\ reaping' = known \cap connected \cap gone
    /\ Goto(Progress, "reap")
    /\ UNCHANGED <<data, engine, world, locals, reaped, stranded>>

\* Slip: disconnect returns before the transport has stopped.
FlushedLater(p) == op

\* TransportProvider::disconnect on every lane: the transport no longer
\* touches memory for what was posted, and completes it, failed.
Flushed(p) == [o \in Ops |-> IF PeerOf[o[1][1]] = p /\ op[o] = "nic" THEN "err" ELSE op[o]]

\* The epoch moves, then the connections are stopped (1424-1434).
ReapStop(p) ==
    /\ pc[Progress] = "reap" /\ p \in reaping
    /\ reaping' = reaping \ {p} /\ reaped' = p
    /\ connected' = connected \ {p}
    /\ stopped' = stopped \cup {p}
    /\ op' = Flushed(p)
    /\ Goto(Progress, "strand")
    /\ UNCHANGED <<reqVars, place, engine, dep, known, gone, locals, stranded>>

\* Everything in flight to it is claimed in one go (1438-1452).
ReapClaim ==
    /\ pc[Progress] = "strand"
    /\ stranded' = {r \in inflight : PeerOf[r] = reaped}
    /\ inflight' = inflight \ stranded'
    /\ phase' = "lost"
    /\ Goto(Progress, "lost")
    /\ UNCHANGED <<data, outVars, stats, closing, world, cur, sr, verdict, reaping,
                   reaped>>

\* Each is sealed, counted and failed, and published next (1454-1472).
ReapFail(r) ==
    /\ pc[Progress] = "lost" /\ r \in stranded
    /\ stranded' = stranded \ {r}
    /\ sealed' = sealed \cup {r}
    /\ Count("failed")
    /\ IF Terminal(r) THEN UNCHANGED <<state, err>>
       ELSE /\ state' = [state EXCEPT ![r] = "Failed"]
            /\ err' = err \cup {r}
    /\ cur' = [cur EXCEPT ![Progress] = <<r, CHOOSE l \in Lanes : TRUE>>]
    /\ Goto(Progress, "publish")
    /\ UNCHANGED <<cancel, accepted, completed, partsLeft, handoff, op, place, inflight,
                   outVars, closing, world, sr, verdict, phase, reaping, reaped>>

ReapNext ==
    /\ pc[Progress] = "lost" /\ stranded = {}
    /\ Goto(Progress, "reap")
    /\ UNCHANGED <<data, engine, world, locals, reapVars>>

\* TransportProvider::poll hands over every completion (1656-1670).
PollTransports ==
    /\ pc[Progress] = "reap" /\ reaping = {}
    /\ op' = [o \in Ops |-> IF op[o] = "ok" THEN "pollOk"
                            ELSE IF op[o] = "err" THEN "pollErr" ELSE op[o]]
    /\ phase' = "event"
    /\ Goto(Progress, "event")
    /\ UNCHANGED <<reqVars, place, engine, world, cur, sr, verdict, reapVars>>

\* Slip: an unsealed request, too, is measured against what was accepted so far.
IsLastAccepted(r) == completed[r] + 1 >= accepted[r]

\* RequestImpl::on_subop_complete: the first error sticks, and a sealed request
\* is measured against what was accepted.
IsLast(r) == completed[r] + 1 >= IF r \in sealed THEN accepted[r]
                                 ELSE Cardinality(OpsOf(r))

\* One completion (1673-1682); one of a request that has ended is dropped.
HandleEvent(o) ==
    LET r == o[1][1] IN
    /\ pc[Progress] = "event" /\ op[o] \in {"pollOk", "pollErr"}
    /\ IF r \in inflight /\ ~Terminal(r)
       THEN /\ op' = [op EXCEPT ![o] = IF @ = "pollOk" THEN "doneOk" ELSE "doneErr"]
            /\ err' = err \cup {x \in {r} : op[o] = "pollErr"}
            /\ completed' = [completed EXCEPT ![r] = @ + 1]
            /\ IF IsLast(r)
               THEN Goto(Progress, "claim") /\ cur' = [cur EXCEPT ![Progress] = o[1]]
               ELSE UNCHANGED <<pc, cur>>
       ELSE /\ op' = [op EXCEPT ![o] = "lost"]
            /\ UNCHANGED <<err, completed, cur, pc>>
    /\ UNCHANGED <<state, cancel, accepted, sealed, partsLeft, handoff, place, engine,
                   world, sr, verdict, phase, reapVars>>

EventsDone ==
    /\ pc[Progress] = "event" /\ \A o \in Ops : op[o] \notin {"pollOk", "pollErr"}
    /\ phase' = "drain"
    /\ Goto(Progress, "pass")
    /\ UNCHANGED <<data, engine, world, cur, sr, verdict, reapVars>>

-----------------------------------------------------------------------------
(* The application.                                                        *)

\* RequestImpl::cancel, on a request submit_vector has handed back.
Cancel(r) ==
    /\ "cancel" \in Env
    /\ pc[r] = "done" /\ ~Terminal(r)
    /\ cancel' = cancel \cup {r}
    /\ state' = [state EXCEPT ![r] = "Draining"]
    /\ UNCHANGED <<err, accepted, completed, sealed, partsLeft, handoff, op, place,
                   engine, world, threadVars, reapVars>>

PollCompletions ==
    /\ "poll" \in Env
    /\ completedQ # <<>>
    /\ \E n \in 1 .. Len(completedQ) :
          /\ polled' = polled \cup {completedQ[i] : i \in 1 .. n}
          /\ completedQ' = SubSeq(completedQ, n + 1, Len(completedQ))
    /\ UNCHANGED <<data, inflight, dropped, stats, closing, world, threadVars, reapVars>>

\* remove_peer: unlisted first, then its lanes are stopped (692-714).
RemovePeer(p) ==
    /\ "remove" \in Env
    /\ p \in known
    /\ known' = known \ {p}
    /\ connected' = connected \ {p}
    /\ UNCHANGED <<data, engine, dep, gone, stopped, threadVars, reapVars>>

RemoveStop(p) ==
    /\ p \notin known /\ p \notin stopped
    /\ stopped' = stopped \cup {p}
    /\ op' = Flushed(p)
    /\ UNCHANGED <<reqVars, place, engine, dep, known, connected, gone, threadVars,
                   reapVars>>

\* close(): refuse new work, wait for inflight_ to empty or time out, then
\* stop the progress thread.
SetClosing(from, to) ==
    /\ closing \in from /\ closing' = to
    /\ UNCHANGED <<data, inflight, outVars, stats, world, threadVars, reapVars>>

CloseBegin   == "close" \in Env /\ SetClosing({"open", "timedOut"}, "draining")
CloseTimeout == inflight # {} /\ SetClosing({"draining"}, "timedOut")
CloseDrained == inflight = {} /\ SetClosing({"draining"}, "stopping")
CloseJoin    == pc[Progress] = "stopped" /\ SetClosing({"stopping"}, "closed")

-----------------------------------------------------------------------------
(* The outside world: the wire, the peer's process, the device.            *)

TransportCompletes(o) ==
    /\ op[o] = "nic"
    /\ \E s \in {"ok", "err"} : op' = [op EXCEPT ![o] = s]
    /\ UNCHANGED <<reqVars, place, engine, world, threadVars, reapVars>>

PeerGoes(p) ==
    /\ "depart" \in Env
    /\ p \notin gone
    /\ gone' = gone \cup {p}
    /\ UNCHANGED <<data, engine, dep, known, connected, stopped, threadVars, reapVars>>

DependencySettles(r) ==
    /\ dep[r] = "waiting"
    /\ \E d \in {"met", "failed"} : dep' = [dep EXCEPT ![r] = d]
    /\ UNCHANGED <<data, engine, peerVars, threadVars, reapVars>>

-----------------------------------------------------------------------------
Submitter(r) == Enter(r) \/ CheckBound(r) \/ Admit(r) \/ Prepare(r) \/ PostNext(r) \/ Return(r)

Poster(t) == \/ PostCheck(t) \/ PostSubmit(t) \/ PostCount(t) \/ PartFinished(t)
             \/ SealIfIdle(t) \/ Claim(t) \/ DecideAbandoned(t) \/ Finish(t) \/ Publish(t)

ProgressThread ==
    \/ ProgressStop \/ DrainBegin \/ (\E p \in Parts : DrainNext(p)) \/ DrainEnd
    \/ ReapScan \/ (\E p \in Peers : ReapStop(p)) \/ ReapClaim
    \/ (\E r \in Requests : ReapFail(r)) \/ ReapNext
    \/ PollTransports \/ (\E o \in Ops : HandleEvent(o)) \/ EventsDone
    \/ DecideCompleted \/ SendHandoff

Closer == CloseBegin \/ CloseTimeout \/ CloseDrained \/ CloseJoin

Next ==
    \/ \E r \in Requests : Submitter(r) \/ Cancel(r) \/ DependencySettles(r)
    \/ \E t \in Threads : Poster(t)
    \/ ProgressThread
    \/ PollCompletions
    \/ \E p \in Peers : RemovePeer(p) \/ RemoveStop(p) \/ PeerGoes(p)
    \/ Closer
    \/ \E o \in Ops : TransportCompletes(o)

Spec == Init /\ [][Next]_vars

-----------------------------------------------------------------------------
RequestTypes ==
    /\ state \in [Requests -> {"Queued", "WaitDependency", "Inflight", "Draining"}
                              \cup TerminalStates]
    /\ cancel \in SUBSET Requests /\ err \in SUBSET Requests
    /\ sealed \in SUBSET Requests /\ handoff \in SUBSET Requests
    /\ accepted \in [Requests -> Nat] /\ completed \in [Requests -> Nat]
    /\ partsLeft \in [Requests -> Nat]
    /\ dep \in [Requests -> {"met", "waiting", "failed"}]

PartTypes == op \in [Ops -> OpPlaces] /\ place \in [Parts -> PartPlaces]

EngineTypes ==
    /\ inflight \in SUBSET Requests
    /\ completedQ \in Seq(Requests)
    /\ polled \in SUBSET Requests /\ dropped \in SUBSET Requests
    /\ stats \in [{"succeeded", "failed", "cancelled"} -> Nat]
    /\ closing \in {"open", "draining", "timedOut", "stopping", "closed"}

PeerTypes ==
    /\ known \in SUBSET Peers /\ connected \in SUBSET Peers
    /\ gone \in SUBSET Peers /\ stopped \in SUBSET Peers
    /\ reaping \in SUBSET Peers /\ reaped \in Peers /\ stranded \in SUBSET Requests

ThreadTypes ==
    /\ pc \in [Threads -> {"start", "bound", "admit", "prepare", "post", "done", "refused",
                           "pass", "drain", "scan", "reap", "strand", "lost", "event",
                           "stopped", "check", "submit", "count", "finish", "seal",
                           "claim", "decide", "handoff", "end", "publish"}]
    /\ cur \in [Threads -> Parts]
    /\ sr \in [Threads -> [accepted : Nat, status : {"ok", "wouldBlock", "error"}]]
    /\ verdict \in [Threads -> {"succeeded", "failed", "cancelled"}]
    /\ phase \in {"drain", "lost", "event"}

\* Every field of the engine, its requests, peers and threads holds a value of
\* its type.
TypeOK == RequestTypes /\ PartTypes /\ EngineTypes /\ PeerTypes /\ ThreadTypes

\* When a request has ended, FailedSafe, CancelledSafe or SourceReusable holds
\* for its caller: no transport is still reading its source or writing its
\* destination, and none starts to, whichever lane or thread was last.
EndedIsQuiet == \A r \in Requests : Terminal(r) => \A o \in OpsOf(r) : op[o] # "nic"

\* A request succeeds, and its peer is told the bytes have landed, only when
\* every sub-operation on every lane has completed without an error.
SuccessIsWhole ==
    \A r \in Requests :
        state[r] = "Succeeded" \/ r \in handoff => \A o \in OpsOf(r) : op[o] = "doneOk"

Published == {completedQ[i] : i \in 1 .. Len(completedQ)} \cup polled \cup dropped

\* An ended request is queued for poll_completions exactly once, after it has
\* ended: a caller that frees its context on collecting a request frees it
\* once, whichever of submitter, reaper and completion path ended it.
EndsAreReportedOnce ==
    /\ Published \subseteq {r \in Requests : Terminal(r)}
    /\ Len(completedQ) + Cardinality(polled) + Cardinality(dropped) = Cardinality(Published)
    /\ Cardinality(Published) + Cardinality({t \in Threads : pc[t] = "publish"})
          = Cardinality({r \in Requests : Terminal(r)})

\* "If a caller has seen it end, the counters say so": what stats() reports is
\* what has ended plus what some thread has counted and is about to end.
StatsCountEndings ==
    \A v \in DOMAIN Outcome :
        stats[v] = Cardinality({r \in Requests : state[r] = Outcome[v]})
                   + Cardinality({t \in Threads : pc[t] = "end" /\ verdict[t] = v})

\* Every ending is reported once and counted once, also of two requests that
\* end at the same time into a completion queue with room for one.
EndingsAreExact == EndsAreReportedOnce /\ StatsCountEndings

\* Once close() has returned kOk nothing is in flight or with a transport,
\* nothing will be, and every request handed to a caller has ended.
CloseMeansDrained ==
    closing = "closed" =>
        /\ inflight = {}
        /\ \A o \in Ops : op[o] # "nic"
        /\ \A r \in Requests : pc[r] = "done" => Terminal(r)

-----------------------------------------------------------------------------
(* Why the invariants above hold: an inductive invariant.                  *)

\* The parts of r that may still post, and what became of its sub-operations.
LiveParts(r) == {l \in Lanes : place[<<r, l>>] \notin {"none", "done"}}
Taken(r)     == {o \in OpsOf(r) : op[o] \notin {"queued", "dropped"}}
Done(r)      == {o \in OpsOf(r) : op[o] \in {"doneOk", "doneErr"}}
Settled(r)   == \A o \in OpsOf(r) : op[o] \in {"dropped", "doneOk", "doneErr", "lost"}

Unprepared  == {"start", "bound", "admit", "refused", "prepare"}
Posting     == {"check", "submit", "count", "finish"}
AfterParts  == {"seal", "claim", "decide", "handoff", "end", "publish"}
Ending      == {"claim", "decide", "handoff", "end"}
\* Accepted by a transport and not yet added to accepted_subops_.
Uncounted(t, r) == IF pc[t] = "count" /\ cur[t][1] = r THEN sr[t].accepted ELSE 0

\* A part is in at most one thread's hands, and a submitter only has parts of
\* its own request, once it has built them.
PartsAreHeld == \A t \in Threads : pc[t] \in Posting => place[cur[t]] = "held"
OwnParts     == \A r \in Requests : pc[r] \in Posting \cup AfterParts => cur[r][1] = r
OneHolder    == \A t, u \in Threads :
                    pc[t] \in Posting /\ pc[u] \in Posting /\ cur[t] = cur[u] => t = u
PartsAreBuilt ==
    \A r \in Requests, l \in Lanes :
        /\ pc[r] \in Unprepared => place[<<r, l>>] = "none"
        /\ pc[r] \notin Unprepared /\ l \in PartsOf(r) => place[<<r, l>>] # "none"
HandsInv == PartsAreHeld /\ OwnParts /\ OneHolder /\ PartsAreBuilt

\* parts_left_, accepted_subops_ and completed_subops_ count what they claim to.
PartsCounted ==
    \A r \in Requests : pc[r] \notin Unprepared => partsLeft[r] = Cardinality(LiveParts(r))
AcceptedCounted ==
    \A r \in Requests :
        accepted[r] + Uncounted(r, r) + Uncounted(Progress, r) = Cardinality(Taken(r))
CompletedCounted == \A r \in Requests : completed[r] = Cardinality(Done(r))
CountInv == PartsCounted /\ AcceptedCounted /\ CompletedCounted

\* A part that is finished, or about to be, has nothing left to post, and a
\* request is sealed after its last part.
DonePartsPosted == \A o \in Ops : place[o[1]] = "done" => op[o] # "queued"
FinishingPosted == \A t \in Threads : pc[t] = "finish" => Queued(cur[t]) = {}
NoPartsLeft(r)  == pc[r] \notin Unprepared /\ LiveParts(r) = {}
SealingIsLast   == \A t \in Threads : pc[t] = "seal" => NoPartsLeft(cur[t][1])
SealedIsLast    == \A r \in sealed : Terminal(r) \/ NoPartsLeft(r)
PartInv == DonePartsPosted /\ FinishingPosted /\ SealingIsLast /\ SealedIsLast

\* A thread that is about to end a request ends one with nothing outstanding,
\* and what the reaper ends has had its connections stopped.
EndersSettled   == \A t \in Threads : pc[t] \in Ending => Settled(cur[t][1])
EndedSettled    == \A r \in Requests : Terminal(r) => Settled(r) \/ PeerOf[r] \in stopped
StoppedIsQuiet  == \A o \in Ops : PeerOf[o[1][1]] \in stopped => op[o] # "nic"
StrandedStopped == /\ pc[Progress] = "strand" => reaped \in stopped
                   /\ \A r \in stranded : PeerOf[r] \in stopped
EndInv == EndersSettled /\ EndedSettled /\ StoppedIsQuiet /\ StrandedStopped

\* Together: when the last part is finished, no completion can be missing
\* from a count that says none is.
QuietInv == TypeOK /\ HandsInv /\ CountInv /\ PartInv /\ EndInv

-----------------------------------------------------------------------------
(* Every thread keeps running, a transport completes what it took while    *)
(* the peer is there, and a call of remove_peer runs to its end.  Nothing  *)
(* is assumed of device events, callers, or a peer that has gone.          *)
CompletesWhileThere(o) == PeerOf[o[1][1]] \notin gone /\ TransportCompletes(o)

Fairness ==
    /\ \A r \in Requests : WF_vars(Submitter(r))
    /\ \A t \in Threads : WF_vars(Poster(t))
    /\ WF_vars(ProgressThread)
    /\ \A o \in Ops : WF_vars(CompletesWhileThere(o))
    /\ \A p \in Peers : WF_vars(RemoveStop(p))

FairSpec == Spec /\ Fairness

\* "kOk hands back a request that ends exactly once": an accepted request ends
\* and is reported, unless it waits for a device event that never completes and
\* nobody cancels it.
AcceptedRequestsEnd ==
    \A r \in Requests :
        pc[r] = "done" /\ (dep[r] # "waiting" \/ r \in cancel)
            ~> Terminal(r) /\ r \in Published

-----------------------------------------------------------------------------
(* What a request promises its caller, in the terms of RequestLifecycle.   *)
Lifecycle == INSTANCE RequestLifecycle WITH
    phase    <- [r \in Requests |->
                    IF Terminal(r) THEN state[r]
                    ELSE IF pc[r] \in {"start", "bound", "admit", "refused"} THEN "none"
                    ELSE "live"],
    asked    <- cancel,
    touching <- {r \in Requests : \E o \in OpsOf(r) : op[o] = "nic"},
    told     <- handoff,
    reported <- Published

\* The engine keeps that promise.
LifecycleRefined == Lifecycle!Spec
=============================================================================
