---------------------------- MODULE RdmaProvider ----------------------------
(***************************************************************************)
(* The verbs transport (src/transport/rdma/rdma_provider.cpp): connections *)
(* that are dialled, proved and handed out, their queue pairs, and the one *)
(* completion queue that every dial and the polling thread read.           *)
(*                                                                         *)
(* Actors: a thread per dial (connect or accept), a submitter and a        *)
(* disconnecting thread per connection, the thread that polls, and the     *)
(* adapter.  The adapter works through each send queue in order, and       *)
(* completes a request it was not asked to signal only by failing it.      *)
(***************************************************************************)
EXTENDS Integers, Sequences, FiniteSets, SequencesExt

CONSTANTS
    Conns,         \* connections dialled or accepted
    QpOf,          \* the queue pair numbers the adapter gives to each
    SqDepth,       \* RdmaConfig::sq_depth
    SignalPeriod,  \* RdmaConfig::signal_period
    Window,        \* bytes the congestion controller allows in flight
    OpSize,        \* the length of each sub-operation, in order of posting
    Batches,       \* the lengths of the batches handed to submit
    RqDepth,       \* RdmaConfig::rq_depth, receives armed on the first queue pair
    CqBatch,       \* completions one reader draws at a time
    Users,         \* the connections that are used once they are up
    Faulty,        \* the queue pairs on which the adapter may fail a request
    Failures,      \* how a request may fail, {"Err", "Lost"} or less
    PostFails,     \* whether ibv_post_send may refuse a request
    Nil

MaxOps == Len(OpSize)
Ops == 1..MaxOps
QpNums == UNION {ToSet(QpOf[c]) : c \in Conns}
\* Success, an answer from the far end that it failed, retries that ran out,
\* and what is left of a queue pair in error.
WcStatus == {"Ok", "Err", "Lost", "Flush"}

VARIABLES
    phase,      \* how far each connection has come
    failed,     \* connections with RdmaConnection::failed_ set
    owner,      \* conn_by_qp_
    pairs,      \* QueuePair accounting, by queue pair number
    rotation,   \* next_qp_ of each connection
    entered,    \* connections with a submit past its unlocked checks
    nextOp,     \* the next sub-operation to be accepted
    budget,     \* bytes in flight in the congestion controller
    cq,         \* the completion queue
    stashed,    \* stashed_
    verdict,    \* verify_done_
    hand,       \* completions each reader of the queue has drawn
    seen,       \* the status of its own proof, once a dial has drawn it
    polling,    \* where poll is
    events,     \* the completion events of each sub-operation
    sendq,      \* the adapter: requests posted to each queue pair
    broken,     \* the adapter: queue pairs in the error state
    receives,   \* the adapter: receives posted on each queue pair
    greeted,    \* connections on which the peer's own proof has arrived
    written,    \* sub-operations the adapter has carried out
    acked,      \* connections whose proof the far end has acknowledged
    short       \* connections on which a request was refused by the adapter

connVars == <<phase, failed, owner, rotation, entered, seen>>
dataVars == <<pairs, nextOp, budget, events>>
queueVars == <<cq, stashed, verdict, hand, polling>>
nicVars == <<sendq, broken, receives, greeted, written, acked, short>>
vars == <<connVars, dataVars, queueVars, nicVars>>

Readers == Conns \cup {"poll"}
First(c) == QpOf[c][1]
Pairs(c) == ToSet(QpOf[c])
NewPair == [posted |-> 0, reclaimed |-> 0, since |-> 0, unsignalled |-> <<>>]
Wc(wr, n, st) == [kind |-> wr.kind, qp |-> n, seq |-> wr.seq, st |-> st]

Init ==
    /\ phase = [c \in Conns |-> "none"]
    /\ failed = {} /\ entered = {}
    /\ owner = [n \in QpNums |-> Nil]
    /\ pairs = [n \in QpNums |-> NewPair]
    /\ rotation = [c \in Conns |-> 0]
    /\ nextOp = 1 /\ budget = 0
    /\ cq = <<>> /\ stashed = <<>> /\ polling = "idle"
    /\ hand = [r \in Readers |-> <<>>]
    /\ seen = [c \in Conns |-> Nil]
    /\ verdict = [n \in QpNums |-> Nil]
    /\ events = [o \in Ops |-> <<>>]
    /\ sendq = [n \in QpNums |-> <<>>]
    /\ receives = [n \in QpNums |-> 0]
    /\ broken = {} /\ greeted = {} /\ written = {} /\ acked = {} /\ short = {}

-----------------------------------------------------------------------------
(* Dialling: build_connection and verify_path.                             *)

Live(c) == phase[c] \in {"exchanging", "proving", "up"}

\* The queue pairs are created.  The adapter gives out no number in use.
Create(c) ==
    /\ phase[c] = "none"
    /\ \A d \in Conns : Live(d) => Pairs(c) \cap Pairs(d) = {}
    /\ phase' = [phase EXCEPT ![c] = "exchanging"]
    /\ UNCHANGED <<failed, owner, rotation, entered, seen, dataVars, queueVars, nicVars>>

\* The peer cannot be reached, has another number of queue pairs or speaks
\* another major version, or a transition is refused: the queue pairs are
\* destroyed, none of them known to anyone else yet.
ExchangeFails(c) ==
    /\ phase[c] = "exchanging"
    /\ phase' = [phase EXCEPT ![c] = "refused"]
    /\ UNCHANGED <<failed, owner, rotation, entered, seen, dataVars, queueVars, nicVars>>

\* The queue pairs are ready: the connection is made known under their
\* numbers, its receives are armed and verify_path posts its send.
ExchangeDone(c) ==
    /\ phase[c] = "exchanging"
    /\ phase' = [phase EXCEPT ![c] = "proving"]
    /\ owner' = [n \in QpNums |-> IF n \in Pairs(c) THEN c ELSE owner[n]]
    /\ pairs' = [n \in QpNums |-> IF n \in Pairs(c) THEN NewPair ELSE pairs[n]]
    /\ receives' = [receives EXCEPT ![First(c)] = RqDepth]
    /\ sendq' = [sendq EXCEPT ![First(c)] =
                    <<[kind |-> "verify", op |-> 0, seq |-> 0, signal |-> TRUE]>>]
    /\ UNCHANGED <<failed, rotation, entered, seen, nextOp, budget, events,
                   queueVars, broken, greeted, written, acked, short>>

\* forget_conn_of and ~RdmaConnection: the numbers are forgotten and the queue
\* pairs destroyed, and with them what the completion queue holds for them.
Destroy(c, as) ==
    /\ phase' = [phase EXCEPT ![c] = as]
    /\ owner' = [n \in QpNums |-> IF owner[n] = c THEN Nil ELSE owner[n]]
    /\ sendq' = [n \in QpNums |-> IF n \in Pairs(c) THEN <<>> ELSE sendq[n]]
    /\ cq' = SelectSeq(cq, LAMBDA w : w.qp \notin Pairs(c))
    /\ receives' = [n \in QpNums |-> IF n \in Pairs(c) THEN 0 ELSE receives[n]]
    /\ broken' = broken \ Pairs(c)
    /\ UNCHANGED <<failed, rotation, entered, dataVars, stashed, hand, polling,
                   greeted, written, acked, short>>

Works(st) == st = "Ok"

\* verify_path returns with the status of its own send.
Proven(c, st) ==
    \/ /\ Works(st)
       /\ phase' = [phase EXCEPT ![c] = "up"]
       /\ UNCHANGED <<failed, owner, rotation, entered, dataVars, cq, stashed,
                      hand, polling, nicVars>>
    \/ ~Works(st) /\ Destroy(c, "refused")

\* take_verified, at the top of a turn: another reader has drawn it.
VerifyTake(c) ==
    /\ phase[c] = "proving" /\ hand[c] = <<>> /\ seen[c] = Nil
    /\ verdict[First(c)] # Nil
    /\ verdict' = [verdict EXCEPT ![First(c)] = Nil]
    /\ Proven(c, verdict[First(c)])
    /\ UNCHANGED seen

\* The turn's batch is filed and its own completion was in it.
VerifyReturn(c) ==
    /\ phase[c] = "proving" /\ hand[c] = <<>> /\ seen[c] # Nil
    /\ Proven(c, seen[c])
    /\ UNCHANGED <<verdict, seen>>

\* The deadline passes between two turns, or the queue cannot be read.
VerifyGiveUp(c) ==
    /\ phase[c] = "proving" /\ hand[c] = <<>> /\ seen[c] = Nil
    /\ Destroy(c, "refused")
    /\ UNCHANGED <<verdict, seen>>

-----------------------------------------------------------------------------
(* Reading the completion queue: verify_path and poll.                     *)

\* drain_cq: one critical section takes up to a batch.
Drawn(max) == SubSeq(cq, 1, IF Len(cq) < max THEN Len(cq) ELSE max)
Left(max) == SubSeq(cq, 1 + Len(Drawn(max)), Len(cq))

VerifyDraw(c) ==
    /\ phase[c] = "proving" /\ hand[c] = <<>> /\ seen[c] = Nil /\ cq # <<>>
    /\ hand' = [hand EXCEPT ![c] = Drawn(CqBatch)]
    /\ cq' = Left(CqBatch)
    /\ UNCHANGED <<connVars, dataVars, stashed, verdict, polling, nicVars>>

Finished(r) == hand' = [hand EXCEPT ![r] = Tail(hand[r])]

note_verified(w) == verdict' = [verdict EXCEPT ![w.qp] = w.st]

\* Slip: the receive is only counted as an arrival.
NoRepost(w) == UNCHANGED receives

\* A receive is posted again after a success, if the connection is known.
absorb_receive(w) ==
    receives' = IF w.st = "Ok" /\ owner[w.qp] # Nil
                THEN [receives EXCEPT ![w.qp] = @ + 1] ELSE receives

\* Slip: another dial's proof is taken for a transfer nobody asked for.
Discard(w) == UNCHANGED verdict

\* What verify_path does with another connection's proof: it leaves it for
\* its owner.
FileOther(w) == note_verified(w)

\* verify_path files one completion of its batch with whoever it belongs to.
VerifyFile(c) ==
    LET w == Head(hand[c]) IN
    /\ phase[c] = "proving" /\ hand[c] # <<>>
    /\ Finished(c)
    /\ \/ /\ w.kind = "verify" /\ w.qp = First(c)
          /\ seen' = [seen EXCEPT ![c] = w.st]
          /\ UNCHANGED <<verdict, receives, stashed>>
       \/ /\ w.kind = "verify" /\ w.qp # First(c)
          /\ FileOther(w)
          /\ UNCHANGED <<seen, receives, stashed>>
       \/ /\ w.kind = "recv"
          /\ absorb_receive(w)
          /\ UNCHANGED <<seen, verdict, stashed>>
       \/ /\ w.kind = "op"
          /\ stashed' = Append(stashed, w)
          /\ UNCHANGED <<seen, verdict, receives>>
    /\ UNCHANGED <<phase, failed, owner, rotation, entered, dataVars, cq,
                   polling, sendq, broken, greeted, written, acked, short>>

\* poll takes what was set aside first (a poll that finds nothing anywhere is
\* left out) ...
PollStash ==
    LET n == IF Len(stashed) < CqBatch THEN Len(stashed) ELSE CqBatch IN
    /\ polling = "idle" /\ stashed \o cq # <<>>
    /\ hand' = [hand EXCEPT !["poll"] = SubSeq(stashed, 1, n)]
    /\ stashed' = SubSeq(stashed, n + 1, Len(stashed))
    /\ polling' = "drawing"
    /\ UNCHANGED <<connVars, dataVars, cq, verdict, nicVars>>

\* ... and then, in another critical section, what the queue has; a failed
\* read adds nothing and keeps what was taken.
PollDraw ==
    LET room == CqBatch - Len(hand["poll"]) IN
    /\ polling = "drawing"
    /\ \/ /\ hand' = [hand EXCEPT !["poll"] = @ \o Drawn(room)]
          /\ cq' = Left(room)
       \/ UNCHANGED <<hand, cq>>
    /\ polling' = IF hand'["poll"] = <<>> THEN "idle" ELSE "handling"
    /\ UNCHANGED <<connVars, dataVars, stashed, verdict, nicVars>>

\* The status and may_have_modified_target of status_from_wc.
Event(o, st) == <<st, st = "Err">>

\* A completion retires everything up to its own request.
Covers(u, seq) == u.seq <= seq

Bytes(us) == FoldLeft(LAMBDA sum, u : sum + OpSize[u.op], 0, us)

\* release_locked never goes below zero.
Released(b) == IF b < budget THEN budget - b ELSE 0

\* A completion of a transfer: what it retires is reported with its status
\* and leaves the congestion window.
Retire(w) ==
    LET q == pairs[w.qp]
        done == SelectSeq(q.unsignalled, LAMBDA u : Covers(u, w.seq))
    IN  /\ pairs' = [pairs EXCEPT ![w.qp].unsignalled = SelectSeq(@, LAMBDA u : ~Covers(u, w.seq)),
                                  ![w.qp].reclaimed = w.seq + 1]
        /\ events' = [o \in Ops |-> IF \E i \in DOMAIN done : done[i].op = o
                                    THEN Append(events[o], Event(o, w.st)) ELSE events[o]]
        /\ budget' = Released(Bytes(done))
        /\ failed' = IF w.st = "Ok" THEN failed ELSE failed \cup {owner[w.qp]}

\* poll handles one completion of its batch.
PollHandle ==
    LET w == Head(hand["poll"]) IN
    /\ polling = "handling"
    /\ Finished("poll")
    /\ polling' = IF Len(hand["poll"]) = 1 THEN "idle" ELSE "handling"
    /\ \/ /\ w.kind = "verify"
          /\ note_verified(w)
          /\ UNCHANGED <<receives, pairs, events, budget, failed>>
       \/ /\ w.kind = "recv"
          /\ absorb_receive(w)
          /\ UNCHANGED <<verdict, pairs, events, budget, failed>>
       \/ /\ w.kind = "op" /\ owner[w.qp] = Nil
          /\ UNCHANGED <<verdict, receives, pairs, events, budget, failed>>
       \/ /\ w.kind = "op" /\ owner[w.qp] # Nil
          /\ Retire(w)
          /\ UNCHANGED <<verdict, receives>>
    /\ UNCHANGED <<phase, owner, rotation, entered, seen, nextOp, cq, stashed,
                   sendq, broken, greeted, written, acked, short>>

-----------------------------------------------------------------------------
(* Submitting: RdmaProvider::submit.                                       *)

Used(q) == q.posted - q.reclaimed
Room(q) == IF Used(q) >= SqDepth THEN 0 ELSE SqDepth - Used(q)

\* The checks made before the lock: not failed, and some room.
SubmitEnter(c) ==
    /\ phase[c] = "up" /\ c \notin entered /\ nextOp <= MaxOps
    /\ c \notin failed
    /\ \E n \in Pairs(c) : Room(pairs[n]) > 0
    /\ entered' = entered \cup {c}
    /\ UNCHANGED <<phase, failed, owner, rotation, seen, dataVars, queueVars, nicVars>>

\* pick_queue_pair_locked: the most room, the first from the rotation on.
Pick(c, rot) ==
    LET k == Len(QpOf[c])
        at(i) == QpOf[c][((rot + i) % k) + 1]
        best(i) == /\ Room(pairs[at(i)]) > 0
                   /\ \A j \in 0..(k-1) : Room(pairs[at(j)]) <= Room(pairs[at(i)])
                   /\ \A j \in 0..(i-1) : Room(pairs[at(j)]) < Room(pairs[at(i)])
    IN  IF \E i \in 0..(k-1) : best(i) THEN at(CHOOSE i \in 0..(k-1) : best(i)) ELSE Nil

\* FixedWindowController::allow: within the window, or alone and larger.
Allowed(b, inflight) == inflight + b <= Window \/ (b > Window /\ inflight = 0)

QueueFull(used) == used >= SqDepth
Signal(since, used) == since + 1 >= SignalPeriod \/ used + 1 >= SqDepth - (SqDepth \div 4)

\* Planning: operations take a queue pair and budget one after the other,
\* until one of them does not fit.
PlanOne(c, p, o) ==
    LET n == Pick(c, p.rot)
        used == p.next[n] - pairs[n].reclaimed
        signal == Signal(p.since[n], used)
        turned == [p EXCEPT !.rot = (@ + 1) % Len(QpOf[c])]
    IN  IF p.stop THEN p
        ELSE IF n = Nil \/ QueueFull(used) \/ ~Allowed(OpSize[o], p.budget)
        THEN [turned EXCEPT !.stop = TRUE]
        ELSE [turned EXCEPT !.budget = @ + OpSize[o],
                            !.next[n] = @ + 1,
                            !.since[n] = IF signal THEN 0 ELSE @ + 1,
                            !.ops = Append(@, [op |-> o, qp |-> n, signal |-> signal])]

\* A batch is the next k operations, or as many as there are.
Unsent == MaxOps - nextOp + 1
Plan(c, k) ==
    FoldLeft(LAMBDA p, o : PlanOne(c, p, o),
             [rot |-> rotation[c], budget |-> budget, stop |-> FALSE, ops |-> <<>>,
              next |-> [n \in QpNums |-> pairs[n].posted],
              since |-> [n \in QpNums |-> pairs[n].since]],
             [i \in 1..(IF k < Unsent THEN k ELSE Unsent) |-> nextOp + i - 1])

\* Slip: only the last operation of the batch is.
IsLastOfBatch(ops, i) == i = Len(ops)
\* The last operation planned on each queue pair is signalled.
IsLastOnPair(ops, i) == \A j \in (i+1)..Len(ops) : ops[j].qp # ops[i].qp
Anchored(ops) ==
    [i \in DOMAIN ops |-> [ops[i] EXCEPT !.signal = @ \/ IsLastOnPair(ops, i)]]

\* One ibv_post_send and the accounting after it.
PostOne(s, p) ==
    LET seq == s.pairs[p.qp].posted IN
    [s EXCEPT !.pairs[p.qp].posted = seq + 1,
              !.pairs[p.qp].unsignalled = Append(@, [seq |-> seq, op |-> p.op]),
              !.pairs[p.qp].since = IF p.signal THEN 0 ELSE @ + 1,
              !.sendq[p.qp] = Append(@, [kind |-> "op", op |-> p.op, seq |-> seq,
                                         signal |-> p.signal])]

\* Slip: it keeps it.
KeptWhole(plan, ops, posted) == plan.budget
\* What was planned and not posted gives its budget back.
Kept(plan, ops, posted) ==
    plan.budget - Bytes(SubSeq(ops, posted + 1, Len(ops)))

\* Under the connection's lock: k operations are planned and the first
\* `posted` of them posted.  An operation whose key is unknown ends the batch
\* before it, as a shorter batch would.
SubmitPost(c, k) ==
    LET plan == Plan(c, k)
        ops == Anchored(plan.ops)
    IN  /\ c \in entered /\ phase[c] = "up"
        /\ \E posted \in 0..Len(ops) :
             /\ posted = Len(ops) \/ (PostFails /\ short = {})
             /\ LET s == FoldLeft(PostOne, [pairs |-> pairs, sendq |-> sendq],
                                  SubSeq(ops, 1, posted))
                IN  pairs' = s.pairs /\ sendq' = s.sendq
             /\ nextOp' = nextOp + posted
             /\ budget' = Kept(plan, ops, posted)
        /\ rotation' = [rotation EXCEPT ![c] = plan.rot]
        /\ entered' = entered \ {c}
        /\ short' = IF nextOp' < nextOp + Len(ops) THEN short \cup {c} ELSE short
        /\ UNCHANGED <<phase, failed, owner, seen, events, queueVars, broken,
                       receives, greeted, written, acked>>

-----------------------------------------------------------------------------
(* Ending a connection.                                                    *)

\* disconnect: no more submissions from here ...
DisconnectMark(c) ==
    /\ phase[c] = "up" /\ c \notin failed
    /\ failed' = failed \cup {c}
    /\ UNCHANGED <<phase, owner, rotation, entered, seen, dataVars, queueVars, nicVars>>

\* ... and under the lock every queue pair goes to the error state.
DisconnectStop(c) ==
    /\ phase[c] = "up" /\ c \in failed /\ ~ (Pairs(c) \subseteq broken)
    /\ broken' = broken \cup Pairs(c)
    /\ UNCHANGED <<connVars, dataVars, queueVars, sendq, receives, greeted, written, acked, short>>

\* The last holder lets go of a stopped connection while nobody polls.
Drop(c) ==
    /\ phase[c] = "up" /\ Pairs(c) \subseteq broken /\ c \notin entered
    /\ polling = "idle"
    /\ Destroy(c, "gone")
    /\ UNCHANGED <<verdict, seen>>

-----------------------------------------------------------------------------
(* The adapter (external).                                                 *)

\* The next request of a queue pair that works: carried out, and completed
\* only if it was to be signalled.
NicDone(n) ==
    LET wr == Head(sendq[n]) IN
    /\ sendq[n] # <<>> /\ n \notin broken
    /\ sendq' = [sendq EXCEPT ![n] = Tail(@)]
    /\ cq' = IF wr.signal THEN Append(cq, Wc(wr, n, "Ok")) ELSE cq
    /\ written' = IF wr.kind = "op" THEN written \cup {wr.op} ELSE written
    /\ acked' = IF wr.kind = "verify" THEN acked \cup {owner[n]} ELSE acked
    /\ UNCHANGED <<connVars, dataVars, stashed, verdict, hand, polling, broken,
                   receives, greeted, short>>

\* It fails, and the queue pair with it.  When retries run out, the far end
\* may have carried the request out and its acknowledgement be lost.
NicFails(n) ==
    LET wr == Head(sendq[n]) IN
    /\ n \in Faulty /\ sendq[n] # <<>> /\ n \notin broken
    /\ sendq' = [sendq EXCEPT ![n] = Tail(@)]
    /\ broken' = broken \cup {n}
    /\ \E st \in Failures :
         /\ cq' = Append(cq, Wc(wr, n, st))
         /\ written' \in {written} \cup IF st = "Lost" THEN {written \cup ({wr.op} \ {0})} ELSE {}
    /\ UNCHANGED <<connVars, dataVars, stashed, verdict, hand, polling, receives,
                   greeted, acked, short>>

\* A queue pair in error completes whatever it still holds.
NicFlushes(n) ==
    /\ sendq[n] # <<>> /\ n \in broken
    /\ sendq' = [sendq EXCEPT ![n] = Tail(@)]
    /\ cq' = Append(cq, Wc(Head(sendq[n]), n, "Flush"))
    /\ UNCHANGED <<connVars, dataVars, stashed, verdict, hand, polling, broken,
                   receives, greeted, written, acked, short>>

\* The peer's own proof lands in a receive.
PeerGreets(c) ==
    /\ phase[c] \in {"proving", "up"} /\ c \notin greeted
    /\ receives[First(c)] > 0 /\ First(c) \notin broken
    /\ greeted' = greeted \cup {c}
    /\ receives' = [receives EXCEPT ![First(c)] = @ - 1]
    /\ cq' = Append(cq, [kind |-> "recv", qp |-> First(c), seq |-> 0, st |-> "Ok"])
    /\ UNCHANGED <<connVars, dataVars, stashed, verdict, hand, polling, sendq,
                   broken, written, acked, short>>

-----------------------------------------------------------------------------
Dial(c) == \/ Create(c) \/ ExchangeFails(c) \/ ExchangeDone(c)
           \/ VerifyTake(c) \/ VerifyReturn(c) \/ VerifyGiveUp(c)
           \/ VerifyDraw(c) \/ VerifyFile(c)
Use(c) == \/ SubmitEnter(c)
          \/ \E k \in Batches : SubmitPost(c, k)
          \/ DisconnectMark(c) \/ DisconnectStop(c) \/ Drop(c)
Poll == PollStash \/ PollDraw \/ PollHandle
Nic(n) == NicDone(n) \/ NicFails(n) \/ NicFlushes(n)

Next ==
    \/ \E c \in Conns : Dial(c)
    \/ \E c \in Users : Use(c) \/ PeerGreets(c)
    \/ Poll
    \/ \E n \in QpNums : Nic(n)

Spec == Init /\ [][Next]_vars

-----------------------------------------------------------------------------
(* Properties.                                                             *)

Wcs == {"verify", "recv", "op"}
Drawable == ToSet(cq) \cup ToSet(stashed) \cup UNION {ToSet(hand[r]) : r \in Readers}
Posted == 1..(nextOp - 1)
Unreported == {o \in Posted : events[o] = <<>>}

\* Every variable holds what the code's type for it can hold.
TypeOK ==
    /\ phase \in [Conns -> {"none", "exchanging", "proving", "up", "refused", "gone"}]
    /\ failed \subseteq Conns /\ entered \subseteq Conns
    /\ owner \in [QpNums -> Conns \cup {Nil}]
    /\ \A n \in QpNums : pairs[n].posted \in 0..MaxOps /\ pairs[n].reclaimed \in 0..MaxOps
    /\ \A w \in Drawable : w.kind \in Wcs /\ w.qp \in QpNums /\ w.st \in WcStatus
    /\ verdict \in [QpNums -> WcStatus \cup {Nil}]
    /\ seen \in [Conns -> WcStatus \cup {Nil}]
    /\ nextOp \in 1..(MaxOps + 1) /\ budget \in Nat
    /\ polling \in {"idle", "drawing", "handling"}
    /\ \A n \in QpNums : receives[n] \in 0..RqDepth

\* An operation is reported once, not while the adapter holds it, and as a
\* success only if the adapter carried it out: a signalled completion retires
\* the unsignalled requests before it and no other (poll).
ReportedWhenDone ==
    \A o \in Ops : events[o] # <<>> =>
        /\ Len(events[o]) = 1
        /\ \A n \in QpNums : \A i \in DOMAIN sendq[n] : sendq[n][i].op # o
        /\ events[o][1][1] = "Ok" => o \in written

\* The congestion window holds exactly the bytes that were posted and not yet
\* reported, also after a batch that was cut short (submit, poll).
BudgetIsOutstanding ==
    budget = FoldSet(LAMBDA o, sum : sum + OpSize[o], 0, Unreported)

\* Whatever a queue pair that works still owes will be retired: a signalled
\* request at or after it is with the adapter, or its completion is in the
\* queue, the stash or a reader's hands.
AnchoredOn(n) ==
    LET us == pairs[n].unsignalled IN
    us # <<>> =>
        \/ \E i \in DOMAIN sendq[n] : sendq[n][i].signal /\ sendq[n][i].seq >= Last(us).seq
        \/ \E w \in Drawable : w.kind = "op" /\ w.qp = n /\ w.seq >= Last(us).seq

\* So it is unless ibv_post_send refused part of a batch.
NothingIsStranded ==
    \A c \in Conns : (phase[c] = "up" /\ c \notin short) =>
        \A n \in Pairs(c) : AnchoredOn(n)

\* Every operation is reported when the adapter is done with it, and not
\* before: what is reported was done, and what is not yet reported has a
\* completion coming (poll, and the signalling rule of submit).
CompletionsAreExact == TypeOK /\ ReportedWhenDone /\ NothingIsStranded

\* submit says: "Every queue pair this batch touched ends with a signalled
\* operation."
EveryBatchIsAnchored ==
    \A c \in Conns : phase[c] = "up" => \A n \in Pairs(c) : AnchoredOn(n)

\* A receive that was used is posted again, whoever drew its completion: the
\* dial in progress or poll.
ReceivesStayArmed ==
    \A c \in Conns : (phase[c] \in {"proving", "up"}) =>
        RqDepth = receives[First(c)]
                  + Cardinality({w \in Drawable : w.kind = "recv" /\ w.qp = First(c)})

\* A connection is handed out only if the far end has acknowledged what it
\* sent (verify_path).
ProvedBeforeUse == \A c \in Conns : phase[c] = "up" => c \in acked

\* An acknowledged proof reaches the dial that waits for it, whoever draws its
\* completion from the shared queue.
ProofIsNotLost ==
    \A c \in Conns : (phase[c] = "proving" /\ c \in acked) =>
        \/ \E w \in Drawable : w.kind = "verify" /\ w.qp = First(c)
        \/ seen[c] = "Ok"
        \/ verdict[First(c)] = "Ok"

\* A dial succeeds if and only if its own proof came through, whichever thread
\* drew the completion of it (verify_path, note_verified).
ProofsReachTheirDial == ProvedBeforeUse /\ ProofIsNotLost
=============================================================================
