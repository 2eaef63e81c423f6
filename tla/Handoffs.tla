------------------------------ MODULE Handoffs ------------------------------
(***************************************************************************)
(* How the owner of memory learns that a peer has written it: the ready    *)
(* handoffs of a writing engine and the ready events of the engine written *)
(* to (engine_impl.cpp).  Data and handoffs go different ways: operations  *)
(* land in any order, handoffs arrive in the order they were sent.         *)
(***************************************************************************)
EXTENDS Integers, Sequences, SequencesExt, FiniteSets

CONSTANTS
    Writes,      \* the writes, in order: each a sequence of [region, offset, length]
    Held,        \* the regions of the target: region -> length
    Pieces,      \* the operations that carry a range
    Depths,      \* ready_queue_depth
    Capacity     \* what the control channel holds before it refuses

VARIABLES
    depth,       \* the ready_queue_depth of this run
    flying,      \* write -> its operations in flight: <<range, piece>>
    ended,       \* write -> "no", "succeeded" or "failed"
    landed,      \* what is in the target's memory: <<write, range, piece>>
    channel,     \* handoffs on their way
    holding,     \* the regions the target still holds
    ready, taken, \* ready_events_, and what its consumer has had of it
    stats        \* sent, failed, received, dropped

vars == <<depth, flying, ended, landed, channel, holding, ready, taken, stats>>

Writing == DOMAIN Writes
Operations(w) == (DOMAIN Writes[w]) \X Pieces

-----------------------------------------------------------------------------
(* The writing engine.                                                     *)

\* Slip: the first operation that is done ends the write.
IsFirst(w, rest) == rest # Operations(w)
IsLast(w, rest) == rest = {}

\* What the peer is told of a write: each range, in order.
Told(w) == [t \in DOMAIN Writes[w] |-> [write |-> w, target |-> Writes[w][t], at |-> t]]

\* The handoffs of a write that the channel takes: it may refuse any, and the
\* ones after it may find room again.
SendHandoffs(w) ==
    \E taking \in SUBSET DOMAIN Writes[w] :
      LET kept == SelectSeq(Told(w), LAMBDA m : m.at \in taking)
      IN  /\ Len(channel) + Len(kept) <= Capacity
          /\ channel' = channel \o kept
          /\ stats' = [stats EXCEPT !.sent = @ + Len(kept), !.failed = @ + Len(Writes[w]) - Len(kept)]

\* An operation is done, or fails with its bytes written or not; the last one
\* of the write ends it, and the peer is told if it succeeded.
Complete(w, op, ok) ==
    \E rest \in {flying[w] \ {op}} :
      /\ op \in flying[w]
      /\ flying' = [flying EXCEPT ![w] = rest]
      /\ landed' \in IF ok THEN {landed \cup {<<w, op>>}} ELSE {landed, landed \cup {<<w, op>>}}
      /\ IF IsLast(w, rest) /\ ended[w] = "no" /\ ok
         THEN SendHandoffs(w) /\ ended' = [ended EXCEPT ![w] = "succeeded"]
         ELSE /\ ended' = [ended EXCEPT ![w] = IF ok THEN @ ELSE "failed"]
              /\ UNCHANGED <<channel, stats>>
      /\ UNCHANGED <<depth, holding, ready, taken>>

-----------------------------------------------------------------------------
(* The engine written to.                                                  *)

\* A range of a region that is held can be handed to a consumer; of another,
\* only what the peer said of it is known.
Place(t) ==
    IF t.region \in holding /\ t.offset <= Held[t.region] /\ t.length <= Held[t.region] - t.offset
    THEN <<t.region, t.offset>> ELSE <<>>

ReadyEvent(m) == [write |-> m.write, at |-> m.at, addr |-> Place(m.target)]

\* Slip: a full queue loses its oldest event.
KeepNewest(e, s) ==
    IF Len(ready) >= depth
    THEN ready' = Tail(Append(ready, e)) /\ stats' = [s EXCEPT !.dropped = @ + 1]
    ELSE ready' = Append(ready, e) /\ stats' = s
\* A full queue refuses the newest, and counts it.
keep_ready_locked(e, s) ==
    IF Len(ready) >= depth
    THEN UNCHANGED ready /\ stats' = [s EXCEPT !.dropped = @ + 1]
    ELSE ready' = Append(ready, e) /\ stats' = s

\* progress takes a handoff from the channel.
ReadyHandoff ==
    /\ channel # <<>>
    /\ keep_ready_locked(ReadyEvent(Head(channel)), [stats EXCEPT !.received = @ + 1])
    /\ channel' = Tail(channel)
    /\ UNCHANGED <<depth, flying, ended, landed, holding, taken>>

poll_ready_events(max_items) ==
    /\ ready # <<>>
    /\ \E n \in {IF Len(ready) < max_items THEN Len(ready) ELSE max_items} :
         /\ taken' = taken \o SubSeq(ready, 1, n)
         /\ ready' = SubSeq(ready, n + 1, Len(ready))
    /\ UNCHANGED <<depth, flying, ended, landed, channel, holding, stats>>

\* The target takes a region back.
deregister_region(r) ==
    /\ r \in holding
    /\ holding' = holding \ {r}
    /\ UNCHANGED <<depth, flying, ended, landed, channel, ready, taken, stats>>

Init ==
    /\ depth \in Depths
    /\ flying = [w \in Writing |-> Operations(w)]
    /\ ended = [w \in Writing |-> "no"]
    /\ landed = {} /\ channel = <<>> /\ holding = DOMAIN Held
    /\ ready = <<>> /\ taken = <<>>
    /\ stats = [sent |-> 0, failed |-> 0, received |-> 0, dropped |-> 0]

Next ==
    \/ \E w \in Writing, ok \in BOOLEAN : \E op \in Operations(w) : Complete(w, op, ok)
    \/ ReadyHandoff
    \/ \E n \in 1..2 : poll_ready_events(n)
    \/ \E r \in DOMAIN Held : deregister_region(r)

-----------------------------------------------------------------------------
(* Properties.                                                             *)

Events == Range(ready) \cup Range(taken)

\* A consumer that has a ready event finds all of the range it names in
\* place, although the handoff travelled apart from the data: it is sent
\* after the last operation of a write that succeeded.
ReadyMeansLanded ==
    \A e \in Events : \A p \in Pieces : <<e.write, <<e.at, p>>>> \in landed

\* No signal goes missing uncounted: the ranges of the writes that succeeded
\* were sent or refused by the channel, and what was sent is on its way, in
\* the queue, with the consumer, or counted as dropped.
HandoffsAreAccounted ==
    LET Succeeded == {w \in Writing : ended[w] = "succeeded"}
    IN  /\ stats.sent + stats.failed = Cardinality(UNION {{w} \X DOMAIN Writes[w] : w \in Succeeded})
        /\ stats.sent = Len(channel) + stats.received
        /\ stats.received = Len(ready) + Len(taken) + stats.dropped
        /\ Len(ready) <= depth

\* "refusing new ones leaves everything before the gap intact": what the
\* consumer will be given only ever grows at its end.
BeforeTheGap ==
    [][IsPrefix(taken \o ready, taken' \o ready')]_vars

\* A signal is lost only where it is counted, and only at the end: what a full
\* queue or a full channel refuses leaves everything before it in place
\* (send_ready_handoff, keep_ready_locked, poll_ready).
NoSilentLoss == []HandoffsAreAccounted /\ BeforeTheGap
=============================================================================
