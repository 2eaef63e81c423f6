--------------------------- MODULE ControlOutbox ---------------------------
(***************************************************************************)
(* The sending half of a control channel that never waits on its socket    *)
(* (src/transport/control_outbox.cpp).  Each operation holds mu_ from its   *)
(* start to its end, so each is one action.  A message is a member of      *)
(* Messages with a size in bytes; byte i of m is <<m, i>>.  What the socket *)
(* takes of what it is offered is its own choice: any number of bytes, then *)
(* more, then EAGAIN or an error.                                          *)
(***************************************************************************)
EXTENDS Integers, Sequences, SequencesExt, FiniteSetsExt, Functions

CONSTANTS
    Messages,   \* the messages callers may post, each at most once
    Size,       \* bytes of each
    Limit,      \* limit_
    MaxResets   \* bound on how often the channel is given a socket or closed

ASSUME SizeAssumption == Size \in [Messages -> Nat \ {0}]
ASSUME LimitAssumption == Limit \in Nat /\ MaxResets \in Nat

VARIABLES
    open,       \* fd_ >= 0
    q,          \* q_
    frontOff,   \* front_off_
    bytes,      \* bytes_
    broken,     \* broken_
    unposted,   \* messages nobody has posted yet
    taken,      \* messages post() answered kOk for, on this socket, in order
    sent,       \* every byte this socket took, in order
    resets      \* how often reset() was called

vars == <<open, q, frontOff, bytes, broken, unposted, taken, sent, resets>>

Frame(m)   == [i \in 1 .. Size[m] |-> <<m, i>>]
Frames(s)  == FlattenSeq([i \in 1 .. Len(s) |-> Frame(s[i])])
Total(s)   == SumFunction([i \in 1 .. Len(s) |-> Size[s[i]]])
First(s, k) == SubSeq(s, 1, k)
After(s, k) == SubSeq(s, k + 1, Len(s))

\* The bytes the queue still owes the socket.
Owed == After(Frames(q), frontOff)

TypeOK ==
    /\ open \in BOOLEAN /\ broken \in BOOLEAN
    /\ q \in Seq(Messages) /\ taken \in Seq(Messages)
    /\ frontOff \in Nat /\ bytes \in Nat
    /\ q = <<>> => frontOff = 0
    /\ q # <<>> => frontOff < Size[Head(q)]
    /\ unposted \subseteq Messages
    /\ resets \in 0 .. MaxResets

Init ==
    /\ open = FALSE
    /\ q = <<>> /\ frontOff = 0 /\ bytes = 0
    /\ broken = FALSE
    /\ unposted = Messages
    /\ taken = <<>> /\ sent = <<>>
    /\ resets = 0

\* reset(fd): a new socket, or none.  What was queued for the old one goes.
Reset(fd) ==
    /\ resets < MaxResets
    /\ resets' = resets + 1
    /\ open' = fd
    /\ q' = <<>> /\ frontOff' = 0 /\ bytes' = 0
    /\ broken' = FALSE
    /\ taken' = <<>> /\ sent' = <<>>
    /\ UNCHANGED unposted

\* How many messages at the front of the queue are out once the socket has
\* taken k bytes more.
Gone(k) == Max({i \in 0 .. Len(q) : Total(First(q, i)) <= frontOff + k})

\* The queue, and the offset into its front, once it has.
Drained(k) == [q   |-> After(q, Gone(k)),
               off |-> frontOff + k - Total(First(q, Gone(k)))]

\* flush_locked: k bytes of the queue go out; whatever is left then met a full
\* socket, or an error that ends the channel.
flush_locked(k) ==
    /\ \E left \in {Drained(k)} : q' = left.q /\ frontOff' = left.off
    /\ bytes' = bytes - k
    /\ sent' = sent \o First(Owed, k)

\* Slip: a message already partly out is not gone on with.
FreshOnly == open /\ ~broken /\ frontOff = 0

Writable == open /\ ~broken

\* flush(): what the socket will take.
Flush ==
    /\ Writable
    /\ \E k \in 0 .. Len(Owed) :
          /\ flush_locked(k)
          /\ broken' \in IF k = Len(Owed) THEN {FALSE} ELSE BOOLEAN
    /\ UNCHANGED <<open, unposted, taken, resets>>

\* post() of a message the queue is not behind: straight out, and what the
\* socket would not take of it is queued, owed whatever the bound says.

\* Slip: the message is queued from its beginning.
DirectFromStart(m, k, j) ==
    /\ sent' = sent \o First(Owed, k) \o First(Frame(m), j)
    /\ q' = IF j = Size[m] THEN <<>> ELSE <<m>>
    /\ frontOff' = 0
    /\ bytes' = IF j = Size[m] THEN bytes - k ELSE bytes - k + Size[m]

Direct(m, k, j) ==
    /\ sent' = sent \o First(Owed, k) \o First(Frame(m), j)
    /\ q' = IF j = Size[m] THEN <<>> ELSE <<m>>
    /\ frontOff' = IF j = Size[m] THEN 0 ELSE j
    /\ bytes' = bytes - k + (Size[m] - j)

\* bytes_ + msg.size() > limit_ refuses it.
Fits(m, k) == bytes - k + Size[m] <= Limit

\* post(msg): the queue is drained first.  With nothing left queued the message
\* is written straight out; behind a queue it is queued whole, or refused.
Post(m) ==
    /\ m \in unposted
    /\ unposted' = unposted \ {m}
    /\ UNCHANGED <<open, resets>>
    /\ IF ~open \/ broken
       THEN UNCHANGED <<q, frontOff, bytes, broken, taken, sent>>
       ELSE \E k \in 0 .. Len(Owed) :
              \/ /\ k < Len(Owed) /\ flush_locked(k)
                 /\ broken' = TRUE
                 /\ UNCHANGED taken
              \/ /\ Drained(k).q = <<>>
                 /\ \E j \in 0 .. Size[m] :
                       \/ /\ Direct(m, k, j)
                          /\ taken' = Append(taken, m)
                          /\ UNCHANGED broken
                       \/ /\ j < Size[m]
                          /\ sent' = sent \o First(Owed, k) \o First(Frame(m), j)
                          /\ q' = <<>> /\ frontOff' = 0 /\ bytes' = bytes - k
                          /\ broken' = TRUE
                          /\ UNCHANGED taken
              \/ /\ Drained(k).q # <<>> /\ Fits(m, k)
                 /\ q' = Append(Drained(k).q, m)
                 /\ frontOff' = Drained(k).off
                 /\ bytes' = bytes - k + Size[m]
                 /\ sent' = sent \o First(Owed, k)
                 /\ taken' = Append(taken, m)
                 /\ UNCHANGED broken
              \/ /\ Drained(k).q # <<>> /\ ~Fits(m, k)
                 /\ flush_locked(k)
                 /\ UNCHANGED <<taken, broken>>

Next == \/ \E m \in Messages : Post(m)
        \/ Flush
        \/ \E fd \in BOOLEAN : Reset(fd)

Spec == Init /\ [][Next]_vars

\* progress() flushes again and again, and a peer that reads its socket makes
\* room: now and then a flush writes something.
Fairness == WF_vars(Flush /\ sent' # sent)

-----------------------------------------------------------------------------
(* Properties *)

\* The peer's reader is never put out of step: what the socket has taken and
\* what is still owed are together the accepted messages, whole, in order and
\* once each, and nothing of a message post() did not accept ("a partial write
\* can never leave the peer's reader half way through one message",
\* control_outbox.h).  A channel that broke may stop anywhere in that.
StreamIsWhole ==
    IF broken THEN \E m \in Messages : IsPrefix(sent, Frames(Append(taken, m)))
              ELSE sent \o Owed = Frames(taken)

\* The backlog is bounded: over limit_ there is one message only, the one the
\* peer is already reading or the socket was offered first; and bytes_, which
\* the bound is measured by, is what the queue owes.
BacklogBounded ==
    /\ bytes = Len(Owed)
    /\ bytes > Limit => Len(q) = 1

\* What the outbox holds is well formed, is exactly what the peer is still owed
\* of the accepted messages, and is bounded (post, flush_locked).
OutboxIsExact == TypeOK /\ StreamIsWhole /\ BacklogBounded

\* A message post() accepted goes out, unless the channel ends first: nothing
\* accepted stays in the queue for good.
AcceptedGoesOut ==
    \A m \in Messages :
        (\E i \in 1 .. Len(taken) : taken[i] = m)
            ~> (<<m, Size[m]>> \in {sent[i] : i \in 1 .. Len(sent)}
                \/ broken \/ \A i \in 1 .. Len(taken) : taken[i] # m)
=============================================================================
