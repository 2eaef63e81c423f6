----------------------------- MODULE Congestion -----------------------------
(***************************************************************************)
(* The congestion controllers (src/transport/cc/controller.cpp): none, a   *)
(* fixed window, and TIMELY, which paces by a rate and bounds the bytes in *)
(* flight by the window that goes with it.  One direction; the two are     *)
(* independent.  Time is counted in ticks from now: `wait' is next_send    *)
(* less the clock, `since' the time since the rate last moved.  What the   *)
(* filtered delay gradient is, and by how much the rate comes down, is     *)
(* left open.                                                              *)
(***************************************************************************)
EXTENDS Integers, Sequences, FiniteSets, FiniteSetsExt

CONSTANTS
    Sizes,      \* the bytes of each operation, in the order they are sent
    Window,     \* the fixed window
    Floor,      \* the smallest window TIMELY computes
    MinRate, MaxRate, StartRate, Increase,   \* bytes a tick
    TLow, THigh,   \* delay thresholds
    Delays,     \* the delays measured, in ticks
    NoDelay,    \* the delay assumed before there is a sample
    MaxRounds   \* the most round trips credited at once

VARIABLES
    kind,       \* the controller: "off", "fixed" or "timely"
    sent,       \* operations posted so far
    outstanding, \* operations posted and not completed
    used,       \* inflight
    rate,       \* rate_Bps
    minDelay,   \* min_delay, or 0
    sampled,    \* have_prev
    since,      \* now - last_update
    wait        \* next_send - now

vars == <<kind, sent, outstanding, used, rate, minDelay, sampled, since, wait>>
timely == <<rate, minDelay, sampled, since>>

\* The delay a round trip is taken to last, if m is the smallest seen.
Base(m) == IF m = 0 THEN NoDelay ELSE m
Larger(m, n) == IF m > n THEN m ELSE n
Smaller(m, n) == IF m < n THEN m ELSE n

window_locked ==
    CASE kind = "off" -> 0
      [] kind = "fixed" -> Window
      [] kind = "timely" -> Larger(Floor, rate * Base(minDelay))

Init ==
    /\ kind \in {"off", "fixed", "timely"}
    /\ sent = 0 /\ outstanding = {} /\ used = 0
    /\ rate = StartRate /\ minDelay = 0 /\ sampled = FALSE
    /\ since = 0 /\ wait = 0

\* Slip: what does not fit waits, whatever its size.
FitsOnly(b) == used + b <= window_locked
\* It fits, or is larger than the whole window and goes out alone.
Fits(b) == used + b <= window_locked \/ (b > window_locked /\ used = 0)

allow(b) == kind = "off" \/ (wait = 0 /\ Fits(b))

\* allow, and then on_post.
Post ==
    /\ sent < Len(Sizes)
    /\ LET size == Sizes[sent + 1]
       IN  /\ allow(size)
           /\ used' = used + size
           /\ wait' = IF kind = "timely" THEN wait + (size \div rate) ELSE 0
    /\ sent' = sent + 1
    /\ outstanding' = outstanding \cup {sent + 1}
    /\ UNCHANGED <<kind, timely>>

\* release_locked.
Release(i) ==
    /\ i \in outstanding
    /\ outstanding' = outstanding \ {i}
    /\ used' = used - Smaller(Sizes[i], used)

\* The smallest delay, once a new one has been measured.
Shortest(rtt) == IF minDelay = 0 THEN rtt ELSE Smaller(minDelay, rtt)

\* rounds_since_locked, times the increase: rounds of the shortest delay, this
\* one included.
Growth(rtt) == Smaller(MaxRounds * Increase, (Increase * since) \div Base(Shortest(rtt)))
Grown(rtt) == {Smaller(MaxRate, Larger(MinRate, rate + Growth(rtt)))}
Shrunk == {Larger(MinRate, r) : r \in 0..rate}

\* update_rate_locked: below the low threshold the rate grows and above the
\* high one it comes down; between them the gradient decides.  The first
\* sample only sets the stage.
Moved(rtt) ==
    IF ~sampled THEN {rate}
    ELSE IF rtt < TLow THEN Grown(rtt)
    ELSE IF rtt > THigh THEN Shrunk
    ELSE Grown(rtt) \cup Shrunk

on_feedback(i, rtt) ==
    /\ Release(i)
    /\ IF kind = "timely"
       THEN /\ minDelay' = Shortest(rtt)
            /\ rate' \in Moved(rtt)
            /\ sampled' = TRUE /\ since' = 0
       ELSE UNCHANGED timely
    /\ UNCHANGED <<kind, sent, wait>>

\* on_error: the budget is returned and the rate left alone.
on_error(i) ==
    /\ i \in outstanding
    /\ Release(i)
    /\ UNCHANGED <<kind, sent, timely, wait>>

MaxSince == MaxRounds * Max(Delays \cup {NoDelay})

Tick ==
    /\ kind = "timely" /\ (wait > 0 \/ (sampled /\ since < MaxSince))
    /\ wait' = Larger(0, wait - 1)
    /\ since' = IF sampled THEN Smaller(MaxSince, since + 1) ELSE 0
    /\ UNCHANGED <<kind, sent, outstanding, used, rate, minDelay, sampled>>

Complete == \E i \in outstanding : on_error(i) \/ \E rtt \in Delays : on_feedback(i, rtt)

Next == Post \/ Complete \/ Tick

\* The clock runs, operations complete, and the submitter asks again.
Fairness == WF_vars(Tick) /\ WF_vars(Complete) /\ WF_vars(Post)

-----------------------------------------------------------------------------
(* Properties.                                                             *)

LargestWindow == Larger(Window, Larger(Floor, MaxRate * Max(Delays \cup {NoDelay})))

\* Under a controller the bytes in flight are never more than the largest
\* window it can compute, but for one operation on its own.
InFlightIsBounded ==
    kind # "off" /\ Cardinality(outstanding) > 1 =>
        used <= IF kind = "fixed" THEN Window ELSE LargestWindow

\* Every operation goes out in the end, also one larger than the window and
\* whatever the rate has come down to.
EverythingIsSent == <>(sent = Len(Sizes))
=============================================================================
