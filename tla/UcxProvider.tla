---------------------------- MODULE UcxProvider ----------------------------
(***************************************************************************)
(* The UCX transport (src/transport/ucx/ucx_provider.cpp).  A put that UCX *)
(* has finished with has only freed its source; the provider reports it    *)
(* after a flush of its endpoint.  Everything UCX does for the provider    *)
(* happens under worker_mu_, so submit, poll and deregister_region are one *)
(* step each; UCX's own choices (inline, pending or refused; which request *)
(* object it hands out; what has finished by now) are nondeterministic.    *)
(***************************************************************************)
EXTENDS Integers, Sequences, FiniteSets, SequencesExt

CONSTANTS
    Ops,        \* sub-operations, numbered in the order they are submitted
    KindOf,     \* "put" or "get"
    EpOf,       \* the endpoint of each
    Objects,    \* request objects UCX reuses
    MaxEvents   \* completions one poll hands out at most

VARIABLES
    posted,     \* where an operation is
    object,     \* the request object of a pending operation, 0 for none
    doneFlag,   \* UcxRequest::done, of free and of used objects
    landed,     \* operations whose bytes are where they should be
    queue,      \* completions_
    told,       \* completions poll has handed out
    mapped      \* whether the peer's key has a blob in rkey_blobs_

vars == <<posted, object, doneFlag, landed, queue, told, mapped>>

Used == {object[o] : o \in Ops} \ {0}
Eps == {EpOf[o] : o \in Ops}
Puts(e) == {o \in Ops : KindOf[o] = "put" /\ EpOf[o] = e}
Event(o, s) == [op |-> o, status |-> s]
InOrder(os) == SetToSortSeq(os, <)

\* Puts a flush of the endpoint waits for: the ones UCX has been given.
Given(e) == {o \in Puts(e) : posted[o] \in {"pending", "inline", "queued"}}

Init ==
    /\ posted = [o \in Ops |-> "new"]
    /\ object = [o \in Ops |-> 0]
    /\ doneFlag = [x \in Objects |-> FALSE]
    /\ landed = {} /\ queue = <<>> /\ told = {}
    /\ mapped = TRUE

\* Slip: the object goes back as it is.
ReleaseAsIs(flags, xs) == flags
\* release: an object goes back reset, since UCX does not reset it.
release(flags, xs) == [x \in Objects |-> flags[x] /\ x \notin xs]

\* flush_locked, of the endpoints es with the object x, driven until x says
\* that it is done: then every put given to them has landed.  An object that
\* says so from the start has waited for nothing.
flush_locked(flags, x, es) ==
    /\ landed' = landed \cup IF flags[x] THEN {} ELSE UNION {Given(e) : e \in es}
    /\ doneFlag' = IF es = {} THEN flags ELSE release([flags EXCEPT ![x] = TRUE], {x})

-----------------------------------------------------------------------------
\* Puts of the submit in progress that UCX completed inline.
Inline(e) == {o \in Puts(e) : posted[o] = "inline"}
Locked == \E e \in Eps : Inline(e) # {}

\* submit takes the operations in order, of one endpoint, and stops at one
\* that is refused.
MayFollow(o) ==
    \A p \in Ops :
        /\ p < o => posted[p] # "new"
        /\ posted[p] = "inline" => EpOf[p] = EpOf[o] /\ \A q \in p..o : posted[q] # "refused"

\* An operation whose key has no blob here, or whose key UCX cannot unpack, or
\* that UCX turns down.
SubmitRefused(o) ==
    /\ posted[o] = "new" /\ MayFollow(o)
    /\ posted' = [posted EXCEPT ![o] = "refused"]
    /\ UNCHANGED <<object, doneFlag, landed, queue, told, mapped>>

\* A get that completes inline is reported at once; a put waits for the flush.
SubmitInline(o) ==
    /\ posted[o] = "new" /\ MayFollow(o) /\ mapped
    /\ IF KindOf[o] = "get"
       THEN /\ posted' = [posted EXCEPT ![o] = "queued"]
            /\ landed' = landed \cup {o}
            /\ queue' = Append(queue, Event(o, "Ok"))
       ELSE /\ posted' = [posted EXCEPT ![o] = "inline"]
            /\ UNCHANGED <<landed, queue>>
    /\ UNCHANGED <<object, doneFlag, told, mapped>>

SubmitPending(o) ==
    /\ posted[o] = "new" /\ MayFollow(o) /\ mapped
    /\ \E x \in Objects \ Used : object' = [object EXCEPT ![o] = x]
    /\ posted' = [posted EXCEPT ![o] = "pending"]
    /\ UNCHANGED <<doneFlag, landed, queue, told, mapped>>

\* The end of a submit that had inline puts: one flush for all of them, before
\* the worker's lock is let go of.
SubmitFlush(e) ==
    /\ Inline(e) # {}
    /\ \E ok \in BOOLEAN, x \in Objects \ Used :
         /\ flush_locked(doneFlag, x, IF ok THEN {e} ELSE {})
         /\ queue' = queue \o [i \in DOMAIN InOrder(Inline(e)) |->
                                Event(InOrder(Inline(e))[i], IF ok THEN "Ok" ELSE "Error")]
    /\ posted' = [o \in Ops |-> IF o \in Inline(e) THEN "queued" ELSE posted[o]]
    /\ UNCHANGED <<object, told, mapped>>

\* on_rma_done: UCX is finished with a pending operation.  It failed, or a get
\* has its bytes, or a put has freed its source.
on_rma_done(o) ==
    /\ posted[o] = "pending" /\ ~doneFlag[object[o]]
    /\ doneFlag' = [doneFlag EXCEPT ![object[o]] = TRUE]
    /\ \/ posted' = [posted EXCEPT ![o] = "failed"] /\ UNCHANGED landed
       \/ /\ UNCHANGED posted
          /\ landed' = IF KindOf[o] = "get" THEN landed \cup {o} ELSE landed
    /\ UNCHANGED <<object, queue, told, mapped>>

\* The bytes of a put arrive, at some time after UCX was given it.
Arrive(o) ==
    /\ o \in Given(EpOf[o]) \ landed
    /\ landed' = landed \cup {o}
    /\ UNCHANGED <<posted, object, doneFlag, queue, told, mapped>>

Finished == {o \in Ops : object[o] # 0 /\ doneFlag[object[o]]}

\* The finished puts that poll has to flush for.
Unflushed == {o \in Finished : KindOf[o] = "put" /\ posted[o] = "pending"}

\* What stays in completions_ after a poll.
Rest(events) == SubSeq(events, MaxEvents + 1, Len(events))

\* poll: everything finished is taken off inflight_ and its object released,
\* each endpoint with finished puts is flushed once, a put whose flush failed
\* has failed, and the caller gets the oldest of what there is to report.
poll ==
    /\ ~Locked
    /\ \E bad \in SUBSET {EpOf[o] : o \in Unflushed},
          x \in (Objects \ Used) \cup {object[o] : o \in Finished} :
         LET es == {EpOf[o] : o \in Unflushed} \ bad
             Failed(o) == posted[o] = "failed" \/ (KindOf[o] = "put" /\ EpOf[o] \in bad)
             taken == InOrder(Finished)
             events == queue \o [i \in DOMAIN taken |->
                                   Event(taken[i], IF Failed(taken[i]) THEN "Error" ELSE "Ok")]
         IN  /\ events # <<>>
             /\ flush_locked(release(doneFlag, {object[o] : o \in Finished}), x, es)
             /\ queue' = Rest(events)
             /\ told' = told \cup {events[i] : i \in {j \in DOMAIN events : j <= MaxEvents}}
    /\ object' = [o \in Ops |-> IF o \in Finished THEN 0 ELSE object[o]]
    /\ posted' = [o \in Ops |-> IF o \in Finished THEN "queued" ELSE posted[o]]
    /\ UNCHANGED mapped

deregister_region ==
    /\ ~Locked /\ mapped
    /\ mapped' = FALSE
    /\ UNCHANGED <<posted, object, doneFlag, landed, queue, told>>

Next ==
    \/ \E o \in Ops : \/ SubmitRefused(o) \/ SubmitInline(o) \/ SubmitPending(o)
                      \/ on_rma_done(o) \/ Arrive(o)
    \/ \E e \in Eps : SubmitFlush(e)
    \/ poll \/ deregister_region

-----------------------------------------------------------------------------
(* Properties.                                                             *)

\* An operation the caller is told went well has all its bytes in place: a
\* put at the peer, a get here.  release and the flushes are what it takes.
OkMeansLanded == \A ev \in told : ev.status = "Ok" => ev.op \in landed

\* An operation UCX was given is reported once, or is still on its way to be:
\* nothing is lost between inflight_, completions_ and the caller.
NothingIsForgotten ==
    \A o \in Ops :
        /\ posted[o] \in {"pending", "failed"} => object[o] # 0
        /\ posted[o] = "queued" =>
             Cardinality({i \in DOMAIN queue : queue[i].op = o})
               + Cardinality({ev \in told : ev.op = o}) = 1

\* Every operation is reported once, and a success only when its bytes are in
\* place: the completion objects, which are used again and again, never speak
\* for an earlier operation and lose none (release, poll).
ReportedOnceLanded == OkMeansLanded /\ NothingIsForgotten
=============================================================================
