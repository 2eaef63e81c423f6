-------------------------- MODULE RequestLifecycle --------------------------
(***************************************************************************)
(* What Engine and Request promise a caller about one transfer             *)
(* (include/hux/engine.h, include/hux/request.h), with no lanes, threads,  *)
(* queues or transports: a request the engine accepted ends once, in one   *)
(* of three ways; while it lives the hardware may touch its memory, and    *)
(* once it has ended never again; a peer that was told its bytes arrived   *)
(* was told the truth; only a request somebody asked to cancel ends        *)
(* cancelled, and then its peer was told nothing.                          *)
(***************************************************************************)
CONSTANT Requests

VARIABLES
    phase,     \* "none", "live", or how it ended
    asked,     \* cancel() was accepted
    touching,  \* a transport may read or write the request's memory
    told,      \* the peer was told that the bytes have landed
    reported   \* requests queued for poll_completions

vars == <<phase, asked, touching, told, reported>>

Endings == {"Succeeded", "Failed", "Cancelled"}

Init ==
    /\ phase = [r \in Requests |-> "none"]
    /\ asked = {}
    /\ touching = {}
    /\ told = {}
    /\ reported = {}

Accept(r) ==
    /\ phase[r] = "none"
    /\ phase' = [phase EXCEPT ![r] = "live"]
    /\ UNCHANGED <<asked, touching, told, reported>>

\* Transports start and stop using memory, of live requests only, and never
\* again once the peer has been told.
Touch ==
    /\ touching' \in SUBSET Requests
    /\ \A r \in touching' : phase[r] = "live" /\ r \notin told
    /\ UNCHANGED <<phase, asked, told, reported>>

Ask(r) ==
    /\ phase[r] = "live"
    /\ asked' = asked \cup {r}
    /\ UNCHANGED <<phase, touching, told, reported>>

Tell(r) ==
    /\ phase[r] = "live" /\ r \notin touching
    /\ told' = told \cup {r}
    /\ UNCHANGED <<phase, asked, touching, reported>>

End(r) ==
    /\ phase[r] = "live" /\ r \notin touching
    /\ \E e \in Endings :
          /\ e = "Cancelled" => r \in asked
          /\ r \in told <=> e = "Succeeded"
          /\ phase' = [phase EXCEPT ![r] = e]
    /\ UNCHANGED <<asked, touching, told, reported>>

Report(r) ==
    /\ phase[r] \in Endings /\ r \notin reported
    /\ reported' = reported \cup {r}
    /\ UNCHANGED <<phase, asked, touching, told>>

Next == \/ Touch
        \/ \E r \in Requests : Accept(r) \/ Ask(r) \/ Tell(r) \/ End(r) \/ Report(r)

Spec == Init /\ [][Next]_vars
=============================================================================
