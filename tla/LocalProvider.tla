--------------------------- MODULE LocalProvider ---------------------------
(***************************************************************************)
(* The same-process transport (src/transport/local/local_provider.cpp):    *)
(* copies through a process-wide registry under a readers-writer lock, a   *)
(* completion queue, and control messages handed straight to the other     *)
(* provider, or back to the sender when there is none.                     *)
(***************************************************************************)
EXTENDS Integers, Sequences

CONSTANTS
    Copiers,      \* threads in submit
    Withdrawers,  \* threads in deregister_region, all for the same key
    MaxMessages   \* control messages sent

VARIABLES
    entry,      \* whether the key is in the registry
    ownKey,     \* whether it is in local_keys_
    copier,     \* "idle", "copying", "done" or "refused"
    withdrawer, \* "idle", "erased", "ok" or "notfound"
    freed,      \* whether the owner, told kOk, has freed the memory
    finished,   \* completions_
    reported,   \* how many completions poll has handed out
    otherSide,  \* the provider this one is paired with: "none", "there" or "expired"
    inbox,      \* control_ of each side
    sentTo      \* where each message went

vars == <<entry, ownKey, copier, withdrawer, freed, finished, reported, otherSide,
          inbox, sentTo>>
copyVars == <<entry, ownKey, copier, withdrawer, freed, finished, reported>>
controlVars == <<otherSide, inbox, sentTo>>

Sides == {"own", "other"}

Init ==
    /\ entry = TRUE /\ ownKey = TRUE /\ freed = FALSE
    /\ copier = [t \in Copiers |-> "idle"]
    /\ withdrawer = [w \in Withdrawers |-> "idle"]
    /\ finished = <<>> /\ reported = 0
    /\ otherSide \in {"none", "there"}
    /\ inbox = [s \in Sides |-> <<>>]
    /\ sentTo = <<>>

\* Slip: the lock is let go of once the range is resolved.
Resolving == {}
\* The readers of the registry's lock: a copy holds it to its end.
Reading == {t \in Copiers : copier[t] = "copying"}

\* LocalRegistry::copy, resolving: refused for a key that is not published.
CopyBegin(t) ==
    /\ copier[t] = "idle"
    /\ copier' = [copier EXCEPT ![t] = IF entry THEN "copying" ELSE "refused"]
    /\ UNCHANGED <<entry, ownKey, withdrawer, freed, finished, reported, controlVars>>

\* ... and the end of the copy, with its completion.
CopyEnd(t) ==
    /\ copier[t] = "copying"
    /\ copier' = [copier EXCEPT ![t] = "done"]
    /\ finished' = Append(finished, t)
    /\ UNCHANGED <<entry, ownKey, withdrawer, freed, reported, controlVars>>

\* poll hands out the oldest, as many as the caller has room for.
poll ==
    /\ \E n \in DOMAIN finished :
         /\ finished' = SubSeq(finished, n + 1, Len(finished))
         /\ reported' = reported + n
    /\ UNCHANGED <<entry, ownKey, copier, withdrawer, freed, controlVars>>

\* deregister_region: whoever erases the key withdraws the range, and is the
\* only one told kOk.
DeregisterErase(w) ==
    /\ withdrawer[w] = "idle"
    /\ withdrawer' = [withdrawer EXCEPT ![w] = IF ownKey THEN "erased" ELSE "notfound"]
    /\ ownKey' = FALSE
    /\ UNCHANGED <<entry, copier, freed, finished, reported, controlVars>>

\* withdraw waits for the copies that are reading.
withdraw(w) ==
    /\ withdrawer[w] = "erased" /\ Reading = {}
    /\ entry' = FALSE
    /\ withdrawer' = [withdrawer EXCEPT ![w] = "ok"]
    /\ freed' = TRUE
    /\ UNCHANGED <<ownKey, copier, finished, reported, controlVars>>

-----------------------------------------------------------------------------
\* send_control and broadcast_control: to the other side while it exists, and
\* back to this one otherwise.
send_control ==
    /\ Len(sentTo) < MaxMessages
    /\ LET to == IF otherSide = "there" THEN "other" ELSE "own"
       IN  /\ inbox' = [inbox EXCEPT ![to] = Append(@, Len(sentTo) + 1)]
           /\ sentTo' = Append(sentTo, to)
    /\ UNCHANGED <<copyVars, otherSide>>

\* poll_control of either side, as many as the caller has room for.
poll_control(s) ==
    /\ \E n \in DOMAIN inbox[s] :
         inbox' = [inbox EXCEPT ![s] = SubSeq(@, n + 1, Len(@))]
    /\ UNCHANGED <<copyVars, otherSide, sentTo>>

\* The other provider is destroyed, and its queue with it.
Expire ==
    /\ otherSide = "there"
    /\ otherSide' = "expired"
    /\ inbox' = [inbox EXCEPT !["other"] = <<>>]
    /\ UNCHANGED <<copyVars, sentTo>>

Next ==
    \/ \E t \in Copiers : CopyBegin(t) \/ CopyEnd(t)
    \/ \E w \in Withdrawers : DeregisterErase(w) \/ withdraw(w)
    \/ poll \/ send_control \/ Expire
    \/ \E s \in Sides : poll_control(s)

Spec == Init /\ [][Next]_vars

-----------------------------------------------------------------------------
(* Properties.                                                             *)

\* "holding the range published until the copy is done": no copy is under way
\* in memory its owner has been told it may free.
NoCopyIntoFreed == freed => \A t \in Copiers : copier[t] # "copying"
=============================================================================
