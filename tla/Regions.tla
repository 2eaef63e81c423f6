------------------------------ MODULE Regions ------------------------------
(***************************************************************************)
(* Registered memory on the side that owns it (src/core/engine_impl.cpp,   *)
(* region_impl.cpp): a handle per register_memory call, registrations      *)
(* shared between handles through a bounded reuse cache, transfers that    *)
(* hold handles while they are in flight, and deregistration racing all    *)
(* of it.                                                                  *)
(*                                                                         *)
(* Each caller makes one handle; the registration it creates, if it has    *)
(* to, carries the caller's name.  The engine's lock makes each of its     *)
(* sections one step.                                                      *)
(***************************************************************************)
EXTENDS Integers, FiniteSets, FiniteSetsExt

CONSTANTS
    Callers,       \* one register_memory call, and its handle, each
    Ask,           \* what each asks for: [range, access]
    Providers,     \* transports the engine registers memory with
    Refusals,      \* which of them may refuse a piece of memory together
    CacheSizes,    \* registration_cache_entries to try, 0 for no cache
    Nobody

Releaser == "release"   \* the call of release_cached_registrations

ASSUME NamesAssumption == Nobody \notin Callers /\ Releaser \notin Callers

Remote == {"RemoteRead", "RemoteWrite"}

VARIABLES
    entries,   \* registration_cache_entries
    life,      \* where a handle is in its life
    grip,      \* the registration a call or a handle has, or Nobody
    kept,      \* handles the application still holds
    retired,   \* handles with retired_ set
    regions,   \* handles in regions_
    keys,      \* the providers a registration has keys from
    open,      \* registrations the providers have not been told to drop
    cache,     \* reg_cache_: the registrations in it, each with its place
    shed,      \* taken from the cache by a call, and not yet dropped
    flight     \* the one transfer over a handle: "idle", "built" or "inflight"

vars == <<entries, life, grip, kept, retired, regions, keys, open, cache, shed, flight>>

Init ==
    /\ entries \in CacheSizes
    /\ life = [h \in Callers |-> "none"]
    /\ grip = [h \in Callers |-> Nobody]
    /\ kept = {} /\ retired = {} /\ regions = {} /\ open = {}
    /\ keys = [r \in Callers |-> {}]
    /\ cache = [r \in {} |-> 0]
    /\ shed = [c \in Callers \cup {Releaser} |-> {}]
    /\ flight = [h \in Callers |-> "idle"]

-----------------------------------------------------------------------------
(* References.                                                             *)

\* A call in progress refers to its registration, and a handle to its own for
\* as long as the map, the application or a transfer has the handle.
Holds(h, r) ==
    /\ grip[h] = r
    /\ \/ life[h] \in {"created", "shedding", "found"}
       \/ h \in kept \cup regions
       \/ flight[h] # "idle"

\* use_count() == 1: only the cache has it.
Unused(r) == \A h \in Callers : ~ Holds(h, r)

-----------------------------------------------------------------------------
(* register_memory.                                                        *)

\* Slip: what a peer may do has only to suffice.
CoversSuffice(r, a) ==
    a.access \subseteq Ask[r].access /\ a.range \subseteq Ask[r].range
registration_covers(r, a) ==
    /\ a.access \subseteq Ask[r].access
    /\ a.access \cap Remote = Ask[r].access \cap Remote
    /\ a.range \subseteq Ask[r].range

\* The first entry of the cache that covers the request.
find_registration(h) ==
    /\ life[h] = "none"
    /\ LET hits == {r \in DOMAIN cache : registration_covers(r, Ask[h])}
       IN  \/ /\ \E r \in hits : /\ \A q \in hits : cache[r] <= cache[q]
                                 /\ grip' = [grip EXCEPT ![h] = r]
              /\ life' = [life EXCEPT ![h] = "found"]
           \/ /\ hits = {}
              /\ life' = [life EXCEPT ![h] = "missed"]
              /\ UNCHANGED grip
    /\ UNCHANGED <<entries, kept, retired, regions, keys, open, cache, shed, flight>>

\* Registered with every provider; it fails only if all of them refuse.
Create(h) ==
    /\ life[h] = "missed"
    /\ \E no \in Refusals :
         LET took == Providers \ no
         IN  /\ keys' = [keys EXCEPT ![h] = took]
             /\ open' = IF took = {} THEN open ELSE open \cup {h}
             /\ life' = [life EXCEPT ![h] = IF took = {} THEN "failed" ELSE "created"]
             /\ grip' = [grip EXCEPT ![h] = IF took = {} THEN Nobody ELSE h]
    /\ UNCHANGED <<entries, kept, retired, regions, cache, shed, flight>>

\* While the cache is over its bound the first unused entry goes.
Evictable(s) ==
    LET free == {r \in DOMAIN s : Unused(r)}
    IN  {r \in free : Cardinality({q \in free : s[q] < s[r]})
                        < Cardinality(DOMAIN s) - entries}

cache_registration(h) ==
    LET last == Max(Range(cache) \cup {0})
        s == [r \in DOMAIN cache \cup {h} |-> IF r = h THEN last + 1 ELSE cache[r]]
        ev == Evictable(s)
    IN  /\ life[h] = "created"
        /\ IF entries = 0
           THEN UNCHANGED <<cache, shed>>
           ELSE /\ cache' = Restrict(s, DOMAIN s \ ev)
                /\ shed' = [shed EXCEPT ![h] = ev]
        /\ life' = [life EXCEPT ![h] = "shedding"]
        /\ UNCHANGED <<entries, grip, kept, retired, regions, keys, open, flight>>

\* The deleter runs outside the lock: every provider drops its key.
Drop(c, r) ==
    /\ r \in shed[c]
    /\ shed' = [shed EXCEPT ![c] = @ \ {r}]
    /\ open' = open \ {r}
    /\ UNCHANGED <<entries, life, grip, kept, retired, regions, keys, cache, flight>>

\* The handle is made and put in the map.
Publish(h) ==
    /\ \/ life[h] = "found"
       \/ life[h] = "shedding" /\ shed[h] = {}
    /\ life' = [life EXCEPT ![h] = "live"]
    /\ regions' = regions \cup {h}
    /\ kept' = kept \cup {h}
    /\ UNCHANGED <<entries, grip, retired, keys, open, cache, shed, flight>>

register_memory(h) ==
    find_registration(h) \/ Create(h) \/ cache_registration(h) \/ Publish(h)

-----------------------------------------------------------------------------
(* Transfers over a handle: submit_vector's checks on its regions.         *)

\* build_subops, outside the lock.
Build(h) ==
    /\ flight[h] = "idle" /\ h \in kept
    /\ h \in regions /\ h \notin retired
    /\ flight' = [flight EXCEPT ![h] = "built"]
    /\ UNCHANGED <<entries, life, grip, kept, retired, regions, keys, open, cache, shed>>

\* Slip: retired() is not looked at again under the lock.
AdmitAnyway(h) == TRUE
StillRegistered(h) == h \notin retired

Admit(h) ==
    /\ flight[h] = "built"
    /\ flight' = [flight EXCEPT ![h] = IF StillRegistered(h) THEN "inflight" ELSE "idle"]
    /\ UNCHANGED <<entries, life, grip, kept, retired, regions, keys, open, cache, shed>>

\* The request ends and is let go of.
Complete(h) ==
    /\ flight[h] = "inflight"
    /\ flight' = [flight EXCEPT ![h] = "idle"]
    /\ UNCHANGED <<entries, life, grip, kept, retired, regions, keys, open, cache, shed>>

-----------------------------------------------------------------------------
(* deregister_memory, which may be called again after kWouldBlock.         *)

\* Slip: the handle is taken out first and retired with it.
RetireLater(h) == UNCHANGED retired
retire(h) == retired' = retired \cup {h}

DeregisterBegin(h) ==
    /\ life[h] \in {"live", "busy"} /\ h \in kept
    /\ retire(h)
    /\ life' = [life EXCEPT ![h] = "retiring"]
    /\ UNCHANGED <<entries, grip, kept, regions, keys, open, cache, shed, flight>>

DeregisterLook(h) ==
    /\ life[h] = "retiring"
    /\ IF flight[h] = "inflight"
       THEN life' = [life EXCEPT ![h] = "busy"] /\ UNCHANGED regions
       ELSE life' = [life EXCEPT ![h] = "gone"] /\ regions' = regions \ {h}
    /\ UNCHANGED <<entries, grip, kept, retired, keys, open, cache, shed, flight>>

deregister_memory(h) == DeregisterBegin(h) \/ DeregisterLook(h)

\* The application lets go of the handle.
LetGo(h) ==
    /\ life[h] = "gone" /\ h \in kept
    /\ kept' = kept \ {h}
    /\ UNCHANGED <<entries, life, grip, retired, regions, keys, open, cache, shed, flight>>

\* The last reference to a registration goes with the handle that had it.
Orphan(r) ==
    /\ r \in open /\ Unused(r)
    /\ r \notin DOMAIN cache /\ \A c \in DOMAIN shed : r \notin shed[c]
    /\ open' = open \ {r}
    /\ UNCHANGED <<entries, life, grip, kept, retired, regions, keys, cache, shed, flight>>

Dropped == {r \in DOMAIN cache : Unused(r)}

\* release_cached_registrations takes out what nobody uses, and drops it
\* outside the lock before it returns.
ReleaseTake ==
    /\ shed[Releaser] = {} /\ Dropped # {}
    /\ shed' = [shed EXCEPT ![Releaser] = Dropped]
    /\ cache' = Restrict(cache, DOMAIN cache \ Dropped)
    /\ UNCHANGED <<entries, life, grip, kept, retired, regions, keys, open, flight>>

-----------------------------------------------------------------------------
Next ==
    \/ \E h \in Callers :
         \/ register_memory(h)
         \/ Build(h) \/ Admit(h) \/ Complete(h)
         \/ deregister_memory(h) \/ LetGo(h) \/ Orphan(h)
    \/ \E c \in DOMAIN shed, r \in Callers : Drop(c, r)
    \/ ReleaseTake

Spec == Init /\ [][Next]_vars

\* Requests end, calls go on, and the application calls deregister_memory
\* again after kWouldBlock.
Fairness ==
    /\ \A h \in Callers : WF_vars(Admit(h)) /\ WF_vars(Complete(h))
                          /\ WF_vars(deregister_memory(h))
    /\ WF_vars(\E c \in DOMAIN shed, r \in Callers : Drop(c, r))

-----------------------------------------------------------------------------
(* Properties.                                                             *)

\* A handle whose deregistration has returned kOk is in no transfer then or
\* later: retire() before the look, and the second look at admission, leave
\* no order in which both sides miss the other.
DeregisteredIsIdle ==
    \A h \in Callers : life[h] = "gone" => flight[h] # "inflight"

\* What a peer may do with the key of a handle is what the handle was
\* registered for, whichever registration serves it, and the registration is
\* open at some provider as long as anything can use the handle.
ServedAsAsked ==
    \A h \in Callers :
        life[h] = "live" \/ flight[h] = "inflight" =>
            /\ Ask[grip[h]].access \cap Remote = Ask[h].access \cap Remote
            /\ Ask[h].range \subseteq Ask[grip[h]].range
            /\ grip[h] \in open /\ keys[grip[h]] # {}

\* When release_cached_registrations has found nothing more to drop, a
\* registration that no handle uses is open only while another call is still
\* dropping what it evicted, or the handle that had it is being let go of
\* without ever having been in the cache.
ReleasedIsClosed ==
    Dropped = {} /\ shed[Releaser] = {} =>
        \A r \in open : Unused(r) =>
            r \notin DOMAIN cache /\ (entries > 0 => \E h \in Callers : r \in shed[h])

\* A registration is open as long as a handle needs it, with just the rights
\* the handle was registered for, and no longer than the cache may keep it
\* (register_memory, deregister_memory, release_cached_registrations).
OpenWhileUsed == ServedAsAsked /\ ReleasedIsClosed

\* A deregistration turned away as busy succeeds when it is tried again often
\* enough: retirement keeps new transfers from taking the place of old ones.
BusyEnds ==
    \A h \in Callers : (life[h] = "busy") ~> (life[h] = "gone")
=============================================================================
