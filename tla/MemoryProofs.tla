---------------------------- MODULE MemoryProofs ----------------------------
(***************************************************************************)
(* Proofs about memory that its owner was told it may free.                *)
(*                                                                         *)
(* Of Regions: memory whose deregistration has returned is in no transfer, *)
(* and a registration is open just as long as it is used, for any handles, *)
(* providers, refusals and cache sizes.  Of LocalProvider, at the end: no  *)
(* copy runs in freed memory, for any copying and withdrawing threads.     *)
(***************************************************************************)
EXTENDS Regions, TLAPS

Lives == {"none", "found", "missed", "failed", "created", "shedding", "live",
          "retiring", "busy", "gone"}

\* Whoever has begun to deregister a handle has retired it, and retirement is
\* never undone: this is what admission looks at.
RetireInv ==
    /\ life \in [Callers -> Lives]
    /\ flight \in [Callers -> {"idle", "built", "inflight"}]
    /\ \A h \in Callers : life[h] \in {"retiring", "busy", "gone"} => h \in retired
    /\ DeregisteredIsIdle

\* Registering, which only concerns handles that are not yet live.
LEMMA RegisteringKeepsIt ==
    ASSUME RetireInv, NEW h \in Callers, register_memory(h)
    PROVE  RetireInv'
<1> USE DEF RetireInv, DeregisteredIsIdle, Lives
<1>1. ASSUME find_registration(h) PROVE RetireInv'
  BY <1>1 DEF find_registration
<1>2. ASSUME Create(h) PROVE RetireInv'
  BY <1>2 DEF Create
<1>3. ASSUME cache_registration(h) PROVE RetireInv'
  BY <1>3 DEF cache_registration
<1>4. ASSUME Publish(h) PROVE RetireInv'
  BY <1>4 DEF Publish
<1> QED
  BY <1>1, <1>2, <1>3, <1>4 DEF register_memory

\* A transfer is admitted only over a handle that nobody has begun to
\* deregister: the second look, under the lock.
LEMMA TransfersKeepIt ==
    ASSUME RetireInv, NEW h \in Callers, Build(h) \/ Admit(h) \/ Complete(h)
    PROVE  RetireInv'
<1> USE DEF RetireInv, DeregisteredIsIdle
<1>1. ASSUME Build(h) PROVE RetireInv'
  BY <1>1 DEF Build
<1>2. ASSUME Admit(h) PROVE RetireInv'
  <2>1. flight' \in [Callers -> {"idle", "built", "inflight"}]
    BY <1>2 DEF Admit
  <2>2. flight'[h] = "inflight" => life[h] # "gone"
    BY <1>2 DEF Admit, StillRegistered
  <2>3. \A g \in Callers \ {h} : flight'[g] = flight[g]
    BY <1>2 DEF Admit
  <2> QED
    BY <1>2, <2>1, <2>2, <2>3 DEF Admit
<1>3. ASSUME Complete(h) PROVE RetireInv'
  BY <1>3 DEF Complete
<1> QED
  BY <1>1, <1>2, <1>3

\* A deregistration retires first and looks afterwards.
LEMMA DeregisteringKeepsIt ==
    ASSUME RetireInv, NEW h \in Callers, deregister_memory(h)
    PROVE  RetireInv'
<1> USE DEF RetireInv, DeregisteredIsIdle, Lives
<1>1. ASSUME DeregisterBegin(h) PROVE RetireInv'
  BY <1>1 DEF DeregisterBegin, retire
<1>2. ASSUME DeregisterLook(h) PROVE RetireInv'
  BY <1>2 DEF DeregisterLook
<1> QED
  BY <1>1, <1>2 DEF deregister_memory

\* Letting go of handles and dropping registrations touch neither the lives
\* of handles nor their transfers.
LEMMA DroppingKeepsIt ==
    ASSUME RetireInv,
           \/ \E h \in Callers : LetGo(h) \/ Orphan(h)
           \/ \E c \in DOMAIN shed, r \in Callers : Drop(c, r)
           \/ ReleaseTake
    PROVE  RetireInv'
BY DEF RetireInv, DeregisteredIsIdle, LetGo, Orphan, Drop, ReleaseTake

\* The inductive invariant behind deregister_memory: a handle is retired
\* before its transfers are looked for, and stays retired.
THEOREM RetirementHolds == Spec => []RetireInv
<1>1. Init => RetireInv
  BY DEF Init, RetireInv, DeregisteredIsIdle, Lives
<1>2. RetireInv /\ [Next]_vars => RetireInv'
  <2> SUFFICES ASSUME RetireInv, [Next]_vars PROVE RetireInv'
    OBVIOUS
  <2>1. ASSUME NEW h \in Callers, register_memory(h) PROVE RetireInv'
    BY <2>1, RegisteringKeepsIt
  <2>2. ASSUME NEW h \in Callers, Build(h) \/ Admit(h) \/ Complete(h) PROVE RetireInv'
    BY <2>2, TransfersKeepIt
  <2>3. ASSUME NEW h \in Callers, deregister_memory(h) PROVE RetireInv'
    BY <2>3, DeregisteringKeepsIt
  <2>4. ASSUME \/ \E h \in Callers : LetGo(h) \/ Orphan(h)
               \/ \E c \in DOMAIN shed, r \in Callers : Drop(c, r)
               \/ ReleaseTake
        PROVE  RetireInv'
    BY <2>4, DroppingKeepsIt
  <2>5. ASSUME UNCHANGED vars PROVE RetireInv'
    BY <2>5 DEF vars, RetireInv, DeregisteredIsIdle
  <2> QED
    BY <2>1, <2>2, <2>3, <2>4, <2>5 DEF Next
<1> QED
  BY <1>1, <1>2, PTL DEF Spec

\* Memory whose deregister_memory has returned kOk is in no transfer, then or
\* later, however the looks of the two sides interleave.
THEOREM DeregisteredMemoryIsIdle == Spec => []DeregisteredIsIdle
<1>1. RetireInv => DeregisteredIsIdle
  BY DEF RetireInv
<1> QED
  BY <1>1, RetirementHolds, PTL

-----------------------------------------------------------------------------
(* Registrations.                                                          *)

Shedders == Callers \cup {Releaser}
Handled  == {"live", "retiring", "busy", "gone"}
Served   == Handled \cup {"found", "created", "shedding"}

RegTypes ==
    /\ life \in [Callers -> Lives]
    /\ flight \in [Callers -> {"idle", "built", "inflight"}]
    /\ grip \in [Callers -> Callers \cup {Nobody}]
    /\ DOMAIN keys = Callers
    /\ shed \in [Shedders -> SUBSET Callers]
    /\ DOMAIN cache \subseteq Callers /\ open \subseteq Callers

\* A registration that anything refers to has been made, with a key from some
\* provider, and is not made again.
Made(r)   == life[r] \notin {"none", "missed"} /\ keys[r] # {}
UsedIsMade == \A r \in Callers :
                 \/ r \in DOMAIN cache \/ r \in open
                 \/ \E c \in Shedders : r \in shed[c]
                 \/ \E h \in Callers : grip[h] = r
                 => Made(r)
\* The registration that serves a handle covers what it was asked for.
ServedCovers == \A h \in Callers : life[h] \in Served =>
                   /\ grip[h] \in Callers
                   /\ Ask[grip[h]].access \cap Remote = Ask[h].access \cap Remote
                   /\ Ask[h].range \subseteq Ask[grip[h]].range
HandlesLive  == \A h \in Callers :
                   /\ h \in kept \cup regions \/ flight[h] # "idle" => life[h] \in Handled
                   /\ life[h] \in {"live", "retiring", "busy"} => h \in kept
                   /\ life[h] = "created" => grip[h] = h
\* What somebody refers to is open; what is being dropped nobody can come by.
HeldIsOpen   == \A h, r \in Callers : Holds(h, r) => r \in open
CachedIsOpen == DOMAIN cache \subseteq open
ShedIsUnused == \A c \in Shedders : \A r \in shed[c] : Unused(r) /\ r \notin DOMAIN cache
\* A call drops what it evicted before it goes on.
ShedderWaits == \A h \in Callers : shed[h] # {} => life[h] = "shedding"
\* With a cache, a registration stays open only in it, in the hands of a call
\* that drops it, or of the call that has just made it.
OpenIsAccounted ==
    entries # 0 => \A r \in open :
        \/ r \in DOMAIN cache \/ \E c \in Shedders : r \in shed[c]
        \/ life[r] = "created"

RegInv == /\ RegTypes /\ UsedIsMade /\ ServedCovers /\ HandlesLive /\ HeldIsOpen
          /\ CachedIsOpen /\ ShedIsUnused /\ ShedderWaits /\ OpenIsAccounted

\* What cache_registration does to the cache: the new registration goes in, and
\* only unused ones go out, to be dropped by this call.
LEMMA CacheEffect ==
    ASSUME RegTypes, NEW h \in Callers, cache_registration(h)
    PROVE  \/ entries = 0 /\ UNCHANGED <<cache, shed>>
           \/ /\ entries # 0
              /\ \E ev \in SUBSET (DOMAIN cache \cup {h}) :
                   /\ \A r \in ev : Unused(r)
                   /\ DOMAIN cache' = (DOMAIN cache \cup {h}) \ ev
                   /\ shed' = [shed EXCEPT ![h] = ev]
<1> DEFINE s == [r \in DOMAIN cache \cup {h} |->
                    IF r = h THEN Max(Range(cache) \cup {0}) + 1 ELSE cache[r]]
<1>1. DOMAIN s = DOMAIN cache \cup {h}
  OBVIOUS
<1>2. \/ entries = 0 /\ UNCHANGED <<cache, shed>>
      \/ /\ entries # 0
         /\ cache' = Restrict(s, DOMAIN s \ Evictable(s))
         /\ shed' = [shed EXCEPT ![h] = Evictable(s)]
  BY ZenonT(60) DEF cache_registration
<1>3. Evictable(s) \subseteq DOMAIN s /\ \A r \in Evictable(s) : Unused(r)
  BY ZenonT(60) DEF Evictable
<1> HIDE DEF s
<1>4. DOMAIN Restrict(s, DOMAIN s \ Evictable(s)) = DOMAIN s \ Evictable(s)
  BY ZenonT(60) DEF Restrict
<1> QED
  BY ZenonT(60), <1>1, <1>2, <1>3, <1>4

\* Registering: a registration is found open, or made and then cached.
LEMMA RegisteringKeepsOpen ==
    ASSUME RegInv, NEW h \in Callers, register_memory(h)
    PROVE  RegInv'
<1>0. cache_registration(h) =>
          \/ entries = 0 /\ UNCHANGED <<cache, shed>>
          \/ /\ entries # 0
             /\ \E ev \in SUBSET (DOMAIN cache \cup {h}) :
                  /\ \A r \in ev : Unused(r)
                  /\ DOMAIN cache' = (DOMAIN cache \cup {h}) \ ev
                  /\ shed' = [shed EXCEPT ![h] = ev]
  BY ZenonT(60), CacheEffect DEF RegInv
<1> USE NamesAssumption
    DEF RegInv, RegTypes, UsedIsMade, ServedCovers, HandlesLive, HeldIsOpen, CachedIsOpen,
        ShedIsUnused, ShedderWaits, OpenIsAccounted, Lives, Served, Handled, Shedders,
        Made, Holds, Unused
<1>1. ASSUME find_registration(h) PROVE RegInv'
  BY SMTT(120), <1>1 DEF find_registration, registration_covers
<1>2. ASSUME Create(h) PROVE RegInv'
  BY SMTT(120), <1>2 DEF Create
<1>3. ASSUME cache_registration(h) PROVE RegInv'
  <2>1. /\ life[h] = "created" /\ life' = [life EXCEPT ![h] = "shedding"]
        /\ UNCHANGED <<entries, grip, kept, retired, regions, keys, open, flight>>
    BY ZenonT(60), <1>3 DEF cache_registration
  <2>2. CASE entries = 0 /\ UNCHANGED <<cache, shed>>
    BY SMTT(120), <2>1, <2>2
  <2>3. ASSUME NEW ev \in SUBSET (DOMAIN cache \cup {h}), entries # 0,
               \A r \in ev : Unused(r),
               DOMAIN cache' = (DOMAIN cache \cup {h}) \ ev,
               shed' = [shed EXCEPT ![h] = ev]
        PROVE  RegInv'
    BY SMTT(120), <2>1, <2>3
  <2> QED
    BY ZenonT(60), <1>0, <1>3, <2>2, <2>3
<1>4. ASSUME Publish(h) PROVE RegInv'
  BY SMTT(120), <1>4 DEF Publish
<1> QED
  BY ZenonT(60), <1>1, <1>2, <1>3, <1>4 DEF register_memory

\* Transfers and deregistration keep a handle's registration held until both
\* have let go of the handle.
LEMMA UsingKeepsOpen ==
    ASSUME RegInv, NEW h \in Callers,
           Build(h) \/ Admit(h) \/ Complete(h) \/ deregister_memory(h) \/ LetGo(h)
    PROVE  RegInv'
<1> USE NamesAssumption
    DEF RegInv, RegTypes, UsedIsMade, ServedCovers, HandlesLive, HeldIsOpen, CachedIsOpen,
        ShedIsUnused, ShedderWaits, OpenIsAccounted, Lives, Served, Handled, Shedders,
        Made, Holds, Unused
<1>1. ASSUME Build(h) \/ Admit(h) \/ Complete(h) PROVE RegInv'
  BY SMTT(120), <1>1 DEF Build, Admit, Complete
<1>2. ASSUME DeregisterBegin(h) PROVE RegInv'
  BY SMTT(120), <1>2 DEF DeregisterBegin
<1>3. ASSUME DeregisterLook(h) PROVE RegInv'
  BY SMTT(120), <1>3 DEF DeregisterLook
<1>4. ASSUME LetGo(h) PROVE RegInv'
  BY SMTT(120), <1>4 DEF LetGo
<1> QED
  BY ZenonT(60), <1>1, <1>2, <1>3, <1>4 DEF deregister_memory

\* Only what nobody refers to, and nobody can find, is dropped.
LEMMA DroppingKeepsOpen ==
    ASSUME RegInv,
           \/ \E h \in Callers : Orphan(h)
           \/ \E c \in DOMAIN shed, r \in Callers : Drop(c, r)
           \/ ReleaseTake
    PROVE  RegInv'
<1> USE NamesAssumption
    DEF RegInv, RegTypes, UsedIsMade, ServedCovers, HandlesLive, HeldIsOpen, CachedIsOpen,
        ShedIsUnused, ShedderWaits, OpenIsAccounted, Lives, Served, Handled, Shedders,
        Made, Holds, Unused
<1>1. ASSUME NEW r \in Callers, Orphan(r) PROVE RegInv'
  BY SMTT(120), <1>1 DEF Orphan
<1>2. ASSUME NEW c \in DOMAIN shed, NEW r \in Callers, Drop(c, r) PROVE RegInv'
  BY SMTT(120), <1>2 DEF Drop
<1>3. ASSUME ReleaseTake PROVE RegInv'
  BY SMTT(120), <1>3 DEF ReleaseTake, Dropped, Restrict
<1> QED
  BY ZenonT(60), <1>1, <1>2, <1>3

\* The inductive invariant of the reuse cache: what a handle refers to is open
\* and covers it, what is being dropped nobody can come by, and with a cache
\* nothing stays open outside it for long (register_memory,
\* release_cached_registrations, the deleter of a registration).
THEOREM RegistrationsHold == Spec => []RegInv
<1>1. Init => RegInv
  <2> SUFFICES ASSUME Init PROVE RegInv
    OBVIOUS
  <2>1. RegTypes
    BY SMTT(120) DEF Init, RegTypes, Lives, Shedders
  <2>2. /\ DOMAIN cache = {} /\ open = {} /\ kept = {} /\ regions = {}
        /\ \A c \in Shedders : shed[c] = {}
        /\ \A h \in Callers : life[h] = "none" /\ grip[h] = Nobody /\ flight[h] = "idle"
    BY ZenonT(60) DEF Init, Shedders
  <2>3. UsedIsMade /\ ServedCovers /\ HandlesLive /\ HeldIsOpen
    BY ZenonT(60), <2>2, NamesAssumption
       DEF UsedIsMade, ServedCovers, HandlesLive, HeldIsOpen, Served, Handled, Holds
  <2>4. CachedIsOpen /\ ShedIsUnused /\ ShedderWaits /\ OpenIsAccounted
    BY ZenonT(60), <2>2
       DEF CachedIsOpen, ShedIsUnused, ShedderWaits, OpenIsAccounted, Shedders
  <2> QED
    BY ZenonT(60), <2>1, <2>3, <2>4 DEF RegInv
<1>2. RegInv /\ [Next]_vars => RegInv'
  <2> SUFFICES ASSUME RegInv, [Next]_vars PROVE RegInv'
    OBVIOUS
  <2>1. ASSUME UNCHANGED vars PROVE RegInv'
    BY SMTT(120), <2>1
       DEF vars, RegInv, RegTypes, UsedIsMade, ServedCovers, HandlesLive, HeldIsOpen,
           CachedIsOpen, ShedIsUnused, ShedderWaits, OpenIsAccounted, Made, Holds, Unused
  <2> QED
    BY ZenonT(60), <2>1, RegisteringKeepsOpen, UsingKeepsOpen, DroppingKeepsOpen DEF Next
<1> QED
  BY <1>1, <1>2, PTL DEF Spec

\* A registration is open as long as a handle or a transfer needs it, with just
\* the rights the handle was registered for, and is closed once
\* release_cached_registrations has dropped what nobody uses.
THEOREM RegistrationsAreOpenWhileUsed == Spec => []OpenWhileUsed
<1>1. RegInv => ServedAsAsked
  BY SMTT(120)
     DEF RegInv, RegTypes, UsedIsMade, ServedCovers, HandlesLive, HeldIsOpen, Served,
         Handled, Made, Holds, ServedAsAsked
<1>2. RegInv => ReleasedIsClosed
  BY SMTT(120)
     DEF RegInv, RegTypes, UsedIsMade, HandlesLive, OpenIsAccounted, Shedders, Holds, Unused,
         Dropped, ReleasedIsClosed
<1>3. RegInv => OpenWhileUsed
  BY <1>1, <1>2 DEF OpenWhileUsed
<1> QED
  BY <1>3, RegistrationsHold, PTL

-----------------------------------------------------------------------------
(* The same-process transport, whose constants and variables are its own.  *)

CONSTANTS Copiers, Withdrawers, MaxMessages
VARIABLES entry, ownKey, copier, withdrawer, freed, finished, reported, otherSide,
          inbox, sentTo

Local == INSTANCE LocalProvider

\* Memory is freed only after its range is out of the registry, and a range
\* goes out only while no copy is reading it: a copy that comes later is
\* refused.
WithdrawnInv ==
    /\ copier \in [Copiers -> {"idle", "copying", "done", "refused"}]
    /\ freed => ~entry
    /\ Local!NoCopyIntoFreed

\* Steps of the control half leave the registry and the copies alone.
LEMMA ControlKeepsIt ==
    ASSUME WithdrawnInv,
           \/ Local!poll \/ Local!send_control \/ Local!Expire
           \/ \E s \in Local!Sides : Local!poll_control(s)
    PROVE  WithdrawnInv'
BY DEF WithdrawnInv, Local!NoCopyIntoFreed, Local!poll, Local!send_control, Local!Expire,
       Local!poll_control, Local!copyVars, Local!controlVars

\* The inductive invariant of the registry's lock: freed memory is not in the
\* registry (LocalRegistry::copy, withdraw).
THEOREM FreedIsWithdrawn == Local!Spec => []WithdrawnInv
<1>1. Local!Init => WithdrawnInv
  BY DEF Local!Init, WithdrawnInv, Local!NoCopyIntoFreed
<1>2. WithdrawnInv /\ [Local!Next]_(Local!vars) => WithdrawnInv'
  <2> SUFFICES ASSUME WithdrawnInv, [Local!Next]_(Local!vars) PROVE WithdrawnInv'
    OBVIOUS
  <2> USE DEF WithdrawnInv, Local!NoCopyIntoFreed
  <2>1. ASSUME NEW t \in Copiers, Local!CopyBegin(t) PROVE WithdrawnInv'
    BY <2>1 DEF Local!CopyBegin
  <2>2. ASSUME NEW t \in Copiers, Local!CopyEnd(t) PROVE WithdrawnInv'
    BY <2>2 DEF Local!CopyEnd
  <2>3. ASSUME NEW w \in Withdrawers, Local!DeregisterErase(w) PROVE WithdrawnInv'
    BY <2>3 DEF Local!DeregisterErase
  <2>4. ASSUME NEW w \in Withdrawers, Local!withdraw(w) PROVE WithdrawnInv'
    BY <2>4 DEF Local!withdraw, Local!Reading
  <2>5. ASSUME UNCHANGED Local!vars PROVE WithdrawnInv'
    BY <2>5 DEF Local!vars
  <2> QED
    BY <2>1, <2>2, <2>3, <2>4, <2>5, ControlKeepsIt DEF Local!Next
<1> QED
  BY <1>1, <1>2, PTL DEF Local!Spec

\* No copy is under way in memory whose owner has been told kOk by
\* deregister_region.
THEOREM NoCopyInFreedMemory == Local!Spec => []Local!NoCopyIntoFreed
<1>1. WithdrawnInv => Local!NoCopyIntoFreed
  BY DEF WithdrawnInv
<1> QED
  BY <1>1, FreedIsWithdrawn, PTL
=============================================================================
