------------------------------ MODULE Topology -----------------------------
(***************************************************************************)
(* Which adapter belongs with which device (src/device/topology.cpp),      *)
(* judged from PCI addresses and NUMA nodes.                               *)
(***************************************************************************)
EXTENDS Integers, Sequences

CONSTANTS
    Adapters,     \* adapters there may be: [active, bus, device, numa]
    MaxAdapters,  \* how many of them
    Devices       \* where the device may be: [bus, device, numa]

VARIABLES nics, device, nic     \* the adapters found, the device, and the answer

vars == <<nics, device, nic>>

\* Whether a PCI address is one; a bus is of a domain.
Valid(p) == p.bus # 0 \/ p.device # 0

\* From the nearest to the furthest; 4 is unknown, and so is node -1.
proximity(a, b) ==
    CASE Valid(a) /\ Valid(b) /\ a.bus = b.bus /\ a.device = b.device -> 0
      [] Valid(a) /\ Valid(b) /\ a.bus = b.bus /\ a.device # b.device -> 1
      [] OTHER -> IF a.numa < 0 \/ b.numa < 0 THEN 4
                  ELSE IF a.numa = b.numa THEN 2 ELSE 3

\* Slip: the last of the nearest.
NearerOrEqual(p, best) == p <= best
Nearer(p, best) == p < best

\* Which adapter, 0 for none: the loop, adapter by adapter.
best_nic_for(found) ==
    LET best[i \in 0..Len(found)] ==
            IF i = 0 THEN [at |-> 0, how |-> 4]
            ELSE LET before == best[i - 1]
                     p == proximity(device, found[i])
                 IN  IF found[i].active /\ p # 4 /\ (before.at = 0 \/ Nearer(p, before.how))
                     THEN [at |-> i, how |-> p] ELSE before
    IN  best[Len(found)].at

Init ==
    /\ nics = <<>> /\ device \in Devices /\ nic = 0

\* discover_nics lists one more, and best_nic_for is asked.
Next ==
    /\ Len(nics) < MaxAdapters
    /\ \E a \in Adapters :
         /\ nics' = Append(nics, a)
         /\ nic' = best_nic_for(Append(nics, a))
    /\ UNCHANGED device

-----------------------------------------------------------------------------
(* Properties.                                                             *)

\* The adapter for a device is up, of known distance, and no adapter that is
\* up is nearer; there is none only when there is none to be had.
NearestIsChosen ==
    LET Candidates == {i \in DOMAIN nics : nics[i].active /\ proximity(device, nics[i]) # 4}
        Far(i) == proximity(device, nics[i])
    IN  IF Candidates = {} THEN nic = 0
        ELSE /\ nic \in Candidates
             /\ \A i \in Candidates :
                  Far(nic) < Far(i) \/ (Far(nic) = Far(i) /\ nic <= i)
=============================================================================
