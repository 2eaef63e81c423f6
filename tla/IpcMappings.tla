---------------------------- MODULE IpcMappings ----------------------------
(***************************************************************************)
(* A process's mappings of another process's device memory, as the device  *)
(* backends keep them (export_ipc, import_ipc and close_ipc of             *)
(* cuda_backend, rocm_backend, kunlun_backend and neuware_backend).  A     *)
(* handle names a whole allocation; regions inside one allocation share a  *)
(* counted mapping, and are closed by the address they were given.         *)
(***************************************************************************)
EXTENDS Integers

CONSTANTS
    Size,      \* the peer's allocations, and how long each one is
    Exports,   \* what the peer registers: [of, offset, length]
    Space,     \* the last address of this process
    Backends   \* "looks up": CUDA and ROCm find the allocation of an address;
               \* "claims": Kunlun and Neuware cannot

VARIABLES
    backend,   \* which of the two both processes run
    imports,   \* imports_by_handle_: allocation -> [base, bytes, refs]
    opened,    \* the driver's own mappings: allocation -> address, 0 for none
    stuck,     \* allocations that the driver failed to unmap
    held       \* what ensure_mapped was given: export -> address, 0 for none

vars == <<backend, imports, opened, stuck, held>>

Allocations == DOMAIN Size
Cells(a, base) == base..(base + Size[a] - 1)

-----------------------------------------------------------------------------
(* The exporting process.                                                  *)

\* CUDA and ROCm find the allocation, and refuse what does not fit into it.
Located(e) ==
    IF e.offset > Size[e.of] \/ e.length > Size[e.of] - e.offset THEN {}
    ELSE {[of |-> e.of, offset |-> e.offset, bytes |-> Size[e.of]]}

\* Kunlun refuses all but the start of an allocation, and takes the length
\* that was registered for the allocation's.
Claimed(e) == IF e.offset # 0 THEN {} ELSE {[of |-> e.of, offset |-> 0, bytes |-> e.length]}

\* The handle for an export, or none.
export_ipc(e) == IF backend = "looks up" THEN Located(e) ELSE Claimed(e)

-----------------------------------------------------------------------------
(* The importing process.  Each operation holds ipc_mu_.                   *)

Known == {a \in Allocations : imports[a].refs > 0}
Closed == [base |-> 0, bytes |-> 0, refs |-> 0]

\* Slip: another region of the allocation is not counted.
Uncounted(r) == r
\* One more region uses a mapping that is there.
Shared(r) == [r EXCEPT !.refs = @ + 1]

\* Where the driver may map an allocation: anywhere that is free, and nowhere
\* if this process has it already.
Places(a) ==
    IF opened[a] # 0 THEN {}
    ELSE {b \in 1..Space : /\ Cells(a, b) \subseteq 1..Space
                           /\ \A o \in Allocations : opened[o] = 0 \/ Cells(a, b) \cap Cells(o, opened[o]) = {}}

\* ensure_mapped imports an export's handle; a failed open changes nothing.
import_ipc(e) ==
    \E h \in export_ipc(e) :
      /\ held[e] = 0
      /\ h.offset <= h.bytes
      /\ IF h.of \in Known
         THEN /\ imports' = [imports EXCEPT ![h.of] = Shared(@)]
              /\ held' = [held EXCEPT ![e] = imports[h.of].base + h.offset]
              /\ UNCHANGED opened
         ELSE \E b \in Places(h.of) :
                /\ opened' = [opened EXCEPT ![h.of] = b]
                /\ imports' = [imports EXCEPT ![h.of] = [base |-> b, bytes |-> h.bytes, refs |-> 1]]
                /\ held' = [held EXCEPT ![e] = b + h.offset]
      /\ UNCHANGED <<backend, stuck>>

InRange(r, addr) == addr - r.base < r.bytes

\* The mapping an address is in: the one with the greatest base at or below
\* it, if the address is inside that one.
Covering(addr) ==
    {a \in Known : /\ imports[a].base <= addr
                   /\ \A o \in Known : imports[o].base <= addr => imports[o].base <= imports[a].base
                   /\ InRange(imports[a], addr)}

\* The region's use of a mapping ends; the last one unmaps it, and forgets it
\* even when the driver refuses.
close_ipc(addr) ==
    IF Covering(addr) = {} THEN UNCHANGED <<imports, opened, stuck>>
    ELSE \E a \in Covering(addr) :
           IF imports[a].refs > 1
           THEN /\ imports' = [imports EXCEPT ![a].refs = @ - 1]
                /\ UNCHANGED <<opened, stuck>>
           ELSE /\ imports' = [imports EXCEPT ![a] = Closed]
                /\ \/ opened' = [opened EXCEPT ![a] = 0] /\ UNCHANGED stuck
                   \/ stuck' = stuck \cup {a} /\ UNCHANGED opened

\* A withdrawal, or the peer's end, closes what an export was mapped at.
Release(e) ==
    /\ held[e] # 0
    /\ close_ipc(held[e])
    /\ held' = [held EXCEPT ![e] = 0]
    /\ UNCHANGED backend

\* An address that is in no mapping is handed to close_ipc.
Stray(addr) ==
    /\ \A a \in Allocations : opened[a] # 0 => addr \notin Cells(a, opened[a])
    /\ close_ipc(addr)
    /\ UNCHANGED <<backend, held>>

Init ==
    /\ backend \in Backends
    /\ imports = [a \in Allocations |-> Closed]
    /\ opened = [a \in Allocations |-> 0]
    /\ stuck = {}
    /\ held = [e \in Exports |-> 0]

Next ==
    \/ \E e \in Exports : import_ipc(e) \/ Release(e)
    \/ \E addr \in 1..Space : Stray(addr)

-----------------------------------------------------------------------------
(* Properties.                                                             *)

\* A region that is in use stays mapped, at the bytes its owner exported,
\* whichever of the regions sharing its allocation are closed, in whatever
\* order, and whatever stray addresses are closed (refs in import_ipc and
\* close_ipc, and the range check of close_ipc).
SpanStaysMapped ==
    \A e \in Exports :
      held[e] # 0 =>
        /\ opened[e.of] # 0
        /\ held[e] = opened[e.of] + e.offset
        /\ held[e]..(held[e] + e.length - 1) \subseteq Cells(e.of, opened[e.of])

\* A mapping that no region uses is not kept, unless the driver refused to
\* give it up: the last close_ipc unmaps it.
NothingStaysOpen ==
    \A a \in Allocations \ stuck : opened[a] # 0 => \E e \in Exports : e.of = a /\ held[e] # 0

\* A device allocation is mapped exactly while a region in it is in use.
MappedWhileUsed == SpanStaysMapped /\ NothingStaysOpen
=============================================================================
