------------------------------ MODULE MCMemory ------------------------------
(* The registrations of an engine, its peers and what it imports from them,   *)
(* the bytes they exchange, the paths between them, the adapters, the device   *)
(* memory they map and the handoffs of what they write, for TLC.               *)
(* None of these machines shares state with another: a behaviour is one of     *)
(* one of them, and the others stay in an initial state.                       *)
EXTENDS Regions, Sequences, TLC

CONSTANTS
    h1, h2, h3,   \* the handles of Regions
    Parts         \* what is run

CONSTANTS MaxRuns, MaxPeers, Pids, ReusesPids, Bare
CONSTANTS IdBytes, KeyBytes
CONSTANTS ChunkBytes, Width, LocalLength, RemoteLength
CONSTANTS MaxAdapters
CONSTANTS Space, Backends
CONSTANTS Pieces, Depths, Capacity

Left == {1}
Whole == {1, 2}
Asks == h1 :> [range |-> Whole, access |-> {"RemoteRead", "LocalWrite"}]
     @@ h2 :> [range |-> Left, access |-> {"RemoteRead"}]
     @@ h3 :> [range |-> Whole, access |-> {"RemoteRead", "RemoteWrite"}]

\* Names, dialling information and keys with zeros and empty ones among them.
Envelopes ==
    {<<[name |-> <<1, 2>>, meta |-> <<5>>]>>,
     <<[name |-> <<1>>, meta |-> <<>>], [name |-> <<>>, meta |-> <<2, 0, 3>>]>>}
KeyTables ==
    {<<>>, <<[name |-> <<1>>, key |-> <<1, 0>>]>>,
     <<[name |-> <<1, 2>>, key |-> <<0, 0>>], [name |-> <<>>, key |-> <<9, 9>>]>>}

Names == {"local", "ipc", "rdma", "rdma#1", "ucx"}
Setups == {<<"local", "ipc", "rdma", "rdma#1">>, <<"rdma#1", "ipc", "rdma">>, <<"ucx", "ipc">>}
Offers == {{}, {"ipc", "rdma"}, Names \ {"ucx"}, {"rdma#1"}, {"ipc", "ucx"}}
Weight == [n \in Names |-> IF n = "rdma" THEN 2 ELSE IF n = "ucx" THEN 0 ELSE 1]
MaxSegment == [n \in Names |-> IF n = "rdma#1" THEN 2 ELSE 0]
Segment(o, l, r, m) == [offset |-> o, length |-> l, remoteOffset |-> r, remoteLength |-> m]
Transfers ==
    {<<Segment(o, l, r, l)>> : o \in {0, 7}, l \in {0, 1, 7, 10, 14}, r \in {0, 4}}
    \cup {<<Segment(0, 3, 1, 3), Segment(3, 4, 4, 4)>>, <<Segment(0, 2, 0, 3)>>, <<>>}
\* A region every transport has keys for, one without named keys, and one
\* that the second adapter did not take.
Descriptors ==
    {[keys |-> Names, mine |-> Names, access |-> {"read", "write"}],
     [keys |-> {}, mine |-> Names, access |-> {"read"}],
     [keys |-> {"rdma"}, mine |-> Names, access |-> {"read", "write"}],
     [keys |-> Names, mine |-> Names \ {"rdma#1"}, access |-> {"write"}]}

Adapter(a, b, d, n) == [active |-> a, bus |-> b, device |-> d, numa |-> n]
Adapters ==
    {Adapter(TRUE, 1, 1, 0), Adapter(TRUE, 1, 2, 0), Adapter(TRUE, 2, 1, 0),
     Adapter(TRUE, 2, 1, 1), Adapter(TRUE, 0, 0, -1), Adapter(FALSE, 1, 1, 0)}
Devices == {[bus |-> 1, device |-> 1, numa |-> 0], [bus |-> 0, device |-> 0, numa |-> 1]}

\* Two allocations; two regions share the first, one overruns it.
Size == [a |-> 2, b |-> 1]
Export(a, o, l) == [of |-> a, offset |-> o, length |-> l]
Exports == {Export("a", 0, 2), Export("a", 0, 1), Export("a", 1, 1), Export("a", 1, 2), Export("b", 0, 1)}

\* A write of ranges of two regions, and a write of one range.
Target(r, o, l) == [region |-> r, offset |-> o, length |-> l]
Writes == <<<<Target("x", 0, 2), Target("y", 1, 1)>>, <<Target("x", 1, 1)>>>>
Held == [x |-> 2, y |-> 2]

VARIABLES
    part,
    pids, region, blobs, peers, remotes, notices, heard,
    message, wire, change,
    setup, theirs, offered, peer, remote, plan,
    nics, device, nic,
    backend, imports, opened, stuck, held,
    depth, flying, ended, landed, channel, holding, ready, taken, stats

P == INSTANCE Peers
C == INSTANCE Codec
W == INSTANCE Paths
T == INSTANCE Topology
M == INSTANCE IpcMappings
H == INSTANCE Handoffs

peerVars == <<pids, region, blobs, peers, remotes, notices, heard>>
codecVars == <<message, wire, change>>
pathVars == <<setup, theirs, offered, peer, remote, plan>>
topologyVars == <<nics, device, nic>>
mappingVars == <<backend, imports, opened, stuck, held>>
handoffVars == <<depth, flying, ended, landed, channel, holding, ready, taken, stats>>
others == <<peerVars, codecVars, pathVars, topologyVars, mappingVars, handoffVars>>
all == <<part, vars, others>>

\* What one part chooses at the start is open only when that part is run.
Chosen(p, x, set) == part # p => x = CHOOSE y \in set : TRUE

MCInit ==
    /\ part \in Parts
    /\ Init /\ P!Init /\ C!Init /\ W!Init /\ T!Init /\ M!Init /\ H!Init
    /\ Chosen("regions", entries, CacheSizes)
    /\ Chosen("peers", pids, {<<p>> : p \in Pids})
    /\ Chosen("codec", message, C!Messages)
    /\ Chosen("paths", setup, Setups) /\ Chosen("paths", theirs, W!Identities)
    /\ Chosen("paths", offered, Offers)
    /\ Chosen("topology", device, Devices)
    /\ Chosen("mappings", backend, Backends)
    /\ Chosen("handoffs", depth, Depths)

Only(p) ==
    /\ part = p
    /\ UNCHANGED part
    /\ p # "regions" => UNCHANGED vars
    /\ p # "peers" => UNCHANGED peerVars
    /\ p # "codec" => UNCHANGED codecVars
    /\ p # "paths" => UNCHANGED pathVars
    /\ p # "topology" => UNCHANGED topologyVars
    /\ p # "mappings" => UNCHANGED mappingVars
    /\ p # "handoffs" => UNCHANGED handoffVars

MCNext ==
    \/ Only("regions") /\ Next
    \/ Only("peers") /\ P!Next
    \/ Only("codec") /\ C!Next
    \/ Only("paths") /\ W!Next
    \/ Only("topology") /\ T!Next
    \/ Only("mappings") /\ M!Next
    \/ Only("handoffs") /\ H!Next

MCSpec == MCInit /\ [][MCNext]_all
\* While another part is run, Regions has no step that fairness asks for.
MCFairSpec == MCSpec /\ Fairness

\* The properties of the parts (see their modules).

\* What an identified peer's import says was exported by that peer's run.
ImportsAreThePeersOwn == P!ImportsAreThePeersOwn

\* A notice invalidates the imports of its region, all of them and no others.
NoticesAreExact == P!NoticesAreExact

\* What arrives as it was sent is read as it was sent, and nothing else is.
ReadExactly == C!ReadExactly

\* Peers are reached by transports that can reach them.
PathIsUsable == W!PathIsUsable

\* A transfer moves the bytes it names, once, over lanes that may carry them.
MovedAsAsked == W!MovedAsAsked

\* The lanes of a transfer finish within a chunk of each other.
LanesFinishTogether == W!LanesFinishTogether

\* The adapter for a device is the nearest that is up.
NearestIsChosen == T!NearestIsChosen

\* A device allocation is mapped exactly while a region in it is in use.
MappedWhileUsed == M!MappedWhileUsed

\* A ready event names bytes that are in place.
ReadyMeansLanded == H!ReadyMeansLanded

\* A handoff is lost only where it is counted, and only at the end.
NoSilentLoss == H!NoSilentLoss
=============================================================================
