------------------------------- MODULE Peers -------------------------------
(***************************************************************************)
(* Peers and the regions imported from them (src/core/engine_impl.cpp).    *)
(* One engine adds, removes and imports from a peer process that registers *)
(* a region, exports it, takes it back with a notice to whoever is         *)
(* connected, and restarts.  Every run of that process numbers its regions *)
(* from 1, so what tells two runs apart is the identity in their metadata  *)
(* and descriptors.                                                        *)
(***************************************************************************)
EXTENDS Integers, Sequences, FiniteSets

CONSTANTS
    MaxRuns,     \* runs of the peer process
    MaxPeers,    \* how often add_peer is called
    Pids,        \* process ids the operating system gives out
    ReusesPids,  \* whether a new run may get the process id of an old one
    Bare         \* whether a peer may be added from a bare provider blob

VARIABLES
    pids,      \* the process id of each run so far
    region,    \* what each run did with its region: "none", "live" or "gone"
    blobs,     \* runs whose descriptor has been exported
    peers,     \* peers_ and those taken out of it, in the order they were added
    remotes,   \* remotes_: for each peer, its import of the region
    notices,   \* invalidations on their way: the connection and the run
    heard      \* runs whose invalidation has been handled

vars == <<pids, region, blobs, peers, remotes, notices, heard>>

Runs == DOMAIN pids
Current == Cardinality(Runs)
PeerIds == DOMAIN peers
Unidentified == 0

\* What metadata and descriptors carry: the process, of one host and with one
\* engine each.
identity(run) == pids[run]

NoImport == [run |-> 0, origin |-> Unidentified, valid |-> FALSE, late |-> FALSE]

Init ==
    /\ \E pid \in Pids : pids = <<pid>>
    /\ region = <<"none">>
    /\ blobs = {} /\ peers = <<>> /\ remotes = <<>> /\ notices = {} /\ heard = {}

-----------------------------------------------------------------------------
(* The peer process.                                                       *)

Register ==
    /\ region[Current] = "none"
    /\ region' = [region EXCEPT ![Current] = "live"]
    /\ UNCHANGED <<pids, blobs, peers, remotes, notices, heard>>

export_descriptor ==
    /\ region[Current] = "live"
    /\ blobs' = blobs \cup {Current}
    /\ UNCHANGED <<pids, region, peers, remotes, notices, heard>>

\* deregister_memory: the notice goes to every connection of this run, and a
\* full one may refuse it.
Connections == {p \in PeerIds : peers[p].connected /\ peers[p].run = Current}

deregister_memory ==
    /\ region[Current] = "live"
    /\ region' = [region EXCEPT ![Current] = "gone"]
    /\ \E took \in SUBSET Connections :
         notices' = notices \cup {[conn |-> p, run |-> Current] : p \in took}
    /\ UNCHANGED <<pids, blobs, peers, remotes, heard>>

\* The process ends and is started again.  What it had sent can still be read.
Restart ==
    /\ Current < MaxRuns
    /\ \E pid \in Pids :
         /\ ReusesPids \/ \A r \in Runs : pids[r] # pid
         /\ pids' = Append(pids, pid)
    /\ region' = Append([region EXCEPT ![Current] = "gone"], "none")
    /\ UNCHANGED <<blobs, peers, remotes, notices, heard>>

-----------------------------------------------------------------------------
(* This engine.                                                            *)

\* add_peer dials what the metadata says, whoever is there already.
Join(who) ==
    /\ Len(peers) < MaxPeers
    /\ peers' = Append(peers, [run |-> Current, identity |-> who, connected |-> TRUE])
    /\ remotes' = Append(remotes, NoImport)
    /\ UNCHANGED <<pids, region, blobs, notices, heard>>

add_peer == Join(identity(Current))
AddBare == Bare /\ Join(Unidentified)

\* remove_peer, or the departure of a run being noticed: what was imported
\* stays in remotes_.
remove_peer(p) ==
    /\ peers[p].connected
    /\ peers' = [peers EXCEPT ![p].connected = FALSE]
    /\ UNCHANGED <<pids, region, blobs, remotes, notices, heard>>

\* Slip: whose descriptor it is is not asked.
AnyOrigin(p, run) == TRUE
OwnOrigin(p, run) == peers[p].identity \in {Unidentified, identity(run)}

\* import_region: a descriptor of this peer's, which replaces an earlier one.
import_region(p, run) ==
    /\ OwnOrigin(p, run)
    /\ remotes' = [remotes EXCEPT ![p] = [run |-> run, origin |-> identity(run),
                                          valid |-> TRUE, late |-> run \in heard]]
    /\ UNCHANGED <<pids, region, blobs, peers, notices, heard>>

\* Slip: only the import of the peer the notice came from.
SamePeer(p, run) == \E n \in notices : n.run = run /\ n.conn = p
Named(p, run) == remotes[p].run # 0 /\ remotes[p].origin = identity(run)

\* progress reads a notice, whichever connection it came in on.
RegionInvalidate(n) ==
    /\ notices' = notices \ {n}
    /\ heard' = heard \cup {n.run}
    /\ remotes' = [p \in PeerIds |->
                     [remotes[p] EXCEPT !.valid = @ /\ ~ Named(p, n.run)]]
    /\ UNCHANGED <<pids, region, blobs, peers>>

Next ==
    \/ Register \/ export_descriptor \/ deregister_memory \/ Restart
    \/ add_peer \/ AddBare
    \/ \E p \in PeerIds : remove_peer(p) \/ \E run \in blobs : import_region(p, run)
    \/ \E n \in notices : RegionInvalidate(n)

Spec == Init /\ [][Next]_vars

-----------------------------------------------------------------------------
(* Properties.                                                             *)

\* "A peer that restarted is a different engine and its predecessor's
\* descriptors are refused here": what is imported through an identified peer
\* was exported by the run that the peer was added for.
ImportsAreThePeersOwn ==
    \A p \in PeerIds :
        peers[p].identity # Unidentified /\ remotes[p].run # 0
            => remotes[p].run = peers[p].run

\* An import is invalid only once the run that exported it has taken the
\* region back: a notice for another run's region of the same number does
\* not stop a healthy path.
OnlyTheGoneAreInvalid ==
    \A p \in PeerIds :
        remotes[p].run # 0 /\ ~ remotes[p].valid => region[remotes[p].run] = "gone"

\* Once a notice has been handled, the only valid imports of its region are
\* those made after it, through whichever peer they were made.
NoticeReachesEveryImport ==
    \A p \in PeerIds :
        remotes[p].run \in heard /\ remotes[p].valid => remotes[p].late

\* A notice stops the imports of the region that went, all of them and no
\* others, although numbers are used again after a restart.
NoticesAreExact == OnlyTheGoneAreInvalid /\ NoticeReachesEveryImport
=============================================================================
