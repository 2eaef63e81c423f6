----------------------------- MODULE MCControl -----------------------------
(* Small instances of the two halves of a control channel for TLC: a           *)
(* behaviour is one of the sending half or one of the receiving half.          *)
EXTENDS ControlOutbox, TLC

CONSTANTS
    a, b, c, d,           \* messages
    Halves,               \* what is run
    HeaderBytes, MaxItems

\* Messages of one to four bytes: with a limit of three the longest is over
\* the bound on its own, and two of the others may or may not fit together.
Sizes == (a :> 1) @@ (b :> 2) @@ (c :> 2) @@ (d :> 4)

\* One connection with two messages and one with a single longer one, whose
\* peer may speak another version.
Conns == <<"c", "d">>
Outgoing == [c |-> <<3, 2>>, d |-> <<3>>]
Foreigners == {{}, {"d"}}

VARIABLES half, foreign, ahead, arrived, finished, rx, alive, handed

R == INSTANCE ControlStream
streamVars == <<foreign, ahead, arrived, finished, rx, alive, handed>>

MCInit == half \in Halves /\ Init /\ R!Init /\ (half = "sending" => foreign = {})
MCNext ==
    \/ half = "sending" /\ Next /\ UNCHANGED <<half, streamVars>>
    \/ half = "receiving" /\ R!Next /\ UNCHANGED <<half, vars>>

\* A half that is not run has no step that fairness asks for.
MCFairSpec == MCInit /\ [][MCNext]_<<half, vars, streamVars>> /\ Fairness /\ R!Fairness

\* The properties of the receiving half (see ControlStream).
\* Control messages come out of the stream once, in order and whole.
HandedInOrder == R!HandedInOrder
\* What came whole before a peer's end is handed out.
LastWordsAreHeard == R!LastWordsAreHeard
=============================================================================
