----------------------------- MODULE MCTransports ----------------------------
(* The same-host, same-process and UCX transports and the congestion          *)
(* controllers for TLC.  They do not interact: a behaviour is one of one of    *)
(* them, and the others stay in their initial states.                          *)
EXTENDS IpcProvider

CONSTANTS
    a, b,       \* the processes of IpcProvider
    Parts       \* what is run: "ipc", "ucx", "local", "congestion"

CONSTANTS Ops, Objects, MaxEvents, Copiers, Withdrawers, MaxMessages
CONSTANTS Sizes, Window, Floor, MinRate, MaxRate, StartRate, Increase, TLow, THigh,
          Delays, NoDelay, MaxRounds

OneEach == [p \in Procs |-> {1}]
TwoAndOne == [p \in Procs |-> IF p = a THEN {1, 2} ELSE {1}]

KindOf == <<"put", "get", "put">>
EpOf == <<"e1", "e1", "e2">>
FourSizes == <<1, 2, 14, 2>>

VARIABLES
    part,
    posted, object, doneFlag, landed, queue, told, mapped,
    entry, ownKey, copier, withdrawer, freed, finished, reported, otherSide, inbox, sentTo,
    kind, sent, outstanding, used, rate, minDelay, sampled, since, wait

U == INSTANCE UcxProvider
L == INSTANCE LocalProvider
C == INSTANCE Congestion

ucxVars == <<posted, object, doneFlag, landed, queue, told, mapped>>
localVars == <<entry, ownKey, copier, withdrawer, freed, finished, reported, otherSide,
               inbox, sentTo>>
congestionVars == <<kind, sent, outstanding, used, rate, minDelay, sampled, since, wait>>
all == <<part, vars, ucxVars, localVars, congestionVars>>

\* Choices that matter to one part only are left to the part that is run.
MCInit ==
    /\ part \in Parts
    /\ Init /\ U!Init /\ L!Init /\ C!Init
    /\ part # "local" => otherSide = "none"
    /\ part # "congestion" => kind = "off"

MCNext ==
    \/ part = "ipc" /\ Next /\ UNCHANGED <<part, ucxVars, localVars, congestionVars>>
    \/ part = "ucx" /\ U!Next /\ UNCHANGED <<part, vars, localVars, congestionVars>>
    \/ part = "local" /\ L!Next /\ UNCHANGED <<part, vars, ucxVars, congestionVars>>
    \/ part = "congestion" /\ C!Next /\ UNCHANGED <<part, vars, ucxVars, localVars>>

MCSpec == MCInit /\ [][MCNext]_all
MCFairSpec ==
    /\ MCSpec
    /\ Fairness
    /\ WF_all(part = "congestion" /\ C!Tick /\ UNCHANGED <<part, vars, ucxVars, localVars>>)
    /\ WF_all(part = "congestion" /\ C!Complete /\ UNCHANGED <<part, vars, ucxVars, localVars>>)
    /\ WF_all(part = "congestion" /\ C!Post /\ UNCHANGED <<part, vars, ucxVars, localVars>>)

\* The properties of the parts (see their modules).

\* A UCX operation is reported once, as a success when its bytes are in place.
ReportedOnceLanded == U!ReportedOnceLanded

\* No same-process copy is under way in memory its owner was told it may free.
NoCopyIntoFreed == L!NoCopyIntoFreed

\* A controller holds operations back and lets every one of them go: the bytes
\* in flight stay within the window, but for an operation on its own, and
\* everything is sent (allow, on_post, on_complete).
SentWithinTheWindow ==
    []C!InFlightIsBounded /\ (part = "congestion" => C!EverythingIsSent)
=============================================================================
