---------------------------- MODULE IpcProofs -----------------------------
(***************************************************************************)
(* Proofs about IpcProvider, for any keys, channels and numbers of         *)
(* connections: nobody keeps mapped what its owner believes unmapped, and  *)
(* the two ends' views of each other's regions agree.                      *)
(***************************************************************************)
EXTENDS IpcProvider, SequenceTheorems, FiniteSetTheorems, TLAPS

-----------------------------------------------------------------------------
(* Channels.                                                               *)

\* A frame is in a channel; none of g is behind an f; a g is behind every f.
Has(s, f)          == \E i \in DOMAIN s : s[i] = f
NoneAfter(s, f, g) == \A i, j \in DOMAIN s : i < j /\ s[i] = f => s[j] # g
Followed(s, f, g)  == \A i \in DOMAIN s : s[i] = f => \E j \in DOMAIN s : i < j /\ s[j] = g

\* Frames are sent at the end of a channel (send_frame).
LEMMA Posting ==
    ASSUME NEW S, NEW s \in Seq(S), NEW x \in S
    PROVE  /\ Append(s, x) \in Seq(S) /\ Len(Append(s, x)) = Len(s) + 1
           /\ \A f : Has(Append(s, x), f) <=> Has(s, f) \/ f = x
           /\ \A f, g : NoneAfter(s, f, g) /\ (g # x \/ ~Has(s, f))
                           => NoneAfter(Append(s, x), f, g)
           /\ \A f, g : f # x /\ (Followed(s, f, g) \/ g = x)
                           => Followed(Append(s, x), f, g)
<1>1. /\ Append(s, x) \in Seq(S) /\ Len(Append(s, x)) = Len(s) + 1
      /\ DOMAIN Append(s, x) = 1 .. (Len(s) + 1) /\ DOMAIN s = 1 .. Len(s) /\ Len(s) \in Nat
      /\ \A i \in 1 .. Len(s) : Append(s, x)[i] = s[i]
      /\ Append(s, x)[Len(s) + 1] = x
  BY AppendProperties, LenProperties
<1> DEFINE t == Append(s, x)
<1> HIDE DEF t
<1>2. \A f : Has(t, f) <=> Has(s, f) \/ f = x
  BY SMTT(60), <1>1 DEF Has, t
<1>3. ASSUME NEW f, NEW g, NoneAfter(s, f, g), g # x \/ ~Has(s, f)
      PROVE  NoneAfter(t, f, g)
  BY SMTT(60), <1>1, <1>3 DEF NoneAfter, Has, t
<1>4. ASSUME NEW f, NEW g, f # x, Followed(s, f, g) \/ g = x
      PROVE  Followed(t, f, g)
  BY SMTT(60), <1>1, <1>4 DEF Followed, t
<1> QED
  BY ZenonT(60), <1>1, <1>2, <1>3, <1>4 DEF t

\* They are read from its front (pump).
LEMMA Taking ==
    ASSUME NEW S, NEW s \in Seq(S), s # <<>>
    PROVE  /\ Tail(s) \in Seq(S) /\ Len(Tail(s)) = Len(s) - 1 /\ Head(s) \in S
           /\ \A f : Has(s, f) <=> f = Head(s) \/ Has(Tail(s), f)
           /\ \A f, g : NoneAfter(s, f, g) =>
                 NoneAfter(Tail(s), f, g) /\ (f = Head(s) => ~Has(Tail(s), g))
           /\ \A f, g : Followed(s, f, g) =>
                 Followed(Tail(s), f, g) /\ (f = Head(s) => Has(Tail(s), g))
<1>1. /\ Tail(s) \in Seq(S) /\ Len(Tail(s)) = Len(s) - 1 /\ Head(s) \in S
      /\ DOMAIN Tail(s) = 1 .. (Len(s) - 1) /\ DOMAIN s = 1 .. Len(s)
      /\ Len(s) \in Nat \ {0} /\ Head(s) = s[1]
      /\ \A i \in 1 .. (Len(s) - 1) : Tail(s)[i] = s[i + 1]
  BY HeadTailProperties, EmptySeq, LenProperties
<1> DEFINE t == Tail(s)
<1>2. \A i \in 2 .. Len(s) : i - 1 \in DOMAIN t /\ t[i - 1] = s[i]
  BY SMTT(60), <1>1
<1> HIDE DEF t
<1>3. ASSUME NEW f PROVE Has(s, f) <=> f = Head(s) \/ Has(t, f)
  <2>1. ASSUME NEW i \in DOMAIN s, s[i] = f PROVE f = Head(s) \/ Has(t, f)
    <3>1. i = 1 \/ i \in 2 .. Len(s)
      BY SMTT(60), <1>1
    <3> QED
      BY ZenonT(60), <1>1, <1>2, <2>1, <3>1 DEF Has
  <2>2. ASSUME NEW i \in DOMAIN t, t[i] = f PROVE Has(s, f)
    <3>1. i + 1 \in DOMAIN s /\ s[i + 1] = f
      BY SMTT(60), <1>1, <2>2 DEF t
    <3> QED
      BY ZenonT(60), <3>1 DEF Has
  <2>3. Has(s, Head(s))
    BY SMTT(60), <1>1 DEF Has
  <2> QED
    BY ZenonT(60), <2>1, <2>2, <2>3 DEF Has
<1>4. ASSUME NEW f, NEW g, NoneAfter(s, f, g)
      PROVE  NoneAfter(t, f, g) /\ (f = Head(s) => ~Has(t, g))
  BY SMTT(60), <1>1, <1>4 DEF NoneAfter, Has, t
<1>5. ASSUME NEW f, NEW g, Followed(s, f, g)
      PROVE  Followed(t, f, g) /\ (f = Head(s) => Has(t, g))
  <2>1. ASSUME NEW i \in DOMAIN t, t[i] = f PROVE \E j \in DOMAIN t : i < j /\ t[j] = g
    <3>1. i + 1 \in DOMAIN s /\ s[i + 1] = f
      BY SMTT(60), <1>1, <2>1 DEF t
    <3>2. PICK j \in DOMAIN s : i + 1 < j /\ s[j] = g
      BY ZenonT(60), <1>5, <3>1 DEF Followed
    <3>3. i \in Nat /\ j \in 2 .. Len(s) /\ i < j - 1
      BY SMTT(60), <1>1, <2>1, <3>2 DEF t
    <3> QED
      BY ZenonT(60), <1>2, <3>2, <3>3
  <2>2. ASSUME f = Head(s) PROVE Has(t, g)
    <3>1. PICK j \in DOMAIN s : 1 < j /\ s[j] = g
      BY SMTT(60), <1>1, <1>5, <2>2 DEF Followed
    <3> QED
      BY SMTT(60), <1>1, <1>2, <3>1 DEF Has
  <2> QED
    BY ZenonT(60), <2>1, <2>2 DEF Followed
<1> QED
  BY ZenonT(60), <1>1, <1>3, <1>4, <1>5 DEF t

\* Closing a socket loses the frames that were not sent.
LEMMA Cutting ==
    ASSUME NEW S, NEW s \in Seq(S), NEW n \in 0 .. Len(s)
    PROVE  /\ SubSeq(s, 1, n) \in Seq(S) /\ Len(SubSeq(s, 1, n)) <= Len(s)
           /\ \A f : Has(SubSeq(s, 1, n), f) => Has(s, f)
           /\ \A f, g : NoneAfter(s, f, g) => NoneAfter(SubSeq(s, 1, n), f, g)
<1> DEFINE t == SubSeq(s, 1, n)
<1>0. \A i \in 1 .. n : s[i] \in S
  BY ElementOfSeq
<1>1. /\ t \in Seq(S) /\ Len(t) = n /\ DOMAIN t = 1 .. n /\ DOMAIN s = 1 .. Len(s)
      /\ Len(s) \in Nat /\ \A i \in 1 .. n : t[i] = s[i]
  BY <1>0, SubSeqProperties, LenProperties
<1> HIDE DEF t
<1>2. \A f : Has(t, f) => Has(s, f)
  BY SMTT(60), <1>1 DEF Has
<1>3. ASSUME NEW f, NEW g, NoneAfter(s, f, g) PROVE NoneAfter(t, f, g)
  BY SMTT(60), <1>1, <1>3 DEF NoneAfter
<1>4. Len(t) <= Len(s)
  BY SMTT(60), <1>1
<1> QED
  BY ZenonT(60), <1>1, <1>2, <1>3, <1>4 DEF t

-----------------------------------------------------------------------------
(* The invariant.                                                          *)

Frames   == [type : {"publish", "withdraw", "ack"}, key : Keys] \cup {Frame("control", 0)}
Imports  == {"no", "known", "mapped"}
Acks     == {"none", "waiting", "acked"}
Releases == {"no", "alone", "refused", "acked", "timeout"}

ChannelTypes ==
    out \in [Procs -> Seq(Frames)] /\ \A p \in Procs : Len(out[p]) <= Capacity
RegionTypes ==
    /\ nextKey \in [Procs -> Nat \ {0}]
    /\ DOMAIN exported = Procs
    /\ \A p \in Procs : exported[p] \subseteq KeysOf[p] /\ exported[p] \subseteq 1..(nextKey[p] - 1)
    /\ imported \in [Procs -> [Keys -> Imports]]
    /\ acks \in [Procs -> [Keys -> Acks]]
    /\ released \in [Procs -> [Keys -> Releases]]
    /\ want \in [Procs -> Keys \cup {0}]
TypeInv ==
    /\ ChannelTypes /\ RegionTypes
    /\ dials \in 0..MaxDials /\ dialler \in Procs \cup {"none"}
    /\ sock \subseteq Procs /\ gone \subseteq Procs

\* A process without a socket knows nothing, nor does one that is dialling.
ClosedKnowsNothing ==
    /\ \A p \in Procs \ sock : \A k \in Keys : imported[p][k] = "no"
    /\ dialler \in Procs =>
          /\ \A k \in Keys : imported[dialler][k] = "no"
          /\ Peer(dialler) \notin sock /\ out[Peer(dialler)] = <<>>

\* A key that its owner has withdrawn, and one that its peer has let go of as
\* well, with no publication of it under way.
Publishing(p, k)  == Has(out[p], Frame("publish", k))
Withdrawing(p, k) == Has(out[p], Frame("withdraw", k))
Answering(p, k)   == Has(out[Peer(p)], Frame("ack", k))
Retired(p, k) == k < nextKey[p] /\ k \notin exported[p]
Cleared(p, k) == Retired(p, k) /\ imported[Peer(p)][k] = "no" /\ ~Publishing(p, k)

\* A withdrawal follows every publication of its key, and an acknowledgement
\* follows the withdrawal.
InTurn(p, k) ==
    /\ Publishing(p, k) => k < nextKey[p]
    /\ Withdrawing(p, k) => Retired(p, k)
    /\ NoneAfter(out[p], Frame("withdraw", k), Frame("publish", k))
    /\ Answering(p, k) \/ acks[p][k] = "acked" \/ released[p][k] = "acked" => Cleared(p, k)

\* A region is withdrawn once.
WithdrawnOnce(p, k) ==
    /\ ~Retired(p, k) => acks[p][k] = "none" /\ released[p][k] = "no"
    /\ acks[p][k] # "none" => released[p][k] = "no"

\* What the peer knows of a process that has it for its peer, or is dialling it,
\* is what that process exports, up to frames on their way.
Up(p) == p \in sock \ gone /\ (Peer(p) \in sock \/ dialler = p)
Seen(p, k) ==
    Up(p) =>
        /\ k \in exported[p] => imported[Peer(p)][k] # "no" \/ Publishing(p, k)
        /\ k \notin exported[p] /\ released[p][k] # "refused" =>
             /\ imported[Peer(p)][k] = "no" \/ Withdrawing(p, k)
             /\ Followed(out[p], Frame("publish", k), Frame("withdraw", k))

KeyInv(p, k) == InTurn(p, k) /\ WithdrawnOnce(p, k) /\ Seen(p, k)
KeysInv      == \A p \in Procs : \A k \in KeysOf[p] : KeyInv(p, k)
IpcInv       == TypeInv /\ GoneHoldsNothing /\ ClosedKnowsNothing /\ KeysInv

\* There are two processes, each the other's peer.
LEMMA PeerFacts ==
    \A p \in Procs : /\ Peer(p) \in Procs /\ Peer(p) # p /\ Peer(Peer(p)) = p
                     /\ \A q \in Procs : q # p => q = Peer(p)
<1>1. PICK a, b \in Procs : a # b /\ Procs = {a, b}
  BY ProcsAssumption
<1>2. Peer(a) = b /\ Peer(b) = a
  BY ZenonT(60), <1>1 DEF Peer
<1> QED
  BY ZenonT(60), <1>1, <1>2

\* Frames differ when their types or their keys do.
LEMMA FrameFacts ==
    /\ \A t, u, k, j : Frame(t, k) = Frame(u, j) => t = u /\ k = j
    /\ \A t, k : Frame(t, k).type = t /\ Frame(t, k).key = k
    /\ \A k \in Keys : /\ Frame("publish", k) \in Frames /\ Frame("withdraw", k) \in Frames
                       /\ Frame("ack", k) \in Frames
    /\ Frame("control", 0) \in Frames
    /\ \A f \in Frames : /\ f = Frame(f.type, f.key)
                         /\ f.type # "control" => f.key \in Keys
                         /\ f.type \in {"publish", "withdraw", "ack", "control"}
  BY SMTT(60) DEF Frame, Frames

LEMMA KeyFacts ==
    /\ \A p \in Procs : KeysOf[p] \subseteq Keys
    /\ Keys \subseteq Nat \ {0}
  BY KeysAssumption DEF Keys

\* What is published when a connection is made: every exported region, each in
\* a frame of its own (publish_all).
LEMMA PublishingAll ==
    ASSUME TypeInv, NEW p \in Procs, NEW all \in publish_all(p)
    PROVE  /\ all \in Seq(Frames) /\ Len(all) <= Capacity
           /\ \A f : Has(all, f) <=> \E k \in exported[p] : f = Frame("publish", k)
<1>1. PICK s \in InOrder(exported[p]) : all = [i \in DOMAIN s |-> Frame("publish", s[i])]
  BY ZenonT(60) DEF publish_all
<1> DEFINE E == exported[p]
           n == Cardinality(E)
<1>2. /\ IsFiniteSet(E) /\ n \in Nat /\ n <= Capacity /\ E \subseteq Keys /\ E \subseteq Nat
  <2>1. E \subseteq KeysOf[p] /\ IsFiniteSet(KeysOf[p])
    BY ZenonT(60), KeysAssumption DEF TypeInv, RegionTypes
  <2>2. IsFiniteSet(E) /\ n <= Cardinality(KeysOf[p])
    BY ZenonT(60), <2>1, FS_Subset
  <2>3. n \in Nat /\ Cardinality(KeysOf[p]) \in Nat
    BY ZenonT(60), <2>1, <2>2, FS_CardinalityType
  <2>4. n <= Capacity
    BY SMTT(60), <2>2, <2>3, CapacityAssumption
  <2>5. E \subseteq Keys /\ E \subseteq Nat
    BY ZenonT(60), <2>1, KeyFacts
  <2> QED
    BY ZenonT(60), <2>2, <2>3, <2>4, <2>5
<1>3. /\ s \in [1 .. n -> E] /\ DOMAIN s = 1 .. n
      /\ \A i, j \in DOMAIN s : i < j => s[i] < s[j]
  BY ZenonT(60), <1>1 DEF InOrder
<1> HIDE DEF E, n
<1>4. s \in Injection(1 .. n, E)
  <2>1. ASSUME NEW i \in 1 .. n, NEW j \in 1 .. n, s[i] = s[j] PROVE i = j
    <3>1. s[i] \in Nat /\ s[j] \in Nat
      BY ZenonT(60), <1>2, <1>3
    <3> QED
      BY SMTT(60), <1>2, <1>3, <2>1, <3>1
  <2> QED
    BY ZenonT(60), <1>3, <2>1 DEF Injection, IsInjective
<1>5. s \in Surjection(1 .. n, E)
  <2>1. Cardinality(1 .. n) = n
    BY SMTT(60), <1>2, FS_Interval
  <2> QED
    BY ZenonT(60), <1>2, <1>4, <2>1, FS_Injection DEF n
<1>6. \A k \in E : \E i \in 1 .. n : s[i] = k
  BY ZenonT(60), <1>5 DEF Surjection
<1>7. all \in [1 .. n -> Frames] /\ DOMAIN all = 1 .. n
  BY ZenonT(60), <1>1, <1>2, <1>3, FrameFacts
<1>8. all \in Seq(Frames) /\ Len(all) = n
  BY SMTT(60), <1>2, <1>7
<1>9. \A f : Has(all, f) <=> \E k \in E : f = Frame("publish", k)
  BY ZenonT(60), <1>1, <1>3, <1>6, <1>7 DEF Has
<1> QED
  BY ZenonT(60), <1>2, <1>8, <1>9 DEF E

\* A key stays in order when nothing of it is sent that was not there, its peer
\* knows what it knew, and what was to come still comes.
LEMMA KeyKept ==
    ASSUME NEW q \in Procs, NEW j \in KeysOf[q], KeyInv(q, j),
           j < nextKey'[q] <=> j < nextKey[q],
           j \in exported'[q] <=> j \in exported[q],
           acks'[q][j] = acks[q][j], released'[q][j] = released[q][j],
           Publishing(q, j)' => Publishing(q, j),
           Withdrawing(q, j)' => Withdrawing(q, j),
           Answering(q, j)' => Answering(q, j),
           NoneAfter(out[q], Frame("withdraw", j), Frame("publish", j))
              => NoneAfter(out'[q], Frame("withdraw", j), Frame("publish", j)),
           \/ imported'[Peer(q)][j] = "no" <=> imported[Peer(q)][j] = "no"
           \/ imported'[Peer(q)][j] = "no" /\ ~Up(q)',
           Up(q)' =>
              /\ Up(q)
              /\ Publishing(q, j) => Publishing(q, j)'
              /\ Withdrawing(q, j) => Withdrawing(q, j)'
              /\ Followed(out[q], Frame("publish", j), Frame("withdraw", j))
                    => Followed(out'[q], Frame("publish", j), Frame("withdraw", j))
    PROVE  KeyInv(q, j)'
<1>1. (Retired(q, j)' <=> Retired(q, j)) /\ (Cleared(q, j) => Cleared(q, j)')
  BY ZenonT(60) DEF Retired, Cleared
<1>2. InTurn(q, j)'
  BY ZenonT(60), <1>1 DEF KeyInv, InTurn
<1>3. WithdrawnOnce(q, j)'
  BY ZenonT(60), <1>1 DEF KeyInv, WithdrawnOnce
<1>4. Seen(q, j)'
  BY ZenonT(60) DEF KeyInv, Seen
<1> QED
  BY ZenonT(60), <1>2, <1>3, <1>4 DEF KeyInv

\* A frame is posted on one channel.
LEMMA PostEffect ==
    ASSUME ChannelTypes, NEW p \in Procs, NEW x \in Frames, Len(out[p]) < Capacity, Post(p, x)
    PROVE  /\ ChannelTypes'
           /\ \A q \in Procs : q # p => out'[q] = out[q]
           /\ \A f : Has(out'[p], f) <=> Has(out[p], f) \/ f = x
           /\ \A f, g : NoneAfter(out[p], f, g) /\ (g # x \/ ~Has(out[p], f))
                           => NoneAfter(out'[p], f, g)
           /\ \A f, g : f # x /\ (Followed(out[p], f, g) \/ g = x)
                           => Followed(out'[p], f, g)
<1>1. /\ out[p] \in Seq(Frames) /\ DOMAIN out = Procs
      /\ \A q \in Procs : out[q] \in Seq(Frames) /\ Len(out[q]) <= Capacity
  BY ZenonT(60) DEF ChannelTypes
<1>2. /\ out'[p] = Append(out[p], x) /\ \A q \in Procs : q # p => out'[q] = out[q]
      /\ out' = [q \in Procs |-> out'[q]]
  BY ZenonT(60), <1>1 DEF Post
<1>3. /\ out'[p] \in Seq(Frames) /\ Len(out'[p]) = Len(out[p]) + 1
      /\ \A f : Has(out'[p], f) <=> Has(out[p], f) \/ f = x
      /\ \A f, g : NoneAfter(out[p], f, g) /\ (g # x \/ ~Has(out[p], f))
                      => NoneAfter(out'[p], f, g)
      /\ \A f, g : f # x /\ (Followed(out[p], f, g) \/ g = x) => Followed(out'[p], f, g)
  <2> DEFINE s == out[p]
  <2>1. s \in Seq(Frames) /\ out'[p] = Append(s, x)
    BY ZenonT(60), <1>1, <1>2
  <2> HIDE DEF s
  <2>2. /\ Append(s, x) \in Seq(Frames) /\ Len(Append(s, x)) = Len(s) + 1
        /\ \A f : Has(Append(s, x), f) <=> Has(s, f) \/ f = x
        /\ \A f, g : NoneAfter(s, f, g) /\ (g # x \/ ~Has(s, f))
                        => NoneAfter(Append(s, x), f, g)
        /\ \A f, g : f # x /\ (Followed(s, f, g) \/ g = x) => Followed(Append(s, x), f, g)
    BY ZenonT(60), <2>1, Posting
  <2> QED
    BY ZenonT(60), <2>1, <2>2 DEF s
<1>4. Len(out'[p]) <= Capacity
  BY SMTT(60), <1>1, <1>3, CapacityAssumption, LenProperties
<1>5. ChannelTypes'
  <2>1. \A q \in Procs : out'[q] \in Seq(Frames) /\ Len(out'[q]) <= Capacity
    BY ZenonT(60), <1>1, <1>2, <1>3, <1>4
  <2> QED
    BY ZenonT(60), <1>2, <2>1 DEF ChannelTypes
<1> QED
  BY ZenonT(60), <1>2, <1>3, <1>5

\* A process closes its socket: it knows nothing any more, and some of what it
\* had queued is lost.
LEMMA LeaveEffect ==
    ASSUME IpcInv, NEW p \in Procs, p \in sock, Unmap(p), Hangup(p)
    PROVE  /\ ChannelTypes' /\ imported' \in [Procs -> [Keys -> Imports]]
           /\ sock' = sock \ {p} /\ dialler # Peer(p)
           /\ \A k \in Keys : imported'[p][k] = "no"
           /\ \A q \in Procs : q # p => out'[q] = out[q] /\ imported'[q] = imported[q]
           /\ \A f : Has(out'[p], f) => Has(out[p], f)
           /\ \A f, g : NoneAfter(out[p], f, g) => NoneAfter(out'[p], f, g)
<1>1. /\ out[p] \in Seq(Frames) /\ DOMAIN out = Procs
      /\ \A q \in Procs : out[q] \in Seq(Frames) /\ Len(out[q]) <= Capacity
      /\ imported \in [Procs -> [Keys -> Imports]]
  BY ZenonT(60) DEF IpcInv, TypeInv, RegionTypes, ChannelTypes
<1>2. PICK n \in 0..Len(out[p]) : out' = [out EXCEPT ![p] = SubSeq(@, 1, n)]
  BY ZenonT(60) DEF Hangup
<1>3. /\ out'[p] = SubSeq(out[p], 1, n) /\ \A q \in Procs : q # p => out'[q] = out[q]
      /\ out' = [q \in Procs |-> out'[q]]
  BY ZenonT(60), <1>1, <1>2
<1>4. /\ out'[p] \in Seq(Frames) /\ Len(out'[p]) <= Len(out[p])
      /\ \A f : Has(out'[p], f) => Has(out[p], f)
      /\ \A f, g : NoneAfter(out[p], f, g) => NoneAfter(out'[p], f, g)
  BY ZenonT(60), <1>1, <1>2, <1>3, Cutting
<1>5. Len(out'[p]) <= Capacity
  BY SMTT(60), <1>1, <1>4, CapacityAssumption, LenProperties
<1>6. ChannelTypes'
  <2>1. \A q \in Procs : out'[q] \in Seq(Frames) /\ Len(out'[q]) <= Capacity
    BY ZenonT(60), <1>1, <1>3, <1>4, <1>5
  <2> QED
    BY ZenonT(60), <1>3, <2>1 DEF ChannelTypes
<1>7. /\ imported' \in [Procs -> [Keys -> Imports]]
      /\ \A k \in Keys : imported'[p][k] = "no"
      /\ \A q \in Procs : q # p => imported'[q] = imported[q]
  BY SMTT(60), <1>1 DEF Unmap, Imports
<1>8. dialler # Peer(p)
  BY ZenonT(60), PeerFacts DEF IpcInv, ClosedKnowsNothing
<1> QED
  BY ZenonT(60), <1>3, <1>4, <1>6, <1>7, <1>8 DEF Hangup

-----------------------------------------------------------------------------
(* The steps.                                                              *)

LEMMA SameChannels ==
    ASSUME UNCHANGED <<out, sock, gone, dialler>>
    PROVE  \A q, j : /\ Publishing(q, j)' <=> Publishing(q, j)
                     /\ Withdrawing(q, j)' <=> Withdrawing(q, j)
                     /\ Answering(q, j)' <=> Answering(q, j)
                     /\ Up(q)' <=> Up(q)
  BY ZenonT(60) DEF Publishing, Withdrawing, Answering, Up

\* The wait of a deregistration ends, with the acknowledgement or without.
LEMMA EndingKeeps ==
    ASSUME IpcInv, NEW p \in Procs, NEW k \in KeysOf[p],
           DeregisterEnd(p, k) \/ DeregisterTimeout(p, k)
    PROVE  IpcInv'
<1>0. /\ k \in Keys /\ acks \in [Procs -> [Keys -> Acks]]
      /\ released \in [Procs -> [Keys -> Releases]]
  BY ZenonT(60), KeyFacts DEF IpcInv, TypeInv, RegionTypes
<1>1. UNCHANGED <<dials, dialler, sock, gone, nextKey, exported, imported, want, controls, out>>
  BY ZenonT(60) DEF DeregisterEnd, DeregisterTimeout
<1>2. PICK v \in {"acked", "timeout"} :
        /\ acks[p][k] \in {"waiting", "acked"} /\ (v = "acked" => acks[p][k] = "acked")
        /\ acks' = [acks EXCEPT ![p][k] = "none"]
        /\ released' = [released EXCEPT ![p][k] = v]
  BY ZenonT(60) DEF DeregisterEnd, DeregisterTimeout
<1>3. /\ acks' \in [Procs -> [Keys -> Acks]] /\ acks'[p][k] = "none"
      /\ \A q \in Procs, j \in Keys : q # p \/ j # k => acks'[q][j] = acks[q][j]
  <2>1. "none" \in Acks
    BY DEF Acks
  <2> QED
    BY SMTT(60), <1>0, <1>2, <2>1
<1>4. /\ released' \in [Procs -> [Keys -> Releases]] /\ released'[p][k] = v
      /\ \A q \in Procs, j \in Keys : q # p \/ j # k => released'[q][j] = released[q][j]
  <2>1. v \in Releases
    BY DEF Releases
  <2> QED
    BY SMTT(60), <1>0, <1>2, <2>1
<1>5. TypeInv' /\ GoneHoldsNothing' /\ ClosedKnowsNothing'
  <2>1. TypeInv'
    BY ZenonT(60), <1>1, <1>3, <1>4 DEF IpcInv, TypeInv, ChannelTypes, RegionTypes
  <2>2. GoneHoldsNothing' /\ ClosedKnowsNothing'
    BY ZenonT(60), <1>1 DEF IpcInv, GoneHoldsNothing, ClosedKnowsNothing
  <2> QED
    BY ZenonT(60), <2>1, <2>2
<1>6. ASSUME NEW q \in Procs, NEW j \in KeysOf[q] PROVE KeyInv(q, j)'
  <2>0. j \in Keys /\ KeyInv(q, j)
    BY ZenonT(60), KeyFacts DEF IpcInv, KeysInv
  <2>1. CASE q # p \/ j # k
    <3>1. acks'[q][j] = acks[q][j] /\ released'[q][j] = released[q][j]
      BY ZenonT(60), <1>3, <1>4, <2>0, <2>1
    <3> QED
      BY ZenonT(60), <1>1, <2>0, <3>1, KeyKept, SameChannels
  <2>2. CASE q = p /\ j = k
    <3>1. /\ Retired(p, k)' <=> Retired(p, k)
          /\ Cleared(p, k)' <=> Cleared(p, k)
      BY ZenonT(60), <1>1, SameChannels DEF Retired, Cleared
    <3>2. Retired(p, k) /\ released[p][k] = "no" /\ (v = "acked" => Cleared(p, k))
      BY ZenonT(60), <1>2, <2>0, <2>2 DEF KeyInv, InTurn, WithdrawnOnce
    <3>3. InTurn(p, k)'
      BY ZenonT(60), <1>1, <1>3, <1>4, <2>0, <2>2, <3>1, <3>2, SameChannels DEF KeyInv, InTurn
    <3>4. WithdrawnOnce(p, k)'
      BY ZenonT(60), <1>3, <3>1, <3>2 DEF WithdrawnOnce
    <3>5. Seen(p, k)'
      BY ZenonT(60), <1>1, <2>0, <2>2, <3>2, SameChannels DEF KeyInv, Seen
    <3> QED
      BY ZenonT(60), <2>2, <3>3, <3>4, <3>5 DEF KeyInv
  <2> QED
    BY ZenonT(60), <2>1, <2>2
<1> QED
  BY ZenonT(60), <1>5, <1>6 DEF IpcInv, KeysInv

\* A transfer maps only what is known, and nothing once the peer is gone.
LEMMA TransferKeeps ==
    ASSUME IpcInv, NEW p \in Procs, Transfer(p)
    PROVE  IpcInv'
<1>0. /\ imported \in [Procs -> [Keys -> Imports]] /\ want \in [Procs -> Keys \cup {0}]
      /\ KeysOf[Peer(p)] \subseteq Keys
  BY ZenonT(60), KeyFacts, PeerFacts DEF IpcInv, TypeInv, RegionTypes
<1>1. UNCHANGED <<dials, dialler, sock, gone, nextKey, exported, acks, released, controls, out>>
  BY ZenonT(60) DEF Transfer, SubmitBegin, SubmitEnd
<1>2. want' \in [Procs -> Keys \cup {0}]
  BY SMTT(60), <1>0 DEF Transfer, SubmitBegin, SubmitEnd
<1>3. \/ imported' = imported
      \/ \E w \in Keys : /\ p \in sock \ gone /\ imported[p][w] # "no"
                         /\ imported' = [imported EXCEPT ![p][w] = "mapped"]
  BY ZenonT(60), <1>0 DEF Transfer, SubmitBegin, SubmitEnd, MayCopy
<1>4. CASE imported' = imported
  <2>1. TypeInv' /\ GoneHoldsNothing' /\ ClosedKnowsNothing'
    BY ZenonT(60), <1>1, <1>2, <1>4
       DEF IpcInv, TypeInv, ChannelTypes, RegionTypes, GoneHoldsNothing, ClosedKnowsNothing
  <2>2. KeysInv'
    BY ZenonT(60), <1>1, <1>4, KeyKept, SameChannels DEF IpcInv, KeysInv
  <2> QED
    BY ZenonT(60), <2>1, <2>2 DEF IpcInv
<1>5. ASSUME NEW w \in Keys, p \in sock \ gone, imported[p][w] # "no",
             imported' = [imported EXCEPT ![p][w] = "mapped"]
      PROVE  IpcInv'
  <2>1. /\ imported' \in [Procs -> [Keys -> Imports]] /\ imported'[p][w] = "mapped"
        /\ \A q \in Procs, j \in Keys : q # p \/ j # w => imported'[q][j] = imported[q][j]
    <3>1. "mapped" \in Imports
      BY DEF Imports
    <3> QED
      BY SMTT(60), <1>0, <1>5, <3>1
  <2>2. TypeInv'
    BY ZenonT(60), <1>1, <1>2, <2>1 DEF IpcInv, TypeInv, ChannelTypes, RegionTypes
  <2>3. GoneHoldsNothing'
    <3>1. gone \subseteq Procs /\ gone' = gone /\ p \notin gone
      BY ZenonT(60), <1>1, <1>5 DEF IpcInv, TypeInv
    <3> QED
      BY ZenonT(60), <2>1, <3>1 DEF IpcInv, GoneHoldsNothing
  <2>4. ClosedKnowsNothing'
    <3>1. dialler # p
      BY ZenonT(60), <1>5 DEF IpcInv, ClosedKnowsNothing
    <3>2. p \in sock
      BY <1>5
    <3>3. \A q \in Procs : q # p => \A k \in Keys : imported'[q][k] = imported[q][k]
      BY ZenonT(60), <2>1
    <3>4. \A q \in Procs \ sock' : \A k \in Keys : imported'[q][k] = "no"
      <4>1. \A q \in Procs \ sock : q # p /\ \A k \in Keys : imported[q][k] = "no"
        BY ZenonT(60), <3>2 DEF IpcInv, ClosedKnowsNothing
      <4>2. sock' = sock
        BY <1>1
      <4> QED
        BY ZenonT(60), <3>3, <4>1, <4>2
    <3>5. dialler' \in Procs => \A k \in Keys : imported'[dialler'][k] = "no"
      BY ZenonT(60), <1>1, <3>1, <3>3 DEF IpcInv, ClosedKnowsNothing
    <3> QED
      BY ZenonT(60), <1>1, <3>4, <3>5 DEF IpcInv, ClosedKnowsNothing
  <2>5. ASSUME NEW q \in Procs, NEW j \in KeysOf[q] PROVE KeyInv(q, j)'
    <3>1. j \in Keys /\ Peer(q) \in Procs /\ KeyInv(q, j)
      BY ZenonT(60), KeyFacts, PeerFacts DEF IpcInv, KeysInv
    <3>2. imported'[Peer(q)][j] = "no" <=> imported[Peer(q)][j] = "no"
      BY ZenonT(60), <1>5, <2>1, <3>1
    <3> QED
      BY ZenonT(60), <1>1, <3>1, <3>2, KeyKept, SameChannels
  <2> QED
    BY ZenonT(60), <2>2, <2>3, <2>4, <2>5 DEF IpcInv, KeysInv
<1> QED
  BY ZenonT(60), <1>3, <1>4, <1>5

\* When a process leaves, neither end is up.
LEMMA LeaveKeys ==
    ASSUME IpcInv, NEW p \in Procs, p \in sock, Unmap(p), Hangup(p), dialler' = dialler,
           NEW q \in Procs, NEW j \in KeysOf[q],
           j < nextKey'[q] <=> j < nextKey[q],
           j \in exported'[q] <=> j \in exported[q],
           acks'[q][j] = acks[q][j], released'[q][j] = released[q][j]
    PROVE  KeyInv(q, j)'
<1>1. /\ KeyInv(q, j) /\ j \in Keys /\ Peer(q) \in Procs /\ Peer(p) \in Procs
      /\ Peer(Peer(q)) = q /\ (q = p \/ q = Peer(p)) /\ Peer(Peer(p)) = p
  BY ZenonT(60), KeyFacts, PeerFacts DEF IpcInv, KeysInv
<1>2. /\ sock' = sock \ {p} /\ dialler # Peer(p)
      /\ \A k \in Keys : imported'[p][k] = "no"
      /\ \A r \in Procs : r # p => out'[r] = out[r] /\ imported'[r] = imported[r]
      /\ \A f : Has(out'[p], f) => Has(out[p], f)
      /\ \A f, g : NoneAfter(out[p], f, g) => NoneAfter(out'[p], f, g)
  BY ZenonT(60), LeaveEffect
<1>3. ~Up(q)'
  BY ZenonT(60), <1>1, <1>2 DEF Up
<1>4. /\ Publishing(q, j)' => Publishing(q, j)
      /\ Withdrawing(q, j)' => Withdrawing(q, j)
      /\ Answering(q, j)' => Answering(q, j)
      /\ NoneAfter(out[q], Frame("withdraw", j), Frame("publish", j))
            => NoneAfter(out'[q], Frame("withdraw", j), Frame("publish", j))
  BY ZenonT(60), <1>1, <1>2 DEF Publishing, Withdrawing, Answering
<1>5. \/ imported'[Peer(q)][j] = "no" <=> imported[Peer(q)][j] = "no"
      \/ imported'[Peer(q)][j] = "no"
  BY ZenonT(60), <1>1, <1>2
<1> QED
  BY ZenonT(60), <1>1, <1>3, <1>4, <1>5, KeyKept

LEMMA LeaveRest ==
    ASSUME IpcInv, NEW p \in Procs, p \in sock, Unmap(p), Hangup(p), dialler' = dialler,
           gone' = gone \/ gone' = gone \cup {p}
    PROVE  /\ ChannelTypes' /\ imported' \in [Procs -> [Keys -> Imports]]
           /\ sock' \subseteq Procs /\ gone' \subseteq Procs
           /\ GoneHoldsNothing' /\ ClosedKnowsNothing'
<1>1. /\ ChannelTypes' /\ imported' \in [Procs -> [Keys -> Imports]]
      /\ sock' = sock \ {p} /\ dialler # Peer(p)
      /\ \A k \in Keys : imported'[p][k] = "no"
      /\ \A q \in Procs : q # p => out'[q] = out[q] /\ imported'[q] = imported[q]
  BY ZenonT(60), LeaveEffect
<1>2. sock \subseteq Procs /\ gone \subseteq Procs /\ sock' \subseteq Procs /\ gone' \subseteq Procs
  BY ZenonT(60), <1>1 DEF IpcInv, TypeInv
<1>3. GoneHoldsNothing'
  BY ZenonT(60), <1>1, <1>2 DEF IpcInv, GoneHoldsNothing
<1>4. \A q \in Procs \ sock' : \A k \in Keys : imported'[q][k] = "no"
  <2>1. \A q \in Procs \ sock : \A k \in Keys : imported[q][k] = "no"
    BY ZenonT(60) DEF IpcInv, ClosedKnowsNothing
  <2>2. ASSUME NEW q \in Procs, q \notin sock', NEW k \in Keys PROVE imported'[q][k] = "no"
    BY ZenonT(60), <1>1, <2>1, <2>2
  <2> QED
    BY ZenonT(60), <2>2
<1>5. ASSUME dialler' \in Procs
      PROVE  /\ \A k \in Keys : imported'[dialler'][k] = "no"
             /\ Peer(dialler') \notin sock' /\ out'[Peer(dialler')] = <<>>
  <2>1. /\ dialler \in Procs /\ Peer(dialler) \in Procs /\ Peer(Peer(dialler)) = dialler
        /\ \A k \in Keys : imported[dialler][k] = "no"
        /\ Peer(dialler) \notin sock /\ out[Peer(dialler)] = <<>>
    BY ZenonT(60), <1>5, PeerFacts DEF IpcInv, ClosedKnowsNothing
  <2> QED
    BY ZenonT(60), <1>1, <2>1
<1> QED
  BY ZenonT(60), <1>1, <1>2, <1>3, <1>4, <1>5 DEF ClosedKnowsNothing

\* A frame of another key, or of none, is posted.
LEMMA PostKeys ==
    ASSUME IpcInv, NEW p \in Procs, NEW x \in Frames, Len(out[p]) < Capacity, Post(p, x),
           UNCHANGED <<dialler, sock, gone, imported>>,
           NEW q \in Procs, NEW j \in KeysOf[q],
           q = p => x # Frame("publish", j) /\ x # Frame("withdraw", j),
           q # p => x # Frame("ack", j),
           j < nextKey'[q] <=> j < nextKey[q],
           j \in exported'[q] <=> j \in exported[q],
           acks'[q][j] = acks[q][j], released'[q][j] = released[q][j]
    PROVE  KeyInv(q, j)'
<1>1. /\ KeyInv(q, j) /\ ChannelTypes /\ Peer(q) \in Procs /\ Peer(q) # q
      /\ (q # p => Peer(q) = p)
  BY ZenonT(60), PeerFacts DEF IpcInv, KeysInv, TypeInv
<1>2. /\ \A r \in Procs : r # p => out'[r] = out[r]
      /\ \A f : Has(out'[p], f) <=> Has(out[p], f) \/ f = x
      /\ \A f, g : NoneAfter(out[p], f, g) /\ (g # x \/ ~Has(out[p], f))
                      => NoneAfter(out'[p], f, g)
      /\ \A f, g : f # x /\ (Followed(out[p], f, g) \/ g = x)
                      => Followed(out'[p], f, g)
  BY ZenonT(60), <1>1, PostEffect
<1>3. Up(q)' <=> Up(q)
  BY ZenonT(60) DEF Up
<1>4. CASE q = p
  <2>1. /\ Publishing(q, j)' <=> Publishing(q, j)
        /\ Withdrawing(q, j)' <=> Withdrawing(q, j)
        /\ Answering(q, j)' <=> Answering(q, j)
    BY ZenonT(60), <1>1, <1>2, <1>4 DEF Publishing, Withdrawing, Answering
  <2>2. /\ NoneAfter(out[q], Frame("withdraw", j), Frame("publish", j))
             => NoneAfter(out'[q], Frame("withdraw", j), Frame("publish", j))
        /\ Followed(out[q], Frame("publish", j), Frame("withdraw", j))
             => Followed(out'[q], Frame("publish", j), Frame("withdraw", j))
    BY ZenonT(60), <1>2, <1>4
  <2> QED
    BY ZenonT(60), <1>1, <1>3, <2>1, <2>2, KeyKept
<1>5. CASE q # p
  <2>1. /\ Publishing(q, j)' <=> Publishing(q, j)
        /\ Withdrawing(q, j)' <=> Withdrawing(q, j)
        /\ Answering(q, j)' <=> Answering(q, j)
    BY ZenonT(60), <1>1, <1>2, <1>5 DEF Publishing, Withdrawing, Answering
  <2> QED
    BY ZenonT(60), <1>1, <1>2, <1>3, <1>5, <2>1, KeyKept
<1> QED
  BY ZenonT(60), <1>4, <1>5

LEMMA PostRest ==
    ASSUME IpcInv, NEW p \in Procs, NEW x \in Frames, Sent(p), Post(p, x),
           UNCHANGED <<dialler, sock, gone, imported>>
    PROVE  ChannelTypes' /\ GoneHoldsNothing' /\ ClosedKnowsNothing'
<1>1. Len(out[p]) < Capacity /\ p \in sock /\ ChannelTypes
  BY ZenonT(60) DEF Sent, IpcInv, TypeInv
<1>2. ChannelTypes' /\ \A q \in Procs : q # p => out'[q] = out[q]
  BY ZenonT(60), <1>1, PostEffect
<1>3. GoneHoldsNothing'
  BY ZenonT(60) DEF IpcInv, GoneHoldsNothing
<1>4. dialler \in Procs => Peer(dialler) # p /\ Peer(dialler) \in Procs
  BY ZenonT(60), <1>1, PeerFacts DEF IpcInv, ClosedKnowsNothing
<1>5. ClosedKnowsNothing'
  BY ZenonT(60), <1>2, <1>4 DEF IpcInv, ClosedKnowsNothing
<1> QED
  BY ZenonT(60), <1>2, <1>3, <1>5

\* A key is handed out: it is exported, and nothing of it was ever sent.
LEMMA KeyMade ==
    ASSUME NEW q \in Procs, NEW j \in KeysOf[q], KeyInv(q, j),
           ~(j < nextKey[q]), j < nextKey'[q], j \in exported'[q],
           acks'[q][j] = acks[q][j], released'[q][j] = released[q][j],
           Withdrawing(q, j)' => Withdrawing(q, j),
           Answering(q, j)' => Answering(q, j),
           ~Withdrawing(q, j) => NoneAfter(out'[q], Frame("withdraw", j), Frame("publish", j)),
           Up(q)' => Publishing(q, j)'
    PROVE  KeyInv(q, j)'
<1>1. ~Retired(q, j) /\ ~Retired(q, j)'
  BY ZenonT(60) DEF Retired
<1>2. /\ ~Withdrawing(q, j) /\ ~Answering(q, j) /\ acks[q][j] = "none" /\ released[q][j] = "no"
  BY ZenonT(60), <1>1 DEF KeyInv, InTurn, WithdrawnOnce, Cleared
<1>3. "none" # "acked" /\ "no" # "acked"
  OBVIOUS
<1>4. InTurn(q, j)'
  BY ZenonT(60), <1>2, <1>3 DEF InTurn
<1>5. WithdrawnOnce(q, j)'
  BY ZenonT(60), <1>1, <1>2 DEF WithdrawnOnce
<1>6. Seen(q, j)'
  BY ZenonT(60) DEF Seen
<1> QED
  BY ZenonT(60), <1>4, <1>5, <1>6 DEF KeyInv

\* register_region.
LEMMA RegisterKeeps ==
    ASSUME IpcInv, NEW p \in Procs, register_region(p)
    PROVE  IpcInv'
<1>k. PICK k \in KeysOf[p] : k = nextKey[p]
  BY ZenonT(60) DEF register_region
<1>0. /\ nextKey \in [Procs -> Nat \ {0}] /\ DOMAIN exported = Procs /\ k \in KeysOf[p]
      /\ \A q \in Procs : exported[q] \subseteq KeysOf[q] /\ exported[q] \subseteq 1..(nextKey[q] - 1)
      /\ \A q \in Procs : KeysOf[q] \subseteq Nat \ {0}
  BY ZenonT(60), KeyFacts DEF IpcInv, TypeInv, RegionTypes, register_region
<1>1. /\ UNCHANGED <<dials, dialler, acks, released, want, controls>>
      /\ nextKey' = [nextKey EXCEPT ![p] = @ + 1]
      /\ exported' = [exported EXCEPT ![p] = @ \cup {k}]
  BY ZenonT(60), <1>k DEF register_region
<1>2. /\ nextKey' \in [Procs -> Nat \ {0}] /\ nextKey'[p] = k + 1
      /\ \A q \in Procs : q # p => nextKey'[q] = nextKey[q]
  BY SMTT(60), <1>k, <1>0, <1>1
<1>3. /\ DOMAIN exported' = Procs /\ exported'[p] = exported[p] \cup {k}
      /\ \A q \in Procs : q # p => exported'[q] = exported[q]
  BY ZenonT(60), <1>0, <1>1
<1>4. \A q \in Procs : exported'[q] \subseteq KeysOf[q] /\ exported'[q] \subseteq 1..(nextKey'[q] - 1)
  <2>1. exported'[p] \subseteq KeysOf[p] /\ exported'[p] \subseteq 1..(nextKey'[p] - 1)
    BY SMTT(60), <1>k, <1>0, <1>2, <1>3
  <2> QED
    BY ZenonT(60), <1>0, <1>2, <1>3, <2>1
<1>5. \A q \in Procs : \A j \in KeysOf[q] : q # p \/ j # k =>
        (j < nextKey'[q] <=> j < nextKey[q]) /\ (j \in exported'[q] <=> j \in exported[q])
  <2>1. \A j \in KeysOf[p] : j # k => (j < nextKey'[p] <=> j < nextKey[p])
    BY SMTT(60), <1>k, <1>0, <1>2
  <2> QED
    BY ZenonT(60), <1>2, <1>3, <2>1
<1>6. ~(k < nextKey[p]) /\ k < nextKey'[p] /\ k \in exported'[p]
  BY SMTT(60), <1>k, <1>0, <1>2, <1>3
<1>7. \/ p \notin sock /\ UNCHANGED <<out, gone, imported, sock>>
      \/ p \in gone /\ UNCHANGED <<out, gone, imported, sock>>
      \/ Sent(p) /\ Post(p, Frame("publish", k)) /\ UNCHANGED <<gone, imported, sock>>
      \/ p \in sock /\ gone' = gone \cup {p} /\ Unmap(p) /\ Hangup(p)
  BY ZenonT(60), <1>k DEF register_region, PeerIsGone
<1>8. KeyInv(p, k)
  BY ZenonT(60), <1>0 DEF IpcInv, KeysInv
<1>9. ASSUME ChannelTypes', imported' \in [Procs -> [Keys -> Imports]],
             sock' \subseteq Procs, gone' \subseteq Procs
      PROVE  TypeInv'
  BY ZenonT(60), <1>1, <1>2, <1>3, <1>4, <1>9 DEF IpcInv, TypeInv, RegionTypes
<1>10. /\ imported \in [Procs -> [Keys -> Imports]] /\ sock \subseteq Procs
       /\ gone \subseteq Procs /\ ChannelTypes
  BY ZenonT(60) DEF IpcInv, TypeInv, RegionTypes
<1>11. k \in Keys /\ Frame("publish", k) \in Frames /\ Peer(p) \in Procs /\ Peer(p) # p
  BY ZenonT(60), <1>0, KeyFacts, FrameFacts, PeerFacts
<1>12. CASE (p \notin sock \/ p \in gone) /\ UNCHANGED <<out, gone, imported, sock>>
  <2>1. TypeInv'
    <3>1. ChannelTypes'
      BY ZenonT(60), <1>10, <1>12 DEF ChannelTypes
    <3> QED
      BY ZenonT(60), <1>9, <1>10, <1>12, <3>1
  <2>2. GoneHoldsNothing' /\ ClosedKnowsNothing'
    BY ZenonT(60), <1>1, <1>12 DEF IpcInv, GoneHoldsNothing, ClosedKnowsNothing
  <2>3. ASSUME NEW q \in Procs, NEW j \in KeysOf[q], q # p \/ j # k PROVE KeyInv(q, j)'
    <3>1. KeyInv(q, j) /\ UNCHANGED <<out, sock, gone, dialler>>
      BY ZenonT(60), <1>1, <1>12 DEF IpcInv, KeysInv
    <3> QED
      BY ZenonT(60), <1>1, <1>5, <1>12, <2>3, <3>1, KeyKept, SameChannels
  <2>4. KeyInv(p, k)'
    <3>1. ~Up(p)' /\ UNCHANGED <<out, sock, gone, dialler>>
      BY ZenonT(60), <1>1, <1>12 DEF Up
    <3>2. NoneAfter(out'[p], Frame("withdraw", k), Frame("publish", k))
      BY ZenonT(60), <1>8, <3>1 DEF KeyInv, InTurn
    <3> QED
      BY ZenonT(60), <1>0, <1>1, <1>6, <1>8, <3>1, <3>2, KeyMade, SameChannels
  <2> QED
    BY ZenonT(60), <2>1, <2>2, <2>3, <2>4 DEF IpcInv, KeysInv
<1>13. CASE Sent(p) /\ Post(p, Frame("publish", k)) /\ UNCHANGED <<gone, imported, sock>>
  <2>0. Len(out[p]) < Capacity /\ UNCHANGED <<dialler, sock, gone, imported>>
    BY ZenonT(60), <1>1, <1>13 DEF Sent
  <2>1. ChannelTypes' /\ GoneHoldsNothing' /\ ClosedKnowsNothing'
    BY ZenonT(60), <1>11, <1>13, <2>0, PostRest
  <2>2. TypeInv'
    BY ZenonT(60), <1>9, <1>10, <1>13, <2>1
  <2>3. ASSUME NEW q \in Procs, NEW j \in KeysOf[q], q # p \/ j # k PROVE KeyInv(q, j)'
    <3>1. /\ q = p => Frame("publish", k) # Frame("publish", j)
          /\ Frame("publish", k) # Frame("withdraw", j)
          /\ Frame("publish", k) # Frame("ack", j)
      BY <2>3, FrameFacts
    <3> QED
      BY ZenonT(60), <1>1, <1>5, <1>11, <1>13, <2>0, <2>3, <3>1, PostKeys
  <2>4. KeyInv(p, k)'
    <3>1. /\ \A r \in Procs : r # p => out'[r] = out[r]
          /\ \A f : Has(out'[p], f) <=> Has(out[p], f) \/ f = Frame("publish", k)
          /\ \A f, g : NoneAfter(out[p], f, g) /\ (g # Frame("publish", k) \/ ~Has(out[p], f))
                          => NoneAfter(out'[p], f, g)
      BY ZenonT(60), <1>10, <1>11, <1>13, <2>0, PostEffect
    <3>2. Frame("withdraw", k) # Frame("publish", k)
      BY FrameFacts
    <3>3. /\ Publishing(p, k)' /\ (Withdrawing(p, k)' => Withdrawing(p, k))
          /\ (Answering(p, k)' => Answering(p, k))
      BY ZenonT(60), <1>11, <3>1, <3>2 DEF Publishing, Withdrawing, Answering
    <3>4. ~Withdrawing(p, k) => NoneAfter(out'[p], Frame("withdraw", k), Frame("publish", k))
      BY ZenonT(60), <1>8, <3>1 DEF KeyInv, InTurn, Withdrawing
    <3> QED
      BY ZenonT(60), <1>0, <1>1, <1>6, <1>8, <3>3, <3>4, KeyMade
  <2> QED
    BY ZenonT(60), <2>1, <2>2, <2>3, <2>4 DEF IpcInv, KeysInv
<1>14. CASE p \in sock /\ gone' = gone \cup {p} /\ Unmap(p) /\ Hangup(p)
  <2>1. /\ ChannelTypes' /\ imported' \in [Procs -> [Keys -> Imports]]
        /\ sock' \subseteq Procs /\ gone' \subseteq Procs
        /\ GoneHoldsNothing' /\ ClosedKnowsNothing'
    BY ZenonT(60), <1>1, <1>14, LeaveRest
  <2>2. TypeInv'
    BY ZenonT(60), <1>9, <2>1
  <2>3. ASSUME NEW q \in Procs, NEW j \in KeysOf[q], q # p \/ j # k PROVE KeyInv(q, j)'
    BY ZenonT(60), <1>1, <1>5, <1>14, <2>3, LeaveKeys
  <2>4. KeyInv(p, k)'
    <3>1. /\ sock' = sock \ {p} /\ \A r \in Procs : r # p => out'[r] = out[r]
          /\ \A f : Has(out'[p], f) => Has(out[p], f)
          /\ \A f, g : NoneAfter(out[p], f, g) => NoneAfter(out'[p], f, g)
      BY ZenonT(60), <1>14, LeaveEffect
    <3>2. /\ ~Up(p)' /\ (Withdrawing(p, k)' => Withdrawing(p, k))
          /\ (Answering(p, k)' => Answering(p, k))
      BY ZenonT(60), <1>11, <3>1 DEF Up, Withdrawing, Answering
    <3>3. NoneAfter(out'[p], Frame("withdraw", k), Frame("publish", k))
      BY ZenonT(60), <1>8, <3>1 DEF KeyInv, InTurn
    <3> QED
      BY ZenonT(60), <1>0, <1>1, <1>6, <1>8, <3>2, <3>3, KeyMade
  <2> QED
    BY ZenonT(60), <2>1, <2>2, <2>3, <2>4 DEF IpcInv, KeysInv
<1> QED
  BY ZenonT(60), <1>7, <1>12, <1>13, <1>14

\* A process that closes, finds its peer gone, or sends a control message, and
\* is left with its own regions.
LEMMA AloneKeeps ==
    ASSUME IpcInv, NEW p \in Procs, UNCHANGED <<dials, dialler, nextKey, exported, acks, released, want>>,
           p \in sock, Unmap(p), Hangup(p), gone' = gone \/ gone' = gone \cup {p}
    PROVE  IpcInv'
<1>1. /\ ChannelTypes' /\ imported' \in [Procs -> [Keys -> Imports]]
      /\ sock' \subseteq Procs /\ gone' \subseteq Procs
      /\ GoneHoldsNothing' /\ ClosedKnowsNothing'
  BY ZenonT(60), LeaveRest
<1>2. TypeInv'
  BY ZenonT(60), <1>1 DEF IpcInv, TypeInv, RegionTypes
<1>3. ASSUME NEW q \in Procs, NEW j \in KeysOf[q] PROVE KeyInv(q, j)'
  BY ZenonT(60), LeaveKeys
<1> QED
  BY ZenonT(60), <1>1, <1>2, <1>3 DEF IpcInv, KeysInv

LEMMA SameKeeps ==
    ASSUME IpcInv,
           UNCHANGED <<dials, dialler, sock, gone, nextKey, exported, imported, acks, released, want, out>>
    PROVE  IpcInv'
<1>1. TypeInv' /\ GoneHoldsNothing' /\ ClosedKnowsNothing'
  BY ZenonT(60) DEF IpcInv, TypeInv, ChannelTypes, RegionTypes, GoneHoldsNothing, ClosedKnowsNothing
<1>2. ASSUME NEW q \in Procs, NEW j \in KeysOf[q] PROVE KeyInv(q, j)'
  <2>1. KeyInv(q, j)
    BY ZenonT(60) DEF IpcInv, KeysInv
  <2> QED
    BY ZenonT(60), <2>1, KeyKept, SameChannels
<1> QED
  BY ZenonT(60), <1>1, <1>2 DEF IpcInv, KeysInv

LEMMA GoneKeeps ==
    ASSUME IpcInv, NEW p \in Procs, p \in sock, PeerIsGone(p),
           UNCHANGED <<dials, dialler, nextKey, exported, acks, released, want>>
    PROVE  IpcInv'
<1>1. \/ UNCHANGED <<gone, imported, sock, out>>
      \/ gone' = gone \cup {p} /\ Unmap(p) /\ Hangup(p)
  BY ZenonT(60) DEF PeerIsGone
<1> QED
  BY ZenonT(60), <1>1, AloneKeeps, SameKeeps

\* disconnect, and pump when it finds the peer gone.
LEMMA LeavingKeeps ==
    ASSUME IpcInv, NEW p \in Procs, disconnect(p) \/ PumpEnd(p)
    PROVE  IpcInv'
<1>1. CASE disconnect(p)
  <2>1. /\ UNCHANGED <<dials, dialler, nextKey, exported, acks, released, want>>
        /\ p \in sock /\ Unmap(p) /\ Hangup(p) /\ gone' = gone
    BY ZenonT(60), <1>1 DEF disconnect, local
  <2> QED
    BY ZenonT(60), <2>1, AloneKeeps
<1>2. CASE PumpEnd(p)
  <2>1. /\ UNCHANGED <<dials, dialler, nextKey, exported, acks, released, want>>
        /\ p \in sock /\ PeerIsGone(p)
    BY ZenonT(60), <1>2 DEF PumpEnd, local
  <2> QED
    BY ZenonT(60), <2>1, GoneKeeps
<1> QED
  BY <1>1, <1>2

\* send_control.
LEMMA ControlKeeps ==
    ASSUME IpcInv, NEW p \in Procs, SendControl(p)
    PROVE  IpcInv'
<1>0. UNCHANGED <<dials, dialler, nextKey, exported, acks, released, want>> /\ p \in sock
  BY ZenonT(60) DEF SendControl
<1>1. CASE Sent(p) /\ Post(p, Frame("control", 0)) /\ UNCHANGED <<gone, imported, sock>>
  <2>0. /\ Frame("control", 0) \in Frames /\ Len(out[p]) < Capacity
        /\ UNCHANGED <<dialler, sock, gone, imported>>
    BY ZenonT(60), <1>0, <1>1, FrameFacts DEF Sent
  <2>1. ChannelTypes' /\ GoneHoldsNothing' /\ ClosedKnowsNothing'
    BY ZenonT(60), <1>1, <2>0, PostRest
  <2>2. TypeInv'
    BY ZenonT(60), <1>0, <1>1, <2>1 DEF IpcInv, TypeInv, RegionTypes
  <2>3. ASSUME NEW q \in Procs, NEW j \in KeysOf[q] PROVE KeyInv(q, j)'
    <3>1. /\ Frame("control", 0) # Frame("publish", j)
          /\ Frame("control", 0) # Frame("withdraw", j)
          /\ Frame("control", 0) # Frame("ack", j)
      BY FrameFacts
    <3> QED
      BY ZenonT(60), <1>0, <1>1, <2>0, <3>1, PostKeys
  <2> QED
    BY ZenonT(60), <2>1, <2>2, <2>3 DEF IpcInv, KeysInv
<1>2. CASE UNCHANGED <<out, gone, imported, sock>>
  BY ZenonT(60), <1>0, <1>2, SameKeeps
<1>3. CASE PeerIsGone(p)
  BY ZenonT(60), <1>0, <1>3, GoneKeeps
<1> QED
  BY ZenonT(60), <1>1, <1>2, <1>3 DEF SendControl

\* deregister_region, up to its wait.
LEMMA WithdrawKeeps ==
    ASSUME IpcInv, NEW p \in Procs, NEW k \in KeysOf[p], DeregisterBegin(p, k)
    PROVE  IpcInv'
<1>0. /\ nextKey \in [Procs -> Nat \ {0}] /\ DOMAIN exported = Procs /\ k \in exported[p]
      /\ \A q \in Procs : exported[q] \subseteq KeysOf[q] /\ exported[q] \subseteq 1..(nextKey[q] - 1)
      /\ acks \in [Procs -> [Keys -> Acks]] /\ released \in [Procs -> [Keys -> Releases]]
      /\ ChannelTypes /\ k \in Keys /\ KeyInv(p, k)
  BY ZenonT(60), KeyFacts DEF IpcInv, TypeInv, RegionTypes, KeysInv, DeregisterBegin
<1>1. /\ UNCHANGED <<dials, dialler, sock, gone, nextKey, imported, want, controls>>
      /\ exported' = [exported EXCEPT ![p] = @ \ {k}]
  BY ZenonT(60) DEF DeregisterBegin
<1>2. /\ DOMAIN exported' = Procs /\ exported'[p] = exported[p] \ {k}
      /\ \A q \in Procs : q # p => exported'[q] = exported[q]
  BY ZenonT(60), <1>0, <1>1
<1>3. /\ \A q \in Procs : exported'[q] \subseteq KeysOf[q] /\ exported'[q] \subseteq 1..(nextKey'[q] - 1)
      /\ \A q \in Procs : \A j \in KeysOf[q] :
            q # p \/ j # k => (j \in exported'[q] <=> j \in exported[q])
  BY ZenonT(60), <1>0, <1>1, <1>2
<1>4. k < nextKey[p] /\ ~Retired(p, k) /\ Retired(p, k)'
  <2>1. k < nextKey[p]
    BY SMTT(60), <1>0
  <2> QED
    BY ZenonT(60), <1>0, <1>1, <1>2, <2>1 DEF Retired
<1>5. /\ ~Withdrawing(p, k) /\ ~Answering(p, k) /\ acks[p][k] = "none" /\ released[p][k] = "no"
  BY ZenonT(60), <1>0, <1>4 DEF KeyInv, InTurn, WithdrawnOnce, Cleared
<1>6. ASSUME ChannelTypes', acks' \in [Procs -> [Keys -> Acks]],
             released' \in [Procs -> [Keys -> Releases]]
      PROVE  TypeInv'
  BY ZenonT(60), <1>1, <1>2, <1>3, <1>6 DEF IpcInv, TypeInv, RegionTypes
<1>7. CASE Sent(p) /\ Post(p, Frame("withdraw", k)) /\ released' = released
           /\ acks' = [acks EXCEPT ![p][k] = "waiting"]
  <2>0. /\ Frame("withdraw", k) \in Frames /\ Len(out[p]) < Capacity
        /\ UNCHANGED <<dialler, sock, gone, imported>>
    BY ZenonT(60), <1>0, <1>1, <1>7, FrameFacts DEF Sent
  <2>1. ChannelTypes' /\ GoneHoldsNothing' /\ ClosedKnowsNothing'
    BY ZenonT(60), <1>7, <2>0, PostRest
  <2>2. /\ acks' \in [Procs -> [Keys -> Acks]] /\ acks'[p][k] = "waiting"
        /\ \A q \in Procs, j \in Keys : q # p \/ j # k => acks'[q][j] = acks[q][j]
    <3>1. "waiting" \in Acks
      BY DEF Acks
    <3> QED
      BY SMTT(60), <1>0, <1>7, <3>1
  <2>3. TypeInv'
    BY ZenonT(60), <1>0, <1>6, <1>7, <2>1, <2>2
  <2>4. ASSUME NEW q \in Procs, NEW j \in KeysOf[q], q # p \/ j # k PROVE KeyInv(q, j)'
    <3>1. /\ Frame("withdraw", k) # Frame("publish", j)
          /\ q = p => Frame("withdraw", k) # Frame("withdraw", j)
          /\ Frame("withdraw", k) # Frame("ack", j)
      BY <2>4, FrameFacts
    <3>2. /\ (j < nextKey'[q] <=> j < nextKey[q]) /\ released'[q][j] = released[q][j]
          /\ acks'[q][j] = acks[q][j] /\ (j \in exported'[q] <=> j \in exported[q])
      BY ZenonT(60), <1>1, <1>3, <1>7, <2>2, <2>4, KeyFacts
    <3> QED
      BY ZenonT(60), <1>7, <2>0, <3>1, <3>2, PostKeys
  <2>5. KeyInv(p, k)'
    <3>1. /\ \A r \in Procs : r # p => out'[r] = out[r]
          /\ \A f : Has(out'[p], f) <=> Has(out[p], f) \/ f = Frame("withdraw", k)
          /\ \A f, g : NoneAfter(out[p], f, g) /\ (g # Frame("withdraw", k) \/ ~Has(out[p], f))
                          => NoneAfter(out'[p], f, g)
          /\ \A f, g : f # Frame("withdraw", k) /\ (Followed(out[p], f, g) \/ g = Frame("withdraw", k))
                          => Followed(out'[p], f, g)
      BY ZenonT(60), <1>0, <1>7, <2>0, PostEffect
    <3>2. Frame("publish", k) # Frame("withdraw", k) /\ Peer(p) \in Procs /\ Peer(p) # p
      BY FrameFacts, PeerFacts
    <3>3. Withdrawing(p, k)' /\ ~Answering(p, k)'
      BY ZenonT(60), <1>5, <3>1, <3>2 DEF Withdrawing, Answering
    <3>4. /\ NoneAfter(out'[p], Frame("withdraw", k), Frame("publish", k))
          /\ Followed(out'[p], Frame("publish", k), Frame("withdraw", k))
      BY ZenonT(60), <1>0, <3>1, <3>2 DEF KeyInv, InTurn
    <3>5. /\ acks'[p][k] # "acked" /\ released'[p][k] = "no" /\ "no" # "acked"
      BY SMTT(60), <1>5, <1>7, <2>2
    <3>6. k < nextKey'[p] /\ k \notin exported'[p]
      BY ZenonT(60), <1>4 DEF Retired
    <3>7. InTurn(p, k)'
      BY ZenonT(60), <1>4, <3>3, <3>4, <3>5, <3>6 DEF InTurn
    <3>8. WithdrawnOnce(p, k)' /\ Seen(p, k)'
      BY ZenonT(60), <1>4, <3>3, <3>4, <3>5, <3>6 DEF WithdrawnOnce, Seen
    <3> QED
      BY ZenonT(60), <3>7, <3>8 DEF KeyInv
  <2> QED
    BY ZenonT(60), <2>1, <2>3, <2>4, <2>5 DEF IpcInv, KeysInv
<1>8. ASSUME NEW v \in {"refused", "alone"}, p \in sock /\ ~HungUp(p) => v = "refused",
             released' = [released EXCEPT ![p][k] = v], UNCHANGED <<acks, out>>
      PROVE  IpcInv'
  <2>1. ChannelTypes' /\ GoneHoldsNothing' /\ ClosedKnowsNothing'
    BY ZenonT(60), <1>0, <1>1, <1>8 DEF IpcInv, ChannelTypes, GoneHoldsNothing, ClosedKnowsNothing
  <2>2. /\ released' \in [Procs -> [Keys -> Releases]] /\ released'[p][k] = v
        /\ \A q \in Procs, j \in Keys : q # p \/ j # k => released'[q][j] = released[q][j]
    <3>1. v \in Releases
      BY <1>8 DEF Releases
    <3> QED
      BY SMTT(60), <1>0, <1>8, <3>1
  <2>3. TypeInv'
    BY ZenonT(60), <1>0, <1>6, <1>8, <2>1, <2>2
  <2>4. ASSUME NEW q \in Procs, NEW j \in KeysOf[q], q # p \/ j # k PROVE KeyInv(q, j)'
    <3>1. /\ (j < nextKey'[q] <=> j < nextKey[q]) /\ released'[q][j] = released[q][j]
          /\ acks'[q][j] = acks[q][j] /\ (j \in exported'[q] <=> j \in exported[q])
      BY ZenonT(60), <1>1, <1>3, <1>8, <2>2, <2>4, KeyFacts
    <3>2. KeyInv(q, j) /\ UNCHANGED <<out, sock, gone, dialler>>
      BY ZenonT(60), <1>1, <1>8 DEF IpcInv, KeysInv
    <3> QED
      BY ZenonT(60), <1>1, <3>1, <3>2, KeyKept, SameChannels
  <2>5. KeyInv(p, k)'
    <3>1. /\ UNCHANGED <<out, sock, gone, dialler>> /\ acks'[p][k] = "none" /\ "none" # "acked"
          /\ released'[p][k] = v /\ v # "acked"
      BY SMTT(60), <1>1, <1>5, <1>8, <2>2
    <3>2. ~Withdrawing(p, k)' /\ ~Answering(p, k)'
      BY ZenonT(60), <1>5, <3>1, SameChannels
    <3>3. InTurn(p, k)'
      BY ZenonT(60), <1>0, <1>4, <3>1, <3>2 DEF InTurn, Retired, KeyInv
    <3>4. WithdrawnOnce(p, k)'
      BY ZenonT(60), <1>4, <3>1 DEF WithdrawnOnce
    <3>5. Seen(p, k)'
      <4>1. Up(p)' => p \in sock /\ ~HungUp(p)
        BY ZenonT(60), <3>1, ProcsAssumption DEF Up, HungUp
      <4>2. k \notin exported'[p]
        BY ZenonT(60), <1>4 DEF Retired
      <4> QED
        BY ZenonT(60), <1>8, <3>1, <4>1, <4>2 DEF Seen
    <3> QED
      BY ZenonT(60), <3>3, <3>4, <3>5 DEF KeyInv
  <2> QED
    BY ZenonT(60), <2>1, <2>3, <2>4, <2>5 DEF IpcInv, KeysInv
<1>9. CASE ~Sent(p) /\ released' = [released EXCEPT ![p][k] = IF Refused(p) THEN "refused" ELSE "alone"]
           /\ UNCHANGED <<acks, out>>
  <2>1. PICK v : v = IF Refused(p) THEN "refused" ELSE "alone"
    OBVIOUS
  <2>2. p \in sock /\ ~HungUp(p) => Refused(p)
    <3>1. Len(out[p]) \in Nat /\ Len(out[p]) <= Capacity
      BY ZenonT(60), <1>0, LenProperties DEF ChannelTypes
    <3>2. Len(out[p]) < Capacity \/ Len(out[p]) = Capacity
      BY SMTT(60), <3>1, CapacityAssumption
    <3> QED
      BY ZenonT(60), <1>9, <3>2 DEF Sent, Refused
  <2> QED
    BY ZenonT(60), <1>8, <1>9, <2>1, <2>2
<1> QED
  BY ZenonT(60), <1>7, <1>9 DEF DeregisterBegin

\* Everything exported is published on a new connection.
LEMMA OpenedKeys ==
    ASSUME IpcInv, NEW q \in Procs, NEW j \in KeysOf[q], NEW all \in publish_all(q), out'[q] = all,
           UNCHANGED <<nextKey, exported, acks, released, imported>>,
           Answering(q, j)' => Answering(q, j), imported[Peer(q)][j] = "no"
    PROVE  KeyInv(q, j)'
<1>1. TypeInv /\ KeyInv(q, j)
  BY ZenonT(60) DEF IpcInv, KeysInv
<1>2. \A f : Has(out'[q], f) <=> \E k \in exported[q] : f = Frame("publish", k)
  BY ZenonT(60), <1>1, PublishingAll
<1>3. Publishing(q, j)' <=> j \in exported[q]
  <2>1. \A k : Frame("publish", j) = Frame("publish", k) => j = k
    BY FrameFacts
  <2> QED
    BY ZenonT(60), <1>2, <2>1 DEF Publishing
<1>4. ~Withdrawing(q, j)'
  <2>1. \A k : Frame("withdraw", j) # Frame("publish", k)
    BY FrameFacts
  <2> QED
    BY ZenonT(60), <1>2, <2>1 DEF Withdrawing
<1>5. /\ NoneAfter(out'[q], Frame("withdraw", j), Frame("publish", j))
      /\ j \notin exported[q] => Followed(out'[q], Frame("publish", j), Frame("withdraw", j))
  BY ZenonT(60), <1>3, <1>4 DEF Publishing, Withdrawing, Has, NoneAfter, Followed
<1>6. j \in exported[q] => j < nextKey[q]
  <2>1. exported[q] \subseteq 1..(nextKey[q] - 1) /\ nextKey[q] \in Nat
    BY ZenonT(60), <1>1 DEF TypeInv, RegionTypes
  <2> QED
    BY SMTT(60), <2>1
<1>7. (Retired(q, j)' <=> Retired(q, j)) /\ (Cleared(q, j) => Cleared(q, j)')
  BY ZenonT(60), <1>3 DEF Retired, Cleared
<1>8. InTurn(q, j)'
  BY ZenonT(60), <1>1, <1>3, <1>4, <1>5, <1>6, <1>7 DEF KeyInv, InTurn
<1>9. WithdrawnOnce(q, j)'
  BY ZenonT(60), <1>1, <1>7 DEF KeyInv, WithdrawnOnce
<1>10. Seen(q, j)'
  BY ZenonT(60), <1>3, <1>5 DEF Seen
<1> QED
  BY ZenonT(60), <1>8, <1>9, <1>10 DEF KeyInv

\* connect.
LEMMA DialKeeps ==
    ASSUME IpcInv, NEW p \in Procs, Dial(p)
    PROVE  IpcInv'
<1>1. /\ dials < MaxDials /\ sock = {} /\ dialler = "none" /\ dials' = dials + 1
      /\ dialler' = p /\ sock' = {p}
      /\ UNCHANGED <<gone, imported, nextKey, exported, acks, released, want>>
  BY ZenonT(60) DEF Dial, local
<1>2. PICK all \in publish_all(p) : out' = [q \in Procs |-> IF q = p THEN all ELSE <<>>]
  BY ZenonT(60) DEF Dial
<1>3. /\ all \in Seq(Frames) /\ Len(all) <= Capacity
      /\ \A f : Has(all, f) <=> \E k \in exported[p] : f = Frame("publish", k)
  BY ZenonT(60), <1>2, PublishingAll DEF IpcInv
<1>4. out'[p] = all /\ \A q \in Procs : q # p => out'[q] = <<>>
  BY ZenonT(60), <1>2
<1>5. ChannelTypes'
  <2>1. <<>> \in Seq(Frames) /\ Len(<<>>) <= Capacity
    BY SMTT(60), CapacityAssumption
  <2> QED
    BY ZenonT(60), <1>2, <1>3, <1>4, <2>1 DEF ChannelTypes
<1>6. TypeInv'
  <2>1. dials' \in 0..MaxDials
    BY SMTT(60), <1>1, CapacityAssumption DEF IpcInv, TypeInv
  <2> QED
    BY ZenonT(60), <1>1, <1>5, <2>1 DEF IpcInv, TypeInv, RegionTypes
<1>7. GoneHoldsNothing'
  BY ZenonT(60), <1>1 DEF IpcInv, GoneHoldsNothing
<1>8. \A q \in Procs : \A k \in Keys : imported[q][k] = "no"
  BY ZenonT(60), <1>1 DEF IpcInv, ClosedKnowsNothing
<1>9. ClosedKnowsNothing'
  BY ZenonT(60), <1>1, <1>4, <1>8, PeerFacts DEF ClosedKnowsNothing
<1>10. ASSUME NEW q \in Procs, NEW j \in KeysOf[q] PROVE KeyInv(q, j)'
  <2>1. /\ KeyInv(q, j) /\ j \in Keys /\ Peer(q) \in Procs /\ Peer(q) # q /\ (q # p => Peer(q) = p)
    BY ZenonT(60), KeyFacts, PeerFacts DEF IpcInv, KeysInv
  <2>2. \A f : ~Has(<<>>, f)
    BY SMTT(60) DEF Has
  <2>3. CASE q = p
    <3>1. ~Answering(q, j)'
      BY ZenonT(60), <1>4, <2>1, <2>2, <2>3 DEF Answering
    <3> QED
      BY ZenonT(60), <1>1, <1>2, <1>4, <1>8, <2>1, <2>3, <3>1, OpenedKeys
  <2>4. CASE q # p
    <3>1. \A k : Frame("ack", j) # Frame("publish", k)
      BY FrameFacts
    <3>2. ~Answering(q, j)'
      BY ZenonT(60), <1>3, <1>4, <2>1, <2>4, <3>1 DEF Answering
    <3>3. ~Publishing(q, j)' /\ ~Withdrawing(q, j)'
      BY ZenonT(60), <1>4, <2>2, <2>4 DEF Publishing, Withdrawing
    <3>4. NoneAfter(out'[q], Frame("withdraw", j), Frame("publish", j))
      BY ZenonT(60), <3>3 DEF Withdrawing, Has, NoneAfter
    <3>5. ~Up(q)'
      BY ZenonT(60), <1>1, <2>4 DEF Up
    <3> QED
      BY ZenonT(60), <1>1, <2>1, <3>2, <3>3, <3>4, <3>5, KeyKept
  <2> QED
    BY ZenonT(60), <2>3, <2>4
<1> QED
  BY ZenonT(60), <1>6, <1>7, <1>9, <1>10 DEF IpcInv, KeysInv

\* accept.
LEMMA AcceptKeeps ==
    ASSUME IpcInv, NEW p \in Procs, Accept(p)
    PROVE  IpcInv'
<1>1. /\ dialler # "none" /\ p = Peer(dialler) /\ dialler' = "none" /\ sock' = sock \cup {p}
      /\ UNCHANGED <<dials, gone, imported, nextKey, exported, acks, released, want>>
  BY ZenonT(60) DEF Accept, local
<1>2. PICK all \in publish_all(p) : out' = [out EXCEPT ![p] = all]
  BY ZenonT(60) DEF Accept
<1>3. /\ all \in Seq(Frames) /\ Len(all) <= Capacity
      /\ \A f : Has(all, f) <=> \E k \in exported[p] : f = Frame("publish", k)
  BY ZenonT(60), <1>2, PublishingAll DEF IpcInv
<1>4. /\ DOMAIN out = Procs /\ \A q \in Procs : out[q] \in Seq(Frames) /\ Len(out[q]) <= Capacity
  BY ZenonT(60) DEF IpcInv, TypeInv, ChannelTypes
<1>5. /\ out'[p] = all /\ (\A q \in Procs : q # p => out'[q] = out[q])
      /\ out' = [q \in Procs |-> out'[q]]
  BY ZenonT(60), <1>2, <1>4
<1>6. TypeInv'
  <2>1. ChannelTypes'
    BY ZenonT(60), <1>3, <1>4, <1>5 DEF ChannelTypes
  <2> QED
    BY ZenonT(60), <1>1, <2>1 DEF IpcInv, TypeInv, RegionTypes
<1>7. GoneHoldsNothing'
  BY ZenonT(60), <1>1 DEF IpcInv, GoneHoldsNothing
<1>8. /\ dialler \in Procs /\ Peer(p) = dialler /\ \A k \in Keys : imported[Peer(p)][k] = "no"
  <2>1. dialler \in Procs
    BY ZenonT(60), <1>1 DEF IpcInv, TypeInv
  <2> QED
    BY ZenonT(60), <1>1, <2>1, PeerFacts DEF IpcInv, ClosedKnowsNothing
<1>9. ClosedKnowsNothing'
  <2>1. \A q \in Procs \ sock : \A k \in Keys : imported[q][k] = "no"
    BY ZenonT(60) DEF IpcInv, ClosedKnowsNothing
  <2>2. dialler' \notin Procs
    BY ZenonT(60), <1>1, ProcsAssumption
  <2> QED
    BY ZenonT(60), <1>1, <2>1, <2>2 DEF ClosedKnowsNothing
<1>10. ASSUME NEW q \in Procs, NEW j \in KeysOf[q] PROVE KeyInv(q, j)'
  <2>1. /\ KeyInv(q, j) /\ j \in Keys /\ Peer(q) \in Procs /\ Peer(q) # q
        /\ (q # p => Peer(q) = p /\ q = Peer(p))
    BY ZenonT(60), KeyFacts, PeerFacts DEF IpcInv, KeysInv
  <2>2. CASE q = p
    <3>1. Answering(q, j)' => Answering(q, j)
      BY ZenonT(60), <1>5, <2>1, <2>2 DEF Answering
    <3> QED
      BY ZenonT(60), <1>1, <1>2, <1>5, <1>8, <2>1, <2>2, <3>1, OpenedKeys
  <2>3. CASE q # p
    <3>1. \A k : Frame("ack", j) # Frame("publish", k)
      BY FrameFacts
    <3>2. ~Answering(q, j)'
      BY ZenonT(60), <1>3, <1>5, <2>1, <2>3, <3>1 DEF Answering
    <3>3. (Publishing(q, j)' <=> Publishing(q, j)) /\ (Withdrawing(q, j)' <=> Withdrawing(q, j))
      BY ZenonT(60), <1>5, <2>3 DEF Publishing, Withdrawing
    <3>4. Up(q)' => Up(q)
      <4>1. dialler = q
        BY ZenonT(60), <1>8, <2>1, <2>3
      <4> QED
        BY ZenonT(60), <1>1, <2>3, <4>1 DEF Up
    <3>5. out'[q] = out[q]
      BY ZenonT(60), <1>5, <2>3
    <3> QED
      BY ZenonT(60), <1>1, <2>1, <3>2, <3>3, <3>4, <3>5, KeyKept
  <2> QED
    BY ZenonT(60), <2>2, <2>3
<1> QED
  BY ZenonT(60), <1>6, <1>7, <1>9, <1>10 DEF IpcInv, KeysInv

\* pump takes the first frame of the peer's channel, and answers a withdrawal.
Reads(p, r, f) ==
    /\ f \in Frames
    /\ \A g : Has(out[r], g) <=> g = f \/ Has(out'[r], g)
    /\ \A g, h : NoneAfter(out[r], g, h) =>
          NoneAfter(out'[r], g, h) /\ (g = f => ~Has(out'[r], h))
    /\ \A g, h : Followed(out[r], g, h) =>
          Followed(out'[r], g, h) /\ (g = f => Has(out'[r], h))
    /\ \/ out'[p] = out[p]
       \/ f.type = "withdraw" /\ out'[p] = Append(out[p], Frame("ack", f.key))

LEMMA PumpEffect ==
    ASSUME IpcInv, NEW p \in Procs, NEW r, r = Peer(p), PumpFrame(p), NEW f, f = Head(out[r])
    PROVE  ChannelTypes' /\ dialler = "none" /\ p \in sock /\ Reads(p, r, f)
<1>0. r \in Procs /\ r # p /\ Peer(r) = p /\ \A q \in Procs : q = p \/ q = r
  BY ZenonT(60), PeerFacts
<1>1. /\ out \in [Procs -> Seq(Frames)] /\ out[r] \in Seq(Frames) /\ out[r] # <<>>
      /\ \A q \in Procs : out[q] \in Seq(Frames) /\ Len(out[q]) <= Capacity
      /\ DOMAIN out = Procs /\ p \in sock
  BY ZenonT(60), <1>0 DEF IpcInv, TypeInv, ChannelTypes, PumpFrame
<1>2. dialler = "none"
  <2>1. dialler \in {"none", p}
    BY ZenonT(60) DEF PumpFrame, Free
  <2> QED
    BY ZenonT(60), <1>1, <2>1 DEF IpcInv, ClosedKnowsNothing
<1> DEFINE t == Tail(out[r])
<1>3. PICK y : /\ out'[r] = t /\ out'[p] = y /\ out' = [q \in Procs |-> out'[q]]
               /\ \/ y = out[p]
                  \/ /\ f.type = "withdraw" /\ Len(out[p]) < Capacity
                     /\ y = Append(out[p], Frame("ack", f.key))
  <2>1. CASE out' = [out EXCEPT ![r] = t]
    <3>1. out'[r] = t /\ out'[p] = out[p] /\ out' = [q \in Procs |-> out'[q]]
      BY ZenonT(60), <1>0, <1>1, <2>1
    <3> QED
      BY ZenonT(60), <3>1
  <2>2. CASE f.type = "withdraw" /\ Acknowledge(p, f.key)
    <3>1. out' = [out EXCEPT ![r] = t, ![p] = IF Sent(p) THEN Append(out[p], Frame("ack", f.key)) ELSE out[p]]
      BY SMTT(60), <1>0, <1>1, <2>2 DEF Acknowledge
    <3>2. /\ out'[r] = t /\ out' = [q \in Procs |-> out'[q]]
          /\ out'[p] = IF Sent(p) THEN Append(out[p], Frame("ack", f.key)) ELSE out[p]
      BY ZenonT(60), <1>0, <1>1, <3>1
    <3>3. Sent(p) => Len(out[p]) < Capacity
      BY ZenonT(60) DEF Sent
    <3> QED
      BY ZenonT(60), <2>2, <3>2, <3>3
  <2> QED
    BY ZenonT(60), <2>1, <2>2 DEF PumpFrame
<1>4. out'[r] = t /\ out'[p] = y /\ out' = [q \in Procs |-> out'[q]]
  BY <1>3
<1>5. /\ t \in Seq(Frames) /\ Len(t) = Len(out[r]) - 1 /\ f \in Frames
      /\ \A g : Has(out[r], g) <=> g = f \/ Has(t, g)
      /\ \A g, h : NoneAfter(out[r], g, h) => NoneAfter(t, g, h) /\ (g = f => ~Has(t, h))
      /\ \A g, h : Followed(out[r], g, h) => Followed(t, g, h) /\ (g = f => Has(t, h))
  <2> DEFINE s == out[r]
  <2>1. s \in Seq(Frames) /\ s # <<>> /\ f = Head(s) /\ t = Tail(s)
    BY ZenonT(60), <1>1
  <2> HIDE DEF s, t
  <2>2. /\ Tail(s) \in Seq(Frames) /\ Len(Tail(s)) = Len(s) - 1 /\ Head(s) \in Frames
        /\ \A g : Has(s, g) <=> g = Head(s) \/ Has(Tail(s), g)
        /\ \A g, h : NoneAfter(s, g, h) =>
              NoneAfter(Tail(s), g, h) /\ (g = Head(s) => ~Has(Tail(s), h))
        /\ \A g, h : Followed(s, g, h) =>
              Followed(Tail(s), g, h) /\ (g = Head(s) => Has(Tail(s), h))
    BY ZenonT(60), <2>1, Taking
  <2> QED
    BY ZenonT(60), <2>1, <2>2 DEF s
<1> HIDE DEF t
<1>6. y \in Seq(Frames) /\ Len(y) <= Capacity
  <2>1. CASE y = out[p]
    BY ZenonT(60), <1>1, <2>1
  <2>2. CASE f.type = "withdraw" /\ Len(out[p]) < Capacity /\ y = Append(out[p], Frame("ack", f.key))
    <3>1. Frame("ack", f.key) \in Frames
      <4>1. f.type # "control"
        BY <2>2
      <4> QED
        BY ZenonT(60), <1>5, <4>1, FrameFacts
    <3>2. y \in Seq(Frames) /\ Len(y) = Len(out[p]) + 1
      <4> DEFINE s == out[p]
                 x == Frame("ack", f.key)
      <4>1. s \in Seq(Frames) /\ x \in Frames /\ y = Append(s, x)
        BY ZenonT(60), <1>1, <2>2, <3>1
      <4> HIDE DEF s, x
      <4>2. Append(s, x) \in Seq(Frames) /\ Len(Append(s, x)) = Len(s) + 1
        BY ZenonT(60), <4>1, Posting
      <4> QED
        BY ZenonT(60), <4>1, <4>2 DEF s
    <3>3. Len(out[p]) \in Nat
      BY ZenonT(60), <1>1, LenProperties
    <3>4. Len(y) <= Capacity
      BY SMTT(60), <2>2, <3>2, <3>3, CapacityAssumption
    <3> QED
      BY <3>2, <3>4
  <2> QED
    BY ZenonT(60), <1>3, <2>1, <2>2
<1>7. Len(t) <= Capacity
  <2>1. Len(out[r]) \in Nat /\ Len(out[r]) <= Capacity
    BY ZenonT(60), <1>0, <1>1, LenProperties
  <2> QED
    BY SMTT(60), <1>5, <2>1, CapacityAssumption
<1>8. ChannelTypes'
  <2>1. \A q \in Procs : out'[q] \in Seq(Frames) /\ Len(out'[q]) <= Capacity
    BY ZenonT(60), <1>0, <1>4, <1>5, <1>6, <1>7
  <2> QED
    BY ZenonT(60), <1>4, <2>1 DEF ChannelTypes
<1>9. \/ out'[p] = out[p]
      \/ /\ f.type = "withdraw" /\ Len(out[p]) < Capacity
         /\ out'[p] = Append(out[p], Frame("ack", f.key))
  BY ZenonT(60), <1>3, <1>4
<1>10. /\ \A g : Has(out[r], g) <=> g = f \/ Has(out'[r], g)
       /\ \A g, h : NoneAfter(out[r], g, h) =>
             NoneAfter(out'[r], g, h) /\ (g = f => ~Has(out'[r], h))
       /\ \A g, h : Followed(out[r], g, h) =>
             Followed(out'[r], g, h) /\ (g = f => Has(out'[r], h))
  BY ZenonT(60), <1>4, <1>5
<1> QED
  BY ZenonT(60), <1>1, <1>2, <1>5, <1>8, <1>9, <1>10 DEF Reads

\* On the reader's own channel an acknowledgement is all that is new.
LEMMA PumpOwn ==
    ASSUME IpcInv, NEW p \in Procs, NEW r, r = Peer(p), PumpFrame(p), NEW f, f = Head(out[r])
    PROVE  /\ \A g : Has(out[p], g) => Has(out'[p], g)
           /\ \A g : Has(out'[p], g) =>
                 Has(out[p], g) \/ (f.type = "withdraw" /\ g = Frame("ack", f.key))
           /\ \A g, h : NoneAfter(out[p], g, h) /\ h # Frame("ack", f.key) => NoneAfter(out'[p], g, h)
           /\ \A g, h : Followed(out[p], g, h) /\ g # Frame("ack", f.key) => Followed(out'[p], g, h)
<1>1. /\ f \in Frames /\ out[p] \in Seq(Frames)
      /\ \/ out'[p] = out[p]
         \/ f.type = "withdraw" /\ out'[p] = Append(out[p], Frame("ack", f.key))
  <2>1. out[p] \in Seq(Frames)
    BY ZenonT(60) DEF IpcInv, TypeInv, ChannelTypes
  <2>2. Reads(p, r, f)
    BY ZenonT(60), PumpEffect
  <2> QED
    BY ZenonT(60), <2>1, <2>2 DEF Reads
<1>2. CASE out'[p] = out[p]
  BY ZenonT(60), <1>2
<1>3. CASE f.type = "withdraw" /\ out'[p] = Append(out[p], Frame("ack", f.key))
  <2>1. Frame("ack", f.key) \in Frames
    <3>1. f.type # "control"
      BY <1>3
    <3> QED
      BY ZenonT(60), <1>1, <3>1, FrameFacts
  <2> DEFINE s == out[p]
             x == Frame("ack", f.key)
  <2>2. s \in Seq(Frames) /\ x \in Frames /\ out'[p] = Append(s, x)
    BY ZenonT(60), <1>1, <1>3, <2>1
  <2> HIDE DEF s, x
  <2>3. /\ \A g : Has(Append(s, x), g) <=> Has(s, g) \/ g = x
        /\ \A g, h : NoneAfter(s, g, h) /\ (h # x \/ ~Has(s, g)) => NoneAfter(Append(s, x), g, h)
        /\ \A g, h : g # x /\ (Followed(s, g, h) \/ h = x) => Followed(Append(s, x), g, h)
    BY ZenonT(60), <2>2, Posting
  <2> QED
    BY ZenonT(60), <1>3, <2>2, <2>3 DEF s, x
<1> QED
  BY ZenonT(60), <1>1, <1>2, <1>3

\* What pump changes for the reader's own keys: an acknowledgement was read.
LEMMA PumpMine ==
    ASSUME IpcInv, NEW p \in Procs, NEW r, r = Peer(p), PumpFrame(p), NEW f, f = Head(out[r]),
           NEW j \in KeysOf[p],
           imported'[r] = imported[r],
           \/ acks'[p][j] = acks[p][j]
           \/ f = Frame("ack", j) /\ acks[p][j] = "waiting" /\ acks'[p][j] = "acked"
    PROVE  KeyInv(p, j)'
<1>1. /\ UNCHANGED <<dialler, sock, gone, nextKey, exported, released>>
      /\ KeyInv(p, j)
  BY ZenonT(60) DEF PumpFrame, IpcInv, KeysInv
<1>2. \A g : Has(out[r], g) <=> g = f \/ Has(out'[r], g)
  <2>1. Reads(p, r, f)
    BY ZenonT(60), PumpEffect
  <2> QED
    BY ZenonT(60), <2>1 DEF Reads
<1>3. /\ \A g : Has(out[p], g) => Has(out'[p], g)
      /\ \A g : Has(out'[p], g) =>
            Has(out[p], g) \/ (f.type = "withdraw" /\ g = Frame("ack", f.key))
      /\ \A g, h : NoneAfter(out[p], g, h) /\ h # Frame("ack", f.key) => NoneAfter(out'[p], g, h)
      /\ \A g, h : Followed(out[p], g, h) /\ g # Frame("ack", f.key) => Followed(out'[p], g, h)
  BY ZenonT(60), PumpOwn
<1>4. /\ Frame("publish", j) # Frame("ack", f.key) /\ Frame("withdraw", j) # Frame("ack", f.key)
  BY FrameFacts
<1>5. /\ Publishing(p, j)' <=> Publishing(p, j)
      /\ Withdrawing(p, j)' <=> Withdrawing(p, j)
      /\ Answering(p, j)' => Answering(p, j)
      /\ f = Frame("ack", j) => Answering(p, j)
  BY ZenonT(60), <1>2, <1>3, <1>4 DEF Publishing, Withdrawing, Answering
<1>6. /\ NoneAfter(out[p], Frame("withdraw", j), Frame("publish", j))
           => NoneAfter(out'[p], Frame("withdraw", j), Frame("publish", j))
      /\ Followed(out[p], Frame("publish", j), Frame("withdraw", j))
           => Followed(out'[p], Frame("publish", j), Frame("withdraw", j))
  BY ZenonT(60), <1>3, <1>4
<1>7. Up(p)' <=> Up(p)
  BY ZenonT(60), <1>1 DEF Up
<1>8. imported'[Peer(p)][j] = imported[Peer(p)][j]
  BY ZenonT(60)
<1>9. CASE acks'[p][j] = acks[p][j]
  BY ZenonT(60), <1>1, <1>5, <1>6, <1>7, <1>8, <1>9, KeyKept
<1>10. CASE f = Frame("ack", j) /\ acks[p][j] = "waiting" /\ acks'[p][j] = "acked"
  <2>1. Cleared(p, j) /\ Retired(p, j) /\ released[p][j] = "no"
    <3>1. acks[p][j] # "none"
      BY <1>10
    <3> QED
      BY ZenonT(60), <1>1, <1>5, <1>10, <3>1 DEF KeyInv, InTurn, WithdrawnOnce, Cleared
  <2>2. Retired(p, j)' /\ Cleared(p, j)'
    BY ZenonT(60), <1>1, <1>5, <1>8, <2>1 DEF Retired, Cleared
  <2>3. InTurn(p, j)'
    BY ZenonT(60), <1>1, <1>5, <1>6, <2>2 DEF KeyInv, InTurn, Cleared, Retired
  <2>4. WithdrawnOnce(p, j)'
    BY ZenonT(60), <1>1, <2>1, <2>2 DEF WithdrawnOnce
  <2>5. Seen(p, j)'
    BY ZenonT(60), <1>1, <1>5, <1>6, <1>7, <1>8 DEF KeyInv, Seen
  <2> QED
    BY ZenonT(60), <2>3, <2>4, <2>5 DEF KeyInv
<1> QED
  BY ZenonT(60), <1>9, <1>10

\* And for the writer's: a publication or a withdrawal was read.
LEMMA PumpTheirs ==
    ASSUME IpcInv, NEW p \in Procs, NEW r \in Procs, r = Peer(p), PumpFrame(p),
           NEW f, f = Head(out[r]), NEW j \in KeysOf[r],
           acks'[r] = acks[r],
           f = Frame("publish", j) => imported'[p][j] = "known",
           f = Frame("withdraw", j) => imported'[p][j] = "no",
           f # Frame("publish", j) /\ f # Frame("withdraw", j) => imported'[p][j] = imported[p][j]
    PROVE  KeyInv(r, j)'
<1>1. /\ UNCHANGED <<dialler, sock, gone, nextKey, exported, released>>
      /\ KeyInv(r, j) /\ Peer(r) = p
  BY ZenonT(60), PeerFacts DEF PumpFrame, IpcInv, KeysInv
<1>2. /\ f \in Frames
      /\ \A g : Has(out[r], g) <=> g = f \/ Has(out'[r], g)
      /\ \A g, h : NoneAfter(out[r], g, h) =>
            NoneAfter(out'[r], g, h) /\ (g = f => ~Has(out'[r], h))
      /\ \A g, h : Followed(out[r], g, h) =>
            Followed(out'[r], g, h) /\ (g = f => Has(out'[r], h))
  <2>1. Reads(p, r, f)
    BY ZenonT(60), PumpEffect
  <2> QED
    BY ZenonT(60), <2>1 DEF Reads
<1>3. Answering(r, j)' => Answering(r, j) \/ f = Frame("withdraw", j)
  <2>1. \A g : Has(out'[p], g) =>
            Has(out[p], g) \/ (f.type = "withdraw" /\ g = Frame("ack", f.key))
    BY ZenonT(60), PumpOwn
  <2>2. f = Frame(f.type, f.key) /\ (Frame("ack", j) = Frame("ack", f.key) => j = f.key)
    BY <1>2, FrameFacts
  <2> QED
    BY ZenonT(60), <1>1, <2>1, <2>2 DEF Answering
<1>4. Up(r)' <=> Up(r)
  BY ZenonT(60), <1>1 DEF Up
<1>5. /\ NoneAfter(out[r], Frame("withdraw", j), Frame("publish", j))
           => /\ NoneAfter(out'[r], Frame("withdraw", j), Frame("publish", j))
              /\ f = Frame("withdraw", j) => ~Publishing(r, j)'
      /\ Followed(out[r], Frame("publish", j), Frame("withdraw", j))
           => /\ Followed(out'[r], Frame("publish", j), Frame("withdraw", j))
              /\ f = Frame("publish", j) => Withdrawing(r, j)'
      /\ Publishing(r, j) <=> f = Frame("publish", j) \/ Publishing(r, j)'
      /\ Withdrawing(r, j) <=> f = Frame("withdraw", j) \/ Withdrawing(r, j)'
  BY ZenonT(60), <1>2 DEF Publishing, Withdrawing
<1>6. Retired(r, j)' <=> Retired(r, j)
  BY ZenonT(60), <1>1 DEF Retired
<1>7. CASE f # Frame("publish", j) /\ f # Frame("withdraw", j)
  BY ZenonT(60), <1>1, <1>3, <1>4, <1>5, <1>7, KeyKept
<1>8. CASE f = Frame("publish", j)
  <2>1. f # Frame("withdraw", j) /\ Publishing(r, j) /\ imported'[p][j] # "no"
    BY SMTT(60), <1>5, <1>8, FrameFacts
  <2>2. InTurn(r, j)'
    BY ZenonT(60), <1>1, <1>3, <1>5, <1>6, <2>1 DEF KeyInv, InTurn, Cleared
  <2>3. WithdrawnOnce(r, j)'
    BY ZenonT(60), <1>1, <1>6 DEF KeyInv, WithdrawnOnce
  <2>4. Seen(r, j)'
    BY ZenonT(60), <1>1, <1>4, <1>5, <1>8, <2>1 DEF KeyInv, Seen
  <2> QED
    BY ZenonT(60), <2>2, <2>3, <2>4 DEF KeyInv
<1>9. CASE f = Frame("withdraw", j)
  <2>1. Retired(r, j) /\ ~Publishing(r, j)' /\ imported'[p][j] = "no" /\ j \notin exported'[r]
    BY ZenonT(60), <1>1, <1>5, <1>9 DEF KeyInv, InTurn, Retired
  <2>2. Cleared(r, j)'
    BY ZenonT(60), <1>1, <1>6, <2>1 DEF Cleared
  <2>3. InTurn(r, j)'
    BY ZenonT(60), <1>1, <1>5, <1>6, <2>1, <2>2 DEF KeyInv, InTurn
  <2>4. WithdrawnOnce(r, j)'
    BY ZenonT(60), <1>1, <1>6 DEF KeyInv, WithdrawnOnce
  <2>5. Seen(r, j)'
    BY ZenonT(60), <1>1, <2>1 DEF Seen, Publishing, Has, Followed
  <2> QED
    BY ZenonT(60), <2>3, <2>4, <2>5 DEF KeyInv
<1> QED
  BY ZenonT(60), <1>7, <1>8, <1>9

\* pump, with a frame to read.
LEMMA PumpKeeps ==
    ASSUME IpcInv, NEW p \in Procs, PumpFrame(p)
    PROVE  IpcInv'
<1>1. PICK r \in Procs : r = Peer(p) /\ r # p /\ \A q \in Procs : q = p \/ q = r
  BY ZenonT(60), PeerFacts
<1>2. PICK f : f = Head(out[r])
  OBVIOUS
<1>3. ChannelTypes' /\ dialler = "none" /\ p \in sock /\ f \in Frames
  <2>1. ChannelTypes' /\ dialler = "none" /\ p \in sock /\ Reads(p, r, f)
    BY ZenonT(60), <1>1, <1>2, PumpEffect
  <2> QED
    BY ZenonT(60), <2>1 DEF Reads
<1>4. f = Frame(f.type, f.key) /\ (f.type # "control" => f.key \in Keys)
  BY <1>3, FrameFacts
<1>5. /\ UNCHANGED <<dials, dialler, sock, gone, nextKey, exported, released, want>>
      /\ \/ /\ f.type = "publish" /\ acks' = acks
            /\ imported' = [imported EXCEPT ![p][f.key] = "known"]
         \/ /\ f.type = "withdraw" /\ acks' = acks
            /\ imported' = [imported EXCEPT ![p][f.key] = "no"]
         \/ /\ f.type = "ack" /\ imported' = imported
            /\ acks' = [acks EXCEPT ![p][f.key] = IF @ = "waiting" THEN "acked" ELSE @]
         \/ f.type = "control" /\ UNCHANGED <<imported, acks>>
  BY ZenonT(60), <1>1, <1>2 DEF PumpFrame, Withdrawn
<1>6. /\ imported \in [Procs -> [Keys -> Imports]] /\ acks \in [Procs -> [Keys -> Acks]]
      /\ gone \subseteq Procs
  BY ZenonT(60) DEF IpcInv, TypeInv, RegionTypes
<1>7. /\ imported' \in [Procs -> [Keys -> Imports]] /\ imported'[r] = imported[r]
      /\ \A k \in Keys : imported'[p][k] = "mapped" => imported[p][k] = "mapped"
      /\ \A j \in Keys : /\ f = Frame("publish", j) => imported'[p][j] = "known"
                         /\ f = Frame("withdraw", j) => imported'[p][j] = "no"
                         /\ f # Frame("publish", j) /\ f # Frame("withdraw", j)
                              => imported'[p][j] = imported[p][j]
  <2>1. ASSUME NEW v \in {"known", "no"}, f.key \in Keys,
               imported' = [imported EXCEPT ![p][f.key] = v]
        PROVE  /\ imported' \in [Procs -> [Keys -> Imports]] /\ imported'[r] = imported[r]
               /\ imported'[p][f.key] = v
               /\ \A j \in Keys : j # f.key => imported'[p][j] = imported[p][j]
    BY SMTT(60), <1>1, <1>6, <2>1 DEF Imports
  <2>2. \A j : /\ f = Frame("publish", j) <=> f.type = "publish" /\ f.key = j
               /\ f = Frame("withdraw", j) <=> f.type = "withdraw" /\ f.key = j
    BY <1>4, FrameFacts
  <2>3. CASE f.type = "publish" /\ imported' = [imported EXCEPT ![p][f.key] = "known"]
    <3>1. f.key \in Keys /\ f.type # "withdraw" /\ "known" # "mapped"
      BY <1>4, <2>3
    <3> QED
      BY ZenonT(60), <2>1, <2>2, <2>3, <3>1
  <2>4. CASE f.type = "withdraw" /\ imported' = [imported EXCEPT ![p][f.key] = "no"]
    <3>1. f.key \in Keys /\ f.type # "publish" /\ "no" # "mapped"
      BY SMTT(60), <1>4, <2>4
    <3> QED
      BY ZenonT(60), <2>1, <2>2, <2>4, <3>1
  <2>5. CASE f.type \in {"ack", "control"} /\ imported' = imported
    <3>1. f.type # "publish" /\ f.type # "withdraw"
      BY <2>5
    <3> QED
      BY ZenonT(60), <1>6, <2>2, <2>5, <3>1
  <2> QED
    BY ZenonT(60), <1>5, <2>3, <2>4, <2>5
<1>8. /\ acks' \in [Procs -> [Keys -> Acks]] /\ acks'[r] = acks[r]
      /\ \A j \in Keys : \/ acks'[p][j] = acks[p][j]
                         \/ f = Frame("ack", j) /\ acks[p][j] = "waiting" /\ acks'[p][j] = "acked"
  <2>1. CASE acks' = acks
    BY ZenonT(60), <1>6, <2>1
  <2>2. CASE f.type = "ack" /\ acks' = [acks EXCEPT ![p][f.key] = IF @ = "waiting" THEN "acked" ELSE @]
    <3>1. PICK k \in Keys : k = f.key /\ f = Frame("ack", k)
      BY ZenonT(60), <1>4, <2>2
    <3>2. /\ acks' \in [Procs -> [Keys -> Acks]] /\ acks'[r] = acks[r]
          /\ \A j \in Keys : j # k => acks'[p][j] = acks[p][j]
          /\ acks'[p][k] = IF acks[p][k] = "waiting" THEN "acked" ELSE acks[p][k]
      BY SMTT(60), <1>1, <1>6, <2>2, <3>1 DEF Acks
    <3> QED
      BY ZenonT(60), <3>1, <3>2
  <2> QED
    BY ZenonT(60), <1>5, <2>1, <2>2
<1>9. TypeInv'
  BY ZenonT(60), <1>3, <1>5, <1>7, <1>8 DEF IpcInv, TypeInv, RegionTypes
<1>10. GoneHoldsNothing'
  <2>1. \A q \in Procs : \A k \in Keys : imported'[q][k] = "mapped" => imported[q][k] = "mapped"
    BY ZenonT(60), <1>1, <1>7
  <2>2. gone' = gone
    BY <1>5
  <2> QED
    BY ZenonT(60), <1>6, <2>1, <2>2 DEF IpcInv, GoneHoldsNothing
<1>11. ClosedKnowsNothing'
  <2>1. \A q \in Procs \ sock : q = r /\ \A k \in Keys : imported[q][k] = "no"
    BY ZenonT(60), <1>1, <1>3 DEF IpcInv, ClosedKnowsNothing
  <2>2. dialler' \notin Procs /\ sock' = sock
    BY ZenonT(60), <1>3, <1>5, ProcsAssumption
  <2>3. imported'[r] = imported[r]
    BY <1>7
  <2>4. ASSUME NEW q \in Procs \ sock', NEW k \in Keys PROVE imported'[q][k] = "no"
    BY ZenonT(60), <2>1, <2>2, <2>3, <2>4
  <2> QED
    BY ZenonT(60), <2>2, <2>4 DEF ClosedKnowsNothing
<1>12. ASSUME NEW q \in Procs, NEW j \in KeysOf[q] PROVE KeyInv(q, j)'
  <2>1. j \in Keys
    BY ZenonT(60), KeyFacts
  <2>2. CASE q = p
    BY ZenonT(60), <1>1, <1>2, <1>7, <1>8, <2>1, <2>2, PumpMine
  <2>3. CASE q = r
    <3>1. /\ j \in KeysOf[r] /\ r = Peer(p) /\ acks'[r] = acks[r]
          /\ f = Frame("publish", j) => imported'[p][j] = "known"
          /\ f = Frame("withdraw", j) => imported'[p][j] = "no"
          /\ f # Frame("publish", j) /\ f # Frame("withdraw", j) => imported'[p][j] = imported[p][j]
      BY ZenonT(60), <1>1, <1>7, <1>8, <2>1, <2>3
    <3>2. KeyInv(r, j)'
      BY ZenonT(60), <1>2, <3>1, PumpTheirs
    <3> QED
      BY ZenonT(60), <2>3, <3>2
  <2> QED
    BY ZenonT(60), <1>1, <2>2, <2>3
<1> QED
  BY ZenonT(60), <1>9, <1>10, <1>11, <1>12 DEF IpcInv, KeysInv

-----------------------------------------------------------------------------
(* The theorems.                                                           *)

LEMMA IpcInit == Init => IpcInv
<1> SUFFICES ASSUME Init PROVE IpcInv
  OBVIOUS
<1> USE DEF Init
<1>1. <<>> \in Seq(Frames) /\ Len(<<>>) <= Capacity /\ 0 \in 0..MaxDials
      /\ (\A f : ~Has(<<>>, f)) /\ (\A f, g : NoneAfter(<<>>, f, g)) /\ {} \subseteq 1..(1 - 1)
  BY SMTT(60), CapacityAssumption DEF Has, NoneAfter
<1>2. ChannelTypes
  BY ZenonT(60), <1>1 DEF ChannelTypes
<1>3. RegionTypes
  BY SMTT(60) DEF RegionTypes, Imports, Acks, Releases
<1>4. TypeInv
  BY ZenonT(60), <1>1, <1>2, <1>3 DEF TypeInv
<1>5. GoneHoldsNothing /\ ClosedKnowsNothing
  BY ZenonT(60), ProcsAssumption DEF GoneHoldsNothing, ClosedKnowsNothing
<1>6. ASSUME NEW p \in Procs, NEW k \in KeysOf[p] PROVE KeyInv(p, k)
  <2>1. /\ Peer(p) \in Procs /\ k \in Keys /\ nextKey[p] = 1
        /\ acks[p][k] = "none" /\ released[p][k] = "no" /\ out[p] = <<>> /\ out[Peer(p)] = <<>>
    BY ZenonT(60), PeerFacts, KeyFacts
  <2>2. ~(k < nextKey[p])
    BY SMTT(60), <2>1, KeyFacts
  <2>3. /\ ~Publishing(p, k) /\ ~Withdrawing(p, k) /\ ~Answering(p, k) /\ ~Retired(p, k)
    BY ZenonT(60), <1>1, <2>1, <2>2 DEF Publishing, Withdrawing, Answering, Retired
  <2>4. "none" # "acked" /\ "no" # "acked"
    OBVIOUS
  <2>5. InTurn(p, k) /\ WithdrawnOnce(p, k)
    BY ZenonT(60), <1>1, <2>1, <2>3, <2>4 DEF InTurn, WithdrawnOnce
  <2>6. Seen(p, k)
    BY ZenonT(60) DEF Seen, Up
  <2> QED
    BY <2>5, <2>6 DEF KeyInv
<1> QED
  BY ZenonT(60), <1>4, <1>5, <1>6 DEF IpcInv, KeysInv

LEMMA IpcStep == IpcInv /\ [Next]_vars => IpcInv'
<1> SUFFICES ASSUME IpcInv, [Next]_vars PROVE IpcInv'
  OBVIOUS
<1>1. ASSUME NEW p \in Procs, Region(p) PROVE IpcInv'
  BY ZenonT(60), <1>1, RegisterKeeps, WithdrawKeeps, EndingKeeps DEF Region
<1>2. ASSUME NEW p \in Procs, Pump(p) PROVE IpcInv'
  BY ZenonT(60), <1>2, PumpKeeps, LeavingKeeps DEF Pump
<1>3. CASE UNCHANGED vars
  BY ZenonT(60), <1>3, SameKeeps DEF vars
<1> QED
  BY ZenonT(60), <1>1, <1>2, <1>3, DialKeeps, AcceptKeeps, LeavingKeeps, TransferKeeps, ControlKeeps
     DEF Next

\* The channels and both ends' tables of keys stay in step, whatever is
\* registered, withdrawn, lost with a socket or connected again.
THEOREM KeysStayInStep == Spec => []IpcInv
  BY IpcInit, IpcStep, PTL DEF Spec

\* Nobody keeps mapped what its owner believes unmapped: memory released on the
\* peer's acknowledgement (deregister_region), and the memory of a peer found
\* gone (peer_is_gone_locked).
THEOREM NobodyMapsReleasedMemory == Spec => []NoStaleMapping
<1>1. IpcInv => NoStaleMapping
  <2> SUFFICES ASSUME IpcInv PROVE NoStaleMapping
    OBVIOUS
  <2>1. TypeOK
    BY ZenonT(60) DEF IpcInv, TypeInv, ChannelTypes, RegionTypes, TypeOK, Imports, Acks
  <2>2. AcknowledgedIsUnmapped
    <3>1. ASSUME NEW p \in Procs, NEW k \in KeysOf[p], released[p][k] = "acked"
          PROVE  imported[Peer(p)][k] # "mapped"
      <4>1. imported[Peer(p)][k] = "no"
        BY ZenonT(60), <3>1 DEF IpcInv, KeysInv, KeyInv, InTurn, Cleared
      <4> QED
        BY <4>1
    <3> QED
      BY ZenonT(60), <3>1 DEF AcknowledgedIsUnmapped
  <2> QED
    BY ZenonT(60), <2>1, <2>2 DEF IpcInv, NoStaleMapping
<1> QED
  BY <1>1, KeysStayInStep, PTL

\* While both ends are up, what one knows of the other is what the other
\* exports, up to frames on their way (publish, withdraw, pump).
THEOREM ViewsStayTogether == Spec => []ViewsAgree
<1>1. IpcInv => ViewsAgree
  <2> SUFFICES ASSUME IpcInv, NEW p \in Procs \ gone, Procs \subseteq sock, NEW k \in KeysOf[p]
               PROVE  /\ k \in exported[p] =>
                           imported[Peer(p)][k] # "no" \/ Coming(p, "publish", k)
                      /\ (k \notin exported[p] /\ released[p][k] # "refused") =>
                           imported[Peer(p)][k] = "no" \/ Coming(p, "withdraw", k)
    BY ZenonT(60) DEF ViewsAgree
  <2>1. Seen(p, k) /\ Up(p)
    BY ZenonT(60), PeerFacts DEF IpcInv, KeysInv, KeyInv, Up
  <2> QED
    BY ZenonT(60), <2>1 DEF Seen, Publishing, Withdrawing, Has, Coming
<1> QED
  BY <1>1, KeysStayInStep, PTL
=============================================================================
