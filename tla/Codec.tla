------------------------------- MODULE Codec -------------------------------
(***************************************************************************)
(* What engines send each other as bytes: the metadata envelope            *)
(* (engine_impl.cpp), region descriptors (region_impl.cpp), and the bodies *)
(* of control messages (control_message.cpp).  Blobs travel out of band,   *)
(* through the application, so one may arrive cut short or with bytes      *)
(* after its end.  Numbers are two bytes each and the fixed parts are      *)
(* scaled down; the order of fields and every length check are the code's. *)
(***************************************************************************)
EXTENDS Integers, Sequences, SequencesExt

CONSTANTS
    Envelopes,     \* sequences of [name, meta], each a sequence of bytes
    KeyTables,     \* sequences of [name, key]
    IdBytes,       \* kIdentityBytes, scaled
    KeyBytes       \* bytes of a key, scaled

VARIABLES
    message,   \* what was encoded: [kind, body]
    wire,      \* the bytes that have arrived
    change     \* what happened to them: "none", "cut" or "grown"

vars == <<message, wire, change>>

put_u16(v) == <<v % 256, v \div 256>>
Filler(n) == [i \in 1..n |-> 7]

\* Reading, from 0.  A position past the end of the vector gives a byte all
\* the same.
ByteAt(w, i) == IF i < Len(w) THEN w[i + 1] ELSE 0
Bytes(w, i, n) == [k \in 1..n |-> ByteAt(w, i + k - 1)]
u16_at(w, i) == ByteAt(w, i) + 256 * ByteAt(w, i + 1)

Refused(why, at) == [status |-> why, at |-> at, got |-> <<>>]

-----------------------------------------------------------------------------
(* The metadata envelope.                                                  *)

kMetadataMagic == <<33, 72, 85, 88>>
kMetadataMajor == 1
HeaderBytes == IdBytes + 8

\* local_metadata
encode_metadata(metas) ==
    Filler(IdBytes) \o kMetadataMagic \o put_u16(kMetadataMajor) \o put_u16(0)
        \o put_u16(Len(metas))
        \o FlattenSeq([i \in DOMAIN metas |-> put_u16(Len(metas[i].name)) \o metas[i].name
                                     \o put_u16(Len(metas[i].meta)) \o metas[i].meta])

NameFits(w, at, n) == Len(w) >= at + n + 2

\* One entry, at most as far as a check allows.
MetaEntry(w, done) ==
    LET nameLength == u16_at(w, done.at)
        nameAt == done.at + 2
        metaAt == nameAt + nameLength + 2
        metaLength == u16_at(w, metaAt - 2)
    IN  IF done.status # "Ok" \/ Len(w) < done.at + 2 THEN [done EXCEPT !.status = "InvalidArgument"]
        ELSE IF ~ NameFits(w, nameAt, nameLength) THEN Refused("InvalidArgument", nameAt)
        ELSE IF Len(w) < metaAt + metaLength THEN Refused("InvalidArgument", metaAt)
        ELSE [status |-> "Ok", at |-> metaAt + metaLength,
              got |-> Append(done.got, [name |-> Bytes(w, nameAt, nameLength),
                                        meta |-> Bytes(w, metaAt, metaLength)])]

\* Slip: bytes after the last entry are let pass.
AnyEnd(w, at) == TRUE
AtEnd(w, at) == at = Len(w)

Whole(w, done) ==
    IF done.status = "Ok" /\ ~ AtEnd(w, done.at) THEN Refused("InvalidArgument", done.at) ELSE done

\* The part of add_peer that reads: without the magic the blob is one
\* provider's own, of another major it is refused, and as an envelope it is
\* read to its last byte or refused.
decode_metadata(w) ==
    IF Len(w) < HeaderBytes \/ Bytes(w, IdBytes, 4) # kMetadataMagic
    THEN Refused("Bare", 0)
    ELSE IF u16_at(w, IdBytes + 4) # kMetadataMajor THEN Refused("Unsupported", IdBytes + 6)
    ELSE IF Len(w) < HeaderBytes + 2 THEN Refused("InvalidArgument", HeaderBytes)
    ELSE LET count == u16_at(w, HeaderBytes)
             entries[i \in 0..count] ==
                 IF i = 0 THEN [status |-> "Ok", at |-> HeaderBytes + 2, got |-> <<>>]
                 ELSE MetaEntry(w, entries[i - 1])
         IN  Whole(w, entries[count])

-----------------------------------------------------------------------------
(* Region descriptors.  The fields between the version and the keys are    *)
(* of fixed length.                                                        *)

kDescriptorMajor == 2
kDescriptorBytes == 4 + IdBytes + 3

encode_descriptor(keys) ==
    put_u16(kDescriptorMajor) \o put_u16(0) \o Filler(kDescriptorBytes - 4)
        \o put_u16(Len(keys))
        \o FlattenSeq([i \in DOMAIN keys |-> put_u16(Len(keys[i].name)) \o keys[i].name \o keys[i].key])

KeyEntry(w, done) ==
    LET nameLength == u16_at(w, done.at)
        nameAt == done.at + 2
        keyAt == nameAt + nameLength
    IN  IF done.status # "Ok" \/ Len(w) < done.at + 2 THEN [done EXCEPT !.status = "InvalidArgument"]
        ELSE IF Len(w) < keyAt + KeyBytes THEN Refused("InvalidArgument", nameAt)
        ELSE [status |-> "Ok", at |-> keyAt + KeyBytes,
              got |-> Append(done.got, [name |-> Bytes(w, nameAt, nameLength),
                                        key |-> Bytes(w, keyAt, KeyBytes)])]

\* A descriptor that ends before its keys has none.
decode_descriptor(w) ==
    IF Len(w) < kDescriptorBytes THEN Refused("InvalidArgument", 0)
    ELSE IF u16_at(w, 0) # kDescriptorMajor THEN Refused("Unsupported", 4)
    ELSE IF Len(w) = kDescriptorBytes
         THEN [status |-> "Ok", at |-> kDescriptorBytes, got |-> <<>>]
    ELSE IF Len(w) < kDescriptorBytes + 2 THEN Refused("InvalidArgument", kDescriptorBytes)
    ELSE LET count == u16_at(w, kDescriptorBytes)
             entries[i \in 0..count] ==
                 IF i = 0 THEN [status |-> "Ok", at |-> kDescriptorBytes + 2, got |-> <<>>]
                 ELSE KeyEntry(w, entries[i - 1])
         IN  Whole(w, entries[count])

-----------------------------------------------------------------------------
(* Control messages: an invalidation, with the origin or, from an older    *)
(* sender, without; and a handoff, of one length.                          *)

kRegionInvalidateBytes == 3
kRegionInvalidateWithOriginBytes == kRegionInvalidateBytes + IdBytes
kReadyHandoffBytes == 5

encode_region_invalidate(origin) == Filler(kRegionInvalidateBytes) \o origin
encode_ready_handoff(body) == body

decode_region_invalidate(w) ==
    IF Len(w) # kRegionInvalidateBytes /\ Len(w) < kRegionInvalidateWithOriginBytes
    THEN Refused("InvalidArgument", 0)
    ELSE IF Len(w) < kRegionInvalidateWithOriginBytes
    THEN [status |-> "Ok", at |-> kRegionInvalidateBytes, got |-> <<>>]
    ELSE [status |-> "Ok", at |-> kRegionInvalidateWithOriginBytes,
          got |-> Bytes(w, kRegionInvalidateBytes, IdBytes)]

decode_ready_handoff(w) ==
    IF Len(w) # kReadyHandoffBytes THEN Refused("InvalidArgument", 0)
    ELSE [status |-> "Ok", at |-> kReadyHandoffBytes, got |-> Bytes(w, 0, kReadyHandoffBytes)]

-----------------------------------------------------------------------------
encode(m) ==
    CASE m.kind = "metadata" -> encode_metadata(m.body)
      [] m.kind = "descriptor" -> encode_descriptor(m.body)
      [] m.kind = "invalidate" -> encode_region_invalidate(m.body)
      [] m.kind = "handoff" -> encode_ready_handoff(m.body)

decode(kind, w) ==
    CASE kind = "metadata" -> decode_metadata(w)
      [] kind = "descriptor" -> decode_descriptor(w)
      [] kind = "invalidate" -> decode_region_invalidate(w)
      [] kind = "handoff" -> decode_ready_handoff(w)

Messages ==
    {[kind |-> "metadata", body |-> b] : b \in Envelopes}
    \cup {[kind |-> "descriptor", body |-> b] : b \in KeyTables}
    \cup {[kind |-> "invalidate", body |-> b] : b \in {<<>>, Filler(IdBytes)}}
    \cup {[kind |-> "handoff", body |-> Filler(kReadyHandoffBytes)]}

Init ==
    /\ message \in Messages
    /\ wire = encode(message)
    /\ change = "none"

\* Any number of bytes is missing from the end, or there are more of them.
Cut ==
    /\ change # "grown" /\ wire # <<>>
    /\ wire' = SubSeq(wire, 1, Len(wire) - 1)
    /\ change' = "cut"
    /\ UNCHANGED message

Grow ==
    /\ change = "none"
    /\ \E tail \in {<<0>>, <<0, 0>>, put_u16(1), Filler(KeyBytes)} : wire' = wire \o tail
    /\ change' = "grown"
    /\ UNCHANGED message

Next == Cut \/ Grow

-----------------------------------------------------------------------------
(* Properties.                                                             *)

Read == decode(message.kind, wire)

\* A blob that arrives as it was sent is read as what was sent.
ReadBackAsWritten == change = "none" => Read.status = "Ok" /\ Read.got = message.body

\* The forms in which fewer bytes are a message of their own: a descriptor
\* without keys, an invalidation of an older sender, and what is too short to
\* be an envelope and is taken as a provider's blob.
ShortForm ==
    \/ message.kind = "descriptor" /\ Len(wire) = kDescriptorBytes
    \/ message.kind = "invalidate" /\ Len(wire) = kRegionInvalidateBytes
    \/ message.kind = "metadata" /\ Len(wire) < HeaderBytes

\* "a truncated descriptor must be refused, not parsed as far as it goes and
\* then used", and likewise the other blobs: only the documented short forms
\* are taken, and of an invalidation what a later minor appends.
OnlyTheWholeIsTaken ==
    \/ change = "none" \/ ShortForm
    \/ Read.status = "InvalidArgument"
    \/ message.kind = "invalidate" /\ change = "grown"
         /\ (message.body # <<>> => Read.got = message.body)

\* No decoder reads past the last byte of what it was given.
ReadsStayInside == Read.at <= Len(wire)

\* Every decoder reads back what the encoder wrote, takes nothing that was cut
\* or has grown for a message, and reads no byte it was not given.
ReadExactly == ReadBackAsWritten /\ OnlyTheWholeIsTaken /\ ReadsStayInside
=============================================================================
