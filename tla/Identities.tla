----------------------------- MODULE Identities -----------------------------
(***************************************************************************)
(* The identities that correlate the samples of a conversation:            *)
(* ConnectionId, the virtual GUID of a client's writer, CorrelationId, one *)
(* sample of that writer, and their conversions. In DDS a GUID has 16      *)
(* bytes and the text of a connection two hexadecimal digits for each.     *)
(***************************************************************************)
EXTENDS Integers

CONSTANTS Base,     \* the number of digits: 16
          LENGTH    \* the bytes of a GUID: rti::core::Guid::LENGTH

ASSUME IdentityAssumption == Base \in Nat \ {0} /\ LENGTH \in Nat \ {0}

Digits == 0 .. Base - 1
Bytes == 0 .. Base * Base - 1
Positions == 1 .. LENGTH
Guids == [Positions -> Bytes]
HexTexts == [1 .. 2 * LENGTH -> Digits]

\* ConnectionId::toString(): the bytes in order, each with both of its digits.
toString(guid) ==
    [k \in 1 .. 2 * LENGTH |->
        IF k % 2 = 1 THEN guid[(k + 1) \div 2] \div Base ELSE guid[k \div 2] % Base]

\* ConnectionId(std::string): a pair of digits for each byte.
OverlappingPairs(text) == [i \in Positions |-> text[i] * Base + text[i + 1]]
FromString(text) == [i \in Positions |-> text[2 * i - 1] * Base + text[2 * i]]

\* ConnectionId::toVector() and ConnectionId(std::vector), which leaves the GUID
\* zero when the vector has another length.
toVector(guid) == [size |-> LENGTH, bytes |-> [i \in Positions |-> guid[i]]]
FromVector(vector) ==
    [i \in Positions |-> IF vector.size = LENGTH THEN vector.bytes[i] ELSE 0]

-----------------------------------------------------------------------------
\* CorrelationId: the GUID of the writer and the number of the sample.
CorrelationIds == [writer_guid : Guids, sequence_number : Int]

\* operator< of rti::core::Guid: the first byte that differs decides.
Differ(g, h, i) == g[i] # h[i] /\ \A j \in 1 .. i - 1 : g[j] = h[j]
GuidLess(g, h) == \E i \in Positions : Differ(g, h, i) /\ g[i] < h[i]

less_than(a, b) ==
    IF a.writer_guid = b.writer_guid
      THEN a.sequence_number < b.sequence_number
      ELSE GuidLess(a.writer_guid, b.writer_guid)

equals_to(a, b) ==
    a.writer_guid = b.writer_guid /\ a.sequence_number = b.sequence_number

\* CorrelationIdDecorator: an object sent with the identity it belongs to.
createDecoratedObject(id, object) ==
    [connection_id |-> toVector(id.writer_guid),
     sequence_number |-> id.sequence_number,
     original_data |-> object]

extractCorrelationId(decorated) ==
    [writer_guid |-> FromVector(decorated.connection_id),
     sequence_number |-> decorated.sequence_number]
=============================================================================
