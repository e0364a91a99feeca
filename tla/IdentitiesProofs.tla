-------------------------- MODULE IdentitiesProofs --------------------------
(***************************************************************************)
(* What the conversions of identities keep, for every number of bytes and  *)
(* every number base: a GUID survives its text and its vector, so the      *)
(* filter of a connection passes what belongs to it and nothing else, and  *)
(* the order of the identities, the key order of the clients' caches, is a *)
(* strict one whose incomparable identities are the equal ones.            *)
(***************************************************************************)
EXTENDS Identities, WellFoundedInduction, TLAPS

\* Division with remainder by a positive number.
LEMMA DivMod ==
    ASSUME NEW n \in Nat, NEW b \in Nat \ {0}
    PROVE  /\ n \div b \in Nat /\ n % b \in 0 .. b - 1
           /\ n = (n \div b) * b + (n % b)
BY SMT

\* Both digits of a byte are digits.
LEMMA ByteHasTwoDigits ==
    ASSUME NEW n \in Bytes
    PROVE  /\ n \div Base \in Digits /\ n % Base \in Digits
           /\ n = (n \div Base) * Base + (n % Base)
<1>1. n \in Nat /\ n <= Base * Base - 1 /\ Base \in Nat \ {0}
  BY IdentityAssumption DEF Bytes
<1> DEFINE q == n \div Base
           r == n % Base
<1>2. q \in Nat /\ r \in 0 .. Base - 1 /\ n = q * Base + r
  BY <1>1, DivMod
<1> HIDE DEF q, r
<1>3. ASSUME q >= Base PROVE FALSE
  <2>1. q * Base >= Base * Base
    BY <1>1, <1>2, <1>3, Z3
  <2>2. q * Base <= Base * Base - 1
    BY <1>1, <1>2
  <2>3. QED BY <2>1, <2>2, <1>1, <1>2
<1>4. q \in 0 .. Base - 1
  BY <1>1, <1>2, <1>3
<1>5. QED BY <1>2, <1>4 DEF Digits, q, r

\* The places of the two digits of byte i in the text.
LEMMA DigitPlaces ==
    ASSUME NEW i \in Positions
    PROVE  /\ 2 * i - 1 \in 1 .. 2 * LENGTH /\ 2 * i \in 1 .. 2 * LENGTH
           /\ (2 * i - 1) % 2 = 1 /\ (2 * i) % 2 = 0
           /\ (2 * i - 1 + 1) \div 2 = i /\ (2 * i) \div 2 = i
BY IdentityAssumption DEF Positions

\* Every place of the text belongs to one of the bytes.
LEMMA PlacesOfBytes ==
    ASSUME NEW k \in 1 .. 2 * LENGTH
    PROVE  IF k % 2 = 1 THEN (k + 1) \div 2 \in Positions ELSE k \div 2 \in Positions
BY IdentityAssumption DEF Positions

\* The text of a GUID consists of digits.
LEMMA TextIsHexadecimal ==
    ASSUME NEW guid \in Guids
    PROVE  toString(guid) \in HexTexts
<1> SUFFICES ASSUME NEW k \in 1 .. 2 * LENGTH
             PROVE  (IF k % 2 = 1 THEN guid[(k + 1) \div 2] \div Base
                                  ELSE guid[k \div 2] % Base) \in Digits
  BY DEF toString, HexTexts
<1>1. CASE k % 2 = 1
  BY <1>1, PlacesOfBytes, ByteHasTwoDigits DEF Guids
<1>2. CASE k % 2 # 1
  BY <1>2, PlacesOfBytes, ByteHasTwoDigits DEF Guids
<1>3. QED BY <1>1, <1>2

\* ConnectionId(toString()) gives back the identity: two digits of each byte are
\* written and read at the same places, whatever the byte is.
THEOREM TextRoundTrip ==
    \A guid \in Guids : FromString(toString(guid)) = guid
<1> SUFFICES ASSUME NEW guid \in Guids
             PROVE  FromString(toString(guid)) = guid
  OBVIOUS
<1>1. ASSUME NEW i \in Positions
      PROVE  toString(guid)[2 * i - 1] * Base + toString(guid)[2 * i] = guid[i]
  <2>1. toString(guid)[2 * i - 1] = guid[i] \div Base
    BY DigitPlaces DEF toString
  <2>2. toString(guid)[2 * i] = guid[i] % Base
    <3> DEFINE k == 2 * i
    <3>1. k \in 1 .. 2 * LENGTH /\ k % 2 # 1 /\ k \div 2 = i
      BY DigitPlaces
    <3> HIDE DEF k
    <3>2. toString(guid)[k] = guid[k \div 2] % Base
      BY <3>1 DEF toString
    <3>3. QED BY <3>1, <3>2 DEF k
  <2>3. guid[i] = (guid[i] \div Base) * Base + (guid[i] % Base)
    BY ByteHasTwoDigits DEF Guids
  <2>4. QED BY <2>1, <2>2, <2>3
<1>2. FromString(toString(guid)) = [i \in Positions |-> guid[i]]
  BY <1>1 DEF FromString
<1>3. QED BY <1>2 DEF Guids

\* Two identities with the same text, the name of a connection's filtered topic, are
\* the same identity.
THEOREM TextsAreUnique ==
    \A g, h \in Guids : toString(g) = toString(h) => g = h
BY TextRoundTrip

\* An object sent with an identity is received with that identity and unchanged.
THEOREM DecoratorRoundTrip ==
    ASSUME NEW id \in CorrelationIds, NEW object
    PROVE  /\ extractCorrelationId(createDecoratedObject(id, object)) = id
           /\ createDecoratedObject(id, object).original_data = object
<1>1. FromVector(toVector(id.writer_guid)) = id.writer_guid
  BY DEF FromVector, toVector, CorrelationIds, Guids
<1>2. QED BY <1>1 DEF extractCorrelationId, createDecoratedObject, CorrelationIds

-----------------------------------------------------------------------------
\* The first byte in which two GUIDs differ decides, for both orders at once.
LEMMA GuidLessIsStrict ==
    ASSUME NEW g \in Guids, NEW h \in Guids, GuidLess(g, h)
    PROVE  g # h /\ ~GuidLess(h, g)
<1>1. PICK i \in Positions : Differ(g, h, i) /\ g[i] < h[i]
  BY DEF GuidLess
<1>2. ASSUME GuidLess(h, g) PROVE FALSE
  <2>1. PICK j \in Positions : Differ(h, g, j) /\ h[j] < g[j]
    BY <1>2 DEF GuidLess
  <2>2. i \in Nat /\ j \in Nat /\ i >= 1 /\ j >= 1
    BY IdentityAssumption DEF Positions
  <2>3. i = j
    BY <1>1, <2>1, <2>2 DEF Differ
  <2>4. g[i] \in Int /\ h[i] \in Int
    BY IdentityAssumption DEF Guids, Bytes
  <2>5. QED BY <1>1, <2>1, <2>3, <2>4
<1>3. QED BY <1>1, <1>2 DEF Differ

LEMMA GuidLessIsTransitive ==
    ASSUME NEW f \in Guids, NEW g \in Guids, NEW h \in Guids,
           GuidLess(f, g), GuidLess(g, h)
    PROVE  GuidLess(f, h)
<1>1. PICK i \in Positions : Differ(f, g, i) /\ f[i] < g[i]
  BY DEF GuidLess
<1>2. PICK j \in Positions : Differ(g, h, j) /\ g[j] < h[j]
  BY DEF GuidLess
<1>3. i \in Nat /\ j \in Nat /\ i >= 1 /\ j >= 1
  BY IdentityAssumption DEF Positions
<1>4. \A k \in Positions : f[k] \in Int /\ g[k] \in Int /\ h[k] \in Int
  BY IdentityAssumption DEF Guids, Bytes
<1>5. CASE i < j
  <2>1. g[i] = h[i]
    BY <1>2, <1>3, <1>5 DEF Differ
  <2>2. Differ(f, h, i) /\ f[i] < h[i]
    <3>1. \A k \in 1 .. i - 1 : f[k] = h[k]
      BY <1>1, <1>2, <1>3, <1>5 DEF Differ
    <3>2. QED BY <1>1, <2>1, <3>1 DEF Differ
  <2>3. QED BY <2>2 DEF GuidLess
<1>6. CASE j < i
  <2>1. f[j] = g[j]
    BY <1>1, <1>3, <1>6 DEF Differ
  <2>2. Differ(f, h, j) /\ f[j] < h[j]
    <3>1. \A k \in 1 .. j - 1 : f[k] = h[k]
      BY <1>1, <1>2, <1>3, <1>6 DEF Differ
    <3>2. QED BY <1>2, <2>1, <3>1 DEF Differ
  <2>3. QED BY <2>2 DEF GuidLess
<1>7. CASE i = j
  <2>1. f[i] < h[i] /\ f[i] # h[i]
    BY <1>1, <1>2, <1>4, <1>7
  <2>2. \A k \in 1 .. i - 1 : f[k] = h[k]
    BY <1>1, <1>2, <1>7 DEF Differ
  <2>3. QED BY <2>1, <2>2 DEF GuidLess, Differ
<1>8. QED BY <1>3, <1>5, <1>6, <1>7

\* Every set of naturals that is not empty has a least element.
LEMMA LeastNatural ==
    ASSUME NEW T, T \subseteq Nat, T # {}
    PROVE  \E i \in T : \A j \in T : i <= j
<1> DEFINE R == OpToRel(<, Nat)
<1>1. IsWellFoundedOn(R, Nat)
  BY NatLessThanWellFounded
<1>2. \A i, j \in Nat : <<j, i>> \in R <=> j < i
  BY DEF OpToRel
<1> HIDE DEF R
<1>3. PICK i \in T : \A j \in T : ~(<<j, i>> \in R)
  BY <1>1, WFMin
<1>4. ASSUME NEW j \in T PROVE i <= j
  <2>1. i \in Nat /\ j \in Nat
    OBVIOUS
  <2>2. ~(j < i)
    BY <1>2, <1>3, <2>1
  <2> QED  BY <2>1, <2>2
<1> QED  BY <1>4

\* Two different GUIDs have a first byte in which they differ.
LEMMA FirstDifference ==
    ASSUME NEW g \in Guids, NEW h \in Guids, g # h
    PROVE  \E i \in Positions : Differ(g, h, i)
<1> DEFINE T == {i \in Positions : g[i] # h[i]}
<1>1. T \subseteq Nat
  BY IdentityAssumption DEF Positions
<1>2. T # {}
  BY DEF Guids
<1>3. PICK i \in T : \A j \in T : i <= j
  BY <1>1, <1>2, LeastNatural
<1>4. ASSUME NEW j \in 1 .. i - 1 PROVE g[j] = h[j]
  <2>1. i \in 1 .. LENGTH /\ LENGTH \in Nat
    BY IdentityAssumption DEF Positions
  <2>2. j \in Positions /\ j < i
    BY <2>1 DEF Positions
  <2> QED  BY <1>1, <1>3, <2>2
<1> QED  BY <1>4 DEF Differ

\* ... so one of the two is less than the other.
LEMMA GuidLessIsTotal ==
    ASSUME NEW g \in Guids, NEW h \in Guids, g # h
    PROVE  GuidLess(g, h) \/ GuidLess(h, g)
<1>1. PICK i \in Positions : Differ(g, h, i)
  BY FirstDifference
<1>2. Differ(h, g, i)
  BY <1>1 DEF Differ
<1>3. g[i] \in Int /\ h[i] \in Int /\ g[i] # h[i]
  BY <1>1, IdentityAssumption DEF Guids, Bytes, Differ
<1> QED  BY <1>1, <1>2, <1>3 DEF GuidLess

\* less_than orders the keys of the clients' caches: strictly and transitively, and two
\* identities of which neither is less than the other, which a map takes for one key,
\* are those that equals_to calls equal.
THEOREM IdentitiesAreOrdered ==
    ASSUME NEW a \in CorrelationIds, NEW b \in CorrelationIds, NEW c \in CorrelationIds
    PROVE  /\ less_than(a, b) => ~less_than(b, a)
           /\ ~less_than(a, b) /\ ~less_than(b, a) <=> equals_to(a, b)
           /\ less_than(a, b) /\ less_than(b, c) => less_than(a, c)
<1>1. /\ a.writer_guid \in Guids /\ b.writer_guid \in Guids /\ c.writer_guid \in Guids
      /\ a.sequence_number \in Int /\ b.sequence_number \in Int
      /\ c.sequence_number \in Int
  BY DEF CorrelationIds
<1>2. less_than(a, b) => ~less_than(b, a) /\ ~equals_to(a, b)
  BY <1>1, GuidLessIsStrict DEF less_than, equals_to
<1>3. less_than(a, b) /\ less_than(b, c) => less_than(a, c)
  <2>1. CASE a.writer_guid = b.writer_guid \/ b.writer_guid = c.writer_guid
    BY <1>1, <2>1, GuidLessIsStrict DEF less_than
  <2>2. CASE a.writer_guid # b.writer_guid /\ b.writer_guid # c.writer_guid
    BY <1>1, <2>2, GuidLessIsStrict, GuidLessIsTransitive DEF less_than
  <2>3. QED BY <2>1, <2>2
<1>4. ~less_than(a, b) /\ ~less_than(b, a) => equals_to(a, b)
  BY <1>1, GuidLessIsTotal DEF less_than, equals_to
<1>5. equals_to(a, b) = equals_to(b, a)
  BY DEF equals_to
<1> QED  BY <1>1, <1>2, <1>3, <1>4, <1>5, GuidLessIsStrict DEF less_than, equals_to
=============================================================================
