------------------------------- MODULE StrKey -------------------------------
(***************************************************************************)
(* Strkeys: base32 of a version byte, a payload and a CRC16-XModem checksum *)
(* in little-endian order, with the typed strkeys of the strkey package and *)
(* the decoder of the compatibility package, which checks the same text     *)
(* again.  Data is a sequence of bits and a text a sequence of base32       *)
(* digits, NotADigit standing for any other character.  The checksum and    *)
(* the digits are the code's; keys, ids and lengths are scaled.             *)
(***************************************************************************)
EXTENDS Integers, Sequences, SequencesExt

CONSTANTS
    Bad,          \* the outcome of a call that throws
    KeyBytes,     \* bytes of a key or a hash (32 in the code)
    IdBytes,      \* bytes of a muxed id (8)
    Word,         \* the padding unit of a signed payload, in bytes (4)
    MaxInner      \* the longest inner payload, in bytes (64)

NotADigit == 32

\* The big-endian bits of n.
Bits(n, width) == [i \in 1 .. width |-> (n \div 2 ^ (width - i)) % 2]
ValueOf(bits) == FoldLeft(LAMBDA n, b : 2 * n + b, 0, bits)
Bytes(data) == Len(data) \div 8
ByteRange(data, from, to) == SubSeq(data, 8 * from + 1, 8 * to)
Zeros(bytes) == [i \in 1 .. 8 * bytes |-> 0]

-----------------------------------------------------------------------------
\* Base32 without padding: a tail of more than four bits is no encoding of
\* whole bytes, and an unused bit must be zero.

encodeBase32(data) ==
    LET padded == data \o [i \in 1 .. (5 - (Len(data) % 5)) % 5 |-> 0]
    IN  [c \in 1 .. Len(padded) \div 5 |-> ValueOf(SubSeq(padded, 5 * c - 4, 5 * c))]

\* The bits beyond the last byte may be anything.
decodeBase32Loose(text) ==
    IF \E c \in DOMAIN text : text[c] = NotADigit THEN Bad
    ELSE LET bits == FlattenSeq([c \in DOMAIN text |-> Bits(text[c], 5)])
         IN  IF Len(bits) % 8 > 4 THEN Bad ELSE SubSeq(bits, 1, Len(bits) - (Len(bits) % 8))

decodeBase32(text) ==
    IF \E c \in DOMAIN text : text[c] = NotADigit THEN Bad
    ELSE LET bits == [i \in 1 .. 5 * Len(text) |->
                        (text[(i + 4) \div 5] \div 2 ^ (4 - ((i + 4) % 5))) % 2]
             tail == Len(bits) % 8
         IN  IF tail > 4 \/ \E i \in Len(bits) - tail + 1 .. Len(bits) : bits[i] # 0
             THEN Bad ELSE SubSeq(bits, 1, Len(bits) - tail)

\* CRC16-XModem, one bit at a time: the register shifts left and takes the
\* polynomial 0x1021 when the bit shifted out differs from the data's.
crcStep(crc, bit) ==
    LET out == (crc[1] + bit) % 2
    IN  [i \in 1 .. 16 |-> (  (IF i = 16 THEN 0 ELSE crc[i + 1])
                            + (IF i \in {4, 11, 16} THEN out ELSE 0)) % 2]
crc16xmodem(data) == FoldLeft(crcStep, Zeros(2), data)

\* A checksum with its two bytes swapped.
LittleEndian(crc) == SubSeq(crc, 9, 16) \o SubSeq(crc, 1, 8)

encodeStrkey(version, payload) ==
    LET data == Bits(version, 8) \o payload
    IN  encodeBase32(data \o LittleEndian(crc16xmodem(data)))

decodeStrkey(text) ==
    LET data == decodeBase32(text)
    IN  IF data = Bad \/ Len(data) < 24 THEN Bad
        ELSE LET body == SubSeq(data, 1, Len(data) - 16)
             IN  IF LittleEndian(crc16xmodem(body)) # SubSeq(data, Len(data) - 15, Len(data))
                 THEN Bad
                 ELSE [version |-> ValueOf(SubSeq(body, 1, 8)),
                       payload |-> SubSeq(body, 9, Len(body))]

-----------------------------------------------------------------------------
\* Typed strkeys.

ED25519_PUBLIC    == 48
MUXED_ED25519     == 96
PRE_AUTH_TX       == 152
HASH_X            == 184
CONTRACT          == 16
SIGNED_PAYLOAD    == 120
ED25519_PRIVATE   == 144
LIQUIDITY_POOL    == 88
CLAIMABLE_BALANCE == 8

FixedVersions == {ED25519_PUBLIC, ED25519_PRIVATE, PRE_AUTH_TX, HASH_X, CONTRACT, LIQUIDITY_POOL}
KnownVersions == FixedVersions \cup {MUXED_ED25519, SIGNED_PAYLOAD, CLAIMABLE_BALANCE}

PaddingOf(inner) == (Word - (inner % Word)) % Word

strkeyToString(k) ==
    CASE k.version \in FixedVersions -> encodeStrkey(k.version, k.data)
      [] k.version = MUXED_ED25519 -> encodeStrkey(k.version, k.data \o k.id)
      [] k.version = SIGNED_PAYLOAD ->
            LET inner == Bytes(k.inner)
            IN  encodeStrkey(k.version, k.data \o Bits(inner, 8 * Word) \o k.inner
                                        \o Zeros(PaddingOf(inner)))
      [] k.version = CLAIMABLE_BALANCE -> encodeStrkey(k.version, Zeros(1) \o k.data)

\* The length a signed payload announces, and the bytes it should take.
InnerLength(payload) == ValueOf(ByteRange(payload, KeyBytes, KeyBytes + Word))
SignedPayloadSize(inner) == KeyBytes + Word + inner + PaddingOf(inner)

decodeSigned(payload) ==
    IF Bytes(payload) < KeyBytes + Word THEN Bad
    ELSE LET inner == InnerLength(payload)
         IN  IF inner > MaxInner \/ Bytes(payload) # SignedPayloadSize(inner)
                \/ \E i \in 8 * (KeyBytes + Word + inner) + 1 .. Len(payload) : payload[i] # 0
             THEN Bad
             ELSE [version |-> SIGNED_PAYLOAD, data |-> ByteRange(payload, 0, KeyBytes),
                   inner |-> ByteRange(payload, KeyBytes + Word, KeyBytes + Word + inner)]

\* The typed strkey of a version and a payload.
typedStrkey(version, payload) ==
    CASE version \in FixedVersions ->
            IF Bytes(payload) = KeyBytes THEN [version |-> version, data |-> payload] ELSE Bad
      [] version = MUXED_ED25519 ->
            IF Bytes(payload) # KeyBytes + IdBytes THEN Bad
            ELSE [version |-> version, data |-> ByteRange(payload, 0, KeyBytes),
                  id |-> ByteRange(payload, KeyBytes, KeyBytes + IdBytes)]
      [] version = SIGNED_PAYLOAD -> decodeSigned(payload)
      [] version = CLAIMABLE_BALANCE ->
            IF Bytes(payload) # KeyBytes + 1 \/ ByteRange(payload, 0, 1) # Zeros(1) THEN Bad
            ELSE [version |-> version, data |-> ByteRange(payload, 1, KeyBytes + 1)]
      [] OTHER -> Bad

strkeyFromString(text) ==
    LET raw == decodeStrkey(text)
    IN  IF raw = Bad THEN Bad ELSE typedStrkey(raw.version, raw.payload)

-----------------------------------------------------------------------------
\* The decoder of the compatibility package.  A signed payload may have any
\* padding there, and may not be empty.

validateSignedPayload(payload) ==
    /\ Bytes(payload) >= KeyBytes + Word
    /\ InnerLength(payload) \in 1 .. MaxInner
    /\ Bytes(payload) = SignedPayloadSize(InnerLength(payload))

ExpectedPayloadSize(version) ==
    CASE version \in FixedVersions -> KeyBytes
      [] version = MUXED_ED25519 -> KeyBytes + IdBytes
      [] version = CLAIMABLE_BALANCE -> KeyBytes + 1

decode(text, expectedVersion) ==
    LET raw == decodeStrkey(text)
    IN  IF /\ raw # Bad /\ raw.version = expectedVersion
           /\ raw.version \in KnownVersions
           /\ IF raw.version = SIGNED_PAYLOAD THEN validateSignedPayload(raw.payload)
              ELSE Bytes(raw.payload) = ExpectedPayloadSize(raw.version)
           /\ raw.version = CLAIMABLE_BALANCE => ByteRange(raw.payload, 0, 1) = Zeros(1)
           /\ encodeStrkey(raw.version, raw.payload) = text
        THEN raw.payload ELSE Bad

isValid(text, version) == text # <<>> /\ decode(text, version) # Bad

versionByteFromPrefix(text) ==
    IF Len(text) < 2 \/ NotADigit \in {text[1], text[2]} THEN Bad
    ELSE (8 * text[1] + text[2] \div 4) % 256

=============================================================================
