------------------------------ MODULE XdrCodec ------------------------------
(***************************************************************************)
(* packages/xdr: encode() and decode() of the codecs, the reader and the   *)
(* writer under their limits, and toXdr() and fromXdr() of one value on    *)
(* its way through bytes.                                                  *)
(*                                                                         *)
(* A byte is a number below Base, 256 in the code, and a word is four      *)
(* bytes, so that numbers stay small.  toXdr and fromXdr make a writer and *)
(* a reader of their own: after a failure neither is used again, and what  *)
(* it had consumed or entered is not looked at.                            *)
(***************************************************************************)
EXTENDS Codecs

CONSTANTS
  Base,          \* values of a byte; even
  Names,         \* names of the codecs that are exercised
  CodecOf(_),    \* the codec of a name, which lazy() looks up too
  ValuesOf(_),   \* values, some of them invalid, the caller encodes with it
  LimitsOf(_),   \* [depth, len] the caller passes
  ForeignOf(_),  \* bytes that come from elsewhere
  Cuts,          \* numbers of bytes that get lost at the end
  Tails,         \* bytes that end up behind an encoding
  NoArm          \* a union's value that is a bare key

ASSUME CodecAssumption ==
  /\ Base \in Nat \ {0} /\ Base % 2 = 0
  /\ \A n \in Names : LimitsOf(n) \subseteq [depth : Nat, len : Nat]

VARIABLES
  name,   \* which codec
  limits, \* limits of the writer and of the reader
  value,  \* what was encoded, or None
  sent,   \* what toXdr returned
  wire,   \* the bytes fromXdr is given
  state,  \* "value", "encoded", "refused", "decoded", "rejected"
  got,    \* what fromXdr returned
  error   \* what toXdr or fromXdr threw

vars == <<name, limits, value, sent, wire, state, got, error>>

-----------------------------------------------------------------------------
(* Bytes, most significant first. *)

Lowest(c) == IF c.signed THEN -(Base ^ c.bytes \div 2) ELSE 0
Highest(c) == (IF c.signed THEN Base ^ c.bytes \div 2 ELSE Base ^ c.bytes) - 1
IntRange(c) == Lowest(c) .. Highest(c)

Bytes(n, k) == [i \in 1..k |-> (n \div Base ^ (k - i)) % Base]
Unsigned(bs) ==
  LET upTo[i \in 0..Len(bs)] == IF i = 0 THEN 0 ELSE upTo[i - 1] * Base + bs[i]
  IN  upTo[Len(bs)]
Number(bs, c) ==
  IF c.signed /\ 2 * bs[1] >= Base THEN Unsigned(bs) - Base ^ c.bytes ELSE Unsigned(bs)

(* A character becomes the byte that its low bits are.                     *)
LowBytes(chars) == [i \in DOMAIN chars |-> chars[i] % Base]

Pad(n) == IF n % 4 = 0 THEN 0 ELSE 4 - (n % 4)
Zeros(n) == [i \in 1..n |-> 0]

-----------------------------------------------------------------------------
(* The LimitTracker, of a writer or a reader s.  An error stays: nothing   *)
(* is done after it.                                                       *)

NoError == "none"
Fail(s, e) == [s EXCEPT !.err = e]

ConsumeLen(s, n) ==
  [s EXCEPT !.consumed = @ + n,
            !.err = IF s.consumed + n > s.limits.len THEN "ByteLimitExceeded" ELSE @]

(* withDepth() before and after its function.                              *)
Enter(s) ==
  [s EXCEPT !.depth = @ + 1,
            !.err = IF s.depth + 1 > s.limits.depth THEN "DepthLimitExceeded" ELSE @]
(* Mutant: what was entered is not left.                                   *)
MutantLeaveNot(s) == s
Leave(s) == [s EXCEPT !.depth = @ - 1]

-----------------------------------------------------------------------------
(* XdrWriter and encode(). *)

Put(w, bs) ==
  LET c == ConsumeLen(w, Len(bs))
  IN  IF c.err # NoError THEN c ELSE [c EXCEPT !.bytes = @ \o bs]
PutNumber(w, n, c) ==
  IF n \in IntRange(c) THEN Put(w, Bytes(n, c.bytes)) ELSE Fail(w, "InvalidValue")
(* Mutant: no padding.                                                     *)
MutantPutUnpadded(w, bs) == Put(w, bs)
PutPadded(w, bs) == Put(w, bs \o Zeros(Pad(Len(bs))))

RECURSIVE Encode(_, _, _), EncodeAll(_, _, _)

(* Codecs cs, one after the other, on values vs.                           *)
EncodeAll(cs, vs, w) ==
  IF cs = <<>> \/ w.err # NoError THEN w
  ELSE EncodeAll(Tail(cs), Tail(vs), Encode(Head(cs), Head(vs), w))

EncodeOption(c, v, w) ==
  IF v = None THEN PutNumber(w, 0, Int32)
  ELSE Encode(c.of, v, PutNumber(w, 1, Int32))

(* Nothing follows the tag of a bare key, nor that of a void arm.          *)
EncodeUnion(c, v, w) ==
  IF ArmsOfKey(c, v.key) # {}
  THEN LET arm == ArmOfKey(c, v.key)
           tagged == Encode(c.switch, TagOfKey(c, v.key), w)
       IN  IF v.arm = NoArm \/ arm.of = None THEN tagged ELSE Encode(arm.of, v.arm, tagged)
  ELSE IF c.default = None THEN Fail(w, "InvalidUnionDiscriminant")
  ELSE LET tagged == Encode(c.switch, v.key, w)
       IN  IF v.arm = NoArm \/ c.default.of = None THEN tagged ELSE Encode(c.default.of, v.arm, tagged)

Encode(c, v, w) ==
  IF w.err # NoError THEN w ELSE
  CASE c.kind = "int" -> PutNumber(w, v, c)
    [] c.kind = "bool" -> PutNumber(w, IF v THEN 1 ELSE 0, Int32)
    [] c.kind = "void" -> w
    [] c.kind = "fixedOpaque" ->
         IF Len(v) # c.n THEN Fail(w, "LengthMismatch") ELSE PutPadded(w, v)
    [] c.kind = "varOpaque" ->
         IF Len(v) > c.max THEN Fail(w, "LengthExceedsMax")
         ELSE LET counted == PutNumber(w, Len(v), Uint32)
              IN  IF counted.err # NoError THEN counted ELSE PutPadded(counted, v)
    [] c.kind = "string" -> Encode(VarOpaque(c.max), LowBytes(v), w)
    [] c.kind = "fixedArray" ->
         IF Len(v) # c.n THEN Fail(w, "LengthMismatch")
         ELSE EncodeAll([i \in 1..c.n |-> c.of], v, w)
    [] c.kind = "varArray" ->
         IF Len(v) > c.max THEN Fail(w, "LengthExceedsMax")
         ELSE EncodeAll([i \in DOMAIN v |-> c.of], v, PutNumber(w, Len(v), Uint32))
    [] c.kind = "option" -> EncodeOption(c, v, w)
    [] c.kind = "struct" ->
         LET inside == Enter(w)
         IN  IF inside.err # NoError THEN inside
             ELSE Leave(EncodeAll([i \in DOMAIN c.fields |-> c.fields[i][2]],
                             [i \in DOMAIN c.fields |-> v[c.fields[i][1]]], inside))
    [] c.kind = "enum" ->
         IF v \in DOMAIN c.members THEN PutNumber(w, c.members[v], Int32)
         ELSE Fail(w, "InvalidEnumValue")
    [] c.kind = "union" ->
         LET inside == Enter(w)
         IN  IF inside.err # NoError THEN inside ELSE Leave(EncodeUnion(c, v, inside))
    [] c.kind = "lazy" -> Encode(CodecOf(c.name), v, w)

Writer(l) == [bytes |-> <<>>, consumed |-> 0, depth |-> 0, limits |-> l, err |-> NoError]

-----------------------------------------------------------------------------
(* XdrReader and decode(): a reader carries what was decoded last.         *)

Take(r, n) ==
  IF r.pos + n > Len(r.bytes) THEN Fail(r, "BufferUnderflow")
  ELSE LET c == ConsumeLen(r, n)
       IN  IF c.err # NoError THEN c
           ELSE [c EXCEPT !.pos = @ + n, !.val = SubSeq(r.bytes, r.pos + 1, r.pos + n)]

TakeNumber(r, c) ==
  LET t == Take(r, c.bytes)
  IN  IF t.err # NoError THEN t ELSE [t EXCEPT !.val = Number(t.val, c)]

(* Mutant: the padding is skipped without a look.                          *)
MutantTakePaddedUnseen(r, n) ==
  LET t == Take(r, n + Pad(n))
  IN  IF t.err # NoError THEN t ELSE [t EXCEPT !.val = SubSeq(t.val, 1, n)]
TakePadded(r, n) ==
  LET t == Take(r, n + Pad(n))
  IN  IF t.err # NoError THEN t
      ELSE IF SubSeq(t.val, n + 1, n + Pad(n)) # Zeros(Pad(n)) THEN Fail(t, "NonZeroPadding")
      ELSE [t EXCEPT !.val = SubSeq(t.val, 1, n)]

(* readBool(), of a bool and of an option: 0 or 1.                         *)
TakeBool(r) ==
  LET t == TakeNumber(r, Int32)
  IN  IF t.err # NoError THEN t
      ELSE IF t.val \in {0, 1} THEN [t EXCEPT !.val = (t.val = 1)]
      ELSE Fail(t, "InvalidValue")

TakeLength(r, max) ==
  LET t == TakeNumber(r, Uint32)
  IN  IF t.err = NoError /\ t.val > max THEN Fail(t, "LengthExceedsMax") ELSE t

RECURSIVE Decode(_, _), DecodeAll(_, _, _), DecodeStruct(_, _)

(* Codecs cs, one after the other; so far has what was decoded before.     *)
DecodeAll(cs, sofar, r) ==
  IF r.err # NoError THEN r
  ELSE IF cs = <<>> THEN [r EXCEPT !.val = sofar]
  ELSE LET d == Decode(Head(cs), r) IN DecodeAll(Tail(cs), Append(sofar, d.val), d)

DecodeStruct(fs, r) ==
  LET d == DecodeAll([i \in DOMAIN fs |-> fs[i][2]], <<>>, r)
  IN  IF d.err # NoError THEN d
      ELSE [d EXCEPT !.val =
             [f \in {fs[i][1] : i \in DOMAIN fs} |->
                d.val[CHOOSE i \in DOMAIN fs : fs[i][1] = f]]]

DecodeUnion(c, r) ==
  LET t == Decode(c.switch, r)
      With(key, of) ==
        IF of = None THEN [t EXCEPT !.val = [key |-> key, arm |-> NoArm]]
        ELSE LET d == Decode(of, t)
             IN  IF d.err # NoError THEN d ELSE [d EXCEPT !.val = [key |-> key, arm |-> d.val]]
  IN  IF t.err # NoError THEN t
      ELSE IF ArmsOfTag(c, t.val) # {}
        THEN With(KeyOf(ArmOfTag(c, t.val), t.val), ArmOfTag(c, t.val).of)
      ELSE IF c.default = None THEN Fail(t, "InvalidUnionDiscriminant")
      ELSE With(t.val, c.default.of)

Decode(c, r) ==
  IF r.err # NoError THEN r ELSE
  CASE c.kind = "int" -> TakeNumber(r, c)
    [] c.kind = "bool" -> TakeBool(r)
    [] c.kind = "void" -> [r EXCEPT !.val = None]
    [] c.kind = "fixedOpaque" -> TakePadded(r, c.n)
    [] c.kind = "varOpaque" ->
         LET l == TakeLength(r, c.max)
         IN  IF l.err # NoError THEN l ELSE TakePadded(l, l.val)
    [] c.kind = "string" -> Decode(VarOpaque(c.max), r)
    [] c.kind = "fixedArray" -> DecodeAll([i \in 1..c.n |-> c.of], <<>>, r)
    [] c.kind = "varArray" ->
         LET l == TakeLength(r, c.max)
         IN  IF l.err # NoError THEN l ELSE DecodeAll([i \in 1..l.val |-> c.of], <<>>, l)
    [] c.kind = "option" ->
         LET b == TakeBool(r)
         IN  IF b.err # NoError THEN b
             ELSE IF b.val THEN Decode(c.of, b) ELSE [b EXCEPT !.val = None]
    [] c.kind = "struct" ->
         LET inside == Enter(r)
         IN  IF inside.err # NoError THEN inside
             ELSE Leave(DecodeStruct(c.fields, inside))
    [] c.kind = "enum" ->
         LET t == TakeNumber(r, Int32)
             named == {m \in DOMAIN c.members : c.members[m] = t.val}
         IN  IF t.err # NoError THEN t
             ELSE IF named = {} THEN Fail(t, "InvalidEnumValue")
             ELSE [t EXCEPT !.val = CHOOSE m \in named : TRUE]
    [] c.kind = "union" ->
         LET inside == Enter(r)
         IN  IF inside.err # NoError THEN inside ELSE Leave(DecodeUnion(c, inside))
    [] c.kind = "lazy" -> Decode(CodecOf(c.name), r)

Reader(bs, l) ==
  [bytes |-> bs, pos |-> 0, consumed |-> 0, depth |-> 0, limits |-> l,
   err |-> NoError, val |-> None]

(* Mutant: what is left over is not looked for.                            *)
MutantEnsureEndNot(r) == r
EnsureEnd(r) ==
  IF r.err = NoError /\ r.pos # Len(r.bytes) THEN Fail(r, "BufferNotFullyConsumed") ELSE r

-----------------------------------------------------------------------------
(* A value goes through bytes. *)

Init ==
  /\ name \in Names /\ limits \in LimitsOf(name)
  /\ got = None /\ error = NoError
  /\ \/ /\ value \in ValuesOf(name)
        /\ sent = None /\ wire = <<>> /\ state = "value"
     \/ /\ wire \in ForeignOf(name)
        /\ value = None /\ sent = None /\ state = "encoded"

(* toXdr()                                                                 *)
Encoding == Encode(CodecOf(name), value, Writer(limits))
ToXdr ==
  /\ state = "value"
  /\ \E w \in {Encoding} :
       \/ /\ w.err = NoError
          /\ sent' = w.bytes /\ wire' = w.bytes /\ state' = "encoded" /\ UNCHANGED error
       \/ /\ w.err # NoError
          /\ error' = w.err /\ state' = "refused" /\ UNCHANGED <<sent, wire>>
  /\ UNCHANGED <<name, limits, value, got>>

(* Only a part of an encoding is there, or it is followed by other bytes.  *)
Cut ==
  /\ state = "encoded" /\ sent = wire
  /\ \E n \in Cuts : n <= Len(wire) /\ wire' = SubSeq(wire, 1, Len(wire) - n)
  /\ UNCHANGED <<name, limits, value, sent, state, got, error>>
Lengthen ==
  /\ state = "encoded" /\ sent = wire
  /\ \E tail \in Tails : wire' = wire \o tail
  /\ UNCHANGED <<name, limits, value, sent, state, got, error>>

(* fromXdr()                                                               *)
Decoding == EnsureEnd(Decode(CodecOf(name), Reader(wire, limits)))
FromXdr ==
  /\ state = "encoded"
  /\ \E r \in {Decoding} :
       \/ r.err = NoError /\ got' = r.val /\ state' = "decoded" /\ UNCHANGED error
       \/ r.err # NoError /\ error' = r.err /\ state' = "rejected" /\ UNCHANGED got
  /\ UNCHANGED <<name, limits, value, sent, wire>>

Next == ToXdr \/ Cut \/ Lengthen \/ FromXdr

Spec == Init /\ [][Next]_vars

-----------------------------------------------------------------------------
(* What a value is, how long and how deep: the definitions the encoder is  *)
(* checked against.                                                        *)

(* The codec of the arm a union's value has; None: it is void.             *)
ArmCodec(c, v) ==
  IF ArmsOfKey(c, v.key) # {} THEN ArmOfKey(c, v.key).of
  ELSE c.default.of

(* What is directly inside a value: place, codec and value.                *)
Parts(c, v) ==
  CASE c.kind \in {"fixedArray", "varArray"} -> {<<i, c.of, v[i]>> : i \in DOMAIN v}
    [] c.kind = "struct" -> {<<i, c.fields[i][2], v[c.fields[i][1]]>> : i \in DOMAIN c.fields}
    [] c.kind = "option" -> IF v = None THEN {} ELSE {<<1, c.of, v>>}
    [] c.kind = "union" ->
         IF ArmCodec(c, v) = None THEN {} ELSE {<<1, ArmCodec(c, v), v.arm>>}
    [] c.kind = "lazy" -> {<<1, CodecOf(c.name), v>>}
    [] OTHER -> {}

RECURSIVE Valid(_, _), Size(_, _), Nesting(_, _)

Valid(c, v) ==
  /\ CASE c.kind = "int" -> v \in IntRange(c)
       [] c.kind \in {"fixedOpaque", "fixedArray"} -> Len(v) = c.n
       [] c.kind \in {"varOpaque", "string", "varArray"} -> Len(v) <= c.max
       [] c.kind = "enum" -> v \in DOMAIN c.members
       [] c.kind = "union" -> ArmsOfKey(c, v.key) # {} \/ (c.default # None /\ Valid(c.switch, v.key))
       [] OTHER -> TRUE
  /\ \A p \in Parts(c, v) : Valid(p[2], p[3])

Size(c, v) ==
  (CASE c.kind = "int" -> c.bytes
     [] c.kind \in {"bool", "enum", "option", "union", "varArray"} -> 4
     [] c.kind = "fixedOpaque" -> Len(v) + Pad(Len(v))
     [] c.kind \in {"varOpaque", "string"} -> 4 + Len(v) + Pad(Len(v))
     [] OTHER -> 0)
  + MapThenSumSet(LAMBDA p : Size(p[2], p[3]), Parts(c, v))

Nesting(c, v) ==
  (IF c.kind \in {"struct", "union"} THEN 1 ELSE 0)
  + Max({0} \cup {Nesting(p[2], p[3]) : p \in Parts(c, v)})

-----------------------------------------------------------------------------
(* Properties. *)

CharactersAreBytes(c, v) == c.kind = "string" => \A i \in DOMAIN v : v[i] < Base

(* Every value toXdr() took under some limits comes back from fromXdr()    *)
(* under the same limits, and is the value: opaques of any length, arms    *)
(* that share a codec, and defaults included.  A string keeps every byte,  *)
(* of UTF-8 or not, as reader.ts:4 has it; nothing is said of one with a   *)
(* character that is no byte, of which writeString() keeps the low bits.   *)
RoundTrip ==
  sent # None /\ wire = sent /\ CharactersAreBytes(CodecOf(name), value) =>
    /\ state # "rejected"
    /\ state = "decoded" => got = value

(* A value is hashed and signed in the form toXdr() gives it.  So that the *)
(* hash is that of the bytes that came in, fromXdr() takes one encoding of *)
(* a value only.  A key that an arm gives to several tags is an exception. *)
OneTagPerKey ==
  LET c == CodecOf(name)
  IN  c.kind = "union" => \A i \in DOMAIN c.arms : c.arms[i].key # None => Len(c.arms[i].tags) = 1
OneEncoding ==
  state = "decoded" /\ OneTagPerKey =>
    LET again == Encode(CodecOf(name), got, Writer(limits))
    IN  again.err = NoError /\ again.bytes = wire

(* A part of an encoding, or an encoding with something behind it, is not  *)
(* taken for a value.                                                      *)
NoPartIsWhole == sent # None /\ wire # sent => state # "decoded"

(* toXdr() takes exactly the values of the codec's type that fit the       *)
(* limits, and the limits are in bytes and in nested structs and unions.   *)
EncodesWhatFits ==
  LET c == CodecOf(name)
      fits == Valid(c, value) /\ Size(c, value) <= limits.len
                              /\ Nesting(c, value) <= limits.depth
  IN  /\ state = "refused" => ~fits
      /\ sent # None => fits /\ Len(sent) = Size(c, value)
=============================================================================
