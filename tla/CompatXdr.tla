----------------------------- MODULE CompatXdr -----------------------------
(***************************************************************************)
(* packages/stellar-base-comp/src/xdr-compat: the compat classes, and a    *)
(* compat object on its way from fromXDR() to toXDR().  fromXDR() decodes  *)
(* with the modern codec and builds the compat object from what comes out; *)
(* toXDR() builds the modern value again and encodes that.                 *)
(*                                                                         *)
(* A compat struct is a record of its attributes, an enum the compat name  *)
(* of its singleton, a union [switch, arm, value].                         *)
(***************************************************************************)
EXTENDS XdrCodec

CONSTANTS
  ClassOf(_),     \* the compat class of a name
  ViewOf(_),      \* the name of the class that views a codec's values, or None
  DefaultLimits   \* those of toXdr() and fromXdr() where none are passed

Word == Base ^ 4

VARIABLES
  view,      \* the compat object, or None
  rewritten  \* the bytes its toXDR() returned, or None

compatVars == <<view, rewritten>>

-----------------------------------------------------------------------------
(* Hyper and UnsignedHyper: signed low and high words. *)

AsSigned(w) == IF 2 * w >= Word THEN w - Word ELSE w
AsUnsigned(w) == w % Word
FromBigInt(n) ==
  LET unsigned == IF n < 0 THEN n + Word * Word ELSE n
  IN  [low |-> AsSigned(unsigned % Word), high |-> AsSigned(unsigned \div Word)]
UnsignedToBigInt(h) == AsUnsigned(h.high) * Word + AsUnsigned(h.low)
(* Mutant: the high word's sign is lost.                                   *)
MutantToBigIntUnsigned(h) == UnsignedToBigInt(h)
ToBigInt(h) ==
  LET unsigned == UnsignedToBigInt(h)
  IN  IF 2 * unsigned >= Word * Word THEN unsigned - Word * Word ELSE unsigned

(* TextDecoder and TextEncoder, on one-byte characters: what is not ASCII  *)
(* is replaced by a character of three bytes.                              *)
Replaced == Base
TextOf(bs) == [i \in DOMAIN bs |-> IF 2 * bs[i] < Base THEN bs[i] ELSE Replaced]
BytesOf(text) ==
  LET upTo[i \in 0..Len(text)] ==
        IF i = 0 THEN <<>>
        ELSE upTo[i - 1] \o (IF text[i] = Replaced THEN [j \in 1..3 |-> Base - 1] ELSE <<text[i]>>)
  IN  upTo[Len(text)]

-----------------------------------------------------------------------------
(* The maps createCompatUnion() and createCompatEnum() build. *)

ModernToArm(class, key) == {i \in DOMAIN class.arms : class.arms[i].modern = key}
SwitchToArm(class, sv) ==
  {i \in DOMAIN class.arms : \E j \in DOMAIN class.arms[i].switchValues :
                                class.arms[i].switchValues[j] = sv}
ModernToCompat(class, m) == {n \in DOMAIN class.members : class.members[n] = m}

-----------------------------------------------------------------------------
(* toCompat() and _fromModern(): Reads where they do not throw. *)

RECURSIVE Reads(_, _), ToCompat(_, _), ToModern(_, _)

Reads(c, m) ==
  CASE c.conv = "option" -> m # None => Reads(c.of, m)
    [] c.conv = "array" -> \A i \in DOMAIN m : Reads(c.of, m[i])
    [] c.conv = "class" -> Reads(ClassOf(c.class), m)
    [] c.conv = "typedef" -> Reads(c.convert, m)
    [] c.conv = "struct" -> \A i \in DOMAIN c.fields : Reads(c.fields[i][3], m[c.fields[i][2]])
    [] c.conv = "enum" -> ModernToCompat(c, m) # {}
    [] c.conv = "union" ->
         /\ ModernToArm(c, m.key) # {}
         /\ c.switchEnum # None => c.arms[Max(ModernToArm(c, m.key))].switchValues[1] \in
                                     DOMAIN ClassOf(c.switchEnum).members
         /\ m.arm # NoArm => \A i \in {Max(ModernToArm(c, m.key))} :
                                c.arms[i].convert # None => Reads(c.arms[i].convert, m.arm)
    [] OTHER -> TRUE

(* The switch is the first that the arm has.                               *)
UnionToCompat(c, m) ==
  LET arm == c.arms[Max(ModernToArm(c, m.key))]
  IN  [switch |-> arm.switchValues[1],
       arm |-> IF m.arm = NoArm THEN None ELSE arm.arm,
       value |-> CASE m.arm = NoArm -> None
                   [] m.arm # NoArm /\ arm.convert = None -> m.arm
                   [] OTHER -> ToCompat(arm.convert, m.arm)]

ToCompat(c, m) ==
  CASE c.conv = "hyper" -> FromBigInt(m)
    [] c.conv = "unsignedHyper" -> FromBigInt(m)
    [] c.conv = "opaqueString" -> TextOf(m)
    [] c.conv = "option" -> IF m = None THEN None ELSE ToCompat(c.of, m)
    [] c.conv = "array" -> [i \in DOMAIN m |-> ToCompat(c.of, m[i])]
    [] c.conv = "class" -> ToCompat(ClassOf(c.class), m)
    [] c.conv = "typedef" -> ToCompat(c.convert, m)
    [] c.conv = "struct" ->
         [f \in {c.fields[i][1] : i \in DOMAIN c.fields} |->
            LET field == c.fields[CHOOSE i \in DOMAIN c.fields : c.fields[i][1] = f]
            IN  ToCompat(field[3], m[field[2]])]
    [] c.conv = "enum" -> CHOOSE n \in ModernToCompat(c, m) : TRUE
    [] c.conv = "union" -> UnionToCompat(c, m)
    [] OTHER -> m   \* identity, a Buffer's bytes, a memo's text

-----------------------------------------------------------------------------
(* toModern() and _toModern(). *)

UnionToModern(c, v) ==
  LET arm == c.arms[Max(SwitchToArm(c, v.switch))]
  IN  [key |-> arm.modern,
       arm |-> CASE arm.arm = None -> NoArm
                 [] arm.arm # None /\ arm.convert = None -> v.value
                 [] OTHER -> ToModern(arm.convert, v.value)]

ToModern(c, v) ==
  CASE c.conv = "hyper" -> ToBigInt(v)
    [] c.conv = "unsignedHyper" -> UnsignedToBigInt(v)
    [] c.conv = "opaqueString" -> BytesOf(v)
    [] c.conv = "option" -> IF v = None THEN None ELSE ToModern(c.of, v)
    [] c.conv = "array" -> [i \in DOMAIN v |-> ToModern(c.of, v[i])]
    [] c.conv = "class" -> ToModern(ClassOf(c.class), v)
    [] c.conv = "typedef" -> ToModern(c.convert, v)
    [] c.conv = "struct" ->
         [f \in {c.fields[i][2] : i \in DOMAIN c.fields} |->
            LET field == c.fields[CHOOSE i \in DOMAIN c.fields : c.fields[i][2] = f]
            IN  ToModern(field[3], v[field[1]])]
    [] c.conv = "enum" -> c.members[v]
    [] c.conv = "union" -> UnionToModern(c, v)
    [] OTHER -> v

-----------------------------------------------------------------------------
(* fromXDR() after its fromXdr(), and toXDR(). *)

CompatInit == Init /\ view = None /\ rewritten = None

Viewer == ClassOf(ViewOf(name))
Viewable == state = "decoded" /\ limits = DefaultLimits /\ ViewOf(name) # None

FromModern ==
  /\ Viewable /\ Reads(Viewer, got)
  /\ view' = ToCompat(Viewer, got)
  /\ state' = "viewed"
  /\ UNCHANGED <<name, limits, value, sent, wire, got, error, rewritten>>
FromModernThrows ==
  /\ Viewable /\ ~Reads(Viewer, got)
  /\ error' = "Unknown modern union key"
  /\ state' = "unviewable"
  /\ UNCHANGED <<name, limits, value, sent, wire, got, compatVars>>

Rewriting == Encode(CodecOf(name), ToModern(Viewer, view), Writer(DefaultLimits))
ToXDR ==
  /\ state = "viewed"
  /\ \E w \in {Rewriting} :
       \/ w.err = NoError /\ rewritten' = w.bytes /\ state' = "rewritten" /\ UNCHANGED error
       \/ w.err # NoError /\ error' = w.err /\ state' = "unwritable" /\ UNCHANGED rewritten
  /\ UNCHANGED <<name, limits, value, sent, wire, got, view>>

CompatNext ==
  \/ Next /\ UNCHANGED compatVars
  \/ FromModern \/ FromModernThrows \/ ToXDR

CompatSpec == CompatInit /\ [][CompatNext]_<<vars, compatVars>>

-----------------------------------------------------------------------------
(* Properties. *)

(* Where several switch values share an arm, the modern codec has a key    *)
(* for each of them and the class knows the first.  Text is kept that is   *)
(* ASCII.  Kept: none of the others is in a value.                         *)
RECURSIVE Kept(_, _)
Kept(c, m) ==
  CASE c.conv = "opaqueString" -> \A i \in DOMAIN m : 2 * m[i] < Base
    [] c.conv = "option" -> m # None => Kept(c.of, m)
    [] c.conv = "array" -> \A i \in DOMAIN m : Kept(c.of, m[i])
    [] c.conv = "class" -> Kept(ClassOf(c.class), m)
    [] c.conv = "typedef" -> Kept(c.convert, m)
    [] c.conv = "struct" -> \A i \in DOMAIN c.fields : Kept(c.fields[i][3], m[c.fields[i][2]])
    [] c.conv = "union" ->
         /\ m.key \in {c.arms[i].modern : i \in DOMAIN c.arms}
         /\ \/ m.arm = NoArm
            \/ \E i \in DOMAIN c.arms : /\ c.arms[i].modern = m.key
                                        /\ Kept(c.arms[i].convert, m.arm)
    [] OTHER -> TRUE

(* Reading bytes into a compat object and writing it gives the bytes back: *)
(* what was signed stays what is submitted.                                *)
ViewKeepsBytes ==
  /\ state = "rewritten" => rewritten = wire
  /\ state \notin {"unviewable", "unwritable"}
ViewKeepsKeptBytes ==
  ViewOf(name) # None /\ got # None /\ Kept(Viewer, got) => ViewKeepsBytes
============================================================================
