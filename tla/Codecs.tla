------------------------------- MODULE Codecs -------------------------------
(***************************************************************************)
(* packages/xdr: what the factory functions of primitives.ts,              *)
(* containers.ts and composites.ts make, as records.  A value of a struct  *)
(* is a record of its fields, one of an enum a member's name, one of a     *)
(* union [key, arm]; the arm is NoArm where the value is the bare key.     *)
(***************************************************************************)
EXTENDS Integers, Sequences, FiniteSetsExt

CONSTANT None   \* null of an option, no key, no codec

Int32 == [kind |-> "int", bytes |-> 4, signed |-> TRUE]
Uint32 == [kind |-> "int", bytes |-> 4, signed |-> FALSE]
Int64 == [kind |-> "int", bytes |-> 8, signed |-> TRUE]
Uint64 == [kind |-> "int", bytes |-> 8, signed |-> FALSE]
Bool == [kind |-> "bool"]
Void == [kind |-> "void"]
FixedOpaque(n) == [kind |-> "fixedOpaque", n |-> n]
VarOpaque(max) == [kind |-> "varOpaque", max |-> max]
XdrString(max) == [kind |-> "string", max |-> max]
FixedArray(n, c) == [kind |-> "fixedArray", n |-> n, of |-> c]
VarArray(max, c) == [kind |-> "varArray", max |-> max, of |-> c]
Option(c) == [kind |-> "option", of |-> c]
(* fs: pairs of a field's name and its codec, in order.                    *)
Struct(fs) == [kind |-> "struct", fields |-> fs]
(* ms: the number of each member's name.                                   *)
Enum(ms) == [kind |-> "enum", members |-> ms]
Lazy(n) == [kind |-> "lazy", name |-> n]
(* A codec inside another one, by its name in the tables: lazy() looks it  *)
(* up when it is used, the others are looked up before and are the same.   *)
Ref(n) == Lazy(n)

(* An arm: its tags, its key (None: the key is the tag), its codec (None:  *)
(* it is void).  default: an arm without tags, or None.                    *)
Arm(tags, key, c) == [tags |-> tags, key |-> key, of |-> c]
ArmOf(tags, c) == Arm(tags, None, c)
VoidArm(tags) == Arm(tags, None, None)
Default(c) == Arm(<<>>, None, c)
Union(switch, arms, default) ==
  [kind |-> "union", switch |-> switch, arms |-> arms, default |-> default]

KeyOf(arm, tag) == IF arm.key = None THEN tag ELSE arm.key

(* The arm and the tag an encoder finds for a key: the first of each.      *)
ArmsOfKey(c, key) ==
  {i \in DOMAIN c.arms : \E j \in DOMAIN c.arms[i].tags :
                            KeyOf(c.arms[i], c.arms[i].tags[j]) = key}
ArmOfKey(c, key) == c.arms[Min(ArmsOfKey(c, key))]
TagOfKey(c, key) ==
  LET arm == ArmOfKey(c, key)
  IN  arm.tags[Min({j \in DOMAIN arm.tags : KeyOf(arm, arm.tags[j]) = key})]
(* The arm a decoder finds for a tag: the last.                            *)
ArmsOfTag(c, tag) ==
  {i \in DOMAIN c.arms : \E j \in DOMAIN c.arms[i].tags : c.arms[i].tags[j] = tag}
ArmOfTag(c, tag) == c.arms[Max(ArmsOfTag(c, tag))]
=============================================================================
