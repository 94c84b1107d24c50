---------------------------- MODULE CompatSchema ----------------------------
(***************************************************************************)
(* packages/stellar-base-comp/src/xdr-compat: what the factories of compat *)
(* classes and of converters are given, as records.                        *)
(***************************************************************************)
CONSTANT None   \* no switch enum, no arm

Conv(k) == [conv |-> k]
Id == Conv("identity")
Int64Conv == Conv("hyper")
Uint64Conv == Conv("unsignedHyper")
OpaqueStr == Conv("opaqueString")
BufferConv == Conv("buffer")
MemoTextConv == Conv("memoText")
OptionConv(inner) == [conv |-> "option", of |-> inner]
ArrayConv(inner) == [conv |-> "array", of |-> inner]
(* structConverter(), enumConverter(), unionConverter() of a class.        *)
Class(class) == [conv |-> "class", class |-> class]
LazyConv(class) == Class(class)

(* A field: its compat name, its modern name, its converter.               *)
Same(compat, convert) == <<compat, compat, convert>>
Renamed(compat, modern, convert) == <<compat, modern, convert>>
CompatStruct(codec, fields) == [conv |-> "struct", codec |-> codec, fields |-> fields]

(* members: the modern name of each compat name.                           *)
CompatEnum(codec, members) == [conv |-> "enum", codec |-> codec, members |-> members]

CompatArm(switchValues, modern, arm, convert) ==
  [switchValues |-> switchValues, modern |-> modern, arm |-> arm, convert |-> convert]
CompatVoid(switchValues, modern) == CompatArm(switchValues, modern, None, None)
(* switchEnum None: the discriminant is a number.                          *)
CompatUnion(codec, switchEnum, arms) ==
  [conv |-> "union", codec |-> codec, switchEnum |-> switchEnum, arms |-> arms]

CompatTypedef(codec, convert) ==
  [conv |-> "typedef", codec |-> codec, convert |-> convert]
=============================================================================
