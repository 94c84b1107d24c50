---------------------------- MODULE MCCompatXdr ----------------------------
(* Instances of CompatXdr for TLC: the shapes that codecs have, on many    *)
(* values and under several limits, and every type of the protocol on a    *)
(* sample of its values.                                                   *)
EXTENDS XdrTypes, CompatXdr, SequencesExt

Compat == INSTANCE CompatTypes
ClassNamed == Compat!ClassNamed

-----------------------------------------------------------------------------
(* A struct of scalars, one of opaques and arrays, a string, an envelope   *)
(* (a union of structs), a recursive union like ClaimPredicate, a union    *)
(* with a default, and one whose tags share a key.                         *)
Letters == Enum([a |-> 0, b |-> 3, c |-> -1])
Shapes ==
  [scalars |-> Struct(<< <<"i", Int32>>, <<"o", Option(Bool)>>, <<"e", Letters>> >>),
   opaques |-> Struct(<< <<"v", VarOpaque(3)>>, <<"f", FixedOpaque(2)>> >>),
   text |-> XdrString(3),
   envelope |->
     Union(Enum([v0 |-> 0, tx |-> 2, bump |-> 5]),
           << ArmOf(<<"v0">>, Struct(<< <<"u", Uint32>>, <<"s", Struct(<< <<"b", Bool>> >>)>> >>)),
              ArmOf(<<"tx">>, FixedArray(2, Uint32)) >>, None),
   predicate |->
     Union(Enum([leaf |-> 0, all |-> 1, no |-> 2]),
           << VoidArm(<<"leaf">>), ArmOf(<<"all">>, VarArray(2, Lazy("predicate"))),
              ArmOf(<<"no">>, Option(Lazy("predicate"))) >>, None),
   default |-> Union(Int32, << ArmOf(<<1, 2>>, Int64) >>, Default(Bool)),
   keyed |-> Union(Uint32, << Arm(<<1, 2>>, 9, Uint64), VoidArm(<<0>>) >>, None)]

(* The shapes, then every codec of the protocol with the class that views *)
(* its values.                                                             *)
Both(f, g) == [n \in DOMAIN f \cup DOMAIN g |-> IF n \in DOMAIN f THEN f[n] ELSE g[n]]
Views(classes, codecs) ==
  [n \in DOMAIN codecs |->
     LET views == {c \in DOMAIN classes : classes[c].codec = n}
     IN  IF views = {} THEN None ELSE CHOOSE c \in views : TRUE]
SharingArms(classes) ==
  {classes[c].codec : c \in
     {c \in DOMAIN classes :
        /\ classes[c].conv = "union"
        /\ \E i \in DOMAIN classes[c].arms : Len(classes[c].arms[i].switchValues) > 1}}
Codec == Both(Shapes, CodecNamed)
Viewed == Views(ClassNamed, Codec)
MCNames == DOMAIN Codec
(* The unions in which several switch values of the class share an arm.    *)
MCSharingNames == SharingArms(ClassNamed)
MCCodecOf(n) == Codec[n]
MCClassOf(n) == ClassNamed[n]
MCViewOf(n) == Viewed[n]

-----------------------------------------------------------------------------
(* Values of the shapes. *)

Half == Base ^ 4 \div 2
Ints == {-Half - 1, -Half, -1, 0, 1, Half - 1, Half, 2 * Half - 1, 2 * Half}
High == Base - 1
V(k, a) == [key |-> k, arm |-> a]
Leaf == V("leaf", NoArm)
Predicates1 == {Leaf, V("no", None), V("no", Leaf), V("none", NoArm)}
Predicates2 == {V("all", ps) : ps \in SeqOf(Predicates1, 2)} \cup {V("no", p) : p \in Predicates1}
ShapeValues(n) ==
  CASE n = "scalars" -> [i : Ints, o : {None, TRUE, FALSE}, e : {"a", "b", "c", "d"}]
    [] n = "opaques" -> [v : SeqOf({0, 1, High}, 4), f : SeqOf({0, 1, High}, 3)]
    [] n = "text" -> SeqOf({0, 1, High, Base, Base + 1}, 4)
    [] n = "envelope" ->
         {V("v0", [u |-> u, s |-> [b |-> b]]) : u \in Ints, b \in BOOLEAN}
           \cup {V("tx", us) : us \in SeqOf({-1, 0, 2 * Half - 1}, 3)} \cup {V("bump", NoArm)}
    [] n = "predicate" -> Predicates1 \cup Predicates2
                            \cup {V("all", <<p, Leaf, Leaf>>) : p \in Predicates1}
                            \cup {V("no", p) : p \in Predicates2}
    [] n = "default" ->
         {V(k, i) : k \in {1, 2}, i \in {-2 * Half * Half - 1, -2 * Half * Half, -1, 0, Half}}
           \cup {V(k, b) : k \in {-Half - 1, -Half, 0, 3, Half - 1, Half}, b \in BOOLEAN}
    [] n = "keyed" -> {V(9, i) : i \in {-1, 0, Half}} \cup {V(0, NoArm)}

-----------------------------------------------------------------------------
(* A value of a codec, and values that differ from it in one part, at most *)
(* d structs and unions deep, some of them too long or out of range.       *)

Repeat(n, x) == [i \in 1..n |-> x]
RECURSIVE One(_), Variants(_, _)

One(c) ==
  CASE c.kind = "int" -> 1
    [] c.kind = "bool" -> TRUE
    [] c.kind \in {"void", "option"} -> None
    [] c.kind = "fixedOpaque" -> Repeat(c.n, 0)
    [] c.kind \in {"varOpaque", "string", "varArray"} -> <<>>
    [] c.kind = "fixedArray" -> Repeat(c.n, One(c.of))
    [] c.kind = "struct" ->
         [f \in {c.fields[i][1] : i \in DOMAIN c.fields} |->
            One(c.fields[CHOOSE i \in DOMAIN c.fields : c.fields[i][1] = f][2])]
    [] c.kind = "enum" -> CHOOSE m \in DOMAIN c.members : TRUE
    [] c.kind = "union" ->
         V(c.arms[1].tags[1], IF c.arms[1].of = None THEN NoArm ELSE One(c.arms[1].of))
    [] c.kind = "lazy" -> One(CodecOf(c.name))

Variants(c, d) ==
  CASE c.kind = "int" /\ d > 0 -> {Lowest(c), Highest(c), Highest(c) + 1}
    [] c.kind = "bool" /\ d > 0 -> BOOLEAN
    [] c.kind = "fixedOpaque" /\ d > 0 ->
         {Repeat(c.n, 1), Repeat(c.n, High), Repeat(c.n - 1, 1)}
    [] c.kind \in {"varOpaque", "string"} /\ d > 0 ->
         {<<>>, <<1, High, 1, 0, 1>>} \cup
           (IF c.max <= 64 THEN {Repeat(c.max, High), Repeat(c.max + 1, 1)} ELSE {})
    [] c.kind = "varArray" /\ d > 0 ->
         {<<One(c.of), One(c.of)>>} \cup {<<v>> : v \in Variants(c.of, d)} \cup
           (IF c.max <= 20 THEN {Repeat(c.max + 1, One(c.of))} ELSE {})
    [] c.kind = "option" /\ d > 0 -> {None} \cup Variants(c.of, d)
    [] c.kind = "struct" /\ d > 0 ->
         UNION {{[p[2] EXCEPT ![c.fields[p[1]][1]] = v] : v \in Variants(c.fields[p[1]][2], d - 1)} :
                  p \in (DOMAIN c.fields) \X {One(c)}}
    [] c.kind = "enum" /\ d > 0 -> DOMAIN c.members
    [] c.kind = "union" /\ d > 0 ->
         UNION {{V(c.arms[i].tags[j], a) :
                   a \in IF c.arms[i].of = None THEN {NoArm} ELSE Variants(c.arms[i].of, d - 1)} :
                  <<i, j>> \in {p \in (DOMAIN c.arms) \X (1..20) : p[2] <= Len(c.arms[p[1]].tags)}}
    [] c.kind = "lazy" /\ d > 0 -> Variants(CodecOf(c.name), d)
    [] OTHER -> {One(c)}

MCValuesOf(n) == IF n \in DOMAIN Shapes THEN ShapeValues(n) ELSE Variants(CodecOf(n), 2)

-----------------------------------------------------------------------------
MCDefaultLimits == [depth |-> 200, len |-> 100000]
MCLimitsOf(n) ==
  IF n \in DOMAIN Shapes
    THEN {MCDefaultLimits, [depth |-> 2, len |-> 64], [depth |-> 9, len |-> 10]}
    ELSE {MCDefaultLimits}

Words == {Bytes(w, 4) : w \in {0, 1, 2, 3, 2 * Half - 1, Half}} \cup {<<0, 1, 0, 0>>, <<1, 0, 0, 0>>}
ShapeForeign ==
  {<<>>, <<0, 0, 0>>} \cup [1..4 -> {0, 1, 3, High}]
    \cup {v \o w : v, w \in Words} \cup {u \o v \o w : u, v, w \in Words}
TypeForeign ==
  {Bytes(w, 4) \o t : w \in 0..20 \cup {2 * Half - 1}, t \in {<<>>, Repeat(4, 0), Repeat(8, 0)}}
MCForeignOf(n) == IF n \in DOMAIN Shapes THEN ShapeForeign ELSE TypeForeign
MCCuts == {1, 2, 3, 4, 8}
MCTails == {<<0>>, <<0, 0, 0, 0>>, <<0, 0, 0, 1>>}
============================================================================
