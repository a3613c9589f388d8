-------------------------- MODULE MCCodamaDecoder --------------------------
(***************************************************************************)
(* CodamaDecoder with bytes of four values and numbers of one or two of    *)
(* them, on one IDL per kind of type and of nesting, with every data of    *)
(* a few bytes and the encodings of small values, and on IDLs with parts   *)
(* that cannot be read, are missing or are there twice.                    *)
(***************************************************************************)
EXTENDS CodamaDecoder, TLC

MCWidthOf == [u8 |-> 1, u16 |-> 2, u32 |-> 2, u64 |-> 2, i64 |-> 2]

Num(format, endian) == [format |-> format, endian |-> endian]
U8 == Num("u8", "le")
U16 == Num("u16", "le")
N(number) == [kind |-> "number", number |-> number]
Option(item, fixed) == [kind |-> "option", item |-> item, prefix |-> U8, fixed |-> fixed]
Zeroable(item) == [kind |-> "zeroable", item |-> item]
Array(item, count) == [kind |-> "array", item |-> item, count |-> count]
Fixed(n) == [kind |-> "fixed", n |-> n]
Prefixed(number) == [kind |-> "prefixed", prefix |-> number]
RemainderCount == [kind |-> "remainder"]
Member(name, ty) == [name |-> name, ty |-> ty]
Struct(tys) == [kind |-> "struct", fields |-> [k \in 1..Len(tys) |-> Member(<<"a", "b">>[k], tys[k])]]
SizePrefix(item) == [kind |-> "size_prefix", item |-> item, prefix |-> U8]
FixedSize(n, item) == [kind |-> "fixed_size", size |-> n, item |-> item]
Variant(name, discriminator, fields) ==
  [name |-> name, discriminator |-> discriminator, fields |-> fields]
Enum(variants) == [kind |-> "enum", variants |-> variants, tag |-> U8]
Defined(name) == [kind |-> "defined", name |-> name]
Text == [kind |-> "string", encoding |-> "utf8"]
Raw == [kind |-> "bytes"]
Boolean == [kind |-> "boolean", number |-> U8]
PublicKey == [kind |-> "public_key"]

(* Types that encode each value in one way and that fixed_size_of_type and *)
(* the decoder see alike: no fixed option, no zeroable fixed_size.         *)
Simple == {N(U8), N(U16), N(Num("u16", "be")), N(Num("i64", "le")), N(Num("i64", "be")),
           Boolean, PublicKey, SizePrefix(Raw), SizePrefix(Text)}
Compound ==
  UNION {{Option(item, FALSE), Zeroable(item), FixedSize(2, item), SizePrefix(item),
          Array(item, Fixed(2)), Array(item, Prefixed(U8)), Array(item, RemainderCount),
          Struct(<<item, N(U8)>>)} : item \in {N(U8), N(Num("u16", "be")), PublicKey}}
  \cup {Array(Zeroable(N(U8)), RemainderCount), Option(Option(N(U8), FALSE), FALSE),
        Option(Zeroable(N(U8)), FALSE), Array(Option(N(U8), FALSE), RemainderCount),
        SizePrefix(Array(N(U8), RemainderCount)), FixedSize(3, SizePrefix(Raw)),
        Zeroable(Struct(<<N(U8), Boolean>>)), Zeroable(Array(N(U8), Fixed(2))),
        Struct(<<SizePrefix(Raw), SizePrefix(Text)>>), Array(SizePrefix(Raw), Prefixed(U16)),
        Enum(<<Variant("A", <<>>, <<>>), Variant("B", <<3>>, <<Member("x", N(U8))>>),
               Variant("C", <<>>, <<Member("x", Boolean), Member("y", Option(N(U8), FALSE))>>)>>),
        Defined("pair"), Option(Defined("pair"), FALSE), Defined("list"),
        Zeroable(Defined("pair"))}

(* A list refers to itself; a pair to another type.                        *)
Types == <<Member("list", Option(Defined("list"), FALSE)),
           Member("pair", Struct(<<Defined("half"), N(U8)>>)),
           Member("half", N(U8))>>

Digits(digits) == [kind |-> "bytes", encoding |-> "base16", digits |-> digits]
Count(n) == [kind |-> "number", n |-> n]
Discriminator(ty, default) ==
  [name |-> "discriminator", omitted |-> TRUE, ty |-> ty, default |-> default]
Argument(name, ty) ==
  [name |-> name, omitted |-> FALSE, ty |-> ty, default |-> [kind |-> "none"]]

(* One instruction with the type, and one after another one with none.     *)
ProgramWith(ty, types) ==
  [instructions |->
     <<[name |-> "stop", arguments |-> <<Discriminator(N(Num("u16", "be")), Count(8))>>],
       [name |-> "run", arguments |-> <<Argument("discriminator", N(U8)),
                                        Discriminator(SizePrefix(Raw), Digits(<<0, 1>>)),
                                        Argument("last", ty)>>]>>,
   types |-> types]

TypePrograms == {ProgramWith(ty, Types) : ty \in Simple \cup Compound}
TypeInputs == {<<1, 2>> \o rest : rest \in BoundedSeq(Bytes, 4)} \cup BoundedSeq(Bytes, 2)

(* Small values of a type.                                                 *)
Numbers(number) ==
  {n \in {-8, -1, 0, 1, 6, 15} : InRange(number, n)}
Keys == {[k \in 1..KeyLength |-> b] : b \in 0..1}

Wrap(kind, values) == {Value(kind, v) : v \in values}

RECURSIVE Values(_, _)
FieldValues(fields, depth) ==
  LET of(k) == {Field(fields[k].name, v) : v \in Values(fields[k].ty, depth)}
  IN  CASE Len(fields) = 0 -> {<<>>}
        [] Len(fields) = 1 -> {<<a>> : a \in of(1)}
        [] Len(fields) = 2 -> {<<a, b>> : a \in of(1), b \in of(2)}

Values(ty, depth) ==
  LET items == Values(ty.item, depth)
      zero(v) == AllZero(Encode(Types, ty.item, v))
  IN  CASE ty.kind = "number" -> Wrap("number", Numbers(ty.number))
        [] ty.kind = "boolean" -> Wrap("boolean", BOOLEAN)
        [] ty.kind = "public_key" -> Wrap("public_key", Keys)
        [] ty.kind \in {"bytes", "string"} -> Wrap(ty.kind, {<<>>, <<1>>, <<1, 2>>})
        [] ty.kind = "fixed_size" ->
             {v \in items : Len(Encode(Types, ty.item, v)) = ty.size}
        [] ty.kind = "size_prefix" ->
             {v \in items : ty.item.kind \in {"bytes", "string"}
                            \/ Len(Encode(Types, ty.item, v)) < Radix}
        [] ty.kind = "option" ->
             Wrap("option", {<<>>} \cup (IF depth = 0 THEN {} ELSE {<<v>> : v \in items}))
        [] ty.kind = "zeroable" -> Wrap("option", {<<>>} \cup {<<v>> : v \in {i \in items : ~zero(i)}})
        [] ty.kind = "array" /\ ty.count.kind = "fixed" ->
             Wrap("array", [1..ty.count.n -> items])
        [] ty.kind = "array" -> Wrap("array", BoundedSeq(items, 2))
        [] ty.kind = "struct" -> Wrap("struct", FieldValues(ty.fields, depth))
        [] ty.kind = "enum" ->
             UNION {[kind : {"enum"}, name : {ty.variants[k].name},
                     value : FieldValues(ty.variants[k].fields, depth)] : k \in 1..Len(ty.variants)}
        [] ty.kind = "defined" ->
             IF depth = 0 THEN {} ELSE Values(Entries(Types, ty.name)[1].ty, depth - 1)

MCCalls ==
  UNION {{[program |-> ProgramWith(ty, Types), name |-> "run",
           arguments |-> <<Field("discriminator", Value("number", 2)), Field("last", v)>>] :
            v \in Values(ty, 3)} : ty \in Simple \cup Compound}
  \cup {[program |-> ProgramWith(Boolean, Types), name |-> "stop", arguments |-> <<>>]}

(* IDLs with a part that cannot be read or is not there, types *)
(* of one name, discriminators of several instructions that match, fixed   *)
(* options, and a zeroable that the two walks over a type see differently. *)
Odd == N(Num("f32", "le"))
OddTypes ==
  {Types, <<>>, <<Member("half", Odd)>> \o Types, Types \o <<Member("half", Odd)>>,
   <<Member("pair", N(U8))>> \o Types}
OddSamples ==
  {N(U8), Odd, Defined("pair"), Defined("list"), Option(N(U16), TRUE),
   Zeroable(FixedSize(2, N(U16))), SizePrefix([kind |-> "string", encoding |-> "base58"]),
   SizePrefix([kind |-> "string", encoding |-> "latin1"]), Raw, FixedSize(2, Raw),
   Enum(<<Variant("A", <<>>, <<>>), Variant("B", <<>>, <<Member("x", Defined("absent"))>>)>>)}
SelectorLists ==
  {<<Digits(<<0, 1>>), Digits(<<0, 1, 0, 1>>)>>, <<Digits(<<0, 1, 0, 0>>), Digits(<<0, 1>>)>>,
   <<Count(1), Count(16)>>, <<Digits(<<0>>), Count(1)>>, <<[kind |-> "none"], Count(2)>>,
   <<Count(1), Count(1)>>}
OddPrograms ==
  {[instructions |-> [k \in 1..2 |->
      [name |-> <<"one", "two">>[k],
       arguments |-> <<Discriminator(N(U8), selectors[k]),
                       Argument("x", <<ty, N(U8)>>[k])>>]],
    types |-> types] : ty \in OddSamples, selectors \in SelectorLists, types \in OddTypes}
OddInputs == BoundedSeq({0, 1}, 4)

MCPrograms == TypePrograms \cup OddPrograms
MCInputs(p) == IF p \in TypePrograms THEN TypeInputs ELSE OddInputs

(* Counts of items.                                                        *)
CountPrograms == {ProgramWith(Array(item, Prefixed(U16)), Types) : item \in {N(U8), Defined("pair")}}
CountInputs(p) == TypeInputs
=============================================================================
