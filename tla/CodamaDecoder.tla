--------------------------- MODULE CodamaDecoder ---------------------------
(***************************************************************************)
(* The decoder of instruction data: codama-parser/src/lib.rs.  An IDL is   *)
(* read in one of two ways: parse_program_index reads only the selectors   *)
(* and leaves each instruction to the moment it is needed, which is what   *)
(* the device and inspect-message do; parse_program_schema reads it whole. *)
(* The data of an instruction starts with its selector and goes on with    *)
(* its arguments, one after another, to the last byte.                     *)
(*                                                                         *)
(* An IDL is the tree its JSON text stands for.  Sizes are scaled down: a  *)
(* byte has Radix values, a public key KeyLength bytes, a number of a      *)
(* format WidthOf[format] bytes.                                           *)
(***************************************************************************)
EXTENDS Integers, Sequences, FiniteSets, SequencesExt

CONSTANTS
  NibbleRadix,  \* values of a hex digit (16)
  KeyLength,    \* bytes of a public key (32)
  WidthOf,      \* number_width: [format -> bytes]
  MaxUsize,     \* the largest usize
  MaxReserve,   \* the largest vector the heap has room for, in items
  NotUtf8,      \* bytes that make a string invalid
  Programs,     \* IDLs
  Inputs(_),    \* data for the instructions of an IDL
  Calls         \* [program, instruction, values]: what a client may encode

Radix == NibbleRadix * NibbleRadix
Bytes == 0..(Radix - 1)

VARIABLES
  program,  \* the IDL
  call,     \* the instruction and the values the data was encoded from, if any
  data,     \* instruction data
  decoded   \* what both ways of reading the IDL make of it
vars == <<program, call, data, decoded>>

-----------------------------------------------------------------------------
(* Results: a value and the bytes after it, an error, a panic, or a loop   *)
(* that never ends.                                                        *)
NoValue == [kind |-> "none"]
Ok(value, rest) == [status |-> "ok", value |-> value, rest |-> rest]
Stopped(status) == [status |-> status, value |-> NoValue, rest |-> <<>>]
Error == Stopped("error")

(* The next step of a decoding that has come this far.                     *)
Then(result, Step(_, _)) ==
  IF result.status = "ok" THEN Step(result.value, result.rest) ELSE result

Value(kind, v) == [kind |-> kind, value |-> v]
Field(name, v) == [name |-> name, value |-> v]

Drop(bytes, n) == SubSeq(bytes, n + 1, Len(bytes))

take_bytes(bytes, n) ==
  IF Len(bytes) < n THEN Error ELSE Ok(SubSeq(bytes, 1, n), Drop(bytes, n))

AllZero(bytes) == \A k \in 1..Len(bytes) : bytes[k] = 0

-----------------------------------------------------------------------------
(* Numbers, in either order of bytes; i64 is the only signed one.          *)
number_width(number) == WidthOf[number.format]

Unsigned(bytes) == FoldLeft(LAMBDA n, b : n * Radix + b, 0, bytes)

LittleOnly(number, bytes) == Reverse(bytes)   \* mutant: "be" is not looked at
Ordered(number, bytes) == IF number.endian = "be" THEN bytes ELSE Reverse(bytes)

NumberOf(number, bytes) ==
  LET n == Unsigned(Ordered(number, bytes))
      word == Radix^number_width(number)
  IN  IF number.format = "i64" /\ 2 * n >= word THEN n - word ELSE n

decode_number(number, bytes) ==
  Then(take_bytes(bytes, number_width(number)),
       LAMBDA taken, rest : Ok(NumberOf(number, taken), rest))

decode_u64(number, bytes) ==
  Then(decode_number(number, bytes), LAMBDA n, rest : IF n < 0 THEN Error ELSE Ok(n, rest))

decode_usize(number, bytes) ==
  Then(decode_u64(number, bytes), LAMBDA n, rest : IF n > MaxUsize THEN Error ELSE Ok(n, rest))

-----------------------------------------------------------------------------
(* Defined types are looked up by name, the first of a name is the one.    *)
Entries(types, name) == SelectSeq(types, LAMBDA entry : entry.name = name)

RECURSIVE fixed_size_of_type(_, _)

(* What is known of the size of every value of a type: <<size>> or <<>>.   *)
fixed_size_of_type(types, ty) ==
  LET times(item, n) ==
        LET size == fixed_size_of_type(types, item)
        IN  IF size = <<>> THEN <<>> ELSE <<size[1] * n>>
      plus(total, field) ==
        LET size == fixed_size_of_type(types, field.ty)
        IN  IF total = <<>> \/ size = <<>> THEN <<>> ELSE <<total[1] + size[1]>>
  IN  CASE ty.kind \in {"number", "boolean"} -> <<number_width(ty.number)>>
        [] ty.kind = "public_key" -> <<KeyLength>>
        [] ty.kind = "fixed_size" -> times(ty.item, ty.size)
        [] ty.kind = "array" /\ ty.count.kind = "fixed" -> times(ty.item, ty.count.n)
        [] ty.kind = "struct" -> FoldLeft(plus, <<0>>, ty.fields)
        [] ty.kind = "defined" /\ Entries(types, ty.name) # <<>> ->
             fixed_size_of_type(types, Entries(types, ty.name)[1].ty)
        [] OTHER -> <<>>

(* The zero bytes that stand for an absent value, if that is what is there.*)
Absent(size, bytes) == Ok(TRUE, Drop(bytes, size))

Zeros(types, item, bytes) ==
  LET size == fixed_size_of_type(types, item)
  IN  IF size = <<>> THEN Error
      ELSE IF Len(bytes) < size[1] THEN Error
      ELSE IF AllZero(SubSeq(bytes, 1, size[1])) THEN Absent(size[1], bytes)
      ELSE Ok(FALSE, bytes)

(* The variant a tag stands for: its discriminator, or else its position.  *)
TagOf(variants, k) ==
  IF variants[k].discriminator # <<>> THEN variants[k].discriminator[1] ELSE k - 1

VariantsOf(variants, tag) == {k \in 1..Len(variants) : TagOf(variants, k) = tag}

RECURSIVE decode_type(_, _, _)
RECURSIVE decode_items(_, _, _, _, _)

Remainder == -1

(* The loop over the items of an array: so many, or while bytes are left.  *)
decode_items(types, item, values, left, bytes) ==
  IF left = 0 \/ (left = Remainder /\ bytes = <<>>)
  THEN Ok(Value("array", values), bytes)
  ELSE Then(decode_type(types, item, bytes), LAMBDA v, rest :
         IF left = Remainder /\ rest = bytes THEN Stopped("endless")
         ELSE decode_items(types, item, Append(values, v),
                           IF left = Remainder THEN left ELSE left - 1, rest))

decode_array(types, item, count, bytes) ==
  IF count > MaxReserve THEN Stopped("panic")
  ELSE decode_items(types, item, <<>>, count, bytes)

decode_fields(types, fields, bytes) ==
  FoldLeft(LAMBDA done, field :
             Then(done, LAMBDA values, left :
               Then(decode_type(types, field.ty, left), LAMBDA v, rest :
                 Ok(Append(values, Field(field.name, v)), rest))),
           Ok(<<>>, bytes), fields)

(* A value that must fill its bytes, with nothing after it.                *)
decode_whole(types, item, bytes, after) ==
  Then(decode_type(types, item, bytes), LAMBDA v, rest :
    IF rest = <<>> THEN Ok(v, after) ELSE Error)

decode_sized_value(types, item, bytes, after) ==
  IF item.kind = "bytes" THEN Ok(Value("bytes", bytes), after)
  ELSE IF item.kind = "string"
  THEN IF item.encoding = "utf8" /\ \A k \in 1..Len(bytes) : bytes[k] \notin NotUtf8
       THEN Ok(Value("string", bytes), after) ELSE Error
  ELSE decode_whole(types, item, bytes, after)

decode_option(types, ty, bytes) ==
  LET some(v, rest) == Ok(Value("option", <<v>>), rest)
      tagged(tag, rest) ==
        CASE tag = 0 -> Ok(Value("option", <<>>), rest)
          [] tag = 1 -> Then(decode_type(types, ty.item, rest), some)
          [] OTHER -> Error
      with_zeros(absent, rest) ==
        IF absent THEN Ok(Value("option", <<>>), rest)
        ELSE Then(decode_u64(ty.prefix, rest), tagged)
  IN  Then(IF ty.fixed THEN Zeros(types, ty.item, bytes) ELSE Ok(FALSE, bytes), with_zeros)

decode_zeroable(types, item, bytes) ==
  Then(Zeros(types, item, bytes), LAMBDA absent, left :
    IF absent THEN Ok(Value("option", <<>>), left)
    ELSE Then(decode_type(types, item, left), LAMBDA v, rest :
           Ok(Value("option", <<v>>), rest)))

decode_enum(types, ty, bytes) ==
  Then(decode_u64(ty.tag, bytes), LAMBDA tag, left :
    LET found == VariantsOf(ty.variants, tag)
        variant == ty.variants[CHOOSE k \in found : \A other \in found : k <= other]
    IN  IF found = {} THEN Error
        ELSE Then(decode_fields(types, variant.fields, left), LAMBDA values, rest :
               Ok([kind |-> "enum", name |-> variant.name, value |-> values], rest)))

decode_boolean(number, bytes) ==
  Then(decode_number(number, bytes), LAMBDA n, rest :
    IF number.format = "u8" /\ n \in {0, 1} THEN Ok(Value("boolean", n = 1), rest) ELSE Error)

decode_type(types, ty, bytes) ==
  LET sized(v, rest) == decode_sized_value(types, ty.item, v, rest)
      whole(v, rest) == decode_whole(types, ty.item, v, rest)
      prefixed(n, rest) == Then(take_bytes(rest, n), sized)
      counted(n, rest) == decode_array(types, ty.item, n, rest)
  IN  CASE ty.kind = "number" -> Then(decode_number(ty.number, bytes), LAMBDA n, rest :
                                   Ok(Value("number", n), rest))
        [] ty.kind = "boolean" -> decode_boolean(ty.number, bytes)
        [] ty.kind = "public_key" -> Then(take_bytes(bytes, KeyLength), LAMBDA key, rest :
                                       Ok(Value("public_key", key), rest))
        [] ty.kind \in {"bytes", "string"} -> Error
        [] ty.kind = "fixed_size" -> Then(take_bytes(bytes, ty.size), whole)
        [] ty.kind = "size_prefix" -> Then(decode_usize(ty.prefix, bytes), prefixed)
        [] ty.kind = "option" -> decode_option(types, ty, bytes)
        [] ty.kind = "zeroable" -> decode_zeroable(types, ty.item, bytes)
        [] ty.kind = "array" ->
             (CASE ty.count.kind = "fixed" -> counted(ty.count.n, bytes)
                [] ty.count.kind = "prefixed" -> Then(decode_usize(ty.count.prefix, bytes), counted)
                [] ty.count.kind = "remainder" -> counted(Remainder, bytes))
        [] ty.kind = "struct" -> Then(decode_fields(types, ty.fields, bytes), LAMBDA v, rest :
                                   Ok(Value("struct", v), rest))
        [] ty.kind = "enum" -> decode_enum(types, ty, bytes)
        [] ty.kind = "defined" -> IF Entries(types, ty.name) = <<>> THEN Error
                                  ELSE decode_type(types, Entries(types, ty.name)[1].ty, bytes)

TrailingIgnored(rest) == TRUE   \* mutant: bytes may follow the arguments
NothingLeft(rest) == rest = <<>>

decode_instruction_data_with_types(types, instruction) ==
  IF ~IsPrefix(instruction.selector, data) THEN Error
  ELSE Then(decode_fields(types, instruction.arguments, Drop(data, Len(instruction.selector))),
            LAMBDA arguments, rest :
              IF NothingLeft(rest)
              THEN Ok([name |-> instruction.name, arguments |-> arguments], <<>>)
              ELSE Error)

-----------------------------------------------------------------------------
(* Reading an IDL.  A selector is the default value of the argument called *)
(* "discriminator" that clients leave out: hex digits, or a number of the  *)
(* type of the argument.                                                   *)
NoSelector == [ok |-> FALSE, bytes |-> <<>>]
Selector(bytes) == [ok |-> TRUE, bytes |-> bytes]

decode_hex(digits) ==
  IF Len(digits) % 2 = 0 /\ \A k \in 1..Len(digits) : digits[k] \in 0..(NibbleRadix - 1)
  THEN Selector([k \in 1..(Len(digits) \div 2) |->
                   digits[2 * k - 1] * NibbleRadix + digits[2 * k]])
  ELSE NoSelector

(* The bytes of a number that its format has room for.                     *)
BytesOf(number, n) ==
  LET width == number_width(number)
      unsigned == IF n < 0 THEN n + Radix^width ELSE n
      power(k) == IF number.endian = "be" THEN width - k ELSE k - 1
  IN  [k \in 1..width |-> (unsigned \div Radix^power(k)) % Radix]

InRange(number, n) ==
  LET word == Radix^number_width(number)
  IN  IF number.format = "i64" THEN -word <= 2 * n /\ 2 * n < word ELSE n \in 0..(word - 1)

(* A format or an order of bytes that the parser does not know.            *)
Known(number) == number.format \in DOMAIN WidthOf /\ number.endian \in {"le", "be"}

encode_number_selector(n, ty) ==
  IF ty.kind = "number" /\ Known(ty.number) /\ InRange(ty.number, n)
  THEN Selector(BytesOf(ty.number, n)) ELSE NoSelector

selector_bytes_from_value(argument) ==
  CASE argument.default.kind = "none" -> NoSelector
    [] argument.default.kind = "bytes" ->
         IF argument.default.encoding = "base16" THEN decode_hex(argument.default.digits)
         ELSE NoSelector
    [] argument.default.kind = "number" ->
         encode_number_selector(argument.default.n, argument.ty)

IsDiscriminator(argument) == argument.name = "discriminator" /\ argument.omitted
Discriminators(instruction) == SelectSeq(instruction.arguments, IsDiscriminator)

(* TypeNode::from_raw: the numbers inside a type must be known ones.  How  *)
(* a type is built of others is the same before and after.                 *)
Parts(ty) ==
  CASE ty.kind \in {"fixed_size", "size_prefix", "option", "zeroable", "array"} -> {ty.item}
    [] ty.kind = "struct" -> {ty.fields[k].ty : k \in 1..Len(ty.fields)}
    [] ty.kind = "enum" -> UNION {{ty.variants[v].fields[k].ty : k \in 1..Len(ty.variants[v].fields)}
                                  : v \in 1..Len(ty.variants)}
    [] OTHER -> {}

NumbersOf(ty) ==
  CASE ty.kind \in {"number", "boolean"} -> {ty.number}
    [] ty.kind \in {"size_prefix", "option"} -> {ty.prefix}
    [] ty.kind = "enum" -> {ty.tag}
    [] ty.kind = "array" /\ ty.count.kind = "prefixed" -> {ty.count.prefix}
    [] OTHER -> {}

RECURSIVE from_raw(_)
from_raw(ty) ==
  /\ \A number \in NumbersOf(ty) : Known(number)
  /\ ty.kind = "string" => ty.encoding \in {"utf8", "base16", "base58", "base64"}
  /\ \A part \in Parts(ty) : from_raw(part)

NoSchema == [ok |-> FALSE]

(* InstructionSchema::from_raw: the last discriminator is the selector.    *)
InstructionSchema(raw) ==
  LET omitted == Discriminators(raw)
      arguments == SelectSeq(raw.arguments, LAMBDA a : ~IsDiscriminator(a))
      typed == \A k \in 1..Len(arguments) : from_raw(arguments[k].ty)
  IN  IF /\ omitted # <<>> /\ typed
         /\ \A k \in 1..Len(omitted) : selector_bytes_from_value(omitted[k]).ok
      THEN [ok |-> TRUE, name |-> raw.name, arguments |-> arguments,
            selector |-> selector_bytes_from_value(Last(omitted)).bytes]
      ELSE NoSchema

(* The index takes the first discriminator and looks at nothing else.      *)
IndexSelector(raw) ==
  LET omitted == Discriminators(raw)
  IN  IF omitted = <<>> THEN NoSelector ELSE selector_bytes_from_value(Head(omitted))

-----------------------------------------------------------------------------
(* parse_program_schema and the decoding with all there is.                *)
FirstMatch(matches) == CHOOSE k \in matches : \A other \in matches : k <= other

SchemaParses ==
  /\ \A k \in 1..Len(program.instructions) : InstructionSchema(program.instructions[k]).ok
  /\ \A k \in 1..Len(program.types) : from_raw(program.types[k].ty)

DecodeWithSchema ==
  LET instructions == [k \in 1..Len(program.instructions) |->
                         InstructionSchema(program.instructions[k])]
      matches == {k \in 1..Len(instructions) : IsPrefix(instructions[k].selector, data)}
  IN  IF ~SchemaParses THEN Stopped("unparsed")
      ELSE IF matches = {} THEN Error
      ELSE decode_instruction_data_with_types(program.types, instructions[FirstMatch(matches)])

(* parse_program_index and resolve_defined_types: the defined types that   *)
(* an instruction needs, those that these need, and so on.                 *)
IndexParses ==
  \A k \in 1..Len(program.instructions) : IndexSelector(program.instructions[k]).ok

RECURSIVE collect_defined_type_names(_)
collect_defined_type_names(ty) ==
  (IF ty.kind = "defined" THEN {ty.name} ELSE {})
  \cup UNION {collect_defined_type_names(part) : part \in Parts(ty)}

NamedBy(names) ==
  UNION {collect_defined_type_names(Entries(program.types, name)[1].ty) :
           name \in {n \in names : Entries(program.types, n) # <<>>}}

OneLevel(names) == names   \* mutant: types inside of defined types are left out
RECURSIVE Pending(_)
Pending(names) ==
  IF NamedBy(names) \subseteq names THEN names ELSE Pending(names \cup NamedBy(names))

resolve_defined_types(instruction) ==
  LET names == Pending(UNION {collect_defined_type_names(instruction.arguments[k].ty) :
                                k \in 1..Len(instruction.arguments)})
      found == SelectSeq(program.types, LAMBDA entry : entry.name \in names)
  IN  [ok |-> \A name \in names : Entries(found, name) # <<>>
                                  /\ from_raw(Entries(found, name)[1].ty),
       types |-> found]

DecodeWithIndex ==
  LET matches == {k \in 1..Len(program.instructions) :
                    IsPrefix(IndexSelector(program.instructions[k]).bytes, data)}
      instruction == InstructionSchema(program.instructions[FirstMatch(matches)])
      resolved == resolve_defined_types(instruction)
  IN  IF ~IndexParses THEN Stopped("unparsed")
      ELSE IF matches = {} THEN Error
      ELSE IF ~instruction.ok THEN Stopped("unparsed")
      ELSE IF ~resolved.ok THEN Stopped("unparsed")
      ELSE decode_instruction_data_with_types(resolved.types, instruction)

-----------------------------------------------------------------------------
(* The encoding of Codama, as a client writes it: the reference.           *)
RECURSIVE SizeOf(_, _)
SizeOf(types, ty) ==
  CASE ty.kind \in {"number", "boolean"} -> number_width(ty.number)
    [] ty.kind = "public_key" -> KeyLength
    [] ty.kind = "fixed_size" -> ty.size
    [] ty.kind = "array" -> ty.count.n * SizeOf(types, ty.item)
    [] ty.kind = "struct" -> FoldLeft(LAMBDA n, f : n + SizeOf(types, f.ty), 0, ty.fields)
    [] ty.kind = "defined" -> SizeOf(types, Entries(types, ty.name)[1].ty)

RECURSIVE Encode(_, _, _)
EncodeFields(types, fields, values) ==
  FlattenSeq([k \in 1..Len(fields) |-> Encode(types, fields[k].ty, values[k].value)])

Encode(types, ty, v) ==
  LET items == FlattenSeq([k \in 1..Len(v.value) |-> Encode(types, ty.item, v.value[k])])
      inner == IF ty.item.kind \in {"bytes", "string"} THEN v.value
               ELSE Encode(types, ty.item, v)
      variant == CHOOSE k \in 1..Len(ty.variants) : ty.variants[k].name = v.name
  IN  CASE ty.kind = "number" -> BytesOf(ty.number, v.value)
        [] ty.kind = "boolean" -> BytesOf(ty.number, IF v.value THEN 1 ELSE 0)
        [] ty.kind = "public_key" -> v.value
        [] ty.kind = "fixed_size" -> Encode(types, ty.item, v)
        [] ty.kind = "size_prefix" -> BytesOf(ty.prefix, Len(inner)) \o inner
        [] ty.kind = "option" -> BytesOf(ty.prefix, Len(v.value)) \o items
        [] ty.kind = "zeroable" ->
             IF v.value = <<>> THEN [k \in 1..SizeOf(types, ty.item) |-> 0] ELSE items
        [] ty.kind = "array" ->
             IF ty.count.kind = "prefixed" THEN BytesOf(ty.count.prefix, Len(v.value)) \o items
             ELSE items
        [] ty.kind = "struct" -> EncodeFields(types, ty.fields, v.value)
        [] ty.kind = "enum" -> BytesOf(ty.tag, TagOf(ty.variants, variant))
                               \o EncodeFields(types, ty.variants[variant].fields, v.value)
        [] ty.kind = "defined" -> Encode(types, Entries(types, ty.name)[1].ty, v)

EncodeCall(p, c) ==
  LET named == SelectSeq(p.instructions, LAMBDA i : i.name = c.name)
      schema == InstructionSchema(named[1])
  IN  schema.selector \o EncodeFields(p.types, schema.arguments, c.arguments)

-----------------------------------------------------------------------------
NoCall == <<>>
Undecoded == [index |-> Stopped("none"), schema |-> Stopped("none")]

Init ==
  /\ \/ program \in Programs /\ call = NoCall /\ data \in Inputs(program)
     \/ \E c \in Calls : /\ program = c.program
                         /\ call = <<[name |-> c.name, arguments |-> c.arguments]>>
                         /\ data = EncodeCall(c.program, call[1])
  /\ decoded = Undecoded

Decode ==
  /\ decoded = Undecoded
  /\ decoded' = [index |-> DecodeWithIndex, schema |-> DecodeWithSchema]
  /\ UNCHANGED <<program, call, data>>

Next == Decode

Spec == Init /\ [][Next]_vars

-----------------------------------------------------------------------------
(* Hazard: the decoder and the client walk a type in two ways.  What a     *)
(* client encodes is shown as the client meant it.                         *)
EncodedIsDecoded ==
  call # NoCall /\ decoded # Undecoded =>
    decoded.index.status = "ok" /\ decoded.index.value = call[1]

(* Hazard: bytes that the review does not account for.  Data that is       *)
(* decoded is what encoding the instruction and the values on the screen   *)
(* gives: no two data of an instruction look alike.  Two kinds of types    *)
(* are left out: a fixed option, which has two encodings of an absent      *)
(* value, and a zeroable of a fixed size, whose size the code multiplies.  *)
RECURSIVE OneEncoding(_)
OneEncoding(ty) ==
  /\ ty.kind = "option" => ~ty.fixed
  /\ ty.kind = "zeroable" => ty.item.kind # "fixed_size"
  /\ \A part \in Parts(ty) : OneEncoding(part)

DecodedIsTheData ==
  /\ decoded.index.status = "ok"
  /\ \A i \in Range(program.instructions) : \A a \in Range(i.arguments) : OneEncoding(a.ty)
  /\ \A entry \in Range(program.types) : OneEncoding(entry.ty)
  => EncodeCall(program, decoded.index.value) = data

(* Hazard: a selector or a defined type that is read lazily is another one *)
(* than the one of the whole IDL, or is missing.  When an instruction has  *)
(* one discriminator and the whole IDL can be read, what the index decodes *)
(* or refuses the whole schema decodes alike or refuses.                   *)
OneDiscriminator ==
  \A k \in 1..Len(program.instructions) : Len(Discriminators(program.instructions[k])) = 1

IndexAgreesWithSchema ==
  OneDiscriminator /\ SchemaParses /\ decoded # Undecoded =>
    /\ decoded.index.status = "ok" =>
         decoded.schema.status = "ok" /\ decoded.schema.value = decoded.index.value
    /\ decoded.index.status = "error" => decoded.schema.status = "error"

(* Data that is too short for the items it announces is refused.           *)
ShortDataIsRefused == decoded.index.status # "panic"
=============================================================================
