---------------------------- MODULE MessageView -----------------------------
(***************************************************************************)
(* The parser of Solana messages: MessageView of solana-message-light.     *)
(* try_new walks over the bytes once and keeps offsets and counts; the     *)
(* iterators and account_ref read the bytes again from these offsets.      *)
(*                                                                         *)
(* Sizes are scaled down: a shortvec byte carries GroupBits bits (7) below *)
(* its flag, usize has WordBits bits (32 on the device), and a key or a    *)
(* blockhash has KeyLength bytes (32).                                     *)
(***************************************************************************)
EXTENDS Integers, Sequences, FiniteSets, SequencesExt

CONSTANTS
  GroupBits, WordBits, KeyLength,
  Messages,      \* messages a host may serialize
  Inputs,        \* other byte strings it may send
  DamageBytes,   \* bytes that may take the place of others
  MaxDamage      \* bound on the bytes changed, dropped or added

(* A loop of so many steps.                                                *)
Repeat(Step(_), start, times) ==
  LET after[k \in 0..times] == IF k = 0 THEN start ELSE Step(after[k - 1])
  IN  after[times]

Double(n) == 2 * n
TwoTo(bits) == Repeat(Double, 1, bits)

Flag == TwoTo(GroupBits)
Word == TwoTo(WordBits)
Shift(bytes) == TwoTo(GroupBits * bytes)   \* what a bit behind so many bytes is worth
U8 == 2 * Flag
Bytes == 0..(U8 - 1)
Keys == [1..KeyLength -> Bytes]

ASSUME SizesAssumption ==
  /\ GroupBits \in Nat \ {0} /\ WordBits \in Nat \ {0} /\ KeyLength \in Nat \ {0}
  /\ Inputs \subseteq Seq(Bytes) /\ DamageBytes \subseteq Bytes /\ MaxDamage \in Nat

(* The bytes of a value of 0 are one byte, as for every value below Flag.  *)
shortvec_len(value) ==
  CHOOSE n \in 1..(WordBits + 1) :
    value < Shift(n) /\ (n = 1 \/ value >= Shift(n - 1))

(* validate_header                                                         *)
valid_header(header, static_account_count) ==
  /\ header.signers <= static_account_count
  /\ header.readonly_signed <= header.signers
  /\ header.readonly_unsigned <= static_account_count - header.signers

VARIABLES
  message, \* the message the bytes were serialized from, if any
  input,   \* the bytes
  damage,  \* how many of them were changed, dropped or added
  view     \* what try_new makes of them
vars == <<message, input, damage, view>>

-----------------------------------------------------------------------------
(* Cursor: the bytes, an offset, the value read last, whether a read has   *)
(* failed, and whether every shortvec took as few bytes as it could.       *)
Cursor(bytes, offset) ==
  [input |-> bytes, offset |-> offset, value |-> 0, ok |-> TRUE, minimal |-> TRUE]
Failed(c) == [c EXCEPT !.ok = FALSE]

skip(c, len) ==
  IF c.ok /\ Len(c.input) - c.offset >= len
  THEN [c EXCEPT !.offset = @ + len] ELSE Failed(c)

read_u8(c) ==
  IF c.ok /\ c.offset < Len(c.input)
  THEN [c EXCEPT !.offset = @ + 1, !.value = c.input[c.offset + 1]] ELSE Failed(c)

(* Where a shortvec may end, and what its first n bytes stand for: the     *)
(* first parts of the value, each shifted behind the one before it.        *)
shortvec_ends(bytes, offset) ==
  LET longest == (WordBits + GroupBits - 1) \div GroupBits
  IN  {n \in 1..longest : offset + n <= Len(bytes) /\ bytes[offset + n] < Flag}

part(bytes, offset, k) == (bytes[offset + k] % Flag) * Shift(k - 1)

shortvec_value(bytes, offset, n) ==
  LET sum[k \in 0..n] == IF k = 0 THEN 0 ELSE sum[k - 1] + part(bytes, offset, k)
  IN  sum[n]

(* A shortvec of n bytes; parts that a word has no room for are refused.   *)
take_shortvec(c, n) ==
  LET value == shortvec_value(c.input, c.offset, n)
  IN  IF \E k \in 1..n : part(c.input, c.offset, k) >= Word THEN Failed(c)
      ELSE [c EXCEPT !.offset = @ + n, !.value = value,
                     !.minimal = @ /\ n = shortvec_len(value)]

read_shortvec(c) ==
  LET ends == shortvec_ends(c.input, c.offset)
  IN  IF ~c.ok \/ ends = {} THEN Failed(c)
      ELSE take_shortvec(c, CHOOSE n \in ends : \A other \in ends : n <= other)

(* As many bytes as the value read last says.                              *)
skip_value(c) == skip(c, c.value)
skip_counted(c) == skip_value(read_shortvec(c))

(* The slice between two offsets.                                          *)
Slice(bytes, from, to) == SubSeq(bytes, from + 1, to)

skip_compiled_instruction(c) == skip_counted(skip_counted(skip(c, 1)))

(* A table lookup, and how many indexes of each kind there are so far.     *)
skip_lookup(s) ==
  LET writable == read_shortvec(skip(s.c, KeyLength))
      readonly == read_shortvec(skip_value(writable))
  IN  [c |-> skip_value(readonly),
       writable |-> s.writable + writable.value,
       readonly |-> s.readonly + readonly.value]

-----------------------------------------------------------------------------
(* InstructionIter and AddressTableLookupIter.                             *)
NextInstruction(s) ==
  LET program == read_u8(s.c)
      accounts == read_shortvec(program)
      data == read_shortvec(skip_value(accounts))
      end == skip_value(data)
  IN  IF ~end.ok THEN [s EXCEPT !.c = end]
      ELSE [c |-> end,
            items |-> Append(s.items,
              [program |-> program.value,
               accounts |-> Slice(end.input, accounts.offset, accounts.offset + accounts.value),
               data |-> Slice(end.input, data.offset, end.offset)])]

instructions(v) ==
  Repeat(NextInstruction, [c |-> Cursor(v.input, v.instructions_offset), items |-> <<>>],
         v.instruction_count)

NextLookup(s) ==
  LET key == skip(s.c, KeyLength)
      writable == read_shortvec(key)
      readonly == read_shortvec(skip_value(writable))
      end == skip_value(readonly)
  IN  IF ~end.ok THEN [s EXCEPT !.c = end]
      ELSE [c |-> end,
            items |-> Append(s.items,
              [key |-> Slice(end.input, s.c.offset, key.offset),
               writable |-> Slice(end.input, writable.offset, writable.offset + writable.value),
               readonly |-> Slice(end.input, readonly.offset, end.offset)])]

LookupsStart(v) == v.lookups_offset   \* mutant: the count is not skipped
FirstLookup(v) ==
  IF v.version = "v0" THEN v.lookups_offset + shortvec_len(v.lookup_count)
                      ELSE v.lookups_offset

address_table_lookups(v) ==
  Repeat(NextLookup, [c |-> Cursor(v.input, FirstLookup(v)), items |-> <<>>], v.lookup_count)

static_account(v, index) ==
  Slice(v.input, v.static_accounts_offset + index * KeyLength,
        v.static_accounts_offset + (index + 1) * KeyLength)

total_account_count(v) ==
  v.static_account_count + v.loaded_writable + v.loaded_readonly

(* validate_instruction_indexes_in_view                                    *)
valid_indexes(v) ==
  LET all == instructions(v)
  IN  /\ all.c.ok
      /\ \A i \in 1..Len(all.items) :
           /\ all.items[i].program < total_account_count(v)
           /\ \A k \in 1..Len(all.items[i].accounts) :
                all.items[i].accounts[k] < total_account_count(v)

-----------------------------------------------------------------------------
Rejected == [ok |-> FALSE]

TrailingAllowed(c) == c.ok   \* mutant: bytes may follow the message
AtEnd(c) == c.ok /\ c.offset = Len(c.input)

(* The product of the key count and the key length is a usize.             *)
KeyBytes(count) == (count * KeyLength) % Word
skip_keys(c) == skip(c, KeyBytes(c.value))

skip_instructions(c) == Repeat(skip_compiled_instruction, c, c.value)

(* Only a v0 message has lookups.                                          *)
read_lookup_count(c, marked) == IF marked THEN read_shortvec(c) ELSE [c EXCEPT !.value = 0]
skip_lookups(c) == Repeat(skip_lookup, [c |-> c, writable |-> 0, readonly |-> 0], c.value)

Accepted(v, end) ==
  IF AtEnd(end) /\ valid_header(v.header, v.static_account_count) /\ valid_indexes(v)
  THEN v ELSE Rejected

try_new(bytes) ==
  LET marked == bytes # <<>> /\ bytes[1] >= Flag
      prefix == Cursor(bytes, 0)
      signers == read_u8(IF marked THEN read_u8(prefix) ELSE prefix)
      readonly_signed == read_u8(signers)
      readonly_unsigned == read_u8(readonly_signed)
      header == [signers |-> signers.value,
                 readonly_signed |-> readonly_signed.value,
                 readonly_unsigned |-> readonly_unsigned.value]
      keys == read_shortvec(readonly_unsigned)
      blockhash == skip_keys(keys)
      programs == read_shortvec(skip(blockhash, KeyLength))
      compiled == skip_instructions(programs)
      tables == read_lookup_count(compiled, marked)
      looked_up == skip_lookups(tables)
      v == [ok |-> TRUE, input |-> bytes, version |-> IF marked THEN "v0" ELSE "legacy",
            header |-> header,
            static_accounts_offset |-> keys.offset, static_account_count |-> keys.value,
            recent_blockhash_offset |-> blockhash.offset,
            instructions_offset |-> programs.offset, instruction_count |-> programs.value,
            lookups_offset |-> compiled.offset, lookup_count |-> tables.value,
            loaded_writable |-> looked_up.writable, loaded_readonly |-> looked_up.readonly,
            minimal |-> looked_up.c.minimal]
  IN  IF marked => bytes[1] = Flag THEN Accepted(v, looked_up.c) ELSE Rejected

(* account_ref: static accounts, then what the tables load.                *)
NoRef == [kind |-> "none"]

StaticRef(v, index) ==
  LET signer == index < v.header.signers
  IN  [kind |-> "static", pubkey |-> static_account(v, index), signer |-> signer,
       writable |-> IF signer THEN index < v.header.signers - v.header.readonly_signed
                    ELSE index < v.static_account_count - v.header.readonly_unsigned]

LookupRef(table, index, writable) ==
  [kind |-> "lookup", table |-> table, index |-> index, writable |-> writable]

(* One lookup of a loop over them: found, or fewer indexes left to count.  *)
Visit(s, table, indexes, writable) ==
  IF s.ref # NoRef THEN s
  ELSE IF s.left < Len(indexes)
  THEN [s EXCEPT !.ref = LookupRef(table, indexes[s.left + 1], writable)]
  ELSE [s EXCEPT !.left = @ - Len(indexes)]

TableByTable(lookups, relative_index) ==   \* mutant: one loop for both kinds
  FoldLeft(LAMBDA s, l : Visit(Visit(s, l.key, l.writable, TRUE), l.key, l.readonly, FALSE),
           [ref |-> NoRef, left |-> relative_index], lookups).ref

VisitAll(start, lookups, writable) ==
  LET after[k \in 0..Len(lookups)] ==
        IF k = 0 THEN start
        ELSE Visit(after[k - 1], lookups[k].key,
                   IF writable THEN lookups[k].writable ELSE lookups[k].readonly, writable)
  IN  after[Len(lookups)]

SearchLookups(lookups, relative_index) ==
  LET start == [ref |-> NoRef, left |-> relative_index]
  IN  VisitAll(VisitAll(start, lookups, TRUE), lookups, FALSE).ref

account_ref(v, index) ==
  IF index < v.static_account_count THEN StaticRef(v, index)
  ELSE LET lookups == address_table_lookups(v)
       IN  IF lookups.c.ok
           THEN SearchLookups(lookups.items, index - v.static_account_count)
           ELSE NoRef

-----------------------------------------------------------------------------
(* The wire format of Solana messages, as the serializer of the tests      *)
(* writes it: the reference the view is compared with.                     *)
Shortvec(value) ==
  LET n == shortvec_len(value)
  IN  [k \in 1..n |-> ((value \div Shift(k - 1)) % Flag) + (IF k < n THEN Flag ELSE 0)]

Counted(bytes) == Shortvec(Len(bytes)) \o bytes

Each(Op(_), list) == Shortvec(Len(list)) \o FlattenSeq([k \in 1..Len(list) |-> Op(list[k])])

Serialize(m) ==
  LET key(k) == k
      instruction(i) == <<i.program>> \o Counted(i.accounts) \o Counted(i.data)
      lookup(l) == l.key \o Counted(l.writable) \o Counted(l.readonly)
  IN  (IF m.version = "v0" THEN <<Flag>> ELSE <<>>)
      \o <<m.header.signers, m.header.readonly_signed, m.header.readonly_unsigned>>
      \o Each(key, m.keys) \o m.blockhash
      \o Each(instruction, m.instructions)
      \o (IF m.version = "v0" THEN Each(lookup, m.lookups) ELSE <<>>)

(* All accounts of a message in their order.                               *)
Accounts(m) ==
  LET n == Len(m.keys)
      static(k) == [kind |-> "static", pubkey |-> m.keys[k], signer |-> k <= m.header.signers,
                    writable |-> \/ k <= m.header.signers - m.header.readonly_signed
                                 \/ k > m.header.signers /\ k <= n - m.header.readonly_unsigned]
      loaded(indexes, l, writable) ==
        [k \in 1..Len(indexes) |-> LookupRef(l.key, indexes[k], writable)]
      of(writable) == FlattenSeq([i \in 1..Len(m.lookups) |->
        loaded(IF writable THEN m.lookups[i].writable ELSE m.lookups[i].readonly,
               m.lookups[i], writable)])
  IN  [k \in 1..n |-> static(k)] \o of(TRUE) \o of(FALSE)

(* The messages a host can have: a header that solana_message would not    *)
(* refuse, indexes that name accounts, sizes that fit a word.  A version   *)
(* marker is told from a number of signers by its flag.                    *)
WellFormed(m) ==
  /\ m \in [version : {"legacy", "v0"},
            header : [signers : Bytes, readonly_signed : Bytes, readonly_unsigned : Bytes],
            keys : Seq(Keys), blockhash : Keys,
            instructions : Seq([program : Bytes, accounts : Seq(Bytes), data : Seq(Bytes)]),
            lookups : Seq([key : Keys, writable : Seq(Bytes), readonly : Seq(Bytes)])]
  /\ valid_header(m.header, Len(m.keys))
  /\ m.version = "legacy" => m.lookups = <<>> /\ m.header.signers < Flag
  /\ Len(m.keys) * KeyLength < Word /\ Len(m.instructions) < Word /\ Len(m.lookups) < Word
  /\ \A i \in 1..Len(m.instructions) :
       LET instruction == m.instructions[i]
       IN  /\ Len(instruction.accounts) < Word /\ Len(instruction.data) < Word
           /\ instruction.program < Len(Accounts(m))
           /\ \A k \in 1..Len(instruction.accounts) :
                instruction.accounts[k] < Len(Accounts(m))
  /\ \A i \in 1..Len(m.lookups) :
       Len(m.lookups[i].writable) < Word /\ Len(m.lookups[i].readonly) < Word

ASSUME MessagesAssumption == \A m \in Messages : WellFormed(m)

-----------------------------------------------------------------------------
Unparsed == [ok |-> FALSE, parsed |-> FALSE]

NoMessage == <<>>

Init ==
  /\ \/ message \in Messages /\ input = Serialize(message)
     \/ message = NoMessage /\ input \in Inputs
  /\ damage = 0 /\ view = Unparsed

(* The bytes that come are not those that were serialized.                 *)
Damage ==
  /\ view = Unparsed /\ damage < MaxDamage
  /\ \E k \in 1..Len(input) :
       \/ input' = RemoveAt(input, k)
       \/ input' = SubSeq(input, 1, k - 1)
       \/ \E b \in DamageBytes :
            input' \in {[input EXCEPT ![k] = b], InsertAt(input, k, b), Append(input, b)}
  /\ damage' = damage + 1 /\ message' = NoMessage
  /\ UNCHANGED view

Parse ==
  /\ view = Unparsed
  /\ view' = try_new(input)
  /\ UNCHANGED <<message, input, damage>>

Next == Damage \/ Parse

Spec == Init /\ [][Next]_vars

-----------------------------------------------------------------------------
(* from_view: what is read of the message.  A key is asked for by an index *)
(* that is cut to a byte, so that keys come again after the last index.    *)
Read(v) ==
  [version |-> v.version, header |-> v.header,
   keys |-> [k \in 1..v.static_account_count |-> static_account(v, (k - 1) % U8)],
   blockhash |-> Slice(v.input, v.recent_blockhash_offset, v.recent_blockhash_offset + KeyLength),
   instructions |-> instructions(v).items,
   lookups |-> address_table_lookups(v).items]

(* A byte is enough to name so many keys, 256 in the code.                 *)
EachHasAnIndex(keys) == keys <= U8

(* Every message is accepted, and read as what was serialized if each of   *)
(* its keys has an index.                                                  *)
MessagesAreAccepted ==
  message # NoMessage /\ view # Unparsed =>
    /\ view.ok
    /\ EachHasAnIndex(Len(message.keys)) => Read(view) = message

(* Hazard: offsets kept by one walk and used by another.  Bytes that are   *)
(* accepted are the serialization of what the view reads from them, not a  *)
(* byte more or less, unless some shortvec is longer than it need be or    *)
(* there are more keys than indexes.                                       *)
AcceptedIsSerialized ==
  view.ok /\ view.minimal /\ EachHasAnIndex(view.static_account_count)
    => input = Serialize(Read(view))

(* Every program and account of every instruction names an account.        *)
IndexesResolve ==
  \A i \in 1..view.instruction_count :
    LET instruction == instructions(view).items[i]
    IN  \A index \in {instruction.program} \cup ToSet(instruction.accounts) :
          account_ref(view, index) # NoRef

(* Hazard: boundaries between the four kinds of accounts, and indexes that *)
(* were validated against a count and are used against lists.  An index    *)
(* is a byte; it names the account that Solana gives it, with the same     *)
(* signer and writable flags, indexes past the last account name none, and *)
(* those of the instructions all resolve.                                  *)
AccountsAreSolanas ==
  /\ view.ok /\ view.minimal => IndexesResolve
  /\ view.ok /\ view.minimal =>
       LET accounts == Accounts(Read(view))
       IN  /\ Len(accounts) = total_account_count(view)
           /\ \A index \in Bytes :
                account_ref(view, index) =
                  IF index < Len(accounts) THEN accounts[index + 1] ELSE NoRef

(* The keys that static_account slices, and from_view unwraps, are there:  *)
(* they lie before the blockhash, in the bytes.                            *)
KeysAreInTheInput ==
  view.ok => view.static_accounts_offset + view.static_account_count * KeyLength
               <= view.recent_blockhash_offset
=============================================================================
