--------------------------- MODULE MCMessageView ----------------------------
(***************************************************************************)
(* MessageView on small messages of both versions, with up to two keys,    *)
(* two instructions and two table lookups, and on some with as many keys   *)
(* as a byte has values, and one more.                                     *)
(***************************************************************************)
EXTENDS MessageView, TLC

KeysOf(n) == [k \in 1..n |-> [b \in 1..KeyLength |-> 2]]
KeyList(n) == [k \in 1..n |-> <<IF k < U8 THEN k ELSE 0>>]

Headers(n) ==
  {h \in [signers : 0..n, readonly_signed : 0..1, readonly_unsigned : 0..1] :
     valid_header(h, n)}

Lookup(writable, readonly) == [key |-> <<3>>, writable |-> writable, readonly |-> readonly]
LookupLists ==
  {<<>>, <<Lookup(<<0>>, <<>>)>>, <<Lookup(<<>>, <<1>>)>>,
   <<Lookup(<<0>>, <<1>>), Lookup(<<2, 3>>, <<>>)>>,
   <<Lookup(<<0>>, <<1>>), Lookup(<<2>>, <<3>>)>>}

InstructionLists(accounts) ==
  {<<>>} \cup
  {<<[program |-> accounts - 1, accounts |-> a, data |-> d]>> :
     a \in {<<>>, <<0, accounts - 1>>}, d \in {<<>>, <<1, 2, 3, 4, 5>>}}
  \cup {<<[program |-> 0, accounts |-> <<>>, data |-> <<6>>],
          [program |-> 0, accounts |-> <<accounts - 1>>, data |-> <<>>]>>}

Loaded(lookups) ==
  Len(FlattenSeq([i \in 1..Len(lookups) |-> lookups[i].writable \o lookups[i].readonly]))

Message(version, header, n, lookups, list) ==
  [version |-> version, header |-> header, keys |-> KeyList(n),
   blockhash |-> <<7>>, instructions |-> list, lookups |-> lookups]

Crowded ==
  UNION {{Message("v0", h, n, lookups, list) :
            h \in {[signers |-> 2, readonly_signed |-> 1, readonly_unsigned |-> 1]},
            lookups \in {<<>>, <<Lookup(<<0>>, <<1>>)>>},
            list \in {<<>>, <<[program |-> 0, accounts |-> <<U8 - 1>>, data |-> <<>>]>>}} :
         n \in U8..(U8 + 1)}

MCMessages ==
  Crowded \cup UNION {UNION {
    {Message("legacy", h, n, <<>>, list) : h \in Headers(n), list \in InstructionLists(n)}
    \cup UNION {{Message("v0", h, n, lookups, list) :
                   h \in Headers(n), list \in InstructionLists(n + Loaded(lookups))} :
                lookups \in LookupLists}} : n \in 1..2}

(* Instance 2: counts of keys up to the largest that fits a word, with the *)
(* bytes of up to two keys.                                                *)
CountedMessages ==
  {<<s, 0, u>> \o Shortvec(count) \o FlattenSeq(KeysOf(n)) \o FlattenSeq(KeysOf(1)) \o rest :
     s \in 0..1, u \in 0..1, count \in 0..(Word - 1), n \in 0..2,
     rest \in {<<0>>, <<1, 0, 0, 0>>}}
=============================================================================
