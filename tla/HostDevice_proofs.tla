-------------------------- MODULE HostDevice_proofs -------------------------
(***************************************************************************)
(* Theorems about HostDevice: the device behind the command line tool is   *)
(* LedgerApp, what a process prints answers its own command, and the       *)
(* device never calls a chunk of sign-message out of sequence.             *)
(***************************************************************************)
EXTENDS HostDevice, LedgerApp_proofs

(* The payload of an upload, the number of APDUs sent before its first     *)
(* chunk, the number of chunks, and what the first k chunks carry of it.   *)
Payload(cmd) ==
  IF cmd.ins = "sign" THEN <<1, cmd.path>> \o cmd.message
  ELSE <<1, Len(cmd.attestations), Len(cmd.idl)>> \o cmd.attestations \o cmd.idl
Before(cmd) == IF cmd.ins = "sign" THEN 1 ELSE 0
Chunks(cmd) == Len(Requests(cmd)) - Before(cmd)
Sent(cmd, k) ==
  SubSeq(Payload(cmd), 1, IF k = Chunks(cmd) THEN Len(Payload(cmd)) ELSE k * ChunkUnits)

-----------------------------------------------------------------------------
(* What the commands send.                                                 *)

(* A command has the arguments of its kind.                                *)
LEMMA CommandType ==
  ASSUME NEW cmd \in Commands
  PROVE  /\ cmd.ins \in Instructions
         /\ cmd.ins \in Pubkeys => cmd.path \in Units
         /\ cmd.ins = "sign" =>
              /\ cmd \in [ins : {"sign"}, path : Units, message : Seq(Units)]
              /\ cmd.path \in Units /\ cmd.message \in Seq(Units)
         /\ cmd.ins = "load_idl" => cmd.attestations \in Seq(Units) /\ cmd.idl \in Seq(Units)
<1>1. cmd \in CommandTypes
  BY HostAssumption
<1> QED
  BY <1>1 DEF CommandTypes, Instructions, Pubkeys

(* The fields of an APDU.                                                  *)
LEMMA ApduIs ==
  ASSUME NEW ins, NEW p2, NEW data
  PROVE  /\ Apdu(ins, p2, data).ins = ins /\ Apdu(ins, p2, data).p2 = p2
         /\ Apdu(ins, p2, data).data = data /\ Apdu(ins, p2, data).whole
BY DEF Apdu

(* The number of chunks a payload is cut into.                             *)
Count(payload) == (Len(payload) + ChunkUnits - 1) \div ChunkUnits
End(payload, k) == IF k = Count(payload) THEN Len(payload) ELSE k * ChunkUnits

(* Where a payload is cut: the ends of the chunks follow one another.      *)
LEMMA CutsAre ==
  ASSUME NEW payload \in Seq(Units)
  PROVE  /\ Len(payload) \in Nat /\ Count(payload) \in Nat
         /\ Len(payload) > 0 => Count(payload) > 0
         /\ \A k \in 1..Count(payload) :
              /\ (k - 1) * ChunkUnits \in Nat /\ End(payload, k) \in Nat
              /\ (k - 1) * ChunkUnits <= End(payload, k) /\ End(payload, k) <= Len(payload)
<1> DEFINE n == Count(payload)
           len == Len(payload)
           cu == ChunkUnits
<1>1. len \in Nat /\ cu \in Nat \ {0}
  BY LenProperties, HostAssumption
<1>2. n \in Nat /\ n * cu <= len + cu - 1 /\ len + cu - 1 < n * cu + cu
  <2>1. n = (len + cu - 1) \div cu
    BY DEF Count
  <2>2. len + cu - 1 \in Nat
    BY <1>1
  <2> HIDE DEF n, len, cu
  <2> QED
    BY <1>1, <2>1, <2>2, Quotient
<1>3. \A k \in 1..n : End(payload, k) = IF k = n THEN len ELSE k * cu
  BY DEF End
<1> HIDE DEF n, len, cu
<1>4. len > 0 => n > 0
  <2>1. n = 0 => n * cu = 0
    BY <1>1
  <2> QED
    BY <1>1, <1>2, <2>1
<1>5. ASSUME NEW k \in 1..n
      PROVE  /\ (k - 1) * cu \in Nat /\ k * cu \in Nat
             /\ (k - 1) * cu + cu = k * cu /\ k * cu <= n * cu
  <2>1. k \in Nat /\ k - 1 \in Nat /\ k <= n
    BY <1>2
  <2>2. k * cu \in Nat /\ (k - 1) * cu \in Nat /\ k * cu <= n * cu
    BY <1>1, <1>2, <2>1, Products
  <2>3. (k - 1) * cu + cu = k * cu
    BY <1>1, <2>1
  <2> QED
    BY <2>2, <2>3
<1>6. ASSUME NEW k \in 1..n, k # n
      PROVE  k * cu <= len
  <2>1. k + 1 \in 1..n
    BY <1>2, <1>6
  <2>2. /\ k * cu \in Nat /\ (k + 1) * cu \in Nat /\ n * cu \in Nat
        /\ k * cu + cu = (k + 1) * cu /\ (k + 1) * cu <= n * cu
    <3>1. (k + 1) - 1 = k
      OBVIOUS
    <3>2. n \in 1..n
      BY <2>1, <1>2
    <3> QED
      BY <1>5, <2>1, <3>1, <3>2
  <2> QED
    BY <1>1, <1>2, <2>2
<1>7. ASSUME NEW k \in 1..n
      PROVE  /\ End(payload, k) \in Nat
             /\ (k - 1) * cu <= End(payload, k) /\ End(payload, k) <= len
  <2>1. CASE k = n
    <3>1. End(payload, k) = len
      BY <1>3, <2>1
    <3>2. n * cu \in Nat /\ (k - 1) * cu \in Nat /\ (k - 1) * cu + cu = n * cu
      BY <1>5, <2>1
    <3> QED
      BY <1>1, <1>2, <3>1, <3>2
  <2>2. CASE k # n
    <3>1. End(payload, k) = k * cu
      BY <1>3, <2>2
    <3> QED
      BY <1>1, <1>5, <1>6, <2>2, <3>1
  <2> QED
    BY <2>1, <2>2
<1> QED
  BY <1>1, <1>2, <1>4, <1>5, <1>7 DEF n, len, cu

(* The chunks of a payload, and how the payload grows with each.           *)
LEMMA ChunkedIs ==
  ASSUME NEW payload \in Seq(Units), NEW ins
  PROVE  /\ Len(Chunked(ins, payload)) = Count(payload)
         /\ Chunked(ins, payload) \in Seq({Chunked(ins, payload)[k] : k \in 1..Count(payload)})
         /\ \A k \in 1..Count(payload) :
              LET apdu == Chunked(ins, payload)[k]
              IN  /\ apdu = Apdu(ins, ChunkBits(k, Count(payload)), apdu.data)
                  /\ apdu.data \in Seq(Units)
                  /\ SubSeq(payload, 1, (k - 1) * ChunkUnits) \o apdu.data =
                       SubSeq(payload, 1, End(payload, k))
                  /\ k = 1 => apdu.data = SubSeq(payload, 1, End(payload, k))
<1> DEFINE n == Count(payload)
           all == Chunked(ins, payload)
           part(k) == SubSeq(payload, (k - 1) * ChunkUnits + 1, End(payload, k))
<1>1. n \in Nat
  BY CutsAre
<1>2. all = [k \in 1..n |-> Apdu(ins, ChunkBits(k, n), part(k))]
  BY DEF Chunked, Count, End
<1>3. Len(all) = n /\ all \in Seq({all[k] : k \in 1..n})
  <2> DEFINE S == {all[k] : k \in 1..n}
  <2>1. all \in [1..n -> S]
    BY <1>2
  <2> HIDE DEF n, all, S
  <2>2. all \in Seq(S) /\ Len(all) = n
    BY <1>1, <2>1, FunctionIsSeq
  <2> QED
    BY <2>2 DEF S
<1>4. ASSUME NEW k \in 1..n
      PROVE  /\ all[k] = Apdu(ins, ChunkBits(k, n), all[k].data)
             /\ all[k].data \in Seq(Units)
             /\ SubSeq(payload, 1, (k - 1) * ChunkUnits) \o all[k].data =
                  SubSeq(payload, 1, End(payload, k))
             /\ k = 1 => all[k].data = SubSeq(payload, 1, End(payload, k))
  <2>1. all[k] = Apdu(ins, ChunkBits(k, n), part(k))
    BY <1>2
  <2>2. all[k].data = part(k)
    <3> HIDE DEF n, all, part
    <3> QED
      BY <2>1, ApduIs
  <2> DEFINE a == (k - 1) * ChunkUnits
             b == End(payload, k)
  <2>3. a \in Nat /\ b \in Nat /\ a <= b /\ b <= Len(payload)
    BY CutsAre
  <2>4. k = 1 => a = 0
    BY HostAssumption
  <2> HIDE DEF a, b
  <2>5. SubSeq(payload, 1, a) \o SubSeq(payload, a + 1, b) = SubSeq(payload, 1, b)
    BY <2>3, PartsJoin
  <2>6. SubSeq(payload, a + 1, b) \in Seq(Units)
    <3>1. \A i \in (a + 1)..b : payload[i] \in Units
      BY <2>3, LenProperties, ElementOfSeq
    <3> QED
      BY <2>3, <3>1, SubSeqProperties
  <2>7. part(k) = SubSeq(payload, a + 1, b)
    BY DEF a, b
  <2>8. k = 1 => part(k) = SubSeq(payload, 1, b)
    <3> SUFFICES ASSUME k = 1 PROVE part(k) = SubSeq(payload, 1, b)
      OBVIOUS
    <3>1. a + 1 = 1
      BY <2>4
    <3> QED
      BY ONLY <2>7, <3>1
  <2> HIDE DEF n, all, part
  <2>9. all[k] = Apdu(ins, ChunkBits(k, n), all[k].data)
    BY <2>1, <2>2
  <2> QED
    BY <2>2, <2>5, <2>6, <2>7, <2>8, <2>9 DEF a, b
<1> HIDE DEF all, n
<1> QED
  BY <1>3, <1>4 DEF all, n

(* Before an address is asked for, or instead of anything else, one APDU.  *)
LEMMA PubkeyRequests ==
  ASSUME NEW cmd \in Commands
  PROVE  /\ cmd.ins \in Pubkeys => Requests(cmd) = <<Apdu(cmd.ins, {}, <<cmd.path>>)>>
         /\ cmd.ins = "app_config" => Requests(cmd) = <<Apdu("app_config", {}, <<>>)>>
BY DEF Requests, Pubkeys, build_get_pubkey_apdu

(* What sign-message sends.                                                *)
LEMMA SignRequests ==
  ASSUME NEW cmd \in Commands, cmd.ins = "sign"
  PROVE  Requests(cmd) = <<Apdu("pubkey", {}, <<cmd.path>>)>> \o Chunked("sign", Payload(cmd))
<1>1. cmd \in [ins : {"sign"}, path : Units, message : Seq(Units)]
  BY CommandType
<1> DEFINE asked == [cmd EXCEPT !.ins = "pubkey"]
<1>2. asked.path = cmd.path /\ asked.ins = "pubkey"
  BY <1>1
<1>3. Requests(cmd) = build_get_pubkey_apdu(asked) \o build_sign_message_apdus(cmd)
  BY DEF Requests
<1>4. build_get_pubkey_apdu(asked) = <<Apdu("pubkey", {}, <<cmd.path>>)>>
  BY <1>2 DEF build_get_pubkey_apdu
<1>5. build_sign_message_apdus(cmd) = Chunked("sign", Payload(cmd))
  BY DEF build_sign_message_apdus, Payload
<1> QED
  BY ONLY <1>3, <1>4, <1>5

(* What load-idl sends.                                                    *)
LEMMA LoadIdlRequests ==
  ASSUME NEW cmd \in Commands, cmd.ins = "load_idl"
  PROVE  Requests(cmd) = Chunked("load_idl", Payload(cmd))
BY DEF Requests, build_load_idl_apdus, Payload

(* A payload is a sequence of at least two units.                          *)
LEMMA PayloadType ==
  ASSUME NEW cmd \in Commands, cmd.ins \in Uploading
  PROVE  Payload(cmd) \in Seq(Units) /\ Len(Payload(cmd)) > 0
<1>1. CASE cmd.ins = "sign"
  <2>1. cmd.path \in Units /\ cmd.message \in Seq(Units) /\ 1 \in Units
    BY <1>1, CommandType DEF Units
  <2>2. <<1, cmd.path>> \in Seq(Units) /\ Len(<<1, cmd.path>>) = 2
    BY <2>1
  <2>3. Payload(cmd) = <<1, cmd.path>> \o cmd.message
    BY <1>1 DEF Payload
  <2> QED
    BY <2>1, <2>2, <2>3, ConcatIs
<1>2. CASE cmd.ins = "load_idl"
  <2> DEFINE count == Len(cmd.attestations)
             size == Len(cmd.idl)
             head == <<1, count, size>>
  <2>1. cmd.attestations \in Seq(Units) /\ cmd.idl \in Seq(Units)
    BY <1>2, CommandType
  <2>2. count \in Units /\ size \in Units /\ 1 \in Units
    BY <2>1, LenProperties DEF Units
  <2> HIDE DEF count, size
  <2>3. head \in Seq(Units) /\ Len(head) = 3
    BY <2>2
  <2>4. Payload(cmd) = head \o cmd.attestations \o cmd.idl
    BY <1>2 DEF Payload, count, size
  <2> HIDE DEF head
  <2>5. head \o cmd.attestations \in Seq(Units) /\ Len(head \o cmd.attestations) > 0
    BY <2>1, <2>3, ConcatIs
  <2> DEFINE front == head \o cmd.attestations
  <2>6. front \in Seq(Units) /\ Len(front) > 0 /\ Payload(cmd) = front \o cmd.idl
    BY <2>4, <2>5
  <2> HIDE DEF front
  <2>7. front \o cmd.idl \in Seq(Units) /\ Len(front \o cmd.idl) > 0
    BY <2>1, <2>6, ConcatIs
  <2> QED
    BY <2>6, <2>7
<1> QED
  BY <1>1, <1>2 DEF Uploading

(* An upload: its chunks in their order, each the next part of the payload.*)
IsUploadOf(cmd) ==
  /\ Len(Requests(cmd)) \in Nat /\ Len(Requests(cmd)) >= 1
  /\ Chunks(cmd) \in Nat /\ Chunks(cmd) > 0
  /\ cmd.ins = "sign" => Len(Requests(cmd)) > 1 /\ Requests(cmd)[1].ins = "pubkey"
  /\ \A k \in 1..Chunks(cmd) :
       LET apdu == Requests(cmd)[k + Before(cmd)]
       IN  /\ apdu.ins = cmd.ins /\ apdu.data \in Seq(Units)
           /\ "extend" \in apdu.p2 <=> k > 1
           /\ "more" \in apdu.p2 <=> k < Chunks(cmd)
           /\ k = 1 => apdu.data = Sent(cmd, 1)
           /\ k > 1 => Sent(cmd, k - 1) \o apdu.data = Sent(cmd, k)
  /\ Sent(cmd, Chunks(cmd)) = Payload(cmd)

(* What sign-message and load-idl send is such an upload.                  *)
LEMMA UploadIs ==
  ASSUME NEW cmd \in Commands, cmd.ins \in Uploading
  PROVE  IsUploadOf(cmd)
<1> DEFINE payload == Payload(cmd)
           n == Count(payload)
           all == Chunked(cmd.ins, payload)
           S == {all[k] : k \in 1..n} \cup {Apdu("pubkey", {}, <<cmd.path>>)}
           before == Before(cmd)
<1>1. payload \in Seq(Units) /\ Len(payload) > 0
  BY PayloadType
<1>2. n \in Nat /\ n > 0 /\ Len(payload) \in Nat
  BY <1>1, CutsAre
<1> HIDE DEF payload, n
<1>3. Len(all) = n /\ all \in Seq(S)
  <2>1. Len(all) = n /\ all \in Seq({all[k] : k \in 1..n})
    BY <1>1, ChunkedIs DEF n
  <2> HIDE DEF all
  <2> QED
    BY <2>1
<1> HIDE DEF all
<1>4. /\ Len(Requests(cmd)) = n + before
      /\ \A k \in 1..n : Requests(cmd)[k + before] = all[k]
      /\ cmd.ins = "sign" => Requests(cmd)[1].ins = "pubkey"
  <2>1. CASE cmd.ins = "sign"
    <3> DEFINE first == <<Apdu("pubkey", {}, <<cmd.path>>)>>
    <3>1. first \in Seq(S) /\ Len(first) = 1 /\ first[1].ins = "pubkey"
      BY ApduIs
    <3>2. Requests(cmd) = first \o all /\ before = 1
      BY <2>1, SignRequests DEF Before, all, payload
    <3> HIDE DEF first, S, before
    <3>3. /\ Len(first \o all) = Len(first) + Len(all)
          /\ \A i \in 1..Len(first) : (first \o all)[i] = first[i]
          /\ \A i \in 1..Len(all) : (first \o all)[Len(first) + i] = all[i]
      <4>1. first \in Seq(S) /\ all \in Seq(S)
        BY <1>3, <3>1
      <4> QED
        BY ONLY <4>1, ConcatIs
    <3>4. \A k \in 1..n : k + before = 1 + k
      BY <1>2, <3>2
    <3>5. Len(first \o all) = n + before /\ (first \o all)[1] = first[1]
      BY <1>2, <1>3, <3>1, <3>2, <3>3
    <3>6. \A k \in 1..n : (first \o all)[1 + k] = all[k]
      BY <1>3, <3>1, <3>3
    <3> QED
      BY <3>1, <3>2, <3>4, <3>5, <3>6
  <2>2. CASE cmd.ins = "load_idl"
    <3>1. Requests(cmd) = all /\ before = 0
      BY <2>2, LoadIdlRequests DEF Before, all, payload
    <3> HIDE DEF before
    <3>2. \A k \in 1..n : k + before = k
      BY <1>2, <3>1
    <3> QED
      BY <1>2, <1>3, <2>2, <3>1, <3>2
  <2> QED
    BY <2>1, <2>2 DEF Uploading
<1>5. Chunks(cmd) = n
  BY <1>2, <1>4 DEF Chunks, Before
<1>6. /\ Len(Requests(cmd)) \in Nat /\ Len(Requests(cmd)) >= 1
      /\ cmd.ins = "sign" => Len(Requests(cmd)) > 1
  BY <1>2, <1>4 DEF Before
<1>7. Sent(cmd, n) = payload
  <2>1. Sent(cmd, n) = SubSeq(payload, 1, Len(payload))
    BY <1>5 DEF Sent, payload
  <2> QED
    BY <1>1, <2>1, WholeIsPart
<1>8. ASSUME NEW k \in 1..n
      PROVE  /\ Sent(cmd, k) = SubSeq(payload, 1, End(payload, k))
             /\ k > 1 => Sent(cmd, k - 1) = SubSeq(payload, 1, (k - 1) * ChunkUnits)
  <2>1. Sent(cmd, k) = SubSeq(payload, 1, IF k = n THEN Len(payload) ELSE k * ChunkUnits)
    BY <1>5 DEF Sent, payload
  <2>2. Sent(cmd, k - 1) =
          SubSeq(payload, 1, IF k - 1 = n THEN Len(payload) ELSE (k - 1) * ChunkUnits)
    BY <1>5 DEF Sent, payload
  <2>3. k - 1 # n
    BY <1>2
  <2> QED
    BY <2>1, <2>2, <2>3 DEF End, n
<1>9. ASSUME NEW k \in 1..n
      PROVE  /\ all[k].ins = cmd.ins /\ all[k].data \in Seq(Units)
             /\ "extend" \in all[k].p2 <=> k > 1
             /\ "more" \in all[k].p2 <=> k < n
             /\ k = 1 => all[k].data = Sent(cmd, 1)
             /\ k > 1 => Sent(cmd, k - 1) \o all[k].data = Sent(cmd, k)
  <2>1. /\ all[k] = Apdu(cmd.ins, ChunkBits(k, n), all[k].data)
        /\ all[k].data \in Seq(Units)
        /\ SubSeq(payload, 1, (k - 1) * ChunkUnits) \o all[k].data =
             SubSeq(payload, 1, End(payload, k))
        /\ k = 1 => all[k].data = SubSeq(payload, 1, End(payload, k))
    BY <1>1, ChunkedIs DEF n, all
  <2>2. all[k].ins = cmd.ins /\ all[k].p2 = ChunkBits(k, n)
    BY <2>1, ApduIs
  <2>3. ("extend" \in ChunkBits(k, n) <=> k > 1) /\ ("more" \in ChunkBits(k, n) <=> k < n)
    BY DEF ChunkBits
  <2>4. k > 1 => Sent(cmd, k - 1) \o all[k].data = Sent(cmd, k)
    BY <1>8, <2>1
  <2>5. k = 1 => all[k].data = Sent(cmd, 1)
    BY <1>8, <2>1
  <2> QED
    BY <2>1, <2>2, <2>3, <2>4, <2>5
<1> HIDE DEF before
<1>10. \A k \in 1..n : Requests(cmd)[k + Before(cmd)] = all[k]
  BY <1>4 DEF before
<1>11. \A k \in 1..n :
         LET apdu == Requests(cmd)[k + Before(cmd)]
         IN  /\ apdu.ins = cmd.ins /\ apdu.data \in Seq(Units)
             /\ "extend" \in apdu.p2 <=> k > 1
             /\ "more" \in apdu.p2 <=> k < n
             /\ k = 1 => apdu.data = Sent(cmd, 1)
             /\ k > 1 => Sent(cmd, k - 1) \o apdu.data = Sent(cmd, k)
  BY <1>9, <1>10
<1> QED
  BY <1>2, <1>4, <1>5, <1>6, <1>7, <1>11 DEF IsUploadOf, payload

(* Neighbours among the APDUs of an upload that the proof tells apart.     *)
LEMMA Neighbours ==
  ASSUME NEW cmd \in Commands, cmd.ins \in Uploading, Len(Requests(cmd)) > 1,
         NEW m, m = Len(Requests(cmd))
  PROVE  /\ Requests(cmd)[m - 1] # Requests(cmd)[m]
         /\ cmd.ins = "sign" => Requests(cmd)[1] # Requests(cmd)[2]
         /\ Requests(cmd)[m].ins = cmd.ins
         /\ Requests(cmd)[m - 1].ins = cmd.ins => "more" \in Requests(cmd)[m - 1].p2
         /\ cmd.ins = "sign" => \A k \in 2..m : Requests(cmd)[k].ins = "sign"
<1> DEFINE r(k) == Requests(cmd)[k]
           b == Before(cmd)
           n == Chunks(cmd)
<1>1. IsUploadOf(cmd)
  BY UploadIs
<1>2. /\ m \in Nat /\ m > 1 /\ n \in Nat /\ n > 0 /\ n = m - b
      /\ (b = 1 /\ cmd.ins = "sign") \/ (b = 0 /\ cmd.ins # "sign")
      /\ cmd.ins = "sign" => r(1).ins = "pubkey"
  BY <1>1 DEF IsUploadOf, Chunks, Before
<1>3. \A k \in 1..n : r(k + b).ins = cmd.ins /\ ("more" \in r(k + b).p2 <=> k < n)
  BY <1>1 DEF IsUploadOf
<1> HIDE DEF r, b, n
<1>4. r(m).ins = cmd.ins /\ "more" \notin r(m).p2
  <2>1. n \in 1..n /\ n + b = m
    BY <1>2
  <2> QED
    BY <1>3, <2>1
<1>5. CASE n = 1
  <2>1. cmd.ins = "sign" /\ m = 2
    BY ONLY <1>2, <1>5
  <2>2. m - 1 = 1 /\ 2 \in 2..m /\ \A k \in 2..m : k = m
    BY <2>1
  <2> QED
    BY <1>2, <1>4, <2>1, <2>2 DEF r
<1>6. CASE n > 1
  <2>1. n - 1 \in 1..n /\ (n - 1) + b = m - 1 /\ n - 1 < n
    BY <1>2, <1>6
  <2>2. r(m - 1).ins = cmd.ins /\ "more" \in r(m - 1).p2
    BY <1>3, <2>1
  <2>3. cmd.ins = "sign" => \A k \in 2..m : r(k).ins = "sign"
    <3>1. cmd.ins = "sign" => \A k \in 2..m : k - 1 \in 1..n /\ (k - 1) + b = k
      BY <1>2
    <3> QED
      BY <1>3, <3>1
  <2>4. 2 \in 2..m
    BY <1>2
  <2> QED
    BY <1>2, <1>4, <2>2, <2>3, <2>4 DEF r
<1> QED
  BY <1>2, <1>5, <1>6

(* An import that fits into one APDU, which carries all of its payload.    *)
OneImport(cmd) == cmd.ins = "load_idl" /\ Len(Requests(cmd)) = 1

LEMMA OneImportIs ==
  ASSUME NEW cmd \in Commands, OneImport(cmd), NEW apdu, apdu = Requests(cmd)[1]
  PROVE  /\ apdu.ins = "load_idl" /\ apdu.data = Payload(cmd)
         /\ "extend" \notin apdu.p2 /\ Payload(cmd) \in Seq(Units)
<1>1. cmd.ins = "load_idl" /\ Len(Requests(cmd)) = 1
  BY DEF OneImport
<1>2. IsUploadOf(cmd) /\ Payload(cmd) \in Seq(Units)
  BY <1>1, UploadIs, PayloadType DEF Uploading
<1>3. Before(cmd) = 0 /\ Chunks(cmd) = 1
  BY <1>1 DEF Before, Chunks
<1>4. /\ 1 \in 1..Chunks(cmd) /\ 1 + Before(cmd) = 1
  BY <1>3
<1>5. /\ apdu.ins = cmd.ins /\ ("extend" \in apdu.p2 <=> 1 > 1)
      /\ apdu.data = Sent(cmd, 1)
  BY <1>2, <1>4 DEF IsUploadOf
<1>6. Sent(cmd, 1) = Payload(cmd)
  BY <1>2, <1>3 DEF IsUploadOf
<1> QED
  BY <1>1, <1>2, <1>5, <1>6

-----------------------------------------------------------------------------
(* What the device makes of an APDU.                                       *)

(* A chunk that is added to the upload of its command.                     *)
Took(ins, apdu) ==
  /\ Context(ins).in_progress <=> "extend" \in apdu.p2
  /\ Context(ins)'.payload = Received(Context(ins)) \o apdu.data

(* A chunk that is answered: Ok when the upload goes on, and out of        *)
(* sequence only when it is.                                               *)
AnswersChunk(ins, x) ==
  /\ x.out = <<>>
  /\ x.sw = "Ok" => Context(ins)'.in_progress
  /\ Context(ins)'.in_progress => Took(ins, x.apdu)
  /\ x.sw = "WrongP1P2" => ~(Context(ins).in_progress <=> "extend" \in x.apdu.p2)

(* An APDU is answered, or its review is put on the screen.                *)
AnswersWell(x) ==
  /\ x.apdu.ins \in Pubkeys =>
       x.out \in {<<>>, x.apdu.data} /\ (x.sw = "Ok" => x.out # <<>>)
  /\ \A ins \in Uploading :
       IF x.apdu.ins = ins THEN AnswersChunk(ins, x) ELSE ~Context(ins)'.in_progress

ShowsWell(apdu) ==
  /\ screen'.name = "review_address" => apdu.data = <<screen'.path>>
  /\ \A ins \in Uploading :
       IF apdu.ins = ins THEN Took(ins, apdu) ELSE ~Context(ins)'.in_progress

Handles(apdu) ==
  \/ /\ ~Reviewing'
     /\ \E x \in Exchange : Adds(x) /\ x.apdu = apdu /\ AnswersWell(x)
  \/ /\ Reviewing' /\ UNCHANGED exchanges /\ screen'.apdu = apdu /\ ShowsWell(apdu)

(* A screen without a review.                                              *)
LEMMA NoReviewing ==
  /\ Reviewing <=> screen.name \in Reviews
  /\ Reviewing' <=> screen'.name \in Reviews
BY DEF Reviewing, Reviews

(* The configuration is answered at once.                                  *)
LEMMA ConfigHandled ==
  ASSUME IInv, HandleGetAppConfig
  PROVE  \E apdu : Handles(apdu)
<1> DEFINE apdu == Apdu("app_config", {}, <<>>)
           x == [apdu |-> apdu, sw |-> "Ok", out |-> <<>>]
<1>1. /\ Answer(apdu, "Ok", <<>>) /\ KeepOnly("app_config")
      /\ Len(exchanges) < MaxExchanges
  BY DEF HandleGetAppConfig, CanServe
<1>2. apdu \in Apdus /\ "Ok" \in StatusWords /\ apdu.ins = "app_config"
  <2>1. apdu \in Apdus
    BY ApduType, EmptySeq DEF Instructions
  <2>2. apdu.ins = "app_config"
    BY ApduIs
  <2> QED
    BY <2>1, <2>2 DEF StatusWords
<1> HIDE DEF apdu
<1>3. x \in Exchange /\ Adds(x) /\ screen'.name \notin Reviews
  BY <1>1, <1>2, NoOutput, AnswerAdds
<1>4. \A ins \in Uploading : "app_config" # ins /\ ~Context(ins)'.in_progress
  BY <1>1, KeepOnlyDrops DEF Uploading
<1>5. x.apdu = apdu
  OBVIOUS
<1> HIDE DEF x
<1>6. AnswersWell(x)
  BY <1>2, <1>4, <1>5 DEF AnswersWell, Pubkeys
<1> QED
  BY <1>2, <1>3, <1>5, <1>6, NoReviewing DEF Handles

(* An address is answered at once or shown.                                *)
LEMMA PubkeyHandled ==
  ASSUME IInv, HandleGetPubkey
  PROVE  \E apdu : Handles(apdu)
<1>1. PICK ins \in Pubkeys : \E data \in Data[ins] :
        LET apdu == Apdu(ins, {}, data)
            path == Len(data) = 1 /\ data[1] \in Paths
        IN  /\ KeepOnly(ins)
            /\ \/ ~path /\ Answer(apdu, "WrongApduLength", <<>>)
               \/ path /\ Answer(apdu, "KeyDeriveFail", <<>>)
               \/ path /\ ins = "pubkey" /\ Answer(apdu, "Ok", data)
               \/ /\ path /\ ins = "pubkey_display"
                  /\ screen' = ReviewAddress(apdu, data[1])
                  /\ UNCHANGED exchanges
  BY DEF HandleGetPubkey, Pubkeys
<1>2. PICK data \in Data[ins] :
        LET apdu == Apdu(ins, {}, data)
            path == Len(data) = 1 /\ data[1] \in Paths
        IN  /\ KeepOnly(ins)
            /\ \/ ~path /\ Answer(apdu, "WrongApduLength", <<>>)
               \/ path /\ Answer(apdu, "KeyDeriveFail", <<>>)
               \/ path /\ ins = "pubkey" /\ Answer(apdu, "Ok", data)
               \/ /\ path /\ ins = "pubkey_display"
                  /\ screen' = ReviewAddress(apdu, data[1])
                  /\ UNCHANGED exchanges
  BY <1>1
<1> DEFINE apdu == Apdu(ins, {}, data)
           path == Len(data) = 1 /\ data[1] \in Paths
<1>3. data \in Seq(Units) /\ ins \in Instructions
  BY ConstantsAssumption DEF Instructions, Pubkeys
<1>4. apdu \in Apdus /\ apdu.ins = ins /\ apdu.data = data
  BY <1>3, ApduType, ApduIs
<1>5. Len(exchanges) < MaxExchanges
  BY DEF HandleGetPubkey, CanServe
<1>6. \A other \in Uploading : ins # other /\ ~Context(other)'.in_progress
  BY <1>2, KeepOnlyDrops DEF Uploading, Pubkeys
<1>7. path => data \in Outputs /\ data # <<>> /\ data = <<data[1]>>
  <2>1. path => data = <<data[1]>>
    BY <1>3, LenProperties
  <2> QED
    BY <2>1 DEF Outputs
<1>8. \/ \E sw \in {"WrongApduLength", "KeyDeriveFail"} : Answer(apdu, sw, <<>>)
      \/ path /\ Answer(apdu, "Ok", data)
      \/ path /\ screen' = ReviewAddress(apdu, data[1]) /\ UNCHANGED exchanges
  BY <1>2
<1> HIDE DEF apdu, path
<1>9. ASSUME NEW sw \in StatusWords, NEW out \in {<<>>, data}, out \in Outputs,
             Answer(apdu, sw, out), sw = "Ok" => out # <<>>
      PROVE  Handles(apdu)
  <2> DEFINE x == [apdu |-> apdu, sw |-> sw, out |-> out]
  <2>1. x \in Exchange /\ Adds(x) /\ screen'.name \notin Reviews
    BY <1>4, <1>5, <1>9, AnswerAdds
  <2>2. x.apdu = apdu /\ x.sw = sw /\ x.out = out
    OBVIOUS
  <2> HIDE DEF x
  <2>3. AnswersWell(x)
    BY <1>4, <1>6, <1>9, <2>2 DEF AnswersWell
  <2> QED
    BY <2>1, <2>2, <2>3, NoReviewing DEF Handles
<1>10. CASE \E sw \in {"WrongApduLength", "KeyDeriveFail"} : Answer(apdu, sw, <<>>)
  BY <1>4, <1>9, <1>10, NoOutput DEF StatusWords
<1>11. CASE path /\ Answer(apdu, "Ok", data)
  BY <1>4, <1>7, <1>9, <1>11 DEF StatusWords
<1>12. CASE path /\ screen' = ReviewAddress(apdu, data[1]) /\ UNCHANGED exchanges
  <2>1. /\ screen'.name = "review_address" /\ screen'.apdu = apdu
        /\ screen'.path = data[1]
    BY <1>12 DEF ReviewAddress
  <2>2. ShowsWell(apdu)
    BY <1>4, <1>6, <1>7, <1>12, <2>1 DEF ShowsWell
  <2> QED
    BY <1>4, <1>12, <2>1, <2>2 DEF Handles, Reviewing
<1> QED
  BY <1>8, <1>10, <1>11, <1>12

(* A chunk of either command.                                              *)
LEMMA ChunkHandled ==
  ASSUME IInv, Len(exchanges) < MaxExchanges, NEW ins \in Uploading, NEW max,
         NEW p2 \in SUBSET {"extend", "more"}, NEW data \in Seq(Units),
         NEW step, step = ingest_payload_chunk(Context(ins), max, p2, data),
         NEW apdu, apdu = Apdu(ins, p2, data),
         \A other \in Uploading \ {ins} : ~Context(other)'.in_progress,
         \/ /\ step.result # "completed" /\ Context(ins)' = step.ctx
            /\ Answer(apdu, IF step.result = "incomplete" THEN "Ok" ELSE step.result, <<>>)
         \/ /\ step.result = "completed" /\ Context(ins)' \in {step.ctx, ResetContext}
            /\ \E sw \in StatusWords \ {"Ok", "WrongP1P2"} : Answer(apdu, sw, <<>>)
         \/ /\ step.result = "completed" /\ Context(ins)' = step.ctx
            /\ UNCHANGED exchanges
            /\ screen'.name = ReviewOf(ins) /\ screen'.apdu = apdu
  PROVE  Handles(apdu)
<1> DEFINE ctx == Context(ins)
<1>1. /\ apdu \in Apdus /\ apdu.ins = ins /\ apdu.p2 = p2 /\ apdu.data = data
      /\ ins \notin Pubkeys
  BY ApduType, ApduIs DEF Uploading, Instructions, Pubkeys
<1>2. ctx \in Contexts(Units)
  BY ContextType DEF IInv
<1>3. \/ /\ step.result \in {"WrongP1P2", "WrongApduLength"}
         /\ ~step.ctx.in_progress
         /\ step.result = "WrongP1P2" => ~(ctx.in_progress <=> "extend" \in p2)
      \/ /\ ctx.in_progress <=> "extend" \in p2
         /\ step.ctx.payload = Received(ctx) \o data
         /\ step.ctx.in_progress <=> "more" \in p2
         /\ step.result = IF "more" \in p2 THEN "incomplete" ELSE "completed"
  <2>1. "reserved" \notin p2 /\ ctx.in_progress \in BOOLEAN
    BY <1>2 DEF Contexts
  <2>2. CASE OutOfSequence(ctx, p2)
    BY <2>1, <2>2 DEF ingest_payload_chunk, Refused, ResetContext, OutOfSequence
  <2>3. CASE ~OutOfSequence(ctx, p2) /\ Len(Received(ctx)) + Len(data) > max
    BY <2>1, <2>3 DEF ingest_payload_chunk, Refused, ResetContext
  <2>4. CASE ~OutOfSequence(ctx, p2) /\ ~(Len(Received(ctx)) + Len(data) > max)
    BY <2>1, <2>4 DEF ingest_payload_chunk, OutOfSequence
  <2> QED
    BY <2>2, <2>3, <2>4
<1>4. ASSUME NEW sw \in StatusWords, Answer(apdu, sw, <<>>),
             sw = "Ok" => ctx'.in_progress,
             ctx'.in_progress => Took(ins, apdu),
             sw = "WrongP1P2" => ~(ctx.in_progress <=> "extend" \in p2)
      PROVE  Handles(apdu)
  <2> DEFINE x == [apdu |-> apdu, sw |-> sw, out |-> <<>>]
  <2>1. x \in Exchange /\ Adds(x) /\ screen'.name \notin Reviews
    BY <1>1, <1>4, NoOutput, AnswerAdds
  <2>2. x.apdu = apdu /\ x.sw = sw /\ x.out = <<>>
    OBVIOUS
  <2> HIDE DEF x
  <2>3. AnswersWell(x)
    BY <1>1, <1>4, <2>2 DEF AnswersWell, AnswersChunk
  <2> QED
    BY <2>1, <2>2, <2>3, NoReviewing DEF Handles
<1>5. CASE /\ step.result # "completed" /\ ctx' = step.ctx
           /\ Answer(apdu, IF step.result = "incomplete" THEN "Ok" ELSE step.result, <<>>)
  <2>1. CASE step.result = "incomplete"
    <3>1. /\ "more" \in p2 /\ (ctx.in_progress <=> "extend" \in p2)
          /\ step.ctx.payload = Received(ctx) \o data /\ step.ctx.in_progress
      BY <1>3, <2>1
    <3>2. Took(ins, apdu)
      BY <1>1, <1>5, <3>1 DEF Took
    <3> QED
      BY <1>4, <1>5, <2>1, <3>1, <3>2 DEF StatusWords
  <2>2. CASE step.result # "incomplete"
    <3>1. /\ step.result \in {"WrongP1P2", "WrongApduLength"} /\ ~step.ctx.in_progress
          /\ step.result = "WrongP1P2" => ~(ctx.in_progress <=> "extend" \in p2)
      BY <1>3, <1>5, <2>2
    <3> QED
      BY <1>4, <1>5, <2>2, <3>1 DEF StatusWords
  <2> QED
    BY <2>1, <2>2
<1>6. ASSUME step.result = "completed"
      PROVE  /\ ctx.in_progress <=> "extend" \in p2
             /\ step.ctx.payload = Received(ctx) \o data
             /\ ~step.ctx.in_progress
  BY <1>3, <1>6
<1>7. CASE /\ step.result = "completed" /\ ctx' \in {step.ctx, ResetContext}
           /\ \E sw \in StatusWords \ {"Ok", "WrongP1P2"} : Answer(apdu, sw, <<>>)
  <2>1. ~ctx'.in_progress
    BY <1>6, <1>7 DEF ResetContext
  <2> QED
    BY <1>4, <1>7, <2>1
<1>8. CASE /\ step.result = "completed" /\ ctx' = step.ctx
           /\ UNCHANGED exchanges
           /\ screen'.name = ReviewOf(ins) /\ screen'.apdu = apdu
  <2>1. Took(ins, apdu)
    BY <1>1, <1>6, <1>8 DEF Took
  <2>2. screen'.name \in Reviews /\ screen'.name # "review_address"
    BY <1>8 DEF ReviewOf, Reviews
  <2>3. ShowsWell(apdu)
    BY <1>1, <2>1, <2>2 DEF ShowsWell
  <2> QED
    BY <1>8, <2>2, <2>3, NoReviewing DEF Handles
<1> QED
  BY <1>1, <1>5, <1>7, <1>8

(* A chunk of sign-message.                                                *)
LEMMA SignHandled ==
  ASSUME IInv, HandleSignMessage
  PROVE  \E apdu : Handles(apdu)
<1> DEFINE apdu(p2, data) == Apdu("sign", p2, data)
           step(p2, data) == ingest_payload_chunk(sign_context, MaxSignPayload, p2, data)
           outcome(p2, data) ==
             \/ /\ step(p2, data).result = "completed"
                /\ SignPayload(apdu(p2, data), step(p2, data).ctx)
             \/ /\ step(p2, data).result = "incomplete"
                /\ Answer(apdu(p2, data), "Ok", <<>>)
                /\ sign_context' = step(p2, data).ctx
             \/ /\ step(p2, data).result \notin {"completed", "incomplete"}
                /\ Answer(apdu(p2, data), step(p2, data).result, <<>>)
                /\ sign_context' = step(p2, data).ctx
<1>1. PICK p2 \in SUBSET {"extend", "more"}, data \in Data["sign"] : outcome(p2, data)
  BY DEF HandleSignMessage
<1>2. data \in Seq(Units)
  BY ConstantsAssumption DEF Instructions
<1>3. Len(exchanges) < MaxExchanges /\ ~load_idl_context'.in_progress
  BY DEF HandleSignMessage, ForgetLoadIdl, ResetContext, CanServe
<1> DEFINE the_apdu == apdu(p2, data)
           the_step == step(p2, data)
           parsed == parse_sign_payload(the_step.ctx.payload)
<1>4. the_step.ctx \in Contexts(Units)
  BY <1>2, IngestType DEF IInv, TypeOK
<1>5. parsed.sw \in {"Ok", "InvalidData", "WrongApduLength"}
  BY <1>4, ParseSignType DEF Contexts
<1> HIDE DEF apdu, step
<1>6. \/ /\ the_step.result # "completed" /\ sign_context' = the_step.ctx
         /\ Answer(the_apdu, IF the_step.result = "incomplete" THEN "Ok" ELSE the_step.result, <<>>)
      \/ the_step.result = "completed" /\ SignPayload(the_apdu, the_step.ctx)
  BY <1>1
<1>7. SignPayload(the_apdu, the_step.ctx) =>
        \/ /\ \E sw \in StatusWords \ {"Ok", "WrongP1P2"} : Answer(the_apdu, sw, <<>>)
           /\ sign_context' \in {the_step.ctx, ResetContext}
        \/ /\ sign_context' = the_step.ctx /\ UNCHANGED exchanges
           /\ screen'.name = "review_message" /\ screen'.apdu = the_apdu
  BY <1>5 DEF SignPayload, StatusWords, ReviewMessage
<1> HIDE DEF parsed
<1>8. /\ "sign" \in Uploading /\ Context("sign") = sign_context
      /\ Context("sign")' = sign_context' /\ ReviewOf("sign") = "review_message"
      /\ \A other \in Uploading \ {"sign"} : Context(other)' = load_idl_context'
  BY DEF Context, ReviewOf, Uploading
<1>9. /\ the_step = ingest_payload_chunk(Context("sign"), MaxSignPayload, p2, data)
      /\ the_apdu = Apdu("sign", p2, data)
  BY <1>8 DEF apdu, step
<1> HIDE DEF the_apdu, the_step
<1>10. Handles(the_apdu)
  BY <1>2, <1>3, <1>6, <1>7, <1>8, <1>9, ChunkHandled
<1> QED
  BY <1>10

(* A chunk of load-idl.                                                    *)
LEMMA LoadIdlHandled ==
  ASSUME IInv, HandleLoadIdl
  PROVE  \E apdu : Handles(apdu)
<1> DEFINE apdu(p2, data) == Apdu("load_idl", p2, data)
           step(p2, data) ==
             ingest_payload_chunk(load_idl_context, MaxLoadIdlPayload, p2, data)
           outcome(p2, data) ==
             \/ /\ step(p2, data).result = "completed"
                /\ ImportPayload(apdu(p2, data), step(p2, data).ctx)
             \/ /\ step(p2, data).result = "incomplete"
                /\ Answer(apdu(p2, data), "Ok", <<>>)
                /\ load_idl_context' = step(p2, data).ctx
             \/ /\ step(p2, data).result \notin {"completed", "incomplete"}
                /\ Answer(apdu(p2, data), step(p2, data).result, <<>>)
                /\ load_idl_context' = step(p2, data).ctx
<1>1. PICK p2 \in SUBSET {"extend", "more"}, data \in Data["load_idl"] : outcome(p2, data)
  BY DEF HandleLoadIdl
<1>2. data \in Seq(Units)
  BY ConstantsAssumption DEF Instructions
<1>3. Len(exchanges) < MaxExchanges /\ ~sign_context'.in_progress
  BY DEF HandleLoadIdl, ForgetSign, ResetContext, CanServe
<1> DEFINE the_apdu == apdu(p2, data)
           the_step == step(p2, data)
           prepared == prepare_idl_import(the_step.ctx.payload)
<1>4. the_step.ctx \in Contexts(Units)
  BY <1>2, IngestType DEF IInv, TypeOK
<1>5. prepared.sw \in {"Ok", "InvalidData", "WrongApduLength"}
  BY <1>4, PrepareType DEF Contexts
<1> HIDE DEF apdu, step
<1>6. \/ /\ the_step.result # "completed" /\ load_idl_context' = the_step.ctx
         /\ Answer(the_apdu, IF the_step.result = "incomplete" THEN "Ok" ELSE the_step.result, <<>>)
      \/ the_step.result = "completed" /\ ImportPayload(the_apdu, the_step.ctx)
  BY <1>1
<1>7. ImportPayload(the_apdu, the_step.ctx) =>
        \/ /\ \E sw \in StatusWords \ {"Ok", "WrongP1P2"} : Answer(the_apdu, sw, <<>>)
           /\ load_idl_context' \in {the_step.ctx, ResetContext}
        \/ /\ load_idl_context' = the_step.ctx /\ UNCHANGED exchanges
           /\ screen'.name = "review_idl_import" /\ screen'.apdu = the_apdu
  <2> SUFFICES ASSUME ImportPayload(the_apdu, the_step.ctx)
               PROVE  \/ /\ \E sw \in StatusWords \ {"Ok", "WrongP1P2"} :
                              Answer(the_apdu, sw, <<>>)
                         /\ load_idl_context' \in {the_step.ctx, ResetContext}
                      \/ /\ load_idl_context' = the_step.ctx /\ UNCHANGED exchanges
                         /\ screen'.name = "review_idl_import" /\ screen'.apdu = the_apdu
    OBVIOUS
  <2>1. \/ /\ Answer(the_apdu, prepared.sw, <<>>) /\ prepared.sw # "Ok"
           /\ load_idl_context' = ResetContext
        \/ Answer(the_apdu, "InvalidData", <<>>) /\ load_idl_context' = ResetContext
        \/ /\ screen' = ReviewImport(the_apdu, prepared)
           /\ load_idl_context' = the_step.ctx /\ UNCHANGED exchanges
    BY DEF ImportPayload
  <2> HIDE DEF the_apdu, the_step, prepared
  <2>2. screen' = ReviewImport(the_apdu, prepared) =>
          screen'.name = "review_idl_import" /\ screen'.apdu = the_apdu
    BY DEF ReviewImport
  <2>3. /\ prepared.sw # "Ok" => prepared.sw \in StatusWords \ {"Ok", "WrongP1P2"}
        /\ "InvalidData" \in StatusWords \ {"Ok", "WrongP1P2"}
    BY <1>5 DEF StatusWords
  <2> QED
    BY <2>1, <2>2, <2>3
<1> HIDE DEF prepared
<1>8. /\ "load_idl" \in Uploading /\ Context("load_idl") = load_idl_context
      /\ Context("load_idl")' = load_idl_context'
      /\ ReviewOf("load_idl") = "review_idl_import"
      /\ \A other \in Uploading \ {"load_idl"} : Context(other)' = sign_context'
  BY DEF Context, ReviewOf, Uploading
<1>9. /\ the_step = ingest_payload_chunk(Context("load_idl"), MaxLoadIdlPayload, p2, data)
      /\ the_apdu = Apdu("load_idl", p2, data)
  BY <1>8 DEF apdu, step
<1> HIDE DEF the_apdu, the_step
<1>10. Handles(the_apdu)
  BY <1>2, <1>3, <1>6, <1>7, <1>8, <1>9, ChunkHandled
<1> QED
  BY <1>10

(* An answer reaches the process, if there is one.                         *)
Reaches(x) == outbox' = IF Running THEN Append(outbox, x) ELSE outbox

(* Deliver hands on the exchange that a step adds, and nothing else.       *)
LEMMA Delivered ==
  ASSUME TypeOK, Deliver
  PROVE  /\ \A x \in Exchange : Adds(x) =>
              /\ Reaches(x) /\ Len(exchanges') > Len(exchanges)
              /\ exchanges'[Len(exchanges')] = x
         /\ UNCHANGED exchanges =>
              outbox' = outbox /\ ~(Len(exchanges') > Len(exchanges))
<1>1. Len(exchanges) \in Nat
  BY LenProperties DEF TypeOK
<1>2. ASSUME NEW x \in Exchange, Adds(x)
      PROVE  /\ Len(exchanges') > Len(exchanges) /\ exchanges'[Len(exchanges')] = x
  <2>1. Len(exchanges') = Len(exchanges) + 1 /\ exchanges'[Len(exchanges) + 1] = x
    BY <1>2, AddedExchange
  <2> QED
    BY <1>1, <2>1
<1> QED
  BY <1>1, <1>2 DEF Deliver, Reaches

(* The device serves the APDU that came first.                             *)
ServesIt ==
  /\ ~Reviewing /\ inbox # <<>> /\ inbox' = Tail(inbox)
  /\ UNCHANGED <<run, runs, missed, printed>>
  /\ \/ /\ ~Reviewing'
        /\ \E x \in Exchange :
             Adds(x) /\ x.apdu = Head(inbox) /\ AnswersWell(x) /\ Reaches(x)
     \/ /\ Reviewing' /\ UNCHANGED <<exchanges, outbox>>
        /\ screen'.apdu = Head(inbox) /\ ShowsWell(Head(inbox))

(* A served APDU is answered or shown, and its answer goes on its way.     *)
LEMMA ServesCases ==
  ASSUME IInv, Serves
  PROVE  ServesIt
<1>1. \E apdu : Handles(apdu)
  BY ConfigHandled, PubkeyHandled, SignHandled, LoadIdlHandled DEF Serves
<1>2. PICK apdu : Handles(apdu)
  BY <1>1
<1>3. ~Reviewing
  BY DEF Serves, HandleGetAppConfig, HandleGetPubkey, HandleSignMessage, HandleLoadIdl,
         CanServe, Waiting, Home, LeftOver, Reviewing
<1>4. /\ inbox # <<>> /\ inbox' = Tail(inbox) /\ Deliver
      /\ UNCHANGED <<run, runs, missed, printed>>
      /\ Head(inbox) = IF Len(exchanges') > Len(exchanges)
                       THEN exchanges'[Len(exchanges')].apdu ELSE screen'.apdu
  BY DEF Serves
<1>5. CASE /\ ~Reviewing'
           /\ \E x \in Exchange : Adds(x) /\ x.apdu = apdu /\ AnswersWell(x)
  <2>1. PICK x \in Exchange : Adds(x) /\ x.apdu = apdu /\ AnswersWell(x)
    BY <1>5
  <2>2. Reaches(x) /\ Head(inbox) = x.apdu
    BY <1>4, <2>1, Delivered DEF IInv
  <2> QED
    BY <1>3, <1>4, <1>5, <2>1, <2>2 DEF ServesIt
<1>6. CASE /\ Reviewing' /\ UNCHANGED exchanges /\ screen'.apdu = apdu /\ ShowsWell(apdu)
  <2>1. outbox' = outbox /\ Head(inbox) = apdu
    BY <1>4, <1>6, Delivered DEF IInv
  <2> QED
    BY <1>3, <1>4, <1>6, <2>1 DEF ServesIt
<1> QED
  BY <1>2, <1>5, <1>6 DEF Handles

-----------------------------------------------------------------------------
(* What the user's decision answers.                                       *)

(* What a finished upload of a command is answered with.                   *)
Result(cmd) ==
  IF cmd.ins = "sign" THEN <<cmd.path, cmd.message>>
  ELSE <<ProgramOf[cmd.idl], Len(cmd.attestations), Len(cmd.idl)>>

(* A payload of sign-message has one path and one message.                 *)
LEMMA SignResult ==
  ASSUME NEW cmd \in Commands, cmd.ins = "sign",
         NEW path \in Units, NEW message \in Seq(Units),
         Payload(cmd) = <<1, path>> \o message
  PROVE  <<path, message>> = Result(cmd)
<1> DEFINE a == <<1, cmd.path>>
           b == <<1, path>>
<1>1. cmd.path \in Units /\ cmd.message \in Seq(Units) /\ 1 \in Units
  BY CommandType DEF Units
<1>2. a \in Seq(Units) /\ b \in Seq(Units) /\ Len(a) = Len(b)
  BY <1>1
<1>3. a[2] = cmd.path /\ b[2] = path
  OBVIOUS
<1>4. a \o cmd.message = b \o message
  BY DEF Payload
<1> HIDE DEF a, b
<1>5. a = b /\ cmd.message = message
  BY ONLY <1>1, <1>2, <1>4, message \in Seq(Units), SameParts
<1> QED
  BY <1>3, <1>5 DEF Result

(* A payload of load-idl has one list of attestations and one IDL.         *)
LEMMA ImportResult ==
  ASSUME NEW cmd \in Commands, cmd.ins = "load_idl",
         NEW attestations \in Seq(Units), NEW idl \in Seq(Units),
         Payload(cmd) = <<1, Len(attestations), Len(idl)>> \o attestations \o idl
  PROVE  <<ProgramOf[idl], Len(attestations), Len(idl)>> = Result(cmd)
<1> DEFINE la == Len(cmd.attestations)
           li == Len(cmd.idl)
           ka == Len(attestations)
           ki == Len(idl)
           a == <<1, la, li>>
           b == <<1, ka, ki>>
           fa == a \o cmd.attestations
           fb == b \o attestations
<1>1. /\ cmd.attestations \in Seq(Units) /\ cmd.idl \in Seq(Units)
      /\ la \in Nat /\ li \in Nat /\ ka \in Nat /\ ki \in Nat
  BY CommandType, LenProperties
<1>2. a \in Seq(Units) /\ b \in Seq(Units) /\ Len(a) = 3 /\ Len(b) = 3
  <2>1. la \in Units /\ li \in Units /\ ka \in Units /\ ki \in Units /\ 1 \in Units
    BY <1>1 DEF Units
  <2> HIDE DEF la, li, ka, ki
  <2> QED
    BY <2>1
<1>3. a[2] = la /\ a[3] = li /\ b[2] = ka /\ b[3] = ki
  OBVIOUS
<1>4. fa \o cmd.idl = fb \o idl
  BY DEF Payload
<1> HIDE DEF a, b
<1>5. /\ fa \in Seq(Units) /\ Len(fa) = Len(a) + la
      /\ \A i \in 1..Len(a) : fa[i] = a[i]
  <2>1. a \in Seq(Units) /\ cmd.attestations \in Seq(Units)
    BY <1>1, <1>2
  <2> QED
    BY ONLY <2>1, ConcatIs
<1>6. /\ fb \in Seq(Units) /\ Len(fb) = Len(b) + ka
      /\ \A i \in 1..Len(b) : fb[i] = b[i]
  <2>1. b \in Seq(Units) /\ attestations \in Seq(Units)
    BY <1>2
  <2> QED
    BY ONLY <2>1, ConcatIs
<1> HIDE DEF fa, fb
<1>7. \A i \in 1..Len(fa) : (fa \o cmd.idl)[i] = fa[i]
  BY ONLY <1>1, <1>5, ConcatIs
<1>8. \A i \in 1..Len(fb) : (fb \o idl)[i] = fb[i]
  BY ONLY <1>6, idl \in Seq(Units), ConcatIs
<1> HIDE DEF la, li, ka, ki
<1>9. la = ka /\ li = ki
  <2>1. /\ 2 \in 1..Len(fa) /\ 3 \in 1..Len(fa) /\ 2 \in 1..Len(fb) /\ 3 \in 1..Len(fb)
        /\ 2 \in 1..Len(a) /\ 3 \in 1..Len(a) /\ 2 \in 1..Len(b) /\ 3 \in 1..Len(b)
    BY ONLY <1>1, <1>2, <1>5, <1>6
  <2>2. fa[2] = la /\ fa[3] = li /\ fb[2] = ka /\ fb[3] = ki
    BY ONLY <1>3, <1>5, <1>6, <2>1
  <2> QED
    BY ONLY <1>4, <1>7, <1>8, <2>1, <2>2
<1>10. Len(fa) = Len(fb)
  BY ONLY <1>2, <1>5, <1>6, <1>9
<1>11. cmd.idl = idl
  BY ONLY <1>1, <1>4, <1>5, <1>6, <1>10, idl \in Seq(Units), SameParts
<1> QED
  BY ONLY <1>9, <1>11, cmd.ins = "load_idl" DEF Result, la, li, ka, ki

(* An approval is answered with data, a refusal or a failure without.      *)
LEMMA DecidedAnswers ==
  ASSUME IInv, Decide, NEW x \in Exchange, Adds(x), x.apdu # Restarted
  PROVE  /\ x.sw = "Ok" => x.out # <<>>
         /\ screen.name = "review_address" => x.out \in {<<>>, <<screen.path>>}
<1>1. ASSUME NEW sw, NEW out, Answer(screen.apdu, sw, out)
      PROVE  x.sw = sw /\ x.out = out
  <2> DEFINE y == [apdu |-> screen.apdu, sw |-> sw, out |-> out]
  <2>1. Append(exchanges, x) = Append(exchanges, y)
    BY <1>1 DEF Answer, Adds
  <2>2. exchanges \in Seq(Exchange)
    BY DEF IInv, TypeOK, Exchange
  <2>3. y.sw = sw /\ y.out = out
    OBVIOUS
  <2> HIDE DEF y
  <2>4. x = y
    BY ONLY <2>1, <2>2, SameEnd
  <2> QED
    BY <2>3, <2>4
<1>2. CASE ApproveAddress
  BY <1>1, <1>2 DEF ApproveAddress
<1>3. CASE RejectAddress \/ RejectMessage \/ RejectImport
  BY <1>1, <1>3 DEF RejectAddress, RejectMessage, RejectImport
<1>4. CASE ApproveMessage
  <2> DEFINE parsed == parse_sign_payload(sign_context.payload)
             out == <<parsed.path, parsed.message>>
  <2>1. /\ screen.name = "review_message"
        /\ \/ Answer(screen.apdu, "Ok", out)
           \/ \E sw \in {"KeyDeriveFail", "ConditionsNotSatisfied"} :
                Answer(screen.apdu, sw, <<>>)
    BY <1>4 DEF ApproveMessage
  <2>2. out # <<>>
    OBVIOUS
  <2> HIDE DEF out
  <2> QED
    BY <1>1, <2>1, <2>2
<1>5. CASE ApproveImport
  <2> DEFINE prepared == prepare_idl_import(load_idl_context.payload)
             out == <<prepared.program_id, Len(prepared.attestations), Len(prepared.idl)>>
             gone == [apdu |-> Restarted, sw |-> "Ok", out |-> <<>>]
  <2>1. /\ screen.name = "review_idl_import"
        /\ Answer(screen.apdu, "Ok", out) \/ exchanges' = Append(exchanges, gone)
    BY <1>5 DEF ApproveImport
  <2>2. out # <<>> /\ gone.apdu = Restarted
    OBVIOUS
  <2> HIDE DEF out, gone
  <2>3. exchanges' # Append(exchanges, gone)
    <3>1. exchanges \in Seq(Exchange)
      BY DEF IInv, TypeOK, Exchange
    <3>2. Append(exchanges, gone) = Append(exchanges, x) => gone = x
      BY ONLY <3>1, SameEnd
    <3> QED
      BY <2>2, <3>2 DEF Adds
  <2> QED
    BY <1>1, <2>1, <2>2, <2>3
<1> QED
  BY <1>2, <1>3, <1>4, <1>5 DEF Decide

(* A review of an upload answers what its payload says, or without data.   *)
LEMMA ResultReleased ==
  ASSUME HInv, Decide, NEW x \in Exchange, Adds(x), x.apdu = screen.apdu,
         NEW cmd \in Commands, cmd.ins \in Uploading, screen.apdu.ins = cmd.ins,
         Context(cmd.ins).payload = Payload(cmd)
  PROVE  x.out \in {<<>>, Result(cmd)}
<1>1. IInv /\ TypeOK /\ [Next]_vars
  BY DEF HInv, IInv, Next
<1>2. (IsSignature(x) => SignedFrom(x)) /\ (IsImport(x) => ImportedFrom(x))
  <2>1. /\ exchanges'[Len(exchanges) + 1] = x /\ Len(exchanges') = Len(exchanges) + 1
        /\ Len(exchanges) \in Nat
    BY <1>1, AddedExchange
  <2>2. ~UNCHANGED exchanges
    BY <2>1
  <2>3. PICK y \in Exchange :
          /\ Adds(y) /\ (IsSignature(y) => SignedFrom(y))
          /\ IsImport(y) => ImportedFrom(y)
    BY <1>1, <2>2, WhatIsAdded
  <2>4. exchanges'[Len(exchanges) + 1] = y
    BY <1>1, <2>3, AddedExchange
  <2> QED
    BY <2>1, <2>3, <2>4
<1>3. Payload(cmd) \in Seq(Units)
  BY PayloadType
<1>4. CASE cmd.ins = "sign" /\ x.out # <<>>
  <2> DEFINE parsed == parse_sign_payload(Payload(cmd))
  <2>1. sign_context.payload = Payload(cmd)
    BY <1>4 DEF Context
  <2>2. SignedFrom(x)
    BY <1>2, <1>4 DEF IsSignature
  <2>3. parsed.sw = "Ok" /\ x.out = <<parsed.path, parsed.message>>
    BY <2>1, <2>2 DEF SignedFrom
  <2>4. parsed.path \in Paths /\ parsed.message \in Seq(Units)
    BY <1>3, <2>3, ParseSignType
  <2>5. Payload(cmd) = <<1, parsed.path>> \o parsed.message
    BY <1>3, <2>3, SignPayloadIs
  <2> DEFINE path == parsed.path
             message == parsed.message
  <2>6. path \in Units
    BY <2>4 DEF Units
  <2>7. x.out = <<path, message>> /\ message \in Seq(Units) /\ Payload(cmd) = <<1, path>> \o message
    BY <2>3, <2>4, <2>5
  <2> HIDE DEF path, message
  <2>8. <<path, message>> = Result(cmd)
    BY ONLY <1>4, <2>6, <2>7, cmd \in Commands, SignResult
  <2> QED
    BY <2>7, <2>8
<1>5. CASE cmd.ins = "load_idl" /\ x.out # <<>>
  <2> DEFINE prepared == prepare_idl_import(Payload(cmd))
  <2>1. load_idl_context.payload = Payload(cmd)
    BY <1>5 DEF Context
  <2>2. ImportedFrom(x)
    BY <1>2, <1>5 DEF IsImport
  <2>3. /\ prepared.sw = "Ok"
        /\ x.out = <<prepared.program_id, Len(prepared.attestations), Len(prepared.idl)>>
    BY <2>1, <2>2 DEF ImportedFrom
  <2>4. /\ prepared.program_id = ProgramOf[prepared.idl]
        /\ prepared.attestations \in Seq(Units) /\ prepared.idl \in Seq(Units)
    BY <1>3, <2>3, PrepareType, ConstantsAssumption
  <2>5. Payload(cmd) = <<1, Len(prepared.attestations), Len(prepared.idl)>>
                       \o prepared.attestations \o prepared.idl
    BY <1>3, <2>3, ImportPayloadIs
  <2> DEFINE attestations == prepared.attestations
             idl == prepared.idl
  <2>6. /\ x.out = <<ProgramOf[idl], Len(attestations), Len(idl)>>
        /\ attestations \in Seq(Units) /\ idl \in Seq(Units)
        /\ Payload(cmd) = <<1, Len(attestations), Len(idl)>> \o attestations \o idl
    BY <2>3, <2>4, <2>5
  <2> HIDE DEF attestations, idl
  <2>7. <<ProgramOf[idl], Len(attestations), Len(idl)>> = Result(cmd)
    BY ONLY <1>5, <2>6, cmd \in Commands, ImportResult
  <2> QED
    BY <2>6, <2>7
<1> QED
  BY <1>4, <1>5 DEF Uploading

(* The user decides: the answer is to the APDU of the review, is not that  *)
(* the chunk was out of sequence, and carries data when it is Ok.          *)
Decides(x) ==
  /\ x.apdu = screen.apdu /\ x.sw # "WrongP1P2" /\ Reaches(x)
  /\ x.sw = "Ok" => x.out # <<>>
  /\ x.apdu.ins \in Pubkeys => x.out \in {<<>>, <<screen.path>>}
  /\ x.apdu.ins \in Instructions \ {"pubkey"}
  /\ x.apdu.ins \in Pubkeys => screen.name = "review_address"
  /\ x.apdu.ins \in Uploading => "more" \notin x.apdu.p2
  /\ \A cmd \in Commands :
       cmd.ins \in Uploading /\ x.apdu.ins = cmd.ins
         /\ Context(cmd.ins).payload = Payload(cmd)
       => x.out \in {<<>>, Result(cmd)}

DecidesIt ==
  /\ Reviewing /\ ~Reviewing'
  /\ UNCHANGED <<run, runs, inbox, missed, printed>>
  /\ \A ins \in Uploading : ~Context(ins).in_progress /\ ~Context(ins)'.in_progress
  /\ \E x \in Exchange : Decides(x)

(* A decision of the user ends the review and answers its APDU.            *)
LEMMA DecidesCases ==
  ASSUME HInv, UserDecides
  PROVE  DecidesIt
<1>1. /\ IInv /\ TypeOK /\ NoRunInReview /\ Decide /\ Deliver
      /\ exchanges'[Len(exchanges')].apdu # Restarted
      /\ UNCHANGED <<run, runs, inbox, missed, printed>>
  BY DEF HInv, IInv, UserDecides
<1>2. Reviewing /\ ~Reviewing' /\ screen.name \in Reviews
  BY <1>1, DecideCases, NoReviewing
<1>3. \A ins \in Uploading : ~Context(ins).in_progress /\ ~Context(ins)'.in_progress
  <2> SUFFICES ASSUME NEW ins \in Uploading
               PROVE  ~Context(ins).in_progress /\ ~Context(ins)'.in_progress
    OBVIOUS
  <2>1. GivesUp(ins)
    BY <1>1, DecideUpload
  <2> QED
    BY <1>1, <1>2, <2>1 DEF GivesUp, NoRunInReview
<1>4. PICK x \in Exchange : Adds(x) /\ x.apdu = screen.apdu /\ x.sw # "WrongP1P2"
  <2>1. ASSUME NEW x \in Exchange, Adds(x) PROVE x.apdu # Restarted
    <3>1. exchanges'[Len(exchanges')] = x
      BY <1>1, <2>1, AddedExchange
    <3> QED
      BY <1>1, <3>1
  <2> QED
    BY <1>1, <2>1, DecideCases
<1>5. Reaches(x) /\ x.apdu # Restarted
  <2>1. Reaches(x) /\ exchanges'[Len(exchanges')] = x
    BY <1>1, <1>4, Delivered
  <2> QED
    BY <1>1, <2>1
<1>6. /\ x.sw = "Ok" => x.out # <<>>
      /\ screen.name = "review_address" => x.out \in {<<>>, <<screen.path>>}
  BY <1>1, <1>4, <1>5, DecidedAnswers
<1>7. /\ screen.name = "review_address" => x.apdu.ins = "pubkey_display"
      /\ screen.name = "review_message" => x.apdu.ins = "sign"
      /\ screen.name = "review_idl_import" => x.apdu.ins = "load_idl"
  BY <1>1, <1>4, ScreenType
<1>8. x.apdu.ins \in Uploading => "more" \notin x.apdu.p2
  <2>1. \A ins \in Uploading : UploadShown(ins)
    BY DEF HInv
  <2>2. x.apdu.ins \in Uploading => screen.name = ReviewOf(x.apdu.ins)
    BY <1>2, <1>7 DEF Uploading, Reviews, ReviewOf
  <2> QED
    BY <1>4, <2>1, <2>2 DEF UploadShown
<1>9. \A cmd \in Commands :
        cmd.ins \in Uploading /\ x.apdu.ins = cmd.ins
          /\ Context(cmd.ins).payload = Payload(cmd)
        => x.out \in {<<>>, Result(cmd)}
  BY <1>1, <1>4, ResultReleased
<1>10. /\ x.apdu.ins \in Instructions \ {"pubkey"}
       /\ x.apdu.ins \in Pubkeys => screen.name = "review_address"
  BY <1>2, <1>7 DEF Reviews, Instructions, Pubkeys
<1>11. Decides(x)
  BY <1>4, <1>5, <1>6, <1>8, <1>9, <1>10 DEF Decides
<1> QED
  BY <1>1, <1>2, <1>3, <1>11 DEF DecidesIt

-----------------------------------------------------------------------------
(* The inductive invariant.  Judged: a process that uploads more than one  *)
(* APDU and started with at most one answer to an earlier one still due;   *)
(* an import is no longer judged when an APDU was dropped in the settings. *)
Judged ==
  /\ Running /\ run.cmd.ins \in Uploading /\ Len(Requests(run.cmd)) > 1
  /\ Len(run.late) <= 1 /\ (missed => run.cmd.ins = "sign")
This   == Requests(run.cmd)[run.next]
LastOne   == run.next = Len(Requests(run.cmd))

(* All that a process may send.                                            *)
Asks == UNION {{Requests(cmd)[k] : k \in 1..Len(Requests(cmd))} : cmd \in Commands}

HostType ==
  /\ inbox \in Seq(Asks) /\ outbox \in Seq(Exchange)
  /\ Running =>
       /\ run = [cmd |-> run.cmd, next |-> run.next, late |-> run.late]
       /\ run.cmd \in Commands /\ run.next \in 1..Len(Requests(run.cmd))

(* What was sent stands in a line, from the answers that wait for the      *)
(* process over the review on the screen to what the device did not serve  *)
(* yet.  In the line are at most two: the APDU under way last, unless it   *)
(* was dropped, and ahead of it a late answer's, which in the course of    *)
(* the run becomes the APDU before it.  The address that sign-message asks *)
(* for first takes in the late answer: there is none from its second chunk *)
(* on.                                                                     *)
Ahead(apdu) ==
  run.next > 1 =>
    /\ apdu = Requests(run.cmd)[run.next - 1]
    /\ run.cmd.ins = "sign" => run.next = 2

InboxInLine ==
  /\ Len(inbox) > 0 => inbox[Len(inbox)] = This
  /\ Len(inbox) = 2 => Ahead(inbox[1])
ScreenInLine ==
  Reviewing =>
    /\ Len(inbox) = 0 /\ Len(outbox) = 0 => screen.apdu = This \/ Ahead(screen.apdu)
    /\ Len(inbox) = 1 => Ahead(screen.apdu)
    /\ Len(outbox) = 1 => screen.apdu = This
OutboxInLine ==
  /\ Len(outbox) = 1 => outbox[1].apdu = This \/ Ahead(outbox[1].apdu)
  /\ Len(outbox) = 1 /\ (Reviewing \/ Len(inbox) > 0) => Ahead(outbox[1].apdu)
  /\ Len(outbox) = 2 => Ahead(outbox[1].apdu) /\ outbox[2].apdu = This

InLine ==
  Judged =>
    /\ Len(outbox) + Len(inbox) <= (IF Reviewing THEN 1 ELSE 2)
    /\ InboxInLine /\ ScreenInLine /\ OutboxInLine

(* How many chunks the device has taken in, when it refused none, and what *)
(* it then holds: nothing when sign-message has its address.  Nothing is   *)
(* said of a process that no answer is on its way to.                      *)
Taken == run.next - Before(run.cmd) - Len(inbox)
Holding == Context(run.cmd.ins)
HeldSoFar == Taken >= 1 /\ Holding.in_progress => Holding.payload = Sent(run.cmd, Taken)
HeldForSign ==
  run.cmd.ins = "sign" =>
    /\ run.next = 1 /\ Len(outbox) > 0 /\ outbox[1].apdu.ins \in Pubkeys =>
         ~Holding.in_progress
    /\ run.next = 2 /\ Len(inbox) > 0 => ~Holding.in_progress
    /\ run.next > 2 /\ Len(inbox) > 0 => Holding.in_progress
GoesOn(x) ==
  run.cmd.ins = "sign" /\ run.next > 1 /\ x.apdu = This /\ x.sw = "Ok" /\ x.out = <<>> =>
    Holding.in_progress
Awaits == outbox # <<>> \/ inbox # <<>> \/ Reviewing
Held ==
  Judged /\ Awaits =>
    HeldSoFar /\ HeldForSign /\ \A i \in 1..Len(outbox) : GoesOn(outbox[i])

(* A review of the last chunk is of the whole payload.                     *)
Shown ==
  Judged /\ LastOne /\ Reviewing /\ screen.apdu = This =>
    Holding.payload = Payload(run.cmd)

(* What the answers say that wait for the process.                         *)
WellAnswered(x) ==
  /\ x.apdu.ins \in Instructions
  /\ x.apdu.ins \in Uploading /\ "more" \in x.apdu.p2 => x.out = <<>>
  /\ x.apdu.ins \in Pubkeys =>
       x.out \in {<<>>, x.apdu.data} /\ (x.sw = "Ok" => x.out # <<>>)
  /\ \A cmd \in Commands :
       OneImport(cmd) /\ x.apdu = Requests(cmd)[1] => x.out \in {<<>>, Result(cmd)}
OwnAnswered(x) ==
  Judged /\ x.apdu = This =>
    /\ LastOne => x.out \in {<<>>, Result(run.cmd)}
    /\ run.cmd.ins = "sign" /\ run.next > 1 => x.sw # "WrongP1P2"
Answered == \A i \in 1..Len(outbox) : WellAnswered(outbox[i]) /\ OwnAnswered(outbox[i])

(* What is on the screen for an APDU that is the only one of its command.  *)
Address == screen.name = "review_address" => screen.apdu.data = <<screen.path>>
Alone ==
  \A cmd \in Commands : OneImport(cmd) /\ Reviewing /\ screen.apdu = Requests(cmd)[1] =>
    load_idl_context.payload = Payload(cmd)

(* A command of a single APDU takes an answer to any of its rivals for one *)
(* to itself.  None is in line but its own, unless one was due when the    *)
(* process started.                                                        *)
Rivals(cmd) == IF cmd.ins \in Pubkeys THEN Pubkeys ELSE {"load_idl"}
Unrivalled(cmd, late) ==
  (cmd.ins \in Pubkeys \/ OneImport(cmd)) /\ NoneDue(late, Rivals(cmd))
OwnApdu(apdu) == apdu.ins \in Rivals(run.cmd) => apdu = Requests(run.cmd)[1]
Asked ==
  Running /\ Unrivalled(run.cmd, run.late) =>
  /\ \A i \in 1..Len(outbox) : OwnApdu(outbox[i].apdu)
  /\ Reviewing => OwnApdu(screen.apdu)
  /\ \A i \in 1..Len(inbox) : OwnApdu(inbox[i])

(* HInv is the device's own (LedgerApp_proofs), LineInv the rest.          *)
LineInv ==
  /\ HostType /\ InLine /\ Held /\ Shown /\ Answered /\ Address /\ Alone /\ Asked
  /\ PrintedIsForTheCommand
HostInv == HInv /\ LineInv

-----------------------------------------------------------------------------
(* Facts the steps share.                                                  *)

(* A sequence without its first element.                                   *)
LEMMA TailIs ==
  ASSUME NEW S, NEW s \in Seq(S), s # <<>>
  PROVE  /\ Len(s) \in Nat /\ Len(s) > 0 /\ Head(s) = s[1]
         /\ Tail(s) \in Seq(S) /\ Len(Tail(s)) = Len(s) - 1
         /\ \A i \in 1..Len(Tail(s)) : i + 1 \in 1..Len(s) /\ Tail(s)[i] = s[i + 1]
<1>1. /\ Len(s) \in Nat /\ Len(s) > 0 /\ Head(s) = s[1]
      /\ Tail(s) \in Seq(S) /\ Len(Tail(s)) = Len(s) - 1
      /\ \A i \in 1..Len(Tail(s)) : Tail(s)[i] = s[i + 1]
  BY LenProperties, HeadTailProperties, EmptySeq
<1> QED
  BY <1>1

(* A sequence with one element more.                                       *)
LEMMA AppendIs ==
  ASSUME NEW S, NEW s \in Seq(S), NEW x \in S
  PROVE  /\ Len(s) \in Nat /\ Append(s, x) \in Seq(S) /\ Len(Append(s, x)) = Len(s) + 1
         /\ Append(s, x)[Len(s) + 1] = x
         /\ \A i \in 1..Len(s) : Append(s, x)[i] = s[i]
BY AppendProperties, LenProperties

(* The APDUs of a command, whichever it is.                                *)
LEMMA RequestsAre ==
  ASSUME NEW cmd \in Commands
  PROVE  /\ Len(Requests(cmd)) \in Nat /\ Len(Requests(cmd)) >= 1
         /\ \A k \in 1..Len(Requests(cmd)) :
              Requests(cmd)[k].ins \in Instructions /\ Requests(cmd)[k] \in Asks
         /\ cmd.ins \notin Uploading => Len(Requests(cmd)) = 1
         /\ cmd.ins \in Pubkeys =>
              Requests(cmd)[1].ins = cmd.ins /\ Requests(cmd)[1].data = <<cmd.path>>
<1>1. \A k \in 1..Len(Requests(cmd)) : Requests(cmd)[k] \in Asks
  BY DEF Asks
<1>2. CASE cmd.ins \in Uploading
  <2> DEFINE m == Len(Requests(cmd))
             r(k) == Requests(cmd)[k]
  <2>1. /\ m \in Nat /\ m >= 1 /\ Chunks(cmd) = m - Before(cmd)
        /\ cmd.ins = "sign" => r(1).ins = "pubkey"
        /\ \A k \in 1..Chunks(cmd) : r(k + Before(cmd)).ins = cmd.ins
    BY <1>2, UploadIs DEF IsUploadOf, Chunks
  <2>2. Before(cmd) \in {0, 1} /\ (Before(cmd) = 1 => cmd.ins = "sign")
    BY DEF Before
  <2> HIDE DEF m, r
  <2>3. ASSUME NEW k \in 1..m PROVE r(k).ins \in {"pubkey", "sign", "load_idl"}
    <3>1. CASE k - Before(cmd) \in 1..Chunks(cmd)
      <4>1. (k - Before(cmd)) + Before(cmd) = k
        BY <2>2
      <4>2. r(k).ins = cmd.ins
        BY <2>1, <3>1, <4>1
      <4> QED
        BY <1>2, <4>2 DEF Uploading
    <3>2. CASE k - Before(cmd) \notin 1..Chunks(cmd)
      <4>1. k = 1 /\ cmd.ins = "sign"
        BY <2>1, <2>2, <3>2
      <4> QED
        BY <2>1, <4>1
    <3> QED
      BY <3>1, <3>2
  <2> QED
    BY <1>1, <1>2, <2>1, <2>3 DEF Instructions, Uploading, Pubkeys, m, r
<1>3. CASE cmd.ins \in Pubkeys
  <2> DEFINE apdu == Apdu(cmd.ins, {}, <<cmd.path>>)
  <2>1. Requests(cmd) = <<apdu>>
    BY <1>3, PubkeyRequests
  <2>2. apdu.ins = cmd.ins /\ apdu.data = <<cmd.path>>
    BY ApduIs
  <2> HIDE DEF apdu
  <2>3. Len(Requests(cmd)) = 1 /\ Requests(cmd)[1] = apdu
    BY <2>1
  <2> QED
    BY <1>1, <1>3, <2>2, <2>3 DEF Instructions, Pubkeys
<1>4. CASE cmd.ins = "app_config"
  <2> DEFINE apdu == Apdu("app_config", {}, <<>>)
  <2>1. Requests(cmd) = <<apdu>>
    BY <1>4, PubkeyRequests
  <2>2. apdu.ins = "app_config"
    BY ApduIs
  <2> HIDE DEF apdu
  <2>3. Len(Requests(cmd)) = 1 /\ Requests(cmd)[1] = apdu
    BY <2>1
  <2> QED
    BY <1>1, <1>4, <2>2, <2>3 DEF Instructions, Pubkeys
<1>5. cmd.ins \in Instructions
  BY CommandType
<1> QED
  BY <1>2, <1>3, <1>4, <1>5 DEF Instructions, Pubkeys, Uploading

(* A process with a command runs.                                          *)
LEMMA HasCommand ==
  ASSUME NEW r, r.cmd \in Commands
  PROVE  r # NoRun
<1>1. r.cmd.ins \in Instructions
  BY CommandType
<1> QED
  BY <1>1 DEF NoRun, Instructions

(* The steps of the device and of the user leave the process alone.        *)
LEMMA SameRun ==
  ASSUME UNCHANGED run, missed => missed'
  PROVE  /\ Running' <=> Running
         /\ Judged' => Judged
         /\ UNCHANGED missed => (Judged' <=> Judged)
         /\ This' = This
         /\ LastOne' <=> LastOne
         /\ \A apdu : Ahead(apdu)' <=> Ahead(apdu)
BY DEF Running, Judged, This, LastOne, Ahead

(* What Judged says of the process.                                        *)
LEMMA JudgedRun ==
  ASSUME HostType, Judged
  PROVE  /\ Running /\ run.cmd \in Commands /\ run.cmd.ins \in Uploading
         /\ run.next \in Nat /\ run.next >= 1 /\ run.next <= Len(Requests(run.cmd))
         /\ Len(Requests(run.cmd)) \in Nat /\ Len(Requests(run.cmd)) > 1
         /\ Len(inbox) \in Nat /\ Len(outbox) \in Nat
<1>1. Running /\ run.cmd \in Commands /\ run.cmd.ins \in Uploading
  BY DEF HostType, Judged
<1>2. IsUploadOf(run.cmd)
  BY <1>1, UploadIs
<1>3. Len(Requests(run.cmd)) \in Nat /\ Len(Requests(run.cmd)) > 1
  BY <1>2 DEF IsUploadOf, Judged
<1>4. run.next \in 1..Len(Requests(run.cmd))
  BY <1>1 DEF HostType
<1>5. Len(inbox) \in Nat /\ Len(outbox) \in Nat
  BY LenProperties DEF HostType
<1> QED
  BY <1>1, <1>3, <1>4, <1>5

(* What is ahead of the APDU under way is not that one, at the last APDU   *)
(* and wherever sign-message is.                                           *)
LEMMA AheadIsNotThis ==
  ASSUME HostType, Judged, Ahead(This), run.next > 1,
         LastOne \/ run.cmd.ins = "sign"
  PROVE  FALSE
<1>1. /\ run.cmd \in Commands /\ run.cmd.ins \in Uploading
      /\ Len(Requests(run.cmd)) > 1
  BY JudgedRun
<1>2. This = Requests(run.cmd)[run.next - 1] /\ (run.cmd.ins = "sign" => run.next = 2)
  BY DEF Ahead
<1>3. CASE LastOne
  BY <1>1, <1>2, <1>3, Neighbours DEF LastOne, This
<1>4. CASE run.cmd.ins = "sign"
  <2>1. run.next = 2 /\ run.next - 1 = 1
    BY <1>2, <1>4
  <2> QED
    BY <1>1, <1>2, <1>4, <2>1, Neighbours DEF This
<1> QED
  BY <1>3, <1>4

-----------------------------------------------------------------------------
(* The line: one lemma per step.                                           *)

(* An answer at the end of those that wait.                                *)
LEMMA OneMoreAnswer ==
  ASSUME HostType, Running, NEW x \in Exchange, Reaches(x)
  PROVE  /\ Len(outbox) \in Nat /\ outbox' \in Seq(Exchange)
         /\ Len(outbox') = Len(outbox) + 1 /\ outbox'[Len(outbox) + 1] = x
         /\ \A i \in 1..Len(outbox) : outbox'[i] = outbox[i]
<1>1. outbox' = Append(outbox, x) /\ outbox \in Seq(Exchange)
  BY DEF Reaches, HostType
<1> QED
  BY <1>1, AppendIs

(* The device takes the first APDU that it did not serve yet.              *)
LEMMA ServesLine ==
  ASSUME HostType, InLine, ServesIt
  PROVE  InLine'
<1> SUFFICES ASSUME Judged'
             PROVE  /\ Len(outbox') + Len(inbox') <= (IF Reviewing' THEN 1 ELSE 2)
                    /\ InboxInLine' /\ ScreenInLine' /\ OutboxInLine'
  BY DEF InLine
<1> DEFINE o == Len(outbox)
           l == Len(inbox)
           head == Head(inbox)
           this == This
           ahead(apdu) == Ahead(apdu)
<1>1. /\ UNCHANGED <<run, missed>> /\ inbox # <<>> /\ inbox' = Tail(inbox) /\ ~Reviewing
      /\ inbox \in Seq(Asks)
  BY DEF ServesIt, HostType
<1>2. /\ Judged /\ This' = this /\ (Running' <=> Running)
      /\ \A apdu : Ahead(apdu)' <=> ahead(apdu)
  BY <1>1, SameRun
<1>3. /\ l \in Nat /\ l > 0 /\ head = inbox[1] /\ Len(inbox') = l - 1
      /\ \A i \in 1..Len(inbox') : inbox'[i] = inbox[i + 1]
  BY <1>1, TailIs
<1>4. Running /\ o \in Nat
  BY <1>2, JudgedRun
<1>5. /\ o + l <= 2 /\ inbox[l] = this
      /\ l = 2 => ahead(inbox[1])
      /\ o = 1 => ahead(outbox[1].apdu)
  BY <1>1, <1>2, <1>3 DEF InLine, InboxInLine, OutboxInLine
<1>6. /\ l = 1 => head = this
      /\ l = 2 => ahead(head) /\ o = 0
      /\ l \in {1, 2}
  BY <1>3, <1>4, <1>5
<1> HIDE DEF o, l, head, this, ahead
<1>7. InboxInLine'
  <2>1. l = 2 => inbox'[1] = inbox[2]
    BY <1>3
  <2>2. Len(inbox') > 0 => inbox'[Len(inbox')] = this
    BY <1>3, <1>5, <1>6, <2>1
  <2>3. Len(inbox') # 2
    BY <1>3, <1>6
  <2> QED
    BY <1>2, <2>2, <2>3 DEF InboxInLine
<1>8. ASSUME ~Reviewing', NEW x \in Exchange, x.apdu = head, Reaches(x)
      PROVE  /\ Len(outbox') + Len(inbox') <= 2
             /\ ScreenInLine' /\ OutboxInLine'
  <2>1. /\ Len(outbox') = o + 1 /\ outbox'[o + 1].apdu = head
        /\ \A i \in 1..o : outbox'[i] = outbox[i]
    BY <1>4, <1>8, OneMoreAnswer DEF o
  <2>2. ScreenInLine'
    BY <1>8 DEF ScreenInLine
  <2>3. Len(outbox') + Len(inbox') <= 2
    BY <1>3, <1>4, <1>5, <2>1
  <2>4. o \in {0, 1} /\ (o = 1 => l = 1)
    BY <1>3, <1>4, <1>5
  <2>5. CASE o = 0
    <3>1. Len(outbox') = 1 /\ outbox'[1].apdu = head
      BY <2>1, <2>5
    <3>2. head = this \/ ahead(head)
      BY <1>6
    <3>3. Len(inbox') > 0 => ahead(head)
      BY <1>3, <1>6
    <3> QED
      BY <1>2, <1>8, <2>2, <2>3, <3>1, <3>2, <3>3 DEF OutboxInLine
  <2>6. CASE o = 1
    <3>1. Len(outbox') = 2 /\ outbox'[1] = outbox[1] /\ outbox'[2].apdu = head
      BY <2>1, <2>6
    <3>2. head = this /\ ahead(outbox[1].apdu)
      BY <1>5, <1>6, <2>4, <2>6
    <3> QED
      BY <1>2, <2>2, <2>3, <3>1, <3>2 DEF OutboxInLine
  <2> QED
    BY <2>4, <2>5, <2>6
<1>9. ASSUME Reviewing', screen'.apdu = head, outbox' = outbox
      PROVE  /\ Len(outbox') + Len(inbox') <= 1
             /\ ScreenInLine' /\ OutboxInLine'
  <2>1. Len(outbox') = o
    BY <1>9 DEF o
  <2>2. Len(outbox') + Len(inbox') <= 1
    BY <1>3, <1>4, <1>5, <2>1
  <2>3. /\ Len(inbox') = 0 /\ Len(outbox') = 0 => screen'.apdu = this
        /\ Len(inbox') = 1 => ahead(screen'.apdu)
        /\ Len(outbox') = 1 => screen'.apdu = this
    BY <1>3, <1>4, <1>6, <1>9, <2>1
  <2>4. ScreenInLine'
    BY <1>2, <2>3 DEF ScreenInLine
  <2>5. OutboxInLine'
    <3>1. Len(outbox') = 1 => ahead(outbox'[1].apdu)
      BY <1>5, <1>9, <2>1
    <3>2. Len(outbox') # 2
      BY <1>3, <1>4, <1>5, <2>1
    <3> QED
      BY <1>2, <3>1, <3>2 DEF OutboxInLine
  <2> QED
    BY <2>2, <2>4, <2>5
<1> QED
  BY <1>7, <1>8, <1>9 DEF ServesIt, head

(* The answer to a review takes its place.                                 *)
LEMMA DecidesLine ==
  ASSUME HostType, InLine, DecidesIt
  PROVE  InLine'
<1> SUFFICES ASSUME Judged'
             PROVE  /\ Len(outbox') + Len(inbox') <= (IF Reviewing' THEN 1 ELSE 2)
                    /\ InboxInLine' /\ ScreenInLine' /\ OutboxInLine'
  BY DEF InLine
<1> DEFINE o == Len(outbox)
           l == Len(inbox)
           apdu == screen.apdu
           this == This
           ahead(a) == Ahead(a)
<1>1. UNCHANGED <<run, inbox, missed>> /\ Reviewing /\ ~Reviewing'
  BY DEF DecidesIt
<1>2. /\ Judged /\ This' = this /\ (Running' <=> Running)
      /\ \A a : Ahead(a)' <=> ahead(a)
  BY <1>1, SameRun
<1>3. Running /\ o \in Nat /\ l \in Nat
  BY <1>2, JudgedRun
<1>4. /\ o + l <= 1
      /\ l = 0 /\ o = 0 => apdu = this \/ ahead(apdu)
      /\ l = 1 => ahead(apdu)
      /\ o = 1 => apdu = this /\ ahead(outbox[1].apdu)
      /\ l > 0 => inbox[l] = this
  BY <1>1, <1>2 DEF InLine, ScreenInLine, OutboxInLine, InboxInLine
<1>5. PICK x \in Exchange : Reaches(x) /\ x.apdu = apdu
  BY DEF DecidesIt, Decides
<1>6. /\ Len(outbox') = o + 1 /\ outbox'[o + 1].apdu = apdu
      /\ \A i \in 1..o : outbox'[i] = outbox[i]
  BY <1>3, <1>5, OneMoreAnswer
<1>7. Len(inbox') = l /\ inbox' = inbox
  BY <1>1
<1> HIDE DEF o, l, apdu, this, ahead
<1>8. Len(outbox') + Len(inbox') <= 2
  BY <1>3, <1>4, <1>6, <1>7
<1>9. InboxInLine'
  <2>1. Len(inbox') > 0 => inbox'[Len(inbox')] = this
    BY <1>4, <1>7
  <2>2. Len(inbox') # 2
    BY <1>3, <1>4, <1>7
  <2> QED
    BY <1>2, <2>1, <2>2 DEF InboxInLine
<1>10. ScreenInLine'
  BY <1>1 DEF ScreenInLine
<1>11. OutboxInLine'
  <2>1. Len(outbox') = 1 =>
          /\ outbox'[1].apdu = this \/ ahead(outbox'[1].apdu)
          /\ Len(inbox') > 0 => ahead(outbox'[1].apdu)
    BY <1>3, <1>4, <1>6, <1>7
  <2>2. Len(outbox') = 2 => ahead(outbox'[1].apdu) /\ outbox'[2].apdu = this
    BY <1>3, <1>4, <1>6
  <2> QED
    BY <1>1, <1>2, <2>1, <2>2 DEF OutboxInLine
<1> QED
  BY <1>1, <1>8, <1>9, <1>10, <1>11

(* An APDU that is dropped while the thread is not waiting.                *)
LEMMA LoseRun ==
  ASSUME HostType, Lose
  PROVE  /\ UNCHANGED <<run, outbox, vars>> /\ UNCHANGED <<screen, printed>>
         /\ inbox # <<>> /\ inbox' = Tail(inbox) /\ inbox \in Seq(Asks)
         /\ Reviewing' <=> Reviewing
         /\ missed => missed'
         /\ Reviewing \/ (Running => missed')
BY DEF Lose, HostType, vars, Reviewing

LEMMA LoseLine ==
  ASSUME HostType, InLine, Lose
  PROVE  InLine'
<1> SUFFICES ASSUME Judged'
             PROVE  /\ Len(outbox') + Len(inbox') <= (IF Reviewing' THEN 1 ELSE 2)
                    /\ InboxInLine' /\ ScreenInLine' /\ OutboxInLine'
  BY DEF InLine
<1> DEFINE o == Len(outbox)
           l == Len(inbox)
<1>1. /\ UNCHANGED <<run, outbox, screen>> /\ (Reviewing' <=> Reviewing)
      /\ inbox # <<>> /\ inbox' = Tail(inbox) /\ inbox \in Seq(Asks)
  BY LoseRun
<1>2. /\ Judged /\ This' = This
      /\ \A apdu : Ahead(apdu)' <=> Ahead(apdu)
  BY LoseRun, SameRun
<1>3. /\ l \in Nat /\ l > 0 /\ Len(inbox') = l - 1
      /\ \A i \in 1..(l - 1) : inbox'[i] = inbox[i + 1]
  BY <1>1, TailIs
<1>4. o \in Nat /\ Len(outbox') = o
  BY <1>1, <1>2, JudgedRun
<1>5. /\ o + l <= 2 /\ (Reviewing => o + l <= 1)
      /\ inbox[l] = This
      /\ Reviewing /\ l = 1 => Ahead(screen.apdu)
      /\ o = 1 => outbox[1].apdu = This \/ Ahead(outbox[1].apdu)
  BY <1>2, <1>3 DEF InLine, InboxInLine, ScreenInLine, OutboxInLine
<1> HIDE DEF o, l
<1>6. /\ (l = 1 /\ o \in {0, 1}) \/ (l = 2 /\ o = 0)
      /\ Reviewing => l = 1 /\ o = 0
  BY <1>3, <1>4, <1>5
<1>7. InboxInLine'
  <2>1. l = 2 => inbox'[1] = inbox[2]
    BY <1>3
  <2> QED
    BY <1>2, <1>3, <1>5, <1>6, <2>1 DEF InboxInLine
<1>8. ScreenInLine'
  BY <1>1, <1>2, <1>3, <1>4, <1>5, <1>6 DEF ScreenInLine
<1>9. OutboxInLine'
  BY <1>1, <1>2, <1>3, <1>4, <1>5, <1>6 DEF OutboxInLine
<1> QED
  BY <1>1, <1>3, <1>4, <1>6, <1>7, <1>8, <1>9

(* The process has its answer and goes on to its next APDU.                *)
LEMMA ProceedRun ==
  ASSUME HostType, Proceed
  PROVE  /\ run'.cmd = run.cmd /\ run'.late = run.late /\ run'.next = run.next + 1
         /\ run' = [cmd |-> run'.cmd, next |-> run'.next, late |-> run'.late]
         /\ run.cmd \in Commands /\ run.next \in Nat /\ run.next >= 1
         /\ run'.next \in 1..Len(Requests(run.cmd))
         /\ Running /\ Running' /\ (Judged' <=> Judged)
         /\ This' = Requests(run.cmd)[run.next + 1] /\ This' \in Asks
         /\ \A apdu : Ahead(apdu)' <=>
              apdu = This /\ (run.cmd.ins = "sign" => run.next = 1)
<1>1. /\ run = [cmd |-> run.cmd, next |-> run.next, late |-> run.late]
      /\ run.cmd \in Commands /\ run.next \in 1..Len(Requests(run.cmd)) /\ Running
      /\ run' = [run EXCEPT !.next = @ + 1] /\ run.next < Len(Requests(run.cmd))
  BY DEF HostType, Proceed
<1>2. run'.cmd = run.cmd /\ run'.late = run.late /\ run'.next = run.next + 1
  BY <1>1
<1>3. run' = [cmd |-> run'.cmd, next |-> run'.next, late |-> run'.late]
  BY <1>1
<1>4. Len(Requests(run.cmd)) \in Nat
  BY <1>1, RequestsAre
<1>5. run.next \in Nat /\ run.next >= 1 /\ run.next + 1 \in 1..Len(Requests(run.cmd))
  BY <1>1, <1>4
<1>6. Running' /\ (Judged' <=> Judged)
  <2>1. missed' = missed
    BY DEF Proceed
  <2>2. Running'
    BY <1>1, <1>2, HasCommand DEF Running
  <2> QED
    BY <1>1, <1>2, <2>1, <2>2 DEF Judged
<1>7. This' = Requests(run.cmd)[run.next + 1] /\ This' \in Asks
  BY <1>1, <1>2, <1>5, RequestsAre DEF This
<1>8. \A apdu : Ahead(apdu)' <=> apdu = This /\ (run.cmd.ins = "sign" => run.next = 1)
  <2>1. run'.next > 1 /\ run'.next - 1 = run.next /\ (run'.next = 2 <=> run.next = 1)
    BY <1>2, <1>5
  <2> QED
    BY <1>2, <2>1 DEF Ahead, This
<1> QED
  BY <1>1, <1>2, <1>3, <1>5, <1>6, <1>7, <1>8

(* From its second APDU on, sign-message goes on only for the Ok of the    *)
(* chunk under way: the answer to get-pubkey has another length.           *)
LEMMA SignProceeds ==
  ASSUME HostType, InLine, Answered, Judged, Proceed, run.cmd.ins = "sign", run.next > 1
  PROVE  /\ Len(outbox) = 1 /\ Len(inbox) = 0 /\ ~Reviewing
         /\ outbox[1].apdu = This /\ outbox[1].sw = "Ok" /\ outbox[1].out = <<>>
<1> DEFINE x == outbox[1]
           m == Len(Requests(run.cmd))
<1>1. /\ run.cmd \in Commands /\ run.cmd.ins \in Uploading
      /\ run.next \in Nat /\ run.next <= m /\ m \in Nat
      /\ Len(inbox) \in Nat /\ Len(outbox) \in Nat
  BY JudgedRun
<1>2. /\ outbox # <<>> /\ Accepts(run.cmd, run.next, Head(outbox)) /\ run.next < m
      /\ outbox \in Seq(Exchange)
  BY DEF Proceed, HostType
<1>3. Len(outbox) > 0 /\ Head(outbox) = x
  BY <1>2, TailIs
<1>4. This.ins = "sign" /\ Requests(run.cmd)[1].ins = "pubkey"
  <2>1. run.next \in 2..m
    BY <1>1
  <2>2. IsUploadOf(run.cmd)
    BY <1>1, UploadIs
  <2> QED
    BY <1>1, <2>1, <2>2, Neighbours DEF This, IsUploadOf
<1>5. x.sw = "Ok" /\ SizeOf(x) = 0
  BY <1>2, <1>3, <1>4 DEF Accepts, This
<1>6. WellAnswered(x)
  <2>1. 1 \in 1..Len(outbox)
    BY <1>1, <1>3
  <2> QED
    BY <2>1 DEF Answered
<1>7. x.out # <<>> => FullSize(x.apdu.ins) = 0
  BY <1>5 DEF SizeOf
<1>8. x.out = <<>>
  BY <1>7 DEF FullSize
<1>9. ~Ahead(x.apdu)
  <2>1. SUFFICES ASSUME Ahead(x.apdu) PROVE FALSE
    OBVIOUS
  <2>2. run.next = 2 /\ x.apdu = Requests(run.cmd)[run.next - 1]
    BY <2>1 DEF Ahead
  <2>3. x.apdu.ins = "pubkey"
    BY <1>4, <2>2
  <2> QED
    BY <1>5, <1>6, <1>8, <2>3 DEF WellAnswered, Pubkeys
<1>10. /\ Len(outbox) + Len(inbox) <= 2
       /\ Reviewing => Len(outbox) + Len(inbox) <= 1
       /\ Len(outbox) = 1 => x.apdu = This \/ Ahead(x.apdu)
       /\ Len(outbox) = 1 /\ (Reviewing \/ Len(inbox) > 0) => Ahead(x.apdu)
       /\ Len(outbox) = 2 => Ahead(x.apdu)
  BY <1>1 DEF InLine, OutboxInLine
<1> HIDE DEF x
<1>11. Len(outbox) = 1
  <2> DEFINE o == Len(outbox)
             l == Len(inbox)
  <2>1. o \in Nat /\ l \in Nat /\ o > 0 /\ o + l <= 2 /\ o # 2
    BY <1>1, <1>3, <1>9, <1>10
  <2> HIDE DEF o, l
  <2>2. o = 1
    BY <2>1
  <2> QED
    BY <2>2 DEF o
<1>12. Len(inbox) = 0 /\ ~Reviewing /\ x.apdu = This
  BY <1>1, <1>9, <1>10, <1>11
<1> QED
  BY <1>5, <1>8, <1>11, <1>12 DEF x

(* Its first chunk follows an address.                                     *)
LEMMA SignStarts ==
  ASSUME HostType, Answered, Proceed, run.cmd \in Commands,
         run.cmd.ins = "sign", run.next = 1
  PROVE  Len(outbox) > 0 /\ outbox[1].apdu.ins \in Pubkeys
<1> DEFINE x == outbox[1]
<1>1. outbox # <<>> /\ Accepts(run.cmd, run.next, Head(outbox)) /\ outbox \in Seq(Exchange)
  BY DEF Proceed, HostType
<1>2. Len(outbox) > 0 /\ Head(outbox) = x /\ 1 \in 1..Len(outbox)
  BY <1>1, TailIs
<1>3. Requests(run.cmd)[1].ins = "pubkey"
  BY UploadIs DEF IsUploadOf, Uploading
<1>4. SizeOf(x) = 32
  BY <1>1, <1>2, <1>3 DEF Accepts, FullSize
<1>5. x.apdu.ins \in Instructions
  BY <1>2 DEF Answered, WellAnswered
<1> HIDE DEF x
<1>6. FullSize(x.apdu.ins) = 32
  BY <1>4 DEF SizeOf
<1>7. x.apdu.ins \in Pubkeys
  BY <1>5, <1>6 DEF FullSize, Instructions, Pubkeys
<1> QED
  BY <1>2, <1>7 DEF x

(* What is in line moves up, and the next APDU is the last.                *)
LEMMA ProceedsTo ==
  ASSUME HostType, InLine, Judged, Proceed
  PROVE  /\ Len(outbox) \in {1, 2} /\ Len(inbox) \in {0, 1}
         /\ Len(outbox) + Len(inbox) <= (IF Reviewing THEN 1 ELSE 2)
         /\ Len(outbox') = Len(outbox) - 1 /\ Len(inbox') = Len(inbox) + 1
         /\ inbox'[Len(inbox')] = This'
         /\ Len(outbox) = 2 => outbox'[1] = outbox[2] /\ outbox[2].apdu = This
         /\ Len(inbox) = 1 => inbox'[1] = inbox[1] /\ inbox[1] = This
         /\ Reviewing => screen.apdu = This
<1>1. Len(inbox) \in Nat /\ Len(outbox) \in Nat
  BY JudgedRun
<1>2. /\ outbox # <<>> /\ outbox' = Tail(outbox) /\ outbox \in Seq(Exchange)
      /\ inbox' = Append(inbox, Requests(run.cmd)[run.next + 1]) /\ inbox \in Seq(Asks)
  BY DEF Proceed, HostType, Send
<1>3. /\ Len(outbox) > 0 /\ Len(outbox') = Len(outbox) - 1
      /\ \A i \in 1..Len(outbox') : outbox'[i] = outbox[i + 1]
  BY <1>2, TailIs
<1>4. This' = Requests(run.cmd)[run.next + 1] /\ This' \in Asks
  BY ProceedRun
<1>5. /\ Len(inbox') = Len(inbox) + 1 /\ inbox'[Len(inbox) + 1] = This'
      /\ \A i \in 1..Len(inbox) : inbox'[i] = inbox[i]
  BY <1>2, <1>4, AppendIs
<1>6. /\ Len(outbox) + Len(inbox) <= 2
      /\ Reviewing => Len(outbox) + Len(inbox) <= 1
      /\ Len(outbox) = 2 => outbox[2].apdu = This
      /\ Len(inbox) > 0 => inbox[Len(inbox)] = This
      /\ Reviewing /\ Len(outbox) = 1 => screen.apdu = This
  BY <1>1 DEF InLine, OutboxInLine, InboxInLine, ScreenInLine
<1>7. Len(outbox) \in {1, 2} /\ Len(inbox) \in {0, 1}
  <2> DEFINE o == Len(outbox)
             l == Len(inbox)
  <2>1. o \in Nat /\ l \in Nat /\ o > 0 /\ o + l <= 2
    BY <1>1, <1>3, <1>6
  <2> HIDE DEF o, l
  <2>2. o \in {1, 2} /\ l \in {0, 1}
    BY <2>1
  <2> QED
    BY <2>2 DEF o, l
<1>8. Len(outbox) = 2 => outbox'[1] = outbox[2]
  BY <1>3
<1>9. Len(inbox) = 1 => inbox'[1] = inbox[1] /\ inbox[1] = This
  BY <1>5, <1>6
<1>10. Reviewing => Len(outbox) = 1
  BY <1>1, <1>3, <1>6
<1> QED
  BY <1>3, <1>5, <1>6, <1>7, <1>8, <1>9, <1>10

(* The line when the process goes on.                                      *)
LEMMA ProceedLine ==
  ASSUME HostType, InLine, Answered, Proceed
  PROVE  InLine'
<1> SUFFICES ASSUME Judged'
             PROVE  /\ Len(outbox') + Len(inbox') <= (IF Reviewing' THEN 1 ELSE 2)
                    /\ InboxInLine' /\ ScreenInLine' /\ OutboxInLine'
  BY DEF InLine
<1> DEFINE o == Len(outbox)
           l == Len(inbox)
           this == This
           moves == run.cmd.ins = "sign" => run.next = 1
<1>1. /\ Judged /\ run.next \in Nat /\ run.next >= 1
      /\ \A apdu : Ahead(apdu)' <=> apdu = this /\ moves
  BY ProceedRun
<1>2. /\ o \in {1, 2} /\ l \in {0, 1} /\ o + l <= (IF Reviewing THEN 1 ELSE 2)
      /\ Len(outbox') = o - 1 /\ Len(inbox') = l + 1
      /\ inbox'[Len(inbox')] = This'
      /\ o = 2 => outbox'[1] = outbox[2] /\ outbox[2].apdu = this
      /\ l = 1 => inbox'[1] = inbox[1] /\ inbox[1] = this
      /\ Reviewing => screen.apdu = this
  BY <1>1, ProceedsTo
<1>3. ~moves => o = 1 /\ l = 0 /\ ~Reviewing
  <2> SUFFICES ASSUME ~moves PROVE o = 1 /\ l = 0 /\ ~Reviewing
    OBVIOUS
  <2>1. run.cmd.ins = "sign" /\ run.next > 1
    BY <1>1
  <2> QED
    BY <1>1, <2>1, SignProceeds
<1>4. screen' = screen /\ (Reviewing' <=> Reviewing)
  BY DEF Proceed, vars, Reviewing
<1> HIDE DEF o, l, this, moves
<1>5. Len(outbox') + Len(inbox') <= (IF Reviewing' THEN 1 ELSE 2)
  BY <1>2, <1>4
<1>6. InboxInLine'
  BY <1>1, <1>2, <1>3 DEF InboxInLine
<1>7. ScreenInLine'
  BY <1>1, <1>2, <1>3, <1>4 DEF ScreenInLine
<1>8. OutboxInLine'
  BY <1>1, <1>2, <1>3 DEF OutboxInLine
<1> QED
  BY <1>5, <1>6, <1>7, <1>8

(* A process starts: what is due is ahead of its first APDU.               *)
LEMMA StartRun ==
  ASSUME HostType, Start
  PROVE  \E cmd \in Commands :
           /\ run' = [cmd |-> cmd, next |-> 1, late |-> Due] /\ Running'
           /\ This' = Requests(cmd)[1] /\ This' \in Asks
           /\ inbox' \in Seq(Asks) /\ Len(inbox) \in Nat /\ Len(inbox') = Len(inbox) + 1
           /\ inbox'[Len(inbox) + 1] = This'
           /\ \A i \in 1..Len(inbox) : inbox'[i] = inbox[i]
           /\ outbox' = <<>> /\ printed' = NoReport
           /\ UNCHANGED vars /\ (Reviewing' <=> Reviewing)
<1>1. PICK cmd \in Commands :
        /\ run' = [cmd |-> cmd, next |-> 1, late |-> Due]
        /\ inbox' = Append(inbox, Requests(cmd)[1])
  BY DEF Start, Send
<1>2. This' = Requests(cmd)[1]
  BY <1>1 DEF This
<1>3. This' \in Asks
  <2>1. 1 \in 1..Len(Requests(cmd))
    BY RequestsAre
  <2> QED
    BY <1>2, <2>1, RequestsAre
<1>4. /\ inbox' \in Seq(Asks) /\ Len(inbox) \in Nat /\ Len(inbox') = Len(inbox) + 1
      /\ inbox'[Len(inbox) + 1] = This'
      /\ \A i \in 1..Len(inbox) : inbox'[i] = inbox[i]
  BY <1>1, <1>2, <1>3, AppendIs DEF HostType
<1>5. Running'
  BY <1>1, HasCommand DEF Running
<1>6. outbox' = <<>> /\ printed' = NoReport /\ UNCHANGED vars /\ (Reviewing' <=> Reviewing)
  BY DEF Start, vars, Reviewing
<1> QED
  BY <1>1, <1>2, <1>3, <1>4, <1>5, <1>6

(* What is due when a process starts.                                      *)
LEMMA DueIs ==
  ASSUME HostType
  PROVE  /\ Len(inbox) \in Nat
         /\ Len(Due) = Len(inbox) + (IF Reviewing THEN 1 ELSE 0)
         /\ \A i \in 1..Len(inbox) : \E k \in 1..Len(Due) : Due[k] = inbox[i].ins
         /\ Reviewing => \E k \in 1..Len(Due) : Due[k] = screen.apdu.ins
<1> DEFINE l == Len(inbox)
           S == {inbox[i].ins : i \in 1..l} \cup {screen.apdu.ins}
           shown == IF Reviewing THEN <<screen.apdu.ins>> ELSE <<>>
           waiting == [k \in 1..l |-> inbox[k].ins]
           n == IF Reviewing THEN 1 ELSE 0
<1>1. l \in Nat
  BY LenProperties DEF HostType
<1>2. waiting \in Seq(S) /\ Len(waiting) = l /\ \A i \in 1..l : waiting[i] = inbox[i].ins
  <2>1. waiting \in [1..l -> S] /\ \A i \in 1..l : waiting[i] = inbox[i].ins
    OBVIOUS
  <2> HIDE DEF waiting, l, S
  <2> QED
    BY <1>1, <2>1, FunctionIsSeq
<1>3. shown \in Seq(S) /\ Len(shown) = n /\ (Reviewing => shown[1] = screen.apdu.ins)
  <2>1. CASE Reviewing
    <3>1. screen.apdu.ins \in S /\ shown = <<screen.apdu.ins>> /\ n = 1
      BY <2>1
    <3> HIDE DEF S, shown, n
    <3> QED
      BY <3>1
  <2>2. CASE ~Reviewing
    <3>1. shown = <<>> /\ n = 0
      BY <2>2
    <3> HIDE DEF S, shown, n
    <3> QED
      BY <2>2, <3>1, EmptySeq
  <2> QED
    BY <2>1, <2>2
<1>4. Due = shown \o waiting
  BY DEF Due
<1>5. n \in Nat /\ (Reviewing => n = 1)
  OBVIOUS
<1> HIDE DEF S, shown, waiting, l, n
<1>6. /\ Len(shown \o waiting) = n + l
      /\ \A i \in 1..n : (shown \o waiting)[i] = shown[i]
      /\ \A i \in 1..l : (shown \o waiting)[n + i] = waiting[i]
  <2>1. /\ Len(shown \o waiting) = Len(shown) + Len(waiting)
        /\ \A i \in 1..Len(shown) : (shown \o waiting)[i] = shown[i]
        /\ \A i \in 1..Len(waiting) : (shown \o waiting)[Len(shown) + i] = waiting[i]
    <3>1. shown \in Seq(S) /\ waiting \in Seq(S)
      BY <1>2, <1>3
    <3> QED
      BY ONLY <3>1, ConcatIs
  <2> QED
    BY ONLY <1>2, <1>3, <2>1
<1>7. Len(Due) = n + l
  BY <1>4, <1>6
<1>8. ASSUME NEW i \in 1..l PROVE \E k \in 1..Len(Due) : Due[k] = inbox[i].ins
  <2>1. n + i \in 1..Len(Due)
    BY <1>1, <1>5, <1>7
  <2>2. Due[n + i] = inbox[i].ins
    BY <1>2, <1>4, <1>6
  <2> QED
    BY <2>1, <2>2
<1>9. ASSUME Reviewing PROVE \E k \in 1..Len(Due) : Due[k] = screen.apdu.ins
  <2>1. 1 \in 1..n /\ 1 \in 1..Len(Due)
    BY <1>1, <1>5, <1>7, <1>9
  <2>2. Due[1] = screen.apdu.ins
    BY <1>3, <1>4, <1>6, <1>9, <2>1
  <2> QED
    BY <2>1, <2>2
<1>10. Len(Due) = l + n
  BY <1>1, <1>5, <1>7
<1> QED
  BY <1>1, <1>8, <1>9, <1>10 DEF l, n

(* The line when a process starts.                                         *)
LEMMA StartLine ==
  ASSUME HostType, Start
  PROVE  InLine'
<1> SUFFICES ASSUME Judged'
             PROVE  /\ Len(outbox') + Len(inbox') <= (IF Reviewing' THEN 1 ELSE 2)
                    /\ InboxInLine' /\ ScreenInLine' /\ OutboxInLine'
  BY DEF InLine
<1>1. /\ run'.late = Due /\ run'.next = 1
      /\ Len(inbox) \in Nat /\ Len(inbox') = Len(inbox) + 1
      /\ inbox'[Len(inbox) + 1] = This'
      /\ outbox' = <<>> /\ (Reviewing' <=> Reviewing)
  BY StartRun
<1>2. Len(Due) <= 1
  BY <1>1 DEF Judged
<1>3. Len(inbox) + (IF Reviewing THEN 1 ELSE 0) <= 1 /\ Len(outbox') = 0
  BY <1>1, <1>2, DueIs, EmptySeq
<1>4. \A apdu : Ahead(apdu)'
  BY <1>1 DEF Ahead
<1>5. Len(outbox') + Len(inbox') <= (IF Reviewing' THEN 1 ELSE 2)
  BY <1>1, <1>3
<1> QED
  BY <1>1, <1>3, <1>4, <1>5 DEF InboxInLine, ScreenInLine, OutboxInLine

-----------------------------------------------------------------------------
(* What the device holds of the upload: one lemma per step.                *)

(* What the device serves, by its place in the command.                    *)
LEMMA ServedApdu ==
  ASSUME HostType, InLine, ServesIt, Judged, NEW t, t = Taken + 1
  PROVE  /\ t \in Int /\ Taken' = t
         /\ Len(inbox) \in {1, 2} /\ Len(inbox') = Len(inbox) - 1
         /\ Len(inbox) = 1 => Head(inbox) = This
         /\ Len(inbox) = 2 => Ahead(Head(inbox)) /\ Len(outbox) = 0
         /\ Len(outbox) = 1 => Ahead(outbox[1].apdu)
         /\ Len(outbox) \in {0, 1}
         /\ t >= 1 => t \in 1..Chunks(run.cmd)
                      /\ Head(inbox) = Requests(run.cmd)[t + Before(run.cmd)]
         /\ run.cmd.ins = "sign" /\ t = 0 => Head(inbox) = Requests(run.cmd)[1]
<1> DEFINE l == Len(inbox)
           o == Len(outbox)
           head == Head(inbox)
           next == run.next
           b == Before(run.cmd)
           m == Len(Requests(run.cmd))
           r(k) == Requests(run.cmd)[k]
<1>1. /\ UNCHANGED <<run, missed>> /\ inbox # <<>> /\ inbox' = Tail(inbox) /\ ~Reviewing
      /\ inbox \in Seq(Asks)
  BY DEF ServesIt, HostType
<1>2. next \in Nat /\ next >= 1 /\ next <= m /\ m \in Nat /\ o \in Nat
  BY JudgedRun
<1>3. l \in Nat /\ l > 0 /\ head = inbox[1] /\ Len(inbox') = l - 1
  BY <1>1, TailIs
<1>4. /\ o + l <= 2 /\ inbox[l] = This
      /\ l = 2 => Ahead(inbox[1])
      /\ o = 1 => Ahead(outbox[1].apdu)
  BY <1>1, <1>3 DEF InLine, InboxInLine, OutboxInLine
<1>5. b \in {0, 1} /\ (run.cmd.ins = "sign" => b = 1)
  BY DEF Before
<1>6. Taken = next - b - l /\ Taken' = next - b - (l - 1) /\ Chunks(run.cmd) = m - b
  BY <1>1, <1>3 DEF Taken, Chunks
<1>7. /\ This = r(next)
      /\ \A apdu : Ahead(apdu) /\ next > 1 => apdu = r(next - 1)
  BY DEF This, Ahead
<1> HIDE DEF l, o, head, next, b, m, r
<1>8. l \in {1, 2} /\ (l = 2 => o = 0) /\ o \in {0, 1}
  BY <1>2, <1>3, <1>4
<1>9. (l = 1 => head = This) /\ (l = 2 => Ahead(head))
  BY <1>3, <1>4
<1>10. t = next - b - l + 1 /\ t \in Int /\ Taken' = t
  BY <1>2, <1>3, <1>5, <1>6
<1>11. ASSUME t + b >= 1
       PROVE  head = r(t + b)
  <2>1. CASE l = 1
    <3>1. t + b = next
      BY <1>2, <1>5, <1>10, <2>1
    <3> QED
      BY <1>7, <1>9, <2>1, <3>1
  <2>2. CASE l = 2
    <3>1. t + b = next - 1 /\ next > 1
      BY <1>2, <1>5, <1>10, <1>11, <2>2
    <3> QED
      BY <1>7, <1>9, <2>2, <3>1
  <2> QED
    BY <1>8, <2>1, <2>2
<1>12. ASSUME t >= 1
       PROVE  t \in 1..Chunks(run.cmd) /\ head = r(t + b)
  <2>1. t + b >= 1
    BY <1>5, <1>10, <1>12
  <2>2. t \in 1..(m - b)
    BY <1>2, <1>5, <1>8, <1>10, <1>12
  <2> QED
    BY <1>6, <1>11, <2>1, <2>2
<1>13. run.cmd.ins = "sign" /\ t = 0 => head = r(1)
  <2>1. run.cmd.ins = "sign" /\ t = 0 => t + b = 1
    BY <1>5
  <2> QED
    BY <1>11, <2>1
<1>14. Len(inbox') = l - 1
  BY <1>3
<1> QED
  BY <1>4, <1>8, <1>9, <1>10, <1>12, <1>13, <1>14 DEF l, o, head, r, b

(* An upload goes on only by the chunk that is served.                     *)
LEMMA ServesTakes ==
  ASSUME ServesIt, NEW ins \in Uploading
  PROVE  /\ Context(ins)'.in_progress => Head(inbox).ins = ins /\ Took(ins, Head(inbox))
         /\ Reviewing' => /\ screen'.apdu = Head(inbox)
                          /\ Head(inbox).ins = ins => Took(ins, Head(inbox))
<1>1. CASE ~Reviewing'
  <2>1. PICK x \in Exchange : x.apdu = Head(inbox) /\ AnswersWell(x)
    BY <1>1 DEF ServesIt
  <2>2. IF x.apdu.ins = ins THEN AnswersChunk(ins, x) ELSE ~Context(ins)'.in_progress
    BY <2>1 DEF AnswersWell
  <2> QED
    BY <1>1, <2>1, <2>2 DEF AnswersChunk
<1>2. CASE Reviewing'
  <2>1. screen'.apdu = Head(inbox) /\ ShowsWell(Head(inbox))
    BY <1>2 DEF ServesIt
  <2>2. IF Head(inbox).ins = ins THEN Took(ins, Head(inbox)) ELSE ~Context(ins)'.in_progress
    BY <2>1 DEF ShowsWell
  <2> QED
    BY <1>2, <2>1, <2>2
<1> QED
  BY <1>1, <1>2

(* One chunk more is held.                                                 *)
LEMMA OneMoreChunk ==
  ASSUME HostType, InLine, Held, Judged, ServesIt, Took(run.cmd.ins, Head(inbox)),
         NEW t, t = Taken + 1, t >= 1
  PROVE  Context(run.cmd.ins)'.payload = Sent(run.cmd, t)
<1> DEFINE ins == run.cmd.ins
           ctx == Context(ins)
           head == Head(inbox)
           cmd == run.cmd
<1>1. t \in 1..Chunks(cmd) /\ head = Requests(cmd)[t + Before(cmd)]
  BY ServedApdu
<1>2. IsUploadOf(cmd)
  BY JudgedRun, UploadIs
<1>3. /\ "extend" \in head.p2 <=> t > 1
      /\ t = 1 => head.data = Sent(cmd, 1)
      /\ t > 1 => Sent(cmd, t - 1) \o head.data = Sent(cmd, t)
      /\ head.data \in Seq(Units)
  BY <1>1, <1>2 DEF IsUploadOf
<1>4. /\ ctx.in_progress <=> "extend" \in head.p2
      /\ Context(ins)'.payload = Received(ctx) \o head.data
  BY DEF Took
<1>5. HeldSoFar
  BY DEF Held, Awaits, ServesIt
<1>6. Taken \in Int /\ t - 1 = Taken
  BY JudgedRun DEF Taken, Before
<1>7. ctx.in_progress /\ Taken >= 1 => ctx.payload = Sent(cmd, Taken)
  BY <1>5 DEF HeldSoFar, Holding
<1> HIDE DEF ins, ctx, head, cmd
<1>8. CASE t = 1
  <2>1. Received(ctx) = <<>>
    BY <1>3, <1>4, <1>8 DEF Received
  <2>2. <<>> \o head.data = head.data
    BY <1>3, ConcatEmptySeq
  <2> QED
    BY <1>3, <1>4, <1>8, <2>1, <2>2 DEF ins, cmd
<1>9. CASE t > 1
  <2>1. ctx.in_progress /\ Taken >= 1
    BY <1>3, <1>4, <1>6, <1>9
  <2>2. Received(ctx) = Sent(cmd, t - 1)
    BY <1>6, <1>7, <2>1 DEF Received
  <2> QED
    BY <1>3, <1>4, <1>9, <2>2 DEF ins, cmd
<1> QED
  BY <1>1, <1>8, <1>9

(* What is held when the device has served an APDU.                        *)
LEMMA ServesHeld ==
  ASSUME HostType, InLine, Held, ServesIt
  PROVE  Held'
<1> SUFFICES ASSUME Judged'
             PROVE  HeldSoFar' /\ HeldForSign' /\ \A i \in 1..Len(outbox') : GoesOn(outbox[i])'
  BY DEF Held
<1> DEFINE t == Taken + 1
           head == Head(inbox)
           ctx == Context(run.cmd.ins)
           after == Context(run.cmd.ins)'
<1>1. UNCHANGED <<run, missed>>
  BY DEF ServesIt
<1>2. /\ Judged /\ This' = This
      /\ Holding = ctx /\ Holding' = after
  BY <1>1, SameRun DEF Holding, Context
<1>3. /\ run.cmd \in Commands /\ run.cmd.ins \in Uploading /\ Running
      /\ run.next \in Nat /\ run.next >= 1
  BY <1>2, JudgedRun
<1>4. after.in_progress => head.ins = run.cmd.ins /\ Took(run.cmd.ins, head)
  <2>1. PICK ins \in Uploading : ins = run.cmd.ins
    BY <1>3
  <2>2. after = Context(ins)' /\ (Took(run.cmd.ins, head) <=> Took(ins, head))
    BY <1>1, <2>1 DEF Took, Context
  <2>3. Context(ins)'.in_progress => head.ins = ins /\ Took(ins, head)
    BY ServesTakes
  <2> HIDE DEF after, head
  <2> QED
    BY <2>1, <2>2, <2>3
<1>5. /\ t \in Int /\ Taken' = t
      /\ Len(inbox) \in {1, 2} /\ Len(inbox') = Len(inbox) - 1
      /\ Len(inbox) = 1 => head = This
      /\ Len(inbox) = 2 => Ahead(head) /\ Len(outbox) = 0
      /\ Len(outbox) = 1 => Ahead(outbox[1].apdu)
      /\ Len(outbox) \in {0, 1}
      /\ run.cmd.ins = "sign" /\ t = 0 => head = Requests(run.cmd)[1]
  BY <1>2, ServedApdu
<1>6. t >= 1 /\ Took(run.cmd.ins, head) => after.payload = Sent(run.cmd, t)
  BY <1>2, OneMoreChunk
<1> HIDE DEF t, head, ctx, after
<1>7. HeldSoFar'
  BY <1>1, <1>2, <1>4, <1>5, <1>6 DEF HeldSoFar
<1>8. ASSUME run.cmd.ins = "sign"
      PROVE  /\ run.next = 1 /\ Len(outbox') > 0 /\ outbox'[1].apdu.ins \in Pubkeys =>
                  ~after.in_progress
             /\ run.next = 2 /\ Len(inbox') > 0 => ~after.in_progress
             /\ run.next > 2 /\ Len(inbox') > 0 => after.in_progress
  <2>1. Requests(run.cmd)[1].ins = "pubkey"
    BY <1>3, <1>8, UploadIs DEF IsUploadOf
  <2>2. head.ins \in Pubkeys => ~after.in_progress
    BY <1>4, <1>8 DEF Pubkeys
  <2>3. Len(inbox') > 0 => Ahead(head)
    BY <1>5
  <2>4. Ahead(head) => ~(run.next > 2)
    BY <1>3, <1>8 DEF Ahead
  <2>5. Ahead(head) /\ run.next = 2 => head.ins = "pubkey"
    BY <2>1 DEF Ahead
  <2>6. ASSUME run.next = 1, Len(outbox') > 0, outbox'[1].apdu.ins \in Pubkeys
        PROVE  head.ins \in Pubkeys
    <3>1. CASE Len(outbox) = 1
      <4>1. head = This
        BY <1>5, <3>1
      <4> QED
        BY <2>1, <2>6, <4>1 DEF This, Pubkeys
    <3>2. CASE Len(outbox) = 0
      <4>1. PICK y \in Exchange : y.apdu = head /\ Reaches(y)
        <5>1. outbox' # outbox
          BY <2>6, <3>2
        <5> QED
          BY <5>1 DEF ServesIt, head
      <4>2. outbox'[1] = y
        <5>1. outbox'[Len(outbox) + 1] = y
          BY <1>3, <4>1, OneMoreAnswer
        <5> QED
          BY <3>2, <5>1
      <4> QED
        BY <2>6, <4>1, <4>2
    <3> QED
      BY <1>5, <3>1, <3>2
  <2> QED
    BY <2>2, <2>3, <2>4, <2>5, <2>6 DEF Pubkeys
<1>9. HeldForSign'
  BY <1>1, <1>2, <1>5, <1>8 DEF HeldForSign
<1>10. ASSUME NEW x, run.cmd.ins = "sign", run.next > 1, x.apdu = This, x = outbox[1],
              Len(outbox) = 1
       PROVE  FALSE
  BY <1>2, <1>5, <1>10, AheadIsNotThis
<1>11. ASSUME NEW i \in 1..Len(outbox') PROVE GoesOn(outbox[i])'
  <2> DEFINE x == outbox'[i]
  <2> SUFFICES ASSUME run.cmd.ins = "sign", run.next > 1,
                      x.apdu = This, x.sw = "Ok", x.out = <<>>
               PROVE  after.in_progress
    BY <1>1, <1>2 DEF GoesOn
  <2>1. CASE outbox' = outbox
    <3>1. Len(outbox) = 1 /\ i = 1
      BY <1>5, <2>1
    <3> QED
      BY <1>10, <2>1, <3>1
  <2>2. CASE \E y \in Exchange : y.apdu = head /\ AnswersWell(y) /\ Reaches(y)
    <3>1. PICK y \in Exchange : y.apdu = head /\ AnswersWell(y) /\ Reaches(y)
      BY <2>2
    <3>2. /\ Len(outbox) \in Nat
          /\ Len(outbox') = Len(outbox) + 1 /\ outbox'[Len(outbox) + 1] = y
          /\ \A j \in 1..Len(outbox) : outbox'[j] = outbox[j]
      BY <1>3, <3>1, OneMoreAnswer
    <3>3. CASE i \in 1..Len(outbox)
      <4>1. Len(outbox) = 1 /\ i = 1
        BY <1>5, <3>3
      <4>2. x = outbox[1]
        BY <3>2, <4>1
      <4> QED
        BY <1>10, <4>1, <4>2
    <3>4. CASE i = Len(outbox) + 1
      <4>1. x = y
        BY <3>2, <3>4
      <4>2. run.next \in 2..Len(Requests(run.cmd))
        BY <1>2, JudgedRun
      <4>3. This.ins = "sign"
        BY <1>3, <4>2, Neighbours DEF This
      <4>4. AnswersChunk("sign", y)
        BY <3>1, <4>1, <4>3 DEF AnswersWell, Uploading
      <4>5. Context("sign")'.in_progress
        BY <4>1, <4>4 DEF AnswersChunk
      <4>6. after = Context("sign")'
        BY <1>1 DEF after, Context
      <4> QED
        BY <4>5, <4>6
    <3> QED
      BY <3>2, <3>3, <3>4
  <2> QED
    BY <2>1, <2>2 DEF ServesIt, head
<1> QED
  BY <1>7, <1>9, <1>11

(* While a review is on the screen nothing is held that goes on, and       *)
(* sign-message is not waiting beyond its second APDU with one to serve.   *)
LEMMA NothingGoesOn ==
  ASSUME HostType, InLine, Judged, Reviewing
  PROVE  /\ ~(run.cmd.ins = "sign" /\ run.next > 2 /\ Len(inbox) > 0)
         /\ \A i \in 1..Len(outbox) :
              ~(run.cmd.ins = "sign" /\ run.next > 1 /\ outbox[i].apdu = This)
<1>1. Len(inbox) \in Nat /\ Len(outbox) \in Nat /\ run.next \in Nat
  BY JudgedRun
<1>2. /\ Len(outbox) + Len(inbox) <= 1
      /\ Len(inbox) = 1 => Ahead(screen.apdu)
      /\ Len(outbox) = 1 => Ahead(outbox[1].apdu)
  BY DEF InLine, ScreenInLine, OutboxInLine
<1> DEFINE l == Len(inbox)
           o == Len(outbox)
<1> HIDE DEF l, o
<1>5. l \in Nat /\ o \in Nat /\ o + l <= 1
  BY <1>1, <1>2 DEF l, o
<1>3. ASSUME run.cmd.ins = "sign", run.next > 2, Len(inbox) > 0
      PROVE  FALSE
  <2>3. l > 0
    BY <1>3 DEF l
  <2>4. l = 1
    BY ONLY <1>5, <2>3
  <2>1. Len(inbox) = 1
    BY <2>4 DEF l
  <2>2. Ahead(screen.apdu)
    BY <1>2, <2>1
  <2> QED
    BY <1>1, <1>3, <2>2 DEF Ahead
<1>4. ASSUME NEW i \in 1..Len(outbox), run.cmd.ins = "sign", run.next > 1,
             outbox[i].apdu = This
      PROVE  FALSE
  <2>3. i \in 1..o
    BY <1>4 DEF o
  <2>4. o = 1 /\ i = 1
    BY ONLY <1>5, <2>3
  <2>1. Len(outbox) = 1 /\ i = 1
    BY <2>4 DEF o
  <2>2. Ahead(This)
    BY <1>2, <1>4, <2>1
  <2> QED
    BY <1>4, <2>2, AheadIsNotThis
<1> QED
  BY <1>3, <1>4

(* What is held when the user has decided: nothing.                        *)
LEMMA DecidesHeld ==
  ASSUME HostType, InLine, DecidesIt
  PROVE  Held'
<1> SUFFICES ASSUME Judged'
             PROVE  HeldSoFar' /\ HeldForSign' /\ \A i \in 1..Len(outbox') : GoesOn(outbox[i])'
  BY DEF Held
<1>1. UNCHANGED <<run, inbox, missed>> /\ Reviewing
  BY DEF DecidesIt
<1>2. Judged /\ This' = This
  BY <1>1, SameRun
<1>3. Running /\ run.cmd.ins \in Uploading
  BY <1>2, JudgedRun
<1>4. ~Holding'.in_progress
  <2>1. PICK ins \in Uploading : ins = run.cmd.ins
    BY <1>3
  <2>2. ~Context(ins)'.in_progress
    BY DEF DecidesIt
  <2> QED
    BY <1>1, <2>1, <2>2 DEF Holding, Context
<1>5. HeldSoFar'
  BY <1>4 DEF HeldSoFar
<1>6. HeldForSign'
  <2>1. ~(run.cmd.ins = "sign" /\ run.next > 2 /\ Len(inbox) > 0)
    BY <1>1, <1>2, NothingGoesOn
  <2> QED
    BY <1>1, <1>4, <2>1 DEF HeldForSign
<1>7. ASSUME NEW i \in 1..Len(outbox') PROVE GoesOn(outbox[i])'
  <2>1. PICK x \in Exchange : Decides(x)
    BY DEF DecidesIt
  <2>2. /\ Len(outbox) \in Nat
        /\ Len(outbox') = Len(outbox) + 1 /\ outbox'[Len(outbox) + 1] = x
        /\ \A j \in 1..Len(outbox) : outbox'[j] = outbox[j]
    BY <1>3, <2>1, OneMoreAnswer DEF Decides
  <2>3. CASE i \in 1..Len(outbox)
    <3>1. outbox'[i] = outbox[i]
      BY <2>2, <2>3
    <3>2. ~(run.cmd.ins = "sign" /\ run.next > 1 /\ outbox[i].apdu = This)
      BY <1>1, <1>2, <2>3, NothingGoesOn
    <3> QED
      BY <1>1, <1>2, <3>1, <3>2 DEF GoesOn
  <2>4. CASE i = Len(outbox) + 1
    <3>1. outbox'[i] = x
      BY <2>2, <2>4
    <3>2. x.sw = "Ok" => x.out # <<>>
      BY <2>1 DEF Decides
    <3> QED
      BY <3>1, <3>2 DEF GoesOn
  <2> QED
    BY <2>2, <2>3, <2>4
<1> QED
  BY <1>5, <1>6, <1>7

(* What is held when an APDU was dropped in a review.                      *)
LEMMA LoseInReviewHeld ==
  ASSUME HInv, HostType, InLine, Held, Lose, Reviewing
  PROVE  Held'
<1> SUFFICES ASSUME Judged'
             PROVE  HeldSoFar' /\ HeldForSign' /\ \A i \in 1..Len(outbox') : GoesOn(outbox[i])'
  BY DEF Held
<1>1. /\ UNCHANGED <<run, outbox, vars>>
      /\ inbox # <<>> /\ inbox' = Tail(inbox) /\ inbox \in Seq(Asks)
  BY LoseRun
<1>2. Judged /\ This' = This
  BY LoseRun, SameRun
<1>3. run.cmd.ins \in Uploading
  BY <1>2, JudgedRun
<1>4. ~Holding.in_progress
  BY <1>3, NoReviewing DEF HInv, NoRunInReview, Holding
<1>5. Holding' = Holding
  BY <1>1 DEF Holding, Context, vars
<1>6. HeldSoFar'
  BY <1>4, <1>5 DEF HeldSoFar
<1>7. HeldForSign'
  <2>1. ~(run.cmd.ins = "sign" /\ run.next > 2 /\ Len(inbox) > 0)
    BY <1>2, NothingGoesOn
  <2>2. Len(inbox) > 0
    BY <1>1, TailIs
  <2> QED
    BY <1>1, <1>4, <1>5, <2>1, <2>2 DEF HeldForSign
<1>8. \A i \in 1..Len(outbox') : GoesOn(outbox[i])'
  BY <1>1, <1>2, NothingGoesOn DEF GoesOn
<1> QED
  BY <1>6, <1>7, <1>8

(* What is held when an APDU was dropped in the settings and something is  *)
(* still on its way: sign-message is not beyond its first chunk then.      *)
LEMMA LoseInSettingsHeld ==
  ASSUME HostType, InLine, Held, Lose, ~Reviewing
  PROVE  Held'
<1> SUFFICES ASSUME Judged', Awaits'
             PROVE  HeldSoFar' /\ HeldForSign' /\ \A i \in 1..Len(outbox') : GoesOn(outbox[i])'
  BY DEF Held
<1> DEFINE o == Len(outbox)
           l == Len(inbox)
<1>1. /\ UNCHANGED <<run, outbox, vars>> /\ ~Reviewing'
      /\ inbox # <<>> /\ inbox' = Tail(inbox) /\ inbox \in Seq(Asks)
  BY LoseRun
<1>2. Judged /\ This' = This
  BY LoseRun, SameRun
<1>3. run.cmd.ins = "sign" /\ Running /\ run.next \in Nat /\ run.next >= 1
  <2>1. Running /\ run.next \in Nat /\ run.next >= 1
    BY <1>2, JudgedRun
  <2>2. missed'
    BY <2>1, LoseRun
  <2> QED
    BY <1>1, <2>1, <2>2 DEF Judged
<1>4. Holding' = Holding
  BY <1>1 DEF Holding, Context, vars
<1>5. HeldForSign
  BY <1>1, <1>2 DEF Held, Awaits
<1>6. l \in Nat /\ l > 0 /\ Len(inbox') = l - 1 /\ o \in Nat /\ outbox \in Seq(Exchange)
  BY <1>1, <1>2, TailIs, JudgedRun DEF HostType
<1>7. /\ o + l <= 2
      /\ l = 2 => Ahead(inbox[1])
      /\ o = 1 => Ahead(outbox[1].apdu)
  BY <1>2, <1>6 DEF InLine, InboxInLine, OutboxInLine
<1>8. o > 0 \/ l - 1 > 0
  <2>1. inbox' \in Seq(Asks)
    BY <1>1, TailIs
  <2>2. outbox # <<>> => o > 0
    BY <1>6, TailIs
  <2>3. inbox' # <<>> => Len(inbox') > 0
    BY <2>1, TailIs
  <2> QED
    BY <1>1, <1>6, <2>2, <2>3 DEF Awaits
<1> HIDE DEF o, l
<1>9. (l = 2 /\ o = 0) \/ (l = 1 /\ o = 1)
  BY <1>6, <1>7, <1>8
<1>10. run.next \in {1, 2}
  BY <1>3, <1>7, <1>9 DEF Ahead
<1>11. HeldSoFar'
  <2>1. Taken' = run.next - 1 - (l - 1)
    BY <1>1, <1>3, <1>6 DEF Taken, Before
  <2>2. Taken' >= 1 => run.next = 2
    BY <1>9, <1>10, <2>1
  <2>3. run.next = 2 => ~Holding.in_progress
    BY <1>3, <1>5, <1>6 DEF HeldForSign, l
  <2> QED
    BY <1>4, <2>2, <2>3 DEF HeldSoFar
<1>12. HeldForSign'
  <2>1. run.next = 2 => ~Holding.in_progress
    BY <1>3, <1>5, <1>6 DEF HeldForSign, l
  <2>2. /\ run.next = 1 /\ Len(outbox) > 0 /\ outbox[1].apdu.ins \in Pubkeys =>
             ~Holding.in_progress
        /\ ~(run.next > 2)
    BY <1>3, <1>5, <1>10 DEF HeldForSign
  <2> QED
    BY <1>1, <1>4, <2>1, <2>2 DEF HeldForSign
<1>13. ASSUME NEW i \in 1..Len(outbox') PROVE GoesOn(outbox[i])'
  <2> SUFFICES ASSUME run.next > 1, outbox[i].apdu = This PROVE FALSE
    BY <1>1, <1>2 DEF GoesOn
  <2>1. o = 1 /\ i = 1
    BY <1>1, <1>9, <1>13 DEF o
  <2>2. Ahead(This)
    BY <1>7, <2>1
  <2> QED
    BY <1>2, <1>3, <2>2, AheadIsNotThis
<1> QED
  BY <1>11, <1>12, <1>13

(* What is held when the process goes on: what it was, and for a chunk of  *)
(* sign-message the chunks before it, for the device said so.              *)
LEMMA ProceedHeld ==
  ASSUME HostType, InLine, Answered, Held, Proceed
  PROVE  Held'
<1> SUFFICES ASSUME Judged'
             PROVE  HeldSoFar' /\ HeldForSign' /\ \A i \in 1..Len(outbox') : GoesOn(outbox[i])'
  BY DEF Held
<1>1. /\ Judged /\ run'.cmd = run.cmd /\ run'.next = run.next + 1
      /\ run.next \in Nat /\ run.next >= 1 /\ run.cmd \in Commands
      /\ This' = Requests(run.cmd)[run.next + 1]
  BY ProceedRun
<1>2. /\ Len(outbox) \in {1, 2} /\ Len(inbox) \in {0, 1}
      /\ Len(outbox') = Len(outbox) - 1 /\ Len(inbox') = Len(inbox) + 1
      /\ Len(outbox) = 2 => outbox'[1] = outbox[2] /\ outbox[2].apdu = This
  BY <1>1, ProceedsTo
<1>3. Taken' = Taken /\ Holding' = Holding /\ Before(run.cmd) \in {0, 1}
  <2>1. UNCHANGED vars
    BY DEF Proceed
  <2>2. Holding' = Holding
    BY <1>1, <2>1 DEF Holding, Context, vars
  <2>3. Before(run.cmd) \in {0, 1} /\ Before(run.cmd)' = Before(run.cmd)
    BY <1>1 DEF Before
  <2>4. Taken' = run'.next - Before(run.cmd) - Len(inbox')
    BY <1>1, <2>3 DEF Taken, Before
  <2>5. Taken = run.next - Before(run.cmd) - Len(inbox)
    BY DEF Taken
  <2> DEFINE b == Before(run.cmd)
             l == Len(inbox)
             next == run.next
  <2>6. b \in {0, 1} /\ l \in {0, 1} /\ next \in Nat
        /\ Taken' = (next + 1) - b - (l + 1) /\ Taken = next - b - l
    BY <1>1, <1>2, <2>3, <2>4, <2>5
  <2> HIDE DEF b, l, next
  <2>7. Taken' = Taken
    BY <2>6
  <2> QED
    BY <2>2, <2>3, <2>7
<1>4. HeldSoFar /\ HeldForSign /\ \A i \in 1..Len(outbox) : GoesOn(outbox[i])
  BY <1>1 DEF Held, Awaits, Proceed
<1>5. HeldSoFar'
  <2>1. Sent(run.cmd, Taken)' = Sent(run.cmd, Taken)
    <3>1. Payload(run.cmd)' = Payload(run.cmd) /\ Chunks(run.cmd)' = Chunks(run.cmd)
      BY <1>1 DEF Payload, Chunks, Before
    <3> QED
      BY <1>3, <3>1 DEF Sent
  <2> QED
    BY <1>3, <1>4, <2>1 DEF HeldSoFar
<1>6. ASSUME run.cmd.ins = "sign", run.next > 1
      PROVE  Holding.in_progress /\ Len(outbox') = 0
  <2>1. /\ Len(outbox) = 1 /\ outbox[1].apdu = This
        /\ outbox[1].sw = "Ok" /\ outbox[1].out = <<>>
    BY <1>1, <1>6, SignProceeds
  <2>2. 1 \in 1..Len(outbox)
    BY <2>1
  <2>3. GoesOn(outbox[1])
    BY <1>4, <2>2
  <2> QED
    BY <1>2, <1>6, <2>1, <2>3 DEF GoesOn
<1>7. HeldForSign'
  <2>1. run'.next # 1 /\ (run'.next > 2 => run.next > 1) /\ (run'.next = 2 => run.next = 1)
    BY <1>1
  <2>2. ASSUME run.cmd.ins = "sign", run.next = 1 PROVE ~Holding.in_progress
    BY <1>1, <1>4, <2>2, SignStarts DEF HeldForSign
  <2> QED
    BY <1>1, <1>3, <1>6, <2>1, <2>2 DEF HeldForSign
<1>8. ASSUME NEW i \in 1..Len(outbox') PROVE GoesOn(outbox[i])'
  <2> DEFINE o == Len(outbox)
  <2>5. o \in {1, 2} /\ i \in 1..(o - 1)
    BY <1>2, <1>8
  <2> HIDE DEF o
  <2>6. i = 1 /\ o = 2
    BY ONLY <2>5
  <2>1. i = 1 /\ Len(outbox) = 2
    BY <2>6 DEF o
  <2>2. outbox'[i].apdu = This
    BY <1>2, <2>1
  <2>3. run.cmd.ins = "sign" => run.next = 1
    <3>1. Len(outbox') # 0
      BY <1>2, <2>1
    <3> QED
      BY <1>1, <1>6, <3>1
  <2>4. run.cmd.ins = "sign" => This' # This
    <3> SUFFICES ASSUME run.cmd.ins = "sign" PROVE This' # This
      OBVIOUS
    <3>1. This = Requests(run.cmd)[1] /\ This' = Requests(run.cmd)[2]
      BY <1>1, <2>3 DEF This
    <3>2. run.cmd.ins \in Uploading /\ Len(Requests(run.cmd)) > 1
      BY <1>1, JudgedRun
    <3> QED
      BY <1>1, <3>1, <3>2, Neighbours
  <2> QED
    BY <1>1, <2>2, <2>4 DEF GoesOn
<1> QED
  BY <1>5, <1>7, <1>8

(* What is held when a process starts is not of its upload.                *)
LEMMA StartHeld ==
  ASSUME HostType, Start
  PROVE  Held'
<1> SUFFICES ASSUME Judged'
             PROVE  HeldSoFar' /\ HeldForSign' /\ \A i \in 1..Len(outbox') : GoesOn(outbox[i])'
  BY DEF Held
<1>1. /\ run'.next = 1 /\ outbox' = <<>>
      /\ Len(inbox) \in Nat /\ Len(inbox') = Len(inbox) + 1
  BY StartRun
<1>2. Before(run'.cmd) \in {0, 1}
  BY DEF Before
<1>3. Taken' = 1 - Before(run'.cmd) - (Len(inbox) + 1)
  BY <1>1 DEF Taken, Before
<1>4. ~(Taken' >= 1)
  <2> DEFINE b == Before(run'.cmd)
             l == Len(inbox)
  <2>1. b \in {0, 1} /\ l \in Nat /\ Taken' = 1 - b - (l + 1)
    BY <1>1, <1>2, <1>3
  <2> HIDE DEF b, l
  <2> QED
    BY <2>1
<1>5. Len(outbox') = 0
  BY <1>1, EmptySeq
<1> QED
  BY <1>1, <1>4, <1>5 DEF HeldSoFar, HeldForSign, GoesOn

-----------------------------------------------------------------------------
(* A review of the last chunk: one lemma per step.                         *)

(* It is shown when the device has taken all chunks, and only then.        *)
LEMMA ServesShown ==
  ASSUME HostType, InLine, Held, ServesIt
  PROVE  Shown'
<1> SUFFICES ASSUME Judged', LastOne', Reviewing', screen'.apdu = This'
             PROVE  Holding'.payload = Payload(run.cmd)
  <2>1. run' = run
    BY DEF ServesIt
  <2>2. Payload(run.cmd)' = Payload(run.cmd)
    BY <2>1 DEF Payload
  <2> QED
    BY <2>2 DEF Shown
<1>1. UNCHANGED <<run, missed>>
  BY DEF ServesIt
<1>2. Judged /\ LastOne /\ This' = This
  BY <1>1, SameRun
<1>3. /\ run.cmd \in Commands /\ run.cmd.ins \in Uploading
      /\ run.next \in Nat /\ run.next > 1 /\ run.next = Len(Requests(run.cmd))
      /\ Len(Requests(run.cmd)) \in Nat
  BY <1>2, JudgedRun DEF LastOne
<1> DEFINE t == Taken + 1
<1>4. /\ t \in Int /\ Taken' = t
      /\ Len(inbox) \in {1, 2} /\ Len(inbox') = Len(inbox) - 1
      /\ Len(inbox) = 1 => Head(inbox) = This
      /\ Len(inbox) = 2 => Ahead(Head(inbox))
  BY <1>2, ServedApdu
<1>5. PICK ins \in Uploading : ins = run.cmd.ins
  BY <1>3
<1>6. screen'.apdu = Head(inbox) /\ (Head(inbox).ins = ins => Took(ins, Head(inbox)))
  BY ServesTakes
<1>7. Head(inbox) = This
  BY <1>2, <1>6
<1>8. Len(inbox) = 1
  <2>1. Len(inbox) # 2
    <3> SUFFICES ASSUME Len(inbox) = 2 PROVE FALSE
      OBVIOUS
    <3>1. Ahead(This)
      BY <1>4, <1>7
    <3> QED
      BY <1>2, <1>3, <3>1, AheadIsNotThis
  <2> QED
    BY <1>4, <2>1
<1>9. t = Chunks(run.cmd) /\ t >= 1
  <2>1. Taken = run.next - Before(run.cmd) - 1 /\ Before(run.cmd) \in {0, 1}
    BY <1>8 DEF Taken, Before
  <2>2. Chunks(run.cmd) = Len(Requests(run.cmd)) - Before(run.cmd)
    BY DEF Chunks
  <2> DEFINE b == Before(run.cmd)
             next == run.next
  <2>3. Taken = next - b - 1 /\ b \in {0, 1} /\ Chunks(run.cmd) = next - b
        /\ next \in Nat /\ next > 1
    BY <1>3, <2>1, <2>2
  <2> HIDE DEF b, next
  <2> QED
    BY <2>3
<1>10. Took(run.cmd.ins, Head(inbox))
  <2>1. This.ins = run.cmd.ins
    BY <1>3, Neighbours DEF This
  <2>2. Took(ins, Head(inbox))
    BY <1>5, <1>6, <1>7, <2>1
  <2> QED
    BY <1>1, <1>5, <2>2 DEF Took, Context
<1>11. Context(run.cmd.ins)'.payload = Sent(run.cmd, t)
  <2> HIDE DEF t
  <2>1. t = Taken + 1
    BY DEF t
  <2> QED
    BY <1>2, <1>9, <1>10, <2>1, OneMoreChunk
<1>12. Sent(run.cmd, Chunks(run.cmd)) = Payload(run.cmd)
  BY <1>3, UploadIs DEF IsUploadOf
<1> HIDE DEF t
<1> QED
  BY <1>9, <1>11, <1>12 DEF Holding

(* Nor is a review shown of the APDU that the process goes on to.          *)
LEMMA ProceedShown ==
  ASSUME HostType, InLine, Proceed
  PROVE  Shown'
<1> SUFFICES ASSUME Judged', LastOne', Reviewing', screen'.apdu = This'
             PROVE  FALSE
  BY DEF Shown
<1>1. /\ Judged /\ run'.cmd = run.cmd /\ run'.next = run.next + 1
      /\ run.next \in Nat /\ run.cmd \in Commands
      /\ This' = Requests(run.cmd)[run.next + 1]
  BY ProceedRun
<1>2. UNCHANGED vars /\ screen' = screen /\ Reviewing
  BY DEF Proceed, vars, Reviewing
<1>3. screen.apdu = This
  BY <1>1, <1>2, ProceedsTo
<1>4. run.next + 1 = Len(Requests(run.cmd)) /\ (run.next + 1) - 1 = run.next
  BY <1>1 DEF LastOne
<1>5. run.cmd.ins \in Uploading /\ Len(Requests(run.cmd)) > 1
  BY <1>1, JudgedRun
<1>6. This # This'
  BY <1>1, <1>4, <1>5, Neighbours DEF This
<1> QED
  BY <1>2, <1>3, <1>6

(* No review that is shown is of a process that just starts.               *)
LEMMA StartShown ==
  ASSUME HostType, Start
  PROVE  Shown'
<1> SUFFICES ASSUME Judged', LastOne'
             PROVE  FALSE
  BY DEF Shown
<1>1. PICK cmd \in Commands : run' = [cmd |-> cmd, next |-> 1, late |-> Due]
  BY StartRun
<1>2. run'.cmd = cmd /\ run'.next = 1
  BY <1>1
<1>3. Len(Requests(cmd)) > 1 /\ Len(Requests(cmd)) = 1
  BY <1>2 DEF Judged, LastOne
<1> QED
  BY <1>3

(* A review that stays on the screen is of what it was.                    *)
LEMMA StillShown ==
  ASSUME Shown, UNCHANGED <<run, vars>>, missed => missed'
  PROVE  Shown'
<1> SUFFICES ASSUME Judged', LastOne', Reviewing', screen'.apdu = This'
             PROVE  Holding'.payload = Payload(run.cmd)
  <2>1. Payload(run.cmd)' = Payload(run.cmd)
    BY DEF Payload
  <2> QED
    BY <2>1 DEF Shown
<1>1. UNCHANGED run /\ UNCHANGED <<screen, sign_context, load_idl_context>>
  BY DEF vars
<1>2. Judged /\ LastOne /\ This' = This
  BY <1>1, SameRun
<1>3. Reviewing /\ screen.apdu = This
  BY <1>1, <1>2 DEF Reviewing
<1>4. Holding' = Holding
  BY <1>1 DEF Holding, Context
<1> QED
  BY <1>2, <1>3, <1>4 DEF Shown

-----------------------------------------------------------------------------
(* What the answers say: one lemma per step.                               *)

(* An answer that waited before the step.                                  *)
LEMMA OldAnswer ==
  ASSUME Answered, UNCHANGED run, missed => missed', NEW i \in 1..Len(outbox),
         NEW j \in 1..Len(outbox'), outbox'[j] = outbox[i]
  PROVE  WellAnswered(outbox[j])' /\ OwnAnswered(outbox[j])'
<1>1. WellAnswered(outbox[i]) /\ OwnAnswered(outbox[i])
  BY DEF Answered
<1>2. WellAnswered(outbox[j])'
  BY <1>1 DEF WellAnswered
<1>3. OwnAnswered(outbox[j])'
  <2>1. Result(run.cmd)' = Result(run.cmd)
    BY DEF Result
  <2> QED
    BY <1>1, <2>1, SameRun DEF OwnAnswered
<1> QED
  BY <1>2, <1>3

(* A chunk of sign-message meets the context it goes with.                 *)
LEMMA InSequence ==
  ASSUME HostType, InLine, Held, ServesIt, Judged,
         run.cmd.ins = "sign", run.next > 1, Head(inbox) = This
  PROVE  Context("sign").in_progress <=> "extend" \in This.p2
<1> DEFINE t == Taken + 1
           l == Len(inbox)
           next == run.next
           cmd == run.cmd
<1>1. /\ t \in Int /\ l \in {1, 2} /\ (l = 2 => Ahead(Head(inbox)))
      /\ t >= 1 => t \in 1..Chunks(run.cmd)
                   /\ Head(inbox) = Requests(run.cmd)[t + Before(run.cmd)]
  BY ServedApdu
<1>2. ~Ahead(This)
  BY AheadIsNotThis
<1>3. l = 1 /\ next \in Nat /\ next > 1
  BY <1>1, <1>2, JudgedRun
<1>4. Before(cmd) = 1 /\ Taken = next - Before(cmd) - l
  BY DEF Before, Taken
<1>5. HeldForSign /\ IsUploadOf(cmd)
  BY JudgedRun, UploadIs DEF Held, Awaits, ServesIt
<1>6. /\ next = 2 /\ l > 0 => ~Holding.in_progress
      /\ next > 2 /\ l > 0 => Holding.in_progress
  BY <1>5 DEF HeldForSign
<1>7. Holding = Context("sign")
  BY DEF Holding
<1>8. \A k \in 1..Chunks(cmd) : "extend" \in Requests(cmd)[k + Before(cmd)].p2 <=> k > 1
  BY <1>5 DEF IsUploadOf
<1>9. Taken = next - 2 /\ t = next - 1
  <2> HIDE DEF next, l
  <2>1. Taken = next - 2
    BY <1>3, <1>4
  <2> QED
    BY <1>3, <2>1
<1> HIDE DEF t, l, next
<1>10. t >= 1 /\ (t > 1 <=> next > 2) /\ (next = 2 \/ next > 2)
  BY <1>3, <1>9
<1>11. t \in 1..Chunks(cmd) /\ This = Requests(cmd)[t + Before(cmd)]
  BY <1>1, <1>10
<1>12. "extend" \in This.p2 <=> next > 2
  BY <1>8, <1>10, <1>11
<1>13. Context("sign").in_progress <=> next > 2
  BY <1>3, <1>6, <1>7, <1>10
<1> QED
  BY <1>12, <1>13

(* What the device answers at once.                                        *)
LEMMA ServesAnswered ==
  ASSUME HostType, InLine, Held, Answered, ServesIt
  PROVE  Answered'
<1> SUFFICES ASSUME NEW j \in 1..Len(outbox')
             PROVE  WellAnswered(outbox[j])' /\ OwnAnswered(outbox[j])'
  BY DEF Answered
<1>1. UNCHANGED <<run, missed>> /\ inbox # <<>> /\ inbox \in Seq(Asks)
  BY DEF ServesIt, HostType
<1>2. CASE outbox' = outbox
  BY <1>1, <1>2, OldAnswer
<1>3. ASSUME NEW x \in Exchange, x.apdu = Head(inbox), AnswersWell(x), Reaches(x), Running
      PROVE  WellAnswered(outbox[j])' /\ OwnAnswered(outbox[j])'
  <2>1. /\ Len(outbox) \in Nat
        /\ Len(outbox') = Len(outbox) + 1 /\ outbox'[Len(outbox) + 1] = x
        /\ \A i \in 1..Len(outbox) : outbox'[i] = outbox[i]
    BY <1>3, OneMoreAnswer
  <2>2. CASE j \in 1..Len(outbox)
    BY <1>1, <2>1, <2>2, OldAnswer
  <2>3. CASE j = Len(outbox) + 1
    <3>1. outbox'[j] = x
      BY <2>1, <2>3
    <3>2. x.apdu \in Asks
      BY <1>1, <1>3, TailIs, ElementOfSeq
    <3>3. x.apdu.ins \in Instructions
      BY <3>2, RequestsAre DEF Asks
    <3>4. /\ x.apdu.ins \in Pubkeys =>
               x.out \in {<<>>, x.apdu.data} /\ (x.sw = "Ok" => x.out # <<>>)
          /\ \A ins \in Uploading : x.apdu.ins = ins => AnswersChunk(ins, x)
      BY <1>3 DEF AnswersWell
    <3>5. x.apdu.ins \in Uploading => x.out = <<>>
      BY <3>4 DEF AnswersChunk
    <3>6. ASSUME NEW cmd \in Commands, OneImport(cmd), x.apdu = Requests(cmd)[1]
          PROVE  x.out \in {<<>>, Result(cmd)}
      <4>1. x.apdu.ins = "load_idl"
        BY <3>6, OneImportIs
      <4> QED
        BY <3>5, <4>1 DEF Uploading
    <3>7. WellAnswered(outbox[j])'
      BY <3>1, <3>3, <3>4, <3>5, <3>6 DEF WellAnswered
    <3>8. ASSUME Judged, x.apdu = This, LastOne
          PROVE  x.out = <<>>
      <4>1. /\ run.cmd.ins \in Uploading /\ run.cmd \in Commands
            /\ Len(Requests(run.cmd)) > 1
        BY <3>8, JudgedRun
      <4>2. This.ins = run.cmd.ins
        BY <3>8, <4>1, Neighbours DEF This, LastOne
      <4> QED
        BY <3>5, <3>8, <4>1, <4>2
    <3>9. ASSUME Judged, x.apdu = This, run.cmd.ins = "sign", run.next > 1
          PROVE  x.sw # "WrongP1P2"
      <4>1. Context("sign").in_progress <=> "extend" \in This.p2
        BY <1>3, <3>9, InSequence
      <4>2. run.cmd \in Commands /\ run.next \in 2..Len(Requests(run.cmd))
            /\ run.cmd.ins \in Uploading
        BY <3>9, JudgedRun
      <4>3. This.ins = "sign"
        BY <3>9, <4>2, Neighbours DEF This
      <4>4. AnswersChunk("sign", x)
        BY <3>4, <3>9, <4>3 DEF Uploading
      <4> QED
        BY <3>9, <4>1, <4>4 DEF AnswersChunk
    <3>10. OwnAnswered(outbox[j])'
      BY <1>1, <3>1, <3>8, <3>9, SameRun DEF OwnAnswered
    <3> QED
      BY <3>7, <3>10
  <2> QED
    BY <2>1, <2>2, <2>3
<1> QED
  BY <1>2, <1>3 DEF ServesIt, Reaches

(* What the user's decision answers.                                       *)
LEMMA DecidesAnswered ==
  ASSUME HostType, InLine, Shown, Answered, Address, Alone, DecidesIt
  PROVE  Answered'
<1> SUFFICES ASSUME NEW j \in 1..Len(outbox')
             PROVE  WellAnswered(outbox[j])' /\ OwnAnswered(outbox[j])'
  BY DEF Answered
<1>1. UNCHANGED <<run, missed>> /\ Reviewing
  BY DEF DecidesIt
<1>2. PICK x \in Exchange : Decides(x)
  BY DEF DecidesIt
<1>3. /\ x.apdu = screen.apdu /\ x.sw # "WrongP1P2" /\ Reaches(x)
      /\ x.sw = "Ok" => x.out # <<>>
      /\ x.apdu.ins \in Pubkeys => x.out \in {<<>>, <<screen.path>>}
      /\ x.apdu.ins \in Instructions
      /\ x.apdu.ins \in Pubkeys => screen.name = "review_address"
      /\ x.apdu.ins \in Uploading => "more" \notin x.apdu.p2
      /\ \A cmd \in Commands :
           cmd.ins \in Uploading /\ x.apdu.ins = cmd.ins
             /\ Context(cmd.ins).payload = Payload(cmd)
           => x.out \in {<<>>, Result(cmd)}
  BY <1>2 DEF Decides
<1>4. CASE ~Running
  <2>1. outbox' = outbox
    BY <1>3, <1>4 DEF Reaches
  <2> QED
    BY <1>1, <2>1, OldAnswer
<1>5. CASE Running
  <2>1. /\ Len(outbox) \in Nat
        /\ Len(outbox') = Len(outbox) + 1 /\ outbox'[Len(outbox) + 1] = x
        /\ \A i \in 1..Len(outbox) : outbox'[i] = outbox[i]
    BY <1>3, <1>5, OneMoreAnswer
  <2>2. CASE j \in 1..Len(outbox)
    BY <1>1, <2>1, <2>2, OldAnswer
  <2>3. CASE j = Len(outbox) + 1
    <3>1. outbox'[j] = x
      BY <2>1, <2>3
    <3>2. x.apdu.ins \in Pubkeys => x.apdu.data = <<screen.path>>
      BY <1>3 DEF Address
    <3>3. ASSUME NEW cmd \in Commands, OneImport(cmd), x.apdu = Requests(cmd)[1]
          PROVE  x.out \in {<<>>, Result(cmd)}
      <4>1. x.apdu.ins = "load_idl" /\ cmd.ins = "load_idl"
        BY <3>3, OneImportIs DEF OneImport
      <4>2. Context("load_idl").payload = Payload(cmd)
        BY <1>1, <1>3, <3>3 DEF Alone, Context
      <4> QED
        BY <1>3, <4>1, <4>2 DEF Uploading
    <3>4. WellAnswered(outbox[j])'
      BY <1>3, <3>1, <3>2, <3>3 DEF WellAnswered
    <3>5. ASSUME Judged, x.apdu = This, LastOne
          PROVE  x.out \in {<<>>, Result(run.cmd)}
      <4>1. /\ run.cmd.ins \in Uploading /\ run.cmd \in Commands
            /\ Len(Requests(run.cmd)) > 1
        BY <3>5, JudgedRun
      <4>2. This.ins = run.cmd.ins
        BY <3>5, <4>1, Neighbours DEF This, LastOne
      <4>3. Context(run.cmd.ins).payload = Payload(run.cmd)
        BY <1>1, <1>3, <3>5 DEF Shown, Holding
      <4> QED
        BY <1>3, <3>5, <4>1, <4>2, <4>3
    <3>6. OwnAnswered(outbox[j])'
      <4>1. Result(run.cmd)' = Result(run.cmd)
        BY <1>1 DEF Result
      <4> QED
        BY <1>1, <1>3, <3>1, <3>5, <4>1, SameRun DEF OwnAnswered
    <3> QED
      BY <3>4, <3>6
  <2> QED
    BY <2>1, <2>2, <2>3
<1> QED
  BY <1>4, <1>5

(* What still waits when the process goes on answers the APDU before, with *)
(* which the next one is not confused.                                     *)
LEMMA ProceedAnswered ==
  ASSUME HostType, InLine, Answered, Proceed
  PROVE  Answered'
<1> SUFFICES ASSUME NEW j \in 1..Len(outbox')
             PROVE  WellAnswered(outbox[j])' /\ OwnAnswered(outbox[j])'
  BY DEF Answered
<1>1. outbox' = Tail(outbox) /\ outbox # <<>> /\ outbox \in Seq(Exchange)
  BY DEF Proceed, HostType
<1>2. j + 1 \in 1..Len(outbox) /\ outbox'[j] = outbox[j + 1]
  BY <1>1, TailIs
<1>3. WellAnswered(outbox[j])'
  <2>1. WellAnswered(outbox[j + 1])
    BY <1>2 DEF Answered
  <2> QED
    BY <1>2, <2>1 DEF WellAnswered
<1>4. ASSUME Judged', outbox'[j].apdu = This', LastOne' \/ run.cmd.ins = "sign"
      PROVE  FALSE
  <2>1. /\ Judged /\ run'.cmd = run.cmd /\ run'.next = run.next + 1
        /\ run.next \in Nat /\ run.next >= 1 /\ run.cmd \in Commands
        /\ This' = Requests(run.cmd)[run.next + 1]
    BY <1>4, ProceedRun
  <2>2. run.cmd.ins \in Uploading /\ Len(Requests(run.cmd)) > 1
    BY <2>1, JudgedRun
  <2>3. /\ Len(outbox) \in {1, 2} /\ Len(outbox') = Len(outbox) - 1
        /\ Len(outbox) = 2 => outbox'[1] = outbox[2] /\ outbox[2].apdu = This
    BY <2>1, ProceedsTo
  <2> DEFINE o == Len(outbox)
  <2>4. o \in {1, 2} /\ j \in 1..(o - 1)
    BY <2>3
  <2> HIDE DEF o
  <2>5. o = 2 /\ j = 1
    BY ONLY <2>4
  <2>6. Len(outbox) = 2 /\ outbox'[j].apdu = This
    BY <2>3, <2>5 DEF o
  <2>7. CASE LastOne'
    <3>1. run.next + 1 = Len(Requests(run.cmd)) /\ (run.next + 1) - 1 = run.next
      BY <2>1, <2>7 DEF LastOne
    <3>2. This # This'
      BY <2>1, <2>2, <3>1, Neighbours DEF This
    <3> QED
      BY <1>4, <2>6, <3>2
  <2>8. CASE run.cmd.ins = "sign"
    <3>1. ~(run.next > 1)
      BY <2>1, <2>6, <2>8, SignProceeds
    <3>2. This = Requests(run.cmd)[1] /\ This' = Requests(run.cmd)[2]
      BY <2>1, <3>1 DEF This
    <3>3. Requests(run.cmd)[1] # Requests(run.cmd)[2]
      BY <2>1, <2>2, <2>8, Neighbours
    <3> QED
      BY <1>4, <2>6, <3>2, <3>3
  <2> QED
    BY <1>4, <2>7, <2>8
<1>5. OwnAnswered(outbox[j])'
  <2>1. run'.cmd = run.cmd
    BY ProceedRun
  <2> QED
    BY <1>4, <2>1 DEF OwnAnswered
<1> QED
  BY <1>3, <1>5

-----------------------------------------------------------------------------
(* The address on the screen, and addresses in line: one lemma per step.   *)

(* The address that is shown is the one the APDU asks for.                 *)
LEMMA ServesAddress ==
  ASSUME ServesIt
  PROVE  Address'
<1>1. CASE ~Reviewing'
  BY <1>1, NoReviewing DEF Address, Reviews
<1>2. CASE Reviewing'
  BY <1>2 DEF ServesIt, ShowsWell, Address
<1> QED
  BY <1>1, <1>2

(* A review of a single APDU is of the payload of its command.             *)
LEMMA ServesAlone ==
  ASSUME ServesIt
  PROVE  Alone'
<1> SUFFICES ASSUME NEW cmd \in Commands, OneImport(cmd), Reviewing',
                    screen'.apdu = Requests(cmd)[1]
             PROVE  load_idl_context'.payload = Payload(cmd)
  BY DEF Alone
<1> DEFINE apdu == Requests(cmd)[1]
<1>1. /\ apdu.ins = "load_idl" /\ apdu.data = Payload(cmd)
      /\ "extend" \notin apdu.p2 /\ Payload(cmd) \in Seq(Units)
  BY OneImportIs
<1>2. Took("load_idl", apdu)
  BY <1>1 DEF ServesIt, ShowsWell, Uploading
<1> HIDE DEF apdu
<1>3. Context("load_idl")'.payload = <<>> \o apdu.data
  BY <1>1, <1>2 DEF Took, Received
<1>4. <<>> \o apdu.data = apdu.data
  BY <1>1, ConcatEmptySeq
<1> QED
  BY <1>1, <1>3, <1>4 DEF Context

(* It stays so while the review is on the screen.                          *)
LEMMA StillAlone ==
  ASSUME Alone, ~Reviewing' \/ UNCHANGED <<screen, load_idl_context>>
  PROVE  Alone'
BY DEF Alone, Reviewing

(* A process keeps its rivals.                                             *)
LEMMA SameRivals ==
  ASSUME UNCHANGED run
  PROVE  /\ Running' <=> Running
         /\ Unrivalled(run.cmd, run.late)' <=> Unrivalled(run.cmd, run.late)
         /\ \A apdu : OwnApdu(apdu)' <=> OwnApdu(apdu)
BY DEF Running, Unrivalled, Rivals, NoneDue, OneImport, OwnApdu

(* What is served was in line, and its answer stays in it.                 *)
LEMMA ServesAsked ==
  ASSUME HostType, Asked, ServesIt
  PROVE  Asked'
<1> SUFFICES ASSUME Running', Unrivalled(run.cmd, run.late)'
             PROVE  /\ \A i \in 1..Len(outbox') : OwnApdu(outbox[i].apdu)'
                    /\ Reviewing' => OwnApdu(screen.apdu)'
                    /\ \A i \in 1..Len(inbox') : OwnApdu(inbox[i])'
  BY DEF Asked
<1>1. /\ UNCHANGED <<run, missed>> /\ inbox # <<>> /\ inbox \in Seq(Asks) /\ inbox' = Tail(inbox)
      /\ Running
  BY DEF ServesIt, HostType, Running
<1>2. /\ \A i \in 1..Len(outbox) : OwnApdu(outbox[i].apdu)
      /\ \A i \in 1..Len(inbox) : OwnApdu(inbox[i])
  BY <1>1, SameRivals DEF Asked
<1>3. Head(inbox) = inbox[1] /\ 1 \in 1..Len(inbox)
      /\ \A i \in 1..Len(inbox') : i + 1 \in 1..Len(inbox) /\ inbox'[i] = inbox[i + 1]
  BY <1>1, TailIs
<1>4. OwnApdu(Head(inbox))
  BY <1>2, <1>3
<1>5. ASSUME NEW i \in 1..Len(inbox') PROVE OwnApdu(inbox[i])'
  <2>1. OwnApdu(inbox[i + 1]) /\ inbox'[i] = inbox[i + 1]
    BY <1>2, <1>3
  <2> QED
    BY <1>1, <2>1 DEF OwnApdu
<1>6. Reviewing' => OwnApdu(screen.apdu)'
  <2>1. Reviewing' => screen'.apdu = Head(inbox)
    BY DEF ServesIt
  <2> QED
    BY <1>1, <1>4, <2>1 DEF OwnApdu
<1>7. ASSUME NEW i \in 1..Len(outbox') PROVE OwnApdu(outbox[i].apdu)'
  <2>1. CASE outbox' = outbox
    <3>1. OwnApdu(outbox[i].apdu)
      BY <1>2, <2>1
    <3> QED
      BY <1>1, <2>1, <3>1 DEF OwnApdu
  <2>2. ASSUME NEW x \in Exchange, x.apdu = Head(inbox), Reaches(x)
        PROVE  OwnApdu(outbox[i].apdu)'
    <3>1. /\ Len(outbox) \in Nat
          /\ Len(outbox') = Len(outbox) + 1 /\ outbox'[Len(outbox) + 1] = x
          /\ \A j \in 1..Len(outbox) : outbox'[j] = outbox[j]
      BY <1>1, <2>2, OneMoreAnswer
    <3>2. CASE i \in 1..Len(outbox)
      <4>1. OwnApdu(outbox[i].apdu) /\ outbox'[i] = outbox[i]
        BY <1>2, <3>1, <3>2
      <4> QED
        BY <1>1, <4>1 DEF OwnApdu
    <3>3. CASE i = Len(outbox) + 1
      <4>1. outbox'[i].apdu = Head(inbox)
        BY <2>2, <3>1, <3>3
      <4> QED
        BY <1>1, <1>4, <4>1 DEF OwnApdu
    <3> QED
      BY <3>1, <3>2, <3>3
  <2> QED
    BY <2>1, <2>2 DEF ServesIt
<1> QED
  BY <1>5, <1>6, <1>7

(* What was reviewed was in line, and its answer stays in it.              *)
LEMMA DecidesAsked ==
  ASSUME HostType, Asked, DecidesIt
  PROVE  Asked'
<1> SUFFICES ASSUME Running', Unrivalled(run.cmd, run.late)'
             PROVE  /\ \A i \in 1..Len(outbox') : OwnApdu(outbox[i].apdu)'
                    /\ Reviewing' => OwnApdu(screen.apdu)'
                    /\ \A i \in 1..Len(inbox') : OwnApdu(inbox[i])'
  BY DEF Asked
<1>1. UNCHANGED <<run, inbox, missed>> /\ Reviewing /\ ~Reviewing' /\ Running
  BY DEF DecidesIt, Running
<1>2. /\ \A i \in 1..Len(outbox) : OwnApdu(outbox[i].apdu)
      /\ OwnApdu(screen.apdu)
      /\ \A i \in 1..Len(inbox) : OwnApdu(inbox[i])
  BY <1>1, SameRivals DEF Asked
<1>3. PICK x \in Exchange : x.apdu = screen.apdu /\ Reaches(x)
  BY DEF DecidesIt, Decides
<1>4. ASSUME NEW i \in 1..Len(outbox') PROVE OwnApdu(outbox[i].apdu)'
  <2>1. /\ Len(outbox) \in Nat
        /\ Len(outbox') = Len(outbox) + 1 /\ outbox'[Len(outbox) + 1] = x
        /\ \A j \in 1..Len(outbox) : outbox'[j] = outbox[j]
    BY <1>1, <1>3, OneMoreAnswer
  <2>2. CASE i \in 1..Len(outbox)
    <3>1. OwnApdu(outbox[i].apdu) /\ outbox'[i] = outbox[i]
      BY <1>2, <2>1, <2>2
    <3> QED
      BY <1>1, <3>1 DEF OwnApdu
  <2>3. CASE i = Len(outbox) + 1
    <3>1. outbox'[i].apdu = screen.apdu
      BY <1>3, <2>1, <2>3
    <3> QED
      BY <1>1, <1>2, <3>1 DEF OwnApdu
  <2> QED
    BY <2>1, <2>2, <2>3
<1>5. ASSUME NEW i \in 1..Len(inbox') PROVE OwnApdu(inbox[i])'
  <2>1. OwnApdu(inbox[i])
    BY <1>1, <1>2
  <2> QED
    BY <1>1, <2>1 DEF OwnApdu
<1> QED
  BY <1>1, <1>4, <1>5

(* A dropped APDU is one less in line.                                     *)
LEMMA LoseAsked ==
  ASSUME HostType, Asked, Lose
  PROVE  Asked'
<1> SUFFICES ASSUME Running', Unrivalled(run.cmd, run.late)'
             PROVE  /\ \A i \in 1..Len(outbox') : OwnApdu(outbox[i].apdu)'
                    /\ Reviewing' => OwnApdu(screen.apdu)'
                    /\ \A i \in 1..Len(inbox') : OwnApdu(inbox[i])'
  BY DEF Asked
<1>1. /\ UNCHANGED <<run, outbox, screen>> /\ (Reviewing' <=> Reviewing) /\ Running
      /\ inbox # <<>> /\ inbox \in Seq(Asks) /\ inbox' = Tail(inbox)
  BY LoseRun DEF Running
<1>2. /\ \A i \in 1..Len(outbox) : OwnApdu(outbox[i].apdu)
      /\ Reviewing => OwnApdu(screen.apdu)
      /\ \A i \in 1..Len(inbox) : OwnApdu(inbox[i])
  BY <1>1, SameRivals DEF Asked
<1>3. \A i \in 1..Len(inbox') : i + 1 \in 1..Len(inbox) /\ inbox'[i] = inbox[i + 1]
  BY <1>1, TailIs
<1>4. ASSUME NEW i \in 1..Len(inbox') PROVE OwnApdu(inbox[i])'
  <2>1. OwnApdu(inbox[i + 1]) /\ inbox'[i] = inbox[i + 1]
    BY <1>2, <1>3
  <2> QED
    BY <1>1, <2>1 DEF OwnApdu
<1>5. ASSUME NEW i \in 1..Len(outbox') PROVE OwnApdu(outbox[i].apdu)'
  <2>1. OwnApdu(outbox[i].apdu)
    BY <1>1, <1>2
  <2> QED
    BY <1>1, <2>1 DEF OwnApdu
<1> QED
  BY <1>1, <1>2, <1>4, <1>5 DEF OwnApdu

(* A command of a single APDU does not go on.                              *)
LEMMA ProceedAsked ==
  ASSUME HostType, Proceed
  PROVE  Asked'
<1>1. run'.cmd = run.cmd /\ run.cmd \in Commands /\ run.next \in Nat /\ run.next >= 1
  BY ProceedRun
<1>2. run.next < Len(Requests(run.cmd))
  BY DEF Proceed
<1> DEFINE next == run.next
           m == Len(Requests(run.cmd))
<1>3. next \in Nat /\ next >= 1 /\ next < m
  BY <1>1, <1>2
<1> HIDE DEF next, m
<1>4. m # 1
  BY ONLY <1>3
<1>5. Len(Requests(run.cmd)) # 1
  BY <1>4 DEF m
<1>6. run.cmd.ins \in Uploading
  BY <1>1, <1>5, RequestsAre
<1>7. ~OneImport(run.cmd) /\ run.cmd.ins \notin Pubkeys
  BY <1>5, <1>6 DEF OneImport, Uploading, Pubkeys
<1>8. ~OneImport(run.cmd)' /\ run'.cmd.ins \notin Pubkeys
  BY <1>1, <1>7 DEF OneImport
<1> QED
  BY <1>8 DEF Asked, Unrivalled

(* A process that starts knows what is due, and sends its own APDU.        *)
LEMMA StartAsked ==
  ASSUME HostType, Start
  PROVE  Asked'
<1> SUFFICES ASSUME Unrivalled(run.cmd, run.late)'
             PROVE  /\ \A i \in 1..Len(outbox') : OwnApdu(outbox[i].apdu)'
                    /\ Reviewing' => OwnApdu(screen.apdu)'
                    /\ \A i \in 1..Len(inbox') : OwnApdu(inbox[i])'
  BY DEF Asked
<1>1. PICK cmd \in Commands :
        /\ run' = [cmd |-> cmd, next |-> 1, late |-> Due]
        /\ This' = Requests(cmd)[1]
        /\ Len(inbox) \in Nat /\ Len(inbox') = Len(inbox) + 1
        /\ inbox'[Len(inbox) + 1] = This'
        /\ \A i \in 1..Len(inbox) : inbox'[i] = inbox[i]
        /\ outbox' = <<>> /\ UNCHANGED vars /\ (Reviewing' <=> Reviewing)
  BY StartRun
<1>2. run'.late = Due /\ run'.cmd = cmd
  BY <1>1
<1> DEFINE rivals == Rivals(cmd)
<1>3. /\ \A k \in 1..Len(Due) : Due[k] \notin rivals
      /\ \A apdu : OwnApdu(apdu)' <=> (apdu.ins \in rivals => apdu = Requests(cmd)[1])
  BY <1>2 DEF Unrivalled, NoneDue, Rivals, OwnApdu
<1> HIDE DEF rivals
<1>4. /\ \A i \in 1..Len(inbox) : inbox[i].ins \notin rivals
      /\ Reviewing => screen.apdu.ins \notin rivals
  BY <1>3, DueIs
<1>5. Len(outbox') = 0
  BY <1>1, EmptySeq
<1>6. Reviewing' => OwnApdu(screen.apdu)'
  BY <1>1, <1>3, <1>4 DEF vars
<1>7. ASSUME NEW i \in 1..Len(inbox') PROVE OwnApdu(inbox[i])'
  <2>1. CASE i \in 1..Len(inbox)
    BY <1>1, <1>3, <1>4, <2>1
  <2>2. CASE i = Len(inbox) + 1
    BY <1>1, <1>3, <2>2
  <2> QED
    BY <1>1, <2>1, <2>2
<1> QED
  BY <1>5, <1>6, <1>7

-----------------------------------------------------------------------------
(* The types: one lemma per step.                                          *)

(* Serving an APDU keeps the line well-formed.                             *)
LEMMA ServesType ==
  ASSUME HostType, ServesIt
  PROVE  HostType'
<1>1. /\ UNCHANGED <<run, missed>> /\ inbox # <<>> /\ inbox \in Seq(Asks) /\ inbox' = Tail(inbox)
      /\ outbox \in Seq(Exchange)
  BY DEF ServesIt, HostType
<1>2. inbox' \in Seq(Asks)
  BY <1>1, TailIs
<1>3. outbox' \in Seq(Exchange)
  <2>1. CASE outbox' = outbox
    BY <1>1, <2>1
  <2>2. ASSUME NEW x \in Exchange, Reaches(x)
        PROVE  outbox' = outbox \/ outbox' \in Seq(Exchange)
    BY <2>2, OneMoreAnswer DEF Reaches
  <2> QED
    BY <1>1, <2>1, <2>2 DEF ServesIt
<1> QED
  BY <1>1, <1>2, <1>3 DEF HostType, Running

(* So does a decision of the user,                                         *)
LEMMA DecidesType ==
  ASSUME HostType, DecidesIt
  PROVE  HostType'
<1>1. UNCHANGED <<run, inbox, missed>> /\ outbox \in Seq(Exchange)
  BY DEF DecidesIt, HostType
<1>2. outbox' \in Seq(Exchange)
  <2>1. PICK x \in Exchange : Reaches(x)
    BY DEF DecidesIt, Decides
  <2> QED
    BY <1>1, <2>1, OneMoreAnswer DEF Reaches
<1> QED
  BY <1>1, <1>2 DEF HostType, Running

(* the loss of an APDU,                                                    *)
LEMMA LoseType ==
  ASSUME HostType, Lose
  PROVE  HostType'
<1>1. UNCHANGED <<run, outbox>> /\ inbox' \in Seq(Asks)
  BY TailIs DEF Lose, HostType
<1> QED
  BY <1>1 DEF HostType, Running

(* going on with the command,                                              *)
LEMMA ProceedType ==
  ASSUME HostType, Proceed
  PROVE  HostType'
<1>1. /\ run'.cmd = run.cmd
      /\ run' = [cmd |-> run'.cmd, next |-> run'.next, late |-> run'.late]
      /\ run.cmd \in Commands /\ run'.next \in 1..Len(Requests(run.cmd))
      /\ Requests(run.cmd)[run.next + 1] \in Asks
  BY ProceedRun
<1>2. inbox' = Append(inbox, Requests(run.cmd)[run.next + 1]) /\ inbox \in Seq(Asks)
  BY DEF Proceed, Send, HostType
<1>3. inbox' \in Seq(Asks)
  BY <1>1, <1>2, AppendIs
<1>4. outbox' \in Seq(Exchange)
  BY TailIs DEF Proceed, HostType
<1> QED
  BY <1>1, <1>3, <1>4 DEF HostType

(* and the start of a process.                                             *)
LEMMA StartType ==
  ASSUME HostType, Start
  PROVE  HostType'
<1>1. PICK cmd \in Commands :
        /\ run' = [cmd |-> cmd, next |-> 1, late |-> Due]
        /\ inbox' \in Seq(Asks) /\ outbox' = <<>>
  BY StartRun
<1>2. run'.cmd = cmd /\ run'.next = 1 /\ run'.late = Due
  BY <1>1
<1>3. 1 \in 1..Len(Requests(cmd))
  BY RequestsAre
<1>4. <<>> \in Seq(Exchange)
  BY EmptySeq
<1> QED
  BY <1>1, <1>2, <1>3, <1>4 DEF HostType

-----------------------------------------------------------------------------
(* What is printed.                                                        *)

(* The data of a result is that of an answer to the command's own          *)
(* instruction, whichever process it was meant for.                        *)
LEMMA AcceptedIs ==
  ASSUME NEW cmd \in Commands, NEW k, k = Len(Requests(cmd)), NEW x, Accepts(cmd, k, x),
         cmd.ins # "app_config", x.apdu.ins \in Instructions
  PROVE  /\ x.sw = "Ok" /\ x.out # <<>>
         /\ cmd.ins \in Uploading => x.apdu.ins = cmd.ins
         /\ cmd.ins \in Pubkeys => x.apdu.ins \in Pubkeys
<1>1. Requests(cmd)[k].ins = cmd.ins /\ cmd.ins \in Instructions
  <2>1. cmd.ins \in Uploading => Requests(cmd)[k].ins = cmd.ins
    <3>1. OneImport(cmd) => Requests(cmd)[k].ins = cmd.ins
      BY OneImportIs DEF OneImport
    <3>2. cmd.ins \in Uploading /\ ~OneImport(cmd) => Len(Requests(cmd)) > 1
      <4> DEFINE m == Len(Requests(cmd))
      <4>1. cmd.ins \in Uploading => m \in Nat /\ m >= 1 /\ (cmd.ins = "sign" => m > 1)
        BY UploadIs DEF IsUploadOf
      <4>2. cmd.ins = "load_idl" /\ ~OneImport(cmd) => m # 1
        BY DEF OneImport
      <4> HIDE DEF m
      <4>3. cmd.ins \in Uploading /\ ~OneImport(cmd) => m > 1
        BY <4>1, <4>2 DEF Uploading
      <4> QED
        BY <4>3 DEF m
    <3> QED
      BY <3>1, <3>2, Neighbours
  <2>2. cmd.ins \in Pubkeys => Requests(cmd)[k].ins = cmd.ins
    BY RequestsAre DEF Uploading, Pubkeys
  <2>3. cmd.ins \in Instructions
    BY CommandType
  <2> QED
    BY <2>1, <2>2, <2>3 DEF Instructions, Uploading, Pubkeys
<1>2. x.sw = "Ok" /\ SizeOf(x) = FullSize(cmd.ins)
  BY <1>1 DEF Accepts
<1>3. FullSize(cmd.ins) \in {64, 35, 32}
  BY <1>1 DEF FullSize, Instructions
<1>4. (x.out # <<>> \/ x.apdu.ins = "app_config") /\ FullSize(x.apdu.ins) = FullSize(cmd.ins)
  BY <1>2, <1>3 DEF SizeOf
<1>5. x.apdu.ins # "app_config"
  BY <1>3, <1>4 DEF FullSize
<1>6. /\ cmd.ins \in Uploading => x.apdu.ins = cmd.ins
      /\ cmd.ins \in Pubkeys => x.apdu.ins \in Pubkeys
  BY <1>1, <1>4 DEF FullSize, Instructions, Uploading, Pubkeys
<1> QED
  BY <1>2, <1>4, <1>5, <1>6

(* A result of an upload is the result of this upload: the answer ahead of *)
(* the one to its last chunk carries no data of this length.               *)
LEMMA UploadPrinted ==
  ASSUME HostType, InLine, Answered, Judged, Finish
  PROVE  Head(outbox).out = Result(run.cmd)
<1> DEFINE x == Head(outbox)
<1>1. /\ Running /\ run.cmd \in Commands /\ run.cmd.ins \in Uploading
      /\ run.next \in Nat /\ Len(Requests(run.cmd)) > 1
      /\ Len(inbox) \in Nat /\ Len(outbox) \in Nat
  BY JudgedRun
<1>2. /\ outbox # <<>> /\ Accepts(run.cmd, run.next, x) /\ LastOne /\ outbox \in Seq(Exchange)
  BY DEF Finish, HostType, LastOne
<1>3. x = outbox[1] /\ 1 \in 1..Len(outbox) /\ Len(outbox) > 0
  BY <1>2, TailIs
<1>4. WellAnswered(x) /\ OwnAnswered(x)
  BY <1>3 DEF Answered
<1>5. /\ x.apdu.ins \in Instructions
      /\ "more" \in x.apdu.p2 /\ x.apdu.ins \in Uploading => x.out = <<>>
  BY <1>4 DEF WellAnswered
<1>6. x.sw = "Ok" /\ x.out # <<>> /\ x.apdu.ins = run.cmd.ins
  BY <1>1, <1>2, <1>5, AcceptedIs DEF LastOne, Uploading
<1>7. x.apdu = This \/ Ahead(x.apdu)
  <2> DEFINE o == Len(outbox)
             l == Len(inbox)
  <2>1. o \in Nat /\ l \in Nat /\ o > 0 /\ o + l <= 2
    BY <1>1, <1>3 DEF InLine
  <2>2. /\ o = 1 => x.apdu = This \/ Ahead(x.apdu)
        /\ o = 2 => Ahead(x.apdu)
    BY <1>3 DEF InLine, OutboxInLine
  <2> HIDE DEF o, l, x
  <2>3. o \in {1, 2}
    BY <2>1
  <2> QED
    BY <2>2, <2>3
<1>8. CASE x.apdu = This
  BY <1>2, <1>4, <1>6, <1>8 DEF OwnAnswered
<1>9. CASE Ahead(x.apdu)
  <2>1. run.next > 1
    BY <1>1, <1>2 DEF LastOne
  <2>2. x.apdu = Requests(run.cmd)[run.next - 1]
    BY <1>9, <2>1 DEF Ahead
  <2>3. "more" \in x.apdu.p2
    BY <1>1, <1>2, <1>6, <2>2, Neighbours DEF LastOne
  <2> QED
    BY <1>1, <1>5, <1>6, <2>3
<1> QED
  BY <1>7, <1>8, <1>9

(* A command of a single APDU prints what its own APDU is answered with.   *)
LEMMA AlonePrinted ==
  ASSUME HostType, Answered, Asked, Finish, Unrivalled(run.cmd, run.late)
  PROVE  /\ run.cmd.ins \in Pubkeys => Head(outbox).out = <<run.cmd.path>>
         /\ OneImport(run.cmd) => Head(outbox).out = Result(run.cmd)
<1> DEFINE x == Head(outbox)
<1>1. /\ Running /\ outbox # <<>> /\ Accepts(run.cmd, run.next, x)
      /\ run.next = Len(Requests(run.cmd)) /\ outbox \in Seq(Exchange)
      /\ run.cmd \in Commands
  BY DEF Finish, HostType
<1>2. x = outbox[1] /\ 1 \in 1..Len(outbox)
  BY <1>1, TailIs
<1>3. WellAnswered(x) /\ OwnApdu(x.apdu)
  BY <1>1, <1>2 DEF Answered, Asked
<1>4. run.cmd.ins \in Pubkeys \/ OneImport(run.cmd)
  BY DEF Unrivalled
<1>5. x.apdu.ins \in Instructions
  BY <1>3 DEF WellAnswered
<1> HIDE DEF x
<1>6. x.sw = "Ok" /\ x.out # <<>> /\ x.apdu.ins \in Rivals(run.cmd)
  <2>1. run.cmd.ins # "app_config"
    BY <1>4 DEF Pubkeys, OneImport
  <2>2. /\ x.sw = "Ok" /\ x.out # <<>>
        /\ run.cmd.ins \in Uploading => x.apdu.ins = run.cmd.ins
        /\ run.cmd.ins \in Pubkeys => x.apdu.ins \in Pubkeys
    BY <1>1, <1>5, <2>1, AcceptedIs
  <2> QED
    BY <1>4, <2>2 DEF Rivals, OneImport, Uploading
<1>7. x.apdu = Requests(run.cmd)[1]
  BY <1>3, <1>6 DEF OwnApdu
<1>8. ASSUME run.cmd.ins \in Pubkeys PROVE x.out = <<run.cmd.path>>
  <2>1. x.apdu.ins \in Pubkeys
    BY <1>6, <1>8 DEF Rivals
  <2>2. x.out = x.apdu.data
    BY <1>3, <1>6, <2>1 DEF WellAnswered
  <2> QED
    BY <1>1, <1>7, <1>8, <2>2, RequestsAre
<1>9. OneImport(run.cmd) => x.out = Result(run.cmd)
  BY <1>1, <1>3, <1>6, <1>7 DEF WellAnswered
<1> QED
  BY <1>8, <1>9 DEF x

(* What the last process printed answers its command.                      *)
LEMMA FinishPrinted ==
  ASSUME HostType, InLine, Answered, Asked, Finish
  PROVE  PrintedIsForTheCommand'
<1>1. /\ printed' = [cmd |-> run.cmd, out |-> Head(outbox).out,
                     late |-> run.late, missed |-> missed]
      /\ Running
  BY DEF Finish
<1>2. /\ printed'.cmd = run.cmd /\ printed'.out = Head(outbox).out
      /\ printed'.late = run.late /\ printed'.missed = missed
  BY <1>1
<1>3. /\ run.cmd.ins \in Uploading /\ Len(Requests(run.cmd)) > 1 /\ Len(run.late) <= 1
      /\ missed => run.cmd.ins = "sign"
      => Head(outbox).out = Result(run.cmd)
  BY <1>1, UploadPrinted DEF Judged
<1> DEFINE out == Head(outbox).out
<1>7. /\ run.cmd.ins \in Pubkeys /\ NoneDue(run.late, Pubkeys) => out = <<run.cmd.path>>
      /\ OneImport(run.cmd) /\ NoneDue(run.late, {"load_idl"}) => out = Result(run.cmd)
  BY AlonePrinted DEF Unrivalled, Rivals, OneImport, Pubkeys
<1>8. run.cmd.ins = "sign" => Len(Requests(run.cmd)) > 1
  <2>1. run.cmd \in Commands
    BY <1>1 DEF HostType
  <2> QED
    BY <2>1, UploadIs DEF IsUploadOf, Uploading
<1>4. SignatureIsForTheCommand'
  BY <1>2, <1>3, <1>8 DEF SignatureIsForTheCommand, Result, Uploading
<1>5. ImportIsOfTheCommand'
  BY <1>2, <1>3, <1>7 DEF ImportIsOfTheCommand, Result, Uploading, OneImport, NoneDue
<1>6. PubkeyIsForTheCommand'
  BY <1>2, <1>7 DEF PubkeyIsForTheCommand, NoneDue
<1> QED
  BY <1>4, <1>5, <1>6 DEF PrintedIsForTheCommand

(* It stays what it is until the next process starts.                      *)
LEMMA StillPrinted ==
  ASSUME PrintedIsForTheCommand, printed' \in {printed, NoReport}
  PROVE  PrintedIsForTheCommand'
<1>1. CASE printed' = printed
  BY <1>1 DEF PrintedIsForTheCommand, SignatureIsForTheCommand, ImportIsOfTheCommand,
              PubkeyIsForTheCommand
<1>2. CASE printed' = NoReport
  <2>1. printed'.cmd.ins = "none"
    BY <1>2 DEF NoReport
  <2> QED
    BY <2>1 DEF PrintedIsForTheCommand, SignatureIsForTheCommand, ImportIsOfTheCommand,
                PubkeyIsForTheCommand, Pubkeys
<1> QED
  BY <1>1, <1>2

-----------------------------------------------------------------------------
(* Every step keeps the invariant.                                         *)

(* The device serves an APDU.                                              *)
LEMMA ServesKeeps ==
  ASSUME HInv, LineInv, Serves
  PROVE  LineInv'
<1>1. ServesIt
  BY ServesCases DEF HInv
<1>2. printed' = printed
  BY DEF Serves
<1> QED
  BY <1>1, <1>2, ServesType, ServesLine, ServesHeld, ServesShown, ServesAnswered,
     ServesAddress, ServesAlone, ServesAsked, StillPrinted DEF LineInv

(* The user decides.                                                       *)
LEMMA DecidesKeeps ==
  ASSUME HInv, LineInv, UserDecides
  PROVE  LineInv'
<1>1. DecidesIt
  BY DecidesCases
<1>2. printed' = printed /\ ~Reviewing'
  BY <1>1 DEF DecidesIt
<1>3. Shown' /\ Address' /\ Alone'
  BY <1>2, NoReviewing DEF Shown, Address, Alone, Reviews
<1> QED
  BY <1>1, <1>2, <1>3, DecidesType, DecidesLine, DecidesHeld, DecidesAnswered,
     DecidesAsked, StillPrinted DEF LineInv

(* An APDU is dropped.                                                     *)
LEMMA LoseKeeps ==
  ASSUME HInv, LineInv, Lose
  PROVE  LineInv'
<1>1. /\ UNCHANGED <<run, vars>> /\ UNCHANGED <<outbox, screen>> /\ printed' = printed
      /\ missed => missed'
  BY LoseRun DEF LineInv
<1>2. Shown'
  BY <1>1, StillShown DEF LineInv
<1>3. Answered'
  BY <1>1, OldAnswer DEF LineInv, Answered
<1>4. Address'
  BY <1>1 DEF LineInv, Address
<1>5. Alone'
  BY <1>1, StillAlone DEF LineInv, vars
<1>6. Held'
  BY LoseInReviewHeld, LoseInSettingsHeld DEF LineInv
<1> QED
  BY <1>1, <1>2, <1>3, <1>4, <1>5, <1>6, LoseType, LoseLine, LoseAsked, StillPrinted
     DEF LineInv

(* The process goes on.                                                    *)
LEMMA ProceedKeeps ==
  ASSUME LineInv, Proceed
  PROVE  LineInv'
<1>1. screen' = screen /\ printed' = printed
  BY DEF Proceed, vars
<1>2. Address'
  BY <1>1 DEF LineInv, Address
<1>3. Alone'
  BY StillAlone DEF LineInv, Proceed, vars
<1> QED
  BY <1>1, <1>2, <1>3, ProceedType, ProceedLine, ProceedHeld, ProceedShown, ProceedAnswered,
     ProceedAsked, StillPrinted DEF LineInv

(* A process starts.                                                       *)
LEMMA StartKeeps ==
  ASSUME LineInv, Start
  PROVE  LineInv'
<1>1. screen' = screen /\ printed' = NoReport /\ outbox' = <<>>
  BY DEF Start, vars
<1>2. Address'
  BY <1>1 DEF LineInv, Address
<1>3. Len(outbox') = 0
  BY <1>1, EmptySeq
<1>4. Answered'
  BY <1>3 DEF Answered
<1>5. Alone'
  BY StillAlone DEF LineInv, Start, vars
<1> QED
  BY <1>1, <1>2, <1>4, <1>5, StartType, StartLine, StartHeld, StartShown, StartAsked,
     StillPrinted DEF LineInv

(* A process that ends leaves nothing to judge.                            *)
LEMMA EndKeeps ==
  ASSUME HostType, Address, Alone, run' = NoRun, outbox' = <<>>, inbox' \in {inbox, <<>>},
         UNCHANGED <<screen, load_idl_context>> \/ ~Reviewing'
  PROVE  /\ HostType' /\ InLine' /\ Held' /\ Shown' /\ Answered'
         /\ Address' /\ Alone' /\ Asked'
<1>1. ~Running' /\ ~Judged'
  BY DEF Running, Judged
<1>2. Len(outbox') = 0 /\ <<>> \in Seq(Exchange) /\ <<>> \in Seq(Asks)
  BY EmptySeq
<1>3. HostType'
  BY <1>1, <1>2 DEF HostType
<1>4. InLine' /\ Held' /\ Shown' /\ Asked'
  BY <1>1 DEF InLine, Held, Shown, Asked
<1>5. Answered'
  BY <1>2 DEF Answered
<1>6. Address'
  BY NoReviewing DEF Address, Reviews
<1> QED
  BY <1>3, <1>4, <1>5, <1>6, StillAlone

(* The process ends by itself, or is stopped.                              *)
LEMMA EndsKeep ==
  ASSUME LineInv, Finish \/ Fail \/ GiveUp
  PROVE  LineInv'
<1>1. /\ run' = NoRun /\ outbox' = <<>> /\ inbox' = inbox
      /\ UNCHANGED <<screen, load_idl_context>>
  BY DEF Finish, Fail, GiveUp, Stop, vars
<1>2. PrintedIsForTheCommand'
  <2>1. CASE Finish
    BY <2>1, FinishPrinted DEF LineInv
  <2>2. CASE Fail \/ GiveUp
    BY <2>2, StillPrinted DEF Fail, GiveUp, LineInv
  <2> QED
    BY <2>1, <2>2
<1> QED
  BY <1>1, <1>2, EndKeeps DEF LineInv

(* The device loses power.                                                 *)
LEMMA PowerLossKeeps ==
  ASSUME HInv, LineInv, PowerLoss
  PROVE  LineInv'
<1>1. run' = NoRun /\ outbox' = <<>> /\ inbox' = <<>> /\ printed' = printed
  BY DEF PowerLoss
<1>2. ~Reviewing'
  <2>1. CASE Restart
    BY <2>1, NoReviewing DEF Restart, Home, Reviews
  <2>2. CASE ApproveImport
    <3>1. IInv /\ Decide
      BY <2>2 DEF HInv, Decide
    <3> QED
      BY <3>1, DecideCases, NoReviewing
  <2> QED
    BY <2>1, <2>2 DEF PowerLoss
<1> QED
  BY <1>1, <1>2, EndKeeps, StillPrinted DEF LineInv

(* The menu is open when no review is; and nothing happens at all.         *)
LEMMA QuietKeeps ==
  ASSUME LineInv, UserBrowses \/ UNCHANGED allVars
  PROVE  LineInv'
<1>1. UNCHANGED <<run, runs, inbox, outbox, missed, printed>>
  BY DEF UserBrowses, hostVars, allVars
<1>2. /\ UNCHANGED <<sign_context, load_idl_context>>
      /\ screen' = screen \/ (~Reviewing /\ ~Reviewing')
  BY NoReviewing DEF UserBrowses, Menu, OpenSettings, CloseSettings, AskRemoval, ConfirmRemove,
         DeclineRemove, Home, Settings, ConfirmRemoval, Reviews, allVars, vars
<1>3. (Reviewing' <=> Reviewing) /\ (Reviewing => screen' = screen)
  BY <1>2 DEF Reviewing
<1>4. /\ Running' <=> Running
      /\ Judged' <=> Judged
      /\ This' = This
      /\ LastOne' <=> LastOne
      /\ \A apdu : Ahead(apdu)' <=> Ahead(apdu)
  BY <1>1, SameRun
<1>5. HostType'
  BY <1>1, <1>4 DEF LineInv, HostType
<1>6. InLine'
  BY <1>1, <1>3, <1>4 DEF LineInv, InLine, InboxInLine, ScreenInLine, OutboxInLine
<1>7. Holding' = Holding /\ Taken' = Taken
  BY <1>1, <1>2 DEF Holding, Context, Taken, Before
<1>8. Held'
  <2>1. Sent(run.cmd, Taken)' = Sent(run.cmd, Taken)
    <3>1. Payload(run.cmd)' = Payload(run.cmd) /\ Chunks(run.cmd)' = Chunks(run.cmd)
      BY <1>1 DEF Payload, Chunks, Before
    <3> QED
      BY <1>7, <3>1 DEF Sent
  <2>2. HeldSoFar' <=> HeldSoFar
    BY <1>7, <2>1 DEF HeldSoFar
  <2>3. HeldForSign' <=> HeldForSign
    BY <1>1, <1>7 DEF HeldForSign
  <2>4. \A i \in 1..Len(outbox) : GoesOn(outbox[i])' <=> GoesOn(outbox[i])
    BY <1>1, <1>4, <1>7 DEF GoesOn
  <2>5. Awaits' <=> Awaits
    BY <1>1, <1>3 DEF Awaits
  <2> QED
    BY <1>1, <1>4, <2>2, <2>3, <2>4, <2>5 DEF LineInv, Held
<1>9. Shown'
  <2>1. Payload(run.cmd)' = Payload(run.cmd)
    BY <1>1 DEF Payload
  <2> QED
    BY <1>3, <1>4, <1>7, <2>1 DEF LineInv, Shown
<1>10. Answered'
  BY <1>1, OldAnswer DEF LineInv, Answered
<1>11. Address'
  <2>1. CASE screen' = screen
    BY <2>1 DEF LineInv, Address
  <2>2. CASE ~Reviewing'
    BY <2>2, NoReviewing DEF Address, Reviews
  <2> QED
    BY <1>2, <2>1, <2>2
<1>12. Asked'
  <2>1. /\ \A apdu : OwnApdu(apdu)' <=> OwnApdu(apdu)
        /\ Unrivalled(run.cmd, run.late)' <=> Unrivalled(run.cmd, run.late)
    BY <1>1, SameRivals
  <2>2. /\ \A i \in 1..Len(outbox) : OwnApdu(outbox[i].apdu)' <=> OwnApdu(outbox[i].apdu)
        /\ \A i \in 1..Len(inbox) : OwnApdu(inbox[i])' <=> OwnApdu(inbox[i])
        /\ Reviewing => (OwnApdu(screen.apdu)' <=> OwnApdu(screen.apdu))
    BY <1>1, <1>3, SameRivals DEF OwnApdu, Rivals
  <2> QED
    BY <1>1, <1>3, <1>4, <2>1, <2>2 DEF LineInv, Asked
<1>13. Alone'
  BY <1>2, <1>3, StillAlone DEF LineInv
<1> QED
  BY <1>1, <1>5, <1>6, <1>8, <1>9, <1>10, <1>11, <1>12, <1>13, StillPrinted DEF LineInv

(* The device behind the tool takes the steps of LedgerApp.                *)
LEMMA DeviceSteps ==
  ASSUME [HostNext]_allVars
  PROVE  [Next]_vars
<1>1. CASE Start \/ Proceed \/ Finish \/ Fail \/ GiveUp \/ Lose \/ UNCHANGED allVars
  BY <1>1 DEF Start, Proceed, Finish, Fail, GiveUp, Stop, Lose, allVars
<1>2. CASE Serves
  BY <1>2 DEF Serves, Next, Serve
<1>3. CASE UserDecides \/ UserBrowses
  BY <1>3 DEF UserDecides, UserBrowses, Next
<1>4. CASE PowerLoss
  BY <1>4 DEF PowerLoss, Next, Decide
<1> QED
  BY <1>1, <1>2, <1>3, <1>4 DEF HostNext

(* The invariant holds before the first process.                           *)
LEMMA HostInitInv == HostInit => HostInv
<1> SUFFICES ASSUME HostInit PROVE HostInv
  OBVIOUS
<1>1. /\ Init /\ run = NoRun /\ inbox = <<>> /\ outbox = <<>> /\ printed = NoReport
  BY DEF HostInit
<1>2. HInv
  BY <1>1, InitHInv
<1>3. ~Running /\ ~Judged
  BY <1>1 DEF Running, Judged
<1>4. Len(outbox) = 0 /\ <<>> \in Seq(Exchange) /\ <<>> \in Seq(Asks)
  BY <1>1, EmptySeq
<1>5. HostType /\ InLine /\ Held /\ Shown /\ Answered /\ Asked
  BY <1>1, <1>3, <1>4 DEF HostType, InLine, Held, Shown, Answered, Asked
<1>6. Address /\ Alone
  BY <1>1 DEF Init, Home, Address, Alone, Reviewing
<1>7. PrintedIsForTheCommand
  <2>1. printed.cmd.ins = "none"
    BY <1>1 DEF NoReport
  <2> QED
    BY <2>1 DEF PrintedIsForTheCommand, SignatureIsForTheCommand, ImportIsOfTheCommand,
                PubkeyIsForTheCommand, Pubkeys
<1> QED
  BY <1>2, <1>5, <1>6, <1>7 DEF HostInv, LineInv

(* Every step of the tool, the device and the user keeps it.               *)
LEMMA HostNextInv == HostInv /\ [HostNext]_allVars => HostInv'
<1> SUFFICES ASSUME HostInv, [HostNext]_allVars PROVE HostInv'
  OBVIOUS
<1>1. HInv /\ LineInv
  BY DEF HostInv
<1>2. HInv'
  BY <1>1, DeviceSteps, NextHInv
<1>3. LineInv'
  <2>1. CASE Serves
    BY <1>1, <2>1, ServesKeeps
  <2>2. CASE UserDecides
    BY <1>1, <2>2, DecidesKeeps
  <2>3. CASE Lose
    BY <1>1, <2>3, LoseKeeps
  <2>4. CASE Proceed
    BY <1>1, <2>4, ProceedKeeps
  <2>5. CASE Start
    BY <1>1, <2>5, StartKeeps
  <2>6. CASE Finish \/ Fail \/ GiveUp
    BY <1>1, <2>6, EndsKeep
  <2>7. CASE PowerLoss
    BY <1>1, <2>7, PowerLossKeeps
  <2>8. CASE UserBrowses \/ UNCHANGED allVars
    BY <1>1, <2>8, QuietKeeps
  <2> QED
    BY <2>1, <2>2, <2>3, <2>4, <2>5, <2>6, <2>7, <2>8 DEF HostNext
<1> QED
  BY <1>2, <1>3 DEF HostInv

-----------------------------------------------------------------------------
(* The device behind the tool is LedgerApp: what is proved of every host   *)
(* holds of this one.                                                      *)
THEOREM DeviceIsLedgerApp == HostSpec => Spec
<1>1. HostInit => Init
  BY DEF HostInit
<1>2. [HostNext]_allVars => [Next]_vars
  BY DeviceSteps
<1> QED
  BY <1>1, <1>2, PTL DEF HostSpec, Spec

(* The line between the processes and the device, in every state.          *)
THEOREM HostInvariance == HostSpec => []HostInv
<1>1. HostInit => HostInv
  BY HostInitInv
<1>2. HostInv /\ [HostNext]_allVars => HostInv'
  BY HostNextInv
<1> QED
  BY <1>1, <1>2, PTL DEF HostSpec

(* Something is on its way to a process that runs, step by step.           *)
LEMMA DueOrNot ==
  ASSUME HostType
  PROVE  NothingDue <=> ~Awaits
<1>1. Len(Due) = Len(inbox) + (IF Reviewing THEN 1 ELSE 0) /\ Len(inbox) \in Nat
  BY DueIs
<1>2. Due = <<>> <=> Len(Due) = 0
  BY EmptySeq DEF Due
<1>3. inbox = <<>> <=> Len(inbox) = 0
  BY EmptySeq DEF HostType
<1>4. Due = <<>> <=> inbox = <<>> /\ ~Reviewing
  BY <1>1, <1>2, <1>3
<1> QED
  BY <1>4 DEF NothingDue, Awaits

LEMMA StillAwaits ==
  ASSUME HostInv, Running /\ ~missed => Awaits, [HostNext]_allVars, Running', ~missed'
  PROVE  Awaits'
<1>1. HInv /\ LineInv /\ HostType
  BY DEF HostInv, LineInv
<1>2. CASE Serves
  <2>1. ServesIt
    BY <1>1, <1>2, ServesCases DEF HInv
  <2>2. ASSUME NEW x \in Exchange, Reaches(x), Running PROVE outbox' # <<>>
    BY <1>1, <2>2, OneMoreAnswer, EmptySeq
  <2>3. Running
    BY <2>1 DEF ServesIt, Running
  <2> QED
    BY <2>1, <2>2, <2>3 DEF ServesIt, Awaits
<1>3. CASE UserDecides
  <2>1. DecidesIt
    BY <1>1, <1>3, DecidesCases
  <2>2. Running
    BY <2>1 DEF DecidesIt, Running
  <2>3. outbox' # <<>>
    BY <1>1, <2>1, <2>2, OneMoreAnswer, EmptySeq DEF DecidesIt, Decides
  <2> QED
    BY <2>3 DEF Awaits
<1>4. CASE Lose
  BY <1>1, <1>4, LoseRun DEF Awaits, Running
<1>5. CASE Proceed
  <2>1. inbox \in Seq(Asks) /\ Requests(run.cmd)[run.next + 1] \in Asks
    BY <1>1, <1>5, ProceedRun DEF HostType
  <2>2. inbox' # <<>>
    BY <1>5, <2>1, AppendIs, EmptySeq DEF Proceed, Send
  <2> QED
    BY <2>2 DEF Awaits
<1>6. CASE Start
  BY <1>1, <1>6, StartRun, EmptySeq DEF Awaits
<1>7. CASE Finish \/ Fail \/ GiveUp \/ PowerLoss
  BY <1>7 DEF Finish, Fail, GiveUp, Stop, PowerLoss, Running
<1>8. CASE UserBrowses \/ UNCHANGED allVars
  <2>1. UNCHANGED <<run, inbox, outbox, missed>>
    BY <1>8 DEF UserBrowses, hostVars, allVars
  <2>2. Reviewing' <=> Reviewing
    BY <1>8, NoReviewing DEF UserBrowses, Menu, OpenSettings, CloseSettings, AskRemoval,
       ConfirmRemove, DeclineRemove, Home, Settings, ConfirmRemoval, Reviews, allVars, vars
  <2> QED
    BY <2>1, <2>2 DEF Awaits, Running
<1> QED
  BY <1>2, <1>3, <1>4, <1>5, <1>6, <1>7, <1>8 DEF HostNext

(* No process waits for an answer that nobody will send, unless an APDU    *)
(* was dropped in the settings while it ran.                               *)
THEOREM AnAnswerIsDue == HostSpec => []AnswerIsDue
<1> DEFINE Inv == HostInv /\ (Running /\ ~missed => Awaits)
<1>1. HostInit => Inv
  BY HostInitInv DEF HostInit, Running
<1>2. Inv /\ [HostNext]_allVars => Inv'
  BY HostNextInv, StillAwaits
<1>3. Inv => AnswerIsDue
  BY DueOrNot DEF HostInv, LineInv, AnswerIsDue
<1> QED
  BY <1>1, <1>2, <1>3, PTL DEF HostSpec

(* A late answer never makes a process print a signature, an import or an  *)
(* address that is not its own.                                            *)
THEOREM PrintedAnswersTheCommand == HostSpec => []PrintedIsForTheCommand
<1>1. HostInv => PrintedIsForTheCommand
  BY DEF HostInv, LineInv
<1> QED
  BY <1>1, HostInvariance, PTL

(* sign-message is not told that a chunk it sent is out of sequence.       *)
THEOREM SignStaysInSequence == HostSpec => SignIsNeverOutOfSequence
<1>1. HostInv => ~RefusedForSequence
  <2> SUFFICES ASSUME HostInv, RefusedForSequence PROVE FALSE
    OBVIOUS
  <2>1. /\ run.cmd.ins = "sign" /\ Len(run.late) <= 1 /\ outbox # <<>>
        /\ Head(outbox).sw = "WrongP1P2" /\ Head(outbox).apdu.ins = "sign"
        /\ Head(outbox).apdu = This
    BY DEF RefusedForSequence, This
  <2>2. Judged
    <3>1. run # NoRun
      BY <2>1 DEF NoRun
    <3>2. run.cmd \in Commands
      BY <3>1 DEF HostInv, LineInv, HostType, Running
    <3>3. Len(Requests(run.cmd)) > 1
      BY <2>1, <3>2, UploadIs DEF IsUploadOf, Uploading
    <3> QED
      BY <2>1, <3>1, <3>3 DEF Judged, Running, Uploading
  <2>3. HostType /\ Answered /\ outbox \in Seq(Exchange)
    BY DEF HostInv, LineInv, HostType
  <2>4. Head(outbox) = outbox[1] /\ 1 \in 1..Len(outbox)
    BY <2>1, <2>3, TailIs
  <2>5. OwnAnswered(Head(outbox))
    BY <2>3, <2>4 DEF Answered
  <2>6. ~(run.next > 1)
    BY <2>1, <2>2, <2>5 DEF OwnAnswered
  <2>7. run.next = 1 /\ run.cmd \in Commands /\ run.cmd.ins \in Uploading
    BY <2>2, <2>3, <2>6, JudgedRun
  <2>8. IsUploadOf(run.cmd)
    BY <2>7, UploadIs
  <2>9. This.ins = "pubkey"
    BY <2>1, <2>7, <2>8 DEF IsUploadOf, This
  <2> QED
    BY <2>1, <2>9
<1> QED
  BY <1>1, HostInvariance, PTL DEF SignIsNeverOutOfSequence
=============================================================================
