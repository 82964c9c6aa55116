----------------------------- MODULE LargeBlob ------------------------------
(***************************************************************************)
(* canokey-ctap largeblob: reading and replacing the serialized large-blob *)
(* array of an authenticator, fragment by fragment.                        *)
(*                                                                         *)
(* One operation runs at a time and may be abandoned at any command, the   *)
(* command executed or not, with or without a power loss.  A step is one   *)
(* CTAP message and its response; a message may cost several exchanges.    *)
(* Bytes are abstract, and the digest that ends a valid array is the tuple *)
(* of the bytes it covers.  A faulty authenticator may answer anything at  *)
(* all.                                                                    *)
(***************************************************************************)
EXTENDS Integers, Sequences

CONSTANTS
  Nothing,                    \* no value
  Arrays,                     \* the arrays the application may write
  Initially,                  \* the arrays the authenticator may hold at first
  Tokens,                     \* pinUvAuthTokens
  CurrentToken,               \* the one in force, with largeBlobWrite
  MinArray,                   \* MIN_LARGE_BLOB_ARRAY_BYTES
  MaxArray,                   \* MAX_LARGE_BLOB_ARRAY_BYTES
  DefaultFragment,            \* DEFAULT_MAX_FRAGMENT_LENGTH
  ReadOverhead,               \* READ_RESPONSE_OVERHEAD
  WriteOverhead,              \* WRITE_MESSAGE_OVERHEAD
  ResponseLimits,             \* values of max_response_bytes
  InputLimits,                \* values of max_input_bytes
  ExchangeLimits,             \* values of max_exchanges
  MessageBytes                \* message bytes that one command APDU takes

(* contents || digest(contents)                                            *)
IsSealed(a) == Len(a) > 0 /\ a[Len(a)] = SubSeq(a, 1, Len(a) - 1)

Bytes == UNION {{a[i] : i \in 1 .. Len(a)} : a \in Arrays \cup Initially}

(* The array of a new authenticator is valid, and every write leaves one.  *)
ASSUME LargeBlobAssumption ==
  /\ Arrays \cup Initially \subseteq Seq(Bytes)
  /\ \A a \in Initially : IsSealed(a)
  /\ CurrentToken \in Tokens
  /\ {MinArray, MaxArray, DefaultFragment, MessageBytes} \subseteq Nat \ {0}
  /\ {ReadOverhead, WriteOverhead} \subseteq Nat
  /\ ResponseLimits \cup InputLimits \cup ExchangeLimits \subseteq Nat \ {0}

(* Option::None is neither a number, nor a token, nor a MAC, nor a call.   *)
ASSUME NothingAssumption ==
  /\ Nothing \notin Nat /\ Nothing \notin Tokens
  /\ Nothing \notin Tokens \X Nat \X Seq(Bytes)
  /\ Nothing \notin [op : {"read", "chunk", "write"}, array : Arrays \cup {<<>>}]

VARIABLES
  op,               \* "read", "chunk" or "write", or "none"
  data,             \* the array the write is to store
  token,            \* the token it was given, or Nothing
  stage,            \* Stage, or "Idle"
  chunk,            \* bytes asked for in one read
  offset,           \* offset of the pending read
  remaining_reads,  \* reads the machine still allows
  buffer,           \* bytes read so far
  messages,         \* write fragments not yet sent; the first is pending
  budget,           \* max_exchanges
  used,             \* exchanges of the current operation
  outcome,          \* how the last operation ended
  stored,           \* card: the array
  temporary,        \* card: the fragments of an uncommitted write
  expected,         \* card: its announced total, or 0
  pinSet,           \* card: writes need a token
  faulty            \* card: it may misbehave

machine == <<op, data, token, chunk>>

card == <<stored, temporary, expected>>

fixed == <<pinSet, faulty>>

vars == <<machine, stage, offset, remaining_reads, buffer, messages, budget, used, outcome,
          card, fixed>>

Becomes(c) == stored' = c[1] /\ temporary' = c[2] /\ expected' = c[3]

Smaller(a, b) == IF a <= b THEN a ELSE b

Minus(a, b) == IF a >= b THEN a - b ELSE 0

Init ==
  /\ op = "none" /\ data = <<>> /\ token = Nothing /\ chunk = 1 /\ stage = "Idle"
  /\ offset = 0 /\ remaining_reads = 0 /\ buffer = <<>> /\ messages = <<>>
  /\ budget = 0 /\ used = 0 /\ outcome = "none"
  /\ stored \in Initially /\ temporary = <<>> /\ expected = 0
  /\ pinSet \in BOOLEAN /\ faulty \in BOOLEAN

-----------------------------------------------------------------------------
(* Construction                                                            *)

(* Faulty: the MAC of every fragment covers offset 0.                      *)
set_messageFixedOffset(fragment, at, total, tok) ==
  [fragment |-> fragment, offset |-> at, total |-> total,
   auth |-> IF tok = Nothing THEN Nothing ELSE <<tok, 0, fragment>>]

(* A set message; pinUvAuthParam is the MAC of the offset and the fragment.*)
set_message(fragment, at, total, tok) ==
  [fragment |-> fragment, offset |-> at, total |-> total,
   auth |-> IF tok = Nothing THEN Nothing ELSE <<tok, at, fragment>>]

(* Faulty: the last fragment is lost if it is shorter than the others.     *)
FragmentsWhole(a, size, tok) ==
  [i \in 1 .. (IF Len(a) < size THEN 1 ELSE Len(a) \div size) |->
     LET at == (i - 1) * size IN
     set_message(SubSeq(a, at + 1, Smaller(at + size, Len(a))), at,
                 IF at = 0 THEN Len(a) ELSE Nothing, tok)]

(* The messages of an array, in fragments of at most size bytes.           *)
Fragments(a, size, tok) ==
  [i \in 1 .. (Len(a) + size - 1) \div size |->
     LET at == (i - 1) * size IN
     set_message(SubSeq(a, at + 1, Smaller(at + size, Len(a))), at,
                 IF at = 0 THEN Len(a) ELSE Nothing, tok)]

Begin(kind, exchanges) ==
  /\ stage = "Idle"
  /\ op' = kind /\ stage' = "Select" /\ buffer' = <<>>
  /\ budget' = exchanges /\ used' = 1 /\ outcome' = "none"
  /\ UNCHANGED <<card, fixed>>

read_array(response, exchanges) ==
  LET size == Smaller(DefaultFragment, Minus(response, ReadOverhead)) IN
  /\ size > 0
  /\ Begin("read", exchanges)
  /\ chunk' = size /\ offset' = 0 /\ remaining_reads' = Minus(exchanges, 1)
  /\ data' = <<>> /\ token' = Nothing /\ messages' = <<>>

(* select_then with one get.                                               *)
read_chunk(at, length, exchanges) ==
  /\ length \in 1 .. DefaultFragment
  /\ Begin("chunk", exchanges)
  /\ chunk' = length /\ offset' = at /\ remaining_reads' = 0
  /\ data' = <<>> /\ token' = Nothing /\ messages' = <<>>

write_array(a, tok, input, exchanges) ==
  LET size == Smaller(DefaultFragment, Minus(input, WriteOverhead)) IN
  /\ Len(a) \in MinArray .. MaxArray
  /\ size > 0
  /\ Len(Fragments(a, size, tok)) <= Minus(exchanges, 1)
  /\ Begin("write", exchanges)
  /\ data' = a /\ token' = tok /\ messages' = Fragments(a, size, tok)
  /\ chunk' = 1 /\ offset' = 0 /\ remaining_reads' = 0

-----------------------------------------------------------------------------
(* The authenticator (external): ctap_large_blobs.                         *)

Status(code, after) == [status |-> code, card |-> after]

MacValid(m) == m.auth = <<CurrentToken, m.offset, m.fragment>>

(* The fragment is the next one and announces what it must.                *)
SequenceStatus(m) ==
  CASE m.offset = 0 /\ m.total = Nothing -> "02"
    [] m.offset = 0 /\ m.total # Nothing /\ m.total < MinArray -> "02"
    [] m.offset = 0 /\ m.total # Nothing /\ m.total > MaxArray -> "18"
    [] m.offset > 0 /\ m.total # Nothing -> "02"
    [] m.offset > 0 /\ m.total = Nothing /\ (expected = 0 \/ m.offset # Len(temporary)) -> "04"
    [] OTHER -> "00"

(* set: the last fragment commits the temporary file if its trailer fits.  *)
ExecuteSet(m) ==
  LET file  == IF m.offset = 0 THEN m.fragment ELSE temporary \o m.fragment
      total == IF m.offset = 0 THEN m.total ELSE expected IN
  CASE pinSet /\ m.auth = Nothing -> Status("36", card)
    [] pinSet /\ m.auth # Nothing /\ ~MacValid(m) -> Status("33", card)
    [] (pinSet => MacValid(m)) /\ SequenceStatus(m) # "00" -> Status(SequenceStatus(m), card)
    [] OTHER ->
         CASE Len(file) < total -> Status("00", <<stored, file, total>>)
           [] Len(file) = total /\ IsSealed(file) -> Status("00", <<file, <<>>, 0>>)
           [] OTHER -> Status("3d", <<stored, <<>>, 0>>)

(* get clamps to the array.                                                *)
ExecuteGet(at, length) ==
  IF at > Len(stored) THEN [status |-> "02", bytes |-> <<>>]
  ELSE [status |-> "00", bytes |-> SubSeq(stored, at + 1, Smaller(at + length, Len(stored)))]

(* The substrings that may come back: what is stored, or anything.         *)
Gets ==
  {ExecuteGet(offset, chunk)}
    \cup (IF faulty
          THEN {[status |-> "00", bytes |-> [i \in 1 .. n |-> Nothing]] : n \in 0 .. chunk + 1}
          ELSE {})

-----------------------------------------------------------------------------
(* The machines                                                            *)

(* Faulty: an answer that cannot be parsed starts the operation over.      *)
FinishRetry(how) ==
  /\ stage' = (IF how = "InvalidResponse" THEN "Select" ELSE "Idle")
  /\ outcome' = (IF how = "InvalidResponse" THEN "none" ELSE how)
  /\ used' = 1 /\ UNCHANGED <<messages, offset, remaining_reads>>

(* The operation drops its machine.                                        *)
Finish(how) ==
  /\ stage' = "Idle" /\ outcome' = how
  /\ used' = 0 /\ messages' = <<>> /\ offset' = 0 /\ remaining_reads' = 0

(* Exchanges of a set message, which the engine chains if it is long.      *)
Cost(m) == (Len(m.fragment) + WriteOverhead + MessageBytes - 1) \div MessageBytes

(* Operation::issue: a command that would exceed the budget ends the       *)
(* operation before the card can complete it.                              *)
Issue(cost, fragments, at, reads) ==
  \/ used + cost > budget /\ Finish("Budget")
  \/ /\ used + cost <= budget
     /\ stage' = "Exchange" /\ used' = used + cost /\ UNCHANGED outcome
     /\ messages' = fragments /\ offset' = at /\ remaining_reads' = reads

(* next in Stage::Select.                                                  *)
Selected ==
  /\ stage = "Select"
  /\ Issue(IF op = "write" THEN Cost(messages[1]) ELSE 1, messages, offset, remaining_reads)
  /\ UNCHANGED <<machine, buffer, budget, card, fixed>>

(* A short or empty substring ends the array; read_chunk reads only one.   *)
ReadEnds(bytes) == op = "chunk" \/ Len(bytes) < chunk

Fits(bytes) == Len(buffer) + Len(bytes) <= MaxArray

(* ReadArray::next in Stage::Exchange, for a substring; read_chunk takes   *)
(* it as it comes.  The machine's own count of reads starts one above what *)
(* the budget leaves for further reads, so that the budget ends first.     *)
Substring(bytes) ==
  \/ /\ Len(bytes) > chunk /\ op = "read"
     /\ Finish("InvalidResponse") /\ UNCHANGED buffer
  \/ /\ Len(bytes) <= chunk /\ op = "read" /\ ~Fits(bytes)
     /\ Finish("LimitExceeded") /\ UNCHANGED buffer
  \/ /\ op = "read" => Len(bytes) <= chunk /\ Fits(bytes)
     /\ buffer' = buffer \o bytes
     /\ \/ /\ ReadEnds(bytes) \/ remaining_reads = 0
           /\ Finish(IF ReadEnds(bytes) THEN "Done" ELSE "LimitExceeded")
        \/ /\ ~ReadEnds(bytes) /\ remaining_reads > 0
           /\ Issue(1, <<>>, offset + chunk, remaining_reads - 1)

(* The answer to a get.                                                    *)
ReadAnswered ==
  /\ stage = "Exchange" /\ op \in {"read", "chunk"}
  /\ \E g \in Gets :
       \/ g.status # "00" /\ Finish(g.status) /\ UNCHANGED buffer
       \/ g.status = "00" /\ Substring(g.bytes)
  /\ UNCHANGED <<machine, budget, card, fixed>>

(* WriteArray::next_fragment.                                              *)
NextFragment ==
  \/ Len(messages) = 1 /\ Finish("Done")
  \/ Len(messages) > 1 /\ Issue(Cost(messages[2]), Tail(messages), offset, remaining_reads)

(* WriteArray::next in Stage::Exchange, for the answer to a set.           *)
WriteAnswered ==
  LET answer == ExecuteSet(messages[1]) IN
  /\ stage = "Exchange" /\ op = "write"
  /\ Becomes(answer.card)
  /\ \/ answer.status # "00" /\ Finish(answer.status)
     \/ answer.status = "00" /\ NextFragment
  /\ UNCHANGED <<machine, buffer, budget, fixed>>

(* ensure_success(Phase::Select).                                          *)
SelectRefused ==
  /\ stage = "Select"
  /\ Finish("UnsupportedDevice")
  /\ UNCHANGED <<machine, buffer, budget, card, fixed>>

(* A misbehaving card: an error, a payload no map or not empty, or an      *)
(* empty success for a set that it did not execute.                        *)
Misanswered ==
  /\ faulty /\ stage = "Exchange"
  /\ \/ \E how \in {"UnexpectedStatusWord", "InvalidResponse"} : Finish(how)
     \/ op = "write" /\ NextFragment
  /\ UNCHANGED <<machine, buffer, budget, card, fixed>>

(* The operation ends without an answer: the transport broke, the caller   *)
(* dropped it, or the budget ran out while a long answer was collected.    *)
(* The command was executed or not, and the card may have lost power.      *)
Abandoned ==
  /\ stage # "Idle"
  /\ Finish("Abandoned")
  /\ \E executed \in {card} \cup (IF stage = "Exchange" /\ op = "write"
                                  THEN {ExecuteSet(messages[1]).card} ELSE {}) :
       Becomes(executed) \/ Becomes(<<executed[1], <<>>, 0>>)
  /\ UNCHANGED <<machine, buffer, budget, fixed>>

-----------------------------------------------------------------------------
Call ==
  \/ \E r \in ResponseLimits, x \in ExchangeLimits : read_array(r, x)
  \/ \E at \in 0 .. MaxArray, n \in 1 .. DefaultFragment, x \in ExchangeLimits : read_chunk(at, n, x)
  \/ \E a \in Arrays, t \in Tokens \cup {Nothing}, i \in InputLimits, x \in ExchangeLimits :
       write_array(a, t, i, x)

Respond ==
  Selected \/ SelectRefused \/ ReadAnswered \/ WriteAnswered \/ Misanswered \/ Abandoned

Next == Call \/ Respond

(* Whoever drives an operation answers its pending command or drops it.    *)
Spec == Init /\ [][Next]_vars /\ WF_vars(Respond)

-----------------------------------------------------------------------------
(* An authenticator as documented stores one array: read_array returns it  *)
(* whole, write_array replaces it whole or, when it fails, perhaps not at  *)
(* all, and no failure at any fragment leaves a mixture.  Nothing is       *)
(* promised of a faulty one, whose store stands for any.                   *)
SealedArrays == {a \in Arrays \cup Initially : IsSealed(a)}

Store ==
  INSTANCE BlobStore WITH
    Sealed <- SealedArrays,
    stored <- IF faulty THEN CHOOSE a \in SealedArrays : TRUE ELSE stored,
    call   <- IF stage = "Idle" \/ faulty THEN Nothing ELSE [op |-> op, array |-> data],
    answer <- IF stage # "Idle" \/ op = "none" \/ faulty THEN Nothing
              ELSE [how   |-> IF outcome = "Done" THEN "Done" ELSE "Failed",
                    bytes |-> IF outcome = "Done" /\ op # "write" THEN buffer ELSE <<>>]

ImplementsBlobStore == Store!Spec

(* A documented authenticator refuses a write only for what the caller     *)
(* supplied: no token or a wrong one although a PIN is set, or an array    *)
(* whose trailer is not its digest.  Offsets, totals and MACs that the     *)
(* fragments carry are never at fault.                                     *)
RefusalExplained ==
  ~faulty /\ op = "write" /\ stage = "Idle" =>
    /\ outcome = "36" => pinSet /\ token = Nothing
    /\ outcome = "33" => pinSet /\ token \in Tokens \ {CurrentToken}
    /\ outcome = "3d" => ~IsSealed(data)
    /\ outcome \notin {"02", "04", "18"}

(* Whatever the authenticator answers, full substrings for ever included,  *)
(* every operation ends.                                                   *)
Terminates == stage # "Idle" ~> stage = "Idle"
=============================================================================
