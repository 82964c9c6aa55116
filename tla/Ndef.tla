-------------------------------- MODULE Ndef --------------------------------
(***************************************************************************)
(* canokey-ndef: reading and replacing the NDEF message of a card.         *)
(*                                                                         *)
(* One operation runs at a time (the application holds an exclusive lease) *)
(* and may end at any command: the card refuses it, answers nonsense, or   *)
(* the operation is abandoned because the transport broke, the card lost   *)
(* power or the application cancelled, with the pending command executed,  *)
(* not executed, or, for a message chunk, half executed.  Operations then  *)
(* follow each other on whatever file the card has been left with.         *)
(*                                                                         *)
(* A step is one logical command and its response; module CardExchange     *)
(* shows what the engine makes of one.                                     *)
(***************************************************************************)
EXTENDS Integers, Sequences

CONSTANTS
  Byte,               \* the values of a message byte
  FileArea,           \* bytes the data file has room for after NLEN
  MaxMessageLength,   \* MAX_MESSAGE_LENGTH
  ReadChunk,          \* read_chunk
  WriteChunk,         \* write_chunk
  MaxExchanges,       \* OperationLimits.max_exchanges
  Messages,           \* the messages the application may write
  Paging              \* the steps whose answer a card may page with 61xx

ASSUME NdefAssumption ==
  /\ FileArea \in Nat
  /\ MaxMessageLength \in Nat
  /\ ReadChunk \in Nat \ {0}
  /\ WriteChunk \in Nat \ {0}
  /\ MaxExchanges \in Nat \ {0}
  /\ Messages \subseteq Seq(Byte)
  /\ Paging \subseteq {"SelectApplet", "SelectCc", "ReadCc", "SelectNdef", "ReadNlen", "Message"}

VARIABLES
  op,          \* the current or last operation
  step,        \* the machine's step, whose command is pending, or "Idle"
  message,     \* the message to write, or the bytes read so far
  offset,      \* message bytes already transferred
  remaining,   \* message bytes still to read
  limit,       \* the read machine's max_message
  used,        \* exchanges of the current operation
  outcome,     \* how the last operation ended
  fileSize,    \* card: maximum file size in the CC
  readOnly,    \* card: write access in the CC
  pages,       \* card: pages its answers
  nlen,        \* card: the length field of the data file
  bytes,       \* card: the message area of the data file
  requested    \* history: the messages the file may show, the one before the
               \* last write began and the one it writes

data == <<op, message, offset, remaining, limit>>

ccVars == <<fileSize, readOnly, pages>>

fileVars == <<nlen, bytes>>

vars == <<step, used, outcome, data, ccVars, fileVars, requested>>

Smaller(a, b) == IF a <= b THEN a ELSE b

(* The message a reader finds: the first nlen bytes of the area.           *)
Visible == [i \in 1 .. nlen |-> bytes[i]]

(* The file shows m.                                                       *)
Shows(m) == nlen = Len(m) /\ \A i \in 1 .. nlen : bytes[i] = m[i]

Init ==
  /\ op = "none" /\ step = "Idle" /\ message = <<>> /\ offset = 0
  /\ remaining = 0 /\ limit = 0 /\ used = 0 /\ outcome = "none"
  /\ fileSize \in 0 .. FileArea + 2
  /\ readOnly \in BOOLEAN /\ pages \in BOOLEAN
  /\ nlen \in 0 .. FileArea
  /\ bytes \in [1 .. FileArea -> Byte]
  /\ requested = {Visible}

-----------------------------------------------------------------------------
(* Construction: the exchanges of the longest run must fit the budget.     *)

Chunks(n, chunk) == (n + chunk - 1) \div chunk

(* Faulty: accepts a run one exchange longer than the budget.              *)
BeginOffByOne(kind, m, exchanges) ==
  /\ step = "Idle"
  /\ exchanges <= MaxExchanges + 1
  /\ op' = kind /\ step' = "SelectApplet" /\ message' = m
  /\ offset' = 0 /\ remaining' = 0 /\ limit' = MaxMessageLength
  /\ used' = 1 /\ outcome' = "none"
  /\ UNCHANGED <<ccVars, fileVars>>

Begin(kind, m, exchanges) ==
  /\ step = "Idle"
  /\ exchanges <= MaxExchanges
  /\ op' = kind /\ step' = "SelectApplet" /\ message' = m
  /\ offset' = 0 /\ remaining' = 0 /\ limit' = MaxMessageLength
  /\ used' = 1 /\ outcome' = "none"
  /\ UNCHANGED <<ccVars, fileVars>>

ReadCapability == Begin("capability", <<>>, 3) /\ UNCHANGED requested

ReadMessage ==
  Begin("read", <<>>, 5 + Chunks(MaxMessageLength, ReadChunk)) /\ UNCHANGED requested

WriteMessage(m) ==
  /\ Len(m) <= MaxMessageLength
  /\ Begin("write", m, 6 + Chunks(Len(m), WriteChunk))
  /\ requested' = {Visible, m}

-----------------------------------------------------------------------------
(* The machines                                                            *)

Finish(how) == step' = "Idle" /\ outcome' = how /\ UNCHANGED used

(* Expose the command of the next step.                                    *)
Issue(next) ==
  IF used >= MaxExchanges
  THEN Finish("Budget")
  ELSE step' = next /\ used' = used + 1 /\ UNCHANGED outcome

(* parse_cc                                                                *)
ValidCc == fileSize >= 2

MaxMessage == Smaller(fileSize - 2, MaxMessageLength)

SelectDone ==
  /\ step \in {"SelectApplet", "SelectCc"}
  /\ Issue(IF step = "SelectApplet" THEN "SelectCc" ELSE "ReadCc")
  /\ UNCHANGED <<data, ccVars, fileVars, requested>>

(* A write fails here or not before its first UPDATE.                      *)
ReadCcDone ==
  /\ step = "ReadCc"
  /\ \/ ~ValidCc /\ Finish("InvalidResponse") /\ UNCHANGED limit
     \/ ValidCc /\ op = "capability" /\ Finish("Done") /\ UNCHANGED limit
     \/ ValidCc /\ op = "read" /\ Issue("SelectNdef") /\ limit' = MaxMessage
     \/ /\ ValidCc /\ op = "write" /\ readOnly
        /\ Finish("SecurityStatusNotSatisfied") /\ UNCHANGED limit
     \/ /\ ValidCc /\ op = "write" /\ ~readOnly /\ Len(message) > MaxMessage
        /\ Finish("LimitExceeded") /\ UNCHANGED limit
     \/ /\ ValidCc /\ op = "write" /\ ~readOnly /\ Len(message) <= MaxMessage
        /\ Issue("SelectNdef") /\ UNCHANGED limit
  /\ UNCHANGED <<op, message, offset, remaining, ccVars, fileVars, requested>>

(* Faulty: rewrites the message in place.                                  *)
SelectNdefDoneInPlace ==
  /\ step = "SelectNdef"
  /\ Issue(IF op = "read" THEN "ReadNlen" ELSE IF message = <<>> THEN "FinalLength" ELSE "Message")
  /\ UNCHANGED <<data, ccVars, fileVars, requested>>

SelectNdefDone ==
  /\ step = "SelectNdef"
  /\ Issue(IF op = "read" THEN "ReadNlen" ELSE "ZeroLength")
  /\ UNCHANGED <<data, ccVars, fileVars, requested>>

ReadNlenDone ==
  /\ step = "ReadNlen"
  /\ \/ nlen > limit /\ Finish("InvalidResponse") /\ UNCHANGED remaining
     \/ nlen = 0 /\ Finish("Done") /\ UNCHANGED remaining
     \/ 0 < nlen /\ nlen <= limit /\ Issue("Message") /\ remaining' = nlen
  /\ UNCHANGED <<op, message, offset, limit, ccVars, fileVars, requested>>

(* Faulty: every chunk is read from the start of the message.              *)
ReadChunkDoneFromStart ==
  LET want == Smaller(remaining, ReadChunk) IN
  /\ step = "Message" /\ op = "read"
  /\ message' = message \o [i \in 1 .. want |-> bytes[i]]
  /\ remaining' = remaining - want
  /\ offset' = offset + want
  /\ IF remaining = want THEN Finish("Done") ELSE Issue("Message")
  /\ UNCHANGED <<op, limit, ccVars, fileVars, requested>>

(* One READ BINARY of the message.                                         *)
ReadChunkDone ==
  LET want == Smaller(remaining, ReadChunk) IN
  /\ step = "Message" /\ op = "read"
  /\ message' = message \o [i \in 1 .. want |-> bytes[offset + i]]
  /\ remaining' = remaining - want
  /\ offset' = offset + want
  /\ IF remaining = want THEN Finish("Done") ELSE Issue("Message")
  /\ UNCHANGED <<op, limit, ccVars, fileVars, requested>>

(* What an UPDATE BINARY of n message bytes leaves in the area.            *)
Overlay(n) ==
  [i \in 1 .. FileArea |-> IF offset < i /\ i <= offset + n THEN message[i] ELSE bytes[i]]

Take == Smaller(Len(message) - offset, WriteChunk)

ZeroLengthDone ==
  /\ step = "ZeroLength" /\ ~readOnly
  /\ nlen' = 0
  /\ Issue(IF message = <<>> THEN "FinalLength" ELSE "Message")
  /\ UNCHANGED <<data, bytes, ccVars, requested>>

WriteChunkDone ==
  /\ step = "Message" /\ op = "write" /\ ~readOnly
  /\ bytes' = Overlay(Take)
  /\ offset' = offset + Take
  /\ Issue(IF offset + Take = Len(message) THEN "FinalLength" ELSE "Message")
  /\ UNCHANGED <<op, message, remaining, limit, nlen, ccVars, requested>>

FinalLengthDone ==
  /\ step = "FinalLength" /\ ~readOnly
  /\ nlen' = Len(message)
  /\ Finish("Done")
  /\ UNCHANGED <<data, bytes, ccVars, requested>>

(* The card pages its answer: one more exchange for the same command.      *)
Paged ==
  /\ pages /\ step \in Paging /\ (step = "Message" => op = "read")
  /\ Issue(step)
  /\ UNCHANGED <<data, ccVars, fileVars, requested>>

(* The card answers an error status, or data of the wrong length or shape. *)
Refused ==
  /\ step # "Idle"
  /\ \E how \in {"Status", "InvalidResponse"} : Finish(how)
  /\ UNCHANGED <<data, ccVars, fileVars, requested>>

(* The operation is abandoned; the pending command did what it did.        *)
Abandoned ==
  /\ step # "Idle"
  /\ \/ UNCHANGED fileVars
     \/ step = "ZeroLength" /\ ~readOnly /\ nlen' = 0 /\ UNCHANGED bytes
     \/ /\ step = "Message" /\ op = "write" /\ ~readOnly
        /\ \E n \in 1 .. Take : bytes' = Overlay(n)
        /\ UNCHANGED nlen
     \/ step = "FinalLength" /\ ~readOnly /\ nlen' = Len(message) /\ UNCHANGED bytes
  /\ Finish("Abandoned")
  /\ UNCHANGED <<data, ccVars, requested>>

(* Between operations the owner may toggle the write access (Admin).       *)
ToggleReadOnly ==
  /\ step = "Idle"
  /\ readOnly' = ~readOnly
  /\ UNCHANGED <<step, used, outcome, data, fileSize, pages, fileVars, requested>>

Next ==
  \/ ReadCapability \/ ReadMessage \/ \E m \in Messages : WriteMessage(m)
  \/ SelectDone \/ ReadCcDone \/ SelectNdefDone \/ ReadNlenDone \/ ReadChunkDone
  \/ ZeroLengthDone \/ WriteChunkDone \/ FinalLengthDone
  \/ Paged \/ Refused \/ Abandoned \/ ToggleReadOnly

Spec == Init /\ [][Next]_vars

-----------------------------------------------------------------------------
(* Every variable has its type; the file keeps its size.                   *)
TypeOK ==
  /\ op \in {"none", "capability", "read", "write"}
  /\ step \in {"Idle", "SelectApplet", "SelectCc", "ReadCc", "SelectNdef", "ReadNlen",
               "ZeroLength", "Message", "FinalLength"}
  /\ message \in Seq(Byte)
  /\ offset \in Nat /\ remaining \in Nat /\ limit \in Nat /\ used \in Nat
  /\ outcome \in {"none", "Done", "Status", "InvalidResponse", "LimitExceeded",
                  "SecurityStatusNotSatisfied", "Abandoned", "Budget"}
  /\ fileSize \in 0 .. FileArea + 2
  /\ readOnly \in BOOLEAN /\ pages \in BOOLEAN
  /\ nlen \in 0 .. FileArea
  /\ bytes \in [1 .. FileArea -> Byte]
  /\ requested \subseteq Seq(Byte)

(* However often writes are interrupted, the file shows no message, the    *)
(* whole message it showed before the last write, or the whole new one:    *)
(* never a length over a partly rewritten area (the crash consistency      *)
(* write_message promises).                                                *)
NoTornMessage == nlen = 0 \/ \E m \in requested : Shows(m)

(* A completed write is visible, and a completed read returned the visible *)
(* message, no longer than the CC allows whatever an earlier writer left   *)
(* in NLEN.                                                                *)
OutcomeReal ==
  step = "Idle" /\ outcome = "Done" =>
    /\ op \in {"read", "write"} => Shows(message)
    /\ op = "read" => ValidCc /\ nlen <= MaxMessage

(* The budget check at construction is enough for a card that answers      *)
(* every command at once: no operation then runs out of exchanges on the   *)
(* way, least of all between two updates.                                  *)
BudgetSuffices == ~pages => outcome # "Budget"
=============================================================================
