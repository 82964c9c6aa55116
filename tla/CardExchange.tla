---------------------------- MODULE CardExchange ----------------------------
(***************************************************************************)
(* An operation, the application that drives it, and a card, connected by  *)
(* a transport that may break between any two steps.                       *)
(*                                                                         *)
(* The machine inside the operation is Sequence (canokey-piv and           *)
(* canokey-ctap use the same one): it sends the logical commands of Script *)
(* in order, stops at the first one the card refuses, and parses the last. *)
(* The application follows the contract of Step::Exchange: it sends the    *)
(* pending command once, feeds the response to advance, and may cancel at  *)
(* any time, also with a command in flight.                                *)
(*                                                                         *)
(* The card is external code, modelled from what the engine relies on: it  *)
(* joins chained fragments, runs a command when its last fragment arrives, *)
(* and serves the reply in pages of its own choosing that fit Le.  Cards   *)
(* and faults are fixed at the start: in a calm run the transport works,   *)
(* the card refuses nothing and the application does not give up.          *)
(***************************************************************************)
EXTENDS Operation, FiniteSets

CONSTANTS
  Scripts,     \* operations: their logical commands, in order
  Replies,     \* the replies a card may have for one command
  Dialects(_)  \* the cards for a script: "Iso", "Oath" or "OathLegacy"

(* make and single validate every command before the operation exists.  No *)
(* sequence sets the chaining bit itself, and what is paged by a card that *)
(* does not mark its last page is polled for more.                         *)
ASSUME ScriptAssumption ==
  /\ Replies \subseteq Seq(Byte)
  /\ \A s \in Scripts :
       /\ s \in Seq(MachineCommand) /\ s # <<>>
       /\ \A i \in 1 .. Len(s) : Encodable(s[i]) /\ ~s[i].claChained
       /\ \A i \in 1 .. Len(s) : s[i].header \notin {GetResponse, SendRemaining}
       /\ Dialects(s) \subseteq {"Iso", "Oath", "OathLegacy"}
       /\ "OathLegacy" \in Dialects(s) =>
            \A i \in 1 .. Len(s) :
              s[i].continuation = "None" \/ (s[i].continuation = "Oath" /\ s[i].probeAfterSuccess)

VARIABLES
  script,      \* the commands of this operation
  calm,        \* nothing goes wrong
  link,        \* the transport: idle, a command or a response in flight, down
  dialect,     \* how this card pages a reply
  reply,       \* what this card answers to each command
  chain,       \* fragments of a command received so far
  remaining,   \* the part of the current reply not yet served
  executed,    \* history: the commands the card has run
  delivered    \* history: the responses the machine was handed

run == <<script, calm, dialect, reply>>

cardVars == <<run, chain, remaining, executed>>

allVars == <<vars, link, cardVars, delivered>>

Headers == {script[i].header : i \in 1 .. Len(script)}

(* Commands without a continuation are answered in one response.           *)
Unpaged ==
  {script[i].header : i \in {j \in 1 .. Len(script) : script[j].continuation = "None"}}

Idle == [tag |-> "idle"]

Down == [tag |-> "down"]

CEInit ==
  /\ Init
  /\ link = Idle
  /\ script \in Scripts /\ calm \in BOOLEAN
  /\ dialect \in Dialects(script)
  /\ reply \in [Headers -> Replies]
  /\ \A h \in Unpaged : Len(reply[h]) <= ResponseCapacity
  /\ chain = <<>>
  /\ remaining = <<>>
  /\ executed = <<>>
  /\ delivered = <<>>

-----------------------------------------------------------------------------
(* What Sequence::next may return after n responses, the last of them d:   *)
(* every command but the last must succeed, the last one is the parser's.  *)
SequenceNext(n, d) ==
  IF n < Len(script)
  THEN {IF IsSuccess(d) THEN [tag |-> "Command", command |-> script[n + 1]]
                        ELSE [tag |-> "Error"]}
  ELSE {[tag |-> "Done"]} \cup (IF calm THEN {} ELSE {[tag |-> "Error"]})

HostStart ==
  /\ Start([tag |-> "Command", command |-> script[1]])
  /\ UNCHANGED <<link, cardVars, delivered>>

(* The application exchanges command() once.                               *)
HostSend ==
  /\ state = "AwaitingResponse" /\ link = Idle
  /\ link' = [tag |-> "command", apdu |-> conversation.current]
  /\ UNCHANGED <<vars, cardVars, delivered>>

HostAdvance ==
  /\ state = "AwaitingResponse" /\ link.tag = "response"
  /\ LET d == Delivered(conversation, link.apdu) IN
     /\ \E act \in SequenceNext(Len(delivered) + 1, d) : Advance(link.apdu, act)
     /\ delivered' = IF Ends(conversation, link.apdu) /\ responseBytes' <= MaxTotalResponseBytes
                     THEN Append(delivered, d) ELSE delivered
  /\ link' = Idle
  /\ UNCHANGED cardVars

(* cancel performs no I/O: what is in flight stays in flight.              *)
HostCancel == ~calm /\ Cancel /\ UNCHANGED <<link, cardVars, delivered>>

HostTake == TakeResult /\ UNCHANGED <<link, cardVars, delivered>>

(* The transport breaks; the application learns it, the operation does not.*)
Break ==
  /\ ~calm
  /\ link.tag \in {"command", "response"}
  /\ link' = Down
  /\ UNCHANGED <<vars, cardVars, delivered>>

-----------------------------------------------------------------------------
(* The card                                                                *)

Reads == {GetResponse} \cup
  {script[i].header : i \in {j \in 1 .. Len(script) : script[j].correctLe}}

(* SW2 of 61xx and 6Cxx: 00 stands for 256, and for more.                  *)
Announced(n) == IF n < 256 THEN n ELSE 0

Page(data, n, more) ==
  [data |-> SubSeq(data, 1, n),
   sw1 |-> IF more /\ dialect # "OathLegacy" THEN MoreSw1 ELSE SuccessSw1,
   sw2 |-> IF more /\ dialect # "OathLegacy" THEN Announced(Len(data) - n) ELSE 0]

(* Serve a page of what is left of a reply.  Without Le an ISO card may    *)
(* announce the reply before sending any of it.                            *)
Serve(c, data) ==
  \E n \in 0 .. MinOf(Len(data), IF c.le = Absent THEN ResponseCapacity ELSE c.le) :
    /\ c.header \in Unpaged => n = Len(data)
    /\ n = 0 => data = <<>> \/ (dialect = "Iso" /\ c.le = Absent)
    /\ link' = [tag |-> "response", apdu |-> Page(data, n, n < Len(data))]
    /\ remaining' = SubSeq(data, n + 1, Len(data))

CardFragment(c) ==
  /\ c.chained
  /\ chain' = chain \o c.data
  /\ remaining' = <<>>
  /\ link' = [tag |-> "response", apdu |-> [data |-> <<>>, sw1 |-> SuccessSw1, sw2 |-> 0]]
  /\ UNCHANGED executed

(* A read whose Le is too large may be answered 6Cxx, before it is run.    *)
WrongLe(c, data) ==
  /\ c.header \in Reads /\ chain = <<>>
  /\ c.le > Len(data) /\ data # <<>> /\ Len(data) <= 256
  /\ link' = [tag |-> "response",
              apdu |-> [data |-> <<>>, sw1 |-> WrongLeSw1, sw2 |-> Announced(Len(data))]]
  /\ UNCHANGED <<chain, remaining, executed>>

(* Another command may have run when its Le turns out to be wrong.         *)
LateWrongLe(c, data) ==
  /\ ~calm /\ c.header \notin Reads
  /\ link' = [tag |-> "response",
              apdu |-> [data |-> <<>>, sw1 |-> WrongLeSw1, sw2 |-> Announced(Len(data))]]
  /\ remaining' = <<>>

CardExecute(c) ==
  /\ ~c.chained /\ c.header \in Headers
  /\ \/ WrongLe(c, reply[c.header])
     \/ /\ executed' = Append(executed, [header |-> c.header, data |-> chain \o c.data])
        /\ chain' = <<>>
        /\ \/ Serve(c, reply[c.header])
           \/ LateWrongLe(c, reply[c.header])

CardContinue(c) ==
  /\ c.header \in {GetResponse, SendRemaining}
  /\ \/ WrongLe(c, remaining)
     \/ /\ remaining # <<>>
        /\ Serve(c, remaining)
        /\ UNCHANGED <<chain, executed>>
     \/ /\ remaining = <<>>
        /\ link' = [tag |-> "response", apdu |-> [data |-> <<>>, sw1 |-> 105, sw2 |-> 133]]
        /\ UNCHANGED <<chain, remaining, executed>>

(* The card may refuse anything with 6982, a continuation included; a card *)
(* that marks its last page may also answer 6985 in the middle of a list.  *)
CardRefuse(c) ==
  /\ ~calm
  /\ \E sw2 \in {130} \cup (IF dialect = "Oath" THEN {133} ELSE {}) :
       link' = [tag |-> "response", apdu |-> [data |-> <<>>, sw1 |-> 105, sw2 |-> sw2]]
  /\ chain' = <<>>
  /\ remaining' = <<>>
  /\ UNCHANGED executed

CardStep ==
  /\ link.tag = "command"
  /\ \/ CardFragment(link.apdu)
     \/ CardExecute(link.apdu)
     \/ CardContinue(link.apdu)
     \/ CardRefuse(link.apdu)
  /\ UNCHANGED <<vars, run, delivered>>

CENext ==
  \/ HostStart \/ HostSend \/ HostAdvance \/ HostCancel \/ HostTake
  \/ Break \/ CardStep

(* An application that goes on starts, sends and advances, and a card      *)
(* answers what reaches it.                                                *)
GoOn == HostStart \/ HostSend \/ HostAdvance \/ HostTake \/ CardStep

CESpec == CEInit /\ [][CENext]_allVars /\ WF_allVars(GoOn)

-----------------------------------------------------------------------------
(* Whatever breaks and whenever the application gives up, the card has run *)
(* a prefix of the script: every command at most once, in order, and with  *)
(* exactly the data of the logical command, however it was split.  What    *)
(* the host takes as confirmed has happened on the card, and at most one   *)
(* command whose answer is missing happened besides.                       *)
ExecutedInOrder ==
  LET confirmed == Cardinality({i \in 1 .. Len(delivered) : IsSuccess(delivered[i])}) IN
  /\ confirmed <= Len(executed) /\ Len(executed) <= confirmed + 1
  /\ Len(executed) <= Len(script)
  /\ \A i \in 1 .. Len(executed) :
       executed[i] = [header |-> script[i].header, data |-> script[i].data]

(* A successful response handed to the machine is the card's whole reply   *)
(* to that command: no page lost, repeated, reordered or kept from a       *)
(* corrected attempt.                                                      *)
ExactReplies ==
  \A i \in 1 .. Len(delivered) :
    IsSuccess(delivered[i]) => delivered[i].data = reply[script[i].header]

(* With a transport that works and a card that refuses nothing, the        *)
(* operation completes.                                                    *)
Completes == calm ~> state = "ResultTaken"
=============================================================================
