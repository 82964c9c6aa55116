---------------------------- MODULE Conversation ----------------------------
(***************************************************************************)
(* The conversation engine of canokey-protocol (operation.rs, apdu.rs):    *)
(* how one logical command becomes one or more physical APDUs, and what    *)
(* each physical response makes of the conversation.                       *)
(*                                                                         *)
(* Everything here is an operator on values; the operation that owns a     *)
(* conversation and drives it is module Operation.  Bytes are members of   *)
(* the set Byte, a header (CLA INS P1 P2) is an opaque value apart from    *)
(* the chaining bit of CLA, and lengths are the real ones: a small channel *)
(* is a small value of MaxCommandBytes or MaxResponseBytes.                *)
(***************************************************************************)
EXTENDS Integers, Sequences

CONSTANTS
  Byte,                   \* the values of a data byte
  Header,                 \* command headers, without the chaining bit
  MaxCommandBytes,        \* ExchangeOptions.max_command_bytes
  MaxResponseBytes,       \* ExchangeOptions.max_response_bytes
  AllowExtended,          \* ExchangeOptions.allow_extended
  MaxTotalResponseBytes,  \* OperationLimits.max_total_response_bytes
  MaxExchanges,           \* OperationLimits.max_exchanges
  MaxInputBytes           \* OperationLimits.max_input_bytes

(* OperationOptions::validate: the options every operation is built with.  *)
ASSUME OptionsAssumption ==
  /\ MaxCommandBytes \in Nat /\ MaxCommandBytes >= 5
  /\ MaxResponseBytes \in Nat /\ MaxResponseBytes >= 3
  /\ AllowExtended \in BOOLEAN
  /\ MaxTotalResponseBytes \in Nat \ {0}
  /\ MaxExchanges \in Nat \ {0}
  /\ MaxInputBytes \in Nat \ {0}

-----------------------------------------------------------------------------
(* ExpectedLength: Absent, or Exact(n) for the natural number n.           *)
Absent == -1

ExpectedLength == Nat \cup {Absent}

GetResponse == "GET RESPONSE"

SendRemaining == "SEND REMAINING"

(* CommandApdu: one complete physical command.  chained is CLA bit 0x10,   *)
(* extended the encoding.                                                  *)
CommandApdu ==
  [header   : Header \cup {GetResponse, SendRemaining},
   chained  : BOOLEAN,
   data     : Seq(Byte),
   le       : ExpectedLength,
   extended : BOOLEAN]

(* LogicalCommand.  claChained says whether the caller's own CLA already   *)
(* has bit 0x10; instruction and probeAfterSuccess belong to Continuation  *)
(* ::Oath.                                                                 *)
LogicalCommand ==
  [header            : Header,
   claChained        : BOOLEAN,
   data              : Seq(Byte),
   le                : ExpectedLength,
   allowChaining     : BOOLEAN,
   allowExtended     : BOOLEAN,
   correctLe         : BOOLEAN,
   continuation      : {"Oath", "Iso7816", "None"},
   instruction       : Nat,
   probeAfterSuccess : BOOLEAN]

(* ResponseApdu: data followed by SW1 SW2.                                 *)
ResponseApdu == [data : Seq(Byte), sw1 : 0 .. 255, sw2 : 0 .. 255]

SuccessSw1 == 144     \* 9000
MoreSw1 == 97         \* 61xx
WrongLeSw1 == 108     \* 6Cxx

IsSuccess(r) == r.sw1 = SuccessSw1 /\ r.sw2 = 0

(* 6985, which ends a speculative OATH poll.                               *)
IsConditionsNotSatisfied(r) == r.sw1 = 105 /\ r.sw2 = 133

(* The length a 61xx or 6Cxx status announces: 00 stands for 256.          *)
AnnouncedLength(r) == IF r.sw2 = 0 THEN 256 ELSE r.sw2

MinOf(a, b) == IF a <= b THEN a ELSE b

(* CommandApdu::encode: the size of the complete encoded command.          *)
EncodedLength(c) ==
  4 + Len(c.data)
    + (IF c.data # <<>> THEN (IF c.extended THEN 3 ELSE 1)
       ELSE (IF c.extended /\ c.le # Absent THEN 1 ELSE 0))
    + (IF c.le = Absent THEN 0 ELSE IF c.extended THEN 2 ELSE 1)

-----------------------------------------------------------------------------
(* ConversationState::new                                                  *)

ResponseCapacity == MaxResponseBytes - 2

(* Faulty: no room left for Le.                                            *)
MaxShortWithoutLe == IF MaxCommandBytes <= 5 THEN 0 ELSE MinOf(255, MaxCommandBytes - 5)

(* Room for Le is reserved in every short fragment.                        *)
MaxShort == IF MaxCommandBytes <= 6 THEN 0 ELSE MinOf(255, MaxCommandBytes - 6)

(* A read that may be corrected anyway asks for what the channel carries.  *)
MayClampLe(l) == l.continuation = "Iso7816" /\ l.correctLe

EffectiveLe(l) ==
  IF l.le > ResponseCapacity /\ MayClampLe(l) THEN ResponseCapacity ELSE l.le

Frame(l, bit, bytes, le, ext) ==
  [header |-> l.header, chained |-> bit, data |-> bytes, le |-> le, extended |-> ext]

ExtendedFrame(l) == Frame(l, l.claChained, l.data, EffectiveLe(l), TRUE)

UsesExtended(l) ==
  /\ l.allowExtended /\ AllowExtended
  /\ Len(l.data) <= 65535
  /\ EncodedLength(ExtendedFrame(l)) <= MaxCommandBytes

FitsOneShort(l) == l.data = <<>> \/ Len(l.data) <= MaxShort

FragmentCount(l) == (Len(l.data) + MaxShort - 1) \div MaxShort

Fragments(l) ==
  [i \in 1 .. FragmentCount(l) |->
     LET last == i = FragmentCount(l) IN
     Frame(l, ~last,
           SubSeq(l.data, (i - 1) * MaxShort + 1, MinOf(i * MaxShort, Len(l.data))),
           IF last THEN EffectiveLe(l) ELSE Absent, FALSE)]

Frames(l) ==
  IF UsesExtended(l) THEN <<ExtendedFrame(l)>>
  ELSE IF FitsOneShort(l) THEN <<Frame(l, l.claChained, l.data, EffectiveLe(l), FALSE)>>
  ELSE Fragments(l)

MayChain(l) ==
  /\ l.allowChaining /\ MaxShort # 0 /\ ~l.claChained
  /\ FragmentCount(l) <= MaxExchanges

(* What new rejects as InvalidArgument: an unknown OATH continuation       *)
(* instruction first; after the input limit, an impossible Le.             *)
BadArgument(l) ==
  \/ l.continuation = "Oath" /\ l.instruction \notin {6, 165}
  \/ Len(l.data) <= MaxInputBytes /\ (l.le = 0 \/ l.le > 65536)

(* What new rejects as LimitExceeded.                                      *)
OverLimit(l) ==
  \/ Len(l.data) > MaxInputBytes
  \/ l.le > ResponseCapacity /\ ~MayClampLe(l)
  \/ ~UsesExtended(l) /\ EffectiveLe(l) > 256
  \/ ~UsesExtended(l) /\ ~FitsOneShort(l) /\ ~MayChain(l)
  \/ EncodedLength(Head(Frames(l))) > MaxCommandBytes

Encodable(l) == ~BadArgument(l) /\ ~OverLimit(l)

ConversationState ==
  [current      : CommandApdu,
   pending      : Seq(CommandApdu),
   corrected    : BOOLEAN,
   correctLe    : BOOLEAN,
   continuation : {"Oath", "Iso7816", "None"},
   probe        : BOOLEAN,
   continuing   : BOOLEAN,
   oathPoll     : BOOLEAN,
   data         : Seq(Byte)]

NewConversation(l) ==
  [current      |-> Head(Frames(l)),
   pending      |-> Tail(Frames(l)),
   corrected    |-> FALSE,
   correctLe    |-> l.correctLe,
   continuation |-> l.continuation,
   probe        |-> l.probeAfterSuccess,
   continuing   |-> FALSE,
   oathPoll     |-> FALSE,
   data         |-> <<>>]

-----------------------------------------------------------------------------
(* ConversationState::advance, one predicate per way a response r can take *)
(* a conversation c, in the order the code tests them, and the state each  *)
(* way leads to.                                                           *)

(* Faulty: corrects Le of commands that do not permit a retry.             *)
CorrectsAnyLe(c, r) ==
  r.sw1 = WrongLeSw1 /\ c.pending = <<>> /\ ~c.corrected

CorrectsLe(c, r) ==
  r.sw1 = WrongLeSw1 /\ c.correctLe /\ c.pending = <<>> /\ ~c.corrected

(* CommandApdu::corrected; the response data is not kept.                  *)
Corrected(c, r) ==
  [c EXCEPT !.current = [c.current EXCEPT !.le = AnnouncedLength(r)],
            !.corrected = TRUE]

CorrectionFits(c, r) ==
  /\ AnnouncedLength(r) <= ResponseCapacity
  /\ EncodedLength(Corrected(c, r).current) <= MaxCommandBytes

InChain(c, r) == ~CorrectsLe(c, r) /\ c.pending # <<>>

FragmentAccepted(r) == IsSuccess(r) /\ r.data = <<>>

NextFragment(c) ==
  [c EXCEPT !.current = Head(c.pending), !.pending = Tail(c.pending),
            !.corrected = FALSE]

(* The response is the one to the last fragment of the command.            *)
Final(c, r) == ~CorrectsLe(c, r) /\ c.pending = <<>>

(* Only an empty 6985 to a speculative poll ends an OATH listing.          *)
PollEnds(c, r) ==
  /\ Final(c, r) /\ c.continuation = "Oath" /\ c.oathPoll
  /\ IsConditionsNotSatisfied(r) /\ r.data = <<>>

OathMore(c, r) ==
  /\ Final(c, r) /\ c.continuation = "Oath"
  /\ r.sw1 = MoreSw1 \/ (c.probe /\ IsSuccess(r) /\ r.data # <<>>)

OathNext(c, r) ==
  [c EXCEPT !.data = c.data \o r.data,
            !.oathPoll = IsSuccess(r),
            !.current = [header |-> SendRemaining, chained |-> FALSE, data |-> <<>>,
                         le |-> MinOf(255, ResponseCapacity), extended |-> FALSE],
            !.corrected = FALSE,
            !.correctLe = FALSE]

IsoMore(c, r) == Final(c, r) /\ c.continuation = "Iso7816" /\ r.sw1 = MoreSw1

(* Faulty: keeps only the newest page.                                     *)
IsoNextForgets(c, r) ==
  [c EXCEPT !.data = r.data,
            !.continuing = TRUE,
            !.current = [header |-> GetResponse, chained |-> FALSE, data |-> <<>>,
                         le |-> MinOf(AnnouncedLength(r), ResponseCapacity),
                         extended |-> FALSE],
            !.corrected = FALSE,
            !.correctLe = TRUE]

IsoNext(c, r) ==
  [c EXCEPT !.data = c.data \o r.data,
            !.continuing = TRUE,
            !.current = [header |-> GetResponse, chained |-> FALSE, data |-> <<>>,
                         le |-> MinOf(AnnouncedLength(r), ResponseCapacity),
                         extended |-> FALSE],
            !.corrected = FALSE,
            !.correctLe = TRUE]

(* Faulty: also rejects the first announcement of a reply.                 *)
NoProgressPageEver(c, r) == r.data = <<>> /\ (OathMore(c, r) \/ IsoMore(c, r))

(* A 61xx page without data: always for OATH, for ISO once GET RESPONSE    *)
(* has been sent.                                                          *)
NoProgressPage(c, r) ==
  r.data = <<>> /\ (OathMore(c, r) \/ (IsoMore(c, r) /\ c.continuing))

Ends(c, r) == Final(c, r) /\ ~OathMore(c, r) /\ ~IsoMore(c, r)

(* The ResponseData a finished conversation hands to the machine.          *)
Delivered(c, r) ==
  IF PollEnds(c, r)
  THEN [data |-> c.data, sw1 |-> SuccessSw1, sw2 |-> 0]
  ELSE [data |-> c.data \o r.data, sw1 |-> r.sw1, sw2 |-> r.sw2]
=============================================================================
