------------------------------- MODULE Oath --------------------------------
(***************************************************************************)
(* canokey-oath: one OATH operation after another on one applet.           *)
(*                                                                         *)
(* An operation selects the applet, validates the access key if it was     *)
(* given one, and sends one target command in the dialect of the firmware. *)
(* The applet is the user's, or one that does not know the access key and  *)
(* answers whatever it likes.  A step is one logical command and its       *)
(* response (pages included: module CardExchange); any operation may break *)
(* off at any command, executed or not.  Secrets are abstract: only a      *)
(* holder of the access key computes a proof with it.                      *)
(***************************************************************************)
EXTENDS Integers, Sequences

CONSTANTS
  Absent,         \* no value
  Keys,           \* access keys
  Names,          \* credential names, in card order
  Times,          \* time steps, positive numbers
  MaxCounter,     \* bound on HOTP counters
  Firmwares,      \* firmware versions, major.minor.patch as three digits
  ResponseLimits, \* values of max_response_bytes
  Cards,          \* the applets considered
  Requests,       \* the requests the application may make
  OtherData       \* data that an applet without the key may answer

VARIABLES
  firmware,  \* of the device, as its profile knows it
  limit,     \* max_response_bytes of the operation
  request,   \* the current or last request
  access,    \* Oath.access: the key supplied, or Absent
  phase,     \* the command that is pending, or "Idle"
  outcome,   \* how the last operation ended
  result,    \* what it returned
  card,      \* applet: everything it stores
  unlocked,  \* applet: an access key was validated since SELECT
  genuine,   \* whether it is the user's applet
  before     \* history: the applet when the operation began

device == <<firmware, genuine>>

call == <<limit, request, access, before>>

vars == <<device, call, phase, outcome, result, card, unlocked>>

NoRequest ==
  [kind |-> "Select", name |-> Absent, to |-> Absent, cred |-> Absent, otp |-> "Totp",
   alg |-> "Sha1", challenge |-> Absent, format |-> "Truncated", key |-> Absent,
   slot |-> "Short", enter |-> FALSE]

(* Accounts, and what a request of each kind carries.                      *)
NameSet == {Names[i] : i \in 1 .. Len(Names)}

Algorithms == {"Sha1", "Sha256", "Sha512"}

Slots == {"Short", "Long"}

AccountType ==
  [kind : {"Hotp", "Totp"}, alg : Algorithms, touch : BOOLEAN, increasing : BOOLEAN,
   digits : Nat, last : Nat]

(* Only a TOTP account goes forward with the time.                         *)
ValidAccounts(f) ==
  /\ f = [n \in DOMAIN f |-> f[n]] /\ DOMAIN f \subseteq NameSet
  /\ \A n \in DOMAIN f : f[n] \in AccountType /\ (f[n].kind = "Hotp" => ~f[n].increasing)

ValidCard(c) ==
  /\ c = [key |-> c.key, accounts |-> c.accounts, slots |-> c.slots, hmac |-> c.hmac]
  /\ c.key \in Keys \cup {Absent} /\ ValidAccounts(c.accounts)
  /\ c.slots \in [Slots -> NameSet \cup {Absent}] /\ c.hmac \subseteq Slots

Vendor == {"GetSerial", "ChallengeResponseHmac"}

Calculations == {"Calculate", "CalculateAll"}

Paged == {"List", "CalculateAll"}

Named == {"Delete", "Rename", "Calculate", "SetDefault"}

ValidRequest(r) ==
  /\ r.kind \in {"Select", "Validate", "Put", "SetCode", "ClearCode"}
                 \cup Vendor \cup Paged \cup Named
  /\ r.kind \in Named \cup {"Put"} => r.name \in NameSet
  /\ r.kind = "Rename" => r.to \in NameSet
  /\ r.kind = "Put" => r.cred \in AccountType
  /\ r.kind = "Calculate" => r.challenge \in Times \cup {Absent} /\ r.alg \in Algorithms
  /\ r.kind = "CalculateAll" => r.challenge \in Times
  /\ r.kind = "SetCode" => r.key \in Keys
  /\ r.kind = "ClearCode" => r.key = Absent
  /\ r.format \in {"Truncated", "Full"} /\ r.slot \in Slots /\ r.enter \in BOOLEAN

ASSUME OathAssumption ==
  /\ Absent \notin Keys \cup NameSet \cup Algorithms \cup Int
  /\ Firmwares \subseteq {130} \cup 152 .. 303 \cup {310}
  /\ Len(Names) \in Nat /\ Times \subseteq Nat /\ MaxCounter \in Nat /\ ResponseLimits \subseteq Nat
  /\ \A c \in Cards : ValidCard(c)
  /\ \A r \in Requests : ValidRequest(r)

-----------------------------------------------------------------------------
(* Capabilities of the firmware                                            *)

OathLegacy == firmware = 130

OathModern == firmware >= 152

OathFullResponse == firmware >= 200

OathReliablePagination == firmware >= 301

OathSetDefaultSlots == firmware >= 300

OathChallengeResponse == firmware >= 310

legacy_explicit_le == firmware <= 303

-----------------------------------------------------------------------------
(* Construction                                                            *)

(* The longest entry that the firmware puts on a page.                     *)
Minimum(r) == IF r.kind = "CalculateAll" THEN 133 ELSE IF OathLegacy THEN 70 ELSE 67

(* target's checks of its arguments; the lengths of secrets, names and     *)
(* challenges are abstract.                                                *)
ValidArguments(r) ==
  /\ r.kind = "Put" =>
       /\ r.cred.digits \in 4 .. 8
       /\ r.cred.kind = "Totp" => r.cred.last = 0
       /\ r.cred.kind = "Hotp" => ~r.cred.increasing
  /\ r.kind = "Calculate" => ((r.otp = "Totp") <=> (r.challenge # Absent))

(* Faulty: rename is not restricted to the modern dialect.                 *)
AcceptedRename(r, a, max) ==
  /\ r.kind \in {"Select"} \cup Vendor => a = Absent
  /\ r.kind = "Validate" => a # Absent
  /\ r.kind \in Vendor => OathChallengeResponse
  /\ r.kind = "SetDefault" /\ ~OathSetDefaultSlots => r.slot = "Short" /\ ~r.enter
  /\ \/ a # Absent \/ r.kind \in {"Validate", "SetCode", "ClearCode"}
     \/ r.kind = "Put" /\ r.cred.alg = "Sha512"
     \/ r.kind = "Calculate" /\ r.alg = "Sha512"
     => OathModern
  /\ r.kind \in Calculations /\ r.format = "Full" => OathFullResponse
  /\ ValidArguments(r)
  /\ r.kind \in Paged => max >= Minimum(r) + 2

(* operation(): the requests that are refused before any I/O are those it  *)
(* does not accept.                                                        *)
Accepted(r, a, max) ==
  /\ r.kind \in {"Select"} \cup Vendor => a = Absent
  /\ r.kind = "Validate" => a # Absent
  /\ r.kind \in Vendor => OathChallengeResponse
  /\ r.kind = "SetDefault" /\ ~OathSetDefaultSlots => r.slot = "Short" /\ ~r.enter
  /\ \/ a # Absent \/ r.kind \in {"Validate", "SetCode", "ClearCode", "Rename"}
     \/ r.kind = "Put" /\ r.cred.alg = "Sha512"
     \/ r.kind = "Calculate" /\ r.alg = "Sha512"
     => OathModern
  /\ r.kind \in Calculations /\ r.format = "Full" => OathFullResponse
  /\ ValidArguments(r)
  /\ r.kind \in Paged => max >= Minimum(r) + 2

Frame(ins, p1, p2, le) ==
  [ins |-> ins, p1 |-> p1, p2 |-> p2, property |-> "None", key |-> Absent,
   le |-> IF legacy_explicit_le THEN 256 ELSE le]

select == Frame(164, 4, 0, Absent)

validate == Frame(163, 0, 0, Absent)

FormatByte(r) == IF ~OathLegacy /\ r.format = "Truncated" THEN 1 ELSE 0

Smaller(a, b) == IF a < b THEN a ELSE b

(* target: the command of each request in the dialect of the firmware.     *)
target(r) ==
  CASE r.kind = "List" ->
         [Frame(IF OathLegacy THEN 3 ELSE 161, 0, 0, 255) EXCEPT !.le = Smaller(255, limit - 2)]
    [] r.kind = "Put" ->
         [Frame(1, 0, 0, Absent) EXCEPT
            !.property = IF ~r.cred.increasing /\ ~r.cred.touch THEN "None"
                         ELSE IF OathLegacy THEN "Tlv" ELSE "TagValue"]
    [] r.kind = "Delete" -> Frame(2, 0, 0, Absent)
    [] r.kind = "Rename" -> Frame(5, 0, 0, Absent)
    [] r.kind = "Calculate" ->
         Frame(IF OathLegacy THEN 4 ELSE 162, 0, FormatByte(r), Absent)
    [] r.kind = "CalculateAll" ->
         [Frame(IF OathLegacy THEN 5 ELSE 164, 0, FormatByte(r), 255) EXCEPT
            !.le = Smaller(255, limit - 2)]
    [] r.kind \in {"SetCode", "ClearCode"} -> [Frame(3, 0, 0, Absent) EXCEPT !.key = r.key]
    [] r.kind = "SetDefault" ->
         IF OathSetDefaultSlots
         THEN Frame(85, IF r.slot = "Short" THEN 1 ELSE 2, IF r.enter THEN 1 ELSE 0, Absent)
         ELSE Frame(85, 0, 0, Absent)
    [] r.kind = "GetSerial" -> Frame(1, 16, 0, Absent)
    [] r.kind = "ChallengeResponseHmac" ->
         Frame(1, IF r.slot = "Short" THEN 48 ELSE 56, 0, Absent)

-----------------------------------------------------------------------------
(* The applet (external): what each firmware makes of a command.           *)

Does(op, format, slot, enter) == [op |-> op, format |-> format, slot |-> slot, enter |-> enter]

Plainly(op) == Does(op, "Truncated", "Short", FALSE)

Formatted(op, c) ==
  Does(op, IF OathFullResponse /\ c.p2 = 0 THEN "Full" ELSE "Truncated", "Short", FALSE)

DecodeLegacy(c) ==
  CASE c.ins = 1 /\ c.property # "TagValue" -> Plainly("Put")
    [] c.ins = 2 -> Plainly("Delete")
    [] c.ins = 3 -> Plainly("List")
    [] c.ins = 4 -> Plainly("Calculate")
    [] c.ins = 5 -> Plainly("CalculateAll")
    [] c.ins = 85 /\ c.p1 = 0 /\ c.p2 = 0 -> Plainly("SetDefault")
    [] OTHER -> Plainly("Unknown")

DecodeModern(c) ==
  CASE c.ins = 1 /\ c.p1 = 16 /\ OathChallengeResponse -> Plainly("GetSerial")
    [] c.ins = 1 /\ c.p1 \in {48, 56} /\ OathChallengeResponse ->
         Does("ChallengeResponseHmac", "Truncated", IF c.p1 = 48 THEN "Short" ELSE "Long", FALSE)
    [] c.ins = 1 /\ c.p1 = 0 /\ c.property # "Tlv" -> Plainly("Put")
    [] c.ins = 2 -> Plainly("Delete")
    [] c.ins = 3 -> Plainly(IF c.key = Absent THEN "ClearCode" ELSE "SetCode")
    [] c.ins = 5 -> Plainly("Rename")
    [] c.ins = 161 -> Plainly("List")
    [] c.ins = 162 -> Formatted("Calculate", c)
    [] c.ins = 164 /\ c.p1 = 0 -> Formatted("CalculateAll", c)
    [] c.ins = 85 /\ c.p1 = 0 /\ c.p2 = 0 /\ ~OathSetDefaultSlots -> Plainly("SetDefault")
    [] c.ins = 85 /\ c.p1 \in {1, 2} /\ OathSetDefaultSlots ->
         Does("SetDefault", "Truncated", IF c.p1 = 1 THEN "Short" ELSE "Long", c.p2 = 1)
    [] OTHER -> Plainly("Unknown")

(* Old firmware answers no data to a final command without Le.             *)
Decode(c) ==
  IF legacy_explicit_le /\ c.le = Absent THEN Plainly("Unknown")
  ELSE IF OathLegacy THEN DecodeLegacy(c) ELSE DecodeModern(c)

(* A response is a status, a sequence of data fields and the applet after  *)
(* it.  A name of Absent is one of an impossible length.                   *)
Says(sw, data, after) == [sw |-> sw, data |-> data, card |-> after]

Field(tag, name, digits, len, code) ==
  [tag |-> tag, name |-> name, digits |-> digits, len |-> len, code |-> code]

Length(alg) == CASE alg = "Sha1" -> 20 [] alg = "Sha256" -> 32 [] alg = "Sha512" -> 64

(* A code: whose, and from which counter or time.                          *)
CodeField(n, a, format, factor) ==
  IF format = "Full"
  THEN Field(117, Absent, a.digits, Length(a.alg), <<n, factor>>)
  ELSE Field(118, Absent, a.digits, 4, <<n, factor>>)

Listed(n, a) ==
  IF OathLegacy
  THEN <<Field(113, n, 0, 1, Absent), Field(117, Absent, a.digits, 2, Absent)>>
  ELSE <<Field(114, n, 0, 2, Absent)>>

Calculated(n, a, d, time) ==
  << Field(113, n, 0, 1, Absent),
     CASE a.kind = "Hotp" -> Field(119, Absent, a.digits, 0, Absent)
       [] a.kind = "Totp" /\ a.touch -> Field(124, Absent, a.digits, 0, Absent)
       [] OTHER -> CodeField(n, a, d.format, time) >>

(* The fields that f gives for each of its names, in card order.           *)
Gathered(f) ==
  LET sum[i \in 0 .. Len(Names)] ==
        IF i = 0 THEN <<>>
        ELSE sum[i - 1] \o (IF Names[i] \in DOMAIN f THEN f[Names[i]] ELSE <<>>)
  IN sum

Entries(f) == Gathered(f)[Len(Names)]

Stored == DOMAIN card.accounts

Without(f, x) == [n \in DOMAIN f \ {x} |-> f[n]]

With(f, x, v) == [n \in DOMAIN f \cup {x} |-> IF n = x THEN v ELSE f[n]]

(* The names a listing reports: early firmware loses some between pages.   *)
Reported == IF OathReliablePagination THEN {Stored} ELSE SUBSET Stored

Clear(slots, n) == [s \in DOMAIN slots |-> IF slots[s] = n THEN Absent ELSE slots[s]]

(* CALCULATE ALL remembers the time in the accounts that only go forward.  *)
Remember(ns, time) ==
  [card EXCEPT !.accounts =
     [n \in Stored |->
        IF n \in ns /\ card.accounts[n].increasing /\ ~card.accounts[n].touch
        THEN [card.accounts[n] EXCEPT !.last = time] ELSE card.accounts[n]]]

CardCalculate(r, d) ==
  LET a == card.accounts[r.name]
      to(v) == [card EXCEPT !.accounts[r.name].last = v] IN
  CASE a.kind = "Hotp" /\ a.last < MaxCounter ->
         Says("9000", <<CodeField(r.name, a, d.format, a.last + 1)>>, to(a.last + 1))
    [] a.kind = "Totp" /\ r.challenge # Absent /\ (a.increasing => r.challenge >= a.last) ->
         Says("9000", <<CodeField(r.name, a, d.format, r.challenge)>>,
              IF a.increasing THEN to(r.challenge) ELSE card)
    [] OTHER -> Says("6a80", <<>>, card)

CardCalculateAll(r, d) ==
  LET stale == \E n \in Stored :
                 /\ card.accounts[n].increasing /\ r.challenge < card.accounts[n].last
      entries(ns) == [n \in ns |-> Calculated(n, card.accounts[n], d, r.challenge)] IN
  IF stale THEN {Says("6a80", <<>>, card)}
  ELSE {Says("9000", Entries(entries(ns)), Remember(Stored, r.challenge)) : ns \in Reported}

CardRename(r) ==
  IF OathFullResponse /\ r.to \in Stored THEN {Says("6985", <<>>, card)}
  ELSE {Says("9000", <<>>,
             [card EXCEPT !.accounts = With(Without(@, r.name), r.to, a)]) :
          a \in {card.accounts[r.name]}
                  \cup (IF r.to \in Stored THEN {card.accounts[r.to]} ELSE {})}

Gated(d) == d.op \notin Vendor /\ card.key # Absent /\ ~unlocked

(* Commands on one named account that exists.                              *)
ExecuteNamed(r, d) ==
  CASE d.op = "Delete" ->
         {Says("9000", <<>>, [card EXCEPT !.accounts = Without(@, r.name),
                                          !.slots = Clear(@, r.name)])}
    [] d.op = "Rename" -> CardRename(r)
    [] d.op = "Calculate" -> {CardCalculate(r, d)}
    [] d.op = "SetDefault" ->
         {IF card.accounts[r.name].kind = "Hotp"
          THEN Says("9000", <<>>, [card EXCEPT !.slots[d.slot] = r.name])
          ELSE Says("6985", <<>>, card)}

(* The possible responses to the command that d decodes.                   *)
Execute(r, d) ==
  LET entries(ns) == [n \in ns |-> Listed(n, card.accounts[n])] IN
  CASE d.op = "Unknown" -> {Says("6d00", <<>>, card)}
    [] d.op = "GetSerial" -> {Says("9000", <<Field(0, Absent, 0, 4, Absent)>>, card)}
    [] d.op = "ChallengeResponseHmac" ->
         {IF d.slot \in card.hmac THEN Says("9000", <<Field(0, Absent, 0, 20, d.slot)>>, card)
          ELSE Says("6a82", <<>>, card)}
    [] d.op = "List" -> {Says("9000", Entries(entries(ns)), card) : ns \in Reported}
    [] d.op = "CalculateAll" -> CardCalculateAll(r, d)
    [] d.op = "Put" ->
         {IF r.name \in Stored THEN Says("6985", <<>>, card)
          ELSE Says("9000", <<>>, [card EXCEPT !.accounts = With(@, r.name, r.cred)])}
    [] d.op \in {"SetCode", "ClearCode"} -> {Says("9000", <<>>, [card EXCEPT !.key = r.key])}
    [] d.op \in Named ->
         IF r.name \in Stored THEN ExecuteNamed(r, d) ELSE {Says("6984", <<>>, card)}

Responses(r) ==
  LET d == Decode(target(r)) IN
  IF Gated(d) THEN {Says("6982", <<>>, card)} ELSE Execute(r, d)

-----------------------------------------------------------------------------
(* Parsing of the target's data                                            *)

Pairs(data) == Len(data) % 2 = 0

Odd(data) == {i \in 1 .. Len(data) : i % 2 = 1}

(* Faulty: the length of a full code is not compared with the algorithm.   *)
calculationAnyLength(f, format, alg, markers) ==
  /\ f.digits \in 4 .. 8
  /\ \/ f.tag = 118 /\ format = "Truncated" /\ f.len = 4
     \/ f.tag = 117 /\ format = "Full" /\ f.len \in {20, 32, 64}
     \/ f.tag \in {119, 124} /\ markers /\ f.len = 0

(* A code, or a marker where markers are allowed.  A truncated code with   *)
(* its top bit set counts as one of a wrong length.                        *)
calculation(f, format, alg, markers) ==
  /\ f.digits \in 4 .. 8
  /\ \/ f.tag = 118 /\ format = "Truncated" /\ f.len = 4
     \/ /\ f.tag = 117 /\ format = "Full"
        /\ f.len \in (IF alg = Absent THEN {20, 32, 64} ELSE {Length(alg)})
     \/ f.tag \in {119, 124} /\ markers /\ f.len = 0

WellFormed(r, data) ==
  CASE r.kind = "List" /\ OathLegacy ->
         /\ Pairs(data)
         /\ \A i \in Odd(data) :
              /\ data[i].tag = 113 /\ data[i].name # Absent
              /\ data[i + 1].tag = 117 /\ data[i + 1].len = 2
    [] r.kind = "List" /\ ~OathLegacy ->
         \A i \in 1 .. Len(data) : data[i].tag = 114 /\ data[i].name # Absent
    [] r.kind = "Calculate" ->
         Len(data) = 1 /\ calculation(data[1], r.format, r.alg, FALSE)
    [] r.kind = "CalculateAll" ->
         /\ Pairs(data)
         /\ \A i \in Odd(data) :
              /\ data[i].tag = 113 /\ data[i].name # Absent
              /\ calculation(data[i + 1], r.format, Absent, TRUE)
    [] r.kind = "GetSerial" -> Len(data) = 1 /\ data[1].len = 4
    [] r.kind = "ChallengeResponseHmac" -> Len(data) = 1 /\ data[1].len = 20
    [] OTHER -> data = <<>>

-----------------------------------------------------------------------------
(* The machine                                                             *)

End(how, value) == phase' = "Idle" /\ outcome' = how /\ result' = value

Fail(how) == End(how, <<>>)

(* Oath::target                                                            *)
SendTarget ==
  IF request.kind = "Validate" THEN End("Done", <<>>)
  ELSE phase' = "Target" /\ UNCHANGED <<outcome, result>>

Begin(r, a, max) ==
  /\ phase = "Idle"
  /\ Accepted(r, a, max)
  /\ request' = r /\ access' = a /\ limit' = max /\ before' = card
  /\ phase' = "Select" /\ outcome' = "none" /\ result' = <<>>
  /\ UNCHANGED <<device, card, unlocked>>

(* What selection() makes of the data: no data, unusable data, no access   *)
(* challenge, one for HMAC-SHA1, one for another algorithm.                *)
Selections == {"Empty", "Bad", "Open", "Sha1", "Other"}

(* The answer of the user's own applet.                                    *)
OwnSelection == IF OathLegacy THEN "Empty" ELSE IF card.key = Absent THEN "Open" ELSE "Sha1"

(* The key supplied against the challenge reported.                        *)
MatchAccess(s) ==
  CASE access = Absent /\ s = "Open" -> SendTarget
    [] access = Absent /\ s # "Open" -> Fail("SecurityStatusNotSatisfied")
    [] access # Absent /\ s = "Open" -> Fail("ConditionsNotSatisfied")
    [] access # Absent /\ s = "Other" -> Fail("UnsupportedAlgorithm")
    [] access # Absent /\ s = "Sha1" -> phase' = "Validate" /\ UNCHANGED <<outcome, result>>

(* The data of SELECT.                                                     *)
Selected(s) ==
  CASE s = "Bad" \/ OathLegacy # (s = "Empty") -> Fail("InvalidResponse")
    [] OTHER ->
         CASE request.kind = "Select" -> End("Done", <<s>>)
           [] request.kind \in Vendor \/ (request.kind # "Select" /\ OathLegacy) -> SendTarget
           [] OTHER -> MatchAccess(s)

SelectReply ==
  /\ phase = "Select"
  /\ \E s \in IF genuine THEN {OwnSelection} ELSE Selections : Selected(s)
  /\ unlocked' = FALSE
  /\ UNCHANGED <<device, call, card>>

(* Only a holder of the key answers VALIDATE with a proof.                 *)
Proofs == IF genuine THEN IF access = card.key THEN {"Proof"} ELSE {"6a80"}
          ELSE {"WrongProof", "Bad", "6a80"}

(* Faulty: the applet's proof is not verified.                             *)
ValidatedUnverified(p) ==
  CASE p = "6a80" -> Fail("AuthenticationFailed")
    [] p = "Bad" -> Fail("InvalidResponse")
    [] p \in {"Proof", "WrongProof"} -> SendTarget

(* The answer to VALIDATE.                                                 *)
Validated(p) ==
  CASE p = "6a80" -> Fail("AuthenticationFailed")
    [] p = "Bad" -> Fail("InvalidResponse")
    [] p = "WrongProof" -> Fail("DeviceAuthenticationFailed")
    [] p = "Proof" -> SendTarget

ValidateReply ==
  /\ phase = "Validate"
  /\ \E p \in Proofs : Validated(p)
  /\ unlocked' = (genuine /\ access = card.key)
  /\ UNCHANGED <<device, call, card>>

(* The kind of error a status stands for.                                  *)
ErrorKind(sw) ==
  CASE sw = "6984" /\ phase = "Target" /\ request.kind \in Named -> "NotFound"
    [] sw = "6a82" -> IF phase = "Select" THEN "UnsupportedDevice" ELSE "NotFound"
    [] sw = "6982" -> "SecurityStatusNotSatisfied"
    [] sw = "6985" -> "ConditionsNotSatisfied"
    [] sw = "6d00" -> "UnsupportedFeature"
    [] OTHER -> "UnexpectedStatusWord"

(* The response to the target.                                             *)
Replied(sw, data) ==
  CASE sw # "9000" -> Fail(ErrorKind(sw))
    [] sw = "9000" /\ WellFormed(request, data) -> End("Done", data)
    [] OTHER -> Fail("InvalidResponse")

TargetReply ==
  /\ phase = "Target"
  /\ \E resp \in IF genuine THEN Responses(request)
                 ELSE {Says("9000", data, card) : data \in OtherData} :
       Replied(resp.sw, resp.data) /\ card' = resp.card
  /\ UNCHANGED <<device, call, unlocked>>

(* Any command may be refused without effect: no touch, no applet, no      *)
(* memory.                                                                 *)
Refused ==
  /\ phase # "Idle"
  /\ \E sw \in {"6982", "6985", "6f00"} \cup (IF phase = "Select" THEN {"6a82"} ELSE {}) :
       Fail(ErrorKind(sw))
  /\ UNCHANGED <<device, call, card, unlocked>>

(* The answer is lost, a page does not come or the application gives up:   *)
(* the command was executed, not executed, or executed for some accounts.  *)
Interrupted ==
  /\ phase # "Idle"
  /\ Fail("Abandoned")
  /\ \/ UNCHANGED card
     \/ phase = "Target" /\ genuine /\ \E resp \in Responses(request) : card' = resp.card
     \/ /\ phase = "Target" /\ genuine /\ request.kind = "CalculateAll"
        /\ \E resp \in Responses(request) : resp.sw = "9000"
        /\ \E ns \in SUBSET Stored : card' = Remember(ns, request.challenge)
  /\ UNCHANGED <<device, call, unlocked>>

Init ==
  /\ firmware \in Firmwares /\ genuine \in BOOLEAN
  /\ card \in {c \in Cards : OathLegacy => c.key = Absent}
  /\ limit \in ResponseLimits /\ request = NoRequest /\ access = Absent /\ before = card
  /\ phase = "Idle" /\ outcome = "none" /\ result = <<>> /\ unlocked = FALSE

Next ==
  \/ \E r \in Requests, a \in Keys \cup {Absent}, max \in ResponseLimits : Begin(r, a, max)
  \/ SelectReply \/ ValidateReply \/ TargetReply \/ Refused \/ Interrupted

Spec == Init /\ [][Next]_vars

-----------------------------------------------------------------------------
(* Properties                                                              *)

(* The access key known to whoever answers.                                *)
HeldKey == IF genuine THEN card.key ELSE Absent

(* A target goes only to an applet that holds exactly the key the          *)
(* application supplied, and none if it supplied none: not to an impostor, *)
(* not to an applet that lost its protection, and not to a locked one.     *)
AccessMatches ==
  phase = "Target" /\ request.kind \notin Vendor =>
    access = HeldKey /\ (access # Absent => unlocked)

(* What the request means to the application.                              *)
Intent(r) ==
  Does(r.kind, IF r.kind \in Calculations THEN r.format ELSE "Truncated",
       IF r.kind \in {"SetDefault", "ChallengeResponseHmac"} THEN r.slot ELSE "Short",
       r.kind = "SetDefault" /\ r.enter)

(* Every target, in every dialect, is to the firmware that gets it the     *)
(* command that the application asked for, although instruction bytes      *)
(* mean different commands in different firmware.                          *)
IntentKept == phase = "Target" => Decode(target(request)) = Intent(request)

CodesTrue ==
  \A i \in 1 .. Len(result) : result[i].code # Absent =>
    LET n == result[i].code[1]
        factor == result[i].code[2]
        a == before.accounts[n] IN
    /\ n \in DOMAIN before.accounts
    /\ factor = (IF a.kind = "Hotp" THEN a.last + 1 ELSE request.challenge)
    /\ result[i].len = (IF request.format = "Full" THEN Length(a.alg) ELSE 4)
    /\ request.kind = "Calculate" =>
         /\ n = request.name
         /\ a.kind = "Hotp" => card.accounts[n].last = factor
         /\ request.format = "Full" => request.alg = a.alg

(* At most one value of one HOTP counter is used up, the one asked for.    *)
CounterOnce ==
  \A n \in DOMAIN card.accounts \cap DOMAIN before.accounts :
    LET a == before.accounts[n]
        b == card.accounts[n] IN
    a.kind = "Hotp" /\ b # a /\ request.kind # "Rename" =>
      /\ request.kind = "Calculate" /\ n = request.name
      /\ b = [a EXCEPT !.last = @ + 1]

(* What an operation on the user's applet reports is so: codes belong to   *)
(* the account, the moment and the form asked for, even if the             *)
(* application's record of the account is out of date; lists are complete  *)
(* where the firmware pages reliably; a code reported set or missing is.   *)
(* However an operation ends, lost answers included, it has used up no     *)
(* HOTP counter value but the one it was asked to use.                     *)
OutcomeTrue ==
  /\ CounterOnce
  /\ genuine =>
       /\ outcome = "Done" /\ request.kind \in Calculations => CodesTrue
       /\ outcome = "Done" /\ request.kind \in Paged =>
            LET names == {result[i].name : i \in 1 .. Len(result)} \ {Absent} IN
            /\ names \subseteq DOMAIN card.accounts
            /\ OathReliablePagination => names = DOMAIN card.accounts
       /\ outcome = "Done" /\ request.kind \in {"SetCode", "ClearCode"} => card.key = request.key
       /\ outcome = "NotFound" =>
            /\ card = before
            /\ request.kind \in Named => request.name \notin DOMAIN card.accounts
============================================================================
