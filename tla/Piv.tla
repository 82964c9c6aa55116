-------------------------------- MODULE Piv --------------------------------
(***************************************************************************)
(* canokey-piv: one PIV operation after another on one card.               *)
(*                                                                         *)
(* An operation selects the applet, authenticates the management key,      *)
(* verifies the PIN, each only if its Access says so, and runs a target.   *)
(* The targets with state of their own are the rotation of the management  *)
(* key with its copy in PRINTED and the PIN-managed check that may block   *)
(* the PUK; every other target is one command.                             *)
(*                                                                         *)
(* The card is genuine, or it is one that does not hold the management key *)
(* and answers whatever it likes.  A step is one logical command and its   *)
(* response (module CardExchange).  Any operation may break off at any     *)
(* command, executed or not.  Cryptography is abstract: only a holder of   *)
(* the key computes a cryptogram for it, and a key stands for its bytes    *)
(* together with their cipher.                                             *)
(***************************************************************************)
EXTENDS Integers

CONSTANTS
  Keys,      \* management keys
  Bad,       \* an object that holds no valid key
  Absent,    \* no object, no PUK replacement, no data
  Pins,      \* PIN values
  MaxPin,    \* PIN attempts of a fresh counter
  PukLimit,  \* PUK attempts of a fresh counter
  Cards,     \* the cards considered
  Requests   \* the requests the application may make

(* Bad and Absent are no keys, Absent is no verdict, and a retry limit is  *)
(* a positive nibble.                                                      *)
ASSUME PivAssumption ==
  /\ Bad \notin Keys /\ Absent \notin Keys /\ Bad # Absent /\ Absent # TRUE
  /\ PukLimit \in 1 .. 15 /\ MaxPin \in 1 .. 15

VARIABLES
  op,         \* the current or last request
  stage,      \* the stage whose command is pending, or "Idle"
  protected,  \* RotateManagement.protected
  found,      \* PinManaged.key
  block,      \* PinManaged.replacement
  attempts,   \* PinManaged.attempts
  known,      \* PinManaged.known
  outcome,    \* how the last operation ended
  card,       \* card: everything it stores
  genuine,    \* card: whether it is the user's card
  before      \* history: the card when the operation began

call == <<op, genuine, before>>

machine == <<protected, found, block, attempts, known>>

vars == <<call, stage, machine, outcome, card>>

Objects == Keys \cup {Bad, Absent}

Flags == {"pukBlocked", "protected"}

(* PUKs are numbers of eight digits: the value of the first digit is       *)
(* FirstDigit times it.                                                    *)
FirstDigit == 10000000

Puks == 0 .. 10 * FirstDigit - 1

MaxAttempts == 32

CardType ==
  [key : Keys, printed : Objects, flags : (SUBSET Flags) \cup {Absent}, data : Objects,
   pin : Pins, pinRetries : 0 .. MaxPin, puk : Puks, pukRetries : 0 .. PukLimit,
   pinOk : BOOLEAN, mgmtOk : BOOLEAN]

(* The cards and the requests are well formed.                             *)
ASSUME RequestAssumption ==
  /\ Cards \subseteq CardType
  /\ \A r \in Requests :
       /\ r.block = Absent \/ r.block \in Puks
       /\ r.kind \in {"Write", "Rotate", "PinManaged", "Authenticate",
                      "VerifyPin", "Logout", "ChangePin", "ChangePuk", "UnblockPin"}
       /\ r.kind = "Write" => r.new \in Objects
       /\ r.kind = "Rotate" => r.new \in Keys /\ r.update \in BOOLEAN
       /\ r.kind = "ChangePin" => r.new \in Pins
       /\ r.kind = "ChangePuk" => r.block \in Puks
       /\ r.kind = "UnblockPin" => r.pin \in Pins

-----------------------------------------------------------------------------
(* The card.  An exchange is a status, the data and the card afterwards.   *)
(* "retries" is 63Cx with x > 0; "blocked" is 6983 or 63C0.                *)

Says(sw, data, after) == [sw |-> sw, data |-> data, card |-> after]

Ok(after) == Says("ok", Absent, after)

Refuses == Says("refused", Absent, card)

CardObject(value) == Says(IF value = Absent THEN "notFound" ELSE "ok", value, card)

CardVerify(p) ==
  CASE card.pinRetries = 0 -> Says("blocked", Absent, card)
    [] card.pinRetries > 0 /\ p = card.pin ->
         Ok([card EXCEPT !.pinOk = TRUE, !.pinRetries = MaxPin])
    [] OTHER ->
         Says(IF card.pinRetries = 1 THEN "blocked" ELSE "retries", Absent,
              [card EXCEPT !.pinOk = FALSE, !.pinRetries = @ - 1])

CardAuthenticate(k) ==
  IF k = card.key
  THEN Says("ok", TRUE, [card EXCEPT !.mgmtOk = TRUE])
  ELSE Says("refused", Absent, [card EXCEPT !.mgmtOk = FALSE])

CardWrite(after) == IF card.mgmtOk THEN Ok(after) ELSE Refuses

(* A command that presents the PUK and does `after` when it is right.      *)
CardPuk(old, after) ==
  CASE card.pukRetries = 0 -> Says("blocked", Absent, card)
    [] card.pukRetries > 0 /\ old = card.puk -> Ok(after)
    [] OTHER ->
         Says(IF card.pukRetries = 1 THEN "blocked" ELSE "retries", Absent,
              [card EXCEPT !.pukRetries = @ - 1])

ChangedPuk(new) == [card EXCEPT !.puk = new, !.pukRetries = PukLimit]

-----------------------------------------------------------------------------
(* The commands: which the host sends in each stage.                       *)

(* command::change of PinManaged::change: a guess, or, once the PUK is     *)
(* known, the replacement with its first digit increased.                  *)
WrongPuk == (block + FirstDigit) % (10 * FirstDigit)

(* Faulty: the known PUK itself is presented.                              *)
GuessedPukRight == IF known THEN block ELSE attempts - 1

GuessedPuk == IF known THEN WrongPuk ELSE attempts - 1

(* CHANGE REFERENCE DATA for the PIN may or may not leave it verified.     *)
CardChangePin(old, new) ==
  IF card.pinRetries > 0 /\ old = card.pin
  THEN {Ok([card EXCEPT !.pin = new, !.pinRetries = MaxPin, !.pinOk = v]) : v \in BOOLEAN}
  ELSE {CardVerify(old)}

CardCredential ==
  CASE op.kind = "VerifyPin" -> {CardVerify(op.pin)}
    [] op.kind = "Logout" -> {Ok([card EXCEPT !.pinOk = FALSE])}
    [] op.kind = "ChangePin" -> CardChangePin(op.pin, op.new)
    [] op.kind = "ChangePuk" -> {CardPuk(op.puk, ChangedPuk(op.block))}
    [] op.kind = "UnblockPin" ->
         {CardPuk(op.puk, [card EXCEPT !.pin = op.pin, !.pinRetries = MaxPin,
                                       !.pukRetries = PukLimit])}

(* What the genuine card may answer to the command of stage s.  Replacing  *)
(* the management key may or may not end the authenticated session.        *)
CardAnswers(s) ==
  CASE s = "Select" -> {Ok([card EXCEPT !.pinOk = FALSE, !.mgmtOk = FALSE])}
    [] s = "Challenge" -> {Ok(card)}
    [] s = "Respond" -> {CardAuthenticate(op.key)}
    [] s = "Pin" -> {CardVerify(op.pin)}
    [] s = "Credential" -> CardCredential
    [] s = "Write" -> {CardWrite([card EXCEPT !.data = op.new])}
    [] s \in {"RotateAdmin", "PmAdmin"} -> {CardObject(card.flags)}
    [] s \in {"RotatePrinted", "PmPrinted"} ->
         {IF card.pinOk THEN CardObject(card.printed) ELSE Refuses}
    [] s = "Replace" ->
         {CardWrite([card EXCEPT !.key = op.new, !.mgmtOk = stays]) : stays \in BOOLEAN}
    [] s \in {"NewChallenge", "PmChallenge"} -> {Ok(card)}
    [] s = "NewRespond" -> {CardAuthenticate(op.new)}
    [] s = "PrintedWrite" -> {CardWrite([card EXCEPT !.printed = op.new])}
    [] s \in {"PmPuk", "PmConfirm"} -> {Says("ok", card.pukRetries, card)}
    [] s = "PmMetadata" -> {Ok(card), Says("notFound", Absent, card)}
    [] s = "PmRespond" -> {CardAuthenticate(found)}
    [] s = "PmChange" -> {CardPuk(GuessedPuk, ChangedPuk(block))}

(* What a card without the key may send back.                              *)
Forged(s) ==
  CASE s \in {"RotateAdmin", "PmAdmin"} -> {{}, {"protected"}, Flags}
    [] s \in {"RotatePrinted", "PmPrinted"} -> Keys \cup {Bad}
    [] s \in {"PmPuk", "PmConfirm"} -> {0, 1}
    [] OTHER -> {Absent, FALSE}

Answers(s) ==
  IF genuine
  THEN CardAnswers(s)
  ELSE {Says(sw, d, card) : sw \in {"ok", "notFound", "retries", "blocked"}, d \in Forged(s)}

-----------------------------------------------------------------------------
(* Construction: with_access and the factories                             *)

Manages(r) == r.policy \in {"Management", "PinAndManagement"}

Verifies(r) == r.policy \in {"Pin", "PinAndManagement"}

(* write::require_management, and the factories that take `select` where   *)
(* the others take an Access.                                              *)
Accepted(r) ==
  /\ r.kind \in {"Write", "Rotate"} => Manages(r) \/ r.policy = "Existing"
  /\ r.kind \in {"Authenticate", "VerifyPin", "Logout", "ChangePin", "ChangePuk", "UnblockPin"}
       => r.policy \in {"None", "Existing"}

(* The first stage of the target.                                          *)
Target(r) ==
  CASE r.kind = "Write" -> "Write"
    [] r.kind = "Rotate" -> IF r.update THEN "RotateAdmin" ELSE "Replace"
    [] r.kind = "PinManaged" -> "PmAdmin"
    [] r.kind = "Authenticate" -> "Challenge"
    [] OTHER -> "Credential"

(* Selected::target_or_pin.                                                *)
TargetOrPin == IF Verifies(op) THEN "Pin" ELSE Target(op)

Begin(r) ==
  /\ stage = "Idle"
  /\ Accepted(r)
  /\ op' = r
  /\ stage' = IF r.policy = "Existing" THEN Target(r) ELSE "Select"
  /\ block' = r.block
  /\ protected' = FALSE /\ found' = Absent /\ attempts' = 0 /\ known' = FALSE
  /\ outcome' = "None"
  /\ before' = card
  /\ UNCHANGED <<card, genuine>>

-----------------------------------------------------------------------------
(* The stages: the answer x to the pending command, and what follows.      *)

Exchange(x) == card' = x.card /\ UNCHANGED call

Goto(s) == stage' = s /\ UNCHANGED outcome

Stop(how) == stage' = "Idle" /\ outcome' = how

Fail == Stop("Failed") /\ UNCHANGED machine

(* One stage that only looks at the status.                                *)
Step(s, next) ==
  /\ stage = s
  /\ \E x \in Answers(s) :
       /\ Exchange(x)
       /\ IF x.sw = "ok" THEN Goto(next) /\ UNCHANGED machine ELSE Fail

LastStep(s) ==
  /\ stage = s
  /\ \E x \in Answers(s) :
       /\ Exchange(x)
       /\ IF x.sw = "ok" THEN Stop("Done") /\ UNCHANGED machine ELSE Fail

SelectReply == Step("Select", IF Manages(op) THEN "Challenge" ELSE TargetOrPin)

(* ManagementMachine, stages 1 and 2, for the operation's own key.         *)
ManagementChallenge == Step("Challenge", "Respond")

ManagementResponse ==
  /\ stage = "Respond"
  /\ \E x \in Answers("Respond") :
       /\ Exchange(x)
       /\ LET proved == x.sw = "ok" /\ (op.mutual => x.data = TRUE) IN
          CASE proved /\ op.kind = "Authenticate" -> Stop("Done") /\ UNCHANGED machine
            [] proved /\ op.kind # "Authenticate" -> Goto(TargetOrPin) /\ UNCHANGED machine
            [] OTHER -> Fail

PinReply == Step("Pin", Target(op))

(* Faulty: a rejected PUK is sent again.                                   *)
CredentialReplyRetries ==
  /\ stage = "Credential"
  /\ \E x \in Answers("Credential") :
       /\ Exchange(x)
       /\ CASE x.sw = "ok" -> Stop("Done") /\ UNCHANGED machine
            [] x.sw = "retries" -> Goto("Credential") /\ UNCHANGED machine
            [] OTHER -> Fail

CredentialReply == LastStep("Credential")

WriteReply == LastStep("Write")

-----------------------------------------------------------------------------
(* RotateManagement                                                        *)

(* Faulty: PRINTED is not read before the key is replaced.                 *)
RotateAdminUnread ==
  /\ stage = "RotateAdmin"
  /\ \E x \in Answers("RotateAdmin") :
       /\ Exchange(x)
       /\ IF x.sw \in {"ok", "notFound"}
          THEN /\ protected' = (x.sw = "ok" /\ "protected" \in x.data)
               /\ Goto("Replace")
               /\ UNCHANGED <<found, block, attempts, known>>
          ELSE Fail

RotateAdmin ==
  /\ stage = "RotateAdmin"
  /\ \E x \in Answers("RotateAdmin") :
       /\ Exchange(x)
       /\ CASE x.sw = "ok" /\ "protected" \in x.data ->
                 /\ protected' = TRUE /\ Goto("RotatePrinted")
                 /\ UNCHANGED <<found, block, attempts, known>>
            [] x.sw = "notFound" \/ (x.sw = "ok" /\ "protected" \notin x.data) ->
                 /\ protected' = FALSE /\ Goto("Replace")
                 /\ UNCHANGED <<found, block, attempts, known>>
            [] OTHER -> Fail

RotatePrinted ==
  /\ stage = "RotatePrinted"
  /\ \E x \in Answers("RotatePrinted") :
       /\ Exchange(x)
       /\ IF x.sw = "ok" /\ x.data # Bad THEN Goto("Replace") /\ UNCHANGED machine ELSE Fail

(* Faulty: PRINTED is written without authenticating the new key.          *)
RotateReplaceAtOnce ==
  /\ stage = "Replace"
  /\ \E x \in Answers("Replace") :
       /\ Exchange(x)
       /\ CASE x.sw = "ok" /\ protected -> Goto("PrintedWrite") /\ UNCHANGED machine
            [] x.sw = "ok" /\ ~protected -> Stop("Done") /\ UNCHANGED machine
            [] OTHER -> Fail

RotateReplace ==
  /\ stage = "Replace"
  /\ \E x \in Answers("Replace") :
       /\ Exchange(x)
       /\ CASE x.sw = "ok" /\ protected -> Goto("NewChallenge") /\ UNCHANGED machine
            [] x.sw = "ok" /\ ~protected -> Stop("Done") /\ UNCHANGED machine
            [] OTHER -> Fail

RotateChallenge == Step("NewChallenge", "NewRespond")

(* Faulty: the rotation ends once the new key works.                       *)
RotateResponseEnds == LastStep("NewRespond")

RotateResponse == Step("NewRespond", "PrintedWrite")

RotatePrintedWrite == LastStep("PrintedWrite")

-----------------------------------------------------------------------------
(* PinManaged                                                              *)

PmAdmin ==
  /\ stage = "PmAdmin"
  /\ \E x \in Answers("PmAdmin") :
       /\ Exchange(x)
       /\ IF x.sw = "ok" /\ Flags \subseteq x.data THEN Goto("PmPuk") /\ UNCHANGED machine ELSE Fail

(* A blocked PUK needs no replacement; an open one without is an error.    *)
PmPuk ==
  /\ stage = "PmPuk"
  /\ \E x \in Answers("PmPuk") :
       /\ Exchange(x)
       /\ IF x.sw = "ok" /\ (x.data = 0 \/ block # Absent)
          THEN /\ block' = (IF x.data = 0 THEN Absent ELSE block)
               /\ Goto("PmPrinted") /\ UNCHANGED <<protected, found, attempts, known>>
          ELSE Fail

PmPrinted ==
  /\ stage = "PmPrinted"
  /\ \E x \in Answers("PmPrinted") :
       /\ Exchange(x)
       /\ IF x.sw = "ok" /\ x.data # Bad
          THEN /\ found' = x.data
               /\ Goto("PmMetadata") /\ UNCHANGED <<protected, block, attempts, known>>
          ELSE Fail

(* Faulty: the recovered key is trusted without authenticating it.         *)
PmMetadataTrusts ==
  /\ stage = "PmMetadata"
  /\ \E x \in Answers("PmMetadata") :
       /\ Exchange(x)
       /\ IF x.sw \in {"ok", "notFound"} /\ block # Absent
          THEN /\ Goto("PmChange") /\ attempts' = 1
               /\ UNCHANGED <<protected, found, block, known>>
          ELSE Fail

(* Old firmware has no metadata for the management key and one cipher.     *)
PmMetadata ==
  /\ stage = "PmMetadata"
  /\ \E x \in Answers("PmMetadata") :
       /\ Exchange(x)
       /\ IF x.sw \in {"ok", "notFound"} THEN Goto("PmChallenge") /\ UNCHANGED machine ELSE Fail

PmChallenge == Step("PmChallenge", "PmRespond")

(* PinManaged::change                                                      *)
Change ==
  /\ UNCHANGED <<protected, found, block>>
  /\ IF attempts >= MaxAttempts
     THEN Stop("Exhausted") /\ UNCHANGED attempts
     ELSE Goto("PmChange") /\ attempts' = attempts + 1

PmResponse ==
  /\ stage = "PmRespond"
  /\ \E x \in Answers("PmRespond") :
       /\ Exchange(x)
       /\ CASE x.sw = "ok" /\ block # Absent -> Change /\ UNCHANGED known
            [] x.sw = "ok" /\ block = Absent -> Stop("Done") /\ UNCHANGED machine
            [] OTHER -> Fail

PmChange ==
  /\ stage = "PmChange"
  /\ \E x \in Answers("PmChange") :
       /\ Exchange(x)
       /\ CASE x.sw = "ok" -> Change /\ known' = TRUE
            [] x.sw = "retries" -> Change /\ UNCHANGED known
            [] x.sw = "blocked" -> Goto("PmConfirm") /\ UNCHANGED machine
            [] OTHER -> Fail

(* Faulty: an open PUK makes the machine start again.                      *)
PmConfirmRestarts ==
  /\ stage = "PmConfirm"
  /\ \E x \in Answers("PmConfirm") :
       /\ Exchange(x)
       /\ CASE x.sw = "ok" /\ x.data = 0 -> Stop("Done") /\ UNCHANGED machine
            [] x.sw = "ok" /\ x.data # 0 ->
                 /\ Goto("PmAdmin") /\ attempts' = 0
                 /\ UNCHANGED <<protected, found, block, known>>
            [] OTHER -> Fail

PmConfirm ==
  /\ stage = "PmConfirm"
  /\ \E x \in Answers("PmConfirm") :
       /\ Exchange(x)
       /\ IF x.sw = "ok" /\ x.data = 0 THEN Stop("Done") /\ UNCHANGED machine ELSE Fail

-----------------------------------------------------------------------------
(* The operation is abandoned, over a budget, refused or given a malformed *)
(* answer, with its pending command executed or not.                       *)
Break ==
  /\ stage # "Idle"
  /\ \E x \in Answers(stage) : card' \in {card, x.card}
  /\ Fail
  /\ UNCHANGED call

(* The card loses power between operations.                                *)
PowerCycle ==
  /\ stage = "Idle"
  /\ card.pinOk \/ card.mgmtOk
  /\ card' = [card EXCEPT !.pinOk = FALSE, !.mgmtOk = FALSE]
  /\ UNCHANGED <<call, stage, machine, outcome>>

NoRequest ==
  [kind |-> "None", policy |-> "None", pin |-> Absent, key |-> Absent, mutual |-> FALSE,
   new |-> Absent, update |-> FALSE, puk |-> Absent, block |-> Absent]

Init ==
  /\ op = NoRequest /\ stage = "Idle" /\ outcome = "None"
  /\ protected = FALSE /\ found = Absent /\ block = Absent /\ attempts = 0 /\ known = FALSE
  /\ card \in Cards /\ before = card
  /\ genuine \in BOOLEAN

Reply ==
  \/ SelectReply \/ ManagementChallenge \/ ManagementResponse \/ PinReply
  \/ CredentialReply \/ WriteReply
  \/ RotateAdmin \/ RotatePrinted \/ RotateReplace
  \/ RotateChallenge \/ RotateResponse \/ RotatePrintedWrite
  \/ PmAdmin \/ PmPuk \/ PmPrinted \/ PmMetadata \/ PmChallenge \/ PmResponse
  \/ PmChange \/ PmConfirm

Next ==
  \/ \E r \in Requests : Begin(r)
  \/ Reply
  \/ Break
  \/ PowerCycle

Spec == Init /\ [][Next]_vars
-----------------------------------------------------------------------------
(* Properties                                                              *)

Stages ==
  {"Idle", "Select", "Challenge", "Respond", "Pin", "Credential", "Write",
   "RotateAdmin", "RotatePrinted", "Replace", "NewChallenge", "NewRespond", "PrintedWrite",
   "PmAdmin", "PmPuk", "PmPrinted", "PmMetadata", "PmChallenge", "PmRespond", "PmChange",
   "PmConfirm"}

(* Every variable has its type: in particular the counters of PinManaged   *)
(* and of the card stay in range.                                          *)
TypeOK ==
  /\ op \in Requests \cup {NoRequest}
  /\ stage \in Stages
  /\ protected \in BOOLEAN /\ known \in BOOLEAN /\ genuine \in BOOLEAN
  /\ found \in Objects
  /\ block = Absent \/ block \in Puks
  /\ attempts \in 0 .. MaxAttempts
  /\ outcome \in {"None", "Done", "Failed", "Exhausted"}
  /\ card \in CardType /\ before \in CardType

Protected(c) == c.flags # Absent /\ "protected" \in c.flags

(* The two writes of a rotation (RotateManagement::next) come in an order  *)
(* that can be repaired: PRINTED never gets a key that the card does not   *)
(* have, and on a protected card the key is replaced only after PRINTED    *)
(* was found to hold a key.                                                *)
RotationRecoverable ==
  genuine /\ op.kind = "Rotate" =>
    /\ card.printed # before.printed => card.printed = card.key
    /\ op.update /\ Protected(before) /\ card.key # before.key => before.printed \in Keys

(* What success means.  A rotation has put the new key on the card and, on *)
(* a protected card, into PRINTED; pin_managed returns the card's own      *)
(* management key, and its PUK is blocked.                                 *)
DoneIsTrue ==
  genuine /\ outcome = "Done" =>
    /\ op.kind = "Rotate" =>
         card.key = op.new /\ (op.update /\ Protected(card) => card.printed = op.new)
    /\ op.kind = "PinManaged" => found = card.key /\ card.pukRetries = 0

(* pin_managed touches the PUK only when the caller authorised it and the  *)
(* key in PRINTED has been proved to be the card's.                        *)
PukAfterProof ==
  genuine /\ op.kind = "PinManaged"
    /\ <<card.puk, card.pukRetries>> # <<before.puk, before.pukRetries>> =>
    op.block # Absent /\ found = card.key

(* Blocking the PUK (PinManaged::change) never gives up at its own limit   *)
(* of 32: even when a guess hits and refills the counter, the guesses run  *)
(* out later than the counter.                                             *)
AttemptsSuffice == genuine => outcome # "Exhausted"

(* Each write finds the card authenticated by the operation's own steps,   *)
(* PRINTED even when the card ended its session as the key was replaced.   *)
WritesAuthorized ==
  genuine =>
    /\ stage \in {"Write", "Replace"} /\ op.policy # "Existing" => card.mgmtOk
    /\ stage = "PrintedWrite" => card.mgmtOk

(* With mutual authentication (ManagementMachine) a card that does not     *)
(* hold the key sees neither the PIN nor any command of the target, and    *)
(* with a wrong key the genuine card counts no PIN attempt.  No credential *)
(* is tried twice: an operation costs at most one PIN attempt and, unless  *)
(* it was told to block the PUK, one PUK attempt.                          *)
CredentialsGuarded ==
  /\ Manages(op) =>
       /\ ~genuine /\ op.mutual => stage \in {"Idle", "Select", "Challenge", "Respond"}
       /\ genuine /\ op.key # before.key => card.pinRetries = before.pinRetries
  /\ card.pinRetries >= before.pinRetries - 1
  /\ ~(op.kind = "PinManaged" /\ op.block # Absent)
       => card.pukRetries >= before.pukRetries - 1

(* Every operation ends, whatever the card answers: the only loop, that of *)
(* PUK guesses, runs out.                                                  *)
Terminates == stage # "Idle" ~> stage = "Idle"
============================================================================
