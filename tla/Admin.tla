------------------------------- MODULE Admin -------------------------------
(***************************************************************************)
(* canokey-admin: one Admin operation after another on one card.           *)
(*                                                                         *)
(* An operation is a queue of commands: SELECT, VERIFY, a target, and, for *)
(* the two patch requests, the writes computed from what the target read.  *)
(* It may end at any command, because the card refuses or answers          *)
(* nonsense, the exchange budget runs out, or the application abandons it  *)
(* with the pending command executed or not.                               *)
(*                                                                         *)
(* Every write stores one setting.  The decoding of read data into typed   *)
(* values is left out: only what a patch reads decides anything.  A step   *)
(* is one logical command and its response (module CardExchange).          *)
(***************************************************************************)
EXTENDS Integers, Sequences

CONSTANTS
  Layouts,        \* the READ CONFIG layouts of the firmware considered
  KnownBits,      \* the feature bits of 0x3f
  UnknownBits,    \* the other feature bits
  Pins,           \* PIN values
  DefaultPin,     \* the PIN of a factory-reset card
  MaxRetries,     \* the card's PIN retry counter when full
  MaxExchanges,   \* OperationLimits.max_exchanges
  Cards,          \* the settings a card may start with
  Requests        \* the requests the application may make

VARIABLES
  layout,        \* admin_configuration_layout of the profile
  nfcPublic,     \* its AdminPublicNfcStatus: from 3.0.1 on
  request,       \* the current or last request
  access,        \* its Access, with the PIN of Access::Pin
  queue,         \* commands not yet exposed
  pending,       \* the exposed command, or Nothing
  used,          \* exchanges of the operation
  confirmed,     \* Outcome.confirmed_writes
  reprobe,       \* Outcome.reprobe_required
  outcome,       \* how the last operation ended
  card,          \* card: the settings
  verified,      \* card: the Admin PIN has been verified
  retries,       \* card: PIN attempts left
  before,        \* history: the settings when the operation began
  retriesBefore, \* history: the attempts left when it began
  applied        \* history: its writes the card has carried out

(* The settings of a card, and what a request of each kind carries; a      *)
(* patch names some of the flags or identifiers.                           *)
FlagNames == {"led", "ndefReadOnly", "ndefEnabled", "webusb"}

Sm2Ids == {"curve", "algorithm"}

Bits == KnownBits \cup UnknownBits

CardType ==
  [led : BOOLEAN, ndefReadOnly : BOOLEAN, ndefEnabled : BOOLEAN, webusb : BOOLEAN,
   features : SUBSET Bits, sm2 : [Sm2Ids -> Int], data : Nat, pin : Pins]

Kinds ==
  {"Configuration", "NfcStatus", "PassSlots", "PinStatus", "VerifyPin", "FactoryReset",
   "ChangePin", "Set", "Configure", "ConfigureSm2"}

WellFormed(r) ==
  /\ r.kind \in Kinds
  /\ r.kind = "ChangePin" => r.to \in Pins
  /\ r.kind = "Set" => r.to \in Nat
  /\ r.kind = "Configure" =>
       DOMAIN r.flags \subseteq FlagNames /\ \A f \in DOMAIN r.flags : r.flags[f] \in BOOLEAN
  /\ r.kind = "ConfigureSm2" => \A f \in DOMAIN r.sm2 : r.sm2[f] \in Int

ASSUME AdminAssumption ==
  /\ Cards \subseteq CardType /\ (\A r \in Requests : WellFormed(r))
  /\ DefaultPin \in Pins /\ MaxRetries \in Nat /\ MaxExchanges \in Nat

call == <<layout, nfcPublic, request, access, before, retriesBefore>>

progress == <<confirmed, reprobe>>

auth == <<verified, retries>>

vars == <<call, queue, pending, used, progress, outcome, card, auth, applied>>

(* The flags of a configuration in the order patch writes them, and all    *)
(* settings a patch can write.                                             *)
Flags == <<"led", "ndefReadOnly", "ndefEnabled", "webusb">>

PatchOrder == Flags \o <<"features">>

(* Commands: Stage::Write carries its reprobe flag.                        *)
Plain(stage) == [stage |-> stage, reprobe |-> FALSE, set |-> "none", to |-> "none"]

Nothing == Plain("None")

Write(s, v) == [stage |-> "Write", reprobe |-> TRUE, set |-> s, to |-> v]

-----------------------------------------------------------------------------
(* Construction: operation_with_access                                     *)

(* The layouts from firmware 3.0 on, which has AdminNfc, AdminPassConfig. *)
Since30 == {"Reserved", "Features"}

(* The capability gates of the requests that have one here.                *)
Capable(r) ==
  /\ r.kind = "Configure" =>
       /\ DOMAIN r.flags \cap {"ndefEnabled", "webusb"} # {} => layout # "TouchPolicies"
       /\ r.mask # {} => layout = "Features"
  /\ r.kind = "ConfigureSm2" => layout = "Features"
  /\ r.kind \in {"NfcStatus", "PassSlots"} => layout \in Since30

(* Faulty: legacy configuration reads are taken for public ones.           *)
ProtectedReadModern(r) == r.kind = "PassSlots"

ProtectedRead(r) ==
  \/ r.kind = "PassSlots"
  \/ r.kind = "NfcStatus" /\ ~nfcPublic
  \/ r.kind = "Configuration" /\ layout # "Features"

Protected(r) ==
  \/ ProtectedRead(r)
  \/ r.kind \in {"VerifyPin", "ChangePin", "Set", "Configure", "ConfigureSm2"}

Sm2Valid(s) ==
  /\ s.curve \notin {0} \cup 1 .. 8 \cup 256 .. 259
  /\ s.algorithm \notin {-7, -8, -49}

(* The patched identifiers: those of patch p, else those of old.           *)
Sm2Patched(old, p) == [f \in Sm2Ids |-> IF f \in DOMAIN p THEN p[f] ELSE old[f]]

(* The requests the constructor accepts with access a.                     *)
Accepted(r, a) ==
  /\ Capable(r)
  /\ ~(Protected(r) /\ a.policy = "None")
  /\ ~(r.kind = "VerifyPin" /\ a.policy = "Existing")
  /\ ~(r.kind \in {"PinStatus", "FactoryReset"} /\ a.policy = "Pin")
  /\ r.kind = "Configure" => r.mask \subseteq KnownBits /\ r.values \subseteq r.mask
  /\ r.kind = "ConfigureSm2" => Sm2Valid(Sm2Patched([curve |-> 9, algorithm |-> -54], r.sm2))

Factory ==
  [led |-> TRUE, ndefReadOnly |-> FALSE, ndefEnabled |-> TRUE, webusb |-> TRUE,
   features |-> KnownBits, sm2 |-> [curve |-> 9, algorithm |-> -54], data |-> 0,
   pin |-> DefaultPin]

Target(r) ==
  CASE r.kind = "VerifyPin" -> <<>>
    [] r.kind = "ChangePin" -> <<[Write("pin", r.to) EXCEPT !.reprobe = FALSE]>>
    [] r.kind = "Set" -> <<Write("data", r.to)>>
    [] r.kind = "FactoryReset" -> <<Write("all", Factory)>>
    [] OTHER -> <<Plain("Read")>>

Commands(r, a) ==
  (IF a.policy = "Existing" THEN <<>> ELSE <<Plain("Select")>>)
    \o (IF a.policy = "Pin" THEN <<Plain("Authenticate")>> ELSE <<>>)
    \o Target(r)

-----------------------------------------------------------------------------
(* The machine's next: expose the first command of q, or end.              *)

End(how) == pending' = Nothing /\ queue' = <<>> /\ used' = 0 /\ outcome' = how

(* Faulty: reprobe_required is set when a write has been confirmed.        *)
AdvanceReprobeLate(q) ==
  IF q = <<>>
  THEN End("Done") /\ reprobe' = (reprobe \/ pending.reprobe)
  ELSE /\ reprobe' = (reprobe \/ pending.reprobe)
       /\ IF used >= MaxExchanges
          THEN End("LimitExceeded")
          ELSE /\ pending' = Head(q) /\ queue' = Tail(q)
               /\ used' = used + 1 /\ UNCHANGED outcome

(* reprobe_required is set as a write is handed to the engine, which may   *)
(* still refuse it for want of exchanges.                                  *)
Advance(q) ==
  IF q = <<>>
  THEN End("Done") /\ UNCHANGED reprobe
  ELSE /\ reprobe' = (reprobe \/ Head(q).reprobe)
       /\ IF used >= MaxExchanges
          THEN End("LimitExceeded")
          ELSE /\ pending' = Head(q) /\ queue' = Tail(q)
               /\ used' = used + 1 /\ UNCHANGED outcome

Fail(how) == End(how) /\ UNCHANGED reprobe

Begin(r, a) ==
  LET q == Commands(r, a) IN
  /\ pending.stage = "None"
  /\ Accepted(r, a)
  /\ request' = r /\ access' = a /\ before' = card /\ retriesBefore' = retries
  /\ pending' = Head(q) /\ queue' = Tail(q) /\ used' = 1
  /\ confirmed' = 0 /\ reprobe' = Head(q).reprobe /\ applied' = 0 /\ outcome' = "none"
  /\ UNCHANGED <<layout, nfcPublic, card, auth>>

-----------------------------------------------------------------------------
(* Patches                                                                 *)

Patched(c, r) ==
  [s \in DOMAIN c |->
     CASE s \in DOMAIN r.flags -> r.flags[s]
       [] s = "features" -> (c.features \ r.mask) \cup r.values
       [] OTHER -> c[s]]

(* The flags a configuration of this layout reports.                       *)
Reported ==
  IF layout = "TouchPolicies" THEN {"led", "ndefReadOnly"} ELSE FlagNames

(* The write that gives setting s its value in new, if it changes, and the *)
(* writes that turn card into new, in order.                               *)
WriteTo(new, s) == IF new[s] = card[s] THEN <<>> ELSE <<Write(s, new[s])>>

WritesTo(new) ==
  WriteTo(new, "led") \o (WriteTo(new, "ndefReadOnly") \o (WriteTo(new, "ndefEnabled")
    \o (WriteTo(new, "webusb") \o WriteTo(new, "features"))))

(* Faulty: the features byte is replaced by the values of the patch.       *)
PatchWritesForget(r) == WritesTo([Patched(card, r) EXCEPT !.features = r.values])

PatchWrites(r) == WritesTo(Patched(card, r))

(* Why the patch cannot be written on the card as read, or "none".         *)
PatchError(r) ==
  IF layout # "Features"
  THEN IF DOMAIN r.flags \subseteq Reported THEN "none" ELSE "UnsupportedFeature"
  ELSE IF /\ Patched(card, r).features # card.features
          /\ ~(Patched(card, r).features \subseteq KnownBits)
       THEN "UnsupportedProtocolVersion" ELSE "none"

Sm2Writes(r) ==
  LET new == Sm2Patched(card.sm2, r.sm2) IN
  IF new = card.sm2 THEN <<>> ELSE <<Write("sm2", new)>>

-----------------------------------------------------------------------------
(* Responses                                                               *)

(* The card's own gate (external).                                         *)
Guarded ==
  \/ pending.stage = "Write" /\ request.kind # "FactoryReset"
  \/ /\ pending.stage = "Read"
     /\ \/ request.kind \in {"PassSlots", "ConfigureSm2"}
        \/ request.kind = "NfcStatus" /\ ~nfcPublic
        \/ request.kind \in {"Configuration", "Configure"} /\ layout # "Features"

(* Selecting may drop an earlier verification.                             *)
SelectDone ==
  /\ pending.stage = "Select"
  /\ verified' \in {verified, FALSE}
  /\ Advance(queue)
  /\ UNCHANGED <<call, confirmed, card, retries, applied>>

VerifyDone ==
  /\ pending.stage = "Authenticate" /\ retries > 0 /\ access.pin = card.pin
  /\ verified' = TRUE /\ retries' = MaxRetries
  /\ Advance(queue)
  /\ UNCHANGED <<call, confirmed, card, applied>>

VerifyFailed ==
  /\ pending.stage = "Authenticate" /\ (retries = 0 \/ access.pin # card.pin)
  /\ retries' = IF retries = 0 THEN 0 ELSE retries - 1
  /\ UNCHANGED verified
  /\ Fail("AuthenticationFailed")
  /\ UNCHANGED <<call, confirmed, card, applied>>

(* The target's data: parse computes what is left to write.                *)
ReadDone ==
  /\ pending.stage = "Read" /\ (Guarded => verified)
  /\ CASE request.kind = "Configure" ->
            IF PatchError(request) # "none" THEN Fail(PatchError(request))
            ELSE Advance(queue \o PatchWrites(request))
       [] request.kind = "ConfigureSm2" ->
            IF /\ Sm2Writes(request) # <<>>
               /\ ~Sm2Valid(Sm2Patched(card.sm2, request.sm2))
            THEN Fail("InvalidArgument")
            ELSE Advance(queue \o Sm2Writes(request))
       [] OTHER -> Advance(queue)
  /\ UNCHANGED <<call, confirmed, card, auth, applied>>

(* What the pending write does to the card.                                *)
Apply ==
  /\ card' = IF pending.set = "all" THEN pending.to ELSE [card EXCEPT ![pending.set] = pending.to]
  /\ retries' = IF pending.set \in {"all", "pin"} THEN MaxRetries ELSE retries
  /\ verified' = (pending.set # "all" /\ verified)
  /\ applied' = applied + 1

WriteDone ==
  /\ pending.stage = "Write" /\ (Guarded => verified)
  /\ Apply
  /\ confirmed' = confirmed + 1
  /\ Advance(queue)
  /\ UNCHANGED call

(* A read may take another exchange, for a corrected Le or another page.   *)
Paged ==
  /\ pending.stage = "Read"
  /\ IF used >= MaxExchanges
     THEN Fail("LimitExceeded")
     ELSE used' = used + 1 /\ UNCHANGED <<pending, queue, outcome, reprobe>>
  /\ UNCHANGED <<call, confirmed, card, auth, applied>>

(* The card answers an error status and does nothing, as it must when its  *)
(* gate is closed.                                                         *)
Refused ==
  /\ pending.stage # "None"
  /\ Fail("Status")
  /\ UNCHANGED <<call, confirmed, card, auth, applied>>

(* The answer is lost or unusable, or the application gives up: the        *)
(* command was executed or not.                                            *)
Interrupted ==
  /\ pending.stage # "None"
  /\ \E how \in {"InvalidResponse", "Abandoned"} : Fail(how)
  /\ \/ UNCHANGED <<card, auth, applied>>
     \/ pending.stage = "Write" /\ (Guarded => verified) /\ Apply
     \/ /\ pending.stage = "Authenticate" /\ retries > 0
        /\ verified' = (access.pin = card.pin \/ verified)
        /\ retries' = IF access.pin = card.pin THEN MaxRetries ELSE retries - 1
        /\ UNCHANGED <<card, applied>>
  /\ UNCHANGED <<call, confirmed>>

(* The card is reset between operations.                                   *)
CardReset ==
  /\ pending.stage = "None" /\ verified
  /\ verified' = FALSE
  /\ UNCHANGED <<call, queue, pending, used, progress, outcome, card, retries, applied>>

Accesses ==
  {[policy |-> p, pin |-> DefaultPin] : p \in {"None", "Existing"}}
    \cup {[policy |-> "Pin", pin |-> p] : p \in Pins}

Init ==
  /\ layout \in Layouts
  /\ nfcPublic \in BOOLEAN
  /\ (layout = "Features" => nfcPublic) /\ (nfcPublic => layout \in Since30)
  /\ card \in Cards /\ before = card
  /\ verified = FALSE /\ retries = MaxRetries /\ retriesBefore = retries
  /\ request = [kind |-> "none"] /\ access = [policy |-> "None", pin |-> DefaultPin]
  /\ queue = <<>> /\ pending = Nothing /\ used = 0
  /\ confirmed = 0 /\ reprobe = FALSE /\ outcome = "none" /\ applied = 0

Next ==
  \/ \E r \in Requests, a \in Accesses : Begin(r, a)
  \/ SelectDone \/ VerifyDone \/ VerifyFailed \/ ReadDone \/ WriteDone
  \/ Paged \/ Refused \/ Interrupted \/ CardReset

Spec == Init /\ [][Next]_vars

-----------------------------------------------------------------------------
(* The writes reported as confirmed have happened, and at most one more:   *)
(* progress says what a failed sequence of writes has done to within the   *)
(* command that was pending.  A device that no longer is what it was, its  *)
(* PIN aside, is reported as to be probed again, however the operation     *)
(* ended.                                                                  *)
ProgressTold ==
  /\ confirmed <= applied /\ applied <= confirmed + 1
  /\ outcome = "Done" => applied = confirmed
  /\ [card EXCEPT !.pin = before.pin] # before => reprobe

(* At every moment, and whatever stops it, a patch has written a prefix of *)
(* its changes, in order, and nothing else; a completed patch all of them. *)
(* A wrong PIN writes nothing, and whatever else the host objects to, it   *)
(* objects to before the first write.                                      *)
PatchInOrder ==
  LET wrongPin == access.policy = "Pin" /\ access.pin # before.pin
      objected == outcome \in {"AuthenticationFailed", "UnsupportedFeature",
                               "UnsupportedProtocolVersion", "InvalidArgument"} IN
  /\ wrongPin \/ objected => card = before
  /\ request.kind = "Configure" =>
       \E k \in 0 .. Len(PatchOrder) :
         /\ card = [s \in DOMAIN before |->
                      IF \E i \in 1 .. k : PatchOrder[i] = s
                      THEN Patched(before, request)[s] ELSE before[s]]
         /\ outcome = "Done" => k = Len(PatchOrder)

(* Unless the application vouches for an existing authorization, the card  *)
(* never sees a guarded command it would have to refuse; and an operation  *)
(* costs at most one PIN attempt, none unless a PIN was supplied.          *)
Authorized ==
  /\ access.policy # "Existing" /\ Guarded => verified
  /\ retries >= retriesBefore - (IF access.policy = "Pin" THEN 1 ELSE 0)
=============================================================================
