----------------------------- MODULE ClientPin ------------------------------
(***************************************************************************)
(* canokey-ctap pin, config and hmacsecret: key agreement, the PIN, tokens *)
(* and what they authorise, on an authenticator whose keys change under    *)
(* the application's feet.                                                 *)
(*                                                                         *)
(* The application keeps the last session and the last token it obtained   *)
(* and passes them to later operations; each is a SELECT and one message.  *)
(* Cryptography is symbolic: a key is a value, a MAC and a ciphertext are  *)
(* records that name it, and a ciphertext under another key decrypts to    *)
(* Garbage.  Any operation may end with its answer lost or unreadable, the *)
(* message executed or not, and the device may be unplugged between two.   *)
(***************************************************************************)
EXTENDS Integers, Sequences

CONSTANTS
  Unset,       \* no value
  Garbage,     \* what a wrong key decrypts to
  PinLength,   \* the PINs considered and their code points
  PinCalls,    \* the operations the application may start
  MaxRetries,  \* card: attempts after a correct PIN
  MaxEpoch,    \* bound on key agreement keys
  MaxSerial    \* bound on tokens issued

Pins == DOMAIN PinLength

SessionOps == {"set_pin", "change_pin", "get_pin_token", "get_pin_token_with_permissions",
               "hmac_secret"}

ConfigOps == {"toggle_always_uv", "set_min_pin_length", "enable_long_touch_for_reset"}

TokenOps == {"get_pin_token", "get_pin_token_with_permissions"}

PinOperations == {"get_pin_retries", "get_key_agreement"} \cup SessionOps \cup ConfigOps

(* Nothing that a wrong key yields is the hash of a PIN.                   *)
ASSUME ClientPinAssumption ==
  /\ \A p \in Pins : PinLength[p] \in Nat /\ Garbage # <<"hash", p>>
  /\ {MaxRetries, MaxEpoch, MaxSerial} \subseteq Nat \ {0}
  /\ \A c \in PinCalls :
       c.op \in PinOperations /\ (c.op \in {"set_pin", "change_pin"} => c.new \in Pins)

VARIABLES
  session,     \* PinSession: its protocol and the card's key at that time
  pinToken,    \* PinToken, with the protocol it was obtained with
  pinCall,     \* the current or last operation
  pinStage,    \* "Select", "Message" or "Idle"
  pinOutcome,  \* how the last operation ended
  pinResult,   \* what it returned, if not a session or a token
  firmware,    \* card: "2.0" or later
  epoch,       \* card: its key agreement key
  serial,      \* card: tokens issued
  issued,      \* card: the token in force with its permissions, or Unset
  misses,      \* card: wrong PINs since power-up
  retries,     \* card: attempts left
  settings     \* card: PIN, minimum length and flags

host == <<session, pinToken, pinCall, pinStage, pinOutcome, pinResult>>

pinCard == <<epoch, serial, issued, misses, retries, settings>>

pinVars == <<host, firmware, pinCard>>

NoPinCall ==
  [op |-> "none", protocol |-> 1, pin |-> Unset, new |-> Unset, iv |-> FALSE,
   permissions |-> {}, min |-> 0, force |-> FALSE, salts |-> <<>>]

PinInit ==
  /\ session = Unset /\ pinToken = Unset /\ pinCall = NoPinCall /\ pinStage = "Idle"
  /\ pinOutcome = "none" /\ pinResult = <<>>
  /\ firmware \in {"2.0", "3.0"}
  /\ epoch = 1 /\ serial = 0 /\ issued = Unset /\ misses = 0 /\ retries = MaxRetries
  /\ settings \in [pin : {Unset} \cup {p \in Pins : PinLength[p] >= 4}, min : {4},
                   alwaysUv : BOOLEAN, longTouch : {FALSE}, force : {FALSE}]

-----------------------------------------------------------------------------
(* Cryptography of the two protocols                                       *)

(* V1 uses one key for everything, V2 a half for MACs and one for AES.     *)
derive_shared_secret(protocol, key) ==
  IF protocol = 1 THEN [hmac |-> <<key, "V1">>, aes |-> <<key, "V1">>]
  ELSE [hmac |-> <<key, "CTAP2 HMAC key">>, aes |-> <<key, "CTAP2 AES key">>]

(* The tag is 16 bytes long in V1 and 32 in V2.                            *)
authenticate(protocol, key, message) == [tag |-> protocol, key |-> key, of |-> message]

encrypt(secret, plaintext) == [key |-> secret.aes, of |-> plaintext]

decrypt(secret, ciphertext) ==
  IF ciphertext.key = secret.aes THEN ciphertext.of ELSE Garbage

pad_pin(pin) == <<"padded", pin>>

pin_hash(pin) == <<"hash", pin>>

-----------------------------------------------------------------------------
(* Construction                                                            *)

validate_pin(pin) == PinLength[pin] \in 4 .. 63

check_iv(protocol, iv) == (protocol = 2) <=> iv

(* What each factory requires before any I/O.                              *)
PinAccepted(c) ==
  /\ c.op \in SessionOps => session # Unset /\ check_iv(session.protocol, c.iv)
  /\ c.op \in {"change_pin"} \cup TokenOps => validate_pin(c.pin)
  /\ c.op \in {"set_pin", "change_pin"} => validate_pin(c.new)
  /\ c.op = "get_pin_token_with_permissions" => c.permissions # {}
  /\ c.op \in ConfigOps => pinToken # Unset
  /\ c.op = "set_min_pin_length" => c.min >= 4
  /\ c.op = "hmac_secret" => Len(c.salts) \in 1 .. 2

Secret == derive_shared_secret(session.protocol, session.key)

PinMessage(command, sub, protocol) ==
  [command |-> command, sub |-> sub, protocol |-> protocol, auth |-> Unset,
   pinEnc |-> Unset, hashEnc |-> Unset, permissions |-> {}, params |-> <<>>]

set_pin(c) ==
  LET enc == encrypt(Secret, pad_pin(c.new)) IN
  [PinMessage("clientPin", 3, session.protocol) EXCEPT
     !.pinEnc = enc, !.auth = authenticate(session.protocol, Secret.hmac, <<enc>>)]

(* Faulty: the MAC covers the old PIN's hash first.                        *)
change_pinSwapped(c) ==
  LET enc  == encrypt(Secret, pad_pin(c.new))
      hash == encrypt(Secret, pin_hash(c.pin)) IN
  [PinMessage("clientPin", 4, session.protocol) EXCEPT
     !.pinEnc = enc, !.hashEnc = hash,
     !.auth = authenticate(session.protocol, Secret.hmac, <<hash, enc>>)]

change_pin(c) ==
  LET enc  == encrypt(Secret, pad_pin(c.new))
      hash == encrypt(Secret, pin_hash(c.pin)) IN
  [PinMessage("clientPin", 4, session.protocol) EXCEPT
     !.pinEnc = enc, !.hashEnc = hash,
     !.auth = authenticate(session.protocol, Secret.hmac, <<enc, hash>>)]

(* pin_token_entries; only subcommand 9 carries permissions.               *)
get_pin_token(c) ==
  [PinMessage("clientPin", 5, session.protocol) EXCEPT
     !.hashEnc = encrypt(Secret, pin_hash(c.pin))]

get_pin_token_with_permissions(c) ==
  [PinMessage("clientPin", 9, session.protocol) EXCEPT
     !.hashEnc = encrypt(Secret, pin_hash(c.pin)), !.permissions = c.permissions]

(* 0xFF * 32 || 0x0D || subCommand || params.                              *)
ConfigMessage(sub, params) ==
  [PinMessage("config", sub, pinToken.protocol) EXCEPT
     !.params = params,
     !.auth = authenticate(pinToken.protocol, pinToken.value, <<"config", sub>> \o params)]

(* HmacSecretInput::new and to_value.                                      *)
HmacSecretInput(c) ==
  LET enc == encrypt(Secret, <<"salts", c.salts>>) IN
  [PinMessage("getAssertion", 0, session.protocol) EXCEPT
     !.pinEnc = enc, !.auth = authenticate(session.protocol, Secret.hmac, <<enc>>)]

(* The message of each factory.                                            *)
pinMessage(c) ==
  CASE c.op = "get_pin_retries" -> PinMessage("clientPin", 1, c.protocol)
    [] c.op = "get_key_agreement" -> PinMessage("clientPin", 2, c.protocol)
    [] c.op = "set_pin" -> set_pin(c)
    [] c.op = "change_pin" -> change_pin(c)
    [] c.op = "get_pin_token" -> get_pin_token(c)
    [] c.op = "get_pin_token_with_permissions" -> get_pin_token_with_permissions(c)
    [] c.op = "toggle_always_uv" -> ConfigMessage(2, <<>>)
    [] c.op = "set_min_pin_length" -> ConfigMessage(3, <<c.min, c.force>>)
    [] c.op = "enable_long_touch_for_reset" -> ConfigMessage(4, <<>>)
    [] c.op = "hmac_secret" -> HmacSecretInput(c)

-----------------------------------------------------------------------------
(* The authenticator (external)                                            *)

PinKeep ==
  [epoch |-> epoch, serial |-> serial, issued |-> issued, misses |-> misses, retries |-> retries,
   settings |-> settings]

PinSays(status, payload, after) == [status |-> status, payload |-> payload, card |-> after]

CardSecret(m) == derive_shared_secret(m.protocol, epoch)

Authentic(m, of) == m.auth = authenticate(m.protocol, CardSecret(m).hmac, of)

(* A wrong PIN costs an attempt; the key agreement key may be renewed.     *)
Missed ==
  {PinSays(IF retries = 1 THEN "32" ELSE IF misses = 2 THEN "34" ELSE "31", <<>>,
           [PinKeep EXCEPT !.retries = @ - 1, !.misses = @ + 1, !.epoch = e]) :
     e \in {epoch, IF epoch < MaxEpoch THEN epoch + 1 ELSE epoch}}

Known(pin) == [PinKeep EXCEPT !.retries = MaxRetries, !.misses = 0, !.settings.pin = pin]

StoreNew(m) ==
  LET new == decrypt(CardSecret(m), m.pinEnc)[2] IN
  IF PinLength[new] < settings.min THEN PinSays("37", <<>>, Known(settings.pin))
  ELSE PinSays("00", <<>>, [Known(new) EXCEPT !.settings.force = FALSE, !.issued = Unset])

(* The PIN is set, neither blocked nor waiting for a power cycle.          *)
PinStatus ==
  IF settings.pin = Unset THEN "35" ELSE IF retries = 0 THEN "32"
  ELSE IF misses >= 3 THEN "34" ELSE "00"

RightPin(m) == decrypt(CardSecret(m), m.hashEnc) = pin_hash(settings.pin)

Grant(m) ==
  IF settings.force THEN PinSays("37", <<>>, Known(settings.pin))
  ELSE PinSays("00", <<encrypt(CardSecret(m), <<"token", serial + 1>>)>>,
               [Known(settings.pin) EXCEPT
                  !.serial = @ + 1,
                  !.issued = [value |-> <<"token", serial + 1>>,
                              permissions |-> IF m.sub = 5 THEN {"mc", "ga"} ELSE m.permissions]])

ExecuteClientPin(m) ==
  CASE m.sub = 1 -> {PinSays("00", <<retries>>, PinKeep)}
    [] m.sub = 2 -> {PinSays("00", <<epoch>>, PinKeep)}
    [] m.sub = 3 ->
         {IF settings.pin # Unset THEN PinSays("30", <<>>, PinKeep)
          ELSE IF ~Authentic(m, <<m.pinEnc>>) THEN PinSays("33", <<>>, PinKeep) ELSE StoreNew(m)}
    [] m.sub \in {4, 5} \/ (m.sub = 9 /\ firmware # "2.0") ->
         IF PinStatus # "00" THEN {PinSays(PinStatus, <<>>, PinKeep)}
         ELSE IF m.sub = 4 /\ ~Authentic(m, <<m.pinEnc, m.hashEnc>>)
              THEN {PinSays("33", <<>>, PinKeep)}
         ELSE IF ~RightPin(m) THEN Missed
         ELSE {IF m.sub = 4 THEN StoreNew(m) ELSE Grant(m)}
    [] OTHER -> {PinSays("00", <<>>, PinKeep)}    \* an unknown subcommand

(* authenticatorConfig; a minimum length only grows.                       *)
ExecuteConfig(m) ==
  LET authorised ==
        /\ issued # Unset /\ "acfg" \in issued.permissions
        /\ m.auth = authenticate(m.protocol, issued.value, <<"config", m.sub>> \o m.params)
      min == m.params[1]
      short == settings.pin # Unset /\ PinLength[settings.pin] < min IN
  CASE firmware = "2.0" -> PinSays("f1", <<>>, PinKeep)
    [] firmware # "2.0" /\ ~authorised -> PinSays("33", <<>>, PinKeep)
    [] firmware # "2.0" /\ authorised /\ m.sub = 2 ->
         PinSays("00", <<>>, [PinKeep EXCEPT !.settings.alwaysUv = ~@])
    [] firmware # "2.0" /\ authorised /\ m.sub = 3 ->
         IF min < settings.min THEN PinSays("37", <<>>, PinKeep)
         ELSE PinSays("00", <<>>, [PinKeep EXCEPT !.settings.min = min,
                                               !.settings.force = @ \/ m.params[2] \/ short])
    [] OTHER -> PinSays("00", <<>>, [PinKeep EXCEPT !.settings.longTouch = TRUE])

(* An HMAC for each salt, or no output if the credential has no secret.    *)
ExecuteHmac(m) ==
  IF ~Authentic(m, <<m.pinEnc>>) THEN {PinSays("33", <<>>, PinKeep)}
  ELSE LET salts == decrypt(CardSecret(m), m.pinEnc)[2] IN
       {PinSays("00",
                <<encrypt(CardSecret(m), [i \in 1 .. Len(salts) |-> <<"hmac", salts[i]>>])>>, PinKeep),
        PinSays("00", <<>>, PinKeep)}

ExecutePin(m) ==
  CASE m.command = "clientPin" -> ExecuteClientPin(m)
    [] m.command = "config" -> {ExecuteConfig(m)}
    [] m.command = "getAssertion" -> ExecuteHmac(m)

-----------------------------------------------------------------------------
(* Operations                                                              *)

PinBecomes(c) ==
  /\ epoch' = c.epoch /\ serial' = c.serial /\ issued' = c.issued
  /\ misses' = c.misses /\ retries' = c.retries /\ settings' = c.settings

PinStart(c) ==
  /\ pinStage = "Idle" /\ PinAccepted(c)
  /\ c.op \in TokenOps => serial < MaxSerial
  /\ pinCall' = c /\ pinStage' = "Select" /\ pinOutcome' = "none" /\ pinResult' = <<>>
  /\ UNCHANGED <<session, pinToken, firmware, pinCard>>

PinFinish(how) == pinStage' = "Idle" /\ pinOutcome' = how /\ UNCHANGED pinCall

PinSelected ==
  /\ pinStage = "Select" /\ pinStage' = "Message"
  /\ UNCHANGED <<session, pinToken, pinCall, pinOutcome, pinResult, firmware, pinCard>>

PinSelectRefused ==
  /\ pinStage = "Select" /\ PinFinish("UnsupportedDevice")
  /\ UNCHANGED <<session, pinToken, pinResult, firmware, pinCard>>

(* Faulty: a token response may be empty.                                  *)
NeedsFieldTokenOptional(op) == op \in {"get_pin_retries", "get_key_agreement", "hmac_secret"}

(* The operations whose response must carry its field; the others' must be *)
(* empty.                                                                  *)
NeedsField(op) == op \in {"get_pin_retries", "get_key_agreement", "hmac_secret"} \cup TokenOps

(* typed, and the parser of each operation.                                *)
PinParsed(payload) ==
  \/ /\ NeedsField(pinCall.op) <=> payload # <<>>
     /\ PinFinish("Done")
     /\ session' = IF pinCall.op = "get_key_agreement"
                   THEN [protocol |-> pinCall.protocol, key |-> payload[1]] ELSE session
     /\ pinToken' = IF pinCall.op \in TokenOps
                    THEN [protocol |-> session.protocol,
                          value |-> IF payload = <<>> THEN Garbage ELSE decrypt(Secret, payload[1])]
                    ELSE pinToken
     /\ pinResult' = CASE pinCall.op = "get_pin_retries" -> payload
                       [] pinCall.op = "hmac_secret" -> decrypt(Secret, payload[1])
                       [] OTHER -> <<>>
  \/ /\ ~(NeedsField(pinCall.op) <=> payload # <<>>)
     /\ PinFinish("InvalidResponse")
     /\ UNCHANGED <<session, pinToken, pinResult>>

PinAnswered ==
  /\ pinStage = "Message"
  /\ \E answer \in ExecutePin(pinMessage(pinCall)) :
       /\ PinBecomes(answer.card)
       /\ \/ answer.status = "00" /\ PinParsed(answer.payload)
          \/ /\ answer.status # "00" /\ PinFinish(answer.status)
             /\ UNCHANGED <<session, pinToken, pinResult>>
  /\ UNCHANGED firmware

(* The answer is lost or unreadable; the message was executed or not.      *)
PinLost ==
  /\ pinStage # "Idle" /\ PinFinish("Lost")
  /\ \/ UNCHANGED pinCard
     \/ /\ pinStage = "Message"
        /\ \E answer \in ExecutePin(pinMessage(pinCall)) : PinBecomes(answer.card)
  /\ UNCHANGED <<session, pinToken, pinResult, firmware>>

(* The device is unplugged and plugged in again.                           *)
PinPowerCycle ==
  /\ pinStage = "Idle" /\ epoch < MaxEpoch
  /\ epoch' = epoch + 1 /\ issued' = Unset /\ misses' = 0
  /\ UNCHANGED <<host, firmware, serial, retries, settings>>

PinNext ==
  \/ \E c \in PinCalls : PinStart(c)
  \/ PinSelected \/ PinSelectRefused \/ PinAnswered \/ PinLost \/ PinPowerCycle

PinSpec == PinInit /\ [][PinNext]_pinVars

-----------------------------------------------------------------------------
(* The settings that an operation promises to leave.                       *)
PinPromised ==
  CASE pinCall.op \in {"set_pin", "change_pin"} ->
         [settings EXCEPT !.pin = pinCall.new, !.force = FALSE]
    [] pinCall.op = "toggle_always_uv" -> [settings EXCEPT !.alwaysUv = ~@]
    [] pinCall.op = "set_min_pin_length" ->
         [settings EXCEPT !.min = pinCall.min, !.force = settings'.force]
    [] pinCall.op = "enable_long_touch_for_reset" -> [settings EXCEPT !.longTouch = TRUE]
    [] OTHER -> settings

Ending == pinStage # "Idle" /\ pinStage' = "Idle"

(* How an operation that ends has left the settings, and what it returns.  *)
PinTruthfulEnd ==
  CASE pinOutcome' = "Done" ->
         /\ settings' = PinPromised
         /\ pinCall.op = "get_pin_retries" => pinResult' = <<retries>>
         /\ pinCall.op = "hmac_secret" =>
              pinResult' = [i \in 1 .. Len(pinCall.salts) |-> <<"hmac", pinCall.salts[i]>>]
    [] pinOutcome' = "Lost" -> settings' \in {settings, PinPromised}
    [] OTHER -> settings' = settings

(* The token held, if there is one, was issued by the card.                *)
TokenIssued == pinToken # Unset => \E n \in 1 .. serial : pinToken.value = <<"token", n>>

(* An operation that succeeds has changed the settings as promised and     *)
(* returns what the card computed; one that is refused, or whose answer    *)
(* lacks its field, has changed nothing; only a lost answer leaves the     *)
(* application in doubt, between the old settings and the promised ones.   *)
(* The application never takes for a token what the card did not issue,    *)
(* neither an empty success of old firmware nor a wrong decryption.        *)
PinOutcomeTrue == [][(Ending => PinTruthfulEnd) /\ TokenIssued']_pinVars

(* The session and the token are those of the card at this moment.         *)
SessionCurrent == session # Unset /\ session.key = epoch

TokenCurrent ==
  /\ pinToken # Unset /\ issued # Unset
  /\ pinToken.value = issued.value /\ "acfg" \in issued.permissions

(* A MAC is refused for a stale session or token.                          *)
MacRefused ==
  Ending /\ pinOutcome' = "33" =>
    IF pinCall.op \in ConfigOps THEN ~TokenCurrent ELSE ~SessionCurrent

(* An attempt is spent on a wrong PIN, or on a hash under a stale key.     *)
AttemptSpent ==
  retries' < retries =>
    \/ pinCall.op \in {"change_pin"} \cup TokenOps /\ pinCall.pin # settings.pin
    \/ pinCall.op \in TokenOps /\ ~SessionCurrent

(* The card rejects a MAC only if the application used a session or a      *)
(* token from before a power cycle, a renewed key or a later token, or a   *)
(* token without the permission: MAC inputs, their order and key halves    *)
(* are always those the firmware verifies.  An attempt is lost only to a   *)
(* wrong PIN, or by a token request in a stale session, whose encrypted    *)
(* hash the card cannot read; never by changing the PIN in a stale         *)
(* session.                                                                *)
RefusalsExplained == [][MacRefused /\ AttemptSpent]_pinVars
=============================================================================
