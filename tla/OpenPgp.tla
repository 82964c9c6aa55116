------------------------------ MODULE OpenPgp -------------------------------
(***************************************************************************)
(* canokey-openpgp execute: one request, and the password it needs, made   *)
(* into a queue of commands.                                               *)
(*                                                                         *)
(* Operations follow each other; any may end with its answer lost, the     *)
(* command executed or not.  A password is a sequence of blocks, so that   *)
(* two passwords sent together are one sequence, which the card cuts.      *)
(***************************************************************************)
EXTENDS Profile, SequencesExt

CONSTANTS
  Calls,         \* the operations the application may start
  Cards,         \* states the card may be in at first
  Profiles,      \* profiles of the firmware versions
  Blocks,        \* what passwords are made of
  MinAdmin,      \* blocks of the shortest PW3 and reset code
  MaxTries,      \* attempts at a password
  Default,       \* function: the passwords of an applet just activated
  MaxOperations  \* bound on the operations started

Slots == {"Signature", "Decryption", "Authentication"}

References == {"Pw1Sign", "Pw1Other", "Pw3"}

Passwords == {"Pw1", "Pw3", "Code"}

Requests ==
  {"ReadData", "WriteData", "ReadCertificate", "WriteCertificate", "PinStatus", "Verify", "Logout",
   "ChangePassword", "UnblockWithAdmin", "UnblockWithCode", "ResetRetries", "ReadPublicKey",
   "GenerateKey", "ImportKey", "Sign", "Authenticate", "Decrypt", "Derive", "Terminate", "Activate"}

(* What the types of the requests say of their arguments.                  *)
RequestType(c) ==
  /\ c.op \in Requests
  /\ c.op \in {"ReadCertificate", "WriteCertificate", "ReadPublicKey", "GenerateKey", "ImportKey"}
       => c.slot \in Slots
  /\ c.op = "WriteData" /\ c.object = "attributes" => c.slot \in Slots
  /\ c.op \in {"PinStatus", "Logout", "ChangePassword"} => c.reference \in References
  /\ c.access # None => c.access.reference \in References
  /\ c.op \in {"ChangePassword", "UnblockWithCode"} => {c.old, c.new} \subseteq Seq(Blocks)

(* pw, tries, verified, attributes, keys and certificates by slot, the     *)
(* occurrence selected, and whether terminated.                            *)
CardType(k) ==
  /\ k = [pw |-> k.pw, tries |-> k.tries, verified |-> k.verified, attributes |-> k.attributes,
          key |-> k.key, certificate |-> k.certificate, occurrence |-> k.occurrence,
          terminated |-> k.terminated]
  /\ k.pw = [n \in Passwords |-> k.pw[n]] /\ k.tries \in [Passwords -> 0 .. MaxTries]
  /\ k.attributes \in [Slots -> Algorithms] /\ k.key \in [Slots -> BOOLEAN]
  /\ k.certificate = [s \in Slots |-> k.certificate[s]] /\ k.occurrence \in Slots

ASSUME OpenPgpAssumption ==
  /\ {MinAdmin, MaxTries, MaxOperations} \subseteq Nat \ {0}
  /\ \A c \in Calls : RequestType(c)
  /\ \A k \in Cards : CardType(k)
  /\ Default = [n \in Passwords |-> Default[n]]
  /\ None \notin Algorithms \cup Slots \cup References
  /\ None \notin {"ResetCode", "UnsupportedFeature", "CapabilityUnknown", "InvalidResponse",
                  "UnsupportedAlgorithm", "verified", "blocked", "counted"}

VARIABLES
  call,       \* the current or last operation
  queue,      \* OpenPgp.queue: stages still to come
  pending,    \* OpenPgp.pending, or "Idle"
  algorithm,  \* OpenPgp.algorithm, or None
  ended,      \* how the last operation ended
  result,     \* what it returned
  operations, \* operations started
  compat,     \* the device's DeviceProfile
  card        \* the applet's state

pgpVars == <<call, queue, pending, algorithm, ended, result, operations, compat, card>>

(* access is None or [reference, password].                                *)
NoCall ==
  [op |-> "none", slot |-> None, alg |-> None, object |-> None, value |-> None, access |-> None,
   reference |-> None, old |-> <<>>, new |-> <<>>, fits |-> TRUE, short |-> FALSE]

PgpInit ==
  /\ call = NoCall /\ queue = <<>> /\ pending = "Idle" /\ algorithm = None
  /\ ended = "none" /\ result = None /\ operations = 0
  /\ compat \in Profiles /\ card \in Cards

-----------------------------------------------------------------------------
(* Construction                                                            *)

Rsa == {"Rsa2048", "Rsa3072", "Rsa4096"}

Curves == {"EccP256", "EccP384", "EccP521", "Secp256k1"}

(* keys::attributes: the algorithms that a slot takes.                     *)
attributes(slot) ==
  Rsa \cup Curves \cup (IF slot = "Decryption" THEN {"X25519"} ELSE {"Ed25519"})

check_password(password, admin) == admin => Len(password) >= MinAdmin

(* The slot of a request that uses a key.                                  *)
KeySlot(c) ==
  CASE c.op \in {"ReadPublicKey", "GenerateKey", "ImportKey"} -> c.slot
    [] c.op = "Sign" -> "Signature"
    [] c.op = "Authenticate" -> "Authentication"
    [] c.op \in {"Decrypt", "Derive"} -> "Decryption"
    [] OTHER -> None

(* key_request: the algorithm the caller expects there.                    *)
Expected(c) == IF c.op \in {"ReadPublicKey", "GenerateKey"} THEN None ELSE c.alg

(* The capability that a request needs besides OpenPgp.                    *)
Gate(c) ==
  CASE c.op = "ResetRetries" -> capability(compat, "OpenPgpRetryReset")
    [] c.op \in {"WriteData", "ReadData"} /\ c.object = "touch" -> capability(compat, "OpenPgpUif")
    [] c.op = "ReadData" /\ c.object = "algorithms" ->
         capability(compat, "OpenPgpAlgorithmInformation")
    [] c.op = "WriteData" /\ c.object = "attributes" ->
         openpgp_algorithm_support(compat, c.alg, FALSE)
    [] OTHER -> capability(compat, "OpenPgp")

Permitted(c) ==
  /\ Supports(compat, "OpenPgp")
  /\ require(Gate(c)) = None
  /\ KeySlot(c) # None /\ Expected(c) # None =>
       require(openpgp_algorithm_support(compat, c.alg, FALSE)) = None
  /\ c.op \in {"Sign", "Authenticate"} /\ c.alg \in Curves /\ c.short =>
       Supports(compat, "OpenPgpShortDigest")

(* The password that a request must bring.                                 *)
Required(c) ==
  CASE c.op \in {"WriteCertificate", "UnblockWithAdmin", "ResetRetries", "WriteData",
                 "GenerateKey", "ImportKey"} -> "Pw3"
    [] c.op = "Sign" -> "Pw1Sign"
    [] c.op \in {"Authenticate", "Decrypt", "Derive"} -> "Pw1Other"
    [] OTHER -> None

AccessFits(c) ==
  /\ Required(c) # None => c.access # None /\ c.access.reference = Required(c)
  /\ c.op = "Verify" => c.access # None
  /\ c.op \in {"PinStatus", "Logout", "ChangePassword", "UnblockWithCode", "Activate"} =>
       c.access = None
  /\ c.op = "Terminate" /\ c.access # None => c.access.reference = "Pw3"
  /\ c.access # None => check_password(c.access.password, c.access.reference = "Pw3")

(* target and write_data: the arguments they accept; fits says that the    *)
(* lengths are right.                                                      *)
TargetFits(c) ==
  /\ c.fits
  /\ c.op = "ChangePassword" =>
       /\ c.reference # "Pw1Other"
       /\ check_password(c.old, c.reference = "Pw3") /\ check_password(c.new, c.reference = "Pw3")
  /\ c.op = "UnblockWithCode" => check_password(c.old, TRUE)
  /\ c.op = "WriteData" /\ c.object = "code" /\ c.value # None => check_password(c.value, TRUE)
  /\ c.op = "WriteData" /\ c.object = "attributes" => c.alg \in attributes(c.slot)
  /\ c.op = "ImportKey" => c.alg \in attributes(c.slot)
  /\ c.op \in {"Sign", "Authenticate"} => c.alg \in attributes("Signature")
  /\ c.op = "Decrypt" => c.alg \in Rsa
  /\ c.op = "Derive" => c.alg \in Curves \cup {"X25519"}

(* Faulty: the password is verified before the metadata are compared.      *)
QueueEager(c) ==
  <<"Select">>
    \o (IF c.access # None THEN <<"Authenticate">> ELSE <<>>)
    \o (IF KeySlot(c) # None THEN <<"Metadata">> ELSE <<>>)
    \o (IF c.op \in {"ReadCertificate", "WriteCertificate"} THEN <<"Acknowledge">> ELSE <<>>)
    \o (IF c.op # "Verify" THEN <<"Target">> ELSE <<>>)

(* Faulty: the certificate's slot is not selected.                         *)
QueueUnselected(c) ==
  <<"Select">>
    \o (IF KeySlot(c) # None THEN <<"Metadata">> ELSE <<>>)
    \o (IF c.access # None THEN <<"Authenticate">> ELSE <<>>)
    \o (IF c.op # "Verify" THEN <<"Target">> ELSE <<>>)

Queue(c) ==
  <<"Select">>
    \o (IF KeySlot(c) # None THEN <<"Metadata">> ELSE <<>>)
    \o (IF c.access # None THEN <<"Authenticate">> ELSE <<>>)
    \o (IF c.op \in {"ReadCertificate", "WriteCertificate"} THEN <<"Acknowledge">> ELSE <<>>)
    \o (IF c.op # "Verify" THEN <<"Target">> ELSE <<>>)

operation(c) ==
  /\ pending = "Idle" /\ operations < MaxOperations
  /\ Permitted(c) /\ AccessFits(c) /\ TargetFits(c)
  /\ call' = c /\ pending' = Head(Queue(c)) /\ queue' = Tail(Queue(c)) /\ algorithm' = None
  /\ ended' = "none" /\ result' = None /\ operations' = operations + 1
  /\ UNCHANGED <<compat, card>>

-----------------------------------------------------------------------------
(* The applet (external)                                                   *)

Reply(status, data, after) == [status |-> status, data |-> data, card |-> after]

Refuse(status) == {Reply(status, None, card)}

Since(v) == AtMost(v, compatibility_base(compat.firmware))

Name(reference) == IF reference = "Pw3" THEN "Pw3" ELSE "Pw1"

Missed(name) == [card EXCEPT !.tries[name] = @ - 1]

CardVerify(reference, password) ==
  LET name == Name(reference) IN
  IF card.tries[name] = 0 THEN Refuse("6983")
  ELSE IF card.pw[name] = password
  THEN {Reply("9000", None, [card EXCEPT !.tries[name] = MaxTries, !.verified = @ \cup {reference}])}
  ELSE {Reply("6982", None, [Missed(name) EXCEPT !.verified = @ \ {reference}])}

(* The card cuts bytes after the password it knows, and sets target to the *)
(* rest.                                                                   *)
CardReplace(name, target, bytes) ==
  LET known == card.pw[name]
      rest == SubSeq(bytes, Len(known) + 1, Len(bytes))
  IN CASE known = <<>> \/ card.tries[name] = 0 -> Refuse("6983")
       [] known # <<>> /\ card.tries[name] # 0 ->
          IF ~IsPrefix(known, bytes) THEN {Reply("6982", None, Missed(name))}
          ELSE IF Len(rest) < (IF target = "Pw3" THEN MinAdmin ELSE 1) THEN Refuse("6700")
          ELSE {Reply("9000", None, [card EXCEPT !.pw[target] = rest, !.tries[target] = MaxTries,
                                                 !.verified = {}])}

Fresh ==
  [pw |-> Default, tries |-> [n \in Passwords |-> MaxTries], verified |-> {},
   attributes |-> card.attributes, key |-> [s \in Slots |-> FALSE],
   certificate |-> [s \in Slots |-> None], occurrence |-> card.occurrence, terminated |-> FALSE]

(* Legacy answers: an extra byte after Ed25519 and X25519 keys, a whole    *)
(* point for an agreement.                                                 *)
CardKeyData ==
  LET alg == card.attributes[KeySlot(call)] IN
  CASE call.op \in {"ReadPublicKey", "GenerateKey"} ->
         [of |-> alg, form |-> IF alg \in {"Ed25519", "X25519"} /\ ~Since(v161) THEN "extra" ELSE "key"]
    [] call.op = "Derive" ->
         [of |-> alg, form |-> IF alg # "X25519" /\ ~Since(v152) THEN "point" ELSE "bare"]
    [] call.op \in {"Sign", "Authenticate"} -> [of |-> alg, form |-> "signature"]
    [] OTHER -> [of |-> alg, form |-> "plain"]

CardUse(reference) ==
  LET slot == KeySlot(call)
      mixed == call.op = "Decrypt" /\ card.attributes[slot] \notin Rsa
  IN IF reference \notin card.verified THEN Refuse("6982")
     ELSE IF ~card.key[slot] THEN Refuse("6a88")
     ELSE IF mixed THEN Refuse("6a80")
     ELSE {Reply("9000", CardKeyData, [card EXCEPT !.verified = @ \ {"Pw1Sign"}])}

CardWrite ==
  CASE call.op = "WriteData" /\ call.object = "attributes" ->
         [card EXCEPT !.attributes[call.slot] = call.alg, !.key[call.slot] = FALSE]
    [] call.op = "WriteData" /\ call.object = "code" ->
         [card EXCEPT !.pw["Code"] = IF call.value = None THEN <<>> ELSE call.value,
                      !.tries["Code"] = MaxTries]
    [] call.op = "WriteCertificate" -> [card EXCEPT !.certificate[card.occurrence] = call.value]
    [] call.op = "UnblockWithAdmin" ->
         [card EXCEPT !.pw["Pw1"] = call.new, !.tries["Pw1"] = MaxTries]
    [] call.op = "ResetRetries" ->
         [card EXCEPT !.pw["Pw1"] = Default["Pw1"], !.pw["Pw3"] = Default["Pw3"],
                      !.tries = [n \in Passwords |-> MaxTries], !.verified = {}]
    [] call.op \in {"GenerateKey", "ImportKey"} -> [card EXCEPT !.key[call.slot] = TRUE]
    [] OTHER -> card

CardTarget ==
  CASE call.op = "ReadData" -> {Reply("9000", [of |-> call.object, form |-> "object"], card)}
    [] call.op = "ReadCertificate" ->
         {Reply("9000", [of |-> card.certificate[card.occurrence], form |-> "object"], card)}
    [] call.op = "PinStatus" ->
         IF call.reference \in card.verified THEN {Reply("9000", None, card)}
         ELSE IF card.tries[Name(call.reference)] = 0 THEN Refuse("6983")
         ELSE Refuse("63c") \cup Refuse("6f00")
    [] call.op = "Logout" ->
         {Reply("9000", None, [card EXCEPT !.verified = @ \ {call.reference}])}
    [] call.op = "ChangePassword" ->
         CardReplace(Name(call.reference), Name(call.reference), call.old \o call.new)
    [] call.op = "UnblockWithCode" -> CardReplace("Code", "Pw1", call.old \o call.new)
    [] call.op = "ReadPublicKey" ->
         IF card.key[call.slot] THEN {Reply("9000", CardKeyData, card)} ELSE Refuse("6a88")
    [] call.op = "Sign" -> CardUse("Pw1Sign")
    [] call.op \in {"Authenticate", "Decrypt", "Derive"} -> CardUse("Pw1Other")
    [] call.op = "Terminate" ->
         IF "Pw3" \in card.verified \/ card.tries["Pw3"] = 0
         THEN {Reply("9000", None, [card EXCEPT !.terminated = TRUE, !.verified = {}])}
         ELSE Refuse("6982")
    [] call.op = "Activate" -> {Reply("9000", None, IF card.terminated THEN Fresh ELSE card)}
    [] OTHER -> IF "Pw3" \notin card.verified THEN Refuse("6982")
                ELSE {Reply("9000", IF call.op = "GenerateKey" THEN CardKeyData ELSE None, CardWrite)}

Execute ==
  CASE pending = "Select" ->
         {Reply(IF card.terminated THEN "6285" ELSE "9000", None, [card EXCEPT !.verified = v]) :
            v \in {{}, card.verified}}
    [] pending = "Metadata" ->
         {Reply("9000", [of |-> card.attributes[KeySlot(call)],
                         form |-> IF Since(v200) THEN "wrapped" ELSE "contents"], card)}
    [] pending = "Authenticate" -> CardVerify(call.access.reference, call.access.password)
    [] pending = "Acknowledge" -> {Reply("9000", None, [card EXCEPT !.occurrence = call.slot])}
    [] pending = "Target" -> CardTarget

-----------------------------------------------------------------------------
(* The operation                                                           *)

PgpFinish(how, value) ==
  /\ pending' = "Idle" /\ queue' = <<>> /\ ended' = how /\ result' = value
  /\ UNCHANGED algorithm

(* OpenPgp::reference: the password that a failure is about.               *)
Concerns ==
  CASE pending = "Authenticate" -> call.access.reference
    [] pending = "Target" /\ call.op \in {"ChangePassword", "PinStatus"} -> call.reference
    [] pending = "Target" /\ call.op = "UnblockWithCode" -> "ResetCode"
    [] OTHER -> None

(* Error::status, and 6982 for a password.                                 *)
Failure(status) ==
  CASE status = "6982" ->
         IF Concerns # None THEN "AuthenticationFailed" ELSE "SecurityStatusNotSatisfied"
    [] status = "6983" -> "PinBlocked"
    [] OTHER -> status

(* The answers of an empty VERIFY.                                         *)
pin_status(status) ==
  CASE status = "9000" -> "verified" [] status = "6983" -> "blocked" [] status = "63c" -> "counted"
    [] OTHER -> None

(* data_object_contents of 6E: the attribute, or None for another form.    *)
observed(data) ==
  IF (data.form = "wrapped") = Supports(compat, "OpenPgpWrappedData") THEN data.of ELSE None

(* keys::observed knows no such attribute of the slot, or it is not the    *)
(* one expected.                                                           *)
Mismatch(seen) ==
  \/ seen \notin attributes(KeySlot(call))
  \/ Expected(call) # None /\ Expected(call) # seen

(* Stage::Metadata: the error, or None.                                    *)
MetadataError(seen) ==
  CASE seen = None -> "InvalidResponse"
    [] seen # None /\ Mismatch(seen) -> "UnsupportedAlgorithm"
    [] seen # None /\ ~Mismatch(seen) ->
         require(openpgp_algorithm_support(compat, seen, call.op = "GenerateKey"))

(* A signature of Ed25519, P-256 and secp256k1 is as long.                 *)
SignatureLength(alg) == IF alg \in {"Secp256k1", "Ed25519"} THEN "EccP256" ELSE alg

(* OpenPgp::result: whether the answer has the form that is due.           *)
ResultFits(data) ==
  CASE call.op \in {"ReadData", "ReadCertificate"} -> TRUE
    [] call.op \in {"ReadPublicKey", "GenerateKey"} ->
         data.form = (IF /\ algorithm \in {"Ed25519", "X25519"}
                         /\ capability(compat, "OpenPgpPublicKeyLengthFix").support = "Unsupported"
                      THEN "extra" ELSE "key")
    [] call.op \in {"Sign", "Authenticate"} ->
         SignatureLength(data.of) = SignatureLength(call.alg)
    [] call.op = "Decrypt" -> data.form = "plain"
    [] call.op = "Derive" ->
         data.form = (IF /\ call.alg # "X25519"
                         /\ capability(compat, "OpenPgpBareAgreement").support = "Unsupported"
                      THEN "point" ELSE "bare")
    [] OTHER -> data = None

Popped ==
  \/ queue = <<>> /\ PgpFinish("Done", None)
  \/ /\ queue # <<>>
     /\ pending' = Head(queue) /\ queue' = Tail(queue)
     /\ UNCHANGED <<ended, result>>

(* OpenPgp::next for a success, or 6285 for the SELECT of an activation.   *)
Success(reply) ==
  \/ /\ pending = "Metadata" /\ MetadataError(observed(reply.data)) = None
     /\ algorithm' = observed(reply.data)
     /\ Popped
  \/ /\ pending = "Metadata" /\ MetadataError(observed(reply.data)) # None
     /\ PgpFinish(MetadataError(observed(reply.data)), None)
  \/ pending = "Target" /\ ResultFits(reply.data) /\ PgpFinish("Done", reply.data)
  \/ pending = "Target" /\ ~ResultFits(reply.data) /\ PgpFinish("InvalidResponse", None)
  \/ /\ pending \notin {"Metadata", "Target"} /\ reply.data # None
     /\ PgpFinish("InvalidResponse", None)
  \/ /\ pending \notin {"Metadata", "Target"} /\ reply.data = None
     /\ UNCHANGED algorithm /\ Popped

(* Other firmware may answer in another form, or with data not due.        *)
OrAltered(replies) ==
  replies \cup {[r EXCEPT !.data = [of |-> None, form |-> "other"]] :
                  r \in {x \in replies :
                           /\ x.status = "9000"
                           /\ ~(pending = "Target" /\ call.op \in {"ReadData", "ReadCertificate"})}}

PgpAnswered ==
  /\ pending # "Idle"
  /\ \E reply \in OrAltered(Execute) :
       LET asked == pending = "Target" /\ call.op = "PinStatus"
           good == reply.status = "9000"
                     \/ (pending = "Select" /\ call.op = "Activate" /\ reply.status = "6285")
       IN /\ card' = reply.card
          /\ \/ asked /\ reply.data # None /\ PgpFinish("InvalidResponse", None)
             \/ /\ asked /\ reply.data = None /\ pin_status(reply.status) # None
                /\ PgpFinish("Done", pin_status(reply.status))
             \/ ~asked /\ good /\ Success(reply)
             \/ /\ (asked /\ reply.data = None /\ pin_status(reply.status) = None)
                   \/ (~asked /\ ~good)
                /\ PgpFinish(Failure(reply.status), None)
  /\ UNCHANGED <<call, operations, compat>>

(* The answer is lost; the command was executed or not.                    *)
Lost ==
  /\ pending # "Idle"
  /\ PgpFinish("Lost", None)
  /\ \/ \E reply \in Execute : card' = reply.card
     \/ UNCHANGED card
  /\ UNCHANGED <<call, operations, compat>>

PowerCycle ==
  /\ pending = "Idle" /\ card.verified # {}
  /\ card' = [card EXCEPT !.verified = {}]
  /\ UNCHANGED <<call, queue, pending, algorithm, ended, result, operations, compat>>

PgpNext ==
  \/ \E c \in Calls : operation(c)
  \/ PgpAnswered \/ Lost \/ PowerCycle

PgpSpec == PgpInit /\ [][PgpNext]_pgpVars

-----------------------------------------------------------------------------
(* The password gate and the card agree.  Every request brings the         *)
(* password that the card will ask for: none gets through the verification *)
(* only to be refused at its target.  An attempt is lost only if the       *)
(* password given is wrong, and never for a key request that could not     *)
(* have succeeded: its algorithm is the slot's, and the firmware can do    *)
(* what is asked with it.                                                  *)
AttemptsExplained ==
  /\ ended' = "SecurityStatusNotSatisfied" => call'.op = "Terminate" /\ call'.access = None
  /\ \A name \in Passwords :
       card'.tries[name] < card.tries[name] =>
         /\ ~card.terminated
         /\ KeySlot(call) # None =>
              LET there == card.attributes[KeySlot(call)] IN
              /\ Expected(call) \in {None, there}
              /\ Supports(compat, "OpenPgp")
              /\ openpgp_algorithm_support(compat, there, call.op = "GenerateKey").support
                   = "Supported"
         /\ \/ pending = "Authenticate" /\ call.access.password # card.pw[name]
            \/ pending = "Target" /\ call.old # card.pw[name]

PasswordsExplained == [][AttemptsExplained]_pgpVars

(* What an operation promises of the card; a certificate goes to the slot  *)
(* named whatever slot the card had selected before.                       *)
Promise(before, after) ==
  CASE call.op = "ChangePassword" ->
         before.pw[Name(call.reference)] = call.old => after.pw[Name(call.reference)] = call.new
    [] call.op = "UnblockWithCode" ->
         before.pw["Code"] = call.old => after.pw["Pw1"] = call.new
    [] call.op = "UnblockWithAdmin" -> after.pw["Pw1"] = call.new /\ after.tries["Pw1"] = MaxTries
    [] call.op = "WriteCertificate" ->
         after.certificate = [before.certificate EXCEPT ![call.slot] = call.value]
    [] call.op = "ReadCertificate" -> result'.of = before.certificate[call.slot]
    [] call.op \in {"ReadPublicKey", "GenerateKey"} ->
         after.key[call.slot] /\ result'.of = after.attributes[call.slot] /\ result'.of = algorithm
    [] call.op = "ImportKey" -> after.key[call.slot] /\ after.attributes[call.slot] = call.alg
    [] call.op \in {"Sign", "Authenticate", "Decrypt", "Derive"} -> result'.of = call.alg
    [] call.op = "Verify" -> call.access.reference \in after.verified
    [] call.op = "PinStatus" ->
         /\ result' = "verified" => call.reference \in before.verified
         /\ result' = "blocked" => before.tries[Name(call.reference)] = 0
    [] call.op = "Logout" -> call.reference \notin after.verified
    [] call.op = "Terminate" -> after.terminated
    [] call.op = "Activate" -> ~after.terminated
    [] OTHER -> TRUE

(* An operation that succeeds has done what it promises, and its result is *)
(* of the key and the algorithm asked for; one that is refused has changed *)
(* neither a password nor a key nor a certificate; a terminated applet is  *)
(* never changed except by an activation.                                  *)
OperationTrue ==
  /\ pending # "Idle" /\ pending' = "Idle" =>
       /\ ended' = "Done" => Promise(card, card')
       /\ ended' \notin {"Done", "Lost", "InvalidResponse"} =>
            <<card.pw, card.key, card.certificate, card.attributes>>
              = <<card'.pw, card'.key, card'.certificate, card'.attributes>>
  /\ card.terminated =>
       call.op = "Activate" \/ [card' EXCEPT !.verified = {}] = [card EXCEPT !.verified = {}]

OutcomeTrue == [][OperationTrue]_pgpVars
=============================================================================
