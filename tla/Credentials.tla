---------------------------- MODULE Credentials -----------------------------
(***************************************************************************)
(* canokey-ctap credmgmt, ctap2 and u2f: making, using, listing, changing  *)
(* and deleting the credentials of an authenticator.                       *)
(*                                                                         *)
(* Every operation selects the applet and sends one message, except that   *)
(* an enumeration goes on with one GetNext for each further entry, whose   *)
(* number the authenticator announces.  Any operation may end with its     *)
(* answer lost or unreadable, the command executed or not; the user may or *)
(* may not touch the device.  A MAC is a record of its key and its input.  *)
(***************************************************************************)
EXTENDS Integers, Sequences, FiniteSets, SequencesExt

CONSTANTS
  Absent,        \* no value
  MaxIds,        \* bound on the credentials ever made; their ids are 1 .. MaxIds
  CredTokens,    \* pinUvAuthTokens
  Calls,         \* the operations the application may start
  WrongTotals,   \* totals an authenticator may announce wrongly
  CredExchanges  \* values of max_exchanges

Enumerations == {"enumerate_rps", "enumerate_credentials"}

Managed == {"get_creds_metadata", "delete_credential", "update_user_information"} \cup Enumerations

Silent == {"delete_credential", "update_user_information", "reset", "selection"}

U2f == {"register", "authenticate", "check_only", "version"}

Operations ==
  Managed \cup Silent \cup U2f
    \cup {"make_credential", "get_assertion", "get_next_assertion", "get_info"}

(* Totals are unsigned, and no number is None.                             *)
ASSUME CredentialsAssumption ==
  /\ WrongTotals \cup CredExchanges \subseteq Nat /\ Absent \notin Nat
  /\ \A c \in Calls : c.op \in Operations

VARIABLES
  call,         \* the current or last operation
  credStage,    \* "Select", "Message", "GetNext" or "Idle"
  items,        \* Enumerate.items
  remaining,    \* Enumerate.remaining
  credBudget,   \* max_exchanges
  credUsed,     \* commands of the operation
  extra,        \* further exchanges, for answers that come in pages
  credOutcome,  \* how the last operation ended
  result,       \* what it returned, if not items
  creds,        \* card: credentials, in the order it lists them
  made,         \* card: credentials made so far
  inForce,      \* card: the token in force, with cm permission
  cursor,       \* card: entries that GetNext has still to deliver
  assertions,   \* card: credentials that getNextAssertion has still to use
  alwaysUv,     \* card: U2F is disabled
  metadata,     \* card: knows the metadataOnly parameter
  announced     \* card: the total it announced, or Absent

credMachine == <<items, remaining>>

spent == <<credUsed, extra>>

device == <<alwaysUv, metadata>>

stores == <<creds, made, inForce, cursor, assertions>>

credVars ==
  <<call, credStage, credMachine, credBudget, spent, credOutcome, result, stores, device,
    announced>>

NoCall ==
  [op |-> "none", token |-> Absent, rp |-> Absent, user |-> Absent, id |-> Absent,
   only |-> FALSE, list |-> {}, resident |-> FALSE, hmac |-> FALSE, mc |-> FALSE,
   raw |-> {}, attestation |-> 0]

CredInit ==
  /\ call = NoCall /\ credStage = "Idle" /\ items = <<>> /\ remaining = 0
  /\ credBudget = 0 /\ credUsed = 0 /\ extra = 0 /\ credOutcome = "none" /\ result = <<>>
  /\ creds = <<>> /\ made = 0 /\ inForce \in CredTokens \cup {Absent}
  /\ cursor = <<>> /\ assertions = <<>>
  /\ alwaysUv \in BOOLEAN /\ metadata \in BOOLEAN /\ announced = Absent

-----------------------------------------------------------------------------
(* Construction                                                            *)

(* The arguments each factory accepts.  raw holds the extensions that the  *)
(* caller encoded itself.                                                  *)
Accepted(c) ==
  /\ c.op \in {"delete_credential", "update_user_information", "authenticate", "check_only"} =>
       c.id # Absent
  /\ c.op \in {"make_credential", "get_assertion"} => c.rp # Absent
  /\ c.op \in {"make_credential", "update_user_information"} => c.user # Absent
  /\ c.op = "make_credential" => c.attestation \in 0 .. 2
  /\ c.op \in {"make_credential", "get_assertion"} /\ c.hmac => "hmac-secret" \notin c.raw
  /\ c.op = "make_credential" /\ c.mc => c.hmac /\ "hmac-secret-mc" \notin c.raw

(* A message without authentication and optional parts.                    *)
CredMessage(c) ==
  [op |-> c.op, sub |-> 0, params |-> <<>>, auth |-> Absent, rp |-> c.rp, user |-> c.user,
   id |-> c.id, list |-> {}, resident |-> FALSE, extensions |-> {}, attestation |-> 0]

(* Faulty: parameters are left out of the MAC.                             *)
managementBare(c, sub, params) ==
  [CredMessage(c) EXCEPT !.sub = sub, !.params = params,
                         !.auth = [key |-> c.token, of |-> <<sub>>]]

(* credmgmt message: the MAC of [subCommand] || params under the token.    *)
management(c, sub, params) ==
  [CredMessage(c) EXCEPT !.sub = sub, !.params = params,
                         !.auth = [key |-> c.token, of |-> <<sub>> \o params]]

get_creds_metadata(c) == management(c, 1, <<>>)

enumerate_rps(c) == management(c, 2, <<>>)

enumerate_credentials(c) == management(c, 4, <<c.rp, c.only>>)

delete_credential(c) == management(c, 6, <<c.id>>)

update_user_information(c) == management(c, 7, <<c.id, c.user>>)

make_credential(c) ==
  [CredMessage(c) EXCEPT
     !.list = c.list, !.resident = c.resident, !.attestation = c.attestation,
     !.extensions = c.raw \cup (IF c.hmac THEN {"hmac-secret"} ELSE {})
                          \cup (IF c.mc THEN {"hmac-secret-mc"} ELSE {})]

get_assertion(c) ==
  [CredMessage(c) EXCEPT
     !.list = c.list, !.extensions = c.raw \cup (IF c.hmac THEN {"hmac-secret"} ELSE {})]

message(c) ==
  CASE c.op = "get_creds_metadata" -> get_creds_metadata(c)
    [] c.op = "enumerate_rps" -> enumerate_rps(c)
    [] c.op = "enumerate_credentials" -> enumerate_credentials(c)
    [] c.op = "delete_credential" -> delete_credential(c)
    [] c.op = "update_user_information" -> update_user_information(c)
    [] c.op = "make_credential" -> make_credential(c)
    [] c.op = "get_assertion" -> get_assertion(c)
    [] OTHER -> CredMessage(c)

Start(c, exchanges) ==
  /\ credStage = "Idle" /\ Accepted(c)
  /\ call' = c /\ credStage' = "Select" /\ items' = <<>> /\ remaining' = 0
  /\ credBudget' = exchanges /\ credUsed' = 1 /\ extra' = 0 /\ credOutcome' = "none"
  /\ result' = <<>> /\ announced' = Absent
  /\ UNCHANGED <<stores, device>>

-----------------------------------------------------------------------------
(* The authenticator (external)                                            *)

Keep == [creds |-> creds, made |-> made, inForce |-> inForce, cursor |-> <<>>, assertions |-> <<>>]

(* The fields of a payload by key or name, and the values that matter.     *)
Says(status, fields, value, after) ==
  [status |-> status, fields |-> fields, value |-> value, card |-> after]

CredFails(status) == Says(status, {}, <<>>, Keep)

(* The credentials at these positions, in their order.                    *)
CredsAt(positions) ==
  [k \in 1 .. Cardinality(positions) |->
     creds[CHOOSE i \in positions : Cardinality({j \in positions : j <= i}) = k]]

Resident(rp) == CredsAt({i \in DOMAIN creds : creds[i].resident /\ creds[i].rp = rp})

Without(id) == CredsAt({i \in DOMAIN creds : creds[i].id # id})

Find(id) == {x \in ToSet(creds) : x.id = id}

(* The first credential of each relying party.                             *)
Leading ==
  CredsAt({i \in DOMAIN creds :
             /\ creds[i].resident
             /\ \A j \in 1 .. i - 1 : ~(creds[j].resident /\ creds[j].rp = creds[i].rp)})

(* What listing returns, one entry per relying party or credential.        *)
Listing(c) ==
  IF c.op = "enumerate_rps" THEN [i \in DOMAIN Leading |-> [rp |-> Leading[i].rp]]
  ELSE [i \in DOMAIN Resident(c.rp) |->
          [id |-> Resident(c.rp)[i].id, user |-> Resident(c.rp)[i].user]]

(* The keys of an entry; metadataOnly replaces publicKey by coseAlgorithm. *)
EntryFields(c) ==
  IF c.op = "enumerate_rps" THEN {"3", "4"}
  ELSE {"6", "7"} \cup (IF c.only /\ metadata THEN {"128"} ELSE {"8"})

(* The first entry, with a total that need not be the list's length.       *)
FirstEntries(list) ==
  {Says("00", EntryFields(call) \cup {"total"}, <<t, list[1]>>,
        [Keep EXCEPT !.cursor = Tail(list)]) : t \in {Len(list)} \cup WrongTotals}

ExecuteManagement(m) ==
  CASE inForce = Absent \/ m.auth # [key |-> inForce, of |-> <<m.sub>> \o m.params] ->
         {CredFails("33")}
    [] OTHER ->
       CASE m.sub = 1 ->
              {Says("00", {"1", "2"},
                    <<Cardinality({i \in DOMAIN creds : creds[i].resident}), MaxIds - made>>, Keep)}
         [] m.sub \in {2, 4} ->
              IF Listing(call) = <<>> THEN {CredFails("2e")} ELSE FirstEntries(Listing(call))
         [] m.sub \in {6, 7} /\ Find(m.id) = {} -> {CredFails("2e")}
         [] m.sub = 6 /\ Find(m.id) # {} ->
              {Says("00", {}, <<>>, [Keep EXCEPT !.creds = Without(m.id)])}
         [] m.sub = 7 /\ Find(m.id) # {} ->
              {Says("00", {}, <<>>,
                    [Keep EXCEPT !.creds = [i \in DOMAIN @ |->
                       IF @[i].id = m.id THEN [@[i] EXCEPT !.user = m.user] ELSE @[i]]])}

(* enumerateXxxGetNext: the next entry, if there is one.                   *)
ExecuteGetNext ==
  IF cursor = <<>> THEN CredFails("30")
  ELSE Says("00", EntryFields(call), <<Head(cursor)>>, [Keep EXCEPT !.cursor = Tail(cursor)])

New(rp, user, resident) == [id |-> made + 1, rp |-> rp, user |-> user, resident |-> resident]

Added(new) == [Keep EXCEPT !.creds = Append(@, new), !.made = @ + 1]

(* Both CTAP2 and U2F need a touch, which the user may refuse.             *)
ExecuteMake(m) ==
  IF "hmac-secret-mc" \in m.extensions /\ "hmac-secret" \notin m.extensions THEN {CredFails("14")}
  ELSE IF \E x \in ToSet(creds) : x.id \in m.list /\ x.rp = m.rp THEN {CredFails("19")}
  ELSE IF made = MaxIds THEN {CredFails("28")}
  ELSE {CredFails("27"), Says("00", {"1", "2", "3"} \cup m.extensions, <<made + 1>>,
                              Added(New(m.rp, m.user, m.resident)))}

Matching(m) ==
  IF m.list = {} THEN Resident(m.rp)
  ELSE CredsAt({i \in DOMAIN creds : creds[i].rp = m.rp /\ creds[i].id \in m.list})

ExecuteAssertion(m) ==
  IF Matching(m) = <<>> THEN {CredFails("2e")}
  ELSE {CredFails("27"),
        Says("00", {"1", "2", "3", "5"} \cup m.extensions, <<Head(Matching(m)).id>>,
             [Keep EXCEPT !.assertions = Tail(Matching(m))])}

(* U2F status words; 9000 for check-only is another firmware's answer.     *)
ExecuteU2f(m) ==
  LET valid == \E x \in Find(m.id) : x.rp = m.rp IN
  CASE m.op = "version" -> {Says("9000", {"U2F_V2"}, <<>>, Keep)}
    [] m.op # "version" /\ alwaysUv -> {CredFails("6d00")}
    [] m.op = "register" /\ ~alwaysUv ->
         {CredFails("6985")}
           \cup (IF made < MaxIds
                 THEN {Says("9000", {"05", "key", "handle", "certificate", "signature"},
                            <<made + 1>>, Added(New(m.rp, m.user, FALSE)))} ELSE {})
    [] m.op \in {"authenticate", "check_only"} /\ ~alwaysUv /\ ~valid -> {CredFails("6a80")}
    [] m.op = "check_only" /\ ~alwaysUv /\ valid -> {CredFails("6985"), CredFails("9000")}
    [] OTHER ->
         {CredFails("6985"), Says("9000", {"presence", "counter", "signature"}, <<m.id>>, Keep)}

Execute(m) ==
  CASE m.op \in Managed -> ExecuteManagement(m)
    [] m.op = "make_credential" -> ExecuteMake(m)
    [] m.op = "get_assertion" -> ExecuteAssertion(m)
    [] m.op = "get_next_assertion" ->
         {IF assertions = <<>> THEN CredFails("30")
          ELSE Says("00", {"1", "2", "3"}, <<Head(assertions).id>>,
                    [Keep EXCEPT !.assertions = Tail(assertions)])}
    [] m.op = "reset" ->
         {CredFails("30"), CredFails("2f"),
          Says("00", {}, <<>>, [Keep EXCEPT !.creds = <<>>, !.inForce = Absent])}
    [] m.op = "selection" -> {CredFails("27"), CredFails("00")}
    [] m.op = "get_info" -> {Says("00", {"1", "2", "3", "4"}, <<>>, Keep)}
    [] m.op \in U2f -> ExecuteU2f(m)

(* Other firmware may leave out a field or add one.                        *)
OrAltered(answers) ==
  answers \cup {[a EXCEPT !.fields = f] :
                  a \in {x \in answers : x.status \in {"00", "9000"}},
                  f \in {{"1", "3"}, {"2", "3"}, {"8", "128"}}}

-----------------------------------------------------------------------------
(* Parsers: the fields that a success must carry.                          *)

parse_get_info(fields) == {"1", "3"} \subseteq fields

parse_make_credential(fields) ==
  {"1", "2", "3"} \subseteq fields /\ (call.mc => "hmac-secret-mc" \in fields)

(* The credential, the user and the count are optional.                    *)
parse_get_assertion(fields) ==
  /\ {"2", "3"} \subseteq fields
  /\ call.op = "get_assertion" /\ call.hmac => "hmac-secret" \in fields

parse_creds_metadata(fields) == {"1", "2"} \subseteq fields

parse_rp_entry(fields) == {"3", "4"} \subseteq fields

(* A credential id, and either a public key or its algorithm.              *)
parse_credential_entry(fields) == "7" \in fields /\ ("8" \in fields) # ("128" \in fields)

parse_registration(fields) == {"05", "key", "handle", "certificate", "signature"} \subseteq fields

parse_authentication(fields) == {"presence", "counter", "signature"} \subseteq fields

parse_version(fields) == fields = {"U2F_V2"}

empty_payload(fields) == fields = {}

Entry(fields) ==
  IF call.op = "enumerate_rps" THEN parse_rp_entry(fields) ELSE parse_credential_entry(fields)

Parses(fields) ==
  CASE call.op \in Silent -> empty_payload(fields)
    [] call.op = "get_info" -> parse_get_info(fields)
    [] call.op = "make_credential" -> parse_make_credential(fields)
    [] call.op \in {"get_assertion", "get_next_assertion"} -> parse_get_assertion(fields)
    [] call.op = "get_creds_metadata" -> parse_creds_metadata(fields)
    [] call.op \in Enumerations -> "total" \in fields /\ Entry(fields)
    [] call.op = "register" -> parse_registration(fields)
    [] call.op = "authenticate" -> parse_authentication(fields)
    [] call.op = "version" -> parse_version(fields)
    [] call.op = "check_only" -> FALSE

-----------------------------------------------------------------------------
(* Operations                                                              *)

CredBecomes(c) ==
  /\ creds' = c.creds /\ made' = c.made /\ inForce' = c.inForce
  /\ cursor' = c.cursor /\ assertions' = c.assertions

CredFinish(how) == credStage' = "Idle" /\ credOutcome' = how /\ remaining' = 0 /\ UNCHANGED spent

(* The next command, if the budget allows it after the pages of the last.  *)
CredIssue(next, reads, pages) ==
  /\ extra' = extra + pages /\ remaining' = reads
  /\ \/ /\ credUsed + extra + pages + 1 > credBudget
        /\ credStage' = "Idle" /\ credOutcome' = "Budget" /\ UNCHANGED credUsed
     \/ /\ credUsed + extra + pages + 1 <= credBudget
        /\ credStage' = next /\ credUsed' = credUsed + 1 /\ UNCHANGED credOutcome

CredSelected ==
  /\ credStage = "Select"
  /\ CredIssue("Message", 0, 0)
  /\ UNCHANGED <<call, items, credBudget, result, stores, device, announced>>

CredSelectRefused ==
  /\ credStage = "Select" /\ CredFinish("UnsupportedDevice")
  /\ UNCHANGED <<call, items, credBudget, result, stores, device, announced>>

(* SELECT and Begin each take an exchange.                                 *)
max_get_next == IF credBudget >= 2 THEN credBudget - 2 ELSE 0

(* Enumerate::next in Stage::Begin, for a success.                         *)
Begun(total, entry, pages) ==
  \/ total = 0 /\ CredFinish("InvalidResponse") /\ UNCHANGED items
  \/ /\ total > 0
     /\ items' = <<entry>>
     /\ \/ total - 1 > max_get_next /\ CredFinish("LimitExceeded")
        \/ total = 1 /\ CredFinish("Done")
        \/ 1 < total /\ total - 1 <= max_get_next /\ CredIssue("GetNext", total - 1, pages)

(* Faulty: the last entry is not asked for.                                *)
NoMoreEarly == remaining <= 2

NoMore == remaining = 1

SuccessStatus == {"00", "9000"}

(* 6985 is the answer for a valid handle.                                  *)
check_only(status) == status = "6985"

(* The outcome of an operation other than an enumeration: typed and its    *)
(* parser, or the status word of U2F.                                      *)
Parsed(answer) ==
  IF call.op = "check_only" /\ check_only(answer.status) THEN "Done"
  ELSE IF answer.status \notin SuccessStatus THEN answer.status
  ELSE IF Parses(answer.fields) THEN "Done" ELSE "InvalidResponse"

(* Enumerate::next in Stage::Begin.                                        *)
AnsweredBegin(answer, pages) ==
  \/ /\ answer.status = "00" /\ Parses(answer.fields)
     /\ announced' = answer.value[1]
     /\ Begun(answer.value[1], answer.value[2], pages)
  \/ /\ answer.status # "00" \/ ~Parses(answer.fields)
     /\ CredFinish(IF answer.status = "2e" THEN "Done"
                   ELSE IF answer.status # "00" THEN answer.status ELSE "InvalidResponse")
     /\ UNCHANGED <<items, announced>>

(* The answer to the first message.                                        *)
Answered ==
  /\ credStage = "Message"
  /\ \E answer \in OrAltered(Execute(message(call))), pages \in 0 .. 1 :
       /\ CredBecomes(answer.card)
       /\ \/ call.op \in Enumerations /\ AnsweredBegin(answer, pages) /\ UNCHANGED result
          \/ /\ call.op \notin Enumerations
             /\ CredFinish(Parsed(answer))
             /\ result' = (IF Parsed(answer) = "Done" THEN answer.value ELSE <<>>)
             /\ UNCHANGED <<items, announced>>
  /\ UNCHANGED <<call, credBudget, device>>

(* Enumerate::next in Stage::GetNext.                                      *)
AnsweredNext ==
  /\ credStage = "GetNext"
  /\ \E answer \in OrAltered({ExecuteGetNext}) :
       /\ CredBecomes(answer.card)
       /\ \/ /\ answer.status # "00" \/ ~Entry(answer.fields)
             /\ CredFinish(IF answer.status # "00" THEN answer.status ELSE "InvalidResponse")
             /\ UNCHANGED items
          \/ /\ answer.status = "00" /\ Entry(answer.fields)
             /\ items' = Append(items, answer.value[1])
             /\ \/ NoMore /\ CredFinish("Done")
                \/ ~NoMore /\ \E pages \in 0 .. 1 : CredIssue("GetNext", remaining - 1, pages)
  /\ UNCHANGED <<call, credBudget, result, device, announced>>

(* The answer is lost or unreadable; the command was executed or not.      *)
Lost ==
  /\ credStage # "Idle" /\ CredFinish("Lost")
  /\ \/ UNCHANGED stores
     \/ credStage = "Message" /\ \E answer \in Execute(message(call)) : CredBecomes(answer.card)
     \/ credStage = "GetNext" /\ CredBecomes(ExecuteGetNext.card)
  /\ UNCHANGED <<call, items, credBudget, result, device, announced>>

(* The device is unplugged: its token and its cursors are gone.            *)
PowerCycle ==
  /\ credStage = "Idle"
  /\ inForce' = Absent /\ cursor' = <<>> /\ assertions' = <<>>
  /\ UNCHANGED <<call, credStage, credMachine, credBudget, spent, credOutcome, result, creds, made>>
  /\ UNCHANGED <<device, announced>>

CredNext ==
  \/ \E c \in Calls, x \in CredExchanges : Start(c, x)
  \/ CredSelected \/ CredSelectRefused \/ Answered \/ AnsweredNext \/ Lost \/ PowerCycle

CredSpec == CredInit /\ [][CredNext]_credVars

-----------------------------------------------------------------------------
(* An enumeration that succeeds returns every entry of the authenticator   *)
(* once and in its order, none if there are none, provided that the total  *)
(* it announced is right.  A GetNext loop that is entered can be finished  *)
(* within the budget if every answer is one frame, whatever total the      *)
(* authenticator announces.                                                *)
EnumerationTrue ==
  /\ /\ credStage = "Idle" /\ credOutcome = "Done" /\ call.op \in Enumerations
     /\ announced # Absent => announced = Len(Listing(call))
     => items = Listing(call)
  /\ credStage = "GetNext" => credUsed + remaining - 1 <= credBudget

(* The credentials that an operation promises to leave.                    *)
Promised ==
  CASE call.op = "delete_credential" -> Without(call.id)
    [] call.op = "update_user_information" ->
         [i \in DOMAIN creds |->
            IF creds[i].id = call.id THEN [creds[i] EXCEPT !.user = call.user] ELSE creds[i]]
    [] call.op = "make_credential" -> Append(creds, New(call.rp, call.user, call.resident))
    [] call.op = "register" -> Append(creds, New(call.rp, call.user, FALSE))
    [] call.op = "reset" -> <<>>
    [] OTHER -> creds

(* How an operation that ends has left the credentials, and what its       *)
(* outcome says.                                                           *)
TruthfulEnd ==
  CASE credOutcome' = "Done" ->
         /\ creds' = Promised
         /\ call.op = "check_only" => \E x \in Find(call.id) : x.rp = call.rp
         /\ call.op \in {"get_assertion", "authenticate"} =>
              \E x \in Find(result'[1]) : x.rp = call.rp
         /\ call.op \in {"make_credential", "register"} => result' = <<Last(creds').id>>
    [] credOutcome' \in {"Lost", "InvalidResponse"} -> creds' \in {creds, Promised}
    [] OTHER ->
         /\ creds' = creds
         /\ credOutcome' = "33" => inForce = Absent \/ call.token # inForce
         /\ call.mc => credOutcome' # "14"

(* An operation that succeeds has left the credentials as promised, and    *)
(* what it returns is true of them; one that is refused has changed        *)
(* nothing, and is not refused for a MAC under the token in force nor for  *)
(* hmac-secret-mc without its companion; only a lost or unreadable answer  *)
(* leaves the application in doubt.                                        *)
CredentialOutcomeTrue ==
  [][credStage # "Idle" /\ credStage' = "Idle" => TruthfulEnd]_credVars
=============================================================================
