----------------------------- MODULE CFactories -----------------------------
(***************************************************************************)
(* canokey-c: the functions that make an operation.  Each goes through its *)
(* arguments in an order of its own, the order in which its Rust closure   *)
(* evaluates them, and the first one refused decides the code and the      *)
(* error the C caller sees.  A factory is therefore the kind of operation  *)
(* it makes and the sequence of its steps; the arguments of a call are     *)
(* the ways they may be wrong.                                             *)
(***************************************************************************)
EXTENDS Naturals, Sequences

-----------------------------------------------------------------------------
(* Codes and errors                                                        *)

(* present holds the optional fields of an error.                          *)
NoError == [kind |-> "none", present |-> {}]

Error(kind) == [kind |-> kind, present |-> {}]

Accepted == [code |-> "OK", error |-> NoError]

(* A refusal without a word in the error structure.                        *)
Refused == [code |-> "ARG", error |-> NoError]

failure(error) ==
  [code |-> CASE error.kind \in {"InvalidArgument", "InvalidPin"} -> "ARG"
              [] error.kind = "OperationStateError" -> "STATE"
              [] OTHER -> "PROTOCOL",
   error |-> error]

-----------------------------------------------------------------------------
(* Arguments                                                               *)

(* CnkOptions: NULL, with or without the flag CNK_PIV_USE_EXISTING, a      *)
(* struct_size too small, an unknown flag or a zero budget.                *)
OptionsGiven == {"null", "plain", "existing", "short", "invalid"}

options(p) == IF p \in {"null", "plain"} THEN Accepted ELSE Refused

piv_options(p) == IF p \in {"null", "plain", "existing"} THEN Accepted ELSE Refused

(* CnkPivAccess, and the CnkManagement it points to.                       *)
AccessGiven ==
  {"none", "pin", "management", "both", "short", "badpin", "nullpin", "badmanagement",
   "badchallenge"}

access(p) ==
  CASE p \in {"short", "nullpin", "badmanagement"} -> Refused
    [] p = "badpin" -> failure(Error("InvalidPin"))
    [] p = "badchallenge" -> failure(Error("InvalidArgument"))
    [] OTHER -> Accepted

(* Faulty: credentials beside CNK_PIV_USE_EXISTING are dropped.            *)
ExistingOnlyDropped(a) == Accepted

(* The authentication the card already has excludes another one.           *)
ExistingOnly(a) == IF a.opts = "existing" /\ a.auth # "none" THEN Refused ELSE Accepted

(* piv_access: options, the access given, then the selection bit.          *)
piv_access(given) == <<"piv_options">> \o given \o <<"select">>

Auth == piv_access(<<"auth">>)

Public == piv_access(<<>>)

(* Faulty: the input is copied before its length is compared.              *)
piv_inputCopiedFirst == <<"data", "limit">>

(* piv_input: the length against the budget, then the copy.                *)
piv_input == <<"limit", "data">>

(* The descriptors and scalars that report what they refuse, and how.      *)
Reports(step) ==
  CASE step \in {"pin", "new_pin", "credential"} -> {failure(Error("InvalidPin"))}
    [] step \in {"key", "management", "name", "access_key"} -> {failure(Error("InvalidArgument"))}
    [] step \in {"tag", "config"} -> {failure(Error("InvalidResponse"))}
    [] step = "material" ->
         {failure(Error("InvalidArgument")), failure(Error("UnsupportedAlgorithm"))}
    [] step = "items" ->
         {failure(Error(k)) :
            k \in {"InvalidArgument", "InvalidPin", "InvalidResponse", "UnsupportedAlgorithm"}}
    [] OTHER -> {}

(* The steps that copy a PIV payload: an object, a certificate, an input.  *)
Payloads == {"data", "items"}

(* The steps that copy input of any length.  The requests of OATH, OpenPGP *)
(* and Admin are copied where the descriptor is read, their secrets and    *)
(* data with them; other arguments are of a fixed or a small length.       *)
Copies == Payloads \cup {"request"}

(* What a step makes of the arguments a.  Steps of no other name are       *)
(* arguments with one way to be right: a handle that is not NULL, a known  *)
(* slot, algorithm, mode, length or descriptor.                            *)
Check(step, a) ==
  CASE step = "options" -> options(a.opts)
    [] step = "piv_options" -> piv_options(a.opts)
    [] step = "auth" -> access(a.auth)
    [] step = "select" -> ExistingOnly(a)
    [] step = "selection" -> Accepted
    [] step = "limit" -> IF a.oversize THEN failure(Error("LimitExceeded")) ELSE Accepted
    [] step = "library" -> a.library
    [] OTHER -> IF a.wrong = step THEN a.refusal ELSE Accepted

Special == {"options", "piv_options", "auth", "select", "selection", "limit", "library"}

-----------------------------------------------------------------------------
(* The factories                                                           *)

Factory(kind, steps) == [kind |-> kind, steps |-> steps \o <<"library">>]

probe_device == Factory("Probe", <<"mode", "options">>)

probe_device_with_serial == Factory("Probe", <<"serial", "mode", "options">>)

verify_pin == Factory("Unit", <<"profile", "pin", "options">>)

get_pin_status == Factory("PinStatus", <<"profile", "options">>)

get_pin_status_selected == Factory("PinStatus", <<"options">>)

read_object == Factory("Object", <<"tag", "profile">> \o Public \o <<"piv_options">>)

read_certificate == Factory("Certificate", <<"slot", "profile">> \o Public \o <<"piv_options">>)

authenticate_management_key ==
  Factory("Unit", <<"piv_options", "profile", "management", "selection">>)

write_object ==
  Factory("Mutation", <<"piv_options", "limit", "profile", "tag", "data">> \o Auth)

write_certificate ==
  Factory("Mutation", <<"piv_options", "limit", "profile", "slot", "data">> \o Auth)

delete_certificate == Factory("Mutation", <<"profile", "slot">> \o Auth \o <<"piv_options">>)

set_management_key ==
  Factory("Mutation", <<"length", "key", "touch", "profile">> \o Auth \o <<"piv_options">>)

read_object_container ==
  Factory("Object", <<"profile", "piv_options">> \o Public \o <<"tag">>)

write_object_container ==
  Factory("Mutation", <<"profile", "piv_options">> \o Auth \o <<"limit", "tag">> \o piv_input)

pin_managed == Factory("Object", <<"profile", "piv_options">> \o Auth \o <<"entropy">>)

generate_key ==
  Factory("PublicKey", <<"profile", "parameters">> \o Auth \o <<"piv_options">>)

import_key ==
  Factory("Mutation", <<"parameters", "profile", "material">> \o Auth \o <<"piv_options">>)

get_metadata == Factory("Metadata", <<"reference", "profile">> \o Auth \o <<"piv_options">>)

read_algorithm_config ==
  Factory("AlgorithmConfig", <<"profile">> \o Auth \o <<"piv_options">>)

sign ==
  Factory("Signature",
          <<"piv_options">> \o piv_input \o <<"kind", "profile", "slot", "algorithm">> \o Auth)

decrypt ==
  Factory("Object", <<"piv_options", "profile", "slot", "algorithm">> \o piv_input \o Auth)

derive ==
  Factory("Object", <<"piv_options", "limit", "profile", "slot", "algorithm", "data">> \o Auth)

decapsulate == Factory("Object", <<"piv_options", "profile", "slot">> \o piv_input \o Auth)

(* The user ID is bounded before the message is copied, the mode known     *)
(* after it.                                                               *)
streaming_input == <<"user_id">> \o piv_input \o <<"mode">>

sign_streaming ==
  Factory("Signature", <<"piv_options", "profile", "slot">> \o streaming_input \o Auth)

require_empty_key_slot ==
  Factory("Unit", <<"profile", "piv_options">> \o Public \o <<"slot">>)

(* The lengths of all requests are added up before any is copied.          *)
batch == Factory("Batch", <<"requests", "options", "sizes", "limit", "items", "profile">>)

read_metadata_directory == Factory("Directory", <<"profile">> \o Auth \o <<"piv_options">>)

read_container_name ==
  Factory("ContainerName", <<"profile", "reference">> \o Auth \o <<"piv_options">>)

set_container_name ==
  Factory("Mutation", <<"length", "profile", "reference", "name">> \o Auth \o <<"piv_options">>)

move_key == Factory("Mutation", <<"profile", "source", "target">> \o Auth \o <<"piv_options">>)

delete_key == Factory("Mutation", <<"profile", "slot">> \o Auth \o <<"piv_options">>)

reset_pin_puk_retries ==
  Factory("Mutation", <<"profile", "pin_retries", "puk_retries">> \o Auth \o <<"piv_options">>)

set_algorithm_config ==
  Factory("Mutation", <<"length", "profile", "config">> \o Auth \o <<"piv_options">>)

attest == Factory("Object", <<"piv_options", "profile", "slot", "selection">>)

reset_piv == Factory("Mutation", <<"profile", "options">>)

read_version_selected == Factory("Object", <<"options">>)

read_configuration_selected == Factory("AlgorithmConfig", <<"options">>)

random_selected == Factory("Object", <<"options">>)

logout == Factory("Unit", <<"profile", "options">>)

change_pin == Factory("Mutation", <<"pin", "new_pin", "profile", "options">>)

change_puk == Factory("Mutation", <<"pin", "new_pin", "profile", "options">>)

unblock_pin == Factory("Mutation", <<"pin", "new_pin", "profile", "options">>)

credential ==
  Factory("Mutation", <<"piv_options", "profile", "credential", "action", "selection">>)

select_application == Factory("Object", <<"options">>)

agree_sm2 == Factory("Sm2Agreement", <<"profile", "slot", "input">> \o Auth \o <<"piv_options">>)

oath == Factory("Oath", <<"descriptor", "request", "access_key", "profile", "options">>)

openpgp == Factory("OpenPgp", <<"descriptor", "request", "password", "profile", "options">>)

admin == Factory("Admin", <<"descriptor", "request", "pin", "profile", "options">>)

Factories ==
  {probe_device, probe_device_with_serial, verify_pin, get_pin_status, get_pin_status_selected,
   read_object, read_certificate, authenticate_management_key, write_object, write_certificate,
   delete_certificate, set_management_key, read_object_container, write_object_container,
   pin_managed, generate_key, import_key, get_metadata, read_algorithm_config, sign, decrypt,
   derive, decapsulate, sign_streaming, require_empty_key_slot, batch, read_metadata_directory,
   read_container_name, set_container_name, move_key, delete_key, reset_pin_puk_retries,
   set_algorithm_config, attest, reset_piv, read_version_selected, read_configuration_selected,
   random_selected, logout, change_pin, change_puk, unblock_pin, credential, select_application,
   agree_sm2, oath, openpgp, admin}

-----------------------------------------------------------------------------
Steps(f) == {f.steps[i] : i \in DOMAIN f.steps}

(* What the applet's own factory may say: it accepts, refuses, or panics   *)
(* inside the guard.                                                       *)
LibrarySays ==
  {Accepted, failure(Error("InvalidArgument")), failure(Error("LimitExceeded")),
   [code |-> "PANIC", error |-> NoError]}

(* The calls of f with at most one argument wrong besides the options, the *)
(* access, the size of the input and what the library says.  Wherever      *)
(* input of any length is copied, it may be beyond the budget.             *)
Calls(f) ==
  LET plain == Steps(f) \ Special
      wrongs == {<<"none", Accepted>>} \cup {<<s, Refused>> : s \in plain}
                  \cup UNION {{<<s, r>> : r \in Reports(s)} : s \in plain}
  IN {[opts |-> o, auth |-> g, wrong |-> w[1], refusal |-> w[2], oversize |-> z, library |-> l] :
        o \in OptionsGiven, g \in IF "auth" \in Steps(f) THEN AccessGiven ELSE {"none"},
        w \in wrongs, z \in IF Steps(f) \cap Copies # {} THEN BOOLEAN ELSE {FALSE},
        l \in LibrarySays}

(* The first of the steps that is refused, or the one after the last.      *)
FirstRefused(steps, Verdict(_)) ==
  CHOOSE i \in 1..(Len(steps) + 1) :
    /\ i <= Len(steps) => Verdict(steps[i]).code # "OK"
    /\ \A j \in 1..(i - 1) : Verdict(steps[j]).code = "OK"

(* The access an operation is made with.                                   *)
Granted(f, a) ==
  IF {"select", "selection"} \cap Steps(f) # {} /\ a.opts = "existing" THEN "existing" ELSE a.auth

(* create: the closure runs up to the first refusal; only a whole run      *)
(* makes a handle.  read are the steps reached, copied the ones that       *)
(* copied input of any length.                                             *)
create(f, a) ==
  LET stop == FirstRefused(f.steps, LAMBDA step : Check(step, a))
      whole == stop > Len(f.steps)
      last == IF whole THEN Accepted ELSE Check(f.steps[stop], a)
  IN [code |-> last.code, error |-> last.error,
      made |-> IF whole THEN [kind |-> f.kind, access |-> Granted(f, a)]
               ELSE [kind |-> "NULL", access |-> "none"],
      read |-> {f.steps[i] : i \in 1..(IF whole THEN stop - 1 ELSE stop)},
      copied |-> {f.steps[i] : i \in 1..(stop - 1)} \cap Copies]
=============================================================================
