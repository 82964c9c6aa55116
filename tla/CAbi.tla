-------------------------------- MODULE CAbi --------------------------------
(***************************************************************************)
(* canokey-c: operation and profile handles as a C caller uses them, one   *)
(* call after another, with one error structure that all the calls share.  *)
(*                                                                         *)
(* Every function first goes through a sequence of checks, and the first   *)
(* that refuses decides the code.  A panic inside the library is a choice: *)
(* while an operation is driven it poisons the handle, elsewhere it ends   *)
(* the call.  A caller keeps the contract of the header: it uses no handle *)
(* that was freed.                                                         *)
(***************************************************************************)
EXTENDS CFactories

CONSTANTS
  Handles,     \* places for an operation handle
  Null,        \* the NULL handle
  None,        \* no operation, no error
  Kinds,       \* variants of Inner that are made
  Failures,    \* errors an operation may end with
  MaxProfiles  \* bound on the live profile handles

(* An operation: its kind, its state, whether it panicked, the error it    *)
(* ended with, whether a result can be read before the end.                *)
Operations ==
  [kind : Kinds, poisoned : BOOLEAN, error : Failures \cup {None}, begun : BOOLEAN,
   state : {"Created", "AwaitingResponse", "Completed", "Failed", "Cancelled", "ResultTaken"}]

(* No error of the library has the code of no error.                       *)
ASSUME CAbiAssumption ==
  /\ Null \notin Handles /\ MaxProfiles \in Nat
  /\ None \notin Operations /\ None \notin Failures
  /\ \A e \in Failures : e = [kind |-> e.kind, present |-> e.present] /\ e.kind # "none"

VARIABLES
  ops,       \* handle -> CnkOperation, or None
  profiles,  \* live CnkProfile handles
  pod,       \* the caller's CnkError
  last       \* the last call: what it was, its handle, its code, what it gave

vars == <<ops, profiles, pod, last>>

Init ==
  /\ ops = [h \in Handles \cup {Null} |-> None]
  /\ profiles = 0 /\ pod = NoError
  /\ last = [call |-> "none", handle |-> Null, code |-> "OK", gave |-> "nothing", error |-> "null"]

-----------------------------------------------------------------------------
(* Checks                                                                  *)

Code(code) == [code |-> code, error |-> NoError]

Pass(condition, code) == IF condition THEN Accepted ELSE Code(code)

(* What was done so far may be read before the operation is complete, an   *)
(* Admin outcome at any time, a batch once its requests have begun; a      *)
(* cancelled operation has nothing left.                                   *)
HasProgress(op) ==
  \/ op.state = "Completed"
  \/ op.begun /\ op.state \in {"Created", "AwaitingResponse", "Failed"}

(* copy: "query" is a NULL buffer, "nolen" a NULL length.                  *)
copy(how) == Pass(how \in {"query", "fits"}, IF how = "small" THEN "SMALL" ELSE "ARG")

(* A call c names its handle, its error pointer, the kinds it reads, the   *)
(* buffer it brings, and one argument or answer that is wrong.             *)
Verdict(step, c) ==
  LET op == ops[c.handle] IN
  CASE step = "clear" -> Pass(c.error # "short", "ARG")
    [] step = "handle" -> Pass(op # None, "ARG")
    [] step = "poison" -> Pass(~op.poisoned, "STATE")
    [] step = "type" -> Pass(op.kind \in c.kinds, "TYPE")
    [] step = "awaiting" -> Pass(op.state = "AwaitingResponse", "STATE")
    [] step = "result" -> Pass(op.state = "Completed", "STATE")
    [] step = "progress" -> Pass(HasProgress(op), "STATE")
    [] step = "failed" -> Pass(op.error # None, "STATE")
    [] step = "copy" -> copy(c.buffer)
    [] OTHER -> IF c.wrong = step THEN c.refusal ELSE Accepted

(* The codes of the arguments and answers that may be wrong.               *)
Refusals(step) ==
  CASE step \in {"out", "step", "index", "flags", "length", "enabled", "algorithm", "profile"} ->
         {Code("ARG")}
    [] step = "form" -> {Code("TYPE")}
    [] step = "field" -> {Code("ARG"), Code("TYPE"), Code("PROTOCOL")}
    [] step = "limit" -> {failure(Error("LimitExceeded"))}
    [] step = "library" -> LibrarySays \ {Accepted}
    [] step = "panic" -> {Code("PANIC")}
    [] OTHER -> {}

Stop(steps, c) == FirstRefused(steps, LAMBDA step : Verdict(step, c))

Outcome(steps, c) ==
  LET stop == Stop(steps, c) IN IF stop > Len(steps) THEN Accepted ELSE Verdict(steps[stop], c)

Position(step, steps) == CHOOSE i \in DOMAIN steps : steps[i] = step

Passed(step, steps, c) ==
  (\E i \in DOMAIN steps : steps[i] = step) /\ Position(step, steps) < Stop(steps, c)

(* The calls with one thing wrong: the buffer, an argument or an answer.   *)
CallsWith(steps, kinds) ==
  LET names == {steps[i] : i \in DOMAIN steps}
      buffers == IF "copy" \in names THEN {"nolen", "query", "small", "fits"} ELSE {"query"}
      wrongs == {<<b, "none", Accepted>> : b \in buffers}
                  \cup UNION {{<<"query", s, r>> : r \in Refusals(s)} : s \in names}
  IN {[handle |-> h, error |-> e, kinds |-> kinds,
       buffer |-> w[1], wrong |-> w[2], refusal |-> w[3]] :
        h \in IF "handle" \in names THEN {x \in Handles : ops[x] # None} \cup {Null} ELSE {Null},
        e \in IF "clear" \in names THEN {"null", "short", "pod"} ELSE {"null"},
        w \in wrongs}

(* Faulty: the presence flags of the previous error are kept.              *)
clear_errorFlagsKept(before) == [before EXCEPT !.kind = "none"]

(* clear_error                                                             *)
clear_error(before) == NoError

(* The error structure after the checks: failure adds its presence flags   *)
(* to the ones that are set.                                               *)
Reported(before, error) ==
  IF error = NoError THEN before
  ELSE [kind |-> error.kind, present |-> before.present \cup error.present]

PodAfter(steps, c, error) ==
  IF c.error = "pod" /\ Passed("clear", steps, c) THEN Reported(clear_error(pod), error) ELSE pod

(* How the call ended.  early: before it came to the error structure.      *)
Returned(call, steps, c, code, gave) ==
  last' = [call |-> call, handle |-> c.handle, code |-> code, gave |-> gave,
           error |-> IF Passed("clear", steps, c) THEN c.error ELSE "null"]

-----------------------------------------------------------------------------
(* Making, driving and freeing operations                                  *)

operation_new(h, kind) ==
  LET steps == <<"out", "clear", "library">> IN
  \E c \in CallsWith(steps, {}) :
    LET outcome == Outcome(steps, c) IN
    /\ ops[h] = None
    /\ pod' = PodAfter(steps, c, outcome.error)
    /\ Returned("new", steps, [c EXCEPT !.handle = IF outcome.code = "OK" THEN h ELSE Null],
                outcome.code, "nothing")
    /\ ops' = IF outcome.code = "OK"
              THEN [ops EXCEPT ![h] = [kind |-> kind, state |-> "Created", poisoned |-> FALSE,
                                       error |-> None, begun |-> kind = "Admin"]]
              ELSE ops
    /\ UNCHANGED profiles

Drive == <<"step", "clear", "handle", "poison">>

(* Operation::start or advance in a state that does not allow it.          *)
StateError == Error("OperationStateError")

Allowed(which, op) == op.state = IF which = "start" THEN "Created" ELSE "AwaitingResponse"

Driven(which, c, code, error, gave) ==
  /\ pod' = PodAfter(Drive, c, error)
  /\ Returned(which, Drive, c, code, gave)
  /\ UNCHANGED profiles

(* The requests of a batch begin with the answer to some command: not with *)
(* the first, which selects the applet.                                    *)
Begun(which, op) ==
  IF which = "advance" /\ op.kind = "Batch" THEN {op.begun, TRUE} ELSE {op.begun}

(* Operation::cancel                                                       *)
Cancelled(op) ==
  IF op.state \in {"Created", "AwaitingResponse"} THEN [op EXCEPT !.state = "Cancelled"] ELSE op

(* The panic of drive.                                                     *)
Poisoned(op) == Cancelled([op EXCEPT !.poisoned = TRUE])

(* cnk_operation_start and cnk_operation_advance                           *)
drive(which) ==
  \E c \in CallsWith(Drive, {}) :
    LET op == ops[c.handle]
        checks == Outcome(Drive, c)
    IN \/ /\ checks.code # "OK"
          /\ Driven(which, c, checks.code, checks.error, "zero") /\ UNCHANGED ops
       \/ /\ checks.code = "OK" /\ ~Allowed(which, op)
          /\ Driven(which, c, failure(StateError).code, StateError, "zero") /\ UNCHANGED ops
       \/ /\ checks.code = "OK" /\ Allowed(which, op)
          /\ \/ /\ \E b \in Begun(which, op) :
                     ops' = [ops EXCEPT ![c.handle].state = "AwaitingResponse",
                                        ![c.handle].begun = b]
                /\ Driven(which, c, "OK", NoError, "exchange")
             \/ /\ ops' = [ops EXCEPT ![c.handle].state = "Completed"]
                /\ Driven(which, c, "OK", NoError, "done")
             \/ \E e \in Failures, b \in Begun(which, op) :
                  /\ ops' = [ops EXCEPT ![c.handle].state = "Failed", ![c.handle].error = e,
                                        ![c.handle].begun = b]
                  /\ Driven(which, c, failure(e).code, e, "zero")
             \/ /\ ops' = [ops EXCEPT ![c.handle] = Poisoned(op)]
                /\ Driven(which, c, "PANIC", NoError, "zero")

(* cnk_operation_advance with a response that is no range: the step and    *)
(* the error are cleared, the operation is not looked at.                  *)
advance_refused ==
  \E h \in {x \in Handles : ops[x] # None} \cup {Null}, e \in {"null", "short", "pod"} :
    /\ pod' = IF e = "pod" THEN clear_error(pod) ELSE pod
    /\ last' = [call |-> "advance", handle |-> h, code |-> "ARG", gave |-> "zero", error |-> e]
    /\ UNCHANGED <<ops, profiles>>

(* cnk_operation_cancel                                                    *)
operation_cancel ==
  \E h \in {x \in Handles : ops[x] # None} \cup {Null} :
    /\ ops' = IF ops[h] = None THEN ops ELSE [ops EXCEPT ![h] = Cancelled(ops[h])]
    /\ last' = [call |-> "cancel", handle |-> h, code |-> IF ops[h] = None THEN "ARG" ELSE "OK",
                gave |-> "nothing", error |-> "null"]
    /\ UNCHANGED <<profiles, pod>>

operation_free(h) ==
  /\ ops[h] # None
  /\ ops' = [ops EXCEPT ![h] = None]
  /\ last' = [call |-> "free", handle |-> h, code |-> "OK", gave |-> "nothing", error |-> "null"]
  /\ UNCHANGED <<profiles, pod>>

profile_free ==
  /\ profiles > 0 /\ profiles' = profiles - 1
  /\ last' = [call |-> "profile_free", handle |-> Null, code |-> "OK", gave |-> "nothing",
              error |-> "null"]
  /\ UNCHANGED <<ops, pod>>

(* cnk_operation_take_profile                                              *)
take_profile ==
  LET steps == <<"out", "handle", "poison", "type", "result", "panic">> IN
  \E c \in CallsWith(steps, {"Probe"}) :
    LET code == Outcome(steps, c).code IN
    /\ profiles < MaxProfiles
    /\ profiles' = IF code = "OK" THEN profiles + 1 ELSE profiles
    /\ ops' = IF code = "OK" THEN [ops EXCEPT ![c.handle].state = "ResultTaken"] ELSE ops
    /\ Returned("take_profile", steps, c, code, IF code = "OK" THEN "profile" ELSE "nothing")
    /\ UNCHANGED pod

(* cnk_operation_error: the stored error goes to the structure.            *)
operation_error ==
  LET steps == <<"out", "clear", "handle", "poison", "failed">> IN
  \E c \in {x \in CallsWith(steps, {}) : x.error # "null"} :
    LET code == Outcome(steps, c).code IN
    /\ pod' = PodAfter(steps, c, IF code = "OK" THEN ops[c.handle].error ELSE NoError)
    /\ Returned("error", steps, c, code, "nothing")
    /\ UNCHANGED <<ops, profiles>>

-----------------------------------------------------------------------------
(* Getters: the kinds of operation they read, and their checks             *)

Getter(kinds, steps) == [kinds |-> kinds, steps |-> steps]

OfResult == <<"handle", "poison", "type", "result">>

(* piv_batch::results                                                      *)
OfItems == <<"handle", "poison", "type", "progress", "index">>

ByteKinds ==
  {"OpenPgp", "Admin", "Metadata", "Signature", "Sm2Agreement", "Directory", "ContainerName",
   "AlgorithmConfig", "Certificate", "Object"}

command == Getter({}, <<"handle", "poison", "awaiting", "copy">>)

(* Faulty: the state of a poisoned handle can be read.                     *)
operation_stateUnchecked == Getter({}, <<"out", "handle">>)

operation_state == Getter({}, <<"out", "handle", "poison">>)

result_kind == Getter({}, <<"out", "handle", "poison", "result">>)

result_copy_bytes == Getter(ByteKinds, OfResult \o <<"form", "copy">>)

pin_status == Getter({"PinStatus", "OpenPgp"}, <<"out">> \o OfResult \o <<"form">>)

mutation_result == Getter({"Mutation"}, <<"out">> \o OfResult)

metadata == Getter({"Metadata"}, <<"out">> \o OfResult)

public_key_copy ==
  Getter({"OpenPgp", "PublicKey", "Metadata"}, OfResult \o <<"form", "field", "copy">>)

key_algorithm ==
  Getter({"OpenPgp", "Signature", "PublicKey", "Metadata"}, <<"out">> \o OfResult \o <<"form">>)

signature_p1363 == Getter({"Signature"}, OfResult \o <<"form", "copy">>)

signature_der == Getter({"Signature"}, OfResult \o <<"form", "copy">>)

signature_encoding == Getter({"Signature"}, <<"out">> \o OfResult)

batch_progress == Getter({"Batch"}, <<"out", "handle", "poison", "type", "progress">>)

batch_item_kind == Getter({"Batch"}, <<"out">> \o OfItems)

batch_item_copy_bytes == Getter({"Batch"}, OfItems \o <<"form", "copy">>)

batch_item_mutation == Getter({"Batch"}, <<"out">> \o OfItems \o <<"form">>)

batch_item_metadata == Getter({"Batch"}, OfItems \o <<"form", "out">>)

batch_item_public_key_copy == Getter({"Batch"}, OfItems \o <<"form", "field", "copy">>)

batch_item_signature_p1363 == Getter({"Batch"}, OfItems \o <<"form", "copy">>)

batch_item_signature_der == Getter({"Batch"}, OfItems \o <<"form", "copy">>)

batch_item_signature_encoding == Getter({"Batch"}, <<"out">> \o OfItems \o <<"form">>)

directory_info == Getter({"Directory"}, OfResult \o <<"out">>)

directory_entry == Getter({"Directory"}, OfResult \o <<"out", "form", "index">>)

batch_item_directory_info == Getter({"Batch"}, OfItems \o <<"form", "out">>)

batch_item_directory_entry == Getter({"Batch"}, OfItems \o <<"form", "out", "index">>)

sm2_ephemeral_copy == Getter({"Sm2Agreement"}, OfResult \o <<"copy">>)

batch_item_sm2_ephemeral_copy == Getter({"Batch"}, OfItems \o <<"form", "copy">>)

piv_configuration_copy == Getter({"AlgorithmConfig"}, OfResult \o <<"copy">>)

oath_info == Getter({"Oath"}, <<"out">> \o OfResult \o <<"index">>)

oath_copy == Getter({"Oath"}, OfResult \o <<"index", "form", "copy">>)

openpgp_kind == Getter({"OpenPgp"}, <<"out">> \o OfResult)

admin_outcome == Getter({"Admin"}, <<"out", "handle", "poison", "type", "progress">>)

Getters ==
  {command, operation_state, result_kind, result_copy_bytes, pin_status, mutation_result, metadata,
   public_key_copy, key_algorithm, signature_p1363, signature_der, signature_encoding,
   batch_progress, batch_item_kind, batch_item_copy_bytes, batch_item_mutation,
   batch_item_metadata, batch_item_public_key_copy, batch_item_signature_p1363,
   batch_item_signature_der, batch_item_signature_encoding, directory_info, directory_entry,
   batch_item_directory_info, batch_item_directory_entry, sm2_ephemeral_copy,
   batch_item_sm2_ephemeral_copy, piv_configuration_copy, oath_info, oath_copy, openpgp_kind,
   admin_outcome}

(* Functions of a profile handle.                                          *)
profile_firmware_text == Getter({}, <<"profile", "copy">>)

profile_firmware_version == Getter({}, <<"out", "profile", "form">>)

profile_model_copy == Getter({}, <<"profile", "form", "copy">>)

profile_serial_u32 == Getter({}, <<"out", "profile", "form">>)

profile_piv_support == Getter({}, <<"out", "profile">>)

profile_piv_algorithm_from_wire == Getter({}, <<"out", "profile", "algorithm">>)

profile_piv_capabilities == Getter({}, <<"profile", "out">>)

ProfileGetters ==
  {profile_firmware_text, profile_firmware_version, profile_model_copy, profile_serial_u32,
   profile_piv_support, profile_piv_algorithm_from_wire, profile_piv_capabilities}

(* Nothing but the caller's own memory changes.                            *)
Get(g) ==
  LET steps == g.steps \o <<"panic">> IN
  \E c \in CallsWith(steps, g.kinds) :
    LET code == Outcome(steps, c).code IN
    /\ g \in ProfileGetters => profiles > 0
    /\ Returned("get", steps, c, code,
                IF code = "OK" /\ ~(\E i \in DOMAIN steps : steps[i] = "copy" /\ c.buffer = "query")
                THEN "value" ELSE "nothing")
    /\ UNCHANGED <<ops, profiles, pod>>

-----------------------------------------------------------------------------
(* Functions without an operation that report an error                     *)

profile_piv_require_algorithm == Getter({}, <<"clear", "profile", "algorithm", "library">>)

profile_with_legacy_piv_extensions ==
  Getter({}, <<"out", "clear", "enabled", "profile", "library">>)

piv_container_name_validate == Getter({}, <<"clear", "length", "library">>)

piv_admin_data_flags == Getter({}, <<"clear", "flags", "limit", "length", "library">>)

piv_printed_management_key_copy ==
  Getter({}, <<"clear", "flags", "limit", "length", "library", "copy">>)

Judges ==
  {profile_piv_require_algorithm, profile_with_legacy_piv_extensions, piv_container_name_validate,
   piv_admin_data_flags, piv_printed_management_key_copy}

Judge(g) ==
  \E c \in CallsWith(g.steps, {}) :
    LET outcome == Outcome(g.steps, c)
        makes == g = profile_with_legacy_piv_extensions /\ outcome.code = "OK"
    IN /\ makes => profiles \in 1..(MaxProfiles - 1)
       /\ profiles' = IF makes THEN profiles + 1 ELSE profiles
       /\ pod' = PodAfter(g.steps, c, outcome.error)
       /\ Returned("judge", g.steps, c, outcome.code, IF makes THEN "profile" ELSE "nothing")
       /\ UNCHANGED ops

Next ==
  \/ \E h \in Handles, kind \in Kinds : operation_new(h, kind)
  \/ \E which \in {"start", "advance"} : drive(which)
  \/ \E h \in Handles : operation_free(h)
  \/ advance_refused \/ operation_cancel \/ profile_free \/ take_profile \/ operation_error
  \/ \E g \in Getters \cup ProfileGetters : Get(g)
  \/ \E g \in Judges : Judge(g)

Spec == Init /\ [][Next]_vars

-----------------------------------------------------------------------------
(* After a panic the handle is sealed: until it is freed no call changes   *)
(* it, reads anything out of it or drives it, and the command that was     *)
(* pending cannot be had again.  Only cancel still says OK.                *)
PoisonSealed ==
  [][\A h \in Handles :
       ops[h] # None /\ ops[h].poisoned /\ last'.handle = h /\ last'.call # "free" =>
         /\ ops'[h] = ops[h] /\ ops[h].state = "Cancelled"
         /\ last'.code = "OK" => last'.call = "cancel"
         /\ last'.gave \in {"nothing", "zero"}
         /\ last'.error = "pod" => pod' = NoError]_vars

(* A handle's state and what its caller was told agree, and the error      *)
(* structure, if the last call came to it, is about that call alone:       *)
(* nothing of an earlier error is left in it, a failed operation's error   *)
(* is the one reported, and the code goes with the kind.                   *)
ErrorTrue ==
  last.error = "pod" =>
    LET op == ops[last.handle] IN
    /\ pod \in Failures \cup {NoError, StateError}
         \cup {r.error : r \in LibrarySays \cup Refusals("limit")}
    /\ last.code = "OK" => pod = IF last.call = "error" THEN op.error ELSE NoError
    /\ last.code # "OK" => (pod # NoError => failure(pod).code = last.code)
    /\ last.code = "PROTOCOL" => pod # NoError
    /\ last.call \in {"start", "advance"} =>
         /\ last.gave = "exchange" <=> (last.code = "OK" /\ op.state = "AwaitingResponse")
         /\ last.gave = "done" <=> (last.code = "OK" /\ op.state = "Completed")
         /\ pod # NoError => pod = StateError \/ (op.state = "Failed" /\ op.error = pod)
=============================================================================
