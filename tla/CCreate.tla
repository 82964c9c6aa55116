------------------------------ MODULE CCreate -------------------------------
(***************************************************************************)
(* One call of any factory of the C ABI, with any arguments.               *)
(***************************************************************************)
EXTENDS CFactories

VARIABLES
  factory,   \* the factory called
  arguments, \* what it was given
  result     \* what it returned, or Pending

createVars == <<factory, arguments, result>>

Pending == [code |-> "none", error |-> NoError, made |-> [kind |-> "NULL", access |-> "none"],
            read |-> {}, copied |-> {}]

CreateInit ==
  /\ factory \in Factories
  /\ arguments \in Calls(factory)
  /\ result = Pending

Create ==
  /\ result = Pending
  /\ result' = create(factory, arguments)
  /\ UNCHANGED <<factory, arguments>>

-----------------------------------------------------------------------------
(* The order of the steps protects the caller: no factory looks at the     *)
(* selection bit of an options structure it has not found long enough, and *)
(* none copies a PIV payload beyond the input budget, not even one that is *)
(* refused later.  Of the requests of OATH, OpenPGP and Admin this does    *)
(* not hold: they are copied first, and the library bounds them.           *)
InputsReadSafely ==
  /\ result.read \cap {"select", "selection"} # {} => arguments.opts \notin {"short", "invalid"}
  /\ result.copied \cap Payloads # {} => ~arguments.oversize

(* A handle is made only of arguments that are all right, and it stands    *)
(* for what they say: the credentials given, or the card's existing        *)
(* authentication and then no credentials.  Input beyond the budget is in  *)
(* an operation only where the library alone bounds it.  A refusal makes   *)
(* no handle, and the error it reports agrees with its code.               *)
MadeAsAsked ==
  /\ result.made.kind # "NULL" =>
       /\ result.code = "OK" /\ result.error = NoError
       /\ result.made.kind = factory.kind
       /\ arguments.wrong = "none" /\ arguments.library = Accepted
       /\ arguments.oversize => Steps(factory) \cap Copies = {"request"}
       /\ arguments.opts \notin {"short", "invalid"}
       /\ arguments.auth \in {"none", "pin", "management", "both"}
       /\ result.made.access = IF arguments.opts = "existing" THEN "existing" ELSE arguments.auth
       /\ arguments.opts = "existing" => arguments.auth = "none"
  /\ result # Pending /\ result.made.kind = "NULL" =>
       /\ result.code # "OK"
       /\ result.error # NoError => result.code = failure(result.error).code
=============================================================================
