------------------------- MODULE OperationLifecycle -------------------------
(***************************************************************************)
(* What an Operation<T> promises its caller, and all the caller may rely   *)
(* on: a bounded dialogue.  Before it ends it has exposed at most Limit    *)
(* commands, each answered before the next one; it ends exactly once; a    *)
(* result exists only after success and leaves the operation at most once; *)
(* an error is kept from a failure on and never changes afterwards.        *)
(***************************************************************************)
EXTENDS Naturals

CONSTANT Limit    \* how many commands may be exposed

VARIABLES
  phase,     \* the caller-visible OperationState
  sent,      \* commands exposed
  result,    \* "none", "held" or "moved"
  failed     \* an error is stored

lvars == <<phase, sent, result, failed>>

LInit ==
  /\ phase = "Created"
  /\ sent = 0
  /\ result = "none"
  /\ failed = FALSE

Running == phase \in {"Created", "AwaitingResponse"}

(* The next command is pending.                                            *)
Expose ==
  /\ Running /\ sent < Limit
  /\ phase' = "AwaitingResponse"
  /\ sent' = sent + 1
  /\ UNCHANGED <<result, failed>>

Complete ==
  /\ Running
  /\ phase' = "Completed"
  /\ result' = "held"
  /\ UNCHANGED <<sent, failed>>

Break ==
  /\ Running
  /\ phase' = "Failed"
  /\ failed' = TRUE
  /\ UNCHANGED <<sent, result>>

Abandon ==
  /\ Running
  /\ phase' = "Cancelled"
  /\ UNCHANGED <<sent, result, failed>>

Take ==
  /\ phase = "Completed"
  /\ phase' = "ResultTaken"
  /\ result' = "moved"
  /\ UNCHANGED <<sent, failed>>

LNext == Expose \/ Complete \/ Break \/ Abandon \/ Take

LSpec == LInit /\ [][LNext]_lvars
=============================================================================
