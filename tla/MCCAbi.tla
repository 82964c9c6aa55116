------------------------------- MODULE MCCAbi -------------------------------
(* Two worlds, chosen at the start: one call of any factory, and calls of  *)
(* the handles, one operation after another, with an error structure that  *)
(* outlives them.                                                          *)
EXTENDS CAbi, CCreate

VARIABLE world

(* A profile to take, and results that can be read before the end.         *)
MCKinds == {"Probe", "Batch"}

(* A wrong password, with its status word and retries: what a later error  *)
(* without them must not keep.                                             *)
MCFailures == {[kind |-> "AuthenticationFailed", present |-> {"sw", "retries"}]}

OneCall == CHOOSE f \in Factories : TRUE

MCInit ==
  /\ Init
  /\ \/ world = "create" /\ CreateInit
     \/ /\ world = "handles" /\ result = Pending
        /\ factory = OneCall /\ arguments = CHOOSE a \in Calls(OneCall) : TRUE

MCNext ==
  /\ UNCHANGED world
  /\ \/ world = "create" /\ Create /\ UNCHANGED vars
     \/ world = "handles" /\ Next /\ UNCHANGED createVars

MCSpec == MCInit /\ [][MCNext]_<<vars, createVars, world>>
=============================================================================
