------------------------------- MODULE MCPiv -------------------------------
(* Two worlds of Piv, chosen at the start: rotations, and the blocking of  *)
(* the PUK.                                                                *)
EXTENDS Piv

CONSTANTS k1, k2, right, wrong

VARIABLE world

(* Access: policy, PIN, management key and mode.                           *)
Accesses(pins, keys, modes) ==
  {[NoRequest EXCEPT !.policy = y] : y \in {"None", "Existing"}}
    \cup {[NoRequest EXCEPT !.policy = "Pin", !.pin = p] : p \in pins}
    \cup {[NoRequest EXCEPT !.policy = "Management", !.key = k, !.mutual = m] :
            k \in keys, m \in modes}
    \cup {[NoRequest EXCEPT !.policy = "PinAndManagement", !.pin = p, !.key = k, !.mutual = m] :
            p \in pins, k \in keys, m \in modes}

(* Authentications that make Access::Existing useful.                      *)
Logins ==
  {[NoRequest EXCEPT !.kind = "VerifyPin", !.policy = y, !.pin = p] :
     y \in {"None", "Existing"}, p \in {right, wrong}}
    \cup {[NoRequest EXCEPT !.kind = "Logout", !.policy = "Existing"]}
    \cup {[NoRequest EXCEPT !.kind = "Authenticate", !.policy = y, !.key = k, !.mutual = m] :
            y \in {"None", "Existing"}, k \in {k1, k2}, m \in BOOLEAN}

RotateRequests ==
  Logins
    \cup {[a EXCEPT !.kind = "Rotate", !.new = k, !.update = u] :
            a \in Accesses({right}, {k1, k2}, BOOLEAN), k \in {k1, k2}, u \in BOOLEAN}
    \cup {[a EXCEPT !.kind = "Write", !.new = Bad] :
            a \in Accesses({right, wrong}, {k1, k2}, BOOLEAN)}

RotateCards ==
  [key : {k1}, printed : {k1, k2, Bad, Absent}, flags : {Absent, {}, {"protected"}},
   data : {Absent}, pin : {right}, pinRetries : {MaxPin}, puk : {7}, pukRetries : {1},
   pinOk : {FALSE}, mgmtOk : {FALSE}]

(* Replacements that are and are not among the first guesses.              *)
PukRequests ==
  {[NoRequest EXCEPT !.kind = "VerifyPin", !.policy = "None", !.pin = right]}
    \cup {[a EXCEPT !.kind = "PinManaged", !.block = b] :
            a \in {c \in Accesses({right}, {k1}, {FALSE}) : c.policy \in {"Existing", "Pin"}},
            b \in {Absent, 1, 98765432}}
    \cup {[NoRequest EXCEPT !.kind = "ChangePin", !.policy = "None", !.pin = right, !.new = wrong]}
    \cup {[NoRequest EXCEPT !.kind = "ChangePuk", !.policy = "None", !.puk = 7, !.block = 3]}
    \cup {[NoRequest EXCEPT !.kind = "UnblockPin", !.policy = "Existing", !.puk = 7,
                            !.pin = right]}

PukCards ==
  [key : {k1}, printed : {k1, k2}, flags : {{"protected"}, Flags}, data : {Absent},
   pin : {right}, pinRetries : {1}, puk : {0, 1, PukLimit - 1, 7}, pukRetries : {PukLimit},
   pinOk : {FALSE}, mgmtOk : {FALSE}]

MCCards == RotateCards \cup PukCards

MCRequests == RotateRequests \cup PukRequests

Asked ==
  [rotate |-> RotateRequests \cup {NoRequest}, puk |-> PukRequests \cup {NoRequest}]

MCInit ==
  /\ Init
  /\ world \in {"rotate", "puk"}
  /\ card \in IF world = "rotate" THEN RotateCards ELSE PukCards

MCNext == Next /\ op' \in Asked[world] /\ UNCHANGED world

(* The application hands every response it gets to the operation.          *)
MCSpec == MCInit /\ [][MCNext]_<<vars, world>> /\ WF_vars(Reply)
============================================================================
