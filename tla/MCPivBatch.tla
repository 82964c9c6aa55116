----------------------------- MODULE MCPivBatch -----------------------------
(* All batches of up to three requests, and longer ones in which a retry   *)
(* reset comes after, between or before the authentications.               *)
EXTENDS PivBatch

Request(kind, right, commands, size, input) ==
  [kind |-> kind, right |-> right, commands |-> commands, bytes |-> size, input |-> input]

Verify == Request("Verify", TRUE, 1, 0, 1)

VerifyWrong == Request("Verify", FALSE, 1, 0, 1)

Authenticate == Request("Authenticate", TRUE, 2, 0, 1)

Write == Request("Write", TRUE, 1, 0, 2)

Generate == Request("Generate", TRUE, 1, 2, 0)

SetKey == Request("SetKey", TRUE, 1, 0, 1)

Reset == Request("ResetRetries", TRUE, 1, 0, 0)

Config == Request("SetConfig", TRUE, 1, 0, 1)

Logout == Request("Logout", TRUE, 1, 0, 0)

Read == Request("Read", TRUE, 1, 2, 0)

Sign == Request("Sign", TRUE, 2, 1, 1)

All == {Verify, Authenticate, Write, Generate, SetKey, Reset, Config, Logout, Read, Sign}

MCBatches ==
  SeqOf(All, 3)
    \cup {<<VerifyWrong, s>> : s \in All}
    \cup {<<Authenticate, Verify>> \o s : s \in [1 .. 2 -> All]}
    \cup {<<Authenticate, Verify, Reset>> \o s : s \in [1 .. 2 -> All]}
============================================================================
