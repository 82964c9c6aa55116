----------------------------- MODULE BlobStore ------------------------------
(***************************************************************************)
(* What canokey-ctap's largeblob module promises an application: one       *)
(* stored array, read whole (read_array) or in part (read_chunk) and       *)
(* replaced whole (write_array).  An operation is a call and, later, an    *)
(* answer; a write that fails has replaced the array or left it alone, and *)
(* nothing in between can be read.                                         *)
(***************************************************************************)
EXTENDS Integers, Sequences

CONSTANTS
  Nothing,  \* no call, no answer
  Arrays,   \* the arrays an application may ask to store
  Sealed    \* the arrays that end in the digest of their contents

VARIABLES stored, call, answer

vars == <<stored, call, answer>>

Calls ==
  [op : {"read", "chunk"}, array : {<<>>}] \cup [op : {"write"}, array : Arrays]

Start(c) ==
  /\ call = Nothing
  /\ call' = c /\ answer' = Nothing
  /\ UNCHANGED stored

(* The parts of the array that an operation may return.                    *)
Parts(c) ==
  IF c.op = "read" THEN {stored}
  ELSE {SubSeq(stored, i, j) : i \in 1 .. Len(stored) + 1, j \in 0 .. Len(stored)}

ReadDone ==
  /\ call # Nothing /\ call.op \in {"read", "chunk"}
  /\ \E b \in Parts(call) : answer' = [how |-> "Done", bytes |-> b]
  /\ call' = Nothing
  /\ UNCHANGED stored

WriteDone ==
  /\ call # Nothing /\ call.op = "write" /\ call.array \in Sealed
  /\ stored' = call.array
  /\ answer' = [how |-> "Done", bytes |-> <<>>] /\ call' = Nothing

(* The write may have taken effect before the answer was lost.             *)
Fail ==
  /\ call # Nothing
  /\ stored' \in {stored} \cup (IF call.op = "write" THEN {call.array} \cap Sealed ELSE {})
  /\ answer' = [how |-> "Failed", bytes |-> <<>>] /\ call' = Nothing

Init == call = Nothing /\ answer = Nothing /\ stored \in Sealed

Next == (\E c \in Calls : Start(c)) \/ ReadDone \/ WriteDone \/ Fail

Spec == Init /\ [][Next]_vars
=============================================================================
