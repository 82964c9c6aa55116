------------------------------ MODULE PivBatch ------------------------------
(***************************************************************************)
(* canokey-piv batches: a list of requests under one SELECT.  What each    *)
(* request computes is left out; what remains is what a request does to    *)
(* the card's authentication, whether it changes the card, how many        *)
(* commands it takes and how many bytes its result has.                    *)
(***************************************************************************)
EXTENDS Integers, Sequences, SequencesExt

CONSTANTS
  Batches,       \* the request lists the application may submit
  MaxBatch,      \* MAX_BATCH_REQUESTS
  MaxInput,      \* OperationLimits.max_input_bytes
  MaxExchanges,  \* OperationLimits.max_exchanges
  MaxResult      \* OperationLimits.max_total_response_bytes

VARIABLES
  requests,  \* the current or last batch
  phase,     \* "Idle", "Select" or "Item"
  step,      \* commands sent of the current request
  done,      \* BatchResults.items: how many requests have a result
  bytes,     \* BatchMachine.result_bytes
  used,      \* exchanges of the operation
  kept,      \* whether batch_progress returns anything after a failure
  failed,    \* BatchResults.failed_index, from 1; 0 is None
  ended,     \* how the last batch ended
  pinOk,     \* card: the PIN is verified
  mgmtOk,    \* card: the management key is authenticated
  executed   \* history: the requests of this batch the card has carried out

results == <<done, bytes, kept, failed>>

sessions == <<pinOk, mgmtOk, executed>>

batchVars == <<requests, phase, step, results, used, ended, sessions>>

(* Requests that change what the card stores.                              *)
Mutating == {"Write", "Generate", "SetKey", "ResetRetries", "SetConfig"}

Kinds == Mutating \cup {"Verify", "Authenticate", "Logout", "Read", "Sign"}

(* A request takes at least one command; `right` says whether the PIN or   *)
(* key it presents is the card's.                                          *)
RequestType ==
  [kind : Kinds, right : BOOLEAN, commands : Nat \ {0}, bytes : Nat, input : Nat]

ASSUME BatchAssumption ==
  /\ Batches \subseteq Seq(RequestType)
  /\ MaxBatch \in Nat /\ MaxInput \in Nat /\ MaxExchanges \in Nat /\ MaxResult \in Nat

Current == requests[done + 1]

-----------------------------------------------------------------------------
(* Construction: batch                                                     *)

(* The constructor's `management` flag at request i.                       *)
ManagedAt(q, i) ==
  \E j \in 1 .. i - 1 :
    /\ q[j].kind = "Authenticate"
    /\ \A k \in j + 1 .. i - 1 : q[k].kind # "ResetRetries"

(* Faulty: any earlier VERIFY serves.                                      *)
VerifiedAtAny(q, i) == \E j \in 1 .. i - 1 : q[j].kind = "Verify"

(* The constructor's `previous_verify` flag at request i.                  *)
VerifiedAt(q, i) == i > 1 /\ q[i - 1].kind = "Verify"

InputFits(q) == FoldLeft(LAMBDA sum, r : sum + r.input, 0, q) <= MaxInput

Constructible(q) ==
  /\ Len(q) \in 1 .. MaxBatch
  /\ InputFits(q)
  /\ \A i \in DOMAIN q :
       /\ q[i].kind = "ResetRetries" => VerifiedAt(q, i)
       /\ q[i].kind = "SetConfig" => i = Len(q)
       /\ q[i].kind \in Mutating => ManagedAt(q, i)

Submit(q) ==
  /\ phase = "Idle"
  /\ Constructible(q)
  /\ requests' = q
  /\ phase' = "Select" /\ used' = 1
  /\ step' = 0 /\ done' = 0 /\ bytes' = 0 /\ kept' = FALSE /\ failed' = 0
  /\ ended' = "None" /\ executed' = {}
  /\ UNCHANGED <<pinOk, mgmtOk>>

-----------------------------------------------------------------------------
(* How the operation goes on.                                              *)

(* Faulty: failed_index names the last result.                             *)
FailItemOffByOne(count) ==
  /\ phase' = "Idle" /\ ended' = "Failed" /\ step' = 0
  /\ kept' = TRUE /\ failed' = count /\ done' = count
  /\ UNCHANGED used

(* Operation::record after an error in the target: take_progress names the *)
(* request after the last result.                                          *)
FailItem(count) ==
  /\ phase' = "Idle" /\ ended' = "Failed" /\ step' = 0
  /\ kept' = TRUE /\ failed' = count + 1 /\ done' = count
  /\ UNCHANGED used

(* Expose command n of the request after `count` results, if an exchange   *)
(* is left.                                                                *)
Expose(count, n) ==
  IF used >= MaxExchanges
  THEN FailItem(count)
  ELSE /\ phase' = "Item" /\ step' = n /\ used' = used + 1 /\ done' = count
       /\ UNCHANGED <<ended, kept, failed>>

Finish ==
  /\ phase' = "Idle" /\ ended' = "Done" /\ step' = 0
  /\ done' = Len(requests)
  /\ UNCHANGED <<used, kept, failed>>

SelectDone ==
  /\ phase = "Select"
  /\ pinOk' = FALSE /\ mgmtOk' = FALSE
  /\ Expose(0, 1)
  /\ UNCHANGED <<requests, bytes, executed>>

(* A failed selection leaves no progress.                                  *)
SelectFailed ==
  /\ phase = "Select"
  /\ phase' = "Idle" /\ ended' = "Failed"
  /\ UNCHANGED <<requests, step, results, used, sessions>>

-----------------------------------------------------------------------------
(* The card carries out the current request with its last command.         *)

Permitted ==
  /\ Current.kind \in Mutating => mgmtOk
  /\ Current.kind \in {"Sign", "ResetRetries"} => pinOk
  /\ Current.kind \in {"Verify", "Authenticate"} => Current.right

(* A signature with a PIN-always key uses the verification up; resetting   *)
(* the retry counters ends both sessions; a new management key may or may  *)
(* not end its session.                                                    *)
Executes ==
  /\ executed' = executed \cup {done + 1}
  /\ pinOk' = (\/ Current.kind = "Verify"
               \/ pinOk /\ Current.kind \notin {"Logout", "Sign", "ResetRetries"})
  /\ mgmtOk' \in CASE Current.kind = "Authenticate" -> {TRUE}
                  [] Current.kind = "ResetRetries" -> {FALSE}
                  [] Current.kind = "SetKey" -> BOOLEAN
                  [] OTHER -> {mgmtOk}

(* An answer in the middle of a request of several commands.               *)
CommandDone ==
  /\ phase = "Item"
  /\ step < Current.commands
  /\ Expose(done, step + 1)
  /\ UNCHANGED <<requests, bytes, sessions>>

(* The last answer of a request: its result counts only if it fits.        *)
ItemDone ==
  /\ phase = "Item"
  /\ step = Current.commands
  /\ Permitted /\ Executes
  /\ bytes' = bytes + Current.bytes
  /\ CASE bytes' > MaxResult -> FailItem(done)
       [] bytes' <= MaxResult /\ done + 1 = Len(requests) -> Finish
       [] OTHER -> Expose(done + 1, 1)
  /\ UNCHANGED requests

(* The card refuses a command, or its answer is malformed although the     *)
(* card has carried the request out.                                       *)
ItemFailed ==
  /\ phase = "Item"
  /\ FailItem(done)
  /\ \/ step = Current.commands /\ Permitted /\ Executes
     \/ UNCHANGED sessions
  /\ UNCHANGED <<requests, bytes>>

(* The application gives up; Operation::cancel keeps no progress.          *)
Cancel ==
  /\ phase # "Idle"
  /\ phase' = "Idle" /\ ended' = "Cancelled" /\ step' = 0
  /\ done' = 0 /\ kept' = FALSE
  /\ \/ phase = "Item" /\ step = Current.commands /\ Permitted /\ Executes
     \/ UNCHANGED sessions
  /\ UNCHANGED <<requests, bytes, used, failed>>

BatchInit ==
  /\ requests = <<>> /\ phase = "Idle" /\ ended = "None"
  /\ step = 0 /\ done = 0 /\ bytes = 0 /\ used = 0 /\ kept = FALSE /\ failed = 0
  /\ pinOk = FALSE /\ mgmtOk = FALSE /\ executed = {}

BatchNext ==
  \/ \E q \in Batches : Submit(q)
  \/ SelectDone \/ SelectFailed
  \/ CommandDone \/ ItemDone \/ ItemFailed
  \/ Cancel

BatchSpec == BatchInit /\ [][BatchNext]_batchVars

-----------------------------------------------------------------------------
(* Properties                                                              *)

(* The bytes of the first n results of batch q, for n up to its length.    *)
ResultBytes(q) ==
  LET sum[n \in 0 .. Len(q)] == IF n = 0 THEN 0 ELSE sum[n - 1] + q[n].bytes IN sum

(* The application can tell what happened from BatchResults: the requests  *)
(* with a result, and no others but possibly the one failed_index names,   *)
(* have been carried out, and a batch without an index has run completely  *)
(* or failed at SELECT.  The results kept never exceed the byte limit:     *)
(* what does not fit is dropped with the failure.                          *)
ProgressIsTrue ==
  /\ ResultBytes(requests)[done] <= MaxResult
  /\ ended \in {"None", "Failed"} =>
       executed \in {1 .. done, 1 .. done + 1}
  /\ ended = "Done" => executed = DOMAIN requests /\ done = Len(requests)
  /\ ended = "Failed" => IF kept THEN failed = done + 1 ELSE executed = {}

(* The management key was replaced since it was last authenticated.        *)
KeyReplaced ==
  \E i \in executed :
    /\ requests[i].kind = "SetKey"
    /\ \A j \in executed : requests[j].kind = "Authenticate" => j < i

(* The rules of batch() are enough: no request that changes the card, and  *)
(* no retry reset, is sent without the authentication the card asks for,   *)
(* except on cards that end the session when their key is replaced.  Once  *)
(* the algorithm identifiers have changed, nothing encoded with the old    *)
(* ones is sent.                                                           *)
ReadyForCard ==
  phase = "Item" =>
    /\ Current.kind \in Mutating => mgmtOk \/ KeyReplaced
    /\ Current.kind = "ResetRetries" => pinOk
    /\ \A i \in executed : requests[i].kind # "SetConfig"
============================================================================
