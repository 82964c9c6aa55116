----------------------------- MODULE Operation ------------------------------
(***************************************************************************)
(* canokey_protocol::Operation<T>: the owned, sans-I/O operation every     *)
(* applet factory returns.  The application calls start once, then feeds   *)
(* each raw response to advance; the operation drives an applet state      *)
(* machine (the Machine trait) and, between two calls of the machine, one  *)
(* conversation (module Conversation).                                     *)
(*                                                                         *)
(* The machine is a parameter of the calls: act is what Machine::next      *)
(* returns when the call reaches it, an arbitrary choice here and a        *)
(* concrete machine in the modules that extend this one.                   *)
(***************************************************************************)
EXTENDS Conversation

CONSTANTS
  None,              \* Option::None
  MachineCommand,    \* the logical commands the machine may issue
  Response,          \* the well-formed responses the application may supply
  ExposesProgress    \* the machine implements take_progress

(* The kinds of the errors an operation may store; Machine stands for what *)
(* an applet machine reports itself.                                       *)
ErrorKind ==
  {"LimitExceeded", "InvalidArgument", "InvalidResponse", "ProtocolViolation",
   "Status", "Machine"}

ASSUME MachineAssumption ==
  /\ None \notin ConversationState
  /\ None \notin ErrorKind
  /\ MachineCommand \subseteq LogicalCommand
  /\ Response \subseteq ResponseApdu
  /\ ExposesProgress \in BOOLEAN

VARIABLES
  state,          \* OperationState
  machine,        \* the boxed machine is still owned
  conversation,   \* Option<ConversationState>
  output,         \* a typed result is held
  progress,       \* the machine's partial result, kept by a failure
  error,          \* Option<Error>
  exchanges,      \* physical commands exposed so far
  responseBytes   \* response data received so far

vars == <<state, machine, conversation, output, progress, error,
          exchanges, responseBytes>>

OperationState ==
  {"Created", "AwaitingResponse", "Completed", "Failed", "Cancelled", "ResultTaken"}

Terminal == {"Completed", "Failed", "Cancelled", "ResultTaken"}

(* What Machine::next returns: Action::Command, Action::Done or an error.  *)
Act ==
  [tag : {"Command"}, command : MachineCommand] \cup [tag : {"Done", "Error"}]

(* Operation::from_machine                                                 *)
Init ==
  /\ state = "Created"
  /\ machine = TRUE
  /\ conversation = None
  /\ output = FALSE
  /\ progress = FALSE
  /\ error = None
  /\ exchanges = 0
  /\ responseBytes = 0

-----------------------------------------------------------------------------
(* record, when the call failed: the error and the machine's progress are  *)
(* kept, the working state is not.                                         *)
Fail(kind) ==
  /\ state' = "Failed"
  /\ machine' = FALSE
  /\ conversation' = None
  /\ progress' = ExposesProgress
  /\ error' = kind
  /\ UNCHANGED <<output, exchanges>>

(* Faulty: the exchange counter wraps instead of stopping the operation.   *)
ExchangeWraps(c) ==
  /\ state' = "AwaitingResponse"
  /\ conversation' = c
  /\ exchanges' = IF exchanges >= MaxExchanges THEN 0 ELSE exchanges + 1
  /\ UNCHANGED <<machine, output, progress, error>>

(* exchange: expose c.current as the pending physical command.             *)
Exchange(c) ==
  IF exchanges >= MaxExchanges
  THEN Fail("LimitExceeded")
  ELSE /\ state' = "AwaitingResponse"
       /\ conversation' = c
       /\ exchanges' = exchanges + 1
       /\ UNCHANGED <<machine, output, progress, error>>

(* drive: hand the machine its input and act on its answer.                *)
Drive(act) ==
  \/ /\ act.tag = "Done"
     /\ state' = "Completed"
     /\ output' = TRUE
     /\ machine' = FALSE
     /\ conversation' = None
     /\ UNCHANGED <<progress, error, exchanges>>
  \/ act.tag = "Command" /\ Encodable(act.command) /\ Exchange(NewConversation(act.command))
  \/ /\ act.tag = "Command" /\ ~Encodable(act.command)
     /\ Fail(IF BadArgument(act.command) THEN "InvalidArgument" ELSE "LimitExceeded")
  \/ act.tag = "Error" /\ Fail("Machine")

(* start                                                                   *)
Start(act) ==
  /\ state = "Created"
  /\ Drive(act)
  /\ UNCHANGED responseBytes

(* advance_inner refuses a response before reading it: longer than the     *)
(* channel carries, or shorter than a status word.                         *)
Unreadable(kind) ==
  /\ state = "AwaitingResponse"
  /\ Fail(kind)
  /\ UNCHANGED responseBytes

(* The conversation goes on with another physical command, or breaks.      *)
Continue(r) ==
  LET c == conversation IN
  \/ CorrectsLe(c, r) /\ CorrectionFits(c, r) /\ Exchange(Corrected(c, r))
  \/ CorrectsLe(c, r) /\ ~CorrectionFits(c, r) /\ Fail("LimitExceeded")
  \/ InChain(c, r) /\ FragmentAccepted(r) /\ Exchange(NextFragment(c))
  \/ /\ InChain(c, r) /\ ~FragmentAccepted(r)
     /\ Fail(IF IsSuccess(r) THEN "ProtocolViolation" ELSE "Status")
  \/ NoProgressPage(c, r) /\ Fail("ProtocolViolation")
  \/ OathMore(c, r) /\ ~NoProgressPage(c, r) /\ Exchange(OathNext(c, r))
  \/ IsoMore(c, r) /\ ~NoProgressPage(c, r) /\ Exchange(IsoNext(c, r))

(* advance, with a complete response.                                      *)
Advance(r, act) ==
  /\ state = "AwaitingResponse"
  /\ Len(r.data) + 2 <= MaxResponseBytes
  /\ responseBytes' = responseBytes + Len(r.data)
  /\ IF responseBytes' > MaxTotalResponseBytes
     THEN Fail("LimitExceeded")
     ELSE \/ Continue(r)
          \/ Ends(conversation, r) /\ Drive(act)

(* Faulty: the machine and its secrets outlive the cancellation.           *)
CancelKeepsMachine ==
  /\ state \in {"Created", "AwaitingResponse"}
  /\ state' = "Cancelled"
  /\ conversation' = None
  /\ UNCHANGED <<machine, output, progress, error, exchanges, responseBytes>>

(* Faulty: cancel in any state.                                            *)
CancelAnytime ==
  /\ state' = "Cancelled"
  /\ machine' = FALSE
  /\ conversation' = None
  /\ UNCHANGED <<output, progress, error, exchanges, responseBytes>>

(* cancel                                                                  *)
Cancel ==
  /\ state \in {"Created", "AwaitingResponse"}
  /\ state' = "Cancelled"
  /\ machine' = FALSE
  /\ conversation' = None
  /\ UNCHANGED <<output, progress, error, exchanges, responseBytes>>

(* take_result                                                             *)
TakeResult ==
  /\ state = "Completed"
  /\ output' = FALSE
  /\ state' = "ResultTaken"
  /\ UNCHANGED <<machine, conversation, progress, error, exchanges,
                 responseBytes>>

Answer ==
  \/ \E r \in Response, act \in Act : Advance(r, act)
  \/ \E kind \in {"LimitExceeded", "InvalidResponse"} : Unreadable(kind)

Next ==
  \/ \E act \in Act : Start(act)
  \/ Answer
  \/ Cancel
  \/ TakeResult

Spec == Init /\ [][Next]_vars

(* The application starts the operation and answers every command; it need *)
(* never cancel or take the result.                                        *)
FairSpec == Spec /\ WF_vars(\E act \in Act : Start(act)) /\ WF_vars(Answer)

-----------------------------------------------------------------------------
(* Types of the operation's fields.                                        *)
TypeOK ==
  /\ state \in OperationState
  /\ machine \in BOOLEAN
  /\ conversation \in ConversationState \cup {None}
  /\ output \in BOOLEAN
  /\ progress \in BOOLEAN
  /\ error \in ErrorKind \cup {None}
  /\ exchanges \in Nat
  /\ responseBytes \in Nat

(* Working state lives exactly as long as it may be used: the machine and  *)
(* its secrets until the operation ends in any way, the conversation while *)
(* a command is pending, the result from completion until it is taken, the *)
(* error and the partial progress only after a failure.                    *)
WorkingState ==
  /\ machine <=> state \in {"Created", "AwaitingResponse"}
  /\ conversation # None <=> state = "AwaitingResponse"
  /\ output <=> state = "Completed"
  /\ error # None <=> state = "Failed"
  /\ progress <=> state = "Failed" /\ ExposesProgress

Fits(c) ==
  /\ EncodedLength(c) <= MaxCommandBytes
  /\ c.le # 0
  /\ c.le <= ResponseCapacity

(* Whatever the machine asks for and the card answers, the pending command *)
(* and the fragments still to come fit the channel, and no command asks    *)
(* for more data than a response can carry.  Covers splitting, extended    *)
(* encoding, Le correction and both continuations.                         *)
ChannelFit ==
  conversation # None =>
    /\ Fits(conversation.current)
    /\ \A i \in 1 .. Len(conversation.pending) : Fits(conversation.pending[i])

(* The exchange budget is never exceeded, and the data collected for the   *)
(* machine never exceeds what was received, which stays in its budget.     *)
Budgets ==
  /\ exchanges <= MaxExchanges
  /\ state # "Failed" => responseBytes <= MaxTotalResponseBytes
  /\ conversation # None => Len(conversation.data) <= responseBytes

(* The limits of the channel and of the caller both hold, in the middle of *)
(* a chain, of a paging and of a correction too.                           *)
WithinLimits == ChannelFit /\ Budgets

(* The operation implements the dialogue of OperationLifecycle: the state  *)
(* transitions, the exchange budget, the single hand-over of the result    *)
(* and the lasting error are those of the abstract specification.          *)
Lifecycle == INSTANCE OperationLifecycle WITH
  Limit  <- MaxExchanges,
  phase  <- state,
  sent   <- exchanges,
  result <- IF state = "ResultTaken" THEN "moved" ELSE IF output THEN "held" ELSE "none",
  failed <- error # None

ImplementsLifecycle == Lifecycle!LSpec

(* Every started operation ends: no card can keep one running forever,     *)
(* since every response costs an exchange of a finite budget.              *)
Terminates == <>(state \in Terminal)
=============================================================================
