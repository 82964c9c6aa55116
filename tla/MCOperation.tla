---------------------------- MODULE MCOperation -----------------------------
(* Operation on a tiny channel, with a machine that issues any of a few    *)
(* commands in any order and a card that answers anything.                 *)
EXTENDS Operation

MCByte == {0}

Base ==
  [header |-> "read", claChained |-> FALSE, data |-> <<>>, le |-> 1,
   allowChaining |-> FALSE, allowExtended |-> FALSE, correctLe |-> FALSE,
   continuation |-> "Iso7816", instruction |-> 0, probeAfterSuccess |-> FALSE]

MCMachineCommand ==
  { [Base EXCEPT !.correctLe = TRUE, !.le = 256],                    \* clamped read
    [Base EXCEPT !.header = "write", !.data = <<0, 0, 0, 0, 0>>, !.le = Absent,
                 !.allowChaining = TRUE],                            \* chained mutation
    [Base EXCEPT !.header = "crypt", !.data = <<0, 0, 0, 0, 0, 0>>,
                 !.allowChaining = TRUE, !.correctLe = TRUE],        \* chained, with Le
    [Base EXCEPT !.header = "ext", !.allowExtended = TRUE,
                 !.correctLe = TRUE, !.continuation = "None"],       \* extended encoding
    [Base EXCEPT !.header = "list", !.continuation = "Oath",
                 !.instruction = 165, !.probeAfterSuccess = TRUE],
    [Base EXCEPT !.header = "old", !.continuation = "Oath", !.instruction = 6],
    [Base EXCEPT !.header = "bad", !.continuation = "Oath", !.instruction = 1],
    [Base EXCEPT !.header = "wide", !.le = 256],                     \* over the channel
    [Base EXCEPT !.header = "long", !.data = <<0, 0, 0>>],           \* needs chaining
    [Base EXCEPT !.header = "huge", !.data = <<0, 0, 0, 0, 0, 0, 0>>] } \* over the input limit

MCHeader == {c.header : c \in MCMachineCommand}

MCResponse ==
  [data : {<<>>, <<0, 0>>}, sw1 : {SuccessSw1, MoreSw1, WrongLeSw1}, sw2 : {0, 1, 2}]
    \cup {[data |-> <<>>, sw1 |-> 105, sw2 |-> 133]}
=============================================================================
