--------------------------- MODULE MCCardExchange ---------------------------
(* Scripts and cards for CardExchange.                                     *)
EXTENDS CardExchange

MCByte == 1 .. 5

MCReplies == {<<>>, <<1>>, <<1, 2>>, <<1, 2, 3>>, <<1, 2, 3, 4>>}

Base ==
  [header |-> "select", claChained |-> FALSE, data |-> <<1>>, le |-> Absent,
   allowChaining |-> FALSE, allowExtended |-> FALSE, correctLe |-> FALSE,
   continuation |-> "Iso7816", instruction |-> 0, probeAfterSuccess |-> FALSE]

(* GET DATA, then a chained private-key operation.                         *)
IsoScript ==
  << [Base EXCEPT !.header = "get data", !.le = 256, !.correctLe = TRUE],
     [Base EXCEPT !.header = "general authenticate", !.data = <<1, 2, 3, 4, 5>>,
                  !.allowChaining = TRUE] >>

(* OATH SELECT, then LIST with a poll after a successful page.             *)
OathScript ==
  << [Base EXCEPT !.continuation = "None"],
     [Base EXCEPT !.header = "list", !.data = <<>>, !.continuation = "Oath",
                  !.instruction = 165, !.probeAfterSuccess = TRUE] >>

MCScripts == {IsoScript, OathScript}

MCDialects(s) == IF s = IsoScript THEN {"Iso"} ELSE {"Oath", "OathLegacy"}

MCCommands == UNION {{s[i] : i \in 1 .. Len(s)} : s \in MCScripts}

MCHeaders == {c.header : c \in MCCommands}
=============================================================================
