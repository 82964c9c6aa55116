------------------------------ MODULE MCAdmin ------------------------------
EXTENDS Admin

NoFlags == [s \in {} |-> TRUE]

Patch(flags, mask, values) ==
  [kind |-> "Configure", flags |-> flags, mask |-> mask, values |-> values]

(* Patches that write nothing, one setting, several, and a missing one.    *)
MCRequests ==
  {[kind |-> k] : k \in {"Configuration", "NfcStatus", "PassSlots", "PinStatus", "VerifyPin",
                         "FactoryReset"}}
    \cup {[kind |-> "ChangePin", to |-> p] : p \in Pins}
    \cup {[kind |-> "Set", to |-> 1]}
    \cup {Patch([led |-> FALSE, ndefReadOnly |-> TRUE], {}, {}),
          Patch([ndefReadOnly |-> FALSE, webusb |-> FALSE], KnownBits, {}),
          Patch(NoFlags, {"pass"}, {"pass"})}
    \cup {[kind |-> "ConfigureSm2", sm2 |-> [algorithm |-> -60]]}

(* A factory card, and one with a bit and a curve of another firmware.     *)
MCCards ==
  {Factory, [Factory EXCEPT !.features = {"pass", "future"},
                            !.sm2 = [curve |-> 8, algorithm |-> -54]]}
=============================================================================
