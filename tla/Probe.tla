------------------------------- MODULE Probe --------------------------------
(***************************************************************************)
(* canokey probe: discovering a device through its Admin and PIV applets,  *)
(* and what the resulting profile is worth afterwards.                     *)
(*                                                                         *)
(* A step is one command and its response.  Between probes the application *)
(* may rewrite the algorithm configuration or the extension switch of 2.x, *)
(* or the device is replaced; fresh says whether the application has no    *)
(* reason to probe again.                                                  *)
(***************************************************************************)
EXTENDS Profile

CONSTANTS
  Devices,  \* what may be plugged in
  Configs   \* configurations that the application may write

VARIABLES
  stage,         \* Probe.stage: commands issued, or "Idle" as 8
  mode,          \* "Minimal" or "Piv"
  given,         \* observed_serial
  observations,  \* DeviceObservations
  outcome,       \* how the last probe ended
  profile,       \* the profile the application holds, or None
  device,        \* the device plugged in
  fresh          \* nothing was changed since the probe started

vars == <<stage, mode, given, observations, outcome, profile, device, fresh>>

Idle == 8

(* A configuration as the device has it: bytes.                            *)
ConfigType == [flag : Nat, ids : Seq(Nat)]

(* What a device consists of: version numbers, bytes and a switch; and no  *)
(* number stands for an absent one.                                        *)
ASSUME ProbeAssumption ==
  /\ \A d \in Devices :
       /\ d = [text |-> d.text, config |-> d.config, switch |-> d.switch,
              foreign |-> d.foreign, serial |-> d.serial]
       /\ d.text.numbers \in Seq(Nat) /\ d.config \in ConfigType /\ d.switch \in BOOLEAN
  /\ Configs \subseteq ConfigType
  /\ None \notin Nat

NoObservations ==
  [text |-> [numbers |-> <<>>, suffix |-> "none"], model |-> FALSE, serial |-> None,
   piv |-> FALSE, config |-> None, warnings |-> {}]

Init ==
  /\ stage = Idle /\ mode = "Piv" /\ given = None /\ observations = NoObservations
  /\ outcome = "none" /\ profile = None /\ fresh = FALSE
  /\ device \in Devices

-----------------------------------------------------------------------------
(* The device (external)                                                   *)

(* A device is a firmware text, a serial number, an algorithm              *)
(* configuration and, on 2.x, a switch.  Numbers of its version:           *)
Base == compatibility_base(ParseVersion(device.text))

Known == ParseVersion(device.text) # None

Legacy == Known /\ Within(Base, v200, v201)

Configurable == Known /\ Within(Base, v300, v310)

(* What the PIV applet does when a key command names id.                   *)
CardAlgorithm(id) ==
  LET config == ParseConfig(device.config)
      fixed == [i \in FixedIds |-> CASE i = 6 -> "Rsa1024" [] i = 7 -> "Rsa2048"
                                     [] i = 17 -> "EccP256" [] i = 20 -> "EccP384"]
      legacy == [i \in {34, 80, 81, 82, 83, 84} |->
                   CASE i = 34 -> "Ed25519" [] i = 80 -> "Rsa3072" [] i = 81 -> "Rsa4096"
                     [] i = 82 -> "X25519" [] i = 83 -> "Secp256k1" [] i = 84 -> "Sm2"]
      those == {a \in DOMAIN config.ids : config.ids[a] = id}
  IN CASE id \in FixedIds -> fixed[id]
       [] id \notin FixedIds /\ Legacy ->
            IF device.switch /\ id \in DOMAIN legacy THEN legacy[id] ELSE "refused"
       [] id \notin FixedIds /\ Configurable ->
            IF config = None \/ (Base = v310 /\ id \in ReservedIds) THEN "other"
            ELSE IF config.enabled /\ those # {} THEN CHOOSE a \in those : TRUE ELSE "refused"
       [] OTHER -> "refused"

(* Whether extended algorithms can be used.                                *)
Extended == (Legacy /\ device.switch) \/ (Configurable /\ device.config.flag = 1)

(* Answers to the optional reads.  The configuration is protected on 3.0,  *)
(* and a device of another make may lack the command.                      *)
ConfigAnswers ==
  {"6f00"} \cup (IF Within(Base, v300, v303) THEN {"6982"}
                 ELSE IF device.foreign THEN {"6d00", "6e00", "6a81", "6a86"} ELSE {"9000"})

Answers ==
  CASE stage \in {1, 2, 5, 6} -> {"9000", "6f00"}
    [] stage \in {3, 4} -> {"9000", "6d00", "6982", "6f00"}
    [] stage = 7 -> ConfigAnswers

-----------------------------------------------------------------------------
(* The probe                                                               *)

Finish(how) == stage' = Idle /\ outcome' = how

probe_device(m, serial) ==
  /\ stage = Idle
  /\ stage' = 1 /\ mode' = m /\ given' = serial /\ observations' = NoObservations
  /\ outcome' = "none" /\ profile' = None /\ fresh' = TRUE
  /\ UNCHANGED device

(* Faulty: a read that needs authentication is taken for unsupported.      *)
optionalDenied(status) == IF status = "6f00" THEN "error" ELSE "Unsupported"

(* Probe::optional: the warning for a refused optional read, or an error.  *)
optional(status) ==
  CASE status \in {"6d00", "6e00", "6a81", "6a86"} -> "Unsupported"
    [] status = "6982" -> "NeedsAuthentication"
    [] OTHER -> "error"

Named == [s \in {3, 4, 7} |-> CASE s = 3 -> "model" [] s = 4 -> "serial" [] s = 7 -> "algorithm_config"]

(* The observations after a successful answer, or None.                    *)
Observed ==
  CASE stage \in {1, 5} -> observations
    [] stage = 2 -> [observations EXCEPT !.text = device.text]
    [] stage = 3 -> [observations EXCEPT !.model = TRUE]
    [] stage = 4 -> [observations EXCEPT !.serial = device.serial]
    [] stage = 6 -> [observations EXCEPT !.piv = TRUE]
    [] stage = 7 -> IF ParseConfig(device.config) = None THEN None
                    ELSE [observations EXCEPT !.config = ParseConfig(device.config)]

(* Probe::finish                                                           *)
Conclude(seen) == Finish("Done") /\ profile' = from_observations(seen)

(* The command after stage, given what has been seen: 4 is skipped if the  *)
(* serial number is known.                                                 *)
Proceed(seen) ==
  LET known == stage = 3 /\ given # None
      now == IF known THEN [seen EXCEPT !.serial = given] ELSE seen
      at == IF known THEN 4 ELSE stage
      unreadable == algorithm_config_read_support(from_observations(now)).support # "Supported"
  IN /\ observations' = now
     /\ \/ /\ \/ at = 4 /\ mode = "Minimal"
              \/ at = 6 /\ unreadable
              \/ at = 7
           /\ Conclude(now)
        \/ /\ at \in 1 .. 3 \/ (at = 4 /\ mode = "Piv") \/ at = 5 \/ (at = 6 /\ ~unreadable)
           /\ stage' = at + 1
           /\ UNCHANGED <<outcome, profile>>

Answered ==
  /\ stage # Idle
  /\ \E status \in Answers :
       \/ status = "9000" /\ Observed # None /\ Proceed(Observed)
       \/ /\ status = "9000" /\ Observed = None /\ Finish("InvalidResponse")
          /\ UNCHANGED <<observations, profile>>
       \/ /\ status # "9000" /\ stage \in {3, 4, 7} /\ optional(status) # "error"
          /\ Proceed([observations EXCEPT !.warnings = @ \cup {<<optional(status), Named[stage]>>}])
       \/ /\ status # "9000" /\ (stage \notin {3, 4, 7} \/ optional(status) = "error")
          /\ Finish(status) /\ UNCHANGED <<observations, profile>>
  /\ UNCHANGED <<mode, given, device, fresh>>

-----------------------------------------------------------------------------
(* The application                                                         *)

(* The configuration is replaced, or the answer is lost: probe again.      *)
RewriteConfig(config) ==
  /\ stage = Idle /\ Configurable
  /\ \/ device' = [device EXCEPT !.config = config]
     \/ UNCHANGED device
  /\ fresh' = FALSE
  /\ UNCHANGED <<stage, mode, given, observations, outcome, profile>>

(* Admin 40/07 on 2.x, acknowledged: the profile is told.                  *)
Switched(enabled) ==
  /\ stage = Idle /\ Legacy /\ profile # None /\ fresh
  /\ device' = [device EXCEPT !.switch = enabled]
  /\ profile' = with_legacy_piv_extensions(profile, enabled)
  /\ UNCHANGED <<stage, mode, given, observations, outcome, fresh>>

(* The answer to 40/07 is lost.                                            *)
SwitchLost(enabled) ==
  /\ stage = Idle /\ Legacy
  /\ \/ device' = [device EXCEPT !.switch = enabled]
     \/ UNCHANGED device
  /\ fresh' = FALSE
  /\ UNCHANGED <<stage, mode, given, observations, outcome, profile>>

Replaced ==
  /\ stage = Idle
  /\ device' \in Devices /\ fresh' = FALSE
  /\ UNCHANGED <<stage, mode, given, observations, outcome, profile>>

Next ==
  \/ \E m \in {"Minimal", "Piv"} : probe_device(m, None) \/ probe_device(m, device.serial)
  \/ Answered
  \/ \E config \in Configs : RewriteConfig(config)
  \/ \E enabled \in BOOLEAN : Switched(enabled) \/ SwitchLost(enabled)
  \/ Replaced

Spec == Init /\ [][Next]_vars

-----------------------------------------------------------------------------
(* A fresh profile authorizes an algorithm for key operations only if the  *)
(* device takes the identifier that the library will send for that         *)
(* algorithm and no other, and reads it back as the same; nothing that an  *)
(* optional read failed to show is guessed.                                *)
AuthorizedIsTrue ==
  profile # None /\ fresh =>
    \A a \in Algorithms :
      key_algorithm_support(profile, a).support = "Supported" =>
        LET id == algorithm_wire_id(profile, a) IN
        /\ id # None
        /\ CardAlgorithm(id) = a
        /\ algorithm_from_wire_id(profile, id) = a

(* What a fresh profile presents as observed of the algorithm extensions   *)
(* is so: a read refused for lack of authentication says nothing, a device *)
(* without the command has none.                                           *)
ExtensionsTrue ==
  profile # None /\ fresh =>
    LET seen == capability(profile, "AlgorithmExtensions") IN
    seen.evidence = "Observed" =>
      /\ seen.support = "Supported" => Extended
      /\ seen.support = "Unsupported" => ~Extended \/ device.foreign
=============================================================================
