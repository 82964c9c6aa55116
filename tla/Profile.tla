------------------------------ MODULE Profile -------------------------------
(***************************************************************************)
(* canokey-compat: what a DeviceProfile says that a device supports, given *)
(* what was observed of it.                                                *)
(*                                                                         *)
(* A version is a triple.  A firmware text is abstracted to the numbers    *)
(* and the suffix it is made of.  Wire identifiers are numbers.            *)
(***************************************************************************)
EXTENDS Integers, Sequences

CONSTANT None  \* no value

Status(support, evidence) == [support |-> support, evidence |-> evidence]

(* Lexicographic order of versions.                                        *)
AtMost(a, b) ==
  \/ a[1] < b[1]
  \/ a[1] = b[1] /\ a[2] < b[2]
  \/ a[1] = b[1] /\ a[2] = b[2] /\ a[3] <= b[3]

Within(v, first, last) == AtMost(first, v) /\ AtMost(v, last)

v130 == <<1, 3, 0>>

v152 == <<1, 5, 2>>

v161 == <<1, 6, 1>>

v162 == <<1, 6, 2>>

v200 == <<2, 0, 0>>

v201 == <<2, 0, 1>>

v300 == <<3, 0, 0>>

v301 == <<3, 0, 1>>

v303 == <<3, 0, 3>>

v310 == <<3, 1, 0>>

-----------------------------------------------------------------------------
(* Observations                                                            *)

(* Two or three numbers, with an optional suffix.                          *)
ParseVersion(text) ==
  IF Len(text.numbers) \notin 2 .. 3 \/ text.suffix = "malformed" THEN None
  ELSE [number |-> IF Len(text.numbers) = 2 THEN Append(text.numbers, 0) ELSE text.numbers,
        suffix |-> text.suffix]

(* 3.1.x and 4.0.x share the rules of 3.1.0.                               *)
compatibility_base(firmware) ==
  IF SubSeq(firmware.number, 1, 2) \in {<<3, 1>>, <<4, 0>>} THEN v310 ELSE firmware.number

(* The algorithms of the configuration's identifiers, in their order.      *)
ConfiguredAlgorithms(n) ==
  <<"Ed25519", "Rsa3072", "Rsa4096", "X25519", "Secp256k1">>
    \o (IF n >= 7 THEN <<"EccP521">> ELSE <<>>) \o <<"Sm2">>
    \o (IF n >= 8 THEN <<"MlDsa65">> ELSE <<>>) \o (IF n >= 9 THEN <<"MlKem768">> ELSE <<>>)

FixedIds == {6, 7, 17, 20}

(* A flag and six to nine identifiers, nonzero, distinct and none of the   *)
(* fixed ones; bytes after them are ignored.                               *)
ParseConfig(raw) ==
  LET n == IF Len(raw.ids) < 9 THEN Len(raw.ids) ELSE 9
      bad == \E i \in 1 .. n :
               raw.ids[i] \in {0} \cup FixedIds \/ \E j \in 1 .. i - 1 : raw.ids[j] = raw.ids[i]
  IN IF n < 6 \/ raw.flag \notin 0 .. 1 \/ bad THEN None
     ELSE [enabled |-> raw.flag = 1,
           ids |-> [a \in {ConfiguredAlgorithms(n)[i] : i \in 1 .. n} |->
                      raw.ids[CHOOSE i \in 1 .. n : ConfiguredAlgorithms(n)[i] = a]]]

(* AlgorithmConfig::wire_id                                                *)
ConfiguredId(config, algorithm) ==
  IF config.enabled /\ algorithm \in DOMAIN config.ids THEN config.ids[algorithm] ELSE None

(* piv says whether the PIV version was read.                              *)
from_observations(observed) ==
  LET firmware == ParseVersion(observed.text) IN
  [firmware |-> firmware, piv |-> observed.piv, config |-> observed.config,
   extensions |-> "unknown",
   warnings |-> observed.warnings \cup
     (CASE firmware = None -> {<<"UnrecognizedFirmware", "firmware">>}
        [] firmware # None /\ ~AtMost(compatibility_base(firmware), v310) ->
             {<<"LatestKnownFallback", "firmware">>}
        [] firmware # None /\ AtMost(compatibility_base(firmware), v310) ->
             IF firmware.suffix # "none" THEN {<<"DeclaredBaseVersion", "firmware">>} ELSE {})]

-----------------------------------------------------------------------------
(* Capabilities                                                            *)

(* Supported or not by the releases that were examined, else unknown.      *)
firmware_range(p, first, last) ==
  LET v == compatibility_base(p.firmware) IN
  IF p.firmware # None /\ (v = v130 \/ Within(v, v152, v303) \/ v = v310)
  THEN Status(IF Within(v, first, last) THEN "Supported" ELSE "Unsupported", "FirmwareMatrix")
  ELSE Status("Unknown", "LatestKnownFallback")

Everywhere ==
  {"PivReset", "ObjectWrites", "ObjectWriteChaining", "Oath", "OpenPgp", "Admin"}

Since152 == {"OathModern", "OpenPgpUif", "OpenPgpBareAgreement", "AdminNdefWebUsb"}

Since161 == {"OpenPgpAlgorithmInformation", "OpenPgpPublicKeyLengthFix"}

Since200 ==
  {"PivSelectResetsAuthentication", "OathFullResponse", "OathRenameCollisionCheck",
   "OpenPgpWrappedData"}

Since300 ==
  {"OathSetDefaultSlots", "AdminCtapPassReset", "AdminNfc", "AdminSm2", "AdminPassConfig"}

Since301 == {"OathReliablePagination", "AdminPublicNfcStatus"}

Since310 ==
  {"OathChallengeResponse", "OpenPgpRetryReset", "OpenPgpWrappedAlgorithmInformation",
   "OpenPgpShortDigest", "AdminPublicConfiguration", "AdminExtendedConfiguration",
   "CertificateDeletion", "MetadataDirectory", "ContainerNames", "KeyMoveDelete", "RetryReset",
   "AlgorithmConfigWrite", "Sm2Agreement", "Attestation"}

Only130 == {"OathLegacy", "AdminLegacyOpenPgpTouch"}

Only30x == {"AdminLegacySm2", "PivProtectedAlgorithmConfigRead"}

(* The algorithm configuration, as far as it was observed.                 *)
ObservedExtensions(p) ==
  CASE p.extensions # "unknown" -> IF p.extensions = "on" THEN "Supported" ELSE "Unsupported"
    [] p.extensions = "unknown" /\ <<"Unsupported", "algorithm_config">> \in p.warnings ->
         "Unsupported"
    [] p.extensions = "unknown" /\ <<"Unsupported", "algorithm_config">> \notin p.warnings
         /\ <<"NeedsAuthentication", "algorithm_config">> \in p.warnings -> "Unknown"
    [] OTHER -> IF p.config = None THEN "none"
                ELSE IF p.config.enabled THEN "Supported" ELSE "Unsupported"

(* What is neither observed nor listed: a single threshold.                *)
Threshold(p, feature) ==
  LET v == compatibility_base(p.firmware)
      first == IF feature \in {"EccP256", "EccP384"} THEN v130 ELSE v200
  IN IF p.firmware # None /\ Within(v, v130, v310)
     THEN Status(IF AtMost(first, v) THEN "Supported" ELSE "Unsupported", "FirmwareMatrix")
     ELSE Status(IF feature = "EccP256" /\ p.piv THEN "Supported" ELSE "Unknown",
                 "LatestKnownFallback")

capability(p, feature) ==
  CASE feature \in Everywhere -> firmware_range(p, v130, v310)
    [] feature \in Since152 -> firmware_range(p, v152, v310)
    [] feature \in Since161 -> firmware_range(p, v161, v310)
    [] feature \in Since200 -> firmware_range(p, v200, v310)
    [] feature \in Since300 -> firmware_range(p, v300, v310)
    [] feature \in Since301 -> firmware_range(p, v301, v310)
    [] feature \in Since310 -> firmware_range(p, v310, v310)
    [] feature \in Only130 -> firmware_range(p, v130, v130)
    [] feature \in Only30x -> firmware_range(p, v300, v303)
    [] feature = "AdminKeyboard" -> firmware_range(p, v130, v201)
    [] feature = "AdminKeyboardReturn" -> firmware_range(p, v162, v201)
    [] feature = "AdminLegacyPivExtensions" -> firmware_range(p, v200, v201)
    [] feature = "Piv" -> Status(IF p.piv THEN "Supported" ELSE "Unknown", "Observed")
    [] feature = "AlgorithmExtensions" ->
         IF ObservedExtensions(p) # "none" THEN Status(ObservedExtensions(p), "Observed")
         ELSE Threshold(p, feature)
    [] OTHER -> Threshold(p, feature)

Supports(p, feature) == capability(p, feature).support = "Supported"

(* CapabilityStatus::require: the error, or None.                          *)
require(status) ==
  CASE status.support = "Supported" -> None
    [] status.support = "Unsupported" -> "UnsupportedFeature"
    [] status.support = "Unknown" -> "CapabilityUnknown"

with_legacy_piv_extensions(p, enabled) ==
  IF ~Supports(p, "AdminLegacyPivExtensions") \/ p.config # None THEN None
  ELSE [p EXCEPT !.extensions = IF enabled THEN "on" ELSE "off"]

algorithm_config_read_support(p) ==
  IF <<"Unsupported", "algorithm_config">> \in p.warnings THEN Status("Unsupported", "Observed")
  ELSE firmware_range(p, v300, v310)

-----------------------------------------------------------------------------
(* Algorithms                                                              *)

Algorithms ==
  {"Rsa1024", "Rsa2048", "Rsa3072", "Rsa4096", "EccP256", "EccP384", "EccP521", "Secp256k1",
   "Sm2", "Ed25519", "X25519", "MlDsa65", "MlKem768"}

(* AES management keys and randomized Ed25519 on 3.1.                      *)
ReservedIds == {10, 255}

(* Faulty: an identifier with another meaning is used.                     *)
extension_wire_idAny(p, algorithm) == ConfiguredId(p.config, algorithm)

extension_wire_id(p, algorithm) ==
  IF /\ p.firmware # None
     /\ AtMost(v310, compatibility_base(p.firmware))
     /\ ConfiguredId(p.config, algorithm) \in ReservedIds
  THEN None ELSE ConfiguredId(p.config, algorithm)

(* Identifiers that the firmware fixes or that are guessed.                *)
DefaultId(p, algorithm) ==
  LET legacy == /\ p.firmware # None
                /\ AtMost(v200, compatibility_base(p.firmware))
                /\ ~AtMost(v300, compatibility_base(p.firmware))
  IN CASE algorithm = "Ed25519" -> IF legacy THEN 34 ELSE 224
       [] algorithm = "Rsa3072" -> IF legacy THEN 80 ELSE 5
       [] algorithm = "Rsa4096" -> IF legacy THEN 81 ELSE 22
       [] algorithm = "X25519" -> IF legacy THEN 82 ELSE 225
       [] algorithm = "Secp256k1" -> IF legacy THEN 83 ELSE None
       [] algorithm = "Sm2" -> IF legacy THEN 84 ELSE None
       [] OTHER -> None

algorithm_wire_id(p, algorithm) ==
  CASE algorithm = "Rsa1024" -> 6
    [] algorithm = "Rsa2048" -> 7
    [] algorithm = "EccP256" -> 17
    [] algorithm = "EccP384" -> 20
    [] OTHER -> IF p.config # None THEN extension_wire_id(p, algorithm) ELSE DefaultId(p, algorithm)

algorithm_from_wire_id(p, id) ==
  LET those == {a \in Algorithms : algorithm_wire_id(p, a) = id}
  IN IF those = {} THEN None ELSE CHOOSE a \in those : TRUE

(* Extended algorithms need an observed identifier or a confirmed switch.  *)
ExtendedSupport(p, algorithm) ==
  CASE p.config = None /\ Supports(p, "AdminLegacyPivExtensions") ->
         (CASE p.extensions = "on" -> "Supported" [] p.extensions = "off" -> "Unsupported"
            [] OTHER -> "Unknown")
    [] p.config = None /\ ~Supports(p, "AdminLegacyPivExtensions") -> "Unknown"
    [] p.config # None ->
         IF extension_wire_id(p, algorithm) # None THEN "Supported"
         ELSE IF ~p.config.enabled \/ ConfiguredId(p.config, algorithm) # None THEN "Unsupported"
         ELSE "Unknown"

key_algorithm_support(p, algorithm) ==
  LET baseline == firmware_range(p, v130, v310)
      range ==
        firmware_range(p, CASE algorithm \in {"Ed25519", "X25519"} -> v301
                            [] algorithm \in {"EccP521", "MlDsa65", "MlKem768"} -> v310
                            [] OTHER -> v200, v310)
  IN CASE baseline.support # "Supported" -> baseline
       [] baseline.support = "Supported" /\ algorithm \in {"Rsa2048", "EccP256", "EccP384"} ->
            baseline
       [] baseline.support = "Supported" /\ algorithm = "Rsa1024" ->
            Status("Unsupported", "FirmwareMatrix")
       [] OTHER -> IF range.support # "Supported" THEN range
                   ELSE Status(ExtendedSupport(p, algorithm), "Observed")

openpgp_algorithm_support(p, algorithm, generate) ==
  CASE algorithm \in {"Rsa2048", "EccP256", "EccP384", "Secp256k1", "Ed25519", "X25519"} ->
         firmware_range(p, v130, v310)
    [] algorithm = "Rsa4096" /\ ~generate -> firmware_range(p, v130, v310)
    [] algorithm = "Rsa3072" \/ (algorithm = "Rsa4096" /\ generate) -> firmware_range(p, v200, v310)
    [] algorithm = "EccP521" -> firmware_range(p, v310, v310)
    [] OTHER -> Status("Unsupported", "FirmwareMatrix")
=============================================================================
