----------------------------- MODULE ProbeProofs ----------------------------
(***************************************************************************)
(* Proofs about the probe and what stands on its profile: Probe and        *)
(* Profile, for any devices and configurations that are made of numbers    *)
(* and bytes; then OpenPgp, for any profile, requests and cards.           *)
(***************************************************************************)
EXTENDS Probe, OpenPgp, SequenceTheorems, TLAPS

-----------------------------------------------------------------------------
(* Versions                                                                *)

Version == {v \in Seq(Nat) : Len(v) = 3}

LEMMA Releases ==
  /\ v130 \in Version /\ v152 \in Version /\ v161 \in Version /\ v162 \in Version
  /\ v200 \in Version /\ v201 \in Version /\ v300 \in Version /\ v301 \in Version
  /\ v303 \in Version /\ v310 \in Version
BY DEF Version, v130, v152, v161, v162, v200, v201, v300, v301, v303, v310

(* The version that a text stands for has three numbers.                   *)
LEMMA BaseVersion ==
  ASSUME NEW text, text.numbers \in Seq(Nat), ParseVersion(text) # None
  PROVE  compatibility_base(ParseVersion(text)) \in Version
<1> DEFINE q == text.numbers
<1>1. q \in Seq(Nat)
  OBVIOUS
<1>2. Len(q) \in 2 .. 3
  BY DEF ParseVersion
<1>3. ParseVersion(text).number = IF Len(q) = 2 THEN Append(q, 0) ELSE q
  BY DEF ParseVersion
<1> HIDE DEF q
<1>4. ParseVersion(text).number \in Version
  <2>1. CASE Len(q) = 2
    <3>1. 0 \in Nat
      OBVIOUS
    <3>2. Append(q, 0) \in Seq(Nat) /\ Len(Append(q, 0)) = Len(q) + 1
      BY <1>1, <3>1, AppendProperties, Zenon
    <3> QED BY <1>3, <2>1, <3>2 DEF Version
  <2>2. CASE Len(q) = 3
    BY <1>1, <1>3, <2>2 DEF Version
  <2> QED BY <1>2, <2>1, <2>2
<1> QED BY <1>4, Releases DEF compatibility_base

(* The series exclude each other.                                          *)
LEMMA Series ==
  ASSUME NEW v \in Version
  PROVE  /\ Within(v, v200, v201) => ~AtMost(v300, v) /\ AtMost(v200, v)
         /\ Within(v, v200, v201) => ~AtMost(v310, v) /\ v # v310
         /\ Within(v, v200, v201) => ~Within(v, v300, v310)
         /\ AtMost(v301, v) => AtMost(v300, v)
         /\ AtMost(v310, v) => AtMost(v300, v)
         /\ Within(v, v300, v310) /\ AtMost(v310, v) => v = v310
<1>1. v \in Seq(Nat) /\ Len(v) = 3
  BY DEF Version
<1>2. v[1] \in Nat /\ v[2] \in Nat /\ v[3] \in Nat
  <2>1. 1 \in 1 .. Len(v) /\ 2 \in 1 .. Len(v) /\ 3 \in 1 .. Len(v)
    BY <1>1
  <2> QED BY <1>1, <2>1, ElementOfSeq, Zenon
<1>3. /\ Within(v, v200, v201) => ~AtMost(v300, v) /\ AtMost(v200, v)
      /\ Within(v, v200, v201) => ~AtMost(v310, v)
      /\ AtMost(v301, v) => AtMost(v300, v)
      /\ AtMost(v310, v) => AtMost(v300, v)
  BY <1>2 DEF Within, AtMost, v200, v201, v300, v301, v310
<1>4. AtMost(v310, v310)
  BY DEF AtMost, v310
<1>5. Within(v, v300, v310) /\ AtMost(v310, v) => v = v310
  <2>1. Within(v, v300, v310) /\ AtMost(v310, v) => v[1] = 3 /\ v[2] = 1 /\ v[3] = 0
    BY <1>2 DEF Within, AtMost, v310
  <2>2. v310 \in Seq(Nat) /\ Len(v310) = 3 /\ v310[1] = 3 /\ v310[2] = 1 /\ v310[3] = 0
    BY DEF v310
  <2>3. ASSUME Within(v, v300, v310), AtMost(v310, v), NEW i \in 1 .. Len(v)
        PROVE  v[i] = v310[i]
    BY <1>1, <2>1, <2>2, <2>3
  <2>4. Len(v) = Len(v310)
    BY <1>1, <2>2
  <2> QED BY <1>1, <2>2, <2>3, <2>4, SeqEqual, Zenon
<1> QED BY <1>3, <1>4, <1>5 DEF Within

(* A range that is supported holds the version.                            *)
LEMMA RangeHolds ==
  ASSUME NEW p, NEW first, NEW last, firmware_range(p, first, last).support = "Supported"
  PROVE  p.firmware # None /\ Within(compatibility_base(p.firmware), first, last)
BY DEF firmware_range, Status

-----------------------------------------------------------------------------
(* Configurations                                                          *)

Configured ==
  {"Ed25519", "Rsa3072", "Rsa4096", "X25519", "Secp256k1", "EccP521", "Sm2", "MlDsa65",
   "MlKem768"}

(* A list of algorithms names none twice.                                  *)
LEMMA AlgorithmsDistinct ==
  ASSUME NEW n \in 6 .. 9
  PROVE  /\ \A i \in 1 .. n : ConfiguredAlgorithms(n)[i] \in Configured
         /\ \A i, j \in 1 .. n :
              ConfiguredAlgorithms(n)[i] = ConfiguredAlgorithms(n)[j] => i = j
<1>1. CASE n = 6
  BY <1>1 DEF ConfiguredAlgorithms, Configured
<1>2. CASE n = 7
  BY <1>2 DEF ConfiguredAlgorithms, Configured
<1>3. CASE n = 8
  BY <1>3 DEF ConfiguredAlgorithms, Configured
<1>4. CASE n = 9
  BY <1>4 DEF ConfiguredAlgorithms, Configured
<1> QED BY <1>1, <1>2, <1>3, <1>4

(* What a readable configuration assigns: identifiers that are neither     *)
(* fixed nor shared.                                                       *)
Sound(config) ==
  /\ DOMAIN config.ids \subseteq Configured
  /\ \A a \in DOMAIN config.ids : config.ids[a] \in Nat /\ config.ids[a] \notin FixedIds
  /\ \A a, b \in DOMAIN config.ids : config.ids[a] = config.ids[b] => a = b

LEMMA ConfigSound ==
  ASSUME NEW raw \in ConfigType, ParseConfig(raw) # None
  PROVE  Sound(ParseConfig(raw)) /\ ParseConfig(raw).enabled = (raw.flag = 1)
<1> DEFINE n == IF Len(raw.ids) < 9 THEN Len(raw.ids) ELSE 9
           list == ConfiguredAlgorithms(n)
           at(a) == CHOOSE i \in 1 .. n : list[i] = a
           named == {list[i] : i \in 1 .. n}
           ids == [a \in named |-> raw.ids[at(a)]]
<1>1. /\ n >= 6
      /\ ParseConfig(raw) = [enabled |-> raw.flag = 1, ids |-> ids]
      /\ \A i \in 1 .. n : /\ raw.ids[i] \notin FixedIds
                           /\ \A j \in 1 .. i - 1 : raw.ids[j] # raw.ids[i]
  <2> DEFINE bad ==
        \E i \in 1 .. n : \/ raw.ids[i] \in {0} \cup FixedIds
                          \/ \E j \in 1 .. i - 1 : raw.ids[j] = raw.ids[i]
  <2>1. ParseConfig(raw) =
          IF n < 6 \/ raw.flag \notin 0 .. 1 \/ bad THEN None
          ELSE [enabled |-> raw.flag = 1, ids |-> ids]
    BY DEF ParseConfig
  <2>2. ~(n < 6) /\ ~bad /\ n \in Nat
    BY <2>1 DEF ConfigType
  <2> HIDE DEF ids
  <2>3. ParseConfig(raw) = [enabled |-> raw.flag = 1, ids |-> ids]
    BY <2>1
  <2> QED BY <2>2, <2>3
<1>2. raw.ids \in Seq(Nat) /\ Len(raw.ids) \in Nat
  BY DEF ConfigType
<1>3. n \in 6 .. 9
  <2>1. n >= 6
    BY <1>1
  <2>2. \A l \in Nat : LET m == IF l < 9 THEN l ELSE 9 IN m >= 6 => m \in 6 .. 9
    OBVIOUS
  <2> QED BY <1>2, <2>1, <2>2
<1>4. \A i \in 1 .. n : raw.ids[i] \in Nat
  <2>1. \A i \in 1 .. n : i \in 1 .. Len(raw.ids)
    BY <1>2
  <2> HIDE DEF n
  <2> QED BY <1>2, <2>1, ElementOfSeq, Zenon
<1>5. /\ \A i \in 1 .. n : list[i] \in Configured
      /\ \A i, j \in 1 .. n : list[i] = list[j] => i = j
  BY <1>3, AlgorithmsDistinct
<1> HIDE DEF n, list
<1>6. ASSUME NEW a \in named
      PROVE  at(a) \in 1 .. n /\ list[at(a)] = a
  <2>1. PICK i \in 1 .. n : list[i] = a
    OBVIOUS
  <2> QED BY <2>1
<1> HIDE DEF at
<1>7. \A i, j \in 1 .. n : raw.ids[i] = raw.ids[j] => i = j
  BY <1>1, <1>3
<1>8. named \subseteq Configured
  BY <1>5
<1> HIDE DEF named
<1>9. DOMAIN ids = named /\ \A a \in named : ids[a] = raw.ids[at(a)]
  OBVIOUS
<1> HIDE DEF ids
<1>10. \A a \in named : ids[a] \in Nat /\ ids[a] \notin FixedIds
  BY <1>1, <1>4, <1>6, <1>9
<1>11. \A a, b \in named : ids[a] = ids[b] => a = b
  BY <1>6, <1>7, <1>9
<1>12. ParseConfig(raw).ids = ids /\ ParseConfig(raw).enabled = (raw.flag = 1)
  BY <1>1
<1> QED BY <1>8, <1>9, <1>10, <1>11, <1>12 DEF Sound

-----------------------------------------------------------------------------
(* Identifiers                                                             *)

(* Two algorithms never go by one identifier.                              *)
LEMMA IdsDistinct ==
  ASSUME NEW p, p.config = None \/ Sound(p.config),
         NEW a \in Algorithms, NEW b \in Algorithms,
         algorithm_wire_id(p, a) # None, algorithm_wire_id(p, a) = algorithm_wire_id(p, b)
  PROVE  a = b
<1> DEFINE fixed == {"Rsa1024", "Rsa2048", "EccP256", "EccP384"}
<1>1. CASE p.config = None
  BY <1>1, ProbeAssumption DEF algorithm_wire_id, DefaultId, Algorithms
<1>2. CASE p.config # None
  <2>1. Sound(p.config)
    BY <1>2
  <2>2. \A x : x \in fixed =>
          algorithm_wire_id(p, x) = CASE x = "Rsa1024" -> 6 [] x = "Rsa2048" -> 7
                                      [] x = "EccP256" -> 17 [] x = "EccP384" -> 20
    BY DEF algorithm_wire_id
  <2>3. \A x \in Algorithms \ fixed : algorithm_wire_id(p, x) = extension_wire_id(p, x)
    BY <1>2 DEF algorithm_wire_id
  <2>4. \A x : extension_wire_id(p, x) # None =>
          x \in DOMAIN p.config.ids /\ extension_wire_id(p, x) = p.config.ids[x]
    BY DEF extension_wire_id, ConfiguredId
  <2>5. CASE a \in fixed /\ b \in fixed
    BY <2>2, <2>5
  <2>6. CASE a \notin fixed /\ b \notin fixed
    BY <2>1, <2>3, <2>4, <2>6 DEF Sound
  <2>7. CASE a \in fixed /\ b \notin fixed
    BY <2>1, <2>2, <2>3, <2>4, <2>7 DEF Sound, FixedIds
  <2>8. CASE a \notin fixed /\ b \in fixed
    BY <2>1, <2>2, <2>3, <2>4, <2>8 DEF Sound, FixedIds
  <2> QED BY <2>5, <2>6, <2>7, <2>8
<1> QED BY <1>1, <1>2

(* An identifier that is sent is read back as the algorithm it was for.    *)
LEMMA ReadsBack ==
  ASSUME NEW p, p.config = None \/ Sound(p.config), NEW a \in Algorithms,
         algorithm_wire_id(p, a) # None
  PROVE  algorithm_from_wire_id(p, algorithm_wire_id(p, a)) = a
<1> DEFINE those == {b \in Algorithms : algorithm_wire_id(p, b) = algorithm_wire_id(p, a)}
<1>1. those = {a}
  BY IdsDistinct
<1> QED BY <1>1 DEF algorithm_from_wire_id

-----------------------------------------------------------------------------
(* The inductive invariant                                                 *)

(* What the application was told of the device that is plugged in.         *)
Told(p) ==
  /\ p = [firmware |-> p.firmware, piv |-> p.piv, config |-> p.config,
          extensions |-> p.extensions, warnings |-> p.warnings]
  /\ p.firmware = ParseVersion(device.text)
  /\ p.config # None => p.config = ParseConfig(device.config) /\ Configurable
  /\ p.extensions # "unknown" =>
       /\ Legacy /\ p.config = None
       /\ p.extensions = IF device.switch THEN "on" ELSE "off"
  /\ <<"Unsupported", "algorithm_config">> \in p.warnings => device.foreign

Genuine ==
  /\ device = [text |-> device.text, config |-> device.config, switch |-> device.switch,
               foreign |-> device.foreign, serial |-> device.serial]
  /\ device.text.numbers \in Seq(Nat) /\ device.config \in ConfigType
  /\ device.switch \in BOOLEAN

(* While a probe runs, nothing is known yet of the configuration, and it   *)
(* is read only from a device that has one.                                *)
Probing ==
  stage # Idle =>
    /\ fresh /\ profile = None
    /\ observations =
         [text |-> observations.text, model |-> observations.model,
          serial |-> observations.serial, piv |-> observations.piv, config |-> None,
          warnings |-> observations.warnings]
    /\ <<"Unsupported", "algorithm_config">> \notin observations.warnings
    /\ stage > 2 => observations.text = device.text
    /\ stage = 7 => Configurable

ProbeInv ==
  /\ stage \in 1 .. 8 /\ Genuine /\ Probing
  /\ profile # None /\ fresh => Told(profile)

-----------------------------------------------------------------------------
(* What a profile that was told the truth promises                         *)

Fixed == {"Rsa1024", "Rsa2048", "EccP256", "EccP384"}

LEMMA SupportedHow ==
  ASSUME NEW p, NEW a \in Algorithms, key_algorithm_support(p, a).support = "Supported"
  PROVE  \/ a \in Fixed
         \/ /\ a \notin Fixed /\ ExtendedSupport(p, a) = "Supported"
            /\ a \in {"Ed25519", "X25519"} => AtMost(v301, compatibility_base(p.firmware))
            /\ a \in {"EccP521", "MlDsa65", "MlKem768"} =>
                 AtMost(v310, compatibility_base(p.firmware))
<1> SUFFICES ASSUME a \notin Fixed
             PROVE  /\ ExtendedSupport(p, a) = "Supported"
                    /\ a \in {"Ed25519", "X25519"} =>
                         AtMost(v301, compatibility_base(p.firmware))
                    /\ a \in {"EccP521", "MlDsa65", "MlKem768"} =>
                         AtMost(v310, compatibility_base(p.firmware))
  OBVIOUS
<1> DEFINE first == CASE a \in {"Ed25519", "X25519"} -> v301
                      [] a \in {"EccP521", "MlDsa65", "MlKem768"} -> v310
                      [] OTHER -> v200
<1>1. /\ firmware_range(p, first, v310).support = "Supported"
      /\ Status(ExtendedSupport(p, a), "Observed").support = "Supported"
  BY DEF key_algorithm_support, Fixed
<1>2. AtMost(first, compatibility_base(p.firmware))
  BY <1>1, RangeHolds DEF Within
<1> QED BY <1>1, <1>2 DEF Status

(* The device does with the identifier of a fixed algorithm what it says.  *)
LEMMA FixedOnCard ==
  ASSUME NEW p, NEW a \in Fixed
  PROVE  /\ algorithm_wire_id(p, a) # None
         /\ CardAlgorithm(algorithm_wire_id(p, a)) = a
<1>1. algorithm_wire_id(p, a) = CASE a = "Rsa1024" -> 6 [] a = "Rsa2048" -> 7
                                  [] a = "EccP256" -> 17 [] a = "EccP384" -> 20
  BY DEF algorithm_wire_id, Fixed
<1> QED BY <1>1, ProbeAssumption DEF CardAlgorithm, Fixed, FixedIds

(* With the switch of 2.x on, so does it with the identifiers of old.      *)
LEMMA LegacyOnCard ==
  ASSUME NEW p, Told(p), Genuine, p.config = None, NEW a \in Algorithms \ Fixed,
         ExtendedSupport(p, a) = "Supported",
         a \in {"Ed25519", "X25519"} => AtMost(v301, compatibility_base(p.firmware)),
         a \in {"EccP521", "MlDsa65", "MlKem768"} =>
           AtMost(v310, compatibility_base(p.firmware))
  PROVE  /\ algorithm_wire_id(p, a) # None
         /\ CardAlgorithm(algorithm_wire_id(p, a)) = a
<1>1. p.extensions = "on"
  BY DEF ExtendedSupport
<1>2. Legacy /\ device.switch
  BY <1>1 DEF Told, Genuine
<1>3. compatibility_base(p.firmware) = Base /\ p.firmware # None
  BY <1>2 DEF Told, Base, Legacy, Known
<1>4. Base \in Version /\ Within(Base, v200, v201)
  BY <1>2, BaseVersion DEF Legacy, Known, Genuine, Base
<1>5. AtMost(v200, Base) /\ ~AtMost(v300, Base) /\ ~AtMost(v310, Base) /\ ~AtMost(v301, Base)
  BY <1>4, Series
<1>6. a \in {"Rsa3072", "Rsa4096", "Secp256k1", "Sm2"}
  BY <1>3, <1>5 DEF Algorithms, Fixed
<1>7. algorithm_wire_id(p, a) = CASE a = "Rsa3072" -> 80 [] a = "Rsa4096" -> 81
                                  [] a = "Secp256k1" -> 83 [] a = "Sm2" -> 84
  BY <1>3, <1>5, <1>6 DEF algorithm_wire_id, DefaultId
<1>8. ~Configurable
  BY <1>4, Series DEF Configurable
<1>9. /\ CardAlgorithm(80) = "Rsa3072" /\ CardAlgorithm(81) = "Rsa4096"
      /\ CardAlgorithm(83) = "Secp256k1" /\ CardAlgorithm(84) = "Sm2"
  <2> DEFINE legacy == [i \in {34, 80, 81, 82, 83, 84} |->
                   CASE i = 34 -> "Ed25519" [] i = 80 -> "Rsa3072" [] i = 81 -> "Rsa4096"
                     [] i = 82 -> "X25519" [] i = 83 -> "Secp256k1" [] i = 84 -> "Sm2"]
  <2>1. \A id \in {34, 80, 81, 82, 83, 84} : CardAlgorithm(id) = legacy[id]
    BY <1>2, <1>8 DEF CardAlgorithm, FixedIds
  <2> QED BY <2>1
<1> QED BY <1>6, <1>7, <1>9, ProbeAssumption

(* A configured identifier stands on the device for the algorithm that the *)
(* configuration names it for.                                             *)
LEMMA ConfiguredOnCard ==
  ASSUME NEW p, Told(p), Genuine, p.config # None, NEW a \in Algorithms \ Fixed,
         ExtendedSupport(p, a) = "Supported"
  PROVE  /\ algorithm_wire_id(p, a) # None
         /\ CardAlgorithm(algorithm_wire_id(p, a)) = a
<1> DEFINE config == ParseConfig(device.config)
           id == config.ids[a]
<1>1. p.config = config /\ config # None /\ Configurable
  BY DEF Told
<1>2. Sound(config)
  BY <1>1, ConfigSound DEF Genuine
<1>3. extension_wire_id(p, a) # None
  BY DEF ExtendedSupport
<1>4. algorithm_wire_id(p, a) = extension_wire_id(p, a)
  BY DEF algorithm_wire_id, Fixed
<1>5. extension_wire_id(p, a) = ConfiguredId(config, a)
  BY <1>1, <1>3 DEF extension_wire_id
<1>6. config.enabled /\ a \in DOMAIN config.ids /\ ConfiguredId(config, a) = id
  BY <1>3, <1>5 DEF ConfiguredId
<1>7. id \notin FixedIds /\ {b \in DOMAIN config.ids : config.ids[b] = id} = {a}
  BY <1>2, <1>6 DEF Sound
<1>8. p.firmware = ParseVersion(device.text) /\ p.firmware # None
      /\ compatibility_base(p.firmware) = Base
  BY <1>1 DEF Told, Configurable, Known, Base
<1>9. Base \in Version /\ Within(Base, v300, v310)
  BY <1>1, <1>8, BaseVersion DEF Configurable, Known, Genuine, Base
<1>10. ~(Base = v310 /\ id \in ReservedIds)
  <2>1. AtMost(v310, v310)
    BY DEF AtMost, v310
  <2> QED BY <1>1, <1>3, <1>5, <1>6, <1>8, <2>1 DEF extension_wire_id
<1>11. ~Legacy
  BY <1>9, Series DEF Legacy
<1> HIDE DEF config, id
<1>12. CardAlgorithm(id) = a
  <2>1. ParseConfig(device.config) = config
    BY DEF config
  <2> QED BY <1>1, <1>6, <1>7, <1>10, <1>11, <2>1 DEF CardAlgorithm
<1> QED BY <1>3, <1>4, <1>5, <1>6, <1>12

(* A profile without a configuration, or with the device's own, reads      *)
(* identifiers back.                                                       *)
LEMMA ToldSound ==
  ASSUME NEW p, Told(p), Genuine
  PROVE  p.config = None \/ Sound(p.config)
BY ConfigSound DEF Told, Genuine

LEMMA ToldAuthorizes ==
  ASSUME NEW p, Told(p), Genuine, NEW a \in Algorithms,
         key_algorithm_support(p, a).support = "Supported"
  PROVE  LET id == algorithm_wire_id(p, a) IN
         /\ id # None
         /\ CardAlgorithm(id) = a
         /\ algorithm_from_wire_id(p, id) = a
<1>1. algorithm_wire_id(p, a) # None /\ CardAlgorithm(algorithm_wire_id(p, a)) = a
  BY SupportedHow, FixedOnCard, LegacyOnCard, ConfiguredOnCard
<1> QED BY <1>1, ToldSound, ReadsBack

LEMMA ToldExtensions ==
  ASSUME NEW p, Told(p), Genuine,
         capability(p, "AlgorithmExtensions").evidence = "Observed"
  PROVE  /\ capability(p, "AlgorithmExtensions").support = "Supported" => Extended
         /\ capability(p, "AlgorithmExtensions").support = "Unsupported" =>
              ~Extended \/ device.foreign
<1>1. capability(p, "AlgorithmExtensions") =
        IF ObservedExtensions(p) # "none" THEN Status(ObservedExtensions(p), "Observed")
        ELSE Threshold(p, "AlgorithmExtensions")
  BY DEF capability, Everywhere, Since152, Since161, Since200, Since300, Since301, Since310,
         Only130, Only30x
<1>2. Threshold(p, "AlgorithmExtensions").evidence # "Observed"
  BY DEF Threshold, Status
<1>3. capability(p, "AlgorithmExtensions").support = ObservedExtensions(p)
  BY <1>1, <1>2 DEF Status
<1>4. Legacy => ~Configurable
  <2>1. Legacy => Base \in Version
    BY BaseVersion DEF Legacy, Known, Genuine, Base
  <2> QED BY <2>1, Series DEF Legacy, Configurable
<1>5. CASE p.extensions # "unknown"
  BY <1>3, <1>4, <1>5 DEF ObservedExtensions, Told, Extended
<1>6. CASE p.extensions = "unknown" /\ <<"Unsupported", "algorithm_config">> \in p.warnings
  BY <1>3, <1>6 DEF ObservedExtensions, Told
<1>7. CASE p.extensions = "unknown" /\ <<"Unsupported", "algorithm_config">> \notin p.warnings
  <2>1. /\ ObservedExtensions(p) = "Supported" => p.config # None /\ p.config.enabled
        /\ ObservedExtensions(p) = "Unsupported" => p.config # None /\ ~p.config.enabled
    BY <1>7 DEF ObservedExtensions
  <2>2. p.config # None =>
          Configurable /\ p.config.enabled = (device.config.flag = 1)
    BY ConfigSound DEF Told, Genuine
  <2> QED BY <1>3, <1>4, <2>1, <2>2 DEF Extended
<1> QED BY <1>5, <1>6, <1>7

-----------------------------------------------------------------------------
(* The steps                                                               *)

LEMMA SameDevice ==
  ASSUME device' = device, NEW p
  PROVE  /\ profile' = p /\ Told(p) => Told(profile)'
         /\ Genuine => Genuine'
         /\ Configurable <=> Configurable'
BY DEF Told, Genuine, Configurable, Legacy, Known, Base

(* What a profile made of observations holds.                              *)
LEMMA ProfileOf ==
  ASSUME NEW seen
  PROVE  LET p == from_observations(seen) IN
         /\ p = [firmware |-> ParseVersion(seen.text), piv |-> seen.piv,
                 config |-> seen.config, extensions |-> "unknown", warnings |-> p.warnings]
         /\ <<"Unsupported", "algorithm_config">> \in p.warnings =>
              <<"Unsupported", "algorithm_config">> \in seen.warnings
<1> DEFINE p == from_observations(seen)
<1>1. p = [firmware |-> ParseVersion(seen.text), piv |-> seen.piv,
           config |-> seen.config, extensions |-> "unknown", warnings |-> p.warnings]
  BY DEF from_observations
<1>2. <<"Unsupported", "algorithm_config">> \in p.warnings =>
        <<"Unsupported", "algorithm_config">> \in seen.warnings
  BY DEF from_observations
<1> QED BY <1>1, <1>2

(* The observations after an answer, before the next command is chosen.    *)
Seen(seen) ==
  /\ seen = [text |-> seen.text, model |-> seen.model, serial |-> seen.serial,
             piv |-> seen.piv, config |-> seen.config, warnings |-> seen.warnings]
  /\ stage >= 2 => seen.text = device.text
  /\ seen.config # None => stage = 7 /\ seen.config = ParseConfig(device.config)
  /\ <<"Unsupported", "algorithm_config">> \in seen.warnings => stage = 7 /\ device.foreign

LEMMA ProceedKeeps ==
  ASSUME ProbeInv, stage # Idle, NEW seen, Seen(seen), Proceed(seen),
         UNCHANGED <<given, device, fresh>>
  PROVE  ProbeInv'
<1> DEFINE known == stage = 3 /\ given # None
           now == IF known THEN [seen EXCEPT !.serial = given] ELSE seen
           at == IF known THEN 4 ELSE stage
           unreadable ==
             algorithm_config_read_support(from_observations(now)).support # "Supported"
<1>1. /\ stage \in 1 .. 7 /\ at \in 1 .. 7 /\ at >= stage /\ (at >= 3 => stage >= 2)
      /\ (at = 7 => stage = 7)
  BY DEF ProbeInv, Idle
<1>2. Seen(now)
  BY DEF Seen
<1>3. ASSUME at \notin 1 .. 2
      PROVE  from_observations(now).firmware = ParseVersion(device.text)
  BY <1>1, <1>2, <1>3, ProfileOf DEF Seen
<1>4. stage = 7 => Configurable
  BY DEF ProbeInv, Probing, Idle
<1>5. observations' = now /\ Genuine' /\ fresh' = fresh /\ device' = device
  BY SameDevice DEF Proceed, ProbeInv
<1> HIDE DEF now
<1>6. CASE Conclude(now) /\ at >= 3
  <2>1. Told(from_observations(now))
    BY <1>1, <1>2, <1>3, <1>4, <1>6, ProfileOf DEF Told, Seen
  <2>2. profile' = from_observations(now) /\ stage' = Idle
    BY <1>6 DEF Conclude, Finish
  <2> QED BY <1>5, <2>1, <2>2, SameDevice DEF ProbeInv, Probing, Idle
<1>7. CASE /\ at \in 1 .. 3 \/ at = 4 \/ at = 5 \/ (at = 6 /\ ~unreadable)
           /\ stage' = at + 1 /\ UNCHANGED profile
  <2>1. at \in 1 .. 6 /\ stage' \in 2 .. 7 /\ stage # 7
    BY <1>1, <1>7
  <2>2. stage' > 2 => stage >= 2
    BY <1>1, <1>7
  <2>3. stage' = 7 => Configurable
    <3> SUFFICES ASSUME stage' = 7 PROVE Configurable
      OBVIOUS
    <3>1. at = 6 /\ ~unreadable
      BY <1>1, <1>7
    <3> DEFINE p == from_observations(now)
    <3>2. firmware_range(p, v300, v310).support = "Supported"
      BY <3>1 DEF algorithm_config_read_support, Status
    <3>3. p.firmware # None /\ Within(compatibility_base(p.firmware), v300, v310)
      BY <3>2, RangeHolds
    <3> QED BY <1>3, <3>1, <3>3 DEF Configurable, Known, Base
  <2>4. now.config = None /\ <<"Unsupported", "algorithm_config">> \notin now.warnings
    BY <1>2, <2>1 DEF Seen
  <2>5. fresh /\ profile = None
    BY DEF ProbeInv, Probing
  <2>6. Probing'
    BY <1>2, <1>5, <1>7, <2>1, <2>2, <2>3, <2>4, <2>5, SameDevice DEF Probing, Seen
  <2>7. stage' \in 1 .. 8
    BY <2>1
  <2> QED BY <1>5, <1>7, <2>5, <2>6, <2>7 DEF ProbeInv
<1>8. \/ Conclude(now) /\ at >= 3
      \/ /\ at \in 1 .. 3 \/ at = 4 \/ at = 5 \/ (at = 6 /\ ~unreadable)
         /\ stage' = at + 1 /\ UNCHANGED profile
  BY <1>1 DEF Proceed, now
<1> QED BY <1>6, <1>7, <1>8

LEMMA AnsweredStep ==
  ASSUME ProbeInv, Answered
  PROVE  ProbeInv'
<1>1. stage \in 1 .. 7 /\ Genuine /\ Probing /\ profile = None /\ fresh
  BY DEF Answered, ProbeInv, Probing, Idle
<1>2. UNCHANGED <<given, device, fresh>> /\ stage # Idle
  BY DEF Answered
<1>3. PICK status \in Answers :
        \/ status = "9000" /\ Observed # None /\ Proceed(Observed)
        \/ /\ status = "9000" /\ Observed = None /\ Finish("InvalidResponse")
           /\ UNCHANGED <<observations, profile>>
        \/ /\ status # "9000" /\ stage \in {3, 4, 7} /\ optional(status) # "error"
           /\ Proceed([observations EXCEPT
                         !.warnings = @ \cup {<<optional(status), Named[stage]>>}])
        \/ /\ status # "9000" /\ (stage \notin {3, 4, 7} \/ optional(status) = "error")
           /\ Finish(status) /\ UNCHANGED <<observations, profile>>
  BY DEF Answered
<1>4. CASE status = "9000" /\ Observed # None /\ Proceed(Observed)
  <2>1. /\ observations =
             [text |-> observations.text, model |-> observations.model,
              serial |-> observations.serial, piv |-> observations.piv,
              config |-> observations.config, warnings |-> observations.warnings]
        /\ observations.config = None
        /\ <<"Unsupported", "algorithm_config">> \notin observations.warnings
        /\ stage > 2 => observations.text = device.text
    BY <1>1 DEF Probing, Idle
  <2>2. Seen(Observed)
    <3>1. CASE stage \in {1, 5}
      <4>1. Observed = observations
        BY <3>1 DEF Observed
      <4> QED BY <2>1, <4>1, <3>1 DEF Seen
    <3>2. CASE stage = 2
      BY <2>1, <3>2 DEF Observed, Seen
    <3>3. CASE stage = 3
      <4>1. Observed = [observations EXCEPT !.model = TRUE]
        BY <3>3 DEF Observed
      <4>2. Observed = [text |-> observations.text, model |-> TRUE,
                        serial |-> observations.serial, piv |-> observations.piv,
                        config |-> None, warnings |-> observations.warnings]
        BY <2>1, <4>1
      <4> QED BY <2>1, <3>3, <4>2 DEF Seen
    <3>4. CASE stage = 4
      BY <2>1, <3>4 DEF Observed, Seen
    <3>5. CASE stage = 6
      <4>1. Observed = [observations EXCEPT !.piv = TRUE]
        BY <3>5 DEF Observed
      <4>2. Observed = [text |-> observations.text, model |-> observations.model,
                        serial |-> observations.serial, piv |-> TRUE,
                        config |-> None, warnings |-> observations.warnings]
        BY <2>1, <4>1
      <4> QED BY <2>1, <3>5, <4>2 DEF Seen
    <3>6. CASE stage = 7
      BY <1>4, <2>1, <3>6 DEF Observed, Seen
    <3> QED BY <1>1, <3>1, <3>2, <3>3, <3>4, <3>5, <3>6
  <2> QED BY <1>2, <1>4, <2>2, ProceedKeeps
<1>5. CASE Finish("InvalidResponse") /\ UNCHANGED <<observations, profile>>
  BY <1>1, <1>2, <1>5, SameDevice DEF Finish, ProbeInv, Probing, Idle
<1>6. CASE /\ status # "9000" /\ stage \in {3, 4, 7} /\ optional(status) # "error"
           /\ Proceed([observations EXCEPT
                         !.warnings = @ \cup {<<optional(status), Named[stage]>>}])
  <2> DEFINE seen == [observations EXCEPT
                        !.warnings = @ \cup {<<optional(status), Named[stage]>>}]
  <2>1. <<"Unsupported", "algorithm_config">> \in seen.warnings => stage = 7 /\ device.foreign
    <3> SUFFICES ASSUME <<"Unsupported", "algorithm_config">> \in seen.warnings
                 PROVE  stage = 7 /\ device.foreign
      OBVIOUS
    <3>1. <<"Unsupported", "algorithm_config">> = <<optional(status), Named[stage]>>
      BY <1>1 DEF Probing, Idle
    <3>2. stage = 7
      BY <1>6, <3>1 DEF Named
    <3>3. status \in ConfigAnswers
      BY <3>2 DEF Answers
    <3>4. status \in {"6d00", "6e00", "6a81", "6a86"}
      BY <3>1 DEF optional
    <3>5. status \notin {"6f00", "6982", "9000"}
      BY <3>4
    <3>6. device.foreign
      BY <3>3, <3>5 DEF ConfigAnswers
    <3> QED BY <3>2, <3>6
  <2>2. Seen(seen)
    BY <1>1, <1>6, <2>1, SMTT(30) DEF Seen, Probing, Idle
  <2> QED BY <1>2, <1>6, <2>2, ProceedKeeps
<1>7. CASE Finish(status) /\ UNCHANGED <<observations, profile>>
  BY <1>1, <1>2, <1>7, SameDevice DEF Finish, ProbeInv, Probing, Idle
<1> QED BY <1>3, <1>4, <1>5, <1>6, <1>7

LEMMA ProbeInitially == Init => ProbeInv
BY ProbeAssumption DEF Init, ProbeInv, Genuine, Probing, Idle

LEMMA ProbeKept == ProbeInv /\ [Next]_vars => ProbeInv'
<1> SUFFICES ASSUME ProbeInv, [Next]_vars PROVE ProbeInv'
  OBVIOUS
<1>1. ASSUME NEW m, NEW serial, probe_device(m, serial) PROVE ProbeInv'
  BY <1>1, SameDevice DEF probe_device, ProbeInv, Probing, Idle, NoObservations
<1>2. CASE Answered
  BY <1>2, AnsweredStep
<1>3. ASSUME NEW config \in Configs, RewriteConfig(config) PROVE ProbeInv'
  <2>1. Genuine'
    BY <1>3, ProbeAssumption DEF RewriteConfig, ProbeInv, Genuine
  <2> QED BY <1>3, <2>1 DEF RewriteConfig, ProbeInv, Probing
<1>4. ASSUME NEW enabled \in BOOLEAN, Switched(enabled) PROVE ProbeInv'
  <2>1. Genuine' /\ stage' = Idle /\ stage' \in 1 .. 8
    BY <1>4 DEF Switched, ProbeInv, Genuine
  <2>2. ASSUME profile' # None PROVE Told(profile)'
    <3>1. /\ profile.config = None
          /\ profile' = [profile EXCEPT !.extensions = IF enabled THEN "on" ELSE "off"]
      BY <1>4, <2>2 DEF Switched, with_legacy_piv_extensions
    <3>2. Told(profile) /\ Genuine
      BY <1>4 DEF Switched, ProbeInv
    <3>3. profile' = [firmware |-> profile.firmware, piv |-> profile.piv, config |-> None,
                      extensions |-> IF enabled THEN "on" ELSE "off",
                      warnings |-> profile.warnings]
      BY <3>1, <3>2 DEF Told
    <3>4. device' = [device EXCEPT !.switch = enabled] /\ Legacy
      BY <1>4 DEF Switched
    <3>5. device'.text = device.text /\ device'.switch = enabled
          /\ device'.foreign = device.foreign
      BY <3>2, <3>4 DEF Genuine
    <3>6. Legacy'
      BY <3>4, <3>5 DEF Legacy, Known, Base
    <3> QED BY <3>2, <3>3, <3>5, <3>6 DEF Told
  <2> QED BY <2>1, <2>2 DEF ProbeInv, Probing
<1>5. ASSUME NEW enabled \in BOOLEAN, SwitchLost(enabled) PROVE ProbeInv'
  <2>1. Genuine'
    BY <1>5 DEF SwitchLost, ProbeInv, Genuine
  <2> QED BY <1>5, <2>1 DEF SwitchLost, ProbeInv, Probing
<1>6. CASE Replaced
  BY <1>6, ProbeAssumption DEF Replaced, ProbeInv, Probing, Genuine
<1>7. CASE UNCHANGED vars
  <2>1. device' = device /\ profile' = profile
    BY <1>7 DEF vars
  <2>2. Genuine' /\ (Told(profile) => Told(profile)') /\ (Configurable <=> Configurable')
    BY <2>1, SameDevice DEF ProbeInv
  <2> QED BY <1>7, <2>2 DEF vars, ProbeInv, Probing
<1> QED BY <1>1, <1>2, <1>3, <1>4, <1>5, <1>6, <1>7 DEF Next

-----------------------------------------------------------------------------
(* The theorems                                                            *)

(* The inductive invariant of the probe and of the profile it leaves.      *)
THEOREM ProbeInvariant == Spec => []ProbeInv
BY ProbeInitially, ProbeKept, PTL DEF Spec

(* For any devices and configurations: what a fresh profile authorizes for *)
(* key operations, the device does under the identifier that is sent.      *)
THEOREM ProfileAuthorizes == Spec => []AuthorizedIsTrue
<1>1. ProbeInv => AuthorizedIsTrue
  BY ToldAuthorizes DEF ProbeInv, AuthorizedIsTrue
<1> QED BY <1>1, ProbeInvariant, PTL

(* For any devices and configurations: what a fresh profile presents as    *)
(* observed of the algorithm extensions is so.                             *)
THEOREM ExtensionsObserved == Spec => []ExtensionsTrue
<1>1. ProbeInv => ExtensionsTrue
  BY ToldExtensions DEF ProbeInv, ExtensionsTrue
<1> QED BY <1>1, ProbeInvariant, PTL

-----------------------------------------------------------------------------
(* OpenPGP: the inductive invariant                                        *)

Stages == {"Select", "Metadata", "Authenticate", "Acknowledge", "Target"}

Certificates == {"ReadCertificate", "WriteCertificate"}

(* The queue of c from a stage on.                                         *)
FromTarget(c) == IF c.op # "Verify" THEN <<"Target">> ELSE <<>>

FromAcknowledge(c) ==
  (IF c.op \in Certificates THEN <<"Acknowledge">> ELSE <<>>) \o FromTarget(c)

FromAuthenticate(c) ==
  (IF c.access # None THEN <<"Authenticate">> ELSE <<>>) \o FromAcknowledge(c)

FromMetadata(c) == (IF KeySlot(c) # None THEN <<"Metadata">> ELSE <<>>) \o FromAuthenticate(c)

(* The stages that follow the one at which c is, in its queue.             *)
Rest(c, at) ==
  IF at = "Select" THEN FromMetadata(c)
  ELSE IF at = "Metadata" THEN FromAuthenticate(c)
  ELSE IF at = "Authenticate" THEN FromAcknowledge(c)
  ELSE IF at = "Acknowledge" THEN FromTarget(c) ELSE <<>>

(* The stage that comes after that one, or none.                           *)
Following(c, at) ==
  IF at = "Select" /\ KeySlot(c) # None THEN "Metadata"
  ELSE IF at \in {"Select", "Metadata"} /\ c.access # None THEN "Authenticate"
  ELSE IF at \in {"Select", "Metadata", "Authenticate"} /\ c.op \in Certificates
  THEN "Acknowledge"
  ELSE IF at # "Target" /\ c.op # "Verify" THEN "Target" ELSE "none"

(* A request that the library lets start.                                  *)
Started(c) == c \in Calls /\ Permitted(c) /\ AccessFits(c) /\ TargetFits(c)

(* The stage is one of the request's, and the others are queued.           *)
Staged ==
  /\ Started(call) /\ ended = "none"
  /\ pending \in Stages
  /\ pending = "Metadata" => KeySlot(call) # None
  /\ pending = "Authenticate" => call.access # None
  /\ pending = "Acknowledge" => call.op \in Certificates
  /\ pending = "Target" => call.op # "Verify"
  /\ queue = Rest(call, pending)

(* What the stages that are over established.                              *)
Established ==
  /\ pending # "Select" /\ call.op # "Activate" => ~card.terminated
  /\ pending \notin {"Select", "Metadata"} /\ KeySlot(call) # None =>
       algorithm = card.attributes[KeySlot(call)] /\ MetadataError(algorithm) = None
  /\ pending \in {"Acknowledge", "Target"} /\ call.access # None =>
       call.access.reference \in card.verified
  /\ pending = "Target" /\ call.op \in Certificates => card.occurrence = call.slot

PgpInv ==
  /\ CardType(card)
  /\ pending # "Idle" => Staged /\ Established
  /\ ended = "SecurityStatusNotSatisfied" => call.op = "Terminate" /\ call.access = None

-----------------------------------------------------------------------------
(* The queue                                                               *)

LEMMA KeySlots ==
  ASSUME NEW c, RequestType(c), KeySlot(c) # None
  PROVE  /\ KeySlot(c) \in Slots
         /\ c.op \notin Certificates /\ c.op # "Verify"
BY DEF KeySlot, Certificates, RequestType, Slots, Requests

(* A sequence with an element put before it.                               *)
LEMMA Prefixed ==
  ASSUME NEW S, NEW s, NEW e, s \in Seq(S), e \in S
  PROVE  <<e>> \o s # <<>> /\ Head(<<e>> \o s) = e /\ Tail(<<e>> \o s) = s
<1>1. <<e>> \in Seq(S) /\ Len(<<e>>) = 1 /\ <<e>>[1] = e
  OBVIOUS
<1> DEFINE r == <<e>> \o s
<1>2. /\ r \in Seq(S) /\ Len(r) = 1 + Len(s)
      /\ \A i \in 1 .. 1 + Len(s) : r[i] = IF i <= 1 THEN <<e>>[i] ELSE s[i - 1]
  BY <1>1, ConcatProperties, Zenon
<1> HIDE DEF r
<1>3. Len(s) \in Nat
  OBVIOUS
<1>4. r[1] = e /\ r # <<>> /\ Head(r) = e
  BY <1>1, <1>2, <1>3
<1>5. Tail(r) \in Seq(S) /\ Len(Tail(r)) = Len(s) /\ \A i \in 1 .. Len(s) : Tail(r)[i] = s[i]
  BY <1>2, <1>3, <1>4
<1>6. Tail(r) = s
  BY <1>5
<1> QED BY <1>4, <1>6 DEF r

(* A stage that a queue may begin with.                                    *)
LEMMA MaybePrefixed ==
  ASSUME NEW r, NEW s, NEW e, NEW b \in BOOLEAN, s \in Seq(Stages), e \in Stages,
         b => r = <<e>> \o s, ~b => r = <<>> \o s
  PROVE  /\ r \in Seq(Stages)
         /\ b => r # <<>> /\ Head(r) = e /\ Tail(r) = s
         /\ ~b => r = s
<1>1. CASE b
  <2>1. <<e>> \in Seq(Stages)
    OBVIOUS
  <2>2. <<e>> \o s \in Seq(Stages)
    BY <2>1, ConcatProperties, Zenon
  <2>3. <<e>> \o s # <<>> /\ Head(<<e>> \o s) = e /\ Tail(<<e>> \o s) = s
    BY Prefixed, Zenon
  <2> QED BY <1>1, <2>1, <2>2, <2>3, Zenon
<1>2. CASE ~b
  <2>1. <<>> \o s = s
    BY ConcatEmptySeq, Zenon
  <2> QED BY <1>2, <2>1, Zenon
<1> QED BY <1>1, <1>2

LEMMA FromsUnfold ==
  ASSUME NEW c
  PROVE  /\ FromTarget(c) \in Seq(Stages)
         /\ IF c.op # "Verify"
            THEN /\ FromTarget(c) # <<>> /\ Head(FromTarget(c)) = "Target"
                 /\ Tail(FromTarget(c)) = <<>>
            ELSE FromTarget(c) = <<>>
         /\ FromAcknowledge(c) \in Seq(Stages)
         /\ IF c.op \in Certificates
            THEN /\ FromAcknowledge(c) # <<>> /\ Head(FromAcknowledge(c)) = "Acknowledge"
                 /\ Tail(FromAcknowledge(c)) = FromTarget(c)
            ELSE FromAcknowledge(c) = FromTarget(c)
         /\ FromAuthenticate(c) \in Seq(Stages)
         /\ IF c.access # None
            THEN /\ FromAuthenticate(c) # <<>> /\ Head(FromAuthenticate(c)) = "Authenticate"
                 /\ Tail(FromAuthenticate(c)) = FromAcknowledge(c)
            ELSE FromAuthenticate(c) = FromAcknowledge(c)
         /\ FromMetadata(c) \in Seq(Stages)
         /\ IF KeySlot(c) # None
            THEN /\ FromMetadata(c) # <<>> /\ Head(FromMetadata(c)) = "Metadata"
                 /\ Tail(FromMetadata(c)) = FromAuthenticate(c)
            ELSE FromMetadata(c) = FromAuthenticate(c)
<1>1. FromTarget(c) \in Seq(Stages) /\ (c.op = "Verify" => FromTarget(c) = <<>>)
  <2>1. <<"Target">> \in Seq(Stages) /\ <<>> \in Seq(Stages)
    BY DEF Stages
  <2> QED BY <2>1, Zenon DEF FromTarget
<1>2. c.op # "Verify" => FromTarget(c) # <<>> /\ Head(FromTarget(c)) = "Target"
                           /\ Tail(FromTarget(c)) = <<>>
  BY DEF FromTarget
<1>3. Stages \subseteq Stages /\ "Acknowledge" \in Stages /\ "Authenticate" \in Stages
      /\ "Metadata" \in Stages
  BY DEF Stages
<1>4. /\ FromAcknowledge(c) \in Seq(Stages)
      /\ IF c.op \in Certificates
         THEN /\ FromAcknowledge(c) # <<>> /\ Head(FromAcknowledge(c)) = "Acknowledge"
              /\ Tail(FromAcknowledge(c)) = FromTarget(c)
         ELSE FromAcknowledge(c) = FromTarget(c)
  <2>1. (c.op \in Certificates) => FromAcknowledge(c) = <<"Acknowledge">> \o FromTarget(c)
    BY Zenon DEF FromAcknowledge
  <2>2. ~(c.op \in Certificates) => FromAcknowledge(c) = <<>> \o FromTarget(c)
    BY Zenon DEF FromAcknowledge
  <2>3. /\ "Acknowledge" \in Stages /\ FromTarget(c) \in Seq(Stages)
        /\ (c.op \in Certificates) \in BOOLEAN
    BY <1>3, <1>1
  <2> QED BY ONLY <2>1, <2>2, <2>3, MaybePrefixed
<1>5. /\ FromAuthenticate(c) \in Seq(Stages)
      /\ IF c.access # None
         THEN /\ FromAuthenticate(c) # <<>> /\ Head(FromAuthenticate(c)) = "Authenticate"
              /\ Tail(FromAuthenticate(c)) = FromAcknowledge(c)
         ELSE FromAuthenticate(c) = FromAcknowledge(c)
  <2>1. (c.access # None) => FromAuthenticate(c) = <<"Authenticate">> \o FromAcknowledge(c)
    BY Zenon DEF FromAuthenticate
  <2>2. ~(c.access # None) => FromAuthenticate(c) = <<>> \o FromAcknowledge(c)
    BY Zenon DEF FromAuthenticate
  <2>3. /\ "Authenticate" \in Stages /\ FromAcknowledge(c) \in Seq(Stages)
        /\ (c.access # None) \in BOOLEAN
    BY <1>3, <1>4
  <2> QED BY ONLY <2>1, <2>2, <2>3, MaybePrefixed
<1>6. /\ FromMetadata(c) \in Seq(Stages)
      /\ IF KeySlot(c) # None
         THEN /\ FromMetadata(c) # <<>> /\ Head(FromMetadata(c)) = "Metadata"
              /\ Tail(FromMetadata(c)) = FromAuthenticate(c)
         ELSE FromMetadata(c) = FromAuthenticate(c)
  <2>1. (KeySlot(c) # None) => FromMetadata(c) = <<"Metadata">> \o FromAuthenticate(c)
    BY Zenon DEF FromMetadata
  <2>2. ~(KeySlot(c) # None) => FromMetadata(c) = <<>> \o FromAuthenticate(c)
    BY Zenon DEF FromMetadata
  <2>3. /\ "Metadata" \in Stages /\ FromAuthenticate(c) \in Seq(Stages)
        /\ (KeySlot(c) # None) \in BOOLEAN
    BY <1>3, <1>5
  <2> QED BY ONLY <2>1, <2>2, <2>3, MaybePrefixed
<1> QED BY <1>1, <1>2, <1>4, <1>5, <1>6, Zenon

LEMMA QueueRest ==
  ASSUME NEW c
  PROVE  Head(Queue(c)) = "Select" /\ Tail(Queue(c)) = Rest(c, "Select")
<1> DEFINE x == <<"Select">>
           m == IF KeySlot(c) # None THEN <<"Metadata">> ELSE <<>>
           a == IF c.access # None THEN <<"Authenticate">> ELSE <<>>
           k == IF c.op \in Certificates THEN <<"Acknowledge">> ELSE <<>>
           t == FromTarget(c)
           kt == FromAcknowledge(c)
           akt == FromAuthenticate(c)
           xm == x \o m
           xma == xm \o a
<1>1. m \in Seq(Stages) /\ a \in Seq(Stages) /\ k \in Seq(Stages)
  <2>1. /\ <<"Metadata">> \in Seq(Stages) /\ <<"Authenticate">> \in Seq(Stages)
        /\ <<"Acknowledge">> \in Seq(Stages) /\ <<>> \in Seq(Stages)
    BY DEF Stages
  <2> QED BY <2>1, Zenon
<1>2. /\ t \in Seq(Stages) /\ kt \in Seq(Stages) /\ akt \in Seq(Stages)
      /\ FromMetadata(c) \in Seq(Stages)
  BY FromsUnfold, Zenon
<1>3. x \in Seq(Stages) /\ "Select" \in Stages
  BY DEF Stages
<1>4. FromMetadata(c) = m \o akt /\ akt = a \o kt /\ kt = k \o t
  BY Zenon DEF FromMetadata, FromAuthenticate, FromAcknowledge
<1>5. Queue(c) = (xma \o k) \o t
  BY Zenon DEF Queue, FromTarget, Certificates
<1> HIDE DEF x, m, a, k, t, kt, akt
<1>6. xm \in Seq(Stages)
  BY <1>1, <1>3, ConcatProperties, Zenon
<1> HIDE DEF xm
<1>7. xma \in Seq(Stages)
  BY <1>1, <1>6, ConcatProperties, Zenon
<1> HIDE DEF xma
<1>8. (xma \o k) \o t = xma \o (k \o t)
  <2>1. xma \in Seq(Stages) /\ k \in Seq(Stages) /\ t \in Seq(Stages)
    BY <1>1, <1>2, <1>7
  <2> QED BY ONLY <2>1, ConcatAssociative, SMTT(30)
<1>9. (xm \o a) \o kt = xm \o (a \o kt)
  <2>1. xm \in Seq(Stages) /\ a \in Seq(Stages) /\ kt \in Seq(Stages)
    BY <1>1, <1>2, <1>6
  <2> QED BY ONLY <2>1, ConcatAssociative, SMTT(30)
<1>10. (x \o m) \o akt = x \o (m \o akt)
  <2>1. x \in Seq(Stages) /\ m \in Seq(Stages) /\ akt \in Seq(Stages)
    BY <1>1, <1>2, <1>3
  <2> QED BY ONLY <2>1, ConcatAssociative, SMTT(30)
<1>11. Queue(c) = x \o FromMetadata(c)
  BY <1>4, <1>5, <1>8, <1>9, <1>10, Zenon DEF xm, xma
<1>12. Head(Queue(c)) = "Select" /\ Tail(Queue(c)) = FromMetadata(c)
  BY <1>2, <1>3, <1>11, Prefixed, Zenon DEF x
<1> QED BY <1>12 DEF Rest

LEMMA RestUnfolds ==
  ASSUME NEW c, RequestType(c), NEW at \in Stages,
         at = "Metadata" => KeySlot(c) # None,
         at = "Acknowledge" => c.op \in Certificates
  PROVE  LET f == Following(c, at) IN
         /\ Rest(c, at) = <<>> <=> f = "none"
         /\ f # "none" => /\ Head(Rest(c, at)) = f /\ Tail(Rest(c, at)) = Rest(c, f)
                          /\ f \in Stages \ {"Select"}
                          /\ f = "Metadata" => KeySlot(c) # None
                          /\ f = "Authenticate" => c.access # None
                          /\ f = "Acknowledge" => c.op \in Certificates
                          /\ f = "Target" => c.op # "Verify"
<1>1. KeySlot(c) # None => c.op \notin Certificates /\ c.op # "Verify"
  BY KeySlots
<1>2. CASE at = "Select"
  BY <1>1, <1>2, FromsUnfold DEF Following, Rest, Stages, Certificates
<1>3. CASE at = "Metadata"
  BY <1>1, <1>3, FromsUnfold DEF Following, Rest, Stages, Certificates
<1>4. CASE at = "Authenticate"
  BY <1>1, <1>4, FromsUnfold DEF Following, Rest, Stages, Certificates
<1>5. CASE at = "Acknowledge"
  BY <1>1, <1>5, FromsUnfold DEF Following, Rest, Stages, Certificates
<1>6. CASE at = "Target"
  BY <1>1, <1>6 DEF Following, Rest, Stages, Certificates
<1> QED BY <1>2, <1>3, <1>4, <1>5, <1>6 DEF Stages

-----------------------------------------------------------------------------
(* The applet's state                                                      *)

Parts(p, t, v, a, k, c, o, e) ==
  [pw |-> p, tries |-> t, verified |-> v, attributes |-> a, key |-> k, certificate |-> c,
   occurrence |-> o, terminated |-> e]

LEMMA PartsTyped ==
  ASSUME NEW p, NEW t, NEW v, NEW a, NEW k, NEW c, NEW o, NEW e, NEW m,
         m = Parts(p, t, v, a, k, c, o, e)
  PROVE  /\ m.pw = p /\ m.tries = t /\ m.verified = v /\ m.attributes = a /\ m.key = k
         /\ m.certificate = c /\ m.occurrence = o /\ m.terminated = e
         /\ /\ p = [n \in Passwords |-> p[n]] /\ t \in [Passwords -> 0 .. MaxTries]
            /\ a \in [Slots -> Algorithms] /\ k \in [Slots -> BOOLEAN]
            /\ c = [s \in Slots |-> c[s]] /\ o \in Slots
            => CardType(m)
<1>1. /\ m.pw = p /\ m.tries = t /\ m.verified = v /\ m.attributes = a /\ m.key = k
      /\ m.certificate = c /\ m.occurrence = o /\ m.terminated = e
  BY DEF Parts
<1>2. m = [pw |-> m.pw, tries |-> m.tries, verified |-> m.verified, attributes |-> m.attributes,
           key |-> m.key, certificate |-> m.certificate, occurrence |-> m.occurrence,
           terminated |-> m.terminated]
  BY <1>1, Zenon DEF Parts
<1> QED BY <1>1, <1>2 DEF CardType

LEMMA CardFields ==
  ASSUME NEW m, CardType(m)
  PROVE  /\ m.pw = [n \in Passwords |-> m.pw[n]] /\ m.tries \in [Passwords -> 0 .. MaxTries]
         /\ m.attributes \in [Slots -> Algorithms] /\ m.key \in [Slots -> BOOLEAN]
         /\ m.certificate = [s \in Slots |-> m.certificate[s]] /\ m.occurrence \in Slots
BY Zenon DEF CardType

LEMMA CardParts ==
  ASSUME NEW m, CardType(m)
  PROVE  m = Parts(m.pw, m.tries, m.verified, m.attributes, m.key, m.certificate, m.occurrence,
                   m.terminated)
BY Zenon DEF CardType, Parts

-----------------------------------------------------------------------------
(* What the applet answers, stage by stage                                 *)

(* The attempt that a command spends on the password name was wrong.       *)
Wrong(name) ==
  \/ pending = "Authenticate" /\ call.access.password # card.pw[name]
  \/ /\ pending = "Target" /\ call.op \in {"ChangePassword", "UnblockWithCode"}
     /\ call.old # card.pw[name]

(* What holds of every answer: a refusal changes nothing that lasts, and   *)
(* no attempt is spent on a right password.                                *)
CardAnswers(r) ==
  /\ r = [status |-> r.status, data |-> r.data, card |-> r.card]
  /\ CardType(r.card)
  /\ r.status # "9000" => /\ r.card.pw = card.pw /\ r.card.key = card.key
                          /\ r.card.certificate = card.certificate
                          /\ r.card.attributes = card.attributes
  /\ \A name \in Passwords : r.card.tries[name] < card.tries[name] => Wrong(name)

LEMMA Answering ==
  ASSUME NEW r, NEW status, NEW data, NEW after, r = Reply(status, data, after), CardType(after),
         status # "9000" => /\ after.pw = card.pw /\ after.key = card.key
                            /\ after.certificate = card.certificate
                            /\ after.attributes = card.attributes,
         \A name \in Passwords : after.tries[name] < card.tries[name] => Wrong(name)
  PROVE  CardAnswers(r) /\ r.status = status /\ r.data = data /\ r.card = after
<1>1. r.status = status /\ r.data = data /\ r.card = after
  BY DEF Reply
<1>2. r = [status |-> r.status, data |-> r.data, card |-> r.card]
  BY <1>1, Zenon DEF Reply
<1> QED BY <1>1, <1>2, Zenon DEF CardAnswers

(* An answer that leaves the card as it was.                               *)
LEMMA AnsweringOnly ==
  ASSUME CardType(card), NEW r, NEW status, NEW data, r = Reply(status, data, card)
  PROVE  CardAnswers(r) /\ r.status = status /\ r.data = data /\ r.card = card
<1>1. \A name \in Passwords : card.tries[name] < card.tries[name] => Wrong(name)
  BY DEF CardType
<1> QED BY <1>1, Answering

(* The logins alone differ.                                                *)
LoginsOnly(after) ==
  /\ after.pw = card.pw /\ after.tries = card.tries /\ after.attributes = card.attributes
  /\ after.key = card.key /\ after.certificate = card.certificate
  /\ after.occurrence = card.occurrence /\ after.terminated = card.terminated

LEMMA LoginsKept ==
  ASSUME CardType(card), NEW v, NEW after, after = [card EXCEPT !.verified = v]
  PROVE  CardType(after) /\ LoginsOnly(after) /\ after.verified = v
<1>1. card = Parts(card.pw, card.tries, card.verified, card.attributes, card.key, card.certificate,
                   card.occurrence, card.terminated)
  BY CardParts
<1>2. after = Parts(card.pw, card.tries, v, card.attributes, card.key, card.certificate,
                    card.occurrence, card.terminated)
  BY <1>1 DEF Parts
<1> QED BY <1>2, PartsTyped DEF CardType, LoginsOnly

LEMMA AnsweringLogins ==
  ASSUME CardType(card), NEW r, NEW status, NEW data, NEW after,
         CardType(after), LoginsOnly(after), r = Reply(status, data, after)
  PROVE  CardAnswers(r) /\ r.status = status /\ r.data = data /\ r.card = after
<1>1. \A name \in Passwords : after.tries[name] < card.tries[name] => Wrong(name)
  BY DEF CardType, LoginsOnly
<1>2. after.pw = card.pw /\ after.key = card.key /\ after.certificate = card.certificate
      /\ after.attributes = card.attributes
  BY DEF LoginsOnly
<1> QED BY <1>1, <1>2, Answering

LEMMA SelectReply ==
  ASSUME CardType(card), pending = "Select", NEW r \in Execute
  PROVE  /\ CardAnswers(r) /\ LoginsOnly(r.card) /\ r.data = None
         /\ r.status = IF card.terminated THEN "6285" ELSE "9000"
<1> DEFINE status == IF card.terminated THEN "6285" ELSE "9000"
<1>1. PICK v : r = Reply(status, None, [card EXCEPT !.verified = v])
  BY DEF Execute
<1> DEFINE after == [card EXCEPT !.verified = v]
<1>2. r = Reply(status, None, after)
  BY <1>1
<1>3. CardType(after) /\ LoginsOnly(after)
  BY LoginsKept
<1> HIDE DEF status, after
<1>4. CardAnswers(r) /\ r.status = status /\ r.data = None /\ r.card = after
  BY ONLY CardType(card), <1>2, <1>3, AnsweringLogins
<1> QED BY <1>3, <1>4 DEF status

LEMMA MetadataReply ==
  ASSUME CardType(card), pending = "Metadata", NEW r \in Execute
  PROVE  /\ CardAnswers(r) /\ r.card = card /\ r.status = "9000"
         /\ r.data.of = card.attributes[KeySlot(call)]
<1>1. r = Reply("9000", [of |-> card.attributes[KeySlot(call)],
                         form |-> IF Since(v200) THEN "wrapped" ELSE "contents"], card)
  BY DEF Execute
<1> QED BY <1>1, AnsweringOnly

LEMMA AcknowledgeReply ==
  ASSUME CardType(card), pending = "Acknowledge", call.slot \in Slots, NEW r \in Execute
  PROVE  /\ CardAnswers(r) /\ r.status = "9000" /\ r.data = None
         /\ r.card.occurrence = call.slot /\ r.card.verified = card.verified
         /\ r.card.terminated = card.terminated /\ r.card.attributes = card.attributes
<1> DEFINE after == [card EXCEPT !.occurrence = call.slot]
<1>1. r = Reply("9000", None, after)
  BY DEF Execute
<1>2. after = Parts(card.pw, card.tries, card.verified, card.attributes, card.key,
                    card.certificate, call.slot, card.terminated)
  BY CardParts DEF Parts
<1> HIDE DEF after
<1>3. /\ CardType(after) /\ after.tries = card.tries /\ after.occurrence = call.slot
      /\ after.verified = card.verified /\ after.terminated = card.terminated
      /\ after.attributes = card.attributes
      /\ after.pw = card.pw /\ after.key = card.key /\ after.certificate = card.certificate
  <2>1. /\ card.pw = [n \in Passwords |-> card.pw[n]]
        /\ card.tries \in [Passwords -> 0 .. MaxTries]
        /\ card.attributes \in [Slots -> Algorithms] /\ card.key \in [Slots -> BOOLEAN]
        /\ card.certificate = [s \in Slots |-> card.certificate[s]] /\ call.slot \in Slots
    BY CardFields, Zenon
  <2> QED BY ONLY <1>2, <2>1, PartsTyped
<1>4. \A name \in Passwords : after.tries[name] < card.tries[name] => Wrong(name)
  BY <1>3 DEF CardType
<1> QED BY <1>1, <1>3, <1>4, Answering

(* An attempt at a password, which was missed.                             *)
LEMMA AnsweringMissed ==
  ASSUME CardType(card), NEW r, NEW status, NEW name \in Passwords, NEW v,
         card.tries[name] # 0, Wrong(name), status # "9000",
         r = Reply(status, None, [Missed(name) EXCEPT !.verified = v])
  PROVE  /\ CardAnswers(r) /\ r.status = status /\ r.data = None
         /\ r.card.terminated = card.terminated
<1> DEFINE t == [card.tries EXCEPT ![name] = @ - 1]
           after == [Missed(name) EXCEPT !.verified = v]
<1>1. t \in [Passwords -> 0 .. MaxTries] /\ \A n \in Passwords \ {name} : t[n] = card.tries[n]
  BY OpenPgpAssumption DEF CardType
<1>2. Missed(name) = Parts(card.pw, t, card.verified, card.attributes, card.key,
                           card.certificate, card.occurrence, card.terminated)
  BY CardParts DEF Parts, Missed
<1> HIDE DEF t
<1>3. after = Parts(card.pw, t, v, card.attributes, card.key, card.certificate, card.occurrence,
                    card.terminated)
  BY <1>2 DEF Parts
<1>6. r = Reply(status, None, after)
  OBVIOUS
<1> HIDE DEF after
<1>4. /\ CardType(after) /\ after.pw = card.pw /\ after.tries = t /\ after.key = card.key
      /\ after.certificate = card.certificate /\ after.attributes = card.attributes
      /\ after.terminated = card.terminated
  <2>1. /\ card.pw = [n \in Passwords |-> card.pw[n]]
        /\ t \in [Passwords -> 0 .. MaxTries]
        /\ card.attributes \in [Slots -> Algorithms] /\ card.key \in [Slots -> BOOLEAN]
        /\ card.certificate = [s \in Slots |-> card.certificate[s]] /\ card.occurrence \in Slots
    BY <1>1, CardFields, Zenon
  <2> QED BY ONLY <1>3, <2>1, PartsTyped
<1>5. \A n \in Passwords : after.tries[n] < card.tries[n] => Wrong(n)
  BY <1>1, <1>4 DEF CardType
<1>7. CardAnswers(r) /\ r.status = status /\ r.data = None /\ r.card = after
  BY ONLY <1>4, <1>5, <1>6, Answering
<1> QED BY <1>4, <1>7

LEMMA Names == \A reference : Name(reference) \in Passwords
BY DEF Name, Passwords

LEMMA AuthenticateReply ==
  ASSUME CardType(card), pending = "Authenticate", NEW r \in Execute
  PROVE  /\ CardAnswers(r) /\ r.data = None /\ r.card.terminated = card.terminated
         /\ r.status \in {"9000", "6982", "6983"}
         /\ r.status = "9000" => /\ call.access.reference \in r.card.verified
                                 /\ r.card.attributes = card.attributes
<1> DEFINE reference == call.access.reference
           password == call.access.password
           name == Name(reference)
<1>1. r \in CardVerify(reference, password)
  BY DEF Execute
<1>2. name \in Passwords
  BY Names
<1>3. CASE card.tries[name] = 0
  <2>1. r = Reply("6983", None, card)
    BY <1>1, <1>3 DEF CardVerify, Refuse
  <2> QED BY <2>1, AnsweringOnly
<1>4. CASE card.tries[name] # 0 /\ card.pw[name] = password
  <2> DEFINE mid == [card EXCEPT !.tries[name] = MaxTries]
             after == [mid EXCEPT !.verified = @ \cup {reference}]
             t == [card.tries EXCEPT ![name] = MaxTries]
             v == card.verified \cup {reference}
  <2>1. r = Reply("9000", None, after)
    BY <1>1, <1>4, Zenon DEF CardVerify
  <2>6. mid = Parts(card.pw, t, card.verified, card.attributes, card.key, card.certificate,
                    card.occurrence, card.terminated)
    BY CardParts DEF Parts
  <2> HIDE DEF mid
  <2>2. after = Parts(card.pw, t, v, card.attributes, card.key, card.certificate,
                      card.occurrence, card.terminated)
    BY <2>6 DEF Parts
  <2>7. reference \in v
    OBVIOUS
  <2>3. t \in [Passwords -> 0 .. MaxTries] /\ \A n \in Passwords : t[n] >= card.tries[n]
    BY OpenPgpAssumption, <1>2 DEF CardType
  <2> HIDE DEF after, t, v
  <2>4. /\ CardType(after) /\ after.tries = t /\ after.attributes = card.attributes
        /\ after.terminated = card.terminated /\ reference \in after.verified
    <3>1. /\ card.pw = [n \in Passwords |-> card.pw[n]]
          /\ t \in [Passwords -> 0 .. MaxTries]
          /\ card.attributes \in [Slots -> Algorithms] /\ card.key \in [Slots -> BOOLEAN]
          /\ card.certificate = [s \in Slots |-> card.certificate[s]] /\ card.occurrence \in Slots
      BY <2>3, CardFields, Zenon
    <3> QED BY ONLY <2>2, <2>7, <3>1, PartsTyped
  <2>5. \A n \in Passwords : after.tries[n] < card.tries[n] => Wrong(n)
    BY <2>3, <2>4 DEF CardType
  <2> QED BY <2>1, <2>4, <2>5, Answering
<1>5. CASE card.tries[name] # 0 /\ card.pw[name] # password
  <2>1. r = Reply("6982", None, [Missed(name) EXCEPT !.verified = @ \ {reference}])
    BY <1>1, <1>5 DEF CardVerify
  <2>2. Wrong(name)
    BY <1>5 DEF Wrong
  <2> DEFINE v == Missed(name).verified \ {reference}
  <2>3. r = Reply("6982", None, [Missed(name) EXCEPT !.verified = v])
    BY <2>1, Zenon
  <2> HIDE DEF v, name
  <2>4. CardAnswers(r) /\ r.status = "6982" /\ r.data = None /\ r.card.terminated = card.terminated
    BY ONLY CardType(card), <1>2, <1>5, <2>2, <2>3, AnsweringMissed
  <2> QED BY <2>4
<1> QED BY <1>3, <1>4, <1>5

-----------------------------------------------------------------------------
(* What the applet answers at the target                                   *)

(* Two passwords sent together are cut where the first ends.               *)
LEMMA Cuts ==
  ASSUME NEW old \in Seq(Blocks), NEW new \in Seq(Blocks)
  PROVE  /\ IsPrefix(old, old \o new)
         /\ SubSeq(old \o new, Len(old) + 1, Len(old \o new)) = new
<1> DEFINE both == old \o new
<1>1. /\ both \in Seq(Blocks) /\ Len(both) = Len(old) + Len(new)
      /\ \A i \in 1 .. Len(old) + Len(new) : both[i] = IF i <= Len(old) THEN old[i]
                                                       ELSE new[i - Len(old)]
  BY ConcatProperties, Zenon
<1> HIDE DEF both
<1>2. Len(old) \in Nat /\ Len(new) \in Nat
  OBVIOUS
<1>3. IsPrefix(old, both)
  BY <1>1, <1>2 DEF IsPrefix
<1> DEFINE rest == SubSeq(both, Len(old) + 1, Len(both))
<1>4. \A i \in Len(old) + 1 .. Len(both) : both[i] \in Blocks
  BY <1>1, <1>2
<1>5. /\ rest \in Seq(Blocks) /\ Len(rest) = Len(new)
      /\ \A i \in 1 .. Len(new) : rest[i] = both[Len(old) + i]
  BY <1>1, <1>2, <1>4, SubSeqProperties
<1> HIDE DEF rest
<1>6. ASSUME NEW i \in 1 .. Len(new) PROVE rest[i] = new[i]
  <2>1. Len(old) + i \in 1 .. Len(old) + Len(new) /\ ~(Len(old) + i <= Len(old))
        /\ Len(old) + i - Len(old) = i
    BY <1>2
  <2>2. both[Len(old) + i] = new[i]
    BY <1>1, <2>1
  <2> QED BY <1>5, <2>2
<1>7. rest = new
  BY <1>5, <1>6
<1> QED BY <1>3, <1>7 DEF rest, both

LEMMA ReplaceReply ==
  ASSUME CardType(card), pending = "Target", call.op \in {"ChangePassword", "UnblockWithCode"},
         call.old \in Seq(Blocks), call.new \in Seq(Blocks),
         NEW name \in Passwords, NEW target \in Passwords,
         NEW r \in CardReplace(name, target, call.old \o call.new)
  PROVE  /\ CardAnswers(r) /\ r.data = None
         /\ r.status = "9000" => (card.pw[name] = call.old => r.card.pw[target] = call.new)
<1> DEFINE both == call.old \o call.new
           known == card.pw[name]
           rest == SubSeq(both, Len(known) + 1, Len(both))
<1>1. CASE known = <<>> \/ card.tries[name] = 0
  <2>1. r = Reply("6983", None, card)
    BY <1>1 DEF CardReplace, Refuse
  <2> QED BY <2>1, AnsweringOnly
<1>2. CASE ~(known = <<>> \/ card.tries[name] = 0) /\ ~IsPrefix(known, both)
  <2>1. r = Reply("6982", None, Missed(name))
    BY <1>2, Zenon DEF CardReplace
  <2>2. Wrong(name)
    BY <1>2, Cuts DEF Wrong
  <2> DEFINE t == [card.tries EXCEPT ![name] = @ - 1]
             mid == Missed(name)
  <2>3. mid = Parts(card.pw, t, card.verified, card.attributes, card.key, card.certificate,
                    card.occurrence, card.terminated)
    BY CardParts DEF Parts, Missed
  <2> HIDE DEF mid, t
  <2>4. mid = [mid EXCEPT !.verified = card.verified]
    BY <2>3 DEF Parts
  <2>5. r = Reply("6982", None, [Missed(name) EXCEPT !.verified = card.verified])
    BY <2>1, <2>4, Zenon DEF mid
  <2>6. card.tries[name] # 0
    BY <1>2
  <2>7. CardAnswers(r) /\ r.status = "6982" /\ r.data = None
    BY ONLY CardType(card), name \in Passwords, <2>2, <2>5, <2>6, AnsweringMissed
  <2> QED BY <2>7
<1>3. CASE /\ ~(known = <<>> \/ card.tries[name] = 0) /\ IsPrefix(known, both)
           /\ Len(rest) < (IF target = "Pw3" THEN MinAdmin ELSE 1)
  <2>1. r = Reply("6700", None, card)
    BY <1>3, Zenon DEF CardReplace, Refuse
  <2> QED BY <2>1, AnsweringOnly
<1>4. CASE /\ ~(known = <<>> \/ card.tries[name] = 0) /\ IsPrefix(known, both)
           /\ ~(Len(rest) < (IF target = "Pw3" THEN MinAdmin ELSE 1))
  <2> DEFINE m1 == [card EXCEPT !.pw[target] = rest]
             m2 == [m1 EXCEPT !.tries[target] = MaxTries]
             v == {}
             after == [m2 EXCEPT !.verified = v]
             p == [card.pw EXCEPT ![target] = rest]
             t == [card.tries EXCEPT ![target] = MaxTries]
  <2>1. r = Reply("9000", None, after)
    BY <1>4, Zenon DEF CardReplace
  <2>2. t \in [Passwords -> 0 .. MaxTries] /\ \A n \in Passwords : t[n] >= card.tries[n]
    BY OpenPgpAssumption DEF CardType
  <2>3. known = call.old => rest = call.new
    BY Cuts
  <2> HIDE DEF rest
  <2>10. p = [n \in Passwords |-> p[n]] /\ p[target] = rest
    BY DEF CardType
  <2>4. m1 = Parts(p, card.tries, card.verified, card.attributes, card.key, card.certificate,
                   card.occurrence, card.terminated)
    BY CardParts DEF Parts
  <2> HIDE DEF m1, p
  <2>5. m2 = Parts(p, t, card.verified, card.attributes, card.key, card.certificate,
                   card.occurrence, card.terminated)
    BY <2>4 DEF Parts
  <2> HIDE DEF m2, t, v
  <2>6. after = Parts(p, t, v, card.attributes, card.key, card.certificate, card.occurrence,
                      card.terminated)
    BY <2>5 DEF Parts
  <2> HIDE DEF after
  <2>7. CardType(after) /\ after.tries = t /\ after.pw = p
    <3>1. /\ card.attributes \in [Slots -> Algorithms] /\ card.key \in [Slots -> BOOLEAN]
          /\ card.certificate = [s \in Slots |-> card.certificate[s]] /\ card.occurrence \in Slots
      BY CardFields
    <3> QED BY ONLY <2>2, <2>10, <2>6, <3>1, PartsTyped
  <2>8. \A n \in Passwords : after.tries[n] < card.tries[n] => Wrong(n)
    BY <2>2, <2>7 DEF CardType
  <2>9. CardAnswers(r) /\ r.status = "9000" /\ r.data = None /\ r.card = after
    BY ONLY <2>1, <2>7, <2>8, Answering
  <2> QED BY <2>10, <2>3, <2>7, <2>9
<1> QED BY <1>1, <1>2, <1>3, <1>4

(* Commands that use a key.                                                *)
LEMMA UseReply ==
  ASSUME CardType(card), NEW reference, NEW r \in CardUse(reference),
         call.op \in {"Sign", "Authenticate", "Decrypt", "Derive"}
  PROVE  /\ CardAnswers(r)
         /\ r.status = "6982" => reference \notin card.verified
         /\ r.status = "9000" => r.data.of = card.attributes[KeySlot(call)]
<1>1. CASE reference \notin card.verified
  <2>1. r = Reply("6982", None, card)
    BY <1>1 DEF CardUse, Refuse
  <2>2. CardAnswers(r) /\ r.status = "6982"
    BY ONLY CardType(card), <2>1, AnsweringOnly
  <2> QED BY <1>1, <2>2
<1>2. CASE reference \in card.verified /\ ~card.key[KeySlot(call)]
  <2>1. r = Reply("6a88", None, card)
    BY <1>2 DEF CardUse, Refuse
  <2>2. CardAnswers(r) /\ r.status = "6a88"
    BY ONLY CardType(card), <2>1, AnsweringOnly
  <2> QED BY <2>2
<1>3. CASE /\ reference \in card.verified /\ card.key[KeySlot(call)]
           /\ call.op = "Decrypt" /\ card.attributes[KeySlot(call)] \notin Rsa
  <2>1. r = Reply("6a80", None, card)
    BY <1>3 DEF CardUse, Refuse
  <2>2. CardAnswers(r) /\ r.status = "6a80"
    BY ONLY CardType(card), <2>1, AnsweringOnly
  <2> QED BY <2>2
<1>4. CASE /\ reference \in card.verified /\ card.key[KeySlot(call)]
           /\ ~(call.op = "Decrypt" /\ card.attributes[KeySlot(call)] \notin Rsa)
  <2> DEFINE v == card.verified \ {"Pw1Sign"}
             after == [card EXCEPT !.verified = v]
  <2>1. r = Reply("9000", CardKeyData, after)
    BY <1>4, Zenon DEF CardUse
  <2>2. CardKeyData.of = card.attributes[KeySlot(call)]
    BY DEF CardKeyData
  <2>3. CardType(after) /\ LoginsOnly(after)
    BY LoginsKept
  <2> HIDE DEF after
  <2>4. CardAnswers(r) /\ r.status = "9000" /\ r.data = CardKeyData
    BY ONLY CardType(card), <2>1, <2>3, AnsweringLogins
  <2> QED BY <2>2, <2>4
<1> QED BY <1>1, <1>2, <1>3, <1>4

(* An answer of success that gives no attempt up.                          *)
LEMMA AnsweringParts ==
  ASSUME CardType(card), NEW r, NEW data, NEW after, NEW p, NEW t, NEW v, NEW a, NEW k, NEW c,
         NEW e, r = Reply("9000", data, after),
         after = Parts(p, t, v, a, k, c, card.occurrence, e),
         p = [n \in Passwords |-> p[n]], t \in [Passwords -> 0 .. MaxTries],
         a \in [Slots -> Algorithms], k \in [Slots -> BOOLEAN], c = [s \in Slots |-> c[s]],
         \A n \in Passwords : t[n] >= card.tries[n]
  PROVE  /\ CardAnswers(r) /\ r.status = "9000" /\ r.data = data
         /\ r.card.pw = p /\ r.card.tries = t /\ r.card.verified = v /\ r.card.attributes = a
         /\ r.card.key = k /\ r.card.certificate = c /\ r.card.terminated = e
<1>1. card.occurrence \in Slots /\ card.tries \in [Passwords -> 0 .. MaxTries]
  BY CardFields
<1>2. /\ after.pw = p /\ after.tries = t /\ after.verified = v /\ after.attributes = a
      /\ after.key = k /\ after.certificate = c /\ after.terminated = e
      /\ CardType(after)
  BY <1>1, PartsTyped
<1>3. \A n \in Passwords : after.tries[n] < card.tries[n] => Wrong(n)
  BY <1>1, <1>2, OpenPgpAssumption
<1>4. CardAnswers(r) /\ r.status = "9000" /\ r.data = data /\ r.card = after
  BY ONLY r = Reply("9000", data, after), <1>2, <1>3, Answering
<1> QED BY <1>2, <1>4

(* All the attempts given back.                                            *)
LEMMA AllTries ==
  ASSUME CardType(card)
  PROVE  LET t == [n \in Passwords |-> MaxTries] IN
         t \in [Passwords -> 0 .. MaxTries] /\ \A n \in Passwords : t[n] >= card.tries[n]
BY OpenPgpAssumption DEF CardType

LEMMA GivenBack ==
  ASSUME CardType(card), NEW name \in Passwords
  PROVE  LET t == [card.tries EXCEPT ![name] = MaxTries] IN
         /\ t \in [Passwords -> 0 .. MaxTries] /\ \A n \in Passwords : t[n] >= card.tries[n]
         /\ t[name] = MaxTries
BY OpenPgpAssumption DEF CardType

LEMMA AsItWas ==
  ASSUME CardType(card)
  PROVE  /\ card.pw = [n \in Passwords |-> card.pw[n]]
         /\ card.tries \in [Passwords -> 0 .. MaxTries]
         /\ \A n \in Passwords : card.tries[n] >= card.tries[n]
         /\ card.attributes \in [Slots -> Algorithms] /\ card.key \in [Slots -> BOOLEAN]
         /\ card.certificate = [s \in Slots |-> card.certificate[s]]
<1>1. card.tries \in [Passwords -> 0 .. MaxTries]
  BY CardFields
<1>2. \A n \in Passwords : card.tries[n] >= card.tries[n]
  BY <1>1, OpenPgpAssumption
<1> QED BY <1>1, <1>2, CardFields

LEMMA TerminateReply ==
  ASSUME CardType(card), pending = "Target", call.op = "Terminate", NEW r \in Execute
  PROVE  /\ CardAnswers(r) /\ r.data = None
         /\ r.status = "6982" => "Pw3" \notin card.verified
         /\ r.status = "9000" => r.card.terminated
<1>1. r \in (IF "Pw3" \in card.verified \/ card.tries["Pw3"] = 0
             THEN {Reply("9000", None, [card EXCEPT !.terminated = TRUE, !.verified = {}])}
             ELSE Refuse("6982"))
  BY DEF Execute, CardTarget
<1>2. CASE ~("Pw3" \in card.verified \/ card.tries["Pw3"] = 0)
  <2>1. r = Reply("6982", None, card)
    BY <1>1, <1>2 DEF Refuse
  <2>2. CardAnswers(r) /\ r.status = "6982" /\ r.data = None
    BY ONLY CardType(card), <2>1, AnsweringOnly
  <2> QED BY <1>2, <2>2
<1>3. CASE "Pw3" \in card.verified \/ card.tries["Pw3"] = 0
  <2> DEFINE e == TRUE
             v == {}
             m1 == [card EXCEPT !.terminated = e]
             after == [m1 EXCEPT !.verified = v]
  <2>1. r = Reply("9000", None, after)
    BY <1>1, <1>3, Zenon
  <2>2. e
    OBVIOUS
  <2> HIDE DEF e, v
  <2>3. m1 = Parts(card.pw, card.tries, card.verified, card.attributes, card.key,
                   card.certificate, card.occurrence, e)
    BY CardParts DEF Parts
  <2> HIDE DEF m1
  <2>4. after = Parts(card.pw, card.tries, v, card.attributes, card.key, card.certificate,
                      card.occurrence, e)
    BY <2>3 DEF Parts
  <2> HIDE DEF after
  <2>5. CardAnswers(r) /\ r.data = None /\ r.card.terminated = e /\ r.status = "9000"
    <3>1. /\ card.pw = [n \in Passwords |-> card.pw[n]]
          /\ card.tries \in [Passwords -> 0 .. MaxTries]
          /\ \A n \in Passwords : card.tries[n] >= card.tries[n]
          /\ card.attributes \in [Slots -> Algorithms] /\ card.key \in [Slots -> BOOLEAN]
          /\ card.certificate = [s \in Slots |-> card.certificate[s]]
      BY AsItWas
    <3> QED BY ONLY CardType(card), <2>1, <2>4, <3>1, AnsweringParts
  <2> QED BY <2>2, <2>5
<1> QED BY <1>2, <1>3

LEMMA ActivateReply ==
  ASSUME CardType(card), pending = "Target", call.op = "Activate", NEW r \in Execute
  PROVE  /\ CardAnswers(r) /\ r.data = None /\ r.status = "9000" /\ ~r.card.terminated
<1>1. r = Reply("9000", None, IF card.terminated THEN Fresh ELSE card)
  BY DEF Execute, CardTarget
<1>2. CASE ~card.terminated
  <2>1. r = Reply("9000", None, card)
    BY <1>1, <1>2
  <2>2. CardAnswers(r) /\ r.status = "9000" /\ r.data = None /\ r.card = card
    BY ONLY CardType(card), <2>1, AnsweringOnly
  <2> QED BY <1>2, <2>2
<1>3. CASE card.terminated
  <2> DEFINE t == [n \in Passwords |-> MaxTries]
             v == {}
             k == [s \in Slots |-> FALSE]
             c == [s \in Slots |-> None]
             e == FALSE
  <2>1. Fresh = Parts(Default, t, v, card.attributes, k, c, card.occurrence, e)
    BY Zenon DEF Fresh, Parts
  <2>2. k \in [Slots -> BOOLEAN] /\ c = [s \in Slots |-> c[s]] /\ ~e
    OBVIOUS
  <2>6. t \in [Passwords -> 0 .. MaxTries] /\ \A n \in Passwords : t[n] >= card.tries[n]
    BY AllTries
  <2>3. r = Reply("9000", None, Fresh) /\ Default = [n \in Passwords |-> Default[n]]
    BY <1>1, <1>3, OpenPgpAssumption
  <2> HIDE DEF t, v, k, c, e
  <2>4. card.attributes \in [Slots -> Algorithms]
    BY CardFields
  <2>5. CardAnswers(r) /\ r.data = None /\ r.card.terminated = e /\ r.status = "9000"
    BY ONLY CardType(card), <2>1, <2>2, <2>3, <2>4, <2>6, AnsweringParts
  <2> QED BY <2>2, <2>5
<1> QED BY <1>2, <1>3

(* What a write that needs PW3 leaves on the card.                         *)
Wrote(after) ==
  /\ call.op = "UnblockWithAdmin" => after.pw["Pw1"] = call.new /\ after.tries["Pw1"] = MaxTries
  /\ call.op = "WriteCertificate" =>
       after.certificate = [card.certificate EXCEPT ![call.slot] = call.value]
  /\ call.op \in {"GenerateKey", "ImportKey"} =>
       after.key[call.slot] /\ after.attributes = card.attributes

Writes ==
  {"WriteData", "WriteCertificate", "UnblockWithAdmin", "ResetRetries", "GenerateKey", "ImportKey"}

LEMMA WrittenAttributes ==
  ASSUME CardType(card), call.op = "WriteData", call.object = "attributes",
         call.slot \in Slots, call.alg \in Algorithms, NEW r, r = Reply("9000", None, CardWrite)
  PROVE  CardAnswers(r) /\ r.status = "9000" /\ r.data = None
<1> DEFINE no == FALSE
           m1 == [card EXCEPT !.attributes[call.slot] = call.alg]
           after == [m1 EXCEPT !.key[call.slot] = no]
           a == [card.attributes EXCEPT ![call.slot] = call.alg]
           k == [card.key EXCEPT ![call.slot] = no]
<1>1. r = Reply("9000", None, after)
  BY Zenon DEF CardWrite
<1>2. /\ card.pw = [n \in Passwords |-> card.pw[n]]
      /\ card.tries \in [Passwords -> 0 .. MaxTries]
      /\ \A n \in Passwords : card.tries[n] >= card.tries[n]
      /\ card.attributes \in [Slots -> Algorithms] /\ card.key \in [Slots -> BOOLEAN]
      /\ card.certificate = [s \in Slots |-> card.certificate[s]]
  BY AsItWas
<1>3. no \in BOOLEAN
  OBVIOUS
<1> HIDE DEF no
<1>4. a \in [Slots -> Algorithms] /\ k \in [Slots -> BOOLEAN]
  BY <1>2, <1>3
<1>5. m1 = Parts(card.pw, card.tries, card.verified, a, card.key, card.certificate,
                 card.occurrence, card.terminated)
  BY CardParts DEF Parts
<1> HIDE DEF m1, a
<1>6. after = Parts(card.pw, card.tries, card.verified, a, k, card.certificate, card.occurrence,
                    card.terminated)
  BY <1>5 DEF Parts
<1> HIDE DEF after, k
<1> QED BY ONLY CardType(card), <1>1, <1>2, <1>4, <1>6, AnsweringParts

(* A password that is set with its attempts, and a key that is made.       *)
PasswordSet(after, name, w) ==
  after = [card EXCEPT !.pw[name] = w, !.tries[name] = MaxTries]

KeySet(after, slot) == after = [card EXCEPT !.key[slot] = TRUE]

LEMMA WrittenPassword ==
  ASSUME CardType(card), NEW name \in Passwords, NEW w, NEW r, NEW after,
         PasswordSet(after, name, w), r = Reply("9000", None, after)
  PROVE  /\ CardAnswers(r) /\ r.status = "9000" /\ r.data = None
         /\ r.card.pw[name] = w /\ r.card.tries[name] = MaxTries
<1> DEFINE m1 == [card EXCEPT !.pw[name] = w]
           p == [card.pw EXCEPT ![name] = w]
           t == [card.tries EXCEPT ![name] = MaxTries]
<1>1. after = [m1 EXCEPT !.tries[name] = MaxTries]
  BY Zenon DEF PasswordSet
<1>2. /\ card.pw = [n \in Passwords |-> card.pw[n]]
      /\ card.attributes \in [Slots -> Algorithms] /\ card.key \in [Slots -> BOOLEAN]
      /\ card.certificate = [s \in Slots |-> card.certificate[s]]
  BY AsItWas
<1>3. /\ t \in [Passwords -> 0 .. MaxTries] /\ \A n \in Passwords : t[n] >= card.tries[n]
      /\ t[name] = MaxTries
  BY GivenBack
<1>4. p = [n \in Passwords |-> p[n]] /\ p[name] = w
  BY <1>2
<1>5. m1 = Parts(p, card.tries, card.verified, card.attributes, card.key, card.certificate,
                 card.occurrence, card.terminated)
  BY CardParts DEF Parts
<1> HIDE DEF m1, p
<1>6. after = Parts(p, t, card.verified, card.attributes, card.key, card.certificate,
                    card.occurrence, card.terminated)
  BY <1>1, <1>5 DEF Parts
<1> HIDE DEF t
<1>7. CardAnswers(r) /\ r.status = "9000" /\ r.data = None /\ r.card.pw = p /\ r.card.tries = t
  BY ONLY CardType(card), r = Reply("9000", None, after), <1>2, <1>3, <1>4, <1>6, AnsweringParts
<1> QED BY <1>3, <1>4, <1>7

LEMMA WrittenCertificate ==
  ASSUME CardType(card), NEW slot \in Slots, NEW w, NEW r,
         r = Reply("9000", None, [card EXCEPT !.certificate[slot] = w])
  PROVE  /\ CardAnswers(r) /\ r.status = "9000" /\ r.data = None
         /\ r.card.certificate = [card.certificate EXCEPT ![slot] = w]
<1> DEFINE after == [card EXCEPT !.certificate[slot] = w]
           c == [card.certificate EXCEPT ![slot] = w]
<1>1. r = Reply("9000", None, after)
  OBVIOUS
<1>2. /\ card.pw = [n \in Passwords |-> card.pw[n]]
      /\ card.tries \in [Passwords -> 0 .. MaxTries]
      /\ \A n \in Passwords : card.tries[n] >= card.tries[n]
      /\ card.attributes \in [Slots -> Algorithms] /\ card.key \in [Slots -> BOOLEAN]
      /\ card.certificate = [s \in Slots |-> card.certificate[s]]
  BY AsItWas
<1>3. c = [s \in Slots |-> c[s]]
  BY <1>2
<1>4. after = Parts(card.pw, card.tries, card.verified, card.attributes, card.key, c,
                    card.occurrence, card.terminated)
  BY CardParts DEF Parts
<1> HIDE DEF after, c
<1>5. CardAnswers(r) /\ r.status = "9000" /\ r.data = None /\ r.card.certificate = c
  BY ONLY CardType(card), <1>1, <1>2, <1>3, <1>4, AnsweringParts
<1> QED BY <1>5 DEF c

LEMMA WrittenKey ==
  ASSUME CardType(card), NEW slot \in Slots, NEW data, NEW r, NEW after,
         KeySet(after, slot), r = Reply("9000", data, after)
  PROVE  /\ CardAnswers(r) /\ r.status = "9000" /\ r.data = data
         /\ r.card.key[slot] /\ r.card.attributes = card.attributes
<1> DEFINE yes == TRUE
           k == [card.key EXCEPT ![slot] = yes]
<1>1. after = [card EXCEPT !.key[slot] = yes]
  BY DEF KeySet
<1>2. yes \in BOOLEAN /\ yes
  OBVIOUS
<1> HIDE DEF yes
<1>3. /\ card.pw = [n \in Passwords |-> card.pw[n]]
      /\ card.tries \in [Passwords -> 0 .. MaxTries]
      /\ \A n \in Passwords : card.tries[n] >= card.tries[n]
      /\ card.attributes \in [Slots -> Algorithms] /\ card.key \in [Slots -> BOOLEAN]
      /\ card.certificate = [s \in Slots |-> card.certificate[s]]
  BY AsItWas
<1>4. k \in [Slots -> BOOLEAN] /\ k[slot] = yes
  BY <1>2, <1>3
<1>5. after = Parts(card.pw, card.tries, card.verified, card.attributes, k, card.certificate,
                    card.occurrence, card.terminated)
  BY <1>1, CardParts DEF Parts
<1> HIDE DEF k
<1>6. /\ CardAnswers(r) /\ r.status = "9000" /\ r.data = data /\ r.card.key = k
      /\ r.card.attributes = card.attributes
  BY ONLY CardType(card), r = Reply("9000", data, after), <1>3, <1>4, <1>5, AnsweringParts
<1> QED BY <1>2, <1>4, <1>6

LEMMA WrittenRetries ==
  ASSUME CardType(card), NEW r,
         r = Reply("9000", None,
                   [card EXCEPT !.pw["Pw1"] = Default["Pw1"], !.pw["Pw3"] = Default["Pw3"],
                                !.tries = [n \in Passwords |-> MaxTries], !.verified = {}])
  PROVE  CardAnswers(r) /\ r.status = "9000" /\ r.data = None
<1> DEFINE w == Default["Pw1"]
           x == Default["Pw3"]
           t == [n \in Passwords |-> MaxTries]
           v == {}
           m1 == [card EXCEPT !.pw["Pw1"] = w]
           m2 == [m1 EXCEPT !.pw["Pw3"] = x]
           m3 == [m2 EXCEPT !.tries = t]
           after == [m3 EXCEPT !.verified = v]
           q == [card.pw EXCEPT !["Pw1"] = w]
           p == [q EXCEPT !["Pw3"] = x]
<1>1. r = Reply("9000", None, after)
  BY Zenon
<1>2. /\ card.pw = [n \in Passwords |-> card.pw[n]]
      /\ card.attributes \in [Slots -> Algorithms] /\ card.key \in [Slots -> BOOLEAN]
      /\ card.certificate = [s \in Slots |-> card.certificate[s]]
  BY AsItWas
<1>3. t \in [Passwords -> 0 .. MaxTries] /\ \A n \in Passwords : t[n] >= card.tries[n]
  BY AllTries
<1> HIDE DEF w, x, t, v
<1>4. q = [n \in Passwords |-> q[n]]
  BY <1>2
<1>5. m1 = Parts(q, card.tries, card.verified, card.attributes, card.key, card.certificate,
                 card.occurrence, card.terminated)
  BY CardParts DEF Parts
<1> HIDE DEF m1, q
<1>6. p = [n \in Passwords |-> p[n]]
  BY <1>4
<1>7. m2 = Parts(p, card.tries, card.verified, card.attributes, card.key, card.certificate,
                 card.occurrence, card.terminated)
  BY <1>5 DEF Parts
<1> HIDE DEF m2, p
<1>8. m3 = Parts(p, t, card.verified, card.attributes, card.key, card.certificate,
                 card.occurrence, card.terminated)
  BY <1>7 DEF Parts
<1> HIDE DEF m3
<1>9. after = Parts(p, t, v, card.attributes, card.key, card.certificate, card.occurrence,
                    card.terminated)
  BY <1>8 DEF Parts
<1> HIDE DEF after
<1> QED BY ONLY CardType(card), <1>1, <1>2, <1>3, <1>6, <1>9, AnsweringParts

LEMMA WriteReply ==
  ASSUME CardType(card), RequestType(call), pending = "Target", call.op \in Writes,
         call.op = "WriteData" /\ call.object = "attributes" => call.alg \in Algorithms,
         call.op = "WriteCertificate" => card.occurrence = call.slot,
         NEW r \in Execute
  PROVE  /\ CardAnswers(r)
         /\ r.status = "6982" => "Pw3" \notin card.verified
         /\ r.status = "9000" =>
              /\ Wrote(r.card)
              /\ call.op = "GenerateKey" => r.data.of = card.attributes[KeySlot(call)]
<1> DEFINE data == IF call.op = "GenerateKey" THEN CardKeyData ELSE None
<1>1. r \in IF "Pw3" \notin card.verified THEN Refuse("6982")
            ELSE {Reply("9000", data, CardWrite)}
  BY DEF Execute, CardTarget, Writes
<1>2. CASE "Pw3" \notin card.verified
  <2>1. r = Reply("6982", None, card)
    BY <1>1, <1>2 DEF Refuse
  <2>2. CardAnswers(r) /\ r.status = "6982"
    BY ONLY CardType(card), <2>1, AnsweringOnly
  <2> QED BY <1>2, <2>2
<1>3. CASE "Pw3" \in card.verified
  <2>1. r = Reply("9000", data, CardWrite)
    BY <1>1, <1>3
  <2>2. CASE call.op = "WriteData" /\ call.object = "attributes"
    <3>1. r = Reply("9000", None, CardWrite) /\ call.slot \in Slots /\ call.alg \in Algorithms
      BY <2>1, <2>2 DEF RequestType
    <3> QED BY <2>2, <3>1, WrittenAttributes DEF Wrote
  <2>3. CASE call.op = "WriteData" /\ call.object = "code"
    <3> DEFINE w == IF call.value = None THEN <<>> ELSE call.value
               after == [card EXCEPT !.pw["Code"] = w, !.tries["Code"] = MaxTries]
    <3>1. r = Reply("9000", None, after)
      BY <2>1, <2>3 DEF CardWrite
    <3>2. "Code" \in Passwords
      BY DEF Passwords
    <3> HIDE DEF w
    <3>4. PasswordSet(after, "Code", w)
      BY Zenon DEF PasswordSet
    <3> HIDE DEF after
    <3>3. CardAnswers(r) /\ r.status = "9000"
      BY ONLY CardType(card), <3>1, <3>2, <3>4, WrittenPassword
    <3> QED BY <2>3, <3>3 DEF Wrote
  <2>4. CASE call.op = "WriteData" /\ call.object \notin {"attributes", "code"}
    <3>1. r = Reply("9000", None, card)
      BY <2>1, <2>4 DEF CardWrite
    <3>2. CardAnswers(r) /\ r.status = "9000"
      BY ONLY CardType(card), <3>1, AnsweringOnly
    <3> QED BY <2>4, <3>2 DEF Wrote
  <2>5. CASE call.op = "WriteCertificate"
    <3> DEFINE w == call.value
    <3>1. r = Reply("9000", None, [card EXCEPT !.certificate[call.slot] = w])
      BY <2>1, <2>5 DEF CardWrite
    <3>2. call.slot \in Slots
      BY <2>5 DEF RequestType
    <3>3. CardAnswers(r) /\ r.status = "9000"
          /\ r.card.certificate = [card.certificate EXCEPT ![call.slot] = w]
      BY ONLY CardType(card), <3>1, <3>2, WrittenCertificate
    <3> QED BY <2>5, <3>3 DEF Wrote
  <2>6. CASE call.op = "UnblockWithAdmin"
    <3> DEFINE w == call.new
               after == [card EXCEPT !.pw["Pw1"] = w, !.tries["Pw1"] = MaxTries]
    <3>1. r = Reply("9000", None, after)
      BY <2>1, <2>6 DEF CardWrite
    <3>2. "Pw1" \in Passwords
      BY DEF Passwords
    <3>4. PasswordSet(after, "Pw1", w)
      BY Zenon DEF PasswordSet
    <3> HIDE DEF after
    <3>3. /\ CardAnswers(r) /\ r.status = "9000"
          /\ r.card.pw["Pw1"] = w /\ r.card.tries["Pw1"] = MaxTries
      BY ONLY CardType(card), <3>1, <3>2, <3>4, WrittenPassword
    <3> QED BY <2>6, <3>3 DEF Wrote
  <2>7. CASE call.op = "ResetRetries"
    <3>1. r = Reply("9000", None,
                   [card EXCEPT !.pw["Pw1"] = Default["Pw1"], !.pw["Pw3"] = Default["Pw3"],
                                !.tries = [n \in Passwords |-> MaxTries], !.verified = {}])
      BY <2>1, <2>7 DEF CardWrite
    <3>2. CardAnswers(r) /\ r.status = "9000"
      BY ONLY CardType(card), <3>1, WrittenRetries
    <3> QED BY <2>7, <3>2 DEF Wrote
  <2>8. CASE call.op \in {"GenerateKey", "ImportKey"}
    <3> DEFINE after == [card EXCEPT !.key[call.slot] = TRUE]
    <3>1. r = Reply("9000", data, after)
      BY <2>1, <2>8 DEF CardWrite
    <3>2. call.slot \in Slots
      BY <2>8 DEF RequestType
    <3>3. call.op = "GenerateKey" => data.of = card.attributes[KeySlot(call)]
      BY DEF CardKeyData
    <3>5. KeySet(after, call.slot)
      BY Zenon DEF KeySet
    <3> HIDE DEF data, after
    <3>4. /\ CardAnswers(r) /\ r.status = "9000" /\ r.data = data
          /\ r.card.key[call.slot] /\ r.card.attributes = card.attributes
      BY ONLY CardType(card), <3>1, <3>2, <3>5, WrittenKey
    <3> QED BY <2>8, <3>3, <3>4 DEF Wrote
  <2> QED BY <2>2, <2>3, <2>4, <2>5, <2>6, <2>7, <2>8 DEF Writes
<1> QED BY <1>2, <1>3

(* Requests that read.                                                     *)
LEMMA ReadReply ==
  ASSUME CardType(card), pending = "Target",
         call.op \in {"ReadData", "ReadCertificate", "ReadPublicKey"}, NEW r \in Execute
  PROVE  /\ CardAnswers(r) /\ r.card = card /\ r.status \in {"9000", "6a88"}
         /\ r.status = "9000" =>
              /\ call.op = "ReadCertificate" => r.data.of = card.certificate[card.occurrence]
              /\ call.op = "ReadPublicKey" =>
                   card.key[call.slot] /\ r.data.of = card.attributes[KeySlot(call)]
<1>1. CASE call.op = "ReadData"
  <2>1. r = Reply("9000", [of |-> call.object, form |-> "object"], card)
    BY <1>1 DEF Execute, CardTarget
  <2>2. CardAnswers(r) /\ r.card = card /\ r.status = "9000"
    BY ONLY CardType(card), <2>1, AnsweringOnly
  <2> QED BY <1>1, <2>2
<1>2. CASE call.op = "ReadCertificate"
  <2> DEFINE data == [of |-> card.certificate[card.occurrence], form |-> "object"]
  <2>1. r = Reply("9000", data, card)
    BY <1>2 DEF Execute, CardTarget
  <2>2. data.of = card.certificate[card.occurrence]
    OBVIOUS
  <2> HIDE DEF data
  <2>3. CardAnswers(r) /\ r.card = card /\ r.status = "9000" /\ r.data = data
    BY ONLY CardType(card), <2>1, AnsweringOnly
  <2> QED BY <1>2, <2>2, <2>3
<1>3. CASE call.op = "ReadPublicKey" /\ card.key[call.slot]
  <2>1. r = Reply("9000", CardKeyData, card)
    BY <1>3 DEF Execute, CardTarget
  <2>2. CardKeyData.of = card.attributes[KeySlot(call)]
    BY DEF CardKeyData
  <2>3. CardAnswers(r) /\ r.card = card /\ r.status = "9000" /\ r.data = CardKeyData
    BY ONLY CardType(card), <2>1, AnsweringOnly
  <2> QED BY <1>3, <2>2, <2>3
<1>4. CASE call.op = "ReadPublicKey" /\ ~card.key[call.slot]
  <2>1. r = Reply("6a88", None, card)
    BY <1>4 DEF Execute, CardTarget, Refuse
  <2>2. CardAnswers(r) /\ r.card = card /\ r.status = "6a88"
    BY ONLY CardType(card), <2>1, AnsweringOnly
  <2> QED BY <2>2
<1> QED BY <1>1, <1>2, <1>3, <1>4

LEMMA PinStatusReply ==
  ASSUME CardType(card), pending = "Target", call.op = "PinStatus", NEW r \in Execute
  PROVE  /\ CardAnswers(r) /\ r.data = None /\ r.card = card
         /\ r.status \in {"9000", "6983", "63c", "6f00"}
         /\ r.status = "9000" => call.reference \in card.verified
         /\ r.status = "6983" => card.tries[Name(call.reference)] = 0
<1>1. PICK status \in {"9000", "6983", "63c", "6f00"} :
        /\ r = Reply(status, None, card)
        /\ status = "9000" => call.reference \in card.verified
        /\ status = "6983" => card.tries[Name(call.reference)] = 0
  BY DEF Execute, CardTarget, Refuse
<1>2. CardAnswers(r) /\ r.data = None /\ r.card = card /\ r.status = status
  BY ONLY CardType(card), <1>1, AnsweringOnly
<1> QED BY <1>1, <1>2

LEMMA LogoutReply ==
  ASSUME CardType(card), pending = "Target", call.op = "Logout", NEW r \in Execute
  PROVE  /\ CardAnswers(r) /\ r.data = None /\ r.status = "9000"
         /\ call.reference \notin r.card.verified
<1> DEFINE v == card.verified \ {call.reference}
           after == [card EXCEPT !.verified = v]
<1>1. r = Reply("9000", None, after)
  BY Zenon DEF Execute, CardTarget
<1>2. call.reference \notin v
  OBVIOUS
<1> HIDE DEF v
<1>3. CardType(after) /\ LoginsOnly(after) /\ after.verified = v
  BY LoginsKept
<1> HIDE DEF after
<1>4. CardAnswers(r) /\ r.data = None /\ r.status = "9000" /\ r.card = after
  BY ONLY CardType(card), <1>1, <1>3, AnsweringLogins
<1> QED BY <1>2, <1>3, <1>4

-----------------------------------------------------------------------------
(* What an answer means for the operation                                  *)

LEMMA Accepted == \A slot : attributes(slot) \subseteq Algorithms
BY DEF attributes, Rsa, Curves, Algorithms

LEMMA TargetReply ==
  ASSUME PgpInv, pending = "Target", NEW r \in Execute
  PROVE  /\ CardAnswers(r)
         /\ r.status = "6982" => Concerns # None \/ (call.op = "Terminate" /\ call.access = None)
<1>1. /\ CardType(card) /\ RequestType(call) /\ call.op # "Verify" /\ AccessFits(call)
      /\ TargetFits(call)
      /\ call.access # None => call.access.reference \in card.verified
      /\ call.op \in Certificates => card.occurrence = call.slot
  BY OpenPgpAssumption DEF PgpInv, Staged, Started, Established
<1>2. CASE call.op \in {"ReadData", "ReadCertificate", "ReadPublicKey"}
  BY <1>1, <1>2, ReadReply
<1>3. CASE call.op = "PinStatus"
  BY <1>1, <1>3, PinStatusReply
<1>4. CASE call.op = "Logout"
  BY <1>1, <1>4, LogoutReply
<1>5. CASE call.op \in {"ChangePassword", "UnblockWithCode"}
  <2>1. call.old \in Seq(Blocks) /\ call.new \in Seq(Blocks)
    BY <1>1, <1>5 DEF RequestType
  <2>2. PICK name \in Passwords, target \in Passwords :
          r \in CardReplace(name, target, call.old \o call.new)
    <3>1. "Code" \in Passwords /\ "Pw1" \in Passwords
      BY DEF Passwords
    <3>2. CASE call.op = "ChangePassword"
      <4>1. r \in CardReplace(Name(call.reference), Name(call.reference), call.old \o call.new)
        BY <3>2 DEF Execute, CardTarget
      <4> QED BY <4>1, Names
    <3>3. CASE call.op = "UnblockWithCode"
      <4>1. r \in CardReplace("Code", "Pw1", call.old \o call.new)
        BY <3>3 DEF Execute, CardTarget
      <4> QED BY <4>1, <3>1
    <3> QED BY <1>5, <3>2, <3>3
  <2>3. CardAnswers(r)
    BY <1>1, <1>5, <2>1, <2>2, ReplaceReply
  <2>4. Concerns # None
    BY <1>1, <1>5, OpenPgpAssumption DEF Concerns, RequestType
  <2> QED BY <2>3, <2>4
<1>6. CASE call.op \in {"Sign", "Authenticate", "Decrypt", "Derive"}
  <2> DEFINE reference == IF call.op = "Sign" THEN "Pw1Sign" ELSE "Pw1Other"
  <2>1. r \in CardUse(reference)
    BY <1>6 DEF Execute, CardTarget
  <2>2. Required(call) = reference
    BY <1>6 DEF Required
  <2>3. reference # None
    BY OpenPgpAssumption DEF References
  <2>4. reference \in card.verified
    BY <1>1, <2>2, <2>3 DEF AccessFits
  <2> HIDE DEF reference
  <2> QED BY <1>1, <1>6, <2>1, <2>4, UseReply
<1>7. CASE call.op \in Writes
  <2>1. Required(call) = "Pw3" /\ "Pw3" # None
    BY <1>7, OpenPgpAssumption DEF Required, Writes, References
  <2>2. "Pw3" \in card.verified
    BY <1>1, <2>1 DEF AccessFits
  <2>3. call.op = "WriteData" /\ call.object = "attributes" => call.alg \in Algorithms
    BY <1>1, Accepted DEF TargetFits
  <2>4. call.op = "WriteCertificate" => card.occurrence = call.slot
    BY <1>1 DEF Certificates
  <2> QED BY <1>1, <1>7, <2>2, <2>3, <2>4, WriteReply
<1>8. CASE call.op = "Terminate"
  <2>1. CardAnswers(r) /\ (r.status = "6982" => "Pw3" \notin card.verified)
    BY <1>1, <1>8, TerminateReply
  <2>2. call.access # None => "Pw3" \in card.verified
    BY <1>1, <1>8 DEF AccessFits
  <2> QED BY <1>8, <2>1, <2>2
<1>9. CASE call.op = "Activate"
  BY <1>1, <1>9, ActivateReply
<1> QED BY <1>1, <1>2, <1>3, <1>4, <1>5, <1>6, <1>7, <1>8, <1>9 DEF RequestType, Requests, Writes

(* Whatever the stage; a terminated applet is changed by no more than the  *)
(* SELECT, which drops logins, and an activation.                          *)
LEMMA Effects ==
  ASSUME PgpInv, pending # "Idle", NEW r \in Execute
  PROVE  /\ CardAnswers(r)
         /\ card.terminated /\ call.op # "Activate" => LoginsOnly(r.card)
<1>1. CardType(card) /\ RequestType(call) /\ Staged
      /\ (card.terminated /\ call.op # "Activate" => pending = "Select")
  BY OpenPgpAssumption DEF PgpInv, Staged, Started, Established
<1>2. CASE pending = "Select"
  BY <1>1, <1>2, SelectReply
<1>3. CASE pending = "Metadata"
  BY <1>1, <1>3, MetadataReply
<1>4. CASE pending = "Authenticate"
  BY <1>1, <1>4, AuthenticateReply
<1>5. CASE pending = "Acknowledge"
  <2>1. call.slot \in Slots
    BY <1>1, <1>5 DEF Staged, Certificates, RequestType
  <2> QED BY <1>1, <1>5, <2>1, AcknowledgeReply
<1>6. CASE pending = "Target"
  BY <1>1, <1>6, TargetReply
<1> QED BY <1>1, <1>2, <1>3, <1>4, <1>5, <1>6 DEF Staged, Stages

LEMMA RequireSupported ==
  ASSUME NEW status, require(status) = None,
         status.support \in {"Supported", "Unsupported", "Unknown"}
  PROVE  status.support = "Supported"
BY OpenPgpAssumption DEF require

LEMMA SupportKinds ==
  \A p, algorithm_, generate :
     openpgp_algorithm_support(p, algorithm_, generate).support
       \in {"Supported", "Unsupported", "Unknown"}
<1> TAKE p, algorithm_, generate
<1>1. \A first, last : firmware_range(p, first, last).support
                         \in {"Supported", "Unsupported", "Unknown"}
  BY DEF firmware_range, Status
<1>2. Status("Unsupported", "FirmwareMatrix").support = "Unsupported"
  BY DEF Status
<1> QED BY <1>1, <1>2 DEF openpgp_algorithm_support

(* An attempt is spent only once everything else was found in order.       *)
LEMMA WrongExplained ==
  ASSUME PgpInv, pending # "Idle", NEW name \in Passwords, Wrong(name)
  PROVE  /\ ~card.terminated
         /\ KeySlot(call) # None =>
              LET there == card.attributes[KeySlot(call)] IN
              /\ Expected(call) \in {None, there}
              /\ Supports(compat, "OpenPgp")
              /\ openpgp_algorithm_support(compat, there, call.op = "GenerateKey").support
                   = "Supported"
         /\ \/ pending = "Authenticate" /\ call.access.password # card.pw[name]
            \/ pending = "Target" /\ call.old # card.pw[name]
<1>1. Staged /\ Established
  BY DEF PgpInv
<1>2. ~card.terminated
  <2>1. call.op # "Activate"
    BY <1>1 DEF Wrong, Staged, Started, AccessFits
  <2> QED BY <1>1, <2>1 DEF Wrong, Established
<1>3. ASSUME KeySlot(call) # None
      PROVE  LET there == card.attributes[KeySlot(call)] IN
             /\ Expected(call) \in {None, there}
             /\ Supports(compat, "OpenPgp")
             /\ openpgp_algorithm_support(compat, there, call.op = "GenerateKey").support
                  = "Supported"
  <2> DEFINE there == card.attributes[KeySlot(call)]
  <2>1. algorithm = there /\ MetadataError(there) = None
    BY <1>1, <1>3 DEF Wrong, Established
  <2> HIDE DEF there
  <2>2. there # None /\ ~Mismatch(there)
    BY <2>1, OpenPgpAssumption DEF MetadataError
  <2>3. require(openpgp_algorithm_support(compat, there, call.op = "GenerateKey")) = None
    BY <2>1, <2>2 DEF MetadataError
  <2>4. Expected(call) \in {None, there}
    BY <2>2 DEF Mismatch
  <2>5. Supports(compat, "OpenPgp")
    BY <1>1 DEF Staged, Started, Permitted
  <2>6. openpgp_algorithm_support(compat, there, call.op = "GenerateKey").support = "Supported"
    BY <2>3, RequireSupported, SupportKinds
  <2> QED BY <2>4, <2>5, <2>6 DEF there
<1>4. \/ pending = "Authenticate" /\ call.access.password # card.pw[name]
      \/ pending = "Target" /\ call.old # card.pw[name]
  BY DEF Wrong
<1> QED BY <1>2, <1>3, <1>4

-----------------------------------------------------------------------------
(* Steps                                                                   *)

(* An answer that may have been altered on its way.                        *)
LEMMA AlteredReply ==
  ASSUME NEW reply \in OrAltered(Execute), \A r \in Execute : CardAnswers(r)
  PROVE  \E r \in Execute :
           /\ reply.status = r.status /\ reply.card = r.card
           /\ \/ reply.data = r.data
              \/ /\ r.status = "9000" /\ reply.data = [of |-> None, form |-> "other"]
                 /\ ~(pending = "Target" /\ call.op \in {"ReadData", "ReadCertificate"})
<1>1. CASE reply \in Execute
  BY <1>1
<1>2. CASE reply \notin Execute
  <2>1. PICK r \in Execute :
          /\ reply = [r EXCEPT !.data = [of |-> None, form |-> "other"]]
          /\ r.status = "9000"
          /\ ~(pending = "Target" /\ call.op \in {"ReadData", "ReadCertificate"})
    BY <1>2 DEF OrAltered
  <2>2. r = [status |-> r.status, data |-> r.data, card |-> r.card]
    BY DEF CardAnswers
  <2>3. /\ reply.status = r.status /\ reply.card = r.card
        /\ reply.data = [of |-> None, form |-> "other"]
    BY <2>1, <2>2
  <2> QED BY <2>1, <2>3
<1> QED BY <1>1, <1>2

(* What the properties say of a step that ends an operation.               *)
LEMMA EndStep ==
  ASSUME PgpInv, pending # "Idle", NEW how, NEW value, PgpFinish(how, value),
         UNCHANGED <<call, compat>>, CardType(card'),
         how = "SecurityStatusNotSatisfied" => call.op = "Terminate" /\ call.access = None
  PROVE  PgpInv'
BY DEF PgpInv, PgpFinish

(* What every answer does to the card.                                     *)
LEMMA CardStep ==
  ASSUME PgpInv, PgpInv', pending # "Idle", UNCHANGED call, NEW r \in Execute, card' = r.card
  PROVE  /\ AttemptsExplained
         /\ card.terminated =>
              call.op = "Activate" \/ [card' EXCEPT !.verified = {}] = [card EXCEPT !.verified = {}]
<1>1. CardAnswers(r) /\ (card.terminated /\ call.op # "Activate" => LoginsOnly(card'))
  BY Effects
<1>2. AttemptsExplained
  <2>1. ended' = "SecurityStatusNotSatisfied" => call'.op = "Terminate" /\ call'.access = None
    BY DEF PgpInv
  <2>2. ASSUME NEW name \in Passwords, card'.tries[name] < card.tries[name]
        PROVE  Wrong(name)
    BY <1>1, <2>2 DEF CardAnswers
  <2> QED BY <2>1, <2>2, WrongExplained DEF AttemptsExplained
<1>3. ASSUME LoginsOnly(card')
      PROVE  [card' EXCEPT !.verified = {}] = [card EXCEPT !.verified = {}]
  <2> DEFINE v == {}
             after == card'
  <2> HIDE DEF v, after
  <2>1. card = Parts(card.pw, card.tries, card.verified, card.attributes, card.key,
                     card.certificate, card.occurrence, card.terminated)
    BY CardParts DEF PgpInv
  <2>2. CardType(after)
    BY <1>1 DEF CardAnswers, after
  <2>3. after = Parts(after.pw, after.tries, after.verified, after.attributes, after.key,
                      after.certificate, after.occurrence, after.terminated)
    BY <2>2, CardParts
  <2>4. after = Parts(card.pw, card.tries, after.verified, card.attributes, card.key,
                      card.certificate, card.occurrence, card.terminated)
    BY <1>3, <2>3 DEF LoginsOnly, after
  <2>5. [after EXCEPT !.verified = v] = [card EXCEPT !.verified = v]
    BY <2>1, <2>4 DEF Parts
  <2> QED BY <2>5, Zenon DEF v, after
<1> QED BY <1>1, <1>2, <1>3

(* Going on to the next stage.                                             *)
LEMMA PoppedStep ==
  ASSUME PgpInv, pending # "Idle", pending # "Target", Popped, UNCHANGED <<call, compat>>
  PROVE  \/ /\ pending = "Authenticate" /\ call.op = "Verify" /\ PgpFinish("Done", None)
         \/ Staged' /\ pending' = Following(call, pending) /\ UNCHANGED ended
<1>1. Staged /\ RequestType(call) /\ AccessFits(call)
  BY OpenPgpAssumption DEF PgpInv, Staged, Started
<1> DEFINE f == Following(call, pending)
<1>2. /\ queue = <<>> <=> f = "none"
      /\ f # "none" => /\ Head(queue) = f /\ Tail(queue) = Rest(call, f)
                       /\ f \in Stages \ {"Select"}
                       /\ f = "Metadata" => KeySlot(call) # None
                       /\ f = "Authenticate" => call.access # None
                       /\ f = "Acknowledge" => call.op \in Certificates
                       /\ f = "Target" => call.op # "Verify"
  BY <1>1, RestUnfolds DEF Staged
<1>3. CASE queue = <<>>
  <2>1. pending = "Authenticate" /\ call.op = "Verify"
    BY <1>1, <1>2, <1>3, KeySlots DEF Following, Staged, Stages, AccessFits, Certificates
  <2> QED BY <1>3, <2>1 DEF Popped
<1>4. CASE queue # <<>>
  <2>1. pending' = f /\ queue' = Rest(call, f) /\ UNCHANGED <<ended, call, compat>> /\ f # "none"
    BY <1>2, <1>4 DEF Popped
  <2> HIDE DEF f
  <2>2. Started(call)'
    <3>1. call' = call /\ compat' = compat /\ Started(call)
      BY <1>1, <2>1 DEF Staged
    <3>2. AccessFits(call)'
      BY <3>1 DEF Started, AccessFits
    <3>3. TargetFits(call)'
      BY <3>1 DEF Started, TargetFits
    <3>4. Permitted(call)'
      BY <3>1 DEF Started, Permitted, Gate
    <3> QED BY <3>1, <3>2, <3>3, <3>4 DEF Started
  <2>3. Staged'
    BY <1>1, <1>2, <2>1, <2>2 DEF Staged, Rest, FromTarget, FromAcknowledge, FromAuthenticate,
       FromMetadata, KeySlot
  <2> QED BY <2>1, <2>3 DEF f
<1> QED BY <1>3, <1>4

(* A target that is answered as it should be has done what it promises.    *)
LEMMA TargetDone ==
  ASSUME PgpInv, pending = "Target", call.op # "PinStatus",
         NEW r \in Execute, NEW data, r.status = "9000",
         \/ data = r.data
         \/ /\ data = [of |-> None, form |-> "other"]
            /\ call.op \notin {"ReadData", "ReadCertificate"},
         ResultFits(data), card' = r.card, result' = data
  PROVE  Promise(card, card')
<1>1. /\ CardType(card) /\ RequestType(call) /\ call.op # "Verify"
      /\ TargetFits(call)
      /\ call.op \in Certificates => card.occurrence = call.slot
      /\ KeySlot(call) # None =>
           algorithm = card.attributes[KeySlot(call)] /\ MetadataError(algorithm) = None
  BY OpenPgpAssumption DEF PgpInv, Staged, Started, Established
<1>2. data = r.data \/ (data.of = None /\ data.form = "other")
  OBVIOUS
<1>3. CASE call.op \in {"ReadData", "WriteData", "ResetRetries"}
  BY <1>3 DEF Promise
<1>4. CASE call.op = "ReadCertificate"
  <2>1. data = r.data /\ card.occurrence = call.slot
    BY <1>1, <1>4 DEF Certificates
  <2>2. r.data.of = card.certificate[card.occurrence]
    BY <1>1, <1>4, ReadReply
  <2> QED BY <1>4, <2>1, <2>2 DEF Promise
<1>5. CASE call.op \in {"ReadPublicKey", "GenerateKey"}
  <2>1. data.form # "other"
    BY <1>5 DEF ResultFits
  <2>2. data = r.data
    BY <1>2, <2>1
  <2>3. KeySlot(call) = call.slot /\ call.slot # None
    BY <1>1, <1>5, OpenPgpAssumption DEF KeySlot, RequestType
  <2>4. /\ r.data.of = card.attributes[KeySlot(call)] /\ r.card.key[call.slot]
        /\ r.card.attributes = card.attributes
    <3>1. CASE call.op = "ReadPublicKey"
      BY <1>1, <3>1, ReadReply
    <3>2. CASE call.op = "GenerateKey"
      BY <1>1, <3>2, WriteReply DEF Writes, Wrote
    <3> QED BY <1>5, <3>1, <3>2
  <2> QED BY <1>1, <1>5, <2>2, <2>3, <2>4 DEF Promise
<1>6. CASE call.op = "ImportKey"
  <2>1. KeySlot(call) = call.slot /\ call.slot # None /\ Expected(call) = call.alg
        /\ call.alg \in Algorithms
    BY <1>1, <1>6, Accepted, OpenPgpAssumption DEF KeySlot, RequestType, Expected, TargetFits
  <2>2. card.attributes[call.slot] = call.alg
    BY <1>1, <2>1, OpenPgpAssumption DEF MetadataError, Mismatch
  <2>3. r.card.key[call.slot] /\ r.card.attributes = card.attributes
    BY <1>1, <1>6, WriteReply DEF Writes, Wrote
  <2> QED BY <1>6, <2>2, <2>3 DEF Promise
<1>7. CASE call.op \in {"Sign", "Authenticate", "Decrypt", "Derive"}
  <2>1. KeySlot(call) \in Slots /\ KeySlot(call) # None /\ Expected(call) = call.alg
    BY <1>7, OpenPgpAssumption DEF KeySlot, Slots, Expected
  <2>2. call.alg \in Algorithms /\ call.alg # None
    BY <1>1, <1>7, Accepted, OpenPgpAssumption DEF TargetFits, Rsa, Curves, Algorithms
  <2>3. card.attributes[KeySlot(call)] = call.alg
    BY <1>1, <2>1, <2>2, OpenPgpAssumption DEF MetadataError, Mismatch
  <2>4. r.data.of = card.attributes[KeySlot(call)]
    <3> DEFINE reference == IF call.op = "Sign" THEN "Pw1Sign" ELSE "Pw1Other"
    <3>1. r \in CardUse(reference)
      BY <1>7 DEF Execute, CardTarget
    <3> HIDE DEF reference
    <3> QED BY <1>1, <1>7, <3>1, UseReply
  <2>5. data = r.data
    <3>1. CASE call.op \in {"Sign", "Authenticate"}
      <4>1. SignatureLength(data.of) = SignatureLength(call.alg)
        BY <3>1 DEF ResultFits
      <4>2. data.of # None
        BY <2>2, <4>1, OpenPgpAssumption DEF SignatureLength, Algorithms
      <4> QED BY <1>2, <4>2
    <3>2. CASE call.op \in {"Decrypt", "Derive"}
      <4>1. data.form # "other"
        BY <3>2 DEF ResultFits
      <4> QED BY <1>2, <4>1
    <3> QED BY <1>7, <3>1, <3>2
  <2> QED BY <1>7, <2>3, <2>4, <2>5 DEF Promise
<1>8. CASE call.op = "Logout"
  <2>1. call.reference \notin r.card.verified
    BY <1>1, <1>8, LogoutReply
  <2> QED BY <1>8, <2>1 DEF Promise
<1>9. CASE call.op = "ChangePassword"
  <2> DEFINE name == Name(call.reference)
  <2>1. call.old \in Seq(Blocks) /\ call.new \in Seq(Blocks) /\ name \in Passwords
    BY <1>1, <1>9, Names DEF RequestType
  <2>2. r \in CardReplace(name, name, call.old \o call.new)
    BY <1>9 DEF Execute, CardTarget
  <2> HIDE DEF name
  <2>3. card.pw[name] = call.old => r.card.pw[name] = call.new
    BY <1>1, <1>9, <2>1, <2>2, ReplaceReply
  <2> QED BY <1>9, <2>3 DEF Promise, name
<1>10. CASE call.op = "UnblockWithCode"
  <2>1. call.old \in Seq(Blocks) /\ call.new \in Seq(Blocks) /\ "Code" \in Passwords
        /\ "Pw1" \in Passwords
    BY <1>1, <1>10 DEF RequestType, Passwords
  <2>2. r \in CardReplace("Code", "Pw1", call.old \o call.new)
    BY <1>10 DEF Execute, CardTarget
  <2>3. card.pw["Code"] = call.old => r.card.pw["Pw1"] = call.new
    BY <1>1, <1>10, <2>1, <2>2, ReplaceReply
  <2> QED BY <1>10, <2>3 DEF Promise
<1>11. CASE call.op \in {"UnblockWithAdmin", "WriteCertificate"}
  <2>1. Wrote(r.card)
    BY <1>1, <1>11, WriteReply DEF Writes, Certificates
  <2> QED BY <1>11, <2>1 DEF Promise, Wrote
<1>12. CASE call.op = "Terminate"
  BY <1>1, <1>12, TerminateReply DEF Promise
<1>13. CASE call.op = "Activate"
  BY <1>1, <1>13, ActivateReply DEF Promise
<1> QED BY <1>1, <1>3, <1>4, <1>5, <1>6, <1>7, <1>8, <1>9, <1>10, <1>11, <1>12, <1>13
        DEF RequestType, Requests

(* Every status the applet answers with.                                   *)
Statuses == {"9000", "6285", "6982", "6983", "6a88", "6a80", "6700", "63c", "6f00"}

LEMMA TargetStatuses ==
  ASSUME NEW r \in CardTarget, RequestType(call)
  PROVE  r.status \in Statuses
<1>1. \A data, after : \A status \in Statuses : Reply(status, data, after).status \in Statuses
  BY DEF Reply
<1>2. \A status \in Statuses : \A x \in Refuse(status) : x.status \in Statuses
  BY <1>1, Zenon DEF Refuse
<1>3. /\ "9000" \in Statuses /\ "6982" \in Statuses /\ "6983" \in Statuses /\ "6a88" \in Statuses
      /\ "6a80" \in Statuses /\ "6700" \in Statuses /\ "63c" \in Statuses /\ "6f00" \in Statuses
  BY DEF Statuses
<1> HIDE DEF Statuses
<1>4. \A reference : \A x \in CardUse(reference) : x.status \in Statuses
  BY <1>1, <1>2, <1>3 DEF CardUse
<1>5. \A name, target, bytes : \A x \in CardReplace(name, target, bytes) : x.status \in Statuses
  <2> TAKE name, target, bytes
  <2> TAKE x \in CardReplace(name, target, bytes)
  <2> DEFINE known == card.pw[name]
             rest == SubSeq(bytes, Len(known) + 1, Len(bytes))
             least == IF target = "Pw3" THEN MinAdmin ELSE 1
             after == [card EXCEPT !.pw[target] = rest, !.tries[target] = MaxTries, !.verified = {}]
  <2>1. CASE known = <<>> \/ card.tries[name] = 0
    <3>1. x \in Refuse("6983")
      BY <2>1 DEF CardReplace
    <3> QED BY <1>2, <1>3, <3>1
  <2>2. CASE ~(known = <<>> \/ card.tries[name] = 0)
    <3>1. x \in IF ~IsPrefix(known, bytes) THEN {Reply("6982", None, Missed(name))}
                ELSE IF Len(rest) < least THEN Refuse("6700") ELSE {Reply("9000", None, after)}
      BY <2>2 DEF CardReplace
    <3> HIDE DEF rest, known, least, after
    <3> QED BY <1>1, <1>2, <1>3, <3>1
  <2> QED BY <2>1, <2>2
<1> QED BY <1>1, <1>2, <1>3, <1>4, <1>5 DEF CardTarget, RequestType, Requests

LEMMA KnownStatus ==
  ASSUME PgpInv, pending # "Idle", NEW r \in Execute
  PROVE  r.status \in Statuses
<1>1. CardType(card) /\ RequestType(call) /\ Staged
  BY OpenPgpAssumption DEF PgpInv, Staged, Started
<1>2. CASE pending = "Select"
  BY <1>1, <1>2, SelectReply DEF Statuses
<1>3. CASE pending = "Metadata"
  BY <1>1, <1>3, MetadataReply DEF Statuses
<1>4. CASE pending = "Authenticate"
  BY <1>1, <1>4, AuthenticateReply DEF Statuses
<1>5. CASE pending = "Acknowledge"
  <2>1. call.slot \in Slots
    BY <1>1, <1>5 DEF Staged, Certificates, RequestType
  <2> QED BY <1>1, <1>5, <2>1, AcknowledgeReply DEF Statuses
<1>6. CASE pending = "Target"
  <2>1. r \in CardTarget
    BY <1>6 DEF Execute
  <2> QED BY <1>1, <2>1, TargetStatuses
<1> QED BY <1>1, <1>2, <1>3, <1>4, <1>5, <1>6 DEF Staged, Stages

(* What PgpInv needs of a step that goes on to the next stage.             *)
LEMMA OnwardStep ==
  ASSUME PgpInv, pending # "Idle", pending # "Target", Staged',
         pending' = Following(call, pending), UNCHANGED <<ended, call, compat>>, CardType(card'),
         call.op # "Activate" => ~card'.terminated,
         pending # "Select" /\ KeySlot(call) # None =>
           algorithm' = card'.attributes[KeySlot(call)] /\ MetadataError(algorithm') = None,
         pending \in {"Authenticate", "Acknowledge"} /\ call.access # None =>
           call.access.reference \in card'.verified,
         pending = "Acknowledge" => card'.occurrence = call.slot
  PROVE  PgpInv'
<1>1. Staged /\ RequestType(call)
  BY OpenPgpAssumption DEF PgpInv, Staged, Started
<1>2. KeySlot(call)' = KeySlot(call)
  BY DEF KeySlot
<1>3. MetadataError(algorithm)' = MetadataError(algorithm')
  <2>1. \A seen : Mismatch(seen)' = Mismatch(seen)
    BY DEF Mismatch, Expected, KeySlot
  <2> QED BY <2>1 DEF MetadataError, Mismatch, Expected
<1>4. pending' \in {"Metadata", "Authenticate", "Acknowledge", "Target"}
  BY DEF Staged, Stages, Following
<1>5. pending = "Select" /\ pending' # "Metadata" => KeySlot(call) = None
  BY DEF Following
<1>6. pending' \in {"Acknowledge", "Target"} /\ call.access # None =>
        pending \in {"Authenticate", "Acknowledge"}
  BY <1>1 DEF Following, Staged, Stages
<1>7. pending' = "Target" /\ call.op \in Certificates => pending = "Acknowledge"
  BY <1>1 DEF Following, Staged, Stages
<1>8. Established'
  <2>1. pending' # "Select" /\ call'.op # "Activate" => ~card'.terminated
    OBVIOUS
  <2>2. pending' \notin {"Select", "Metadata"} /\ KeySlot(call)' # None =>
          algorithm' = card'.attributes[KeySlot(call)'] /\ MetadataError(algorithm)' = None
    BY <1>2, <1>3, <1>5
  <2>3. pending' \in {"Acknowledge", "Target"} /\ call'.access # None =>
          call'.access.reference \in card'.verified
    BY <1>6
  <2>4. pending' = "Target" /\ call'.op \in Certificates => card'.occurrence = call'.slot
    BY <1>7
  <2> QED BY <2>1, <2>2, <2>3, <2>4 DEF Established
<1> QED BY <1>8 DEF PgpInv

(* The first half of OperationTrue.                                        *)
Outcome ==
  pending # "Idle" /\ pending' = "Idle" =>
    /\ ended' = "Done" => Promise(card, card')
    /\ ended' \notin {"Done", "Lost", "InvalidResponse"} =>
         <<card.pw, card.key, card.certificate, card.attributes>>
           = <<card'.pw, card'.key, card'.certificate, card'.attributes>>

(* Going on, or the end of a verification.                                 *)
LEMMA PopStep ==
  ASSUME PgpInv, pending # "Idle", pending # "Target", Popped, UNCHANGED <<call, compat>>,
         CardType(card'), call.op # "Activate" => ~card'.terminated,
         pending # "Select" /\ KeySlot(call) # None =>
           algorithm' = card'.attributes[KeySlot(call)] /\ MetadataError(algorithm') = None,
         pending \in {"Authenticate", "Acknowledge"} /\ call.access # None =>
           call.access.reference \in card'.verified,
         pending = "Acknowledge" => card'.occurrence = call.slot
  PROVE  PgpInv' /\ Outcome
<1>1. CASE pending = "Authenticate" /\ call.op = "Verify" /\ PgpFinish("Done", None)
  <2>1. PgpInv'
    BY <1>1, EndStep
  <2>2. call.access # None
    BY <1>1 DEF PgpInv, Staged
  <2>3. Promise(card, card')
    BY <1>1, <2>2 DEF Promise
  <2>4. ended' = "Done"
    BY <1>1 DEF PgpFinish
  <2> QED BY <2>1, <2>3, <2>4 DEF Outcome
<1>2. CASE Staged' /\ pending' = Following(call, pending) /\ UNCHANGED ended
  <2>1. PgpInv'
    BY <1>2, OnwardStep
  <2>2. pending' # "Idle"
    BY <1>2 DEF Staged, Stages
  <2> QED BY <2>1, <2>2 DEF Outcome
<1> QED BY <1>1, <1>2, PoppedStep

(* Stage::Metadata.                                                        *)
LEMMA MetadataStep ==
  ASSUME PgpInv, pending = "Metadata", UNCHANGED <<call, compat>>, card' = card,
         NEW data, data.of = card.attributes[KeySlot(call)] \/ data.of = None,
         \/ /\ MetadataError(observed(data)) = None
            /\ algorithm' = observed(data)
            /\ Popped
         \/ /\ MetadataError(observed(data)) # None
            /\ PgpFinish(MetadataError(observed(data)), None)
  PROVE  PgpInv' /\ Outcome
<1> DEFINE seen == observed(data)
<1>1. /\ CardType(card) /\ KeySlot(call) # None /\ Staged
      /\ (call.op # "Activate" => ~card.terminated)
  BY DEF PgpInv, Staged, Established
<1>2. seen # None => seen = card.attributes[KeySlot(call)]
  BY DEF observed
<1>3. CASE MetadataError(seen) = None /\ algorithm' = seen /\ Popped
  <2>1. seen # None
    BY <1>3, OpenPgpAssumption DEF MetadataError
  <2>2. algorithm' = card'.attributes[KeySlot(call)] /\ MetadataError(algorithm') = None
    BY <1>2, <1>3, <2>1
  <2> QED BY <1>1, <1>3, <2>2, PopStep
<1>4. CASE MetadataError(seen) # None /\ PgpFinish(MetadataError(seen), None)
  <2>1. MetadataError(seen) \notin {"SecurityStatusNotSatisfied", "Done"}
    <3>1. seen = None => MetadataError(seen) = "InvalidResponse"
      BY DEF MetadataError
    <3>2. seen # None /\ Mismatch(seen) => MetadataError(seen) = "UnsupportedAlgorithm"
      BY DEF MetadataError
    <3>3. ASSUME seen # None, ~Mismatch(seen)
          PROVE  MetadataError(seen) \in {None, "UnsupportedFeature", "CapabilityUnknown"}
      <4> DEFINE status == openpgp_algorithm_support(compat, seen, call.op = "GenerateKey")
      <4>1. MetadataError(seen) = require(status)
        BY <3>3 DEF MetadataError
      <4>2. status.support \in {"Supported", "Unsupported", "Unknown"}
        BY SupportKinds
      <4> HIDE DEF status
      <4>3. require(status) \in {None, "UnsupportedFeature", "CapabilityUnknown"}
        BY <4>2 DEF require
      <4> QED BY <4>1, <4>3
    <3> QED BY <1>4, <3>1, <3>2, <3>3
  <2>2. PgpInv'
    BY <1>1, <1>4, <2>1, EndStep
  <2>3. ended' # "Done"
    BY <1>4, <2>1 DEF PgpFinish
  <2> QED BY <2>2, <2>3 DEF Outcome
<1> QED BY <1>3, <1>4

(* An answer that ends the operation with an error.                        *)
LEMMA RefusedStep ==
  ASSUME PgpInv, pending # "Idle", UNCHANGED <<call, compat>>,
         NEW r \in Execute, card' = r.card, PgpFinish(Failure(r.status), None),
         r.status # "9000"
  PROVE  PgpInv' /\ Outcome
<1>1. CardAnswers(r) /\ r.status \in Statuses
  BY Effects, KnownStatus
<1>2. r.status = "6982" => Concerns # None \/ (call.op = "Terminate" /\ call.access = None)
  <2>1. CardType(card) /\ RequestType(call) /\ Staged
    BY OpenPgpAssumption DEF PgpInv, Staged, Started
  <2>2. CASE pending = "Select"
    BY <2>1, <2>2, SelectReply
  <2>3. CASE pending = "Metadata"
    BY <2>1, <2>3, MetadataReply
  <2>4. CASE pending = "Authenticate"
    <3>1. call.access # None /\ Concerns = call.access.reference
      BY <2>1, <2>4 DEF Staged, Concerns
    <3>2. Concerns # None
      BY <2>1, <2>4, <3>1, OpenPgpAssumption DEF RequestType
    <3> QED BY <3>2
  <2>5. CASE pending = "Acknowledge"
    <3>1. call.slot \in Slots
      BY <2>1, <2>5 DEF Staged, Certificates, RequestType
    <3> QED BY <2>1, <2>5, <3>1, AcknowledgeReply
  <2>6. CASE pending = "Target"
    BY <2>6, TargetReply
  <2> QED BY <2>1, <2>2, <2>3, <2>4, <2>5, <2>6 DEF Staged, Stages
<1>3. Failure(r.status) = "SecurityStatusNotSatisfied" =>
        call.op = "Terminate" /\ call.access = None
  BY <1>1, <1>2 DEF Failure, Statuses
<1>4. Failure(r.status) # "Done"
  BY <1>1 DEF Failure, Statuses
<1>5. PgpInv'
  BY <1>1, <1>3, EndStep DEF CardAnswers
<1>6. <<card.pw, card.key, card.certificate, card.attributes>>
        = <<card'.pw, card'.key, card'.certificate, card'.attributes>>
  BY <1>1 DEF CardAnswers
<1>7. ended' # "Done"
  BY <1>4 DEF PgpFinish
<1> QED BY <1>5, <1>6, <1>7 DEF Outcome

LEMMA PgpAnsweredStep ==
  ASSUME PgpInv, PgpAnswered
  PROVE  PgpInv' /\ OperationTrue /\ AttemptsExplained
<1> DEFINE asked == pending = "Target" /\ call.op = "PinStatus"
           good(reply) == reply.status = "9000"
                            \/ (pending = "Select" /\ call.op = "Activate" /\ reply.status = "6285")
<1>1. /\ CardType(card) /\ RequestType(call) /\ Staged /\ Established /\ pending # "Idle"
      /\ UNCHANGED <<call, compat>>
  BY OpenPgpAssumption DEF PgpInv, Staged, Started, PgpAnswered
<1>2. PICK reply \in OrAltered(Execute) :
        /\ card' = reply.card
        /\ \/ asked /\ reply.data # None /\ PgpFinish("InvalidResponse", None)
           \/ /\ asked /\ reply.data = None /\ pin_status(reply.status) # None
              /\ PgpFinish("Done", pin_status(reply.status))
           \/ ~asked /\ good(reply) /\ Success(reply)
           \/ /\ (asked /\ reply.data = None /\ pin_status(reply.status) = None)
                 \/ (~asked /\ ~good(reply))
              /\ PgpFinish(Failure(reply.status), None)
  BY DEF PgpAnswered
<1>3. \A r \in Execute : CardAnswers(r)
  BY <1>1, Effects
<1>4. PICK r \in Execute :
        /\ reply.status = r.status /\ reply.card = r.card
        /\ \/ reply.data = r.data
           \/ /\ r.status = "9000" /\ reply.data = [of |-> None, form |-> "other"]
              /\ ~(pending = "Target" /\ call.op \in {"ReadData", "ReadCertificate"})
  BY <1>3, AlteredReply
<1>5. CardAnswers(r) /\ CardType(card') /\ card' = r.card
  BY <1>2, <1>3, <1>4 DEF CardAnswers
<1>6. ASSUME PgpFinish("InvalidResponse", None)
      PROVE  PgpInv' /\ Outcome
  <2>1. PgpInv'
    BY <1>1, <1>5, <1>6, EndStep
  <2> QED BY <1>6, <2>1 DEF Outcome, PgpFinish
<1>7. PgpInv' /\ Outcome
  <2>1. CASE asked /\ reply.data # None /\ PgpFinish("InvalidResponse", None)
    BY <1>6, <2>1
  <2>2. CASE asked /\ pin_status(reply.status) # None /\ PgpFinish("Done", pin_status(reply.status))
    <3>1. PgpInv'
      BY <1>1, <1>5, <2>2, EndStep
    <3>2. /\ r.status \in {"9000", "6983", "63c", "6f00"}
          /\ r.status = "9000" => call.reference \in card.verified
          /\ r.status = "6983" => card.tries[Name(call.reference)] = 0
      BY <1>1, <2>2, PinStatusReply
    <3>3. result' = pin_status(r.status)
      BY <1>4, <2>2 DEF PgpFinish
    <3>4. pin_status(r.status) # None
      BY <1>4, <2>2
    <3>5. /\ result' = "verified" => call.reference \in card.verified
          /\ result' = "blocked" => card.tries[Name(call.reference)] = 0
      BY <3>2, <3>3, <3>4 DEF pin_status
    <3>6. Promise(card, card')
      BY <2>2, <3>5 DEF Promise
    <3>7. ended' = "Done"
      BY <2>2 DEF PgpFinish
    <3> QED BY <3>1, <3>6, <3>7 DEF Outcome
  <2>3. CASE ~asked /\ good(reply) /\ Success(reply)
    <3>1. CASE pending = "Metadata"
      <4>1. /\ r.card = card /\ r.data.of = card.attributes[KeySlot(call)]
        BY <1>1, <3>1, MetadataReply
      <4>2. reply.data.of = card.attributes[KeySlot(call)] \/ reply.data.of = None
        BY <1>4, <4>1
      <4>3. \/ /\ MetadataError(observed(reply.data)) = None
               /\ algorithm' = observed(reply.data)
               /\ Popped
            \/ /\ MetadataError(observed(reply.data)) # None
               /\ PgpFinish(MetadataError(observed(reply.data)), None)
        BY <2>3, <3>1 DEF Success
      <4>4. card' = card
        BY <1>5, <4>1
      <4> QED BY <1>1, <3>1, <4>2, <4>3, <4>4, MetadataStep
    <3>2. CASE pending = "Target" /\ ResultFits(reply.data) /\ PgpFinish("Done", reply.data)
      <4>1. PgpInv'
        BY <1>1, <1>5, <3>2, EndStep
      <4>2. result' = reply.data /\ ended' = "Done"
        BY <3>2 DEF PgpFinish
      <4>3. r.status = "9000" /\ call.op # "PinStatus"
        BY <1>4, <2>3, <3>2
      <4>4. \/ reply.data = r.data
            \/ /\ reply.data = [of |-> None, form |-> "other"]
               /\ call.op \notin {"ReadData", "ReadCertificate"}
        BY <1>4, <3>2
      <4>5. Promise(card, card')
        BY <1>5, <3>2, <4>2, <4>3, <4>4, TargetDone
      <4> QED BY <4>1, <4>2, <4>5 DEF Outcome
    <3>3. CASE pending \notin {"Metadata", "Target"} /\ reply.data = None
               /\ UNCHANGED algorithm /\ Popped
      <4>1. CASE pending = "Select"
        <5>1. LoginsOnly(r.card) /\ r.status = IF card.terminated THEN "6285" ELSE "9000"
          BY <1>1, <4>1, SelectReply
        <5>2. call.op # "Activate" => ~card'.terminated
          BY <1>4, <1>5, <2>3, <5>1 DEF LoginsOnly
        <5> QED BY <1>1, <1>5, <3>3, <4>1, <5>2, PopStep
      <4>2. CASE pending = "Authenticate"
        <5>1. /\ r.card.terminated = card.terminated
              /\ r.status = "9000" => /\ call.access.reference \in r.card.verified
                                      /\ r.card.attributes = card.attributes
          BY <1>1, <4>2, AuthenticateReply
        <5>2. r.status = "9000"
          BY <1>4, <2>3, <4>2
        <5>3. call.op # "Activate" => ~card'.terminated
          BY <1>1, <1>5, <4>2, <5>1 DEF Established
        <5>4. KeySlot(call) # None =>
                algorithm' = card'.attributes[KeySlot(call)] /\ MetadataError(algorithm') = None
          BY <1>1, <1>5, <3>3, <4>2, <5>1, <5>2 DEF Established
        <5> QED BY <1>1, <1>5, <3>3, <4>2, <5>1, <5>2, <5>3, <5>4, PopStep
      <4>3. CASE pending = "Acknowledge"
        <5>1. call.slot \in Slots
          BY <1>1, <4>3 DEF Staged, Certificates, RequestType
        <5>2. /\ r.card.occurrence = call.slot /\ r.card.verified = card.verified
              /\ r.card.terminated = card.terminated /\ r.card.attributes = card.attributes
          BY <1>1, <4>3, <5>1, AcknowledgeReply
        <5>3. call.op # "Activate" => ~card'.terminated
          BY <1>1, <1>5, <4>3, <5>2 DEF Established
        <5>4. KeySlot(call) # None =>
                algorithm' = card'.attributes[KeySlot(call)] /\ MetadataError(algorithm') = None
          BY <1>1, <1>5, <3>3, <4>3, <5>2 DEF Established
        <5>5. call.access # None => call.access.reference \in card'.verified
          BY <1>1, <1>5, <4>3, <5>2 DEF Established
        <5>6. card'.occurrence = call.slot
          BY <1>5, <5>2
        <5> QED BY <1>1, <1>5, <3>3, <4>3, <5>3, <5>4, <5>5, <5>6, PopStep
      <4> QED BY <1>1, <3>3, <4>1, <4>2, <4>3 DEF Staged, Stages
    <3>4. CASE PgpFinish("InvalidResponse", None)
      BY <1>6, <3>4
    <3> QED BY <2>3, <3>1, <3>2, <3>3, <3>4 DEF Success
  <2>4. CASE /\ asked /\ reply.data = None /\ pin_status(reply.status) = None
             /\ PgpFinish(Failure(reply.status), None)
    <3>1. r.status # "9000"
      BY <1>4, <2>4, OpenPgpAssumption DEF pin_status
    <3> QED BY <1>1, <1>4, <1>5, <2>4, <3>1, RefusedStep
  <2>5. CASE ~asked /\ ~good(reply) /\ PgpFinish(Failure(reply.status), None)
    <3>1. r.status # "9000"
      BY <1>4, <2>5
    <3> QED BY <1>1, <1>4, <1>5, <2>5, <3>1, RefusedStep
  <2> QED BY <1>2, <2>1, <2>2, <2>3, <2>4, <2>5
<1>8. /\ AttemptsExplained
      /\ card.terminated =>
           call.op = "Activate" \/ [card' EXCEPT !.verified = {}] = [card EXCEPT !.verified = {}]
  BY <1>1, <1>5, <1>7, CardStep
<1>9. OperationTrue
  BY <1>7, <1>8, Zenon DEF Outcome, OperationTrue
<1> QED BY <1>7, <1>8, <1>9

LEMMA LostStep ==
  ASSUME PgpInv, Lost
  PROVE  PgpInv' /\ OperationTrue /\ AttemptsExplained
<1>1. /\ CardType(card) /\ pending # "Idle" /\ UNCHANGED <<call, compat>>
      /\ PgpFinish("Lost", None)
  BY DEF PgpInv, Lost
<1>2. CardType(card')
  <2>1. CASE card' = card
    BY <1>1, <2>1
  <2>2. CASE \E r \in Execute : card' = r.card
    BY <1>1, <2>2, Effects DEF CardAnswers
  <2> QED BY <2>1, <2>2 DEF Lost
<1>3. PgpInv'
  BY <1>1, <1>2, EndStep
<1>4. Outcome
  BY <1>1 DEF Outcome, PgpFinish
<1>5. CASE card' = card
  <2>1. \A name \in Passwords : ~(card'.tries[name] < card.tries[name])
    <3>1. card.tries \in [Passwords -> 0 .. MaxTries]
      BY <1>1, CardFields
    <3> QED BY <1>5, <3>1, OpenPgpAssumption
  <2>2. AttemptsExplained
    BY <1>1, <2>1 DEF AttemptsExplained, PgpFinish
  <2>3. OperationTrue
    BY <1>4, <1>5, Zenon DEF Outcome, OperationTrue
  <2> QED BY <1>3, <2>2, <2>3
<1>6. CASE \E r \in Execute : card' = r.card
  <2>1. PICK r \in Execute : card' = r.card
    BY <1>6
  <2>2. /\ AttemptsExplained
        /\ card.terminated =>
             call.op = "Activate" \/ [card' EXCEPT !.verified = {}] = [card EXCEPT !.verified = {}]
    BY <1>1, <1>3, <2>1, CardStep
  <2>3. OperationTrue
    BY <1>4, <2>2, Zenon DEF Outcome, OperationTrue
  <2> QED BY <1>3, <2>2, <2>3
<1> QED BY <1>5, <1>6 DEF Lost

(* A step at which the card is as it was, or loses its logins.             *)
LEMMA QuietStep ==
  ASSUME PgpInv, PgpInv', ended' \in {"none", ended}, UNCHANGED call \/ ended' = "none",
         card' = card \/ card' = [card EXCEPT !.verified = {}],
         ~(pending # "Idle" /\ pending' = "Idle")
  PROVE  OperationTrue /\ AttemptsExplained
<1> DEFINE v == {}
<1>1. CardType(card) /\ CardType(card')
  BY DEF PgpInv
<1> HIDE DEF v
<1>2. /\ card'.tries = card.tries
      /\ [card' EXCEPT !.verified = v] = [card EXCEPT !.verified = v]
  <2>1. CASE card' = card
    BY <2>1
  <2>2. CASE card' = [card EXCEPT !.verified = {}]
    <3> DEFINE after == card'
    <3>1. after = [card EXCEPT !.verified = v]
      BY <2>2, Zenon DEF v
    <3> HIDE DEF after
    <3>2. LoginsOnly(after)
      BY <1>1, <3>1, LoginsKept
    <3>3. card = Parts(card.pw, card.tries, card.verified, card.attributes, card.key,
                       card.certificate, card.occurrence, card.terminated)
      BY <1>1, CardParts
    <3>4. after = Parts(card.pw, card.tries, v, card.attributes, card.key,
                        card.certificate, card.occurrence, card.terminated)
      BY <3>1, <3>3 DEF Parts
    <3>5. [after EXCEPT !.verified = v] = [card EXCEPT !.verified = v]
      BY <3>3, <3>4 DEF Parts
    <3> QED BY <3>2, <3>5 DEF LoginsOnly, after
  <2> QED BY <2>1, <2>2
<1>3. \A name \in Passwords : ~(card'.tries[name] < card.tries[name])
  <2>1. card.tries \in [Passwords -> 0 .. MaxTries]
    BY <1>1, CardFields
  <2> QED BY <1>2, <2>1, OpenPgpAssumption
<1>4. AttemptsExplained
  BY <1>3 DEF AttemptsExplained, PgpInv
<1>5. [card' EXCEPT !.verified = {}] = [card EXCEPT !.verified = {}]
  BY <1>2, Zenon DEF v
<1>6. OperationTrue
  BY <1>5, Zenon DEF OperationTrue
<1> QED BY <1>4, <1>6

LEMMA StartStep ==
  ASSUME PgpInv, NEW c \in Calls, operation(c)
  PROVE  PgpInv' /\ OperationTrue /\ AttemptsExplained
<1>1. /\ pending' = "Select" /\ queue' = Rest(c, "Select") /\ call' = c
      /\ pending = "Idle" /\ ended' = "none" /\ UNCHANGED <<compat, card>>
      /\ Permitted(c) /\ AccessFits(c) /\ TargetFits(c)
  BY QueueRest DEF operation
<1>2. Started(call)'
  <2>1. AccessFits(call)'
    BY <1>1 DEF AccessFits
  <2>2. TargetFits(call)'
    BY <1>1 DEF TargetFits
  <2>3. Permitted(call)'
    BY <1>1 DEF Permitted, Gate
  <2> QED BY <1>1, <2>1, <2>2, <2>3 DEF Started
<1>3. Staged'
  BY <1>1, <1>2 DEF Staged, Stages, Rest, FromTarget, FromAcknowledge, FromAuthenticate,
     FromMetadata, KeySlot
<1>4. Established'
  BY <1>1 DEF Established
<1>5. PgpInv'
  BY <1>1, <1>3, <1>4 DEF PgpInv
<1> QED BY <1>1, <1>5, QuietStep

(* Nothing happens to the operation, which may be over.                    *)
LEMMA IdleStep ==
  ASSUME PgpInv, PowerCycle \/ UNCHANGED pgpVars
  PROVE  PgpInv' /\ OperationTrue /\ AttemptsExplained
<1>1. CASE PowerCycle
  <2>1. CardType(card')
    <3> DEFINE v == {}
               after == card'
    <3>1. after = [card EXCEPT !.verified = v]
      BY <1>1 DEF PowerCycle
    <3> HIDE DEF v, after
    <3>2. CardType(after)
      BY <3>1, LoginsKept DEF PgpInv
    <3> QED BY <3>2 DEF after
  <2>2. /\ UNCHANGED <<call, ended>> /\ pending = "Idle" /\ pending' = "Idle"
        /\ card' = [card EXCEPT !.verified = {}]
    BY <1>1 DEF PowerCycle
  <2>3. PgpInv'
    BY <2>1, <2>2 DEF PgpInv
  <2> QED BY <2>2, <2>3, QuietStep
<1>2. CASE UNCHANGED pgpVars
  <2>1. UNCHANGED <<call, queue, pending, algorithm, ended, compat, card>>
    BY <1>2 DEF pgpVars
  <2>2. PgpInv'
    <3>1. Started(call)' = Started(call)
      BY <2>1 DEF Started, Permitted, AccessFits, TargetFits, Gate
    <3>2. Staged' = Staged
      BY <2>1, <3>1 DEF Staged, Rest, FromTarget, FromAcknowledge, FromAuthenticate,
         FromMetadata, KeySlot
    <3>3. KeySlot(call)' = KeySlot(call) /\ MetadataError(algorithm)' = MetadataError(algorithm)
      BY <2>1 DEF KeySlot, MetadataError, Mismatch, Expected
    <3>4. Established' = Established
      BY <2>1, <3>3 DEF Established
    <3> QED BY <2>1, <3>2, <3>4 DEF PgpInv
  <2> QED BY <2>1, <2>2, QuietStep
<1> QED BY <1>1, <1>2

LEMMA PgpStep ==
  ASSUME PgpInv, [PgpNext]_pgpVars
  PROVE  PgpInv' /\ OperationTrue /\ AttemptsExplained
<1>1. ASSUME NEW c \in Calls, operation(c)
      PROVE  PgpInv' /\ OperationTrue /\ AttemptsExplained
  BY <1>1, StartStep
<1>2. CASE PgpAnswered
  BY <1>2, PgpAnsweredStep
<1>3. CASE Lost
  BY <1>3, LostStep
<1>4. CASE PowerCycle \/ UNCHANGED pgpVars
  BY <1>4, IdleStep
<1> QED BY <1>1, <1>2, <1>3, <1>4 DEF PgpNext

LEMMA PgpStart == PgpInit => PgpInv
BY OpenPgpAssumption DEF PgpInit, PgpInv

-----------------------------------------------------------------------------
(* Theorems                                                                *)

(* Whenever a command of an OpenPGP request is out, the queue holds just   *)
(* the stages that are to follow, and those that are over established what *)
(* the next rely on: the applet is not terminated, the key's algorithm is  *)
(* the one the metadata gave and is supported, the password the request    *)
(* needs is verified, the certificate named is selected (OpenPgp::next and *)
(* its queue).                                                             *)
THEOREM PgpInvariant == PgpSpec => []PgpInv
<1>1. PgpInv /\ [PgpNext]_pgpVars => PgpInv'
  BY PgpStep
<1> QED BY PgpStart, <1>1, PTL DEF PgpSpec

(* An attempt at a password is lost only if the password given is wrong,   *)
(* after the metadata showed that the key request could succeed; and the   *)
(* card never asks for a password that the request was not made to bring,  *)
(* but for a TERMINATE without one (execute's gates and OpenPgp::next).    *)
THEOREM PasswordsAreExplained == PgpSpec => PasswordsExplained
<1>1. PgpInv /\ [PgpNext]_pgpVars => AttemptsExplained
  BY PgpStep
<1>2. PgpInv /\ [PgpNext]_pgpVars => [AttemptsExplained]_pgpVars
  BY <1>1
<1> QED BY PgpInvariant, <1>2, PTL DEF PgpSpec, PasswordsExplained

(* An OpenPGP operation that succeeds has done what it promises, one that  *)
(* is refused changed no password, key, certificate or attribute, and a    *)
(* terminated applet stays as it is until it is activated (OpenPgp::next   *)
(* and OpenPgp::result).                                                   *)
THEOREM OutcomesAreTrue == PgpSpec => OutcomeTrue
<1>1. PgpInv /\ [PgpNext]_pgpVars => OperationTrue
  BY PgpStep
<1>2. PgpInv /\ [PgpNext]_pgpVars => [OperationTrue]_pgpVars
  BY <1>1
<1> QED BY PgpInvariant, <1>2, PTL DEF PgpSpec, OutcomeTrue
=============================================================================
