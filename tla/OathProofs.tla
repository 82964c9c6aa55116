----------------------------- MODULE OathProofs -----------------------------
(***************************************************************************)
(* Proofs about Oath for any applets, requests, keys and response limits,  *)
(* and every firmware version with a known dialect.                        *)
(***************************************************************************)
EXTENDS Oath, WellFoundedInduction, TLAPS

TypeOK ==
  /\ firmware \in {130} \cup 152 .. 303 \cup {310} /\ genuine \in BOOLEAN
  /\ ValidCard(card) /\ ValidCard(before)
  /\ phase \in {"Idle", "Select", "Validate", "Target"}
  /\ access \in Keys \cup {Absent} /\ limit \in Nat /\ unlocked \in BOOLEAN

(* A running operation was accepted and has not touched the applet; only   *)
(* requests with a command of their own reach their target.                *)
Running ==
  /\ phase # "Idle" =>
       /\ ValidRequest(request) /\ Accepted(request, access, limit)
       /\ card = before /\ outcome = "none"
  /\ phase = "Validate" => access # Absent
  /\ phase = "Target" => request.kind \notin {"Select", "Validate"}

(* The legacy applet has no access key.                                    *)
Keyless == OathLegacy => card.key = Absent

IInv == TypeOK /\ Running /\ Keyless /\ AccessMatches /\ OutcomeTrue
-----------------------------------------------------------------------------
(* Dialects                                                                *)

(* The meaning of a request without format, slot and keystroke.            *)
LEMMA PlainIntent ==
  ASSUME NEW r, r.kind \in Calculations => r.format = "Truncated",
         r.kind = "ChallengeResponseHmac" => r.slot = "Short",
         r.kind = "SetDefault" => r.slot = "Short" /\ ~r.enter
  PROVE  Intent(r) = Plainly(r.kind)
<1>1. (r.kind = "SetDefault" /\ r.enter) = FALSE
  OBVIOUS
<1>2. /\ (IF r.kind \in Calculations THEN r.format ELSE "Truncated") = "Truncated"
      /\ (IF r.kind \in {"SetDefault", "ChallengeResponseHmac"} THEN r.slot ELSE "Short") = "Short"
  OBVIOUS
<1> QED BY <1>1, <1>2 DEF Intent, Plainly

(* In the legacy dialect the applet decodes what was meant.                *)
LEMMA LegacyIntent ==
  ASSUME firmware = 130, limit \in Nat, NEW r, ValidRequest(r), NEW a, NEW max,
         Accepted(r, a, max), r.kind \notin {"Select", "Validate"}
  PROVE  Decode(target(r)) = Intent(r)
<1> USE DEF OathLegacy, OathModern, OathFullResponse, OathSetDefaultSlots,
        OathChallengeResponse, legacy_explicit_le
<1>0. r.kind \in {"List", "Put", "Delete", "Calculate", "CalculateAll", "SetDefault"}
  BY DEF ValidRequest, Accepted, Vendor, Paged, Named
<1>1. Smaller(255, limit - 2) # Absent /\ 256 # Absent
  BY OathAssumption DEF Smaller
<1>2. CASE r.kind = "List"
  <2>1. target(r) = [Frame(3, 0, 0, 255) EXCEPT !.le = Smaller(255, limit - 2)]
    BY <1>2 DEF target
  <2>2. target(r).ins = 3 /\ target(r).le # Absent
    BY <1>1, <2>1 DEF Frame
  <2>7. Decode(target(r)) = Plainly(r.kind)
    BY <1>2, <2>2 DEF Decode, DecodeLegacy
  <2> QED BY <1>2, <2>2, <2>7, PlainIntent DEF Calculations
<1>3. CASE r.kind = "Put"
  <2> DEFINE p == IF ~r.cred.increasing /\ ~r.cred.touch THEN "None" ELSE "Tlv"
  <2>1. target(r) = [Frame(1, 0, 0, Absent) EXCEPT !.property = p]
    BY <1>3 DEF target
  <2>2. target(r).ins = 1 /\ target(r).le = 256 /\ target(r).property # "TagValue"
    BY <2>1 DEF Frame
  <2>7. Decode(target(r)) = Plainly(r.kind)
    BY <1>1, <1>3, <2>2 DEF Decode, DecodeLegacy
  <2> QED BY <1>1, <1>3, <2>2, <2>7, PlainIntent DEF Calculations
<1>4. CASE r.kind = "Delete"
  <2>1. target(r) = Frame(2, 0, 0, Absent)
    BY <1>4 DEF target
  <2>2. target(r).ins = 2 /\ target(r).le = 256
    BY <2>1 DEF Frame
  <2>7. Decode(target(r)) = Plainly(r.kind)
    BY <1>1, <1>4, <2>2 DEF Decode, DecodeLegacy
  <2> QED BY <1>1, <1>4, <2>2, <2>7, PlainIntent DEF Calculations
<1>5. CASE r.kind = "Calculate"
  <2>1. target(r) = Frame(4, 0, FormatByte(r), Absent)
    BY <1>5 DEF target
  <2>2. target(r).ins = 4 /\ target(r).le = 256
    BY <2>1 DEF Frame
  <2>3. r.format = "Truncated"
    BY <1>5 DEF Accepted, ValidRequest, Calculations
  <2>7. Decode(target(r)) = Plainly(r.kind)
    BY <1>1, <1>5, <2>2, <2>3 DEF Decode, DecodeLegacy
  <2> QED BY <1>1, <1>5, <2>2, <2>3, <2>7, PlainIntent DEF Calculations
<1>6. CASE r.kind = "CalculateAll"
  <2>1. target(r) = [Frame(5, 0, FormatByte(r), 255) EXCEPT !.le = Smaller(255, limit - 2)]
    BY <1>6 DEF target
  <2>2. target(r).ins = 5 /\ target(r).le # Absent
    BY <1>1, <2>1 DEF Frame
  <2>3. r.format = "Truncated"
    BY <1>6 DEF Accepted, ValidRequest, Calculations
  <2>7. Decode(target(r)) = Plainly(r.kind)
    BY <1>6, <2>2, <2>3 DEF Decode, DecodeLegacy
  <2> QED BY <1>6, <2>2, <2>3, <2>7, PlainIntent DEF Calculations
<1>7. CASE r.kind = "SetDefault"
  <2>1. target(r) = Frame(85, 0, 0, Absent)
    BY <1>7 DEF target
  <2>2. target(r).ins = 85 /\ target(r).le = 256 /\ target(r).p1 = 0 /\ target(r).p2 = 0
    BY <2>1 DEF Frame
  <2>3. r.slot = "Short" /\ ~r.enter
    BY <1>7 DEF Accepted
  <2>7. Decode(target(r)) = Plainly(r.kind)
    BY <1>1, <1>7, <2>2, <2>3 DEF Decode, DecodeLegacy
  <2> QED BY <1>1, <1>7, <2>2, <2>3, <2>7, PlainIntent DEF Calculations
<1> QED BY <1>0, <1>2, <1>3, <1>4, <1>5, <1>6, <1>7

(* HMAC challenge-response is a PUT with the slot in P1.                   *)
LEMMA HmacDecoded ==
  ASSUME NEW c, c.ins = 1, NEW s \in {"Short", "Long"},
         c.p1 = (IF s = "Short" THEN 48 ELSE 56), firmware = 310
  PROVE  DecodeModern(c) = Does("ChallengeResponseHmac", "Truncated", s, FALSE)
<1>1. CASE s = "Short" /\ c.p1 = 48
  BY <1>1 DEF DecodeModern, OathChallengeResponse
<1>2. CASE s = "Long" /\ c.p1 = 56
  BY <1>2 DEF DecodeModern, OathChallengeResponse
<1> QED BY <1>1, <1>2

(* In the modern dialects the applet decodes what was meant.               *)
LEMMA ModernIntent ==
  ASSUME firmware \in 152 .. 303 \cup {310}, limit \in Nat, NEW r, ValidRequest(r), NEW a, NEW max,
         Accepted(r, a, max), r.kind \notin {"Select", "Validate"}
  PROVE  Decode(target(r)) = Intent(r)
<1> USE DEF OathLegacy, OathModern, OathFullResponse, OathSetDefaultSlots,
        OathChallengeResponse, legacy_explicit_le
<1>0. r.kind \in {"List", "Put", "Delete", "Rename", "Calculate", "CalculateAll", "SetCode",
                  "ClearCode", "SetDefault", "GetSerial", "ChallengeResponseHmac"}
  BY DEF ValidRequest, Vendor, Paged, Named
<1>1. Smaller(255, limit - 2) # Absent /\ 256 # Absent
  BY OathAssumption DEF Smaller
<1>d. ASSUME legacy_explicit_le => target(r).le # Absent
      PROVE  Decode(target(r)) = DecodeModern(target(r))
  BY <1>d DEF Decode
<1>2. CASE r.kind = "List"
  <2>1. target(r) = [Frame(161, 0, 0, 255) EXCEPT !.le = Smaller(255, limit - 2)]
    BY <1>2 DEF target
  <2>2. target(r).ins = 161 /\ target(r).le # Absent
    BY <1>1, <2>1 DEF Frame
  <2>3. DecodeModern(target(r)) = Plainly(r.kind)
    BY <1>2, <2>2 DEF DecodeModern
  <2> QED BY <1>d, <1>2, <2>2, <2>3, PlainIntent DEF Calculations
<1>3. CASE r.kind = "Put"
  <2> DEFINE p == IF ~r.cred.increasing /\ ~r.cred.touch THEN "None" ELSE "TagValue"
  <2>1. target(r) = [Frame(1, 0, 0, Absent) EXCEPT !.property = p]
    BY <1>3 DEF target
  <2>2. /\ target(r).ins = 1 /\ target(r).p1 = 0 /\ target(r).property # "Tlv"
        /\ legacy_explicit_le => target(r).le = 256
    BY <2>1 DEF Frame
  <2>3. DecodeModern(target(r)) = Plainly(r.kind)
    BY <1>3, <2>2 DEF DecodeModern
  <2> QED BY <1>d, <1>1, <1>3, <2>2, <2>3, PlainIntent DEF Calculations
<1>4. CASE r.kind = "Delete"
  <2>1. target(r) = Frame(2, 0, 0, Absent)
    BY <1>4 DEF target
  <2>2. target(r).ins = 2 /\ (legacy_explicit_le => target(r).le = 256)
    BY <2>1 DEF Frame
  <2>3. DecodeModern(target(r)) = Plainly(r.kind)
    BY <1>4, <2>2 DEF DecodeModern
  <2> QED BY <1>d, <1>1, <1>4, <2>2, <2>3, PlainIntent DEF Calculations
<1>5. CASE r.kind = "Rename"
  <2>1. target(r) = Frame(5, 0, 0, Absent)
    BY <1>5 DEF target
  <2>2. target(r).ins = 5 /\ (legacy_explicit_le => target(r).le = 256)
    BY <2>1 DEF Frame
  <2>3. DecodeModern(target(r)) = Plainly(r.kind)
    BY <1>5, <2>2 DEF DecodeModern
  <2> QED BY <1>d, <1>1, <1>5, <2>2, <2>3, PlainIntent DEF Calculations
<1>6. CASE r.kind \in {"SetCode", "ClearCode"}
  <2>1. target(r) = [Frame(3, 0, 0, Absent) EXCEPT !.key = r.key]
    BY <1>6 DEF target
  <2>2. target(r).ins = 3 /\ target(r).key = r.key /\ (legacy_explicit_le => target(r).le = 256)
    BY <2>1 DEF Frame
  <2>3. r.key = Absent <=> r.kind = "ClearCode"
    BY <1>6, OathAssumption DEF ValidRequest
  <2>4. DecodeModern(target(r)) = Plainly(r.kind)
    BY <1>6, <2>2, <2>3 DEF DecodeModern
  <2> QED BY <1>d, <1>1, <1>6, <2>2, <2>4, PlainIntent DEF Calculations
<1>f. ASSUME r.kind \in Calculations, target(r).p2 = FormatByte(r)
      PROVE  Formatted(r.kind, target(r)) = Intent(r)
  <2>1. (IF OathFullResponse /\ target(r).p2 = 0 THEN "Full" ELSE "Truncated") = r.format
    BY <1>f DEF FormatByte, Accepted, ValidRequest
  <2>2. /\ (r.kind = "SetDefault" /\ r.enter) = FALSE
        /\ (IF r.kind \in {"SetDefault", "ChallengeResponseHmac"} THEN r.slot ELSE "Short") = "Short"
    BY <1>f DEF Calculations
  <2>3. (IF r.kind \in Calculations THEN r.format ELSE "Truncated") = r.format
    BY <1>f
  <2> QED BY <2>1, <2>2, <2>3 DEF Formatted, Intent
<1>7. CASE r.kind = "Calculate"
  <2>1. target(r) = Frame(162, 0, FormatByte(r), Absent)
    BY <1>7 DEF target
  <2>2. /\ target(r).ins = 162 /\ target(r).p2 = FormatByte(r)
        /\ legacy_explicit_le => target(r).le = 256
    BY <2>1 DEF Frame
  <2>3. DecodeModern(target(r)) = Formatted(r.kind, target(r))
    BY <1>7, <2>2 DEF DecodeModern
  <2> QED BY <1>d, <1>f, <1>1, <1>7, <2>2, <2>3 DEF Calculations
<1>8. CASE r.kind = "CalculateAll"
  <2>1. target(r) = [Frame(164, 0, FormatByte(r), 255) EXCEPT !.le = Smaller(255, limit - 2)]
    BY <1>8 DEF target
  <2>2. /\ target(r).ins = 164 /\ target(r).p1 = 0 /\ target(r).p2 = FormatByte(r)
        /\ target(r).le # Absent
    BY <1>1, <2>1 DEF Frame
  <2>3. DecodeModern(target(r)) = Formatted(r.kind, target(r))
    BY <1>8, <2>2 DEF DecodeModern
  <2> QED BY <1>d, <1>f, <1>8, <2>2, <2>3 DEF Calculations
<1>9. CASE r.kind = "GetSerial"
  <2>1. target(r) = Frame(1, 16, 0, Absent) /\ OathChallengeResponse
    BY <1>9 DEF target, Accepted, Vendor
  <2>2. target(r).ins = 1 /\ target(r).p1 = 16 /\ ~legacy_explicit_le
    BY <2>1 DEF Frame
  <2>3. DecodeModern(target(r)) = Plainly(r.kind)
    <3> DEFINE c == target(r)
    <3>1. c.ins = 1 /\ c.p1 = 16 /\ OathChallengeResponse
      BY <2>1, <2>2
    <3> HIDE DEF c
    <3>2. DecodeModern(c) = Plainly("GetSerial")
      BY <3>1 DEF DecodeModern
    <3> QED BY <1>9, <3>2 DEF c
  <2> QED BY <1>d, <1>9, <2>2, <2>3, PlainIntent DEF Calculations
<1>10. CASE r.kind = "ChallengeResponseHmac"
  <2> DEFINE p1 == IF r.slot = "Short" THEN 48 ELSE 56
  <2>1. target(r) = Frame(1, p1, 0, Absent) /\ OathChallengeResponse
    BY <1>10 DEF target, Accepted, Vendor
  <2>2. target(r).ins = 1 /\ target(r).p1 = p1 /\ ~legacy_explicit_le
    BY <2>1 DEF Frame
  <2>3. DecodeModern(target(r)) = Does("ChallengeResponseHmac", "Truncated", r.slot, FALSE)
    <3>1. target(r).ins = 1 /\ target(r).p1 = p1 /\ firmware = 310
      BY <2>1, <2>2
    <3>2. r.slot \in {"Short", "Long"}
      BY DEF ValidRequest, Slots
    <3> QED BY ONLY <3>1, <3>2, HmacDecoded
  <2>5. (r.kind = "SetDefault" /\ r.enter) = FALSE
    BY <1>10
  <2>6. Intent(r) = Does("ChallengeResponseHmac", "Truncated", r.slot, FALSE)
    BY <1>10, <2>5 DEF Intent, Calculations
  <2>7. Decode(target(r)) = DecodeModern(target(r))
    BY <1>d, <2>2
  <2> QED BY <2>3, <2>6, <2>7
<1>11. CASE r.kind = "SetDefault" /\ ~OathSetDefaultSlots
  <2>1. target(r) = Frame(85, 0, 0, Absent)
    BY <1>11 DEF target
  <2>2. /\ target(r).ins = 85 /\ target(r).p1 = 0 /\ target(r).p2 = 0
        /\ legacy_explicit_le => target(r).le = 256
    BY <2>1 DEF Frame
  <2>3. r.slot = "Short" /\ ~r.enter
    BY <1>11 DEF Accepted
  <2>4. DecodeModern(target(r)) = Plainly(r.kind)
    BY <1>11, <2>2 DEF DecodeModern
  <2> QED BY <1>d, <1>1, <1>11, <2>2, <2>3, <2>4, PlainIntent DEF Calculations
<1>12. CASE r.kind = "SetDefault" /\ OathSetDefaultSlots
  <2> DEFINE p1 == IF r.slot = "Short" THEN 1 ELSE 2
             p2 == IF r.enter THEN 1 ELSE 0
  <2>1. target(r) = Frame(85, p1, p2, Absent)
    BY <1>12 DEF target
  <2>2. /\ target(r).ins = 85 /\ target(r).p1 = p1 /\ target(r).p2 = p2
        /\ legacy_explicit_le => target(r).le = 256
    BY <2>1 DEF Frame
  <2>3. DecodeModern(target(r)) =
          Does("SetDefault", "Truncated", IF target(r).p1 = 1 THEN "Short" ELSE "Long",
               target(r).p2 = 1)
    BY <1>12, <2>2 DEF DecodeModern
  <2>4. (IF target(r).p1 = 1 THEN "Short" ELSE "Long") = r.slot
    BY <2>2 DEF ValidRequest, Slots
  <2>5. target(r).p2 = 1 <=> (r.kind = "SetDefault" /\ r.enter)
    BY <1>12, <2>2
  <2>6. (target(r).p2 = 1) = (r.kind = "SetDefault" /\ r.enter)
    BY <2>5
  <2>7. Intent(r) = Does("SetDefault", "Truncated", r.slot, target(r).p2 = 1)
    BY <1>12, <2>6 DEF Intent, Calculations
  <2> QED BY <1>d, <1>1, <2>2, <2>3, <2>4, <2>7
<1> QED BY <1>0, <1>2, <1>3, <1>4, <1>5, <1>6, <1>7, <1>8, <1>9, <1>10, <1>11, <1>12
-----------------------------------------------------------------------------
(* The entries of a listing                                                *)

(* A set of naturals has a least member: induction, where a leaf needs it. *)
LEMMA LeastMember ==
  ASSUME NEW T \in SUBSET Nat, T # {}
  PROVE  \E x \in T : \A y \in T : x <= y
<1> DEFINE R == {p \in Nat \X Nat : p[1] < p[2]}
<1>1. IsWellFoundedOn(R, Nat)
  <2>1. OpToRel(<, Nat) = R
    BY DEF OpToRel
  <2> QED BY <2>1, NatLessThanWellFounded
<1>2. PICK x \in T : \A y \in T : ~(<<y, x>> \in R)
  <2> HIDE DEF R
  <2> QED BY <1>1, WFMin
<1>3. ASSUME NEW y \in T PROVE x <= y
  <2>1. ~(<<y, x>> \in R)
    BY <1>2
  <2>2. ~(y < x)
    BY <2>1
  <2> QED BY <2>2
<1> QED BY <1>3

Part(f, i) == IF Names[i] \in DOMAIN f THEN f[Names[i]] ELSE <<>>

AreParts(g, f, S, n) ==
  /\ g \in [0 .. n -> Seq(S)]
  /\ g[0] = <<>>
  /\ \A i \in 1 .. n : g[i] = g[i - 1] \o Part(f, i)

(* The partial listings exist up to every name.                            *)
LEMMA PartsExist ==
  ASSUME NEW f, NEW S, \A x \in DOMAIN f : f[x] \in Seq(S), NEW n \in 0 .. Len(Names)
  PROVE  \E g : AreParts(g, f, S, n)
<1> DEFINE T == {m \in 0 .. Len(Names) : ~ \E g : AreParts(g, f, S, m)}
<1>0. Len(Names) \in Nat
  BY OathAssumption
<1>1. SUFFICES ASSUME T # {} PROVE FALSE
  OBVIOUS
<1>2. PICK m \in T : \A y \in T : m <= y
  <2> T \in SUBSET Nat
    BY <1>0
  <2> HIDE DEF T
  <2> QED BY <1>1, LeastMember
<1>3. m \in 1 .. Len(Names)
  <2>1. AreParts([i \in 0 .. 0 |-> <<>>], f, S, 0)
    BY DEF AreParts
  <2> QED BY <1>0, <2>1
<1>4. m - 1 \in 0 .. Len(Names) /\ m - 1 \notin T
  <2>1. m - 1 \in 0 .. Len(Names) /\ ~(m <= m - 1)
    BY <1>0, <1>3
  <2> HIDE DEF T
  <2> QED BY <1>2, <2>1
<1>5. PICK g : AreParts(g, f, S, m - 1)
  BY <1>4
<1> DEFINE p == Part(f, m)
           last == g[m - 1] \o p
           h == [i \in 0 .. m |-> IF i = m THEN last ELSE g[i]]
<1> HIDE DEF T
<1>6. p \in Seq(S)
  BY DEF Part
<1>7. g \in [0 .. m - 1 -> Seq(S)] /\ g[0] = <<>> /\ m \in Nat /\ m >= 1
  BY <1>0, <1>3, <1>5 DEF AreParts
<1>8. last \in Seq(S)
  <2> HIDE DEF p
  <2>1. g[m - 1] \in Seq(S)
    BY <1>7
  <2> QED BY <1>6, <2>1
<1> HIDE DEF last, p
<1>9. h \in [0 .. m -> Seq(S)] /\ h[0] = <<>>
  BY <1>7, <1>8
<1>10. ASSUME NEW i \in 1 .. m PROVE h[i] = h[i - 1] \o Part(f, i)
  <2>1. CASE i = m
    <3>1. h[i] = last /\ h[i - 1] = g[m - 1]
      BY <1>7, <2>1
    <3> QED BY <2>1, <3>1 DEF last, p
  <2>2. CASE i # m
    <3>1. h[i] = g[i] /\ h[i - 1] = g[i - 1] /\ i \in 1 .. m - 1
      BY <1>7, <2>2
    <3> QED BY <1>5, <3>1 DEF AreParts
  <2> QED BY <2>1, <2>2
<1>11. AreParts(h, f, S, m)
  <2> HIDE DEF h
  <2> QED BY <1>9, <1>10 DEF AreParts
<1> QED BY <1>2, <1>11 DEF T

(* What the listing is at 0 and how it grows.                              *)
LEMMA PartsUnfold ==
  ASSUME NEW f, NEW S, \A x \in DOMAIN f : f[x] \in Seq(S)
  PROVE  AreParts(Gathered(f), f, S, Len(Names))
<1> DEFINE body(s) == [i \in 0 .. Len(Names) |-> IF i = 0 THEN <<>> ELSE s[i - 1] \o Part(f, i)]
<1>0. Len(Names) \in Nat
  BY OathAssumption
<1>1. PICK g : AreParts(g, f, S, Len(Names))
  <2>1. Len(Names) \in 0 .. Len(Names)
    BY <1>0
  <2> QED BY <2>1, PartsExist, Zenon
<1>2. g = body(g)
  <2>1. g = [i \in 0 .. Len(Names) |-> g[i]]
    BY <1>1 DEF AreParts
  <2>2. \A i \in 0 .. Len(Names) : g[i] = IF i = 0 THEN <<>> ELSE g[i - 1] \o Part(f, i)
    <3>1. SUFFICES ASSUME NEW i \in 0 .. Len(Names), i # 0
                   PROVE  g[i] = g[i - 1] \o Part(f, i)
      BY <1>1 DEF AreParts
    <3>2. i \in 1 .. Len(Names)
      BY <1>0, <3>1
    <3> QED BY <1>1, <3>2 DEF AreParts
  <2> DEFINE h(i) == IF i = 0 THEN <<>> ELSE g[i - 1] \o Part(f, i)
  <2>3. \A i \in 0 .. Len(Names) : g[i] = h(i)
    BY <2>2
  <2> HIDE DEF h
  <2>4. g = [i \in 0 .. Len(Names) |-> h(i)]
    BY <2>1, <2>3
  <2> QED BY <2>4 DEF h
<1>3. Gathered(f) = CHOOSE s : s = body(s)
  BY DEF Gathered, Part
<1>4. Gathered(f) = body(Gathered(f))
  <2> HIDE DEF body
  <2> QED BY <1>2, <1>3
<1> DEFINE s == Gathered(f)
<1> HIDE DEF s
<1>5. s = body(s)
  BY <1>4 DEF s
<1>6. s[0] = <<>> /\ \A i \in 1 .. Len(Names) : s[i] = s[i - 1] \o Part(f, i)
  <2> DEFINE h(i) == IF i = 0 THEN <<>> ELSE s[i - 1] \o Part(f, i)
  <2>1. s = [i \in 0 .. Len(Names) |-> h(i)]
    BY <1>5
  <2> HIDE DEF h
  <2>2. \A i \in 0 .. Len(Names) : s[i] = h(i)
    BY <2>1
  <2>3. s[0] = h(0)
    BY <1>0, <2>2
  <2>4. s[0] = <<>>
    BY <2>3 DEF h
  <2>5. ASSUME NEW i \in 1 .. Len(Names) PROVE s[i] = s[i - 1] \o Part(f, i)
    <3>1. s[i] = h(i) /\ i # 0
      BY <1>0, <2>2
    <3> QED BY <3>1 DEF h
  <2> QED BY <2>4, <2>5
<1>7. \A i \in 0 .. Len(Names) : s[i] \in Seq(S)
  <2> DEFINE T == {m \in 0 .. Len(Names) : s[m] \notin Seq(S)}
  <2>1. SUFFICES ASSUME T # {} PROVE FALSE
    OBVIOUS
  <2>2. PICK m \in T : \A y \in T : m <= y
    <3> T \in SUBSET Nat
      BY <1>0
    <3> HIDE DEF T
    <3> QED BY <2>1, LeastMember
  <2>3. m \in 1 .. Len(Names) /\ s[m] \notin Seq(S)
    <3>1. s[0] \in Seq(S)
      BY <1>6
    <3>2. m \in 0 .. Len(Names) /\ s[m] \notin Seq(S) /\ m # 0
      BY <2>2, <3>1
    <3> QED BY <1>0, <3>2
  <2>4. m - 1 \notin T /\ m - 1 \in 0 .. Len(Names)
    <3> HIDE DEF T
    <3> QED BY <1>0, <2>2, <2>3
  <2>5. s[m - 1] \in Seq(S)
    BY <2>4
  <2> DEFINE p == Part(f, m)
             q == s[m - 1]
  <2>6. p \in Seq(S)
    BY DEF Part
  <2>7. s[m] = q \o p
    BY <1>6, <2>3
  <2> HIDE DEF p, q
  <2>8. q \in Seq(S)
    BY <2>5 DEF q
  <2>9. q \o p \in Seq(S)
    BY <2>6, <2>8
  <2> QED BY <2>3, <2>7, <2>9
<1>8. s \in [0 .. Len(Names) -> Seq(S)]
  <2>1. s = [i \in 0 .. Len(Names) |-> s[i]]
    <3> DEFINE h(i) == IF i = 0 THEN <<>> ELSE s[i - 1] \o Part(f, i)
    <3>1. s = [i \in 0 .. Len(Names) |-> h(i)]
      BY <1>5
    <3> HIDE DEF h
    <3> QED BY <3>1
  <2> QED BY <1>7, <2>1
<1> QED BY <1>6, <1>8 DEF AreParts, s

(* A listing holds the entries of its names and no others.                 *)
LEMMA EntriesOf ==
  ASSUME NEW f, NEW S, \A x \in DOMAIN f : f[x] \in Seq(S), DOMAIN f \subseteq NameSet
  PROVE  /\ Entries(f) \in Seq(S)
         /\ \A x \in DOMAIN f : \A j \in 1 .. Len(f[x]) :
              \E k \in 1 .. Len(Entries(f)) : Entries(f)[k] = f[x][j]
<1> DEFINE g == Gathered(f)
           In(i, m) == \A j \in 1 .. Len(Part(f, i)) :
                         \E k \in 1 .. Len(g[m]) : g[m][k] = Part(f, i)[j]
<1>0. Len(Names) \in Nat
  BY OathAssumption
<1>1. AreParts(g, f, S, Len(Names))
  BY PartsUnfold
<1>2. \A i : Part(f, i) \in Seq(S)
  BY DEF Part
<1> HIDE DEF g
<1>3. \A m \in 0 .. Len(Names) : \A i \in 1 .. m : In(i, m)
  <2> DEFINE T == {m \in 0 .. Len(Names) : ~ \A i \in 1 .. m : In(i, m)}
  <2>1. SUFFICES ASSUME T # {} PROVE FALSE
    OBVIOUS
  <2>2. PICK m \in T : \A y \in T : m <= y
    <3> T \in SUBSET Nat
      BY <1>0
    <3> HIDE DEF T
    <3> QED BY <2>1, LeastMember
  <2>3. PICK i \in 1 .. m : ~In(i, m)
    BY <2>2
  <2>4. m \in 1 .. Len(Names)
    BY <1>0, <2>2, <2>3
  <2>5. m - 1 \notin T /\ m - 1 \in 0 .. Len(Names)
    <3>1. m - 1 \in 0 .. Len(Names) /\ ~(m <= m - 1)
      BY <1>0, <2>4
    <3> HIDE DEF T
    <3> QED BY <2>2, <3>1
  <2>6. \A x \in 1 .. m - 1 : In(x, m - 1)
    BY <2>5
  <2> HIDE DEF T
  <2>7. g[m - 1] \in Seq(S) /\ g[m] = g[m - 1] \o Part(f, m)
    BY <1>1, <2>4, <2>5 DEF AreParts
  <2> DEFINE a == g[m - 1]
             b == Part(f, m)
             c == g[m]
  <2>8. a \in Seq(S) /\ b \in Seq(S) /\ c = a \o b
    BY <1>2, <2>7
  <2>9. In(i, m)
    <3>1. CASE i = m
      <4>1. SUFFICES ASSUME NEW j \in 1 .. Len(b)
                     PROVE  \E k \in 1 .. Len(c) : c[k] = b[j]
        BY <3>1
      <4> HIDE DEF a, b, c
      <4>2. Len(a) + j \in 1 .. Len(c) /\ c[Len(a) + j] = b[j]
        BY <2>8
      <4> QED BY <4>2
    <3>2. CASE i # m
      <4>1. In(i, m - 1)
        BY <2>3, <2>4, <2>6, <3>2
      <4>2. SUFFICES ASSUME NEW j \in 1 .. Len(Part(f, i))
                     PROVE  \E k \in 1 .. Len(c) : c[k] = Part(f, i)[j]
        OBVIOUS
      <4>3. PICK k \in 1 .. Len(a) : a[k] = Part(f, i)[j]
        BY <4>1
      <4> HIDE DEF a, b, c
      <4>4. k \in 1 .. Len(c) /\ c[k] = a[k]
        BY <2>8
      <4> QED BY <4>3, <4>4
    <3> QED BY <3>1, <3>2
  <2> QED BY <2>3, <2>9
<1>4. Entries(f) = g[Len(Names)] /\ g[Len(Names)] \in Seq(S)
  BY <1>0, <1>1 DEF Entries, AreParts, g
<1>5. ASSUME NEW x \in DOMAIN f, NEW j \in 1 .. Len(f[x])
      PROVE  \E k \in 1 .. Len(Entries(f)) : Entries(f)[k] = f[x][j]
  <2>1. PICK i \in 1 .. Len(Names) : Names[i] = x
    BY DEF NameSet
  <2>2. Part(f, i) = f[x]
    BY <2>1 DEF Part
  <2>3. In(i, Len(Names))
    BY <1>0, <1>3
  <2> QED BY <1>4, <2>2, <2>3
<1> QED BY <1>4, <1>5
-----------------------------------------------------------------------------
(* The applet after a command                                              *)

(* CounterOnce, CodesTrue and the names listed, of a response that is not  *)
(* yet applied.                                                            *)
CountersKept(c, r) ==
  \A n \in DOMAIN c.accounts \cap Stored :
    card.accounts[n].kind = "Hotp" /\ c.accounts[n] # card.accounts[n] /\ r.kind # "Rename" =>
      /\ r.kind = "Calculate" /\ n = r.name
      /\ c.accounts[n] = [card.accounts[n] EXCEPT !.last = @ + 1]

CodeTrue(e, c, r) ==
  e.code # Absent =>
    LET n == e.code[1]
        factor == e.code[2]
        a == card.accounts[n] IN
    /\ n \in Stored
    /\ factor = (IF a.kind = "Hotp" THEN a.last + 1 ELSE r.challenge)
    /\ e.len = (IF r.format = "Full" THEN Length(a.alg) ELSE 4)
    /\ r.kind = "Calculate" =>
         /\ n = r.name
         /\ a.kind = "Hotp" => c.accounts[n].last = factor
         /\ r.format = "Full" => r.alg = a.alg

NamesIn(data) == {data[i].name : i \in 1 .. Len(data)} \ {Absent}

ListsTruly(data) ==
  /\ NamesIn(data) \subseteq Stored
  /\ OathReliablePagination => NamesIn(data) = Stored

Sound(resp, r) ==
  /\ ValidCard(resp.card)
  /\ OathLegacy => resp.card.key = Absent
  /\ CountersKept(resp.card, r)
  /\ resp.sw = "9000" /\ WellFormed(r, resp.data) /\ r.kind \in Calculations =>
       \A i \in 1 .. Len(resp.data) : CodeTrue(resp.data[i], resp.card, r)
  /\ resp.sw = "9000" /\ r.kind \in Paged =>
       ListsTruly(resp.data) /\ DOMAIN resp.card.accounts = Stored
  /\ resp.sw = "9000" /\ r.kind \in {"SetCode", "ClearCode"} => resp.card.key = r.key
  /\ resp.sw \in {"6984", "6a82"} =>
       resp.card = card /\ (r.kind \in Named => r.name \notin Stored)

(* The applet with other accounts.                                         *)
LEMMA AccountsReplaced ==
  ASSUME ValidCard(card), NEW f, ValidAccounts(f), NEW c, c = [card EXCEPT !.accounts = f]
  PROVE  ValidCard(c) /\ c.key = card.key /\ c.accounts = f /\ c.slots = card.slots
<1>1. /\ card = [key |-> card.key, accounts |-> card.accounts, slots |-> card.slots,
                 hmac |-> card.hmac]
      /\ card.key \in Keys \cup {Absent} /\ card.hmac \subseteq Slots
      /\ card.slots \in [Slots -> NameSet \cup {Absent}]
  BY DEF ValidCard
<1>2. c = [key |-> card.key, accounts |-> f, slots |-> card.slots, hmac |-> card.hmac]
  BY <1>1
<1> QED BY <1>1, <1>2 DEF ValidCard

(* The applet with other default slots.                                    *)
LEMMA SlotsReplaced ==
  ASSUME NEW b, ValidCard(b), NEW s \in [Slots -> NameSet \cup {Absent}],
         NEW c, c = [b EXCEPT !.slots = s]
  PROVE  ValidCard(c) /\ c.key = b.key /\ c.accounts = b.accounts
<1>1. /\ b = [key |-> b.key, accounts |-> b.accounts, slots |-> b.slots, hmac |-> b.hmac]
      /\ b.key \in Keys \cup {Absent} /\ b.hmac \subseteq Slots /\ ValidAccounts(b.accounts)
  BY DEF ValidCard
<1>2. c = [key |-> b.key, accounts |-> b.accounts, slots |-> s, hmac |-> b.hmac]
  BY <1>1
<1> QED BY <1>1, <1>2 DEF ValidCard

(* The applet with another key.                                            *)
LEMMA KeyReplaced ==
  ASSUME ValidCard(card), NEW k \in Keys \cup {Absent}, NEW c, c = [card EXCEPT !.key = k]
  PROVE  ValidCard(c) /\ c.key = k /\ c.accounts = card.accounts
<1>1. /\ card = [key |-> card.key, accounts |-> card.accounts, slots |-> card.slots,
                 hmac |-> card.hmac]
      /\ card.hmac \subseteq Slots /\ ValidAccounts(card.accounts)
      /\ card.slots \in [Slots -> NameSet \cup {Absent}]
  BY DEF ValidCard
<1>2. c = [key |-> k, accounts |-> card.accounts, slots |-> card.slots, hmac |-> card.hmac]
  BY <1>1
<1> QED BY <1>1, <1>2 DEF ValidCard

(* The moment of a calculation, where one is given, is a number.           *)
LEMMA Moment ==
  ASSUME NEW r, ValidRequest(r)
  PROVE  /\ r.kind = "Calculate" /\ r.challenge # Absent => r.challenge \in Nat
         /\ r.kind = "CalculateAll" => r.challenge \in Nat
<1>1. Times \subseteq Nat
  BY OathAssumption
<1>2. /\ r.kind = "Calculate" => r.challenge \in Times \cup {Absent}
      /\ r.kind = "CalculateAll" => r.challenge \in Times
  BY DEF ValidRequest
<1> QED BY <1>1, <1>2

(* Accounts may be taken out, and valid ones put in.                       *)
LEMMA WithoutValid ==
  ASSUME NEW f, ValidAccounts(f), NEW x
  PROVE  /\ ValidAccounts(Without(f, x)) /\ DOMAIN Without(f, x) = DOMAIN f \ {x}
         /\ \A n \in DOMAIN f \ {x} : Without(f, x)[n] = f[n]
BY DEF ValidAccounts, Without

ValidAccount(v) == v \in AccountType /\ (v.kind = "Hotp" => ~v.increasing)

LEMMA WithValid ==
  ASSUME NEW f, ValidAccounts(f), NEW x \in NameSet, NEW v, ValidAccount(v)
  PROVE  /\ ValidAccounts(With(f, x, v)) /\ DOMAIN With(f, x, v) = DOMAIN f \cup {x}
         /\ With(f, x, v)[x] = v
         /\ \A n \in DOMAIN f \ {x} : With(f, x, v)[n] = f[n]
BY DEF ValidAccounts, ValidAccount, With

(* An answer that changes nothing and reports nothing is sound.            *)
LEMMA StillSound ==
  ASSUME ValidCard(card), Keyless, NEW r, NEW data, NEW sw,
         sw \notin {"9000", "6984", "6a82"}
  PROVE  Sound(Says(sw, data, card), r)
BY DEF Sound, Says, Keyless, CountersKept

(* So is one that reports data of no account.                              *)
LEMMA OtherSound ==
  ASSUME ValidCard(card), Keyless, NEW r, NEW data, NEW sw,
         sw \in {"9000", "6984", "6a82"}, r.kind \notin Calculations \cup Paged,
         r.kind \notin {"SetCode", "ClearCode"}, r.kind \in Named => r.name \notin Stored
  PROVE  Sound(Says(sw, data, card), r)
BY DEF Sound, Says, Keyless, CountersKept

(* Remembering a time changes no counter.                                  *)
LEMMA RememberKeeps ==
  ASSUME ValidCard(card), NEW r, NEW ns \in SUBSET Stored, NEW time \in Nat
  PROVE  /\ ValidCard(Remember(ns, time)) /\ Remember(ns, time).key = card.key
         /\ DOMAIN Remember(ns, time).accounts = Stored
         /\ CountersKept(Remember(ns, time), r)
<1> DEFINE was == card.accounts
           f == [n \in Stored |->
                   IF n \in ns /\ was[n].increasing /\ ~was[n].touch
                   THEN [was[n] EXCEPT !.last = time] ELSE was[n]]
<1>1. ValidAccounts(was) /\ DOMAIN was = Stored
  BY DEF ValidCard, Stored
<1>2. \A n \in Stored : was[n] \in AccountType /\ (was[n].kind = "Hotp" => ~was[n].increasing)
  BY <1>1 DEF ValidAccounts
<1>3. Remember(ns, time) = [card EXCEPT !.accounts = f]
  BY DEF Remember
<1>4. ASSUME NEW n \in Stored
      PROVE  /\ f[n] \in AccountType /\ (f[n].kind = "Hotp" => ~f[n].increasing)
             /\ was[n].kind = "Hotp" => f[n] = was[n]
  <2> DEFINE b == [was[n] EXCEPT !.last = time]
  <2>1. b \in AccountType /\ b.kind = was[n].kind /\ b.increasing = was[n].increasing
    BY <1>2 DEF AccountType
  <2>2. f[n] = b \/ f[n] = was[n]
    OBVIOUS
  <2>3. was[n].kind = "Hotp" => f[n] = was[n]
    BY <1>2
  <2> HIDE DEF f, b
  <2> QED BY <1>2, <2>1, <2>2, <2>3
<1>5. f = [n \in DOMAIN f |-> f[n]] /\ DOMAIN f = Stored
  OBVIOUS
<1> HIDE DEF f
<1>6. ValidAccounts(f)
  BY <1>1, <1>4, <1>5 DEF ValidAccounts
<1> DEFINE c == Remember(ns, time)
<1> HIDE DEF c
<1>7. ValidCard(c) /\ c.key = card.key /\ c.accounts = f
  BY <1>3, <1>6, AccountsReplaced DEF c
<1>8. CountersKept(c, r)
  BY <1>4, <1>7 DEF CountersKept
<1> QED BY <1>5, <1>7, <1>8 DEF c

(* The names of a listing are those of its entries.                        *)
LEMMA ListedTruly ==
  ASSUME ValidCard(card), NEW ns \in Reported, NEW f, DOMAIN f = ns, NEW S,
         \A n \in ns : f[n] \in Seq(S) /\ Len(f[n]) >= 1 /\ f[n][1].name = n,
         \A e \in S : e.name \in ns \cup {Absent}
  PROVE  ListsTruly(Entries(f)) /\ Entries(f) \in Seq(S)
<1> DEFINE data == Entries(f)
<1>1. ns \subseteq Stored /\ (OathReliablePagination => ns = Stored)
  BY DEF Reported
<1>2. Stored \subseteq NameSet
  BY DEF Stored, ValidCard, ValidAccounts
<1>3. /\ data \in Seq(S)
      /\ \A x \in DOMAIN f : \A j \in 1 .. Len(f[x]) :
           \E k \in 1 .. Len(data) : data[k] = f[x][j]
  <2>1. \A x \in DOMAIN f : f[x] \in Seq(S)
    OBVIOUS
  <2>2. DOMAIN f \subseteq NameSet
    BY <1>1, <1>2
  <2>3. /\ Entries(f) \in Seq(S)
        /\ \A x \in DOMAIN f : \A j \in 1 .. Len(f[x]) :
             \E k \in 1 .. Len(Entries(f)) : Entries(f)[k] = f[x][j]
    <3> HIDE DEF data
    <3> QED BY ONLY <2>1, <2>2, EntriesOf
  <2> QED BY <2>3
<1> HIDE DEF data
<1>4. NamesIn(data) \subseteq ns
  <2>1. SUFFICES ASSUME NEW i \in 1 .. Len(data), data[i].name # Absent
                 PROVE  data[i].name \in ns
    BY DEF NamesIn
  <2>2. data[i] \in S
    BY <1>3
  <2> QED BY <2>1, <2>2
<1>5. ns \subseteq NamesIn(data)
  <2>1. SUFFICES ASSUME NEW n \in ns PROVE n \in NamesIn(data)
    OBVIOUS
  <2> DEFINE q == f[n]
  <2>2. 1 \in 1 .. Len(f[n]) /\ f[n][1].name = n
    <3>1. q \in Seq(S) /\ Len(q) >= 1 /\ q[1].name = n
      OBVIOUS
    <3> HIDE DEF q
    <3>2. 1 \in 1 .. Len(q)
      BY <3>1
    <3> QED BY <3>1, <3>2 DEF q
  <2>3. PICK k \in 1 .. Len(data) : data[k] = f[n][1]
    BY <1>3, <2>2
  <2>4. n # Absent
    BY <1>1, <1>2, OathAssumption
  <2> QED BY <2>2, <2>3, <2>4 DEF NamesIn
<1> QED BY <1>1, <1>3, <1>4, <1>5 DEF ListsTruly, data

(* LIST.                                                                   *)
LEMMA ListSound ==
  ASSUME ValidCard(card), Keyless, NEW r, r.kind = "List", NEW ns \in Reported
  PROVE  Sound(Says("9000", Entries([n \in ns |-> Listed(n, card.accounts[n])]), card), r)
<1> DEFINE f == [n \in ns |-> Listed(n, card.accounts[n])]
           S == {e \in {f[n][j] : n \in ns, j \in 1 .. 2} : e.name \in ns \cup {Absent}}
           resp == Says("9000", Entries(f), card)
<1>1. ASSUME NEW n \in ns
      PROVE  f[n] \in Seq(S) /\ Len(f[n]) >= 1 /\ f[n][1].name = n
  <2> DEFINE a == card.accounts[n]
  <2>1. CASE OathLegacy
    <3> DEFINE x == Field(113, n, 0, 1, Absent)
               y == Field(117, Absent, a.digits, 2, Absent)
    <3>1. f[n] = <<x, y>>
      BY <2>1 DEF Listed
    <3>2. x.name = n /\ y.name = Absent
      BY DEF Field
    <3> HIDE DEF x, y, f
    <3>3. f[n][1] = x /\ f[n][2] = y
      BY <3>1
    <3>4. x \in S /\ y \in S
      BY <3>2, <3>3
    <3> HIDE DEF S
    <3> QED BY <3>1, <3>2, <3>3, <3>4
  <2>2. CASE ~OathLegacy
    <3> DEFINE x == Field(114, n, 0, 2, Absent)
    <3>1. f[n] = <<x>>
      BY <2>2 DEF Listed
    <3>2. x.name = n
      BY DEF Field
    <3> HIDE DEF x, f
    <3>3. f[n][1] = x
      BY <3>1
    <3>4. x \in S
      BY <3>2, <3>3
    <3> HIDE DEF S
    <3> QED BY <3>1, <3>2, <3>3, <3>4
  <2> QED BY <2>1, <2>2
<1>2. \A e \in S : e.name \in ns \cup {Absent}
  OBVIOUS
<1>3. DOMAIN f = ns
  OBVIOUS
<1> HIDE DEF f, S
<1>4. ListsTruly(Entries(f))
  BY <1>1, <1>2, <1>3, ListedTruly, Zenon
<1>5. resp.sw = "9000" /\ resp.card = card /\ resp.data = Entries(f)
  BY DEF Says
<1> HIDE DEF resp
<1>6. DOMAIN resp.card.accounts = Stored
  BY <1>5 DEF Stored
<1>7. Sound(resp, r)
  BY <1>4, <1>5, <1>6 DEF Sound, Keyless, CountersKept, Calculations, Named
<1> QED BY <1>7 DEF resp, f

(* CALCULATE ALL reports TOTP codes for the time asked for.                *)
LEMMA CalculatedTrue ==
  ASSUME ValidCard(card), NEW n \in Stored, NEW r, ValidRequest(r), r.kind = "CalculateAll",
         NEW d, d.format = r.format, NEW c
  PROVE  LET f == Calculated(n, card.accounts[n], d, r.challenge) IN
         /\ f = <<f[1], f[2]>> /\ f[1].name = n /\ f[2].name = Absent
         /\ CodeTrue(f[1], c, r) /\ CodeTrue(f[2], c, r)
<1> DEFINE a == card.accounts[n]
           x == Field(113, n, 0, 1, Absent)
           y == CASE a.kind = "Hotp" -> Field(119, Absent, a.digits, 0, Absent)
                  [] a.kind = "Totp" /\ a.touch -> Field(124, Absent, a.digits, 0, Absent)
                  [] OTHER -> CodeField(n, a, d.format, r.challenge)
           f == Calculated(n, a, d, r.challenge)
<1>1. f = <<x, y>>
  BY DEF Calculated
<1>2. x.name = n /\ x.code = Absent
  BY DEF Field
<1>3. a.kind \in {"Hotp", "Totp"}
  BY DEF ValidCard, ValidAccounts, AccountType, Stored
<1>4. \/ y = Field(119, Absent, a.digits, 0, Absent)
      \/ y = Field(124, Absent, a.digits, 0, Absent)
      \/ a.kind = "Totp" /\ y = CodeField(n, a, d.format, r.challenge)
  BY <1>3
<1> HIDE DEF x, y
<1>5. y.name = Absent /\ CodeTrue(y, c, r)
  <2>1. CASE y.code = Absent /\ y.name = Absent
    BY <2>1 DEF CodeTrue
  <2>2. CASE a.kind = "Totp" /\ y = CodeField(n, a, r.format, r.challenge)
    <3>1. /\ y.name = Absent /\ y.code = <<n, r.challenge>>
          /\ y.len = (IF r.format = "Full" THEN Length(a.alg) ELSE 4)
      BY <2>2 DEF CodeField, Field
    <3>2. y.code[1] = n /\ y.code[2] = r.challenge
      BY <3>1
    <3> QED BY <2>2, <3>1, <3>2 DEF CodeTrue
  <2> QED BY <1>4, <2>1, <2>2 DEF Field
<1>6. CodeTrue(x, c, r)
  BY <1>2 DEF CodeTrue
<1> HIDE DEF f
<1>7. f[1] = x /\ f[2] = y
  BY <1>1
<1>8. f = <<f[1], f[2]>>
  BY <1>1, <1>7
<1> QED BY <1>2, <1>5, <1>6, <1>7, <1>8 DEF f

(* CALCULATE ALL.                                                          *)
LEMMA CalculateAllSound ==
  ASSUME ValidCard(card), Keyless, NEW r, ValidRequest(r), r.kind = "CalculateAll",
         NEW d, d.format = r.format, NEW resp \in CardCalculateAll(r, d)
  PROVE  Sound(resp, r)
<1>1. CASE resp = Says("6a80", <<>>, card)
  BY <1>1, StillSound
<1>2. ASSUME NEW ns \in Reported,
             resp = Says("9000",
                         Entries([n \in ns |-> Calculated(n, card.accounts[n], d, r.challenge)]),
                         Remember(Stored, r.challenge))
      PROVE  Sound(resp, r)
  <2> DEFINE f == [n \in ns |-> Calculated(n, card.accounts[n], d, r.challenge)]
             c == Remember(Stored, r.challenge)
             S == {e \in {f[n][j] : n \in ns, j \in 1 .. 2} :
                     e.name \in ns \cup {Absent} /\ CodeTrue(e, c, r)}
  <2>0. ns \subseteq Stored
    BY DEF Reported
  <2>1. ValidCard(c) /\ c.key = card.key /\ DOMAIN c.accounts = Stored /\ CountersKept(c, r)
    <3>1. r.challenge \in Nat /\ Stored \in SUBSET Stored
      BY Moment
    <3> HIDE DEF c
    <3>2. /\ ValidCard(Remember(Stored, r.challenge))
          /\ Remember(Stored, r.challenge).key = card.key
          /\ DOMAIN Remember(Stored, r.challenge).accounts = Stored
          /\ CountersKept(Remember(Stored, r.challenge), r)
      BY <3>1, RememberKeeps
    <3> QED BY <3>2 DEF c
  <2> HIDE DEF c
  <2>2. ASSUME NEW n \in ns
        PROVE  f[n] \in Seq(S) /\ Len(f[n]) >= 1 /\ f[n][1].name = n
    <3> DEFINE q == Calculated(n, card.accounts[n], d, r.challenge)
    <3>1. /\ q = <<q[1], q[2]>> /\ q[1].name = n /\ q[2].name = Absent
          /\ CodeTrue(q[1], c, r) /\ CodeTrue(q[2], c, r)
      BY <2>0, CalculatedTrue
    <3>2. f[n] = q
      OBVIOUS
    <3> HIDE DEF f, q
    <3>3. q[1] \in S /\ q[2] \in S
      BY <3>1, <3>2
    <3> HIDE DEF S
    <3>4. Len(q) = 2 /\ q \in Seq(S)
      <4> DEFINE x == q[1]
                 y == q[2]
      <4>1. x \in S /\ y \in S /\ q = <<x, y>>
        BY <3>1, <3>3
      <4> HIDE DEF x, y
      <4> QED BY <4>1
    <3> QED BY <3>1, <3>2, <3>4
  <2>3. \A e \in S : e.name \in ns \cup {Absent}
    OBVIOUS
  <2>4. \A e \in S : CodeTrue(e, c, r)
    OBVIOUS
  <2>5. DOMAIN f = ns
    OBVIOUS
  <2> HIDE DEF f, S
  <2>6. ListsTruly(Entries(f)) /\ Entries(f) \in Seq(S)
    BY <2>2, <2>3, <2>5, ListedTruly, Zenon
  <2>7. resp.sw = "9000" /\ resp.data = Entries(f) /\ resp.card = c
    BY <1>2 DEF Says, f, c
  <2>8. \A i \in 1 .. Len(resp.data) : CodeTrue(resp.data[i], resp.card, r)
    BY <2>4, <2>6, <2>7
  <2> QED BY <2>1, <2>6, <2>7, <2>8 DEF Sound, Keyless, Named
<1> QED BY <1>1, <1>2 DEF CardCalculateAll

(* The applet with another counter or time of one account.                 *)
LastSet(n, v) == [card EXCEPT !.accounts[n].last = v]

LEMMA LastReplaced ==
  ASSUME ValidCard(card), NEW n \in Stored, NEW v \in Nat
  PROVE  /\ ValidCard(LastSet(n, v)) /\ LastSet(n, v).key = card.key
         /\ DOMAIN LastSet(n, v).accounts = Stored
         /\ LastSet(n, v).accounts[n] = [card.accounts[n] EXCEPT !.last = v]
         /\ \A m \in Stored \ {n} : LastSet(n, v).accounts[m] = card.accounts[m]
<1> DEFINE was == card.accounts
           a == [was[n] EXCEPT !.last = v]
           f == [was EXCEPT ![n] = a]
           c == LastSet(n, v)
<1>1. ValidAccounts(was) /\ DOMAIN was = Stored
  BY DEF ValidCard, Stored
<1>2. /\ a \in AccountType /\ was[n] \in AccountType
      /\ a.kind = was[n].kind /\ a.increasing = was[n].increasing
  BY <1>1 DEF ValidAccounts, AccountType
<1>3. a.kind = "Hotp" => ~a.increasing
  BY <1>1, <1>2 DEF ValidAccounts
<1>4. c = [card EXCEPT !.accounts = f]
  BY DEF LastSet
<1> HIDE DEF a
<1>5. /\ ValidAccounts(f) /\ DOMAIN f = Stored /\ f[n] = a
      /\ \A m \in Stored \ {n} : f[m] = was[m]
  BY <1>1, <1>2, <1>3 DEF ValidAccounts
<1> HIDE DEF f
<1>6. ValidCard(c) /\ c.key = card.key /\ c.accounts = f
  BY <1>4, <1>5, AccountsReplaced
<1> QED BY <1>5, <1>6 DEF a

(* The length of a full code tells its algorithm.                          *)
LEMMA LengthTells ==
  ASSUME NEW a \in Algorithms, NEW b \in Algorithms, Length(a) = Length(b)
  PROVE  a = b
<1>1. /\ Length("Sha1") = 20 /\ Length("Sha256") = 32 /\ Length("Sha512") = 64
  BY DEF Length
<1> QED BY <1>1 DEF Algorithms

(* CALCULATE.                                                              *)
LEMMA CalculateSound ==
  ASSUME ValidCard(card), Keyless, NEW r, ValidRequest(r), r.kind = "Calculate",
         r.name \in Stored, NEW d, d.format = r.format
  PROVE  Sound(CardCalculate(r, d), r)
<1> DEFINE a == card.accounts[r.name]
           resp == CardCalculate(r, d)
           to(v) == [card EXCEPT !.accounts[r.name].last = v]
           e(v) == CodeField(r.name, a, r.format, v)
<1>0. /\ a \in AccountType /\ a.kind \in {"Hotp", "Totp"} /\ a.alg \in Algorithms
      /\ a.last \in Nat /\ (a.kind = "Hotp" => ~a.increasing)
  BY DEF ValidCard, ValidAccounts, AccountType, Stored
<1>1. \/ resp = Says("6a80", <<>>, card)
      \/ a.kind = "Hotp" /\ resp = Says("9000", <<e(a.last + 1)>>, to(a.last + 1))
      \/ /\ a.kind = "Totp" /\ r.challenge # Absent
         /\ \/ resp = Says("9000", <<e(r.challenge)>>, to(r.challenge))
            \/ resp = Says("9000", <<e(r.challenge)>>, card)
  BY <1>0 DEF CardCalculate
<1> SUFFICES Sound(resp, r)
  OBVIOUS
<1> HIDE DEF resp
<1>2. ASSUME NEW v \in Nat, v = (IF a.kind = "Hotp" THEN a.last + 1 ELSE r.challenge),
             NEW c, resp = Says("9000", <<e(v)>>, c),
             ValidCard(c), c.key = card.key, CountersKept(c, r),
             a.kind = "Hotp" => c.accounts[r.name].last = v
      PROVE  Sound(resp, r)
  <2>1. resp.sw = "9000" /\ resp.data = <<e(v)>> /\ resp.card = c
    BY <1>2 DEF Says
  <2>2. /\ e(v).code = <<r.name, v>> /\ e(v).code[1] = r.name /\ e(v).code[2] = v
        /\ e(v).len = (IF r.format = "Full" THEN Length(a.alg) ELSE 4)
        /\ e(v).tag = (IF r.format = "Full" THEN 117 ELSE 118)
    BY DEF CodeField, Field
  <2>3. ASSUME WellFormed(r, resp.data), r.format = "Full"
        PROVE  r.alg = a.alg
    <3> DEFINE x == e(v)
    <3> HIDE DEF x
    <3>1. <<x>>[1] = x
      OBVIOUS
    <3>2. calculation(x, r.format, r.alg, FALSE)
      BY <2>1, <2>3, <3>1 DEF WellFormed, x
    <3>3. r.alg \in Algorithms /\ r.alg # Absent
      BY OathAssumption DEF ValidRequest
    <3>4. x.len = Length(r.alg)
      BY <2>2, <2>3, <3>2, <3>3 DEF calculation, x
    <3> QED BY <1>0, <2>2, <2>3, <3>3, <3>4, LengthTells DEF x
  <2>4. ASSUME WellFormed(r, resp.data) PROVE CodeTrue(e(v), c, r)
    <3> DEFINE x == e(v)
    <3>1. /\ x.code[1] = r.name /\ x.code[2] = v
          /\ x.len = (IF r.format = "Full" THEN Length(a.alg) ELSE 4)
      BY <2>2
    <3>2. r.format = "Full" => r.alg = a.alg
      BY <2>3, <2>4
    <3> HIDE DEF x, e
    <3>3. CodeTrue(x, c, r)
      BY <1>2, <3>1, <3>2 DEF CodeTrue
    <3> QED BY <3>3 DEF x
  <2>5. ASSUME WellFormed(r, resp.data), NEW i \in 1 .. Len(resp.data)
        PROVE  CodeTrue(resp.data[i], resp.card, r)
    <3> DEFINE x == e(v)
    <3> HIDE DEF x, e
    <3>1. resp.data = <<x>>
      BY <2>1 DEF x
    <3>2. resp.data[i] = x
      BY <3>1
    <3> QED BY <2>1, <2>4, <2>5, <3>2 DEF x
  <2> HIDE DEF e
  <2> QED BY <1>2, <2>1, <2>5 DEF Sound, Keyless, Paged, Calculations, Named
<1>3. ASSUME NEW v \in Nat, a.kind = "Hotp" => v = a.last + 1
      PROVE  /\ ValidCard(to(v)) /\ to(v).key = card.key /\ CountersKept(to(v), r)
             /\ a.kind = "Hotp" => to(v).accounts[r.name].last = v
  <2> DEFINE c == to(v)
  <2>1. c = LastSet(r.name, v)
    BY DEF LastSet
  <2> HIDE DEF c
  <2>2. /\ ValidCard(c) /\ c.key = card.key /\ DOMAIN c.accounts = Stored
        /\ c.accounts[r.name] = [a EXCEPT !.last = v]
        /\ \A m \in Stored \ {r.name} : c.accounts[m] = card.accounts[m]
    BY <2>1, LastReplaced
  <2>3. [a EXCEPT !.last = v].last = v
    <3> HIDE DEF a
    <3> QED BY <1>0 DEF AccountType
  <2>4. a.kind = "Hotp" => [a EXCEPT !.last = v] = [a EXCEPT !.last = @ + 1]
    BY <1>3
  <2>5. CountersKept(c, r)
    BY <2>2, <2>4 DEF CountersKept
  <2> QED BY <2>2, <2>3, <2>5 DEF c
<1>4. r.challenge # Absent => r.challenge \in Nat
  BY Moment
<1>5. CountersKept(card, r)
  BY DEF CountersKept
<1>6. CASE resp = Says("6a80", <<>>, card)
  <2> HIDE DEF e, to, a
  <2> QED BY <1>6, StillSound
<1>7. CASE a.kind = "Hotp" /\ resp = Says("9000", <<e(a.last + 1)>>, to(a.last + 1))
  <2> HIDE DEF e, to
  <2> DEFINE v == a.last + 1
  <2>1. v \in Nat /\ v = IF a.kind = "Hotp" THEN a.last + 1 ELSE r.challenge
    BY <1>0, <1>7
  <2>2. resp = Says("9000", <<e(v)>>, to(v))
    BY <1>7
  <2> HIDE DEF v, a
  <2>3. /\ ValidCard(to(v)) /\ to(v).key = card.key /\ CountersKept(to(v), r)
        /\ a.kind = "Hotp" => to(v).accounts[r.name].last = v
    BY <1>3, <1>7, <2>1
  <2> QED BY <1>2, <2>1, <2>2, <2>3
<1>8. CASE /\ a.kind = "Totp" /\ r.challenge # Absent
           /\ resp = Says("9000", <<e(r.challenge)>>, to(r.challenge))
  <2> HIDE DEF e, to
  <2> DEFINE v == r.challenge
  <2>1. v \in Nat /\ v = IF a.kind = "Hotp" THEN a.last + 1 ELSE r.challenge
    BY <1>4, <1>8
  <2>2. resp = Says("9000", <<e(v)>>, to(v)) /\ a.kind # "Hotp"
    BY <1>8
  <2> HIDE DEF v, a
  <2>3. /\ ValidCard(to(v)) /\ to(v).key = card.key /\ CountersKept(to(v), r)
        /\ a.kind = "Hotp" => to(v).accounts[r.name].last = v
    BY <1>3, <2>1, <2>2
  <2> QED BY <1>2, <2>1, <2>2, <2>3
<1>9. CASE /\ a.kind = "Totp" /\ r.challenge # Absent
           /\ resp = Says("9000", <<e(r.challenge)>>, card)
  <2> HIDE DEF e, to
  <2> DEFINE v == r.challenge
  <2>1. v \in Nat /\ v = IF a.kind = "Hotp" THEN a.last + 1 ELSE r.challenge
    BY <1>4, <1>9
  <2>2. resp = Says("9000", <<e(v)>>, card) /\ a.kind # "Hotp"
    BY <1>9
  <2> HIDE DEF v, a
  <2> QED BY <1>2, <1>5, <2>1, <2>2
<1> HIDE DEF e, to
<1> QED BY <1>1, <1>6, <1>7, <1>8, <1>9 DEF resp

(* A change of the accounts that is reported without data.                 *)
LEMMA ChangeSound ==
  ASSUME NEW r, NEW c, ValidCard(c), c.key = card.key, Keyless, CountersKept(c, r),
         r.kind \notin Calculations \cup Paged \cup {"SetCode", "ClearCode"}
  PROVE  Sound(Says("9000", <<>>, c), r)
BY DEF Sound, Says, Keyless

(* RENAME moves an account, or lets the one in its place stay.             *)
LEMMA RenameSound ==
  ASSUME ValidCard(card), Keyless, NEW r, ValidRequest(r), r.kind = "Rename",
         r.name \in Stored, NEW resp \in CardRename(r)
  PROVE  Sound(resp, r)
<1>1. CASE resp = Says("6985", <<>>, card)
  BY <1>1, StillSound
<1>2. ASSUME NEW a \in {card.accounts[n] : n \in Stored},
             resp = Says("9000", <<>>,
                         [card EXCEPT !.accounts = With(Without(@, r.name), r.to, a)])
      PROVE  Sound(resp, r)
  <2> DEFINE w == Without(card.accounts, r.name)
             f == With(w, r.to, a)
             c == [card EXCEPT !.accounts = f]
  <2>1. ValidAccounts(card.accounts) /\ r.to \in NameSet
    BY DEF ValidCard, ValidRequest
  <2>2. ValidAccount(a)
    BY <2>1 DEF ValidAccounts, ValidAccount, Stored
  <2>3. ValidAccounts(w)
    BY <2>1, WithoutValid
  <2> HIDE DEF w
  <2>4. ValidAccounts(f)
    BY <2>1, <2>2, <2>3, WithValid
  <2> HIDE DEF f
  <2>5. ValidCard(c) /\ c.key = card.key
    BY <2>4, AccountsReplaced
  <2>6. resp = Says("9000", <<>>, c)
    BY <1>2 DEF f, w
  <2> HIDE DEF c
  <2>7. CountersKept(c, r)
    BY DEF CountersKept
  <2> QED BY <2>5, <2>6, <2>7, ChangeSound DEF Calculations, Paged
<1>3. \/ resp = Says("6985", <<>>, card)
      \/ \E a \in {card.accounts[n] : n \in Stored} :
           resp = Says("9000", <<>>, [card EXCEPT !.accounts = With(Without(@, r.name), r.to, a)])
  <2> DEFINE to(a) == Says("9000", <<>>,
                           [card EXCEPT !.accounts = With(Without(@, r.name), r.to, a)])
             A == {card.accounts[r.name]}
                    \cup (IF r.to \in Stored THEN {card.accounts[r.to]} ELSE {})
  <2>1. resp = Says("6985", <<>>, card) \/ resp \in {to(a) : a \in A}
    BY DEF CardRename
  <2>2. A \subseteq {card.accounts[n] : n \in Stored}
    OBVIOUS
  <2> HIDE DEF A
  <2> QED BY <2>1, <2>2
<1> QED BY <1>1, <1>2, <1>3

(* PUT.                                                                    *)
LEMMA PutSound ==
  ASSUME ValidCard(card), Keyless, NEW r, ValidRequest(r), r.kind = "Put", ValidArguments(r),
         r.name \notin Stored
  PROVE  Sound(Says("9000", <<>>, [card EXCEPT !.accounts = With(@, r.name, r.cred)]), r)
<1> DEFINE f == With(card.accounts, r.name, r.cred)
           c == [card EXCEPT !.accounts = f]
<1>1. ValidAccounts(card.accounts) /\ r.name \in NameSet /\ ValidAccount(r.cred)
  BY DEF ValidCard, ValidRequest, ValidArguments, ValidAccount, Named
<1>2. ValidAccounts(f) /\ \A n \in Stored : f[n] = card.accounts[n]
  <2> DEFINE was == card.accounts
             x == r.name
             v == r.cred
  <2>1. ValidAccounts(was) /\ x \in NameSet /\ ValidAccount(v)
    BY <1>1
  <2>2. x \notin DOMAIN was /\ Stored = DOMAIN was
    BY DEF Stored
  <2> HIDE DEF was, x, v
  <2>3. ValidAccounts(With(was, x, v))
    BY <2>1, WithValid
  <2>4. \A n \in DOMAIN was \ {x} : With(was, x, v)[n] = was[n]
    BY DEF With
  <2>5. f = With(was, x, v)
    BY DEF was, x, v
  <2>6. \A n \in Stored : was[n] = card.accounts[n]
    BY DEF was
  <2> HIDE DEF f
  <2> QED BY <2>2, <2>3, <2>4, <2>5, <2>6
<1> HIDE DEF f
<1>3. ValidCard(c) /\ c.key = card.key /\ c.accounts = f
  BY <1>2, AccountsReplaced
<1> HIDE DEF c
<1>4. CountersKept(c, r)
  BY <1>2, <1>3 DEF CountersKept
<1>5. Sound(Says("9000", <<>>, c), r)
  BY <1>3, <1>4, ChangeSound DEF Calculations, Paged
<1> QED BY <1>5 DEF c, f

(* DELETE takes the account out, and out of the default slots.             *)
LEMMA DeleteSound ==
  ASSUME ValidCard(card), Keyless, NEW r, r.kind = "Delete"
  PROVE  Sound(Says("9000", <<>>, [card EXCEPT !.accounts = Without(@, r.name),
                                               !.slots = Clear(@, r.name)]), r)
<1> DEFINE f == Without(card.accounts, r.name)
           s == Clear(card.slots, r.name)
           b == [card EXCEPT !.accounts = f]
           c == [b EXCEPT !.slots = s]
<1>1. ValidAccounts(card.accounts) /\ card.slots \in [Slots -> NameSet \cup {Absent}]
  BY DEF ValidCard
<1>2. ValidAccounts(f) /\ \A n \in DOMAIN f : f[n] = card.accounts[n]
  <2>1. ValidAccounts(f)
    BY <1>1, WithoutValid
  <2>2. \A n \in DOMAIN f : f[n] = card.accounts[n]
    BY DEF Without
  <2> QED BY <2>1, <2>2
<1>3. s \in [Slots -> NameSet \cup {Absent}]
  BY <1>1 DEF Clear
<1>a. [card EXCEPT !.accounts = Without(@, r.name), !.slots = Clear(@, r.name)] = c
  <2>1. card = [key |-> card.key, accounts |-> card.accounts, slots |-> card.slots,
                hmac |-> card.hmac]
    BY DEF ValidCard
  <2> QED BY <2>1
<1> HIDE DEF f, s
<1>4. ValidCard(b) /\ b.key = card.key /\ b.accounts = f
  BY <1>2, AccountsReplaced
<1> HIDE DEF b
<1>5. ValidCard(c) /\ c.key = b.key /\ c.accounts = b.accounts
  BY <1>3, <1>4, SlotsReplaced
<1> HIDE DEF c
<1>6. CountersKept(c, r)
  BY <1>2, <1>4, <1>5 DEF CountersKept
<1>7. Sound(Says("9000", <<>>, c), r)
  BY <1>4, <1>5, <1>6, ChangeSound DEF Calculations, Paged
<1> QED BY <1>7, <1>a

(* SET DEFAULT.                                                            *)
LEMMA DefaultSound ==
  ASSUME ValidCard(card), Keyless, NEW r, ValidRequest(r), r.kind = "SetDefault",
         NEW slot \in Slots
  PROVE  Sound(Says("9000", <<>>, [card EXCEPT !.slots[slot] = r.name]), r)
<1> DEFINE s == [card.slots EXCEPT ![slot] = r.name]
           c == [card EXCEPT !.slots = s]
<1>1. r.name \in NameSet /\ card.slots \in [Slots -> NameSet \cup {Absent}]
  BY DEF ValidRequest, ValidCard, Named
<1>2. s \in [Slots -> NameSet \cup {Absent}]
  BY <1>1
<1>3. [card EXCEPT !.slots[slot] = r.name] = c
  OBVIOUS
<1> HIDE DEF s
<1>4. ValidCard(c) /\ c.key = card.key /\ c.accounts = card.accounts
  BY <1>2, SlotsReplaced
<1> HIDE DEF c
<1>5. CountersKept(c, r)
  BY <1>4 DEF CountersKept
<1>6. Sound(Says("9000", <<>>, c), r)
  BY <1>4, <1>5, ChangeSound DEF Calculations, Paged
<1> QED BY <1>3, <1>6

(* SET CODE, of which the legacy dialect has none.                         *)
LEMMA CodeSound ==
  ASSUME ValidCard(card), Keyless, NEW r, ValidRequest(r), r.kind \in {"SetCode", "ClearCode"},
         ~OathLegacy
  PROVE  Sound(Says("9000", <<>>, [card EXCEPT !.key = r.key]), r)
<1> DEFINE c == [card EXCEPT !.key = r.key]
<1>1. r.key \in Keys \cup {Absent}
  BY DEF ValidRequest
<1>2. ValidCard(c) /\ c.key = r.key /\ c.accounts = card.accounts
  BY <1>1, KeyReplaced
<1> HIDE DEF c
<1>3. CountersKept(c, r)
  BY <1>2 DEF CountersKept
<1>4. Sound(Says("9000", <<>>, c), r)
  BY <1>2, <1>3 DEF Sound, Says, Calculations, Paged
<1> QED BY <1>4 DEF c

(* The applet's dispatch, case by case.                                    *)
Answer(r, op, d, resp) ==
  /\ op = "GetSerial" => resp = Says("9000", <<Field(0, Absent, 0, 4, Absent)>>, card)
  /\ op = "ChallengeResponseHmac" =>
       \/ resp = Says("9000", <<Field(0, Absent, 0, 20, d.slot)>>, card)
       \/ resp = Says("6a82", <<>>, card)
  /\ op = "List" =>
       \E ns \in Reported :
         resp = Says("9000", Entries([n \in ns |-> Listed(n, card.accounts[n])]), card)
  /\ op = "CalculateAll" => resp \in CardCalculateAll(r, d)
  /\ op = "Put" =>
       \/ r.name \in Stored /\ resp = Says("6985", <<>>, card)
       \/ /\ r.name \notin Stored
          /\ resp = Says("9000", <<>>, [card EXCEPT !.accounts = With(@, r.name, r.cred)])
  /\ op \in {"SetCode", "ClearCode"} => resp = Says("9000", <<>>, [card EXCEPT !.key = r.key])
  /\ op \in Named =>
       \/ r.name \in Stored /\ resp \in ExecuteNamed(r, d)
       \/ r.name \notin Stored /\ resp = Says("6984", <<>>, card)

LEMMA Dispatch ==
  ASSUME NEW r, NEW d, NEW resp \in Execute(r, d)
  PROVE  Answer(r, d.op, d, resp)
<1>1. CASE d.op = "GetSerial"
  BY <1>1 DEF Execute, Named, Answer
<1>2. CASE d.op = "ChallengeResponseHmac"
  BY <1>2 DEF Execute, Named, Answer
<1>3. CASE d.op = "List"
  BY <1>3 DEF Execute, Named, Answer
<1>4. CASE d.op = "CalculateAll"
  BY <1>4 DEF Execute, Named, Answer
<1>5. CASE d.op = "Put"
  BY <1>5 DEF Execute, Named, Answer
<1>6. CASE d.op \in {"SetCode", "ClearCode"}
  BY <1>6 DEF Execute, Named, Answer
<1>7. CASE d.op \in Named
  BY <1>7 DEF Execute, Named, Answer
<1> QED BY <1>1, <1>2, <1>3, <1>4, <1>5, <1>6, <1>7 DEF Answer

(* Every response of the user's applet to an accepted request is sound.    *)
LEMMA ExecuteSound ==
  ASSUME ValidCard(card), Keyless, NEW r, ValidRequest(r), NEW a, NEW max,
         Accepted(r, a, max), r.kind \notin {"Select", "Validate"},
         firmware \in {130} \cup 152 .. 303 \cup {310},
         NEW d, d = Intent(r), NEW resp \in Execute(r, d)
  PROVE  Sound(resp, r)
<1>0. r.kind \in {"List", "Put", "SetCode", "ClearCode", "CalculateAll"} \cup Named \cup Vendor
  BY DEF ValidRequest, Paged
<1>1. /\ d.op = r.kind
      /\ r.kind \in Calculations => d.format = r.format
      /\ r.kind \in {"SetDefault", "ChallengeResponseHmac"} => d.slot = r.slot
  BY DEF Intent, Does
<1>d. Answer(r, r.kind, d, resp)
  BY <1>1, Dispatch
<1>2. CASE r.kind = "GetSerial"
  <2>1. resp = Says("9000", <<Field(0, Absent, 0, 4, Absent)>>, card)
    BY <1>d, <1>2 DEF Answer
  <2> QED BY <1>2, <2>1, OtherSound DEF Calculations, Paged, Named
<1>3. CASE r.kind = "ChallengeResponseHmac"
  <2>1. \/ resp = Says("9000", <<Field(0, Absent, 0, 20, d.slot)>>, card)
        \/ resp = Says("6a82", <<>>, card)
    BY <1>d, <1>3 DEF Answer
  <2> QED BY <1>3, <2>1, OtherSound DEF Calculations, Paged, Named
<1>4. CASE r.kind = "List"
  <2>1. PICK ns \in Reported :
          resp = Says("9000", Entries([n \in ns |-> Listed(n, card.accounts[n])]), card)
    BY <1>d, <1>4 DEF Answer
  <2> QED BY <1>4, <2>1, ListSound
<1>5. CASE r.kind = "CalculateAll"
  <2>1. resp \in CardCalculateAll(r, d) /\ d.format = r.format
    BY <1>d, <1>1, <1>5 DEF Answer, Calculations
  <2> QED BY <1>5, <2>1, CalculateAllSound
<1>6. CASE r.kind = "Put"
  <2>1. CASE r.name \in Stored
    <3>1. resp = Says("6985", <<>>, card)
      BY <1>d, <1>6, <2>1 DEF Answer
    <3> QED BY <3>1, StillSound
  <2>2. CASE r.name \notin Stored
    <3>1. resp = Says("9000", <<>>, [card EXCEPT !.accounts = With(@, r.name, r.cred)])
      BY <1>d, <1>6, <2>2 DEF Answer
    <3>2. ValidArguments(r)
      BY DEF Accepted
    <3>3. Sound(Says("9000", <<>>, [card EXCEPT !.accounts = With(@, r.name, r.cred)]), r)
      BY <1>6, <2>2, <3>2, PutSound
    <3> QED BY ONLY <3>1, <3>3
  <2> QED BY <2>1, <2>2
<1>7. CASE r.kind \in {"SetCode", "ClearCode"}
  <2>1. resp = Says("9000", <<>>, [card EXCEPT !.key = r.key])
    BY <1>d, <1>7 DEF Answer
  <2>2. ~OathLegacy
    BY <1>7 DEF Accepted, OathModern, OathLegacy
  <2>3. Sound(Says("9000", <<>>, [card EXCEPT !.key = r.key]), r)
    BY <1>7, <2>2, CodeSound
  <2> QED BY ONLY <2>1, <2>3
<1>8. CASE r.kind \in Named /\ r.name \notin Stored
  <2>1. resp = Says("6984", <<>>, card)
    BY <1>d, <1>8 DEF Answer
  <2>2. CASE r.kind = "Calculate"
    BY <1>8, <2>1, <2>2 DEF Sound, Says, Keyless, CountersKept
  <2>3. CASE r.kind # "Calculate"
    BY <1>8, <2>1, <2>3, OtherSound DEF Named, Calculations, Paged
  <2> QED BY <2>2, <2>3
<1>9. CASE r.kind \in Named /\ r.name \in Stored
  <2>1. resp \in ExecuteNamed(r, d)
    BY <1>d, <1>9 DEF Answer
  <2> USE DEF ExecuteNamed
  <2>2. CASE r.kind = "Delete"
    <3>1. resp = Says("9000", <<>>, [card EXCEPT !.accounts = Without(@, r.name),
                                                 !.slots = Clear(@, r.name)])
      BY <1>1, <2>1, <2>2
    <3>2. Sound(Says("9000", <<>>, [card EXCEPT !.accounts = Without(@, r.name),
                                                !.slots = Clear(@, r.name)]), r)
      BY <2>2, DeleteSound
    <3> QED BY ONLY <3>1, <3>2
  <2>3. CASE r.kind = "Rename"
    <3>1. resp \in CardRename(r)
      BY <1>1, <2>1, <2>3
    <3> QED BY <1>9, <2>3, <3>1, RenameSound
  <2>4. CASE r.kind = "Calculate"
    <3>1. resp = CardCalculate(r, d) /\ d.format = r.format
      BY <1>1, <2>1, <2>4 DEF Calculations
    <3> QED BY <1>9, <2>4, <3>1, CalculateSound
  <2>5. CASE r.kind = "SetDefault"
    <3>1. \/ resp = Says("9000", <<>>, [card EXCEPT !.slots[d.slot] = r.name])
          \/ resp = Says("6985", <<>>, card)
      BY <1>1, <2>1, <2>5
    <3>2. d.slot \in Slots
      BY <1>1, <2>5 DEF ValidRequest
    <3>3. Sound(Says("9000", <<>>, [card EXCEPT !.slots[d.slot] = r.name]), r)
      <4> DEFINE s == d.slot
      <4>1. s \in Slots
        BY <3>2
      <4> HIDE DEF s
      <4>2. Sound(Says("9000", <<>>, [card EXCEPT !.slots[s] = r.name]), r)
        BY <2>5, <4>1, DefaultSound
      <4> QED BY <4>2 DEF s
    <3>4. Sound(Says("6985", <<>>, card), r)
      BY StillSound
    <3> QED BY ONLY <3>1, <3>3, <3>4
  <2> QED BY <1>9, <2>2, <2>3, <2>4, <2>5 DEF Named
<1> QED BY <1>0, <1>2, <1>3, <1>4, <1>5, <1>6, <1>7, <1>8, <1>9 DEF Vendor

LEMMA ResponsesSound ==
  ASSUME ValidCard(card), Keyless, NEW r, ValidRequest(r), NEW a, NEW max,
         Accepted(r, a, max), r.kind \notin {"Select", "Validate"}, limit \in Nat,
         firmware \in {130} \cup 152 .. 303 \cup {310}, NEW resp \in Responses(r)
  PROVE  Sound(resp, r)
<1>1. Decode(target(r)) = Intent(r)
  BY LegacyIntent, ModernIntent
<1>2. CASE resp = Says("6982", <<>>, card)
  BY <1>2, StillSound
<1>3. CASE resp \in Execute(r, Intent(r))
  BY <1>3, ExecuteSound
<1> QED BY <1>1, <1>2, <1>3 DEF Responses
-----------------------------------------------------------------------------
(* One step per action                                                     *)

(* OutcomeTrue of an operation that has nothing to report yet.             *)
LEMMA NothingReported ==
  ASSUME card = before, outcome \notin {"Done", "NotFound"}
  PROVE  OutcomeTrue
BY DEF OutcomeTrue, CounterOnce

LEMMA InitInv == Init => IInv
<1>1. SUFFICES ASSUME Init PROVE IInv
  OBVIOUS
<1>2. ValidCard(card) /\ card = before
  BY <1>1, OathAssumption DEF Init
<1>3. TypeOK /\ Running /\ Keyless /\ AccessMatches
  <2>1. genuine \in BOOLEAN /\ unlocked \in BOOLEAN
    BY <1>1 DEF Init
  <2> QED BY <1>1, <1>2, <2>1, OathAssumption DEF Init, TypeOK, Running, Keyless, AccessMatches
<1>4. OutcomeTrue
  BY <1>1, <1>2, NothingReported DEF Init
<1> QED BY <1>3, <1>4 DEF IInv

(* The requests that are accepted depend on the firmware only.             *)
LEMMA AcceptedStays ==
  ASSUME firmware' = firmware, NEW r, NEW a, NEW max, Accepted(r, a, max)
  PROVE  Accepted(r, a, max)'
BY DEF Accepted, OathLegacy, OathModern, OathFullResponse, OathSetDefaultSlots,
       OathChallengeResponse, ValidArguments, Minimum

LEMMA BeginStep ==
  ASSUME IInv, NEW r \in Requests, NEW a \in Keys \cup {Absent}, NEW max \in ResponseLimits,
         Begin(r, a, max)
  PROVE  IInv'
<1>1. /\ ValidRequest(r) /\ max \in Nat /\ Accepted(r, a, max)
      /\ request' = r /\ access' = a /\ limit' = max /\ before' = card
      /\ phase' = "Select" /\ outcome' = "none" /\ UNCHANGED <<firmware, genuine, card, unlocked>>
  BY OathAssumption DEF Begin, device
<1>2. TypeOK'
  BY <1>1 DEF IInv, TypeOK
<1>3. Accepted(request, access, limit)'
  BY <1>1, AcceptedStays
<1>4. Running' /\ AccessMatches'
  BY <1>1, <1>3 DEF Running, AccessMatches
<1>5. Keyless'
  BY <1>1 DEF IInv, Keyless, OathLegacy
<1>6. OutcomeTrue'
  BY <1>1 DEF OutcomeTrue, CounterOnce
<1> QED BY <1>2, <1>4, <1>5, <1>6 DEF IInv

(* A step to the next command.                                             *)
LEMMA GoOn ==
  ASSUME IInv, phase # "Idle", phase' \in {"Validate", "Target"},
         UNCHANGED <<device, call, card, outcome>>, unlocked' \in BOOLEAN,
         phase' = "Validate" => access # Absent,
         phase' = "Target" => request.kind \notin {"Select", "Validate"},
         phase' = "Target" /\ request.kind \notin Vendor =>
           access = HeldKey /\ (access # Absent => unlocked')
  PROVE  IInv'
<1>1. /\ UNCHANGED <<firmware, genuine, limit, request, access, before, card, outcome>>
      /\ ValidRequest(request) /\ Accepted(request, access, limit)
      /\ card = before /\ outcome = "none"
  BY DEF device, call, IInv, Running
<1>2. TypeOK'
  BY <1>1 DEF IInv, TypeOK
<1>3. Accepted(request, access, limit)'
  BY <1>1, AcceptedStays
<1>4. Running'
  BY <1>1, <1>3 DEF Running
<1>5. AccessMatches'
  BY <1>1 DEF AccessMatches, HeldKey
<1>6. Keyless'
  BY <1>1 DEF IInv, Keyless, OathLegacy
<1>7. OutcomeTrue'
  BY <1>1 DEF OutcomeTrue, CounterOnce
<1> QED BY <1>2, <1>4, <1>5, <1>6, <1>7 DEF IInv

(* A step that ends the operation.                                         *)
LEMMA Ended ==
  ASSUME IInv, phase # "Idle", phase' = "Idle", UNCHANGED <<device, call>>,
         unlocked' \in BOOLEAN, ValidCard(card'), OathLegacy => card'.key = Absent,
         CountersKept(card', request),
         genuine /\ outcome' = "Done" /\ request.kind \in Calculations =>
           \A i \in 1 .. Len(result') : CodeTrue(result'[i], card', request),
         genuine /\ outcome' = "Done" /\ request.kind \in Paged =>
           ListsTruly(result') /\ DOMAIN card'.accounts = Stored,
         genuine /\ outcome' = "Done" /\ request.kind \in {"SetCode", "ClearCode"} =>
           card'.key = request.key,
         genuine /\ outcome' = "NotFound" =>
           card' = card /\ (request.kind \in Named => request.name \notin Stored)
  PROVE  IInv'
<1>1. /\ UNCHANGED <<firmware, genuine, limit, request, access, before>>
      /\ card = before
  BY DEF device, call, IInv, Running
<1>2. TypeOK'
  BY <1>1 DEF IInv, TypeOK
<1>3. Running' /\ AccessMatches' /\ Keyless'
  BY <1>1 DEF Running, AccessMatches, Keyless, OathLegacy
<1>4. CounterOnce'
  BY <1>1 DEF CounterOnce, CountersKept, Stored
<1>5. ASSUME genuine, outcome' = "Done", request.kind \in Calculations PROVE CodesTrue'
  <2>1. \A i \in 1 .. Len(result') : CodeTrue(result'[i], card', request)
    BY <1>5
  <2>2. ASSUME NEW i \in 1 .. Len(result'), result'[i].code # Absent
        PROVE  LET n == result'[i].code[1]
                   factor == result'[i].code[2]
                   a == before.accounts[n] IN
               /\ n \in DOMAIN before.accounts
               /\ factor = (IF a.kind = "Hotp" THEN a.last + 1 ELSE request.challenge)
               /\ result'[i].len = (IF request.format = "Full" THEN Length(a.alg) ELSE 4)
               /\ request.kind = "Calculate" =>
                    /\ n = request.name
                    /\ a.kind = "Hotp" => card'.accounts[n].last = factor
                    /\ request.format = "Full" => request.alg = a.alg
    <3>1. CodeTrue(result'[i], card', request)
      BY <2>1
    <3> QED BY <1>1, <2>2, <3>1 DEF CodeTrue, Stored
  <2> QED BY <1>1, <2>2 DEF CodesTrue
<1>6. ASSUME genuine, outcome' = "Done", request.kind \in Paged
      PROVE  LET names == {result'[i].name : i \in 1 .. Len(result')} \ {Absent} IN
             /\ names \subseteq DOMAIN card'.accounts
             /\ OathReliablePagination => names = DOMAIN card'.accounts
  BY <1>6 DEF ListsTruly, NamesIn
<1>7. ASSUME genuine, outcome' = "NotFound"
      PROVE  /\ card' = before
             /\ request.kind \in Named => request.name \notin DOMAIN card'.accounts
  BY <1>1, <1>7 DEF Stored
<1>8. OutcomeTrue'
  BY <1>1, <1>4, <1>5, <1>6, <1>7 DEF OutcomeTrue, OathReliablePagination
<1> QED BY <1>2, <1>3, <1>8 DEF IInv

(* Failing without effect, and SELECT and VALIDATE themselves done.        *)
LEMMA EndedQuietly ==
  ASSUME IInv, phase # "Idle", phase' = "Idle", UNCHANGED <<device, call, card>>,
         unlocked' \in BOOLEAN,
         \/ outcome' \notin {"Done", "NotFound"}
         \/ outcome' = "Done" /\ request.kind \in {"Select", "Validate"}
  PROVE  IInv'
<1>1. ValidCard(card') /\ (OathLegacy => card'.key = Absent) /\ CountersKept(card', request)
  BY DEF IInv, TypeOK, Keyless, CountersKept
<1> QED BY <1>1, Ended DEF Calculations, Paged

(* Oath::target, once the access is settled.                               *)
LEMMA SendTargetStep ==
  ASSUME IInv, phase # "Idle", SendTarget, UNCHANGED <<device, call, card>>,
         unlocked' \in BOOLEAN, request.kind # "Select",
         request.kind \notin Vendor => access = HeldKey /\ (access # Absent => unlocked')
  PROVE  IInv'
<1>1. CASE request.kind = "Validate"
  <2>1. phase' = "Idle" /\ outcome' = "Done"
    BY <1>1 DEF SendTarget, End
  <2> QED BY <1>1, <2>1, EndedQuietly
<1>2. CASE request.kind # "Validate"
  <2>1. phase' = "Target" /\ UNCHANGED outcome
    BY <1>2 DEF SendTarget
  <2> QED BY <1>2, <2>1, GoOn
<1> QED BY <1>1, <1>2

(* What MatchAccess and Selected may do.                                   *)
LEMMA MatchAccessCases ==
  ASSUME NEW s \in {"Open", "Sha1", "Other"}, MatchAccess(s)
  PROVE  \/ access = Absent /\ s = "Open" /\ SendTarget
         \/ phase' = "Idle" /\ outcome' \notin {"Done", "NotFound"}
         \/ access # Absent /\ phase' = "Validate" /\ UNCHANGED outcome
<1>1. CASE access = Absent /\ s = "Open"
  BY <1>1 DEF MatchAccess
<1>2. CASE access = Absent /\ s # "Open"
  BY <1>2 DEF MatchAccess, Fail, End
<1>3. CASE access # Absent /\ s = "Open"
  BY <1>3 DEF MatchAccess, Fail, End
<1>4. CASE access # Absent /\ s = "Other"
  BY <1>4 DEF MatchAccess, Fail, End
<1>5. CASE access # Absent /\ s = "Sha1"
  BY <1>5 DEF MatchAccess
<1> QED BY <1>1, <1>2, <1>3, <1>4, <1>5

LEMMA SelectedCases ==
  ASSUME NEW s \in Selections, Selected(s)
  PROVE  \/ phase' = "Idle" /\ outcome' \notin {"Done", "NotFound"}
         \/ request.kind = "Select" /\ phase' = "Idle" /\ outcome' = "Done"
         \/ request.kind # "Select" /\ (request.kind \in Vendor \/ OathLegacy) /\ SendTarget
         \/ /\ request.kind # "Select" /\ ~OathLegacy
            /\ s \in {"Open", "Sha1", "Other"} /\ MatchAccess(s)
<1> DEFINE bad == s = "Bad" \/ OathLegacy # (s = "Empty")
<1>0. OathLegacy \in BOOLEAN
  BY DEF OathLegacy
<1>1. CASE bad
  <2>1. Fail("InvalidResponse")
    BY <1>1 DEF Selected
  <2> QED BY <2>1 DEF Fail, End
<1>2. CASE ~bad
  <2>1. CASE request.kind = "Select"
    <3>1. End("Done", <<s>>)
      BY <1>2, <2>1 DEF Selected, Vendor
    <3> QED BY <2>1, <3>1 DEF End
  <2>2. CASE request.kind \in Vendor \/ (request.kind # "Select" /\ OathLegacy)
    BY <1>2, <2>2 DEF Selected, Vendor
  <2>3. CASE request.kind # "Select" /\ request.kind \notin Vendor /\ ~OathLegacy
    <3>1. MatchAccess(s)
      BY <1>2, <2>3 DEF Selected
    <3>2. s \in {"Open", "Sha1", "Other"}
      BY <1>0, <1>2, <2>3 DEF Selections
    <3> QED BY <2>3, <3>1, <3>2
  <2> QED BY <2>1, <2>2, <2>3
<1> QED BY <1>1, <1>2

(* The answer to SELECT: an applet without a challenge holds no key.       *)
LEMMA SelectStep ==
  ASSUME IInv, SelectReply
  PROVE  IInv'
<1>1. /\ phase = "Select" /\ unlocked' = FALSE /\ UNCHANGED <<device, call, card>>
      /\ unlocked' \in BOOLEAN
  BY DEF SelectReply
<1>2. PICK s \in (IF genuine THEN {OwnSelection} ELSE Selections) : Selected(s)
  BY DEF SelectReply
<1>3. s \in Selections /\ (genuine => s = OwnSelection)
  BY <1>2 DEF OwnSelection, Selections
<1>4. /\ ValidRequest(request) /\ Accepted(request, access, limit) /\ Keyless
      /\ firmware \in {130} \cup 152 .. 303 \cup {310} /\ genuine \in BOOLEAN
  BY <1>1 DEF IInv, Running, TypeOK
<1>5. CASE phase' = "Idle" /\ outcome' \notin {"Done", "NotFound"}
  BY <1>1, <1>5, EndedQuietly
<1>6. CASE request.kind = "Select" /\ phase' = "Idle" /\ outcome' = "Done"
  BY <1>1, <1>6, EndedQuietly
<1>7. CASE request.kind # "Select" /\ (request.kind \in Vendor \/ OathLegacy) /\ SendTarget
  <2>1. OathLegacy => access = Absent /\ HeldKey = Absent
    BY <1>4 DEF Accepted, OathLegacy, OathModern, HeldKey, Keyless
  <2> QED BY <1>1, <1>7, <2>1, SendTargetStep
<1>8. CASE /\ request.kind # "Select" /\ ~OathLegacy
           /\ s \in {"Open", "Sha1", "Other"} /\ MatchAccess(s)
  <2>1. CASE access = Absent /\ s = "Open" /\ SendTarget
    <3>1. HeldKey = Absent
      BY <1>3, <1>8, <2>1 DEF HeldKey, OwnSelection
    <3> QED BY <1>1, <1>8, <2>1, <3>1, SendTargetStep
  <2>2. CASE phase' = "Idle" /\ outcome' \notin {"Done", "NotFound"}
    BY <1>1, <2>2, EndedQuietly
  <2>3. CASE access # Absent /\ phase' = "Validate" /\ UNCHANGED outcome
    BY <1>1, <2>3, GoOn
  <2> QED BY <1>8, <2>1, <2>2, <2>3, MatchAccessCases
<1> QED BY <1>2, <1>3, <1>5, <1>6, <1>7, <1>8, SelectedCases

(* The answer to VALIDATE: a proof comes from the holder of the key.       *)
LEMMA ValidateStep ==
  ASSUME IInv, ValidateReply
  PROVE  IInv'
<1>1. /\ phase = "Validate" /\ unlocked' = (genuine /\ access = card.key)
      /\ UNCHANGED <<device, call, card>>
  BY DEF ValidateReply
<1>2. unlocked' \in BOOLEAN
  BY <1>1
<1>3. PICK p \in Proofs : Validated(p)
  BY DEF ValidateReply
<1>4. p = "Proof" => genuine /\ access = card.key
  BY <1>3 DEF Proofs
<1>5. p \in {"Proof", "6a80", "WrongProof", "Bad"}
  BY <1>3 DEF Proofs
<1>6. CASE p # "Proof"
  <2>1. phase' = "Idle" /\ outcome' \notin {"Done", "NotFound"}
    BY <1>3, <1>5, <1>6 DEF Validated, Fail, End
  <2> QED BY <1>1, <1>2, <2>1, EndedQuietly
<1>7. CASE p = "Proof"
  <2>1. SendTarget
    BY <1>3, <1>7 DEF Validated
  <2>2. access = HeldKey /\ unlocked'
    BY <1>1, <1>4, <1>7 DEF HeldKey
  <2>3. request.kind # "Select"
    BY <1>1 DEF IInv, Running, Accepted
  <2> QED BY <1>1, <1>2, <2>1, <2>2, <2>3, SendTargetStep
<1> QED BY <1>6, <1>7

(* The answer to the target.                                               *)
LEMMA TargetStep ==
  ASSUME IInv, TargetReply
  PROVE  IInv'
<1>1. phase = "Target" /\ UNCHANGED <<device, call, unlocked>>
  BY DEF TargetReply
<1>2. /\ ValidRequest(request) /\ Accepted(request, access, limit) /\ limit \in Nat
      /\ request.kind \notin {"Select", "Validate"} /\ Keyless /\ ValidCard(card)
      /\ firmware \in {130} \cup 152 .. 303 \cup {310} /\ unlocked' \in BOOLEAN
  BY <1>1 DEF IInv, Running, TypeOK
<1>3. PICK resp \in (IF genuine THEN Responses(request)
                     ELSE {Says("9000", data, card) : data \in OtherData}) :
        Replied(resp.sw, resp.data) /\ card' = resp.card
  BY DEF TargetReply
<1>4. /\ phase' = "Idle"
      /\ outcome' = "Done" =>
           resp.sw = "9000" /\ WellFormed(request, resp.data) /\ result' = resp.data
      /\ outcome' = "NotFound" => resp.sw \in {"6984", "6a82"}
  <2>1. CASE resp.sw # "9000"
    <3>1. Fail(ErrorKind(resp.sw))
      BY <1>3, <2>1 DEF Replied
    <3>2. /\ ErrorKind(resp.sw) # "Done"
          /\ ErrorKind(resp.sw) = "NotFound" => resp.sw \in {"6984", "6a82"}
      BY DEF ErrorKind
    <3> QED BY <3>1, <3>2 DEF Fail, End
  <2>2. CASE resp.sw = "9000" /\ WellFormed(request, resp.data)
    <3>1. End("Done", resp.data)
      BY <1>3, <2>2 DEF Replied
    <3> QED BY <2>2, <3>1 DEF End
  <2>3. CASE resp.sw = "9000" /\ ~WellFormed(request, resp.data)
    <3>1. Fail("InvalidResponse")
      BY <1>3, <2>3 DEF Replied
    <3> QED BY <3>1 DEF Fail, End
  <2> QED BY <2>1, <2>2, <2>3
<1>5. CASE genuine
  <2>1. Sound(resp, request)
    BY <1>2, <1>3, <1>5, ResponsesSound
  <2> QED BY <1>1, <1>2, <1>3, <1>4, <2>1, Ended DEF Sound
<1>6. CASE ~genuine
  <2>1. card' = card
    BY <1>3, <1>6 DEF Says
  <2>2. ValidCard(card') /\ (OathLegacy => card'.key = Absent) /\ CountersKept(card', request)
    BY <1>2, <2>1 DEF Keyless, CountersKept
  <2> QED BY <1>1, <1>2, <1>4, <1>6, <2>2, Ended
<1> QED BY <1>5, <1>6

LEMMA RefusedStep ==
  ASSUME IInv, Refused
  PROVE  IInv'
<1>1. phase # "Idle" /\ UNCHANGED <<device, call, card, unlocked>>
  BY DEF Refused
<1>2. PICK sw \in {"6982", "6985", "6f00"} \cup (IF phase = "Select" THEN {"6a82"} ELSE {}) :
        Fail(ErrorKind(sw))
  BY DEF Refused
<1>3. ErrorKind(sw) \notin {"Done", "NotFound"}
  BY <1>2 DEF ErrorKind
<1>4. phase' = "Idle" /\ outcome' \notin {"Done", "NotFound"} /\ unlocked' \in BOOLEAN
  BY <1>1, <1>2, <1>3 DEF Fail, End, IInv, TypeOK
<1> QED BY <1>1, <1>4, EndedQuietly

(* A lost answer: the applet executed the command, or part of it, or not.  *)
LEMMA InterruptedStep ==
  ASSUME IInv, Interrupted
  PROVE  IInv'
<1>1. /\ phase # "Idle" /\ phase' = "Idle" /\ outcome' = "Abandoned"
      /\ UNCHANGED <<device, call, unlocked>>
  BY DEF Interrupted, Fail, End
<1>2. /\ ValidRequest(request) /\ Accepted(request, access, limit) /\ limit \in Nat
      /\ phase = "Target" => request.kind \notin {"Select", "Validate"}
      /\ Keyless /\ ValidCard(card)
      /\ firmware \in {130} \cup 152 .. 303 \cup {310} /\ unlocked' \in BOOLEAN
  BY <1>1 DEF IInv, Running, TypeOK
<1>3. SUFFICES ValidCard(card') /\ (OathLegacy => card'.key = Absent) /\ CountersKept(card', request)
  BY <1>1, <1>2, Ended
<1>4. CASE UNCHANGED card
  BY <1>2, <1>4 DEF Keyless, CountersKept
<1>5. CASE phase = "Target" /\ \E resp \in Responses(request) : card' = resp.card
  <2>1. PICK resp \in Responses(request) : card' = resp.card
    BY <1>5
  <2>2. Sound(resp, request)
    BY <1>2, <1>5, ResponsesSound
  <2> QED BY <2>1, <2>2 DEF Sound
<1>6. CASE /\ request.kind = "CalculateAll"
           /\ \E ns \in SUBSET Stored : card' = Remember(ns, request.challenge)
  <2>1. PICK ns \in SUBSET Stored : card' = Remember(ns, request.challenge)
    BY <1>6
  <2>2. request.challenge \in Nat
    BY <1>2, <1>6, Moment
  <2>3. /\ ValidCard(Remember(ns, request.challenge))
        /\ Remember(ns, request.challenge).key = card.key
        /\ CountersKept(Remember(ns, request.challenge), request)
    BY <1>2, <2>2, RememberKeeps
  <2> QED BY <1>2, <2>1, <2>3 DEF Keyless
<1> QED BY <1>4, <1>5, <1>6 DEF Interrupted

LEMMA StutterStep ==
  ASSUME IInv, UNCHANGED vars
  PROVE  IInv'
<1>1. UNCHANGED <<firmware, genuine, limit, request, access, before, phase, outcome, result,
                  card, unlocked>>
  BY DEF vars, device, call
<1>2. TypeOK' /\ Keyless' /\ AccessMatches'
  BY <1>1 DEF IInv, TypeOK, Keyless, AccessMatches, OathLegacy, HeldKey
<1>3. phase # "Idle" => Accepted(request, access, limit)'
  BY <1>1, AcceptedStays DEF IInv, Running
<1>4. Running'
  BY <1>1, <1>3 DEF IInv, Running
<1>5. OutcomeTrue'
  <2>1. (CounterOnce => CounterOnce') /\ (CodesTrue => CodesTrue')
    BY <1>1 DEF CounterOnce, CodesTrue
  <2>2. OathReliablePagination' <=> OathReliablePagination
    BY <1>1 DEF OathReliablePagination
  <2> QED BY <1>1, <2>1, <2>2 DEF IInv, OutcomeTrue
<1> QED BY <1>2, <1>4, <1>5 DEF IInv

LEMMA StepInv == IInv /\ [Next]_vars => IInv'
<1>1. SUFFICES ASSUME IInv, [Next]_vars PROVE IInv'
  OBVIOUS
<1>2. CASE \E r \in Requests, a \in Keys \cup {Absent}, max \in ResponseLimits : Begin(r, a, max)
  BY <1>1, <1>2, BeginStep
<1>3. CASE SelectReply
  BY <1>1, <1>3, SelectStep
<1>4. CASE ValidateReply
  BY <1>1, <1>4, ValidateStep
<1>5. CASE TargetReply
  BY <1>1, <1>5, TargetStep
<1>6. CASE Refused
  BY <1>1, <1>6, RefusedStep
<1>7. CASE Interrupted
  BY <1>1, <1>7, InterruptedStep
<1>8. CASE UNCHANGED vars
  BY <1>1, <1>8, StutterStep
<1> QED BY <1>1, <1>2, <1>3, <1>4, <1>5, <1>6, <1>7, <1>8 DEF Next
-----------------------------------------------------------------------------
(* The inductive invariant of the OATH client.                             *)
THEOREM OathInvariant == Spec => []IInv
BY InitInv, StepInv, PTL DEF Spec

(* A target goes only to an applet that holds exactly the access key       *)
(* supplied: selection() and validate() never let another one through.     *)
THEOREM OathAccess == Spec => []AccessMatches
<1>1. IInv => AccessMatches
  BY DEF IInv
<1> QED BY OathInvariant, <1>1, PTL

(* Whatever the dialect, target() encodes the command that was asked for.  *)
THEOREM OathIntent == Spec => []IntentKept
<1>1. IInv => IntentKept
  <2>1. SUFFICES ASSUME IInv, phase = "Target"
                 PROVE  Decode(target(request)) = Intent(request)
    BY DEF IntentKept
  <2>2. /\ ValidRequest(request) /\ Accepted(request, access, limit) /\ limit \in Nat
        /\ request.kind \notin {"Select", "Validate"}
        /\ firmware \in {130} \cup 152 .. 303 \cup {310}
    BY <2>1 DEF IInv, Running, TypeOK
  <2> QED BY <2>2, LegacyIntent, ModernIntent
<1> QED BY OathInvariant, <1>1, PTL

(* What an operation reports of the user's applet is so, and no HOTP       *)
(* counter is used up but the one asked for, lost answers included.        *)
THEOREM OathOutcome == Spec => []OutcomeTrue
<1>1. IInv => OutcomeTrue
  BY DEF IInv
<1> QED BY OathInvariant, <1>1, PTL
=============================================================================
