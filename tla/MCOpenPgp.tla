----------------------------- MODULE MCOpenPgp ------------------------------
(* Two operations in a row on cards in any of a few states, under four     *)
(* firmware versions.                                                      *)
EXTENDS OpenPgp

CONSTANTS c1

Observations(numbers) ==
  [text |-> [numbers |-> numbers, suffix |-> "none"], piv |-> FALSE, config |-> None,
   warnings |-> {}]

MCProfiles ==
  {from_observations(Observations(n)) : n \in {<<1, 3, 0>>, <<1, 5, 2>>, <<2, 0, 0>>, <<3, 1>>}}

Short == <<1>>

Long == <<1, 2>>

Other == <<3, 4>>

MCDefault == [n \in {"Pw1", "Pw3", "Code"} |->
                CASE n = "Pw1" -> Short [] n = "Pw3" -> Long [] n = "Code" -> <<>>]

MCCards ==
  [pw : {[MCDefault EXCEPT !["Code"] = c, !["Pw1"] = p] : c \in {<<>>, Other}, p \in {Short, Long}},
   tries : {[n \in DOMAIN MCDefault |-> IF n = "Pw3" THEN t ELSE 1] : t \in 0 .. 1},
   verified : {{}, {"Pw1Sign"}},
   attributes : {[s \in Slots |-> CASE s = "Signature" -> a [] s = "Decryption" -> b
                                    [] s = "Authentication" -> "EccP256"] :
                   a \in {"EccP256", "Ed25519"}, b \in {"Rsa4096", "X25519", "EccP256"}},
   key : {[s \in Slots |-> k] : k \in {TRUE}},
   certificate : {[s \in Slots |-> IF s = "Signature" THEN c1 ELSE None]},
   occurrence : {"Decryption"},
   terminated : BOOLEAN]

Of(op) == [NoCall EXCEPT !.op = op]

With(c, ref, p) == [c EXCEPT !.access = [reference |-> ref, password |-> p]]

Protected(c) == {With(c, "Pw3", p) : p \in {Long, Other}}

MCCalls ==
  {[Of("ReadData") EXCEPT !.object = o] : o \in {"touch", "algorithms"}}
    \cup {[Of("ReadCertificate") EXCEPT !.slot = "Signature"]}
    \cup Protected([Of("WriteCertificate") EXCEPT !.slot = "Authentication", !.value = c1])
    \cup {[Of(o) EXCEPT !.reference = "Pw1Sign"] : o \in {"PinStatus", "Logout"}}
    \cup {With(Of("Verify"), "Pw1Sign", Short), With(Of("Verify"), "Pw1Other", Long)}
    \cup {[Of("ChangePassword") EXCEPT !.reference = r, !.old = Long, !.new = p] :
            r \in {"Pw1Sign", "Pw1Other", "Pw3"}, p \in {Short, Other}}
    \cup Protected([Of("UnblockWithAdmin") EXCEPT !.new = Short])
    \cup {[Of("UnblockWithCode") EXCEPT !.old = p, !.new = Short] : p \in {Short, Other, Long}}
    \cup Protected(Of("ResetRetries"))
    \cup {With([Of("WriteData") EXCEPT !.object = "attributes", !.slot = s, !.alg = a], "Pw3", Long) :
            s \in {"Signature", "Decryption"}, a \in {"Secp256k1", "X25519"}}
    \cup {With([Of("WriteData") EXCEPT !.object = "code", !.value = v], "Pw3", Long) :
            v \in {None, Short, Other}}
    \cup Protected([Of("WriteData") EXCEPT !.object = "touch"])
    \cup {[Of("ReadPublicKey") EXCEPT !.slot = s] : s \in {"Signature", "Decryption"}}
    \cup Protected([Of("GenerateKey") EXCEPT !.slot = "Decryption"])
    \cup Protected([Of("ImportKey") EXCEPT !.slot = "Signature", !.alg = "EccP256"])
    \cup {With([Of("Sign") EXCEPT !.alg = "EccP256", !.short = s], r, Short) :
            r \in {"Pw1Sign", "Pw1Other"}, s \in BOOLEAN}
    \cup {With([Of("Authenticate") EXCEPT !.alg = a], r, Short) :
            r \in {"Pw1Sign", "Pw1Other"}, a \in {"EccP256", "EccP384"}}
    \cup {With([Of("Decrypt") EXCEPT !.alg = a], "Pw1Other", Short) : a \in {"Rsa4096", "EccP256"}}
    \cup {With([Of("Derive") EXCEPT !.alg = a], "Pw1Other", Short) : a \in {"X25519", "EccP256"}}
    \cup Protected(Of("Terminate")) \cup {Of("Terminate"), Of("Activate")}
=============================================================================
