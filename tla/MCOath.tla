------------------------------- MODULE MCOath -------------------------------
(* An applet with an account of each kind, and requests of every kind.     *)
EXTENDS Oath

CONSTANTS alice, bob, k1, k2

MCNames == <<alice, bob>>

Hotp == [kind |-> "Hotp", alg |-> "Sha1", touch |-> FALSE, increasing |-> FALSE,
         digits |-> 6, last |-> 0]

Rising == [Hotp EXCEPT !.kind = "Totp", !.alg = "Sha256", !.increasing = TRUE]

Touch == [Hotp EXCEPT !.kind = "Totp", !.alg = "Sha512", !.touch = TRUE]

MCCards ==
  {[key |-> k, accounts |-> f, slots |-> [s \in {"Short", "Long"} |-> Absent],
    hmac |-> {"Short"}] :
     k \in {Absent, k1}, f \in {[n \in {alice, bob} |-> IF n = alice THEN Hotp ELSE Rising],
                                [n \in {bob} |-> Touch]}}

Of(kind) == [NoRequest EXCEPT !.kind = kind]

MCRequests ==
  {Of(k) : k \in {"Select", "Validate", "List", "GetSerial", "ClearCode"}}
    \cup {[Of("Put") EXCEPT !.name = alice, !.cred = c] : c \in {Hotp, Touch, [Hotp EXCEPT !.digits = 9]}}
    \cup {[Of("Delete") EXCEPT !.name = alice], [Of("Rename") EXCEPT !.name = alice, !.to = bob]}
    \cup {[Of("Calculate") EXCEPT !.name = n, !.otp = "Hotp", !.alg = "Sha1", !.format = f] :
            n \in {alice, bob}, f \in {"Truncated", "Full"}}
    \cup {[Of("Calculate") EXCEPT !.name = n, !.alg = "Sha256", !.format = f, !.challenge = 1] :
            n \in {alice, bob}, f \in {"Truncated", "Full"}}
    \cup {[Of("CalculateAll") EXCEPT !.challenge = t, !.format = f] :
            t \in Times, f \in {"Truncated", "Full"}}
    \cup {[Of("SetCode") EXCEPT !.key = k2]}
    \cup {[Of("SetDefault") EXCEPT !.name = alice],
          [Of("SetDefault") EXCEPT !.name = bob, !.slot = "Long", !.enter = TRUE]}
    \cup {[Of("ChallengeResponseHmac") EXCEPT !.slot = s] : s \in {"Short", "Long"}}

(* Nothing, a serial, codes of two lengths, and lists in both dialects.    *)
MCOtherData ==
  {<<>>, <<Field(0, Absent, 0, 4, Absent)>>,
   <<Field(118, Absent, 6, 4, Absent)>>, <<Field(117, Absent, 6, 32, Absent)>>,
   <<Field(114, alice, 0, 2, Absent)>>, <<Field(114, Absent, 0, 2, Absent)>>,
   <<Field(113, alice, 0, 1, Absent), Field(117, Absent, 6, 2, Absent)>>,
   <<Field(113, alice, 0, 1, Absent), Field(119, Absent, 9, 0, Absent)>>}
============================================================================
