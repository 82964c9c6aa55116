------------------------------- MODULE MCCtap -------------------------------
(* Two worlds, chosen at the start: the PIN, its tokens and what they      *)
(* authorise, and the credentials.  There are two PINs of different        *)
(* lengths and one that is too short, two relying parties, a current and a *)
(* stale token.                                                            *)
EXTENDS ClientPin, Credentials

CONSTANTS p3, p4, p6, s1, s2, r1, r2, u1, u2, t1, t2

VARIABLES world

MCPinLength == [p \in {p3, p4, p6} |-> IF p = p3 THEN 3 ELSE IF p = p4 THEN 4 ELSE 6]

Of(op) == [NoPinCall EXCEPT !.op = op]

MCPinCalls ==
  {[Of("get_key_agreement") EXCEPT !.protocol = p] : p \in {1, 2}}
    \cup {Of("get_pin_retries")}
    \cup {[Of("set_pin") EXCEPT !.new = p, !.iv = i] : p \in {p3, p4}, i \in BOOLEAN}
    \cup {[Of("change_pin") EXCEPT !.pin = p, !.new = q, !.iv = i] :
            p \in {p4, p6}, q \in {p4, p6}, i \in BOOLEAN}
    \cup {[Of("get_pin_token") EXCEPT !.pin = p4, !.iv = i] : i \in BOOLEAN}
    \cup {[Of("get_pin_token_with_permissions") EXCEPT !.pin = p, !.iv = i, !.permissions = s] :
            p \in {p4, p6}, i \in BOOLEAN, s \in {{"acfg"}, {}}}
    \cup {Of("toggle_always_uv"), Of("enable_long_touch_for_reset")}
    \cup {[Of("set_min_pin_length") EXCEPT !.min = n, !.force = f] :
            n \in {3, 6}, f \in BOOLEAN}
    \cup {[Of("hmac_secret") EXCEPT !.salts = s, !.iv = i] :
            s \in {<<>>, <<s2, s1>>}, i \in BOOLEAN}

With(op) == [NoCall EXCEPT !.op = op, !.token = t1]

MCCalls ==
  {With(o) : o \in {"get_creds_metadata", "enumerate_rps", "get_next_assertion", "reset",
                    "selection", "get_info", "version"}}
    \cup {[With("enumerate_credentials") EXCEPT !.rp = r1, !.only = b] : b \in BOOLEAN}
    \cup {[With("enumerate_rps") EXCEPT !.token = t2]}
    \cup {[With("delete_credential") EXCEPT !.id = i] : i \in {1, Absent}}
    \cup {[With("update_user_information") EXCEPT !.id = 2, !.user = u2]}
    \cup {[With("make_credential") EXCEPT !.rp = r, !.user = u1, !.resident = TRUE] :
            r \in {r1, r2}}
    \cup {[With("make_credential") EXCEPT !.rp = r1, !.user = u1, !.list = {1}, !.mc = TRUE,
             !.hmac = h, !.raw = w] : h \in BOOLEAN, w \in {{}, {"hmac-secret"}}}
    \cup {[With("make_credential") EXCEPT !.rp = r1, !.user = u1, !.attestation = 3]}
    \cup {[With("get_assertion") EXCEPT !.rp = r1, !.list = l] : l \in {{}, {2}}}
    \cup {[With("register") EXCEPT !.rp = r2]}
    \cup {[With(o) EXCEPT !.rp = r2, !.id = 1] : o \in {"authenticate", "check_only"}}

MCInit ==
  /\ PinInit /\ CredInit /\ ~settings.alwaysUv
  /\ \/ world = "pin" /\ inForce = Absent /\ ~alwaysUv /\ ~metadata
     \/ world = "credentials" /\ firmware = "2.0" /\ settings.pin = Unset

MCNext ==
  /\ UNCHANGED world
  /\ \/ world = "pin" /\ PinNext /\ UNCHANGED credVars
     \/ world = "credentials" /\ CredNext /\ UNCHANGED pinVars

MCSpec == MCInit /\ [][MCNext]_<<pinVars, credVars, world>>
=============================================================================
