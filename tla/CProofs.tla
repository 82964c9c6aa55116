------------------------------ MODULE CProofs -------------------------------
(***************************************************************************)
(* Proofs about the C ABI.  Of CCreate, for every factory and all its      *)
(* arguments: the caller's memory is read in a safe order, and a handle is *)
(* made only of arguments that are right and stands for what they say.  Of *)
(* CAbi, for any number of handles, kinds and failures: a handle that      *)
(* panicked is sealed, and the shared error structure is about the last    *)
(* call alone.                                                             *)
(***************************************************************************)
EXTENDS CAbi, CCreate, WellFoundedInduction, TLAPS

-----------------------------------------------------------------------------
(* Sequences of steps                                                      *)

Words ==
  Special \cup Payloads
    \cup {"mode", "serial", "profile", "pin", "tag", "slot", "management", "length", "key", "touch",
          "entropy", "parameters", "material", "reference", "kind", "algorithm", "user_id",
          "requests", "sizes", "name", "source", "target", "pin_retries", "puk_retries", "config",
          "new_pin", "credential", "action", "input", "descriptor", "request", "access_key",
          "password", "out", "clear", "handle", "poison", "type", "awaiting", "result", "progress",
          "failed", "copy", "step", "index", "flags", "enabled", "form", "field", "panic"}

Names(s) == {s[i] : i \in DOMAIN s}

(* The members of a concatenation, by their places.                        *)
LEMMA ConcatPlaces ==
  ASSUME NEW s \in Seq(Words), NEW t \in Seq(Words)
  PROVE  /\ Len(s \o t) = Len(s) + Len(t)
         /\ \A i \in 1 .. Len(s) : (s \o t)[i] = s[i]
         /\ \A i \in 1 .. Len(t) : (s \o t)[Len(s) + i] = t[i]
  OBVIOUS

(* The names of a concatenation.                                           *)
LEMMA ConcatNames ==
  ASSUME NEW s \in Seq(Words), NEW t \in Seq(Words)
  PROVE  /\ s \o t \in Seq(Words)
         /\ Names(s \o t) = Names(s) \cup Names(t)
<1> HIDE DEF Words
<1>1. s \o t \in Seq(Words) /\ DOMAIN (s \o t) = 1 .. (Len(s) + Len(t))
  OBVIOUS
<1>2. DOMAIN s = 1 .. Len(s) /\ DOMAIN t = 1 .. Len(t) /\ Len(s) \in Nat /\ Len(t) \in Nat
  OBVIOUS
<1>3. \A i \in 1 .. Len(s) : (s \o t)[i] = s[i]
  OBVIOUS
<1>4. \A i \in 1 .. Len(t) : (s \o t)[i + Len(s)] = t[i]
  OBVIOUS
<1>5. ASSUME NEW x \in Names(s \o t) PROVE x \in Names(s) \cup Names(t)
  <2>1. PICK i \in 1 .. (Len(s) + Len(t)) : x = (s \o t)[i]
    BY <1>1 DEF Names
  <2>2. CASE i <= Len(s)
    BY <1>2, <1>3, <2>1, <2>2 DEF Names
  <2>3. CASE i > Len(s)
    <3>1. i - Len(s) \in 1 .. Len(t) /\ (i - Len(s)) + Len(s) = i
      BY <1>2, <2>1, <2>3
    <3>2. x = t[i - Len(s)]
      BY <1>4, <2>1, <3>1
    <3> QED BY <1>2, <3>1, <3>2 DEF Names
  <2> QED BY <1>2, <2>1, <2>2, <2>3
<1>6. ASSUME NEW x \in Names(s) PROVE x \in Names(s \o t)
  <2>1. PICK i \in 1 .. Len(s) : x = s[i]
    BY <1>2 DEF Names
  <2>2. i \in 1 .. (Len(s) + Len(t)) /\ x = (s \o t)[i]
    BY <1>2, <1>3, <2>1
  <2> QED BY <1>1, <2>2 DEF Names
<1>7. ASSUME NEW x \in Names(t) PROVE x \in Names(s \o t)
  <2>1. PICK i \in 1 .. Len(t) : x = t[i]
    BY <1>2 DEF Names
  <2>2. i + Len(s) \in 1 .. (Len(s) + Len(t)) /\ x = (s \o t)[i + Len(s)]
    BY <1>2, <1>4, <2>1
  <2> QED BY <1>1, <2>2 DEF Names
<1> QED BY <1>1, <1>5, <1>6, <1>7

(* A set of numbers that is not empty has a least member.                  *)
LEMMA LeastIndex ==
  ASSUME NEW S \in SUBSET Nat, S # {}
  PROVE  \E m \in S : \A k \in S : m <= k
<1> DEFINE Below == {q \in Nat \X Nat : q[1] < q[2]}
<1>1. IsWellFoundedOn(Below, Nat)
  <2>1. OpToRel(<, Nat) = Below
    BY DEF OpToRel
  <2> QED BY <2>1, NatLessThanWellFounded
<1>2. PICK m \in S : \A k \in S : ~(<<k, m>> \in Below)
  <2> HIDE DEF Below
  <2> QED BY <1>1, WFMin
<1>3. ASSUME NEW k \in S PROVE m <= k
  <2>1. ~(k < m)
    BY <1>2
  <2> QED BY <2>1
<1> QED BY <1>3

(* The steps before the first one that is refused.                         *)
LEMMA FirstIndex ==
  ASSUME NEW n \in Nat, NEW Wrong
  PROVE  \E i \in 1 .. (n + 1) :
           /\ i <= n => i \in Wrong
           /\ \A j \in 1 .. (i - 1) : j \notin Wrong
<1> DEFINE S == (Wrong \cap 1 .. n) \cup {n + 1}
<1>1. PICK m \in S : \A k \in S : m <= k
  <2>1. S \in SUBSET Nat /\ S # {}
    OBVIOUS
  <2> HIDE DEF S
  <2> QED BY <2>1, LeastIndex
<1>2. m \in 1 .. (n + 1) /\ (m <= n => m \in Wrong)
  OBVIOUS
<1>3. ASSUME NEW j \in 1 .. (m - 1), j \in Wrong PROVE FALSE
  <2>1. j \in S /\ ~(m <= j)
    BY <1>2, <1>3
  <2> HIDE DEF S
  <2> QED BY <1>1, <2>1
<1> QED BY <1>2, <1>3

-----------------------------------------------------------------------------
(* The order of a factory's steps                                          *)

(* A step of First comes before each step of Then.                         *)
Before(s, First, Then) ==
  \A i \in 1 .. Len(s) : s[i] \in Then => \E j \in 1 .. (i - 1) : s[j] \in First

OptionSteps == {"options", "piv_options"}

SelectionSteps == {"select", "selection"}

Ordered(s) == Before(s, OptionSteps, SelectionSteps) /\ Before(s, {"limit"}, Payloads)

(* Steps that neither authenticate nor look at the selection.              *)
Plain(s) ==
  /\ s \in Seq(Words) /\ Ordered(s)
  /\ Names(s) \cap ({"auth"} \cup SelectionSteps) = {}

(* Steps that look at the selection: authentication only goes with the     *)
(* check against credentials beside CNK_PIV_USE_EXISTING.                  *)
Guarded(s) ==
  /\ s \in Seq(Words) /\ Ordered(s)
  /\ Names(s) \cap OptionSteps # {} /\ Names(s) \cap SelectionSteps # {}
  /\ "auth" \in Names(s) => "select" \in Names(s)

(* A factory whose steps protect the caller.                               *)
Proper(f) ==
  /\ f = [kind |-> f.kind, steps |-> f.steps] /\ f.kind # "NULL"
  /\ f.steps \in Seq(Words) /\ Ordered(f.steps)
  /\ "library" \in Names(f.steps)
  /\ Names(f.steps) \cap OptionSteps # {}
  /\ Names(f.steps) \cap SelectionSteps = {} => "options" \in Names(f.steps)
  /\ "auth" \in Names(f.steps) => "select" \in Names(f.steps)

(* What comes before stays before when steps are added on either side.     *)
LEMMA BeforeConcat ==
  ASSUME NEW s \in Seq(Words), NEW t \in Seq(Words), NEW First, NEW Then,
         Before(s, First, Then), Before(t, First, Then)
  PROVE  Before(s \o t, First, Then)
<1> HIDE DEF Words
<1>1. Len(s \o t) = Len(s) + Len(t) /\ Len(s) \in Nat /\ Len(t) \in Nat
  OBVIOUS
<1>2. \A i \in 1 .. Len(s) : (s \o t)[i] = s[i]
  OBVIOUS
<1>3. \A i \in 1 .. Len(t) : (s \o t)[i + Len(s)] = t[i]
  OBVIOUS
<1>4. ASSUME NEW i \in 1 .. (Len(s) + Len(t)), (s \o t)[i] \in Then
      PROVE  \E j \in 1 .. (i - 1) : (s \o t)[j] \in First
  <2>1. CASE i <= Len(s)
    <3>1. i \in 1 .. Len(s) /\ s[i] \in Then
      BY <1>1, <1>2, <1>4, <2>1
    <3>2. PICK j \in 1 .. (i - 1) : s[j] \in First
      BY <3>1 DEF Before
    <3> QED BY <1>1, <1>2, <3>1, <3>2
  <2>2. CASE i > Len(s)
    <3>1. i - Len(s) \in 1 .. Len(t) /\ (i - Len(s)) + Len(s) = i
      BY <1>1, <2>2
    <3>2. t[i - Len(s)] \in Then
      BY <1>3, <1>4, <3>1
    <3>3. PICK j \in 1 .. (i - Len(s) - 1) : t[j] \in First
      BY <3>1, <3>2 DEF Before
    <3>4. j + Len(s) \in 1 .. (i - 1) /\ (s \o t)[j + Len(s)] \in First
      BY <1>1, <1>3, <3>1, <3>3
    <3> QED BY <3>4
  <2> QED BY <1>1, <2>1, <2>2
<1> QED BY <1>1, <1>4 DEF Before

LEMMA OrderedConcat ==
  ASSUME NEW s \in Seq(Words), NEW t \in Seq(Words), Ordered(s), Ordered(t)
  PROVE  Ordered(s \o t)
  BY BeforeConcat DEF Ordered

LEMMA PlainConcat ==
  ASSUME NEW s, NEW t, Plain(s), Plain(t)
  PROVE  Plain(s \o t)
<1>1. s \in Seq(Words) /\ t \in Seq(Words) /\ Ordered(s) /\ Ordered(t)
  BY DEF Plain
<1>2. s \o t \in Seq(Words) /\ Names(s \o t) = Names(s) \cup Names(t)
  BY <1>1, ConcatNames
<1>3. Ordered(s \o t)
  BY <1>1, OrderedConcat
<1> QED BY <1>2, <1>3 DEF Plain

LEMMA GuardedConcat ==
  ASSUME NEW s, NEW t, Guarded(s), Plain(t)
  PROVE  Guarded(s \o t)
<1>1. s \in Seq(Words) /\ t \in Seq(Words) /\ Ordered(s) /\ Ordered(t)
  BY DEF Guarded, Plain
<1>2. s \o t \in Seq(Words) /\ Names(s \o t) = Names(s) \cup Names(t)
  BY <1>1, ConcatNames
<1>3. Ordered(s \o t)
  BY <1>1, OrderedConcat
<1> QED BY <1>2, <1>3 DEF Guarded, Plain, SelectionSteps

LEMMA PlainGuarded ==
  ASSUME NEW s, NEW t, Plain(s), Guarded(t)
  PROVE  Guarded(s \o t)
<1>1. s \in Seq(Words) /\ t \in Seq(Words) /\ Ordered(s) /\ Ordered(t)
  BY DEF Guarded, Plain
<1>2. s \o t \in Seq(Words) /\ Names(s \o t) = Names(s) \cup Names(t)
  BY <1>1, ConcatNames
<1>3. Ordered(s \o t)
  BY <1>1, OrderedConcat
<1> QED BY <1>2, <1>3 DEF Guarded, Plain, SelectionSteps

(* piv_access is safe whatever it checks between the options and the       *)
(* selection bit.                                                          *)
LEMMA AccessGuarded ==
  /\ Guarded(Auth)
  /\ Guarded(Public)
<1> DEFINE o == <<"piv_options">>
           a == <<"auth">>
           e == <<"select">>
<1> DEFINE q == o \o a
<1>1. /\ o \in Seq(Words) /\ Names(o) = {"piv_options"}
      /\ a \in Seq(Words) /\ Names(a) = {"auth"}
      /\ e \in Seq(Words) /\ Names(e) = {"select"}
  BY DEF Words, Special, Names
<1>2. /\ Len(o) = 1 /\ o[1] = "piv_options"
      /\ Len(a) = 1 /\ a[1] = "auth"
      /\ Len(e) = 1 /\ e[1] = "select"
  OBVIOUS
<1> HIDE DEF o, a, e, q
<1>3. q \in Seq(Words) /\ Names(q) = {"piv_options", "auth"}
  <2>1. Names(o \o a) = {"piv_options"} \cup {"auth"} /\ o \o a \in Seq(Words)
    BY <1>1, ConcatNames
  <2> QED BY <2>1 DEF q
<1>4. Len(q) = 2 /\ q[1] = "piv_options" /\ q[2] = "auth"
  <2>1. /\ Len(o \o a) = Len(o) + Len(a)
        /\ \A i \in 1 .. Len(o) : (o \o a)[i] = o[i]
        /\ \A i \in 1 .. Len(a) : (o \o a)[Len(o) + i] = a[i]
    BY <1>1, ConcatPlaces
  <2>2. (o \o a)[1] = o[1] /\ (o \o a)[1 + 1] = a[1]
    BY <1>2, <2>1
  <2> QED BY <1>2, <2>1, <2>2 DEF q
<1>5. Guarded(q \o e)
  <2>1. /\ Len(q \o e) = Len(q) + Len(e)
        /\ \A i \in 1 .. Len(q) : (q \o e)[i] = q[i]
        /\ \A i \in 1 .. Len(e) : (q \o e)[Len(q) + i] = e[i]
    BY <1>1, <1>3, ConcatPlaces
  <2>2. (q \o e)[1] = q[1] /\ (q \o e)[2] = q[2] /\ (q \o e)[2 + 1] = e[1]
    BY <1>2, <1>4, <2>1
  <2>3. /\ Len(q \o e) = 3
        /\ (q \o e)[1] = "piv_options" /\ (q \o e)[2] = "auth" /\ (q \o e)[3] = "select"
    BY <1>2, <1>4, <2>1, <2>2
  <2>4. q \o e \in Seq(Words) /\ Names(q \o e) = {"piv_options", "auth", "select"}
    BY <1>1, <1>3, ConcatNames
  <2> HIDE DEF q
  <2>5. Ordered(q \o e)
    BY <2>3 DEF Ordered, Before, OptionSteps, SelectionSteps, Payloads
  <2> QED BY <2>4, <2>5 DEF Guarded, OptionSteps, SelectionSteps
<1>6. Guarded(o \o e)
  <2>1. Len(o \o e) = 2 /\ (o \o e)[1] = "piv_options" /\ (o \o e)[2] = "select"
    BY <1>1, <1>2
  <2>2. o \o e \in Seq(Words) /\ Names(o \o e) = {"piv_options", "select"}
    BY <1>1, ConcatNames
  <2>3. Ordered(o \o e)
    BY <2>1 DEF Ordered, Before, OptionSteps, SelectionSteps, Payloads
  <2> QED BY <2>2, <2>3 DEF Guarded, OptionSteps, SelectionSteps
<1>7. Auth = q \o e
  BY DEF Auth, piv_access, q, o, a, e
<1>8. Public = o \o e
  <2>1. o \o <<>> = o
    BY <1>1
  <2> QED BY <2>1 DEF Public, piv_access, o, e
<1> QED BY <1>5, <1>6, <1>7, <1>8

(* The last step of every factory.                                         *)
LEMMA PlainLibrary == Plain(<<"library">>) /\ Names(<<"library">>) = {"library"}
<1>1. <<"library">> \in Seq(Words)
  BY DEF Words, Special
<1>2. Names(<<"library">>) = {"library"}
  BY DEF Names
<1>3. Ordered(<<"library">>)
  BY DEF Ordered, Before, OptionSteps, SelectionSteps, Payloads
<1> QED BY <1>1, <1>2, <1>3 DEF Plain, SelectionSteps

LEMMA PlainProper ==
  ASSUME NEW s, NEW kind, kind # "NULL", Plain(s), "options" \in Names(s)
  PROVE  Proper(Factory(kind, s))
<1>1. s \in Seq(Words) /\ <<"library">> \in Seq(Words)
  BY PlainLibrary DEF Plain
<1>2. Plain(s \o <<"library">>)
  BY PlainLibrary, PlainConcat
<1>3. Names(s \o <<"library">>) = Names(s) \cup {"library"}
  BY <1>1, PlainLibrary, ConcatNames
<1> QED BY <1>2, <1>3 DEF Proper, Plain, Factory, OptionSteps

LEMMA GuardedProper ==
  ASSUME NEW s, NEW kind, kind # "NULL", Guarded(s)
  PROVE  Proper(Factory(kind, s))
<1>1. s \in Seq(Words) /\ <<"library">> \in Seq(Words)
  BY PlainLibrary DEF Plain, Guarded
<1>2. Guarded(s \o <<"library">>)
  BY PlainLibrary, GuardedConcat
<1>3. Names(s \o <<"library">>) = Names(s) \cup {"library"}
  BY <1>1, PlainLibrary, ConcatNames
<1> QED BY <1>2, <1>3 DEF Proper, Guarded, Factory

LEMMA PlainInput == Plain(piv_input) /\ Plain(streaming_input)
<1>1. Plain(piv_input)
  BY DEF piv_input, Plain, Words, Special, Payloads, Ordered, Before, Names, OptionSteps,
         SelectionSteps
<1>2. Plain(<<"user_id">>) /\ Plain(<<"mode">>)
  BY DEF Plain, Words, Special, Payloads, Ordered, Before, Names, OptionSteps, SelectionSteps
<1>3. Plain(<<"user_id">> \o piv_input \o <<"mode">>)
  <2>1. Plain(<<"user_id">> \o piv_input)
    BY <1>1, <1>2, PlainConcat
  <2> QED BY <1>2, <2>1, PlainConcat
<1> QED BY <1>1, <1>3 DEF streaming_input

(* Steps that read the options and nothing that names a card.              *)
Optional(s) == Plain(s) /\ "options" \in Names(s)

(* The factories without access check their options.                     *)
LEMMA OptionFactories ==
  \A f \in {probe_device, probe_device_with_serial, verify_pin, get_pin_status,
   get_pin_status_selected, batch, reset_piv, read_version_selected,
   read_configuration_selected, random_selected, logout, change_pin, change_puk,
   unblock_pin, select_application, oath, openpgp, admin} :
    Proper(f)
<1>1. Optional(<<"mode", "options">>)
  BY DEF Optional, Plain, Words, Special, Payloads, Ordered, Before, Names, OptionSteps,
         SelectionSteps
<1>2. Optional(<<"serial", "mode", "options">>)
  BY DEF Optional, Plain, Words, Special, Payloads, Ordered, Before, Names, OptionSteps,
         SelectionSteps
<1>3. Optional(<<"profile", "pin", "options">>)
  BY DEF Optional, Plain, Words, Special, Payloads, Ordered, Before, Names, OptionSteps,
         SelectionSteps
<1>4. Optional(<<"profile", "options">>)
  BY DEF Optional, Plain, Words, Special, Payloads, Ordered, Before, Names, OptionSteps,
         SelectionSteps
<1>5. Optional(<<"options">>)
  BY DEF Optional, Plain, Words, Special, Payloads, Ordered, Before, Names, OptionSteps,
         SelectionSteps
<1>6. Optional(<<"requests", "options", "sizes", "limit", "items", "profile">>)
  BY DEF Optional, Plain, Words, Special, Payloads, Ordered, Before, Names, OptionSteps,
         SelectionSteps
<1>7. Optional(<<"pin", "new_pin", "profile", "options">>)
  BY DEF Optional, Plain, Words, Special, Payloads, Ordered, Before, Names, OptionSteps,
         SelectionSteps
<1>8. Optional(<<"descriptor", "request", "access_key", "profile", "options">>)
  BY DEF Optional, Plain, Words, Special, Payloads, Ordered, Before, Names, OptionSteps,
         SelectionSteps
<1>9. Optional(<<"descriptor", "request", "password", "profile", "options">>)
  BY DEF Optional, Plain, Words, Special, Payloads, Ordered, Before, Names, OptionSteps,
         SelectionSteps
<1>10. Optional(<<"descriptor", "request", "pin", "profile", "options">>)
  BY DEF Optional, Plain, Words, Special, Payloads, Ordered, Before, Names, OptionSteps,
         SelectionSteps
<1>11. Proper(probe_device)
  BY <1>1, PlainProper DEF Optional, probe_device
<1>12. Proper(probe_device_with_serial)
  BY <1>2, PlainProper DEF Optional, probe_device_with_serial
<1>13. Proper(verify_pin)
  BY <1>3, PlainProper DEF Optional, verify_pin
<1>14. Proper(get_pin_status)
  BY <1>4, PlainProper DEF Optional, get_pin_status
<1>15. Proper(get_pin_status_selected)
  BY <1>5, PlainProper DEF Optional, get_pin_status_selected
<1>16. Proper(batch)
  BY <1>6, PlainProper DEF Optional, batch
<1>17. Proper(reset_piv)
  BY <1>4, PlainProper DEF Optional, reset_piv
<1>18. Proper(read_version_selected)
  BY <1>5, PlainProper DEF Optional, read_version_selected
<1>19. Proper(read_configuration_selected)
  BY <1>5, PlainProper DEF Optional, read_configuration_selected
<1>20. Proper(random_selected)
  BY <1>5, PlainProper DEF Optional, random_selected
<1>21. Proper(logout)
  BY <1>4, PlainProper DEF Optional, logout
<1>22. Proper(change_pin)
  BY <1>7, PlainProper DEF Optional, change_pin
<1>23. Proper(change_puk)
  BY <1>7, PlainProper DEF Optional, change_puk
<1>24. Proper(unblock_pin)
  BY <1>7, PlainProper DEF Optional, unblock_pin
<1>25. Proper(select_application)
  BY <1>5, PlainProper DEF Optional, select_application
<1>26. Proper(oath)
  BY <1>8, PlainProper DEF Optional, oath
<1>27. Proper(openpgp)
  BY <1>9, PlainProper DEF Optional, openpgp
<1>28. Proper(admin)
  BY <1>10, PlainProper DEF Optional, admin
<1> QED
    BY <1>11, <1>12, <1>13, <1>14, <1>15, <1>16, <1>17, <1>18, <1>19, <1>20, <1>21, <1>22,
     <1>23, <1>24, <1>25, <1>26, <1>27, <1>28

(* The factories that only look at the selection bit.                      *)
LEMMA SelectionFactories ==
  \A f \in {authenticate_management_key, attest, credential} :
    Proper(f)
<1>1. Proper(authenticate_management_key)
  <2>1. Guarded(<<"piv_options", "profile", "management", "selection">>)
    BY DEF Guarded, Words, Special, Payloads, Ordered, Before, Names, OptionSteps,
           SelectionSteps
  <2> QED BY <2>1, GuardedProper DEF authenticate_management_key
<1>2. Proper(attest)
  <2>1. Guarded(<<"piv_options", "profile", "slot", "selection">>)
    BY DEF Guarded, Words, Special, Payloads, Ordered, Before, Names, OptionSteps,
           SelectionSteps
  <2> QED BY <2>1, GuardedProper DEF attest
<1>3. Proper(credential)
  <2>1. Guarded(<<"piv_options", "profile", "credential", "action", "selection">>)
    BY DEF Guarded, Words, Special, Payloads, Ordered, Before, Names, OptionSteps,
           SelectionSteps
  <2> QED BY <2>1, GuardedProper DEF credential
<1> QED
  BY <1>1, <1>2, <1>3

(* The factories that take PIV access.                                     *)
LEMMA AccessFactories ==
  \A f \in {read_object, read_certificate, write_object, write_certificate,
   delete_certificate, set_management_key, read_object_container, write_object_container,
   pin_managed, generate_key, import_key, get_metadata, read_algorithm_config, sign,
   decrypt, derive, decapsulate, sign_streaming, require_empty_key_slot,
   read_metadata_directory, read_container_name, set_container_name, move_key, delete_key,
   reset_pin_puk_retries, set_algorithm_config, agree_sm2} :
    Proper(f)
<1>1. Proper(read_object)
  <2>1. Plain(<<"tag", "profile">>) /\ Plain(<<"piv_options">>)
    BY DEF Plain, Words, Special, Payloads, Ordered, Before, Names, OptionSteps,
           SelectionSteps
  <2>2. Guarded(<<"tag", "profile">> \o Public)
    BY <2>1, AccessGuarded, PlainGuarded
  <2>3. Guarded(<<"tag", "profile">> \o Public \o <<"piv_options">>)
    BY <2>2, <2>1, GuardedConcat
  <2> QED BY <2>3, GuardedProper DEF read_object
<1>2. Proper(read_certificate)
  <2>1. Plain(<<"slot", "profile">>) /\ Plain(<<"piv_options">>)
    BY DEF Plain, Words, Special, Payloads, Ordered, Before, Names, OptionSteps,
           SelectionSteps
  <2>2. Guarded(<<"slot", "profile">> \o Public)
    BY <2>1, AccessGuarded, PlainGuarded
  <2>3. Guarded(<<"slot", "profile">> \o Public \o <<"piv_options">>)
    BY <2>2, <2>1, GuardedConcat
  <2> QED BY <2>3, GuardedProper DEF read_certificate
<1>3. Proper(write_object)
  <2>1. Plain(<<"piv_options", "limit", "profile", "tag", "data">>)
    BY DEF Plain, Words, Special, Payloads, Ordered, Before, Names, OptionSteps,
           SelectionSteps
  <2>2. Guarded(<<"piv_options", "limit", "profile", "tag", "data">> \o Auth)
    BY <2>1, AccessGuarded, PlainGuarded
  <2> QED BY <2>2, GuardedProper DEF write_object
<1>4. Proper(write_certificate)
  <2>1. Plain(<<"piv_options", "limit", "profile", "slot", "data">>)
    BY DEF Plain, Words, Special, Payloads, Ordered, Before, Names, OptionSteps,
           SelectionSteps
  <2>2. Guarded(<<"piv_options", "limit", "profile", "slot", "data">> \o Auth)
    BY <2>1, AccessGuarded, PlainGuarded
  <2> QED BY <2>2, GuardedProper DEF write_certificate
<1>5. Proper(delete_certificate)
  <2>1. Plain(<<"profile", "slot">>) /\ Plain(<<"piv_options">>)
    BY DEF Plain, Words, Special, Payloads, Ordered, Before, Names, OptionSteps,
           SelectionSteps
  <2>2. Guarded(<<"profile", "slot">> \o Auth)
    BY <2>1, AccessGuarded, PlainGuarded
  <2>3. Guarded(<<"profile", "slot">> \o Auth \o <<"piv_options">>)
    BY <2>2, <2>1, GuardedConcat
  <2> QED BY <2>3, GuardedProper DEF delete_certificate
<1>6. Proper(set_management_key)
  <2>1. Plain(<<"length", "key", "touch", "profile">>) /\ Plain(<<"piv_options">>)
    BY DEF Plain, Words, Special, Payloads, Ordered, Before, Names, OptionSteps,
           SelectionSteps
  <2>2. Guarded(<<"length", "key", "touch", "profile">> \o Auth)
    BY <2>1, AccessGuarded, PlainGuarded
  <2>3. Guarded(<<"length", "key", "touch", "profile">> \o Auth \o <<"piv_options">>)
    BY <2>2, <2>1, GuardedConcat
  <2> QED BY <2>3, GuardedProper DEF set_management_key
<1>7. Proper(read_object_container)
  <2>1. Plain(<<"profile", "piv_options">>) /\ Plain(<<"tag">>)
    BY DEF Plain, Words, Special, Payloads, Ordered, Before, Names, OptionSteps,
           SelectionSteps
  <2>2. Guarded(<<"profile", "piv_options">> \o Public)
    BY <2>1, AccessGuarded, PlainGuarded
  <2>3. Guarded(<<"profile", "piv_options">> \o Public \o <<"tag">>)
    BY <2>2, <2>1, GuardedConcat
  <2> QED BY <2>3, GuardedProper DEF read_object_container
<1>8. Proper(write_object_container)
  <2>1. Plain(<<"profile", "piv_options">>) /\ Plain(<<"limit", "tag">>)
    BY DEF Plain, Words, Special, Payloads, Ordered, Before, Names, OptionSteps,
           SelectionSteps
  <2>2. Guarded(<<"profile", "piv_options">> \o Auth)
    BY <2>1, AccessGuarded, PlainGuarded
  <2>3. Guarded(<<"profile", "piv_options">> \o Auth \o <<"limit", "tag">>)
    BY <2>2, <2>1, GuardedConcat
  <2>4. Guarded(<<"profile", "piv_options">> \o Auth \o <<"limit", "tag">> \o piv_input)
    BY <2>3, PlainInput, GuardedConcat
  <2> QED BY <2>4, GuardedProper DEF write_object_container
<1>9. Proper(pin_managed)
  <2>1. Plain(<<"profile", "piv_options">>) /\ Plain(<<"entropy">>)
    BY DEF Plain, Words, Special, Payloads, Ordered, Before, Names, OptionSteps,
           SelectionSteps
  <2>2. Guarded(<<"profile", "piv_options">> \o Auth)
    BY <2>1, AccessGuarded, PlainGuarded
  <2>3. Guarded(<<"profile", "piv_options">> \o Auth \o <<"entropy">>)
    BY <2>2, <2>1, GuardedConcat
  <2> QED BY <2>3, GuardedProper DEF pin_managed
<1>10. Proper(generate_key)
  <2>1. Plain(<<"profile", "parameters">>) /\ Plain(<<"piv_options">>)
    BY DEF Plain, Words, Special, Payloads, Ordered, Before, Names, OptionSteps,
           SelectionSteps
  <2>2. Guarded(<<"profile", "parameters">> \o Auth)
    BY <2>1, AccessGuarded, PlainGuarded
  <2>3. Guarded(<<"profile", "parameters">> \o Auth \o <<"piv_options">>)
    BY <2>2, <2>1, GuardedConcat
  <2> QED BY <2>3, GuardedProper DEF generate_key
<1>11. Proper(import_key)
  <2>1. Plain(<<"parameters", "profile", "material">>) /\ Plain(<<"piv_options">>)
    BY DEF Plain, Words, Special, Payloads, Ordered, Before, Names, OptionSteps,
           SelectionSteps
  <2>2. Guarded(<<"parameters", "profile", "material">> \o Auth)
    BY <2>1, AccessGuarded, PlainGuarded
  <2>3. Guarded(<<"parameters", "profile", "material">> \o Auth \o <<"piv_options">>)
    BY <2>2, <2>1, GuardedConcat
  <2> QED BY <2>3, GuardedProper DEF import_key
<1>12. Proper(get_metadata)
  <2>1. Plain(<<"reference", "profile">>) /\ Plain(<<"piv_options">>)
    BY DEF Plain, Words, Special, Payloads, Ordered, Before, Names, OptionSteps,
           SelectionSteps
  <2>2. Guarded(<<"reference", "profile">> \o Auth)
    BY <2>1, AccessGuarded, PlainGuarded
  <2>3. Guarded(<<"reference", "profile">> \o Auth \o <<"piv_options">>)
    BY <2>2, <2>1, GuardedConcat
  <2> QED BY <2>3, GuardedProper DEF get_metadata
<1>13. Proper(read_algorithm_config)
  <2>1. Plain(<<"profile">>) /\ Plain(<<"piv_options">>)
    BY DEF Plain, Words, Special, Payloads, Ordered, Before, Names, OptionSteps,
           SelectionSteps
  <2>2. Guarded(<<"profile">> \o Auth)
    BY <2>1, AccessGuarded, PlainGuarded
  <2>3. Guarded(<<"profile">> \o Auth \o <<"piv_options">>)
    BY <2>2, <2>1, GuardedConcat
  <2> QED BY <2>3, GuardedProper DEF read_algorithm_config
<1>14. Proper(sign)
  <2>1. Plain(<<"piv_options">>) /\ Plain(<<"kind", "profile", "slot", "algorithm">>)
    BY DEF Plain, Words, Special, Payloads, Ordered, Before, Names, OptionSteps,
           SelectionSteps
  <2>2. Plain(<<"piv_options">> \o piv_input)
    BY <2>1, PlainInput, PlainConcat
  <2>3. Plain(<<"piv_options">> \o piv_input \o <<"kind", "profile", "slot", "algorithm">>)
    BY <2>2, <2>1, PlainConcat
  <2>4. Guarded(<<"piv_options">> \o piv_input \o <<"kind", "profile", "slot", "algorithm">> \o Auth)
    BY <2>3, AccessGuarded, PlainGuarded
  <2> QED BY <2>4, GuardedProper DEF sign
<1>15. Proper(decrypt)
  <2>1. Plain(<<"piv_options", "profile", "slot", "algorithm">>)
    BY DEF Plain, Words, Special, Payloads, Ordered, Before, Names, OptionSteps,
           SelectionSteps
  <2>2. Plain(<<"piv_options", "profile", "slot", "algorithm">> \o piv_input)
    BY <2>1, PlainInput, PlainConcat
  <2>3. Guarded(<<"piv_options", "profile", "slot", "algorithm">> \o piv_input \o Auth)
    BY <2>2, AccessGuarded, PlainGuarded
  <2> QED BY <2>3, GuardedProper DEF decrypt
<1>16. Proper(derive)
  <2>1. Plain(<<"piv_options", "limit", "profile", "slot", "algorithm", "data">>)
    BY DEF Plain, Words, Special, Payloads, Ordered, Before, Names, OptionSteps,
           SelectionSteps
  <2>2. Guarded(<<"piv_options", "limit", "profile", "slot", "algorithm", "data">> \o Auth)
    BY <2>1, AccessGuarded, PlainGuarded
  <2> QED BY <2>2, GuardedProper DEF derive
<1>17. Proper(decapsulate)
  <2>1. Plain(<<"piv_options", "profile", "slot">>)
    BY DEF Plain, Words, Special, Payloads, Ordered, Before, Names, OptionSteps,
           SelectionSteps
  <2>2. Plain(<<"piv_options", "profile", "slot">> \o piv_input)
    BY <2>1, PlainInput, PlainConcat
  <2>3. Guarded(<<"piv_options", "profile", "slot">> \o piv_input \o Auth)
    BY <2>2, AccessGuarded, PlainGuarded
  <2> QED BY <2>3, GuardedProper DEF decapsulate
<1>18. Proper(sign_streaming)
  <2>1. Plain(<<"piv_options", "profile", "slot">>)
    BY DEF Plain, Words, Special, Payloads, Ordered, Before, Names, OptionSteps,
           SelectionSteps
  <2>2. Plain(<<"piv_options", "profile", "slot">> \o streaming_input)
    BY <2>1, PlainInput, PlainConcat
  <2>3. Guarded(<<"piv_options", "profile", "slot">> \o streaming_input \o Auth)
    BY <2>2, AccessGuarded, PlainGuarded
  <2> QED BY <2>3, GuardedProper DEF sign_streaming
<1>19. Proper(require_empty_key_slot)
  <2>1. Plain(<<"profile", "piv_options">>) /\ Plain(<<"slot">>)
    BY DEF Plain, Words, Special, Payloads, Ordered, Before, Names, OptionSteps,
           SelectionSteps
  <2>2. Guarded(<<"profile", "piv_options">> \o Public)
    BY <2>1, AccessGuarded, PlainGuarded
  <2>3. Guarded(<<"profile", "piv_options">> \o Public \o <<"slot">>)
    BY <2>2, <2>1, GuardedConcat
  <2> QED BY <2>3, GuardedProper DEF require_empty_key_slot
<1>20. Proper(read_metadata_directory)
  <2>1. Plain(<<"profile">>) /\ Plain(<<"piv_options">>)
    BY DEF Plain, Words, Special, Payloads, Ordered, Before, Names, OptionSteps,
           SelectionSteps
  <2>2. Guarded(<<"profile">> \o Auth)
    BY <2>1, AccessGuarded, PlainGuarded
  <2>3. Guarded(<<"profile">> \o Auth \o <<"piv_options">>)
    BY <2>2, <2>1, GuardedConcat
  <2> QED BY <2>3, GuardedProper DEF read_metadata_directory
<1>21. Proper(read_container_name)
  <2>1. Plain(<<"profile", "reference">>) /\ Plain(<<"piv_options">>)
    BY DEF Plain, Words, Special, Payloads, Ordered, Before, Names, OptionSteps,
           SelectionSteps
  <2>2. Guarded(<<"profile", "reference">> \o Auth)
    BY <2>1, AccessGuarded, PlainGuarded
  <2>3. Guarded(<<"profile", "reference">> \o Auth \o <<"piv_options">>)
    BY <2>2, <2>1, GuardedConcat
  <2> QED BY <2>3, GuardedProper DEF read_container_name
<1>22. Proper(set_container_name)
  <2>1. Plain(<<"length", "profile", "reference", "name">>) /\ Plain(<<"piv_options">>)
    BY DEF Plain, Words, Special, Payloads, Ordered, Before, Names, OptionSteps,
           SelectionSteps
  <2>2. Guarded(<<"length", "profile", "reference", "name">> \o Auth)
    BY <2>1, AccessGuarded, PlainGuarded
  <2>3. Guarded(<<"length", "profile", "reference", "name">> \o Auth \o <<"piv_options">>)
    BY <2>2, <2>1, GuardedConcat
  <2> QED BY <2>3, GuardedProper DEF set_container_name
<1>23. Proper(move_key)
  <2>1. Plain(<<"profile", "source", "target">>) /\ Plain(<<"piv_options">>)
    BY DEF Plain, Words, Special, Payloads, Ordered, Before, Names, OptionSteps,
           SelectionSteps
  <2>2. Guarded(<<"profile", "source", "target">> \o Auth)
    BY <2>1, AccessGuarded, PlainGuarded
  <2>3. Guarded(<<"profile", "source", "target">> \o Auth \o <<"piv_options">>)
    BY <2>2, <2>1, GuardedConcat
  <2> QED BY <2>3, GuardedProper DEF move_key
<1>24. Proper(delete_key)
  <2>1. Plain(<<"profile", "slot">>) /\ Plain(<<"piv_options">>)
    BY DEF Plain, Words, Special, Payloads, Ordered, Before, Names, OptionSteps,
           SelectionSteps
  <2>2. Guarded(<<"profile", "slot">> \o Auth)
    BY <2>1, AccessGuarded, PlainGuarded
  <2>3. Guarded(<<"profile", "slot">> \o Auth \o <<"piv_options">>)
    BY <2>2, <2>1, GuardedConcat
  <2> QED BY <2>3, GuardedProper DEF delete_key
<1>25. Proper(reset_pin_puk_retries)
  <2>1. Plain(<<"profile", "pin_retries", "puk_retries">>) /\ Plain(<<"piv_options">>)
    BY DEF Plain, Words, Special, Payloads, Ordered, Before, Names, OptionSteps,
           SelectionSteps
  <2>2. Guarded(<<"profile", "pin_retries", "puk_retries">> \o Auth)
    BY <2>1, AccessGuarded, PlainGuarded
  <2>3. Guarded(<<"profile", "pin_retries", "puk_retries">> \o Auth \o <<"piv_options">>)
    BY <2>2, <2>1, GuardedConcat
  <2> QED BY <2>3, GuardedProper DEF reset_pin_puk_retries
<1>26. Proper(set_algorithm_config)
  <2>1. Plain(<<"length", "profile", "config">>) /\ Plain(<<"piv_options">>)
    BY DEF Plain, Words, Special, Payloads, Ordered, Before, Names, OptionSteps,
           SelectionSteps
  <2>2. Guarded(<<"length", "profile", "config">> \o Auth)
    BY <2>1, AccessGuarded, PlainGuarded
  <2>3. Guarded(<<"length", "profile", "config">> \o Auth \o <<"piv_options">>)
    BY <2>2, <2>1, GuardedConcat
  <2> QED BY <2>3, GuardedProper DEF set_algorithm_config
<1>27. Proper(agree_sm2)
  <2>1. Plain(<<"profile", "slot", "input">>) /\ Plain(<<"piv_options">>)
    BY DEF Plain, Words, Special, Payloads, Ordered, Before, Names, OptionSteps,
           SelectionSteps
  <2>2. Guarded(<<"profile", "slot", "input">> \o Auth)
    BY <2>1, AccessGuarded, PlainGuarded
  <2>3. Guarded(<<"profile", "slot", "input">> \o Auth \o <<"piv_options">>)
    BY <2>2, <2>1, GuardedConcat
  <2> QED BY <2>3, GuardedProper DEF agree_sm2
<1> QED
  BY <1>1, <1>2, <1>3, <1>4, <1>5, <1>6, <1>7, <1>8, <1>9, <1>10, <1>11, <1>12, <1>13,
     <1>14, <1>15, <1>16, <1>17, <1>18, <1>19, <1>20, <1>21, <1>22, <1>23, <1>24, <1>25,
     <1>26, <1>27

LEMMA ProperFactories == \A f \in Factories : Proper(f)
  BY OptionFactories, SelectionFactories, AccessFactories DEF Factories

-----------------------------------------------------------------------------
(* One call of a factory                                                   *)

CInv ==
  /\ factory \in Factories /\ arguments \in Calls(factory)
  /\ result \in {Pending, create(factory, arguments)}

(* Where the run of a factory's closure stops.                             *)
StopOf(f, a) == FirstRefused(f.steps, LAMBDA step : Check(step, a))

LEMMA StopFirst ==
  ASSUME NEW f, NEW a, f.steps \in Seq(Words)
  PROVE  /\ StopOf(f, a) \in 1 .. (Len(f.steps) + 1)
         /\ StopOf(f, a) <= Len(f.steps) => Check(f.steps[StopOf(f, a)], a).code # "OK"
         /\ \A j \in 1 .. (StopOf(f, a) - 1) : Check(f.steps[j], a).code = "OK"
<1> DEFINE n == Len(f.steps)
           Wrong == {i \in 1 .. n : Check(f.steps[i], a).code # "OK"}
           Fits(i) == /\ i <= n => Check(f.steps[i], a).code # "OK"
                      /\ \A j \in 1 .. (i - 1) : Check(f.steps[j], a).code = "OK"
<1>1. n \in Nat
  OBVIOUS
<1>2. PICK i \in 1 .. (n + 1) : (i <= n => i \in Wrong) /\ \A j \in 1 .. (i - 1) : j \notin Wrong
  <2> HIDE DEF n, Wrong
  <2> QED BY <1>1, FirstIndex
<1>3. Fits(i)
  BY <1>1, <1>2
<1>4. StopOf(f, a) = CHOOSE k \in 1 .. (n + 1) : Fits(k)
  BY DEF StopOf, FirstRefused
<1>5. StopOf(f, a) \in 1 .. (n + 1) /\ Fits(StopOf(f, a))
  <2> HIDE DEF Fits, n
  <2> QED BY <1>2, <1>3, <1>4, Zenon
<1> QED BY <1>5

(* What create returns, with that place named.                             *)
LEMMA CreateFields ==
  ASSUME NEW f, NEW a
  PROVE  LET stop == StopOf(f, a)
             whole == stop > Len(f.steps)
             end == IF whole THEN Accepted ELSE Check(f.steps[stop], a)
         IN create(f, a) =
              [code |-> end.code, error |-> end.error,
               made |-> IF whole THEN [kind |-> f.kind, access |-> Granted(f, a)]
                        ELSE [kind |-> "NULL", access |-> "none"],
               read |-> {f.steps[i] : i \in 1 .. (IF whole THEN stop - 1 ELSE stop)},
               copied |-> {f.steps[i] : i \in 1 .. (stop - 1)} \cap Copies]
  BY DEF create, StopOf

(* Failures carry codes that go with their errors.                         *)
LEMMA FailureCodes ==
  ASSUME NEW e
  PROVE  /\ failure(e).code \in {"ARG", "STATE", "PROTOCOL"}
         /\ failure(e).error = e
  BY DEF failure

(* What a caller may pass.                                                 *)
LEMMA CallArguments ==
  ASSUME NEW f, NEW a \in Calls(f)
  PROVE  /\ a.opts \in OptionsGiven /\ a.auth \in AccessGiven
         /\ a.oversize \in BOOLEAN /\ a.library \in LibrarySays
         /\ "auth" \notin Names(f.steps) => a.auth = "none"
         /\ Names(f.steps) \cap Copies = {} => ~a.oversize
         /\ \/ a.wrong = "none" /\ a.refusal = Accepted
            \/ /\ a.wrong \in Names(f.steps) \ Special
               /\ a.refusal \in {Refused} \cup Reports(a.wrong)
<1> DEFINE plain == Steps(f) \ Special
           wrongs == {<<"none", Accepted>>} \cup {<<s, Refused>> : s \in plain}
                       \cup UNION {{<<s, r>> : r \in Reports(s)} : s \in plain}
           auths == IF "auth" \in Steps(f) THEN AccessGiven ELSE {"none"}
           sizes == IF Steps(f) \cap Copies # {} THEN BOOLEAN ELSE {FALSE}
<1>1. Calls(f) =
        {[opts |-> o, auth |-> g, wrong |-> w[1], refusal |-> w[2], oversize |-> z, library |-> l] :
           o \in OptionsGiven, g \in auths, w \in wrongs, z \in sizes, l \in LibrarySays}
  BY DEF Calls
<1>2. PICK o \in OptionsGiven, g \in auths, w \in wrongs, z \in sizes, l \in LibrarySays :
        a = [opts |-> o, auth |-> g, wrong |-> w[1], refusal |-> w[2], oversize |-> z,
             library |-> l]
  <2> HIDE DEF auths, sizes, wrongs
  <2> QED BY <1>1
<1>3. \/ w = <<"none", Accepted>>
      \/ \E s \in plain : w = <<s, Refused>>
      \/ \E s \in plain : \E r \in Reports(s) : w = <<s, r>>
  OBVIOUS
<1>4. \/ w[1] = "none" /\ w[2] = Accepted
      \/ w[1] \in plain /\ w[2] \in {Refused} \cup Reports(w[1])
  BY <1>3
<1>5. a.wrong = w[1] /\ a.refusal = w[2]
  BY <1>2
<1>6. /\ a.opts \in OptionsGiven /\ a.auth \in AccessGiven
      /\ a.oversize \in BOOLEAN /\ a.library \in LibrarySays
      /\ "auth" \notin Steps(f) => a.auth = "none"
      /\ Steps(f) \cap Copies = {} => ~a.oversize
  <2> HIDE DEF wrongs
  <2> QED BY <1>2 DEF AccessGiven
<1>7. Steps(f) = Names(f.steps)
  BY DEF Steps, Names
<1> QED BY <1>4, <1>5, <1>6, <1>7

(* What a descriptor reports is a failure with its code.                   *)
LEMMA ReportsFail ==
  ASSUME NEW step, NEW r \in Reports(step)
  PROVE  r = failure(r.error) /\ r.code # "OK"
<1>1. \E e : r = failure(e)
  BY DEF Reports
<1> QED BY <1>1, FailureCodes

(* A step that refuses says why, or nothing.                               *)
LEMMA CheckSays ==
  ASSUME NEW f, NEW a \in Calls(f), NEW step
  PROVE  LET said == Check(step, a) IN
         said.error # NoError => said.code = failure(said.error).code
<1>1. Accepted.error = NoError /\ Refused.error = NoError
  BY DEF Accepted, Refused
<1>2. \A e : failure(e).code = failure(failure(e).error).code
  BY FailureCodes
<1>3. options(a.opts) \in {Accepted, Refused} /\ piv_options(a.opts) \in {Accepted, Refused}
  BY DEF options, piv_options
<1>4. access(a.auth) \in {Accepted, Refused} \/ \E e : access(a.auth) = failure(e)
  BY DEF access
<1>5. ExistingOnly(a) \in {Accepted, Refused}
  BY DEF ExistingOnly
<1>6. \/ a.library = Accepted \/ \E e : a.library = failure(e)
      \/ a.library = [code |-> "PANIC", error |-> NoError]
  BY CallArguments DEF LibrarySays
<1>7. a.refusal \in {Accepted, Refused} \/ \E e : a.refusal = failure(e)
  BY CallArguments, ReportsFail
<1>8. \/ Check(step, a) \in {Accepted, Refused} \/ \E e : Check(step, a) = failure(e)
      \/ Check(step, a) = [code |-> "PANIC", error |-> NoError]
  BY <1>3, <1>4, <1>5, <1>6, <1>7 DEF Check
<1> QED BY <1>1, <1>2, <1>8

(* A step that was passed found its argument right.                        *)
LEMMA CheckPassed ==
  ASSUME NEW f, NEW a \in Calls(f), NEW step, Check(step, a).code = "OK"
  PROVE  /\ step \in OptionSteps => a.opts \notin {"short", "invalid"}
         /\ step = "options" => a.opts # "existing"
         /\ step = "auth" => a.auth \in {"none", "pin", "management", "both"}
         /\ step = "select" => (a.opts = "existing" => a.auth = "none")
         /\ step = "limit" => ~a.oversize
         /\ step = "library" => a.library = Accepted
         /\ step \notin Special /\ step # "none" => a.wrong # step
<1>1. Refused.code # "OK" /\ \A e : failure(e).code # "OK"
  BY FailureCodes DEF Refused
<1>2. step \in OptionSteps => a.opts \in {"null", "plain", "existing"}
  BY <1>1 DEF OptionSteps, Check, options, piv_options
<1>3. step = "options" => a.opts \in {"null", "plain"}
  BY <1>1 DEF Check, options
<1>4. step = "auth" => a.auth \in {"none", "pin", "management", "both"}
  <2> SUFFICES ASSUME step = "auth" PROVE a.auth \in {"none", "pin", "management", "both"}
    OBVIOUS
  <2>1. access(a.auth).code = "OK"
    BY DEF Check
  <2>2. a.auth \in AccessGiven
    BY CallArguments
  <2>3. a.auth \notin {"short", "nullpin", "badmanagement", "badpin", "badchallenge"}
    BY <1>1, <2>1 DEF access
  <2> QED BY <2>2, <2>3 DEF AccessGiven
<1>5. step = "select" => (a.opts = "existing" => a.auth = "none")
  BY <1>1 DEF Check, ExistingOnly
<1>6. step = "limit" => ~a.oversize
  BY <1>1 DEF Check
<1>7. step = "library" => a.library = Accepted
  <2> SUFFICES ASSUME step = "library" PROVE a.library = Accepted
    OBVIOUS
  <2>1. a.library.code = "OK"
    BY DEF Check
  <2>2. a.library \in LibrarySays
    BY CallArguments
  <2> QED BY <1>1, <2>1, <2>2 DEF LibrarySays
<1>8. step \notin Special /\ step # "none" => a.wrong # step
  <2> SUFFICES ASSUME step \notin Special, step # "none", a.wrong = step PROVE FALSE
    OBVIOUS
  <2>1. Check(step, a) = a.refusal
    BY DEF Check, Special
  <2>2. a.refusal \in {Refused} \cup Reports(a.wrong)
    BY CallArguments
  <2>3. a.refusal.code # "OK"
    BY <1>1, <2>2, ReportsFail
  <2> QED BY <2>1, <2>3
<1> QED BY <1>2, <1>3, <1>4, <1>5, <1>6, <1>7, <1>8

(* The invariant of one call.                                              *)
LEMMA CallInductive == CreateInit /\ [][Create]_createVars => []CInv
<1>1. CreateInit => CInv
  BY DEF CreateInit, CInv
<1>2. CInv /\ [Create]_createVars => CInv'
  BY DEF CInv, Create, createVars
<1> QED BY <1>1, <1>2, PTL

(* For every factory, whatever is passed: the selection bit of an options  *)
(* structure is read only after the structure was found long enough, and   *)
(* a PIV payload is copied only within the budget.                         *)
THEOREM FactoriesReadSafely == CreateInit /\ [][Create]_createVars => []InputsReadSafely
<1>1. CInv => InputsReadSafely
  <2> SUFFICES ASSUME CInv PROVE InputsReadSafely
    OBVIOUS
  <2>1. CASE result = Pending
    BY <2>1 DEF Pending, InputsReadSafely
  <2>2. CASE result = create(factory, arguments)
    <3> DEFINE s == factory.steps
               stop == StopOf(factory, arguments)
    <3>1. factory \in Factories /\ arguments \in Calls(factory)
      BY DEF CInv
    <3>2. Proper(factory)
      BY <3>1, ProperFactories
    <3>3. s \in Seq(Words) /\ Ordered(s)
      BY <3>2 DEF Proper
    <3>4. /\ stop \in 1 .. (Len(s) + 1)
          /\ \A j \in 1 .. (stop - 1) : Check(s[j], arguments).code = "OK"
      BY <3>3, StopFirst
    <3>5. /\ result.read = {s[i] : i \in 1 .. (IF stop > Len(s) THEN stop - 1 ELSE stop)}
          /\ result.copied = {s[i] : i \in 1 .. (stop - 1)} \cap Copies
      BY <2>2, CreateFields
    <3>6. Len(s) \in Nat
      BY <3>3
    <3> HIDE DEF s, stop
    <3>7. ASSUME result.read \cap SelectionSteps # {}
          PROVE  arguments.opts \notin {"short", "invalid"}
      <4>1. PICK i \in 1 .. (IF stop > Len(s) THEN stop - 1 ELSE stop) : s[i] \in SelectionSteps
        BY <3>5, <3>7
      <4>2. i \in 1 .. Len(s)
        BY <3>4, <3>6, <4>1
      <4>3. PICK j \in 1 .. (i - 1) : s[j] \in OptionSteps
        BY <3>3, <4>1, <4>2 DEF Ordered, Before
      <4>4. j \in 1 .. (stop - 1)
        BY <3>4, <3>6, <4>1, <4>3
      <4> QED BY <3>1, <3>4, <4>3, <4>4, CheckPassed
    <3>8. ASSUME result.copied \cap Payloads # {} PROVE ~arguments.oversize
      <4>1. PICK i \in 1 .. (stop - 1) : s[i] \in Payloads
        BY <3>5, <3>8
      <4>2. i \in 1 .. Len(s)
        BY <3>4, <3>6, <4>1
      <4>3. PICK j \in 1 .. (i - 1) : s[j] = "limit"
        BY <3>3, <4>1, <4>2 DEF Ordered, Before
      <4>4. j \in 1 .. (stop - 1)
        BY <3>4, <3>6, <4>1, <4>3
      <4> QED BY <3>1, <3>4, <4>3, <4>4, CheckPassed
    <3> QED BY <3>7, <3>8 DEF InputsReadSafely, SelectionSteps
  <2> QED BY <2>1, <2>2 DEF CInv
<1> QED BY <1>1, CallInductive, PTL

(* A factory that ran through all its steps found all its arguments right. *)
LEMMA WholeRun ==
  ASSUME NEW f \in Factories, NEW a \in Calls(f), StopOf(f, a) > Len(f.steps)
  PROVE  /\ a.wrong = "none" /\ a.library = Accepted
         /\ a.oversize => Steps(f) \cap Copies = {"request"}
         /\ a.opts \notin {"short", "invalid"}
         /\ a.auth \in {"none", "pin", "management", "both"}
         /\ Granted(f, a) = IF a.opts = "existing" THEN "existing" ELSE a.auth
         /\ a.opts = "existing" => a.auth = "none"
<1> DEFINE s == f.steps
<1>1. Proper(f) /\ s \in Seq(Words)
  BY ProperFactories DEF Proper
<1>2. \A j \in 1 .. Len(s) : Check(s[j], a).code = "OK"
  <2>1. Len(s) \in Nat /\ StopOf(f, a) \in 1 .. (Len(s) + 1)
    BY <1>1, StopFirst
  <2>2. StopOf(f, a) - 1 = Len(s)
    BY <2>1
  <2> QED BY <1>1, <2>2, StopFirst
<1>3. ASSUME NEW x \in Names(s) PROVE Check(x, a).code = "OK"
  BY <1>1, <1>2, <1>3 DEF Names
<1>4. a.oversize => Steps(f) \cap Copies = {"request"}
  <2> SUFFICES ASSUME a.oversize PROVE Steps(f) \cap Copies = {"request"}
    OBVIOUS
  <2>1. Steps(f) = Names(s)
    BY DEF Steps, Names
  <2>2. "limit" \notin Names(s)
    BY <1>3, CheckPassed
  <2>3. Names(s) \cap Payloads = {}
    <3> SUFFICES ASSUME NEW i \in 1 .. Len(s), s[i] \in Payloads PROVE FALSE
      BY <1>1 DEF Names
    <3>1. PICK j \in 1 .. (i - 1) : s[j] = "limit"
      BY <1>1 DEF Proper, Ordered, Before
    <3>2. j \in 1 .. Len(s)
      BY <1>1, <3>1
    <3> QED BY <1>1, <2>2, <3>1, <3>2 DEF Names
  <2>4. Names(s) \cap Copies # {}
    BY CallArguments
  <2> QED BY <2>1, <2>3, <2>4 DEF Copies
<1>5. a.library = Accepted
  <2>1. "library" \in Names(s)
    BY <1>1 DEF Proper
  <2> QED BY <1>3, <2>1, CheckPassed
<1>6. a.opts \notin {"short", "invalid"}
  <2>1. PICK x \in Names(s) : x \in OptionSteps
    BY <1>1 DEF Proper
  <2> QED BY <1>3, <2>1, CheckPassed
<1>7. a.auth \in {"none", "pin", "management", "both"}
  <2>1. "auth" \in Names(s) => a.auth \in {"none", "pin", "management", "both"}
    BY <1>3, CheckPassed
  <2> QED BY <2>1, CallArguments
<1>8. a.opts = "existing" => a.auth = "none"
  <2>1. "select" \in Names(s) => (a.opts = "existing" => a.auth = "none")
    BY <1>3, CheckPassed
  <2>2. "auth" \in Names(s) => "select" \in Names(s)
    BY <1>1 DEF Proper
  <2> QED BY <2>1, <2>2, CallArguments
<1>9. a.wrong = "none"
  <2> SUFFICES ASSUME a.wrong # "none" PROVE FALSE
    OBVIOUS
  <2>1. a.wrong \in Names(s) \ Special
    BY CallArguments
  <2> QED BY <1>3, <2>1, CheckPassed
<1>10. Granted(f, a) = IF a.opts = "existing" THEN "existing" ELSE a.auth
  <2>1. Steps(f) = Names(s)
    BY DEF Steps, Names
  <2>2. CASE a.opts = "existing"
    <3>1. "options" \notin Names(s)
      BY <1>3, <2>2, CheckPassed
    <3>2. Names(s) \cap SelectionSteps # {}
      BY <1>1, <3>1 DEF Proper
    <3> QED BY <2>1, <2>2, <3>2 DEF Granted, SelectionSteps
  <2>3. CASE a.opts # "existing"
    BY <2>3 DEF Granted
  <2> QED BY <2>2, <2>3
<1> QED BY <1>4, <1>5, <1>6, <1>7, <1>8, <1>9, <1>10

(* For every factory, whatever is passed: a handle is made only of         *)
(* arguments that are all right, of the kind asked for and with the access *)
(* they say, and of input beyond the budget only where the library alone   *)
(* bounds it; a refusal makes no handle and its code goes with its error.  *)
THEOREM FactoriesMakeAsAsked == CreateInit /\ [][Create]_createVars => []MadeAsAsked
<1>1. CInv => MadeAsAsked
  <2> SUFFICES ASSUME CInv PROVE MadeAsAsked
    OBVIOUS
  <2>1. CASE result = Pending
    BY <2>1 DEF Pending, MadeAsAsked
  <2>2. CASE result = create(factory, arguments)
    <3> DEFINE s == factory.steps
               stop == StopOf(factory, arguments)
               end == IF stop > Len(s) THEN Accepted ELSE Check(s[stop], arguments)
    <3>1. factory \in Factories /\ arguments \in Calls(factory)
      BY DEF CInv
    <3>2. Proper(factory)
      BY <3>1, ProperFactories
    <3>3. factory.kind # "NULL" /\ s \in Seq(Words) /\ Len(s) \in Nat
      BY <3>2 DEF Proper
    <3>4. /\ stop \in 1 .. (Len(s) + 1)
          /\ stop <= Len(s) => Check(s[stop], arguments).code # "OK"
      BY <3>3, StopFirst
    <3>5. /\ result.code = end.code /\ result.error = end.error
          /\ result.made = IF stop > Len(s) THEN [kind |-> factory.kind,
                                                  access |-> Granted(factory, arguments)]
                           ELSE [kind |-> "NULL", access |-> "none"]
      BY <2>2, CreateFields
    <3>6. CASE stop > Len(s)
      <4>1. /\ result.code = "OK" /\ result.error = NoError
            /\ result.made.kind = factory.kind
            /\ result.made.access = Granted(factory, arguments)
        BY <3>5, <3>6 DEF Accepted
      <4>2. /\ arguments.wrong = "none" /\ arguments.library = Accepted
            /\ arguments.oversize => Steps(factory) \cap Copies = {"request"}
            /\ arguments.opts \notin {"short", "invalid"}
            /\ arguments.auth \in {"none", "pin", "management", "both"}
            /\ Granted(factory, arguments) =
                 IF arguments.opts = "existing" THEN "existing" ELSE arguments.auth
            /\ arguments.opts = "existing" => arguments.auth = "none"
        BY <3>1, <3>6, WholeRun
      <4> HIDE DEF s, stop, end
      <4> QED BY <3>3, <4>1, <4>2 DEF MadeAsAsked
    <3>7. CASE ~(stop > Len(s))
      <4>1. result.made.kind = "NULL"
        BY <3>5, <3>7
      <4>2. end = Check(s[stop], arguments) /\ end.code # "OK"
        BY <3>3, <3>4, <3>7
      <4>3. end.error # NoError => end.code = failure(end.error).code
        BY <3>1, <4>2, CheckSays
      <4> HIDE DEF s, stop, end
      <4> QED BY <3>5, <4>1, <4>2, <4>3 DEF MadeAsAsked
    <3> QED BY <3>6, <3>7
  <2> QED BY <2>1, <2>2 DEF CInv
<1> QED BY <1>1, CallInductive, PTL

-----------------------------------------------------------------------------
(* Calls of the handles: checks                                            *)

(* No step reads an operation that panicked, or the error structure.       *)
Sealed(s) ==
  /\ s \in Seq(Words) /\ "clear" \notin Names(s)
  /\ "handle" \in Names(s) => "poison" \in Names(s)

LEMMA SealedConcat ==
  ASSUME NEW s, NEW t, Sealed(s), Sealed(t)
  PROVE  Sealed(s \o t)
<1>1. s \in Seq(Words) /\ t \in Seq(Words)
  BY DEF Sealed
<1>2. s \o t \in Seq(Words) /\ Names(s \o t) = Names(s) \cup Names(t)
  BY <1>1, ConcatNames
<1> QED BY <1>2 DEF Sealed

(* Getters ask whether the operation panicked before they read it, and do  *)
(* not know the error structure.                                           *)
LEMMA GettersSealed == \A g \in Getters \cup ProfileGetters : Sealed(g.steps)
<1>1. Sealed(OfResult)
  BY DEF OfResult, Sealed, Words, Special, Names
<1>2. Sealed(OfItems)
  BY DEF OfItems, Sealed, Words, Special, Names
<1>3. Sealed(command.steps)
  BY DEF command, Getter, Sealed, Words, Special, Names
<1>4. Sealed(operation_state.steps)
  BY DEF operation_state, Getter, Sealed, Words, Special, Names
<1>5. Sealed(result_kind.steps)
  BY DEF result_kind, Getter, Sealed, Words, Special, Names
<1>6. Sealed(result_copy_bytes.steps)
  <2>1. Sealed(<<"form", "copy">>)
    BY DEF Sealed, Words, Special, Names
  <2> QED BY <1>1, <2>1, SealedConcat DEF result_copy_bytes, Getter
<1>7. Sealed(pin_status.steps)
  <2>1. Sealed(<<"out">>) /\ Sealed(<<"form">>)
    BY DEF Sealed, Words, Special, Names
  <2>2. Sealed(<<"out">> \o OfResult)
    BY <2>1, <1>1, SealedConcat
  <2> QED BY <2>1, <2>2, SealedConcat DEF pin_status, Getter
<1>8. Sealed(mutation_result.steps)
  <2>1. Sealed(<<"out">>)
    BY DEF Sealed, Words, Special, Names
  <2> QED BY <1>1, <2>1, SealedConcat DEF mutation_result, Getter
<1>9. Sealed(metadata.steps)
  <2>1. Sealed(<<"out">>)
    BY DEF Sealed, Words, Special, Names
  <2> QED BY <1>1, <2>1, SealedConcat DEF metadata, Getter
<1>10. Sealed(public_key_copy.steps)
  <2>1. Sealed(<<"form", "field", "copy">>)
    BY DEF Sealed, Words, Special, Names
  <2> QED BY <1>1, <2>1, SealedConcat DEF public_key_copy, Getter
<1>11. Sealed(key_algorithm.steps)
  <2>1. Sealed(<<"out">>) /\ Sealed(<<"form">>)
    BY DEF Sealed, Words, Special, Names
  <2>2. Sealed(<<"out">> \o OfResult)
    BY <2>1, <1>1, SealedConcat
  <2> QED BY <2>1, <2>2, SealedConcat DEF key_algorithm, Getter
<1>12. Sealed(signature_p1363.steps)
  <2>1. Sealed(<<"form", "copy">>)
    BY DEF Sealed, Words, Special, Names
  <2> QED BY <1>1, <2>1, SealedConcat DEF signature_p1363, Getter
<1>13. Sealed(signature_der.steps)
  <2>1. Sealed(<<"form", "copy">>)
    BY DEF Sealed, Words, Special, Names
  <2> QED BY <1>1, <2>1, SealedConcat DEF signature_der, Getter
<1>14. Sealed(signature_encoding.steps)
  <2>1. Sealed(<<"out">>)
    BY DEF Sealed, Words, Special, Names
  <2> QED BY <1>1, <2>1, SealedConcat DEF signature_encoding, Getter
<1>15. Sealed(batch_progress.steps)
  BY DEF batch_progress, Getter, Sealed, Words, Special, Names
<1>16. Sealed(batch_item_kind.steps)
  <2>1. Sealed(<<"out">>)
    BY DEF Sealed, Words, Special, Names
  <2> QED BY <1>2, <2>1, SealedConcat DEF batch_item_kind, Getter
<1>17. Sealed(batch_item_copy_bytes.steps)
  <2>1. Sealed(<<"form", "copy">>)
    BY DEF Sealed, Words, Special, Names
  <2> QED BY <1>2, <2>1, SealedConcat DEF batch_item_copy_bytes, Getter
<1>18. Sealed(batch_item_mutation.steps)
  <2>1. Sealed(<<"out">>) /\ Sealed(<<"form">>)
    BY DEF Sealed, Words, Special, Names
  <2>2. Sealed(<<"out">> \o OfItems)
    BY <2>1, <1>2, SealedConcat
  <2> QED BY <2>1, <2>2, SealedConcat DEF batch_item_mutation, Getter
<1>19. Sealed(batch_item_metadata.steps)
  <2>1. Sealed(<<"form", "out">>)
    BY DEF Sealed, Words, Special, Names
  <2> QED BY <1>2, <2>1, SealedConcat DEF batch_item_metadata, Getter
<1>20. Sealed(batch_item_public_key_copy.steps)
  <2>1. Sealed(<<"form", "field", "copy">>)
    BY DEF Sealed, Words, Special, Names
  <2> QED BY <1>2, <2>1, SealedConcat DEF batch_item_public_key_copy, Getter
<1>21. Sealed(batch_item_signature_p1363.steps)
  <2>1. Sealed(<<"form", "copy">>)
    BY DEF Sealed, Words, Special, Names
  <2> QED BY <1>2, <2>1, SealedConcat DEF batch_item_signature_p1363, Getter
<1>22. Sealed(batch_item_signature_der.steps)
  <2>1. Sealed(<<"form", "copy">>)
    BY DEF Sealed, Words, Special, Names
  <2> QED BY <1>2, <2>1, SealedConcat DEF batch_item_signature_der, Getter
<1>23. Sealed(batch_item_signature_encoding.steps)
  <2>1. Sealed(<<"out">>) /\ Sealed(<<"form">>)
    BY DEF Sealed, Words, Special, Names
  <2>2. Sealed(<<"out">> \o OfItems)
    BY <2>1, <1>2, SealedConcat
  <2> QED BY <2>1, <2>2, SealedConcat DEF batch_item_signature_encoding, Getter
<1>24. Sealed(directory_info.steps)
  <2>1. Sealed(<<"out">>)
    BY DEF Sealed, Words, Special, Names
  <2> QED BY <1>1, <2>1, SealedConcat DEF directory_info, Getter
<1>25. Sealed(directory_entry.steps)
  <2>1. Sealed(<<"out", "form", "index">>)
    BY DEF Sealed, Words, Special, Names
  <2> QED BY <1>1, <2>1, SealedConcat DEF directory_entry, Getter
<1>26. Sealed(batch_item_directory_info.steps)
  <2>1. Sealed(<<"form", "out">>)
    BY DEF Sealed, Words, Special, Names
  <2> QED BY <1>2, <2>1, SealedConcat DEF batch_item_directory_info, Getter
<1>27. Sealed(batch_item_directory_entry.steps)
  <2>1. Sealed(<<"form", "out", "index">>)
    BY DEF Sealed, Words, Special, Names
  <2> QED BY <1>2, <2>1, SealedConcat DEF batch_item_directory_entry, Getter
<1>28. Sealed(sm2_ephemeral_copy.steps)
  <2>1. Sealed(<<"copy">>)
    BY DEF Sealed, Words, Special, Names
  <2> QED BY <1>1, <2>1, SealedConcat DEF sm2_ephemeral_copy, Getter
<1>29. Sealed(batch_item_sm2_ephemeral_copy.steps)
  <2>1. Sealed(<<"form", "copy">>)
    BY DEF Sealed, Words, Special, Names
  <2> QED BY <1>2, <2>1, SealedConcat DEF batch_item_sm2_ephemeral_copy, Getter
<1>30. Sealed(piv_configuration_copy.steps)
  <2>1. Sealed(<<"copy">>)
    BY DEF Sealed, Words, Special, Names
  <2> QED BY <1>1, <2>1, SealedConcat DEF piv_configuration_copy, Getter
<1>31. Sealed(oath_info.steps)
  <2>1. Sealed(<<"out">>) /\ Sealed(<<"index">>)
    BY DEF Sealed, Words, Special, Names
  <2>2. Sealed(<<"out">> \o OfResult)
    BY <2>1, <1>1, SealedConcat
  <2> QED BY <2>1, <2>2, SealedConcat DEF oath_info, Getter
<1>32. Sealed(oath_copy.steps)
  <2>1. Sealed(<<"index", "form", "copy">>)
    BY DEF Sealed, Words, Special, Names
  <2> QED BY <1>1, <2>1, SealedConcat DEF oath_copy, Getter
<1>33. Sealed(openpgp_kind.steps)
  <2>1. Sealed(<<"out">>)
    BY DEF Sealed, Words, Special, Names
  <2> QED BY <1>1, <2>1, SealedConcat DEF openpgp_kind, Getter
<1>34. Sealed(admin_outcome.steps)
  BY DEF admin_outcome, Getter, Sealed, Words, Special, Names
<1>35. Sealed(profile_firmware_text.steps)
  BY DEF profile_firmware_text, Getter, Sealed, Words, Special, Names
<1>36. Sealed(profile_firmware_version.steps)
  BY DEF profile_firmware_version, Getter, Sealed, Words, Special, Names
<1>37. Sealed(profile_model_copy.steps)
  BY DEF profile_model_copy, Getter, Sealed, Words, Special, Names
<1>38. Sealed(profile_serial_u32.steps)
  BY DEF profile_serial_u32, Getter, Sealed, Words, Special, Names
<1>39. Sealed(profile_piv_support.steps)
  BY DEF profile_piv_support, Getter, Sealed, Words, Special, Names
<1>40. Sealed(profile_piv_algorithm_from_wire.steps)
  BY DEF profile_piv_algorithm_from_wire, Getter, Sealed, Words, Special, Names
<1>41. Sealed(profile_piv_capabilities.steps)
  BY DEF profile_piv_capabilities, Getter, Sealed, Words, Special, Names
<1> QED
  BY <1>3, <1>4, <1>5, <1>6, <1>7, <1>8, <1>9, <1>10, <1>11, <1>12, <1>13, <1>14, <1>15,
     <1>16, <1>17, <1>18, <1>19, <1>20, <1>21, <1>22, <1>23, <1>24, <1>25, <1>26, <1>27,
     <1>28, <1>29, <1>30, <1>31, <1>32, <1>33, <1>34, <1>35, <1>36, <1>37, <1>38, <1>39,
     <1>40, <1>41 DEF Getters, ProfileGetters

(* A call brings a handle that it may use, and what is wrong with it is    *)
(* something that one of its steps can refuse.                             *)
Contract(steps, c) ==
  /\ c.handle \in {h \in Handles : ops[h] # None} \cup {Null}
  /\ "handle" \notin Names(steps) => c.handle = Null
  /\ c.error \in {"null", "short", "pod"}
  /\ \/ c.wrong = "none" /\ c.refusal = Accepted
     \/ c.wrong \in Names(steps) /\ c.refusal \in Refusals(c.wrong)

LEMMA CallContract ==
  ASSUME NEW steps, NEW kinds, NEW c \in CallsWith(steps, kinds)
  PROVE  /\ Contract(steps, c) /\ c.kinds = kinds
         /\ c = [handle |-> c.handle, error |-> c.error, kinds |-> c.kinds,
                 buffer |-> c.buffer, wrong |-> c.wrong, refusal |-> c.refusal]
<1> DEFINE names == {steps[i] : i \in DOMAIN steps}
           buffers == IF "copy" \in names THEN {"nolen", "query", "small", "fits"} ELSE {"query"}
           wrongs == {<<b, "none", Accepted>> : b \in buffers}
                       \cup UNION {{<<"query", s, r>> : r \in Refusals(s)} : s \in names}
           used == {x \in Handles : ops[x] # None} \cup {Null}
           handles == IF "handle" \in names THEN used ELSE {Null}
           errors == IF "clear" \in names THEN {"null", "short", "pod"} ELSE {"null"}
<1>1. CallsWith(steps, kinds) =
        {[handle |-> h, error |-> e, kinds |-> kinds,
          buffer |-> w[1], wrong |-> w[2], refusal |-> w[3]] :
           h \in handles, e \in errors, w \in wrongs}
  BY DEF CallsWith
<1>2. PICK h \in handles, e \in errors, w \in wrongs :
        c = [handle |-> h, error |-> e, kinds |-> kinds,
             buffer |-> w[1], wrong |-> w[2], refusal |-> w[3]]
  <2> HIDE DEF handles, errors, wrongs
  <2> QED BY <1>1
<1>3. \/ \E b \in buffers : w = <<b, "none", Accepted>>
      \/ \E s \in names : \E r \in Refusals(s) : w = <<"query", s, r>>
  <2> HIDE DEF buffers, names
  <2> QED OBVIOUS
<1>4. \/ c.wrong = "none" /\ c.refusal = Accepted
      \/ c.wrong \in names /\ c.refusal \in Refusals(c.wrong)
  <2> HIDE DEF buffers, names, wrongs
  <2> QED BY <1>2, <1>3
<1>5. c.handle \in handles /\ c.error \in errors /\ c.kinds = kinds
  <2> HIDE DEF handles, errors, wrongs
  <2> QED BY <1>2
<1>6. /\ c.handle \in used /\ ("handle" \notin names => c.handle = Null)
      /\ c.error \in {"null", "short", "pod"}
  <2> HIDE DEF names, wrongs
  <2> QED BY <1>5
<1>7. names = Names(steps)
  BY DEF Names
<1>8. c = [handle |-> c.handle, error |-> c.error, kinds |-> c.kinds,
            buffer |-> c.buffer, wrong |-> c.wrong, refusal |-> c.refusal]
  <2> HIDE DEF handles, errors, wrongs
  <2> QED BY <1>2
<1>9. Contract(steps, c)
  <2> HIDE DEF names, handles, errors, wrongs
  <2> QED BY <1>4, <1>6, <1>7 DEF Contract
<1> QED BY <1>5, <1>8, <1>9

LEMMA StopChecks ==
  ASSUME NEW steps \in Seq(Words), NEW c
  PROVE  /\ Stop(steps, c) \in 1 .. (Len(steps) + 1)
         /\ Stop(steps, c) <= Len(steps) => Verdict(steps[Stop(steps, c)], c).code # "OK"
         /\ \A j \in 1 .. (Stop(steps, c) - 1) : Verdict(steps[j], c).code = "OK"
<1> DEFINE n == Len(steps)
           Wrong == {i \in 1 .. n : Verdict(steps[i], c).code # "OK"}
           Fits(i) == /\ i <= n => Verdict(steps[i], c).code # "OK"
                      /\ \A j \in 1 .. (i - 1) : Verdict(steps[j], c).code = "OK"
<1>1. n \in Nat
  OBVIOUS
<1>2. PICK i \in 1 .. (n + 1) : (i <= n => i \in Wrong) /\ \A j \in 1 .. (i - 1) : j \notin Wrong
  <2> HIDE DEF n, Wrong
  <2> QED BY <1>1, FirstIndex
<1>3. Fits(i)
  BY <1>1, <1>2
<1>4. Stop(steps, c) = CHOOSE k \in 1 .. (n + 1) : Fits(k)
  BY DEF Stop, FirstRefused
<1>5. Stop(steps, c) \in 1 .. (n + 1) /\ Fits(Stop(steps, c))
  <2> HIDE DEF Fits, n
  <2> QED BY <1>2, <1>3, <1>4, Zenon
<1> QED BY <1>5

(* The outcome of the checks is the word of one of them; all of them pass, *)
(* or the call is refused.                                                 *)
LEMMA OutcomeChecks ==
  ASSUME NEW steps \in Seq(Words), NEW c
  PROVE  \/ /\ Outcome(steps, c) = Accepted
            /\ \A x \in Names(steps) : Verdict(x, c).code = "OK"
         \/ /\ Outcome(steps, c).code # "OK"
            /\ \E x \in Names(steps) : Outcome(steps, c) = Verdict(x, c)
<1> DEFINE stop == Stop(steps, c)
<1>1. Len(steps) \in Nat /\ DOMAIN steps = 1 .. Len(steps)
  OBVIOUS
<1>2. /\ stop \in 1 .. (Len(steps) + 1)
      /\ stop <= Len(steps) => Verdict(steps[stop], c).code # "OK"
      /\ \A j \in 1 .. (stop - 1) : Verdict(steps[j], c).code = "OK"
  BY StopChecks
<1>3. Outcome(steps, c) = IF stop > Len(steps) THEN Accepted ELSE Verdict(steps[stop], c)
  BY DEF Outcome
<1> HIDE DEF stop
<1>4. CASE stop > Len(steps)
  <2>1. stop - 1 = Len(steps)
    BY <1>1, <1>2, <1>4
  <2>2. \A j \in DOMAIN steps : Verdict(steps[j], c).code = "OK"
    BY <1>1, <1>2, <2>1
  <2>3. \A x \in Names(steps) : Verdict(x, c).code = "OK"
    BY <2>2 DEF Names
  <2> QED BY <1>3, <1>4, <2>3
<1>5. CASE ~(stop > Len(steps))
  <2>1. stop \in DOMAIN steps /\ stop <= Len(steps)
    BY <1>1, <1>2, <1>5
  <2>2. steps[stop] \in Names(steps)
    BY <2>1 DEF Names
  <2> QED BY <1>2, <1>3, <1>5, <2>1, <2>2
<1> QED BY <1>4, <1>5

(* What a step says when it refuses: a code alone, or a failure of the     *)
(* library's.                                                              *)
LEMMA VerdictSays ==
  ASSUME NEW steps, NEW c, Contract(steps, c), NEW x, Verdict(x, c).code # "OK"
  PROVE  \/ Verdict(x, c) \in {Code(k) : k \in {"ARG", "TYPE", "STATE", "SMALL", "PANIC"}}
         \/ x = "field" /\ Verdict(x, c) = Code("PROTOCOL")
         \/ x \in {"library", "limit"} /\ Verdict(x, c) \in LibrarySays \cup Refusals("limit")
<1>1. Accepted.code = "OK"
  BY DEF Accepted
<1>2. CASE x \in {"clear", "handle", "poison", "type", "awaiting", "result", "progress",
                   "failed", "copy"}
  BY <1>1, <1>2 DEF Verdict, Pass, copy
<1>3. CASE x \notin {"clear", "handle", "poison", "type", "awaiting", "result", "progress",
                      "failed", "copy"}
  <2>1. Verdict(x, c) = IF c.wrong = x THEN c.refusal ELSE Accepted
    BY <1>3 DEF Verdict
  <2>2. c.wrong = x /\ Verdict(x, c) = c.refusal
    BY <1>1, <2>1
  <2>3. c.refusal \in Refusals(x)
    BY <1>1, <2>2 DEF Contract
  <2>4. \/ Refusals(x) \subseteq {Code(k) : k \in {"ARG", "TYPE", "STATE", "SMALL", "PANIC"}}
        \/ x = "field" /\ Refusals(x) = {Code("ARG"), Code("TYPE"), Code("PROTOCOL")}
        \/ x = "limit"
        \/ x = "library" /\ Refusals(x) = LibrarySays \ {Accepted}
    BY DEF Refusals
  <2> QED BY <2>2, <2>3, <2>4
<1> QED BY <1>2, <1>3

(* An outcome that may be reported.                                        *)
Reportable(o) ==
  /\ o.error \in {NoError} \cup {r.error : r \in LibrarySays \cup Refusals("limit")}
  /\ Reported(NoError, o.error) = o.error
  /\ o.code = "OK" => o.error = NoError
  /\ o.code # "OK" /\ o.error # NoError => failure(o.error).code = o.code
  /\ o.code = "PROTOCOL" => o.error # NoError

LEMMA SilentReportable ==
  ASSUME NEW o, o = Accepted \/ o \in {Code(k) : k \in {"ARG", "TYPE", "STATE", "SMALL", "PANIC"}}
  PROVE  Reportable(o) /\ o.error = NoError /\ o.code # "PROTOCOL"
  BY DEF Reportable, Accepted, Code, Reported

LEMMA LibraryReportable ==
  ASSUME NEW o \in LibrarySays \cup Refusals("limit"), o.code # "OK"
  PROVE  Reportable(o)
<1>1. o.error \in {r.error : r \in LibrarySays \cup Refusals("limit")}
  OBVIOUS
<1>2. \/ o \in {failure(Error(k)) : k \in {"InvalidArgument", "UnsupportedFeature", "LimitExceeded"}}
      \/ o = [code |-> "PANIC", error |-> NoError]
  BY DEF LibrarySays, Refusals, Accepted
<1>3. CASE o = [code |-> "PANIC", error |-> NoError]
  BY <1>1, <1>3 DEF Reportable, Reported
<1>4. ASSUME NEW k \in {"InvalidArgument", "UnsupportedFeature", "LimitExceeded"},
             o = failure(Error(k))
      PROVE  Reportable(o)
  <2>1. o.error = Error(k) /\ o.code = failure(o.error).code
    BY <1>4, FailureCodes
  <2>2. Error(k) # NoError /\ Reported(NoError, Error(k)) = Error(k)
    BY DEF Error, NoError, Reported
  <2>3. o.code # "OK"
    OBVIOUS
  <2> QED BY <1>1, <2>1, <2>2, <2>3 DEF Reportable
<1> QED BY <1>2, <1>3, <1>4

LEMMA OutcomeReportable ==
  ASSUME NEW steps \in Seq(Words), NEW c, Contract(steps, c), "field" \notin Names(steps)
  PROVE  Reportable(Outcome(steps, c))
<1>1. CASE Outcome(steps, c) = Accepted
  BY <1>1, SilentReportable
<1>2. ASSUME NEW x \in Names(steps), Outcome(steps, c) = Verdict(x, c),
             Verdict(x, c).code # "OK"
      PROVE  Reportable(Outcome(steps, c))
  <2>1. \/ Verdict(x, c) \in {Code(k) : k \in {"ARG", "TYPE", "STATE", "SMALL", "PANIC"}}
        \/ Verdict(x, c) \in LibrarySays \cup Refusals("limit")
    BY <1>2, VerdictSays
  <2> QED BY <1>2, <2>1, SilentReportable, LibraryReportable
<1> QED BY <1>1, <1>2, OutcomeChecks

(* Steps that never come to the library say nothing but a code.            *)
LEMMA OutcomeSilent ==
  ASSUME NEW steps \in Seq(Words), NEW c, Contract(steps, c),
         Names(steps) \cap {"field", "library", "limit"} = {}
  PROVE  Outcome(steps, c).error = NoError /\ Outcome(steps, c).code # "PROTOCOL"
<1>1. CASE Outcome(steps, c) = Accepted
  BY <1>1, SilentReportable
<1>2. ASSUME NEW x \in Names(steps), Outcome(steps, c) = Verdict(x, c),
             Verdict(x, c).code # "OK"
      PROVE  Outcome(steps, c).error = NoError /\ Outcome(steps, c).code # "PROTOCOL"
  <2>1. Verdict(x, c) \in {Code(k) : k \in {"ARG", "TYPE", "STATE", "SMALL", "PANIC"}}
    BY <1>2, VerdictSays
  <2> QED BY <1>2, <2>1, SilentReportable
<1> QED BY <1>1, <1>2, OutcomeChecks

(* A handle that panicked does not pass.                                   *)
LEMMA PoisonStops ==
  ASSUME NEW steps \in Seq(Words), NEW c, "poison" \in Names(steps),
         ops[c.handle].poisoned
  PROVE  Outcome(steps, c).code # "OK"
<1>1. Verdict("poison", c).code # "OK"
  BY DEF Verdict, Pass, Code
<1>2. Accepted.code = "OK"
  BY DEF Accepted
<1> QED BY <1>1, <1>2, OutcomeChecks

(* A NULL handle does not pass either.                                     *)
LEMMA NullStops ==
  ASSUME NEW steps \in Seq(Words), NEW c, "handle" \in Names(steps), ops[c.handle] = None
  PROVE  Outcome(steps, c).code # "OK"
<1>1. Verdict("handle", c).code # "OK"
  BY DEF Verdict, Pass, Code
<1> QED BY <1>1, OutcomeChecks

(* What the error structure holds if the call came to it.                  *)
LEMMA PodSays ==
  ASSUME NEW call, NEW steps, NEW c, NEW code, NEW gave, NEW error,
         pod' = PodAfter(steps, c, error), Returned(call, steps, c, code, gave),
         Reported(NoError, error) = error
  PROVE  /\ last'.call = call /\ last'.handle = c.handle
         /\ last'.code = code /\ last'.gave = gave
         /\ last'.error = "pod" => pod' = error
<1>1. Passed("clear", steps, c) /\ c.error = "pod" => pod' = error
  BY DEF PodAfter, clear_error
<1>2. last'.error = "pod" => Passed("clear", steps, c) /\ c.error = "pod"
  BY DEF Returned
<1> QED BY <1>1, <1>2 DEF Returned

(* Steps without the error structure leave the caller's alone.             *)
LEMMA NoPod ==
  ASSUME NEW call, NEW steps, NEW c, NEW code, NEW gave,
         "clear" \notin Names(steps), Returned(call, steps, c, code, gave)
  PROVE  /\ last'.call = call /\ last'.handle = c.handle
         /\ last'.code = code /\ last'.gave = gave /\ last'.error = "null"
<1>1. ~Passed("clear", steps, c)
  BY DEF Passed, Names
<1> QED BY <1>1 DEF Returned

-----------------------------------------------------------------------------
(* Calls of the handles: the invariant                                     *)

(* The NULL handle has no operation, and an operation that panicked was    *)
(* cancelled with it.                                                      *)
AbiInv ==
  /\ ops \in [Handles \cup {Null} -> Operations \cup {None}] /\ ops[Null] = None
  /\ \A h \in Handles : ops[h] # None /\ ops[h].poisoned => ops[h].state = "Cancelled"

States == {"Created", "AwaitingResponse", "Completed", "Failed", "Cancelled", "ResultTaken"}

LEMMA OperationFields ==
  ASSUME NEW o \in Operations
  PROVE  /\ o # None /\ o.kind \in Kinds /\ o.state \in States
         /\ o.poisoned \in BOOLEAN /\ o.error \in Failures \cup {None} /\ o.begun \in BOOLEAN
  BY CAbiAssumption DEF Operations, States

(* One handle gets another operation, or none.                             *)
LEMMA HandleSet ==
  ASSUME AbiInv, NEW h \in Handles, NEW o \in Operations \cup {None},
         o # None /\ o.poisoned => o.state = "Cancelled",
         ops' = [ops EXCEPT ![h] = o]
  PROVE  AbiInv' /\ ops'[h] = o
<1>1. Null \notin Handles
  BY CAbiAssumption
<1>2. ops' \in [Handles \cup {Null} -> Operations \cup {None}] /\ ops'[Null] = None
  BY <1>1 DEF AbiInv
<1>3. ops'[h] = o /\ \A x \in Handles : x # h => ops'[x] = ops[x]
  BY DEF AbiInv
<1> QED BY <1>2, <1>3 DEF AbiInv

LEMMA CancelKeeps ==
  ASSUME NEW o \in Operations
  PROVE  /\ Cancelled(o) \in Operations
         /\ Cancelled(o).poisoned = o.poisoned
         /\ o.state = "Cancelled" => Cancelled(o) = o
         /\ o.state \in {"Created", "AwaitingResponse"} => Cancelled(o).state = "Cancelled"
  BY DEF Cancelled, Operations

LEMMA PoisonSeals ==
  ASSUME NEW o \in Operations, o.state \in {"Created", "AwaitingResponse"}
  PROVE  Poisoned(o) \in Operations /\ Poisoned(o).state = "Cancelled"
<1> DEFINE q == [o EXCEPT !.poisoned = TRUE]
<1>1. q \in Operations /\ q.state = o.state
  BY DEF Operations
<1>2. Poisoned(o) = Cancelled(q)
  BY DEF Poisoned
<1> HIDE DEF q
<1> QED BY <1>1, <1>2, CancelKeeps

-----------------------------------------------------------------------------
(* The steps of each call                                                  *)

LEMMA NewSteps ==
  LET s == <<"out", "clear", "library">> IN
  s \in Seq(Words) /\ Names(s) = {"out", "clear", "library"}
  BY DEF Words, Special, Names

LEMMA DriveSteps ==
  Drive \in Seq(Words) /\ Names(Drive) = {"step", "clear", "handle", "poison"}
  BY DEF Drive, Words, Special, Names

LEMMA ErrorSteps ==
  LET s == <<"out", "clear", "handle", "poison", "failed">> IN
  s \in Seq(Words) /\ Names(s) = {"out", "clear", "handle", "poison", "failed"}
  BY DEF Words, Special, Names

LEMMA TakeSteps ==
  LET s == <<"out", "handle", "poison", "type", "result", "panic">> IN
  s \in Seq(Words) /\ Names(s) = {"out", "handle", "poison", "type", "result", "panic"}
  BY DEF Words, Special, Names

LEMMA GetSteps ==
  ASSUME NEW g \in Getters \cup ProfileGetters
  PROVE  Sealed(g.steps \o <<"panic">>)
<1>1. Sealed(<<"panic">>)
  BY DEF Sealed, Words, Special, Names
<1> QED BY <1>1, GettersSealed, SealedConcat

LEMMA JudgeSteps ==
  ASSUME NEW g \in Judges
  PROVE  g.steps \in Seq(Words) /\ Names(g.steps) \cap {"handle", "field"} = {}
<1>1. LET s == profile_piv_require_algorithm.steps IN
      s \in Seq(Words) /\ Names(s) \cap {"handle", "field"} = {}
  BY DEF profile_piv_require_algorithm, Getter, Words, Special, Names
<1>2. LET s == profile_with_legacy_piv_extensions.steps IN
      s \in Seq(Words) /\ Names(s) \cap {"handle", "field"} = {}
  BY DEF profile_with_legacy_piv_extensions, Getter, Words, Special, Names
<1>3. LET s == piv_container_name_validate.steps IN
      s \in Seq(Words) /\ Names(s) \cap {"handle", "field"} = {}
  BY DEF piv_container_name_validate, Getter, Words, Special, Names
<1>4. LET s == piv_admin_data_flags.steps IN
      s \in Seq(Words) /\ Names(s) \cap {"handle", "field"} = {}
  BY DEF piv_admin_data_flags, Getter, Words, Special, Names
<1>5. LET s == piv_printed_management_key_copy.steps IN
      s \in Seq(Words) /\ Names(s) \cap {"handle", "field"} = {}
  BY DEF piv_printed_management_key_copy, Getter, Words, Special, Names
<1> QED BY <1>1, <1>2, <1>3, <1>4, <1>5 DEF Judges

(* The place where the checks stop depends on what the steps say alone.    *)
LEMMA StopSame ==
  ASSUME NEW steps \in Seq(Words), NEW c, NEW d,
         \A x \in Names(steps) : Verdict(x, c) = Verdict(x, d)
  PROVE  Stop(steps, c) = Stop(steps, d)
<1> DEFINE p == Stop(steps, c)
           q == Stop(steps, d)
           n == Len(steps)
<1>1. n \in Nat /\ DOMAIN steps = 1 .. n
  OBVIOUS
<1>2. \A i \in 1 .. n : Verdict(steps[i], c) = Verdict(steps[i], d)
  BY <1>1 DEF Names
<1>3. /\ p \in 1 .. (n + 1) /\ (p <= n => Verdict(steps[p], c).code # "OK")
      /\ \A j \in 1 .. (p - 1) : Verdict(steps[j], c).code = "OK"
  BY StopChecks
<1>4. /\ q \in 1 .. (n + 1) /\ (q <= n => Verdict(steps[q], d).code # "OK")
      /\ \A j \in 1 .. (q - 1) : Verdict(steps[j], d).code = "OK"
  BY StopChecks
<1> HIDE DEF p, q, n
<1>5. ~(p < q)
  <2> SUFFICES ASSUME p < q PROVE FALSE
    OBVIOUS
  <2>1. p \in 1 .. (q - 1) /\ p \in 1 .. n
    BY <1>1, <1>3, <1>4
  <2> QED BY <1>1, <1>2, <1>3, <1>4, <2>1
<1>6. ~(q < p)
  <2> SUFFICES ASSUME q < p PROVE FALSE
    OBVIOUS
  <2>1. q \in 1 .. (p - 1) /\ q \in 1 .. n
    BY <1>1, <1>3, <1>4
  <2> QED BY <1>1, <1>2, <1>3, <1>4, <2>1
<1>7. p = q
  BY <1>1, <1>3, <1>4, <1>5, <1>6
<1> QED BY <1>7 DEF p, q

(* What a step must keep of a handle that panicked.                        *)
Sealing ==
  \A h \in Handles :
    ops[h] # None /\ ops[h].poisoned /\ last'.handle = h /\ last'.call # "free" =>
      /\ ops'[h] = ops[h] /\ ops[h].state = "Cancelled"
      /\ last'.code = "OK" => last'.call = "cancel"
      /\ last'.gave \in {"nothing", "zero"}
      /\ last'.error = "pod" => pod' = NoError

(* An outcome that is reported as it is, by a call that does not drive.    *)
LEMMA ReportedTrue ==
  ASSUME NEW o, Reportable(o), last'.code = o.code,
         last'.call \notin {"start", "advance", "error"},
         last'.error = "pod" => pod' = o.error
  PROVE  ErrorTrue'
  BY DEF ErrorTrue, Reportable

LEMMA MakingStep ==
  ASSUME AbiInv, NEW h \in Handles, NEW kind \in Kinds, operation_new(h, kind)
  PROVE  AbiInv' /\ ErrorTrue' /\ Sealing
<1> DEFINE steps == <<"out", "clear", "library">>
<1>1. PICK c \in CallsWith(steps, {}) :
        LET outcome == Outcome(steps, c)
            d == [c EXCEPT !.handle = IF outcome.code = "OK" THEN h ELSE Null]
        IN /\ ops[h] = None
           /\ pod' = PodAfter(steps, c, outcome.error)
           /\ Returned("new", steps, d, outcome.code, "nothing")
           /\ ops' = IF outcome.code = "OK"
                     THEN [ops EXCEPT ![h] = [kind |-> kind, state |-> "Created",
                                              poisoned |-> FALSE, error |-> None,
                                              begun |-> kind = "Admin"]]
                     ELSE ops
  BY DEF operation_new
<1> DEFINE outcome == Outcome(steps, c)
           d == [c EXCEPT !.handle = IF outcome.code = "OK" THEN h ELSE Null]
           o == [kind |-> kind, state |-> "Created", poisoned |-> FALSE, error |-> None,
                 begun |-> kind = "Admin"]
<1>2. steps \in Seq(Words) /\ Names(steps) = {"out", "clear", "library"}
  BY NewSteps
<1>3. /\ Contract(steps, c)
      /\ c = [handle |-> c.handle, error |-> c.error, kinds |-> c.kinds,
              buffer |-> c.buffer, wrong |-> c.wrong, refusal |-> c.refusal]
  BY CallContract
<1>4. /\ d.error = c.error /\ d.wrong = c.wrong /\ d.refusal = c.refusal
      /\ d.handle = IF outcome.code = "OK" THEN h ELSE Null
  <2> HIDE DEF outcome
  <2> QED BY <1>3
<1> HIDE DEF steps, outcome, d
<1>5. Reportable(outcome)
  BY <1>2, <1>3, OutcomeReportable DEF outcome
<1>6. Stop(steps, d) = Stop(steps, c)
  <2>1. \A x \in {"out", "clear", "library"} : Verdict(x, d) = Verdict(x, c)
    BY <1>4 DEF Verdict
  <2> QED BY <1>2, <2>1, StopSame
<1>7. /\ ops[h] = None /\ pod' = PodAfter(steps, c, outcome.error)
      /\ Returned("new", steps, d, outcome.code, "nothing")
      /\ ops' = IF outcome.code = "OK" THEN [ops EXCEPT ![h] = o] ELSE ops
  BY <1>1 DEF outcome, d
<1>8. /\ last'.call = "new" /\ last'.handle = d.handle
      /\ last'.code = outcome.code /\ last'.gave = "nothing"
      /\ last'.error = "pod" => pod' = outcome.error
  <2>1. Passed("clear", steps, d) => Passed("clear", steps, c)
    BY <1>6 DEF Passed
  <2>2. Reported(NoError, outcome.error) = outcome.error
    BY <1>5 DEF Reportable
  <2>3. Passed("clear", steps, c) /\ c.error = "pod" => pod' = outcome.error
    BY <1>7, <2>2 DEF PodAfter, clear_error
  <2>4. last'.error = "pod" => Passed("clear", steps, d) /\ d.error = "pod"
    BY <1>7 DEF Returned
  <2>5. /\ last'.call = "new" /\ last'.handle = d.handle
        /\ last'.code = outcome.code /\ last'.gave = "nothing"
    BY <1>7 DEF Returned
  <2> QED BY <1>4, <2>1, <2>3, <2>4, <2>5
<1>9. AbiInv'
  <2>1. o \in Operations /\ ~o.poisoned
    BY DEF Operations
  <2> HIDE DEF o
  <2>2. CASE outcome.code = "OK"
    BY <1>7, <2>1, <2>2, HandleSet
  <2>3. CASE outcome.code # "OK"
    BY <1>7, <2>3 DEF AbiInv
  <2> QED BY <2>2, <2>3
<1>10. ErrorTrue'
  BY <1>5, <1>8, ReportedTrue
<1>11. Sealing
  <2>1. Null \notin Handles
    BY CAbiAssumption
  <2>2. last'.handle \in {h, Null}
    BY <1>4, <1>8
  <2> QED BY <1>7, <2>1, <2>2 DEF Sealing
<1> QED BY <1>9, <1>10, <1>11

(* A call that changes neither an operation nor the error structure, and   *)
(* asks whether the handle panicked.                                       *)
LEMMA SealedReading ==
  ASSUME AbiInv, NEW steps, NEW c, Contract(steps, c), Sealed(steps),
         NEW call, call # "cancel", NEW gave,
         Returned(call, steps, c, Outcome(steps, c).code, gave),
         Outcome(steps, c).code # "OK" => ops' = ops /\ gave = "nothing"
  PROVE  ErrorTrue' /\ Sealing
<1>1. steps \in Seq(Words) /\ "clear" \notin Names(steps)
  BY DEF Sealed
<1>2. /\ last'.call = call /\ last'.handle = c.handle
      /\ last'.code = Outcome(steps, c).code /\ last'.gave = gave /\ last'.error = "null"
  BY <1>1, NoPod
<1>3. ErrorTrue'
  BY <1>2 DEF ErrorTrue
<1>4. ASSUME NEW h \in Handles, ops[h] # None, ops[h].poisoned, last'.handle = h
      PROVE  /\ ops'[h] = ops[h] /\ ops[h].state = "Cancelled"
             /\ last'.code # "OK" /\ last'.gave = "nothing"
  <2>1. c.handle = h /\ h # Null
    BY <1>2, <1>4, CAbiAssumption
  <2>2. "poison" \in Names(steps)
    BY <2>1 DEF Contract, Sealed
  <2>3. Outcome(steps, c).code # "OK"
    BY <1>1, <1>4, <2>1, <2>2, PoisonStops
  <2> QED BY <1>2, <1>4, <2>3 DEF AbiInv
<1>5. Sealing
  BY <1>2, <1>4 DEF Sealing
<1> QED BY <1>3, <1>5

LEMMA GettingStep ==
  ASSUME AbiInv, NEW g \in Getters \cup ProfileGetters, Get(g)
  PROVE  AbiInv' /\ ErrorTrue' /\ Sealing
<1> DEFINE steps == g.steps \o <<"panic">>
<1>1. PICK c \in CallsWith(steps, g.kinds) :
        /\ Returned("get", steps, c, Outcome(steps, c).code,
                    IF Outcome(steps, c).code = "OK"
                       /\ ~(\E i \in DOMAIN steps : steps[i] = "copy" /\ c.buffer = "query")
                    THEN "value" ELSE "nothing")
        /\ UNCHANGED <<ops, profiles, pod>>
  BY DEF Get
<1> DEFINE gave == IF Outcome(steps, c).code = "OK"
                      /\ ~(\E i \in DOMAIN steps : steps[i] = "copy" /\ c.buffer = "query")
                   THEN "value" ELSE "nothing"
<1>2. Contract(steps, c)
  BY CallContract
<1>3. Sealed(steps)
  BY GetSteps
<1>4. /\ Returned("get", steps, c, Outcome(steps, c).code, gave)
      /\ Outcome(steps, c).code # "OK" => gave = "nothing"
  BY <1>1
<1> HIDE DEF steps, gave
<1>5. ErrorTrue' /\ Sealing
  BY <1>1, <1>2, <1>3, <1>4, SealedReading
<1>6. AbiInv'
  BY <1>1 DEF AbiInv
<1> QED BY <1>5, <1>6

LEMMA TakingStep ==
  ASSUME AbiInv, take_profile
  PROVE  AbiInv' /\ ErrorTrue' /\ Sealing
<1> DEFINE steps == <<"out", "handle", "poison", "type", "result", "panic">>
<1>1. PICK c \in CallsWith(steps, {"Probe"}) :
        /\ ops' = IF Outcome(steps, c).code = "OK"
                  THEN [ops EXCEPT ![c.handle].state = "ResultTaken"] ELSE ops
        /\ Returned("take_profile", steps, c, Outcome(steps, c).code,
                    IF Outcome(steps, c).code = "OK" THEN "profile" ELSE "nothing")
  BY DEF take_profile
<1> DEFINE gave == IF Outcome(steps, c).code = "OK" THEN "profile" ELSE "nothing"
           op == ops[c.handle]
           o == [op EXCEPT !.state = "ResultTaken"]
<1>2. Contract(steps, c)
  BY CallContract
<1>3. steps \in Seq(Words) /\ Names(steps) = {"out", "handle", "poison", "type", "result", "panic"}
  BY TakeSteps
<1>4. Sealed(steps)
  BY <1>3 DEF Sealed
<1>5. /\ Returned("take_profile", steps, c, Outcome(steps, c).code, gave)
      /\ Outcome(steps, c).code # "OK" => gave = "nothing" /\ ops' = ops
  BY <1>1
<1>6. ops' = IF Outcome(steps, c).code = "OK" THEN [ops EXCEPT ![c.handle] = o] ELSE ops
  BY <1>1
<1> HIDE DEF steps, gave
<1>7. ErrorTrue' /\ Sealing
  BY <1>2, <1>4, <1>5, SealedReading
<1>8. AbiInv'
  <2>1. CASE Outcome(steps, c).code = "OK"
    <3>1. op # None /\ ~op.poisoned
      BY <1>3, <2>1, NullStops, PoisonStops
    <3>2. c.handle \in Handles /\ op \in Operations
      BY <1>2, <3>1 DEF Contract, AbiInv
    <3>3. o \in Operations /\ o.poisoned = op.poisoned
      BY <3>2 DEF Operations
    <3> HIDE DEF o, op
    <3> QED BY <1>6, <2>1, <3>1, <3>2, <3>3, HandleSet
  <2>2. CASE Outcome(steps, c).code # "OK"
    BY <1>6, <2>2 DEF AbiInv
  <2> QED BY <2>1, <2>2
<1> QED BY <1>7, <1>8

LEMMA ReportingStep ==
  ASSUME AbiInv, operation_error
  PROVE  AbiInv' /\ ErrorTrue' /\ Sealing
<1> DEFINE steps == <<"out", "clear", "handle", "poison", "failed">>
<1>1. PICK c \in CallsWith(steps, {}) :
        /\ pod' = PodAfter(steps, c, IF Outcome(steps, c).code = "OK" THEN ops[c.handle].error
                                     ELSE NoError)
        /\ Returned("error", steps, c, Outcome(steps, c).code, "nothing")
        /\ UNCHANGED <<ops, profiles>>
  BY DEF operation_error
<1> DEFINE code == Outcome(steps, c).code
           error == IF code = "OK" THEN ops[c.handle].error ELSE NoError
<1>2. steps \in Seq(Words) /\ Names(steps) = {"out", "clear", "handle", "poison", "failed"}
  BY ErrorSteps
<1>3. Contract(steps, c)
  BY CallContract
<1> HIDE DEF steps
<1>4. CASE code = "OK"
  <2>1. ops[c.handle] # None /\ ~ops[c.handle].poisoned
    BY <1>2, <1>4, NullStops, PoisonStops
  <2>2. c.handle \in Handles /\ ops[c.handle] \in Operations
    BY <1>3, <2>1 DEF Contract, AbiInv
  <2>3. ops[c.handle].error # None
    <3>1. \A x \in Names(steps) : Verdict(x, c).code = "OK"
      BY <1>2, <1>4, OutcomeChecks
    <3>2. Verdict("failed", c).code = "OK"
      BY <1>2, <3>1
    <3> QED BY <3>2 DEF Verdict, Pass, Code
  <2>4. error \in Failures /\ error = [kind |-> error.kind, present |-> error.present]
    BY <1>4, <2>2, <2>3, OperationFields, CAbiAssumption
  <2>5. Reported(NoError, error) = error
    <3> HIDE DEF error
    <3> QED BY <2>4 DEF Reported, NoError
  <2>6. /\ pod' = PodAfter(steps, c, error) /\ Returned("error", steps, c, code, "nothing")
    BY <1>1
  <2>7. /\ last'.call = "error" /\ last'.handle = c.handle /\ last'.code = "OK"
        /\ last'.gave = "nothing" /\ (last'.error = "pod" => pod' = error)
    <3> HIDE DEF error, code
    <3> QED BY <1>4, <2>5, <2>6, PodSays
  <2>8. error = ops'[last'.handle].error
    BY <1>1, <1>4, <2>7
  <2>9. ErrorTrue'
    <3> HIDE DEF error, code
    <3> QED BY <2>4, <2>7, <2>8 DEF ErrorTrue
  <2>10. Sealing
    BY <2>1, <2>7 DEF Sealing
  <2>11. AbiInv'
    BY <1>1 DEF AbiInv
  <2> QED BY <2>9, <2>10, <2>11
<1>5. CASE code # "OK"
  <2>1. Outcome(steps, c).code # "PROTOCOL"
    BY <1>2, <1>3, OutcomeSilent
  <2>2. Reported(NoError, NoError) = NoError
    BY DEF Reported
  <2>3. pod' = PodAfter(steps, c, NoError) /\ Returned("error", steps, c, code, "nothing")
    BY <1>1, <1>5
  <2>4. /\ last'.call = "error" /\ last'.handle = c.handle /\ last'.code = code
        /\ last'.gave = "nothing" /\ (last'.error = "pod" => pod' = NoError)
    <3> HIDE DEF code
    <3> QED BY <2>2, <2>3, PodSays
  <2>5. ErrorTrue'
    <3>1. code # "PROTOCOL"
      BY <2>1
    <3> HIDE DEF code
    <3> QED BY <1>5, <2>4, <3>1 DEF ErrorTrue
  <2>6. Sealing
    BY <1>1, <1>5, <2>4 DEF Sealing, AbiInv
  <2>7. AbiInv'
    BY <1>1 DEF AbiInv
  <2> QED BY <2>5, <2>6, <2>7
<1> QED BY <1>4, <1>5

LEMMA JudgingStep ==
  ASSUME AbiInv, NEW g \in Judges, Judge(g)
  PROVE  AbiInv' /\ ErrorTrue' /\ Sealing
<1> DEFINE steps == g.steps
<1>1. PICK c \in CallsWith(steps, {}) :
        LET outcome == Outcome(steps, c)
            makes == g = profile_with_legacy_piv_extensions /\ outcome.code = "OK"
        IN /\ pod' = PodAfter(steps, c, outcome.error)
           /\ Returned("judge", steps, c, outcome.code, IF makes THEN "profile" ELSE "nothing")
           /\ UNCHANGED ops
  BY DEF Judge
<1> DEFINE outcome == Outcome(steps, c)
           gave == IF g = profile_with_legacy_piv_extensions /\ outcome.code = "OK"
                   THEN "profile" ELSE "nothing"
<1>2. steps \in Seq(Words) /\ Names(steps) \cap {"handle", "field"} = {}
  BY JudgeSteps
<1>3. Contract(steps, c)
  BY CallContract
<1>4. c.handle = Null
  BY <1>2, <1>3 DEF Contract
<1>5. Reportable(outcome)
  BY <1>2, <1>3, OutcomeReportable
<1>6. /\ pod' = PodAfter(steps, c, outcome.error)
      /\ Returned("judge", steps, c, outcome.code, gave) /\ UNCHANGED ops
  BY <1>1
<1> HIDE DEF steps, outcome, gave
<1>7. /\ last'.call = "judge" /\ last'.handle = Null /\ last'.code = outcome.code
      /\ last'.error = "pod" => pod' = outcome.error
  BY <1>4, <1>5, <1>6, PodSays DEF Reportable
<1>8. ErrorTrue'
  BY <1>5, <1>7, ReportedTrue
<1>9. AbiInv' /\ Sealing
  BY <1>6, <1>7, CAbiAssumption DEF AbiInv, Sealing
<1> QED BY <1>8, <1>9

(* start and advance that are refused before they come to the operation.   *)
LEMMA DriveRefused ==
  ASSUME AbiInv, NEW which \in {"start", "advance"}, NEW c, Contract(Drive, c),
         Outcome(Drive, c).code # "OK",
         Driven(which, c, Outcome(Drive, c).code, Outcome(Drive, c).error, "zero"), UNCHANGED ops
  PROVE  AbiInv' /\ ErrorTrue' /\ Sealing
<1>1. Drive \in Seq(Words) /\ Names(Drive) = {"step", "clear", "handle", "poison"}
  BY DriveSteps
<1>2. Outcome(Drive, c).error = NoError /\ Outcome(Drive, c).code # "PROTOCOL"
  BY <1>1, OutcomeSilent
<1>3. Reported(NoError, NoError) = NoError
  BY DEF Reported
<1>4. /\ last'.call = which /\ last'.handle = c.handle /\ last'.code = Outcome(Drive, c).code
      /\ last'.gave = "zero" /\ (last'.error = "pod" => pod' = NoError)
  BY <1>2, <1>3, PodSays DEF Driven
<1>5. ErrorTrue'
  BY <1>2, <1>4 DEF ErrorTrue
<1>6. AbiInv' /\ Sealing
  BY <1>4 DEF AbiInv, Sealing
<1> QED BY <1>5, <1>6

(* start and advance that came to an operation: what they say of it.       *)
LEMMA DriveAnswered ==
  ASSUME AbiInv, NEW which \in {"start", "advance"}, NEW c, c.handle \in Handles,
         ~ops[c.handle].poisoned,
         NEW code, NEW error, NEW gave, Driven(which, c, code, error, gave),
         error \in Failures \cup {NoError, StateError},
         code = "OK" => error = NoError,
         code # "OK" /\ error # NoError => failure(error).code = code,
         code = "PROTOCOL" => error # NoError,
         gave = "exchange" <=> (code = "OK" /\ ops'[c.handle].state = "AwaitingResponse"),
         gave = "done" <=> (code = "OK" /\ ops'[c.handle].state = "Completed"),
         error # NoError =>
           error = StateError \/ (ops'[c.handle].state = "Failed" /\ ops'[c.handle].error = error)
  PROVE  ErrorTrue' /\ Sealing
<1>1. Reported(NoError, error) = error
  <2>1. error = [kind |-> error.kind, present |-> error.present]
    BY CAbiAssumption DEF NoError, StateError, Error
  <2> QED BY <2>1 DEF Reported, NoError
<1>2. /\ last'.call = which /\ last'.handle = c.handle /\ last'.code = code
      /\ last'.gave = gave /\ (last'.error = "pod" => pod' = error)
  BY <1>1, PodSays DEF Driven
<1>3. ErrorTrue'
  BY <1>2 DEF ErrorTrue
<1>4. Sealing
  BY <1>2 DEF Sealing
<1> QED BY <1>3, <1>4

(* The operation with its state, its error and its progress set.           *)
With(o, s, e, b) ==
  [kind |-> o.kind, poisoned |-> o.poisoned, error |-> e, begun |-> b, state |-> s]

(* Fields of an operation set one after another.                           *)
LEMMA StateSet ==
  ASSUME AbiInv, NEW h \in Handles, ops[h] \in Operations, ops[h].poisoned = FALSE,
         NEW s \in States,
         ops' = [ops EXCEPT ![h].state = s]
  PROVE  AbiInv' /\ ops'[h].state = s
<1> DEFINE o == ops[h]
           q == [o EXCEPT !.state = s]
<1>1. ops \in [Handles \cup {Null} -> Operations \cup {None}]
  BY DEF AbiInv
<1>2. ops' = [ops EXCEPT ![h] = q]
  BY <1>1
<1>3. /\ o = With(o, o.state, o.error, o.begun)
      /\ o.error \in Failures \cup {None} /\ o.begun \in BOOLEAN
  BY DEF Operations, With
<1> HIDE DEF o
<1>4. q = With(o, s, o.error, o.begun)
  BY <1>3 DEF With
<1> HIDE DEF q
<1>5. q \in Operations /\ q.poisoned = FALSE /\ q.state = s
  <2>1. o.poisoned = FALSE /\ o.kind \in Kinds
    BY OperationFields DEF o
  <2> QED BY <1>3, <1>4, <2>1 DEF With, Operations, States
<1> QED BY <1>2, <1>5, HandleSet

LEMMA ProgressSet ==
  ASSUME AbiInv, NEW h \in Handles, ops[h] \in Operations, ops[h].poisoned = FALSE,
         NEW s \in States, NEW b \in BOOLEAN,
         ops' = [ops EXCEPT ![h].state = s, ![h].begun = b]
  PROVE  AbiInv' /\ ops'[h].state = s
<1> DEFINE o == ops[h]
           p == [o EXCEPT !.state = s]
           q == [p EXCEPT !.begun = b]
<1>1. ops \in [Handles \cup {Null} -> Operations \cup {None}]
  BY DEF AbiInv
<1>2. ops' = [ops EXCEPT ![h] = q]
  BY <1>1
<1>3. /\ o = With(o, o.state, o.error, o.begun)
      /\ o.error \in Failures \cup {None} /\ o.begun \in BOOLEAN
  BY DEF Operations, With
<1> HIDE DEF o
<1>4. q = With(o, s, o.error, b)
  <2>1. p = With(o, s, o.error, o.begun)
    BY <1>3 DEF With
  <2> HIDE DEF p
  <2> QED BY <2>1 DEF With
<1> HIDE DEF q
<1>5. q \in Operations /\ q.poisoned = FALSE /\ q.state = s
  <2>1. o.poisoned = FALSE /\ o.kind \in Kinds
    BY OperationFields DEF o
  <2> QED BY <1>3, <1>4, <2>1 DEF With, Operations, States
<1> QED BY <1>2, <1>5, HandleSet

LEMMA FailureSet ==
  ASSUME AbiInv, NEW h \in Handles, ops[h] \in Operations, ops[h].poisoned = FALSE,
         NEW s \in States, NEW e \in Failures, NEW b \in BOOLEAN,
         ops' = [ops EXCEPT ![h].state = s, ![h].error = e, ![h].begun = b]
  PROVE  AbiInv' /\ ops'[h].state = s /\ ops'[h].error = e
<1> DEFINE o == ops[h]
           p == [o EXCEPT !.state = s]
           m == [p EXCEPT !.error = e]
           q == [m EXCEPT !.begun = b]
<1>1. ops \in [Handles \cup {Null} -> Operations \cup {None}]
  BY DEF AbiInv
<1>2. ops' = [ops EXCEPT ![h] = q]
  BY <1>1
<1>3. /\ o = With(o, o.state, o.error, o.begun)
      /\ o.error \in Failures \cup {None} /\ o.begun \in BOOLEAN
  BY DEF Operations, With
<1> HIDE DEF o
<1>4. q = With(o, s, e, b)
  <2>1. p = With(o, s, o.error, o.begun)
    BY <1>3 DEF With
  <2> HIDE DEF p
  <2>2. m = With(o, s, e, o.begun)
    BY <2>1 DEF With
  <2> HIDE DEF m
  <2> QED BY <2>2 DEF With
<1> HIDE DEF q
<1>5. q \in Operations /\ q.poisoned = FALSE /\ q.state = s /\ q.error = e
  <2>1. o.poisoned = FALSE /\ o.kind \in Kinds
    BY OperationFields DEF o
  <2> QED BY <1>3, <1>4, <2>1 DEF With, Operations, States
<1> QED BY <1>2, <1>5, HandleSet

LEMMA DrivingStep ==
  ASSUME AbiInv, NEW which \in {"start", "advance"}, drive(which)
  PROVE  AbiInv' /\ ErrorTrue' /\ Sealing
<1>1. PICK c \in CallsWith(Drive, {}) :
        LET op == ops[c.handle]
            checks == Outcome(Drive, c)
        IN \/ /\ checks.code # "OK"
              /\ Driven(which, c, checks.code, checks.error, "zero") /\ UNCHANGED ops
           \/ /\ checks.code = "OK" /\ ~Allowed(which, op)
              /\ Driven(which, c, failure(StateError).code, StateError, "zero") /\ UNCHANGED ops
           \/ /\ checks.code = "OK" /\ Allowed(which, op)
              /\ \/ /\ \E b \in Begun(which, op) :
                         ops' = [ops EXCEPT ![c.handle].state = "AwaitingResponse",
                                            ![c.handle].begun = b]
                    /\ Driven(which, c, "OK", NoError, "exchange")
                 \/ /\ ops' = [ops EXCEPT ![c.handle].state = "Completed"]
                    /\ Driven(which, c, "OK", NoError, "done")
                 \/ \E e \in Failures, b \in Begun(which, op) :
                      /\ ops' = [ops EXCEPT ![c.handle].state = "Failed",
                                            ![c.handle].error = e, ![c.handle].begun = b]
                      /\ Driven(which, c, failure(e).code, e, "zero")
                 \/ /\ ops' = [ops EXCEPT ![c.handle] = Poisoned(op)]
                    /\ Driven(which, c, "PANIC", NoError, "zero")
  BY DEF drive
<1> DEFINE op == ops[c.handle]
           checks == Outcome(Drive, c)
<1>2. Contract(Drive, c)
  BY CallContract
<1>3. CASE checks.code # "OK"
  BY <1>1, <1>2, <1>3, DriveRefused
<1>4. ASSUME checks.code = "OK"
      PROVE  op # None /\ op.poisoned = FALSE /\ c.handle \in Handles /\ op \in Operations
  <2>1. op # None /\ ~op.poisoned
    BY <1>4, DriveSteps, NullStops, PoisonStops
  <2>2. c.handle \in Handles /\ op \in Operations
    BY <1>2, <2>1 DEF Contract, AbiInv
  <2> QED BY <2>1, <2>2, OperationFields
<1>5. CASE checks.code = "OK" /\ ~Allowed(which, op)
  <2>1. /\ Driven(which, c, failure(StateError).code, StateError, "zero") /\ UNCHANGED ops
    BY <1>1, <1>5
  <2>2. failure(StateError).code = "STATE" /\ StateError # NoError
    BY DEF failure, StateError, Error, NoError
  <2>3. ErrorTrue' /\ Sealing
    BY <1>4, <1>5, <2>1, <2>2, DriveAnswered
  <2>4. AbiInv'
    BY <2>1 DEF AbiInv
  <2> QED BY <2>3, <2>4
<1>6. CASE checks.code = "OK" /\ Allowed(which, op)
  <2>1. Begun(which, op) \subseteq BOOLEAN
    BY <1>4, <1>6, OperationFields DEF Begun
  <2>2. c.handle \in Handles /\ ~ops[c.handle].poisoned
    BY <1>4, <1>6
  <2>3. CASE /\ \E b \in Begun(which, op) :
                  ops' = [ops EXCEPT ![c.handle].state = "AwaitingResponse",
                                     ![c.handle].begun = b]
             /\ Driven(which, c, "OK", NoError, "exchange")
    <3>1. PICK b \in BOOLEAN : ops' = [ops EXCEPT ![c.handle].state = "AwaitingResponse",
                                                  ![c.handle].begun = b]
      BY <2>1, <2>3
    <3>2. AbiInv' /\ ops'[c.handle].state = "AwaitingResponse"
      BY <1>4, <1>6, <3>1, ProgressSet DEF States
    <3>3. ErrorTrue' /\ Sealing
      <4> HIDE DEF op, checks
      <4> QED BY <2>3, <2>2, <3>2, DriveAnswered
    <3> QED BY <3>2, <3>3
  <2>4. CASE /\ ops' = [ops EXCEPT ![c.handle].state = "Completed"]
             /\ Driven(which, c, "OK", NoError, "done")
    <3>1. AbiInv' /\ ops'[c.handle].state = "Completed"
      BY <1>4, <1>6, <2>4, StateSet DEF States
    <3>2. ErrorTrue' /\ Sealing
      <4> HIDE DEF op, checks
      <4> QED BY <2>4, <2>2, <3>1, DriveAnswered
    <3> QED BY <3>1, <3>2
  <2>5. CASE \E e \in Failures, b \in Begun(which, op) :
               /\ ops' = [ops EXCEPT ![c.handle].state = "Failed", ![c.handle].error = e,
                                     ![c.handle].begun = b]
               /\ Driven(which, c, failure(e).code, e, "zero")
    <3>1. PICK e \in Failures, b \in BOOLEAN :
            /\ ops' = [ops EXCEPT ![c.handle].state = "Failed", ![c.handle].error = e,
                                  ![c.handle].begun = b]
            /\ Driven(which, c, failure(e).code, e, "zero")
      BY <2>1, <2>5
    <3>2. AbiInv' /\ ops'[c.handle].state = "Failed" /\ ops'[c.handle].error = e
      BY <1>4, <1>6, <3>1, FailureSet DEF States
    <3>3. e # NoError /\ failure(e).code # "OK"
      BY CAbiAssumption, FailureCodes DEF NoError
    <3>4. ErrorTrue' /\ Sealing
      <4> HIDE DEF op, checks
      <4> QED BY <2>2, <3>1, <3>2, <3>3, DriveAnswered
    <3> QED BY <3>2, <3>4
  <2>6. CASE /\ ops' = [ops EXCEPT ![c.handle] = Poisoned(op)]
             /\ Driven(which, c, "PANIC", NoError, "zero")
    <3>1. op.state \in {"Created", "AwaitingResponse"}
      BY <1>6 DEF Allowed
    <3>2. Poisoned(op) \in Operations /\ Poisoned(op).state = "Cancelled"
      BY <1>4, <1>6, <3>1, PoisonSeals
    <3>3. AbiInv'
      <4> HIDE DEF op
      <4> QED BY <1>4, <1>6, <2>6, <3>2, HandleSet
    <3>4. ErrorTrue' /\ Sealing
      <4> HIDE DEF op, checks
      <4> QED BY <2>6, <2>2, DriveAnswered
    <3> QED BY <3>3, <3>4
  <2> QED BY <1>1, <1>6, <2>3, <2>4, <2>5, <2>6
<1> QED BY <1>3, <1>5, <1>6

LEMMA OtherSteps ==
  ASSUME AbiInv,
         \/ \E h \in Handles : operation_free(h)
         \/ advance_refused \/ operation_cancel \/ profile_free
  PROVE  AbiInv' /\ ErrorTrue' /\ Sealing
<1>1. ASSUME NEW h \in Handles, operation_free(h) PROVE AbiInv' /\ ErrorTrue' /\ Sealing
  <2>1. AbiInv'
    BY <1>1, HandleSet DEF operation_free
  <2>2. last'.call = "free" /\ last'.error = "null"
    BY <1>1 DEF operation_free
  <2> QED BY <2>1, <2>2 DEF ErrorTrue, Sealing
<1>2. ASSUME advance_refused PROVE AbiInv' /\ ErrorTrue' /\ Sealing
  <2>1. PICK h \in {x \in Handles : ops[x] # None} \cup {Null}, e \in {"null", "short", "pod"} :
          /\ pod' = IF e = "pod" THEN clear_error(pod) ELSE pod
          /\ last' = [call |-> "advance", handle |-> h, code |-> "ARG", gave |-> "zero",
                      error |-> e]
          /\ UNCHANGED <<ops, profiles>>
    BY <1>2 DEF advance_refused
  <2>2. /\ last'.call = "advance" /\ last'.code = "ARG" /\ last'.gave = "zero"
        /\ last'.error = "pod" => pod' = NoError
    BY <2>1 DEF clear_error
  <2> QED BY <2>1, <2>2 DEF AbiInv, ErrorTrue, Sealing
<1>3. ASSUME operation_cancel PROVE AbiInv' /\ ErrorTrue' /\ Sealing
  <2>1. PICK h \in {x \in Handles : ops[x] # None} \cup {Null} :
          /\ ops' = IF ops[h] = None THEN ops ELSE [ops EXCEPT ![h] = Cancelled(ops[h])]
          /\ last' = [call |-> "cancel", handle |-> h,
                      code |-> IF ops[h] = None THEN "ARG" ELSE "OK",
                      gave |-> "nothing", error |-> "null"]
    BY <1>3 DEF operation_cancel
  <2>2. last'.call = "cancel" /\ last'.handle = h /\ last'.gave = "nothing" /\ last'.error = "null"
    BY <2>1
  <2>3. CASE ops[h] = None
    BY <2>1, <2>2, <2>3 DEF AbiInv, ErrorTrue, Sealing
  <2>4. CASE ops[h] # None
    <3>1. h \in Handles /\ ops[h] \in Operations
      BY <2>4 DEF AbiInv
    <3> DEFINE o == Cancelled(ops[h])
    <3>2. /\ o \in Operations /\ o.poisoned = ops[h].poisoned
          /\ ops[h].state = "Cancelled" => o = ops[h]
      BY <3>1, CancelKeeps
    <3>3. ops[h].poisoned => o = ops[h] /\ ops[h].state = "Cancelled"
      BY <2>4, <3>1, <3>2 DEF AbiInv
    <3>4. ops' = [ops EXCEPT ![h] = o]
      BY <2>1, <2>4
    <3> HIDE DEF o
    <3>5. AbiInv' /\ ops'[h] = o
      BY <3>1, <3>2, <3>3, <3>4, HandleSet
    <3>6. Sealing
      BY <2>2, <3>3, <3>5 DEF Sealing
    <3> QED BY <2>2, <3>5, <3>6 DEF ErrorTrue
  <2> QED BY <2>3, <2>4
<1>4. ASSUME profile_free PROVE AbiInv' /\ ErrorTrue' /\ Sealing
  <2>1. last'.handle = Null /\ last'.error = "null" /\ UNCHANGED ops
    BY <1>4 DEF profile_free
  <2> QED BY <2>1, CAbiAssumption DEF AbiInv, ErrorTrue, Sealing
<1> QED BY <1>1, <1>2, <1>3, <1>4

LEMMA EveryCall ==
  ASSUME AbiInv, Next
  PROVE  AbiInv' /\ ErrorTrue' /\ Sealing
<1>1. CASE \E h \in Handles, kind \in Kinds : operation_new(h, kind)
  BY <1>1, MakingStep
<1>2. CASE \E which \in {"start", "advance"} : drive(which)
  BY <1>2, DrivingStep
<1>3. CASE \/ \E h \in Handles : operation_free(h)
           \/ advance_refused \/ operation_cancel \/ profile_free
  BY <1>3, OtherSteps
<1>4. CASE take_profile
  BY <1>4, TakingStep
<1>5. CASE operation_error
  BY <1>5, ReportingStep
<1>6. CASE \E g \in Getters \cup ProfileGetters : Get(g)
  BY <1>6, GettingStep
<1>7. CASE \E g \in Judges : Judge(g)
  BY <1>7, JudgingStep
<1> QED BY <1>1, <1>2, <1>3, <1>4, <1>5, <1>6, <1>7 DEF Next

LEMMA AbiInductive == Spec => []AbiInv
<1>1. Init => AbiInv
  BY DEF Init, AbiInv
<1>2. AbiInv /\ [Next]_vars => AbiInv'
  <2>1. CASE Next
    BY <2>1, EveryCall
  <2>2. CASE UNCHANGED vars
    BY <2>2 DEF vars, AbiInv
  <2> QED BY <2>1, <2>2
<1> QED BY <1>1, <1>2, PTL DEF Spec

(* For any number of handles, kinds and failures: what the shared error    *)
(* structure holds after a call that came to it is about that call alone,  *)
(* and what start and advance say agrees with the state of the operation.  *)
THEOREM ErrorsTrue == Spec => []ErrorTrue
<1>1. Init => ErrorTrue
  <2>1. Init => last.error = "null"
    BY DEF Init
  <2> QED BY <2>1 DEF ErrorTrue
<1>2. AbiInv /\ ErrorTrue /\ [Next]_vars => ErrorTrue'
  <2> SUFFICES ASSUME AbiInv, ErrorTrue, [Next]_vars PROVE ErrorTrue'
    OBVIOUS
  <2>1. CASE Next
    BY <2>1, EveryCall
  <2>2. CASE UNCHANGED vars
    <3>1. last' = last /\ pod' = pod /\ ops' = ops
      BY <2>2 DEF vars
    <3> QED BY <3>1 DEF ErrorTrue
  <2> QED BY <2>1, <2>2
<1> QED BY <1>1, <1>2, AbiInductive, PTL DEF Spec

(* For any number of handles, kinds and failures: no call but free changes *)
(* a handle that panicked, reads anything out of it or drives it.          *)
THEOREM PoisonedStaySealed == Spec => PoisonSealed
<1>1. AbiInv /\ [Next]_vars =>
        [\A h \in Handles :
           ops[h] # None /\ ops[h].poisoned /\ last'.handle = h /\ last'.call # "free" =>
             /\ ops'[h] = ops[h] /\ ops[h].state = "Cancelled"
             /\ last'.code = "OK" => last'.call = "cancel"
             /\ last'.gave \in {"nothing", "zero"}
             /\ last'.error = "pod" => pod' = NoError]_vars
  BY EveryCall DEF Sealing
<1> QED BY <1>1, AbiInductive, PTL DEF Spec, PoisonSealed
=============================================================================
