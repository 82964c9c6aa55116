---------------------------- MODULE AdminProofs -----------------------------
(***************************************************************************)
(* Proofs about Admin for any cards, requests, PINs, retry counters and    *)
(* exchange limits.                                                        *)
(***************************************************************************)
EXTENDS Admin, TLAPS

WriteCommands ==
  {[Write("pin", p) EXCEPT !.reprobe = FALSE] : p \in Pins}
    \cup {Write("data", d) : d \in Nat}
    \cup {Write("all", Factory)}
    \cup {Write(s, b) : s \in FlagNames, b \in BOOLEAN}
    \cup {Write("features", f) : f \in SUBSET Bits}
    \cup {Write("sm2", x) : x \in [Sm2Ids -> Int]}

CommandType == {Plain(s) : s \in {"Select", "Authenticate", "Read"}} \cup WriteCommands

TypeOK ==
  /\ card \in CardType /\ before \in CardType
  /\ retries \in 0 .. MaxRetries /\ retriesBefore \in 0 .. MaxRetries
  /\ pending \in CommandType \cup {Nothing}
  /\ confirmed \in Nat /\ applied \in Nat /\ used \in Nat
  /\ reprobe \in BOOLEAN /\ verified \in BOOLEAN
  /\ access.policy \in {"None", "Existing", "Pin"}

(* The settings after the first k of the patch, and the writes from the    *)
(* k-th setting on.                                                        *)
Upto(b, r, k) ==
  [s \in DOMAIN b |->
     IF \E i \in 1 .. k : PatchOrder[i] = s THEN Patched(b, r)[s] ELSE b[s]]

Change(b, r, k) ==
  LET s == PatchOrder[k] IN
  IF Patched(b, r)[s] = b[s] THEN <<>> ELSE <<Write(s, Patched(b, r)[s])>>

From5(b, r) == Change(b, r, 5)

From4(b, r) == Change(b, r, 4) \o From5(b, r)

From3(b, r) == Change(b, r, 3) \o From4(b, r)

From2(b, r) == Change(b, r, 2) \o From3(b, r)

From1(b, r) == Change(b, r, 1) \o From2(b, r)

Rest(b, r, k) ==
  CASE k = 1 -> From1(b, r)
    [] k = 2 -> From2(b, r)
    [] k = 3 -> From3(b, r)
    [] k = 4 -> From4(b, r)
    [] k = 5 -> From5(b, r)
    [] OTHER -> <<>>

(* What is left of an operation, by the command that is pending.           *)
Left ==
  /\ pending.stage = "Select" =>
       /\ access.policy # "Existing"
       /\ queue = IF access.policy = "Pin"
                  THEN <<Plain("Authenticate")>> \o Target(request) ELSE Target(request)
  /\ pending.stage = "Authenticate" => access.policy = "Pin" /\ queue = Target(request)
  /\ pending.stage = "Read" =>
       queue = <<>> /\ request.kind \in Kinds \ {"VerifyPin", "ChangePin", "Set", "FactoryReset"}
  /\ pending.stage = "Write" =>
       /\ request.kind \in {"ChangePin", "Set", "FactoryReset", "Configure", "ConfigureSm2"}
       /\ pending.set = "all" => request.kind = "FactoryReset"
       /\ request.kind # "Configure" => queue = <<>>

(* A patch that writes has written the settings before the pending one.    *)
Patching ==
  pending.stage = "Write" /\ request.kind = "Configure" =>
    \E j \in 1 .. 5 :
      /\ card = Upto(before, request, j - 1)
      /\ pending.set = PatchOrder[j]
      /\ pending = Write(PatchOrder[j], Patched(before, request)[PatchOrder[j]])
      /\ queue = Rest(before, request, j + 1)

(* A running operation: nothing has changed before its first write, what   *)
(* is confirmed is what was applied, and past VERIFY the PIN was right.    *)
Running ==
  /\ pending.stage # "None" =>
       /\ WellFormed(request) /\ Accepted(request, access)
       /\ outcome = "none" /\ applied = confirmed
       /\ pending.reprobe => reprobe
  /\ pending.stage \in {"Select", "Authenticate"} => retries = retriesBefore
  /\ pending.stage \in {"Select", "Authenticate", "Read"} => card = before
  /\ pending.stage \in {"Read", "Write"} /\ access.policy = "Pin" =>
       verified /\ access.pin = before.pin

IInv ==
  TypeOK /\ Left /\ Patching /\ Running /\ ProgressTold /\ PatchInOrder /\ Authorized
-----------------------------------------------------------------------------
(* Patches: the writes and the settings they lead through                  *)

(* The five settings a patch can write, in order.                          *)
LEMMA OrderIs ==
  /\ Len(PatchOrder) = 5
  /\ PatchOrder[1] = "led" /\ PatchOrder[2] = "ndefReadOnly" /\ PatchOrder[3] = "ndefEnabled"
  /\ PatchOrder[4] = "webusb" /\ PatchOrder[5] = "features"
BY DEF PatchOrder, Flags

(* A patched card is a card: the flags are flags, the features bits.       *)
LEMMA PatchedType ==
  ASSUME NEW b \in CardType, NEW r, WellFormed(r), r.kind = "Configure", r.values \subseteq Bits
  PROVE  Patched(b, r) \in CardType
<1>1. DOMAIN b = {"led", "ndefReadOnly", "ndefEnabled", "webusb", "features", "sm2", "data", "pin"}
  BY DEF CardType
<1>2. DOMAIN r.flags \subseteq FlagNames /\ \A f \in DOMAIN r.flags : r.flags[f] \in BOOLEAN
  BY DEF WellFormed
<1>3. ASSUME NEW s \in FlagNames PROVE Patched(b, r)[s] \in BOOLEAN
  BY <1>1, <1>2 DEF Patched, CardType, FlagNames
<1>4. Patched(b, r).features \in SUBSET Bits
  BY <1>1, <1>2 DEF Patched, CardType, FlagNames
<1>5. /\ Patched(b, r).sm2 = b.sm2 /\ Patched(b, r).data = b.data /\ Patched(b, r).pin = b.pin
  BY <1>1, <1>2 DEF Patched, FlagNames
<1> DEFINE c == Patched(b, r)
<1>6. c = [s \in DOMAIN b |-> c[s]]
  BY DEF Patched
<1>7. /\ c.led \in BOOLEAN /\ c.ndefReadOnly \in BOOLEAN /\ c.ndefEnabled \in BOOLEAN
      /\ c.webusb \in BOOLEAN
  BY <1>3 DEF FlagNames
<1>8. b.sm2 \in [Sm2Ids -> Int] /\ b.data \in Nat /\ b.pin \in Pins
  BY DEF CardType
<1> HIDE DEF c
<1>9. /\ c.features \in SUBSET Bits /\ c.sm2 \in [Sm2Ids -> Int] /\ c.data \in Nat /\ c.pin \in Pins
  BY <1>4, <1>5, <1>8 DEF c
<1>10. c \in CardType
  BY <1>1, <1>6, <1>7, <1>9 DEF CardType
<1> QED BY <1>10 DEF c

(* Writing one more setting of the patch.                                  *)
LEMMA UptoNext ==
  ASSUME NEW b \in CardType, NEW r, NEW j \in 1 .. 5
  PROVE  /\ PatchOrder[j] \in DOMAIN b
         /\ Upto(b, r, j) =
              [Upto(b, r, j - 1) EXCEPT ![PatchOrder[j]] = Patched(b, r)[PatchOrder[j]]]
         /\ Patched(b, r)[PatchOrder[j]] = b[PatchOrder[j]] => Upto(b, r, j) = Upto(b, r, j - 1)
<1> DEFINE S == {"led", "ndefReadOnly", "ndefEnabled", "webusb", "features", "sm2", "data", "pin"}
<1>1. DOMAIN b = S
  BY DEF CardType
<1>2. PatchOrder[j] \in S
  BY OrderIs
<1>3. \A s \in S : (\E i \in 1 .. j : PatchOrder[i] = s)
                     <=> (PatchOrder[j] = s \/ \E i \in 1 .. j - 1 : PatchOrder[i] = s)
  OBVIOUS
<1>4. ~ \E i \in 1 .. j - 1 : PatchOrder[i] = PatchOrder[j]
  BY OrderIs
<1> HIDE DEF S
<1>5. \A s \in S : Upto(b, r, j)[s] =
        IF s = PatchOrder[j] THEN Patched(b, r)[s] ELSE Upto(b, r, j - 1)[s]
  BY <1>1, <1>3 DEF Upto
<1>6. Upto(b, r, j - 1)[PatchOrder[j]] = b[PatchOrder[j]]
  BY <1>1, <1>2, <1>4 DEF Upto
<1>7. /\ Upto(b, r, j) = [s \in S |-> Upto(b, r, j)[s]]
      /\ Upto(b, r, j - 1) = [s \in S |-> Upto(b, r, j - 1)[s]]
  BY <1>1 DEF Upto
<1>8. Upto(b, r, j) =
        [Upto(b, r, j - 1) EXCEPT ![PatchOrder[j]] = Patched(b, r)[PatchOrder[j]]]
  BY <1>2, <1>5, <1>7
<1>9. ASSUME Patched(b, r)[PatchOrder[j]] = b[PatchOrder[j]]
      PROVE  Upto(b, r, j) = Upto(b, r, j - 1)
  <2>1. \A s \in S : Upto(b, r, j)[s] = Upto(b, r, j - 1)[s]
    BY <1>5, <1>6, <1>9
  <2> QED BY <1>7, <2>1
<1> QED BY <1>1, <1>2, <1>8, <1>9

(* Nothing of the patch is the card as it was.                             *)
LEMMA UptoNone ==
  ASSUME NEW b \in CardType, NEW r PROVE Upto(b, r, 0) = b
<1>1. b = [s \in DOMAIN b |-> b[s]]
  BY DEF CardType
<1> QED BY <1>1 DEF Upto

(* A change is written by one command or none.                             *)
LEMMA ChangeType ==
  ASSUME NEW b \in CardType, NEW r, WellFormed(r), r.kind = "Configure", r.values \subseteq Bits,
         NEW k \in 1 .. 5
  PROVE  /\ Change(b, r, k) \in Seq(CommandType)
         /\ Write(PatchOrder[k], Patched(b, r)[PatchOrder[k]]) \in WriteCommands
<1>1. Patched(b, r) \in CardType
  BY PatchedType
<1> DEFINE s == PatchOrder[k]
           v == Patched(b, r)[s]
<1>2. \/ s \in FlagNames /\ v \in BOOLEAN
      \/ s = "features" /\ v \in SUBSET Bits
  BY <1>1, OrderIs DEF CardType, FlagNames
<1> HIDE DEF s, v
<1>3. Write(s, v) \in WriteCommands
  BY <1>2 DEF WriteCommands
<1>4. <<Write(s, v)>> \in Seq(CommandType) /\ <<>> \in Seq(CommandType)
  BY <1>3 DEF CommandType
<1> QED BY <1>3, <1>4 DEF Change, s, v

(* The writes from a setting on are its change and the writes after it.    *)
LEMMA RestNext ==
  ASSUME NEW b \in CardType, NEW r, WellFormed(r), r.kind = "Configure", r.values \subseteq Bits
  PROVE  /\ Rest(b, r, 6) = <<>>
         /\ \A k \in 1 .. 5 : Rest(b, r, k) = Change(b, r, k) \o Rest(b, r, k + 1)
         /\ \A k \in 1 .. 6 : Rest(b, r, k) \in Seq(CommandType)
<1>a. ASSUME NEW u \in Seq(CommandType), NEW v \in Seq(CommandType)
      PROVE  u \o v \in Seq(CommandType) /\ u \o <<>> = u
  BY <1>a
<1>0. /\ Change(b, r, 1) \in Seq(CommandType) /\ Change(b, r, 2) \in Seq(CommandType)
      /\ Change(b, r, 3) \in Seq(CommandType) /\ Change(b, r, 4) \in Seq(CommandType)
      /\ Change(b, r, 5) \in Seq(CommandType) /\ <<>> \in Seq(CommandType)
  BY ChangeType
<1>1. From5(b, r) \in Seq(CommandType) /\ From5(b, r) = Change(b, r, 5) \o <<>>
  BY <1>a, <1>0 DEF From5
<1>2. From4(b, r) \in Seq(CommandType)
  BY <1>a, <1>0, <1>1 DEF From4
<1>3. From3(b, r) \in Seq(CommandType)
  BY <1>a, <1>0, <1>2 DEF From3
<1>4. From2(b, r) \in Seq(CommandType)
  BY <1>a, <1>0, <1>3 DEF From2
<1>5. From1(b, r) \in Seq(CommandType)
  BY <1>a, <1>0, <1>4 DEF From1
<1>6. /\ Rest(b, r, 1) = From1(b, r) /\ Rest(b, r, 2) = From2(b, r) /\ Rest(b, r, 3) = From3(b, r)
      /\ Rest(b, r, 4) = From4(b, r) /\ Rest(b, r, 5) = From5(b, r) /\ Rest(b, r, 6) = <<>>
  BY DEF Rest
<1>7. ASSUME NEW k \in 1 .. 5 PROVE Rest(b, r, k) = Change(b, r, k) \o Rest(b, r, k + 1)
  <2>1. CASE k = 1
    BY <1>6, <2>1 DEF From1
  <2>2. CASE k = 2
    BY <1>6, <2>2 DEF From2
  <2>3. CASE k = 3
    BY <1>6, <2>3 DEF From3
  <2>4. CASE k = 4
    BY <1>6, <2>4 DEF From4
  <2>5. CASE k = 5
    BY <1>1, <1>6, <2>5
  <2> QED BY <2>1, <2>2, <2>3, <2>4, <2>5
<1>8. ASSUME NEW k \in 1 .. 6 PROVE Rest(b, r, k) \in Seq(CommandType)
  <2>1. k = 1 \/ k = 2 \/ k = 3 \/ k = 4 \/ k = 5 \/ k = 6
    OBVIOUS
  <2> QED BY <1>0, <1>1, <1>2, <1>3, <1>4, <1>5, <1>6, <2>1
<1> QED BY <1>6, <1>7, <1>8

(* What parse leaves to write when the card is still as it was found.      *)
LEMMA PatchWritesIs ==
  ASSUME NEW r PROVE PatchWrites(r) = Rest(card, r, 1)
<1>1. /\ WriteTo(Patched(card, r), "led") = Change(card, r, 1)
      /\ WriteTo(Patched(card, r), "ndefReadOnly") = Change(card, r, 2)
      /\ WriteTo(Patched(card, r), "ndefEnabled") = Change(card, r, 3)
      /\ WriteTo(Patched(card, r), "webusb") = Change(card, r, 4)
      /\ WriteTo(Patched(card, r), "features") = Change(card, r, 5)
  BY OrderIs DEF WriteTo, Change
<1>2. WritesTo(Patched(card, r)) = From1(card, r)
  BY <1>1 DEF WritesTo, From1, From2, From3, From4, From5
<1> QED BY <1>2 DEF PatchWrites, Rest

(* The next write of a patch and the settings it starts from, or none left *)
(* and the patch complete.                                                 *)
LEMMA RestHead ==
  ASSUME NEW b \in CardType, NEW r, WellFormed(r), r.kind = "Configure", r.values \subseteq Bits,
         NEW k \in 1 .. 6
  PROVE  /\ Rest(b, r, k) = <<>> => Upto(b, r, k - 1) = Upto(b, r, 5)
         /\ Rest(b, r, k) # <<>> =>
              \E j \in 1 .. 5 :
                /\ Upto(b, r, j - 1) = Upto(b, r, k - 1)
                /\ Head(Rest(b, r, k)) = Write(PatchOrder[j], Patched(b, r)[PatchOrder[j]])
                /\ Tail(Rest(b, r, k)) = Rest(b, r, j + 1)
<1> DEFINE P(n) ==
        /\ Rest(b, r, n) = <<>> => Upto(b, r, n - 1) = Upto(b, r, 5)
        /\ Rest(b, r, n) # <<>> =>
             \E j \in 1 .. 5 :
               /\ Upto(b, r, j - 1) = Upto(b, r, n - 1)
               /\ Head(Rest(b, r, n)) = Write(PatchOrder[j], Patched(b, r)[PatchOrder[j]])
               /\ Tail(Rest(b, r, n)) = Rest(b, r, j + 1)
<1>1. P(6)
  <2>1. Rest(b, r, 6) = <<>> /\ 6 - 1 = 5
    BY RestNext
  <2> QED BY <2>1
<1>2. ASSUME NEW n \in 1 .. 5, P(n + 1) PROVE P(n)
  <2>0. /\ Rest(b, r, n) = Change(b, r, n) \o Rest(b, r, n + 1)
        /\ Rest(b, r, n + 1) \in Seq(CommandType)
    <3> HIDE DEF P
    <3> n + 1 \in 1 .. 6
      OBVIOUS
    <3> QED BY RestNext
  <2>1. CASE Patched(b, r)[PatchOrder[n]] = b[PatchOrder[n]]
    <3>1. Change(b, r, n) = <<>>
      BY <2>1 DEF Change
    <3>2. Rest(b, r, n) = Rest(b, r, n + 1)
      BY <2>0, <3>1
    <3>3. Upto(b, r, (n + 1) - 1) = Upto(b, r, n - 1)
      BY <2>1, UptoNext
    <3> QED BY <1>2, <3>2, <3>3
  <2>2. CASE Patched(b, r)[PatchOrder[n]] # b[PatchOrder[n]]
    <3> DEFINE w == Write(PatchOrder[n], Patched(b, r)[PatchOrder[n]])
    <3>1. Change(b, r, n) = <<w>>
      BY <2>2 DEF Change
    <3> HIDE DEF w
    <3>2. Rest(b, r, n) = <<w>> \o Rest(b, r, n + 1)
      BY <2>0, <3>1
    <3>a. w \in CommandType
      BY ChangeType DEF CommandType, w
    <3>3. /\ Rest(b, r, n) # <<>> /\ Head(Rest(b, r, n)) = w
          /\ Tail(Rest(b, r, n)) = Rest(b, r, n + 1)
      BY <2>0, <3>2, <3>a
    <3> QED BY <3>3 DEF w
  <2> QED BY <2>1, <2>2
<1> HIDE DEF P
<1>3. P(5)
  BY <1>1, <1>2
<1>4. P(4)
  BY <1>2, <1>3
<1>5. P(3)
  BY <1>2, <1>4
<1>6. P(2)
  BY <1>2, <1>5
<1>7. P(1)
  BY <1>2, <1>6
<1>8. k = 1 \/ k = 2 \/ k = 3 \/ k = 4 \/ k = 5 \/ k = 6
  OBVIOUS
<1>9. P(k)
  BY <1>1, <1>3, <1>4, <1>5, <1>6, <1>7, <1>8
<1> QED BY <1>9 DEF P

-----------------------------------------------------------------------------
(* Commands                                                                *)

(* What a write sets, and that only a PIN change asks for no new probe.    *)
LEMMA WriteIs ==
  ASSUME NEW c \in WriteCommands
  PROVE  /\ c.stage = "Write"
         /\ c.reprobe \in BOOLEAN
         /\ c.set # "pin" => c.reprobe
         /\ \/ c.set = "pin" /\ c.to \in Pins
            \/ c.set = "data" /\ c.to \in Nat
            \/ c.set = "all" /\ c.to = Factory
            \/ c.set \in FlagNames /\ c.to \in BOOLEAN
            \/ c.set = "features" /\ c.to \in SUBSET Bits
            \/ c.set = "sm2" /\ c.to \in [Sm2Ids -> Int]
<1>1. CASE c \in {[Write("pin", p) EXCEPT !.reprobe = FALSE] : p \in Pins}
  <2>1. PICK p \in Pins : c = [Write("pin", p) EXCEPT !.reprobe = FALSE]
    BY <1>1
  <2> QED BY <2>1 DEF Write
<1>2. CASE c \in {Write("data", d) : d \in Nat}
  <2>1. PICK d \in Nat : c = Write("data", d)
    BY <1>2
  <2> QED BY <2>1 DEF Write
<1>3. CASE c = Write("all", Factory)
  BY <1>3 DEF Write
<1>4. CASE c \in {Write(s, b) : s \in FlagNames, b \in BOOLEAN}
  <2>1. PICK s \in FlagNames, b \in BOOLEAN : c = Write(s, b)
    BY <1>4
  <2> QED BY <2>1 DEF Write
<1>5. CASE c \in {Write("features", f) : f \in SUBSET Bits}
  <2>1. PICK f \in SUBSET Bits : c = Write("features", f)
    BY <1>5
  <2> QED BY <2>1 DEF Write
<1>6. CASE c \in {Write("sm2", x) : x \in [Sm2Ids -> Int]}
  <2>1. PICK x \in [Sm2Ids -> Int] : c = Write("sm2", x)
    BY <1>6
  <2> QED BY <2>1 DEF Write
<1> QED BY <1>1, <1>2, <1>3, <1>4, <1>5, <1>6 DEF WriteCommands

(* What a command of each kind is.                                         *)
LEMMA CommandIs ==
  ASSUME NEW c \in CommandType
  PROVE  /\ c.stage \in {"Select", "Authenticate", "Read", "Write"}
         /\ c.reprobe \in BOOLEAN
         /\ c.stage # "Write" => ~c.reprobe
         /\ c.stage = "Write" => c \in WriteCommands
<1>1. CASE c \in {Plain(s) : s \in {"Select", "Authenticate", "Read"}}
  <2>1. PICK s \in {"Select", "Authenticate", "Read"} : c = Plain(s)
    BY <1>1
  <2>2. c.reprobe = FALSE /\ c.stage = s
    BY <2>1 DEF Plain
  <2> QED BY <2>2
<1>2. CASE c \in WriteCommands
  BY <1>2, WriteIs
<1> QED BY <1>1, <1>2 DEF CommandType

(* A target is nothing or one command that fits its request.               *)
LEMMA TargetIs ==
  ASSUME NEW r, WellFormed(r)
  PROVE  \/ Target(r) = <<>> /\ r.kind = "VerifyPin"
         \/ \E c \in CommandType :
              /\ Target(r) = <<c>> /\ r.kind # "VerifyPin"
              /\ \/ /\ c.stage = "Read"
                    /\ r.kind \in Kinds \ {"VerifyPin", "ChangePin", "Set", "FactoryReset"}
                 \/ /\ c.stage = "Write"
                    /\ r.kind \in {"ChangePin", "Set", "FactoryReset"}
                    /\ c.set = "all" => r.kind = "FactoryReset"
<1>0. r.kind \in Kinds
  BY DEF WellFormed
<1>1. CASE r.kind = "VerifyPin"
  BY <1>1 DEF Target
<1>2. CASE r.kind = "ChangePin"
  <2> DEFINE c == [Write("pin", r.to) EXCEPT !.reprobe = FALSE]
  <2>1. Target(r) = <<c>>
    BY <1>2 DEF Target
  <2>2. c \in CommandType
    <3>1. r.to \in Pins
      BY <1>2 DEF WellFormed
    <3> HIDE DEF c
    <3>2. c \in {[Write("pin", p) EXCEPT !.reprobe = FALSE] : p \in Pins}
      BY <3>1 DEF c
    <3> QED BY <3>2 DEF CommandType, WriteCommands
  <2>3. c.stage = "Write" /\ c.set = "pin"
    BY DEF Write
  <2> QED BY <1>2, <2>1, <2>2, <2>3
<1>3. CASE r.kind = "Set"
  <2>1. Target(r) = <<Write("data", r.to)>>
    BY <1>3 DEF Target
  <2>2. Write("data", r.to) \in CommandType
    BY <1>3 DEF WellFormed, CommandType, WriteCommands
  <2>3. Write("data", r.to).stage = "Write" /\ Write("data", r.to).set = "data"
    BY DEF Write
  <2> QED BY <1>3, <2>1, <2>2, <2>3
<1>4. CASE r.kind = "FactoryReset"
  <2>1. Target(r) = <<Write("all", Factory)>>
    BY <1>4 DEF Target
  <2>2. Write("all", Factory) \in CommandType
    BY DEF CommandType, WriteCommands
  <2>3. Write("all", Factory).stage = "Write"
    BY DEF Write
  <2> QED BY <1>4, <2>1, <2>2, <2>3
<1>5. CASE r.kind \notin {"VerifyPin", "ChangePin", "Set", "FactoryReset"}
  <2>1. Target(r) = <<Plain("Read")>>
    BY <1>5 DEF Target
  <2>2. Plain("Read") \in CommandType /\ Plain("Read").stage = "Read"
    BY DEF CommandType, Plain
  <2> QED BY <1>0, <1>5, <2>1, <2>2
<1> QED BY <1>1, <1>2, <1>3, <1>4, <1>5

(* The factory settings are settings.                                      *)
LEMMA FactoryType == Factory \in CardType
<1>1. [curve |-> 9, algorithm |-> -54] \in [Sm2Ids -> Int]
  BY DEF Sm2Ids
<1>2. KnownBits \in SUBSET Bits
  BY DEF Bits
<1> QED BY <1>1, <1>2, AdminAssumption DEF Factory, CardType

(* A write leaves a card; only one that asks for a new probe changes more  *)
(* than the PIN.                                                           *)
LEMMA ApplyType ==
  ASSUME card \in CardType, pending \in WriteCommands, Apply
  PROVE  /\ card' \in CardType
         /\ pending.set # "all" => card' = [card EXCEPT ![pending.set] = pending.to]
<1>1. CASE pending.set = "all"
  <2>1. pending.to = Factory
    BY <1>1, WriteIs DEF FlagNames
  <2> QED BY <1>1, <2>1, FactoryType DEF Apply
<1>2. CASE pending.set # "all"
  <2>1. \/ pending.set = "pin" /\ pending.to \in Pins
        \/ pending.set = "data" /\ pending.to \in Nat
        \/ pending.set \in FlagNames /\ pending.to \in BOOLEAN
        \/ pending.set = "features" /\ pending.to \in SUBSET Bits
        \/ pending.set = "sm2" /\ pending.to \in [Sm2Ids -> Int]
    BY <1>2, WriteIs
  <2>2. card' = [card EXCEPT ![pending.set] = pending.to]
    BY <1>2 DEF Apply
  <2>3. card' \in CardType
    BY <2>1, <2>2 DEF CardType, FlagNames
  <2> QED BY <2>2, <2>3
<1> QED BY <1>1, <1>2

-----------------------------------------------------------------------------
(* Parts of a step                                                         *)

(* Acceptance depends on the layout, the request and the access only.      *)
LEMMA AcceptedKept ==
  ASSUME UNCHANGED <<layout, nfcPublic, request, access>>, Accepted(request, access)
  PROVE  Accepted(request, access)'
BY DEF Accepted, Capable, Protected, ProtectedRead

(* An accepted operation without authorization has no guarded command, and *)
(* one with a PIN has verified it by then.                                 *)
LEMMA GuardedVerified ==
  ASSUME TypeOK', Left', Running'
  PROVE  (access.policy # "Existing" /\ Guarded => verified)'
<1> SUFFICES ASSUME access'.policy # "Existing", Guarded' PROVE verified'
  OBVIOUS
<1>1. pending'.stage \in {"Read", "Write"}
  BY DEF Guarded
<1>2. CASE access'.policy = "Pin"
  BY <1>1, <1>2 DEF Running
<1>3. CASE access'.policy = "None"
  <2>1. Accepted(request, access)'
    BY <1>1 DEF Running
  <2>2. ~Protected(request)'
    BY <1>3, <2>1 DEF Accepted
  <2>3. CASE pending'.stage = "Read"
    BY <2>2, <2>3 DEF Guarded, Protected, ProtectedRead
  <2>4. CASE pending'.stage = "Write"
    BY <2>2, <2>4 DEF Guarded, Protected, Left
  <2> QED BY <1>1, <2>3, <2>4
<1> QED BY <1>2, <1>3 DEF TypeOK

(* As long as the card is as it was found, progress and patch are true.    *)
LEMMA Untouched ==
  ASSUME TypeOK', card' = before', applied' = confirmed',
         outcome' = "Done" /\ request'.kind = "Configure" =>
           Upto(before', request', 5) = before'
  PROVE  ProgressTold' /\ PatchInOrder'
<1>1. card' \in CardType /\ before' = card' /\ confirmed' \in Nat
  BY DEF TypeOK
<1>2. [card' EXCEPT !.pin = before'.pin] = before'
  BY <1>1 DEF CardType
<1>3. ProgressTold'
  BY <1>1, <1>2 DEF ProgressTold
<1>4. Upto(before', request', 0) = card'
  BY <1>1, UptoNone
<1>5. ASSUME request'.kind = "Configure"
      PROVE  \E k \in 0 .. Len(PatchOrder) :
               /\ card' = Upto(before', request', k)
               /\ outcome' = "Done" => k = Len(PatchOrder)
  <2>1. CASE outcome' = "Done"
    BY <1>5, <2>1, OrderIs
  <2>2. CASE outcome' # "Done"
    BY <1>4, <2>2, OrderIs
  <2> QED BY <2>1, <2>2
<1>6. PatchInOrder'
  BY <1>5 DEF PatchInOrder, Upto
<1> QED BY <1>3, <1>6

(* An operation that has ended is not running.                             *)
LEMMA Ended ==
  ASSUME TypeOK', pending' = Nothing, ProgressTold', PatchInOrder',
         retries' >= retriesBefore' - (IF access'.policy = "Pin" THEN 1 ELSE 0)
  PROVE  IInv'
<1>1. pending'.stage = "None"
  BY DEF Nothing, Plain
<1>2. Left' /\ Patching' /\ Running'
  BY <1>1 DEF Left, Patching, Running
<1>3. ~Guarded'
  BY <1>1 DEF Guarded
<1>4. Authorized'
  BY <1>3 DEF Authorized
<1> QED BY <1>2, <1>4 DEF IInv

(* The target of an operation, exposed or refused for want of exchanges,   *)
(* or the end of one without target.                                       *)
LEMMA TargetStep ==
  ASSUME IInv, pending.stage \in {"Select", "Authenticate"}, Advance(Target(request)),
         UNCHANGED <<call, confirmed, card, applied>>,
         verified' \in BOOLEAN, retries' \in 0 .. MaxRetries,
         access.policy = "Pin" => verified' /\ access.pin = before.pin,
         retries' >= retriesBefore - (IF access.policy = "Pin" THEN 1 ELSE 0)
  PROVE  IInv'
<1> USE AdminAssumption
<1>0. /\ TypeOK /\ Running /\ card = before /\ applied = confirmed /\ outcome = "none"
      /\ WellFormed(request) /\ Accepted(request, access)
  BY DEF IInv, Running
<1>a. UNCHANGED <<layout, nfcPublic, request, access, before, retriesBefore>>
  BY DEF call
<1>1. CASE Target(request) = <<>>
  <2>1. pending' = Nothing /\ used' = 0 /\ reprobe' = reprobe
    BY <1>1 DEF Advance, End
  <2>2. TypeOK'
    BY <1>0, <1>a, <2>1 DEF TypeOK
  <2>3. request.kind = "VerifyPin"
    BY <1>0, <1>1, TargetIs
  <2>4. ProgressTold' /\ PatchInOrder'
    BY <1>0, <1>a, <2>2, <2>3, Untouched
  <2> QED BY <1>a, <2>1, <2>2, <2>4, Ended
<1>2. CASE Target(request) # <<>>
  <2>1. PICK c \in CommandType :
          /\ Target(request) = <<c>> /\ request.kind # "VerifyPin"
          /\ \/ /\ c.stage = "Read"
                /\ request.kind \in Kinds \ {"VerifyPin", "ChangePin", "Set", "FactoryReset"}
             \/ /\ c.stage = "Write"
                /\ request.kind \in {"ChangePin", "Set", "FactoryReset"}
                /\ c.set = "all" => request.kind = "FactoryReset"
    BY <1>0, <1>2, TargetIs
  <2>2. Head(Target(request)) = c /\ Tail(Target(request)) = <<>>
    BY <2>1
  <2>3. reprobe' = (reprobe \/ c.reprobe)
    BY <1>2, <2>2 DEF Advance
  <2>4. CASE used >= MaxExchanges
    <3>1. pending' = Nothing /\ used' = 0 /\ outcome' = "LimitExceeded"
      BY <1>2, <2>4 DEF Advance, End
    <3>2. TypeOK'
      BY <1>0, <1>a, <2>3, <3>1 DEF TypeOK
    <3>3. ProgressTold' /\ PatchInOrder'
      BY <1>0, <1>a, <3>1, <3>2, Untouched
    <3> QED BY <1>a, <3>1, <3>2, <3>3, Ended
  <2>5. CASE ~(used >= MaxExchanges)
    <3>1. pending' = c /\ queue' = <<>> /\ used' = used + 1 /\ outcome' = outcome
      BY <1>2, <2>2, <2>5 DEF Advance
    <3>2. TypeOK'
      BY <1>0, <1>a, <2>3, <3>1 DEF TypeOK
    <3>3. ProgressTold' /\ PatchInOrder'
      BY <1>0, <1>a, <3>1, <3>2, Untouched
    <3>4. Left' /\ Patching'
      BY <1>a, <2>1, <3>1 DEF Left, Patching
    <3>5. Running'
      <4>1. Accepted(request, access)'
        BY <1>0, <1>a, AcceptedKept
      <4>2. WellFormed(request')
        BY <1>0, <1>a
      <4>3. pending'.reprobe => reprobe'
        BY <2>3, <3>1
      <4> QED BY <1>0, <1>a, <2>1, <3>1, <4>1, <4>2, <4>3 DEF Running
    <3>6. Authorized'
      BY <1>a, <3>2, <3>4, <3>5, GuardedVerified DEF Authorized
    <3> QED BY <3>2, <3>3, <3>4, <3>5, <3>6 DEF IInv
  <2> QED BY <2>4, <2>5
<1> QED BY <1>1, <1>2

(* The pending write, carried out.                                         *)
LEMMA WriteStep ==
  ASSUME IInv, pending.stage = "Write", Apply
  PROVE  /\ card' \in CardType /\ retries' \in 0 .. MaxRetries /\ verified' \in BOOLEAN
         /\ [card' EXCEPT !.pin = before.pin] # before => reprobe
         /\ access.policy = "Pin" => access.pin = before.pin /\ verified'
         /\ retries' >= retriesBefore - (IF access.policy = "Pin" THEN 1 ELSE 0)
         /\ request.kind = "Configure" =>
              /\ pending.reprobe
              /\ \E k \in 1 .. 5 : /\ card' = Upto(before, request, k)
                                   /\ queue = Rest(before, request, k + 1)
<1> USE AdminAssumption
<1>0. TypeOK /\ Left /\ Patching /\ Running /\ ProgressTold /\ Authorized
  BY DEF IInv
<1>1. /\ pending \in WriteCommands
      /\ pending.set # "pin" => pending.reprobe
      /\ card \in CardType /\ before \in CardType
  <2>1. pending # Nothing
    BY DEF Nothing, Plain
  <2>2. pending \in CommandType
    BY <1>0, <2>1 DEF TypeOK
  <2>3. pending \in WriteCommands
    BY <2>2, CommandIs
  <2> QED BY <1>0, <2>3, WriteIs DEF TypeOK
<1>2. card' \in CardType
      /\ (pending.set # "all" => card' = [card EXCEPT ![pending.set] = pending.to])
  BY <1>1, ApplyType
<1>3. retries' \in 0 .. MaxRetries /\ verified' \in BOOLEAN
  <2>1. retries' \in 0 .. MaxRetries
    BY <1>0 DEF TypeOK, Apply
  <2>2. verified' \in BOOLEAN
    BY DEF Apply
  <2> QED BY <2>1, <2>2
<1>4. [card' EXCEPT !.pin = before.pin] # before => reprobe
  <2>1. CASE reprobe
    BY <2>1
  <2>2. CASE ~reprobe
    <3>1. ~pending.reprobe /\ [card EXCEPT !.pin = before.pin] = before
      BY <1>0, <2>2 DEF Running, ProgressTold
    <3>2. pending.set = "pin"
      BY <1>1, <3>1
    <3>3. card' = [card EXCEPT !.pin = pending.to]
      BY <1>2, <3>2
    <3>4. [card' EXCEPT !.pin = before.pin] = [card EXCEPT !.pin = before.pin]
      BY <1>1, <3>3 DEF CardType
    <3> QED BY <3>1, <3>4
  <2> QED BY <2>1, <2>2
<1>5. ASSUME access.policy = "Pin" PROVE access.pin = before.pin /\ verified'
  <2>1. verified /\ access.pin = before.pin /\ Accepted(request, access)
    BY <1>0, <1>5 DEF Running
  <2>2. request.kind # "FactoryReset"
    BY <1>5, <2>1 DEF Accepted
  <2>3. pending.set # "all"
    BY <1>0, <2>2 DEF Left
  <2> QED BY <2>1, <2>3 DEF Apply
<1>6. retries' >= retriesBefore - (IF access.policy = "Pin" THEN 1 ELSE 0)
  BY <1>0 DEF TypeOK, Authorized, Apply
<1>7. ASSUME request.kind = "Configure"
      PROVE  /\ pending.reprobe
             /\ \E k \in 1 .. 5 : /\ card' = Upto(before, request, k)
                                  /\ queue = Rest(before, request, k + 1)
  <2>1. PICK j \in 1 .. 5 :
          /\ card = Upto(before, request, j - 1)
          /\ pending = Write(PatchOrder[j], Patched(before, request)[PatchOrder[j]])
          /\ queue = Rest(before, request, j + 1)
    BY <1>0, <1>7 DEF Patching
  <2>2. /\ pending.set = PatchOrder[j] /\ pending.reprobe
        /\ pending.to = Patched(before, request)[PatchOrder[j]]
    BY <2>1 DEF Write
  <2>3. PatchOrder[j] # "all"
    BY OrderIs
  <2>4. card' = [Upto(before, request, j - 1)
                  EXCEPT ![PatchOrder[j]] = Patched(before, request)[PatchOrder[j]]]
    BY <1>2, <2>1, <2>2, <2>3
  <2>5. card' = Upto(before, request, j)
    BY <1>1, <2>4, UptoNext
  <2> QED BY <2>1, <2>2, <2>5
<1> QED BY <1>2, <1>3, <1>4, <1>5, <1>6, <1>7

(* An operation that stops at a command without carrying it out.           *)
LEMMA StopStep ==
  ASSUME IInv, pending.stage # "None", pending' = Nothing, used' = 0, reprobe' = reprobe,
         outcome' \in {"Status", "InvalidResponse", "Abandoned"},
         UNCHANGED <<call, confirmed, card, applied>>,
         verified' \in BOOLEAN, retries' \in 0 .. MaxRetries,
         retries' >= retriesBefore - (IF access.policy = "Pin" THEN 1 ELSE 0)
  PROVE  IInv'
<1>0. TypeOK /\ Running /\ ProgressTold /\ PatchInOrder /\ outcome = "none"
  BY DEF IInv, Running
<1>a. UNCHANGED <<layout, nfcPublic, request, access, before, retriesBefore>>
  BY DEF call
<1>1. TypeOK'
  BY <1>0, <1>a DEF TypeOK
<1>2. ProgressTold'
  BY <1>0, <1>a DEF ProgressTold
<1>3. PatchInOrder'
  BY <1>0, <1>a DEF PatchInOrder, Patched
<1> QED BY <1>a, <1>1, <1>2, <1>3, Ended

-----------------------------------------------------------------------------
(* One lemma per action                                                    *)

(* Construction exposes the first command of a fresh operation.            *)
LEMMA BeginStep ==
  ASSUME IInv, NEW r \in Requests, NEW a \in Accesses, Begin(r, a)
  PROVE  IInv'
<1> USE AdminAssumption
<1>0. TypeOK
  BY DEF IInv
<1>1. /\ request' = r /\ access' = a /\ before' = card /\ retriesBefore' = retries
      /\ used' = 1 /\ confirmed' = 0 /\ applied' = 0 /\ outcome' = "none"
      /\ UNCHANGED <<layout, nfcPublic, card, verified, retries>>
      /\ pending' = Head(Commands(r, a)) /\ queue' = Tail(Commands(r, a))
      /\ reprobe' = Head(Commands(r, a)).reprobe
      /\ Accepted(r, a) /\ WellFormed(r)
  BY DEF Begin, auth
<1>2. a.policy \in {"None", "Existing", "Pin"}
  BY DEF Accesses
<1>3. PICK t \in Seq(CommandType) : t = Target(r)
  <2>1. <<>> \in Seq(CommandType) /\ \A c \in CommandType : <<c>> \in Seq(CommandType)
    OBVIOUS
  <2> QED BY <1>1, <2>1, TargetIs
<1>4. Plain("Select") \in CommandType /\ Plain("Authenticate") \in CommandType
  BY DEF CommandType
<1>5. Accepted(request, access)'
  BY <1>1 DEF Accepted, Capable, Protected, ProtectedRead
<1>6. CASE a.policy = "Existing"
  <2>1. r.kind # "VerifyPin"
    BY <1>1, <1>6 DEF Accepted
  <2>2. PICK c \in CommandType :
          /\ Target(r) = <<c>>
          /\ \/ /\ c.stage = "Read"
                /\ r.kind \in Kinds \ {"VerifyPin", "ChangePin", "Set", "FactoryReset"}
             \/ /\ c.stage = "Write"
                /\ r.kind \in {"ChangePin", "Set", "FactoryReset"}
                /\ c.set = "all" => r.kind = "FactoryReset"
    BY <1>1, <2>1, TargetIs
  <2>3. Commands(r, a) = <<c>>
    <3>1. Commands(r, a) = <<>> \o (<<>> \o Target(r)) \/ Commands(r, a) = (<<>> \o <<>>) \o Target(r)
      BY <1>6 DEF Commands
    <3> QED BY <2>2, <3>1
  <2>4. pending' = c /\ queue' = <<>> /\ reprobe' = c.reprobe
    BY <1>1, <2>3
  <2>5. c.reprobe \in BOOLEAN
    BY CommandIs
  <2>6. TypeOK'
    BY <1>0, <1>1, <1>2, <2>4, <2>5 DEF TypeOK
  <2>7. Left' /\ Patching' /\ Running'
    BY <1>1, <1>5, <1>6, <2>2, <2>4 DEF Left, Patching, Running
  <2>8. ProgressTold' /\ PatchInOrder'
    BY <1>1, <2>6, Untouched
  <2>9. Authorized'
    BY <1>0, <1>1, <2>6, <2>7, GuardedVerified DEF Authorized, TypeOK
  <2> QED BY <2>6, <2>7, <2>8, <2>9 DEF IInv
<1>7. CASE a.policy # "Existing"
  <2>1. /\ Head(Commands(r, a)) = Plain("Select")
        /\ Tail(Commands(r, a)) = IF a.policy = "Pin" THEN <<Plain("Authenticate")>> \o Target(r)
                                  ELSE Target(r)
    <3>1. CASE a.policy = "Pin"
      <4>1. Commands(r, a) = (<<Plain("Select")>> \o <<Plain("Authenticate")>>) \o t
        BY <1>3, <3>1 DEF Commands
      <4> QED BY <1>3, <1>4, <3>1, <4>1
    <3>2. CASE a.policy # "Pin"
      <4>1. Commands(r, a) = (<<Plain("Select")>> \o <<>>) \o t
        BY <1>3, <1>7, <3>2 DEF Commands
      <4> QED BY <1>3, <1>4, <3>2, <4>1
    <3> QED BY <3>1, <3>2
  <2>2. pending' = Plain("Select") /\ pending'.stage = "Select" /\ ~pending'.reprobe
        /\ reprobe' = FALSE
    BY <1>1, <2>1 DEF Plain
  <2>3. reprobe' \in BOOLEAN
    BY <2>2
  <2>4. TypeOK'
    BY <1>0, <1>1, <1>2, <1>4, <2>2, <2>3 DEF TypeOK
  <2>5. Left' /\ Patching' /\ Running'
    BY <1>1, <1>5, <1>7, <2>1, <2>2 DEF Left, Patching, Running
  <2>6. ProgressTold' /\ PatchInOrder'
    BY <1>1, <2>4, Untouched
  <2>7. Authorized'
    BY <1>0, <1>1, <2>4, <2>5, GuardedVerified DEF Authorized, TypeOK
  <2> QED BY <2>4, <2>5, <2>6, <2>7 DEF IInv
<1> QED BY <1>6, <1>7

(* SELECT leads to VERIFY when there is a PIN, to the target otherwise.    *)
LEMMA SelectStep ==
  ASSUME IInv, SelectDone PROVE IInv'
<1> USE AdminAssumption
<1>0. /\ TypeOK /\ Left /\ Running /\ card = before /\ applied = confirmed /\ outcome = "none"
      /\ retries = retriesBefore /\ WellFormed(request) /\ Accepted(request, access)
  BY DEF IInv, Running, SelectDone
<1>1. /\ pending.stage = "Select" /\ verified' \in {verified, FALSE} /\ Advance(queue)
      /\ UNCHANGED <<call, confirmed, card, retries, applied>>
      /\ UNCHANGED <<layout, nfcPublic, request, access, before, retriesBefore>>
  BY DEF SelectDone, call
<1>2. verified' \in BOOLEAN
  BY <1>0, <1>1 DEF TypeOK
<1>3. CASE access.policy # "Pin"
  <2>1. Advance(Target(request))
    BY <1>0, <1>1, <1>3 DEF Left
  <2> QED BY <1>0, <1>1, <1>2, <1>3, <2>1, TargetStep DEF TypeOK
<1>4. CASE access.policy = "Pin"
  <2>1. PICK t \in Seq(CommandType) : t = Target(request)
    <3>1. <<>> \in Seq(CommandType) /\ \A c \in CommandType : <<c>> \in Seq(CommandType)
      OBVIOUS
    <3> QED BY <1>0, <3>1, TargetIs
  <2> DEFINE p == Plain("Authenticate")
  <2>2. p \in CommandType /\ p.reprobe = FALSE /\ p.stage = "Authenticate"
    BY DEF CommandType, Plain
  <2> HIDE DEF p
  <2>3. queue = <<p>> \o t
    BY <1>0, <1>1, <1>4, <2>1 DEF Left, p
  <2>4. queue # <<>> /\ Head(queue) = p /\ Tail(queue) = t
    BY <2>2, <2>3
  <2>5. reprobe' = (reprobe \/ p.reprobe)
    BY <1>1, <2>4 DEF Advance
  <2>6. reprobe' \in BOOLEAN
    BY <2>5
  <2>7. CASE used >= MaxExchanges
    <3>1. pending' = Nothing /\ used' = 0 /\ outcome' = "LimitExceeded"
      BY <1>1, <2>4, <2>7 DEF Advance, End
    <3>2. TypeOK'
      BY <1>0, <1>1, <1>2, <2>6, <3>1 DEF TypeOK
    <3>3. ProgressTold' /\ PatchInOrder'
      BY <1>0, <1>1, <3>1, <3>2, Untouched
    <3> QED BY <1>0, <1>1, <1>4, <3>1, <3>2, <3>3, Ended DEF TypeOK
  <2>8. CASE ~(used >= MaxExchanges)
    <3>1. pending' = p /\ queue' = t /\ used' = used + 1 /\ outcome' = outcome
      BY <1>1, <2>4, <2>8 DEF Advance
    <3>2. TypeOK'
      BY <1>0, <1>1, <1>2, <2>2, <2>6, <3>1 DEF TypeOK
    <3>3. ProgressTold' /\ PatchInOrder'
      BY <1>0, <1>1, <3>1, <3>2, Untouched
    <3>4. Left' /\ Patching'
      <4>1. Target(request') = queue'
        BY <1>1, <2>1, <3>1
      <4> QED BY <1>1, <1>4, <2>2, <3>1, <4>1 DEF Left, Patching
    <3>5. Running'
      <4>1. Accepted(request, access)'
        BY <1>0, <1>1, AcceptedKept
      <4>2. WellFormed(request')
        BY <1>0, <1>1
      <4>3. ~pending'.reprobe
        BY <2>2, <3>1
      <4> QED BY <1>0, <1>1, <2>2, <3>1, <4>1, <4>2, <4>3 DEF Running
    <3>6. Authorized'
      BY <1>0, <1>1, <3>2, <3>4, <3>5, GuardedVerified DEF Authorized, TypeOK
    <3> QED BY <3>2, <3>3, <3>4, <3>5, <3>6 DEF IInv
  <2> QED BY <2>7, <2>8
<1> QED BY <1>3, <1>4

(* A right PIN leads to the target.                                        *)
LEMMA VerifyStep ==
  ASSUME IInv, VerifyDone PROVE IInv'
<1> USE AdminAssumption
<1>0. TypeOK /\ Left /\ Running /\ card = before /\ pending.stage = "Authenticate"
  BY DEF IInv, Running, VerifyDone
<1>1. /\ access.policy = "Pin" /\ queue = Target(request) /\ access.pin = card.pin
      /\ verified' = TRUE /\ retries' = MaxRetries /\ Advance(queue)
      /\ UNCHANGED <<call, confirmed, card, applied>>
  BY <1>0 DEF Left, VerifyDone
<1>2. verified' \in BOOLEAN /\ retries' \in 0 .. MaxRetries /\ retries' >= retriesBefore - 1
  BY <1>0, <1>1 DEF TypeOK
<1> QED BY <1>0, <1>1, <1>2, TargetStep

(* A wrong PIN costs one attempt and ends the operation.                   *)
LEMMA VerifyFailedStep ==
  ASSUME IInv, VerifyFailed PROVE IInv'
<1> USE AdminAssumption
<1>0. /\ TypeOK /\ Left /\ Running /\ card = before /\ pending.stage = "Authenticate"
      /\ retries = retriesBefore /\ applied = confirmed
  BY DEF IInv, Running, VerifyFailed
<1>1. /\ access.policy = "Pin" /\ pending' = Nothing /\ used' = 0 /\ reprobe' = reprobe
      /\ outcome' = "AuthenticationFailed" /\ verified' = verified
      /\ retries' = (IF retries = 0 THEN 0 ELSE retries - 1)
      /\ UNCHANGED <<layout, nfcPublic, request, access, before, retriesBefore, confirmed, card,
                     applied>>
  BY <1>0 DEF Left, VerifyFailed, Fail, End, call
<1>2. retries' \in 0 .. MaxRetries /\ retries' >= retriesBefore - 1
  BY <1>0, <1>1 DEF TypeOK
<1>3. TypeOK'
  BY <1>0, <1>1, <1>2 DEF TypeOK
<1>4. ProgressTold' /\ PatchInOrder'
  BY <1>0, <1>1, <1>3, Untouched
<1> QED BY <1>1, <1>2, <1>3, <1>4, Ended

(* A read that leaves nothing to write, or that the host objects to, ends  *)
(* the operation on an unchanged card.                                     *)
LEMMA ReadEnds ==
  ASSUME IInv, pending.stage = "Read", pending' = Nothing, used' = 0, reprobe' \in BOOLEAN,
         UNCHANGED <<call, confirmed, card, auth, applied>>,
         outcome' = "Done" /\ request.kind = "Configure" => Upto(before, request, 5) = before
  PROVE  IInv'
<1>0. TypeOK /\ Running /\ Authorized /\ card = before /\ applied = confirmed
  BY DEF IInv, Running
<1>1. UNCHANGED <<layout, nfcPublic, request, access, before, retriesBefore, verified, retries>>
  BY DEF call, auth
<1>2. TypeOK'
  BY <1>0, <1>1 DEF TypeOK
<1>3. ProgressTold' /\ PatchInOrder'
  BY <1>0, <1>1, <1>2, Untouched
<1> QED BY <1>0, <1>1, <1>2, <1>3, Ended DEF Authorized

(* A read that leaves something to write exposes the first write.          *)
LEMMA ReadWrites ==
  ASSUME IInv, pending.stage = "Read", NEW w \in WriteCommands, pending' = w, w.reprobe,
         w.set # "all", used' = used + 1, reprobe' = (reprobe \/ w.reprobe), outcome' = outcome,
         UNCHANGED <<call, confirmed, card, auth, applied>>,
         request.kind \in {"Configure", "ConfigureSm2"},
         request.kind = "ConfigureSm2" => queue' = <<>>,
         request.kind = "Configure" =>
           \E j \in 1 .. 5 :
             /\ before = Upto(before, request, j - 1)
             /\ w = Write(PatchOrder[j], Patched(before, request)[PatchOrder[j]])
             /\ queue' = Rest(before, request, j + 1)
  PROVE  IInv'
<1>0. /\ TypeOK /\ Running /\ Authorized /\ card = before /\ applied = confirmed
      /\ outcome = "none" /\ WellFormed(request) /\ Accepted(request, access)
  BY DEF IInv, Running
<1>1. UNCHANGED <<layout, nfcPublic, request, access, before, retriesBefore, verified, retries>>
  BY DEF call, auth
<1>2. pending'.stage = "Write" /\ pending' \in CommandType /\ reprobe' \in BOOLEAN
  BY WriteIs DEF CommandType
<1>3. TypeOK'
  BY <1>0, <1>1, <1>2 DEF TypeOK
<1>4. ProgressTold' /\ PatchInOrder'
  BY <1>0, <1>1, <1>3, Untouched
<1>5. Left'
  BY <1>1, <1>2 DEF Left
<1>6. Patching'
  <2>1. SUFFICES ASSUME request.kind = "Configure"
        PROVE  \E j \in 1 .. 5 :
                 /\ card' = Upto(before', request', j - 1)
                 /\ pending'.set = PatchOrder[j]
                 /\ pending' = Write(PatchOrder[j], Patched(before', request')[PatchOrder[j]])
                 /\ queue' = Rest(before', request', j + 1)
    BY <1>1 DEF Patching
  <2>2. PICK j \in 1 .. 5 :
          /\ before = Upto(before, request, j - 1)
          /\ w = Write(PatchOrder[j], Patched(before, request)[PatchOrder[j]])
          /\ queue' = Rest(before, request, j + 1)
    BY <2>1
  <2>3. w.set = PatchOrder[j]
    BY <2>2 DEF Write
  <2>4. /\ card' = Upto(before', request', j - 1)
        /\ pending'.set = PatchOrder[j]
        /\ pending' = Write(PatchOrder[j], Patched(before', request')[PatchOrder[j]])
        /\ queue' = Rest(before', request', j + 1)
    BY <1>0, <1>1, <2>2, <2>3
  <2> QED BY <2>4
<1>7. Running'
  <2>1. Accepted(request, access)'
    BY <1>0, <1>1, AcceptedKept
  <2>2. WellFormed(request') /\ reprobe'
    BY <1>0, <1>1
  <2>3. access.policy = "Pin" => verified /\ access.pin = before.pin
    BY <1>0 DEF Running
  <2> QED BY <1>0, <1>1, <1>2, <2>1, <2>2, <2>3 DEF Running
<1>8. Authorized'
  BY <1>0, <1>1, <1>3, <1>5, <1>7, GuardedVerified DEF Authorized
<1> QED BY <1>3, <1>4, <1>5, <1>6, <1>7, <1>8 DEF IInv

(* The writes of an identifier patch: none, or one of the identifiers.     *)
LEMMA Sm2WritesIs ==
  ASSUME card \in CardType, WellFormed(request), request.kind = "ConfigureSm2"
  PROVE  \/ Sm2Writes(request) = <<>>
         \/ \E w \in WriteCommands :
              Sm2Writes(request) = <<w>> /\ w.reprobe /\ w.set # "all"
<1> DEFINE new == Sm2Patched(card.sm2, request.sm2)
<1>1. new \in [Sm2Ids -> Int]
  BY DEF CardType, WellFormed, Sm2Patched
<1>2. CASE new = card.sm2
  BY <1>2 DEF Sm2Writes
<1>3. CASE new # card.sm2
  <2>1. Sm2Writes(request) = <<Write("sm2", new)>>
    BY <1>3 DEF Sm2Writes
  <2> HIDE DEF new
  <2>2. Write("sm2", new) \in WriteCommands
    BY <1>1 DEF WriteCommands
  <2>3. Write("sm2", new).reprobe /\ Write("sm2", new).set # "all"
    BY DEF Write
  <2> QED BY <2>1, <2>2, <2>3
<1> QED BY <1>2, <1>3

(* The target's data decides what is written.                              *)
LEMMA ReadStep ==
  ASSUME IInv, ReadDone PROVE IInv'
<1> USE AdminAssumption
<1>0. /\ TypeOK /\ Left /\ Running /\ card = before /\ pending.stage = "Read"
      /\ WellFormed(request) /\ Accepted(request, access) /\ queue = <<>>
      /\ outcome = "none"
  BY DEF IInv, Running, Left, ReadDone
<1>a. UNCHANGED <<call, confirmed, card, auth, applied>>
  BY DEF ReadDone
<1>b. reprobe \in BOOLEAN /\ before \in CardType /\ card \in CardType
  BY <1>0 DEF TypeOK
<1>1. ASSUME NEW how, Fail(how), how # "Done" PROVE IInv'
  <2>1. pending' = Nothing /\ used' = 0 /\ reprobe' = reprobe /\ outcome' = how
    BY <1>1 DEF Fail, End
  <2> QED BY <1>0, <1>a, <1>b, <1>1, <2>1, ReadEnds
<1>2. ASSUME Advance(<<>>),
             request.kind = "Configure" => Upto(before, request, 5) = before
      PROVE  IInv'
  <2>1. pending' = Nothing /\ used' = 0 /\ reprobe' = reprobe
    BY <1>2 DEF Advance, End
  <2> QED BY <1>0, <1>a, <1>b, <1>2, <2>1, ReadEnds
<1>3. CASE request.kind = "Configure"
  <2>0. request.values \subseteq Bits
    BY <1>0, <1>3 DEF Accepted, Bits
  <2>1. CASE PatchError(request) # "none"
    <3>1. Fail(PatchError(request))
      BY <1>3, <2>1 DEF ReadDone
    <3>2. PatchError(request) # "Done"
      BY DEF PatchError
    <3> QED BY <1>1, <3>1, <3>2
  <2>2. CASE PatchError(request) = "none"
    <3> DEFINE q == Rest(before, request, 1)
    <3>1. q = PatchWrites(request) /\ q \in Seq(CommandType)
      BY <1>0, <1>b, <1>3, <2>0, PatchWritesIs, RestNext
    <3> HIDE DEF q
    <3>2. queue \o PatchWrites(request) = q
      BY <1>0, <3>1
    <3>3. Advance(q)
      BY <1>3, <2>2, <3>2 DEF ReadDone
    <3>4. /\ q = <<>> => Upto(before, request, 1 - 1) = Upto(before, request, 5)
          /\ q # <<>> =>
               \E j \in 1 .. 5 :
                 /\ Upto(before, request, j - 1) = Upto(before, request, 1 - 1)
                 /\ Head(q) = Write(PatchOrder[j], Patched(before, request)[PatchOrder[j]])
                 /\ Tail(q) = Rest(before, request, j + 1)
      BY <1>0, <1>b, <1>3, <2>0, RestHead DEF q
    <3>5. Upto(before, request, 1 - 1) = before
      BY <1>b, UptoNone
    <3>6. CASE q = <<>>
      BY <1>2, <3>3, <3>4, <3>5, <3>6
    <3>7. CASE q # <<>>
      <4>1. PICK j \in 1 .. 5 :
              /\ Upto(before, request, j - 1) = before
              /\ Head(q) = Write(PatchOrder[j], Patched(before, request)[PatchOrder[j]])
              /\ Tail(q) = Rest(before, request, j + 1)
        BY <3>4, <3>5, <3>7
      <4> DEFINE w == Write(PatchOrder[j], Patched(before, request)[PatchOrder[j]])
      <4>2. w \in WriteCommands
        BY <1>0, <1>b, <1>3, <2>0, ChangeType
      <4>3. w.reprobe /\ w.set # "all"
        BY OrderIs DEF Write
      <4>4. Head(q) = w
        BY <4>1
      <4> HIDE DEF w
      <4>5. CASE used >= MaxExchanges
        <5>1. /\ pending' = Nothing /\ used' = 0 /\ reprobe' = (reprobe \/ w.reprobe)
              /\ outcome' = "LimitExceeded"
          BY <3>3, <3>7, <4>4, <4>5 DEF Advance, End
        <5> QED BY <1>0, <1>a, <5>1, ReadEnds
      <4>6. CASE ~(used >= MaxExchanges)
        <5>1. /\ pending' = w /\ queue' = Rest(before, request, j + 1) /\ used' = used + 1
              /\ outcome' = outcome /\ reprobe' = (reprobe \/ w.reprobe)
          BY <3>3, <3>7, <4>1, <4>4, <4>6 DEF Advance
        <5>2. \E i \in 1 .. 5 :
                /\ before = Upto(before, request, i - 1)
                /\ w = Write(PatchOrder[i], Patched(before, request)[PatchOrder[i]])
                /\ queue' = Rest(before, request, i + 1)
          BY <4>1, <5>1 DEF w
        <5> QED BY <1>0, <1>a, <1>3, <4>2, <4>3, <5>1, <5>2, ReadWrites
      <4> QED BY <4>5, <4>6
    <3> QED BY <3>6, <3>7
  <2> QED BY <2>1, <2>2
<1>4. CASE request.kind = "ConfigureSm2"
  <2>1. Fail("InvalidArgument") \/ Advance(queue \o Sm2Writes(request))
    BY <1>4 DEF ReadDone
  <2>2. CASE Fail("InvalidArgument")
    BY <1>1, <2>2
  <2>3. CASE Advance(queue \o Sm2Writes(request)) /\ Sm2Writes(request) = <<>>
    <3>1. queue \o Sm2Writes(request) = <<>>
      BY <1>0, <2>3
    <3> QED BY <1>2, <1>4, <2>3, <3>1
  <2>4. CASE Advance(queue \o Sm2Writes(request)) /\ Sm2Writes(request) # <<>>
    <3>1. PICK w \in WriteCommands : Sm2Writes(request) = <<w>> /\ w.reprobe /\ w.set # "all"
      BY <1>0, <1>b, <1>4, <2>4, Sm2WritesIs
    <3>2. queue \o Sm2Writes(request) = <<w>>
      BY <1>0, <3>1
    <3>3. Advance(<<w>>) /\ Head(<<w>>) = w /\ Tail(<<w>>) = <<>> /\ <<w>> # <<>>
      BY <2>4, <3>2
    <3>4. CASE used >= MaxExchanges
      <4>1. /\ pending' = Nothing /\ used' = 0 /\ reprobe' = (reprobe \/ w.reprobe)
        BY <3>3, <3>4 DEF Advance, End
      <4> QED BY <1>0, <1>a, <1>4, <4>1, ReadEnds
    <3>5. CASE ~(used >= MaxExchanges)
      <4>1. /\ pending' = w /\ queue' = <<>> /\ used' = used + 1
            /\ outcome' = outcome /\ reprobe' = (reprobe \/ w.reprobe)
        BY <3>3, <3>5 DEF Advance
      <4> QED BY <1>0, <1>a, <1>4, <3>1, <4>1, ReadWrites
    <3> QED BY <3>4, <3>5
  <2> QED BY <2>1, <2>2, <2>3, <2>4
<1>5. CASE request.kind \notin {"Configure", "ConfigureSm2"}
  <2>1. Advance(<<>>)
    BY <1>0, <1>5 DEF ReadDone
  <2> QED BY <1>2, <1>5, <2>1
<1> QED BY <1>3, <1>4, <1>5

(* A confirmed write leads to the next one of the patch, or to the end.    *)
LEMMA WriteDoneStep ==
  ASSUME IInv, WriteDone PROVE IInv'
<1> USE AdminAssumption
<1>0. /\ TypeOK /\ Left /\ Running /\ pending.stage = "Write" /\ applied = confirmed
      /\ outcome = "none" /\ WellFormed(request) /\ Accepted(request, access)
      /\ (pending.reprobe => reprobe)
  BY DEF IInv, Running, WriteDone
<1>1. /\ Apply /\ confirmed' = confirmed + 1 /\ applied' = applied + 1 /\ Advance(queue)
      /\ UNCHANGED <<layout, nfcPublic, request, access, before, retriesBefore>>
  BY DEF WriteDone, Apply, call
<1>2. /\ card' \in CardType /\ retries' \in 0 .. MaxRetries /\ verified' \in BOOLEAN
      /\ ([card' EXCEPT !.pin = before.pin] # before => reprobe)
      /\ (access.policy = "Pin" => access.pin = before.pin /\ verified')
      /\ retries' >= retriesBefore - (IF access.policy = "Pin" THEN 1 ELSE 0)
  BY <1>0, <1>1, WriteStep
<1>3. /\ confirmed' \in Nat /\ applied' = confirmed' /\ before \in CardType
      /\ reprobe \in BOOLEAN /\ used \in Nat
  BY <1>0, <1>1 DEF TypeOK
<1>p. ASSUME reprobe => reprobe' PROVE ProgressTold'
  BY <1>1, <1>2, <1>3, <1>p DEF ProgressTold
<1>q. ~(access'.policy = "Pin" /\ access'.pin # before'.pin)
  BY <1>1, <1>2
<1>4. CASE request.kind # "Configure"
  <2>1. queue = <<>>
    BY <1>0, <1>4 DEF Left
  <2>2. pending' = Nothing /\ used' = 0 /\ reprobe' = reprobe /\ outcome' = "Done"
    BY <1>1, <2>1 DEF Advance, End
  <2>3. TypeOK'
    BY <1>0, <1>1, <1>2, <1>3, <2>2 DEF TypeOK
  <2>4. ProgressTold'
    BY <1>p, <2>2
  <2>5. PatchInOrder'
    BY <1>1, <1>q, <1>4, <2>2 DEF PatchInOrder
  <2> QED BY <1>1, <1>2, <2>2, <2>3, <2>4, <2>5, Ended
<1>5. CASE request.kind = "Configure"
  <2>0. request.values \subseteq Bits
    BY <1>0, <1>5 DEF Accepted, Bits
  <2>1. PICK k \in 1 .. 5 : /\ card' = Upto(before, request, k)
                            /\ queue = Rest(before, request, k + 1)
    BY <1>0, <1>1, <1>5, WriteStep
  <2>2. /\ queue = <<>> => Upto(before, request, k) = Upto(before, request, 5)
        /\ queue # <<>> =>
             \E j \in 1 .. 5 :
               /\ Upto(before, request, j - 1) = Upto(before, request, k)
               /\ Head(queue) = Write(PatchOrder[j], Patched(before, request)[PatchOrder[j]])
               /\ Tail(queue) = Rest(before, request, j + 1)
    <3>1. k + 1 \in 1 .. 6 /\ (k + 1) - 1 = k
      OBVIOUS
    <3> QED BY <1>0, <1>3, <1>5, <2>0, <2>1, <3>1, RestHead
  <2>a. ASSUME NEW n \in 0 .. 5, card' = Upto(before, request, n),
               outcome' \in {"Done", "LimitExceeded", "none"}, outcome' = "Done" => n = 5
        PROVE  PatchInOrder'
    <3>1. \E i \in 0 .. Len(PatchOrder) :
            /\ card' = Upto(before', request', i)
            /\ outcome' = "Done" => i = Len(PatchOrder)
      BY <1>1, <2>a, OrderIs
    <3> QED BY <1>q, <2>a, <3>1 DEF PatchInOrder, Upto
  <2>3. CASE queue = <<>>
    <3>1. pending' = Nothing /\ used' = 0 /\ reprobe' = reprobe /\ outcome' = "Done"
      BY <1>1, <2>3 DEF Advance, End
    <3>2. TypeOK'
      BY <1>0, <1>1, <1>2, <1>3, <3>1 DEF TypeOK
    <3>3. PatchInOrder'
      BY <2>1, <2>2, <2>a, <2>3, <3>1
    <3> QED BY <1>1, <1>2, <1>p, <3>1, <3>2, <3>3, Ended
  <2>4. CASE queue # <<>>
    <3>1. PICK j \in 1 .. 5 :
            /\ Upto(before, request, j - 1) = card'
            /\ Head(queue) = Write(PatchOrder[j], Patched(before, request)[PatchOrder[j]])
            /\ Tail(queue) = Rest(before, request, j + 1)
      BY <2>1, <2>2, <2>4
    <3> DEFINE w == Write(PatchOrder[j], Patched(before, request)[PatchOrder[j]])
    <3>2. /\ w \in WriteCommands /\ w.reprobe /\ w.set # "all" /\ w.set = PatchOrder[j]
          /\ w.stage = "Write"
      <4>1. w \in WriteCommands
        BY <1>0, <1>3, <1>5, <2>0, ChangeType
      <4>2. w.reprobe /\ w.set = PatchOrder[j] /\ w.stage = "Write" /\ PatchOrder[j] # "all"
        BY OrderIs DEF Write
      <4> QED BY <4>1, <4>2
    <3>3. Head(queue) = w
      BY <3>1
    <3>4. reprobe' = (reprobe \/ w.reprobe)
      BY <1>1, <2>4, <3>3 DEF Advance
    <3>5. reprobe' \in BOOLEAN /\ reprobe'
      <4> HIDE DEF w
      <4> QED BY <3>2, <3>4
    <3>6. CASE used >= MaxExchanges
      <4>1. pending' = Nothing /\ used' = 0 /\ outcome' = "LimitExceeded"
        BY <1>1, <2>4, <3>6 DEF Advance, End
      <4>2. TypeOK'
        BY <1>0, <1>1, <1>2, <1>3, <3>5, <4>1 DEF TypeOK
      <4>3. PatchInOrder'
        BY <2>1, <2>a, <4>1
      <4> QED BY <1>1, <1>2, <1>p, <3>5, <4>1, <4>2, <4>3, Ended
    <3>7. CASE ~(used >= MaxExchanges)
      <4>1. pending' = w /\ queue' = Rest(before, request, j + 1) /\ used' = used + 1
            /\ outcome' = outcome
        BY <1>1, <2>4, <3>1, <3>3, <3>7 DEF Advance
      <4>2. PatchInOrder'
        BY <1>0, <2>1, <2>a, <4>1
      <4>3. Patching'
        <5>1. /\ card' = Upto(before', request', j - 1)
              /\ pending'.set = PatchOrder[j]
              /\ pending' = Write(PatchOrder[j], Patched(before', request')[PatchOrder[j]])
              /\ queue' = Rest(before', request', j + 1)
          BY <1>1, <3>1, <3>2, <4>1
        <5> HIDE DEF w
        <5> QED BY <5>1 DEF Patching
      <4> HIDE DEF w
      <4>4. TypeOK'
        BY <1>0, <1>1, <1>2, <1>3, <3>2, <3>5, <4>1 DEF TypeOK, CommandType
      <4>5. Left'
        BY <1>1, <1>5, <3>2, <4>1 DEF Left
      <4>6. Running'
        <5>1. Accepted(request, access)'
          BY <1>0, <1>1, AcceptedKept
        <5>2. WellFormed(request') /\ outcome' = "none"
          BY <1>0, <1>1, <4>1
        <5> QED BY <1>1, <1>2, <1>3, <3>2, <3>5, <4>1, <5>1, <5>2 DEF Running
      <4>7. Authorized'
        BY <1>1, <1>2, <4>4, <4>5, <4>6, GuardedVerified DEF Authorized
      <4> QED BY <1>p, <3>5, <4>2, <4>3, <4>4, <4>5, <4>6, <4>7 DEF IInv
    <3> QED BY <3>6, <3>7
  <2> QED BY <2>3, <2>4
<1> QED BY <1>4, <1>5

(* Another exchange of a read changes nothing, or is one too many.         *)
LEMMA PagedStep ==
  ASSUME IInv, Paged PROVE IInv'
<1> USE AdminAssumption
<1>0. TypeOK /\ Left /\ Running /\ pending.stage = "Read" /\ outcome = "none"
  BY DEF IInv, Running, Paged
<1>a. UNCHANGED <<call, confirmed, card, auth, applied>>
  BY DEF Paged
<1>1. CASE used >= MaxExchanges
  <2>1. pending' = Nothing /\ used' = 0 /\ reprobe' = reprobe /\ outcome' = "LimitExceeded"
    BY <1>1 DEF Paged, Fail, End
  <2> QED BY <1>0, <1>a, <2>1, ReadEnds DEF TypeOK
<1>2. CASE ~(used >= MaxExchanges)
  <2>1. used' = used + 1 /\ UNCHANGED <<pending, queue, outcome, reprobe>>
    BY <1>2 DEF Paged
  <2>2. UNCHANGED <<layout, nfcPublic, request, access, before, retriesBefore, verified, retries>>
    BY <1>a DEF call, auth
  <2>3. TypeOK'
    BY <1>0, <1>a, <2>1, <2>2 DEF TypeOK
  <2>4. Left' /\ Patching' /\ ProgressTold' /\ PatchInOrder' /\ Authorized'
    <3>1. Left' /\ Patching'
      BY <1>0, <2>1, <2>2 DEF Left, Patching
    <3>2. ProgressTold'
      BY <1>a, <2>1, <2>2 DEF IInv, ProgressTold
    <3>3. PatchInOrder'
      BY <1>a, <2>1, <2>2 DEF IInv, PatchInOrder, Patched
    <3>4. Authorized'
      BY <1>a, <2>1, <2>2 DEF IInv, Authorized, Guarded
    <3> QED BY <3>1, <3>2, <3>3, <3>4
  <2>5. Running'
    <3>1. Accepted(request, access)'
      BY <1>0, <2>2, AcceptedKept DEF Running
    <3> QED BY <1>0, <1>a, <2>1, <2>2, <3>1 DEF Running
  <2> QED BY <2>3, <2>4, <2>5 DEF IInv
<1> QED BY <1>1, <1>2

(* A refused command ends the operation.                                   *)
LEMMA RefusedStep ==
  ASSUME IInv, Refused PROVE IInv'
<1>1. /\ pending.stage # "None" /\ pending' = Nothing /\ used' = 0 /\ reprobe' = reprobe
      /\ outcome' = "Status" /\ UNCHANGED <<call, confirmed, card, applied, verified, retries>>
  BY DEF Refused, Fail, End, auth
<1>2. /\ verified \in BOOLEAN /\ retries \in 0 .. MaxRetries
      /\ retries >= retriesBefore - (IF access.policy = "Pin" THEN 1 ELSE 0)
  BY DEF IInv, TypeOK, Authorized
<1> QED BY <1>1, <1>2, StopStep

(* A lost answer ends the operation, its last command executed or not.     *)
LEMMA InterruptedStep ==
  ASSUME IInv, Interrupted PROVE IInv'
<1> USE AdminAssumption
<1>1. /\ pending.stage # "None" /\ pending' = Nothing /\ used' = 0 /\ reprobe' = reprobe
      /\ outcome' \in {"InvalidResponse", "Abandoned"} /\ UNCHANGED <<call, confirmed>>
  BY DEF Interrupted, Fail, End
<1>2. /\ TypeOK /\ Left /\ Running /\ ProgressTold /\ Authorized /\ applied = confirmed
  BY <1>1 DEF IInv, Running
<1>a. UNCHANGED <<layout, nfcPublic, request, access, before, retriesBefore>>
  BY <1>1 DEF call
<1>3. CASE UNCHANGED <<card, auth, applied>>
  BY <1>1, <1>2, <1>3, StopStep DEF TypeOK, Authorized, auth
<1>4. CASE /\ pending.stage = "Authenticate" /\ retries > 0
           /\ verified' = (access.pin = card.pin \/ verified)
           /\ retries' = (IF access.pin = card.pin THEN MaxRetries ELSE retries - 1)
           /\ UNCHANGED <<card, applied>>
  <2>1. verified' \in BOOLEAN
    BY <1>4
  <2>2. access.policy = "Pin" /\ retries = retriesBefore
    BY <1>2, <1>4 DEF Left, Running
  <2>3. retries' \in 0 .. MaxRetries /\ retries' >= retriesBefore - 1
    BY <1>2, <1>4, <2>2 DEF TypeOK
  <2> QED BY <1>1, <1>4, <2>1, <2>2, <2>3, StopStep
<1>5. CASE pending.stage = "Write" /\ Apply
  <2>1. /\ card' \in CardType /\ retries' \in 0 .. MaxRetries /\ verified' \in BOOLEAN
        /\ ([card' EXCEPT !.pin = before.pin] # before => reprobe)
        /\ (access.policy = "Pin" => access.pin = before.pin)
        /\ retries' >= retriesBefore - (IF access.policy = "Pin" THEN 1 ELSE 0)
    BY <1>5, WriteStep
  <2>2. applied' = confirmed' + 1 /\ confirmed' \in Nat /\ applied' \in Nat
    BY <1>1, <1>2, <1>5 DEF TypeOK, Apply
  <2>3. TypeOK'
    BY <1>1, <1>2, <1>a, <2>1, <2>2 DEF TypeOK
  <2>4. ProgressTold'
    BY <1>1, <1>a, <2>1, <2>2 DEF ProgressTold
  <2>5. ~(access'.policy = "Pin" /\ access'.pin # before'.pin)
    BY <1>a, <2>1
  <2>6. ASSUME request'.kind = "Configure"
        PROVE  \E i \in 0 .. Len(PatchOrder) : card' = Upto(before', request', i)
    <3>1. PICK k \in 1 .. 5 : card' = Upto(before, request, k)
      BY <1>5, <1>a, <2>6, WriteStep
    <3> QED BY <1>a, <3>1, OrderIs
  <2>7. PatchInOrder'
    BY <1>1, <2>5, <2>6 DEF PatchInOrder, Upto
  <2> QED BY <1>1, <1>a, <2>1, <2>3, <2>4, <2>7, Ended
<1> QED BY <1>3, <1>4, <1>5 DEF Interrupted

(* Between operations a reset only ends the verification.                  *)
LEMMA ResetStep ==
  ASSUME IInv, CardReset PROVE IInv'
<1>1. /\ pending.stage = "None" /\ verified' = FALSE
      /\ UNCHANGED <<layout, nfcPublic, request, access, before, retriesBefore, queue, pending, used,
                     confirmed, reprobe, outcome, card, retries, applied>>
  BY DEF CardReset, call, progress
<1>2. TypeOK /\ ProgressTold /\ PatchInOrder /\ Authorized
  BY DEF IInv
<1>3. pending' = Nothing
  BY <1>1, <1>2, CommandIs DEF TypeOK
<1>4. verified' \in BOOLEAN
  BY <1>1
<1>5. TypeOK'
  BY <1>1, <1>2, <1>4 DEF TypeOK
<1>6. ProgressTold'
  BY <1>1, <1>2 DEF ProgressTold
<1>7. PatchInOrder'
  BY <1>1, <1>2 DEF PatchInOrder, Patched
<1> QED BY <1>1, <1>2, <1>3, <1>5, <1>6, <1>7, Ended DEF Authorized

-----------------------------------------------------------------------------
(* The theorems                                                            *)

(* Every initial state satisfies the invariant.                            *)
LEMMA InitInv == Init => IInv
<1> SUFFICES ASSUME Init PROVE IInv
  OBVIOUS
<1> USE AdminAssumption
<1>1. /\ card \in CardType /\ before = card /\ verified = FALSE /\ reprobe = FALSE
      /\ retries = MaxRetries /\ retriesBefore = MaxRetries /\ pending = Nothing
      /\ request.kind = "none" /\ access.policy = "None" /\ access.pin = DefaultPin
      /\ used = 0 /\ confirmed = 0 /\ applied = 0 /\ outcome = "none"
  BY DEF Init
<1>2. verified \in BOOLEAN /\ reprobe \in BOOLEAN
  BY <1>1
<1>3. TypeOK
  BY <1>1, <1>2 DEF TypeOK
<1>4. pending.stage = "None"
  BY <1>1 DEF Nothing, Plain
<1>5. Left /\ Patching /\ Running
  BY <1>4 DEF Left, Patching, Running
<1>6. [card EXCEPT !.pin = before.pin] = before
  BY <1>1 DEF CardType
<1>7. ProgressTold /\ PatchInOrder
  BY <1>1, <1>6 DEF ProgressTold, PatchInOrder
<1>8. Authorized
  BY <1>1, <1>4 DEF Authorized, Guarded
<1> QED BY <1>3, <1>5, <1>7, <1>8 DEF IInv

(* The invariant is kept by every step.                                    *)
LEMMA StepInv == IInv /\ [Next]_vars => IInv'
<1> SUFFICES ASSUME IInv, [Next]_vars PROVE IInv'
  OBVIOUS
<1>1. CASE \E r \in Requests, a \in Accesses : Begin(r, a)
  BY <1>1, BeginStep
<1>2. CASE UNCHANGED vars
  <2>1. UNCHANGED <<layout, nfcPublic, request, access, before, retriesBefore, queue, pending, used,
                    confirmed, reprobe, outcome, card, verified, retries, applied>>
    BY <1>2 DEF vars, call, progress, auth
  <2>2. TypeOK' /\ Left' /\ Patching'
    BY <2>1 DEF IInv, TypeOK, Left, Patching
  <2>3. Running'
    <3>1. Accepted(request, access) => Accepted(request, access)'
      BY <2>1, AcceptedKept
    <3> QED BY <2>1, <3>1 DEF IInv, Running
  <2>4. ProgressTold'
    BY <2>1 DEF IInv, ProgressTold
  <2>5. PatchInOrder'
    BY <2>1 DEF IInv, PatchInOrder, Patched
  <2>6. Authorized'
    BY <2>1 DEF IInv, Authorized, Guarded
  <2> QED BY <2>2, <2>3, <2>4, <2>5, <2>6 DEF IInv
<1> QED BY <1>1, <1>2, SelectStep, VerifyStep, VerifyFailedStep, ReadStep, WriteDoneStep,
           PagedStep, RefusedStep, InterruptedStep, ResetStep DEF Next

(* The inductive invariant, its type part included, always holds.          *)
THEOREM AdminInvariant == Spec => []IInv
BY InitInv, StepInv, PTL DEF Spec

(* However an Admin operation ends, the writes it reports are the writes   *)
(* the card has made, to within the one pending, and a changed device is   *)
(* reported as to be probed again.                                         *)
THEOREM AdminProgress == Spec => []ProgressTold
<1>1. IInv => ProgressTold
  BY DEF IInv
<1> QED BY <1>1, AdminInvariant, PTL

(* A patch writes a prefix of its changes in order, whatever stops it, and *)
(* nothing at all when the PIN is wrong or the host objects.               *)
THEOREM AdminPatch == Spec => []PatchInOrder
<1>1. IInv => PatchInOrder
  BY DEF IInv
<1> QED BY <1>1, AdminInvariant, PTL

(* The access rules of the constructor are those of the card, and an       *)
(* operation costs at most one PIN attempt.                                *)
THEOREM AdminAuthorized == Spec => []Authorized
<1>1. IInv => Authorized
  BY DEF IInv
<1> QED BY <1>1, AdminInvariant, PTL
=============================================================================
