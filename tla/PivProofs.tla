----------------------------- MODULE PivProofs ------------------------------
(***************************************************************************)
(* Proofs about Piv for any keys, PINs, requests and cards, and any PUK    *)
(* retry limit from 1 to 15; and, in the second half, about PivBatch for   *)
(* any batches, limits and answers of the card.                            *)
(***************************************************************************)
EXTENDS Piv, PivBatch, WellFoundedInduction, TLAPS

RotateStages ==
  {"RotateAdmin", "RotatePrinted", "Replace", "NewChallenge", "NewRespond", "PrintedWrite"}

PmStages ==
  {"PmAdmin", "PmPuk", "PmPrinted", "PmMetadata", "PmChallenge", "PmRespond", "PmChange",
   "PmConfirm"}

(* Which operation a stage belongs to, and what it already decided.        *)
Owner ==
  /\ stage # "Idle" =>
       /\ op \in Requests /\ Accepted(op) /\ outcome = "None"
  /\ stage = "Write" => op.kind = "Write"
  /\ stage \in RotateStages => op.kind = "Rotate"
  /\ stage \in RotateStages \ {"Replace"} => op.update
  /\ stage \in PmStages => op.kind = "PinManaged"
  /\ stage = "Credential" =>
       op.kind \in {"VerifyPin", "Logout", "ChangePin", "ChangePuk", "UnblockPin"}
  /\ stage \in {"NewChallenge", "NewRespond", "PrintedWrite"} => protected

(* Until an operation writes them, PRINTED, the key and the PUK are as it  *)
(* found them, and the flags never change.                                 *)
Frame ==
  genuine =>
    /\ card.flags = before.flags
    /\ stage # "Idle" => card.printed = before.printed
    /\ stage \notin {"Idle", "NewChallenge", "NewRespond", "PrintedWrite"} =>
         card.key = before.key
    /\ stage \notin {"Idle", "PmChange", "PmConfirm"} =>
         card.puk = before.puk /\ card.pukRetries = before.pukRetries

(* A rotation knows whether the card is protected before it replaces.      *)
Rotating ==
  /\ stage \in {"Select", "Challenge", "Respond", "Pin", "RotateAdmin"} => ~protected
  /\ stage = "Replace" /\ ~op.update => ~protected
  /\ genuine =>
       /\ stage = "RotatePrinted" => protected /\ Protected(card)
       /\ stage = "Replace" /\ op.update =>
            /\ protected = Protected(card)
            /\ protected => card.printed \in Keys
       /\ stage \in {"NewChallenge", "NewRespond", "PrintedWrite"} => card.key = op.new
       /\ RotationRecoverable

(* The host's session, where it matters.                                   *)
Session ==
  genuine =>
    /\ Manages(op) /\ stage \in {"Pin", "Write", "RotateAdmin", "RotatePrinted", "Replace"} =>
         card.mgmtOk
    /\ stage = "PrintedWrite" => card.mgmtOk

(* Before the first guess nothing has been counted; a machine without a    *)
(* replacement has seen a blocked PUK; guesses follow the proof of the key.*)
Guarded ==
  /\ stage \in {"Select", "Challenge", "Respond", "Pin"} \cup (PmStages \ {"PmChange", "PmConfirm"}) =>
       attempts = 0 /\ known = FALSE
  /\ op.kind = "PinManaged" /\ stage # "Idle" => block \in {op.block, Absent}
  /\ stage \in {"PmChange", "PmConfirm"} => block # Absent
  /\ genuine =>
       /\ stage \in {"PmPrinted", "PmMetadata", "PmChallenge", "PmRespond"} /\ block = Absent =>
            card.pukRetries = 0
       /\ stage \in {"PmChange", "PmConfirm"} => found = card.key
       /\ PukAfterProof

(* The guesses against the counter: a hit refills it once, because the     *)
(* machine then knows the PUK and presents another.                        *)
Guesses ==
  genuine =>
    /\ outcome # "Exhausted"
    /\ stage = "PmChange" =>
         /\ attempts >= 1
         /\ ~known => attempts - 1 + card.pukRetries <= PukLimit
         /\ known => attempts - 1 + card.pukRetries <= 2 * PukLimit /\ card.puk = block

IInv == TypeOK /\ Owner /\ Frame /\ Rotating /\ Session /\ Guarded /\ Guesses /\ DoneIsTrue
-----------------------------------------------------------------------------
(* What the genuine card can answer, stage by stage.                       *)

(* An answer of the genuine card is a card of the right type that differs  *)
(* from the present one only in what the pending command writes.           *)
LEMMA CardFrame ==
  ASSUME TypeOK, Owner, Guarded, genuine, stage # "Idle", NEW x \in Answers(stage)
  PROVE  /\ x.card \in CardType
         /\ x.card.flags = card.flags
         /\ stage # "PrintedWrite" => x.card.printed = card.printed
         /\ stage # "Replace" => x.card.key = card.key
         /\ stage \notin {"Credential", "PmChange"} =>
              x.card.puk = card.puk /\ x.card.pukRetries = card.pukRetries
<1> USE PivAssumption
<1> DEFINE Framed ==
        /\ x.card \in CardType
        /\ x.card.flags = card.flags
        /\ stage # "PrintedWrite" => x.card.printed = card.printed
        /\ stage # "Replace" => x.card.key = card.key
        /\ stage \notin {"Credential", "PmChange"} =>
             x.card.puk = card.puk /\ x.card.pukRetries = card.pukRetries
<1> SUFFICES Framed
  OBVIOUS
<1>0. x \in CardAnswers(stage) /\ card \in CardType
  BY DEF Answers, TypeOK
<1>a. ASSUME x.card = card PROVE Framed
  BY <1>0, <1>a
<1>b. ASSUME NEW p \in BOOLEAN, NEW m \in BOOLEAN, NEW n \in 0 .. MaxPin,
             x.card = [card EXCEPT !.pinOk = p, !.mgmtOk = m, !.pinRetries = n]
      PROVE  Framed
  BY <1>0, <1>b DEF CardType
<1>c. card.pinRetries \in 0 .. MaxPin /\ card.pukRetries \in 0 .. PukLimit
      /\ card.pinOk \in BOOLEAN /\ card.mgmtOk \in BOOLEAN
  BY <1>0 DEF CardType
<1>d. /\ MaxPin \in 0 .. MaxPin
      /\ PukLimit \in 0 .. PukLimit
      /\ card.pinRetries # 0 => card.pinRetries - 1 \in 0 .. MaxPin
      /\ card.pukRetries # 0 => card.pukRetries - 1 \in 0 .. PukLimit
  BY <1>c
<1> HIDE DEF Framed
<1>1. CASE stage \in {"Challenge", "NewChallenge", "PmChallenge", "PmPuk", "PmConfirm",
                      "PmMetadata", "RotateAdmin", "PmAdmin", "RotatePrinted", "PmPrinted"}
  <2>1. CASE stage \in {"Challenge", "NewChallenge", "PmChallenge"}
    <3>1. x = Ok(card)
      BY <1>0, <2>1 DEF CardAnswers
    <3> QED BY <3>1, <1>a DEF Ok, Says
  <2>2. CASE stage \in {"PmPuk", "PmConfirm"}
    <3>1. x = Says("ok", card.pukRetries, card)
      BY <1>0, <2>2 DEF CardAnswers
    <3> QED BY <3>1, <1>a DEF Says
  <2>3. CASE stage = "PmMetadata"
    <3>1. x = Ok(card) \/ x = Says("notFound", Absent, card)
      BY <1>0, <2>3 DEF CardAnswers
    <3> QED BY <3>1, <1>a DEF Ok, Says
  <2>4. CASE stage \in {"RotateAdmin", "PmAdmin"}
    <3>1. x = CardObject(card.flags)
      BY <1>0, <2>4 DEF CardAnswers
    <3> QED BY <3>1, <1>a DEF CardObject, Says
  <2>5. CASE stage \in {"RotatePrinted", "PmPrinted"}
    <3>1. x = CardObject(card.printed) \/ x = Refuses
      BY <1>0, <2>5 DEF CardAnswers
    <3> QED BY <3>1, <1>a DEF CardObject, Refuses, Says
  <2> QED BY <1>1, <2>1, <2>2, <2>3, <2>4, <2>5
<1>2. CASE stage = "Select"
  <2>1. x.card = [card EXCEPT !.pinOk = FALSE, !.mgmtOk = FALSE]
    BY <1>0, <1>2 DEF CardAnswers, Ok, Says
  <2>2. x.card = [card EXCEPT !.pinOk = FALSE, !.mgmtOk = FALSE, !.pinRetries = card.pinRetries]
    BY <1>0, <2>1 DEF CardType
  <2> QED BY <2>2, <1>b, <1>c
<1>3. ASSUME NEW k, x = CardAuthenticate(k) PROVE Framed
  <2>1. PICK m \in BOOLEAN : x.card = [card EXCEPT !.mgmtOk = m]
    BY <1>3 DEF CardAuthenticate, Says
  <2>2. x.card = [card EXCEPT !.pinOk = card.pinOk, !.mgmtOk = m, !.pinRetries = card.pinRetries]
    BY <1>0, <2>1 DEF CardType
  <2> QED BY <2>2, <1>b, <1>c
<1>4. CASE stage \in {"Respond", "NewRespond", "PmRespond"}
  <2>1. CASE stage = "Respond"
    BY <1>0, <1>3, <2>1 DEF CardAnswers
  <2>2. CASE stage = "NewRespond"
    BY <1>0, <1>3, <2>2 DEF CardAnswers
  <2>3. CASE stage = "PmRespond"
    BY <1>0, <1>3, <2>3 DEF CardAnswers
  <2> QED BY <1>4, <2>1, <2>2, <2>3
<1>5. ASSUME NEW p, x = CardVerify(p) PROVE Framed
  <2>1. \/ x.card = card
        \/ x.card = [card EXCEPT !.pinOk = TRUE, !.pinRetries = MaxPin]
        \/ card.pinRetries # 0 /\ x.card = [card EXCEPT !.pinOk = FALSE, !.pinRetries = @ - 1]
    BY <1>5, <1>c DEF CardVerify, Ok, Says
  <2>2. CASE x.card = [card EXCEPT !.pinOk = TRUE, !.pinRetries = MaxPin]
    <3>1. x.card = [card EXCEPT !.pinOk = TRUE, !.mgmtOk = card.mgmtOk, !.pinRetries = MaxPin]
      BY <1>0, <2>2 DEF CardType
    <3> QED BY <3>1, <1>b, <1>c, <1>d
  <2>3. CASE card.pinRetries # 0 /\ x.card = [card EXCEPT !.pinOk = FALSE, !.pinRetries = @ - 1]
    <3>1. x.card = [card EXCEPT !.pinOk = FALSE, !.mgmtOk = card.mgmtOk,
                                !.pinRetries = card.pinRetries - 1]
      BY <1>0, <2>3 DEF CardType
    <3> QED BY <3>1, <1>b, <1>c, <1>d, <2>3
  <2> QED BY <2>1, <2>2, <2>3, <1>a
<1>6. CASE stage = "Pin"
  BY <1>0, <1>5, <1>6 DEF CardAnswers
<1>7. ASSUME stage \in {"Credential", "PmChange"},
             NEW old, NEW after, x = CardPuk(old, after), after \in CardType,
             after.flags = card.flags, after.printed = card.printed, after.key = card.key
      PROVE  Framed
  <2>1. \/ x.card = card
        \/ x.card = after
        \/ card.pukRetries # 0 /\ x.card = [card EXCEPT !.pukRetries = @ - 1]
    BY <1>7, <1>c DEF CardPuk, Ok, Says
  <2>2. CASE x.card = after
    BY <1>7, <2>2 DEF Framed
  <2>3. CASE card.pukRetries # 0 /\ x.card = [card EXCEPT !.pukRetries = @ - 1]
    BY <1>0, <1>7, <2>3, <1>c DEF Framed, CardType
  <2> QED BY <2>1, <2>2, <2>3, <1>a
<1>8. ASSUME NEW n \in Puks
      PROVE  /\ ChangedPuk(n) \in CardType
             /\ ChangedPuk(n).flags = card.flags
             /\ ChangedPuk(n).printed = card.printed
             /\ ChangedPuk(n).key = card.key
  BY <1>0, <1>d DEF ChangedPuk, CardType
<1>9. CASE stage = "PmChange"
  <2>1. block \in Puks
    BY <1>9 DEF TypeOK, Guarded
  <2>2. x = CardPuk(GuessedPuk, ChangedPuk(block))
    BY <1>0, <1>9 DEF CardAnswers
  <2> QED BY <1>7, <1>8, <1>9, <2>1, <2>2
<1>10. CASE stage = "Credential"
  <2>1. /\ op.kind \in {"VerifyPin", "Logout", "ChangePin", "ChangePuk", "UnblockPin"}
        /\ op.kind = "ChangePin" => op.new \in Pins
        /\ op.kind = "ChangePuk" => op.block \in Puks
        /\ op.kind = "UnblockPin" => op.pin \in Pins
    BY <1>10, RequestAssumption DEF Owner
  <2>2. x \in CardCredential
    BY <1>0, <1>10 DEF CardAnswers
  <2>3. CASE op.kind = "VerifyPin"
    BY <1>5, <2>2, <2>3 DEF CardCredential
  <2>4. CASE op.kind = "Logout"
    <3>1. x.card = [card EXCEPT !.pinOk = FALSE]
      BY <2>2, <2>4 DEF CardCredential, Ok, Says
    <3>2. x.card = [card EXCEPT !.pinOk = FALSE, !.mgmtOk = card.mgmtOk,
                                !.pinRetries = card.pinRetries]
      BY <1>0, <3>1 DEF CardType
    <3> QED BY <3>2, <1>b, <1>c
  <2>5. CASE op.kind = "ChangePuk"
    <3>1. x = CardPuk(op.puk, ChangedPuk(op.block))
      BY <2>2, <2>5 DEF CardCredential
    <3> QED BY <1>7, <1>8, <1>10, <2>1, <2>5, <3>1
  <2>6. CASE op.kind = "UnblockPin"
    <3> DEFINE after == [card EXCEPT !.pin = op.pin, !.pinRetries = MaxPin,
                                     !.pukRetries = PukLimit]
    <3>1. x = CardPuk(op.puk, after)
      BY <2>2, <2>6 DEF CardCredential
    <3>2. /\ after \in CardType
          /\ after.flags = card.flags /\ after.printed = card.printed /\ after.key = card.key
      BY <1>0, <1>d, <2>1, <2>6 DEF CardType
    <3> HIDE DEF after
    <3> QED BY <1>7, <1>10, <3>1, <3>2
  <2>7. CASE op.kind = "ChangePin"
    <3>1. \/ x = CardVerify(op.pin)
          \/ \E v \in BOOLEAN :
               x = Ok([card EXCEPT !.pin = op.new, !.pinRetries = MaxPin, !.pinOk = v])
      BY <2>2, <2>7 DEF CardCredential, CardChangePin
    <3>2. ASSUME NEW v \in BOOLEAN,
                 x = Ok([card EXCEPT !.pin = op.new, !.pinRetries = MaxPin, !.pinOk = v])
          PROVE  Framed
      <4>1. x.card = [card EXCEPT !.pin = op.new, !.pinRetries = MaxPin, !.pinOk = v]
        BY <3>2 DEF Ok, Says
      <4> QED BY <1>0, <1>d, <2>1, <2>7, <4>1 DEF Framed, CardType
    <3> QED BY <1>5, <3>1, <3>2
  <2> QED BY <2>1, <2>3, <2>4, <2>5, <2>6, <2>7
<1>11. ASSUME NEW after, x = CardWrite(after) PROVE x.card = card \/ x.card = after
  BY <1>11 DEF CardWrite, Refuses, Ok, Says
<1>12. CASE stage = "Write"
  <2>1. op.new \in Objects
    BY <1>12, RequestAssumption DEF Owner
  <2>2. x.card = card \/ x.card = [card EXCEPT !.data = op.new]
    BY <1>0, <1>11, <1>12 DEF CardAnswers
  <2> QED BY <1>0, <1>a, <1>12, <2>1, <2>2 DEF Framed, CardType
<1>13. CASE stage = "Replace"
  <2>1. op.new \in Keys
    BY <1>13, RequestAssumption DEF Owner, RotateStages
  <2>2. PICK stays \in BOOLEAN : x = CardWrite([card EXCEPT !.key = op.new, !.mgmtOk = stays])
    BY <1>0, <1>13 DEF CardAnswers
  <2>3. x.card = card \/ x.card = [card EXCEPT !.key = op.new, !.mgmtOk = stays]
    BY <1>11, <2>2
  <2> QED BY <1>0, <1>a, <1>13, <2>1, <2>3 DEF Framed, CardType
<1>14. CASE stage = "PrintedWrite"
  <2>1. op.new \in Objects
    BY <1>14, RequestAssumption DEF Owner, RotateStages, Objects
  <2>2. x.card = card \/ x.card = [card EXCEPT !.printed = op.new]
    BY <1>0, <1>11, <1>14 DEF CardAnswers
  <2> QED BY <1>0, <1>a, <1>14, <2>1, <2>2 DEF Framed, CardType
<1> QED
  BY <1>1, <1>2, <1>4, <1>6, <1>9, <1>10, <1>12, <1>13, <1>14 DEF TypeOK, Stages

(* The same for a step of the specification, whichever card it is.         *)
LEMMA CardNext ==
  ASSUME IInv, stage # "Idle", NEW x \in Answers(stage), card' \in {card, x.card}
  PROVE  /\ card' \in CardType
         /\ genuine =>
              /\ card'.flags = card.flags
              /\ stage # "PrintedWrite" => card'.printed = card.printed
              /\ stage # "Replace" => card'.key = card.key
              /\ stage \notin {"Credential", "PmChange"} =>
                   card'.puk = card.puk /\ card'.pukRetries = card.pukRetries
<1>1. CASE genuine
  BY <1>1, CardFrame DEF IInv, TypeOK
<1>2. CASE ~genuine
  <2>1. x.card = card
    BY <1>2 DEF Answers, Says
  <2> QED BY <1>2, <2>1 DEF IInv, TypeOK
<1> QED BY <1>1, <1>2

(* The replacement and the write of PRINTED, when the card does them.      *)
LEMMA CardWrites ==
  ASSUME IInv, genuine, NEW x \in Answers(stage), card' \in {card, x.card}
  PROVE  /\ stage = "Replace" => card'.key \in {card.key, op.new}
         /\ stage = "PrintedWrite" => card'.printed \in {card.printed, op.new}
<1>0. x \in CardAnswers(stage) /\ card \in CardType
  BY DEF Answers, IInv, TypeOK
<1>1. CASE stage = "Replace"
  <2>1. PICK stays \in BOOLEAN : x = CardWrite([card EXCEPT !.key = op.new, !.mgmtOk = stays])
    BY <1>0, <1>1 DEF CardAnswers
  <2>2. x.card = card \/ x.card = [card EXCEPT !.key = op.new, !.mgmtOk = stays]
    BY <2>1 DEF CardWrite, Refuses, Ok, Says
  <2> QED BY <1>0, <1>1, <2>2 DEF CardType
<1>2. CASE stage = "PrintedWrite"
  <2>1. x = CardWrite([card EXCEPT !.printed = op.new])
    BY <1>0, <1>2 DEF CardAnswers
  <2>2. x.card = card \/ x.card = [card EXCEPT !.printed = op.new]
    BY <2>1 DEF CardWrite, Refuses, Ok, Says
  <2> QED BY <1>0, <1>2, <2>2 DEF CardType
<1> QED BY <1>1, <1>2

-----------------------------------------------------------------------------
(* The ways a step can go.                                                 *)

(* An operation that ends, with its pending command executed or not: what  *)
(* is left to show is that a success is a true one and that the guesses    *)
(* did not run out.                                                        *)
LEMMA Ending ==
  ASSUME IInv, stage # "Idle", NEW x \in Answers(stage), card' \in {card, x.card},
         UNCHANGED call, stage' = "Idle", outcome' \in {"Done", "Failed", "Exhausted"},
         UNCHANGED <<protected, found, block, attempts>>, known' \in BOOLEAN,
         genuine => outcome' # "Exhausted",
         DoneIsTrue'
  PROVE  IInv'
<1> USE DEF call
<1>1. TypeOK'
  BY CardNext DEF IInv, TypeOK, Stages
<1>2. Owner'
  BY DEF Owner, RotateStages, PmStages
<1>3. Frame'
  BY CardNext DEF IInv, Frame
<1>4. ASSUME genuine PROVE RotationRecoverable'
  <2> SUFFICES ASSUME op.kind = "Rotate" PROVE RotationRecoverable'
    BY DEF RotationRecoverable
  <2>1. /\ card'.flags = card.flags
        /\ stage # "PrintedWrite" => card'.printed = card.printed
        /\ stage # "Replace" => card'.key = card.key
    BY <1>4, CardNext
  <2>2. card.printed = before.printed /\ card.flags = before.flags
    BY <1>4 DEF IInv, Frame
  <2>3. CASE stage = "PrintedWrite"
    <3>1. card'.printed \in {card.printed, op.new}
      BY <1>4, <2>3, CardWrites
    <3>2. card.key = op.new
      BY <1>4, <2>3 DEF IInv, Rotating
    <3> QED BY <1>4, <2>1, <2>2, <2>3, <3>1, <3>2 DEF IInv, Rotating, RotationRecoverable, Protected
  <2>4. CASE stage = "Replace"
    <3>1. card.key = before.key
      BY <1>4, <2>4 DEF IInv, Frame
    <3>2. op.update /\ Protected(card) => card.printed \in Keys
      BY <1>4, <2>4 DEF IInv, Rotating
    <3> QED BY <1>4, <2>1, <2>2, <2>4, <3>1, <3>2 DEF RotationRecoverable, Protected
  <2>5. CASE stage \notin {"PrintedWrite", "Replace"}
    BY <1>4, <2>1, <2>2, <2>5 DEF IInv, Rotating, RotationRecoverable, Protected
  <2> QED BY <2>3, <2>4, <2>5
<1>5. Rotating'
  BY <1>4 DEF Rotating
<1>6. Session'
  BY DEF Session
<1>7. ASSUME genuine PROVE PukAfterProof'
  <2> SUFFICES ASSUME op.kind = "PinManaged" PROVE PukAfterProof'
    BY DEF PukAfterProof
  <2>1. stage # "Replace" /\ stage # "Credential"
    BY DEF IInv, Owner, RotateStages
  <2>2. card'.key = card.key
    BY <1>7, <2>1, CardNext
  <2>3. CASE stage = "PmChange"
    <3>1. found = card.key /\ block # Absent /\ block \in {op.block, Absent}
      BY <1>7, <2>3 DEF IInv, Guarded
    <3> QED BY <2>2, <3>1 DEF PukAfterProof
  <2>4. CASE stage # "PmChange"
    <3>1. card'.puk = card.puk /\ card'.pukRetries = card.pukRetries
      BY <1>7, <2>1, <2>4, CardNext
    <3> QED BY <1>7, <2>2, <3>1 DEF IInv, Guarded, PukAfterProof
  <2> QED BY <2>3, <2>4
<1>8. Guarded'
  BY <1>7 DEF Guarded, PmStages
<1>9. Guesses'
  BY DEF Guesses
<1> QED BY <1>1, <1>2, <1>3, <1>5, <1>6, <1>8, <1>9 DEF IInv

(* A failure, wherever it happens.                                         *)
LEMMA Failing ==
  ASSUME IInv, stage # "Idle", NEW x \in Answers(stage), card' \in {card, x.card},
         UNCHANGED call, Fail
  PROVE  IInv'
<1>1. /\ stage' = "Idle" /\ outcome' = "Failed"
      /\ UNCHANGED <<protected, found, block, attempts>> /\ known' \in BOOLEAN
  BY DEF Fail, Stop, machine, IInv, TypeOK
<1>2. DoneIsTrue'
  BY <1>1 DEF DoneIsTrue
<1> QED BY <1>1, <1>2, Ending

(* A step to another stage of the same operation keeps what the operation  *)
(* has not written.                                                        *)
LEMMA Continuing ==
  ASSUME IInv, stage # "Idle", NEW x \in Answers(stage), card' = x.card,
         UNCHANGED call, UNCHANGED outcome,
         stage \notin {"PrintedWrite", "Credential"},
         stage' # "Idle",
         stage = "Replace" => stage' = "NewChallenge",
         stage \in {"NewChallenge", "NewRespond"} =>
           stage' \in {"NewChallenge", "NewRespond", "PrintedWrite"},
         stage = "PmChange" => stage' \in {"PmChange", "PmConfirm"} /\ found' = found,
         stage # "PmConfirm"
  PROVE  /\ Frame' /\ DoneIsTrue'
         /\ op \in Requests /\ Accepted(op) /\ outcome' = "None"
         /\ op' = op /\ genuine' = genuine /\ before' = before
         /\ card' \in CardType
         /\ genuine => RotationRecoverable' /\ PukAfterProof'
<1> USE DEF call
<1>1. /\ op \in Requests /\ Accepted(op) /\ outcome' = "None"
      /\ op' = op /\ genuine' = genuine /\ before' = before
  BY DEF IInv, Owner
<1>2. DoneIsTrue'
  BY <1>1 DEF DoneIsTrue
<1>3. /\ card' \in CardType
      /\ genuine =>
           /\ card'.flags = card.flags
           /\ card'.printed = card.printed
           /\ stage # "Replace" => card'.key = card.key
           /\ stage # "PmChange" => card'.puk = card.puk /\ card'.pukRetries = card.pukRetries
  BY CardNext
<1>4. Frame'
  BY <1>1, <1>3 DEF IInv, Frame
<1>5. ASSUME genuine PROVE RotationRecoverable'
  <2>1. card.printed = before.printed /\ card.flags = before.flags
    BY <1>5 DEF IInv, Frame
  <2>2. CASE stage = "Replace"
    <3>1. op.update /\ Protected(card) => card.printed \in Keys
      BY <1>5, <2>2 DEF IInv, Rotating
    <3> QED BY <1>1, <1>3, <1>5, <2>1, <3>1 DEF RotationRecoverable, Protected
  <2>3. CASE stage # "Replace"
    BY <1>1, <1>3, <1>5, <2>1, <2>3 DEF IInv, Rotating, RotationRecoverable, Protected
  <2> QED BY <2>2, <2>3
<1>6. ASSUME genuine PROVE PukAfterProof'
  <2>1. CASE stage = "PmChange"
    <3>1. found = card.key /\ block # Absent /\ op.block # Absent
      BY <1>6, <2>1 DEF IInv, Guarded, Owner, PmStages
    <3> QED BY <1>1, <1>3, <1>6, <2>1, <3>1 DEF PukAfterProof
  <2>2. CASE stage # "PmChange"
    <3>1. card.puk = before.puk /\ card.pukRetries = before.pukRetries
      BY <1>6, <2>2 DEF IInv, Frame
    <3> QED BY <1>1, <1>3, <1>6, <2>2, <3>1 DEF PukAfterProof
  <2> QED BY <2>1, <2>2
<1> QED BY <1>1, <1>2, <1>3, <1>4, <1>5, <1>6

-----------------------------------------------------------------------------
(* Selected and ManagementMachine                                          *)

(* Going on to the PIN or to the first stage of the target.                *)
LEMMA Entering ==
  ASSUME IInv, stage \in {"Select", "Respond", "Pin"},
         NEW x \in Answers(stage), card' = x.card, UNCHANGED call,
         UNCHANGED outcome, UNCHANGED machine,
         stage' \in {"Challenge", "Pin", Target(op)},
         genuine /\ Manages(op) /\ stage' # "Challenge" => card'.mgmtOk
  PROVE  IInv'
<1>1. Target(op) \in {"Write", "RotateAdmin", "Replace", "PmAdmin", "Challenge", "Credential"}
  BY DEF Target
<1>2. /\ Frame' /\ DoneIsTrue'
      /\ op \in Requests /\ Accepted(op) /\ outcome' = "None"
      /\ op' = op /\ genuine' = genuine /\ before' = before
      /\ card' \in CardType
      /\ genuine => RotationRecoverable' /\ PukAfterProof'
  BY <1>1, Continuing
<1>3. TypeOK'
  BY <1>1, <1>2 DEF IInv, TypeOK, Stages, machine
<1>4. Owner'
  <2>1. op.kind \in {"Write", "Rotate", "PinManaged", "Authenticate",
                     "VerifyPin", "Logout", "ChangePin", "ChangePuk", "UnblockPin"}
        /\ (op.kind = "Rotate" => op.update \in BOOLEAN)
    BY <1>2, RequestAssumption
  <2>2. /\ stage' = "Write" => op.kind = "Write"
        /\ stage' \in {"RotateAdmin", "Replace"} => op.kind = "Rotate"
        /\ stage' = "RotateAdmin" => op.update
        /\ stage' = "PmAdmin" => op.kind = "PinManaged"
        /\ stage' = "Credential" =>
             op.kind \in {"VerifyPin", "Logout", "ChangePin", "ChangePuk", "UnblockPin"}
    BY <2>1 DEF Target
  <2> QED BY <1>1, <1>2, <2>2 DEF Owner, RotateStages, PmStages, Accepted, Manages
<1>5. Rotating'
  <2>1. ~protected
    BY DEF IInv, Rotating
  <2>2. stage' = "Replace" => ~op.update
    BY DEF Target
  <2> QED BY <1>1, <1>2, <2>1, <2>2 DEF Rotating, machine
<1>6. Session'
  BY <1>1, <1>2 DEF Session, Manages
<1>7. Guarded'
  <2>1. attempts = 0 /\ known = FALSE
    BY DEF IInv, Guarded
  <2>2. op.kind = "PinManaged" => block \in {op.block, Absent}
    BY DEF IInv, Guarded
  <2> QED BY <1>1, <1>2, <2>1, <2>2 DEF Guarded, PmStages, machine
<1>8. Guesses'
  BY <1>1, <1>2 DEF Guesses
<1> QED BY <1>2, <1>3, <1>4, <1>5, <1>6, <1>7, <1>8 DEF IInv

(* The answer to SELECT keeps the invariant.                               *)
LEMMA SelectKeeps == IInv /\ SelectReply => IInv'
<1> SUFFICES ASSUME IInv, SelectReply PROVE IInv'
  OBVIOUS
<1>1. PICK x \in Answers("Select") :
        /\ card' = x.card /\ UNCHANGED call
        /\ IF x.sw = "ok"
           THEN /\ stage' = (IF Manages(op) THEN "Challenge" ELSE TargetOrPin)
                /\ UNCHANGED outcome /\ UNCHANGED machine
           ELSE Fail
  BY DEF SelectReply, Step, Exchange, Goto
<1>2. stage = "Select"
  BY DEF SelectReply, Step
<1>3. CASE x.sw = "ok"
  BY <1>1, <1>2, <1>3, Entering DEF TargetOrPin
<1>4. CASE x.sw # "ok"
  BY <1>1, <1>2, <1>4, Failing
<1> QED BY <1>3, <1>4

(* The end of the management authentication keeps the invariant: on a      *)
(* genuine card a proved key means an authenticated session.               *)
LEMMA ResponseKeeps == IInv /\ ManagementResponse => IInv'
<1> SUFFICES ASSUME IInv, ManagementResponse PROVE IInv'
  OBVIOUS
<1> DEFINE Proved(x) == x.sw = "ok" /\ (op.mutual => x.data = TRUE)
<1>1. PICK x \in Answers("Respond") :
        /\ card' = x.card /\ UNCHANGED call
        /\ \/ Proved(x) /\ op.kind = "Authenticate" /\ Stop("Done") /\ UNCHANGED machine
           \/ Proved(x) /\ op.kind # "Authenticate" /\ Goto(TargetOrPin) /\ UNCHANGED machine
           \/ Fail
  BY DEF ManagementResponse, Exchange
<1>2. stage = "Respond"
  BY DEF ManagementResponse
<1>3. CASE op.kind = "Authenticate" /\ Stop("Done") /\ UNCHANGED machine
  <2>1. DoneIsTrue'
    BY <1>1, <1>3 DEF DoneIsTrue, call
  <2> QED BY <1>1, <1>2, <1>3, <2>1, Ending DEF Stop, machine, IInv, TypeOK
<1>4. CASE Proved(x) /\ Goto(TargetOrPin) /\ UNCHANGED machine
  <2>1. ASSUME genuine PROVE card'.mgmtOk
    <3>1. x = CardAuthenticate(op.key)
      BY <1>2, <2>1 DEF Answers, CardAnswers
    <3>2. x.card = [card EXCEPT !.mgmtOk = TRUE]
      BY <1>4, <3>1 DEF CardAuthenticate, Says
    <3> QED BY <1>1, <3>2 DEF IInv, TypeOK, CardType
  <2> QED BY <1>1, <1>2, <1>4, <2>1, Entering DEF TargetOrPin, Goto
<1>5. CASE Fail
  BY <1>1, <1>2, <1>5, Failing
<1> QED BY <1>1, <1>3, <1>4, <1>5

(* The PIN's answer keeps the invariant and the management session.        *)
LEMMA PinKeeps == IInv /\ PinReply => IInv'
<1> SUFFICES ASSUME IInv, PinReply PROVE IInv'
  OBVIOUS
<1>1. PICK x \in Answers("Pin") :
        /\ card' = x.card /\ UNCHANGED call
        /\ IF x.sw = "ok"
           THEN stage' = Target(op) /\ UNCHANGED outcome /\ UNCHANGED machine
           ELSE Fail
  BY DEF PinReply, Step, Exchange, Goto
<1>2. stage = "Pin"
  BY DEF PinReply, Step
<1>3. CASE x.sw = "ok"
  <2>1. ASSUME genuine, Manages(op) PROVE card'.mgmtOk
    <3>1. x = CardVerify(op.pin)
      BY <1>2, <2>1 DEF Answers, CardAnswers
    <3>2. \/ x.card = [card EXCEPT !.pinOk = TRUE, !.pinRetries = MaxPin]
          \/ x.card = [card EXCEPT !.pinOk = FALSE, !.pinRetries = @ - 1]
          \/ x.card = card
      BY <3>1 DEF CardVerify, Ok, Says
    <3>3. card.mgmtOk
      BY <1>2, <2>1 DEF IInv, Session
    <3> QED BY <1>1, <3>2, <3>3 DEF IInv, TypeOK, CardType
  <2> QED BY <1>1, <1>2, <1>3, <2>1, Entering
<1>4. CASE x.sw # "ok"
  BY <1>1, <1>2, <1>4, Failing
<1> QED BY <1>3, <1>4

-----------------------------------------------------------------------------
(* The moves that leave the machine's own variables alone.                 *)

Moves ==
  {<<"Challenge", "Respond">>, <<"RotatePrinted", "Replace">>, <<"Replace", "NewChallenge">>,
   <<"NewChallenge", "NewRespond">>, <<"NewRespond", "PrintedWrite">>, <<"PmAdmin", "PmPuk">>,
   <<"PmMetadata", "PmChallenge">>, <<"PmChallenge", "PmRespond">>, <<"PmChange", "PmConfirm">>}

(* A move to the next stage of the same machine keeps the invariant when   *)
(* the conditions of the move hold.                                        *)
LEMMA Moving ==
  ASSUME IInv, NEW x \in Answers(stage), card' = x.card, UNCHANGED call,
         UNCHANGED outcome, UNCHANGED machine,
         <<stage, stage'>> \in Moves,
         stage = "Replace" => protected,
         genuine =>
           /\ stage = "RotatePrinted" => card.printed \in Keys
           /\ stage = "Replace" => card'.key = op.new
           /\ stage = "NewRespond" => card'.mgmtOk
  PROVE  IInv'
<1>1. /\ stage \in {"Challenge", "RotatePrinted", "Replace", "NewChallenge", "NewRespond",
                    "PmAdmin", "PmMetadata", "PmChallenge", "PmChange"}
      /\ stage = "Challenge" => stage' = "Respond"
      /\ stage = "RotatePrinted" => stage' = "Replace"
      /\ stage = "Replace" => stage' = "NewChallenge"
      /\ stage = "NewChallenge" => stage' = "NewRespond"
      /\ stage = "NewRespond" => stage' = "PrintedWrite"
      /\ stage = "PmAdmin" => stage' = "PmPuk"
      /\ stage = "PmMetadata" => stage' = "PmChallenge"
      /\ stage = "PmChallenge" => stage' = "PmRespond"
      /\ stage = "PmChange" => stage' = "PmConfirm"
  BY DEF Moves
<1>2. /\ Frame' /\ DoneIsTrue'
      /\ op \in Requests /\ Accepted(op) /\ outcome' = "None"
      /\ op' = op /\ genuine' = genuine /\ before' = before
      /\ card' \in CardType
      /\ genuine => RotationRecoverable' /\ PukAfterProof'
  BY <1>1, Continuing DEF machine
<1>3. genuine =>
        /\ card'.flags = card.flags
        /\ card'.printed = card.printed
        /\ stage # "Replace" => card'.key = card.key
        /\ stage # "PmChange" => card'.puk = card.puk /\ card'.pukRetries = card.pukRetries
  BY <1>1, CardNext
<1>4. TypeOK'
  BY <1>1, <1>2 DEF IInv, TypeOK, Stages, machine
<1>5. Owner'
  <2>1. /\ stage' # "Write" /\ stage' # "Credential"
        /\ stage' \in RotateStages => stage \in RotateStages \ {"Replace"} \/ stage = "Replace"
        /\ stage' \in PmStages => stage \in PmStages
        /\ stage' \in {"NewChallenge", "NewRespond", "PrintedWrite"} =>
             stage \in {"Replace", "NewChallenge", "NewRespond"}
    BY <1>1 DEF RotateStages, PmStages
  <2>2. /\ stage \in RotateStages => op.kind = "Rotate"
        /\ stage \in RotateStages \ {"Replace"} => op.update
        /\ stage \in PmStages => op.kind = "PinManaged"
        /\ stage \in {"NewChallenge", "NewRespond"} => protected
    BY DEF IInv, Owner
  <2>3. stage = "Replace" => op.update
    BY DEF IInv, Rotating, Owner, RotateStages
  <2> QED BY <1>1, <1>2, <2>1, <2>2, <2>3 DEF Owner, Accepted, Manages, machine, RotateStages
<1>6. Rotating'
  <2>1. ASSUME genuine, stage = "RotatePrinted"
        PROVE  protected' = Protected(card)' /\ card'.printed \in Keys
    BY <1>1, <1>3, <2>1 DEF IInv, Rotating, Protected, machine
  <2>2. stage' = "Replace" => stage = "RotatePrinted"
    BY <1>1
  <2>3. stage' \in {"NewChallenge", "NewRespond", "PrintedWrite"} =>
          stage \in {"Replace", "NewChallenge", "NewRespond"}
    BY <1>1
  <2>4. stage = "RotatePrinted" => op.update
    BY DEF IInv, Owner, RotateStages
  <2>5. stage = "Challenge" => ~protected
    BY DEF IInv, Rotating
  <2>6. stage' \notin {"RotatePrinted", "RotateAdmin", "Select", "Challenge", "Pin"}
        /\ (stage' = "Respond" => stage = "Challenge")
    BY <1>1
  <2>7. genuine /\ stage \in {"Replace", "NewChallenge", "NewRespond"} => card'.key = op.new
    BY <1>3 DEF IInv, Rotating
  <2> QED BY <1>2, <2>1, <2>2, <2>3, <2>4, <2>5, <2>6, <2>7 DEF Rotating, machine
<1>7. Session'
  <2>1. genuine /\ Manages(op) /\ stage = "RotatePrinted" => card'.mgmtOk
    <3>1. ASSUME genuine, stage = "RotatePrinted" PROVE x.card = card
      <4>1. x = CardObject(card.printed) \/ x = Refuses
        BY <3>1 DEF Answers, CardAnswers
      <4> QED BY <4>1 DEF CardObject, Refuses, Says
    <3> QED BY <3>1 DEF IInv, Session
  <2>2. /\ stage' \in {"Pin", "Write", "RotateAdmin", "RotatePrinted", "Replace"} =>
             stage = "RotatePrinted"
        /\ stage' = "PrintedWrite" => stage = "NewRespond"
    BY <1>1
  <2> QED BY <1>2, <2>1, <2>2 DEF Session, Manages
<1>8. Guarded'
  <2>1. /\ stage' = "PmConfirm" => stage = "PmChange"
        /\ stage' # "PmChange" /\ stage' # "PmPrinted" /\ stage' # "PmMetadata"
        /\ stage' \in {"PmChallenge", "PmRespond"} => stage \in {"PmMetadata", "PmChallenge"}
        /\ stage' \in {"Select", "Challenge", "Respond", "Pin"}
                        \cup (PmStages \ {"PmChange", "PmConfirm"}) =>
             stage \in {"Challenge", "PmAdmin", "PmMetadata", "PmChallenge"}
    BY <1>1 DEF PmStages
  <2>2. stage \in {"Challenge", "PmAdmin", "PmMetadata", "PmChallenge"} =>
          attempts = 0 /\ known = FALSE
    BY DEF IInv, Guarded, PmStages
  <2>3. /\ op.kind = "PinManaged" => block \in {op.block, Absent}
        /\ stage = "PmChange" => block # Absent
    BY <1>1 DEF IInv, Guarded
  <2>4. genuine =>
          /\ stage \in {"PmMetadata", "PmChallenge"} /\ block = Absent => card'.pukRetries = 0
          /\ stage = "PmChange" => found = card'.key
    BY <1>3 DEF IInv, Guarded
  <2> QED BY <1>2, <2>1, <2>2, <2>3, <2>4 DEF Guarded, machine
<1>9. Guesses'
  BY <1>1, <1>2 DEF Guesses
<1> QED BY <1>2, <1>4, <1>5, <1>6, <1>7, <1>8, <1>9 DEF IInv

(* A stage that only looks at the status, in a move that needs no more.    *)
LEMMA StepKeeps ==
  ASSUME IInv, NEW s, NEW t, s \in {"Challenge", "NewChallenge", "PmChallenge"},
         <<s, t>> \in Moves, Step(s, t)
  PROVE  IInv'
<1>1. PICK x \in Answers(s) :
        /\ card' = x.card /\ UNCHANGED call
        /\ IF x.sw = "ok" THEN stage' = t /\ UNCHANGED outcome /\ UNCHANGED machine ELSE Fail
  BY DEF Step, Exchange, Goto
<1>2. stage = s
  BY DEF Step
<1>3. CASE x.sw = "ok"
  BY <1>1, <1>2, <1>3, Moving
<1>4. CASE x.sw # "ok"
  BY <1>1, <1>2, <1>4, Failing
<1> QED BY <1>3, <1>4

(* The last command of an operation about which DoneIsTrue says nothing.   *)
LEMMA LastStepKeeps ==
  ASSUME IInv, NEW s, s \in {"Credential", "Write"}, LastStep(s)
  PROVE  IInv'
<1>1. PICK x \in Answers(s) :
        /\ card' = x.card /\ UNCHANGED call
        /\ IF x.sw = "ok" THEN Stop("Done") /\ UNCHANGED machine ELSE Fail
  BY DEF LastStep, Exchange
<1>2. stage = s
  BY DEF LastStep
<1>3. CASE x.sw = "ok"
  <2>1. op.kind \notin {"Rotate", "PinManaged"}
    BY <1>2 DEF IInv, Owner
  <2>2. DoneIsTrue'
    BY <1>1, <2>1 DEF DoneIsTrue, call
  <2> QED BY <1>1, <1>2, <1>3, <2>2, Ending DEF Stop, machine, IInv, TypeOK
<1>4. CASE x.sw # "ok"
  BY <1>1, <1>2, <1>4, Failing
<1> QED BY <1>3, <1>4

-----------------------------------------------------------------------------
(* RotateManagement                                                        *)

(* RotateManagement after ADMIN DATA: it learns whether the card is        *)
(* protected.                                                              *)
LEMMA RotateAdminKeeps == IInv /\ RotateAdmin => IInv'
<1> SUFFICES ASSUME IInv, RotateAdmin PROVE IInv'
  OBVIOUS
<1>1. stage = "RotateAdmin"
  BY DEF RotateAdmin
<1>2. PICK x \in Answers("RotateAdmin") :
        /\ card' = x.card /\ UNCHANGED call
        /\ \/ /\ x.sw = "ok" /\ "protected" \in x.data
              /\ protected' = TRUE /\ stage' = "RotatePrinted"
              /\ UNCHANGED outcome /\ UNCHANGED <<found, block, attempts, known>>
           \/ /\ x.sw = "notFound" \/ (x.sw = "ok" /\ "protected" \notin x.data)
              /\ protected' = FALSE /\ stage' = "Replace"
              /\ UNCHANGED outcome /\ UNCHANGED <<found, block, attempts, known>>
           \/ Fail
  BY DEF RotateAdmin, Exchange, Goto
<1>3. CASE Fail
  BY <1>1, <1>2, <1>3, Failing
<1>4. CASE ~Fail
  <2>1. /\ protected' \in BOOLEAN
        /\ \/ stage' = "RotatePrinted" /\ protected' = TRUE
           \/ stage' = "Replace" /\ protected' = FALSE
        /\ UNCHANGED <<found, block, attempts, known>> /\ UNCHANGED outcome
    BY <1>2, <1>4
  <2>2. /\ Frame' /\ DoneIsTrue'
        /\ op \in Requests /\ Accepted(op) /\ outcome' = "None"
        /\ op' = op /\ genuine' = genuine /\ before' = before
        /\ card' \in CardType
        /\ genuine => RotationRecoverable' /\ PukAfterProof'
    BY <1>1, <1>2, <2>1, Continuing
  <2>3. ASSUME genuine PROVE card' = card /\ protected' = Protected(card)
    <3>1. x = CardObject(card.flags)
      BY <1>1, <2>3 DEF Answers, CardAnswers
    <3>2. /\ x.card = card /\ x.data = card.flags
          /\ x.sw = (IF card.flags = Absent THEN "notFound" ELSE "ok")
      BY <3>1 DEF CardObject, Says
    <3> QED BY <1>2, <1>4, <3>2 DEF Protected
  <2>4. TypeOK'
    BY <2>1, <2>2 DEF IInv, TypeOK, Stages
  <2>5. op.kind = "Rotate" /\ op.update
    BY <1>1 DEF IInv, Owner, RotateStages
  <2>6. Owner'
    BY <2>1, <2>2, <2>5 DEF Owner, RotateStages, PmStages, Accepted, Manages
  <2>7. Rotating'
    <3>1. genuine => protected' = Protected(card')
      BY <2>3
    <3>2. Protected(card)' = Protected(card')
      BY DEF Protected
    <3>3. CASE stage' = "RotatePrinted" /\ protected' = TRUE
      BY <2>2, <2>5, <3>1, <3>2, <3>3 DEF Rotating
    <3>4. CASE stage' = "Replace" /\ protected' = FALSE
      BY <2>2, <2>5, <3>1, <3>2, <3>4 DEF Rotating
    <3> QED BY <2>1, <3>3, <3>4
  <2>8. Session'
    BY <1>1, <2>1, <2>2, <2>3 DEF IInv, Session, Manages
  <2>9. Guarded'
    BY <2>1, <2>2, <2>5 DEF Guarded, PmStages
  <2>10. Guesses'
    BY <2>1, <2>2 DEF Guesses
  <2> QED BY <2>2, <2>4, <2>6, <2>7, <2>8, <2>9, <2>10 DEF IInv
<1> QED BY <1>3, <1>4

(* RotateManagement after reading PRINTED: it goes on only with a key in   *)
(* it.                                                                     *)
LEMMA RotatePrintedKeeps == IInv /\ RotatePrinted => IInv'
<1> SUFFICES ASSUME IInv, RotatePrinted PROVE IInv'
  OBVIOUS
<1>1. stage = "RotatePrinted"
  BY DEF RotatePrinted
<1>2. PICK x \in Answers("RotatePrinted") :
        /\ card' = x.card /\ UNCHANGED call
        /\ IF x.sw = "ok" /\ x.data # Bad
           THEN stage' = "Replace" /\ UNCHANGED outcome /\ UNCHANGED machine
           ELSE Fail
  BY DEF RotatePrinted, Exchange, Goto
<1>3. CASE x.sw = "ok" /\ x.data # Bad
  <2>1. ASSUME genuine PROVE card.printed \in Keys
    <3>1. x = CardObject(card.printed) \/ x = Refuses
      BY <1>1, <2>1 DEF Answers, CardAnswers
    <3>2. card.printed # Absent /\ card.printed # Bad
      BY <1>3, <3>1 DEF CardObject, Refuses, Says
    <3> QED BY <3>2 DEF IInv, TypeOK, CardType, Objects
  <2> QED BY <1>1, <1>2, <1>3, <2>1, Moving DEF Moves
<1>4. CASE ~(x.sw = "ok" /\ x.data # Bad)
  BY <1>1, <1>2, <1>4, Failing
<1> QED BY <1>3, <1>4

(* RotateManagement after the replacement of the key.                      *)
LEMMA RotateReplaceKeeps == IInv /\ RotateReplace => IInv'
<1> SUFFICES ASSUME IInv, RotateReplace PROVE IInv'
  OBVIOUS
<1>1. stage = "Replace"
  BY DEF RotateReplace
<1>2. PICK x \in Answers("Replace") :
        /\ card' = x.card /\ UNCHANGED call
        /\ \/ x.sw = "ok" /\ protected /\ Goto("NewChallenge") /\ UNCHANGED machine
           \/ x.sw = "ok" /\ ~protected /\ Stop("Done") /\ UNCHANGED machine
           \/ Fail
  BY DEF RotateReplace, Exchange
<1>3. ASSUME genuine, x.sw = "ok" PROVE card'.key = op.new /\ card'.flags = card.flags
  <2>0. x \in CardAnswers(stage)
    BY <1>1, <1>3 DEF Answers
  <2>1. PICK stays \in BOOLEAN : x = CardWrite([card EXCEPT !.key = op.new, !.mgmtOk = stays])
    BY <1>1, <2>0 DEF CardAnswers
  <2>2. x.card = [card EXCEPT !.key = op.new, !.mgmtOk = stays]
    BY <1>3, <2>1 DEF CardWrite, Refuses, Ok, Says
  <2> QED BY <1>2, <2>2 DEF IInv, TypeOK, CardType
<1>4. CASE x.sw = "ok" /\ protected /\ Goto("NewChallenge") /\ UNCHANGED machine
  BY <1>1, <1>2, <1>3, <1>4, Moving DEF Moves, Goto
<1>5. CASE x.sw = "ok" /\ ~protected /\ Stop("Done") /\ UNCHANGED machine
  <2>1. op.kind = "Rotate"
    BY <1>1 DEF IInv, Owner, RotateStages
  <2>2. genuine /\ op.update => ~Protected(card)
    BY <1>1, <1>5 DEF IInv, Rotating
  <2>3. /\ op' = op /\ genuine' = genuine
        /\ genuine => card'.key = op.new /\ (op.update => ~Protected(card'))
    BY <1>2, <1>3, <1>5, <2>2 DEF Protected, call
  <2>4. Protected(card)' = Protected(card')
    BY DEF Protected
  <2>5. DoneIsTrue'
    BY <2>1, <2>3, <2>4 DEF DoneIsTrue
  <2> QED BY <1>1, <1>2, <1>5, <2>5, Ending DEF Stop, machine, IInv, TypeOK
<1>6. CASE Fail
  BY <1>1, <1>2, <1>6, Failing
<1> QED BY <1>2, <1>4, <1>5, <1>6

(* RotateManagement after authenticating the new key.                      *)
LEMMA RotateResponseKeeps == IInv /\ RotateResponse => IInv'
<1> SUFFICES ASSUME IInv, RotateResponse PROVE IInv'
  OBVIOUS
<1>1. stage = "NewRespond"
  BY DEF RotateResponse, Step
<1>2. PICK x \in Answers("NewRespond") :
        /\ card' = x.card /\ UNCHANGED call
        /\ IF x.sw = "ok"
           THEN stage' = "PrintedWrite" /\ UNCHANGED outcome /\ UNCHANGED machine
           ELSE Fail
  BY DEF RotateResponse, Step, Exchange, Goto
<1>3. CASE x.sw = "ok"
  <2>1. ASSUME genuine PROVE card'.mgmtOk
    <3>1. x = CardAuthenticate(op.new)
      BY <1>1, <2>1 DEF Answers, CardAnswers
    <3>2. x.card = [card EXCEPT !.mgmtOk = TRUE]
      BY <1>3, <3>1 DEF CardAuthenticate, Says
    <3> QED BY <1>2, <3>2 DEF IInv, TypeOK, CardType
  <2> QED BY <1>1, <1>2, <1>3, <2>1, Moving DEF Moves
<1>4. CASE x.sw # "ok"
  BY <1>1, <1>2, <1>4, Failing
<1> QED BY <1>3, <1>4

(* RotateManagement after the write of PRINTED.                            *)
LEMMA RotatePrintedWriteKeeps == IInv /\ RotatePrintedWrite => IInv'
<1> SUFFICES ASSUME IInv, RotatePrintedWrite PROVE IInv'
  OBVIOUS
<1>1. stage = "PrintedWrite"
  BY DEF RotatePrintedWrite, LastStep
<1>2. PICK x \in Answers("PrintedWrite") :
        /\ card' = x.card /\ UNCHANGED call
        /\ IF x.sw = "ok" THEN Stop("Done") /\ UNCHANGED machine ELSE Fail
  BY DEF RotatePrintedWrite, LastStep, Exchange
<1>3. CASE x.sw = "ok"
  <2>1. op.kind = "Rotate"
    BY <1>1 DEF IInv, Owner, RotateStages
  <2>2. ASSUME genuine PROVE card'.printed = op.new /\ card'.key = op.new
    <3>1. x = CardWrite([card EXCEPT !.printed = op.new])
      BY <1>1, <2>2 DEF Answers, CardAnswers
    <3>2. x.card = [card EXCEPT !.printed = op.new]
      BY <1>3, <3>1 DEF CardWrite, Refuses, Ok, Says
    <3>3. card.key = op.new
      BY <1>1, <2>2 DEF IInv, Rotating
    <3> QED BY <1>2, <3>2, <3>3 DEF IInv, TypeOK, CardType
  <2>3. DoneIsTrue'
    BY <1>2, <2>1, <2>2 DEF DoneIsTrue, call
  <2> QED BY <1>1, <1>2, <1>3, <2>3, Ending DEF Stop, machine, IInv, TypeOK
<1>4. CASE x.sw # "ok"
  BY <1>1, <1>2, <1>4, Failing
<1> QED BY <1>3, <1>4

-----------------------------------------------------------------------------
(* PinManaged                                                              *)

(* PinManaged after ADMIN DATA.                                            *)
LEMMA PmAdminKeeps == IInv /\ PmAdmin => IInv'
<1> SUFFICES ASSUME IInv, PmAdmin PROVE IInv'
  OBVIOUS
<1>1. stage = "PmAdmin"
  BY DEF PmAdmin
<1>2. PICK x \in Answers("PmAdmin") :
        /\ card' = x.card /\ UNCHANGED call
        /\ \/ stage' = "PmPuk" /\ UNCHANGED outcome /\ UNCHANGED machine
           \/ Fail
  BY DEF PmAdmin, Exchange, Goto
<1>3. CASE Fail
  BY <1>1, <1>2, <1>3, Failing
<1>4. CASE stage' = "PmPuk" /\ UNCHANGED outcome /\ UNCHANGED machine
  BY <1>1, <1>2, <1>4, Moving DEF Moves
<1> QED BY <1>2, <1>3, <1>4

(* PinManaged after the metadata of the management key.                    *)
LEMMA PmMetadataKeeps == IInv /\ PmMetadata => IInv'
<1> SUFFICES ASSUME IInv, PmMetadata PROVE IInv'
  OBVIOUS
<1>1. stage = "PmMetadata"
  BY DEF PmMetadata
<1>2. PICK x \in Answers("PmMetadata") :
        /\ card' = x.card /\ UNCHANGED call
        /\ \/ stage' = "PmChallenge" /\ UNCHANGED outcome /\ UNCHANGED machine
           \/ Fail
  BY DEF PmMetadata, Exchange, Goto
<1>3. CASE Fail
  BY <1>1, <1>2, <1>3, Failing
<1>4. CASE stage' = "PmChallenge" /\ UNCHANGED outcome /\ UNCHANGED machine
  BY <1>1, <1>2, <1>4, Moving DEF Moves
<1> QED BY <1>2, <1>3, <1>4

(* From the PUK's counter to PRINTED, and from PRINTED to the metadata.    *)
LEMMA Reading ==
  ASSUME IInv, NEW x \in Answers(stage), card' = x.card, UNCHANGED call, UNCHANGED outcome,
         UNCHANGED <<protected, attempts, known>>,
         \/ stage = "PmPuk" /\ stage' = "PmPrinted" /\ found' = found
         \/ stage = "PmPrinted" /\ stage' = "PmMetadata" /\ block' = block,
         found' \in Objects, block' \in {block, Absent},
         genuine /\ block' = Absent => card'.pukRetries = 0
  PROVE  IInv'
<1>1. /\ Frame' /\ DoneIsTrue'
      /\ op \in Requests /\ Accepted(op) /\ outcome' = "None"
      /\ op' = op /\ genuine' = genuine /\ before' = before
      /\ card' \in CardType
      /\ genuine => RotationRecoverable' /\ PukAfterProof'
  BY Continuing
<1>2. TypeOK'
  BY <1>1 DEF IInv, TypeOK, Stages
<1>3. op.kind = "PinManaged"
  BY DEF IInv, Owner, PmStages
<1>4. Owner'
  BY <1>1, <1>3 DEF Owner, RotateStages, PmStages, Accepted, Manages
<1>5. Rotating'
  BY <1>1 DEF Rotating
<1>6. Session'
  BY <1>1 DEF Session
<1>7. Guarded'
  <2>1. attempts = 0 /\ known = FALSE /\ block \in {op.block, Absent}
    BY <1>3 DEF IInv, Guarded, PmStages
  <2> QED BY <1>1, <1>3, <2>1 DEF Guarded, PmStages
<1>8. Guesses'
  BY <1>1 DEF Guesses
<1> QED BY <1>1, <1>2, <1>4, <1>5, <1>6, <1>7, <1>8 DEF IInv

(* PinManaged after the PUK's counter: without a replacement the PUK is    *)
(* blocked.                                                                *)
LEMMA PmPukKeeps == IInv /\ PmPuk => IInv'
<1> SUFFICES ASSUME IInv, PmPuk PROVE IInv'
  OBVIOUS
<1>1. stage = "PmPuk"
  BY DEF PmPuk
<1>2. PICK x \in Answers("PmPuk") :
        /\ card' = x.card /\ UNCHANGED call
        /\ IF x.sw = "ok" /\ (x.data = 0 \/ block # Absent)
           THEN /\ block' = (IF x.data = 0 THEN Absent ELSE block)
                /\ stage' = "PmPrinted" /\ UNCHANGED outcome
                /\ UNCHANGED <<protected, found, attempts, known>>
           ELSE Fail
  BY DEF PmPuk, Exchange, Goto
<1>3. CASE x.sw = "ok" /\ (x.data = 0 \/ block # Absent)
  <2>1. ASSUME genuine, block' = Absent PROVE card'.pukRetries = 0
    <3>1. x = Says("ok", card.pukRetries, card)
      BY <1>1, <2>1 DEF Answers, CardAnswers
    <3> QED BY <1>2, <1>3, <2>1, <3>1 DEF Says
  <2>2. found \in Objects
    BY DEF IInv, TypeOK
  <2> QED BY <1>1, <1>2, <1>3, <2>1, <2>2, Reading
<1>4. CASE ~(x.sw = "ok" /\ (x.data = 0 \/ block # Absent))
  BY <1>1, <1>2, <1>4, Failing
<1> QED BY <1>3, <1>4

(* PinManaged after PRINTED.                                               *)
LEMMA PmPrintedKeeps == IInv /\ PmPrinted => IInv'
<1> SUFFICES ASSUME IInv, PmPrinted PROVE IInv'
  OBVIOUS
<1>1. stage = "PmPrinted"
  BY DEF PmPrinted
<1>2. PICK x \in Answers("PmPrinted") :
        /\ card' = x.card /\ UNCHANGED call
        /\ IF x.sw = "ok" /\ x.data # Bad
           THEN /\ found' = x.data
                /\ stage' = "PmMetadata" /\ UNCHANGED outcome
                /\ UNCHANGED <<protected, block, attempts, known>>
           ELSE Fail
  BY DEF PmPrinted, Exchange, Goto
<1>3. CASE x.sw = "ok" /\ x.data # Bad
  <2>1. x.data \in Objects
    <3>1. CASE genuine
      <4>1. x = CardObject(card.printed) \/ x = Refuses
        BY <1>1, <3>1 DEF Answers, CardAnswers
      <4>2. card.printed \in Objects
        BY DEF IInv, TypeOK, CardType
      <4> QED BY <4>1, <4>2 DEF CardObject, Refuses, Says, Objects
    <3>2. CASE ~genuine
      <4>1. x.data \in Forged(stage)
        BY <1>1, <3>2 DEF Answers, Says
      <4> QED BY <1>1, <4>1 DEF Forged, Objects
    <3> QED BY <3>1, <3>2
  <2>2. ASSUME genuine, block = Absent PROVE card'.pukRetries = 0
    <3>1. card'.pukRetries = card.pukRetries
      BY <1>1, <1>2, <2>2, CardNext
    <3> QED BY <1>1, <2>2, <3>1 DEF IInv, Guarded
  <2> QED BY <1>1, <1>2, <1>3, <2>1, <2>2, Reading
<1>4. CASE ~(x.sw = "ok" /\ x.data # Bad)
  BY <1>1, <1>2, <1>4, Failing
<1> QED BY <1>3, <1>4

(* The next guess: the counter leaves room for it below the limit.         *)
LEMMA Guessing ==
  ASSUME IInv, stage \in {"PmRespond", "PmChange"}, NEW x \in Answers(stage), card' = x.card,
         UNCHANGED call, Change, known' \in BOOLEAN, block # Absent,
         genuine =>
           /\ found = card.key
           /\ attempts < MaxAttempts
           /\ ~known' => attempts + card'.pukRetries <= PukLimit
           /\ known' => attempts + card'.pukRetries <= 2 * PukLimit /\ card'.puk = block
  PROVE  IInv'
<1>1. UNCHANGED <<protected, found, block>>
  BY DEF Change
<1>2. attempts \in 0 .. MaxAttempts
  BY DEF IInv, TypeOK
<1>3. CASE attempts >= MaxAttempts
  <2>1. stage' = "Idle" /\ outcome' = "Exhausted" /\ attempts' = attempts
    BY <1>3 DEF Change, Stop
  <2>2. ~genuine
    BY <1>2, <1>3 DEF MaxAttempts
  <2>3. DoneIsTrue'
    BY <2>1 DEF DoneIsTrue
  <2> QED BY <1>1, <2>1, <2>2, <2>3, Ending
<1>4. CASE ~(attempts >= MaxAttempts)
  <2>1. stage' = "PmChange" /\ attempts' = attempts + 1 /\ UNCHANGED outcome
    BY <1>4 DEF Change, Goto
  <2>2. /\ Frame' /\ DoneIsTrue'
        /\ op \in Requests /\ Accepted(op) /\ outcome' = "None"
        /\ op' = op /\ genuine' = genuine /\ before' = before
        /\ card' \in CardType
        /\ genuine => RotationRecoverable' /\ PukAfterProof'
    BY <1>1, <2>1, Continuing
  <2>3. attempts' \in 0 .. MaxAttempts
    BY <1>2, <1>4, <2>1 DEF MaxAttempts
  <2>4. TypeOK'
    BY <1>1, <2>1, <2>2, <2>3 DEF IInv, TypeOK, Stages
  <2>5. op.kind = "PinManaged" /\ block \in {op.block, Absent}
    BY DEF IInv, Owner, PmStages, Guarded
  <2>6. Owner'
    BY <2>1, <2>2, <2>5 DEF Owner, RotateStages, PmStages, Accepted, Manages
  <2>7. Rotating' /\ Session'
    BY <2>1, <2>2 DEF Rotating, Session
  <2>8. genuine => card'.key = card.key
    BY CardNext
  <2>9. Guarded'
    BY <1>1, <2>1, <2>2, <2>5, <2>8 DEF Guarded, PmStages
  <2>10. Guesses'
    <3>1. attempts' >= 1 /\ attempts' - 1 = attempts
      BY <1>2, <2>1
    <3> QED BY <1>1, <2>1, <2>2, <3>1 DEF Guesses
  <2> QED BY <2>2, <2>4, <2>6, <2>7, <2>9, <2>10 DEF IInv
<1> QED BY <1>3, <1>4

(* PinManaged after the authentication of the recovered key: the first     *)
(* guess, or the end.                                                      *)
LEMMA PmResponseKeeps == IInv /\ PmResponse => IInv'
<1> SUFFICES ASSUME IInv, PmResponse PROVE IInv'
  OBVIOUS
<1>1. stage = "PmRespond"
  BY DEF PmResponse
<1>2. PICK x \in Answers("PmRespond") :
        /\ card' = x.card /\ UNCHANGED call
        /\ \/ x.sw = "ok" /\ block # Absent /\ Change /\ UNCHANGED known
           \/ x.sw = "ok" /\ block = Absent /\ Stop("Done") /\ UNCHANGED machine
           \/ Fail
  BY DEF PmResponse, Exchange
<1>3. ASSUME genuine, x.sw = "ok"
      PROVE  found = card.key /\ card'.key = card.key /\ card'.pukRetries = card.pukRetries
  <2>1. x = CardAuthenticate(found)
    BY <1>1, <1>3 DEF Answers, CardAnswers
  <2>2. found = card.key
    BY <1>3, <2>1 DEF CardAuthenticate, Says
  <2> QED BY <1>1, <1>2, <1>3, <2>2, CardNext
<1>4. CASE x.sw = "ok" /\ block # Absent /\ Change /\ UNCHANGED known
  <2>1. attempts = 0 /\ known = FALSE
    BY <1>1 DEF IInv, Guarded, PmStages
  <2>2. card.pukRetries \in 0 .. PukLimit
    BY DEF IInv, TypeOK, CardType
  <2>3. genuine =>
          /\ found = card.key
          /\ attempts < MaxAttempts
          /\ attempts + card'.pukRetries <= PukLimit
    BY <1>3, <1>4, <2>1, <2>2, PivAssumption DEF MaxAttempts
  <2> QED BY <1>1, <1>2, <1>4, <2>1, <2>3, Guessing
<1>5. CASE x.sw = "ok" /\ block = Absent /\ Stop("Done") /\ UNCHANGED machine
  <2>1. op.kind = "PinManaged"
    BY <1>1 DEF IInv, Owner, PmStages
  <2>2. genuine => card.pukRetries = 0
    BY <1>1, <1>5 DEF IInv, Guarded
  <2>3. DoneIsTrue'
    BY <1>2, <1>3, <1>5, <2>1, <2>2 DEF DoneIsTrue, call, machine
  <2> QED BY <1>1, <1>2, <1>5, <2>3, Ending DEF Stop, machine, IInv, TypeOK
<1>6. CASE Fail
  BY <1>1, <1>2, <1>6, Failing
<1> QED BY <1>2, <1>4, <1>5, <1>6

(* Raising the first digit of a PUK gives another PUK.                     *)
LEMMA WrongPukIsWrong ==
  ASSUME block \in Puks
  PROVE  WrongPuk # block
<1>1. ASSUME NEW b \in Int, NEW k \in Int, k > 0, 0 <= b, b < 10 * k
      PROVE  (b + k) % (10 * k) # b
  BY <1>1, Z3
<1>2. FirstDigit \in Int /\ FirstDigit > 0
  BY Z3 DEF FirstDigit
<1>3. block \in Int /\ 0 <= block /\ block < 10 * FirstDigit
  BY <1>2 DEF Puks
<1> QED BY <1>1, <1>2, <1>3, Z3 DEF WrongPuk

(* PinManaged after a guess: a hit refills the counter, and only once.     *)
LEMMA PmChangeKeeps == IInv /\ PmChange => IInv'
<1> SUFFICES ASSUME IInv, PmChange PROVE IInv'
  OBVIOUS
<1>1. stage = "PmChange"
  BY DEF PmChange
<1>2. PICK x \in Answers("PmChange") :
        /\ card' = x.card /\ UNCHANGED call
        /\ \/ x.sw = "ok" /\ Change /\ known' = TRUE
           \/ x.sw = "retries" /\ Change /\ UNCHANGED known
           \/ x.sw = "blocked" /\ Goto("PmConfirm") /\ UNCHANGED machine
           \/ Fail
  BY DEF PmChange, Exchange
<1>3. block \in Puks /\ block # Absent /\ known \in BOOLEAN /\ attempts \in 0 .. MaxAttempts
      /\ card.pukRetries \in 0 .. PukLimit
  BY <1>1 DEF IInv, TypeOK, Guarded, CardType
<1>4. ASSUME genuine
      PROVE  /\ found = card.key /\ attempts >= 1
             /\ ~known => attempts - 1 + card.pukRetries <= PukLimit
             /\ known => attempts - 1 + card.pukRetries <= 2 * PukLimit /\ card.puk = block
  BY <1>1, <1>4 DEF IInv, Guarded, Guesses
<1>5. ASSUME genuine PROVE x = CardPuk(GuessedPuk, ChangedPuk(block))
  BY <1>1, <1>5 DEF Answers, CardAnswers
<1>6. CASE x.sw = "ok" /\ Change /\ known' = TRUE
  <2>1. ASSUME genuine
        PROVE  /\ card.pukRetries > 0 /\ ~known
               /\ card'.puk = block /\ card'.pukRetries = PukLimit
    <3>1. card.pukRetries > 0 /\ GuessedPuk = card.puk /\ x.card = ChangedPuk(block)
      BY <1>3, <1>5, <1>6, <2>1 DEF CardPuk, Ok, Says
    <3>2. ~known
      BY <1>3, <1>4, <2>1, <3>1, WrongPukIsWrong DEF GuessedPuk
    <3>3. card'.puk = block /\ card'.pukRetries = PukLimit
      BY <1>2, <3>1 DEF ChangedPuk, IInv, TypeOK, CardType
    <3> QED BY <3>1, <3>2, <3>3
  <2>2. genuine =>
          /\ found = card.key /\ attempts < MaxAttempts
          /\ attempts + card'.pukRetries <= 2 * PukLimit /\ card'.puk = block
    BY <1>3, <1>4, <2>1, PivAssumption DEF MaxAttempts
  <2> QED BY <1>1, <1>2, <1>3, <1>6, <2>2, Guessing
<1>7. CASE x.sw = "retries" /\ Change /\ UNCHANGED known
  <2>1. ASSUME genuine
        PROVE  /\ card.pukRetries > 1
               /\ card'.pukRetries = card.pukRetries - 1 /\ card'.puk = card.puk
    <3>1. card.pukRetries > 1 /\ x.card = [card EXCEPT !.pukRetries = @ - 1]
      BY <1>3, <1>5, <1>7, <2>1 DEF CardPuk, Ok, Says
    <3> QED BY <1>2, <3>1 DEF IInv, TypeOK, CardType
  <2>2. genuine =>
          /\ found = card.key /\ attempts < MaxAttempts
          /\ ~known => attempts + card'.pukRetries <= PukLimit
          /\ known => attempts + card'.pukRetries <= 2 * PukLimit /\ card'.puk = block
    BY <1>3, <1>4, <2>1, PivAssumption DEF MaxAttempts
  <2> QED BY <1>1, <1>2, <1>3, <1>7, <2>2, Guessing
<1>8. CASE x.sw = "blocked" /\ Goto("PmConfirm") /\ UNCHANGED machine
  BY <1>1, <1>2, <1>8, Moving DEF Moves, Goto
<1>9. CASE Fail
  BY <1>1, <1>2, <1>9, Failing
<1> QED BY <1>2, <1>6, <1>7, <1>8, <1>9

(* PinManaged after the confirmation that the PUK is blocked.              *)
LEMMA PmConfirmKeeps == IInv /\ PmConfirm => IInv'
<1> SUFFICES ASSUME IInv, PmConfirm PROVE IInv'
  OBVIOUS
<1>1. stage = "PmConfirm"
  BY DEF PmConfirm
<1>2. PICK x \in Answers("PmConfirm") :
        /\ card' = x.card /\ UNCHANGED call
        /\ \/ x.sw = "ok" /\ x.data = 0 /\ Stop("Done") /\ UNCHANGED machine
           \/ Fail
  BY DEF PmConfirm, Exchange
<1>3. CASE x.data = 0 /\ Stop("Done") /\ UNCHANGED machine
  <2>1. op.kind = "PinManaged"
    BY <1>1 DEF IInv, Owner, PmStages
  <2>2. ASSUME genuine PROVE found = card'.key /\ card'.pukRetries = 0
    <3>1. x = Says("ok", card.pukRetries, card)
      BY <1>1, <2>2 DEF Answers, CardAnswers
    <3>2. card' = card /\ card.pukRetries = 0
      BY <1>2, <1>3, <3>1 DEF Says
    <3>3. found = card.key
      BY <1>1, <2>2 DEF IInv, Guarded
    <3> QED BY <3>2, <3>3
  <2>3. DoneIsTrue'
    BY <1>2, <1>3, <2>1, <2>2 DEF DoneIsTrue, call, machine
  <2> QED BY <1>1, <1>2, <1>3, <2>3, Ending DEF Stop, machine, IInv, TypeOK
<1>4. CASE Fail
  BY <1>1, <1>2, <1>4, Failing
<1> QED BY <1>2, <1>3, <1>4

-----------------------------------------------------------------------------
(* The whole specification                                                 *)

(* The invariant holds initially.                                          *)
LEMMA InitHolds == Init => IInv
<1> SUFFICES ASSUME Init PROVE IInv
  OBVIOUS
<1> USE DEF Init
<1>1. card \in CardType /\ before = card /\ genuine \in BOOLEAN
  BY RequestAssumption
<1>2. op.kind = "None" /\ op.block = Absent
  BY DEF NoRequest
<1>3. TypeOK
  <2>1. found \in Objects /\ attempts \in 0 .. MaxAttempts
    BY DEF Objects, MaxAttempts
  <2>2. op \in Requests \cup {NoRequest} /\ stage \in Stages
    BY DEF Stages
  <2>3. protected \in BOOLEAN /\ known \in BOOLEAN
        /\ outcome \in {"None", "Done", "Failed", "Exhausted"}
    OBVIOUS
  <2>4. block = Absent \/ block \in Puks
    OBVIOUS
  <2> QED BY <1>1, <2>1, <2>2, <2>3, <2>4 DEF TypeOK
<1>4. Owner /\ Frame
  BY <1>1 DEF Owner, Frame, RotateStages, PmStages
<1>5. Rotating /\ Session
  BY <1>1, <1>2 DEF Rotating, Session, RotationRecoverable
<1>6. Guarded /\ Guesses /\ DoneIsTrue
  BY <1>1, <1>2 DEF Guarded, Guesses, DoneIsTrue, PmStages, PukAfterProof
<1> QED BY <1>3, <1>4, <1>5, <1>6 DEF IInv

(* A new operation starts from the card as it is.                          *)
LEMMA BeginKeeps ==
  ASSUME IInv, NEW r \in Requests, Begin(r)
  PROVE  IInv'
<1>1. /\ stage = "Idle" /\ Accepted(r) /\ op' = r
      /\ stage' = (IF r.policy = "Existing" THEN Target(r) ELSE "Select")
      /\ block' = r.block /\ protected' = FALSE /\ found' = Absent /\ attempts' = 0
      /\ known' = FALSE /\ outcome' = "None" /\ before' = card /\ card' = card
      /\ genuine' = genuine
  BY DEF Begin
<1>2. /\ r.block = Absent \/ r.block \in Puks
      /\ r.kind \in {"Write", "Rotate", "PinManaged", "Authenticate",
                     "VerifyPin", "Logout", "ChangePin", "ChangePuk", "UnblockPin"}
      /\ r.kind = "Rotate" => r.update \in BOOLEAN
  BY RequestAssumption
<1>3. /\ stage' \in {"Select", "Write", "RotateAdmin", "Replace", "PmAdmin", "Challenge",
                     "Credential"}
      /\ stage' # "Select" => r.policy = "Existing"
      /\ stage' = "Write" => r.kind = "Write"
      /\ stage' \in {"RotateAdmin", "Replace"} => r.kind = "Rotate"
      /\ stage' = "RotateAdmin" => r.update
      /\ stage' = "Replace" => ~r.update
      /\ stage' = "PmAdmin" => r.kind = "PinManaged"
      /\ stage' = "Credential" =>
           r.kind \in {"VerifyPin", "Logout", "ChangePin", "ChangePuk", "UnblockPin"}
  BY <1>1, <1>2 DEF Target
<1>4. TypeOK'
  <2>1. found' \in Objects /\ attempts' \in 0 .. MaxAttempts
    BY <1>1 DEF Objects, MaxAttempts
  <2>2. op' \in Requests \cup {NoRequest} /\ stage' \in Stages
    BY <1>1, <1>3 DEF Stages
  <2>3. protected' \in BOOLEAN /\ known' \in BOOLEAN
        /\ outcome' \in {"None", "Done", "Failed", "Exhausted"}
    BY <1>1
  <2>4. block' = Absent \/ block' \in Puks
    BY <1>1, <1>2
  <2>5. genuine' \in BOOLEAN /\ card' \in CardType /\ before' \in CardType
    BY <1>1 DEF IInv, TypeOK
  <2> QED BY <2>1, <2>2, <2>3, <2>4, <2>5 DEF TypeOK
<1>5. Owner'
  BY <1>1, <1>3 DEF Owner, RotateStages, PmStages, Accepted, Manages
<1>6. Frame'
  BY <1>1 DEF Frame
<1>7. RotationRecoverable' /\ PukAfterProof' /\ DoneIsTrue'
  BY <1>1 DEF RotationRecoverable, PukAfterProof, DoneIsTrue
<1>8. Rotating'
  BY <1>1, <1>3, <1>7 DEF Rotating
<1>9. Session'
  BY <1>1, <1>3 DEF Session, Manages
<1>10. Guarded'
  BY <1>1, <1>3, <1>7 DEF Guarded, PmStages
<1>11. Guesses'
  BY <1>1, <1>3 DEF Guesses
<1> QED BY <1>4, <1>5, <1>6, <1>7, <1>8, <1>9, <1>10, <1>11 DEF IInv

(* A power cycle only ends the card's sessions.                            *)
LEMMA PowerKeeps ==
  ASSUME IInv, PowerCycle
  PROVE  IInv'
<1> USE DEF call, machine
<1>1. /\ stage = "Idle" /\ stage' = "Idle" /\ UNCHANGED <<call, machine, outcome>>
      /\ card' = [card EXCEPT !.pinOk = FALSE, !.mgmtOk = FALSE]
  BY DEF PowerCycle
<1>2. card \in CardType
  BY DEF IInv, TypeOK
<1>3. /\ card' \in CardType
      /\ card'.flags = card.flags /\ card'.printed = card.printed /\ card'.key = card.key
      /\ card'.puk = card.puk /\ card'.pukRetries = card.pukRetries
  BY <1>1, <1>2 DEF CardType
<1>4. TypeOK'
  BY <1>1, <1>3 DEF IInv, TypeOK
<1>5. Owner' /\ Frame' /\ Session' /\ Guesses'
  BY <1>1, <1>3 DEF IInv, Owner, Frame, Session, Guesses, RotateStages, PmStages
<1>6. genuine => RotationRecoverable'
  BY <1>1, <1>3 DEF IInv, Rotating, RotationRecoverable, Protected
<1>7. genuine => PukAfterProof'
  BY <1>1, <1>3 DEF IInv, Guarded, PukAfterProof
<1>8. DoneIsTrue'
  BY <1>1, <1>3 DEF IInv, DoneIsTrue, Protected
<1>9. Rotating' /\ Guarded'
  BY <1>1, <1>6, <1>7 DEF Rotating, Guarded, PmStages
<1> QED BY <1>4, <1>5, <1>8, <1>9 DEF IInv

(* Every answer to a pending command keeps the invariant.                  *)
LEMMA ReplyKeeps == IInv /\ Reply => IInv'
<1> SUFFICES ASSUME IInv, Reply PROVE IInv'
  OBVIOUS
<1>1. CASE SelectReply
  BY <1>1, SelectKeeps
<1>2. CASE ManagementChallenge
  BY <1>2, StepKeeps DEF ManagementChallenge, Moves
<1>3. CASE ManagementResponse
  BY <1>3, ResponseKeeps
<1>4. CASE PinReply
  BY <1>4, PinKeeps
<1>5. CASE CredentialReply
  BY <1>5, LastStepKeeps DEF CredentialReply
<1>6. CASE WriteReply
  BY <1>6, LastStepKeeps DEF WriteReply
<1>7. CASE RotateAdmin
  BY <1>7, RotateAdminKeeps
<1>8. CASE RotatePrinted
  BY <1>8, RotatePrintedKeeps
<1>9. CASE RotateReplace
  BY <1>9, RotateReplaceKeeps
<1>10. CASE RotateChallenge
  BY <1>10, StepKeeps DEF RotateChallenge, Moves
<1>11. CASE RotateResponse
  BY <1>11, RotateResponseKeeps
<1>12. CASE RotatePrintedWrite
  BY <1>12, RotatePrintedWriteKeeps
<1>13. CASE PmAdmin
  BY <1>13, PmAdminKeeps
<1>14. CASE PmPuk
  BY <1>14, PmPukKeeps
<1>15. CASE PmPrinted
  BY <1>15, PmPrintedKeeps
<1>16. CASE PmMetadata
  BY <1>16, PmMetadataKeeps
<1>17. CASE PmChallenge
  BY <1>17, StepKeeps DEF PmChallenge, Moves
<1>18. CASE PmResponse
  BY <1>18, PmResponseKeeps
<1>19. CASE PmChange
  BY <1>19, PmChangeKeeps
<1>20. CASE PmConfirm
  BY <1>20, PmConfirmKeeps
<1> QED
  BY <1>1, <1>2, <1>3, <1>4, <1>5, <1>6, <1>7, <1>8, <1>9, <1>10, <1>11, <1>12, <1>13,
     <1>14, <1>15, <1>16, <1>17, <1>18, <1>19, <1>20 DEF Reply

(* The invariant is inductive.                                             *)
LEMMA NextKeeps == IInv /\ [Next]_vars => IInv'
<1> SUFFICES ASSUME IInv, [Next]_vars PROVE IInv'
  OBVIOUS
<1>1. CASE \E r \in Requests : Begin(r)
  BY <1>1, BeginKeeps
<1>2. CASE Reply
  BY <1>2, ReplyKeeps
<1>3. CASE Break
  <2>1. PICK x \in Answers(stage) : card' \in {card, x.card}
    BY <1>3 DEF Break
  <2> QED BY <1>3, <2>1, Failing DEF Break
<1>4. CASE PowerCycle
  BY <1>4, PowerKeeps
<1>5. CASE UNCHANGED vars
  BY <1>5 DEF vars, call, machine, IInv, TypeOK, Owner, Frame, Rotating, Session, Guarded,
              Guesses, DoneIsTrue, RotationRecoverable, PukAfterProof, Protected, Manages,
              Accepted, CardType
<1> QED BY <1>1, <1>2, <1>3, <1>4, <1>5 DEF Next

(* The inductive invariant holds of every PIV conversation.                *)
THEOREM InvariantHolds == Spec => []IInv
<1> QED BY InitHolds, NextKeeps, PTL DEF Spec

(* Every variable of the PIV machines and of the card keeps its type, the  *)
(* counters of PinManaged and of the card their ranges.                    *)
THEOREM PivTypeCorrect == Spec => []TypeOK
<1>1. IInv => TypeOK
  BY DEF IInv
<1> QED BY <1>1, InvariantHolds, PTL

(* RotateManagement never leaves a key in PRINTED that the card does not   *)
(* have, nor replaces the key of a protected card before it has found a    *)
(* key in PRINTED.                                                         *)
THEOREM RotationHolds == Spec => []RotationRecoverable
<1>1. IInv => RotationRecoverable
  BY DEF IInv, Rotating, RotationRecoverable
<1> QED BY <1>1, InvariantHolds, PTL

(* A rotation and pin_managed succeed only when they did what they say.    *)
THEOREM DoneHolds == Spec => []DoneIsTrue
<1>1. IInv => DoneIsTrue
  BY DEF IInv
<1> QED BY <1>1, InvariantHolds, PTL

(* PinManaged touches the PUK only when authorised and after the proof of  *)
(* the recovered key.                                                      *)
THEOREM PukHolds == Spec => []PukAfterProof
<1>1. IInv => PukAfterProof
  BY DEF IInv, Guarded, PukAfterProof
<1> QED BY <1>1, InvariantHolds, PTL

(* PinManaged::change never runs out of its 32 attempts, whatever the PUK  *)
(* and its limit of at most 15 tries.                                      *)
THEOREM AttemptsHold == Spec => []AttemptsSuffice
<1>1. IInv => AttemptsSuffice
  BY DEF IInv, Guesses, AttemptsSuffice
<1> QED BY <1>1, InvariantHolds, PTL

(* Every write of an operation finds the card authenticated.               *)
THEOREM WritesHold == Spec => []WritesAuthorized
<1>1. IInv => WritesAuthorized
  BY DEF IInv, Session, Owner, RotateStages, Accepted, WritesAuthorized
<1> QED BY <1>1, InvariantHolds, PTL

-----------------------------------------------------------------------------
(* The credentials                                                         *)

Entrance == {"Idle", "Select", "Challenge", "Respond"}

(* Only a proved key leads past the authentication, and until the PIN or   *)
(* the credential is presented the counters are as the operation found     *)
(* them.                                                                   *)
Spared ==
  /\ stage = "Pin" => Verifies(op)
  /\ Manages(op) /\ ~genuine /\ op.mutual => stage \in Entrance
  /\ Manages(op) /\ genuine /\ op.key # before.key =>
       stage \in Entrance /\ card.key = before.key /\ card.pinRetries = before.pinRetries
  /\ stage \in {"Select", "Challenge", "Respond", "Pin", "Credential"} =>
       card.pinRetries = before.pinRetries /\ card.pukRetries = before.pukRetries
  /\ card.pinRetries >= before.pinRetries - 1
  /\ ~(op.kind = "PinManaged" /\ op.block # Absent) =>
       card.pukRetries >= before.pukRetries - 1

(* What a command may do to the counters of card c.                        *)
Counted(c) ==
  /\ stage \notin {"Pin", "Credential"} => c.pinRetries = card.pinRetries
  /\ c.pinRetries >= card.pinRetries - 1
  /\ stage # "PmChange" => c.pukRetries >= card.pukRetries - 1
  /\ stage \notin {"Credential", "PmChange"} => c.pukRetries = card.pukRetries

LEMMA CardTypes ==
  ASSUME card \in CardType
  PROVE  /\ card.pinRetries \in 0 .. MaxPin /\ card.pukRetries \in 0 .. PukLimit
         /\ MaxPin \in Nat /\ PukLimit \in Nat
         /\ MaxPin >= card.pinRetries - 1 /\ PukLimit >= card.pukRetries - 1
         /\ card.pinRetries >= card.pinRetries - 1 /\ card.pukRetries >= card.pukRetries - 1
<1>1. card.pinRetries \in 0 .. MaxPin /\ card.pukRetries \in 0 .. PukLimit
  BY DEF CardType
<1> QED
  BY <1>1, PivAssumption

(* The same two counters.                                                  *)
LEMMA SameCounts ==
  ASSUME card \in CardType, NEW c, c.pinRetries = card.pinRetries, c.pukRetries = card.pukRetries
  PROVE  Counted(c)
BY CardTypes DEF Counted

(* VERIFY counts one failure, or refills the counter.                      *)
LEMMA VerifyCounts ==
  ASSUME card \in CardType, NEW p, stage \in {"Pin", "Credential"}
  PROVE  Counted(CardVerify(p).card)
<1>1. PICK x : x = CardVerify(p)
  OBVIOUS
<1>2. \/ x.card = card
      \/ x.card = [card EXCEPT !.pinOk = TRUE, !.pinRetries = MaxPin]
      \/ x.card = [card EXCEPT !.pinOk = FALSE, !.pinRetries = card.pinRetries - 1]
  BY <1>1, CardTypes DEF CardVerify, Ok, Says
<1>3. x.card.pukRetries = card.pukRetries
  BY <1>2 DEF CardType
<1>4. x.card.pinRetries \in {card.pinRetries, MaxPin, card.pinRetries - 1}
  BY <1>2 DEF CardType
<1>5. x.card.pinRetries >= card.pinRetries - 1
  BY <1>4, CardTypes
<1> QED
  BY <1>1, <1>3, <1>5, CardTypes DEF Counted

(* A command that presents the PUK counts one failure, or does its work.   *)
LEMMA PukCounts ==
  ASSUME card \in CardType, NEW old, NEW after, stage = "Credential",
         after.pinRetries >= card.pinRetries - 1, after.pukRetries >= card.pukRetries - 1
  PROVE  Counted(CardPuk(old, after).card)
<1>1. PICK x : x = CardPuk(old, after)
  OBVIOUS
<1>2. \/ x.card = card
      \/ x.card = after
      \/ x.card = [card EXCEPT !.pukRetries = card.pukRetries - 1]
  BY <1>1, CardTypes DEF CardPuk, Ok, Says
<1>3. x.card.pinRetries >= card.pinRetries - 1 /\ x.card.pukRetries >= card.pukRetries - 1
  BY <1>2, CardTypes DEF CardType
<1> QED
  BY <1>1, <1>3 DEF Counted

LEMMA CredentialCounts ==
  ASSUME card \in CardType, stage = "Credential", NEW x \in CardCredential,
         op.kind \in {"VerifyPin", "Logout", "ChangePin", "ChangePuk", "UnblockPin"}
  PROVE  Counted(x.card)
<1>1. CASE op.kind = "VerifyPin"
  BY <1>1, VerifyCounts DEF CardCredential
<1>2. CASE op.kind = "Logout"
  <2>1. x.card = [card EXCEPT !.pinOk = FALSE]
    BY <1>2 DEF CardCredential, Ok, Says
  <2>2. x.card.pinRetries = card.pinRetries /\ x.card.pukRetries = card.pukRetries
    BY <2>1 DEF CardType
  <2> QED  BY <2>2, SameCounts
<1>3. CASE op.kind = "ChangePin"
  <2>1. \/ x = CardVerify(op.pin)
        \/ \E v \in BOOLEAN :
             x = Ok([card EXCEPT !.pin = op.new, !.pinRetries = MaxPin, !.pinOk = v])
    BY <1>3 DEF CardCredential, CardChangePin
  <2>2. CASE x = CardVerify(op.pin)
    BY <2>2, VerifyCounts
  <2>3. ASSUME NEW v \in BOOLEAN,
               x = Ok([card EXCEPT !.pin = op.new, !.pinRetries = MaxPin, !.pinOk = v])
        PROVE  Counted(x.card)
    <3>1. x.card = [card EXCEPT !.pin = op.new, !.pinRetries = MaxPin, !.pinOk = v]
      BY <2>3 DEF Ok, Says
    <3>2. x.card.pinRetries = MaxPin /\ x.card.pukRetries = card.pukRetries
      BY <3>1 DEF CardType
    <3> QED  BY <3>2, CardTypes DEF Counted
  <2> QED  BY <2>1, <2>2, <2>3
<1>4. CASE op.kind = "ChangePuk"
  <2>1. x = CardPuk(op.puk, ChangedPuk(op.block))
    BY <1>4 DEF CardCredential
  <2>2. PICK after : after = ChangedPuk(op.block)
    OBVIOUS
  <2>3. after.pinRetries = card.pinRetries /\ after.pukRetries = PukLimit
    BY <2>2 DEF ChangedPuk, CardType
  <2>4. after.pinRetries >= card.pinRetries - 1 /\ after.pukRetries >= card.pukRetries - 1
    BY <2>3, CardTypes
  <2> QED  BY <2>1, <2>2, <2>4, PukCounts
<1>5. CASE op.kind = "UnblockPin"
  <2>1. PICK after : after = [card EXCEPT !.pin = op.pin, !.pinRetries = MaxPin,
                                          !.pukRetries = PukLimit]
    OBVIOUS
  <2>2. x = CardPuk(op.puk, after)
    BY <1>5, <2>1 DEF CardCredential
  <2>3. after.pinRetries = MaxPin /\ after.pukRetries = PukLimit
    BY <2>1 DEF CardType
  <2>4. after.pinRetries >= card.pinRetries - 1 /\ after.pukRetries >= card.pukRetries - 1
    BY <2>3, CardTypes
  <2> QED  BY <2>2, <2>4, PukCounts
<1> QED
  BY <1>1, <1>2, <1>3, <1>4, <1>5

(* The counters after any command of any card.                             *)
LEMMA CountsNext ==
  ASSUME IInv, stage # "Idle", NEW x \in Answers(stage), card' \in {card, x.card}
  PROVE  Counted(card')
<1>0. card \in CardType
  BY DEF IInv, TypeOK
<1>1. CASE card' = card
  BY <1>0, <1>1, SameCounts
<1>2. CASE ~genuine
  <2>1. x.card = card
    BY <1>2 DEF Answers, Says
  <2> QED  BY <1>1, <2>1
<1>3. CASE genuine /\ card' = x.card
  <2>0. x \in CardAnswers(stage)
    BY <1>3 DEF Answers
  <2>1. CASE stage = "Pin"
    <3>1. x = CardVerify(op.pin)
      BY <2>0, <2>1 DEF CardAnswers
    <3> QED  BY <1>0, <1>3, <2>1, <3>1, VerifyCounts
  <2>2. CASE stage = "Credential"
    <3>1. x \in CardCredential
      BY <2>0, <2>2 DEF CardAnswers
    <3> QED  BY <1>0, <1>3, <2>2, <3>1, CredentialCounts DEF IInv, Owner
  <2>3. CASE stage = "PmChange"
    <3>1. x = CardPuk(GuessedPuk, ChangedPuk(block))
      BY <2>0, <2>3 DEF CardAnswers
    <3>2. \/ x.card = card
          \/ x.card = ChangedPuk(block)
          \/ x.card = [card EXCEPT !.pukRetries = @ - 1]
      BY <3>1 DEF CardPuk, Ok, Says
    <3>3. x.card.pinRetries = card.pinRetries
      BY <1>0, <3>2 DEF ChangedPuk, CardType
    <3> QED  BY <1>0, <1>3, <2>3, <3>3, CardTypes DEF Counted
  <2>4. CASE stage \notin {"Pin", "Credential", "PmChange"}
    <3>1. card'.pukRetries = card.pukRetries
      BY <1>3, <2>4, CardNext
    <3>2. card'.pinRetries = card.pinRetries
      <4>1. CASE stage = "Select"
        <5>1. x.card = [card EXCEPT !.pinOk = FALSE, !.mgmtOk = FALSE]
          BY <2>0, <4>1 DEF CardAnswers, Ok, Says
        <5> QED  BY <1>0, <1>3, <5>1 DEF CardType
      <4>2. ASSUME NEW k, x = CardAuthenticate(k) PROVE card'.pinRetries = card.pinRetries
        BY <1>0, <1>3, <4>2 DEF CardAuthenticate, Says, CardType
      <4>3. CASE stage = "Respond"
        BY <2>0, <4>2, <4>3 DEF CardAnswers
      <4>4. CASE stage = "NewRespond"
        BY <2>0, <4>2, <4>4 DEF CardAnswers
      <4>5. CASE stage = "PmRespond"
        BY <2>0, <4>2, <4>5 DEF CardAnswers
      <4>6. ASSUME NEW after, x = CardWrite(after), after.pinRetries = card.pinRetries
            PROVE  card'.pinRetries = card.pinRetries
        BY <1>3, <4>6 DEF CardWrite, Refuses, Ok, Says
      <4>7. CASE stage = "Write"
        <5>1. x = CardWrite([card EXCEPT !.data = op.new])
          BY <2>0, <4>7 DEF CardAnswers
        <5> QED  BY <1>0, <4>6, <5>1 DEF CardType
      <4>8. CASE stage = "PrintedWrite"
        <5>1. x = CardWrite([card EXCEPT !.printed = op.new])
          BY <2>0, <4>8 DEF CardAnswers
        <5> QED  BY <1>0, <4>6, <5>1 DEF CardType
      <4>9. CASE stage = "Replace"
        <5>1. PICK stays \in BOOLEAN : x = CardWrite([card EXCEPT !.key = op.new, !.mgmtOk = stays])
          BY <2>0, <4>9 DEF CardAnswers
        <5> QED  BY <1>0, <4>6, <5>1 DEF CardType
      <4>10. CASE stage \in {"Challenge", "NewChallenge", "PmChallenge"}
        <5>1. x = Ok(card)
          BY <2>0, <4>10 DEF CardAnswers
        <5> QED  BY <1>3, <5>1 DEF Ok, Says
      <4>11. CASE stage \in {"PmPuk", "PmConfirm"}
        <5>1. x = Says("ok", card.pukRetries, card)
          BY <2>0, <4>11 DEF CardAnswers
        <5> QED  BY <1>3, <5>1 DEF Says
      <4>12. CASE stage \in {"RotateAdmin", "PmAdmin"}
        <5>1. x = CardObject(card.flags)
          BY <2>0, <4>12 DEF CardAnswers
        <5> QED  BY <1>3, <5>1 DEF CardObject, Says
      <4>13. CASE stage \in {"RotatePrinted", "PmPrinted"}
        <5>1. x = CardObject(card.printed) \/ x = Refuses
          BY <2>0, <4>13 DEF CardAnswers
        <5> QED  BY <1>3, <5>1 DEF CardObject, Refuses, Says
      <4>14. CASE stage = "PmMetadata"
        <5>1. x = Ok(card) \/ x = Says("notFound", Absent, card)
          BY <2>0, <4>14 DEF CardAnswers
        <5> QED  BY <1>3, <5>1 DEF Ok, Says
      <4> QED
        BY <2>4, <4>1, <4>3, <4>4, <4>5, <4>7, <4>8, <4>9, <4>10, <4>11, <4>12, <4>13,
           <4>14            DEF IInv, TypeOK, Stages
    <3> QED  BY <1>0, <3>1, <3>2, SameCounts
  <2> QED  BY <2>1, <2>2, <2>3, <2>4
<1> QED
  BY <1>1, <1>2, <1>3

(* A step that ends the operation or stays within its target.              *)
LEMMA StepSpares ==
  ASSUME IInv, Spared, stage # "Idle", NEW x \in Answers(stage), card' \in {card, x.card},
         UNCHANGED call,
         \/ stage' = "Idle"
         \/ /\ stage \notin {"Select", "Challenge", "Respond", "Pin", "Credential"}
            /\ stage' \notin {"Select", "Challenge", "Respond", "Pin", "Credential"}
  PROVE  Spared'
<1>1. op' = op /\ genuine' = genuine /\ before' = before
  BY DEF call
<1>2. PICK p, u, p1, u1, p0, u0 :
        /\ p = card.pinRetries /\ u = card.pukRetries /\ p0 = before.pinRetries
        /\ u0 = before.pukRetries /\ p1 = card'.pinRetries /\ u1 = card'.pukRetries
  OBVIOUS
<1>3. p \in Int /\ u \in Int /\ p0 \in Int /\ u0 \in Int /\ p1 \in Int /\ u1 \in Int
  <2>1. card \in CardType /\ before \in CardType /\ card' \in CardType
    BY CardNext DEF IInv, TypeOK
  <2>2. p \in 0 .. MaxPin /\ p0 \in 0 .. MaxPin /\ p1 \in 0 .. MaxPin
    BY <1>2, <2>1 DEF CardType
  <2>3. u \in 0 .. PukLimit /\ u0 \in 0 .. PukLimit /\ u1 \in 0 .. PukLimit
    BY <1>2, <2>1 DEF CardType
  <2> QED  BY <2>2, <2>3
<1>4. /\ stage \notin {"Pin", "Credential"} => p1 = p
      /\ p1 >= p - 1
      /\ stage # "PmChange" => u1 >= u - 1
      /\ stage \notin {"Credential", "PmChange"} => u1 = u
  BY <1>2, CountsNext DEF Counted
<1>5. /\ stage \in {"Pin", "Credential"} => p = p0 /\ u = u0
      /\ p >= p0 - 1
      /\ ~(op.kind = "PinManaged" /\ op.block # Absent) => u >= u0 - 1
  BY <1>2 DEF Spared
<1>6. p1 >= p0 - 1
  BY <1>3, <1>4, <1>5
<1>7. ~(op.kind = "PinManaged" /\ op.block # Absent) => u1 >= u0 - 1
  <2>1. CASE stage = "PmChange"
    <3>1. op.kind = "PinManaged" /\ block # Absent /\ block \in {op.block, Absent}
      BY <2>1 DEF IInv, Owner, Guarded, PmStages
    <3> QED  BY <3>1
  <2>2. CASE stage # "PmChange"
    BY <1>3, <1>4, <1>5, <2>2
  <2> QED  BY <2>1, <2>2
<1>8. Manages(op) /\ ~genuine /\ op.mutual => stage' \in Entrance
  BY DEF Spared, Entrance
<1>9. ASSUME Manages(op), genuine, op.key # before.key
      PROVE  stage' \in Entrance /\ card'.key = before.key /\ p1 = p0
  <2>1. stage \in Entrance /\ card.key = before.key /\ p = p0
    BY <1>2, <1>9 DEF Spared
  <2>2. stage \notin {"Pin", "Credential", "Replace"}
    BY <2>1 DEF Entrance
  <2>3. card'.key = card.key
    BY <1>9, <2>2, CardNext
  <2> QED  BY <1>4, <2>1, <2>2, <2>3 DEF Entrance
<1> QED
  BY <1>1, <1>2, <1>6, <1>7, <1>8, <1>9 DEF Spared, Manages, Verifies

(* A step towards the target: no counter has moved, unless the PIN was     *)
(* right.                                                                  *)
LEMMA EntrySpares ==
  ASSUME IInv, Spared, stage \in {"Select", "Challenge", "Respond", "Pin"},
         NEW x \in Answers(stage), card' = x.card, UNCHANGED call,
         stage = "Pin" => stage' \notin {"Select", "Challenge", "Respond", "Pin", "Credential"},
         stage' = "Pin" => Verifies(op),
         Manages(op) /\ ~genuine /\ op.mutual => stage' \in Entrance,
         Manages(op) /\ genuine /\ op.key # before.key => stage' \in Entrance
  PROVE  Spared'
<1>1. op' = op /\ genuine' = genuine /\ before' = before
  BY DEF call
<1>2. PICK p, u, p1, u1, p0, u0 :
        /\ p = card.pinRetries /\ u = card.pukRetries /\ p0 = before.pinRetries
        /\ u0 = before.pukRetries /\ p1 = card'.pinRetries /\ u1 = card'.pukRetries
  OBVIOUS
<1>3. p \in Int /\ u \in Int /\ p = p0 /\ u = u0
  <2>1. card \in CardType
    BY DEF IInv, TypeOK
  <2>2. p \in 0 .. MaxPin /\ u \in 0 .. PukLimit
    BY <1>2, <2>1 DEF CardType
  <2>3. p = p0 /\ u = u0
    BY <1>2 DEF Spared
  <2> QED  BY <2>2, <2>3
<1>4. (stage # "Pin" => p1 = p) /\ p1 >= p - 1 /\ u1 = u
  BY <1>2, CountsNext DEF Counted
<1>5. p1 >= p0 - 1 /\ u1 >= u0 - 1
  BY <1>3, <1>4
<1>6. ASSUME Manages(op), genuine, op.key # before.key
      PROVE  stage' \in Entrance /\ card'.key = before.key /\ p1 = p0
  <2>1. stage \in Entrance /\ card.key = before.key
    BY <1>6 DEF Spared
  <2>2. stage # "Pin" /\ card'.key = card.key
    BY <1>6, <2>1, CardNext DEF Entrance
  <2> QED  BY <1>3, <1>4, <1>6, <2>1, <2>2
<1>7. stage' \in {"Select", "Challenge", "Respond", "Pin", "Credential"} => p1 = p0 /\ u1 = u0
  BY <1>3, <1>4
<1> QED
  BY <1>1, <1>2, <1>5, <1>6, <1>7 DEF Spared, Manages, Verifies

LEMMA TargetNotPin == Target(op) # "Pin"
BY DEF Target

(* A card that does not hold the key cannot prove it, and the genuine card *)
(* refuses a key that is not its own.                                      *)
LEMMA ResponseSpares ==
  ASSUME IInv, Spared, ManagementResponse
  PROVE  Spared'
<1> DEFINE Proved(x) == x.sw = "ok" /\ (op.mutual => x.data = TRUE)
<1>1. PICK x \in Answers("Respond") :
        /\ card' = x.card /\ UNCHANGED call
        /\ \/ Proved(x) /\ Goto(TargetOrPin)
           \/ stage' = "Idle"
  BY DEF ManagementResponse, Exchange, Stop, Fail
<1>2. stage = "Respond" /\ stage # "Idle"
  BY DEF ManagementResponse
<1>3. CASE stage' = "Idle"
  BY <1>1, <1>2, <1>3, StepSpares
<1>4. CASE Proved(x)
  <2>1. ~(~genuine /\ op.mutual)
    <3> SUFFICES ASSUME ~genuine, op.mutual PROVE FALSE
      OBVIOUS
    <3>1. Forged("Respond") = {Absent, FALSE}
      BY DEF Forged
    <3>2. PICK sw, d : d \in {Absent, FALSE} /\ x = Says(sw, d, card)
      <4>1. PICK F : F = Forged("Respond")
        OBVIOUS
      <4>2. x \in {Says(sw, d, card) : sw \in {"ok", "notFound", "retries", "blocked"}, d \in F}
        BY <4>1 DEF Answers
      <4>3. \E sw, d : d \in F /\ x = Says(sw, d, card)
        BY <4>2
      <4> QED  BY <3>1, <4>1, <4>3
    <3>3. x.data = d
      BY <3>2 DEF Says
    <3>4. d = TRUE
      BY <1>4, <3>3
    <3> QED  BY <3>2, <3>4, PivAssumption
  <2>2. ~(Manages(op) /\ genuine /\ op.key # before.key)
    <3> SUFFICES ASSUME Manages(op), genuine, op.key # before.key PROVE FALSE
      OBVIOUS
    <3>1. card.key = before.key
      BY DEF Spared
    <3>2. x = CardAuthenticate(op.key)
      BY DEF Answers, CardAnswers
    <3>3. x.sw = "refused"
      BY <3>1, <3>2 DEF CardAuthenticate, Says
    <3> QED  BY <1>4, <3>3
  <2>3. CASE stage' = TargetOrPin
    <3>1. stage' = "Pin" => Verifies(op)
      BY <2>3, TargetNotPin DEF TargetOrPin
    <3> QED  BY <1>1, <1>2, <2>1, <2>2, <3>1, EntrySpares
  <2> QED  BY <1>1, <1>3, <2>3 DEF Goto
<1> QED
  BY <1>1, <1>3, <1>4

LEMMA SelectSpares ==
  ASSUME IInv, Spared, SelectReply
  PROVE  Spared'
<1>1. PICK x \in Answers("Select") :
        /\ card' = x.card /\ UNCHANGED call
        /\ \/ stage' = "Idle"
           \/ stage' = IF Manages(op) THEN "Challenge" ELSE TargetOrPin
  BY DEF SelectReply, Step, Exchange, Goto, Fail, Stop
<1>2. stage = "Select" /\ stage # "Idle"
  BY DEF SelectReply, Step
<1>3. CASE stage' = "Idle"
  BY <1>1, <1>2, <1>3, StepSpares
<1>4. CASE stage' = IF Manages(op) THEN "Challenge" ELSE TargetOrPin
  <2>1. Manages(op) => stage' \in Entrance
    BY <1>4 DEF Entrance
  <2>2. stage' = "Pin" => Verifies(op)
    BY <1>4, TargetNotPin DEF TargetOrPin
  <2> QED  BY <1>1, <1>2, <2>1, <2>2, EntrySpares
<1> QED
  BY <1>1, <1>3, <1>4

LEMMA ChallengeSpares ==
  ASSUME IInv, Spared, ManagementChallenge
  PROVE  Spared'
<1>1. PICK x \in Answers("Challenge") :
        /\ card' = x.card /\ UNCHANGED call /\ stage' \in {"Idle", "Respond"}
  BY DEF ManagementChallenge, Step, Exchange, Goto, Fail, Stop
<1>2. stage = "Challenge" /\ stage' \in Entrance
  BY <1>1 DEF ManagementChallenge, Step, Entrance
<1> QED
  BY <1>1, <1>2, EntrySpares

(* After the PIN comes a target that presents no other credential.         *)
LEMMA PinSpares ==
  ASSUME IInv, Spared, PinReply
  PROVE  Spared'
<1>1. PICK x \in Answers("Pin") :
        card' = x.card /\ UNCHANGED call /\ stage' \in {"Idle", Target(op)}
  BY DEF PinReply, Step, Exchange, Goto, Fail, Stop
<1>2. stage = "Pin" /\ stage # "Idle" /\ stage \notin Entrance
  BY DEF PinReply, Step, Entrance
<1>3. CASE stage' = "Idle"
  BY <1>1, <1>2, <1>3, StepSpares
<1>4. CASE stage' = Target(op)
  <2>1. op \in Requests /\ Accepted(op) /\ Verifies(op)
    BY <1>2 DEF IInv, Owner, Spared
  <2>2. op.kind \in {"Write", "Rotate", "PinManaged"}
    BY <2>1, RequestAssumption DEF Accepted, Verifies
  <2>3. Target(op) \notin {"Select", "Challenge", "Respond", "Pin", "Credential"}
    BY <2>2 DEF Target
  <2> QED  BY <1>1, <1>2, <1>4, <2>3, EntrySpares DEF Spared
<1> QED
  BY <1>1, <1>3, <1>4

LEMMA BeginSpares ==
  ASSUME IInv, NEW r \in Requests, Begin(r)
  PROVE  Spared'
<1>1. /\ op' = r /\ stage' = (IF r.policy = "Existing" THEN Target(r) ELSE "Select")
      /\ before' = card /\ card' = card /\ genuine' = genuine
  BY DEF Begin
<1>2. Target(r) # "Pin"
  BY DEF Target
<1>3. Manages(r) => stage' = "Select"
  BY <1>1 DEF Manages
<1>4. stage' # "Pin"
  BY <1>1, <1>2
<1>5. card \in CardType
  BY DEF IInv, TypeOK
<1>6. card.pinRetries >= card.pinRetries - 1 /\ card.pukRetries >= card.pukRetries - 1
  BY <1>5, CardTypes
<1> QED
  BY <1>1, <1>3, <1>4, <1>6 DEF Spared, Entrance, Manages

LEMMA ReplySpares ==
  ASSUME IInv, Spared, Reply
  PROVE  Spared'
<1>1. CASE SelectReply
  BY <1>1, SelectSpares
<1>2. CASE ManagementChallenge
  BY <1>2, ChallengeSpares
<1>3. CASE ManagementResponse
  BY <1>3, ResponseSpares
<1>4. CASE PinReply
  BY <1>4, PinSpares
<1>5. ASSUME NEW s, stage = s, s # "Idle", NEW x \in Answers(s), Exchange(x),
             \/ stage' = "Idle"
             \/ /\ s \notin {"Select", "Challenge", "Respond", "Pin", "Credential"}
                /\ stage' \notin {"Select", "Challenge", "Respond", "Pin", "Credential"}
      PROVE  Spared'
  BY <1>5, StepSpares DEF Exchange
<1>6. CASE CredentialReply \/ WriteReply \/ RotatePrintedWrite
  BY <1>5, <1>6 DEF CredentialReply, WriteReply, RotatePrintedWrite, LastStep, Stop, Fail
<1>7. CASE RotateAdmin \/ RotatePrinted \/ RotateReplace
  BY <1>5, <1>7 DEF RotateAdmin, RotatePrinted, RotateReplace, Goto, Stop, Fail
<1>8. CASE RotateChallenge \/ RotateResponse \/ PmChallenge
  BY <1>5, <1>8 DEF RotateChallenge, RotateResponse, PmChallenge, Step, Goto, Stop, Fail
<1>9. CASE PmAdmin \/ PmPuk \/ PmPrinted \/ PmMetadata
  BY <1>5, <1>9 DEF PmAdmin, PmPuk, PmPrinted, PmMetadata, Goto, Stop, Fail
<1>10. CASE PmResponse \/ PmChange \/ PmConfirm
  BY <1>5, <1>10 DEF PmResponse, PmChange, PmConfirm, Change, Goto, Stop, Fail
<1> QED
  BY <1>1, <1>2, <1>3, <1>4, <1>6, <1>7, <1>8, <1>9, <1>10 DEF Reply

LEMMA NextSpares == IInv /\ Spared /\ [Next]_vars => Spared'
<1> SUFFICES ASSUME IInv, Spared, [Next]_vars PROVE Spared'
  OBVIOUS
<1>1. CASE \E r \in Requests : Begin(r)
  BY <1>1, BeginSpares
<1>2. CASE Reply
  BY <1>2, ReplySpares
<1>3. CASE Break
  <2>1. PICK x \in Answers(stage) : card' \in {card, x.card}
    BY <1>3 DEF Break
  <2>2. stage # "Idle" /\ stage' = "Idle" /\ UNCHANGED call
    BY <1>3 DEF Break, Fail, Stop
  <2> QED  BY <2>1, <2>2, StepSpares
<1>4. CASE PowerCycle
  <2>1. /\ stage' = stage /\ op' = op /\ genuine' = genuine /\ before' = before
        /\ card' = [card EXCEPT !.pinOk = FALSE, !.mgmtOk = FALSE] /\ card \in CardType
    BY <1>4 DEF PowerCycle, call, IInv, TypeOK
  <2>2. /\ card'.key = card.key /\ card'.pinRetries = card.pinRetries
        /\ card'.pukRetries = card.pukRetries
    BY <2>1 DEF CardType
  <2> QED  BY <2>1, <2>2 DEF Spared, Manages, Verifies
<1>5. CASE UNCHANGED vars
  BY <1>5 DEF vars, call, Spared, Manages, Verifies
<1> QED
  BY <1>1, <1>2, <1>3, <1>4, <1>5 DEF Next

(* With mutual authentication a card without the key sees neither PIN nor  *)
(* target, a wrong key costs no PIN attempt, and no operation costs more   *)
(* than one attempt at a credential, for any keys, cards and requests.     *)
THEOREM CredentialsHold == Spec => []CredentialsGuarded
<1>1. Init => Spared
  <2> SUFFICES ASSUME Init PROVE Spared
    OBVIOUS
  <2>1. stage = "Idle" /\ card \in CardType /\ before = card
    BY RequestAssumption DEF Init
  <2>2. ~Manages(op)
    BY DEF Init, NoRequest, Manages
  <2>3. card.pinRetries >= card.pinRetries - 1 /\ card.pukRetries >= card.pukRetries - 1
    BY <2>1, CardTypes
  <2> QED  BY <2>1, <2>2, <2>3 DEF Spared
<1>2. IInv /\ Spared /\ [Next]_vars => Spared'
  BY NextSpares
<1>3. Spared => CredentialsGuarded
  BY DEF Spared, CredentialsGuarded, Entrance
<1> QED
  BY <1>1, <1>2, <1>3, InvariantHolds, PTL DEF Spec

-----------------------------------------------------------------------------
(* Batches                                                                 *)

BatchTypeOK ==
  /\ requests \in Seq(RequestType)
  /\ phase \in {"Idle", "Select", "Item"}
  /\ done \in 0 .. Len(requests) /\ step \in Nat
  /\ bytes \in Nat /\ used \in Nat /\ failed \in Nat
  /\ kept \in BOOLEAN /\ pinOk \in BOOLEAN /\ mgmtOk \in BOOLEAN

(* While a batch runs, the results are exactly what the card has done.     *)
Running ==
  /\ phase # "Idle" => ended = "None" /\ ~kept /\ requests \in Batches /\ Constructible(requests)
  /\ phase = "Select" => done = 0 /\ executed = {} /\ bytes = 0
  /\ phase = "Item" =>
       /\ done < Len(requests) /\ executed = 1 .. done
       /\ bytes = ResultBytes(requests)[done]

(* The constructor's flags tell what the card thinks, unless the key was   *)
(* replaced.                                                               *)
Tracked ==
  phase = "Item" =>
    /\ ManagedAt(requests, done + 1) => mgmtOk \/ KeyReplaced
    /\ VerifiedAt(requests, done + 1) => pinOk

BatchInv == BatchTypeOK /\ Running /\ Tracked /\ ProgressIsTrue
-----------------------------------------------------------------------------
(* The sum of the result sizes                                             *)

(* A set of naturals has a least member: induction, where a leaf needs it. *)
LEMMA LeastMember ==
  ASSUME NEW T \in SUBSET Nat, T # {}
  PROVE  \E x \in T : \A y \in T : x <= y
<1> DEFINE R == {p \in Nat \X Nat : p[1] < p[2]}
<1>1. IsWellFoundedOn(R, Nat)
  <2>1. OpToRel(<, Nat) = R
    BY DEF OpToRel
  <2> QED BY <2>1, NatLessThanWellFounded
<1>2. PICK x \in T : \A y \in T : ~(<<y, x>> \in R)
  <2> HIDE DEF R
  <2> QED BY <1>1, WFMin
<1>3. ASSUME NEW y \in T PROVE x <= y
  <2>1. ~(<<y, x>> \in R)
    BY <1>2
  <2>2. ~(y < x)
    BY <2>1
  <2> QED BY <2>2
<1> QED BY <1>3

IsSum(f, q, n) ==
  /\ f \in [0 .. n -> Nat]
  /\ f[0] = 0
  /\ \A i \in 1 .. n : f[i] = f[i - 1] + q[i].bytes

(* The partial sums exist up to every length.                              *)
LEMMA SumExists ==
  ASSUME NEW q \in Seq(RequestType), NEW n \in 0 .. Len(q)
  PROVE  \E f : IsSum(f, q, n)
<1> DEFINE T == {m \in 0 .. Len(q) : ~ \E f : IsSum(f, q, m)}
<1>1. SUFFICES ASSUME T # {} PROVE FALSE
  OBVIOUS
<1>2. PICK m \in T : \A y \in T : m <= y
  <2> T \in SUBSET Nat
    OBVIOUS
  <2> HIDE DEF T
  <2> QED BY <1>1, LeastMember
<1>3. m \in 1 .. Len(q)
  <2>1. IsSum([i \in 0 .. 0 |-> 0], q, 0)
    BY DEF IsSum
  <2> QED BY <2>1
<1>4. m - 1 \in 0 .. Len(q) /\ m - 1 \notin T
  BY <1>2, <1>3
<1>5. PICK f : IsSum(f, q, m - 1)
  BY <1>4
<1> DEFINE g == [i \in 0 .. m |-> IF i = m THEN f[m - 1] + q[m].bytes ELSE f[i]]
<1>6. q[m].bytes \in Nat
  <2> HIDE DEF T
  <2>1. q[m] \in RequestType
    BY <1>3
  <2> QED BY <2>1 DEF RequestType
<1>7. IsSum(g, q, m)
  <2> HIDE DEF T
  <2>1. f \in [0 .. m - 1 -> Nat] /\ f[0] = 0
    BY <1>5 DEF IsSum
  <2>2. f[m - 1] + q[m].bytes \in Nat
    BY <1>3, <1>6, <2>1
  <2>3. g \in [0 .. m -> Nat] /\ g[0] = 0
    BY <1>3, <2>1, <2>2
  <2>4. ASSUME NEW i \in 1 .. m PROVE g[i] = g[i - 1] + q[i].bytes
    <3>1. CASE i = m
      BY <1>3, <3>1
    <3>2. CASE i # m
      <4>1. f[i] = f[i - 1] + q[i].bytes
        BY <1>3, <1>5, <3>2 DEF IsSum
      <4> QED BY <1>3, <3>2, <4>1
    <3> QED BY <3>1, <3>2
  <2> HIDE DEF g
  <2> QED BY <2>3, <2>4 DEF IsSum
<1> QED BY <1>7

(* What the sum is at 0 and how it grows.                                  *)
LEMMA SumUnfolds ==
  ASSUME NEW q \in Seq(RequestType)
  PROVE  IsSum(ResultBytes(q), q, Len(q))
<1> DEFINE body(s) ==
      [n \in 0 .. Len(q) |-> IF n = 0 THEN 0 ELSE s[n - 1] + q[n].bytes]
<1>1. PICK f : IsSum(f, q, Len(q))
  BY SumExists
<1>2. f = body(f)
  BY <1>1 DEF IsSum
<1>3. ResultBytes(q) = CHOOSE s : s = body(s)
  BY DEF ResultBytes
<1>4. ResultBytes(q) = body(ResultBytes(q))
  <2> HIDE DEF body
  <2> QED BY <1>2, <1>3
<1> DEFINE s == ResultBytes(q)
<1> HIDE DEF s
<1>5. s = body(s)
  BY <1>4 DEF s
<1>6. s[0] = 0 /\ \A i \in 1 .. Len(q) : s[i] = s[i - 1] + q[i].bytes
  BY <1>5
<1>7. \A i \in 0 .. Len(q) : s[i] \in Nat
  <2> DEFINE T == {m \in 0 .. Len(q) : s[m] \notin Nat}
  <2>1. SUFFICES ASSUME T # {} PROVE FALSE
    OBVIOUS
  <2>2. PICK m \in T : \A y \in T : m <= y
    <3> T \in SUBSET Nat
      OBVIOUS
    <3> HIDE DEF T
    <3> QED BY <2>1, LeastMember
  <2>3. m \in 1 .. Len(q) /\ s[m] \notin Nat
    BY <1>6
  <2>4. m - 1 \notin T /\ m - 1 \in 0 .. Len(q)
    BY <2>2, <2>3
  <2>5. s[m - 1] \in Nat
    BY <2>4
  <2>6. q[m].bytes \in Nat
    <3>1. q[m] \in RequestType
      BY <2>3
    <3> QED BY <3>1 DEF RequestType
  <2>7. s[m] = s[m - 1] + q[m].bytes
    BY <1>6, <2>3
  <2> QED BY <2>3, <2>5, <2>6, <2>7
<1>8. s \in [0 .. Len(q) -> Nat]
  BY <1>5, <1>7
<1> QED BY <1>6, <1>8 DEF IsSum, s

-----------------------------------------------------------------------------
(* One step per action                                                     *)

(* The requests of an accepted batch obey the constructor's rules.         *)
LEMMA Rules ==
  ASSUME NEW q, Constructible(q), NEW i \in DOMAIN q
  PROVE  /\ q[i].kind = "ResetRetries" => VerifiedAt(q, i)
         /\ q[i].kind = "SetConfig" => i = Len(q)
         /\ q[i].kind \in Mutating => ManagedAt(q, i)
BY DEF Constructible

(* Ending in FailItem after `count` results keeps the results true.        *)
LEMMA FailItemStep ==
  ASSUME BatchInv, phase # "Idle", NEW count \in 0 .. Len(requests), FailItem(count),
         executed' \in {1 .. count, 1 .. count + 1},
         ResultBytes(requests)[count] <= MaxResult,
         bytes' \in Nat, pinOk' \in BOOLEAN, mgmtOk' \in BOOLEAN, UNCHANGED requests
  PROVE  BatchInv'
<1> USE BatchAssumption
<1>1. BatchTypeOK'
  BY DEF BatchInv, BatchTypeOK, FailItem
<1>2. Running' /\ Tracked'
  BY DEF FailItem, Running, Tracked
<1>3. ProgressIsTrue'
  BY DEF FailItem, ProgressIsTrue
<1> QED BY <1>1, <1>2, <1>3 DEF BatchInv

(* Going on with command n of the request after `count` results.           *)
LEMMA ExposeStep ==
  ASSUME BatchInv, phase # "Idle", NEW count \in Nat, count < Len(requests), NEW n \in Nat,
         Expose(count, n), executed' = 1 .. count,
         bytes' = ResultBytes(requests)[count], bytes' <= MaxResult, bytes' \in Nat,
         pinOk' \in BOOLEAN, mgmtOk' \in BOOLEAN, UNCHANGED requests,
         ManagedAt(requests, count + 1) => mgmtOk' \/ KeyReplaced',
         VerifiedAt(requests, count + 1) => pinOk'
  PROVE  BatchInv'
<1> USE BatchAssumption
<1>0. Len(requests) \in Nat
  BY DEF BatchInv, BatchTypeOK
<1>1. CASE used >= MaxExchanges
  <2>1. FailItem(count)
    BY <1>1 DEF Expose
  <2> QED BY <1>0, <2>1, FailItemStep
<1>2. CASE ~(used >= MaxExchanges)
  <2>0. /\ phase' = "Item" /\ step' = n /\ used' = used + 1 /\ done' = count
        /\ UNCHANGED <<ended, kept, failed>>
    BY <1>2 DEF Expose
  <2>1. BatchTypeOK'
    BY <1>0, <2>0 DEF BatchInv, BatchTypeOK
  <2>2. Running'
    BY <2>0 DEF BatchInv, Running
  <2>3. Tracked'
    <3>1. ManagedAt(requests', done' + 1) => mgmtOk' \/ KeyReplaced'
      BY <2>0
    <3>2. VerifiedAt(requests', done' + 1) => pinOk'
      BY <2>0
    <3> QED BY <3>1, <3>2 DEF Tracked
  <2>4. ProgressIsTrue'
    BY <2>0, <2>2 DEF Running, ProgressIsTrue
  <2> QED BY <2>1, <2>2, <2>3, <2>4 DEF BatchInv
<1> QED BY <1>1, <1>2

(* What carrying out the current request leaves of the sessions.           *)
LEMMA ExecutesStep ==
  ASSUME BatchInv, phase = "Item", Executes, UNCHANGED requests
  PROVE  /\ executed' = 1 .. done + 1
         /\ pinOk' \in BOOLEAN /\ mgmtOk' \in BOOLEAN
         /\ done + 1 < Len(requests) =>
              /\ ManagedAt(requests, done + 2) => mgmtOk' \/ KeyReplaced'
              /\ VerifiedAt(requests, done + 2) => pinOk'
<1>0. /\ requests \in Seq(RequestType) /\ done \in Nat /\ done < Len(requests)
      /\ executed = 1 .. done /\ Len(requests) \in Nat
      /\ pinOk \in BOOLEAN /\ mgmtOk \in BOOLEAN
  BY DEF BatchInv, BatchTypeOK, Running
<1>1. executed' = 1 .. done + 1
  BY <1>0 DEF Executes
<1>2. pinOk' \in BOOLEAN /\ mgmtOk' \in BOOLEAN
  <2>1. pinOk' \in BOOLEAN
    BY DEF Executes
  <2>2. mgmtOk' \in {TRUE} \/ mgmtOk' \in {FALSE} \/ mgmtOk' \in BOOLEAN \/ mgmtOk' \in {mgmtOk}
    BY DEF Executes
  <2> QED BY <1>0, <2>1, <2>2
<1>3. VerifiedAt(requests, done + 2) => pinOk'
  <2>1. VerifiedAt(requests, done + 2) => requests[done + 1].kind = "Verify"
    BY <1>0 DEF VerifiedAt
  <2> QED BY <2>1 DEF Executes, Current
<1>4. ASSUME ManagedAt(requests, done + 2) PROVE mgmtOk' \/ KeyReplaced'
  <2>1. PICK j \in 1 .. done + 1 :
          /\ requests[j].kind = "Authenticate"
          /\ \A k \in j + 1 .. done + 1 : requests[k].kind # "ResetRetries"
    BY <1>0, <1>4 DEF ManagedAt
  <2>2. CASE Current.kind = "Authenticate"
    BY <2>2 DEF Executes
  <2>3. CASE Current.kind = "SetKey"
    <3>1. done + 1 \in executed' /\ requests'[done + 1].kind = "SetKey"
      BY <1>0, <1>1, <2>3 DEF Current
    <3>2. \A i \in executed' : requests'[i].kind = "Authenticate" => i < done + 1
      BY <1>0, <1>1, <2>3 DEF Current
    <3> QED BY <3>1, <3>2 DEF KeyReplaced
  <2>4. CASE Current.kind = "ResetRetries"
    <3>1. j < done + 1
      BY <1>0, <2>1, <2>4 DEF Current
    <3>2. requests[done + 1].kind # "ResetRetries"
      BY <1>0, <2>1, <3>1
    <3> QED BY <2>4, <3>2 DEF Current
  <2>5. CASE Current.kind \notin {"Authenticate", "SetKey", "ResetRetries"}
    <3>1. mgmtOk' = mgmtOk
      BY <2>5 DEF Executes
    <3>2. j \in 1 .. done
      BY <1>0, <2>1, <2>5 DEF Current
    <3>3. ManagedAt(requests, done + 1)
      BY <1>0, <2>1, <3>2 DEF ManagedAt
    <3>4. CASE KeyReplaced
      <4>1. PICK i \in executed :
              /\ requests[i].kind = "SetKey"
              /\ \A k \in executed : requests[k].kind = "Authenticate" => k < i
        BY <3>4 DEF KeyReplaced
      <4>2. i \in executed' /\ requests'[i].kind = "SetKey"
        BY <1>0, <1>1, <4>1
      <4>3. \A k \in executed' : requests'[k].kind = "Authenticate" => k < i
        BY <1>0, <1>1, <2>5, <4>1 DEF Current
      <4> QED BY <4>2, <4>3 DEF KeyReplaced
    <3>5. CASE mgmtOk
      BY <3>1, <3>5
    <3> QED BY <3>3, <3>4, <3>5 DEF BatchInv, Tracked
  <2> QED BY <2>2, <2>3, <2>4, <2>5
<1> QED BY <1>1, <1>2, <1>3, <1>4

(* What is known when a request is current.                                *)
LEMMA ItemFacts ==
  ASSUME BatchInv, phase = "Item"
  PROVE  /\ Len(requests) \in Nat /\ done \in Nat /\ done < Len(requests)
         /\ bytes \in Nat /\ bytes = ResultBytes(requests)[done] /\ bytes <= MaxResult
         /\ Current.bytes \in Nat /\ step \in Nat
         /\ ResultBytes(requests)[done + 1] = bytes + Current.bytes
<1>1. /\ requests \in Seq(RequestType) /\ Len(requests) \in Nat /\ done \in Nat
      /\ done < Len(requests) /\ bytes \in Nat /\ step \in Nat
      /\ bytes = ResultBytes(requests)[done]
  BY DEF BatchInv, BatchTypeOK, Running
<1>2. bytes <= MaxResult
  BY <1>1 DEF BatchInv, ProgressIsTrue
<1>3. Current \in RequestType
  BY <1>1 DEF Current
<1>4. IsSum(ResultBytes(requests), requests, Len(requests))
  BY <1>1, SumUnfolds
<1>5. ResultBytes(requests)[done + 1] = ResultBytes(requests)[done] + requests[done + 1].bytes
  BY <1>1, <1>4 DEF IsSum
<1> QED BY <1>1, <1>2, <1>3, <1>5 DEF Current, RequestType

(* No result has a size.                                                   *)
LEMMA SumAtZero ==
  ASSUME NEW q \in Seq(RequestType) PROVE ResultBytes(q)[0] = 0
BY SumUnfolds DEF IsSum

(* Every initial state satisfies the invariant.                            *)
LEMMA InitBatch == BatchInit => BatchInv
<1> SUFFICES ASSUME BatchInit PROVE BatchInv
  OBVIOUS
<1> USE BatchAssumption
<1>1. BatchTypeOK /\ Running /\ Tracked
  <2>1. kept \in BOOLEAN /\ pinOk \in BOOLEAN /\ mgmtOk \in BOOLEAN
    BY DEF BatchInit
  <2>2. requests \in Seq(RequestType) /\ done \in 0 .. Len(requests)
    BY DEF BatchInit
  <2>3. /\ phase \in {"Idle", "Select", "Item"} /\ step \in Nat
        /\ bytes \in Nat /\ used \in Nat /\ failed \in Nat
    BY DEF BatchInit
  <2> QED BY <2>1, <2>2, <2>3 DEF BatchInit, BatchTypeOK, Running, Tracked
<1>2. ResultBytes(<<>>)[0] = 0
  <2>1. <<>> \in Seq(RequestType)
    OBVIOUS
  <2> QED BY <2>1, SumAtZero
<1>3. ProgressIsTrue
  BY <1>2 DEF BatchInit, ProgressIsTrue
<1> QED BY <1>1, <1>3 DEF BatchInv

(* The invariant is kept by every step.                                    *)
LEMMA StepBatch == BatchInv /\ [BatchNext]_batchVars => BatchInv'
<1> SUFFICES ASSUME BatchInv, [BatchNext]_batchVars PROVE BatchInv'
  OBVIOUS
<1> USE BatchAssumption
<1>0. BatchTypeOK /\ Running /\ Tracked /\ ProgressIsTrue
  BY DEF BatchInv
<1>1. ASSUME NEW q \in Batches, Submit(q) PROVE BatchInv'
  <2>1. q \in Seq(RequestType) /\ Len(q) \in Nat
    OBVIOUS
  <2>2. BatchTypeOK'
    <3>1. kept' \in BOOLEAN /\ pinOk' \in BOOLEAN /\ mgmtOk' \in BOOLEAN
      BY <1>0, <1>1 DEF Submit, BatchTypeOK
    <3>2. requests' \in Seq(RequestType) /\ done' \in 0 .. Len(requests')
      BY <1>1, <2>1 DEF Submit
    <3>3. /\ phase' \in {"Idle", "Select", "Item"} /\ step' \in Nat
          /\ bytes' \in Nat /\ used' \in Nat /\ failed' \in Nat
      BY <1>1 DEF Submit
    <3> QED BY <3>1, <3>2, <3>3 DEF BatchTypeOK
  <2>3. Running' /\ Tracked'
    BY <1>1 DEF Submit, Running, Tracked
  <2>4. ResultBytes(q)[0] = 0
    BY <2>1, SumAtZero
  <2>5. ProgressIsTrue'
    BY <1>1, <2>4 DEF Submit, ProgressIsTrue
  <2> QED BY <2>2, <2>3, <2>5 DEF BatchInv
<1>2. CASE SelectDone
  <2>0. /\ phase = "Select" /\ pinOk' = FALSE /\ mgmtOk' = FALSE /\ Expose(0, 1)
        /\ UNCHANGED <<requests, bytes, executed>>
    BY <1>2 DEF SelectDone
  <2>1. /\ requests \in Seq(RequestType) /\ 0 < Len(requests) /\ executed = {} /\ bytes = 0
    BY <1>0, <2>0 DEF BatchTypeOK, Running, Constructible
  <2>2. ResultBytes(requests)[0] = 0
    BY <2>1, SumAtZero
  <2>3. ~ManagedAt(requests, 0 + 1) /\ ~VerifiedAt(requests, 0 + 1)
    BY DEF ManagedAt, VerifiedAt
  <2>4. executed' = 1 .. 0
    BY <2>0, <2>1
  <2>5. bytes' = ResultBytes(requests)[0] /\ bytes' <= MaxResult /\ bytes' \in Nat
    BY <2>0, <2>1, <2>2
  <2>6. pinOk' \in BOOLEAN /\ mgmtOk' \in BOOLEAN
    BY <2>0
  <2>7. 0 \in Nat /\ 1 \in Nat /\ phase # "Idle" /\ requests' = requests
    BY <2>0
  <2> QED BY <2>0, <2>1, <2>3, <2>4, <2>5, <2>6, <2>7, ExposeStep
<1>3. CASE SelectFailed
  <2>1. BatchTypeOK' /\ Running' /\ Tracked'
    BY <1>0, <1>3 DEF SelectFailed, BatchTypeOK, Running, Tracked, results, sessions
  <2>2. ProgressIsTrue'
    BY <1>0, <1>3 DEF SelectFailed, Running, ProgressIsTrue, results, sessions
  <2> QED BY <2>1, <2>2 DEF BatchInv
<1>4. CASE CommandDone
  <2>0. /\ phase = "Item" /\ Expose(done, step + 1) /\ UNCHANGED <<requests, bytes>>
        /\ pinOk' = pinOk /\ mgmtOk' = mgmtOk /\ executed' = executed
    BY <1>4 DEF CommandDone, sessions
  <2>1. step + 1 \in Nat /\ pinOk \in BOOLEAN /\ mgmtOk \in BOOLEAN /\ executed = 1 .. done
    BY <1>0, <2>0 DEF BatchTypeOK, Running
  <2>2. /\ ManagedAt(requests, done + 1) => mgmtOk' \/ KeyReplaced'
        /\ VerifiedAt(requests, done + 1) => pinOk'
    BY <1>0, <2>0 DEF Tracked, KeyReplaced
  <2> QED BY <2>0, <2>1, <2>2, ItemFacts, ExposeStep
<1>5. CASE ItemDone
  <2>0. /\ phase = "Item" /\ Executes /\ UNCHANGED requests
        /\ bytes' = bytes + Current.bytes
    BY <1>5 DEF ItemDone
  <2>1. /\ executed' = 1 .. done + 1
        /\ pinOk' \in BOOLEAN /\ mgmtOk' \in BOOLEAN
        /\ done + 1 < Len(requests) =>
             /\ ManagedAt(requests, done + 2) => mgmtOk' \/ KeyReplaced'
             /\ VerifiedAt(requests, done + 2) => pinOk'
    BY <2>0, ExecutesStep
  <2>2. /\ Len(requests) \in Nat /\ done \in Nat /\ done < Len(requests)
        /\ bytes \in Nat /\ bytes = ResultBytes(requests)[done] /\ bytes <= MaxResult
        /\ bytes' \in Nat /\ ResultBytes(requests)[done + 1] = bytes'
    BY <2>0, ItemFacts
  <2>3. CASE bytes' > MaxResult
    <3>1. FailItem(done)
      <4>1. ~(bytes' <= MaxResult)
        BY <2>2, <2>3
      <4> QED BY <1>5, <2>3, <4>1 DEF ItemDone
    <3> QED BY <2>0, <2>1, <2>2, <3>1, FailItemStep
  <2>4. CASE bytes' <= MaxResult /\ done + 1 = Len(requests)
    <3>1. Finish
      <4>1. ~(bytes' > MaxResult)
        BY <2>2, <2>4
      <4> QED BY <1>5, <2>4, <4>1 DEF ItemDone
    <3>2. BatchTypeOK'
      BY <1>0, <2>0, <2>1, <2>2, <3>1 DEF Finish, BatchTypeOK
    <3>3. Running' /\ Tracked'
      BY <3>1 DEF Finish, Running, Tracked
    <3>4. executed' = DOMAIN requests'
      BY <1>0, <2>0, <2>1, <2>4 DEF BatchTypeOK
    <3>5. ProgressIsTrue'
      BY <2>0, <2>2, <2>4, <3>1, <3>4 DEF Finish, ProgressIsTrue
    <3> QED BY <3>2, <3>3, <3>5 DEF BatchInv
  <2>5. CASE ~(bytes' > MaxResult) /\ ~(bytes' <= MaxResult /\ done + 1 = Len(requests))
    <3>1. Expose(done + 1, 1)
      BY <1>5, <2>5 DEF ItemDone
    <3>2. done + 1 < Len(requests) /\ done + 1 \in Nat /\ bytes' <= MaxResult
          /\ (done + 1) + 1 = done + 2
      BY <2>2, <2>5
    <3> QED BY <2>0, <2>1, <2>2, <3>1, <3>2, ExposeStep
  <2> QED BY <2>3, <2>4, <2>5
<1>6. CASE ItemFailed
  <2>0. /\ phase = "Item" /\ FailItem(done) /\ UNCHANGED <<requests, bytes>>
    BY <1>6 DEF ItemFailed
  <2>1. /\ executed' \in {1 .. done, 1 .. done + 1}
        /\ pinOk' \in BOOLEAN /\ mgmtOk' \in BOOLEAN
    <3>1. CASE Executes
      BY <2>0, <3>1, ExecutesStep
    <3>2. CASE UNCHANGED sessions
      BY <1>0, <2>0, <3>2 DEF sessions, BatchTypeOK, Running
    <3> QED BY <1>6, <3>1, <3>2 DEF ItemFailed
  <2> QED BY <2>0, <2>1, ItemFacts, FailItemStep
<1>7. CASE Cancel
  <2>0. /\ phase # "Idle" /\ phase' = "Idle" /\ ended' = "Cancelled" /\ step' = 0
        /\ done' = 0 /\ kept' = FALSE /\ UNCHANGED <<requests, bytes, used, failed>>
    BY <1>7 DEF Cancel
  <2>1. pinOk' \in BOOLEAN /\ mgmtOk' \in BOOLEAN
    <3>1. CASE phase = "Item" /\ Executes
      BY <2>0, <3>1, ExecutesStep
    <3>2. CASE UNCHANGED sessions
      BY <1>0, <3>2 DEF sessions, BatchTypeOK
    <3> QED BY <1>7, <3>1, <3>2 DEF Cancel
  <2>2. BatchTypeOK'
    <3>1. kept' \in BOOLEAN
      BY <2>0
    <3>2. done' \in 0 .. Len(requests')
      BY <1>0, <2>0 DEF BatchTypeOK
    <3> QED BY <1>0, <2>0, <2>1, <3>1, <3>2 DEF BatchTypeOK
  <2>3. Running' /\ Tracked'
    BY <2>0 DEF Running, Tracked
  <2>4. ResultBytes(requests)[0] = 0
    BY <1>0, SumAtZero DEF BatchTypeOK
  <2>5. ProgressIsTrue'
    BY <2>0, <2>4 DEF ProgressIsTrue
  <2> QED BY <2>2, <2>3, <2>5 DEF BatchInv
<1>8. CASE UNCHANGED batchVars
  <2>1. BatchTypeOK' /\ Running' /\ Tracked' /\ ProgressIsTrue'
    BY <1>0, <1>8
    DEF batchVars, results, sessions, BatchTypeOK, Running, Tracked, ProgressIsTrue, KeyReplaced
  <2> QED BY <2>1 DEF BatchInv
<1> QED BY <1>1, <1>2, <1>3, <1>4, <1>5, <1>6, <1>7, <1>8 DEF BatchNext

-----------------------------------------------------------------------------
(* The theorems                                                            *)

(* The inductive invariant, its type part included, always holds.          *)
THEOREM BatchInvariant == BatchSpec => []BatchInv
BY InitBatch, StepBatch, PTL DEF BatchSpec

(* What BatchResults tells of a batch that failed, finished or was cut     *)
(* short is what the card did, whatever the batch and the limits.          *)
THEOREM BatchProgress == BatchSpec => []ProgressIsTrue
<1>1. BatchInv => ProgressIsTrue
  BY DEF BatchInv
<1> QED BY <1>1, BatchInvariant, PTL

(* The ordering rules of batch() never send a request to a card that has   *)
(* lost the session the request needs, whatever the batch.                 *)
THEOREM BatchReady == BatchSpec => []ReadyForCard
<1>1. BatchInv => ReadyForCard
  <2> SUFFICES ASSUME BatchInv, phase = "Item" PROVE
        /\ Current.kind \in Mutating => mgmtOk \/ KeyReplaced
        /\ Current.kind = "ResetRetries" => pinOk
        /\ \A i \in executed : requests[i].kind # "SetConfig"
    BY DEF ReadyForCard
  <2>0. BatchTypeOK /\ Running /\ Tracked
    BY DEF BatchInv
  <2>1. /\ done + 1 \in DOMAIN requests /\ Constructible(requests) /\ executed = 1 .. done
        /\ done \in Nat /\ Len(requests) \in Nat /\ done < Len(requests)
        /\ \A i \in executed : i \in DOMAIN requests /\ i # Len(requests)
    BY <2>0 DEF BatchTypeOK, Running
  <2>2. Current.kind \in Mutating => mgmtOk \/ KeyReplaced
    BY <2>0, <2>1, Rules DEF Tracked, Current
  <2>3. Current.kind = "ResetRetries" => pinOk
    BY <2>0, <2>1, Rules DEF Tracked, Current
  <2>4. \A i \in executed : requests[i].kind # "SetConfig"
    BY <2>1, Rules
  <2> QED BY <2>2, <2>3, <2>4
<1> QED BY <1>1, BatchInvariant, PTL
=============================================================================
