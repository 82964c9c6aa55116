----------------------------- MODULE NdefProofs -----------------------------
(***************************************************************************)
(* The crash consistency of write_message and the integrity of             *)
(* read_message, for every file size, every chunk size and every sequence  *)
(* of interrupted operations.                                              *)
(***************************************************************************)
EXTENDS Ndef, SequenceTheorems, TLAPS

(* Which machine a step belongs to.                                        *)
StepOwner ==
  /\ step \in {"ZeroLength", "FinalLength"} => op = "write"
  /\ step = "ReadNlen" => op = "read"
  /\ step \in {"SelectNdef", "Message"} => op \in {"read", "write"}

Early == {"SelectApplet", "SelectCc", "ReadCc", "SelectNdef", "ReadNlen", "ZeroLength"}

(* Nothing is transferred before the message steps.                        *)
Fresh ==
  step \in Early => offset = 0 /\ (op = "read" => message = <<>>)

(* A write that has passed the CC check fits the file; from the first      *)
(* chunk on the length is zero and the chunks sent are in place.           *)
WriteProgress ==
  op = "write" =>
    /\ message \in requested
    /\ step \in {"SelectNdef", "ZeroLength", "Message", "FinalLength"} =>
         Len(message) <= FileArea
    /\ step \in {"Message", "FinalLength"} =>
         /\ nlen = 0
         /\ offset <= Len(message)
         /\ \A i \in 1 .. offset : bytes[i] = message[i]
    /\ step = "FinalLength" => offset = Len(message)

(* A read past the CC holds its limit, and reads no message beyond it; it  *)
(* has copied the first offset bytes of the visible message.               *)
ReadProgress ==
  op = "read" =>
    /\ step \in {"SelectNdef", "ReadNlen", "Message"} => ValidCc /\ limit = MaxMessage
    /\ step = "Message" =>
         /\ nlen <= limit
         /\ Len(message) = offset
         /\ offset + remaining = nlen
         /\ \A i \in 1 .. offset : message[i] = bytes[i]

IInv ==
  /\ TypeOK /\ StepOwner /\ Fresh /\ WriteProgress /\ ReadProgress
  /\ NoTornMessage /\ OutcomeReal

-----------------------------------------------------------------------------
(* The file shows its visible message.                                     *)
LEMMA VisibleShown ==
  ASSUME TypeOK
  PROVE  Visible \in Seq(Byte) /\ Shows(Visible)
<1>1. Visible \in [1 .. nlen -> Byte] /\ nlen \in Nat
  BY NdefAssumption DEF TypeOK, Visible
<1>2. Visible \in Seq(Byte) /\ Len(Visible) = nlen
  BY <1>1
<1> QED
  BY <1>2 DEF Shows, Visible

(* The CC says the same as long as it is the same.                         *)
LEMMA CcKept ==
  ASSUME UNCHANGED fileSize
  PROVE  ValidCc' = ValidCc /\ MaxMessage' = MaxMessage
  BY DEF ValidCc, MaxMessage, Smaller

(* The inductive invariant holds initially.                                *)
LEMMA InitIInv == Init => IInv
<1> SUFFICES ASSUME Init PROVE IInv
  OBVIOUS
<1>1. Visible \in [1 .. nlen -> Byte] /\ nlen \in Nat
  BY NdefAssumption DEF Init, Visible
<1>2. Visible \in Seq(Byte)
  BY <1>1
<1>3. TypeOK
  BY <1>2 DEF Init, TypeOK
<1>4. NoTornMessage
  BY <1>3, VisibleShown DEF Init, NoTornMessage
<1> QED
  BY <1>3, <1>4
  DEF Init, IInv, StepOwner, Fresh, Early, WriteProgress, ReadProgress, OutcomeReal

(* What an update of n more bytes of the message leaves in the area.       *)
LEMMA OverlayType ==
  ASSUME TypeOK, Len(message) <= FileArea, NEW n \in Nat, offset + n <= Len(message)
  PROVE  /\ Overlay(n) \in [1 .. FileArea -> Byte]
         /\ \A i \in 1 .. FileArea :
              Overlay(n)[i] = IF offset < i /\ i <= offset + n THEN message[i] ELSE bytes[i]
<1>1. \A i \in 1 .. FileArea : offset < i /\ i <= offset + n => message[i] \in Byte
  BY NdefAssumption DEF TypeOK
<1>2. \A i \in 1 .. FileArea : bytes[i] \in Byte
  BY DEF TypeOK
<1> QED
  BY <1>1, <1>2 DEF Overlay

(* A chunk is not empty and ends within the message.                       *)
LEMMA TakeBounds ==
  ASSUME TypeOK, offset <= Len(message)
  PROVE  Take \in Nat /\ offset + Take <= Len(message)
<1>1. Len(message) \in Nat /\ offset \in Nat /\ WriteChunk \in Nat
  BY NdefAssumption DEF TypeOK
<1> QED
  BY <1>1 DEF Take, Smaller

(* Ending an operation without touching the file keeps the invariant,      *)
(* unless it claims success.                                               *)
LEMMA FinishKeeps ==
  ASSUME IInv, NEW how \in {"Status", "InvalidResponse", "LimitExceeded",
                            "SecurityStatusNotSatisfied", "Abandoned", "Budget"},
         Finish(how), UNCHANGED <<op, message, fileVars, ccVars, requested>>,
         offset' \in Nat, remaining' \in Nat, limit' \in Nat
  PROVE  IInv'
<1>1. step' = "Idle" /\ outcome' = how /\ used' = used
  BY DEF Finish
<1>2. TypeOK'
  BY <1>1 DEF IInv, TypeOK, fileVars, ccVars
<1>3. NoTornMessage'
  BY DEF IInv, NoTornMessage, Shows, fileVars
<1>4. WriteProgress'
  BY <1>1 DEF IInv, WriteProgress
<1> QED
  BY <1>1, <1>2, <1>3, <1>4 DEF IInv, StepOwner, Fresh, Early, ReadProgress, OutcomeReal

(* Moving on to a step before the message, without touching the file.      *)
LEMMA EarlyKeeps ==
  ASSUME IInv, NEW next \in Early \ {"SelectApplet"}, Issue(next), step \in Early,
         UNCHANGED <<op, message, offset, remaining, fileVars, ccVars, requested>>,
         limit' \in Nat,
         next \in {"SelectNdef", "ZeroLength"} /\ op = "write" => Len(message) <= FileArea,
         next = "ZeroLength" => op = "write",
         next = "ReadNlen" => op = "read",
         next = "SelectNdef" => op \in {"read", "write"},
         next \in {"SelectNdef", "ReadNlen"} /\ op = "read" => ValidCc /\ limit' = MaxMessage
  PROVE  IInv'
<1>0. offset' \in Nat /\ remaining' \in Nat
  BY DEF IInv, TypeOK
<1>1. CASE used >= MaxExchanges
  BY <1>0, <1>1, FinishKeeps DEF Issue
<1>2. CASE ~(used >= MaxExchanges)
  <2>1. step' = next /\ used' = used + 1 /\ outcome' = outcome
    BY <1>2 DEF Issue
  <2>2. next \notin {"Idle", "Message", "FinalLength"}
    BY DEF Early
  <2>3. TypeOK'
    BY <1>0, <2>1 DEF IInv, TypeOK, Early, fileVars, ccVars
  <2>4. NoTornMessage'
    BY DEF IInv, NoTornMessage, Shows, fileVars
  <2>5. WriteProgress'
    BY <2>1, <2>2 DEF IInv, WriteProgress
  <2>6. StepOwner' /\ Fresh' /\ OutcomeReal'
    BY <2>1, <2>2 DEF IInv, StepOwner, Fresh, OutcomeReal
  <2>7. ReadProgress'
    BY <2>1, <2>2, CcKept DEF ReadProgress, ccVars
  <2> QED
    BY <2>3, <2>4, <2>5, <2>6, <2>7 DEF IInv
<1> QED
  BY <1>1, <1>2

(* A new operation keeps the invariant.                                    *)
LEMMA BeginKeeps ==
  ASSUME IInv, NEW kind \in {"capability", "read", "write"}, NEW m \in Seq(Byte),
         NEW n, Begin(kind, m, n),
         kind = "write" => requested' = {Visible, m},
         kind = "read" => m = <<>>,
         kind # "write" => requested' = requested
  PROVE  IInv'
<1>1. /\ op' = kind /\ step' = "SelectApplet" /\ message' = m
      /\ offset' = 0 /\ remaining' = 0 /\ limit' = MaxMessageLength
      /\ used' = 1 /\ outcome' = "none"
      /\ UNCHANGED <<fileSize, readOnly, pages, nlen, bytes>>
  BY DEF Begin, ccVars, fileVars
<1>2. Visible \in Seq(Byte) /\ Shows(Visible)
  BY VisibleShown DEF IInv
<1>3. requested' \subseteq Seq(Byte)
  BY <1>2 DEF IInv, TypeOK
<1>4. TypeOK'
  BY <1>1, <1>3, NdefAssumption DEF IInv, TypeOK
<1>5. NoTornMessage'
  <2>1. CASE kind = "write"
    BY <1>1, <1>2, <2>1 DEF NoTornMessage, Shows
  <2>2. CASE kind # "write"
    BY <1>1, <2>2 DEF IInv, NoTornMessage, Shows
  <2> QED  BY <2>1, <2>2
<1>6. WriteProgress'
  BY <1>1 DEF WriteProgress
<1> QED
  BY <1>1, <1>4, <1>5, <1>6 DEF IInv, StepOwner, Fresh, ReadProgress, OutcomeReal

(* A read that has learnt the length keeps the invariant.                  *)
LEMMA NlenDoneKeeps ==
  ASSUME IInv, ReadNlenDone
  PROVE  IInv'
<1>1. /\ step = "ReadNlen" /\ op = "read" /\ offset = 0 /\ message = <<>>
      /\ UNCHANGED <<op, message, offset, limit, ccVars, fileVars, requested>>
  BY DEF ReadNlenDone, IInv, StepOwner, Fresh, Early
<1>2. offset' \in Nat /\ limit' \in Nat /\ remaining \in Nat /\ nlen \in Nat
  BY <1>1 DEF IInv, TypeOK
<1>3. ValidCc' /\ limit' = MaxMessage'
  BY <1>1, CcKept DEF IInv, ReadProgress, ccVars
<1>4. CASE Finish("InvalidResponse") /\ UNCHANGED remaining
  BY <1>1, <1>2, <1>4, FinishKeeps
<1>5. CASE nlen = 0 /\ Finish("Done") /\ UNCHANGED remaining
  <2>1. step' = "Idle" /\ outcome' = "Done" /\ used' = used
    BY <1>5 DEF Finish
  <2>2. TypeOK'
    BY <1>1, <1>5, <2>1 DEF IInv, TypeOK, fileVars, ccVars
  <2>3. NoTornMessage' /\ OutcomeReal'
    BY <1>1, <1>2, <1>5, <1>3 DEF NoTornMessage, OutcomeReal, Shows, fileVars
  <2> QED
    BY <1>1, <2>1, <2>2, <2>3 DEF IInv, StepOwner, Fresh, Early, WriteProgress, ReadProgress
<1>6. CASE nlen <= limit /\ Issue("Message") /\ remaining' = nlen
  <2>1. CASE used >= MaxExchanges
    BY <1>1, <1>2, <1>6, <2>1, FinishKeeps DEF Issue
  <2>2. CASE ~(used >= MaxExchanges)
    <3>1. step' = "Message" /\ used' = used + 1 /\ outcome' = outcome
      BY <1>6, <2>2 DEF Issue
    <3>2. TypeOK'
      BY <1>1, <1>2, <1>6, <3>1 DEF IInv, TypeOK, fileVars, ccVars
    <3>3. NoTornMessage'
      BY <1>1 DEF IInv, NoTornMessage, Shows, fileVars
    <3>4. ReadProgress'
      BY <1>1, <1>2, <1>6, <1>3 DEF ReadProgress, fileVars
    <3> QED
      BY <1>1, <3>1, <3>2, <3>3, <3>4
      DEF IInv, StepOwner, Fresh, Early, WriteProgress, OutcomeReal
  <2> QED  BY <2>1, <2>2
<1> QED
  BY <1>4, <1>5, <1>6 DEF ReadNlenDone

(* A chunk read extends the copy of the visible message.                   *)
LEMMA ReadChunkKeeps ==
  ASSUME IInv, ReadChunkDone
  PROVE  IInv'
<1> DEFINE want == Smaller(remaining, ReadChunk)
           page == [i \in 1 .. want |-> bytes[offset + i]]
<1>1. /\ step = "Message" /\ op = "read"
      /\ message' = message \o page
      /\ remaining' = remaining - want
      /\ offset' = offset + want
      /\ IF remaining = want THEN Finish("Done") ELSE Issue("Message")
      /\ UNCHANGED <<op, limit, ccVars, fileVars, requested>>
  BY DEF ReadChunkDone
<1>2. /\ Len(message) = offset /\ offset + remaining = nlen
      /\ \A i \in 1 .. offset : message[i] = bytes[i]
      /\ nlen' <= limit' /\ ValidCc' /\ limit' = MaxMessage'
  BY <1>1, CcKept DEF IInv, ReadProgress, ccVars, fileVars
<1>3. /\ message \in Seq(Byte) /\ offset \in Nat /\ remaining \in Nat
      /\ nlen \in Nat /\ nlen <= FileArea /\ FileArea \in Nat
      /\ bytes \in [1 .. FileArea -> Byte]
  BY NdefAssumption DEF IInv, TypeOK
<1>4. want \in Nat /\ want <= remaining
  BY <1>3, NdefAssumption DEF Smaller
<1> HIDE DEF want
<1>5. \A i \in 1 .. want : bytes[offset + i] \in Byte
  BY <1>2, <1>3, <1>4
<1>6. page \in Seq(Byte) /\ Len(page) = want
  <2>1. page \in [1 .. want -> Byte]
    BY <1>5
  <2> QED  BY <1>4, <2>1
<1>7. \A i \in 1 .. want : page[i] = bytes[offset + i]
  OBVIOUS
<1> HIDE DEF page
<1>8. /\ message' \in Seq(Byte)
      /\ Len(message') = offset + want
      /\ \A i \in 1 .. offset + want :
           message'[i] = IF i <= offset THEN message[i] ELSE page[i - offset]
  <2>1. message \o page \in Seq(Byte) /\ Len(message \o page) = Len(message) + Len(page)
    BY <1>3, <1>6
  <2>2. \A i \in 1 .. Len(message) + Len(page) :
          (message \o page)[i] = IF i <= Len(message) THEN message[i] ELSE page[i - Len(message)]
    BY <1>3, <1>6
  <2>3. message' = message \o page /\ Len(message) = offset /\ Len(page) = want
    BY <1>1, <1>2, <1>6
  <2> QED  BY <2>1, <2>2, <2>3
<1>9. \A i \in 1 .. offset + want : message'[i] = bytes[i]
  <2> TAKE i \in 1 .. offset + want
  <2>1. CASE i <= offset
    BY <1>2, <1>3, <1>4, <1>8, <2>1
  <2>2. CASE ~(i <= offset)
    <3>1. i - offset \in 1 .. want /\ offset + (i - offset) = i
      BY <1>3, <1>4, <2>2
    <3> QED  BY <1>7, <1>8, <2>2, <3>1
  <2> QED  BY <2>1, <2>2
<1>10. step' \in {"Idle", "Message"} /\ used' \in Nat /\ outcome' \in {"Done", "Budget", outcome}
       /\ (outcome' = "Done" /\ step' = "Idle" => remaining = want)
  <2>1. used \in Nat
    BY DEF IInv, TypeOK
  <2>2. CASE remaining = want
    BY <1>1, <2>1, <2>2 DEF Finish
  <2>3. CASE remaining # want /\ used >= MaxExchanges
    BY <1>1, <2>1, <2>3 DEF Finish, Issue
  <2>4. CASE remaining # want /\ ~(used >= MaxExchanges)
    <3>1. step' = "Message" /\ used' = used + 1 /\ outcome' = outcome
      BY <1>1, <2>4 DEF Issue
    <3> QED  BY <2>1, <3>1
  <2> QED  BY <2>2, <2>3, <2>4
<1>11. TypeOK'
  <2>1. outcome' \in {"none", "Done", "Status", "InvalidResponse", "LimitExceeded",
                      "SecurityStatusNotSatisfied", "Abandoned", "Budget"}
    BY <1>10 DEF IInv, TypeOK
  <2> QED
    BY <1>1, <1>3, <1>4, <1>8, <1>10, <2>1 DEF IInv, TypeOK, fileVars, ccVars
<1>12. ReadProgress'
  <2>1. offset' + remaining' = nlen'
    BY <1>1, <1>2, <1>3, <1>4 DEF fileVars
  <2>2. Len(message') = offset' /\ \A i \in 1 .. offset' : message'[i] = bytes'[i]
    BY <1>1, <1>8, <1>9 DEF fileVars
  <2> QED
    BY <1>2, <2>1, <2>2 DEF ReadProgress
<1>13. OutcomeReal'
  <2>1. offset + want = nlen => nlen' = Len(message') /\ \A i \in 1 .. nlen' : bytes'[i] = message'[i]
    BY <1>1, <1>8, <1>9 DEF fileVars
  <2>2. remaining = want => offset + want = nlen
    BY <1>2
  <2> QED
    BY <1>2, <1>10, <2>1, <2>2 DEF OutcomeReal, Shows
<1>14. NoTornMessage'
  BY <1>1 DEF IInv, NoTornMessage, Shows, fileVars
<1> QED
  BY <1>1, <1>10, <1>11, <1>12, <1>13, <1>14 DEF IInv, StepOwner, Fresh, Early, WriteProgress

(* Clearing the length hides the message.                                  *)
LEMMA ZeroLengthKeeps ==
  ASSUME IInv, ZeroLengthDone
  PROVE  IInv'
<1>1. /\ step = "ZeroLength" /\ op = "write" /\ offset = 0 /\ nlen' = 0
      /\ message \in requested /\ Len(message) <= FileArea
      /\ UNCHANGED <<op, message, offset, remaining, limit, bytes, fileSize, readOnly, pages, requested>>
  BY DEF ZeroLengthDone, IInv, StepOwner, Fresh, Early, WriteProgress, data, ccVars
<1>2. /\ step' \in {"Idle", "Message", "FinalLength"}
      /\ step' = "FinalLength" => message = <<>>
      /\ used' \in Nat
      /\ outcome' \in {outcome, "Budget"}
      /\ step' = "Idle" => outcome' = "Budget"
  <2>1. used \in Nat
    BY DEF IInv, TypeOK
  <2>2. CASE used >= MaxExchanges
    BY <2>1, <2>2 DEF ZeroLengthDone, Issue, Finish
  <2>3. CASE ~(used >= MaxExchanges)
    <3>1. /\ step' = (IF message = <<>> THEN "FinalLength" ELSE "Message")
          /\ used' = used + 1 /\ outcome' = outcome
      BY <2>3 DEF ZeroLengthDone, Issue
    <3> QED  BY <2>1, <3>1
  <2> QED  BY <2>2, <2>3
<1>3. TypeOK'
  <2>1. 0 \in 0 .. FileArea
    BY NdefAssumption
  <2> QED  BY <1>1, <1>2, <2>1 DEF IInv, TypeOK
<1>4. NoTornMessage'
  BY <1>1 DEF NoTornMessage
<1>5. WriteProgress'
  BY <1>1, <1>2, <1>3 DEF WriteProgress, TypeOK
<1> QED
  BY <1>1, <1>2, <1>3, <1>4, <1>5
  DEF IInv, StepOwner, Fresh, Early, ReadProgress, OutcomeReal

(* The chunks sent so far, and n bytes of the next one, are in place.      *)
LEMMA OverlayKeeps ==
  ASSUME IInv, step = "Message", op = "write", NEW n \in Nat, offset + n <= Len(message),
         bytes' = Overlay(n), UNCHANGED <<message, nlen>>
  PROVE  /\ nlen = 0
         /\ bytes' \in [1 .. FileArea -> Byte]
         /\ \A i \in 1 .. offset + n : bytes'[i] = message[i]
         /\ NoTornMessage'
<1>1. /\ nlen = 0 /\ Len(message) <= FileArea
      /\ \A i \in 1 .. offset : bytes[i] = message[i]
  BY DEF IInv, WriteProgress
<1>2. Len(message) \in Nat /\ offset \in Nat /\ FileArea \in Nat
  BY NdefAssumption DEF IInv, TypeOK
<1>3. /\ Overlay(n) \in [1 .. FileArea -> Byte]
      /\ \A i \in 1 .. FileArea :
           Overlay(n)[i] = IF offset < i /\ i <= offset + n THEN message[i] ELSE bytes[i]
  BY <1>1, OverlayType DEF IInv
<1>4. \A i \in 1 .. offset + n : bytes'[i] = message[i]
  <2> TAKE i \in 1 .. offset + n
  <2>1. i \in 1 .. FileArea
    BY <1>1, <1>2
  <2>2. CASE i <= offset
    BY <1>1, <1>2, <1>3, <2>1, <2>2
  <2>3. CASE ~(i <= offset)
    BY <1>2, <1>3, <2>1, <2>3
  <2> QED  BY <2>2, <2>3
<1> QED
  BY <1>1, <1>3, <1>4 DEF NoTornMessage

(* A chunk written extends the part in place.                              *)
LEMMA WriteChunkKeeps ==
  ASSUME IInv, WriteChunkDone
  PROVE  IInv'
<1>1. /\ step = "Message" /\ op = "write" /\ bytes' = Overlay(Take)
      /\ offset' = offset + Take
      /\ UNCHANGED <<op, message, remaining, limit, nlen, fileSize, readOnly, pages, requested>>
  BY DEF WriteChunkDone, ccVars
<1>2. /\ offset <= Len(message) /\ Len(message) <= FileArea /\ message \in requested
  BY <1>1 DEF IInv, WriteProgress
<1>3. Take \in Nat /\ offset + Take <= Len(message)
  BY <1>2, TakeBounds DEF IInv
<1> HIDE DEF Take
<1>4. /\ nlen = 0 /\ bytes' \in [1 .. FileArea -> Byte] /\ NoTornMessage'
      /\ \A i \in 1 .. offset + Take : bytes'[i] = message[i]
  BY <1>1, <1>3, OverlayKeeps
<1>5. /\ step' \in {"Idle", "Message", "FinalLength"}
      /\ step' = "FinalLength" => offset + Take = Len(message)
      /\ used' \in Nat
      /\ outcome' \in {outcome, "Budget"}
      /\ step' = "Idle" => outcome' = "Budget"
  <2>1. used \in Nat
    BY DEF IInv, TypeOK
  <2>2. CASE used >= MaxExchanges
    BY <2>1, <2>2 DEF WriteChunkDone, Issue, Finish
  <2>3. CASE ~(used >= MaxExchanges)
    <3>1. /\ step' = (IF offset + Take = Len(message) THEN "FinalLength" ELSE "Message")
          /\ used' = used + 1 /\ outcome' = outcome
      BY <2>3 DEF WriteChunkDone, Issue
    <3> QED  BY <2>1, <3>1
  <2> QED  BY <2>2, <2>3
<1>6. offset' \in Nat
  BY <1>1, <1>3 DEF IInv, TypeOK
<1>7. TypeOK'
  BY <1>1, <1>4, <1>5, <1>6 DEF IInv, TypeOK
<1>8. WriteProgress'
  BY <1>1, <1>2, <1>3, <1>4, <1>5 DEF WriteProgress
<1> QED
  BY <1>1, <1>4, <1>5, <1>7, <1>8
  DEF IInv, StepOwner, Fresh, Early, ReadProgress, OutcomeReal

(* The file shows the message once its length is written.                  *)
LEMMA FinalLengthKeeps ==
  ASSUME IInv, step = "FinalLength", NEW how \in {"Done", "Abandoned"}, Finish(how),
         nlen' = Len(message), UNCHANGED <<data, bytes, ccVars, requested>>
  PROVE  IInv'
<1>1. op = "write"
  BY DEF IInv, StepOwner
<1>2. /\ message \in requested /\ Len(message) <= FileArea
      /\ \A i \in 1 .. Len(message) : bytes[i] = message[i]
  BY <1>1 DEF IInv, WriteProgress
<1>3. step' = "Idle" /\ outcome' = how /\ used' = used
  BY DEF Finish
<1>4. UNCHANGED <<op, message, offset, remaining, limit, bytes, fileSize, readOnly, pages, requested>>
  BY DEF data, ccVars
<1>5. nlen' \in 0 .. FileArea
  BY <1>2, NdefAssumption DEF IInv, TypeOK
<1>6. TypeOK'
  BY <1>3, <1>4, <1>5 DEF IInv, TypeOK
<1>7. Shows(message)'
  BY <1>2, <1>4 DEF Shows
<1>8. NoTornMessage' /\ OutcomeReal'
  BY <1>1, <1>2, <1>4, <1>7 DEF NoTornMessage, OutcomeReal
<1>9. WriteProgress'
  BY <1>2, <1>3, <1>4 DEF WriteProgress
<1> QED
  BY <1>3, <1>6, <1>8, <1>9 DEF IInv, StepOwner, Fresh, Early, ReadProgress

(* An interruption, with its command executed in whole, in part or not,    *)
(* keeps the file whole.                                                   *)
LEMMA AbandonedKeeps ==
  ASSUME IInv, Abandoned
  PROVE  IInv'
<1>1. /\ Finish("Abandoned") /\ UNCHANGED <<data, ccVars, requested>>
  BY DEF Abandoned
<1>2. /\ step' = "Idle" /\ outcome' = "Abandoned" /\ used' = used
      /\ UNCHANGED <<op, message, offset, remaining, limit, fileSize, readOnly, pages, requested>>
  BY <1>1 DEF Finish, data, ccVars
<1>3. offset' \in Nat /\ remaining' \in Nat /\ limit' \in Nat
  BY <1>2 DEF IInv, TypeOK
<1>4. CASE UNCHANGED fileVars
  BY <1>1, <1>2, <1>3, <1>4, FinishKeeps DEF ccVars
<1>5. CASE step = "ZeroLength" /\ nlen' = 0 /\ UNCHANGED bytes
  <2>1. 0 \in 0 .. FileArea
    BY NdefAssumption
  <2>2. TypeOK'
    BY <1>2, <1>5, <2>1 DEF IInv, TypeOK
  <2>3. NoTornMessage'
    BY <1>5 DEF NoTornMessage
  <2>4. WriteProgress'
    BY <1>2 DEF IInv, WriteProgress
  <2> QED
    BY <1>2, <2>2, <2>3, <2>4 DEF IInv, StepOwner, Fresh, Early, ReadProgress, OutcomeReal
<1>6. CASE /\ step = "Message" /\ op = "write"
           /\ \E n \in 1 .. Take : bytes' = Overlay(n)
           /\ UNCHANGED nlen
  <2>1. offset <= Len(message)
    BY <1>6 DEF IInv, WriteProgress
  <2>2. Take \in Nat /\ offset + Take <= Len(message) /\ offset \in Nat /\ Len(message) \in Nat
    BY <2>1, TakeBounds DEF IInv, TypeOK
  <2>3. PICK n \in 1 .. Take : bytes' = Overlay(n)
    BY <1>6
  <2>4. n \in Nat /\ offset + n <= Len(message)
    BY <2>2
  <2>5. nlen = 0 /\ bytes' \in [1 .. FileArea -> Byte] /\ NoTornMessage'
    BY <1>2, <1>6, <2>3, <2>4, OverlayKeeps
  <2>6. TypeOK'
    BY <1>2, <1>6, <2>5 DEF IInv, TypeOK
  <2>7. WriteProgress'
    BY <1>2 DEF IInv, WriteProgress
  <2> QED
    BY <1>2, <2>5, <2>6, <2>7 DEF IInv, StepOwner, Fresh, Early, ReadProgress, OutcomeReal
<1>7. CASE step = "FinalLength" /\ nlen' = Len(message) /\ UNCHANGED bytes
  BY <1>1, <1>7, FinalLengthKeeps
<1> QED
  BY <1>4, <1>5, <1>6, <1>7 DEF Abandoned

(* A write that passes the CC check fits the file.                         *)
LEMMA ReadCcKeeps ==
  ASSUME IInv, ReadCcDone
  PROVE  IInv'
<1>1. /\ step = "ReadCc" /\ step \in Early
      /\ UNCHANGED <<op, message, offset, remaining, ccVars, fileVars, requested>>
  BY DEF ReadCcDone, Early
<1>2. offset' \in Nat /\ remaining' \in Nat /\ limit \in Nat
  BY <1>1 DEF IInv, TypeOK
<1>3. ASSUME NEW how \in {"InvalidResponse", "SecurityStatusNotSatisfied", "LimitExceeded"},
             Finish(how), UNCHANGED limit
      PROVE  IInv'
  BY <1>1, <1>2, <1>3, FinishKeeps
<1>4. CASE op = "capability" /\ Finish("Done") /\ UNCHANGED limit
  <2>1. step' = "Idle" /\ outcome' = "Done" /\ used' = used /\ op' = op
    BY <1>1, <1>4 DEF Finish
  <2>2. TypeOK'
    BY <1>1, <1>4, <2>1 DEF IInv, TypeOK, fileVars, ccVars
  <2>3. NoTornMessage'
    BY <1>1 DEF IInv, NoTornMessage, Shows, fileVars
  <2> QED
    BY <1>4, <2>1, <2>2, <2>3
    DEF IInv, StepOwner, Fresh, Early, WriteProgress, ReadProgress, OutcomeReal
<1>5. MaxMessage \in Int /\ MaxMessage <= FileArea /\ (ValidCc => MaxMessage \in Nat)
  BY NdefAssumption DEF IInv, TypeOK, MaxMessage, Smaller, ValidCc
<1>6. "SelectNdef" \in Early \ {"SelectApplet"}
  BY DEF Early
<1>7. CASE ValidCc /\ op = "read" /\ Issue("SelectNdef") /\ limit' = MaxMessage
  BY <1>1, <1>5, <1>6, <1>7, EarlyKeeps
<1>8. CASE ValidCc /\ op = "write" /\ Len(message) <= MaxMessage
           /\ Issue("SelectNdef") /\ UNCHANGED limit
  <2>1. Len(message) <= FileArea
    BY <1>5, <1>8, NdefAssumption DEF IInv, TypeOK
  <2> QED
    BY <1>1, <1>2, <1>6, <1>8, <2>1, EarlyKeeps
<1> QED
  BY <1>3, <1>4, <1>7, <1>8 DEF ReadCcDone

(* Every step keeps the inductive invariant.                               *)
LEMMA NextIInv == IInv /\ [Next]_vars => IInv'
<1> SUFFICES ASSUME IInv, [Next]_vars PROVE IInv'
  OBVIOUS
<1>1. CASE ReadCapability \/ ReadMessage
  <2>1. <<>> \in Seq(Byte)
    OBVIOUS
  <2>2. CASE ReadCapability
    BY <2>1, <2>2, BeginKeeps DEF ReadCapability
  <2>3. CASE ReadMessage
    BY <2>1, <2>3, BeginKeeps DEF ReadMessage
  <2> QED  BY <1>1, <2>2, <2>3
<1>2. ASSUME NEW m \in Messages, WriteMessage(m) PROVE IInv'
  <2>1. m \in Seq(Byte)
    BY NdefAssumption
  <2> QED
    BY <1>2, <2>1, BeginKeeps DEF WriteMessage
<1>3. CASE SelectDone
  <2>1. /\ step \in {"SelectApplet", "SelectCc"} /\ step \in Early
        /\ {"SelectCc", "ReadCc"} \subseteq Early \ {"SelectApplet"}
    BY <1>3 DEF SelectDone, Early
  <2>2. /\ UNCHANGED <<op, message, offset, remaining, fileVars, ccVars, requested>>
        /\ limit' \in Nat
    BY <1>3 DEF SelectDone, data, IInv, TypeOK
  <2>3. CASE Issue("SelectCc")
    BY <2>1, <2>2, <2>3, EarlyKeeps
  <2>4. CASE Issue("ReadCc")
    BY <2>1, <2>2, <2>4, EarlyKeeps
  <2> QED
    BY <1>3, <2>3, <2>4 DEF SelectDone
<1>4. CASE ReadCcDone
  BY <1>4, ReadCcKeeps
<1>5. CASE SelectNdefDone
  <2>1. /\ step = "SelectNdef" /\ step \in Early /\ op \in {"read", "write"}
        /\ {"ReadNlen", "ZeroLength"} \subseteq Early \ {"SelectApplet"}
    BY <1>5 DEF SelectNdefDone, Early, IInv, StepOwner
  <2>2. /\ UNCHANGED <<op, message, offset, remaining, fileVars, ccVars, requested>>
        /\ limit' \in Nat
    BY <1>5 DEF SelectNdefDone, data, IInv, TypeOK
  <2>3. op = "write" => Len(message) <= FileArea
    BY <2>1 DEF IInv, WriteProgress
  <2>4. CASE op = "read"
    <3>1. Issue("ReadNlen")
      BY <1>5, <2>4 DEF SelectNdefDone
    <3>2. ValidCc /\ limit' = MaxMessage
      BY <1>5, <2>1, <2>4 DEF IInv, ReadProgress, SelectNdefDone, data
    <3> QED
      BY <2>1, <2>2, <2>4, <3>1, <3>2, EarlyKeeps
  <2>5. CASE op = "write"
    <3>1. Issue("ZeroLength")
      BY <1>5, <2>5 DEF SelectNdefDone
    <3> QED
      BY <2>1, <2>2, <2>3, <2>5, <3>1, EarlyKeeps
  <2> QED
    BY <2>1, <2>4, <2>5
<1>6. CASE ReadNlenDone
  BY <1>6, NlenDoneKeeps
<1>7. CASE ReadChunkDone
  BY <1>7, ReadChunkKeeps
<1>8. CASE ZeroLengthDone
  BY <1>8, ZeroLengthKeeps
<1>9. CASE WriteChunkDone
  BY <1>9, WriteChunkKeeps
<1>10. CASE FinalLengthDone
  BY <1>10, FinalLengthKeeps DEF FinalLengthDone
<1>11. CASE Refused
  <2>1. /\ UNCHANGED <<op, message, fileVars, ccVars, requested>>
        /\ offset' \in Nat /\ remaining' \in Nat /\ limit' \in Nat
    BY <1>11 DEF Refused, data, IInv, TypeOK
  <2> QED
    BY <1>11, <2>1, FinishKeeps DEF Refused
<1>12. CASE Abandoned
  BY <1>12, AbandonedKeeps
<1>13. CASE ToggleReadOnly
  <2>1. /\ step = "Idle" /\ readOnly' = ~readOnly
        /\ UNCHANGED <<step, used, outcome, op, message, offset, remaining, limit,
                       fileSize, pages, nlen, bytes, requested>>
    BY <1>13 DEF ToggleReadOnly, data, fileVars
  <2>2. TypeOK'
    BY <2>1 DEF IInv, TypeOK
  <2> QED
    BY <2>1, <2>2, CcKept
    DEF IInv, StepOwner, Fresh, Early, WriteProgress, ReadProgress, NoTornMessage,
        OutcomeReal, Shows
<1>14. CASE UNCHANGED vars
  BY <1>14, CcKept
  DEF vars, data, ccVars, fileVars, IInv, TypeOK, StepOwner, Fresh, WriteProgress,
      ReadProgress, NoTornMessage, OutcomeReal, Shows
<1>15. CASE Paged
  <2>1. UNCHANGED <<op, message, offset, remaining, limit, fileSize, readOnly, pages, nlen, bytes,
                    requested>>
    BY <1>15 DEF Paged, data, ccVars, fileVars
  <2>2. CASE used >= MaxExchanges
    <3>1. /\ Finish("Budget") /\ UNCHANGED <<fileVars, ccVars>>
          /\ offset' \in Nat /\ remaining' \in Nat /\ limit' \in Nat
      BY <1>15, <2>1, <2>2 DEF Paged, Issue, fileVars, ccVars, IInv, TypeOK
    <3> QED
      BY <2>1, <3>1, FinishKeeps
  <2>3. CASE ~(used >= MaxExchanges)
    <3>1. step' = step /\ used' = used + 1 /\ outcome' = outcome
      BY <1>15, <2>3 DEF Paged, Issue
    <3>2. TypeOK'
      BY <2>1, <3>1 DEF IInv, TypeOK
    <3> QED
      BY <2>1, <3>1, <3>2, CcKept
      DEF IInv, StepOwner, Fresh, WriteProgress, ReadProgress, NoTornMessage, OutcomeReal, Shows
  <2> QED
    BY <2>2, <2>3
<1> QED
  BY <1>1, <1>2, <1>3, <1>4, <1>5, <1>6, <1>7, <1>8, <1>9, <1>10, <1>11, <1>12, <1>13,
     <1>14, <1>15 DEF Next

(* The inductive invariant holds of every behaviour.                       *)
LEMMA InvariantIInv == Spec => []IInv
  BY InitIInv, NextIInv, PTL DEF Spec

(* write_message is crash consistent on every file and every channel.      *)
THEOREM CrashConsistency == Spec => []NoTornMessage
  BY InvariantIInv, PTL DEF IInv

(* A completed read returned, and a completed write left, the visible      *)
(* message.                                                                *)
THEOREM OutcomesAreReal == Spec => []OutcomeReal
  BY InvariantIInv, PTL DEF IInv

-----------------------------------------------------------------------------
(* The budget                                                              *)

(* What a run still issues after READ CC.                                  *)
Body ==
  IF op = "capability" THEN 0
  ELSE IF op = "read" THEN 2 + Chunks(MaxMessageLength, ReadChunk)
  ELSE 3 + Chunks(Len(message), WriteChunk)

(* The budget covers what is left of the run.                              *)
Enough ==
  /\ step = "SelectApplet" => used + 2 + Body <= MaxExchanges
  /\ step = "SelectCc" => used + 1 + Body <= MaxExchanges
  /\ step = "ReadCc" => used + Body <= MaxExchanges
  /\ step = "SelectNdef" => used + Body <= MaxExchanges + 1
  /\ step \in {"ReadNlen", "ZeroLength"} => used + Body <= MaxExchanges + 2
  /\ step = "Message" /\ op = "read" =>
       remaining > 0 /\ used + Chunks(remaining, ReadChunk) <= MaxExchanges + 1
  /\ step = "Message" /\ op = "write" =>
       /\ offset < Len(message)
       /\ used + Chunks(Len(message) - offset, WriteChunk) <= MaxExchanges

BInv == limit <= MaxMessageLength /\ (~pages => Enough /\ outcome # "Budget")

(* A quotient is bounded by its remainder.                                 *)
LEMMA Quotient ==
  ASSUME NEW n \in Nat, NEW c \in Nat, c # 0
  PROVE  /\ Chunks(n, c) \in Nat
         /\ c * Chunks(n, c) <= n + c - 1 /\ n + c - 1 < c * Chunks(n, c) + c
<1> DEFINE q == (n + c - 1) \div c
           r == (n + c - 1) % c
<1>1. n + c - 1 = c * q + r /\ r \in 0 .. c - 1 /\ q \in Int
  BY SMT
<1>2. q \in Nat
  BY SMT
<1>3. PICK p : p = c * q
  OBVIOUS
<1> HIDE DEF q, r
<1>4. n + c - 1 = p + r /\ p \in Int
  BY <1>1, <1>3, SMT
<1>5. p <= n + c - 1 /\ n + c - 1 < p + c
  BY <1>1, <1>4, SMT
<1> QED
  BY <1>2, <1>3, <1>5 DEF q, Chunks

(* Products grow with their factor.                                        *)
LEMMA Product ==
  ASSUME NEW c \in Nat, NEW p \in Nat, NEW q \in Nat, p < q
  PROVE  c * p + c <= c * q /\ c * (p + 1) = c * p + c /\ c * p \in Nat
<1>1. q - p - 1 \in Nat
  OBVIOUS
<1>2. c * (q - p - 1) \in Nat /\ c * p \in Nat
  BY <1>1, SMT
<1>3. c * q = c * (q - p - 1) + (c * p + c) /\ c * (p + 1) = c * p + c
  BY SMT
<1> QED
  BY <1>2, <1>3, SMT

(* Fewer bytes need no more chunks.                                        *)
LEMMA ChunksMonotone ==
  ASSUME NEW n \in Nat, NEW m \in Nat, n <= m, NEW c \in Nat, c # 0
  PROVE  Chunks(n, c) <= Chunks(m, c)
<1>1. PICK p, q : p = Chunks(n, c) /\ q = Chunks(m, c)
  OBVIOUS
<1>2. p \in Nat /\ c * p <= n + c - 1
  BY <1>1, Quotient
<1>3. q \in Nat /\ m + c - 1 < c * q + c
  BY <1>1, Quotient
<1>4. SUFFICES ASSUME q < p PROVE FALSE
  BY <1>1, <1>2, <1>3
<1>5. c * q + c <= c * p /\ c * q \in Nat
  BY <1>2, <1>3, <1>4, Product
<1>6. PICK x, y : x = c * p /\ y = c * q
  OBVIOUS
<1>7. x <= n + c - 1 /\ m + c - 1 < y + c /\ y + c <= x /\ y \in Nat
  BY <1>2, <1>3, <1>5, <1>6
<1>8. x \in Int
  BY <1>2, <1>6
<1> QED
  BY ONLY <1>7, <1>8, n \in Nat, m \in Nat, n <= m, c \in Nat

(* A chunk less to transfer needs one command less.                        *)
LEMMA ChunksStep ==
  ASSUME NEW n \in Nat, NEW c \in Nat, c # 0, c < n
  PROVE  Chunks(n - c, c) = Chunks(n, c) - 1
<1>1. PICK p, q, m : m = n - c /\ p = Chunks(m, c) /\ q = Chunks(n, c)
  OBVIOUS
<1>2. m \in Nat
  BY <1>1
<1>3. p \in Nat /\ c * p <= m + c - 1 /\ m + c - 1 < c * p + c
  BY <1>1, <1>2, Quotient
<1>4. q \in Nat /\ c * q <= n + c - 1 /\ n + c - 1 < c * q + c
  BY <1>1, Quotient
<1>5. PICK x, y : x = c * p /\ y = c * q
  OBVIOUS
<1>6. x \in Int /\ y \in Int
  BY <1>3, <1>4, <1>5
<1>7. /\ x <= m + c - 1 /\ m + c - 1 < x + c /\ y <= n + c - 1 /\ n + c - 1 < y + c
      /\ m = n - c
  BY <1>1, <1>3, <1>4, <1>5
<1>8. ~(p + 1 < q)
  <2> SUFFICES ASSUME p + 1 < q PROVE FALSE
    OBVIOUS
  <2>1. p + 1 \in Nat /\ p < p + 1
    BY <1>3
  <2>2. c * (p + 1) + c <= c * q
    BY <1>4, <2>1, Product
  <2>3. c * (p + 1) = c * p + c
    BY <1>3, <2>1, Product
  <2>4. (x + c) + c <= y
    BY <1>5, <2>2, <2>3
  <2> QED  BY ONLY <1>6, <1>7, <2>4, n \in Nat, c \in Nat, m \in Nat, <1>2
<1>9. ~(q < p + 1)
  <2> SUFFICES ASSUME q < p + 1 PROVE FALSE
    OBVIOUS
  <2>1. q = p \/ q < p
    BY <1>3, <1>4
  <2>2. y <= x
    <3>1. CASE q = p
      BY <1>5, <1>6, <3>1
    <3>2. CASE q < p
      <4>1. c * q + c <= c * p
        BY <1>3, <1>4, <3>2, Product
      <4>2. y + c <= x
        BY <1>5, <4>1
      <4> QED  BY ONLY <1>6, <4>2, c \in Nat
    <3> QED  BY <2>1, <3>1, <3>2
  <2> QED  BY ONLY <1>2, <1>6, <1>7, <2>2, n \in Nat, c \in Nat, c # 0
<1>10. p = q - 1
  BY ONLY <1>3, <1>4, <1>8, <1>9
<1> QED
  BY <1>1, <1>10

LEMMA ChunksPositive ==
  ASSUME NEW n \in Nat, NEW c \in Nat, c # 0, n # 0
  PROVE  Chunks(n, c) >= 1
<1>1. PICK q : q = Chunks(n, c)
  OBVIOUS
<1>2. q \in Nat /\ n + c - 1 < c * q + c
  BY <1>1, Quotient
<1>3. q # 0
  <2> SUFFICES ASSUME q = 0 PROVE FALSE
    OBVIOUS
  <2>1. c * q = 0
    BY SMT
  <2>2. n + c - 1 < 0 + c
    BY <1>2, <2>1
  <2> QED  BY ONLY <2>2, n \in Nat, c \in Nat, n # 0
<1> QED
  BY <1>1, <1>2, <1>3

LEMMA BodyType ==
  ASSUME TypeOK
  PROVE  /\ Body \in Nat /\ used \in Nat /\ MaxExchanges \in Nat
         /\ op = "read" => Body = 2 + Chunks(MaxMessageLength, ReadChunk)
         /\ op = "write" => Body = 3 + Chunks(Len(message), WriteChunk)
<1>1. Len(message) \in Nat /\ used \in Nat /\ MaxExchanges \in Nat
  BY NdefAssumption DEF TypeOK
<1>2. Chunks(MaxMessageLength, ReadChunk) \in Nat /\ Chunks(Len(message), WriteChunk) \in Nat
  BY <1>1, Quotient, NdefAssumption
<1> QED
  BY <1>1, <1>2 DEF Body

(* A command that the budget covers is issued.                             *)
LEMMA Afforded ==
  ASSUME NEW next, Issue(next), used \in Nat, NEW n \in Nat, n >= 1, used + n <= MaxExchanges
  PROVE  step' = next /\ used' = used + 1 /\ outcome' = outcome
<1>1. ~(used >= MaxExchanges)
  BY NdefAssumption
<1> QED
  BY <1>1 DEF Issue

LEMMA EndEnough ==
  ASSUME BInv, ~pages, NEW how, Finish(how), how # "Budget", UNCHANGED <<pages, limit>>
  PROVE  BInv'
BY DEF BInv, Enough, Finish

LEMMA BeginEnough ==
  ASSUME NEW kind \in {"capability", "read", "write"}, NEW m \in Seq(Byte), NEW n \in Nat,
         Begin(kind, m, n),
         kind = "capability" => n = 3,
         kind = "read" => n = 5 + Chunks(MaxMessageLength, ReadChunk),
         kind = "write" => n = 6 + Chunks(Len(m), WriteChunk)
  PROVE  BInv'
<1>1. /\ op' = kind /\ step' = "SelectApplet" /\ message' = m /\ limit' = MaxMessageLength
      /\ used' = 1 /\ outcome' = "none" /\ n <= MaxExchanges
  BY DEF Begin
<1>2. Len(m) \in Nat /\ MaxExchanges \in Nat /\ MaxMessageLength \in Nat
  BY NdefAssumption
<1>3. Chunks(MaxMessageLength, ReadChunk) \in Nat /\ Chunks(Len(m), WriteChunk) \in Nat
  BY <1>2, Quotient, NdefAssumption
<1>4. Body' = IF kind = "capability" THEN 0
              ELSE IF kind = "read" THEN 2 + Chunks(MaxMessageLength, ReadChunk)
              ELSE 3 + Chunks(Len(m), WriteChunk)
  BY <1>1 DEF Body
<1>5. PICK b, x, y : /\ b = Body' /\ x = Chunks(MaxMessageLength, ReadChunk)
                     /\ y = Chunks(Len(m), WriteChunk)
  OBVIOUS
<1>6. 3 + b = n
  BY <1>3, <1>4, <1>5
<1>7. 1 + 2 + b <= MaxExchanges
  BY <1>1, <1>2, <1>3, <1>4, <1>5, <1>6
<1>8. Enough'
  BY <1>1, <1>5, <1>7 DEF Enough
<1> QED
  BY <1>1, <1>2, <1>8 DEF BInv

LEMMA EarlyEnough ==
  ASSUME IInv, BInv, ~pages, SelectDone \/ SelectNdefDone
  PROVE  BInv'
<1>1. /\ UNCHANGED <<op, message, offset, remaining, limit, pages>>
  BY DEF SelectDone, SelectNdefDone, data, ccVars
<1>2. /\ Body' = Body /\ Body \in Nat /\ used \in Nat /\ MaxExchanges \in Nat
      /\ (op = "read" \/ op = "write" => Body >= 2)
  <2>1. Body' = Body
    BY <1>1 DEF Body
  <2>2. Chunks(MaxMessageLength, ReadChunk) \in Nat /\ Chunks(Len(message), WriteChunk) \in Nat
    <3>1. Len(message) \in Nat
      BY DEF IInv, TypeOK
    <3> QED  BY <3>1, Quotient, NdefAssumption
  <2> QED  BY <2>1, <2>2, BodyType DEF IInv
<1>3. limit' <= MaxMessageLength /\ ~pages'
  BY <1>1 DEF BInv
<1>4. CASE step = "SelectApplet"
  <2>1. Issue("SelectCc") /\ used + 2 + Body <= MaxExchanges
    BY <1>4 DEF SelectDone, SelectNdefDone, BInv, Enough
  <2>2. step' = "SelectCc" /\ used' = used + 1 /\ outcome' = outcome
    <3>1. 2 + Body \in Nat /\ 2 + Body >= 1 /\ used + (2 + Body) <= MaxExchanges
      BY <1>2, <2>1
    <3> QED  BY <1>2, <2>1, <3>1, Afforded
  <2> QED  BY <1>2, <1>3, <2>1, <2>2 DEF BInv, Enough
<1>5. CASE step = "SelectCc"
  <2>1. Issue("ReadCc") /\ used + 1 + Body <= MaxExchanges
    BY <1>5 DEF SelectDone, SelectNdefDone, BInv, Enough
  <2>2. step' = "ReadCc" /\ used' = used + 1 /\ outcome' = outcome
    <3>1. 1 + Body \in Nat /\ 1 + Body >= 1 /\ used + (1 + Body) <= MaxExchanges
      BY <1>2, <2>1
    <3> QED  BY <1>2, <2>1, <3>1, Afforded
  <2> QED  BY <1>2, <1>3, <2>1, <2>2 DEF BInv, Enough
<1>6. CASE step = "SelectNdef"
  <2>0. op \in {"read", "write"}
    BY <1>6 DEF IInv, StepOwner
  <2>1. /\ Issue(IF op = "read" THEN "ReadNlen" ELSE "ZeroLength")
        /\ used + Body <= MaxExchanges + 1
    BY <1>6 DEF SelectDone, SelectNdefDone, BInv, Enough
  <2>2. /\ step' = (IF op = "read" THEN "ReadNlen" ELSE "ZeroLength")
        /\ used' = used + 1 /\ outcome' = outcome
    <3>1. 1 \in Nat /\ 1 >= 1 /\ used + 1 <= MaxExchanges
      BY <1>2, <2>0, <2>1
    <3> QED  BY <1>2, <2>1, <3>1, Afforded
  <2>3. step' \in {"ReadNlen", "ZeroLength"}
    BY <2>2
  <2> QED  BY <1>2, <1>3, <2>1, <2>2, <2>3 DEF BInv, Enough
<1> QED
  BY <1>4, <1>5, <1>6 DEF SelectDone, SelectNdefDone

LEMMA ReadCcEnough ==
  ASSUME IInv, BInv, ~pages, ReadCcDone
  PROVE  BInv'
<1>1. step = "ReadCc" /\ UNCHANGED <<op, message, offset, remaining, pages>>
  BY DEF ReadCcDone, ccVars
<1>2. ~pages' /\ Body' = Body /\ used + Body <= MaxExchanges
  BY <1>1 DEF BInv, Enough, Body
<1>3. \/ Issue("SelectNdef") /\ op \in {"read", "write"} /\ limit' \in {limit, MaxMessage}
      \/ /\ limit' = limit
         /\ \E how \in {"InvalidResponse", "Done", "SecurityStatusNotSatisfied", "LimitExceeded"} :
              Finish(how)
  BY Zenon DEF ReadCcDone
<1>4. CASE Issue("SelectNdef") /\ op \in {"read", "write"} /\ limit' \in {limit, MaxMessage}
  <2>1. limit' <= MaxMessageLength
    <3>1. fileSize - 2 \in Int /\ MaxMessageLength \in Nat
      BY NdefAssumption DEF IInv, TypeOK
    <3>2. MaxMessage <= MaxMessageLength
      BY <3>1 DEF MaxMessage, Smaller
    <3> QED  BY <1>4, <3>2 DEF BInv
  <2>2. Body \in Nat /\ Body >= 1 /\ used \in Nat /\ MaxExchanges \in Nat
    <3>1. Chunks(MaxMessageLength, ReadChunk) \in Nat /\ Chunks(Len(message), WriteChunk) \in Nat
      <4>1. Len(message) \in Nat
        BY DEF IInv, TypeOK
      <4> QED  BY <4>1, Quotient, NdefAssumption
    <3> QED  BY <1>4, <3>1, BodyType DEF IInv
  <2>3. step' = "SelectNdef" /\ used' = used + 1 /\ outcome' = outcome
    BY <1>2, <1>4, <2>2, Afforded
  <2> QED  BY <1>2, <2>1, <2>2, <2>3 DEF BInv, Enough
<1>5. CASE /\ limit' = limit
           /\ \E how \in {"InvalidResponse", "Done", "SecurityStatusNotSatisfied", "LimitExceeded"} :
                Finish(how)
  BY <1>1, <1>5, EndEnough
<1> QED
  BY <1>3, <1>4, <1>5

LEMMA ReadNlenEnough ==
  ASSUME IInv, BInv, ~pages, ReadNlenDone
  PROVE  BInv'
<1>1. /\ step = "ReadNlen" /\ op = "read" /\ UNCHANGED <<op, message, offset, limit, pages>>
  BY DEF ReadNlenDone, ccVars, IInv, StepOwner
<1>2. \/ Finish("InvalidResponse") \/ Finish("Done")
      \/ 0 < nlen /\ nlen <= limit /\ Issue("Message") /\ remaining' = nlen
  BY DEF ReadNlenDone
<1>3. CASE Finish("InvalidResponse") \/ Finish("Done")
  BY <1>1, <1>3, EndEnough
<1>4. CASE 0 < nlen /\ nlen <= limit /\ Issue("Message") /\ remaining' = nlen
  <2>1. /\ nlen \in Nat /\ limit \in Nat /\ limit <= MaxMessageLength /\ MaxMessageLength \in Nat
        /\ ReadChunk \in Nat /\ ReadChunk # 0 /\ used \in Nat /\ MaxExchanges \in Nat
    BY NdefAssumption DEF IInv, TypeOK, BInv
  <2>2. PICK x, y : x = Chunks(nlen, ReadChunk) /\ y = Chunks(MaxMessageLength, ReadChunk)
    OBVIOUS
  <2>3. nlen <= MaxMessageLength /\ nlen # 0
    BY <1>4, <2>1
  <2>4. x \in Nat /\ y \in Nat
    BY <2>1, <2>2, Quotient
  <2>5. x <= y
    BY <2>1, <2>2, <2>3, ChunksMonotone
  <2>6. x >= 1
    BY <2>1, <2>2, <2>3, ChunksPositive
  <2>7. used + (2 + y) <= MaxExchanges + 2
    BY <1>1, <2>2 DEF BInv, Enough, Body
  <2>8. used + x <= MaxExchanges
    BY <2>1, <2>4, <2>5, <2>7
  <2>9. step' = "Message" /\ used' = used + 1 /\ outcome' = outcome
    BY <1>4, <2>1, <2>4, <2>6, <2>8, Afforded
  <2>10. used' + Chunks(remaining', ReadChunk) <= MaxExchanges + 1 /\ remaining' > 0
    BY <1>4, <2>1, <2>2, <2>4, <2>8, <2>9
  <2> QED  BY <1>1, <2>9, <2>10 DEF BInv, Enough
<1> QED
  BY <1>2, <1>3, <1>4

LEMMA ReadChunkEnough ==
  ASSUME IInv, BInv, ~pages, ReadChunkDone
  PROVE  BInv'
<1>1. PICK want : want = Smaller(remaining, ReadChunk)
  OBVIOUS
<1>2. /\ step = "Message" /\ op = "read" /\ remaining' = remaining - want
      /\ IF remaining = want THEN Finish("Done") ELSE Issue("Message")
      /\ UNCHANGED <<op, limit, pages>>
  BY <1>1 DEF ReadChunkDone, ccVars
<1>3. CASE remaining = want
  BY <1>2, <1>3, EndEnough
<1>4. CASE remaining # want
  <2>1. /\ remaining \in Nat /\ ReadChunk \in Nat /\ ReadChunk # 0 /\ used \in Nat
        /\ MaxExchanges \in Nat
    BY NdefAssumption DEF IInv, TypeOK
  <2>2. want = ReadChunk /\ ReadChunk < remaining
    BY <1>1, <1>4, <2>1 DEF Smaller
  <2>3. PICK x, y : x = Chunks(remaining, ReadChunk) /\ y = Chunks(remaining - ReadChunk, ReadChunk)
    OBVIOUS
  <2>4. y = x - 1
    BY <2>1, <2>2, <2>3, ChunksStep
  <2>5. remaining - ReadChunk \in Nat /\ remaining - ReadChunk # 0
    BY <2>1, <2>2
  <2>6. y >= 1
    BY <2>1, <2>3, <2>5, ChunksPositive
  <2>7. x \in Nat
    BY <2>1, <2>3, Quotient
  <2>8. used + x <= MaxExchanges + 1
    BY <1>2, <2>3 DEF BInv, Enough
  <2>9. y \in Nat /\ used + y <= MaxExchanges
    BY <2>1, <2>4, <2>6, <2>7, <2>8
  <2>10. Issue("Message")
    BY <1>2, <1>4
  <2>11. step' = "Message" /\ used' = used + 1 /\ outcome' = outcome
    BY <2>1, <2>6, <2>9, <2>10, Afforded
  <2>12. remaining' = remaining - ReadChunk
    BY <1>2, <2>2
  <2>13. used' + Chunks(remaining', ReadChunk) <= MaxExchanges + 1 /\ remaining' > 0
    BY <2>1, <2>3, <2>5, <2>9, <2>11, <2>12
  <2> QED  BY <1>2, <2>11, <2>13 DEF BInv, Enough
<1> QED
  BY <1>3, <1>4

LEMMA ZeroLengthEnough ==
  ASSUME IInv, BInv, ~pages, ZeroLengthDone
  PROVE  BInv'
<1>1. /\ step = "ZeroLength" /\ op = "write" /\ offset = 0
      /\ Issue(IF message = <<>> THEN "FinalLength" ELSE "Message")
      /\ UNCHANGED <<op, message, offset, limit, pages>>
  BY DEF ZeroLengthDone, ccVars, data, IInv, StepOwner, Fresh, Early
<1>2. /\ message \in Seq(Byte) /\ Len(message) \in Nat /\ used \in Nat /\ MaxExchanges \in Nat
      /\ WriteChunk \in Nat /\ WriteChunk # 0
  BY NdefAssumption DEF IInv, TypeOK
<1>3. PICK x : x = Chunks(Len(message), WriteChunk)
  OBVIOUS
<1>4. x \in Nat
  BY <1>2, <1>3, Quotient
<1>5. used + (3 + x) <= MaxExchanges + 2
  BY <1>1, <1>3 DEF BInv, Enough, Body
<1>6. used + 1 <= MaxExchanges /\ used + 1 + x <= MaxExchanges
  BY <1>2, <1>4, <1>5
<1>7. /\ step' = (IF message = <<>> THEN "FinalLength" ELSE "Message")
      /\ used' = used + 1 /\ outcome' = outcome
  BY <1>1, <1>2, <1>6, Afforded
<1>8. CASE message = <<>>
  BY <1>1, <1>7, <1>8 DEF BInv, Enough
<1>9. CASE message # <<>>
  <2>1. 0 < Len(message) /\ Len(message) - 0 = Len(message)
    BY <1>2, <1>9
  <2>2. offset' < Len(message') /\ used' + Chunks(Len(message') - offset', WriteChunk) <= MaxExchanges
    BY <1>1, <1>3, <1>6, <1>7, <2>1
  <2> QED  BY <1>1, <1>7, <1>9, <2>2 DEF BInv, Enough
<1> QED
  BY <1>8, <1>9

LEMMA WriteChunkEnough ==
  ASSUME IInv, BInv, ~pages, WriteChunkDone
  PROVE  BInv'
<1>1. /\ step = "Message" /\ op = "write" /\ offset' = offset + Take
      /\ Issue(IF offset + Take = Len(message) THEN "FinalLength" ELSE "Message")
      /\ UNCHANGED <<op, message, limit, pages>>
  BY DEF WriteChunkDone, ccVars
<1>2. /\ message \in Seq(Byte) /\ Len(message) \in Nat /\ used \in Nat /\ MaxExchanges \in Nat
      /\ WriteChunk \in Nat /\ WriteChunk # 0 /\ offset \in Nat
  BY NdefAssumption DEF IInv, TypeOK
<1>3. PICK n, x : n = Len(message) - offset /\ x = Chunks(n, WriteChunk)
  OBVIOUS
<1>4. offset < Len(message) /\ used + x <= MaxExchanges
  BY <1>1, <1>3 DEF BInv, Enough
<1>5. n \in Nat /\ n # 0
  BY <1>2, <1>3, <1>4
<1>6. x \in Nat /\ x >= 1
  BY <1>2, <1>3, <1>5, Quotient, ChunksPositive
<1>7. /\ step' = (IF offset + Take = Len(message) THEN "FinalLength" ELSE "Message")
      /\ used' = used + 1 /\ outcome' = outcome
  BY <1>1, <1>2, <1>4, <1>6, Afforded
<1>8. CASE offset + Take = Len(message)
  BY <1>1, <1>7, <1>8 DEF BInv, Enough
<1>9. CASE offset + Take # Len(message)
  <2>1. Take = WriteChunk /\ WriteChunk < n
    BY <1>2, <1>3, <1>4, <1>9 DEF Take, Smaller
  <2>2. Chunks(n - WriteChunk, WriteChunk) = x - 1
    BY <1>2, <1>3, <1>5, <2>1, ChunksStep
  <2>3. Len(message') - offset' = n - WriteChunk /\ offset' < Len(message')
    BY <1>1, <1>2, <1>3, <2>1
  <2>4. used' + (x - 1) <= MaxExchanges
    BY <1>2, <1>4, <1>6, <1>7
  <2>5. used' + Chunks(Len(message') - offset', WriteChunk) <= MaxExchanges
    BY <2>2, <2>3, <2>4
  <2>6. step' = "Message"
    BY <1>7, <1>9
  <2> QED  BY <1>1, <1>7, <2>3, <2>5, <2>6 DEF BInv, Enough
<1> QED
  BY <1>8, <1>9

LEMMA NextEnough == IInv /\ BInv /\ [Next]_vars => BInv'
<1> SUFFICES ASSUME IInv, BInv, [Next]_vars PROVE BInv'
  OBVIOUS
<1>0. 3 \in Nat /\ <<>> \in Seq(Byte) /\ MaxMessageLength \in Nat
  BY NdefAssumption
<1>1. CASE ReadCapability
  BY <1>0, <1>1, BeginEnough DEF ReadCapability
<1>2. CASE ReadMessage
  <2>1. 5 + Chunks(MaxMessageLength, ReadChunk) \in Nat
    <3>1. Chunks(MaxMessageLength, ReadChunk) \in Nat
      BY Quotient, NdefAssumption
    <3> QED  BY <3>1
  <2> QED  BY <1>0, <1>2, <2>1, BeginEnough DEF ReadMessage
<1>3. ASSUME NEW m \in Messages, WriteMessage(m) PROVE BInv'
  <2>1. m \in Seq(Byte) /\ Len(m) \in Nat
    BY NdefAssumption
  <2>2. 6 + Chunks(Len(m), WriteChunk) \in Nat
    <3>1. Chunks(Len(m), WriteChunk) \in Nat
      BY <2>1, Quotient, NdefAssumption
    <3> QED  BY <3>1
  <2> QED  BY <1>3, <2>1, <2>2, BeginEnough DEF WriteMessage
<1>4. CASE ToggleReadOnly \/ UNCHANGED vars
  BY <1>4 DEF ToggleReadOnly, vars, data, ccVars, BInv, Enough, Body
<1>5. ASSUME pages, SelectDone \/ ReadCcDone \/ SelectNdefDone \/ ReadNlenDone \/ ReadChunkDone
             \/ ZeroLengthDone \/ WriteChunkDone \/ FinalLengthDone \/ Paged \/ Refused \/ Abandoned
      PROVE  BInv'
  <2>1. pages' /\ limit' \in {limit, MaxMessage}
    BY <1>5, Zenon DEF SelectDone, ReadCcDone, SelectNdefDone, ReadNlenDone, ReadChunkDone, ZeroLengthDone,
       WriteChunkDone, FinalLengthDone, Paged, Refused, Abandoned, data, ccVars
  <2>2. fileSize - 2 \in Int
    BY DEF IInv, TypeOK
  <2>3. MaxMessage <= MaxMessageLength
    BY <1>0, <2>2 DEF MaxMessage, Smaller
  <2> QED  BY <2>1, <2>3 DEF BInv
<1>6. ASSUME ~pages, FinalLengthDone \/ Refused \/ Abandoned
      PROVE  BInv'
  <2>1. UNCHANGED <<pages, limit>>
    BY <1>6 DEF FinalLengthDone, Refused, Abandoned, data, ccVars
  <2>2. Finish("Done") \/ Finish("Status") \/ Finish("InvalidResponse") \/ Finish("Abandoned")
    BY <1>6 DEF FinalLengthDone, Refused, Abandoned
  <2> QED  BY <1>6, <2>1, <2>2, EndEnough
<1>7. ~pages => ~Paged
  BY DEF Paged
<1> QED
  BY <1>1, <1>2, <1>3, <1>4, <1>5, <1>6, <1>7, EarlyEnough, ReadCcEnough, ReadNlenEnough,
     ReadChunkEnough, ZeroLengthEnough, WriteChunkEnough DEF Next

(* What read_message and write_message demand of max_exchanges before they *)
(* start is enough for every file, chunk size and message: with a card     *)
(* that does not page, no run ends for its budget, least of all between    *)
(* clearing the length and setting it.                                     *)
THEOREM BudgetHolds == Spec => []BudgetSuffices
<1>1. Init => BInv
  BY NdefAssumption DEF Init, BInv, Enough
<1>2. IInv /\ BInv /\ [Next]_vars => BInv'
  BY NextEnough
<1>3. BInv => BudgetSuffices
  BY DEF BInv, BudgetSuffices
<1> QED
  BY <1>1, <1>2, <1>3, InvariantIInv, PTL DEF Spec
=============================================================================
