-------------------------- MODULE OperationProofs ---------------------------
(***************************************************************************)
(* Proofs about Operation for every channel, every budget, every machine   *)
(* and every card: type correctness, the working-state discipline, the     *)
(* channel bounds, the budgets, and the refinement of OperationLifecycle.  *)
(* Then, on top of them, about CardExchange for every script of encodable  *)
(* commands, every reply, every way of paging it: whatever fails, and      *)
(* whenever, the card runs the script in order and the machine sees exact  *)
(* replies.                                                                *)
(***************************************************************************)
EXTENDS CardExchange, SequenceTheorems, FiniteSetTheorems, TLAPS

-----------------------------------------------------------------------------
(* Segmentation                                                            *)

(* Products of the fragment arithmetic: the i-th fragment starts inside    *)
(* the naturals and is at most m long.                                     *)
LEMMA FragmentArithmetic ==
  ASSUME NEW m \in Nat, NEW i \in Nat, i >= 1
  PROVE  /\ (i - 1) * m \in Nat
         /\ i * m \in Nat
         /\ i * m = (i - 1) * m + m
<1>1. (i - 1) \in Nat  OBVIOUS
<1>2. (i - 1) * m \in Nat  BY <1>1, SMT
<1>3. i * m = (i - 1) * m + m  BY SMT
<1> QED  BY <1>2, <1>3

(* At least one fragment.                                                  *)
LEMMA CountPositive ==
  ASSUME NEW m \in Nat, m # 0, NEW n \in Nat, n # 0
  PROVE  (n + m - 1) \div m \in Nat /\ (n + m - 1) \div m >= 1
  BY SMT

(* The size of a short command.                                            *)
LEMMA ShortLength ==
  ASSUME NEW c \in CommandApdu, ~c.extended
  PROVE  /\ EncodedLength(c) \in Nat
         /\ EncodedLength(c) <= 6 + Len(c.data)
         /\ c.data = <<>> => EncodedLength(c) <= 5
<1> DEFINE n == Len(c.data)
<1>1. c.data \in Seq(Byte) /\ n \in Nat /\ (c.data = <<>> => n = 0)
  BY DEF CommandApdu
<1>2. c.extended = FALSE
  BY DEF CommandApdu
<1>3. CASE c.data = <<>> /\ c.le = Absent
  BY <1>1, <1>2, <1>3 DEF EncodedLength
<1>4. CASE c.data = <<>> /\ c.le # Absent
  BY <1>1, <1>2, <1>4 DEF EncodedLength
<1>5. CASE c.data # <<>> /\ c.le = Absent
  <2>1. EncodedLength(c) = 4 + n + 1 + 0
    BY <1>2, <1>5 DEF EncodedLength
  <2> QED
    BY <1>1, <1>5, <2>1
<1>6. CASE c.data # <<>> /\ c.le # Absent
  <2>1. EncodedLength(c) = 4 + n + 1 + 1
    BY <1>2, <1>6 DEF EncodedLength
  <2> QED
    BY <1>1, <1>6, <2>1
<1> QED
  BY <1>3, <1>4, <1>5, <1>6

(* A short command fits when its data leave room for Lc and Le.            *)
LEMMA ShortFits ==
  ASSUME NEW c \in CommandApdu, ~c.extended,
         c.data # <<>> => Len(c.data) <= MaxShort
  PROVE  EncodedLength(c) <= MaxCommandBytes
<1>1. Len(c.data) \in Nat /\ (c.data # <<>> => Len(c.data) >= 1)
  BY DEF CommandApdu
<1>2. CASE c.data = <<>>
  BY <1>2, ShortLength, OptionsAssumption
<1>3. CASE c.data # <<>>
  <2>1. Len(c.data) <= MaxCommandBytes - 6
    BY <1>1, <1>3, OptionsAssumption DEF MaxShort, MinOf
  <2> QED
    BY <1>1, <2>1, ShortLength, OptionsAssumption
<1> QED
  BY <1>2, <1>3

(* What every frame of an encodable command asks for.                      *)
LEMMA EffectiveLeBounds ==
  ASSUME NEW l \in LogicalCommand, Encodable(l)
  PROVE  /\ EffectiveLe(l) \in ExpectedLength
         /\ EffectiveLe(l) # 0
         /\ EffectiveLe(l) <= ResponseCapacity
<1>1. Len(l.data) \in Nat /\ MaxInputBytes \in Nat
  BY OptionsAssumption DEF LogicalCommand
<1>2. /\ Len(l.data) <= MaxInputBytes
      /\ l.le # 0
      /\ l.le > ResponseCapacity => MayClampLe(l)
  BY <1>1 DEF Encodable, BadArgument, OverLimit
<1> QED
  BY <1>2, OptionsAssumption
  DEF LogicalCommand, EffectiveLe, ExpectedLength, Absent, ResponseCapacity

(* A fragment of the chain is a command that fits.                         *)
LEMMA FragmentFits ==
  ASSUME NEW l \in LogicalCommand, Encodable(l), MaxShort # 0,
         NEW i \in 1 .. FragmentCount(l), FragmentCount(l) \in Nat
  PROVE  Fragments(l)[i] \in CommandApdu /\ Fits(Fragments(l)[i])
<1> DEFINE lo == (i - 1) * MaxShort + 1
           hi == MinOf(i * MaxShort, Len(l.data))
           bytes == SubSeq(l.data, lo, hi)
           last == i = FragmentCount(l)
           le == IF last THEN EffectiveLe(l) ELSE Absent
<1>1. MaxShort \in Nat /\ MaxShort <= MaxCommandBytes - 6
  BY OptionsAssumption DEF MaxShort, MinOf
<1>2. l.data \in Seq(Byte) /\ Len(l.data) \in Nat
  BY DEF LogicalCommand
<1>3. i \in Nat /\ i >= 1
  OBVIOUS
<1>4. lo \in Nat /\ lo >= 1 /\ i * MaxShort \in Nat /\ i * MaxShort = lo + MaxShort - 1
  BY <1>1, <1>3, FragmentArithmetic
<1>5. hi \in Nat /\ hi <= Len(l.data) /\ hi <= lo + MaxShort - 1
  BY <1>2, <1>4 DEF MinOf
<1>6. \A j \in lo .. hi : l.data[j] \in Byte
  BY <1>2, <1>4, <1>5
<1>7. bytes \in Seq(Byte) /\ Len(bytes) = IF lo <= hi THEN hi - lo + 1 ELSE 0
  <2> HIDE DEF lo, hi
  <2> QED  BY <1>4, <1>5, <1>6, SubSeqProperties
<1>8. Len(bytes) \in Nat /\ Len(bytes) <= MaxShort
  BY <1>1, <1>4, <1>5, <1>7
<1>9. /\ le \in ExpectedLength /\ le # 0 /\ le <= ResponseCapacity
  BY EffectiveLeBounds, OptionsAssumption DEF ExpectedLength, Absent, ResponseCapacity
<1>10. Fragments(l)[i] = Frame(l, ~last, bytes, le, FALSE)
  BY DEF Fragments
<1> HIDE DEF bytes, le, last
<1>11. last \in BOOLEAN
  BY DEF last
<1>12. Frame(l, ~last, bytes, le, FALSE) \in CommandApdu
  BY <1>7, <1>9, <1>11 DEF Frame, CommandApdu, LogicalCommand
<1>13. EncodedLength(Frame(l, ~last, bytes, le, FALSE)) <= MaxCommandBytes
  <2>1. /\ ~Frame(l, ~last, bytes, le, FALSE).extended
        /\ Frame(l, ~last, bytes, le, FALSE).data = bytes
    BY DEF Frame
  <2> QED
    BY <1>8, <1>12, <2>1, ShortFits
<1>14. Frame(l, ~last, bytes, le, FALSE).le = le
  BY DEF Frame
<1> QED
  BY <1>9, <1>10, <1>12, <1>13, <1>14 DEF Fits

(* The frames of an encodable command: at least one, and all of them fit.  *)
LEMMA FramesFit ==
  ASSUME NEW l \in LogicalCommand, Encodable(l)
  PROVE  /\ Frames(l) \in Seq(CommandApdu)
         /\ Frames(l) # <<>>
         /\ \A i \in 1 .. Len(Frames(l)) : Fits(Frames(l)[i])
<1>1. /\ EffectiveLe(l) \in ExpectedLength
      /\ EffectiveLe(l) # 0
      /\ EffectiveLe(l) <= ResponseCapacity
  BY EffectiveLeBounds
<1>3. CASE UsesExtended(l)
  <2>1. Frames(l) = <<ExtendedFrame(l)>>
    BY <1>3 DEF Frames
  <2>2. ExtendedFrame(l) \in CommandApdu /\ ExtendedFrame(l).le = EffectiveLe(l)
    BY <1>1 DEF ExtendedFrame, Frame, CommandApdu, LogicalCommand
  <2>3. Fits(ExtendedFrame(l))
    BY <1>1, <1>3, <2>2 DEF Fits, UsesExtended
  <2> QED
    BY <2>1, <2>2, <2>3
<1>4. CASE ~UsesExtended(l) /\ FitsOneShort(l)
  <2> DEFINE f == Frame(l, l.claChained, l.data, EffectiveLe(l), FALSE)
  <2>1. Frames(l) = <<f>>
    BY <1>4 DEF Frames
  <2>2. f \in CommandApdu /\ f.le = EffectiveLe(l)
    BY <1>1 DEF Frame, CommandApdu, LogicalCommand
  <2>3. ~f.extended /\ f.data = l.data
    BY DEF Frame
  <2> HIDE DEF f
  <2>4. f.data # <<>> => Len(f.data) <= MaxShort
    BY <1>4, <2>3 DEF FitsOneShort
  <2>5. Fits(f)
    BY <1>1, <2>2, <2>3, <2>4, ShortFits DEF Fits
  <2> QED
    BY <2>1, <2>2, <2>5
<1>5. CASE ~UsesExtended(l) /\ ~FitsOneShort(l)
  <2>1. MaxShort # 0 /\ MaxShort \in Nat
    BY <1>5, OptionsAssumption DEF Encodable, OverLimit, MayChain, MaxShort, MinOf
  <2>2. Len(l.data) \in Nat /\ Len(l.data) # 0
    BY <1>5 DEF FitsOneShort, LogicalCommand
  <2>3. FragmentCount(l) \in Nat /\ FragmentCount(l) >= 1
    BY <2>1, <2>2, CountPositive DEF FragmentCount
  <2>4. \A i \in 1 .. FragmentCount(l) :
          Fragments(l)[i] \in CommandApdu /\ Fits(Fragments(l)[i])
    BY <2>1, <2>3, FragmentFits
  <2>5. /\ DOMAIN Fragments(l) = 1 .. FragmentCount(l)
        /\ Fragments(l) = [i \in 1 .. FragmentCount(l) |-> Fragments(l)[i]]
    BY DEF Fragments
  <2>6. Fragments(l) \in [1 .. FragmentCount(l) -> CommandApdu]
    BY <2>4, <2>5
  <2>7. Fragments(l) \in Seq(CommandApdu) /\ Len(Fragments(l)) = FragmentCount(l)
    BY <2>3, <2>6
  <2>8. Frames(l) = Fragments(l)
    BY <1>5 DEF Frames
  <2> QED
    BY <2>3, <2>4, <2>7, <2>8
<1> QED
  BY <1>3, <1>4, <1>5

(* A conversation whose current and pending commands fit.                  *)
AllFit(c) ==
  /\ Fits(c.current)
  /\ \A i \in 1 .. Len(c.pending) : Fits(c.pending[i])

(* Every frame of a new conversation fits the channel.                     *)
LEMMA NewConversationFits ==
  ASSUME NEW l \in LogicalCommand, Encodable(l)
  PROVE  /\ NewConversation(l) \in ConversationState
         /\ AllFit(NewConversation(l))
         /\ NewConversation(l).data = <<>>
<1> DEFINE f == Frames(l)
<1>1. f \in Seq(CommandApdu) /\ f # <<>> /\ \A i \in 1 .. Len(f) : Fits(f[i])
  BY FramesFit
<1>2. /\ Head(f) \in CommandApdu /\ Tail(f) \in Seq(CommandApdu)
      /\ Len(Tail(f)) = Len(f) - 1
      /\ \A i \in 1 .. Len(Tail(f)) : Tail(f)[i] = f[i + 1]
  <2> HIDE DEF f
  <2> QED  BY <1>1, HeadTailProperties
<1>3. Fits(Head(f))
  <2> HIDE DEF f
  <2> QED  BY <1>1
<1>4. \A i \in 1 .. Len(Tail(f)) : Fits(Tail(f)[i])
  <2> HIDE DEF f
  <2> QED  BY <1>1, <1>2
<1>5. <<>> \in Seq(Byte)
  OBVIOUS
<1>6. NewConversation(l) \in ConversationState
  BY <1>2, <1>5 DEF NewConversation, ConversationState, LogicalCommand
<1> QED
  BY <1>3, <1>4, <1>6 DEF NewConversation, AllFit

-----------------------------------------------------------------------------
(* The conversation's steps                                                *)

(* The length a status announces is one a short command may ask for.       *)
LEMMA AnnouncedBounds ==
  ASSUME NEW r \in ResponseApdu
  PROVE  AnnouncedLength(r) \in Nat /\ AnnouncedLength(r) >= 1
<1>1. r.sw2 \in 0 .. 255
  BY DEF ResponseApdu
<1> QED
  BY <1>1 DEF AnnouncedLength

(* GET RESPONSE and SEND REMAINING are five bytes on the wire.             *)
LEMMA ContinuationFits ==
  ASSUME NEW h \in {GetResponse, SendRemaining},
         NEW n \in Nat, n >= 1, n <= ResponseCapacity
  PROVE  LET f == [header |-> h, chained |-> FALSE, data |-> <<>>, le |-> n,
                   extended |-> FALSE]
         IN  f \in CommandApdu /\ Fits(f)
<1> DEFINE f == [header |-> h, chained |-> FALSE, data |-> <<>>, le |-> n,
                 extended |-> FALSE]
<1>1. <<>> \in Seq(Byte)
  OBVIOUS
<1>2. f \in CommandApdu
  BY <1>1 DEF CommandApdu, ExpectedLength
<1>3. ~f.extended /\ f.data = <<>> /\ f.le = n
  OBVIOUS
<1> HIDE DEF f
<1>4. EncodedLength(f) <= MaxCommandBytes
  BY <1>2, <1>3, ShortFits
<1>5. Fits(f)
  BY <1>3, <1>4 DEF Fits
<1> QED
  BY <1>2, <1>5 DEF f

(* An Le correction that is sent fits.                                     *)
LEMMA CorrectedFits ==
  ASSUME NEW c \in ConversationState, NEW r \in ResponseApdu,
         AllFit(c), CorrectionFits(c, r)
  PROVE  /\ Corrected(c, r) \in ConversationState
         /\ AllFit(Corrected(c, r))
         /\ Corrected(c, r).data = c.data
<1> DEFINE n == AnnouncedLength(r)
           f == [c.current EXCEPT !.le = n]
<1>1. n \in Nat /\ n >= 1
  BY AnnouncedBounds
<1>2. c.current \in CommandApdu
  BY DEF ConversationState
<1> HIDE DEF n
<1>3. f \in CommandApdu /\ f.le = n
  BY <1>1, <1>2 DEF CommandApdu, ExpectedLength
<1>4. /\ Corrected(c, r) = [c EXCEPT !.current = f, !.corrected = TRUE]
      /\ n <= ResponseCapacity
      /\ EncodedLength(Corrected(c, r).current) <= MaxCommandBytes
  BY DEF CorrectionFits, Corrected, n
<1> HIDE DEF f
<1>5. /\ Corrected(c, r) \in ConversationState
      /\ Corrected(c, r).current = f
      /\ Corrected(c, r).pending = c.pending
      /\ Corrected(c, r).data = c.data
  BY <1>3, <1>4 DEF ConversationState
<1>6. Fits(f)
  BY <1>1, <1>3, <1>4, <1>5 DEF Fits
<1> QED
  BY <1>5, <1>6 DEF AllFit

(* The next fragment of a chain was checked when the chain was built.      *)
LEMMA NextFragmentFits ==
  ASSUME NEW c \in ConversationState, AllFit(c), c.pending # <<>>
  PROVE  /\ NextFragment(c) \in ConversationState
         /\ AllFit(NextFragment(c))
         /\ NextFragment(c).data = c.data
<1> DEFINE p == c.pending
<1>1. p \in Seq(CommandApdu) /\ p # <<>> /\ \A i \in 1 .. Len(p) : Fits(p[i])
  BY DEF ConversationState, AllFit
<1> HIDE DEF p
<1>2. /\ Head(p) \in CommandApdu /\ Tail(p) \in Seq(CommandApdu)
      /\ Len(Tail(p)) = Len(p) - 1
      /\ \A i \in 1 .. Len(Tail(p)) : Tail(p)[i] = p[i + 1]
  BY <1>1, HeadTailProperties
<1>3. Fits(Head(p)) /\ \A i \in 1 .. Len(Tail(p)) : Fits(Tail(p)[i])
  BY <1>1, <1>2
<1>4. NextFragment(c) =
        [c EXCEPT !.current = Head(p), !.pending = Tail(p), !.corrected = FALSE]
  BY DEF NextFragment, p
<1>5. /\ NextFragment(c) \in ConversationState
      /\ NextFragment(c).current = Head(p)
      /\ NextFragment(c).pending = Tail(p)
      /\ NextFragment(c).data = c.data
  <2> DEFINE d == [c EXCEPT !.current = Head(p), !.pending = Tail(p), !.corrected = FALSE]
  <2>1. d \in ConversationState
    BY <1>2 DEF ConversationState
  <2>2. d.current = Head(p) /\ d.pending = Tail(p) /\ d.data = c.data
    BY DEF ConversationState
  <2> HIDE DEF d
  <2> QED BY <1>4, <2>1, <2>2 DEF d
<1> QED
  BY <1>3, <1>5 DEF AllFit

(* A page is appended, and the request for the next one fits.              *)
LEMMA OathNextFits ==
  ASSUME NEW c \in ConversationState, NEW r \in ResponseApdu, AllFit(c)
  PROVE  /\ OathNext(c, r) \in ConversationState
         /\ AllFit(OathNext(c, r))
         /\ Len(OathNext(c, r).data) = Len(c.data) + Len(r.data)
<1> DEFINE n == MinOf(255, ResponseCapacity)
           f == [header |-> SendRemaining, chained |-> FALSE, data |-> <<>>,
                 le |-> n, extended |-> FALSE]
           d == c.data \o r.data
           b == IsSuccess(r)
<1>1. n \in Nat /\ n >= 1 /\ n <= ResponseCapacity
  BY OptionsAssumption DEF MinOf, ResponseCapacity
<1>2. f \in CommandApdu /\ Fits(f)
  <2> HIDE DEF n
  <2> QED  BY <1>1, ContinuationFits
<1>3. d \in Seq(Byte) /\ Len(d) = Len(c.data) + Len(r.data)
  <2>1. c.data \in Seq(Byte) /\ r.data \in Seq(Byte)
    BY DEF ConversationState, ResponseApdu
  <2> QED  BY <2>1, ConcatProperties
<1>4. b \in BOOLEAN
  BY DEF IsSuccess
<1>5. OathNext(c, r) =
        [c EXCEPT !.data = d, !.oathPoll = b, !.current = f,
                  !.corrected = FALSE, !.correctLe = FALSE]
  BY DEF OathNext
<1> HIDE DEF d, f, b
<1>6. /\ OathNext(c, r) \in ConversationState
      /\ OathNext(c, r).current = f
      /\ OathNext(c, r).pending = c.pending
      /\ OathNext(c, r).data = d
  <2> DEFINE e == [c EXCEPT !.data = d, !.oathPoll = b, !.current = f,
                            !.corrected = FALSE, !.correctLe = FALSE]
  <2>1. e \in ConversationState
    BY <1>2, <1>3, <1>4 DEF ConversationState
  <2>2. e.current = f /\ e.pending = c.pending /\ e.data = d
    BY DEF ConversationState
  <2> HIDE DEF e
  <2> QED BY <1>5, <2>1, <2>2 DEF e
<1> QED
  BY <1>2, <1>3, <1>6 DEF AllFit

(* The GET RESPONSE that follows a page fits the channel.                  *)
LEMMA IsoNextFits ==
  ASSUME NEW c \in ConversationState, NEW r \in ResponseApdu, AllFit(c)
  PROVE  /\ IsoNext(c, r) \in ConversationState
         /\ AllFit(IsoNext(c, r))
         /\ Len(IsoNext(c, r).data) = Len(c.data) + Len(r.data)
<1> DEFINE n == MinOf(AnnouncedLength(r), ResponseCapacity)
           f == [header |-> GetResponse, chained |-> FALSE, data |-> <<>>,
                 le |-> n, extended |-> FALSE]
           d == c.data \o r.data
<1>1. n \in Nat /\ n >= 1 /\ n <= ResponseCapacity
  BY AnnouncedBounds, OptionsAssumption DEF MinOf, ResponseCapacity
<1>2. f \in CommandApdu /\ Fits(f)
  <2> HIDE DEF n
  <2> QED  BY <1>1, ContinuationFits
<1>3. d \in Seq(Byte) /\ Len(d) = Len(c.data) + Len(r.data)
  <2>1. c.data \in Seq(Byte) /\ r.data \in Seq(Byte)
    BY DEF ConversationState, ResponseApdu
  <2> QED  BY <2>1, ConcatProperties
<1>4. IsoNext(c, r) =
        [c EXCEPT !.data = d, !.continuing = TRUE, !.current = f,
                  !.corrected = FALSE, !.correctLe = TRUE]
  BY DEF IsoNext
<1> HIDE DEF d, f
<1>5. /\ IsoNext(c, r) \in ConversationState
      /\ IsoNext(c, r).current = f
      /\ IsoNext(c, r).pending = c.pending
      /\ IsoNext(c, r).data = d
  <2> DEFINE e == [c EXCEPT !.data = d, !.continuing = TRUE, !.current = f,
                            !.corrected = FALSE, !.correctLe = TRUE]
  <2>1. e \in ConversationState
    BY <1>2, <1>3 DEF ConversationState
  <2>2. e.current = f /\ e.pending = c.pending /\ e.data = d
    BY DEF ConversationState
  <2> HIDE DEF e
  <2> QED BY <1>4, <2>1, <2>2 DEF e
<1> QED
  BY <1>2, <1>3, <1>5 DEF AllFit

-----------------------------------------------------------------------------
(* The operation's steps                                                   *)

(* The inductive invariant: each of its parts needs the others.  ChannelFit *)
(* of a continued conversation needs its type, the type of a step needs    *)
(* WorkingState (a pending command means there is a conversation), and     *)
(* Budgets needs the type of the counters.                                 *)
IInv == TypeOK /\ WorkingState /\ ChannelFit /\ Budgets

Working == state \in {"Created", "AwaitingResponse"}

(* A failed call leaves a failed operation behind, whatever it was doing.  *)
LEMMA FailKeeps ==
  ASSUME IInv, Working, NEW kind \in ErrorKind, Fail(kind), responseBytes' \in Nat
  PROVE  IInv'
<1>1. /\ state' = "Failed" /\ machine' = FALSE /\ conversation' = None
      /\ progress' = ExposesProgress /\ error' = kind
      /\ output' = output /\ exchanges' = exchanges
  BY DEF Fail
<1>2. kind # None
  BY MachineAssumption
<1>3. TypeOK'
  BY <1>1, MachineAssumption DEF IInv, TypeOK, OperationState
<1>4. WorkingState'
  BY <1>1, <1>2, MachineAssumption DEF IInv, Working, WorkingState
<1>5. ChannelFit'
  BY <1>1 DEF ChannelFit
<1>6. Budgets'
  BY <1>1 DEF IInv, Budgets
<1> QED
  BY <1>3, <1>4, <1>5, <1>6 DEF IInv

(* A conversation that fits becomes the pending one, or the exchange       *)
(* budget is spent and the operation fails.                                *)
LEMMA ExchangeKeeps ==
  ASSUME IInv, Working, NEW c \in ConversationState, AllFit(c), Exchange(c),
         responseBytes' \in Nat, responseBytes' <= MaxTotalResponseBytes,
         Len(c.data) <= responseBytes'
  PROVE  IInv'
<1>1. CASE exchanges >= MaxExchanges
  <2>1. Fail("LimitExceeded") /\ "LimitExceeded" \in ErrorKind
    BY <1>1 DEF Exchange, ErrorKind
  <2> QED
    BY <2>1, FailKeeps
<1>2. CASE ~(exchanges >= MaxExchanges)
  <2>1. /\ state' = "AwaitingResponse" /\ conversation' = c
        /\ exchanges' = exchanges + 1
        /\ machine' = machine /\ output' = output
        /\ progress' = progress /\ error' = error
    BY <1>2 DEF Exchange
  <2>2. c # None
    BY MachineAssumption
  <2>3. TypeOK'
    BY <2>1 DEF IInv, TypeOK, OperationState
  <2>4. WorkingState'
    BY <2>1, <2>2 DEF IInv, Working, WorkingState
  <2>5. ChannelFit'
    BY <2>1 DEF AllFit, ChannelFit
  <2>6. Budgets'
    BY <1>2, <2>1, OptionsAssumption DEF IInv, TypeOK, Budgets
  <2> QED
    BY <2>3, <2>4, <2>5, <2>6 DEF IInv
<1> QED
  BY <1>1, <1>2

(* Whatever the machine answers.                                           *)
LEMMA DriveKeeps ==
  ASSUME IInv, Working, NEW act \in Act, Drive(act),
         responseBytes' \in Nat, responseBytes' <= MaxTotalResponseBytes
  PROVE  IInv'
<1>1. CASE act.tag = "Command" /\ Encodable(act.command)
                               /\ Exchange(NewConversation(act.command))
  <2>1. act.command \in LogicalCommand
    BY <1>1, MachineAssumption DEF Act
  <2>2. /\ NewConversation(act.command) \in ConversationState
        /\ AllFit(NewConversation(act.command))
        /\ NewConversation(act.command).data = <<>>
    BY <1>1, <2>1, NewConversationFits
  <2> QED
    BY <1>1, <2>2, ExchangeKeeps
<1>2. CASE Fail("InvalidArgument") \/ Fail("LimitExceeded") \/ Fail("Machine")
  <2>1. {"InvalidArgument", "LimitExceeded", "Machine"} \subseteq ErrorKind
    BY DEF ErrorKind
  <2> QED
    BY <1>2, <2>1, FailKeeps
<1>3. CASE /\ state' = "Completed" /\ output' = TRUE /\ machine' = FALSE
           /\ conversation' = None /\ UNCHANGED <<progress, error, exchanges>>
  <2>1. TypeOK'
    BY <1>3 DEF IInv, TypeOK, OperationState
  <2>2. WorkingState'
    BY <1>3 DEF IInv, Working, WorkingState
  <2>3. ChannelFit'
    BY <1>3 DEF ChannelFit
  <2>4. Budgets'
    BY <1>3 DEF IInv, Budgets
  <2> QED
    BY <2>1, <2>2, <2>3, <2>4 DEF IInv
<1> QED
  BY <1>1, <1>2, <1>3 DEF Drive

(* Every way a complete response can go.                                   *)
LEMMA AdvanceKeeps ==
  ASSUME IInv, NEW r \in ResponseApdu, NEW act \in Act, Advance(r, act)
  PROVE  IInv'
<1> DEFINE c == conversation
<1>1. state = "AwaitingResponse" /\ Working
  BY DEF Advance, Working
<1>2. c \in ConversationState
  BY <1>1 DEF IInv, TypeOK, WorkingState
<1>3. /\ Len(r.data) \in Nat /\ responseBytes \in Nat
      /\ responseBytes' = responseBytes + Len(r.data)
  BY DEF Advance, ResponseApdu, IInv, TypeOK
<1>4. AllFit(c) /\ Len(c.data) <= responseBytes
  BY <1>1, <1>2, MachineAssumption DEF IInv, ChannelFit, Budgets, AllFit
<1>5. Len(c.data) \in Nat
  BY <1>2 DEF ConversationState
<1>6. "LimitExceeded" \in ErrorKind /\ "ProtocolViolation" \in ErrorKind
        /\ "Status" \in ErrorKind
  BY DEF ErrorKind
<1>7. CASE responseBytes' > MaxTotalResponseBytes
  <2>1. Fail("LimitExceeded")
    BY <1>7 DEF Advance
  <2> QED
    BY <1>1, <1>3, <1>6, <2>1, FailKeeps
<1>8. CASE ~(responseBytes' > MaxTotalResponseBytes)
  <2>1. responseBytes' \in Nat /\ responseBytes' <= MaxTotalResponseBytes
    BY <1>3, <1>8, OptionsAssumption
  <2>2. ASSUME NEW d \in ConversationState, AllFit(d), Exchange(d),
               Len(d.data) = Len(c.data) \/ Len(d.data) = Len(c.data) + Len(r.data)
        PROVE  IInv'
    <3> DEFINE n == Len(c.data)
               k == Len(r.data)
               m == Len(d.data)
    <3>1. m <= responseBytes'
      <4>1. /\ n \in Nat /\ k \in Nat /\ responseBytes \in Nat
            /\ n <= responseBytes /\ responseBytes' = responseBytes + k
            /\ m = n \/ m = n + k
        BY <1>3, <1>4, <1>5, <2>2
      <4> HIDE DEF n, k, m
      <4> QED  BY <4>1
    <3> QED
      BY <1>1, <2>1, <2>2, <3>1, ExchangeKeeps
  <2>3. CASE CorrectsLe(c, r) /\ CorrectionFits(c, r) /\ Exchange(Corrected(c, r))
    BY <1>2, <1>4, <2>2, <2>3, CorrectedFits
  <2>4. CASE InChain(c, r) /\ FragmentAccepted(r) /\ Exchange(NextFragment(c))
    BY <1>2, <1>4, <2>2, <2>4, NextFragmentFits DEF InChain
  <2>5. CASE OathMore(c, r) /\ ~NoProgressPage(c, r) /\ Exchange(OathNext(c, r))
    BY <1>2, <1>4, <2>2, <2>5, OathNextFits
  <2>6. CASE IsoMore(c, r) /\ ~NoProgressPage(c, r) /\ Exchange(IsoNext(c, r))
    BY <1>2, <1>4, <2>2, <2>6, IsoNextFits
  <2>7. CASE Fail("LimitExceeded") \/ Fail("ProtocolViolation") \/ Fail("Status")
    BY <1>1, <1>6, <2>1, <2>7, FailKeeps
  <2>8. CASE Ends(c, r) /\ Drive(act)
    BY <1>1, <2>1, <2>8, DriveKeeps
  <2> QED
    BY <1>8, <2>3, <2>4, <2>5, <2>6, <2>7, <2>8 DEF Advance, Continue
<1> QED
  BY <1>7, <1>8

(* The inductive invariant holds initially.                                *)
LEMMA InitIInv == Init => IInv
<1> SUFFICES ASSUME Init PROVE IInv
  OBVIOUS
<1>1. TypeOK
  BY DEF Init, TypeOK, OperationState
<1>2. WorkingState
  BY DEF Init, WorkingState
<1>3. ChannelFit /\ Budgets
  BY OptionsAssumption DEF Init, ChannelFit, Budgets
<1> QED
  BY <1>1, <1>2, <1>3 DEF IInv

(* Every step keeps the inductive invariant.                               *)
LEMMA NextIInv == IInv /\ [Next]_vars => IInv'
<1> SUFFICES ASSUME IInv, [Next]_vars PROVE IInv'
  OBVIOUS
<1>1. ASSUME NEW act \in Act, Start(act) PROVE IInv'
  <2>1. Working /\ Drive(act)
    BY <1>1 DEF Start, Working
  <2>2. responseBytes' \in Nat /\ responseBytes' <= MaxTotalResponseBytes
    BY <1>1 DEF Start, IInv, TypeOK, Budgets
  <2> QED
    BY <2>1, <2>2, DriveKeeps
<1>2. ASSUME NEW r \in Response, NEW act \in Act, Advance(r, act) PROVE IInv'
  BY <1>2, AdvanceKeeps, MachineAssumption
<1>3. ASSUME NEW kind \in {"LimitExceeded", "InvalidResponse"}, Unreadable(kind)
      PROVE  IInv'
  <2>1. kind \in ErrorKind
    BY DEF ErrorKind
  <2>2. Working /\ Fail(kind) /\ responseBytes' \in Nat
    BY <1>3 DEF Unreadable, Working, IInv, TypeOK
  <2> QED
    BY <2>1, <2>2, FailKeeps
<1>4. CASE Cancel
  <2>1. TypeOK'
    BY <1>4 DEF Cancel, IInv, TypeOK, OperationState
  <2>2. WorkingState'
    BY <1>4 DEF Cancel, IInv, WorkingState
  <2>3. ChannelFit'
    BY <1>4 DEF Cancel, ChannelFit
  <2>4. Budgets'
    BY <1>4 DEF Cancel, IInv, Budgets
  <2> QED
    BY <2>1, <2>2, <2>3, <2>4 DEF IInv
<1>5. CASE TakeResult
  <2>1. TypeOK'
    BY <1>5 DEF TakeResult, IInv, TypeOK, OperationState
  <2>2. WorkingState'
    BY <1>5 DEF TakeResult, IInv, WorkingState
  <2>3. ChannelFit' /\ Budgets'
    BY <1>5 DEF TakeResult, IInv, ChannelFit, Budgets
  <2> QED
    BY <2>1, <2>2, <2>3 DEF IInv
<1>6. CASE UNCHANGED vars
  BY <1>6 DEF vars, IInv, TypeOK, WorkingState, ChannelFit, Budgets
<1> QED
  BY <1>1, <1>2, <1>3, <1>4, <1>5, <1>6 DEF Next, Answer

(* The inductive invariant holds of every behaviour.                       *)
LEMMA InvariantIInv == Spec => []IInv
  BY InitIInv, NextIInv, PTL DEF Spec

(* Every operation keeps its fields typed.                                 *)
THEOREM TypeCorrect == Spec => []TypeOK
  BY InvariantIInv, PTL DEF IInv

(* Operation::record, cancel and take_result release the machine, the      *)
(* conversation and the result exactly when they must.                     *)
THEOREM WorkingStateHolds == Spec => []WorkingState
  BY InvariantIInv, PTL DEF IInv

(* No command ConversationState ever exposes is larger than the channel,   *)
(* or asks for more than a response of the channel carries, for every      *)
(* channel, every machine and every sequence of responses; and the         *)
(* exchange and response budgets of OperationLimits hold.                  *)
THEOREM LimitsHold == Spec => []WithinLimits
  BY InvariantIInv, PTL DEF IInv, WithinLimits

-----------------------------------------------------------------------------
(* Refinement of OperationLifecycle                                        *)

Held == IF state = "ResultTaken" THEN "moved" ELSE IF output THEN "held" ELSE "none"

(* A failure is a Break of the dialogue.                                   *)
LEMMA FailRefines ==
  ASSUME IInv, Working, NEW kind \in ErrorKind, Fail(kind)
  PROVE  Lifecycle!Break
<1>1. /\ state' = "Failed" /\ output' = output /\ exchanges' = exchanges
      /\ error' = kind
  BY DEF Fail
<1>2. kind # None
  BY MachineAssumption
<1>3. state # "ResultTaken" /\ output = FALSE
  BY DEF IInv, TypeOK, Working, WorkingState
<1>4. (error # None)' = TRUE
  BY <1>1, <1>2
<1>5. Held' = Held
  BY <1>1, <1>3 DEF Held
<1> QED
  BY <1>1, <1>4, <1>5 DEF Lifecycle!Break, Lifecycle!Running, Working, Held

(* A next physical command is an Expose, or a Break when the budget is     *)
(* used up.                                                                *)
LEMMA ExchangeRefines ==
  ASSUME IInv, Working, NEW c, Exchange(c)
  PROVE  Lifecycle!Expose \/ Lifecycle!Break
<1>1. CASE exchanges >= MaxExchanges
  <2>1. Fail("LimitExceeded") /\ "LimitExceeded" \in ErrorKind
    BY <1>1 DEF Exchange, ErrorKind
  <2> QED
    BY <2>1, FailRefines
<1>2. CASE ~(exchanges >= MaxExchanges)
  <2>1. /\ state' = "AwaitingResponse" /\ exchanges' = exchanges + 1
        /\ output' = output /\ error' = error
    BY <1>2 DEF Exchange
  <2>2. exchanges < MaxExchanges
    BY <1>2, OptionsAssumption DEF IInv, TypeOK
  <2>3. (error # None)' = (error # None)
    BY <2>1
  <2>4. state # "ResultTaken"
    BY DEF Working
  <2>5. Held' = Held
    BY <2>1, <2>4 DEF Held
  <2> QED
    BY <2>1, <2>2, <2>3, <2>5 DEF Lifecycle!Expose, Lifecycle!Running, Working, Held
<1> QED
  BY <1>1, <1>2

(* What the machine answers is an Expose, a Complete or a Break.           *)
LEMMA DriveRefines ==
  ASSUME IInv, Working, NEW act \in Act, Drive(act)
  PROVE  Lifecycle!LNext
<1>1. CASE act.tag = "Command" /\ Encodable(act.command)
                               /\ Exchange(NewConversation(act.command))
  BY <1>1, ExchangeRefines DEF Lifecycle!LNext
<1>2. CASE Fail("InvalidArgument") \/ Fail("LimitExceeded") \/ Fail("Machine")
  <2>1. {"InvalidArgument", "LimitExceeded", "Machine"} \subseteq ErrorKind
    BY DEF ErrorKind
  <2> QED
    BY <1>2, <2>1, FailRefines DEF Lifecycle!LNext
<1>3. CASE /\ state' = "Completed" /\ output' = TRUE /\ machine' = FALSE
           /\ conversation' = None /\ UNCHANGED <<progress, error, exchanges>>
  <2>1. (error # None)' = (error # None) /\ exchanges' = exchanges
    BY <1>3
  <2>2. Held' = "held"
    BY <1>3 DEF Held
  <2>3. Lifecycle!Complete
    BY <1>3, <2>1, <2>2 DEF Lifecycle!Complete, Lifecycle!Running, Working, Held
  <2> QED
    BY <2>3 DEF Lifecycle!LNext
<1> QED
  BY <1>1, <1>2, <1>3 DEF Drive

(* A response leads to one step of the dialogue.                           *)
LEMMA AdvanceRefines ==
  ASSUME IInv, NEW r \in ResponseApdu, NEW act \in Act, Advance(r, act)
  PROVE  Lifecycle!LNext
<1>1. Working
  BY DEF Advance, Working
<1>2. {"LimitExceeded", "ProtocolViolation", "Status"} \subseteq ErrorKind
  BY DEF ErrorKind
<1>3. ASSUME NEW c, Exchange(c) PROVE Lifecycle!LNext
  BY <1>1, <1>3, ExchangeRefines DEF Lifecycle!LNext
<1>4. CASE Fail("LimitExceeded") \/ Fail("ProtocolViolation") \/ Fail("Status")
  BY <1>1, <1>2, <1>4, FailRefines DEF Lifecycle!LNext
<1>5. CASE Drive(act)
  BY <1>1, <1>5, DriveRefines
<1>6. CASE Continue(r)
  BY <1>3, <1>4, <1>6 DEF Continue
<1> QED
  BY <1>4, <1>5, <1>6 DEF Advance

(* A new operation is a new dialogue.                                      *)
LEMMA InitRefines == Init => Lifecycle!LInit
  BY DEF Init, Lifecycle!LInit

(* Every step of the operation is a step of the dialogue or leaves it      *)
(* alone.                                                                  *)
LEMMA NextRefines == IInv /\ [Next]_vars => [Lifecycle!LNext]_(Lifecycle!lvars)
<1> SUFFICES ASSUME IInv, [Next]_vars PROVE [Lifecycle!LNext]_(Lifecycle!lvars)
  OBVIOUS
<1>1. ASSUME NEW act \in Act, Start(act) PROVE Lifecycle!LNext
  BY <1>1, DriveRefines DEF Start, Working
<1>2. ASSUME NEW r \in Response, NEW act \in Act, Advance(r, act)
      PROVE  Lifecycle!LNext
  BY <1>2, AdvanceRefines, MachineAssumption
<1>3. ASSUME NEW kind \in {"LimitExceeded", "InvalidResponse"}, Unreadable(kind)
      PROVE  Lifecycle!LNext
  <2>1. kind \in ErrorKind
    BY DEF ErrorKind
  <2> QED
    BY <1>3, <2>1, FailRefines DEF Unreadable, Working, Lifecycle!LNext
<1>4. CASE Cancel
  <2>1. /\ state' = "Cancelled" /\ output' = output /\ exchanges' = exchanges
        /\ (error # None)' = (error # None) /\ Working
    BY <1>4 DEF Cancel, Working
  <2>2. Held' = Held
    BY <2>1 DEF Held, Working
  <2> QED
    BY <2>1, <2>2
    DEF Lifecycle!LNext, Lifecycle!Abandon, Lifecycle!Running, Working, Held
<1>5. CASE TakeResult
  <2>1. /\ state = "Completed" /\ state' = "ResultTaken" /\ exchanges' = exchanges
        /\ (error # None)' = (error # None)
    BY <1>5 DEF TakeResult
  <2>2. Held' = "moved"
    BY <2>1 DEF Held
  <2> QED
    BY <2>1, <2>2 DEF Lifecycle!LNext, Lifecycle!Take, Held
<1>6. CASE UNCHANGED vars
  BY <1>6 DEF vars, Lifecycle!lvars
<1> QED
  BY <1>1, <1>2, <1>3, <1>4, <1>5, <1>6 DEF Next, Answer

(* The detailed operation implements the abstract dialogue: at most        *)
(* MaxExchanges commands, one ending, one hand-over of the result, and an  *)
(* error that stays (state(), error() and take_result as documented).      *)
THEOREM LifecycleRefinement == Spec => ImplementsLifecycle
  BY InitRefines, NextRefines, InvariantIInv, PTL
  DEF Spec, ImplementsLifecycle, Lifecycle!LSpec

-----------------------------------------------------------------------------
(* The exchange with a card: definitions                                   *)

(* The command that the machine waits for, and its place in the script.    *)
Pos == Len(delivered) + 1

Cur == script[Pos]

Confirmed == \A i \in 1 .. Len(delivered) : IsSuccess(delivered[i])

Underway == Confirmed /\ Pos <= Len(script)

CEType ==
  /\ script \in Scripts /\ dialect \in Dialects(script)
  /\ reply \in [Headers -> Seq(Byte)]
  /\ chain \in Seq(Byte) /\ remaining \in Seq(Byte)
  /\ executed \in Seq([header : Header, data : Seq(Byte)])
  /\ delivered \in Seq([data : Seq(Byte), sw1 : 0 .. 255, sw2 : 0 .. 255])
  /\ \/ link \in {Idle, Down}
     \/ link.tag = "command" /\ link.apdu \in CommandApdu
     \/ link.tag = "response" /\ link.apdu \in ResponseApdu

RunInOrder ==
  /\ Len(executed) <= Len(script)
  /\ \A i \in 1 .. Len(executed) :
       executed[i] = [header |-> script[i].header, data |-> script[i].data]

(* Only the last response may be a refusal; the card is at most one        *)
(* command ahead of what was confirmed.                                    *)
Counted ==
  /\ Len(delivered) <= Len(script)
  /\ \A i \in 1 .. Len(delivered) - 1 : IsSuccess(delivered[i])
  /\ Confirmed => Len(executed) \in {Len(delivered), Len(delivered) + 1}
  /\ ~Confirmed => Len(executed) \in {Len(delivered) - 1, Len(delivered)}

(* The data of the first i frames of l.                                    *)
Prefix(l, i) == IF i >= Len(Frames(l)) THEN l.data ELSE SubSeq(l.data, 1, i * MaxShort)

(* a is the i-th frame of l, apart from Le.                                *)
IsFrame(a, l, i) ==
  /\ i \in 1 .. Len(Frames(l))
  /\ a.header = l.header /\ (a.chained <=> i < Len(Frames(l)))
  /\ a.data = Frames(l)[i].data

InFlight ==
  link.tag = "command" =>
    /\ Underway
    /\ \/ /\ Len(executed) = Len(delivered)
          /\ \E i \in 1 .. Len(Frames(Cur)) :
               IsFrame(link.apdu, Cur, i) /\ chain = Prefix(Cur, i - 1)
       \/ /\ Len(executed) = Pos
          /\ link.apdu.header \in {GetResponse, SendRemaining} /\ ~link.apdu.chained

Index(c, l) == Len(Frames(l)) - Len(c.pending)

(* The conversation sends the frames of l, or fetches the pages of its     *)
(* reply.                                                                  *)
Sends(c, l) ==
  /\ IsFrame(c.current, l, Index(c, l))
  /\ \A j \in 1 .. Len(c.pending) : c.pending[j] = Frames(l)[Index(c, l) + j]
  /\ c.data = <<>> /\ ~c.oathPoll /\ (c.correctLe <=> l.correctLe)

Pages(c, l) ==
  /\ c.pending = <<>> /\ c.continuation # "None"
  /\ c.current.header \in {GetResponse, SendRemaining} /\ ~c.current.chained
  /\ c.oathPoll /\ dialect # "OathLegacy" => c.data = reply[l.header]

(* The card is ready for the conversation's current command.               *)
ReadyFor(c, l) ==
  \/ Sends(c, l) /\ Len(executed) = Len(delivered) /\ chain = Prefix(l, Index(c, l) - 1)
  \/ /\ Pages(c, l) /\ Len(executed) = Pos /\ chain = <<>>
     /\ c.data \o remaining = reply[l.header]

(* r is a page of the reply.                                               *)
Served(c, l, r) ==
  /\ c.pending = <<>> /\ Len(executed) = Pos /\ chain = <<>>
  /\ (c.data \o r.data) \o remaining = reply[l.header]
  /\ \/ r.sw1 = MoreSw1 /\ l.continuation # "None"
     \/ IsSuccess(r) /\ remaining = <<>>
     \/ /\ IsSuccess(r) /\ r.data # <<>> /\ dialect = "OathLegacy"
        /\ l.continuation # "None"

(* What a response says about the card.                                    *)
Told(c, l, r) ==
  \/ r.sw1 = WrongLeSw1 /\ r.data = <<>> /\ c.pending = <<>> /\ ReadyFor(c, l)
  \/ r.sw1 = WrongLeSw1 /\ c.pending = <<>> /\ ~c.correctLe
  \/ /\ r.sw1 = 105 /\ r.data = <<>>
     /\ IsConditionsNotSatisfied(r) /\ c.oathPoll =>
          c.data = reply[l.header] /\ Len(executed) = Pos /\ chain = <<>>
  \/ /\ FragmentAccepted(r) /\ c.pending # <<>> /\ Sends(c, l)
     /\ Len(executed) = Len(delivered) /\ chain = Prefix(l, Index(c, l))
  \/ Served(c, l, r)

Exchanging ==
  state = "AwaitingResponse" =>
    /\ Underway
    /\ conversation.continuation = Cur.continuation
    /\ conversation.probe = Cur.probeAfterSuccess
    /\ conversation.oathPoll => conversation.continuation = "Oath"
    /\ link.tag \in {"idle", "command"} => ReadyFor(conversation, Cur)
    /\ link.tag = "command" => link.apdu = conversation.current
    /\ link.tag = "response" => Told(conversation, Cur, link.apdu)

Fresh ==
  state = "Created" => delivered = <<>> /\ executed = <<>> /\ chain = <<>> /\ link = Idle

CEInv ==
  /\ IInv /\ CEType /\ RunInOrder /\ Counted /\ InFlight /\ Exchanging /\ Fresh /\ ExactReplies

-----------------------------------------------------------------------------
(* Frames and pages                                                        *)

(* n fragments of at most m bytes carry k bytes, and n - 1 do not.         *)
LEMMA CountExact ==
  ASSUME NEW m \in Nat, m # 0, NEW k \in Nat, k # 0
  PROVE  LET n == (k + m - 1) \div m IN (n - 1) * m < k /\ k <= n * m
<1> DEFINE n == (k + m - 1) \div m
           q == (k + m - 1) % m
<1>1. k + m - 1 = m * n + q /\ q \in 0 .. m - 1 /\ n \in Int
  BY SMT
<1>2. n * m = m * n /\ (n - 1) * m = m * n - m
  BY <1>1, SMT
<1> HIDE DEF n, q
<1>3. (n - 1) * m < k /\ k <= n * m
  <2> DEFINE p == m * n
  <2>1. k + m - 1 = p + q /\ n * m = p /\ (n - 1) * m = p - m /\ p \in Int
    BY <1>1, <1>2, SMT
  <2> HIDE DEF p
  <2> QED  BY <1>1, <2>1, SMT
<1> QED
  BY <1>3 DEF n

(* Fewer fragments carry less.                                             *)
LEMMA FewerFragments ==
  ASSUME NEW m \in Nat, NEW i \in Nat, NEW n \in Nat, i <= n
  PROVE  i * m <= n * m
<1>1. n * m = i * m + (n - i) * m
  BY SMT
<1>2. (n - i) \in Nat
  OBVIOUS
<1>3. (n - i) * m \in Nat
  BY <1>2, SMT
<1>4. i * m \in Nat
  BY SMT
<1> QED
  BY <1>1, <1>3, <1>4, SMT

(* Both parts of a sequence cut after n elements make up the sequence.     *)
LEMMA Split ==
  ASSUME NEW s \in Seq(Byte), NEW n \in 0 .. Len(s)
  PROVE  /\ SubSeq(s, 1, n) \in Seq(Byte) /\ SubSeq(s, n + 1, Len(s)) \in Seq(Byte)
         /\ SubSeq(s, 1, n) \o SubSeq(s, n + 1, Len(s)) = s
         /\ n = 0 => SubSeq(s, 1, n) = <<>>
         /\ n = Len(s) => SubSeq(s, n + 1, Len(s)) = <<>> /\ SubSeq(s, 1, n) = s
         /\ Len(SubSeq(s, 1, n)) = n
<1>1. Len(s) \in Nat
  OBVIOUS
<1>2. SubSeq(s, 1, Len(s)) = s
  BY SubSeqFull
<1>3. 1 \in 1 .. Len(s) + 1 /\ n \in 1 - 1 .. Len(s) /\ Len(s) \in n .. Len(s)
  BY <1>1
<1>4. SubSeq(s, 1, n) \o SubSeq(s, n + 1, Len(s)) = SubSeq(s, 1, Len(s))
  BY <1>3, ConcatAdjacentSubSeq
<1>5. (\A i \in 1 .. n : s[i] \in Byte) /\ (\A i \in n + 1 .. Len(s) : s[i] \in Byte)
  BY <1>1
<1>6. SubSeq(s, 1, n) \in Seq(Byte) /\ Len(SubSeq(s, 1, n)) = IF 1 <= n THEN n - 1 + 1 ELSE 0
  BY <1>1, <1>5, SubSeqProperties
<1>7. SubSeq(s, n + 1, Len(s)) \in Seq(Byte)
  BY <1>1, <1>5, SubSeqProperties
<1>8. n = 0 => SubSeq(s, 1, n) = <<>>
  BY SubSeqEmpty
<1>9. n = Len(s) => SubSeq(s, n + 1, Len(s)) = <<>>
  BY <1>1, SubSeqEmpty
<1>10. n = Len(s) => SubSeq(s, 1, n) = s
  BY <1>2
<1>11. Len(SubSeq(s, 1, n)) = n
  <2> DEFINE k == Len(SubSeq(s, 1, n))
  <2>1. k = IF 1 <= n THEN n - 1 + 1 ELSE 0
    BY <1>6
  <2>2. n \in Nat
    BY <1>1
  <2> HIDE DEF k
  <2>3. k = n
    BY <2>1, <2>2
  <2> QED  BY <2>3 DEF k
<1> QED
  BY <1>2, <1>4, <1>6, <1>7, <1>8, <1>9, <1>10, <1>11, Zenon

(* A command that fits one frame.                                          *)
LEMMA SingleFrame ==
  ASSUME NEW l \in LogicalCommand, ~l.claChained, UsesExtended(l) \/ FitsOneShort(l)
  PROVE  /\ Len(Frames(l)) = 1
         /\ Frames(l)[1].header = l.header /\ ~Frames(l)[1].chained
         /\ Frames(l)[1].data = l.data
<1>1. CASE UsesExtended(l)
  <2>1. Frames(l) = <<ExtendedFrame(l)>>
    BY <1>1 DEF Frames
  <2> QED
    BY <2>1 DEF ExtendedFrame, Frame
<1>2. CASE ~UsesExtended(l) /\ FitsOneShort(l)
  <2>1. Frames(l) = <<Frame(l, l.claChained, l.data, EffectiveLe(l), FALSE)>>
    BY <1>2 DEF Frames
  <2> QED
    BY <2>1 DEF Frame
<1> QED
  BY <1>1, <1>2

(* The fragments of a chain, and the data they carry.                      *)
LEMMA ChainFrames ==
  ASSUME NEW l \in LogicalCommand, Encodable(l), ~UsesExtended(l), ~FitsOneShort(l)
  PROVE  /\ Len(Frames(l)) \in Nat /\ Len(Frames(l)) >= 1
         /\ \A i \in 1 .. Len(Frames(l)) :
              /\ Frames(l)[i].header = l.header
              /\ Frames(l)[i].chained <=> i < Len(Frames(l))
              /\ Prefix(l, i - 1) \o Frames(l)[i].data = Prefix(l, i)
<1> DEFINE M == MaxShort
           k == Len(l.data)
           n == FragmentCount(l)
<1>1. M \in Nat /\ M # 0
  BY OptionsAssumption DEF Encodable, OverLimit, MayChain, MaxShort, MinOf
<1>2. l.data \in Seq(Byte) /\ k \in Nat /\ k # 0
  BY DEF FitsOneShort, LogicalCommand
<1>3. n \in Nat /\ n >= 1
  BY <1>1, <1>2, CountPositive DEF FragmentCount
<1>4. (n - 1) * M < k /\ k <= n * M
  BY <1>1, <1>2, CountExact DEF FragmentCount
<1>5. Frames(l) = Fragments(l) /\ DOMAIN Fragments(l) = 1 .. n
  BY DEF Frames, Fragments
<1>6. Len(Frames(l)) = n
  <2>1. Frames(l) \in Seq(CommandApdu)
    BY FramesFit
  <2> HIDE DEF n
  <2> QED  BY <1>3, <1>5, <2>1
<1>7. ASSUME NEW i \in 1 .. n
      PROVE  /\ Frames(l)[i].header = l.header
             /\ Frames(l)[i].chained <=> i < n
             /\ Prefix(l, i - 1) \o Frames(l)[i].data = Prefix(l, i)
  <2> DEFINE lo == (i - 1) * M
             hi == MinOf(i * M, k)
             bytes == SubSeq(l.data, lo + 1, hi)
  <2>1. /\ Frames(l)[i].header = l.header
        /\ Frames(l)[i].chained = ~(i = n)
        /\ Frames(l)[i].data = bytes
    BY <1>5 DEF Fragments, Frame
  <2>2. i \in Nat /\ i >= 1 /\ i <= n
    BY <1>3
  <2>3. lo \in Nat /\ i * M \in Nat /\ i * M = lo + M
    BY <1>1, <2>2, FragmentArithmetic
  <2>4. lo < k
    <3>1. (i - 1) * M <= (n - 1) * M
      <4> HIDE DEF n, M
      <4>1. i - 1 \in Nat /\ n - 1 \in Nat /\ i - 1 <= n - 1
        BY <1>3, <2>2
      <4> QED  BY <1>1, <4>1, FewerFragments
    <3>2. (n - 1) * M \in Nat
      <4> HIDE DEF n, M
      <4> QED  BY <1>1, <1>3, FragmentArithmetic
    <3> QED  BY <1>2, <1>4, <2>3, <3>1, <3>2
  <2>5. lo <= hi /\ hi \in Nat /\ hi <= k
    <3> DEFINE x == i * M
    <3>1. x \in Nat /\ lo \in Nat /\ k \in Nat /\ lo < k /\ lo <= x
      BY <1>1, <1>2, <2>3, <2>4
    <3> HIDE DEF x, lo, k
    <3>2. MinOf(x, k) \in Nat /\ lo <= MinOf(x, k) /\ MinOf(x, k) <= k
      BY <3>1 DEF MinOf
    <3> QED  BY <3>2 DEF x
  <2>6. Prefix(l, i - 1) = SubSeq(l.data, 1, lo)
    <3>1. ~(i - 1 >= Len(Frames(l)))
      BY <1>3, <1>6, <2>2
    <3> QED  BY <3>1 DEF Prefix
  <2>7. Prefix(l, i) = SubSeq(l.data, 1, hi)
    <3>1. CASE i = n
      <4>1. hi = k
        BY <1>2, <1>4, <2>3, <3>1 DEF MinOf
      <4>2. Prefix(l, i) = l.data
        BY <1>3, <1>6, <2>2, <3>1 DEF Prefix
      <4> QED  BY <1>2, <4>1, <4>2, SubSeqFull
    <3>2. CASE i # n
      <4>1. i < n /\ ~(i >= Len(Frames(l)))
        BY <1>3, <1>6, <2>2, <3>2
      <4>2. i * M <= (n - 1) * M
        <5> HIDE DEF n, M
        <5>1. n - 1 \in Nat /\ i <= n - 1
          BY <1>3, <2>2, <4>1
        <5> QED  BY <1>1, <2>2, <5>1, FewerFragments
      <4>3. (n - 1) * M \in Nat
        <5> HIDE DEF n, M
        <5> QED  BY <1>1, <1>3, FragmentArithmetic
      <4>4. hi = i * M
        BY <1>2, <1>4, <2>3, <4>2, <4>3 DEF MinOf
      <4> QED  BY <4>1, <4>4 DEF Prefix
    <3> QED  BY <3>1, <3>2
  <2>8. SubSeq(l.data, 1, lo) \o bytes = SubSeq(l.data, 1, hi)
    <3> HIDE DEF lo, hi
    <3>1. 1 \in 1 .. Len(l.data) + 1 /\ lo \in 1 - 1 .. Len(l.data) /\ hi \in lo .. Len(l.data)
      BY <1>2, <2>3, <2>4, <2>5
    <3> QED  BY <1>2, <3>1, ConcatAdjacentSubSeq
  <2>9. Frames(l)[i].chained <=> i < n
    <3> HIDE DEF n
    <3>1. (i < n) <=> ~(i = n)
      BY <1>3, <2>2
    <3> QED  BY <2>1, <3>1
  <2> QED
    BY <2>1, <2>6, <2>7, <2>8, <2>9
<1> QED
  <2> HIDE DEF n
  <2> QED  BY <1>3, <1>6, <1>7

(* The frames of a command carry its data, in order: each the next piece,  *)
(* the last one without the chaining bit.                                  *)
LEMMA FramesCarry ==
  ASSUME NEW l \in LogicalCommand, Encodable(l), ~l.claChained
  PROVE  /\ Len(Frames(l)) \in Nat /\ Len(Frames(l)) >= 1
         /\ \A i \in 1 .. Len(Frames(l)) :
              IsFrame(Frames(l)[i], l, i) /\ Prefix(l, i - 1) \o Frames(l)[i].data = Prefix(l, i)
         /\ Prefix(l, 0) = <<>> /\ Prefix(l, Len(Frames(l))) = l.data
<1> DEFINE n == Len(Frames(l))
<1>1. l.data \in Seq(Byte) /\ MaxShort \in Nat
  BY OptionsAssumption DEF LogicalCommand, MaxShort, MinOf
<1>2. n \in Nat /\ n >= 1
  <2>1. Frames(l) \in Seq(CommandApdu) /\ Frames(l) # <<>>
    BY FramesFit
  <2> QED  BY <2>1
<1>3. Prefix(l, 0) = <<>>
  <2>1. Prefix(l, 0) = SubSeq(l.data, 1, 0 * MaxShort)
    <3>1. ~(0 >= n)
      BY <1>2
    <3> QED  BY <3>1, Zenon DEF Prefix
  <2>2. 0 * MaxShort = 0
    BY <1>1
  <2> QED  BY <2>1, <2>2, SubSeqEmpty
<1>4. Prefix(l, n) = l.data
  BY <1>2 DEF Prefix
<1>5. \A i \in 1 .. n :
        IsFrame(Frames(l)[i], l, i) /\ Prefix(l, i - 1) \o Frames(l)[i].data = Prefix(l, i)
  <2>1. CASE UsesExtended(l) \/ FitsOneShort(l)
    <3>1. /\ n = 1 /\ Frames(l)[1].header = l.header /\ ~Frames(l)[1].chained
          /\ Frames(l)[1].data = l.data
      BY <2>1, SingleFrame
    <3>2. <<>> \o l.data = l.data
      BY <1>1, ConcatEmptySeq
    <3>3. IsFrame(Frames(l)[1], l, 1)
      BY <3>1 DEF IsFrame
    <3>4. Prefix(l, 1 - 1) \o Frames(l)[1].data = Prefix(l, 1)
      <4>1. 1 - 1 = 0
        OBVIOUS
      <4> QED  BY <1>3, <1>4, <3>1, <3>2, <4>1, Zenon
    <3> QED
      <4> SUFFICES ASSUME NEW i \in 1 .. n
                   PROVE  IsFrame(Frames(l)[i], l, i)
                          /\ Prefix(l, i - 1) \o Frames(l)[i].data = Prefix(l, i)
        OBVIOUS
      <4>1. i = 1
        BY <3>1
      <4> QED  BY <3>3, <3>4, <4>1
  <2>2. CASE ~UsesExtended(l) /\ ~FitsOneShort(l)
    <3>1. \A i \in 1 .. n :
            /\ Frames(l)[i].header = l.header
            /\ Frames(l)[i].chained <=> i < n
            /\ Prefix(l, i - 1) \o Frames(l)[i].data = Prefix(l, i)
      BY <2>2, ChainFrames
    <3> QED
      BY <3>1 DEF IsFrame
  <2> QED  BY <2>1, <2>2
<1> QED
  BY <1>2, <1>3, <1>4, <1>5

-----------------------------------------------------------------------------
(* The script, and what the host sends of it                               *)

(* What the factories guarantee of every command of a script.              *)
LEMMA ScriptFacts ==
  ASSUME CEType, NEW i \in 1 .. Len(script)
  PROVE  /\ script[i] \in LogicalCommand /\ script[i] \in MachineCommand
         /\ Encodable(script[i]) /\ ~script[i].claChained
         /\ script[i].header \notin {GetResponse, SendRemaining}
         /\ script[i].header \in Headers
         /\ script[i].continuation = "None" => script[i].header \in Unpaged
         /\ script[i].correctLe => script[i].header \in Reads
         /\ dialect = "OathLegacy" /\ script[i].continuation # "None" =>
              script[i].continuation = "Oath" /\ script[i].probeAfterSuccess
<1>1. script \in Scripts /\ dialect \in Dialects(script)
  BY DEF CEType
<1>2. script \in Seq(MachineCommand)
  BY <1>1, ScriptAssumption
<1>3. script[i] \in MachineCommand
  BY <1>2
<1>4. Encodable(script[i]) /\ ~script[i].claChained
  BY <1>1, ScriptAssumption
<1>5. script[i].header \notin {GetResponse, SendRemaining}
  BY <1>1, ScriptAssumption
<1>6. script[i].header \in Headers
  BY DEF Headers
<1>7. script[i].continuation = "None" => script[i].header \in Unpaged
  BY DEF Unpaged
<1>8. script[i].correctLe => script[i].header \in Reads
  BY DEF Reads
<1>9. dialect = "OathLegacy" => "OathLegacy" \in Dialects(script)
  BY <1>1
<1>10. dialect = "OathLegacy" /\ script[i].continuation # "None" =>
         script[i].continuation = "Oath" /\ script[i].probeAfterSuccess
  BY <1>1, <1>9, ScriptAssumption
<1> QED
  BY <1>3, <1>4, <1>5, <1>6, <1>7, <1>8, <1>10, MachineAssumption

(* A script has a first command.                                           *)
LEMMA ScriptLength ==
  ASSUME CEType
  PROVE  Len(script) \in Nat /\ Len(script) >= 1 /\ Len(delivered) \in Nat /\ Len(executed) \in Nat
<1>1. script \in Seq(MachineCommand) /\ script # <<>>
  BY ScriptAssumption DEF CEType
<1> QED
  BY <1>1 DEF CEType

(* A new conversation is about to send the first frame.                    *)
LEMMA NewSends ==
  ASSUME NEW l \in LogicalCommand, Encodable(l), ~l.claChained
  PROVE  /\ Sends(NewConversation(l), l) /\ Index(NewConversation(l), l) = 1
         /\ NewConversation(l).continuation = l.continuation
         /\ NewConversation(l).probe = l.probeAfterSuccess
         /\ ~NewConversation(l).oathPoll
<1> DEFINE f == Frames(l)
           c == NewConversation(l)
<1>1. f \in Seq(CommandApdu) /\ f # <<>> /\ Len(f) \in Nat /\ Len(f) >= 1
  BY FramesFit
<1>2. \A i \in 1 .. Len(f) : IsFrame(f[i], l, i)
  BY FramesCarry
<1>3. /\ c.current = Head(f) /\ c.pending = Tail(f) /\ c.data = <<>> /\ c.oathPoll = FALSE
      /\ c.correctLe = l.correctLe /\ c.continuation = l.continuation
      /\ c.probe = l.probeAfterSuccess
  BY DEF NewConversation
<1>4. /\ Len(Tail(f)) = Len(f) - 1 /\ Head(f) = f[1]
      /\ \A j \in 1 .. Len(Tail(f)) : Tail(f)[j] = f[1 + j]
  <2> HIDE DEF f
  <2> QED  BY <1>1, HeadTailProperties
<1>5. Index(c, l) = 1
  BY <1>1, <1>3, <1>4 DEF Index
<1>6. IsFrame(c.current, l, 1)
  BY <1>1, <1>2, <1>3, <1>4
<1> HIDE DEF c
<1>7. Sends(c, l)
  BY <1>3, <1>4, <1>5, <1>6 DEF Sends
<1> QED
  BY <1>3, <1>5, <1>7 DEF c

(* After an accepted fragment the next one is sent.                        *)
LEMMA NextSends ==
  ASSUME NEW l \in LogicalCommand, Encodable(l), ~l.claChained,
         NEW c \in ConversationState, Sends(c, l), c.pending # <<>>
  PROVE  /\ Sends(NextFragment(c), l) /\ Index(NextFragment(c), l) = Index(c, l) + 1
         /\ NextFragment(c).continuation = c.continuation
         /\ NextFragment(c).probe = c.probe
         /\ ~NextFragment(c).oathPoll
<1> DEFINE f == Frames(l)
           p == c.pending
           d == NextFragment(c)
           n == Index(c, l)
<1>1. f \in Seq(CommandApdu) /\ Len(f) \in Nat
  BY FramesFit
<1>2. p \in Seq(CommandApdu) /\ p # <<>> /\ Len(p) \in Nat /\ Len(p) >= 1
  BY DEF ConversationState
<1>3. n = Len(f) - Len(p) /\ n \in 1 .. Len(f)
  BY DEF Index, Sends, IsFrame
<1>4. \A j \in 1 .. Len(p) : p[j] = f[n + j]
  BY DEF Sends
<1>5. /\ Len(Tail(p)) = Len(p) - 1 /\ Head(p) = p[1]
      /\ \A j \in 1 .. Len(Tail(p)) : Tail(p)[j] = p[j + 1]
  <2> HIDE DEF p
  <2> QED  BY <1>2, HeadTailProperties
<1>6. /\ d.current = Head(p) /\ d.pending = Tail(p) /\ d.data = c.data
      /\ d.oathPoll = c.oathPoll /\ d.correctLe = c.correctLe
      /\ d.continuation = c.continuation /\ d.probe = c.probe
  BY DEF NextFragment, ConversationState
<1>7. c.data = <<>> /\ ~c.oathPoll /\ (c.correctLe <=> l.correctLe)
  BY DEF Sends
<1>8. \A i \in 1 .. Len(f) : IsFrame(f[i], l, i)
  BY FramesCarry
<1> HIDE DEF f, p, d, n
<1>9. n + 1 \in 1 .. Len(f) /\ Len(f) - (Len(p) - 1) = n + 1
  BY <1>1, <1>2, <1>3
<1>10. Index(d, l) = n + 1
  BY <1>5, <1>6, <1>9 DEF Index, f
<1>11. IsFrame(d.current, l, n + 1)
  BY <1>2, <1>4, <1>5, <1>6, <1>8, <1>9
<1>12. \A j \in 1 .. Len(d.pending) : d.pending[j] = f[(n + 1) + j]
  <2> SUFFICES ASSUME NEW j \in 1 .. Len(p) - 1 PROVE Tail(p)[j] = f[(n + 1) + j]
    BY <1>5, <1>6
  <2>1. Tail(p)[j] = p[j + 1] /\ j + 1 \in 1 .. Len(p)
    BY <1>2, <1>5
  <2>2. p[j + 1] = f[n + (j + 1)] /\ n + (j + 1) = (n + 1) + j
    BY <1>1, <1>3, <1>4, <2>1
  <2> QED  BY <2>1, <2>2
<1>13. Sends(d, l)
  BY <1>6, <1>7, <1>10, <1>11, <1>12 DEF Sends, f
<1> QED
  BY <1>6, <1>7, <1>10, <1>13 DEF d, n

-----------------------------------------------------------------------------
(* The host's steps                                                        *)

Records == RunInOrder /\ Counted /\ ExactReplies

(* An exchange exposes a command, or fails the operation.                  *)
LEMMA Exposed ==
  ASSUME NEW c, Exchange(c)
  PROVE  state' = "Failed" \/ (state' = "AwaitingResponse" /\ conversation' = c)
  BY DEF Exchange, Fail

(* Nothing is promised of an operation that has ended.                     *)
LEMMA Rests ==
  ASSUME state' \notin {"Created", "AwaitingResponse"}
  PROVE  Exchanging' /\ Fresh'
  BY DEF Exchanging, Fresh

(* A command that the card is ready for may be exposed.                    *)
LEMMA Awaits ==
  ASSUME NEW c, NEW l, Exchange(c), link' = Idle, Underway', Cur' = l,
         c.continuation = l.continuation, c.probe = l.probeAfterSuccess,
         c.oathPoll => c.continuation = "Oath", ReadyFor(c, l)'
  PROVE  Exchanging' /\ Fresh'
<1>1. CASE state' = "Failed"
  BY <1>1, Rests
<1>2. CASE state' = "AwaitingResponse" /\ conversation' = c
  <2>1. Fresh'
    BY <1>2 DEF Fresh
  <2>2. link'.tag = "idle"
    BY DEF Idle
  <2>3. Exchanging'
    BY <1>2, <2>2, Zenon DEF Exchanging
  <2> QED  BY <2>1, <2>3
<1> QED
  BY <1>1, <1>2, Exposed

(* No command is in flight on an idle link.                                *)
LEMMA NoneInFlight ==
  ASSUME link'.tag # "command"
  PROVE  InFlight'
  BY DEF InFlight

(* What the card did, and what the machine was told, stays.                *)
LEMMA RecordsStay ==
  ASSUME Records, UNCHANGED <<run, executed, delivered>>
  PROVE  Records' /\ Confirmed' = Confirmed
  BY DEF Records, run, RunInOrder, Counted, Confirmed, ExactReplies

(* A step of the host leaves the card's state alone.                       *)
LEMMA TypesStay ==
  ASSUME CEType, UNCHANGED cardVars, link' \in {Idle, Down} \/ link' = link,
         delivered' \in Seq([data : Seq(Byte), sw1 : 0 .. 255, sw2 : 0 .. 255])
  PROVE  CEType'
<1>1. UNCHANGED <<script, dialect, reply, chain, remaining, executed>>
  BY DEF cardVars, run
<1>2. Headers' = Headers
  BY <1>1 DEF Headers
<1>3. (\/ link \in {Idle, Down}
       \/ link.tag = "command" /\ link.apdu \in CommandApdu
       \/ link.tag = "response" /\ link.apdu \in ResponseApdu)'
  <2>1. CASE link' \in {Idle, Down}
    BY <2>1
  <2>2. CASE link' = link
    BY <2>2 DEF CEType
  <2> QED  BY <2>1, <2>2
<1> QED
  BY <1>1, <1>2, <1>3 DEF CEType

(* A card that is ready for a command stays so while nothing changes.      *)
LEMMA ReadyStays ==
  ASSUME NEW c, NEW l, ReadyFor(c, l), UNCHANGED <<cardVars, delivered>>
  PROVE  ReadyFor(c, l)' /\ Cur' = Cur
<1>1. UNCHANGED <<script, dialect, reply, chain, remaining, executed, delivered>>
  BY DEF cardVars, run
<1> QED
  BY <1>1 DEF ReadyFor, Pages, Cur, Pos

(* The card is ready for the first frame of a command.                     *)
LEMMA ReadyForNew ==
  ASSUME NEW l \in LogicalCommand, Encodable(l), ~l.claChained,
         chain = <<>>, Len(executed) = Len(delivered)
  PROVE  ReadyFor(NewConversation(l), l)
<1>1. Sends(NewConversation(l), l) /\ Index(NewConversation(l), l) = 1
  BY NewSends
<1>2. Prefix(l, 0) = <<>>
  BY FramesCarry
<1>3. chain = Prefix(l, Index(NewConversation(l), l) - 1)
  <2>1. Index(NewConversation(l), l) - 1 = 0
    BY <1>1
  <2> QED  BY <1>2, <2>1, Zenon
<1> QED
  BY <1>1, <1>3, Zenon DEF ReadyFor

(* The machine of a script is driven to an action of its own.              *)
LEMMA NextIsAct ==
  ASSUME CEType, NEW n \in Nat, n >= 1, NEW d, NEW act \in SequenceNext(n, d)
  PROVE  act \in Act
<1>1. CASE n < Len(script) /\ IsSuccess(d)
  <2>1. act = [tag |-> "Command", command |-> script[n + 1]]
    BY <1>1 DEF SequenceNext
  <2>2. n + 1 \in 1 .. Len(script)
    BY <1>1, ScriptLength
  <2>3. script[n + 1] \in MachineCommand
    BY <2>2, ScriptFacts
  <2> QED  BY <2>1, <2>3 DEF Act
<1>2. CASE ~(n < Len(script) /\ IsSuccess(d))
  <2>1. act \in {[tag |-> "Done"], [tag |-> "Error"]}
    BY <1>2 DEF SequenceNext
  <2> QED  BY <2>1 DEF Act
<1> QED
  BY <1>1, <1>2

(* start                                                                   *)
LEMMA StartKeeps ==
  ASSUME CEInv, HostStart
  PROVE  CEInv'
<1> DEFINE act == [tag |-> "Command", command |-> script[1]]
<1>1. CEType /\ Records /\ IInv
  BY DEF CEInv, Records
<1>2. Start(act) /\ UNCHANGED <<link, cardVars, delivered>>
  BY DEF HostStart
<1>3. /\ state = "Created" /\ Drive(act) /\ responseBytes' = responseBytes
      /\ UNCHANGED <<link, script, dialect, reply, chain, remaining, executed, delivered>>
  BY <1>2 DEF Start, cardVars, run
<1>4. delivered = <<>> /\ executed = <<>> /\ chain = <<>> /\ link = Idle
  BY <1>3 DEF CEInv, Fresh
<1>5. 1 \in 1 .. Len(script)
  BY <1>1, ScriptLength
<1>6. /\ script[1] \in LogicalCommand /\ script[1] \in MachineCommand
      /\ Encodable(script[1]) /\ ~script[1].claChained
  BY <1>1, <1>5, ScriptFacts
<1>7. act \in Act
  BY <1>6 DEF Act
<1>8. IInv'
  <2>1. responseBytes' \in Nat /\ responseBytes' <= MaxTotalResponseBytes /\ Working
    BY <1>1, <1>3 DEF IInv, TypeOK, Budgets, Working
  <2> QED  BY <1>1, <1>3, <1>7, <2>1, DriveKeeps
<1>9. CEType'
  BY <1>1, <1>2, <1>3, TypesStay DEF CEType
<1>10. Records'
  BY <1>1, <1>2, RecordsStay DEF cardVars
<1>11. InFlight'
  <2>1. link'.tag = "idle"
    BY <1>3, <1>4 DEF Idle
  <2> QED  BY <2>1, NoneInFlight
<1>12. PICK l : l = script[1]
  OBVIOUS
<1>13. Exchange(NewConversation(l))
  BY <1>3, <1>6, <1>12 DEF Drive
<1>14. Cur = l /\ Cur' = l /\ Underway'
  <2>1. Len(delivered) = 0 /\ Len(delivered') = 0 /\ script' = script
    BY <1>3, <1>4
  <2> QED  BY <1>5, <1>12, <2>1 DEF Cur, Pos, Underway, Confirmed
<1>15. ReadyFor(NewConversation(l), l)
  BY <1>4, <1>6, <1>12, ReadyForNew
<1>16. ReadyFor(NewConversation(l), l)'
  BY <1>2, <1>15, ReadyStays
<1>17. /\ NewConversation(l).continuation = l.continuation
       /\ NewConversation(l).probe = l.probeAfterSuccess
       /\ ~NewConversation(l).oathPoll
  BY <1>6, <1>12, NewSends
<1>18. link' = Idle
  BY <1>3, <1>4
<1>19. Exchanging' /\ Fresh'
  BY <1>13, <1>14, <1>16, <1>17, <1>18, Awaits
<1> QED
  BY <1>8, <1>9, <1>10, <1>11, <1>19 DEF CEInv, Records

(* The application sends the pending command.                              *)
LEMMA SendKeeps ==
  ASSUME CEInv, HostSend
  PROVE  CEInv'
<1>1. /\ state = "AwaitingResponse" /\ link = Idle
      /\ link' = [tag |-> "command", apdu |-> conversation.current]
      /\ UNCHANGED <<vars, cardVars, delivered>>
  BY DEF HostSend
<1>2. CEType /\ Records /\ IInv
  BY DEF CEInv, Records
<1>3. PICK c, l : c = conversation /\ l = Cur
  OBVIOUS
<1>4. /\ state' = state /\ conversation' = c
      /\ UNCHANGED <<script, dialect, reply, chain, remaining, executed, delivered>>
  BY <1>1, <1>3 DEF vars, cardVars, run
<1>5. IInv'
  BY <1>1, <1>2 DEF vars, IInv, TypeOK, WorkingState, ChannelFit, Fits, Budgets
<1>6. c \in ConversationState
  BY <1>1, <1>2, <1>3 DEF IInv, TypeOK, WorkingState
<1>7. link'.tag = "command" /\ link'.apdu = c.current /\ c.current \in CommandApdu
  BY <1>1, <1>3, <1>6 DEF ConversationState
<1>8. CEType'
  <2>1. Headers' = Headers
    BY <1>4 DEF Headers
  <2> QED  BY <1>2, <1>4, <1>7, <2>1 DEF CEType
<1>9. Records' /\ Confirmed' = Confirmed
  BY <1>1, <1>2, RecordsStay DEF cardVars
<1>10. /\ Underway /\ c.continuation = l.continuation /\ c.probe = l.probeAfterSuccess
       /\ c.oathPoll => c.continuation = "Oath"
       /\ ReadyFor(c, l)
  BY <1>1, <1>3 DEF CEInv, Exchanging, Idle
<1>11. ReadyFor(c, l)' /\ Cur' = l /\ Underway'
  BY <1>1, <1>3, <1>4, <1>9, <1>10, ReadyStays DEF Underway, Pos
<1>12. Exchanging'
  BY <1>1, <1>4, <1>7, <1>10, <1>11, Zenon DEF Exchanging
<1>13. Fresh'
  BY <1>1, <1>4 DEF Fresh
<1>14. InFlight'
  <2>1. CASE Sends(c, l) /\ Len(executed) = Len(delivered) /\ chain = Prefix(l, Index(c, l) - 1)
    <3>1. PICK i : i = Index(c, l)
      OBVIOUS
    <3>2. IsFrame(c.current, l, i) /\ i \in 1 .. Len(Frames(l))
      BY <2>1, <3>1 DEF Sends, IsFrame
    <3>3. chain' = Prefix(l, i - 1) /\ Len(executed') = Len(delivered')
      BY <1>4, <2>1, <3>1
    <3> QED  BY <1>7, <1>11, <3>2, <3>3, Zenon DEF InFlight
  <2>2. CASE Pages(c, l) /\ Len(executed) = Pos
    <3>1. /\ c.current.header \in {GetResponse, SendRemaining} /\ ~c.current.chained
          /\ Len(executed') = Pos'
      BY <1>4, <2>2 DEF Pages, Pos
    <3> QED  BY <1>7, <1>11, <3>1, Zenon DEF InFlight
  <2> QED  BY <1>10, <2>1, <2>2 DEF ReadyFor
<1> QED
  BY <1>5, <1>8, <1>9, <1>12, <1>13, <1>14 DEF CEInv, Records

(* cancel and take_result end the operation; a break, the link.            *)
LEMMA EndKeeps ==
  ASSUME CEInv, HostCancel \/ HostTake
  PROVE  CEInv'
<1>1. CEType /\ Records /\ IInv /\ InFlight
  BY DEF CEInv, Records
<1>2. /\ state' \in {"Cancelled", "ResultTaken"}
      /\ Cancel \/ TakeResult
      /\ UNCHANGED <<link, cardVars, delivered>>
  BY DEF HostCancel, HostTake, Cancel, TakeResult
<1>3. IInv'
  BY <1>1, <1>2, NextIInv DEF Next
<1>4. CEType'
  BY <1>1, <1>2, TypesStay DEF CEType
<1>5. Records'
  BY <1>1, <1>2, RecordsStay DEF cardVars
<1>6. Exchanging' /\ Fresh'
  BY <1>2, Rests
<1>7. InFlight'
  <2>1. UNCHANGED <<link, script, dialect, reply, chain, remaining, executed, delivered>>
    BY <1>2 DEF cardVars, run
  <2> QED
    BY <1>1, <2>1 DEF InFlight, Underway, Confirmed, Cur, Pos
<1> QED
  BY <1>3, <1>4, <1>5, <1>6, <1>7 DEF CEInv, Records

(* The transport breaks.                                                   *)
LEMMA BreakKeeps ==
  ASSUME CEInv, Break
  PROVE  CEInv'
<1>1. CEType /\ Records /\ IInv /\ Exchanging /\ Fresh
  BY DEF CEInv, Records
<1>2. /\ link.tag \in {"command", "response"} /\ link' = Down
      /\ UNCHANGED <<vars, cardVars, delivered>>
  BY DEF Break
<1>3. IInv'
  BY <1>1, <1>2 DEF vars, IInv, TypeOK, WorkingState, ChannelFit, Fits, Budgets
<1>4. CEType'
  BY <1>1, <1>2, TypesStay DEF CEType
<1>5. Records' /\ Confirmed' = Confirmed
  BY <1>1, <1>2, RecordsStay DEF cardVars
<1>6. link'.tag = "down"
  BY <1>2 DEF Down
<1>7. InFlight'
  BY <1>6, NoneInFlight
<1>8. state # "Created"
  BY <1>1, <1>2 DEF Fresh, Idle
<1>9. /\ state' = state /\ conversation' = conversation
      /\ UNCHANGED <<script, delivered>>
  BY <1>2 DEF vars, cardVars, run
<1>10. Fresh'
  BY <1>8, <1>9 DEF Fresh
<1>11. Underway' = Underway /\ Cur' = Cur
  BY <1>5, <1>9 DEF Underway, Cur, Pos
<1>12. Exchanging'
  BY <1>1, <1>6, <1>9, <1>11, Zenon DEF Exchanging
<1> QED
  BY <1>3, <1>4, <1>5, <1>7, <1>10, <1>12 DEF CEInv, Records

-----------------------------------------------------------------------------
(* What the host makes of a response                                       *)

(* A corrected command is the same frame or continuation.                  *)
LEMMA CorrectedReady ==
  ASSUME NEW c \in ConversationState, NEW l, NEW r \in ResponseApdu,
         Told(c, l, r), CorrectsLe(c, r)
  PROVE  /\ ReadyFor(Corrected(c, r), l)
         /\ Corrected(c, r).continuation = c.continuation
         /\ Corrected(c, r).probe = c.probe
         /\ Corrected(c, r).oathPoll = c.oathPoll
<1> DEFINE d == Corrected(c, r)
<1>1. c.current \in CommandApdu
  BY DEF ConversationState
<1>2. /\ d.current.header = c.current.header /\ d.current.chained = c.current.chained
      /\ d.current.data = c.current.data
  BY <1>1 DEF Corrected, ConversationState, CommandApdu
<1>3. /\ d.pending = c.pending /\ d.data = c.data /\ d.oathPoll = c.oathPoll
      /\ d.correctLe = c.correctLe /\ d.continuation = c.continuation /\ d.probe = c.probe
  BY DEF Corrected, ConversationState
<1>4. ReadyFor(c, l)
  BY DEF Told, CorrectsLe, Served, FragmentAccepted, IsSuccess, SuccessSw1, MoreSw1, WrongLeSw1
<1> HIDE DEF d
<1>5. Index(d, l) = Index(c, l)
  BY <1>3 DEF Index
<1>6. CASE Sends(c, l) /\ Len(executed) = Len(delivered) /\ chain = Prefix(l, Index(c, l) - 1)
  <2>1. IsFrame(d.current, l, Index(c, l))
    BY <1>2, <1>6 DEF Sends, IsFrame
  <2>2. Sends(d, l)
    BY <1>3, <1>5, <1>6, <2>1 DEF Sends
  <2>3. ReadyFor(d, l)
    BY <1>5, <1>6, <2>2, Zenon DEF ReadyFor
  <2> QED  BY <1>3, <2>3 DEF d
<1>7. CASE /\ Pages(c, l) /\ Len(executed) = Pos /\ chain = <<>>
           /\ c.data \o remaining = reply[l.header]
  <2>1. Pages(d, l)
    BY <1>2, <1>3, <1>7 DEF Pages
  <2>2. ReadyFor(d, l)
    BY <1>3, <1>7, <2>1, Zenon DEF ReadyFor
  <2> QED  BY <1>3, <2>2 DEF d
<1> QED
  BY <1>4, <1>6, <1>7 DEF ReadyFor

(* The card took the fragment and waits for the next one.                  *)
LEMMA FragmentReady ==
  ASSUME NEW c \in ConversationState,
         NEW l \in LogicalCommand, Encodable(l), ~l.claChained,
         NEW r, Told(c, l, r), InChain(c, r), FragmentAccepted(r)
  PROVE  /\ ReadyFor(NextFragment(c), l)
         /\ NextFragment(c).continuation = c.continuation
         /\ NextFragment(c).probe = c.probe
         /\ ~NextFragment(c).oathPoll
<1>1. c.pending # <<>> /\ r.sw1 = 144
  BY DEF InChain, FragmentAccepted, IsSuccess, SuccessSw1
<1>2. Sends(c, l) /\ Len(executed) = Len(delivered) /\ chain = Prefix(l, Index(c, l))
  <2>1. r.sw1 # 105 /\ r.sw1 # WrongLeSw1
    BY <1>1 DEF WrongLeSw1
  <2> QED  BY <1>1, <2>1, Zenon DEF Told, Served
<1>3. /\ Sends(NextFragment(c), l) /\ Index(NextFragment(c), l) = Index(c, l) + 1
      /\ NextFragment(c).continuation = c.continuation
      /\ NextFragment(c).probe = c.probe
      /\ ~NextFragment(c).oathPoll
  BY <1>1, <1>2, NextSends
<1>4. Index(c, l) \in Int
  BY <1>2 DEF Sends, IsFrame
<1>5. Index(NextFragment(c), l) - 1 = Index(c, l)
  BY <1>3, <1>4
<1>6. ReadyFor(NextFragment(c), l)
  BY <1>2, <1>3, <1>5, Zenon DEF ReadyFor
<1> QED
  BY <1>3, <1>6

(* A page was kept; SEND REMAINING asks for the next, or polls.            *)
LEMMA OathReady ==
  ASSUME NEW c \in ConversationState, NEW l, NEW r \in ResponseApdu,
         Told(c, l, r), OathMore(c, r), remaining \in Seq(Byte)
  PROVE  /\ ReadyFor(OathNext(c, r), l)
         /\ OathNext(c, r).continuation = c.continuation
         /\ OathNext(c, r).probe = c.probe
         /\ c.continuation = "Oath"
<1> DEFINE d == OathNext(c, r)
<1>1. /\ c.pending = <<>> /\ c.continuation = "Oath"
      /\ r.sw1 = MoreSw1 \/ (IsSuccess(r) /\ r.data # <<>>)
  BY DEF OathMore, Final
<1>2. Served(c, l, r)
  BY <1>1 DEF Told, IsSuccess, SuccessSw1, MoreSw1, WrongLeSw1
<1>3. /\ d.pending = c.pending /\ d.data = c.data \o r.data /\ d.oathPoll = IsSuccess(r)
      /\ d.current.header = SendRemaining /\ d.current.chained = FALSE
      /\ d.continuation = c.continuation /\ d.probe = c.probe
  BY DEF OathNext, ConversationState
<1>4. c.data \in Seq(Byte) /\ r.data \in Seq(Byte)
  BY DEF ConversationState, ResponseApdu
<1>5. PICK e : e = c.data \o r.data
  OBVIOUS
<1>6. e \in Seq(Byte)
  BY <1>4, <1>5, ConcatProperties
<1>7. remaining = <<>> => e \o remaining = e
  BY <1>6, ConcatEmptySeq
<1>8. e \o remaining = reply[l.header] /\ Len(executed) = Pos /\ chain = <<>>
  BY <1>2, <1>5 DEF Served
<1>9. IsSuccess(r) /\ dialect # "OathLegacy" => e = reply[l.header]
  <2>1. IsSuccess(r) /\ dialect # "OathLegacy" => remaining = <<>>
    BY <1>2 DEF Served, IsSuccess, SuccessSw1, MoreSw1
  <2> QED  BY <1>7, <1>8, <2>1
<1> HIDE DEF d
<1>10. d.data = e /\ d.oathPoll = IsSuccess(r)
  BY <1>3, <1>5
<1>11. Pages(d, l)
  BY <1>1, <1>3, <1>9, <1>10 DEF Pages
<1>12. ReadyFor(d, l)
  BY <1>8, <1>10, <1>11, Zenon DEF ReadyFor
<1> QED
  BY <1>1, <1>3, <1>12 DEF d

(* A page was kept; GET RESPONSE asks for the next.                        *)
LEMMA IsoReady ==
  ASSUME NEW c \in ConversationState, NEW l, NEW r \in ResponseApdu,
         Told(c, l, r), IsoMore(c, r), c.oathPoll => c.continuation = "Oath"
  PROVE  /\ ReadyFor(IsoNext(c, r), l)
         /\ IsoNext(c, r).continuation = c.continuation
         /\ IsoNext(c, r).probe = c.probe
         /\ ~IsoNext(c, r).oathPoll
<1> DEFINE d == IsoNext(c, r)
<1>1. c.pending = <<>> /\ c.continuation = "Iso7816" /\ r.sw1 = MoreSw1 /\ ~c.oathPoll
  BY DEF IsoMore, Final
<1>2. Served(c, l, r)
  BY <1>1 DEF Told, FragmentAccepted, IsSuccess, SuccessSw1, MoreSw1, WrongLeSw1
<1>3. /\ d.pending = c.pending /\ d.data = c.data \o r.data /\ d.oathPoll = c.oathPoll
      /\ d.current.header = GetResponse /\ d.current.chained = FALSE
      /\ d.continuation = c.continuation /\ d.probe = c.probe
  BY DEF IsoNext, ConversationState
<1>4. /\ (c.data \o r.data) \o remaining = reply[l.header]
      /\ Len(executed) = Pos /\ chain = <<>>
  BY <1>2 DEF Served
<1> HIDE DEF d
<1>5. Pages(d, l)
  BY <1>1, <1>3 DEF Pages
<1>6. d.data \o remaining = reply[l.header]
  BY <1>3, <1>4, Zenon
<1>7. ReadyFor(d, l)
  BY <1>4, <1>5, <1>6, Zenon DEF ReadyFor
<1> QED
  BY <1>1, <1>3, <1>7 DEF d

(* A success that reaches the machine carries the whole reply, of a        *)
(* command that the card has run.                                          *)
LEMMA EndsTrue ==
  ASSUME NEW c \in ConversationState, NEW l, NEW r \in ResponseApdu,
         Told(c, l, r), Ends(c, r), IsSuccess(Delivered(c, r)), remaining \in Seq(Byte),
         c.continuation = l.continuation, c.probe = l.probeAfterSuccess,
         dialect = "OathLegacy" /\ l.continuation # "None" =>
           l.continuation = "Oath" /\ l.probeAfterSuccess
  PROVE  /\ Delivered(c, r).data = reply[l.header]
         /\ Len(executed) = Pos /\ chain = <<>>
<1>1. c.pending = <<>>
  BY DEF Ends, Final
<1>2. CASE PollEnds(c, r)
  <2>1. /\ c.oathPoll /\ r.sw1 = 105 /\ IsConditionsNotSatisfied(r)
        /\ Delivered(c, r).data = c.data
    BY <1>2 DEF PollEnds, IsConditionsNotSatisfied, Delivered
  <2> QED
    BY <1>1, <2>1
    DEF Told, Served, FragmentAccepted, IsSuccess, SuccessSw1, MoreSw1, WrongLeSw1
<1>3. CASE ~PollEnds(c, r)
  <2>1. /\ Delivered(c, r).data = c.data \o r.data
        /\ Delivered(c, r).sw1 = r.sw1 /\ Delivered(c, r).sw2 = r.sw2
    BY <1>3 DEF Delivered
  <2>2. IsSuccess(r) /\ r.sw1 = 144
    BY <2>1 DEF IsSuccess, SuccessSw1
  <2>3. Served(c, l, r)
    BY <1>1, <2>2 DEF Told, WrongLeSw1
  <2>4. remaining = <<>>
    <3>1. CASE r.data # <<>> /\ dialect = "OathLegacy" /\ l.continuation # "None"
      BY <2>2, <3>1 DEF Ends, OathMore
    <3> QED  BY <2>2, <2>3, <3>1 DEF Served, MoreSw1
  <2>5. c.data \in Seq(Byte) /\ r.data \in Seq(Byte)
    BY DEF ConversationState, ResponseApdu
  <2>6. PICK e : e = c.data \o r.data
    OBVIOUS
  <2>7. e \in Seq(Byte)
    BY <2>5, <2>6, ConcatProperties
  <2>8. e \o <<>> = e
    BY <2>7, ConcatEmptySeq
  <2>9. e \o remaining = reply[l.header] /\ Len(executed) = Pos /\ chain = <<>>
    BY <2>3, <2>6 DEF Served
  <2> QED
    BY <2>1, <2>4, <2>6, <2>8, <2>9
<1> QED
  BY <1>2, <1>3

(* The response handed to the machine is recorded.                         *)
LEMMA RecordsGrow ==
  ASSUME CEType, Records, Underway, UNCHANGED cardVars,
         NEW d \in [data : Seq(Byte), sw1 : 0 .. 255, sw2 : 0 .. 255],
         delivered' = Append(delivered, d),
         IsSuccess(d) => d.data = reply[Cur.header] /\ Len(executed) = Pos
  PROVE  /\ Records'
         /\ IsSuccess(d) => Confirmed' /\ Len(executed') = Len(delivered')
<1> DEFINE D == [data : Seq(Byte), sw1 : 0 .. 255, sw2 : 0 .. 255]
           n == Len(delivered)
<1>1. UNCHANGED <<script, reply, executed>>
  BY DEF cardVars, run
<1>2. delivered \in Seq(D) /\ n \in Nat /\ Len(script) \in Nat /\ Len(executed) \in Nat
  BY ScriptLength DEF CEType
<1>3. /\ Len(delivered') = n + 1 /\ delivered'[n + 1] = d
      /\ \A i \in 1 .. n : delivered'[i] = delivered[i]
  BY <1>2, AppendProperties
<1>4. \A i \in 1 .. n : IsSuccess(delivered[i])
  BY DEF Underway, Confirmed
<1>5. n + 1 <= Len(script) /\ Len(executed) \in {n, n + 1}
  BY DEF Underway, Pos, Records, Counted
<1>6. \A i \in 1 .. n : IsSuccess(delivered'[i])
  BY <1>3, <1>4 DEF IsSuccess
<1>7. Confirmed' <=> IsSuccess(d)
  <2>1. \A i \in 1 .. n + 1 : i \in 1 .. n \/ i = n + 1
    BY <1>2
  <2>2. n + 1 \in 1 .. n + 1
    BY <1>2
  <2>3. Confirmed' <=> \A i \in 1 .. n + 1 : IsSuccess(delivered'[i])
    BY <1>3 DEF Confirmed, IsSuccess
  <2> HIDE DEF n
  <2> QED  BY <1>3, <1>6, <2>1, <2>2, <2>3, Zenon
<1>8. RunInOrder'
  BY <1>1 DEF Records, RunInOrder
<1>9. Counted'
  <2>1. (Len(delivered) <= Len(script))'
    BY <1>1, <1>3, <1>5
  <2>2. (\A i \in 1 .. Len(delivered) - 1 : IsSuccess(delivered[i]))'
    <3>1. Len(delivered') - 1 = n
      BY <1>2, <1>3
    <3> QED  BY <1>6, <3>1 DEF IsSuccess
  <2>3. Confirmed' => Len(executed') \in {Len(delivered'), Len(delivered') + 1}
    BY <1>1, <1>2, <1>3, <1>7 DEF Pos
  <2>4. ~Confirmed' => Len(executed') \in {Len(delivered') - 1, Len(delivered')}
    <3>1. Len(delivered') - 1 = n
      BY <1>2, <1>3
    <3> QED  BY <1>1, <1>3, <1>5, <3>1
  <2> QED  BY <2>1, <2>2, <2>3, <2>4 DEF Counted
<1>10. ExactReplies'
  <2> SUFFICES ASSUME NEW i \in 1 .. n + 1, IsSuccess(delivered'[i])
               PROVE  delivered'[i].data = reply[script[i].header]
    BY <1>1, <1>3 DEF ExactReplies, IsSuccess
  <2>1. CASE i \in 1 .. n
    BY <1>3, <1>4, <2>1 DEF Records, ExactReplies
  <2>2. CASE i = n + 1
    BY <1>3, <2>2 DEF Cur, Pos
  <2> QED  BY <1>2, <2>1, <2>2
<1>11. IsSuccess(d) => Len(executed') = Len(delivered')
  BY <1>1, <1>3 DEF Pos
<1> QED
  BY <1>7, <1>8, <1>9, <1>10, <1>11 DEF Records

(* The conversation goes on.                                               *)
LEMMA ContinueKeeps ==
  ASSUME CEInv, HostAdvance, Continue(link.apdu), responseBytes' <= MaxTotalResponseBytes,
         delivered' = delivered
  PROVE  Exchanging' /\ Fresh'
<1>1. CEType /\ Records /\ IInv
  BY DEF CEInv, Records
<1>2. PICK c, l, r : c = conversation /\ l = Cur /\ r = link.apdu
  OBVIOUS
<1>3. /\ state = "AwaitingResponse" /\ link.tag = "response"
      /\ link' = Idle /\ UNCHANGED <<cardVars, delivered>>
  BY DEF HostAdvance
<1>4. c \in ConversationState
  BY <1>1, <1>2, <1>3 DEF IInv, TypeOK, WorkingState
<1>5. r \in ResponseApdu
  BY <1>1, <1>2, <1>3 DEF CEType, Idle, Down
<1>6. /\ Underway /\ c.continuation = l.continuation /\ c.probe = l.probeAfterSuccess
      /\ c.oathPoll => c.continuation = "Oath"
      /\ Told(c, l, r)
  BY <1>2, <1>3 DEF CEInv, Exchanging
<1>7. Pos \in 1 .. Len(script)
  BY <1>1, <1>6, ScriptLength DEF Underway, Pos
<1>8. l \in LogicalCommand /\ Encodable(l) /\ ~l.claChained
  BY <1>1, <1>2, <1>7, ScriptFacts DEF Cur
<1>9. remaining \in Seq(Byte)
  BY <1>1 DEF CEType
<1>10. Underway' /\ Cur' = l
  BY <1>2, <1>3, <1>6 DEF Underway, Confirmed, Cur, Pos, cardVars, run
<1>11. ASSUME NEW d, Exchange(d), ReadyFor(d, l), d.continuation = c.continuation,
              d.probe = c.probe, d.oathPoll => d.continuation = "Oath"
       PROVE  Exchanging' /\ Fresh'
  <2>1. ReadyFor(d, l)'
    BY <1>3, <1>11, ReadyStays
  <2> QED  BY <1>3, <1>6, <1>10, <1>11, <2>1, Awaits
<1>12. CASE CorrectsLe(c, r) /\ Exchange(Corrected(c, r))
  <2>1. /\ ReadyFor(Corrected(c, r), l)
        /\ Corrected(c, r).continuation = c.continuation
        /\ Corrected(c, r).probe = c.probe
        /\ Corrected(c, r).oathPoll = c.oathPoll
    BY <1>4, <1>5, <1>6, <1>12, CorrectedReady
  <2> QED  BY <1>6, <1>11, <1>12, <2>1
<1>13. CASE InChain(c, r) /\ FragmentAccepted(r) /\ Exchange(NextFragment(c))
  <2>1. /\ ReadyFor(NextFragment(c), l)
        /\ NextFragment(c).continuation = c.continuation
        /\ NextFragment(c).probe = c.probe
        /\ ~NextFragment(c).oathPoll
    BY <1>4, <1>6, <1>8, <1>13, FragmentReady
  <2> QED  BY <1>11, <1>13, <2>1
<1>14. CASE OathMore(c, r) /\ Exchange(OathNext(c, r))
  <2>1. /\ ReadyFor(OathNext(c, r), l)
        /\ OathNext(c, r).continuation = c.continuation
        /\ OathNext(c, r).probe = c.probe
        /\ c.continuation = "Oath"
    BY <1>4, <1>5, <1>6, <1>9, <1>14, OathReady
  <2> QED  BY <1>11, <1>14, <2>1
<1>15. CASE IsoMore(c, r) /\ Exchange(IsoNext(c, r))
  <2>1. /\ ReadyFor(IsoNext(c, r), l)
        /\ IsoNext(c, r).continuation = c.continuation
        /\ IsoNext(c, r).probe = c.probe
        /\ ~IsoNext(c, r).oathPoll
    BY <1>4, <1>5, <1>6, <1>15, IsoReady
  <2> QED  BY <1>11, <1>15, <2>1
<1>16. CASE state' = "Failed"
  BY <1>16, Rests
<1>17. \A k : Fail(k) => state' = "Failed"
  BY DEF Fail
<1> QED
  BY <1>2, <1>12, <1>13, <1>14, <1>15, <1>16, <1>17 DEF Continue

(* A response that goes on is not handed to the machine.                   *)
LEMMA ContinueOrEnd ==
  ASSUME Continue(link.apdu)
  PROVE  ~Ends(conversation, link.apdu)
  BY DEF Continue, Ends, Final, InChain, NoProgressPage

(* What the machine is handed has the type of a response.                  *)
LEMMA DeliveredType ==
  ASSUME NEW c \in ConversationState, NEW r \in ResponseApdu
  PROVE  Delivered(c, r) \in [data : Seq(Byte), sw1 : 0 .. 255, sw2 : 0 .. 255]
<1>1. c.data \in Seq(Byte) /\ r.data \in Seq(Byte) /\ r.sw1 \in 0 .. 255 /\ r.sw2 \in 0 .. 255
  BY DEF ConversationState, ResponseApdu
<1>2. c.data \o r.data \in Seq(Byte)
  BY <1>1, ConcatProperties
<1>3. SuccessSw1 \in 0 .. 255 /\ 0 \in 0 .. 255
  BY DEF SuccessSw1
<1> QED
  BY <1>1, <1>2, <1>3 DEF Delivered

(* The conversation ended: the machine takes the response and goes on with *)
(* the next command of the script, or ends.                                *)
LEMMA MachineKeeps ==
  ASSUME CEInv, HostAdvance, Ends(conversation, link.apdu),
         NEW act \in SequenceNext(Pos, Delivered(conversation, link.apdu)), Drive(act),
         delivered' = Append(delivered, Delivered(conversation, link.apdu))
  PROVE  Records' /\ Exchanging' /\ Fresh'
<1>1. CEType /\ Records /\ IInv
  BY DEF CEInv, Records
<1>2. PICK c, l, r : c = conversation /\ l = Cur /\ r = link.apdu
  OBVIOUS
<1>3. /\ state = "AwaitingResponse" /\ link.tag = "response"
      /\ link' = Idle /\ UNCHANGED cardVars
  BY DEF HostAdvance
<1>4. c \in ConversationState
  BY <1>1, <1>2, <1>3 DEF IInv, TypeOK, WorkingState
<1>5. r \in ResponseApdu
  BY <1>1, <1>2, <1>3 DEF CEType, Idle, Down
<1>6. /\ Underway /\ c.continuation = l.continuation /\ c.probe = l.probeAfterSuccess
      /\ Told(c, l, r)
  BY <1>2, <1>3 DEF CEInv, Exchanging
<1>7. Pos \in 1 .. Len(script) /\ Pos \in Nat /\ Pos >= 1
  BY <1>1, <1>6, ScriptLength DEF Underway, Pos
<1>8. dialect = "OathLegacy" /\ l.continuation # "None" =>
        l.continuation = "Oath" /\ l.probeAfterSuccess
  BY <1>1, <1>2, <1>7, ScriptFacts DEF Cur
<1>9. PICK d : d = Delivered(c, r)
  OBVIOUS
<1>10. d \in [data : Seq(Byte), sw1 : 0 .. 255, sw2 : 0 .. 255]
  BY <1>4, <1>5, <1>9, DeliveredType
<1>11. IsSuccess(d) => d.data = reply[l.header] /\ Len(executed) = Pos /\ chain = <<>>
  <2>1. remaining \in Seq(Byte)
    BY <1>1 DEF CEType
  <2> QED  BY <1>2, <1>4, <1>5, <1>6, <1>8, <1>9, <2>1, EndsTrue
<1>12. delivered' = Append(delivered, d)
  BY <1>2, <1>9
<1>13. Records' /\ (IsSuccess(d) => Confirmed' /\ Len(executed') = Len(delivered'))
  BY <1>1, <1>2, <1>3, <1>6, <1>10, <1>11, <1>12, RecordsGrow
<1>14. CASE Pos < Len(script) /\ IsSuccess(d)
  <2>1. PICK k : k = script[Pos + 1]
    OBVIOUS
  <2>2. act = [tag |-> "Command", command |-> k]
    BY <1>2, <1>9, <1>14, <2>1 DEF SequenceNext
  <2>3. Pos + 1 \in 1 .. Len(script)
    BY <1>1, <1>7, <1>14, ScriptLength
  <2>4. k \in LogicalCommand /\ Encodable(k) /\ ~k.claChained
    BY <1>1, <2>1, <2>3, ScriptFacts
  <2>5. Exchange(NewConversation(k))
    BY <2>2, <2>4 DEF Drive
  <2>6. UNCHANGED <<script, executed, chain, dialect, reply, remaining>>
    BY <1>3 DEF cardVars, run
  <2>7. Len(delivered') = Pos
    <3>1. delivered \in Seq([data : Seq(Byte), sw1 : 0 .. 255, sw2 : 0 .. 255])
      BY <1>1 DEF CEType
    <3> QED  BY <1>10, <1>12, <3>1, AppendProperties DEF Pos
  <2>8. Cur' = k /\ Underway'
    <3>1. Pos' = Pos + 1
      BY <2>7 DEF Pos
    <3>2. Cur' = k
      BY <2>1, <2>6, <3>1 DEF Cur
    <3>3. Pos' <= Len(script')
      BY <2>3, <2>6, <3>1
    <3> QED  BY <1>13, <1>14, <3>2, <3>3 DEF Underway
  <2>9. ReadyFor(NewConversation(k), k)'
    <3>1. Sends(NewConversation(k), k) /\ Index(NewConversation(k), k) = 1
      BY <2>4, NewSends
    <3>2. Prefix(k, 0) = <<>>
      BY <2>4, FramesCarry
    <3>3. Index(NewConversation(k), k) - 1 = 0
      BY <3>1
    <3>4. chain' = <<>>
      BY <1>11, <1>14, <2>6
    <3>5. chain' = Prefix(k, Index(NewConversation(k), k) - 1)
      BY <3>2, <3>3, <3>4, Zenon
    <3> QED  BY <1>13, <1>14, <3>1, <3>5, Zenon DEF ReadyFor
  <2>10. /\ NewConversation(k).continuation = k.continuation
         /\ NewConversation(k).probe = k.probeAfterSuccess
         /\ ~NewConversation(k).oathPoll
    BY <2>4, NewSends
  <2>11. Exchanging' /\ Fresh'
    BY <1>3, <2>5, <2>8, <2>9, <2>10, Awaits
  <2> QED  BY <1>13, <2>11
<1>15. CASE ~(Pos < Len(script) /\ IsSuccess(d))
  <2>1. act \in {[tag |-> "Done"], [tag |-> "Error"]}
    BY <1>2, <1>9, <1>15 DEF SequenceNext
  <2>2. state' \in {"Completed", "Failed"}
    BY <2>1 DEF Drive, Fail
  <2> QED  BY <1>13, <2>2, Rests
<1> QED
  BY <1>14, <1>15

(* advance                                                                 *)
LEMMA HostAdvanceKeeps ==
  ASSUME CEInv, HostAdvance
  PROVE  CEInv'
<1>1. CEType /\ Records /\ IInv
  BY DEF CEInv, Records
<1>2. PICK c, r : c = conversation /\ r = link.apdu
  OBVIOUS
<1>3. PICK d : d = Delivered(c, r)
  OBVIOUS
<1>4. PICK act \in SequenceNext(Pos, d) : Advance(r, act)
  BY <1>2, <1>3 DEF HostAdvance, Pos
<1>5. /\ state = "AwaitingResponse" /\ link.tag = "response"
      /\ link' = Idle /\ UNCHANGED cardVars
      /\ delivered' = IF Ends(c, r) /\ responseBytes' <= MaxTotalResponseBytes
                      THEN Append(delivered, d) ELSE delivered
  BY <1>2, <1>3 DEF HostAdvance
<1>6. c \in ConversationState
  BY <1>1, <1>2, <1>5 DEF IInv, TypeOK, WorkingState
<1>7. r \in ResponseApdu
  BY <1>1, <1>2, <1>5 DEF CEType, Idle, Down
<1>8. act \in Act
  <2>1. Pos \in Nat /\ Pos >= 1
    BY <1>1, ScriptLength DEF Pos
  <2> QED  BY <1>1, <1>4, <2>1, NextIsAct
<1>9. IInv'
  BY <1>1, <1>4, <1>7, <1>8, AdvanceKeeps
<1>10. CEType'
  <2>1. d \in [data : Seq(Byte), sw1 : 0 .. 255, sw2 : 0 .. 255]
    BY <1>3, <1>6, <1>7, DeliveredType
  <2>2. delivered' \in Seq([data : Seq(Byte), sw1 : 0 .. 255, sw2 : 0 .. 255])
    <3>1. delivered \in Seq([data : Seq(Byte), sw1 : 0 .. 255, sw2 : 0 .. 255])
      BY <1>1 DEF CEType
    <3>2. delivered' = Append(delivered, d) \/ delivered' = delivered
      BY <1>5
    <3> DEFINE D == [data : Seq(Byte), sw1 : 0 .. 255, sw2 : 0 .. 255]
    <3>3. d \in D /\ delivered \in Seq(D)
      BY <2>1, <3>1
    <3> HIDE DEF D
    <3>4. Append(delivered, d) \in Seq(D)
      BY <3>3
    <3> QED  BY <3>2, <3>3, <3>4 DEF D
  <2> QED  BY <1>1, <1>5, <2>2, TypesStay
<1>11. InFlight'
  <2>1. link'.tag = "idle"
    BY <1>5 DEF Idle
  <2> QED  BY <2>1, NoneInFlight
<1>12. responseBytes' \in Nat /\ MaxTotalResponseBytes \in Nat
  BY <1>9, OptionsAssumption DEF IInv, TypeOK
<1>13. CASE responseBytes' > MaxTotalResponseBytes
  <2>1. state' = "Failed"
    BY <1>4, <1>13 DEF Advance, Fail
  <2>2. delivered' = delivered
    BY <1>5, <1>12, <1>13
  <2>3. Records'
    BY <1>1, <1>5, <2>2, RecordsStay DEF cardVars
  <2> QED  BY <1>9, <1>10, <1>11, <2>1, <2>3, Rests DEF CEInv, Records
<1>14. CASE ~(responseBytes' > MaxTotalResponseBytes) /\ Continue(r)
  <2>1. ~Ends(c, r)
    BY <1>2, <1>14, ContinueOrEnd
  <2>2. delivered' = delivered
    BY <1>5, <2>1
  <2>3. Records'
    BY <1>1, <1>5, <2>2, RecordsStay DEF cardVars
  <2>4. responseBytes' <= MaxTotalResponseBytes
    BY <1>12, <1>14
  <2>5. Exchanging' /\ Fresh'
    BY <1>2, <1>14, <2>2, <2>4, ContinueKeeps
  <2> QED  BY <1>9, <1>10, <1>11, <2>3, <2>5 DEF CEInv, Records
<1>15. CASE ~(responseBytes' > MaxTotalResponseBytes) /\ Ends(c, r) /\ Drive(act)
  <2>1. delivered' = Append(delivered, d)
    BY <1>5, <1>12, <1>15
  <2>2. Records' /\ Exchanging' /\ Fresh'
    BY <1>2, <1>3, <1>4, <1>15, <2>1, MachineKeeps
  <2> QED  BY <1>9, <1>10, <1>11, <2>2 DEF CEInv, Records
<1> QED
  BY <1>2, <1>4, <1>13, <1>14, <1>15 DEF Advance

-----------------------------------------------------------------------------
(* The card's steps                                                        *)

(* The card answers: what it has to show for every answer.                 *)
LEMMA Responds ==
  ASSUME CEInv, link.tag = "command", UNCHANGED <<vars, run, delivered>>,
         NEW r \in ResponseApdu, link' = [tag |-> "response", apdu |-> r],
         chain' \in Seq(Byte), remaining' \in Seq(Byte),
         executed' \in Seq([header : Header, data : Seq(Byte)]),
         RunInOrder', Counted',
         NEW c, NEW l, c = conversation, l = Cur,
         state = "AwaitingResponse" => Told(c, l, r)'
  PROVE  CEInv'
<1>1. CEType /\ Records /\ IInv /\ Exchanging /\ Fresh
  BY DEF CEInv, Records
<1>2. /\ UNCHANGED <<script, dialect, reply, delivered>>
      /\ state' = state /\ conversation' = c
  BY DEF vars, run
<1>3. IInv'
  BY <1>1 DEF vars, IInv, TypeOK, WorkingState, ChannelFit, Fits, Budgets
<1>4. link'.tag = "response" /\ link'.apdu = r
  OBVIOUS
<1>5. CEType'
  <2>1. Headers' = Headers
    BY <1>2 DEF Headers
  <2> QED  BY <1>1, <1>2, <1>4, <2>1 DEF CEType
<1>6. ExactReplies'
  BY <1>1, <1>2 DEF Records, ExactReplies
<1>7. InFlight'
  BY <1>4, NoneInFlight
<1>8. Fresh'
  BY <1>1, <1>2 DEF Fresh, Idle
<1>9. Cur' = l /\ Underway' = Underway
  BY <1>2 DEF Cur, Pos, Underway, Confirmed
<1>10. Exchanging'
  <2>1. CASE state # "AwaitingResponse"
    BY <1>2, <2>1 DEF Exchanging
  <2>2. CASE state = "AwaitingResponse"
    <3>1. /\ Underway /\ c.continuation = l.continuation /\ c.probe = l.probeAfterSuccess
          /\ c.oathPoll => c.continuation = "Oath"
      BY <1>1, <2>2 DEF Exchanging
    <3> QED  BY <1>2, <1>4, <1>9, <2>2, <3>1, Zenon DEF Exchanging
  <2> QED  BY <2>1, <2>2
<1> QED
  BY <1>3, <1>5, <1>6, <1>7, <1>8, <1>10 DEF CEInv

(* A command in flight: its place in the script, and what the conversation *)
(* that sent it knows, if it still runs.                                   *)
LEMMA Received ==
  ASSUME CEInv, link.tag = "command"
  PROVE  /\ CEType /\ Underway /\ RunInOrder /\ Counted
         /\ Pos \in 1 .. Len(script) /\ Pos \in Nat
         /\ Cur \in LogicalCommand /\ Encodable(Cur) /\ ~Cur.claChained
         /\ Cur.header \notin {GetResponse, SendRemaining}
         /\ Cur.header \in Headers /\ reply[Cur.header] \in Seq(Byte)
         /\ link.apdu \in CommandApdu
         /\ state = "AwaitingResponse" =>
              /\ conversation \in ConversationState /\ link.apdu = conversation.current
              /\ ReadyFor(conversation, Cur) /\ conversation.continuation = Cur.continuation
<1>1. CEType /\ IInv /\ RunInOrder /\ Counted
  BY DEF CEInv
<1>2. Underway
  BY DEF CEInv, InFlight
<1>3. Pos \in 1 .. Len(script) /\ Pos \in Nat
  BY <1>1, <1>2, ScriptLength DEF Underway, Pos
<1>4. /\ Cur \in LogicalCommand /\ Encodable(Cur) /\ ~Cur.claChained
      /\ Cur.header \notin {GetResponse, SendRemaining} /\ Cur.header \in Headers
  BY <1>1, <1>3, ScriptFacts DEF Cur
<1>5. reply[Cur.header] \in Seq(Byte)
  BY <1>1, <1>4 DEF CEType
<1>6. link.apdu \in CommandApdu
  BY <1>1 DEF CEType, Idle, Down
<1>7. state = "AwaitingResponse" => conversation \in ConversationState
  BY <1>1 DEF IInv, TypeOK, WorkingState
<1>8. state = "AwaitingResponse" =>
        /\ link.apdu = conversation.current
        /\ ReadyFor(conversation, Cur) /\ conversation.continuation = Cur.continuation
  BY DEF CEInv, Exchanging
<1> QED
  BY <1>1, <1>2, <1>3, <1>4, <1>5, <1>6, <1>7, <1>8

(* A conversation that sends a frame of a command of the script is still   *)
(* sending its frames.                                                     *)
LEMMA StillSends ==
  ASSUME NEW c \in ConversationState, NEW l \in LogicalCommand, Encodable(l), ~l.claChained,
         l.header \notin {GetResponse, SendRemaining},
         ReadyFor(c, l), c.current.header \notin {GetResponse, SendRemaining}
  PROVE  /\ Sends(c, l) /\ Len(executed) = Len(delivered)
         /\ chain = Prefix(l, Index(c, l) - 1)
         /\ Index(c, l) \in 1 .. Len(Frames(l))
         /\ c.current.chained <=> c.pending # <<>>
<1>1. Sends(c, l) /\ Len(executed) = Len(delivered) /\ chain = Prefix(l, Index(c, l) - 1)
  BY DEF ReadyFor, Pages
<1>2. /\ Index(c, l) \in 1 .. Len(Frames(l))
      /\ c.current.chained <=> Index(c, l) < Len(Frames(l))
  BY <1>1 DEF Sends, IsFrame
<1>3. c.pending \in Seq(CommandApdu)
  BY DEF ConversationState
<1>4. Len(Frames(l)) \in Nat
  BY FramesCarry
<1>5. Index(c, l) < Len(Frames(l)) <=> c.pending # <<>>
  <2>1. Len(c.pending) \in Nat /\ (c.pending # <<>> <=> Len(c.pending) # 0)
    BY <1>3
  <2> QED  BY <1>4, <2>1 DEF Index
<1> QED
  BY <1>1, <1>2, <1>5

(* A fragment is joined to the ones before it.                             *)
LEMMA CardFragmentKeeps ==
  ASSUME CEInv, link.tag = "command", CardFragment(link.apdu),
         UNCHANGED <<vars, run, delivered>>
  PROVE  CEInv'
<1> DEFINE r == [data |-> <<>>, sw1 |-> SuccessSw1, sw2 |-> 0]
<1>1. PICK c, l, a : c = conversation /\ l = Cur /\ a = link.apdu
  OBVIOUS
<1>2. /\ CEType /\ Underway /\ RunInOrder /\ Counted
      /\ l \in LogicalCommand /\ Encodable(l) /\ ~l.claChained
      /\ l.header \notin {GetResponse, SendRemaining} /\ a \in CommandApdu
      /\ state = "AwaitingResponse" =>
           c \in ConversationState /\ a = c.current /\ ReadyFor(c, l)
  BY <1>1, Received
<1>3. /\ a.chained /\ chain' = chain \o a.data /\ remaining' = <<>>
      /\ link' = [tag |-> "response", apdu |-> r] /\ executed' = executed
  BY <1>1 DEF CardFragment
<1>4. r \in ResponseApdu
  BY DEF ResponseApdu, SuccessSw1
<1>5. chain' \in Seq(Byte) /\ remaining' \in Seq(Byte)
  <2>1. chain \in Seq(Byte) /\ a.data \in Seq(Byte)
    BY <1>2 DEF CEType, CommandApdu
  <2> QED  BY <1>3, <2>1, ConcatProperties
<1>6. executed' \in Seq([header : Header, data : Seq(Byte)])
  BY <1>2, <1>3 DEF CEType
<1>7. script' = script /\ delivered' = delivered
  BY DEF run
<1>8. RunInOrder' /\ Counted'
  BY <1>2, <1>3, <1>7 DEF RunInOrder, Counted, Confirmed
<1>9. a.header \notin {GetResponse, SendRemaining}
  BY <1>1, <1>2, <1>3 DEF CEInv, InFlight, IsFrame
<1>10. ASSUME state = "AwaitingResponse" PROVE Told(c, l, r)'
  <2>1. c \in ConversationState /\ a = c.current /\ ReadyFor(c, l)
    BY <1>2, <1>10
  <2>2. /\ Sends(c, l) /\ Len(executed) = Len(delivered)
        /\ chain = Prefix(l, Index(c, l) - 1)
        /\ Index(c, l) \in 1 .. Len(Frames(l))
        /\ c.pending # <<>>
    BY <1>2, <1>3, <1>9, <2>1, StillSends
  <2>3. PICK i \in 1 .. Len(Frames(l)) : i = Index(c, l)
    BY <2>2
  <2>4. a.data = Frames(l)[i].data
    BY <2>1, <2>2, <2>3 DEF Sends, IsFrame
  <2>5. Prefix(l, i - 1) \o Frames(l)[i].data = Prefix(l, i)
    BY <1>2, <2>3, FramesCarry
  <2>6. chain' = Prefix(l, Index(c, l))
    BY <1>3, <2>2, <2>3, <2>4, <2>5, Zenon
  <2>7. Len(executed') = Len(delivered')
    BY <1>3, <1>7, <2>2
  <2>8. FragmentAccepted(r)
    BY DEF FragmentAccepted, IsSuccess
  <2> HIDE DEF r
  <2> QED  BY <2>2, <2>6, <2>7, <2>8, Zenon DEF Told
<1> HIDE DEF r
<1> QED
  BY <1>1, <1>3, <1>4, <1>5, <1>6, <1>8, <1>10, Responds

(* The order in which pages are joined does not matter.                    *)
LEMMA Joined == \A s, t, u \in Seq(Byte) : (s \o t) \o u = s \o (t \o u)
<1> TAKE s, t, u \in Seq(Byte)
<1> DEFINE v == (s \o t) \o u
           w == s \o (t \o u)
<1>1. v = w
  BY ONLY s \in Seq(Byte), t \in Seq(Byte), u \in Seq(Byte), ConcatAssociative DEF v, w
<1> QED  BY <1>1

(* A length of any size has a status byte.                                 *)
LEMMA AnnouncedByte ==
  ASSUME NEW n \in Nat
  PROVE  Announced(n) \in 0 .. 255
  BY DEF Announced

(* r is the page that carries the first n bytes, and rest what it leaves.  *)
Cut(data, n, r, rest) ==
  /\ r \in ResponseApdu /\ rest \in Seq(Byte) /\ r.data \o rest = data
  /\ n = Len(data) => IsSuccess(r) /\ rest = <<>>
  /\ n # Len(data) =>
       \/ r.sw1 = MoreSw1
       \/ IsSuccess(r) /\ r.data # <<>> /\ dialect = "OathLegacy"

(* A page and the rest of the reply make up what was left of it.           *)
LEMMA PageServes ==
  ASSUME NEW data \in Seq(Byte), NEW n \in 0 .. Len(data),
         NEW r, r = Page(data, n, n < Len(data)),
         NEW rest, rest = SubSeq(data, n + 1, Len(data)),
         n = 0 => data = <<>> \/ dialect = "Iso"
  PROVE  Cut(data, n, r, rest)
<1>1. Len(data) \in Nat /\ n \in Nat /\ n <= Len(data) /\ (data = <<>> <=> Len(data) = 0)
  OBVIOUS
<1>2. r.data = SubSeq(data, 1, n)
  BY DEF Page
<1>3. /\ SubSeq(data, 1, n) \in Seq(Byte) /\ rest \in Seq(Byte)
      /\ SubSeq(data, 1, n) \o rest = data
      /\ n = Len(data) => rest = <<>>
      /\ Len(SubSeq(data, 1, n)) = n
  BY Split
<1>4. Announced(Len(data) - n) \in 0 .. 255
  <2>1. Len(data) - n \in Nat
    BY <1>1
  <2> QED  BY <2>1, AnnouncedByte
<1>5. SuccessSw1 \in 0 .. 255 /\ MoreSw1 \in 0 .. 255 /\ 0 \in 0 .. 255
  BY DEF SuccessSw1, MoreSw1
<1>6. r.sw1 \in 0 .. 255 /\ r.sw2 \in 0 .. 255
  BY <1>4, <1>5 DEF Page
<1>7. r \in ResponseApdu
  <2>1. r = [data |-> r.data, sw1 |-> r.sw1, sw2 |-> r.sw2]
    BY DEF Page
  <2> QED  BY <1>2, <1>3, <1>6, <2>1 DEF ResponseApdu
<1>8. n = Len(data) => IsSuccess(r)
  <2>1. n = Len(data) => ~(n < Len(data))
    BY <1>1
  <2> QED  BY <2>1 DEF Page, IsSuccess
<1>9. n # Len(data) => r.sw1 = MoreSw1 \/ (IsSuccess(r) /\ r.data # <<>> /\ dialect = "OathLegacy")
  <2>1. n # Len(data) => n < Len(data)
    BY <1>1
  <2>2. n # Len(data) /\ dialect # "OathLegacy" => r.sw1 = MoreSw1
    BY <2>1 DEF Page
  <2>3. n # Len(data) /\ dialect = "OathLegacy" => IsSuccess(r) /\ n # 0
    BY <1>1, <2>1 DEF Page, IsSuccess
  <2>4. n # 0 => r.data # <<>>
    BY <1>2, <1>3
  <2> QED  BY <2>2, <2>3, <2>4
<1> QED
  BY <1>2, <1>3, <1>7, <1>8, <1>9 DEF Cut

(* A served page continues the reply that the conversation collects.       *)
LEMMA ServeTells ==
  ASSUME NEW a \in CommandApdu, NEW data \in Seq(Byte), Serve(a, data),
         NEW l, reply' = reply, dialect' = dialect,
         l.continuation = "None" => a.header \in Unpaged
  PROVE  \E r \in ResponseApdu :
           /\ link' = [tag |-> "response", apdu |-> r]
           /\ remaining' \in Seq(Byte)
           /\ \A c \in ConversationState :
                /\ c.pending = <<>> /\ (Len(executed) = Pos)' /\ chain' = <<>>
                /\ c.data \o data = reply[l.header]
                => Told(c, l, r)'
<1>1. PICK n \in 0 .. MinOf(Len(data), IF a.le = Absent THEN ResponseCapacity ELSE a.le) :
        /\ a.header \in Unpaged => n = Len(data)
        /\ n = 0 => data = <<>> \/ (dialect = "Iso" /\ a.le = Absent)
        /\ link' = [tag |-> "response", apdu |-> Page(data, n, n < Len(data))]
        /\ remaining' = SubSeq(data, n + 1, Len(data))
  BY DEF Serve
<1>2. n \in 0 .. Len(data)
  <2> DEFINE m == IF a.le = Absent THEN ResponseCapacity ELSE a.le
  <2>1. m \in Int /\ Len(data) \in Nat
    BY OptionsAssumption DEF ResponseCapacity, CommandApdu, ExpectedLength, Absent
  <2>2. n \in 0 .. MinOf(Len(data), m)
    OBVIOUS
  <2> HIDE DEF m
  <2> QED  BY <2>1, <2>2 DEF MinOf
<1>3. PICK r : r = Page(data, n, n < Len(data))
  OBVIOUS
<1>4. PICK rest : rest = SubSeq(data, n + 1, Len(data))
  OBVIOUS
<1>5. /\ r \in ResponseApdu /\ rest \in Seq(Byte) /\ r.data \o rest = data
      /\ n = Len(data) => IsSuccess(r) /\ rest = <<>>
      /\ n # Len(data) =>
           \/ r.sw1 = MoreSw1
           \/ IsSuccess(r) /\ r.data # <<>> /\ dialect = "OathLegacy"
  <2>1. n = 0 => data = <<>> \/ dialect = "Iso"
    BY <1>1
  <2>2. Cut(data, n, r, rest)
    BY <1>2, <1>3, <1>4, <2>1, PageServes, Zenon
  <2> QED  BY <2>2 DEF Cut
<1>6. link' = [tag |-> "response", apdu |-> r] /\ remaining' = rest
  BY <1>1, <1>3, <1>4
<1>7. n # Len(data) => l.continuation # "None"
  BY <1>1
<1>8. ASSUME NEW c \in ConversationState, c.pending = <<>>, (Len(executed) = Pos)',
             chain' = <<>>, c.data \o data = reply[l.header]
      PROVE  Told(c, l, r)'
  <2>1. c.data \in Seq(Byte) /\ r.data \in Seq(Byte)
    BY <1>5 DEF ConversationState, ResponseApdu
  <2>2. (c.data \o r.data) \o rest = c.data \o (r.data \o rest)
    <3>1. PICK x \in Seq(Byte), y \in Seq(Byte), z \in Seq(Byte) :
            x = c.data /\ y = r.data /\ z = rest
      BY <1>5, <2>1
    <3>2. (x \o y) \o z = x \o (y \o z)
      BY Joined, SMTT(30)
    <3> QED  BY <3>1, <3>2, Zenon
  <2>3. (c.data \o r.data) \o remaining' = reply'[l.header]
    BY <1>5, <1>6, <1>8, <2>2, Zenon
  <2>4. \/ r.sw1 = MoreSw1 /\ l.continuation # "None"
        \/ IsSuccess(r) /\ remaining' = <<>>
        \/ IsSuccess(r) /\ r.data # <<>> /\ dialect' = "OathLegacy" /\ l.continuation # "None"
    BY <1>5, <1>6, <1>7, Zenon
  <2>5. Served(c, l, r)'
    BY <1>8, <2>3, <2>4, Zenon DEF Served
  <2> QED  BY <2>5, Zenon DEF Told
<1> QED
  BY <1>5, <1>6, <1>8, Zenon

(* A 6Cxx before anything was run.                                         *)
LEMMA WrongLeKeeps ==
  ASSUME CEInv, link.tag = "command", NEW data \in Seq(Byte), WrongLe(link.apdu, data),
         ~link.apdu.chained, UNCHANGED <<vars, run, delivered>>
  PROVE  CEInv'
<1>1. PICK c, l, a : c = conversation /\ l = Cur /\ a = link.apdu
  OBVIOUS
<1>2. /\ CEType /\ Underway /\ RunInOrder /\ Counted
      /\ l \in LogicalCommand /\ Encodable(l) /\ ~l.claChained
      /\ l.header \notin {GetResponse, SendRemaining}
      /\ state = "AwaitingResponse" =>
           c \in ConversationState /\ a = c.current /\ ReadyFor(c, l)
  BY <1>1, Received
<1>3. PICK r : r = [data |-> <<>>, sw1 |-> WrongLeSw1, sw2 |-> Announced(Len(data))]
  OBVIOUS
<1>4. /\ link' = [tag |-> "response", apdu |-> r]
      /\ UNCHANGED <<chain, remaining, executed>>
  BY <1>3 DEF WrongLe
<1>5. r \in ResponseApdu
  <2>1. Len(data) \in Nat
    OBVIOUS
  <2>2. Announced(Len(data)) \in 0 .. 255
    BY <2>1, AnnouncedByte
  <2> QED  BY <1>3, <2>2 DEF ResponseApdu, WrongLeSw1
<1>6. UNCHANGED <<script, dialect, reply, delivered>>
  BY DEF run
<1>7. RunInOrder' /\ Counted'
  BY <1>2, <1>4, <1>6 DEF RunInOrder, Counted, Confirmed
<1>8. ASSUME state = "AwaitingResponse" PROVE Told(c, l, r)'
  <2>1. c \in ConversationState /\ a = c.current /\ ReadyFor(c, l)
    BY <1>2, <1>8
  <2>2. c.pending = <<>>
    <3>1. CASE Pages(c, l)
      BY <3>1 DEF Pages
    <3>2. CASE ~Pages(c, l)
      <4>1. Sends(c, l)
        BY <2>1, <3>2 DEF ReadyFor
      <4>2. c.current.header \notin {GetResponse, SendRemaining}
        BY <1>2, <4>1 DEF Sends, IsFrame
      <4>3. c.current.chained <=> c.pending # <<>>
        BY <1>2, <2>1, <4>2, StillSends
      <4> QED  BY <1>1, <2>1, <4>3
    <3> QED  BY <3>1, <3>2
  <2>3. ReadyFor(c, l)'
    BY <1>4, <2>1, ReadyStays DEF cardVars
  <2>4. r.sw1 = WrongLeSw1 /\ r.data = <<>>
    BY <1>3
  <2> QED  BY <2>2, <2>3, <2>4, Zenon DEF Told
<1>9. /\ chain' \in Seq(Byte) /\ remaining' \in Seq(Byte)
      /\ executed' \in Seq([header : Header, data : Seq(Byte)])
  BY <1>2, <1>4 DEF CEType
<1> QED
  BY <1>1, <1>4, <1>5, <1>7, <1>8, <1>9, Responds

(* The last frame of a command completes its data.                         *)
LEMMA DataComplete ==
  ASSUME CEInv, link.tag = "command", ~link.apdu.chained, link.apdu.header \in Headers
  PROVE  /\ link.apdu.header = Cur.header /\ chain \o link.apdu.data = Cur.data
         /\ Len(executed) = Len(delivered)
<1>1. PICK l, a : l = Cur /\ a = link.apdu
  OBVIOUS
<1>2. l \in LogicalCommand /\ Encodable(l) /\ ~l.claChained /\ CEType
  BY <1>1, Received
<1>3. a.header \notin {GetResponse, SendRemaining}
  <2>1. PICK j \in 1 .. Len(script) : a.header = script[j].header
    BY <1>1 DEF Headers
  <2> QED  BY <1>2, <2>1, ScriptFacts
<1>4. /\ Len(executed) = Len(delivered)
      /\ \E i \in 1 .. Len(Frames(l)) : IsFrame(a, l, i) /\ chain = Prefix(l, i - 1)
  BY <1>1, <1>3 DEF CEInv, InFlight
<1>5. PICK i \in 1 .. Len(Frames(l)) : IsFrame(a, l, i) /\ chain = Prefix(l, i - 1)
  BY <1>4
<1>6. a.header = l.header /\ a.data = Frames(l)[i].data /\ ~(i < Len(Frames(l)))
  BY <1>1, <1>5 DEF IsFrame
<1>7. Prefix(l, i - 1) \o Frames(l)[i].data = Prefix(l, i)
  BY <1>2, FramesCarry
<1>8. Prefix(l, i) = l.data
  <2>1. i >= Len(Frames(l))
    <3>1. Len(Frames(l)) \in Nat
      BY <1>2, FramesCarry
    <3> QED  BY <1>6, <3>1
  <2> QED  BY <2>1, Zenon DEF Prefix
<1> QED
  BY <1>1, <1>4, <1>5, <1>6, <1>7, <1>8, Zenon

(* The card has run the command that the machine waits for.                *)
LEMMA RunNext ==
  ASSUME CEType, Underway, RunInOrder, Counted, Len(executed) = Len(delivered),
         script' = script, delivered' = delivered,
         Cur \in LogicalCommand,
         executed' = Append(executed, [header |-> Cur.header, data |-> Cur.data])
  PROVE  /\ RunInOrder' /\ Counted' /\ (Len(executed) = Pos)'
         /\ executed' \in Seq([header : Header, data : Seq(Byte)])
<1> DEFINE e == [header |-> Cur.header, data |-> Cur.data]
           n == Len(delivered)
<1>1. /\ executed \in Seq([header : Header, data : Seq(Byte)])
      /\ n \in Nat /\ Len(script) \in Nat
  BY ScriptLength DEF CEType
<1>2. e \in [header : Header, data : Seq(Byte)]
  BY DEF LogicalCommand
<1>3. e = [header |-> script[n + 1].header, data |-> script[n + 1].data]
  BY DEF Cur, Pos
<1> HIDE DEF e
<1>4. executed' = Append(executed, e)
  BY DEF e
<1>5. /\ executed' \in Seq([header : Header, data : Seq(Byte)])
      /\ Len(executed') = n + 1 /\ executed'[n + 1] = e
      /\ \A i \in 1 .. n : executed'[i] = executed[i]
  BY <1>1, <1>2, <1>4, AppendProperties
<1>6. n + 1 <= Len(script)
  BY DEF Underway, Pos
<1>7. RunInOrder'
  <2> SUFFICES ASSUME NEW i \in 1 .. n + 1
               PROVE  executed'[i] = [header |-> script[i].header, data |-> script[i].data]
    BY <1>5, <1>6 DEF RunInOrder
  <2>1. CASE i \in 1 .. n
    BY <1>5, <2>1 DEF RunInOrder
  <2>2. CASE i = n + 1
    BY <1>3, <1>5, <2>2
  <2> QED  BY <1>1, <2>1, <2>2
<1>8. Confirmed' /\ Confirmed
  BY DEF Underway, Confirmed
<1>9. Counted'
  BY <1>1, <1>5, <1>8 DEF Counted, Confirmed
<1>10. (Len(executed) = Pos)'
  BY <1>5 DEF Pos
<1> QED
  BY <1>5, <1>7, <1>9, <1>10

(* A command of the script is run, or answered 6Cxx before it is.          *)
LEMMA CardExecuteKeeps ==
  ASSUME CEInv, link.tag = "command", CardExecute(link.apdu),
         UNCHANGED <<vars, run, delivered>>
  PROVE  CEInv'
<1>1. PICK c, l, a : c = conversation /\ l = Cur /\ a = link.apdu
  OBVIOUS
<1>2. /\ CEType /\ Underway /\ RunInOrder /\ Counted
      /\ Pos \in 1 .. Len(script)
      /\ l \in LogicalCommand /\ Encodable(l) /\ ~l.claChained
      /\ l.header \notin {GetResponse, SendRemaining}
      /\ reply[l.header] \in Seq(Byte) /\ a \in CommandApdu
      /\ state = "AwaitingResponse" =>
           c \in ConversationState /\ a = c.current /\ ReadyFor(c, l)
  BY <1>1, Received
<1>3. ~a.chained /\ a.header \in Headers
  BY <1>1 DEF CardExecute
<1>4. a.header = l.header /\ chain \o a.data = l.data /\ Len(executed) = Len(delivered)
  BY <1>1, <1>3, DataComplete
<1>5. CASE WrongLe(a, reply[a.header])
  BY <1>1, <1>2, <1>3, <1>4, <1>5, WrongLeKeeps
<1>6. CASE /\ executed' = Append(executed, [header |-> a.header, data |-> chain \o a.data])
           /\ chain' = <<>>
           /\ Serve(a, reply[a.header]) \/ LateWrongLe(a, reply[a.header])
  <2>1. UNCHANGED <<script, dialect, reply, delivered>> /\ Cur = l
    BY <1>1 DEF run
  <2>2. executed' = Append(executed, [header |-> Cur.header, data |-> Cur.data])
    BY <1>4, <1>6, <2>1, Zenon
  <2>3. /\ RunInOrder' /\ Counted' /\ (Len(executed) = Pos)'
        /\ executed' \in Seq([header : Header, data : Seq(Byte)])
    BY <1>2, <1>4, <2>1, <2>2, RunNext
  <2>4. chain' \in Seq(Byte)
    BY <1>6
  <2>5. state = "AwaitingResponse" =>
          c \in ConversationState /\ Sends(c, l) /\ c.pending = <<>> /\ c.data = <<>>
    BY <1>2, <1>3, <1>4, StillSends DEF Sends
  <2>6. CASE Serve(a, reply[a.header])
    <3>1. l.continuation = "None" => a.header \in Unpaged
      BY <1>1, <1>2, <1>4, ScriptFacts DEF Cur
    <3>2. PICK data \in Seq(Byte) : data = reply[l.header]
      BY <1>2
    <3>3. PICK r \in ResponseApdu :
            /\ link' = [tag |-> "response", apdu |-> r]
            /\ remaining' \in Seq(Byte)
            /\ \A d \in ConversationState :
                 /\ d.pending = <<>> /\ (Len(executed) = Pos)' /\ chain' = <<>>
                 /\ d.data \o data = reply[l.header]
                 => Told(d, l, r)'
      <4>1. Serve(a, data)
        BY <1>4, <2>6, <3>2, Zenon
      <4> QED  BY ONLY <1>2, <2>1, <3>1, <3>2, <4>1, ServeTells, Zenon
    <3>4. <<>> \o data = data
      BY <3>2, ConcatEmptySeq
    <3>5. state = "AwaitingResponse" => Told(c, l, r)'
      BY <1>6, <2>3, <2>5, <3>2, <3>3, <3>4, Zenon
    <3> QED  BY <1>1, <2>3, <2>4, <3>3, <3>5, Responds
  <2>7. CASE LateWrongLe(a, reply[a.header])
    <3>1. PICK r : r = [data |-> <<>>, sw1 |-> WrongLeSw1, sw2 |-> Announced(Len(reply[l.header]))]
      OBVIOUS
    <3>2. /\ link' = [tag |-> "response", apdu |-> r] /\ remaining' = <<>>
          /\ a.header \notin Reads
      BY <1>4, <2>7, <3>1 DEF LateWrongLe
    <3>3. r \in ResponseApdu
      <4>1. Len(reply[l.header]) \in Nat
        BY <1>2
      <4>2. Announced(Len(reply[l.header])) \in 0 .. 255
        BY <4>1, AnnouncedByte
      <4> DEFINE n == Announced(Len(reply[l.header]))
      <4> HIDE DEF n
      <4>3. [data |-> <<>>, sw1 |-> WrongLeSw1, sw2 |-> n] \in ResponseApdu
        BY <4>2 DEF ResponseApdu, WrongLeSw1, n
      <4> QED  BY <3>1, <4>3 DEF n
    <3>4. ~l.correctLe
      BY <1>1, <1>2, <1>4, <3>2, ScriptFacts DEF Cur
    <3>5. r.sw1 = WrongLeSw1
      BY <3>1
    <3>6. state = "AwaitingResponse" => Told(c, l, r)'
      BY <2>5, <3>4, <3>5, Zenon DEF Told, Sends
    <3>7. remaining' \in Seq(Byte)
      BY <3>2
    <3> QED  BY <1>1, <2>3, <2>4, <3>2, <3>3, <3>6, <3>7, Responds
  <2> QED  BY <1>6, <2>6, <2>7
<1> QED
  BY <1>1, <1>5, <1>6 DEF CardExecute

(* The next page of a reply, or 6985 when nothing is left of it.           *)
LEMMA CardContinueKeeps ==
  ASSUME CEInv, link.tag = "command", CardContinue(link.apdu),
         UNCHANGED <<vars, run, delivered>>
  PROVE  CEInv'
<1>1. PICK c, l, a : c = conversation /\ l = Cur /\ a = link.apdu
  OBVIOUS
<1>2. /\ CEType /\ Underway /\ RunInOrder /\ Counted
      /\ l.header \notin {GetResponse, SendRemaining}
      /\ reply[l.header] \in Seq(Byte) /\ a \in CommandApdu
      /\ state = "AwaitingResponse" =>
           /\ c \in ConversationState /\ a = c.current /\ ReadyFor(c, l)
           /\ c.continuation = l.continuation
  BY <1>1, Received
<1>3. a.header \in {GetResponse, SendRemaining} /\ remaining \in Seq(Byte)
  BY <1>1, <1>2 DEF CardContinue, CEType
<1>4. ~a.chained
  BY <1>1, <1>2, <1>3 DEF CEInv, InFlight, IsFrame
<1>5. state = "AwaitingResponse" =>
        /\ Pages(c, l) /\ Len(executed) = Pos /\ chain = <<>>
        /\ c.data \o remaining = reply[l.header]
  BY <1>2, <1>3 DEF ReadyFor, Sends, IsFrame
<1>6. CASE WrongLe(a, remaining)
  BY <1>1, <1>3, <1>4, <1>6, WrongLeKeeps
<1>7. CASE UNCHANGED <<chain, executed>> /\ (Serve(a, remaining) \/ remaining = <<>>)
           /\ ~WrongLe(a, remaining)
  <2>1. UNCHANGED <<script, dialect, reply, delivered>>
    BY DEF run
  <2>2. RunInOrder' /\ Counted'
    BY <1>2, <1>7, <2>1 DEF RunInOrder, Counted, Confirmed
  <2>3. chain' \in Seq(Byte) /\ executed' \in Seq([header : Header, data : Seq(Byte)])
    BY <1>2, <1>7 DEF CEType
  <2>4. state = "AwaitingResponse" =>
          /\ c \in ConversationState /\ c.pending = <<>> /\ l.continuation # "None"
          /\ (Len(executed) = Pos)' /\ chain' = <<>>
    BY <1>2, <1>5, <1>7, <2>1 DEF Pages, Pos
  <2>5. CASE Serve(a, remaining)
    <3>1. PICK data \in Seq(Byte) : data = remaining
      BY <1>3
    <3>2. Serve(a, data)
      BY <2>5, <3>1, Zenon
    <3>3. CASE state = "AwaitingResponse"
      <4>1. l.continuation = "None" => a.header \in Unpaged
        BY <2>4, <3>3
      <4>2. PICK r \in ResponseApdu :
              /\ link' = [tag |-> "response", apdu |-> r]
              /\ remaining' \in Seq(Byte)
              /\ \A d \in ConversationState :
                   /\ d.pending = <<>> /\ (Len(executed) = Pos)' /\ chain' = <<>>
                   /\ d.data \o data = reply[l.header]
                   => Told(d, l, r)'
        BY ONLY <1>2, <2>1, <3>1, <3>2, <4>1, ServeTells, Zenon
      <4>3. Told(c, l, r)'
        BY <1>5, <2>4, <3>1, <3>3, <4>2, Zenon
      <4> QED  BY <1>1, <2>2, <2>3, <4>2, <4>3, Responds
    <3>4. CASE state # "AwaitingResponse"
      <4>1. PICK k : k = [continuation |-> "Oath", header |-> l.header]
        OBVIOUS
      <4>2. k.continuation = "None" => a.header \in Unpaged
        BY <4>1
      <4>3. PICK r \in ResponseApdu :
              link' = [tag |-> "response", apdu |-> r] /\ remaining' \in Seq(Byte)
        BY ONLY <1>2, <2>1, <3>1, <3>2, <4>2, ServeTells, Zenon
      <4> QED  BY <1>1, <2>2, <2>3, <3>4, <4>3, Responds
    <3> QED  BY <3>3, <3>4
  <2>6. CASE ~Serve(a, remaining)
    <3>1. PICK r : r = [data |-> <<>>, sw1 |-> 105, sw2 |-> 133]
      OBVIOUS
    <3>2. /\ link' = [tag |-> "response", apdu |-> r] /\ remaining' = remaining
          /\ remaining = <<>>
      BY <1>1, <1>7, <2>6, <3>1 DEF CardContinue
    <3>3. r \in ResponseApdu
      BY <3>1 DEF ResponseApdu
    <3>4. ASSUME state = "AwaitingResponse" PROVE Told(c, l, r)'
      <4>1. c.data \in Seq(Byte)
        BY <2>4, <3>4 DEF ConversationState
      <4>2. c.data \o <<>> = c.data
        BY <4>1, ConcatEmptySeq
      <4>3. c.data = reply'[l.header]
        BY <1>5, <2>1, <3>2, <3>4, <4>2
      <4>4. r.sw1 = 105 /\ r.data = <<>>
        BY <3>1
      <4> QED  BY <2>4, <3>4, <4>3, <4>4, Zenon DEF Told
    <3>5. remaining' \in Seq(Byte)
      BY <1>3, <3>2
    <3> QED  BY <1>1, <2>2, <2>3, <3>2, <3>3, <3>4, <3>5, Responds
  <2> QED  BY <2>5, <2>6
<1> QED
  BY <1>1, <1>6, <1>7 DEF CardContinue

(* A refusal.                                                              *)
LEMMA CardRefuseKeeps ==
  ASSUME CEInv, link.tag = "command", CardRefuse(link.apdu),
         UNCHANGED <<vars, run, delivered>>
  PROVE  CEInv'
<1>1. PICK c, l, a : c = conversation /\ l = Cur /\ a = link.apdu
  OBVIOUS
<1>2. /\ CEType /\ RunInOrder /\ Counted
      /\ state = "AwaitingResponse" => ReadyFor(c, l)
  BY <1>1, Received
<1>3. PICK sw2 \in {130} \cup (IF dialect = "Oath" THEN {133} ELSE {}) :
        link' = [tag |-> "response", apdu |-> [data |-> <<>>, sw1 |-> 105, sw2 |-> sw2]]
  BY DEF CardRefuse
<1>4. PICK r : r = [data |-> <<>>, sw1 |-> 105, sw2 |-> sw2]
  OBVIOUS
<1>5. /\ chain' = <<>> /\ remaining' = <<>> /\ executed' = executed
      /\ UNCHANGED <<script, dialect, reply, delivered>>
  BY DEF CardRefuse, run
<1>6. r \in ResponseApdu
  BY <1>3, <1>4 DEF ResponseApdu
<1>7. RunInOrder' /\ Counted'
  BY <1>2, <1>5 DEF RunInOrder, Counted, Confirmed
<1>8. ASSUME state = "AwaitingResponse" PROVE Told(c, l, r)'
  <2>1. IsConditionsNotSatisfied(r) => dialect # "OathLegacy"
    BY <1>3, <1>4 DEF IsConditionsNotSatisfied
  <2>2. dialect # "OathLegacy" /\ c.oathPoll => c.data = reply[l.header] /\ Len(executed) = Pos
    BY <1>2, <1>8 DEF ReadyFor, Sends, Pages
  <2>3. IsConditionsNotSatisfied(r) /\ c.oathPoll =>
          c.data = reply'[l.header] /\ (Len(executed) = Pos)' /\ chain' = <<>>
    BY <1>5, <2>1, <2>2 DEF Pos
  <2>4. r.sw1 = 105 /\ r.data = <<>>
    BY <1>4
  <2> QED  BY <2>3, <2>4, Zenon DEF Told
<1>9. /\ link' = [tag |-> "response", apdu |-> r]
      /\ chain' \in Seq(Byte) /\ remaining' \in Seq(Byte)
      /\ executed' \in Seq([header : Header, data : Seq(Byte)])
  <2>1. link' = [tag |-> "response", apdu |-> r]
    BY <1>3, <1>4
  <2>2. executed \in Seq([header : Header, data : Seq(Byte)])
    BY <1>2 DEF CEType
  <2>3. chain' \in Seq(Byte) /\ remaining' \in Seq(Byte)
    BY <1>5
  <2> QED  BY <1>5, <2>1, <2>2, <2>3
<1>10. state = "AwaitingResponse" => Told(c, l, r)'
  BY <1>8
<1> QED
  BY <1>1, <1>6, <1>7, <1>9, <1>10, Responds, ZenonT(60)

-----------------------------------------------------------------------------
(* The results                                                             *)

(* The inductive invariant holds before the operation is started.          *)
LEMMA InitCEInv == CEInit => CEInv
<1> SUFFICES ASSUME CEInit PROVE CEInv
  OBVIOUS
<1>1. IInv
  BY InitIInv DEF CEInit
<1>2. /\ script \in Scripts /\ dialect \in Dialects(script) /\ link = Idle
      /\ chain = <<>> /\ remaining = <<>> /\ executed = <<>> /\ delivered = <<>>
      /\ reply \in [Headers -> Replies] /\ state = "Created"
  BY DEF CEInit, Init
<1>3. reply \in [Headers -> Seq(Byte)]
  BY <1>2, ScriptAssumption
<1>4. CEType
  BY <1>2, <1>3 DEF CEType
<1>5. Len(executed) = 0 /\ Len(delivered) = 0 /\ Len(script) \in Nat
  BY <1>2, <1>4, ScriptLength
<1>6. RunInOrder /\ ExactReplies /\ Confirmed
  BY <1>5 DEF RunInOrder, ExactReplies, Confirmed
<1>7. Counted
  BY <1>5, <1>6 DEF Counted
<1>8. InFlight
  BY <1>2 DEF InFlight, Idle
<1>9. Exchanging /\ Fresh
  BY <1>2 DEF Exchanging, Fresh
<1> QED
  BY <1>1, <1>4, <1>6, <1>7, <1>8, <1>9 DEF CEInv

(* Every step of the host, the link and the card keeps it.                 *)
LEMMA NextCEInv == CEInv /\ [CENext]_allVars => CEInv'
<1> SUFFICES ASSUME CEInv, [CENext]_allVars PROVE CEInv'
  OBVIOUS
<1>1. CASE HostStart
  BY <1>1, StartKeeps
<1>2. CASE HostSend
  BY <1>2, SendKeeps
<1>3. CASE HostAdvance
  BY <1>3, HostAdvanceKeeps
<1>4. CASE HostCancel \/ HostTake
  BY <1>4, EndKeeps
<1>5. CASE Break
  BY <1>5, BreakKeeps
<1>6. CASE CardStep
  <2>1. link.tag = "command" /\ UNCHANGED <<vars, run, delivered>>
    BY <1>6 DEF CardStep
  <2>2. \/ CardFragment(link.apdu) \/ CardExecute(link.apdu)
        \/ CardContinue(link.apdu) \/ CardRefuse(link.apdu)
    BY <1>6 DEF CardStep
  <2> QED
    BY <2>1, <2>2, CardFragmentKeeps, CardExecuteKeeps, CardContinueKeeps, CardRefuseKeeps
<1>7. CASE UNCHANGED allVars
  <2>1. /\ UNCHANGED <<link, delivered, vars>>
        /\ UNCHANGED <<script, dialect, reply, chain, remaining, executed>>
    BY <1>7 DEF allVars, cardVars, run
  <2>2. state' = state /\ conversation' = conversation
    BY <2>1 DEF vars
  <2>3. IInv'
    BY <2>1 DEF CEInv, vars, IInv, TypeOK, WorkingState, ChannelFit, Fits, Budgets
  <2>4. Headers' = Headers /\ Cur' = Cur /\ Pos' = Pos /\ Confirmed' = Confirmed
    BY <2>1 DEF Headers, Cur, Pos, Confirmed
  <2>5. CEType' /\ RunInOrder' /\ Counted' /\ Fresh' /\ ExactReplies'
    BY <2>1, <2>2, <2>4 DEF CEInv, CEType, RunInOrder, Counted, Fresh, ExactReplies
  <2>6. InFlight'
    BY <2>1, <2>4 DEF CEInv, InFlight, Underway
  <2>7. Exchanging'
    <3>1. PICK c, l, r : c = conversation /\ l = Cur /\ r = link.apdu
      OBVIOUS
    <3>2. ReadyFor(c, l)' <=> ReadyFor(c, l)
      BY <2>1, <2>4 DEF ReadyFor, Pages
    <3>3. Served(c, l, r)' <=> Served(c, l, r)
      BY <2>1, <2>4 DEF Served
    <3>4. Told(c, l, r)' <=> Told(c, l, r)
      BY <2>1, <2>4, <3>2, <3>3, Zenon DEF Told
    <3>5. conversation' = c /\ Cur' = l /\ link'.apdu = r /\ link' = link
      BY <2>1, <2>2, <2>4, <3>1
    <3>6. Underway' <=> Underway
      BY <2>1, <2>4 DEF Underway
    <3> QED
      BY <2>2, <3>1, <3>2, <3>4, <3>5, <3>6, Zenon DEF CEInv, Exchanging
  <2> QED  BY <2>3, <2>5, <2>6, <2>7 DEF CEInv
<1> QED
  BY <1>1, <1>2, <1>3, <1>4, <1>5, <1>6, <1>7 DEF CENext

(* With any script, any card that pages as the engine expects, and a       *)
(* transport that may break at any moment: the conversation and the card   *)
(* agree on how much of the current command was sent and of its reply      *)
(* received, and the operation keeps its own invariants.                   *)
THEOREM CardInvariant == CESpec => []CEInv
  BY InitCEInv, NextCEInv, PTL DEF CESpec

(* A response that is a success is the card's whole reply to that command, *)
(* however ConversationState::advance collected it.                        *)
THEOREM CardExact == CESpec => []ExactReplies
<1>1. CEInv => ExactReplies
  BY DEF CEInv
<1> QED
  BY <1>1, CardInvariant, PTL

(* Confirmed responses are counted by the length of delivered, less a      *)
(* refusal at its end.                                                     *)
LEMMA ConfirmedCount ==
  ASSUME CEType, Counted
  PROVE  Cardinality({i \in 1 .. Len(delivered) : IsSuccess(delivered[i])}) =
           IF Confirmed THEN Len(delivered) ELSE Len(delivered) - 1
<1> DEFINE n == Len(delivered)
           S == {i \in 1 .. n : IsSuccess(delivered[i])}
<1>1. n \in Nat
  BY ScriptLength
<1>2. CASE Confirmed
  <2>1. S = 1 .. n
    BY <1>2 DEF Confirmed
  <2>2. Cardinality(1 .. n) = n
    <3> HIDE DEF n
    <3>1. Cardinality(1 .. n) = IF 1 > n THEN 0 ELSE n - 1 + 1
      BY <1>1, FS_Interval
    <3> QED  BY <1>1, <3>1
  <2> QED  BY <1>2, <2>1, <2>2
<1>3. CASE ~Confirmed
  <2>1. PICK k \in 1 .. n : ~IsSuccess(delivered[k])
    BY <1>3 DEF Confirmed
  <2>2. \A i \in 1 .. n - 1 : IsSuccess(delivered[i])
    BY DEF Counted
  <2>3. k = n /\ n >= 1
    BY <1>1, <2>1, <2>2
  <2>4. S = 1 .. n - 1
    BY <1>1, <2>1, <2>2, <2>3
  <2>5. Cardinality(1 .. n - 1) = n - 1
    <3> HIDE DEF n
    <3>1. Cardinality(1 .. n - 1) = IF 1 > n - 1 THEN 0 ELSE n - 1 - 1 + 1
      BY <1>1, FS_Interval
    <3> QED  BY <1>1, <2>3, <3>1
  <2> QED  BY <1>3, <2>4, <2>5
<1> QED
  BY <1>2, <1>3

(* Every command is run at most once, in order and with its own data,      *)
(* whatever Operation, the link and the card do in between; at most one    *)
(* more than the host knows of.                                            *)
THEOREM CardInOrder == CESpec => []ExecutedInOrder
<1>1. CEInv => ExecutedInOrder
  <2> SUFFICES ASSUME CEInv PROVE ExecutedInOrder
    OBVIOUS
  <2>1. CEType /\ RunInOrder /\ Counted
    BY DEF CEInv
  <2>2. PICK k : k = Cardinality({i \in 1 .. Len(delivered) : IsSuccess(delivered[i])})
    OBVIOUS
  <2>3. k = IF Confirmed THEN Len(delivered) ELSE Len(delivered) - 1
    BY <2>1, <2>2, ConfirmedCount
  <2>4. Len(delivered) \in Nat /\ Len(executed) \in Nat
    BY <2>1, ScriptLength
  <2>5. k <= Len(executed) /\ Len(executed) <= k + 1
    BY <2>1, <2>3, <2>4 DEF Counted
  <2> QED
    BY <2>1, <2>2, <2>5 DEF ExecutedInOrder, RunInOrder
<1> QED
  BY <1>1, CardInvariant, PTL
=============================================================================
