----------------------------- MODULE CtapProofs -----------------------------
(***************************************************************************)
(* Proofs about the three CTAP components.                                 *)
(*                                                                         *)
(* LargeBlob: for any arrays, fragment sizes, tokens and budgets, a        *)
(* documented authenticator refuses a write only for what the caller       *)
(* supplied, and the fragment protocol implements BlobStore.  Credentials: *)
(* for any credentials, totals and budgets, an enumeration that succeeds   *)
(* returned the card's listing, and every outcome says what became of the  *)
(* credentials.  ClientPin: for any PINs, keys and tokens, every outcome   *)
(* says what became of the settings, a MAC is refused only for a stale key *)
(* or token, and an attempt is lost only to a wrong PIN or a stale hash.   *)
(***************************************************************************)
EXTENDS LargeBlob, ClientPin, Credentials, SequenceTheorems, FiniteSetTheorems,
        WellFoundedInduction, TLAPS

-----------------------------------------------------------------------------
(* Large blobs: the inductive invariant                                    *)

Message ==
  [fragment : Seq(Bytes), offset : Nat, total : Nat \cup {Nothing},
   auth : (Tokens \X Nat \X Seq(Bytes)) \cup {Nothing}]

(* m carries a part of a, and says truly where it belongs.                 *)
Piece(m, a, tok) ==
  /\ m \in Message /\ Len(m.fragment) >= 1
  /\ m.offset + Len(m.fragment) <= Len(a)
  /\ m.fragment = SubSeq(a, m.offset + 1, m.offset + Len(m.fragment))
  /\ m.total = IF m.offset = 0 THEN Len(a) ELSE Nothing
  /\ m.auth = IF tok = Nothing THEN Nothing ELSE <<tok, m.offset, m.fragment>>

End(m) == m.offset + Len(m.fragment)

(* The messages carry a to its end without a gap.                          *)
Carries(ms, a, tok) ==
  /\ ms \in Seq(Message) /\ ms # <<>>
  /\ \A i \in 1 .. Len(ms) : Piece(ms[i], a, tok)
  /\ \A i \in 1 .. Len(ms) - 1 : ms[i + 1].offset = End(ms[i])
  /\ End(ms[Len(ms)]) = Len(a)

Types ==
  /\ stage \in {"Idle", "Select", "Exchange"}
  /\ op \in {"none", "read", "chunk", "write"}
  /\ data \in Arrays \cup {<<>>} /\ token \in Tokens \cup {Nothing}
  /\ op = "write" => data \in Arrays /\ Len(data) \in MinArray .. MaxArray
  /\ op # "write" => data = <<>>
  /\ stage # "Idle" => op # "none"
  /\ pinSet \in BOOLEAN /\ faulty \in BOOLEAN

(* What is stored was sealed by an application.                            *)
StoredSealed == stored \in SealedArrays

(* The buffer of a read is the beginning of the array.                     *)
ReadsOn ==
  stage # "Idle" /\ op \in {"read", "chunk"} =>
    /\ chunk \in Nat \ {0} /\ offset \in Nat
    /\ op = "read" => offset <= Len(stored) /\ buffer = SubSeq(stored, 1, offset)
    /\ op = "chunk" => buffer = <<>>

(* The card holds what the pending fragment continues.                     *)
WritesOn ==
  stage # "Idle" /\ op = "write" =>
    /\ Carries(messages, data, token)
    /\ stage = "Select" => messages[1].offset = 0
    /\ messages[1].offset > 0 =>
         temporary = SubSeq(data, 1, messages[1].offset) /\ expected = Len(data)

LInv ==
  /\ Types /\ RefusalExplained
  /\ ~faulty => StoredSealed /\ ReadsOn /\ WritesOn

-----------------------------------------------------------------------------
(* Fragments                                                               *)

(* The count of fragments of m bytes that k bytes need.                    *)
LEMMA CountNeeded ==
  ASSUME NEW m \in Nat, m # 0, NEW k \in Nat, k # 0
  PROVE  LET n == (k + m - 1) \div m IN n \in Nat /\ n >= 1 /\ (n - 1) * m < k /\ k <= n * m
<1> DEFINE n == (k + m - 1) \div m
           q == (k + m - 1) % m
<1>1. k + m - 1 = m * n + q /\ q \in 0 .. m - 1 /\ n \in Int
  BY SMT
<1>2. n \in Nat /\ n >= 1
  BY SMT
<1>3. n * m = m * n /\ (n - 1) * m = m * n - m
  BY <1>1, SMT
<1> HIDE DEF n, q
<1>4. (n - 1) * m < k /\ k <= n * m
  <2> DEFINE p == m * n
  <2>1. k + m - 1 = p + q /\ n * m = p /\ (n - 1) * m = p - m /\ p \in Int
    BY <1>1, <1>3, SMT
  <2> HIDE DEF p
  <2> QED  BY <1>1, <2>1, SMT
<1> QED
  BY <1>2, <1>4 DEF n

(* Where the i-th of n fragments begins and ends.                          *)
LEMMA FragmentPlace ==
  ASSUME NEW m \in Nat, NEW n \in Nat, NEW i \in 1 .. n
  PROVE  /\ (i - 1) * m \in Nat /\ i * m = (i - 1) * m + m
         /\ (i - 1) * m <= (n - 1) * m /\ (n - 1) * m \in Nat
         /\ i < n => i * m <= (n - 1) * m
         /\ (i - 1) * m = 0 <=> i = 1 \/ m = 0
<1>1. i \in Nat /\ i >= 1 /\ i <= n /\ i - 1 \in Nat /\ n - i \in Nat /\ n - 1 \in Nat
  OBVIOUS
<1>2. (i - 1) * m \in Nat /\ (n - i) * m \in Nat /\ (n - 1) * m \in Nat
  BY <1>1, SMT
<1>3. i * m = (i - 1) * m + m /\ (n - 1) * m = (i - 1) * m + (n - i) * m
  BY <1>1, SMT
<1>4. i < n => (n - i) * m >= m
  <2> SUFFICES ASSUME i < n PROVE (n - i) * m >= m
    OBVIOUS
  <2>1. (n - i) * m = m + (n - i - 1) * m /\ n - i - 1 \in Nat
    BY <1>1, SMT
  <2>2. (n - i - 1) * m \in Nat
    BY <2>1, SMT
  <2> QED  BY <2>1, <2>2, SMT
<1>5. (i - 1) * m = 0 <=> i = 1 \/ m = 0
  BY <1>1, SMT
<1> DEFINE p == (i - 1) * m
           q == (n - i) * m
           r == (n - 1) * m
<1>6. p \in Nat /\ q \in Nat /\ r \in Nat /\ i * m = p + m /\ r = p + q /\ (i < n => q >= m)
  BY <1>2, <1>3, <1>4
<1>7. p <= r /\ (i < n => i * m <= r)
  <2> HIDE DEF p, q, r
  <2> QED  BY <1>6, SMT
<1> QED
  BY <1>5, <1>6, <1>7

(* A part of an array, from lo to hi.                                      *)
LEMMA Part ==
  ASSUME NEW a \in Seq(Bytes), NEW lo \in Nat, NEW hi \in Nat, lo < hi, hi <= Len(a)
  PROVE  /\ SubSeq(a, lo + 1, hi) \in Seq(Bytes) /\ Len(SubSeq(a, lo + 1, hi)) = hi - lo
         /\ SubSeq(a, 1, lo) \o SubSeq(a, lo + 1, hi) = SubSeq(a, 1, hi)
<1>1. Len(a) \in Nat /\ \A i \in lo + 1 .. hi : a[i] \in Bytes
  OBVIOUS
<1>2. /\ SubSeq(a, lo + 1, hi) \in Seq(Bytes)
      /\ Len(SubSeq(a, lo + 1, hi)) = IF lo + 1 <= hi THEN hi - (lo + 1) + 1 ELSE 0
  BY <1>1, SubSeqProperties
<1>3. 1 \in 1 .. Len(a) + 1 /\ lo \in 1 - 1 .. Len(a) /\ hi \in lo .. Len(a)
  BY <1>1
<1>4. SubSeq(a, 1, lo) \o SubSeq(a, lo + 1, hi) = SubSeq(a, 1, hi)
  BY <1>3, ConcatAdjacentSubSeq
<1> DEFINE k == Len(SubSeq(a, lo + 1, hi))
<1>5. k = IF lo + 1 <= hi THEN hi - (lo + 1) + 1 ELSE 0
  BY <1>2
<1> HIDE DEF k
<1>6. k = hi - lo
  BY <1>5
<1> QED
  BY <1>2, <1>4, <1>6 DEF k

(* m was built for the part of a from lo to hi.                            *)
BuiltFor(m, a, lo, hi, tok) ==
  /\ a \in Seq(Bytes) /\ tok \in Tokens \cup {Nothing}
  /\ lo \in Nat /\ hi \in Nat /\ lo < hi /\ hi <= Len(a)
  /\ m = set_message(SubSeq(a, lo + 1, hi), lo, IF lo = 0 THEN Len(a) ELSE Nothing, tok)

LEMMA SetPiece ==
  ASSUME NEW m, NEW a, NEW lo, NEW hi, NEW tok, BuiltFor(m, a, lo, hi, tok)
  PROVE  Piece(m, a, tok) /\ m.offset = lo /\ End(m) = hi
<1> USE DEF BuiltFor
<1>1. PICK f : f = SubSeq(a, lo + 1, hi)
  OBVIOUS
<1>2. f \in Seq(Bytes) /\ Len(f) = hi - lo /\ Len(a) \in Nat
  BY <1>1, Part
<1>3. PICK t : t = IF lo = 0 THEN Len(a) ELSE Nothing
  OBVIOUS
<1>4. PICK u : u = IF tok = Nothing THEN Nothing ELSE <<tok, lo, f>>
  OBVIOUS
<1>5. m = [fragment |-> f, offset |-> lo, total |-> t, auth |-> u]
  BY <1>1, <1>3, <1>4 DEF set_message
<1>6. t \in Nat \cup {Nothing}
  BY <1>2, <1>3
<1>7. u \in (Tokens \X Nat \X Seq(Bytes)) \cup {Nothing}
  BY <1>2, <1>4
<1>8. m.fragment = f /\ m.offset = lo /\ m.total = t /\ m.auth = u
  BY <1>5
<1>9. m \in Message
  BY <1>2, <1>5, <1>6, <1>7 DEF Message
<1>10. lo + Len(f) = hi /\ Len(f) >= 1
  BY <1>2
<1>11. m.fragment = SubSeq(a, m.offset + 1, m.offset + Len(m.fragment))
  BY <1>1, <1>8, <1>10
<1> QED
  BY <1>3, <1>4, <1>8, <1>9, <1>10, <1>11 DEF Piece, End

(* The fragments of an array carry it.                                     *)
LEMMA FragmentsCarry ==
  ASSUME NEW a \in Seq(Bytes), a # <<>>, NEW size \in Nat, size # 0,
         NEW tok \in Tokens \cup {Nothing}
  PROVE  Carries(Fragments(a, size, tok), a, tok) /\ Fragments(a, size, tok)[1].offset = 0
<1> DEFINE n == (Len(a) + size - 1) \div size
           F == Fragments(a, size, tok)
           lo(i) == (i - 1) * size
           hi(i) == Smaller(lo(i) + size, Len(a))
<1>1. Len(a) \in Nat /\ Len(a) # 0
  OBVIOUS
<1>2. n \in Nat /\ n >= 1 /\ (n - 1) * size < Len(a) /\ Len(a) <= n * size
  BY <1>1, CountNeeded
<1>3. /\ DOMAIN F = 1 .. n
      /\ \A i \in 1 .. n :
           F[i] = set_message(SubSeq(a, lo(i) + 1, hi(i)), lo(i),
                              IF lo(i) = 0 THEN Len(a) ELSE Nothing, tok)
  BY DEF Fragments
<1>4. F = [i \in 1 .. n |-> F[i]]
  BY DEF Fragments
<1> HIDE DEF n
<1>5. ASSUME NEW i \in 1 .. n
      PROVE  /\ Piece(F[i], a, tok) /\ F[i].offset = lo(i)
             /\ i < n => End(F[i]) = lo(i + 1)
             /\ i = n => End(F[i]) = Len(a)
  <2>1. /\ lo(i) \in Nat /\ i * size = lo(i) + size /\ lo(i) <= (n - 1) * size
        /\ (n - 1) * size \in Nat /\ (i < n => i * size <= (n - 1) * size)
    BY <1>2, FragmentPlace
  <2>2. PICK x, y, z : x = lo(i) /\ y = (n - 1) * size /\ z = i * size
    OBVIOUS
  <2>3. /\ x \in Nat /\ y \in Nat /\ z = x + size /\ x <= y /\ y < Len(a)
        /\ i < n => z <= y
        /\ i = n => Len(a) <= z
    BY <1>2, <2>1, <2>2
  <2>4. PICK h : h = Smaller(x + size, Len(a))
    OBVIOUS
  <2>5. h \in Nat /\ x < h /\ h <= Len(a) /\ (i < n => h = z) /\ (i = n => h = Len(a))
    BY <1>1, <2>3, <2>4 DEF Smaller
  <2>6. F[i] = set_message(SubSeq(a, x + 1, h), x, IF x = 0 THEN Len(a) ELSE Nothing, tok)
    BY <1>3, <2>2, <2>4
  <2>7. Piece(F[i], a, tok) /\ F[i].offset = x /\ End(F[i]) = h
    <3>1. PICK m : m = F[i]
      OBVIOUS
    <3>2. x \in Nat /\ h \in Nat /\ x < h /\ h <= Len(a)
      BY <2>3, <2>5
    <3>3. m = set_message(SubSeq(a, x + 1, h), x, IF x = 0 THEN Len(a) ELSE Nothing, tok)
      BY <2>6, <3>1
    <3>4. BuiltFor(m, a, x, h, tok)
      BY <3>2, <3>3 DEF BuiltFor
    <3>5. Piece(m, a, tok) /\ m.offset = x /\ End(m) = h
      BY <3>4, SetPiece, Zenon
    <3> QED  BY <3>1, <3>5
  <2>8. lo(i + 1) = z
    <3>1. (i + 1) - 1 = i
      BY <1>2
    <3> QED  BY <2>2, <3>1
  <2> QED  BY <2>2, <2>5, <2>7, <2>8
<1> HIDE DEF F, lo, hi
<1>6. \A i \in 1 .. n : F[i] \in Message
  BY <1>5 DEF Piece
<1>7. F \in Seq(Message) /\ Len(F) = n
  <2>1. F \in [1 .. n -> Message]
    BY <1>3, <1>4, <1>6
  <2> QED  BY <1>2, <2>1
<1>8. F # <<>> /\ 1 \in 1 .. n /\ n \in 1 .. n
  BY <1>2, <1>7
<1>9. \A i \in 1 .. Len(F) - 1 : F[i + 1].offset = End(F[i])
  <2> SUFFICES ASSUME NEW i \in 1 .. n - 1 PROVE F[i + 1].offset = End(F[i])
    BY <1>7
  <2>1. i \in 1 .. n /\ i < n /\ i + 1 \in 1 .. n
    BY <1>2
  <2> QED  BY <1>5, <2>1
<1>10. F[1].offset = 0
  <2>1. lo(1) = 0
    BY DEF lo
  <2> QED  BY <1>5, <1>8, <2>1
<1>11. Carries(F, a, tok)
  BY <1>5, <1>7, <1>8, <1>9 DEF Carries
<1> QED
  BY <1>10, <1>11 DEF F

(* What is left after the first message carries the rest.                  *)
LEMMA TailCarries ==
  ASSUME NEW ms, NEW a, NEW tok, Carries(ms, a, tok), Len(ms) > 1
  PROVE  Carries(Tail(ms), a, tok) /\ Tail(ms)[1].offset = End(ms[1])
<1>1. ms \in Seq(Message) /\ ms # <<>> /\ Len(ms) \in Nat
  BY DEF Carries
<1>2. PICK t : t = Tail(ms)
  OBVIOUS
<1>3. t \in Seq(Message) /\ Len(t) = Len(ms) - 1 /\ \A i \in 1 .. Len(t) : t[i] = ms[i + 1]
  BY <1>1, <1>2, HeadTailProperties
<1>4. t # <<>> /\ Len(t) \in Nat /\ Len(t) >= 1
  BY <1>1, <1>3
<1>5. \A i \in 1 .. Len(t) : Piece(t[i], a, tok)
  <2> SUFFICES ASSUME NEW i \in 1 .. Len(t) PROVE Piece(t[i], a, tok)
    OBVIOUS
  <2>1. t[i] = ms[i + 1] /\ i + 1 \in 1 .. Len(ms)
    BY <1>1, <1>3
  <2> QED  BY <2>1 DEF Carries
<1>6. \A i \in 1 .. Len(t) - 1 : t[i + 1].offset = End(t[i])
  <2> SUFFICES ASSUME NEW i \in 1 .. Len(t) - 1 PROVE t[i + 1].offset = End(t[i])
    OBVIOUS
  <2>1. /\ t[i] = ms[i + 1] /\ t[i + 1] = ms[(i + 1) + 1]
        /\ i + 1 \in 1 .. Len(ms) - 1
    BY <1>1, <1>3
  <2>2. ms[(i + 1) + 1].offset = End(ms[i + 1])
    BY <2>1 DEF Carries
  <2> QED  BY <2>1, <2>2
<1>7. t[Len(t)] = ms[Len(ms)] /\ t[1] = ms[1 + 1]
  BY <1>1, <1>3, <1>4
<1>8. 1 \in 1 .. Len(ms) - 1
  BY <1>1
<1>9. t[1].offset = End(ms[1])
  BY <1>7, <1>8 DEF Carries
<1>10. End(t[Len(t)]) = Len(a)
  BY <1>7 DEF Carries
<1> QED
  BY <1>2, <1>3, <1>4, <1>5, <1>6, <1>9, <1>10 DEF Carries

-----------------------------------------------------------------------------
(* The authenticator                                                       *)

(* The card holds what m continues.                                        *)
Continues(m) ==
  /\ op = "write" /\ Types /\ Piece(m, data, token)
  /\ m.offset > 0 => temporary = SubSeq(data, 1, m.offset) /\ expected = Len(data)

LEMMA Given ==
  ASSUME NEW m, Continues(m)
  PROVE  /\ data \in Seq(Bytes) /\ Len(data) \in Nat /\ Len(data) >= MinArray
         /\ Len(data) <= MaxArray /\ Len(data) > 0 /\ Len(data) # Nothing
         /\ m.offset \in Nat /\ m.fragment \in Seq(Bytes) /\ Len(m.fragment) \in Nat
         /\ Len(m.fragment) >= 1 /\ End(m) <= Len(data) /\ End(m) \in Nat
<1>1. data \in Arrays /\ Len(data) \in MinArray .. MaxArray
  BY DEF Continues, Types
<1>2. data \in Seq(Bytes) /\ MinArray \in Nat \ {0} /\ MaxArray \in Nat
  BY <1>1, LargeBlobAssumption
<1>3. m.offset \in Nat /\ m.fragment \in Seq(Bytes)
  BY DEF Continues, Piece, Message
<1>4. Len(m.fragment) >= 1 /\ End(m) <= Len(data)
  BY DEF Continues, Piece, End
<1>5. Len(data) \in Nat /\ Len(m.fragment) \in Nat
  BY <1>2, <1>3
<1>6. Len(data) >= MinArray /\ Len(data) <= MaxArray /\ Len(data) > 0
  BY <1>1, <1>2, <1>5
<1>7. Len(data) # Nothing
  BY <1>5, NothingAssumption
<1>8. End(m) \in Nat
  BY <1>3, <1>5 DEF End
<1> QED
  BY <1>2, <1>3, <1>4, <1>5, <1>6, <1>7, <1>8

(* Every fragment comes in its place and announces what it must.           *)
LEMMA InSequence ==
  ASSUME NEW m, Continues(m)
  PROVE  SequenceStatus(m) = "00"
<1>1. /\ m.offset \in Nat /\ Len(data) \in Nat /\ Len(data) >= MinArray /\ Len(data) <= MaxArray
      /\ Len(data) > 0 /\ Len(data) # Nothing /\ MinArray \in Nat /\ MaxArray \in Nat
  BY Given, LargeBlobAssumption
<1>2. m.total = IF m.offset = 0 THEN Len(data) ELSE Nothing
  BY DEF Continues, Piece
<1>3. CASE m.offset = 0
  <2>1. m.total = Len(data)
    BY <1>2, <1>3
  <2>2. m.total # Nothing /\ ~ m.total < MinArray /\ ~ m.total > MaxArray /\ ~ m.offset > 0
    BY <1>1, <1>3, <2>1
  <2> QED  BY <1>3, <2>2 DEF SequenceStatus
<1>4. CASE m.offset # 0
  <2>1. m.total = Nothing /\ m.offset > 0
    BY <1>1, <1>2, <1>4
  <2>2. temporary = SubSeq(data, 1, m.offset) /\ expected = Len(data)
    BY <2>1 DEF Continues
  <2>3. m.offset <= Len(data)
    BY Given DEF End
  <2>4. Len(temporary) = m.offset
    <3>1. data \in Seq(Bytes) /\ 0 \in Nat /\ 0 < m.offset
      BY Given, <2>1
    <3>2. Len(SubSeq(data, 0 + 1, m.offset)) = m.offset - 0
      BY <1>1, <2>3, <3>1, Part
    <3> QED  BY <1>1, <2>2, <3>2
  <2>5. ~ (expected = 0 \/ m.offset # Len(temporary))
    BY <1>1, <2>2, <2>4
  <2> QED  BY <1>4, <2>1, <2>5 DEF SequenceStatus
<1> QED
  BY <1>3, <1>4

(* The fragments on the card, this one included, begin the array.          *)
LEMMA Appended ==
  ASSUME NEW m, Continues(m)
  PROVE  /\ (IF m.offset = 0 THEN m.fragment ELSE temporary \o m.fragment) = SubSeq(data, 1, End(m))
         /\ (IF m.offset = 0 THEN m.total ELSE expected) = Len(data)
         /\ Len(SubSeq(data, 1, End(m))) = End(m)
         /\ End(m) = Len(data) => SubSeq(data, 1, End(m)) = data
<1>1. /\ data \in Seq(Bytes) /\ m.offset \in Nat /\ End(m) \in Nat /\ End(m) <= Len(data)
      /\ Len(m.fragment) \in Nat /\ Len(m.fragment) >= 1 /\ Len(data) \in Nat
  BY Given
<1>2. m.offset < End(m) /\ 0 < End(m)
  BY <1>1 DEF End
<1>3. m.fragment = SubSeq(data, m.offset + 1, End(m))
  BY DEF Continues, Piece, End
<1>4. SubSeq(data, 1, m.offset) \o m.fragment = SubSeq(data, 1, End(m))
  <2>1. PICK a, lo, hi : a = data /\ lo = m.offset /\ hi = End(m)
    OBVIOUS
  <2>2. a \in Seq(Bytes) /\ lo \in Nat /\ hi \in Nat /\ lo < hi /\ hi <= Len(a)
    BY <1>1, <1>2, <2>1
  <2>3. SubSeq(a, 1, lo) \o SubSeq(a, lo + 1, hi) = SubSeq(a, 1, hi)
    BY ONLY <2>2, Part
  <2> QED  BY <1>3, <2>1, <2>3
<1>5. Len(SubSeq(data, 0 + 1, End(m))) = End(m) - 0
  BY <1>1, <1>2, Part
<1>6. Len(SubSeq(data, 1, End(m))) = End(m)
  BY <1>1, <1>5
<1>7. (IF m.offset = 0 THEN m.fragment ELSE temporary \o m.fragment) = SubSeq(data, 1, End(m))
  <2>1. CASE m.offset = 0
    BY <1>3, <2>1
  <2>2. CASE m.offset # 0
    <3>1. temporary = SubSeq(data, 1, m.offset)
      BY <1>1, <2>2 DEF Continues
    <3> QED  BY <1>4, <2>2, <3>1
  <2> QED  BY <2>1, <2>2
<1>8. (IF m.offset = 0 THEN m.total ELSE expected) = Len(data)
  <2>1. CASE m.offset = 0
    BY <2>1 DEF Continues, Piece
  <2>2. CASE m.offset # 0
    BY <1>1, <2>2 DEF Continues
  <2> QED  BY <2>1, <2>2
<1>9. SubSeq(data, 1, Len(data)) = data
  BY <1>1, SubSeqFull
<1> QED
  BY <1>6, <1>7, <1>8, <1>9

(* What a documented card makes of a set.                                  *)
Answers(m) ==
  LET r == ExecuteSet(m) IN
  \/ r = Status("36", card) /\ pinSet /\ token = Nothing
  \/ r = Status("33", card) /\ pinSet /\ token \in Tokens \ {CurrentToken}
  \/ r = Status("00", <<stored, SubSeq(data, 1, End(m)), Len(data)>>) /\ End(m) < Len(data)
  \/ r = Status("00", <<data, <<>>, 0>>) /\ IsSealed(data) /\ End(m) = Len(data)
  \/ r = Status("3d", <<stored, <<>>, 0>>) /\ ~IsSealed(data)

LEMMA SetAnswered ==
  ASSUME NEW m, Continues(m)
  PROVE  Answers(m)
<1>1. PICK r : r = ExecuteSet(m)
  OBVIOUS
<1>2. PICK file, total :
        /\ file = IF m.offset = 0 THEN m.fragment ELSE temporary \o m.fragment
        /\ total = IF m.offset = 0 THEN m.total ELSE expected
  OBVIOUS
<1>3. /\ file = SubSeq(data, 1, End(m)) /\ total = Len(data) /\ Len(file) = End(m)
      /\ End(m) = Len(data) => file = data
  BY <1>2, Appended
<1>4. SequenceStatus(m) = "00"
  BY InSequence
<1>5. /\ m.auth = IF token = Nothing THEN Nothing ELSE <<token, m.offset, m.fragment>>
      /\ token \in Tokens \cup {Nothing}
  BY DEF Continues, Piece, Types
<1>6. /\ m.auth = Nothing => token = Nothing
      /\ m.auth # Nothing /\ ~MacValid(m) => token \in Tokens \ {CurrentToken}
  <2>1. CASE token = Nothing
    BY <1>5, <2>1
  <2>2. CASE token # Nothing
    <3>1. token \in Tokens /\ m.auth = <<token, m.offset, m.fragment>>
      BY <1>5, <2>2
    <3>2. m.offset \in Nat /\ m.fragment \in Seq(Bytes)
      BY Given
    <3>3. m.auth # Nothing
      BY <3>1, <3>2, NothingAssumption
    <3>4. ~MacValid(m) => token # CurrentToken
      BY <3>1 DEF MacValid
    <3> QED  BY <3>1, <3>3, <3>4
  <2> QED  BY <2>1, <2>2
<1>7. /\ Len(file) \in Nat /\ total \in Nat /\ Len(file) <= total
  BY <1>3, Given
<1>8. pinSet \in BOOLEAN
  BY DEF Continues, Types
<1>9. CASE pinSet /\ m.auth = Nothing
  <2>1. r = Status("36", card)
    BY <1>1, <1>4, <1>9 DEF ExecuteSet
  <2> QED  BY <1>1, <1>6, <1>9, <2>1 DEF Answers
<1>10. CASE pinSet /\ m.auth # Nothing /\ ~MacValid(m)
  <2>1. r = Status("33", card)
    BY <1>1, <1>4, <1>10 DEF ExecuteSet
  <2> QED  BY <1>1, <1>6, <1>10, <2>1 DEF Answers
<1>11. CASE ~(pinSet /\ m.auth = Nothing) /\ ~(pinSet /\ m.auth # Nothing /\ ~MacValid(m))
  <2>1. r = CASE Len(file) < total -> Status("00", <<stored, file, total>>)
              [] Len(file) = total /\ IsSealed(file) -> Status("00", <<file, <<>>, 0>>)
              [] OTHER -> Status("3d", <<stored, <<>>, 0>>)
    BY <1>1, <1>2, <1>4, <1>11 DEF ExecuteSet
  <2>2. CASE Len(file) < total
    <3>1. Len(file) # total
      BY <1>7, <2>2
    <3>2. r = Status("00", <<stored, file, total>>)
      BY <2>1, <2>2, <3>1
    <3> QED  BY <1>1, <1>3, <2>2, <3>2 DEF Answers
  <2>3. CASE Len(file) = total
    <3>1. ~ Len(file) < total /\ file = data
      BY <1>3, <1>7, <2>3
    <3>2. CASE IsSealed(file)
      <4>1. r = Status("00", <<file, <<>>, 0>>)
        BY <2>1, <2>3, <3>1, <3>2
      <4> QED  BY <1>1, <1>3, <2>3, <3>1, <3>2, <4>1 DEF Answers
    <3>3. CASE ~IsSealed(file)
      <4>1. r = Status("3d", <<stored, <<>>, 0>>)
        BY <2>1, <2>3, <3>1, <3>3
      <4> QED  BY <1>1, <3>1, <3>3, <4>1 DEF Answers
    <3> QED  BY <3>2, <3>3
  <2> QED  BY <1>7, <2>2, <2>3
<1> QED
  BY <1>9, <1>10, <1>11

-----------------------------------------------------------------------------
(* The kinds of step                                                       *)

(* The read that the operation ends with returns what it may.              *)
Returns(bytes) ==
  /\ op = "read" => bytes = stored
  /\ op = "chunk" => \E i \in 1 .. Len(stored) + 1, j \in 0 .. Len(stored) :
                       bytes = SubSeq(stored, i, j)

(* The refusals a documented card has a reason for.                        *)
Explained(how) ==
  /\ how = "36" => pinSet /\ token = Nothing
  /\ how = "33" => pinSet /\ token \in Tokens \ {CurrentToken}
  /\ how = "3d" => ~IsSealed(data)
  /\ how \notin {"02", "04", "18"}

Starts ==
  /\ stage = "Idle" /\ stage' = "Select" /\ UNCHANGED <<stored, fixed>>
  /\ \/ op' \in {"read", "chunk"} /\ data' = <<>>
     \/ op' = "write" /\ data' \in Arrays

GoesOn ==
  /\ stage # "Idle" /\ stage' = "Exchange" /\ UNCHANGED <<machine, fixed, stored>>

Ends == stage # "Idle" /\ stage' = "Idle" /\ UNCHANGED <<machine, fixed>>

Fails ==
  /\ Ends /\ outcome' # "Done"
  /\ \/ stored' = stored
     \/ op = "write" /\ data \in SealedArrays /\ stored' = data

ReadsDone ==
  /\ Ends /\ outcome' = "Done" /\ op \in {"read", "chunk"}
  /\ stored' = stored /\ Returns(buffer')

WritesDone ==
  /\ Ends /\ outcome' = "Done" /\ op = "write"
  /\ data \in SealedArrays /\ stored' = data

(* What a step of a documented authenticator's operation is.               *)
Sound == LInv' /\ (Starts \/ GoesOn \/ Fails \/ ReadsDone \/ WritesDone)

LEMMA TypesKept ==
  ASSUME Types, stage # "Idle", stage' \in {"Idle", "Exchange"}, UNCHANGED <<machine, fixed>>
  PROVE  Types'
BY DEF Types, machine, fixed

LEMMA KeepsGoing ==
  ASSUME LInv, ~faulty, GoesOn, ReadsOn', WritesOn'
  PROVE  Sound
<1>1. Types'
  BY TypesKept DEF LInv, GoesOn
<1>2. RefusalExplained'
  BY DEF RefusalExplained, GoesOn
<1>3. StoredSealed'
  BY DEF LInv, StoredSealed, GoesOn
<1> QED
  BY <1>1, <1>2, <1>3 DEF LInv, Sound

LEMMA Finishes ==
  ASSUME LInv, ~faulty, stage # "Idle", NEW how, Finish(how), UNCHANGED <<machine, fixed>>,
         op = "write" => Explained(how),
         how # "Done" => Fails, how = "Done" => ReadsDone \/ WritesDone
  PROVE  Sound
<1>1. stage' = "Idle" /\ outcome' = how
  BY DEF Finish
<1>2. Types'
  BY <1>1, TypesKept DEF LInv
<1>3. RefusalExplained'
  <2>1. op' = op /\ token' = token /\ data' = data /\ pinSet' = pinSet
    BY DEF machine, fixed
  <2> QED  BY <1>1, <2>1 DEF RefusalExplained, Explained, IsSealed
<1>4. StoredSealed'
  BY DEF LInv, StoredSealed, Fails, ReadsDone, WritesDone
<1>5. ReadsOn' /\ WritesOn'
  BY <1>1 DEF ReadsOn, WritesOn
<1> QED
  BY <1>2, <1>3, <1>4, <1>5 DEF LInv, Sound

(* An operation that fails before the card does anything.                  *)
LEMMA GivesUp ==
  ASSUME LInv, ~faulty, stage # "Idle", NEW how, Finish(how), UNCHANGED <<machine, fixed, stored>>,
         how \notin {"Done", "36", "33", "3d", "02", "04", "18"}
  PROVE  Sound
<1>1. Explained(how)
  BY DEF Explained
<1>2. Fails
  BY DEF Fails, Ends, Finish
<1> QED
  BY <1>1, <1>2, Finishes

(* A read that fails leaves the array alone.                               *)
LEMMA ReadFails ==
  ASSUME LInv, ~faulty, stage # "Idle", op # "write", NEW how, Finish(how),
         UNCHANGED <<machine, fixed, stored>>, how # "Done"
  PROVE  Sound
<1>1. Fails
  BY DEF Fails, Ends, Finish
<1> QED
  BY <1>1, Finishes

LEMMA SelectedKeeps ==
  ASSUME LInv, ~faulty, Selected
  PROVE  Sound
<1>1. stage = "Select" /\ UNCHANGED <<machine, buffer, card, fixed>>
  BY DEF Selected
<1>2. \/ Finish("Budget")
      \/ stage' = "Exchange" /\ messages' = messages /\ offset' = offset
  BY DEF Selected, Issue
<1>3. CASE Finish("Budget")
  <2>1. UNCHANGED <<machine, fixed, stored>>
    BY <1>1 DEF card
  <2> QED  BY <1>1, <1>3, <2>1, GivesUp
<1>4. CASE stage' = "Exchange" /\ messages' = messages /\ offset' = offset
  <2>1. GoesOn
    BY <1>1, <1>4 DEF GoesOn, card
  <2>2. /\ op' = op /\ data' = data /\ token' = token /\ chunk' = chunk /\ buffer' = buffer
        /\ stored' = stored /\ temporary' = temporary /\ expected' = expected
    BY <1>1 DEF machine, card
  <2>3. ReadsOn'
    BY <1>1, <1>4, <2>2 DEF LInv, ReadsOn
  <2>4. WritesOn'
    BY <1>1, <1>4, <2>2 DEF LInv, WritesOn
  <2> QED  BY <2>1, <2>3, <2>4, KeepsGoing
<1> QED
  BY <1>2, <1>3, <1>4

LEMMA SelectRefusedKeeps ==
  ASSUME LInv, ~faulty, SelectRefused
  PROVE  Sound
BY GivesUp DEF SelectRefused, card

-----------------------------------------------------------------------------
(* Writing                                                                 *)

(* The pending fragment is the last exactly if it reaches the end.         *)
LEMMA Pending ==
  ASSUME LInv, ~faulty, stage # "Idle", op = "write"
  PROVE  /\ Continues(messages[1]) /\ Carries(messages, data, token)
         /\ Len(messages) \in Nat /\ Len(messages) >= 1
         /\ Len(messages) = 1 => End(messages[1]) = Len(data)
         /\ Len(messages) > 1 => End(messages[1]) < Len(data)
<1>1. Carries(messages, data, token) /\ Types
  BY DEF LInv, WritesOn
<1>2. messages \in Seq(Message) /\ messages # <<>>
  BY <1>1 DEF Carries
<1>3. Len(messages) \in Nat /\ Len(messages) >= 1
  BY <1>2
<1>4. Piece(messages[1], data, token)
  BY <1>1, <1>3 DEF Carries
<1>5. messages[1].offset > 0 =>
        temporary = SubSeq(data, 1, messages[1].offset) /\ expected = Len(data)
  BY DEF LInv, WritesOn
<1>6. Continues(messages[1])
  BY <1>1, <1>4, <1>5 DEF Continues
<1>7. Len(messages) = 1 => End(messages[1]) = Len(data)
  BY <1>1 DEF Carries
<1>8. ASSUME Len(messages) > 1
      PROVE  End(messages[1]) < Len(data)
  <2>1. 1 \in 1 .. Len(messages) - 1 /\ 2 \in 1 .. Len(messages) /\ 1 + 1 = 2
    BY <1>3, <1>8
  <2>2. messages[2].offset = End(messages[1]) /\ Piece(messages[2], data, token)
    BY <1>1, <2>1 DEF Carries
  <2>3. PICK o, f : o = messages[2].offset /\ f = messages[2].fragment
    OBVIOUS
  <2>4. f \in Seq(Bytes) /\ o \in Nat /\ Len(f) >= 1 /\ o + Len(f) <= Len(data)
    BY <2>2, <2>3 DEF Piece, Message
  <2>5. Len(data) \in Nat
    BY <1>6, Given
  <2>6. Len(f) \in Nat
    BY <2>4
  <2>7. o < Len(data)
    BY <2>4, <2>5, <2>6
  <2> QED  BY <2>2, <2>3, <2>7
<1> QED
  BY <1>1, <1>3, <1>6, <1>7, <1>8

(* A card that has executed the set holds the old array or the new one.    *)
LEMMA WholeOrNot ==
  ASSUME LInv, ~faulty, stage # "Idle", op = "write"
  PROVE  LET c == ExecuteSet(messages[1]).card IN
         c[1] = stored \/ (data \in SealedArrays /\ c[1] = data)
<1>1. Answers(messages[1]) /\ data \in Arrays
  BY Pending, SetAnswered DEF LInv, Types
<1> QED
  BY <1>1 DEF Answers, Status, card, SealedArrays

LEMMA WriteAnsweredKeeps ==
  ASSUME LInv, ~faulty, WriteAnswered
  PROVE  Sound
<1>1. PICK r, m : r = ExecuteSet(m) /\ m = messages[1]
  OBVIOUS
<1>2. /\ stage = "Exchange" /\ op = "write" /\ Becomes(r.card)
      /\ \/ r.status # "00" /\ Finish(r.status)
         \/ r.status = "00" /\ NextFragment
      /\ UNCHANGED <<machine, buffer, budget, fixed>>
  BY <1>1 DEF WriteAnswered
<1>3. /\ Carries(messages, data, token) /\ Len(messages) \in Nat /\ Len(messages) >= 1
      /\ Len(messages) = 1 => End(m) = Len(data)
      /\ Len(messages) > 1 => End(m) < Len(data)
  BY <1>1, <1>2, Pending
<1>4. \/ r = Status("36", card) /\ pinSet /\ token = Nothing
      \/ r = Status("33", card) /\ pinSet /\ token \in Tokens \ {CurrentToken}
      \/ r = Status("00", <<stored, SubSeq(data, 1, End(m)), Len(data)>>) /\ End(m) < Len(data)
      \/ r = Status("00", <<data, <<>>, 0>>) /\ IsSealed(data) /\ End(m) = Len(data)
      \/ r = Status("3d", <<stored, <<>>, 0>>) /\ ~IsSealed(data)
  BY <1>1, <1>2, Pending, SetAnswered DEF Answers
<1>5. Len(data) \in Nat /\ End(m) \in Nat /\ data \in Arrays
  BY <1>1, <1>2, Pending, Given DEF LInv, Types
<1>6. stage # "Idle" /\ UNCHANGED <<machine, fixed>>
  BY <1>2
<1>7. CASE r = Status("36", card) /\ pinSet /\ token = Nothing
  <2>1. Finish("36") /\ stored' = stored
    BY <1>2, <1>7 DEF Status, Becomes, card
  <2>2. Explained("36") /\ Fails
    BY <1>6, <1>7, <2>1 DEF Explained, Fails, Ends, Finish
  <2> QED  BY <1>6, <2>1, <2>2, Finishes
<1>8. CASE r = Status("33", card) /\ pinSet /\ token \in Tokens \ {CurrentToken}
  <2>1. Finish("33") /\ stored' = stored
    BY <1>2, <1>8 DEF Status, Becomes, card
  <2>2. Explained("33") /\ Fails
    BY <1>6, <1>8, <2>1 DEF Explained, Fails, Ends, Finish
  <2> QED  BY <1>6, <2>1, <2>2, Finishes
<1>9. CASE r = Status("3d", <<stored, <<>>, 0>>) /\ ~IsSealed(data)
  <2>1. Finish("3d") /\ stored' = stored
    BY <1>2, <1>9 DEF Status, Becomes
  <2>2. Explained("3d") /\ Fails
    BY <1>6, <1>9, <2>1 DEF Explained, Fails, Ends, Finish
  <2> QED  BY <1>6, <2>1, <2>2, Finishes
<1>10. CASE r = Status("00", <<data, <<>>, 0>>) /\ IsSealed(data) /\ End(m) = Len(data)
  <2>1. NextFragment /\ stored' = data
    BY <1>2, <1>10 DEF Status, Becomes
  <2>2. ~ Len(messages) > 1
    BY <1>3, <1>5, <1>10
  <2>3. Finish("Done")
    BY <2>1, <2>2 DEF NextFragment
  <2>4. Explained("Done") /\ WritesDone
    BY <1>2, <1>5, <1>6, <1>10, <2>1, <2>3
       DEF Explained, WritesDone, Ends, Finish, SealedArrays
  <2> QED  BY <1>6, <2>3, <2>4, Finishes
<1>11. CASE r = Status("00", <<stored, SubSeq(data, 1, End(m)), Len(data)>>) /\ End(m) < Len(data)
  <2>1. /\ NextFragment /\ stored' = stored /\ temporary' = SubSeq(data, 1, End(m))
        /\ expected' = Len(data)
    BY <1>2, <1>11 DEF Status, Becomes
  <2>2. Len(messages) > 1
    <3>1. End(m) # Len(data)
      BY <1>5, <1>11
    <3>2. Len(messages) # 1
      BY <1>3, <3>1, Zenon
    <3>3. Len(messages) \in Nat /\ Len(messages) >= 1
      BY <1>3, Zenon
    <3>4. PICK n : n = Len(messages)
      OBVIOUS
    <3>5. n \in Nat /\ n >= 1 /\ n # 1
      BY <3>2, <3>3, <3>4, Zenon
    <3>6. n > 1
      BY ONLY <3>5
    <3> QED  BY <3>4, <3>6, Zenon
  <2>3. \/ Finish("Budget")
        \/ stage' = "Exchange" /\ messages' = Tail(messages)
    <3>1. Len(messages) # 1
      BY <1>3, <2>2
    <3>2. Issue(Cost(messages[2]), Tail(messages), offset, remaining_reads)
      BY <2>1, <3>1 DEF NextFragment
    <3> QED  BY <3>2, Zenon DEF Issue
  <2>4. CASE Finish("Budget")
    BY <1>6, <2>1, <2>4, GivesUp
  <2>5. CASE stage' = "Exchange" /\ messages' = Tail(messages)
    <3>1. Carries(Tail(messages), data, token) /\ Tail(messages)[1].offset = End(messages[1])
      BY <1>3, <2>2, TailCarries
    <3>2. GoesOn
      BY <1>6, <2>1, <2>5 DEF GoesOn
    <3>3. op' = "write" /\ data' = data /\ token' = token
      BY <1>2 DEF machine
    <3>4. WritesOn'
      BY <1>1, <2>1, <2>5, <3>1, <3>3 DEF WritesOn
    <3>5. ReadsOn'
      BY <3>3 DEF ReadsOn
    <3> QED  BY <3>2, <3>4, <3>5, KeepsGoing
  <2> QED  BY <2>3, <2>4, <2>5
<1> QED
  BY <1>4, <1>7, <1>8, <1>9, <1>10, <1>11

LEMMA AbandonedKeeps ==
  ASSUME LInv, ~faulty, Abandoned
  PROVE  Sound
<1>1. stage # "Idle" /\ Finish("Abandoned") /\ UNCHANGED <<machine, fixed>>
  BY DEF Abandoned
<1>2. PICK c \in {card} \cup (IF stage = "Exchange" /\ op = "write"
                              THEN {ExecuteSet(messages[1]).card} ELSE {}) :
        Becomes(c) \/ Becomes(<<c[1], <<>>, 0>>)
  BY DEF Abandoned
<1>3. stored' = c[1]
  BY <1>2 DEF Becomes
<1>4. stored' = stored \/ (op = "write" /\ data \in SealedArrays /\ stored' = data)
  <2>1. CASE c = card
    BY <1>3, <2>1 DEF card
  <2>2. CASE op = "write" /\ c = ExecuteSet(messages[1]).card
    BY <1>1, <1>3, <2>2, WholeOrNot
  <2> QED  BY <1>2, <2>1, <2>2
<1>5. Explained("Abandoned")
  BY DEF Explained
<1>6. Fails
  BY <1>1, <1>4 DEF Fails, Ends, Finish
<1> QED
  BY <1>1, <1>5, <1>6, Finishes

-----------------------------------------------------------------------------
(* Reading                                                                 *)

(* b is the k bytes of a from o on, or those there are.                    *)
ReadFrom(a, o, k, h, b) ==
  /\ a \in Seq(Bytes) /\ o \in Nat /\ k \in Nat \ {0} /\ o <= Len(a)
  /\ h = Smaller(o + k, Len(a)) /\ b = SubSeq(a, o + 1, h)

Continued(a, o, k, b) ==
  /\ b \in Seq(Bytes) /\ Len(b) <= k
  /\ Len(b) < k => SubSeq(a, 1, o) \o b = a
  /\ Len(b) = k => o + k <= Len(a) /\ SubSeq(a, 1, o) \o b = SubSeq(a, 1, o + k)

LEMMA ReadPart ==
  ASSUME NEW a, NEW o, NEW k, NEW h, NEW b, ReadFrom(a, o, k, h, b)
  PROVE  Continued(a, o, k, b)
<1>1. /\ a \in Seq(Bytes) /\ o \in Nat /\ k \in Nat \ {0} /\ o <= Len(a)
      /\ h = Smaller(o + k, Len(a)) /\ b = SubSeq(a, o + 1, h)
  BY Zenon DEF ReadFrom
<1>2. PICK L : L = Len(a)
  OBVIOUS
<1>3. L \in Nat /\ SubSeq(a, 1, L) = a
  BY <1>1, <1>2, SubSeqFull
<1>4. /\ h \in Nat /\ o <= h /\ h <= L
      /\ h - o <= k /\ (h - o < k => h = L) /\ (h - o = k => h = o + k)
      /\ o = h => o = L /\ h - o < k
  <2>1. o \in Nat /\ k \in Nat \ {0} /\ o <= L /\ L \in Nat /\ h = Smaller(o + k, L)
    BY <1>1, <1>2, <1>3, Zenon
  <2> QED  BY ONLY <2>1 DEF Smaller
<1>5. CASE o < h
  <2>1. /\ b \in Seq(Bytes) /\ Len(b) = h - o /\ SubSeq(a, 1, o) \o b = SubSeq(a, 1, h)
    <3>1. b = SubSeq(a, o + 1, h) /\ o < h /\ h \in Nat /\ h <= Len(a) /\ o \in Nat
      BY <1>1, <1>2, <1>4, <1>5, Zenon
    <3>2. a \in Seq(Bytes)
      BY <1>1
    <3>3. /\ SubSeq(a, o + 1, h) \in Seq(Bytes) /\ Len(SubSeq(a, o + 1, h)) = h - o
          /\ SubSeq(a, 1, o) \o SubSeq(a, o + 1, h) = SubSeq(a, 1, h)
      BY <3>1, <3>2, Part, Zenon
    <3> QED  BY <3>1, <3>3, Zenon
  <2> QED  BY <1>2, <1>3, <1>4, <2>1, Zenon DEF Continued
<1>6. CASE o = h
  <2>1. b = <<>>
    <3>1. b = SubSeq(a, o + 1, o) /\ o + 1 \in Int /\ o \in Int /\ o < o + 1
      BY <1>1, <1>6
    <3> QED  BY ONLY <3>1, SubSeqEmpty
  <2>2. SubSeq(a, 1, o) \o b = a
    <3>1. SubSeq(a, 1, o) = a
      BY <1>3, <1>4, <1>6, Zenon
    <3>2. a \o <<>> = a
      BY <1>1, ConcatEmptySeq
    <3> QED  BY <2>1, <3>1, <3>2, Zenon
  <2>3. b \in Seq(Bytes) /\ Len(b) = 0
    BY ONLY <2>1
  <2>4. 0 <= k /\ 0 # k
    BY ONLY <1>1
  <2> QED  BY <2>2, <2>3, <2>4, Zenon DEF Continued
<1>7. o < h \/ o = h
  BY ONLY <1>1, <1>4
<1> QED
  BY <1>5, <1>6, <1>7

LEMMA ReadAnsweredKeeps ==
  ASSUME LInv, ~faulty, ReadAnswered
  PROVE  Sound
<1>1. /\ stage = "Exchange" /\ op \in {"read", "chunk"} /\ op # "write" /\ stage # "Idle"
      /\ UNCHANGED <<machine, budget, card, fixed>>
  BY DEF ReadAnswered
<1>2. Gets = {ExecuteGet(offset, chunk)}
  BY DEF Gets
<1>3. PICK g : /\ g = ExecuteGet(offset, chunk)
               /\ \/ g.status # "00" /\ Finish(g.status)
                  \/ g.status = "00" /\ Substring(g.bytes)
  BY <1>2 DEF ReadAnswered
<1>4. UNCHANGED <<machine, fixed, stored>>
  BY <1>1 DEF card
<1>5. PICK a, o, k, b : a = stored /\ o = offset /\ k = chunk /\ b = g.bytes
  OBVIOUS
<1>6. /\ a \in Seq(Bytes) /\ Len(a) \in Nat /\ o \in Nat /\ k \in Nat \ {0}
      /\ op = "read" => o <= Len(a) /\ buffer = SubSeq(a, 1, o)
      /\ op = "chunk" => buffer = <<>>
  BY <1>1, <1>5, LargeBlobAssumption DEF LInv, ReadsOn, StoredSealed, SealedArrays
<1>7. CASE g.status # "00"
  <2>1. g.status # "Done" /\ Finish(g.status)
    BY <1>3, <1>7 DEF ExecuteGet
  <2> QED  BY <1>1, <1>4, <2>1, ReadFails
<1>8. CASE g.status = "00"
  <2>0. PICK h : h = Smaller(o + k, Len(a))
    OBVIOUS
  <2>1. o <= Len(a) /\ b = SubSeq(a, o + 1, h)
    <3>1. /\ g = IF o > Len(a) THEN [status |-> "02", bytes |-> <<>>]
                 ELSE [status |-> "00", bytes |-> SubSeq(a, o + 1, Smaller(o + k, Len(a)))]
      BY <1>3, <1>5, Zenon DEF ExecuteGet
    <3>2. ~(o > Len(a))
      BY <1>8, <3>1
    <3>3. g = [status |-> "00", bytes |-> SubSeq(a, o + 1, h)]
      BY <2>0, <3>1, <3>2, Zenon
    <3>4. g.bytes = SubSeq(a, o + 1, h)
      BY ONLY <3>3
    <3>5. o <= Len(a)
      BY ONLY <1>6, <3>2
    <3> QED  BY <1>5, <3>4, <3>5, Zenon
  <2>2. Continued(a, o, k, b)
    <3>1. ReadFrom(a, o, k, h, b)
      BY <1>6, <2>0, <2>1, Zenon DEF ReadFrom
    <3> QED  BY <3>1, ReadPart, Zenon
  <2>3. Substring(b)
    BY <1>3, <1>5, <1>8
  <2>4. \/ Finish("InvalidResponse")
        \/ Finish("LimitExceeded")
        \/ buffer' = buffer \o b /\ ReadEnds(b) /\ Finish("Done")
        \/ /\ buffer' = buffer \o b /\ ~ReadEnds(b)
           /\ Issue(1, <<>>, offset + chunk, remaining_reads - 1)
    BY <2>3 DEF Substring
  <2>5. CASE Finish("InvalidResponse")
    BY <1>1, <1>4, <2>5, ReadFails
  <2>6. CASE Finish("LimitExceeded")
    BY <1>1, <1>4, <2>6, ReadFails
  <2>7. CASE buffer' = buffer \o b /\ ReadEnds(b) /\ Finish("Done")
    <3>1. ASSUME op = "read" PROVE buffer' = stored
      <4>1. Len(b) < k
        BY <1>5, <2>7, <3>1 DEF ReadEnds
      <4> QED  BY <1>5, <1>6, <2>2, <2>7, <3>1, <4>1, Zenon DEF Continued
    <3>2. ASSUME op = "chunk"
          PROVE  \E i \in 1 .. Len(stored) + 1, j \in 0 .. Len(stored) :
                   buffer' = SubSeq(stored, i, j)
      <4>1. buffer' = b
        <5>1. b \in Seq(Bytes)
          BY <2>2 DEF Continued
        <5>2. <<>> \o b = b
          BY ONLY <5>1, ConcatEmptySeq
        <5> QED  BY <1>6, <2>7, <3>2, <5>2, Zenon
      <4>2. PICK L : L = Len(a)
        OBVIOUS
      <4>3. o + 1 \in 1 .. Len(a) + 1 /\ h \in 0 .. Len(a)
        <5>1. L \in Nat /\ o \in Nat /\ k \in Nat /\ o <= L /\ h = Smaller(o + k, L)
          BY <1>6, <2>0, <2>1, <4>2
        <5>2. o + 1 \in 1 .. L + 1 /\ h \in 0 .. L
          BY ONLY <5>1 DEF Smaller
        <5> QED  BY <4>2, <5>2, Zenon
      <4> QED  BY <1>5, <2>1, <4>1, <4>3, Zenon
    <3>3. ReadsDone
      BY <1>1, <1>4, <2>7, <3>1, <3>2 DEF ReadsDone, Returns, Ends, Finish
    <3> QED  BY <1>1, <1>4, <2>7, <3>3, Finishes
  <2>8. CASE /\ buffer' = buffer \o b /\ ~ReadEnds(b)
             /\ Issue(1, <<>>, offset + chunk, remaining_reads - 1)
    <3>1. Finish("Budget") \/ (stage' = "Exchange" /\ offset' = offset + chunk)
      BY <2>8, Zenon DEF Issue
    <3>2. CASE Finish("Budget")
      BY <1>1, <1>4, <3>2, ReadFails
    <3>3. CASE stage' = "Exchange" /\ offset' = offset + chunk
      <4>1. op = "read" /\ ~ Len(b) < k
        BY <1>1, <1>5, <2>8 DEF ReadEnds
      <4>2. Len(b) = k
        <5>1. b \in Seq(Bytes) /\ Len(b) <= k /\ k \in Nat
          BY <1>6, <2>2 DEF Continued
        <5>2. Len(b) \in Nat
          BY ONLY <5>1
        <5> QED  BY ONLY <4>1, <5>1, <5>2
      <4>3. o + k <= Len(a) /\ buffer' = SubSeq(a, 1, o + k) /\ o + k \in Nat
        <5>1. o + k <= Len(a) /\ buffer' = SubSeq(a, 1, o + k)
          BY <1>6, <2>2, <2>8, <4>1, <4>2, Zenon DEF Continued
        <5> QED  BY <1>6, <5>1
      <4>4. /\ op' = "read" /\ chunk' = k /\ stored' = a /\ offset' = o + k
            /\ stage' = "Exchange"
        BY <1>4, <1>5, <3>3, <4>1 DEF machine
      <4>5. ReadsOn'
        BY <1>6, <4>3, <4>4 DEF ReadsOn
      <4>6. WritesOn'
        BY <4>4 DEF WritesOn
      <4>7. GoesOn
        BY <1>1, <1>4, <3>3 DEF GoesOn
      <4> QED  BY <4>5, <4>6, <4>7, KeepsGoing
    <3> QED  BY <3>1, <3>2, <3>3
  <2> QED  BY <2>4, <2>5, <2>6, <2>7, <2>8
<1> QED
  BY <1>7, <1>8

-----------------------------------------------------------------------------
(* Every step                                                              *)

LEMMA CallStarts ==
  ASSUME Types, Call
  PROVE  Types' /\ Starts /\ UNCHANGED card
<1>1. CASE \E r \in ResponseLimits, x \in ExchangeLimits : read_array(r, x)
  BY <1>1, Zenon DEF read_array, Begin, Types, Starts, card, fixed
<1>2. CASE \E at \in 0 .. MaxArray, n \in 1 .. DefaultFragment, x \in ExchangeLimits :
             read_chunk(at, n, x)
  BY <1>2, Zenon DEF read_chunk, Begin, Types, Starts, card, fixed
<1>3. CASE \E a \in Arrays, t \in Tokens \cup {Nothing}, i \in InputLimits, x \in ExchangeLimits :
             write_array(a, t, i, x)
  BY <1>3, Zenon DEF write_array, Begin, Types, Starts, card, fixed
<1> QED
  BY <1>1, <1>2, <1>3 DEF Call

(* The sizes of fragments that a limit leaves.                             *)
LEMMA Sizes ==
  ASSUME NEW l \in Nat, NEW o \in Nat
  PROVE  Smaller(DefaultFragment, Minus(l, o)) \in Nat
BY LargeBlobAssumption DEF Smaller, Minus

LEMMA CallReads ==
  ASSUME Call, StoredSealed
  PROVE  ReadsOn' /\ WritesOn'
<1>1. UNCHANGED card
  BY DEF Call, read_array, read_chunk, write_array, Begin
<1>2. stored' = stored /\ stored \in Seq(Bytes)
  BY <1>1, LargeBlobAssumption DEF card, StoredSealed, SealedArrays
<1>3. ASSUME NEW r \in ResponseLimits, NEW x \in ExchangeLimits, read_array(r, x)
      PROVE  ReadsOn' /\ WritesOn'
  <2>1. PICK size : size = Smaller(DefaultFragment, Minus(r, ReadOverhead))
    OBVIOUS
  <2>2. /\ op' = "read" /\ chunk' = size /\ size > 0 /\ offset' = 0 /\ buffer' = <<>>
    BY <1>3, <2>1 DEF read_array, Begin
  <2>3. size \in Nat
    BY <2>1, Sizes, LargeBlobAssumption
  <2>4. SubSeq(stored, 1, 0) = <<>> /\ 0 <= Len(stored)
    BY <1>2, SubSeqEmpty
  <2> QED  BY <1>2, <2>2, <2>3, <2>4 DEF ReadsOn, WritesOn
<1>4. ASSUME NEW at \in 0 .. MaxArray, NEW n \in 1 .. DefaultFragment, NEW x \in ExchangeLimits,
             read_chunk(at, n, x)
      PROVE  ReadsOn' /\ WritesOn'
  <2>1. op' = "chunk" /\ chunk' = n /\ offset' = at /\ buffer' = <<>>
    BY <1>4 DEF read_chunk, Begin
  <2>2. n \in Nat \ {0} /\ at \in Nat
    BY LargeBlobAssumption
  <2> QED  BY <2>1, <2>2 DEF ReadsOn, WritesOn
<1>5. ASSUME NEW a \in Arrays, NEW t \in Tokens \cup {Nothing}, NEW i \in InputLimits,
             NEW x \in ExchangeLimits, write_array(a, t, i, x)
      PROVE  ReadsOn' /\ WritesOn'
  <2>1. PICK size : size = Smaller(DefaultFragment, Minus(i, WriteOverhead))
    OBVIOUS
  <2>2. /\ op' = "write" /\ data' = a /\ token' = t /\ messages' = Fragments(a, size, t)
        /\ size > 0 /\ Len(a) \in MinArray .. MaxArray
    BY <1>5, <2>1 DEF write_array, Begin
  <2>3. size \in Nat
    BY <2>1, Sizes, LargeBlobAssumption
  <2>4. a \in Seq(Bytes) /\ MinArray \in Nat \ {0}
    BY LargeBlobAssumption
  <2>5. a # <<>> /\ size # 0
    BY <2>2, <2>3, <2>4
  <2>6. /\ Carries(Fragments(a, size, t), a, t)
        /\ Fragments(a, size, t)[1].offset = 0
    BY <2>3, <2>4, <2>5, FragmentsCarry
  <2>7. ~(0 > 0)
    OBVIOUS
  <2> QED  BY <2>2, <2>6, <2>7 DEF ReadsOn, WritesOn
<1> QED
  BY <1>3, <1>4, <1>5 DEF Call

(* What every step of a documented authenticator is.                       *)
LEMMA SoundSteps ==
  ASSUME LInv, ~faulty, Next
  PROVE  Sound
<1>1. CASE Call
  <2>1. Types' /\ Starts
    BY <1>1, CallStarts DEF LInv
  <2>2. StoredSealed'
    BY <2>1 DEF Starts, LInv, StoredSealed
  <2>3. ReadsOn' /\ WritesOn'
    BY <1>1, CallReads DEF LInv
  <2>4. RefusalExplained'
    BY <2>1 DEF Starts, RefusalExplained
  <2> QED  BY <2>1, <2>2, <2>3, <2>4 DEF Sound, LInv
<1>2. ~Misanswered
  BY DEF Misanswered
<1> QED
  BY <1>1, <1>2, SelectedKeeps, SelectRefusedKeeps, ReadAnsweredKeeps, WriteAnsweredKeeps,
     AbandonedKeeps DEF Next, Respond

(* No step makes a card faulty or repairs it, whatever it answers.         *)
LEMMA FaultStays ==
  ASSUME LInv, [Next]_vars
  PROVE  Types' /\ UNCHANGED faulty
<1>1. CASE UNCHANGED vars
  BY <1>1 DEF vars, machine, fixed, LInv, Types
<1>2. CASE Call
  BY <1>2, CallStarts DEF LInv, Starts, fixed
<1>3. CASE Respond
  <2>1. /\ stage # "Idle" /\ stage' \in {"Idle", "Exchange"} /\ UNCHANGED <<machine, fixed>>
    BY <1>3, Zenon DEF Respond, Selected, SelectRefused, ReadAnswered, WriteAnswered, Misanswered,
       Abandoned, Substring, NextFragment, Issue, Finish
  <2> QED  BY <2>1, TypesKept DEF LInv, fixed
<1> QED
  BY <1>1, <1>2, <1>3 DEF Next

-----------------------------------------------------------------------------
(* Theorems                                                                *)

LEMMA InitKept == Init => LInv
<1> SUFFICES ASSUME Init PROVE LInv
  OBVIOUS
<1>1. Types
  BY DEF Init, Types
<1>2. StoredSealed
  BY LargeBlobAssumption DEF Init, StoredSealed, SealedArrays
<1>3. RefusalExplained /\ ReadsOn /\ WritesOn
  BY DEF Init, RefusalExplained, ReadsOn, WritesOn
<1> QED
  BY <1>1, <1>2, <1>3 DEF LInv

LEMMA NextKept == LInv /\ [Next]_vars => LInv'
<1> SUFFICES ASSUME LInv, [Next]_vars PROVE LInv'
  OBVIOUS
<1>1. CASE faulty
  <2>1. Types' /\ faulty'
    BY <1>1, FaultStays
  <2> QED  BY <2>1 DEF LInv, RefusalExplained
<1>2. CASE ~faulty /\ Next
  BY <1>2, SoundSteps DEF Sound
<1>3. CASE UNCHANGED vars
  BY <1>3
     DEF vars, machine, card, fixed, LInv, Types, RefusalExplained, StoredSealed, ReadsOn, WritesOn
<1> QED
  BY <1>1, <1>2, <1>3

(* The inductive invariant: with a documented authenticator, what is       *)
(* stored was sealed by an application, the buffer of read_array is the    *)
(* beginning of it, and the fragments of write_array not yet sent continue *)
(* exactly what the card has taken of the array.                           *)
THEOREM BlobInvariant == Spec => []LInv
<1>1. Init => LInv
  BY InitKept
<1>2. LInv /\ [Next]_vars => LInv'
  BY NextKept
<1> QED
  BY <1>1, <1>2, PTL DEF Spec

(* For any arrays, fragment sizes and tokens, a documented authenticator   *)
(* refuses write_array only for the token or for the array's own trailer:  *)
(* the offsets, totals and MACs of the fragments are never at fault.       *)
THEOREM BlobRefusals == Spec => []RefusalExplained
<1>1. LInv => RefusalExplained
  BY DEF LInv
<1> QED
  BY <1>1, BlobInvariant, PTL

(* A call is answered.                                                     *)
LEMMA CallIsNot ==
  ASSUME Types, stage # "Idle"
  PROVE  [op |-> op, array |-> data] # Nothing
<1>1. op \in {"read", "chunk", "write"} /\ data \in Arrays \cup {<<>>}
  BY DEF Types
<1>2. [op |-> op, array |-> data] \in [op : {"read", "chunk", "write"}, array : Arrays \cup {<<>>}]
  BY <1>1
<1> QED
  BY <1>2, NothingAssumption

LEMMA InitStore == Init => Store!Init
<1> SUFFICES ASSUME Init PROVE Store!Init
  OBVIOUS
<1>1. stored \in SealedArrays
  BY LargeBlobAssumption DEF Init, SealedArrays
<1>2. (CHOOSE a \in SealedArrays : TRUE) \in SealedArrays
  BY <1>1
<1> QED
  BY <1>1, <1>2 DEF Init, Store!Init

LEMMA StepStore ==
  ASSUME LInv, ~faulty, Sound
  PROVE  [Store!Next]_(Store!vars)
<1>1. CASE Starts
  <2>1. ~faulty' /\ stage = "Idle" /\ stage' = "Select" /\ stored' = stored
    BY <1>1 DEF Starts, fixed
  <2>2. PICK c : c = [op |-> op', array |-> data']
    OBVIOUS
  <2>3. c \in Store!Calls
    BY <1>1, <2>2 DEF Starts, Store!Calls
  <2>4. Store!Start(c)
    BY <2>1, <2>2 DEF Store!Start
  <2> QED  BY <2>3, <2>4 DEF Store!Next
<1>2. CASE GoesOn
  <2>1. /\ ~faulty' /\ stage # "Idle" /\ stage' # "Idle" /\ stored' = stored
        /\ op' = op /\ data' = data
    BY <1>2 DEF GoesOn, fixed, machine
  <2> QED  BY <2>1 DEF Store!vars
<1>3. ASSUME Ends
      PROVE  /\ ~faulty' /\ stage # "Idle" /\ stage' = "Idle" /\ op' = op /\ op # "none"
             /\ op \in {"read", "chunk", "write"} /\ [op |-> op, array |-> data] # Nothing
  BY <1>3, CallIsNot DEF Ends, fixed, machine, LInv, Types
<1>4. CASE Fails
  <2>1. Store!Fail
    BY <1>3, <1>4 DEF Fails, Store!Fail
  <2> QED  BY <2>1 DEF Store!Next
<1>5. CASE ReadsDone
  <2>1. Store!ReadDone
    BY <1>3, <1>5 DEF ReadsDone, Returns, Store!ReadDone, Store!Parts
  <2> QED  BY <2>1 DEF Store!Next
<1>6. CASE WritesDone
  <2>1. Store!WriteDone
    BY <1>3, <1>6 DEF WritesDone, Store!WriteDone
  <2> QED  BY <2>1 DEF Store!Next
<1> QED
  BY <1>1, <1>2, <1>4, <1>5, <1>6 DEF Sound

LEMMA NextStore == LInv /\ [Next]_vars => [Store!Next]_(Store!vars)
<1> SUFFICES ASSUME LInv, [Next]_vars PROVE [Store!Next]_(Store!vars)
  OBVIOUS
<1>1. CASE faulty
  <2>1. faulty'
    BY <1>1, FaultStays
  <2> QED  BY <1>1, <2>1 DEF Store!vars
<1>2. CASE ~faulty /\ Next
  BY <1>2, SoundSteps, StepStore
<1>3. CASE UNCHANGED vars
  BY <1>3 DEF vars, machine, card, fixed, Store!vars
<1> QED
  BY <1>1, <1>2, <1>3

(* With a documented authenticator the fragment protocol is one array that *)
(* is read whole and replaced whole: whatever limits, budgets, refusals,   *)
(* power losses and abandoned operations cut it short, read_array returns  *)
(* the stored array and write_array leaves the old one or the new one.     *)
THEOREM BlobRefines == Spec => ImplementsBlobStore
<1>1. Init => Store!Init
  BY InitStore
<1>2. LInv /\ [Next]_vars => [Store!Next]_(Store!vars)
  BY NextStore
<1> QED
  BY <1>1, <1>2, BlobInvariant, PTL DEF Spec, ImplementsBlobStore, Store!Spec

-----------------------------------------------------------------------------
(* Credentials: what the authenticator lists                               *)

IsSequence(s) == s \in Seq({s[i] : i \in DOMAIN s})

(* A finite set of numbers has a least member.                             *)
LEMMA LeastMember ==
  ASSUME NEW T \in SUBSET Nat, T # {}
  PROVE  \E x \in T : \A y \in T : x <= y
<1> DEFINE R == {p \in Nat \X Nat : p[1] < p[2]}
<1>1. IsWellFoundedOn(R, Nat)
  <2>1. OpToRel(<, Nat) = R
    BY DEF OpToRel
  <2> QED BY <2>1, NatLessThanWellFounded
<1>2. PICK x \in T : \A y \in T : ~(<<y, x>> \in R)
  <2> HIDE DEF R
  <2> QED BY <1>1, WFMin
<1>3. ASSUME NEW y \in T PROVE x <= y
  <2>1. ~(<<y, x>> \in R)
    BY <1>2
  <2>2. ~(y < x)
    BY <2>1
  <2> QED BY <2>2
<1> QED BY <1>3

(* A list of n entries is a sequence of n entries.                         *)
LEMMA ListOfEntries ==
  ASSUME NEW n \in Nat, NEW s, DOMAIN s = 1 .. n, s = [i \in 1 .. n |-> s[i]]
  PROVE  IsSequence(s) /\ Len(s) = n
<1>1. \A i \in 1 .. n : s[i] \in {s[j] : j \in DOMAIN s}
  OBVIOUS
<1>2. s \in [1 .. n -> {s[j] : j \in DOMAIN s}]
  BY <1>1
<1>3. s \in Seq({s[j] : j \in DOMAIN s})
  BY <1>2, SMT
<1>4. QED
  BY <1>3, LenProperties, SMT DEF IsSequence

(* The credentials at some positions are as many as the positions.         *)
LEMMA ListOfPositions ==
  ASSUME IsSequence(creds), NEW P, P \in SUBSET DOMAIN creds
  PROVE  /\ IsFiniteSet(P) /\ Cardinality(P) \in Nat
         /\ DOMAIN CredsAt(P) = 1 .. Cardinality(P)
         /\ IsSequence(CredsAt(P)) /\ Len(CredsAt(P)) = Cardinality(P)
<1>1. DOMAIN creds = 1 .. Len(creds) /\ Len(creds) \in Nat
  BY LenProperties, Zenon DEF IsSequence
<1>2. IsFiniteSet(P)
  <2>1. IsFiniteSet(1 .. Len(creds))
    BY <1>1, FS_Interval, SMT
  <2>2. QED
    BY <1>1, <2>1, FS_Subset
<1>3. Cardinality(P) \in Nat
  BY <1>2, FS_CardinalityType
<1>4. DOMAIN CredsAt(P) = 1 .. Cardinality(P)
  BY DEF CredsAt
<1>5. CredsAt(P) = [i \in 1 .. Cardinality(P) |-> CredsAt(P)[i]]
  BY DEF CredsAt
<1>6. QED
  BY <1>2, <1>3, <1>4, <1>5, ListOfEntries

(* The first of some credentials is one of them.                           *)
LEMMA FirstOfPositions ==
  ASSUME IsSequence(creds), NEW P, P \in SUBSET DOMAIN creds, CredsAt(P) # <<>>
  PROVE  \E i \in P : Head(CredsAt(P)) = creds[i]
<1>1. DOMAIN creds = 1 .. Len(creds) /\ Len(creds) \in Nat
  BY LenProperties, Zenon DEF IsSequence
<1>2. /\ IsFiniteSet(P) /\ Cardinality(P) \in Nat
      /\ DOMAIN CredsAt(P) = 1 .. Cardinality(P)
      /\ IsSequence(CredsAt(P)) /\ Len(CredsAt(P)) = Cardinality(P)
  BY ListOfPositions
<1>3. Cardinality(P) >= 1 /\ Head(CredsAt(P)) = CredsAt(P)[1]
  BY <1>2, SMT DEF IsSequence
<1>4. P # {}
  BY <1>3, FS_EmptySet, SMT
<1>5. PICK i \in P : \A j \in P : i <= j
  BY <1>1, <1>4, LeastMember, SMT
<1>6. {j \in P : j <= i} = {i}
  BY <1>1, <1>5, SMT
<1>7. Cardinality({j \in P : j <= i}) = 1
  BY <1>6, FS_Singleton
<1>8. DEFINE k == CHOOSE n \in P : Cardinality({j \in P : j <= n}) = 1
<1>9. k \in P
  BY <1>5, <1>7
<1>10. CredsAt(P)[1] = creds[k]
  BY <1>2, <1>3, SMT DEF CredsAt
<1>11. QED
  BY <1>3, <1>9, <1>10

(* The listing is a sequence.                                              *)
LEMMA ListingSequence ==
  ASSUME IsSequence(creds), NEW c
  PROVE  IsSequence(Listing(c))
<1>1. \A P \in SUBSET DOMAIN creds :
        Cardinality(P) \in Nat /\ DOMAIN CredsAt(P) = 1 .. Cardinality(P)
  BY ListOfPositions
<1>2. \A rp : \E n \in Nat : DOMAIN Resident(rp) = 1 .. n
  BY <1>1 DEF Resident
<1>3. \E n \in Nat : DOMAIN Leading = 1 .. n
  BY <1>1 DEF Leading
<1>4. CASE c.op = "enumerate_rps"
  <2>1. PICK n \in Nat : DOMAIN Leading = 1 .. n
    BY <1>3
  <2>2. DOMAIN Listing(c) = 1 .. n /\ Listing(c) = [i \in 1 .. n |-> Listing(c)[i]]
    BY <1>4, <2>1 DEF Listing
  <2>3. QED
    BY <2>2, ListOfEntries
<1>5. CASE c.op # "enumerate_rps"
  <2>1. PICK n \in Nat : DOMAIN Resident(c.rp) = 1 .. n
    BY <1>2
  <2>2. DOMAIN Listing(c) = 1 .. n /\ Listing(c) = [i \in 1 .. n |-> Listing(c)[i]]
    BY <1>5, <2>1 DEF Listing
  <2>3. QED
    BY <2>2, ListOfEntries
<1>6. QED
  BY <1>4, <1>5

-----------------------------------------------------------------------------
(* The answer to the first message                                         *)

Valid == \E x \in Find(call.id) : x.rp = call.rp

IsAnswer(x) == \E s, f, v, c : x = Says(s, f, v, c)

Unsaid == {"Done", "Lost", "InvalidResponse"}

(* What the answer to an enumeration's first message says.                 *)
Begins(x) ==
  /\ x.card.creds = creds
  /\ x.status = "2e" => Listing(call) = <<>>
  /\ x.status = "00" =>
       /\ Listing(call) # <<>>
       /\ x.value[1] \in Nat /\ x.value[2] = Listing(call)[1]
       /\ x.card.cursor = Tail(Listing(call))

(* What an answer says is so, and its status has a cause.                  *)
Faithful(x) ==
  /\ IsAnswer(x) /\ x.status \notin Unsaid
  /\ x.card.creds \in {creds, Promised} /\ IsSequence(x.card.creds)
  /\ x.status \notin SuccessStatus => x.card.creds = creds
  /\ x.status \in SuccessStatus => x.card.creds = Promised
  /\ x.status = "33" => inForce = Absent \/ call.token # inForce
  /\ call.mc => x.status # "14"
  /\ call.op = "check_only" /\ x.status = "6985" => Valid
  /\ x.status \in SuccessStatus =>
       /\ call.op \in {"get_assertion", "authenticate"} =>
            \E y \in Find(x.value[1]) : y.rp = call.rp
       /\ call.op \in {"make_credential", "register"} => x.value = <<made + 1>>
  /\ call.op \in Enumerations => Begins(x)

(* A refusal keeps the credentials.                                        *)
LEMMA RefusalFaithful ==
  ASSUME IsSequence(creds), NEW s, s \notin SuccessStatus \cup Unsaid \cup {"33", "14"},
         call.op = "check_only" /\ s = "6985" => Valid,
         call.op \in Enumerations => s = "2e" /\ Listing(call) = <<>>
  PROVE  Faithful(CredFails(s))
<1>1. CredFails(s) = Says(s, {}, <<>>, Keep)
  BY DEF CredFails
<1>2. CredFails(s).status = s /\ CredFails(s).card.creds = creds
  BY DEF CredFails, Says, Keep
<1>3. call.op \in Enumerations => Begins(CredFails(s))
  BY <1>2 DEF Begins, SuccessStatus
<1>4. IsAnswer(CredFails(s))
  BY <1>1 DEF IsAnswer
<1>5. QED
  BY <1>2, <1>3, <1>4 DEF Faithful, SuccessStatus

(* A success that keeps the credentials, of an operation that promises no  *)
(* more.                                                                   *)
LEMMA SuccessFaithful ==
  ASSUME IsSequence(creds), NEW s \in SuccessStatus, NEW f, NEW v, NEW c,
         c.creds = creds, Promised = creds,
         call.op \in {"get_assertion", "authenticate"} => \E y \in Find(v[1]) : y.rp = call.rp,
         call.op \notin {"make_credential", "register"} \cup Enumerations
  PROVE  Faithful(Says(s, f, v, c))
<1>1. /\ Says(s, f, v, c).status = s /\ Says(s, f, v, c).card = c
      /\ Says(s, f, v, c).value = v
  BY DEF Says
<1>2. IsAnswer(Says(s, f, v, c))
  BY DEF IsAnswer
<1>3. s # "33" /\ s # "14" /\ s # "6985" /\ s \notin Unsaid
  BY DEF SuccessStatus, Unsaid
<1>4. QED
  BY <1>1, <1>2, <1>3 DEF Faithful

(* Other firmware changes the fields of an answer only.                    *)
LEMMA AlteredAnswer ==
  ASSUME NEW answers, \A x \in answers : IsAnswer(x), NEW a \in OrAltered(answers)
  PROVE  \E x \in answers : a.status = x.status /\ a.value = x.value /\ a.card = x.card
<1>1. CASE a \in answers
  BY <1>1
<1>2. ASSUME NEW x \in answers, NEW f, a = [x EXCEPT !.fields = f]
      PROVE  a.status = x.status /\ a.value = x.value /\ a.card = x.card
  <2>1. PICK s, g, v, c : x = Says(s, g, v, c)
    BY DEF IsAnswer
  <2>2. QED
    BY <1>2, <2>1 DEF Says
<1>3. QED
  BY <1>1, <1>2 DEF OrAltered

(* The credentials that succeed an operation are a sequence, too.          *)
LEMMA PromisedSequence ==
  ASSUME IsSequence(creds)
  PROVE  IsSequence(Promised)
<1>1. DOMAIN creds = 1 .. Len(creds) /\ Len(creds) \in Nat
  BY LenProperties, Zenon DEF IsSequence
<1>2. \A id : IsSequence(Without(id))
  BY ListOfPositions DEF Without
<1>3. CASE call.op = "update_user_information"
  <2>1. /\ DOMAIN Promised = 1 .. Len(creds)
        /\ Promised = [i \in 1 .. Len(creds) |-> Promised[i]]
    BY <1>1, <1>3 DEF Promised
  <2>2. QED
    BY <1>1, <2>1, ListOfEntries
<1>4. ASSUME NEW x PROVE IsSequence(Append(creds, x))
  <2>1. /\ DOMAIN Append(creds, x) = 1 .. Len(creds) + 1
        /\ Append(creds, x) = [i \in 1 .. Len(creds) + 1 |-> Append(creds, x)[i]]
    <3>1. creds \in Seq({creds[i] : i \in DOMAIN creds} \cup {x})
      BY SMT DEF IsSequence
    <3>2. Append(creds, x) \in Seq({creds[i] : i \in DOMAIN creds} \cup {x})
      BY <3>1, AppendProperties
    <3>3. Len(Append(creds, x)) = Len(creds) + 1
      BY <3>1, AppendProperties
    <3>4. Append(creds, x) \in
            [1 .. Len(creds) + 1 -> {creds[i] : i \in DOMAIN creds} \cup {x}]
      BY <3>2, <3>3, LenProperties, Zenon
    <3>5. QED
      BY <3>4
  <2>2. QED
    BY <1>1, <2>1, ListOfEntries
<1>5. IsSequence(<<>>)
  BY EmptySeq DEF IsSequence
<1>6. QED
  BY <1>2, <1>3, <1>4, <1>5 DEF Promised

(* A management command names its operation, its parameters and a MAC of   *)
(* both under the caller's token.                                          *)
LEMMA ManagementMessage ==
  ASSUME call.op \in Managed
  PROVE  /\ message(call).op = call.op
         /\ message(call).auth =
              [key |-> call.token, of |-> <<message(call).sub>> \o message(call).params]
         /\ message(call).sub = (CASE call.op = "get_creds_metadata" -> 1
                                   [] call.op = "enumerate_rps" -> 2
                                   [] call.op = "enumerate_credentials" -> 4
                                   [] call.op = "delete_credential" -> 6
                                   [] call.op = "update_user_information" -> 7)
         /\ call.op = "delete_credential" => message(call).id = call.id
         /\ call.op = "update_user_information" =>
              message(call).id = call.id /\ message(call).user = call.user
<1> DEFINE sub == CASE call.op = "get_creds_metadata" -> 1
                    [] call.op = "enumerate_rps" -> 2
                    [] call.op = "enumerate_credentials" -> 4
                    [] call.op = "delete_credential" -> 6
                    [] call.op = "update_user_information" -> 7
<1>1. ASSUME NEW s, NEW params, message(call) = management(call, s, params)
      PROVE  LET m == message(call) IN
             /\ m.op = call.op /\ m.sub = s
             /\ m.auth = [key |-> call.token, of |-> <<m.sub>> \o m.params]
             /\ m.id = call.id /\ m.user = call.user
  <2> DEFINE auth == [key |-> call.token, of |-> <<s>> \o params]
  <2>1. management(call, s, params) =
          [CredMessage(call) EXCEPT !.sub = s, !.params = params, !.auth = auth]
    BY DEF management
  <2> HIDE DEF auth
  <2>2. LET m == message(call) IN
        /\ m.op = call.op /\ m.sub = s /\ m.params = params /\ m.auth = auth
        /\ m.id = call.id /\ m.user = call.user
    BY <1>1, <2>1 DEF CredMessage
  <2>3. QED
    BY <2>2 DEF auth
<1>2. \E params : message(call) = management(call, sub, params)
  <2>1. CASE call.op = "get_creds_metadata"
    BY <2>1, Zenon DEF message, get_creds_metadata
  <2>2. CASE call.op = "enumerate_rps"
    BY <2>2 DEF message, enumerate_rps
  <2>3. CASE call.op = "enumerate_credentials"
    BY <2>3 DEF message, enumerate_credentials
  <2>4. CASE call.op = "delete_credential"
    BY <2>4 DEF message, delete_credential
  <2>5. CASE call.op = "update_user_information"
    BY <2>5 DEF message, update_user_information
  <2>6. QED
    BY <2>1, <2>2, <2>3, <2>4, <2>5 DEF Managed, Enumerations
<1>3. PICK params : message(call) = management(call, sub, params)
  BY <1>2
<1>4. QED
  <2> HIDE DEF sub
  <2> QED BY <1>1, <1>3 DEF sub

(* The answer to a management command.                                     *)
LEMMA ManagementFaithful ==
  ASSUME IsSequence(creds), call.op \in Managed,
         NEW x \in ExecuteManagement(message(call))
  PROVE  Faithful(x)
<1> DEFINE m == message(call)
           list == Listing(call)
           mac == [key |-> inForce, of |-> <<m.sub>> \o m.params]
<1>1. call.op # "check_only"
  BY DEF Managed, Enumerations
<1>2. CASE inForce = Absent \/ m.auth # mac
  <2>1. x = CredFails("33")
    BY <1>2 DEF ExecuteManagement
  <2>2. inForce = Absent \/ call.token # inForce
    BY <1>2, ManagementMessage
  <2>3. x = Says("33", {}, <<>>, Keep) /\ x.status = "33" /\ x.card.creds = creds
    BY <2>1 DEF CredFails, Says, Keep
  <2>4. QED
    BY <1>1, <2>2, <2>3 DEF Faithful, IsAnswer, Begins, SuccessStatus, Unsaid
<1>3. CASE ~(inForce = Absent \/ m.auth # mac)
  <2>1. CASE call.op = "get_creds_metadata"
    <3>1. \E v : x = Says("00", {"1", "2"}, v, Keep)
      BY <1>3, <2>1, ManagementMessage DEF ExecuteManagement
    <3>2. Promised = creds /\ Keep.creds = creds
      BY <2>1 DEF Promised, Keep
    <3>3. QED
      BY <2>1, <3>1, <3>2, SuccessFaithful DEF SuccessStatus, Enumerations
  <2>2. CASE call.op \in Enumerations
    <3>1. m.sub \in {2, 4}
      BY <2>2, ManagementMessage DEF Managed, Enumerations
    <3>2. CASE list = <<>>
      <4>1. x = CredFails("2e")
        BY <1>3, <3>1, <3>2 DEF ExecuteManagement
      <4>2. QED
        BY <1>1, <3>2, <4>1, RefusalFaithful DEF SuccessStatus, Unsaid
    <3>3. CASE list # <<>>
      <4>1. PICK t \in {Len(list)} \cup WrongTotals :
              x = Says("00", EntryFields(call) \cup {"total"}, <<t, list[1]>>,
                       [Keep EXCEPT !.cursor = Tail(list)])
        <5>1. x \in FirstEntries(list)
          BY <1>3, <3>1, <3>3 DEF ExecuteManagement
        <5>2. QED
          BY <5>1, Zenon DEF FirstEntries
      <4>2. Len(list) \in Nat
        BY ListingSequence, LenProperties, Zenon DEF IsSequence
      <4>3. t \in Nat
        BY <4>2, CredentialsAssumption
      <4>4. /\ x.status = "00" /\ x.card.creds = creds /\ x.card.cursor = Tail(list)
            /\ x.value[1] = t /\ x.value[2] = list[1]
        BY <4>1 DEF Says, Keep
      <4>5. Begins(x)
        BY <3>3, <4>3, <4>4 DEF Begins
      <4>6. Promised = creds /\ IsAnswer(x)
        BY <2>2, <4>1 DEF Promised, Enumerations, IsAnswer
      <4>7. call.op \notin {"get_assertion", "authenticate", "make_credential", "register"}
        BY <2>2 DEF Enumerations
      <4>8. QED
        BY <1>1, <4>4, <4>5, <4>6, <4>7 DEF Faithful, SuccessStatus, Unsaid
    <3>4. QED
      BY <3>2, <3>3
  <2>3. CASE call.op \in {"delete_credential", "update_user_information"} /\ Find(m.id) = {}
    <3>1. m.sub \in {6, 7}
      BY <2>3, ManagementMessage DEF Managed, Enumerations
    <3>2. x = CredFails("2e")
      BY <1>3, <2>3, <3>1 DEF ExecuteManagement
    <3>3. QED
      BY <1>1, <2>3, <3>2, RefusalFaithful DEF SuccessStatus, Unsaid, Enumerations
  <2>4. CASE call.op = "delete_credential" /\ Find(m.id) # {}
    <3>1. m.sub = 6 /\ m.id = call.id
      BY <2>4, ManagementMessage DEF Managed, Enumerations
    <3>2. x = Says("00", {}, <<>>, [Keep EXCEPT !.creds = Without(m.id)])
      BY <1>3, <2>4, <3>1 DEF ExecuteManagement
    <3>3. x.status = "00" /\ x.card.creds = Promised /\ IsAnswer(x)
      BY <2>4, <3>1, <3>2 DEF Says, Keep, Promised, IsAnswer
    <3>4. QED
      BY <2>4, <3>3, PromisedSequence DEF Faithful, SuccessStatus, Unsaid, Enumerations
  <2>5. CASE call.op = "update_user_information" /\ Find(m.id) # {}
    <3>1. m.sub = 7 /\ m.id = call.id /\ m.user = call.user
      BY <2>5, ManagementMessage DEF Managed, Enumerations
    <3>2. x = Says("00", {}, <<>>,
                [Keep EXCEPT !.creds = [i \in DOMAIN @ |->
                   IF @[i].id = m.id THEN [@[i] EXCEPT !.user = m.user] ELSE @[i]]])
      BY <1>3, <2>5, <3>1 DEF ExecuteManagement
    <3>3. x.status = "00" /\ x.card.creds = Promised /\ IsAnswer(x)
      BY <2>5, <3>1, <3>2 DEF Says, Keep, Promised, IsAnswer
    <3>4. QED
      BY <2>5, <3>3, PromisedSequence DEF Faithful, SuccessStatus, Unsaid, Enumerations
  <2>6. QED
    BY <2>1, <2>2, <2>3, <2>4, <2>5 DEF Managed
<1>4. QED
  BY <1>2, <1>3

(* The answer to a make_credential.                                        *)
LEMMA MakeFaithful ==
  ASSUME IsSequence(creds), Accepted(call), call.op = "make_credential",
         NEW x \in ExecuteMake(message(call))
  PROVE  Faithful(x)
<1> DEFINE m == message(call)
           new == New(m.rp, m.user, m.resident)
<1>1. /\ m.rp = call.rp /\ m.user = call.user /\ m.resident = call.resident
      /\ m.extensions = call.raw \cup (IF call.hmac THEN {"hmac-secret"} ELSE {})
                          \cup (IF call.mc THEN {"hmac-secret-mc"} ELSE {})
  BY DEF message, make_credential, CredMessage
<1>2. call.mc => call.hmac
  BY DEF Accepted
<1>3. CASE "hmac-secret-mc" \in m.extensions /\ "hmac-secret" \notin m.extensions
  <2>1. x = CredFails("14")
    <3> HIDE DEF m
    <3> QED BY <1>3 DEF ExecuteMake, m
  <2>2. ~call.mc
    BY <1>1, <1>2, <1>3
  <2>3. /\ x.status = "14" /\ x.card.creds = creds /\ IsAnswer(x)
    BY <2>1 DEF CredFails, Says, Keep, IsAnswer
  <2>4. QED
    BY <2>2, <2>3 DEF Faithful, SuccessStatus, Unsaid, Enumerations
<1>4. CASE ~("hmac-secret-mc" \in m.extensions /\ "hmac-secret" \notin m.extensions)
  <2>1. \/ x \in {CredFails("19"), CredFails("28"), CredFails("27")}
        \/ x = Says("00", {"1", "2", "3"} \cup m.extensions, <<made + 1>>, Added(new))
    <3> HIDE DEF m, new
    <3> QED BY <1>4 DEF ExecuteMake, m, new
  <2>2. CASE x \in {CredFails("19"), CredFails("28"), CredFails("27")}
    BY <2>2, RefusalFaithful DEF SuccessStatus, Unsaid, Enumerations
  <2>3. CASE x = Says("00", {"1", "2", "3"} \cup m.extensions, <<made + 1>>, Added(new))
    <3>1. x.status = "00" /\ x.value = <<made + 1>> /\ x.card = Added(new) /\ IsAnswer(x)
      BY <2>3 DEF Says, IsAnswer
    <3>2. new = New(call.rp, call.user, call.resident)
      BY <1>1
    <3>3. Added(new).creds = Append(creds, new)
      BY DEF Added, Keep
    <3>4. Promised = Append(creds, new)
      BY <3>2 DEF Promised
    <3>5. QED
      BY <3>1, <3>3, <3>4, PromisedSequence DEF Faithful, SuccessStatus, Unsaid, Enumerations
  <2>4. QED
    BY <2>1, <2>2, <2>3
<1>5. QED
  BY <1>3, <1>4

(* The answer to a get_assertion.                                          *)
LEMMA AssertionFaithful ==
  ASSUME IsSequence(creds), call.op = "get_assertion",
         NEW x \in ExecuteAssertion(message(call))
  PROVE  Faithful(x)
<1> DEFINE m == message(call)
<1>1. m.rp = call.rp
  BY DEF message, get_assertion, CredMessage
<1>2. \/ x \in {CredFails("2e"), CredFails("27")}
      \/ /\ Matching(m) # <<>>
         /\ x = Says("00", {"1", "2", "3", "5"} \cup m.extensions, <<Head(Matching(m)).id>>,
                     [Keep EXCEPT !.assertions = Tail(Matching(m))])
  BY DEF ExecuteAssertion
<1>3. CASE x \in {CredFails("2e"), CredFails("27")}
  BY <1>3, RefusalFaithful DEF SuccessStatus, Unsaid, Enumerations
<1>4. CASE /\ Matching(m) # <<>>
           /\ x = Says("00", {"1", "2", "3", "5"} \cup m.extensions, <<Head(Matching(m)).id>>,
                       [Keep EXCEPT !.assertions = Tail(Matching(m))])
  <2>1. \E i \in DOMAIN creds : Head(Matching(m)) = creds[i] /\ creds[i].rp = call.rp
    <3> HIDE DEF m
    <3> DEFINE P == {i \in DOMAIN creds :
                       IF m.list = {} THEN creds[i].resident /\ creds[i].rp = call.rp
                       ELSE creds[i].rp = call.rp /\ creds[i].id \in m.list}
    <3>1. Matching(m) = CredsAt(P)
      BY <1>1 DEF Matching, Resident
    <3>2. P \in SUBSET DOMAIN creds /\ \A i \in P : creds[i].rp = call.rp
      OBVIOUS
    <3> HIDE DEF P
    <3>3. \E i \in P : Head(CredsAt(P)) = creds[i]
      BY <1>4, <3>1, <3>2, FirstOfPositions
    <3>4. QED
      BY <3>1, <3>2, <3>3
  <2>2. \E y \in Find(Head(Matching(m)).id) : y.rp = call.rp
    BY <2>1 DEF Find, ToSet
  <2>3. Promised = creds
    BY DEF Promised
  <2>4. QED
    <3> HIDE DEF m
    <3> QED BY <1>4, <2>2, <2>3, SuccessFaithful DEF Keep, SuccessStatus, Enumerations
<1>5. QED
  BY <1>2, <1>3, <1>4

(* The answer to a U2F message.                                            *)
LEMMA U2fFaithful ==
  ASSUME IsSequence(creds), call.op \in U2f, NEW x \in ExecuteU2f(message(call))
  PROVE  Faithful(x)
<1> DEFINE m == message(call)
           new == New(m.rp, m.user, FALSE)
<1>1. m.op = call.op /\ m.id = call.id /\ m.rp = call.rp /\ m.user = call.user
  BY DEF message, CredMessage, U2f
<1>2. \/ call.op = "version" /\ x = Says("9000", {"U2F_V2"}, <<>>, Keep)
      \/ x \in {CredFails("6d00"), CredFails("6a80")}
      \/ x = CredFails("6985") /\ (call.op = "check_only" => Valid)
      \/ call.op = "check_only" /\ x = CredFails("9000")
      \/ /\ call.op = "register"
         /\ x = Says("9000", {"05", "key", "handle", "certificate", "signature"},
                     <<made + 1>>, Added(new))
      \/ /\ call.op = "authenticate" /\ Valid
         /\ x = Says("9000", {"presence", "counter", "signature"}, <<m.id>>, Keep)
  <2> HIDE DEF m, new
  <2>1. CASE call.op = "version"
    BY <1>1, <2>1 DEF ExecuteU2f, m
  <2>2. CASE call.op # "version" /\ alwaysUv
    BY <1>1, <2>2 DEF ExecuteU2f, m
  <2>3. CASE call.op = "register" /\ ~alwaysUv
    BY <1>1, <2>3 DEF ExecuteU2f, m, new
  <2>4. CASE call.op \in {"authenticate", "check_only"} /\ ~alwaysUv /\ ~Valid
    BY <1>1, <2>4 DEF ExecuteU2f, m, Valid
  <2>5. CASE call.op = "check_only" /\ ~alwaysUv /\ Valid
    BY <1>1, <2>5 DEF ExecuteU2f, m, Valid
  <2>6. CASE call.op = "authenticate" /\ ~alwaysUv /\ Valid
    BY <1>1, <2>6 DEF ExecuteU2f, m, Valid
  <2>7. QED
    BY <2>1, <2>2, <2>3, <2>4, <2>5, <2>6 DEF U2f
<1>3. CASE call.op = "version" /\ x = Says("9000", {"U2F_V2"}, <<>>, Keep)
  <2>1. Promised = creds /\ Keep.creds = creds
    BY <1>3 DEF Promised, Keep
  <2>2. QED
    BY <1>3, <2>1, SuccessFaithful DEF SuccessStatus, Enumerations
<1>4. CASE x \in {CredFails("6d00"), CredFails("6a80")}
  BY <1>4, RefusalFaithful DEF SuccessStatus, Unsaid, Enumerations, U2f
<1>5. CASE x = CredFails("6985") /\ (call.op = "check_only" => Valid)
  BY <1>5, RefusalFaithful DEF SuccessStatus, Unsaid, Enumerations, U2f
<1>6. CASE call.op = "check_only" /\ x = CredFails("9000")
  <2>1. Promised = creds /\ Keep.creds = creds
    BY <1>6 DEF Promised, Keep
  <2>2. QED
    BY <1>6, <2>1, SuccessFaithful DEF CredFails, SuccessStatus, Enumerations
<1>7. CASE /\ call.op = "register"
           /\ x = Says("9000", {"05", "key", "handle", "certificate", "signature"},
                       <<made + 1>>, Added(new))
  <2>1. x.status = "9000" /\ x.value = <<made + 1>> /\ x.card = Added(new) /\ IsAnswer(x)
    BY <1>7 DEF Says, IsAnswer
  <2>2. new = New(call.rp, call.user, FALSE)
    BY <1>1
  <2>3. Added(new).creds = Append(creds, new)
    BY DEF Added, Keep
  <2>4. Promised = Append(creds, new)
    BY <1>7, <2>2 DEF Promised
  <2>5. QED
    BY <1>7, <2>1, <2>3, <2>4, PromisedSequence
       DEF Faithful, SuccessStatus, Unsaid, Enumerations
<1>8. CASE /\ call.op = "authenticate" /\ Valid
           /\ x = Says("9000", {"presence", "counter", "signature"}, <<m.id>>, Keep)
  <2>1. Promised = creds /\ Keep.creds = creds
    BY <1>8 DEF Promised, Keep
  <2>2. \E y \in Find(<<m.id>>[1]) : y.rp = call.rp
    BY <1>1, <1>8 DEF Valid
  <2>3. QED
    <3> HIDE DEF m
    <3> QED BY <1>8, <2>1, <2>2, SuccessFaithful DEF SuccessStatus, Enumerations
<1>9. QED
  BY <1>2, <1>3, <1>4, <1>5, <1>6, <1>7, <1>8

(* The messages and their handlers.                                        *)
LEMMA Dispatch ==
  ASSUME NEW m, NEW x \in Execute(m), m.op \in Operations
  PROVE  /\ m.op \in Managed => x \in ExecuteManagement(m)
         /\ m.op = "make_credential" => x \in ExecuteMake(m)
         /\ m.op = "get_assertion" => x \in ExecuteAssertion(m)
         /\ m.op = "get_next_assertion" =>
              \/ x = CredFails("30")
              \/ \E v : x = Says("00", {"1", "2", "3"}, v,
                                [Keep EXCEPT !.assertions = Tail(assertions)])
         /\ m.op = "reset" =>
              \/ x = CredFails("30") \/ x = CredFails("2f")
              \/ x = Says("00", {}, <<>>, [Keep EXCEPT !.creds = <<>>, !.inForce = Absent])
         /\ m.op = "selection" => x = CredFails("27") \/ x = CredFails("00")
         /\ m.op = "get_info" => x = Says("00", {"1", "2", "3", "4"}, <<>>, Keep)
         /\ m.op \in U2f => x \in ExecuteU2f(m)
<1>1. CASE m.op \in Managed
  BY <1>1 DEF Execute, Managed, Enumerations, U2f
<1>2. CASE m.op = "make_credential"
  BY <1>2 DEF Execute, Managed, Enumerations, U2f
<1>3. CASE m.op = "get_assertion"
  BY <1>3 DEF Execute, Managed, Enumerations, U2f
<1>4. CASE m.op = "get_next_assertion"
  BY <1>4 DEF Execute, Managed, Enumerations, U2f
<1>5. CASE m.op = "reset"
  BY <1>5 DEF Execute, Managed, Enumerations, U2f
<1>6. CASE m.op = "selection"
  BY <1>6 DEF Execute, Managed, Enumerations, U2f
<1>7. CASE m.op = "get_info"
  BY <1>7 DEF Execute, Managed, Enumerations, U2f
<1>8. CASE m.op \in U2f
  BY <1>8 DEF Execute, Managed, Enumerations, U2f
<1>9. QED
  BY <1>1, <1>2, <1>3, <1>4, <1>5, <1>6, <1>7, <1>8 DEF Operations, Silent, Managed

(* The answer to the first message of any operation.                       *)
LEMMA AnswersFaithful ==
  ASSUME IsSequence(creds), call \in Calls, Accepted(call),
         NEW x \in Execute(message(call))
  PROVE  Faithful(x)
<1> DEFINE m == message(call)
<1>1. call.op \in Operations
  BY CredentialsAssumption
<1>2. CASE call.op \in Managed
  <2>1. m.op = call.op
    BY <1>2, ManagementMessage
  <2>2. x \in ExecuteManagement(m)
    BY <1>1, <1>2, <2>1, Dispatch
  <2>3. QED
    BY <1>2, <2>2, ManagementFaithful
<1>3. CASE call.op \notin Managed
  <2>1. m.op = call.op
    BY <1>3 DEF message, make_credential, get_assertion, CredMessage, Managed, Enumerations
  <2>2. CASE call.op = "make_credential"
    <3>1. x \in ExecuteMake(m)
      BY <1>1, <2>1, <2>2, Dispatch
    <3>2. QED
      BY <2>2, <3>1, MakeFaithful
  <2>3. CASE call.op = "get_assertion"
    <3>1. x \in ExecuteAssertion(m)
      BY <1>1, <2>1, <2>3, Dispatch
    <3>2. QED
      BY <2>3, <3>1, AssertionFaithful
  <2>4. CASE call.op = "get_next_assertion"
    <3>1. \/ x = CredFails("30")
          \/ \E v : x = Says("00", {"1", "2", "3"}, v,
                            [Keep EXCEPT !.assertions = Tail(assertions)])
      BY <1>1, <2>1, <2>4, Dispatch
    <3>2. Promised = creds /\ [Keep EXCEPT !.assertions = Tail(assertions)].creds = creds
      BY <2>4 DEF Promised, Keep
    <3>3. QED
      BY <2>4, <3>1, <3>2, RefusalFaithful, SuccessFaithful
         DEF SuccessStatus, Unsaid, Enumerations
  <2>5. CASE call.op = "reset"
    <3>1. \/ x = CredFails("30") \/ x = CredFails("2f")
          \/ x = Says("00", {}, <<>>, [Keep EXCEPT !.creds = <<>>, !.inForce = Absent])
      BY <1>1, <2>1, <2>5, Dispatch
    <3>2. CASE x = CredFails("30") \/ x = CredFails("2f")
      BY <2>5, <3>2, RefusalFaithful DEF SuccessStatus, Unsaid, Enumerations
    <3>3. CASE x = Says("00", {}, <<>>, [Keep EXCEPT !.creds = <<>>, !.inForce = Absent])
      <4>1. x.status = "00" /\ x.card.creds = <<>> /\ IsAnswer(x)
        BY <3>3 DEF Says, Keep, IsAnswer
      <4>2. Promised = <<>>
        BY <2>5 DEF Promised
      <4>3. QED
        BY <2>5, <4>1, <4>2, PromisedSequence DEF Faithful, SuccessStatus, Unsaid, Enumerations
    <3>4. QED
      BY <3>1, <3>2, <3>3
  <2>6. CASE call.op = "selection"
    <3>1. x = CredFails("27") \/ x = Says("00", {}, <<>>, Keep)
      BY <1>1, <2>1, <2>6, Dispatch DEF CredFails
    <3>2. Promised = creds /\ Keep.creds = creds
      BY <2>6 DEF Promised, Keep
    <3>3. QED
      BY <2>6, <3>1, <3>2, RefusalFaithful, SuccessFaithful
         DEF SuccessStatus, Unsaid, Enumerations
  <2>7. CASE call.op = "get_info"
    <3>1. x = Says("00", {"1", "2", "3", "4"}, <<>>, Keep)
      BY <1>1, <2>1, <2>7, Dispatch
    <3>2. Promised = creds /\ Keep.creds = creds
      BY <2>7 DEF Promised, Keep
    <3>3. QED
      BY <2>7, <3>1, <3>2, SuccessFaithful DEF SuccessStatus, Enumerations
  <2>8. CASE call.op \in U2f
    <3>1. x \in ExecuteU2f(m)
      BY <1>1, <2>1, <2>8, Dispatch
    <3>2. QED
      BY <2>8, <3>1, U2fFaithful
  <2>9. QED
    BY <1>1, <1>3, <2>2, <2>3, <2>4, <2>5, <2>6, <2>7, <2>8 DEF Operations, Silent, Managed
<1>4. QED
  BY <1>2, <1>3

-----------------------------------------------------------------------------
(* Every operation                                                         *)

CredTypes ==
  /\ IsSequence(creds) /\ credStage \in {"Select", "Message", "GetNext", "Idle"}
  /\ credBudget \in Nat /\ credUsed \in Nat

(* The running operation was accepted.                                     *)
Chosen == credStage # "Idle" => call \in Calls /\ Accepted(call)

(* Nothing was received before the answer to the first message.            *)
Untold ==
  credStage \in {"Select", "Message"} =>
    /\ items = <<>> /\ announced = Absent
    /\ credUsed = IF credStage = "Select" THEN 1 ELSE 2

(* The entries received are the beginning of the listing, the card's       *)
(* cursor is at the rest of it, and the commands sent and still to be sent *)
(* are those that the total calls for.                                     *)
Fetching ==
  credStage = "GetNext" =>
    /\ call.op \in Enumerations
    /\ announced \in Nat /\ remaining \in Nat \ {0} /\ announced = Len(items) + remaining
    /\ Len(items) \in 1 .. Len(Listing(call))
    /\ items = SubSeq(Listing(call), 1, Len(items))
    /\ cursor = SubSeq(Listing(call), Len(items) + 1, Len(Listing(call)))
    /\ credUsed = Len(items) + 2 /\ announced + 1 <= credBudget

CredInv == CredTypes /\ Chosen /\ Untold /\ Fetching /\ EnumerationTrue

LEMMA ListingKept ==
  ASSUME creds' = creds, call' = call
  PROVE  Listing(call)' = Listing(call)
<1>1. \A P : CredsAt(P)' = CredsAt(P)
  BY DEF CredsAt
<1>2. Leading' = Leading
  BY <1>1 DEF Leading, CredsAt
<1>3. \A rp : Resident(rp)' = Resident(rp)
  BY <1>1 DEF Resident, CredsAt
<1>4. QED
  BY <1>2, <1>3 DEF Listing

LEMMA AnsweredFaithful ==
  ASSUME CredInv, credStage = "Message", NEW a \in OrAltered(Execute(message(call)))
  PROVE  Faithful(a)
<1>1. \A x \in Execute(message(call)) : Faithful(x)
  BY AnswersFaithful DEF CredInv, CredTypes, Chosen
<1>2. PICK x \in Execute(message(call)) :
        a.status = x.status /\ a.value = x.value /\ a.card = x.card
  BY <1>1, AlteredAnswer DEF Faithful
<1>3. IsAnswer(a)
  <2>1. CASE a \in Execute(message(call))
    BY <1>1, <2>1 DEF Faithful
  <2>2. ASSUME NEW y \in Execute(message(call)), NEW f, a = [y EXCEPT !.fields = f]
        PROVE  IsAnswer(a)
    <3>1. PICK s, g, v, c : y = Says(s, g, v, c)
      BY <1>1 DEF Faithful, IsAnswer
    <3>2. a = Says(s, f, v, c)
      BY <2>2, <3>1 DEF Says
    <3>3. QED
      BY <3>2 DEF IsAnswer
  <2>3. QED
    BY <2>1, <2>2 DEF OrAltered
<1>4. QED
  BY <1>1, <1>2, <1>3 DEF Faithful, Begins

LEMMA NextAnswer ==
  ASSUME NEW a \in OrAltered({ExecuteGetNext})
  PROVE  /\ a.card.creds = creds /\ a.status \notin Unsaid \cup {"33", "14"}
         /\ a.status = "00" => cursor # <<>> /\ a.value[1] = Head(cursor)
                               /\ a.card.cursor = Tail(cursor)
<1>1. IsAnswer(ExecuteGetNext)
  BY DEF ExecuteGetNext, IsAnswer, CredFails
<1>2. /\ a.status = ExecuteGetNext.status /\ a.value = ExecuteGetNext.value
      /\ a.card = ExecuteGetNext.card
  BY <1>1, AlteredAnswer
<1>3. CASE cursor = <<>>
  BY <1>2, <1>3 DEF ExecuteGetNext, CredFails, Says, Keep, Unsaid
<1>4. CASE cursor # <<>>
  <2>1. ExecuteGetNext = Says("00", EntryFields(call), <<Head(cursor)>>,
                              [Keep EXCEPT !.cursor = Tail(cursor)])
    BY <1>4 DEF ExecuteGetNext
  <2>2. QED
    BY <1>2, <1>4, <2>1 DEF Says, Keep, Unsaid
<1>5. QED
  BY <1>3, <1>4

LEMMA CredInitInv == CredInit => CredInv
<1> SUFFICES ASSUME CredInit PROVE CredInv
  OBVIOUS
<1>1. creds = <<>> /\ credStage = "Idle" /\ credBudget = 0 /\ credUsed = 0 /\ call = NoCall
  BY DEF CredInit
<1>2. IsSequence(creds)
  BY <1>1, EmptySeq DEF IsSequence
<1>3. EnumerationTrue
  BY DEF CredInit, NoCall, Enumerations, EnumerationTrue
<1>4. QED
  BY <1>1, <1>2, <1>3 DEF CredInv, CredTypes, Chosen, Untold, Fetching

(* The first entry of a list and the rest of it.                           *)
LEMMA ListBegin ==
  ASSUME NEW l, IsSequence(l), l # <<>>
  PROVE  /\ Len(l) \in Nat /\ Len(l) >= 1 /\ Len(<<l[1]>>) = 1
         /\ <<l[1]>> = SubSeq(l, 1, 1) /\ Tail(l) = SubSeq(l, 2, Len(l))
         /\ Len(l) = 1 => <<l[1]>> = l
<1> DEFINE S == {l[i] : i \in DOMAIN l}
<1>1. l \in Seq(S)
  BY DEF IsSequence
<1> HIDE DEF S
<1>2. Len(l) \in Nat /\ Len(l) >= 1
  BY <1>1, EmptySeq
<1>3. Tail(l) = SubSeq(l, 2, Len(l))
  BY <1>1, TailIsSubSeq, Zenon
<1>4. l[1] \in S
  BY <1>1, <1>2, ElementOfSeq
<1>5. <<l[1]>> \in Seq(S) /\ Len(<<l[1]>>) = 1 /\ <<l[1]>>[1] = l[1]
  BY <1>4
<1>6. /\ SubSeq(l, 1, 1) \in Seq(S) /\ Len(SubSeq(l, 1, 1)) = 1
      /\ SubSeq(l, 1, 1)[1] = l[1]
  <2>1. \A i \in 1 .. 1 : l[i] \in S
    BY <1>4
  <2>2. QED
    BY <2>1, SubSeqProperties
<1>7. <<l[1]>> = SubSeq(l, 1, 1)
  BY <1>5, <1>6, SeqEqual
<1>8. Len(l) = 1 => <<l[1]>> = l
  BY <1>1, <1>5, SeqEqual
<1>9. QED
  BY <1>2, <1>3, <1>5, <1>7, <1>8

(* The next entry of a list.                                               *)
LEMMA ListNext ==
  ASSUME NEW l, IsSequence(l), NEW k \in 1 .. Len(l), SubSeq(l, k + 1, Len(l)) # <<>>
  PROVE  LET rest == SubSeq(l, k + 1, Len(l)) IN
         /\ k + 1 \in 1 .. Len(l)
         /\ Append(SubSeq(l, 1, k), Head(rest)) = SubSeq(l, 1, k + 1)
         /\ Tail(rest) = SubSeq(l, k + 2, Len(l))
         /\ Len(SubSeq(l, 1, k + 1)) = k + 1
<1> DEFINE S == {l[i] : i \in DOMAIN l}
           rest == SubSeq(l, k + 1, Len(l))
<1>1. l \in Seq(S) /\ Len(l) \in Nat /\ \A i \in 1 .. Len(l) : l[i] \in S
  BY LenProperties, Zenon DEF IsSequence
<1> HIDE DEF S
<1>2. k + 1 \in 1 .. Len(l)
  <2>1. k + 1 \in Int /\ Len(l) \in Int
    BY <1>1
  <2>2. ~(Len(l) < k + 1)
    BY <2>1, SubSeqEmpty
  <2>3. QED
    BY <1>1, <2>2
<1>3. Head(rest) = l[k + 1] /\ Tail(rest) = SubSeq(l, k + 2, Len(l))
  <2>1. Len(l) \in k + 1 .. Len(l) /\ k + 1 + 1 = k + 2
    BY <1>1, <1>2
  <2>2. QED
    BY <1>1, <1>2, <2>1, HeadTailOfSubSeq
<1>4. SubSeq(l, 1, k) \in Seq(S) /\ Len(SubSeq(l, 1, k)) = k
      /\ \A i \in 1 .. k : SubSeq(l, 1, k)[i] = l[i]
  <2>1. \A i \in 1 .. k : l[i] \in S
    BY <1>1
  <2>2. QED
    BY <1>1, <2>1, SubSeqProperties
<1>5. SubSeq(l, 1, k + 1) \in Seq(S) /\ Len(SubSeq(l, 1, k + 1)) = k + 1
      /\ \A i \in 1 .. k + 1 : SubSeq(l, 1, k + 1)[i] = l[i]
  <2>1. \A i \in 1 .. k + 1 : l[i] \in S
    BY <1>1, <1>2
  <2>2. QED
    BY <1>1, <2>1, SubSeqProperties
<1>6. l[k + 1] \in S
  BY <1>1, <1>2
<1> DEFINE longer == Append(SubSeq(l, 1, k), l[k + 1])
<1>7. longer \in Seq(S) /\ Len(longer) = k + 1
      /\ \A i \in 1 .. k + 1 : longer[i] = l[i]
  <2>1. /\ longer \in Seq(S) /\ Len(longer) = k + 1
        /\ \A i \in 1 .. k : longer[i] = SubSeq(l, 1, k)[i]
        /\ longer[k + 1] = l[k + 1]
    BY <1>4, <1>6, AppendProperties
  <2>2. QED
    BY <1>4, <2>1
<1>8. longer = SubSeq(l, 1, k + 1)
  <2> HIDE DEF longer
  <2> QED BY <1>5, <1>7, SeqEqual
<1>9. QED
  BY <1>2, <1>3, <1>5, <1>8

(* An operation that has ended.                                            *)
LEMMA EndedInv ==
  ASSUME IsSequence(creds'), credStage' = "Idle", credBudget' \in Nat, credUsed' \in Nat,
         credOutcome' = "Done" /\ call'.op \in Enumerations
           /\ (announced' # Absent => announced' = Len(Listing(call)'))
           => items' = Listing(call)'
  PROVE  CredInv'
<1>1. CredTypes'
  BY DEF CredTypes, IsSequence
<1>2. Chosen' /\ Untold' /\ Fetching'
  BY DEF Chosen, Untold, Fetching
<1>3. EnumerationTrue'
  BY DEF EnumerationTrue
<1>4. QED
  BY <1>1, <1>2, <1>3 DEF CredInv

LEMMA StartCred ==
  ASSUME CredInv, NEW c \in Calls, NEW x \in CredExchanges, Start(c, x)
  PROVE  CredInv'
<1>1. creds' = creds /\ credStage' = "Select" /\ call' = c /\ Accepted(c) /\ credUsed' = 1
      /\ credBudget' = x /\ items' = <<>> /\ announced' = Absent /\ credOutcome' = "none"
  BY DEF Start, stores
<1>2. CredTypes' /\ Chosen'
  BY <1>1, CredentialsAssumption DEF CredInv, CredTypes, Chosen, Accepted, IsSequence
<1>3. Untold' /\ Fetching' /\ EnumerationTrue'
  BY <1>1 DEF Untold, Fetching, EnumerationTrue
<1>4. QED
  BY <1>2, <1>3 DEF CredInv

LEMMA SelectedCred ==
  ASSUME CredInv, CredSelected
  PROVE  CredInv'
<1>1. /\ credStage = "Select" /\ creds' = creds /\ call' = call /\ items' = items
      /\ announced' = announced /\ credBudget' = credBudget /\ CredIssue("Message", 0, 0)
  BY DEF CredSelected, stores
<1>2. CASE credStage' = "Idle" /\ credOutcome' = "Budget" /\ credUsed' = credUsed
  BY <1>1, <1>2, EndedInv DEF CredInv, CredTypes
<1>3. CASE credStage' = "Message" /\ credUsed' = credUsed + 1
  <2>1. CredTypes' /\ Chosen'
    BY <1>1, <1>3 DEF CredInv, CredTypes, Chosen, Accepted, IsSequence
  <2>2. Untold' /\ Fetching' /\ EnumerationTrue'
    BY <1>1, <1>3 DEF CredInv, Untold, Fetching, EnumerationTrue
  <2>3. QED
    BY <2>1, <2>2 DEF CredInv
<1>4. QED
  BY <1>1, <1>2, <1>3 DEF CredIssue

LEMMA SelectRefusedCred ==
  ASSUME CredInv, CredSelectRefused
  PROVE  CredInv'
  BY EndedInv DEF CredInv, CredTypes, CredSelectRefused, CredFinish, stores, spent

LEMMA LostCred ==
  ASSUME CredInv, Lost
  PROVE  CredInv'
<1>1. /\ credStage' = "Idle" /\ credOutcome' = "Lost" /\ credUsed' = credUsed
      /\ credBudget' = credBudget
  BY DEF Lost, CredFinish, spent
<1>2. IsSequence(creds')
  <2>1. CASE creds' = creds
    BY <2>1 DEF CredInv, CredTypes
  <2>2. ASSUME credStage = "Message", NEW a \in Execute(message(call)), CredBecomes(a.card)
        PROVE  IsSequence(creds')
    <3>1. Faithful(a)
      BY <2>2, AnsweredFaithful DEF OrAltered
    <3>2. QED
      BY <2>2, <3>1 DEF Faithful, CredBecomes
  <2>3. CASE CredBecomes(ExecuteGetNext.card)
    BY <2>1, <2>3, NextAnswer DEF OrAltered, CredBecomes
  <2>4. QED
    BY <2>1, <2>2, <2>3 DEF Lost, stores
<1>3. QED
  BY <1>1, <1>2, EndedInv DEF CredInv, CredTypes

LEMMA PowerCycleCred ==
  ASSUME CredInv, PowerCycle
  PROVE  CredInv'
<1>1. /\ credStage = "Idle" /\ credStage' = "Idle" /\ creds' = creds /\ call' = call
      /\ items' = items /\ announced' = announced /\ credOutcome' = credOutcome
      /\ credBudget' = credBudget /\ credUsed' = credUsed
  BY DEF PowerCycle, credMachine, spent
<1>2. Listing(call)' = Listing(call)
  BY <1>1, ListingKept
<1>3. QED
  BY <1>1, <1>2, EndedInv DEF CredInv, CredTypes, EnumerationTrue

(* The answer to the first message of an enumeration.                      *)
LEMMA BegunCred ==
  ASSUME CredInv, credStage = "Message", call.op \in Enumerations,
         NEW a \in OrAltered(Execute(message(call))), NEW pages,
         CredBecomes(a.card), AnsweredBegin(a, pages),
         call' = call, credBudget' = credBudget
  PROVE  CredInv' /\ creds' = creds
<1> DEFINE list == Listing(call)
           total == a.value[1]
<1>1. Begins(a)
  BY AnsweredFaithful DEF Faithful
<1>2. creds' = creds
  BY <1>1 DEF Begins, CredBecomes
<1>3. list' = list
  BY <1>2, ListingKept
<1>4. IsSequence(list)
  BY ListingSequence DEF CredInv, CredTypes
<1>5. /\ IsSequence(creds') /\ credBudget' \in Nat
      /\ items = <<>> /\ announced = Absent /\ credUsed = 2
  BY <1>2 DEF CredInv, CredTypes, Untold
<1> HIDE DEF list
<1>6. CASE a.status # "00" \/ ~Parses(a.fields)
  <2>1. CASE a.status = "00" /\ Parses(a.fields)
    BY <1>6, <2>1
  <2>2. CASE /\ CredFinish(IF a.status = "2e" THEN "Done"
                           ELSE IF a.status # "00" THEN a.status ELSE "InvalidResponse")
             /\ UNCHANGED <<items, announced>>
    <3>1. credStage' = "Idle" /\ credUsed' = 2 /\ items' = <<>>
      BY <1>5, <2>2 DEF CredFinish, spent
    <3>2. a.status \notin Unsaid
      BY AnsweredFaithful DEF Faithful
    <3>3. credOutcome' = "Done" => a.status = "2e"
      BY <2>2, <3>2 DEF CredFinish, Unsaid
    <3>4. credOutcome' = "Done" => items' = list'
      BY <1>1, <1>3, <3>1, <3>3 DEF Begins, list
    <3>5. QED
      BY <1>2, <1>5, <3>1, <3>4, EndedInv DEF list
  <2>3. QED
    BY <2>1, <2>2 DEF AnsweredBegin
<1>7. CASE a.status = "00" /\ Parses(a.fields)
  <2>1. /\ list # <<>> /\ total \in Nat /\ a.value[2] = list[1] /\ cursor' = Tail(list)
    BY <1>1, <1>7 DEF Begins, CredBecomes, list
  <2>2. announced' = total /\ Begun(total, list[1], pages)
    BY <1>7, <2>1 DEF AnsweredBegin
  <2> HIDE DEF total
  <2>3. /\ Len(list) \in Nat /\ Len(list) >= 1 /\ Len(<<list[1]>>) = 1
        /\ <<list[1]>> = SubSeq(list, 1, 1) /\ Tail(list) = SubSeq(list, 2, Len(list))
        /\ Len(list) = 1 => <<list[1]>> = list
    BY <1>4, <2>1, ListBegin
  <2>4. total # Absent
    BY <2>1, CredentialsAssumption
  <2>5. CASE \E how \in {"InvalidResponse", "LimitExceeded"} : CredFinish(how)
    BY <1>2, <1>5, <2>5, EndedInv DEF CredFinish, spent
  <2>6. CASE items' = <<list[1]>> /\ total = 1 /\ CredFinish("Done")
    <3>1. credStage' = "Idle" /\ credUsed' = 2
      BY <1>5, <2>6 DEF CredFinish, spent
    <3>2. announced' = Len(list') => items' = list'
      BY <1>3, <2>2, <2>3, <2>6
    <3>3. QED
      BY <1>2, <1>5, <2>2, <2>4, <3>1, <3>2, EndedInv DEF list
  <2>7. CASE /\ items' = <<list[1]>> /\ 1 < total /\ total - 1 <= max_get_next
             /\ CredIssue("GetNext", total - 1, pages)
    <3>1. CASE credStage' = "Idle" /\ credOutcome' = "Budget" /\ credUsed' = credUsed
      BY <1>2, <1>5, <3>1, EndedInv
    <3>2. CASE credStage' = "GetNext" /\ credUsed' = credUsed + 1
      <4>1. credUsed' = 3 /\ remaining' = total - 1
        BY <1>5, <2>7, <3>2 DEF CredIssue
      <4>2. total + 1 <= credBudget
        BY <1>5, <2>1, <2>7 DEF max_get_next, CredInv, CredTypes
      <4>3. Len(items') = 1 /\ items' = SubSeq(list, 1, 1)
            /\ cursor' = SubSeq(list, 2, Len(list))
        BY <2>1, <2>3, <2>7
      <4>4. Len(items') \in 1 .. Len(list') /\ items' = SubSeq(list', 1, Len(items'))
            /\ cursor' = SubSeq(list', Len(items') + 1, Len(list'))
        BY <1>3, <2>3, <4>3
      <4>5. /\ announced' \in Nat /\ remaining' \in Nat \ {0}
            /\ announced' = Len(items') + remaining'
            /\ credUsed' = Len(items') + 2 /\ announced' + 1 <= credBudget'
        BY <2>1, <2>2, <2>7, <4>1, <4>2, <4>3
      <4>6. Fetching'
        BY <4>4, <4>5 DEF Fetching, list
      <4>7. EnumerationTrue'
        <5>1. credUsed' + remaining' - 1 <= credBudget'
          BY <1>5, <2>1, <4>1, <4>2
        <5>2. QED
          BY <3>2, <5>1 DEF EnumerationTrue
      <4>8. CredTypes' /\ Chosen' /\ Untold'
        BY <1>2, <1>5, <3>2, <4>1 DEF CredInv, CredTypes, Chosen, Accepted, Untold, IsSequence
      <4>9. QED
        BY <1>2, <4>6, <4>7, <4>8 DEF CredInv
    <3>3. QED
      BY <2>7, <3>1, <3>2 DEF CredIssue
  <2>8. QED
    BY <2>2, <2>5, <2>6, <2>7 DEF Begun
<1>8. QED
  BY <1>6, <1>7

LEMMA AnsweredCred ==
  ASSUME CredInv, Answered
  PROVE  CredInv'
<1>1. PICK a \in OrAltered(Execute(message(call))), pages \in 0 .. 1 :
        /\ CredBecomes(a.card)
        /\ \/ call.op \in Enumerations /\ AnsweredBegin(a, pages)
           \/ call.op \notin Enumerations /\ CredFinish(Parsed(a))
  BY DEF Answered
<1>2. credStage = "Message" /\ call' = call /\ credBudget' = credBudget
  BY DEF Answered
<1>3. CASE call.op \in Enumerations
  BY <1>1, <1>2, <1>3, BegunCred
<1>4. CASE call.op \notin Enumerations
  <2>1. credStage' = "Idle" /\ credUsed' = credUsed
    BY <1>1, <1>4 DEF CredFinish, spent
  <2>2. IsSequence(creds')
    BY <1>1, <1>2, AnsweredFaithful DEF Faithful, CredBecomes
  <2>3. QED
    BY <1>2, <1>4, <2>1, <2>2, EndedInv DEF CredInv, CredTypes
<1>5. QED
  BY <1>3, <1>4

LEMMA AnsweredNextCred ==
  ASSUME CredInv, AnsweredNext
  PROVE  CredInv'
<1> DEFINE list == Listing(call)
           k == Len(items)
<1>1. PICK a \in OrAltered({ExecuteGetNext}) :
        /\ CredBecomes(a.card)
        /\ \/ /\ a.status # "00" \/ ~Entry(a.fields)
              /\ CredFinish(IF a.status # "00" THEN a.status ELSE "InvalidResponse")
           \/ /\ a.status = "00"
              /\ items' = Append(items, a.value[1])
              /\ \/ NoMore /\ CredFinish("Done")
                 \/ ~NoMore /\ \E pages \in 0 .. 1 : CredIssue("GetNext", remaining - 1, pages)
  BY DEF AnsweredNext
<1>2. /\ credStage = "GetNext" /\ call' = call /\ credBudget' = credBudget
      /\ announced' = announced
  BY DEF AnsweredNext
<1>3. /\ a.card.creds = creds /\ a.status \notin Unsaid
      /\ a.status = "00" => cursor # <<>> /\ a.value[1] = Head(cursor)
                            /\ a.card.cursor = Tail(cursor)
  BY NextAnswer
<1>4. creds' = creds /\ list' = list
  BY <1>1, <1>2, <1>3, ListingKept DEF CredBecomes
<1>5. IsSequence(list) /\ Len(list) \in Nat
  BY ListingSequence, LenProperties, Zenon DEF CredInv, CredTypes, IsSequence
<1>6. IsSequence(creds') /\ credBudget' \in Nat /\ credUsed \in Nat
  BY <1>2, <1>4 DEF CredInv, CredTypes
<1>7. /\ announced \in Nat /\ remaining \in Nat \ {0} /\ announced = k + remaining
      /\ k \in 1 .. Len(list) /\ items = SubSeq(list, 1, k)
      /\ cursor = SubSeq(list, k + 1, Len(list))
      /\ credUsed = k + 2 /\ announced + 1 <= credBudget /\ call.op \in Enumerations
  BY <1>2 DEF CredInv, Fetching
<1> HIDE DEF list, k
<1>8. CASE CredFinish(IF a.status # "00" THEN a.status ELSE "InvalidResponse")
  <2>1. credStage' = "Idle" /\ credUsed' = credUsed /\ credOutcome' # "Done"
    BY <1>3, <1>8 DEF CredFinish, spent, Unsaid
  <2>2. QED
    BY <1>4, <1>6, <2>1, EndedInv
<1>9. CASE /\ a.status = "00"
           /\ items' = Append(items, a.value[1])
           /\ \/ NoMore /\ CredFinish("Done")
              \/ ~NoMore /\ \E pages \in 0 .. 1 : CredIssue("GetNext", remaining - 1, pages)
  <2>1. LET rest == SubSeq(list, k + 1, Len(list)) IN
        /\ k + 1 \in 1 .. Len(list)
        /\ Append(SubSeq(list, 1, k), Head(rest)) = SubSeq(list, 1, k + 1)
        /\ Tail(rest) = SubSeq(list, k + 2, Len(list))
        /\ Len(SubSeq(list, 1, k + 1)) = k + 1
    BY <1>3, <1>5, <1>7, <1>9, ListNext
  <2>2. items' = SubSeq(list, 1, k + 1) /\ Len(items') = k + 1
    BY <1>3, <1>7, <1>9, <2>1
  <2>3. cursor' = SubSeq(list, k + 2, Len(list))
    BY <1>1, <1>3, <1>7, <1>9, <2>1 DEF CredBecomes
  <2>4. CASE NoMore /\ CredFinish("Done")
    <3>1. credStage' = "Idle" /\ credUsed' = credUsed /\ announced = k + 1
      BY <1>7, <2>4 DEF CredFinish, spent, NoMore
    <3>2. announced' # Absent
      BY <1>2, <1>7, CredentialsAssumption
    <3>3. announced' = Len(list') => items' = list'
      <4>1. SubSeq(list, 1, Len(list)) = list
        BY <1>5, SubSeqFull, Zenon DEF IsSequence
      <4>2. QED
        BY <1>2, <1>4, <2>2, <3>1, <4>1
    <3>4. QED
      BY <1>4, <1>6, <3>1, <3>2, <3>3, EndedInv DEF list
  <2>5. CASE ~NoMore /\ \E pages \in 0 .. 1 : CredIssue("GetNext", remaining - 1, pages)
    <3>1. remaining' = remaining - 1 /\ remaining # 1
      BY <2>5 DEF CredIssue, NoMore
    <3>2. CASE credStage' = "Idle" /\ credOutcome' = "Budget" /\ credUsed' = credUsed
      BY <1>4, <1>6, <3>2, EndedInv
    <3>3. CASE credStage' = "GetNext" /\ credUsed' = credUsed + 1
      <4>1. Len(items') \in 1 .. Len(list') /\ items' = SubSeq(list', 1, Len(items'))
            /\ cursor' = SubSeq(list', Len(items') + 1, Len(list'))
        <5>1. Len(items') + 1 = k + 2
          BY <1>5, <1>7, <2>2
        <5>2. QED
          BY <1>4, <2>1, <2>2, <2>3, <5>1
      <4>2. /\ announced' \in Nat /\ remaining' \in Nat \ {0}
            /\ announced' = Len(items') + remaining'
            /\ credUsed' = Len(items') + 2 /\ announced' + 1 <= credBudget'
        BY <1>2, <1>5, <1>7, <2>2, <3>1, <3>3
      <4>3. Fetching'
        BY <1>2, <1>7, <4>1, <4>2 DEF Fetching, list
      <4>4. EnumerationTrue'
        <5>1. credUsed' + remaining' - 1 <= credBudget'
          BY <1>2, <1>5, <1>7, <2>2, <3>1, <3>3
        <5>2. QED
          BY <3>3, <5>1 DEF EnumerationTrue
      <4>5. CredTypes' /\ Chosen' /\ Untold'
        BY <1>2, <1>4, <1>6, <3>3 DEF CredInv, CredTypes, Chosen, Accepted, Untold, IsSequence
      <4>6. QED
        BY <4>3, <4>4, <4>5 DEF CredInv
    <3>4. QED
      BY <2>5, <3>2, <3>3 DEF CredIssue
  <2>6. QED
    BY <1>9, <2>4, <2>5
<1>10. QED
  BY <1>1, <1>8, <1>9

LEMMA CredStep == CredInv /\ [CredNext]_credVars => CredInv'
<1> SUFFICES ASSUME CredInv, [CredNext]_credVars PROVE CredInv'
  OBVIOUS
<1>1. CASE \E c \in Calls, x \in CredExchanges : Start(c, x)
  BY <1>1, StartCred
<1>2. CASE CredSelected
  BY <1>2, SelectedCred
<1>3. CASE CredSelectRefused
  BY <1>3, SelectRefusedCred
<1>4. CASE Answered
  BY <1>4, AnsweredCred
<1>5. CASE AnsweredNext
  BY <1>5, AnsweredNextCred
<1>6. CASE Lost
  BY <1>6, LostCred
<1>7. CASE PowerCycle
  BY <1>7, PowerCycleCred
<1>8. CASE UNCHANGED credVars
  <2>1. /\ call' = call /\ creds' = creds /\ credStage' = credStage /\ items' = items
        /\ remaining' = remaining /\ cursor' = cursor /\ announced' = announced
        /\ credBudget' = credBudget /\ credUsed' = credUsed /\ credOutcome' = credOutcome
    BY <1>8 DEF credVars, credMachine, spent, stores
  <2>2. Listing(call)' = Listing(call)
    BY <2>1, ListingKept
  <2>3. CredTypes' /\ Chosen' /\ Untold'
    BY <2>1 DEF CredInv, CredTypes, Chosen, Accepted, Untold, IsSequence
  <2>4. Fetching' /\ EnumerationTrue'
    BY <2>1, <2>2 DEF CredInv, Fetching, EnumerationTrue
  <2>5. QED
    BY <2>3, <2>4 DEF CredInv
<1>9. QED
  BY <1>1, <1>2, <1>3, <1>4, <1>5, <1>6, <1>7, <1>8 DEF CredNext

(* For any credentials, totals and budgets: an enumeration that succeeds   *)
(* returns the listing of the authenticator, if the total announced is     *)
(* right, and a loop of GetNext commands that is entered fits the budget.  *)
THEOREM EnumerationsTrue == CredSpec => []EnumerationTrue
<1>1. CredInv => EnumerationTrue
  BY DEF CredInv
<1>2. QED
  BY <1>1, CredInitInv, CredStep, PTL DEF CredSpec

-----------------------------------------------------------------------------
(* Outcomes                                                                *)

(* An operation that ends without its answer has changed nothing.          *)
LEMMA UnansweredEnd ==
  ASSUME creds' = creds, credOutcome' \in {"Budget", "UnsupportedDevice"}
  PROVE  TruthfulEnd
  BY DEF TruthfulEnd

LEMMA LastOfAppend ==
  ASSUME NEW s, IsSequence(s), NEW x
  PROVE  Last(Append(s, x)) = x
<1> DEFINE S == {s[i] : i \in DOMAIN s} \cup {x}
<1>1. s \in Seq(S)
  BY SMT DEF IsSequence
<1> HIDE DEF S
<1>2. x \in S
  BY DEF S
<1>3. Len(Append(s, x)) = Len(s) + 1 /\ Append(s, x)[Len(s) + 1] = x
  BY <1>1, <1>2, AppendProperties
<1>4. QED
  BY <1>3 DEF Last

(* The answer to an operation other than an enumeration.                   *)
LEMMA SingleEnd ==
  ASSUME CredInv, credStage = "Message", call.op \notin Enumerations,
         NEW a \in OrAltered(Execute(message(call))), CredBecomes(a.card),
         credOutcome' = Parsed(a),
         result' = (IF Parsed(a) = "Done" THEN a.value ELSE <<>>)
  PROVE  TruthfulEnd
<1>1. Faithful(a)
  BY AnsweredFaithful
<1>2. creds' = a.card.creds
  BY DEF CredBecomes
<1>3. CASE call.op = "check_only" /\ a.status = "6985"
  <2>1. credOutcome' = "Done" /\ Promised = creds /\ Valid
    BY <1>1, <1>3 DEF Parsed, check_only, Promised, Faithful
  <2>2. creds' = Promised
    BY <1>1, <1>2, <2>1 DEF Faithful
  <2>3. QED
    BY <1>3, <2>1, <2>2 DEF TruthfulEnd, Valid
<1>4. CASE ~(call.op = "check_only" /\ a.status = "6985")
  <2>1. CASE a.status \notin SuccessStatus
    <3>1. credOutcome' = a.status
      BY <1>4, <2>1 DEF Parsed, check_only
    <3>2. creds' = creds /\ credOutcome' \notin Unsaid
      BY <1>1, <1>2, <2>1, <3>1 DEF Faithful
    <3>3. /\ credOutcome' = "33" => inForce = Absent \/ call.token # inForce
          /\ call.mc => credOutcome' # "14"
      BY <1>1, <3>1 DEF Faithful
    <3>4. QED
      BY <3>2, <3>3 DEF TruthfulEnd, Unsaid
  <2>2. CASE a.status \in SuccessStatus
    <3>1. creds' = Promised
      BY <1>1, <1>2, <2>2 DEF Faithful
    <3>2. CASE Parses(a.fields)
      <4>1. credOutcome' = "Done" /\ result' = a.value /\ call.op # "check_only"
        BY <1>4, <2>2, <3>2 DEF Parsed, check_only, Parses, Silent, Enumerations
      <4>2. call.op \in {"get_assertion", "authenticate"} =>
              \E y \in Find(result'[1]) : y.rp = call.rp
        BY <1>1, <2>2, <4>1 DEF Faithful
      <4>3. ASSUME call.op \in {"make_credential", "register"}
            PROVE  result' = <<Last(creds').id>>
        <5>1. result' = <<made + 1>>
          BY <1>1, <2>2, <4>1, <4>3 DEF Faithful
        <5>2. PICK new : creds' = Append(creds, new) /\ new.id = made + 1
          BY <3>1, <4>3 DEF Promised, New
        <5>3. Last(creds') = new
          BY <5>2, LastOfAppend DEF CredInv, CredTypes
        <5>4. QED
          BY <5>1, <5>2, <5>3
      <4>4. QED
        BY <3>1, <4>1, <4>2, <4>3 DEF TruthfulEnd
    <3>3. CASE ~Parses(a.fields)
      <4>1. credOutcome' = "InvalidResponse"
        BY <1>4, <2>2, <3>3 DEF Parsed, check_only
      <4>2. QED
        BY <3>1, <4>1 DEF TruthfulEnd
    <3>4. QED
      BY <3>2, <3>3
  <2>3. QED
    BY <2>1, <2>2
<1>5. QED
  BY <1>3, <1>4

(* The answers to an enumeration.                                          *)
LEMMA EnumerationEnd ==
  ASSUME call.op \in Enumerations, creds' = creds, credOutcome' \notin {"33", "14"}
  PROVE  TruthfulEnd
<1>1. /\ Promised = creds
      /\ call.op \notin {"check_only", "get_assertion", "authenticate",
                         "make_credential", "register"}
  BY DEF Promised, Enumerations
<1>2. QED
  BY <1>1 DEF TruthfulEnd

LEMMA BegunEnd ==
  ASSUME CredInv, credStage = "Message", call.op \in Enumerations, credStage' = "Idle",
         NEW a \in OrAltered(Execute(message(call))), NEW pages,
         CredBecomes(a.card), AnsweredBegin(a, pages)
  PROVE  TruthfulEnd
<1>1. Faithful(a) /\ Begins(a)
  BY AnsweredFaithful DEF Faithful
<1>2. creds' = creds
  BY <1>1 DEF Begins, CredBecomes
<1>3. CASE credOutcome' \in {"Done", "InvalidResponse", "LimitExceeded", "Budget"}
  BY <1>2, <1>3, EnumerationEnd
<1>4. CASE credOutcome' = a.status
  <2>1. /\ credOutcome' = "33" => inForce = Absent \/ call.token # inForce
        /\ call.mc => credOutcome' # "14"
        /\ credOutcome' \notin Unsaid
    BY <1>1, <1>4 DEF Faithful
  <2>2. QED
    BY <1>2, <2>1 DEF TruthfulEnd, Unsaid
<1>5. \/ credOutcome' \in {"Done", "InvalidResponse", "LimitExceeded", "Budget"}
      \/ credOutcome' = a.status
  <2>1. CASE a.status = "00" /\ Begun(a.value[1], a.value[2], pages)
    BY <2>1 DEF Begun, CredFinish, CredIssue
  <2>2. CASE CredFinish(IF a.status = "2e" THEN "Done"
                        ELSE IF a.status # "00" THEN a.status ELSE "InvalidResponse")
    BY <2>2 DEF CredFinish
  <2>3. QED
    BY <2>1, <2>2 DEF AnsweredBegin
<1>6. QED
  BY <1>3, <1>4, <1>5

(* What a lost answer leaves.                                              *)
LEMMA LostEnd ==
  ASSUME CredInv, Lost
  PROVE  TruthfulEnd
<1>1. credOutcome' = "Lost"
  BY DEF Lost, CredFinish
<1>2. creds' \in {creds, Promised}
  <2>1. CASE creds' = creds
    BY <2>1
  <2>2. ASSUME credStage = "Message", NEW a \in Execute(message(call)), CredBecomes(a.card)
        PROVE  creds' \in {creds, Promised}
    <3>1. Faithful(a)
      BY <2>2, AnsweredFaithful DEF OrAltered
    <3>2. QED
      BY <2>2, <3>1 DEF Faithful, CredBecomes
  <2>3. CASE CredBecomes(ExecuteGetNext.card)
    BY <2>1, <2>3, NextAnswer DEF OrAltered, CredBecomes
  <2>4. QED
    BY <2>1, <2>2, <2>3 DEF Lost, stores
<1>3. QED
  BY <1>1, <1>2 DEF TruthfulEnd

LEMMA OutcomeStep ==
  CredInv /\ [CredNext]_credVars =>
    [credStage # "Idle" /\ credStage' = "Idle" => TruthfulEnd]_credVars
<1> SUFFICES ASSUME CredInv, CredNext, credStage # "Idle", credStage' = "Idle"
             PROVE  TruthfulEnd
  OBVIOUS
<1>1. CASE \E c \in Calls, x \in CredExchanges : Start(c, x)
  BY <1>1 DEF Start
<1>2. CASE CredSelected
  <2>1. creds' = creds /\ credOutcome' = "Budget"
    BY <1>2 DEF CredSelected, CredIssue, stores
  <2>2. QED
    BY <2>1, UnansweredEnd
<1>3. CASE CredSelectRefused
  <2>1. creds' = creds /\ credOutcome' = "UnsupportedDevice"
    BY <1>3 DEF CredSelectRefused, CredFinish, stores
  <2>2. QED
    BY <2>1, UnansweredEnd
<1>4. CASE Answered
  <2>1. credStage = "Message"
    BY <1>4 DEF Answered
  <2>2. PICK a \in OrAltered(Execute(message(call))), pages \in 0 .. 1 :
          /\ CredBecomes(a.card)
          /\ \/ call.op \in Enumerations /\ AnsweredBegin(a, pages)
             \/ /\ call.op \notin Enumerations /\ CredFinish(Parsed(a))
                /\ result' = (IF Parsed(a) = "Done" THEN a.value ELSE <<>>)
    BY <1>4 DEF Answered
  <2>3. CASE call.op \in Enumerations
    BY <2>1, <2>2, <2>3, BegunEnd
  <2>4. CASE call.op \notin Enumerations
    <3>1. credOutcome' = Parsed(a)
      BY <2>2, <2>4 DEF CredFinish
    <3>2. QED
      BY <2>1, <2>2, <2>4, <3>1, SingleEnd
  <2>5. QED
    BY <2>3, <2>4
<1>5. CASE AnsweredNext
  <2>1. PICK a \in OrAltered({ExecuteGetNext}) :
          /\ CredBecomes(a.card)
          /\ \/ CredFinish(IF a.status # "00" THEN a.status ELSE "InvalidResponse")
             \/ CredFinish("Done")
             \/ \E pages \in 0 .. 1 : CredIssue("GetNext", remaining - 1, pages)
    BY <1>5 DEF AnsweredNext
  <2>2. a.card.creds = creds /\ a.status \notin {"33", "14"}
    BY NextAnswer
  <2>3. creds' = creds /\ credOutcome' \notin {"33", "14"}
    BY <2>1, <2>2 DEF CredBecomes, CredFinish, CredIssue
  <2>4. call.op \in Enumerations
    BY <1>5 DEF AnsweredNext, CredInv, Fetching
  <2>5. QED
    BY <2>3, <2>4, EnumerationEnd
<1>6. CASE Lost
  BY <1>6, LostEnd
<1>7. CASE PowerCycle
  BY <1>7 DEF PowerCycle
<1>8. QED
  BY <1>1, <1>2, <1>3, <1>4, <1>5, <1>6, <1>7 DEF CredNext

(* For any credentials and calls: an operation that succeeds has left the  *)
(* credentials as it promises and returned what is true of them; one that  *)
(* is refused has changed nothing, and never for a MAC under the token in  *)
(* force; only a lost or unreadable answer leaves a doubt.                 *)
THEOREM CredentialOutcomes == CredSpec => CredentialOutcomeTrue
<1>1. QED
  BY CredInitInv, CredStep, OutcomeStep, PTL DEF CredSpec, CredentialOutcomeTrue

-----------------------------------------------------------------------------
(* The PIN: keys and messages                                              *)

(* Settings are a record whose PIN, if one is set, is one of the PINs.     *)
SettingsTyped(s) ==
  /\ s = [pin |-> s.pin, min |-> s.min, alwaysUv |-> s.alwaysUv, longTouch |-> s.longTouch,
          force |-> s.force]
  /\ s.pin \in Pins \cup {Unset}

PinTypes ==
  /\ SettingsTyped(settings) /\ serial \in Nat /\ retries \in 0 .. MaxRetries
  /\ pinStage # "Idle" => pinCall \in PinCalls

PinInv == PinTypes /\ TokenIssued

(* A key that verifies MACs is the one that decrypts.                      *)
LEMMA SameKey ==
  ASSUME NEW p, NEW k, NEW e,
         derive_shared_secret(p, k).hmac = derive_shared_secret(p, e).hmac
  PROVE  k = e
  BY DEF derive_shared_secret

LEMMA Decrypts ==
  ASSUME NEW secret, NEW x
  PROVE  decrypt(secret, encrypt(secret, x)) = x
  BY DEF decrypt, encrypt

(* The card verifies the MAC of a message under a session if and only if   *)
(* the session is current; then it decrypts what the session encrypted.    *)
LEMMA SessionMac ==
  ASSUME NEW m, NEW of, m.protocol = session.protocol,
         m.auth = authenticate(session.protocol, Secret.hmac, of)
  PROVE  /\ Authentic(m, of) <=> session.key = epoch
         /\ session.key = epoch => CardSecret(m) = Secret
<1>1. Authentic(m, of) <=> Secret.hmac = CardSecret(m).hmac
  BY DEF Authentic, authenticate
<1>2. Secret.hmac = CardSecret(m).hmac => session.key = epoch
  BY SameKey DEF Secret, CardSecret
<1>3. session.key = epoch => CardSecret(m) = Secret
  BY DEF Secret, CardSecret
<1>4. QED
  BY <1>1, <1>2, <1>3

(* The messages of the operations with a session.                          *)
LEMMA SessionMessage ==
  ASSUME pinCall.op \in SessionOps
  PROVE  LET m == pinMessage(pinCall)
             new == encrypt(Secret, pad_pin(pinCall.new))
             hash == encrypt(Secret, pin_hash(pinCall.pin))
             salts == encrypt(Secret, <<"salts", pinCall.salts>>) IN
         /\ m.protocol = session.protocol
         /\ pinCall.op # "hmac_secret" => m.command = "clientPin"
         /\ pinCall.op = "set_pin" =>
              /\ m.sub = 3 /\ m.pinEnc = new
              /\ m.auth = authenticate(session.protocol, Secret.hmac, <<new>>)
         /\ pinCall.op = "change_pin" =>
              /\ m.sub = 4 /\ m.pinEnc = new /\ m.hashEnc = hash
              /\ m.auth = authenticate(session.protocol, Secret.hmac, <<new, hash>>)
         /\ pinCall.op = "get_pin_token" => m.sub = 5 /\ m.hashEnc = hash
         /\ pinCall.op = "get_pin_token_with_permissions" => m.sub = 9 /\ m.hashEnc = hash
         /\ pinCall.op = "hmac_secret" =>
              /\ m.command = "getAssertion" /\ m.pinEnc = salts
              /\ m.auth = authenticate(session.protocol, Secret.hmac, <<salts>>)
<1>1. CASE pinCall.op = "set_pin"
  BY <1>1 DEF pinMessage, set_pin, PinMessage
<1>2. CASE pinCall.op = "change_pin"
  BY <1>2 DEF pinMessage, change_pin, PinMessage
<1>3. CASE pinCall.op = "get_pin_token"
  BY <1>3 DEF pinMessage, get_pin_token, PinMessage
<1>4. CASE pinCall.op = "get_pin_token_with_permissions"
  BY <1>4 DEF pinMessage, get_pin_token_with_permissions, PinMessage
<1>5. CASE pinCall.op = "hmac_secret"
  BY <1>5 DEF pinMessage, HmacSecretInput, PinMessage
<1>6. QED
  BY <1>1, <1>2, <1>3, <1>4, <1>5 DEF SessionOps

(* The messages under a token.                                             *)
LEMMA TokenMessage ==
  ASSUME pinCall.op \in ConfigOps
  PROVE  LET m == pinMessage(pinCall) IN
         /\ m.command = "config" /\ m.protocol = pinToken.protocol
         /\ m.auth = authenticate(m.protocol, pinToken.value, <<"config", m.sub>> \o m.params)
         /\ pinCall.op = "toggle_always_uv" => m.sub = 2
         /\ pinCall.op = "set_min_pin_length" => m.sub = 3 /\ m.params[1] = pinCall.min
         /\ pinCall.op = "enable_long_touch_for_reset" => m.sub = 4
<1>1. ASSUME NEW s, NEW params, pinMessage(pinCall) = ConfigMessage(s, params)
      PROVE  LET m == pinMessage(pinCall) IN
             /\ m.command = "config" /\ m.protocol = pinToken.protocol
             /\ m.auth = authenticate(m.protocol, pinToken.value, <<"config", m.sub>> \o m.params)
             /\ m.sub = s /\ m.params = params
  <2> DEFINE auth == authenticate(pinToken.protocol, pinToken.value, <<"config", s>> \o params)
  <2>1. pinMessage(pinCall) = [PinMessage("config", s, pinToken.protocol) EXCEPT
                                 !.params = params, !.auth = auth]
    BY <1>1 DEF ConfigMessage
  <2> HIDE DEF auth
  <2>2. LET m == pinMessage(pinCall) IN
        /\ m.command = "config" /\ m.protocol = pinToken.protocol /\ m.auth = auth
        /\ m.sub = s /\ m.params = params
    BY <2>1 DEF PinMessage
  <2>3. QED
    BY <2>2 DEF auth
<1>2. CASE pinCall.op = "toggle_always_uv"
  <2>1. pinMessage(pinCall) = ConfigMessage(2, <<>>)
    BY <1>2 DEF pinMessage
  <2>2. QED
    BY <1>1, <1>2, <2>1
<1>3. CASE pinCall.op = "set_min_pin_length"
  <2>1. pinMessage(pinCall) = ConfigMessage(3, <<pinCall.min, pinCall.force>>)
    BY <1>3 DEF pinMessage
  <2>2. QED
    BY <1>1, <1>3, <2>1
<1>4. CASE pinCall.op = "enable_long_touch_for_reset"
  <2>1. pinMessage(pinCall) = ConfigMessage(4, <<>>)
    BY <1>4 DEF pinMessage
  <2>2. QED
    BY <1>1, <1>4, <2>1
<1>5. QED
  BY <1>2, <1>3, <1>4 DEF ConfigOps

-----------------------------------------------------------------------------
(* What the card may answer                                                *)

(* The card after an answer: its settings are unchanged or as promised,    *)
(* its status has a cause, and its payload is what the application is to   *)
(* return.                                                                 *)
PinFaithful(x) ==
  /\ x.status \notin {"Done", "Lost"}
  /\ SettingsTyped(settings') /\ serial' \in Nat /\ serial' >= serial
  /\ retries' \in 0 .. MaxRetries
  /\ IF x.status = "00" THEN settings' = PinPromised ELSE settings' = settings
  /\ x.status = "33" => IF pinCall.op \in ConfigOps THEN ~TokenCurrent ELSE ~SessionCurrent
  /\ AttemptSpent
  /\ x.status = "00" =>
       /\ ~NeedsField(pinCall.op) => x.payload = <<>>
       /\ pinCall.op = "get_pin_retries" => x.payload = <<retries>>
       /\ x.payload # <<>> =>
            /\ pinCall.op \in TokenOps =>
                 /\ serial' = serial + 1
                 /\ decrypt(Secret, x.payload[1]) = <<"token", serial + 1>>
            /\ pinCall.op = "hmac_secret" =>
                 decrypt(Secret, x.payload[1]) =
                   [i \in 1 .. Len(pinCall.salts) |-> <<"hmac", pinCall.salts[i]>>]

(* An answer that leaves the card as it is.                                *)
LEMMA KeepFaithful ==
  ASSUME PinInv, NEW s, s \notin {"Done", "Lost"}, NEW p, NEW x, x = PinSays(s, p, PinKeep),
         PinBecomes(x.card),
         s = "33" => IF pinCall.op \in ConfigOps THEN ~TokenCurrent ELSE ~SessionCurrent,
         s = "00" =>
           /\ PinPromised = settings
           /\ ~NeedsField(pinCall.op) => p = <<>>
           /\ pinCall.op = "get_pin_retries" => p = <<retries>>
           /\ p # <<>> =>
                /\ pinCall.op \notin TokenOps
                /\ pinCall.op = "hmac_secret" =>
                     decrypt(Secret, p[1]) =
                       [i \in 1 .. Len(pinCall.salts) |-> <<"hmac", pinCall.salts[i]>>]
  PROVE  PinFaithful(x)
<1>1. x.status = s /\ x.payload = p /\ x.card = PinKeep
  BY DEF PinSays
<1>2. settings' = settings /\ serial' = serial /\ retries' = retries
  BY <1>1 DEF PinBecomes, PinKeep
<1>3. AttemptSpent
  BY <1>2 DEF AttemptSpent, PinInv, PinTypes
<1>4. QED
  BY <1>1, <1>2, <1>3 DEF PinFaithful, PinInv, PinTypes, SettingsTyped

(* The card after a right PIN.                                             *)
LEMMA KnownCard ==
  ASSUME NEW pin
  PROVE  /\ Known(pin).settings = [settings EXCEPT !.pin = pin]
         /\ Known(pin).serial = serial /\ Known(pin).retries = MaxRetries
         /\ Known(pin) = [epoch |-> epoch, serial |-> serial, issued |-> issued, misses |-> 0,
                          retries |-> MaxRetries, settings |-> [settings EXCEPT !.pin = pin]]
<1>1. Known(pin) = [PinKeep EXCEPT !.retries = MaxRetries, !.misses = 0,
                                   !.settings = [settings EXCEPT !.pin = pin]]
  BY DEF Known, PinKeep
<1> DEFINE after == [settings EXCEPT !.pin = pin]
<1> HIDE DEF after
<1>2. Known(pin) = [epoch |-> epoch, serial |-> serial, issued |-> issued, misses |-> 0,
                    retries |-> MaxRetries, settings |-> after]
  BY <1>1 DEF PinKeep, after
<1>3. QED
  BY <1>2 DEF after

(* The settings with the PIN they have are the settings.                   *)
LEMMA SamePin == SettingsTyped(settings) => [settings EXCEPT !.pin = settings.pin] = settings
<1> SUFFICES ASSUME SettingsTyped(settings)
             PROVE  [settings EXCEPT !.pin = settings.pin] = settings
  OBVIOUS
<1> DEFINE r == [pin |-> settings.pin, min |-> settings.min, alwaysUv |-> settings.alwaysUv,
                 longTouch |-> settings.longTouch, force |-> settings.force]
<1>1. settings = r
  BY DEF SettingsTyped
<1>2. [r EXCEPT !.pin = settings.pin] = r
  OBVIOUS
<1>3. QED
  BY <1>1, <1>2

(* A new PIN that the card has decrypted.                                  *)
LEMMA StoreFaithful ==
  ASSUME PinInv, pinCall \in PinCalls, pinCall.op \in {"set_pin", "change_pin"},
         NEW m, decrypt(CardSecret(m), m.pinEnc) = pad_pin(pinCall.new),
         NEW x, x = StoreNew(m), PinBecomes(x.card)
  PROVE  PinFaithful(x)
<1> DEFINE new == pinCall.new
           renewed == [settings EXCEPT !.pin = new, !.force = FALSE]
<1>1. /\ SettingsTyped(settings) /\ serial \in Nat /\ retries \in 0 .. MaxRetries
      /\ new \in Pins /\ MaxRetries \in Nat
  BY ClientPinAssumption DEF PinInv, PinTypes
<1>2. pad_pin(new)[2] = new
  BY DEF pad_pin
<1>3. CASE x = PinSays("37", <<>>, Known(settings.pin))
  <2>1. x.status = "37" /\ x.payload = <<>> /\ x.card = Known(settings.pin)
    BY <1>3 DEF PinSays
  <2>2. settings' = settings /\ serial' = serial /\ retries' = MaxRetries
    BY <1>1, <2>1, KnownCard, SamePin DEF PinBecomes
  <2>3. QED
    BY <1>1, <2>1, <2>2 DEF PinFaithful, AttemptSpent, SettingsTyped
<1>4. CASE x = PinSays("00", <<>>, [Known(new) EXCEPT !.settings.force = FALSE, !.issued = Unset])
  <2>1. /\ x.status = "00" /\ x.payload = <<>>
        /\ x.card = [Known(new) EXCEPT !.settings.force = FALSE, !.issued = Unset]
    BY <1>4 DEF PinSays
  <2>2. settings' = renewed /\ serial' = serial /\ retries' = MaxRetries
    <3> DEFINE after == [settings EXCEPT !.pin = new]
               known == [epoch |-> epoch, serial |-> serial, issued |-> issued, misses |-> 0,
                         retries |-> MaxRetries, settings |-> after]
    <3>1. Known(new) = known
      BY KnownCard
    <3>2. [after EXCEPT !.force = FALSE] = renewed
      OBVIOUS
    <3> HIDE DEF after
    <3>3. /\ x.card.settings = [after EXCEPT !.force = FALSE]
          /\ x.card.serial = serial /\ x.card.retries = MaxRetries
      BY <2>1, <3>1
    <3>4. QED
      BY <3>2, <3>3 DEF PinBecomes
  <2>3. settings' = PinPromised
    BY <2>2 DEF PinPromised
  <2>4. SettingsTyped(settings')
    <3>1. settings = [pin |-> settings.pin, min |-> settings.min, alwaysUv |-> settings.alwaysUv,
                      longTouch |-> settings.longTouch, force |-> settings.force]
      BY <1>1 DEF SettingsTyped
    <3>2. settings' = [pin |-> new, min |-> settings.min, alwaysUv |-> settings.alwaysUv,
                       longTouch |-> settings.longTouch, force |-> FALSE]
      BY <2>2, <3>1
    <3>3. QED
      BY <1>1, <3>2 DEF SettingsTyped
  <2>5. pinCall.op # "get_pin_retries" /\ pinCall.op \notin TokenOps
    BY DEF TokenOps
  <2>6. AttemptSpent
    BY <1>1, <2>2 DEF AttemptSpent
  <2>7. QED
    BY <1>1, <2>1, <2>2, <2>3, <2>4, <2>5, <2>6 DEF PinFaithful
<1>5. QED
  BY <1>2, <1>3, <1>4 DEF StoreNew

(* A PIN that the card does not take for its own.                          *)
LEMMA MissedFaithful ==
  ASSUME PinInv, retries # 0, NEW x \in Missed, PinBecomes(x.card),
         \/ pinCall.op \in {"change_pin"} \cup TokenOps /\ pinCall.pin # settings.pin
         \/ pinCall.op \in TokenOps /\ ~SessionCurrent
  PROVE  PinFaithful(x)
<1>1. PICK e : x = PinSays(IF retries = 1 THEN "32" ELSE IF misses = 2 THEN "34" ELSE "31", <<>>,
                           [PinKeep EXCEPT !.retries = @ - 1, !.misses = @ + 1, !.epoch = e])
  BY Zenon DEF Missed
<1>2. /\ x.status \in {"31", "32", "34"} /\ settings' = settings /\ serial' = serial
      /\ retries' = retries - 1
  BY <1>1 DEF PinSays, PinKeep, PinBecomes
<1>3. AttemptSpent
  BY DEF AttemptSpent
<1>4. /\ SettingsTyped(settings) /\ serial \in Nat /\ retries \in 1 .. MaxRetries
      /\ MaxRetries \in Nat
  BY ClientPinAssumption DEF PinInv, PinTypes
<1>5. serial' \in Nat /\ serial' >= serial /\ retries' \in 0 .. MaxRetries
  BY <1>2, <1>4
<1>6. SettingsTyped(settings')
  BY <1>2, <1>4
<1>7. QED
  BY <1>2, <1>3, <1>5, <1>6 DEF PinFaithful

(* A token for a PIN that the card takes for its own; the application      *)
(* decrypts it, because the session is current.                            *)
LEMMA GrantFaithful ==
  ASSUME PinInv, pinCall.op \in TokenOps, NEW m, CardSecret(m) = Secret,
         NEW x, x = Grant(m), PinBecomes(x.card)
  PROVE  PinFaithful(x)
<1> DEFINE given == <<"token", serial + 1>>
<1>1. /\ SettingsTyped(settings) /\ serial \in Nat /\ retries \in 0 .. MaxRetries
      /\ MaxRetries \in Nat
  BY ClientPinAssumption DEF PinInv, PinTypes
<1>2. [settings EXCEPT !.pin = settings.pin] = settings
  BY <1>1, SamePin
<1>3. PinPromised = settings /\ NeedsField(pinCall.op)
      /\ pinCall.op \notin {"get_pin_retries", "hmac_secret"}
  BY DEF PinPromised, NeedsField, TokenOps
<1>4. CASE x = PinSays("37", <<>>, Known(settings.pin))
  <2>1. x.status = "37" /\ x.payload = <<>> /\ x.card = Known(settings.pin)
    BY <1>4 DEF PinSays
  <2>2. settings' = settings /\ serial' = serial /\ retries' = MaxRetries
    BY <1>2, <2>1, KnownCard DEF PinBecomes
  <2>3. QED
    BY <1>1, <2>1, <2>2 DEF PinFaithful, AttemptSpent, SettingsTyped
<1>5. CASE \E p : x = PinSays("00", <<encrypt(CardSecret(m), given)>>,
                              [Known(settings.pin) EXCEPT !.serial = @ + 1, !.issued = p])
  <2>1. PICK p : x = PinSays("00", <<encrypt(CardSecret(m), given)>>,
                             [Known(settings.pin) EXCEPT !.serial = @ + 1, !.issued = p])
    BY <1>5
  <2>2. /\ x.status = "00" /\ x.payload[1] = encrypt(Secret, given)
        /\ x.card = [Known(settings.pin) EXCEPT !.serial = @ + 1, !.issued = p]
    BY <2>1 DEF PinSays
  <2>3. settings' = settings /\ serial' = serial + 1 /\ retries' = MaxRetries
    BY <1>2, <2>2, KnownCard DEF PinBecomes
  <2>4. decrypt(Secret, x.payload[1]) = given
    BY <2>2, Decrypts
  <2>5. AttemptSpent
    BY <1>1, <2>3 DEF AttemptSpent
  <2>6. QED
    BY <1>1, <1>3, <2>2, <2>3, <2>4, <2>5 DEF PinFaithful, SettingsTyped
<1>6. QED
  BY <1>4, <1>5 DEF Grant

(* The PIN commands that need the PIN.                                     *)
LEMMA PinStatusIs ==
  /\ PinStatus \in {"00", "32", "34", "35"}
  /\ PinStatus = "00" => settings.pin # Unset /\ retries # 0
  BY DEF PinStatus

(* A refused MAC belongs to another session.                               *)
LEMMA StaleSession == session.key # epoch => ~SessionCurrent
  BY DEF SessionCurrent

LEMMA RetriesFaithful ==
  ASSUME PinInv, pinCall.op \in {"get_pin_retries", "get_key_agreement"},
         NEW x \in ExecutePin(pinMessage(pinCall)), PinBecomes(x.card)
  PROVE  PinFaithful(x)
<1> DEFINE m == pinMessage(pinCall)
<1>1. /\ m.command = "clientPin"
      /\ pinCall.op = "get_pin_retries" => m.sub = 1
      /\ pinCall.op = "get_key_agreement" => m.sub = 2
  BY DEF pinMessage, PinMessage
<1>2. PICK p : /\ x = PinSays("00", p, PinKeep)
               /\ pinCall.op = "get_pin_retries" => p = <<retries>>
  <2> HIDE DEF m
  <2>1. x \in ExecuteClientPin(m)
    BY <1>1 DEF ExecutePin, m
  <2>2. CASE pinCall.op = "get_pin_retries"
    BY <1>1, <2>1, <2>2 DEF ExecuteClientPin
  <2>3. CASE pinCall.op = "get_key_agreement"
    BY <1>1, <2>1, <2>3 DEF ExecuteClientPin
  <2>4. QED
    BY <2>2, <2>3
<1>3. PinPromised = settings /\ NeedsField(pinCall.op)
      /\ pinCall.op \notin TokenOps \cup {"hmac_secret"}
  BY DEF PinPromised, NeedsField, TokenOps
<1>4. QED
  BY <1>2, <1>3, KeepFaithful

LEMMA SetPinFaithful ==
  ASSUME PinInv, pinCall \in PinCalls, pinCall.op = "set_pin",
         NEW x \in ExecutePin(pinMessage(pinCall)), PinBecomes(x.card)
  PROVE  PinFaithful(x)
<1> DEFINE m == pinMessage(pinCall)
<1>1. /\ m.command = "clientPin" /\ m.sub = 3 /\ m.protocol = session.protocol
      /\ m.pinEnc = encrypt(Secret, pad_pin(pinCall.new))
      /\ m.auth = authenticate(session.protocol, Secret.hmac, <<m.pinEnc>>)
  BY SessionMessage DEF SessionOps
<1> HIDE DEF m
<1>2. x = IF settings.pin # Unset THEN PinSays("30", <<>>, PinKeep)
          ELSE IF ~Authentic(m, <<m.pinEnc>>) THEN PinSays("33", <<>>, PinKeep) ELSE StoreNew(m)
  <2>1. x \in ExecuteClientPin(m)
    BY <1>1 DEF ExecutePin, m
  <2>2. QED
    BY <1>1, <2>1 DEF ExecuteClientPin
<1>3. /\ Authentic(m, <<m.pinEnc>>) <=> session.key = epoch
      /\ session.key = epoch => CardSecret(m) = Secret
  BY <1>1, SessionMac
<1>4. CASE x = PinSays("30", <<>>, PinKeep)
  BY <1>4, KeepFaithful
<1>5. CASE x = PinSays("33", <<>>, PinKeep) /\ ~Authentic(m, <<m.pinEnc>>)
  <2>1. ~SessionCurrent /\ pinCall.op \notin ConfigOps
    BY <1>3, <1>5, StaleSession DEF ConfigOps
  <2>2. QED
    BY <1>5, <2>1, KeepFaithful
<1>6. CASE x = StoreNew(m) /\ Authentic(m, <<m.pinEnc>>)
  <2>1. decrypt(CardSecret(m), m.pinEnc) = pad_pin(pinCall.new)
    BY <1>1, <1>3, <1>6, Decrypts
  <2>2. QED
    BY <1>6, <2>1, StoreFaithful
<1>7. QED
  BY <1>2, <1>4, <1>5, <1>6

LEMMA ChangePinFaithful ==
  ASSUME PinInv, pinCall \in PinCalls, pinCall.op = "change_pin",
         NEW x \in ExecutePin(pinMessage(pinCall)), PinBecomes(x.card)
  PROVE  PinFaithful(x)
<1> DEFINE m == pinMessage(pinCall)
<1>1. /\ m.command = "clientPin" /\ m.sub = 4 /\ m.protocol = session.protocol
      /\ m.pinEnc = encrypt(Secret, pad_pin(pinCall.new))
      /\ m.hashEnc = encrypt(Secret, pin_hash(pinCall.pin))
      /\ m.auth = authenticate(session.protocol, Secret.hmac, <<m.pinEnc, m.hashEnc>>)
  BY SessionMessage DEF SessionOps
<1> HIDE DEF m
<1>2. \/ PinStatus # "00" /\ x = PinSays(PinStatus, <<>>, PinKeep)
      \/ ~Authentic(m, <<m.pinEnc, m.hashEnc>>) /\ x = PinSays("33", <<>>, PinKeep)
      \/ /\ PinStatus = "00" /\ Authentic(m, <<m.pinEnc, m.hashEnc>>) /\ ~RightPin(m)
         /\ x \in Missed
      \/ Authentic(m, <<m.pinEnc, m.hashEnc>>) /\ RightPin(m) /\ x = StoreNew(m)
  <2>1. x \in ExecuteClientPin(m)
    BY <1>1 DEF ExecutePin, m
  <2>2. QED
    BY <1>1, <2>1 DEF ExecuteClientPin
<1>3. /\ Authentic(m, <<m.pinEnc, m.hashEnc>>) <=> session.key = epoch
      /\ session.key = epoch => CardSecret(m) = Secret
  BY <1>1, SessionMac
<1>4. CASE PinStatus # "00" /\ x = PinSays(PinStatus, <<>>, PinKeep)
  BY <1>4, PinStatusIs, KeepFaithful
<1>5. CASE ~Authentic(m, <<m.pinEnc, m.hashEnc>>) /\ x = PinSays("33", <<>>, PinKeep)
  <2>1. ~SessionCurrent /\ pinCall.op \notin ConfigOps
    BY <1>3, <1>5, StaleSession DEF ConfigOps
  <2>2. QED
    BY <1>5, <2>1, KeepFaithful
<1>6. CASE /\ PinStatus = "00" /\ Authentic(m, <<m.pinEnc, m.hashEnc>>) /\ ~RightPin(m)
           /\ x \in Missed
  <2>1. decrypt(CardSecret(m), m.hashEnc) = pin_hash(pinCall.pin)
    BY <1>1, <1>3, <1>6, Decrypts
  <2>2. pinCall.pin # settings.pin
    BY <1>6, <2>1 DEF RightPin
  <2>3. QED
    BY <1>6, <2>2, PinStatusIs, MissedFaithful
<1>7. CASE Authentic(m, <<m.pinEnc, m.hashEnc>>) /\ RightPin(m) /\ x = StoreNew(m)
  <2>1. decrypt(CardSecret(m), m.pinEnc) = pad_pin(pinCall.new)
    BY <1>1, <1>3, <1>7, Decrypts
  <2>2. QED
    BY <1>7, <2>1, StoreFaithful
<1>8. QED
  BY <1>2, <1>4, <1>5, <1>6, <1>7

LEMMA TokenFaithful ==
  ASSUME PinInv, pinCall.op \in TokenOps,
         NEW x \in ExecutePin(pinMessage(pinCall)), PinBecomes(x.card)
  PROVE  PinFaithful(x)
<1> DEFINE m == pinMessage(pinCall)
<1>1. /\ m.command = "clientPin" /\ m.sub \in {5, 9} /\ m.protocol = session.protocol
      /\ m.hashEnc = encrypt(Secret, pin_hash(pinCall.pin))
  BY SessionMessage DEF SessionOps, TokenOps
<1> HIDE DEF m
<1>2. \/ x = PinSays("00", <<>>, PinKeep)
      \/ PinStatus # "00" /\ x = PinSays(PinStatus, <<>>, PinKeep)
      \/ PinStatus = "00" /\ ~RightPin(m) /\ x \in Missed
      \/ PinStatus = "00" /\ RightPin(m) /\ x = Grant(m)
  <2>1. x \in ExecuteClientPin(m)
    BY <1>1 DEF ExecutePin, m
  <2>2. CASE m.sub = 5 \/ (m.sub = 9 /\ firmware # "2.0")
    BY <1>1, <2>1, <2>2 DEF ExecuteClientPin
  <2>3. CASE m.sub = 9 /\ firmware = "2.0"
    BY <2>1, <2>3 DEF ExecuteClientPin
  <2>4. QED
    BY <1>1, <2>2, <2>3
<1>3. session.key = epoch => CardSecret(m) = Secret
  BY <1>1 DEF CardSecret, Secret
<1>4. CASE x = PinSays("00", <<>>, PinKeep)
  <2>1. PinPromised = settings /\ NeedsField(pinCall.op) /\ pinCall.op # "get_pin_retries"
    BY DEF PinPromised, NeedsField, TokenOps
  <2>2. QED
    BY <1>4, <2>1, KeepFaithful
<1>5. CASE PinStatus # "00" /\ x = PinSays(PinStatus, <<>>, PinKeep)
  BY <1>5, PinStatusIs, KeepFaithful
<1>6. CASE PinStatus = "00" /\ ~RightPin(m) /\ x \in Missed
  <2>1. session.key = epoch => pinCall.pin # settings.pin
    BY <1>1, <1>3, <1>6, Decrypts DEF RightPin
  <2>2. QED
    BY <1>6, <2>1, PinStatusIs, StaleSession, MissedFaithful
<1>7. CASE PinStatus = "00" /\ RightPin(m) /\ x = Grant(m)
  <2>1. settings.pin \in Pins
    BY <1>7, PinStatusIs DEF PinInv, PinTypes, SettingsTyped
  <2>2. decrypt(CardSecret(m), m.hashEnc) # Garbage
    BY <1>7, <2>1, ClientPinAssumption DEF RightPin, pin_hash
  <2>3. Secret.aes = CardSecret(m).aes
    BY <1>1, <2>2 DEF decrypt, encrypt
  <2>4. CardSecret(m) = Secret
    BY <1>1, <1>3, <2>3 DEF CardSecret, Secret, derive_shared_secret
  <2>5. QED
    BY <1>7, <2>4, GrantFaithful
<1>8. QED
  BY <1>2, <1>4, <1>5, <1>6, <1>7

LEMMA HmacFaithful ==
  ASSUME PinInv, pinCall.op = "hmac_secret",
         NEW x \in ExecutePin(pinMessage(pinCall)), PinBecomes(x.card)
  PROVE  PinFaithful(x)
<1> DEFINE m == pinMessage(pinCall)
           output == [i \in 1 .. Len(pinCall.salts) |-> <<"hmac", pinCall.salts[i]>>]
<1>1. /\ m.command = "getAssertion" /\ m.protocol = session.protocol
      /\ m.pinEnc = encrypt(Secret, <<"salts", pinCall.salts>>)
      /\ m.auth = authenticate(session.protocol, Secret.hmac, <<m.pinEnc>>)
  BY SessionMessage DEF SessionOps
<1> HIDE DEF m
<1>2. /\ Authentic(m, <<m.pinEnc>>) <=> session.key = epoch
      /\ session.key = epoch => CardSecret(m) = Secret
  BY <1>1, SessionMac
<1>3. x \in ExecuteHmac(m)
  BY <1>1 DEF ExecutePin, m
<1>4. PinPromised = settings /\ NeedsField(pinCall.op)
      /\ pinCall.op \notin TokenOps \cup {"get_pin_retries"}
  BY DEF PinPromised, NeedsField, TokenOps
<1>5. CASE ~Authentic(m, <<m.pinEnc>>)
  <2>1. x = PinSays("33", <<>>, PinKeep)
    BY <1>3, <1>5 DEF ExecuteHmac
  <2>2. ~SessionCurrent /\ pinCall.op \notin ConfigOps
    BY <1>2, <1>5, StaleSession DEF ConfigOps
  <2>3. QED
    BY <2>1, <2>2, KeepFaithful
<1>6. CASE Authentic(m, <<m.pinEnc>>)
  <2>1. decrypt(CardSecret(m), m.pinEnc) = <<"salts", pinCall.salts>>
    BY <1>1, <1>2, <1>6, Decrypts
  <2>2. decrypt(CardSecret(m), m.pinEnc)[2] = pinCall.salts
    BY <2>1
  <2>3. \/ x = PinSays("00", <<encrypt(Secret, output)>>, PinKeep)
        \/ x = PinSays("00", <<>>, PinKeep)
    BY <1>2, <1>3, <1>6, <2>2 DEF ExecuteHmac
  <2>4. decrypt(Secret, <<encrypt(Secret, output)>>[1]) = output
    BY Decrypts
  <2>5. QED
    <3> HIDE DEF output
    <3> QED BY <1>4, <2>3, <2>4, KeepFaithful DEF output
<1>7. QED
  BY <1>5, <1>6

(* The settings with a new minimum length.                                 *)
LEMMA MinimumSet ==
  ASSUME NEW s, NEW min, NEW force,
         s = [pin |-> s.pin, min |-> s.min, alwaysUv |-> s.alwaysUv, longTouch |-> s.longTouch,
              force |-> s.force]
  PROVE  [s EXCEPT !.min = min, !.force = force] =
           [pin |-> s.pin, min |-> min, alwaysUv |-> s.alwaysUv, longTouch |-> s.longTouch,
            force |-> force]
<1> DEFINE mid == [s EXCEPT !.min = min]
<1>1. [s EXCEPT !.min = min, !.force = force] = [mid EXCEPT !.force = force]
  OBVIOUS
<1>2. mid = [pin |-> s.pin, min |-> min, alwaysUv |-> s.alwaysUv, longTouch |-> s.longTouch,
             force |-> s.force]
  OBVIOUS
<1> HIDE DEF mid
<1>3. [mid EXCEPT !.force = force] =
        [pin |-> s.pin, min |-> min, alwaysUv |-> s.alwaysUv, longTouch |-> s.longTouch,
         force |-> force]
  BY <1>2
<1>4. QED
  BY <1>1, <1>3, Zenon

LEMMA ConfigFaithful ==
  ASSUME PinInv, pinCall.op \in ConfigOps,
         NEW x \in ExecutePin(pinMessage(pinCall)), PinBecomes(x.card)
  PROVE  PinFaithful(x)
<1> DEFINE m == pinMessage(pinCall)
           authorised ==
             /\ issued # Unset /\ "acfg" \in issued.permissions
             /\ m.auth = authenticate(m.protocol, issued.value, <<"config", m.sub>> \o m.params)
<1>1. /\ m.command = "config" /\ m.protocol = pinToken.protocol
      /\ m.auth = authenticate(m.protocol, pinToken.value, <<"config", m.sub>> \o m.params)
      /\ pinCall.op = "toggle_always_uv" => m.sub = 2
      /\ pinCall.op = "set_min_pin_length" => m.sub = 3 /\ m.params[1] = pinCall.min
      /\ pinCall.op = "enable_long_touch_for_reset" => m.sub = 4
  BY TokenMessage
<1> HIDE DEF m
<1>2. x = ExecuteConfig(m)
  BY <1>1 DEF ExecutePin, m
<1>3. ~NeedsField(pinCall.op)
      /\ pinCall.op \notin TokenOps \cup {"get_pin_retries", "hmac_secret"}
  BY DEF NeedsField, TokenOps, ConfigOps
<1>4. CASE firmware = "2.0"
  <2>1. x = PinSays("f1", <<>>, PinKeep)
    BY <1>2, <1>4 DEF ExecuteConfig
  <2>2. QED
    BY <2>1, KeepFaithful
<1>5. CASE firmware # "2.0" /\ ~authorised
  <2>1. x = PinSays("33", <<>>, PinKeep)
    BY <1>2, <1>5 DEF ExecuteConfig
  <2>2. ~TokenCurrent
    BY <1>1, <1>5 DEF TokenCurrent
  <2>3. QED
    BY <2>1, <2>2, KeepFaithful
<1>6. CASE firmware # "2.0" /\ authorised
  <2> DEFINE changed(s) == x = PinSays("00", <<>>, [PinKeep EXCEPT !.settings = s])
  <2>1. ASSUME NEW s, changed(s), SettingsTyped(s), settings' = s => s = PinPromised
        PROVE  PinFaithful(x)
    <3>1. /\ x.status = "00" /\ x.payload = <<>> /\ settings' = s /\ serial' = serial
          /\ retries' = retries
      BY <2>1 DEF PinSays, PinKeep, PinBecomes
    <3>2. serial \in Nat /\ retries \in 0 .. MaxRetries
      BY DEF PinInv, PinTypes
    <3>3. AttemptSpent
      BY <3>1, <3>2 DEF AttemptSpent
    <3>4. QED
      BY <1>3, <2>1, <3>1, <3>2, <3>3 DEF PinFaithful
  <2>2. settings = [pin |-> settings.pin, min |-> settings.min, alwaysUv |-> settings.alwaysUv,
                    longTouch |-> settings.longTouch, force |-> settings.force]
        /\ settings.pin \in Pins \cup {Unset}
    BY DEF PinInv, PinTypes, SettingsTyped
  <2>8. ASSUME NEW a, NEW b, NEW c, NEW d
        PROVE  SettingsTyped([pin |-> settings.pin, min |-> a, alwaysUv |-> b, longTouch |-> c,
                              force |-> d])
    BY <2>2 DEF SettingsTyped
  <2>3. CASE pinCall.op = "toggle_always_uv"
    <3>1. changed([settings EXCEPT !.alwaysUv = ~@])
      BY <1>1, <1>2, <1>6, <2>3 DEF ExecuteConfig, PinKeep
    <3>2. SettingsTyped([settings EXCEPT !.alwaysUv = ~@])
      BY <2>2, <2>8
    <3>3. PinPromised = [settings EXCEPT !.alwaysUv = ~@]
      BY <2>3 DEF PinPromised
    <3>4. QED
      BY <2>1, <3>1, <3>2, <3>3
  <2>4. CASE pinCall.op = "set_min_pin_length" /\ pinCall.min < settings.min
    <3>1. x = PinSays("37", <<>>, PinKeep)
      BY <1>1, <1>2, <1>6, <2>4 DEF ExecuteConfig
    <3>2. QED
      BY <3>1, KeepFaithful
  <2>5. CASE pinCall.op = "set_min_pin_length" /\ ~(pinCall.min < settings.min)
    <3> DEFINE short == settings.pin # Unset /\ PinLength[settings.pin] < pinCall.min
               f == settings.force \/ m.params[2] \/ short
    <3>1. changed([settings EXCEPT !.min = pinCall.min, !.force = f])
      <4>1. m.sub = 3 /\ m.params[1] = pinCall.min
        BY <1>1, <2>5
      <4>2. x = PinSays("00", <<>>, [PinKeep EXCEPT !.settings.min = pinCall.min,
                                                    !.settings.force = @ \/ m.params[2] \/ short])
        BY <1>2, <1>6, <2>5, <4>1 DEF ExecuteConfig
      <4>3. QED
        BY <4>2 DEF PinKeep
    <3> HIDE DEF f
    <3>2. SettingsTyped([settings EXCEPT !.min = pinCall.min, !.force = f])
      <4>1. [settings EXCEPT !.min = pinCall.min, !.force = f] =
              [pin |-> settings.pin, min |-> pinCall.min, alwaysUv |-> settings.alwaysUv,
               longTouch |-> settings.longTouch, force |-> f]
        BY <2>2, MinimumSet
      <4>2. QED
        BY <2>8, <4>1
    <3>3. settings' = [settings EXCEPT !.min = pinCall.min, !.force = f] => settings'.force = f
      BY <2>2
    <3>4. settings' = [settings EXCEPT !.min = pinCall.min, !.force = f] =>
            [settings EXCEPT !.min = pinCall.min, !.force = f] = PinPromised
      BY <2>5, <3>3 DEF PinPromised
    <3>5. QED
      BY <2>1, <3>1, <3>2, <3>4
  <2>6. CASE pinCall.op = "enable_long_touch_for_reset"
    <3>1. changed([settings EXCEPT !.longTouch = TRUE])
      BY <1>1, <1>2, <1>6, <2>6 DEF ExecuteConfig, PinKeep
    <3>2. SettingsTyped([settings EXCEPT !.longTouch = TRUE])
      BY <2>2, <2>8
    <3>3. PinPromised = [settings EXCEPT !.longTouch = TRUE]
      BY <2>6 DEF PinPromised
    <3>4. QED
      BY <2>1, <3>1, <3>2, <3>3
  <2>7. QED
    BY <2>3, <2>4, <2>5, <2>6 DEF ConfigOps
<1>7. QED
  BY <1>4, <1>5, <1>6

(* The answer to the message of any operation.                             *)
LEMMA PinAnswerFaithful ==
  ASSUME PinInv, pinStage # "Idle", NEW x \in ExecutePin(pinMessage(pinCall)),
         PinBecomes(x.card)
  PROVE  PinFaithful(x)
<1>1. pinCall \in PinCalls /\ pinCall.op \in PinOperations
  BY ClientPinAssumption DEF PinInv, PinTypes
<1>2. CASE pinCall.op \in {"get_pin_retries", "get_key_agreement"}
  BY <1>2, RetriesFaithful
<1>3. CASE pinCall.op = "set_pin"
  BY <1>1, <1>3, SetPinFaithful
<1>4. CASE pinCall.op = "change_pin"
  BY <1>1, <1>4, ChangePinFaithful
<1>5. CASE pinCall.op \in TokenOps
  BY <1>5, TokenFaithful
<1>6. CASE pinCall.op = "hmac_secret"
  BY <1>6, HmacFaithful
<1>7. CASE pinCall.op \in ConfigOps
  BY <1>7, ConfigFaithful
<1>8. QED
  BY <1>1, <1>2, <1>3, <1>4, <1>5, <1>6, <1>7 DEF PinOperations, SessionOps, TokenOps

-----------------------------------------------------------------------------
(* Every operation                                                         *)

(* What every step keeps and shows.                                        *)
PinGood == PinInv' /\ (Ending => PinTruthfulEnd) /\ MacRefused /\ AttemptSpent

LEMMA PinInitInv == PinInit => PinInv
<1> SUFFICES ASSUME PinInit PROVE PinInv
  OBVIOUS
<1>1. SettingsTyped(settings)
  BY DEF PinInit, SettingsTyped
<1>2. serial \in Nat /\ retries \in 0 .. MaxRetries
  BY ClientPinAssumption DEF PinInit
<1>3. QED
  BY <1>1, <1>2 DEF PinInit, PinInv, PinTypes, TokenIssued

(* A step that leaves the PIN, its attempts and the token as they are.     *)
LEMMA UnansweredPin ==
  ASSUME PinInv, settings' = settings, serial' = serial, retries' = retries,
         pinToken' = pinToken, pinStage' # "Idle" => pinCall' \in PinCalls,
         Ending => pinOutcome' \in {"UnsupportedDevice", "Lost"}
  PROVE  PinGood
<1>1. PinInv'
  BY DEF PinInv, PinTypes, TokenIssued, SettingsTyped
<1>2. AttemptSpent
  BY DEF AttemptSpent, PinInv, PinTypes
<1>3. MacRefused /\ (Ending => PinTruthfulEnd)
  BY DEF MacRefused, PinTruthfulEnd
<1>4. QED
  BY <1>1, <1>2, <1>3 DEF PinGood

LEMMA LostPin ==
  ASSUME PinInv, PinLost
  PROVE  PinGood
<1>1. pinStage # "Idle" /\ pinStage' = "Idle" /\ pinOutcome' = "Lost" /\ pinToken' = pinToken
  BY DEF PinLost, PinFinish
<1>2. CASE UNCHANGED pinCard
  BY <1>1, <1>2, UnansweredPin DEF pinCard
<1>3. ASSUME NEW x \in ExecutePin(pinMessage(pinCall)), PinBecomes(x.card)
      PROVE  PinGood
  <2>1. PinFaithful(x)
    BY <1>1, <1>3, PinAnswerFaithful
  <2>2. PinTypes'
    BY <1>1, <2>1 DEF PinFaithful, PinTypes, SettingsTyped
  <2>3. TokenIssued'
    BY <1>1, <2>1 DEF PinFaithful, PinInv, PinTypes, TokenIssued
  <2>4. settings' \in {settings, PinPromised}
    BY <2>1 DEF PinFaithful
  <2>5. PinTruthfulEnd /\ MacRefused /\ AttemptSpent
    BY <1>1, <2>1, <2>4 DEF PinTruthfulEnd, MacRefused, PinFaithful
  <2>6. QED
    BY <2>2, <2>3, <2>5 DEF PinGood, PinInv
<1>4. QED
  BY <1>2, <1>3 DEF PinLost

LEMMA AnsweredPin ==
  ASSUME PinInv, PinAnswered
  PROVE  PinGood
<1>1. pinStage = "Message"
  BY DEF PinAnswered
<1>2. PICK x \in ExecutePin(pinMessage(pinCall)) :
        /\ PinBecomes(x.card)
        /\ \/ x.status = "00" /\ PinParsed(x.payload)
           \/ /\ x.status # "00" /\ PinFinish(x.status)
              /\ UNCHANGED <<session, pinToken, pinResult>>
  BY DEF PinAnswered
<1>3. PinFaithful(x)
  BY <1>1, <1>2, PinAnswerFaithful
<1>4. pinStage' = "Idle" /\ AttemptSpent
  BY <1>2, <1>3 DEF PinParsed, PinFinish, PinFaithful
<1>5. PinTypes'
  BY <1>3, <1>4 DEF PinFaithful, PinTypes, SettingsTyped
<1>6. CASE x.status # "00"
  <2>1. pinToken' = pinToken /\ pinOutcome' = x.status
    BY <1>2, <1>6 DEF PinFinish
  <2>2. TokenIssued'
    BY <1>3, <2>1 DEF PinFaithful, PinInv, PinTypes, TokenIssued
  <2>3. PinTruthfulEnd /\ MacRefused
    BY <1>3, <1>6, <2>1 DEF PinFaithful, PinTruthfulEnd, MacRefused
  <2>4. QED
    BY <1>4, <1>5, <2>2, <2>3 DEF PinGood, PinInv
<1>7. CASE x.status = "00"
  <2>1. settings' = PinPromised /\ (~NeedsField(pinCall.op) => x.payload = <<>>)
    BY <1>3, <1>7 DEF PinFaithful
  <2>2. CASE /\ NeedsField(pinCall.op) <=> x.payload # <<>>
             /\ PinFinish("Done")
             /\ pinToken' = IF pinCall.op \in TokenOps
                            THEN [protocol |-> session.protocol,
                                  value |-> IF x.payload = <<>> THEN Garbage
                                            ELSE decrypt(Secret, x.payload[1])]
                            ELSE pinToken
             /\ pinResult' = CASE pinCall.op = "get_pin_retries" -> x.payload
                               [] pinCall.op = "hmac_secret" -> decrypt(Secret, x.payload[1])
                               [] OTHER -> <<>>
    <3>1. pinOutcome' = "Done"
      BY <2>2 DEF PinFinish
    <3>2. pinCall.op = "get_pin_retries" => pinResult' = <<retries>>
      BY <1>3, <1>7, <2>2 DEF PinFaithful
    <3>3. pinCall.op = "hmac_secret" =>
            pinResult' = [i \in 1 .. Len(pinCall.salts) |-> <<"hmac", pinCall.salts[i]>>]
      <4>1. ASSUME pinCall.op = "hmac_secret"
            PROVE  pinResult' = decrypt(Secret, x.payload[1]) /\ x.payload # <<>>
        BY <2>2, <4>1 DEF NeedsField
      <4>2. QED
        BY <1>3, <1>7, <4>1 DEF PinFaithful
    <3>4. PinTruthfulEnd
      BY <2>1, <3>1, <3>2, <3>3 DEF PinTruthfulEnd
    <3>5. TokenIssued'
      <4>1. CASE pinCall.op \in TokenOps
        <5>1. x.payload # <<>> /\ pinToken'.value = decrypt(Secret, x.payload[1])
          BY <2>2, <4>1 DEF NeedsField
        <5>2. serial' = serial + 1 /\ pinToken'.value = <<"token", serial'>>
          BY <1>3, <1>7, <4>1, <5>1 DEF PinFaithful
        <5>3. serial' \in 1 .. serial'
          BY <5>2 DEF PinInv, PinTypes
        <5>4. QED
          BY <5>2, <5>3 DEF TokenIssued
      <4>2. CASE pinCall.op \notin TokenOps
        <5>1. pinToken' = pinToken
          BY <2>2, <4>2
        <5>2. QED
          BY <1>3, <5>1 DEF PinFaithful, PinInv, PinTypes, TokenIssued
      <4>3. QED
        BY <4>1, <4>2
    <3>6. QED
      BY <1>4, <1>5, <3>1, <3>4, <3>5 DEF PinGood, PinInv, MacRefused
  <2>3. CASE /\ ~(NeedsField(pinCall.op) <=> x.payload # <<>>)
             /\ PinFinish("InvalidResponse") /\ UNCHANGED pinToken
    <3>1. NeedsField(pinCall.op) /\ pinOutcome' = "InvalidResponse" /\ pinToken' = pinToken
      BY <2>1, <2>3 DEF PinFinish
    <3>2. PinPromised = settings
      BY <3>1 DEF PinPromised, NeedsField, TokenOps
    <3>3. TokenIssued'
      BY <1>3, <3>1 DEF PinFaithful, PinInv, PinTypes, TokenIssued
    <3>4. PinTruthfulEnd /\ MacRefused
      BY <2>1, <3>1, <3>2 DEF PinTruthfulEnd, MacRefused
    <3>5. QED
      BY <1>4, <1>5, <3>3, <3>4 DEF PinGood, PinInv
  <2>4. QED
    BY <1>2, <1>7, <2>2, <2>3 DEF PinParsed
<1>8. QED
  BY <1>6, <1>7

LEMMA PinStep ==
  ASSUME PinInv, [PinNext]_pinVars
  PROVE  PinInv' /\ [(Ending => PinTruthfulEnd) /\ MacRefused /\ AttemptSpent]_pinVars
<1>1. CASE \E c \in PinCalls : PinStart(c)
  <2>1. PinGood
    BY <1>1, UnansweredPin DEF PinStart, pinCard, Ending
  <2>2. QED
    BY <2>1 DEF PinGood
<1>2. CASE PinSelected
  <2>1. PinGood
    BY <1>2, UnansweredPin DEF PinSelected, pinCard, Ending, PinInv, PinTypes
  <2>2. QED
    BY <2>1 DEF PinGood
<1>3. CASE PinSelectRefused
  <2>1. PinGood
    BY <1>3, UnansweredPin DEF PinSelectRefused, PinFinish, pinCard
  <2>2. QED
    BY <2>1 DEF PinGood
<1>4. CASE PinAnswered
  BY <1>4, AnsweredPin DEF PinGood
<1>5. CASE PinLost
  BY <1>5, LostPin DEF PinGood
<1>6. CASE PinPowerCycle
  <2>1. PinGood
    BY <1>6, UnansweredPin DEF PinPowerCycle, host, Ending, PinInv, PinTypes
  <2>2. QED
    BY <2>1 DEF PinGood
<1>7. CASE UNCHANGED pinVars
  BY <1>7 DEF pinVars, host, pinCard, PinInv, PinTypes, TokenIssued, SettingsTyped
<1>8. QED
  BY <1>1, <1>2, <1>3, <1>4, <1>5, <1>6, <1>7 DEF PinNext

(* For any PINs, keys and tokens: an operation that succeeds has changed   *)
(* the settings as promised and returns what the card computed; one that   *)
(* is refused has changed nothing; and what the application holds as a     *)
(* token was issued by the card.                                           *)
THEOREM PinOutcomes == PinSpec => PinOutcomeTrue
<1>1. PinInv /\ PinInv' /\ [(Ending => PinTruthfulEnd) /\ MacRefused /\ AttemptSpent]_pinVars =>
        [(Ending => PinTruthfulEnd) /\ TokenIssued']_pinVars
  BY DEF PinInv
<1>2. QED
  BY <1>1, PinInitInv, PinStep, PTL DEF PinSpec, PinOutcomeTrue

(* For any PINs, keys and tokens: the card refuses a MAC only under a      *)
(* stale session or token, and an attempt is spent only on a wrong PIN or  *)
(* on a token requested in a stale session.                                *)
THEOREM RefusalsAreExplained == PinSpec => RefusalsExplained
<1>1. [(Ending => PinTruthfulEnd) /\ MacRefused /\ AttemptSpent]_pinVars =>
        [MacRefused /\ AttemptSpent]_pinVars
  OBVIOUS
<1>2. QED
  BY <1>1, PinInitInv, PinStep, PTL DEF PinSpec, RefusalsExplained
=============================================================================
