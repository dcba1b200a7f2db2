--------------------------- MODULE FrameParser_proof ---------------------------
(* Proofs about FrameParser: its type invariant, that every frame handed to  *)
(* tianbotDataProc is well formed, and that the frames found are those of    *)
(* the definition on the whole string, for every byte alphabet, every        *)
(* header, every limit and every stream.                                     *)
EXTENDS FrameParser, SequenceTheorems, WellFoundedInduction, TLAPS

\* What the statics of dataProc mean in each state of its switch.
HeaderOK == recv_msg[1] = HeadLo /\ recv_msg[2] = HeadHi

Statics ==
    /\ state = 1 => Len(recv_msg) = 1 /\ recv_msg[1] = HeadLo
    /\ state = 2 => Len(recv_msg) = 2 /\ HeaderOK
    /\ state = 3 => Len(recv_msg) = 3 /\ HeaderOK /\ len = recv_msg[3]
    /\ state \in 4..7 => /\ Len(recv_msg) >= 4
                         /\ HeaderOK
                         /\ Declared(recv_msg) <= LenLimit
    /\ state = 4 => Len(recv_msg) = 4 /\ len = Declared(recv_msg)
    /\ state = 5 => Len(recv_msg) = 5 /\ len = Dec(Declared(recv_msg))
    /\ state = 6 => Len(recv_msg) + len = 6 + Body(Declared(recv_msg))
    /\ state = 6 => Len(recv_msg) >= 6
    /\ state = 7 => Len(recv_msg) = 6 + Body(Declared(recv_msg))

IInv == TypeOK /\ Statics /\ FramesWellFormed

-----------------------------------------------------------------------------
\* Decrementing a uint32_t gives a uint32_t.
LEMMA DecNat == ASSUME NEW n \in Nat PROVE Dec(n) \in Nat
BY LenAssumption DEF Dec

\* Appending a byte leaves the earlier bytes, and so the declared length, alone.
Extends(t, s, b) ==
    /\ t \in Seq(Byte)
    /\ Len(t) = Len(s) + 1
    /\ t[Len(s) + 1] = b
    /\ Len(s) >= 1 => t[1] = s[1]
    /\ Len(s) >= 2 => t[2] = s[2]
    /\ Len(s) >= 3 => t[3] = s[3]
    /\ Len(s) >= 4 => Declared(t) = Declared(s)

LEMMA AppendKeeps ==
    ASSUME NEW s \in Seq(Byte), NEW b \in Byte
    PROVE  Extends(Append(s, b), s, b)
<1>. DEFINE t == Append(s, b)
<1>1. /\ t \in Seq(Byte)
      /\ Len(t) = Len(s) + 1
      /\ t[Len(s) + 1] = b
      /\ \A i \in 1..Len(s) : t[i] = s[i]
  BY AppendProperties
<1>2. Len(s) \in Nat
  BY LenProperties
<1>. HIDE DEF t
<1>3. /\ Len(s) >= 1 => t[1] = s[1]
      /\ Len(s) >= 2 => t[2] = s[2]
      /\ Len(s) >= 3 => t[3] = s[3]
      /\ Len(s) >= 4 => t[4] = s[4]
  BY <1>1, <1>2
<1>4. Extends(t, s, b)
  BY <1>1, <1>3 DEF Extends, Declared
<1>. QED BY <1>4 DEF t

\* The length a message of bytes declares is a natural number.
LEMMA DeclaredNat ==
    ASSUME NEW s \in Seq(Byte), Len(s) >= 4
    PROVE  Declared(s) \in Nat
<1>1. 3 \in 1..Len(s) /\ 4 \in 1..Len(s)
  BY LenProperties
<1>2. s[3] \in Byte /\ s[4] \in Byte
  BY <1>1, ElementOfSeq
<1>3. s[3] \in Nat /\ s[4] \in Nat
  BY <1>2, ByteAssumption
<1>. QED BY <1>3, LenAssumption DEF Declared

\* The position stays inside the stream, whether a byte is used up or not.
Position == /\ p \in 1..Len(stream) + 1
            /\ data_len \in 0..Len(stream) + 1 - p

LEMMA CurrentByte ==
    ASSUME TypeOK, data_len # 0
    PROVE  Byte0 \in Byte /\ Byte0 \in Nat
<1>1. stream \in Seq(Byte) /\ Len(stream) \in Nat
  BY StreamsAssumption, LenProperties DEF TypeOK
<1>2. p \in 1..Len(stream)
  BY <1>1 DEF TypeOK
<1>3. stream[p] \in Byte
  BY <1>1, <1>2, ElementOfSeq
<1>. QED BY <1>3, ByteAssumption DEF Byte0

LEMMA ConsumeKeepsPosition ==
    ASSUME TypeOK, data_len # 0, stream' = stream, Consume \/ Stay
    PROVE  Position'
<1>1. Len(stream) \in Nat
  BY StreamsAssumption, LenProperties DEF TypeOK
<1>2. CASE Consume
  BY <1>1, <1>2 DEF TypeOK, Consume, Position
<1>3. CASE Stay
  BY <1>1, <1>3 DEF TypeOK, Stay, Position
<1>. QED BY <1>2, <1>3

-----------------------------------------------------------------------------
LEMMA InitIInv == Init => IInv
<1>. SUFFICES ASSUME Init PROVE IInv
  OBVIOUS
<1>1. TypeOK
  <2>1. Len(stream) \in Nat
    BY StreamsAssumption, LenProperties DEF Init
  <2>2. p \in 1..Len(stream) + 1 /\ data_len \in 0..Len(stream) + 1 - p
    BY <2>1 DEF Init
  <2>3. recv_msg \in Seq(Byte) /\ delivered \in Seq(Seq(Byte))
    BY EmptySeq DEF Init
  <2>4. /\ stream \in Streams /\ state \in 0..7 /\ len \in Nat
        /\ comm_restarts \in Nat
    BY DEF Init
  <2>5. initDone_ \in BOOLEAN
    BY Zenon DEF Init
  <2>. QED BY <2>2, <2>3, <2>4, <2>5 DEF TypeOK
<1>2. Statics
  BY DEF Init, Statics
<1>3. FramesWellFormed
  BY DEF Init, FramesWellFormed
<1>. QED BY <1>1, <1>2, <1>3 DEF IInv

\* Every case of the switch keeps the meaning of the statics.
LEMMA NextIInv == IInv /\ [Next]_vars => IInv'
<1>. SUFFICES ASSUME IInv, [Next]_vars PROVE IInv'
  OBVIOUS
<1>. USE DEF IInv
<1>s. stream \in Seq(Byte) /\ Len(stream) \in Nat
  BY StreamsAssumption DEF TypeOK
<1>1. ASSUME NEW n \in 1..Len(stream), Read(n) PROVE IInv'
  <2>1. TypeOK'
    BY <1>1, <1>s DEF Read, TypeOK, statics, outputs
  <2>. QED BY <2>1, <1>1 DEF Read, statics, outputs, Statics, HeaderOK, FramesWellFormed
<1>2. CASE InitDone
  BY <1>2 DEF InitDone, TypeOK, statics, outputs, Statics, HeaderOK, FramesWellFormed
<1>3. CASE SeekHeadLo
  <2>p. Position'
    BY <1>3, ConsumeKeepsPosition DEF SeekHeadLo, At
  <2>1. CASE Byte0 = HeadLo
    <3>1. state' = 1 /\ recv_msg' = <<HeadLo>>
      BY <1>3, <2>1 DEF SeekHeadLo
    <3>2. /\ recv_msg' \in Seq(Byte)
          /\ Len(recv_msg') = 1 /\ recv_msg'[1] = HeadLo
      BY <3>1, ByteAssumption
    <3>3. TypeOK'
      BY <1>3, <2>p, <3>1, <3>2 DEF SeekHeadLo, At, Position, TypeOK, outputs
    <3>4. Statics'
      BY <3>1, <3>2 DEF Statics
    <3>. QED BY <3>3, <3>4, <1>3 DEF SeekHeadLo, outputs, FramesWellFormed
  <2>2. CASE Byte0 # HeadLo
    <3>1. TypeOK'
      BY <1>3, <2>p, <2>2 DEF SeekHeadLo, At, Position, TypeOK, outputs
    <3>2. Statics'
      BY <1>3, <2>2 DEF SeekHeadLo, At, Statics
    <3>. QED BY <3>1, <3>2, <1>3 DEF SeekHeadLo, outputs, FramesWellFormed
  <2>. QED BY <2>1, <2>2
<1>4. CASE MatchHeadHi
  <2>p. Position'
    BY <1>4, ConsumeKeepsPosition DEF MatchHeadHi, At
  <2>1. CASE Byte0 = HeadHi
    <3>0. recv_msg \in Seq(Byte) /\ HeadHi \in Byte
      BY ByteAssumption DEF TypeOK
    <3>1. state' = 2 /\ recv_msg' = Append(recv_msg, HeadHi)
      BY <1>4, <2>1 DEF MatchHeadHi
    <3>2. Len(recv_msg) = 1 /\ recv_msg[1] = HeadLo
      BY <1>4 DEF MatchHeadHi, At, Statics
    <3>3. /\ recv_msg' \in Seq(Byte)
          /\ Len(recv_msg') = 2 /\ recv_msg'[1] = HeadLo /\ recv_msg'[2] = HeadHi
      BY <3>0, <3>1, <3>2, AppendKeeps DEF Extends
    <3>4. TypeOK'
      BY <1>4, <2>p, <3>1, <3>3 DEF MatchHeadHi, At, Position, TypeOK, outputs
    <3>5. Statics'
      BY <3>1, <3>3 DEF Statics, HeaderOK
    <3>. QED BY <3>4, <3>5, <1>4 DEF MatchHeadHi, outputs, FramesWellFormed
  <2>2. CASE Byte0 # HeadHi
    <3>1. TypeOK'
      BY <1>4, <2>p, <2>2 DEF MatchHeadHi, At, Position, TypeOK, outputs
    <3>2. Statics'
      BY <1>4, <2>2 DEF MatchHeadHi, Statics
    <3>. QED BY <3>1, <3>2, <1>4 DEF MatchHeadHi, outputs, FramesWellFormed
  <2>. QED BY <2>1, <2>2
<1>5. CASE LenLow
  <2>p. Position'
    BY <1>5, ConsumeKeepsPosition DEF LenLow, At
  <2>0. Byte0 \in Byte /\ Byte0 \in Nat /\ recv_msg \in Seq(Byte)
    BY <1>5, CurrentByte DEF LenLow, At, TypeOK
  <2>1. /\ state' = 3 /\ len' = Byte0
        /\ recv_msg' = Append(recv_msg, Byte0)
    BY <1>5 DEF LenLow
  <2>2. Len(recv_msg) = 2 /\ recv_msg[1] = HeadLo /\ recv_msg[2] = HeadHi
    BY <1>5 DEF LenLow, At, Statics, HeaderOK
  <2>3. /\ recv_msg' \in Seq(Byte)
        /\ Len(recv_msg') = 3
        /\ recv_msg'[1] = HeadLo /\ recv_msg'[2] = HeadHi /\ recv_msg'[3] = Byte0
    BY <2>0, <2>1, <2>2, AppendKeeps DEF Extends
  <2>4. TypeOK'
    BY <1>5, <2>p, <2>0, <2>1, <2>3 DEF LenLow, At, Position, TypeOK, outputs
  <2>5. Statics'
    BY <2>1, <2>3 DEF Statics, HeaderOK
  <2>. QED BY <2>4, <2>5, <1>5 DEF LenLow, outputs, FramesWellFormed
<1>6. CASE LenHigh
  <2>p. Position'
    BY <1>6, ConsumeKeepsPosition DEF LenHigh, At
  <2>b. Byte0 \in Byte /\ Byte0 \in Nat
    BY <1>6, CurrentByte DEF LenHigh, At
  <2>t. recv_msg \in Seq(Byte) /\ len \in Nat
    BY DEF TypeOK
  <2>1. len' \in Nat /\ recv_msg' \in Seq(Byte)
    <3>1. Extends(recv_msg', recv_msg, Byte0)
      BY <1>6, <2>b, <2>t, AppendKeeps DEF LenHigh
    <3>. QED BY <1>6, <2>b, <2>t, <3>1, LenAssumption DEF LenHigh, Extends
  <2>2. TypeOK'
    BY <1>6, <2>1, <2>p DEF LenHigh, At, Position, TypeOK, outputs
  <2>3. /\ Len(recv_msg') = 4
        /\ recv_msg'[1] = HeadLo /\ recv_msg'[2] = HeadHi
        /\ recv_msg'[3] = len /\ recv_msg'[4] = Byte0
    <3>1. /\ Len(recv_msg) = 3 /\ len = recv_msg[3]
          /\ recv_msg[1] = HeadLo /\ recv_msg[2] = HeadHi
      BY <1>6 DEF LenHigh, At, Statics, HeaderOK
    <3>2. recv_msg' = Append(recv_msg, Byte0)
      BY <1>6 DEF LenHigh
    <3>3. Extends(recv_msg', recv_msg, Byte0)
      BY <2>b, <2>t, <3>2, AppendKeeps
    <3>. QED BY <3>1, <3>3 DEF Extends
  <2>4. Declared(recv_msg') = len'
    BY <1>6, <2>3 DEF LenHigh, Declared
  <2>5. Statics'
    <3>1. CASE len' > LenLimit
      BY <1>6, <3>1 DEF LenHigh, TooLong, Statics
    <3>2. CASE ~(len' > LenLimit)
      <4>1. len' <= LenLimit
        BY <3>2, <2>1, LenAssumption
      <4>. QED BY <1>6, <3>2, <4>1, <2>3, <2>4 DEF LenHigh, TooLong, Statics, HeaderOK
    <3>. QED BY <3>1, <3>2
  <2>. QED BY <2>2, <2>5, <1>6 DEF LenHigh, outputs, FramesWellFormed
<1>7. ASSUME NEW s \in {4, 5}, PackType(s) PROVE IInv'
  <2>p. Position'
    BY <1>7, ConsumeKeepsPosition DEF PackType, At
  <2>b. Byte0 \in Byte /\ Byte0 \in Nat
    BY <1>7, CurrentByte DEF PackType, At
  <2>t. recv_msg \in Seq(Byte) /\ len \in Nat
    BY DEF TypeOK
  <2>0. state = s /\ state' = s + 1
    BY <1>7 DEF PackType, At
  <2>e. Extends(recv_msg', recv_msg, Byte0)
    BY <1>7, <2>b, <2>t, AppendKeeps DEF PackType
  <2>1. TypeOK'
    BY <1>7, <2>p, <2>t, <2>e, DecNat DEF Extends, PackType, At, Position, TypeOK, outputs
  <2>2. Len(recv_msg) = s /\ HeaderOK /\ Declared(recv_msg) <= LenLimit
    <3>1. CASE s = 4
      BY <3>1, <2>0 DEF Statics
    <3>2. CASE s = 5
      BY <3>2, <2>0 DEF Statics
    <3>. QED BY <1>7, <3>1, <3>2
  <2>3. /\ Len(recv_msg') = s + 1 /\ HeaderOK'
        /\ Declared(recv_msg') = Declared(recv_msg)
    <3>1. Len(recv_msg) >= 4
      BY <1>7, <2>2
    <3>. QED BY <2>2, <2>e, <3>1 DEF HeaderOK, Extends
  <2>4. len' = Dec(len)
    BY <1>7 DEF PackType
  <2>5. Declared(recv_msg) \in Nat
    BY <2>t, <2>2, DeclaredNat
  <2>6. s = 5 => len' = Body(Declared(recv_msg))
    BY <2>0, <2>4 DEF Statics, Body
  <2>7. s = 4 => len' = Dec(Declared(recv_msg))
    BY <2>0, <2>4 DEF Statics
  <2>8. len' \in Nat
    BY <2>t, <2>4, DecNat
  <2>9. Statics'
    <3>1. CASE s = 4
      BY <3>1, <2>0, <2>2, <2>3, <2>7 DEF Statics
    <3>2. CASE s = 5
      <4>. state' = 6 /\ Len(recv_msg') = 6
        BY <3>2, <2>0, <2>3
      <4>. QED BY <3>2, <2>2, <2>3, <2>6, <2>8 DEF Statics
    <3>. QED BY <3>1, <3>2
  <2>. QED BY <2>1, <2>9, <1>7 DEF PackType, outputs, FramesWellFormed
<1>8. CASE Payload
  <2>p. Position'
    BY <1>8, ConsumeKeepsPosition DEF Payload, At
  <2>b. Byte0 \in Byte /\ Byte0 \in Nat
    BY <1>8, CurrentByte DEF Payload, At
  <2>t. recv_msg \in Seq(Byte) /\ len \in Nat
    BY DEF TypeOK
  <2>1. TypeOK'
    <3>1. CASE len # 0
      <4>1. recv_msg' \in Seq(Byte)
        BY <1>8, <3>1, <2>b, <2>t, AppendKeeps DEF Payload, Extends
      <4>. QED BY <1>8, <3>1, <4>1, <2>p, <2>t, DecNat DEF Payload, At, Position, TypeOK, outputs
    <3>2. CASE len = 0
      BY <1>8, <3>2, <2>p, <2>t, DecNat DEF Payload, At, Position, TypeOK, outputs
    <3>. QED BY <3>1, <3>2
  <2>2. /\ Len(recv_msg) >= 6 /\ HeaderOK /\ Declared(recv_msg) <= LenLimit
        /\ Len(recv_msg) + len = 6 + Body(Declared(recv_msg))
    BY <1>8 DEF Payload, At, Statics
  <2>3. Statics'
    <3>1. CASE len # 0
      <4>1. /\ Len(recv_msg') = Len(recv_msg) + 1 /\ HeaderOK'
            /\ Declared(recv_msg') = Declared(recv_msg)
        <5>1. recv_msg' = Append(recv_msg, Byte0)
          BY <1>8, <3>1 DEF Payload
        <5>2. Extends(recv_msg', recv_msg, Byte0)
          BY <5>1, <2>b, <2>t, AppendKeeps
        <5>. QED BY <5>2, <2>2 DEF Extends, HeaderOK
      <4>2. state' = 6 /\ len' = len - 1
        BY <1>8, <3>1 DEF Payload, At, Dec
      <4>3. Len(recv_msg') + len' = 6 + Body(Declared(recv_msg'))
        <5>1. Declared(recv_msg) \in Nat
          BY <2>t, <2>2, DeclaredNat
        <5>2. Body(Declared(recv_msg)) \in Nat
          BY <5>1, DecNat DEF Body
        <5>3. Len(recv_msg) \in Nat
          BY <2>t, LenProperties
        <5>. QED BY <5>2, <5>3, <4>1, <4>2, <2>2, <2>t
      <4>. QED BY <4>1, <4>2, <4>3, <2>2 DEF Statics
    <3>2. CASE len = 0
      <4>1. state' = 7 /\ recv_msg' = recv_msg
        BY <1>8, <3>2 DEF Payload
      <4>. QED BY <4>1, <3>2, <2>2 DEF Statics, HeaderOK
    <3>. QED BY <3>1, <3>2
  <2>. QED BY <2>1, <2>3, <1>8 DEF Payload, outputs, FramesWellFormed
<1>9. CASE CheckBcc
  <2>p. Position'
    BY <1>9, ConsumeKeepsPosition DEF CheckBcc, At
  <2>b. Byte0 \in Byte /\ Byte0 \in Nat
    BY <1>9, CurrentByte DEF CheckBcc, At
  <2>t. recv_msg \in Seq(Byte) /\ delivered \in Seq(Seq(Byte))
    BY DEF TypeOK
  <2>e. Extends(recv_msg', recv_msg, Byte0)
    BY <1>9, <2>b, <2>t, AppendKeeps DEF CheckBcc
  <2>1. recv_msg' \in Seq(Byte) /\ delivered' \in Seq(Seq(Byte)) /\ comm_restarts' \in Nat
    <3>2. recv_msg' \in Seq(Byte)
      BY <2>e DEF Extends
    <3>3. Append(delivered, recv_msg') \in Seq(Seq(Byte))
      BY <2>t, <3>2, AppendProperties
    <3>4. delivered' \in {delivered, Append(delivered, recv_msg')}
      BY <1>9 DEF CheckBcc, HandOn, outputs
    <3>5. comm_restarts' \in Nat
      BY <1>9 DEF CheckBcc, HandOn, outputs, TypeOK
    <3>. QED BY <2>t, <3>2, <3>3, <3>4, <3>5
  <2>2. TypeOK'
    BY <1>9, <2>1, <2>p DEF CheckBcc, At, Position, TypeOK
  <2>3. Statics'
    BY <1>9 DEF CheckBcc, Statics
  <2>4. Bcc(recv_msg') = 0 => WellFormed(recv_msg')
    <3>1. /\ Len(recv_msg) = 6 + Body(Declared(recv_msg)) /\ Len(recv_msg) >= 4
          /\ HeaderOK /\ Declared(recv_msg) <= LenLimit
      BY <1>9 DEF CheckBcc, At, Statics
    <3>2. Body(Declared(recv_msg)) \in Nat
      BY <2>t, <3>1, DeclaredNat, DecNat DEF Body
    <3>3. /\ Len(recv_msg') = 7 + Body(Declared(recv_msg))
          /\ Declared(recv_msg') = Declared(recv_msg)
          /\ recv_msg'[1] = HeadLo /\ recv_msg'[2] = HeadHi
      BY <3>1, <3>2, <2>e DEF HeaderOK, Extends
    <3>. QED BY <3>1, <3>2, <3>3 DEF WellFormed
  <2>5. FramesWellFormed'
    <3>1. CASE delivered' = delivered
      BY <3>1 DEF FramesWellFormed
    <3>2. CASE delivered' = Append(delivered, recv_msg') /\ Bcc(recv_msg') = 0
      <4>. SUFFICES ASSUME NEW i \in 1..Len(delivered') PROVE WellFormed(delivered'[i])
        BY DEF FramesWellFormed
      <4>1. CASE i \in 1..Len(delivered)
        BY <3>2, <4>1, delivered'[i] = delivered[i] DEF FramesWellFormed
      <4>2. CASE i = Len(delivered) + 1
        BY <3>2, <4>2, <2>1, <2>4, delivered'[i] = recv_msg'
      <4>. QED BY <3>2, <4>1, <4>2, <2>1
    <3>. QED BY <1>9, <3>1, <3>2 DEF CheckBcc, BccFits, HandOn, outputs
  <2>. QED BY <2>2, <2>3, <2>5
<1>10. CASE UNCHANGED vars
  BY <1>10 DEF vars, TypeOK, statics, outputs, Statics, HeaderOK, FramesWellFormed
<1>. QED BY <1>1, <1>2, <1>3, <1>4, <1>5, <1>6, <1>7, <1>8, <1>9, <1>10
         DEF Next, dataProc

\* The statics, the outputs and the position stay within their types
\* (dataProc).
THEOREM TypeCorrect == Spec => []TypeOK
<1>1. IInv => TypeOK
  BY DEF IInv
<1>. QED BY <1>1, InitIInv, NextIInv, PTL DEF Spec

\* Whatever bytes arrive and however reads cut them, every frame handed to
\* tianbotDataProc has the header, a declared length within the limit that its
\* size agrees with, and a check byte that fits (dataProc, cases 0 to 7).
THEOREM DeliveredWellFormed == Spec => []FramesWellFormed
<1>1. IInv => FramesWellFormed
  BY DEF IInv
<1>. QED BY <1>1, InitIInv, NextIInv, PTL DEF Spec

-----------------------------------------------------------------------------
(* What dataProc holds back, and how long a call takes *)

\* With a header under way the statics tell how much is held back.
LEMMA BodyBounded ==
    ASSUME NEW d \in Nat, d >= 2
    PROVE  Body(d) = d - 2
<1>1. Dec(d) = d - 1 /\ Dec(d - 1) = d - 2
  BY DEF Dec
<1>. QED BY <1>1 DEF Body

LEMMA HeldBackBounded == IInv /\ state # 0 => BacklogBounded
<1>. SUFFICES ASSUME IInv, state # 0, Declared(recv_msg) >= 2
              PROVE  Len(recv_msg) <= LenLimit + 5
  BY DEF BacklogBounded
<1>1. /\ state \in 1..7 /\ recv_msg \in Seq(Byte) /\ len \in Nat
      /\ Len(recv_msg) \in Nat /\ LenLimit \in Nat
  BY LenProperties, LenAssumption DEF IInv, TypeOK
<1>2. Statics
  BY DEF IInv
<1>3. PICK n \in Nat : n = Len(recv_msg)
  BY <1>1
<1>4. SUFFICES n <= LenLimit + 5
  BY <1>3
<1>5. CASE state \in 1..5
  <2>1. n \in 1..5
    BY <1>2, <1>3, <1>5 DEF Statics
  <2>. QED BY <1>1, <2>1
<1>6. CASE state \in {6, 7}
  <2>1. PICK d \in Nat : d = Declared(recv_msg)
    <3>1. Len(recv_msg) >= 4
      BY <1>2, <1>6 DEF Statics
    <3>. QED BY <1>1, <3>1, DeclaredNat
  <2>2. d >= 2 /\ d <= LenLimit
    BY <1>2, <1>6, <2>1 DEF Statics
  <2>3. Body(d) = d - 2
    BY <2>2, BodyBounded
  <2>4. n + len = 6 + Body(d) \/ n = 6 + Body(d)
    BY <1>2, <1>3, <1>6, <2>1 DEF Statics
  <2>. QED BY <1>1, <2>2, <2>3, <2>4
<1>. QED BY <1>1, <1>5, <1>6

\* Every step back to state 0 keeps it so.
LEMMA NextBacklog ==
    IInv /\ BacklogBounded /\ [Next]_vars => (state' = 0 => BacklogBounded')
<1>. SUFFICES ASSUME IInv, BacklogBounded, [Next]_vars, state' = 0
              PROVE  BacklogBounded'
  OBVIOUS
<1>1. recv_msg \in Seq(Byte) /\ Len(recv_msg) \in Nat /\ LenLimit \in Nat
  BY LenProperties, LenAssumption DEF IInv, TypeOK
<1>n. LenLimit \in Nat
  BY LenAssumption
<1>2. CASE recv_msg' = recv_msg
  BY <1>2 DEF BacklogBounded, Declared
<1>3. CASE LenHigh
  <2>1. Len(recv_msg) = 3 /\ Byte0 \in Byte
    BY <1>3, CurrentByte DEF LenHigh, At, IInv, Statics
  <2>2. Extends(recv_msg', recv_msg, Byte0)
    BY <1>1, <1>3, <2>1, AppendKeeps DEF LenHigh
  <2>3. Len(recv_msg') = 4
    BY <2>1, <2>2 DEF Extends
  <2>. QED BY <1>n, <2>3 DEF BacklogBounded
<1>4. CASE CheckBcc
  <2>1. /\ Len(recv_msg) = 6 + Body(Declared(recv_msg)) /\ Len(recv_msg) >= 4
        /\ Declared(recv_msg) <= LenLimit /\ Byte0 \in Byte
    BY <1>4, CurrentByte DEF CheckBcc, At, IInv, Statics
  <2>2. Extends(recv_msg', recv_msg, Byte0)
    BY <1>1, <1>4, <2>1, AppendKeeps DEF CheckBcc
  <2>3. Len(recv_msg') = Len(recv_msg) + 1 /\ Declared(recv_msg') = Declared(recv_msg)
    BY <2>1, <2>2 DEF Extends
  <2>4. Declared(recv_msg) \in Nat
    BY <1>1, <2>1, DeclaredNat
  <2>5. CASE Declared(recv_msg) >= 2
    <3>1. Body(Declared(recv_msg)) = Declared(recv_msg) - 2
      BY <2>4, <2>5, BodyBounded
    <3>2. Len(recv_msg) + 1 <= LenLimit + 5
      BY <1>n, <2>1, <2>4, <3>1
    <3>. QED BY <2>3, <3>2 DEF BacklogBounded
  <2>6. CASE ~(Declared(recv_msg) >= 2)
    BY <2>3, <2>6 DEF BacklogBounded
  <2>. QED BY <2>5, <2>6
<1>5. recv_msg' = recv_msg \/ LenHigh \/ CheckBcc
  <2>1. ASSUME SeekHeadLo \/ MatchHeadHi PROVE recv_msg' = recv_msg
    BY <2>1 DEF SeekHeadLo, MatchHeadHi
  <2>2. ASSUME LenLow \/ PackType(4) \/ PackType(5) PROVE FALSE
    BY <2>2 DEF LenLow, PackType
  <2>3. ASSUME Payload PROVE recv_msg' = recv_msg
    BY <2>3 DEF Payload, At
  <2>4. ASSUME NEW n \in 1..Len(stream), Read(n) PROVE recv_msg' = recv_msg
    BY <2>4 DEF Read, statics
  <2>5. ASSUME InitDone \/ UNCHANGED vars PROVE recv_msg' = recv_msg
    BY <2>5 DEF InitDone, vars, statics
  <2>. QED BY <2>1, <2>2, <2>3, <2>4, <2>5 DEF Next, dataProc
<1>. QED BY <1>2, <1>3, <1>4, <1>5

\* Whatever arrives, also when a length field is damaged, dataProc looks for a
\* header again after the bytes of one frame of the largest accepted length at
\* most, unless the length is 0 or 1 (dataProc, cases 3 to 7).
THEOREM HoldsBackOneFrame == Spec => []BacklogBounded
<1>1. Init => BacklogBounded
  BY EmptySeq DEF Init, BacklogBounded
<1>2. IInv /\ (state = 0 => BacklogBounded) => BacklogBounded
  BY HeldBackBounded
<1>3. (IInv /\ BacklogBounded /\ [Next]_vars => (state = 0 => BacklogBounded)')
  BY NextBacklog
<1>. QED BY <1>1, <1>2, <1>3, InitIInv, NextIInv, PTL DEF Spec

LEMMA NextTurns ==
    TypeOK /\ [Next]_vars /\ data_len # 0
       => /\ TurnsLeft' \in 0 .. TurnsLeft
          /\ dataProc => TurnsLeft' < TurnsLeft
<1>. SUFFICES ASSUME TypeOK, [Next]_vars, data_len # 0
              PROVE  /\ TurnsLeft' \in 0 .. TurnsLeft
                     /\ dataProc => TurnsLeft' < TurnsLeft
  OBVIOUS
<1>1. data_len \in Nat \ {0} /\ state \in 0..7
  <2>1. Len(stream) + 1 - p \in Int
    BY StreamsAssumption, LenProperties DEF TypeOK
  <2>. QED BY <2>1 DEF TypeOK
<1>2. CASE data_len' = data_len - 1
  <2>1. PICK n \in Nat : n = data_len - 1 /\ data_len' = n
    BY <1>1, <1>2
  <2>2. TurnsLeft' \in {2 * n, 2 * n + 1}
    BY <1>2, <2>1 DEF TurnsLeft
  <2>3. TurnsLeft \in {2 * n + 2, 2 * n + 3}
    BY <1>1, <2>1 DEF TurnsLeft
  <2>. QED BY <2>1, <2>2, <2>3
<1>3. CASE data_len' = data_len /\ state \in {1, 3, 6} /\ state' \in {0, 7}
  <2>1. TurnsLeft = 2 * data_len + 1 /\ TurnsLeft' = 2 * data_len
    BY <1>1, <1>3 DEF TurnsLeft
  <2>. QED BY <1>1, <2>1
<1>4. CASE data_len' = data_len /\ state' = state /\ ~dataProc
  <2>1. TurnsLeft' = TurnsLeft /\ TurnsLeft \in Nat
    BY <1>1, <1>4 DEF TurnsLeft
  <2>. QED BY <1>4, <2>1
<1>5. ASSUME dataProc
      PROVE  \/ data_len' = data_len - 1
             \/ data_len' = data_len /\ state \in {1, 3, 6} /\ state' \in {0, 7}
  BY <1>5 DEF dataProc, At, SeekHeadLo, MatchHeadHi, LenLow, LenHigh, PackType,
              Payload, CheckBcc, Consume, Stay
<1>6. ASSUME ~dataProc PROVE data_len' = data_len /\ state' = state
  BY <1>6 DEF Next, Read, InitDone, statics, vars
<1>. QED BY <1>2, <1>3, <1>4, <1>5, <1>6

\* A call of dataProc with n bytes takes 2n + 1 turns of its loop at most:
\* each uses up a byte or leaves it to a case that does (dataProc).
THEOREM CallsAreBounded == Spec => TurnsCountDown
<1>1. IInv /\ [Next]_vars =>
         [data_len # 0 => /\ TurnsLeft' \in 0 .. TurnsLeft
                          /\ dataProc => TurnsLeft' < TurnsLeft]_vars
  BY NextTurns DEF IInv
<1>. QED BY <1>1, InitIInv, NextIInv, PTL DEF Spec, TurnsCountDown

-----------------------------------------------------------------------------
(* Induction over the numbers, as a fact about sets. *)

LEMMA NatWellFounded == IsWellFoundedOn({ss \in Nat \X Nat : ss[1] < ss[2]}, Nat)
BY NatLessThanWellFounded DEF OpToRel

LEMMA SetInduction ==
    ASSUME NEW S, 0 \in S, \A n \in Nat : n \in S => n + 1 \in S
    PROVE  Nat \subseteq S
<1>. DEFINE T == Nat \ S
           R == {ss \in Nat \X Nat : ss[1] < ss[2]}
<1>. SUFFICES ASSUME T # {} PROVE FALSE
  OBVIOUS
<1>1. IsWellFoundedOn(R, Nat)
  BY NatWellFounded
<1>2. PICK x \in T : \A y \in T : ~ (<<y, x>> \in R)
  <2>1. T \subseteq Nat
    OBVIOUS
  <2>. HIDE DEF R, T
  <2>. QED BY <1>1, <2>1, WFMin, Zenon
<1>3. x \in Nat /\ x # 0 /\ x - 1 \in Nat
  OBVIOUS
<1>4. x - 1 \in T
  BY <1>3
<1>5. <<x - 1, x>> \in R
  BY <1>3
<1>. QED BY <1>2, <1>4, <1>5

\* From a place that four bytes follow the scan goes on to a later one.
LEMMA NextIsLater ==
    ASSUME NEW s \in Seq(Byte), NEW i \in Nat \ {0}, i + 3 <= Len(s)
    PROVE  /\ DeclaredAt(s, i) \in Nat
           /\ NextAt(s, i) \in Nat /\ NextAt(s, i) > i
<1>1. i + 2 \in 1..Len(s) /\ i + 3 \in 1..Len(s)
  BY LenProperties
<1>2. s[i + 2] \in Nat /\ s[i + 3] \in Nat
  BY <1>1, ElementOfSeq, ByteAssumption
<1>3. DeclaredAt(s, i) \in Nat
  BY <1>2, LenAssumption DEF DeclaredAt
<1>4. Body(DeclaredAt(s, i)) \in Nat
  BY <1>3, DecNat DEF Body
<1>. QED BY <1>3, <1>4 DEF NextAt

\* The scan of s exists: it is built from the last place to the first.
ScanStep(s, g, i) == IF Ends(s, i) THEN << >> ELSE FoundAt(s, i) \o g[NextAt(s, i)]

LEMMA ScanStepLooksAhead ==
    ASSUME NEW s \in Seq(Byte), NEW i \in 1..Len(s) + 4, NEW g, NEW h,
           \A j \in i + 1..Len(s) + 4 : g[j] = h[j]
    PROVE  ScanStep(s, g, i) = ScanStep(s, h, i)
<1>1. Len(s) \in Nat /\ i \in Nat \ {0}
  BY LenProperties
<1>2. ~Ends(s, i) => NextAt(s, i) \in i + 1..Len(s) + 4
  BY <1>1, NextIsLater DEF Ends
<1>. QED BY <1>2 DEF ScanStep

LEMMA ScanExists ==
    ASSUME NEW s \in Seq(Byte)
    PROVE  \E g : g = [i \in 1..Len(s) + 4 |-> ScanStep(s, g, i)]
<1>. DEFINE D == 1..Len(s) + 4
            Good(k, g) == \A i \in D : i > Len(s) + 4 - k => g[i] = ScanStep(s, g, i)
            S == {k \in Nat : k <= Len(s) + 4 =>
                                \E g : g = [i \in D |-> g[i]] /\ Good(k, g)}
<1>0. Len(s) \in Nat
  BY LenProperties
<1>1. 0 \in S
  <2>. DEFINE g == [i \in D |-> << >>]
  <2>1. g = [i \in D |-> g[i]]
    OBVIOUS
  <2>2. Good(0, g)
    BY <1>0
  <2>. QED BY <2>1, <2>2
<1>2. ASSUME NEW k \in Nat, k \in S PROVE k + 1 \in S
  <2>. SUFFICES ASSUME k + 1 <= Len(s) + 4
                PROVE  \E h : h = [i \in D |-> h[i]] /\ Good(k + 1, h)
    OBVIOUS
  <2>1. PICK g : g = [i \in D |-> g[i]] /\ Good(k, g)
    BY <1>0, <1>2
  <2>. DEFINE m == Len(s) + 4 - k
              h == [i \in D |-> IF i = m THEN ScanStep(s, g, m) ELSE g[i]]
  <2>2. m \in D
    BY <1>0
  <2>3. h = [i \in D |-> h[i]]
    OBVIOUS
  <2>4. ASSUME NEW i \in D, i > Len(s) + 4 - (k + 1) PROVE h[i] = ScanStep(s, h, i)
    <3>1. i \in Nat /\ i >= m
      BY <1>0, <2>4
    <3>2. \A j \in i + 1..Len(s) + 4 : j \in D /\ j # m
      BY <3>1, <1>0
    <3>3. \A j \in i + 1..Len(s) + 4 : h[j] = g[j]
      BY <3>2
    <3>4. ScanStep(s, h, i) = ScanStep(s, g, i)
      <4>. HIDE DEF h, m
      <4>. QED BY <3>3, ScanStepLooksAhead
    <3>5. h[i] = ScanStep(s, g, i)
      <4>1. CASE i = m
        BY <4>1
      <4>2. CASE i # m
        <5>1. i > Len(s) + 4 - k
          BY <3>1, <4>2, <1>0
        <5>2. g[i] = ScanStep(s, g, i)
          BY <2>1, <5>1
        <5>. QED BY <5>2, <4>2
      <4>. QED BY <4>1, <4>2
    <3>. QED BY <3>4, <3>5
  <2>. QED BY <2>3, <2>4
<1>3. Nat \subseteq S
  <2>. HIDE DEF S
  <2>. QED BY <1>1, <1>2, SetInduction
<1>4. PICK g : g = [i \in D |-> g[i]] /\ Good(Len(s) + 4, g)
  <2>1. PICK n \in Nat : n = Len(s) + 4
    BY <1>0
  <2>2. n \in S
    <3>. HIDE DEF S
    <3>. QED BY <1>3
  <2>3. n <= Len(s) + 4
    BY <1>0, <2>1
  <2>4. \E g : g = [i \in D |-> g[i]] /\ Good(n, g)
    <3>. HIDE DEF D, Good
    <3>. QED BY <2>2, <2>3
  <2>. HIDE DEF D, S, Good
  <2>. QED BY <2>1, <2>4
<1>5. \A i \in D : g[i] = ScanStep(s, g, i)
  BY <1>0, <1>4
<1>6. g = [i \in D |-> ScanStep(s, g, i)]
  <2>. HIDE DEF D, S, Good
  <2>. QED BY <1>4, <1>5
<1>. QED BY <1>6

LEMMA ScanUnfolds ==
    ASSUME NEW s \in Seq(Byte), NEW i \in 1..Len(s) + 4
    PROVE  Scan(s)[i] = ScanStep(s, Scan(s), i)
<1>1. Scan(s) = CHOOSE g : g = [j \in 1..Len(s) + 4 |-> ScanStep(s, g, j)]
  BY DEF Scan, ScanStep
<1>2. Scan(s) = [j \in 1..Len(s) + 4 |-> ScanStep(s, Scan(s), j)]
  BY <1>1, ScanExists
<1>. QED BY <1>2

LEMMA FoundTyped ==
    ASSUME NEW s \in Seq(Byte), NEW i \in Nat \ {0}, ~Ends(s, i)
    PROVE  FoundAt(s, i) \in Seq(Seq(Byte))
<1>1. CASE HasFrame(s, i)
  <2>. DEFINE last == i + 6 + Body(DeclaredAt(s, i))
  <2>1. Len(s) \in Nat /\ i + 3 <= Len(s)
    BY LenProperties DEF Ends
  <2>2. Body(DeclaredAt(s, i)) \in Nat
    BY <2>1, NextIsLater, DecNat DEF Body
  <2>3. last \in Int /\ last <= Len(s)
    BY <1>1, <2>1, <2>2 DEF Ends, NextAt
  <2>4. \A j \in i..last : s[j] \in Byte
    BY <2>1, <2>3, ElementOfSeq
  <2>5. SubSeq(s, i, last) \in Seq(Byte)
    <3>. HIDE DEF last
    <3>. QED BY <2>3, <2>4, SubSeqProperties
  <2>. QED BY <2>5, EmptySeq DEF FoundAt, FrameAt
<1>2. CASE ~HasFrame(s, i)
  BY <1>2, EmptySeq DEF FoundAt
<1>. QED BY <1>1, <1>2

LEMMA ScanTyped ==
    ASSUME NEW s \in Seq(Byte)
    PROVE  \A i \in 1..Len(s) + 4 : Scan(s)[i] \in Seq(Seq(Byte))
<1>. DEFINE S == {k \in Nat : \A i \in 1..Len(s) + 4 :
                     i > Len(s) + 4 - k => Scan(s)[i] \in Seq(Seq(Byte))}
<1>0. Len(s) \in Nat
  BY LenProperties
<1>1. 0 \in S
  BY <1>0
<1>2. ASSUME NEW k \in Nat, k \in S PROVE k + 1 \in S
  <2>. SUFFICES ASSUME NEW i \in 1..Len(s) + 4, i > Len(s) + 4 - (k + 1)
                PROVE  Scan(s)[i] \in Seq(Seq(Byte))
    OBVIOUS
  <2>1. Scan(s)[i] = ScanStep(s, Scan(s), i)
    BY ScanUnfolds
  <2>2. CASE Ends(s, i)
    BY <2>1, <2>2, EmptySeq DEF ScanStep
  <2>3. CASE ~Ends(s, i)
    <3>1. i \in Nat \ {0} /\ i + 3 <= Len(s)
      BY <1>0, <2>3 DEF Ends
    <3>2. NextAt(s, i) \in 1..Len(s) + 4 /\ NextAt(s, i) > Len(s) + 4 - k
      BY <1>0, <2>3, <3>1, NextIsLater DEF Ends
    <3>3. Scan(s)[NextAt(s, i)] \in Seq(Seq(Byte))
      BY <1>2, <3>2
    <3>4. FoundAt(s, i) \in Seq(Seq(Byte))
      BY <2>3, <3>1, FoundTyped
    <3>. QED BY <2>1, <2>3, <3>3, <3>4, ConcatProperties DEF ScanStep
  <2>. QED BY <2>2, <2>3
<1>3. Nat \subseteq S
  <2>. HIDE DEF S
  <2>. QED BY <1>1, <1>2, SetInduction
<1>4. Len(s) + 4 \in S
  BY <1>0, <1>3
<1>. QED BY <1>0, <1>4

\* What IsSuffix says, element by element.
LEMMA SuffixMeaning ==
    ASSUME NEW S, NEW d \in Seq(S), NEW a \in Seq(S)
    PROVE  IsSuffix(d, a) <=> /\ Len(d) <= Len(a)
                              /\ \A i \in 1..Len(d) : d[i] = a[Len(a) - Len(d) + i]
<1>1. Len(d) \in Nat /\ Len(a) \in Nat
  BY LenProperties
<1>2. /\ Reverse(d) \in Seq(S) /\ Len(Reverse(d)) = Len(d)
      /\ Reverse(a) \in Seq(S) /\ Len(Reverse(a)) = Len(a)
      /\ \A i \in 1..Len(d) : Reverse(d)[i] = d[Len(d) - i + 1]
      /\ \A i \in 1..Len(a) : Reverse(a)[i] = a[Len(a) - i + 1]
  BY <1>1 DEF Reverse
<1>3. ASSUME Len(d) <= Len(a)
      PROVE  SubSeq(Reverse(d), 1, Len(d)) = SubSeq(Reverse(a), 1, Len(d))
               <=> \A i \in 1..Len(d) : Reverse(d)[i] = Reverse(a)[i]
  BY <1>1, <1>2, <1>3
<1>4. ASSUME Len(d) <= Len(a)
      PROVE  (\A i \in 1..Len(d) : Reverse(d)[i] = Reverse(a)[i])
               <=> \A i \in 1..Len(d) : d[i] = a[Len(a) - Len(d) + i]
  <2>1. ASSUME \A i \in 1..Len(d) : Reverse(d)[i] = Reverse(a)[i], NEW i \in 1..Len(d)
        PROVE  d[i] = a[Len(a) - Len(d) + i]
    <3>1. Len(d) - i + 1 \in 1..Len(d) /\ Len(d) - i + 1 \in 1..Len(a)
      BY <1>1, <1>4
    <3>2. Reverse(d)[Len(d) - i + 1] = Reverse(a)[Len(d) - i + 1]
      BY <2>1, <3>1
    <3>3. /\ Len(d) - (Len(d) - i + 1) + 1 = i
          /\ Len(a) - (Len(d) - i + 1) + 1 = Len(a) - Len(d) + i
      BY <1>1
    <3>. QED BY <1>2, <3>1, <3>2, <3>3
  <2>2. ASSUME \A i \in 1..Len(d) : d[i] = a[Len(a) - Len(d) + i], NEW i \in 1..Len(d)
        PROVE  Reverse(d)[i] = Reverse(a)[i]
    <3>1. Len(d) - i + 1 \in 1..Len(d) /\ i \in 1..Len(a)
      BY <1>1, <1>4
    <3>2. d[Len(d) - i + 1] = a[Len(a) - Len(d) + (Len(d) - i + 1)]
      BY <2>2, <3>1
    <3>3. Len(a) - Len(d) + (Len(d) - i + 1) = Len(a) - i + 1
      BY <1>1
    <3>4. Reverse(d)[i] = d[Len(d) - i + 1] /\ Reverse(a)[i] = a[Len(a) - i + 1]
      BY <1>2, <3>1
    <3>. QED BY <3>2, <3>3, <3>4
  <2>. QED BY <2>1, <2>2
<1>. QED BY <1>2, <1>3, <1>4 DEF IsSuffix, IsPrefix

LEMMA EmptyIsSuffix ==
    ASSUME NEW S, NEW d \in Seq(S), NEW a \in Seq(S), Len(d) = 0
    PROVE  IsSuffix(d, a)
<1>1. Len(a) \in Nat
  BY LenProperties
<1>2. Len(d) <= Len(a) /\ 1..Len(d) = {}
  BY <1>1
<1>. QED BY <1>2, SuffixMeaning

LEMMA SuffixGrows ==
    ASSUME NEW S, NEW d \in Seq(S), NEW a \in Seq(S), NEW x \in S, IsSuffix(d, a)
    PROVE  IsSuffix(Append(d, x), Append(a, x))
<1>1. /\ Len(d) \in Nat /\ Len(a) \in Nat /\ Len(d) <= Len(a)
      /\ \A i \in 1..Len(d) : d[i] = a[Len(a) - Len(d) + i]
  BY LenProperties, SuffixMeaning
<1>2. /\ Append(d, x) \in Seq(S) /\ Len(Append(d, x)) = Len(d) + 1
      /\ Append(a, x) \in Seq(S) /\ Len(Append(a, x)) = Len(a) + 1
      /\ Append(d, x)[Len(d) + 1] = x /\ Append(a, x)[Len(a) + 1] = x
      /\ \A i \in 1..Len(d) : Append(d, x)[i] = d[i]
      /\ \A i \in 1..Len(a) : Append(a, x)[i] = a[i]
  BY AppendProperties
<1>. DEFINE dd == Append(d, x)
            aa == Append(a, x)
<1>. HIDE DEF dd, aa
<1>3. \A i \in 1..Len(dd) : dd[i] = aa[Len(aa) - Len(dd) + i]
  <2>. SUFFICES ASSUME NEW i \in 1..Len(dd) PROVE dd[i] = aa[Len(aa) - Len(dd) + i]
    OBVIOUS
  <2>1. CASE i = Len(d) + 1
    BY <1>1, <1>2, <2>1 DEF dd, aa
  <2>2. CASE i \in 1..Len(d)
    <3>1. Len(a) - Len(d) + i \in 1..Len(a)
      BY <1>1, <2>2
    <3>2. Len(aa) - Len(dd) + i = Len(a) - Len(d) + i
      BY <1>1, <1>2, <2>2 DEF dd, aa
    <3>. QED BY <1>1, <1>2, <2>2, <3>1, <3>2 DEF dd, aa
  <2>. QED BY <1>1, <1>2, <2>1, <2>2 DEF dd
<1>4. Len(dd) <= Len(aa) /\ dd \in Seq(S) /\ aa \in Seq(S)
  BY <1>1, <1>2 DEF dd, aa
<1>. QED BY <1>3, <1>4, SuffixMeaning DEF dd, aa

-----------------------------------------------------------------------------
\* Where the frame begins that the statics hold a part of.
Start == IF state = 0 THEN p ELSE p - Len(recv_msg)

Held == /\ Start \in 1..p
        /\ \A j \in 1..Len(recv_msg) : state # 0 => recv_msg[j] = stream[Start + j - 1]

Prefix(k) == SubSeq(stream, 1, k)

\* The parts of the stream that hold what has been read.
Parts == {k \in 0..Len(stream) : k + 1 >= p}

\* Whichever of them is taken for the whole, its frames are those found so far
\* and those that begin at Start or later.
Agrees(all) == \A k \in Parts :
                   Frames(Prefix(k)) = all \o Scan(Prefix(k))[Start]

History == \E all \in Seq(Seq(Byte)) : /\ comm_restarts = Len(all)
                                       /\ IsSuffix(delivered, all)
                                       /\ Agrees(all)

SInv == /\ IInv
        /\ Held
        /\ initDone_ \/ delivered = << >>
        /\ History

LEMMA StreamTyped ==
    ASSUME TypeOK
    PROVE  /\ stream \in Seq(Byte) /\ Len(stream) \in Nat
           /\ p \in Nat \ {0} /\ p <= Len(stream) + 1
<1>1. stream \in Seq(Byte) /\ Len(stream) \in Nat
  BY StreamsAssumption, LenProperties DEF TypeOK
<1>. QED BY <1>1 DEF TypeOK

LEMMA PrefixProperties ==
    ASSUME TypeOK, NEW k \in 0..Len(stream)
    PROVE  /\ Prefix(k) \in Seq(Byte)
           /\ Len(Prefix(k)) = k
           /\ \A i \in 1..k : Prefix(k)[i] = stream[i]
<1>1. stream \in Seq(Byte) /\ Len(stream) \in Nat
  BY StreamTyped
<1>2. \A i \in 1..k : stream[i] \in Byte
  BY <1>1, ElementOfSeq
<1>. QED BY <1>1, <1>2, SubSeqProperties DEF Prefix

\* The step looks at the byte at p or leaves it, and the scan gets past the
\* frames f when the beginning of the current one moves on.
Step == stream' = stream /\ (p' = p \/ p' = p + 1)

Passes(f) == \A k \in Parts' :
                 Scan(Prefix(k))[Start] = f \o Scan(Prefix(k))[Start']

\* What is read after a step has been read before it, or is the byte at p.
LEMMA Ahead ==
    ASSUME SInv, Step, NEW k \in Parts'
    PROVE  /\ k \in Parts
           /\ Prefix(k) \in Seq(Byte) /\ Len(Prefix(k)) = k
           /\ \A i \in 1..k : Prefix(k)[i] = stream[i]
<1>1. /\ TypeOK
      /\ p \in Nat \ {0} /\ Len(stream) \in Nat
  BY StreamTyped DEF SInv, IInv
<1>2. p' \in Nat /\ p' >= p /\ stream' = stream
  BY <1>1 DEF Step
<1>3. k \in Parts /\ k \in 0..Len(stream)
  BY <1>1, <1>2 DEF Parts
<1>. QED BY <1>1, <1>3, PrefixProperties

LEMMA AheadTyped ==
    ASSUME SInv, Step, Start' \in 1..p', NEW k \in Parts'
    PROVE  Scan(Prefix(k))[Start'] \in Seq(Seq(Byte))
<1>1. Prefix(k) \in Seq(Byte) /\ Len(Prefix(k)) = k
  BY Ahead
<1>2. p \in Nat \ {0} /\ Len(stream) \in Nat
  BY StreamTyped DEF SInv, IInv
<1>3. p' \in Nat /\ stream' = stream
  BY <1>2 DEF Step
<1>4. k \in Nat /\ k + 1 >= p'
  BY <1>2, <1>3 DEF Parts
<1>5. Start' \in 1..k + 4
  BY <1>3, <1>4
<1>. QED BY <1>1, <1>5, ScanTyped

\* A step that leaves the beginning of the current frame where it is.
LEMMA SameStart ==
    ASSUME SInv, Step, outputs' = outputs, Start' = Start
    PROVE  History'
<1>1. PICK all \in Seq(Seq(Byte)) : /\ comm_restarts = Len(all)
                                    /\ IsSuffix(delivered, all)
                                    /\ Agrees(all)
  BY DEF SInv, History
<1>2. Agrees(all)'
  <2>. SUFFICES ASSUME NEW k \in Parts'
                PROVE  Frames(Prefix(k)) = all \o Scan(Prefix(k))[Start]
    BY DEF Agrees, Prefix, Step
  <2>1. k \in Parts
    BY Ahead
  <2>. QED BY <1>1, <2>1 DEF Agrees
<1>. QED BY <1>1, <1>2 DEF History, outputs

\* Frames delivered one after another.
LEMMA FramesAssociate ==
    ASSUME NEW a \in Seq(Seq(Byte)), NEW b \in Seq(Seq(Byte)), NEW c \in Seq(Seq(Byte))
    PROVE  (a \o b) \o c = a \o (b \o c)
OBVIOUS

\* A slice between two places of a string of bytes.
LEMMA BytesBetween ==
    ASSUME NEW s \in Seq(Byte), NEW a \in Int, NEW b \in Int, a <= b,
           \A i \in a..b : s[i] \in Byte
    PROVE  /\ SubSeq(s, a, b) \in Seq(Byte)
           /\ Len(SubSeq(s, a, b)) = b - a + 1
           /\ \A i \in 1..b - a + 1 : SubSeq(s, a, b)[i] = s[a + i - 1]
BY SubSeqProperties

\* A step that moves it on, past the frames f.
LEMMA Advance ==
    ASSUME SInv, Step, Start' \in 1..p', NEW f \in Seq(Seq(Byte)), Passes(f),
           NEW all \in Seq(Seq(Byte)), Agrees(all)
    PROVE  Agrees(all \o f)'
<1>. SUFFICES ASSUME NEW k \in Parts'
              PROVE  Frames(Prefix(k)) = (all \o f) \o Scan(Prefix(k))[Start']
  BY DEF Agrees, Prefix, Step
<1>1. k \in Parts
  BY Ahead
<1>2. PICK rest \in Seq(Seq(Byte)) : rest = Scan(Prefix(k))[Start']
  BY AheadTyped
<1>3. Frames(Prefix(k)) = all \o (f \o Scan(Prefix(k))[Start'])
  BY <1>1 DEF Agrees, Passes
<1>4. (all \o f) \o rest = all \o (f \o rest)
  BY FramesAssociate, Zenon
<1>. QED BY <1>2, <1>3, <1>4, Zenon

\* Past nothing.
LEMMA Skip ==
    ASSUME SInv, Step, outputs' = outputs, Start' \in 1..p',
           \A k \in Parts' :
               Scan(Prefix(k))[Start] = Scan(Prefix(k))[Start']
    PROVE  History'
<1>1. PICK all \in Seq(Seq(Byte)) : /\ comm_restarts = Len(all)
                                    /\ IsSuffix(delivered, all)
                                    /\ Agrees(all)
  BY DEF SInv, History
<1>2. Passes(<< >>)
  <2>. SUFFICES ASSUME NEW k \in Parts'
                PROVE  Scan(Prefix(k))[Start'] = << >> \o Scan(Prefix(k))[Start']
    BY DEF Passes
  <2>1. Scan(Prefix(k))[Start'] \in Seq(Seq(Byte))
    BY AheadTyped
  <2>. QED BY <2>1, ConcatEmptySeq
<1>3. << >> \in Seq(Seq(Byte)) /\ all \o << >> = all
  BY ConcatEmptySeq, EmptySeq
<1>4. Agrees(all \o << >>)'
  BY <1>1, <1>2, <1>3, Advance
<1>. QED BY <1>1, <1>3, <1>4 DEF History, outputs

LEMMA InitSInv == Init => SInv
<1>. SUFFICES ASSUME Init PROVE SInv
  OBVIOUS
<1>1. IInv
  BY InitIInv
<1>2. /\ p = 1 /\ state = 0 /\ recv_msg = << >>
      /\ comm_restarts = 0 /\ delivered = << >>
  BY DEF Init
<1>3. Held
  BY <1>2 DEF Held, Start
<1>4. History
  <2>1. << >> \in Seq(Seq(Byte)) /\ Len(<< >>) = 0
    BY EmptySeq
  <2>2. IsSuffix(<< >>, << >>)
    BY <2>1, EmptyIsSuffix
  <2>3. Agrees(<< >>)
    <3>. SUFFICES ASSUME NEW k \in Parts
                  PROVE  Frames(Prefix(k)) = << >> \o Scan(Prefix(k))[Start]
      BY DEF Agrees
    <3>1. TypeOK /\ k \in 0..Len(stream) /\ Len(stream) \in Nat /\ Start = 1
      BY <1>1, <1>2, StreamTyped DEF IInv, Parts, Start
    <3>2. Prefix(k) \in Seq(Byte) /\ 1 \in 1..Len(Prefix(k)) + 4
      BY <3>1, PrefixProperties
    <3>3. Scan(Prefix(k))[1] \in Seq(Seq(Byte))
      BY <3>2, ScanTyped
    <3>. QED BY <3>1, <3>3, ConcatEmptySeq DEF Frames
  <2>. QED BY <1>2, <2>1, <2>2, <2>3 DEF History
<1>. QED BY <1>1, <1>2, <1>3, <1>4 DEF SInv

\* The frame in the statics grows by the byte at p, or does not.
LEMMA HeldGrows ==
    ASSUME SInv, data_len # 0, state # 0, state' # 0, stream' = stream,
           recv_msg' = Append(recv_msg, Byte0), p' = p + 1
    PROVE  Held' /\ Start' = Start
<1>1. /\ TypeOK /\ recv_msg \in Seq(Byte) /\ Len(recv_msg) \in Nat
      /\ p \in Nat \ {0}
  BY StreamTyped, LenProperties DEF SInv, IInv, TypeOK
<1>2. Byte0 \in Byte
  BY <1>1, CurrentByte
<1>3. /\ Len(recv_msg') = Len(recv_msg) + 1
      /\ recv_msg'[Len(recv_msg) + 1] = Byte0
      /\ \A j \in 1..Len(recv_msg) : recv_msg'[j] = recv_msg[j]
  BY <1>1, <1>2, AppendProperties
<1>4. Start = p - Len(recv_msg) /\ Start' = Start
  BY <1>1, <1>3 DEF Start
<1>5. /\ Start \in 1..p
      /\ \A j \in 1..Len(recv_msg) : recv_msg[j] = stream[Start + j - 1]
  BY DEF SInv, Held
<1>6. recv_msg'[Len(recv_msg) + 1] = stream[Start + (Len(recv_msg) + 1) - 1]
  <2>1. Start + (Len(recv_msg) + 1) - 1 = p
    BY <1>1, <1>4
  <2>. QED BY <2>1, <1>3 DEF Byte0
<1>7. \A j \in 1..Len(recv_msg) + 1 : recv_msg'[j] = stream[Start + j - 1]
  <2>. SUFFICES ASSUME NEW j \in 1..Len(recv_msg) + 1
                PROVE  recv_msg'[j] = stream[Start + j - 1]
    OBVIOUS
  <2>1. j \in 1..Len(recv_msg) \/ j = Len(recv_msg) + 1
    BY <1>1
  <2>. QED BY <2>1, <1>3, <1>5, <1>6
<1>8. Start' \in 1..p'
  BY <1>1, <1>4, <1>5
<1>. QED BY <1>3, <1>4, <1>7, <1>8 DEF Held

LEMMA HeldStays ==
    ASSUME SInv, stream' = stream, p' = p, recv_msg' = recv_msg,
           (state' = 0) <=> (state = 0)
    PROVE  Held' /\ Start' = Start
BY DEF SInv, Held, Start

LEMMA HeldEnds ==
    ASSUME SInv, Step, state' = 0
    PROVE  Held' /\ Start' = p'
<1>1. Start' = p' /\ p' \in 1..p'
  BY StreamTyped DEF Start, Step, SInv, IInv
<1>. QED BY <1>1 DEF Held

-----------------------------------------------------------------------------
\* The three ways on of the scan; short of four bytes it finds nothing either
\* way.
LEMMA NothingLeft ==
    ASSUME NEW s \in Seq(Byte), NEW i \in 1..Len(s) + 4, i + 3 > Len(s)
    PROVE  Scan(s)[i] = << >>
BY ScanUnfolds DEF ScanStep, Ends

LEMMA GoesOn ==
    ASSUME NEW s \in Seq(Byte), NEW i \in 1..Len(s) + 1, NEW j \in 1..Len(s) + 4,
           i <= j,
           i + 3 <= Len(s) => /\ NextAt(s, i) = j /\ j <= Len(s) + 1
                              /\ FoundAt(s, i) = << >>
    PROVE  Scan(s)[i] = Scan(s)[j]
<1>0. Len(s) \in Nat
  BY LenProperties
<1>1. i \in 1..Len(s) + 4
  BY <1>0
<1>2. CASE i + 3 > Len(s)
  <2>1. j + 3 > Len(s)
    BY <1>0, <1>2
  <2>. QED BY <1>1, <1>2, <2>1, NothingLeft
<1>3. CASE i + 3 <= Len(s)
  <2>1. ~Ends(s, i)
    BY <1>0, <1>3 DEF Ends
  <2>2. Scan(s)[i] = << >> \o Scan(s)[j]
    BY <1>1, <1>3, <2>1, ScanUnfolds DEF ScanStep
  <2>3. Scan(s)[j] \in Seq(Seq(Byte))
    BY ScanTyped
  <2>. QED BY <2>2, <2>3, ConcatEmptySeq
<1>. QED BY <1>0, <1>2, <1>3

LEMMA NoHeader ==
    ASSUME NEW s \in Seq(Byte), NEW i \in 1..Len(s) + 1,
           i + 3 <= Len(s) => ~HeaderAt(s, i)
    PROVE  Scan(s)[i] = Scan(s)[i + 1]
<1>1. Len(s) \in Nat
  BY LenProperties
<1>2. i + 3 <= Len(s) => NextAt(s, i) = i + 1 /\ FoundAt(s, i) = << >>
  BY DEF NextAt, FoundAt, HasFrame
<1>3. /\ i + 1 \in 1..Len(s) + 4 /\ i <= i + 1
      /\ i + 3 <= Len(s) => i + 1 <= Len(s) + 1
  BY <1>1
<1>. QED BY <1>2, <1>3, GoesOn

LEMMA HeaderTooLong ==
    ASSUME NEW s \in Seq(Byte), NEW i \in 1..Len(s) + 1,
           i + 3 <= Len(s) => HeaderAt(s, i) /\ ~(DeclaredAt(s, i) <= LenLimit)
    PROVE  Scan(s)[i] = Scan(s)[i + 3]
<1>1. Len(s) \in Nat
  BY LenProperties
<1>2. i + 3 <= Len(s) => NextAt(s, i) = i + 3 /\ FoundAt(s, i) = << >>
  BY DEF NextAt, FoundAt, HasFrame
<1>3. /\ i + 3 \in 1..Len(s) + 4 /\ i <= i + 3
      /\ i + 3 <= Len(s) => i + 3 <= Len(s) + 1
  BY <1>1
<1>. QED BY <1>2, <1>3, GoesOn

LEMMA WholeFrame ==
    ASSUME NEW s \in Seq(Byte), NEW i \in 1..Len(s), i + 3 <= Len(s), HasFrame(s, i),
           i + 6 + Body(DeclaredAt(s, i)) <= Len(s)
    PROVE  Scan(s)[i] = FoundAt(s, i) \o Scan(s)[i + 7 + Body(DeclaredAt(s, i))]
<1>1. Len(s) \in Nat
  BY LenProperties
<1>2. DeclaredAt(s, i) \in Nat
  BY <1>1, NextIsLater
<1>3. Body(DeclaredAt(s, i)) \in Nat
  BY <1>2, DecNat DEF Body
<1>4. NextAt(s, i) = i + 7 + Body(DeclaredAt(s, i))
  BY DEF NextAt
<1>5. ~Ends(s, i)
  BY <1>1, <1>3, <1>4 DEF Ends
<1>6. i \in 1..Len(s) + 4
  BY <1>1
<1>7. Scan(s)[i] = ScanStep(s, Scan(s), i)
  BY <1>6, ScanUnfolds
<1>. QED BY <1>4, <1>5, <1>7 DEF ScanStep

-----------------------------------------------------------------------------
\* What the statics hold is what any part of the stream has from Start on.
LEMMA KnownBytes ==
    ASSUME SInv, state # 0, NEW k \in Parts, NEW j \in 1..Len(recv_msg)
    PROVE  /\ Start + j - 1 \in 1..k
           /\ Prefix(k)[Start + j - 1] = recv_msg[j]
<1>1. TypeOK /\ p \in Nat \ {0} /\ Len(stream) \in Nat /\ Len(recv_msg) \in Nat
  BY StreamTyped, LenProperties DEF SInv, IInv, TypeOK
<1>2. k \in 0..Len(stream) /\ k + 1 >= p
  BY DEF Parts
<1>3. Start = p - Len(recv_msg) /\ Start \in 1..p
  BY DEF Start, SInv, Held
<1>4. Start + j - 1 \in 1..k
  BY <1>1, <1>2, <1>3
<1>5. Prefix(k)[Start + j - 1] = stream[Start + j - 1]
  BY <1>1, <1>2, <1>4, PrefixProperties
<1>. QED BY <1>4, <1>5 DEF SInv, Held

LEMMA KnownHeader ==
    ASSUME SInv, state \in 2..7, NEW k \in Parts
    PROVE  HeaderAt(Prefix(k), Start)
<1>0. Statics /\ (state = 2 \/ state = 3 \/ state \in 4..7)
  BY DEF SInv, IInv
<1>1. Len(recv_msg) \in Nat /\ Len(recv_msg) >= 2 /\ HeaderOK /\ Start \in Nat
  <2>1. recv_msg \in Seq(Byte) /\ Len(recv_msg) \in Nat
    BY LenProperties DEF SInv, IInv, TypeOK
  <2>2. Start \in Nat
    BY StreamTyped DEF SInv, IInv, Held
  <2>3. CASE state = 2 \/ state = 3
    <3>1. Len(recv_msg) \in {2, 3} /\ HeaderOK
      BY <1>0, <2>3 DEF Statics
    <3>. QED BY <2>2, <3>1
  <2>4. CASE state \in 4..7
    BY <1>0, <2>1, <2>2, <2>4 DEF Statics
  <2>. QED BY <1>0, <2>3, <2>4
<1>2. 1 \in 1..Len(recv_msg) /\ 2 \in 1..Len(recv_msg)
  BY <1>1
<1>3. /\ Prefix(k)[Start + 1 - 1] = recv_msg[1]
      /\ Prefix(k)[Start + 2 - 1] = recv_msg[2]
  BY <1>2, KnownBytes
<1>4. Start + 1 - 1 = Start /\ Start + 2 - 1 = Start + 1
  BY <1>1
<1>. QED BY <1>1, <1>3, <1>4 DEF HeaderAt, HeaderOK

LEMMA KnownLength ==
    ASSUME SInv, state \in 4..7, NEW k \in Parts
    PROVE  /\ HasFrame(Prefix(k), Start)
           /\ DeclaredAt(Prefix(k), Start) = Declared(recv_msg)
           /\ Start + 3 <= k
<1>1. /\ Len(recv_msg) \in Nat /\ Len(recv_msg) >= 4 /\ Start \in Nat /\ k \in Nat
      /\ Declared(recv_msg) <= LenLimit
  BY LenProperties, StreamTyped DEF SInv, IInv, TypeOK, Statics, Held, Parts
<1>2. 3 \in 1..Len(recv_msg) /\ 4 \in 1..Len(recv_msg)
  BY <1>1
<1>3. /\ Prefix(k)[Start + 3 - 1] = recv_msg[3]
      /\ Prefix(k)[Start + 4 - 1] = recv_msg[4]
      /\ Start + 4 - 1 \in 1..k
  BY <1>2, KnownBytes
<1>4. Start + 3 - 1 = Start + 2 /\ Start + 4 - 1 = Start + 3
  BY <1>1
<1>5. DeclaredAt(Prefix(k), Start) = Declared(recv_msg)
  BY <1>3, <1>4 DEF DeclaredAt, Declared
<1>. QED BY <1>1, <1>3, <1>4, <1>5, KnownHeader DEF HasFrame

-----------------------------------------------------------------------------
\* What every step of dataProc does to the position.
LEMMA AtStep ==
    ASSUME SInv, NEW c \in 0..7, At(c), Consume \/ Stay
    PROVE  Step /\ state = c /\ data_len # 0 /\ initDone_' = initDone_
BY DEF At, Step, Consume, Stay

LEMMA SeekHeadLoSInv == SInv /\ SeekHeadLo => Held' /\ History'
<1>. SUFFICES ASSUME SInv, SeekHeadLo PROVE Held' /\ History'
  OBVIOUS
<1>1. /\ Step /\ p' = p + 1 /\ stream' = stream /\ outputs' = outputs
      /\ Start = p /\ state = 0
  BY DEF SeekHeadLo, At, Consume, Step, Start
<1>2. p \in Nat \ {0}
  BY StreamTyped DEF SInv, IInv
<1>3. CASE Byte0 = HeadLo
  <2>1. state' = 1 /\ recv_msg' = <<HeadLo>>
    BY <1>3 DEF SeekHeadLo
  <2>2. Len(recv_msg') = 1 /\ recv_msg'[1] = stream[p]
    BY <1>3, <2>1 DEF Byte0
  <2>3. Start' = p
    BY <1>1, <1>2, <2>1, <2>2 DEF Start
  <2>4. Held'
    <3>1. p \in 1..p' /\ p + 1 - 1 = p
      BY <1>1, <1>2
    <3>. QED BY <1>1, <2>2, <2>3, <3>1 DEF Held
  <2>. QED BY <1>1, <2>3, <2>4, SameStart
<1>4. CASE Byte0 # HeadLo
  <2>1. state' = 0
    BY <1>1, <1>4 DEF SeekHeadLo
  <2>2. Held' /\ Start' = p + 1
    BY <1>1, <2>1, HeldEnds
  <2>3. ASSUME NEW k \in Parts' PROVE Scan(Prefix(k))[Start] = Scan(Prefix(k))[Start']
    <3>1. /\ Prefix(k) \in Seq(Byte) /\ Len(Prefix(k)) = k
          /\ \A i \in 1..k : Prefix(k)[i] = stream[i]
      BY <1>1, <2>3, Ahead
    <3>2. k \in Nat /\ k + 1 >= p + 1
      BY <1>1, <2>3 DEF Parts
    <3>3. p \in 1..k
      BY <1>2, <3>2
    <3>4. ~HeaderAt(Prefix(k), p)
      BY <1>4, <3>1, <3>3 DEF HeaderAt, Byte0
    <3>5. p \in 1..Len(Prefix(k)) + 1
      BY <3>1, <3>2, <3>3
    <3>. QED BY <1>1, <2>2, <3>1, <3>4, <3>5, NoHeader
  <2>4. Start' \in 1..p'
    BY <2>2 DEF Held
  <2>. QED BY <1>1, <2>2, <2>3, <2>4, Skip
<1>. QED BY <1>3, <1>4

LEMMA MatchHeadHiSInv == SInv /\ MatchHeadHi => Held' /\ History'
<1>. SUFFICES ASSUME SInv, MatchHeadHi PROVE Held' /\ History'
  OBVIOUS
<1>1. /\ Step /\ stream' = stream /\ outputs' = outputs /\ state = 1 /\ data_len # 0
  BY DEF MatchHeadHi, At, Consume, Stay, Step
<1>2. p \in Nat \ {0} /\ Len(stream) \in Nat /\ TypeOK
  BY StreamTyped DEF SInv, IInv
<1>3. CASE Byte0 = HeadHi
  <2>1. state' = 2 /\ recv_msg' = Append(recv_msg, Byte0) /\ p' = p + 1
    BY <1>3 DEF MatchHeadHi, Consume
  <2>2. Held' /\ Start' = Start
    BY <1>1, <2>1, HeldGrows
  <2>. QED BY <1>1, <2>2, SameStart
<1>4. CASE Byte0 # HeadHi
  <2>1. state' = 0 /\ p' = p
    BY <1>4 DEF MatchHeadHi, Stay
  <2>2. Held' /\ Start' = p
    BY <1>1, <2>1, HeldEnds
  <2>3. Start = p - 1 /\ Start \in Nat \ {0}
    <3>1. Len(recv_msg) = 1
      BY <1>1 DEF SInv, IInv, Statics
    <3>. QED BY <1>1, <1>2, <3>1 DEF Start, SInv, Held
  <2>4. ASSUME NEW k \in Parts' PROVE Scan(Prefix(k))[Start] = Scan(Prefix(k))[Start']
    <3>1. /\ Prefix(k) \in Seq(Byte) /\ Len(Prefix(k)) = k
          /\ \A i \in 1..k : Prefix(k)[i] = stream[i]
      BY <1>1, <2>4, Ahead
    <3>2. k \in Nat /\ k + 1 >= p
      BY <1>1, <2>1, <2>4 DEF Parts
    <3>3. p - 1 + 3 <= k => ~HeaderAt(Prefix(k), p - 1)
      <4>. SUFFICES ASSUME p - 1 + 3 <= k PROVE ~HeaderAt(Prefix(k), p - 1)
        OBVIOUS
      <4>1. p \in 1..k /\ p - 1 + 1 = p
        BY <1>2, <3>2
      <4>. QED BY <1>4, <3>1, <4>1 DEF HeaderAt, Byte0
    <3>4. p - 1 \in 1..k + 1 /\ p - 1 + 1 = p
      BY <1>2, <2>3, <3>2
    <3>. QED BY <2>2, <2>3, <3>1, <3>3, <3>4, NoHeader
  <2>5. Start' \in 1..p'
    BY <2>2 DEF Held
  <2>. QED BY <1>1, <2>2, <2>4, <2>5, Skip
<1>. QED BY <1>3, <1>4

LEMMA LenHighSInv == SInv /\ LenHigh => Held' /\ History'
<1>. SUFFICES ASSUME SInv, LenHigh PROVE Held' /\ History'
  OBVIOUS
<1>1. /\ Step /\ stream' = stream /\ outputs' = outputs /\ state = 3 /\ data_len # 0
      /\ recv_msg' = Append(recv_msg, Byte0) /\ len' = len + Byte0 * Base
  BY DEF LenHigh, At, Consume, Stay, Step
<1>2. p \in Nat \ {0} /\ Len(stream) \in Nat /\ TypeOK
  BY StreamTyped DEF SInv, IInv
<1>3. CASE ~TooLong(len')
  <2>1. state' = 4 /\ p' = p + 1
    BY <1>3 DEF LenHigh, Consume
  <2>2. Held' /\ Start' = Start
    BY <1>1, <2>1, HeldGrows
  <2>. QED BY <1>1, <2>2, SameStart
<1>4. CASE TooLong(len')
  <2>1. state' = 0 /\ p' = p
    BY <1>4 DEF LenHigh, Stay
  <2>2. Held' /\ Start' = p
    BY <1>1, <2>1, HeldEnds
  <2>3. Len(recv_msg) = 3 /\ len = recv_msg[3]
    BY <1>1 DEF SInv, IInv, Statics
  <2>4. Start = p - 3 /\ Start \in Nat \ {0}
    BY <1>1, <1>2, <2>3 DEF Start, SInv, Held
  <2>5. ASSUME NEW k \in Parts' PROVE Scan(Prefix(k))[Start] = Scan(Prefix(k))[Start']
    <3>1. /\ k \in Parts /\ Prefix(k) \in Seq(Byte) /\ Len(Prefix(k)) = k
          /\ \A i \in 1..k : Prefix(k)[i] = stream[i]
      BY <1>1, <2>5, Ahead
    <3>2. k \in Nat /\ k + 1 >= p
      BY <1>1, <2>1, <2>5 DEF Parts
    <3>3. ASSUME Start + 3 <= k
          PROVE  /\ HeaderAt(Prefix(k), Start)
                 /\ ~(DeclaredAt(Prefix(k), Start) <= LenLimit)
      <4>1. HeaderAt(Prefix(k), Start)
        BY <1>1, <3>1, KnownHeader
      <4>2. 3 \in 1..Len(recv_msg) /\ Start + 3 - 1 = Start + 2
        BY <2>3, <2>4
      <4>3. Prefix(k)[Start + 2] = len
        BY <1>1, <2>3, <3>1, <4>2, KnownBytes
      <4>4. Start + 3 = p /\ p \in 1..k
        BY <1>2, <2>4, <3>2, <3>3
      <4>5. Prefix(k)[Start + 3] = Byte0
        BY <3>1, <4>4 DEF Byte0
      <4>6. DeclaredAt(Prefix(k), Start) = len'
        BY <1>1, <4>3, <4>5 DEF DeclaredAt
      <4>7. DeclaredAt(Prefix(k), Start) \in Nat
        BY <2>4, <3>1, <3>3, NextIsLater
      <4>. QED BY <1>4, <4>1, <4>6, <4>7, LenAssumption DEF TooLong
    <3>4. Start \in 1..Len(Prefix(k)) + 1
      BY <1>2, <2>4, <3>1, <3>2
    <3>5. Start + 3 = p
      BY <1>2, <2>4
    <3>. QED BY <2>2, <3>1, <3>3, <3>4, <3>5, HeaderTooLong
  <2>6. Start' \in 1..p'
    BY <2>2 DEF Held
  <2>. QED BY <1>1, <2>2, <2>5, <2>6, Skip
<1>. QED BY <1>3, <1>4

LEMMA CheckBccSInv == SInv /\ CheckBcc => Held' /\ History'
<1>. SUFFICES ASSUME SInv, CheckBcc PROVE Held' /\ History'
  OBVIOUS
<1>1. /\ Step /\ stream' = stream /\ state = 7 /\ state' = 0 /\ data_len # 0
      /\ p' = p + 1 /\ recv_msg' = Append(recv_msg, Byte0)
  BY DEF CheckBcc, At, Consume, Step
<1>2. /\ p \in Nat \ {0} /\ Len(stream) \in Nat /\ TypeOK
      /\ recv_msg \in Seq(Byte) /\ Len(recv_msg) \in Nat /\ delivered \in Seq(Seq(Byte))
  BY StreamTyped, LenProperties DEF SInv, IInv, TypeOK
<1>3. Held' /\ Start' = p + 1 /\ Start' \in 1..p'
  <2>1. Held' /\ Start' = p'
    BY <1>1, HeldEnds
  <2>. QED BY <1>1, <2>1 DEF Held
<1>. DEFINE body == Body(Declared(recv_msg))
<1>4. /\ Len(recv_msg) = 6 + body /\ Len(recv_msg) >= 4 /\ body \in Nat
      /\ Start = p - Len(recv_msg) /\ Start \in Nat \ {0}
  <2>1. Len(recv_msg) = 6 + body /\ Len(recv_msg) >= 4
    BY <1>1 DEF SInv, IInv, Statics
  <2>2. Declared(recv_msg) \in Nat
    BY <1>2, <2>1, DeclaredNat
  <2>3. body \in Nat
    BY <2>2, DecNat DEF Body
  <2>4. Start = p - Len(recv_msg) /\ Start \in Nat \ {0}
    BY <1>1, <1>2 DEF Start, SInv, Held
  <2>. QED BY <2>1, <2>3, <2>4
<1>5. /\ recv_msg' \in Seq(Byte)
      /\ Len(recv_msg') = Len(recv_msg) + 1
      /\ recv_msg'[Len(recv_msg) + 1] = stream[p]
      /\ \A j \in 1..Len(recv_msg) : recv_msg'[j] = recv_msg[j]
  <2>1. Byte0 \in Byte
    BY <1>1, <1>2, CurrentByte
  <2>. QED BY <1>1, <1>2, <2>1, AppendProperties DEF Byte0
<1>m. PICK msg \in Seq(Byte) : msg = recv_msg'
  BY <1>5
<1>. DEFINE f == IF BccFits(msg) THEN <<msg>> ELSE << >>
<1>6. Passes(f)
  <2>. SUFFICES ASSUME NEW k \in Parts'
                PROVE  Scan(Prefix(k))[Start] = f \o Scan(Prefix(k))[Start']
    BY DEF Passes
  <2>. DEFINE t == Prefix(k)
  <2>1. /\ k \in Parts /\ t \in Seq(Byte) /\ Len(t) = k
        /\ \A i \in 1..k : t[i] = stream[i]
    BY <1>1, Ahead
  <2>2. k \in Nat /\ k >= p
    <3>1. k \in Nat /\ k + 1 >= p + 1
      BY <1>1, <1>2 DEF Parts
    <3>. QED BY <1>2, <3>1
  <2>3. /\ HasFrame(t, Start) /\ Start + 3 <= k
        /\ DeclaredAt(t, Start) = Declared(recv_msg)
    BY <1>1, <2>1, KnownLength
  <2>4. Start + 6 + body = p /\ Start + 7 + body = p + 1
    BY <1>2, <1>4
  <2>5. FrameAt(t, Start) = recv_msg'
    <3>1. FrameAt(t, Start) = SubSeq(t, Start, p)
      BY <2>3, <2>4 DEF FrameAt
    <3>2. \A i \in Start..p : t[i] \in Byte
      <4>1. ASSUME NEW i \in Start..p PROVE i \in 1..k
        <5>1. Start \in Nat \ {0} /\ p \in Nat
          BY <1>2, <1>4
        <5>2. i \in Int /\ i >= 1 /\ i <= p
          BY <5>1
        <5>. QED BY <2>2, <5>1, <5>2
      <4>2. t \in [1..k -> Byte]
        BY <2>1
      <4>. HIDE DEF t
      <4>. QED BY <4>1, <4>2
    <3>3. /\ SubSeq(t, Start, p) \in Seq(Byte)
          /\ Len(SubSeq(t, Start, p)) = p - Start + 1
          /\ \A i \in 1..p - Start + 1 : SubSeq(t, Start, p)[i] = t[Start + i - 1]
      <4>1. Start \in Int /\ p \in Int /\ Start <= p
        BY <1>2, <1>4
      <4>. HIDE DEF t
      <4>. QED BY <2>1, <3>2, <4>1, BytesBetween, Zenon
    <3>4. p - Start + 1 = Len(recv_msg')
      <4>1. Start = p - Len(recv_msg) /\ Len(recv_msg) \in Nat /\ p \in Nat
        BY <1>2, <1>4
      <4>. QED BY <1>5, <4>1
    <3>5. ASSUME NEW j \in 1..Len(recv_msg') PROVE t[Start + j - 1] = recv_msg'[j]
      <4>1. CASE j \in 1..Len(recv_msg)
        BY <1>1, <1>5, <2>1, <4>1, KnownBytes
      <4>2. CASE j = Len(recv_msg) + 1
        <5>1. Start = p - Len(recv_msg) /\ p \in Nat \ {0} /\ Len(recv_msg) \in Nat
          BY <1>2, <1>4
        <5>2. Start + j - 1 = p
          BY <4>2, <5>1
        <5>3. p \in 1..k
          BY <2>2, <5>1
        <5>. QED BY <1>5, <2>1, <4>2, <5>2, <5>3
      <4>. QED BY <1>2, <1>5, <4>1, <4>2
    <3>6. SubSeq(t, Start, p) = recv_msg'
      <4>. HIDE DEF t
      <4>. QED BY <1>5, <3>3, <3>4, <3>5, SeqEqual
    <3>. QED BY <3>1, <3>6
  <2>6. FoundAt(t, Start) = f
    BY <2>3, <2>5, <1>m DEF FoundAt, BccFits
  <2>7. Scan(t)[Start] = FoundAt(t, Start) \o Scan(t)[p + 1]
    <3>0. Len(t) = k
      BY <2>1
    <3>1. Start \in 1..Len(t) /\ Start + 6 + body <= Len(t)
      <4>. HIDE DEF t, body
      <4>. QED BY <1>2, <1>4, <2>2, <2>4, <3>0
    <3>. HIDE DEF t
    <3>. QED BY <2>1, <2>3, <2>4, <3>1, WholeFrame
  <2>. QED BY <1>3, <2>6, <2>7
<1>7. PICK all \in Seq(Seq(Byte)) : /\ comm_restarts = Len(all)
                                    /\ IsSuffix(delivered, all)
                                    /\ Agrees(all)
  BY DEF SInv, History
<1>8. f \in Seq(Seq(Byte))
  BY EmptySeq
<1>9. Agrees(all \o f)'
  <2>. HIDE DEF f
  <2>. QED BY <1>1, <1>3, <1>6, <1>7, <1>8, Advance
<1>10. CASE BccFits(msg)
  <2>0. HandOn(msg)
    BY <1>m, <1>10 DEF CheckBcc
  <2>1. all \o f = Append(all, msg)
    BY <1>10, AppendIsConcat
  <2>2. /\ Append(all, msg) \in Seq(Seq(Byte))
        /\ Len(Append(all, msg)) = Len(all) + 1
    BY AppendProperties
  <2>3. comm_restarts' = Len(Append(all, msg))
    BY <1>7, <2>0, <2>2 DEF HandOn
  <2>4. IsSuffix(delivered', Append(all, msg))
    <3>1. CASE initDone_
      <4>1. delivered' = Append(delivered, msg)
        BY <2>0, <3>1 DEF HandOn
      <4>. QED BY <1>2, <1>7, <4>1, SuffixGrows
    <3>2. CASE ~initDone_
      <4>1. delivered' = << >>
        BY <2>0, <3>2 DEF HandOn, SInv
      <4>2. delivered' \in Seq(Seq(Byte)) /\ Len(delivered') = 0
        BY <4>1, EmptySeq
      <4>. QED BY <2>2, <4>2, EmptyIsSuffix
    <3>. QED BY <3>1, <3>2
  <2>5. Agrees(Append(all, msg))'
    BY <1>9, <2>1
  <2>. QED BY <1>3, <2>2, <2>3, <2>4, <2>5 DEF History
<1>11. CASE ~BccFits(msg)
  <2>1. all \o f = all
    BY <1>11, ConcatEmptySeq
  <2>2. outputs' = outputs
    BY <1>m, <1>11 DEF CheckBcc
  <2>3. Agrees(all)'
    BY <1>9, <2>1
  <2>. QED BY <1>3, <1>7, <2>2, <2>3 DEF History, outputs
<1>. QED BY <1>10, <1>11

\* Every other step adds to what the statics hold or leaves it alone.
LEMMA QuietSInv ==
    ASSUME SInv,
           \/ LenLow \/ PackType(4) \/ PackType(5) \/ Payload
           \/ InitDone \/ UNCHANGED vars \/ \E n \in 1..Len(stream) : Read(n)
    PROVE  Held' /\ History'
<1>1. /\ TypeOK /\ outputs' = outputs /\ stream' = stream
  BY DEF SInv, IInv, LenLow, PackType, Payload, InitDone, Read, vars, At, outputs
<1>2. ASSUME state' # 0, state # 0, data_len # 0, recv_msg' = Append(recv_msg, Byte0),
             p' = p + 1
      PROVE  Held' /\ History'
  BY <1>1, <1>2, HeldGrows, SameStart DEF Step
<1>3. ASSUME (state' = 0) <=> (state = 0), recv_msg' = recv_msg, p' = p
      PROVE  Held' /\ History'
  BY <1>1, <1>3, HeldStays, SameStart DEF Step
<1>4. CASE LenLow
  BY <1>2, <1>4 DEF LenLow, At, Consume
<1>5. CASE PackType(4)
  BY <1>2, <1>5 DEF PackType, At, Consume
<1>6. CASE PackType(5)
  BY <1>2, <1>6 DEF PackType, At, Consume
<1>7. CASE Payload
  <2>1. CASE len # 0
    BY <1>2, <1>7, <2>1 DEF Payload, At, Consume
  <2>2. CASE len = 0
    BY <1>3, <1>7, <2>2 DEF Payload, At, Stay
  <2>. QED BY <2>1, <2>2
<1>8. CASE InitDone \/ UNCHANGED vars \/ \E n \in 1..Len(stream) : Read(n)
  BY <1>3, <1>8 DEF InitDone, Read, vars, statics
<1>. QED BY <1>4, <1>5, <1>6, <1>7, <1>8

\* Nothing is delivered before the constructor is done.
LEMMA NotEarly ==
    SInv /\ [Next]_vars => (initDone_ \/ delivered = << >>)'
<1>. SUFFICES ASSUME SInv, [Next]_vars, ~initDone_' PROVE delivered' = << >>
  OBVIOUS
<1>1. ~initDone_
  BY DEF Next, dataProc, Read, InitDone, SeekHeadLo, MatchHeadHi, LenLow, LenHigh,
         PackType, Payload, CheckBcc, At, vars
<1>2. delivered' = delivered
  BY <1>1 DEF Next, dataProc, Read, InitDone, SeekHeadLo, MatchHeadHi, LenLow, LenHigh,
         PackType, Payload, CheckBcc, HandOn, vars, outputs
<1>. QED BY <1>1, <1>2 DEF SInv

LEMMA NextSInv == SInv /\ [Next]_vars => SInv'
<1>. SUFFICES ASSUME SInv, [Next]_vars PROVE SInv'
  OBVIOUS
<1>1. IInv'
  BY NextIInv DEF SInv
<1>2. Held' /\ History'
  BY SeekHeadLoSInv, MatchHeadHiSInv, LenHighSInv, CheckBccSInv, QuietSInv
     DEF Next, dataProc
<1>. QED BY <1>1, <1>2, NotEarly DEF SInv

\* With no frame whole behind Start the frames of what has been used up are
\* those found so far.
LEMMA NothingPending ==
    ASSUME SInv
    PROVE  /\ p - 1 \in Parts
           /\ Scan(Prefix(p - 1))[Start] = << >>
<1>. DEFINE k == p - 1
            t == Prefix(k)
<1>1. /\ p \in Nat \ {0} /\ Len(stream) \in Nat /\ p <= Len(stream) + 1
      /\ TypeOK /\ Statics /\ Start \in 1..p
  BY StreamTyped DEF SInv, IInv, Held
<1>2. k \in Parts /\ k \in 0..Len(stream)
  BY <1>1 DEF Parts
<1>3. t \in Seq(Byte) /\ Len(t) = k /\ Start \in 1..Len(t) + 4
  BY <1>1, <1>2, PrefixProperties
<1>4. recv_msg \in Seq(Byte) /\ Len(recv_msg) \in Nat /\ len \in Nat
  BY <1>1, LenProperties DEF TypeOK
<1>5. CASE state \in 0..3
  <2>1. state = 0 \/ (state # 0 /\ Len(recv_msg) \in 1..3)
    BY <1>1, <1>4, <1>5 DEF Statics
  <2>2. Start = p \/ Start \in {p - 1, p - 2, p - 3}
    <3>. HIDE DEF t, k
    <3>1. CASE state = 0
      BY <3>1 DEF Start
    <3>2. CASE state # 0 /\ Len(recv_msg) \in 1..3
      <4>1. Start = p - Len(recv_msg)
        BY <3>2 DEF Start
      <4>2. \/ Len(recv_msg) = 1
            \/ Len(recv_msg) = 2
            \/ Len(recv_msg) = 3
        BY <3>2
      <4>. QED BY <4>1, <4>2
    <3>. QED BY <2>1, <3>1, <3>2
  <2>3. Start + 3 > k
    BY <1>1, <2>2
  <2>4. Scan(t)[Start] = << >>
    <3>. HIDE DEF t, k
    <3>. QED BY <1>3, <2>3, NothingLeft
  <2>. QED BY <1>2, <2>4
<1>6. CASE state \in 4..7
  <2>1. /\ HasFrame(t, Start) /\ Start + 3 <= k
        /\ DeclaredAt(t, Start) = Declared(recv_msg)
    BY <1>2, <1>6, KnownLength
  <2>2. Declared(recv_msg) \in Nat /\ Body(Declared(recv_msg)) \in Nat
    <3>1. Len(recv_msg) >= 4
      BY <1>1, <1>6 DEF Statics
    <3>. QED BY <1>4, <3>1, DeclaredNat, DecNat DEF Body
  <2>3. Len(recv_msg) <= 6 + Body(Declared(recv_msg))
    <3>1. \/ state = 4 /\ Len(recv_msg) = 4
          \/ state = 5 /\ Len(recv_msg) = 5
          \/ state = 6 /\ Len(recv_msg) + len = 6 + Body(Declared(recv_msg))
          \/ state = 7 /\ Len(recv_msg) = 6 + Body(Declared(recv_msg))
      BY <1>1, <1>6 DEF Statics
    <3>2. \A m, n, b \in Nat : m + n = 6 + b => m <= 6 + b
      OBVIOUS
    <3>3. CASE state = 6 /\ Len(recv_msg) + len = 6 + Body(Declared(recv_msg))
      BY <1>4, <2>2, <3>2, <3>3
    <3>4. CASE Len(recv_msg) \in {4, 5} \/ Len(recv_msg) = 6 + Body(Declared(recv_msg))
      <4>. HIDE DEF t, k
      <4>1. \A b \in Nat : 4 <= 6 + b /\ 5 <= 6 + b /\ 6 + b <= 6 + b
        OBVIOUS
      <4>. QED BY <2>2, <3>4, <4>1
    <3>. QED BY <3>1, <3>3, <3>4
  <2>4. Start = p - Len(recv_msg)
    BY <1>6 DEF Start
  <2>5. NextAt(t, Start) = Start + 7 + Body(Declared(recv_msg))
    BY <2>1 DEF NextAt
  <2>6. NextAt(t, Start) > k + 1
    BY <1>1, <1>4, <2>2, <2>3, <2>4, <2>5
  <2>7. Ends(t, Start)
    BY <1>3, <2>6 DEF Ends
  <2>8. Scan(t)[Start] = << >>
    <3>. HIDE DEF t
    <3>. QED BY <1>3, <2>7, ScanUnfolds DEF ScanStep
  <2>. QED BY <1>2, <2>8
<1>7. state \in 0..3 \/ state \in 4..7
  BY <1>1 DEF TypeOK
<1>. QED BY <1>2, <1>5, <1>6, <1>7

LEMMA SInvScanAgrees == SInv => ScanAgrees
<1>. SUFFICES ASSUME SInv PROVE ScanAgrees
  OBVIOUS
<1>1. PICK all \in Seq(Seq(Byte)) : /\ comm_restarts = Len(all)
                                    /\ IsSuffix(delivered, all)
                                    /\ Agrees(all)
  BY DEF SInv, History
<1>2. Frames(Prefix(p - 1)) = all \o << >>
  BY <1>1, NothingPending DEF Agrees
<1>3. Frames(Consumed) = all
  BY <1>2, ConcatEmptySeq DEF Prefix, Consumed
<1>. QED BY <1>1, <1>3 DEF ScanAgrees

\* Whatever bytes arrive and however reads cut them, dataProc has found at
\* every moment exactly the frames that the definition on the whole string
\* finds in the bytes used up so far, no other, none twice and none missing,
\* and has handed on the most recent of them (dataProc, cases 0 to 7).
THEOREM AgreesWithScan == Spec => []ScanAgrees
<1>. QED BY InitSInv, NextSInv, SInvScanAgrees, PTL DEF Spec
=============================================================================
