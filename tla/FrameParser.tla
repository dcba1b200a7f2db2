----------------------------- MODULE FrameParser -----------------------------
(* The receive path of tianbot_core: TianbotCore::dataProc cuts the byte     *)
(* stream of the serial port or the UDP socket into frames.  The receiver    *)
(* thread calls it with whatever one read() returned, and the function keeps *)
(* its state (state, recv_msg, len) in statics from call to call, so a frame *)
(* may be split over calls anywhere.  One action is one turn of its while    *)
(* loop, which is one case of its switch.  An operator named after another   *)
(* one with an underscore behind it is that one with a fault seeded.         *)
EXTENDS Integers, Sequences, SequencesExt

CONSTANTS
    Byte,           \* the values of a uint8_t
    HeadLo, HeadHi, \* the two bytes of PROTOCOL_HEAD, in wire order
    Base,           \* weight of the second length byte (256)
    LenLimit,       \* largest declared length that is accepted (10240)
    LenMod,         \* 2^32: where the uint32_t len wraps
    DataMod,        \* 2^8: where the uint8_t data_len of buildCmd wraps
    Xor(_, _),      \* exclusive or of two bytes
    Streams         \* the byte streams the device may send

ASSUME ByteAssumption == /\ Byte \subseteq Nat
                         /\ 0 \in Byte
                         /\ HeadLo \in Byte /\ HeadHi \in Byte
                         /\ \A a, b \in Byte : Xor(a, b) \in Byte
ASSUME LenAssumption == /\ Base \in Nat \ {0}
                        /\ LenLimit \in Nat
                        /\ LenMod \in Nat /\ LenMod > LenLimit /\ LenMod > 2
                        /\ DataMod \in Nat \ {0}
ASSUME StreamsAssumption == Streams \subseteq Seq(Byte)

VARIABLES
    stream,         \* what the device sends during this behaviour
    p,              \* the next byte of stream that dataProc looks at
    data_len,       \* bytes of the current call still to be looked at
    state, recv_msg, len,   \* the statics of dataProc
    initDone_,      \* the constructor of the chassis class has finished
    delivered,      \* frames handed to tianbotDataProc
    comm_restarts   \* restarts of communication_timer_ (ghost counter)

vars == <<stream, p, data_len, state, recv_msg, len, initDone_, delivered,
          comm_restarts>>
statics == <<state, recv_msg, len>>
outputs == <<delivered, comm_restarts>>

-----------------------------------------------------------------------------
(* Helpers of the code *)

\* len-- on a uint32_t
Dec(n) == IF n = 0 THEN LenMod - 1 ELSE n - 1

\* The check byte of buildCmd and dataProc: everything from the pack type on.
Bcc(msg) == FoldLeft(Xor, 0, SubSeq(msg, 5, Len(msg)))

\* The two length bytes of a message of at least four bytes.
Declared(msg) == msg[3] + msg[4] * Base

BccFits_ignored(msg) == TRUE
BccFits(msg) == Bcc(msg) = 0

TooLong_atLimit(n) == n >= LenLimit
TooLong_never(n) == FALSE
TooLong(n) == n > LenLimit

\* buildCmd: data_len is a uint8_t, so longer data are cut modulo 256.
BuildCmd(type, data) ==
    LET n    == Len(data) % DataMod
        l    == 2 + n
        body == <<HeadLo, HeadHi, l % Base, l \div Base>>
                    \o type \o SubSeq(data, 1, n)
    IN  Append(body, Bcc(body))

-----------------------------------------------------------------------------
Init == /\ stream \in Streams
        /\ p = 1
        /\ data_len = 0
        /\ state = 0
        /\ recv_msg = << >>
        /\ len = 0
        /\ initDone_ = FALSE
        /\ delivered = << >>
        /\ comm_restarts = 0

\* read() or recvfrom() returned n bytes and the receiver calls dataProc.
Read(n) == /\ data_len = 0
           /\ p + n <= Len(stream) + 1
           /\ data_len' = n
           /\ UNCHANGED <<stream, p, statics, initDone_, outputs>>

\* The last statement of every chassis constructor.
InitDone == /\ ~initDone_
            /\ initDone_' = TRUE
            /\ UNCHANGED <<stream, p, data_len, statics, outputs>>

\* p++, data_len--
Consume_uncounted == p' = p + 1 /\ UNCHANGED data_len
Consume == /\ p' = p + 1
           /\ data_len' = data_len - 1

Stay == UNCHANGED <<p, data_len>>

Byte0 == stream[p]

At(s) == /\ data_len # 0
         /\ state = s
         /\ UNCHANGED <<stream, initDone_>>

\* case 0: the byte is used up whether or not it starts a header
SeekHeadLo == /\ At(0)
              /\ IF Byte0 = HeadLo
                 THEN state' = 1 /\ recv_msg' = <<HeadLo>>
                 ELSE UNCHANGED <<state, recv_msg>>
              /\ Consume
              /\ UNCHANGED <<len, outputs>>

\* case 1: on a mismatch the byte is looked at again in case 0
MatchHeadHi_stays == /\ At(1)
                     /\ Byte0 = HeadHi
                     /\ state' = 2
                     /\ recv_msg' = Append(recv_msg, HeadHi)
                     /\ Consume
                     /\ UNCHANGED <<len, outputs>>
MatchHeadHi == /\ At(1)
               /\ IF Byte0 = HeadHi
                  THEN state' = 2 /\ recv_msg' = Append(recv_msg, HeadHi) /\ Consume
                  ELSE state' = 0 /\ UNCHANGED recv_msg /\ Stay
               /\ UNCHANGED <<len, outputs>>

\* case 2
LenLow == /\ At(2)
          /\ recv_msg' = Append(recv_msg, Byte0)
          /\ len' = Byte0
          /\ state' = 3
          /\ Consume
          /\ UNCHANGED outputs

\* case 3: a length over the limit drops the header, and the byte just stored
\* is looked at again in case 0
LenHigh == /\ At(3)
           /\ recv_msg' = Append(recv_msg, Byte0)
           /\ len' = len + Byte0 * Base
           /\ IF TooLong(len')
              THEN state' = 0 /\ Stay
              ELSE state' = 4 /\ Consume
           /\ UNCHANGED outputs

\* cases 4 and 5: the pack type; nothing has checked that len >= 2
PackType(s) == /\ At(s)
               /\ recv_msg' = Append(recv_msg, Byte0)
               /\ len' = Dec(len)
               /\ state' = s + 1
               /\ Consume
               /\ UNCHANGED outputs

\* case 6: the test is on len--, so len is decremented on both branches
Payload == /\ At(6)
           /\ len' = Dec(len)
           /\ IF len # 0
              THEN /\ recv_msg' = Append(recv_msg, Byte0)
                   /\ Consume
                   /\ UNCHANGED state
              ELSE state' = 7 /\ Stay /\ UNCHANGED recv_msg
           /\ UNCHANGED outputs

\* A frame is handed on once the constructor is done, and restarts the
\* communication timer in any case.
HandOn(msg) ==
    /\ delivered' = IF initDone_ THEN Append(delivered, msg) ELSE delivered
    /\ comm_restarts' = comm_restarts + 1

\* case 7: the check byte
CheckBcc == /\ At(7)
            /\ recv_msg' = Append(recv_msg, Byte0)
            /\ state' = 0
            /\ Consume
            /\ UNCHANGED len
            /\ IF BccFits(recv_msg') THEN HandOn(recv_msg') ELSE UNCHANGED outputs

dataProc == \/ SeekHeadLo \/ MatchHeadHi
            \/ LenLow     \/ LenHigh
            \/ PackType(4) \/ PackType(5)
            \/ Payload    \/ CheckBcc

Next == \/ \E n \in 1..Len(stream) : Read(n)
        \/ InitDone
        \/ dataProc

\* The receiver thread runs whenever it can and the device goes on sending;
\* nothing is assumed about the constructor.
Spec == /\ Init
        /\ [][Next]_vars
        /\ WF_vars(dataProc)
        /\ WF_vars(\E n \in 1..Len(stream) : Read(n))

-----------------------------------------------------------------------------
TypeOK == /\ stream \in Streams
          /\ p \in 1..Len(stream) + 1
          /\ data_len \in 0..Len(stream) + 1 - p
          /\ state \in 0..7
          /\ recv_msg \in Seq(Byte)
          /\ len \in Nat
          /\ initDone_ \in BOOLEAN
          /\ delivered \in Seq(Seq(Byte))
          /\ comm_restarts \in Nat

\* Bytes between the pack type and the check byte, as the statics count them.
Body(d) == Dec(Dec(d))

\* What a consumer of a frame relies on: header, a declared length within the
\* limit that the size of the frame agrees with, and a check byte that fits.
WellFormed(msg) == /\ Len(msg) >= 7
                   /\ msg[1] = HeadLo
                   /\ msg[2] = HeadHi
                   /\ Declared(msg) <= LenLimit
                   /\ Len(msg) = 7 + Body(Declared(msg))
                   /\ Bcc(msg) = 0

\* tianbotDataProc casts the frame to struct protocol_pack and trusts it: every
\* frame handed to it is well formed, however the stream was cut into reads and
\* whatever garbage preceded the frame (dataProc, cases 0 to 7).
FramesWellFormed == \A i \in 1..Len(delivered) : WellFormed(delivered[i])

\* The part of the stream dataProc has used up.
Consumed == SubSeq(stream, 1, p - 1)

(* The frames of a byte string, defined on the string as a whole: from every *)
(* place i there is one way on, behind the frame that begins at i, behind    *)
(* the header of one that is too long, or else to the next byte.             *)
HeaderAt(s, i)   == s[i] = HeadLo /\ s[i + 1] = HeadHi
DeclaredAt(s, i) == s[i + 2] + s[i + 3] * Base
FrameAt(s, i)    == SubSeq(s, i, i + 6 + Body(DeclaredAt(s, i)))
HasFrame(s, i)   == HeaderAt(s, i) /\ DeclaredAt(s, i) <= LenLimit

NextAt(s, i) == IF HasFrame(s, i) THEN i + 7 + Body(DeclaredAt(s, i))
                ELSE IF HeaderAt(s, i) THEN i + 3
                ELSE i + 1
FoundAt(s, i) == IF HasFrame(s, i) /\ Bcc(FrameAt(s, i)) = 0
                 THEN <<FrameAt(s, i)>> ELSE << >>

\* Four bytes tell which way it is; a frame that s ends within is not found.
Ends(s, i) == i + 3 > Len(s) \/ NextAt(s, i) > Len(s) + 1

Scan(s) == LET scan[i \in 1..Len(s) + 4] ==
                 IF Ends(s, i) THEN << >> ELSE FoundAt(s, i) \o scan[NextAt(s, i)]
           IN  scan

Frames(s) == Scan(s)[1]

\* The byte-at-a-time automaton agrees with the definition on the whole string
\* at every moment: the communication timer was restarted once per frame, and
\* the delivered frames are the most recent ones (those before initDone_ are
\* dropped).  Where the reads cut the stream makes no difference.
ScanAgrees == LET all == Frames(Consumed)
              IN  /\ comm_restarts = Len(all)
                  /\ IsSuffix(delivered, all)

\* What a damaged length field costs: no check byte covers it, but a length of 2
\* and more (below, it wraps) makes dataProc hold back the bytes of one frame of
\* the largest accepted length at most before it looks for a header again
\* (dataProc, case 3, and the counting down in cases 4 to 6).
BacklogBounded == Len(recv_msg) >= 4 /\ Declared(recv_msg) >= 2
                     => Len(recv_msg) <= LenLimit + 5

\* Turns of the loop that the current call can still take: two for a byte, one
\* for a byte that has been left where it was.
TurnsLeft == 2 * data_len + (IF state \in {1, 3, 6} THEN 1 ELSE 0)

\* Each turn brings the call nearer to its end, although cases 1, 3 and 6 may
\* leave the byte where it is, and nothing but a turn changes what is left of it:
\* a call with n bytes takes 2n + 1 turns at most, whatever the statics hold
\* (dataProc).
TurnsCountDown == [][data_len # 0 => /\ TurnsLeft' \in 0 .. TurnsLeft
                                     /\ dataProc => TurnsLeft' < TurnsLeft]_vars

\* Every call of dataProc returns: the cases that leave the byte where it is
\* (1, 3 and 6) cannot chase each other for ever.
CallReturns == data_len # 0 ~> data_len = 0
=============================================================================
