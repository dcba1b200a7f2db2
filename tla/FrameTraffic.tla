----------------------------- MODULE FrameTraffic -----------------------------
(* FrameParser fed with frames made by buildCmd: noise, then a frame, and    *)
(* again, as long as one likes.  The data may look like a header or be too   *)
(* long for the uint8_t data_len, the noise is anything that completes no    *)
(* header, and a frame may arrive damaged behind its length field.           *)
EXTENDS FrameParser

CONSTANT Traffic    \* what may be sent: sequences of segments

\* What the ^ of the code and the width of its bytes provide: the two length
\* bytes hold every length buildCmd writes, and dataProc accepts it.
ASSUME XorAssumption ==
    \A a, b, c \in Byte : /\ Xor(a, 0) = a
                          /\ Xor(a, a) = 0
                          /\ Xor(a, b) = Xor(b, a)
                          /\ Xor(Xor(a, b), c) = Xor(a, Xor(b, c))
ASSUME WidthAssumption == /\ 0..Base - 1 \subseteq Byte
                          /\ DataMod + 1 < Base * Base
                          /\ DataMod < LenLimit

-----------------------------------------------------------------------------
\* What is left of the data after the cast to uint8_t.
Kept(data) == SubSeq(data, 1, Len(data) % DataMod)

\* No header begins in s, nor with the last byte of s when a frame follows.
Harmless(s) == \A i \in 1..Len(s) : ~HeaderAt(Append(s, HeadLo), i)

\* bad = 0: the frame arrives as sent; otherwise the byte that many places
\* behind the length field arrives with the bits of flip inverted.
Segment == {g \in [noise : Seq(Byte), type : Seq(Byte), data : Seq(Byte),
                   bad : Nat, flip : Byte \ {0}] :
               /\ Harmless(g.noise)
               /\ Len(g.type) = 2
               /\ g.bad <= 3 + Len(Kept(g.data))}

ASSUME TrafficAssumption == Traffic \subseteq Seq(Segment)

Arriving(g) ==
    LET frame == BuildCmd(g.type, g.data)
    IN  IF g.bad = 0 THEN frame
        ELSE [frame EXCEPT ![4 + g.bad] = Xor(@, g.flip)]

Wire(t) == FlattenSeq([i \in DOMAIN t |-> t[i].noise \o Arriving(t[i])])

Wires == [t \in Traffic |-> Wire(t)]
TrafficStreams == {Wires[t] : t \in Traffic}

\* The data of the frames that arrive as sent.
Sent(t) == FlattenSeq([i \in DOMAIN t |->
                         IF t[i].bad = 0 THEN <<Kept(t[i].data)>> ELSE << >>])

\* The same for every stream, whichever way it came about.
SentOver == [s \in TrafficStreams |->
                {Sent(t) : t \in {u \in Traffic : Wires[u] = s}}]

PayloadOf(msg) == SubSeq(msg, 7, Len(msg) - 1)

-----------------------------------------------------------------------------
\* What buildCmd put into a frame is what tianbotDataProc gets.  At every moment
\* the frames recognised so far are the first of those that arrive as sent, the
\* delivered ones are the last of them and carry the data they were built from,
\* and when the stream has been read none is missing.  Noise that completes no
\* header, damage behind the length field and data that are cut short cost no
\* frame other than their own (buildCmd; dataProc).
RoundTrip ==
    stream \in TrafficStreams =>
        \A sent \in SentOver[stream] :
            /\ comm_restarts <= Len(sent)
            /\ IsSuffix([i \in DOMAIN delivered |-> PayloadOf(delivered[i])],
                        SubSeq(sent, 1, comm_restarts))
            /\ p = Len(stream) + 1 => comm_restarts = Len(sent)

\* The receiver thread gets through everything that was sent.
AllRead == <>(p = Len(stream) + 1)
=============================================================================
