---------------------------- MODULE MCFrameTraffic ----------------------------
(* FrameTraffic over two-bit bytes: two segments, of which the second        *)
(* arrives as sent.                                                          *)
EXTENDS FrameTraffic

BitOf(a, i) == (a \div i) % 2
Bit2Xor(a, b) == ((BitOf(a, 1) + BitOf(b, 1)) % 2)
                 + (2 * ((BitOf(a, 2) + BitOf(b, 2)) % 2))

Noise == {<< >>, <<HeadLo>>, <<HeadHi>>, <<HeadLo, HeadLo>>, <<HeadLo, 0>>}

\* Data that look like a header, and some that are cut modulo 4.
Data  == {<< >>, <<HeadLo>>, <<HeadLo, HeadHi>>, <<HeadHi, 0, 0, HeadLo, HeadHi>>}

Sending(bads) == [noise : Noise, type : {<<HeadLo, HeadHi>>}, data : Data,
                  bad : bads, flip : {1}]

TwoSegments == {<<g, h>> : g \in Sending({0, 1, 3}), h \in Sending({0})}
=============================================================================
