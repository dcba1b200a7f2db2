---------------------------- MODULE MCFrameParser ----------------------------
(* FrameParser over one-bit bytes: every stream of Size bits, cut into reads *)
(* in every possible way.  With LenLimit 2 a declared length of 3 is over    *)
(* the limit, 2 is a frame without data, and 0 and 1 make len wrap at 5.     *)
EXTENDS FrameParser

CONSTANT Size

BitXor(a, b) == (a + b) % 2

AllStreams == [1..Size -> Byte]
=============================================================================
