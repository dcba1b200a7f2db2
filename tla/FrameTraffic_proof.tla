-------------------------- MODULE FrameTraffic_proof --------------------------
(* The round trip of FrameTraffic, for every byte alphabet, every header,    *)
(* every kind of noise, data and damage, and any number of frames.           *)
EXTENDS FrameTraffic, FrameParser_proof

-----------------------------------------------------------------------------
(* FoldLeft, and with it the check byte, has a value after each element. *)

FoldStep(s, f, d) == IF d = {} THEN 0 ELSE Xor(f[d \ {Max(d)}], s[Max(d)])

LEMMA MaxOfInterval ==
    ASSUME NEW m \in Nat, NEW d \in SUBSET (1..m + 1), m + 1 \in d
    PROVE  Max(d) = m + 1
<1>1. \A x \in d : x \in Nat /\ m + 1 >= x
  OBVIOUS
<1>2. \A x \in d : x >= m + 1 => x = m + 1
  BY <1>1
<1>. QED BY <1>1, <1>2 DEF Max

LEMMA FoldExists ==
    ASSUME NEW s, NEW m \in Nat
    PROVE  \E f : f = [d \in SUBSET (1..m) |-> FoldStep(s, f, d)]
<1>. DEFINE S == {n \in Nat : \E f : f = [d \in SUBSET (1..n) |-> FoldStep(s, f, d)]}
<1>1. 0 \in S
  <2>1. SUBSET (1..0) = {{}}
    OBVIOUS
  <2>2. [d \in {{}} |-> 0] = [d \in SUBSET (1..0) |-> FoldStep(s, [e \in {{}} |-> 0], d)]
    BY <2>1 DEF FoldStep
  <2>. QED BY <2>2
<1>2. ASSUME NEW n \in Nat, n \in S PROVE n + 1 \in S
  <2>1. PICK f : f = [d \in SUBSET (1..n) |-> FoldStep(s, f, d)]
    BY <1>2
  <2>. DEFINE g == [d \in SUBSET (1..n + 1) |->
                      IF n + 1 \in d THEN Xor(f[d \ {n + 1}], s[n + 1]) ELSE f[d]]
  <2>2. ASSUME NEW d \in SUBSET (1..n + 1) PROVE g[d] = FoldStep(s, g, d)
    <3>1. CASE n + 1 \in d
      <4>1. Max(d) = n + 1
        BY <3>1, MaxOfInterval
      <4>2. d \ {n + 1} \in SUBSET (1..n + 1) /\ n + 1 \notin d \ {n + 1}
        OBVIOUS
      <4>3. g[d \ {n + 1}] = f[d \ {n + 1}]
        BY <4>2
      <4>4. g[d] = Xor(f[d \ {n + 1}], s[n + 1])
        BY <3>1
      <4>. HIDE DEF g
      <4>. QED BY <3>1, <4>1, <4>3, <4>4 DEF FoldStep
    <3>2. CASE n + 1 \notin d
      <4>1. d \in SUBSET (1..n)
        BY <3>2
      <4>2. g[d] = f[d] /\ f[d] = FoldStep(s, f, d)
        BY <2>1, <3>2, <4>1
      <4>3. CASE d = {}
        <5>. HIDE DEF g
        <5>. QED BY <4>2, <4>3 DEF FoldStep
      <4>4. CASE d # {}
        <5>1. d \ {Max(d)} \in SUBSET (1..n + 1) /\ n + 1 \notin d \ {Max(d)}
          BY <3>2
        <5>2. g[d \ {Max(d)}] = f[d \ {Max(d)}]
          BY <5>1
        <5>. HIDE DEF g
        <5>. QED BY <4>2, <4>4, <5>2 DEF FoldStep
      <4>. QED BY <4>3, <4>4
    <3>. QED BY <3>1, <3>2
  <2>3. g = [d \in SUBSET (1..n + 1) |-> FoldStep(s, g, d)]
    <3>. DEFINE h == [d \in SUBSET (1..n + 1) |-> FoldStep(s, g, d)]
    <3>1. DOMAIN g = SUBSET (1..n + 1) /\ g = [d \in DOMAIN g |-> g[d]]
      OBVIOUS
    <3>. HIDE DEF g
    <3>. QED BY <2>2, <3>1
  <2>. QED
    <3>. HIDE DEF g
    <3>. QED BY <2>3
<1>. HIDE DEF S
<1>3. m \in S
  BY <1>1, <1>2, SetInduction
<1>. QED BY <1>3 DEF S

\* The running check byte of s.
Running(s, acc) == /\ acc[0] = 0
                   /\ \A k \in 1..Len(s) : acc[k] = Xor(acc[k - 1], s[k])

LEMMA FoldRuns ==
    ASSUME NEW s \in Seq(Byte)
    PROVE  \E acc : Running(s, acc) /\ FoldLeft(Xor, 0, s) = acc[Len(s)]
<1>. DEFINE f == CHOOSE f : f = [d \in SUBSET (DOMAIN s) |-> FoldStep(s, f, d)]
            acc == [k \in 0..Len(s) |-> f[1..k]]
<1>1. FoldLeft(Xor, 0, s) = f[DOMAIN s]
  BY DEF FoldLeft, MapThenFoldSet, FoldStep
<1>2. DOMAIN s = 1..Len(s) /\ Len(s) \in Nat
  BY LenProperties
<1>3. f = [d \in SUBSET (1..Len(s)) |-> FoldStep(s, f, d)]
  BY <1>2, FoldExists
<1>. HIDE DEF f
<1>4. f[{}] = 0
  BY <1>3 DEF FoldStep
<1>5. ASSUME NEW k \in 1..Len(s) PROVE f[1..k] = Xor(f[1..k - 1], s[k])
  <2>1. k \in Nat /\ k \in 1..k /\ 1..k \in SUBSET (1..Len(s))
    BY <1>2
  <2>2. Max(1..k) = k
    <3>1. k - 1 \in Nat /\ (k - 1) + 1 = k
      BY <1>2
    <3>2. 1..k \in SUBSET (1..(k - 1) + 1) /\ (k - 1) + 1 \in 1..k
      BY <2>1, <3>1
    <3>3. Max(1..k) = (k - 1) + 1
      BY <3>1, <3>2, MaxOfInterval
    <3>. QED BY <3>1, <3>3
  <2>3. (1..k) \ {k} = 1..k - 1
    BY <1>2
  <2>4. f[1..k] = FoldStep(s, f, 1..k)
    BY <1>3, <2>1
  <2>. QED BY <2>1, <2>2, <2>3, <2>4 DEF FoldStep
<1>6. Running(s, acc)
  <2>1. 1..0 = {} /\ 0 \in 0..Len(s)
    BY <1>2
  <2>2. acc[0] = 0
    BY <1>4, <2>1
  <2>3. ASSUME NEW k \in 1..Len(s) PROVE acc[k] = Xor(acc[k - 1], s[k])
    <3>1. k \in 0..Len(s) /\ k - 1 \in 0..Len(s)
      BY <1>2
    <3>. QED BY <1>5, <3>1
  <2>. QED BY <2>2, <2>3 DEF Running
<1>7. acc[Len(s)] = f[1..Len(s)]
  BY <1>2
<1>. HIDE DEF acc
<1>. QED BY <1>1, <1>2, <1>6, <1>7

LEMMA RunningTyped ==
    ASSUME NEW s \in Seq(Byte), NEW acc, Running(s, acc)
    PROVE  \A k \in 0..Len(s) : acc[k] \in Byte
<1>. DEFINE S == {k \in Nat : k \in 0..Len(s) => acc[k] \in Byte}
<1>0. Len(s) \in Nat
  BY LenProperties
<1>1. 0 \in S
  BY ByteAssumption DEF Running
<1>2. ASSUME NEW n \in Nat, n \in S PROVE n + 1 \in S
  <2>1. CASE n + 1 \in 1..Len(s)
    <3>1. s[n + 1] \in Byte /\ acc[n] \in Byte
      BY <1>0, <1>2, <2>1, ElementOfSeq
    <3>2. acc[n + 1] = Xor(acc[(n + 1) - 1], s[n + 1]) /\ (n + 1) - 1 = n
      BY <2>1 DEF Running
    <3>3. acc[n + 1] \in Byte
      BY <3>1, <3>2, ByteAssumption
    <3>. QED BY <3>3
  <2>. QED BY <1>0, <2>1
<1>. HIDE DEF S
<1>3. Nat \subseteq S
  BY <1>1, <1>2, SetInduction
<1>. QED BY <1>0, <1>3 DEF S

\* Two strings that begin alike have the same check bytes so far.
LEMMA RunningSame ==
    ASSUME NEW s \in Seq(Byte), NEW t \in Seq(Byte), NEW a, NEW b,
           Running(s, a), Running(t, b),
           NEW m \in Nat, m <= Len(s), m <= Len(t),
           \A k \in 1..m : s[k] = t[k]
    PROVE  a[m] = b[m]
<1>. DEFINE S == {k \in Nat : k <= m => a[k] = b[k]}
<1>0. Len(s) \in Nat /\ Len(t) \in Nat
  BY LenProperties
<1>1. 0 \in S
  BY DEF Running
<1>2. ASSUME NEW n \in Nat, n \in S PROVE n + 1 \in S
  <2>1. CASE n + 1 <= m
    <3>1. n + 1 \in 1..Len(s) /\ n + 1 \in 1..Len(t) /\ n + 1 \in 1..m /\ n <= m
      BY <1>0, <2>1
    <3>2. /\ a[n + 1] = Xor(a[(n + 1) - 1], s[n + 1])
          /\ b[n + 1] = Xor(b[(n + 1) - 1], t[n + 1])
      BY <3>1 DEF Running
    <3>3. (n + 1) - 1 = n /\ a[n] = b[n] /\ s[n + 1] = t[n + 1]
      BY <1>2, <3>1
    <3>. QED BY <3>2, <3>3
  <2>. QED BY <2>1
<1>. HIDE DEF S
<1>3. Nat \subseteq S
  BY <1>1, <1>2, SetInduction
<1>. QED BY <1>3 DEF S

LEMMA FoldTyped ==
    ASSUME NEW s \in Seq(Byte)
    PROVE  FoldLeft(Xor, 0, s) \in Byte
<1>1. PICK acc : Running(s, acc) /\ FoldLeft(Xor, 0, s) = acc[Len(s)]
  BY FoldRuns
<1>2. Len(s) \in 0..Len(s)
  BY LenProperties
<1>. QED BY <1>1, <1>2, RunningTyped

LEMMA FoldAppend ==
    ASSUME NEW s \in Seq(Byte), NEW x \in Byte
    PROVE  FoldLeft(Xor, 0, Append(s, x)) = Xor(FoldLeft(Xor, 0, s), x)
<1>. DEFINE t == Append(s, x)
<1>0. /\ Len(s) \in Nat /\ t \in Seq(Byte) /\ Len(t) = Len(s) + 1
      /\ t[Len(s) + 1] = x /\ \A k \in 1..Len(s) : t[k] = s[k]
  BY LenProperties, AppendProperties
<1>. HIDE DEF t
<1>1. PICK a : Running(s, a) /\ FoldLeft(Xor, 0, s) = a[Len(s)]
  BY FoldRuns
<1>2. PICK b : Running(t, b) /\ FoldLeft(Xor, 0, t) = b[Len(t)]
  BY <1>0, FoldRuns
<1>3. b[Len(s)] = a[Len(s)]
  BY <1>0, <1>1, <1>2, RunningSame
<1>4. b[Len(s) + 1] = Xor(b[(Len(s) + 1) - 1], t[Len(s) + 1])
  <2>1. Len(s) + 1 \in 1..Len(t)
    BY <1>0
  <2>. QED BY <1>2, <2>1 DEF Running
<1>5. (Len(s) + 1) - 1 = Len(s)
  BY <1>0
<1>6. FoldLeft(Xor, 0, t) = Xor(FoldLeft(Xor, 0, s), x)
  BY <1>0, <1>1, <1>2, <1>3, <1>4, <1>5
<1>. QED BY <1>6 DEF t

\* Exclusive or can be undone.
LEMMA XorCancels ==
    ASSUME NEW a \in Byte, NEW b \in Byte, NEW c \in Byte
    PROVE  /\ Xor(a, b) = Xor(a, c) => b = c
           /\ Xor(a, c) = Xor(b, c) => a = b
<1>1. \A x, y \in Byte : Xor(x, Xor(x, y)) = y
  <2>. TAKE x, y \in Byte
  <2>1. Xor(x, Xor(x, y)) = Xor(Xor(x, x), y)
    BY XorAssumption
  <2>2. Xor(x, x) = 0 /\ Xor(0, y) = Xor(y, 0) /\ Xor(y, 0) = y
    BY XorAssumption, ByteAssumption
  <2>. QED BY <2>1, <2>2
<1>2. Xor(a, c) = Xor(c, a) /\ Xor(b, c) = Xor(c, b)
  BY XorAssumption
<1>. QED BY <1>1, <1>2

\* A string of which one byte is changed has another check byte.
LEMMA FoldChanged ==
    ASSUME NEW s \in Seq(Byte), NEW t \in Seq(Byte), Len(t) = Len(s),
           NEW j \in 1..Len(s), s[j] # t[j],
           \A k \in 1..Len(s) : k # j => s[k] = t[k]
    PROVE  FoldLeft(Xor, 0, s) # FoldLeft(Xor, 0, t)
<1>0. Len(s) \in Nat /\ j \in Nat /\ j - 1 \in Nat
  BY LenProperties
<1>1. PICK a : Running(s, a) /\ FoldLeft(Xor, 0, s) = a[Len(s)]
  BY FoldRuns
<1>2. PICK b : Running(t, b) /\ FoldLeft(Xor, 0, t) = b[Len(t)]
  BY FoldRuns
<1>3. /\ \A k \in 0..Len(s) : a[k] \in Byte /\ b[k] \in Byte
      /\ \A k \in 1..Len(s) : s[k] \in Byte /\ t[k] \in Byte
  BY <1>1, <1>2, RunningTyped, ElementOfSeq
<1>4. \A k \in 1..Len(s) : a[k] = Xor(a[k - 1], s[k]) /\ b[k] = Xor(b[k - 1], t[k])
  BY <1>1, <1>2 DEF Running
<1>5. a[j - 1] = b[j - 1]
  <2>1. j - 1 <= Len(s) /\ \A k \in 1..j - 1 : s[k] = t[k]
    BY <1>0
  <2>. QED BY <1>0, <1>1, <1>2, <2>1, RunningSame
<1>6. a[j] # b[j]
  <2>1. a[j - 1] \in Byte
    <3>1. j - 1 \in 0..Len(s)
      BY <1>0
    <3>. QED BY <1>3, <3>1
  <2>2. a[j] = Xor(a[j - 1], s[j]) /\ b[j] = Xor(a[j - 1], t[j])
    BY <1>4, <1>5
  <2>3. s[j] \in Byte /\ t[j] \in Byte
    BY <1>3
  <2>. QED BY <2>1, <2>2, <2>3, XorCancels
<1>. DEFINE S == {k \in Nat : k \in j..Len(s) => a[k] # b[k]}
<1>7. 0 \in S
  BY <1>0
<1>8. ASSUME NEW n \in Nat, n \in S PROVE n + 1 \in S
  <2>1. CASE n + 1 = j
    BY <1>6, <2>1
  <2>2. CASE n + 1 \in j..Len(s) /\ n + 1 # j
    <3>1. n \in j..Len(s) /\ n \in 0..Len(s) /\ n + 1 \in 1..Len(s) /\ (n + 1) - 1 = n
      BY <1>0, <2>2
    <3>2. a[n + 1] = Xor(a[n], s[n + 1]) /\ b[n + 1] = Xor(b[n], s[n + 1])
      BY <1>4, <2>2, <3>1
    <3>3. a[n] # b[n] /\ a[n] \in Byte /\ b[n] \in Byte /\ s[n + 1] \in Byte
      BY <1>3, <1>8, <3>1
    <3>4. Xor(a[n], s[n + 1]) # Xor(b[n], s[n + 1])
      BY <3>3, XorCancels
    <3>. QED BY <3>2, <3>4
  <2>. QED BY <2>1, <2>2
<1>. HIDE DEF S
<1>9. Nat \subseteq S
  BY <1>7, <1>8, SetInduction
<1>. QED BY <1>0, <1>1, <1>2, <1>9 DEF S

-----------------------------------------------------------------------------
(* The frames buildCmd makes *)

LEMMA DivMod ==
    ASSUME NEW a \in Nat, NEW b \in Nat \ {0}
    PROVE  /\ a % b \in 0..b - 1 /\ a % b <= a
           /\ a \div b \in Nat
           /\ (a % b) + (a \div b) * b = a
OBVIOUS

LEMMA DivBelow ==
    ASSUME NEW a \in Nat, NEW b \in Nat \ {0}, a < b * b
    PROVE  a \div b \in 0..b - 1
OBVIOUS

LEMMA KeptTyped ==
    ASSUME NEW data \in Seq(Byte)
    PROVE  /\ Kept(data) \in Seq(Byte)
           /\ Len(Kept(data)) = Len(data) % DataMod
           /\ Len(Kept(data)) \in 0..DataMod - 1
<1>1. Len(data) \in Nat /\ DataMod \in Nat \ {0}
  BY LenProperties, LenAssumption
<1>2. Len(data) % DataMod \in 0..DataMod - 1 /\ Len(data) % DataMod <= Len(data)
  BY <1>1, DivMod
<1>. DEFINE n == Len(data) % DataMod
<1>3. n \in Nat /\ n <= Len(data) /\ n \in 0..DataMod - 1
  BY <1>1, <1>2
<1>4. Kept(data) = SubSeq(data, 1, n)
  BY DEF Kept
<1>. HIDE DEF n
<1>5. \A i \in 1..n : data[i] \in Byte
  BY <1>1, <1>3, ElementOfSeq
<1>6. SubSeq(data, 1, n) \in Seq(Byte) /\ Len(SubSeq(data, 1, n)) = n
  BY <1>3, <1>5, SubSeqProperties
<1>. QED BY <1>3, <1>4, <1>6 DEF n

LEMMA Joined ==
    ASSUME NEW S, NEW a \in Seq(S), NEW b \in Seq(S)
    PROVE  /\ Len(a) \in Nat /\ Len(b) \in Nat
           /\ a \o b \in Seq(S) /\ Len(a \o b) = Len(a) + Len(b)
           /\ \A i \in 1..Len(a) : (a \o b)[i] = a[i]
           /\ \A i \in 1..Len(b) : (a \o b)[Len(a) + i] = b[i]
<1>1. Len(a) \in Nat /\ Len(b) \in Nat
  BY LenProperties
<1>2. /\ a \o b \in Seq(S) /\ Len(a \o b) = Len(a) + Len(b)
      /\ \A i \in 1..Len(a) + Len(b) :
           (a \o b)[i] = IF i <= Len(a) THEN a[i] ELSE b[i - Len(a)]
  BY ConcatProperties
<1>3. ASSUME NEW i \in 1..Len(a) PROVE (a \o b)[i] = a[i]
  <2>1. i \in 1..Len(a) + Len(b) /\ i <= Len(a)
    BY <1>1
  <2>. QED BY <1>2, <2>1
<1>4. ASSUME NEW i \in 1..Len(b) PROVE (a \o b)[Len(a) + i] = b[i]
  <2>1. Len(a) + i \in 1..Len(a) + Len(b) /\ ~(Len(a) + i <= Len(a))
        /\ (Len(a) + i) - Len(a) = i
    BY <1>1
  <2>. QED BY <1>2, <2>1
<1>. QED BY <1>1, <1>2, <1>3, <1>4

LEMMA JoinedBytes ==
    ASSUME NEW a \in Seq(Byte), NEW b \in Seq(Byte)
    PROVE  /\ Len(a) \in Nat /\ Len(b) \in Nat
           /\ a \o b \in Seq(Byte) /\ Len(a \o b) = Len(a) + Len(b)
           /\ \A i \in 1..Len(a) : (a \o b)[i] = a[i]
           /\ \A i \in 1..Len(b) : (a \o b)[Len(a) + i] = b[i]
BY Joined

\* The part of a frame that its check byte covers.
LEMMA BehindLength ==
    ASSUME NEW s \in Seq(Byte), NEW m \in Nat, Len(s) = 4 + m
    PROVE  /\ SubSeq(s, 5, Len(s)) \in Seq(Byte)
           /\ Len(SubSeq(s, 5, Len(s))) = m
           /\ \A k \in 1..m : SubSeq(s, 5, Len(s))[k] = s[4 + k]
<1>1. \A i \in 5..4 + m : s[i] \in Byte
  BY ElementOfSeq
<1>2. /\ SubSeq(s, 5, 4 + m) \in Seq(Byte)
      /\ Len(SubSeq(s, 5, 4 + m)) = IF 5 <= 4 + m THEN 4 + m - 5 + 1 ELSE 0
      /\ \A i \in 1..4 + m - 5 + 1 : SubSeq(s, 5, 4 + m)[i] = s[5 + i - 1]
  <2>1. 5 \in Int /\ 4 + m \in Int
    OBVIOUS
  <2>. QED BY <1>1, <2>1, SubSeqProperties
<1>3. \A k \in 1..m : k \in 1..4 + m - 5 + 1 /\ 5 + k - 1 = 4 + k
  OBVIOUS
<1>4. Len(SubSeq(s, 5, 4 + m)) = m
  BY <1>2
<1>. QED BY <1>2, <1>3, <1>4

\* Header and length of a frame with n bytes of data.
Shape(f, n) == /\ f \in Seq(Byte)
               /\ Len(f) = 7 + n
               /\ f[1] = HeadLo /\ f[2] = HeadHi
               /\ Declared(f) = 2 + n

LEMMA BuiltFrame ==
    ASSUME NEW type \in Seq(Byte), Len(type) = 2, NEW data \in Seq(Byte),
           NEW f, f = BuildCmd(type, data)
    PROVE  /\ Shape(f, Len(Kept(data)))
           /\ Bcc(f) = 0
           /\ PayloadOf(f) = Kept(data)
<1>. DEFINE kept == Kept(data)
            n == Len(kept)
            lo == (2 + n) % Base
            hi == (2 + n) \div Base
            head == <<HeadLo, HeadHi, lo, hi>>
            body == head \o type \o kept
<1>1. /\ kept \in Seq(Byte) /\ n \in Nat /\ n = Len(data) % DataMod
      /\ 2 + n \in Nat /\ 2 + n < Base * Base
  <2>1. kept \in Seq(Byte) /\ n = Len(data) % DataMod /\ n \in 0..DataMod - 1
    BY KeptTyped
  <2>. HIDE DEF n
  <2>2. n \in Nat /\ 2 + n \in Nat /\ 2 + n <= DataMod + 1 /\ Base * Base \in Nat
    BY <2>1, LenAssumption
  <2>. QED BY <2>1, <2>2, WidthAssumption, LenAssumption
<1>2. lo \in Byte /\ hi \in Byte /\ lo + hi * Base = 2 + n
  <2>. HIDE DEF n
  <2>1. Base \in Nat \ {0}
    BY LenAssumption
  <2>2. lo \in 0..Base - 1 /\ lo + hi * Base = 2 + n
    BY <1>1, <2>1, DivMod
  <2>3. hi \in 0..Base - 1
    BY <1>1, <2>1, DivBelow
  <2>. QED BY <2>2, <2>3, WidthAssumption
<1>3. f = Append(body, Bcc(body))
  BY <1>1 DEF BuildCmd, Kept
<1>. HIDE DEF kept, n, lo, hi
<1>4. /\ head \in Seq(Byte) /\ Len(head) = 4
      /\ head[1] = HeadLo /\ head[2] = HeadHi /\ head[3] = lo /\ head[4] = hi
  BY <1>2, ByteAssumption
<1>. HIDE DEF head
<1>. DEFINE front == head \o type
<1>5. /\ front \in Seq(Byte) /\ Len(front) = 6
      /\ front[1] = HeadLo /\ front[2] = HeadHi /\ front[3] = lo /\ front[4] = hi
  <2>1. /\ front \in Seq(Byte) /\ Len(front) = Len(head) + Len(type)
        /\ \A i \in 1..Len(head) : front[i] = head[i]
    <3>1. head \in Seq(Byte) /\ type \in Seq(Byte)
      BY <1>4
    <3>. QED BY <3>1, JoinedBytes
  <2>2. /\ 1 \in 1..Len(head) /\ 2 \in 1..Len(head)
        /\ 3 \in 1..Len(head) /\ 4 \in 1..Len(head)
    BY <1>4
  <2>. HIDE DEF front
  <2>. QED BY <1>4, <2>1, <2>2
<1>6. body = front \o kept
  OBVIOUS
<1>. HIDE DEF front, body
<1>7. /\ body \in Seq(Byte) /\ Len(body) = 6 + n
      /\ body[1] = HeadLo /\ body[2] = HeadHi /\ body[3] = lo /\ body[4] = hi
      /\ \A k \in 1..n : body[6 + k] = kept[k]
  <2>1. Len(kept) = n
    BY DEF n
  <2>2. /\ body \in Seq(Byte) /\ Len(body) = 6 + n
        /\ \A i \in 1..6 : body[i] = front[i]
        /\ \A i \in 1..n : body[6 + i] = kept[i]
    <3>1. /\ front \o kept \in Seq(Byte) /\ Len(front \o kept) = Len(front) + Len(kept)
          /\ \A i \in 1..Len(front) : (front \o kept)[i] = front[i]
          /\ \A i \in 1..Len(kept) : (front \o kept)[Len(front) + i] = kept[i]
      <4>1. front \in Seq(Byte) /\ kept \in Seq(Byte)
        BY <1>1, <1>5
      <4>. QED BY <4>1, JoinedBytes
    <3>. QED BY <1>5, <1>6, <2>1, <3>1
  <2>3. 1 \in 1..6 /\ 2 \in 1..6 /\ 3 \in 1..6 /\ 4 \in 1..6
    OBVIOUS
  <2>. QED BY <1>5, <2>2, <2>3
<1>. DEFINE tail == SubSeq(body, 5, Len(body))
<1>8. tail \in Seq(Byte) /\ Len(tail) = 2 + n /\ \A k \in 1..2 + n : tail[k] = body[4 + k]
  <2>1. body \in Seq(Byte) /\ 2 + n \in Nat /\ Len(body) = 4 + (2 + n)
    BY <1>1, <1>7
  <2>. QED BY <2>1, BehindLength
<1>9. Bcc(body) = FoldLeft(Xor, 0, tail) /\ Bcc(body) \in Byte
  BY <1>8, FoldTyped DEF Bcc
<1>. HIDE DEF tail
<1>10. /\ f \in Seq(Byte) /\ Len(f) = 7 + n /\ f[7 + n] = Bcc(body)
       /\ \A k \in 1..6 + n : f[k] = body[k]
  <2>1. (6 + n) + 1 = 7 + n
    BY <1>1
  <2>2. /\ f \in Seq(Byte) /\ Len(f) = (6 + n) + 1 /\ f[(6 + n) + 1] = Bcc(body)
        /\ \A k \in 1..6 + n : f[k] = body[k]
    BY <1>3, <1>7, <1>9, AppendProperties
  <2>. QED BY <2>1, <2>2
<1>11. Shape(f, n)
  <2>1. 1 \in 1..6 + n /\ 2 \in 1..6 + n /\ 3 \in 1..6 + n /\ 4 \in 1..6 + n
    BY <1>1
  <2>. QED BY <1>2, <1>7, <1>10, <2>1 DEF Shape, Declared
<1>12. SubSeq(f, 5, Len(f)) = Append(tail, Bcc(body))
  <2>1. /\ Len(SubSeq(f, 5, Len(f))) = 3 + n
        /\ SubSeq(f, 5, Len(f)) \in Seq(Byte)
        /\ \A k \in 1..3 + n : SubSeq(f, 5, Len(f))[k] = f[4 + k]
    <3>1. f \in Seq(Byte) /\ 3 + n \in Nat /\ Len(f) = 4 + (3 + n)
      BY <1>1, <1>10
    <3>. QED BY <3>1, BehindLength
  <2>2. /\ Len(Append(tail, Bcc(body))) = 3 + n
        /\ Append(tail, Bcc(body)) \in Seq(Byte)
        /\ Append(tail, Bcc(body))[3 + n] = Bcc(body)
        /\ \A k \in 1..2 + n : Append(tail, Bcc(body))[k] = tail[k]
    <3>1. (2 + n) + 1 = 3 + n
      BY <1>1
    <3>. QED BY <1>8, <1>9, <3>1, AppendProperties
  <2>3. ASSUME NEW k \in 1..3 + n
        PROVE  SubSeq(f, 5, Len(f))[k] = Append(tail, Bcc(body))[k]
    <3>1. CASE k = 3 + n
      <4>1. 4 + (3 + n) = 7 + n
        BY <1>1
      <4>. QED BY <1>10, <2>1, <2>2, <3>1, <4>1
    <3>2. CASE k \in 1..2 + n
      <4>1. 4 + k \in 1..6 + n
        BY <1>1, <3>2
      <4>. QED BY <1>8, <1>10, <2>1, <2>2, <3>2, <4>1
    <3>3. k = 3 + n \/ k \in 1..2 + n
      BY <1>1
    <3>. QED BY <3>1, <3>2, <3>3
  <2>. DEFINE u == SubSeq(f, 5, Len(f))
              v == Append(tail, Bcc(body))
  <2>4. /\ u \in Seq(Byte) /\ v \in Seq(Byte) /\ Len(u) = Len(v)
        /\ \A k \in 1..Len(u) : u[k] = v[k]
    BY <2>1, <2>2, <2>3
  <2>. HIDE DEF u, v
  <2>5. u = v
    BY <2>4, SeqEqual
  <2>. QED BY <2>5 DEF u, v
<1>13. Bcc(f) = 0
  <2>1. Bcc(f) = Xor(FoldLeft(Xor, 0, tail), Bcc(body))
    BY <1>8, <1>9, <1>12, FoldAppend DEF Bcc
  <2>. QED BY <1>9, <2>1, XorAssumption
<1>14. PayloadOf(f) = kept
  <2>1. Len(f) - 1 = 6 + n
    BY <1>1, <1>10
  <2>2. /\ Len(SubSeq(f, 7, 6 + n)) = n
        /\ SubSeq(f, 7, 6 + n) \in Seq(Byte)
        /\ \A k \in 1..n : SubSeq(f, 7, 6 + n)[k] = f[6 + k]
    <3>1. \A i \in 7..6 + n : f[i] \in Byte
      BY <1>1, <1>10, ElementOfSeq
    <3>. QED BY <1>1, <1>10, <3>1, SubSeqProperties
  <2>3. ASSUME NEW k \in 1..n PROVE SubSeq(f, 7, 6 + n)[k] = kept[k]
    <3>1. 6 + k \in 1..6 + n
      BY <1>1
    <3>. QED BY <1>7, <1>10, <2>2, <3>1
  <2>4. Len(kept) = n
    BY DEF n
  <2>5. SubSeq(f, 7, 6 + n) = kept
    BY <1>1, <2>2, <2>3, <2>4, SeqEqual
  <2>. QED BY <2>1, <2>5 DEF PayloadOf
<1>15. kept = Kept(data) /\ n = Len(Kept(data))
  BY DEF kept, n
<1>. QED BY <1>11, <1>13, <1>14, <1>15

\* A damaged frame keeps its header and its length, but its check byte is off.
LEMMA ArrivingFrame ==
    ASSUME NEW g \in Segment, NEW f, f = Arriving(g)
    PROVE  /\ Shape(f, Len(Kept(g.data)))
           /\ Len(Kept(g.data)) \in 0..DataMod - 1
           /\ g.bad = 0 => Bcc(f) = 0 /\ PayloadOf(f) = Kept(g.data)
           /\ g.bad # 0 => Bcc(f) # 0
<1>. DEFINE n == Len(Kept(g.data))
            b == BuildCmd(g.type, g.data)
            j == 4 + g.bad
<1>1. /\ g.type \in Seq(Byte) /\ Len(g.type) = 2 /\ g.data \in Seq(Byte)
      /\ g.bad \in Nat /\ g.flip \in Byte /\ g.flip # 0
      /\ g.bad <= 3 + n
  BY DEF Segment
<1>2. n \in 0..DataMod - 1 /\ n \in Nat
  <2>1. n \in 0..DataMod - 1
    BY <1>1, KeptTyped
  <2>. HIDE DEF n
  <2>. QED BY <2>1, LenAssumption
<1>3. Shape(b, n) /\ Bcc(b) = 0 /\ PayloadOf(b) = Kept(g.data)
  BY <1>1, BuiltFrame
<1>4. f = IF g.bad = 0 THEN b ELSE [b EXCEPT ![j] = Xor(@, g.flip)]
  BY DEF Arriving
<1>. HIDE DEF b, n
<1>5. ASSUME g.bad # 0 PROVE Shape(f, n) /\ Bcc(f) # 0
  <2>1. b \in Seq(Byte) /\ Len(b) = 7 + n
    BY <1>3 DEF Shape
  <2>2. j \in 1..Len(b) /\ j >= 5
    BY <1>1, <1>2, <1>5, <2>1
  <2>. HIDE DEF j
  <2>3. b[j] \in Byte /\ Xor(b[j], g.flip) \in Byte
    BY <1>1, <2>1, <2>2, ElementOfSeq, ByteAssumption
  <2>4. Xor(b[j], g.flip) # b[j]
    <3>1. Xor(b[j], 0) = b[j]
      BY <2>3, XorAssumption
    <3>. QED BY <1>1, <2>3, <3>1, XorCancels, ByteAssumption
  <2>5. f = [b EXCEPT ![j] = Xor(b[j], g.flip)]
    BY <1>4, <1>5
  <2>6. /\ f \in Seq(Byte) /\ Len(f) = 7 + n
        /\ f[j] = Xor(b[j], g.flip)
        /\ \A k \in 1..Len(b) : k # j => f[k] = b[k]
    <3>1. b \in [1..Len(b) -> Byte] /\ Len(b) \in Nat
      BY <2>1, LenProperties
    <3>2. f \in [1..Len(b) -> Byte]
      BY <2>2, <2>3, <2>5, <3>1
    <3>3. f \in Seq(Byte) /\ Len(f) = Len(b)
      BY <3>1, <3>2
    <3>. QED BY <2>1, <2>2, <2>5, <3>1, <3>3
  <2>7. Shape(f, n)
    <3>1. \A k \in {1, 2, 3, 4} : k \in 1..Len(b) /\ k # j
      BY <1>2, <2>1, <2>2
    <3>2. f[1] = b[1] /\ f[2] = b[2] /\ f[3] = b[3] /\ f[4] = b[4]
      BY <2>6, <3>1
    <3>. QED BY <1>3, <2>6, <3>2 DEF Shape, Declared
  <2>8. Bcc(f) # Bcc(b)
    <3>. DEFINE s == SubSeq(b, 5, Len(b))
                t == SubSeq(f, 5, Len(f))
                i == j - 4
    <3>1. /\ b \in Seq(Byte) /\ f \in Seq(Byte) /\ 3 + n \in Nat
          /\ Len(b) = 4 + (3 + n) /\ Len(f) = 4 + (3 + n)
      BY <1>2, <2>1, <2>6
    <3>2. /\ s \in Seq(Byte) /\ Len(s) = 3 + n /\ \A k \in 1..3 + n : s[k] = b[4 + k]
          /\ t \in Seq(Byte) /\ Len(t) = 3 + n /\ \A k \in 1..3 + n : t[k] = f[4 + k]
      BY <3>1, BehindLength
    <3>3. i \in 1..3 + n /\ 4 + i = j
      BY <1>2, <2>1, <2>2
    <3>4. Bcc(b) = FoldLeft(Xor, 0, s) /\ Bcc(f) = FoldLeft(Xor, 0, t)
      BY DEF Bcc
    <3>. HIDE DEF s, t, i
    <3>5. s[i] # t[i]
      BY <2>4, <2>6, <3>2, <3>3
    <3>6. ASSUME NEW k \in 1..3 + n, k # i PROVE s[k] = t[k]
      <4>1. 4 + k \in 1..Len(b) /\ 4 + k # j
        BY <1>2, <2>1, <2>2, <3>3, <3>6
      <4>. QED BY <2>6, <3>2, <4>1
    <3>7. /\ s \in Seq(Byte) /\ t \in Seq(Byte) /\ Len(t) = Len(s)
          /\ i \in 1..Len(s) /\ s[i] # t[i]
          /\ \A k \in 1..Len(s) : k # i => s[k] = t[k]
      BY <3>2, <3>3, <3>5, <3>6
    <3>8. FoldLeft(Xor, 0, s) # FoldLeft(Xor, 0, t)
      BY <3>7, FoldChanged
    <3>. QED BY <3>4, <3>8
  <2>. QED BY <1>3, <2>7, <2>8
<1>6. ASSUME g.bad = 0 PROVE Shape(f, n) /\ Bcc(f) = 0 /\ PayloadOf(f) = Kept(g.data)
  BY <1>3, <1>4, <1>6
<1>. QED BY <1>2, <1>5, <1>6 DEF n

-----------------------------------------------------------------------------
(* FlattenSeq has a value after each of its sequences. *)

Flattens(seqs, acc) == /\ acc[0] = << >>
                       /\ \A k \in 1..Len(seqs) : acc[k] = acc[k - 1] \o seqs[k]

FlatStep(seqs, h, i) == IF i = 1 THEN seqs[i] ELSE h[i - 1] \o seqs[i]

LEMMA FlatExists ==
    ASSUME NEW seqs, NEW m \in Nat
    PROVE  \E h : h = [i \in 1..m |-> FlatStep(seqs, h, i)]
<1>. DEFINE S == {n \in Nat : \E h : h = [i \in 1..n |-> FlatStep(seqs, h, i)]}
<1>1. 0 \in S
  <2>1. 1..0 = {}
    OBVIOUS
  <2>2. << >> = [i \in 1..0 |-> FlatStep(seqs, << >>, i)]
    BY <2>1
  <2>. QED BY <2>2
<1>2. ASSUME NEW n \in Nat, n \in S PROVE n + 1 \in S
  <2>1. PICK h : h = [i \in 1..n |-> FlatStep(seqs, h, i)]
    BY <1>2
  <2>. DEFINE g == [i \in 1..n + 1 |-> IF i = n + 1 THEN FlatStep(seqs, h, i) ELSE h[i]]
  <2>2. ASSUME NEW i \in 1..n + 1 PROVE g[i] = FlatStep(seqs, g, i)
    <3>1. g[i] = FlatStep(seqs, h, i)
      BY <2>1
    <3>2. i # 1 => g[i - 1] = h[i - 1]
      OBVIOUS
    <3>. HIDE DEF g
    <3>. QED BY <3>1, <3>2 DEF FlatStep
  <2>3. g = [i \in 1..n + 1 |-> FlatStep(seqs, g, i)]
    <3>1. DOMAIN g = 1..n + 1 /\ g = [i \in DOMAIN g |-> g[i]]
      OBVIOUS
    <3>. HIDE DEF g
    <3>. QED BY <2>2, <3>1
  <2>. HIDE DEF g
  <2>. QED BY <2>3
<1>. HIDE DEF S
<1>3. m \in S
  BY <1>1, <1>2, SetInduction
<1>. QED BY <1>3 DEF S

LEMMA FlattenRuns ==
    ASSUME NEW T, NEW seqs \in Seq(Seq(T))
    PROVE  \E acc : Flattens(seqs, acc) /\ FlattenSeq(seqs) = acc[Len(seqs)]
<1>0. Len(seqs) \in Nat
  BY LenProperties
<1>1. CASE Len(seqs) = 0
  <2>. DEFINE acc == [k \in {0} |-> << >>]
  <2>1. FlattenSeq(seqs) = << >>
    BY <1>1, EmptySeq DEF FlattenSeq
  <2>2. Flattens(seqs, acc) /\ acc[Len(seqs)] = << >>
    BY <1>1 DEF Flattens
  <2>. QED BY <2>1, <2>2
<1>2. CASE Len(seqs) # 0
  <2>. DEFINE h == CHOOSE h : h = [i \in 1..Len(seqs) |-> FlatStep(seqs, h, i)]
              acc == [k \in 0..Len(seqs) |-> IF k = 0 THEN << >> ELSE h[k]]
  <2>1. FlattenSeq(seqs) = h[Len(seqs)]
    BY <1>2 DEF FlattenSeq, FlatStep
  <2>2. h = [i \in 1..Len(seqs) |-> FlatStep(seqs, h, i)]
    BY <1>0, FlatExists
  <2>. HIDE DEF h
  <2>3. acc[0] = << >> /\ \A k \in 1..Len(seqs) : acc[k] = h[k]
    BY <1>0
  <2>. HIDE DEF acc
  <2>4. ASSUME NEW k \in 1..Len(seqs) PROVE acc[k] = acc[k - 1] \o seqs[k]
    <3>1. acc[k] = FlatStep(seqs, h, k)
      BY <2>2, <2>3
    <3>2. CASE k = 1
      <4>1. acc[k] = seqs[k] /\ k - 1 = 0
        BY <3>1, <3>2 DEF FlatStep
      <4>2. seqs[k] \in Seq(T)
        BY ElementOfSeq
      <4>3. << >> \o seqs[k] = seqs[k]
        BY <4>2, ConcatEmptySeq
      <4>. QED BY <2>3, <4>1, <4>3
    <3>3. CASE k # 1
      <4>1. acc[k] = h[k - 1] \o seqs[k]
        BY <3>1, <3>3 DEF FlatStep
      <4>2. k - 1 \in 1..Len(seqs)
        BY <1>0, <3>3
      <4>. QED BY <2>3, <4>1, <4>2
    <3>. QED BY <3>2, <3>3
  <2>5. acc[Len(seqs)] = h[Len(seqs)]
    BY <1>0, <1>2, <2>3
  <2>. QED BY <2>1, <2>3, <2>4, <2>5 DEF Flattens
<1>. QED BY <1>1, <1>2

LEMMA FlattensTyped ==
    ASSUME NEW T, NEW seqs \in Seq(Seq(T)), NEW acc, Flattens(seqs, acc)
    PROVE  \A k \in 0..Len(seqs) : acc[k] \in Seq(T)
<1>. DEFINE S == {k \in Nat : k \in 0..Len(seqs) => acc[k] \in Seq(T)}
<1>0. Len(seqs) \in Nat
  BY LenProperties
<1>1. 0 \in S
  BY EmptySeq DEF Flattens
<1>2. ASSUME NEW n \in Nat, n \in S PROVE n + 1 \in S
  <2>1. CASE n + 1 \in 1..Len(seqs)
    <3>1. seqs[n + 1] \in Seq(T) /\ acc[n] \in Seq(T)
      BY <1>0, <1>2, <2>1, ElementOfSeq
    <3>2. acc[n + 1] = acc[(n + 1) - 1] \o seqs[n + 1]
      BY <2>1 DEF Flattens
    <3>3. (n + 1) - 1 = n
      OBVIOUS
    <3>4. acc[n] \o seqs[n + 1] \in Seq(T)
      BY <3>1, ConcatProperties
    <3>5. acc[n + 1] \in Seq(T)
      BY <3>2, <3>3, <3>4
    <3>. QED BY <3>5
  <2>. QED BY <1>0, <2>1
<1>. HIDE DEF S
<1>3. Nat \subseteq S
  BY <1>1, <1>2, SetInduction
<1>. QED BY <1>0, <1>3 DEF S

\* w is a prefix of s.
Begins(w, s) == Len(w) <= Len(s) /\ \A i \in 1..Len(w) : s[i] = w[i]

\* What has been flattened stays in front.
LEMMA FlattensPrefix ==
    ASSUME NEW T, NEW seqs \in Seq(Seq(T)), NEW acc, Flattens(seqs, acc)
    PROVE  \A k \in 0..Len(seqs) : Begins(acc[k], acc[Len(seqs)])
<1>. DEFINE n == Len(seqs)
            S == {d \in Nat : d <= n => Begins(acc[n - d], acc[n])}
<1>0. n \in Nat /\ \A k \in 0..n : acc[k] \in Seq(T)
  BY LenProperties, FlattensTyped
<1>1. 0 \in S
  <2>1. n - 0 = n /\ Len(acc[n]) \in Nat
    BY <1>0, LenProperties
  <2>. HIDE DEF n
  <2>. QED BY <2>1 DEF Begins
<1>2. ASSUME NEW d \in Nat, d \in S PROVE d + 1 \in S
  <2>. HIDE DEF n
  <2>. SUFFICES ASSUME d + 1 <= n PROVE Begins(acc[n - (d + 1)], acc[n])
    OBVIOUS
  <2>1. /\ n - d \in 1..n /\ n - d \in 0..n /\ (n - d) - 1 = n - (d + 1)
        /\ n - (d + 1) \in 0..n /\ d <= n
    BY <1>0
  <2>2. acc[n - d] = acc[n - (d + 1)] \o seqs[n - d]
    BY <2>1 DEF Flattens, n
  <2>3. seqs[n - d] \in Seq(T) /\ acc[n - (d + 1)] \in Seq(T)
    BY <1>0, <2>1, ElementOfSeq DEF n
  <2>4. Begins(acc[n - d], acc[n])
    BY <1>2, <2>1
  <2>. DEFINE a == acc[n - (d + 1)]
              b == seqs[n - d]
  <2>. HIDE DEF a, b
  <2>5. /\ Len(a) \in Nat /\ Len(b) \in Nat /\ Len(a \o b) = Len(a) + Len(b)
        /\ \A i \in 1..Len(a) : (a \o b)[i] = a[i]
    <3>1. a \in Seq(T) /\ b \in Seq(T)
      BY <2>3 DEF a, b
    <3>. QED BY <3>1, Joined
  <2>6. Begins(a \o b, acc[n])
    BY <2>2, <2>4 DEF a, b
  <2>7. Len(acc[n]) \in Nat
    BY <1>0, LenProperties
  <2>8. Begins(a, acc[n])
    BY <2>5, <2>6, <2>7 DEF Begins
  <2>. QED BY <2>8 DEF a
<1>. HIDE DEF S
<1>3. Nat \subseteq S
  BY <1>1, <1>2, SetInduction
<1>4. ASSUME NEW k \in 0..n PROVE Begins(acc[k], acc[n])
  <2>1. n - k \in Nat /\ n - k <= n /\ n - (n - k) = k
    BY <1>0
  <2>. QED BY <1>3, <2>1 DEF S
<1>. QED BY <1>4

-----------------------------------------------------------------------------
(* The scan of a string in which segments lie one behind the other *)

\* w lies in s behind the first a bytes.
Lies(s, a, w) == a + Len(w) <= Len(s) /\ \A i \in 1..Len(w) : s[a + i] = w[i]

LEMMA NoiseSkipped ==
    ASSUME NEW s \in Seq(Byte), NEW a \in Nat, NEW m \in Nat, a + m <= Len(s),
           \A k \in 1..m : ~HeaderAt(s, a + k)
    PROVE  Scan(s)[a + 1] = Scan(s)[a + m + 1]
<1>. DEFINE S == {k \in Nat : k <= m => Scan(s)[a + 1] = Scan(s)[a + k + 1]}
<1>0. Len(s) \in Nat
  BY LenProperties
<1>1. 0 \in S
  OBVIOUS
<1>2. ASSUME NEW k \in Nat, k \in S PROVE k + 1 \in S
  <2>1. CASE k + 1 <= m
    <3>1. k <= m /\ k + 1 \in 1..m /\ a + (k + 1) \in 1..Len(s) + 1
      BY <1>0, <2>1
    <3>2. Scan(s)[a + (k + 1)] = Scan(s)[a + (k + 1) + 1]
      BY <3>1, NoHeader
    <3>3. a + k + 1 = a + (k + 1)
      OBVIOUS
    <3>. QED BY <1>2, <3>1, <3>2, <3>3
  <2>. QED BY <2>1
<1>. HIDE DEF S
<1>3. m \in S
  BY <1>1, <1>2, SetInduction
<1>. QED BY <1>3 DEF S

LEMMA FrameFound ==
    ASSUME NEW s \in Seq(Byte), NEW a \in Nat, NEW n \in 0..DataMod - 1,
           NEW f, Shape(f, n), Lies(s, a, f)
    PROVE  Scan(s)[a + 1] = (IF Bcc(f) = 0 THEN <<f>> ELSE << >>)
                              \o Scan(s)[a + Len(f) + 1]
<1>1. /\ Len(s) \in Nat /\ n \in Nat /\ f \in Seq(Byte) /\ Len(f) = 7 + n
      /\ a + 7 + n <= Len(s) /\ n < DataMod
  BY LenProperties, LenAssumption DEF Shape, Lies
<1>2. \A k \in 1..7 + n : s[a + k] = f[k]
  BY <1>1 DEF Lies
<1>3. HeaderAt(s, a + 1) /\ DeclaredAt(s, a + 1) = 2 + n
  <2>0. 1 \in 1..7 + n /\ 2 \in 1..7 + n /\ 3 \in 1..7 + n /\ 4 \in 1..7 + n
    BY <1>1
  <2>1. s[a + 1] = f[1] /\ s[a + 2] = f[2] /\ s[a + 3] = f[3] /\ s[a + 4] = f[4]
    BY <1>2, <2>0
  <2>2. (a + 1) + 1 = a + 2 /\ (a + 1) + 2 = a + 3 /\ (a + 1) + 3 = a + 4
    OBVIOUS
  <2>. QED BY <2>1, <2>2 DEF HeaderAt, DeclaredAt, Shape, Declared
<1>4. HasFrame(s, a + 1)
  <2>1. 2 + n <= LenLimit
    BY <1>1, WidthAssumption, LenAssumption
  <2>. QED BY <1>3, <2>1 DEF HasFrame
<1>5. Body(DeclaredAt(s, a + 1)) = n
  <2>1. Dec(2 + n) = 1 + n /\ Dec(1 + n) = n
    BY <1>1 DEF Dec
  <2>. QED BY <1>3, <2>1 DEF Body
<1>6. FrameAt(s, a + 1) = f
  <2>1. FrameAt(s, a + 1) = SubSeq(s, a + 1, a + 7 + n)
    BY <1>1, <1>5 DEF FrameAt
  <2>. DEFINE g == SubSeq(s, a + 1, a + 7 + n)
  <2>2. \A i \in a + 1..a + 7 + n : s[i] \in Byte
    BY <1>1, ElementOfSeq
  <2>3. /\ g \in Seq(Byte) /\ Len(g) = 7 + n
        /\ \A i \in 1..7 + n : g[i] = s[a + i]
    BY <1>1, <2>2, SubSeqProperties
  <2>. HIDE DEF g
  <2>4. g = f
    BY <1>1, <1>2, <2>3, SeqEqual
  <2>. QED BY <2>1, <2>4 DEF g
<1>7. Scan(s)[a + 1] = FoundAt(s, a + 1)
                         \o Scan(s)[(a + 1) + 7 + Body(DeclaredAt(s, a + 1))]
  <2>1. /\ a + 1 \in 1..Len(s) /\ (a + 1) + 3 <= Len(s)
        /\ (a + 1) + 6 + Body(DeclaredAt(s, a + 1)) <= Len(s)
    BY <1>1, <1>5
  <2>. QED BY <1>4, <2>1, WholeFrame
<1>8. (a + 1) + 7 + Body(DeclaredAt(s, a + 1)) = a + Len(f) + 1
  BY <1>1, <1>5
<1>. QED BY <1>4, <1>6, <1>7, <1>8 DEF FoundAt

\* The frame the scan finds in a segment, if any.
Found(g) == IF g.bad = 0 THEN <<Arriving(g)>> ELSE << >>

LEMMA ArrivingTyped ==
    ASSUME NEW g \in Segment
    PROVE  /\ g.noise \in Seq(Byte) /\ Arriving(g) \in Seq(Byte)
           /\ g.noise \o Arriving(g) \in Seq(Byte)
<1>1. g.noise \in Seq(Byte)
  BY DEF Segment
<1>2. Arriving(g) \in Seq(Byte)
  BY ArrivingFrame DEF Shape
<1>. QED BY <1>1, <1>2, ConcatProperties

LEMMA SegmentScanned ==
    ASSUME NEW s \in Seq(Byte), NEW a \in Nat, NEW g \in Segment,
           Lies(s, a, g.noise \o Arriving(g))
    PROVE  Scan(s)[a + 1] = Found(g) \o Scan(s)[a + Len(g.noise \o Arriving(g)) + 1]
<1>. DEFINE noise == g.noise
            f == Arriving(g)
            n == Len(Kept(g.data))
            m == Len(noise)
<1>1. noise \in Seq(Byte) /\ f \in Seq(Byte) /\ Harmless(noise)
  BY ArrivingTyped DEF Segment
<1>2. /\ Shape(f, n) /\ n \in 0..DataMod - 1
      /\ Found(g) = IF Bcc(f) = 0 THEN <<f>> ELSE << >>
  BY ArrivingFrame DEF Found
<1>. HIDE DEF noise, f, n
<1>3. /\ m \in Nat /\ Len(f) \in Nat /\ Len(noise \o f) = m + Len(f)
      /\ \A i \in 1..m : (noise \o f)[i] = noise[i]
      /\ \A i \in 1..Len(f) : (noise \o f)[m + i] = f[i]
  BY <1>1, Joined
<1>. HIDE DEF m
<1>4. Lies(s, a, noise \o f)
  BY DEF noise, f
<1>5. Len(s) \in Nat /\ a + (m + Len(f)) <= Len(s)
  BY <1>3, <1>4, LenProperties DEF Lies
<1>6. ASSUME NEW i \in 1..m PROVE s[a + i] = noise[i]
  <2>1. i \in 1..m + Len(f)
    BY <1>3
  <2>2. \A k \in 1..m + Len(f) : s[a + k] = (noise \o f)[k]
    BY <1>3, <1>4 DEF Lies
  <2>. QED BY <1>3, <2>1, <2>2
<1>7. Lies(s, a + m, f)
  <2>1. ASSUME NEW i \in 1..Len(f) PROVE s[(a + m) + i] = f[i]
    <3>1. m + i \in 1..m + Len(f) /\ (a + m) + i = a + (m + i)
      BY <1>3
    <3>. QED BY <1>3, <1>4, <3>1 DEF Lies
  <2>2. (a + m) + Len(f) <= Len(s)
    BY <1>3, <1>5
  <2>. QED BY <2>1, <2>2 DEF Lies
<1>8. ASSUME NEW k \in 1..m PROVE ~HeaderAt(s, a + k)
  <2>. DEFINE t == Append(noise, HeadLo)
  <2>1. ~HeaderAt(t, k)
    BY <1>1 DEF Harmless, m
  <2>2. t[m + 1] = HeadLo /\ \A i \in 1..m : t[i] = noise[i]
    BY <1>1, AppendProperties, ByteAssumption DEF m
  <2>. HIDE DEF t
  <2>3. s[a + (m + 1)] = HeadLo
    <3>1. 1 \in 1..Len(f) /\ f[1] = HeadLo
      <4>1. n \in Nat /\ Len(f) = 7 + n /\ f[1] = HeadLo
        BY <1>2, LenAssumption DEF Shape
      <4>. QED BY <4>1
    <3>2. s[(a + m) + 1] = f[1]
      BY <1>7, <3>1 DEF Lies
    <3>3. (a + m) + 1 = a + (m + 1)
      BY <1>3
    <3>. QED BY <3>1, <3>2, <3>3
  <2>4. s[a + k] = t[k]
    BY <1>6, <2>2
  <2>5. s[a + k + 1] = t[k + 1]
    <3>1. CASE k = m
      <4>1. a + k + 1 = a + (m + 1)
        BY <1>3, <3>1
      <4>. QED BY <2>2, <2>3, <3>1, <4>1
    <3>2. CASE k # m
      <4>1. k + 1 \in 1..m /\ a + k + 1 = a + (k + 1)
        BY <1>3, <3>2
      <4>. QED BY <1>6, <2>2, <4>1
    <3>. QED BY <3>1, <3>2
  <2>. QED BY <2>1, <2>4, <2>5 DEF HeaderAt
<1>9. Scan(s)[a + 1] = Scan(s)[(a + m) + 1]
  <2>1. a + m <= Len(s)
    BY <1>3, <1>5
  <2>. QED BY <1>3, <1>8, <2>1, NoiseSkipped
<1>10. Scan(s)[(a + m) + 1] = Found(g) \o Scan(s)[(a + m) + Len(f) + 1]
  <2>. DEFINE b == a + m
  <2>1. b \in Nat
    BY <1>3
  <2>2. Lies(s, b, f)
    BY <1>7
  <2>. HIDE DEF b
  <2>3. Scan(s)[b + 1] = (IF Bcc(f) = 0 THEN <<f>> ELSE << >>) \o Scan(s)[b + Len(f) + 1]
    BY <1>2, <2>1, <2>2, FrameFound
  <2>. QED BY <1>2, <2>3 DEF b
<1>11. (a + m) + Len(f) + 1 = a + Len(noise \o f) + 1
  BY <1>3
<1>12. Scan(s)[a + 1] = Found(g) \o Scan(s)[a + Len(noise \o f) + 1]
  BY <1>9, <1>10, <1>11
<1>. QED BY <1>12 DEF noise, f

-----------------------------------------------------------------------------
(* The round trip *)

\* The frames carry the data d.
Carries(frames, d) == /\ Len(frames) = Len(d)
                      /\ \A i \in 1..Len(d) : PayloadOf(frames[i]) = d[i]

LEMMA CarriesMore ==
    ASSUME NEW a \in Seq(Seq(Byte)), NEW b \in Seq(Seq(Byte)),
           NEW d \in Seq(Seq(Byte)), NEW e \in Seq(Seq(Byte)),
           Carries(a, d), Carries(b, e)
    PROVE  Carries(a \o b, d \o e)
<1>1. /\ Len(a) = Len(d) /\ Len(b) = Len(e)
      /\ \A i \in 1..Len(d) : PayloadOf(a[i]) = d[i]
      /\ \A i \in 1..Len(e) : PayloadOf(b[i]) = e[i]
  BY DEF Carries
<1>2. /\ Len(d) \in Nat /\ Len(e) \in Nat
      /\ Len(a \o b) = Len(a) + Len(b)
      /\ \A i \in 1..Len(a) : (a \o b)[i] = a[i]
      /\ \A i \in 1..Len(b) : (a \o b)[Len(a) + i] = b[i]
  BY LenProperties, Joined
<1>3. /\ Len(d \o e) = Len(d) + Len(e)
      /\ \A i \in 1..Len(d) : (d \o e)[i] = d[i]
      /\ \A i \in 1..Len(e) : (d \o e)[Len(d) + i] = e[i]
  BY Joined
<1>4. ASSUME NEW i \in 1..Len(d) + Len(e) PROVE PayloadOf((a \o b)[i]) = (d \o e)[i]
  <2>1. CASE i \in 1..Len(d)
    BY <1>1, <1>2, <1>3, <2>1
  <2>2. CASE i \notin 1..Len(d)
    <3>1. i - Len(d) \in 1..Len(e) /\ Len(d) + (i - Len(d)) = i
      BY <1>2, <2>2
    <3>2. (a \o b)[i] = b[i - Len(d)] /\ (d \o e)[i] = e[i - Len(d)]
      BY <1>1, <1>2, <1>3, <3>1
    <3>. QED BY <1>1, <3>1, <3>2
  <2>. QED BY <2>1, <2>2
<1>. QED BY <1>1, <1>2, <1>3, <1>4 DEF Carries

\* The data of the segment, if it arrives as sent.
Given(g) == IF g.bad = 0 THEN <<Kept(g.data)>> ELSE << >>

LEMMA SegmentCarries ==
    ASSUME NEW g \in Segment
    PROVE  /\ Found(g) \in Seq(Seq(Byte)) /\ Given(g) \in Seq(Seq(Byte))
           /\ Carries(Found(g), Given(g))
<1>1. Arriving(g) \in Seq(Byte) /\ Kept(g.data) \in Seq(Byte)
  BY ArrivingTyped, KeptTyped DEF Segment
<1>2. g.bad = 0 => PayloadOf(Arriving(g)) = Kept(g.data)
  BY ArrivingFrame
<1>3. CASE g.bad = 0
  <2>1. Found(g) = <<Arriving(g)>> /\ Given(g) = <<Kept(g.data)>>
    BY <1>3 DEF Found, Given
  <2>. QED BY <1>1, <1>2, <1>3, <2>1 DEF Carries
<1>4. CASE g.bad # 0
  BY <1>4, EmptySeq DEF Found, Given, Carries
<1>. QED BY <1>3, <1>4

LEMMA WireTyped ==
    ASSUME NEW t \in Seq(Segment)
    PROVE  /\ [i \in DOMAIN t |-> t[i].noise \o Arriving(t[i])] \in Seq(Seq(Byte))
           /\ Len([i \in DOMAIN t |-> t[i].noise \o Arriving(t[i])]) = Len(t)
           /\ [i \in DOMAIN t |-> Given(t[i])] \in Seq(Seq(Seq(Byte)))
           /\ Len([i \in DOMAIN t |-> Given(t[i])]) = Len(t)
<1>1. DOMAIN t = 1..Len(t) /\ Len(t) \in Nat
  BY LenProperties
<1>2. \A i \in 1..Len(t) : /\ t[i].noise \o Arriving(t[i]) \in Seq(Byte)
                           /\ Given(t[i]) \in Seq(Seq(Byte))
  BY ElementOfSeq, ArrivingTyped, SegmentCarries
<1>. DEFINE x == [i \in 1..Len(t) |-> t[i].noise \o Arriving(t[i])]
            y == [i \in 1..Len(t) |-> Given(t[i])]
<1>3. x \in [1..Len(t) -> Seq(Byte)] /\ y \in [1..Len(t) -> Seq(Seq(Byte))]
  BY <1>2
<1>4. /\ x = [i \in DOMAIN t |-> t[i].noise \o Arriving(t[i])]
      /\ y = [i \in DOMAIN t |-> Given(t[i])]
  BY <1>1
<1>. HIDE DEF x, y
<1>5. /\ x \in Seq(Seq(Byte)) /\ Len(x) = Len(t)
      /\ y \in Seq(Seq(Seq(Byte))) /\ Len(y) = Len(t)
  BY <1>1, <1>3
<1>. QED BY <1>4, <1>5

\* The frames that the definition on the whole string finds in what was sent
\* are the undamaged ones.
LEMMA TrafficFound ==
    ASSUME NEW t \in Seq(Segment), NEW s \in Seq(Byte), s = Wire(t)
    PROVE  /\ Frames(s) \in Seq(Seq(Byte)) /\ Sent(t) \in Seq(Seq(Byte))
           /\ Carries(Frames(s), Sent(t))
<1>. DEFINE n == Len(t)
            ws == [i \in DOMAIN t |-> t[i].noise \o Arriving(t[i])]
            vs == [i \in DOMAIN t |-> Given(t[i])]
<1>1. /\ n \in Nat /\ DOMAIN t = 1..n /\ \A i \in 1..n : t[i] \in Segment
      /\ ws \in Seq(Seq(Byte)) /\ Len(ws) = n
      /\ vs \in Seq(Seq(Seq(Byte))) /\ Len(vs) = n
  BY LenProperties, ElementOfSeq, WireTyped
<1>2. \A i \in 1..n : ws[i] = t[i].noise \o Arriving(t[i]) /\ vs[i] = Given(t[i])
  BY <1>1
<1>3. s = FlattenSeq(ws) /\ Sent(t) = FlattenSeq(vs)
  BY DEF Wire, Sent, Given
<1>. HIDE DEF n, ws, vs
<1>4. PICK w : Flattens(ws, w) /\ FlattenSeq(ws) = w[n]
  BY <1>1, FlattenRuns
<1>5. PICK v : Flattens(vs, v) /\ FlattenSeq(vs) = v[n]
  BY <1>1, FlattenRuns
<1>6. /\ \A k \in 0..n : w[k] \in Seq(Byte) /\ v[k] \in Seq(Seq(Byte))
      /\ \A k \in 0..n : Begins(w[k], s)
  BY <1>1, <1>3, <1>4, <1>5, FlattensTyped, FlattensPrefix
<1>7. Len(s) \in Nat
  BY LenProperties
<1>. DEFINE Upto(k) == \E frames \in Seq(Seq(Byte)) :
                          /\ Scan(s)[1] = frames \o Scan(s)[Len(w[k]) + 1]
                          /\ Carries(frames, v[k])
            S == {k \in Nat : k <= n => Upto(k)}
<1>8. 0 \in S
  <2>1. w[0] = << >> /\ v[0] = << >>
    BY <1>4, <1>5 DEF Flattens
  <2>2. Len(w[0]) + 1 = 1
    BY <2>1
  <2>3. Scan(s)[1] \in Seq(Seq(Byte))
    BY <1>7, ScanTyped
  <2>4. Scan(s)[1] = << >> \o Scan(s)[Len(w[0]) + 1]
    BY <2>2, <2>3, ConcatEmptySeq
  <2>5. Carries(<< >>, v[0])
    BY <2>1 DEF Carries
  <2>6. << >> \in Seq(Seq(Byte))
    BY EmptySeq
  <2>. QED BY <2>4, <2>5, <2>6
<1>9. ASSUME NEW k \in Nat, k \in S PROVE k + 1 \in S
  <2>. SUFFICES ASSUME k + 1 <= n PROVE Upto(k + 1)
    <3>. HIDE DEF Upto
    <3>. QED OBVIOUS
  <2>1. k \in 0..n /\ k + 1 \in 1..n /\ k + 1 \in 0..n /\ (k + 1) - 1 = k /\ k <= n
    BY <1>1
  <2>2. PICK frames \in Seq(Seq(Byte)) :
           /\ Scan(s)[1] = frames \o Scan(s)[Len(w[k]) + 1]
           /\ Carries(frames, v[k])
    BY <1>9, <2>1
  <2>. HIDE DEF S
  <2>. DEFINE g == t[k + 1]
              seg == g.noise \o Arriving(g)
  <2>3. g \in Segment
    BY <1>1, <2>1
  <2>4. w[k + 1] = w[k] \o seg /\ v[k + 1] = v[k] \o Given(g)
    BY <1>1, <1>2, <1>4, <1>5, <2>1 DEF Flattens
  <2>. HIDE DEF g
  <2>5. seg \in Seq(Byte) /\ w[k] \in Seq(Byte) /\ v[k] \in Seq(Seq(Byte))
    BY <1>6, <2>1, <2>3, ArrivingTyped
  <2>. HIDE DEF seg
  <2>6. /\ Len(w[k]) \in Nat /\ Len(seg) \in Nat
        /\ Len(w[k] \o seg) = Len(w[k]) + Len(seg)
        /\ \A i \in 1..Len(seg) : (w[k] \o seg)[Len(w[k]) + i] = seg[i]
    BY <2>5, Joined
  <2>7. Lies(s, Len(w[k]), seg)
    <3>1. Begins(w[k] \o seg, s)
      BY <1>6, <2>1, <2>4
    <3>2. ASSUME NEW i \in 1..Len(seg) PROVE s[Len(w[k]) + i] = seg[i]
      <4>1. Len(w[k]) + i \in 1..Len(w[k]) + Len(seg)
        BY <2>6
      <4>. QED BY <2>6, <3>1, <4>1 DEF Begins
    <3>. QED BY <2>6, <3>1, <3>2 DEF Begins, Lies
  <2>8. Scan(s)[Len(w[k]) + 1] = Found(g) \o Scan(s)[Len(w[k]) + Len(seg) + 1]
    BY <2>3, <2>6, <2>7, SegmentScanned DEF seg
  <2>9. /\ Found(g) \in Seq(Seq(Byte)) /\ Given(g) \in Seq(Seq(Byte))
        /\ Carries(Found(g), Given(g))
    BY <2>3, SegmentCarries
  <2>10. Scan(s)[Len(w[k]) + Len(seg) + 1] \in Seq(Seq(Byte))
    <3>1. Len(w[k]) + Len(seg) + 1 \in 1..Len(s) + 4
      BY <1>7, <2>6, <2>7 DEF Lies
    <3>. QED BY <3>1, ScanTyped
  <2>11. Scan(s)[1] = (frames \o Found(g)) \o Scan(s)[Len(w[k + 1]) + 1]
    <3>1. Len(w[k + 1]) + 1 = Len(w[k]) + Len(seg) + 1
      BY <2>4, <2>6
    <3>2. frames \o (Found(g) \o Scan(s)[Len(w[k]) + Len(seg) + 1])
            = (frames \o Found(g)) \o Scan(s)[Len(w[k]) + Len(seg) + 1]
      <4>. DEFINE rest == Scan(s)[Len(w[k]) + Len(seg) + 1]
      <4>1. rest \in Seq(Seq(Byte)) /\ Found(g) \in Seq(Seq(Byte))
        BY <2>9, <2>10
      <4>. HIDE DEF rest
      <4>2. (frames \o Found(g)) \o rest = frames \o (Found(g) \o rest)
        BY <4>1, FramesAssociate
      <4>. QED BY <4>2 DEF rest
    <3>. QED BY <2>2, <2>8, <3>1, <3>2
  <2>12. Carries(frames \o Found(g), v[k + 1])
    BY <2>2, <2>4, <2>5, <2>9, CarriesMore
  <2>13. frames \o Found(g) \in Seq(Seq(Byte))
    BY <2>2, <2>9, ConcatProperties
  <2>. QED BY <2>11, <2>12, <2>13
<1>. HIDE DEF S
<1>10. n \in S
  BY <1>1, <1>8, <1>9, SetInduction
<1>11. PICK frames \in Seq(Seq(Byte)) : /\ Scan(s)[1] = frames \o Scan(s)[Len(w[n]) + 1]
                                        /\ Carries(frames, v[n])
  <2>1. Upto(n)
    <3>. HIDE DEF Upto
    <3>. QED BY <1>1, <1>10 DEF S
  <2>. QED BY <2>1
<1>12. Scan(s)[Len(w[n]) + 1] = << >>
  <2>1. w[n] = s /\ Len(s) + 1 \in 1..Len(s) + 4 /\ Len(s) + 1 + 3 > Len(s)
    BY <1>3, <1>4, <1>7
  <2>. QED BY <2>1, NothingLeft
<1>13. Frames(s) = frames
  BY <1>11, <1>12, ConcatEmptySeq DEF Frames
<1>14. n \in 0..n
  BY <1>1
<1>. QED BY <1>3, <1>5, <1>6, <1>11, <1>13, <1>14

\* The frames found so far are the first of those of the whole stream.
LEMMA FoundFirst ==
    ASSUME SInv
    PROVE  \E all, rest \in Seq(Seq(Byte)) :
              /\ comm_restarts = Len(all)
              /\ IsSuffix(delivered, all)
              /\ Frames(stream) = all \o rest
<1>1. PICK all \in Seq(Seq(Byte)) : /\ comm_restarts = Len(all)
                                    /\ IsSuffix(delivered, all)
                                    /\ Agrees(all)
  BY DEF SInv, History
<1>2. /\ stream \in Seq(Byte) /\ Len(stream) \in Nat
      /\ p \in Nat \ {0} /\ p <= Len(stream) + 1 /\ Start \in 1..p
  BY StreamTyped DEF SInv, IInv, Held
<1>3. Len(stream) \in Parts
  BY <1>2 DEF Parts
<1>4. Prefix(Len(stream)) = stream
  BY <1>2 DEF Prefix
<1>5. Frames(stream) = all \o Scan(stream)[Start]
  BY <1>1, <1>3, <1>4 DEF Agrees
<1>6. Scan(stream)[Start] \in Seq(Seq(Byte))
  <2>1. Start \in 1..Len(stream) + 4
    BY <1>2
  <2>. QED BY <1>2, <2>1, ScanTyped
<1>. QED BY <1>1, <1>5, <1>6

LEMMA SInvRoundTrip == SInv => RoundTrip
<1>. SUFFICES ASSUME SInv, stream \in TrafficStreams, NEW sent \in SentOver[stream]
              PROVE  /\ comm_restarts <= Len(sent)
                     /\ IsSuffix([i \in DOMAIN delivered |-> PayloadOf(delivered[i])],
                                 SubSeq(sent, 1, comm_restarts))
                     /\ p = Len(stream) + 1 => comm_restarts = Len(sent)
  BY DEF RoundTrip
<1>1. PICK t \in Traffic : Wires[t] = stream /\ sent = Sent(t)
  BY DEF SentOver
<1>2. t \in Seq(Segment) /\ stream = Wire(t)
  BY <1>1, TrafficAssumption DEF Wires
<1>3. stream \in Seq(Byte) /\ delivered \in Seq(Seq(Byte))
  BY StreamsAssumption DEF SInv, IInv, TypeOK
<1>4. sent \in Seq(Seq(Byte)) /\ Carries(Frames(stream), sent)
  BY <1>1, <1>2, <1>3, TrafficFound
<1>5. PICK all, rest \in Seq(Seq(Byte)) :
         /\ comm_restarts = Len(all)
         /\ IsSuffix(delivered, all)
         /\ Frames(stream) = all \o rest
  BY FoundFirst
<1>. DEFINE n == Len(all)
            d == Len(delivered)
            first == SubSeq(sent, 1, n)
            got == [i \in DOMAIN delivered |-> PayloadOf(delivered[i])]
<1>6. /\ n \in Nat /\ Len(rest) \in Nat /\ Len(all \o rest) = n + Len(rest)
      /\ \A i \in 1..n : (all \o rest)[i] = all[i]
  BY Joined
<1>. HIDE DEF n
<1>7. /\ Len(sent) = n + Len(rest)
      /\ \A i \in 1..Len(sent) : PayloadOf((all \o rest)[i]) = sent[i]
  BY <1>4, <1>5, <1>6 DEF Carries
<1>8. comm_restarts <= Len(sent)
  BY <1>5, <1>6, <1>7 DEF n
<1>9. p = Len(stream) + 1 => comm_restarts = Len(sent)
  <2>1. SUFFICES ASSUME p = Len(stream) + 1 PROVE comm_restarts = Len(sent)
    OBVIOUS
  <2>2. Consumed = stream
    <3>1. Len(stream) \in Nat /\ (Len(stream) + 1) - 1 = Len(stream)
      BY <1>3, LenProperties
    <3>. QED BY <1>3, <2>1, <3>1 DEF Consumed
  <2>3. comm_restarts = Len(Frames(stream))
    BY <2>2, SInvScanAgrees DEF ScanAgrees
  <2>. QED BY <1>4, <2>3 DEF Carries
<1>10. first \in Seq(Seq(Byte)) /\ Len(first) = n /\ \A i \in 1..n : first[i] = sent[i]
  <2>1. \A i \in 1..n : sent[i] \in Seq(Byte)
    <3>1. \A i \in 1..n : i \in 1..Len(sent)
      BY <1>6, <1>7
    <3>. QED BY <1>4, <3>1, ElementOfSeq
  <2>. QED BY <1>6, <2>1, SubSeqProperties
<1>. HIDE DEF first
<1>11. ASSUME NEW i \in 1..n PROVE PayloadOf(all[i]) = first[i]
  <2>1. i \in 1..Len(sent)
    BY <1>6, <1>7
  <2>. QED BY <1>6, <1>7, <1>10, <2>1
<1>12. /\ d \in Nat /\ d <= n
       /\ \A i \in 1..d : delivered[i] = all[n - d + i]
  <2>1. d \in Nat
    BY <1>3, LenProperties
  <2>. QED BY <1>3, <1>5, <2>1, SuffixMeaning DEF n
<1>13. DOMAIN delivered = 1..d
  BY <1>3, LenProperties
<1>. HIDE DEF d
<1>14. ASSUME NEW i \in 1..d
       PROVE  /\ got[i] = first[n - d + i]
              /\ got[i] \in Seq(Byte)
  <2>1. n - d + i \in 1..n
    BY <1>6, <1>12
  <2>2. got[i] = PayloadOf(all[n - d + i])
    BY <1>12, <1>13
  <2>3. got[i] = first[n - d + i]
    BY <1>11, <2>1, <2>2
  <2>4. first[n - d + i] \in Seq(Byte)
    BY <1>10, <2>1, ElementOfSeq
  <2>. QED BY <2>3, <2>4
<1>15. got \in Seq(Seq(Byte)) /\ Len(got) = d
  <2>1. DOMAIN got = 1..d /\ got = [i \in 1..d |-> got[i]]
    BY <1>13
  <2>. HIDE DEF got
  <2>2. got \in [1..d -> Seq(Byte)]
    BY <1>14, <2>1
  <2>. QED BY <1>12, <2>2
<1>. HIDE DEF got
<1>16. IsSuffix(got, first)
  BY <1>10, <1>12, <1>14, <1>15, SuffixMeaning
<1>. QED BY <1>5, <1>8, <1>9, <1>16 DEF got, first, n

\* Whatever frames buildCmd makes, with whatever harmless noise between them
\* and with whatever damage behind the length field of some, and however the
\* reads cut the stream: the frames that arrive as sent and only they are
\* recognised, in their order and each with its data (buildCmd; dataProc).
THEOREM RoundTripHolds == Spec => []RoundTrip
<1>. QED BY InitSInv, NextSInv, SInvRoundTrip, PTL DEF Spec
=============================================================================
