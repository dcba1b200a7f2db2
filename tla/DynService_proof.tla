--------------------------- MODULE DynService_proof ---------------------------
(* Proofs about DynControl, for every order and number of motion commands:   *)
(*   - while fewer packets are lost than there are rounds of zero commands,  *)
(*     the base enters a new mode at rest, and DynControl implements         *)
(*     ModeService;                                                          *)
(*   - undisturbed, a confirmed switch has happened, and no motion command   *)
(*     reaches the base in the wrong mode.                                   *)
(* The link is in order, so the first part is about the packets in front of  *)
(* a set packet: they hold more zeros of each kind behind the last motion of *)
(* that kind than packets can still be lost, or need none.  The second is    *)
(* about the modes on their way round, from the cache through toHost and the *)
(* base to the set packets in toDev.                                         *)
EXTENDS DynControl_proof

USE DEF At

ZeroOf(k) == [kind |-> k, arg |-> "zero"]
MoveOf(k) == [kind |-> k, arg |-> "move"]

\* Kind k rests, and nothing in the first s - 1 packets of q moves it.
Clean(q, mv, k, s) == k \notin mv /\ \A p \in 1 .. s - 1 : q[p] # MoveOf(k)

\* The first s - 1 packets of q hold c zeros of kind k behind its last motion.
Flush(q, k, s, c) ==
    \E f \in [1 .. c -> 1 .. s - 1] :
        /\ \A j \in 1 .. c : q[f[j]] = ZeroOf(k)
        /\ \A j1, j2 \in 1 .. c : j1 < j2 => f[j1] < f[j2]
        /\ \A p \in 1 .. s - 1, j \in 1 .. c : q[p] = MoveOf(k) => p < f[j]

\* Kind k rests when s - 1 packets of q have gone, or there are as many zeros
\* for it as are needed, those that were lost (d) included.
Settled(q, mv, d, k, s, need) ==
    \/ Clean(q, mv, k, s)
    \/ \E c \in Nat : Flush(q, k, s, c) /\ c + d >= need

\* The rounds that kind k = ZeroOrder[x] has been through after n commands.
Turns(x, n) == (n \div Len(ZeroOrder)) + (IF n % Len(ZeroOrder) >= x THEN 1 ELSE 0)

\* Every set packet on its way finds the base at rest, and the zeros in front
\* of the next one are being sent.
Swept ==
    /\ \A s \in 1 .. Len(toDev), k \in Kinds :
          toDev[s].kind = "set" => Settled(toDev, moving, drops, k, s, MaxDrop + 1)
    /\ epc = "zero" => \A x \in 1 .. Len(ZeroOrder) :
          Settled(toDev, moving, drops, ZeroOrder[x], Len(toDev) + 1, Turns(x, i))

-----------------------------------------------------------------------------
LEMMA DivUnique == ASSUME NEW n \in Nat \ {0}, NEW r \in Nat, NEW t \in 0 .. n - 1
                   PROVE  (r * n + t) \div n = r /\ (r * n + t) % n = t
<1>. DEFINE a == (r * n + t) \div n
            b == (r * n + t) % n
<1>1. a \in Int /\ b \in 0 .. n - 1 /\ r * n + t = n * a + b
  BY SMT
<1>2. ASSUME NEW d \in Nat \ {0} PROVE d * n >= n
  BY SMT
<1>3. (r - a) * n = b - t
  BY <1>1, SMT
<1>4. CASE r > a
  BY <1>1, <1>2, <1>3, <1>4, SMT
<1>5. CASE a > r
  <2>1. (a - r) * n = t - b
    BY <1>1, SMT
  <2>. QED BY <1>1, <1>2, <1>5, <2>1, SMT
<1>. QED BY <1>1, <1>3, <1>4, <1>5, SMT

LEMMA DivStep == ASSUME NEW n \in Nat \ {0}, NEW a \in Nat
                 PROVE  IF a % n = n - 1
                        THEN (a + 1) \div n = (a \div n) + 1 /\ (a + 1) % n = 0
                        ELSE (a + 1) \div n = a \div n /\ (a + 1) % n = (a % n) + 1
<1>. DEFINE r == a \div n
            t == a % n
<1>1. r \in Nat /\ t \in 0 .. n - 1 /\ a = r * n + t
  BY SMT
<1>2. CASE t = n - 1
  <2>1. a + 1 = (r + 1) * n + 0
    BY <1>1, <1>2, SMT
  <2>2. (a + 1) \div n = r + 1 /\ (a + 1) % n = 0
    <3>1. r + 1 \in Nat /\ 0 \in 0 .. n - 1
      BY <1>1
    <3>. HIDE DEF r, t
    <3>2. ((r + 1) * n + 0) \div n = r + 1 /\ ((r + 1) * n + 0) % n = 0
      BY <3>1, DivUnique, Zenon
    <3>. QED BY <2>1, <3>2, Zenon
  <2>. QED BY <1>2, <2>2
<1>3. CASE t # n - 1
  <2>1. t + 1 \in 0 .. n - 1 /\ a + 1 = r * n + (t + 1)
    BY <1>1, <1>3, SMT
  <2>2. (a + 1) \div n = r /\ (a + 1) % n = t + 1
    <3>. HIDE DEF r, t
    <3>. QED BY <1>1, <2>1, DivUnique
  <2>. QED BY <1>3, <2>2
<1>. QED BY <1>2, <1>3
\* One more command: its kind has been through one round more, the others
\* have not.
LEMMA TurnsStep == ASSUME NEW x \in 1 .. Len(ZeroOrder), NEW n \in Nat
                   PROVE  Turns(x, n + 1) = Turns(x, n) +
                              (IF 1 + (n % Len(ZeroOrder)) = x THEN 1 ELSE 0)
<1>. DEFINE l == Len(ZeroOrder)
<1>1. l \in Nat \ {0} /\ x \in 1 .. l
  BY KindsType
<1>. HIDE DEF l
<1>2. n \div l \in Nat /\ n % l \in 0 .. l - 1
  BY <1>1, SMT
<1>3. CASE n % l = l - 1
  <2>1. (n + 1) \div l = (n \div l) + 1 /\ (n + 1) % l = 0
    BY <1>1, <1>3, DivStep
  <2>. QED BY <1>1, <1>2, <1>3, <2>1 DEF Turns, l
<1>4. CASE n % l # l - 1
  <2>1. (n + 1) \div l = n \div l /\ (n + 1) % l = (n % l) + 1
    BY <1>1, <1>4, DivStep
  <2>. QED BY <1>1, <1>2, <1>4, <2>1 DEF Turns, l
<1>. QED BY <1>3, <1>4

LEMMA TurnsType == ASSUME NEW x \in 1 .. Len(ZeroOrder), NEW n \in Nat
                   PROVE  Turns(x, n) \in Nat
<1>. DEFINE l == Len(ZeroOrder)
<1>1. l \in Nat \ {0}
  BY KindsType
<1>. HIDE DEF l
<1>2. n \div l \in Nat /\ n % l \in 0 .. l - 1
  BY <1>1, SMT
<1>. QED BY <1>2 DEF Turns, l

LEMMA TurnsEnds == ASSUME NEW x \in 1 .. Len(ZeroOrder)
                   PROVE  Turns(x, 0) = 0 /\ Turns(x, Zeros) = Rounds
<1>. DEFINE l == Len(ZeroOrder)
<1>1. l \in Nat \ {0} /\ x \in 1 .. l /\ Rounds \in Nat
  BY KindsType, CountAssumption
<1>2. Zeros = Rounds * l + 0 /\ 0 = 0 * l + 0 /\ 0 \in 0 .. l - 1
  BY <1>1 DEF Zeros
<1>. HIDE DEF l
<1>3. /\ (Rounds * l + 0) \div l = Rounds /\ (Rounds * l + 0) % l = 0
      /\ (0 * l + 0) \div l = 0 /\ (0 * l + 0) % l = 0
  BY <1>1, <1>2, DivUnique, Zenon
<1>4. /\ Zeros \div l = Rounds /\ Zeros % l = 0
      /\ 0 \div l = 0 /\ 0 % l = 0
  BY <1>2, <1>3, Zenon
<1>. QED BY <1>1, <1>4 DEF Turns, l

-----------------------------------------------------------------------------
(* What a step of the link does to a prefix *)

LEMMA TailAt == ASSUME NEW q \in Seq(Packet), q # << >>
                PROVE  /\ Tail(q) \in Seq(Packet)
                       /\ Len(Tail(q)) = Len(q) - 1
                       /\ Len(q) \in Nat \ {0}
                       /\ \A j \in 1 .. Len(q) - 1 : Tail(q)[j] = q[j + 1]
                       /\ Head(q) = q[1]
BY HeadTailProperties, LenProperties, EmptySeq

LEMMA CleanTail == ASSUME NEW q \in Seq(Packet), q # << >>, NEW mv2,
                          NEW s \in 2 .. Len(q) + 1, NEW k,
                          \A p \in 1 .. s - 1 : q[p] # MoveOf(k),
                          k \notin mv2
                   PROVE  Clean(Tail(q), mv2, k, s - 1)
BY TailAt DEF Clean

\* The head goes: all zeros that were there are still there, or it was one.
LEMMA FlushTail == ASSUME NEW q \in Seq(Packet), q # << >>, NEW c \in Nat,
                          NEW s \in 2 .. Len(q) + 1, NEW k, Flush(q, k, s, c)
                   PROVE  \/ Flush(Tail(q), k, s - 1, c)
                          \/ /\ c # 0
                             /\ q[1] = ZeroOf(k)
                             /\ \A p \in 1 .. s - 1 : q[p] # MoveOf(k)
                             /\ Flush(Tail(q), k, s - 1, c - 1)
<1>1. PICK f \in [1 .. c -> 1 .. s - 1] :
        /\ \A j \in 1 .. c : q[f[j]] = ZeroOf(k)
        /\ \A j1, j2 \in 1 .. c : j1 < j2 => f[j1] < f[j2]
        /\ \A p \in 1 .. s - 1, j \in 1 .. c : q[p] = MoveOf(k) => p < f[j]
  BY DEF Flush
<1>2. Len(q) \in Nat \ {0} /\ \A j \in 1 .. Len(q) - 1 : Tail(q)[j] = q[j + 1]
  BY TailAt
<1>3. CASE c = 0 \/ f[1] # 1
  <2>. DEFINE g == [j \in 1 .. c |-> f[j] - 1]
  <2>1. \A j \in 1 .. c : f[j] \in 2 .. s - 1
    BY <1>1, <1>3
  <2>2. g \in [1 .. c -> 1 .. (s - 1) - 1]
    BY <2>1
  <2>3. \A j \in 1 .. c : Tail(q)[g[j]] = ZeroOf(k)
    BY <1>1, <1>2, <2>1
  <2>4. \A j1, j2 \in 1 .. c : j1 < j2 => g[j1] < g[j2]
    BY <1>1, <2>1
  <2>5. \A p \in 1 .. (s - 1) - 1, j \in 1 .. c : Tail(q)[p] = MoveOf(k) => p < g[j]
    BY <1>1, <1>2, <2>1
  <2>. HIDE DEF g
  <2>. QED BY <2>2, <2>3, <2>4, <2>5 DEF Flush
<1>4. CASE c # 0 /\ f[1] = 1
  <2>. DEFINE g == [j \in 1 .. c - 1 |-> f[j + 1] - 1]
  <2>1. \A j \in 1 .. c - 1 : f[j + 1] \in 2 .. s - 1
    <3>1. ASSUME NEW j \in 1 .. c - 1 PROVE f[j + 1] > f[1] /\ f[j + 1] \in 1 .. s - 1
      BY <1>1, <1>4
    <3>. QED BY <1>4, <3>1
  <2>2. g \in [1 .. c - 1 -> 1 .. (s - 1) - 1]
    BY <2>1
  <2>3. ASSUME NEW j \in 1 .. c - 1 PROVE Tail(q)[g[j]] = ZeroOf(k)
    <3>1. j + 1 \in 1 .. c /\ g[j] = f[j + 1] - 1 /\ f[j + 1] \in 2 .. s - 1
      BY <2>1
    <3>2. q[f[j + 1]] = ZeroOf(k)
      BY <1>1, <3>1
    <3>3. g[j] \in 1 .. Len(q) - 1 /\ g[j] + 1 = f[j + 1]
      BY <1>2, <3>1
    <3>. HIDE DEF g
    <3>4. Tail(q)[g[j]] = q[g[j] + 1]
      BY <1>2, <3>3
    <3>. QED BY <3>2, <3>3, <3>4
  <2>4. \A j1, j2 \in 1 .. c - 1 : j1 < j2 => g[j1] < g[j2]
    BY <1>1, <2>1
  <2>5. \A p \in 1 .. s - 1 : q[p] # MoveOf(k)
    BY <1>1, <1>4
  <2>6. \A p \in 1 .. (s - 1) - 1, j \in 1 .. c - 1 : Tail(q)[p] = MoveOf(k) => p < g[j]
    BY <1>2, <2>5
  <2>7. q[1] = ZeroOf(k)
    BY <1>1, <1>4
  <2>. HIDE DEF g
  <2>. QED BY <1>4, <2>2, <2>3, <2>4, <2>5, <2>6, <2>7 DEF Flush
<1>. QED BY <1>3, <1>4

\* The head is taken by the base or lost: what was settled stays so.  mv2 is
\* what moves afterwards, d2 the losses.
LEMMA SettledTail ==
    ASSUME NEW q \in Seq(Packet), q # << >>, NEW s \in 2 .. Len(q) + 1, NEW k,
           NEW mv, NEW mv2, NEW d \in Nat, NEW d2 \in Nat, NEW need \in Nat,
           Settled(q, mv, d, k, s, need),
           k \in mv2 => k \in mv \/ q[1] = MoveOf(k),
           \/ d2 = d + 1 /\ mv2 = mv
           \/ d2 = d /\ (q[1] = ZeroOf(k) => k \notin mv2)
    PROVE  Settled(Tail(q), mv2, d2, k, s - 1, need)
<1>1. CASE Clean(q, mv, k, s)
  BY <1>1, CleanTail DEF Clean, Settled
<1>2. ASSUME NEW c \in Nat, Flush(q, k, s, c), c + d >= need
      PROVE  Settled(Tail(q), mv2, d2, k, s - 1, need)
  <2>1. CASE Flush(Tail(q), k, s - 1, c)
    BY <1>2, <2>1 DEF Settled
  <2>2. CASE /\ c # 0 /\ q[1] = ZeroOf(k)
             /\ \A p \in 1 .. s - 1 : q[p] # MoveOf(k)
             /\ Flush(Tail(q), k, s - 1, c - 1)
    <3>1. CASE d2 = d + 1
      <4>1. c - 1 \in Nat /\ (c - 1) + d2 >= need
        BY <1>2, <2>2, <3>1
      <4>. QED BY <2>2, <4>1 DEF Settled
    <3>2. CASE k \notin mv2
      BY <2>2, <3>2, CleanTail DEF Settled
    <3>. QED BY <2>2, <3>1, <3>2
  <2>. QED BY <1>2, <2>1, <2>2, FlushTail
<1>. QED BY <1>1, <1>2 DEF Settled

LEMMA AppendAt == ASSUME NEW q \in Seq(Packet), NEW p \in Packet
                  PROVE  /\ Append(q, p) \in Seq(Packet)
                         /\ Len(q) \in Nat
                         /\ Len(Append(q, p)) = Len(q) + 1
                         /\ \A j \in 1 .. Len(q) : Append(q, p)[j] = q[j]
                         /\ Append(q, p)[Len(q) + 1] = p
BY AppendProperties, LenProperties

\* A packet behind it changes nothing for a prefix.
LEMMA SettledAppend ==
    ASSUME NEW q \in Seq(Packet), NEW p \in Packet, NEW s \in 1 .. Len(q) + 1, NEW k,
           NEW mv, NEW d, NEW need, Settled(q, mv, d, k, s, need)
    PROVE  Settled(Append(q, p), mv, d, k, s, need)
<1>1. s - 1 \in 0 .. Len(q) /\ \A j \in 1 .. s - 1 : Append(q, p)[j] = q[j]
  BY AppendAt
<1>2. CASE Clean(q, mv, k, s)
  BY <1>1, <1>2 DEF Clean, Settled
<1>3. ASSUME NEW c \in Nat, Flush(q, k, s, c), c + d >= need
      PROVE  Settled(Append(q, p), mv, d, k, s, need)
  <2>1. Flush(Append(q, p), k, s, c)
    BY <1>1, <1>3 DEF Flush
  <2>. QED BY <1>3, <2>1 DEF Settled
<1>. QED BY <1>2, <1>3 DEF Settled

\* A packet that does not move k joins the prefix.
LEMMA SettledGrow ==
    ASSUME NEW q \in Seq(Packet), NEW p \in Packet, NEW k, p # MoveOf(k),
           NEW mv, NEW d, NEW need, Settled(q, mv, d, k, Len(q) + 1, need)
    PROVE  Settled(Append(q, p), mv, d, k, Len(q) + 2, need)
<1>. DEFINE r == Append(q, p)
<1>1. /\ Len(q) \in Nat /\ r[Len(q) + 1] = p
      /\ \A j \in 1 .. Len(q) : r[j] = q[j]
  BY AppendAt
<1>. HIDE DEF r
<1>2. CASE Clean(q, mv, k, Len(q) + 1)
  BY <1>1, <1>2 DEF Clean, Settled, r
<1>3. ASSUME NEW c \in Nat, Flush(q, k, Len(q) + 1, c), c + d >= need
      PROVE  Settled(r, mv, d, k, Len(q) + 2, need)
  <2>1. PICK f \in [1 .. c -> 1 .. (Len(q) + 1) - 1] :
          /\ \A j \in 1 .. c : q[f[j]] = ZeroOf(k)
          /\ \A j1, j2 \in 1 .. c : j1 < j2 => f[j1] < f[j2]
          /\ \A x \in 1 .. (Len(q) + 1) - 1, j \in 1 .. c : q[x] = MoveOf(k) => x < f[j]
    BY <1>3 DEF Flush
  <2>2. f \in [1 .. c -> 1 .. (Len(q) + 2) - 1]
    BY <1>1, <2>1
  <2>3. ASSUME NEW j \in 1 .. c PROVE r[f[j]] = ZeroOf(k)
    <3>1. f[j] \in 1 .. Len(q) /\ q[f[j]] = ZeroOf(k)
      BY <1>1, <2>1
    <3>. QED BY <1>1, <3>1
  <2>4. \A x \in 1 .. (Len(q) + 2) - 1, j \in 1 .. c : r[x] = MoveOf(k) => x < f[j]
    BY <1>1, <2>1
  <2>5. Flush(r, k, Len(q) + 2, c)
    BY <2>1, <2>2, <2>3, <2>4 DEF Flush
  <2>. QED BY <1>3, <2>5 DEF Settled
<1>. QED BY <1>2, <1>3 DEF Settled, r

\* A zero of k joins the prefix and counts.
LEMMA SettledZero ==
    ASSUME NEW q \in Seq(Packet), NEW k, ZeroOf(k) \in Packet,
           NEW mv, NEW d \in Nat, NEW need \in Nat,
           Settled(q, mv, d, k, Len(q) + 1, need)
    PROVE  Settled(Append(q, ZeroOf(k)), mv, d, k, Len(q) + 2, need + 1)
<1>. DEFINE r == Append(q, ZeroOf(k))
            l == Len(q)
<1>1. /\ l \in Nat /\ r[l + 1] = ZeroOf(k)
      /\ \A j \in 1 .. l : r[j] = q[j]
  BY AppendAt
<1>0. ZeroOf(k) # MoveOf(k)
  BY DEF ZeroOf, MoveOf
<1>2. CASE Clean(q, mv, k, l + 1)
  BY <1>0, <1>2, SettledGrow, <1>1 DEF Clean, Settled
<1>. HIDE DEF r, l
<1>3. ASSUME NEW c \in Nat, Flush(q, k, l + 1, c), c + d >= need
      PROVE  Settled(r, mv, d, k, l + 2, need + 1)
  <2>1. PICK f \in [1 .. c -> 1 .. (l + 1) - 1] :
          /\ \A j \in 1 .. c : q[f[j]] = ZeroOf(k)
          /\ \A j1, j2 \in 1 .. c : j1 < j2 => f[j1] < f[j2]
          /\ \A x \in 1 .. (l + 1) - 1, j \in 1 .. c : q[x] = MoveOf(k) => x < f[j]
    BY <1>3 DEF Flush
  <2>. DEFINE g == [j \in 1 .. c + 1 |-> IF j = c + 1 THEN l + 1 ELSE f[j]]
  <2>0. \A j \in 1 .. c : f[j] \in 1 .. l /\ g[j] = f[j]
    BY <1>1, <2>1
  <2>1a. g[c + 1] = l + 1 /\ \A j \in 1 .. c + 1 : j = c + 1 \/ j \in 1 .. c
    OBVIOUS
  <2>2. g \in [1 .. c + 1 -> 1 .. (l + 2) - 1]
    BY <1>1, <2>1
  <2>. HIDE DEF g
  <2>3. \A j \in 1 .. c + 1 : r[g[j]] = ZeroOf(k)
    BY <1>1, <2>1, <2>0, <2>1a
  <2>4. \A j1, j2 \in 1 .. c + 1 : j1 < j2 => g[j1] < g[j2]
    <3>1. ASSUME NEW j1 \in 1 .. c + 1, NEW j2 \in 1 .. c + 1, j1 < j2
          PROVE  g[j1] < g[j2]
      <4>1. j1 \in 1 .. c
        BY <3>1
      <4>2. CASE j2 = c + 1
        BY <1>1, <2>0, <2>1a, <4>1, <4>2
      <4>3. CASE j2 \in 1 .. c
        BY <2>0, <2>1, <3>1, <4>1, <4>3
      <4>. QED BY <2>1a, <4>2, <4>3
    <3>. QED BY <3>1
  <2>5. \A x \in 1 .. (l + 2) - 1, j \in 1 .. c + 1 : r[x] = MoveOf(k) => x < g[j]
    <3>1. ASSUME NEW x \in 1 .. (l + 2) - 1, NEW j \in 1 .. c + 1, r[x] = MoveOf(k)
          PROVE  x < g[j]
      <4>1. x \in 1 .. l /\ q[x] = MoveOf(k)
        BY <1>0, <1>1, <3>1
      <4>2. CASE j = c + 1
        BY <1>1, <2>1a, <4>1, <4>2
      <4>3. CASE j \in 1 .. c
        <5>1. x \in 1 .. (l + 1) - 1 /\ g[j] = f[j]
          BY <1>1, <2>0, <4>1, <4>3
        <5>. QED BY <2>1, <4>1, <4>3, <5>1
      <4>. QED BY <2>1a, <4>2, <4>3
    <3>. QED BY <3>1
  <2>6. Flush(r, k, l + 2, c + 1)
    BY <2>2, <2>3, <2>4, <2>5, Zenon DEF Flush
  <2>7. c + 1 \in Nat /\ (c + 1) + d >= need + 1
    BY <1>3
  <2>. QED BY <2>6, <2>7 DEF Settled
<1>. QED BY <1>2, <1>3 DEF Settled, r, l

\* Without a step of the link: fewer zeros needed, or another one lost.
LEMMA SettledMore ==
    ASSUME NEW q, NEW k, NEW mv, NEW s, NEW d \in Nat, NEW d2 \in Nat,
           NEW need \in Nat, NEW need2 \in Nat,
           Settled(q, mv, d, k, s, need), need2 - need <= d2 - d
    PROVE  Settled(q, mv, d2, k, s, need2)
BY DEF Settled

LEMMA SettledNothing ==
    ASSUME NEW q, NEW k, NEW mv, NEW s, NEW d \in Nat
    PROVE  Settled(q, mv, d, k, s, 0)
<1>1. \A j : j \notin 1 .. 0
  OBVIOUS
<1>2. [j \in 1 .. 0 |-> j] \in [1 .. 0 -> 1 .. s - 1]
  BY <1>1
<1>3. Flush(q, k, s, 0)
  BY <1>1, <1>2, Zenon DEF Flush
<1>. QED BY <1>3 DEF Settled

-----------------------------------------------------------------------------
LEMMA InitSwept == Init => Swept
BY EmptySeq DEF Init, Swept

\* The two steps that take the head of toDev away.
LEMMA TailSwept ==
    ASSUME IInv, Swept, toDev # << >>, toDev' = Tail(toDev), drops' \in Nat,
           UNCHANGED <<epc, i>>,
           \A k \in Kinds : k \in moving' => k \in moving \/ toDev[1] = MoveOf(k),
           \/ drops' = drops + 1 /\ moving' = moving
           \/ drops' = drops /\ \A k \in Kinds : toDev[1] = ZeroOf(k) => k \notin moving'
    PROVE  Swept'
<1>t. toDev \in Seq(Packet) /\ drops \in Nat /\ i \in Nat /\ MaxDrop + 1 \in Nat
  BY CountAssumption, KindsType DEF IInv, TypeOK
<1>1. ASSUME NEW s \in 2 .. Len(toDev) + 1, NEW k \in Kinds, NEW need \in Nat,
             Settled(toDev, moving, drops, k, s, need)
      PROVE  Settled(toDev', moving', drops', k, s - 1, need)
  BY <1>t, <1>1, SettledTail
<1>2. /\ Len(toDev') = Len(toDev) - 1 /\ Len(toDev) \in Nat \ {0}
      /\ \A j \in 1 .. Len(toDev) - 1 : toDev'[j] = toDev[j + 1]
  BY <1>t, TailAt
<1>3. ASSUME NEW s \in 1 .. Len(toDev'), NEW k \in Kinds, toDev'[s].kind = "set"
      PROVE  Settled(toDev', moving', drops', k, s, MaxDrop + 1)
  <2>1. s + 1 \in 1 .. Len(toDev) /\ s + 1 \in 2 .. Len(toDev) + 1 /\ (s + 1) - 1 = s
    BY <1>2
  <2>2. Settled(toDev, moving, drops, k, s + 1, MaxDrop + 1)
    BY <1>2, <1>3, <2>1 DEF Swept
  <2>. QED BY <1>t, <1>1, <2>1, <2>2
<1>4. ASSUME NEW x \in 1 .. Len(ZeroOrder), epc = "zero"
      PROVE  Settled(toDev', moving', drops', ZeroOrder[x], Len(toDev') + 1, Turns(x, i))
  <2>1. Turns(x, i) \in Nat
    BY <1>t, TurnsType
  <2>2. ZeroOrder[x] \in Kinds
    BY ClientAssumption, LenProperties DEF Kinds
  <2>3. Len(toDev) + 1 \in 2 .. Len(toDev) + 1 /\ (Len(toDev) + 1) - 1 = Len(toDev') + 1
    BY <1>2
  <2>4. Settled(toDev, moving, drops, ZeroOrder[x], Len(toDev) + 1, Turns(x, i))
    BY <1>4 DEF Swept
  <2>. QED BY <1>1, <2>1, <2>2, <2>3, <2>4
<1>. QED BY <1>3, <1>4 DEF Swept, Turns

\* The steps that send nothing, or fail to.
LEMMA RestSwept ==
    ASSUME IInv, Swept, UNCHANGED <<toDev, moving>>,
           drops' = drops \/ drops' = drops + 1,
           epc' = "zero" => epc = "zero" /\ i' = i
    PROVE  Swept'
<1>t. drops \in Nat /\ drops' \in Nat /\ i \in Nat /\ MaxDrop + 1 \in Nat
  <2>1. drops \in Nat /\ i \in Nat /\ MaxDrop + 1 \in Nat
    BY CountAssumption, KindsType DEF IInv, TypeOK
  <2>. QED BY <2>1
<1>1. ASSUME NEW k, NEW s, NEW need \in Nat, Settled(toDev, moving, drops, k, s, need)
      PROVE  Settled(toDev, moving, drops', k, s, need)
  <2>0. \A x, y, z \in Nat : y = x \/ y = x + 1 => z - z <= y - x
    OBVIOUS
  <2>1. need - need <= drops' - drops
    BY <1>t, <2>0
  <2>. QED BY <1>t, <1>1, <2>1, SettledMore
<1>2. ASSUME NEW s \in 1 .. Len(toDev'), NEW k \in Kinds, toDev'[s].kind = "set"
      PROVE  Settled(toDev', moving', drops', k, s, MaxDrop + 1)
  BY <1>t, <1>1, <1>2 DEF Swept
<1>3. ASSUME epc' = "zero", NEW x \in 1 .. Len(ZeroOrder)
      PROVE  Settled(toDev', moving', drops', ZeroOrder[x], Len(toDev') + 1, Turns(x, i)')
  <2>1. Turns(x, i) \in Nat /\ Turns(x, i)' = Turns(x, i)
    BY <1>t, <1>3, TurnsType DEF Turns
  <2>. QED BY <1>1, <1>3, <2>1 DEF Swept
<1>. QED BY <1>2, <1>3 DEF Swept

\* The steps that send something other than a zero or a set packet.
LEMMA SendSwept ==
    ASSUME IInv, Swept, NEW p \in Packet, p.kind # "set", SendOk(p) \/ SendFails,
           UNCHANGED moving, epc' # "zero"
    PROVE  Swept'
<1>t. toDev \in Seq(Packet) /\ drops \in Nat /\ MaxDrop + 1 \in Nat
  BY CountAssumption DEF IInv, TypeOK
<1>1. CASE SendOk(p)
  <2>1. ASSUME NEW s \in 1 .. Len(toDev'), NEW k \in Kinds, toDev'[s].kind = "set"
        PROVE  Settled(toDev', moving', drops', k, s, MaxDrop + 1)
    <3>1. s \in 1 .. Len(toDev) /\ toDev[s].kind = "set"
      BY <1>t, <1>1, <2>1, AppendAt DEF SendOk
    <3>2. s \in 1 .. Len(toDev) + 1 /\ Settled(toDev, moving, drops, k, s, MaxDrop + 1)
      BY <1>t, <3>1 DEF Swept
    <3>. QED BY <1>t, <1>1, <3>2, SettledAppend DEF SendOk, ghosts
  <2>. QED BY <2>1 DEF Swept
<1>2. CASE SendFails
  <2>1. UNCHANGED <<toDev, moving>> /\ drops' = drops + 1
    BY <1>2 DEF SendFails
  <2>. QED BY <2>1, RestSwept
<1>. QED BY <1>1, <1>2

LEMMA ZeroSwept == ASSUME IInv, Swept, SendZero PROVE Swept'
<1>t. /\ toDev \in Seq(Packet) /\ drops \in Nat /\ i \in Nat /\ i + 1 \in Nat
      /\ MaxDrop + 1 \in Nat
  BY CountAssumption, KindsType DEF IInv, TypeOK
<1>. DEFINE k0 == ZeroOrder[1 + (i % Len(ZeroOrder))]
<1>0. ZeroOf(k0) \in Packet /\ k0 \in Kinds
  <2>1. ZeroOf(k0) \in Packet
    BY <1>t, ZeroPacket DEF ZeroOf
  <2>2. 1 + (i % Len(ZeroOrder)) \in 1 .. Len(ZeroOrder)
    BY <1>t, KindsType
  <2>. QED BY <2>1, <2>2, ClientAssumption, LenProperties DEF Kinds
<1>a. ZeroOf(k0).kind # "set" /\ \A k : ZeroOf(k0) # MoveOf(k)
  BY <1>0, KindsType DEF ZeroOf, MoveOf
<1>b. /\ epc = "zero" /\ UNCHANGED <<epc, moving>> /\ i' = i + 1
      /\ SendOk(ZeroOf(k0)) \/ SendFails
  BY DEF SendZero, sendPacket, ZeroOf, base
<1>c. ASSUME NEW x \in 1 .. Len(ZeroOrder)
      PROVE  /\ Settled(toDev, moving, drops, ZeroOrder[x], Len(toDev) + 1, Turns(x, i))
             /\ Turns(x, i) \in Nat /\ Turns(x, i + 1) \in Nat
             /\ Turns(x, i + 1) = Turns(x, i) +
                    (IF 1 + (i % Len(ZeroOrder)) = x THEN 1 ELSE 0)
  BY <1>t, <1>b, TurnsType, TurnsStep DEF Swept
<1>. HIDE DEF k0
<1>1. CASE SendOk(ZeroOf(k0))
  <2>1. /\ toDev' = Append(toDev, ZeroOf(k0)) /\ drops' = drops /\ moving' = moving
        /\ Len(toDev) \in Nat /\ Len(toDev') = Len(toDev) + 1
        /\ \A j \in 1 .. Len(toDev) : toDev'[j] = toDev[j]
        /\ toDev'[Len(toDev) + 1] = ZeroOf(k0)
    BY <1>t, <1>0, <1>1, <1>b, AppendAt DEF SendOk, ghosts
  <2>2. ASSUME NEW s \in 1 .. Len(toDev'), NEW k \in Kinds, toDev'[s].kind = "set"
        PROVE  Settled(toDev', moving', drops', k, s, MaxDrop + 1)
    <3>1. s \in 1 .. Len(toDev) /\ toDev[s].kind = "set"
      BY <1>a, <2>1, <2>2
    <3>2. s \in 1 .. Len(toDev) + 1 /\ Settled(toDev, moving, drops, k, s, MaxDrop + 1)
      BY <2>1, <3>1 DEF Swept
    <3>. QED BY <1>t, <1>0, <2>1, <3>2, SettledAppend
  <2>3. ASSUME NEW x \in 1 .. Len(ZeroOrder)
        PROVE  Settled(toDev', moving', drops', ZeroOrder[x], Len(toDev) + 2, Turns(x, i + 1))
    <3>1. CASE 1 + (i % Len(ZeroOrder)) = x
      <4>1. ZeroOrder[x] = k0 /\ Turns(x, i + 1) = Turns(x, i) + 1
        BY <1>c, <3>1 DEF k0
      <4>2. Settled(toDev', moving', drops', k0, Len(toDev) + 2, Turns(x, i) + 1)
        BY <1>t, <1>0, <1>c, <2>1, <4>1, SettledZero
      <4>. QED BY <4>1, <4>2
    <3>2. CASE 1 + (i % Len(ZeroOrder)) # x
      <4>1. Turns(x, i + 1) = Turns(x, i)
        BY <1>c, <3>2
      <4>2. Settled(toDev', moving', drops', ZeroOrder[x], Len(toDev) + 2, Turns(x, i))
        BY <1>t, <1>0, <1>a, <1>c, <2>1, SettledGrow
      <4>. QED BY <4>1, <4>2
    <3>. QED BY <3>1, <3>2
  <2>4. Len(toDev') + 1 = Len(toDev) + 2
    BY <2>1
  <2>5. ASSUME NEW x \in 1 .. Len(ZeroOrder)
        PROVE  Settled(toDev', moving', drops', ZeroOrder[x], Len(toDev') + 1, Turns(x, i'))
    BY <1>b, <2>3, <2>4
  <2>. QED BY <2>2, <2>5 DEF Swept, Turns
<1>2. CASE SendFails
  <2>1. /\ toDev' = toDev /\ drops' = drops + 1 /\ drops' \in Nat /\ moving' = moving
    BY <1>t, <1>2, <1>b DEF SendFails, link
  <2>2. ASSUME NEW s \in 1 .. Len(toDev), NEW k \in Kinds, toDev[s].kind = "set"
        PROVE  Settled(toDev, moving, drops', k, s, MaxDrop + 1)
    <3>1. (MaxDrop + 1) - (MaxDrop + 1) <= drops' - drops
      BY <1>t, <2>1
    <3>. QED BY <1>t, <2>1, <2>2, <3>1, SettledMore DEF Swept
  <2>3. ASSUME NEW x \in 1 .. Len(ZeroOrder)
        PROVE  Settled(toDev, moving, drops', ZeroOrder[x], Len(toDev) + 1, Turns(x, i + 1))
    <3>1. Turns(x, i + 1) - Turns(x, i) <= drops' - drops
      BY <1>t, <1>c, <2>1
    <3>. QED BY <1>t, <1>c, <2>1, <3>1, SettledMore
  <2>4. ASSUME NEW x \in 1 .. Len(ZeroOrder)
        PROVE  Settled(toDev', moving', drops', ZeroOrder[x], Len(toDev') + 1, Turns(x, i'))
    BY <1>b, <2>1, <2>3
  <2>. QED BY <2>1, <2>2, <2>4 DEF Swept, Turns
<1>. QED BY <1>1, <1>2, <1>b

LEMMA SetSwept == ASSUME Rounds > MaxDrop, IInv, Swept, SendSet PROVE Swept'
<1>t. toDev \in Seq(Packet) /\ drops \in Nat /\ MaxDrop + 1 \in Nat /\ Rounds \in Nat
  BY CountAssumption DEF IInv, TypeOK
<1>. DEFINE p == [kind |-> "set", arg |-> req.mode]
<1>0. p \in Packet
  BY DEF SendSet, IInv, Locals, Busy, Packet
<1>. HIDE DEF p
<1>1. /\ epc = "zero" /\ i = Zeros /\ epc' # "zero" /\ moving' = moving
      /\ SendOk(p) \/ SendFails
  BY DEF SendSet, Goto, base, p
<1>2. ASSUME NEW k \in Kinds
      PROVE  Settled(toDev, moving, drops, k, Len(toDev) + 1, MaxDrop + 1)
  <2>1. PICK x \in 1 .. Len(ZeroOrder) : ZeroOrder[x] = k
    BY ClientAssumption, LenProperties DEF Kinds
  <2>2. Settled(toDev, moving, drops, k, Len(toDev) + 1, Rounds)
    BY <1>1, <2>1, TurnsEnds DEF Swept
  <2>3. (MaxDrop + 1) - Rounds <= drops - drops
    BY <1>t, CountAssumption
  <2>. QED BY <1>t, <2>2, <2>3, SettledMore
<1>3. CASE SendOk(p)
  <2>1. /\ toDev' = Append(toDev, p) /\ drops' = drops
        /\ Len(toDev) \in Nat /\ Len(toDev') = Len(toDev) + 1
        /\ \A j \in 1 .. Len(toDev) : toDev'[j] = toDev[j]
    BY <1>t, <1>0, <1>3, AppendAt DEF SendOk, ghosts
  <2>2. ASSUME NEW s \in 1 .. Len(toDev'), NEW k \in Kinds, toDev'[s].kind = "set"
        PROVE  Settled(toDev', moving', drops', k, s, MaxDrop + 1)
    <3>1. s \in 1 .. Len(toDev) + 1 /\ Settled(toDev, moving, drops, k, s, MaxDrop + 1)
      <4>1. CASE s = Len(toDev) + 1
        BY <1>2, <2>1, <4>1
      <4>2. CASE s # Len(toDev) + 1
        BY <2>1, <2>2, <4>2 DEF Swept
      <4>. QED BY <4>1, <4>2
    <3>. QED BY <1>t, <1>0, <1>1, <2>1, <3>1, SettledAppend
  <2>. QED BY <1>1, <2>2 DEF Swept
<1>4. CASE SendFails
  <2>1. toDev' = toDev /\ drops' \in Nat /\ (MaxDrop + 1) - (MaxDrop + 1) <= drops' - drops
    BY <1>t, <1>4 DEF SendFails, link
  <2>2. ASSUME NEW s \in 1 .. Len(toDev), NEW k \in Kinds, toDev[s].kind = "set"
        PROVE  Settled(toDev, moving, drops', k, s, MaxDrop + 1)
    BY <1>t, <2>1, <2>2, SettledMore DEF Swept
  <2>. QED BY <1>1, <2>1, <2>2 DEF Swept
<1>. QED BY <1>1, <1>3, <1>4

LEMMA RequestSwept == ASSUME IInv, Swept, NEW m, NEW save, Request(m, save) PROVE Swept'
<1>1. drops \in Nat
  BY CountAssumption DEF IInv, TypeOK
<1>2. /\ toDev' = toDev /\ moving' = moving /\ drops' = drops /\ i' = 0
  BY DEF Request, link, base
<1>3. ASSUME NEW x \in 1 .. Len(ZeroOrder)
      PROVE  Settled(toDev', moving', drops', ZeroOrder[x], Len(toDev') + 1, Turns(x, i'))
  <2>1. Turns(x, i') = 0
    BY <1>2, TurnsEnds
  <2>. QED BY <1>1, <1>2, <2>1, SettledNothing
<1>4. \A s \in 1 .. Len(toDev'), k \in Kinds :
          toDev'[s].kind = "set" => Settled(toDev', moving', drops', k, s, MaxDrop + 1)
  BY <1>2 DEF Swept
<1>. QED BY <1>3, <1>4 DEF Swept, Turns

\* What the base takes from the head of toDev.
LEMMA Taken == ASSUME IInv, DevTakes
               PROVE  /\ toDev # << >> /\ toDev' = Tail(toDev) /\ drops' = drops
                      /\ Head(toDev) = toDev[1] /\ toDev[1] \in Packet
                      /\ \A k \in Kinds : k \in moving' => k \in moving \/ toDev[1] = MoveOf(k)
                      /\ \A k \in Kinds : toDev[1] = ZeroOf(k) => k \notin moving'
<1>1. toDev \in Seq(Packet) /\ toDev # << >> /\ toDev' = Tail(toDev) /\ drops' = drops
  BY DEF IInv, TypeOK, DevTakes
<1>2. Head(toDev) = toDev[1] /\ toDev[1] \in Packet
  BY <1>1, HeadTailProperties, TailAt, ElementOfSeq
<1>. DEFINE p == toDev[1]
<1>3. CASE p.kind \in Kinds /\ moving' = IF p.arg = "move" THEN moving \cup {p.kind}
                                                       ELSE moving \ {p.kind}
  <2>1. p = ZeroOf(p.kind) \/ p = MoveOf(p.kind)
    BY <1>2, <1>3, KindsType DEF Packet, ZeroOf, MoveOf
  <2>. QED BY <1>1, <1>2, <1>3, <2>1 DEF ZeroOf, MoveOf
<1>4. CASE p.kind \in {"set", "reset"} /\ (moving' = moving \/ moving' = {})
  <2>1. \A k \in Kinds : p # ZeroOf(k)
    BY <1>4, KindsType DEF ZeroOf
  <2>. QED BY <1>1, <1>2, <1>4, <2>1
<1>. QED BY <1>2, <1>3, <1>4 DEF DevTakes

LEMMA NextSwept == ASSUME Rounds > MaxDrop
                   PROVE  IInv /\ Swept /\ [Next]_vars => Swept'
<1>. SUFFICES ASSUME IInv, Swept, [Next]_vars PROVE Swept'
  OBVIOUS
<1>k. "zero" \notin Kinds /\ "set" \notin Kinds
  BY KindsType
<1>n. drops \in Nat
  BY CountAssumption DEF IInv, TypeOK
<1>. USE DEF executor, link, base, ghosts, Goto
<1>1. CASE Clients
  <2>1. ASSUME NEW k \in Kinds, CommandCallback(k) PROVE Swept'
    BY <1>k, <2>1, RestSwept DEF CommandCallback
  <2>2. CASE RequestUnsupported
    BY <2>2, RestSwept DEF RequestUnsupported
  <2>. QED BY <1>1, <2>1, <2>2, RequestSwept DEF Clients
<1>2. CASE Executor
  <2>1. ASSUME NEW k \in Kinds, SendCommand(k) PROVE Swept'
    <3>1. MoveOf(k) \in Packet /\ MoveOf(k).kind # "set"
      BY <1>k DEF MoveOf, Packet
    <3>. QED BY <2>1, <3>1, SendSwept DEF SendCommand, sendPacket, MoveOf
  <2>2. CASE SendReset
    <3>1. /\ [kind |-> "reset", arg |-> "reset"] \in Packet
          /\ [kind |-> "reset", arg |-> "reset"].kind # "set"
      BY DEF Packet
    <3>. QED BY <2>2, <3>1, SendSwept DEF SendReset
  <2>3. CASE Reply \/ SetFailed \/ Mark \/ Confirm \/ SwitchTimeout
    BY <2>3, RestSwept DEF Reply, SetFailed, Mark, Confirm, SwitchTimeout
  <2>8. CASE Constructed
    BY <2>8, RestSwept DEF Constructed, SendFails
  <2>4. CASE Poll
    BY <2>4, RestSwept DEF Poll
  <2>5. ASSUME NEW this \in SaveStages, NEW next \in SaveStages, ParamCommand(this, next)
        PROVE  Swept'
    BY <2>5, RestSwept DEF ParamCommand, SendFails, SaveFails, SaveStages
  <2>6. CASE VerifyPersisted
    BY <2>6, RestSwept DEF VerifyPersisted, SendFails
  <2>7. CASE VerifyFails
    BY <2>7, RestSwept DEF VerifyFails, SaveFails
  <2>. QED BY <1>2, <2>1, <2>2, <2>3, <2>4, <2>5, <2>6, <2>7, <2>8, ZeroSwept, SetSwept
           DEF Executor, SaveStages
<1>3. CASE Receiver
  BY <1>3, RestSwept DEF Receiver, StatusReceived, StatusApplied
<1>4. CASE Base
  <2>1. CASE DevTakes
    <3>1. UNCHANGED <<epc, i>>
      BY <2>1 DEF DevTakes
    <3>. QED BY <1>n, <2>1, <3>1, Taken, TailSwept
  <2>2. CASE PacketLost
    <3>1. /\ toDev # << >> /\ toDev' = Tail(toDev) /\ drops' = drops + 1
          /\ UNCHANGED <<epc, i, moving>>
      BY <2>2 DEF PacketLost
    <3>2. drops' \in Nat
      BY <1>n, <3>1
    <3>. QED BY <3>1, <3>2, TailSwept
  <2>3. ASSUME NEW x \in Motors, DevMotorFollows(x) PROVE Swept'
    BY <2>3, RestSwept DEF DevMotorFollows
  <2>4. ASSUME NEW form \in Forms, DevReports(form) PROVE Swept'
    BY <2>4, RestSwept DEF DevReports
  <2>5. CASE DevDmFollows \/ RcTakeover \/ StatusLost
    BY <2>5, RestSwept DEF DevDmFollows, RcTakeover, StatusLost
  <2>. QED BY <1>4, <2>1, <2>2, <2>3, <2>4, <2>5 DEF Base
<1>5. CASE UNCHANGED vars \/ Reopened \/ OpenThrows
  BY <1>5, RestSwept, OpenLeaves DEF vars
<1>. QED BY <1>1, <1>2, <1>3, <1>4, <1>5 DEF Next

\* When a set packet is at the head, its prefix is empty.
LEMMA SetFindsRest == ASSUME IInv, Swept, DevTakes, Head(toDev).kind = "set"
                      PROVE  moving = {}
<1>1. /\ Head(toDev) = toDev[1] /\ toDev # << >> /\ toDev \in Seq(Packet)
      /\ moving \subseteq Kinds /\ drops \in 0 .. MaxDrop /\ MaxDrop \in Nat
  BY Taken, CountAssumption DEF IInv, TypeOK
<1>2. 1 \in 1 .. Len(toDev)
  BY <1>1, TailAt
<1>3. ASSUME NEW k \in Kinds PROVE k \notin moving
  <2>1. Settled(toDev, moving, drops, k, 1, MaxDrop + 1)
    BY <1>1, <1>2 DEF Swept
  <2>2. ASSUME NEW c \in Nat, Flush(toDev, k, 1, c), c + drops >= MaxDrop + 1
        PROVE  FALSE
    <3>1. 1 \in 1 .. c
      BY <1>1, <2>2
    <3>2. PICK f \in [1 .. c -> 1 .. 1 - 1] : TRUE
      BY <2>2 DEF Flush
    <3>. QED BY <3>1, <3>2
  <2>. QED BY <2>1, <2>2 DEF Settled, Clean
<1>. QED BY <1>1, <1>3

-----------------------------------------------------------------------------
\* The base takes a set packet only at rest, for every number of kinds and of
\* losses as long as there are more rounds of zeros (sendZeroCommands).
THEOREM SwitchesAtRest == ASSUME Rounds > MaxDrop
                          PROVE  Spec => ZeroBeforeSwitch
<1>1. Init => Swept
  BY InitSwept
<1>2. IInv /\ Swept /\ [Next]_vars => Swept'
  BY NextSwept
<1>3. IInv /\ Swept /\ [Next]_vars =>
          [DevTakes /\ Head(toDev).kind = "set" => moving = {}]_vars
  BY SetFindsRest
<1>. QED BY <1>1, <1>2, <1>3, Inductive, PTL DEF Spec, ZeroBeforeSwitch

-----------------------------------------------------------------------------
(* Refinement *)

\* The handler's locals as far as ModeService sees them.
Between == {"ctor", "idle"} \cup Kinds
Asked == {"zero", "set_failed", "mark", "poll"}
Seen == /\ epc \in Between => req.mode = UNKNOWN
        /\ epc \in Between \cup Asked => res.success = FALSE

RInv == IInv /\ Swept /\ Seen

LEMMA InitSeen == Init => Seen
BY DEF Init, Seen, NoReq, NoRes

LEMMA NextSeen == IInv /\ Seen /\ [Next]_vars => Seen'
<1>. SUFFICES ASSUME IInv, Seen, [Next]_vars PROVE Seen'
  OBVIOUS
<1>t. TypeOK /\ Locals
  BY DEF IInv
<1>k. Kinds \subseteq {"cmd_vel", "dm_speed", "dm_mit"}
  BY KindsType
<1>. USE DEF executor, Goto, Seen, Between, Asked
<1>1. CASE UNCHANGED executor
  BY <1>1
<1>2. CASE Clients
  BY <1>k, <1>2 DEF Clients, CommandCallback, RequestUnsupported, Request
<1>3. CASE Executor
  <2>1. CASE Constructed \/ (\E k \in Kinds : SendCommand(k)) \/ SendZero \/ Mark
             \/ VerifyPersisted
    BY <1>k, <2>1 DEF Constructed, SendCommand, SendZero, Mark, VerifyPersisted
  <2>2. CASE Reply
    BY <2>2 DEF Reply, NoReq, NoRes
  <2>3. CASE SendSet
    BY <1>k, <2>3 DEF SendSet
  <2>4. CASE SetFailed \/ SwitchTimeout \/ Confirm \/ VerifyFails \/ SendReset
    BY <1>k, <2>4 DEF SetFailed, SwitchTimeout, Confirm, VerifyFails, SaveFails, SendReset
  <2>5. CASE Poll
    BY <1>k, <2>5 DEF Poll
  <2>6. ASSUME NEW this \in SaveStages, NEW next \in SaveStages, ParamCommand(this, next)
        PROVE  Seen'
    BY <1>k, <2>6 DEF ParamCommand, SaveFails, SaveStages
  <2>. QED BY <1>3, <2>1, <2>2, <2>3, <2>4, <2>5, <2>6 DEF Executor, SaveStages
<1>4. CASE Receiver
  BY <1>1, <1>4 DEF Receiver, StatusReceived, StatusApplied
<1>5. CASE Base
  BY <1>1, <1>5 DEF Base, DevTakes, DevDmFollows, RcTakeover, DevMotorFollows,
                    DevReports, StatusLost, PacketLost
<1>6. CASE UNCHANGED vars \/ Reopened \/ OpenThrows
  BY <1>1, <1>6, OpenLeaves DEF vars
<1>. QED BY <1>2, <1>3, <1>4, <1>5, <1>6 DEF Next

\* The mode the cache is ready for is no other.
LEMMA ReadyModeIs == ASSUME NEW m \in Modes, isModeReady(m) PROVE ReadyMode = m
BY DEF ReadyMode, isModeReady, Modes

LEMMA InitMaps == Init => Service!Init
<1>. SUFFICES ASSUME Init PROVE Service!Init
  OBVIOUS
<1>1. req.mode = UNKNOWN /\ res.success = FALSE /\ epc = "ctor" /\ moving = {}
  BY DEF Init, NoReq, NoRes
<1>2. Found = "none"
  BY <1>1 DEF Found
<1>3. ReadyMode = UNKNOWN
  BY DEF Init, ReadyMode, isModeReady
<1>4. dev.chassis \in Modes
  BY DEF Init
<1>. QED BY <1>1, <1>2, <1>3, <1>4 DEF Service!Init

\* Every step is a step of the service, or none.
LEMMA StepMaps == RInv /\ [Next]_vars => [Service!Next]_(Service!serviceVars)
<1>. SUFFICES ASSUME RInv, [Next]_vars PROVE [Service!Next]_(Service!serviceVars)
  OBVIOUS
<1>t. TypeOK /\ Locals /\ Seen
  BY DEF RInv, IInv
<1>k. Kinds \subseteq {"cmd_vel", "dm_speed", "dm_mit"}
  BY KindsType
<1>. DEFINE S == [Service!Next]_(Service!serviceVars)
<1>. USE DEF executor, modeVars, link, base, Goto, Between, Asked
\* What the five variables of the service depend on.
<1>a. ASSUME UNCHANGED mode_cache_ PROVE ReadyMode' = ReadyMode
  BY <1>a DEF ReadyMode, isModeReady
<1>b. ASSUME UNCHANGED <<epc, res>> PROVE Found' = Found
  BY <1>b DEF Found
<1>c. ASSUME UNCHANGED <<req, mode_cache_, dev, moving>>, Found' = Found PROVE S
  BY <1>a, <1>c DEF Service!serviceVars
<1>1. CASE Clients
  <2>1. ASSUME NEW k \in Kinds, CommandCallback(k) PROVE S
    <3>1. Found = "none" /\ Found' = "none"
      BY <1>t, <1>k, <2>1 DEF CommandCallback, Found, Seen
    <3>. QED BY <1>c, <2>1, <3>1 DEF CommandCallback
  <2>2. CASE RequestUnsupported
    <3>1. res'.success = FALSE /\ epc' = "reply" /\ epc = "idle"
      BY <2>2 DEF RequestUnsupported, Answer
    <3>2. Found = "none" /\ Found' = "no" /\ req.mode = UNKNOWN
      BY <1>t, <3>1 DEF Found, Seen
    <3>3. UNCHANGED <<req, mode_cache_, dev, moving>> /\ ReadyMode' = ReadyMode
      BY <1>a, <2>2 DEF RequestUnsupported
    <3>4. Service!RefuseUnsupported
      BY <3>2, <3>3 DEF Service!RefuseUnsupported
    <3>. QED BY <3>4 DEF Service!Next
  <2>3. ASSUME NEW m \in Modes, NEW save \in Saves, Request(m, save) PROVE S
    <3>1. epc = "idle" /\ epc' = "zero" /\ req'.mode = m /\ res' = res
      BY <2>3 DEF Request
    <3>2. Found = "none" /\ Found' = "none" /\ req.mode = UNKNOWN
      BY <1>t, <3>1 DEF Found, Seen
    <3>3. UNCHANGED <<mode_cache_, dev, moving>> /\ ReadyMode' = ReadyMode
      BY <1>a, <2>3 DEF Request
    <3>4. Service!Accept(m)
      BY <3>1, <3>2, <3>3 DEF Service!Accept
    <3>. QED BY <3>4 DEF Service!Next
  <2>. QED BY <1>1, <2>1, <2>2, <2>3 DEF Clients
<1>2. CASE Executor
  <2>1. CASE Constructed \/ SendZero \/ Mark \/ \E k \in Kinds : SendCommand(k)
    <3>1. Found = "none" /\ Found' = "none"
      BY <1>t, <1>k, <2>1 DEF Constructed, SendZero, Mark, SendCommand, Found, Seen
    <3>2. UNCHANGED <<req, mode_cache_, dev, moving>>
      BY <2>1 DEF Constructed, SendZero, Mark, SendCommand
    <3>. QED BY <1>c, <3>1, <3>2
  <2>2. CASE Reply
    <3>1. epc = "reply" /\ epc' = "idle" /\ req'.mode = UNKNOWN
      BY <2>2 DEF Reply, NoReq
    <3>2. Found # "none" /\ Found' = "none"
      BY <3>1 DEF Found
    <3>3. UNCHANGED <<mode_cache_, dev, moving>> /\ ReadyMode' = ReadyMode
      BY <1>a, <2>2 DEF Reply
    <3>4. Service!Reply
      BY <3>1, <3>2, <3>3 DEF Service!Reply
    <3>. QED BY <3>4 DEF Service!Next
  <2>3. CASE SendSet
    <3>1. Found = "none" /\ Found' = "none"
      BY <1>t, <2>3 DEF SendSet, Found, Seen
    <3>. QED BY <1>c, <2>3, <3>1 DEF SendSet
  <2>4. CASE SetFailed \/ SwitchTimeout
    <3>1. res'.success = FALSE /\ epc' = "reply" /\ epc \in {"set_failed", "poll"}
      BY <2>4 DEF SetFailed, SwitchTimeout, Answer
    <3>2. Found = "none" /\ Found' = "no" /\ req.mode # UNKNOWN
      BY <1>t, <3>1 DEF Found, Seen, Locals, Busy, Modes, UNKNOWN
    <3>3. UNCHANGED <<req, mode_cache_, dev, moving>> /\ ReadyMode' = ReadyMode
      BY <1>a, <2>4 DEF SetFailed, SwitchTimeout
    <3>4. Service!Refuse
      BY <3>2, <3>3 DEF Service!Refuse
    <3>. QED BY <3>4 DEF Service!Next
  <2>5. CASE Poll
    <3>1. UNCHANGED <<req, mode_cache_, dev, moving>> /\ ReadyMode' = ReadyMode
      BY <1>a, <2>5 DEF Poll
    <3>2. Found = "none" /\ req.mode \in Modes
      BY <1>t, <2>5 DEF Poll, Found, Seen, Locals, Busy
    <3>3. CASE isModeReady(req.mode)
      <4>1. Found' = "yes"
        BY <2>5, <3>3 DEF Poll, Found
      <4>2. ReadyMode = req.mode /\ req.mode # UNKNOWN
        BY <3>2, <3>3, ReadyModeIs DEF Modes, UNKNOWN
      <4>3. Service!Confirm
        BY <3>1, <3>2, <4>1, <4>2 DEF Service!Confirm
      <4>. QED BY <4>3 DEF Service!Next
    <3>4. CASE ~isModeReady(req.mode)
      BY <1>b, <1>c, <2>5, <3>1, <3>4 DEF Poll
    <3>. QED BY <3>3, <3>4
  <2>6. CASE Confirm
    <3>1. Found = "yes"
      BY <2>6 DEF Confirm, Found
    <3>2. res'.success = TRUE /\ epc' # "idle" /\ epc' # "matched"
      BY <1>t, <2>6 DEF Confirm, TypeOK, Response
    <3>3. Found' = "yes"
      BY <3>2 DEF Found
    <3>. QED BY <1>c, <2>6, <3>1, <3>3 DEF Confirm
  <2>7. ASSUME epc \in SaveStages, epc' = "reply", res'.success = FALSE,
               UNCHANGED <<req, mode_cache_, dev, moving>>
        PROVE  S
    <3>1. Found = "yes" /\ Found' = "no"
      BY <1>t, <2>7 DEF Locals, SaveStages, Found
    <3>2. Service!Withdraw
      BY <1>a, <2>7, <3>1 DEF Service!Withdraw
    <3>. QED BY <3>2 DEF Service!Next
  <2>8. ASSUME epc \in SaveStages, epc' \in SaveStages \cup {"reply"}, res'.success = TRUE,
               UNCHANGED <<req, mode_cache_, dev, moving>>
        PROVE  S
    <3>1. Found = "yes" /\ Found' = "yes"
      BY <1>t, <2>8 DEF Locals, SaveStages, Found
    <3>. QED BY <1>c, <2>8, <3>1
  <2>9. ASSUME NEW this \in SaveStages, NEW next \in SaveStages, ParamCommand(this, next)
        PROVE  S
    <3>1. epc = this /\ UNCHANGED <<req, mode_cache_, dev, moving>>
      BY <2>9 DEF ParamCommand
    <3>2. CASE Goto(next) /\ UNCHANGED res
      BY <1>t, <2>8, <3>1, <3>2 DEF Locals
    <3>3. CASE SaveFails
      <4>1. epc' = "reply" /\ res'.success = FALSE
        BY <1>t, <3>3 DEF SaveFails, TypeOK, Response
      <4>. QED BY <2>7, <3>1, <4>1
    <3>. QED BY <2>9, <3>2, <3>3 DEF ParamCommand
  <2>10. CASE VerifyPersisted
    <3>1. /\ epc \in SaveStages /\ epc' \in SaveStages /\ UNCHANGED res
          /\ UNCHANGED <<req, mode_cache_, dev, moving>>
      BY <2>10 DEF VerifyPersisted, SaveStages
    <3>. QED BY <1>t, <2>8, <3>1 DEF Locals
  <2>11. CASE VerifyFails
    <3>1. /\ epc \in SaveStages /\ epc' = "reply" /\ res'.success = FALSE
          /\ UNCHANGED <<req, mode_cache_, dev, moving>>
      BY <1>t, <2>11 DEF VerifyFails, SaveFails, SaveStages, TypeOK, Response
    <3>. QED BY <2>7, <3>1
  <2>12. CASE SendReset
    <3>1. /\ epc \in SaveStages /\ epc' = "reply" /\ res.success = TRUE
          /\ UNCHANGED <<req, mode_cache_, dev, moving>>
      BY <1>t, <2>12 DEF SendReset, SaveStages, Locals
    <3>2. res'.success = TRUE \/ res'.success = FALSE
      BY <1>t, <2>12, <3>1 DEF SendReset, TypeOK, Response
    <3>. QED BY <2>7, <2>8, <3>1, <3>2
  <2>. QED BY <1>2, <2>1, <2>2, <2>3, <2>4, <2>5, <2>6, <2>9, <2>10, <2>11, <2>12
           DEF Executor, SaveStages
<1>3. CASE Receiver
  <2>1. CASE StatusReceived
    <3>1. UNCHANGED <<req, dev, moving>> /\ Found' = Found
      BY <1>b, <2>1 DEF StatusReceived
    <3>2. ReadyMode' \in Modes \cup {UNKNOWN}
      BY DEF ReadyMode, Modes
    <3>3. Service!Learn(ReadyMode')
      BY <3>1 DEF Service!Learn
    <3>. QED BY <3>2, <3>3 DEF Service!Next
  <2>2. CASE StatusApplied
    BY <1>b, <1>c, <2>2 DEF StatusApplied
  <2>. QED BY <1>3, <2>1, <2>2 DEF Receiver
<1>4. CASE Base
  <2>1. CASE DevTakes
    <3>1. UNCHANGED <<req, mode_cache_, epc, res>> /\ ReadyMode' = ReadyMode /\ Found' = Found
      BY <1>a, <1>b, <2>1 DEF DevTakes
    <3>2. Head(toDev) \in Packet /\ moving' \in SUBSET Kinds
      <4>1. moving' \subseteq Kinds
        BY <1>t, <2>1 DEF DevTakes, TypeOK
      <4>. QED BY <2>1, <4>1, Taken DEF RInv
    <3>3. CASE Head(toDev).kind \in Kinds /\ UNCHANGED dev
      <4>1. Service!Motion(moving')
        BY <3>1, <3>3 DEF Service!Motion
      <4>. QED BY <3>2, <4>1 DEF Service!Next
    <3>4. CASE /\ Head(toDev).kind = "set" /\ UNCHANGED moving
               /\ dev' = [dev EXCEPT !.chassis = Head(toDev).arg]
      <4>1. Head(toDev).arg \in Modes
        BY <1>k, <3>2, <3>4 DEF Packet
      <4>2. moving = {}
        BY <2>1, <3>4, SetFindsRest DEF RInv
      <4>3. dev'.chassis = Head(toDev).arg
        BY <1>t, <3>4 DEF TypeOK
      <4>4. Service!EnterMode(Head(toDev).arg)
        BY <3>1, <3>4, <4>2, <4>3 DEF Service!EnterMode
      <4>. QED BY <4>1, <4>4 DEF Service!Next
    <3>5. ASSUME NEW m \in Modes, moving' = {},
                 dev' = [chassis |-> m, dm |-> m, motor |-> [x \in Motors |-> "off"]]
          PROVE  S
      <4>1. Service!Restart(m)
        BY <3>1, <3>5 DEF Service!Restart
      <4>. QED BY <4>1 DEF Service!Next
    <3>. QED BY <2>1, <3>3, <3>4, <3>5 DEF DevTakes
  <2>2. ASSUME UNCHANGED <<executor, mode_cache_, moving>>, dev'.chassis = dev.chassis
        PROVE  S
    BY <1>a, <1>b, <2>2 DEF Service!serviceVars
  <2>3. CASE DevDmFollows
    <3>1. dev'.chassis = dev.chassis
      BY <1>t, <2>3 DEF DevDmFollows, TypeOK
    <3>. QED BY <2>2, <2>3, <3>1 DEF DevDmFollows
  <2>4. ASSUME NEW x \in Motors, DevMotorFollows(x) PROVE S
    <3>1. dev'.chassis = dev.chassis
      BY <1>t, <2>4 DEF DevMotorFollows, TypeOK
    <3>. QED BY <2>2, <2>4, <3>1 DEF DevMotorFollows
  <2>5. CASE RcTakeover
    <3>1. dev'.chassis = "rc"
      BY <1>t, <2>5 DEF RcTakeover, TypeOK
    <3>2. UNCHANGED <<req, mode_cache_, epc, res, moving>>
      BY <2>5 DEF RcTakeover
    <3>3. Service!TakeOver
      BY <1>a, <1>b, <3>1, <3>2 DEF Service!TakeOver
    <3>. QED BY <3>3 DEF Service!Next
  <2>6. ASSUME NEW form \in Forms, DevReports(form) PROVE S
    BY <2>2, <2>6 DEF DevReports
  <2>7. CASE StatusLost \/ PacketLost
    BY <2>2, <2>7 DEF StatusLost, PacketLost
  <2>. QED BY <1>4, <2>1, <2>3, <2>4, <2>5, <2>6, <2>7 DEF Base
<1>5. CASE UNCHANGED vars \/ Reopened \/ OpenThrows
  BY <1>b, <1>c, <1>5, OpenLeaves DEF vars
<1>. QED BY <1>1, <1>2, <1>3, <1>4, <1>5 DEF Next

\* The mode manager keeps the promises of ModeService: it takes one request at
\* a time, confirms only what the driver knows, and switches at rest
\* (setControlModeCallback, onMotionModeStatus, velocityCallback,
\* wheelMitCallback).
THEOREM Implements == ASSUME Rounds > MaxDrop
                      PROVE  Spec => ImplementsService
<1>1. Init => RInv
  BY InitIInv, InitSwept, InitSeen DEF RInv
<1>2. RInv /\ [Next]_vars => RInv'
  <2>1. IInv /\ [Next]_vars => IInv'
    BY NextTypeOK, NextCurrentMode, NextAnswered DEF IInv, Answered
  <2>. QED BY <2>1, NextSwept, NextSeen DEF RInv
<1>. QED BY <1>1, <1>2, InitMaps, StepMaps, PTL
         DEF Spec, ImplementsService, Service!Spec

-----------------------------------------------------------------------------
(* Confirmation.  Cache, statuses on their way, base and set packets on       *)
(* their way are one queue of modes, from the oldest to the one asked for     *)
(* last.  Outside a switch they are all the same; during one the requested    *)
(* mode comes behind the others.                                              *)

\* From the place on where the mode is m, it is m.
Upward(m) ==
    /\ mode_cache_.has /\ mode_cache_.chassis = m =>
          dev.chassis = m /\ \A j \in 1 .. Len(toHost) : toHost[j].chassis = m
    /\ \A j \in 1 .. Len(toHost) : toHost[j].chassis = m =>
          dev.chassis = m /\ \A l \in j .. Len(toHost) : toHost[l].chassis = m
    /\ dev.chassis = m =>
          \A j \in 1 .. Len(toDev) : toDev[j].kind = "set" => toDev[j].arg = m
    /\ \A j \in 1 .. Len(toDev) : toDev[j].kind = "set" /\ toDev[j].arg = m =>
          \A l \in j .. Len(toDev) : toDev[l].kind = "set" => toDev[l].arg = m

AllThere == /\ mode_cache_.has => mode_cache_.chassis = dev.chassis
            /\ \A j \in 1 .. Len(toHost) : toHost[j].chassis = dev.chassis
            /\ \A j \in 1 .. Len(toDev) : toDev[j].kind = "set" => toDev[j].arg = dev.chassis

Switching == epc \in {"mark", "poll"}

InOrder == ~disturbed => IF Switching THEN Upward(req.mode) ELSE AllThere

\* Without the ghost set, the base is not in the requested mode.
Absent == epc \in Asked \cup {"matched"} /\ ~present => dev.chassis # req.mode \/ disturbed

CInv == InOrder /\ Absent /\ ConfirmedTruly

LEMMA InitCInv == Init => CInv
BY EmptySeq DEF Init, CInv, InOrder, Absent, ConfirmedTruly, AllThere, Switching, Asked

\* Nothing the queue of modes is made of has changed.
LEMMA QueueStays ==
    ASSUME CInv,
           UNCHANGED <<mode_cache_, toHost, dev, disturbed, present>>,
           \/ UNCHANGED toDev
           \/ \E p \in Packet : /\ p.kind # "set" /\ toDev' = Append(toDev, p)
                              /\ toDev \in Seq(Packet),
           Switching' <=> Switching,
           Switching => req' = req
    PROVE  InOrder'
<1>1. \A j \in 1 .. Len(toDev') :
         toDev'[j].kind = "set" => j \in 1 .. Len(toDev) /\ toDev'[j] = toDev[j]
  BY AppendAt
<1>2. Len(toDev) <= Len(toDev') \/ toDev' = toDev
  BY AppendAt
<1>3. AllThere => AllThere'
  BY <1>1 DEF AllThere
<1>4. ASSUME Switching, Upward(req.mode) PROVE Upward(req.mode)'
  BY <1>1, <1>4 DEF Upward
<1>. QED BY <1>3, <1>4 DEF CInv, InOrder, Switching

LEMMA SetInOrder == ASSUME IInv, CInv, SendSet PROVE InOrder'
<1>t. toDev \in Seq(Packet)
  BY DEF IInv, TypeOK
<1>. DEFINE p == [kind |-> "set", arg |-> req.mode]
<1>0. p \in Packet /\ p.kind = "set" /\ p.arg = req.mode
  BY DEF SendSet, IInv, Locals, Busy, Packet
<1>. HIDE DEF p
<1>1. epc = "zero" /\ UNCHANGED <<mode_cache_, req, dev, disturbed, toHost>>
  BY DEF SendSet, SendOk, SendFails, modeVars, base, ghosts, link
<1>2. CASE SendOk(p) /\ Goto("mark")
  <2>1. /\ Len(toDev) \in Nat /\ Len(toDev') = Len(toDev) + 1
        /\ \A j \in 1 .. Len(toDev) : toDev'[j] = toDev[j]
        /\ toDev'[Len(toDev) + 1] = p
    BY <1>t, <1>0, <1>2, AppendAt DEF SendOk
  <2>2. ASSUME AllThere PROVE Upward(req.mode)'
    BY <1>0, <1>1, <2>1, <2>2 DEF AllThere, Upward
  <2>. QED BY <1>1, <1>2, <2>2 DEF CInv, InOrder, Switching, Goto
<1>3. CASE SendFails /\ Goto("set_failed")
  BY <1>1, <1>3 DEF CInv, InOrder, Switching, Goto, SendFails, link, AllThere
<1>. QED BY <1>2, <1>3 DEF SendSet, p

LEMMA LinkInOrder == ASSUME IInv, CInv, Receiver \/ Base PROVE InOrder'
<1>t. /\ toDev \in Seq(Packet) /\ toHost \in Seq(Status) /\ TypeOK
      /\ Len(toDev) \in Nat /\ Len(toHost) \in Nat
  BY LenProperties DEF IInv, TypeOK
<1>e. UNCHANGED <<epc, req>>
  BY DEF Receiver, StatusReceived, StatusApplied, Base, DevTakes, DevDmFollows, RcTakeover,
         DevMotorFollows, DevReports, StatusLost, PacketLost, executor
<1>. SUFFICES ASSUME ~disturbed'
              PROVE  /\ Switching /\ Upward(req.mode) => Upward(req.mode)'
                     /\ AllThere => AllThere'
  BY <1>e DEF CInv, InOrder, Switching, Receiver, StatusReceived, StatusApplied, Base,
              DevTakes, DevDmFollows, RcTakeover, DevMotorFollows, DevReports, StatusLost,
              PacketLost, ghosts
<1>. USE DEF modeVars, link, base, ghosts
<1>1. CASE UNCHANGED <<mode_cache_, toHost, toDev>> /\ dev'.chassis = dev.chassis
  BY <1>e, <1>1 DEF Upward, AllThere
<1>2. ASSUME toHost # << >>, toHost' = Tail(toHost), UNCHANGED <<toDev, dev>>,
             \/ mode_cache_' = mode_cache_
             \/ mode_cache_'.chassis = Head(toHost).chassis
      PROVE  (Upward(req.mode) => Upward(req.mode)') /\ (AllThere => AllThere')
  <2>1. /\ Len(toHost') = Len(toHost) - 1 /\ Len(toHost) \in Nat \ {0}
        /\ \A j \in 1 .. Len(toHost) - 1 : toHost'[j] = toHost[j + 1]
        /\ Head(toHost) = toHost[1]
    BY <1>t, <1>2, HeadTailProperties, LenProperties, EmptySeq
  <2>2. AllThere => AllThere'
    BY <1>2, <2>1 DEF AllThere
  <2>3. ASSUME Upward(req.mode) PROVE Upward(req.mode)'
    <3>1. \A j \in 1 .. Len(toHost') : toHost'[j].chassis = req.mode =>
             dev.chassis = req.mode /\ \A l \in j .. Len(toHost') : toHost'[l].chassis = req.mode
      <4>1. ASSUME NEW j \in 1 .. Len(toHost'), toHost'[j].chassis = req.mode
            PROVE  /\ dev.chassis = req.mode
                   /\ \A l \in j .. Len(toHost') : toHost'[l].chassis = req.mode
        <5>1. j + 1 \in 1 .. Len(toHost) /\ toHost[j + 1].chassis = req.mode
          BY <2>1, <4>1
        <5>2. /\ dev.chassis = req.mode
              /\ \A l \in j + 1 .. Len(toHost) : toHost[l].chassis = req.mode
          BY <2>3, <5>1 DEF Upward
        <5>3. \A l \in j .. Len(toHost') : l + 1 \in j + 1 .. Len(toHost)
                                           /\ toHost'[l] = toHost[l + 1]
          BY <2>1
        <5>. QED BY <5>2, <5>3
      <4>. QED BY <4>1
    <3>2. mode_cache_'.has /\ mode_cache_'.chassis = req.mode =>
             dev.chassis = req.mode /\ \A j \in 1 .. Len(toHost') : toHost'[j].chassis = req.mode
      <4>1. CASE mode_cache_' = mode_cache_
        BY <2>1, <2>3, <4>1 DEF Upward
      <4>2. CASE mode_cache_'.chassis = Head(toHost).chassis
        BY <2>1, <2>3, <4>2 DEF Upward
      <4>. QED BY <1>2, <4>1, <4>2
    <3>. QED BY <1>e, <1>2, <2>3, <3>1, <3>2 DEF Upward
  <2>. QED BY <2>2, <2>3
<1>3. CASE StatusReceived
  <2>1. mode_cache_'.chassis = Head(toHost).chassis
    BY <1>3 DEF StatusReceived, Received
  <2>. QED BY <1>2, <1>3, <2>1 DEF StatusReceived
<1>4. CASE StatusLost
  BY <1>2, <1>4 DEF StatusLost
<1>5. CASE StatusApplied \/ DevDmFollows \/ \E x \in Motors : DevMotorFollows(x)
  BY <1>t, <1>1, <1>5 DEF StatusApplied, DevDmFollows, DevMotorFollows, TypeOK
<1>6. ASSUME NEW form \in Forms, DevReports(form)
      PROVE  (Upward(req.mode) => Upward(req.mode)') /\ (AllThere => AllThere')
  <2>1. [form |-> form, chassis |-> dev.chassis, dm |-> dev.dm, motor |-> dev.motor,
         ready |-> dev.dm = dev.chassis] \in Status
    BY <1>t DEF Status, TypeOK
  <2>2. /\ Len(toHost') = Len(toHost) + 1
        /\ \A j \in 1 .. Len(toHost) : toHost'[j] = toHost[j]
        /\ toHost'[Len(toHost) + 1].chassis = dev.chassis
    BY <1>t, <1>6, <2>1, AppendProperties DEF DevReports
  <2>3. UNCHANGED <<mode_cache_, toDev, dev>>
    BY <1>6 DEF DevReports
  <2>4. \A j \in 1 .. Len(toHost') : j \in 1 .. Len(toHost) \/ j = Len(toHost) + 1
    BY <1>t, <2>2
  <2>5. AllThere => AllThere'
    BY <2>2, <2>3, <2>4 DEF AllThere
  <2>6. ASSUME Upward(req.mode) PROVE Upward(req.mode)'
    <3>1. ASSUME NEW j \in 1 .. Len(toHost'), toHost'[j].chassis = req.mode
          PROVE  /\ dev.chassis = req.mode
                 /\ \A l \in j .. Len(toHost') : toHost'[l].chassis = req.mode
      <4>1. dev.chassis = req.mode
        BY <2>2, <2>4, <2>6, <3>1 DEF Upward
      <4>2. ASSUME NEW l \in j .. Len(toHost') PROVE toHost'[l].chassis = req.mode
        <5>1. CASE l = Len(toHost) + 1
          BY <2>2, <4>1, <5>1
        <5>2. CASE l # Len(toHost) + 1
          <6>1. j \in 1 .. Len(toHost) /\ l \in j .. Len(toHost) /\ l \in 1 .. Len(toHost)
            BY <1>t, <2>2, <5>2
          <6>2. toHost[j].chassis = req.mode
            BY <2>2, <3>1, <6>1
          <6>. QED BY <2>2, <2>6, <6>1, <6>2 DEF Upward
        <5>. QED BY <5>1, <5>2
      <4>. QED BY <4>1, <4>2
    <3>2. mode_cache_.has /\ mode_cache_.chassis = req.mode =>
             \A j \in 1 .. Len(toHost') : toHost'[j].chassis = req.mode
      BY <2>2, <2>4, <2>6 DEF Upward
    <3>. QED BY <1>e, <2>3, <2>6, <3>1, <3>2 DEF Upward
  <2>. QED BY <2>5, <2>6
<1>7. ASSUME toDev # << >>, toDev' = Tail(toDev), UNCHANGED <<mode_cache_, toHost>>,
             \/ dev'.chassis = dev.chassis
             \/ toDev[1].kind = "set" /\ dev'.chassis = toDev[1].arg
      PROVE  (Upward(req.mode) => Upward(req.mode)') /\ (AllThere => AllThere')
  <2>1. /\ Len(toDev') = Len(toDev) - 1 /\ Len(toDev) \in Nat \ {0}
        /\ \A j \in 1 .. Len(toDev) - 1 : toDev'[j] = toDev[j + 1]
    BY <1>t, <1>7, TailAt
  <2>2. AllThere => AllThere'
    BY <1>7, <2>1 DEF AllThere
  <2>3. ASSUME Upward(req.mode) PROVE Upward(req.mode)'
    <3>1. dev.chassis = req.mode => dev'.chassis = req.mode
      BY <1>7, <2>1, <2>3 DEF Upward
    <3>2. dev'.chassis = req.mode =>
             \A j \in 1 .. Len(toDev') : toDev'[j].kind = "set" => toDev'[j].arg = req.mode
      BY <1>7, <2>1, <2>3 DEF Upward
    <3>3. \A j \in 1 .. Len(toDev') : toDev'[j].kind = "set" /\ toDev'[j].arg = req.mode =>
             \A l \in j .. Len(toDev') : toDev'[l].kind = "set" => toDev'[l].arg = req.mode
      <4>1. ASSUME NEW j \in 1 .. Len(toDev'), toDev'[j].kind = "set", toDev'[j].arg = req.mode
            PROVE  \A l \in j .. Len(toDev') : toDev'[l].kind = "set" => toDev'[l].arg = req.mode
        <5>1. j + 1 \in 1 .. Len(toDev) /\ toDev[j + 1] = toDev'[j]
          BY <2>1, <4>1
        <5>2. \A l \in j + 1 .. Len(toDev) : toDev[l].kind = "set" => toDev[l].arg = req.mode
          BY <2>3, <4>1, <5>1 DEF Upward
        <5>3. \A l \in j .. Len(toDev') : l + 1 \in j + 1 .. Len(toDev)
                                          /\ toDev'[l] = toDev[l + 1]
          BY <2>1
        <5>. QED BY <5>2, <5>3
      <4>. QED BY <4>1
    <3>. QED BY <1>e, <1>7, <2>3, <3>1, <3>2, <3>3 DEF Upward
  <2>. QED BY <2>2, <2>3
<1>8. CASE PacketLost
  BY <1>7, <1>8 DEF PacketLost
<1>9. CASE DevTakes
  <2>1. toDev # << >> /\ toDev' = Tail(toDev) /\ Head(toDev) = toDev[1]
    BY <1>9, Taken
  <2>2. UNCHANGED <<mode_cache_, toHost>>
    BY <1>9 DEF DevTakes
  <2>3. \/ dev'.chassis = dev.chassis
        \/ toDev[1].kind = "set" /\ dev'.chassis = toDev[1].arg
    BY <1>t, <1>9, <2>1 DEF DevTakes, TypeOK
  <2>. QED BY <1>7, <2>1, <2>2, <2>3
<1>10. CASE RcTakeover
  BY <1>10 DEF RcTakeover
<1>. QED BY <1>3, <1>4, <1>5, <1>6, <1>8, <1>9, <1>10 DEF Receiver, Base

LEMMA NextInOrder == IInv /\ CInv /\ [Next]_vars => InOrder'
<1>. SUFFICES ASSUME IInv, CInv, [Next]_vars PROVE InOrder'
  OBVIOUS
<1>t. TypeOK /\ toDev \in Seq(Packet) /\ Locals
  BY DEF IInv, TypeOK
<1>k. Kinds \subseteq {"cmd_vel", "dm_speed", "dm_mit"}
  BY KindsType
<1>. USE DEF executor, modeVars, link, base, ghosts, Goto
\* Steps that touch no mode, and neither start nor end a switch.
<1>1. ASSUME UNCHANGED <<mode_cache_, dev, toHost, toDev, disturbed>>,
             Switching' <=> Switching, Switching => req' = req
      PROVE  InOrder'
  BY <1>1 DEF CInv, InOrder, AllThere, Upward, Switching
<1>2. ASSUME NEW p \in Packet, p.kind # "set", SendOk(p) \/ SendFails,
             UNCHANGED <<mode_cache_, dev>>, ~Switching, ~Switching'
      PROVE  InOrder'
  <2>1. CASE SendOk(p)
    BY <1>t, <1>2, <2>1, QueueStays DEF SendOk
  <2>2. CASE SendFails
    BY <1>1, <1>2, <2>2 DEF SendFails
  <2>. QED BY <1>2, <2>1, <2>2
<1>3. CASE Clients
  BY <1>k, <1>1, <1>3 DEF Clients, CommandCallback, RequestUnsupported, Request, Switching
<1>4. CASE Executor
  <2>1. ASSUME NEW k \in Kinds, SendCommand(k) PROVE InOrder'
    <3>1. MoveOf(k) \in Packet /\ MoveOf(k).kind # "set"
      BY <1>k DEF MoveOf, Packet
    <3>. QED BY <1>k, <1>2, <2>1, <3>1 DEF SendCommand, sendPacket, MoveOf, Switching
  <2>2. CASE SendZero
    <3>. DEFINE p == [kind |-> ZeroOrder[1 + (i % Len(ZeroOrder))], arg |-> "zero"]
    <3>1. p \in Packet
      BY <1>t, ZeroPacket DEF TypeOK
    <3>2. p.kind # "set"
      BY <1>k, <3>1 DEF Packet, Modes
    <3>3. /\ SendOk(p) \/ SendFails
          /\ UNCHANGED <<mode_cache_, dev>> /\ epc = "zero" /\ epc' = "zero"
      BY <2>2 DEF SendZero, sendPacket
    <3>. HIDE DEF p
    <3>. QED BY <1>2, <3>1, <3>2, <3>3 DEF Switching
  <2>3. CASE SendReset
    <3>1. /\ [kind |-> "reset", arg |-> "reset"] \in Packet
          /\ [kind |-> "reset", arg |-> "reset"].kind # "set"
      BY DEF Packet
    <3>. QED BY <1>2, <2>3, <3>1 DEF SendReset, Switching
  <2>4. CASE Constructed \/ Reply \/ SetFailed \/ Mark \/ Confirm \/ VerifyFails
             \/ VerifyPersisted
    BY <1>1, <2>4 DEF Constructed, Reply, SetFailed, Mark, Confirm, VerifyFails,
                      VerifyPersisted, SaveFails, SendFails, Switching
  <2>5. CASE SwitchTimeout
    BY <2>5 DEF SwitchTimeout, InOrder
  <2>6. CASE Poll
    <3>1. CASE isModeReady(req.mode)
      <4>1. mode_cache_.has /\ mode_cache_.chassis = req.mode
        BY <3>1 DEF isModeReady
      <4>2. Switching /\ ~Switching' /\ UNCHANGED <<mode_cache_, dev, toHost, toDev, disturbed>>
        BY <2>6, <3>1 DEF Poll, Switching
      <4>3. Upward(req.mode) => AllThere
        BY <4>1 DEF Upward, AllThere
      <4>. QED BY <4>2, <4>3 DEF CInv, InOrder, AllThere
    <3>2. CASE ~isModeReady(req.mode)
      BY <1>1, <2>6, <3>2 DEF Poll, Switching
    <3>. QED BY <3>1, <3>2
  <2>7. ASSUME NEW this \in SaveStages, NEW next \in SaveStages, ParamCommand(this, next)
        PROVE  InOrder'
    BY <1>1, <2>7 DEF ParamCommand, SaveFails, SendFails, SaveStages, Switching
  <2>. QED BY <1>4, <2>1, <2>2, <2>3, <2>4, <2>5, <2>6, <2>7, SetInOrder
           DEF Executor, SaveStages
<1>5. CASE UNCHANGED vars \/ Reopened \/ OpenThrows
  BY <1>1, <1>5, OpenLeaves DEF vars, Switching
<1>. QED BY <1>3, <1>4, <1>5, LinkInOrder DEF Next

LEMMA NextAbsent == IInv /\ CInv /\ [Next]_vars => Absent' /\ ConfirmedTruly'
<1>. SUFFICES ASSUME IInv, CInv, [Next]_vars PROVE Absent' /\ ConfirmedTruly'
  OBVIOUS
<1>t. TypeOK /\ Locals
  BY DEF IInv, TypeOK
<1>k. Kinds \subseteq {"cmd_vel", "dm_speed", "dm_mit"}
  BY KindsType
<1>. USE DEF executor, modeVars, link, base, ghosts, Goto, Asked
<1>1. ASSUME UNCHANGED <<req, dev, present, disturbed>>,
             \/ epc' = epc
             \/ epc' # "matched" /\ (epc' \in Asked => epc \in Asked)
      PROVE  Absent' /\ ConfirmedTruly'
  BY <1>1 DEF CInv, Absent, ConfirmedTruly
<1>2. CASE Clients
  <2>1. ASSUME NEW m \in Modes, NEW save \in Saves, Request(m, save)
        PROVE  Absent' /\ ConfirmedTruly'
    BY <2>1 DEF Request, Absent, ConfirmedTruly
  <2>. QED BY <1>k, <1>1, <1>2, <2>1 DEF Clients, CommandCallback, RequestUnsupported
<1>3. CASE Executor
  <2>1. CASE SendSet
    BY <1>1, <2>1 DEF SendSet, SendOk, SendFails
  <2>2. CASE SendZero
    BY <1>1, <2>2 DEF SendZero, sendPacket, SendOk, SendFails
  <2>3. ASSUME NEW k \in Kinds, SendCommand(k) PROVE Absent' /\ ConfirmedTruly'
    BY <1>1, <1>k, <2>3 DEF SendCommand, sendPacket, SendOk, SendFails
  <2>4. CASE SendReset
    BY <1>1, <2>4 DEF SendReset, SendOk, SendFails
  <2>5. CASE Constructed \/ SetFailed \/ Mark \/ Confirm \/ VerifyPersisted \/ VerifyFails
    BY <1>1, <2>5 DEF Constructed, SetFailed, Mark, Confirm, VerifyPersisted, VerifyFails,
                      SaveFails, SendFails
  <2>6. CASE Reply
    BY <2>6 DEF Reply, Absent, ConfirmedTruly
  <2>7. CASE SwitchTimeout
    BY <2>7 DEF SwitchTimeout, Absent, ConfirmedTruly
  <2>8. CASE Poll
    <3>1. CASE isModeReady(req.mode)
      <4>1. epc = "poll" /\ epc' = "matched" /\ UNCHANGED <<req, dev, present, disturbed>>
        BY <2>8, <3>1 DEF Poll
      <4>2. ~disturbed => dev.chassis = req.mode
        BY <3>1, <4>1 DEF isModeReady, CInv, InOrder, Switching, Upward
      <4>. QED BY <4>1, <4>2 DEF CInv, Absent, ConfirmedTruly
    <3>2. CASE ~isModeReady(req.mode)
      BY <1>1, <2>8, <3>2 DEF Poll
    <3>. QED BY <3>1, <3>2
  <2>9. ASSUME NEW this \in SaveStages, NEW next \in SaveStages, ParamCommand(this, next)
        PROVE  Absent' /\ ConfirmedTruly'
    BY <1>1, <2>9 DEF ParamCommand, SaveFails, SendFails, SaveStages
  <2>. QED BY <1>3, <2>1, <2>2, <2>3, <2>4, <2>5, <2>6, <2>7, <2>8, <2>9
           DEF Executor, SaveStages
<1>4. CASE Receiver
  BY <1>1, <1>4 DEF Receiver, StatusReceived, StatusApplied
<1>5. CASE Base
  <2>1. ASSUME UNCHANGED <<epc, req, present, disturbed>>, dev'.chassis = dev.chassis
        PROVE  Absent' /\ ConfirmedTruly'
    BY <2>1 DEF CInv, Absent, ConfirmedTruly
  <2>2. CASE DevDmFollows \/ \E x \in Motors : DevMotorFollows(x)
    BY <1>t, <2>1, <2>2 DEF DevDmFollows, DevMotorFollows, TypeOK
  <2>3. CASE StatusLost \/ PacketLost \/ \E form \in Forms : DevReports(form)
    BY <2>1, <2>3 DEF StatusLost, PacketLost, DevReports
  <2>4. CASE RcTakeover
    BY <2>4 DEF RcTakeover, Absent, ConfirmedTruly
  <2>5. CASE DevTakes
    <3>1. UNCHANGED <<epc, req>>
      BY <2>5 DEF DevTakes
    <3>2. CASE UNCHANGED <<dev, disturbed, present>>
      BY <2>1, <3>1, <3>2
    <3>3. CASE /\ dev' = [dev EXCEPT !.chassis = Head(toDev).arg]
               /\ present' = (present \/ Head(toDev).arg = req.mode)
               /\ UNCHANGED disturbed
      <4>1. dev'.chassis = Head(toDev).arg
        BY <1>t, <3>3 DEF TypeOK
      <4>2. CASE Head(toDev).arg = req.mode
        BY <3>1, <3>3, <4>2 DEF Absent, ConfirmedTruly
      <4>3. CASE Head(toDev).arg # req.mode
        BY <3>1, <3>3, <4>1, <4>3 DEF CInv, Absent, ConfirmedTruly
      <4>. QED BY <4>2, <4>3
    <3>4. CASE disturbed' = TRUE
      BY <3>4 DEF Absent, ConfirmedTruly
    <3>. QED BY <2>5, <3>2, <3>3, <3>4 DEF DevTakes
  <2>. QED BY <1>5, <2>2, <2>3, <2>4, <2>5 DEF Base
<1>6. CASE UNCHANGED vars \/ Reopened \/ OpenThrows
  BY <1>1, <1>6, OpenLeaves DEF vars
<1>. QED BY <1>2, <1>3, <1>4, <1>5, <1>6 DEF Next

\* In undisturbed operation a confirmed switch has taken place, however old
\* the status is that confirms it and whatever was lost (setControlModeCallback,
\* the polling loop).
THEOREM ConfirmationIsTrue == Spec => []ConfirmedTruly
<1>1. IInv /\ CInv /\ [Next]_vars => CInv'
  BY NextInOrder, NextAbsent DEF CInv
<1>2. CInv => ConfirmedTruly
  BY DEF CInv
<1>. QED BY <1>1, <1>2, InitCInv, Inductive, PTL DEF Spec

-----------------------------------------------------------------------------
(* Commands.  The gate looks at a status that may be old, but in the queue of *)
(* modes nothing behind it is of another mode, so that the base is still in   *)
(* the mode the status told of when the command comes to it.                  *)

FullIn(s, m) == s.chassis = m /\ s.dm = m /\ \A x \in Motors : s.motor[x] = m

\* A status of the mode the base is in is not older than that.
Recent == ~disturbed =>
    /\ dev.chassis \in Modes
    /\ mode_cache_.has /\ FullIn(mode_cache_, dev.chassis) => FullIn(dev, dev.chassis)
    /\ \A j \in 1 .. Len(toHost) : FullIn(toHost[j], dev.chassis) => FullIn(dev, dev.chassis)

Fitting == ~disturbed =>
    /\ \A k \in Kinds : epc = k => FullIn(dev, Required[k])
    /\ \A p \in 1 .. Len(toDev) : toDev[p].arg = "move" =>
          /\ FullIn(dev, Required[toDev[p].kind])
          /\ \A l \in 1 .. p : toDev[l].kind = "set" => toDev[l].arg = Required[toDev[p].kind]

MInv == IInv /\ CInv /\ Recent /\ Fitting

LEMMA InitMInv == Init => Recent /\ Fitting
<1>. SUFFICES ASSUME Init PROVE Recent /\ Fitting
  OBVIOUS
<1>1. dev.chassis \in Modes /\ ~mode_cache_.has /\ epc = "ctor"
      /\ Len(toHost) = 0 /\ Len(toDev) = 0
  BY EmptySeq DEF Init
<1>. QED BY <1>1, KindsType DEF Recent, Fitting

LEMMA FittingStays == ASSUME Fitting, UNCHANGED <<dev, toDev, epc, disturbed>>
                      PROVE  Fitting'
BY DEF Fitting, FullIn

\* A step that at most appends a packet other than a motion.
LEMMA FitStays ==
    ASSUME MInv, UNCHANGED <<mode_cache_, dev, toHost, disturbed>>,
           \/ UNCHANGED toDev
           \/ \E p \in Packet : p.arg # "move" /\ toDev' = Append(toDev, p),
           epc' \in Kinds => epc' = epc
    PROVE  Recent' /\ Fitting'
<1>t. toDev \in Seq(Packet) /\ Len(toDev) \in Nat
  BY LenProperties DEF MInv, IInv, TypeOK
<1>1. Recent'
  BY DEF MInv, Recent, FullIn
<1>2. \A p \in 1 .. Len(toDev') : toDev'[p].arg = "move" => p \in 1 .. Len(toDev)
  BY <1>t, AppendAt
<1>3. \A p \in 1 .. Len(toDev) : toDev'[p] = toDev[p]
  BY <1>t, AppendAt
<1>4. ASSUME ~disturbed, NEW p \in 1 .. Len(toDev'), toDev'[p].arg = "move"
      PROVE  /\ FullIn(dev, Required[toDev'[p].kind])
             /\ \A l \in 1 .. p : toDev'[l].kind = "set" => toDev'[l].arg = Required[toDev'[p].kind]
  <2>1. p \in 1 .. Len(toDev) /\ toDev'[p] = toDev[p]
    BY <1>2, <1>3, <1>4
  <2>2. \A l \in 1 .. p : l \in 1 .. Len(toDev)
    BY <1>t, <2>1
  <2>. QED BY <1>3, <1>4, <2>1, <2>2 DEF MInv, Fitting
<1>5. ASSUME ~disturbed, NEW k \in Kinds, epc' = k PROVE FullIn(dev, Required[k])
  BY <1>5 DEF MInv, Fitting
<1>6. dev' = dev /\ disturbed' = disturbed
  OBVIOUS
<1>7. Fitting'
  BY <1>4, <1>5, <1>6 DEF Fitting, FullIn, Required
<1>. QED BY <1>1, <1>7

LEMMA SendCommandFits == ASSUME MInv, NEW k \in Kinds, SendCommand(k)
                         PROVE  Recent' /\ Fitting'
<1>t. toDev \in Seq(Packet) /\ Len(toDev) \in Nat
  BY LenProperties DEF MInv, IInv, TypeOK
<1>0. /\ epc = k /\ epc' = "idle" /\ epc \notin {"mark", "poll"} /\ "idle" \notin Kinds
      /\ UNCHANGED <<mode_cache_, dev, toHost, disturbed>>
  BY KindsType DEF SendCommand, sendPacket, SendOk, SendFails, modeVars, base, ghosts, link, Goto
<1>1. CASE SendFails
  BY <1>0, <1>1, FitStays DEF SendFails, link
<1>2. CASE SendOk(MoveOf(k))
  <2>1. MoveOf(k) \in Packet
    BY DEF MoveOf, Packet
  <2>2. /\ Len(toDev') = Len(toDev) + 1
        /\ \A j \in 1 .. Len(toDev) : toDev'[j] = toDev[j]
        /\ toDev'[Len(toDev) + 1] = MoveOf(k)
    BY <1>t, <1>2, <2>1, AppendAt DEF SendOk
  <2>3. Recent'
    BY <1>0 DEF MInv, Recent, FullIn
  <2>4. ASSUME ~disturbed, NEW p \in 1 .. Len(toDev'), toDev'[p].arg = "move"
        PROVE  /\ FullIn(dev, Required[toDev'[p].kind])
               /\ \A l \in 1 .. p : toDev'[l].kind = "set" => toDev'[l].arg = Required[toDev'[p].kind]
    <3>1. CASE p = Len(toDev) + 1
      <4>1. toDev'[p].kind = k /\ toDev'[p].kind # "set"
        BY <2>2, <3>1, KindsType DEF MoveOf
      <4>2. AllThere /\ FullIn(dev, Required[k])
        BY <1>0, <2>4 DEF MInv, CInv, InOrder, Switching, Fitting
      <4>3. \A l \in 1 .. p : toDev'[l].kind = "set" => l \in 1 .. Len(toDev) /\ toDev'[l] = toDev[l]
        BY <1>t, <2>2, <3>1, <4>1
      <4>. QED BY <4>1, <4>2, <4>3 DEF AllThere, FullIn
    <3>2. CASE p # Len(toDev) + 1
      <4>1. /\ p \in 1 .. Len(toDev)
            /\ \A l \in 1 .. p : l \in 1 .. Len(toDev)
        BY <1>t, <2>2, <3>2
      <4>. QED BY <2>2, <2>4, <4>1 DEF MInv, Fitting
    <3>. QED BY <3>1, <3>2
  <2>5. Fitting'
    BY <1>0, <2>4 DEF Fitting, FullIn, Required
  <2>. QED BY <2>3, <2>5
<1>. QED BY <1>1, <1>2 DEF SendCommand, sendPacket, MoveOf

\* The head of toDev goes and the base stays as it is.
LEMMA TailFits ==
    ASSUME MInv, toDev # << >>, toDev' = Tail(toDev),
           UNCHANGED <<mode_cache_, dev, toHost, epc, disturbed>>
    PROVE  Recent' /\ Fitting'
<1>t. toDev \in Seq(Packet)
  BY DEF MInv, IInv, TypeOK
<1>1. /\ Len(toDev') = Len(toDev) - 1 /\ Len(toDev) \in Nat \ {0}
      /\ \A j \in 1 .. Len(toDev) - 1 : toDev'[j] = toDev[j + 1]
  BY <1>t, TailAt
<1>2. Recent'
  BY DEF MInv, Recent, FullIn
<1>3. ASSUME ~disturbed, NEW p \in 1 .. Len(toDev'), toDev'[p].arg = "move"
      PROVE  /\ FullIn(dev, Required[toDev'[p].kind])
             /\ \A l \in 1 .. p : toDev'[l].kind = "set" => toDev'[l].arg = Required[toDev'[p].kind]
  <2>1. p + 1 \in 1 .. Len(toDev) /\ toDev'[p] = toDev[p + 1]
    BY <1>1
  <2>2. \A l \in 1 .. p : l + 1 \in 1 .. p + 1 /\ toDev'[l] = toDev[l + 1]
    BY <1>1
  <2>. QED BY <1>3, <2>1, <2>2 DEF MInv, Fitting
<1>4. Fitting'
  BY <1>3 DEF MInv, Fitting, FullIn, Required
<1>. QED BY <1>2, <1>4

\* A set packet: it asks for the mode the base is in, or it is the one of the
\* switch under way, and then no status of the new mode and no motion is there.
LEMMA SetFits ==
    ASSUME MInv, DevTakes, Head(toDev).kind = "set",
           dev' = [dev EXCEPT !.chassis = Head(toDev).arg], UNCHANGED disturbed
    PROVE  Recent' /\ Fitting'
<1>t. /\ TypeOK /\ toDev \in Seq(Packet) /\ toDev # << >> /\ toDev' = Tail(toDev)
      /\ Head(toDev) = toDev[1] /\ toDev[1] \in Packet
      /\ UNCHANGED <<mode_cache_, toHost, epc>>
  BY Taken DEF MInv, IInv, TypeOK, DevTakes, executor, modeVars
<1>. DEFINE a == toDev[1].arg
<1>1. a \in Modes /\ 1 \in 1 .. Len(toDev) /\ dev'.chassis = a
      /\ dev'.dm = dev.dm /\ dev'.motor = dev.motor
  <2>1. a \in Modes
    BY <1>t, KindsType DEF Packet
  <2>. QED BY <1>t, <2>1, TailAt DEF TypeOK
<1>2. CASE disturbed
  BY <1>2 DEF Recent, Fitting
<1>3. CASE ~disturbed /\ a = dev.chassis
  <2>1. dev' = dev
    BY <1>t, <1>3 DEF TypeOK
  <2>. QED BY <1>t, <2>1, TailFits
<1>4. CASE ~disturbed /\ a # dev.chassis
  <2>1. ~AllThere /\ Switching /\ Upward(req.mode)
    BY <1>t, <1>1, <1>4 DEF AllThere, MInv, CInv, InOrder
  <2>2. req.mode \in Modes /\ dev.chassis \in Modes /\ epc \notin Kinds
    BY <1>4, <2>1, KindsType DEF MInv, IInv, Locals, Busy, Recent, Switching
  <2>3. dev.chassis # req.mode /\ a = req.mode
    BY <1>t, <1>1, <1>4, <2>1, <2>2 DEF Upward, Modes
  <2>4. Recent'
    <3>1. ~(mode_cache_.has /\ mode_cache_.chassis = a)
      BY <2>1, <2>3 DEF Upward
    <3>2. \A j \in 1 .. Len(toHost) : toHost[j].chassis # a
      BY <2>1, <2>3 DEF Upward
    <3>. QED BY <1>t, <1>1, <3>1, <3>2 DEF Recent, FullIn
  <2>5. \A p \in 1 .. Len(toDev) : toDev[p].arg # "move"
    <3>1. ASSUME NEW p \in 1 .. Len(toDev), toDev[p].arg = "move" PROVE FALSE
      <4>1. 1 \in 1 .. p
        BY <3>1
      <4>2. FullIn(dev, Required[toDev[p].kind]) /\ a = Required[toDev[p].kind]
        BY <1>t, <1>4, <3>1, <4>1 DEF MInv, Fitting
      <4>. QED BY <1>4, <4>2 DEF FullIn
    <3>. QED BY <3>1
  <2>6. \A p \in 1 .. Len(toDev') : toDev'[p].arg # "move"
    BY <1>t, <2>5, TailAt
  <2>. QED BY <1>t, <2>2, <2>4, <2>6 DEF Fitting
<1>. QED BY <1>2, <1>3, <1>4

LEMMA NextFits == MInv /\ [Next]_vars => Recent' /\ Fitting'
<1>. SUFFICES ASSUME MInv, [Next]_vars PROVE Recent' /\ Fitting'
  OBVIOUS
<1>t. TypeOK /\ toDev \in Seq(Packet) /\ toHost \in Seq(Status) /\ Locals
  BY DEF MInv, IInv, TypeOK
<1>k. Kinds \subseteq {"cmd_vel", "dm_speed", "dm_mit"}
  BY KindsType
<1>. USE DEF executor, modeVars, link, base, ghosts, Goto
<1>1. CASE Clients
  <2>1. ASSUME NEW k \in Kinds, CommandCallback(k) PROVE Recent' /\ Fitting'
    <3>1. /\ epc = "idle" /\ epc' = k /\ isModeReady(Required[k])
          /\ UNCHANGED <<mode_cache_, dev, toHost, toDev, disturbed>>
      BY <2>1 DEF CommandCallback
    <3>2. Recent'
      BY <3>1 DEF MInv, Recent, FullIn
    <3>3. ASSUME ~disturbed PROVE FullIn(dev, Required[k])
      <4>1. AllThere
        BY <3>1, <3>3 DEF MInv, CInv, InOrder, Switching
      <4>2. dev.chassis = Required[k] /\ FullIn(mode_cache_, Required[k]) /\ mode_cache_.has
        BY <3>1, <4>1 DEF isModeReady, AllThere, FullIn
      <4>. QED BY <3>3, <4>2 DEF MInv, Recent
    <3>4. Fitting'
      BY <3>1, <3>3 DEF MInv, Fitting, FullIn, Required
    <3>. QED BY <3>2, <3>4
  <2>2. CASE RequestUnsupported
    BY <1>k, <2>2, FitStays DEF RequestUnsupported
  <2>3. ASSUME NEW m \in Modes, NEW save \in Saves, Request(m, save)
        PROVE  Recent' /\ Fitting'
    BY <1>k, <2>3, FitStays DEF Request
  <2>. QED BY <1>1, <2>1, <2>2, <2>3 DEF Clients
<1>2. CASE Executor
  <2>1. CASE SendZero
    <3>. DEFINE p == [kind |-> ZeroOrder[1 + (i % Len(ZeroOrder))], arg |-> "zero"]
    <3>1. p \in Packet /\ p.arg # "move"
      BY <1>t, ZeroPacket DEF TypeOK
    <3>2. /\ SendOk(p) \/ SendFails
          /\ UNCHANGED <<mode_cache_, dev, epc>>
      BY <2>1 DEF SendZero, sendPacket
    <3>. HIDE DEF p
    <3>. QED BY <3>1, <3>2, FitStays DEF SendOk, SendFails
  <2>2. CASE SendSet
    <3>. DEFINE p == [kind |-> "set", arg |-> req.mode]
    <3>1. p \in Packet /\ p.arg # "move"
      BY <1>t, <2>2 DEF SendSet, Locals, Busy, Packet, Modes
    <3>2. /\ SendOk(p) \/ SendFails
          /\ UNCHANGED <<mode_cache_, dev>> /\ epc' \notin Kinds
      BY <1>k, <2>2 DEF SendSet
    <3>. HIDE DEF p
    <3>. QED BY <3>1, <3>2, FitStays DEF SendOk, SendFails
  <2>3. CASE SendReset
    <3>. DEFINE p == [kind |-> "reset", arg |-> "reset"]
    <3>1. p \in Packet /\ p.arg # "move"
      BY DEF Packet
    <3>2. /\ SendOk(p) \/ SendFails
          /\ UNCHANGED <<mode_cache_, dev>> /\ epc' \notin Kinds
      BY <1>k, <2>3 DEF SendReset
    <3>. HIDE DEF p
    <3>. QED BY <3>1, <3>2, FitStays DEF SendOk, SendFails
  <2>4. CASE Constructed \/ Reply \/ SetFailed \/ Mark \/ Confirm
    BY <1>k, <2>4, FitStays DEF Constructed, SendFails, Reply, SetFailed, Mark, Confirm
  <2>5. CASE VerifyPersisted \/ VerifyFails
    BY <1>k, <2>5, FitStays DEF VerifyPersisted, VerifyFails, SaveFails, SendFails
  <2>6. CASE Poll
    BY <1>k, <2>6, FitStays DEF Poll
  <2>7. CASE SwitchTimeout
    BY <2>7 DEF SwitchTimeout, Recent, Fitting
  <2>8. ASSUME NEW this \in SaveStages, NEW next \in SaveStages, ParamCommand(this, next)
        PROVE  Recent' /\ Fitting'
    BY <1>k, <2>8, FitStays DEF ParamCommand, SaveFails, SendFails, SaveStages
  <2>. QED BY <1>2, <2>1, <2>2, <2>3, <2>4, <2>5, <2>6, <2>7, <2>8, SendCommandFits
           DEF Executor, SaveStages
<1>3. ASSUME toHost # << >>, toHost' = Tail(toHost), UNCHANGED <<toDev, dev, epc, disturbed>>,
             \/ mode_cache_' = mode_cache_
             \/ mode_cache_' = Received(Head(toHost))
      PROVE  Recent' /\ Fitting'
  <2>1. /\ Len(toHost') = Len(toHost) - 1 /\ Len(toHost) \in Nat \ {0}
        /\ \A j \in 1 .. Len(toHost) - 1 : toHost'[j] = toHost[j + 1]
        /\ Head(toHost) = toHost[1]
    BY <1>t, <1>3, HeadTailProperties, LenProperties, EmptySeq
  <2>2. \A m : FullIn(Received(Head(toHost)), m) => FullIn(toHost[1], m)
    BY <2>1 DEF Received, FullIn
  <2>3. Recent'
    <3>1. ASSUME ~disturbed, mode_cache_'.has, FullIn(mode_cache_', dev.chassis)
          PROVE  FullIn(dev, dev.chassis)
      BY <1>3, <2>1, <2>2, <3>1 DEF MInv, Recent
    <3>2. ASSUME ~disturbed, NEW j \in 1 .. Len(toHost'), FullIn(toHost'[j], dev.chassis)
          PROVE  FullIn(dev, dev.chassis)
      <4>1. j + 1 \in 1 .. Len(toHost) /\ toHost'[j] = toHost[j + 1]
        BY <2>1
      <4>. QED BY <3>2, <4>1 DEF MInv, Recent
    <3>. QED BY <1>3, <3>1, <3>2 DEF MInv, Recent, FullIn
  <2>4. Fitting'
    BY <1>3, FittingStays DEF MInv
  <2>. QED BY <2>3, <2>4
<1>4. CASE Receiver
  <2>1. CASE StatusReceived
    BY <1>3, <2>1 DEF StatusReceived
  <2>2. CASE StatusApplied
    BY <2>2, FitStays DEF StatusApplied
  <2>. QED BY <1>4, <2>1, <2>2 DEF Receiver
\* The base follows itself: it was not fully in any mode.
<1>5. ASSUME UNCHANGED <<mode_cache_, toHost, toDev, epc, disturbed>>,
             dev'.chassis = dev.chassis, \A m : ~FullIn(dev, m)
      PROVE  Recent' /\ Fitting'
  BY <1>5 DEF MInv, Recent, Fitting, FullIn
<1>6. CASE Base
  <2>1. CASE DevTakes
    <3>1. /\ toDev # << >> /\ toDev' = Tail(toDev)
          /\ UNCHANGED <<mode_cache_, toHost, epc>>
      BY <2>1 DEF DevTakes
    <3>2. CASE UNCHANGED <<dev, disturbed>>
      BY <3>1, <3>2, TailFits
    <3>3. CASE /\ Head(toDev).kind = "set" /\ UNCHANGED disturbed
               /\ dev' = [dev EXCEPT !.chassis = Head(toDev).arg]
      <4>1. disturbed' = disturbed
        BY <3>3
      <4>. QED BY <2>1, <3>3, <4>1, SetFits
    <3>4. CASE disturbed' = TRUE
      BY <3>4 DEF Recent, Fitting
    <3>. QED BY <2>1, <3>2, <3>3, <3>4 DEF DevTakes
  <2>2. CASE DevDmFollows
    <3>1. dev'.chassis = dev.chassis /\ \A m : ~FullIn(dev, m)
      BY <1>t, <2>2 DEF DevDmFollows, TypeOK, FullIn
    <3>. QED BY <1>5, <2>2, <3>1 DEF DevDmFollows
  <2>3. ASSUME NEW x \in Motors, DevMotorFollows(x) PROVE Recent' /\ Fitting'
    <3>1. dev'.chassis = dev.chassis /\ \A m : ~FullIn(dev, m)
      BY <1>t, <2>3 DEF DevMotorFollows, TypeOK, FullIn
    <3>. QED BY <1>5, <2>3, <3>1 DEF DevMotorFollows
  <2>4. CASE RcTakeover
    BY <2>4 DEF RcTakeover, Recent, Fitting
  <2>5. ASSUME NEW form \in Forms, DevReports(form) PROVE Recent' /\ Fitting'
    <3>. DEFINE r == [form |-> form, chassis |-> dev.chassis, dm |-> dev.dm,
                      motor |-> dev.motor, ready |-> dev.dm = dev.chassis]
    <3>1. r \in Status /\ \A m : FullIn(r, m) => FullIn(dev, m)
      BY <1>t DEF Status, TypeOK, FullIn
    <3>2. toHost' = Append(toHost, r) /\ UNCHANGED <<mode_cache_, toDev, dev, epc, disturbed>>
      BY <2>5 DEF DevReports
    <3>. HIDE DEF r
    <3>3. /\ Len(toHost) \in Nat /\ Len(toHost') = Len(toHost) + 1
          /\ \A j \in 1 .. Len(toHost) : toHost'[j] = toHost[j]
          /\ toHost'[Len(toHost) + 1] = r
      BY <1>t, <3>1, <3>2, AppendProperties, LenProperties
    <3>4. ASSUME ~disturbed, NEW j \in 1 .. Len(toHost'), FullIn(toHost'[j], dev.chassis)
          PROVE  FullIn(dev, dev.chassis)
      <4>1. CASE j = Len(toHost) + 1
        BY <3>1, <3>3, <3>4, <4>1
      <4>2. CASE j \in 1 .. Len(toHost)
        BY <3>3, <3>4, <4>2 DEF MInv, Recent
      <4>. QED BY <3>3, <4>1, <4>2
    <3>5. Recent'
      BY <3>2, <3>4 DEF MInv, Recent, FullIn
    <3>6. Fitting'
      BY <2>5, FittingStays DEF DevReports, MInv
    <3>. QED BY <3>5, <3>6
  <2>6. CASE StatusLost
    BY <1>3, <2>6 DEF StatusLost
  <2>7. CASE PacketLost
    BY <2>7, TailFits DEF PacketLost
  <2>. QED BY <1>6, <2>1, <2>2, <2>3, <2>4, <2>5, <2>6, <2>7 DEF Base
<1>7. CASE UNCHANGED vars \/ Reopened \/ OpenThrows
  BY <1>7, FitStays, OpenLeaves DEF vars
<1>. QED BY <1>1, <1>2, <1>4, <1>6, <1>7 DEF Next

\* In undisturbed operation a motion command comes to a base that is in its
\* mode with every motor, although gate and sending are two steps and the
\* status behind the gate is of any age (velocityCallback, wheelSpeedCallback,
\* wheelMitCallback).
THEOREM CommandsFit == Spec => CommandMatchesMode
<1>1. Init => MInv
  BY InitIInv, InitCInv, InitMInv DEF MInv
<1>2. MInv /\ [Next]_vars => MInv'
  <2>1. IInv /\ [Next]_vars => IInv'
    BY NextTypeOK, NextCurrentMode, NextAnswered DEF IInv, Answered
  <2>. QED BY <2>1, NextInOrder, NextAbsent, NextFits DEF MInv, CInv
<1>3. ASSUME MInv, DevTakes, Head(toDev).arg = "move", ~disturbed
      PROVE  LET m == Required[Head(toDev).kind]
             IN  dev = [chassis |-> m, dm |-> m, motor |-> [x \in Motors |-> m]]
  <2>1. Head(toDev) = toDev[1] /\ toDev # << >> /\ toDev \in Seq(Packet) /\ TypeOK
    BY <1>3, Taken DEF MInv, IInv, TypeOK
  <2>2. 1 \in 1 .. Len(toDev)
    BY <2>1, TailAt
  <2>3. FullIn(dev, Required[Head(toDev).kind])
    BY <1>3, <2>1, <2>2 DEF MInv, Fitting
  <2>. QED BY <2>1, <2>3 DEF TypeOK, FullIn
<1>4. MInv /\ [Next]_vars =>
        [DevTakes /\ Head(toDev).arg = "move" /\ ~disturbed =>
            LET m == Required[Head(toDev).kind]
            IN  dev = [chassis |-> m, dm |-> m, motor |-> [x \in Motors |-> m]]]_vars
  BY <1>3
<1>. QED BY <1>1, <1>2, <1>4, PTL DEF Spec, CommandMatchesMode
=============================================================================
