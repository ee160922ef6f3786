------------------------- MODULE MavlinkCodecProofs -------------------------
(***************************************************************************)
(* Proofs about the MAVLink codec, for every table of messages, all bytes  *)
(* and any number of frames and faults.                                    *)
(*                                                                         *)
(* The parser has no view of the frames that were sent, so the invariant   *)
(* is about the future: what the decoder will have put out once it has     *)
(* read all bytes on the wire (future).  A datagram that arrives moves     *)
(* bytes from the wire into the decoder and leaves the future as it is;    *)
(* so only the steps that write to the wire have to be examined, and for   *)
(* each the parser is followed through one whole frame:                    *)
(*                                                                         *)
(*  - the checksum, as a fold: each step is one to one in the register, so *)
(*    that one wrong byte leaves a wrong checksum (OneWrongByteIsSeen);    *)
(*  - the table, as a bisection (EntryIsFound);                            *)
(*  - a parser that waits for a frame reads a frame, byte by byte, and     *)
(*    waits again, having put it out or counted it as an error;            *)
(*  - a parser left within a frame that was cut short takes the next bytes *)
(*    for the ones it lacks: these are bytes of later frames, none of      *)
(*    which is owed any more, and after them it waits for a frame again.   *)
(*                                                                         *)
(* CodecInvariant collects this; the theorems at the end follow from it.   *)
(***************************************************************************)
EXTENDS MavlinkCodec, SequenceTheorems, NaturalsInduction, WellFoundedInduction, TLAPS

-----------------------------------------------------------------------------
(***************************************************************************)
(* Induction, on a set of natural numbers.                                 *)
(***************************************************************************)
LEMMA UpTo ==
  ASSUME NEW N \in Nat, NEW S, 0 \in S, \A n \in 0 .. N - 1 : n \in S => n + 1 \in S
  PROVE  \A n \in 0 .. N : n \in S
<1> DEFINE B == {n \in 0 .. N : n \notin S}
<1>1. IsWellFoundedOn(OpToRel(<, Nat), Nat)
  BY NatLessThanWellFounded
<1>2. CASE B # {}
  <2>1. B \in SUBSET Nat
    OBVIOUS
  <2>2. PICK n \in B : \A m \in B : <<m, n>> \notin OpToRel(<, Nat)
    <3> HIDE DEF B
    <3> QED BY <1>1, <1>2, <2>1, WFMin
  <2>3. \A m \in B : ~(m < n)
    BY <2>1, <2>2 DEF OpToRel
  <2>4. n \in 0 .. N /\ n \notin S
    OBVIOUS
  <2>5. n # 0 /\ n - 1 \in 0 .. N - 1 /\ n - 1 < n /\ (n - 1) + 1 = n
    BY <2>4
  <2>6. n - 1 \in B
    BY <2>4, <2>5
  <2> QED BY <2>3, <2>5, <2>6
<1> QED BY <1>2

LEMMA UpToLast ==
  ASSUME NEW N \in Nat, NEW S, 0 \in S, \A n \in 0 .. N - 1 : n \in S => n + 1 \in S
  PROVE  N \in S
  BY UpTo

-----------------------------------------------------------------------------
(***************************************************************************)
(* The states that a decoder goes through while it is fed.                 *)
(***************************************************************************)
Run(run, d, bytes) ==
    /\ DOMAIN run = 0 .. Len(bytes)
    /\ run[0] = d
    /\ \A k \in 1 .. Len(bytes) : run[k] = fed(run[k - 1], bytes[k])

LEMMA RunExists ==
  ASSUME NEW d, NEW bytes \in Seq(Byte)
  PROVE  \E run : Run(run, d, bytes)
<1> DEFINE N == Len(bytes)
           Part(run, n) == /\ DOMAIN run = 0 .. n
                           /\ run[0] = d
                           /\ \A k \in 1 .. n : run[k] = fed(run[k - 1], bytes[k])
           S == {n \in 0 .. N : \E run : Part(run, n)}
<1>1. N \in Nat
  OBVIOUS
<1>2. 0 \in S
  <2> DEFINE run == [k \in 0 .. 0 |-> d]
  <2>1. Part(run, 0)
    OBVIOUS
  <2> HIDE DEF Part
  <2>2. \E r : Part(r, 0)
    BY <2>1
  <2> QED BY <1>1, <2>2
<1>3. ASSUME NEW n \in 0 .. N - 1, n \in S PROVE n + 1 \in S
  <2>1. PICK run : Part(run, n)
    BY <1>3
  <2> DEFINE more == [k \in 0 .. n + 1 |->
                        IF k =< n THEN run[k] ELSE fed(run[n], bytes[n + 1])]
  <2>2. more[0] = d
    BY <2>1
  <2>3. ASSUME NEW k \in 1 .. n + 1 PROVE more[k] = fed(more[k - 1], bytes[k])
    <3>1. CASE k =< n
      BY <2>1, <3>1
    <3>2. CASE k = n + 1
      BY <2>1, <3>2
    <3> QED BY <3>1, <3>2
  <2>4. Part(more, n + 1)
    BY <2>2, <2>3
  <2> HIDE DEF Part
  <2> QED BY <2>4, <1>1
<1>4. N \in S
  <2> HIDE DEF S, N
  <2> QED BY <1>1, <1>2, <1>3, UpToLast
<1> QED BY <1>4 DEF Run

LEMMA RunIsUnique ==
  ASSUME NEW d, NEW bytes \in Seq(Byte), NEW run, NEW other,
         Run(run, d, bytes), Run(other, d, bytes)
  PROVE  \A k \in 0 .. Len(bytes) : run[k] = other[k]
<1> DEFINE N == Len(bytes)
           S == {n \in 0 .. N : run[n] = other[n]}
<1>1. N \in Nat
  OBVIOUS
<1>2. 0 \in S
  BY <1>1 DEF Run
<1>3. ASSUME NEW n \in 0 .. N - 1, n \in S PROVE n + 1 \in S
  <2>1. n + 1 \in 1 .. N /\ (n + 1) - 1 = n
    BY <1>1
  <2>2. run[n + 1] = fed(run[n], bytes[n + 1]) /\ other[n + 1] = fed(other[n], bytes[n + 1])
    BY <2>1 DEF Run
  <2> QED BY <1>3, <2>1, <2>2
<1>4. \A n \in 0 .. N : n \in S
  <2> HIDE DEF S, N
  <2> QED BY <1>1, <1>2, <1>3, UpTo
<1> QED BY <1>4

LEMMA FedIsRun ==
  ASSUME NEW d, NEW bytes \in Seq(Byte)
  PROVE  \E run : Run(run, d, bytes) /\ fedAll(d, bytes) = run[Len(bytes)]
<1> DEFINE N == Len(bytes)
           Rec(f) == f = [k \in 0 .. N |-> IF k = 0 THEN d ELSE fed(f[k - 1], bytes[k])]
           after == CHOOSE f : Rec(f)
<1>1. N \in Nat
  OBVIOUS
<1>2. PICK run : Run(run, d, bytes)
  BY RunExists
<1> DEFINE g == [k \in 0 .. N |-> run[k]]
<1>3. Rec(g)
  <2>1. ASSUME NEW k \in 0 .. N
        PROVE  g[k] = IF k = 0 THEN d ELSE fed(g[k - 1], bytes[k])
    <3>1. CASE k = 0
      BY <1>1, <1>2, <3>1 DEF Run
    <3>2. CASE k # 0
      <4>1. k \in 1 .. N /\ k - 1 \in 0 .. N
        BY <1>1, <3>2
      <4> QED BY <1>2, <3>2, <4>1 DEF Run
    <3> QED BY <3>1, <3>2
  <2> QED BY <2>1
<1>4. Rec(after)
  BY <1>3
<1>5. Run(after, d, bytes)
  <2> HIDE DEF after
  <2> QED BY <1>1, <1>4 DEF Run
<1>6. fedAll(d, bytes) = after[Len(bytes)]
  BY DEF fedAll
<1> QED BY <1>5, <1>6

\* Whatever run there is ends where fedAll does.
LEMMA RunIsFed ==
  ASSUME NEW d, NEW bytes \in Seq(Byte), NEW run, Run(run, d, bytes)
  PROVE  fedAll(d, bytes) = run[Len(bytes)]
<1>1. PICK r : Run(r, d, bytes) /\ fedAll(d, bytes) = r[Len(bytes)]
  BY FedIsRun
<1>2. Len(bytes) \in 0 .. Len(bytes)
  OBVIOUS
<1> QED BY <1>1, <1>2, RunIsUnique

LEMMA FedNothing ==
  ASSUME NEW d
  PROVE  fedAll(d, <<>>) = d
<1>1. <<>> \in Seq(Byte) /\ Len(<<>>) = 0
  OBVIOUS
<1>2. PICK run : Run(run, d, <<>>) /\ fedAll(d, <<>>) = run[0]
  BY <1>1, FedIsRun
<1> QED BY <1>2 DEF Run

\* Feeding a datagram and then the next one is feeding them together.
LEMMA FedTogether ==
  ASSUME NEW d, NEW a \in Seq(Byte), NEW b \in Seq(Byte)
  PROVE  fedAll(d, a \o b) = fedAll(fedAll(d, a), b)
<1> DEFINE M == Len(a)
           N == Len(b)
           ab == a \o b
<1>1. /\ M \in Nat /\ N \in Nat /\ ab \in Seq(Byte) /\ Len(ab) = M + N
      /\ \A i \in 1 .. M : ab[i] = a[i]
      /\ \A i \in M + 1 .. M + N : ab[i] = b[i - M]
  OBVIOUS
<1>2. PICK f : Run(f, d, a) /\ fedAll(d, a) = f[M]
  BY FedIsRun
<1>3. PICK g : Run(g, f[M], b) /\ fedAll(f[M], b) = g[N]
  BY FedIsRun
<1> HIDE DEF M, N, ab
<1> DEFINE h == [k \in 0 .. M + N |-> IF k =< M THEN f[k] ELSE g[k - M]]
<1>4. h[0] = d /\ DOMAIN h = 0 .. Len(ab)
  BY <1>1, <1>2 DEF Run
<1>5. ASSUME NEW k \in 1 .. M + N
      PROVE  h[k] = fed(h[k - 1], ab[k])
  <2>1. CASE k =< M
    <3>1. k \in 1 .. M /\ k - 1 =< M /\ k \in 0 .. M + N /\ k - 1 \in 0 .. M + N
      BY <1>1, <2>1
    <3>2. f[k] = fed(f[k - 1], a[k])
      BY <1>2, <3>1 DEF Run, M
    <3> QED BY <1>1, <2>1, <3>1, <3>2
  <2>2. CASE k = M + 1
    <3>1. 1 \in 1 .. N /\ k - M = 1 /\ k - 1 = M /\ ~(k =< M)
          /\ k \in 0 .. M + N /\ M \in 0 .. M + N /\ k \in M + 1 .. M + N
      BY <1>1, <2>2
    <3>2. g[1] = fed(g[0], b[1]) /\ g[0] = f[M]
      <4>1. 1 - 1 = 0
        OBVIOUS
      <4> QED BY <1>3, <3>1, <4>1 DEF Run, N
    <3>3. h[k] = g[1] /\ h[k - 1] = f[M] /\ ab[k] = b[1]
      BY <1>1, <3>1
    <3> QED BY <3>2, <3>3
  <2>3. CASE k > M + 1
    <3>1. /\ k - M \in 1 .. N /\ (k - 1) - M = (k - M) - 1 /\ ~(k =< M) /\ ~(k - 1 =< M)
          /\ k \in 0 .. M + N /\ k - 1 \in 0 .. M + N /\ k \in M + 1 .. M + N
      BY <1>1, <2>3
    <3>2. g[k - M] = fed(g[(k - M) - 1], b[k - M])
      BY <1>3, <3>1 DEF Run, N
    <3>3. h[k] = g[k - M] /\ h[k - 1] = g[(k - M) - 1] /\ ab[k] = b[k - M]
      BY <1>1, <3>1
    <3> QED BY <3>2, <3>3
  <2> QED BY <1>1, <2>1, <2>2, <2>3
<1>6. Run(h, d, ab)
  <2> HIDE DEF h
  <2> QED BY <1>1, <1>4, <1>5 DEF Run
<1>7. h[M + N] = g[N]
  <2>1. CASE N = 0
    BY <1>1, <1>3, <2>1 DEF Run
  <2>2. CASE N # 0
    BY <1>1, <2>2
  <2> QED BY <2>1, <2>2
<1>8. fedAll(d, ab) = h[M + N]
  <2> HIDE DEF h
  <2> QED BY <1>1, <1>6, RunIsFed
<1> QED BY <1>2, <1>3, <1>7, <1>8 DEF M, N, ab

LEMMA FedOne ==
  ASSUME NEW d, NEW c \in Byte
  PROVE  fedAll(d, <<c>>) = fed(d, c)
<1> DEFINE b == <<c>>
<1>1. b \in Seq(Byte) /\ Len(b) = 1 /\ b[1] = c
  OBVIOUS
<1> HIDE DEF b
<1>2. PICK run : Run(run, d, b) /\ fedAll(d, b) = run[1]
  BY <1>1, FedIsRun
<1>3. 1 \in 1 .. 1 /\ 1 - 1 = 0
  OBVIOUS
<1>4. run[1] = fed(run[0], c) /\ run[0] = d
  BY <1>1, <1>2, <1>3 DEF Run
<1> QED BY <1>2, <1>4 DEF b

\* What every byte keeps, all of them keep.
LEMMA FedKeeps ==
  ASSUME NEW D, \A d \in D, c \in Byte : fed(d, c) \in D,
         NEW d \in D, NEW bytes \in Seq(Byte)
  PROVE  fedAll(d, bytes) \in D
<1>1. PICK run : Run(run, d, bytes) /\ fedAll(d, bytes) = run[Len(bytes)]
  BY FedIsRun
<1> DEFINE N == Len(bytes)
           S == {n \in 0 .. N : run[n] \in D}
<1>2. N \in Nat /\ \A i \in 1 .. N : bytes[i] \in Byte
  OBVIOUS
<1>3. 0 \in S
  BY <1>1, <1>2 DEF Run
<1>4. ASSUME NEW n \in 0 .. N - 1, n \in S PROVE n + 1 \in S
  <2>1. n + 1 \in 1 .. N /\ n + 1 \in 0 .. N /\ (n + 1) - 1 = n
    BY <1>2
  <2>2. run[n + 1] = fed(run[n], bytes[n + 1])
    BY <1>1, <2>1 DEF Run
  <2> QED BY <1>2, <1>4, <2>1, <2>2
<1>5. N \in S
  <2> HIDE DEF N, S
  <2> QED BY <1>2, <1>3, <1>4, UpToLast
<1> QED BY <1>1, <1>5

\* When the k-th byte leads from D[k - 1] to D[k], all of them lead from the first to
\* the last.
LEMMA FedThrough ==
  ASSUME NEW bytes \in Seq(Byte), NEW D, NEW d \in D[0],
         \A k \in 1 .. Len(bytes) : \A e \in D[k - 1] : fed(e, bytes[k]) \in D[k]
  PROVE  fedAll(d, bytes) \in D[Len(bytes)]
<1>1. PICK run : Run(run, d, bytes) /\ fedAll(d, bytes) = run[Len(bytes)]
  BY FedIsRun
<1> DEFINE N == Len(bytes)
           S == {n \in 0 .. N : run[n] \in D[n]}
<1>2. N \in Nat
  OBVIOUS
<1>3. 0 \in S
  BY <1>1, <1>2 DEF Run
<1>4. ASSUME NEW n \in 0 .. N - 1, n \in S PROVE n + 1 \in S
  <2>1. n + 1 \in 1 .. N /\ n + 1 \in 0 .. N /\ (n + 1) - 1 = n
    BY <1>2
  <2>2. run[n + 1] = fed(run[n], bytes[n + 1])
    BY <1>1, <2>1 DEF Run
  <2> QED BY <1>4, <2>1, <2>2
<1>5. N \in S
  <2> HIDE DEF N, S
  <2> QED BY <1>2, <1>3, <1>4, UpToLast
<1> QED BY <1>1, <1>5

-----------------------------------------------------------------------------
(***************************************************************************)
(* The checksum.                                                           *)
(***************************************************************************)
Half == 0 .. 15
CrcValue == {n \in Nat : n =< 65535}

LEMMA HalfBytesType == \A a, b \in Half : halfBytes[a][b] \in Half
  BY DEF halfBytes, Half

LEMMA XorType == \A a, b \in Byte : xor(a, b) \in Byte
<1> SUFFICES ASSUME NEW a \in Byte, NEW b \in Byte PROVE xor(a, b) \in Byte
  OBVIOUS
<1>1. a \div 16 \in Half /\ b \div 16 \in Half /\ a % 16 \in Half /\ b % 16 \in Half
  BY DEF Byte, Half
<1> DEFINE h == halfBytes[a \div 16][b \div 16]
           l == halfBytes[a % 16][b % 16]
<1>2. h \in Half /\ l \in Half
  BY <1>1, HalfBytesType
<1>3. xor(a, b) = 16 * h + l
  BY DEF xor
<1> HIDE DEF h, l
<1> QED BY <1>2, <1>3 DEF Half, Byte

LEMMA TwoBytes == \A x, y \in Byte : 256 * x + y \in CrcValue
<1> SUFFICES ASSUME NEW x \in Byte, NEW y \in Byte PROVE 256 * x + y \in CrcValue
  OBVIOUS
<1>1. x \in Nat /\ y \in Nat /\ x =< 255 /\ y =< 255
  BY DEF Byte
<1> QED BY <1>1 DEF CrcValue

LEMMA OfTwoBytes ==
  ASSUME NEW n \in CrcValue
  PROVE  n % 256 \in Byte /\ n \div 256 \in Byte /\ n = 256 * (n \div 256) + (n % 256)
<1>1. n \in Nat /\ n =< 65535
  BY DEF CrcValue
<1>2. n \div 256 \in Nat /\ n \div 256 =< 255 /\ n % 256 \in 0 .. 255
  BY <1>1
<1>3. n = 256 * (n \div 256) + (n % 256)
  BY <1>1
<1> QED BY <1>2, <1>3 DEF Byte

LEMMA ShiftedType == \A t \in Byte : shifted[t] \in CrcValue
<1> SUFFICES ASSUME NEW t \in Byte PROVE shifted[t] \in CrcValue
  OBVIOUS
<1> DEFINE x == xor(t, t \div 32)
           y == xor((t * 8) % 256, t \div 16)
<1>1. t \div 32 \in Byte /\ (t * 8) % 256 \in Byte /\ t \div 16 \in Byte
  BY DEF Byte
<1>2. x \in Byte /\ y \in Byte
  BY <1>1, XorType
<1>3. shifted[t] = 256 * x + y
  BY DEF shifted, Byte
<1> HIDE DEF x, y
<1> QED BY <1>2, <1>3, TwoBytes

LEMMA CrcType == \A crc \in CrcValue, c \in Byte : crc_accumulate(crc, c) \in CrcValue
<1> SUFFICES ASSUME NEW crc \in CrcValue, NEW c \in Byte
             PROVE  crc_accumulate(crc, c) \in CrcValue
  OBVIOUS
<1> DEFINE low == xor(c, crc % 256)
           t == xor(low, (low * 16) % 256)
           new == shifted[t]
           z == xor(new % 256, crc \div 256)
<1>1. crc % 256 \in Byte /\ crc \div 256 \in Byte
  BY OfTwoBytes
<1>2. low \in Byte
  BY <1>1, XorType
<1>3. (low * 16) % 256 \in Byte
  <2> HIDE DEF low
  <2> QED BY <1>2 DEF Byte
<1>4. t \in Byte
  <2> HIDE DEF low
  <2> QED BY <1>2, <1>3, XorType
<1>5. new \in CrcValue
  <2> HIDE DEF t
  <2> QED BY <1>4, ShiftedType
<1>6. new % 256 \in Byte /\ new \div 256 \in Byte
  <2> HIDE DEF new
  <2> QED BY <1>5, OfTwoBytes
<1>7. z \in Byte
  <2> HIDE DEF new
  <2> QED BY <1>1, <1>6, XorType
<1>8. crc_accumulate(crc, c) = 256 * (new \div 256) + z
  BY DEF crc_accumulate
<1> HIDE DEF low, t, new, z
<1> QED BY <1>6, <1>7, <1>8, TwoBytes

-----------------------------------------------------------------------------
(***************************************************************************)
(* The table of the messages.                                              *)
(***************************************************************************)
LEMMA GreatestOf ==
  ASSUME NEW n \in Nat, NEW S \in SUBSET (0 .. n), S # {}
  PROVE  \E x \in S : \A i \in S : i =< x
<1> DEFINE T == {k \in 0 .. n : (\E i \in S : i =< k) =>
                                  \E x \in S : x =< k /\ \A i \in S : i =< k => i =< x}
<1>1. 0 \in T
  <2>1. \A i \in S : i \in Nat
    OBVIOUS
  <2> QED BY <2>1
<1>2. ASSUME NEW k \in 0 .. n - 1, k \in T PROVE k + 1 \in T
  <2>1. k + 1 \in 0 .. n /\ \A i \in S : i \in Nat
    OBVIOUS
  <2>2. CASE k + 1 \in S
    <3>1. k + 1 =< k + 1 /\ \A i \in S : i =< k + 1 => i =< k + 1
      BY <2>1
    <3> QED BY <2>1, <2>2, <3>1
  <2>3. CASE k + 1 \notin S
    <3>1. \A i \in S : i =< k + 1 => i =< k
      BY <2>1, <2>3
    <3>2. \A x \in S : x =< k => x =< k + 1
      BY <2>1
    <3> QED BY <1>2, <2>1, <3>1, <3>2
  <2> QED BY <2>2, <2>3
<1>3. n \in T
  <2> HIDE DEF T
  <2> QED BY <1>1, <1>2, UpToLast
<1>4. \A i \in S : i =< n
  OBVIOUS
<1> QED BY <1>3, <1>4

LEMMA IdBytes ==
  ASSUME NEW n \in MessageId
  PROVE  /\ n \in Nat
         /\ n % 256 \in Byte /\ (n \div 256) % 256 \in Byte /\ n \div 65536 \in Byte
         /\ n = (n % 256) + 256 * ((n \div 256) % 256) + 65536 * (n \div 65536)
<1>1. n \in Nat /\ n =< 16777215
  <2>1. MaxMessageId = 16777215
    BY SMT DEF MaxMessageId
  <2>2. MaxMessageId \in Nat
    BY <2>1, SMT
  <2>3. n \in Nat /\ n =< MaxMessageId
    BY <2>2, SMT DEF MessageId
  <2> QED BY <2>1, <2>3, SMT
<1>2. n % 256 \in 0 .. 255 /\ (n \div 256) % 256 \in 0 .. 255
  BY <1>1, SMT
<1>3. n \div 65536 \in Nat /\ n \div 65536 =< 255
  BY <1>1, SMT
<1>4. n = (n % 256) + 256 * ((n \div 256) % 256) + 65536 * (n \div 65536)
  <2>1. n \div 65536 = (n \div 256) \div 256
    BY <1>1, SMT
  <2> DEFINE h == n \div 256
  <2>2. h \in Nat /\ n = (n % 256) + 256 * h
    BY <1>1, SMT
  <2> HIDE DEF h
  <2>3. h = (h % 256) + 256 * (h \div 256)
    BY <2>2, SMT
  <2> QED BY <1>1, <2>1, <2>2, <2>3, SMT DEF h
<1> QED BY <1>1, <1>2, <1>3, <1>4, SMT DEF Byte

\* The ids of the table, counting from zero.
idAt(k) == Entries[k + 1].msgid
LastEntry == Len(Entries) - 1
TableBounds == [low : 0 .. LastEntry, high : 0 .. LastEntry]

TableEntry == [msgid : MessageId, crc_extra : Byte,
               min_len : 0 .. 255, max_len : 1 .. 255]

LEMMA TableIsSorted ==
  /\ Len(Entries) \in Nat /\ LastEntry \in Nat
  /\ \A k \in 0 .. LastEntry : k + 1 \in DOMAIN Entries /\ idAt(k) \in Nat
  /\ \A j, k \in 0 .. LastEntry : j < k => idAt(j) < idAt(k)
<1>1. /\ Len(Entries) \in Nat /\ Len(Entries) # 0 /\ DOMAIN Entries = 1 .. Len(Entries)
      /\ \A i \in DOMAIN Entries : Entries[i] \in TableEntry
  <2> DEFINE T == TableEntry
  <2>1. Entries \in Seq(T) /\ Entries # <<>>
    BY CodecAssumption DEF TableEntry
  <2> HIDE DEF T
  <2>2. \A i \in 1 .. Len(Entries) : Entries[i] \in T
    BY <2>1
  <2> QED BY <2>1, <2>2 DEF T
<1>2. \A k \in 0 .. LastEntry : k + 1 \in DOMAIN Entries
  BY <1>1 DEF LastEntry
<1>3. \A k \in 0 .. LastEntry : idAt(k) \in Nat
  <2>1. \A e \in TableEntry : e.msgid \in Nat
    <3>1. \A e \in TableEntry : e.msgid \in MessageId
      BY DEF TableEntry
    <3> QED BY <3>1, IdBytes
  <2> QED BY <1>1, <1>2, <2>1 DEF idAt
<1>4. ASSUME NEW j \in 0 .. LastEntry, NEW k \in 0 .. LastEntry, j < k
      PROVE  idAt(j) < idAt(k)
  <2>1. j + 1 < k + 1 /\ j + 1 \in DOMAIN Entries /\ k + 1 \in DOMAIN Entries
    BY <1>2, <1>4
  <2> QED BY <2>1, CodecAssumption DEF idAt
<1> QED BY <1>1, <1>2, <1>3, <1>4 DEF LastEntry

LEMMA Middle ==
  ASSUME NEW low \in 0 .. LastEntry, NEW high \in 0 .. LastEntry, low < high
  PROVE  /\ (low + 1 + high) \div 2 \in low + 1 .. high
         /\ (low + 1 + high) \div 2 - 1 \in 0 .. LastEntry
         /\ (low + 1 + high) \div 2 \in 0 .. LastEntry
<1>1. LastEntry \in Nat
  BY TableIsSorted
<1> DEFINE s == low + 1 + high
           m == s \div 2
<1>2. s \in Nat /\ 2 * m =< s /\ s =< 2 * m + 1 /\ m \in Nat
  BY <1>1
<1>3. s >= 2 * low + 2 /\ s =< 2 * high
  BY <1>1
<1> HIDE DEF s, m
<1>4. low + 1 =< m /\ m =< high
  BY <1>1, <1>2, <1>3
<1> QED BY <1>1, <1>2, <1>4 DEF s, m

\* What one round of the bisection makes of the rounds behind it.
Round(at, b, msgid) ==
    LET mid == (b.low + 1 + b.high) \div 2
        found == Entries[mid + 1].msgid
    IN  IF b.low >= b.high THEN b.low
        ELSE IF msgid = found THEN mid
        ELSE at[IF msgid < found THEN [low |-> b.low, high |-> mid - 1]
                                 ELSE [low |-> mid, high |-> b.high]]

\* The last entry behind b.low that is not above msgid.
Below(b, msgid) ==
    {k \in 0 .. LastEntry : b.low =< k /\ k =< b.high /\ (k = b.low \/ idAt(k) =< msgid)}

Closest(b, msgid) ==
    IF b.low >= b.high THEN b.low
    ELSE CHOOSE k \in Below(b, msgid) : \A j \in Below(b, msgid) : j =< k

LEMMA ClosestIs ==
  ASSUME NEW b \in TableBounds, NEW msgid \in Nat,
         NEW k \in Below(b, msgid), \A j \in Below(b, msgid) : j =< k
  PROVE  Closest(b, msgid) = k
<1> DEFINE x == CHOOSE x \in Below(b, msgid) : \A j \in Below(b, msgid) : j =< x
<1>1. x \in Below(b, msgid) /\ \A j \in Below(b, msgid) : j =< x
  OBVIOUS
<1> HIDE DEF x
<1>2. \A j \in Below(b, msgid) : j \in Int
  BY TableIsSorted DEF Below
<1>3. x = k
  BY <1>1, <1>2
<1>4. CASE b.low >= b.high
  <2>1. b.low \in Nat /\ b.high \in Nat
    BY TableIsSorted DEF TableBounds
  <2>2. k = b.low
    BY <1>2, <1>4, <2>1 DEF Below
  <2> QED BY <1>4, <2>2 DEF Closest
<1>5. CASE ~(b.low >= b.high)
  BY <1>3, <1>5 DEF Closest, x
<1> QED BY <1>4, <1>5

LEMMA ClosestExists ==
  ASSUME NEW b \in TableBounds, NEW msgid \in Nat, b.low =< b.high
  PROVE  /\ Closest(b, msgid) \in Below(b, msgid)
         /\ \A j \in Below(b, msgid) : j =< Closest(b, msgid)
<1>1. b.low \in Below(b, msgid)
  <2>1. b.low \in 0 .. LastEntry
    BY DEF TableBounds
  <2> QED BY <2>1, TableIsSorted DEF Below
<1>2. Below(b, msgid) \in SUBSET (0 .. LastEntry) /\ LastEntry \in Nat
  BY TableIsSorted DEF Below
<1>3. PICK k \in Below(b, msgid) : \A j \in Below(b, msgid) : j =< k
  BY <1>1, <1>2, GreatestOf
<1> QED BY <1>3, ClosestIs

\* The closest entry is what the bisection computes.
LEMMA ClosestIsRound ==
  ASSUME NEW msgid \in Nat, NEW b \in TableBounds
  PROVE  Closest(b, msgid) =
            Round([c \in TableBounds |-> Closest(c, msgid)], b, msgid)
<1> DEFINE at == [c \in TableBounds |-> Closest(c, msgid)]
           low == b.low
           high == b.high
           mid == (low + 1 + high) \div 2
<1>1. low \in 0 .. LastEntry /\ high \in 0 .. LastEntry /\ LastEntry \in Nat
  BY TableIsSorted DEF TableBounds
<1>2. CASE low >= high
  BY <1>2 DEF Closest, Round
<1>3. CASE low < high
  <2>1. mid \in low + 1 .. high /\ mid - 1 \in 0 .. LastEntry /\ mid \in 0 .. LastEntry
    BY <1>1, <1>3, Middle
  <2>2. idAt(mid) = Entries[mid + 1].msgid /\ idAt(mid) \in Nat
    BY <2>1, TableIsSorted DEF idAt
  <2>3. ~(low >= high)
    BY <1>1, <1>3
  <2>4. Round(at, b, msgid) =
          IF msgid = idAt(mid) THEN mid
          ELSE at[IF msgid < idAt(mid) THEN [low |-> low, high |-> mid - 1]
                                       ELSE [low |-> mid, high |-> high]]
    BY <2>2, <2>3 DEF Round
  <2> HIDE DEF mid
  <2>5. \A k \in 0 .. LastEntry : /\ k > mid => idAt(mid) < idAt(k)
                                  /\ k < mid => idAt(k) < idAt(mid)
                                  /\ idAt(k) \in Nat
    BY <2>1, TableIsSorted
  <2>6. mid \in Below(b, msgid) \/ msgid < idAt(mid)
    BY <1>1, <2>1, <2>2 DEF Below
  <2>7. CASE msgid = idAt(mid)
    <3>1. mid \in Below(b, msgid) 
      BY <2>2, <2>6, <2>7
    <3>2. \A j \in Below(b, msgid) : j =< mid
      BY <1>1, <2>1, <2>5, <2>7 DEF Below
    <3> QED BY <2>4, <2>7, <3>1, <3>2, ClosestIs
  <2>8. CASE msgid < idAt(mid)
    <3> DEFINE c == [low |-> low, high |-> mid - 1]
    <3>1. c \in TableBounds /\ c.low = low /\ c.high = mid - 1 /\ c.low =< c.high
      BY <1>1, <2>1 DEF TableBounds
    <3>2. Round(at, b, msgid) = Closest(c, msgid)
      BY <2>2, <2>4, <2>8, <3>1
    <3> HIDE DEF c
    <3>3. Below(c, msgid) = Below(b, msgid)
      BY <1>1, <2>1, <2>2, <2>5, <2>8, <3>1, SMTT(30) DEF Below
    <3>4. Closest(c, msgid) \in Below(b, msgid)
          /\ \A j \in Below(b, msgid) : j =< Closest(c, msgid)
      BY <3>1, <3>3, ClosestExists
    <3> QED BY <3>2, <3>4, ClosestIs
  <2>9. CASE msgid > idAt(mid)
    <3> DEFINE c == [low |-> mid, high |-> high]
    <3>1. c \in TableBounds /\ c.low = mid /\ c.high = high /\ c.low =< c.high
      BY <1>1, <2>1 DEF TableBounds
    <3>2. Round(at, b, msgid) = Closest(c, msgid)
      BY <2>2, <2>4, <2>9, <3>1
    <3> HIDE DEF c
    <3>3. \A k \in Below(c, msgid) : k \in Below(b, msgid)
      BY <1>1, <2>1, <2>2, <2>9, <3>1 DEF Below
    <3>4. \A k \in Below(b, msgid) : k \in Below(c, msgid) \/ k < mid
      BY <1>1, <2>1, <3>1 DEF Below
    <3>5. Closest(c, msgid) \in Below(c, msgid)
          /\ \A j \in Below(c, msgid) : j =< Closest(c, msgid)
      BY <3>1, ClosestExists
    <3>6. \A j \in Below(b, msgid) : j =< Closest(c, msgid)
      <4>1. Closest(c, msgid) >= mid /\ Closest(c, msgid) \in Nat
        BY <1>1, <3>1, <3>5 DEF Below
      <4>2. \A j \in Below(b, msgid) : j \in Nat
        BY <1>1 DEF Below
      <4> QED BY <2>1, <3>4, <3>5, <4>1, <4>2
    <3> QED BY <3>2, <3>3, <3>5, <3>6, ClosestIs
  <2> QED BY <2>2, <2>7, <2>8, <2>9
<1> QED BY <1>1, <1>2, <1>3

\* The bisection ends inside of the table, at the entry of msgid if there is one.
LEMMA BisectionFinds ==
  ASSUME NEW msgid \in Nat
  PROVE  /\ bisected(msgid) \in 0 .. LastEntry
         /\ \A k \in 0 .. LastEntry : idAt(k) = msgid => bisected(msgid) = k
<1> DEFINE Rec(f) == f = [b \in TableBounds |-> Round(f, b, msgid)]
           at == CHOOSE f : Rec(f)
           whole == [low |-> 0, high |-> LastEntry]
<1>1. LastEntry \in Nat
  BY TableIsSorted
<1>2. Rec([c \in TableBounds |-> Closest(c, msgid)])
  BY ClosestIsRound
<1>3. Rec(at)
  BY <1>2
<1>4. bisected(msgid) = at[whole]
  BY DEF bisected, Round, TableBounds, LastEntry
<1> HIDE DEF at
<1> DEFINE Good(b) == /\ at[b] \in 0 .. LastEntry
                      /\ \A k \in 0 .. LastEntry :
                            b.low =< k /\ k =< b.high /\ idAt(k) = msgid => at[b] = k
           S == {n \in 0 .. LastEntry :
                   \A b \in TableBounds : b.low + n >= b.high => Good(b)}
<1>5. ASSUME NEW b \in TableBounds, b.low >= b.high
      PROVE  Good(b)
  <2>1. b.low \in 0 .. LastEntry /\ b.high \in 0 .. LastEntry
    BY DEF TableBounds
  <2>2. at[b] = Round(at, b, msgid)
    BY <1>3
  <2>3. at[b] = b.low
    BY <1>5, <2>2 DEF Round
  <2> QED BY <1>1, <1>5, <2>1, <2>3
<1>6. 0 \in S
  <2>1. \A b \in TableBounds : b.low + 0 >= b.high => b.low >= b.high
    BY <1>1 DEF TableBounds
  <2> HIDE DEF Good
  <2> QED BY <1>1, <1>5, <2>1
<1>7. ASSUME NEW n \in 0 .. LastEntry - 1, n \in S
      PROVE  n + 1 \in S
  <2>1. ASSUME NEW b \in TableBounds, b.low + (n + 1) >= b.high
        PROVE  Good(b)
    <3> DEFINE low == b.low
               high == b.high
               mid == (low + 1 + high) \div 2
    <3>1. low \in 0 .. LastEntry /\ high \in 0 .. LastEntry
      BY DEF TableBounds
    <3>2. CASE low >= high
      <4> HIDE DEF Good
      <4> QED BY <1>5, <3>2
    <3>3. CASE low < high
      <4>1. mid \in low + 1 .. high /\ mid - 1 \in 0 .. LastEntry /\ mid \in 0 .. LastEntry
        BY <3>1, <3>3, Middle
      <4>2. idAt(mid) = Entries[mid + 1].msgid /\ idAt(mid) \in Nat
        BY <4>1, TableIsSorted DEF idAt
      <4>3. ~(low >= high)
        BY <1>1, <3>1, <3>3
      <4>4. at[b] = Round(at, b, msgid)
        BY <1>3
      <4>5. at[b] =
              IF msgid = idAt(mid) THEN mid
              ELSE at[IF msgid < idAt(mid) THEN [low |-> low, high |-> mid - 1]
                                           ELSE [low |-> mid, high |-> high]]
        BY <4>2, <4>3, <4>4 DEF Round
      <4> HIDE DEF mid
      <4>6. \A k \in 0 .. LastEntry : /\ k > mid => idAt(mid) < idAt(k)
                                      /\ k < mid => idAt(k) < idAt(mid)
                                      /\ idAt(k) \in Nat
        BY <4>1, TableIsSorted
      <4>7. CASE msgid = idAt(mid)
        BY <1>1, <4>1, <4>5, <4>6, <4>7
      <4>8. CASE msgid < idAt(mid)
        <5> DEFINE c == [low |-> low, high |-> mid - 1]
        <5>1. c \in TableBounds /\ c.low = low /\ c.high = mid - 1
          BY <1>1, <3>1, <4>1 DEF TableBounds
        <5>2. at[b] = at[c]
          BY <4>2, <4>5, <4>8
        <5> HIDE DEF c
        <5>3. c.low + n >= c.high
          BY <1>1, <2>1, <3>1, <4>1, <5>1
        <5>4. Good(c)
          <6> HIDE DEF Good
          <6> QED BY <1>7, <5>1, <5>3
        <5>5. \A k \in 0 .. LastEntry : k =< high /\ idAt(k) = msgid => k =< mid - 1
          BY <1>1, <3>1, <4>1, <4>2, <4>6, <4>8
        <5> QED BY <5>1, <5>2, <5>4, <5>5
      <4>9. CASE msgid > idAt(mid)
        <5> DEFINE c == [low |-> mid, high |-> high]
        <5>1. c \in TableBounds /\ c.low = mid /\ c.high = high
          BY <1>1, <3>1, <4>1 DEF TableBounds
        <5>2. at[b] = at[c]
          BY <4>2, <4>5, <4>9
        <5> HIDE DEF c
        <5>3. c.low + n >= c.high
          BY <1>1, <2>1, <3>1, <4>1, <5>1
        <5>4. Good(c)
          <6> HIDE DEF Good
          <6> QED BY <1>7, <5>1, <5>3
        <5>5. \A k \in 0 .. LastEntry : low =< k /\ idAt(k) = msgid => mid =< k
          BY <1>1, <3>1, <4>1, <4>2, <4>6, <4>9
        <5> QED BY <5>1, <5>2, <5>4, <5>5
      <4> QED BY <4>2, <4>7, <4>8, <4>9
    <3> QED BY <1>1, <3>1, <3>2, <3>3
  <2>2. n + 1 \in 0 .. LastEntry
    BY <1>1
  <2> HIDE DEF Good
  <2> QED BY <2>1, <2>2
<1>8. LastEntry \in S
  <2> HIDE DEF S
  <2> QED BY <1>1, <1>6, <1>7, UpToLast
<1>9. whole \in TableBounds /\ whole.low + LastEntry >= whole.high
      /\ whole.low = 0 /\ whole.high = LastEntry
  BY <1>1 DEF TableBounds
<1>10. Good(whole)
  <2> HIDE DEF Good, whole
  <2> QED BY <1>8, <1>9
<1> QED BY <1>1, <1>4, <1>9, <1>10

\* What the parser knows of a message is its entry, whatever the others are.
LEMMA Lookup ==
  ASSUME NEW msgid \in Nat
  PROVE  /\ \A e \in mavlink_get_msg_entry(msgid) : e \in TableEntry /\ e.msgid = msgid
         /\ \A i \in DOMAIN Entries :
               Entries[i].msgid = msgid =>
                  /\ mavlink_get_msg_entry(msgid) = {Entries[i]}
                  /\ entry(msgid) = Entries[i]
<1> DEFINE k == bisected(msgid)
<1>1. k \in 0 .. LastEntry
  BY BisectionFinds
<1>2. /\ LastEntry = Len(Entries) - 1 /\ Len(Entries) \in Nat
      /\ DOMAIN Entries = 1 .. Len(Entries)
      /\ \A i \in DOMAIN Entries : Entries[i] \in TableEntry
  <2> DEFINE T == TableEntry
  <2>1. Entries \in Seq(T)
    BY CodecAssumption DEF TableEntry
  <2> HIDE DEF T
  <2> QED BY <2>1 DEF T, LastEntry
<1>3. k + 1 \in DOMAIN Entries
  <2> HIDE DEF k
  <2> QED BY <1>1, <1>2
<1>4. ASSUME NEW e \in mavlink_get_msg_entry(msgid)
      PROVE  e \in TableEntry /\ e.msgid = msgid
  BY <1>2, <1>3, <1>4 DEF mavlink_get_msg_entry
<1>5. ASSUME NEW i \in DOMAIN Entries, Entries[i].msgid = msgid
      PROVE  mavlink_get_msg_entry(msgid) = {Entries[i]} /\ entry(msgid) = Entries[i]
  <2>1. i - 1 \in 0 .. LastEntry /\ (i - 1) + 1 = i
    BY <1>2
  <2>2. idAt(i - 1) = msgid
    BY <1>5, <2>1 DEF idAt
  <2>3. k = i - 1
    BY <2>1, <2>2, BisectionFinds
  <2>4. k + 1 = i
    BY <2>1, <2>3
  <2>5. mavlink_get_msg_entry(msgid) = {Entries[i]}
    BY <1>5, <2>4 DEF mavlink_get_msg_entry
  <2> DEFINE j == CHOOSE j \in DOMAIN Entries : Entries[j].msgid = msgid
  <2>6. j \in DOMAIN Entries /\ Entries[j].msgid = msgid
    BY <1>5
  <2>7. entry(msgid) = Entries[j]
    BY DEF entry
  <2> HIDE DEF j, k
  <2>8. j = i
    <3>1. j - 1 \in 0 .. LastEntry /\ (j - 1) + 1 = j
      BY <1>2, <2>6
    <3>2. idAt(j - 1) = msgid
      BY <2>6, <3>1 DEF idAt
    <3>3. j - 1 = i - 1
      BY <2>3, <3>1, <3>2, BisectionFinds DEF k
    <3> QED BY <2>1, <3>1, <3>3
  <2> QED BY <2>5, <2>7, <2>8
<1> QED BY <1>4, <1>5

-----------------------------------------------------------------------------
(***************************************************************************)
(* The decoder, and what each of its bytes does.                           *)
(***************************************************************************)
\* From the byte behind the flags to the last one of the message id.
Headers == {"GOT_INCOMPAT_FLAGS", "GOT_COMPAT_FLAGS", "GOT_SEQ", "GOT_SYSID",
            "GOT_COMPID", "GOT_MSGID1", "GOT_MSGID2"}
Checks == {"GOT_CRC1", "GOT_BAD_CRC1"}
Signatures == {"SIGNATURE_WAIT", "SIGNATURE_WAIT_BAD_CRC"}
States == {"IDLE", "GOT_STX", "GOT_LENGTH", "GOT_MSGID3", "GOT_PAYLOAD"}
          \cup Headers \cup Checks \cup Signatures

Buffer == [len : Byte, incompat_flags : Byte, sysid : Byte, msgid : Nat,
           payload : Seq(Byte), checksum : CrcValue]
Status == [parse_state : States, packet_idx : Nat, mavlink1 : BOOLEAN,
           signature_wait : Nat, parse_error : Nat]
Reader == [rx : Buffer, st : Status, received : {"INCOMPLETE", "OK", "BAD_CRC"}]

LEMMA ReaderFields ==
  ASSUME NEW r \in Reader
  PROVE  /\ r.rx \in Buffer /\ r.st \in Status
         /\ r.rx.len \in Byte /\ r.rx.incompat_flags \in Byte /\ r.rx.sysid \in Byte
         /\ r.rx.msgid \in Nat /\ r.rx.payload \in Seq(Byte)
         /\ r.rx.checksum \in CrcValue
         /\ r.st.parse_state \in States /\ r.st.packet_idx \in Nat
         /\ r.st.mavlink1 \in BOOLEAN /\ r.st.signature_wait \in Nat
         /\ r.st.parse_error \in Nat
  BY DEF Reader, Buffer, Status

LEMMA Goto ==
  ASSUME NEW r \in Reader, NEW s \in States
  PROVE  /\ goto(r, s) \in Reader
         /\ goto(r, s).rx = r.rx /\ goto(r, s).received = r.received
         /\ goto(r, s).st = [r.st EXCEPT !.parse_state = s]
  BY DEF goto, Reader, Status

LEMMA Checksummed ==
  ASSUME NEW r \in Reader, NEW c \in Byte
  PROVE  /\ checksummed(r, c) \in Reader
         /\ checksummed(r, c).st = r.st /\ checksummed(r, c).received = r.received
         /\ checksummed(r, c).rx = [r.rx EXCEPT !.checksum = crc_accumulate(r.rx.checksum, c)]
<1>1. crc_accumulate(r.rx.checksum, c) \in CrcValue
  BY ReaderFields, CrcType
<1> QED BY <1>1 DEF checksummed, Reader, Buffer

LEMMA SetStart ==
  ASSUME NEW g \in Reader, NEW l \in Byte, NEW x \in CrcValue, NEW m \in BOOLEAN
  PROVE  [g EXCEPT !.rx.len = l, !.rx.checksum = x, !.st.mavlink1 = m] \in Reader
  BY DEF Reader, Buffer, Status

LEMMA SetLength ==
  ASSUME NEW g \in Reader, NEW l \in Byte, NEW k \in Nat, NEW f \in Byte
  PROVE  [g EXCEPT !.rx.len = l, !.st.packet_idx = k, !.rx.incompat_flags = f] \in Reader
  BY DEF Reader, Buffer, Status

LEMMA SetFlags ==
  ASSUME NEW g \in Reader, NEW f \in Byte
  PROVE  [g EXCEPT !.rx.incompat_flags = f] \in Reader
  BY DEF Reader, Buffer, Status

LEMMA SetError ==
  ASSUME NEW g \in Reader, NEW f \in Byte, NEW n \in Nat
  PROVE  [g EXCEPT !.rx.incompat_flags = f, !.st.parse_error = n] \in Reader
  BY DEF Reader, Buffer, Status

LEMMA SetSysid ==
  ASSUME NEW g \in Reader, NEW s \in Byte
  PROVE  [g EXCEPT !.rx.sysid = s] \in Reader
  BY DEF Reader, Buffer, Status

LEMMA SetMsgid ==
  ASSUME NEW g \in Reader, NEW n \in Nat
  PROVE  [g EXCEPT !.rx.msgid = n] \in Reader
  BY DEF Reader, Buffer, Status

LEMMA SetByte ==
  ASSUME NEW g \in Reader, NEW p \in Seq(Byte), NEW k \in Nat
  PROVE  [g EXCEPT !.rx.payload = p, !.st.packet_idx = k] \in Reader
  BY DEF Reader, Buffer, Status

LEMMA SetPayload ==
  ASSUME NEW g \in Reader, NEW p \in Seq(Byte)
  PROVE  [g EXCEPT !.rx.payload = p] \in Reader
  BY DEF Reader, Buffer, Status

LEMMA SetWait ==
  ASSUME NEW g \in Reader, NEW n \in Nat
  PROVE  [g EXCEPT !.st.signature_wait = n] \in Reader
  BY DEF Reader, Buffer, Status

LEMMA SetReceived ==
  ASSUME NEW g \in Reader, NEW v \in {"INCOMPLETE", "OK", "BAD_CRC"}
  PROVE  [g EXCEPT !.received = v] \in Reader
  BY DEF Reader, Buffer, Status

LEMMA SetEnd ==
  ASSUME NEW g \in Reader, NEW n \in Nat, NEW v \in {"INCOMPLETE", "OK", "BAD_CRC"}
  PROVE  [g EXCEPT !.st.signature_wait = n, !.received = v] \in Reader
  BY DEF Reader, Buffer, Status

LEMMA OnlyChoice ==
  ASSUME NEW e
  PROVE  (CHOOSE y \in {e} : TRUE) = e
  OBVIOUS

LEMMA StatesAre ==
  /\ "IDLE" \in States /\ "GOT_STX" \in States /\ "GOT_LENGTH" \in States
  /\ "GOT_MSGID3" \in States /\ "GOT_PAYLOAD" \in States
  /\ \A s \in Headers \cup Checks \cup Signatures : s \in States
  BY DEF States

LEMMA ReadSkipped ==
  ASSUME NEW r \in Reader, r.st.parse_state = "IDLE",
         NEW c \in Byte, c \notin {MAVLINK_STX, MAVLINK_STX_MAVLINK1}
  PROVE  frame_char(r, c) = r
  BY DEF frame_char, idle

LEMMA ReadStart ==
  ASSUME NEW r \in Reader, r.st.parse_state = "IDLE",
         NEW c \in {MAVLINK_STX, MAVLINK_STX_MAVLINK1},
         NEW q, q = frame_char(r, c)
  PROVE  /\ q \in Reader /\ q.received = r.received
         /\ q.rx.payload = r.rx.payload /\ q.rx.checksum = 65535
         /\ q.st.parse_state = "GOT_STX" /\ q.st.packet_idx = r.st.packet_idx
         /\ q.st.mavlink1 <=> c = MAVLINK_STX_MAVLINK1
<1> DEFINE g == goto(r, "GOT_STX")
           l == 0
           x == 65535
           m == c = MAVLINK_STX_MAVLINK1
<1>1. q = [g EXCEPT !.rx.len = l, !.rx.checksum = x, !.st.mavlink1 = m]
  BY DEF frame_char, idle
<1>2. l \in Byte /\ x \in CrcValue /\ m \in BOOLEAN
  BY DEF Byte, CrcValue
<1>3. /\ g \in Reader /\ g.rx = r.rx /\ g.received = r.received
      /\ g.st = [r.st EXCEPT !.parse_state = "GOT_STX"]
  BY StatesAre, Goto
<1> HIDE DEF g, l, x, m
<1>4. q \in Reader
  <2>1. g \in Reader
    BY <1>3
  <2>2. [g EXCEPT !.rx.len = l, !.rx.checksum = x, !.st.mavlink1 = m] \in Reader
    BY <1>2, <2>1, SetStart
  <2> QED BY <1>1, <2>2
<1>5. q.received = g.received
  BY <1>1, <1>3 DEF Reader
<1>6. q.rx = [g.rx EXCEPT !.len = l, !.checksum = x]
  BY <1>1, <1>3 DEF Reader
<1>7. q.st = [g.st EXCEPT !.mavlink1 = m]
  BY <1>1, <1>3 DEF Reader
<1>8. q.rx.payload = r.rx.payload /\ q.rx.checksum = x
  BY <1>3, <1>6 DEF Reader, Buffer
<1>9. q.st.packet_idx = r.st.packet_idx /\ q.st.parse_state = "GOT_STX"
  BY <1>3, <1>7 DEF Reader, Status
<1>10. q.st.mavlink1 = m
  BY <1>3, <1>7 DEF Reader, Status
<1>11. q.rx.checksum = 65535
  BY <1>8 DEF x
<1>12. q.st.mavlink1 <=> c = MAVLINK_STX_MAVLINK1
  BY <1>10 DEF m
<1>13. q.rx.payload = r.rx.payload /\ q.received = r.received
  BY <1>3, <1>5, <1>8
<1> QED BY <1>4, <1>9, <1>11, <1>12, <1>13

LEMMA ReadLength ==
  ASSUME NEW r \in Reader, r.st.parse_state = "GOT_STX", NEW c \in Byte,
         NEW q, q = frame_char(r, c)
  PROVE  /\ q \in Reader /\ q.received = r.received
         /\ q.rx = [r.rx EXCEPT
                      !.len = c,
                      !.incompat_flags = IF r.st.mavlink1 THEN 0 ELSE r.rx.incompat_flags,
                      !.checksum = crc_accumulate(r.rx.checksum, c)]
         /\ q.st = [r.st EXCEPT
                      !.parse_state = IF r.st.mavlink1 THEN "GOT_COMPAT_FLAGS"
                                                       ELSE "GOT_LENGTH",
                      !.packet_idx = 0]
<1> DEFINE s == IF r.st.mavlink1 THEN "GOT_COMPAT_FLAGS" ELSE "GOT_LENGTH"
           g == goto(r, s)
           f == IF r.st.mavlink1 THEN 0 ELSE r.rx.incompat_flags
           k == 0
           i == [g EXCEPT !.rx.len = c, !.st.packet_idx = k, !.rx.incompat_flags = f]
<1>1. s \in States /\ f \in Byte /\ k \in Nat
  BY ReaderFields, StatesAre DEF Headers, Byte
<1>2. /\ g \in Reader /\ g.rx = r.rx /\ g.received = r.received
      /\ g.st = [r.st EXCEPT !.parse_state = s]
  <2> HIDE DEF s
  <2> QED BY <1>1, Goto
<1>3. q = checksummed(i, c)
  <2>1. frame_char(r, c) = got_stx(r, c)
    BY DEF frame_char
  <2>2. f = IF r.st.mavlink1 THEN 0 ELSE g.rx.incompat_flags
    <3> HIDE DEF g
    <3> QED BY <1>2
  <2>3. [g EXCEPT !.rx.len = c, !.st.packet_idx = k,
                  !.rx.incompat_flags = IF r.st.mavlink1 THEN 0 ELSE @] = i
    <3> HIDE DEF f, k
    <3> QED BY <1>2, <2>2 DEF Reader, Buffer
  <2> QED BY <2>1, <2>3 DEF got_stx
<1> HIDE DEF s, g, f, k
<1>4. i \in Reader
  BY <1>1, <1>2, SetLength
<1>5. /\ i.received = g.received
      /\ i.rx = [g.rx EXCEPT !.len = c, !.incompat_flags = f]
      /\ i.st = [g.st EXCEPT !.packet_idx = k]
  BY <1>2 DEF Reader
<1> HIDE DEF i
<1>6. /\ checksummed(i, c) \in Reader /\ checksummed(i, c).received = i.received
      /\ checksummed(i, c).st = i.st
      /\ checksummed(i, c).rx = [i.rx EXCEPT !.checksum = crc_accumulate(i.rx.checksum, c)]
  BY <1>4, Checksummed
<1>7. i.rx.checksum = r.rx.checksum
  BY <1>2, <1>5 DEF Reader, Buffer
<1> QED BY <1>2, <1>3, <1>5, <1>6, <1>7 DEF s, f, k

LEMMA ReadUnknownFlags ==
  ASSUME NEW r \in Reader, r.st.parse_state = "GOT_LENGTH",
         NEW c \in Byte, c > IFLAG_SIGNED,
         NEW q, q = frame_char(r, c)
  PROVE  /\ q \in Reader /\ q.received = r.received
         /\ q.rx = [r.rx EXCEPT !.incompat_flags = c]
         /\ q.st = [r.st EXCEPT !.parse_state = "IDLE",
                                !.parse_error = r.st.parse_error + 1]
<1> DEFINE g == goto(r, "IDLE")
           n == r.st.parse_error + 1
           i == [g EXCEPT !.rx.incompat_flags = c, !.st.parse_error = n]
<1>1. n \in Nat
  BY ReaderFields
<1>2. /\ g \in Reader /\ g.rx = r.rx /\ g.received = r.received
      /\ g.st = [r.st EXCEPT !.parse_state = "IDLE"]
  BY StatesAre, Goto
<1>3. g.st.parse_error = r.st.parse_error
  <2> HIDE DEF g
  <2> QED BY <1>2 DEF Reader, Status
<1>4. q = i
  <2>1. frame_char(r, c) = got_length(r, c)
    BY DEF frame_char
  <2>2. got_length(r, c) = [g EXCEPT !.rx.incompat_flags = c, !.st.parse_error = @ + 1]
    BY DEF got_length
  <2>3. [g EXCEPT !.rx.incompat_flags = c, !.st.parse_error = @ + 1] = i
    <3> HIDE DEF g
    <3> QED BY <1>2, <1>3 DEF Reader, Status
  <2> QED BY <2>1, <2>2, <2>3
<1> HIDE DEF g, n
<1>5. i \in Reader
  BY <1>1, <1>2, SetError
<1>6. /\ i.received = g.received
      /\ i.rx = [g.rx EXCEPT !.incompat_flags = c]
      /\ i.st = [g.st EXCEPT !.parse_error = n]
  BY <1>2 DEF Reader
<1> QED BY <1>2, <1>4, <1>5, <1>6 DEF n

LEMMA ReadFlags ==
  ASSUME NEW r \in Reader, r.st.parse_state = "GOT_LENGTH",
         NEW c \in Byte, ~(c > IFLAG_SIGNED),
         NEW q, q = frame_char(r, c)
  PROVE  /\ q \in Reader /\ q.received = r.received
         /\ q.rx = [r.rx EXCEPT !.incompat_flags = c,
                                !.checksum = crc_accumulate(r.rx.checksum, c)]
         /\ q.st = [r.st EXCEPT !.parse_state = "GOT_INCOMPAT_FLAGS"]
<1> DEFINE s == "GOT_INCOMPAT_FLAGS"
           g == goto(r, s)
           i == [g EXCEPT !.rx.incompat_flags = c]
<1>1. s \in States
  BY StatesAre DEF Headers
<1>2. /\ g \in Reader /\ g.rx = r.rx /\ g.received = r.received
      /\ g.st = [r.st EXCEPT !.parse_state = s]
  <2> HIDE DEF s
  <2> QED BY <1>1, Goto
<1>3. q = checksummed(i, c)
  BY DEF frame_char, got_length
<1> HIDE DEF s, g
<1>4. i \in Reader
  BY <1>2, SetFlags
<1>5. /\ i.received = g.received
      /\ i.rx = [g.rx EXCEPT !.incompat_flags = c]
      /\ i.st = g.st
  BY <1>2 DEF Reader
<1> HIDE DEF i
<1>6. /\ checksummed(i, c) \in Reader /\ checksummed(i, c).received = i.received
      /\ checksummed(i, c).st = i.st
      /\ checksummed(i, c).rx = [i.rx EXCEPT !.checksum = crc_accumulate(i.rx.checksum, c)]
  BY <1>4, Checksummed
<1>7. i.rx.checksum = r.rx.checksum
  BY <1>2, <1>5 DEF Reader, Buffer
<1> QED BY <1>2, <1>3, <1>5, <1>6, <1>7 DEF s

\* Where a byte of the header leads to, and what it stores.
HeaderNext(r) ==
    CASE r.st.parse_state = "GOT_INCOMPAT_FLAGS" -> "GOT_COMPAT_FLAGS"
      [] r.st.parse_state = "GOT_COMPAT_FLAGS" -> "GOT_SEQ"
      [] r.st.parse_state = "GOT_SEQ" -> "GOT_SYSID"
      [] r.st.parse_state = "GOT_SYSID" -> "GOT_COMPID"
      [] r.st.parse_state = "GOT_COMPID" ->
            IF r.st.mavlink1 THEN payloadState(r) ELSE "GOT_MSGID1"
      [] r.st.parse_state = "GOT_MSGID1" -> "GOT_MSGID2"
      [] r.st.parse_state = "GOT_MSGID2" -> payloadState(r)

HeaderSysid(r, c) == IF r.st.parse_state = "GOT_SEQ" THEN c ELSE r.rx.sysid

HeaderMsgid(r, c) ==
    CASE r.st.parse_state = "GOT_COMPID" -> c
      [] r.st.parse_state = "GOT_MSGID1" -> r.rx.msgid + 256 * c
      [] r.st.parse_state = "GOT_MSGID2" -> r.rx.msgid + 65536 * c
      [] OTHER -> r.rx.msgid

LEMMA ReadHeader ==
  ASSUME NEW r \in Reader, r.st.parse_state \in Headers, NEW c \in Byte,
         NEW q, q = frame_char(r, c)
  PROVE  /\ q \in Reader /\ q.received = r.received
         /\ q.rx.len = r.rx.len /\ q.rx.incompat_flags = r.rx.incompat_flags
         /\ q.rx.payload = r.rx.payload
         /\ q.rx.sysid = HeaderSysid(r, c)
         /\ q.rx.msgid = HeaderMsgid(r, c)
         /\ q.rx.checksum = crc_accumulate(r.rx.checksum, c)
         /\ q.st = [r.st EXCEPT !.parse_state = HeaderNext(r)]
<1> DEFINE s == HeaderNext(r)
           g == goto(r, s)
           y == HeaderSysid(r, c)
           n == HeaderMsgid(r, c)
           stored == CASE r.st.parse_state = "GOT_SEQ" -> [g EXCEPT !.rx.sysid = y]
                       [] r.st.parse_state \in {"GOT_COMPID", "GOT_MSGID1", "GOT_MSGID2"} ->
                             [g EXCEPT !.rx.msgid = n]
                       [] OTHER -> g
<1>1. s \in States
  BY StatesAre DEF Headers, HeaderNext, payloadState
<1>2. y \in Byte /\ n \in Nat
  <2>1. c \in Nat /\ r.rx.msgid \in Nat
    BY ReaderFields DEF Byte
  <2> QED BY <2>1, ReaderFields, SMTT(30) DEF HeaderSysid, HeaderMsgid
<1>3. /\ g \in Reader /\ g.rx = r.rx /\ g.received = r.received
      /\ g.st = [r.st EXCEPT !.parse_state = s]
  <2> HIDE DEF s
  <2> QED BY <1>1, Goto
<1>4. q = checksummed(stored, c)
  <2>1. frame_char(r, c) = got_header(r, c)
    BY DEF frame_char, Headers
  <2>2. g.rx.msgid = r.rx.msgid
    <3> HIDE DEF g
    <3> QED BY <1>3
  <2>3. CASE r.st.parse_state = "GOT_INCOMPAT_FLAGS"
    BY <2>1, <2>3 DEF got_header, HeaderNext
  <2>4. CASE r.st.parse_state = "GOT_COMPAT_FLAGS"
    BY <2>1, <2>4 DEF got_header, HeaderNext
  <2>5. CASE r.st.parse_state = "GOT_SEQ"
    BY <2>1, <2>5 DEF got_header, HeaderNext, HeaderSysid
  <2>6. CASE r.st.parse_state = "GOT_SYSID"
    BY <2>1, <2>6 DEF got_header, HeaderNext
  <2>7. CASE r.st.parse_state = "GOT_COMPID"
    BY <2>1, <2>7 DEF got_header, HeaderNext, HeaderMsgid
  <2>8. CASE r.st.parse_state = "GOT_MSGID1"
    <3>1. s = "GOT_MSGID2" /\ n = g.rx.msgid + 256 * c
      BY <2>2, <2>8 DEF HeaderNext, HeaderMsgid
    <3>2. stored = [g EXCEPT !.rx.msgid = n]
      BY <2>8
    <3>3. frame_char(r, c) = checksummed([g EXCEPT !.rx.msgid = @ + 256 * c], c)
      BY <2>1, <2>8, <3>1 DEF got_header
    <3> HIDE DEF g, s, n, stored
    <3>4. [g EXCEPT !.rx.msgid = @ + 256 * c] = [g EXCEPT !.rx.msgid = n]
      BY <1>3, <3>1 DEF Reader, Buffer
    <3> QED BY <3>2, <3>3, <3>4
  <2>9. CASE r.st.parse_state = "GOT_MSGID2"
    <3>1. s = payloadState(r) /\ n = g.rx.msgid + 65536 * c
      BY <2>2, <2>9 DEF HeaderNext, HeaderMsgid
    <3>2. stored = [g EXCEPT !.rx.msgid = n]
      BY <2>9
    <3>3. frame_char(r, c) = checksummed([g EXCEPT !.rx.msgid = @ + 65536 * c], c)
      BY <2>1, <2>9, <3>1 DEF got_header
    <3> HIDE DEF g, s, n, stored
    <3>4. [g EXCEPT !.rx.msgid = @ + 65536 * c] = [g EXCEPT !.rx.msgid = n]
      BY <1>3, <3>1 DEF Reader, Buffer
    <3> QED BY <3>2, <3>3, <3>4
  <2> QED BY <2>3, <2>4, <2>5, <2>6, <2>7, <2>8, <2>9 DEF Headers
<1> HIDE DEF s, g
<1>5. stored \in Reader /\ stored.st = g.st /\ stored.received = g.received
      /\ stored.rx.len = r.rx.len /\ stored.rx.incompat_flags = r.rx.incompat_flags
      /\ stored.rx.payload = r.rx.payload /\ stored.rx.checksum = r.rx.checksum
      /\ stored.rx.sysid = y /\ stored.rx.msgid = n
  <2>1. CASE r.st.parse_state = "GOT_SEQ"
    <3>1. stored = [g EXCEPT !.rx.sysid = y] /\ n = r.rx.msgid
      BY <2>1 DEF HeaderMsgid
    <3> HIDE DEF stored, y, n
    <3>2. stored \in Reader
      BY <1>2, <1>3, <3>1, SetSysid
    <3>3. stored.st = g.st /\ stored.received = g.received
          /\ stored.rx = [g.rx EXCEPT !.sysid = y]
      BY <1>3, <3>1 DEF Reader
    <3> QED BY <1>3, <3>1, <3>2, <3>3 DEF Reader, Buffer
  <2>2. CASE r.st.parse_state \in {"GOT_COMPID", "GOT_MSGID1", "GOT_MSGID2"}
    <3>1. stored = [g EXCEPT !.rx.msgid = n] /\ y = r.rx.sysid
      BY <2>2 DEF HeaderSysid
    <3> HIDE DEF stored, y, n
    <3>2. stored \in Reader
      BY <1>2, <1>3, <3>1, SetMsgid
    <3>3. stored.st = g.st /\ stored.received = g.received
          /\ stored.rx = [g.rx EXCEPT !.msgid = n]
      BY <1>3, <3>1 DEF Reader
    <3> QED BY <1>3, <3>1, <3>2, <3>3 DEF Reader, Buffer
  <2>3. CASE r.st.parse_state \notin {"GOT_SEQ", "GOT_COMPID", "GOT_MSGID1", "GOT_MSGID2"}
    <3>1. stored = g /\ y = r.rx.sysid /\ n = r.rx.msgid
      BY <2>3 DEF HeaderSysid, HeaderMsgid
    <3> HIDE DEF stored, y, n
    <3> QED BY <1>3, <3>1
  <2> QED BY <2>1, <2>2, <2>3
<1> HIDE DEF stored, y, n
<1>6. /\ checksummed(stored, c) \in Reader
      /\ checksummed(stored, c).received = stored.received
      /\ checksummed(stored, c).st = stored.st
      /\ checksummed(stored, c).rx =
            [stored.rx EXCEPT !.checksum = crc_accumulate(stored.rx.checksum, c)]
  BY <1>5, Checksummed
<1>7. crc_accumulate(stored.rx.checksum, c) = crc_accumulate(r.rx.checksum, c)
  BY <1>5
<1>8. /\ q.rx.len = stored.rx.len /\ q.rx.incompat_flags = stored.rx.incompat_flags
      /\ q.rx.payload = stored.rx.payload /\ q.rx.sysid = stored.rx.sysid
      /\ q.rx.msgid = stored.rx.msgid
      /\ q.rx.checksum = crc_accumulate(stored.rx.checksum, c)
  BY <1>4, <1>5, <1>6 DEF Reader, Buffer
<1> QED BY <1>3, <1>4, <1>5, <1>6, <1>7, <1>8 DEF s, y, n

LEMMA WrittenIs ==
  ASSUME NEW p \in Seq(Byte), NEW k \in Nat, k =< Len(p), NEW c \in Byte
  PROVE  /\ written(p, k, c) \in Seq(Byte)
         /\ k + 1 =< Len(written(p, k, c))
         /\ written(p, k, c)[k + 1] = c
         /\ \A i \in 1 .. k : written(p, k, c)[i] = p[i]
<1>1. CASE k < Len(p)
  <2> DEFINE w == [p EXCEPT ![k + 1] = c]
  <2>1. w \in Seq(Byte) /\ Len(w) = Len(p) /\ k + 1 \in 1 .. Len(p)
    BY <1>1, ExceptSeq
  <2>2. w[k + 1] = c /\ \A i \in 1 .. k : w[i] = p[i]
    BY <1>1
  <2>3. written(p, k, c) = w
    BY <1>1 DEF written
  <2> HIDE DEF w
  <2> QED BY <1>1, <2>1, <2>2, <2>3
<1>2. CASE k = Len(p)
  <2> DEFINE w == Append(p, c)
  <2>1. w \in Seq(Byte) /\ Len(w) = k + 1 /\ w[k + 1] = c
        /\ \A i \in 1 .. k : w[i] = p[i]
    BY <1>2
  <2>2. written(p, k, c) = w
    BY <1>2 DEF written
  <2> HIDE DEF w
  <2> QED BY <2>1, <2>2
<1> QED BY <1>1, <1>2

LEMMA ZeroFilledIs ==
  ASSUME NEW p \in Seq(Byte), NEW k \in Nat, k =< Len(p), NEW n \in Nat
  PROVE  /\ zeroFilled(p, k, n) \in Seq(Byte)
         /\ n =< Len(zeroFilled(p, k, n)) /\ Len(p) =< Len(zeroFilled(p, k, n))
         /\ \A i \in 1 .. k : zeroFilled(p, k, n)[i] = p[i]
<1> DEFINE m == IF Len(p) > n THEN Len(p) ELSE n
           z == zeroFilled(p, k, n)
<1>1. m \in Nat /\ n =< m /\ Len(p) =< m
  OBVIOUS
<1>2. z = [i \in 1 .. m |-> IF i > k /\ i =< n THEN 0 ELSE p[i]]
  BY DEF zeroFilled
<1>3. ASSUME NEW i \in 1 .. m PROVE z[i] \in Byte
  <2>1. CASE i > k /\ i =< n
    <3>1. 0 \in Byte
      BY DEF Byte
    <3> QED BY <1>2, <2>1, <3>1
  <2>2. CASE ~(i > k /\ i =< n)
    <3>1. i \in 1 .. Len(p)
      BY <2>2
    <3> QED BY <1>2, <2>2, <3>1
  <2> QED BY <2>1, <2>2
<1> HIDE DEF z, m
<1>4. z \in Seq(Byte) /\ Len(z) = m
  BY <1>1, <1>2, <1>3, IsASeq
<1>5. \A i \in 1 .. k : z[i] = p[i]
  BY <1>1, <1>2
<1> QED BY <1>1, <1>4, <1>5 DEF z

LEMMA ReadPayload ==
  ASSUME NEW r \in Reader, r.st.parse_state = "GOT_MSGID3", NEW c \in Byte,
         r.st.packet_idx =< Len(r.rx.payload),
         NEW q, q = frame_char(r, c)
  PROVE  /\ q \in Reader /\ q.received = r.received
         /\ q.rx = [r.rx EXCEPT !.payload = written(r.rx.payload, r.st.packet_idx, c),
                                !.checksum = crc_accumulate(r.rx.checksum, c)]
         /\ q.st = [r.st EXCEPT
                      !.parse_state = IF r.st.packet_idx + 1 = r.rx.len THEN "GOT_PAYLOAD"
                                                                        ELSE "GOT_MSGID3",
                      !.packet_idx = r.st.packet_idx + 1]
<1> DEFINE s == IF r.st.packet_idx + 1 = r.rx.len THEN "GOT_PAYLOAD" ELSE "GOT_MSGID3"
           g == goto(r, s)
           p == written(r.rx.payload, r.st.packet_idx, c)
           k == r.st.packet_idx + 1
           i == [g EXCEPT !.rx.payload = p, !.st.packet_idx = k]
<1>1. s \in States /\ p \in Seq(Byte) /\ k \in Nat
  <2>1. s \in States
    BY StatesAre
  <2>2. r.rx.payload \in Seq(Byte) /\ r.st.packet_idx \in Nat
    BY ReaderFields
  <2>3. p \in Seq(Byte)
    BY <2>2, WrittenIs
  <2>4. k \in Nat
    BY <2>2
  <2> QED BY <2>1, <2>3, <2>4
<1>2. /\ g \in Reader /\ g.rx = r.rx /\ g.received = r.received
      /\ g.st = [r.st EXCEPT !.parse_state = s]
  <2> HIDE DEF s
  <2> QED BY <1>1, Goto, SMTT(30)
<1>3. q = checksummed(i, c)
  <2>1. frame_char(r, c) = got_payload_byte(r, c)
    BY DEF frame_char
  <2>2. got_payload_byte(r, c) =
          checksummed([g EXCEPT !.rx.payload = written(@, r.st.packet_idx, c),
                                !.st.packet_idx = @ + 1], c)
    BY DEF got_payload_byte
  <2>3. p = written(g.rx.payload, r.st.packet_idx, c) /\ k = g.st.packet_idx + 1
    <3> HIDE DEF g
    <3> QED BY <1>2 DEF Reader, Status
  <2>4. [g EXCEPT !.rx.payload = written(@, r.st.packet_idx, c),
                  !.st.packet_idx = @ + 1] = i
    <3> HIDE DEF g, p, k
    <3> QED BY <1>2, <2>3 DEF Reader, Buffer, Status
  <2> QED BY <2>1, <2>2, <2>4
<1> HIDE DEF s, g, p, k
<1>4. i \in Reader
  BY <1>1, <1>2, SetByte
<1>5. /\ i.received = g.received
      /\ i.rx = [g.rx EXCEPT !.payload = p]
      /\ i.st = [g.st EXCEPT !.packet_idx = k]
  BY <1>2 DEF Reader
<1> HIDE DEF i
<1>6. /\ checksummed(i, c) \in Reader /\ checksummed(i, c).received = i.received
      /\ checksummed(i, c).st = i.st
      /\ checksummed(i, c).rx = [i.rx EXCEPT !.checksum = crc_accumulate(i.rx.checksum, c)]
  BY <1>4, Checksummed
<1>7. i.rx.checksum = r.rx.checksum
  BY <1>2, <1>5 DEF Reader, Buffer
<1> QED BY <1>2, <1>3, <1>5, <1>6, <1>7 DEF s, p, k

LEMMA ReadUnlisted ==
  ASSUME NEW r \in Reader, r.st.parse_state = "GOT_PAYLOAD", NEW c \in Byte,
         mavlink_get_msg_entry(r.rx.msgid) = {},
         NEW q, q = frame_char(r, c)
  PROVE  /\ q \in Reader /\ q.received = r.received /\ q.rx = r.rx
         /\ q.st = [r.st EXCEPT !.parse_state = "GOT_BAD_CRC1"]
<1> DEFINE s == "GOT_BAD_CRC1"
<1>1. s \in States
  BY StatesAre DEF Checks
<1>2. q = goto(r, s)
  BY DEF frame_char, got_payload
<1> HIDE DEF s
<1> QED BY <1>1, <1>2, Goto DEF s

LEMMA ReadListed ==
  ASSUME NEW r \in Reader, r.st.parse_state = "GOT_PAYLOAD", NEW c \in Byte,
         r.st.packet_idx =< Len(r.rx.payload),
         NEW e, mavlink_get_msg_entry(r.rx.msgid) = {e},
         NEW x, x = crc_accumulate(r.rx.checksum, e.crc_extra),
         NEW q, q = frame_char(r, c)
  PROVE  /\ q \in Reader /\ q.received = r.received
         /\ q.rx.len = r.rx.len /\ q.rx.incompat_flags = r.rx.incompat_flags
         /\ q.rx.sysid = r.rx.sysid /\ q.rx.msgid = r.rx.msgid
         /\ q.rx.payload = zeroFilled(r.rx.payload, r.st.packet_idx, e.max_len)
         /\ q.rx.checksum = x
         /\ q.st.parse_state = IF c = x % 256 THEN "GOT_CRC1" ELSE "GOT_BAD_CRC1"
         /\ q.st.packet_idx = r.st.packet_idx
<1> DEFINE i == checksummed(r, e.crc_extra)
           s == IF c = x % 256 THEN "GOT_CRC1" ELSE "GOT_BAD_CRC1"
           g == goto(i, s)
           p == zeroFilled(r.rx.payload, r.st.packet_idx, e.max_len)
<1>1. e.crc_extra \in Byte /\ e.max_len \in Nat
  <2>1. e \in TableEntry
    BY ReaderFields, Lookup
  <2>2. e.crc_extra \in Byte /\ e.max_len \in 1 .. 255
    BY <2>1 DEF TableEntry
  <2>3. \A n \in 1 .. 255 : n \in Nat
    OBVIOUS
  <2> QED BY <2>2, <2>3
<1>2. s \in States /\ p \in Seq(Byte)
  BY <1>1, ReaderFields, StatesAre, ZeroFilledIs DEF Checks
<1>3. /\ i \in Reader /\ i.received = r.received /\ i.st = r.st
      /\ i.rx = [r.rx EXCEPT !.checksum = x]
  BY <1>1, Checksummed
<1>4. i.rx.checksum = x /\ i.rx.payload = r.rx.payload
  <2> HIDE DEF i
  <2> QED BY <1>3, SMTT(30) DEF Reader, Buffer
<1>5. frame_char(r, c) = [g EXCEPT !.rx.payload = zeroFilled(@, r.st.packet_idx, e.max_len)]
  <2>1. frame_char(r, c) = got_payload(r, c)
    BY DEF frame_char
  <2>2. (CHOOSE y \in {e} : TRUE) = e
    BY ONLY OnlyChoice
  <2>3. got_payload(r, c) =
           [goto(i, IF c = i.rx.checksum % 256 THEN "GOT_CRC1" ELSE "GOT_BAD_CRC1")
            EXCEPT !.rx.payload = zeroFilled(@, r.st.packet_idx, e.max_len)]
    BY <2>2, ZenonT(60) DEF got_payload
  <2> HIDE DEF i
  <2>4. (IF c = i.rx.checksum % 256 THEN "GOT_CRC1" ELSE "GOT_BAD_CRC1") = s
    BY <1>4
  <2> QED BY <2>1, <2>3, <2>4
<1> HIDE DEF i, s
<1>6. /\ g \in Reader /\ g.rx = i.rx /\ g.received = i.received
      /\ g.st = [i.st EXCEPT !.parse_state = s]
  BY <1>2, <1>3, Goto
<1> HIDE DEF g
<1>7. q = [g EXCEPT !.rx.payload = p]
  <2>1. p = zeroFilled(g.rx.payload, r.st.packet_idx, e.max_len)
    BY <1>4, <1>6
  <2> HIDE DEF p
  <2> QED BY <1>5, <1>6, <2>1 DEF Reader, Buffer
<1> HIDE DEF p
<1>8. q \in Reader
  BY <1>2, <1>6, <1>7, SetPayload
<1>9. q.received = g.received /\ q.st = g.st /\ q.rx = [g.rx EXCEPT !.payload = p]
  BY <1>6, <1>7 DEF Reader
<1>10. /\ q.rx.len = r.rx.len /\ q.rx.incompat_flags = r.rx.incompat_flags
       /\ q.rx.sysid = r.rx.sysid /\ q.rx.msgid = r.rx.msgid
       /\ q.rx.payload = p /\ q.rx.checksum = x
  BY <1>3, <1>6, <1>9 DEF Reader, Buffer
<1>11. q.st.parse_state = s /\ q.st.packet_idx = r.st.packet_idx
  BY <1>3, <1>6, <1>9 DEF Reader, Status
<1> QED BY <1>3, <1>6, <1>8, <1>9, <1>10, <1>11 DEF s, p

\* Whether the second check byte is right, too.
Good(r, c) == r.st.parse_state = "GOT_CRC1" /\ c = r.rx.checksum \div 256

LEMMA ReadCheckSigned ==
  ASSUME NEW r \in Reader, r.st.parse_state \in Checks, NEW c \in Byte,
         r.rx.incompat_flags = IFLAG_SIGNED,
         NEW q, q = frame_char(r, c)
  PROVE  /\ q \in Reader /\ q.received = IF Good(r, c) THEN r.received ELSE "BAD_CRC"
         /\ q.rx = r.rx
         /\ q.st = [r.st EXCEPT !.parse_state = IF Good(r, c) THEN "SIGNATURE_WAIT"
                                                ELSE "SIGNATURE_WAIT_BAD_CRC",
                                !.signature_wait = SIGNATURE_BLOCK_LEN]
<1> DEFINE s == IF Good(r, c) THEN "SIGNATURE_WAIT" ELSE "SIGNATURE_WAIT_BAD_CRC"
           g == goto(r, s)
           n == SIGNATURE_BLOCK_LEN
           w == [g EXCEPT !.st.signature_wait = n]
           v == IF Good(r, c) THEN w.received ELSE "BAD_CRC"
<1>1. s \in States /\ n \in Nat
  BY StatesAre DEF Signatures, SIGNATURE_BLOCK_LEN
<1>2. frame_char(r, c) = got_crc1(r, c)
  BY DEF frame_char, Checks
<1>3. q = [w EXCEPT !.received = v]
  BY <1>2 DEF got_crc1, Good
<1> HIDE DEF s, n
<1>4. /\ g \in Reader /\ g.rx = r.rx /\ g.received = r.received
      /\ g.st = [r.st EXCEPT !.parse_state = s]
  BY <1>1, Goto
<1> HIDE DEF g
<1>5. w \in Reader
  BY <1>1, <1>4, SetWait
<1>6. w.received = g.received /\ w.rx = g.rx /\ w.st = [g.st EXCEPT !.signature_wait = n]
  BY <1>4 DEF Reader
<1> HIDE DEF w
<1>7. v = (IF Good(r, c) THEN r.received ELSE "BAD_CRC") /\ v \in {w.received, "BAD_CRC"}
  BY <1>4, <1>6
<1> HIDE DEF v
<1>8. v \in {"INCOMPLETE", "OK", "BAD_CRC"}
  BY <1>5, <1>7 DEF Reader
<1>9. q \in Reader
  BY <1>3, <1>5, <1>8, SetReceived
<1>10. q.received = v /\ q.rx = w.rx /\ q.st = w.st
  BY <1>3, <1>5 DEF Reader
<1> QED BY <1>4, <1>6, <1>7, <1>9, <1>10 DEF s, n

LEMMA ReadCheckUnsigned ==
  ASSUME NEW r \in Reader, r.st.parse_state \in Checks, NEW c \in Byte,
         r.rx.incompat_flags # IFLAG_SIGNED,
         NEW q, q = frame_char(r, c)
  PROVE  /\ q \in Reader /\ q.received = IF Good(r, c) THEN "OK" ELSE "BAD_CRC"
         /\ q.rx = r.rx /\ q.st = [r.st EXCEPT !.parse_state = "IDLE"]
<1> DEFINE g == goto(r, "IDLE")
           v == IF Good(r, c) THEN "OK" ELSE "BAD_CRC"
<1>1. v \in {"INCOMPLETE", "OK", "BAD_CRC"}
  OBVIOUS
<1>2. frame_char(r, c) = got_crc1(r, c)
  BY DEF frame_char, Checks
<1>3. q = [g EXCEPT !.received = v]
  BY <1>2 DEF got_crc1, Good
<1> HIDE DEF v
<1>4. /\ g \in Reader /\ g.rx = r.rx /\ g.received = r.received
      /\ g.st = [r.st EXCEPT !.parse_state = "IDLE"]
  BY StatesAre, Goto
<1> HIDE DEF g
<1>5. q \in Reader
  <2>1. [g EXCEPT !.received = v] \in Reader
    BY <1>1, <1>4, SetReceived
  <2> QED BY <1>3, <2>1
<1>6. q.received = v /\ q.rx = g.rx /\ q.st = g.st
  BY <1>3, <1>4 DEF Reader
<1> QED BY <1>4, <1>5, <1>6 DEF v

LEMMA ReadSignature ==
  ASSUME NEW r \in Reader, r.st.parse_state \in Signatures, NEW c \in Byte,
         r.st.signature_wait > 1,
         NEW q, q = frame_char(r, c)
  PROVE  /\ q \in Reader /\ q.received = r.received /\ q.rx = r.rx
         /\ q.st = [r.st EXCEPT !.signature_wait = r.st.signature_wait - 1]
<1> DEFINE n == r.st.signature_wait - 1
<1>1. n \in Nat /\ n > 0
  BY ReaderFields
<1>2. frame_char(r, c) = signature_wait(r, c)
  BY DEF frame_char, Signatures
<1>3. q = [r EXCEPT !.st.signature_wait = n]
  BY <1>1, <1>2 DEF signature_wait
<1> HIDE DEF n
<1>4. q \in Reader
  BY <1>1, <1>3, SetWait
<1>5. q.received = r.received /\ q.rx = r.rx /\ q.st = [r.st EXCEPT !.signature_wait = n]
  BY <1>3 DEF Reader
<1> QED BY <1>4, <1>5 DEF n

LEMMA ReadLastSignature ==
  ASSUME NEW r \in Reader, r.st.parse_state \in Signatures, NEW c \in Byte,
         r.st.signature_wait = 1,
         NEW q, q = frame_char(r, c)
  PROVE  /\ q \in Reader /\ q.rx = r.rx
         /\ q.received = IF r.st.parse_state = "SIGNATURE_WAIT" THEN "OK" ELSE "BAD_CRC"
         /\ q.st.parse_state = "IDLE" /\ q.st.packet_idx = r.st.packet_idx
<1> DEFINE g == goto(r, "IDLE")
           n == 0
           v == IF r.st.parse_state = "SIGNATURE_WAIT" THEN "OK" ELSE "BAD_CRC"
<1>1. v \in {"INCOMPLETE", "OK", "BAD_CRC"} /\ n \in Nat
  OBVIOUS
<1>2. frame_char(r, c) = signature_wait(r, c)
  BY DEF frame_char, Signatures
<1>3. q = [g EXCEPT !.st.signature_wait = n, !.received = v]
  BY <1>2 DEF signature_wait
<1> HIDE DEF v, n
<1>4. /\ g \in Reader /\ g.rx = r.rx /\ g.received = r.received
      /\ g.st = [r.st EXCEPT !.parse_state = "IDLE"]
  BY StatesAre, Goto
<1> HIDE DEF g
<1>5. q \in Reader
  <2>1. [g EXCEPT !.st.signature_wait = n, !.received = v] \in Reader
    BY <1>1, <1>4, SetEnd, ZenonT(60)
  <2> QED BY ONLY <1>3, <2>1
<1>6. q.received = v /\ q.rx = g.rx /\ q.st = [g.st EXCEPT !.signature_wait = n]
  BY <1>3, <1>4 DEF Reader
<1>7. q.st.parse_state = "IDLE" /\ q.st.packet_idx = r.st.packet_idx
  BY <1>4, <1>6 DEF Reader, Status
<1> QED BY <1>4, <1>5, <1>6, <1>7 DEF v

-----------------------------------------------------------------------------
(***************************************************************************)
(* A decoder between two bytes.                                            *)
(***************************************************************************)
Decoded == {decode(rx) : rx \in Buffer}

AnyDecoder == [rx : Buffer, st : Status, out : Seq(Decoded), crc_errors : Nat]

\* The payload is written byte by byte, and only as far as the header says.
Decoders ==
    {d \in AnyDecoder :
        /\ d.st.packet_idx =< Len(d.rx.payload)
        /\ d.st.parse_state \in Headers \cup {"GOT_LENGTH"} => d.st.packet_idx = 0
        /\ d.st.parse_state = "GOT_MSGID3" => d.st.packet_idx < d.rx.len
        /\ d.st.parse_state \in Signatures => d.st.signature_wait > 0}

ReaderOf(d) == [rx |-> d.rx, st |-> d.st, received |-> "INCOMPLETE"]

LEMMA ReaderOfIs ==
  ASSUME NEW d \in AnyDecoder
  PROVE  /\ ReaderOf(d) \in Reader /\ ReaderOf(d).rx = d.rx /\ ReaderOf(d).st = d.st
         /\ ReaderOf(d).received = "INCOMPLETE"
  BY DEF ReaderOf, Reader, AnyDecoder

LEMMA DecoderFields ==
  ASSUME NEW d \in AnyDecoder
  PROVE  /\ d.rx \in Buffer /\ d.st \in Status /\ d.out \in Seq(Decoded)
         /\ d.crc_errors \in Nat
         /\ d.rx.len \in Byte /\ d.rx.incompat_flags \in Byte /\ d.rx.sysid \in Byte
         /\ d.rx.msgid \in Nat /\ d.rx.payload \in Seq(Byte)
         /\ d.rx.checksum \in CrcValue
         /\ d.st.parse_state \in States /\ d.st.packet_idx \in Nat
         /\ d.st.mavlink1 \in BOOLEAN /\ d.st.signature_wait \in Nat
  BY ReaderFields, ReaderOfIs DEF AnyDecoder

\* What a byte does to the decoder follows from what the parser makes of it.
LEMMA FedReads ==
  ASSUME NEW d \in AnyDecoder, NEW c,
         NEW q \in Reader, q = frame_char(ReaderOf(d), c),
         NEW e, e = fed(d, c)
  PROVE  /\ e \in AnyDecoder
         /\ e.rx = q.rx
         /\ e.st.parse_state = q.st.parse_state /\ e.st.packet_idx = q.st.packet_idx
         /\ e.st.mavlink1 = q.st.mavlink1 /\ e.st.signature_wait = q.st.signature_wait
         /\ q.received = "INCOMPLETE" => e.out = d.out /\ e.crc_errors = d.crc_errors
         /\ q.received = "OK" => /\ e.out = Append(d.out, decode(q.rx))
                                 /\ e.crc_errors = d.crc_errors
         /\ q.received = "BAD_CRC" => /\ e.out = d.out
                                      /\ e.crc_errors = d.crc_errors + 1
<1> DEFINE t == [q.st EXCEPT !.parse_error = 0]
           o == IF q.received = "OK" THEN Append(d.out, decode(q.rx)) ELSE d.out
           n == IF q.received = "BAD_CRC" THEN d.crc_errors + 1 ELSE d.crc_errors
<1>1. e = [rx |-> q.rx, st |-> t, out |-> o, crc_errors |-> n]
  BY DEF fed, ReaderOf
<1>2. q.rx \in Buffer /\ q.st \in Status
  BY ReaderFields
<1>3. t \in Status
  <2> DEFINE z == 0
  <2>1. z \in Nat
    OBVIOUS
  <2> HIDE DEF z
  <2>2. [q.st EXCEPT !.parse_error = z] \in Status
    BY <1>2, <2>1 DEF Status
  <2> QED BY <2>2 DEF z
<1>4. /\ t.parse_state = q.st.parse_state /\ t.packet_idx = q.st.packet_idx
      /\ t.mavlink1 = q.st.mavlink1 /\ t.signature_wait = q.st.signature_wait
  BY <1>2 DEF Status
<1>5. o \in Seq(Decoded)
  <2> DEFINE v == decode(q.rx)
  <2>1. v \in Decoded
    BY <1>2 DEF Decoded
  <2>2. d.out \in Seq(Decoded)
    BY DecoderFields
  <2> HIDE DEF v
  <2>3. Append(d.out, v) \in Seq(Decoded)
    BY <2>1, <2>2
  <2> QED BY <2>2, <2>3 DEF v
<1>6. n \in Nat
  BY DecoderFields
<1> HIDE DEF t, o, n
<1>7. e \in AnyDecoder
  BY <1>1, <1>2, <1>3, <1>5, <1>6 DEF AnyDecoder
<1> QED BY <1>1, <1>4, <1>7 DEF o, n

\* What the bytes of a frame leave alone.
Unchanged(d, e) == e.out = d.out /\ e.crc_errors = d.crc_errors

LEMMA FedSkipped ==
  ASSUME NEW d \in Decoders, d.st.parse_state = "IDLE",
         NEW c \in Byte, c \notin {MAVLINK_STX, MAVLINK_STX_MAVLINK1},
         NEW e, e = fed(d, c)
  PROVE  /\ e \in Decoders /\ Unchanged(d, e) /\ e.st.parse_state = "IDLE"
<1>1. d \in AnyDecoder /\ d.st.packet_idx =< Len(d.rx.payload)
  BY DEF Decoders
<1>2. ReaderOf(d) \in Reader /\ ReaderOf(d).st = d.st /\ ReaderOf(d).rx = d.rx
      /\ ReaderOf(d).received = "INCOMPLETE"
  BY <1>1, ReaderOfIs
<1>3. frame_char(ReaderOf(d), c) = ReaderOf(d)
  BY <1>2, ReadSkipped
<1>4. /\ e \in AnyDecoder /\ e.rx = d.rx /\ e.st.parse_state = "IDLE"
      /\ e.st.packet_idx = d.st.packet_idx /\ Unchanged(d, e)
  BY <1>1, <1>2, <1>3, FedReads DEF Unchanged
<1> QED BY <1>1, <1>4 DEF Decoders, Headers, Signatures

LEMMA FedStart ==
  ASSUME NEW d \in Decoders, d.st.parse_state = "IDLE",
         NEW c \in {MAVLINK_STX, MAVLINK_STX_MAVLINK1},
         NEW e, e = fed(d, c)
  PROVE  /\ e \in Decoders /\ Unchanged(d, e) /\ e.st.parse_state = "GOT_STX"
         /\ e.st.mavlink1 <=> c = MAVLINK_STX_MAVLINK1
         /\ e.rx.checksum = 65535
<1> DEFINE r == ReaderOf(d)
           q == frame_char(r, c)
<1>1. d \in AnyDecoder /\ d.st.packet_idx =< Len(d.rx.payload)
  BY DEF Decoders
<1>2. r \in Reader /\ r.st = d.st /\ r.rx = d.rx /\ r.received = "INCOMPLETE"
  BY <1>1, ReaderOfIs
<1>3. q = frame_char(ReaderOf(d), c)
  OBVIOUS
<1> HIDE DEF r
<1>4. /\ q \in Reader /\ q.received = r.received
      /\ q.rx.payload = r.rx.payload /\ q.rx.checksum = 65535
      /\ q.st.parse_state = "GOT_STX" /\ q.st.packet_idx = r.st.packet_idx
      /\ q.st.mavlink1 <=> c = MAVLINK_STX_MAVLINK1
  BY <1>2, ReadStart
<1> HIDE DEF q
<1>5. q \in Reader /\ q.received = "INCOMPLETE"
  BY <1>2, <1>4
<1>6. /\ e \in AnyDecoder /\ e.rx = q.rx
      /\ e.st.parse_state = q.st.parse_state /\ e.st.packet_idx = q.st.packet_idx
      /\ e.st.mavlink1 = q.st.mavlink1 /\ Unchanged(d, e)
  BY <1>1, <1>3, <1>5, FedReads DEF Unchanged
<1> QED BY <1>1, <1>2, <1>4, <1>6 DEF Decoders, Headers, Signatures

LEMMA FedLength ==
  ASSUME NEW d \in Decoders, d.st.parse_state = "GOT_STX", NEW c \in Byte,
         NEW e, e = fed(d, c)
  PROVE  /\ e \in Decoders /\ Unchanged(d, e)
         /\ e.st.parse_state = IF d.st.mavlink1 THEN "GOT_COMPAT_FLAGS" ELSE "GOT_LENGTH"
         /\ e.st.packet_idx = 0 /\ e.st.mavlink1 = d.st.mavlink1
         /\ e.rx.len = c
         /\ d.st.mavlink1 => e.rx.incompat_flags = 0
         /\ e.rx.checksum = crc_accumulate(d.rx.checksum, c)
<1> DEFINE r == ReaderOf(d)
           q == frame_char(r, c)
           f == IF r.st.mavlink1 THEN 0 ELSE r.rx.incompat_flags
           s == IF r.st.mavlink1 THEN "GOT_COMPAT_FLAGS" ELSE "GOT_LENGTH"
           x == crc_accumulate(r.rx.checksum, c)
<1>1. d \in AnyDecoder
  BY DEF Decoders
<1>2. r \in Reader /\ r.st = d.st /\ r.rx = d.rx /\ r.received = "INCOMPLETE"
  BY <1>1, ReaderOfIs
<1>3. q = frame_char(ReaderOf(d), c)
  BY SMTT(30)
<1> HIDE DEF r
<1>4. /\ q \in Reader /\ q.received = r.received
      /\ q.rx = [r.rx EXCEPT !.len = c, !.incompat_flags = f, !.checksum = x]
      /\ q.st = [r.st EXCEPT !.parse_state = s, !.packet_idx = 0]
  BY <1>2, ReadLength, ZenonT(60)
<1> HIDE DEF q, f, s, x
<1>5. r.rx \in Buffer /\ r.st \in Status
  BY <1>2, ReaderFields
<1>6. /\ q.rx.payload = r.rx.payload /\ q.rx.checksum = x /\ q.rx.len = c
      /\ q.rx.incompat_flags = f
  BY <1>4, <1>5 DEF Buffer
<1>7. /\ q.st.parse_state = s /\ q.st.packet_idx = 0
      /\ q.st.mavlink1 = r.st.mavlink1
  BY <1>4, <1>5 DEF Status
<1>8. q \in Reader /\ q.received = "INCOMPLETE"
  BY <1>2, <1>4
<1>9. /\ e \in AnyDecoder /\ e.rx = q.rx
      /\ e.st.parse_state = q.st.parse_state /\ e.st.packet_idx = q.st.packet_idx
      /\ e.st.mavlink1 = q.st.mavlink1 /\ Unchanged(d, e)
  BY <1>1, <1>3, <1>8, FedReads DEF Unchanged
<1>10. 0 =< Len(r.rx.payload)
  BY <1>2, ReaderFields
<1>11. e \in Decoders
  BY <1>6, <1>7, <1>9, <1>10 DEF Decoders, Headers, Signatures, s
<1> QED BY <1>2, <1>6, <1>7, <1>9, <1>11 DEF f, s, x

LEMMA FedUnknownFlags ==
  ASSUME NEW d \in Decoders, d.st.parse_state = "GOT_LENGTH",
         NEW c \in Byte, c > IFLAG_SIGNED,
         NEW e, e = fed(d, c)
  PROVE  e \in Decoders /\ Unchanged(d, e) /\ e.st.parse_state = "IDLE"
<1> DEFINE r == ReaderOf(d)
           q == frame_char(r, c)
<1>1. d \in AnyDecoder /\ d.st.packet_idx =< Len(d.rx.payload)
  BY DEF Decoders
<1>2. r \in Reader /\ r.st = d.st /\ r.rx = d.rx /\ r.received = "INCOMPLETE"
  BY <1>1, ReaderOfIs
<1>3. q = frame_char(ReaderOf(d), c)
  OBVIOUS
<1> HIDE DEF r
<1>4. /\ q \in Reader /\ q.received = r.received
      /\ q.rx = [r.rx EXCEPT !.incompat_flags = c]
      /\ q.st = [r.st EXCEPT !.parse_state = "IDLE",
                             !.parse_error = r.st.parse_error + 1]
  BY <1>2, ReadUnknownFlags, ZenonT(60)
<1> HIDE DEF q
<1>5. r.rx \in Buffer /\ r.st \in Status
  BY <1>2, ReaderFields
<1>6. q.rx.payload = r.rx.payload
  BY <1>4, <1>5 DEF Buffer
<1>7. q.st.parse_state = "IDLE" /\ q.st.packet_idx = r.st.packet_idx
  BY <1>4, <1>5 DEF Status
<1>8. q \in Reader /\ q.received = "INCOMPLETE"
  BY <1>2, <1>4
<1>9. /\ e \in AnyDecoder /\ e.rx = q.rx
      /\ e.st.parse_state = q.st.parse_state /\ e.st.packet_idx = q.st.packet_idx
      /\ e.st.mavlink1 = q.st.mavlink1 /\ e.st.signature_wait = q.st.signature_wait
      /\ Unchanged(d, e)
  BY <1>1, <1>3, <1>8, FedReads DEF Unchanged
<1>10. e \in Decoders
  BY <1>1, <1>2, <1>6, <1>7, <1>9 DEF Decoders, Headers, Signatures
<1> QED BY <1>7, <1>9, <1>10

LEMMA FedFlags ==
  ASSUME NEW d \in Decoders, d.st.parse_state = "GOT_LENGTH",
         NEW c \in Byte, ~(c > IFLAG_SIGNED),
         NEW e, e = fed(d, c)
  PROVE  /\ e \in Decoders /\ Unchanged(d, e) /\ e.st.parse_state = "GOT_INCOMPAT_FLAGS"
         /\ e.st.packet_idx = 0 /\ e.st.mavlink1 = d.st.mavlink1
         /\ e.rx.len = d.rx.len /\ e.rx.incompat_flags = c
         /\ e.rx.checksum = crc_accumulate(d.rx.checksum, c)
<1> DEFINE r == ReaderOf(d)
           q == frame_char(r, c)
           x == crc_accumulate(r.rx.checksum, c)
<1>1. d \in AnyDecoder /\ d.st.packet_idx =< Len(d.rx.payload)
  BY DEF Decoders
<1>2. r \in Reader /\ r.st = d.st /\ r.rx = d.rx /\ r.received = "INCOMPLETE"
  BY <1>1, ReaderOfIs
<1>3. q = frame_char(ReaderOf(d), c)
  OBVIOUS
<1> HIDE DEF r
<1>4. /\ q \in Reader /\ q.received = r.received
      /\ q.rx = [r.rx EXCEPT !.incompat_flags = c, !.checksum = x]
      /\ q.st = [r.st EXCEPT !.parse_state = "GOT_INCOMPAT_FLAGS"]
  BY <1>2, ReadFlags, ZenonT(60)
<1> HIDE DEF q, x
<1>5. r.rx \in Buffer /\ r.st \in Status
  BY <1>2, ReaderFields
<1>6. /\ q.rx.payload = r.rx.payload /\ q.rx.len = r.rx.len /\ q.rx.incompat_flags = c
      /\ q.rx.checksum = x
  BY <1>4, <1>5 DEF Buffer
<1>7. /\ q.st.parse_state = "GOT_INCOMPAT_FLAGS" /\ q.st.packet_idx = r.st.packet_idx
      /\ q.st.mavlink1 = r.st.mavlink1
  BY <1>4, <1>5 DEF Status
<1>8. d.st.packet_idx = 0
  BY DEF Decoders
<1>9. q \in Reader /\ q.received = "INCOMPLETE"
  BY <1>2, <1>4
<1>10. /\ e \in AnyDecoder /\ e.rx = q.rx
       /\ e.st.parse_state = q.st.parse_state /\ e.st.packet_idx = q.st.packet_idx
       /\ e.st.mavlink1 = q.st.mavlink1 /\ e.st.signature_wait = q.st.signature_wait
       /\ Unchanged(d, e)
  BY <1>1, <1>3, <1>9, FedReads DEF Unchanged
<1>11. e \in Decoders
  BY <1>1, <1>2, <1>6, <1>7, <1>10, <1>8 DEF Decoders, Headers, Signatures
<1> QED BY <1>2, <1>6, <1>7, <1>10, <1>11, <1>8 DEF x

LEMMA FedHeader ==
  ASSUME NEW d \in Decoders, d.st.parse_state \in Headers, NEW c \in Byte,
         NEW e, e = fed(d, c)
  PROVE  /\ e \in Decoders /\ Unchanged(d, e) /\ e.st.parse_state = HeaderNext(d)
         /\ e.st.packet_idx = 0 /\ e.st.mavlink1 = d.st.mavlink1
         /\ e.rx.len = d.rx.len /\ e.rx.incompat_flags = d.rx.incompat_flags
         /\ e.rx.sysid = HeaderSysid(d, c) /\ e.rx.msgid = HeaderMsgid(d, c)
         /\ e.rx.checksum = crc_accumulate(d.rx.checksum, c)
<1> DEFINE r == ReaderOf(d)
           q == frame_char(r, c)
           s == HeaderNext(r)
<1>1. d \in AnyDecoder /\ d.st.packet_idx =< Len(d.rx.payload)
  BY DEF Decoders
<1>2. r \in Reader /\ r.st = d.st /\ r.rx = d.rx /\ r.received = "INCOMPLETE"
  BY <1>1, ReaderOfIs
<1>3. q = frame_char(ReaderOf(d), c)
  OBVIOUS
<1> HIDE DEF r
<1>4. /\ q \in Reader /\ q.received = r.received
      /\ q.rx.len = r.rx.len /\ q.rx.incompat_flags = r.rx.incompat_flags
      /\ q.rx.payload = r.rx.payload
      /\ q.rx.sysid = HeaderSysid(r, c)
      /\ q.rx.msgid = HeaderMsgid(r, c)
      /\ q.rx.checksum = crc_accumulate(r.rx.checksum, c)
      /\ q.st = [r.st EXCEPT !.parse_state = s]
  BY <1>2, ReadHeader
<1> HIDE DEF q, s
<1>5. r.rx \in Buffer /\ r.st \in Status
  BY <1>2, ReaderFields
<1>6. /\ q.st.parse_state = s /\ q.st.packet_idx = r.st.packet_idx
      /\ q.st.mavlink1 = r.st.mavlink1
  BY <1>4, <1>5 DEF Status
<1>7. d.st.packet_idx = 0 /\ d.rx.len \in Nat
  <2>1. d.rx.len \in Byte
    BY <1>1, DecoderFields
  <2>2. d.rx.len \in Nat
    BY <2>1 DEF Byte
  <2>3. d.st.packet_idx = 0
    BY DEF Decoders
  <2> QED BY <2>2, <2>3
<1>8. /\ s = HeaderNext(d)
      /\ HeaderSysid(r, c) = HeaderSysid(d, c) /\ HeaderMsgid(r, c) = HeaderMsgid(d, c)
  BY <1>2 DEF s, HeaderNext, HeaderSysid, HeaderMsgid, payloadState
<1>9. s \in Headers \/ s = "GOT_PAYLOAD" \/ (s = "GOT_MSGID3" /\ d.rx.len > 0)
  BY <1>8 DEF HeaderNext, payloadState, Headers
<1>10. q \in Reader /\ q.received = "INCOMPLETE"
  BY <1>2, <1>4
<1>11. /\ e \in AnyDecoder /\ e.rx = q.rx
       /\ e.st.parse_state = q.st.parse_state /\ e.st.packet_idx = q.st.packet_idx
       /\ e.st.mavlink1 = q.st.mavlink1 /\ e.st.signature_wait = q.st.signature_wait
       /\ Unchanged(d, e)
  BY <1>1, <1>3, <1>10, FedReads DEF Unchanged
<1>12. e \in Decoders
  BY <1>1, <1>2, <1>4, <1>6, <1>11, <1>7, <1>9 DEF Decoders, Headers, Signatures
<1> QED BY <1>2, <1>4, <1>6, <1>11, <1>12, <1>7, <1>8

LEMMA FedPayload ==
  ASSUME NEW d \in Decoders, d.st.parse_state = "GOT_MSGID3", NEW c \in Byte,
         NEW e, e = fed(d, c)
  PROVE  /\ e \in Decoders /\ Unchanged(d, e)
         /\ e.st.parse_state = IF d.st.packet_idx + 1 = d.rx.len THEN "GOT_PAYLOAD"
                                                                 ELSE "GOT_MSGID3"
         /\ e.st.packet_idx = d.st.packet_idx + 1
         /\ e.rx.len = d.rx.len /\ e.rx.incompat_flags = d.rx.incompat_flags
         /\ e.rx.sysid = d.rx.sysid /\ e.rx.msgid = d.rx.msgid
         /\ e.rx.payload = written(d.rx.payload, d.st.packet_idx, c)
         /\ e.rx.checksum = crc_accumulate(d.rx.checksum, c)
<1> DEFINE r == ReaderOf(d)
           q == frame_char(r, c)
           p == written(r.rx.payload, r.st.packet_idx, c)
           x == crc_accumulate(r.rx.checksum, c)
           k == r.st.packet_idx + 1
           s == IF r.st.packet_idx + 1 = r.rx.len THEN "GOT_PAYLOAD" ELSE "GOT_MSGID3"
<1>1. d \in AnyDecoder /\ d.st.packet_idx =< Len(d.rx.payload)
  BY DEF Decoders
<1>2. r \in Reader /\ r.st = d.st /\ r.rx = d.rx /\ r.received = "INCOMPLETE"
  BY <1>1, ReaderOfIs
<1>3. q = frame_char(ReaderOf(d), c)
  BY SMTT(30)
<1> HIDE DEF r
<1>4. /\ q \in Reader /\ q.received = r.received
      /\ q.rx = [r.rx EXCEPT !.payload = p, !.checksum = x]
      /\ q.st = [r.st EXCEPT !.parse_state = s, !.packet_idx = k]
  BY <1>2, <1>1, ReadPayload, ZenonT(60)
<1> HIDE DEF q, p, x, k, s
<1>5. r.rx \in Buffer /\ r.st \in Status
  BY <1>2, ReaderFields
<1>6. /\ q.rx.len = r.rx.len /\ q.rx.incompat_flags = r.rx.incompat_flags
      /\ q.rx.sysid = r.rx.sysid /\ q.rx.msgid = r.rx.msgid
      /\ q.rx.payload = p /\ q.rx.checksum = x
  BY <1>4, <1>5 DEF Buffer
<1>7. q.st.parse_state = s /\ q.st.packet_idx = k
  BY <1>4, <1>5 DEF Status
<1>8. /\ d.st.packet_idx \in Nat /\ d.rx.len \in Nat /\ d.st.packet_idx < d.rx.len
  <2>1. d.rx.len \in Byte /\ d.st.packet_idx \in Nat
    BY <1>1, DecoderFields
  <2>2. d.rx.len \in Nat
    BY <2>1 DEF Byte
  <2>3. d.st.packet_idx < d.rx.len
    BY DEF Decoders
  <2> QED BY <2>1, <2>2, <2>3
<1>9. k = d.st.packet_idx + 1 /\ k =< Len(p)
  <2>1. r.rx.payload \in Seq(Byte) /\ r.st.packet_idx \in Nat
        /\ r.st.packet_idx =< Len(r.rx.payload)
    BY <1>1, <1>2, ReaderFields
  <2> QED BY <1>2, <2>1, WrittenIs DEF k, p
<1>10. s = IF k = d.rx.len THEN "GOT_PAYLOAD" ELSE "GOT_MSGID3"
  BY <1>2 DEF s, k
<1>11. s = "GOT_MSGID3" => k < d.rx.len
  BY <1>8, <1>9, <1>10
<1>12. s \in {"GOT_PAYLOAD", "GOT_MSGID3"}
  BY <1>10
<1>13. q \in Reader /\ q.received = "INCOMPLETE"
  BY <1>2, <1>4
<1>14. /\ e \in AnyDecoder /\ e.rx = q.rx
       /\ e.st.parse_state = q.st.parse_state /\ e.st.packet_idx = q.st.packet_idx
       /\ e.st.mavlink1 = q.st.mavlink1 /\ e.st.signature_wait = q.st.signature_wait
       /\ Unchanged(d, e)
  BY <1>1, <1>3, <1>13, FedReads DEF Unchanged
<1>15. e \in Decoders
  BY <1>2, <1>6, <1>7, <1>14, <1>9, <1>11, <1>12 DEF Decoders, Headers, Signatures
<1> QED BY <1>2, <1>6, <1>7, <1>14, <1>15 DEF p, x, k, s

LEMMA FedUnlisted ==
  ASSUME NEW d \in Decoders, d.st.parse_state = "GOT_PAYLOAD", NEW c \in Byte,
         mavlink_get_msg_entry(d.rx.msgid) = {},
         NEW e, e = fed(d, c)
  PROVE  /\ e \in Decoders /\ Unchanged(d, e) /\ e.st.parse_state = "GOT_BAD_CRC1"
         /\ e.rx = d.rx
<1> DEFINE r == ReaderOf(d)
           q == frame_char(r, c)
<1>1. d \in AnyDecoder /\ d.st.packet_idx =< Len(d.rx.payload)
  BY DEF Decoders
<1>2. r \in Reader /\ r.st = d.st /\ r.rx = d.rx /\ r.received = "INCOMPLETE"
  BY <1>1, ReaderOfIs
<1>3. q = frame_char(ReaderOf(d), c)
  OBVIOUS
<1> HIDE DEF r
<1>4. /\ q \in Reader /\ q.received = r.received /\ q.rx = r.rx
      /\ q.st = [r.st EXCEPT !.parse_state = "GOT_BAD_CRC1"]
  BY <1>2, ReadUnlisted
<1> HIDE DEF q
<1>5. r.rx \in Buffer /\ r.st \in Status
  BY <1>2, ReaderFields
<1>6. q.st.parse_state = "GOT_BAD_CRC1" /\ q.st.packet_idx = r.st.packet_idx
  BY <1>4, <1>5 DEF Status
<1>7. q \in Reader /\ q.received = "INCOMPLETE"
  BY <1>2, <1>4
<1>8. /\ e \in AnyDecoder /\ e.rx = q.rx
      /\ e.st.parse_state = q.st.parse_state /\ e.st.packet_idx = q.st.packet_idx
      /\ e.st.mavlink1 = q.st.mavlink1 /\ e.st.signature_wait = q.st.signature_wait
      /\ Unchanged(d, e)
  BY <1>1, <1>3, <1>7, FedReads DEF Unchanged
<1>9. e \in Decoders
  BY <1>1, <1>2, <1>4, <1>6, <1>8 DEF Decoders, Headers, Signatures
<1> QED BY <1>2, <1>4, <1>6, <1>8, <1>9

LEMMA FedListed ==
  ASSUME NEW d \in Decoders, d.st.parse_state = "GOT_PAYLOAD", NEW c \in Byte,
         NEW y, mavlink_get_msg_entry(d.rx.msgid) = {y},
         NEW x, x = crc_accumulate(d.rx.checksum, y.crc_extra),
         NEW e, e = fed(d, c)
  PROVE  /\ e \in Decoders /\ Unchanged(d, e)
         /\ e.st.parse_state = IF c = x % 256 THEN "GOT_CRC1" ELSE "GOT_BAD_CRC1"
         /\ e.rx.len = d.rx.len /\ e.rx.incompat_flags = d.rx.incompat_flags
         /\ e.rx.sysid = d.rx.sysid /\ e.rx.msgid = d.rx.msgid
         /\ e.rx.payload = zeroFilled(d.rx.payload, d.st.packet_idx, y.max_len)
         /\ e.rx.checksum = x
<1> DEFINE r == ReaderOf(d)
           q == frame_char(r, c)
           p == zeroFilled(r.rx.payload, r.st.packet_idx, y.max_len)
           s == IF c = x % 256 THEN "GOT_CRC1" ELSE "GOT_BAD_CRC1"
<1>1. d \in AnyDecoder /\ d.st.packet_idx =< Len(d.rx.payload)
  BY DEF Decoders
<1>2. r \in Reader /\ r.st = d.st /\ r.rx = d.rx /\ r.received = "INCOMPLETE"
  BY <1>1, ReaderOfIs
<1>3. q = frame_char(ReaderOf(d), c)
  OBVIOUS
<1> HIDE DEF r
<1>4. /\ q \in Reader /\ q.received = r.received
      /\ q.rx.len = r.rx.len /\ q.rx.incompat_flags = r.rx.incompat_flags
      /\ q.rx.sysid = r.rx.sysid /\ q.rx.msgid = r.rx.msgid
      /\ q.rx.payload = p /\ q.rx.checksum = x
      /\ q.st.parse_state = s /\ q.st.packet_idx = r.st.packet_idx
  <2>1. /\ r.st.parse_state = "GOT_PAYLOAD" /\ r.st.packet_idx =< Len(r.rx.payload)
        /\ mavlink_get_msg_entry(r.rx.msgid) = {y}
        /\ x = crc_accumulate(r.rx.checksum, y.crc_extra)
    BY <1>1, <1>2
  <2> QED BY <1>2, <2>1, ReadListed, SMTT(30)
<1> HIDE DEF q, p, s
<1>5. r.rx \in Buffer /\ r.st \in Status
  BY <1>2, ReaderFields
<1>6. /\ q.rx.len = r.rx.len /\ q.rx.incompat_flags = r.rx.incompat_flags
      /\ q.rx.sysid = r.rx.sysid /\ q.rx.msgid = r.rx.msgid
      /\ q.rx.payload = p /\ q.rx.checksum = x
  BY <1>4, <1>5 DEF Buffer
<1>7. q.st.parse_state = s /\ q.st.packet_idx = r.st.packet_idx
  BY <1>4, <1>5 DEF Status
<1>8. d.st.packet_idx =< Len(p)
  <2>1. y \in TableEntry
    BY <1>1, DecoderFields, Lookup
  <2>2. y.max_len \in 1 .. 255
    BY <2>1 DEF TableEntry
  <2>3. r.rx.payload \in Seq(Byte) /\ r.st.packet_idx \in Nat /\ y.max_len \in Nat
    <3>1. \A n \in 1 .. 255 : n \in Nat
      OBVIOUS
    <3> QED BY <1>2, <2>2, <3>1, ReaderFields
  <2>4. Len(r.rx.payload) =< Len(p) /\ p \in Seq(Byte)
    BY <1>1, <1>2, <2>3, ZeroFilledIs DEF p
  <2> QED BY <1>1, <1>2, <2>3, <2>4
<1>9. s \in {"GOT_CRC1", "GOT_BAD_CRC1"}
  BY DEF s
<1>10. q \in Reader /\ q.received = "INCOMPLETE"
  BY <1>2, <1>4
<1>11. /\ e \in AnyDecoder /\ e.rx = q.rx
       /\ e.st.parse_state = q.st.parse_state /\ e.st.packet_idx = q.st.packet_idx
       /\ e.st.mavlink1 = q.st.mavlink1 /\ e.st.signature_wait = q.st.signature_wait
       /\ Unchanged(d, e)
  BY <1>1, <1>3, <1>10, FedReads DEF Unchanged
<1>12. e \in Decoders
  BY <1>2, <1>6, <1>7, <1>11, <1>8, <1>9 DEF Decoders, Headers, Signatures
<1> QED BY <1>2, <1>6, <1>7, <1>11, <1>12 DEF p, s

LEMMA FedCheckSigned ==
  ASSUME NEW d \in Decoders, d.st.parse_state \in Checks, NEW c \in Byte,
         d.rx.incompat_flags = IFLAG_SIGNED,
         NEW e, e = fed(d, c)
  PROVE  /\ e \in Decoders /\ e.out = d.out /\ e.rx = d.rx
         /\ e.crc_errors = IF Good(d, c) THEN d.crc_errors ELSE d.crc_errors + 1
         /\ e.st.parse_state = IF Good(d, c) THEN "SIGNATURE_WAIT"
                                            ELSE "SIGNATURE_WAIT_BAD_CRC"
         /\ e.st.signature_wait = SIGNATURE_BLOCK_LEN
<1> DEFINE r == ReaderOf(d)
           q == frame_char(r, c)
           s == IF Good(r, c) THEN "SIGNATURE_WAIT" ELSE "SIGNATURE_WAIT_BAD_CRC"
           n == SIGNATURE_BLOCK_LEN
<1>1. d \in AnyDecoder /\ d.st.packet_idx =< Len(d.rx.payload)
  BY DEF Decoders
<1>2. r \in Reader /\ r.st = d.st /\ r.rx = d.rx /\ r.received = "INCOMPLETE"
  BY <1>1, ReaderOfIs
<1>3. q = frame_char(ReaderOf(d), c)
  OBVIOUS
<1> HIDE DEF r
<1>4. /\ q \in Reader /\ q.received = IF Good(r, c) THEN r.received ELSE "BAD_CRC"
      /\ q.rx = r.rx /\ q.st = [r.st EXCEPT !.parse_state = s, !.signature_wait = n]
  BY <1>2, ReadCheckSigned, ZenonT(60)
<1> HIDE DEF q, s, n
<1>5. r.rx \in Buffer /\ r.st \in Status
  BY <1>2, ReaderFields
<1>6. /\ q.st.parse_state = s /\ q.st.packet_idx = r.st.packet_idx
      /\ q.st.signature_wait = n
  BY <1>4, <1>5 DEF Status
<1>7. n > 0 /\ s \in Signatures
  BY DEF n, s, Signatures, SIGNATURE_BLOCK_LEN
<1>8. Good(r, c) <=> Good(d, c)
  BY <1>2 DEF Good
<1>9. q \in Reader /\ q.received = IF Good(d, c) THEN "INCOMPLETE" ELSE "BAD_CRC"
  BY <1>2, <1>4, <1>8
<1>10. /\ e \in AnyDecoder /\ e.rx = q.rx
       /\ e.st.parse_state = q.st.parse_state /\ e.st.packet_idx = q.st.packet_idx
       /\ e.st.mavlink1 = q.st.mavlink1 /\ e.st.signature_wait = q.st.signature_wait
       /\ q.received = "INCOMPLETE" => e.out = d.out /\ e.crc_errors = d.crc_errors
       /\ q.received = "BAD_CRC" => e.out = d.out /\ e.crc_errors = d.crc_errors + 1
  BY <1>1, <1>3, <1>9, FedReads
<1>11. e \in Decoders
  BY <1>1, <1>2, <1>4, <1>6, <1>10, <1>7 DEF Decoders, Headers, Signatures
<1> QED BY <1>2, <1>4, <1>6, <1>8, <1>9, <1>10, <1>11 DEF s, n

LEMMA FedCheckUnsigned ==
  ASSUME NEW d \in Decoders, d.st.parse_state \in Checks, NEW c \in Byte,
         d.rx.incompat_flags # IFLAG_SIGNED,
         NEW e, e = fed(d, c)
  PROVE  /\ e \in Decoders /\ e.st.parse_state = "IDLE"
         /\ Good(d, c) => /\ e.out = Append(d.out, decode(d.rx))
                          /\ e.crc_errors = d.crc_errors
         /\ ~Good(d, c) => e.out = d.out /\ e.crc_errors = d.crc_errors + 1
<1> DEFINE r == ReaderOf(d)
           q == frame_char(r, c)
<1>1. d \in AnyDecoder /\ d.st.packet_idx =< Len(d.rx.payload)
  BY DEF Decoders
<1>2. r \in Reader /\ r.st = d.st /\ r.rx = d.rx /\ r.received = "INCOMPLETE"
  BY <1>1, ReaderOfIs
<1>3. q = frame_char(ReaderOf(d), c)
  OBVIOUS
<1> HIDE DEF r
<1>4. /\ q \in Reader /\ q.received = IF Good(r, c) THEN "OK" ELSE "BAD_CRC"
      /\ q.rx = r.rx /\ q.st = [r.st EXCEPT !.parse_state = "IDLE"]
  BY <1>2, ReadCheckUnsigned
<1> HIDE DEF q
<1>5. r.rx \in Buffer /\ r.st \in Status
  BY <1>2, ReaderFields
<1>6. q.st.parse_state = "IDLE" /\ q.st.packet_idx = r.st.packet_idx
  BY <1>4, <1>5 DEF Status
<1>7. Good(r, c) <=> Good(d, c)
  BY <1>2 DEF Good
<1>8. q \in Reader
  BY <1>4
<1>9. /\ e \in AnyDecoder /\ e.rx = q.rx
      /\ e.st.parse_state = q.st.parse_state /\ e.st.packet_idx = q.st.packet_idx
      /\ q.received = "OK" => e.out = Append(d.out, decode(q.rx)) /\ e.crc_errors = d.crc_errors
      /\ q.received = "BAD_CRC" => e.out = d.out /\ e.crc_errors = d.crc_errors + 1
  BY <1>1, <1>3, <1>8, FedReads
<1>10. e \in Decoders
  BY <1>1, <1>2, <1>4, <1>6, <1>9 DEF Decoders, Headers, Signatures
<1> QED BY <1>2, <1>4, <1>6, <1>9, <1>10, <1>7

LEMMA FedSignature ==
  ASSUME NEW d \in Decoders, d.st.parse_state \in Signatures, NEW c \in Byte,
         d.st.signature_wait > 1,
         NEW e, e = fed(d, c)
  PROVE  /\ e \in Decoders /\ Unchanged(d, e) /\ e.rx = d.rx
         /\ e.st.parse_state = d.st.parse_state
         /\ e.st.signature_wait = d.st.signature_wait - 1
<1> DEFINE r == ReaderOf(d)
           q == frame_char(r, c)
           n == r.st.signature_wait - 1
<1>1. d \in AnyDecoder /\ d.st.packet_idx =< Len(d.rx.payload)
  BY DEF Decoders
<1>2. r \in Reader /\ r.st = d.st /\ r.rx = d.rx /\ r.received = "INCOMPLETE"
  BY <1>1, ReaderOfIs
<1>3. q = frame_char(ReaderOf(d), c)
  OBVIOUS
<1> HIDE DEF r
<1>4. /\ q \in Reader /\ q.received = r.received /\ q.rx = r.rx
      /\ q.st = [r.st EXCEPT !.signature_wait = n]
  BY <1>2, ReadSignature
<1> HIDE DEF q, n
<1>5. r.rx \in Buffer /\ r.st \in Status
  BY <1>2, ReaderFields
<1>6. /\ q.st.parse_state = r.st.parse_state /\ q.st.packet_idx = r.st.packet_idx
      /\ q.st.signature_wait = n
  BY <1>4, <1>5 DEF Status
<1>7. n > 0 /\ n = d.st.signature_wait - 1
  <2>1. d.st.signature_wait \in Nat
    BY <1>1, DecoderFields
  <2> QED BY <1>2, <2>1 DEF n
<1>8. q \in Reader /\ q.received = "INCOMPLETE"
  BY <1>2, <1>4
<1>9. /\ e \in AnyDecoder /\ e.rx = q.rx
      /\ e.st.parse_state = q.st.parse_state /\ e.st.packet_idx = q.st.packet_idx
      /\ e.st.mavlink1 = q.st.mavlink1 /\ e.st.signature_wait = q.st.signature_wait
      /\ Unchanged(d, e)
  BY <1>1, <1>3, <1>8, FedReads DEF Unchanged
<1>10. e \in Decoders
  BY <1>1, <1>2, <1>4, <1>6, <1>9, <1>7 DEF Decoders, Headers, Signatures
<1> QED BY <1>2, <1>4, <1>6, <1>9, <1>10, <1>7

LEMMA FedLastSignature ==
  ASSUME NEW d \in Decoders, d.st.parse_state \in Signatures, NEW c \in Byte,
         d.st.signature_wait = 1,
         NEW e, e = fed(d, c)
  PROVE  /\ e \in Decoders /\ e.st.parse_state = "IDLE"
         /\ d.st.parse_state = "SIGNATURE_WAIT" => /\ e.out = Append(d.out, decode(d.rx))
                                                   /\ e.crc_errors = d.crc_errors
         /\ d.st.parse_state # "SIGNATURE_WAIT" => /\ e.out = d.out
                                                   /\ e.crc_errors = d.crc_errors + 1
<1> DEFINE r == ReaderOf(d)
           q == frame_char(r, c)
<1>1. d \in AnyDecoder /\ d.st.packet_idx =< Len(d.rx.payload)
  BY DEF Decoders
<1>2. r \in Reader /\ r.st = d.st /\ r.rx = d.rx /\ r.received = "INCOMPLETE"
  BY <1>1, ReaderOfIs
<1>3. q = frame_char(ReaderOf(d), c)
  OBVIOUS
<1> HIDE DEF r
<1>4. /\ q \in Reader /\ q.rx = r.rx
      /\ q.received = IF r.st.parse_state = "SIGNATURE_WAIT" THEN "OK" ELSE "BAD_CRC"
      /\ q.st.parse_state = "IDLE" /\ q.st.packet_idx = r.st.packet_idx
  <2>1. r.st.parse_state \in Signatures /\ r.st.signature_wait = 1
    BY <1>2
  <2> QED BY <1>2, <2>1, ReadLastSignature
<1> HIDE DEF q
<1>5. r.rx \in Buffer /\ r.st \in Status
  BY <1>2, ReaderFields
<1>6. q.st.parse_state = "IDLE" /\ q.st.packet_idx = r.st.packet_idx
  BY <1>4, <1>5 DEF Status
<1>7. q \in Reader
  BY <1>4
<1>8. /\ e \in AnyDecoder /\ e.rx = q.rx
      /\ e.st.parse_state = q.st.parse_state /\ e.st.packet_idx = q.st.packet_idx
      /\ q.received = "OK" => e.out = Append(d.out, decode(q.rx)) /\ e.crc_errors = d.crc_errors
      /\ q.received = "BAD_CRC" => e.out = d.out /\ e.crc_errors = d.crc_errors + 1
  BY <1>1, <1>3, <1>7, FedReads
<1>9. e \in Decoders
  BY <1>1, <1>2, <1>4, <1>6, <1>8 DEF Decoders, Headers, Signatures
<1> QED BY <1>2, <1>4, <1>6, <1>8, <1>9

-----------------------------------------------------------------------------
(***************************************************************************)
(* How many bytes a decoder still lacks.  Behind its flags the length of a *)
(* frame is known, whatever the rest of it holds.                          *)
(***************************************************************************)
Midway == Headers \cup {"GOT_MSGID3", "GOT_PAYLOAD"} \cup Checks \cup Signatures

headerLeft(d) ==
    CASE d.st.parse_state = "GOT_INCOMPAT_FLAGS" -> IF d.st.mavlink1 THEN 5 ELSE 7
      [] d.st.parse_state = "GOT_COMPAT_FLAGS" -> IF d.st.mavlink1 THEN 4 ELSE 6
      [] d.st.parse_state = "GOT_SEQ" -> IF d.st.mavlink1 THEN 3 ELSE 5
      [] d.st.parse_state = "GOT_SYSID" -> IF d.st.mavlink1 THEN 2 ELSE 4
      [] d.st.parse_state = "GOT_COMPID" -> IF d.st.mavlink1 THEN 1 ELSE 3
      [] d.st.parse_state = "GOT_MSGID1" -> 2
      [] d.st.parse_state = "GOT_MSGID2" -> 1

trailer(flags) == IF flags = IFLAG_SIGNED THEN SIGNATURE_BLOCK_LEN ELSE 0

lacking(d) ==
    IF d.st.parse_state \in Headers
        THEN headerLeft(d) + d.rx.len + 2 + trailer(d.rx.incompat_flags)
    ELSE IF d.st.parse_state = "GOT_MSGID3"
        THEN (d.rx.len - d.st.packet_idx) + 2 + trailer(d.rx.incompat_flags)
    ELSE IF d.st.parse_state = "GOT_PAYLOAD"
        THEN 2 + trailer(d.rx.incompat_flags)
    ELSE IF d.st.parse_state \in Checks
        THEN 1 + trailer(d.rx.incompat_flags)
    ELSE d.st.signature_wait

Lacks(d, n) == IF n = 0 THEN d.st.parse_state = "IDLE"
               ELSE d.st.parse_state \in Midway /\ lacking(d) = n

\* What came out stays, and more may follow.
Extends(e, d) ==
    /\ Len(d.out) =< Len(e.out)
    /\ \A i \in 1 .. Len(d.out) : e.out[i] = d.out[i]

LEMMA ExtendsAppend ==
  ASSUME NEW d \in AnyDecoder, NEW e, NEW v, e.out = d.out \/ e.out = Append(d.out, v)
  PROVE  Extends(e, d)
<1>1. d.out \in Seq(Decoded)
  BY DecoderFields
<1> DEFINE s == d.out
<1>2. s \in Seq(Decoded) /\ Len(s) \in Nat
  BY <1>1
<1> HIDE DEF s
<1>3. Len(Append(s, v)) = Len(s) + 1 /\ \A i \in 1 .. Len(s) : Append(s, v)[i] = s[i]
  BY <1>2
<1>4. e.out = s \/ e.out = Append(s, v)
  BY DEF s
<1>5. Len(s) =< Len(e.out) /\ \A i \in 1 .. Len(s) : e.out[i] = s[i]
  BY <1>2, <1>3, <1>4, SMTT(30)
<1> QED BY <1>5 DEF Extends, s

LEMMA ExtendsTransitive ==
  ASSUME NEW d \in AnyDecoder, NEW e \in AnyDecoder, NEW f \in AnyDecoder,
         Extends(e, d), Extends(f, e)
  PROVE  Extends(f, d)
<1>1. Len(d.out) \in Nat /\ Len(e.out) \in Nat /\ Len(f.out) \in Nat
  BY DecoderFields
<1> QED BY <1>1 DEF Extends

LEMMA Trailers == \A f : trailer(f) \in {0, 13}
  BY DEF trailer, SIGNATURE_BLOCK_LEN

\* Every byte behind the flags is one byte less, and none is too many.
LEMMA Swallow ==
  ASSUME NEW d \in Decoders, d.st.parse_state \in Midway, NEW c \in Byte,
         NEW e, e = fed(d, c)
  PROVE  /\ lacking(d) \in Nat \ {0}
         /\ e \in Decoders /\ Extends(e, d) /\ Lacks(e, lacking(d) - 1)
<1> DEFINE t == trailer(d.rx.incompat_flags)
           len == d.rx.len
           k == d.st.packet_idx
<1>1. d \in AnyDecoder /\ len \in Nat /\ k \in Nat /\ t \in {0, 13}
  <2>1. d \in AnyDecoder
    BY DEF Decoders
  <2>2. len \in Byte /\ k \in Nat
    BY <2>1, DecoderFields
  <2>3. len \in Nat
    BY <2>2 DEF Byte
  <2> QED BY <2>1, <2>2, <2>3, Trailers
<1>2. ASSUME Unchanged(d, e) PROVE Extends(e, d)
  BY <1>1, <1>2, ExtendsAppend DEF Unchanged
<1>3. CASE d.st.parse_state \in Headers
  <2>1. /\ e \in Decoders /\ Unchanged(d, e) /\ e.st.parse_state = HeaderNext(d)
        /\ e.st.packet_idx = 0 /\ e.st.mavlink1 = d.st.mavlink1
        /\ e.rx.len = len /\ e.rx.incompat_flags = d.rx.incompat_flags
    BY <1>3, FedHeader
  <2> DEFINE h == headerLeft(d)
  <2>2. lacking(d) = h + len + 2 + t
    BY <1>3 DEF lacking
  <2>3. h \in 1 .. 7
    BY <1>3 DEF headerLeft, Headers
  <2>4. CASE h > 1
    <3>1. HeaderNext(d) \in Headers /\ headerLeft(e) = h - 1
      BY <1>3, <2>1, <2>4 DEF headerLeft, Headers, HeaderNext
    <3>2. lacking(e) = (h - 1) + len + 2 + t
      BY <2>1, <3>1 DEF lacking
    <3> HIDE DEF h, len, t
    <3>3. lacking(d) \in Nat \ {0} /\ lacking(e) = lacking(d) - 1 /\ lacking(d) - 1 # 0
      BY <1>1, <2>2, <2>3, <3>2
    <3> QED BY <1>2, <2>1, <3>1, <3>3 DEF Lacks, Midway
  <2>5. CASE h = 1
    <3>1. HeaderNext(d) = payloadState(d)
      BY <1>3, <2>5 DEF headerLeft, Headers, HeaderNext
    <3>2. /\ e.st.parse_state = "GOT_MSGID3" \/ e.st.parse_state = "GOT_PAYLOAD"
          /\ e.st.parse_state = "GOT_PAYLOAD" => ~(len > 0)
      BY <2>1, <3>1 DEF payloadState
    <3>3. lacking(e) = len + 2 + t
      <4>1. CASE e.st.parse_state = "GOT_MSGID3"
        <5>1. lacking(e) = (len - 0) + 2 + t
          BY <2>1, <4>1 DEF lacking, Headers
        <5> QED BY <1>1, <5>1
      <4>2. CASE e.st.parse_state = "GOT_PAYLOAD"
        <5>1. lacking(e) = 2 + t
          BY <2>1, <4>2 DEF lacking, Headers
        <5> QED BY <1>1, <3>2, <4>2, <5>1
      <4> QED BY <3>2, <4>1, <4>2
    <3> HIDE DEF h, len, t
    <3>4. lacking(d) \in Nat \ {0} /\ lacking(e) = lacking(d) - 1 /\ lacking(d) - 1 # 0
      BY <1>1, <2>2, <2>5, <3>3
    <3> QED BY <1>2, <2>1, <3>2, <3>4 DEF Lacks, Midway
  <2> QED BY <2>3, <2>4, <2>5
<1>4. CASE d.st.parse_state = "GOT_MSGID3"
  <2>1. /\ e \in Decoders /\ Unchanged(d, e)
        /\ e.st.parse_state = IF k + 1 = len THEN "GOT_PAYLOAD" ELSE "GOT_MSGID3"
        /\ e.st.packet_idx = k + 1
        /\ e.rx.len = len /\ e.rx.incompat_flags = d.rx.incompat_flags
    BY <1>4, FedPayload
  <2>2. lacking(d) = (len - k) + 2 + t
    BY <1>4 DEF lacking, Headers
  <2>3. k < len
    BY <1>4 DEF Decoders
  <2>4. lacking(e) = (len - (k + 1)) + 2 + t
    <3>1. CASE k + 1 = len
      <4>1. lacking(e) = 2 + t
        BY <2>1, <3>1 DEF lacking, Headers
      <4> HIDE DEF k, len, t
      <4> QED BY <1>1, <3>1, <4>1
    <3>2. CASE k + 1 # len
      BY <2>1, <3>2 DEF lacking, Headers
    <3> QED BY <3>1, <3>2
  <2>5. e.st.parse_state \in Midway
    BY <2>1 DEF Midway
  <2> HIDE DEF k, len, t
  <2>6. lacking(d) \in Nat \ {0} /\ lacking(e) = lacking(d) - 1 /\ lacking(d) - 1 # 0
    BY <1>1, <2>2, <2>3, <2>4
  <2> QED BY <1>2, <2>1, <2>5, <2>6 DEF Lacks
<1>5. CASE d.st.parse_state = "GOT_PAYLOAD"
  <2>1. /\ e \in Decoders /\ Unchanged(d, e) /\ e.st.parse_state \in Checks
        /\ e.rx.incompat_flags = d.rx.incompat_flags
    <3>1. CASE mavlink_get_msg_entry(d.rx.msgid) = {}
      BY <1>5, <3>1, FedUnlisted DEF Checks
    <3>2. CASE mavlink_get_msg_entry(d.rx.msgid) # {}
      <4>1. PICK y : mavlink_get_msg_entry(d.rx.msgid) = {y}
        BY <3>2 DEF mavlink_get_msg_entry
      <4>2. /\ e \in Decoders /\ Unchanged(d, e)
            /\ \E x : e.st.parse_state = IF c = x % 256 THEN "GOT_CRC1" ELSE "GOT_BAD_CRC1"
            /\ e.rx.incompat_flags = d.rx.incompat_flags
        BY <1>5, <4>1, FedListed
      <4> QED BY <4>2 DEF Checks
    <3> QED BY <3>1, <3>2
  <2>2. lacking(d) = 2 + t
    BY <1>5 DEF lacking, Headers
  <2>3. lacking(e) = 1 + t
    BY <2>1 DEF lacking, Headers, Checks
  <2> HIDE DEF t
  <2>4. lacking(d) \in Nat \ {0} /\ lacking(e) = lacking(d) - 1 /\ lacking(d) - 1 # 0
    BY <1>1, <2>2, <2>3
  <2> QED BY <1>2, <2>1, <2>4 DEF Lacks, Midway
<1>6. CASE d.st.parse_state \in Checks
  <2>1. lacking(d) = 1 + t
    BY <1>6 DEF lacking, Headers, Checks
  <2>2. CASE d.rx.incompat_flags = IFLAG_SIGNED
    <3>1. /\ e \in Decoders /\ e.out = d.out /\ e.st.signature_wait = 13
          /\ e.st.parse_state \in Signatures
      BY <1>6, <2>2, FedCheckSigned DEF SIGNATURE_BLOCK_LEN, Signatures
    <3>2. t = 13 /\ lacking(e) = 13
      BY <2>2, <3>1 DEF trailer, SIGNATURE_BLOCK_LEN, lacking, Headers, Checks, Signatures
    <3>3. lacking(d) \in Nat \ {0} /\ lacking(d) - 1 = 13
      BY <2>1, <3>2
    <3> QED BY <1>1, <3>1, <3>2, <3>3, ExtendsAppend DEF Lacks, Midway
  <2>3. CASE d.rx.incompat_flags # IFLAG_SIGNED
    <3>1. /\ e \in Decoders /\ e.st.parse_state = "IDLE"
          /\ e.out = d.out \/ e.out = Append(d.out, decode(d.rx))
      BY <1>6, <2>3, FedCheckUnsigned
    <3>2. t = 0
      BY <2>3 DEF trailer
    <3>3. lacking(d) \in Nat \ {0} /\ lacking(d) - 1 = 0
      BY <2>1, <3>2
    <3> QED BY <1>1, <3>1, <3>3, ExtendsAppend DEF Lacks
  <2> QED BY <2>2, <2>3
<1>7. CASE d.st.parse_state \in Signatures
  <2> DEFINE n == d.st.signature_wait
  <2>1. lacking(d) = n /\ n \in Nat /\ n > 0
    <3>1. lacking(d) = n
      BY <1>7 DEF lacking, Headers, Checks, Signatures
    <3>2. n \in Nat
      BY <1>1, DecoderFields
    <3>3. n > 0
      BY <1>7 DEF Decoders
    <3> QED BY <3>1, <3>2, <3>3
  <2>2. CASE n > 1
    <3>1. /\ e \in Decoders /\ Unchanged(d, e) /\ e.st.signature_wait = n - 1
          /\ e.st.parse_state \in Signatures
      BY <1>7, <2>2, FedSignature
    <3>2. lacking(e) = n - 1
      BY <3>1 DEF lacking, Headers, Checks, Signatures
    <3> HIDE DEF n
    <3>3. lacking(d) \in Nat \ {0} /\ lacking(d) - 1 # 0 /\ lacking(e) = lacking(d) - 1
      BY <2>1, <2>2, <3>2
    <3> QED BY <1>2, <3>1, <3>3 DEF Lacks, Midway
  <2>3. CASE n = 1
    <3>1. /\ e \in Decoders /\ e.st.parse_state = "IDLE"
          /\ e.out = d.out \/ e.out = Append(d.out, decode(d.rx))
      BY <1>7, <2>3, FedLastSignature
    <3>2. lacking(d) \in Nat \ {0} /\ lacking(d) - 1 = 0
      BY <2>1, <2>3
    <3> QED BY <1>1, <3>1, <3>2, ExtendsAppend DEF Lacks
  <2> QED BY <2>1, <2>2, <2>3
<1> QED BY <1>3, <1>4, <1>5, <1>6, <1>7 DEF Midway

LEMMA FedIsDecoder ==
  ASSUME NEW d \in Decoders, NEW c \in Byte
  PROVE  fed(d, c) \in Decoders /\ Extends(fed(d, c), d)
<1> DEFINE e == fed(d, c)
<1>1. d \in AnyDecoder
  BY DEF Decoders
<1>2. ASSUME Unchanged(d, e) PROVE Extends(e, d)
  <2> HIDE DEF e
  <2> QED BY <1>1, <1>2, ExtendsAppend DEF Unchanged
<1>3. CASE d.st.parse_state = "IDLE"
  <2>1. e \in Decoders /\ Unchanged(d, e)
    <3>1. CASE c \in {MAVLINK_STX, MAVLINK_STX_MAVLINK1}
      BY <1>3, <3>1, FedStart
    <3>2. CASE c \notin {MAVLINK_STX, MAVLINK_STX_MAVLINK1}
      BY <1>3, <3>2, FedSkipped
    <3> QED BY <3>1, <3>2
  <2> QED BY <1>2, <2>1
<1>4. CASE d.st.parse_state = "GOT_STX"
  BY <1>2, <1>4, FedLength
<1>5. CASE d.st.parse_state = "GOT_LENGTH"
  <2>1. e \in Decoders /\ Unchanged(d, e)
    <3>1. CASE c > IFLAG_SIGNED
      BY <1>5, <3>1, FedUnknownFlags
    <3>2. CASE ~(c > IFLAG_SIGNED)
      BY <1>5, <3>2, FedFlags
    <3> QED BY <3>1, <3>2
  <2> QED BY <1>2, <2>1
<1>6. CASE d.st.parse_state \in Midway
  BY <1>6, Swallow
<1>7. d.st.parse_state \in States
  BY <1>1, DecoderFields
<1> QED BY <1>3, <1>4, <1>5, <1>6, <1>7 DEF States, Midway

LEMMA FedAllIsDecoder ==
  ASSUME NEW d \in Decoders, NEW bytes \in Seq(Byte)
  PROVE  fedAll(d, bytes) \in Decoders /\ Extends(fedAll(d, bytes), d)
<1> DEFINE D == {e \in Decoders : Extends(e, d)}
<1>1. \A e \in Decoders : e \in AnyDecoder
  BY DEF Decoders
<1>2. d \in D
  <2>1. Len(d.out) \in Nat
    BY <1>1, DecoderFields
  <2> QED BY <2>1 DEF Extends
<1>3. ASSUME NEW e \in D, NEW c \in Byte PROVE fed(e, c) \in D
  BY <1>1, FedIsDecoder, ExtendsTransitive
<1>4. fedAll(d, bytes) \in D
  <2> HIDE DEF D
  <2> QED BY <1>2, <1>3, FedKeeps
<1> QED BY <1>4

\* A decoder that lacks n bytes takes them for its own, whatever they are.
LEMMA SwallowAll ==
  ASSUME NEW d \in Decoders, NEW n \in Nat, Lacks(d, n),
         NEW bytes \in Seq(Byte), Len(bytes) =< n
  PROVE  Lacks(fedAll(d, bytes), n - Len(bytes))
<1> DEFINE N == Len(bytes)
           D == [k \in 0 .. N |-> {e \in Decoders : Lacks(e, n - k)}]
<1>1. N \in Nat /\ \A k \in 1 .. N : bytes[k] \in Byte
  OBVIOUS
<1>2. d \in D[0]
  <2>1. n - 0 = n /\ 0 \in 0 .. N
    BY <1>1
  <2> QED BY <2>1
<1>3. ASSUME NEW k \in 1 .. N, NEW e \in D[k - 1]
      PROVE  fed(e, bytes[k]) \in D[k]
  <2>1. k - 1 \in 0 .. N /\ k \in 0 .. N /\ n - (k - 1) # 0 /\ (n - (k - 1)) - 1 = n - k
    BY <1>1
  <2>2. e \in Decoders /\ Lacks(e, n - (k - 1))
    BY <1>3, <2>1
  <2>3. e.st.parse_state \in Midway /\ lacking(e) = n - (k - 1)
    BY <2>1, <2>2 DEF Lacks
  <2>4. fed(e, bytes[k]) \in Decoders /\ Lacks(fed(e, bytes[k]), lacking(e) - 1)
    BY <1>1, <2>2, <2>3, Swallow
  <2> QED BY <2>1, <2>3, <2>4
<1>4. fedAll(d, bytes) \in D[N]
  <2> HIDE DEF D
  <2> QED BY <1>2, <1>3, FedThrough
<1> QED BY <1>1, <1>4

\* Bytes between the frames change nothing, if none of them starts one.
LEMMA SkipAll ==
  ASSUME NEW d \in Decoders, d.st.parse_state = "IDLE",
         NEW bytes \in Seq(Byte), quiet(bytes)
  PROVE  fedAll(d, bytes).st.parse_state = "IDLE"
<1> DEFINE N == Len(bytes)
           D == [k \in 0 .. N |-> {e \in Decoders : e.st.parse_state = "IDLE"}]
<1>1. N \in Nat /\ \A k \in 1 .. N : bytes[k] \in Byte
  OBVIOUS
<1>2. d \in D[0]
  BY <1>1
<1>3. ASSUME NEW k \in 1 .. N, NEW e \in D[k - 1]
      PROVE  fed(e, bytes[k]) \in D[k]
  <2>1. k - 1 \in 0 .. N /\ k \in 0 .. N /\ k \in DOMAIN bytes
    BY <1>1
  <2>2. e \in Decoders /\ e.st.parse_state = "IDLE"
    BY <1>3, <2>1
  <2>3. bytes[k] \notin {MAVLINK_STX, MAVLINK_STX_MAVLINK1}
    BY <2>1 DEF quiet
  <2>4. fed(e, bytes[k]) \in Decoders /\ fed(e, bytes[k]).st.parse_state = "IDLE"
    BY <1>1, <2>2, <2>3, FedSkipped
  <2> QED BY <2>1, <2>4
<1>4. fedAll(d, bytes) \in D[N]
  <2> HIDE DEF D
  <2> QED BY <1>2, <1>3, FedThrough
<1> QED BY <1>1, <1>4

-----------------------------------------------------------------------------
(***************************************************************************)
(* What came out before changes nothing in what comes out next.            *)
(***************************************************************************)
After(d, out, n) == [rx |-> d.rx, st |-> d.st, out |-> out \o d.out,
                     crc_errors |-> n + d.crc_errors]

LEMMA AppendBehind ==
  ASSUME NEW s \in Seq(Decoded), NEW t \in Seq(Decoded), NEW v \in Decoded
  PROVE  Append(s \o t, v) = s \o Append(t, v)
<1>1. Append(s \o t, v) = (s \o t) \o <<v>> /\ Append(t, v) = t \o <<v>>
  BY AppendIsConcat
<1>2. <<v>> \in Seq(Decoded)
  OBVIOUS
<1> QED BY <1>1, <1>2, ConcatAssociative

LEMMA FedAfter ==
  ASSUME NEW d \in Decoders, NEW out \in Seq(Decoded), NEW n \in Nat, NEW c \in Byte
  PROVE  fed(After(d, out, n), c) = After(fed(d, c), out, n)
<1> DEFINE r == frame_char([rx |-> d.rx, st |-> d.st, received |-> "INCOMPLETE"], c)
           a == After(d, out, n)
           e == fed(d, c)
           v == decode(r.rx)
           t == [r.st EXCEPT !.parse_error = 0]
<1>1. a.rx = d.rx /\ a.st = d.st /\ a.out = out \o d.out
      /\ a.crc_errors = n + d.crc_errors
  BY DEF After
<1>2. d.out \in Seq(Decoded) /\ d.crc_errors \in Nat
  BY DecoderFields DEF Decoders
<1>3. e = [rx |-> r.rx, st |-> t,
           out |-> IF r.received = "OK" THEN Append(d.out, v) ELSE d.out,
           crc_errors |-> IF r.received = "BAD_CRC" THEN d.crc_errors + 1
                                                    ELSE d.crc_errors]
  BY DEF fed
<1>4. fed(a, c) = [rx |-> r.rx, st |-> t,
           out |-> IF r.received = "OK" THEN Append(a.out, v) ELSE a.out,
           crc_errors |-> IF r.received = "BAD_CRC" THEN a.crc_errors + 1
                                                    ELSE a.crc_errors]
  <2> HIDE DEF a
  <2>1. frame_char([rx |-> a.rx, st |-> a.st, received |-> "INCOMPLETE"], c) = r
    BY <1>1
  <2> HIDE DEF r
  <2> QED BY <2>1 DEF fed
<1>5. e \in Decoders
  BY FedIsDecoder
<1>6. r.received = "OK" => v \in Decoded
  <2>1. CASE r.received = "OK"
    <3>1. e.out = Append(d.out, v)
      <4> HIDE DEF e, r, v, t
      <4> QED BY <1>3, <2>1
    <3>2. e.out \in Seq(Decoded)
      BY <1>5, DecoderFields DEF Decoders
    <3> HIDE DEF e, v
    <3>3. Len(e.out) = Len(d.out) + 1 /\ e.out[Len(d.out) + 1] = v
      BY <1>2, <3>1
    <3>4. Len(d.out) + 1 \in 1 .. Len(e.out)
      BY <1>2, <3>3
    <3> QED BY <3>2, <3>3, <3>4
  <2> QED BY <2>1
<1> HIDE DEF a, e, r, v, t
<1>7. (IF r.received = "OK" THEN Append(a.out, v) ELSE a.out) = out \o e.out
  <2>1. CASE r.received = "OK"
    <3> DEFINE s == d.out
    <3>1. s \in Seq(Decoded) /\ out \in Seq(Decoded) /\ v \in Decoded
      BY <1>2, <1>6, <2>1
    <3>2. a.out = out \o s /\ e.out = Append(s, v)
      BY <1>1, <1>3, <2>1
    <3> HIDE DEF s
    <3>3. Append(out \o s, v) = out \o Append(s, v)
      BY <3>1, AppendBehind
    <3> QED BY <2>1, <3>2, <3>3
  <2>2. CASE r.received # "OK"
    BY <1>1, <1>3, <2>2
  <2> QED BY <2>1, <2>2
<1>8. (IF r.received = "BAD_CRC" THEN a.crc_errors + 1 ELSE a.crc_errors)
        = n + e.crc_errors
  BY <1>1, <1>2, <1>3
<1>9. After(e, out, n) = [rx |-> r.rx, st |-> t, out |-> out \o e.out,
                          crc_errors |-> n + e.crc_errors]
  BY <1>3 DEF After
<1>10. fed(a, c) = After(e, out, n)
  BY <1>4, <1>7, <1>8, <1>9
<1> QED BY <1>10 DEF a, e

LEMMA FedAllAfter ==
  ASSUME NEW d \in Decoders, NEW out \in Seq(Decoded), NEW n \in Nat,
         NEW bytes \in Seq(Byte)
  PROVE  fedAll(After(d, out, n), bytes) = After(fedAll(d, bytes), out, n)
<1>1. PICK run : Run(run, d, bytes) /\ fedAll(d, bytes) = run[Len(bytes)]
  BY FedIsRun
<1> DEFINE N == Len(bytes)
           S == {k \in 0 .. N : run[k] \in Decoders}
           g == [k \in 0 .. N |-> After(run[k], out, n)]
<1>2. N \in Nat /\ \A k \in 1 .. N : bytes[k] \in Byte
  OBVIOUS
<1>3. \A k \in 0 .. N : k \in S
  <2>1. 0 \in S
    BY <1>1, <1>2 DEF Run
  <2>2. ASSUME NEW k \in 0 .. N - 1, k \in S PROVE k + 1 \in S
    <3>1. k + 1 \in 1 .. N /\ k + 1 \in 0 .. N /\ (k + 1) - 1 = k
      BY <1>2
    <3>2. run[k + 1] = fed(run[k], bytes[k + 1])
      BY <1>1, <3>1 DEF Run
    <3> QED BY <1>2, <2>2, <3>1, <3>2, FedIsDecoder
  <2> HIDE DEF N, S
  <2> QED BY <1>2, <2>1, <2>2, UpTo
<1>4. Run(g, After(d, out, n), bytes)
  <2>1. g[0] = After(d, out, n) /\ DOMAIN g = 0 .. Len(bytes)
    BY <1>1, <1>2 DEF Run
  <2>2. ASSUME NEW k \in 1 .. N PROVE g[k] = fed(g[k - 1], bytes[k])
    <3>1. k \in 0 .. N /\ k - 1 \in 0 .. N
      BY <1>2
    <3>2. run[k] = fed(run[k - 1], bytes[k])
      BY <1>1 DEF Run
    <3>3. run[k - 1] \in Decoders
      BY <1>3, <3>1
    <3>4. fed(After(run[k - 1], out, n), bytes[k]) = After(fed(run[k - 1], bytes[k]), out, n)
      BY <1>2, <3>3, FedAfter
    <3>5. g[k] = After(run[k], out, n) /\ g[k - 1] = After(run[k - 1], out, n)
      BY <3>1
    <3> QED BY <3>2, <3>4, <3>5
  <2> HIDE DEF g
  <2> QED BY <2>1, <2>2 DEF Run
<1>5. fedAll(After(d, out, n), bytes) = g[N]
  <2> HIDE DEF g
  <2> QED BY <1>4, RunIsFed
<1>6. N \in 0 .. N
  BY <1>2
<1> QED BY <1>1, <1>5, <1>6

-----------------------------------------------------------------------------
(***************************************************************************)
(* The checksum, byte by byte.                                             *)
(***************************************************************************)
Sums(C, bytes) ==
    /\ C[0] = 65535
    /\ \A k \in 1 .. Len(bytes) : C[k] = crc_accumulate(C[k - 1], bytes[k])

LEMMA CrcIsSum ==
  ASSUME NEW bytes \in Seq(Byte)
  PROVE  \E C : Sums(C, bytes) /\ crc_calculate(bytes) = C[Len(bytes)]
<1> DEFINE N == Len(bytes)
           Part(run, n) == /\ DOMAIN run = 0 .. n
                           /\ run[0] = 65535
                           /\ \A k \in 1 .. n : run[k] = crc_accumulate(run[k - 1], bytes[k])
           S == {n \in 0 .. N : \E run : Part(run, n)}
           Rec(f) == f = [k \in 0 .. N |->
                            IF k = 0 THEN 65535 ELSE crc_accumulate(f[k - 1], bytes[k])]
           crc == CHOOSE f : Rec(f)
<1>1. N \in Nat
  OBVIOUS
<1>2. 0 \in S
  <2> DEFINE run == [k \in 0 .. 0 |-> 65535]
  <2>1. Part(run, 0)
    OBVIOUS
  <2> HIDE DEF Part
  <2>2. \E r : Part(r, 0)
    BY <2>1
  <2> QED BY <1>1, <2>2
<1>3. ASSUME NEW n \in 0 .. N - 1, n \in S PROVE n + 1 \in S
  <2>1. PICK run : Part(run, n)
    BY <1>3
  <2> DEFINE more == [k \in 0 .. n + 1 |->
                        IF k =< n THEN run[k] ELSE crc_accumulate(run[n], bytes[n + 1])]
  <2>2. more[0] = 65535
    BY <2>1
  <2>3. ASSUME NEW k \in 1 .. n + 1 PROVE more[k] = crc_accumulate(more[k - 1], bytes[k])
    <3>1. CASE k =< n
      BY <2>1, <3>1
    <3>2. CASE k = n + 1
      BY <2>1, <3>2
    <3> QED BY <3>1, <3>2
  <2>4. Part(more, n + 1)
    BY <2>2, <2>3, SMTT(30)
  <2> HIDE DEF Part
  <2> QED BY <2>4, <1>1
<1>4. N \in S
  <2> HIDE DEF S, N
  <2> QED BY <1>1, <1>2, <1>3, UpToLast
<1>5. PICK run : Part(run, N)
  BY <1>4
<1> DEFINE g == [k \in 0 .. N |-> run[k]]
<1>6. Rec(g)
  <2>1. ASSUME NEW k \in 0 .. N
        PROVE  g[k] = IF k = 0 THEN 65535 ELSE crc_accumulate(g[k - 1], bytes[k])
    <3>1. CASE k = 0
      BY <1>1, <1>5, <3>1
    <3>2. CASE k # 0
      <4>1. k \in 1 .. N /\ k - 1 \in 0 .. N
        BY <1>1, <3>2
      <4> QED BY <1>5, <3>2, <4>1
    <3> QED BY <3>1, <3>2
  <2> QED BY <2>1
<1>7. Rec(crc)
  BY <1>6
<1>8. Sums(crc, bytes)
  <2> HIDE DEF crc
  <2> QED BY <1>1, <1>7 DEF Sums
<1>9. crc_calculate(bytes) = crc[Len(bytes)]
  BY DEF crc_calculate
<1> HIDE DEF crc
<1> QED BY <1>8, <1>9

LEMMA ByteAt ==
  ASSUME NEW s \in Seq(Byte)
  PROVE  Len(s) \in Nat /\ \A k \in 1 .. Len(s) : s[k] \in Byte
  OBVIOUS

-----------------------------------------------------------------------------
(***************************************************************************)
(* A whole frame, part by part.                                            *)
(***************************************************************************)
\* The header of MAVLink 2 behind its start byte.
LEMMA HeadRead ==
  ASSUME NEW d \in Decoders, d.st.parse_state = "IDLE",
         NEW h \in Seq(Byte), Len(h) = 9, ~(h[2] > IFLAG_SIGNED),
         NEW C, Sums(C, h),
         NEW e, e = fedAll(fed(d, MAVLINK_STX), h)
  PROVE  /\ e \in Decoders /\ Unchanged(d, e)
         /\ e.st.parse_state = IF h[1] > 0 THEN "GOT_MSGID3" ELSE "GOT_PAYLOAD"
         /\ e.st.packet_idx = 0 /\ e.rx.len = h[1] /\ e.rx.incompat_flags = h[2]
         /\ e.rx.sysid = h[5] /\ e.rx.msgid = h[7] + 256 * h[8] + 65536 * h[9]
         /\ e.rx.checksum = C[9]
<1> DEFINE start == fed(d, MAVLINK_STX)
<1>1. PICK run : Run(run, start, h) /\ fedAll(start, h) = run[Len(h)]
  BY FedIsRun
<1>2. /\ h[1] \in Byte
      /\ h[2] \in Byte
      /\ h[3] \in Byte
      /\ h[4] \in Byte
      /\ h[5] \in Byte
      /\ h[6] \in Byte
      /\ h[7] \in Byte
      /\ h[8] \in Byte
      /\ h[9] \in Byte
  <2>1. \A k \in 1 .. Len(h) : h[k] \in Byte
    BY ByteAt
  <2>2. \A k \in 1 .. 9 : h[k] \in Byte
    BY <2>1
  <2>3. 1 \in 1 .. 9 /\ 2 \in 1 .. 9 /\ 3 \in 1 .. 9 /\ 4 \in 1 .. 9 /\ 5 \in 1 .. 9 /\ 6 \in 1 .. 9 /\ 7 \in 1 .. 9 /\ 8 \in 1 .. 9 /\ 9 \in 1 .. 9
    OBVIOUS
  <2> QED BY <2>2, <2>3
<1>3. /\ run[0] = start /\ e = run[9]
      /\ run[1] = fed(run[0], h[1])
      /\ run[2] = fed(run[1], h[2])
      /\ run[3] = fed(run[2], h[3])
      /\ run[4] = fed(run[3], h[4])
      /\ run[5] = fed(run[4], h[5])
      /\ run[6] = fed(run[5], h[6])
      /\ run[7] = fed(run[6], h[7])
      /\ run[8] = fed(run[7], h[8])
      /\ run[9] = fed(run[8], h[9])
  <2>1. \A k \in 1 .. 9 : run[k] = fed(run[k - 1], h[k])
    BY <1>1 DEF Run
  <2>2. 1 - 1 = 0 /\ 2 - 1 = 1 /\ 3 - 1 = 2 /\ 4 - 1 = 3 /\ 5 - 1 = 4 /\ 6 - 1 = 5 /\ 7 - 1 = 6 /\ 8 - 1 = 7 /\ 9 - 1 = 8
    OBVIOUS
  <2> QED BY <1>1, <2>1, <2>2 DEF Run
<1>4. /\ C[0] = 65535
      /\ C[1] = crc_accumulate(C[0], h[1])
      /\ C[2] = crc_accumulate(C[1], h[2])
      /\ C[3] = crc_accumulate(C[2], h[3])
      /\ C[4] = crc_accumulate(C[3], h[4])
      /\ C[5] = crc_accumulate(C[4], h[5])
      /\ C[6] = crc_accumulate(C[5], h[6])
      /\ C[7] = crc_accumulate(C[6], h[7])
      /\ C[8] = crc_accumulate(C[7], h[8])
      /\ C[9] = crc_accumulate(C[8], h[9])
  <2>1. \A k \in 1 .. 9 : C[k] = crc_accumulate(C[k - 1], h[k])
    BY DEF Sums
  <2>2. 1 - 1 = 0 /\ 2 - 1 = 1 /\ 3 - 1 = 2 /\ 4 - 1 = 3 /\ 5 - 1 = 4 /\ 6 - 1 = 5 /\ 7 - 1 = 6 /\ 8 - 1 = 7 /\ 9 - 1 = 8
    OBVIOUS
  <2> QED BY <2>1, <2>2 DEF Sums
<1>5. /\ run[0] \in Decoders /\ Unchanged(d, run[0]) /\ run[0].st.parse_state = "GOT_STX"
      /\ run[0].st.mavlink1 = FALSE /\ run[0].rx.checksum = C[0]
  <2> DEFINE c == MAVLINK_STX
  <2>1. /\ c \in {MAVLINK_STX, MAVLINK_STX_MAVLINK1}
        /\ (c = MAVLINK_STX_MAVLINK1) = FALSE /\ start = fed(d, c)
    BY DEF MAVLINK_STX, MAVLINK_STX_MAVLINK1
  <2> HIDE DEF start, c
  <2>2. /\ start \in Decoders /\ Unchanged(d, start) /\ start.st.parse_state = "GOT_STX"
        /\ start.st.mavlink1 <=> c = MAVLINK_STX_MAVLINK1
        /\ start.rx.checksum = 65535
    BY <2>1, FedStart
  <2>3. start.st.mavlink1 \in BOOLEAN
    BY <2>2, DecoderFields DEF Decoders
  <2> QED BY <1>3, <1>4, <2>1, <2>2, <2>3
<1> HIDE DEF start
<1>6. /\ run[1] \in Decoders /\ Unchanged(d, run[1])
      /\ run[1].st.parse_state = "GOT_LENGTH" /\ run[1].st.mavlink1 = FALSE
      /\ run[1].rx.len = h[1] /\ run[1].rx.checksum = C[1]
  BY <1>2, <1>3, <1>4, <1>5, FedLength
      DEF Unchanged
<1>7. /\ run[2] \in Decoders /\ Unchanged(d, run[2])
      /\ run[2].st.parse_state = "GOT_INCOMPAT_FLAGS" /\ run[2].st.mavlink1 = FALSE
      /\ run[2].rx.len = h[1] /\ run[2].rx.checksum = C[2]
      /\ run[2].rx.incompat_flags = h[2]
  BY <1>2, <1>3, <1>4, <1>6, FedFlags
      DEF Unchanged
<1>8. /\ run[3] \in Decoders /\ Unchanged(d, run[3])
      /\ run[3].st.parse_state = "GOT_COMPAT_FLAGS" /\ run[3].st.mavlink1 = FALSE
      /\ run[3].rx.len = h[1] /\ run[3].rx.checksum = C[3]
      /\ run[3].rx.incompat_flags = h[2]
  BY <1>2, <1>3, <1>4, <1>7, FedHeader
      DEF Unchanged, Headers, HeaderNext, HeaderSysid, HeaderMsgid
<1>9. /\ run[4] \in Decoders /\ Unchanged(d, run[4])
      /\ run[4].st.parse_state = "GOT_SEQ" /\ run[4].st.mavlink1 = FALSE
      /\ run[4].rx.len = h[1] /\ run[4].rx.checksum = C[4]
      /\ run[4].rx.incompat_flags = h[2]
  BY <1>2, <1>3, <1>4, <1>8, FedHeader
      DEF Unchanged, Headers, HeaderNext, HeaderSysid, HeaderMsgid
<1>10. /\ run[5] \in Decoders /\ Unchanged(d, run[5])
       /\ run[5].st.parse_state = "GOT_SYSID" /\ run[5].st.mavlink1 = FALSE
       /\ run[5].rx.len = h[1] /\ run[5].rx.checksum = C[5]
       /\ run[5].rx.incompat_flags = h[2] /\ run[5].rx.sysid = h[5]
  BY <1>2, <1>3, <1>4, <1>9, FedHeader, SMTT(30)
      DEF Unchanged, Headers, HeaderNext, HeaderSysid, HeaderMsgid
<1>11. /\ run[6] \in Decoders /\ Unchanged(d, run[6])
       /\ run[6].st.parse_state = "GOT_COMPID" /\ run[6].st.mavlink1 = FALSE
       /\ run[6].rx.len = h[1] /\ run[6].rx.checksum = C[6]
       /\ run[6].rx.incompat_flags = h[2] /\ run[6].rx.sysid = h[5]
  BY <1>2, <1>3, <1>4, <1>10, FedHeader, SMTT(30)
      DEF Unchanged, Headers, HeaderNext, HeaderSysid, HeaderMsgid
<1>12. /\ run[7] \in Decoders /\ Unchanged(d, run[7])
       /\ run[7].st.parse_state = "GOT_MSGID1" /\ run[7].st.mavlink1 = FALSE
       /\ run[7].rx.len = h[1] /\ run[7].rx.checksum = C[7]
       /\ run[7].rx.incompat_flags = h[2] /\ run[7].rx.sysid = h[5]
       /\ run[7].rx.msgid = h[7]
  BY <1>2, <1>3, <1>4, <1>11, FedHeader, SMTT(30)
      DEF Unchanged, Headers, HeaderNext, HeaderSysid, HeaderMsgid
<1>13. /\ run[8] \in Decoders /\ Unchanged(d, run[8])
       /\ run[8].st.parse_state = "GOT_MSGID2" /\ run[8].st.mavlink1 = FALSE
       /\ run[8].rx.len = h[1] /\ run[8].rx.checksum = C[8]
       /\ run[8].rx.incompat_flags = h[2] /\ run[8].rx.sysid = h[5]
       /\ run[8].rx.msgid = h[7] + 256 * h[8]
  BY <1>2, <1>3, <1>4, <1>12, FedHeader, SMTT(30)
      DEF Unchanged, Headers, HeaderNext, HeaderSysid, HeaderMsgid
<1> QED BY <1>2, <1>3, <1>4, <1>13, FedHeader
        DEF Unchanged, Headers, HeaderNext, HeaderSysid, HeaderMsgid, payloadState

\* The header of MAVLink 1 behind its start byte.
LEMMA OldHeadRead ==
  ASSUME NEW d \in Decoders, d.st.parse_state = "IDLE",
         NEW h \in Seq(Byte), Len(h) = 5,
         NEW C, Sums(C, h),
         NEW e, e = fedAll(fed(d, MAVLINK_STX_MAVLINK1), h)
  PROVE  /\ e \in Decoders /\ Unchanged(d, e)
         /\ e.st.parse_state = IF h[1] > 0 THEN "GOT_MSGID3" ELSE "GOT_PAYLOAD"
         /\ e.st.packet_idx = 0 /\ e.rx.len = h[1] /\ e.rx.incompat_flags = 0
         /\ e.rx.sysid = h[3] /\ e.rx.msgid = h[5]
         /\ e.rx.checksum = C[5]
<1> DEFINE start == fed(d, MAVLINK_STX_MAVLINK1)
<1>1. PICK run : Run(run, start, h) /\ fedAll(start, h) = run[Len(h)]
  BY FedIsRun
<1>2. /\ h[1] \in Byte
      /\ h[2] \in Byte
      /\ h[3] \in Byte
      /\ h[4] \in Byte
      /\ h[5] \in Byte
  <2>1. \A k \in 1 .. Len(h) : h[k] \in Byte
    BY ByteAt
  <2>2. \A k \in 1 .. 5 : h[k] \in Byte
    BY <2>1
  <2>3. 1 \in 1 .. 5 /\ 2 \in 1 .. 5 /\ 3 \in 1 .. 5 /\ 4 \in 1 .. 5 /\ 5 \in 1 .. 5
    OBVIOUS
  <2> QED BY <2>2, <2>3
<1>3. /\ run[0] = start /\ e = run[5]
      /\ run[1] = fed(run[0], h[1])
      /\ run[2] = fed(run[1], h[2])
      /\ run[3] = fed(run[2], h[3])
      /\ run[4] = fed(run[3], h[4])
      /\ run[5] = fed(run[4], h[5])
  <2>1. \A k \in 1 .. 5 : run[k] = fed(run[k - 1], h[k])
    BY <1>1 DEF Run
  <2>2. 1 - 1 = 0 /\ 2 - 1 = 1 /\ 3 - 1 = 2 /\ 4 - 1 = 3 /\ 5 - 1 = 4
    OBVIOUS
  <2> QED BY <1>1, <2>1, <2>2 DEF Run
<1>4. /\ C[0] = 65535
      /\ C[1] = crc_accumulate(C[0], h[1])
      /\ C[2] = crc_accumulate(C[1], h[2])
      /\ C[3] = crc_accumulate(C[2], h[3])
      /\ C[4] = crc_accumulate(C[3], h[4])
      /\ C[5] = crc_accumulate(C[4], h[5])
  <2>1. \A k \in 1 .. 5 : C[k] = crc_accumulate(C[k - 1], h[k])
    BY DEF Sums
  <2>2. 1 - 1 = 0 /\ 2 - 1 = 1 /\ 3 - 1 = 2 /\ 4 - 1 = 3 /\ 5 - 1 = 4
    OBVIOUS
  <2> QED BY <2>1, <2>2 DEF Sums
<1>5. /\ run[0] \in Decoders /\ Unchanged(d, run[0]) /\ run[0].st.parse_state = "GOT_STX"
      /\ run[0].st.mavlink1 = TRUE /\ run[0].rx.checksum = C[0]
  <2> DEFINE c == MAVLINK_STX_MAVLINK1
  <2>1. /\ c \in {MAVLINK_STX, MAVLINK_STX_MAVLINK1}
        /\ (c = MAVLINK_STX_MAVLINK1) = TRUE /\ start = fed(d, c)
    BY DEF MAVLINK_STX, MAVLINK_STX_MAVLINK1
  <2> HIDE DEF start, c
  <2>2. /\ start \in Decoders /\ Unchanged(d, start) /\ start.st.parse_state = "GOT_STX"
        /\ start.st.mavlink1 <=> c = MAVLINK_STX_MAVLINK1
        /\ start.rx.checksum = 65535
    BY <2>1, FedStart
  <2>3. start.st.mavlink1 \in BOOLEAN
    BY <2>2, DecoderFields DEF Decoders
  <2> QED BY <1>3, <1>4, <2>1, <2>2, <2>3
<1> HIDE DEF start
<1>6. /\ run[1] \in Decoders /\ Unchanged(d, run[1])
      /\ run[1].st.parse_state = "GOT_COMPAT_FLAGS" /\ run[1].st.mavlink1 = TRUE
      /\ run[1].rx.len = h[1] /\ run[1].rx.checksum = C[1]
      /\ run[1].rx.incompat_flags = 0
  BY <1>2, <1>3, <1>4, <1>5, FedLength
      DEF Unchanged
<1>7. /\ run[2] \in Decoders /\ Unchanged(d, run[2])
      /\ run[2].st.parse_state = "GOT_SEQ" /\ run[2].st.mavlink1 = TRUE
      /\ run[2].rx.len = h[1] /\ run[2].rx.checksum = C[2]
      /\ run[2].rx.incompat_flags = 0
  BY <1>2, <1>3, <1>4, <1>6, FedHeader
      DEF Unchanged, Headers, HeaderNext, HeaderSysid, HeaderMsgid
<1>8. /\ run[3] \in Decoders /\ Unchanged(d, run[3])
      /\ run[3].st.parse_state = "GOT_SYSID" /\ run[3].st.mavlink1 = TRUE
      /\ run[3].rx.len = h[1] /\ run[3].rx.checksum = C[3]
      /\ run[3].rx.incompat_flags = 0 /\ run[3].rx.sysid = h[3]
  BY <1>2, <1>3, <1>4, <1>7, FedHeader
      DEF Unchanged, Headers, HeaderNext, HeaderSysid, HeaderMsgid
<1>9. /\ run[4] \in Decoders /\ Unchanged(d, run[4])
      /\ run[4].st.parse_state = "GOT_COMPID" /\ run[4].st.mavlink1 = TRUE
      /\ run[4].rx.len = h[1] /\ run[4].rx.checksum = C[4]
      /\ run[4].rx.incompat_flags = 0 /\ run[4].rx.sysid = h[3]
  BY <1>2, <1>3, <1>4, <1>8, FedHeader
      DEF Unchanged, Headers, HeaderNext, HeaderSysid, HeaderMsgid
<1> QED BY <1>2, <1>3, <1>4, <1>9, FedHeader
        DEF Unchanged, Headers, HeaderNext, HeaderSysid, HeaderMsgid, payloadState

\* The checksum of what follows n bytes.
SumsOn(C, n, b) ==
    \A k \in 1 .. Len(b) : C[n + k] = crc_accumulate(C[(n + k) - 1], b[k])

\* The bytes of the body.
LEMMA BodyRead ==
  ASSUME NEW d \in Decoders, NEW b \in Seq(Byte),
         d.st.parse_state = (IF d.rx.len > 0 THEN "GOT_MSGID3" ELSE "GOT_PAYLOAD"),
         d.st.packet_idx = 0, d.rx.len = Len(b),
         NEW n \in Nat, NEW C, d.rx.checksum = C[n],
         SumsOn(C, n, b),
         NEW e, e = fedAll(d, b)
  PROVE  /\ e \in Decoders /\ Unchanged(d, e)
         /\ e.st.parse_state = "GOT_PAYLOAD" /\ e.st.packet_idx = Len(b)
         /\ e.rx.len = Len(b) /\ e.rx.incompat_flags = d.rx.incompat_flags
         /\ e.rx.sysid = d.rx.sysid /\ e.rx.msgid = d.rx.msgid
         /\ \A i \in 1 .. Len(b) : e.rx.payload[i] = b[i]
         /\ e.rx.checksum = C[n + Len(b)]
<1> DEFINE N == Len(b)
           At(f, k) ==
             /\ f \in Decoders /\ Unchanged(d, f)
             /\ f.st.parse_state = IF k < N THEN "GOT_MSGID3" ELSE "GOT_PAYLOAD"
             /\ f.st.packet_idx = k
             /\ f.rx.len = N /\ f.rx.incompat_flags = d.rx.incompat_flags
             /\ f.rx.sysid = d.rx.sysid /\ f.rx.msgid = d.rx.msgid
             /\ \A i \in 1 .. k : f.rx.payload[i] = b[i]
             /\ f.rx.checksum = C[n + k]
           D == [k \in 0 .. N |-> {f \in Decoders : At(f, k)}]
<1>1. N \in Nat /\ \A k \in 1 .. N : b[k] \in Byte
  BY ByteAt
<1>2. d \in D[0]
  <2>1. 0 \in 0 .. N /\ n + 0 = n /\ (0 < N <=> d.rx.len > 0)
    BY <1>1
  <2>2. \A i \in 1 .. 0 : d.rx.payload[i] = b[i]
    OBVIOUS
  <2>3. At(d, 0)
    BY <2>1, <2>2 DEF Unchanged
  <2> HIDE DEF At
  <2> QED BY <2>1, <2>3
<1>3. ASSUME NEW k \in 1 .. N, NEW f \in D[k - 1]
      PROVE  fed(f, b[k]) \in D[k]
  <2> DEFINE g == fed(f, b[k])
  <2>1. k - 1 \in 0 .. N /\ k \in 0 .. N /\ k - 1 < N /\ (k - 1) + 1 = k /\ k - 1 \in Nat
    BY <1>1
  <2>2. f \in Decoders /\ At(f, k - 1)
    <3> HIDE DEF At
    <3> QED BY <1>3, <2>1
  <2>3. f.st.parse_state = "GOT_MSGID3" /\ f.st.packet_idx = k - 1
    BY <2>1, <2>2
  <2>4. /\ g \in Decoders /\ Unchanged(f, g)
        /\ g.st.parse_state = IF (k - 1) + 1 = f.rx.len THEN "GOT_PAYLOAD" ELSE "GOT_MSGID3"
        /\ g.st.packet_idx = (k - 1) + 1
        /\ g.rx.len = f.rx.len /\ g.rx.incompat_flags = f.rx.incompat_flags
        /\ g.rx.sysid = f.rx.sysid /\ g.rx.msgid = f.rx.msgid
        /\ g.rx.payload = written(f.rx.payload, k - 1, b[k])
        /\ g.rx.checksum = crc_accumulate(f.rx.checksum, b[k])
    <3> HIDE DEF At
    <3> QED BY <1>1, <2>2, <2>3, FedPayload
  <2> HIDE DEF g
  <2>5. \A i \in 1 .. k : g.rx.payload[i] = b[i]
    <3>1. f.rx.payload \in Seq(Byte) /\ k - 1 =< Len(f.rx.payload)
      BY <2>2, <2>3, DecoderFields DEF Decoders
    <3>2. /\ g.rx.payload[(k - 1) + 1] = b[k]
          /\ \A i \in 1 .. k - 1 : g.rx.payload[i] = f.rx.payload[i]
      <4> DEFINE p == f.rx.payload
                 j == k - 1
                 c == b[k]
      <4>1. p \in Seq(Byte) /\ j \in Nat /\ j =< Len(p) /\ c \in Byte
            /\ g.rx.payload = written(p, j, c)
        BY <1>1, <2>1, <2>4, <3>1
      <4> HIDE DEF p, j, c
      <4>2. /\ written(p, j, c)[j + 1] = c
            /\ \A i \in 1 .. j : written(p, j, c)[i] = p[i]
        BY <4>1, WrittenIs
      <4>3. /\ g.rx.payload[j + 1] = c
            /\ \A i \in 1 .. j : g.rx.payload[i] = p[i]
        BY <4>1, <4>2
      <4> QED BY <4>3 DEF p, j, c
    <3>3. \A i \in 1 .. k - 1 : f.rx.payload[i] = b[i]
      BY <2>2
    <3>4. ASSUME NEW i \in 1 .. k PROVE g.rx.payload[i] = b[i]
      <4>1. i = k \/ i \in 1 .. k - 1
        BY <1>1
      <4> QED BY <2>1, <3>2, <3>3, <4>1
    <3> QED BY <3>4
  <2>6. g.rx.checksum = C[n + k]
    <3>1. C[n + k] = crc_accumulate(C[(n + k) - 1], b[k]) /\ (n + k) - 1 = n + (k - 1)
      BY <1>1 DEF SumsOn
    <3> QED BY <2>2, <2>4, <3>1
  <2>7. g.st.parse_state = IF k < N THEN "GOT_MSGID3" ELSE "GOT_PAYLOAD"
    <3>1. f.rx.len = N /\ (k = N <=> ~(k < N))
      BY <1>1, <2>2
    <3> QED BY <2>1, <2>4, <3>1
  <2>8. At(g, k)
    BY <2>1, <2>2, <2>4, <2>5, <2>6, <2>7 DEF Unchanged
  <2> HIDE DEF At
  <2> QED BY <2>1, <2>4, <2>8 DEF g
<1>4. fedAll(d, b) \in D[N]
  <2> HIDE DEF D
  <2> QED BY <1>2, <1>3, FedThrough
<1>5. N \in 0 .. N /\ ~(N < N)
  BY <1>1
<1>6. e \in Decoders /\ At(e, N)
  <2> HIDE DEF At
  <2> QED BY <1>4, <1>5
<1> QED BY <1>5, <1>6

\* The bytes of the signature, which nothing depends on.
LEMMA SignatureRead ==
  ASSUME NEW d \in Decoders, d.st.parse_state \in Signatures,
         NEW t \in Seq(Byte), d.st.signature_wait = Len(t), Len(t) # 0,
         NEW e, e = fedAll(d, t)
  PROVE  /\ e \in Decoders /\ e.st.parse_state = "IDLE"
         /\ d.st.parse_state = "SIGNATURE_WAIT" => /\ e.out = Append(d.out, decode(d.rx))
                                                   /\ e.crc_errors = d.crc_errors
         /\ d.st.parse_state # "SIGNATURE_WAIT" => /\ e.out = d.out
                                                   /\ e.crc_errors = d.crc_errors + 1
<1> DEFINE N == Len(t)
           At(f, k) ==
             IF k < N
             THEN /\ Unchanged(d, f) /\ f.rx = d.rx
                  /\ f.st.parse_state = d.st.parse_state
                  /\ f.st.signature_wait = N - k
             ELSE /\ f.st.parse_state = "IDLE"
                  /\ d.st.parse_state = "SIGNATURE_WAIT" =>
                        f.out = Append(d.out, decode(d.rx)) /\ f.crc_errors = d.crc_errors
                  /\ d.st.parse_state # "SIGNATURE_WAIT" =>
                        f.out = d.out /\ f.crc_errors = d.crc_errors + 1
           D == [k \in 0 .. N |-> {f \in Decoders : At(f, k)}]
<1>1. N \in Nat /\ \A k \in 1 .. N : t[k] \in Byte
  BY ByteAt
<1>2. d \in D[0]
  <2>1. 0 \in 0 .. N /\ N - 0 = N /\ 0 < N
    BY <1>1
  <2>2. At(d, 0)
    BY <2>1 DEF Unchanged
  <2> HIDE DEF At
  <2> QED BY <2>1, <2>2
<1>3. ASSUME NEW k \in 1 .. N, NEW f \in D[k - 1]
      PROVE  fed(f, t[k]) \in D[k]
  <2> DEFINE g == fed(f, t[k])
  <2>1. k - 1 \in 0 .. N /\ k \in 0 .. N /\ k - 1 < N
    BY <1>1
  <2>2. f \in Decoders /\ At(f, k - 1)
    <3> HIDE DEF At
    <3> QED BY <1>3, <2>1
  <2>3. /\ Unchanged(d, f) /\ f.rx = d.rx /\ f.st.parse_state = d.st.parse_state
        /\ f.st.signature_wait = N - (k - 1)
    BY <2>1, <2>2
  <2>4. CASE k < N
    <3>1. N - (k - 1) > 1 /\ (N - (k - 1)) - 1 = N - k
      BY <1>1, <2>4
    <3>2. /\ g \in Decoders /\ Unchanged(f, g) /\ g.rx = f.rx
          /\ g.st.parse_state = f.st.parse_state
          /\ g.st.signature_wait = f.st.signature_wait - 1
      <4> HIDE DEF At
      <4> QED BY <1>1, <2>2, <2>3, <3>1, FedSignature
    <3> HIDE DEF g
    <3>3. At(g, k)
      BY <2>3, <2>4, <3>1, <3>2 DEF Unchanged
    <3> HIDE DEF At
    <3> QED BY <2>1, <3>2, <3>3 DEF g
  <2>5. CASE ~(k < N)
    <3>1. N - (k - 1) = 1
      BY <1>1, <2>5
    <3>2. /\ g \in Decoders /\ g.st.parse_state = "IDLE"
          /\ f.st.parse_state = "SIGNATURE_WAIT" => /\ g.out = Append(f.out, decode(f.rx))
                                                    /\ g.crc_errors = f.crc_errors
          /\ f.st.parse_state # "SIGNATURE_WAIT" => /\ g.out = f.out
                                                    /\ g.crc_errors = f.crc_errors + 1
      <4> HIDE DEF At
      <4> QED BY <1>1, <2>2, <2>3, <3>1, FedLastSignature
    <3> HIDE DEF g
    <3>3. At(g, k)
      BY <2>3, <2>5, <3>2 DEF Unchanged
    <3> HIDE DEF At
    <3> QED BY <2>1, <3>2, <3>3 DEF g
  <2> QED BY <2>4, <2>5
<1>4. fedAll(d, t) \in D[N]
  <2> HIDE DEF D
  <2> QED BY <1>2, <1>3, FedThrough
<1>5. N \in 0 .. N /\ ~(N < N)
  BY <1>1
<1>6. e \in Decoders /\ At(e, N)
  <2> HIDE DEF At
  <2> QED BY <1>4, <1>5
<1> QED BY <1>5, <1>6

LEMMA Listed ==
  ASSUME NEW id \in Nat, NEW y \in mavlink_get_msg_entry(id)
  PROVE  /\ mavlink_get_msg_entry(id) = {y} /\ entry(id) = y /\ y.msgid = id
         /\ y.crc_extra \in Byte /\ y.min_len \in Nat /\ y.max_len \in Nat
<1>1. y \in TableEntry /\ y.msgid = id
  BY Lookup
<1>2. y = Entries[bisected(id) + 1]
  BY DEF mavlink_get_msg_entry
<1>3. bisected(id) + 1 \in DOMAIN Entries
  BY BisectionFinds, TableIsSorted
<1>4. y.crc_extra \in Byte /\ y.min_len \in 0 .. 255 /\ y.max_len \in 1 .. 255
  BY <1>1 DEF TableEntry
<1>5. \A n \in 0 .. 255 : n \in Nat
  OBVIOUS
<1>6. \A n \in 1 .. 255 : n \in Nat
  OBVIOUS
<1> QED BY <1>1, <1>2, <1>3, <1>4, <1>5, <1>6, Lookup, SMTT(30)

\* The check bytes that a frame must end with, and the message that it then is.
Passes(id, sum, c1, c2) ==
    \E y \in mavlink_get_msg_entry(id) :
        /\ c1 = crc_accumulate(sum, y.crc_extra) % 256
        /\ c2 = crc_accumulate(sum, y.crc_extra) \div 256

Message(id, sysid, b) ==
    [id |-> id, sysid |-> sysid,
     payload |-> [i \in 1 .. entry(id).max_len |-> IF i =< Len(b) THEN b[i] ELSE 0]]

\* How often a frame with this signature is counted if its check bytes are wrong.
errorsIn(t) == IF t = <<>> THEN 1 ELSE 2

\* The check bytes and the signature.
LEMMA TailRead ==
  ASSUME NEW d \in Decoders, d.st.parse_state = "GOT_PAYLOAD",
         NEW b \in Seq(Byte), d.st.packet_idx = Len(b), d.rx.len = Len(b),
         \A i \in 1 .. Len(b) : d.rx.payload[i] = b[i],
         NEW c1 \in Byte, NEW c2 \in Byte,
         NEW t \in Seq(Byte), Len(t) = trailer(d.rx.incompat_flags),
         NEW e, e = fedAll(fed(fed(d, c1), c2), t)
  PROVE  /\ e \in Decoders /\ e.st.parse_state = "IDLE"
         /\ Passes(d.rx.msgid, d.rx.checksum, c1, c2) =>
              /\ e.out = Append(d.out, Message(d.rx.msgid, d.rx.sysid, b))
              /\ e.crc_errors = d.crc_errors
         /\ ~Passes(d.rx.msgid, d.rx.checksum, c1, c2) =>
              /\ e.out = d.out /\ e.crc_errors = d.crc_errors + errorsIn(t)
<1> DEFINE id == d.rx.msgid
           sum == d.rx.checksum
           f == fed(d, c1)
           g == fed(f, c2)
           v == Message(id, d.rx.sysid, b)
           passed == Passes(id, sum, c1, c2)
<1>1. /\ d \in AnyDecoder /\ id \in Nat /\ sum \in CrcValue /\ d.rx.payload \in Seq(Byte)
      /\ Len(b) =< Len(d.rx.payload)
  BY DecoderFields DEF Decoders
<1>2. /\ f \in Decoders /\ Unchanged(d, f) /\ f.st.parse_state \in Checks
      /\ f.rx.incompat_flags = d.rx.incompat_flags
      /\ passed <=> Good(f, c2)
      /\ passed => decode(f.rx) = v
  <2>1. CASE mavlink_get_msg_entry(id) = {}
    <3>1. /\ f \in Decoders /\ Unchanged(d, f) /\ f.st.parse_state = "GOT_BAD_CRC1"
          /\ f.rx = d.rx
      BY <2>1, FedUnlisted
    <3>2. ~passed
      BY <2>1 DEF Passes
    <3> HIDE DEF f, passed
    <3> QED BY <3>1, <3>2 DEF Checks, Good
  <2>2. CASE mavlink_get_msg_entry(id) # {}
    <3>1. PICK y : y \in mavlink_get_msg_entry(id)
      BY <2>2
    <3>2. mavlink_get_msg_entry(id) = {y} /\ entry(id) = y
          /\ y.crc_extra \in Byte /\ y.max_len \in Nat
      BY <1>1, <3>1, Listed
    <3> DEFINE x == crc_accumulate(sum, y.crc_extra)
    <3>3. x \in CrcValue
      BY <1>1, <3>2, CrcType
    <3>4. passed <=> c1 = x % 256 /\ c2 = x \div 256
      BY <3>2 DEF Passes
    <3> DEFINE p == zeroFilled(d.rx.payload, d.st.packet_idx, y.max_len)
    <3>5. /\ f \in Decoders /\ Unchanged(d, f)
          /\ f.st.parse_state = IF c1 = x % 256 THEN "GOT_CRC1" ELSE "GOT_BAD_CRC1"
          /\ f.rx.len = d.rx.len /\ f.rx.incompat_flags = d.rx.incompat_flags
          /\ f.rx.sysid = d.rx.sysid /\ f.rx.msgid = d.rx.msgid
          /\ f.rx.payload = p /\ f.rx.checksum = x
      BY <3>2, FedListed, SMTT(30)
    <3>6. \A i \in 1 .. Len(b) : p[i] = b[i]
      <4> DEFINE q == d.rx.payload
                 n == d.st.packet_idx
                 m == y.max_len
      <4>1. q \in Seq(Byte) /\ n \in Nat /\ n =< Len(q) /\ m \in Nat /\ n = Len(b)
        BY <1>1, <3>2
      <4>2. \A i \in 1 .. n : q[i] = b[i]
        BY <4>1
      <4> HIDE DEF q, n, m
      <4>3. \A i \in 1 .. n : zeroFilled(q, n, m)[i] = q[i]
        BY <4>1, ZeroFilledIs
      <4> QED BY <4>1, <4>2, <4>3 DEF q, n, m
    <3> HIDE DEF x, p, f, passed
    <3>7. f.st.parse_state \in Checks /\ (passed <=> Good(f, c2))
      BY <3>4, <3>5 DEF Checks, Good
    <3>8. decode(f.rx) = v
      <4> DEFINE M == y.max_len
      <4>1. decode(f.rx) = [id |-> id, sysid |-> d.rx.sysid,
                            payload |-> [i \in 1 .. M |-> IF i =< Len(b) THEN p[i] ELSE 0]]
        BY <3>2, <3>5 DEF decode
      <4>2. v = [id |-> id, sysid |-> d.rx.sysid,
                 payload |-> [i \in 1 .. M |-> IF i =< Len(b) THEN b[i] ELSE 0]]
        BY <3>2 DEF Message
      <4>3. M \in Nat /\ Len(b) \in Nat
        BY <3>2
      <4>4. \A i \in 1 .. M : i =< Len(b) => p[i] = b[i]
        <5> HIDE DEF M
        <5>1. \A i \in 1 .. M : i =< Len(b) => i \in 1 .. Len(b)
          BY <4>3
        <5> QED BY <3>6, <5>1
      <4> HIDE DEF M, id, v
      <4>5. [i \in 1 .. M |-> IF i =< Len(b) THEN p[i] ELSE 0]
              = [i \in 1 .. M |-> IF i =< Len(b) THEN b[i] ELSE 0]
        BY <4>4
      <4> QED BY <4>1, <4>2, <4>5
    <3> QED BY <3>5, <3>7, <3>8
  <2> QED BY <2>1, <2>2
<1> HIDE DEF v, passed, f, id, sum
<1>3. CASE d.rx.incompat_flags = IFLAG_SIGNED
  <2>1. /\ g \in Decoders /\ g.out = f.out /\ g.rx = f.rx
        /\ g.crc_errors = IF Good(f, c2) THEN f.crc_errors ELSE f.crc_errors + 1
        /\ g.st.parse_state = IF Good(f, c2) THEN "SIGNATURE_WAIT"
                                             ELSE "SIGNATURE_WAIT_BAD_CRC"
        /\ g.st.signature_wait = SIGNATURE_BLOCK_LEN
    BY <1>2, <1>3, FedCheckSigned
  <2>2. Len(t) = SIGNATURE_BLOCK_LEN /\ Len(t) # 0
    BY <1>3 DEF trailer, SIGNATURE_BLOCK_LEN
  <2>3. g.st.parse_state \in Signatures
    <3> HIDE DEF g
    <3> QED BY <2>1 DEF Signatures
  <2>4. e = fedAll(g, t)
    BY DEF f
  <2> HIDE DEF g
  <2>5. /\ e \in Decoders /\ e.st.parse_state = "IDLE"
        /\ g.st.parse_state = "SIGNATURE_WAIT" => /\ e.out = Append(g.out, decode(g.rx))
                                                  /\ e.crc_errors = g.crc_errors
        /\ g.st.parse_state # "SIGNATURE_WAIT" => /\ e.out = g.out
                                                  /\ e.crc_errors = g.crc_errors + 1
    BY <2>1, <2>2, <2>3, <2>4, SignatureRead
  <2>6. errorsIn(t) = 2 /\ f.crc_errors \in Nat /\ (f.crc_errors + 1) + 1 = f.crc_errors + 2
    <3>1. f.crc_errors \in Nat
      BY <1>2, DecoderFields DEF Decoders
    <3>2. t # <<>>
      BY <2>2
    <3> QED BY <3>1, <3>2 DEF errorsIn
  <2>7. passed => e.out = Append(d.out, v) /\ e.crc_errors = d.crc_errors
    BY <1>2, <2>1, <2>5 DEF Unchanged
  <2>8. ~passed => e.out = d.out /\ e.crc_errors = d.crc_errors + errorsIn(t)
    BY <1>2, <2>1, <2>5, <2>6 DEF Unchanged
  <2> QED BY <2>5, <2>7, <2>8 DEF v, passed, id, sum
<1>4. CASE d.rx.incompat_flags # IFLAG_SIGNED
  <2>1. /\ g \in Decoders /\ g.st.parse_state = "IDLE"
        /\ Good(f, c2) => /\ g.out = Append(f.out, decode(f.rx))
                          /\ g.crc_errors = f.crc_errors
        /\ ~Good(f, c2) => g.out = f.out /\ g.crc_errors = f.crc_errors + 1
    BY <1>2, <1>4, FedCheckUnsigned
  <2>2. t = <<>>
    <3>1. Len(t) = 0
      BY <1>4 DEF trailer
    <3> QED BY <3>1
  <2>3. e = g
    BY <2>2, FedNothing DEF f
  <2>4. errorsIn(t) = 1
    BY <2>2 DEF errorsIn
  <2> HIDE DEF g
  <2> QED BY <1>2, <2>1, <2>3, <2>4 DEF Unchanged, v, passed, id, sum
<1> QED BY <1>3, <1>4

\* The parts of a frame.
Frame(start, h, b, c1, c2, t) == <<start>> \o h \o b \o <<c1, c2>> \o t

\* What the header h says of the message.
idIn(old, h) == IF old THEN h[5] ELSE h[7] + 256 * h[8] + 65536 * h[9]
sysidIn(old, h) == IF old THEN h[3] ELSE h[5]
startByte(old) == IF old THEN MAVLINK_STX_MAVLINK1 ELSE MAVLINK_STX

\* A header of either protocol that announces the body b and the signature t.
Heads(old, h, b, t) ==
    /\ old \in BOOLEAN /\ h \in Seq(Byte) /\ b \in Seq(Byte) /\ t \in Seq(Byte)
    /\ Len(h) = IF old THEN 5 ELSE 9
    /\ h[1] = Len(b)
    /\ ~old => ~(h[2] > IFLAG_SIGNED)
    /\ Len(t) = IF old THEN 0 ELSE trailer(h[2])

LEMMA FedTwo ==
  ASSUME NEW d, NEW c1 \in Byte, NEW c2 \in Byte
  PROVE  fedAll(d, <<c1, c2>>) = fed(fed(d, c1), c2)
<1> DEFINE b == <<c1, c2>>
<1>1. b \in Seq(Byte) /\ Len(b) = 2 /\ b[1] = c1 /\ b[2] = c2
  OBVIOUS
<1> HIDE DEF b
<1>2. PICK run : Run(run, d, b) /\ fedAll(d, b) = run[2]
  BY <1>1, FedIsRun
<1>3. 1 \in 1 .. 2 /\ 2 \in 1 .. 2 /\ 1 - 1 = 0 /\ 2 - 1 = 1
  OBVIOUS
<1>4. run[2] = fed(run[1], c2) /\ run[1] = fed(run[0], c1) /\ run[0] = d
  BY <1>1, <1>2, <1>3 DEF Run
<1> QED BY <1>2, <1>4 DEF b

LEMMA FedFrame ==
  ASSUME NEW d, NEW s \in Byte, NEW h \in Seq(Byte), NEW b \in Seq(Byte),
         NEW c1 \in Byte, NEW c2 \in Byte, NEW t \in Seq(Byte)
  PROVE  /\ Frame(s, h, b, c1, c2, t) \in Seq(Byte)
         /\ fedAll(d, Frame(s, h, b, c1, c2, t))
              = fedAll(fed(fed(fedAll(fedAll(fed(d, s), h), b), c1), c2), t)
<1> DEFINE ss == <<s>>
           cc == <<c1, c2>>
<1>1. ss \in Seq(Byte) /\ cc \in Seq(Byte)
  OBVIOUS
<1>2. \A x : fedAll(x, ss) = fed(x, s) /\ fedAll(x, cc) = fed(fed(x, c1), c2)
  BY FedOne, FedTwo
<1> HIDE DEF ss, cc
<1> DEFINE sh == ss \o h
           shb == sh \o b
           shbc == shb \o cc
<1>3. Frame(s, h, b, c1, c2, t) = shbc \o t
  BY DEF Frame, ss, cc
<1>4. sh \in Seq(Byte) /\ fedAll(d, sh) = fedAll(fed(d, s), h)
  BY <1>1, <1>2, FedTogether
<1> HIDE DEF sh
<1>5. shb \in Seq(Byte) /\ fedAll(d, shb) = fedAll(fedAll(d, sh), b)
  BY <1>4, FedTogether
<1> HIDE DEF shb
<1>6. /\ shbc \in Seq(Byte)
      /\ fedAll(d, shbc) = fed(fed(fedAll(d, shb), c1), c2)
  BY <1>1, <1>2, <1>5, FedTogether
<1> HIDE DEF shbc
<1>7. shbc \o t \in Seq(Byte) /\ fedAll(d, shbc \o t) = fedAll(fedAll(d, shbc), t)
  BY <1>6, FedTogether
<1> QED BY <1>3, <1>4, <1>5, <1>6, <1>7

\* A frame is a message or an error, and the decoder is ready for the next one.
LEMMA FrameRead ==
  ASSUME NEW d \in Decoders, d.st.parse_state = "IDLE",
         NEW old, NEW h, NEW b, NEW t, Heads(old, h, b, t),
         NEW c1 \in Byte, NEW c2 \in Byte,
         NEW e, e = fedAll(d, Frame(startByte(old), h, b, c1, c2, t))
  PROVE  /\ e \in Decoders /\ e.st.parse_state = "IDLE"
         /\ Passes(idIn(old, h), crc_calculate(h \o b), c1, c2) =>
              /\ e.out = Append(d.out, Message(idIn(old, h), sysidIn(old, h), b))
              /\ e.crc_errors = d.crc_errors
         /\ ~Passes(idIn(old, h), crc_calculate(h \o b), c1, c2) =>
              /\ e.out = d.out /\ e.crc_errors = d.crc_errors + errorsIn(t)
<1> DEFINE n == Len(h)
           s == startByte(old)
           f == fedAll(fed(d, s), h)
           g == fedAll(f, b)
           flags == IF old THEN 0 ELSE h[2]
<1>1. /\ old \in BOOLEAN /\ h \in Seq(Byte) /\ b \in Seq(Byte) /\ t \in Seq(Byte)
      /\ n \in Nat /\ Len(b) \in Nat /\ h[1] = Len(b)
  <2>1. old \in BOOLEAN /\ h \in Seq(Byte) /\ b \in Seq(Byte) /\ t \in Seq(Byte)
        /\ h[1] = Len(b)
    BY DEF Heads
  <2> QED BY <2>1, ByteAt
<1>2. s \in Byte
  BY <1>1 DEF startByte, MAVLINK_STX, MAVLINK_STX_MAVLINK1, Byte
<1>3. e = fedAll(fed(fed(g, c1), c2), t)
  BY <1>1, <1>2, FedFrame
<1>4. /\ h \o b \in Seq(Byte) /\ Len(h \o b) = n + Len(b)
      /\ \A k \in 1 .. n : (h \o b)[k] = h[k]
      /\ \A k \in 1 .. Len(b) : (h \o b)[n + k] = b[k]
  BY <1>1
<1>5. PICK C : Sums(C, h \o b) /\ crc_calculate(h \o b) = C[Len(h \o b)]
  BY <1>4, CrcIsSum
<1>6. Sums(C, h)
  <2>1. \A k \in 1 .. n : k \in 1 .. Len(h \o b)
    BY <1>1, <1>4
  <2>2. \A k \in 1 .. n : C[k] = crc_accumulate(C[k - 1], h[k])
    BY <1>4, <1>5, <2>1 DEF Sums
  <2> QED BY <1>5, <2>2 DEF Sums
<1>7. SumsOn(C, n, b)
  <2>1. \A k \in 1 .. Len(b) : n + k \in 1 .. Len(h \o b)
    BY <1>1, <1>4
  <2>2. ASSUME NEW k \in 1 .. Len(b)
        PROVE  C[n + k] = crc_accumulate(C[(n + k) - 1], b[k])
    <3>1. n + k \in 1 .. Len(h \o b) /\ (h \o b)[n + k] = b[k]
      BY <1>4, <2>1
    <3>2. C[n + k] = crc_accumulate(C[(n + k) - 1], (h \o b)[n + k])
      BY <1>5, <3>1 DEF Sums
    <3> QED BY <3>1, <3>2
  <2> QED BY <2>2 DEF SumsOn
<1> HIDE DEF n, s
<1>8. /\ f \in Decoders /\ Unchanged(d, f)
      /\ f.st.parse_state = IF h[1] > 0 THEN "GOT_MSGID3" ELSE "GOT_PAYLOAD"
      /\ f.st.packet_idx = 0 /\ f.rx.len = h[1] /\ f.rx.incompat_flags = flags
      /\ f.rx.sysid = sysidIn(old, h) /\ f.rx.msgid = idIn(old, h)
      /\ f.rx.checksum = C[n]
  <2>1. CASE old
    <3>1. Len(h) = 5 /\ f = fedAll(fed(d, MAVLINK_STX_MAVLINK1), h)
      BY <2>1 DEF Heads, s, startByte
    <3> HIDE DEF f
    <3>2. /\ f \in Decoders /\ Unchanged(d, f)
          /\ f.st.parse_state = IF h[1] > 0 THEN "GOT_MSGID3" ELSE "GOT_PAYLOAD"
          /\ f.st.packet_idx = 0 /\ f.rx.len = h[1] /\ f.rx.incompat_flags = 0
          /\ f.rx.sysid = h[3] /\ f.rx.msgid = h[5]
          /\ f.rx.checksum = C[5]
      <4>1. /\ d \in Decoders /\ d.st.parse_state = "IDLE" /\ h \in Seq(Byte)
            /\ Sums(C, h)
        BY <1>1, <1>6
      <4> QED BY ONLY <3>1, <4>1, OldHeadRead
    <3> QED BY <2>1, <3>1, <3>2 DEF n, sysidIn, idIn
  <2>2. CASE ~old
    <3>1. Len(h) = 9 /\ f = fedAll(fed(d, MAVLINK_STX), h) /\ ~(h[2] > IFLAG_SIGNED)
      BY <1>1, <2>2 DEF Heads, s, startByte
    <3> HIDE DEF f
    <3>2. /\ f \in Decoders /\ Unchanged(d, f)
          /\ f.st.parse_state = IF h[1] > 0 THEN "GOT_MSGID3" ELSE "GOT_PAYLOAD"
          /\ f.st.packet_idx = 0 /\ f.rx.len = h[1] /\ f.rx.incompat_flags = h[2]
          /\ f.rx.sysid = h[5] /\ f.rx.msgid = h[7] + 256 * h[8] + 65536 * h[9]
          /\ f.rx.checksum = C[9]
      <4>1. /\ d \in Decoders /\ d.st.parse_state = "IDLE" /\ h \in Seq(Byte)
            /\ Sums(C, h)
        BY <1>1, <1>6
      <4> QED BY ONLY <3>1, <4>1, HeadRead
    <3> QED BY <2>2, <3>1, <3>2 DEF n, sysidIn, idIn
  <2> QED BY <2>1, <2>2
<1> HIDE DEF f
<1>9. /\ g \in Decoders /\ Unchanged(f, g)
      /\ g.st.parse_state = "GOT_PAYLOAD" /\ g.st.packet_idx = Len(b)
      /\ g.rx.len = Len(b) /\ g.rx.incompat_flags = f.rx.incompat_flags
      /\ g.rx.sysid = f.rx.sysid /\ g.rx.msgid = f.rx.msgid
      /\ \A i \in 1 .. Len(b) : g.rx.payload[i] = b[i]
      /\ g.rx.checksum = C[n + Len(b)]
  <2>1. f.st.parse_state = (IF f.rx.len > 0 THEN "GOT_MSGID3" ELSE "GOT_PAYLOAD")
        /\ f.rx.len = Len(b)
    BY <1>1, <1>8
  <2>2. n \in Nat
    BY <1>1 DEF n
  <2>3. /\ f \in Decoders /\ b \in Seq(Byte) /\ f.st.packet_idx = 0
        /\ f.rx.checksum = C[n] /\ SumsOn(C, n, b) /\ g = fedAll(f, b)
    BY <1>1, <1>7, <1>8
  <2> HIDE DEF g
  <2> QED BY ONLY <2>1, <2>2, <2>3, BodyRead
<1> HIDE DEF g
<1>10. Len(t) = trailer(g.rx.incompat_flags)
  <2>1. trailer(0) = 0
    BY DEF trailer, IFLAG_SIGNED
  <2> QED BY <1>1, <1>8, <1>9, <2>1 DEF Heads
<1>11. /\ g.rx.msgid = idIn(old, h) /\ g.rx.sysid = sysidIn(old, h)
       /\ g.rx.checksum = crc_calculate(h \o b)
  BY <1>4, <1>5, <1>8, <1>9
<1>12. /\ e \in Decoders /\ e.st.parse_state = "IDLE"
       /\ Passes(g.rx.msgid, g.rx.checksum, c1, c2) =>
            /\ e.out = Append(g.out, Message(g.rx.msgid, g.rx.sysid, b))
            /\ e.crc_errors = g.crc_errors
       /\ ~Passes(g.rx.msgid, g.rx.checksum, c1, c2) =>
            /\ e.out = g.out /\ e.crc_errors = g.crc_errors + errorsIn(t)
  <2>1. /\ g \in Decoders /\ g.st.parse_state = "GOT_PAYLOAD"
        /\ b \in Seq(Byte) /\ g.st.packet_idx = Len(b) /\ g.rx.len = Len(b)
        /\ \A i \in 1 .. Len(b) : g.rx.payload[i] = b[i]
        /\ c1 \in Byte /\ c2 \in Byte
        /\ t \in Seq(Byte) /\ Len(t) = trailer(g.rx.incompat_flags)
        /\ e = fedAll(fed(fed(g, c1), c2), t)
    BY <1>1, <1>3, <1>9, <1>10
  <2> QED BY <2>1, TailRead
<1> QED BY <1>8, <1>9, <1>11, <1>12 DEF Unchanged

-----------------------------------------------------------------------------
(***************************************************************************)
(* The frames of the sender.                                               *)
(***************************************************************************)
LEMMA CrcCalculateType ==
  ASSUME NEW bytes \in Seq(Byte)
  PROVE  crc_calculate(bytes) \in CrcValue
<1> DEFINE N == Len(bytes)
<1>1. PICK C : Sums(C, bytes) /\ crc_calculate(bytes) = C[N]
  BY CrcIsSum
<1> DEFINE S == {k \in 0 .. N : C[k] \in CrcValue}
<1>2. N \in Nat /\ \A k \in 1 .. N : bytes[k] \in Byte
  BY ByteAt
<1>3. 0 \in S
  BY <1>1, <1>2 DEF Sums, CrcValue
<1>4. ASSUME NEW k \in 0 .. N - 1, k \in S PROVE k + 1 \in S
  <2>1. k + 1 \in 1 .. N /\ k + 1 \in 0 .. N /\ (k + 1) - 1 = k
    BY <1>2
  <2>2. C[k + 1] = crc_accumulate(C[k], bytes[k + 1])
    BY <1>1, <2>1 DEF Sums
  <2> QED BY <1>2, <1>4, <2>1, <2>2, CrcType
<1>5. N \in S
  <2> HIDE DEF N, S
  <2> QED BY <1>2, <1>3, <1>4, UpToLast
<1> QED BY <1>1, <1>5

LEMMA TrimmedIs ==
  ASSUME NEW p \in Seq(Byte), Len(p) # 0
  PROVE  \E k \in 1 .. Len(p) : /\ trimmed(p) = SubSeq(p, 1, k)
                                /\ \A i \in k + 1 .. Len(p) : p[i] = 0
<1> DEFINE N == Len(p)
           Ends(k) == /\ k > 1 => p[k] # 0
                      /\ \A i \in k + 1 .. N : p[i] = 0
           S == {k \in 1 .. N : k = 1 \/ p[k] # 0}
           last == CHOOSE k \in 1 .. N : Ends(k)
<1>1. N \in Nat \ {0}
  OBVIOUS
<1>2. PICK k \in S : \A i \in S : i =< k
  <2>1. 1 \in S /\ S \in SUBSET (0 .. N)
    BY <1>1
  <2> HIDE DEF S, N
  <2> QED BY <1>1, <2>1, GreatestOf
<1>3. k \in 1 .. N /\ Ends(k)
  <2>1. ASSUME NEW i \in k + 1 .. N PROVE p[i] = 0
    <3>1. i \in 1 .. N /\ ~(i =< k)
      BY <1>1, <1>2, <2>1
    <3> QED BY <1>2, <3>1
  <2>2. k > 1 => p[k] # 0
    BY <1>2
  <2> QED BY <1>2, <2>1, <2>2
<1>4. last \in 1 .. N /\ Ends(last)
  <2> HIDE DEF Ends
  <2> QED BY <1>3
<1>5. trimmed(p) = SubSeq(p, 1, last)
  BY SMTT(30) DEF trimmed
<1> HIDE DEF last
<1> QED BY <1>4, <1>5

\* A message is listed, and the header says what it is.
LEMMA MessageIs ==
  ASSUME NEW m \in Messages
  PROVE  /\ m.form \in {"v1", "v2", "signed"} /\ m.id \in MessageId /\ m.id \in Nat
         /\ m.form = "v1" => m.id \in Byte
         /\ m.sysid \in Byte /\ m.payload \in Seq(Byte)
         /\ mavlink_get_msg_entry(m.id) = {entry(m.id)}
         /\ entry(m.id).crc_extra \in Byte /\ entry(m.id).min_len \in Byte
         /\ entry(m.id).min_len =< Len(m.payload)
         /\ entry(m.id).max_len = Len(m.payload)
         /\ Len(m.payload) \in Nat \ {0} /\ Len(m.payload) =< 255
<1>1. m \in [form : {"v1", "v2", "signed"}, id : MessageId, sysid : Byte,
             payload : Seq(Byte)]
  BY CodecAssumption
<1>2. m.id \in MessageId /\ m.id \in Nat
  BY <1>1, IdBytes
<1>3. PICK i \in DOMAIN Entries : Entries[i].msgid = m.id
                                  /\ Entries[i].max_len = Len(m.payload)
  BY CodecAssumption
<1>4. mavlink_get_msg_entry(m.id) = {Entries[i]} /\ entry(m.id) = Entries[i]
  BY <1>2, <1>3, Lookup
<1>5. entry(m.id) \in TableEntry
  BY <1>2, <1>4, Lookup
<1>6. /\ entry(m.id).crc_extra \in Byte /\ entry(m.id).min_len \in 0 .. 255
      /\ entry(m.id).max_len \in 1 .. 255
  BY <1>5 DEF TableEntry
<1>7. entry(m.id).min_len =< entry(m.id).max_len
  BY <1>4, CodecAssumption
<1>8. m.form = "v1" => m.id \in Byte
  BY CodecAssumption
<1>9. entry(m.id).min_len \in Byte
  BY <1>6 DEF Byte
<1>10. entry(m.id).max_len = Len(m.payload)
  BY <1>3, <1>4
<1>11. Len(m.payload) \in Nat \ {0} /\ Len(m.payload) =< 255
  <2> DEFINE k == Len(m.payload)
  <2>1. k \in 1 .. 255
    BY <1>6, <1>10
  <2> HIDE DEF k
  <2>2. k \in Nat \ {0} /\ k =< 255
    BY <2>1
  <2> QED BY <2>2, SMTT(30) DEF k
<1>12. m.form \in {"v1", "v2", "signed"} /\ m.sysid \in Byte /\ m.payload \in Seq(Byte)
  BY <1>1
<1>13. mavlink_get_msg_entry(m.id) = {entry(m.id)}
  BY <1>4
<1>14. entry(m.id).min_len =< Len(m.payload)
  BY <1>7, <1>10
<1> QED BY <1>2, <1>6, <1>8, <1>9, <1>10, <1>11, <1>12, <1>13, <1>14

LEMMA BodyIs ==
  ASSUME NEW m \in Messages
  PROVE  /\ body(m) \in Seq(Byte) /\ Len(body(m)) \in Byte
         /\ Len(body(m)) =< Len(m.payload)
         /\ \A i \in 1 .. Len(body(m)) : body(m)[i] = m.payload[i]
         /\ m.form = "v1" => Len(body(m)) = entry(m.id).min_len
         /\ m.form # "v1" => \A i \in 1 .. Len(m.payload) :
                                i > Len(body(m)) => m.payload[i] = 0
<1> DEFINE p == m.payload
           N == Len(p)
           low == entry(m.id).min_len
<1>1. p \in Seq(Byte) /\ N \in Nat /\ N # 0 /\ N =< 255 /\ low \in Byte /\ low =< N
  BY MessageIs
<1>2. \A k \in 0 .. N : /\ SubSeq(p, 1, k) \in Seq(Byte) /\ Len(SubSeq(p, 1, k)) = k
                        /\ \A i \in 1 .. k : SubSeq(p, 1, k)[i] = p[i]
  <2> HIDE DEF p
  <2> QED BY <1>1
<1>3. CASE m.form = "v1"
  <2>1. low \in 0 .. N
    <3> HIDE DEF low, N
    <3> QED BY <1>1 DEF Byte
  <2>2. body(m) = SubSeq(p, 1, low)
    BY <1>3 DEF body
  <2> HIDE DEF p, low, N
  <2>3. body(m) \in Seq(Byte) /\ Len(body(m)) = low
        /\ \A i \in 1 .. low : body(m)[i] = p[i]
    BY <1>2, <2>1, <2>2
  <2> QED BY <1>1, <1>3, <2>3 DEF p, low, N
<1>4. CASE m.form # "v1"
  <2>1. PICK k \in 1 .. N : /\ trimmed(p) = SubSeq(p, 1, k)
                            /\ \A i \in k + 1 .. N : p[i] = 0
    BY <1>1, TrimmedIs
  <2>2. k \in 0 .. N /\ k \in Byte /\ k =< N /\ k \in Nat
    <3> HIDE DEF N
    <3> QED BY <1>1 DEF Byte
  <2>3. body(m) = SubSeq(p, 1, k)
    BY <1>4, <2>1 DEF body
  <2>4. \A i \in 1 .. N : i > k => p[i] = 0
    <3>1. \A i \in 1 .. N : i > k => i \in k + 1 .. N
      <4> HIDE DEF N
      <4> QED BY <1>1, <2>2
    <3> HIDE DEF p
    <3> QED BY <2>1, <3>1
  <2> HIDE DEF p, N
  <2>5. body(m) \in Seq(Byte) /\ Len(body(m)) = k /\ \A i \in 1 .. k : body(m)[i] = p[i]
    BY <1>2, <2>2, <2>3
  <2> QED BY <1>4, <2>2, <2>4, <2>5 DEF p, N
<1> QED BY <1>3, <1>4

\* The parts of the frame of m.
Parts(m, n, old, h, b, c1, c2, t) ==
    /\ Heads(old, h, b, t)
    /\ c1 \in Byte /\ c2 \in Byte
    /\ old <=> m.form = "v1"
    /\ Len(t) = IF m.form = "signed" THEN SIGNATURE_BLOCK_LEN ELSE 0
    /\ serialize(m, n) = Frame(startByte(old), h, b, c1, c2, t)
    /\ Passes(idIn(old, h), crc_calculate(h \o b), c1, c2)
    /\ Message(idIn(old, h), sysidIn(old, h), b) = received(m)

LEMMA HeaderIs ==
  ASSUME NEW m \in Messages, NEW n \in Byte
  PROVE  /\ header(m, n) \in Seq(Byte)
         /\ m.form = "v1" =>
              /\ Len(header(m, n)) = 5
              /\ header(m, n)[1] = Len(body(m))
              /\ header(m, n)[3] = m.sysid /\ header(m, n)[5] = m.id
         /\ m.form # "v1" =>
              /\ Len(header(m, n)) = 9
              /\ header(m, n)[1] = Len(body(m))
              /\ header(m, n)[2] = (IF m.form = "signed" THEN IFLAG_SIGNED ELSE 0)
              /\ header(m, n)[5] = m.sysid
              /\ header(m, n)[7] + 256 * header(m, n)[8] + 65536 * header(m, n)[9] = m.id
<1> DEFINE l == Len(body(m))
           f == IF m.form = "signed" THEN IFLAG_SIGNED ELSE 0
           i1 == m.id % 256
           i2 == (m.id \div 256) % 256
           i3 == m.id \div 65536
           s == m.sysid
           i == m.id
<1>1. /\ l \in Byte /\ f \in Byte /\ s \in Byte /\ 0 \in Byte /\ 1 \in Byte
      /\ m.form = "v1" => i \in Byte
  <2>1. f \in Byte /\ 0 \in Byte /\ 1 \in Byte
    BY DEF Byte, IFLAG_SIGNED
  <2> QED BY <2>1, BodyIs, MessageIs
<1>2. /\ i1 \in Byte /\ i2 \in Byte /\ i3 \in Byte
      /\ i = i1 + 256 * i2 + 65536 * i3
  <2>1. m.id \in MessageId
    BY MessageIs
  <2> QED BY <2>1, IdBytes
<1>3. CASE m.form = "v1"
  <2>1. header(m, n) = <<l, n, s, 1, i>>
    BY <1>3 DEF header
  <2> HIDE DEF l, s, i
  <2>2. /\ <<l, n, s, 1, i>> \in Seq(Byte) /\ Len(<<l, n, s, 1, i>>) = 5
        /\ <<l, n, s, 1, i>>[1] = l /\ <<l, n, s, 1, i>>[3] = s
        /\ <<l, n, s, 1, i>>[5] = i
    BY <1>1, <1>3
  <2> QED BY <1>3, <2>1, <2>2 DEF l, s, i
<1>4. CASE m.form # "v1"
  <2>1. header(m, n) = <<l, f, 0, n, s, 1, i1, i2, i3>>
    BY <1>4 DEF header
  <2> DEFINE hh == <<l, f, 0, n, s, 1, i1, i2, i3>>
  <2> HIDE DEF l, s, f, i1, i2, i3, i
  <2>2. hh \in Seq(Byte) /\ Len(hh) = 9
    BY <1>1, <1>2
  <2>3. hh[1] = l /\ hh[2] = f /\ hh[5] = s /\ hh[7] = i1 /\ hh[8] = i2 /\ hh[9] = i3
    OBVIOUS
  <2> HIDE DEF hh
  <2>4. header(m, n) = hh
    BY <2>1 DEF hh
  <2>5. hh[7] + 256 * hh[8] + 65536 * hh[9] = i
    BY <1>2, <2>3
  <2> QED BY <1>4, <2>2, <2>3, <2>4, <2>5 DEF l, s, f, i
<1> QED BY <1>3, <1>4

LEMMA ReceivedIs ==
  ASSUME NEW m \in Messages
  PROVE  Message(m.id, m.sysid, body(m)) = received(m)
<1> DEFINE p == m.payload
           N == Len(p)
           low == entry(m.id).min_len
           b == body(m)
           F(i) == IF i =< Len(b) THEN b[i] ELSE 0
           G(i) == IF m.form = "v1" /\ i > low THEN 0 ELSE p[i]
<1>1. p \in Seq(Byte) /\ N \in Nat /\ low \in Byte /\ entry(m.id).max_len = N
  BY MessageIs
<1>2. /\ Len(b) \in Byte /\ Len(b) =< N
      /\ \A i \in 1 .. Len(b) : b[i] = p[i]
      /\ m.form = "v1" => Len(b) = low
      /\ m.form # "v1" => \A i \in 1 .. N : i > Len(b) => p[i] = 0
  BY BodyIs
<1>3. DOMAIN p = 1 .. N
  BY <1>1
<1>4. Message(m.id, m.sysid, b) = [id |-> m.id, sysid |-> m.sysid,
                                   payload |-> [i \in 1 .. N |-> F(i)]]
  BY <1>1 DEF Message
<1>5. received(m) = [id |-> m.id, sysid |-> m.sysid,
                     payload |-> [i \in 1 .. N |-> G(i)]]
  BY <1>3 DEF received
<1>6. ASSUME NEW i \in 1 .. N PROVE F(i) = G(i)
  <2> HIDE DEF p, N, low, b
  <2>1. Len(b) \in Nat /\ i \in Nat
    BY <1>1, <1>2 DEF Byte
  <2>2. CASE i =< Len(b)
    <3>1. i \in 1 .. Len(b)
      BY <1>1, <2>1, <2>2
    <3>2. m.form = "v1" => ~(i > low)
      BY <1>2, <2>1, <2>2
    <3> QED BY <1>2, <2>2, <3>1, <3>2
  <2>3. CASE ~(i =< Len(b))
    <3>1. i > Len(b)
      BY <2>1, <2>3
    <3>2. CASE m.form = "v1"
      BY <1>2, <2>3, <3>1, <3>2
    <3>3. CASE m.form # "v1"
      <4>1. p[i] = 0
        BY <1>2, <3>1, <3>3
      <4> QED BY <2>3, <3>3, <4>1
    <3> QED BY <3>2, <3>3
  <2> QED BY <2>2, <2>3
<1> HIDE DEF F, G
<1>7. [i \in 1 .. N |-> F(i)] = [i \in 1 .. N |-> G(i)]
  BY <1>6
<1> QED BY <1>4, <1>5, <1>7

LEMMA Serialized ==
  ASSUME NEW m \in Messages, NEW n \in Byte
  PROVE  \E old, h, b, c1, c2, t : Parts(m, n, old, h, b, c1, c2, t)
<1> DEFINE old == m.form = "v1"
           h == header(m, n)
           b == body(m)
           y == entry(m.id)
           x == crc_accumulate(crc_calculate(h \o b), y.crc_extra)
           c1 == x % 256
           c2 == x \div 256
           t == IF m.form = "signed" THEN [i \in 1 .. SIGNATURE_BLOCK_LEN |-> i] ELSE <<>>
<1>1. /\ m.form \in {"v1", "v2", "signed"} /\ mavlink_get_msg_entry(m.id) = {y}
      /\ y.crc_extra \in Byte
  BY MessageIs
<1>2. h \in Seq(Byte) /\ b \in Seq(Byte)
  BY HeaderIs, BodyIs
<1>3. x \in CrcValue
  <2>1. h \o b \in Seq(Byte)
    <3> HIDE DEF h, b
    <3> QED BY <1>2
  <2> QED BY <1>1, <2>1, CrcCalculateType, CrcType
<1>4. c1 \in Byte /\ c2 \in Byte
  <2> HIDE DEF x
  <2> QED BY <1>3, OfTwoBytes
<1>5. t \in Seq(Byte) /\ Len(t) = IF m.form = "signed" THEN SIGNATURE_BLOCK_LEN ELSE 0
  <2> DEFINE sig == [i \in 1 .. SIGNATURE_BLOCK_LEN |-> i]
  <2>1. sig \in Seq(Byte) /\ Len(sig) = SIGNATURE_BLOCK_LEN
    BY DEF SIGNATURE_BLOCK_LEN, Byte
  <2>2. <<>> \in Seq(Byte) /\ Len(<<>>) = 0
    OBVIOUS
  <2> HIDE DEF sig
  <2>3. t = IF m.form = "signed" THEN sig ELSE <<>>
    BY DEF sig
  <2> QED BY <2>1, <2>2, <2>3
<1>6. Heads(old, h, b, t)
  <2>1. Len(h) = IF old THEN 5 ELSE 9
    BY HeaderIs
  <2>2. h[1] = Len(b)
    BY HeaderIs
  <2>3. ~old => /\ ~(h[2] > IFLAG_SIGNED)
                /\ Len(t) = trailer(h[2])
    <3>1. ~old => h[2] = IF m.form = "signed" THEN IFLAG_SIGNED ELSE 0
      BY HeaderIs
    <3> HIDE DEF h, t
    <3> QED BY <1>5, <3>1 DEF IFLAG_SIGNED, trailer
  <2>4. old => Len(t) = 0
    <3> HIDE DEF t
    <3> QED BY <1>5
  <2>5. old \in BOOLEAN
    OBVIOUS
  <2> HIDE DEF old, h, b, t
  <2> QED BY <1>2, <1>5, <2>1, <2>2, <2>3, <2>4, <2>5 DEF Heads
<1>7. serialize(m, n) = Frame(startByte(old), h, b, c1, c2, t)
  BY DEF serialize, Frame, startByte
<1>8. idIn(old, h) = m.id /\ sysidIn(old, h) = m.sysid
  BY HeaderIs DEF idIn, sysidIn
<1>9. Passes(idIn(old, h), crc_calculate(h \o b), c1, c2)
  BY <1>1, <1>8 DEF Passes
<1>10. Message(idIn(old, h), sysidIn(old, h), b) = received(m)
  BY <1>8, ReceivedIs
<1>11. old <=> m.form = "v1"
  OBVIOUS
<1> HIDE DEF old, h, b, c1, c2, t
<1>12. Parts(m, n, old, h, b, c1, c2, t)
  BY <1>4, <1>5, <1>6, <1>7, <1>9, <1>10, <1>11 DEF Parts
<1> QED BY <1>12

\* A whole frame comes out as what its receiver reads.
LEMMA WholeFrame ==
  ASSUME NEW d \in Decoders, d.st.parse_state = "IDLE",
         NEW m \in Messages, NEW n \in Byte,
         NEW e, e = fedAll(d, serialize(m, n))
  PROVE  /\ e \in Decoders /\ e.st.parse_state = "IDLE"
         /\ e.out = Append(d.out, received(m)) /\ e.crc_errors = d.crc_errors
<1>1. PICK old, h, b, c1, c2, t : Parts(m, n, old, h, b, c1, c2, t)
  BY Serialized
<1>2. /\ Heads(old, h, b, t) /\ c1 \in Byte /\ c2 \in Byte
      /\ Passes(idIn(old, h), crc_calculate(h \o b), c1, c2)
      /\ e = fedAll(d, Frame(startByte(old), h, b, c1, c2, t))
  BY <1>1 DEF Parts
<1>3. /\ e \in Decoders /\ e.st.parse_state = "IDLE"
      /\ e.out = Append(d.out, Message(idIn(old, h), sysidIn(old, h), b))
      /\ e.crc_errors = d.crc_errors
  BY <1>2, FrameRead, SMTT(30)
<1> QED BY <1>1, <1>3 DEF Parts

-----------------------------------------------------------------------------
(***************************************************************************)
(* What the checksum tells apart.                                          *)
(***************************************************************************)
LEMMA BitsOf ==
  \A v \in Half : v = (v % 2) + 2 * ((v \div 2) % 2) + 4 * ((v \div 4) % 2)
                      + 8 * ((v \div 8) % 2)
  BY DEF Half

bitOf(v, w) == (v \div w) % 2
flag(x, y, w) == IF x = y THEN 0 ELSE w

LEMMA HalfBytesAre ==
  ASSUME NEW a \in Half, NEW b \in Half
  PROVE  halfBytes[a][b] = flag(bitOf(a, 1), bitOf(b, 1), 1) + flag(bitOf(a, 2), bitOf(b, 2), 2)
                           + flag(bitOf(a, 4), bitOf(b, 4), 4) + flag(bitOf(a, 8), bitOf(b, 8), 8)
  BY DEF halfBytes, Half, flag, bitOf

LEMMA HalfIs ==
  ASSUME NEW a \in Half
  PROVE  /\ bitOf(a, 1) \in {0, 1} /\ bitOf(a, 2) \in {0, 1}
         /\ bitOf(a, 4) \in {0, 1} /\ bitOf(a, 8) \in {0, 1}
         /\ a = bitOf(a, 1) + 2 * bitOf(a, 2) + 4 * bitOf(a, 4) + 8 * bitOf(a, 8)
<1>1. a \div 1 = a
  BY DEF Half
<1> QED BY <1>1, BitsOf DEF bitOf, Half

LEMMA HalfSymmetric == \A a, b \in Half : halfBytes[a][b] = halfBytes[b][a]
<1>1. \A x, y, w : flag(x, y, w) = flag(y, x, w)
  BY DEF flag
<1> QED BY <1>1, HalfBytesAre

LEMMA HalfZero == \A a \in Half : 0 \in Half /\ halfBytes[a][0] = a
<1> SUFFICES ASSUME NEW a \in Half PROVE halfBytes[a][0] = a
  BY DEF Half
<1>1. 0 \in Half /\ bitOf(0, 1) = 0 /\ bitOf(0, 2) = 0 /\ bitOf(0, 4) = 0 /\ bitOf(0, 8) = 0
  BY DEF Half, bitOf
<1>2. halfBytes[a][0] = flag(bitOf(a, 1), 0, 1) + flag(bitOf(a, 2), 0, 2)
                        + flag(bitOf(a, 4), 0, 4) + flag(bitOf(a, 8), 0, 8)
  BY <1>1, HalfBytesAre
<1> DEFINE p == bitOf(a, 1)
           q == bitOf(a, 2)
           r == bitOf(a, 4)
           s == bitOf(a, 8)
<1>3. p \in {0, 1} /\ q \in {0, 1} /\ r \in {0, 1} /\ s \in {0, 1}
      /\ a = p + 2 * q + 4 * r + 8 * s
  BY HalfIs
<1> HIDE DEF p, q, r, s
<1>4. flag(p, 0, 1) = p /\ flag(q, 0, 2) = 2 * q /\ flag(r, 0, 4) = 4 * r /\ flag(s, 0, 8) = 8 * s
  BY <1>3 DEF flag
<1> QED BY <1>2, <1>3, <1>4 DEF p, q, r, s

LEMMA HalfInjective ==
  ASSUME NEW a \in Half, NEW x \in Half, NEW y \in Half, halfBytes[a][x] = halfBytes[a][y]
  PROVE  x = y
<1> DEFINE f(i, w) == flag(bitOf(a, w), bitOf(i, w), w)
<1>1. \A w : \A i \in {x, y} : f(i, w) = 0 \/ f(i, w) = w
  BY DEF flag
<1>2. f(x, 1) + f(x, 2) + f(x, 4) + f(x, 8) = f(y, 1) + f(y, 2) + f(y, 4) + f(y, 8)
  BY HalfBytesAre
<1> HIDE DEF f
<1>3. f(x, 1) = f(y, 1) /\ f(x, 2) = f(y, 2) /\ f(x, 4) = f(y, 4) /\ f(x, 8) = f(y, 8)
  BY <1>1, <1>2
<1>4. ASSUME NEW w \in {1, 2, 4, 8}, f(x, w) = f(y, w),
             bitOf(a, w) \in {0, 1}, bitOf(x, w) \in {0, 1}, bitOf(y, w) \in {0, 1}
      PROVE  bitOf(x, w) = bitOf(y, w)
  BY <1>4 DEF f, flag
<1>5. /\ bitOf(x, 1) = bitOf(y, 1) /\ bitOf(x, 2) = bitOf(y, 2)
      /\ bitOf(x, 4) = bitOf(y, 4) /\ bitOf(x, 8) = bitOf(y, 8)
  BY <1>3, <1>4, HalfIs
<1> QED BY <1>5, HalfIs

LEMMA XorHalves ==
  ASSUME NEW a \in Byte, NEW b \in Byte
  PROVE  /\ a \div 16 \in Half /\ a % 16 \in Half /\ b \div 16 \in Half /\ b % 16 \in Half
         /\ a = 16 * (a \div 16) + (a % 16)
         /\ xor(a, b) \div 16 = halfBytes[a \div 16][b \div 16]
         /\ xor(a, b) % 16 = halfBytes[a % 16][b % 16]
<1>1. a \div 16 \in Half /\ b \div 16 \in Half /\ a % 16 \in Half /\ b % 16 \in Half
      /\ a = 16 * (a \div 16) + (a % 16)
  BY DEF Byte, Half
<1> DEFINE h == halfBytes[a \div 16][b \div 16]
           l == halfBytes[a % 16][b % 16]
<1>2. h \in Half /\ l \in Half
  BY <1>1, HalfBytesType
<1>3. xor(a, b) = 16 * h + l
  BY DEF xor
<1> HIDE DEF h, l
<1>4. (16 * h + l) \div 16 = h /\ (16 * h + l) % 16 = l
  BY <1>2 DEF Half
<1> QED BY <1>1, <1>3, <1>4 DEF h, l

LEMMA XorInjective ==
  ASSUME NEW a \in Byte, NEW x \in Byte, NEW y \in Byte, xor(a, x) = xor(a, y)
  PROVE  x = y
<1>1. /\ halfBytes[a \div 16][x \div 16] = halfBytes[a \div 16][y \div 16]
      /\ halfBytes[a % 16][x % 16] = halfBytes[a % 16][y % 16]
  BY XorHalves
<1>2. /\ a \div 16 \in Half /\ x \div 16 \in Half /\ y \div 16 \in Half
      /\ a % 16 \in Half /\ x % 16 \in Half /\ y % 16 \in Half
      /\ x = 16 * (x \div 16) + (x % 16) /\ y = 16 * (y \div 16) + (y % 16)
  BY XorHalves
<1>3. x \div 16 = y \div 16 /\ x % 16 = y % 16
  BY <1>1, <1>2, HalfInjective
<1> QED BY <1>2, <1>3

LEMMA XorSymmetric == \A a, b \in Byte : xor(a, b) = xor(b, a)
<1> SUFFICES ASSUME NEW a \in Byte, NEW b \in Byte PROVE xor(a, b) = xor(b, a)
  OBVIOUS
<1>1. /\ a \div 16 \in Half /\ b \div 16 \in Half /\ a % 16 \in Half /\ b % 16 \in Half
  BY XorHalves
<1>2. /\ halfBytes[a \div 16][b \div 16] = halfBytes[b \div 16][a \div 16]
      /\ halfBytes[a % 16][b % 16] = halfBytes[b % 16][a % 16]
  BY <1>1, HalfSymmetric
<1> QED BY <1>2 DEF xor

\* A change of a byte is seen: with no bit set it would be none.
LEMMA XorChanges ==
  ASSUME NEW a \in Byte, NEW x \in Byte, x # 0
  PROVE  xor(a, x) # a
<1>1. 0 \in Byte /\ 0 \div 16 = 0 /\ 0 % 16 = 0
  BY DEF Byte
<1>2. /\ a \div 16 \in Half /\ a % 16 \in Half /\ a = 16 * (a \div 16) + (a % 16)
  BY <1>1, XorHalves
<1>3. halfBytes[a \div 16][0] = a \div 16 /\ halfBytes[a % 16][0] = a % 16
  BY <1>2, HalfZero
<1>4. xor(a, 0) = a
  BY <1>1, <1>2, <1>3 DEF xor
<1> QED BY <1>1, <1>4, XorInjective

\* tmp ^= tmp << 4
spread(low) == xor(low, (low * 16) % 256)

LEMMA SpreadInjective ==
  ASSUME NEW x \in Byte, NEW y \in Byte, spread(x) = spread(y)
  PROVE  x = y
<1>1. ASSUME NEW z \in Byte
      PROVE  /\ z \div 16 \in Half /\ z % 16 \in Half /\ z = 16 * (z \div 16) + (z % 16)
             /\ spread(z) \div 16 = halfBytes[z % 16][z \div 16]
             /\ spread(z) % 16 = z % 16
  <2> DEFINE u == (z * 16) % 256
  <2>1. u \in Byte /\ u \div 16 = z % 16 /\ u % 16 = 0
    <3>1. u = 16 * (z % 16)
      BY DEF Byte
    <3>2. z % 16 \in 0 .. 15
      BY DEF Byte
    <3> HIDE DEF u
    <3> QED BY <3>1, <3>2 DEF Byte
  <2>2. spread(z) = xor(z, u)
    BY DEF spread
  <2> HIDE DEF u
  <2>3. /\ z \div 16 \in Half /\ z % 16 \in Half /\ z = 16 * (z \div 16) + (z % 16)
        /\ xor(z, u) \div 16 = halfBytes[z \div 16][u \div 16]
        /\ xor(z, u) % 16 = halfBytes[z % 16][u % 16]
    BY <2>1, XorHalves
  <2> QED BY <2>1, <2>2, <2>3, HalfZero, HalfSymmetric
<1>2. x % 16 = y % 16
  BY <1>1
<1>3. halfBytes[x % 16][x \div 16] = halfBytes[x % 16][y \div 16]
  BY <1>1, <1>2
<1>4. x \div 16 = y \div 16
  BY <1>1, <1>3, HalfInjective
<1> QED BY <1>1, <1>2, <1>4

LEMMA ShiftedInjective ==
  ASSUME NEW x \in Byte, NEW y \in Byte, shifted[x] \div 256 = shifted[y] \div 256
  PROVE  x = y
<1>1. ASSUME NEW t \in Byte
      PROVE  /\ t \div 16 \in Half /\ t % 16 \in Half /\ t = 16 * (t \div 16) + (t % 16)
             /\ (t \div 16) \div 2 \in Half
             /\ (shifted[t] \div 256) \div 16 = t \div 16
             /\ (shifted[t] \div 256) % 16 = halfBytes[(t \div 16) \div 2][t % 16]
  <2> DEFINE u == t \div 32
             p == xor(t, u)
             q == xor((t * 8) % 256, t \div 16)
  <2>1. u \in Byte /\ (t * 8) % 256 \in Byte /\ t \div 16 \in Byte
    BY DEF Byte
  <2>2. p \in Byte /\ q \in Byte
    BY <2>1, XorType
  <2>3. shifted[t] = 256 * p + q
    BY DEF shifted, Byte
  <2>4. shifted[t] \div 256 = p
    <3> HIDE DEF p, q
    <3>1. (256 * p + q) \div 256 = p
      BY <2>2 DEF Byte
    <3> QED BY <2>3, <3>1
  <2>5. u \div 16 = 0 /\ u % 16 = (t \div 16) \div 2 /\ (t \div 16) \div 2 \in Half
    BY DEF Byte, Half
  <2> HIDE DEF u
  <2>6. /\ t \div 16 \in Half /\ t % 16 \in Half /\ t = 16 * (t \div 16) + (t % 16)
        /\ xor(t, u) \div 16 = halfBytes[t \div 16][u \div 16]
        /\ xor(t, u) % 16 = halfBytes[t % 16][u % 16]
    BY <2>1, XorHalves
  <2> QED BY <2>4, <2>5, <2>6, HalfZero, HalfSymmetric
<1>2. x \div 16 = y \div 16
  BY <1>1
<1>3. halfBytes[(x \div 16) \div 2][x % 16] = halfBytes[(x \div 16) \div 2][y % 16]
  BY <1>1, <1>2
<1>4. x % 16 = y % 16
  BY <1>1, <1>3, HalfInjective
<1> QED BY <1>1, <1>2, <1>4
LEMMA CrcParts ==
  ASSUME NEW crc \in CrcValue, NEW c \in Byte
  PROVE  /\ crc % 256 \in Byte /\ crc \div 256 \in Byte
         /\ crc = 256 * (crc \div 256) + (crc % 256)
         /\ xor(c, crc % 256) \in Byte
         /\ spread(xor(c, crc % 256)) \in Byte
         /\ shifted[spread(xor(c, crc % 256))] % 256 \in Byte
         /\ crc_accumulate(crc, c) \div 256
              = shifted[spread(xor(c, crc % 256))] \div 256
         /\ crc_accumulate(crc, c) % 256
              = xor(shifted[spread(xor(c, crc % 256))] % 256, crc \div 256)
<1> DEFINE low == xor(c, crc % 256)
           t == spread(low)
           new == shifted[t]
           z == xor(new % 256, crc \div 256)
           n == new \div 256
<1>1. /\ crc % 256 \in Byte /\ crc \div 256 \in Byte
      /\ crc = 256 * (crc \div 256) + (crc % 256)
  BY OfTwoBytes
<1>2. low \in Byte
  BY <1>1, XorType
<1>3. t \in Byte
  <2> HIDE DEF low
  <2>1. (low * 16) % 256 \in Byte
    BY <1>2 DEF Byte
  <2> QED BY <1>2, <2>1, XorType DEF spread
<1>4. new \in CrcValue
  <2> HIDE DEF t
  <2> QED BY <1>3, ShiftedType
<1>5. new % 256 \in Byte /\ n \in Byte
  <2> HIDE DEF new
  <2> QED BY <1>4, OfTwoBytes
<1>6. z \in Byte
  <2> HIDE DEF new
  <2> QED BY <1>1, <1>5, XorType
<1>7. crc_accumulate(crc, c) = 256 * n + z
  BY DEF crc_accumulate, spread
<1> HIDE DEF low, t, new, z, n
<1>8. (256 * n + z) \div 256 = n /\ (256 * n + z) % 256 = z
  BY <1>5, <1>6 DEF Byte
<1> QED BY <1>1, <1>2, <1>3, <1>5, <1>7, <1>8 DEF low, t, new, z, n

\* Two different bytes, and two different sums, give different sums.
LEMMA CrcTellsBytes ==
  ASSUME NEW crc \in CrcValue, NEW x \in Byte, NEW y \in Byte,
         crc_accumulate(crc, x) = crc_accumulate(crc, y)
  PROVE  x = y
<1> DEFINE k == crc % 256
<1>1. /\ k \in Byte
      /\ xor(x, k) \in Byte /\ spread(xor(x, k)) \in Byte
      /\ xor(y, k) \in Byte /\ spread(xor(y, k)) \in Byte
      /\ shifted[spread(xor(x, k))] \div 256 = shifted[spread(xor(y, k))] \div 256
  BY CrcParts
<1> HIDE DEF k
<1>2. spread(xor(x, k)) = spread(xor(y, k))
  BY <1>1, ShiftedInjective
<1>3. xor(x, k) = xor(y, k)
  BY <1>1, <1>2, SpreadInjective
<1>4. xor(k, x) = xor(k, y)
  BY <1>1, <1>3, XorSymmetric
<1> QED BY <1>1, <1>4, XorInjective

LEMMA CrcTellsSums ==
  ASSUME NEW x \in CrcValue, NEW y \in CrcValue, NEW c \in Byte,
         crc_accumulate(x, c) = crc_accumulate(y, c)
  PROVE  x = y
<1> DEFINE lx == xor(c, x % 256)
           ly == xor(c, y % 256)
<1>1. /\ x % 256 \in Byte /\ x \div 256 \in Byte /\ x = 256 * (x \div 256) + (x % 256)
      /\ y % 256 \in Byte /\ y \div 256 \in Byte /\ y = 256 * (y \div 256) + (y % 256)
      /\ lx \in Byte /\ spread(lx) \in Byte /\ ly \in Byte /\ spread(ly) \in Byte
      /\ shifted[spread(lx)] % 256 \in Byte
      /\ shifted[spread(lx)] \div 256 = shifted[spread(ly)] \div 256
      /\ xor(shifted[spread(lx)] % 256, x \div 256)
           = xor(shifted[spread(ly)] % 256, y \div 256)
  BY CrcParts
<1>2. lx = ly
  <2> HIDE DEF lx, ly
  <2>1. spread(lx) = spread(ly)
    BY <1>1, ShiftedInjective
  <2> QED BY <1>1, <2>1, SpreadInjective
<1>3. x % 256 = y % 256
  BY <1>1, <1>2, XorInjective
<1> HIDE DEF lx, ly
<1>4. x \div 256 = y \div 256
  <2> DEFINE s == shifted[spread(lx)] % 256
  <2>1. s \in Byte /\ xor(s, x \div 256) = xor(s, y \div 256)
    BY <1>1, <1>2
  <2> HIDE DEF s
  <2> QED BY <1>1, <2>1, XorInjective
<1> QED BY <1>1, <1>3, <1>4

LEMMA SumType ==
  ASSUME NEW bytes \in Seq(Byte), NEW C, Sums(C, bytes), NEW k \in 0 .. Len(bytes)
  PROVE  C[k] \in CrcValue
<1> DEFINE N == Len(bytes)
           S == {n \in 0 .. N : C[n] \in CrcValue}
<1>1. N \in Nat
  OBVIOUS
<1>2. 0 \in S
  <2>1. 65535 \in CrcValue
    BY DEF CrcValue
  <2> QED BY <1>1, <2>1 DEF Sums
<1>3. ASSUME NEW n \in 0 .. N - 1, n \in S PROVE n + 1 \in S
  <2>1. n + 1 \in 1 .. N /\ (n + 1) - 1 = n /\ n + 1 \in 0 .. N
    BY <1>1
  <2>2. C[n + 1] = crc_accumulate(C[n], bytes[n + 1])
    BY <2>1 DEF Sums
  <2>3. bytes[n + 1] \in Byte
    BY <2>1
  <2> QED BY <1>3, <2>1, <2>2, <2>3, CrcType
<1> HIDE DEF S
<1>4. \A n \in 0 .. N : n \in S
  BY <1>1, <1>2, <1>3, UpTo
<1> QED BY <1>4 DEF S

\* One wrong byte is seen, wherever it is.
LEMMA CrcSeesOneByte ==
  ASSUME NEW s \in Seq(Byte), NEW u \in Seq(Byte), Len(u) = Len(s),
         NEW i \in 1 .. Len(s), u[i] # s[i],
         \A k \in 1 .. Len(s) : k # i => u[k] = s[k]
  PROVE  crc_calculate(u) # crc_calculate(s)
<1> DEFINE N == Len(s)
<1>1. N \in Nat /\ i \in Nat /\ 1 =< i /\ i =< N
  BY ByteAt
<1>2. PICK C : Sums(C, s) /\ crc_calculate(s) = C[N]
  BY CrcIsSum
<1>3. PICK D : Sums(D, u) /\ crc_calculate(u) = D[N]
  BY CrcIsSum
<1> DEFINE S == {n \in 0 .. N : (n < i => D[n] = C[n]) /\ (n >= i => D[n] # C[n])}
<1>4. 0 \in S
  <2>1. D[0] = C[0]
    BY <1>2, <1>3 DEF Sums
  <2> QED BY <1>1, <2>1
<1>5. ASSUME NEW n \in 0 .. N - 1, n \in S PROVE n + 1 \in S
  <2>1. n + 1 \in 1 .. N /\ (n + 1) - 1 = n /\ n + 1 \in 0 .. N /\ n \in 0 .. N /\ n \in Nat
    BY <1>1
  <2>2. /\ C[n + 1] = crc_accumulate(C[n], s[n + 1])
        /\ D[n + 1] = crc_accumulate(D[n], u[n + 1])
    <3>1. C[n + 1] = crc_accumulate(C[(n + 1) - 1], s[n + 1])
      BY <1>2, <2>1 DEF Sums
    <3>2. D[n + 1] = crc_accumulate(D[(n + 1) - 1], u[n + 1])
      BY <1>3, <2>1 DEF Sums
    <3> QED BY <2>1, <3>1, <3>2
  <2>3. C[n] \in CrcValue /\ D[n] \in CrcValue
    BY <1>2, <1>3, <2>1, SumType
  <2>4. s[n + 1] \in Byte /\ u[n + 1] \in Byte
    BY <2>1
  <2>5. CASE n + 1 < i
    <3>1. D[n] = C[n] /\ u[n + 1] = s[n + 1]
      BY <1>1, <1>5, <2>1, <2>5
    <3> QED BY <1>1, <2>1, <2>2, <2>5, <3>1
  <2>6. CASE n + 1 = i
    <3>1. D[n] = C[n] /\ u[n + 1] # s[n + 1]
      BY <1>1, <1>5, <2>1, <2>6
    <3>2. D[n + 1] # C[n + 1]
      BY <2>2, <2>3, <2>4, <3>1, CrcTellsBytes
    <3> QED BY <1>1, <2>1, <2>6, <3>2
  <2>7. CASE n + 1 > i
    <3>1. D[n] # C[n] /\ u[n + 1] = s[n + 1]
      BY <1>1, <1>5, <2>1, <2>7
    <3>2. D[n + 1] # C[n + 1]
      BY <2>2, <2>3, <2>4, <3>1, CrcTellsSums
    <3> QED BY <1>1, <2>1, <2>7, <3>2
  <2> QED BY <1>1, <2>1, <2>5, <2>6, <2>7
<1>6. N \in S
  <2> HIDE DEF S
  <2> QED BY <1>1, <1>4, <1>5, UpToLast
<1> QED BY <1>1, <1>2, <1>3, <1>6
-----------------------------------------------------------------------------
(***************************************************************************)
(* Frames that arrive in part or with wrong bytes.                         *)
(***************************************************************************)
LEMMA BytesAreNat == \A c \in Byte : c \in Nat
  BY DEF Byte

LEMMA SplitAt ==
  ASSUME NEW s \in Seq(Byte), NEW k \in 0 .. Len(s)
  PROVE  /\ SubSeq(s, 1, k) \in Seq(Byte) /\ Len(SubSeq(s, 1, k)) = k
         /\ \A i \in 1 .. k : SubSeq(s, 1, k)[i] = s[i]
         /\ SubSeq(s, k + 1, Len(s)) \in Seq(Byte)
         /\ Len(SubSeq(s, k + 1, Len(s))) = Len(s) - k
         /\ \A i \in 1 .. Len(s) - k : SubSeq(s, k + 1, Len(s))[i] = s[k + i]
         /\ s = SubSeq(s, 1, k) \o SubSeq(s, k + 1, Len(s))
<1> DEFINE N == Len(s)
           a == SubSeq(s, 1, k)
           b == SubSeq(s, k + 1, N)
<1>1. N \in Nat /\ k \in Nat /\ k =< N
  BY ByteAt
<1>2. a \in Seq(Byte) /\ Len(a) = k /\ \A i \in 1 .. k : a[i] = s[i]
  BY <1>1
<1>3. b \in Seq(Byte) /\ Len(b) = N - k /\ \A i \in 1 .. N - k : b[i] = s[k + i]
  <2>1. CASE k = N
    BY <1>1, <2>1
  <2>2. CASE k # N
    <3>1. \A i \in 1 .. N - k : (k + 1) + i - 1 = k + i
      BY <1>1
    <3> QED BY <1>1, <2>2, <3>1
  <2> QED BY <2>1, <2>2
<1>4. s = a \o b
  <2> HIDE DEF a, b
  <2>1. a \o b \in Seq(Byte) /\ Len(a \o b) = N
    BY <1>1, <1>2, <1>3
  <2>2. ASSUME NEW i \in 1 .. N PROVE (a \o b)[i] = s[i]
    <3>1. CASE i =< k
      BY <1>1, <1>2, <1>3, <3>1
    <3>2. CASE ~(i =< k)
      <4>1. i - k \in 1 .. N - k /\ k + (i - k) = i /\ i > k
        BY <1>1, <3>2
      <4>2. (a \o b)[i] = b[i - k]
        BY <1>1, <1>2, <1>3, <3>2, <4>1
      <4> QED BY <1>3, <4>1, <4>2
    <3> QED BY <3>1, <3>2
  <2> QED BY <2>1, <2>2, SeqEqual
<1> QED BY <1>2, <1>3, <1>4

\* The length that the first bytes announce.
frameLength(bytes) ==
    IF bytes[1] = MAVLINK_STX_MAVLINK1 THEN 8 + bytes[2]
    ELSE 12 + bytes[2] + trailer(bytes[3])

Begins(bytes) ==
    /\ bytes \in Seq(Byte) /\ Len(bytes) >= 3
    /\ bytes[1] \in {MAVLINK_STX, MAVLINK_STX_MAVLINK1}
    /\ bytes[1] = MAVLINK_STX => ~(bytes[3] > IFLAG_SIGNED)

LEMMA FirstThree ==
  ASSUME NEW d \in Decoders, d.st.parse_state = "IDLE",
         NEW bytes \in Seq(Byte), Len(bytes) >= 3,
         bytes[1] \in {MAVLINK_STX, MAVLINK_STX_MAVLINK1},
         NEW e, e = fedAll(d, SubSeq(bytes, 1, 3))
  PROVE  /\ bytes[1] = MAVLINK_STX /\ bytes[3] > IFLAG_SIGNED =>
               e \in Decoders /\ e.st.parse_state = "IDLE"
         /\ Begins(bytes) =>
               e \in Decoders /\ Lacks(e, frameLength(bytes) - 3)
               /\ frameLength(bytes) - 3 \in Nat /\ frameLength(bytes) \in Nat
<1> DEFINE a == SubSeq(bytes, 1, 3)
<1>1. a \in Seq(Byte) /\ Len(a) = 3 /\ a[1] = bytes[1] /\ a[2] = bytes[2] /\ a[3] = bytes[3]
  <2>1. 3 \in 0 .. Len(bytes) /\ 1 \in 1 .. 3 /\ 2 \in 1 .. 3 /\ 3 \in 1 .. 3
    BY ByteAt
  <2> QED BY <2>1, SplitAt
<1>2. a[1] \in Byte /\ a[2] \in Byte /\ a[3] \in Byte
  <2>1. \A k \in 1 .. 3 : a[k] \in Byte
    <3> HIDE DEF a
    <3> QED BY <1>1, ByteAt
  <2> QED BY <2>1
<1> HIDE DEF a
<1>3. PICK run : Run(run, d, a) /\ fedAll(d, a) = run[3]
  BY <1>1, FedIsRun
<1>4. /\ run[0] = d /\ run[1] = fed(run[0], a[1]) /\ run[2] = fed(run[1], a[2])
      /\ run[3] = fed(run[2], a[3]) /\ e = run[3]
  <2>1. \A k \in 1 .. 3 : run[k] = fed(run[k - 1], a[k])
    BY <1>1, <1>3 DEF Run
  <2>2. 1 - 1 = 0 /\ 2 - 1 = 1 /\ 3 - 1 = 2
    OBVIOUS
  <2> QED BY <1>3, <2>1, <2>2 DEF Run, a
<1>5. /\ run[1] \in Decoders /\ run[1].st.parse_state = "GOT_STX"
      /\ run[1].st.mavlink1 <=> a[1] = MAVLINK_STX_MAVLINK1
  BY <1>1, <1>2, <1>4, FedStart
<1>6. /\ run[2] \in Decoders
      /\ run[2].st.parse_state = IF run[1].st.mavlink1 THEN "GOT_COMPAT_FLAGS" ELSE "GOT_LENGTH"
      /\ run[2].st.mavlink1 = run[1].st.mavlink1 /\ run[2].rx.len = a[2]
      /\ run[1].st.mavlink1 => run[2].rx.incompat_flags = 0
  BY <1>2, <1>4, <1>5, FedLength
<1>7. CASE a[1] = MAVLINK_STX
  <2>1. ~run[1].st.mavlink1 /\ run[2].st.parse_state = "GOT_LENGTH"
    BY <1>5, <1>6, <1>7 DEF MAVLINK_STX, MAVLINK_STX_MAVLINK1
  <2>2. CASE a[3] > IFLAG_SIGNED
    <3>1. e \in Decoders /\ e.st.parse_state = "IDLE"
      BY <1>2, <1>4, <1>6, <2>1, <2>2, FedUnknownFlags
    <3> QED BY <1>1, <1>7, <2>2, <3>1 DEF Begins
  <2>3. CASE ~(a[3] > IFLAG_SIGNED)
    <3>1. /\ e \in Decoders /\ e.st.parse_state = "GOT_INCOMPAT_FLAGS"
          /\ e.st.mavlink1 = run[2].st.mavlink1
          /\ e.rx.len = run[2].rx.len /\ e.rx.incompat_flags = a[3]
      BY <1>2, <1>4, <1>6, <2>1, <2>3, FedFlags
    <3>2. e.st.parse_state \in Headers /\ e.st.parse_state \in Midway /\ headerLeft(e) = 7
      BY <1>6, <2>1, <3>1 DEF Headers, Midway, headerLeft
    <3>3. lacking(e) = 7 + a[2] + 2 + trailer(a[3])
      BY <1>6, <3>1, <3>2 DEF lacking
    <3>4. a[2] \in Nat /\ trailer(a[3]) \in Nat
      BY <1>2, Trailers, BytesAreNat, SMTT(30)
    <3>5. frameLength(bytes) = 12 + a[2] + trailer(a[3])
      BY <1>1, <1>7 DEF frameLength, MAVLINK_STX, MAVLINK_STX_MAVLINK1
    <3> DEFINE l == a[2]
               r == trailer(a[3])
               n == frameLength(bytes)
    <3> HIDE DEF l, r, n
    <3>6. lacking(e) = n - 3 /\ n - 3 \in Nat /\ n \in Nat /\ n - 3 # 0
      BY <3>3, <3>4, <3>5, SMTT(30) DEF l, r, n
    <3>7. Lacks(e, n - 3)
      BY <3>2, <3>6 DEF Lacks
    <3> QED BY <1>1, <2>3, <3>1, <3>6, <3>7 DEF n
  <2> QED BY <2>2, <2>3
<1>8. CASE a[1] = MAVLINK_STX_MAVLINK1
  <2>1. run[1].st.mavlink1 /\ run[2].st.parse_state = "GOT_COMPAT_FLAGS"
        /\ run[2].st.mavlink1 /\ run[2].rx.incompat_flags = 0
    BY <1>5, <1>6, <1>8
  <2>2. run[2].st.parse_state \in Headers /\ run[2].st.parse_state \in Midway
        /\ headerLeft(run[2]) = 4
    BY <2>1 DEF Headers, Midway, headerLeft
  <2>3. lacking(run[2]) = 4 + a[2] + 2 + trailer(0)
    BY <1>6, <2>1, <2>2 DEF lacking
  <2>4. trailer(0) = 0
    BY DEF trailer, IFLAG_SIGNED
  <2>5. a[2] \in Nat
    BY <1>2, BytesAreNat
  <2>6. e \in Decoders /\ Lacks(e, lacking(run[2]) - 1)
    BY <1>2, <1>4, <1>6, <2>2, Swallow
  <2>7. frameLength(bytes) = 8 + a[2]
    BY <1>1, <1>8 DEF frameLength
  <2>8. lacking(run[2]) - 1 = frameLength(bytes) - 3 /\ frameLength(bytes) - 3 \in Nat
        /\ frameLength(bytes) \in Nat
    BY <2>3, <2>4, <2>5, <2>7, SMTT(30)
  <2>9. bytes[1] # MAVLINK_STX
    BY <1>1, <1>8 DEF MAVLINK_STX, MAVLINK_STX_MAVLINK1
  <2> QED BY <2>6, <2>8, <2>9
<1> QED BY <1>1, <1>7, <1>8

LEMMA Begun ==
  ASSUME NEW d \in Decoders, d.st.parse_state = "IDLE",
         NEW bytes, Begins(bytes), Len(bytes) =< frameLength(bytes),
         NEW e, e = fedAll(d, bytes)
  PROVE  e \in Decoders /\ Lacks(e, frameLength(bytes) - Len(bytes))
<1> DEFINE a == SubSeq(bytes, 1, 3)
           b == SubSeq(bytes, 3 + 1, Len(bytes))
           f == fedAll(d, a)
           n == frameLength(bytes)
           N == Len(bytes)
<1>1. bytes \in Seq(Byte) /\ N \in Nat /\ N >= 3
      /\ bytes[1] \in {MAVLINK_STX, MAVLINK_STX_MAVLINK1}
  <2>1. bytes \in Seq(Byte) /\ N >= 3
        /\ bytes[1] \in {MAVLINK_STX, MAVLINK_STX_MAVLINK1}
    BY DEF Begins
  <2> QED BY <2>1, ByteAt
<1>2. /\ a \in Seq(Byte) /\ b \in Seq(Byte) /\ bytes = a \o b /\ Len(b) = N - 3
  <2>1. 3 \in 0 .. Len(bytes)
    BY <1>1
  <2> QED BY <1>1, <2>1, SplitAt
<1>3. f \in Decoders /\ Lacks(f, n - 3) /\ n - 3 \in Nat /\ n \in Nat
  BY <1>1, FirstThree
<1>4. e = fedAll(f, b)
  <2>1. fedAll(d, a \o b) = fedAll(f, b)
    <3> HIDE DEF a, b
    <3> QED BY <1>2, FedTogether
  <2> QED BY <1>2, <2>1
<1>5. e \in Decoders
  <2> HIDE DEF f, b
  <2> QED BY <1>2, <1>3, <1>4, FedAllIsDecoder
<1>6. Len(b) =< n - 3 /\ (n - 3) - Len(b) = n - N
  <2> HIDE DEF n, b, N
  <2>1. N =< n
    BY DEF n, N
  <2> QED BY <1>1, <1>2, <1>3, <2>1
<1>7. Lacks(fedAll(f, b), (n - 3) - Len(b))
  <2> HIDE DEF f, b, n
  <2> QED BY <1>2, <1>3, <1>6, SwallowAll
<1> QED BY <1>4, <1>5, <1>6, <1>7

LEMMA Joined ==
  ASSUME NEW p \in Seq(Byte), NEW q \in Seq(Byte)
  PROVE  /\ p \o q \in Seq(Byte) /\ Len(p \o q) = Len(p) + Len(q)
         /\ Len(p) \in Nat /\ Len(q) \in Nat
         /\ \A k \in 1 .. Len(p) : (p \o q)[k] = p[k]
         /\ \A k \in 1 .. Len(q) : (p \o q)[Len(p) + k] = q[k]
<1>1. /\ p \o q \in Seq(Byte) /\ Len(p \o q) = Len(p) + Len(q)
      /\ Len(p) \in Nat /\ Len(q) \in Nat
      /\ \A k \in 1 .. Len(p) : (p \o q)[k] = p[k]
  OBVIOUS
<1>2. ASSUME NEW k \in 1 .. Len(q) PROVE (p \o q)[Len(p) + k] = q[k]
  <2>1. (Len(p) + k) - Len(p) = k /\ Len(p) + k \in 1 .. Len(p) + Len(q)
        /\ ~(Len(p) + k =< Len(p))
    BY <1>1
  <2> QED BY <1>1, <2>1
<1> QED BY <1>1, <1>2

\* Where the parts of a frame are.
Laid(bytes, old, h, b, c1, c2, t) ==
    /\ bytes \in Seq(Byte)
    /\ Len(bytes) = Len(h) + Len(b) + Len(t) + 3
    /\ bytes[1] = startByte(old)
    /\ \A k \in 1 .. Len(h) : bytes[1 + k] = h[k]
    /\ \A k \in 1 .. Len(b) : bytes[1 + Len(h) + k] = b[k]
    /\ bytes[Len(h) + Len(b) + 2] = c1 /\ bytes[Len(h) + Len(b) + 3] = c2
    /\ \A k \in 1 .. Len(t) : bytes[Len(h) + Len(b) + 3 + k] = t[k]

LEMMA FrameIs ==
  ASSUME NEW old, NEW h, NEW b, NEW t, Heads(old, h, b, t),
         NEW c1 \in Byte, NEW c2 \in Byte
  PROVE  Laid(Frame(startByte(old), h, b, c1, c2, t), old, h, b, c1, c2, t)
<1> DEFINE bytes == Frame(startByte(old), h, b, c1, c2, t)
<1> DEFINE s == <<startByte(old)>>
           c == <<c1, c2>>
           H == Len(h)
           B == Len(b)
           T == Len(t)
<1>1. /\ h \in Seq(Byte) /\ b \in Seq(Byte) /\ t \in Seq(Byte)
      /\ H \in Nat /\ B \in Nat /\ T \in Nat
  <2>1. h \in Seq(Byte) /\ b \in Seq(Byte) /\ t \in Seq(Byte)
    BY DEF Heads
  <2> QED BY <2>1, ByteAt
<1>2. s \in Seq(Byte) /\ Len(s) = 1 /\ s[1] = startByte(old)
  <2> DEFINE z == startByte(old)
  <2>1. z \in Byte
    BY DEF startByte, MAVLINK_STX, MAVLINK_STX_MAVLINK1, Byte
  <2> HIDE DEF z
  <2>2. <<z>> \in Seq(Byte) /\ Len(<<z>>) = 1 /\ <<z>>[1] = z
    BY <2>1
  <2> QED BY <2>2 DEF z
<1>3. c \in Seq(Byte) /\ Len(c) = 2 /\ c[1] = c1 /\ c[2] = c2
  OBVIOUS
<1> HIDE DEF s, c
<1> DEFINE sh == s \o h
           shb == sh \o b
           shbc == shb \o c
<1>4. bytes = shbc \o t
  BY DEF Frame, s, c
<1> HIDE DEF bytes
<1>5. /\ sh \in Seq(Byte) /\ Len(sh) = 1 + H /\ sh[1] = startByte(old)
      /\ \A k \in 1 .. H : sh[1 + k] = h[k]
  <2>1. /\ s \o h \in Seq(Byte) /\ Len(s \o h) = Len(s) + Len(h)
        /\ \A k \in 1 .. Len(s) : (s \o h)[k] = s[k]
        /\ \A k \in 1 .. Len(h) : (s \o h)[Len(s) + k] = h[k]
    BY <1>1, <1>2, Joined
  <2>2. 1 \in 1 .. 1
    OBVIOUS
  <2> QED BY <1>2, <2>1, <2>2
<1> HIDE DEF sh
<1>6. /\ shb \in Seq(Byte) /\ Len(shb) = 1 + H + B
      /\ \A k \in 1 .. 1 + H : shb[k] = sh[k]
      /\ \A k \in 1 .. B : shb[1 + H + k] = b[k]
  <2>1. /\ sh \o b \in Seq(Byte) /\ Len(sh \o b) = Len(sh) + B
        /\ \A k \in 1 .. Len(sh) : (sh \o b)[k] = sh[k]
        /\ \A k \in 1 .. B : (sh \o b)[Len(sh) + k] = b[k]
    BY <1>1, <1>5, Joined
  <2> QED BY <1>5, <2>1
<1> HIDE DEF shb
<1>7. /\ shbc \in Seq(Byte) /\ Len(shbc) = H + B + 3
      /\ \A k \in 1 .. 1 + H + B : shbc[k] = shb[k]
      /\ shbc[H + B + 2] = c1 /\ shbc[H + B + 3] = c2
  <2>1. /\ shb \o c \in Seq(Byte) /\ Len(shb \o c) = Len(shb) + Len(c)
        /\ \A k \in 1 .. Len(shb) : (shb \o c)[k] = shb[k]
        /\ \A k \in 1 .. Len(c) : (shb \o c)[Len(shb) + k] = c[k]
    BY <1>3, <1>6, Joined
  <2>2. 1 \in 1 .. 2 /\ 2 \in 1 .. 2
    OBVIOUS
  <2>3. Len(shb) + 1 = H + B + 2 /\ Len(shb) + 2 = H + B + 3
    BY <1>1, <1>6
  <2>4. shbc[Len(shb) + 1] = c1 /\ shbc[Len(shb) + 2] = c2
    BY <1>3, <2>1, <2>2
  <2> QED BY <1>1, <1>3, <1>6, <2>1, <2>3, <2>4
<1> HIDE DEF shbc
<1>8. /\ bytes \in Seq(Byte) /\ Len(bytes) = H + B + T + 3
      /\ \A k \in 1 .. H + B + 3 : bytes[k] = shbc[k]
      /\ \A k \in 1 .. T : bytes[H + B + 3 + k] = t[k]
  <2>1. /\ shbc \o t \in Seq(Byte) /\ Len(shbc \o t) = Len(shbc) + T
        /\ \A k \in 1 .. Len(shbc) : (shbc \o t)[k] = shbc[k]
        /\ \A k \in 1 .. T : (shbc \o t)[Len(shbc) + k] = t[k]
    BY <1>1, <1>7, Joined
  <2>2. Len(shbc) + T = H + B + T + 3
    BY <1>1, <1>7
  <2> QED BY <1>4, <1>7, <2>1, <2>2
<1>9. bytes[1] = startByte(old)
  <2>1. 1 \in 1 .. H + B + 3 /\ 1 \in 1 .. 1 + H + B /\ 1 \in 1 .. 1 + H
    BY <1>1
  <2> QED BY <1>5, <1>6, <1>7, <1>8, <2>1
<1>10. ASSUME NEW k \in 1 .. H PROVE bytes[1 + k] = h[k]
  <2>1. 1 + k \in 1 .. H + B + 3 /\ 1 + k \in 1 .. 1 + H + B /\ 1 + k \in 1 .. 1 + H
    BY <1>1
  <2> QED BY <1>5, <1>6, <1>7, <1>8, <2>1
<1>11. ASSUME NEW k \in 1 .. B PROVE bytes[1 + H + k] = b[k]
  <2>1. 1 + H + k \in 1 .. H + B + 3 /\ 1 + H + k \in 1 .. 1 + H + B
    BY <1>1
  <2> QED BY <1>6, <1>7, <1>8, <2>1
<1>12. bytes[H + B + 2] = c1 /\ bytes[H + B + 3] = c2
  <2>1. H + B + 2 \in 1 .. H + B + 3 /\ H + B + 3 \in 1 .. H + B + 3
    BY <1>1
  <2> QED BY <1>7, <1>8, <2>1
<1>13. Laid(bytes, old, h, b, c1, c2, t)
  BY <1>8, <1>9, <1>10, <1>11, <1>12 DEF Laid
<1> QED BY <1>13 DEF bytes

LEMMA SerializedBegins ==
  ASSUME NEW m \in Messages, NEW n \in Byte, NEW bytes, bytes = serialize(m, n)
  PROVE  /\ Begins(bytes) /\ Len(bytes) = frameLength(bytes)
         /\ Len(bytes) \in Nat /\ Len(bytes) > 3
         /\ m.form # "v1" => bytes[1] = MAVLINK_STX
         /\ m.form = "v1" => bytes[1] = MAVLINK_STX_MAVLINK1
<1>1. PICK old, h, b, c1, c2, t : Parts(m, n, old, h, b, c1, c2, t)
  BY Serialized
<1>2. /\ Heads(old, h, b, t) /\ c1 \in Byte /\ c2 \in Byte /\ (old <=> m.form = "v1")
      /\ bytes = Frame(startByte(old), h, b, c1, c2, t)
  BY <1>1 DEF Parts
<1>3. /\ old \in BOOLEAN /\ h \in Seq(Byte) /\ b \in Seq(Byte) /\ t \in Seq(Byte)
      /\ Len(h) = (IF old THEN 5 ELSE 9) /\ h[1] = Len(b)
      /\ ~old => ~(h[2] > IFLAG_SIGNED)
      /\ Len(t) = IF old THEN 0 ELSE trailer(h[2])
  BY <1>2 DEF Heads
<1>4. /\ bytes \in Seq(Byte)
      /\ Len(bytes) = Len(h) + Len(b) + Len(t) + 3
      /\ bytes[1] = startByte(old)
      /\ \A k \in 1 .. Len(h) : bytes[1 + k] = h[k]
  <2>1. Laid(bytes, old, h, b, c1, c2, t)
    BY <1>2, FrameIs
  <2> QED BY <2>1 DEF Laid
<1>5. bytes[2] = h[1] /\ bytes[3] = h[2]
  <2>1. 1 \in 1 .. Len(h) /\ 2 \in 1 .. Len(h) /\ 1 + 1 = 2 /\ 1 + 2 = 3
    BY <1>3
  <2> QED BY <1>4, <2>1
<1>6. Len(b) \in Nat /\ Len(t) \in Nat
  BY <1>3, ByteAt
<1>7. CASE m.form = "v1"
  <2>1. old
    BY <1>2, <1>7
  <2>2. Len(bytes) = 8 + Len(b) /\ frameLength(bytes) = 8 + Len(b)
    BY <1>3, <1>4, <1>5, <1>6, <2>1 DEF frameLength, startByte
  <2>3. Begins(bytes)
    <3>1. Len(bytes) >= 3
      BY <1>6, <2>2
    <3>2. bytes[1] \in {MAVLINK_STX, MAVLINK_STX_MAVLINK1} /\ bytes[1] # MAVLINK_STX
      BY <1>4, <2>1 DEF startByte, MAVLINK_STX, MAVLINK_STX_MAVLINK1
    <3> QED BY <1>4, <3>1, <3>2 DEF Begins
  <2>4. bytes[1] = MAVLINK_STX_MAVLINK1
    BY <1>4, <2>1 DEF startByte
  <2> QED BY <1>2, <1>6, <1>7, <2>2, <2>3, <2>4
<1>8. CASE m.form # "v1"
  <2>1. ~old
    BY <1>2, <1>8
  <2>2. bytes[1] = MAVLINK_STX /\ MAVLINK_STX # MAVLINK_STX_MAVLINK1
    BY <1>4, <2>1 DEF startByte, MAVLINK_STX, MAVLINK_STX_MAVLINK1
  <2>3. Len(bytes) = 12 + Len(b) + Len(t)
    BY <1>3, <1>4, <1>6, <2>1
  <2>4. frameLength(bytes) = 12 + Len(b) + Len(t)
    BY <1>3, <1>5, <2>1, <2>2 DEF frameLength
  <2>5. Begins(bytes)
    <3>1. Len(bytes) >= 3
      BY <1>6, <2>3
    <3> QED BY <1>3, <1>4, <1>5, <2>1, <2>2, <3>1 DEF Begins
  <2> QED BY <1>2, <1>6, <1>8, <2>2, <2>3, <2>4, <2>5
<1> QED BY <1>7, <1>8

LEMMA Remaining ==
  ASSUME NEW d \in Decoders, missing \in Nat \cup {Lost},
         missing # Lost => Lacks(d, missing),
         NEW bytes \in Seq(Byte)
  PROVE  /\ remaining(bytes) \in Nat \cup {Lost}
         /\ remaining(bytes) # Lost => Lacks(fedAll(d, bytes), remaining(bytes))
<1> DEFINE N == Len(bytes)
<1>1. N \in Nat
  BY ByteAt
<1>2. CASE missing = Lost
  BY <1>2 DEF remaining
<1>3. CASE missing # Lost /\ N =< missing
  <2>1. remaining(bytes) = missing - N /\ missing \in Nat
    BY <1>3 DEF remaining
  <2>2. missing - N \in Nat
    BY <1>1, <1>3, <2>1
  <2>3. Lacks(fedAll(d, bytes), missing - N)
    BY <1>3, <2>1, SwallowAll
  <2> QED BY <2>1, <2>2, <2>3
<1>4. CASE missing # Lost /\ ~(N =< missing)
  <2> DEFINE a == SubSeq(bytes, 1, missing)
             b == SubSeq(bytes, missing + 1, N)
  <2>1. missing \in Nat /\ missing \in 0 .. N
    BY <1>1, <1>4
  <2>2. a \in Seq(Byte) /\ Len(a) = missing /\ b \in Seq(Byte) /\ bytes = a \o b
    BY <2>1, SplitAt
  <2>3. remaining(bytes) = IF quiet(b) THEN 0 ELSE Lost
    BY <1>4 DEF remaining
  <2> HIDE DEF a, b
  <2>4. CASE quiet(b)
    <3>1. missing - Len(a) = 0 /\ Len(a) =< missing
      BY <2>1, <2>2
    <3>2. Lacks(fedAll(d, a), missing - Len(a))
      BY <1>4, <2>1, <2>2, <3>1, SwallowAll
    <3>3. fedAll(d, a).st.parse_state = "IDLE" /\ fedAll(d, a) \in Decoders
      BY <2>2, <3>1, <3>2, FedAllIsDecoder DEF Lacks
    <3>4. fedAll(fedAll(d, a), b).st.parse_state = "IDLE"
      BY <2>2, <2>4, <3>3, SkipAll
    <3>5. fedAll(d, bytes) = fedAll(fedAll(d, a), b)
      BY <2>2, FedTogether
    <3> QED BY <2>3, <2>4, <3>4, <3>5 DEF Lacks
  <2>5. CASE ~quiet(b)
    BY <2>3, <2>5
  <2> QED BY <2>4, <2>5
<1> QED BY <1>2, <1>3, <1>4

-----------------------------------------------------------------------------
(***************************************************************************)
(* Subsequences.                                                           *)
(***************************************************************************)
LEMMA SubseqExtends ==
  ASSUME NEW s, NEW T, NEW t \in Seq(T), NEW u \in Seq(T), isSubsequence(s, t),
         Len(t) =< Len(u), \A i \in 1 .. Len(t) : u[i] = t[i]
  PROVE  isSubsequence(s, u)
<1>1. PICK at \in [DOMAIN s -> DOMAIN t] :
         /\ \A i \in DOMAIN s : t[at[i]] = s[i]
         /\ \A i, j \in DOMAIN s : i < j => at[i] < at[j]
  BY DEF isSubsequence
<1>2. DOMAIN t = 1 .. Len(t) /\ DOMAIN u = 1 .. Len(u) /\ Len(t) \in Nat /\ Len(u) \in Nat
  OBVIOUS
<1>3. \A k \in DOMAIN t : k \in DOMAIN u /\ u[k] = t[k]
  BY <1>2
<1>4. at \in [DOMAIN s -> DOMAIN u]
  BY <1>1, <1>3
<1>5. \A i \in DOMAIN s : u[at[i]] = s[i]
  BY <1>1, <1>3
<1> QED BY <1>1, <1>4, <1>5 DEF isSubsequence

LEMMA SubseqAppend ==
  ASSUME NEW S, NEW s \in Seq(S), NEW T, NEW t \in Seq(T), isSubsequence(s, t),
         NEW v, v \in S, v \in T
  PROVE  isSubsequence(Append(s, v), Append(t, v))
<1> DEFINE M == Len(s)
           N == Len(t)
           ss == Append(s, v)
           tt == Append(t, v)
<1>1. PICK at \in [DOMAIN s -> DOMAIN t] :
         /\ \A i \in DOMAIN s : t[at[i]] = s[i]
         /\ \A i, j \in DOMAIN s : i < j => at[i] < at[j]
  BY DEF isSubsequence
<1>2. /\ M \in Nat /\ N \in Nat /\ DOMAIN s = 1 .. M /\ DOMAIN t = 1 .. N
      /\ DOMAIN ss = 1 .. M + 1 /\ DOMAIN tt = 1 .. N + 1
      /\ \A i \in 1 .. M : ss[i] = s[i]
      /\ \A i \in 1 .. N : tt[i] = t[i]
      /\ ss[M + 1] = v /\ tt[N + 1] = v
  OBVIOUS
<1> DEFINE to == [i \in 1 .. M + 1 |-> IF i = M + 1 THEN N + 1 ELSE at[i]]
<1> HIDE DEF M, N, ss, tt
<1>3. \A i \in 1 .. M + 1 : i # M + 1 => i \in 1 .. M
  BY <1>2
<1>4. \A i \in 1 .. M : at[i] \in 1 .. N
  BY <1>1, <1>2
<1>5. \A i \in 1 .. M + 1 : to[i] \in 1 .. N + 1
  BY <1>2, <1>3, <1>4
<1>6. to \in [1 .. M + 1 -> 1 .. N + 1]
  BY <1>5
<1>7. ASSUME NEW i \in 1 .. M + 1 PROVE tt[to[i]] = ss[i]
  <2>1. CASE i = M + 1
    BY <1>2, <2>1
  <2>2. CASE i # M + 1
    <3>1. i \in 1 .. M /\ to[i] = at[i] /\ at[i] \in 1 .. N
      BY <1>3, <1>4, <2>2
    <3> HIDE DEF to
    <3> QED BY <1>1, <1>2, <3>1
  <2> QED BY <2>1, <2>2
<1>8. ASSUME NEW i \in 1 .. M + 1, NEW j \in 1 .. M + 1, i < j PROVE to[i] < to[j]
  <2>1. i \in 1 .. M /\ to[i] = at[i] /\ at[i] \in 1 .. N
    BY <1>2, <1>3, <1>4, <1>8
  <2>2. CASE j = M + 1
    BY <1>2, <2>1, <2>2
  <2>3. CASE j # M + 1
    <3>1. j \in 1 .. M /\ to[j] = at[j]
      BY <1>3, <2>3
    <3> HIDE DEF to
    <3> QED BY <1>1, <1>2, <1>8, <2>1, <3>1
  <2> QED BY <2>2, <2>3
<1> HIDE DEF to
<1>9. isSubsequence(ss, tt)
  BY <1>2, <1>6, <1>7, <1>8 DEF isSubsequence
<1> QED BY <1>9 DEF ss, tt

-----------------------------------------------------------------------------
(***************************************************************************)
(* The decoder of a state, and what it will be when it has got all that is *)
(* on the wire: which datagrams the bytes arrive in does not matter.       *)
(***************************************************************************)
parser == [rx |-> partial, st |-> status, out |-> decoded,
           crc_errors |-> stats.crc_errors]
future == fedAll(parser, wire)

Stats == [messages : Nat, crc_errors : Nat, parse_errors : Nat]
Receivable == {received(m) : m \in Messages}

CodecTypes ==
    /\ seq \in Byte /\ wire \in Seq(Byte) /\ parser \in Decoders
    /\ stats \in Stats /\ stats.messages = Len(decoded)
    /\ missing \in Nat \cup {Lost}
    /\ sent \in Seq(Receivable) /\ owed \in Seq(Receivable)
    /\ frames \in Nat /\ damaged \in Nat /\ doubled \in Nat /\ misframed \in Nat

\* What the next frame finds, and what is still to come.
InStep == missing # Lost => Lacks(future, missing)
Owing == isSubsequence(owed, future.out)

Contained == CodecTypes /\ InStep /\ Owing

LEMMA FutureIsDecoder ==
  ASSUME CodecTypes
  PROVE  /\ future \in Decoders /\ future \in AnyDecoder /\ future.out \in Seq(Decoded)
         /\ future.crc_errors \in Nat
<1>1. future \in Decoders
  BY FedAllIsDecoder DEF CodecTypes, future
<1> QED BY <1>1, DecoderFields DEF Decoders

LEMMA InitContained == Init => Contained
<1> SUFFICES ASSUME Init PROVE Contained
  OBVIOUS
<1>1. /\ seq \in Byte /\ wire = <<>> /\ partial = EmptyBuffer /\ status = InitialStatus
      /\ stats = [messages |-> 0, crc_errors |-> 0, parse_errors |-> 0]
      /\ decoded = <<>> /\ sent = <<>> /\ frames = 0 /\ damaged = 0 /\ doubled = 0
      /\ misframed = 0 /\ missing = 0 /\ owed = <<>>
  BY CodecAssumption DEF Init
<1>2. /\ partial \in Buffer /\ partial.payload = <<>>
  <2>1. 0 \in Byte /\ 0 \in CrcValue /\ <<>> \in Seq(Byte)
    BY DEF Byte, CrcValue
  <2> QED BY <1>1, <2>1 DEF EmptyBuffer, Buffer
<1>3. /\ status \in Status /\ status.parse_state = "IDLE" /\ status.packet_idx = 0
  BY <1>1 DEF InitialStatus, Status, States
<1>4. /\ parser \in AnyDecoder /\ parser.st = status /\ parser.rx = partial
      /\ parser.out = <<>> /\ parser.crc_errors = 0
  <2>1. <<>> \in Seq(Decoded)
    OBVIOUS
  <2> QED BY <1>1, <1>2, <1>3, <2>1 DEF parser, AnyDecoder
<1>5. parser \in Decoders
  <2>1. Len(<<>>) = 0
    OBVIOUS
  <2> QED BY <1>2, <1>3, <1>4, <2>1 DEF Decoders, Headers, Signatures
<1>6. future = parser
  BY <1>1, FedNothing DEF future
<1>7. CodecTypes
  <2>1. <<>> \in Seq(Byte) /\ <<>> \in Seq(Receivable) /\ Len(<<>>) = 0
    OBVIOUS
  <2>2. stats \in Stats /\ stats.messages = 0
    BY <1>1 DEF Stats
  <2> QED BY <1>1, <1>5, <2>1, <2>2 DEF CodecTypes
<1>8. InStep
  BY <1>1, <1>3, <1>4, <1>6 DEF InStep, Lacks
<1>9. Owing
  <2>1. DOMAIN <<>> = {}
    OBVIOUS
  <2> DEFINE at == [i \in {} |-> 0]
  <2>2. at \in [{} -> {}]
    OBVIOUS
  <2>3. isSubsequence(<<>>, <<>>)
    BY <2>1, <2>2 DEF isSubsequence
  <2> QED BY <1>1, <1>4, <1>6, <2>3 DEF Owing
<1> QED BY <1>7, <1>8, <1>9 DEF Contained

\* A datagram takes its bytes from the wire and changes nothing in what will be.
LEMMA ParseKeeps ==
  ASSUME CodecTypes, NEW size \in Sizes, Parse(size)
  PROVE  CodecTypes' /\ future' = future
<1> DEFINE n == IF size < Len(wire) THEN size ELSE Len(wire)
           a == SubSeq(wire, 1, n)
           b == SubSeq(wire, n + 1, Len(wire))
           fresh == [rx |-> partial, st |-> status, out |-> <<>>, crc_errors |-> 0]
           d == fedAll(fresh, a)
<1>1. /\ wire' = b /\ partial' = d.rx /\ status' = d.st /\ decoded' = decoded \o d.out
      /\ stats' = [messages |-> stats.messages + Len(d.out),
                   crc_errors |-> stats.crc_errors + d.crc_errors,
                   parse_errors |-> stats.parse_errors + d.st.parse_error]
      /\ UNCHANGED <<seq, sent, frames, faults, missing, owed>>
  BY DEF Parse
<1>2. wire \in Seq(Byte) /\ parser \in Decoders /\ stats \in Stats
      /\ stats.messages = Len(decoded)
  BY DEF CodecTypes
<1>3. n \in 0 .. Len(wire)
  <2>1. size \in Nat
    BY CodecAssumption
  <2> QED BY <1>2, <2>1
<1>4. a \in Seq(Byte) /\ b \in Seq(Byte) /\ wire = a \o b
  <2> HIDE DEF n
  <2> QED BY <1>2, <1>3, SplitAt
<1>5. /\ parser.rx = partial /\ parser.st = status /\ parser.out = decoded
      /\ parser.crc_errors = stats.crc_errors /\ parser \in AnyDecoder
  BY <1>2 DEF parser, Decoders
<1>6. decoded \in Seq(Decoded) /\ stats.crc_errors \in Nat /\ partial \in Buffer
      /\ status \in Status
  BY <1>5, DecoderFields
<1>7. fresh \in Decoders
  <2>1. fresh \in AnyDecoder
    <3>1. <<>> \in Seq(Decoded) /\ 0 \in Nat
      OBVIOUS
    <3> QED BY <1>6, <3>1 DEF AnyDecoder
  <2>2. fresh.rx = partial /\ fresh.st = status
    OBVIOUS
  <2> HIDE DEF fresh
  <2> QED BY <1>2, <1>5, <2>1, <2>2 DEF Decoders
<1>8. After(fresh, decoded, stats.crc_errors) = parser
  <2>1. decoded \o <<>> = decoded /\ stats.crc_errors + 0 = stats.crc_errors
    BY <1>6
  <2> QED BY <2>1 DEF After, parser
<1> HIDE DEF fresh, a, b, n
<1>9. fedAll(parser, a) = After(d, decoded, stats.crc_errors)
  BY <1>4, <1>6, <1>7, <1>8, FedAllAfter
<1>10. d \in Decoders
  BY <1>4, <1>7, FedAllIsDecoder
<1>11. /\ d \in AnyDecoder /\ d.rx \in Buffer /\ d.st \in Status /\ d.out \in Seq(Decoded)
       /\ d.crc_errors \in Nat
  BY <1>10, DecoderFields DEF Decoders
<1> HIDE DEF d
<1>12. parser' = After(d, decoded, stats.crc_errors)
  BY <1>1 DEF parser, After
<1>13. parser' \in Decoders
  BY <1>2, <1>4, <1>9, <1>12, FedAllIsDecoder
<1>14. future' = future
  <2>1. future = fedAll(fedAll(parser, a), b)
    BY <1>4, FedTogether DEF future
  <2>2. future' = fedAll(parser', b)
    BY <1>1 DEF future
  <2> QED BY <1>9, <1>12, <2>1, <2>2
<1>15. stats' \in Stats /\ stats'.messages = Len(decoded')
  <2>1. Len(d.out) \in Nat /\ d.st.parse_error \in Nat
    BY <1>11 DEF Status
  <2>2. stats.messages \in Nat /\ stats.parse_errors \in Nat
    BY <1>2 DEF Stats
  <2>3. Len(decoded \o d.out) = Len(decoded) + Len(d.out)
    BY <1>6, <1>11
  <2>4. stats'.messages \in Nat /\ stats'.crc_errors \in Nat
    BY <1>1, <1>2, <1>11, <2>1, <2>2 DEF Stats
  <2>5. stats'.messages = Len(decoded')
    BY <1>1, <1>2, <2>1, <2>2, <2>3 DEF Stats
  <2>6. stats' \in Stats
    BY <1>1, <1>2, <1>11, <2>1, <2>2, <2>4 DEF Stats
  <2> QED BY <2>5, <2>6
<1> QED BY <1>1, <1>4, <1>13, <1>14, <1>15 DEF CodecTypes, faults

\* The bytes of one more frame come after those that are on the wire.
LEMMA PutKeeps ==
  ASSUME CodecTypes, InStep, Owing,
         NEW bytes \in Seq(Byte), NEW swallowed \in Nat \cup {Lost}, put(bytes, swallowed),
         missing = 0 /\ swallowed # Lost => Lacks(fedAll(future, bytes), swallowed)
  PROVE  /\ seq' \in Byte /\ wire' \in Seq(Byte) /\ parser' \in Decoders
         /\ stats' \in Stats /\ stats'.messages = Len(decoded')
         /\ missing' \in Nat \cup {Lost} /\ frames' \in Nat
         /\ future' = fedAll(future, bytes) /\ InStep'
         /\ isSubsequence(owed, future'.out)
<1>1. /\ frames' = frames + 1 /\ seq' = (seq + 1) % 256 /\ wire' = wire \o bytes
      /\ missing' = IF missing # 0 THEN remaining(bytes) ELSE swallowed
      /\ partial' = partial /\ status' = status /\ stats' = stats /\ decoded' = decoded
  BY DEF put, decoder
<1>2. parser' = parser
  BY <1>1 DEF parser
<1>3. wire' \in Seq(Byte) /\ future' = fedAll(future, bytes)
  <2>1. wire \in Seq(Byte)
    BY DEF CodecTypes
  <2>2. wire \o bytes \in Seq(Byte)
    BY <2>1
  <2>3. fedAll(parser, wire \o bytes) = fedAll(fedAll(parser, wire), bytes)
    BY <2>1, FedTogether
  <2> QED BY <1>1, <1>2, <2>2, <2>3 DEF future
<1>4. seq' \in Byte
  <2>1. seq \in Byte
    BY DEF CodecTypes
  <2> QED BY <1>1, <2>1 DEF Byte
<1>5. future \in Decoders /\ future \in AnyDecoder /\ future.out \in Seq(Decoded)
  BY FutureIsDecoder
<1>6. missing' \in Nat \cup {Lost} /\ InStep'
  <2>1. missing \in Nat \cup {Lost}
    BY DEF CodecTypes
  <2>2. CASE missing = 0
    <3>1. missing' = swallowed
      BY <1>1, <2>2
    <3> QED BY <1>3, <2>2, <3>1 DEF InStep
  <2>3. CASE missing # 0
    <3>1. missing' = remaining(bytes)
      BY <1>1, <2>3
    <3>2. /\ remaining(bytes) \in Nat \cup {Lost}
          /\ remaining(bytes) # Lost => Lacks(fedAll(future, bytes), remaining(bytes))
      BY <1>5, <2>1, Remaining DEF InStep
    <3> QED BY <1>3, <3>1, <3>2 DEF InStep
  <2> QED BY <2>2, <2>3
<1>7. isSubsequence(owed, future'.out)
  <2>1. future' \in Decoders /\ Extends(future', future)
    BY <1>3, <1>5, FedAllIsDecoder
  <2>2. future'.out \in Seq(Decoded)
    BY <2>1, DecoderFields DEF Decoders
  <2> DEFINE t == future.out
             u == future'.out
  <2>3. /\ t \in Seq(Decoded) /\ u \in Seq(Decoded) /\ isSubsequence(owed, t)
        /\ Len(t) =< Len(u) /\ \A i \in 1 .. Len(t) : u[i] = t[i]
    BY <1>5, <2>1, <2>2 DEF Owing, Extends
  <2> HIDE DEF t, u
  <2>4. isSubsequence(owed, u)
    BY <2>3, SubseqExtends
  <2> QED BY <2>4 DEF u
<1> QED BY <1>1, <1>2, <1>3, <1>4, <1>6, <1>7 DEF CodecTypes

LEMMA TransmitKeeps ==
  ASSUME Contained, NEW m \in Messages, Transmit(m)
  PROVE  Contained'
<1> DEFINE bytes == serialize(m, seq)
           v == received(m)
<1>1. /\ put(bytes, 0) /\ sent' = Append(sent, v)
      /\ owed' = (IF missing = 0 THEN Append(owed, v) ELSE owed)
      /\ damaged' = damaged /\ doubled' = doubled /\ misframed' = misframed
  BY DEF Transmit, faults
<1>2. CodecTypes /\ InStep /\ Owing /\ seq \in Byte /\ v \in Receivable
  BY DEF Contained, CodecTypes, Receivable
<1>3. bytes \in Seq(Byte)
  BY <1>2, SerializedBegins DEF Begins
<1>4. future \in Decoders /\ future.out \in Seq(Decoded)
  BY <1>2, FutureIsDecoder
<1>5. missing = 0 => /\ future.st.parse_state = "IDLE"
                     /\ fedAll(future, bytes).st.parse_state = "IDLE"
                     /\ fedAll(future, bytes) \in Decoders
                     /\ fedAll(future, bytes).out = Append(future.out, v)
  <2>1. missing = 0 => future.st.parse_state = "IDLE"
    BY <1>2 DEF InStep, Lacks, Lost
  <2> QED BY <1>2, <1>4, <2>1, WholeFrame
<1> HIDE DEF bytes, v
<1>6. missing = 0 => Lacks(fedAll(future, bytes), 0)
  BY <1>5 DEF Lacks
<1>7. /\ seq' \in Byte /\ wire' \in Seq(Byte) /\ parser' \in Decoders
      /\ stats' \in Stats /\ stats'.messages = Len(decoded')
      /\ missing' \in Nat \cup {Lost} /\ frames' \in Nat
      /\ future' = fedAll(future, bytes) /\ InStep'
      /\ isSubsequence(owed, future'.out)
  <2>1. 0 \in Nat \cup {Lost}
    OBVIOUS
  <2> QED BY <1>1, <1>2, <1>3, <1>6, <2>1, PutKeeps
<1>8. CodecTypes'
  <2>1. sent \in Seq(Receivable) /\ owed \in Seq(Receivable) /\ damaged \in Nat
        /\ doubled \in Nat /\ misframed \in Nat
    BY <1>2 DEF CodecTypes
  <2>2. Append(sent, v) \in Seq(Receivable) /\ Append(owed, v) \in Seq(Receivable)
    BY <1>2, <2>1
  <2> QED BY <1>1, <1>7, <2>1, <2>2 DEF CodecTypes
<1>9. Owing'
  <2>1. CASE missing = 0
    <3>1. future'.out = Append(future.out, v) /\ owed' = Append(owed, v)
      BY <1>1, <1>5, <1>7, <2>1
    <3>2. v \in Decoded
      <4> DEFINE t == future.out
                 u == fedAll(future, bytes).out
      <4>1. u \in Seq(Decoded)
        BY <1>5, <2>1, DecoderFields DEF Decoders
      <4>2. t \in Seq(Decoded) /\ u = Append(t, v)
        BY <1>4, <1>5, <2>1
      <4> HIDE DEF t, u
      <4>3. Len(u) = Len(t) + 1 /\ u[Len(t) + 1] = v /\ Len(t) + 1 \in 1 .. Len(u)
        BY <4>2
      <4> QED BY <4>1, <4>3
    <3> DEFINE t == future.out
    <3>3. owed \in Seq(Receivable) /\ t \in Seq(Decoded) /\ isSubsequence(owed, t)
      BY <1>2, <1>4 DEF CodecTypes, Owing
    <3> HIDE DEF t
    <3>4. isSubsequence(Append(owed, v), Append(t, v))
      BY <1>2, <3>2, <3>3, SubseqAppend
    <3> QED BY <3>1, <3>4 DEF Owing, t
  <2>2. CASE missing # 0
    BY <1>1, <1>7, <2>2 DEF Owing
  <2> QED BY <2>1, <2>2
<1> QED BY <1>7, <1>8, <1>9 DEF Contained

replaced(s, i, c) == [s EXCEPT ![i] = c]
flipped(s, i, flip) == [s EXCEPT ![i] = xor(@, flip)]

DiffersAt(i, z, w) ==
    z[i] # w[i] /\ \A k \in 1 .. Len(w) : k # i => z[k] = w[k]

LEMMA Replaced ==
  ASSUME NEW s \in Seq(Byte), NEW i \in 1 .. Len(s), NEW c \in Byte
  PROVE  /\ replaced(s, i, c) \in Seq(Byte) /\ Len(replaced(s, i, c)) = Len(s)
         /\ replaced(s, i, c)[i] = c
         /\ \A k \in 1 .. Len(s) : k # i => replaced(s, i, c)[k] = s[k]
<1> DEFINE t == [s EXCEPT ![i] = c]
<1>1. t \in Seq(Byte) /\ Len(t) = Len(s)
  OBVIOUS
<1>2. t[i] = c
  OBVIOUS
<1>3. \A k \in 1 .. Len(s) : k # i => t[k] = s[k]
  OBVIOUS
<1> HIDE DEF t
<1>4. replaced(s, i, c) = t
  BY DEF replaced, t
<1> QED BY <1>1, <1>2, <1>3, <1>4

\* The bytes of a frame of m that may be wrong: those that only the checksum
\* protects.
Covered(m, w) == framing(m) + 1 .. Len(w) - unread(m)

LEMMA CoveredIs ==
  ASSUME NEW m, NEW w, Len(w) \in Nat, NEW i \in Covered(m, w)
  PROVE  /\ i \in 1 .. Len(w) /\ i # 1 /\ i # 2 /\ (m.form # "v1" => i # 3)
         /\ i =< Len(w) - unread(m) /\ unread(m) \in {0, 13}
<1>1. unread(m) \in {0, 13} /\ framing(m) \in {2, 3} /\ (m.form # "v1" => framing(m) = 3)
  BY DEF unread, framing, SIGNATURE_BLOCK_LEN
<1>2. i \in framing(m) + 1 .. Len(w) - unread(m)
  BY DEF Covered
<1> DEFINE L == Len(w)
           U == unread(m)
           F == framing(m)
<1>3. L \in Nat
  OBVIOUS
<1> HIDE DEF L, U, F
<1>4. U \in {0, 13} /\ F \in {2, 3} /\ i \in F + 1 .. L - U
  BY <1>1, <1>2 DEF L, U, F
<1>5. i \in 1 .. L /\ i # 1 /\ i # 2 /\ (F = 3 => i # 3) /\ i =< L - U
  BY ONLY <1>3, <1>4
<1> QED BY <1>1, <1>5 DEF L, U, F

\* A frame with such a wrong byte has its length.
LEMMA DamagedLength ==
  ASSUME NEW m \in Messages, NEW n \in Byte, NEW i \in Covered(m, serialize(m, n)),
         NEW flip \in Flips,
         NEW bytes, bytes = flipped(serialize(m, n), i, flip)
  PROVE  /\ Begins(bytes) /\ Len(bytes) = frameLength(bytes)
         /\ DiffersAt(i, bytes, serialize(m, n)) /\ i \in 1 .. Len(serialize(m, n))
         /\ Len(bytes) = Len(serialize(m, n))
         /\ bytes[1] = serialize(m, n)[1] /\ bytes[2] = serialize(m, n)[2]
<1> DEFINE w == serialize(m, n)
<1>1. /\ Begins(w) /\ Len(w) = frameLength(w) /\ Len(w) \in Nat /\ Len(w) > 3
      /\ m.form # "v1" => w[1] = MAVLINK_STX
      /\ m.form = "v1" => w[1] = MAVLINK_STX_MAVLINK1
  BY SerializedBegins
<1> HIDE DEF w
<1>2. w \in Seq(Byte)
  BY <1>1 DEF Begins
<1>3. i \in 1 .. Len(w) /\ i # 1 /\ i # 2 /\ (m.form # "v1" => i # 3)
  BY <1>1, CoveredIs DEF w
<1>4. xor(w[i], flip) \in Byte /\ xor(w[i], flip) # w[i]
  <2>1. flip \in Byte /\ flip # 0
    <3>1. flip \in 1 .. 255
      BY CodecAssumption
    <3> QED BY <3>1 DEF Byte
  <2>2. w[i] \in Byte
    BY <1>2, <1>3
  <2> QED BY <2>1, <2>2, XorType, XorChanges
<1> DEFINE x == xor(w[i], flip)
<1>5. bytes = replaced(w, i, x)
  BY DEF w, replaced, flipped
<1> HIDE DEF x
<1>6. /\ bytes \in Seq(Byte) /\ Len(bytes) = Len(w)
      /\ bytes[1] = w[1] /\ bytes[2] = w[2] /\ (m.form # "v1" => bytes[3] = w[3])
      /\ bytes[i] = x /\ \A k \in 1 .. Len(w) : k # i => bytes[k] = w[k]
  <2>1. x \in Byte
    BY <1>4 DEF x
  <2>2. 1 \in 1 .. Len(w) /\ 2 \in 1 .. Len(w) /\ 3 \in 1 .. Len(w)
    BY <1>1
  <2> DEFINE z == replaced(w, i, x)
  <2>3. /\ z \in Seq(Byte) /\ Len(z) = Len(w) /\ z[i] = x
        /\ \A k \in 1 .. Len(w) : k # i => z[k] = w[k]
    BY <1>2, <1>3, <2>1, Replaced
  <2> HIDE DEF z
  <2>4. bytes = z
    BY <1>5 DEF z
  <2> QED BY <1>3, <2>2, <2>3, <2>4
<1>7. DiffersAt(i, bytes, w)
  BY <1>4, <1>6 DEF DiffersAt, x
<1>8. MAVLINK_STX # MAVLINK_STX_MAVLINK1
  BY DEF MAVLINK_STX, MAVLINK_STX_MAVLINK1
<1>9. frameLength(bytes) = frameLength(w) /\ Begins(bytes)
  <2>1. CASE m.form = "v1"
    BY <1>1, <1>6, <1>8, <2>1 DEF Begins, frameLength
  <2>2. CASE m.form # "v1"
    BY <1>1, <1>6, <2>2 DEF Begins, frameLength
  <2> QED BY <2>1, <2>2
<1> QED BY <1>1, <1>3, <1>6, <1>7, <1>9 DEF w

LEMMA DamageKeeps ==
  ASSUME Contained, NEW m \in Messages, Damage(m, serialize(m, seq)), UNCHANGED owed
  PROVE  Contained'
<1>1. PICK i \in Covered(m, serialize(m, seq)), flip \in Flips :
         put(flipped(serialize(m, seq), i, flip), 0)
  BY DEF Damage, Covered, flipped
<1> DEFINE bytes == flipped(serialize(m, seq), i, flip)
<1>2. put(bytes, 0) /\ UNCHANGED sent
  BY <1>1 DEF Damage
<1>3. CodecTypes /\ InStep /\ Owing /\ seq \in Byte
  BY DEF Contained, CodecTypes
<1>4. Begins(bytes) /\ Len(bytes) = frameLength(bytes)
  BY <1>3, DamagedLength
<1> HIDE DEF bytes
<1>5. bytes \in Seq(Byte) /\ Len(bytes) \in Nat
  BY <1>4, ByteAt DEF Begins
<1>6. missing = 0 => Lacks(fedAll(future, bytes), 0)
  <2>1. future \in Decoders
    BY <1>3, FutureIsDecoder
  <2>2. missing = 0 => future.st.parse_state = "IDLE"
    BY <1>3 DEF InStep, Lacks, Lost
  <2>3. frameLength(bytes) - Len(bytes) = 0 /\ Len(bytes) =< frameLength(bytes)
    BY <1>4, <1>5
  <2>4. missing = 0 => Lacks(fedAll(future, bytes), frameLength(bytes) - Len(bytes))
    BY <1>4, <2>1, <2>2, <2>3, Begun
  <2> QED BY <2>3, <2>4
<1>7. /\ seq' \in Byte /\ wire' \in Seq(Byte) /\ parser' \in Decoders
      /\ stats' \in Stats /\ stats'.messages = Len(decoded')
      /\ missing' \in Nat \cup {Lost} /\ frames' \in Nat
      /\ future' = fedAll(future, bytes) /\ InStep'
      /\ isSubsequence(owed, future'.out)
  <2>1. 0 \in Nat \cup {Lost}
    OBVIOUS
  <2> QED BY <1>2, <1>3, <1>5, <1>6, <2>1, PutKeeps
<1>8. damaged' \in Nat /\ doubled' \in Nat /\ misframed' \in Nat
  <2>1. /\ damaged' = damaged + 1 /\ misframed' = misframed
        /\ doubled' = IF m.form = "signed" THEN doubled + 1 ELSE doubled
    BY DEF Damage
  <2> QED BY <1>3, <2>1 DEF CodecTypes
<1> QED BY <1>2, <1>3, <1>7, <1>8 DEF Contained, CodecTypes, Owing

LEMMA UnknownKeeps ==
  ASSUME Contained, NEW m \in Messages, Unknown(m, serialize(m, seq)), UNCHANGED owed
  PROVE  Contained'
<1> DEFINE w == serialize(m, seq)
           bytes == [w EXCEPT ![3] = w[3] + 2]
           swallowed == IF quiet(Tail(w)) THEN 0 ELSE Lost
<1>1. /\ put(bytes, swallowed) /\ misframed' = misframed + 1 /\ damaged' = damaged
      /\ doubled' = doubled /\ sent' = sent /\ m.form # "v1"
  BY DEF Unknown
<1>2. CodecTypes /\ InStep /\ Owing /\ seq \in Byte
  BY DEF Contained, CodecTypes
<1>3. Begins(w) /\ Len(w) \in Nat /\ Len(w) > 3 /\ w[1] = MAVLINK_STX
  BY <1>1, <1>2, SerializedBegins
<1> HIDE DEF w
<1>4. w \in Seq(Byte)
  BY <1>3 DEF Begins
<1> DEFINE N == Len(w)
           two == w[3] + 2
<1>5. two \in Byte /\ two > IFLAG_SIGNED
  <2> DEFINE v == w[3]
  <2>1. ~(v > IFLAG_SIGNED)
    BY <1>3 DEF Begins
  <2>2. v \in Byte
    <3>1. 3 \in 1 .. Len(w)
      BY <1>3
    <3> QED BY <1>4, <3>1, ByteAt
  <2>3. two = v + 2
    OBVIOUS
  <2> HIDE DEF v, two
  <2> QED BY <2>1, <2>2, <2>3 DEF Byte, IFLAG_SIGNED
<1>6. bytes = [w EXCEPT ![3] = two]
  OBVIOUS
<1> HIDE DEF two, bytes
<1>7. /\ bytes \in Seq(Byte) /\ Len(bytes) = N /\ bytes[1] = w[1] /\ bytes[3] = two
      /\ \A k \in 4 .. N : bytes[k] = w[k]
  <2>1. 1 \in 1 .. N /\ 3 \in 1 .. N /\ \A k \in 4 .. N : k \in 1 .. N /\ k # 3
    BY <1>3
  <2> QED BY <1>4, <1>5, <1>6, <2>1
<1> DEFINE a == SubSeq(bytes, 1, 3)
           b == SubSeq(bytes, 3 + 1, N)
<1>8. /\ a \in Seq(Byte) /\ b \in Seq(Byte) /\ bytes = a \o b
      /\ Len(b) = N - 3 /\ \A k \in 1 .. N - 3 : b[k] = bytes[3 + k]
  <2>1. 3 \in 0 .. Len(bytes)
    BY <1>3, <1>7
  <2> QED BY <1>7, <2>1, SplitAt
<1>9. quiet(Tail(w)) => quiet(b)
  <2>1. Tail(w) \in Seq(Byte) /\ Len(Tail(w)) = N - 1
        /\ \A k \in 1 .. N - 1 : Tail(w)[k] = w[k + 1]
    BY <1>3, <1>4
  <2> DEFINE z == Tail(w)
  <2> HIDE DEF b, z
  <2>2. ASSUME NEW k \in 1 .. N - 3 PROVE b[k] = z[k + 2]
    <3>1. 3 + k \in 4 .. N /\ k + 2 \in 1 .. N - 1 /\ (k + 2) + 1 = 3 + k
      BY <1>3
    <3> QED BY <1>7, <1>8, <2>1, <3>1 DEF z
  <2>3. DOMAIN b = 1 .. N - 3 /\ DOMAIN z = 1 .. N - 1
    BY <1>8, <2>1 DEF z
  <2>4. \A k \in 1 .. N - 3 : k + 2 \in 1 .. N - 1
    BY <1>3
  <2> QED BY <2>2, <2>3, <2>4 DEF quiet, z
<1>10. missing = 0 /\ swallowed # Lost => Lacks(fedAll(future, bytes), swallowed)
  <2> SUFFICES ASSUME missing = 0, swallowed # Lost
               PROVE  Lacks(fedAll(future, bytes), swallowed)
    OBVIOUS
  <2>1. swallowed = 0 /\ quiet(b)
    BY <1>9
  <2>2. future \in Decoders /\ future.st.parse_state = "IDLE"
    BY <1>2, FutureIsDecoder DEF InStep, Lacks, Lost
  <2>3. /\ Len(bytes) >= 3 /\ bytes[1] \in {MAVLINK_STX, MAVLINK_STX_MAVLINK1}
        /\ bytes[1] = MAVLINK_STX /\ bytes[3] > IFLAG_SIGNED
    BY <1>3, <1>5, <1>7
  <2> DEFINE e == fedAll(future, a)
  <2>4. e \in Decoders /\ e.st.parse_state = "IDLE"
    BY <1>7, <2>2, <2>3, FirstThree
  <2> HIDE DEF e, a, b
  <2>5. fedAll(e, b).st.parse_state = "IDLE"
    BY <1>8, <2>1, <2>4, SkipAll
  <2>6. fedAll(future, bytes) = fedAll(e, b)
    BY <1>8, FedTogether DEF e
  <2> QED BY <2>1, <2>5, <2>6 DEF Lacks
<1>11. swallowed \in Nat \cup {Lost}
  OBVIOUS
<1> HIDE DEF swallowed
<1>12. /\ seq' \in Byte /\ wire' \in Seq(Byte) /\ parser' \in Decoders
       /\ stats' \in Stats /\ stats'.messages = Len(decoded')
       /\ missing' \in Nat \cup {Lost} /\ frames' \in Nat
       /\ future' = fedAll(future, bytes) /\ InStep'
       /\ isSubsequence(owed, future'.out)
  BY <1>1, <1>2, <1>7, <1>10, <1>11, PutKeeps
<1> QED BY <1>1, <1>2, <1>12 DEF Contained, CodecTypes, Owing

LEMMA CutKeeps ==
  ASSUME Contained, NEW m \in Messages, Cut(m, serialize(m, seq)), UNCHANGED owed
  PROVE  Contained'
<1> DEFINE w == serialize(m, seq)
           N == Len(w)
<1>1. PICK n \in 1 .. N - 1 :
         /\ put(SubSeq(w, 1, n), IF n < 3 THEN Lost ELSE N - n)
         /\ sent' = IF m.form = "signed" /\ n >= N - SIGNATURE_BLOCK_LEN
                    THEN Append(sent, received(m))
                    ELSE sent
  BY DEF Cut
<1>2. misframed' = misframed + 1 /\ damaged' = damaged /\ doubled' = doubled
  BY DEF Cut
<1>3. CodecTypes /\ InStep /\ Owing /\ seq \in Byte
  BY DEF Contained, CodecTypes
<1>4. Begins(w) /\ N = frameLength(w) /\ N \in Nat /\ N > 3
  BY <1>3, SerializedBegins
<1> HIDE DEF w
<1>5. w \in Seq(Byte)
  BY <1>4 DEF Begins
<1> DEFINE bytes == SubSeq(w, 1, n)
           swallowed == IF n < 3 THEN Lost ELSE N - n
<1>6. /\ bytes \in Seq(Byte) /\ Len(bytes) = n /\ \A i \in 1 .. n : bytes[i] = w[i]
  <2>1. n \in 0 .. Len(w)
    BY <1>4
  <2> QED BY <1>5, <2>1, SplitAt
<1>7. put(bytes, swallowed)
  BY <1>1
<1>8. swallowed \in Nat \cup {Lost}
  BY <1>4
<1>9. missing = 0 /\ swallowed # Lost => Lacks(fedAll(future, bytes), swallowed)
  <2> SUFFICES ASSUME missing = 0, swallowed # Lost
               PROVE  Lacks(fedAll(future, bytes), swallowed)
    OBVIOUS
  <2>1. n >= 3 /\ swallowed = N - n /\ n =< N /\ n \in Nat
    BY <1>4
  <2>2. future \in Decoders /\ future.st.parse_state = "IDLE"
    BY <1>3, FutureIsDecoder DEF InStep, Lacks, Lost
  <2> HIDE DEF bytes, swallowed
  <2>3. bytes[1] = w[1] /\ bytes[2] = w[2] /\ bytes[3] = w[3]
    <3>1. 1 \in 1 .. n /\ 2 \in 1 .. n /\ 3 \in 1 .. n
      BY <2>1
    <3> QED BY <1>6, <3>1
  <2>4. frameLength(bytes) = N
    BY <1>4, <2>3 DEF frameLength
  <2>5. Begins(bytes)
    BY <1>4, <1>6, <2>1, <2>3 DEF Begins
  <2>6. Lacks(fedAll(future, bytes), frameLength(bytes) - Len(bytes))
    BY <1>6, <2>1, <2>2, <2>4, <2>5, Begun
  <2> QED BY <1>6, <2>1, <2>4, <2>6
<1> HIDE DEF bytes, swallowed
<1>10. /\ seq' \in Byte /\ wire' \in Seq(Byte) /\ parser' \in Decoders
       /\ stats' \in Stats /\ stats'.messages = Len(decoded')
       /\ missing' \in Nat \cup {Lost} /\ frames' \in Nat
       /\ future' = fedAll(future, bytes) /\ InStep'
       /\ isSubsequence(owed, future'.out)
  BY <1>3, <1>6, <1>7, <1>8, <1>9, PutKeeps
<1>11. sent' \in Seq(Receivable)
  <2> DEFINE v == received(m)
  <2>1. v \in Receivable /\ sent \in Seq(Receivable)
    BY <1>3 DEF Receivable, CodecTypes
  <2> HIDE DEF v
  <2>2. Append(sent, v) \in Seq(Receivable)
    BY <2>1
  <2> QED BY <1>1, <2>1, <2>2 DEF v
<1> QED BY <1>2, <1>3, <1>10, <1>11 DEF Contained, CodecTypes, Owing

LEMMA NextContained == Contained /\ [Next]_vars => Contained'
<1> SUFFICES ASSUME Contained, [Next]_vars PROVE Contained'
  OBVIOUS
<1>1. ASSUME NEW m \in Messages, Transmit(m) PROVE Contained'
  BY <1>1, TransmitKeeps
<1>2. ASSUME NEW m \in Messages, Fault(m) PROVE Contained'
  <2>1. UNCHANGED owed
    BY <1>2 DEF Fault
  <2>2. CASE Damage(m, serialize(m, seq))
    BY <2>1, <2>2, DamageKeeps
  <2>3. CASE Unknown(m, serialize(m, seq))
    BY <2>1, <2>3, UnknownKeeps
  <2>4. CASE Cut(m, serialize(m, seq))
    BY <2>1, <2>4, CutKeeps
  <2> QED BY <1>2, <2>2, <2>3, <2>4 DEF Fault
<1>3. ASSUME NEW size \in Sizes, Parse(size) PROVE Contained'
  <2>1. CodecTypes' /\ future' = future /\ missing' = missing /\ owed' = owed
    BY <1>3, ParseKeeps DEF Contained, Parse
  <2> QED BY <2>1 DEF Contained, InStep, Owing
<1>4. CASE UNCHANGED vars
  BY <1>4 DEF vars, decoder, faults, Contained, CodecTypes, InStep, Owing, future, parser
<1> QED BY <1>1, <1>2, <1>3, <1>4 DEF Next

-----------------------------------------------------------------------------
(***************************************************************************)
(* A frame with a wrong byte that only the checksum protects.              *)
(***************************************************************************)
\* The parts of bytes that are read as one frame.
Divided(z, old, h, b, c1, c2, t) ==
    /\ Heads(old, h, b, t) /\ c1 \in Byte /\ c2 \in Byte
    /\ Laid(z, old, h, b, c1, c2, t)

LEMMA DividedIs ==
  ASSUME NEW z, NEW old, NEW h, NEW b, NEW c1, NEW c2, NEW t,
         Divided(z, old, h, b, c1, c2, t)
  PROVE  /\ z \in Seq(Byte) /\ h \in Seq(Byte) /\ b \in Seq(Byte) /\ t \in Seq(Byte)
         /\ c1 \in Byte /\ c2 \in Byte /\ old \in BOOLEAN
         /\ Len(h) = (IF old THEN 5 ELSE 9)
         /\ Len(h) \in Nat /\ Len(b) \in Nat /\ Len(t) \in Nat
         /\ Len(z) = Len(h) + Len(b) + Len(t) + 3
         /\ z[1] = startByte(old) /\ z[2] = Len(b)
         /\ \A k \in 1 .. Len(h) : z[1 + k] = h[k]
         /\ \A k \in 1 .. Len(b) : z[1 + Len(h) + k] = b[k]
         /\ z[Len(h) + Len(b) + 2] = c1 /\ z[Len(h) + Len(b) + 3] = c2
         /\ \A k \in 1 .. Len(t) : z[Len(h) + Len(b) + 3 + k] = t[k]
<1> DEFINE H == Len(h)
           B == Len(b)
           T == Len(t)
<1>1. /\ old \in BOOLEAN /\ h \in Seq(Byte) /\ b \in Seq(Byte) /\ t \in Seq(Byte)
      /\ H = (IF old THEN 5 ELSE 9) /\ h[1] = B
  BY DEF Divided, Heads
<1>2. /\ c1 \in Byte /\ c2 \in Byte /\ z \in Seq(Byte) /\ Len(z) = H + B + T + 3
      /\ z[1] = startByte(old)
      /\ \A k \in 1 .. H : z[1 + k] = h[k]
      /\ \A k \in 1 .. B : z[1 + H + k] = b[k]
      /\ z[H + B + 2] = c1 /\ z[H + B + 3] = c2
      /\ \A k \in 1 .. T : z[H + B + 3 + k] = t[k]
  BY ZenonT(60) DEF Divided, Laid
<1>3. H \in Nat /\ B \in Nat /\ T \in Nat
  BY <1>1, ByteAt
<1> HIDE DEF H, B, T
<1>4. z[2] = B
  <2>1. 1 \in 1 .. H /\ 1 + 1 = 2
    BY <1>1
  <2> QED BY ONLY <1>1, <1>2, <2>1
<1> QED BY ONLY <1>1, <1>2, <1>3, <1>4 DEF H, B, T

LEMMA Rebuilt ==
  ASSUME NEW z, NEW old, NEW h, NEW b, NEW c1, NEW c2, NEW t,
         Divided(z, old, h, b, c1, c2, t)
  PROVE  z = Frame(startByte(old), h, b, c1, c2, t)
<1> DEFINE H == Len(h)
           B == Len(b)
           T == Len(t)
           f == Frame(startByte(old), h, b, c1, c2, t)
           N == H + B + T + 3
<1>1. Divided(f, old, h, b, c1, c2, t)
  BY FrameIs DEF Divided
<1> HIDE DEF f
<1>d. Divided(z, old, h, b, c1, c2, t)
  OBVIOUS
<1>2. /\ z \in Seq(Byte) /\ H \in Nat /\ B \in Nat /\ T \in Nat /\ Len(z) = N
      /\ z[1] = startByte(old)
      /\ \A k \in 1 .. H : z[1 + k] = h[k]
      /\ \A k \in 1 .. B : z[1 + H + k] = b[k]
      /\ z[H + B + 2] = c1 /\ z[H + B + 3] = c2
      /\ \A k \in 1 .. T : z[H + B + 3 + k] = t[k]
  BY ONLY <1>d, DividedIs
<1>3. /\ f \in Seq(Byte) /\ Len(f) = N /\ f[1] = startByte(old)
      /\ \A k \in 1 .. H : f[1 + k] = h[k]
      /\ \A k \in 1 .. B : f[1 + H + k] = b[k]
      /\ f[H + B + 2] = c1 /\ f[H + B + 3] = c2
      /\ \A k \in 1 .. T : f[H + B + 3 + k] = t[k]
  BY ONLY <1>1, DividedIs
<1> HIDE DEF H, B, T
<1>n. H \in Nat /\ B \in Nat /\ T \in Nat
  BY <1>2
<1>4. ASSUME NEW j \in 1 .. N PROVE z[j] = f[j]
  <2>0. j \in 1 .. H + B + T + 3
    OBVIOUS
  <2>1. CASE j \in 2 .. H + 1
    <3> DEFINE k == j - 1
    <3>1. k \in 1 .. H /\ 1 + k = j
      BY ONLY <1>n, <2>1
    <3> HIDE DEF k
    <3> QED BY ONLY <1>2, <1>3, <3>1
  <2>2. CASE j \in H + 2 .. H + B + 1
    <3> DEFINE k == j - H - 1
    <3>1. k \in 1 .. B /\ 1 + H + k = j
      BY ONLY <1>n, <2>2
    <3> HIDE DEF k
    <3>2. z[1 + H + k] = b[k] /\ f[1 + H + k] = b[k]
      BY ONLY <1>2, <1>3, <3>1
    <3> QED BY ONLY <3>1, <3>2
  <2>3. CASE j \in H + B + 4 .. H + B + T + 3
    <3> DEFINE k == j - (H + B + 3)
    <3>1. k \in 1 .. T /\ H + B + 3 + k = j
      BY ONLY <1>n, <2>3
    <3> HIDE DEF k
    <3>2. z[H + B + 3 + k] = t[k] /\ f[H + B + 3 + k] = t[k]
      BY ONLY <1>2, <1>3, <3>1
    <3> QED BY ONLY <3>1, <3>2
  <2>4. \/ j = 1 \/ j = H + B + 2 \/ j = H + B + 3
        \/ j \in 2 .. H + 1 \/ j \in H + 2 .. H + B + 1
        \/ j \in H + B + 4 .. H + B + T + 3
    BY ONLY <1>n, <2>0
  <2>5. CASE j = 1
    BY ONLY <1>2, <1>3, <2>5
  <2>6. CASE j = H + B + 2
    BY ONLY <1>2, <1>3, <2>6
  <2>7. CASE j = H + B + 3
    BY ONLY <1>2, <1>3, <2>7
  <2> QED BY ONLY <2>1, <2>2, <2>3, <2>4, <2>5, <2>6, <2>7
<1> HIDE DEF N
<1>5. z = f
  BY <1>2, <1>3, <1>4, SeqEqual
<1> QED BY <1>5 DEF f

\* A stretch of a sequence of bytes.
LEMMA Stretch ==
  ASSUME NEW z \in Seq(Byte), NEW from \in Nat, NEW n \in Nat, from + n =< Len(z),
         NEW s, s = [k \in 1 .. n |-> z[from + k]]
  PROVE  s \in Seq(Byte) /\ Len(s) = n /\ \A k \in 1 .. n : s[k] = z[from + k]
<1>1. ASSUME NEW k \in 1 .. n PROVE z[from + k] \in Byte
  <2>1. from + k \in 1 .. Len(z)
    OBVIOUS
  <2> QED BY <2>1
<1> QED BY <1>1

\* Bytes that have the length their header announces are read as one frame.
LEMMA Divides ==
  ASSUME NEW z, Begins(z), Len(z) = frameLength(z)
  PROVE  \E old, h, b, c1, c2, t :
            Divided(z, old, h, b, c1, c2, t) /\ (old <=> z[1] = MAVLINK_STX_MAVLINK1)
<1> DEFINE old == z[1] = MAVLINK_STX_MAVLINK1
           H == IF old THEN 5 ELSE 9
           B == z[2]
           T == IF old THEN 0 ELSE trailer(z[3])
           HB == H + B
           HB3 == H + B + 3
           h == [k \in 1 .. H |-> z[1 + k]]
           b == [k \in 1 .. B |-> z[(1 + H) + k]]
           t == [k \in 1 .. T |-> z[HB3 + k]]
           c1 == z[HB + 2]
           c2 == z[HB + 3]
<1>1. /\ z \in Seq(Byte) /\ Len(z) >= 3
      /\ z[1] \in {MAVLINK_STX, MAVLINK_STX_MAVLINK1}
      /\ z[1] = MAVLINK_STX => ~(z[3] > IFLAG_SIGNED)
      /\ Len(z) = IF old THEN 8 + B ELSE 12 + B + trailer(z[3])
  BY DEF Begins, frameLength
<1>2. B \in Nat /\ T \in {0, 13} /\ T \in Nat
  <2>1. 2 \in 1 .. Len(z)
    BY <1>1, ByteAt
  <2>2. B \in Nat
    BY <1>1, <2>1, ByteAt, BytesAreNat
  <2> QED BY <2>2, Trailers
<1>3. H \in {5, 9} /\ old \in BOOLEAN
  OBVIOUS
<1>4. Len(z) = H + B + T + 3
  BY <1>1, <1>2
<1>5. z[1] = startByte(old)
  BY <1>1 DEF startByte
<1> HIDE DEF H, T, B
<1>6. h \in Seq(Byte) /\ Len(h) = H /\ \A k \in 1 .. H : h[k] = z[1 + k]
  <2>1. H \in Nat /\ 1 \in Nat /\ 1 + H =< Len(z)
    BY <1>2, <1>3, <1>4
  <2> HIDE DEF h
  <2>2. h = [k \in 1 .. H |-> z[1 + k]]
    BY DEF h
  <2> QED BY ONLY <1>1, <2>1, <2>2, Stretch
<1>7. b \in Seq(Byte) /\ Len(b) = B /\ \A k \in 1 .. B : b[k] = z[1 + H + k]
  <2> DEFINE from == 1 + H
  <2>1. B \in Nat /\ from \in Nat /\ from + B =< Len(z)
    BY <1>2, <1>3, <1>4
  <2>2. b = [k \in 1 .. B |-> z[from + k]]
    OBVIOUS
  <2> HIDE DEF b, from
  <2>3. b \in Seq(Byte) /\ Len(b) = B /\ \A k \in 1 .. B : b[k] = z[from + k]
    BY ONLY <1>1, <2>1, <2>2, Stretch
  <2> QED BY ONLY <2>3 DEF from
<1>8. t \in Seq(Byte) /\ Len(t) = T /\ \A k \in 1 .. T : t[k] = z[H + B + 3 + k]
  <2>1. T \in Nat /\ HB3 \in Nat /\ HB3 + T =< Len(z)
    BY <1>2, <1>3, <1>4
  <2>2. t = [k \in 1 .. T |-> z[HB3 + k]]
    OBVIOUS
  <2>3. HB3 = H + B + 3
    OBVIOUS
  <2> HIDE DEF t, HB3
  <2>4. t \in Seq(Byte) /\ Len(t) = T /\ \A k \in 1 .. T : t[k] = z[HB3 + k]
    BY ONLY <1>1, <2>1, <2>2, Stretch
  <2> QED BY ONLY <2>3, <2>4
<1>9. c1 \in Byte /\ c2 \in Byte /\ z[H + B + 2] = c1 /\ z[H + B + 3] = c2
  <2>1. HB + 2 \in 1 .. Len(z) /\ HB + 3 \in 1 .. Len(z)
    BY <1>2, <1>3, <1>4
  <2> QED BY <1>1, <2>1
<1>10. h[1] = B /\ h[2] = z[3]
  <2>1. 1 \in 1 .. H /\ 2 \in 1 .. H /\ 1 + 1 = 2 /\ 1 + 2 = 3
    BY <1>3
  <2>2. h[1] = z[1 + 1] /\ h[2] = z[1 + 2]
    BY ONLY <1>6, <2>1
  <2>3. z[1 + 1] = B /\ z[1 + 2] = z[3]
    BY <2>1 DEF B
  <2> QED BY ONLY <2>2, <2>3
<1> HIDE DEF h, b, t, c1, c2, HB, HB3
<1>11. Heads(old, h, b, t)
  <2>1. Len(h) = (IF old THEN 5 ELSE 9) /\ Len(t) = IF old THEN 0 ELSE trailer(h[2])
    BY <1>6, <1>8, <1>10 DEF H, T
  <2>2. ~old => ~(h[2] > IFLAG_SIGNED)
    BY <1>1, <1>10
  <2> QED BY <1>3, <1>6, <1>7, <1>8, <1>10, <2>1, <2>2 DEF Heads
<1>12. Laid(z, old, h, b, c1, c2, t)
  <2>1. Len(z) = Len(h) + Len(b) + Len(t) + 3
    BY ONLY <1>4, <1>6, <1>7, <1>8
  <2> QED BY ONLY <1>1, <1>5, <1>6, <1>7, <1>8, <1>9, <2>1 DEF Laid
<1> HIDE DEF old
<1>13. Divided(z, old, h, b, c1, c2, t)
  BY <1>9, <1>11, <1>12 DEF Divided
<1> QED BY <1>13 DEF old

\* Header and body of a frame, one after the other, and the message id.
idBytes(old) == IF old THEN {6} ELSE 8 .. 10
idOf(old, z) == IF old THEN z[6] ELSE z[8] + 256 * z[9] + 65536 * z[10]

Content(z, s, n) == s \in Seq(Byte) /\ Len(s) = n /\ \A k \in 1 .. n : s[k] = z[1 + k]

LEMMA DividedContent ==
  ASSUME NEW z, NEW old, NEW h, NEW b, NEW c1, NEW c2, NEW t,
         Divided(z, old, h, b, c1, c2, t)
  PROVE  Content(z, h \o b, Len(h) + Len(b))
<1> DEFINE H == Len(h)
           B == Len(b)
           g == h \o b
           n == H + B
<1>1. /\ h \in Seq(Byte) /\ b \in Seq(Byte) /\ H \in Nat /\ B \in Nat
      /\ \A k \in 1 .. H : z[1 + k] = h[k]
      /\ \A k \in 1 .. B : z[1 + H + k] = b[k]
  <2>1. Divided(z, old, h, b, c1, c2, t)
    OBVIOUS
  <2>2. h \in Seq(Byte) /\ b \in Seq(Byte) /\ Len(h) \in Nat /\ Len(b) \in Nat
    BY ONLY <2>1, DividedIs
  <2>3. \A k \in 1 .. Len(h) : z[1 + k] = h[k]
    BY ONLY <2>1, DividedIs
  <2>4. \A k \in 1 .. Len(b) : z[1 + Len(h) + k] = b[k]
    BY ONLY <2>1, DividedIs
  <2> QED BY ONLY <2>2, <2>3, <2>4
<1>2. /\ g \in Seq(Byte) /\ Len(g) = n
      /\ \A k \in 1 .. H : g[k] = h[k]
      /\ \A k \in 1 .. B : g[H + k] = b[k]
  BY <1>1, Joined, ZenonT(60)
<1>3. ASSUME NEW k \in 1 .. n PROVE g[k] = z[1 + k]
  <2> HIDE DEF g
  <2>1. CASE k \in 1 .. H
    BY ONLY <1>1, <1>2, <2>1
  <2>2. CASE k \in H + 1 .. n
    <3> DEFINE j == k - H
    <3>1. j \in 1 .. B /\ H + j = k /\ 1 + H + j = 1 + k
      BY <1>1, <2>2
    <3> HIDE DEF j, B, H
    <3>2. g[H + j] = b[j] /\ z[1 + H + j] = b[j]
      BY ONLY <1>1, <1>2, <3>1
    <3> QED BY ONLY <3>1, <3>2
  <2>3. k \in 1 .. H \/ k \in H + 1 .. n
    BY <1>1
  <2> QED BY ONLY <2>1, <2>2, <2>3
<1> HIDE DEF g, n
<1>4. Content(z, g, n)
  BY <1>2, <1>3 DEF Content
<1> QED BY <1>4 DEF g, n

LEMMA DividedId ==
  ASSUME NEW z, NEW old, NEW h, NEW b, NEW c1, NEW c2, NEW t,
         Divided(z, old, h, b, c1, c2, t)
  PROVE  idIn(old, h) = idOf(old, z) /\ idIn(old, h) \in Nat
<1> DEFINE H == Len(h)
<1>1. /\ old \in BOOLEAN /\ h \in Seq(Byte) /\ H = (IF old THEN 5 ELSE 9)
      /\ \A k \in 1 .. H : z[1 + k] = h[k]
  <2>1. Divided(z, old, h, b, c1, c2, t)
    OBVIOUS
  <2> QED BY ONLY <2>1, DividedIs
<1>2. CASE old
  <2>1. 5 \in 1 .. H /\ 1 + 5 = 6
    BY <1>1, <1>2
  <2>2. h[5] = z[6] /\ h[5] \in Nat
    BY <1>1, <2>1, ByteAt, BytesAreNat
  <2> QED BY <1>2, <2>2 DEF idIn, idOf
<1>3. CASE ~old
  <2>1. 7 \in 1 .. H /\ 8 \in 1 .. H /\ 9 \in 1 .. H /\ 1 + 7 = 8 /\ 1 + 8 = 9 /\ 1 + 9 = 10
    BY <1>1, <1>3
  <2> DEFINE p == h[7]
             q == h[8]
             r == h[9]
  <2>2. p = z[8] /\ q = z[9] /\ r = z[10]
    BY <1>1, <2>1
  <2>3. p \in Nat /\ q \in Nat /\ r \in Nat
    BY <1>1, <2>1, ByteAt, BytesAreNat
  <2>4. idIn(old, h) = p + 256 * q + 65536 * r
    BY <1>3 DEF idIn
  <2>5. idOf(old, z) = z[8] + 256 * z[9] + 65536 * z[10]
    BY <1>3 DEF idOf
  <2> HIDE DEF p, q, r
  <2> QED BY <2>2, <2>3, <2>4, <2>5
<1> QED BY <1>1, <1>2, <1>3

\* The check bytes belong to one sum, and one sum to the check bytes.
LEMMA PassesOnce ==
  ASSUME NEW id \in Nat, NEW x \in CrcValue, NEW y \in CrcValue,
         NEW c1 \in Byte, NEW c2 \in Byte, NEW d1 \in Byte, NEW d2 \in Byte,
         Passes(id, x, c1, c2), Passes(id, y, d1, d2)
  PROVE  (x = y) <=> (c1 = d1 /\ c2 = d2)
<1>1. PICK e \in mavlink_get_msg_entry(id) :
         /\ c1 = crc_accumulate(x, e.crc_extra) % 256
         /\ c2 = crc_accumulate(x, e.crc_extra) \div 256
  BY DEF Passes
<1>2. PICK f \in mavlink_get_msg_entry(id) :
         /\ d1 = crc_accumulate(y, f.crc_extra) % 256
         /\ d2 = crc_accumulate(y, f.crc_extra) \div 256
  BY DEF Passes
<1>3. e = f /\ e.crc_extra \in Byte
  BY Listed
<1> DEFINE k == e.crc_extra
           p == crc_accumulate(x, k)
           q == crc_accumulate(y, k)
<1>4. p \in CrcValue /\ q \in CrcValue
  BY <1>3, CrcType
<1>5. c1 = p % 256 /\ c2 = p \div 256 /\ d1 = q % 256 /\ d2 = q \div 256
  BY <1>1, <1>2, <1>3
<1>6. p = q => x = y
  BY <1>3, CrcTellsSums
<1>7. x = y => p = q
  OBVIOUS
<1> HIDE DEF p, q
<1>8. c1 = d1 /\ c2 = d2 => p = q
  BY <1>4, <1>5, OfTwoBytes
<1> QED BY <1>5, <1>6, <1>7, <1>8

\* A wrong byte outside of the message id: the frame does not pass.
LEMMA DamageShows ==
  ASSUME NEW old, NEW w, NEW h, NEW b, NEW c1, NEW c2, NEW t,
         Divided(w, old, h, b, c1, c2, t),
         NEW z, NEW g, NEW a, NEW d1, NEW d2, NEW r, Divided(z, old, g, a, d1, d2, r),
         Len(a) = Len(b), Len(r) = Len(t),
         NEW i \in 2 .. Len(w) - Len(t), i \notin idBytes(old), DiffersAt(i, z, w),
         Passes(idIn(old, h), crc_calculate(h \o b), c1, c2)
  PROVE  ~Passes(idIn(old, g), crc_calculate(g \o a), d1, d2)
<1> SUFFICES ASSUME Passes(idIn(old, g), crc_calculate(g \o a), d1, d2) PROVE FALSE
  OBVIOUS
<1>1. z[i] # w[i] /\ \A k \in 1 .. Len(w) : k # i => z[k] = w[k]
  BY DEF DiffersAt
<1> DEFINE H == Len(h)
           B == Len(b)
           T == Len(t)
           s == h \o b
           u == g \o a
           n == H + B
           id == idIn(old, h)
<1>d. Divided(w, old, h, b, c1, c2, t) /\ Divided(z, old, g, a, d1, d2, r)
  OBVIOUS
<1>2. /\ H \in {5, 9} /\ H = (IF old THEN 5 ELSE 9) /\ B \in Nat /\ T \in Nat
      /\ Len(w) = n + T + 3 /\ c1 \in Byte /\ c2 \in Byte /\ old \in BOOLEAN
      /\ w[n + 2] = c1 /\ w[n + 3] = c2
  <2>1. /\ H = (IF old THEN 5 ELSE 9) /\ B \in Nat /\ T \in Nat
        /\ Len(w) = H + B + T + 3 /\ c1 \in Byte /\ c2 \in Byte /\ old \in BOOLEAN
        /\ w[H + B + 2] = c1 /\ w[H + B + 3] = c2
    BY ONLY <1>d, DividedIs
  <2> QED BY ONLY <2>1
<1>3. /\ Len(g) = H /\ d1 \in Byte /\ d2 \in Byte
      /\ z[n + 2] = d1 /\ z[n + 3] = d2
  <2>1. /\ Len(g) = (IF old THEN 5 ELSE 9) /\ d1 \in Byte /\ d2 \in Byte
        /\ z[Len(g) + Len(a) + 2] = d1 /\ z[Len(g) + Len(a) + 3] = d2
    BY ONLY <1>d, DividedIs
  <2>2. Len(a) = B
    OBVIOUS
  <2> QED BY ONLY <1>2, <2>1, <2>2
<1>4. s \in Seq(Byte) /\ Len(s) = n /\ \A k \in 1 .. n : s[k] = w[1 + k]
  <2>1. Content(w, s, n)
    BY DividedContent
  <2> HIDE DEF s, n
  <2> QED BY <2>1 DEF Content
<1>5. u \in Seq(Byte) /\ Len(u) = n /\ \A k \in 1 .. n : u[k] = z[1 + k]
  <2>1. Content(z, u, Len(g) + Len(a))
    BY DividedContent
  <2>2. Content(z, u, n)
    BY <1>3, <2>1
  <2> HIDE DEF u, n
  <2> QED BY <2>2 DEF Content
<1>6. n \in Nat /\ i \in 2 .. n + 3 /\ Len(w) >= n + 3
  <2>1. n + T + 3 - T = n + 3
    BY <1>2
  <2> QED BY <1>2, <2>1
<1>7. idIn(old, g) = id /\ id \in Nat
  <2>1. idIn(old, g) = idOf(old, z) /\ id = idOf(old, w) /\ id \in Nat
    BY DividedId
  <2>2. \A k \in idBytes(old) : k \in 1 .. Len(w) /\ k # i
    BY <1>2, <1>6 DEF idBytes
  <2>3. \A k \in idBytes(old) : z[k] = w[k]
    BY <1>1, <2>2
  <2>4. idOf(old, z) = idOf(old, w)
    <3>0. old \in BOOLEAN
      BY <1>2
    <3>1. CASE old
      <4>1. 6 \in idBytes(old)
        BY <3>1 DEF idBytes
      <4>2. z[6] = w[6]
        BY <2>3, <4>1
      <4>3. idOf(old, z) = z[6] /\ idOf(old, w) = w[6]
        BY ONLY <3>1 DEF idOf
      <4> QED BY ONLY <4>2, <4>3
    <3>2. CASE ~old
      <4>1. 8 \in idBytes(old) /\ 9 \in idBytes(old) /\ 10 \in idBytes(old)
        BY <3>2 DEF idBytes
      <4> QED BY <2>3, <3>2, <4>1 DEF idOf
    <3> QED BY ONLY <3>0, <3>1, <3>2
  <2> HIDE DEF id
  <2> QED BY <2>1, <2>4
<1> HIDE DEF s, u, id, n
<1>8. crc_calculate(s) \in CrcValue /\ crc_calculate(u) \in CrcValue
  BY <1>4, <1>5, CrcCalculateType
<1>9. Passes(id, crc_calculate(s), c1, c2) /\ Passes(id, crc_calculate(u), d1, d2)
  BY <1>7 DEF s, u, id
<1>10. (crc_calculate(s) = crc_calculate(u)) <=> (c1 = d1 /\ c2 = d2)
  BY <1>2, <1>3, <1>7, <1>8, <1>9, PassesOnce
<1>11. CASE i >= n + 2
  <2>1. c1 # d1 \/ c2 # d2
    <3>1. i = n + 2 \/ i = n + 3
      BY <1>6, <1>11
    <3> QED BY <1>1, <1>2, <1>3, <3>1
  <2>2. ASSUME NEW k \in 1 .. n PROVE s[k] = u[k]
    <3>1. 1 + k \in 1 .. Len(w) /\ 1 + k # i
      BY <1>2, <1>6, <1>11
    <3>2. z[1 + k] = w[1 + k]
      BY <1>1, <3>1
    <3> QED BY <1>4, <1>5, <3>2
  <2>3. s = u
    BY <1>4, <1>5, <1>6, <2>2, SeqEqual
  <2> QED BY <1>10, <2>1, <2>3
<1>12. CASE ~(i >= n + 2)
  <2> DEFINE j == i - 1
  <2>1. j \in 1 .. n /\ 1 + j = i
    BY <1>6, <1>12
  <2> HIDE DEF j
  <2>2. u[j] # s[j]
    <3>1. u[j] = z[1 + j] /\ s[j] = w[1 + j]
      BY <1>4, <1>5, <2>1
    <3> QED BY <1>1, <2>1, <3>1
  <2>3. ASSUME NEW k \in 1 .. n, k # j PROVE u[k] = s[k]
    <3>1. 1 + k \in 1 .. Len(w) /\ 1 + k # i
      BY <1>2, <1>6, <2>1, <2>3
    <3>2. z[1 + k] = w[1 + k]
      BY <1>1, <3>1
    <3> QED BY <1>4, <1>5, <3>2
  <2>4. crc_calculate(u) # crc_calculate(s)
    <3>1. Len(u) = Len(s) /\ j \in 1 .. Len(s) /\ \A k \in 1 .. Len(s) : k # j => u[k] = s[k]
      BY <1>4, <1>5, <2>1, <2>3
    <3>2. s \in Seq(Byte) /\ u \in Seq(Byte)
      BY <1>4, <1>5
    <3> QED BY <2>2, <3>1, <3>2, CrcSeesOneByte
  <2>5. c1 = d1 /\ c2 = d2
    <3>1. n + 2 \in 1 .. Len(w) /\ n + 3 \in 1 .. Len(w) /\ i # n + 2 /\ i # n + 3
      BY <1>2, <1>6, <1>12
    <3>2. z[n + 2] = w[n + 2] /\ z[n + 3] = w[n + 3]
      BY <1>1, <3>1
    <3> QED BY <1>2, <1>3, <3>2
  <2> QED BY <1>10, <2>4, <2>5
<1> QED BY <1>11, <1>12

\* A wrong message id: the frame does not pass either, if the table is such.
LEMMA DamagedIdShows ==
  ASSUME DamagedIdsShow, NEW m \in Messages, NEW n \in Byte, NEW old,
         old <=> m.form = "v1", NEW i \in idBytes(old), NEW flip \in Flips,
         NEW z, z = flipped(serialize(m, n), i, flip),
         NEW g, NEW a, NEW d1, NEW d2, NEW r, Divided(z, old, g, a, d1, d2, r),
         Len(r) = unread(m)
  PROVE  ~Passes(idIn(old, g), crc_calculate(g \o a), d1, d2)
<1> SUFFICES ASSUME Passes(idIn(old, g), crc_calculate(g \o a), d1, d2) PROVE FALSE
  OBVIOUS
<1> DEFINE B == Len(g) + Len(a)
           T == Len(r)
           u == g \o a
           id == idIn(old, g)
           E == Len(z) - unread(m)
           v == SubSeq(z, 2, E - 2)
<1>1. u \in Seq(Byte) /\ Len(u) = B /\ \A k \in 1 .. B : u[k] = z[1 + k]
  <2>1. Content(z, u, B)
    BY DividedContent
  <2> HIDE DEF u, B
  <2> QED BY <2>1 DEF Content
<1>2. id = idOf(old, z) /\ id \in Nat
  BY DividedId
<1>3. /\ B \in Nat /\ T \in Nat /\ Len(z) = B + T + 3 /\ z \in Seq(Byte)
      /\ d1 \in Byte /\ d2 \in Byte /\ z[B + 2] = d1 /\ z[B + 3] = d2
  <2>1. /\ Len(g) \in Nat /\ Len(a) \in Nat /\ T \in Nat
        /\ Len(z) = Len(g) + Len(a) + T + 3 /\ z \in Seq(Byte) /\ d1 \in Byte /\ d2 \in Byte
        /\ z[Len(g) + Len(a) + 2] = d1 /\ z[Len(g) + Len(a) + 3] = d2
    <3>1. Divided(z, old, g, a, d1, d2, r)
      OBVIOUS
    <3> QED BY ONLY <3>1, DividedIs
  <2> QED BY <2>1
<1>4. E = B + 3
  <2>1. E = Len(z) - T
    OBVIOUS
  <2> HIDE DEF E, B, T
  <2> QED BY <1>3, <2>1
<1>5. v = u
  <2> HIDE DEF u, B, E
  <2>1. v \in Seq(Byte) /\ Len(v) = B /\ \A k \in 1 .. B : v[k] = z[1 + k]
    <3> DEFINE N == Len(z)
               l == E - 2
    <3>1. N \in Nat /\ 2 \in 1 .. N + 1 /\ l \in 1 .. N /\ l - 2 + 1 = B
      BY <1>3, <1>4
    <3> HIDE DEF N, l
    <3>2. ASSUME NEW k \in 1 .. B PROVE 2 + k - 1 = 1 + k /\ 1 + k \in 1 .. N
      BY <1>3, <1>4 DEF N
    <3>3. v = SubSeq(z, 2, l)
      BY DEF l
    <3> HIDE DEF v
    <3>4. /\ v \in Seq(Byte) /\ Len(v) = B
          /\ \A k \in 1 .. B : v[k] = z[2 + k - 1]
      BY <1>3, <3>1, <3>2, <3>3 DEF N
    <3> QED BY ONLY <3>2, <3>4
  <2> HIDE DEF v
  <2> QED BY <1>1, <1>3, <2>1, SeqEqual, SMTT(30)
<1>6. PICK y \in mavlink_get_msg_entry(id) :
         /\ d1 = crc_accumulate(crc_calculate(u), y.crc_extra) % 256
         /\ d2 = crc_accumulate(crc_calculate(u), y.crc_extra) \div 256
  BY DEF Passes
<1>7. /\ bisected(id) + 1 \in DOMAIN Entries /\ y = Entries[bisected(id) + 1]
      /\ y.msgid = id /\ y.crc_extra \in Byte
  <2>1. y = Entries[bisected(id) + 1]
    BY DEF mavlink_get_msg_entry
  <2>2. bisected(id) + 1 \in DOMAIN Entries
    BY <1>2, BisectionFinds, TableIsSorted
  <2> HIDE DEF id
  <2> QED BY <1>2, <2>1, <2>2, Listed
<1> DEFINE k == bisected(id) + 1
           x == crc_accumulate(crc_calculate(u), y.crc_extra)
<1>8. x \in CrcValue
  BY <1>1, <1>7, CrcCalculateType, CrcType
<1>9. x = z[E - 1] + 256 * z[E]
  <2> HIDE DEF x, E, B
  <2>1. E - 1 = B + 2
    BY <1>3, <1>4
  <2>2. x = 256 * d2 + d1
    BY <1>6, <1>8, OfTwoBytes DEF x
  <2>3. d1 \in Nat /\ d2 \in Nat
    BY <1>3, BytesAreNat
  <2>4. z[E - 1] = d1 /\ z[E] = d2
    BY ONLY <1>3, <1>4, <2>1
  <2> QED BY ONLY <2>2, <2>3, <2>4
<1>10. /\ k \in DOMAIN Entries /\ Entries[k].crc_extra = y.crc_extra
       /\ Entries[k].msgid = IF m.form = "v1" THEN z[6]
                             ELSE z[8] + 256 * z[9] + 65536 * z[10]
  <2>1. Entries[k].msgid = idOf(old, z)
    BY <1>2, <1>7
  <2> HIDE DEF id
  <2> QED BY <1>7, <2>1 DEF idOf
<1>11. crc_accumulate(crc_calculate(v), Entries[k].crc_extra) # z[E - 1] + 256 * z[E]
  <2>1. failsEveryEntry(m, z)
    <3>1. i \in IF m.form = "v1" THEN {6} ELSE 8 .. 10
      BY DEF idBytes
    <3>2. failsEveryEntry(m, flipped(serialize(m, n), i, flip))
      BY <3>1 DEF DamagedIdsShow, flipped
    <3>3. z = flipped(serialize(m, n), i, flip)
      OBVIOUS
    <3> QED BY ONLY <3>2, <3>3
  <2> HIDE DEF k
  <2> QED BY ONLY <1>10, <2>1 DEF failsEveryEntry, E, v
<1> HIDE DEF k, u, v, E
<1> QED BY <1>5, <1>9, <1>10, <1>11

\* How often a frame of this form is counted if it is wrong.
errorsOf(m) == IF m.form = "signed" THEN 2 ELSE 1

\* A damaged frame is read as one frame: it is a message, or is counted.
LEMMA DamagedRead ==
  ASSUME NEW d \in Decoders, d.st.parse_state = "IDLE",
         NEW m \in Messages, NEW n \in Byte,
         NEW i \in Covered(m, serialize(m, n)), NEW flip \in Flips,
         NEW z, z = flipped(serialize(m, n), i, flip),
         NEW e, e = fedAll(d, z)
  PROVE  /\ e \in Decoders
         /\ \/ Len(e.out) = Len(d.out) + 1 /\ e.crc_errors = d.crc_errors
            \/ e.out = d.out /\ e.crc_errors = d.crc_errors + errorsOf(m)
         /\ DamagedIdsShow => e.out = d.out /\ e.crc_errors = d.crc_errors + errorsOf(m)
<1> DEFINE w == serialize(m, n)
<1>1. PICK old, h, b, c1, c2, t : Parts(m, n, old, h, b, c1, c2, t)
  BY Serialized
<1>2. /\ Heads(old, h, b, t) /\ c1 \in Byte /\ c2 \in Byte /\ (old <=> m.form = "v1")
      /\ Len(t) = unread(m) /\ w = Frame(startByte(old), h, b, c1, c2, t)
      /\ Passes(idIn(old, h), crc_calculate(h \o b), c1, c2)
  BY <1>1 DEF Parts, unread
<1>3. /\ Begins(z) /\ Len(z) = frameLength(z) /\ DiffersAt(i, z, w) /\ i \in 1 .. Len(w)
      /\ Len(z) = Len(w) /\ z[1] = w[1] /\ z[2] = w[2]
  <2>1. /\ m \in Messages /\ n \in Byte /\ i \in Covered(m, serialize(m, n))
        /\ flip \in Flips /\ z = flipped(serialize(m, n), i, flip)
    OBVIOUS
  <2> QED BY ONLY <2>1, DamagedLength
<1>4. i \in 1 .. Len(w) /\ i # 1 /\ i =< Len(w) - unread(m) /\ Len(w) \in Nat
      /\ unread(m) \in {0, 13}
  <2>1. Len(w) \in Nat
    BY SerializedBegins
  <2> QED BY <2>1, CoveredIs
<1>5. z = flipped(serialize(m, n), i, flip)
  OBVIOUS
<1> HIDE DEF w
<1>6. Divided(w, old, h, b, c1, c2, t)
  BY <1>2, FrameIs DEF Divided
<1>7. PICK ancient, g, a, d1, d2, r :
         /\ Divided(z, ancient, g, a, d1, d2, r)
         /\ (ancient <=> z[1] = MAVLINK_STX_MAVLINK1)
  BY ONLY <1>3, Divides
<1>8. /\ old \in BOOLEAN /\ w[1] = startByte(old) /\ w[2] = Len(b) /\ Len(b) \in Nat
      /\ Len(h) = (IF old THEN 5 ELSE 9)
      /\ Len(t) \in Nat /\ Len(w) = Len(h) + Len(b) + Len(t) + 3
  BY ONLY <1>6, DividedIs
<1>9. /\ ancient \in BOOLEAN /\ z[2] = Len(a) /\ Len(a) \in Nat
      /\ Len(g) = (IF ancient THEN 5 ELSE 9)
      /\ Len(r) \in Nat /\ Len(z) = Len(g) + Len(a) + Len(r) + 3
  BY ONLY <1>7, DividedIs
<1>10. ancient = old
  BY <1>3, <1>7, <1>8, <1>9 DEF startByte, MAVLINK_STX, MAVLINK_STX_MAVLINK1
<1>11. Len(a) = Len(b) /\ Len(r) = Len(t)
  BY <1>3, <1>8, <1>9, <1>10
<1>12. Divided(z, old, g, a, d1, d2, r) /\ Len(r) = unread(m)
  BY <1>2, <1>7, <1>10, <1>11
<1>13. Heads(old, g, a, r) /\ d1 \in Byte /\ d2 \in Byte
  BY <1>12 DEF Divided
<1>14. errorsIn(r) = errorsOf(m)
  <2>1. r \in Seq(Byte)
    BY <1>13 DEF Heads
  <2>2. r = <<>> <=> Len(r) = 0
    BY <2>1
  <2> QED BY <1>12, <2>2 DEF errorsIn, errorsOf, unread, SIGNATURE_BLOCK_LEN
<1> DEFINE passed == Passes(idIn(old, g), crc_calculate(g \o a), d1, d2)
           v == Message(idIn(old, g), sysidIn(old, g), a)
<1>15. /\ e \in Decoders
       /\ passed => e.out = Append(d.out, v) /\ e.crc_errors = d.crc_errors
       /\ ~passed => e.out = d.out /\ e.crc_errors = d.crc_errors + errorsIn(r)
  <2>1. e = fedAll(d, Frame(startByte(old), g, a, d1, d2, r))
    BY <1>12, Rebuilt
  <2>2. d \in Decoders /\ d.st.parse_state = "IDLE"
    OBVIOUS
  <2> QED BY ONLY <1>13, <2>1, <2>2, FrameRead
<1>16. DamagedIdsShow => ~passed
  <2> SUFFICES ASSUME DamagedIdsShow PROVE ~passed
    OBVIOUS
  <2>1. CASE i \in idBytes(old)
    BY <1>2, <1>5, <1>12, <2>1, DamagedIdShows
  <2>2. CASE i \notin idBytes(old)
    <3>1. i \in 2 .. Len(w) - Len(t)
      BY <1>2, <1>4
    <3> QED BY <1>2, <1>3, <1>6, <1>11, <1>12, <2>2, <3>1, DamageShows
  <2> QED BY <2>1, <2>2
<1> HIDE DEF passed, v
<1>17. Len(Append(d.out, v)) = Len(d.out) + 1
  <2>1. d.out \in Seq(Decoded)
    BY DecoderFields DEF Decoders
  <2> QED BY <2>1
<1> QED BY ONLY <1>14, <1>15, <1>16, <1>17
-----------------------------------------------------------------------------
(***************************************************************************)
(* As long as the frames have their length, the decoder stays in step and  *)
(* reads each as one: nothing is lost and nothing is put together from two.*)
(***************************************************************************)
Counted ==
    misframed = 0 =>
        /\ missing = 0
        /\ frames =< Len(future.out) + future.crc_errors
        /\ Len(future.out) + future.crc_errors =< frames + doubled
        /\ DamagedIdsShow \/ damaged = 0 =>
              future.out = sent /\ future.crc_errors = damaged + doubled

LEMMA InitCounted == Init => Counted
<1> SUFFICES ASSUME Init PROVE Counted
  OBVIOUS
<1>1. /\ wire = <<>> /\ stats.crc_errors = 0 /\ decoded = <<>>
      /\ sent = <<>> /\ frames = 0 /\ damaged = 0 /\ doubled = 0 /\ missing = 0
  BY DEF Init
<1>2. future = parser
  BY <1>1, FedNothing DEF future
<1>3. parser.out = <<>> /\ parser.crc_errors = 0
  BY <1>1 DEF parser
<1>4. Len(<<>>) = 0
  OBVIOUS
<1> QED BY <1>1, <1>2, <1>3, <1>4 DEF Counted

LEMMA PutFuture ==
  ASSUME CodecTypes, NEW bytes \in Seq(Byte), NEW swallowed, put(bytes, swallowed)
  PROVE  /\ future' = fedAll(future, bytes) /\ frames' = frames + 1
         /\ missing = 0 => missing' = swallowed
<1>1. /\ frames' = frames + 1 /\ wire' = wire \o bytes
      /\ missing' = IF missing # 0 THEN remaining(bytes) ELSE swallowed
      /\ partial' = partial /\ status' = status /\ stats' = stats /\ decoded' = decoded
  BY DEF put, decoder
<1>2. parser' = parser
  BY <1>1 DEF parser
<1>3. wire \in Seq(Byte)
  BY DEF CodecTypes
<1>4. fedAll(parser, wire \o bytes) = fedAll(fedAll(parser, wire), bytes)
  BY <1>3, FedTogether
<1> QED BY <1>1, <1>2, <1>4 DEF future

\* What the next frame finds.
LEMMA Ready ==
  ASSUME Contained, Counted, misframed = 0
  PROVE  /\ missing = 0 /\ future \in Decoders /\ future.st.parse_state = "IDLE"
         /\ future.out \in Seq(Decoded) /\ future.crc_errors \in Nat
         /\ frames \in Nat /\ damaged \in Nat /\ doubled \in Nat /\ seq \in Byte
<1>1. missing = 0 /\ CodecTypes /\ InStep
  BY DEF Contained, Counted
<1>2. /\ future \in Decoders /\ future.out \in Seq(Decoded) /\ future.crc_errors \in Nat
  BY <1>1, FutureIsDecoder
<1>3. future.st.parse_state = "IDLE"
  BY <1>1 DEF InStep, Lacks, Lost
<1> QED BY <1>1, <1>2, <1>3 DEF CodecTypes

LEMMA TransmitCounts ==
  ASSUME Contained, Counted, NEW m \in Messages, Transmit(m)
  PROVE  Counted'
<1> DEFINE bytes == serialize(m, seq)
           v == received(m)
           d == future
           e == fedAll(d, bytes)
<1>1. /\ put(bytes, 0) /\ sent' = Append(sent, v)
      /\ damaged' = damaged /\ doubled' = doubled /\ misframed' = misframed
  BY DEF Transmit, faults
<1> SUFFICES ASSUME misframed = 0
             PROVE  /\ missing' = 0
                    /\ frames' =< Len(future'.out) + future'.crc_errors
                    /\ Len(future'.out) + future'.crc_errors =< frames' + doubled
                    /\ DamagedIdsShow \/ damaged = 0 =>
                          future'.out = sent' /\ future'.crc_errors = damaged + doubled
  BY <1>1 DEF Counted
<1>2. /\ missing = 0 /\ d \in Decoders /\ d.st.parse_state = "IDLE"
      /\ d.out \in Seq(Decoded) /\ d.crc_errors \in Nat
      /\ frames \in Nat /\ damaged \in Nat /\ doubled \in Nat /\ seq \in Byte
  BY Ready
<1>3. bytes \in Seq(Byte)
  BY <1>2, SerializedBegins DEF Begins
<1>4. e.out = Append(d.out, v) /\ e.crc_errors = d.crc_errors
  BY <1>2, WholeFrame
<1>5. future' = e /\ frames' = frames + 1 /\ missing' = 0
  BY <1>1, <1>2, <1>3, PutFuture DEF Contained
<1>6. /\ frames =< Len(d.out) + d.crc_errors
      /\ Len(d.out) + d.crc_errors =< frames + doubled
      /\ DamagedIdsShow \/ damaged = 0 => d.out = sent /\ d.crc_errors = damaged + doubled
  BY DEF Counted
<1> HIDE DEF bytes, v, d, e
<1>7. Len(Append(d.out, v)) = Len(d.out) + 1 /\ Len(d.out) \in Nat
  BY <1>2
<1>8. /\ frames + 1 =< Len(e.out) + e.crc_errors
      /\ Len(e.out) + e.crc_errors =< frames + 1 + doubled
  <2>1. Len(e.out) = Len(d.out) + 1
    BY <1>4, <1>7
  <2> QED BY <1>2, <1>4, <1>6, <1>7, <2>1
<1> QED BY <1>1, <1>4, <1>5, <1>6, <1>8

LEMMA DamageCounts ==
  ASSUME Contained, Counted, NEW m \in Messages, Damage(m, serialize(m, seq))
  PROVE  Counted'
<1>1. PICK i \in Covered(m, serialize(m, seq)), flip \in Flips :
         put(flipped(serialize(m, seq), i, flip), 0)
  BY DEF Damage, Covered, flipped
<1> DEFINE bytes == flipped(serialize(m, seq), i, flip)
           d == future
           e == fedAll(d, bytes)
           more == errorsOf(m)
<1>2. /\ put(bytes, 0) /\ damaged' = damaged + 1 /\ misframed' = misframed
      /\ sent' = sent /\ doubled' = IF m.form = "signed" THEN doubled + 1 ELSE doubled
  BY <1>1 DEF Damage
<1> SUFFICES ASSUME misframed = 0
             PROVE  /\ missing' = 0
                    /\ frames' =< Len(future'.out) + future'.crc_errors
                    /\ Len(future'.out) + future'.crc_errors =< frames' + doubled'
                    /\ DamagedIdsShow \/ damaged' = 0 =>
                          future'.out = sent /\ future'.crc_errors = damaged' + doubled'
  BY <1>2 DEF Counted
<1>3. /\ missing = 0 /\ d \in Decoders /\ d.st.parse_state = "IDLE"
      /\ d.out \in Seq(Decoded) /\ d.crc_errors \in Nat
      /\ frames \in Nat /\ damaged \in Nat /\ doubled \in Nat /\ seq \in Byte
  BY Ready
<1>4. bytes \in Seq(Byte)
  BY <1>3, DamagedLength DEF Begins
<1>5. /\ \/ Len(e.out) = Len(d.out) + 1 /\ e.crc_errors = d.crc_errors
         \/ e.out = d.out /\ e.crc_errors = d.crc_errors + more
      /\ DamagedIdsShow => e.out = d.out /\ e.crc_errors = d.crc_errors + more
  BY <1>3, DamagedRead
<1>6. /\ frames =< Len(d.out) + d.crc_errors
      /\ Len(d.out) + d.crc_errors =< frames + doubled
      /\ DamagedIdsShow \/ damaged = 0 => d.out = sent /\ d.crc_errors = damaged + doubled
  BY DEF Counted
<1>7. more \in {1, 2} /\ doubled' = doubled + (more - 1) /\ doubled' \in Nat
  <2>1. CASE m.form = "signed"
    BY <1>2, <1>3, <2>1 DEF errorsOf
  <2>2. CASE m.form # "signed"
    BY <1>2, <1>3, <2>2 DEF errorsOf
  <2> QED BY <2>1, <2>2
<1> HIDE DEF bytes, d, e, more
<1>8. future' = e /\ frames' = frames + 1 /\ missing' = 0
  BY <1>2, <1>3, <1>4, PutFuture DEF Contained, d, e
<1> DEFINE D == Len(d.out)
           c == d.crc_errors
<1>9. D \in Nat /\ c \in Nat
  BY <1>3
<1>10. /\ frames + 1 =< Len(e.out) + e.crc_errors
       /\ Len(e.out) + e.crc_errors =< frames + 1 + doubled'
  <2>1. CASE Len(e.out) = D + 1 /\ e.crc_errors = c
    <3> HIDE DEF D, c
    <3>1. frames + 1 =< (D + 1) + c /\ (D + 1) + c =< frames + 1 + doubled'
      <4>1. frames =< D + c /\ D + c =< frames + doubled
        BY <1>6 DEF D, c
      <4> QED BY ONLY <1>3, <1>7, <1>9, <4>1
    <3> QED BY ONLY <2>1, <3>1
  <2>2. CASE Len(e.out) = D /\ e.crc_errors = c + more
    <3> HIDE DEF D, c
    <3>1. frames + 1 =< D + (c + more) /\ D + (c + more) =< frames + 1 + doubled'
      <4>1. frames =< D + c /\ D + c =< frames + doubled
        BY <1>6 DEF D, c
      <4> QED BY ONLY <1>3, <1>7, <1>9, <4>1
    <3> QED BY ONLY <2>2, <3>1
  <2> QED BY <1>5, <2>1, <2>2
<1>11. damaged' # 0
  BY <1>2, <1>3
<1>12. DamagedIdsShow => e.out = sent /\ e.crc_errors = damaged' + doubled'
  <2> SUFFICES ASSUME DamagedIdsShow
               PROVE  e.out = sent /\ e.crc_errors = damaged' + doubled'
    OBVIOUS
  <2>1. e.out = sent /\ e.crc_errors = (damaged + doubled) + more
    BY <1>5, <1>6
  <2>2. (damaged + doubled) + more = (damaged + 1) + (doubled + (more - 1))
    BY ONLY <1>3, <1>7
  <2> QED BY ONLY <1>2, <1>7, <2>1, <2>2
<1> QED BY <1>8, <1>10, <1>11, <1>12

LEMMA NextCounted ==
  ASSUME Contained, Counted, [Next]_vars
  PROVE  Counted'
<1>1. ASSUME NEW m \in Messages, Transmit(m) PROVE Counted'
  BY <1>1, TransmitCounts
<1>2. ASSUME NEW m \in Messages, Fault(m) PROVE Counted'
  <2>1. misframed \in Nat
    BY DEF Contained, CodecTypes
  <2>2. CASE Damage(m, serialize(m, seq))
    BY <2>2, DamageCounts
  <2>3. CASE misframed' = misframed + 1
    <3>1. misframed' # 0
      BY <2>1, <2>3
    <3> QED BY <3>1 DEF Counted
  <2> QED BY <1>2, <2>2, <2>3 DEF Fault, Unknown, Cut
<1>3. ASSUME NEW size \in Sizes, Parse(size) PROVE Counted'
  <2>1. /\ future' = future /\ missing' = missing /\ sent' = sent /\ frames' = frames
        /\ damaged' = damaged /\ doubled' = doubled /\ misframed' = misframed
    BY <1>3, ParseKeeps DEF Contained, Parse, faults
  <2> QED BY <2>1 DEF Counted
<1>4. CASE UNCHANGED vars
  BY <1>4 DEF vars, decoder, faults, Counted, future, parser
<1> QED BY <1>1, <1>2, <1>3, <1>4 DEF Next

CodecInvariant == Contained /\ Counted

LEMMA CodecInductive == Spec => []CodecInvariant
<1>1. Init => CodecInvariant
  BY InitContained, InitCounted DEF CodecInvariant
<1>2. CodecInvariant /\ [Next]_vars => CodecInvariant'
  BY NextContained, NextCounted DEF CodecInvariant
<1> QED BY <1>1, <1>2, PTL DEF Spec
-----------------------------------------------------------------------------
(***************************************************************************)
(* What holds of the link.                                                 *)
(***************************************************************************)
LEMMA AllParsed ==
  ASSUME CodecInvariant, wire = <<>>
  PROVE  future = parser /\ future.out = decoded /\ future.crc_errors = stats.crc_errors
<1>1. future = parser
  BY FedNothing DEF future
<1> QED BY <1>1 DEF parser

\* The bisection of the sorted table finds the entry of every message that has one,
\* and none for any other, however many entries the table has
\* (mavlink_get_msg_entry).
THEOREM EntryIsFound ==
  ASSUME NEW msgid \in Nat
  PROVE  mavlink_get_msg_entry(msgid) = {e \in {Entries[i] : i \in DOMAIN Entries} :
                                            e.msgid = msgid}
<1> DEFINE found == mavlink_get_msg_entry(msgid)
<1>1. ASSUME NEW e \in found
      PROVE  e.msgid = msgid /\ \E i \in DOMAIN Entries : e = Entries[i]
  <2>1. e = Entries[bisected(msgid) + 1] /\ e.msgid = msgid
    BY DEF mavlink_get_msg_entry
  <2>2. bisected(msgid) + 1 \in DOMAIN Entries
    BY BisectionFinds, TableIsSorted
  <2> QED BY <2>1, <2>2
<1>2. ASSUME NEW i \in DOMAIN Entries, Entries[i].msgid = msgid PROVE Entries[i] \in found
  <2>1. found = {Entries[i]}
    BY <1>2, Lookup
  <2> QED BY <2>1
<1> HIDE DEF found
<1>3. found = {e \in {Entries[i] : i \in DOMAIN Entries} : e.msgid = msgid}
  BY <1>1, <1>2
<1> QED BY <1>3 DEF found

\* Two frames of the same length that differ in one byte have different checksums:
\* a single wrong byte is seen, whatever else the frame holds (crc_accumulate).
THEOREM OneWrongByteIsSeen ==
  ASSUME NEW s \in Seq(Byte), NEW u \in Seq(Byte), Len(u) = Len(s),
         NEW i \in 1 .. Len(s), u[i] # s[i],
         \A k \in 1 .. Len(s) : k # i => u[k] = s[k]
  PROVE  crc_calculate(u) # crc_calculate(s)
  BY CrcSeesOneByte

\* Where the bytes are cut into datagrams makes no difference: what a decoder has
\* put out, and the state it is left in, depend on the bytes alone
\* (Decoder::parse, which keeps partial_ and status_ between its calls).
THEOREM DatagramsDoNotMatter ==
  ASSUME NEW d, NEW a \in Seq(Byte), NEW b \in Seq(Byte)
  PROVE  fedAll(d, a \o b) = fedAll(fedAll(d, a), b)
  BY FedTogether

\* While a payload is read, the next byte belongs to it, whatever came before: the
\* length in the header is one byte, so that the index never leaves the buffer
\* (MAVLINK_PARSE_STATE_GOT_MSGID3).
THEOREM PayloadStaysInBuffer ==
  Spec => [](/\ partial.len =< 255
             /\ status.parse_state = "GOT_MSGID3" => status.packet_idx < partial.len)
<1>1. CodecInvariant => /\ partial.len =< 255
                        /\ status.parse_state = "GOT_MSGID3" =>
                             status.packet_idx < partial.len
  <2> SUFFICES ASSUME CodecInvariant
               PROVE  /\ partial.len =< 255
                      /\ status.parse_state = "GOT_MSGID3" =>
                           status.packet_idx < partial.len
    OBVIOUS
  <2>1. parser \in Decoders /\ parser.rx = partial /\ parser.st = status
    BY DEF CodecInvariant, Contained, CodecTypes, parser
  <2>2. partial.len \in Byte
    BY <2>1, DecoderFields DEF Decoders
  <2>3. partial.len =< 255
    BY ONLY <2>2 DEF Byte
  <2>4. parser.st.parse_state = "GOT_MSGID3" => parser.st.packet_idx < parser.rx.len
    BY ONLY <2>1 DEF Decoders
  <2> QED BY ONLY <2>1, <2>3, <2>4
<1> QED BY <1>1, CodecInductive, PTL

\* What a frame that was cut short swallows is no more than it lacked, and a frame
\* that is given up costs no other: whatever is owed comes out, for all messages and
\* tables, sequence numbers and datagrams, and any number of faults
\* (mavlink_frame_char_buffer, mavlink_parse_char).
THEOREM FaultsAreContained == Spec => []DamageIsContained
<1>1. CodecInvariant => DamageIsContained
  <2> SUFFICES ASSUME CodecInvariant, wire = <<>> PROVE isSubsequence(owed, decoded)
    BY DEF DamageIsContained
  <2> QED BY AllParsed DEF CodecInvariant, Contained, Owing
<1> QED BY <1>1, CodecInductive, PTL

\* As long as the frames have their length, none goes uncounted, whatever the table:
\* each is a message or an error, and only a damaged one with a signature may be two
\* errors, for the check bytes and once more behind the signature (Stats::messages,
\* Stats::crc_errors).
THEOREM NoFrameGoesUncounted ==
  Spec => [](misframed = 0 /\ wire = <<>> =>
                 /\ frames =< stats.messages + stats.crc_errors
                 /\ stats.messages + stats.crc_errors =< frames + doubled)
<1>1. CodecInvariant =>
        (misframed = 0 /\ wire = <<>> =>
            /\ frames =< stats.messages + stats.crc_errors
            /\ stats.messages + stats.crc_errors =< frames + doubled)
  <2> SUFFICES ASSUME CodecInvariant, misframed = 0, wire = <<>>
               PROVE  /\ frames =< stats.messages + stats.crc_errors
                      /\ stats.messages + stats.crc_errors =< frames + doubled
    OBVIOUS
  <2>1. future.out = decoded /\ future.crc_errors = stats.crc_errors
    BY AllParsed
  <2> QED BY <2>1 DEF CodecInvariant, Contained, CodecTypes, Counted
<1> QED BY <1>1, CodecInductive, PTL

\* And the wrong ones are the errors, those with a signature two each, if the table is
\* one on which a wrong message id shows: any other wrong byte is always seen
\* (MAVLINK_PARSE_STATE_GOT_CRC1, MAVLINK_PARSE_STATE_SIGNATURE_WAIT).
THEOREM FramesAreCounted == DamagedIdsShow => (Spec => []EveryFrameIsCounted)
<1> SUFFICES ASSUME DamagedIdsShow PROVE Spec => []EveryFrameIsCounted
  OBVIOUS
<1>1. CodecInvariant => EveryFrameIsCounted
  <2> SUFFICES ASSUME CodecInvariant, misframed = 0, wire = <<>>
               PROVE  stats.messages = Len(sent) /\ stats.crc_errors = damaged + doubled
    BY DEF EveryFrameIsCounted
  <2>1. future.out = decoded /\ future.crc_errors = stats.crc_errors
    BY AllParsed
  <2> QED BY <2>1 DEF CodecInvariant, Contained, CodecTypes, Counted
<1> QED BY <1>1, CodecInductive, PTL

LEMMA DecodedIsBeginning ==
  ASSUME CodecInvariant, misframed = 0, damaged = 0 \/ DamagedIdsShow
  PROVE  OnlyWhatWasSentComesOut
<1>1. parser \in Decoders /\ wire \in Seq(Byte) /\ parser.out = decoded
  BY DEF CodecInvariant, Contained, CodecTypes, parser
<1>2. future \in Decoders /\ Extends(future, parser)
  BY <1>1, FedAllIsDecoder DEF future
<1>3. future.out = sent
  BY DEF CodecInvariant, Counted
<1>4. decoded \in Seq(Decoded) /\ sent \in Seq(Decoded)
  BY <1>1, <1>2, <1>3, DecoderFields DEF Decoders
<1>5. Len(decoded) =< Len(sent) /\ \A i \in 1 .. Len(decoded) : sent[i] = decoded[i]
  BY <1>1, <1>2, <1>3 DEF Extends
<1>6. isSubsequence(decoded, decoded)
  <2> DEFINE at == [i \in DOMAIN decoded |-> i]
  <2>1. at \in [DOMAIN decoded -> DOMAIN decoded] /\ \A i \in DOMAIN decoded : at[i] = i
    OBVIOUS
  <2> HIDE DEF at
  <2> QED BY <2>1 DEF isSubsequence
<1>7. isSubsequence(decoded, sent)
  BY <1>4, <1>5, <1>6, SubseqExtends
<1> QED BY <1>7 DEF OnlyWhatWasSentComesOut

\* As long as the frames have their length and no byte is wrong, or a wrong message id
\* shows, what comes out is what was sent, in order: no frame is put together from
\* two, and none comes out changed.
THEOREM OnlyWhatWasSentIsRead ==
  Spec => [](misframed = 0 /\ (damaged = 0 \/ DamagedIdsShow) => OnlyWhatWasSentComesOut)
<1>1. CodecInvariant =>
        (misframed = 0 /\ (damaged = 0 \/ DamagedIdsShow) => OnlyWhatWasSentComesOut)
  BY DecodedIsBeginning
<1> QED BY <1>1, CodecInductive, PTL

=============================================================================
