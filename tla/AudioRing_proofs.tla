--------------------------- MODULE AudioRing_proofs ---------------------------
(***************************************************************************)
(* Proofs about AudioRing for every ring size, chunk size, cursor width    *)
(* and set of submits: type correctness, freedom from data races, and the  *)
(* refinement of AudioFifo.                                                *)
(***************************************************************************)
EXTENDS AudioRing, SequenceTheorems, TLAPS

----------------------------------------------------------------------------
(* Facts about the remainder on which the proofs about rings and fixed-width *)
(* counters rest: a ring index is a cursor modulo the size of the ring, a    *)
(* cursor is a count modulo 2^32.                                            *)


\* Euclidean division: quotient and remainder rebuild the dividend.
LEMMA DivMod ==
    ASSUME NEW a \in Int, NEW n \in Nat \ {0}
    PROVE  /\ a % n \in 0..(n - 1)
           /\ (a \div n) \in Int
           /\ a = (n * (a \div n)) + (a % n)
  BY SMT

\* The remainder in a division by n is unique.
LEMMA RemainderUnique ==
    ASSUME NEW n \in Nat \ {0}, NEW p \in Int, NEW q \in Int,
           NEW x \in 0..(n - 1), NEW y \in 0..(n - 1),
           (n * p) + x = (n * q) + y
    PROVE  x = y
  <1>1. n * (p - q) = y - x
    BY SMT
  <1>2. CASE p - q >= 1
    <2>1. n * (p - q) >= n
      BY <1>2, SMT
    <2> QED
      BY <2>1, <1>1, SMT
  <1>3. CASE p - q =< -1
    <2>1. n * (p - q) =< -n
      BY <1>3, SMT
    <2> QED
      BY <2>1, <1>1, SMT
  <1>4. CASE p - q = 0
    BY <1>4, <1>1, SMT
  <1> QED
    BY <1>2, <1>3, <1>4, SMT

\* A number written as a multiple of n plus x has remainder x.
LEMMA ModUnique ==
    ASSUME NEW n \in Nat \ {0}, NEW q \in Int, NEW x \in 0..(n - 1)
    PROVE  ((n * q) + x) % n = x
  <1> DEFINE a == (n * q) + x
  <1>1. a \in Int
    BY SMT
  <1> QED
    BY <1>1, DivMod, RemainderUnique

\* A number in range is its own remainder.
LEMMA ModSmall ==
    ASSUME NEW n \in Nat \ {0}, NEW x \in 0..(n - 1)
    PROVE  x % n = x
  BY SMT

\* Adding a multiple of n leaves the remainder alone.
LEMMA ModShift ==
    ASSUME NEW n \in Nat \ {0}, NEW a \in Int, NEW k \in Int
    PROVE  (a + (n * k)) % n = a % n
  <1> DEFINE q == a \div n
             x == a % n
  <1>1. q \in Int /\ x \in 0..(n - 1) /\ a = (n * q) + x
    BY DivMod
  <1>2. a + (n * k) = (n * (q + k)) + x
    BY <1>1, SMT
  <1>3. q + k \in Int
    BY <1>1, SMT
  <1> HIDE DEF q, x
  <1>4. ((n * (q + k)) + x) % n = x
    BY <1>1, <1>3, ModUnique
  <1> QED
    BY <1>2, <1>4 DEF x

\* Numbers less than n apart have different remainders.
LEMMA ModInjective ==
    ASSUME NEW n \in Nat \ {0}, NEW a \in Int, NEW b \in Int,
           a < b, b < a + n
    PROVE  a % n # b % n
  <1> DEFINE p == a \div n
             q == b \div n
             x == a % n
             y == b % n
  <1>1. p \in Int /\ q \in Int /\ a = (n * p) + x /\ b = (n * q) + y
        /\ x \in 0..(n - 1) /\ y \in 0..(n - 1)
    BY DivMod
  <1> SUFFICES ASSUME x = y PROVE FALSE
    OBVIOUS
  <1> HIDE DEF p, q, x, y
  <1>2. n * (q - p) = b - a
    BY <1>1, SMT
  <1>3. CASE q - p >= 1
    <2>1. n * (q - p) >= n
      BY <1>1, <1>3, SMT
    <2> QED
      BY <2>1, <1>2, SMT
  <1>4. CASE q - p =< 0
    <2>1. n * (q - p) =< 0
      BY <1>1, <1>4, SMT
    <2> QED
      BY <2>1, <1>2, SMT
  <1> QED
    BY <1>1, <1>3, <1>4, SMT

\* Reducing modulo a multiple of n first does not change the remainder by n.
LEMMA ModOfMod ==
    ASSUME NEW n \in Nat \ {0}, NEW l \in Nat \ {0}, NEW a \in Int, NEW b \in Int
    PROVE  ((a % (n * l)) + b) % n = (a + b) % n
  <1> DEFINE m == n * l
             q == a \div m
             x == a % m
  <1>1. m \in Nat \ {0}
    BY SMT
  <1> HIDE DEF m
  <1>2. q \in Int /\ x \in Int /\ a = (m * q) + x
    BY <1>1, DivMod, SMT
  <1> HIDE DEF q, x
  <1>3. l * (-q) \in Int /\ a + b \in Int
    BY <1>2, SMT
  <1>4. x + b = (a + b) + (n * (l * (-q)))
    BY <1>2, SMT DEF m
  <1>5. ((a + b) + (n * (l * (-q)))) % n = (a + b) % n
    BY <1>3, ModShift
  <1> QED
    BY <1>4, <1>5 DEF x, m

----------------------------------------------------------------------------
(* Facts about cursors.                                                    *)

LEMMA Sizes ==
    /\ RingSize \in Nat \ {0}
    /\ CursorMod \in Nat \ {0}
    /\ RingSize < CursorMod
    /\ Chunk \in 1..RingSize
  <1>1. RingSize * Laps >= RingSize * 2
    BY SizeAssumption, SMT
  <1> QED
    BY <1>1, SizeAssumption, SMT DEF CursorMod

\* The two segments of a copy are one pass around the ring.
LEMMA CellIsMod ==
    ASSUME NEW c \in Nat, NEW n \in 0..RingSize, NEW i \in 0..(n - 1)
    PROVE  /\ Cell(c, i, n) = (c + i) % RingSize
           /\ Cell(c, i, n) \in 0..(RingSize - 1)
  <1> DEFINE idx == c % RingSize
             q   == c \div RingSize
             N   == RingSize
  <1>1. N \in Nat \ {0}
    BY Sizes
  <1>2. idx \in 0..(N - 1) /\ q \in Int /\ c = (N * q) + idx
    BY <1>1, DivMod, SMT
  <1> HIDE DEF idx, q, N
  <1>3. CASE idx + i < N
    <2>1. Cell(c, i, n) = idx + i
      BY <1>1, <1>2, <1>3, SMT DEF Cell, Smaller, idx, N
    <2>2. ((N * q) + (idx + i)) % N = idx + i
      <3>1. idx + i \in 0..(N - 1)
        BY <1>1, <1>2, <1>3, SMT
      <3> QED
        BY <1>1, <1>2, <3>1, ModUnique
    <2>3. (N * q) + (idx + i) = c + i
      BY <1>1, <1>2, SMT
    <2> QED
      BY <1>1, <1>2, <1>3, <2>1, <2>2, <2>3, SMT DEF N
  <1>4. CASE idx + i >= N
    <2>1. Cell(c, i, n) = (idx + i) - N
      BY <1>1, <1>2, <1>4, SMT DEF Cell, Smaller, idx, N
    <2>2. ((N * (q + 1)) + ((idx + i) - N)) % N = (idx + i) - N
      <3>1. (idx + i) - N \in 0..(N - 1) /\ q + 1 \in Int
        BY <1>1, <1>2, <1>4, SMT DEF N
      <3> QED
        BY <1>1, <3>1, ModUnique
    <2>3. (N * (q + 1)) + ((idx + i) - N) = c + i
      BY <1>1, <1>2, SMT
    <2> QED
      BY <1>1, <1>2, <1>4, <2>1, <2>2, <2>3, SMT DEF N
  <1> QED
    BY <1>1, <1>2, <1>3, <1>4, SMT

\* The distance between the cursors, as a linear equation.
LEMMA UsedFact ==
    ASSUME w \in 0..(CursorMod - 1), r \in 0..(CursorMod - 1)
    PROVE  /\ Used \in 0..(CursorMod - 1)
           /\ \E q \in Int : w = r + Used + (CursorMod * q)
  <1> DEFINE M == CursorMod
             q == (w - r) \div M
  <1>1. M \in Nat \ {0}
    BY Sizes
  <1>2. Used \in 0..(M - 1) /\ q \in Int /\ w - r = (M * q) + Used
    BY <1>1, DivMod, SMT DEF Used
  <1> HIDE DEF q, M
  <1>3. w = r + Used + (M * q)
    BY <1>1, <1>2, SMT DEF M
  <1> QED
    BY <1>2, <1>3 DEF M

\* The producer's cell i is the cell Used + i after the consumer's cursor.
LEMMA ProducerCell ==
    ASSUME w \in 0..(CursorMod - 1), r \in 0..(CursorMod - 1), NEW i \in Nat
    PROVE  (w + i) % RingSize = (r + Used + i) % RingSize
  <1> DEFINE N == RingSize
             u == Used
  <1>1. PICK q \in Int : w = r + u + (CursorMod * q)
    BY UsedFact
  <1>2. u \in Int /\ r \in Int /\ w \in Int /\ N \in Nat \ {0} /\ Laps \in Int
    BY UsedFact, Sizes, SizeAssumption, SMT
  <1> HIDE DEF u, N
  <1>3. w + i = (r + u + i) + (N * (Laps * q))
    BY <1>1, <1>2, SMT DEF CursorMod, N
  <1>4. r + u + i \in Int /\ Laps * q \in Int
    BY <1>2, SMT
  <1>5. ((r + u + i) + (N * (Laps * q))) % N = (r + u + i) % N
    BY <1>2, <1>4, ModShift
  <1> QED
    BY <1>3, <1>5 DEF N, u

\* Cells at different offsets below RingSize are different.
LEMMA DistinctCells ==
    ASSUME NEW c \in Nat, NEW i \in Nat, NEW j \in Nat,
           i < RingSize, j < RingSize, i # j
    PROVE  (c + i) % RingSize # (c + j) % RingSize
  <1>1. CASE i < j
    <2>1. c + i \in Int /\ c + j \in Int /\ c + i < c + j /\ c + j < (c + i) + RingSize
      BY <1>1, Sizes, SMT
    <2> QED
      BY <2>1, Sizes, ModInjective
  <1>2. CASE j < i
    <2>1. c + i \in Int /\ c + j \in Int /\ c + j < c + i /\ c + i < (c + j) + RingSize
      BY <1>2, Sizes, SMT
    <2> QED
      BY <2>1, Sizes, ModInjective
  <1> QED
    BY <1>1, <1>2, SMT

\* Advancing the producer's cursor adds to the distance ...
LEMMA UsedAfterPublish ==
    ASSUME w \in 0..(CursorMod - 1), r \in 0..(CursorMod - 1),
           NEW n \in Nat, Used + n \in 0..RingSize
    PROVE  /\ (w + n) % CursorMod \in 0..(CursorMod - 1)
           /\ (((w + n) % CursorMod) - r) % CursorMod = Used + n
  <1> DEFINE M == CursorMod
             x == (w + n) % M
             p == (w + n) \div M
             u == Used
  <1>1. M \in Nat \ {0} /\ RingSize \in Nat /\ RingSize < M
    BY Sizes
  <1>2. PICK q \in Int : w = r + u + (M * q)
    BY UsedFact
  <1>3. x \in 0..(M - 1) /\ p \in Int /\ w + n = (M * p) + x
    <2>1. w + n \in Int
      BY <1>1, SMT
    <2> HIDE DEF M
    <2> QED
      BY <1>1, <2>1, DivMod
  <1>4. u \in Int /\ r \in Int /\ w \in Int /\ u + n \in 0..RingSize
    BY UsedFact, <1>1, SMT
  <1> HIDE DEF M, x, p, u
  <1>5. x - r = (M * (q - p)) + (u + n)
    BY <1>1, <1>2, <1>3, <1>4, SMT
  <1>6. q - p \in Int /\ u + n \in 0..(M - 1)
    BY <1>1, <1>2, <1>3, <1>4, SMT
  <1>7. ((M * (q - p)) + (u + n)) % M = u + n
    BY <1>1, <1>6, ModUnique
  <1> QED
    BY <1>3, <1>5, <1>7 DEF M, x, u

\* ... and advancing the consumer's subtracts from it.
LEMMA UsedAfterRead ==
    ASSUME w \in 0..(CursorMod - 1), r \in 0..(CursorMod - 1),
           NEW n \in Nat, n =< Used
    PROVE  /\ (r + n) % CursorMod \in 0..(CursorMod - 1)
           /\ (w - ((r + n) % CursorMod)) % CursorMod = Used - n
  <1> DEFINE M == CursorMod
             x == (r + n) % M
             p == (r + n) \div M
             u == Used
  <1>1. M \in Nat \ {0}
    BY Sizes
  <1>2. PICK q \in Int : w = r + u + (M * q)
    BY UsedFact
  <1>3. x \in 0..(M - 1) /\ p \in Int /\ r + n = (M * p) + x
    <2>1. r + n \in Int
      BY <1>1, SMT
    <2> HIDE DEF M
    <2> QED
      BY <1>1, <2>1, DivMod
  <1>4. u \in 0..(M - 1) /\ r \in Int /\ w \in Int /\ n =< u
    BY UsedFact, <1>1, SMT
  <1> HIDE DEF M, x, p, u
  <1>5. w - x = (M * (q + p)) + (u - n)
    BY <1>1, <1>2, <1>3, <1>4, SMT
  <1>6. q + p \in Int /\ u - n \in 0..(M - 1)
    BY <1>1, <1>2, <1>3, <1>4, SMT
  <1>7. ((M * (q + p)) + (u - n)) % M = u - n
    BY <1>1, <1>6, ModUnique
  <1> QED
    BY <1>3, <1>5, <1>7 DEF M, x, u

\* The cells behind an advanced consumer cursor.
LEMMA CellAfterRead ==
    ASSUME r \in 0..(CursorMod - 1), NEW n \in Nat, NEW i \in Int
    PROVE  (((r + n) % CursorMod) + i) % RingSize = (r + n + i) % RingSize
  <1>1. RingSize \in Nat \ {0} /\ Laps \in Nat \ {0} /\ r + n \in Int
    BY Sizes, SizeAssumption, SMT
  <1> QED
    BY <1>1, ModOfMod DEF CursorMod

----------------------------------------------------------------------------
(* The inductive invariant IInv of AudioRing.                              *)

LEMMA InitInv == Init => IInv
  <1> SUFFICES ASSUME Init PROVE IInv
    OBVIOUS
  <1>1. Used = 0
    <2>1. 0 % CursorMod = 0
      BY Sizes, SMT
    <2> QED
      BY <2>1 DEF Init, Used
  <1>2. TypeOK
    BY Sizes, SilenceAssumption, SizeAssumption DEF Init, TypeOK
  <1> QED
    BY <1>1, <1>2, Sizes DEF Init, IInv, ThreadStarted, ProducerFits, ProducerProgress, ConsumerProgress

\* The invariant read at one of the two copies.
LEMMA ProducerCells ==
    ASSUME IInv, ppc = "copy", NEW i \in 0..(Len(pcm) - 1)
    PROVE  /\ Cell(w, i, Len(pcm)) = (w + i) % RingSize
           /\ Cell(w, i, Len(pcm)) = (r + Used + i) % RingSize
           /\ Cell(w, i, Len(pcm)) \in 0..(RingSize - 1)
  <1>1. w \in 0..(CursorMod - 1) /\ r \in 0..(CursorMod - 1) /\ pcm \in Seq(Sample)
    BY DEF IInv, TypeOK
  <1>2. Used \in Nat /\ Len(pcm) \in Nat /\ Len(pcm) + Used =< RingSize
    BY <1>1, UsedFact, SMT DEF IInv, ProducerFits
  <1>3. w \in Nat /\ Len(pcm) \in 0..RingSize /\ i \in Nat
    BY <1>1, <1>2, Sizes, SMT
  <1>4. (w + i) % RingSize = (r + Used + i) % RingSize
    BY <1>1, <1>3, ProducerCell
  <1> QED
    BY <1>3, <1>4, CellIsMod

LEMMA ConsumerCells ==
    ASSUME IInv, cpc = "copy", NEW i \in 0..(take - 1)
    PROVE  /\ Cell(r, i, take) = (r + i) % RingSize
           /\ Cell(r, i, take) \in 0..(RingSize - 1)
  <1>1. r \in Nat /\ take \in 0..RingSize
    BY Sizes, SMT DEF IInv, TypeOK
  <1> QED
    BY <1>1, CellIsMod

\* No cell the producer may still write is one of the unread cells.
LEMMA WritesFreeCells ==
    ASSUME IInv, ppc = "copy", NEW i \in 0..(Len(pcm) - 1), NEW j \in 0..(Used - 1)
    PROVE  Cell(w, i, Len(pcm)) # (r + j) % RingSize
  <1>1. w \in 0..(CursorMod - 1) /\ r \in 0..(CursorMod - 1) /\ pcm \in Seq(Sample)
    BY DEF IInv, TypeOK
  <1>2. Used \in Nat /\ Len(pcm) \in Nat /\ Len(pcm) + Used =< RingSize
    BY <1>1, UsedFact, SMT DEF IInv, ProducerFits
  <1>3. r \in Nat /\ j \in Nat /\ Used + i \in Nat /\ j < RingSize /\ Used + i < RingSize /\ Used + i # j
    BY <1>1, <1>2, Sizes, SMT
  <1>4. (r + (Used + i)) % RingSize # (r + j) % RingSize
    BY <1>3, DistinctCells
  <1>5. r + (Used + i) = r + Used + i
    BY <1>1, <1>2, SMT
  <1> QED
    BY <1>4, <1>5, ProducerCells

\* One lemma per action: it preserves the invariant.

LEMMA SubmitInv ==
    ASSUME IInv, NEW s \in Submits, SubmitAudio(s)
    PROVE  IInv'
  <1> USE DEF SubmitAudio, prodVars, consVars
  <1>1. s \in Seq(Sample) /\ s # <<>> /\ Len(s) \in Nat
    BY SubmitsAssumption
  <1>2. Used' = Used /\ Used \in Nat
    <2>1. w \in 0..(CursorMod - 1) /\ r \in 0..(CursorMod - 1)
      BY DEF IInv, TypeOK
    <2> QED
      BY <2>1, UsedFact, SMT DEF Used
  <1>3. CASE Len(s) > Free
    BY <1>2, <1>3, SizeAssumption
       DEF IInv, TypeOK, ThreadStarted, ProducerFits, ProducerProgress, ConsumerProgress
  <1>4. CASE ~(Len(s) > Free)
    <2>1. Free = RingSize - Used
      <3>1. RingSize - Used \in 0..(CursorMod - 1)
        BY <1>2, Sizes, SMT DEF IInv, ProducerFits
      <3> QED
        BY <3>1, Sizes, ModSmall DEF Free
    <2>2. Len(s) + Used =< RingSize
      BY <1>1, <1>2, <1>4, <2>1, Sizes, SMT
    <2>3. TypeOK'
      BY <1>1, <1>4 DEF IInv, TypeOK
    <2> QED
      BY <1>1, <1>2, <1>4, <2>2, <2>3
         DEF IInv, TypeOK, ThreadStarted, ProducerFits, ProducerProgress, ConsumerProgress
  <1> QED
    BY <1>3, <1>4

LEMMA CopyInInv ==
    ASSUME IInv, CopyIn
    PROVE  IInv'
  <1> USE DEF CopyIn, consVars
  <1> DEFINE n == Len(pcm)
             c == Cell(w, copied, n)
  <1>1. /\ pcm \in Seq(Sample) /\ n \in Nat /\ copied \in 0..(n - 1)
        /\ w \in 0..(CursorMod - 1) /\ r \in 0..(CursorMod - 1)
        /\ ring \in [0..(RingSize - 1) -> Sample]
    BY DEF IInv, TypeOK
  <1>2. Used' = Used /\ Used \in Nat /\ n + Used =< RingSize
    BY <1>1, UsedFact, SMT DEF Used, IInv, ProducerFits
  <1>3. c = (w + copied) % RingSize /\ c \in 0..(RingSize - 1)
    BY <1>1, ProducerCells
  <1> HIDE DEF c, n
  <1>4. ring' = [ring EXCEPT ![c] = pcm[copied + 1]] /\ pcm[copied + 1] \in Sample
    BY <1>1, SMT DEF c, n
  <1>5. TypeOK'
    <2>1. ring' \in [0..(RingSize - 1) -> Sample]
      BY <1>1, <1>3, <1>4
    <2>2. copied' \in 0..Len(pcm')
      BY <1>1, SMT DEF n
    <2> QED
      BY <2>1, <2>2 DEF IInv, TypeOK
  <1>6. ProducerFits'
    BY <1>2 DEF IInv, ProducerFits
  <1>7. ProducerProgress'
    <2> SUFFICES ASSUME NEW i \in 0..copied
                 PROVE  ring'[(w + i) % RingSize] = pcm[i + 1]
      BY <1>1, SMT DEF ProducerProgress
    <2>1. CASE i = copied
      BY <2>1, <1>1, <1>3, <1>4
    <2>2. CASE i # copied
      <3>1. i \in 0..(copied - 1) /\ i \in Nat /\ copied \in Nat /\ w \in Nat
            /\ i < RingSize /\ copied < RingSize
        BY <2>2, <1>1, <1>2, Sizes, SMT
      <3>2. (w + i) % RingSize # c
        BY <2>2, <3>1, <1>3, DistinctCells
      <3>3. (w + i) % RingSize \in 0..(RingSize - 1)
        BY <3>1, Sizes, SMT
      <3>4. ring[(w + i) % RingSize] = pcm[i + 1]
        BY <3>1 DEF IInv, ProducerProgress
      <3> QED
        BY <1>1, <1>4, <3>2, <3>3, <3>4
    <2> QED
      BY <2>1, <2>2
  <1>8. ConsumerProgress'
    <2> SUFFICES ASSUME cpc = "copy", NEW i \in 0..(taken - 1)
                 PROVE  chunk[i + 1] = ring'[(r + i) % RingSize]
      BY <1>2 DEF ConsumerProgress, IInv
    <2>1. i \in 0..(Used - 1) /\ i \in Nat /\ r \in Nat
      BY <1>1, <1>2, Sizes, SMT DEF IInv, TypeOK, ConsumerProgress
    <2>2. c # (r + i) % RingSize
      BY <2>1, <1>1, WritesFreeCells DEF c, n
    <2>3. (r + i) % RingSize \in 0..(RingSize - 1)
      BY <2>1, Sizes, DivMod
    <2>4. chunk[i + 1] = ring[(r + i) % RingSize]
      BY DEF IInv, ConsumerProgress
    <2> QED
      BY <1>1, <1>4, <2>2, <2>3, <2>4
  <1> QED
    BY <1>5, <1>6, <1>7, <1>8 DEF IInv, ThreadStarted

LEMMA PublishInv ==
    ASSUME IInv, Publish
    PROVE  /\ IInv'
           /\ Used' = Used + Len(pcm)
  <1> USE DEF Publish, PublishAt, consVars
  <1>1. /\ pcm \in Seq(Sample) /\ Len(pcm) \in Nat
        /\ w \in 0..(CursorMod - 1) /\ r \in 0..(CursorMod - 1)
    BY DEF IInv, TypeOK
  <1>2. Used \in Nat /\ Used + Len(pcm) \in 0..RingSize
    BY <1>1, UsedFact, Sizes, SMT DEF IInv, ProducerFits
  <1>3. w' \in 0..(CursorMod - 1) /\ Used' = Used + Len(pcm)
    BY <1>1, <1>2, UsedAfterPublish DEF Used
  <1>4. TypeOK'
    BY <1>3 DEF IInv, TypeOK
  <1>5. ProducerFits' /\ ProducerProgress'
    BY <1>2, <1>3 DEF ProducerFits, ProducerProgress
  <1>6. ConsumerProgress'
    BY <1>1, <1>2, <1>3, SMT DEF IInv, TypeOK, ConsumerProgress
  <1> QED
    BY <1>3, <1>4, <1>5, <1>6 DEF IInv, ThreadStarted

LEMMA BeginReadInv ==
    ASSUME IInv, BeginRead
    PROVE  IInv'
  <1> USE DEF BeginRead, BeginReadOf, prodVars
  <1>1. w \in 0..(CursorMod - 1) /\ r \in 0..(CursorMod - 1)
    BY DEF IInv, TypeOK
  <1>2. Used' = Used /\ Used \in Nat
    BY <1>1, UsedFact, SMT DEF Used
  <1>3. take' \in 0..Chunk /\ take' =< Used /\ taken' = 0
    BY <1>2, Sizes, SMT DEF Smaller
  <1> QED
    BY <1>2, <1>3 DEF IInv, TypeOK, ThreadStarted, ProducerFits, ProducerProgress, ConsumerProgress

LEMMA CopyOutInv ==
    ASSUME IInv, CopyOut
    PROVE  IInv'
  <1> USE DEF CopyOut, prodVars
  <1> DEFINE c == Cell(r, taken, take)
  <1>1. /\ taken \in 0..(take - 1) /\ take \in 0..Chunk /\ taken + 1 \in 1..Chunk
        /\ chunk \in [1..Chunk -> Sample] /\ ring \in [0..(RingSize - 1) -> Sample]
    BY Sizes, SMT DEF IInv, TypeOK
  <1>2. c = (r + taken) % RingSize /\ c \in 0..(RingSize - 1)
    BY <1>1, ConsumerCells
  <1> HIDE DEF c
  <1>3. chunk' = [chunk EXCEPT ![taken + 1] = ring[c]] /\ ring[c] \in Sample
    BY <1>1, <1>2 DEF c
  <1>4. Used' = Used
    BY DEF Used
  <1>5. TypeOK'
    <2>1. chunk' \in [1..Chunk -> Sample]
      BY <1>1, <1>3
    <2>2. taken' \in 0..take'
      BY <1>1, SMT
    <2> QED
      BY <2>1, <2>2 DEF IInv, TypeOK
  <1>6. ProducerFits' /\ ProducerProgress'
    BY <1>4 DEF IInv, ProducerFits, ProducerProgress
  <1>7. ConsumerProgress'
    <2> SUFFICES ASSUME NEW i \in 0..taken
                 PROVE  chunk'[i + 1] = ring[(r + i) % RingSize]
      BY <1>1, <1>4, SMT DEF IInv, ConsumerProgress
    <2>1. CASE i = taken
      BY <2>1, <1>1, <1>2, <1>3
    <2>2. CASE i # taken
      <3>1. i \in 0..(taken - 1) /\ i + 1 \in 1..Chunk /\ i + 1 # taken + 1
        BY <2>2, <1>1, Sizes, SMT
      <3>2. chunk[i + 1] = ring[(r + i) % RingSize]
        BY <3>1 DEF IInv, ConsumerProgress
      <3> QED
        BY <1>1, <1>3, <3>1, <3>2
    <2> QED
      BY <2>1, <2>2
  <1> QED
    BY <1>5, <1>6, <1>7 DEF IInv, ThreadStarted

LEMMA EndReadInv ==
    ASSUME IInv, EndRead
    PROVE  /\ IInv'
           /\ Used' = Used - take
  <1> USE DEF EndRead, prodVars
  <1>1. /\ w \in 0..(CursorMod - 1) /\ r \in 0..(CursorMod - 1)
        /\ take \in Nat /\ chunk \in [1..Chunk -> Sample] /\ pcm \in Seq(Sample)
    BY Sizes, SMT DEF IInv, TypeOK
  <1>2. Used \in Nat /\ take =< Used /\ Len(pcm) \in Nat
    BY <1>1, UsedFact, SMT DEF IInv, ConsumerProgress
  <1>3. r' \in 0..(CursorMod - 1) /\ Used' = Used - take
    BY <1>1, <1>2, UsedAfterRead DEF Used
  <1>4. TypeOK'
    <2>1. chunk' \in [1..Chunk -> Sample]
      BY <1>1, SilenceAssumption
    <2> QED
      BY <2>1, <1>3 DEF IInv, TypeOK
  <1>5. ProducerFits'
    BY <1>1, <1>2, <1>3, Sizes, SMT DEF IInv, ProducerFits
  <1>6. ProducerProgress' /\ ConsumerProgress'
    BY DEF IInv, ProducerProgress, ConsumerProgress
  <1> QED
    BY <1>3, <1>4, <1>5, <1>6 DEF IInv, ThreadStarted

LEMMA StepInv == IInv /\ [Next]_vars => IInv'
  <1> SUFFICES ASSUME IInv, [Next]_vars PROVE IInv'
    OBVIOUS
  <1> USE DEF IInv, TypeOK, ThreadStarted, ProducerFits, ProducerProgress, ConsumerProgress, Used
  <1>1. CASE UNCHANGED vars
    BY <1>1 DEF vars
  <1>2. CASE Install
    BY <1>2 DEF Install, StartThread, StartThreadFails, HookSubmitAudio, prodVars, consVars
  <1>3. ASSUME NEW s \in Submits, SubmitAudio(s) PROVE IInv'
    BY <1>3, SubmitInv
  <1>4. CASE CopyIn
    BY <1>4, CopyInInv
  <1>5. CASE Publish
    BY <1>5, PublishInv
  <1>6. CASE OpenPort \/ OpenPortFails
    BY <1>6 DEF OpenPort, OpenPortFails, prodVars
  <1>7. CASE BeginRead
    BY <1>7, BeginReadInv
  <1>8. CASE CopyOut
    BY <1>8, CopyOutInv
  <1>9. CASE EndRead
    BY <1>9, EndReadInv
  <1>10. CASE Output
    BY <1>10 DEF Output, prodVars
  <1> QED
    BY <1>1, <1>2, <1>3, <1>4, <1>5, <1>6, <1>7, <1>8, <1>9, <1>10
       DEF Next, Producer, Consumer

THEOREM Invariance == Spec => []IInv
  <1> QED
    BY InitInv, StepInv, PTL DEF Spec

\* Every variable keeps its C type's range (audio.c:31-35), the cursors'
\* wrap at 2^32 included.
THEOREM TypeCorrect == Spec => []TypeOK
  <1>1. IInv => TypeOK
    BY DEF IInv
  <1> QED
    BY <1>1, Invariance, PTL

\* ring_write and ring_read_chunk (audio.c:38-62) never copy into and out of
\* the same cell at the same time, for every ring, chunk and cursor width.
THEOREM DataRaceFree == Spec => []NoDataRace
  <1>1. IInv => NoDataRace
    <2> SUFFICES ASSUME IInv, ppc = "copy", cpc = "copy",
                        NEW i \in copied..(Len(pcm) - 1), NEW j \in taken..(take - 1)
                 PROVE  Cell(w, i, Len(pcm)) # Cell(r, j, take)
      BY DEF NoDataRace, WriteCells, ReadCells
    <2>1. /\ w \in 0..(CursorMod - 1) /\ r \in 0..(CursorMod - 1)
          /\ pcm \in Seq(Sample) /\ copied \in Nat /\ taken \in Nat /\ take \in Nat
          /\ take =< Used
      BY Sizes, SMT DEF IInv, TypeOK, ConsumerProgress
    <2>2. i \in 0..(Len(pcm) - 1) /\ j \in 0..(take - 1) /\ j \in 0..(Used - 1)
      BY <2>1, UsedFact, SMT
    <2> QED
      BY <2>2, ConsumerCells, WritesFreeCells
  <1> QED
    BY <1>1, Invariance, PTL

----------------------------------------------------------------------------
(* The refinement.                                                         *)

\* The queue the ring stands for.
UnreadOK ==
    /\ Unread \in Seq(Sample)
    /\ Len(Unread) = Used
    /\ \A i \in 1..Used : Unread[i] = ring[(r + i - 1) % RingSize]

LEMMA UnreadSeq == IInv => UnreadOK
  <1> SUFFICES ASSUME IInv PROVE UnreadOK
    OBVIOUS
  <1>1. w \in 0..(CursorMod - 1) /\ r \in 0..(CursorMod - 1)
        /\ ring \in [0..(RingSize - 1) -> Sample]
    BY DEF IInv, TypeOK
  <1>2. Used \in Nat
    BY <1>1, UsedFact, SMT
  <1> HIDE DEF Used
  <1>3. \A i \in 1..Used : ring[(r + i - 1) % RingSize] \in Sample
    <2> TAKE i \in 1..Used
    <2>1. (r + i - 1) % RingSize \in 0..(RingSize - 1)
      BY <1>1, <1>2, Sizes, SMT
    <2> QED
      BY <1>1, <2>1
  <1> QED
    BY <1>2, <1>3, SMT DEF Unread, UnreadOK

LEMMA UnreadSeqNext == IInv' => UnreadOK'
  BY UnreadSeq, PTL

\* A step that moves no cursor and writes no unread cell keeps the queue.
LEMMA UnreadStable ==
    ASSUME IInv, UNCHANGED <<w, r>>,
           \A j \in 0..(Used - 1) : ring'[(r + j) % RingSize] = ring[(r + j) % RingSize]
    PROVE  Unread' = Unread
  <1>1. w \in 0..(CursorMod - 1) /\ r \in 0..(CursorMod - 1)
    BY DEF IInv, TypeOK
  <1>2. Used' = Used /\ Used \in Nat
    BY <1>1, UsedFact, SMT DEF Used
  <1> HIDE DEF Used
  <1>3. \A i \in 1..Used : ring'[(r + i - 1) % RingSize] = ring[(r + i - 1) % RingSize]
    <2> TAKE i \in 1..Used
    <2>1. i - 1 \in 0..(Used - 1) /\ r + i - 1 = r + (i - 1)
      BY <1>1, <1>2, SMT
    <2> QED
      BY <2>1
  <1> QED
    BY <1>2, <1>3 DEF Unread

LEMMA InitRefines == Init => Fifo!Init
  <1> SUFFICES ASSUME Init PROVE Fifo!Init
    OBVIOUS
  <1>1. Used = 0
    BY Sizes, ModSmall, SMT DEF Init, Used
  <1>2. Unread = <<>>
    BY <1>1, SMT DEF Unread
  <1> QED
    BY <1>2, SMT DEF Init, Fifo!Init, Fifo!NotReading

LEMMA SubmitRefines ==
    ASSUME IInv, NEW s \in Submits, SubmitAudio(s)
    PROVE  Fifo!Accept(s) \/ Fifo!Drop(s)
  <1> USE DEF SubmitAudio, prodVars, consVars
  <1>1. w \in 0..(CursorMod - 1) /\ r \in 0..(CursorMod - 1) /\ Len(s) \in Nat
    BY SubmitsAssumption DEF IInv, TypeOK
  <1>2. Used \in 0..RingSize /\ Len(Unread) = Used
    BY <1>1, UsedFact, UnreadSeq, Sizes, SMT DEF IInv, ProducerFits, UnreadOK
  <1>3. Free = RingSize - Used
    <2>1. RingSize - Used \in 0..(CursorMod - 1)
      BY <1>2, Sizes, SMT
    <2> QED
      BY <2>1, Sizes, ModSmall DEF Free
  <1>4. Unread' = Unread
    BY UnreadStable
  <1>5. pcm = <<>>
    BY DEF IInv, ProducerFits
  <1>6. CASE Len(s) > Free
    <2>1. Len(Unread) + Len(s) > RingSize
      BY <1>1, <1>2, <1>3, <1>6, Sizes, SMT
    <2> QED
      BY <1>4, <1>5, <1>6, <2>1 DEF Fifo!Drop
  <1>7. CASE ~(Len(s) > Free)
    <2>1. Len(Unread) + Len(s) <= RingSize
      BY <1>1, <1>2, <1>3, <1>7, Sizes, SMT
    <2> QED
      BY <1>4, <1>5, <1>7, <2>1 DEF Fifo!Accept
  <1> QED
    BY <1>6, <1>7

LEMMA CopyInRefines ==
    ASSUME IInv, CopyIn
    PROVE  UNCHANGED Fifo!vars
  <1> USE DEF CopyIn, consVars
  <1> DEFINE c == Cell(w, copied, Len(pcm))
  <1>1. copied \in 0..(Len(pcm) - 1) /\ ring \in [0..(RingSize - 1) -> Sample] /\ r \in Nat
    BY Sizes, SMT DEF IInv, TypeOK
  <1>2. \A j \in 0..(Used - 1) : ring'[(r + j) % RingSize] = ring[(r + j) % RingSize]
    <2> TAKE j \in 0..(Used - 1)
    <2>1. c # (r + j) % RingSize
      BY <1>1, WritesFreeCells
    <2>2. (r + j) % RingSize \in 0..(RingSize - 1)
      BY <1>1, Sizes, SMT
    <2> QED
      BY <1>1, <2>1, <2>2
  <1>3. Unread' = Unread
    BY <1>2, UnreadStable
  <1> QED
    BY <1>3 DEF Fifo!vars

LEMMA PublishRefines ==
    ASSUME IInv, Publish
    PROVE  Fifo!Enqueue
  <1> USE DEF Publish, PublishAt, consVars
  <1> DEFINE n == Len(pcm)
  <1>1. /\ pcm \in Seq(Sample) /\ n \in Nat /\ pcm # <<>>
        /\ w \in 0..(CursorMod - 1) /\ r \in 0..(CursorMod - 1)
    BY DEF IInv, TypeOK, ProducerFits
  <1>2. Used' = Used + n /\ IInv' /\ Used \in Nat
    BY <1>1, PublishInv, UsedFact, SMT
  <1>3. /\ Unread \in Seq(Sample) /\ Len(Unread) = Used
        /\ Unread' \in Seq(Sample) /\ Len(Unread') = Used + n
        /\ \A i \in 1..Used : Unread[i] = ring[(r + i - 1) % RingSize]
        /\ \A i \in 1..(Used + n) : Unread'[i] = ring[(r + i - 1) % RingSize]
    BY <1>2, UnreadSeq, UnreadSeqNext DEF UnreadOK
  <1>4. \A i \in 1..n : ring[(r + (Used + i) - 1) % RingSize] = pcm[i]
    <2> TAKE i \in 1..n
    <2>1. /\ i - 1 \in 0..(Len(pcm) - 1) /\ i - 1 \in 0..(copied - 1)
          /\ i - 1 \in Nat /\ (i - 1) + 1 = i
          /\ r + Used + (i - 1) = r + (Used + i) - 1
      BY <1>1, <1>2, SMT
    <2>2. (w + (i - 1)) % RingSize = (r + Used + (i - 1)) % RingSize
      BY <1>1, <2>1, ProducerCell
    <2>3. ring[(w + (i - 1)) % RingSize] = pcm[(i - 1) + 1]
      BY <2>1 DEF IInv, ProducerProgress
    <2> QED
      BY <2>1, <2>2, <2>3
  <1> HIDE DEF n
  <1>5. Unread' = Unread \o pcm
    <2> DEFINE u == Unread
               v == Unread'
    <2>1. u \in Seq(Sample) /\ v \in Seq(Sample) /\ Len(u) = Used /\ Len(v) = Used + n
      BY <1>3
    <2>2. \A i \in 1..Used : v[i] = u[i]
      <3>1. \A i \in 1..Used : i \in 1..(Used + n)
        BY <1>1, <1>2, SMT
      <3> QED
        BY <1>3, <3>1
    <2>3. \A i \in 1..n : v[Used + i] = pcm[i]
      <3> TAKE i \in 1..n
      <3>1. Used + i \in 1..(Used + n)
        BY <1>1, <1>2, SMT
      <3>2. v[Used + i] = ring[(r + (Used + i) - 1) % RingSize]
        BY <3>1, <1>3
      <3> QED
        BY <3>2, <1>4
    <2> HIDE DEF u, v
    <2>4. /\ u \o pcm \in Seq(Sample) /\ Len(u \o pcm) = Used + n
          /\ \A i \in 1..(Used + n) :
                (u \o pcm)[i] = IF i <= Used THEN u[i] ELSE pcm[i - Used]
      BY <2>1, <1>1, ConcatProperties DEF n
    <2>5. \A i \in 1..(Used + n) : v[i] = (u \o pcm)[i]
      <3> TAKE i \in 1..(Used + n)
      <3>1. CASE i =< Used
        <4>1. i \in 1..Used
          BY <3>1, <1>2, <1>1, SMT
        <4> QED
          BY <4>1, <3>1, <2>2, <2>4
      <3>2. CASE ~(i <= Used)
        <4>1. i - Used \in 1..n /\ Used + (i - Used) = i
          BY <3>2, <1>2, <1>1, SMT
        <4>2. v[Used + (i - Used)] = pcm[i - Used]
          BY <4>1, <2>3
        <4> QED
          BY <4>1, <4>2, <3>2, <2>4
      <3> QED
        BY <3>1, <3>2
    <2>6. v = u \o pcm
      BY <2>1, <2>4, <2>5, SeqEqual
    <2> QED
      BY <2>6 DEF u, v
  <1> QED
    BY <1>1, <1>5 DEF Fifo!Enqueue

LEMMA BeginReadRefines ==
    ASSUME IInv, BeginRead
    PROVE  Fifo!BeginRead
  <1> USE DEF BeginRead, BeginReadOf, prodVars
  <1>1. w \in 0..(CursorMod - 1) /\ r \in 0..(CursorMod - 1)
    BY DEF IInv, TypeOK
  <1>2. Unread' = Unread
    BY UnreadStable
  <1>3. Len(Unread) = Used
    BY UnreadSeq DEF UnreadOK
  <1> QED
    BY <1>2, <1>3 DEF Fifo!BeginRead, Fifo!NotReading, Smaller

LEMMA EndReadRefines ==
    ASSUME IInv, EndRead
    PROVE  Fifo!EndRead
  <1> USE DEF EndRead, prodVars
  <1>1. /\ w \in 0..(CursorMod - 1) /\ r \in 0..(CursorMod - 1)
        /\ take \in 0..Chunk /\ take \in Nat /\ Chunk \in Nat
    BY Sizes, SMT DEF IInv, TypeOK
  <1>2. Used' = Used - take /\ IInv' /\ Used \in Nat /\ take =< Used
    BY <1>1, EndReadInv, UsedFact, SMT DEF IInv, ConsumerProgress
  <1>3. /\ Unread \in Seq(Sample) /\ Len(Unread) = Used
        /\ Unread' \in Seq(Sample) /\ Len(Unread') = Used - take
        /\ \A i \in 1..Used : Unread[i] = ring[(r + i - 1) % RingSize]
        /\ \A i \in 1..(Used - take) : Unread'[i] = ring[(r' + i - 1) % RingSize]
    BY <1>2, UnreadSeq, UnreadSeqNext DEF UnreadOK
  <1> DEFINE u == Unread
             v == Unread'
  <1>4. \A i \in 1..(Used - take) : v[i] = u[take + i]
    <2> TAKE i \in 1..(Used - take)
    <2>1. take + i \in 1..Used /\ i - 1 \in Int /\ r + take + (i - 1) = r + (take + i) - 1
      <3>1. i \in Int /\ 1 =< i /\ i =< Used - take /\ r \in Int /\ take \in Nat /\ Used \in Nat
        BY <1>1, <1>2
      <3> QED
        BY <3>1, SMT
    <2>2. (((r + take) % CursorMod) + (i - 1)) % RingSize = (r + take + (i - 1)) % RingSize
      BY <1>1, <2>1, CellAfterRead
    <2>3. r' \in Int /\ r' + (i - 1) = r' + i - 1
      <3>1. r' \in Int
        BY <1>2 DEF IInv, TypeOK
      <3> QED
        BY <3>1, <2>1, SMT
    <2>4. v[i] = ring[(r' + i - 1) % RingSize]
      BY <1>3
    <2>5. u[take + i] = ring[(r + (take + i) - 1) % RingSize]
      BY <1>3, <2>1
    <2> QED
      BY <2>1, <2>2, <2>3, <2>4, <2>5
  <1>5. u \in Seq(Sample) /\ v \in Seq(Sample) /\ Len(u) = Used /\ Len(v) = Used - take
    BY <1>3
  <1>6. \A i \in 1..take : chunk[i] = u[i]
    <2> TAKE i \in 1..take
    <2>1. i - 1 \in 0..(taken - 1) /\ (i - 1) + 1 = i /\ r + (i - 1) = r + i - 1 /\ i \in 1..Used
      BY <1>1, <1>2, SMT
    <2>2. chunk[(i - 1) + 1] = ring[(r + (i - 1)) % RingSize]
      BY <2>1 DEF IInv, ConsumerProgress
    <2> QED
      BY <1>3, <2>1, <2>2
  <1>7. chunk' = [i \in 1..Chunk |-> IF i <= take THEN u[i] ELSE Silence]
    <2> HIDE DEF u
    <2>1. \A i \in 1..Chunk : i <= take => i \in 1..take
      BY <1>1, SMT
    <2> QED
      BY <1>6, <2>1
  <1> HIDE DEF u, v
  <1>8. v = SubSeq(u, take + 1, Len(u))
    <2> DEFINE t == SubSeq(u, take + 1, Used)
    <2>1. /\ take + 1 \in Int /\ Used \in Int
          /\ \A i \in (take + 1)..Used : u[i] \in Sample
      BY <1>1, <1>2, <1>5, SMT
    <2>2. /\ t \in Seq(Sample)
          /\ Len(t) = IF take + 1 <= Used THEN Used - (take + 1) + 1 ELSE 0
          /\ \A i \in 1..(Used - (take + 1) + 1) : t[i] = u[take + 1 + i - 1]
      BY <2>1, SubSeqProperties
    <2> HIDE DEF t
    <2>3. Len(t) = Used - take
      BY <1>1, <1>2, <2>2, SMT
    <2>4. \A i \in 1..(Used - take) : t[i] = u[take + i]
      <3> TAKE i \in 1..(Used - take)
      <3>1. i \in 1..(Used - (take + 1) + 1) /\ take + 1 + i - 1 = take + i
        BY <1>1, <1>2, SMT
      <3> QED
        BY <3>1, <2>2
    <2>5. v = t
      BY <1>4, <1>5, <2>2, <2>3, <2>4, SeqEqual
    <2> QED
      BY <2>5, <1>5 DEF t
  <1>9. take # -1
    BY <1>1, SMT
  <1> QED
    BY <1>7, <1>8, <1>9 DEF u, v, Fifo!EndRead, Fifo!NotReading

LEMMA OutputRefines ==
    ASSUME IInv, Output
    PROVE  Fifo!Play
  <1> USE DEF Output, prodVars
  <1>1. Unread' = Unread
    BY UnreadStable
  <1>2. chunk # <<>>
    <2>1. chunk \in [1..Chunk -> Sample] /\ 1 \in 1..Chunk
      BY Sizes, SMT DEF IInv, TypeOK
    <2>2. DOMAIN chunk # {}
      BY <2>1
    <2>3. DOMAIN <<>> = {}
      BY SMT
    <2> QED
      BY <2>2, <2>3
  <1> QED
    BY <1>1, <1>2 DEF Fifo!Play

LEMMA StepRefines == IInv /\ [Next]_vars => [Fifo!Next]_(Fifo!vars)
  <1> SUFFICES ASSUME IInv, [Next]_vars PROVE Fifo!Next \/ UNCHANGED Fifo!vars
    OBVIOUS
  <1>1. CASE UNCHANGED vars
    <2>1. Unread' = Unread
      BY <1>1, UnreadStable DEF vars
    <2> QED
      BY <1>1, <2>1 DEF vars, Fifo!vars
  <1>2. CASE Install
    <2>1. Unread' = Unread
      BY <1>2, UnreadStable DEF Install, StartThread, StartThreadFails, HookSubmitAudio
    <2>2. cpc' = cpc \/ (cpc' = "open" /\ cpc # "copy" /\ cpc # "output")
      BY <1>2 DEF Install, StartThread, StartThreadFails, HookSubmitAudio, consVars,
                  IInv, ThreadStarted
    <2> QED
      BY <1>2, <2>1, <2>2 DEF Install, StartThread, StartThreadFails, HookSubmitAudio,
                              prodVars, consVars, Fifo!vars
  <1>3. ASSUME NEW s \in Submits, SubmitAudio(s) PROVE Fifo!Next
    BY <1>3, SubmitRefines DEF Fifo!Next
  <1>4. CASE CopyIn
    BY <1>4, CopyInRefines
  <1>5. CASE Publish
    BY <1>5, PublishRefines DEF Fifo!Next
  <1>6. CASE OpenPort \/ OpenPortFails
    <2>1. Unread' = Unread
      BY <1>6, UnreadStable DEF OpenPort, OpenPortFails
    <2> QED
      BY <1>6, <2>1 DEF OpenPort, OpenPortFails, prodVars, Fifo!vars
  <1>7. CASE BeginRead
    BY <1>7, BeginReadRefines DEF Fifo!Next
  <1>8. CASE CopyOut
    <2>1. Unread' = Unread
      BY <1>8, UnreadStable DEF CopyOut
    <2> QED
      BY <1>8, <2>1 DEF CopyOut, prodVars, Fifo!vars
  <1>9. CASE EndRead
    BY <1>9, EndReadRefines DEF Fifo!Next
  <1>10. CASE Output
    BY <1>10, OutputRefines DEF Fifo!Next
  <1> QED
    BY <1>1, <1>2, <1>3, <1>4, <1>5, <1>6, <1>7, <1>8, <1>9, <1>10
       DEF Next, Producer, Consumer

\* The ring of audio.c implements the bounded queue its comment describes, for
\* every ring size, chunk size, cursor width and set of submits.
THEOREM Refinement == Spec => ImplementsFifo
  <1> QED
    BY InitRefines, StepRefines, Invariance, PTL DEF Spec, ImplementsFifo, Fifo!Spec
=============================================================================
