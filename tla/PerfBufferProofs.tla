-------------------------- MODULE PerfBufferProofs --------------------------
(***************************************************************************)
(* Proofs about the perf rings for any number of CPUs, any size of ring    *)
(* and any lengths of records.                                             *)
(*                                                                         *)
(* What the reader is given depends on memory the kernel wrote long before *)
(* and may by now have written around.  The invariant says what the memory *)
(* between data_tail and head holds: whole records one after the other     *)
(* (Records), with the positions the two sides have read or published at   *)
(* their edges (Bounds), in the order of the packets (Order), none of which*)
(* the callback has had (Fresh).                                           *)
(***************************************************************************)
EXTENDS PerfBuffer, SequenceTheorems, FiniteSetTheorems, WellFoundedInduction, TLAPS

\* The unit at position p, and the positions the reader has not given back.
Cell(c, p) == mem[c][slot(p)]
Window(c)  == data_tail[c] .. head[c] - 1

\* The unit at p belongs to a record that is all there.
Whole(c, p) ==
  LET u == Cell(c, p)
  IN  /\ u.type \in {"sample", "lost"} /\ u.off \in 1 .. u.size
      /\ u.type = "sample" => u.id \in 1 .. pkts
      /\ data_tail[c] < p - u.off + 2 /\ p - u.off + u.size < head[c]
      /\ \A k \in 1 .. u.size :
           Cell(c, p - u.off + k) = [type |-> u.type, id |-> u.id, off |-> k, size |-> u.size]

Records == \A c \in Cpus : \A p \in Window(c) : Whole(c, p)

\* A record begins at b, or the kernel will write the next one there.
Begins(c, b) == b < head[c] => Cell(c, b).off = 1

Bounds ==
  /\ \A c \in Cpus : Begins(c, data_head[c])
  /\ pc = "read" => /\ data_tail[cpu] <= t /\ t <= h /\ h <= data_head[cpu]
                    /\ Begins(cpu, t) /\ Begins(cpu, h)

\* The packet whose record begins at p, if one does.
Packet(c, p) == Cell(c, p).type = "sample" /\ Cell(c, p).off = 1

Order ==
  \A c \in Cpus : \A p, q \in Window(c) :
    p < q /\ Packet(c, p) /\ Packet(c, q) => Cell(c, p).id < Cell(c, q).id

From(c) == IF pc = "read" /\ cpu = c THEN t ELSE data_tail[c]

Fresh ==
  pc # "exit" =>
    \A c \in Cpus : \A p \in From(c) .. head[c] - 1 :
      Packet(c, p) => \A j \in 1 .. Len(got[c]) : got[c][j] < Cell(c, p).id

\* Opening goes on until every CPU has its ring; the end closes all of them.
Opening ==
  /\ pc \in {"attach", "exit"} => opened = {}
  /\ pc = "open" => opened # Cpus

\* PacketsAccounted, packet by packet.
Given(n)  == \E c \in Cpus : \E j \in 1 .. Len(got[c]) : got[c][j] = n
InRing(n) == \E c \in Cpus : \E p \in From(c) .. head[c] - 1 :
               Packet(c, p) /\ Cell(c, p).id = n
Dropped(n) == n \in unread \/ \E c \in Cpus : n \in full[c]

Accounted == \A n \in 1 .. pkts : Given(n) \/ InRing(n) \/ Dropped(n)

Rings == Records /\ Bounds /\ Order
IInv  == TypeOK /\ Opening /\ Rings /\ Fresh /\ SampleIntact /\ ReadInOrder /\ Accounted

-----------------------------------------------------------------------------
(* Positions and the memory.                                               *)

\* A ring has units, and a record about lost packets has some.
LEMMA Sizes == Size \in Nat \ {0} /\ LostLen \in Nat /\ LostLen > 0
BY PerfAssumption

\* A remainder is known by its range.
LEMMA ModUnique ==
  ASSUME NEW N \in Nat \ {0}, NEW x \in Int, NEW k \in Int, NEW r \in 0 .. N - 1,
         x = N * k + r
  PROVE  x % N = r
<1> DEFINE q == x \div N
           s == x % N
<1>1. q \in Int /\ s \in 0 .. N - 1 /\ x = N * q + s
  OBVIOUS
<1> HIDE DEF q, s
<1>2. N * (q - k) = r - s
  BY <1>1
<1>3. ~ q - k >= 1
  <2>1. q - k >= 1 => N * (q - k) >= N
    BY <1>1
  <2> QED BY <2>1, <1>1, <1>2
<1>4. ~ k - q >= 1
  <2>1. k - q >= 1 => N * (k - q) >= N
    BY <1>1
  <2>2. N * (k - q) = s - r
    BY <1>1
  <2> QED BY <2>1, <2>2, <1>1
<1>5. q = k
  BY <1>1, <1>3, <1>4
<1>6. s = r
  BY <1>1, <1>5
<1> QED BY <1>6 DEF s

\* How far behind a the slot of q is, when q is less than a round away.
LEMMA Distance ==
  ASSUME NEW N \in Nat \ {0}, NEW a \in Int, NEW q \in Int
  PROVE  /\ a <= q /\ q < a + N => ((q % N) - a) % N = q - a
         /\ a - N <= q /\ q < a => ((q % N) - a) % N = q - a + N
<1> DEFINE d == q \div N
           s == q % N
<1>1. d \in Int /\ s \in 0 .. N - 1 /\ q = N * d + s
  OBVIOUS
<1> HIDE DEF d, s
<1>2. ASSUME a <= q, q < a + N PROVE (s - a) % N = q - a
  <2>1. s - a = N * (0 - d) + (q - a)
    BY <1>1
  <2>2. q - a \in 0 .. N - 1 /\ 0 - d \in Int /\ s - a \in Int
    BY <1>1, <1>2
  <2> QED BY <2>1, <2>2, ModUnique
<1>3. ASSUME a - N <= q, q < a PROVE (s - a) % N = q - a + N
  <2>1. s - a = N * (0 - d - 1) + (q - a + N)
    BY <1>1
  <2>2. q - a + N \in 0 .. N - 1 /\ 0 - d - 1 \in Int /\ s - a \in Int
    BY <1>1, <1>3
  <2> QED BY <2>1, <2>2, ModUnique
<1> QED BY <1>2, <1>3 DEF s

\* A position has a slot.
LEMMA SlotIn == ASSUME NEW p \in Int PROVE slot(p) \in 0 .. Size - 1
BY Sizes DEF slot

\* Units written at a are at a and behind; less than a round before, nothing changes.
LEMMA WrittenAt ==
  ASSUME NEW m \in [0 .. Size - 1 -> Unit], NEW a \in Int, NEW units \in Seq(Unit),
         Len(units) < Size, NEW q \in Int
  PROVE  /\ a <= q /\ q < a + Len(units) => Written(m, a, units)[slot(q)] = units[q - a + 1]
         /\ a + Len(units) - Size <= q /\ q < a => Written(m, a, units)[slot(q)] = m[slot(q)]
<1> DEFINE d == slot(slot(q) - a)
<1>1. Size \in Nat \ {0} /\ Len(units) \in Nat
  BY Sizes
<1>2. /\ a <= q /\ q < a + Size => d = q - a
      /\ a - Size <= q /\ q < a => d = q - a + Size
  BY <1>1, Distance DEF slot
<1>3. slot(q) \in DOMAIN m
  BY SlotIn
<1>4. Written(m, a, units)[slot(q)] = IF d < Len(units) THEN units[d + 1] ELSE m[slot(q)]
  BY <1>3 DEF Written
<1> HIDE DEF d
<1> QED BY <1>1, <1>2, <1>4

\* What is written is as many units and keeps the memory's type.
LEMMA WrittenType ==
  ASSUME NEW m \in [0 .. Size - 1 -> Unit], NEW a \in Int, NEW units \in Seq(Unit)
  PROVE  Written(m, a, units) \in [0 .. Size - 1 -> Unit]
<1>1. ASSUME NEW u \in 0 .. Size - 1
      PROVE  (LET d == slot(u - a) IN IF d < Len(units) THEN units[d + 1] ELSE m[u]) \in Unit
  <2> DEFINE d == slot(u - a)
  <2>1. d \in Nat
    <3>1. u - a \in Int /\ Size \in Nat
      BY Sizes
    <3>2. d \in 0 .. Size - 1
      BY <3>1, SlotIn
    <3> QED BY <3>1, <3>2
  <2> HIDE DEF d
  <2>2. d < Len(units) => units[d + 1] \in Unit
    BY <2>1, ElementOfSeq
  <2>3. m[u] \in Unit
    OBVIOUS
  <2> QED BY <2>2, <2>3 DEF d
<1> QED BY <1>1 DEF Written

-----------------------------------------------------------------------------
(* What the kernel writes for a packet.                                    *)

\* A record's units.
LEMMA RecordUnits ==
  ASSUME NEW type \in {"sample", "lost"}, NEW id \in Nat, NEW n \in Nat
  PROVE  /\ Record(type, id, n) \in Seq(Unit) /\ Len(Record(type, id, n)) = n
         /\ \A k \in 1 .. n :
              Record(type, id, n)[k] = [type |-> type, id |-> id, off |-> k, size |-> n]
BY DEF Record, Unit

\* Its header is its first unit.
LEMMA RecordHead ==
  ASSUME NEW type \in {"sample", "lost"}, NEW id \in Nat, NEW n \in Nat, n > 0,
         NEW r, r = Record(type, id, n)
  PROVE  r \in Seq(Unit) /\ Len(r) = n /\ r[1].type = type /\ r[1].id = id
<1>1. r \in Seq(Unit) /\ Len(r) = n
  BY RecordUnits
<1>2. 1 \in 1 .. n
  OBVIOUS
<1>3. r[1] = [type |-> type, id |-> id, off |-> 1, size |-> n]
  BY <1>2 DEF Record
<1>4. r[1].type = type /\ r[1].id = id
  BY <1>3
<1> QED BY <1>1, <1>4

\* The units form whole records: unit j says where its own begins and what is in it.
Tiled(units) ==
  \A j \in 1 .. Len(units) :
    LET u == units[j]
    IN  /\ u.type \in {"sample", "lost"} /\ u.off \in 1 .. u.size
        /\ u.off <= j /\ j - u.off + u.size <= Len(units)
        /\ \A k \in 1 .. u.size :
             units[j - u.off + k] = [type |-> u.type, id |-> u.id, off |-> k, size |-> u.size]

\* One of the records is the packet's: it begins at s.
Holds(units, n) ==
  \E s \in 1 .. Len(units) :
    /\ units[s].type = "sample" /\ units[s].off = 1 /\ units[s].id = n
    /\ \A j \in 1 .. Len(units) :
         units[j].type = "sample" => units[j].id = n /\ (units[j].off = 1 => j = s)

\* The first one tells of m lost packets, if there are any, and no other does.
Tells(units, m) ==
  \A j \in 1 .. Len(units) :
    /\ units[j].type = "lost" /\ units[j].off = 1 <=> j = 1 /\ m > 0
    /\ j = 1 /\ m > 0 => units[j].id = m

\* What is written for a packet is whole records, the last one its own.
LEMMA OutputUnits ==
  ASSUME TypeOK, NEW c \in Cpus, NEW n \in Lens
  PROVE  /\ Output(c, n) \in Seq(Unit) /\ Len(Output(c, n)) > 0
         /\ Tiled(Output(c, n)) /\ Output(c, n)[1].off = 1
         /\ Holds(Output(c, n), pkts + 1) /\ Tells(Output(c, n), rb_lost[c])
<1> DEFINE L == IF rb_lost[c] > 0 THEN Record("lost", rb_lost[c], LostLen) ELSE <<>>
           S == Record("sample", pkts + 1, n)
           l == Len(L)
<1>1. rb_lost[c] \in Nat /\ pkts + 1 \in Nat /\ n \in Nat /\ n > 0
  BY PerfAssumption DEF TypeOK, HookTypes, RingTypes
<1>2. /\ S \in Seq(Unit) /\ Len(S) = n
      /\ \A k \in 1 .. n : S[k] = [type |-> "sample", id |-> pkts + 1, off |-> k, size |-> n]
  BY <1>1, RecordUnits
<1>3. /\ L \in Seq(Unit) /\ l \in Nat
      /\ \A k \in 1 .. l : L[k] = [type |-> "lost", id |-> rb_lost[c], off |-> k, size |-> l]
  <2>1. CASE rb_lost[c] > 0
    <3>1. L = Record("lost", rb_lost[c], LostLen)
      BY <2>1
    <3> HIDE DEF L
    <3>2. L \in Seq(Unit) /\ l = LostLen
      BY <3>1, <1>1, RecordUnits, Sizes
    <3>3. \A k \in 1 .. LostLen : Record("lost", rb_lost[c], LostLen)[k] =
                 [type |-> "lost", id |-> rb_lost[c], off |-> k, size |-> LostLen]
      BY ZenonT(30), <1>1, RecordUnits, Sizes
    <3> HIDE DEF l
    <3> QED BY <3>1, <3>2, <3>3, Sizes
  <2>2. CASE ~ rb_lost[c] > 0
    BY <2>2
  <2> QED BY <2>1, <2>2
<1>3a. l > 0 <=> rb_lost[c] > 0
  <2>1. CASE rb_lost[c] > 0
    <3>1. L = Record("lost", rb_lost[c], LostLen)
      BY <2>1
    <3> HIDE DEF L
    <3> QED BY <2>1, <3>1, <1>1, RecordUnits, Sizes
  <2>2. CASE ~ rb_lost[c] > 0
    BY <2>2
  <2> QED BY <2>1, <2>2
<1> HIDE DEF L, S
<1> DEFINE O == L \o S
<1>4. /\ O \in Seq(Unit) /\ Len(O) = l + n
      /\ \A k \in 1 .. l + n : O[k] = IF k <= l THEN L[k] ELSE S[k - l]
  BY <1>2, <1>3, ConcatProperties
<1>5. \A k \in 1 .. l : O[k] = [type |-> "lost", id |-> rb_lost[c], off |-> k, size |-> l]
  BY <1>1, <1>3, <1>4
<1>6. \A k \in 1 .. n :
        O[l + k] = [type |-> "sample", id |-> pkts + 1, off |-> k, size |-> n]
  BY <1>1, <1>2, <1>3, <1>4
<1> HIDE DEF O, l
<1>7. Tiled(O)
  <2> SUFFICES ASSUME NEW j \in 1 .. Len(O)
               PROVE  LET u == O[j]
                      IN  /\ u.type \in {"sample", "lost"} /\ u.off \in 1 .. u.size
                          /\ u.off <= j /\ j - u.off + u.size <= Len(O)
                          /\ \A k \in 1 .. u.size : O[j - u.off + k] =
                               [type |-> u.type, id |-> u.id, off |-> k, size |-> u.size]
    BY DEF Tiled
  <2>1. CASE j <= l
    <3>1. O[j] = [type |-> "lost", id |-> rb_lost[c], off |-> j, size |-> l]
      BY <2>1, <1>3, <1>5
    <3> QED BY <3>1, <2>1, <1>1, <1>3, <1>4, <1>5
  <2>2. CASE ~ j <= l
    <3> DEFINE i == j - l
    <3>1. i \in 1 .. n /\ j = l + i
      BY <2>2, <1>1, <1>3, <1>4
    <3> HIDE DEF i
    <3>2. O[j] = [type |-> "sample", id |-> pkts + 1, off |-> i, size |-> n]
      BY <3>1, <1>6
    <3>3. \A k \in 1 .. n : j - i + k = l + k
      BY <3>1, <1>1, <1>3
    <3> QED BY <3>1, <3>2, <3>3, <1>1, <1>3, <1>4, <1>6
  <2> QED BY <2>1, <2>2
<1>8. O[1].off = 1
  <2>1. CASE l = 0
    <3>1. O[l + 1] = [type |-> "sample", id |-> pkts + 1, off |-> 1, size |-> n]
      BY <1>1, <1>6
    <3> QED BY <3>1, <2>1
  <2>2. CASE l > 0
    <3>1. O[1] = [type |-> "lost", id |-> rb_lost[c], off |-> 1, size |-> l]
      BY <2>2, <1>3, <1>5
    <3> QED BY <3>1
  <2> QED BY <2>1, <2>2, <1>3
<1>9. Holds(O, pkts + 1)
  <2>1. /\ l + 1 \in 1 .. Len(O) /\ O[l + 1].type = "sample"
        /\ O[l + 1].off = 1 /\ O[l + 1].id = pkts + 1
    <3>1. O[l + 1] = [type |-> "sample", id |-> pkts + 1, off |-> 1, size |-> n]
      BY <1>1, <1>6
    <3> QED BY <3>1, <1>1, <1>3, <1>4
  <2>2. ASSUME NEW j \in 1 .. Len(O), O[j].type = "sample"
        PROVE  O[j].id = pkts + 1 /\ (O[j].off = 1 => j = l + 1)
    <3>1. ~ j <= l
      <4>1. j <= l => O[j] = [type |-> "lost", id |-> rb_lost[c], off |-> j, size |-> l]
        BY <1>3, <1>5
      <4>2. j <= l => O[j].type = "lost"
        BY <4>1
      <4> QED BY <4>2, <2>2
    <3> DEFINE i == j - l
    <3>2. i \in 1 .. n /\ j = l + i
      BY <3>1, <1>1, <1>3, <1>4
    <3> HIDE DEF i
    <3>3. O[j] = [type |-> "sample", id |-> pkts + 1, off |-> i, size |-> n]
      BY <3>2, <1>6
    <3> QED BY <3>2, <3>3, <1>3
  <2> QED BY <2>1, <2>2 DEF Holds
<1>10. Output(c, n) = O
  BY DEF O, L, S, Output
<1>11. Len(O) > 0
  BY <1>1, <1>3, <1>4
<1>12. Tells(O, rb_lost[c])
  <2> SUFFICES ASSUME NEW j \in 1 .. Len(O)
               PROVE  /\ O[j].type = "lost" /\ O[j].off = 1 <=> j = 1 /\ rb_lost[c] > 0
                      /\ j = 1 /\ rb_lost[c] > 0 => O[j].id = rb_lost[c]
    BY DEF Tells
  <2>1. CASE j <= l
    <3>1. O[j] = [type |-> "lost", id |-> rb_lost[c], off |-> j, size |-> l]
      BY <2>1, <1>3, <1>5
    <3>2. O[j].type = "lost" /\ O[j].off = j /\ O[j].id = rb_lost[c]
      BY <3>1
    <3> QED BY <3>2, <2>1, <1>3, <1>3a
  <2>2. CASE ~ j <= l
    <3> DEFINE i == j - l
    <3>1. i \in 1 .. n /\ j = l + i
      BY <2>2, <1>1, <1>3, <1>4
    <3> HIDE DEF i
    <3>2. O[j] = [type |-> "sample", id |-> pkts + 1, off |-> i, size |-> n]
      BY <3>1, <1>6
    <3>3. O[j].type = "sample"
      BY <3>2
    <3> QED BY <3>1, <3>3, <1>3, <1>3a
  <2> QED BY <2>1, <2>2
<1> QED BY <1>4, <1>7, <1>8, <1>9, <1>10, <1>11, <1>12

-----------------------------------------------------------------------------
(* What the reader finds at t.                                             *)

\* The slot d positions on.
LEMMA SlotNext ==
  ASSUME NEW p \in Int, NEW d \in 0 .. Size - 1
  PROVE  /\ slot(p) + d < Size => slot(p + d) = slot(p) + d
         /\ slot(p) + d >= Size => slot(p + d) = slot(p) + d - Size
<1> DEFINE q == p \div Size
           s == p % Size
<1>1. Size \in Nat \ {0}
  BY Sizes
<1>2. q \in Int /\ s \in 0 .. Size - 1 /\ p = Size * q + s
  BY <1>1
<1> HIDE DEF q, s
<1>3. ASSUME s + d < Size PROVE (p + d) % Size = s + d
  <2>1. p + d = Size * q + (s + d) /\ s + d \in 0 .. Size - 1 /\ p + d \in Int
    BY <1>1, <1>2, <1>3
  <2> QED BY <2>1, <1>1, <1>2, ModUnique
<1>4. ASSUME s + d >= Size PROVE (p + d) % Size = s + d - Size
  <2>1. /\ p + d = Size * (q + 1) + (s + d - Size) /\ s + d - Size \in 0 .. Size - 1
        /\ p + d \in Int /\ q + 1 \in Int
    BY <1>1, <1>2, <1>4
  <2> QED BY <2>1, <1>1, ModUnique
<1> QED BY <1>3, <1>4 DEF slot, s

\* A unit of a ring has the type of one.
LEMMA CellType ==
  ASSUME TypeOK, NEW c \in Cpus, NEW p \in Int
  PROVE  /\ Cell(c, p) \in Unit /\ Cell(c, p).size \in Nat
         /\ Cell(c, p).off \in Nat /\ Cell(c, p).id \in Nat
<1>1. Cell(c, p) \in Unit
  BY SlotIn DEF Cell, TypeOK, RingTypes
<1> QED BY <1>1 DEF Unit

\* The positions of a ring.
LEMMA Positions ==
  ASSUME TypeOK, NEW c \in Cpus
  PROVE  /\ data_tail[c] \in Nat /\ data_head[c] \in Nat /\ head[c] \in Nat
         /\ data_tail[c] <= data_head[c] /\ data_head[c] <= head[c]
         /\ head[c] - data_tail[c] < Size
BY DEF TypeOK, RingTypes

\* The reader's variables and the bounds.
LEMMA Locals ==
  TypeOK => cpu \in Cpus /\ t \in Nat /\ h \in Nat /\ pkts \in Nat /\ MaxPkts \in Nat
BY PerfAssumption DEF TypeOK, HookTypes, ReaderTypes

\* The record at t is all there, before h, and the reader gets it in one piece.
AtRecord ==
  LET u == Cell(cpu, t)
  IN  /\ t \in Window(cpu) /\ u.type \in {"sample", "lost"} /\ u.off = 1
      /\ u.id \in Nat /\ u.size \in Nat /\ u.size > 0 /\ u.size < Size
      /\ u.type = "sample" => u.id \in 1 .. pkts
      /\ t + u.size <= h /\ Begins(cpu, t + u.size)
      /\ \A k \in 1 .. u.size : Cell(cpu, t + k - 1) =
            [type |-> u.type, id |-> u.id, off |-> k, size |-> u.size]

\* Wherever the reader is short of h a whole record begins.
LEMMA RecordThere ==
  ASSUME TypeOK, Records, Bounds, pc = "read", t # h
  PROVE  AtRecord
<1> DEFINE u == Cell(cpu, t)
<1>1. /\ cpu \in Cpus /\ t \in Nat /\ h \in Nat /\ pkts \in Nat /\ Size \in Nat
      /\ data_tail[cpu] \in Nat /\ head[cpu] \in Nat
      /\ data_tail[cpu] <= t /\ t < h /\ h <= head[cpu] /\ head[cpu] - data_tail[cpu] < Size
  <2>1. cpu \in Cpus /\ t \in Nat /\ h \in Nat /\ pkts \in Nat /\ Size \in Nat
    BY Locals, Sizes
  <2>2. data_tail[cpu] <= t /\ t <= h /\ h <= data_head[cpu]
    BY DEF Bounds
  <2> QED BY <2>1, <2>2, Positions
<1>2. t \in Window(cpu)
  BY <1>1 DEF Window
<1>3. /\ u.type \in {"sample", "lost"} /\ u.off \in 1 .. u.size
      /\ u.type = "sample" => u.id \in 1 .. pkts
      /\ t - u.off + u.size < head[cpu]
      /\ \A k \in 1 .. u.size :
           Cell(cpu, t - u.off + k) = [type |-> u.type, id |-> u.id, off |-> k, size |-> u.size]
  BY <1>1, <1>2 DEF Records, Whole
<1>4. u.off = 1
  BY <1>1 DEF Bounds, Begins
<1>5. u.id \in Nat /\ u.size \in Nat
  BY <1>1, CellType
<1> HIDE DEF u
<1>6. u.size > 0 /\ u.size < Size /\ t + u.size <= head[cpu]
  BY <1>1, <1>3, <1>4, <1>5
<1>7. \A k \in 1 .. u.size : Cell(cpu, t + k - 1) =
            [type |-> u.type, id |-> u.id, off |-> k, size |-> u.size]
  <2>1. \A k \in 1 .. u.size : t - u.off + k = t + k - 1
    BY <1>1, <1>4, <1>5
  <2> QED BY <2>1, <1>3
<1>8. t + u.size <= h
  <2> SUFFICES ASSUME h < t + u.size PROVE FALSE
    BY <1>1, <1>5
  <2> DEFINE k == h - t + 1
  <2>1. k \in 1 .. u.size /\ k > 1 /\ t + k - 1 = h
    BY <1>1, <1>5
  <2> HIDE DEF k
  <2>2. Cell(cpu, h).off = k
    <3>1. Cell(cpu, t + k - 1) = [type |-> u.type, id |-> u.id, off |-> k, size |-> u.size]
      BY <2>1, <1>7
    <3> QED BY <3>1, <2>1
  <2>3. Cell(cpu, h).off = 1
    BY <1>1, <1>5, <1>6 DEF Bounds, Begins
  <2> QED BY <2>1, <2>2, <2>3
<1>9. Begins(cpu, t + u.size)
  <2> DEFINE b == t + u.size
             v == Cell(cpu, b)
  <2> SUFFICES ASSUME b < head[cpu] PROVE v.off = 1
    BY DEF Begins
  <2>1. b \in Window(cpu) /\ b \in Nat
    BY <1>1, <1>5 DEF Window
  <2>2. /\ v.off \in 1 .. v.size /\ v.size \in Nat /\ v.off \in Nat
        /\ \A k \in 1 .. v.size :
             Cell(cpu, b - v.off + k) = [type |-> v.type, id |-> v.id, off |-> k, size |-> v.size]
    BY <2>1, <1>1, CellType DEF Records, Whole
  <2> SUFFICES ASSUME v.off # 1 PROVE FALSE
    OBVIOUS
  <2> HIDE DEF v
  <2>3. v.off - 1 \in 1 .. v.size /\ b - v.off + (v.off - 1) = b - 1
    BY <2>1, <2>2
  <2>4. Cell(cpu, b - 1).off = v.off - 1 /\ Cell(cpu, b - 1).size = v.size
    <3>1. Cell(cpu, b - v.off + (v.off - 1)) =
             [type |-> v.type, id |-> v.id, off |-> v.off - 1, size |-> v.size]
      BY <2>2, <2>3
    <3>2. Cell(cpu, b - 1) = [type |-> v.type, id |-> v.id, off |-> v.off - 1, size |-> v.size]
      BY <3>1, <2>3
    <3> QED BY <3>2
  <2>5. Cell(cpu, b - 1).off = u.size /\ Cell(cpu, b - 1).size = u.size
    <3>1. u.size \in 1 .. u.size
      BY <1>5, <1>6
    <3>2. Cell(cpu, t + u.size - 1) =
             [type |-> u.type, id |-> u.id, off |-> u.size, size |-> u.size]
      BY <3>1, <1>7
    <3>3. b - 1 = t + u.size - 1
      BY <1>1, <1>5
    <3> QED BY <3>2, <3>3
  <2> QED BY <2>2, <2>4, <2>5
<1> QED BY <1>2, <1>3, <1>4, <1>5, <1>6, <1>7, <1>8, <1>9 DEF AtRecord, u

\* What process_record is given is that record, put together from both ends of the
\* memory when it wraps.
LEMMA RecordRead ==
  ASSUME TypeOK, AtRecord
  PROVE  RecordAt(t) = Record(Cell(cpu, t).type, Cell(cpu, t).id, Cell(cpu, t).size)
<1> DEFINE u == Cell(cpu, t)
           n == u.size
           s == slot(t)
           f == IF n < Size - s THEN n ELSE Size - s
           A == [k \in 1 .. f |-> mem[cpu][s + k - 1]]
           B == [k \in 1 .. n - f |-> mem[cpu][k - 1]]
<1>1. /\ n \in Nat /\ n > 0 /\ n < Size /\ t \in Nat /\ cpu \in Cpus /\ Size \in Nat
      /\ s \in 0 .. Size - 1
  BY Locals, Sizes, SlotIn DEF AtRecord
<1>2. \A k \in 1 .. n :
        Cell(cpu, t + k - 1) = [type |-> u.type, id |-> u.id, off |-> k, size |-> n]
  BY DEF AtRecord
<1>3. RecordAt(t) = A \o B
  BY DEF RecordAt, Cell
<1>4. mem[cpu] \in [0 .. Size - 1 -> Unit]
  BY <1>1 DEF TypeOK, RingTypes
<1> HIDE DEF n, s, u
<1>5. f \in Nat /\ f > 0 /\ f <= n /\ (f = n \/ f = Size - s)
  BY <1>1
<1> HIDE DEF f
<1>6. \A k \in 1 .. f : slot(t + k - 1) = s + k - 1
  <2> TAKE k \in 1 .. f
  <2>1. k - 1 \in 0 .. Size - 1 /\ s + (k - 1) < Size /\ t + (k - 1) = t + k - 1
    BY <1>1, <1>5 DEF f
  <2>2. slot(t + (k - 1)) = s + (k - 1)
    BY <2>1, <1>1, SlotNext DEF s
  <2> QED BY <2>1, <2>2, <1>1
<1>7. \A k \in 1 .. n - f : slot(t + (k + f) - 1) = k - 1
  <2> TAKE k \in 1 .. n - f
  <2>1. f = Size - s
    BY <1>1, <1>5
  <2>2. /\ k + f - 1 \in 0 .. Size - 1 /\ s + (k + f - 1) >= Size
        /\ t + (k + f - 1) = t + (k + f) - 1
    BY <2>1, <1>1, <1>5
  <2>3. slot(t + (k + f - 1)) = s + (k + f - 1) - Size
    BY <2>2, <1>1, SlotNext DEF s
  <2> QED BY <2>1, <2>2, <2>3, <1>1, <1>5
<1>8. A \in Seq(Unit) /\ Len(A) = f /\ B \in Seq(Unit) /\ Len(B) = n - f
  <2>1. \A k \in 1 .. f : s + k - 1 \in 0 .. Size - 1
    BY <1>1, <1>5 DEF f
  <2>2. \A k \in 1 .. n - f : k - 1 \in 0 .. Size - 1
    BY <1>1, <1>5
  <2>3. A \in [1 .. f -> Unit]
    BY <2>1, <1>4
  <2>4. B \in [1 .. n - f -> Unit]
    BY <2>2, <1>4
  <2> HIDE DEF A, B
  <2>5. n - f \in Nat
    BY <1>1, <1>5
  <2> QED BY <2>3, <2>4, <2>5, <1>5
<1>9. \A k \in 1 .. f : A[k] = Cell(cpu, t + k - 1)
  BY <1>6 DEF Cell
<1>10. \A k \in 1 .. n - f : B[k] = Cell(cpu, t + (k + f) - 1)
  BY <1>7 DEF Cell
<1> HIDE DEF A, B
<1>11. /\ A \o B \in Seq(Unit) /\ Len(A \o B) = n
       /\ \A k \in 1 .. n : (A \o B)[k] = IF k <= f THEN A[k] ELSE B[k - f]
  <2>1. Len(A) + Len(B) = n
    BY <1>8, <1>1, <1>5
  <2> QED BY <2>1, <1>8, ConcatProperties
<1>12. \A k \in 1 .. n : (A \o B)[k] = Cell(cpu, t + k - 1)
  <2> TAKE k \in 1 .. n
  <2>1. CASE k <= f
    BY <2>1, <1>5, <1>9, <1>11
  <2>2. CASE ~ k <= f
    <3>1. k - f \in 1 .. n - f /\ (k - f) + f = k
      BY <2>2, <1>1, <1>5
    <3>2. B[k - f] = Cell(cpu, t + ((k - f) + f) - 1)
      BY <3>1, <1>10
    <3> QED BY <3>1, <3>2, <2>2, <1>11
  <2> QED BY <2>1, <2>2
<1> DEFINE W == A \o B
<1>13. W = [k \in 1 .. n |-> W[k]]
  <2> HIDE DEF W
  <2>1. W \in Seq(Unit) /\ Len(W) = n
    BY <1>11 DEF W
  <2> QED BY <2>1
<1> HIDE DEF W
<1>14. \A k \in 1 .. n : W[k] = [type |-> u.type, id |-> u.id, off |-> k, size |-> n]
  BY <1>2, <1>12 DEF W
<1>15. W = Record(u.type, u.id, n)
  BY <1>13, <1>14 DEF Record
<1> QED BY <1>3, <1>15 DEF W, u, n

-----------------------------------------------------------------------------
(* The steps, as the rest of the proof sees them.                          *)

\* A packet gets its record, or is dropped: there is no room, or no ring.
Write(c, n) ==
  /\ pkts < MaxPkts /\ head[c] = data_head[c] /\ Room(c, Output(c, n))
  /\ pkts' = pkts + 1
  /\ mem' = [mem EXCEPT ![c] = Written(@, head[c], Output(c, n))]
  /\ head' = [head EXCEPT ![c] = @ + Len(Output(c, n))]
  /\ rb_lost' = [rb_lost EXCEPT ![c] = 0]
  /\ UNCHANGED <<pc, attached, opened, unread, full, shared, local, output>>

Drop(c) ==
  /\ pkts < MaxPkts /\ pkts' = pkts + 1
  /\ \/ /\ rb_lost' = [rb_lost EXCEPT ![c] = @ + 1]
        /\ full' = [full EXCEPT ![c] = @ \cup {pkts + 1}]
        /\ UNCHANGED unread
     \/ unread' = unread \cup {pkts + 1} /\ UNCHANGED <<rb_lost, full>>
  /\ UNCHANGED <<pc, attached, opened, mem, head, shared, local, output>>

\* xdp_arqin_prog does one or the other.
LEMMA Arrives ==
  ASSUME NEW c \in Cpus, NEW n \in Lens, xdp_arqin_prog(c, n)
  PROVE  Write(c, n) \/ Drop(c)
BY Zenon DEF xdp_arqin_prog, perf_event_output, Write, Drop, ringK

\* The reader gives back what it has read, and stops or goes on.
TailStep ==
  /\ pc = "read" /\ pc' \in {"next", "killed"}
  /\ data_tail' = [data_tail EXCEPT ![cpu] = t]
  /\ h' = 0 /\ t' = 0
  /\ UNCHANGED <<hook, ringK, data_head, rb_poll, events, cpu, output>>

\* Both ways out of bpf_perf_event_read_simple write the tail.
LEMMA GivesBack == ring_buffer_write_tail \/ CopyFailed => TailStep
BY Zenon DEF ring_buffer_write_tail, CopyFailed, TailStep

\* The reader is not in a ring, before or after: nothing it could see has changed.
Quiet ==
  /\ pc \notin {"read", "exit"} /\ pc' # "read"
  /\ UNCHANGED <<pkts, unread, ringK, data_head, data_tail, cpu, h, t, output>>

\* These steps leave the rings alone.
LEMMA IsQuiet ==
  do_attach \/ perf_buffer__open_cpu_buf \/ epoll_wait \/ PollFailed => Quiet
BY Zenon DEF do_attach, perf_buffer__open_cpu_buf, epoll_wait, PollFailed, Quiet, hook, shared, local

\* A non-empty set of numbers has a least one.
LEMMA Least ==
  ASSUME NEW S, S \subseteq Nat, S # {}
  PROVE  \E x \in S : \A y \in S : x <= y
<1> DEFINE R == {ss \in Nat \X Nat : ss[1] < ss[2]}
<1>1. IsWellFoundedOn(R, Nat)
  BY NatLessThanWellFounded, Zenon DEF OpToRel
<1>2. \A x, y \in Nat : y < x => <<y, x>> \in R
  OBVIOUS
<1> HIDE DEF R
<1>3. PICK x \in S : \A y \in S : ~ (<<y, x>> \in R)
  BY <1>1, WFMin
<1>4. \A y \in S : x <= y
  <2> TAKE y \in S
  <2>1. x \in Nat /\ y \in Nat /\ ~ (y < x)
    BY <1>2, <1>3, Zenon
  <2> QED BY <2>1
<1> QED BY <1>4

\* The first CPU without a ring is one.
LEMMA MinIn ==
  ASSUME NEW S, S \subseteq Nat, S # {}
  PROVE  Min(S) \in S
BY Least DEF Min

-----------------------------------------------------------------------------
(* Types.                                                                  *)

\* A sequence over a set is one over a larger set.
LEMMA SeqLarger ==
  ASSUME NEW S, NEW T, S \subseteq T
  PROVE  Seq(S) \subseteq Seq(T)
BY SeqMonotonic

\* What is a set of earlier packets is one of packets.
LEMMA MorePackets ==
  ASSUME TypeOK, pkts' = pkts + 1, NEW c \in Cpus
  PROVE  /\ pkts + 1 \in 1 .. pkts' /\ unread \subseteq 1 .. pkts'
         /\ full \in [Cpus -> SUBSET (1 .. pkts')]
         /\ got \in [Cpus -> Seq(1 .. pkts')]
<1>1. pkts \in Nat
  BY Locals
<1>2. 1 .. pkts \subseteq 1 .. pkts' /\ pkts + 1 \in 1 .. pkts'
  BY <1>1
<1>3. Seq(1 .. pkts) \subseteq Seq(1 .. pkts')
  BY <1>2, SeqLarger
<1>4. full \in [Cpus -> SUBSET (1 .. pkts)] /\ got \in [Cpus -> Seq(1 .. pkts)]
  BY DEF TypeOK, RingTypes, ReaderTypes
<1>5. unread \subseteq 1 .. pkts
  BY DEF TypeOK, HookTypes
<1>6. full \in [Cpus -> SUBSET (1 .. pkts')]
  BY <1>2, <1>4
<1>7. got \in [Cpus -> Seq(1 .. pkts')]
  BY <1>3, <1>4
<1> QED BY <1>2, <1>5, <1>6, <1>7

\* Writing a record keeps the types, and a unit of the ring free.
LEMMA TypesWrite ==
  ASSUME TypeOK, NEW c \in Cpus, NEW n \in Lens, Write(c, n)
  PROVE  TypeOK'
<1> DEFINE O == Output(c, n)
<1>1. O \in Seq(Unit) /\ Len(O) \in Nat
  BY OutputUnits
<1>2. pkts \in Nat /\ MaxPkts \in Nat /\ pkts < MaxPkts /\ pkts' = pkts + 1
  BY Locals DEF Write
<1>3. HookTypes'
  BY <1>2, MorePackets DEF TypeOK, HookTypes, Write
<1>4. RingTypes'
  <2>1. mem \in [Cpus -> [0 .. Size - 1 -> Unit]] /\ head \in [Cpus -> Nat]
        /\ rb_lost \in [Cpus -> Nat]
    BY DEF TypeOK, RingTypes
  <2>2. /\ mem' = [mem EXCEPT ![c] = Written(mem[c], head[c], O)]
        /\ head' = [head EXCEPT ![c] = head[c] + Len(O)]
        /\ rb_lost' = [rb_lost EXCEPT ![c] = 0]
        /\ data_head' = data_head /\ data_tail' = data_tail /\ full' = full
    BY DEF Write, shared
  <2> HIDE DEF O
  <2>3. Written(mem[c], head[c], O) \in [0 .. Size - 1 -> Unit]
    BY SMTT(30), <2>1, <1>1, WrittenType
  <2>4. mem' \in [Cpus -> [0 .. Size - 1 -> Unit]]
    BY <2>1, <2>2, <2>3
  <2>5. head' \in [Cpus -> Nat] /\ rb_lost' \in [Cpus -> Nat]
    BY <2>1, <2>2, <1>1
  <2> QED BY <2>2, <2>4, <2>5, <1>2, MorePackets DEF TypeOK, RingTypes
<1>5. ReaderTypes'
  BY <1>2, MorePackets DEF TypeOK, ReaderTypes, Write, shared, local, output
<1>6. ASSUME NEW d \in Cpus
      PROVE  /\ data_tail'[d] <= data_head'[d] /\ data_head'[d] <= head'[d]
             /\ head'[d] - data_tail'[d] < Size
  <2>1. /\ data_tail' = data_tail /\ data_head' = data_head
        /\ head'[d] = IF d = c THEN head[d] + Len(O) ELSE head[d]
        /\ head[c] - data_tail[c] + Len(O) < Size
    BY DEF Write, shared, TypeOK, RingTypes, Room
  <2> HIDE DEF O
  <2> QED BY <2>1, <1>1, Positions, Sizes
<1> QED BY <1>3, <1>4, <1>5, <1>6 DEF TypeOK

\* Dropping a packet keeps the types.
LEMMA TypesDrop ==
  ASSUME TypeOK, NEW c \in Cpus, Drop(c)
  PROVE  TypeOK'
<1>1. pkts \in Nat /\ MaxPkts \in Nat /\ pkts < MaxPkts /\ pkts' = pkts + 1
  BY Locals DEF Drop
<1>2. HookTypes'
  <2>1. pc' \in Lines /\ attached' \in BOOLEAN /\ opened' \subseteq Cpus
    BY DEF TypeOK, HookTypes, Drop
  <2>2. unread \subseteq 1 .. pkts' /\ pkts + 1 \in 1 .. pkts'
    BY <1>1, MorePackets
  <2>3. unread' \subseteq 1 .. pkts'
    BY <2>2 DEF Drop
  <2>4. pkts' \in 0 .. MaxPkts
    BY <1>1
  <2> QED BY <2>1, <2>3, <2>4 DEF HookTypes
<1>3. rb_lost' \in [Cpus -> Nat] /\ full' \in [Cpus -> SUBSET (1 .. pkts')]
  <2>1. rb_lost \in [Cpus -> Nat] /\ full \in [Cpus -> SUBSET (1 .. pkts')] /\ pkts + 1 \in 1 .. pkts'
    BY <1>1, MorePackets DEF TypeOK, RingTypes
  <2> QED BY <2>1 DEF Drop
<1>4. RingTypes'
  BY <1>3 DEF TypeOK, RingTypes, Drop, shared
<1>5. ReaderTypes'
  BY <1>1, MorePackets DEF TypeOK, ReaderTypes, Drop, shared, local, output
<1> QED BY <1>2, <1>4, <1>5 DEF TypeOK, Drop, shared

\* Reading a record keeps the types.
LEMMA TypesRead ==
  ASSUME TypeOK, AtRecord, read_simple
  PROVE  TypeOK'
<1> DEFINE u == Cell(cpu, t)
<1>1. RecordAt(t) = Record(u.type, u.id, u.size)
  BY RecordRead
<1>2. /\ cpu \in Cpus /\ t \in Nat /\ h \in Nat /\ u.size \in Nat /\ u.size > 0 /\ u.id \in Nat
      /\ u.type \in {"sample", "lost"} /\ (u.type = "sample" => u.id \in 1 .. pkts)
  BY Locals DEF AtRecord
<1> HIDE DEF u
<1>3. /\ RecordAt(t) \in Seq(Unit) /\ Len(RecordAt(t)) = u.size
      /\ RecordAt(t)[1].type = u.type /\ RecordAt(t)[1].id = u.id
  BY <1>1, <1>2, RecordHead
<1>4. t' \in Nat
  BY <1>2, <1>3 DEF read_simple
<1>5. UNCHANGED <<pc, hook, ringK, shared, events, cpu, h>>
  BY DEF read_simple
<1>6. /\ sample' \in Seq(Unit) /\ got' \in [Cpus -> Seq(1 .. pkts)]
      /\ passed' \in [Cpus -> Nat]
  <2>0. /\ sample \in Seq(Unit) /\ got \in [Cpus -> Seq(1 .. pkts)]
        /\ passed \in [Cpus -> Nat]
    BY DEF TypeOK, ReaderTypes
  <2>1. CASE /\ RecordAt(t)[1].type = "sample" /\ sample' = RecordAt(t)
             /\ got' = [got EXCEPT ![cpu] = Append(@, RecordAt(t)[1].id)]
             /\ UNCHANGED passed
    <3>1. u.id \in 1 .. pkts
      BY <2>1, <1>2, <1>3
    <3>2. Append(got[cpu], u.id) \in Seq(1 .. pkts)
      BY <3>1, <2>0, <1>2, AppendProperties
    <3> QED BY <3>2, <2>0, <2>1, <1>3
  <2>2. CASE /\ RecordAt(t)[1].type = "lost"
             /\ passed' = [passed EXCEPT ![cpu] = @ + RecordAt(t)[1].id]
             /\ UNCHANGED <<sample, got>>
    BY <2>0, <2>2, <1>2, <1>3
  <2> QED BY <2>1, <2>2 DEF read_simple, process_record
<1>7. HookTypes' /\ RingTypes'
  BY <1>5 DEF TypeOK, HookTypes, RingTypes, hook, ringK, shared
<1>8. ReaderTypes'
  BY <1>4, <1>5, <1>6 DEF TypeOK, ReaderTypes, hook, shared
<1> QED BY <1>5, <1>7, <1>8 DEF TypeOK, hook, ringK, shared

\* Writing the tail keeps the types and the order of the positions.
LEMMA TypesTail ==
  ASSUME TypeOK, Bounds, TailStep
  PROVE  TypeOK'
<1>1. HookTypes'
  BY DEF TypeOK, HookTypes, TailStep, hook, Lines
<1>2. data_tail' \in [Cpus -> Nat] /\ cpu \in Cpus /\ t \in Nat
  BY Locals DEF TypeOK, RingTypes, TailStep
<1>3. RingTypes'
  BY <1>2 DEF TypeOK, RingTypes, TailStep, hook, ringK
<1>4. ReaderTypes'
  BY DEF TypeOK, ReaderTypes, TailStep, hook, output
<1>5. ASSUME NEW c \in Cpus
      PROVE  /\ data_tail'[c] <= data_head'[c] /\ data_head'[c] <= head'[c]
             /\ head'[c] - data_tail'[c] < Size
  <2>1. /\ data_tail[cpu] <= t /\ t <= h /\ h <= data_head[cpu] /\ h \in Nat
        /\ data_tail'[c] = IF c = cpu THEN t ELSE data_tail[c]
        /\ head' = head /\ data_head' = data_head
    BY <1>2, Locals DEF Bounds, TailStep, ringK, TypeOK, RingTypes
  <2> QED BY <2>1, <1>2, Positions, Sizes
<1> QED BY <1>1, <1>3, <1>4, <1>5 DEF TypeOK

\* So do attaching, opening the rings and polling; opening ends with every
\* ring.
LEMMA TypesQuiet ==
  ASSUME TypeOK, Opening,
         do_attach \/ perf_buffer__open_cpu_buf \/ epoll_wait \/ PollFailed
  PROVE  TypeOK' /\ Opening'
<1>1. Quiet
  BY IsQuiet
<1>2. pc' \in Lines /\ attached' \in BOOLEAN /\ opened' \subseteq Cpus /\ Opening'
  <2>1. CASE do_attach
    BY <2>1, PerfAssumption DEF do_attach, Opening, TypeOK, HookTypes, Lines
  <2>2. CASE perf_buffer__open_cpu_buf
    <3>1. pc = "open" /\ opened \subseteq Cpus /\ opened # Cpus /\ attached' = attached
          /\ attached \in BOOLEAN
      BY <2>2 DEF perf_buffer__open_cpu_buf, Opening, TypeOK, HookTypes
    <3>2. Cpus \ opened \subseteq Nat /\ Cpus \ opened # {}
      BY <3>1, PerfAssumption
    <3>3. Min(Cpus \ opened) \in Cpus
      BY <3>2, MinIn
    <3>4. CASE pc' = "exit" /\ Closed
      BY <3>1, <3>4 DEF Closed, Opening, Lines
    <3>5. CASE /\ opened' = opened \cup {Min(Cpus \ opened)}
               /\ pc' = IF opened' = Cpus THEN "poll" ELSE "open"
      BY <3>1, <3>3, <3>5 DEF Opening, Lines
    <3> QED BY <2>2, <3>4, <3>5 DEF perf_buffer__open_cpu_buf
  <2>3. CASE epoll_wait \/ PollFailed
    BY <2>3 DEF epoll_wait, PollFailed, Opening, TypeOK, HookTypes, Lines, hook
  <2> QED BY <2>1, <2>2, <2>3
<1>3. events' \subseteq Cpus /\ rb_poll' \in [Cpus -> BOOLEAN]
  <2>0. events \subseteq Cpus /\ rb_poll \in [Cpus -> BOOLEAN] /\ opened \subseteq Cpus
    BY DEF TypeOK, ReaderTypes, HookTypes
  <2>1. CASE do_attach
    BY <2>0, <2>1 DEF do_attach, shared, local
  <2>2. CASE perf_buffer__open_cpu_buf
    BY <2>0, <2>2 DEF perf_buffer__open_cpu_buf, Closed, shared
  <2>3. CASE epoll_wait
    <3>1. PICK ready \in SUBSET {c \in opened : rb_poll[c]} :
            /\ events' = ready
            /\ rb_poll' = [c \in Cpus |-> rb_poll[c] /\ c \notin ready]
      BY <2>3 DEF epoll_wait
    <3> QED BY <3>1, <2>0, Zenon
  <2>4. CASE PollFailed
    BY <2>0, <2>4 DEF PollFailed, shared, local
  <2> QED BY <2>1, <2>2, <2>3, <2>4
<1>4. HookTypes'
  BY <1>1, <1>2 DEF TypeOK, HookTypes, Quiet
<1>5. RingTypes'
  BY <1>1 DEF TypeOK, RingTypes, Quiet, ringK
<1>6. ReaderTypes'
  BY <1>1, <1>3 DEF TypeOK, ReaderTypes, Quiet, output
<1> QED BY <1>1, <1>2, <1>4, <1>5, <1>6 DEF TypeOK, Quiet, ringK

-----------------------------------------------------------------------------
(* The kernel writes a packet's record.                                    *)

\* In the ring c the units O are behind the old head, and what was not given back
\* is as it was; the other rings are as they were.
Extended(c, O) ==
  /\ head[c] = data_head[c] /\ data_head' = data_head /\ data_tail' = data_tail
  /\ head'[c] = head[c] + Len(O)
  /\ \A d \in Cpus \ {c} : head'[d] = head[d]
  /\ \A d \in Cpus : \A q \in Window(d) : Cell(d, q)' = Cell(d, q)
  /\ \A q \in head[c] .. head'[c] - 1 : Cell(c, q)' = O[q - head[c] + 1]
  /\ pkts' = pkts + 1
  /\ UNCHANGED <<pc, cpu, h, t, got, sample, full, unread, opened>>

\* That is what Write does.
LEMMA Extends ==
  ASSUME TypeOK, NEW c \in Cpus, NEW n \in Lens, Write(c, n)
  PROVE  Extended(c, Output(c, n))
<1> DEFINE O == Output(c, n)
<1>1. O \in Seq(Unit) /\ Len(O) \in Nat
  BY OutputUnits
<1>2. /\ mem \in [Cpus -> [0 .. Size - 1 -> Unit]] /\ head \in [Cpus -> Nat]
      /\ data_tail[c] \in Nat /\ data_tail[c] <= head[c] /\ head[c] \in Nat /\ Size \in Nat
  BY Positions, Sizes DEF TypeOK, RingTypes
<1>3. /\ mem' = [mem EXCEPT ![c] = Written(mem[c], head[c], O)]
      /\ head' = [head EXCEPT ![c] = head[c] + Len(O)]
      /\ head[c] - data_tail[c] + Len(O) < Size
  BY DEF Write, Room
<1> HIDE DEF O
<1>4. Len(O) < Size
  BY <1>1, <1>2, <1>3
<1>5. mem'[c] = Written(mem[c], head[c], O) /\ \A d \in Cpus \ {c} : mem'[d] = mem[d]
  BY <1>2, <1>3
<1>6. head'[c] = head[c] + Len(O) /\ \A d \in Cpus \ {c} : head'[d] = head[d]
  BY <1>2, <1>3
<1>7. ASSUME NEW q \in head[c] .. head'[c] - 1
      PROVE  Cell(c, q)' = O[q - head[c] + 1]
  <2>1. q \in Int /\ head[c] <= q /\ q < head[c] + Len(O)
    BY <1>1, <1>2, <1>6
  <2>2. Written(mem[c], head[c], O)[slot(q)] = O[q - head[c] + 1]
    BY SMTT(30), <2>1, <1>1, <1>2, <1>4, WrittenAt
  <2> QED BY <2>2, <1>5 DEF Cell
<1>8. ASSUME NEW q \in Window(c)
      PROVE  Cell(c, q)' = Cell(c, q)
  <2>1. q \in Int /\ head[c] + Len(O) - Size <= q /\ q < head[c]
    BY <1>1, <1>2, <1>3 DEF Window
  <2>2. Written(mem[c], head[c], O)[slot(q)] = mem[c][slot(q)]
    BY SMTT(30), <2>1, <1>1, <1>2, <1>4, WrittenAt
  <2> QED BY <2>2, <1>5 DEF Cell
<1>9. ASSUME NEW d \in Cpus, NEW q \in Window(d)
      PROVE  Cell(d, q)' = Cell(d, q)
  <2>1. CASE d = c
    BY <2>1, <1>8
  <2>2. CASE d # c
    BY <2>2, <1>5 DEF Cell
  <2> QED BY <2>1, <2>2
<1> QED BY <1>6, <1>7, <1>9 DEF Extended, Write, O, shared, local, output

\* A record that is all there stays so while nothing in the window is written and
\* the tail does not pass its beginning.
LEMMA WholeKept ==
  ASSUME TypeOK, NEW d \in Cpus, NEW p \in Window(d), Whole(d, p),
         pkts' \in Nat, pkts <= pkts', head'[d] \in Nat, head[d] <= head'[d],
         data_tail'[d] < p - Cell(d, p).off + 2,
         \A q \in Window(d) : Cell(d, q)' = Cell(d, q)
  PROVE  Whole(d, p)'
<1> DEFINE u == Cell(d, p)
<1>1. u' = u
  OBVIOUS
<1>2. /\ p \in Int /\ pkts \in Nat /\ head[d] \in Nat /\ data_tail[d] \in Nat
      /\ u.off \in Nat /\ u.size \in Nat
  BY Positions, Locals, CellType DEF Window
<1>3. /\ u.type \in {"sample", "lost"} /\ u.off \in 1 .. u.size
      /\ u.type = "sample" => u.id \in 1 .. pkts
      /\ data_tail[d] < p - u.off + 2 /\ p - u.off + u.size < head[d]
      /\ \A k \in 1 .. u.size :
           Cell(d, p - u.off + k) = [type |-> u.type, id |-> u.id, off |-> k, size |-> u.size]
  BY DEF Whole
<1> HIDE DEF u
<1>4. ASSUME NEW k \in 1 .. u.size
      PROVE  Cell(d, p - u.off + k)' =
               [type |-> u.type, id |-> u.id, off |-> k, size |-> u.size]
  <2> DEFINE q == p - u.off + k
  <2>1. q \in Window(d)
    BY <1>2, <1>3 DEF Window
  <2>2. Cell(d, q) = [type |-> u.type, id |-> u.id, off |-> k, size |-> u.size]
    BY <1>3
  <2>3. mem'[d][slot(q)] = Cell(d, q)
    BY <2>1 DEF Cell
  <2>4. (p - u.off + k)' = q
    BY <1>1
  <2> QED BY <2>2, <2>3, <2>4 DEF Cell
<1>5. u.type = "sample" => u.id \in 1 .. pkts'
  BY <1>2, <1>3
<1>6. p - u.off + u.size < head'[d]
  BY <1>2, <1>3
<1>7. data_tail'[d] < p - u.off + 2
  BY DEF u
<1> QED BY <1>1, <1>3, <1>4, <1>5, <1>6, <1>7 DEF Whole, u

\* The units of a packet's records, and where they went.
Adds(c, O) ==
  /\ O \in Seq(Unit) /\ Len(O) > 0 /\ Tiled(O) /\ O[1].off = 1 /\ Holds(O, pkts + 1)
  /\ Extended(c, O)

\* After it a position of the ring's window is an old one or one of the new units.
LEMMA WindowGrows ==
  ASSUME TypeOK, NEW c \in Cpus, NEW O, Adds(c, O), NEW d \in Cpus, NEW p \in Window(d)'
  PROVE  \/ p \in Window(d)
         \/ /\ d = c /\ p \in head[c] .. head'[c] - 1 /\ p - head[c] + 1 \in 1 .. Len(O)
            /\ Cell(c, p)' = O[p - head[c] + 1]
<1>1. /\ head[d] \in Nat /\ head[c] \in Nat /\ data_tail[d] \in Nat /\ Len(O) \in Nat
      /\ data_tail[d] <= head[d] /\ data_tail' = data_tail
      /\ head'[c] = head[c] + Len(O) /\ (d # c => head'[d] = head[d])
  BY Positions DEF Adds, Extended
<1>2. p \in data_tail[d] .. head'[d] - 1
  BY <1>1 DEF Window
<1>3. \A q \in head[c] .. head'[c] - 1 : Cell(c, q)' = O[q - head[c] + 1]
  BY DEF Adds, Extended
<1> QED BY SMTT(30), <1>1, <1>2, <1>3 DEF Window

\* The ring still holds whole records only.
LEMMA WriteRecords ==
  ASSUME TypeOK, TypeOK', Records, NEW c \in Cpus, NEW O, Adds(c, O)
  PROVE  Records'
<1> SUFFICES ASSUME NEW d \in Cpus, NEW p \in Window(d)' PROVE Whole(d, p)'
  BY DEF Records
<1>1. /\ head[d] \in Nat /\ head[c] \in Nat /\ data_tail[d] \in Nat /\ Len(O) \in Nat
      /\ data_tail[c] <= head[c]
      /\ data_tail[c] \in Nat /\ head'[d] \in Nat /\ pkts \in Nat /\ pkts' = pkts + 1
      /\ data_tail' = data_tail /\ head'[c] = head[c] + Len(O) /\ head[d] <= head'[d]
  <2>1. head[d] \in Nat /\ data_tail[d] \in Nat
    BY Positions
  <2>2. head[c] \in Nat /\ data_tail[c] \in Nat /\ data_tail[c] <= head[c]
    BY Positions
  <2>3. head'[d] \in Nat
    BY DEF TypeOK, RingTypes
  <2>4. /\ Len(O) \in Nat /\ pkts' = pkts + 1 /\ data_tail' = data_tail
        /\ head'[c] = head[c] + Len(O) /\ (d # c => head'[d] = head[d])
    BY DEF Adds, Extended
  <2> QED BY <2>1, <2>2, <2>3, <2>4, Locals
<1>2. CASE p \in Window(d)
  <2>1. Whole(d, p) /\ data_tail'[d] < p - Cell(d, p).off + 2
    BY <1>1, <1>2 DEF Records, Whole
  <2>2. \A q \in Window(d) : Cell(d, q)' = Cell(d, q)
    BY DEF Adds, Extended
  <2>3. pkts' \in Nat /\ pkts <= pkts'
    BY <1>1
  <2> QED BY <1>1, <1>2, <2>1, <2>2, <2>3, WholeKept
<1>3. CASE /\ d = c /\ p \in head[c] .. head'[c] - 1 /\ p - head[c] + 1 \in 1 .. Len(O)
           /\ Cell(c, p)' = O[p - head[c] + 1]
  <2> DEFINE j == p - head[c] + 1
             u == O[j]
  <2>1. j \in 1 .. Len(O) /\ Cell(d, p)' = u
    BY <1>3
  <2>2. /\ u.type \in {"sample", "lost"} /\ u.off \in 1 .. u.size
        /\ u.off <= j /\ j - u.off + u.size <= Len(O)
        /\ \A k \in 1 .. u.size :
             O[j - u.off + k] = [type |-> u.type, id |-> u.id, off |-> k, size |-> u.size]
    BY <2>1 DEF Adds, Tiled
  <2>3. u \in Unit /\ u.off \in Nat /\ u.size \in Nat
    <3>1. O \in Seq(Unit)
      BY DEF Adds
    <3>2. u \in Unit
      BY <3>1, <2>1, ElementOfSeq
    <3> QED BY <3>2 DEF Unit
  <2>4. u.type = "sample" => u.id \in 1 .. pkts'
    <3>1. u.type = "sample" => u.id = pkts + 1
      BY <2>1 DEF Adds, Holds
    <3> QED BY <3>1, <1>1
  <2>5. p \in Int /\ p = head[c] + j - 1
    BY <1>1, <1>3
  <2> HIDE DEF j, u
  <2> DEFINE a    == head[c]
             l    == Len(O)
             off  == u.off
             size == u.size
  <2>6. /\ a \in Int /\ l \in Int /\ off \in Int /\ size \in Int /\ j \in Int
        /\ off <= j /\ 1 <= off /\ off <= size /\ j - off + size <= l
        /\ p \in Int /\ p = a + j - 1
        /\ data_tail'[d] \in Int /\ data_tail'[d] <= a
        /\ head'[d] = a + l /\ head'[c] = a + l
    <3>1. a \in Int /\ l \in Int /\ off \in Int /\ size \in Int /\ j \in Int
      BY <1>1, <2>1, <2>3
    <3>2. off <= j /\ 1 <= off /\ off <= size /\ j - off + size <= l
      BY <2>2, <2>3
    <3>3. p \in Int /\ p = a + j - 1
      BY <2>5
    <3>4. data_tail'[d] = data_tail[c] /\ head'[d] = a + l /\ head'[c] = a + l
      BY <1>1, <1>3
    <3>5. data_tail'[d] \in Int /\ data_tail'[d] <= a
      BY <1>1, <3>4
    <3> QED BY <3>1, <3>2, <3>3, <3>4, <3>5
  <2> HIDE DEF a, l, off, size
  <2>7. data_tail'[d] < p - off + 2 /\ p - off + size < head'[d]
    BY <2>6
  <2>8. ASSUME NEW k \in 1 .. size
        PROVE  mem'[d][slot(p - off + k)] =
                 [type |-> u.type, id |-> u.id, off |-> k, size |-> u.size]
    <3> DEFINE q == p - off + k
    <3>1. q \in a .. head'[c] - 1 /\ q - a + 1 = j - off + k
      BY <2>6
    <3>2. O[j - off + k] = [type |-> u.type, id |-> u.id, off |-> k, size |-> u.size]
      BY <2>2 DEF off, size
    <3> HIDE DEF q
    <3>3. mem'[c][slot(q)] = O[q - a + 1]
      BY <3>1 DEF Adds, Extended, Cell, a
    <3> QED BY <3>1, <3>2, <3>3, <1>3 DEF q
  <2>9. mem'[d][slot(p)] = u
    BY <2>1 DEF Cell
  <2> QED BY <2>2, <2>4, <2>7, <2>8, <2>9 DEF Whole, Cell, off, size
<1> QED BY <1>2, <1>3, WindowGrows

\* Where a record began one begins still, and one begins at the old head.
LEMMA WriteBegins ==
  ASSUME TypeOK, NEW c \in Cpus, NEW O, Adds(c, O), NEW d \in Cpus, NEW b \in Int,
         data_tail[d] <= b, b <= head[d], Begins(d, b)
  PROVE  Begins(d, b)'
<1>1. /\ head[d] \in Nat /\ head[c] \in Nat /\ data_tail[d] \in Nat
      /\ Len(O) \in Nat /\ Len(O) > 0 /\ O[1].off = 1
      /\ head'[c] = head[c] + Len(O) /\ (d # c => head'[d] = head[d])
  BY Positions DEF Adds, Extended
<1> SUFFICES ASSUME b < head'[d] PROVE mem'[d][slot(b)].off = 1
  BY DEF Begins, Cell
<1>2. CASE b < head[d]
  <2>1. b \in Window(d)
    BY <1>1, <1>2 DEF Window
  <2>2. mem'[d][slot(b)] = Cell(d, b)
    BY <2>1 DEF Adds, Extended, Cell
  <2> QED BY <1>2, <2>2 DEF Begins
<1>3. CASE b = head[d]
  <2>1. d = c
    BY <1>1, <1>3
  <2>2. b \in head[c] .. head'[c] - 1 /\ b - head[c] + 1 = 1
    BY <1>1, <1>3, <2>1
  <2>3. mem'[c][slot(b)] = O[b - head[c] + 1]
    BY <2>2 DEF Adds, Extended, Cell
  <2> QED BY <2>1, <2>2, <2>3, <1>1
<1> QED BY <1>1, <1>2, <1>3

\* The positions of both sides are still where records begin.
LEMMA WriteBounds ==
  ASSUME TypeOK, Bounds, NEW c \in Cpus, NEW O, Adds(c, O)
  PROVE  Bounds'
<1>1. /\ data_tail' = data_tail /\ data_head' = data_head
      /\ pc' = pc /\ cpu' = cpu /\ h' = h /\ t' = t
  BY DEF Adds, Extended
<1>2. ASSUME NEW d \in Cpus PROVE Begins(d, data_head[d])'
  <2> DEFINE b == data_head[d]
  <2>1. b \in Int /\ data_tail[d] <= b /\ b <= head[d] /\ Begins(d, b)
    BY Positions DEF Bounds
  <2> HIDE DEF b
  <2>2. b < head'[d] => mem'[d][slot(b)].off = 1
    BY <2>1, WriteBegins DEF Begins, Cell
  <2> QED BY <2>2, <1>1 DEF Begins, Cell, b
<1>3. ASSUME pc = "read"
      PROVE  /\ data_tail[cpu] <= t /\ t <= h /\ h <= data_head[cpu]
             /\ (t < head'[cpu] => mem'[cpu][slot(t)].off = 1)
             /\ (h < head'[cpu] => mem'[cpu][slot(h)].off = 1)
  <2>1. /\ data_tail[cpu] <= t /\ t <= h /\ h <= data_head[cpu]
        /\ Begins(cpu, t) /\ Begins(cpu, h)
    BY <1>3 DEF Bounds
  <2>2. cpu \in Cpus /\ t \in Int /\ h \in Int
    BY Locals
  <2>3. data_tail[cpu] <= h /\ h <= head[cpu] /\ t <= head[cpu]
    BY <2>1, <2>2, Positions
  <2> DEFINE d == cpu
             bt == t
             bh == h
  <2>4. d \in Cpus /\ bt \in Int /\ bh \in Int /\ data_tail[d] <= bt /\ bt <= head[d]
        /\ data_tail[d] <= bh /\ bh <= head[d] /\ Begins(d, bt) /\ Begins(d, bh)
    BY <2>1, <2>2, <2>3
  <2> HIDE DEF d, bt, bh
  <2>5. bt < head'[d] => mem'[d][slot(bt)].off = 1
    BY <2>4, WriteBegins DEF Begins, Cell
  <2>6. bh < head'[d] => mem'[d][slot(bh)].off = 1
    BY <2>4, WriteBegins DEF Begins, Cell
  <2> QED BY <2>1, <2>5, <2>6 DEF d, bt, bh
<1> QED BY <1>1, <1>2, <1>3 DEF Bounds, Begins, Cell

\* What the reader has not read begins within the window.
LEMMA FromIn ==
  ASSUME TypeOK, Bounds, NEW c \in Cpus
  PROVE  /\ From(c) \in Nat /\ data_tail[c] <= From(c) /\ From(c) <= head[c]
         /\ \A p \in From(c) .. head[c] - 1 : p \in Window(c)
<1>1. data_tail[c] \in Nat /\ head[c] \in Nat /\ data_tail[c] <= head[c]
  BY Positions
<1>2. CASE pc = "read" /\ cpu = c
  <2>1. t \in Nat /\ data_tail[c] <= t /\ t <= head[c]
    BY <1>2, Positions, Locals DEF Bounds
  <2> QED BY <1>1, <1>2, <2>1 DEF From, Window
<1>3. CASE ~ (pc = "read" /\ cpu = c)
  BY <1>1, <1>3 DEF From, Window
<1> QED BY <1>2, <1>3

\* A packet whose record is among the new units is the one that came, and there is
\* one such record.
LEMMA NewPacket ==
  ASSUME TypeOK, NEW c \in Cpus, NEW O, Adds(c, O),
         NEW p \in head[c] .. head'[c] - 1, NEW q \in head[c] .. head'[c] - 1,
         p - head[c] + 1 \in 1 .. Len(O), q - head[c] + 1 \in 1 .. Len(O),
         Cell(c, p)' = O[p - head[c] + 1], Cell(c, q)' = O[q - head[c] + 1],
         Packet(c, p)', Packet(c, q)'
  PROVE  p = q /\ Cell(c, p)'.id = pkts + 1
<1> DEFINE i == p - head[c] + 1
           j == q - head[c] + 1
<1>1. head[c] \in Nat /\ p \in Int /\ q \in Int
  BY Positions
<1>2. PICK s \in 1 .. Len(O) :
        \A k \in 1 .. Len(O) :
          O[k].type = "sample" => O[k].id = pkts + 1 /\ (O[k].off = 1 => k = s)
  BY DEF Adds, Holds
<1>3. O[i].type = "sample" /\ O[i].off = 1 /\ O[j].type = "sample" /\ O[j].off = 1
  BY DEF Packet
<1>4. i = s /\ j = s /\ O[i].id = pkts + 1
  BY <1>2, <1>3
<1>5. p = q
  BY <1>1, <1>4
<1> QED BY <1>4, <1>5

\* The new packet is the last in its ring.
LEMMA WriteOrder ==
  ASSUME TypeOK, Records, Order, NEW c \in Cpus, NEW O, Adds(c, O)
  PROVE  Order'
<1> SUFFICES ASSUME NEW d \in Cpus, NEW p \in Window(d)', NEW q \in Window(d)',
                    p < q, Packet(d, p)', Packet(d, q)'
             PROVE  Cell(d, p)'.id < Cell(d, q)'.id
  BY DEF Order
<1>1. pkts \in Nat /\ head[c] \in Nat
  BY Positions, Locals
<1>2. \A r \in Window(d) : Cell(d, r)' = Cell(d, r)
  BY DEF Adds, Extended
<1>3. CASE p \in Window(d) /\ q \in Window(d)
  <2>1. Cell(d, p)' = Cell(d, p) /\ Cell(d, q)' = Cell(d, q)
    BY <1>2, <1>3
  <2>2. Packet(d, p) /\ Packet(d, q)
    BY <2>1 DEF Packet
  <2> QED BY <2>1, <2>2, <1>3 DEF Order
<1> DEFINE New(r) == /\ d = c /\ r \in head[c] .. head'[c] - 1
                     /\ r - head[c] + 1 \in 1 .. Len(O)
                     /\ Cell(c, r)' = O[r - head[c] + 1]
<1>4. CASE p \in Window(d) /\ New(q)
  <2>1. Cell(d, p)' = Cell(d, p)
    BY <1>2, <1>4
  <2>2. Cell(d, p).type = "sample"
    BY <2>1 DEF Packet
  <2>3. Cell(d, p).id \in 1 .. pkts
    BY <2>2, <1>4 DEF Records, Whole
  <2>4. Cell(d, q)'.id = pkts + 1
    BY <1>4, NewPacket
  <2> QED BY <2>1, <2>3, <2>4, <1>1
<1>5. CASE New(p) /\ q \in Window(d)
  <2>1. p \in Int /\ q \in Int /\ head[c] <= p /\ q < head[c]
    BY <1>1, <1>5, Positions DEF Window
  <2> QED BY <2>1, <1>1
<1>6. CASE New(p) /\ New(q)
  <2>1. p = q
    BY <1>6, NewPacket
  <2>2. p \in Int
    BY <1>6, <1>1
  <2> QED BY <2>1, <2>2
<1>7. (p \in Window(d) \/ New(p)) /\ (q \in Window(d) \/ New(q))
  BY WindowGrows
<1> HIDE DEF New
<1> QED BY <1>3, <1>4, <1>5, <1>6, <1>7

\* The callback has not had it.
LEMMA WriteFresh ==
  ASSUME TypeOK, TypeOK', Bounds, Bounds', Fresh, NEW c \in Cpus, NEW O, Adds(c, O)
  PROVE  Fresh'
<1>0. /\ pc' = pc /\ cpu' = cpu /\ t' = t /\ got' = got /\ data_tail' = data_tail
  BY DEF Adds, Extended
<1> SUFFICES ASSUME pc # "exit", NEW d \in Cpus, NEW p \in (From(d) .. head[d] - 1)',
                    Packet(d, p)', NEW j \in 1 .. Len(got[d])
             PROVE  got[d][j] < Cell(d, p)'.id
  BY <1>0 DEF Fresh
<1>1. From(d)' = From(d)
  BY <1>0 DEF From
<1>2. p \in Window(d)'
  <2>1. From(d) \in Nat /\ data_tail[d] \in Nat /\ data_tail[d] <= From(d)
    BY FromIn, Positions
  <2>2. p \in From(d) .. head'[d] - 1 /\ head'[d] \in Nat
    BY <1>1 DEF TypeOK, RingTypes
  <2> QED BY <2>1, <2>2, <1>0 DEF Window
<1>3. CASE p \in Window(d)
  <2>1. Cell(d, p)' = Cell(d, p)
    BY <1>3 DEF Adds, Extended
  <2>2. Packet(d, p)
    BY <2>1 DEF Packet
  <2>3. p \in From(d) .. head[d] - 1
    BY <1>1, <1>3, FromIn, Positions DEF Window
  <2> QED BY <2>1, <2>2, <2>3 DEF Fresh
<1>4. CASE /\ d = c /\ p \in head[c] .. head'[c] - 1 /\ p - head[c] + 1 \in 1 .. Len(O)
           /\ Cell(c, p)' = O[p - head[c] + 1]
  <2>1. Cell(d, p)'.id = pkts + 1
    BY <1>4, NewPacket
  <2>2. got[d][j] \in 1 .. pkts /\ pkts \in Nat
    <3>1. got[d] \in Seq(1 .. pkts)
      BY DEF TypeOK, ReaderTypes
    <3> QED BY <3>1, ElementOfSeq, Locals
  <2> QED BY <2>1, <2>2
<1> QED BY <1>2, <1>3, <1>4, WindowGrows

\* It waits in the ring, and the others are where they were.
LEMMA WriteAccounted ==
  ASSUME TypeOK, Bounds, Accounted, NEW c \in Cpus, NEW O, Adds(c, O)
  PROVE  Accounted'
<1>0. /\ pc' = pc /\ cpu' = cpu /\ t' = t /\ got' = got /\ data_tail' = data_tail
      /\ pkts' = pkts + 1 /\ unread' = unread /\ full' = full /\ pkts \in Nat
      /\ head[c] \in Nat /\ head'[c] = head[c] + Len(O) /\ Len(O) \in Nat
  BY Positions, Locals DEF Adds, Extended
<1>1. \A d \in Cpus : From(d)' = From(d)
  BY <1>0 DEF From
<1> SUFFICES ASSUME NEW n \in 1 .. pkts' PROVE Given(n)' \/ InRing(n)' \/ Dropped(n)'
  BY DEF Accounted
<1>2. CASE n \in 1 .. pkts
  <2>1. CASE Given(n)
    BY <2>1, <1>0 DEF Given
  <2>2. CASE Dropped(n)
    BY <2>2, <1>0 DEF Dropped
  <2>3. CASE InRing(n)
    <3>0. PICK d \in Cpus : \E p \in From(d) .. head[d] - 1 : Packet(d, p) /\ Cell(d, p).id = n
      BY <2>3 DEF InRing
    <3>1. PICK p \in From(d) .. head[d] - 1 : Packet(d, p) /\ Cell(d, p).id = n
      BY <3>0
    <3>2. p \in Window(d)
      BY <3>1, FromIn
    <3>3. Cell(d, p)' = Cell(d, p)
      BY <3>2 DEF Adds, Extended
    <3>4. p \in From(d)' .. head'[d] - 1
      <4>1. head[d] \in Nat /\ From(d) \in Nat /\ (d # c => head'[d] = head[d])
        BY Positions, FromIn DEF Adds, Extended
      <4> QED BY <4>1, <3>1, <1>0, <1>1
    <3>5. Packet(d, p)' /\ Cell(d, p)'.id = n
      BY <3>1, <3>3 DEF Packet
    <3> QED BY <3>4, <3>5 DEF InRing
  <2> QED BY <2>1, <2>2, <2>3, <1>2 DEF Accounted
<1>3. CASE n = pkts + 1
  <2>1. PICK s \in 1 .. Len(O) :
          O[s].type = "sample" /\ O[s].off = 1 /\ O[s].id = pkts + 1
    BY DEF Adds, Holds
  <2> DEFINE p == head[c] + s - 1
  <2>2. p \in head[c] .. head'[c] - 1 /\ p - head[c] + 1 = s
    BY <1>0
  <2> HIDE DEF p
  <2>3. mem'[c][slot(p)] = O[s]
    BY <2>2 DEF Adds, Extended, Cell
  <2>4. p \in From(c)' .. head'[c] - 1
    BY <2>2, <1>0, <1>1, FromIn
  <2> QED BY <2>1, <2>3, <2>4, <1>3 DEF InRing, Packet, Cell
<1> QED BY <1>0, <1>2, <1>3

-----------------------------------------------------------------------------
(* Each step keeps the invariant.                                          *)

\* A packet's record is written.
LEMMA StepWrite ==
  ASSUME IInv, NEW c \in Cpus, NEW n \in Lens, Write(c, n)
  PROVE  IInv'
<1>0. /\ TypeOK /\ Opening /\ Records /\ Bounds /\ Order /\ Fresh
      /\ SampleIntact /\ ReadInOrder /\ Accounted
  BY DEF IInv, Rings
<1>1. Adds(c, Output(c, n))
  BY <1>0, OutputUnits, Extends DEF Adds
<1>2. TypeOK'
  BY <1>0, TypesWrite
<1>3. Records' /\ Bounds' /\ Order'
  BY <1>0, <1>1, <1>2, WriteRecords, WriteBounds, WriteOrder
<1>4. Fresh' /\ Accounted'
  BY <1>0, <1>1, <1>2, <1>3, WriteFresh, WriteAccounted
<1>5. Opening' /\ SampleIntact' /\ ReadInOrder'
  BY <1>0 DEF Write, Opening, SampleIntact, ReadInOrder, output
<1> QED BY <1>2, <1>3, <1>4, <1>5 DEF IInv, Rings

\* What only depends on the rings and on where the reader is.
LEMMA RingsSame ==
  ASSUME IInv, pkts' \in Nat, pkts <= pkts',
         UNCHANGED <<pc, opened, mem, head, data_head, data_tail, cpu, h, t, sample, got>>
  PROVE  Opening' /\ Rings' /\ Fresh' /\ SampleIntact' /\ ReadInOrder'
<1>0. /\ TypeOK /\ Opening /\ Records /\ Bounds /\ Order /\ Fresh
      /\ SampleIntact /\ ReadInOrder
  BY DEF IInv, Rings
<1>1. Opening' /\ SampleIntact' /\ ReadInOrder'
  BY <1>0 DEF Opening, SampleIntact, ReadInOrder
<1>2. \A c \in Cpus : Window(c)' = Window(c)
  BY DEF Window
<1>3. \A c, p : Cell(c, p)' = Cell(c, p) /\ Packet(c, p)' = Packet(c, p)
  BY DEF Cell, Packet
<1>4. Records'
  <2> SUFFICES ASSUME NEW c \in Cpus, NEW p \in Window(c) PROVE Whole(c, p)'
    BY <1>2 DEF Records
  <2>1. Whole(c, p) /\ data_tail'[c] < p - Cell(c, p).off + 2
    BY <1>0 DEF Records, Whole
  <2>2. head'[c] \in Nat /\ head[c] <= head'[c]
    BY <1>0, Positions
  <2> QED BY <1>0, <1>3, <2>1, <2>2, WholeKept
<1>5. Bounds'
  BY <1>0 DEF Bounds, Begins, Cell
<1>6. Order'
  BY <1>0, <1>2, <1>3 DEF Order
<1>7. Fresh'
  BY <1>0 DEF Fresh, From, Packet, Cell
<1> QED BY <1>1, <1>4, <1>5, <1>6, <1>7 DEF Rings

\* A packet is dropped, with its loss counted or with no ring.
LEMMA StepDrop ==
  ASSUME IInv, NEW c \in Cpus, Drop(c)
  PROVE  IInv'
<1>0. TypeOK /\ Accounted
  BY DEF IInv
<1>1. /\ UNCHANGED <<pc, opened, mem, head, data_head, data_tail, cpu, h, t, sample, got>>
      /\ pkts' = pkts + 1 /\ pkts \in Nat
  BY <1>0, Locals DEF Drop, shared, local, output
<1>2. TypeOK'
  BY <1>0, TypesDrop
<1>3. Opening' /\ Rings' /\ Fresh' /\ SampleIntact' /\ ReadInOrder'
  <2>1. pkts' \in Nat /\ pkts <= pkts'
    BY <1>1
  <2> QED BY <1>1, <2>1, RingsSame
<1>4. ASSUME NEW n \in 1 .. pkts' PROVE Given(n)' \/ InRing(n)' \/ Dropped(n)'
  <2>1. CASE n \in 1 .. pkts
    <3>1. Given(n) => Given(n)'
      BY <1>1 DEF Given
    <3>2. InRing(n) => InRing(n)'
      BY <1>1 DEF InRing, From, Packet, Cell
    <3>3. Dropped(n) => Dropped(n)'
      BY <1>0 DEF Dropped, Drop, TypeOK, RingTypes
    <3> QED BY <3>1, <3>2, <3>3, <2>1, <1>0 DEF Accounted
  <2>2. CASE n = pkts + 1
    BY <2>2, <1>0 DEF Dropped, Drop, TypeOK, RingTypes
  <2> QED BY <2>1, <2>2, <1>1
<1>5. Accounted'
  BY <1>4 DEF Accounted
<1> QED BY <1>2, <1>3, <1>5 DEF IInv

\* perf_output_end publishes the head.
LEMMA StepPublish ==
  ASSUME IInv, NEW c \in Cpus, perf_output_end(c)
  PROVE  IInv'
<1>0. /\ TypeOK /\ Opening /\ Records /\ Bounds /\ Order /\ Fresh
      /\ SampleIntact /\ ReadInOrder /\ Accounted
  BY DEF IInv, Rings
<1>1. /\ data_head' = [data_head EXCEPT ![c] = head[c]]
      /\ rb_poll' = [rb_poll EXCEPT ![c] = TRUE]
      /\ UNCHANGED <<pc, attached, opened, pkts, unread, mem, head, rb_lost, full>>
      /\ UNCHANGED <<data_tail, events, cpu, h, t, sample, got, passed>>
  BY DEF perf_output_end, hook, ringK, local, output
<1>2. HookTypes' /\ RingTypes' /\ ReaderTypes'
  BY <1>0, <1>1 DEF TypeOK, HookTypes, RingTypes, ReaderTypes
<1>3. \A d \in Cpus : data_head'[d] = IF d = c THEN head[d] ELSE data_head[d]
  BY <1>0, <1>1 DEF TypeOK, RingTypes
<1>4. ASSUME NEW d \in Cpus
      PROVE  /\ data_tail[d] <= data_head'[d] /\ data_head'[d] <= head[d]
             /\ head[d] - data_tail[d] < Size /\ data_head[d] <= data_head'[d]
             /\ data_head'[d] \in Nat
             /\ (data_head'[d] < head[d] => Cell(d, data_head[d]).off = 1
                                              /\ data_head'[d] = data_head[d])
  BY <1>0, <1>3, Positions DEF Bounds, Begins
<1>5. TypeOK'
  BY <1>1, <1>2, <1>4 DEF TypeOK
<1>6. Bounds'
  <2>1. ASSUME NEW d \in Cpus PROVE Begins(d, data_head[d])'
    BY <1>1, <1>4 DEF Begins, Cell
  <2>2. pc = "read" => h <= data_head'[cpu]
    <3>1. cpu \in Cpus /\ h \in Nat /\ (pc = "read" => h <= data_head[cpu])
      BY <1>0, Locals DEF Bounds
    <3>2. data_head[cpu] \in Nat
      BY <1>0, <3>1, Positions
    <3> QED BY <3>1, <3>2, <1>4
  <2>3. pc = "read" => /\ data_tail[cpu] <= t /\ t <= h
                       /\ Begins(cpu, t)' /\ Begins(cpu, h)'
    BY <1>0, <1>1 DEF Bounds, Begins, Cell
  <2> QED BY <2>1, <2>2, <2>3, <1>1 DEF Bounds
<1>7. Records' /\ Order' /\ Opening' /\ SampleIntact' /\ ReadInOrder'
  BY <1>0, <1>1 DEF Records, Order, Whole, Window, Packet, Cell, Opening, SampleIntact, ReadInOrder
<1>8. Fresh'
  BY <1>0, <1>1 DEF Fresh, From, Packet, Cell
<1>9. Accounted'
  BY <1>0, <1>1 DEF From, Packet, Cell, Accounted, Given, InRing, Dropped
<1> QED BY <1>5, <1>6, <1>7, <1>8, <1>9 DEF IInv, Rings

\* The reader moves and the rings stay: what is in them and to whom it went is the
\* same, as long as what it has read in them is.
LEMMA ReaderMoves ==
  ASSUME IInv, pc # "exit",
         UNCHANGED <<pkts, unread, full, mem, head, data_head, data_tail, sample, got>>,
         \A c \in Cpus : From(c)' = From(c)
  PROVE  Records' /\ Order' /\ Fresh' /\ SampleIntact' /\ ReadInOrder' /\ Accounted'
<1>0. Records /\ Order /\ Fresh /\ SampleIntact /\ ReadInOrder /\ Accounted
  BY DEF IInv, Rings
<1>1. Records' /\ Order' /\ SampleIntact' /\ ReadInOrder'
  BY <1>0 DEF Records, Order, Whole, Window, Packet, Cell, SampleIntact, ReadInOrder
<1>2. Fresh'
  BY <1>0 DEF Fresh, Packet, Cell
<1>3. Accounted'
  BY <1>0 DEF Accounted, Given, InRing, Dropped, Packet, Cell
<1> QED BY <1>1, <1>2, <1>3

\* The reader attaches, opens or polls.
LEMMA StepQuiet ==
  ASSUME IInv, do_attach \/ perf_buffer__open_cpu_buf \/ epoll_wait \/ PollFailed
  PROVE  IInv'
<1>0. TypeOK /\ Opening /\ Bounds
  BY DEF IInv, Rings
<1>1. Quiet
  BY IsQuiet
<1>2. TypeOK' /\ Opening'
  BY <1>0, TypesQuiet
<1>3. /\ pc # "read" /\ pc # "exit" /\ pc' # "read"
      /\ UNCHANGED <<pkts, unread, full, mem, head, data_head, data_tail, sample, got>>
  BY <1>1 DEF Quiet, ringK, output
<1>4. \A c \in Cpus : From(c)' = From(c)
  BY <1>3 DEF From
<1>5. Records' /\ Order' /\ Fresh' /\ SampleIntact' /\ ReadInOrder' /\ Accounted'
  BY <1>3, <1>4, ReaderMoves
<1>6. Bounds'
  BY <1>0, <1>3 DEF Bounds, Begins, Cell
<1> QED BY <1>2, <1>5, <1>6 DEF IInv, Rings

\* The reader turns to a ring: what it finds at data_tail is a record's
\* beginning.
LEMMA StepNextRing ==
  ASSUME IInv, NextRing
  PROVE  IInv'
<1>0. TypeOK /\ Opening /\ Records /\ Bounds
  BY DEF IInv, Rings
<1>1. /\ pc = "next"
      /\ UNCHANGED <<attached, opened, pkts, unread, mem, head, rb_lost, full>>
      /\ UNCHANGED <<data_head, data_tail, rb_poll, sample, got, passed>>
  BY DEF NextRing, hook, ringK, shared, output
<1>2. CASE \E c \in events :
             /\ cpu' = c /\ events' = events \ {c}
             /\ h' = data_head[c] /\ t' = data_tail[c] /\ pc' = "read"
  <2>1. PICK c \in events : /\ cpu' = c /\ events' = events \ {c}
                            /\ h' = data_head[c] /\ t' = data_tail[c] /\ pc' = "read"
    BY <1>2
  <2>2. c \in Cpus
    BY <1>0 DEF TypeOK, ReaderTypes
  <2>3. /\ data_tail[c] \in Nat /\ data_head[c] \in Nat /\ head[c] \in Nat
        /\ data_tail[c] <= data_head[c] /\ data_head[c] <= head[c]
    BY <1>0, <2>2, Positions
  <2>4. HookTypes' /\ RingTypes' /\ ReaderTypes'
    BY <1>0, <1>1, <2>1, <2>2, <2>3 DEF TypeOK, HookTypes, RingTypes, ReaderTypes, Lines
  <2>5. TypeOK'
    BY <1>0, <1>1, <2>4 DEF TypeOK
  <2>6. \A d \in Cpus : From(d)' = From(d)
    BY <1>1, <2>1 DEF From
  <2>7. Records' /\ Order' /\ Fresh' /\ SampleIntact' /\ ReadInOrder' /\ Accounted'
    BY <1>1, <2>6, ReaderMoves
  <2>8. data_tail[c] < head[c] => Cell(c, data_tail[c]).off = 1
    <3> DEFINE p == data_tail[c]
    <3> SUFFICES ASSUME p < head[c] PROVE Cell(c, p).off = 1
      OBVIOUS
    <3>1. p \in Window(c) /\ p \in Int
      BY <2>3 DEF Window
    <3>2. Cell(c, p).off \in Nat /\ Cell(c, p).size \in Nat
      BY <1>0, <2>2, <3>1, CellType
    <3>3. Cell(c, p).off \in 1 .. Cell(c, p).size /\ data_tail[c] < p - Cell(c, p).off + 2
      BY <1>0, <2>2, <3>1 DEF Records, Whole
    <3> QED BY <2>3, <3>2, <3>3
  <2>9. Bounds'
    <3>1. \A d \in Cpus : Begins(d, data_head[d])'
      BY <1>0, <1>1 DEF Bounds, Begins, Cell
    <3>2. Begins(cpu, h)'
      BY <1>0, <1>1, <2>1, <2>2 DEF Bounds, Begins, Cell
    <3>3. Begins(cpu, t)'
      BY <1>1, <2>1, <2>8 DEF Begins, Cell
    <3> QED BY <1>1, <2>1, <2>3, <3>1, <3>2, <3>3 DEF Bounds
  <2>10. Opening'
    BY <2>1 DEF Opening
  <2> QED BY <2>5, <2>7, <2>9, <2>10 DEF IInv, Rings
<1>3. CASE events = {} /\ pc' = "poll" /\ UNCHANGED <<events, cpu, h, t>>
  <2>1. HookTypes' /\ RingTypes' /\ ReaderTypes'
    BY <1>0, <1>1, <1>3 DEF TypeOK, HookTypes, RingTypes, ReaderTypes, Lines
  <2>2. TypeOK' /\ Opening'
    BY <1>0, <1>1, <1>3, <2>1 DEF TypeOK, Opening
  <2>3. \A d \in Cpus : From(d)' = From(d)
    BY <1>1, <1>3 DEF From
  <2>4. Records' /\ Order' /\ Fresh' /\ SampleIntact' /\ ReadInOrder' /\ Accounted'
    BY <1>1, <2>3, ReaderMoves
  <2>5. Bounds'
    BY <1>0, <1>1, <1>3 DEF Bounds, Begins, Cell
  <2> QED BY <2>2, <2>4, <2>5 DEF IInv, Rings
<1> QED BY <1>2, <1>3 DEF NextRing

\* The reader gives back what it has read: no record is cut.
LEMMA StepTail ==
  ASSUME IInv, TailStep
  PROVE  IInv'
<1>0. /\ TypeOK /\ Opening /\ Records /\ Bounds /\ Order /\ Fresh
      /\ SampleIntact /\ ReadInOrder /\ Accounted
  BY DEF IInv, Rings
<1>1. /\ pc = "read" /\ pc' \notin {"read", "attach", "open", "exit"}
      /\ data_tail' = [data_tail EXCEPT ![cpu] = t]
      /\ UNCHANGED <<pkts, unread, full, mem, head, data_head, cpu, sample, got>>
  BY DEF TailStep, hook, ringK, output
<1>2. TypeOK'
  BY <1>0, TypesTail
<1>3. /\ cpu \in Cpus /\ t \in Nat /\ data_tail[cpu] <= t /\ Begins(cpu, t)
      /\ \A d \in Cpus : data_tail'[d] = IF d = cpu THEN t ELSE data_tail[d]
  BY <1>0, <1>1, Locals DEF Bounds, TypeOK, RingTypes
<1>4. \A d \in Cpus : From(d)' = From(d)
  BY <1>1, <1>3 DEF From
<1>5. \A d \in Cpus : \A p \in Window(d)' : p \in Window(d) /\ (d = cpu => t <= p)
  BY <1>0, <1>1, <1>3, Positions DEF Window
<1>6. Records'
  <2> SUFFICES ASSUME NEW d \in Cpus, NEW p \in Window(d)' PROVE Whole(d, p)'
    BY DEF Records
  <2> DEFINE u == Cell(d, p)
  <2>1. p \in Window(d) /\ (d = cpu => t <= p)
    BY <1>5
  <2>2. Whole(d, p)
    BY <1>0, <2>1 DEF Records
  <2>3. /\ u.off \in 1 .. u.size /\ u.off \in Nat /\ u.size \in Nat
        /\ p \in Int /\ p < head[d] /\ head[d] \in Nat /\ data_tail[d] < p - u.off + 2
        /\ \A k \in 1 .. u.size : Cell(d, p - u.off + k).off = k
    <3>1. p \in Int /\ p < head[d] /\ head[d] \in Nat
      BY <1>0, <2>1, Positions DEF Window
    <3>2. u.off \in Nat /\ u.size \in Nat
      BY <1>0, <3>1, CellType
    <3>3. u.off \in 1 .. u.size /\ data_tail[d] < p - u.off + 2
      BY <2>2 DEF Whole
    <3>4. \A k \in 1 .. u.size : Cell(d, p - u.off + k) =
             [type |-> u.type, id |-> u.id, off |-> k, size |-> u.size]
      BY <2>2 DEF Whole
    <3> HIDE DEF u
    <3>5. \A k \in 1 .. u.size : Cell(d, p - u.off + k).off = k
      <4> TAKE k \in 1 .. u.size
      <4>1. Cell(d, p - u.off + k) = [type |-> u.type, id |-> u.id, off |-> k, size |-> u.size]
        BY <3>4
      <4> QED BY <4>1
    <3> QED BY <3>1, <3>2, <3>3, <3>5
  <2> HIDE DEF u
  <2>4. data_tail'[d] < p - u.off + 2
    <3>1. CASE d = cpu
      <4> SUFFICES ASSUME ~ t < p - u.off + 2 PROVE FALSE
        BY <3>1, <1>3
      <4> DEFINE k == t - p + u.off
      <4>1. k \in 1 .. u.size /\ k > 1 /\ p - u.off + k = t /\ t < head[cpu]
        BY <1>3, <2>1, <2>3, <3>1
      <4> HIDE DEF k
      <4>2. Cell(cpu, t).off = k
        BY <2>3, <3>1, <4>1
      <4>3. Cell(cpu, t).off = 1
        BY <1>3, <4>1 DEF Begins
      <4> QED BY <4>1, <4>2, <4>3
    <3>2. CASE d # cpu
      BY <3>2, <1>3, <2>3
    <3> QED BY <3>1, <3>2
  <2>5. \A q \in Window(d) : Cell(d, q)' = Cell(d, q)
    BY <1>1 DEF Cell
  <2>6. pkts' \in Nat /\ pkts <= pkts' /\ head'[d] \in Nat /\ head[d] <= head'[d]
    BY <1>0, <1>1, <2>3, Locals
  <2> QED BY <1>0, <2>1, <2>2, <2>4, <2>5, <2>6, WholeKept DEF u
<1>7. Order'
  <2> SUFFICES ASSUME NEW d \in Cpus, NEW p \in Window(d)', NEW q \in Window(d)',
                      p < q, Packet(d, p)', Packet(d, q)'
               PROVE  Cell(d, p)'.id < Cell(d, q)'.id
    BY DEF Order
  <2>1. p \in Window(d) /\ q \in Window(d)
    BY <1>5
  <2> QED BY <2>1, <1>0, <1>1 DEF Order, Packet, Cell
<1>8. Bounds'
  BY <1>0, <1>1 DEF Bounds, Begins, Cell
<1>9. Opening' /\ SampleIntact' /\ ReadInOrder'
  BY <1>0, <1>1 DEF Opening, SampleIntact, ReadInOrder
<1>10. Fresh'
  BY <1>0, <1>1, <1>4 DEF Fresh, Packet, Cell
<1>11. Accounted'
  BY <1>0, <1>1, <1>4 DEF Accounted, Given, InRing, Dropped, Packet, Cell
<1> QED BY <1>2, <1>6, <1>7, <1>8, <1>9, <1>10, <1>11 DEF IInv, Rings

\* The signal handler ends the reader; what it had read but not given back
\* waits again.
LEMMA StepSignal ==
  ASSUME IInv, sig_handler
  PROVE  IInv'
<1>0. /\ TypeOK /\ Records /\ Bounds /\ Order /\ SampleIntact /\ ReadInOrder /\ Accounted
  BY DEF IInv, Rings
<1>1. /\ pc' = "exit" /\ attached' \in {FALSE, attached} /\ opened' = {} /\ events' = {}
      /\ h' = 0 /\ t' = 0
      /\ UNCHANGED <<pkts, unread, mem, head, rb_lost, full, data_head, data_tail, rb_poll>>
      /\ UNCHANGED <<cpu, sample, got, passed>>
  BY DEF sig_handler, Closed, ringK, shared, output
<1>2. HookTypes' /\ RingTypes' /\ ReaderTypes'
  BY <1>0, <1>1 DEF TypeOK, HookTypes, RingTypes, ReaderTypes, Lines
<1>3. TypeOK' /\ Opening'
  BY <1>0, <1>1, <1>2 DEF TypeOK, Opening
<1>4. Records' /\ Order' /\ SampleIntact' /\ ReadInOrder'
  BY <1>0, <1>1 DEF Records, Order, Whole, Window, Packet, Cell, SampleIntact, ReadInOrder
<1>5. Bounds' /\ Fresh'
  BY <1>0, <1>1 DEF Bounds, Begins, Cell, Fresh
<1>6. Accounted'
  <2>1. ASSUME NEW n, InRing(n) PROVE InRing(n)'
    <3>1. PICK d \in Cpus : \E p \in From(d) .. head[d] - 1 : Packet(d, p) /\ Cell(d, p).id = n
      BY <2>1 DEF InRing
    <3>2. PICK p \in From(d) .. head[d] - 1 : Packet(d, p) /\ Cell(d, p).id = n
      BY <3>1
    <3>3. p \in Window(d)
      BY <1>0, FromIn
    <3>4. From(d)' = data_tail[d] /\ head'[d] = head[d]
      BY <1>1 DEF From
    <3>5. p \in (From(d) .. head[d] - 1)'
      BY <3>3, <3>4 DEF Window
    <3> QED BY <3>2, <3>5, <1>1 DEF InRing, Packet, Cell
  <2> QED BY <2>1, <1>0, <1>1 DEF Accounted, Given, Dropped
<1> QED BY <1>3, <1>4, <1>5, <1>6 DEF IInv, Rings

\* After a packet's record was read it is the last one the callback has had.
LEMMA AppendGot ==
  ASSUME NEW S, NEW seq \in Seq(S), NEW e \in S, NEW j \in 1 .. Len(Append(seq, e))
  PROVE  \/ j \in 1 .. Len(seq) /\ Append(seq, e)[j] = seq[j]
         \/ j = Len(seq) + 1 /\ Append(seq, e)[j] = e
<1>1. /\ Len(Append(seq, e)) = Len(seq) + 1 /\ Len(seq) \in Nat
      /\ \A i \in 1 .. Len(seq) : Append(seq, e)[i] = seq[i]
      /\ Append(seq, e)[Len(seq) + 1] = e
  BY AppendProperties
<1> QED BY <1>1

\* One turn of read_simple: the record at t is read, and a sample given to the callback.
Reads ==
  LET u == Cell(cpu, t)
  IN  /\ pc = "read" /\ t' = t + u.size
      /\ \/ /\ u.type = "sample" /\ sample' = Record("sample", u.id, u.size)
            /\ got' = [got EXCEPT ![cpu] = Append(@, u.id)] /\ UNCHANGED passed
         \/ /\ u.type = "lost" /\ passed' = [passed EXCEPT ![cpu] = @ + u.id]
            /\ UNCHANGED <<sample, got>>
      /\ UNCHANGED <<pc, opened, pkts, unread, full, mem, head, rb_lost>>
      /\ UNCHANGED <<data_head, data_tail, cpu, h>>

\* read_simple does that.
LEMMA ReadsRecord ==
  ASSUME TypeOK, AtRecord, read_simple
  PROVE  Reads
<1> DEFINE u == Cell(cpu, t)
<1>1. RecordAt(t) = Record(u.type, u.id, u.size)
  BY RecordRead
<1>2. /\ u.size \in Nat /\ u.size > 0 /\ u.id \in Nat /\ u.type \in {"sample", "lost"}
  BY DEF AtRecord
<1> HIDE DEF u
<1>4. Len(RecordAt(t)) = u.size /\ RecordAt(t)[1].type = u.type /\ RecordAt(t)[1].id = u.id
  BY <1>1, <1>2, RecordHead
<1>5. pc = "read" /\ t' = t + u.size
  BY <1>4 DEF read_simple
<1>6. /\ UNCHANGED <<pc, opened, pkts, unread, full, mem, head, rb_lost>>
      /\ UNCHANGED <<data_head, data_tail, cpu, h>>
  BY DEF read_simple, hook, ringK, shared
<1>7. \/ /\ u.type = "sample" /\ sample' = Record("sample", u.id, u.size)
         /\ got' = [got EXCEPT ![cpu] = Append(@, u.id)] /\ UNCHANGED passed
      \/ /\ u.type = "lost" /\ passed' = [passed EXCEPT ![cpu] = @ + u.id]
         /\ UNCHANGED <<sample, got>>
  <2>1. CASE /\ RecordAt(t)[1].type = "sample" /\ sample' = RecordAt(t)
             /\ got' = [got EXCEPT ![cpu] = Append(@, RecordAt(t)[1].id)]
             /\ UNCHANGED passed
    <3>1. u.type = "sample"
      BY <2>1, <1>4
    <3>2. sample' = Record("sample", u.id, u.size)
      BY <2>1, <3>1, <1>1
    <3>3. got' = [got EXCEPT ![cpu] = Append(@, u.id)]
      BY <2>1, <1>4
    <3> QED BY <2>1, <3>1, <3>2, <3>3
  <2>2. CASE /\ RecordAt(t)[1].type = "lost"
             /\ passed' = [passed EXCEPT ![cpu] = @ + RecordAt(t)[1].id]
             /\ UNCHANGED <<sample, got>>
    BY <2>2, <1>4
  <2> QED BY <2>1, <2>2 DEF read_simple, process_record
<1> QED BY <1>5, <1>6, <1>7 DEF Reads, u

\* The reader reads one record: it goes to the next one's beginning, and not
\* past h.
LEMMA StepRead ==
  ASSUME IInv, read_simple
  PROVE  IInv'
<1>0. /\ TypeOK /\ Opening /\ Records /\ Bounds /\ Order /\ Fresh
      /\ SampleIntact /\ ReadInOrder /\ Accounted
  BY DEF IInv, Rings
<1>1. AtRecord
  BY <1>0, RecordThere DEF read_simple
<1>2. TypeOK'
  BY <1>0, <1>1, TypesRead
<1>3. Reads
  BY <1>0, <1>1, ReadsRecord
<1> DEFINE c == cpu
           p == t
           u == Cell(cpu, t)
           id == u.id
           n == u.size
<1>4. /\ pc = "read" /\ t' = p + n /\ c \in Cpus /\ p \in Nat
      /\ UNCHANGED <<pc, opened, pkts, unread, full, mem, head, data_head, data_tail, cpu, h>>
      /\ \/ /\ u.type = "sample" /\ sample' = Record("sample", id, n)
            /\ got' = [got EXCEPT ![c] = Append(got[c], id)]
         \/ u.type = "lost" /\ UNCHANGED <<sample, got>>
  BY <1>0, <1>3, Locals DEF Reads
<1>5. /\ p \in Window(c) /\ u.type \in {"sample", "lost"} /\ u.off = 1
      /\ id \in Nat /\ n \in Nat /\ n > 0 /\ p + n <= h /\ Begins(c, p + n)
      /\ u.type = "sample" => id \in 1 .. pkts
  BY <1>1 DEF AtRecord
<1>6. \A k \in 2 .. n : Cell(c, p + k - 1).off # 1
  <2> TAKE k \in 2 .. n
  <2>1. k \in 1 .. n /\ k # 1
    BY <1>5
  <2>2. Cell(c, p + k - 1) = [type |-> u.type, id |-> u.id, off |-> k, size |-> u.size]
    BY <1>1, <2>1 DEF AtRecord
  <2> QED BY <2>1, <2>2
<1>7. /\ h \in Nat /\ head[c] \in Nat /\ data_tail[c] \in Nat
      /\ data_tail[c] <= p /\ p < head[c] /\ h <= data_head[c] /\ data_head[c] \in Nat
      /\ data_head[c] <= head[c]
  BY <1>0, <1>4, <1>5, Locals, Positions DEF Window, Bounds
<1>8. \A d \in Cpus : /\ From(d) = IF d = c THEN p ELSE data_tail[d]
                      /\ From(d)' = IF d = c THEN p + n ELSE data_tail[d]
  BY <1>4 DEF From
<1>9. Packet(c, p) <=> u.type = "sample"
  BY <1>5 DEF Packet
<1>10. Bounds'
  <2>1. /\ \A d \in Cpus : Begins(d, data_head[d])'
        /\ data_tail'[cpu'] <= t' /\ t' <= h' /\ h' <= data_head'[cpu']
    BY SMTT(30), <1>0, <1>4, <1>5, <1>7 DEF Bounds, Begins, Cell
  <2>2. Begins(cpu, t)'
    BY <1>4, <1>5 DEF Begins, Cell
  <2>3. Begins(cpu, h)'
    BY <1>0, <1>4 DEF Bounds, Begins, Cell
  <2> QED BY <2>1, <2>2, <2>3 DEF Bounds
<1>11. Records' /\ Order' /\ Opening'
  BY <1>0, <1>4 DEF Records, Order, Whole, Window, Packet, Cell, Opening
<1>12. \A d \in Cpus : got[d] \in Seq(1 .. pkts)
  BY <1>0 DEF TypeOK, ReaderTypes
<1>13. \A d \in Cpus : got'[d] = IF d = c /\ u.type = "sample" THEN Append(got[d], id) ELSE got[d]
  <2>1. got \in [Cpus -> Seq(1 .. pkts)]
    BY <1>0 DEF TypeOK, ReaderTypes
  <2> HIDE DEF c, u, id
  <2> QED BY <2>1, <1>4
<1>14. \A j \in 1 .. Len(got[c]) : u.type = "sample" => got[c][j] < id
  <2>1. p \in From(c) .. head[c] - 1
    BY <1>7, <1>8, <1>4
  <2> QED BY <2>1, <1>0, <1>4, <1>9 DEF Fresh
<1> HIDE DEF c, p, u, id, n
<1>15. SampleIntact'
  <2>1. CASE u.type = "sample" /\ sample' = Record("sample", id, n)
    <3>1. Len(sample') = n /\ sample'[1] = [type |-> "sample", id |-> id, off |-> 1, size |-> n]
      <4>1. 1 \in 1 .. n
        BY <1>5
      <4>2. Record("sample", id, n)[1] = [type |-> "sample", id |-> id, off |-> 1, size |-> n]
        BY <4>1 DEF Record
      <4> QED BY <2>1, <4>2, <1>5, RecordUnits
    <3>2. sample'[1].id = id
      BY <3>1
    <3> QED BY <2>1, <3>1, <3>2 DEF SampleIntact
  <2>2. CASE sample' = sample
    BY <2>2, <1>0 DEF SampleIntact
  <2> QED BY <2>1, <2>2, <1>4
<1>16. ReadInOrder'
  <2> SUFFICES ASSUME NEW d \in Cpus, NEW i \in DOMAIN got'[d], NEW j \in DOMAIN got'[d], i < j
               PROVE  got'[d][i] < got'[d][j]
    BY DEF ReadInOrder
  <2>1. CASE d = c /\ u.type = "sample"
    <3>1. got'[d] = Append(got[c], id) /\ got[c] \in Seq(1 .. pkts) /\ id \in 1 .. pkts
      BY <2>1, <1>5, <1>12, <1>13
    <3>2. i \in 1 .. Len(Append(got[c], id)) /\ j \in 1 .. Len(Append(got[c], id))
      BY <3>1, AppendProperties
    <3>3. \/ i \in 1 .. Len(got[c]) /\ got'[d][i] = got[c][i]
          \/ i = Len(got[c]) + 1
      BY <3>1, <3>2, AppendGot
    <3>4. \/ j \in 1 .. Len(got[c]) /\ got'[d][j] = got[c][j]
          \/ j = Len(got[c]) + 1 /\ got'[d][j] = id
      BY <3>1, <3>2, AppendGot
    <3>5. Len(got[c]) \in Nat /\ DOMAIN got[c] = 1 .. Len(got[c])
      BY <3>1
    <3>6. \A a, b \in DOMAIN got[c] : a < b => got[c][a] < got[c][b]
      BY <1>0, <2>1 DEF ReadInOrder
    <3>7. CASE j \in 1 .. Len(got[c]) /\ got'[d][j] = got[c][j]
      <4>1. i \in 1 .. Len(got[c]) /\ got'[d][i] = got[c][i]
        BY <3>3, <3>5, <3>7
      <4> QED BY <3>5, <3>6, <3>7, <4>1
    <3>8. CASE j = Len(got[c]) + 1 /\ got'[d][j] = id
      <4>1. i \in 1 .. Len(got[c]) /\ got'[d][i] = got[c][i]
        BY <3>3, <3>5, <3>8
      <4> QED BY <3>8, <4>1, <1>14, <2>1
    <3> QED BY <3>4, <3>7, <3>8
  <2>2. CASE ~ (d = c /\ u.type = "sample")
    BY <2>2, <1>0, <1>13 DEF ReadInOrder
  <2> QED BY <2>1, <2>2
<1>17. Fresh'
  <2> SUFFICES ASSUME NEW d \in Cpus, NEW q \in (From(d) .. head[d] - 1)', Packet(d, q)',
                      NEW j \in 1 .. Len(got'[d])
               PROVE  got'[d][j] < Cell(d, q)'.id
    BY DEF Fresh
  <2>1. Cell(d, q)' = Cell(d, q) /\ Packet(d, q)
    BY <1>4 DEF Cell, Packet
  <2>2. q \in From(d) .. head[d] - 1 /\ (d = c => p < q)
    <3>1. head'[d] = head[d] /\ head[d] \in Nat /\ data_tail[d] \in Nat
      BY <1>0, <1>4, Positions
    <3> QED BY <3>1, <1>4, <1>5, <1>8
  <2>3. \A i \in 1 .. Len(got[d]) : got[d][i] < Cell(d, q).id
    BY <1>0, <1>4, <2>1, <2>2 DEF Fresh
  <2>4. CASE d = c /\ u.type = "sample"
    <3>1. got'[d] = Append(got[c], id) /\ got[c] \in Seq(1 .. pkts) /\ id \in 1 .. pkts
      BY <2>4, <1>5, <1>12, <1>13
    <3>2. \/ j \in 1 .. Len(got[c]) /\ got'[d][j] = got[c][j]
          \/ got'[d][j] = id
      BY <3>1, AppendGot
    <3>3. q \in Window(c) /\ p < q
      BY <2>2, <2>4, <1>4, <1>7, <1>8 DEF Window
    <3>4. id < Cell(d, q).id
      BY <1>0, <1>4, <1>5, <1>9, <2>1, <2>4, <3>3 DEF Order, id, u, c, p
    <3> QED BY <2>1, <2>3, <2>4, <3>2, <3>4
  <2>5. CASE ~ (d = c /\ u.type = "sample")
    BY <2>1, <2>3, <2>5, <1>13
  <2> QED BY <2>4, <2>5
<1>18. Accounted'
  <2> SUFFICES ASSUME NEW m \in 1 .. pkts PROVE Given(m)' \/ InRing(m)' \/ Dropped(m)'
    BY <1>4 DEF Accounted
  <2>1. CASE Given(m)
    <3>1. PICK d \in Cpus : \E j \in 1 .. Len(got[d]) : got[d][j] = m
      BY <2>1 DEF Given
    <3>2. PICK j \in 1 .. Len(got[d]) : got[d][j] = m
      BY <3>1
    <3>3. j \in 1 .. Len(got'[d]) /\ got'[d][j] = m
      <4>1. CASE d = c /\ u.type = "sample"
        <5>1. got'[d] = Append(got[d], id) /\ got[d] \in Seq(1 .. pkts) /\ id \in 1 .. pkts
          BY <4>1, <1>5, <1>12, <1>13
        <5> QED BY <5>1, <3>2, AppendProperties
      <4>2. CASE ~ (d = c /\ u.type = "sample")
        BY <4>2, <3>2, <1>13
      <4> QED BY <4>1, <4>2
    <3> QED BY <3>3 DEF Given
  <2>2. CASE Dropped(m)
    BY <2>2, <1>4 DEF Dropped
  <2>3. CASE InRing(m)
    <3>1. PICK d \in Cpus : \E q \in From(d) .. head[d] - 1 : Packet(d, q) /\ Cell(d, q).id = m
      BY <2>3 DEF InRing
    <3>2. PICK q \in From(d) .. head[d] - 1 : Packet(d, q) /\ Cell(d, q).id = m
      BY <3>1
    <3>3. Packet(d, q)' /\ Cell(d, q)'.id = m
      BY <3>2, <1>4 DEF Packet, Cell
    <3>4. CASE d # c
      BY <3>2, <3>3, <3>4, <1>4, <1>8 DEF InRing
    <3>5. CASE d = c /\ p + n <= q
      <4>1. q \in (From(d) .. head[d] - 1)'
        <5>1. From(d)' = p + n /\ head'[d] = head[d] /\ head[d] \in Nat
          BY <3>5, <1>0, <1>4, <1>8, Positions
        <5> QED BY <5>1, <3>5, <1>4, <1>5
      <4> QED BY <3>3, <4>1 DEF InRing
    <3>6. CASE d = c /\ q = p
      <4>1. u.type = "sample" /\ m = id
        BY <3>2, <3>6, <1>9 DEF u, id, c, p
      <4>2. got'[c] = Append(got[c], id) /\ got[c] \in Seq(1 .. pkts)
        BY <4>1, <1>4, <1>12, <1>13
      <4> DEFINE j == Len(got[c]) + 1
      <4>3. j \in 1 .. Len(got'[c]) /\ got'[c][j] = id
        BY <4>1, <4>2, AppendProperties
      <4> QED BY <4>1, <4>3, <1>4 DEF Given
    <3>7. CASE d = c /\ p < q /\ q < p + n
      <4> DEFINE k == q - p + 1
      <4>1. k \in 2 .. n /\ p + k - 1 = q
        BY SMTT(30), <3>7, <1>4, <1>5, <1>7
      <4> HIDE DEF k
      <4>2. Cell(c, q).off # 1
        BY <4>1, <1>6
      <4> QED BY <3>2, <3>7, <4>2 DEF Packet
    <3>8. \/ d # c \/ (d = c /\ p + n <= q) \/ (d = c /\ q = p)
          \/ (d = c /\ p < q /\ q < p + n)
      BY <1>4, <1>5, <1>7, <1>8
    <3> QED BY <3>4, <3>5, <3>6, <3>7, <3>8
  <2> QED BY <2>1, <2>2, <2>3, <1>0 DEF Accounted
<1> QED BY <1>2, <1>10, <1>11, <1>15, <1>16, <1>17, <1>18 DEF IInv, Rings

-----------------------------------------------------------------------------
(* Sums over finite sets.                                                  *)

\* What holds of a subset when it holds of those with one element less holds of
\* every subset.
LEMMA FiniteInduction ==
  ASSUME NEW S, IsFiniteSet(S), NEW P,
         \A s \in SUBSET S : (\A x \in s : s \ {x} \in P) => s \in P
  PROVE  \A s \in SUBSET S : s \in P
<1> SUFFICES ASSUME NEW r \in SUBSET S, r \notin P PROVE FALSE
  OBVIOUS
<1> DEFINE Bad == {Cardinality(s) : s \in {r0 \in SUBSET S : r0 \notin P}}
<1>1. \A s \in SUBSET S : IsFiniteSet(s) /\ Cardinality(s) \in Nat
  BY FS_Subset, FS_CardinalityType
<1>2. Bad \subseteq Nat /\ Bad # {}
  BY <1>1
<1>3. PICK n \in Bad : \A m \in Bad : n <= m
  BY <1>2, Least
<1>4. PICK s \in SUBSET S : s \notin P /\ Cardinality(s) = n
  BY <1>3
<1>5. PICK x \in s : s \ {x} \notin P
  BY <1>4
<1>6. Cardinality(s \ {x}) = n - 1 /\ n \in Nat
  BY <1>1, <1>4, <1>5, FS_RemoveElement
<1>7. n - 1 \in Bad
  BY <1>5, <1>6
<1> QED BY <1>2, <1>3, <1>6, <1>7

\* The element a sum takes next, and what it is for g to have the sums of f over
\* the subsets of S.
Pick(s) == CHOOSE x \in s : TRUE

AreSums(g, f, S) ==
  g = [s \in SUBSET S |-> IF s = {} THEN 0 ELSE f[Pick(s)] + g[s \ {Pick(s)}]]

\* There are such sums, level by level.
LEMMA SumsExist ==
  ASSUME NEW S, IsFiniteSet(S), NEW f
  PROVE  \E g : AreSums(g, f, S)
<1> DEFINE Level(k) == {s \in SUBSET S : Cardinality(s) <= k}
           Term(g, s) == IF s = {} THEN 0 ELSE f[Pick(s)] + g[s \ {Pick(s)}]
           T == {k \in Nat : \E g : g = [s \in Level(k) |-> Term(g, s)]}
<1>1. \A s \in SUBSET S : IsFiniteSet(s) /\ Cardinality(s) \in Nat
  BY FS_Subset, FS_CardinalityType
<1>2. \A s \in SUBSET S : s # {} => Pick(s) \in s
  BY DEF Pick
<1>3. ASSUME NEW k \in Nat, NEW s \in Level(k), s # {}
      PROVE  /\ s \ {Pick(s)} \in Level(k - 1) /\ s \ {Pick(s)} \in Level(k)
  <2>1. Cardinality(s \ {Pick(s)}) = Cardinality(s) - 1
    BY <1>1, <1>2, <1>3, FS_RemoveElement
  <2> QED BY <2>1, <1>1
<1>4. 0 \in T
  <2> DEFINE g == [s \in Level(0) |-> 0]
  <2>1. \A s \in Level(0) : s = {}
    BY <1>1, FS_EmptySet
  <2>2. g = [s \in Level(0) |-> Term(g, s)]
    BY <2>1
  <2> QED BY <2>2
<1>5. ASSUME NEW k \in T PROVE k + 1 \in T
  <2>1. k \in Nat /\ k + 1 \in Nat /\ (k + 1) - 1 = k
    OBVIOUS
  <2>2. PICK g : g = [s \in Level(k) |-> Term(g, s)]
    OBVIOUS
  <2> DEFINE e == [s \in Level(k + 1) |-> Term(g, s)]
  <2>3. ASSUME NEW s \in Level(k + 1), s # {}
        PROVE  e[s \ {Pick(s)}] = g[s \ {Pick(s)}]
    <3> DEFINE r == s \ {Pick(s)}
    <3>1. r \in Level(k) /\ r \in Level(k + 1)
      BY <1>3, <2>1, <2>3
    <3> HIDE DEF r
    <3>2. g[r] = Term(g, r) /\ e[r] = Term(g, r)
      BY <2>2, <3>1
    <3> QED BY <3>2 DEF r
  <2>4. e = [s \in Level(k + 1) |-> Term(e, s)]
    BY <2>3
  <2> QED BY <2>1, <2>4
<1>6. T = Nat
  <2> SUFFICES ASSUME Nat \ T # {} PROVE FALSE
    OBVIOUS
  <2> HIDE DEF T
  <2>1. PICK n \in Nat \ T : \A m \in Nat \ T : n <= m
    BY Least
  <2>2. n # 0 /\ n - 1 \in Nat /\ ~ (n <= n - 1) /\ (n - 1) + 1 = n
    BY <1>4, <2>1
  <2>3. n - 1 \in T
    BY <2>1, <2>2
  <2> QED BY <1>5, <2>1, <2>2, <2>3
<1>7. Level(Cardinality(S)) = SUBSET S /\ Cardinality(S) \in Nat
  BY FS_Subset, FS_CardinalityType
<1>8. PICK g : g = [s \in Level(Cardinality(S)) |-> Term(g, s)]
  BY <1>6, <1>7
<1>9. AreSums(g, f, S)
  BY <1>7, <1>8 DEF AreSums
<1> QED BY <1>9

\* Sums of integers are integers ...
LEMMA SumsInt ==
  ASSUME NEW S, IsFiniteSet(S), NEW f, \A x \in S : f[x] \in Int, NEW g, AreSums(g, f, S)
  PROVE  \A s \in SUBSET S : g[s] \in Int
<1> DEFINE P == {s \in SUBSET S : g[s] \in Int}
<1>1. \A s \in SUBSET S : g[s] = IF s = {} THEN 0 ELSE f[Pick(s)] + g[s \ {Pick(s)}]
  BY Zenon DEF AreSums
<1>2. ASSUME NEW s \in SUBSET S, \A x \in s : s \ {x} \in P
      PROVE  s \in P
  <2>1. CASE s = {}
    <3>1. g[s] = 0
      BY <1>1, <2>1, Zenon
    <3> QED BY <3>1
  <2>2. CASE s # {}
    <3> DEFINE y == Pick(s)
    <3>1. y \in s /\ g[s] = f[y] + g[s \ {y}]
      BY <1>1, <2>2 DEF Pick
    <3> HIDE DEF y
    <3>2. g[s \ {y}] \in Int /\ f[y] \in Int
      BY <1>2, <3>1
    <3> QED BY <3>1, <3>2
  <2> QED BY <2>1, <2>2
<1> HIDE DEF P
<1>3. \A s \in SUBSET S : s \in P
  BY <1>2, FiniteInduction
<1> QED BY <1>3 DEF P

\* ... and do not depend on the order.
LEMMA SumsAny ==
  ASSUME NEW S, IsFiniteSet(S), NEW f, \A x \in S : f[x] \in Int, NEW g, AreSums(g, f, S)
  PROVE  /\ g[{}] = 0
         /\ \A s \in SUBSET S : g[s] \in Int /\ \A x \in s : g[s] = f[x] + g[s \ {x}]
<1> DEFINE P == {s \in SUBSET S : g[s] \in Int /\ \A x \in s : g[s] = f[x] + g[s \ {x}]}
<1>1. \A s \in SUBSET S : g[s] = IF s = {} THEN 0 ELSE f[Pick(s)] + g[s \ {Pick(s)}]
  BY Zenon DEF AreSums
<1>2. g[{}] = 0
  BY <1>1
<1>3. ASSUME NEW s \in SUBSET S, \A x \in s : s \ {x} \in P
      PROVE  s \in P
  <2>1. CASE s = {}
    BY <1>2, <2>1
  <2>2. CASE s # {}
    <3> DEFINE y == Pick(s)
    <3>1. y \in s /\ g[s] = f[y] + g[s \ {y}] /\ f[y] \in Int
      BY <1>1, <2>2 DEF Pick
    <3> HIDE DEF y
    <3>2. s \ {y} \in P
      BY <1>3, <3>1
    <3>3. g[s \ {y}] \in Int
      BY <3>2
    <3>4. ASSUME NEW x \in s PROVE g[s] = f[x] + g[s \ {x}]
      <4>1. CASE x = y
        BY <3>1, <4>1
      <4>2. CASE x # y
        <5> DEFINE r == (s \ {x}) \ {y}
        <5>1. s \ {x} \in P /\ y \in s \ {x} /\ x \in s \ {y} /\ r = (s \ {y}) \ {x}
          BY <1>3, <3>1, <4>2
        <5>2. g[s \ {x}] = f[y] + g[r]
          BY <5>1
        <5>3. g[s \ {y}] = f[x] + g[r]
          BY <3>2, <5>1
        <5>4. r \in SUBSET S /\ f[x] \in Int
          OBVIOUS
        <5>5. g[r] \in Int
          BY <5>4, SumsInt
        <5> QED BY <3>1, <5>2, <5>3, <5>4, <5>5
      <4> QED BY <4>1, <4>2
    <3> QED BY <3>1, <3>3, <3>4
  <2> QED BY <2>1, <2>2
<1> HIDE DEF P
<1>4. \A s \in SUBSET S : s \in P
  BY <1>3, FiniteInduction
<1> QED BY <1>2, <1>4 DEF P

\* Two functions that agree have the same sums.
LEMMA SumsAgree ==
  ASSUME NEW S, NEW T, IsFiniteSet(S), T \subseteq S, NEW f, NEW e, \A x \in T : f[x] = e[x],
         NEW g, AreSums(g, f, S), NEW k, AreSums(k, e, T)
  PROVE  g[T] = k[T]
<1> DEFINE P == {s \in SUBSET T : g[s] = k[s]}
<1>1. \A s \in SUBSET S : g[s] = IF s = {} THEN 0 ELSE f[Pick(s)] + g[s \ {Pick(s)}]
  BY Zenon DEF AreSums
<1>2. \A s \in SUBSET T : k[s] = IF s = {} THEN 0 ELSE e[Pick(s)] + k[s \ {Pick(s)}]
  BY Zenon DEF AreSums
<1>3. ASSUME NEW s \in SUBSET T, \A x \in s : s \ {x} \in P
      PROVE  s \in P
  <2>1. s \in SUBSET S
    OBVIOUS
  <2>2. CASE s = {}
    BY <1>1, <1>2, <2>1, <2>2
  <2>3. CASE s # {}
    <3>1. Pick(s) \in s
      BY <2>3 DEF Pick
    <3>2. g[s \ {Pick(s)}] = k[s \ {Pick(s)}] /\ f[Pick(s)] = e[Pick(s)]
      BY <1>3, <3>1
    <3> QED BY <1>1, <1>2, <2>1, <2>3, <3>2
  <2> QED BY <2>2, <2>3
<1>4. IsFiniteSet(T)
  BY FS_Subset
<1> HIDE DEF P
<1>5. T \in P
  BY <1>3, <1>4, FiniteInduction
<1> QED BY <1>5 DEF P

\* SumFunction is such a sum.
LEMMA SumDef ==
  ASSUME NEW f, IsFiniteSet(DOMAIN f)
  PROVE  \E g : AreSums(g, f, DOMAIN f) /\ SumFunction(f) = g[DOMAIN f]
<1> DEFINE S == DOMAIN f
           g == CHOOSE k : AreSums(k, f, S)
<1>1. AreSums(g, f, S)
  BY SumsExist, Zenon
<1>2. SumFunction(f) = g[S]
  BY DEF SumFunction, SumFunctionOnSet, FoldFunctionOnSet, MapThenFoldSet, AreSums, Pick
<1> QED BY <1>1, <1>2

\* The sum over the empty set, and a sum with one summand taken out.
LEMMA SumEmpty ==
  ASSUME NEW f, DOMAIN f = {}
  PROVE  SumFunction(f) = 0
<1>1. PICK g : AreSums(g, f, DOMAIN f) /\ SumFunction(f) = g[DOMAIN f]
  BY SumDef, FS_EmptySet
<1>2. g[{}] = 0
  BY <1>1, FS_EmptySet, SumsAny
<1> QED BY <1>1, <1>2

\* A summand can be taken out of a sum.
LEMMA SumOut ==
  ASSUME NEW S, IsFiniteSet(S), NEW f \in [S -> Int], NEW x \in S
  PROVE  /\ SumFunction(f) \in Int
         /\ SumFunction(f) = f[x] + SumFunction([y \in S \ {x} |-> f[y]])
<1> DEFINE T == S \ {x}
           e == [y \in T |-> f[y]]
<1>1. PICK g : AreSums(g, f, S) /\ SumFunction(f) = g[S]
  BY SumDef
<1>2. IsFiniteSet(T) /\ DOMAIN e = T
  BY FS_RemoveElement
<1>3. PICK k : AreSums(k, e, T) /\ SumFunction(e) = k[T]
  BY <1>2, SumDef
<1>4. g[S] \in Int /\ g[S] = f[x] + g[T]
  <2>1. S \in SUBSET S /\ \A y \in S : f[y] \in Int
    OBVIOUS
  <2>2. \A s \in SUBSET S : g[s] \in Int /\ \A y \in s : g[s] = f[y] + g[s \ {y}]
    BY <1>1, <2>1, SumsAny
  <2> QED BY <2>1, <2>2
<1>5. g[T] = k[T]
  <2>1. T \subseteq S /\ \A y \in T : f[y] = e[y]
    OBVIOUS
  <2> HIDE DEF T, e
  <2> QED BY <1>1, <1>3, <2>1, SumsAgree
<1> QED BY <1>1, <1>3, <1>4, <1>5
\* A sum of integers is one.
LEMMA SumType ==
  ASSUME NEW S, IsFiniteSet(S), NEW f \in [S -> Int]
  PROVE  SumFunction(f) \in Int
<1>1. CASE S = {}
  BY <1>1, SumEmpty
<1>2. CASE S # {}
  BY <1>2, SumOut
<1> QED BY <1>1, <1>2

-----------------------------------------------------------------------------
(* What a full ring cost.                                                  *)

\* LossAnnounced, of every ring and until the reader ends.
Losses ==
  pc # "exit" =>
    \A c \in Cpus :
      Cardinality(full[c]) = passed[c] + rb_lost[c] + SumFunction(Announced(c))

\* The positions where lost records begin that are still to be read.
LEMMA AnnouncedAt ==
  ASSUME TypeOK, NEW c \in Cpus
  PROVE  /\ Announced(c) = [p \in Pending(c, "lost") |-> Cell(c, p).id]
         /\ Pending(c, "lost") =
              {p \in From(c) .. head[c] - 1 : Cell(c, p).type = "lost" /\ Cell(c, p).off = 1}
BY Zenon DEF Announced, Pending, From, Cell

\* They are finitely many, and each tells a number.
LEMMA AnnouncedType ==
  ASSUME TypeOK, Bounds, NEW c \in Cpus
  PROVE  /\ IsFiniteSet(Pending(c, "lost"))
         /\ Announced(c) \in [Pending(c, "lost") -> Int]
         /\ SumFunction(Announced(c)) \in Int
<1> DEFINE S == Pending(c, "lost")
           I == From(c) .. head[c] - 1
<1>1. From(c) \in Nat /\ head[c] \in Nat
  BY FromIn, Positions
<1>2. S \in SUBSET I /\ \A p \in S : p \in Int
  BY <1>1, AnnouncedAt
<1>3. IsFiniteSet(S)
  <2>1. IsFiniteSet(I)
    BY SMTT(60), <1>1, FS_Interval
  <2> HIDE DEF I, S
  <2> QED BY <1>2, <2>1, FS_Subset
<1>4. Announced(c) \in [S -> Int]
  <2>1. \A p \in S : Cell(c, p).id \in Int
    BY <1>2, CellType
  <2> QED BY <2>1, AnnouncedAt
<1>5. SumFunction(Announced(c)) \in Int
  <2> HIDE DEF S
  <2> QED BY <1>3, <1>4, SumType
<1> QED BY <1>3, <1>4, <1>5

\* One more lost record, or one less, changes the sum by what it tells.
LEMMA SumMore ==
  ASSUME NEW S, IsFiniteSet(S), NEW f \in [S -> Int], NEW x, x \notin S,
         NEW e \in [S \cup {x} -> Int], \A y \in S : e[y] = f[y]
  PROVE  SumFunction(e) = e[x] + SumFunction(f)
<1> DEFINE T == S \cup {x}
<1>1. IsFiniteSet(T) /\ x \in T /\ T \ {x} = S
  BY FS_AddElement
<1>2. [y \in T \ {x} |-> e[y]] = f
  BY <1>1
<1> HIDE DEF T
<1>3. e \in [T -> Int]
  BY DEF T
<1> QED BY <1>1, <1>2, <1>3, SumOut

\* Steps after which the same lost records are still to be read.
LEMMA LossesSame ==
  ASSUME Losses, pc' # "exit" => pc # "exit", UNCHANGED <<full, passed, rb_lost, mem, head>>,
         \A c \in Cpus : From(c)' = From(c)
  PROVE  Losses'
<1>1. \A c \in Cpus : Announced(c)' = Announced(c)
  <2> TAKE c \in Cpus
  <2>1. Pending(c, "lost")' = Pending(c, "lost")
    BY DEF Pending, From
  <2> QED BY <2>1 DEF Announced
<1> QED BY <1>1 DEF Losses

\* A packet's record is written, with the losses before it in front.
LEMMA LossesWrite ==
  ASSUME IInv, IInv', Losses, NEW c \in Cpus, NEW n \in Lens, Write(c, n)
  PROVE  Losses'
<1> DEFINE O == Output(c, n)
<1>0. TypeOK /\ Bounds /\ TypeOK' /\ Bounds'
  BY DEF IInv, Rings
<1>1. Adds(c, O) /\ Tells(O, rb_lost[c]) /\ Len(O) \in Nat /\ Len(O) > 0
  BY <1>0, OutputUnits, Extends DEF Adds
<1>2. /\ UNCHANGED <<pc, cpu, t, data_tail, full, passed>>
      /\ rb_lost' = [rb_lost EXCEPT ![c] = 0]
  BY DEF Write, shared, local, output
<1> HIDE DEF O
<1>3. \A d \in Cpus : rb_lost[d] \in Nat /\ rb_lost'[d] = IF d = c THEN 0 ELSE rb_lost[d]
  BY <1>0, <1>2 DEF TypeOK, RingTypes
<1>4. \A d \in Cpus : From(d)' = From(d)
  BY <1>2 DEF From
<1>5. /\ head'[c] = head[c] + Len(O) /\ \A d \in Cpus \ {c} : head'[d] = head[d]
      /\ \A d \in Cpus : \A q \in Window(d) : Cell(d, q)' = Cell(d, q)
      /\ \A q \in head[c] .. head'[c] - 1 : Cell(c, q)' = O[q - head[c] + 1]
  BY <1>1 DEF Adds, Extended
<1> SUFFICES ASSUME pc # "exit", NEW d \in Cpus
             PROVE  Cardinality(full'[d]) = passed'[d] + rb_lost'[d] + SumFunction(Announced(d)')
  BY <1>2 DEF Losses
<1> DEFINE S == Pending(d, "lost")
           f == Announced(d)
<1>6. Cardinality(full[d]) = passed[d] + rb_lost[d] + SumFunction(f)
  BY DEF Losses
<1>7. /\ From(d) \in Nat /\ head[d] \in Nat /\ From(d) <= head[d] /\ passed[d] \in Nat
      /\ \A p \in From(d) .. head[d] - 1 : p \in Window(d)
  BY <1>0, FromIn, Positions DEF TypeOK, ReaderTypes
<1>8. /\ f = [p \in S |-> Cell(d, p).id]
      /\ S = {p \in From(d) .. head[d] - 1 : Cell(d, p).type = "lost" /\ Cell(d, p).off = 1}
  BY <1>0, AnnouncedAt
<1>9. /\ f' = [p \in S' |-> Cell(d, p)'.id]
      /\ S' = {p \in From(d) .. head'[d] - 1 : Cell(d, p)'.type = "lost" /\ Cell(d, p)'.off = 1}
  <2>1. From(d)' = From(d)
    BY <1>4
  <2>2. /\ f' = [p \in S' |-> Cell(d, p)'.id]
        /\ S' = {p \in From(d)' .. head'[d] - 1 : Cell(d, p)'.type = "lost" /\ Cell(d, p)'.off = 1}
    BY Zenon DEF Announced, Pending, From, Cell
  <2> QED BY <2>1, <2>2
<1>10. IsFiniteSet(S) /\ f \in [S -> Int] /\ SumFunction(f) \in Int /\ f' \in [S' -> Int]
  <2>1. IsFiniteSet(S) /\ f \in [S -> Int] /\ SumFunction(f) \in Int
    BY <1>0, AnnouncedType
  <2>2. \A p \in S' : Cell(d, p)'.id \in Int
    <3> TAKE p \in S'
    <3>0. head' \in [Cpus -> Nat] /\ mem' \in [Cpus -> [0 .. Size - 1 -> Unit]]
      BY <1>0 DEF TypeOK, RingTypes
    <3> HIDE DEF S
    <3>1. p \in From(d) .. head'[d] - 1
      BY <1>9
    <3>2. p \in Int
      BY <1>7, <3>0, <3>1
    <3>3. slot(p) \in 0 .. Size - 1
      BY <3>2, SlotIn
    <3>4. mem'[d][slot(p)] \in Unit
      BY <3>0, <3>3
    <3> QED BY <3>4 DEF Cell, Unit
  <2> QED BY <1>9, <2>1, <2>2
<1> HIDE DEF S, f
<1>11. \A p \in From(d) .. head[d] - 1 : Cell(d, p)' = Cell(d, p)
  BY <1>5, <1>7
<1>12. CASE d # c
  <2>1. head'[d] = head[d]
    BY <1>5, <1>12
  <2>2. S' = S
    BY <1>8, <1>9, <1>11, <2>1
  <2>3. \A p \in S : Cell(d, p)' = Cell(d, p)
    BY <1>8, <1>11
  <2>4. f' = f
    BY <1>8, <1>9, <2>2, <2>3
  <2> QED BY <1>2, <1>3, <1>6, <1>12, <2>4 DEF f
<1>13. CASE d = c
  <2>1. ASSUME NEW p \in head[c] .. head'[c] - 1
        PROVE  /\ Cell(d, p)'.type = "lost" /\ Cell(d, p)'.off = 1 <=>
                    p = head[c] /\ rb_lost[c] > 0
               /\ p = head[c] /\ rb_lost[c] > 0 => Cell(d, p)'.id = rb_lost[c]
    <3> DEFINE j == p - head[c] + 1
    <3>1. j \in 1 .. Len(O) /\ (j = 1 <=> p = head[c])
      BY <1>1, <1>5, <1>7, <1>13
    <3>2. Cell(d, p)' = O[j]
      BY <1>5, <1>13
    <3> HIDE DEF j
    <3> QED BY <1>1, <3>1, <3>2 DEF Tells
  <2>2. \A p \in From(d) .. head'[d] - 1 :
          p \in From(d) .. head[d] - 1 \/ p \in head[c] .. head'[c] - 1
    BY <1>1, <1>5, <1>7, <1>13
  <2>3. /\ \A p \in From(d) .. head[d] - 1 : p \in From(d) .. head'[d] - 1 /\ p # head[c]
        /\ head[c] \in From(d) .. head'[d] - 1 /\ head[c] \in head[c] .. head'[c] - 1
    BY <1>1, <1>5, <1>7, <1>13
  <2>4. CASE rb_lost[c] > 0
    <3>0. PICK b : b = head[c]
      OBVIOUS
    <3>1. S' = S \cup {b}
      BY <1>8, <1>9, <1>11, <2>1, <2>2, <2>3, <2>4, <3>0
    <3>2. b \notin S /\ \A p \in S : Cell(d, p)' = Cell(d, p)
      BY <1>8, <1>11, <2>3, <3>0
    <3>3. f'[b] = rb_lost[c]
      <4>1. Cell(d, b)'.id = rb_lost[c]
        BY <2>1, <2>3, <2>4, <3>0
      <4>2. b \in S'
        BY <3>1
      <4> QED BY <1>9, <4>1, <4>2
    <3>4. \A p \in S : f'[p] = f[p]
      BY <1>8, <1>9, <3>1, <3>2
    <3>5. SumFunction(f') = rb_lost[c] + SumFunction(f)
      <4>1. PICK e, g, R : e = f' /\ g = f /\ R = S
        OBVIOUS
      <4>2. e \in [R \cup {b} -> Int] /\ \A p \in R : e[p] = g[p]
        BY <1>10, <3>1, <3>4, <4>1
      <4>3. IsFiniteSet(R) /\ g \in [R -> Int] /\ b \notin R
        BY <1>10, <3>2, <4>1
      <4>4. SumFunction(e) = e[b] + SumFunction(g)
        BY <4>2, <4>3, SumMore
      <4>5. e[b] = rb_lost[c] /\ SumFunction(e) = SumFunction(f') /\ SumFunction(g) = SumFunction(f)
        BY <3>3, <4>1
      <4> QED BY <4>4, <4>5
    <3> QED BY <1>2, <1>3, <1>6, <1>7, <1>10, <1>13, <3>5 DEF f
  <2>5. CASE ~ rb_lost[c] > 0
    <3>1. S' = S
      BY <1>8, <1>9, <1>11, <2>1, <2>2, <2>3, <2>5
    <3>2. \A p \in S : Cell(d, p)' = Cell(d, p)
      BY <1>8, <1>11
    <3>3. f' = f
      BY <1>8, <1>9, <3>1, <3>2
    <3>4. rb_lost[c] = 0
      BY <1>3, <2>5
    <3> QED BY <1>2, <1>3, <1>6, <1>13, <3>3, <3>4 DEF f
  <2> QED BY <2>4, <2>5
<1> QED BY <1>12, <1>13

\* A packet that finds its ring full is counted.
LEMMA LossesDrop ==
  ASSUME IInv, Losses, NEW c \in Cpus, Drop(c)
  PROVE  Losses'
<1>0. TypeOK /\ Bounds
  BY DEF IInv, Rings
<1>1. UNCHANGED <<pc, cpu, t, data_tail, mem, head, passed>>
  BY DEF Drop, shared, local, output
<1>2. \A d \in Cpus : From(d)' = From(d)
  BY <1>1 DEF From
<1>3. CASE UNCHANGED <<rb_lost, full>>
  BY <1>1, <1>2, <1>3, LossesSame
<1>4. CASE /\ rb_lost' = [rb_lost EXCEPT ![c] = @ + 1]
           /\ full' = [full EXCEPT ![c] = @ \cup {pkts + 1}]
  <2> SUFFICES ASSUME pc # "exit", NEW d \in Cpus
               PROVE  Cardinality(full'[d]) = passed'[d] + rb_lost'[d] + SumFunction(Announced(d)')
    BY <1>1 DEF Losses
  <2>1. Cardinality(full[d]) = passed[d] + rb_lost[d] + SumFunction(Announced(d))
    BY DEF Losses
  <2>2. Announced(d)' = Announced(d)
    <3>1. Pending(d, "lost")' = Pending(d, "lost")
      BY <1>1 DEF Pending
    <3> QED BY <1>1, <3>1 DEF Announced
  <2>3. /\ full[c] \in SUBSET (1 .. pkts) /\ pkts \in Nat /\ passed[d] \in Nat
        /\ rb_lost[d] \in Nat /\ SumFunction(Announced(d)) \in Int
    BY <1>0, Locals, AnnouncedType DEF TypeOK, RingTypes, ReaderTypes
  <2>4. Cardinality(full[c] \cup {pkts + 1}) = Cardinality(full[c]) + 1
    <3>0. IsFiniteSet(1 .. pkts)
      BY <2>3, FS_Interval
    <3>1. IsFiniteSet(full[c])
      BY <2>3, <3>0, FS_Subset
    <3>2. pkts + 1 \notin full[c]
      BY <2>3
    <3> QED BY <3>1, <3>2, FS_AddElement
  <2>5. /\ rb_lost'[d] = IF d = c THEN rb_lost[d] + 1 ELSE rb_lost[d]
        /\ full'[d] = IF d = c THEN full[c] \cup {pkts + 1} ELSE full[d]
    BY <1>0, <1>4 DEF TypeOK, RingTypes
  <2>6. CASE d = c
    BY <1>1, <2>1, <2>2, <2>3, <2>4, <2>5, <2>6
  <2>7. CASE d # c
    BY <1>1, <2>1, <2>2, <2>5, <2>7
  <2> QED BY <2>6, <2>7
<1> QED BY <1>3, <1>4 DEF Drop

\* A lost record is read: what it tells is passed.
LEMMA LossesRead ==
  ASSUME IInv, Losses, read_simple
  PROVE  Losses'
<1>0. TypeOK /\ Records /\ Bounds
  BY DEF IInv, Rings
<1>1. AtRecord
  BY <1>0, RecordThere DEF read_simple
<1>2. Reads
  BY <1>0, <1>1, ReadsRecord
<1> DEFINE c == cpu
           u == Cell(cpu, t)
           n == u.size
<1>3. /\ pc = "read" /\ t' = t + n /\ c \in Cpus /\ t \in Nat
      /\ UNCHANGED <<pc, full, mem, head, rb_lost, data_tail, cpu>>
      /\ \/ u.type = "sample" /\ UNCHANGED passed
         \/ u.type = "lost" /\ passed' = [passed EXCEPT ![c] = passed[c] + u.id]
  BY <1>0, <1>2, Locals DEF Reads
<1>4. /\ t \in Window(c) /\ u.off = 1 /\ u.id \in Nat /\ n \in Nat /\ n > 0
  BY <1>1 DEF AtRecord
<1>5. \A k \in 2 .. n : Cell(c, t + k - 1).off # 1
  <2> TAKE k \in 2 .. n
  <2>1. k \in 1 .. n /\ k # 1
    BY <1>4
  <2>2. Cell(c, t + k - 1) = [type |-> u.type, id |-> u.id, off |-> k, size |-> u.size]
    BY <1>1, <2>1 DEF AtRecord
  <2> QED BY <2>1, <2>2
<1>6. ASSUME NEW q \in Int, t < q, q < t + n PROVE Cell(c, q).off # 1
  <2> DEFINE k == q - t + 1
  <2>1. k \in 2 .. n /\ t + k - 1 = q
    BY <1>3, <1>4, <1>6
  <2> HIDE DEF k
  <2> QED BY <1>5, <2>1
<1> HIDE DEF u, n
<1> SUFFICES ASSUME pc # "exit", NEW d \in Cpus
             PROVE  Cardinality(full'[d]) = passed'[d] + rb_lost'[d] + SumFunction(Announced(d)')
  BY <1>3 DEF Losses
<1> DEFINE S == Pending(d, "lost")
           f == Announced(d)
<1>7. Cardinality(full[d]) = passed[d] + rb_lost[d] + SumFunction(f)
  BY DEF Losses
<1>8. /\ f = [p \in S |-> Cell(d, p).id]
      /\ S = {p \in From(d) .. head[d] - 1 : Cell(d, p).type = "lost" /\ Cell(d, p).off = 1}
  BY <1>0, AnnouncedAt
<1>9. /\ f' = [p \in S' |-> Cell(d, p).id]
      /\ S' = {p \in From(d)' .. head[d] - 1 : Cell(d, p).type = "lost" /\ Cell(d, p).off = 1}
  <2>1. /\ f' = [p \in S' |-> Cell(d, p)'.id]
        /\ S' = {p \in From(d)' .. head'[d] - 1 : Cell(d, p)'.type = "lost" /\ Cell(d, p)'.off = 1}
    BY Zenon DEF Announced, Pending, From, Cell
  <2>2. head' = head /\ \A p : Cell(d, p)' = Cell(d, p)
    BY <1>3 DEF Cell
  <2> HIDE DEF S, f
  <2> QED BY <2>1, <2>2
<1>10. /\ From(d) = IF d = c THEN t ELSE data_tail[d]
       /\ From(d)' = IF d = c THEN t + n ELSE data_tail[d]
  BY <1>3 DEF From
<1>11. /\ IsFiniteSet(S) /\ f \in [S -> Int] /\ SumFunction(f) \in Int
       /\ passed \in [Cpus -> Nat] /\ rb_lost[d] \in Nat /\ head[d] \in Nat
  BY <1>0, AnnouncedType DEF TypeOK, RingTypes, ReaderTypes
<1>12. t < head[c]
  BY <1>0, <1>3, <1>4, Positions DEF Window
<1> HIDE DEF S, f
<1>13. CASE d # c
  <2>1. S' = S
    BY <1>8, <1>9, <1>10, <1>13
  <2>2. f' = f
    BY <1>8, <1>9, <2>1
  <2>3. passed'[d] = passed[d]
    <3> HIDE DEF c
    <3> QED BY <1>3, <1>11, <1>13
  <2> QED BY <1>3, <1>7, <2>2, <2>3 DEF f
<1>14. CASE d = c /\ u.type = "sample"
  <2>1. \A p \in S : p \in t .. head[d] - 1 /\ p \in Int /\ p # t /\ ~ (t < p /\ p < t + n)
    BY <1>3, <1>6, <1>8, <1>10, <1>11, <1>14 DEF u
  <2>2. \A p \in S : p \in t + n .. head[d] - 1
    BY <1>3, <1>4, <1>11, <2>1
  <2>3. \A p \in t + n .. head[d] - 1 : p \in t .. head[d] - 1
    BY <1>3, <1>4, <1>11
  <2>4. S' = S
    BY <1>8, <1>9, <1>10, <1>14, <2>2, <2>3
  <2>5. f' = f
    BY <1>8, <1>9, <2>4
  <2>6. passed' = passed
    BY <1>3, <1>14
  <2> QED BY <1>3, <1>7, <2>5, <2>6 DEF f
<1>15. CASE d = c /\ u.type = "lost"
  <2>1. \A p \in S : p \in t .. head[d] - 1 /\ p \in Int /\ ~ (t < p /\ p < t + n)
    BY <1>3, <1>6, <1>8, <1>10, <1>11, <1>15
  <2>2. \A p \in S : p = t \/ p \in t + n .. head[d] - 1
    BY <1>3, <1>4, <1>11, <2>1
  <2>3. \A p \in t + n .. head[d] - 1 : p \in t .. head[d] - 1 /\ p # t
    BY <1>3, <1>4, <1>11
  <2>4. t \in S
    BY <1>3, <1>4, <1>8, <1>10, <1>11, <1>12, <1>15 DEF u
  <2>5. PICK b, R, g, e : b = t /\ R = S /\ g = f /\ e = f'
    OBVIOUS
  <2>6. S' = R \ {b}
    <3>1. \A p \in S' : p \in S /\ p # t
      BY <1>8, <1>9, <1>10, <1>15, <2>3
    <3>2. \A p \in S : p # t => p \in S'
      BY <1>8, <1>9, <1>10, <1>15, <2>2
    <3> QED BY <2>5, <3>1, <3>2
  <2>7. e = [p \in R \ {b} |-> g[p]]
    <3>1. \A p \in R \ {b} : g[p] = Cell(d, p).id
      BY <1>8, <2>5
    <3> QED BY <1>9, <2>5, <2>6, <3>1
  <2>8. IsFiniteSet(R) /\ g \in [R -> Int] /\ b \in R
    BY <1>11, <2>4, <2>5
  <2>9. SumFunction(g) = g[b] + SumFunction(e)
    BY <2>7, <2>8, SumOut
  <2>10. g[b] = u.id /\ SumFunction(g) = SumFunction(f) /\ SumFunction(e) = SumFunction(f')
    BY <1>8, <1>15, <2>4, <2>5 DEF u
  <2>11. SumFunction(e) \in Int
    <3>1. e \in [R \ {b} -> Int] /\ IsFiniteSet(R \ {b})
      BY <2>7, <2>8, FS_RemoveElement
    <3> QED BY <3>1, SumType
  <2>12. passed'[d] = passed[d] + u.id /\ passed[d] \in Nat
    <3> HIDE DEF c
    <3> QED BY <1>3, <1>11, <1>15
  <2>13. Cardinality(full[d]) = passed'[d] + rb_lost[d] + SumFunction(f')
    BY <1>4, <1>7, <1>11, <2>9, <2>10, <2>11, <2>12
  <2> QED BY <1>3, <2>13 DEF f
<1> QED BY <1>3, <1>13, <1>14, <1>15

\* No other step reads, writes or counts; what ends the reader ends the account.
LEMMA LossesOther ==
  ASSUME IInv, Losses, NEW c \in Cpus,
         \/ perf_output_end(c) \/ do_attach \/ perf_buffer__open_cpu_buf \/ epoll_wait
         \/ PollFailed \/ NextRing \/ TailStep \/ sig_handler \/ UNCHANGED vars
  PROVE  Losses'
<1>0. TypeOK
  BY DEF IInv
<1>1. CASE sig_handler
  BY <1>1 DEF sig_handler, Losses
<1>2. CASE perf_output_end(c) \/ UNCHANGED vars
  <2>1. UNCHANGED <<pc, cpu, t, data_tail, full, passed, rb_lost, mem, head>>
    BY <1>2 DEF perf_output_end, vars, ringK, shared, local, output
  <2>2. \A d \in Cpus : From(d)' = From(d)
    BY <2>1 DEF From
  <2> QED BY <2>1, <2>2, LossesSame
<1>3. CASE do_attach \/ perf_buffer__open_cpu_buf \/ epoll_wait \/ PollFailed
  <2>1. /\ pc # "read" /\ pc # "exit" /\ pc' # "read"
        /\ UNCHANGED <<data_tail, full, passed, rb_lost, mem, head>>
    BY <1>3, IsQuiet DEF Quiet, ringK, output
  <2>2. \A d \in Cpus : From(d)' = From(d)
    BY <2>1 DEF From
  <2> QED BY <2>1, <2>2, LossesSame
<1>4. CASE NextRing
  <2>1. pc = "next" /\ UNCHANGED <<data_tail, full, passed, rb_lost, mem, head>>
    BY <1>4 DEF NextRing, ringK, shared, output
  <2>2. \A d \in Cpus : From(d)' = From(d)
    BY <1>4, <2>1 DEF NextRing, From
  <2> QED BY <2>1, <2>2, LossesSame
<1>5. CASE TailStep
  <2>1. /\ pc = "read" /\ pc' # "read" /\ data_tail' = [data_tail EXCEPT ![cpu] = t]
        /\ UNCHANGED <<full, passed, rb_lost, mem, head>>
    BY <1>5 DEF TailStep, ringK, output
  <2>2. cpu \in Cpus /\ data_tail \in [Cpus -> Nat]
    BY <1>0, Locals DEF TypeOK, RingTypes
  <2>3. \A d \in Cpus : From(d)' = From(d)
    BY <2>1, <2>2 DEF From
  <2> QED BY <2>1, <2>3, LossesSame
<1> QED BY <1>1, <1>2, <1>3, <1>4, <1>5

\* Every step keeps the account.
LEMMA LossesKept == IInv /\ IInv' /\ Losses /\ [Next]_vars => Losses'
<1> SUFFICES ASSUME IInv, IInv', Losses, [Next]_vars PROVE Losses'
  OBVIOUS
<1>1. ASSUME NEW c \in Cpus, NEW n \in Lens, xdp_arqin_prog(c, n) PROVE Losses'
  BY <1>1, Arrives, LossesWrite, LossesDrop
<1>2. ASSUME NEW c \in Cpus, perf_output_end(c) PROVE Losses'
  BY <1>2, LossesOther
<1>3. CASE read_simple
  BY <1>3, LossesRead
<1>4. cpu \in Cpus
  BY Locals DEF IInv
<1>5. CASE \/ do_attach \/ perf_buffer__open_cpu_buf \/ epoll_wait \/ PollFailed \/ NextRing
           \/ sig_handler \/ UNCHANGED vars
  BY <1>4, <1>5, LossesOther
<1>6. CASE ring_buffer_write_tail \/ CopyFailed
  BY <1>4, <1>6, GivesBack, LossesOther
<1> QED BY <1>1, <1>2, <1>3, <1>5, <1>6 DEF Next, Kernel, ReaderStep

\* Nothing is lost at first.
LEMMA LossesInitial == Init => Losses
<1> SUFFICES ASSUME Init, NEW c \in Cpus
             PROVE  Cardinality(full[c]) = passed[c] + rb_lost[c] + SumFunction(Announced(c))
  BY DEF Losses
<1>1. full[c] = {} /\ passed[c] = 0 /\ rb_lost[c] = 0 /\ head[c] = 0 /\ data_tail[c] = 0
  BY DEF Init
<1>2. Pending(c, "lost") = {}
  <2>1. pc # "read"
    BY DEF Init
  <2> QED BY <1>1, <2>1 DEF Pending
<1>3. SumFunction(Announced(c)) = 0
  BY <1>2, SumEmpty DEF Announced
<1>4. Cardinality(full[c]) = 0
  BY <1>1, FS_EmptySet
<1> QED BY <1>1, <1>3, <1>4

-----------------------------------------------------------------------------
(* No missed wakeup.                                                       *)

\* epoll tells of a ring once per wakeup: what is published in a ring the reader
\* has not been told of again is in the round it is at, or about to be read in full.
Awake ==
  /\ pc \in {"attach", "open", "poll"} => events = {}
  /\ pc \notin {"attach", "open", "exit"} => opened = Cpus
  /\ pc \notin {"killed", "exit"} =>
       \A c \in Cpus : data_tail[c] # data_head[c] =>
         rb_poll[c] \/ c \in events \/ (pc = "read" /\ cpu = c /\ h = data_head[c])

\* Whenever the reader is about to sleep in epoll_wait, each ring with a record in it
\* that the kernel has published is open and readable: epoll_wait returns at once.
NeverSleepsOnData ==
  pc = "poll" => \A c \in Cpus : data_tail[c] # data_head[c] => c \in opened /\ rb_poll[c]

\* Nothing is in the rings at first.
LEMMA AwakeInitial == Init => Awake
BY DEF Init, Awake

\* A packet that arrives is written where the reader does not look yet.
LEMMA AwakeArrives ==
  ASSUME TypeOK, Awake, NEW c \in Cpus, NEW n \in Lens, xdp_arqin_prog(c, n)
  PROVE  Awake'
<1>1. UNCHANGED <<pc, opened, data_head, data_tail, rb_poll, events, cpu, h>>
  BY DEF xdp_arqin_prog, shared, local
<1> QED BY <1>1 DEF Awake

\* A head that becomes visible comes with a wakeup.
LEMMA AwakePublish ==
  ASSUME TypeOK, Awake, NEW c \in Cpus, perf_output_end(c)
  PROVE  Awake'
<1>1. /\ data_head' = [data_head EXCEPT ![c] = head[c]]
      /\ rb_poll' = [rb_poll EXCEPT ![c] = TRUE]
      /\ UNCHANGED <<pc, opened, data_tail, events, cpu, h>>
  BY DEF perf_output_end, hook, local
<1>2. \A d \in Cpus : /\ d = c => rb_poll'[d]
                      /\ d # c => rb_poll'[d] = rb_poll[d] /\ data_head'[d] = data_head[d]
  BY <1>1 DEF TypeOK, RingTypes, ReaderTypes
<1> QED BY <1>1, <1>2 DEF Awake

\* The reader attaches and opens.
LEMMA AwakeOpens ==
  ASSUME TypeOK, Awake, do_attach \/ perf_buffer__open_cpu_buf \/ PollFailed
  PROVE  Awake'
<1>1. CASE do_attach
  BY <1>1 DEF do_attach, Awake, shared, local
<1>2. CASE perf_buffer__open_cpu_buf
  BY <1>2 DEF perf_buffer__open_cpu_buf, Closed, Awake, shared
<1>3. CASE PollFailed
  BY <1>3 DEF PollFailed, Awake, hook, shared, local
<1> QED BY <1>1, <1>2, <1>3

\* A ring that epoll_wait returns is in the round, the others stay readable.
LEMMA AwakePoll ==
  ASSUME TypeOK, Awake, epoll_wait
  PROVE  Awake'
<1>1. PICK ready \in SUBSET {c \in opened : rb_poll[c]} :
        events' = ready /\ rb_poll' = [c \in Cpus |-> rb_poll[c] /\ c \notin ready]
  BY DEF epoll_wait
<1>2. pc = "poll" /\ pc' = "next" /\ UNCHANGED <<opened, data_head, data_tail>>
  BY DEF epoll_wait, hook
<1>3. \A c \in Cpus : rb_poll[c] => rb_poll'[c] \/ c \in events'
  BY <1>1
<1> QED BY <1>2, <1>3 DEF Awake

\* The reader takes a ring of the round up to the head it has now, and gives all
\* of that back: what came behind it has made the ring readable again.
LEMMA AwakeReads ==
  ASSUME IInv, Awake, NextRing \/ read_simple \/ ring_buffer_write_tail
  PROVE  Awake'
<1>0. TypeOK /\ Bounds
  BY DEF IInv, Rings
<1>1. CASE NextRing
  <2>1. pc = "next" /\ UNCHANGED <<opened, data_head, data_tail, rb_poll>>
    BY <1>1 DEF NextRing, hook, shared
  <2>2. CASE \E c \in events : cpu' = c /\ events' = events \ {c} /\ h' = data_head[c] /\ pc' = "read"
    BY <2>1, <2>2 DEF Awake
  <2>3. CASE events = {} /\ pc' = "poll" /\ UNCHANGED events
    BY <2>1, <2>3 DEF Awake
  <2> QED BY <1>1, <2>2, <2>3 DEF NextRing
<1>2. CASE read_simple
  <2>1. UNCHANGED <<pc, opened, data_head, data_tail, rb_poll, events, cpu, h>>
    BY <1>2 DEF read_simple, hook, shared
  <2> QED BY <2>1 DEF Awake
<1>3. CASE ring_buffer_write_tail
  <2>1. /\ pc = "read" /\ pc' = "next" /\ data_tail' = [data_tail EXCEPT ![cpu] = h]
        /\ UNCHANGED <<opened, data_head, rb_poll, events>>
    BY <1>3 DEF ring_buffer_write_tail, hook
  <2>2. \A d \in Cpus : data_tail'[d] = IF d = cpu THEN h ELSE data_tail[d]
    BY <1>0, <2>1 DEF TypeOK, RingTypes
  <2>3. h # data_head[cpu] => data_tail[cpu] # data_head[cpu]
    <3>1. cpu \in Cpus /\ t \in Nat /\ h \in Nat
      BY <1>0, Locals
    <3>2. data_tail[cpu] \in Nat /\ data_head[cpu] \in Nat
      BY <1>0, <3>1, Positions
    <3>3. data_tail[cpu] <= t /\ t <= h /\ h <= data_head[cpu]
      BY <1>0, <2>1 DEF Bounds
    <3> QED BY <3>1, <3>2, <3>3
  <2>4. ASSUME NEW d \in Cpus, data_tail'[d] # data_head[d] PROVE rb_poll[d] \/ d \in events
    BY <2>1, <2>2, <2>3, <2>4 DEF Awake
  <2>5. opened = Cpus
    BY <2>1 DEF Awake
  <2> QED BY <2>1, <2>4, <2>5 DEF Awake
<1> QED BY <1>1, <1>2, <1>3

\* What ends the reader ends the waiting; every step keeps the rings awake.
LEMMA AwakeKept == IInv /\ Awake /\ [Next]_vars => Awake'
<1> SUFFICES ASSUME IInv, Awake, [Next]_vars PROVE Awake'
  OBVIOUS
<1>0. TypeOK
  BY DEF IInv
<1>1. ASSUME NEW c \in Cpus, NEW n \in Lens, xdp_arqin_prog(c, n) PROVE Awake'
  BY <1>0, <1>1, AwakeArrives
<1>2. ASSUME NEW c \in Cpus, perf_output_end(c) PROVE Awake'
  BY <1>0, <1>2, AwakePublish
<1>3. CASE do_attach \/ perf_buffer__open_cpu_buf \/ PollFailed
  BY <1>0, <1>3, AwakeOpens
<1>4. CASE epoll_wait
  BY <1>0, <1>4, AwakePoll
<1>5. CASE NextRing \/ read_simple \/ ring_buffer_write_tail
  BY <1>5, AwakeReads
<1>6. CASE CopyFailed
  BY <1>6 DEF CopyFailed, Awake, hook
<1>7. CASE sig_handler
  BY <1>7 DEF sig_handler, Closed, Awake
<1>8. CASE UNCHANGED vars
  BY <1>8 DEF vars, hook, shared, local, Awake
<1> QED BY <1>1, <1>2, <1>3, <1>4, <1>5, <1>6, <1>7, <1>8 DEF Next, Kernel, ReaderStep

-----------------------------------------------------------------------------
(* The theorems.                                                           *)

\* Empty rings.
LEMMA Initial == Init => IInv
<1> SUFFICES ASSUME Init PROVE IInv
  OBVIOUS
<1>1. TypeOK
  <2>1. HookTypes
    <3>1. pc \in Lines /\ attached \in BOOLEAN /\ opened \subseteq Cpus /\ unread \subseteq 1 .. pkts
      BY DEF Init, Lines
    <3>2. pkts \in 0 .. MaxPkts
      BY PerfAssumption DEF Init
    <3> QED BY <3>1, <3>2 DEF HookTypes
  <2>2. NoUnit \in Unit
    BY DEF NoUnit, Unit
  <2>3. RingTypes
    BY <2>2 DEF Init, RingTypes
  <2>4. ReaderTypes
    BY DEF Init, ReaderTypes
  <2>5. \A c \in Cpus : /\ data_tail[c] <= data_head[c] /\ data_head[c] <= head[c]
                        /\ head[c] - data_tail[c] < Size
    BY Sizes DEF Init
  <2> QED BY <2>1, <2>3, <2>4, <2>5 DEF TypeOK
<1>2. \A c \in Cpus : Window(c) = {} /\ head[c] = 0 /\ data_head[c] = 0 /\ got[c] = <<>>
  BY DEF Init, Window
<1>3. Rings /\ Opening
  BY <1>2, PerfAssumption DEF Init, Rings, Records, Bounds, Order, Begins, Opening
<1>4. Fresh
  BY <1>2 DEF Fresh
<1>5. SampleIntact /\ ReadInOrder /\ Accounted
  BY <1>2 DEF Init, SampleIntact, ReadInOrder, Accounted
<1> QED BY <1>1, <1>3, <1>4, <1>5 DEF IInv

\* Every step keeps the invariant.
LEMMA Inductive == IInv /\ [Next]_vars => IInv'
<1> SUFFICES ASSUME IInv, [Next]_vars PROVE IInv'
  OBVIOUS
<1>1. ASSUME NEW c \in Cpus, NEW n \in Lens, xdp_arqin_prog(c, n) PROVE IInv'
  BY <1>1, Arrives, StepWrite, StepDrop
<1>2. ASSUME NEW c \in Cpus, perf_output_end(c) PROVE IInv'
  BY <1>2, StepPublish
<1>3. CASE do_attach \/ perf_buffer__open_cpu_buf \/ epoll_wait \/ PollFailed
  BY <1>3, StepQuiet
<1>4. CASE NextRing
  BY <1>4, StepNextRing
<1>5. CASE read_simple
  BY <1>5, StepRead
<1>6. CASE ring_buffer_write_tail \/ CopyFailed
  BY <1>6, GivesBack, StepTail
<1>7. CASE sig_handler
  BY <1>7, StepSignal
<1>8. CASE UNCHANGED vars
  <2>1. /\ UNCHANGED <<pc, attached, opened, pkts, unread, mem, head, rb_lost, full>>
        /\ UNCHANGED <<data_head, data_tail, rb_poll, events, cpu, h, t, sample, got, passed>>
    BY <1>8 DEF vars, hook, ringK, shared, local, output
  <2>2. TypeOK /\ Accounted /\ pkts \in Nat
    BY Locals DEF IInv
  <2>3. TypeOK'
    BY <2>1, <2>2 DEF TypeOK, HookTypes, RingTypes, ReaderTypes
  <2>4. pkts' \in Nat /\ pkts <= pkts'
    BY <2>1, <2>2
  <2>5. Opening' /\ Rings' /\ Fresh' /\ SampleIntact' /\ ReadInOrder'
    BY <2>1, <2>4, RingsSame
  <2>6. Accounted'
    BY <2>1, <2>2 DEF Accounted, Given, InRing, Dropped, From, Packet, Cell
  <2> QED BY <2>3, <2>5, <2>6 DEF IInv
<1> QED BY <1>1, <1>2, <1>3, <1>4, <1>5, <1>6, <1>7, <1>8 DEF Next, Kernel, ReaderStep

\* Packet by packet is all together: what the rings and the callback's record hold
\* are packets the program has seen.
LEMMA AccountsAgree == IInv => PacketsAccounted
<1> SUFFICES ASSUME IInv PROVE PacketsAccounted
  OBVIOUS
<1>0. TypeOK /\ Records /\ Bounds /\ Accounted
  BY DEF IInv, Rings
<1>1. ASSUME NEW n PROVE n \in Received <=> Given(n)
  <2>1. \A c \in Cpus : DOMAIN got[c] = 1 .. Len(got[c])
    BY <1>0 DEF TypeOK, ReaderTypes
  <2> QED BY <2>1 DEF Received, Given
<1>2. ASSUME NEW n PROVE n \in Waiting <=> InRing(n)
  BY DEF Waiting, Pending, InRing, From, Packet, Cell
<1>3. ASSUME NEW n
      PROVE  n \in unread \cup UNION {full[c] : c \in Cpus} <=> Dropped(n)
  BY DEF Dropped
<1>4. ASSUME NEW n, Given(n) PROVE n \in 1 .. pkts
  <2>1. PICK c \in Cpus : \E j \in 1 .. Len(got[c]) : got[c][j] = n
    BY <1>4 DEF Given
  <2>2. PICK j \in 1 .. Len(got[c]) : got[c][j] = n
    BY <2>1
  <2>3. got[c] \in Seq(1 .. pkts)
    BY <1>0 DEF TypeOK, ReaderTypes
  <2> QED BY <2>2, <2>3, ElementOfSeq
<1>5. ASSUME NEW n, InRing(n) PROVE n \in 1 .. pkts
  <2>1. PICK c \in Cpus : \E p \in From(c) .. head[c] - 1 : Packet(c, p) /\ Cell(c, p).id = n
    BY <1>5 DEF InRing
  <2>2. PICK p \in From(c) .. head[c] - 1 : Packet(c, p) /\ Cell(c, p).id = n
    BY <2>1
  <2>3. p \in Window(c)
    BY <1>0, FromIn
  <2> QED BY <1>0, <2>2, <2>3 DEF Records, Whole, Packet
<1>6. ASSUME NEW n, Dropped(n) PROVE n \in 1 .. pkts
  BY <1>0, <1>6 DEF Dropped, TypeOK, HookTypes, RingTypes
<1> HIDE DEF Received, Waiting
<1>7. ASSUME NEW n \in 1 .. pkts PROVE Given(n) \/ InRing(n) \/ Dropped(n)
  BY <1>0 DEF Accounted
<1> QED BY <1>1, <1>2, <1>3, <1>4, <1>5, <1>6, <1>7 DEF PacketsAccounted

\* The invariant holds in every state.
LEMMA Invariant == Spec => []IInv
BY Initial, Inductive, PTL DEF Spec

\* Types of the reader's and the kernel's state; the positions of a ring never
\* overtake each other and the kernel never fills a ring to its last unit.
THEOREM TypeCorrect == Spec => []TypeOK
<1>1. IInv => TypeOK
  BY DEF IInv
<1> QED BY <1>1, Invariant, PTL

\* The callback of bpf_perf_event_read_simple is never given part of a packet or
\* parts of two, for any size of ring and any lengths of records.
THEOREM SamplesWhole == Spec => []SampleIntact
<1>1. IInv => SampleIntact
  BY DEF IInv
<1> QED BY <1>1, Invariant, PTL

\* Per CPU the callback gets the packets in the order of their arrival, none twice.
THEOREM ReadsOrdered == Spec => []ReadInOrder
<1>1. IInv => ReadInOrder
  BY DEF IInv
<1> QED BY <1>1, Invariant, PTL

\* Every packet xdp_arqin_prog has dropped was given to the callback, waits in a
\* ring, found its ring full or had none.
THEOREM AllAccounted == Spec => []PacketsAccounted
BY Invariant, AccountsAgree, PTL

\* LossAnnounced holds for every number of CPUs and every size of ring: what
\* bpf_perf_event_read_simple has gone past of the kernel's lost records, what
\* is still in the ring and what the kernel has not written yet add up to the
\* packets that found the ring full, also when a lost record wraps, is read while
\* the kernel writes on, or is written behind a packet already published.
THEOREM LossesExact == Spec => []LossAnnounced
<1>1. Init /\ [][Next]_vars => []Losses
  <2>1. Init => IInv /\ Losses
    BY Initial, LossesInitial
  <2>2. (IInv /\ Losses) /\ [Next]_vars => (IInv /\ Losses)'
    BY Inductive, LossesKept
  <2> QED BY <2>1, <2>2, PTL
<1>2. IInv /\ Losses => LossAnnounced
  <2> SUFFICES ASSUME IInv, Losses, NEW c \in opened
               PROVE  Cardinality(full[c]) = passed[c] + rb_lost[c] + SumFunction(Announced(c))
    BY DEF LossAnnounced
  <2>1. pc # "exit" /\ c \in Cpus
    BY DEF IInv, Opening, TypeOK, HookTypes
  <2> QED BY <2>1 DEF Losses
<1> QED BY <1>1, <1>2, Invariant, PTL DEF Spec

\* perf_buffer__poll never sleeps on data: epoll tells of a ring once per wakeup and
\* the reader goes by a head it read before the kernel went on, yet whenever it is
\* about to wait, every ring with a published record in it is readable.  It is the
\* safety half of WrittenIsRead, for any number of CPUs and any size of ring.
THEOREM NoMissedWakeup == Spec => []NeverSleepsOnData
<1>1. Init /\ [][Next]_vars => []Awake
  <2>1. Init => IInv /\ Awake
    BY Initial, AwakeInitial
  <2>2. (IInv /\ Awake) /\ [Next]_vars => (IInv /\ Awake)'
    BY Inductive, AwakeKept
  <2> QED BY <2>1, <2>2, PTL
<1>2. Awake => NeverSleepsOnData
  BY DEF Awake, NeverSleepsOnData
<1> QED BY <1>1, <1>2, PTL DEF Spec

=============================================================================
