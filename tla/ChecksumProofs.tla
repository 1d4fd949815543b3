-------------------------- MODULE ChecksumProofs --------------------------
(***************************************************************************)
(* Proofs about checksum() for every width of byte and every length.       *)
(*                                                                         *)
(* ChecksumVerifies is not inductive.  What every step keeps is that the   *)
(* sum and the numbers read differ by a multiple of M - 1 (Congruent): an  *)
(* addition moves both alike, and a fold takes sum \div M times M - 1 off. *)
(* That needs the addition not to wrap, hence a bound on what is read with *)
(* count bytes to go (Bounded).                                            *)
(***************************************************************************)
EXTENDS Checksum, WellFoundedInduction, TLAPS

N == M - 1

Bounded ==
  /\ read <= MaxLen * N
  /\ pc = "sum" => read + count * N <= MaxLen * N

Congruent == \E k \in Nat : read = sum + k * N

Finished == pc = "done" => sum < M /\ answer = N - sum

IInv == TypeOK /\ Bounded /\ Congruent /\ Finished

\* What has been read are the bytes before addr, in whole words until the end.
Reading ==
  /\ pc = "sum" => (len - count) % 2 = 0 /\ read = Sums(mem, len)[len - count]
  /\ pc # "sum" => read = WholeSum

\* What the loops still have to do: bytes to read, then carries to fold.
Variant == CASE pc = "sum"  -> M * M + 1 + count
             [] pc = "fold" -> sum + 1
             [] pc = "done" -> 0

\* The width of a word: at least 4 values, and N = M - 1 of them not zero.
LEMMA Width == M \in Nat /\ M >= 4 /\ N \in Nat /\ N >= 3
<1>1. B \in Nat /\ B >= 2
  BY ChecksumAssumption
<1>2. B * B \in Nat /\ B * B >= 2 * B
  BY <1>1
<1> QED
  BY <1>1, <1>2 DEF M, N

\* A sum of bytes within the bound fits 32 bits.
LEMMA Fits == MaxLen * N < M * M
<1>1. MaxLen \in Nat /\ MaxLen <= M
  BY ChecksumAssumption
<1>2. MaxLen * N <= M * N
  BY <1>1, Width
<1>3. M * N = M * M - M
  BY Width DEF N
<1>4. M * M \in Nat /\ MaxLen * N \in Nat
  BY <1>1, Width
<1> QED
  BY <1>2, <1>3, <1>4, Width

\* Division with remainder, for any dividend and divisor.
LEMMA DivMod ==
  ASSUME NEW s \in Nat, NEW d \in Nat, d > 0
  PROVE  /\ s \div d \in Nat
         /\ s % d \in 0 .. d - 1
         /\ s = d * (s \div d) + (s % d)
  OBVIOUS

\* The remainder of a number below the divisor.
LEMMA SmallMod ==
  ASSUME NEW s \in Nat, NEW d \in Nat, s < d
  PROVE  s % d = s
  OBVIOUS

\* A word read from the memory is a 16-bit word.
LEMMA WordTyped ==
  ASSUME TypeOK, count > 1
  PROVE  Word \in 0 .. N
<1>1. B \in Nat /\ B >= 2
  BY ChecksumAssumption
<1>2. at \in 1 .. len /\ at + 1 \in 1 .. len
  BY DEF TypeOK, at
<1>3. mem[at] \in 0 .. B - 1 /\ mem[at + 1] \in 0 .. B - 1
  BY <1>2 DEF TypeOK
<1> DEFINE x == mem[at]
           y == mem[at + 1]
<1>4. B * y \in Nat /\ B * y <= B * (B - 1)
  <2> HIDE DEF y
  <2>1. y \in Nat /\ y <= B - 1
    BY <1>1, <1>3 DEF y
  <2> QED
    BY <1>1, <2>1
<1>5. B * (B - 1) = B * B - B
  BY <1>1
<1>6. x \in Nat /\ x <= B - 1
  BY <1>1, <1>3
<1>7. Word = x + B * y
  BY DEF Word
<1> HIDE DEF x, y
<1>8. B * B \in Nat
  BY <1>1
<1> QED
  BY <1>1, <1>4, <1>5, <1>6, <1>7, <1>8 DEF N, M

\* An addition within the bound does not wrap and keeps the congruence.
LEMMA Adding ==
  ASSUME TypeOK, Congruent, NEW n \in Nat, Add(n), read + n <= MaxLen * N
  PROVE  /\ sum' = sum + n /\ sum' \in 0 .. M * M - 1 /\ sum' <= read'
         /\ read' = read + n
         /\ \E k \in Nat : read' = sum' + k * N
<1>1. sum \in Nat /\ read \in Nat /\ sum <= read
  BY DEF TypeOK
<1>2. M * M \in Nat /\ MaxLen * N \in Nat
  BY Width, ChecksumAssumption
<1>3. sum + n < M * M
  BY <1>1, <1>2, Fits
<1>4. sum + n \in Nat
  BY <1>1
<1>5. (sum + n) % (M * M) = sum + n
  BY <1>2, <1>3, <1>4, SmallMod
<1>6. sum' = sum + n /\ read' = read + n
  BY <1>5 DEF Add
<1>7. PICK k \in Nat : read = sum + k * N
  BY DEF Congruent
<1>8. k * N \in Nat
  BY Width
<1>9. read' = sum' + k * N
  BY <1>1, <1>6, <1>7, <1>8
<1> QED
  BY <1>1, <1>2, <1>3, <1>6, <1>9

-----------------------------------------------------------------------------
(* The sums of the bytes.                                                  *)

\* A set of numbers with 0 in it that goes on from each number has all of them.
LEMMA Induction ==
  ASSUME NEW T \in SUBSET Nat, 0 \in T, \A n \in T : n + 1 \in T
  PROVE  T = Nat
<1> SUFFICES ASSUME Nat \ T # {} PROVE FALSE
  OBVIOUS
<1> DEFINE R == {ss \in Nat \X Nat : ss[1] < ss[2]}
           S == Nat \ T
<1>1. IsWellFoundedOn(R, Nat)
  BY NatLessThanWellFounded, Zenon DEF OpToRel
<1>2. S \subseteq Nat /\ S # {} /\ \A x, y \in Nat : y < x => <<y, x>> \in R
  OBVIOUS
<1> HIDE DEF R, S
<1>3. PICK n \in S : \A m \in S : ~ (<<m, n>> \in R)
  BY <1>1, <1>2, WFMin
<1>4. n \in Nat /\ n # 0 /\ n \notin T
  BY <1>3 DEF S
<1>5. n - 1 \in Nat /\ n - 1 < n /\ (n - 1) + 1 = n
  BY <1>4
<1>6. n - 1 \in T
  BY <1>2, <1>3, <1>4, <1>5 DEF S
<1> QED
  BY <1>4, <1>5, <1>6

\* What one byte adds, and what it is for f to be the sums up to the l-th.
Term(m, n) == IF n % 2 = 1 THEN m[n] ELSE B * m[n]

AreSums(f, m, l) == f = [n \in 0 .. l |-> IF n = 0 THEN 0 ELSE f[n - 1] + Term(m, n)]

\* There are such sums for every memory.
LEMMA SumsExist ==
  ASSUME NEW l \in Nat, NEW m
  PROVE  \E f : AreSums(f, m, l)
<1> DEFINE T == {k \in Nat : \E f : AreSums(f, m, k)}
<1>1. 0 \in T
  <2> DEFINE f == [n \in 0 .. 0 |-> 0]
  <2>1. AreSums(f, m, 0)
    BY DEF AreSums
  <2> QED
    BY <2>1
<1>2. ASSUME NEW k \in T PROVE k + 1 \in T
  <2>1. k \in Nat /\ k + 1 \in Nat
    OBVIOUS
  <2>2. PICK f : AreSums(f, m, k)
    OBVIOUS
  <2> DEFINE g == [n \in 0 .. k + 1 |-> IF n = 0 THEN 0 ELSE f[n - 1] + Term(m, n)]
  <2>3. \A n \in 0 .. k : f[n] = IF n = 0 THEN 0 ELSE f[n - 1] + Term(m, n)
    BY <2>2 DEF AreSums
  <2>4. ASSUME NEW n \in 0 .. k + 1, n # 0 PROVE g[n - 1] = f[n - 1]
    <3>1. n - 1 \in 0 .. k /\ n - 1 \in 0 .. k + 1
      BY <2>1, <2>4
    <3> QED
      BY <2>3, <3>1
  <2>5. g = [n \in 0 .. k + 1 |-> IF n = 0 THEN 0 ELSE g[n - 1] + Term(m, n)]
    BY <2>4
  <2>6. AreSums(g, m, k + 1)
    BY <2>5 DEF AreSums
  <2> QED
    BY <2>1, <2>6
<1>3. T \in SUBSET Nat
  OBVIOUS
<1> HIDE DEF T
<1>4. T = Nat
  BY <1>1, <1>2, <1>3, Induction
<1> QED
  BY <1>4 DEF T

\* So Sums is what its definition says.
LEMMA SumsDef ==
  ASSUME NEW l \in Nat, NEW m
  PROVE  /\ Sums(m, l)[0] = 0
         /\ \A n \in 1 .. l : Sums(m, l)[n] = Sums(m, l)[n - 1] + Term(m, n)
<1> DEFINE s == CHOOSE f : AreSums(f, m, l)
<1>1. AreSums(s, m, l)
  BY SumsExist, Zenon
<1>2. Sums(m, l) = s
  BY DEF Sums, AreSums, Term
<1>3. s = [n \in 0 .. l |-> IF n = 0 THEN 0 ELSE s[n - 1] + Term(m, n)]
  BY <1>1, Zenon DEF AreSums
<1> HIDE DEF s
<1>4. 0 \in 0 .. l /\ \A n \in 1 .. l : n \in 0 .. l /\ n # 0
  OBVIOUS
<1>5. s[0] = 0 /\ \A n \in 1 .. l : s[n] = s[n - 1] + Term(m, n)
  BY <1>3, <1>4
<1> QED
  BY <1>2, <1>5

-----------------------------------------------------------------------------
\* A call starts within the invariant, whatever memory it is given.
LEMMA Initially == Init => IInv
<1> SUFFICES ASSUME Init PROVE IInv
  OBVIOUS
<1>1. M * M \in Nat /\ M * M >= 1
  BY Width
<1>2. TypeOK
  BY Width, <1>1, ChecksumAssumption DEF Init, TypeOK
<1>3. len \in Nat /\ len <= MaxLen /\ read = 0 /\ sum = 0 /\ count = len
  BY ChecksumAssumption DEF Init
<1>4. len * N <= MaxLen * N /\ 0 <= MaxLen * N /\ len * N \in Nat
  BY <1>3, Width, ChecksumAssumption
<1>5. Bounded
  BY <1>3, <1>4 DEF Bounded
<1>6. Congruent
  <2>1. read = sum + 0 * N
    BY <1>3, Width
  <2> QED
    BY <2>1 DEF Congruent
<1>7. Finished
  BY DEF Init, Finished
<1> QED
  BY <1>2, <1>5, <1>6, <1>7 DEF IInv

\* Each iteration of the three loops of checksum() keeps the invariant.
LEMMA Inductive == IInv /\ [Next]_vars => IInv'
<1> SUFFICES ASSUME IInv, [Next]_vars PROVE IInv'
  OBVIOUS
<1> USE DEF IInv
<1>0. /\ count \in Nat /\ sum \in Nat /\ read \in Nat /\ len \in Nat
      /\ M * M \in Nat /\ MaxLen * N \in Nat /\ count * N \in Nat
  BY Width, ChecksumAssumption DEF TypeOK
<1>1. CASE AddWord
  <2>1. count > 1 /\ pc = "sum" /\ pc' = "sum" /\ count' = count - 2
        /\ UNCHANGED <<mem, len, answer>> /\ Add(Word)
    BY <1>1 DEF AddWord, args
  <2>2. Word \in Nat /\ Word <= N
    BY <2>1, WordTyped, Width
  <2>3. (count - 2) * N = count * N - 2 * N /\ 2 * N <= count * N
    BY <1>0, <2>1, Width
  <2>4. read + Word <= MaxLen * N
    BY <1>0, <2>1, <2>2, <2>3, Width DEF Bounded
  <2>5. /\ sum' = sum + Word /\ sum' \in 0 .. M * M - 1 /\ sum' <= read'
        /\ read' = read + Word
        /\ \E k \in Nat : read' = sum' + k * N
    BY <2>1, <2>2, <2>4, Adding
  <2>6. TypeOK'
    BY <1>0, <2>1, <2>2, <2>5 DEF TypeOK
  <2>7. read + Word + (count - 2) * N <= MaxLen * N
    BY <1>0, <2>1, <2>2, <2>3, Width DEF Bounded
  <2>8. Bounded'
    BY <2>1, <2>4, <2>5, <2>7 DEF Bounded
  <2>9. Congruent'
    BY <2>5 DEF Congruent
  <2>10. Finished'
    BY <2>1 DEF Finished
  <2> QED
    BY <2>6, <2>8, <2>9, <2>10
<1>2. CASE AddByte
  <2>1. count <= 1 /\ pc = "sum" /\ pc' = "fold" /\ UNCHANGED <<mem, len, count, answer>>
    BY <1>2 DEF AddByte, args
  <2>2. CASE count > 0
    <3>1. count = 1 /\ Add(mem[at])
      BY <1>0, <1>2, <2>1, <2>2 DEF AddByte
    <3>2. at = len /\ at \in 1 .. len
      BY <1>0, <3>1 DEF at, TypeOK
    <3>3. mem[at] \in 0 .. B - 1
      BY <3>2 DEF TypeOK
    <3>4. B \in Nat /\ B - 1 <= N
      <4>1. B \in Nat /\ B >= 2
        BY ChecksumAssumption
      <4>2. B * B >= B /\ B * B \in Nat
        BY <4>1
      <4> QED
        BY <4>1, <4>2 DEF N, M
    <3>5. mem[at] \in Nat /\ mem[at] <= N
      BY <3>3, <3>4, Width
    <3>6. read + mem[at] <= MaxLen * N
      <4>1. read + N <= MaxLen * N
        BY <1>0, <2>1, <3>1, Width DEF Bounded
      <4> QED
        BY <1>0, <3>5, <4>1, Width
    <3>7. /\ sum' \in 0 .. M * M - 1 /\ sum' <= read'
          /\ read' = read + mem[at]
          /\ \E k \in Nat : read' = sum' + k * N
      BY <3>1, <3>5, <3>6, Adding
    <3>8. TypeOK'
      <4>1. read' \in Nat
        BY <1>0, <3>5, <3>7
      <4> QED
        BY <2>1, <3>7, <4>1 DEF TypeOK
    <3>9. Bounded' /\ Congruent' /\ Finished'
      BY <2>1, <3>6, <3>7 DEF Bounded, Congruent, Finished
    <3> QED
      BY <3>8, <3>9
  <2>3. CASE ~(count > 0)
    <3>1. UNCHANGED <<sum, read>>
      BY <1>2, <2>3 DEF AddByte
    <3>2. TypeOK'
      BY <2>1, <3>1 DEF TypeOK
    <3> QED
      BY <2>1, <3>1, <3>2 DEF Bounded, Congruent, Finished
  <2> QED
    BY <2>2, <2>3
<1>3. CASE Fold
  <2> DEFINE q == sum \div M
             r == sum % M
  <2>1. pc = "fold" /\ pc' = "fold" /\ sum >= M /\ sum' = r + q
        /\ UNCHANGED <<mem, len, count, answer, read>>
    BY <1>3 DEF Fold, args
  <2>2. q \in Nat /\ r \in 0 .. M - 1 /\ sum = M * q + r
    BY <1>0, DivMod, Width
  <2> HIDE DEF q, r
  <2>3. q * N \in Nat /\ M * q = q * N + q
    BY <2>2, Width DEF N
  <2>4. sum' \in Nat /\ sum = sum' + q * N
    BY <2>1, <2>2, <2>3, Width
  <2>5. TypeOK'
    <3>1. sum' <= sum
      BY <1>0, <2>3, <2>4
    <3>2. sum' \in 0 .. M * M - 1 /\ sum' <= read'
      BY <1>0, <2>1, <2>4, <3>1 DEF TypeOK
    <3> QED
      BY <2>1, <3>2 DEF TypeOK
  <2>6. Congruent'
    <3>1. PICK k \in Nat : read = sum + k * N
      BY DEF Congruent
    <3>2. k * N \in Nat /\ (k + q) * N = k * N + q * N /\ k + q \in Nat
      BY <2>2, Width
    <3>3. read' = sum' + (k + q) * N
      BY <1>0, <2>1, <2>3, <2>4, <3>1, <3>2
    <3> QED
      BY <3>2, <3>3 DEF Congruent
  <2> QED
    BY <2>1, <2>5, <2>6 DEF Bounded, Finished
<1>4. CASE Complement
  <2>1. pc' = "done" /\ sum < M /\ answer' = (M * M - 1 - sum) % M
        /\ UNCHANGED <<mem, len, count, sum, read>>
    BY <1>4 DEF Complement, args
  <2>2. (M * M - 1 - sum) % M = N - sum
    <3> DEFINE w == M * M - 1 - sum
               q == w \div M
               r == w % M
    <3>1. M * M = M * N + M
      BY Width DEF N
    <3>2. M * N \in Nat
      BY Width
    <3>3. w = M * N + (N - sum) /\ w \in Nat /\ N - sum \in 0 .. N
      BY <1>0, <2>1, <3>1, <3>2, Width DEF N
    <3>4. q \in Nat /\ r \in 0 .. M - 1 /\ w = M * q + r
      BY <3>3, DivMod, Width
    <3> HIDE DEF w, q, r
    <3>5. M * (q - N) = M * q - M * N
      BY <3>4, Width
    <3>6. M * (q - N) = (N - sum) - r
      BY <1>0, <3>2, <3>3, <3>4, <3>5, Width
    <3>7. q = N
      <4>1. q - N \in Int /\ (N - sum) - r < M /\ (N - sum) - r > 0 - M
        BY <1>0, <3>3, <3>4, Width DEF N
      <4>2. CASE q - N >= 1
        <5>1. M * (q - N) >= M
          BY <4>1, <4>2, Width
        <5> QED
          BY <1>0, <3>4, <3>6, <4>1, <5>1, Width
      <4>3. CASE q - N <= 0 - 1
        <5>1. M * (q - N) <= 0 - M
          BY <4>1, <4>3, Width
        <5> QED
          BY <1>0, <3>4, <3>6, <4>1, <5>1, Width
      <4> QED
        BY <3>4, <4>1, <4>2, <4>3, Width
    <3>8. r = N - sum
      BY <1>0, <3>2, <3>3, <3>4, <3>7, Width
    <3> QED
      BY <3>8 DEF r, w
  <2>3. answer' = N - sum /\ answer' \in 0 .. M - 1
    BY <1>0, <2>1, <2>2, Width DEF N
  <2>4. TypeOK'
    BY <2>1, <2>3 DEF TypeOK
  <2> QED
    BY <2>1, <2>3, <2>4 DEF Bounded, Congruent, Finished
<1>5. CASE UNCHANGED vars
  BY <1>5 DEF vars, args, TypeOK, Bounded, Congruent, Finished
<1> QED
  BY <1>1, <1>2, <1>3, <1>4, <1>5 DEF Next

\* Hence it holds throughout the call.
LEMMA Invariance == Spec => []IInv
  BY Initially, Inductive, PTL DEF Spec

\* TypeOK for every width: checksum()'s 32-bit sum never wraps and its answer
\* is a 16-bit word.
THEOREM ChecksumTyped == Spec => []TypeOK
<1>1. IInv => TypeOK
  BY DEF IInv
<1> QED
  BY <1>1, Invariance, PTL

\* ChecksumVerifies for every width and every memory: the answer of checksum()
\* completes what it summed to a multiple of 2^16 - 1.
THEOREM ChecksumCorrect == Spec => []ChecksumVerifies
<1>1. IInv => ChecksumVerifies
  <2> SUFFICES ASSUME IInv, pc = "done"
               PROVE  \E k \in 0 .. read + answer : read + answer = k * (M - 1)
    BY DEF ChecksumVerifies
  <2>1. sum \in Nat /\ read \in Nat /\ answer = N - sum /\ answer \in Nat
    BY Width DEF IInv, TypeOK, Finished
  <2>2. PICK k \in Nat : read = sum + k * N
    BY DEF IInv, Congruent
  <2>3. k * N \in Nat /\ (k + 1) * N = k * N + N
    BY Width
  <2>4. read + answer = (k + 1) * N
    BY <2>1, <2>2, <2>3, Width
  <2>5. k <= k * N
    BY Width
  <2>6. k + 1 \in 0 .. read + answer
    BY <2>1, <2>3, <2>4, <2>5, Width
  <2> QED
    BY <2>4, <2>6 DEF N
<1> QED
  BY <1>1, Invariance, PTL

-----------------------------------------------------------------------------
\* Each iteration adds the bytes that come next.
LEMMA ReadingKept == IInv /\ Reading /\ [Next]_vars => Reading'
<1> SUFFICES ASSUME IInv, Reading, [Next]_vars PROVE Reading'
  OBVIOUS
<1>0. /\ len \in Nat /\ count \in 0 .. len /\ read \in Nat
      /\ mem \in [1 .. len -> 0 .. B - 1] /\ B \in Nat
  BY ChecksumAssumption DEF IInv, TypeOK
<1> DEFINE f == Sums(mem, len)
<1>1. f[0] = 0 /\ \A n \in 1 .. len : f[n] = f[n - 1] + Term(mem, n)
  BY <1>0, SumsDef
<1>2. CASE AddWord
  <2>1. /\ pc = "sum" /\ pc' = "sum" /\ count > 1 /\ count' = count - 2
        /\ UNCHANGED <<mem, len>> /\ read' = read + (mem[at] + B * mem[at + 1])
    BY <1>2 DEF AddWord, args, Add, Word
  <2>2. /\ at \in 1 .. len /\ at + 1 \in 1 .. len
        /\ at - 1 = len - count /\ (at + 1) - 1 = at /\ len - count' = at + 1
    BY <1>0, <2>1 DEF at
  <2>3. (at - 1) % 2 = 0 /\ read = f[at - 1]
    BY <2>1, <2>2 DEF Reading
  <2>4. at % 2 = 1 /\ (at + 1) % 2 = 0
    BY <2>2, <2>3
  <2>5. f[at] = f[at - 1] + mem[at] /\ f[at + 1] = f[at] + B * mem[at + 1]
    BY <1>1, <2>2, <2>4 DEF Term
  <2>6. mem[at] \in Nat /\ B * mem[at + 1] \in Nat
    <3>1. mem[at] \in Nat /\ mem[at + 1] \in Nat
      BY <1>0, <2>2
    <3> QED
      BY <1>0, <3>1
  <2>7. read' = f[at + 1]
    BY SMTT(60), <1>0, <2>1, <2>3, <2>5, <2>6
  <2>8. Sums(mem', len') = f
    BY <2>1
  <2> QED
    BY <2>1, <2>2, <2>4, <2>7, <2>8 DEF Reading
<1>3. CASE AddByte
  <2>1. /\ pc = "sum" /\ pc' = "fold" /\ count <= 1 /\ UNCHANGED <<mem, len, count>>
        /\ count > 0 => read' = read + mem[at]
        /\ ~(count > 0) => read' = read
    BY <1>3 DEF AddByte, args, Add
  <2>2. (len - count) % 2 = 0 /\ read = f[len - count]
    BY <2>1 DEF Reading
  <2>3. read' = f[len]
    <3>1. CASE count > 0
      <4>1. count = 1 /\ at = len /\ len \in 1 .. len /\ (len - 1) % 2 = 0
        BY <1>0, <2>1, <2>2, <3>1 DEF at
      <4>2. len % 2 = 1
        BY <1>0, <4>1
      <4>3. f[len] = f[len - 1] + mem[len]
        BY <1>1, <4>1, <4>2 DEF Term
      <4> QED
        BY <2>1, <2>2, <4>1, <4>3
    <3>2. CASE ~(count > 0)
      BY <1>0, <2>1, <2>2, <3>2
    <3> QED
      BY <3>1, <3>2
  <2>4. Sums(mem', len') = f
    BY <2>1
  <2> QED
    BY <2>1, <2>3, <2>4 DEF Reading, WholeSum
<1>4. CASE Fold \/ Complement \/ UNCHANGED vars
  <2>1. /\ UNCHANGED <<mem, len, count, read>> /\ (pc = "sum" <=> pc' = "sum")
    BY <1>4 DEF Fold, Complement, vars, args
  <2>2. Sums(mem', len') = f
    BY <2>1
  <2> QED
    BY <2>1, <2>2 DEF Reading, WholeSum
<1> QED
  BY <1>2, <1>3, <1>4 DEF Next

\* ReadsEverything for every memory: when checksum() returns it has added every
\* byte once, at its place in a word, whether their number is even or odd.
THEOREM ReadsAll == Spec => []ReadsEverything
<1>1. Init => Reading
  <2> SUFFICES ASSUME Init PROVE Reading
    OBVIOUS
  <2>1. len \in Nat /\ len - count = 0 /\ read = 0 /\ pc = "sum"
    BY ChecksumAssumption DEF Init
  <2>2. Sums(mem, len)[0] = 0
    BY <2>1, SumsDef
  <2> QED
    BY <2>1, <2>2 DEF Reading
<1>2. IInv /\ Reading => ReadsEverything
  BY DEF Reading, ReadsEverything
<1> QED
  BY <1>1, <1>2, ReadingKept, Invariance, PTL DEF Spec

\* The loops of checksum() come to an end: every iteration leaves less to do, and
\* a fold that is needed makes the sum smaller.
THEOREM LoopsShrink == Spec => [][Variant' \in Nat /\ Variant' < Variant]_vars
<1>1. ASSUME IInv, IInv', [Next]_vars
      PROVE  [Variant' \in Nat /\ Variant' < Variant]_vars
  <2>0. /\ count \in Nat /\ sum \in Nat /\ count' \in Nat /\ sum' \in Nat
        /\ sum < M * M /\ sum' < M * M /\ M * M \in Nat
    BY <1>1, Width DEF IInv, TypeOK
  <2>1. CASE AddWord
    BY <2>0, <2>1 DEF AddWord, Variant
  <2>2. CASE AddByte
    BY <2>0, <2>2 DEF AddByte, Variant
  <2>3. CASE Fold
    <3> DEFINE q == sum \div M
               r == sum % M
    <3>1. pc = "fold" /\ pc' = "fold" /\ sum >= M /\ sum' = r + q
      BY <2>3 DEF Fold
    <3>2. q \in Nat /\ r \in 0 .. M - 1 /\ sum = M * q + r
      BY <2>0, DivMod, Width
    <3> HIDE DEF q, r
    <3>3. q >= 1
      <4>1. q = 0 => M * q = 0
        BY Width
      <4> QED
        BY <3>1, <3>2, <4>1, Width
    <3>4. q < M * q
      <4>1. M * q = q + N * q /\ N * q >= N
        BY <3>2, <3>3, Width DEF N
      <4> QED
        BY <3>2, <4>1, Width
    <3>5. sum' < sum
      BY <3>1, <3>2, <3>4, Width
    <3> QED
      BY <2>0, <3>1, <3>5 DEF Variant
  <2>4. CASE Complement
    BY <2>0, <2>4 DEF Complement, Variant
  <2> QED
    BY <1>1, <2>1, <2>2, <2>3, <2>4 DEF Next
<1> QED
  BY <1>1, Invariance, PTL DEF Spec

=============================================================================
