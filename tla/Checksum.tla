------------------------------ MODULE Checksum ------------------------------
(***************************************************************************)
(* The checksum of util.c that create_ip4_hdr puts into the IPv4 header:   *)
(* the loops of checksum() over a memory of len bytes, one iteration per   *)
(* step.  Bytes and words keep their widths, as parameters: a uint8_t has  *)
(* B values, a uint16_t B * B and the uint32_t sum their square.           *)
(***************************************************************************)
EXTENDS Integers

CONSTANTS B,      \* values of a byte (256 in the code)
          MaxLen  \* largest len

M == B * B        \* values of a 16-bit word

\* A sum of at most MaxLen \div 2 + 1 words fits 32 bits.
ASSUME ChecksumAssumption == B \in Nat /\ B > 1 /\ MaxLen \in Nat /\ MaxLen <= M

VARIABLES pc,      \* "sum", "fold" or "done"
          mem,     \* the bytes at the argument addr ...
          len,     \* ... and their number
          count,   \* bytes left
          sum,     \* the uint32_t
          answer,  \* the result
          read     \* ghost: the numbers added so far, summed without a width

args == <<mem, len>>
vars == <<pc, args, count, sum, answer, read>>

at == len - count + 1       \* where addr points

Init ==
  /\ pc = "sum"
  /\ len \in 0 .. MaxLen /\ mem \in [1 .. len -> 0 .. B - 1]
  /\ count = len
  /\ sum = 0 /\ answer = 0 /\ read = 0

\* *addr as a uint16_t of a little-endian host.
Word == mem[at] + B * mem[at + 1]

Add(n) == sum' = (sum + n) % (M * M) /\ read' = read + n

\* while (count > 1)
AddWord ==
  /\ pc = "sum" /\ count > 1
  /\ Add(Word)
  /\ count' = count - 2
  /\ UNCHANGED <<pc, args, answer>>

\* Mutant: the left-over byte is forgotten.
AddByte_skip ==
  /\ pc = "sum" /\ count <= 1
  /\ pc' = "fold"
  /\ UNCHANGED <<args, count, sum, answer, read>>

\* if (count > 0): the left-over byte.
AddByte ==
  /\ pc = "sum" /\ count <= 1
  /\ IF count > 0 THEN Add(mem[at]) ELSE UNCHANGED <<sum, read>>
  /\ pc' = "fold"
  /\ UNCHANGED <<args, count, answer>>

\* Mutant: the high half is added where it was.
Fold_unshifted ==
  /\ pc = "fold" /\ sum >= M
  /\ sum' = (sum % M) + M * (sum \div M)
  /\ UNCHANGED <<pc, args, count, answer, read>>

\* while (sum >> 16)
Fold ==
  /\ pc = "fold" /\ sum >= M
  /\ sum' = (sum % M) + sum \div M
  /\ UNCHANGED <<pc, args, count, answer, read>>

\* Mutant: one fold is taken to be enough.
Complement_once ==
  /\ pc = "fold"
  /\ answer' = (M * M - 1 - ((sum % M) + sum \div M)) % M
  /\ pc' = "done"
  /\ UNCHANGED <<args, count, sum, read>>

\* Mutant: the complement of the 32-bit sum.
Complement_wide ==
  /\ pc = "fold" /\ sum < M
  /\ answer' = M * M - 1 - sum
  /\ pc' = "done"
  /\ UNCHANGED <<args, count, sum, read>>

\* answer = ~sum, cut to 16 bits.
Complement ==
  /\ pc = "fold" /\ sum < M
  /\ answer' = (M * M - 1 - sum) % M
  /\ pc' = "done"
  /\ UNCHANGED <<args, count, sum, read>>

Next == AddWord \/ AddByte \/ Fold \/ Complement

Spec == Init /\ [][Next]_vars

\* The call runs on.
FairSpec == Spec /\ WF_vars(Next)

-----------------------------------------------------------------------------
\* Types, with the result a 16-bit word; the 32-bit sum never wraps.
TypeOK ==
  /\ pc \in {"sum", "fold", "done"}
  /\ len \in 0 .. MaxLen /\ mem \in [1 .. len -> 0 .. B - 1]
  /\ count \in 0 .. len
  /\ sum \in 0 .. M * M - 1 /\ sum <= read
  /\ answer \in 0 .. M - 1
  /\ read \in Nat

\* What a receiver relies on: checksum() returns the word that, added to the
\* words it summed, gives a multiple of 2^16 - 1, all ones in one's complement
\* arithmetic, however many carries the folds had to take back in.
ChecksumVerifies ==
  pc = "done" => \E k \in 0 .. read + answer : read + answer = k * (M - 1)

\* The sums of the first n bytes of a memory m of l bytes as little-endian words,
\* the odd byte alone.
Sums(m, l) ==
  LET s[n \in 0 .. l] ==
        IF n = 0 THEN 0 ELSE s[n - 1] + (IF n % 2 = 1 THEN m[n] ELSE B * m[n])
  IN  s

WholeSum == Sums(mem, len)[len]

\* checksum() reads every byte of the header once and none beyond its end, for
\* even and odd lengths.
ReadsEverything == pc = "done" => read = WholeSum

\* The folding loop comes to an end.
Terminates == <>(pc = "done")

=============================================================================
