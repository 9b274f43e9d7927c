------------------------------ MODULE RingIndex ------------------------------
(***************************************************************************)
(* RingIndex of src/ring.rs: the slot of a sequence number, computed with  *)
(* a mask when the capacity is a power of two and with a multiplication by *)
(* a rounded reciprocal when it is not.  Modulus is 2^64 in the code; here *)
(* it is a parameter, so that TLC can go through all sequence numbers of a *)
(* smaller machine word and the proof covers every word size.              *)
(***************************************************************************)
EXTENDS Integers

CONSTANTS
  Modulus,        \* sequence numbers and capacities are machine words
  MaxCapacity,    \* bound: the capacities considered
  BitAnd(_, _)       \* the machine's bitwise AND

ASSUME ModulusAssumption ==
  /\ Modulus \in Nat \ {0}
  /\ MaxCapacity \in 2 .. Modulus - 1

SeqNumbers == 0 .. Modulus - 1
Capacities == 2 .. MaxCapacity

\* usize::is_power_of_two: a single bit is set.
IsPow2(n) == BitAnd(n, n - 1) = 0

\* What a mask of low bits selects.
ASSUME AndAssumption ==
  \A n \in SeqNumbers, c \in Capacities : IsPow2(c) => BitAnd(n, c - 1) = n % c

VARIABLES
  capacity,   \* RingIndex.capacity
  number      \* the sequence number being mapped

indexVars == <<capacity, number>>

----------------------------------------------------------------------------
(* RingIndex::new                                                          *)

Mask(c)       == IF IsPow2(c) THEN c - 1 ELSE 0
Reciprocal(c) == Modulus \div c

\* Mutant of Correct: the quotient is taken as exact.
NoCorrection(r, c) == r

\* The quotient may be one short, then the remainder is one capacity too large.
Correct(r, c) == IF r >= c THEN r - c ELSE r

\* The upper half of the double-width product estimates n \div c.
Quotient(n, c) == (n * Reciprocal(c)) \div Modulus

FastMod(n, c) == Correct(n - Quotient(n, c) * c, c)

\* RingIndex::slot
SlotIndex(n, c) == IF IsPow2(c) THEN BitAnd(n, Mask(c)) ELSE FastMod(n, c)

----------------------------------------------------------------------------
(* A ring of any capacity whose publisher counts through all sequence      *)
(* numbers of the machine word.                                            *)

IndexInit == capacity \in Capacities /\ number = 0

Advance ==
  /\ number + 1 < Modulus
  /\ number' = number + 1
  /\ UNCHANGED capacity

IndexSpec == IndexInit /\ [][Advance]_indexVars

IndexTypeOK == capacity \in Capacities /\ number \in SeqNumbers

\* RingIndex::slot is the remainder by the capacity for every sequence number
\* of the word, although the reciprocal it multiplies by is rounded down.
SlotIsRemainder == SlotIndex(number, capacity) = number % capacity
=============================================================================
