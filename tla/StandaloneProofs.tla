-------------------------- MODULE StandaloneProofs --------------------------
(***************************************************************************)
(* Proofs about the parts that stand alone: the slot index, the derive     *)
(* macro and the event ring.                                               *)
(***************************************************************************)
EXTENDS RingIndex, Message, EventChannel, TLAPS

(***************************************************************************)
(* Part 1.  RingIndex::slot is the remainder by the capacity, for every    *)
(* word size.                                                              *)
(***************************************************************************)

\* Division leaves a remainder below the divisor.
LEMMA DivBounds ==
  ASSUME NEW a \in Nat, NEW b \in Nat, b > 0
  PROVE  /\ a \div b \in Nat
         /\ (a \div b) * b <= a
         /\ a < (a \div b) * b + b
  OBVIOUS

\* A remainder is what is left of a after a multiple of b, if it is below b.
LEMMA RemainderUnique ==
  ASSUME NEW a \in Nat, NEW b \in Nat, b > 0,
         NEW q \in Int, NEW r \in 0 .. b - 1, a = q * b + r
  PROVE  a % b = r
  OBVIOUS

\* A product of two naturals, each below its bound, is below the bounds' product.
LEMMA ProductBelow ==
  ASSUME NEW a \in Nat, NEW b \in Nat, NEW x \in Nat, NEW y \in Nat,
         a < x, b < y
  PROVE  a * b < x * y /\ a * b >= 0
<1>1. a * b <= a * y
  OBVIOUS
<1>2. a * y < x * y
  OBVIOUS
<1>3. a * b >= 0
  OBVIOUS
<1>4. a * b \in Int /\ a * y \in Int /\ x * y \in Int
  OBVIOUS
<1>. QED BY <1>1, <1>2, <1>3, <1>4

\* Scaled by M, the remainder under an estimated quotient q splits into the
\* rounding error of the reciprocal and that of the product.
LEMMA EstimateIdentity ==
  ASSUME NEW n \in Int, NEW c \in Int, NEW M \in Int, NEW rec \in Int,
         NEW q \in Int
  PROVE  (n - q * c) * M = n * (M - rec * c) + (n * rec - q * M) * c
<1>1. (n - q * c) * M = n * M - q * c * M
  OBVIOUS
<1>2. n * (M - rec * c) = n * M - n * rec * c
  OBVIOUS
<1>3. (n * rec - q * M) * c = n * rec * c - q * M * c
  OBVIOUS
<1>4. q * M * c = q * c * M
  OBVIOUS
<1>. QED BY <1>1, <1>2, <1>3, <1>4

\* The quotient estimated with the rounded reciprocal is exact or one short:
\* what remains of n is below two capacities.
LEMMA EstimateBounds ==
  ASSUME NEW n \in SeqNumbers, NEW c \in Nat, c >= 2
  PROVE  /\ Quotient(n, c) \in Nat
         /\ n - Quotient(n, c) * c \in 0 .. 2 * c - 1
<1> DEFINE M == Modulus
           rec == M \div c
           e == M - rec * c
           q == (n * rec) \div M
           f == n * rec - q * M
           r == n - q * c
<1>1. M \in Nat /\ M > 0 /\ n \in Nat /\ n < M
  BY ModulusAssumption DEF SeqNumbers
<1>2. rec \in Nat /\ e \in Nat /\ e < c
  BY <1>1, DivBounds
<1>3. n * rec \in Nat
  BY <1>1, <1>2
<1>4. q \in Nat /\ f \in Nat /\ f < M
  BY <1>1, <1>3, DivBounds
<1>5. r * M = n * e + f * c
  <2>1. n \in Int /\ c \in Int /\ M \in Int /\ rec \in Int /\ q \in Int
    BY <1>1, <1>2, <1>4
  <2>. HIDE DEF q, rec, M
  <2>2. (n - q * c) * M = n * (M - rec * c) + (n * rec - q * M) * c
    BY <2>1, EstimateIdentity
  <2>. QED BY <2>2
<1>6. n * e < M * c /\ n * e >= 0
  BY <1>1, <1>2, ProductBelow
<1>7. f * c < M * c /\ f * c >= 0
  BY <1>1, <1>4
<1>8. 0 <= r * M /\ r * M < (2 * c) * M
  <2>1. n * e \in Int /\ f * c \in Int /\ M * c \in Int /\ r * M \in Int
    BY <1>1, <1>2, <1>4
  <2>2. (2 * c) * M = M * c + M * c
    BY <1>1
  <2>. HIDE DEF r, e, f, q, rec, M
  <2>. QED BY <1>5, <1>6, <1>7, <2>1, <2>2
<1>9. r \in Int
  BY <1>1, <1>4
<1>10. 0 <= r /\ r < 2 * c
  <2>. HIDE DEF r, e, f, q, rec
  <2>. QED BY <1>1, <1>8, <1>9
<1>. QED BY <1>4, <1>9, <1>10 DEF Quotient, Reciprocal

\* RingIndex::slot maps a sequence number of the machine word to its remainder
\* by the capacity, on both branches.
THEOREM SlotIndexIsRemainder ==
  ASSUME NEW n \in SeqNumbers, NEW c \in Capacities
  PROVE  SlotIndex(n, c) = n % c
<1>1. n \in Nat /\ c \in Nat /\ c >= 2
  BY ModulusAssumption DEF SeqNumbers, Capacities
<1>2. CASE IsPow2(c)
  BY <1>2, AndAssumption DEF SlotIndex, Mask
<1>3. CASE ~IsPow2(c)
  <2> DEFINE q == Quotient(n, c)
             r == n - q * c
  <2>1. q \in Nat /\ r \in 0 .. 2 * c - 1
    BY <1>1, EstimateBounds
  <2>2. SlotIndex(n, c) = IF r >= c THEN r - c ELSE r
    BY <1>3 DEF SlotIndex, FastMod, Correct
  <2>3. CASE r >= c
    <3> DEFINE k == q + 1
               t == r - c
    <3>1. k \in Int /\ t \in 0 .. c - 1 /\ n = k * c + t
      BY <1>1, <2>1, <2>3
    <3>2. SlotIndex(n, c) = t
      BY <2>2, <2>3
    <3>. HIDE DEF k, t
    <3>. QED BY <1>1, <3>1, <3>2, RemainderUnique
  <2>4. CASE ~(r >= c)
    <3>1. q \in Int /\ r \in 0 .. c - 1 /\ n = q * c + r
      BY <1>1, <2>1, <2>4
    <3>2. SlotIndex(n, c) = r
      BY <2>2, <2>4
    <3>. HIDE DEF q, r
    <3>. QED BY <1>1, <3>1, <3>2, RemainderUnique
  <2>. QED BY <2>3, <2>4
<1>. QED BY <1>2, <1>3

\* Every reachable pair of capacity and sequence number is in range.
LEMMA Typing == IndexSpec => []IndexTypeOK
<1>1. IndexInit => IndexTypeOK
  BY ModulusAssumption DEF IndexInit, IndexTypeOK, SeqNumbers
<1>2. IndexTypeOK /\ [Advance]_indexVars => IndexTypeOK'
  BY ModulusAssumption DEF IndexTypeOK, Advance, indexVars, SeqNumbers
<1>. QED BY <1>1, <1>2, PTL DEF IndexSpec

\* The slot of every sequence number a publisher reaches is its remainder by
\* the capacity (RingIndex::slot).
THEOREM SlotAlwaysRemainder == IndexSpec => []SlotIsRemainder
<1>1. IndexTypeOK => SlotIsRemainder
  BY SlotIndexIsRemainder DEF IndexTypeOK, SlotIsRemainder
<1>. QED BY <1>1, Typing, PTL

(***************************************************************************)
(* Part 2.  The conversions that derive(Message) generates lose nothing,   *)
(* for every list of fields and every width of the numbers.                *)
(***************************************************************************)

----------------------------------------------------------------------------
(* The conversions of derive(Message) lose nothing.                        *)

\* The remainder of a number that is at most one modulus below zero.
LEMMA LowBits ==
  ASSUME NEW n \in Int, NEW h \in Nat \ {0}
  PROVE  /\ n % (2 * h) \in 0 .. 2 * h - 1
         /\ 0 <= n /\ n < 2 * h => n % (2 * h) = n
         /\ -(2 * h) <= n /\ n < 0 => n % (2 * h) = n + 2 * h
<1> DEFINE S == 2 * h
<1>0. S \in Nat \ {0} OBVIOUS
<1> HIDE DEF S
<1>1. n % S \in 0 .. S - 1 BY <1>0
<1>2. 0 <= n /\ n < S => n % S = n BY <1>0
<1>3. -S <= n /\ n < 0 => n % S = n + S BY <1>0
<1> QED BY <1>1, <1>2, <1>3 DEF S

LEMMA ValuesAreIntegers ==
  ASSUME NEW ty \in Numeric, NEW n \in Values(ty)
  PROVE  n \in Int
<1>1. ty # "bool" /\ Half[ty] \in Nat BY HalfAssumption DEF Numeric, SizeOf
<1> QED BY <1>1 DEF Values

\* A cast yields a value of the type, and leaves one that fits alone.
LEMMA CastFits ==
  ASSUME NEW ty \in Numeric, NEW n \in Int
  PROVE  As(n, ty) \in Values(ty) /\ (n \in Values(ty) => As(n, ty) = n)
<1> DEFINE h == Half[ty]
<1>0. h \in Nat \ {0} /\ ty # "bool" BY HalfAssumption DEF Numeric, SizeOf
<1>1. /\ n % (2 * h) \in 0 .. 2 * h - 1
      /\ 0 <= n /\ n < 2 * h => n % (2 * h) = n
      /\ -(2 * h) <= n /\ n < 0 => n % (2 * h) = n + 2 * h
  BY <1>0, LowBits
<1>2. As(n, ty) = IF ty \in Signed /\ n % (2 * h) >= h THEN (n % (2 * h)) - 2 * h
                  ELSE n % (2 * h)
  BY DEF As
<1>3. Values(ty) = IF ty \in Signed THEN -h .. h - 1 ELSE 0 .. 2 * h - 1
  BY <1>0 DEF Values
<1> HIDE DEF h
<1>4. PICK m : m = n % (2 * h) OBVIOUS
<1>5. CASE ty \in Signed BY <1>0, <1>1, <1>2, <1>3, <1>4, <1>5
<1>6. CASE ty \notin Signed BY <1>0, <1>1, <1>2, <1>3, <1>4, <1>6
<1> QED BY <1>5, <1>6

\* A cast to a type that is as wide and back is the identity.
LEMMA CastBack ==
  ASSUME NEW a \in Numeric, NEW b \in Numeric, SizeOf[a] <= SizeOf[b],
         b \in Signed => a \in Signed,
         a \in Signed /\ b \notin Signed => SizeOf[b] <= SizeOf[a],
         NEW n \in Values(a)
  PROVE  As(n, b) \in Values(b) /\ As(As(n, b), a) = n
<1> DEFINE h == Half[a]
           k == Half[b]
<1>0. /\ h \in Nat \ {0} /\ k \in Nat \ {0} /\ h <= k
      /\ a \in Signed /\ b \notin Signed => h = k
      /\ a # "bool" /\ b # "bool"
  BY HalfAssumption DEF Numeric, SizeOf
<1>1. Values(a) = IF a \in Signed THEN -h .. h - 1 ELSE 0 .. 2 * h - 1
  BY <1>0 DEF Values
<1>2. Values(b) = IF b \in Signed THEN -k .. k - 1 ELSE 0 .. 2 * k - 1
  BY <1>0 DEF Values
<1>3. As(n, a) = n /\ n \in Int
  BY <1>0, <1>1, CastFits
<1>4. CASE n \in Values(b)
  BY <1>3, <1>4, CastFits
<1>5. CASE n \notin Values(b)
  <2>1. a \in Signed /\ b \notin Signed /\ h = k /\ n < 0 /\ -h <= n
    BY <1>0, <1>1, <1>2, <1>5
  <2>2. n % (2 * k) = n + 2 * k BY <1>0, <2>1, <1>3, LowBits
  <2>3. As(n, b) = n + 2 * k BY <2>1, <2>2 DEF As
  <2>4. PICK m : m = n + 2 * k OBVIOUS
  <2>5. m \in Int /\ h <= m /\ 0 <= m /\ m < 2 * h /\ m - 2 * h = n
    BY <1>0, <1>3, <2>1, <2>4
  <2>6. m % (2 * h) = m BY <1>0, <2>5, LowBits
  <2>7. As(m, a) = m - 2 * h BY <2>1, <2>5, <2>6 DEF As
  <2>8. m \in Values(b) BY <1>0, <1>2, <2>1, <2>5
  <2> QED BY <2>3, <2>4, <2>5, <2>7, <2>8
<1> QED BY <1>4, <1>5

\* The wire type of a supported number, optional or not, is as wide as the field, and of the
\* same sign unless it is exactly as wide.
LEMMA WireIsWide ==
  ASSUME NEW f \in FieldTypes, ~Unsupported(f), f.kind \in {"plain", "option"},
         f.type # "bool"
  PROVE  LET ty == WireOf(f)[1].type
         IN  /\ f.type \in Numeric /\ ty \in Numeric /\ SizeOf[f.type] <= SizeOf[ty]
             /\ ty \in Signed => f.type \in Signed
             /\ f.type \in Signed /\ ty \notin Signed => SizeOf[ty] <= SizeOf[f.type]
<1> DEFINE ty == WireOf(f)[1].type
<1>1. f.type \in Numeric
  BY DEF Unsupported
<1>2. CASE f.kind = "plain"
  <2>1. ty \in {f.type, IF f.type = "usize" THEN "u64" ELSE f.type,
                IF f.type = "isize" THEN "i64" ELSE f.type}
    BY <1>2 DEF WireOf, Entry
  <2> QED BY <1>1, <2>1 DEF Numeric, SizeOf, Signed
<1>3. CASE f.kind = "option"
  <2>1. ty = OptionWire(f.type)
    BY <1>3 DEF WireOf, Entry
  <2> QED BY <1>1, <2>1 DEF OptionWire, Numeric, SizeOf, Signed
<1> QED BY <1>2, <1>3

\* A supported field read back from its wire fields is the field written.
LEMMA FieldRoundTrips ==
  ASSUME NEW f \in FieldTypes, ~Unsupported(f), NEW v \in DomainValues(f)
  PROVE  FromWire(f, ToWire(f, v)) = v
<1> DEFINE ty == WireOf(f)[1].type
<1>0. f.kind \in {"plain", "array", "option", "enum"} BY FieldsAssumption
<1>1. CASE f.kind \in {"enum", "array"}
  BY <1>1 DEF FromWire, ToWire
<1>2. ASSUME f.kind \in {"plain", "option"}, NEW x \in Values(f.type)
      PROVE  FromNumber(ToNumber(x, f.type, ty), f.type) = x
  <2>1. CASE f.type = "bool"
    BY <1>2, <2>1 DEF FromNumber, ToNumber, Values
  <2>2. CASE f.type # "bool"
    <3>1. As(As(x, ty), f.type) = x BY <1>2, <2>2, WireIsWide, CastBack
    <3> QED BY <2>2, <3>1 DEF FromNumber, ToNumber
  <2> QED BY <2>1, <2>2
<1>3. CASE f.kind = "plain"
  <2>1. v \in Values(f.type) BY <1>3 DEF DomainValues
  <2>2. ToWire(f, v) = <<ToNumber(v, f.type, ty)>> BY <1>3 DEF ToWire
  <2>3. FromWire(f, ToWire(f, v)) = FromNumber(ToWire(f, v)[1], f.type)
    BY <1>3 DEF FromWire
  <2> QED BY <1>2, <1>3, <2>1, <2>2, <2>3
<1>4. CASE f.kind = "option"
  <2>0. v = None \/ \E x \in Values(f.type) : v = Some(x)
    BY <1>4 DEF DomainValues
  <2>1. CASE v = None
    <3>1. ToWire(f, v) = <<0, 0>> BY <1>4, <2>1 DEF ToWire
    <3> QED BY <1>4, <2>1, <3>1 DEF FromWire, Present
  <2>2. CASE \E x \in Values(f.type) : v = Some(x)
    <3>1. PICK x \in Values(f.type) : v = <<x>> BY <2>2 DEF Some
    <3>2. v # None /\ v[1] = x BY <3>1 DEF None
    <3>3. ToWire(f, v) = <<ToNumber(x, f.type, ty), 1>> BY <1>4, <3>2 DEF ToWire
    <3>4. Present(ToWire(f, v)) BY <3>3 DEF Present
    <3>5. FromWire(f, ToWire(f, v)) = Some(FromNumber(ToWire(f, v)[1], f.type))
      BY <1>4, <3>4 DEF FromWire
    <3>6. FromNumber(ToWire(f, v)[1], f.type) = x BY <1>2, <1>4, <3>3
    <3> QED BY <3>1, <3>5, <3>6 DEF Some
  <2> QED BY <2>0, <2>1, <2>2
<1> QED BY <1>0, <1>1, <1>3, <1>4

\* Without an enum, any bit pattern of the wire fields is a value of the field.
LEMMA FieldTotal ==
  ASSUME NEW f \in FieldTypes, ~Unsupported(f), f.kind # "enum", NEW w \in WireValues(f)
  PROVE  FromWire(f, w) \in DomainValues(f)
<1>0. f.kind \in {"plain", "array", "option"} BY FieldsAssumption
<1>1. w[1] \in Values(WireOf(f)[1].type)
  <2>1. CASE f.kind \in {"plain", "array"}
    <3>1. Len(WireOf(f)) = 1 BY <2>1 DEF WireOf
    <3> QED BY <3>1 DEF WireValues
  <2>2. CASE f.kind = "option"
    <3>1. Len(WireOf(f)) = 2 BY <2>2 DEF WireOf
    <3> QED BY <3>1 DEF WireValues
  <2> QED BY <1>0, <2>1, <2>2
<1>2. ASSUME f.kind \in {"plain", "option"}
      PROVE  FromNumber(w[1], f.type) \in Values(f.type)
  <2>1. CASE f.type = "bool" BY <2>1 DEF FromNumber, Values
  <2>2. CASE f.type # "bool"
    <3>1. f.type \in Numeric /\ WireOf(f)[1].type \in Numeric BY <1>2, <2>2, WireIsWide
    <3>2. w[1] \in Int BY <1>1, <3>1, ValuesAreIntegers, Zenon
    <3>3. As(w[1], f.type) \in Values(f.type) BY <3>1, <3>2, CastFits
    <3> QED BY <2>2, <3>3 DEF FromNumber
  <2> QED BY <2>1, <2>2
<1>3. CASE f.kind = "plain" BY <1>2, <1>3 DEF FromWire, DomainValues
<1>4. CASE f.kind = "option"
  <2>1. DomainValues(f) = {Some(v) : v \in Values(f.type)} \cup {None}
    BY <1>4 DEF DomainValues
  <2>2. FromWire(f, w) = IF Present(w) THEN Some(FromNumber(w[1], f.type)) ELSE None
    BY <1>4 DEF FromWire
  <2>3. FromNumber(w[1], f.type) \in Values(f.type) BY <1>2, <1>4
  <2> QED BY <2>1, <2>2, <2>3, Zenon
<1>5. CASE f.kind = "array"
  <2>1. WireOf(f)[1].type = f.type BY <1>5 DEF WireOf, Entry
  <2> QED BY <1>1, <1>5, <2>1 DEF FromWire, DomainValues
<1> QED BY <1>0, <1>3, <1>4, <1>5

----------------------------------------------------------------------------
(* The macro.                                                              *)

\* Until the macro stops, every field it has seen is supported, and an enum among
\* them is remembered.
MacroInv ==
  /\ fields \in Seq(FieldTypes)
  /\ has_enum \in BOOLEAN
  /\ phase # "rejected" =>
       \A i \in DOMAIN fields :
          /\ ~Unsupported(fields[i])
          /\ fields[i].kind = "enum" => has_enum

\* MacroInv holds of every run of derive_message, for every list of fields.
THEOREM MacroInvariance == MessageSpec => []MacroInv
<1>1. MessageInit => MacroInv
  <2>1. <<>> \in Seq(FieldTypes) /\ DOMAIN <<>> = {} OBVIOUS
  <2> QED BY <2>1, Zenon DEF MessageInit, MacroInv
<1>2. MacroInv /\ [MessageNext]_messageVars => MacroInv'
  <2> SUFFICES ASSUME MacroInv, [MessageNext]_messageVars PROVE MacroInv'
    OBVIOUS
  <2> USE DEF MacroInv
  <2>1. ASSUME NEW f \in FieldTypes, ProcessField(f) PROVE MacroInv'
    <3>0. /\ phase = "fields" /\ fields' = Append(fields, f) /\ fields' \in Seq(FieldTypes)
          /\ \/ phase' = "rejected" /\ UNCHANGED has_enum
             \/ ~Unsupported(f) /\ has_enum' = (has_enum \/ f.kind = "enum")
      BY <2>1 DEF ProcessField, EnumSeen
    <3>1. ASSUME NEW i \in DOMAIN fields', phase' # "rejected"
          PROVE  ~Unsupported(fields'[i]) /\ (fields'[i].kind = "enum" => has_enum')
      <4>1. CASE i = Len(fields) + 1
        <5>1. fields'[i] = f BY <3>0, <4>1
        <5> QED BY <3>0, <3>1, <5>1, Zenon
      <4>2. CASE i # Len(fields) + 1
        <5>1. i \in DOMAIN fields /\ fields'[i] = fields[i] BY <3>0, <3>1, <4>2
        <5> QED BY <3>0, <3>1, <5>1
      <4> QED BY <4>1, <4>2
    <3> QED BY <3>0, <3>1
  <2>2. CASE Emit BY <2>2 DEF Emit
  <2>3. CASE UNCHANGED messageVars BY <2>3 DEF messageVars
  <2> QED BY <2>1, <2>2, <2>3 DEF MessageNext
<1> QED BY <1>1, <1>2, PTL DEF MessageSpec

\* A message read back from the wire is the message written, for every width of the
\* primitive types and every list of fields (From<Name>, From<NameWire>).
THEOREM WireRoundTrips == MessageSpec => []RoundTrips
<1>1. MacroInv => RoundTrips
  BY FieldRoundTrips DEF MacroInv, RoundTrips
<1> QED BY <1>1, MacroInvariance, PTL

\* The safe From<NameWire> that is generated without enum fields is total: every
\* bit pattern is a message (has_enum_fields).
THEOREM SafeFromTotal == MessageSpec => []SafeFromIsTotal
<1>1. MacroInv => SafeFromIsTotal
  BY FieldTotal DEF MacroInv, SafeFromIsTotal
<1> QED BY <1>1, MacroInvariance, PTL

(***************************************************************************)
(* Part 3.  The event ring: the trackers alone keep the publisher's closure *)
(* away from the values that subscribers have borrowed or have still to    *)
(* see, for every capacity, number of subscribers and number of messages,  *)
(* and whether closures panic or not.                                      *)
(***************************************************************************)

----------------------------------------------------------------------------
(* The invariant.                                                          *)

\* Where the publisher is, relative to the bound and to the ring cursor.
PubInv ==
  /\ pubPc # "idle" => seq < MaxSeq
  /\ cursor = seq - 1
  /\ pubPc = "cursor" => slots[Slot(seq)] = seq

\* The lock excludes the publisher's scan from a registration in progress.
LockInv ==
  /\ pubPc = "scan" => lock = "publisher"
  /\ \A s \in Subs : pc[s] \in {"locked", "push"} => lock = s

\* A subscriber's tracker is its position, not past the head, and in the list
\* once subscribe has returned.
TrackerInv ==
  \A s \in Subs :
     /\ tracker[s] = subCursor[s]
     /\ subCursor[s] <= seq
     /\ pc[s] = "reading" => subCursor[s] < seq
     /\ Live(s) /\ pc[s] # "push" => s \in trackers

\* The minimum of a scan bounds the live trackers it has been past.
ScanInv ==
  pubPc = "scan" =>
     /\ scanMin <= seq
     /\ \A s \in Subs :
           Live(s) /\ s \notin scanTodo => scanMin # Nothing /\ scanMin <= tracker[s]

\* The cached minimum bounds every live tracker, also those it never saw.
CacheInv ==
  /\ cachedSlowest <= seq
  /\ \A s \in Subs : Live(s) => cachedSlowest <= tracker[s]

\* Once the publisher has found room, no live tracker is a ring behind.
RoomInv ==
  pubPc \in {"mutate", "altering", "cursor"} =>
     \A s \in Subs : Live(s) => seq < tracker[s] + Capacity

IInv ==
  /\ TypeOK
  /\ PubInv
  /\ LockInv
  /\ TrackerInv
  /\ ScanInv
  /\ CacheInv
  /\ RoomInv
  /\ UnprocessedRetained

----------------------------------------------------------------------------
(* Slots.                                                                  *)

LEMMA SlotInRange == \A n \in Nat : Slot(n) \in Slots
  BY CapacityAssumption DEF Slot, Slots

\* Messages less than one lap apart do not share a slot.
LEMMA SlotWithinLap ==
  \A m, n \in Nat : m < n /\ n < m + Capacity => Slot(m) # Slot(n)
<1> SUFFICES ASSUME NEW m \in Nat, NEW n \in Nat, m < n, n < m + Capacity,
                    Slot(m) = Slot(n)
             PROVE  FALSE
  OBVIOUS
<1> DEFINE p == m \div Capacity
           q == n \div Capacity
           r == Slot(n)
<1>1. p \in Nat /\ q \in Nat /\ r \in Int
      /\ m = p * Capacity + r /\ n = q * Capacity + r
  BY CapacityAssumption DEF Slot
<1> HIDE DEF p, q, r
<1> DEFINE k == q - p
<1>2. k \in Int /\ n - m = k * Capacity
  BY <1>1, CapacityAssumption
<1> HIDE DEF k
<1>3. 0 < k * Capacity /\ k * Capacity < Capacity
  BY <1>2, CapacityAssumption
<1>4. CASE k <= 0
  BY <1>2, <1>3, <1>4, CapacityAssumption
<1>5. CASE k >= 1
  BY <1>2, <1>3, <1>5, CapacityAssumption
<1>. QED BY <1>2, <1>4, <1>5

\* The slot about to be altered holds no message somebody has still to see.
LEMMA RoomSpares ==
  ASSUME IInv, pubPc \in {"mutate", "altering", "cursor"}, NEW s \in Subs, Live(s),
         NEW m \in Nat, subCursor[s] <= m, m < seq
  PROVE  Slot(m) # Slot(seq)
<1>1. seq \in Nat /\ subCursor[s] \in Nat /\ tracker[s] = subCursor[s]
  BY DEF IInv, TypeOK, TrackerInv
<1>2. seq < m + Capacity
  BY <1>1, CapacityAssumption DEF IInv, RoomInv
<1>. QED BY <1>1, <1>2, SlotWithinLap

----------------------------------------------------------------------------
(* The steps preserve it.                                                  *)

LEMMA TypeNext ==
  ASSUME IInv, Next
  PROVE  TypeOK'
<1> USE MaxSeqAssumption, CapacityAssumption DEF TypeOK
<1>0. /\ TypeOK /\ Slot(seq) \in Slots /\ (pubPc # "idle" => seq \in Seqs /\ seq + 1 \in 0 .. MaxSeq)
      /\ NextAfter \in 0 .. MaxSeq
  BY SlotInRange DEF IInv, PubInv, Seqs, NextAfter, Nothing
<1>1. CASE HasRoom \/ ScanLock \/ ScanDone \/ PublishPanics
  BY <1>0, <1>1 DEF HasRoom, ScanLock, ScanDone, PublishPanics, ringVars, subVars
<1>2. ASSUME NEW s \in Subs, ScanEntry(s) PROVE TypeOK'
  BY <1>0, <1>2 DEF ScanEntry, subVars
<1>3. CASE BeginAlter \/ EndAlter
  BY <1>0, <1>3 DEF BeginAlter, EndAlter, subVars
<1>4. CASE StoreCursor
  BY <1>0, <1>4 DEF StoreCursor, subVars
<1>5. ASSUME NEW s \in Subs, SubStep(s) PROVE TypeOK'
  <2>1. CASE SubscribeLock(s) \/ PushTracker(s)
    BY <1>0, <2>1 DEF SubscribeLock, PushTracker, pubVars
  <2>2. CASE ChooseStart(s)
    BY <1>0, <2>2 DEF ChooseStart, ringVars, pubVars
  <2>3. CASE Borrow(s) \/ ProcessPanics(s) \/ DropSubscriber(s)
    BY <1>0, <2>3 DEF Borrow, ProcessPanics, DropSubscriber, ringVars, pubVars
  <2>4. CASE Release(s)
    <3>1. subCursor[s] + 1 \in 0 .. MaxSeq
      BY <1>0, <2>4 DEF Release, IInv, TrackerInv
    <3>. QED BY <1>0, <2>4, <3>1 DEF Release, ringVars, pubVars
  <2>. QED BY <1>5, <2>1, <2>2, <2>3, <2>4 DEF SubStep
<1>. QED BY <1>1, <1>2, <1>3, <1>4, <1>5 DEF Next, PubStep
\* The publisher: its scan and its cache never pass a live tracker, and what it
\* alters is out of every subscriber's reach.
LEMMA PubKeeps ==
  ASSUME IInv, PubStep
  PROVE  IInv'
<1> USE DEF Live, subVars, ringVars
<1>0. /\ TypeOK /\ TypeOK' /\ PubInv /\ LockInv /\ TrackerInv /\ ScanInv /\ CacheInv
      /\ RoomInv /\ UnprocessedRetained
      /\ seq \in Nat /\ cachedSlowest \in Nat /\ scanMin \in Int /\ Slot(seq) \in Slots
      /\ \A s \in Subs : tracker[s] \in Nat /\ subCursor[s] \in Nat
      /\ \A m \in Seqs : m \in Nat
  BY TypeNext, SlotInRange DEF IInv, TypeOK, Next, Nothing, Seqs
<1>1. CASE HasRoom
  <2>1. /\ PubInv' /\ LockInv' /\ TrackerInv' /\ ScanInv' /\ CacheInv'
        /\ UnprocessedRetained'
    BY <1>0, <1>1 DEF HasRoom, PubInv, LockInv, TrackerInv, ScanInv, CacheInv,
       UnprocessedRetained, TypeOK
  <2>2. RoomInv'
    BY <1>0, <1>1, CapacityAssumption DEF HasRoom, RoomInv, CacheInv, Full
  <2>. QED BY <1>0, <2>1, <2>2 DEF IInv
<1>2. CASE ScanLock
  <2>1. /\ PubInv' /\ LockInv' /\ TrackerInv' /\ CacheInv' /\ RoomInv' /\ UnprocessedRetained'
    BY <1>0, <1>2, SubsAssumption DEF ScanLock, PubInv, LockInv, TrackerInv, CacheInv, RoomInv,
       UnprocessedRetained
  <2>2. ScanInv'
    <3>1. ASSUME NEW s \in Subs, Live(s) PROVE s \in trackers
      BY <1>0, <1>2, <3>1, SubsAssumption DEF ScanLock, LockInv, TrackerInv
    <3>. QED BY <1>0, <1>2, <3>1 DEF ScanLock, ScanInv, Nothing
  <2>. QED BY <1>0, <2>1, <2>2 DEF IInv
<1>3. ASSUME NEW u \in Subs, ScanEntry(u) PROVE IInv'
  <2>1. /\ PubInv' /\ LockInv' /\ TrackerInv' /\ CacheInv' /\ RoomInv' /\ UnprocessedRetained'
    BY <1>0, <1>3 DEF ScanEntry, PubInv, LockInv, TrackerInv, CacheInv, RoomInv,
       UnprocessedRetained
  <2>2. ScanInv'
    BY <1>0, <1>3 DEF ScanEntry, ScanInv, TrackerInv, Nothing
  <2>. QED BY <1>0, <2>1, <2>2 DEF IInv
<1>4. CASE ScanDone
  <2>1. \A s \in Subs : Live(s) => scanMin # Nothing /\ scanMin <= tracker[s]
    BY <1>0, <1>4 DEF ScanDone, ScanInv
  <2>2. /\ PubInv' /\ LockInv' /\ TrackerInv' /\ ScanInv' /\ UnprocessedRetained'
    BY <1>0, <1>4, SubsAssumption DEF ScanDone, PubInv, LockInv, TrackerInv, ScanInv,
       UnprocessedRetained
  <2>3. CacheInv'
    BY <1>0, <1>4, <2>1 DEF ScanDone, ScanInv, CacheInv
  <2>4. RoomInv'
    BY <1>0, <1>4, <2>1, CapacityAssumption DEF ScanDone, RoomInv, Full
  <2>. QED BY <1>0, <2>2, <2>3, <2>4 DEF IInv
<1>5. CASE BeginAlter \/ EndAlter
  <2>1. /\ pubPc \in {"mutate", "altering"} /\ pubPc' \in {"altering", "cursor"}
        /\ UNCHANGED <<cursor, trackers, lock, seq, cachedSlowest, scanTodo, scanMin, subVars>>
        /\ \A i \in Slots : i # Slot(seq) => slots'[i] = slots[i]
        /\ pubPc' = "cursor" => slots'[Slot(seq)] = seq
    BY <1>0, <1>5 DEF BeginAlter, EndAlter, TypeOK
  <2>2. PubInv' /\ LockInv' /\ TrackerInv' /\ ScanInv' /\ CacheInv' /\ RoomInv'
    BY <1>0, <2>1 DEF PubInv, LockInv, TrackerInv, ScanInv, CacheInv, RoomInv
  <2>3. UnprocessedRetained'
    <3> SUFFICES ASSUME NEW s \in Subs, NEW m \in Seqs, Live(s), subCursor[s] <= m, m <= cursor
                 PROVE  slots'[Slot(m)] = m
      BY <2>1 DEF UnprocessedRetained
    <3>a. m \in Nat /\ cursor = seq - 1
      BY <1>0, Zenon DEF PubInv
    <3>b. m < seq
      BY <1>0, <3>a
    <3>1. Slot(m) # Slot(seq)
      BY <2>1, <3>a, <3>b, RoomSpares, Zenon
    <3>2. Slot(m) \in Slots
      BY <1>0, SlotInRange
    <3>. QED BY <1>0, <2>1, <3>1, <3>2 DEF UnprocessedRetained
  <2>. QED BY <1>0, <2>2, <2>3 DEF IInv
<1>6. CASE PublishPanics
  BY <1>0, <1>6 DEF PublishPanics, IInv, PubInv, LockInv, TrackerInv, ScanInv, CacheInv, RoomInv,
     UnprocessedRetained
<1>7. CASE StoreCursor
  <2>1. /\ PubInv' /\ LockInv' /\ TrackerInv' /\ ScanInv' /\ CacheInv' /\ RoomInv'
    BY <1>0, <1>7 DEF StoreCursor, PubInv, LockInv, TrackerInv, ScanInv, CacheInv, RoomInv
  <2>2. UnprocessedRetained'
    <3>1. \A m \in Seqs : m <= cursor' => m <= cursor \/ m = seq
      BY <1>0, <1>7 DEF StoreCursor, PubInv
    <3>. QED BY <1>0, <1>7, <3>1 DEF StoreCursor, UnprocessedRetained, PubInv
  <2>. QED BY <1>0, <2>1, <2>2 DEF IInv
<1>. QED BY <1>1, <1>2, <1>3, <1>4, <1>5, <1>6, <1>7 DEF PubStep

\* The subscribers: a registration starts at the head under the lock, and a
\* tracker only moves forward.
LEMMA SubKeeps ==
  ASSUME IInv, NEW s \in Subs, SubStep(s)
  PROVE  IInv'
<1> USE DEF Live, pubVars, ringVars
<1>0. /\ TypeOK /\ TypeOK' /\ PubInv /\ LockInv /\ TrackerInv /\ ScanInv /\ CacheInv
      /\ RoomInv /\ UnprocessedRetained
      /\ seq \in Nat /\ cachedSlowest \in Nat /\ scanMin \in Int
      /\ \A u \in Subs : tracker[u] \in Nat /\ subCursor[u] \in Nat
      /\ pc \in [Subs -> {"absent", "locked", "push", "idle", "reading", "gone"}]
      /\ subCursor \in [Subs -> 0 .. MaxSeq] /\ tracker \in [Subs -> 0 .. MaxSeq]
  BY TypeNext DEF IInv, TypeOK, Next, Nothing
<1>1. CASE SubscribeLock(s)
  BY <1>0, <1>1, SubsAssumption DEF SubscribeLock, IInv, PubInv, LockInv, TrackerInv, ScanInv,
     CacheInv, RoomInv, UnprocessedRetained
<1>2. CASE ChooseStart(s)
  <2>1. NextAfter = seq
    BY <1>0 DEF NextAfter, PubInv, Nothing
  <2>2. /\ pc[s] = "locked" /\ pc'[s] = "push" /\ subCursor'[s] = seq /\ tracker'[s] = seq
        /\ \A u \in Subs \ {s} : /\ pc'[u] = pc[u] /\ subCursor'[u] = subCursor[u]
                                 /\ tracker'[u] = tracker[u]
        /\ UNCHANGED <<ringVars, pubVars>> /\ pubPc # "scan"
    BY <1>0, <1>2, <2>1, SubsAssumption DEF ChooseStart, LockInv
  <2>3. PubInv' /\ LockInv' /\ TrackerInv' /\ ScanInv'
    BY <1>0, <2>2 DEF PubInv, LockInv, TrackerInv, ScanInv
  <2>4. CacheInv' /\ RoomInv'
    BY <1>0, <2>2, CapacityAssumption DEF CacheInv, RoomInv
  <2>5. UnprocessedRetained'
    BY <1>0, <2>2 DEF UnprocessedRetained, PubInv, Seqs
  <2>. QED BY <1>0, <2>3, <2>4, <2>5 DEF IInv
<1>3. CASE PushTracker(s)
  <2>1. pubPc # "scan"
    BY <1>0, <1>3, SubsAssumption DEF PushTracker, LockInv
  <2>. QED BY <1>0, <1>3, <2>1, SubsAssumption DEF PushTracker, IInv, PubInv, LockInv,
       TrackerInv, ScanInv, CacheInv, RoomInv, UnprocessedRetained
<1>4. CASE Borrow(s) \/ ProcessPanics(s) \/ DropSubscriber(s)
  <2>1. /\ pc[s] \in {"idle", "reading"} /\ pc'[s] \in {"idle", "reading", "gone"}
        /\ pc'[s] = "reading" => subCursor[s] < seq
        /\ \A u \in Subs \ {s} : pc'[u] = pc[u]
        /\ UNCHANGED <<ringVars, pubVars, subCursor, tracker>>
    BY <1>0, <1>4 DEF Borrow, ProcessPanics, DropSubscriber, PubInv
  <2>. QED BY <1>0, <2>1 DEF IInv, PubInv, LockInv, TrackerInv, ScanInv, CacheInv, RoomInv,
       UnprocessedRetained
<1>5. CASE Release(s)
  <2>1. /\ pc[s] = "reading" /\ pc'[s] = "idle"
        /\ subCursor'[s] = subCursor[s] + 1 /\ tracker'[s] = subCursor[s] + 1
        /\ \A u \in Subs \ {s} : /\ pc'[u] = pc[u] /\ subCursor'[u] = subCursor[u]
                                 /\ tracker'[u] = tracker[u]
        /\ UNCHANGED <<ringVars, pubVars>>
    BY <1>0, <1>5 DEF Release
  <2>2. PubInv' /\ LockInv' /\ TrackerInv' /\ ScanInv' /\ CacheInv'
    BY <1>0, <2>1 DEF PubInv, LockInv, TrackerInv, ScanInv, CacheInv
  <2>3. RoomInv'
    BY <1>0, <2>1, CapacityAssumption DEF RoomInv, TrackerInv
  <2>4. UnprocessedRetained'
    BY <1>0, <2>1 DEF UnprocessedRetained, Seqs
  <2>. QED BY <1>0, <2>2, <2>3, <2>4 DEF IInv
<1>. QED BY <1>1, <1>2, <1>3, <1>4, <1>5 DEF SubStep

----------------------------------------------------------------------------
(* The theorems.                                                           *)

LEMMA InitInv == Init => IInv
<1> SUFFICES ASSUME Init PROVE IInv
  OBVIOUS
<1>1. TypeOK
  BY MaxSeqAssumption DEF Init, TypeOK
<1>2. PubInv /\ LockInv /\ TrackerInv /\ ScanInv /\ CacheInv /\ RoomInv /\ UnprocessedRetained
  BY DEF Init, PubInv, LockInv, TrackerInv, ScanInv, CacheInv, RoomInv, UnprocessedRetained,
     Live, Nothing
<1>. QED BY <1>1, <1>2 DEF IInv

\* The inductive invariant holds in every state of an event ring.
THEOREM Invariance == Spec => []IInv
<1>1. Init => IInv
  BY InitInv
<1>2. IInv /\ [Next]_vars => IInv'
  <2> SUFFICES ASSUME IInv, [Next]_vars PROVE IInv'
    OBVIOUS
  <2>1. CASE UNCHANGED vars
    BY <2>1 DEF vars, ringVars, pubVars, subVars, IInv, TypeOK, PubInv, LockInv, TrackerInv,
       ScanInv, CacheInv, RoomInv, UnprocessedRetained, Live
  <2>. QED BY <2>1, PubKeeps, SubKeeps DEF Next
<1>. QED BY <1>1, <1>2, PTL DEF Spec

\* The publisher's closure and a subscriber's closure never hold the same slot,
\* whatever panics: the unsafe dereferences of write and process do not alias.
THEOREM NeverAliased == Spec => []NoAliasing
<1>1. IInv => NoAliasing
  <2> SUFFICES ASSUME IInv, NEW s \in Subs, pc[s] = "reading", pubPc \in {"mutate", "altering"}
               PROVE  Slot(subCursor[s]) # Slot(seq)
    BY DEF NoAliasing
  <2>1. Live(s) /\ subCursor[s] \in Nat /\ subCursor[s] < seq
    BY DEF Live, IInv, TypeOK, TrackerInv
  <2>. QED BY <2>1, RoomSpares
<1>. QED BY <1>1, Invariance, PTL

\* A live subscriber finds every message published since it subscribed, as the
\* publisher's closure left it (has_room, slowest, write, process).
THEOREM EventsRetained == Spec => []UnprocessedRetained
<1>1. IInv => UnprocessedRetained
  BY DEF IInv
<1>. QED BY <1>1, Invariance, PTL

\* Type correctness of the event ring.
THEOREM TypeCorrect == Spec => []TypeOK
<1>1. IInv => TypeOK
  BY DEF IInv
<1>. QED BY <1>1, Invariance, PTL

(***************************************************************************)
(* Part 4.  The wire struct that derive(Message) generates has no gap, for *)
(* every list of fields and every length of the arrays.  The induction     *)
(* over the fields is an argument by the least field that breaks a claim.  *)
(***************************************************************************)

WF == INSTANCE WellFoundedInduction

\* A set of numbers that is not empty has a least one.
LEMMA Least ==
  ASSUME NEW T \in SUBSET Nat, T # {}
  PROVE  \E x \in T : \A y \in T : x <= y
<1>1. PICK R : /\ WF!IsWellFoundedOn(R, Nat)
               /\ R = {ss \in Nat \X Nat : ss[1] < ss[2]}
  BY WF!NatLessThanWellFounded, Zenon DEF WF!OpToRel
<1>2. \A x, y \in Nat : x < y => <<x, y>> \in R
  BY <1>1
<1>3. \E x \in T : \A y \in T : ~(<<y, x>> \in R)
  BY <1>1, WF!WFMin, Zenon
<1>4. \A x, y \in T : x \in Nat /\ y \in Nat
  OBVIOUS
<1>5. \A x, y \in Nat : ~(y < x) => x <= y
  OBVIOUS
<1>. QED BY <1>2, <1>3, <1>4, <1>5, Zenon

\* Induction up to n: what holds of 0 and passes from i - 1 to i holds of all.
LEMMA UpToInduction ==
  ASSUME NEW n \in Nat, NEW P \in SUBSET Nat, 0 \in P,
         \A i \in 1 .. n : i - 1 \in P => i \in P
  PROVE  \A i \in 0 .. n : i \in P
<1> DEFINE T == (0 .. n) \ P
<1> SUFFICES ASSUME T # {} PROVE FALSE
  OBVIOUS
<1>1. T \in SUBSET Nat
  OBVIOUS
<1>2. PICK x \in T : \A y \in T : x <= y
  BY <1>1, Least, Zenon
<1>3. x # 0 /\ x \in 1 .. n /\ x - 1 \in 0 .. n /\ ~(x <= x - 1)
  BY <1>2
<1>4. x - 1 \in P
  BY <1>2, <1>3, Zenon
<1>. QED BY <1>2, <1>3, <1>4, Zenon

\* Function f of 0 .. n with values in V starts with v and continues by step g.
Steps(n, V, v, g, f) ==
  f \in [0 .. n -> V] /\ f[0] = v /\ \A i \in 1 .. n : f[i] = g[<<i, f[i - 1]>>]

\* A first value and a step make a function.
LEMMA StepsMakeFunction ==
  ASSUME NEW n \in Nat, NEW V, NEW v \in V, NEW g \in [(1 .. n) \X V -> V]
  PROVE  \E f : Steps(n, V, v, g, f)
<1> USE DEF Steps
<1> DEFINE P == {k \in Nat : \E f : Steps(k, V, v, g, f)}
<1>1. 0 \in P
  <2>1. [i \in 0 .. 0 |-> v] \in [0 .. 0 -> V]
    OBVIOUS
  <2>2. [i \in 0 .. 0 |-> v][0] = v /\ 1 .. 0 = {}
    OBVIOUS
  <2>. QED BY <2>1, <2>2, Zenon
<1>2. ASSUME NEW k \in 1 .. n, k - 1 \in P PROVE k \in P
  <2>1. PICK f \in [0 .. k - 1 -> V] :
           f[0] = v /\ \A i \in 1 .. k - 1 : f[i] = g[<<i, f[i - 1]>>]
    BY <1>2, Zenon
  <2>2. k \in Nat /\ k - 1 \in 0 .. k - 1 /\ 0 \in 0 .. k - 1 /\ k \notin 0 .. k - 1
    OBVIOUS
  <2> DEFINE h == [i \in 0 .. k |-> IF i = k THEN g[<<k, f[k - 1]>>] ELSE f[i]]
  <2>3. f[k - 1] \in V
    BY <2>1, <2>2, Zenon
  <2>4. g[<<k, f[k - 1]>>] \in V
    BY <2>3
  <2>5. h \in [0 .. k -> V]
    <3>1. \A i \in 0 .. k : i # k => i \in 0 .. k - 1
      BY <2>2
    <3>. QED BY <2>4, <3>1
  <2>6. h[0] = v
    BY <2>1, <2>2
  <2>7. ASSUME NEW i \in 1 .. k PROVE h[i] = g[<<i, h[i - 1]>>]
    <3>1. CASE i = k
      <4>1. h[k] = g[<<k, f[k - 1]>>] /\ h[k - 1] = f[k - 1]
        BY <2>2
      <4>. QED BY <3>1, <4>1, Zenon
    <3>2. CASE i # k
      <4>1. i \in 1 .. k - 1 /\ h[i] = f[i] /\ h[i - 1] = f[i - 1]
        BY <2>2, <3>2
      <4>. QED BY <2>1, <4>1, Zenon
    <3>. QED BY <3>1, <3>2, Zenon
  <2> HIDE DEF h
  <2>. QED BY <2>2, <2>5, <2>6, <2>7, Zenon
<1>3. n \in 0 .. n /\ P \in SUBSET Nat
  OBVIOUS
<1>4. n \in P
  <2> HIDE DEF P
  <2>. QED BY <1>1, <1>2, <1>3, UpToInduction, Zenon
<1>. QED BY <1>4

\* A function of 0 .. n that does not leave V in a step stays in V.
LEMMA StaysIn ==
  ASSUME NEW n \in Nat, NEW V, NEW u, u[0] \in V, \A i \in 1 .. n : u[i - 1] \in V => u[i] \in V
  PROVE  \A i \in 0 .. n : u[i] \in V
<1> DEFINE P == {i \in Nat : u[i] \in V}
<1>1. 0 \in P /\ P \in SUBSET Nat /\ \A i \in 1 .. n : i \in Nat /\ i - 1 \in Nat
  OBVIOUS
<1>2. \A i \in 1 .. n : i - 1 \in P => i \in P
  BY <1>1, Zenon
<1>3. \A i \in 0 .. n : i \in P
  <2> HIDE DEF P
  <2>. QED BY <1>1, <1>2, UpToInduction, Zenon
<1>. QED BY <1>3, Zenon

----------------------------------------------------------------------------
(* Entries whose rank is that of their size.                               *)

Units == {1, 2, 4, 8, 16}
Unit  == [r \in 0 .. 4 |-> IF r = 0 THEN 16 ELSE IF r = 1 THEN 8 ELSE IF r = 2 THEN 4
                           ELSE IF r = 3 THEN 2 ELSE 1]
Fit   == {e \in [type : Numeric, len : Nat \ {0}, rank : 0 .. 4] :
             SizeOf[e.type] = Unit[e.rank]}

LEMMA FitSizes ==
  ASSUME NEW e \in Fit
  PROVE  /\ e.rank \in 0 .. 4 /\ e.len \in Nat
         /\ Align(e) = Unit[e.rank] /\ Align(e) \in Units
         /\ Size(e) = e.len * Align(e) /\ Size(e) \in Nat
<1>1. e.rank \in 0 .. 4 /\ e.len \in Nat /\ Align(e) = Unit[e.rank] /\ Size(e) = e.len * Align(e)
  BY Zenon DEF Fit, Align, Size
<1>2. \A r \in 0 .. 4 : Unit[r] \in Units
  BY DEF Unit, Units
<1>3. \A l \in Nat, a \in Units : l * a \in Nat
  BY DEF Units
<1>. QED BY <1>1, <1>2, <1>3, Zenon

\* A smaller unit divides a larger one.
LEMMA UnitsDivide ==
  \A q, r \in 0 .. 4 : q <= r => \E d \in Nat : Unit[q] = d * Unit[r]
<1> SUFFICES ASSUME NEW q \in 0 .. 4, NEW r \in 0 .. 4, q <= r
             PROVE  \E d \in Nat : Unit[q] = d * Unit[r]
  OBVIOUS
<1>1. \A a \in Units : 16 = (16 \div a) * a /\ 16 \div a \in Nat
  BY DEF Units
<1>2. \A a \in {1, 2, 4, 8} : 8 = (8 \div a) * a /\ 8 \div a \in Nat
  OBVIOUS
<1>3. \A a \in {1, 2, 4} : 4 = (4 \div a) * a /\ 4 \div a \in Nat
  OBVIOUS
<1>4. 2 = 2 * 1 /\ 2 = 1 * 2 /\ 1 = 1 * 1
  OBVIOUS
<1>5. \/ Unit[q] = 16 /\ Unit[r] \in Units
      \/ Unit[q] = 8 /\ Unit[r] \in {1, 2, 4, 8}
      \/ Unit[q] = 4 /\ Unit[r] \in {1, 2, 4}
      \/ Unit[q] = 2 /\ Unit[r] \in {1, 2}
      \/ Unit[q] = 1 /\ Unit[r] = 1
  BY DEF Unit, Units
<1>. QED BY <1>1, <1>2, <1>3, <1>4, <1>5

\* Rounding up.
LEMMA RoundUpFacts ==
  ASSUME NEW a \in Units, NEW m \in Nat
  PROVE  RoundUp(m, a) \in Nat /\ m * a \in Nat /\ RoundUp(m * a, a) = m * a
<1>1. CASE a = 1
  BY <1>1 DEF RoundUp
<1>2. CASE a = 2
  BY <1>2 DEF RoundUp
<1>3. CASE a = 4
  BY <1>3 DEF RoundUp
<1>4. CASE a = 8
  BY <1>4 DEF RoundUp
<1>5. CASE a = 16
  BY <1>5 DEF RoundUp
<1>. QED BY <1>1, <1>2, <1>3, <1>4, <1>5, Zenon DEF Units

\* TAIL_PAD brings the size to a multiple of the alignment.
LEMMA PadFills ==
  ASSUME NEW a \in Units, NEW m \in Nat
  PROVE  LET t == (a - (m % a)) % a
         IN  t \in Nat /\ RoundUp(m + t, a) = m + t
<1>1. CASE a = 1
  BY <1>1 DEF RoundUp
<1>2. CASE a = 2
  BY <1>2 DEF RoundUp
<1>3. CASE a = 4
  BY <1>3 DEF RoundUp
<1>4. CASE a = 8
  BY <1>4 DEF RoundUp
<1>5. CASE a = 16
  BY <1>5 DEF RoundUp
<1>. QED BY <1>1, <1>2, <1>3, <1>4, <1>5, Zenon DEF Units

LEMMA MaxAlignIsUnit ==
  ASSUME NEW es \in Seq(Fit)
  PROVE  MaxAlign(es) \in Units
<1> DEFINE S == {1} \cup {Align(es[i]) : i \in DOMAIN es}
<1>1. \A i \in DOMAIN es : es[i] \in Fit
  OBVIOUS
<1>2. S \subseteq Units /\ 1 \in S
  BY <1>1, FitSizes DEF Units
<1> HIDE DEF S
<1>3. \E x \in S : \A y \in S : x >= y
  BY <1>2 DEF Units
<1>4. MaxAlign(es) = CHOOSE x \in S : \A y \in S : x >= y
  BY Zenon DEF MaxAlign, Max, S
<1>. QED BY <1>2, <1>3, <1>4, Zenon

----------------------------------------------------------------------------
(* The recursive functions are the ones meant.                             *)

LEMMA Sums ==
  ASSUME NEW es \in Seq(Fit)
  PROVE  \E u \in [0 .. Len(es) -> Nat] :
            /\ u[0] = 0 /\ \A i \in 1 .. Len(es) : u[i] = u[i - 1] + Size(es[i])
            /\ SumOfSizes(es) = u[Len(es)]
<1> DEFINE n == Len(es)
           g == [x \in (1 .. n) \X Nat |-> x[2] + Size(es[x[1]])]
           Rec(f) == [i \in 0 .. n |-> IF i = 0 THEN 0 ELSE f[i - 1] + Size(es[i])]
           u == CHOOSE f : f = Rec(f)
<1>1. n \in Nat /\ \A i \in 1 .. n : es[i] \in Fit /\ Size(es[i]) \in Nat
  BY FitSizes
<1> HIDE DEF n
<1>2. g \in [(1 .. n) \X Nat -> Nat]
  BY <1>1
<1>3. PICK f : Steps(n, Nat, 0, g, f)
  <2> HIDE DEF g
  <2>1. 0 \in Nat
    OBVIOUS
  <2>. QED BY <1>1, <1>2, <2>1, StepsMakeFunction, Zenon
<1>4. f = Rec(f)
  <2>1. ASSUME NEW i \in 1 .. n PROVE f[i] = f[i - 1] + Size(es[i])
    <3>1. i - 1 \in 0 .. n
      BY <1>1
    <3>2. f[i - 1] \in Nat
      BY <1>3, <3>1 DEF Steps
    <3>3. g[<<i, f[i - 1]>>] = f[i - 1] + Size(es[i])
      BY <3>2
    <3>. QED BY <1>3, <3>3, Zenon DEF Steps
  <2>. QED BY <1>1, <1>3, <2>1 DEF Steps
<1>5. u = Rec(u)
  BY <1>4, Zenon
<1> HIDE DEF u
<1>6. /\ \A i \in 1 .. n : u[i] = u[i - 1] + Size(es[i])
      /\ u[0] = 0
  BY <1>1, <1>5
<1>7. \A i \in 0 .. n : u[i] \in Nat
  <2>1. u[0] \in Nat /\ \A i \in 1 .. n : u[i - 1] \in Nat => u[i] \in Nat
    BY <1>1, <1>6
  <2>. QED BY <1>1, <2>1, StaysIn, Zenon
<1>8. u \in [0 .. n -> Nat]
  BY <1>5, <1>7
<1>9. SumOfSizes(es) = u[n]
  BY DEF SumOfSizes, u, n
<1>. QED BY <1>6, <1>8, <1>9, Zenon DEF n
LEMMA Ends ==
  ASSUME NEW es \in Seq(Fit)
  PROVE  \E u \in [0 .. Len(es) -> Nat] :
            /\ u[0] = 0
            /\ \A i \in 1 .. Len(es) : u[i] = RoundUp(u[i - 1], Align(es[i])) + Size(es[i])
            /\ \A tail : StructSize(es, tail) = RoundUp(u[Len(es)] + tail, MaxAlign(es))
<1> DEFINE n == Len(es)
           g == [x \in (1 .. n) \X Nat |-> RoundUp(x[2], Align(es[x[1]])) + Size(es[x[1]])]
           Rec(f) == [i \in 0 .. n |-> IF i = 0 THEN 0 ELSE RoundUp(f[i - 1], Align(es[i])) + Size(es[i])]
           u == CHOOSE f : f = Rec(f)
<1>1. n \in Nat /\ \A i \in 1 .. n : es[i] \in Fit /\ Size(es[i]) \in Nat /\ Align(es[i]) \in Units
  BY FitSizes
<1> HIDE DEF n
<1>0. \A i \in 1 .. n, m \in Nat : RoundUp(m, Align(es[i])) + Size(es[i]) \in Nat
  <2>1. \A x, y \in Nat : x + y \in Nat
    OBVIOUS
  <2>. QED BY <1>1, <2>1, RoundUpFacts, Zenon
<1>2. g \in [(1 .. n) \X Nat -> Nat]
  BY <1>0
<1>3. PICK f : Steps(n, Nat, 0, g, f)
  <2> HIDE DEF g
  <2>1. 0 \in Nat
    OBVIOUS
  <2>. QED BY <1>1, <1>2, <2>1, StepsMakeFunction, Zenon
<1>4. f = Rec(f)
  <2>1. ASSUME NEW i \in 1 .. n PROVE f[i] = RoundUp(f[i - 1], Align(es[i])) + Size(es[i])
    <3>1. i - 1 \in 0 .. n
      BY <1>1
    <3>2. f[i - 1] \in Nat
      BY <1>3, <3>1 DEF Steps
    <3>3. g[<<i, f[i - 1]>>] = RoundUp(f[i - 1], Align(es[i])) + Size(es[i])
      BY <3>2
    <3>. QED BY <1>3, <3>3, Zenon DEF Steps
  <2>. QED BY <1>1, <1>3, <2>1 DEF Steps
<1>5. u = Rec(u)
  BY <1>4, Zenon
<1> HIDE DEF u
<1>6. /\ \A i \in 1 .. n : u[i] = RoundUp(u[i - 1], Align(es[i])) + Size(es[i])
      /\ u[0] = 0
  BY <1>1, <1>5
<1>7. \A i \in 0 .. n : u[i] \in Nat
  <2>1. u[0] \in Nat /\ \A i \in 1 .. n : u[i - 1] \in Nat => u[i] \in Nat
    <3>1. 0 \in Nat
      OBVIOUS
    <3>. QED BY <1>0, <1>6, <3>1, Zenon
  <2>. QED BY <1>1, <2>1, StaysIn, Zenon
<1>8. u \in [0 .. n -> Nat]
  BY <1>5, <1>7
<1>9. \A tail : StructSize(es, tail) = RoundUp(u[n] + tail, MaxAlign(es))
  BY Zenon DEF StructSize, u, n
<1>. QED BY <1>6, <1>8, <1>9, Zenon DEF n

\* The entries of one rank are entries, and of that rank.
LEMMA RankedIn ==
  ASSUME NEW es \in Seq(Fit), NEW r \in 0 .. 4
  PROVE  Ranked(es, r) \in Seq({e \in Fit : e.rank = r})
<1> DEFINE n == Len(es)
           V == Seq({e \in Fit : e.rank = r})
           g == [x \in (1 .. n) \X V |->
                   IF es[x[1]].rank = r THEN Append(x[2], es[x[1]]) ELSE x[2]]
           At(f, i) == IF i = 0 THEN <<>>
                       ELSE IF es[i].rank = r THEN Append(f[i - 1], es[i]) ELSE f[i - 1]
           Rec(f) == [i \in 0 .. n |-> At(f, i)]
           u == CHOOSE f : f = Rec(f)
<1>1. n \in Nat /\ <<>> \in V /\ \A i \in 1 .. n : es[i] \in Fit
  OBVIOUS
<1>0. \A i \in 1 .. n, s \in V :
         (IF es[i].rank = r THEN Append(s, es[i]) ELSE s) \in V
  BY <1>1
<1> HIDE DEF n, V
<1>9. \A i \in 0 .. n : i = 0 \/ i \in 1 .. n
  BY <1>1
<1>2. g \in [(1 .. n) \X V -> V]
  BY <1>0
<1>3. PICK f : Steps(n, V, <<>>, g, f)
  <2> HIDE DEF g
  <2>. QED BY <1>1, <1>2, StepsMakeFunction, Zenon
<1>4. f = Rec(f)
  <2>1. ASSUME NEW i \in 1 .. n
        PROVE  f[i] = IF es[i].rank = r THEN Append(f[i - 1], es[i]) ELSE f[i - 1]
    <3>1. i - 1 \in 0 .. n
      BY <1>1
    <3>2. f[i - 1] \in V
      BY <1>3, <3>1 DEF Steps
    <3>3. g[<<i, f[i - 1]>>] = IF es[i].rank = r THEN Append(f[i - 1], es[i]) ELSE f[i - 1]
      BY <3>2
    <3>. QED BY <1>3, <3>3, Zenon DEF Steps
  <2>2. \A i \in 0 .. n : f[i] = At(f, i)
    BY <1>3, <1>9, <2>1, Zenon DEF Steps
  <2> HIDE DEF At
  <2>. QED BY <1>3, <2>2 DEF Steps
<1>5. u = Rec(u)
  BY <1>4, Zenon
<1> HIDE DEF u
<1>6. /\ \A i \in 1 .. n :
            u[i] = IF es[i].rank = r THEN Append(u[i - 1], es[i]) ELSE u[i - 1]
      /\ u[0] = <<>> /\ n \in 0 .. n
  <2>1. 0 \in 0 .. n /\ n \in 0 .. n /\ \A i \in 1 .. n : i \in 0 .. n /\ i # 0
    BY <1>1
  <2>2. \A i \in 0 .. n : u[i] = At(u, i)
    BY <1>5, Zenon
  <2>. QED BY <2>1, <2>2, Zenon
<1>7. \A i \in 0 .. n : u[i] \in V
  <2>1. u[0] \in V /\ \A i \in 1 .. n : u[i - 1] \in V => u[i] \in V
    BY <1>0, <1>1, <1>6, Zenon
  <2>. QED BY <1>1, <2>1, StaysIn, Zenon
<1>8. Ranked(es, r) = u[n]
  BY DEF Ranked, u, n
<1>. QED BY <1>6, <1>7, <1>8, Zenon DEF V

----------------------------------------------------------------------------
(* The order leaves no gap.                                                *)

\* Entries in the order of their ranks, up to rank q.
InOrder(s, q) ==
  /\ s \in Seq(Fit)
  /\ \A i \in 1 .. Len(s) : s[i].rank \in 0 .. q
  /\ \A i, j \in 1 .. Len(s) : i <= j => s[i].rank <= s[j].rank

LEMMA NextRank ==
  ASSUME NEW q \in 0 .. 3, NEW s, InOrder(s, q), NEW t \in Seq({e \in Fit : e.rank = q + 1})
  PROVE  InOrder(s \o t, q + 1)
<1>1. s \in Seq(Fit) /\ t \in Seq(Fit) /\ Len(s) \in Nat /\ Len(t) \in Nat
      /\ \A i \in 1 .. Len(t) : t[i].rank = q + 1
  BY DEF InOrder
<1>2. s \o t \in Seq(Fit) /\ Len(s \o t) = Len(s) + Len(t)
  BY <1>1
<1>3. \A i \in 1 .. Len(s) + Len(t) :
         \/ i \in 1 .. Len(s) /\ (s \o t)[i] = s[i]
         \/ i > Len(s) /\ i - Len(s) \in 1 .. Len(t) /\ (s \o t)[i] = t[i - Len(s)]
  BY <1>1
<1>4. \A i \in 1 .. Len(s) + Len(t) :
         \/ i \in 1 .. Len(s) /\ (s \o t)[i].rank = s[i].rank
         \/ i > Len(s) /\ (s \o t)[i].rank = q + 1
  BY <1>1, <1>3, Zenon
<1>5. /\ \A i \in 1 .. Len(s) : s[i].rank \in 0 .. q
      /\ \A i, j \in 1 .. Len(s) : i <= j => s[i].rank <= s[j].rank
  BY Zenon DEF InOrder
<1>6. \A i \in 1 .. Len(s) + Len(t) : (s \o t)[i].rank \in 0 .. q + 1
  BY <1>4, <1>5
<1>7. \A i, j \in 1 .. Len(s) + Len(t) : i <= j => (s \o t)[i].rank <= (s \o t)[j].rank
  BY <1>1, <1>4, <1>5
<1>. QED BY <1>2, <1>6, <1>7, Zenon DEF InOrder

LEMMA OrderedInOrder ==
  ASSUME NEW es \in Seq(Fit)
  PROVE  InOrder(Ordered(es), 4)
<1> DEFINE R(r) == Ranked(es, r)
<1>1. \A r \in 0 .. 4 : R(r) \in Seq({e \in Fit : e.rank = r})
  BY RankedIn, Zenon
<1>2. InOrder(R(0), 0)
  <2> HIDE DEF R
  <2>1. R(0) \in Seq({e \in Fit : e.rank = 0})
    BY <1>1
  <2>2. R(0) \in Seq(Fit) /\ \A i \in 1 .. Len(R(0)) : R(0)[i].rank = 0
    BY <2>1
  <2>. QED BY <2>2 DEF InOrder
<1> HIDE DEF R
<1>3. /\ R(1) \in Seq({e \in Fit : e.rank = 0 + 1}) /\ R(2) \in Seq({e \in Fit : e.rank = 1 + 1})
      /\ R(3) \in Seq({e \in Fit : e.rank = 2 + 1}) /\ R(4) \in Seq({e \in Fit : e.rank = 3 + 1})
  BY <1>1
<1>4. InOrder(R(0) \o R(1), 1)
  BY <1>2, <1>3, NextRank
<1>5. InOrder(R(0) \o R(1) \o R(2), 2)
  BY <1>3, <1>4, NextRank
<1>6. InOrder(R(0) \o R(1) \o R(2) \o R(3), 3)
  BY <1>3, <1>5, NextRank
<1>7. InOrder(R(0) \o R(1) \o R(2) \o R(3) \o R(4), 4)
  BY <1>3, <1>6, NextRank
<1>. QED BY <1>7, Zenon DEF Ordered, R

\* A multiple of the unit of one entry is a multiple of the unit of the next.
LEMMA StillMultiple ==
  ASSUME NEW q \in 0 .. 4, NEW r \in 0 .. 4, q <= r, NEW k \in Nat
  PROVE  \E m \in Nat : k * Unit[q] = m * Unit[r]
<1>1. PICK d \in Nat : Unit[q] = d * Unit[r]
  BY UnitsDivide, Zenon
<1>2. Unit[r] \in Nat
  BY DEF Unit
<1>3. \A a, b, c \in Nat : a * (b * c) = (a * b) * c /\ a * b \in Nat
  OBVIOUS
<1>4. k * (d * Unit[r]) = (k * d) * Unit[r] /\ k * d \in Nat
  BY <1>2, <1>3, Zenon
<1>5. k * Unit[q] = (k * d) * Unit[r]
  BY <1>1, <1>4, Zenon
<1>. QED BY <1>4, <1>5, Zenon

LEMMA Distribute == \A a \in Units, m, l \in Nat : m * a + l * a = (m + l) * a /\ m + l \in Nat
  BY DEF Units

LEMMA NoGaps ==
  ASSUME NEW es, InOrder(es, 4)
  PROVE  NoPadding(es, TailPad(es))
<1> DEFINE n == Len(es)
<1>1. es \in Seq(Fit) /\ n \in Nat /\ \A i \in 1 .. n : es[i] \in Fit
  BY DEF InOrder
<1>2. PICK u \in [0 .. n -> Nat] :
         /\ u[0] = 0 /\ \A i \in 1 .. n : u[i] = u[i - 1] + Size(es[i])
         /\ SumOfSizes(es) = u[n]
  BY <1>1, Sums, Zenon
<1>3. PICK v \in [0 .. n -> Nat] :
         /\ v[0] = 0
         /\ \A i \in 1 .. n : v[i] = RoundUp(v[i - 1], Align(es[i])) + Size(es[i])
         /\ \A tail : StructSize(es, tail) = RoundUp(v[n] + tail, MaxAlign(es))
  BY <1>1, Ends, Zenon
<1> DEFINE Good(i) == /\ u[i] = v[i]
                      /\ i = 0 \/ \E k \in Nat : u[i] = k * Align(es[i])
           P == {i \in Nat : Good(i)}
<1> HIDE DEF n
<1>4. \A i \in 0 .. n : i \in P
  <2>1. 0 \in P /\ P \in SUBSET Nat
    BY <1>2, <1>3
  <2>2. ASSUME NEW i \in 1 .. n, i - 1 \in P PROVE i \in P
    <3> DEFINE a == Align(es[i])
               l == es[i].len
    <3>1. /\ i \in Nat /\ i # 0 /\ i - 1 \in 0 .. n /\ (i - 1 = 0 \/ i - 1 \in 1 .. n)
          /\ i - 1 <= i
      BY <1>1
    <3>2. a \in Units /\ l \in Nat /\ Size(es[i]) = l * a /\ es[i].rank \in 0 .. 4 /\ a = Unit[es[i].rank]
      BY <1>1, FitSizes, Zenon
    <3>3. u[i - 1] = v[i - 1] /\ u[i - 1] \in Nat /\ Good(i - 1)
      BY <2>2, <3>1
    <3>4. \E m \in Nat : u[i - 1] = m * a
      <4>1. CASE i - 1 = 0
        <5>1. 0 = 0 * a /\ 0 \in Nat
          BY <3>2 DEF Units
        <5>. QED BY <1>2, <4>1, <5>1, Zenon
      <4>2. CASE i - 1 \in 1 .. n /\ i - 1 # 0
        <5>1. PICK k \in Nat : u[i - 1] = k * Align(es[i - 1])
          BY <3>3, <4>2, Zenon
        <5>2. /\ es[i - 1].rank \in 0 .. 4 /\ Align(es[i - 1]) = Unit[es[i - 1].rank]
              /\ es[i - 1].rank <= es[i].rank
          BY <1>1, <3>1, <4>2, FitSizes, Zenon DEF InOrder, n
        <5>3. \E m \in Nat : k * Unit[es[i - 1].rank] = m * Unit[es[i].rank]
          BY <3>2, <5>2, StillMultiple, Zenon
        <5>. QED BY <3>2, <5>1, <5>2, <5>3, Zenon
      <4>. QED BY <3>1, <4>1, <4>2, Zenon
    <3>5. PICK m \in Nat : u[i - 1] = m * a
      BY <3>4, Zenon
    <3>6. RoundUp(v[i - 1], a) = u[i - 1]
      BY <3>2, <3>3, <3>5, RoundUpFacts, Zenon
    <3>7. u[i] = v[i]
      BY <1>2, <1>3, <3>6, Zenon
    <3>8. u[i] = m * a + l * a
      BY <1>2, <3>2, <3>5, Zenon
    <3>9. m * a + l * a = (m + l) * a /\ m + l \in Nat
      BY <3>2, Distribute, Zenon
    <3>. QED BY <3>1, <3>7, <3>8, <3>9, Zenon
  <2> HIDE DEF P
  <2>. QED BY <1>1, <2>1, <2>2, UpToInduction, Zenon
<1>5. u[n] = v[n] /\ u[n] \in Nat
  BY <1>1, <1>4
<1> DEFINE t == TailPad(es)
<1>6. t \in Nat /\ RoundUp(u[n] + t, MaxAlign(es)) = u[n] + t
  BY <1>1, <1>2, <1>5, MaxAlignIsUnit, PadFills, Zenon DEF TailPad
<1>. QED BY <1>2, <1>3, <1>5, <1>6, Zenon DEF NoPadding

----------------------------------------------------------------------------
(* The macro ranks by size what IsRanked admits.                           *)

LEMMA SizesAreUnits ==
  /\ Numeric = {"u8", "i8", "u16", "i16", "u32", "i32", "f32", "u64", "i64", "f64",
                "usize", "isize", "u128", "i128"}
  /\ SizeOf["u8"] = 1 /\ SizeOf["u16"] = 2 /\ SizeOf["u32"] = 4 /\ SizeOf["f32"] = 4
  /\ SizeOf["u64"] = 8 /\ SizeOf["i64"] = 8 /\ SizeOf["f64"] = 8
  /\ SizeOf["usize"] = 8 /\ SizeOf["isize"] = 8 /\ SizeOf["u128"] = 16 /\ SizeOf["i128"] = 16
  BY DEF Numeric, SizeOf

LEMMA EntryFits ==
  ASSUME NEW ty \in Numeric, NEW l \in Nat \ {0}, NEW r \in 0 .. 4, SizeOf[ty] = Unit[r]
  PROVE  Entry(ty, l, r) \in Fit
<1>1. /\ Entry(ty, l, r) \in [type : Numeric, len : Nat \ {0}, rank : 0 .. 4]
      /\ Entry(ty, l, r).type = ty /\ Entry(ty, l, r).rank = r
  BY Zenon DEF Entry
<1>. QED BY <1>1, Zenon DEF Fit

LEMMA WireFits ==
  ASSUME NEW f \in FieldTypes, ~Unsupported(f), IsRanked(f)
  PROVE  WireOf(f) \in Seq(Fit)
<1>0. /\ f.kind \in {"plain", "array", "option", "enum"} /\ f.len \in Nat \ {0}
      /\ 1 \in Nat \ {0}
      /\ 0 \in 0 .. 4 /\ 1 \in 0 .. 4 /\ 2 \in 0 .. 4 /\ 3 \in 0 .. 4 /\ 4 \in 0 .. 4
  BY FieldsAssumption
<1>1. Unit[0] = 16 /\ Unit[1] = 8 /\ Unit[2] = 4 /\ Unit[3] = 2 /\ Unit[4] = 1
  BY DEF Unit
<1>2. Entry("u8", 1, 4) \in Fit
  BY <1>0, <1>1, EntryFits, SizesAreUnits, Zenon
<1>3. \A x, y \in Fit : <<x>> \in Seq(Fit) /\ <<x, y>> \in Seq(Fit)
  OBVIOUS
<1>4. CASE f.kind = "enum"
  BY <1>2, <1>3, <1>4, Zenon DEF WireOf
<1>5. CASE f.kind = "option"
  <2> DEFINE ty == OptionWire(f.type)
  <2>1. f.type \in Numeric \cup {"bool"}
    BY <1>5, Zenon DEF Unsupported
  <2>2. \/ ty = "u8" /\ OptionRank(ty) = 4
        \/ ty = "u32" /\ OptionRank(ty) = 2
        \/ ty = "u128" /\ OptionRank(ty) = 0
        \/ ty \in {"u64", "i64"} /\ OptionRank(ty) = 1
    BY <2>1, SizesAreUnits DEF OptionWire, OptionRank
  <2> HIDE DEF ty
  <2>3. Entry(ty, 1, OptionRank(ty)) \in Fit
    BY <1>0, <1>1, <2>2, EntryFits, SizesAreUnits, Zenon
  <2>4. WireOf(f) = <<Entry(ty, 1, OptionRank(ty)), Entry("u8", 1, 4)>>
    BY <1>5 DEF WireOf, ty
  <2>. QED BY <1>2, <1>3, <2>3, <2>4, Zenon
<1>6. CASE f.kind \in {"plain", "array"}
  <2>0. f.kind \notin {"option", "enum"}
    BY <1>6
  <2>1. f.type \in (Numeric \cup {"bool"}) \ {"i8", "i16", "i32"}
    BY <2>0, Zenon DEF IsRanked
  <2>2. CASE f.kind = "plain" /\ f.type = "bool"
    <3>1. WireOf(f) = <<Entry("u8", 1, 4)>>
      BY <1>6, <2>2 DEF WireOf
    <3>. QED BY <1>2, <1>3, <3>1, Zenon
  <2>3. CASE f.kind = "plain" /\ f.type = "usize"
    <3>1. WireOf(f) = <<Entry("u64", 1, 1)>>
      BY <1>6, <2>3 DEF WireOf
    <3>2. Entry("u64", 1, 1) \in Fit
      BY <1>0, <1>1, EntryFits, SizesAreUnits, Zenon
    <3>. QED BY <1>3, <3>1, <3>2, Zenon
  <2>4. CASE f.kind = "plain" /\ f.type = "isize"
    <3>1. WireOf(f) = <<Entry("i64", 1, 1)>>
      BY <1>6, <2>4 DEF WireOf
    <3>2. Entry("i64", 1, 1) \in Fit
      BY <1>0, <1>1, EntryFits, SizesAreUnits, Zenon
    <3>. QED BY <1>3, <3>1, <3>2, Zenon
  <2>5. CASE ~(f.kind = "plain" /\ f.type \in {"bool", "usize", "isize"})
    <3>0. f.type # "bool"
      <4>1. "bool" \notin PodTypes
        <5>1. "bool" \notin Numeric BY SizesAreUnits
        <5>2. "bool" \notin DOMAIN UserTypes BY UserAssumption, Zenon
        <5>. QED BY <5>1, <5>2, Zenon DEF PodTypes
      <4>2. f.type = "bool" => f.kind = "array" BY <1>6, <2>5
      <4>. QED BY <4>1, <4>2, Zenon DEF Unsupported, NotPod
    <3> DEFINE r == AlignRank(f.type)
    <3>1. WireOf(f) = <<Entry(f.type, f.len, r)>>
      BY <2>0, <2>5 DEF WireOf
    <3>2. \/ r = 0 /\ f.type \in {"u128", "i128"}
          \/ r = 1 /\ f.type \in {"u64", "i64", "f64", "usize", "isize"}
          \/ r = 2 /\ f.type \in {"u32", "f32"}
          \/ r = 3 /\ f.type = "u16"
          \/ r = 4 /\ f.type = "u8"
      BY <2>1, <3>0, SizesAreUnits DEF AlignRank
    <3> HIDE DEF r
    <3>3. Entry(f.type, f.len, r) \in Fit
      <4>1. f.type \in Numeric /\ r \in 0 .. 4
        BY <3>2, SizesAreUnits
      <4>2. SizeOf[f.type] = Unit[r]
        BY <1>1, <3>2, SizesAreUnits, Zenon
      <4>. QED BY <1>0, <4>1, <4>2, EntryFits, Zenon
    <3>. QED BY <1>3, <3>1, <3>3, Zenon
  <2>. QED BY <2>2, <2>3, <2>4, <2>5
<1>. QED BY <1>0, <1>4, <1>5, <1>6, Zenon

\* While fields are processed, the entries of ranked fields have the rank of their
\* size.
FitInv ==
  phase = "fields" /\ (\A i \in DOMAIN fields : IsRanked(fields[i])) => wire \in Seq(Fit)

LEMMA FitStep ==
  ASSUME MacroInv, FitInv, RankedFieldsFit, [MessageNext]_messageVars
  PROVE  FitInv' /\ RankedFieldsFit'
<1>1. ASSUME NEW f \in FieldTypes, ProcessField(f) PROVE FitInv' /\ RankedFieldsFit'
  <2>1. /\ phase = "fields" /\ fields \in Seq(FieldTypes) /\ fields' = Append(fields, f)
        /\ \/ Unsupported(f) /\ phase' = "rejected"
           \/ ~Unsupported(f) /\ wire' = wire \o WireOf(f) /\ phase' = phase
    BY <1>1, Zenon DEF ProcessField, MacroInv
  <2>2. /\ Len(fields) + 1 \in DOMAIN fields' /\ fields'[Len(fields) + 1] = f
        /\ \A i \in DOMAIN fields : i \in DOMAIN fields' /\ fields'[i] = fields[i]
    BY <2>1
  <2>3. CASE Unsupported(f) /\ phase' = "rejected"
    <3>1. ~Supported'
      BY <2>2, <2>3, Zenon DEF Supported
    <3>. QED BY <2>3, <3>1 DEF FitInv, RankedFieldsFit
  <2>4. CASE ~Unsupported(f) /\ wire' = wire \o WireOf(f) /\ phase' = phase
    <3>1. ASSUME \A i \in DOMAIN fields' : IsRanked(fields'[i]) PROVE wire' \in Seq(Fit)
      <4>1. wire \in Seq(Fit)
        BY <2>1, <2>2, <3>1, Zenon DEF FitInv
      <4>2. WireOf(f) \in Seq(Fit)
        BY <2>2, <2>4, <3>1, WireFits, Zenon
      <4>. QED BY <2>4, <4>1, <4>2
    <3>. QED BY <2>1, <2>4, <3>1 DEF FitInv, RankedFieldsFit
  <2>. QED BY <2>1, <2>3, <2>4, Zenon
<1>2. CASE Emit
  <2>1. /\ phase = "fields" /\ fields' = fields
        /\ phase' = IF NoPadding(Ordered(wire), TailPad(Ordered(wire)))
                    THEN "emitted" ELSE "rejected"
    BY <1>2, Zenon DEF Emit
  <2>2. CASE \A i \in DOMAIN fields : IsRanked(fields[i])
    <3>1. wire \in Seq(Fit)
      BY <2>1, <2>2, Zenon DEF FitInv
    <3>2. NoPadding(Ordered(wire), TailPad(Ordered(wire)))
      BY <3>1, OrderedInOrder, NoGaps, Zenon
    <3>. QED BY <2>1, <3>2 DEF FitInv, RankedFieldsFit
  <2>3. CASE \E i \in DOMAIN fields : ~IsRanked(fields[i])
    BY <2>1, <2>3, Zenon DEF FitInv, RankedFieldsFit
  <2>. QED BY <2>2, <2>3, Zenon
<1>3. CASE UNCHANGED messageVars
  BY <1>3, Zenon DEF messageVars, FitInv, RankedFieldsFit, Supported
<1>. QED BY <1>1, <1>2, <1>3, Zenon DEF MessageNext

\* Ordering the wire fields by rank and padding the tail leave no gap, so the
\* assertion that derive(Message) generates fails only for a field of a type that
\* align_rank does not list, for structs of any number of fields (TAIL_PAD).
THEOREM RankedLayoutFits == MessageSpec => []RankedFieldsFit
<1>1. MessageInit => FitInv /\ RankedFieldsFit
  <2>1. <<>> \in Seq(Fit)
    OBVIOUS
  <2>. QED BY <2>1 DEF MessageInit, FitInv, RankedFieldsFit
<1>2. MacroInv /\ FitInv /\ RankedFieldsFit /\ [MessageNext]_messageVars
        => FitInv' /\ RankedFieldsFit'
  BY FitStep
<1>. QED BY <1>1, <1>2, MacroInvariance, PTL DEF MessageSpec
=============================================================================
