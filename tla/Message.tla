------------------------------- MODULE Message -------------------------------
(***************************************************************************)
(* derive(Message) of photon-ring-derive: for a struct it generates a wire *)
(* struct of plain numbers, the conversions between the two, and an        *)
(* assertion that the wire struct has no padding, as Pod requires.  The    *)
(* macro goes through the fields one by one (ProcessField) and then lays   *)
(* the wire struct out (Emit).                                             *)
(*                                                                         *)
(* A field type is a record: kind plain, array, option or enum (marked     *)
(* as_enum), the name of the (inner) type, and the length of an array, or  *)
(* 1; an array of arrays is one of the innermost type.  Types have their   *)
(* real sizes in the layout; how many values a number has is a parameter,  *)
(* so that TLC can go through all values of smaller words and the proof    *)
(* covers the real ones.                                                   *)
(***************************************************************************)
EXTENDS Integers, Sequences, FiniteSetsExt

CONSTANTS
  FieldTypes,   \* the types of fields considered
  UserTypes,    \* the user's types: whether Pod, the size and the alignment
  Half,         \* half the number of values of a type: 2^7 for u8 and i8
  MaxFields     \* bound: fields of a struct

VARIABLES
  fields,     \* the types of the fields processed
  wire,       \* wire_types and wire_ranks
  has_enum,   \* has_enum_fields
  phase       \* fields, then emitted, or rejected by the compiler

messageVars == <<fields, wire, has_enum, phase>>

\* The primitive types: their size, which is their alignment; external, the
\* platform's.
SizeOf ==
  [u8 |-> 1, i8 |-> 1, u16 |-> 2, i16 |-> 2, u32 |-> 4, i32 |-> 4, f32 |-> 4,
   u64 |-> 8, i64 |-> 8, f64 |-> 8, usize |-> 8, isize |-> 8,
   u128 |-> 16, i128 |-> 16]
Numeric == DOMAIN SizeOf
Signed  == {"i8", "i16", "i32", "i64", "i128", "isize"}

ASSUME FieldsAssumption ==
  FieldTypes \subseteq
    [kind : {"plain", "array", "option", "enum"}, type : STRING, len : Nat \ {0}]

ASSUME UserAssumption ==
  \A ty \in DOMAIN UserTypes :
     /\ ty \notin Numeric \cup {"bool"}
     /\ UserTypes[ty] \in [pod : BOOLEAN, size : Nat \ {0}, align : Nat \ {0}]

\* A longer word has more values.
ASSUME HalfAssumption ==
  /\ Half \in [Numeric -> Nat \ {0}]
  /\ \A a, b \in Numeric : SizeOf[a] <= SizeOf[b] => Half[a] <= Half[b]

----------------------------------------------------------------------------
(* align_rank, classify and the loop over the fields.                      *)

\* Mutant of AlignRank: the rank of a type's size, for 4 and 2 swapped.
RankSwapped(ty) ==
  CASE ty = "u32" \/ ty = "f32" -> 3
    [] ty = "u16"               -> 2
    [] ty = "u8"                -> 4
    [] ty \in {"u64", "i64", "f64", "usize", "isize"} -> 1
    [] OTHER -> 0

\* An array is ranked by its element.
AlignRank(ty) ==
  CASE ty \in {"u128", "i128"} -> 0
    [] ty \in {"u64", "i64", "f64", "usize", "isize"} -> 1
    [] ty \in {"u32", "f32"} -> 2
    [] ty = "u16" -> 3
    [] ty = "u8" -> 4
    [] OTHER -> 0

\* The wire type of the value in an Option.
OptionWire(inner) ==
  CASE inner = "bool" -> "u8"
    [] inner = "f32" -> "u32"
    [] inner \in {"u128", "i128"} -> "u128"
    [] inner \in {"u8", "u16", "u32", "u64", "usize", "f64"} -> "u64"
    [] inner \in {"i8", "i16", "i32", "i64", "isize"} -> "i64"

\* Its rank, looked up by the name of the wire type.
OptionRank(ty) ==
  CASE ty = "u128" -> 0 [] ty = "u32" -> 2 [] ty = "u8" -> 4 [] OTHER -> 1

Entry(ty, len, rank) == [type |-> ty, len |-> len, rank |-> rank]

\* Pod is implemented for the numbers and where the user says so.
PodTypes  == Numeric \cup {ty \in DOMAIN UserTypes : UserTypes[ty].pod}
ByteTypes == {"bool", "u8", "i8"} \cup {ty \in DOMAIN UserTypes : UserTypes[ty].size = 1}

\* What the assertions emitted with a field refuse.
NotPod(f)   == f.kind = "array" /\ f.type \notin PodTypes
WideEnum(f) == f.kind = "enum" /\ f.type \notin ByteTypes

\* classify refuses the field, or an assertion does.
Unsupported(f) ==
  \/ f.kind \in {"plain", "option"} /\ f.type \notin Numeric \cup {"bool"}
  \/ NotPod(f)
  \/ WideEnum(f)

\* The wire fields for a field.
WireOf(f) ==
  CASE f.kind = "enum" -> <<Entry("u8", 1, 4)>>
    [] f.kind = "option" ->
         LET ty == OptionWire(f.type)
         IN  <<Entry(ty, 1, OptionRank(ty)), Entry("u8", 1, 4)>>
    [] f.kind = "plain" /\ f.type = "bool" -> <<Entry("u8", 1, 4)>>
    [] f.kind = "plain" /\ f.type = "usize" -> <<Entry("u64", 1, 1)>>
    [] f.kind = "plain" /\ f.type = "isize" -> <<Entry("i64", 1, 1)>>
    [] OTHER -> <<Entry(f.type, f.len, AlignRank(f.type))>>

----------------------------------------------------------------------------
(* The layout of the wire struct.                                          *)

RoundUp(n, a) == ((n + a - 1) \div a) * a

Size(e) ==
  e.len * IF e.type \in Numeric THEN SizeOf[e.type] ELSE UserTypes[e.type].size
Align(e) == IF e.type \in Numeric THEN SizeOf[e.type] ELSE UserTypes[e.type].align

\* The entries of rank r, in their order.
Ranked(es, r) ==
  LET upTo[i \in 0 .. Len(es)] ==
        IF i = 0 THEN <<>>
        ELSE IF es[i].rank = r THEN Append(upTo[i - 1], es[i]) ELSE upTo[i - 1]
  IN  upTo[Len(es)]

\* sort_by_key is stable.
Ordered(es) ==
  Ranked(es, 0) \o Ranked(es, 1) \o Ranked(es, 2) \o Ranked(es, 3) \o Ranked(es, 4)

SumOfSizes(es) ==
  LET upTo[i \in 0 .. Len(es)] == IF i = 0 THEN 0 ELSE upTo[i - 1] + Size(es[i])
  IN  upTo[Len(es)]

MaxAlign(es) == Max({1} \cup {Align(es[i]) : i \in DOMAIN es})

\* repr(C), external: every field at the next multiple of its alignment, then
\* tail bytes of explicit padding, and the whole rounded up.
StructSize(es, tail) ==
  LET end[i \in 0 .. Len(es)] ==
        IF i = 0 THEN 0 ELSE RoundUp(end[i - 1], Align(es[i])) + Size(es[i])
  IN  RoundUp(end[Len(es)] + tail, MaxAlign(es))

\* __X_TAIL_PAD.
TailPad(es) ==
  LET align == MaxAlign(es)
  IN  (align - (SumOfSizes(es) % align)) % align

\* The assertion of derive(Message), and of derive(Pod) for a struct as written:
\* the size is the sum of the sizes.
NoPadding(es, tail) == StructSize(es, tail) = SumOfSizes(es) + tail

----------------------------------------------------------------------------
(* The conversions.                                                        *)

\* Of the bit patterns of a user's type two stand for all.
Values(ty) ==
  IF ty = "bool" THEN BOOLEAN
  ELSE IF ty \notin Numeric THEN {0, 1}
  ELSE IF ty \in Signed THEN -Half[ty] .. Half[ty] - 1
  ELSE 0 .. 2 * Half[ty] - 1

\* n as ty: the low bits, read with or without a sign.
As(n, ty) ==
  LET low == n % (2 * Half[ty])
  IN  IF ty \in Signed /\ low >= Half[ty] THEN low - 2 * Half[ty] ELSE low

\* A float is its bit pattern, so to_bits and from_bits are the same word.
ToNumber(v, ty, to) == IF ty # "bool" THEN As(v, to) ELSE IF v THEN 1 ELSE 0
FromNumber(n, ty)   == IF ty = "bool" THEN n # 0 ELSE As(n, ty)

None    == <<>>
Some(v) == <<v>>

\* A field's possible values (of an array, one element's), and those of its wire
\* fields.
DomainValues(f) ==
  CASE f.kind = "enum"   -> {0, 1}
    [] f.kind = "option" -> {Some(v) : v \in Values(f.type)} \cup {None}
    [] OTHER             -> Values(f.type)
WireValues(f) ==
  LET es == WireOf(f)
  IN  IF Len(es) = 1 THEN {<<n>> : n \in Values(es[1].type)}
      ELSE Values(es[1].type) \X Values(es[2].type)

\* From<Name> for NameWire.
ToWire(f, v) ==
  LET ty == WireOf(f)[1].type
  IN  CASE f.kind \in {"enum", "array"} -> <<v>>
        [] f.kind = "plain"  -> <<ToNumber(v, f.type, ty)>>
        [] f.kind = "option" -> IF v = None THEN <<0, 0>>
                                ELSE <<ToNumber(v[1], f.type, ty), 1>>

\* Mutant of Present: zero stands for None.
PresentIfNonzero(w) == w[1] # 0

\* The presence flag.
Present(w) == w[2] # 0

\* From<NameWire> for Name, or into_domain; an enum is transmuted.
FromWire(f, w) ==
  CASE f.kind \in {"enum", "array"} -> w[1]
    [] f.kind = "plain" -> FromNumber(w[1], f.type)
    [] OTHER            -> IF Present(w) THEN Some(FromNumber(w[1], f.type)) ELSE None

----------------------------------------------------------------------------
(* The macro.                                                              *)

MessageInit ==
  /\ fields = <<>>
  /\ wire = <<>>
  /\ has_enum = FALSE
  /\ phase = "fields"

\* Mutant of EnumSeen: the flag is not set.
EnumUnseen(f) == has_enum

\* has_enum_fields after field f.
EnumSeen(f) == has_enum \/ f.kind = "enum"

\* One turn of the loop over the fields.
ProcessField(f) ==
  /\ phase = "fields"
  /\ Len(fields) < MaxFields
  /\ fields' = Append(fields, f)
  /\ \/ /\ Unsupported(f)
        /\ phase' = "rejected"
        /\ UNCHANGED <<wire, has_enum>>
     \/ /\ ~Unsupported(f)
        /\ wire' = wire \o WireOf(f)
        /\ has_enum' = EnumSeen(f)
        /\ UNCHANGED phase

\* The wire struct, which the compiler accepts if the assertion holds.
Emit ==
  LET es == Ordered(wire)
  IN  /\ phase = "fields"
      /\ wire' = es
      /\ phase' = IF NoPadding(es, TailPad(es)) THEN "emitted" ELSE "rejected"
      /\ UNCHANGED <<fields, has_enum>>

MessageNext == (\E f \in FieldTypes : ProcessField(f)) \/ Emit

MessageSpec == MessageInit /\ [][MessageNext]_messageVars

----------------------------------------------------------------------------
(* Properties.                                                             *)

Supported == \A i \in DOMAIN fields : ~Unsupported(fields[i])

\* Types that align_rank knows, or that do not pass through it.
IsRanked(f) ==
  \/ f.kind \in {"option", "enum"}
  \/ f.type \in (Numeric \cup {"bool"}) \ {"i8", "i16", "i32"}

\* Whatever the order of the fields, ordering by rank and padding the tail leave
\* no gap, so the generated assertion never fails, for fields of the types that
\* align_rank lists (derive_message, TAIL_PAD).
RankedFieldsFit ==
  phase = "rejected" /\ Supported => \E i \in DOMAIN fields : ~IsRanked(fields[i])

\* A message read back from the wire is the message written, also Some(0), the
\* smallest and the largest numbers (From<Name>, From<NameWire>, into_domain).
RoundTrips ==
  phase = "emitted" =>
    \A i \in DOMAIN fields :
       \A v \in DomainValues(fields[i]) : FromWire(fields[i], ToWire(fields[i], v)) = v

\* The safe From<NameWire> is generated only when every bit pattern of the wire
\* struct is a message (has_enum_fields).
SafeFromIsTotal ==
  phase = "emitted" /\ ~has_enum =>
    \A i \in DOMAIN fields :
       \A w \in WireValues(fields[i]) : FromWire(fields[i], w) \in DomainValues(fields[i])

\* What the assertion's message says: only a type alias can land out of order,
\* "Use a concrete primitive or array type for that field".  Refuted: align_rank
\* does not list i8, i16 and i32 and puts them before wider fields.
PrimitivesFit ==
  phase = "rejected" /\ Supported =>
    \E i \in DOMAIN fields : fields[i].kind = "array" /\ fields[i].type \in DOMAIN UserTypes
=============================================================================
