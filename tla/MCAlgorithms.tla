---------------------------- MODULE MCAlgorithms ----------------------------
(***************************************************************************)
(* The pure algorithms for TLC, against their reference definitions: the   *)
(* slot index with the bitwise AND of a machine word of 10 bits, and the   *)
(* derive macro on structs of up to three fields.  A behaviour is about    *)
(* one of the two; the other stays where it has nothing left to do.        *)
(***************************************************************************)
EXTENDS RingIndex, Bitwise, Message

MCAnd(a, b) == a & b

Plain(ty)  == [kind |-> "plain", type |-> ty, len |-> 1]
Array(ty)  == [kind |-> "array", type |-> ty, len |-> 3]
Option(ty) == [kind |-> "option", type |-> ty, len |-> 1]

MCFieldTypes ==
  {Plain(ty)  : ty \in {"u8", "i8", "u16", "i16", "u32", "i32", "f64", "isize",
                        "u128", "bool", "Price"}}
    \cup {Array(ty)  : ty \in {"u8", "u16", "i64", "bool", "Price", "Side"}}
    \cup {Option(ty) : ty \in {"bool", "i8", "f32", "u64", "i128", "usize", "Price"}}
    \cup {[kind |-> "enum", type |-> ty, len |-> 1] : ty \in {"Side", "Level"}}

\* A Pod struct of three u32, an enum with repr(u8) and one with repr(u32).
MCUserTypes ==
  [Price |-> [pod |-> TRUE, size |-> 12, align |-> 4],
   Side  |-> [pod |-> FALSE, size |-> 1, align |-> 1],
   Level |-> [pod |-> FALSE, size |-> 4, align |-> 4]]

\* Words of 2 to 6 bits instead of 8 to 128.
MCHalf ==
  [u8 |-> 2, i8 |-> 2, u16 |-> 4, i16 |-> 4, u32 |-> 8, i32 |-> 8, f32 |-> 8,
   u64 |-> 16, i64 |-> 16, f64 |-> 16, usize |-> 16, isize |-> 16,
   u128 |-> 32, i128 |-> 32]

AlgorithmsInit ==
  \/ IndexInit /\ phase = "none" /\ fields = <<>> /\ wire = <<>> /\ has_enum = FALSE
  \/ MessageInit /\ capacity = 2 /\ number = Modulus - 1

AlgorithmsNext ==
  \/ Advance /\ UNCHANGED messageVars
  \/ MessageNext /\ UNCHANGED indexVars

AlgorithmsSpec == AlgorithmsInit /\ [][AlgorithmsNext]_<<indexVars, messageVars>>
=============================================================================
