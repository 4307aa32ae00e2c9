----------------------------- MODULE CowBuffer -----------------------------
(***************************************************************************)
(* The copy-on-write buffer of src/safe_jit/arm_util.rs, as a value: what  *)
(* it holds is a set of pieces, each with its place in the new bytes.      *)
(* "copy" is a slice of the original from offset src on; the other kinds   *)
(* are bytes appended in place of the instruction at offset src:           *)
(*   "hole"     room for a load, to be encoded later                       *)
(*   "ldr"      the load, with the distance it has been encoded with       *)
(*   "deref"    a load through the register it loads                       *)
(*   "mov"      a load of an immediate address                             *)
(*   "pad", "literal"  padding, and an absolute address                    *)
(***************************************************************************)
EXTENDS Integers

PieceKinds == {"copy", "hole", "ldr", "deref", "mov", "pad", "literal"}

Piece == [kind : PieceKinds, at : Nat, len : Nat \ {0}, src : Nat, arg : Int]

(* num_copied is the field copied, new_bytes the other two.                *)
Buffer == [pieces : SUBSET Piece, len : Nat, copied : Nat]

NewBuffer == [pieces |-> {}, len |-> 0, copied |-> 0]

(* The slice of the original from num_copied to the offset must exist.     *)
InOrder(b, offset) == b.copied <= offset

Push(b, kind, n, src, arg) ==
    [pieces |-> b.pieces \cup {[kind |-> kind, at |-> b.len, len |-> n,
                                src |-> src, arg |-> arg]},
     len |-> b.len + n,
     copied |-> b.copied]

(* num_copied is moved to the offset.                                      *)
SkipTo(b, offset) == [pieces |-> b.pieces, len |-> b.len, copied |-> offset]

CopyUpTo(b, offset) ==
    IF offset = b.copied
    THEN b
    ELSE SkipTo(Push(b, "copy", offset - b.copied, b.copied, 0), offset)

(* New bytes behind the original's bytes before the offset.                *)
AppendBytes(b, offset, kind, n, arg) ==
    Push(CopyUpTo(b, offset), kind, n, offset, arg)

(* The original's bytes at the offset are left out.                        *)
Ignore(b, offset, n) == SkipTo(CopyUpTo(b, offset), offset + n)

Replace(b, offset, kind, n, arg) ==
    SkipTo(AppendBytes(b, offset, kind, n, arg), offset + n)

(* A load is written into its hole through new_bytes_mut.                  *)
Filled(p, at, arg) ==
    IF p.at = at
    THEN [kind |-> "ldr", at |-> at, len |-> p.len, src |-> p.src, arg |-> arg]
    ELSE p

FillHole(b, at, arg) ==
    [pieces |-> {Filled(p, at, arg) : p \in b.pieces}, len |-> b.len, copied |-> b.copied]

(* A buffer nobody wrote to is the original itself.                        *)
IntoBytes(b, total) ==
    CopyUpTo(IF b.len = 0 THEN NewBuffer ELSE b, total)
=============================================================================
