----------------------------- MODULE MCRelocX64 -----------------------------
(* Small instances of RelocX64: every prologue of a few instructions over  *)
(* two registers, of which an instruction reads or overwrites at most one. *)
EXTENDS RelocX64

Instr(op, r, w, len, to) ==
    [op |-> op, reads |-> r, writes |-> w, len |-> len, to |-> to]

AtMostOne == {{}} \cup {{r} : r \in Registers}

Moves(op, len) ==
    {Instr(op, r, w, len, 0) : r \in AtMostOne, w \in AtMostOne}

Jumps == {Instr("jcc", {}, {}, 2, to) : to \in 0..(MaxLength + 2)}

Refused == {Instr("other", {}, {}, 5, 0), Instr("invalid", {}, {}, 1, 0)}

(* A load from below the template.                                         *)
Below == {Instr("below", {}, {0}, 7, 0)}

(* Everything.                                                             *)
AllInstructions ==
    Moves("next", 3) \cup Moves("above", 7) \cup Below \cup Jumps \cup Refused
=============================================================================
