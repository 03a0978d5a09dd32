--------------------------- MODULE MCOutputPasses ---------------------------
(* OutputPasses for TLC: two registers, two places in memory, and operands *)
(* that name a place or a register that points to one.                     *)
EXTENDS OutputPasses

MCRegs == {"al", "bl"}
MCValues == {0, 1}
MCOperands == {"TMP", "TMP + 1", "bl"}
MCDenotes(operand, regs) ==
  CASE operand = "TMP" -> 0 [] operand = "TMP + 1" -> 1 [] OTHER -> regs["bl"]

(* `mov al, 0', `mov al, bl' and `mov bl, 1'; `neg al' and `add bl, al'.   *)
MCMoves == {"clear", "copy", "set"}
MCInstructions == {"neg", "add"}
MCEffect(what, m) ==
  CASE what = "clear" -> [m EXCEPT !.regs["al"] = 0]
    [] what = "copy"  -> [m EXCEPT !.regs["al"] = m.regs["bl"]]
    [] what = "set"   -> [m EXCEPT !.regs["bl"] = 1]
    [] what = "neg"   -> [m EXCEPT !.regs["al"] = 1 - @]
    [] what = "add"   -> [m EXCEPT !.regs["bl"] = (@ + m.regs["al"]) % 2]
=============================================================================
