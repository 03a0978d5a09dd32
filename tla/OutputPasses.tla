---------------------------- MODULE OutputPasses ----------------------------
(***************************************************************************)
(* The two passes codegen_dump makes over the generated assembly:          *)
(* remove_unnecessary_section_commands drops the `section' lines that name *)
(* the section the output is already in, perform_peephole drops a load     *)
(* that follows the store of the same register to the same place.          *)
(*                                                                         *)
(* Both read a line, decide and go on, so that a line can be sent through  *)
(* the second pass as soon as the first has written it: a step of this     *)
(* specification is one line of the temporary file.  To say what dropping  *)
(* a line does, two machines execute the program: `before' every line of   *)
(* it, `after' the lines that are left.                                    *)
(***************************************************************************)
EXTENDS Integers

CONSTANTS
  Regs,           (* registers                                             *)
  Cells,          (* places in memory                                      *)
  Values,         (* what a register or a place can hold                   *)
  Operands,       (* texts between [ and ]: `TMP + 4', `rsi', ...          *)
  Denotes(_, _),  (* the cell that an operand denotes, given the registers *)
  Moves,          (* mov lines that neither load nor store                 *)
  Instructions,   (* lines that are instructions and not mov or movss      *)
  Effect(_, _)    (* what one of these does to a machine                   *)

Machines == [regs : [Regs -> Values], mem : [Cells -> Values]]

ASSUME DenotesAssumption ==
  \A o \in Operands, regs \in [Regs -> Values] : Denotes(o, regs) \in Cells
ASSUME EffectAssumption ==
  \A i \in Moves \union Instructions, m \in Machines : Effect(i, m) \in Machines

VARIABLES
  section,    (* remove_unnecessary_section_commands: the section it is in *)
  inSection,  (* where nasm would put the next line of the input           *)
  outSection, (* where nasm puts the next line of the output               *)
  state,      (* perform_peephole: waiting for the first or second mov     *)
  storeMem,   (* store_mem_dst                                             *)
  storeReg,   (* store_reg_src                                             *)
  before,     (* the machine that executes every line                      *)
  after,      (* the machine that executes the lines that are left         *)
  surprised   (* history: a jump arrived while a store was remembered      *)

sectionVars == <<section, inSection, outSection>>
peepholeVars == <<state, storeMem, storeReg>>
machines == <<before, after>>
vars == <<sectionVars, peepholeVars, machines, surprised>>

Sections == {"data", "rodata", "bss", "text"}

(* What follows the comma of a store when it is not just a register: an    *)
(* immediate value, or a register and a comment.  No load names it.        *)
OtherText == "other text"
ASSUME OtherTextAssumption == OtherText \notin Regs

(* Lines by what the passes and the machine tell apart.  Comments, align,  *)
(* alignb, db, dd, times and resb are `plain'.                             *)
Lines ==
  [kind : {"section"}, section : Sections]
    \union [kind : {"label", "plain"}]
    \union [kind : {"store"}, mem : Operands, reg : Regs, commented : BOOLEAN]
    \union [kind : {"storeImmediate"}, mem : Operands, value : Values]
    \union [kind : {"load"}, reg : Regs, mem : Operands]
    \union [kind : {"move"}, what : Moves]
    \union [kind : {"instruction"}, what : Instructions]

IsStore(line) == line.kind \in {"store", "storeImmediate"}
IsMov(line) == IsStore(line) \/ line.kind \in {"load", "move"}

(* One line on the machine.                                                *)
Execute(line, m) ==
  CASE line.kind = "store" ->
         [m EXCEPT !.mem[Denotes(line.mem, m.regs)] = m.regs[line.reg]]
    [] line.kind = "storeImmediate" ->
         [m EXCEPT !.mem[Denotes(line.mem, m.regs)] = line.value]
    [] line.kind = "load" ->
         [m EXCEPT !.regs[line.reg] = m.mem[Denotes(line.mem, m.regs)]]
    [] line.kind \in {"move", "instruction"} -> Effect(line.what, m)
    [] OTHER -> m

-----------------------------------------------------------------------------
Init ==
  /\ section = "none" /\ inSection = "text" /\ outSection = "text"
  /\ state = "first" /\ storeMem \in Operands /\ storeReg = OtherText
  /\ before \in Machines /\ after = before
  /\ surprised = FALSE

(* A line that is left in the output.                                      *)
Keep(line) ==
  /\ before' = Execute(line, before)
  /\ after' = Execute(line, after)

(* remove_unnecessary_section_commands: the section of the last such line  *)
(* once more.                                                              *)
UnnecessarySection(line) ==
  /\ line.kind = "section" /\ line.section = section
  /\ inSection' = line.section
  /\ UNCHANGED <<section, outSection, peepholeVars, machines>>

(* A mistake: the pass does not remember that it is in .bss.               *)
NecessarySectionNotBss(line) ==
  /\ line.kind = "section" /\ line.section # section
  /\ section' = IF line.section = "bss" THEN section ELSE line.section
  /\ inSection' = line.section /\ outSection' = line.section
  /\ UNCHANGED <<peepholeVars, machines>>

(* Any other section line is written, and no state of perform_peephole     *)
(* minds it.                                                               *)
NecessarySection(line) ==
  /\ line.kind = "section" /\ line.section # section
  /\ section' = line.section
  /\ inSection' = line.section /\ outSection' = line.section
  /\ UNCHANGED <<peepholeVars, machines>>

(* perform_peephole copies the operands of a store.                        *)
Remember(line) ==
  /\ state' = "second"
  /\ storeMem' = line.mem
  /\ storeReg' = IF line.kind = "store" /\ ~line.commented
                 THEN line.reg ELSE OtherText

(* WAITING_FIRST_MOV                                                       *)
WaitingFirst(line) ==
  /\ line.kind # "section" /\ state = "first"
  /\ IF IsStore(line) THEN Remember(line) ELSE UNCHANGED peepholeVars
  /\ Keep(line)
  /\ UNCHANGED sectionVars

(* WAITING_SECOND_MOV: a load, ...                                         *)
SecondIsLoad(line) ==
  /\ state = "second" /\ line.kind = "load"
  /\ state' = "first"
  /\ IF line.mem = storeMem /\ line.reg = storeReg
     THEN before' = Execute(line, before) /\ UNCHANGED after
     ELSE Keep(line)
  /\ UNCHANGED <<storeMem, storeReg, sectionVars>>

(* ...another mov, which is checked again as a first one, ...              *)
SecondIsMov(line) ==
  /\ state = "second" /\ IsMov(line) /\ line.kind # "load"
  /\ IF IsStore(line)
     THEN Remember(line)
     ELSE state' = "first" /\ UNCHANGED <<storeMem, storeReg>>
  /\ Keep(line)
  /\ UNCHANGED sectionVars

(* A mistake: instructions do not end the wait.                            *)
SecondIsOtherWaits(line) ==
  /\ state = "second" /\ line.kind \in {"label", "plain", "instruction"}
  /\ Keep(line)
  /\ UNCHANGED <<peepholeVars, sectionVars>>

(* ...or no mov: only an instruction ends the wait.                        *)
SecondIsOther(line) ==
  /\ state = "second" /\ line.kind \in {"label", "plain", "instruction"}
  /\ state' = IF line.kind = "instruction" THEN "first" ELSE "second"
  /\ Keep(line)
  /\ UNCHANGED <<storeMem, storeReg, sectionVars>>

Line(line) ==
  /\ \/ UnnecessarySection(line) \/ NecessarySection(line)
     \/ WaitingFirst(line)
     \/ SecondIsLoad(line) \/ SecondIsMov(line) \/ SecondIsOther(line)
  /\ UNCHANGED surprised

(* A label that the program jumps to: the passes do with it what they do   *)
(* with any label, and both machines come from some earlier or later jump. *)
Arrive ==
  /\ before' \in Machines /\ after' = before'
  /\ surprised' = (surprised \/ (state = "second" /\ storeReg \in Regs))
  /\ UNCHANGED <<sectionVars, peepholeVars>>

Next == (\E line \in Lines : Line(line)) \/ Arrive

Spec == Init /\ [][Next]_vars

-----------------------------------------------------------------------------
(* Properties.                                                             *)

(* What the passes remember and the machines have their types: operands    *)
(* that are copied out of a line end up where they belong.                 *)
TypeOK ==
  /\ section \in Sections \union {"none"}
  /\ inSection \in Sections /\ outSection \in Sections
  /\ state \in {"first", "second"}
  /\ storeMem \in Operands /\ storeReg \in Regs \union {OtherText}
  /\ before \in Machines /\ after \in Machines
  /\ surprised \in BOOLEAN

(* Every line is in the section it was generated for: dropping a `section' *)
(* line never moves the lines after it.                                    *)
SectionsKept == inSection = outSection

(* What is left computes what all lines computed, in every register and   *)
(* every place, as long as no label that the program jumps to comes after  *)
(* a store that perform_peephole still remembers: within straight-line     *)
(* code, a dropped load is never missed.                                   *)
NoImpact == ~surprised => before = after

(* "Remove those instructions that have no impact in execution"            *)
(* (perform_peephole): the same of all programs.                           *)
NoImpactWithJumps == before = after
=============================================================================
