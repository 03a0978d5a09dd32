------------------------- MODULE OutputPassesProofs -------------------------
(***************************************************************************)
(* OutputPasses, for all registers, places, operands and instructions: no  *)
(* line changes its section, and what is left computes what all lines      *)
(* computed until a jump arrives behind a store that is remembered.        *)
(*                                                                         *)
(* NoImpact is not inductive: that a load may be dropped depends on what   *)
(* the pass has remembered.  Holds says what that means for the machine,   *)
(* and every line that could change it ends the wait for a second mov.     *)
(***************************************************************************)
EXTENDS OutputPasses, TLAPS

(* The fields of a line, by its kind.                                      *)
LEMMA LineFields ==
  ASSUME NEW line \in Lines
  PROVE  /\ line.kind \in {"section", "label", "plain", "store",
                           "storeImmediate", "load", "move", "instruction"}
         /\ line.kind = "section" => line.section \in Sections
         /\ line.kind = "store" => line.mem \in Operands /\ line.reg \in Regs
         /\ line.kind = "storeImmediate" =>
              line.mem \in Operands /\ line.value \in Values
         /\ line.kind = "load" => line.mem \in Operands /\ line.reg \in Regs
         /\ line.kind \in {"move", "instruction"} =>
              line.what \in Moves \union Instructions
<1>1. CASE line \in [kind : {"section"}, section : Sections]
  BY <1>1
<1>2. CASE line \in [kind : {"label", "plain"}]
  BY <1>2
<1>3. CASE line \in [kind : {"store"}, mem : Operands, reg : Regs,
                     commented : BOOLEAN]
  BY <1>3
<1>4. CASE line \in [kind : {"storeImmediate"}, mem : Operands, value : Values]
  BY <1>4
<1>5. CASE line \in [kind : {"load"}, reg : Regs, mem : Operands]
  BY <1>5
<1>6. CASE line \in [kind : {"move"}, what : Moves]
  BY <1>6
<1>7. CASE line \in [kind : {"instruction"}, what : Instructions]
  BY <1>7
<1> QED
  BY <1>1, <1>2, <1>3, <1>4, <1>5, <1>6, <1>7 DEF Lines

(* Changing one register or one place of a machine.                        *)
LEMMA MachineChange ==
  ASSUME NEW m \in Machines
  PROVE  /\ m.regs \in [Regs -> Values] /\ m.mem \in [Cells -> Values]
         /\ \A c \in Cells, v \in Values : [m EXCEPT !.mem[c] = v] \in Machines
         /\ \A r \in Regs, v \in Values : [m EXCEPT !.regs[r] = v] \in Machines
  BY DEF Machines

LEMMA OperandCell ==
  ASSUME NEW m \in Machines, NEW o \in Operands
  PROVE  Denotes(o, m.regs) \in Cells
  BY MachineChange, DenotesAssumption

(* Executing a line makes a machine of a machine.                          *)
LEMMA ExecuteType ==
  ASSUME NEW line \in Lines, NEW m \in Machines
  PROVE  Execute(line, m) \in Machines
<1>1. CASE line.kind = "store"
  <2>1. m.regs[line.reg] \in Values
    BY <1>1, LineFields, MachineChange
  <2>2. Execute(line, m) =
          [m EXCEPT !.mem[Denotes(line.mem, m.regs)] = m.regs[line.reg]]
    BY <1>1 DEF Execute
  <2> QED
    BY <1>1, <2>1, <2>2, LineFields, OperandCell, MachineChange
<1>2. CASE line.kind = "storeImmediate"
  <2>1. Execute(line, m) =
          [m EXCEPT !.mem[Denotes(line.mem, m.regs)] = line.value]
    BY <1>2 DEF Execute
  <2> QED
    BY <1>2, <2>1, LineFields, OperandCell, MachineChange
<1>3. CASE line.kind = "load"
  <2>1. m.mem[Denotes(line.mem, m.regs)] \in Values
    BY <1>3, LineFields, OperandCell, MachineChange
  <2>2. Execute(line, m) =
          [m EXCEPT !.regs[line.reg] = m.mem[Denotes(line.mem, m.regs)]]
    BY <1>3 DEF Execute
  <2> QED
    BY <1>3, <2>1, <2>2, LineFields, MachineChange
<1>4. CASE line.kind \in {"move", "instruction"}
  <2>1. Execute(line, m) = Effect(line.what, m)
    BY <1>4 DEF Execute
  <2> QED
    BY <1>4, <2>1, LineFields, EffectAssumption
<1>5. CASE line.kind \in {"section", "label", "plain"}
  BY <1>5 DEF Execute
<1> QED
  BY <1>1, <1>2, <1>3, <1>4, <1>5, LineFields

(* A store leaves in the place what is in the register...                  *)
LEMMA StoreHolds ==
  ASSUME NEW line \in Lines, NEW m \in Machines, line.kind = "store"
  PROVE  LET n == Execute(line, m)
         IN  n.mem[Denotes(line.mem, n.regs)] = n.regs[line.reg]
<1> DEFINE c == Denotes(line.mem, m.regs)
<1>1. Execute(line, m) = [m EXCEPT !.mem[c] = m.regs[line.reg]]
  BY DEF Execute
<1>2. c \in Cells
  BY LineFields, OperandCell
<1>3. DOMAIN m.mem = Cells
  BY MachineChange
<1> HIDE DEF c
<1>4. /\ Execute(line, m).regs = m.regs
      /\ Execute(line, m).mem[c] = m.regs[line.reg]
  BY <1>1, <1>2, <1>3 DEF Machines
<1> QED
  BY <1>4 DEF c

(* ...and to load that again changes nothing.                              *)
LEMMA LoadIdle ==
  ASSUME NEW line \in Lines, NEW m \in Machines, line.kind = "load",
         m.mem[Denotes(line.mem, m.regs)] = m.regs[line.reg]
  PROVE  Execute(line, m) = m
<1>1. Execute(line, m) = [m EXCEPT !.regs[line.reg] = m.regs[line.reg]]
  BY DEF Execute
<1> QED
  BY <1>1, LineFields DEF Machines

-----------------------------------------------------------------------------
(* The inductive invariants.                                               *)

(* While a second mov is awaited, the register still holds what the first  *)
(* one stored.                                                             *)
Holds(m) ==
  state = "second" /\ storeReg \in Regs =>
    m.mem[Denotes(storeMem, m.regs)] = m.regs[storeReg]

Undisturbed == TypeOK /\ before = after /\ Holds(after)

PeepholeInv == TypeOK /\ (surprised \/ Undisturbed)

SectionInv == SectionsKept /\ (section # "none" => section = outSection)

LEMMA LineKeepsType ==
  ASSUME TypeOK, NEW line \in Lines, Line(line)
  PROVE  TypeOK'
<1>1. /\ before \in Machines /\ after \in Machines
      /\ Execute(line, before) \in Machines /\ Execute(line, after) \in Machines
  BY ExecuteType DEF TypeOK
<1>0. surprised' \in BOOLEAN
  BY DEF Line, TypeOK
<1>2. CASE UnnecessarySection(line)
  BY <1>0, <1>2, LineFields
     DEF TypeOK, UnnecessarySection, peepholeVars, machines
<1>3. CASE NecessarySection(line)
  BY <1>0, <1>3, LineFields
     DEF TypeOK, NecessarySection, peepholeVars, machines
<1>4. ASSUME IsStore(line), Remember(line)
      PROVE  /\ state' = "second" /\ storeMem' \in Operands
             /\ storeReg' \in Regs \union {OtherText}
  BY <1>4, LineFields DEF IsStore, Remember
<1>5. CASE WaitingFirst(line)
  <2>1. /\ state' \in {"first", "second"} /\ storeMem' \in Operands
        /\ storeReg' \in Regs \union {OtherText}
    BY <1>4, <1>5 DEF WaitingFirst, peepholeVars, TypeOK
  <2>2. before' \in Machines /\ after' \in Machines
    BY <1>1, <1>5 DEF WaitingFirst, Keep
  <2> QED
    BY <1>0, <1>5, <2>1, <2>2 DEF TypeOK, WaitingFirst, sectionVars
<1>6. CASE SecondIsLoad(line)
  <2>1. before' \in Machines /\ after' \in Machines
    BY <1>1, <1>6 DEF SecondIsLoad, Keep
  <2> QED
    BY <1>0, <1>6, <2>1 DEF TypeOK, SecondIsLoad, sectionVars
<1>7. CASE SecondIsMov(line)
  <2>1. /\ state' \in {"first", "second"} /\ storeMem' \in Operands
        /\ storeReg' \in Regs \union {OtherText}
    BY <1>4, <1>7 DEF SecondIsMov, TypeOK
  <2>2. before' \in Machines /\ after' \in Machines
    BY <1>1, <1>7 DEF SecondIsMov, Keep
  <2> QED
    BY <1>0, <1>7, <2>1, <2>2 DEF TypeOK, SecondIsMov, sectionVars
<1>8. CASE SecondIsOther(line)
  <2>1. before' \in Machines /\ after' \in Machines
    BY <1>1, <1>8 DEF SecondIsOther, Keep
  <2> QED
    BY <1>0, <1>8, <2>1 DEF TypeOK, SecondIsOther, sectionVars
<1> QED
  BY <1>2, <1>3, <1>5, <1>6, <1>7, <1>8 DEF Line

LEMMA LineKeepsUndisturbed ==
  ASSUME Undisturbed, NEW line \in Lines, Line(line)
  PROVE  Undisturbed'
<1>1. TypeOK /\ TypeOK' /\ before = after /\ after \in Machines
  BY LineKeepsType DEF Undisturbed, TypeOK
<1>2. ASSUME Keep(line)
      PROVE  before' = after' /\ after' = Execute(line, after)
  BY <1>1, <1>2 DEF Keep
<1>3. ASSUME IsStore(line), Remember(line), Keep(line)
      PROVE  Holds(after)'
  <2>1. CASE line.kind = "store" /\ ~line.commented
    <3>1. storeMem' = line.mem /\ storeReg' = line.reg
      BY <1>3, <2>1 DEF Remember
    <3> QED
      BY <1>1, <1>2, <1>3, <2>1, <3>1, StoreHolds DEF Holds
  <2>2. CASE ~(line.kind = "store" /\ ~line.commented)
    <3>1. storeReg' \notin Regs
      BY <1>3, <2>2, OtherTextAssumption DEF Remember
    <3> QED
      BY <3>1 DEF Holds
  <2> QED
    BY <2>1, <2>2
<1>4. CASE UnnecessarySection(line) \/ NecessarySection(line)
  <2>1. UNCHANGED <<peepholeVars, machines>>
    BY <1>4 DEF UnnecessarySection, NecessarySection
  <2> QED
    BY <1>1, <2>1 DEF Undisturbed, Holds, peepholeVars, machines
<1>5. CASE WaitingFirst(line)
  <2>1. Keep(line) /\ before' = after'
    BY <1>2, <1>5 DEF WaitingFirst
  <2>2. Holds(after)'
    <3>1. CASE IsStore(line)
      BY <1>3, <1>5, <2>1, <3>1 DEF WaitingFirst
    <3>2. CASE ~IsStore(line)
      BY <1>5, <3>2 DEF WaitingFirst, Holds, peepholeVars
    <3> QED
      BY <3>1, <3>2
  <2> QED
    BY <1>1, <2>1, <2>2 DEF Undisturbed
<1>6. CASE SecondIsLoad(line)
  <2>1. Holds(after)'
    BY <1>6 DEF SecondIsLoad, Holds
  <2>2. before' = after'
    <3>1. CASE line.mem = storeMem /\ line.reg = storeReg
      <4>1. after.mem[Denotes(line.mem, after.regs)] = after.regs[line.reg]
        BY <1>6, <3>1, LineFields DEF Undisturbed, Holds, SecondIsLoad
      <4>2. Execute(line, after) = after
        BY <1>1, <1>6, <4>1, LoadIdle DEF SecondIsLoad
      <4> QED
        BY <1>1, <1>6, <3>1, <4>2 DEF SecondIsLoad
    <3>2. CASE ~(line.mem = storeMem /\ line.reg = storeReg)
      BY <1>2, <1>6, <3>2 DEF SecondIsLoad
    <3> QED
      BY <3>1, <3>2
  <2> QED
    BY <1>1, <2>1, <2>2 DEF Undisturbed
<1>7. CASE SecondIsMov(line)
  <2>1. Keep(line) /\ before' = after'
    BY <1>2, <1>7 DEF SecondIsMov
  <2>2. Holds(after)'
    <3>1. CASE IsStore(line)
      BY <1>3, <1>7, <2>1, <3>1 DEF SecondIsMov
    <3>2. CASE ~IsStore(line)
      BY <1>7, <3>2 DEF SecondIsMov, Holds
    <3> QED
      BY <3>1, <3>2
  <2> QED
    BY <1>1, <2>1, <2>2 DEF Undisturbed
<1>8. CASE SecondIsOther(line)
  <2>1. before' = after' /\ after' = Execute(line, after)
    BY <1>2, <1>8 DEF SecondIsOther
  <2>2. Holds(after)'
    <3>1. CASE line.kind = "instruction"
      BY <1>8, <3>1 DEF SecondIsOther, Holds
    <3>2. CASE line.kind # "instruction"
      <4>1. Execute(line, after) = after
        BY <1>8, <3>2 DEF SecondIsOther, Execute
      <4> QED
        BY <1>8, <2>1, <4>1 DEF SecondIsOther, Undisturbed, Holds
    <3> QED
      BY <3>1, <3>2
  <2> QED
    BY <1>1, <2>1, <2>2 DEF Undisturbed
<1> QED
  BY <1>4, <1>5, <1>6, <1>7, <1>8 DEF Line

-----------------------------------------------------------------------------
LEMMA InitPeephole == Init => PeepholeInv
  BY DEF Init, PeepholeInv, Undisturbed, TypeOK, Holds, Sections

(* Whatever step is taken: a jump may only disturb what is remembered.     *)
LEMMA NextPeephole == PeepholeInv /\ [Next]_vars => PeepholeInv'
<1> SUFFICES ASSUME PeepholeInv, [Next]_vars
             PROVE  PeepholeInv'
  OBVIOUS
<1>1. TypeOK
  BY DEF PeepholeInv
<1>2. ASSUME NEW line \in Lines, Line(line)
      PROVE  PeepholeInv'
  <2>1. TypeOK' /\ UNCHANGED surprised
    BY <1>1, <1>2, LineKeepsType DEF Line
  <2>2. CASE surprised
    BY <2>1, <2>2 DEF PeepholeInv
  <2>3. CASE Undisturbed
    BY <1>2, <2>1, <2>3, LineKeepsUndisturbed DEF PeepholeInv
  <2> QED
    BY <2>2, <2>3 DEF PeepholeInv
<1>3. CASE Arrive
  <2>1. TypeOK' /\ before' = after'
    BY <1>1, <1>3 DEF Arrive, TypeOK, sectionVars, peepholeVars
  <2>2. CASE state = "second" /\ storeReg \in Regs
    BY <1>3, <2>1, <2>2 DEF Arrive, PeepholeInv
  <2>3. CASE ~(state = "second" /\ storeReg \in Regs)
    BY <1>3, <2>1, <2>3 DEF Arrive, PeepholeInv, Undisturbed, Holds, peepholeVars
  <2> QED
    BY <2>2, <2>3
<1>4. CASE UNCHANGED vars
  BY <1>4 DEF vars, PeepholeInv, Undisturbed, TypeOK, Holds,
              sectionVars, peepholeVars, machines
<1> QED
  BY <1>2, <1>3, <1>4 DEF Next

(* The passes and the machines keep their types, whatever jumps there are. *)
THEOREM TypeCorrect == Spec => []TypeOK
<1>1. PeepholeInv => TypeOK
  BY DEF PeepholeInv
<1> QED
  BY <1>1, InitPeephole, NextPeephole, PTL DEF Spec

(* Until a jump arrives behind a store that the pass remembers, the lines  *)
(* that are left compute what all of them computed.                        *)
THEOREM PeepholeCorrect == Spec => []NoImpact
<1>1. PeepholeInv => NoImpact
  BY DEF PeepholeInv, Undisturbed, NoImpact
<1> QED
  BY <1>1, InitPeephole, NextPeephole, PTL DEF Spec

(* Dropping section lines leaves every other line in its section.          *)
THEOREM SectionsCorrect == Spec => []SectionsKept
<1>1. Init => SectionInv
  BY DEF Init, SectionInv, SectionsKept
<1>2. SectionInv /\ [Next]_vars => SectionInv'
  <2> SUFFICES ASSUME SectionInv, [Next]_vars
               PROVE  SectionInv'
    OBVIOUS
  <2>1. ASSUME NEW line \in Lines, Line(line)
        PROVE  SectionInv'
    <3>1. CASE UnnecessarySection(line)
      <4>1. section = line.section /\ section # "none"
        BY <3>1, LineFields DEF UnnecessarySection, Sections
      <4> QED
        BY <3>1, <4>1 DEF UnnecessarySection, SectionInv, SectionsKept
    <3>2. CASE NecessarySection(line)
      BY <3>2 DEF NecessarySection, SectionInv, SectionsKept
    <3>3. CASE \/ WaitingFirst(line) \/ SecondIsLoad(line)
               \/ SecondIsMov(line) \/ SecondIsOther(line)
      <4>1. UNCHANGED sectionVars
        BY <3>3 DEF WaitingFirst, SecondIsLoad, SecondIsMov, SecondIsOther
      <4> QED
        BY <4>1 DEF sectionVars, SectionInv, SectionsKept
    <3> QED
      BY <2>1, <3>1, <3>2, <3>3 DEF Line
  <2>2. CASE Arrive \/ UNCHANGED vars
    <3>1. UNCHANGED sectionVars
      BY <2>2 DEF Arrive, vars
    <3> QED
      BY <3>1 DEF sectionVars, SectionInv, SectionsKept
  <2> QED
    BY <2>1, <2>2 DEF Next
<1>3. SectionInv => SectionsKept
  BY DEF SectionInv
<1> QED
  BY <1>1, <1>2, <1>3, PTL DEF Spec
=============================================================================
