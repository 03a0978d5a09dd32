--------------------------- MODULE StructuredCode ---------------------------
(***************************************************************************)
(* What codegen.h promises of loops and conditionals: each of them is      *)
(* generated as a unit, with two labels of its own.  A loop is             *)
(*     first: <condition> je second <body> jmp first second:               *)
(* and a conditional is one of                                             *)
(*     <condition> je second <then> second:                                *)
(*     <condition> je second <then> jmp first second: <else> first:        *)
(* Units nest like the statements of the program: `open' holds the ones    *)
(* that are started and not finished, the innermost last.  Every other     *)
(* command or condition is code with some labels of its own.               *)
(*                                                                         *)
(* Nothing is promised of a compilation that reports an error (aborted).   *)
(***************************************************************************)
EXTENDS Integers, Sequences

CONSTANT LocalCounts   (* how many labels a command or condition may use   *)

ASSUME LocalCountsAssumption == LocalCounts \subseteq Nat

VARIABLES
  code,      (* the label definitions and jumps of the generated program   *)
  counter,   (* the next label                                             *)
  open,      (* the units that are started and not finished                *)
  aborted    (* an error was reported                                      *)

svars == <<code, counter, open, aborted>>

Def(label) == [op |-> "def", label |-> label]
Jump(label) == [op |-> "jump", label |-> label]

(* A command with n labels of its own defines each of them once.           *)
Locals(c, n) == [i \in 1..n |-> Def(c + i - 1)]

Top == open[Len(open)]
Pop == SubSeq(open, 1, Len(open) - 1)
ToPhase(phase) == [open EXCEPT ![Len(open)].phase = phase]

TopIs(kind, phase) == open # <<>> /\ Top.kind = kind /\ Top.phase = phase

-----------------------------------------------------------------------------
Init ==
  /\ code = <<>>
  /\ counter = 0
  /\ open = <<>>
  /\ aborted = FALSE

Command(n) ==
  /\ code' = code \o Locals(counter, n)
  /\ counter' = counter + n
  /\ UNCHANGED <<open, aborted>>

StartLoop ==
  /\ code' = Append(code, Def(counter))
  /\ open' = Append(open, [kind |-> "while", phase |-> "cond",
                           first |-> counter, second |-> counter + 1])
  /\ counter' = counter + 2
  /\ UNCHANGED aborted

LoopCondition(n) ==
  /\ TopIs("while", "cond")
  /\ code' = code \o Locals(counter, n) \o <<Jump(Top.second)>>
  /\ counter' = counter + n
  /\ open' = ToPhase("body")
  /\ UNCHANGED aborted

FinishLoop ==
  /\ TopIs("while", "body")
  /\ code' = code \o <<Jump(Top.first), Def(Top.second)>>
  /\ open' = Pop
  /\ UNCHANGED <<counter, aborted>>

(* A mistake: only one of the two labels is taken off the counter.         *)
StartIfOneLabel(n) ==
  /\ code' = code \o Locals(counter, n) \o <<Jump(counter + n + 1)>>
  /\ open' = Append(open, [kind |-> "if", phase |-> "then",
                           first |-> counter + n, second |-> counter + n + 1])
  /\ counter' = counter + n + 1
  /\ UNCHANGED aborted

StartIf(n) ==
  /\ code' = code \o Locals(counter, n) \o <<Jump(counter + n + 1)>>
  /\ open' = Append(open, [kind |-> "if", phase |-> "then",
                           first |-> counter + n, second |-> counter + n + 1])
  /\ counter' = counter + n + 2
  /\ UNCHANGED aborted

StartElse ==
  /\ TopIs("if", "then")
  /\ code' = code \o <<Jump(Top.first), Def(Top.second)>>
  /\ open' = ToPhase("else")
  /\ UNCHANGED <<counter, aborted>>

(* A mistake: a conditional ends in the same way with and without an else. *)
FinishIfAlike ==
  /\ TopIs("if", "then") \/ TopIs("if", "else")
  /\ code' = Append(code, Def(Top.second))
  /\ open' = Pop
  /\ UNCHANGED <<counter, aborted>>

FinishIf ==
  /\ \/ TopIs("if", "then") /\ code' = Append(code, Def(Top.second))
     \/ TopIs("if", "else") /\ code' = Append(code, Def(Top.first))
  /\ open' = Pop
  /\ UNCHANGED <<counter, aborted>>

Next ==
  /\ ~aborted
  /\ \/ \E n \in LocalCounts : Command(n) \/ LoopCondition(n) \/ StartIf(n)
     \/ StartLoop \/ FinishLoop \/ StartElse \/ FinishIf

Spec == Init /\ [][Next]_svars

(* What an implementation has to do: take these steps until it reports an  *)
(* error; after that the code may be anything.                             *)
Promise == Init /\ [][Next \/ aborted']_svars

-----------------------------------------------------------------------------
(* Every label is defined at most once.                                    *)
LabelsUnique ==
  \A i, j \in DOMAIN code :
    (code[i].op = "def" /\ code[j].op = "def" /\ code[i].label = code[j].label)
      => i = j

(* Every jump goes to a label that the code defines.                       *)
JumpsResolved ==
  \A i \in DOMAIN code : code[i].op = "jump" =>
    \E j \in DOMAIN code : code[j] = Def(code[i].label)

(* The units guarantee that nasm accepts the labels: none is defined twice *)
(* and, once every unit is finished, every jump has a target.              *)
WellLabelled == ~aborted => LabelsUnique /\ (open = <<>> => JumpsResolved)

-----------------------------------------------------------------------------
(* Why: what holds of the units that are still open.                       *)

CodeOps == [op : {"def", "jump"}, label : Nat]
Units == [kind : {"while", "if"}, phase : {"cond", "body", "then", "else"},
          first : Nat, second : Nat]

(* Code, counter and units have their types, and a unit is in a phase of   *)
(* its kind.                                                               *)
TypeOK ==
  /\ code \in Seq(CodeOps)
  /\ counter \in Nat
  /\ open \in Seq(Units)
  /\ aborted \in BOOLEAN
  /\ \A k \in DOMAIN open :
       (open[k].kind = "while") <=> (open[k].phase \in {"cond", "body"})

Defined(s) == {s[i].label : i \in {j \in DOMAIN s : s[j].op = "def"}}
Targets(s) == {s[i].label : i \in {j \in DOMAIN s : s[j].op = "jump"}}

(* The labels of a unit that are still to be defined, and the one of them  *)
(* that the code already jumps to.                                         *)
Pending(u) ==
  IF u.kind = "while" THEN {u.second}
  ELSE IF u.phase = "then" THEN {u.first, u.second} ELSE {u.first}
Awaited(u) == IF u.phase = "else" THEN u.first ELSE u.second

(* An open unit with respect to the labels that are defined and to the     *)
(* counter: none of its pending labels is defined, and the start of a loop *)
(* is.                                                                     *)
UnitOK(u, defined, c) ==
  /\ u.first # u.second /\ u.first < c /\ u.second < c
  /\ Pending(u) \cap defined = {}
  /\ u.kind = "while" => u.first \in defined

Apart(u, v) == {u.first, u.second} \cap {v.first, v.second} = {}

(* Units have labels of their own, below the counter, and a jump goes to a *)
(* defined label or to one that an open unit is going to define.           *)
UnitInv ==
  /\ LabelsUnique
  /\ Defined(code) \subseteq 0..(counter - 1)
  /\ \A k \in DOMAIN open : UnitOK(open[k], Defined(code), counter)
  /\ \A k, l \in DOMAIN open : k # l => Apart(open[k], open[l])
  /\ Targets(code) \subseteq
       Defined(code) \union {Awaited(open[k]) : k \in DOMAIN open}
=============================================================================
