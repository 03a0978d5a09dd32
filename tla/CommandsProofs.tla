--------------------------- MODULE CommandsProofs ---------------------------
(***************************************************************************)
(* Commands keeps the promise of StructuredCode, for programs of any       *)
(* length and any number of labels a command may use, and so an accepted   *)
(* program without loops in loops or conditionals in conditionals has      *)
(* valid labels.                                                           *)
(*                                                                         *)
(* The two pairs of label buffers have to hold, whenever they are read,    *)
(* the labels of the innermost loop or conditional.  The invariant says    *)
(* more: they hold those of every frame, as long as nothing is nested      *)
(* (there is then at most one frame of each kind).  It also keeps the      *)
(* phases of the frames in step with pc.                                   *)
(*                                                                         *)
(* The second part is about programs with an error that is printed and     *)
(* then forgotten: they lose a label.  The third shows that an accepted    *)
(* program is a sentence of the grammar in Statements.  The last is about  *)
(* the parser inside of main, in Driver: what is left of the files of a    *)
(* compilation and what its exit status tells, wherever it fails.          *)
(***************************************************************************)
EXTENDS Statements, Driver, SequenceTheorems, WellFoundedInduction, TLAPS

SP == INSTANCE StructuredCodeProofs
  WITH open <- OpenUnits,
       aborted <- reported \/ nested \/ status = "aborted"

Aborted == reported \/ nested \/ status = "aborted"

UnitOf(f) == [kind |-> f.kind, phase |-> f.phase,
              first |-> f.first, second |-> f.second]
UnitsOf(s) == [i \in DOMAIN s |-> UnitOf(s[i])]

Phases == {"cond", "body", "then", "else"}
Places == {"start", "command", "whileCond", "ifCond", "body", "block",
           "return", "else?", "elseBlock"}
Inside == {"whileCond", "body", "block", "else?", "elseBlock"}

(* The condition of a loop is being read in the innermost frame only.      *)
PhasesInv ==
  /\ \A k \in DOMAIN stack :
       /\ (stack[k].kind = "while") <=> (stack[k].phase \in {"cond", "body"})
       /\ (stack[k].phase = "cond") <=> (k = Len(stack) /\ pc = "whileCond")
  /\ pc = "else?" => Frame.phase = "then"
  /\ status = "ok" => pc = "start"

(* The labels of a frame are those of its kind's buffers.                  *)
Holds(f, wl, il) ==
  /\ f.kind = "while" => f.first = wl.start /\ f.second = wl.end
  /\ f.kind = "if" => f.first = il.end /\ f.second = il.false
LabelsHeld ==
  ~nested => \A k \in DOMAIN stack : Holds(stack[k], whileLabels, ifLabels)

IInv == TypeOK /\ PhasesInv /\ LabelsHeld

(* A step of the promise.                                                  *)
Kept == [SP!Next \/ Aborted']_(SP!svars)

-----------------------------------------------------------------------------
(* Frames, and the units they are seen as.                                 *)

LEMMA PushedFrame ==
  ASSUME NEW s \in Seq(Frames), NEW f \in Frames
  PROVE  /\ Append(s, f) \in Seq(Frames) /\ Append(s, f) # <<>>
         /\ Len(s) \in Nat /\ DOMAIN s = 1..Len(s)
         /\ Len(Append(s, f)) = Len(s) + 1
         /\ DOMAIN Append(s, f) = 1..Len(s) + 1
         /\ \A k \in 1..Len(s) : Append(s, f)[k] = s[k]
         /\ Append(s, f)[Len(s) + 1] = f
  OBVIOUS

LEMMA PoppedFrame ==
  ASSUME NEW s \in Seq(Frames), s # <<>>
  PROVE  /\ SubSeq(s, 1, Len(s) - 1) \in Seq(Frames)
         /\ Len(s) \in Nat \ {0} /\ DOMAIN s = 1..Len(s)
         /\ Len(SubSeq(s, 1, Len(s) - 1)) = Len(s) - 1
         /\ DOMAIN SubSeq(s, 1, Len(s) - 1) = 1..Len(s) - 1
         /\ \A k \in 1..Len(s) - 1 : SubSeq(s, 1, Len(s) - 1)[k] = s[k]
<1> DEFINE n == Len(s) - 1
           t == SubSeq(s, 1, n)
<1>1. Len(s) \in Nat \ {0} /\ DOMAIN s = 1..Len(s) /\ n \in Nat
  OBVIOUS
<1>2. \A k \in 1..n : s[k] \in Frames
  BY <1>1
<1> HIDE DEF n
<1>3. /\ t \in Seq(Frames) /\ Len(t) = n
      /\ \A k \in 1..n : t[k] = s[k]
  BY <1>1, <1>2, SubSeqProperties
<1> HIDE DEF t
<1>4. DOMAIN t = 1..n
  BY <1>3
<1> QED
  BY <1>1, <1>3, <1>4 DEF n, t

LEMMA TopFrame ==
  ASSUME NEW s \in Seq(Frames), s # <<>>
  PROVE  /\ Len(s) \in Nat \ {0} /\ DOMAIN s = 1..Len(s) /\ Len(s) \in DOMAIN s
         /\ s[Len(s)] \in Frames
  OBVIOUS

LEMMA PhasedFrame ==
  ASSUME NEW s \in Seq(Frames), s # <<>>, NEW p \in Phases
  PROVE  LET t == [s EXCEPT ![Len(s)].phase = p]
         IN /\ t \in Seq(Frames) /\ t # <<>> /\ Len(t) = Len(s)
            /\ DOMAIN t = DOMAIN s
            /\ \A k \in DOMAIN s : k # Len(s) => t[k] = s[k]
            /\ t[Len(s)] = [s[Len(s)] EXCEPT !.phase = p]
            /\ t[Len(s)].kind = s[Len(s)].kind
            /\ t[Len(s)].phase = p
            /\ t[Len(s)].first = s[Len(s)].first
            /\ t[Len(s)].second = s[Len(s)].second
<1> DEFINE t == [s EXCEPT ![Len(s)].phase = p]
           f == [s[Len(s)] EXCEPT !.phase = p]
<1>1. /\ Len(s) \in Nat \ {0} /\ DOMAIN s = 1..Len(s) /\ Len(s) \in DOMAIN s
      /\ s[Len(s)] \in Frames
  BY TopFrame
<1>2. /\ f \in Frames /\ f.kind = s[Len(s)].kind /\ f.phase = p
      /\ f.first = s[Len(s)].first /\ f.second = s[Len(s)].second
  BY <1>1 DEF Frames, Phases
<1>3. /\ t \in Seq(Frames) /\ Len(t) = Len(s) /\ DOMAIN t = DOMAIN s
      /\ \A k \in DOMAIN s : k # Len(s) => t[k] = s[k]
      /\ t[Len(s)] = f
  BY <1>1, <1>2
<1> HIDE DEF f
<1> QED
  BY <1>1, <1>2, <1>3 DEF f

LEMMA BlockFrame ==
  ASSUME NEW s \in Seq(Frames), s # <<>>
  PROVE  LET t == [s EXCEPT ![Len(s)].block = TRUE]
         IN /\ t \in Seq(Frames) /\ t # <<>> /\ Len(t) = Len(s)
            /\ DOMAIN t = DOMAIN s
            /\ \A k \in DOMAIN s : /\ t[k].kind = s[k].kind
                                   /\ t[k].phase = s[k].phase
                                   /\ t[k].first = s[k].first
                                   /\ t[k].second = s[k].second
<1> DEFINE t == [s EXCEPT ![Len(s)].block = TRUE]
           f == [s[Len(s)] EXCEPT !.block = TRUE]
<1>1. /\ Len(s) \in Nat \ {0} /\ DOMAIN s = 1..Len(s) /\ Len(s) \in DOMAIN s
      /\ s[Len(s)] \in Frames
  BY TopFrame
<1>2. /\ f \in Frames /\ f.kind = s[Len(s)].kind
      /\ f.phase = s[Len(s)].phase
      /\ f.first = s[Len(s)].first /\ f.second = s[Len(s)].second
  BY <1>1 DEF Frames
<1>3. /\ t \in Seq(Frames) /\ Len(t) = Len(s) /\ DOMAIN t = DOMAIN s
      /\ \A k \in DOMAIN s : k # Len(s) => t[k] = s[k]
      /\ t[Len(s)] = f
  BY <1>1, <1>2
<1> HIDE DEF f
<1> QED
  BY <1>1, <1>2, <1>3

LEMMA UnitFacts ==
  ASSUME NEW s \in Seq(Frames)
  PROVE  /\ UnitsOf(s) \in Seq(SP!Units) /\ Len(UnitsOf(s)) = Len(s)
         /\ DOMAIN UnitsOf(s) = DOMAIN s
         /\ \A k \in DOMAIN s : UnitsOf(s)[k] = UnitOf(s[k])
<1>1. \A f \in Frames : UnitOf(f) \in SP!Units
  BY DEF Frames, UnitOf, SP!Units
<1>2. Len(s) \in Nat /\ DOMAIN s = 1..Len(s) /\ \A k \in DOMAIN s : s[k] \in Frames
  OBVIOUS
<1> QED
  BY <1>1, <1>2 DEF UnitsOf

LEMMA UnitsPushed ==
  ASSUME NEW s \in Seq(Frames), NEW f \in Frames
  PROVE  UnitsOf(Append(s, f)) = Append(UnitsOf(s), UnitOf(f))
<1> DEFINE t == Append(s, f)
           u == Append(UnitsOf(s), UnitOf(f))
<1>1. UnitOf(f) \in SP!Units
  BY DEF Frames, UnitOf, SP!Units
<1>2. /\ t \in Seq(Frames) /\ Len(s) \in Nat /\ DOMAIN s = 1..Len(s)
      /\ Len(t) = Len(s) + 1 /\ DOMAIN t = 1..Len(s) + 1
      /\ \A k \in 1..Len(s) : t[k] = s[k]
      /\ t[Len(s) + 1] = f
  BY PushedFrame
<1>3. /\ UnitsOf(s) \in Seq(SP!Units) /\ Len(UnitsOf(s)) = Len(s)
      /\ \A k \in DOMAIN s : UnitsOf(s)[k] = UnitOf(s[k])
  BY UnitFacts
<1>4. /\ u \in Seq(SP!Units) /\ Len(u) = Len(s) + 1
      /\ \A k \in 1..Len(s) : u[k] = UnitsOf(s)[k]
      /\ u[Len(s) + 1] = UnitOf(f)
  BY <1>1, <1>3, AppendProperties
<1> HIDE DEF t, u
<1>5. /\ UnitsOf(t) \in Seq(SP!Units) /\ Len(UnitsOf(t)) = Len(t)
      /\ \A k \in DOMAIN t : UnitsOf(t)[k] = UnitOf(t[k])
  BY <1>2, UnitFacts
<1>6. ASSUME NEW k \in 1..Len(UnitsOf(t))
      PROVE  UnitsOf(t)[k] = u[k]
  <2>1. k \in 1..Len(s) + 1 /\ UnitsOf(t)[k] = UnitOf(t[k])
    BY <1>2, <1>5
  <2>2. CASE k \in 1..Len(s)
    BY <1>2, <1>3, <1>4, <2>1, <2>2
  <2>3. CASE k = Len(s) + 1
    BY <1>2, <1>4, <2>1, <2>3
  <2> QED
    BY <1>2, <2>1, <2>2, <2>3
<1>7. UnitsOf(t) = u
  BY <1>2, <1>4, <1>5, <1>6, SeqEqual
<1> QED
  BY <1>7 DEF t, u

LEMMA UnitsPopped ==
  ASSUME NEW s \in Seq(Frames), s # <<>>
  PROVE  UnitsOf(SubSeq(s, 1, Len(s) - 1)) =
           SubSeq(UnitsOf(s), 1, Len(UnitsOf(s)) - 1)
<1> DEFINE t == SubSeq(s, 1, Len(s) - 1)
           v == UnitsOf(s)
           u == SubSeq(v, 1, Len(v) - 1)
<1>1. /\ t \in Seq(Frames) /\ Len(s) \in Nat \ {0} /\ DOMAIN s = 1..Len(s)
      /\ Len(t) = Len(s) - 1 /\ DOMAIN t = 1..Len(s) - 1
      /\ \A k \in 1..Len(s) - 1 : t[k] = s[k]
  BY PoppedFrame
<1>2. /\ v \in Seq(SP!Units) /\ Len(v) = Len(s)
      /\ \A k \in DOMAIN s : v[k] = UnitOf(s[k])
  BY UnitFacts
<1> HIDE DEF v
<1>3. /\ u \in Seq(SP!Units) /\ Len(u) = Len(s) - 1
      /\ \A k \in 1..Len(s) - 1 : u[k] = v[k]
  BY <1>1, <1>2, SMTT(30)
<1> HIDE DEF t, u
<1> DEFINE w == UnitsOf(t)
<1>4. /\ w \in Seq(SP!Units) /\ Len(w) = Len(t)
      /\ \A k \in DOMAIN t : w[k] = UnitOf(t[k])
  BY <1>1, UnitFacts
<1> HIDE DEF w
<1>5. ASSUME NEW k \in 1..Len(w)
      PROVE  w[k] = u[k]
  <2>1. k \in 1..Len(s) - 1
    BY <1>1, <1>4
  <2>2. k \in DOMAIN s /\ k \in DOMAIN t
    BY <1>1, <2>1
  <2>3. t[k] = s[k] /\ u[k] = v[k]
    BY <1>1, <1>3, <2>1
  <2>4. w[k] = UnitOf(t[k]) /\ v[k] = UnitOf(s[k])
    BY <1>2, <1>4, <2>2
  <2> QED
    BY <2>3, <2>4
<1>6. w = u
  BY <1>1, <1>3, <1>4, <1>5, SeqEqual
<1> QED
  BY <1>6 DEF t, u, v, w

LEMMA UnitsPhased ==
  ASSUME NEW s \in Seq(Frames), s # <<>>, NEW p \in Phases
  PROVE  UnitsOf([s EXCEPT ![Len(s)].phase = p]) =
           [UnitsOf(s) EXCEPT ![Len(UnitsOf(s))].phase = p]
<1> DEFINE t == [s EXCEPT ![Len(s)].phase = p]
           v == UnitsOf(s)
           u == [v EXCEPT ![Len(v)].phase = p]
           w == [v[Len(s)] EXCEPT !.phase = p]
<1>1. /\ Len(s) \in Nat \ {0} /\ DOMAIN s = 1..Len(s) /\ Len(s) \in DOMAIN s
      /\ s[Len(s)] \in Frames
  BY TopFrame
<1>2. /\ t \in Seq(Frames) /\ Len(t) = Len(s) /\ DOMAIN t = DOMAIN s
      /\ \A k \in DOMAIN s : k # Len(s) => t[k] = s[k]
      /\ t[Len(s)].kind = s[Len(s)].kind /\ t[Len(s)].phase = p
      /\ t[Len(s)].first = s[Len(s)].first
      /\ t[Len(s)].second = s[Len(s)].second
  BY PhasedFrame
<1>3. /\ v \in Seq(SP!Units) /\ Len(v) = Len(s) /\ DOMAIN v = DOMAIN s
      /\ \A k \in DOMAIN s : v[k] = UnitOf(s[k])
  BY UnitFacts
<1> HIDE DEF v, t
<1>4. w = UnitOf(t[Len(s)]) /\ w \in SP!Units
  <2>1. v[Len(s)] = UnitOf(s[Len(s)])
    BY <1>1, <1>3
  <2>2. w = [kind |-> s[Len(s)].kind, phase |-> p,
             first |-> s[Len(s)].first, second |-> s[Len(s)].second]
    BY <2>1 DEF UnitOf
  <2> HIDE DEF w
  <2>3. w = UnitOf(t[Len(s)])
    BY <1>2, <2>2 DEF UnitOf
  <2>4. w \in SP!Units
    BY <1>1, <2>2 DEF Frames, SP!Units, Phases
  <2> QED
    BY <2>3, <2>4
<1> HIDE DEF w
<1>5. /\ u \in Seq(SP!Units) /\ Len(u) = Len(s)
      /\ \A k \in DOMAIN s : k # Len(s) => u[k] = v[k]
      /\ u[Len(s)] = w
  BY <1>1, <1>3, <1>4 DEF w
<1> HIDE DEF u
<1>6. /\ UnitsOf(t) \in Seq(SP!Units) /\ Len(UnitsOf(t)) = Len(t)
      /\ \A k \in DOMAIN t : UnitsOf(t)[k] = UnitOf(t[k])
  BY <1>2, UnitFacts
<1>7. \A k \in 1..Len(UnitsOf(t)) : UnitsOf(t)[k] = u[k]
  BY <1>1, <1>2, <1>3, <1>4, <1>5, <1>6, SMTT(30)
<1>8. UnitsOf(t) = u
  BY <1>1, <1>2, <1>5, <1>6, <1>7, SeqEqual
<1> QED
  BY <1>8 DEF t, u, v

LEMMA UnitsBlock ==
  ASSUME NEW s \in Seq(Frames), s # <<>>
  PROVE  UnitsOf([s EXCEPT ![Len(s)].block = TRUE]) = UnitsOf(s)
<1> DEFINE t == [s EXCEPT ![Len(s)].block = TRUE]
<1>1. /\ DOMAIN t = DOMAIN s
      /\ \A k \in DOMAIN s : /\ t[k].kind = s[k].kind
                             /\ t[k].phase = s[k].phase
                             /\ t[k].first = s[k].first
                             /\ t[k].second = s[k].second
  BY BlockFrame
<1> HIDE DEF t
<1>2. UnitsOf(t) = UnitsOf(s)
  BY <1>1 DEF UnitsOf, UnitOf
<1> QED
  BY <1>2 DEF t

(* What is generated keeps its type, and is generated alike in both.       *)
LEMMA Generated ==
  /\ \A l \in Nat : /\ Def(l) \in Ops /\ Def(l) = SP!Def(l)
                    /\ Jump(l) \in Ops /\ Jump(l) = SP!Jump(l)
  /\ \A c, n \in Nat : /\ Locals(c, n) \in Seq(Ops)
                       /\ Locals(c, n) = SP!Locals(c, n)
  /\ \A c \in Nat : Locals(c, 0) = <<>>
<1>1. \A l \in Nat : /\ Def(l) \in Ops /\ Def(l) = SP!Def(l)
                     /\ Jump(l) \in Ops /\ Jump(l) = SP!Jump(l)
  BY DEF Def, Jump, Ops, SP!Def, SP!Jump
<1>2. ASSUME NEW c \in Nat, NEW n \in Nat
      PROVE  /\ Locals(c, n) \in Seq(Ops)
             /\ Locals(c, n) = SP!Locals(c, n)
  <2>1. \A i \in 1..n : c + i - 1 \in Nat
    OBVIOUS
  <2>2. \A i \in 1..n : Def(c + i - 1) \in Ops /\ Def(c + i - 1) = SP!Def(c + i - 1)
    BY <1>1, <2>1
  <2>3. Locals(c, n) = SP!Locals(c, n)
    BY <2>2 DEF Locals, SP!Locals
  <2>4. Locals(c, n) \in [1..n -> Ops]
    BY <2>2 DEF Locals
  <2>5. \A f \in [1..n -> Ops] : f \in Seq(Ops)
    OBVIOUS
  <2> QED
    BY <2>3, <2>4, <2>5
<1>3. ASSUME NEW c \in Nat
      PROVE  Locals(c, 0) = <<>>
  BY DEF Locals
<1> QED
  BY <1>1, <1>2, <1>3

LEMMA Appended ==
  ASSUME NEW s \in Seq(Ops)
  PROVE  /\ \A x \in Ops : Append(s, x) \in Seq(Ops)
         /\ \A t \in Seq(Ops) : s \o t \in Seq(Ops)
         /\ \A x, y \in Ops : s \o <<x, y>> \in Seq(Ops)
         /\ \A t \in Seq(Ops), x \in Ops : s \o t \o <<x>> \in Seq(Ops)
         /\ s \o <<>> = s
<1>1. \A t \in Seq(Ops) : s \o t \in Seq(Ops)
  BY ConcatProperties
<1>2. \A x, y \in Ops : <<x>> \in Seq(Ops) /\ <<x, y>> \in Seq(Ops)
  OBVIOUS
<1>3. \A r \in Seq(Ops), t \in Seq(Ops) : r \o t \in Seq(Ops)
  BY ConcatProperties
<1>4. s \o <<>> = s
  BY ConcatEmptySeq
<1> QED
  BY <1>1, <1>2, <1>3, <1>4

LEMMA Matched ==
  ASSUME TypeOK, NEW tok \in Tokens, Match(tok)
  PROVE  entry' \in Tokens /\ found' \in BOOLEAN /\ input' \in Seq(Tokens)
<1>1. input' \in Seq(Tokens)
  BY DEF TypeOK, Match, Advance
<1>2. StaleToken(tok) \in Tokens /\ "simple" \in Tokens
  BY DEF StaleToken, Tokens
<1>3. entry' \in Tokens /\ found' \in BOOLEAN
  BY <1>2 DEF Match, Advance
<1> QED
  BY <1>1, <1>3

-----------------------------------------------------------------------------
(* Steps of the promise, and steps that it does not see.                   *)

LEMMA Unseen ==
  ASSUME code' = code, counter' = counter, OpenUnits' = OpenUnits,
         Aborted => Aborted'
  PROVE  Kept
<1>1. CASE Aborted'
  BY <1>1 DEF Kept
<1>2. CASE ~Aborted'
  <2>1. ~Aborted
    BY <1>2
  <2>2. (reported \/ nested \/ status = "aborted")' =
          (reported \/ nested \/ status = "aborted")
    BY <1>2, <2>1 DEF Aborted
  <2> QED
    BY <2>2 DEF Kept, SP!svars
<1> QED
  BY <1>1, <1>2

LEMMA UnitsOfStack == OpenUnits = UnitsOf(stack)
BY DEF OpenUnits, UnitsOf, UnitOf

LEMMA UnitsOfStackNext == OpenUnits' = UnitsOf(stack')
BY DEF OpenUnits, UnitsOf, UnitOf

(* Steps that leave the frames and the generated code alone: the parser    *)
(* moves within the same frame, or the compilation ends.                   *)
Quiet ==
  /\ status = "running"
  /\ UNCHANGED <<genVars, stack>>
  /\ entry' \in Tokens /\ found' \in BOOLEAN /\ input' \in Seq(Tokens)
  /\ \/ pc' = pc
     \/ /\ pc' \in Places \ {"whileCond", "body"} /\ pc # "whileCond"
        /\ pc' = "start" => stack = <<>>
        /\ pc' \in Inside => stack # <<>>
        /\ pc' = "else?" => Frame.phase = "then"
  /\ reported' \in BOOLEAN /\ (reported => reported')
  /\ reported' = reported \/ status' = "failed"
  /\ \/ status' \in {"running", "failed", "aborted"}
     \/ status' = "ok" /\ pc' = "start"

LEMMA QuietKeeps ==
  ASSUME IInv, Quiet
  PROVE  IInv' /\ Kept
<1>1. stack' = stack /\ code' = code /\ counter' = counter /\ nested' = nested
      /\ whileLabels' = whileLabels /\ ifLabels' = ifLabels
  BY DEF Quiet, genVars
<1>2. TypeOK'
  BY <1>1 DEF IInv, TypeOK, Quiet, Places, Inside
<1>3. PhasesInv'
  <2>1. (pc' = "whileCond") <=> (pc = "whileCond")
    BY DEF Quiet
  <2>2. pc' = "else?" => Frame.phase = "then"
    BY DEF Quiet, IInv, PhasesInv
  <2>3. status' = "ok" => pc' = "start"
    BY DEF Quiet
  <2> QED
    BY <1>1, <2>1, <2>2, <2>3 DEF IInv, PhasesInv, Frame
<1>4. LabelsHeld'
  BY <1>1 DEF IInv, LabelsHeld
<1>5. Kept
  <2>1. OpenUnits' = OpenUnits
    BY <1>1 DEF OpenUnits
  <2>2. Aborted => Aborted'
    BY <1>1 DEF Aborted, Quiet
  <2> QED
    BY <1>1, <2>1, <2>2, Unseen
<1> QED
  BY <1>2, <1>3, <1>4, <1>5 DEF IInv

LEMMA EndsQuietly ==
  ASSUME IInv, status = "running", Fail \/ Unreachable
  PROVE  Quiet
BY DEF IInv, TypeOK, Fail, Unreachable, Quiet, genVars, parserVars

LEMMA StutterKeeps ==
  ASSUME IInv, UNCHANGED vars
  PROVE  IInv' /\ Kept
<1>1. /\ UNCHANGED <<entry, found, stack, pc, status, reported>>
      /\ UNCHANGED <<counter, whileLabels, ifLabels, code, input, nested>>
  BY DEF vars, parserVars, genVars, controlVars
<1>2. TypeOK'
  BY <1>1 DEF IInv, TypeOK
<1>3. PhasesInv'
  BY <1>1 DEF IInv, PhasesInv, Frame
<1>4. LabelsHeld'
  BY <1>1 DEF IInv, LabelsHeld
<1>5. Kept
  <2>1. OpenUnits' = OpenUnits /\ (Aborted => Aborted')
    BY <1>1 DEF OpenUnits, Aborted
  <2> QED
    BY <1>1, <2>1, Unseen
<1> QED
  BY <1>2, <1>3, <1>4, <1>5 DEF IInv

-----------------------------------------------------------------------------
(* The actions that only look, move or fail.                               *)

LEMMA MovesQuietly ==
  ASSUME IInv,
         \/ StartCommand \/ StartDeclaration \/ StartEnd \/ IfCommand
         \/ UnreachableCommand \/ BodyCommand \/ BlockCommand \/ ElseBlock
  PROVE  Quiet
<1>1. CASE StartCommand
  <2>1. Quiet
    BY <1>1 DEF StartCommand, Running, Goto, Quiet, IInv, TypeOK, Places,
                Inside, genVars, parserVars
  <2> QED
    BY <2>1
<1>2. CASE StartDeclaration
  <2>1. CASE Match("decl") /\ UNCHANGED <<genVars, controlVars>>
    <3>1. entry' \in Tokens /\ found' \in BOOLEAN /\ input' \in Seq(Tokens)
      BY <2>1, Matched DEF IInv, Tokens
    <3>2. Quiet
      BY <1>2, <2>1, <3>1 DEF StartDeclaration, Running, Quiet, IInv, TypeOK,
                              genVars, controlVars
    <3> QED
      BY <3>2
  <2>2. CASE Fail \/ Unreachable
    BY <1>2, <2>2, EndsQuietly DEF StartDeclaration, Running
  <2> QED
    BY <1>2, <2>1, <2>2 DEF StartDeclaration
<1>3. CASE StartEnd
  <2>1. CASE found
    <3>1. Quiet
      BY <1>3, <2>1 DEF StartEnd, Running, Quiet, IInv, TypeOK,
                        genVars, parserVars
    <3> QED
      BY <3>1
  <2>2. CASE ~found
    BY <1>3, <2>2, EndsQuietly DEF StartEnd, Running
  <2> QED
    BY <2>1, <2>2
<1>4. CASE IfCommand
  <2>1. CASE Match("if") /\ Goto("ifCond") /\ UNCHANGED <<genVars, stack>>
    <3>1. entry' \in Tokens /\ found' \in BOOLEAN /\ input' \in Seq(Tokens)
      BY <2>1, Matched DEF IInv, Tokens
    <3>2. Quiet
      BY <1>4, <2>1, <3>1 DEF IfCommand, Running, Goto, Quiet, IInv, TypeOK,
                              Places, Inside
    <3> QED
      BY <3>2
  <2>2. CASE Fail
    BY <1>4, <2>2, EndsQuietly DEF IfCommand, Running
  <2> QED
    BY <1>4, <2>1, <2>2 DEF IfCommand
<1>5. CASE UnreachableCommand
  BY <1>5, EndsQuietly DEF UnreachableCommand, Running
<1>6. CASE BodyCommand \/ BlockCommand
  <2>1. Quiet
    BY <1>6 DEF BodyCommand, BlockCommand, Running, Goto, Quiet, IInv, TypeOK,
                Places, Inside, genVars, parserVars
  <2> QED
    BY <2>1
<1>7. CASE ElseBlock
  <2>1. CASE Match("lcurly") /\ Goto("block") /\ UNCHANGED <<genVars, stack>>
    <3>1. entry' \in Tokens /\ found' \in BOOLEAN /\ input' \in Seq(Tokens)
      BY <2>1, Matched DEF IInv, Tokens
    <3>2. Quiet
      BY <1>7, <2>1, <3>1 DEF ElseBlock, Running, Goto, Quiet, IInv, TypeOK,
                              Places, Inside
    <3> QED
      BY <3>2
  <2>2. CASE Fail
    BY <1>7, <2>2, EndsQuietly DEF ElseBlock, Running
  <2> QED
    BY <1>7, <2>1, <2>2 DEF ElseBlock
<1> QED
  BY <1>1, <1>2, <1>3, <1>4, <1>5, <1>6, <1>7

LEMMA MovesKeep ==
  ASSUME IInv,
         \/ StartCommand \/ StartDeclaration \/ StartEnd \/ IfCommand
         \/ UnreachableCommand \/ BodyCommand \/ BlockCommand \/ ElseBlock
  PROVE  IInv' /\ Kept
BY MovesQuietly, QuietKeeps

LEMMA SimpleKeeps ==
  ASSUME IInv, SimpleCommand
  PROVE  IInv' /\ Kept
<1>1. CASE Fail
  BY <1>1, EndsQuietly, QuietKeeps DEF SimpleCommand, Running
<1>2. CASE ~Fail
  <2>1. /\ status = "running" /\ pc = "command" /\ entry \in {"semicolon", "simple"}
        /\ Match(entry) /\ Goto("return")
        /\ UNCHANGED <<whileLabels, ifLabels, nested, stack>>
    BY <1>2 DEF SimpleCommand, Running
  <2>2. PICK n \in IF entry = "simple" THEN LocalCounts ELSE {0} :
               code' = code \o Locals(counter, n) /\ counter' = counter + n
    BY <1>2 DEF SimpleCommand
  <2>3. /\ entry' \in Tokens /\ found' \in BOOLEAN /\ input' \in Seq(Tokens)
    BY <2>1, Matched DEF IInv, TypeOK
  <2>4. n \in Nat /\ (n \in LocalCounts \/ n = 0)
    BY LocalCountsAssumption
  <2>5. counter \in Nat /\ code \in Seq(Ops)
    BY DEF IInv, TypeOK
  <2>6. counter' \in Nat /\ code' \in Seq(Ops)
    BY <2>2, <2>4, <2>5, Generated, Appended
  <2>7. TypeOK'
    BY <2>1, <2>3, <2>6 DEF IInv, TypeOK, Goto
  <2>8. PhasesInv'
    BY <2>1 DEF IInv, PhasesInv, Frame, Goto
  <2>9. LabelsHeld'
    BY <2>1 DEF IInv, LabelsHeld
  <2>10. OpenUnits' = OpenUnits /\ (Aborted' <=> Aborted)
    BY <2>1 DEF OpenUnits, Aborted, Goto
  <2>11. Kept
    <3>1. CASE Aborted
      BY <2>10, <3>1 DEF Kept
    <3>2. CASE ~Aborted /\ n \in LocalCounts
      <4>1. UNCHANGED (reported \/ nested \/ status = "aborted")
        BY <2>1 DEF Goto
      <4>2. SP!Command(n)
        BY <2>2, <2>4, <2>5, <2>10, <4>1, Generated DEF SP!Command
      <4> QED
        BY <3>2, <4>2 DEF Kept, SP!Next, Aborted
    <3>3. CASE n = 0
      <4>1. code' = code /\ counter' = counter
        <5>1. Locals(counter, n) = <<>> /\ counter' = counter
          BY <2>2, <2>5, <3>3, Generated
        <5>2. code \o <<>> = code
          BY <2>5, Appended
        <5> QED
          BY <2>2, <5>1, <5>2
      <4> QED
        BY <2>10, <4>1, Unseen
    <3> QED
      BY <2>4, <3>1, <3>2, <3>3
  <2> QED
    BY <2>7, <2>8, <2>9, <2>11 DEF IInv
<1> QED
  BY <1>1, <1>2

-----------------------------------------------------------------------------
(* The actions that start, change and finish frames.                       *)

LEMMA Pushed ==
  ASSUME IInv, pc # "whileCond",
         NEW kind \in {"while", "if"}, NEW phase \in Phases,
         NEW first \in Nat, NEW second \in Nat, Push(kind, phase, first, second)
  PROVE  /\ stack' \in Seq(Frames) /\ stack' # <<>> /\ Len(stack) \in Nat
         /\ DOMAIN stack = 1..Len(stack) /\ Len(stack') = Len(stack) + 1
         /\ DOMAIN stack' = 1..Len(stack) + 1
         /\ \A k \in 1..Len(stack) : stack'[k] = stack[k] /\ stack[k].phase # "cond"
         /\ stack'[Len(stack) + 1].kind = kind
         /\ stack'[Len(stack) + 1].phase = phase
         /\ stack'[Len(stack) + 1].first = first
         /\ stack'[Len(stack) + 1].second = second
         /\ nested' \in BOOLEAN /\ (nested => nested')
         /\ ~nested' => \A k \in 1..Len(stack) : stack[k].kind # kind
         /\ OpenUnits' = Append(OpenUnits, [kind |-> kind, phase |-> phase,
                                            first |-> first, second |-> second])
<1> DEFINE f == [kind |-> kind, phase |-> phase, block |-> FALSE,
                 first |-> first, second |-> second]
<1>1. /\ f \in Frames /\ f.kind = kind /\ f.phase = phase
      /\ f.first = first /\ f.second = second
      /\ UnitOf(f) = [kind |-> kind, phase |-> phase,
                      first |-> first, second |-> second]
  BY DEF Frames, Phases, UnitOf
<1>2. stack' = Append(stack, f) /\ nested' = (nested \/ NestsIn(kind))
  BY DEF Push
<1> HIDE DEF f
<1>3. stack \in Seq(Frames) /\ nested \in BOOLEAN
  BY DEF IInv, TypeOK
<1>4. /\ stack' \in Seq(Frames) /\ stack' # <<>>
      /\ Len(stack) \in Nat /\ DOMAIN stack = 1..Len(stack)
      /\ Len(stack') = Len(stack) + 1 /\ DOMAIN stack' = 1..Len(stack) + 1
      /\ \A k \in 1..Len(stack) : stack'[k] = stack[k]
      /\ stack'[Len(stack) + 1] = f
  BY <1>1, <1>2, <1>3, PushedFrame
<1>5. \A k \in 1..Len(stack) : stack[k].phase # "cond"
  BY <1>4 DEF IInv, PhasesInv
<1>6. /\ nested' \in BOOLEAN /\ (nested => nested')
      /\ ~nested' => \A k \in 1..Len(stack) : stack[k].kind # kind
  BY <1>2, <1>3, <1>4 DEF NestsIn
<1>7. OpenUnits' = Append(OpenUnits, UnitOf(f))
  BY <1>1, <1>2, <1>3, UnitsPushed, UnitsOfStack, UnitsOfStackNext
<1> QED
  BY <1>1, <1>4, <1>5, <1>6, <1>7

LEMMA WhileKeeps ==
  ASSUME IInv, WhileCommand
  PROVE  IInv' /\ Kept
<1>1. CASE Fail
  BY <1>1, EndsQuietly, QuietKeeps DEF WhileCommand, Running
<1>2. CASE ~Fail
  <2>1. /\ status = "running" /\ pc = "command" /\ pc' = "whileCond"
        /\ status' = status /\ reported' = reported
        /\ Match("while") /\ ifLabels' = ifLabels
        /\ whileLabels' = [start |-> counter, end |-> counter + 1]
        /\ code' = Append(code, Def(counter)) /\ counter' = counter + 2
        /\ Push("while", "cond", counter, counter + 1)
    BY <1>2 DEF WhileCommand, StartLoop, Running, Goto
  <2>2. entry' \in Tokens /\ found' \in BOOLEAN /\ input' \in Seq(Tokens)
    BY <2>1, Matched DEF IInv, Tokens
  <2>3. /\ counter \in Nat /\ counter + 1 \in Nat /\ code \in Seq(Ops)
        /\ status \in {"running", "ok", "failed", "aborted"} /\ reported \in BOOLEAN
        /\ ifLabels \in [end : Nat, false : Nat]
    BY DEF IInv, TypeOK
  <2>4. code' \in Seq(Ops)
    BY <2>1, <2>3, Generated, Appended
  <2> DEFINE m == Len(stack)
  <2>5. /\ stack' \in Seq(Frames) /\ stack' # <<>> /\ m \in Nat
        /\ DOMAIN stack = 1..m /\ Len(stack') = m + 1 /\ DOMAIN stack' = 1..m + 1
        /\ \A k \in 1..m : stack'[k] = stack[k] /\ stack[k].phase # "cond"
        /\ stack'[m + 1].kind = "while" /\ stack'[m + 1].phase = "cond"
        /\ stack'[m + 1].first = counter /\ stack'[m + 1].second = counter + 1
        /\ nested' \in BOOLEAN /\ (nested => nested')
        /\ ~nested' => \A k \in 1..m : stack[k].kind # "while"
        /\ OpenUnits' = Append(OpenUnits, [kind |-> "while", phase |-> "cond",
                                           first |-> counter, second |-> counter + 1])
    BY <2>1, <2>3, Pushed, SMTT(30) DEF Phases
  <2> HIDE DEF m
  <2>6. TypeOK'
    BY <2>1, <2>2, <2>3, <2>4, <2>5 DEF TypeOK
  <2>7. PhasesInv'
    <3>1. ASSUME NEW k \in DOMAIN stack'
          PROVE  /\ (stack'[k].kind = "while") <=> (stack'[k].phase \in {"cond", "body"})
                 /\ (stack'[k].phase = "cond") <=> (k = m + 1)
      <4>1. CASE k = m + 1
        BY <2>5, <4>1
      <4>2. CASE k \in 1..m
        BY <2>5, <4>2 DEF IInv, PhasesInv
      <4> QED
        BY <2>5, <4>1, <4>2
    <3> QED
      BY <2>1, <2>5, <3>1 DEF PhasesInv
  <2>8. LabelsHeld'
    <3>1. ASSUME ~nested', NEW k \in DOMAIN stack'
          PROVE  Holds(stack'[k], whileLabels', ifLabels')
      <4>1. CASE k = m + 1
        BY <2>1, <2>5, <4>1 DEF Holds
      <4>2. CASE k \in 1..m
        BY <2>1, <2>5, <3>1, <4>2 DEF IInv, LabelsHeld, Holds
      <4> QED
        BY <2>5, <4>1, <4>2
    <3> QED
      BY <3>1 DEF LabelsHeld
  <2>9. Kept
    <3>1. CASE Aborted'
      BY <3>1 DEF Kept
    <3>2. CASE ~Aborted'
      <4>1. ~Aborted /\ UNCHANGED (reported \/ nested \/ status = "aborted")
        BY <2>1, <2>5, <3>2 DEF Aborted
      <4>2. SP!StartLoop
        BY <2>1, <2>3, <2>5, <4>1, Generated DEF SP!StartLoop
      <4> QED
        BY <4>1, <4>2 DEF Kept, SP!Next, Aborted
    <3> QED
      BY <3>1, <3>2
  <2> QED
    BY <2>6, <2>7, <2>8, <2>9 DEF IInv
<1> QED
  BY <1>1, <1>2

LEMMA IfKeeps ==
  ASSUME IInv, IfCondition
  PROVE  IInv' /\ Kept
<1>1. CASE Fail
  BY <1>1, EndsQuietly, QuietKeeps DEF IfCondition, Running
<1>2. CASE ~Fail
  <2>1. /\ status = "running" /\ pc = "ifCond" /\ pc' = "body"
        /\ status' = status /\ reported' = reported /\ Match("paren")
    BY <1>2 DEF IfCondition, Running, Goto
  <2>2. PICK n \in LocalCounts : StartIf(n)
    BY <1>2 DEF IfCondition
  <2> DEFINE e == counter + n
             m == Len(stack)
  <2>3. /\ whileLabels' = whileLabels
        /\ ifLabels' = [end |-> e, false |-> e + 1]
        /\ code' = code \o Locals(counter, n) \o <<Jump(e + 1)>>
        /\ counter' = e + 2
        /\ Push("if", "then", e, e + 1)
    BY <2>2 DEF StartIf
  <2>4. entry' \in Tokens /\ found' \in BOOLEAN /\ input' \in Seq(Tokens)
    BY <2>1, Matched DEF IInv, Tokens
  <2>5. /\ n \in Nat /\ counter \in Nat /\ e \in Nat /\ e + 1 \in Nat
        /\ counter' \in Nat /\ code \in Seq(Ops)
        /\ status \in {"running", "ok", "failed", "aborted"} /\ reported \in BOOLEAN
        /\ whileLabels \in [start : Nat, end : Nat]
    BY <2>3, LocalCountsAssumption DEF IInv, TypeOK
  <2> HIDE DEF e
  <2>6. code' \in Seq(Ops)
    BY <2>3, <2>5, Generated, Appended
  <2>7. /\ stack' \in Seq(Frames) /\ stack' # <<>> /\ m \in Nat
        /\ DOMAIN stack = 1..m /\ Len(stack') = m + 1 /\ DOMAIN stack' = 1..m + 1
        /\ \A k \in 1..m : stack'[k] = stack[k] /\ stack[k].phase # "cond"
        /\ stack'[m + 1].kind = "if" /\ stack'[m + 1].phase = "then"
        /\ stack'[m + 1].first = e /\ stack'[m + 1].second = e + 1
        /\ nested' \in BOOLEAN /\ (nested => nested')
        /\ ~nested' => \A k \in 1..m : stack[k].kind # "if"
        /\ OpenUnits' = Append(OpenUnits, [kind |-> "if", phase |-> "then",
                                           first |-> e, second |-> e + 1])
    <3>1. pc # "whileCond" /\ "if" \in {"while", "if"} /\ "then" \in Phases
      BY <2>1 DEF Phases
    <3>2. Push("if", "then", e, e + 1) /\ e \in Nat /\ e + 1 \in Nat
      BY <2>3, <2>5
    <3> HIDE DEF m
    <3> QED
      BY <3>1, <3>2, Pushed DEF m
  <2> HIDE DEF m
  <2>8. TypeOK'
    BY <2>1, <2>3, <2>4, <2>5, <2>6, <2>7 DEF TypeOK
  <2>9. PhasesInv'
    <3>1. ASSUME NEW k \in DOMAIN stack'
          PROVE  /\ (stack'[k].kind = "while") <=> (stack'[k].phase \in {"cond", "body"})
                 /\ stack'[k].phase # "cond"
      <4>1. CASE k = m + 1
        BY <2>7, <4>1
      <4>2. CASE k \in 1..m
        BY <2>7, <4>2 DEF IInv, PhasesInv
      <4> QED
        BY <2>7, <4>1, <4>2
    <3> QED
      BY <2>1, <3>1 DEF PhasesInv
  <2>10. LabelsHeld'
    <3>1. ASSUME ~nested', NEW k \in DOMAIN stack'
          PROVE  Holds(stack'[k], whileLabels', ifLabels')
      <4>1. CASE k = m + 1
        BY <2>3, <2>7, <4>1 DEF Holds
      <4>2. CASE k \in 1..m
        BY <2>3, <2>7, <3>1, <4>2 DEF IInv, LabelsHeld, Holds
      <4> QED
        BY <2>7, <4>1, <4>2
    <3> QED
      BY <3>1 DEF LabelsHeld
  <2>11. Kept
    <3>1. CASE Aborted'
      BY <3>1 DEF Kept
    <3>2. CASE ~Aborted'
      <4>1. ~Aborted /\ UNCHANGED (reported \/ nested \/ status = "aborted")
        BY <2>1, <2>7, <3>2 DEF Aborted
      <4>2. SP!StartIf(n)
        BY <2>3, <2>5, <2>7, <4>1, Generated DEF SP!StartIf, e
      <4> QED
        BY <4>1, <4>2 DEF Kept, SP!Next, Aborted
    <3> QED
      BY <3>1, <3>2
  <2> QED
    BY <2>8, <2>9, <2>10, <2>11 DEF IInv
<1> QED
  BY <1>1, <1>2

(* The top of the stack, as the promise sees it.                           *)
LEMMA TopSeen ==
  ASSUME IInv, stack # <<>>
  PROVE  /\ OpenUnits # <<>> /\ SP!Top = UnitOf(Frame)
         /\ SP!Top.kind = Frame.kind /\ SP!Top.phase = Frame.phase
         /\ SP!Top.first = Frame.first /\ SP!Top.second = Frame.second
         /\ Frame \in Frames
         /\ ~nested => Holds(Frame, whileLabels, ifLabels)
<1>1. stack \in Seq(Frames)
  BY DEF IInv, TypeOK
<1>2. /\ Len(stack) \in Nat \ {0} /\ DOMAIN stack = 1..Len(stack)
      /\ Len(stack) \in DOMAIN stack /\ stack[Len(stack)] \in Frames
  BY <1>1, TopFrame
<1>3. /\ Len(UnitsOf(stack)) = Len(stack)
      /\ UnitsOf(stack)[Len(stack)] = UnitOf(stack[Len(stack)])
      /\ UnitsOf(stack) \in Seq(SP!Units)
  BY <1>1, <1>2, UnitFacts
<1>4. OpenUnits # <<>> /\ SP!Top = UnitOf(Frame)
  BY <1>2, <1>3, UnitsOfStack DEF SP!Top, Frame
<1>5. ~nested => Holds(Frame, whileLabels, ifLabels)
  BY <1>2 DEF IInv, LabelsHeld, Frame
<1> QED
  BY <1>2, <1>4, <1>5 DEF UnitOf, Frame

(* A frame that enters another phase.                                      *)
LEMMA Phased ==
  ASSUME IInv, stack # <<>>, NEW p \in Phases \ {"cond"},
         stack' = [stack EXCEPT ![Len(stack)].phase = p],
         (Frame.kind = "while") <=> (p = "body"),
         pc' \in Places \ {"whileCond", "else?"}, status' # "ok",
         whileLabels' = whileLabels, ifLabels' = ifLabels, nested' = nested
  PROVE  /\ stack' \in Seq(Frames) /\ stack' # <<>>
         /\ PhasesInv' /\ LabelsHeld'
         /\ OpenUnits' = SP!ToPhase(p)
<1>1. stack \in Seq(Frames)
  BY DEF IInv, TypeOK
<1>2. /\ Len(stack) \in Nat \ {0} /\ DOMAIN stack = 1..Len(stack)
      /\ Len(stack) \in DOMAIN stack
  BY <1>1, TopFrame
<1>3. /\ stack' \in Seq(Frames) /\ stack' # <<>> /\ Len(stack') = Len(stack)
      /\ DOMAIN stack' = DOMAIN stack
      /\ \A k \in DOMAIN stack : k # Len(stack) => stack'[k] = stack[k]
      /\ stack'[Len(stack)].kind = Frame.kind /\ stack'[Len(stack)].phase = p
      /\ stack'[Len(stack)].first = Frame.first
      /\ stack'[Len(stack)].second = Frame.second
  BY <1>1, PhasedFrame DEF Frame
<1>4. ASSUME NEW k \in DOMAIN stack'
      PROVE  /\ (stack'[k].kind = "while") <=> (stack'[k].phase \in {"cond", "body"})
             /\ stack'[k].phase # "cond"
  <2>1. CASE k = Len(stack)
    BY <1>3, <2>1
  <2>2. CASE k # Len(stack)
    BY <1>3, <2>2 DEF IInv, PhasesInv
  <2> QED
    BY <2>1, <2>2
<1>5. PhasesInv'
  BY <1>4 DEF PhasesInv
<1>6. LabelsHeld'
  <2>1. ASSUME ~nested, NEW k \in DOMAIN stack'
        PROVE  Holds(stack'[k], whileLabels, ifLabels)
    <3>1. Holds(stack[k], whileLabels, ifLabels)
      BY <1>3, <2>1 DEF IInv, LabelsHeld
    <3>2. CASE k = Len(stack)
      BY <1>3, <3>1, <3>2 DEF Holds, Frame
    <3>3. CASE k # Len(stack)
      BY <1>3, <3>1, <3>3
    <3> QED
      BY <3>2, <3>3
  <2> QED
    BY <2>1 DEF LabelsHeld
<1>7. OpenUnits' = SP!ToPhase(p)
  BY <1>1, UnitsPhased, UnitsOfStack, UnitsOfStackNext DEF SP!ToPhase
<1> QED
  BY <1>3, <1>5, <1>6, <1>7

(* A frame that is left.                                                   *)
LEMMA Popped ==
  ASSUME IInv, stack # <<>>, stack' = Pop, pc # "whileCond",
         pc' = "return", status' # "ok",
         whileLabels' = whileLabels, ifLabels' = ifLabels, nested' = nested
  PROVE  /\ stack' \in Seq(Frames) /\ PhasesInv' /\ LabelsHeld'
         /\ OpenUnits' = SP!Pop
<1>1. stack \in Seq(Frames)
  BY DEF IInv, TypeOK
<1>2. /\ stack' \in Seq(Frames)
      /\ Len(stack) \in Nat \ {0} /\ DOMAIN stack = 1..Len(stack)
      /\ DOMAIN stack' = 1..Len(stack) - 1
      /\ \A k \in 1..Len(stack) - 1 : stack'[k] = stack[k]
  BY <1>1, PoppedFrame DEF Pop
<1>3. \A k \in DOMAIN stack' : k \in DOMAIN stack /\ stack'[k] = stack[k]
  BY <1>2
<1>4. PhasesInv'
  BY <1>3 DEF IInv, PhasesInv
<1>5. LabelsHeld'
  BY <1>3 DEF IInv, LabelsHeld
<1>6. OpenUnits' = SP!Pop
  BY <1>1, UnitsPopped, UnitsOfStack, UnitsOfStackNext DEF Pop, SP!Pop
<1> QED
  BY <1>2, <1>4, <1>5, <1>6

LEMMA ConditionKeeps ==
  ASSUME IInv, WhileCondition
  PROVE  IInv' /\ Kept
<1>1. CASE Fail
  BY <1>1, EndsQuietly, QuietKeeps DEF WhileCondition, Running
<1>2. CASE ~Fail
  <2>1. /\ status = "running" /\ pc = "whileCond" /\ pc' = "body"
        /\ status' = status /\ reported' = reported /\ Match("paren")
    BY <1>2 DEF WhileCondition, Running, Goto
  <2>2. PICK n \in LocalCounts : EvalLoopExpr(n)
    BY <1>2 DEF WhileCondition
  <2>3. /\ code' = code \o Locals(counter, n) \o <<Jump(whileLabels.end)>>
        /\ counter' = counter + n
        /\ stack' = [stack EXCEPT ![Len(stack)].phase = "body"]
        /\ whileLabels' = whileLabels /\ ifLabels' = ifLabels /\ nested' = nested
    BY <2>2 DEF EvalLoopExpr
  <2>4. entry' \in Tokens /\ found' \in BOOLEAN /\ input' \in Seq(Tokens)
    BY <2>1, Matched DEF IInv, Tokens
  <2>5. /\ n \in Nat /\ counter \in Nat /\ counter' \in Nat /\ code \in Seq(Ops)
        /\ whileLabels.end \in Nat /\ stack # <<>> /\ stack \in Seq(Frames)
    BY <2>1, <2>3, LocalCountsAssumption DEF IInv, TypeOK
  <2>6. code' \in Seq(Ops)
    BY <2>3, <2>5, Generated, Appended
  <2>7. Frame.phase = "cond" /\ Frame.kind = "while"
    BY <2>1, <2>5, TopFrame DEF IInv, PhasesInv, Frame
  <2>8. /\ stack' \in Seq(Frames) /\ stack' # <<>>
        /\ PhasesInv' /\ LabelsHeld' /\ OpenUnits' = SP!ToPhase("body")
    BY <2>1, <2>3, <2>5, <2>7, Phased DEF Phases, Places
  <2>9. TypeOK'
    BY <2>1, <2>3, <2>4, <2>5, <2>6, <2>8 DEF IInv, TypeOK
  <2>10. Kept
    <3>1. CASE Aborted'
      BY <3>1 DEF Kept
    <3>2. CASE ~Aborted'
      <4>1. ~Aborted /\ UNCHANGED (reported \/ nested \/ status = "aborted")
        BY <2>1, <2>3, <3>2 DEF Aborted
      <4>2. SP!Top.second = whileLabels.end /\ SP!TopIs("while", "cond")
        BY <2>5, <2>7, <4>1, TopSeen DEF SP!TopIs, Holds, Aborted
      <4>3. SP!LoopCondition(n)
        BY <2>3, <2>5, <2>8, <4>1, <4>2, Generated DEF SP!LoopCondition
      <4> QED
        BY <4>1, <4>3 DEF Kept, SP!Next, Aborted
    <3> QED
      BY <3>1, <3>2
  <2> QED
    BY <2>8, <2>9, <2>10 DEF IInv
<1> QED
  BY <1>1, <1>2

LEMMA BlockKeeps ==
  ASSUME IInv, BodyBlock
  PROVE  IInv' /\ Kept
<1>1. CASE Fail
  BY <1>1, EndsQuietly, QuietKeeps DEF BodyBlock, Running
<1>2. CASE ~Fail
  <2>1. /\ status = "running" /\ pc = "body" /\ pc' = "block"
        /\ status' = status /\ reported' = reported /\ Match("lcurly")
        /\ stack' = [stack EXCEPT ![Len(stack)].block = TRUE]
        /\ whileLabels' = whileLabels /\ ifLabels' = ifLabels
        /\ nested' = nested /\ counter' = counter /\ code' = code
    BY <1>2 DEF BodyBlock, Running, Goto, genVars
  <2>2. entry' \in Tokens /\ found' \in BOOLEAN /\ input' \in Seq(Tokens)
    BY <2>1, Matched DEF IInv, Tokens
  <2>3. stack # <<>> /\ stack \in Seq(Frames)
    BY <2>1 DEF IInv, TypeOK
  <2>4. /\ stack' \in Seq(Frames) /\ stack' # <<>> /\ DOMAIN stack' = DOMAIN stack
        /\ Len(stack') = Len(stack)
        /\ \A k \in DOMAIN stack : /\ stack'[k].kind = stack[k].kind
                                   /\ stack'[k].phase = stack[k].phase
                                   /\ stack'[k].first = stack[k].first
                                   /\ stack'[k].second = stack[k].second
    BY <2>1, <2>3, BlockFrame
  <2>5. TypeOK'
    BY <2>1, <2>2, <2>4 DEF IInv, TypeOK
  <2>6. PhasesInv'
    BY <2>1, <2>4 DEF IInv, PhasesInv
  <2>7. LabelsHeld'
    BY <2>1, <2>4 DEF IInv, LabelsHeld, Holds
  <2>8. OpenUnits' = OpenUnits
    BY <2>1, <2>3, UnitsBlock, UnitsOfStack, UnitsOfStackNext
  <2>9. Kept
    BY <2>1, <2>8, Unseen DEF Aborted
  <2> QED
    BY <2>5, <2>6, <2>7, <2>9 DEF IInv
<1> QED
  BY <1>1, <1>2

LEMMA ErrorKeeps ==
  ASSUME IInv, BodyError
  PROVE  IInv' /\ Kept
<1>1. CASE Frame.kind = "while"
  BY <1>1, EndsQuietly, QuietKeeps DEF BodyError, Running
<1>2. CASE Frame.kind # "while"
  <2>1. /\ status = "running" /\ pc = "body" /\ pc' = "return"
        /\ status' = status /\ reported' = TRUE /\ stack' = Pop
        /\ whileLabels' = whileLabels /\ ifLabels' = ifLabels
        /\ nested' = nested /\ counter' = counter /\ code' = code
        /\ entry' = entry /\ found' = found /\ input' = input
    BY <1>2 DEF BodyError, Running, genVars, parserVars
  <2>2. stack # <<>>
    BY <2>1 DEF IInv, TypeOK
  <2>3. stack' \in Seq(Frames) /\ PhasesInv' /\ LabelsHeld'
    BY <2>1, <2>2, Popped
  <2>4. TypeOK'
    BY <2>1, <2>3 DEF IInv, TypeOK
  <2>5. Kept
    BY <2>1 DEF Kept, Aborted
  <2> QED
    BY <2>3, <2>4, <2>5 DEF IInv
<1> QED
  BY <1>1, <1>2

(* The end of a body, from wherever it is reached.                         *)
LEMMA AfterKeeps ==
  ASSUME IInv, status = "running", stack # <<>>, pc \in {"block", "return"},
         entry' \in Tokens, found' \in BOOLEAN, input' \in Seq(Tokens),
         AfterBody
  PROVE  IInv' /\ Kept
<1>1. Frame.phase # "cond" /\ ((Frame.kind = "while") <=> (Frame.phase = "body"))
  <2>1. stack \in Seq(Frames)
    BY DEF IInv, TypeOK
  <2> QED
    BY <2>1, TopFrame DEF IInv, PhasesInv, Frame
<1>2. /\ counter \in Nat /\ code \in Seq(Ops)
      /\ whileLabels.start \in Nat /\ whileLabels.end \in Nat
      /\ ifLabels.end \in Nat /\ ifLabels.false \in Nat
  BY DEF IInv, TypeOK
<1>3. CASE Frame.kind = "while" /\ FinishLoop /\ Goto("return")
  <2>1. /\ pc' = "return" /\ status' = status /\ reported' = reported
        /\ code' = code \o <<Jump(whileLabels.start), Def(whileLabels.end)>>
        /\ stack' = Pop /\ counter' = counter /\ nested' = nested
        /\ whileLabels' = whileLabels /\ ifLabels' = ifLabels
    BY <1>3 DEF FinishLoop, Goto
  <2>2. /\ stack' \in Seq(Frames) /\ PhasesInv' /\ LabelsHeld'
        /\ OpenUnits' = SP!Pop
    BY <2>1, Popped
  <2>3. code' \in Seq(Ops)
    BY <1>2, <2>1, Generated, Appended
  <2>4. TypeOK'
    BY <2>1, <2>2, <2>3 DEF IInv, TypeOK
  <2>5. Kept
    <3>1. CASE Aborted'
      BY <3>1 DEF Kept
    <3>2. CASE ~Aborted'
      <4>1. ~Aborted /\ UNCHANGED (reported \/ nested \/ status = "aborted")
        BY <2>1, <3>2 DEF Aborted
      <4>2. /\ SP!TopIs("while", "body")
            /\ SP!Top.first = whileLabels.start /\ SP!Top.second = whileLabels.end
        BY <1>1, <1>3, <4>1, TopSeen DEF SP!TopIs, Holds, Aborted
      <4>3. SP!FinishLoop
        BY <1>2, <2>1, <2>2, <4>1, <4>2, Generated DEF SP!FinishLoop
      <4> QED
        BY <4>1, <4>3 DEF Kept, SP!Next, Aborted
    <3> QED
      BY <3>1, <3>2
  <2> QED
    BY <2>2, <2>4, <2>5 DEF IInv
<1>4. CASE /\ Frame.kind = "if" /\ Frame.phase = "then"
           /\ Goto("else?") /\ UNCHANGED <<genVars, stack>>
  <2>1. Quiet
    BY <1>4 DEF Goto, Quiet, IInv, TypeOK, Places, Inside
  <2> QED
    BY <2>1, QuietKeeps
<1>5. CASE /\ Frame.kind = "if" /\ Frame.phase = "else"
           /\ FinishIf(TRUE) /\ Goto("return")
  <2>1. /\ pc' = "return" /\ status' = status /\ reported' = reported
        /\ code' = Append(code, Def(ifLabels.end))
        /\ stack' = Pop /\ counter' = counter /\ nested' = nested
        /\ whileLabels' = whileLabels /\ ifLabels' = ifLabels
    BY <1>5 DEF FinishIf, Goto
  <2>2. /\ stack' \in Seq(Frames) /\ PhasesInv' /\ LabelsHeld'
        /\ OpenUnits' = SP!Pop
    BY <2>1, Popped
  <2>3. code' \in Seq(Ops)
    BY <1>2, <2>1, Generated, Appended
  <2>4. TypeOK'
    BY <2>1, <2>2, <2>3 DEF IInv, TypeOK
  <2>5. Kept
    <3>1. CASE Aborted'
      BY <3>1 DEF Kept
    <3>2. CASE ~Aborted'
      <4>1. ~Aborted /\ UNCHANGED (reported \/ nested \/ status = "aborted")
        BY <2>1, <3>2 DEF Aborted
      <4>2. SP!TopIs("if", "else") /\ SP!Top.first = ifLabels.end
        BY <1>5, <4>1, TopSeen DEF SP!TopIs, Holds, Aborted
      <4>3. SP!FinishIf
        BY <1>2, <2>1, <2>2, <4>1, <4>2, Generated DEF SP!FinishIf
      <4> QED
        BY <4>1, <4>3 DEF Kept, SP!Next, Aborted
    <3> QED
      BY <3>1, <3>2
  <2> QED
    BY <2>2, <2>4, <2>5 DEF IInv
<1> QED
  BY <1>3, <1>4, <1>5 DEF AfterBody

LEMMA EndsKeep ==
  ASSUME IInv, BlockEnd \/ Return
  PROVE  IInv' /\ Kept
<1>1. CASE BlockEnd
  <2>1. status = "running" /\ pc = "block" /\ stack # <<>>
    BY <1>1 DEF BlockEnd, Running, IInv, TypeOK
  <2>2. CASE Fail
    BY <2>1, <2>2, EndsQuietly, QuietKeeps
  <2>3. CASE Match("rcurly") /\ AfterBody
    <3>1. entry' \in Tokens /\ found' \in BOOLEAN /\ input' \in Seq(Tokens)
      BY <2>3, Matched DEF IInv, Tokens
    <3> QED
      BY <2>1, <2>3, <3>1, AfterKeeps
  <2> QED
    BY <1>1, <2>2, <2>3 DEF BlockEnd
<1>2. CASE Return
  <2>1. /\ status = "running" /\ pc = "return"
        /\ entry' \in Tokens /\ found' \in BOOLEAN /\ input' \in Seq(Tokens)
    BY <1>2 DEF Return, Running, IInv, TypeOK, parserVars
  <2>2. CASE stack = <<>> /\ Goto("start") /\ UNCHANGED <<genVars, stack>>
    <3>1. Quiet
      BY <2>1, <2>2 DEF Goto, Quiet, IInv, TypeOK, Places, Inside
    <3> QED
      BY <3>1, QuietKeeps
  <2>3. CASE /\ stack # <<>> /\ Frame.block
             /\ Goto("block") /\ UNCHANGED <<genVars, stack>>
    <3>1. Quiet
      BY <2>1, <2>3 DEF Goto, Quiet, IInv, TypeOK, Places, Inside
    <3> QED
      BY <3>1, QuietKeeps
  <2>4. CASE stack # <<>> /\ ~Frame.block /\ AfterBody
    BY <2>1, <2>4, AfterKeeps
  <2> QED
    BY <1>2, <2>2, <2>3, <2>4 DEF Return
<1> QED
  BY <1>1, <1>2

LEMMA ElseKeeps ==
  ASSUME IInv, Else
  PROVE  IInv' /\ Kept
<1>1. /\ status = "running" /\ pc = "else?" /\ stack # <<>>
      /\ stack \in Seq(Frames) /\ code \in Seq(Ops) /\ counter \in Nat
      /\ ifLabels.end \in Nat /\ ifLabels.false \in Nat
  BY DEF Else, Running, IInv, TypeOK
<1>2. Frame.phase = "then" /\ Frame.kind = "if" /\ Frame \in Frames
  <2>1. Len(stack) \in DOMAIN stack /\ stack[Len(stack)] \in Frames
    BY <1>1, TopFrame
  <2>2. Frame.phase = "then" /\ Frame.kind # "while"
    BY <1>1, <2>1 DEF IInv, PhasesInv, Frame
  <2> QED
    BY <2>1, <2>2 DEF Frame, Frames
<1>3. /\ code' = code \o <<Jump(ifLabels.end), Def(ifLabels.false)>>
      /\ counter' = counter /\ whileLabels' = whileLabels
      /\ ifLabels' = ifLabels /\ nested' = nested
  BY DEF Else, StartElse
<1>4. code' \in Seq(Ops)
  BY <1>1, <1>3, Generated, Appended
<1>5. CASE status' = "failed" /\ reported' = TRUE /\ UNCHANGED <<parserVars, stack, pc>>
  <2>1. TypeOK'
    BY <1>3, <1>4, <1>5 DEF IInv, TypeOK, parserVars
  <2>2. PhasesInv'
    BY <1>5 DEF IInv, PhasesInv, Frame
  <2>3. LabelsHeld'
    BY <1>3, <1>5 DEF IInv, LabelsHeld
  <2>4. Kept
    BY <1>5 DEF Kept, Aborted
  <2> QED
    BY <2>1, <2>2, <2>3, <2>4 DEF IInv
<1>6. CASE /\ Match("else")
           /\ stack' = [stack EXCEPT ![Len(stack)].phase = "else"]
           /\ Goto(IF Frame.block THEN "elseBlock" ELSE "command")
  <2>1. entry' \in Tokens /\ found' \in BOOLEAN /\ input' \in Seq(Tokens)
    BY <1>6, Matched DEF IInv, Tokens
  <2>2. /\ pc' \in {"elseBlock", "command"}
        /\ status' = status /\ reported' = reported
    BY <1>6 DEF Goto
  <2>3. /\ stack' \in Seq(Frames) /\ stack' # <<>>
        /\ PhasesInv' /\ LabelsHeld' /\ OpenUnits' = SP!ToPhase("else")
    BY <1>1, <1>2, <1>3, <1>6, <2>2, Phased DEF Phases, Places
  <2>4. TypeOK'
    BY <1>3, <1>4, <2>1, <2>2, <2>3 DEF IInv, TypeOK
  <2>5. Kept
    <3>1. CASE Aborted'
      BY <3>1 DEF Kept
    <3>2. CASE ~Aborted'
      <4>1. ~Aborted /\ UNCHANGED (reported \/ nested \/ status = "aborted")
        BY <1>3, <2>2, <3>2 DEF Aborted
      <4>2. /\ SP!TopIs("if", "then")
            /\ SP!Top.first = ifLabels.end /\ SP!Top.second = ifLabels.false
        BY <1>1, <1>2, <4>1, TopSeen DEF SP!TopIs, Holds, Aborted
      <4>3. SP!StartElse
        BY <1>1, <1>3, <2>3, <4>1, <4>2, Generated DEF SP!StartElse
      <4> QED
        BY <4>1, <4>3 DEF Kept, SP!Next, Aborted
    <3> QED
      BY <3>1, <3>2
  <2> QED
    BY <2>3, <2>4, <2>5 DEF IInv
<1> QED
  BY <1>5, <1>6 DEF Else

LEMMA NoElseKeeps ==
  ASSUME IInv, NoElse
  PROVE  IInv' /\ Kept
<1>1. /\ status = "running" /\ pc = "else?" /\ stack # <<>>
      /\ stack \in Seq(Frames) /\ code \in Seq(Ops) /\ counter \in Nat
      /\ ifLabels.end \in Nat /\ ifLabels.false \in Nat
  BY DEF NoElse, Running, IInv, TypeOK
<1>2. Frame.phase = "then" /\ Frame.kind = "if"
  <2>1. Len(stack) \in DOMAIN stack /\ stack[Len(stack)] \in Frames
    BY <1>1, TopFrame
  <2>2. Frame.phase = "then" /\ Frame.kind # "while"
    BY <1>1, <2>1 DEF IInv, PhasesInv, Frame
  <2> QED
    BY <2>1, <2>2 DEF Frame, Frames
<1>3. /\ code' = Append(code, Def(ifLabels.false)) /\ stack' = Pop
      /\ pc' = "return" /\ status' = status /\ reported' = reported
      /\ counter' = counter /\ whileLabels' = whileLabels
      /\ ifLabels' = ifLabels /\ nested' = nested
      /\ entry' = entry /\ found' = found /\ input' = input
  BY DEF NoElse, FinishIf, Goto, parserVars
<1>4. code' \in Seq(Ops)
  BY <1>1, <1>3, Generated, Appended
<1>5. /\ stack' \in Seq(Frames) /\ PhasesInv' /\ LabelsHeld'
      /\ OpenUnits' = SP!Pop
  BY <1>1, <1>3, Popped
<1>6. TypeOK'
  BY <1>3, <1>4, <1>5 DEF IInv, TypeOK
<1>7. Kept
  <2>1. CASE Aborted'
    BY <2>1 DEF Kept
  <2>2. CASE ~Aborted'
    <3>1. ~Aborted /\ UNCHANGED (reported \/ nested \/ status = "aborted")
      BY <1>3, <2>2 DEF Aborted
    <3>2. SP!TopIs("if", "then") /\ SP!Top.second = ifLabels.false
      BY <1>1, <1>2, <3>1, TopSeen DEF SP!TopIs, Holds, Aborted
    <3>3. SP!FinishIf
      BY <1>1, <1>3, <1>5, <3>1, <3>2, Generated DEF SP!FinishIf
    <3> QED
      BY <3>1, <3>3 DEF Kept, SP!Next, Aborted
  <2> QED
    BY <2>1, <2>2
<1> QED
  BY <1>5, <1>6, <1>7 DEF IInv

-----------------------------------------------------------------------------
LEMMA InitHolds == Init => IInv /\ SP!Init
<1> SUFFICES ASSUME Init
             PROVE  IInv /\ SP!Init
  OBVIOUS
<1>1. stack = <<>> /\ DOMAIN stack = {} /\ stack \in Seq(Frames)
  BY DEF Init
<1>2. TypeOK
  <2>1. <<>> \in Seq(Ops) /\ <<>> \in Seq(Tokens)
    OBVIOUS
  <2> QED
    BY <1>1, <2>1 DEF Init, TypeOK
<1>3. PhasesInv /\ LabelsHeld
  BY <1>1 DEF Init, PhasesInv, LabelsHeld
<1>4. SP!Init
  <2>1. OpenUnits = <<>>
    <3>1. UnitsOf(stack) \in Seq(SP!Units) /\ Len(UnitsOf(stack)) = 0
      BY <1>1, UnitFacts
    <3> QED
      BY <3>1, UnitsOfStack
  <2>2. (reported \/ nested \/ status = "aborted") = FALSE
    BY DEF Init
  <2> QED
    BY <2>1, <2>2 DEF Init, SP!Init
<1> QED
  BY <1>2, <1>3, <1>4 DEF IInv

LEMMA StepKeeps == IInv /\ [Next]_vars => IInv' /\ Kept
<1> SUFFICES ASSUME IInv, [Next]_vars
             PROVE  IInv' /\ Kept
  OBVIOUS
<1>1. CASE Next
  BY <1>1, MovesKeep, SimpleKeeps, WhileKeeps, IfKeeps, ConditionKeeps,
     BlockKeeps, ErrorKeeps, EndsKeep, ElseKeeps, NoElseKeeps, StutterKeeps
     DEF Next, Done
<1>2. CASE UNCHANGED vars
  BY <1>2, StutterKeeps
<1> QED
  BY <1>1, <1>2

(* The parser's variables keep their types, and there is a frame wherever  *)
(* the functions read or finish one.                                       *)
THEOREM TypeCorrect == Spec => []TypeOK
<1>1. IInv => TypeOK
  BY DEF IInv
<1> QED
  BY <1>1, InitHolds, StepKeeps, PTL DEF Spec

(* The parser, with its two pairs of label buffers, generates every loop   *)
(* and conditional as the unit codegen.h promises, until it reports an     *)
(* error or one is inside another of its kind.                             *)
THEOREM KeepsThePromise == Spec => ImplementsStructuredCode
<1>1. SP!Init => Structured!Init
  BY SMTT(30) DEF SP!Init, Structured!Init
<1>2. Kept => [Structured!Next \/ Aborted']_(Structured!svars)
  BY DEF Kept, SP!Next, SP!svars, Structured!Next, Structured!svars,
         SP!Command, SP!LoopCondition, SP!StartIf, SP!StartLoop, SP!FinishLoop,
         SP!StartElse, SP!FinishIf, SP!TopIs, SP!Top, SP!Pop, SP!ToPhase,
         SP!Def, SP!Jump, SP!Locals,
         Structured!Command, Structured!LoopCondition, Structured!StartIf,
         Structured!StartLoop, Structured!FinishLoop, Structured!StartElse,
         Structured!FinishIf, Structured!TopIs, Structured!Top, Structured!Pop,
         Structured!ToPhase, Structured!Def, Structured!Jump, Structured!Locals
<1> QED
  BY <1>1, <1>2, InitHolds, StepKeeps, PTL
     DEF Spec, ImplementsStructuredCode, Structured!Promise, Aborted

(* The assembly of an accepted program without loops in loops or           *)
(* conditionals in conditionals defines no label twice and jumps to none   *)
(* that is missing: what it is generated by keeps the promise, and at the  *)
(* end of an accepted program nothing is open.                             *)
THEOREM AcceptedLabelled == Spec => []AcceptedIsLabelled
<1>1. Spec => SP!Promise
  BY InitHolds, StepKeeps, PTL DEF Spec, SP!Promise, Kept, Aborted
<1>2. IInv /\ SP!WellLabelled => AcceptedIsLabelled
  <2> SUFFICES ASSUME IInv, SP!WellLabelled, Accepted, ~nested
               PROVE  LabelsValid
    BY DEF AcceptedIsLabelled
  <2>1. stack = <<>> /\ DOMAIN stack = {} /\ stack \in Seq(Frames)
    BY DEF IInv, TypeOK, PhasesInv, Accepted
  <2>2. OpenUnits = <<>>
    <3>1. UnitsOf(stack) \in Seq(SP!Units) /\ Len(UnitsOf(stack)) = 0
      BY <2>1, UnitFacts
    <3> QED
      BY <3>1, UnitsOfStack
  <2>3. SP!LabelsUnique /\ SP!JumpsResolved
    BY <2>2 DEF SP!WellLabelled, Accepted
  <2> QED
    BY <2>3 DEF LabelsValid, SP!LabelsUnique, SP!JumpsResolved, SP!Def,
                Structured!LabelsUnique, Structured!JumpsResolved, Structured!Def
<1>3. Spec => []SP!WellLabelled
  <2>1. SP!Promise => []SP!WellLabelled
    BY LocalCountsAssumption, SP!PromiseLabelled
  <2> QED
    BY <1>1, <2>1, PTL
<1>4. Spec => []IInv
  BY InitHolds, StepKeeps, PTL DEF Spec
<1> QED
  BY <1>2, <1>3, <1>4, PTL

-----------------------------------------------------------------------------
(* What keeps a program with an error from becoming an executable although *)
(* the compiler ends with status 0 (syntatic_if returns 1, which           *)
(* syntatic_command and its callers do not take for a failure): the jump   *)
(* over the body of the conditional was generated, and its label never is. *)
(*                                                                         *)
(* It is not enough to follow that label.  The conditional may be inside   *)
(* another one, which then defines the label in place of its own; but its  *)
(* own was overwritten in the buffer and is lost.  So the invariant counts *)
(* on any label that is jumped to, not defined, and in no buffer (Lost).   *)

Aims == SP!Targets(code)
Defs == SP!Defined(code)
Owed(l) == l \in Aims /\ l \notin Defs

Loops == whileLabels.start # whileLabels.end
Ifs == ifLabels.end # ifLabels.false
IfFrame(k) == stack[k].kind = "if"

(* A label that is jumped to and that nothing can define any more.         *)
Lost ==
  \E l \in 0..counter - 1 :
    /\ Owed(l) /\ l # ifLabels.end /\ l # ifLabels.false
    /\ Loops => l # whileLabels.end

(* Only one conditional is open: the buffers hold its labels.              *)
OneIf ==
  \A k \in DOMAIN stack : IfFrame(k) =>
    /\ \A j \in DOMAIN stack : IfFrame(j) => j = k
    /\ stack[k].phase = "then" =>
         Owed(ifLabels.false) /\ ifLabels.end \notin Defs
    /\ stack[k].phase = "else" => Owed(ifLabels.end)

(* A conditional was dropped after its jump, and no other is open.         *)
Dropped ==
  Ifs /\ Owed(ifLabels.false) /\ \A k \in DOMAIN stack : ~IfFrame(k)

BuffersInv ==
  /\ Defs \subseteq 0..counter - 1
  /\ Loops => whileLabels.end < counter
  /\ Ifs => ifLabels.end < counter /\ ifLabels.false < counter
  /\ Loops /\ Ifs => /\ whileLabels.end # ifLabels.end
                     /\ whileLabels.end # ifLabels.false
  /\ \A k \in DOMAIN stack : IF IfFrame(k) THEN Ifs ELSE Loops
  /\ pc = "body" => Frame.phase # "else"

ErrorInv ==
  /\ BuffersInv
  /\ status # "failed" => Lost \/ OneIf
  /\ status # "failed" /\ reported => Lost \/ Dropped

-----------------------------------------------------------------------------
(* What each way to generate code does to the two sets.                    *)

LEMMA SetsOfCode ==
  ASSUME NEW s \in Seq(Ops), NEW c \in Nat, SP!Defined(s) \subseteq 0..c - 1
  PROVE  /\ \A n \in Nat :
              LET t == s \o Locals(c, n)
              IN /\ SP!Defined(t) = SP!Defined(s) \union (c..(c + n - 1))
                 /\ SP!Targets(t) = SP!Targets(s)
         /\ \A n, j \in Nat :
              LET t == s \o Locals(c, n) \o <<Jump(j)>>
              IN /\ SP!Defined(t) = SP!Defined(s) \union (c..(c + n - 1))
                 /\ SP!Targets(t) = SP!Targets(s) \union {j}
         /\ \A l \in Nat :
              LET t == Append(s, Def(l))
              IN /\ SP!Defined(t) = SP!Defined(s) \union {l}
                 /\ SP!Targets(t) = SP!Targets(s)
         /\ \A j, l \in Nat :
              LET t == s \o <<Jump(j), Def(l)>>
              IN /\ SP!Defined(t) = SP!Defined(s) \union {l}
                 /\ SP!Targets(t) = SP!Targets(s) \union {j}
<1>1. Ops = SP!CodeOps /\ s \in Seq(SP!CodeOps)
  BY DEF Ops, SP!CodeOps
<1>2. ASSUME NEW n \in Nat
      PROVE  /\ s \o Locals(c, n) \in Seq(SP!CodeOps)
             /\ SP!Defined(s \o Locals(c, n)) = SP!Defined(s) \union (c..(c + n - 1))
             /\ SP!Targets(s \o Locals(c, n)) = SP!Targets(s)
  <2>1. Locals(c, n) = SP!Locals(c, n)
    BY Generated
  <2> QED
    BY <1>1, <2>1, LocalCountsAssumption, SP!AppendLocals, SMTT(30)
<1>3. ASSUME NEW n \in Nat, NEW j \in Nat
      PROVE  LET t == s \o Locals(c, n) \o <<Jump(j)>>
             IN /\ SP!Defined(t) = SP!Defined(s) \union (c..(c + n - 1))
                /\ SP!Targets(t) = SP!Targets(s) \union {j}
  <2> DEFINE r == s \o Locals(c, n)
  <2>1. /\ r \in Seq(SP!CodeOps)
        /\ SP!Defined(r) = SP!Defined(s) \union (c..(c + n - 1))
        /\ SP!Targets(r) = SP!Targets(s)
    BY <1>2
  <2> HIDE DEF r
  <2>2. /\ SP!Defined(r \o <<SP!Jump(j)>>) = SP!Defined(r)
        /\ SP!Targets(r \o <<SP!Jump(j)>>) = SP!Targets(r) \union {j}
    BY <2>1, LocalCountsAssumption, SP!ConcatJump
  <2>3. Jump(j) = SP!Jump(j)
    BY Generated
  <2>4. /\ SP!Defined(r \o <<Jump(j)>>) = SP!Defined(s) \union (c..(c + n - 1))
        /\ SP!Targets(r \o <<Jump(j)>>) = SP!Targets(s) \union {j}
    BY <2>1, <2>2, <2>3
  <2> QED
    BY <2>4 DEF r
<1>4. ASSUME NEW l \in Nat
      PROVE  /\ SP!Defined(Append(s, Def(l))) = SP!Defined(s) \union {l}
             /\ SP!Targets(Append(s, Def(l))) = SP!Targets(s)
  <2>1. Def(l) = SP!Def(l)
    BY Generated
  <2> QED
    BY <1>1, <2>1, LocalCountsAssumption, SP!AppendDef
<1>5. ASSUME NEW j \in Nat, NEW l \in Nat
      PROVE  /\ SP!Defined(s \o <<Jump(j), Def(l)>>) = SP!Defined(s) \union {l}
             /\ SP!Targets(s \o <<Jump(j), Def(l)>>) = SP!Targets(s) \union {j}
  <2> DEFINE r == Append(s, SP!Jump(j))
  <2>1. /\ Def(l) = SP!Def(l) /\ Jump(j) = SP!Jump(j)
        /\ Def(l) \in SP!CodeOps /\ Jump(j) \in SP!CodeOps
    BY <1>1, Generated
  <2>2. s \o <<Jump(j), Def(l)>> = Append(r, SP!Def(l))
    BY <1>1, <2>1, LocalCountsAssumption, SP!ConcatOps
  <2>3. /\ r \in Seq(SP!CodeOps) /\ SP!Defined(r) = SP!Defined(s)
        /\ SP!Targets(r) = SP!Targets(s) \union {j}
    BY <1>1, LocalCountsAssumption, SP!AppendJump
  <2> HIDE DEF r
  <2>4. /\ SP!Defined(Append(r, SP!Def(l))) = SP!Defined(r) \union {l}
        /\ SP!Targets(Append(r, SP!Def(l))) = SP!Targets(r)
    BY <2>3, LocalCountsAssumption, SP!AppendDef
  <2> QED
    BY <2>2, <2>3, <2>4
<1> QED
  BY <1>2, <1>3, <1>4, <1>5

LEMMA Numbers ==
  ASSUME IInv
  PROVE  /\ counter \in Nat /\ code \in Seq(Ops)
         /\ whileLabels.start \in Nat /\ whileLabels.end \in Nat
         /\ ifLabels.end \in Nat /\ ifLabels.false \in Nat
         /\ stack \in Seq(Frames) /\ Len(stack) \in Nat
         /\ DOMAIN stack = 1..Len(stack)
BY DEF IInv, TypeOK

-----------------------------------------------------------------------------
(* A lost label stays lost, and the parser's moves change nothing.         *)

(* A step that jumps to more labels, defines only those of the buffers or  *)
(* new ones, and puts only new ones into the buffers.                      *)
Onward ==
  /\ counter \in Nat /\ counter' \in Nat /\ counter <= counter'
  /\ Aims \subseteq Aims'
  /\ \A l \in 0..counter - 1 :
       l \in Defs' /\ l \notin Defs =>
         l = ifLabels.end \/ l = ifLabels.false \/ (Loops /\ l = whileLabels.end)
  /\ \/ ifLabels' = ifLabels
     \/ ifLabels'.end >= counter /\ ifLabels'.false >= counter
  /\ \/ whileLabels' = whileLabels
     \/ whileLabels'.end >= counter

LEMMA LostStays ==
  ASSUME Lost, Onward
  PROVE  Lost'
<1>1. PICK l \in 0..counter - 1 :
        /\ Owed(l) /\ l # ifLabels.end /\ l # ifLabels.false
        /\ Loops => l # whileLabels.end
  BY DEF Lost
<1>2. l \in 0..counter' - 1
  <2>1. \A a, b \in Nat : a <= b => \A i \in 0..a - 1 : i \in 0..b - 1
    OBVIOUS
  <2> QED
    BY <2>1 DEF Onward
<1>a. l \in Aims' /\ l \notin Defs'
  BY <1>1 DEF Owed, Onward
<1>b. Owed(l)'
  BY <1>a DEF Owed
<1>3. l # ifLabels'.end /\ l # ifLabels'.false
  BY <1>1 DEF Onward
<1>4. Loops' => l # whileLabels'.end
  BY <1>1 DEF Loops, Onward
<1> QED
  BY <1>2, <1>b, <1>3, <1>4 DEF Lost

LEMMA QuietErrors ==
  ASSUME IInv, ErrorInv, Quiet
  PROVE  ErrorInv'
<1>1. stack' = stack /\ code' = code /\ counter' = counter
      /\ whileLabels' = whileLabels /\ ifLabels' = ifLabels
  BY DEF Quiet, genVars
<1>2. Aims' = Aims /\ Defs' = Defs
  BY <1>1 DEF Aims, Defs
<1>3. BuffersInv'
  <2>1. pc' = "body" => pc = "body"
    BY DEF Quiet
  <2> QED
    BY <1>1, <1>2, <2>1 DEF ErrorInv, BuffersInv, Loops, Ifs, IfFrame, Frame
<1>4. (Lost' <=> Lost) /\ (OneIf' <=> OneIf) /\ (Dropped' <=> Dropped)
  BY <1>1, <1>2 DEF Lost, OneIf, Dropped, Owed, Loops, Ifs, IfFrame
<1>5. status # "failed" /\ (status' # "failed" => reported' = reported)
  BY DEF Quiet
<1> QED
  BY <1>3, <1>4, <1>5 DEF ErrorInv

LEMMA EndingErrors ==
  ASSUME IInv, ErrorInv, status = "running", Fail \/ Unreachable
  PROVE  ErrorInv'
BY EndsQuietly, QuietErrors

-----------------------------------------------------------------------------
(* The actions that generate code.                                         *)

LEMMA SimpleErrors ==
  ASSUME IInv, ErrorInv, SimpleCommand
  PROVE  ErrorInv'
<1>1. CASE Fail
  BY <1>1, EndingErrors DEF SimpleCommand, Running
<1>2. CASE ~Fail
  <2>1. /\ status = "running" /\ status' = status /\ reported' = reported
        /\ stack' = stack /\ pc' = "return"
        /\ whileLabels' = whileLabels /\ ifLabels' = ifLabels
    BY <1>2 DEF SimpleCommand, Running, Goto
  <2>2. PICK n \in IF entry = "simple" THEN LocalCounts ELSE {0} :
               code' = code \o Locals(counter, n) /\ counter' = counter + n
    BY <1>2 DEF SimpleCommand
  <2>3. n \in Nat
    BY LocalCountsAssumption
  <2>4. counter' \in Nat /\ counter <= counter' /\ counter \in Nat
    BY <2>2, <2>3, Numbers
  <2>5. Defs' = Defs \union (counter..(counter + n - 1)) /\ Aims' = Aims
    <3>1. Defs \subseteq 0..counter - 1 /\ code \in Seq(Ops)
      BY Numbers DEF ErrorInv, BuffersInv
    <3> QED
      BY <2>2, <2>3, <2>4, <3>1, SetsOfCode DEF Defs, Aims
  <2>6. BuffersInv'
    BY <2>1, <2>2, <2>3, <2>4, <2>5, Numbers
       DEF ErrorInv, BuffersInv, Loops, Ifs, IfFrame
  <2>7. Lost => Lost'
    <3>1. \A l \in 0..counter - 1 : l \in Defs' => l \in Defs
      BY <2>3, <2>4, <2>5
    <3>2. Onward
      BY <2>1, <2>4, <2>5, <3>1 DEF Onward
    <3> QED
      BY <3>2, LostStays
  <2>8. ASSUME OneIf
        PROVE  OneIf'
    <3>1. \A k \in DOMAIN stack : IfFrame(k) =>
            ifLabels.end < counter /\ ifLabels.false < counter
      BY DEF ErrorInv, BuffersInv
    <3> QED
      BY <2>1, <2>4, <2>5, <2>8, <3>1, Numbers DEF OneIf, Owed, IfFrame
  <2>9. Dropped => Dropped'
    BY <2>1, <2>4, <2>5, Numbers DEF Dropped, Owed, Ifs, IfFrame, ErrorInv, BuffersInv
  <2> QED
    BY <2>1, <2>6, <2>7, <2>8, <2>9 DEF ErrorInv
<1> QED
  BY <1>1, <1>2

LEMMA WhileErrors ==
  ASSUME IInv, ErrorInv, WhileCommand
  PROVE  ErrorInv'
<1>1. CASE Fail
  BY <1>1, EndingErrors DEF WhileCommand, Running
<1>2. CASE ~Fail
  <2>1. /\ status = "running" /\ pc = "command" /\ pc' = "whileCond"
        /\ status' = status /\ reported' = reported /\ ifLabels' = ifLabels
        /\ whileLabels' = [start |-> counter, end |-> counter + 1]
        /\ code' = Append(code, Def(counter)) /\ counter' = counter + 2
        /\ Push("while", "cond", counter, counter + 1)
    BY <1>2 DEF WhileCommand, StartLoop, Running, Goto
  <2> DEFINE m == Len(stack)
  <2>2. /\ counter \in Nat /\ counter' \in Nat /\ counter <= counter'
        /\ counter + 1 \in Nat /\ whileLabels'.start = counter /\ whileLabels'.end = counter + 1
        /\ Loops' /\ (Ifs' <=> Ifs)
    BY <2>1, Numbers DEF Loops, Ifs
  <2>3. Defs' = Defs \union {counter} /\ Aims' = Aims
    BY <2>1, Numbers, SetsOfCode DEF ErrorInv, BuffersInv, Defs, Aims
  <2>4. /\ m \in Nat /\ DOMAIN stack = 1..m /\ DOMAIN stack' = 1..m + 1
        /\ \A k \in 1..m : stack'[k] = stack[k]
        /\ stack'[m + 1].kind = "while"
    BY <2>1, <2>2, Pushed DEF Phases
  <2> HIDE DEF m
  <2>5. \A k \in DOMAIN stack' :
          IfFrame(k)' => k \in DOMAIN stack /\ IfFrame(k) /\ stack'[k] = stack[k]
    BY <2>4 DEF IfFrame
  <2>6. BuffersInv'
    <3>1. \A k \in DOMAIN stack' : IF IfFrame(k)' THEN Ifs' ELSE Loops'
      BY <2>2, <2>5 DEF ErrorInv, BuffersInv
    <3>2. Defs' \subseteq 0..counter' - 1
      BY <2>1, <2>2, <2>3 DEF ErrorInv, BuffersInv
    <3>3. Ifs => ifLabels.end < counter /\ ifLabels.false < counter
      BY DEF ErrorInv, BuffersInv
    <3> QED
      BY <2>1, <2>2, <3>1, <3>2, <3>3, Numbers DEF BuffersInv
  <2>7. Lost => Lost'
    <3>1. \A l \in 0..counter - 1 : l \in Defs' => l \in Defs
      BY <2>2, <2>3
    <3>2. Aims \subseteq Aims' /\ whileLabels'.end >= counter
      BY <2>2, <2>3
    <3>3. Onward
      BY <2>1, <2>2, <3>1, <3>2 DEF Onward
    <3> QED
      BY <3>3, LostStays
  <2>8. ASSUME OneIf
        PROVE  OneIf'
    <3>1. \A k \in DOMAIN stack : IfFrame(k) =>
            ifLabels.end < counter /\ ifLabels.false < counter
      BY DEF ErrorInv, BuffersInv
    <3> QED
      BY <2>1, <2>2, <2>3, <2>5, <2>8, <3>1, Numbers DEF OneIf, Owed
  <2>9. Dropped => Dropped'
    BY <2>1, <2>2, <2>3, <2>5, Numbers DEF Dropped, Owed, ErrorInv, BuffersInv
  <2> QED
    BY <2>1, <2>6, <2>7, <2>8, <2>9 DEF ErrorInv
<1> QED
  BY <1>1, <1>2

(* A label that is waited for when another conditional takes the buffer.   *)
LEMMA BecomesLost ==
  ASSUME ErrorInv, Onward, Ifs, NEW x \in Nat, Owed(x), x \notin Defs',
         x = ifLabels.end \/ x = ifLabels.false,
         ifLabels'.end >= counter, ifLabels'.false >= counter,
         whileLabels' = whileLabels, counter < counter'
  PROVE  Lost'
<1>1. x < counter
  BY DEF ErrorInv, BuffersInv
<1>2. x \in 0..counter' - 1 /\ x # ifLabels'.end /\ x # ifLabels'.false
  <2>1. counter \in Nat /\ counter' \in Nat
    BY DEF Onward
  <2>2. x \in 0..counter' - 1
    <3>1. \A a, b, i \in Nat : i < a /\ a < b => i \in 0..b - 1
      OBVIOUS
    <3> QED
      BY <1>1, <2>1, <3>1
  <2>3. \A a : a >= counter => x # a
    BY <1>1, <2>1
  <2> QED
    BY <2>2, <2>3
<1>3. x \in Aims'
  BY DEF Owed, Onward
<1>4. Owed(x)'
  BY <1>3 DEF Owed
<1>5. Loops' => x # whileLabels'.end
  BY DEF Loops, ErrorInv, BuffersInv
<1> QED
  BY <1>2, <1>4, <1>5 DEF Lost

LEMMA IfErrors ==
  ASSUME IInv, ErrorInv, IfCondition
  PROVE  ErrorInv'
<1>1. CASE Fail
  BY <1>1, EndingErrors DEF IfCondition, Running
<1>2. CASE ~Fail
  <2>1. /\ status = "running" /\ pc = "ifCond" /\ pc' = "body"
        /\ status' = status /\ reported' = reported
    BY <1>2 DEF IfCondition, Running, Goto
  <2>2. PICK n \in LocalCounts : StartIf(n)
    BY <1>2 DEF IfCondition
  <2> DEFINE e == counter + n
             m == Len(stack)
  <2>3. /\ whileLabels' = whileLabels
        /\ ifLabels' = [end |-> e, false |-> e + 1]
        /\ code' = code \o Locals(counter, n) \o <<Jump(e + 1)>>
        /\ counter' = e + 2
        /\ Push("if", "then", e, e + 1)
    BY <2>2 DEF StartIf
  <2>4. /\ n \in Nat /\ counter \in Nat /\ e \in Nat /\ e + 1 \in Nat
        /\ counter' \in Nat /\ counter < counter' /\ counter <= e
    <3>1. n \in Nat /\ counter \in Nat
      BY LocalCountsAssumption, Numbers
    <3>2. counter' = counter + n + 2
      BY <2>3
    <3> QED
      BY <3>1, <3>2
  <2>5. Defs' = Defs \union (counter..(e - 1)) /\ Aims' = Aims \union {e + 1}
    <3>1. Defs \subseteq 0..counter - 1 /\ code \in Seq(Ops)
      BY Numbers DEF ErrorInv, BuffersInv
    <3> QED
      BY <2>3, <2>4, <3>1, SetsOfCode DEF Defs, Aims
  <2>6. /\ m \in Nat /\ DOMAIN stack = 1..m /\ DOMAIN stack' = 1..m + 1
        /\ Len(stack') = m + 1
        /\ \A k \in 1..m : stack'[k] = stack[k]
        /\ stack'[m + 1].kind = "if" /\ stack'[m + 1].phase = "then"
    BY <2>1, <2>3, <2>4, Pushed DEF Phases
  <2> HIDE DEF e, m
  <2>7. /\ ifLabels'.end = e /\ ifLabels'.false = e + 1 /\ Ifs'
        /\ (Loops' <=> Loops) /\ whileLabels' = whileLabels
    BY <2>3, <2>4 DEF Ifs, Loops
  <2>8. \A l \in 0..counter - 1 : l \in Defs' => l \in Defs
    BY <2>4, <2>5 DEF e
  <2>9. Onward
    BY <2>4, <2>5, <2>7, <2>8 DEF Onward
  <2>10. BuffersInv'
    <3>1. ASSUME NEW k \in DOMAIN stack'
          PROVE  IF IfFrame(k)' THEN Ifs' ELSE Loops'
      <4>1. CASE k = m + 1
        BY <2>6, <2>7, <4>1 DEF IfFrame
      <4>2. CASE k \in 1..m
        BY <2>6, <2>7, <4>2 DEF IfFrame, ErrorInv, BuffersInv
      <4> QED
        BY <2>6, <4>1, <4>2
    <3>2. Defs' \subseteq 0..counter' - 1
      <4>1. \A l \in 0..counter - 1 : l \in 0..counter' - 1
        <5>1. \A a, b \in Nat : a < b => \A i \in 0..a - 1 : i \in 0..b - 1
          OBVIOUS
        <5> QED
          BY <2>4, <5>1
      <4>2. \A l \in counter..(e - 1) : l \in 0..counter' - 1
        <5>1. \A a, b \in Nat : \A i \in a..(b - 1) : i \in 0..(b + 2) - 1
          OBVIOUS
        <5> QED
          BY <2>3, <2>4, <5>1
      <4> QED
        BY <2>5, <4>1, <4>2 DEF ErrorInv, BuffersInv
    <3>3. pc' = "body" => Frame'.phase # "else"
      BY <2>6 DEF Frame
    <3>4. /\ Ifs' => ifLabels'.end < counter' /\ ifLabels'.false < counter'
          /\ Loops' => whileLabels'.end < counter'
          /\ Loops' => whileLabels'.end # ifLabels'.end /\ whileLabels'.end # ifLabels'.false
      <4>1. Loops => whileLabels.end < counter /\ whileLabels.end \in Nat
        BY Numbers DEF ErrorInv, BuffersInv
      <4> QED
        BY <2>3, <2>4, <2>7, <4>1
    <3> QED
      BY <3>1, <3>2, <3>3, <3>4 DEF BuffersInv
  <2>11. Lost => Lost'
    BY <2>9, LostStays
  <2>12. ASSUME NEW x \in Nat, Ifs, Owed(x), x = ifLabels.end \/ x = ifLabels.false
         PROVE  Lost'
    <3>1. x \in 0..counter - 1 /\ x \notin Defs'
      BY <2>4, <2>8, <2>12 DEF ErrorInv, BuffersInv, Owed
    <3> QED
      BY <2>4, <2>7, <2>9, <2>12, <3>1, BecomesLost
  <2>13. ASSUME OneIf
         PROVE  Lost' \/ OneIf'
    <3>1. CASE \E k \in DOMAIN stack : IfFrame(k)
      <4>1. PICK k \in DOMAIN stack : IfFrame(k)
        BY <3>1
      <4>2. stack[k] \in Frames /\ stack[k].kind # "while"
        BY <4>1, Numbers DEF IfFrame
      <4>3. stack[k].phase = "then" \/ stack[k].phase = "else"
        BY <4>2 DEF IInv, PhasesInv, Frames
      <4>4. Ifs
        BY <4>1 DEF ErrorInv, BuffersInv
      <4>5. Owed(ifLabels.false) \/ Owed(ifLabels.end)
        BY <2>13, <4>1, <4>3 DEF OneIf
      <4> QED
        BY <2>12, <4>4, <4>5, Numbers
    <3>2. CASE \A k \in DOMAIN stack : ~IfFrame(k)
      <4>1. \A k \in DOMAIN stack' : IfFrame(k)' => k = m + 1
        BY <2>6, <3>2 DEF IfFrame
      <4>2. e + 1 \in Aims' /\ e + 1 \notin Defs' /\ e \notin Defs'
        <5>1. e \notin 0..counter - 1 /\ e + 1 \notin 0..counter - 1
          BY <2>4
        <5>2. e \notin counter..(e - 1) /\ e + 1 \notin counter..(e - 1)
          BY <2>4
        <5> QED
          BY <2>5, <5>1, <5>2 DEF ErrorInv, BuffersInv
      <4>3. Owed(ifLabels.false)' /\ ifLabels'.end \notin Defs'
        BY <2>7, <4>2 DEF Owed
      <4> QED
        BY <2>6, <4>1, <4>3 DEF OneIf
    <3> QED
      BY <3>1, <3>2
  <2>14. Dropped => Lost'
    BY <2>12, Numbers DEF Dropped
  <2> QED
    BY <2>1, <2>10, <2>11, <2>13, <2>14 DEF ErrorInv
<1> QED
  BY <1>1, <1>2

LEMMA ConditionErrors ==
  ASSUME IInv, ErrorInv, WhileCondition
  PROVE  ErrorInv'
<1>1. CASE Fail
  BY <1>1, EndingErrors DEF WhileCondition, Running
<1>2. CASE ~Fail
  <2>1. /\ status = "running" /\ pc = "whileCond" /\ pc' = "body"
        /\ status' = status /\ reported' = reported
    BY <1>2 DEF WhileCondition, Running, Goto
  <2>2. PICK n \in LocalCounts : EvalLoopExpr(n)
    BY <1>2 DEF WhileCondition
  <2>3. /\ code' = code \o Locals(counter, n) \o <<Jump(whileLabels.end)>>
        /\ counter' = counter + n
        /\ stack' = [stack EXCEPT ![Len(stack)].phase = "body"]
        /\ whileLabels' = whileLabels /\ ifLabels' = ifLabels
    BY <2>2 DEF EvalLoopExpr
  <2>4. /\ n \in Nat /\ counter \in Nat /\ counter' \in Nat /\ counter <= counter'
        /\ whileLabels.end \in Nat /\ stack \in Seq(Frames) /\ stack # <<>>
    BY <2>1, <2>3, LocalCountsAssumption DEF IInv, TypeOK
  <2>5. /\ Defs' = Defs \union (counter..(counter + n - 1))
        /\ Aims' = Aims \union {whileLabels.end}
    <3>1. Defs \subseteq 0..counter - 1 /\ code \in Seq(Ops)
      BY Numbers DEF ErrorInv, BuffersInv
    <3>2. SP!Defined(code) \subseteq 0..counter - 1
      BY <3>1 DEF Defs
    <3>3. \A j \in Nat :
            LET c == code \o Locals(counter, n) \o <<Jump(j)>>
            IN /\ SP!Defined(c) = SP!Defined(code) \union (counter..(counter + n - 1))
               /\ SP!Targets(c) = SP!Targets(code) \union {j}
      BY <2>4, <3>1, <3>2, SetsOfCode
    <3> QED
      BY <2>3, <2>4, <3>3 DEF Defs, Aims
  <2>6. /\ Len(stack) \in DOMAIN stack /\ Frame.kind = "while"
        /\ Len(stack') = Len(stack) /\ DOMAIN stack' = DOMAIN stack
        /\ \A k \in DOMAIN stack : k # Len(stack) => stack'[k] = stack[k]
        /\ stack'[Len(stack)].kind = "while" /\ stack'[Len(stack)].phase = "body"
    <3>1. Frame.kind = "while"
      BY <2>1, <2>4, TopFrame DEF IInv, PhasesInv, Frame
    <3> QED
      BY <2>3, <2>4, <3>1, TopFrame, PhasedFrame DEF Frame, Phases
  <2>7. \A k \in DOMAIN stack : /\ IfFrame(k)' <=> IfFrame(k)
                                /\ IfFrame(k) => stack'[k] = stack[k]
    BY <2>6 DEF IfFrame, Frame
  <2>8. \A l \in 0..counter - 1 : l \in Defs' => l \in Defs
    BY <2>4, <2>5
  <2>9. Onward
    BY <2>3, <2>4, <2>5, <2>8 DEF Onward
  <2>10. BuffersInv'
    <3>1. Defs' \subseteq 0..counter' - 1
      <4>1. \A a, c \in Nat : /\ \A i \in 0..a - 1 : i \in 0..(a + c) - 1
                              /\ \A i \in a..(a + c - 1) : i \in 0..(a + c) - 1
        OBVIOUS
      <4>2. /\ \A i \in 0..counter - 1 : i \in 0..counter' - 1
            /\ \A i \in counter..(counter + n - 1) : i \in 0..counter' - 1
        BY <2>3, <2>4, <4>1
      <4> QED
        BY <2>5, <4>2 DEF ErrorInv, BuffersInv
    <3>2. Frame'.phase # "else"
      BY <2>6 DEF Frame
    <3>3. (Loops' <=> Loops) /\ (Ifs' <=> Ifs)
      BY <2>3 DEF Loops, Ifs
    <3>4. \A k \in DOMAIN stack' : IF IfFrame(k)' THEN Ifs' ELSE Loops'
      BY <2>6, <2>7, <3>3 DEF ErrorInv, BuffersInv
    <3>5. /\ Loops' => whileLabels'.end < counter'
          /\ Ifs' => ifLabels'.end < counter' /\ ifLabels'.false < counter'
      <4>1. /\ Loops => whileLabels.end < counter
            /\ Ifs => ifLabels.end < counter /\ ifLabels.false < counter
        BY DEF ErrorInv, BuffersInv
      <4> QED
        BY <2>3, <2>4, <3>3, <4>1, Numbers, SMTT(30)
    <3> QED
      BY <2>3, <3>1, <3>2, <3>3, <3>4, <3>5 DEF ErrorInv, BuffersInv
  <2>11. Lost => Lost'
    BY <2>9, LostStays
  <2>12. Ifs => /\ (ifLabels'.false \in Defs' <=> ifLabels.false \in Defs)
                /\ (ifLabels'.end \in Defs' <=> ifLabels.end \in Defs)
    <3>1. Ifs => ifLabels.false \in 0..counter - 1 /\ ifLabels.end \in 0..counter - 1
      BY <2>4, Numbers DEF ErrorInv, BuffersInv
    <3> QED
      BY <2>3, <2>5, <2>8, <3>1
  <2>13. Ifs => /\ Owed(ifLabels.false) => Owed(ifLabels.false)'
                /\ Owed(ifLabels.end) => Owed(ifLabels.end)'
                /\ ifLabels.end \notin Defs => ifLabels'.end \notin Defs'
    BY <2>3, <2>5, <2>12 DEF Owed
  <2>14. \A k \in DOMAIN stack : IfFrame(k) => Ifs
    BY DEF ErrorInv, BuffersInv
  <2>15. OneIf => OneIf'
    BY <2>3, <2>6, <2>7, <2>13, <2>14 DEF OneIf
  <2>16. Dropped => Dropped'
    BY <2>3, <2>6, <2>7, <2>13 DEF Dropped, Ifs
  <2> QED
    BY <2>1, <2>10, <2>11, <2>15, <2>16 DEF ErrorInv
<1> QED
  BY <1>1, <1>2

LEMMA BlockErrors ==
  ASSUME IInv, ErrorInv, BodyBlock
  PROVE  ErrorInv'
<1>1. CASE Fail
  BY <1>1, EndingErrors DEF BodyBlock, Running
<1>2. CASE ~Fail
  <2>1. /\ status = "running" /\ pc = "body" /\ pc' = "block"
        /\ status' = status /\ reported' = reported
        /\ stack' = [stack EXCEPT ![Len(stack)].block = TRUE]
        /\ whileLabels' = whileLabels /\ ifLabels' = ifLabels
        /\ counter' = counter /\ code' = code
    BY <1>2 DEF BodyBlock, Running, Goto, genVars
  <2>2. stack # <<>> /\ stack \in Seq(Frames)
    BY <2>1 DEF IInv, TypeOK
  <2>3. /\ DOMAIN stack' = DOMAIN stack
        /\ \A k \in DOMAIN stack : /\ stack'[k].kind = stack[k].kind
                                   /\ stack'[k].phase = stack[k].phase
    BY <2>1, <2>2, BlockFrame
  <2>4. /\ Aims' = Aims /\ Defs' = Defs /\ (Loops' <=> Loops) /\ (Ifs' <=> Ifs)
        /\ \A k \in DOMAIN stack : IfFrame(k)' <=> IfFrame(k)
    BY <2>1, <2>3 DEF Aims, Defs, Loops, Ifs, IfFrame
  <2>5. \A l : Owed(l)' <=> Owed(l)
    BY <2>4 DEF Owed
  <2>6. BuffersInv'
    BY <2>1, <2>3, <2>4 DEF ErrorInv, BuffersInv
  <2>7. (Lost' <=> Lost) /\ (Dropped' <=> Dropped)
    BY <2>1, <2>3, <2>4, <2>5 DEF Lost, Dropped
  <2>8. OneIf => OneIf'
    BY <2>1, <2>3, <2>4, <2>5 DEF OneIf
  <2> QED
    BY <2>1, <2>6, <2>7, <2>8 DEF ErrorInv
<1> QED
  BY <1>1, <1>2

-----------------------------------------------------------------------------
(* The actions that leave a frame, or finish what it is in.                *)

LEMMA LeftFrame ==
  ASSUME IInv, stack # <<>>, stack' = Pop
  PROVE  /\ Len(stack) \in DOMAIN stack /\ Frame = stack[Len(stack)]
         /\ Frame \in Frames
         /\ \A k \in DOMAIN stack' : /\ k \in DOMAIN stack /\ k # Len(stack)
                                     /\ stack'[k] = stack[k]
                                     /\ IfFrame(k)' <=> IfFrame(k)
<1>1. stack \in Seq(Frames)
  BY DEF IInv, TypeOK
<1>2. /\ Len(stack) \in Nat \ {0} /\ DOMAIN stack = 1..Len(stack)
      /\ DOMAIN stack' = 1..Len(stack) - 1
      /\ \A k \in 1..Len(stack) - 1 : stack'[k] = stack[k]
  BY <1>1, PoppedFrame DEF Pop
<1>3. \A k \in DOMAIN stack' : k \in DOMAIN stack /\ k # Len(stack) /\ stack'[k] = stack[k]
  BY <1>2
<1>4. /\ Len(stack) \in DOMAIN stack /\ Frame = stack[Len(stack)]
      /\ Frame \in Frames
  BY <1>1, TopFrame DEF Frame
<1> QED
  BY <1>3, <1>4 DEF IfFrame

(* If the innermost frame is a conditional it is the only one, or a label  *)
(* is lost already; and none was dropped before.                           *)
LEMMA InnerIf ==
  ASSUME IInv, ErrorInv, status # "failed", stack # <<>>, Frame.kind = "if"
  PROVE  /\ Ifs
         /\ reported => Lost
         /\ Lost \/ (OneIf /\ \A k \in DOMAIN stack : IfFrame(k) => k = Len(stack))
<1>1. stack \in Seq(Frames)
  BY DEF IInv, TypeOK
<1>2. Len(stack) \in DOMAIN stack /\ IfFrame(Len(stack))
  BY <1>1, TopFrame DEF IfFrame, Frame
<1>3. Ifs
  BY <1>2 DEF ErrorInv, BuffersInv
<1>4. ~Dropped
  BY <1>2 DEF Dropped
<1>5. OneIf => \A k \in DOMAIN stack : IfFrame(k) => k = Len(stack)
  BY <1>2 DEF OneIf
<1> QED
  BY <1>3, <1>4, <1>5 DEF ErrorInv

LEMMA BodyErrors ==
  ASSUME IInv, ErrorInv, BodyError
  PROVE  ErrorInv'
<1>1. CASE Frame.kind = "while"
  BY <1>1, EndingErrors DEF BodyError, Running
<1>2. CASE Frame.kind # "while"
  <2>1. /\ status = "running" /\ pc = "body" /\ pc' = "return" /\ status' = status
        /\ stack' = Pop /\ whileLabels' = whileLabels /\ ifLabels' = ifLabels
        /\ counter' = counter /\ code' = code
    BY <1>2 DEF BodyError, Running, genVars
  <2>2. stack # <<>>
    BY <2>1 DEF IInv, TypeOK
  <2>3. /\ Len(stack) \in DOMAIN stack /\ Frame = stack[Len(stack)]
        /\ Frame \in Frames
        /\ \A k \in DOMAIN stack' : /\ k \in DOMAIN stack /\ k # Len(stack)
                                    /\ stack'[k] = stack[k]
                                    /\ IfFrame(k)' <=> IfFrame(k)
    BY <2>1, <2>2, LeftFrame
  <2>4. Frame.kind = "if" /\ Frame.phase = "then"
    <3>1. Frame.kind = "if"
      BY <1>2, <2>3 DEF Frames
    <3>2. Frame.phase # "else"
      BY <2>1 DEF ErrorInv, BuffersInv
    <3>3. Frame.phase \notin {"cond", "body"}
      BY <2>3, <3>1 DEF IInv, PhasesInv
    <3> QED
      BY <2>3, <3>1, <3>2, <3>3 DEF Frames
  <2>5. /\ Ifs
        /\ reported => Lost
        /\ Lost \/ (OneIf /\ \A k \in DOMAIN stack : IfFrame(k) => k = Len(stack))
    BY <2>1, <2>2, <2>4, InnerIf
  <2>6. /\ Aims' = Aims /\ Defs' = Defs /\ (Loops' <=> Loops) /\ (Ifs' <=> Ifs)
    BY <2>1 DEF Aims, Defs, Loops, Ifs
  <2>7. \A l : Owed(l)' <=> Owed(l)
    BY <2>6 DEF Owed
  <2>8. BuffersInv'
    BY <2>1, <2>3, <2>6 DEF ErrorInv, BuffersInv
  <2>9. Lost' <=> Lost
    BY <2>1, <2>6, <2>7 DEF Lost
  <2>10. ASSUME ~Lost
         PROVE  OneIf' /\ Dropped'
    <3>1. OneIf /\ \A k \in DOMAIN stack : IfFrame(k) => k = Len(stack)
      BY <2>5, <2>10
    <3>2. \A k \in DOMAIN stack' : ~IfFrame(k)'
      BY <2>3, <3>1
    <3>3. Owed(ifLabels.false)
      BY <2>3, <2>4, <3>1 DEF OneIf, IfFrame
    <3>4. Owed(ifLabels.false)'
      BY <2>1, <2>6, <3>3 DEF Owed
    <3> QED
      BY <2>1, <2>5, <2>6, <3>2, <3>4 DEF OneIf, Dropped
  <2> QED
    BY <2>1, <2>8, <2>9, <2>10 DEF ErrorInv
<1> QED
  BY <1>1, <1>2

LEMMA FinishIfErrors ==
  ASSUME IInv, ErrorInv, status = "running", stack # <<>>, Frame.kind = "if",
         NEW l \in Nat, l = ifLabels.end \/ l = ifLabels.false,
         code' = Append(code, Def(l)), stack' = Pop,
         counter' = counter, whileLabels' = whileLabels, ifLabels' = ifLabels,
         pc' = "return", status' = status, reported' = reported
  PROVE  ErrorInv'
<1>1. /\ Ifs
      /\ reported => Lost
      /\ Lost \/ (OneIf /\ \A k \in DOMAIN stack : IfFrame(k) => k = Len(stack))
  BY InnerIf
<1>2. Defs' = Defs \union {l} /\ Aims' = Aims
  <2>1. Defs \subseteq 0..counter - 1 /\ code \in Seq(Ops) /\ counter \in Nat
    BY Numbers DEF ErrorInv, BuffersInv
  <2> QED
    BY <2>1, SetsOfCode DEF Defs, Aims
<1>3. l < counter
  BY <1>1 DEF ErrorInv, BuffersInv
<1>4. \A k \in DOMAIN stack' : /\ k \in DOMAIN stack /\ k # Len(stack)
                               /\ stack'[k] = stack[k]
                               /\ IfFrame(k)' <=> IfFrame(k)
  BY LeftFrame
<1>5. (Loops' <=> Loops) /\ (Ifs' <=> Ifs)
  BY DEF Loops, Ifs
<1>6. BuffersInv'
  <2>1. l \in 0..counter - 1
    BY <1>3, Numbers
  <2> QED
    BY <1>2, <1>4, <1>5, <2>1 DEF ErrorInv, BuffersInv
<1>7. Lost => Lost'
  <2>1. Onward
    BY <1>2, Numbers DEF Onward
  <2> QED
    BY <2>1, LostStays
<1>8. Lost \/ OneIf'
  BY <1>1, <1>4 DEF OneIf
<1> QED
  BY <1>1, <1>6, <1>7, <1>8 DEF ErrorInv

LEMMA FinishLoopErrors ==
  ASSUME IInv, ErrorInv, status = "running", stack # <<>>,
         Frame.kind = "while", FinishLoop, Goto("return")
  PROVE  ErrorInv'
<1>1. /\ pc' = "return" /\ status' = status /\ reported' = reported
      /\ code' = code \o <<Jump(whileLabels.start), Def(whileLabels.end)>>
      /\ stack' = Pop /\ counter' = counter
      /\ whileLabels' = whileLabels /\ ifLabels' = ifLabels
  BY DEF FinishLoop, Goto
<1>2. /\ Defs' = Defs \union {whileLabels.end}
      /\ Aims' = Aims \union {whileLabels.start}
  <2>1. Defs \subseteq 0..counter - 1 /\ code \in Seq(Ops) /\ counter \in Nat
    BY Numbers DEF ErrorInv, BuffersInv
  <2>2. SP!Defined(code) \subseteq 0..counter - 1
    BY <2>1 DEF Defs
  <2>3. \A j, l \in Nat :
          LET c == code \o <<Jump(j), Def(l)>>
          IN /\ SP!Defined(c) = SP!Defined(code) \union {l}
             /\ SP!Targets(c) = SP!Targets(code) \union {j}
    BY <2>1, <2>2, SetsOfCode
  <2> QED
    BY <1>1, <2>3, Numbers DEF Defs, Aims
<1>3. /\ Len(stack) \in DOMAIN stack /\ Frame = stack[Len(stack)]
      /\ \A k \in DOMAIN stack' : /\ k \in DOMAIN stack /\ k # Len(stack)
                                  /\ stack'[k] = stack[k]
                                  /\ IfFrame(k)' <=> IfFrame(k)
  BY <1>1, LeftFrame
<1>4. Loops /\ whileLabels.end < counter
  BY <1>3 DEF ErrorInv, BuffersInv, IfFrame
<1>5. Ifs => whileLabels.end # ifLabels.end /\ whileLabels.end # ifLabels.false
  BY <1>4 DEF ErrorInv, BuffersInv
<1>6. (Loops' <=> Loops) /\ (Ifs' <=> Ifs)
  BY <1>1 DEF Loops, Ifs
<1>7. BuffersInv'
  <2>1. whileLabels.end \in 0..counter - 1
    BY <1>4, Numbers
  <2> QED
    BY <1>1, <1>2, <1>3, <1>6, <2>1 DEF ErrorInv, BuffersInv
<1>8. Lost => Lost'
  <2>1. Onward
    BY <1>1, <1>2, <1>4, Numbers DEF Onward
  <2> QED
    BY <2>1, LostStays
<1>9. Ifs => /\ Owed(ifLabels.false) => Owed(ifLabels.false)'
             /\ Owed(ifLabels.end) => Owed(ifLabels.end)'
             /\ ifLabels.end \notin Defs => ifLabels'.end \notin Defs'
  BY <1>1, <1>2, <1>5 DEF Owed
<1>10. \A k \in DOMAIN stack : IfFrame(k) => Ifs
  BY DEF ErrorInv, BuffersInv
<1>11. OneIf => OneIf'
  BY <1>1, <1>3, <1>9, <1>10 DEF OneIf
<1>12. Dropped => Dropped'
  BY <1>1, <1>3, <1>6, <1>9 DEF Dropped
<1> QED
  BY <1>1, <1>7, <1>8, <1>11, <1>12 DEF ErrorInv

LEMMA AfterErrors ==
  ASSUME IInv, ErrorInv, status = "running", stack # <<>>, pc \in {"block", "return"},
         entry' \in Tokens, found' \in BOOLEAN, input' \in Seq(Tokens),
         AfterBody
  PROVE  ErrorInv'
<1>1. CASE Frame.kind = "while" /\ FinishLoop /\ Goto("return")
  BY <1>1, FinishLoopErrors
<1>2. CASE /\ Frame.kind = "if" /\ Frame.phase = "then"
           /\ Goto("else?") /\ UNCHANGED <<genVars, stack>>
  <2>1. Quiet
    BY <1>2 DEF Goto, Quiet, IInv, TypeOK, Places, Inside
  <2> QED
    BY <2>1, QuietErrors
<1>3. CASE /\ Frame.kind = "if" /\ Frame.phase = "else"
           /\ FinishIf(TRUE) /\ Goto("return")
  <2>1. /\ pc' = "return" /\ status' = status /\ reported' = reported
        /\ code' = Append(code, Def(ifLabels.end))
        /\ stack' = Pop /\ counter' = counter
        /\ whileLabels' = whileLabels /\ ifLabels' = ifLabels
    BY <1>3 DEF FinishIf, Goto
  <2>2. ifLabels.end \in Nat
    BY Numbers
  <2> QED
    BY <1>3, <2>1, <2>2, FinishIfErrors
<1> QED
  BY <1>1, <1>2, <1>3 DEF AfterBody

LEMMA EndsErrors ==
  ASSUME IInv, ErrorInv, BlockEnd \/ Return
  PROVE  ErrorInv'
<1>1. CASE BlockEnd
  <2>1. status = "running" /\ pc = "block" /\ stack # <<>>
    BY <1>1 DEF BlockEnd, Running, IInv, TypeOK
  <2>2. CASE Fail
    BY <2>1, <2>2, EndingErrors
  <2>3. CASE Match("rcurly") /\ AfterBody
    <3>1. entry' \in Tokens /\ found' \in BOOLEAN /\ input' \in Seq(Tokens)
      BY <2>3, Matched DEF IInv, Tokens
    <3> QED
      BY <2>1, <2>3, <3>1, AfterErrors
  <2> QED
    BY <1>1, <2>2, <2>3 DEF BlockEnd
<1>2. CASE Return
  <2>1. /\ status = "running" /\ pc = "return"
        /\ entry' \in Tokens /\ found' \in BOOLEAN /\ input' \in Seq(Tokens)
    BY <1>2 DEF Return, Running, IInv, TypeOK, parserVars
  <2>2. CASE stack = <<>> /\ Goto("start") /\ UNCHANGED <<genVars, stack>>
    <3>1. Quiet
      BY <2>1, <2>2 DEF Goto, Quiet, IInv, TypeOK, Places, Inside
    <3> QED
      BY <3>1, QuietErrors
  <2>3. CASE /\ stack # <<>> /\ Frame.block
             /\ Goto("block") /\ UNCHANGED <<genVars, stack>>
    <3>1. Quiet
      BY <2>1, <2>3 DEF Goto, Quiet, IInv, TypeOK, Places, Inside
    <3> QED
      BY <3>1, QuietErrors
  <2>4. CASE stack # <<>> /\ ~Frame.block /\ AfterBody
    BY <2>1, <2>4, AfterErrors
  <2> QED
    BY <1>2, <2>2, <2>3, <2>4 DEF Return
<1> QED
  BY <1>1, <1>2

LEMMA ElseErrors ==
  ASSUME IInv, ErrorInv, Else
  PROVE  ErrorInv'
<1>1. /\ status = "running" /\ pc = "else?" /\ stack # <<>>
      /\ stack \in Seq(Frames)
      /\ code' = code \o <<Jump(ifLabels.end), Def(ifLabels.false)>>
      /\ counter' = counter /\ whileLabels' = whileLabels /\ ifLabels' = ifLabels
  BY DEF Else, StartElse, Running, IInv, TypeOK
<1>2. /\ Len(stack) \in DOMAIN stack /\ Frame = stack[Len(stack)]
      /\ Frame.phase = "then" /\ Frame.kind = "if"
  <2>1. Len(stack) \in DOMAIN stack /\ stack[Len(stack)] \in Frames
    BY <1>1, TopFrame
  <2>2. Frame.phase = "then" /\ Frame.kind # "while"
    BY <1>1, <2>1 DEF IInv, PhasesInv, Frame
  <2> QED
    BY <2>1, <2>2 DEF Frame, Frames
<1>3. /\ Ifs
      /\ reported => Lost
      /\ Lost \/ (OneIf /\ \A k \in DOMAIN stack : IfFrame(k) => k = Len(stack))
  BY <1>1, <1>2, InnerIf
<1>4. /\ Defs' = Defs \union {ifLabels.false}
      /\ Aims' = Aims \union {ifLabels.end}
  <2>1. Defs \subseteq 0..counter - 1 /\ code \in Seq(Ops) /\ counter \in Nat
    BY Numbers DEF ErrorInv, BuffersInv
  <2>2. SP!Defined(code) \subseteq 0..counter - 1
    BY <2>1 DEF Defs
  <2>3. \A j, l \in Nat :
          LET c == code \o <<Jump(j), Def(l)>>
          IN /\ SP!Defined(c) = SP!Defined(code) \union {l}
             /\ SP!Targets(c) = SP!Targets(code) \union {j}
    BY <2>1, <2>2, SetsOfCode
  <2> QED
    BY <1>1, <2>3, Numbers DEF Defs, Aims
<1>5. ifLabels.false \in 0..counter - 1 /\ ifLabels.end # ifLabels.false
  BY <1>3, Numbers DEF ErrorInv, BuffersInv, Ifs
<1>6. (Loops' <=> Loops) /\ (Ifs' <=> Ifs)
  BY <1>1 DEF Loops, Ifs
<1>7. CASE status' = "failed" /\ reported' = TRUE /\ UNCHANGED <<parserVars, stack, pc>>
  <2>1. BuffersInv'
    BY <1>1, <1>4, <1>5, <1>6, <1>7 DEF ErrorInv, BuffersInv, IfFrame
  <2> QED
    BY <1>7, <2>1 DEF ErrorInv
<1>8. CASE /\ Match("else")
           /\ stack' = [stack EXCEPT ![Len(stack)].phase = "else"]
           /\ Goto(IF Frame.block THEN "elseBlock" ELSE "command")
  <2>1. /\ pc' \in {"elseBlock", "command"}
        /\ status' = status /\ reported' = reported
    BY <1>8 DEF Goto
  <2>2. /\ DOMAIN stack' = DOMAIN stack
        /\ \A k \in DOMAIN stack : k # Len(stack) => stack'[k] = stack[k]
        /\ stack'[Len(stack)].kind = "if" /\ stack'[Len(stack)].phase = "else"
    BY <1>1, <1>2, <1>8, PhasedFrame, ZenonT(40) DEF Phases
  <2>3. \A k \in DOMAIN stack : IfFrame(k)' <=> IfFrame(k)
    BY <1>2, <2>2 DEF IfFrame
  <2>4. BuffersInv'
    BY <1>1, <1>4, <1>5, <1>6, <2>1, <2>2, <2>3 DEF ErrorInv, BuffersInv
  <2>5. Lost => Lost'
    <3>1. Onward
      BY <1>1, <1>4, Numbers DEF Onward
    <3> QED
      BY <3>1, LostStays
  <2>6. ASSUME ~Lost
        PROVE  OneIf'
    <3>1. OneIf /\ \A k \in DOMAIN stack : IfFrame(k) => k = Len(stack)
      BY <1>3, <2>6
    <3>2. ifLabels.end \notin Defs
      BY <1>2, <3>1 DEF OneIf, IfFrame
    <3>3. Owed(ifLabels.end)'
      BY <1>1, <1>4, <1>5, <3>2 DEF Owed
    <3>4. \A k \in DOMAIN stack' : IfFrame(k)' => k = Len(stack)
      BY <2>2, <2>3, <3>1
    <3> QED
      BY <2>2, <3>3, <3>4 DEF OneIf
  <2> QED
    BY <1>3, <2>1, <2>4, <2>5, <2>6 DEF ErrorInv
<1> QED
  BY <1>7, <1>8 DEF Else

LEMMA NoElseErrors ==
  ASSUME IInv, ErrorInv, NoElse
  PROVE  ErrorInv'
<1>1. /\ status = "running" /\ pc = "else?" /\ stack # <<>>
      /\ stack \in Seq(Frames) /\ ifLabels.false \in Nat
      /\ code' = Append(code, Def(ifLabels.false)) /\ stack' = Pop
      /\ pc' = "return" /\ status' = status /\ reported' = reported
      /\ counter' = counter /\ whileLabels' = whileLabels
      /\ ifLabels' = ifLabels
  BY DEF NoElse, FinishIf, Goto, Running, IInv, TypeOK
<1>2. Frame.kind = "if"
  <2>1. Len(stack) \in DOMAIN stack /\ stack[Len(stack)] \in Frames
    BY <1>1, TopFrame
  <2>2. Frame.kind # "while"
    BY <1>1, <2>1 DEF IInv, PhasesInv, Frame
  <2> QED
    BY <2>1, <2>2 DEF Frame, Frames
<1> QED
  BY <1>1, <1>2, FinishIfErrors

LEMMA MovesErrors ==
  ASSUME IInv, ErrorInv,
         \/ StartCommand \/ StartDeclaration \/ StartEnd \/ IfCommand
         \/ UnreachableCommand \/ BodyCommand \/ BlockCommand \/ ElseBlock
  PROVE  ErrorInv'
BY MovesQuietly, QuietErrors

LEMMA StutterErrors ==
  ASSUME ErrorInv, UNCHANGED vars
  PROVE  ErrorInv'
<1>1. /\ UNCHANGED <<stack, pc, status, reported>>
      /\ UNCHANGED <<counter, whileLabels, ifLabels, code>>
  BY DEF vars, parserVars, genVars, controlVars
<1>2. Aims' = Aims /\ Defs' = Defs
  BY <1>1 DEF Aims, Defs
<1>3. (BuffersInv' <=> BuffersInv) /\ (Lost' <=> Lost)
  BY <1>1, <1>2 DEF BuffersInv, Lost, Owed, Loops, Ifs, IfFrame, Frame
<1>4. (OneIf' <=> OneIf) /\ (Dropped' <=> Dropped)
  BY <1>1, <1>2 DEF OneIf, Dropped, Owed, Ifs, IfFrame
<1> QED
  BY <1>1, <1>3, <1>4 DEF ErrorInv

-----------------------------------------------------------------------------
LEMMA ErrorInvHolds == Init => ErrorInv
<1> SUFFICES ASSUME Init
             PROVE  ErrorInv
  OBVIOUS
<1>1. /\ stack = <<>> /\ DOMAIN stack = {} /\ code = <<>> /\ ~reported
      /\ pc = "start" /\ ~Loops /\ ~Ifs
  BY DEF Init, Loops, Ifs
<1>2. Defs = {}
  BY <1>1 DEF Defs, SP!Defined
<1> QED
  BY <1>1, <1>2 DEF ErrorInv, BuffersInv, OneIf

LEMMA ErrorInvKept == IInv /\ ErrorInv /\ [Next]_vars => ErrorInv'
<1> SUFFICES ASSUME IInv, ErrorInv, [Next]_vars
             PROVE  ErrorInv'
  OBVIOUS
<1>1. CASE Next
  BY <1>1, MovesErrors, SimpleErrors, WhileErrors, IfErrors, ConditionErrors,
     BlockErrors, BodyErrors, EndsErrors, ElseErrors, NoElseErrors, StutterErrors
     DEF Next, Done
<1>2. CASE UNCHANGED vars
  BY <1>2, StutterErrors
<1> QED
  BY <1>1, <1>2

LEMMA LostLabels == ErrorInv /\ status # "failed" /\ reported => ~LabelsValid
<1> SUFFICES ASSUME ErrorInv, status # "failed", reported, LabelsValid
             PROVE  FALSE
  OBVIOUS
<1>1. \E l : Owed(l)
  BY DEF ErrorInv, Lost, Dropped
<1>2. Aims \subseteq Defs
  <2> SUFFICES ASSUME NEW i \in DOMAIN code, code[i].op = "jump"
               PROVE  code[i].label \in SP!Defined(code)
    BY DEF Aims, Defs, SP!Targets
  <2>1. PICK j \in DOMAIN code : code[j] = Structured!Def(code[i].label)
    BY DEF LabelsValid, Structured!JumpsResolved
  <2> QED
    BY <2>1 DEF Structured!Def, SP!Defined
<1> QED
  BY <1>1, <1>2 DEF Owed

(* A program whose error was printed and forgotten jumps to a label that   *)
(* is not defined, whatever comes after the error: nasm rejects it.        *)
THEOREM ErrorsLoseLabels == Spec => [](Accepted \/ status # "ok" \/ ~LabelsValid)
<1>1. IInv /\ ErrorInv => Accepted \/ status # "ok" \/ ~LabelsValid
  BY LostLabels DEF Accepted, IInv, TypeOK
<1> QED
  BY <1>1, InitHolds, StepKeeps, ErrorInvHolds, ErrorInvKept, PTL DEF Spec

-----------------------------------------------------------------------------
(***************************************************************************)
(* The third part: an accepted program is a sentence of the grammar in     *)
(* Statements, whatever its length.  The invariant divides what has been   *)
(* read among the frames of the stack.  First numbers, without a theorem   *)
(* of induction: of the numbers that break a property one is the smallest. *)
(***************************************************************************)
LessThan == {ss \in Nat \X Nat : ss[1] < ss[2]}

(* Of some numbers one is the smallest.                                    *)
LEMMA Smallest ==
  ASSUME NEW T, T \subseteq Nat, T # {}
  PROVE  \E x \in T : \A y \in T : x <= y
<1>1. IsWellFoundedOn(LessThan, Nat)
  BY NatLessThanWellFounded DEF OpToRel, LessThan
<1>2. \E x \in T : \A y \in T : ~ (<<y, x>> \in LessThan)
  BY <1>1, WFMin
<1>3. PICK x \in T : \A y \in T : ~ (<<y, x>> \in LessThan)
  BY <1>2
<1>4. ASSUME NEW y \in T PROVE x <= y
  <2>1. x \in Nat /\ y \in Nat /\ <<y, x>> \notin LessThan
    BY <1>3
  <2>2. ~(y < x)
    BY <2>1 DEF LessThan
  <2> QED
    BY <2>1, <2>2
<1> QED
  BY <1>4

(* A set of numbers with 0 and, up to n, the next of each of its own.      *)
LEMMA Counting ==
  ASSUME NEW n \in Nat, NEW T, 0 \in T,
         \A i \in 1..n : i - 1 \in T => i \in T
  PROVE  0..n \subseteq T
<1> SUFFICES ASSUME ~(0..n \subseteq T) PROVE FALSE
  OBVIOUS
<1> DEFINE U == {i \in 0..n : i \notin T}
<1>1. U \subseteq Nat /\ U # {}
  OBVIOUS
<1>2. PICK x \in U : \A y \in U : x <= y
  BY <1>1, Smallest
<1>3. x \in 1..n /\ x \notin T
  OBVIOUS
<1>4. x - 1 \in 0..n /\ ~(x <= x - 1)
  BY <1>3
<1>5. x - 1 \in T
  BY <1>2, <1>4
<1> QED
  BY <1>3, <1>5

-----------------------------------------------------------------------------
(* The levels of the grammar.  Its definition is recursive: that there is  *)
(* such a function is shown by way of its beginnings.                      *)

(* A level more, and the levels of the grammar up to the mth.              *)
Grown(g, n) == Append(g, Level(g, n))
UpTo(f, m) ==
  f = [i \in 0..m |-> IF i = 0 THEN <<Empty>>
                      ELSE Grown(f[i - 1], i)]

(* There are levels up to any number, ...                                  *)
LEMMA UpToExists ==
  ASSUME NEW n \in Nat
  PROVE  \E f : UpTo(f, n)
<1> DEFINE T == {m \in 0..n : \E f : UpTo(f, m)}
<1>1. 0 \in T
  <2> DEFINE f == [i \in 0..0 |-> <<Empty>>]
  <2>1. UpTo(f, 0)
    BY DEF UpTo
  <2> QED
    BY <2>1
<1>2. ASSUME NEW m \in 1..n, m - 1 \in T PROVE m \in T
  <2>1. PICK f : UpTo(f, m - 1)
    BY <1>2
  <2> DEFINE new == Grown(f[m - 1], m)
  <2> HIDE DEF new
  <2> DEFINE g == [i \in 0..m |-> IF i = m THEN new ELSE f[i]]
  <2>2. DOMAIN g = 0..m /\ g[m] = new /\ \A i \in 0..m - 1 : g[i] = f[i]
    OBVIOUS
  <2>3. /\ f[0] = <<Empty>>
        /\ \A i \in 1..m - 1 : f[i] = Grown(f[i - 1], i)
    BY <2>1 DEF UpTo
  <2>4. g = [i \in 0..m |-> g[i]]
    OBVIOUS
  <2> HIDE DEF g
  <2>5. ASSUME NEW i \in 0..m
        PROVE  g[i] = IF i = 0 THEN <<Empty>>
                      ELSE Grown(g[i - 1], i)
    <3>1. CASE i = 0
      BY <2>2, <2>3, <3>1
    <3>2. CASE i # 0 /\ i # m
      <4>1. i \in 1..m - 1 /\ i - 1 \in 0..m - 1 /\ i \in 0..m - 1
        BY <3>2
      <4> QED
        BY <2>2, <2>3, <3>2, <4>1
    <3>3. CASE i = m
      <4>1. m - 1 \in 0..m - 1 /\ m # 0
        OBVIOUS
      <4> QED
        BY <2>2, <3>3, <4>1 DEF new
    <3> QED
      BY <3>1, <3>2, <3>3
  <2>6. UpTo(g, m)
    BY <2>4, <2>5 DEF UpTo
  <2> QED
    BY <2>6
<1> HIDE DEF T
<1>3. 0..n \subseteq T
  BY <1>1, <1>2, Counting
<1>4. n \in T
  BY <1>3
<1> QED
  BY <1>4 DEF T

(* ...all longer tables agree with them, ...                               *)
LEMMA UpToUnique ==
  ASSUME NEW n \in Nat, NEW m \in Nat, n <= m, NEW f, NEW g, UpTo(f, n), UpTo(g, m)
  PROVE  f[n] = g[n]
<1> DEFINE T == {i \in 0..n : f[i] = g[i]}
<1>1. /\ f[0] = <<Empty>> /\ g[0] = <<Empty>>
      /\ \A i \in 1..n : f[i] = Grown(f[i - 1], i)
      /\ \A i \in 1..n : g[i] = Grown(g[i - 1], i)
  BY DEF UpTo
<1>2. 0 \in T
  BY <1>1
<1>3. ASSUME NEW i \in 1..n, i - 1 \in T PROVE i \in T
  <2>1. f[i - 1] = g[i - 1]
    BY <1>3
  <2> QED
    BY <1>1, <2>1
<1> HIDE DEF T
<1>4. 0..n \subseteq T
  BY <1>2, <1>3, Counting
<1>5. n \in T
  BY <1>4
<1> QED
  BY <1>5 DEF T

(* ...and so Levels is what its definition says.                           *)
LEMMA LevelsAre ==
  /\ Levels[0] = <<Empty>>
  /\ \A n \in Nat \ {0} :
       Levels[n] = Append(Levels[n - 1], Level(Levels[n - 1], n))
<1> DEFINE Upto(n) == CHOOSE f : UpTo(f, n)
           f == [n \in Nat |-> Upto(n)[n]]
           NextOf(g, n) == Grown(g[n - 1], n)
           Solution(g) == g = [n \in Nat |-> IF n = 0 THEN <<Empty>> ELSE NextOf(g, n)]
<1>1. \A n \in Nat : UpTo(Upto(n), n)
  BY UpToExists
<1> HIDE DEF Upto
<1>2. f[0] = <<Empty>>
  BY <1>1 DEF UpTo
<1>3. ASSUME NEW n \in Nat \ {0}
      PROVE  f[n] = NextOf(f, n)
  <2>1. n - 1 \in Nat /\ n - 1 <= n /\ n \in Nat
    OBVIOUS
  <2>2. UpTo(Upto(n), n) /\ UpTo(Upto(n - 1), n - 1)
    BY <1>1, <2>1
  <2>3. Upto(n - 1)[n - 1] = Upto(n)[n - 1]
    BY <2>1, <2>2, UpToUnique
  <2>4. Upto(n)[n] = Grown(Upto(n)[n - 1], n)
    BY <2>1, <2>2 DEF UpTo
  <2>5. f[n] = Upto(n)[n] /\ f[n - 1] = Upto(n - 1)[n - 1]
    BY <2>1
  <2> HIDE DEF f
  <2> QED
    BY <2>3, <2>4, <2>5
<1>4. \A n \in Nat : f[n] = IF n = 0 THEN <<Empty>> ELSE NextOf(f, n)
  BY <1>2, <1>3
<1>5. f = [n \in Nat |-> f[n]]
  OBVIOUS
<1> HIDE DEF f, NextOf
<1>6. Solution(f)
  BY <1>4, <1>5
<1>7. Solution(CHOOSE g : Solution(g))
  BY <1>6, Zenon
<1>8. Levels = CHOOSE g : Solution(g)
  BY Zenon DEF Levels, NextOf, Grown
<1>9. Solution(Levels)
  BY <1>7, <1>8
<1>10. \A n \in Nat : Levels[n] = IF n = 0 THEN <<Empty>> ELSE NextOf(Levels, n)
  BY <1>9
<1>11. Levels[0] = <<Empty>>
  BY <1>10
<1>12. \A n \in Nat \ {0} : Levels[n] = NextOf(Levels, n)
  BY <1>10
<1> QED
  BY <1>11, <1>12 DEF NextOf, Grown

(* What of a kind has n tokens.                                            *)
Of(kind, n) == Levels[n][n + 1][kind]
(* A sequence of tokens is of a kind.                                      *)
Is(kind, s) == s \in Seq(Tokens) /\ s \in Of(kind, Len(s))

(* Two sentences after each other are in the concatenation of their sets.  *)
LEMMA Concatenated ==
  ASSUME NEW A, NEW B
  PROVE  \A a \in A, b \in B : a \o b \in Concat(A, B)
<1>1. ASSUME NEW a \in A, NEW b \in B PROVE a \o b \in Concat(A, B)
  <2>1. <<a, b>> \in A \X B /\ a \o b = <<a, b>>[1] \o <<a, b>>[2]
    OBVIOUS
  <2> QED
    BY <2>1 DEF Concat
<1> QED
  BY <1>1

(* A level, once there, stays in the tables of the later ones, ...         *)
LEMMA LevelsStay ==
  ASSUME NEW n \in Nat
  PROVE  /\ \E S : Levels[n] \in Seq(S)
         /\ Len(Levels[n]) = n + 1
         /\ \A k \in 0..n : Levels[n][k + 1] = Levels[k][k + 1]
<1> DEFINE P(m) == /\ \E S : Levels[m] \in Seq(S)
                   /\ Len(Levels[m]) = m + 1
                   /\ \A k \in 0..m : Levels[m][k + 1] = Levels[k][k + 1]
           T == {m \in 0..n : P(m)}
<1>1. 0 \in T
  <2>1. Levels[0] = <<Empty>>
    BY LevelsAre
  <2>2. Levels[0] \in Seq({Empty}) /\ Len(Levels[0]) = 1
    BY <2>1
  <2> QED
    BY <2>2
<1>2. ASSUME NEW m \in 1..n, m - 1 \in T PROVE m \in T
  <2> DEFINE g == Levels[m - 1]
             x == Level(g, m)
  <2>1. P(m - 1)
    BY <1>2
  <2>2. PICK S : g \in Seq(S)
    BY <2>1
  <2>3. Levels[m] = Append(g, x)
    <3>1. m \in Nat \ {0}
      OBVIOUS
    <3> QED
      BY <3>1, LevelsAre, Zenon
  <2>4. Len(g) = m /\ \A k \in 0..m - 1 : g[k + 1] = Levels[k][k + 1]
    BY <2>1
  <2> HIDE DEF g, x, P
  <2>5. g \in Seq(S \union {x}) /\ x \in S \union {x}
    BY <2>2
  <2>6. /\ Append(g, x) \in Seq(S \union {x}) /\ Len(Append(g, x)) = m + 1
        /\ \A i \in 1..m : Append(g, x)[i] = g[i]
    BY <2>4, <2>5
  <2>7. ASSUME NEW k \in 0..m PROVE Levels[m][k + 1] = Levels[k][k + 1]
    <3>1. CASE k = m
      BY <3>1
    <3>2. CASE k \in 0..m - 1
      <4>1. k + 1 \in 1..m
        BY <3>2
      <4> QED
        BY <2>3, <2>4, <2>6, <3>2, <4>1
    <3> QED
      BY <3>1, <3>2
  <2>8. P(m)
    BY <2>3, <2>6, <2>7 DEF P
  <2> QED
    BY <2>8
<1> HIDE DEF T
<1>3. 0..n \subseteq T
  BY <1>1, <1>2, Counting
<1>4. n \in T
  BY <1>3
<1> QED
  BY <1>4 DEF T

(* What a production may use for a level: what has fewer tokens.           *)
Fewer(kind, k, n) == IF k \in 0..(n - 1) THEN Of(kind, k) ELSE {}

(* ...and is made of the levels below it.                                  *)
LEMMA LevelIs ==
  ASSUME NEW n \in Nat \ {0}
  PROVE  LET g == Levels[n - 1]
         IN /\ Levels[n][n + 1] = Level(g, n)
            /\ \A kind, k : (IF k \in 0..(n - 1) THEN g[k + 1][kind] ELSE {})
                              = Fewer(kind, k, n)
<1> DEFINE g == Levels[n - 1]
           x == Level(g, n)
<1>1. n - 1 \in Nat
  OBVIOUS
<1>2. \A k \in 0..n - 1 : g[k + 1] = Levels[k][k + 1]
  BY <1>1, LevelsStay
<1>3. \A kind, k : (IF k \in 0..(n - 1) THEN g[k + 1][kind] ELSE {})
                     = Fewer(kind, k, n)
  BY <1>2 DEF Fewer, Of
<1>4. Levels[n] = Append(g, x)
  BY LevelsAre, Zenon
<1> HIDE DEF x
<1>5. (\E S : g \in Seq(S)) /\ Len(g) = (n - 1) + 1
  BY <1>1, LevelsStay, Zenon
<1>6. PICK S : g \in Seq(S)
  BY <1>5
<1> HIDE DEF g, x
<1>7. g \in Seq(S \union {x}) /\ x \in S \union {x}
  BY <1>6
<1>8. Append(g, x)[n + 1] = x
  BY <1>7, <1>5
<1> QED
  BY <1>3, <1>4, <1>8, Zenon DEF g, x

(* Each production of the grammar, read from left to right.                *)
LEMMA Productions ==
  ASSUME NEW n \in Nat \ {0}
  PROVE  /\ n = 1 => {<<"semicolon">>, <<"simple">>} \subseteq Of("command", n)
         /\ \A body \in Bodies : \A b \in Fewer(body, n - 2, n) :
              /\ <<"while", "paren">> \o b \in Of("command", n)
              /\ <<"if", "paren">> \o b \in Of("command", n)
         /\ \A body \in Bodies : \A k \in 1..n :
              \A b \in Fewer(body, k, n), d \in Fewer(body, n - 3 - k, n) :
                (<<"if", "paren">> \o b) \o (<<"else">> \o d) \in Of("command", n)
         /\ \A b \in Fewer("commands", n - 2, n) :
              <<"lcurly">> \o (b \o <<"rcurly">>) \in Of("block", n)
         /\ \A k \in 1..n : \A c \in Of("command", k) :
              /\ \A b \in Fewer("commands", n - k, n) : b \o c \in Of("commands", n)
              /\ \A b \in Fewer("programs", n - k, n) : b \o c \in Of("programs", n)
         /\ \A b \in Fewer("programs", n - 1, n) : b \o <<"decl">> \in Of("programs", n)
<1> DEFINE g == Levels[n - 1]
           O(kind, k) == IF k \in 0..(n - 1) THEN g[k + 1][kind] ELSE {}
           simple == IF n = 1 THEN {<<"semicolon">>, <<"simple">>} ELSE {}
           loops == UNION {Concat({<<"while", "paren">>}, O(body, n - 2)) :
                             body \in Bodies}
           ifs == UNION {Concat({<<"if", "paren">>}, O(body, n - 2)) : body \in Bodies}
           IfElses(body) == UNION {Concat(Concat({<<"if", "paren">>}, O(body, k)),
                                          Concat({<<"else">>}, O(body, n - 3 - k))) :
                                     k \in 1..n}
           ifElses == UNION {IfElses(body) : body \in Bodies}
           command == simple \union loops \union ifs \union ifElses
           Last(k) == IF k = n THEN command ELSE O("command", k)
           block == Concat({<<"lcurly">>},
                           Concat(O("commands", n - 2), {<<"rcurly">>}))
           commands == UNION {Concat(O("commands", n - k), Last(k)) : k \in 1..n}
           longer == UNION {Concat(O("programs", n - k), Last(k)) : k \in 1..n}
           declared == Concat(O("programs", n - 1), {<<"decl">>})
           programs == declared \union longer
<1>1. \A kind, k : O(kind, k) = Fewer(kind, k, n)
  BY LevelIs, Zenon
<1>2. Levels[n][n + 1] = [command |-> command, block |-> block,
                          commands |-> commands, programs |-> programs]
  <2>1. Level(g, n) = [command |-> command, block |-> block,
                       commands |-> commands, programs |-> programs]
    BY Zenon DEF Level
  <2> HIDE DEF g, command, block, commands, programs
  <2>2. Levels[n][n + 1] = Level(g, n)
    BY LevelIs, Zenon DEF g
  <2> QED
    BY <2>1, <2>2
<1> HIDE DEF O
<1>3. /\ Of("command", n) = command /\ Of("block", n) = block
      /\ Of("commands", n) = commands /\ Of("programs", n) = programs
  <2> HIDE DEF command, block, commands, programs
  <2> QED
    BY <1>2 DEF Of
<1>4. ASSUME NEW body \in Bodies, NEW b \in Fewer(body, n - 2, n)
      PROVE  /\ <<"while", "paren">> \o b \in Of("command", n)
             /\ <<"if", "paren">> \o b \in Of("command", n)
  <2>1. b \in O(body, n - 2)
    BY <1>1
  <2>2. /\ <<"while", "paren">> \o b \in Concat({<<"while", "paren">>}, O(body, n - 2))
        /\ <<"if", "paren">> \o b \in Concat({<<"if", "paren">>}, O(body, n - 2))
    BY <2>1, Concatenated
  <2>3. <<"while", "paren">> \o b \in loops /\ <<"if", "paren">> \o b \in ifs
    BY <2>2, Zenon
  <2> HIDE DEF simple, loops, ifs, ifElses
  <2> QED
    BY <1>3, <2>3
<1>5. ASSUME NEW body \in Bodies, NEW k \in 1..n,
             NEW b \in Fewer(body, k, n), NEW d \in Fewer(body, n - 3 - k, n)
      PROVE  (<<"if", "paren">> \o b) \o (<<"else">> \o d) \in Of("command", n)
  <2> DEFINE A == Concat({<<"if", "paren">>}, O(body, k))
             B == Concat({<<"else">>}, O(body, n - 3 - k))
             s == (<<"if", "paren">> \o b) \o (<<"else">> \o d)
  <2>1. b \in O(body, k) /\ d \in O(body, n - 3 - k)
    BY <1>1
  <2>2. <<"if", "paren">> \o b \in A /\ <<"else">> \o d \in B
    BY <2>1, Concatenated
  <2>3. s \in Concat(A, B)
    <3> HIDE DEF A, B
    <3> QED
      BY <2>2, Concatenated
  <2> HIDE DEF s
  <2>4. s \in ifElses
    <3> HIDE DEF A, B
    <3>1. s \in IfElses(body)
      BY <2>3, Zenon DEF A, B
    <3> HIDE DEF IfElses
    <3> QED
      BY <3>1, Zenon
  <2> HIDE DEF simple, loops, ifs, ifElses
  <2>5. s \in Of("command", n)
    BY <1>3, <2>4
  <2> QED
    BY <2>5 DEF s
<1>6. ASSUME NEW b \in Fewer("commands", n - 2, n)
      PROVE  <<"lcurly">> \o (b \o <<"rcurly">>) \in Of("block", n)
  <2>1. b \in O("commands", n - 2)
    BY <1>1
  <2>2. b \o <<"rcurly">> \in Concat(O("commands", n - 2), {<<"rcurly">>})
    BY <2>1, Concatenated
  <2>3. <<"lcurly">> \o (b \o <<"rcurly">>) \in block
    BY <2>2, Concatenated
  <2> HIDE DEF block
  <2> QED
    BY <1>3, <2>3
<1>7. ASSUME NEW k \in 1..n, NEW c \in Of("command", k)
      PROVE  /\ \A b \in Fewer("commands", n - k, n) : b \o c \in Of("commands", n)
             /\ \A b \in Fewer("programs", n - k, n) : b \o c \in Of("programs", n)
  <2>1. c \in Last(k)
    <3> HIDE DEF command
    <3>1. CASE k = n
      BY <1>3, <3>1
    <3>2. CASE k # n
      <4>1. k \in 0..n - 1
        BY <3>2
      <4>2. c \in Fewer("command", k, n)
        BY <4>1 DEF Fewer
      <4> QED
        BY <1>1, <3>2, <4>2
    <3> QED
      BY <3>1, <3>2
  <2> HIDE DEF Last
  <2>2. ASSUME NEW b \in Fewer("commands", n - k, n) PROVE b \o c \in Of("commands", n)
    <3>1. b \o c \in Concat(O("commands", n - k), Last(k))
      BY <1>1, <2>1, Concatenated
    <3>2. b \o c \in commands
      BY <3>1, Zenon
    <3> HIDE DEF commands
    <3> QED
      BY <1>3, <3>2
  <2>3. ASSUME NEW b \in Fewer("programs", n - k, n) PROVE b \o c \in Of("programs", n)
    <3>1. b \o c \in Concat(O("programs", n - k), Last(k))
      BY <1>1, <2>1, Concatenated
    <3>2. b \o c \in longer
      BY <3>1, Zenon
    <3> HIDE DEF longer, declared
    <3> QED
      BY <1>3, <3>2
  <2> QED
    BY <2>2, <2>3
<1>8. ASSUME NEW b \in Fewer("programs", n - 1, n)
      PROVE  b \o <<"decl">> \in Of("programs", n)
  <2>1. b \o <<"decl">> \in declared
    BY <1>1, Concatenated
  <2> HIDE DEF longer, declared
  <2> QED
    BY <1>3, <2>1
<1>9. n = 1 => {<<"semicolon">>, <<"simple">>} \subseteq Of("command", n)
  <2> HIDE DEF loops, ifs, ifElses
  <2> QED
    BY <1>3
<1> QED
  BY <1>4, <1>5, <1>6, <1>7, <1>8, <1>9

(* No command and no block is empty; a list of commands may be.            *)
LEMMA NothingShort ==
  /\ \A kind \in {"command", "block"} : Of(kind, 0) = {}
  /\ Is("commands", <<>>) /\ Is("programs", <<>>)
<1>1. Levels[0][0 + 1] = Empty
  BY LevelsAre
<1>2. Of("command", 0) = {} /\ Of("block", 0) = {}
  BY <1>1 DEF Of, Empty
<1>3. <<>> \in Of("commands", 0) /\ <<>> \in Of("programs", 0)
  BY <1>1 DEF Of, Empty
<1>4. <<>> \in Seq(Tokens) /\ Len(<<>>) = 0
  BY EmptySeq
<1> QED
  BY <1>2, <1>3, <1>4 DEF Is

(* A sentence fits into one of n tokens.                                   *)
LEMMA Fits ==
  ASSUME NEW kind, NEW s, Is(kind, s), NEW n \in Nat, Len(s) < n
  PROVE  s \in Fewer(kind, Len(s), n)
<1>1. Len(s) \in 0..n - 1
  BY LenProperties DEF Is
<1> QED
  BY <1>1 DEF Is, Fewer

(* The productions once more, for sentences instead of lengths.            *)
LEMMA IsSimple == Is("command", <<"semicolon">>) /\ Is("command", <<"simple">>)
<1>1. /\ <<"semicolon">> \in Seq(Tokens) /\ <<"simple">> \in Seq(Tokens)
      /\ Len(<<"semicolon">>) = 1 /\ Len(<<"simple">>) = 1
  BY DEF Tokens
<1>2. {<<"semicolon">>, <<"simple">>} \subseteq Of("command", 1)
  BY Productions
<1> QED
  BY <1>1, <1>2 DEF Is

(* Tokens before a sentence, and between two.                              *)
LEMMA Words ==
  /\ \A t \in Tokens : <<t>> \in Seq(Tokens) /\ Len(<<t>>) = 1
  /\ \A t, u \in Tokens : <<t, u>> \in Seq(Tokens) /\ Len(<<t, u>>) = 2
  /\ {"semicolon", "simple", "while", "if", "else", "lcurly", "rcurly", "paren",
      "decl"} \subseteq Tokens
  BY DEF Tokens

(* Concatenation, for tokens.                                              *)
LEMMA Joined ==
  ASSUME NEW s \in Seq(Tokens), NEW t \in Seq(Tokens)
  PROVE  /\ s \o t \in Seq(Tokens) /\ Len(s \o t) = Len(s) + Len(t)
         /\ Len(s) \in Nat /\ Len(t) \in Nat
         /\ \A u \in Seq(Tokens) : (s \o t) \o u = s \o (t \o u)
<1>1. s \o t \in Seq(Tokens) /\ Len(s \o t) = Len(s) + Len(t)
  BY ConcatProperties
<1>2. Len(s) \in Nat /\ Len(t) \in Nat
  BY LenProperties
<1>3. \A u \in Seq(Tokens) : (s \o t) \o u = s \o (t \o u)
  BY ConcatAssociative
<1> QED
  BY <1>1, <1>2, <1>3

LEMMA IsLoop ==
  ASSUME NEW body \in Bodies, NEW b, Is(body, b)
  PROVE  Is("command", <<"while", "paren">> \o b) /\ Is("command", <<"if", "paren">> \o b)
<1> DEFINE n == Len(b) + 2
           w == <<"while", "paren">>
           i == <<"if", "paren">>
<1>1. /\ b \in Seq(Tokens) /\ Len(b) \in Nat
      /\ w \in Seq(Tokens) /\ Len(w) = 2 /\ i \in Seq(Tokens) /\ Len(i) = 2
  BY Words DEF Is
<1>2. b \in Fewer(body, Len(b), n)
  BY <1>1, Fits
<1>3. n \in Nat \ {0} /\ n - 2 = Len(b)
  BY <1>1
<1> HIDE DEF n
<1>4. w \o b \in Of("command", n) /\ i \o b \in Of("command", n)
  BY <1>2, <1>3, Productions
<1> HIDE DEF w, i
<1>5. /\ w \o b \in Seq(Tokens) /\ Len(w \o b) = n
      /\ i \o b \in Seq(Tokens) /\ Len(i \o b) = n
  <2>1. w \o b \in Seq(Tokens) /\ Len(w \o b) = 2 + Len(b)
    BY <1>1, Joined
  <2>2. i \o b \in Seq(Tokens) /\ Len(i \o b) = 2 + Len(b)
    BY <1>1, Joined
  <2> QED
    BY <1>1, <2>1, <2>2 DEF n
<1>6. Is("command", w \o b) /\ Is("command", i \o b)
  BY <1>4, <1>5 DEF Is
<1> QED
  BY <1>6 DEF w, i

LEMMA IsIfElse ==
  ASSUME NEW body \in Bodies, NEW b, NEW d, Is(body, b), Is(body, d)
  PROVE  Is("command", (<<"if", "paren">> \o b) \o (<<"else">> \o d))
<1> DEFINE n == Len(b) + Len(d) + 3
           i == <<"if", "paren">>
           e == <<"else">>
           s == (i \o b) \o (e \o d)
<1>1. /\ b \in Seq(Tokens) /\ Len(b) \in Nat /\ d \in Seq(Tokens) /\ Len(d) \in Nat
      /\ e \in Seq(Tokens) /\ Len(e) = 1 /\ i \in Seq(Tokens) /\ Len(i) = 2
  BY Words DEF Is
<1>2. b \in Fewer(body, Len(b), n) /\ d \in Fewer(body, Len(d), n)
  BY <1>1, Fits
<1>3. Len(b) # 0
  <2> SUFFICES ASSUME Len(b) = 0 PROVE FALSE
    OBVIOUS
  <2>1. b \in Of(body, 0)
    BY DEF Is
  <2> QED
    BY <2>1, NothingShort DEF Bodies
<1>4. n \in Nat \ {0} /\ Len(b) \in 1..n /\ n - 3 - Len(b) = Len(d)
  BY <1>1, <1>3
<1> HIDE DEF n
<1>5. s \in Of("command", n)
  BY <1>2, <1>4, Productions
<1> HIDE DEF i, e
<1>6. i \o b \in Seq(Tokens) /\ e \o d \in Seq(Tokens)
      /\ Len(i \o b) = 2 + Len(b) /\ Len(e \o d) = 1 + Len(d)
  <2>1. i \o b \in Seq(Tokens) /\ Len(i \o b) = 2 + Len(b)
    BY <1>1, Joined
  <2>2. e \o d \in Seq(Tokens) /\ Len(e \o d) = 1 + Len(d)
    BY <1>1, Joined
  <2> QED
    BY <2>1, <2>2
<1>7. s \in Seq(Tokens) /\ Len(s) = n
  <2>1. s \in Seq(Tokens) /\ Len(s) = Len(i \o b) + Len(e \o d)
    BY <1>6, Joined
  <2> HIDE DEF s
  <2> QED
    BY <1>1, <1>6, <2>1 DEF n
<1> HIDE DEF s
<1>8. Is("command", s)
  BY <1>5, <1>7 DEF Is
<1> QED
  BY <1>8 DEF i, e, s

LEMMA IsBlock ==
  ASSUME NEW b, Is("commands", b)
  PROVE  Is("block", <<"lcurly">> \o (b \o <<"rcurly">>))
<1> DEFINE n == Len(b) + 2
           l == <<"lcurly">>
           r == <<"rcurly">>
           s == l \o (b \o r)
<1>1. /\ b \in Seq(Tokens) /\ Len(b) \in Nat
      /\ l \in Seq(Tokens) /\ Len(l) = 1 /\ r \in Seq(Tokens) /\ Len(r) = 1
  BY Words DEF Is
<1>2. b \in Fewer("commands", Len(b), n)
  BY <1>1, Fits
<1>3. n \in Nat \ {0} /\ n - 2 = Len(b)
  BY <1>1
<1> HIDE DEF n
<1>4. s \in Of("block", n)
  BY <1>2, <1>3, Productions
<1> HIDE DEF l, r
<1>5. b \o r \in Seq(Tokens) /\ Len(b \o r) = Len(b) + 1
  <2> HIDE DEF s
  <2>1. b \o r \in Seq(Tokens) /\ Len(b \o r) = Len(b) + Len(r)
    BY <1>1, Joined
  <2> QED
    BY <1>1, <2>1
<1>6. s \in Seq(Tokens) /\ Len(s) = 1 + (Len(b) + 1)
  <2>1. s \in Seq(Tokens) /\ Len(s) = Len(l) + Len(b \o r)
    BY <1>1, <1>5, Joined
  <2> HIDE DEF s
  <2> QED
    BY <1>1, <1>5, <2>1
<1> HIDE DEF s
<1>7. Is("block", s)
  BY <1>1, <1>4, <1>6 DEF Is, n
<1> QED
  BY <1>7 DEF s, l, r

LEMMA IsLonger ==
  ASSUME NEW b, NEW c, Is("command", c)
  PROVE  /\ Is("commands", b) => Is("commands", b \o c)
         /\ Is("programs", b) => Is("programs", b \o c)
<1>1. ASSUME NEW kind \in {"commands", "programs"}, Is(kind, b)
      PROVE  Is(kind, b \o c)
  <2> DEFINE n == Len(b) + Len(c)
  <2>1. b \in Seq(Tokens) /\ Len(b) \in Nat /\ c \in Seq(Tokens) /\ Len(c) \in Nat
    BY <1>1 DEF Is
  <2>2. Len(c) # 0
    <3> SUFFICES ASSUME Len(c) = 0 PROVE FALSE
      OBVIOUS
    <3>1. c \in Of("command", 0)
      BY DEF Is
    <3> QED
      BY <3>1, NothingShort
  <2>3. n \in Nat \ {0} /\ Len(c) \in 1..n /\ n - Len(c) = Len(b) /\ Len(b) < n
    BY <2>1, <2>2
  <2> HIDE DEF n
  <2>4. b \in Fewer(kind, Len(b), n)
    BY <1>1, <2>3, Fits
  <2>5. c \in Of("command", Len(c))
    BY DEF Is
  <2>6. b \o c \in Of(kind, n)
    BY <1>1, <2>3, <2>4, <2>5, Productions
  <2>7. b \o c \in Seq(Tokens) /\ Len(b \o c) = n
    BY <2>1, Joined DEF n
  <2> QED
    BY <2>6, <2>7 DEF Is
<1> QED
  BY <1>1

LEMMA IsDeclared ==
  ASSUME NEW b, Is("programs", b)
  PROVE  Is("programs", b \o <<"decl">>)
<1> DEFINE n == Len(b) + 1
           d == <<"decl">>
<1>1. b \in Seq(Tokens) /\ Len(b) \in Nat /\ d \in Seq(Tokens) /\ Len(d) = 1
  BY Words DEF Is
<1>2. b \in Fewer("programs", Len(b), n)
  BY <1>1, Fits
<1>3. n \in Nat \ {0} /\ n - 1 = Len(b)
  BY <1>1
<1> HIDE DEF n
<1>4. b \o d \in Of("programs", n)
  BY <1>2, <1>3, Productions
<1> HIDE DEF d
<1>5. b \o d \in Seq(Tokens) /\ Len(b \o d) = n
  BY <1>1, Joined, ZenonT(40) DEF n
<1>6. Is("programs", b \o d)
  BY <1>4, <1>5 DEF Is
<1> QED
  BY <1>6 DEF d

-----------------------------------------------------------------------------
(* The innermost frame and those below it.                                 *)
Top(st) == st[Len(st)]
Rest(st) == SubSeq(st, 1, Len(st) - 1)

(* What has been read of a loop or a conditional up to its body (to the    *)
(* body after `else', when it has come so far), and of that body before a  *)
(* command of it.                                                          *)
Body(f) == IF f.block THEN "block" ELSE "command"
Begun(f, s) ==
  /\ s \in Seq(Tokens)
  /\ f.kind = "while" => s = <<"while", "paren">>
  /\ f.kind = "if" /\ f.phase = "then" => s = <<"if", "paren">>
  /\ f.kind = "if" /\ f.phase = "else" =>
       \E b : Is(Body(f), b) /\ s = (<<"if", "paren">> \o b) \o <<"else">>
Opened(f, o) ==
  /\ o \in Seq(Tokens)
  /\ f.block => \E b : Is("commands", b) /\ o = <<"lcurly">> \o b
  /\ ~f.block => o = <<>>
Waits(f, w) == \E s, o : Begun(f, s) /\ Opened(f, o) /\ w = s \o o

(* The tokens x are a program and what the frames of the stack wait with:  *)
(* pre[k] is what was read before a command of frame k.                    *)
Divides(pre, st) ==
  \A k \in 1..Len(st) : \E w : Waits(st[k], w) /\ pre[k] = pre[k - 1] \o w
Below(st, x) ==
  \E pre \in [0..Len(st) -> Seq(Tokens)] :
    Is("programs", pre[0]) /\ Divides(pre, st) /\ pre[Len(st)] = x

(* What a frame waits with are tokens.                                     *)
LEMMA WaitsTyped ==
  ASSUME NEW f, NEW w, Waits(f, w)
  PROVE  w \in Seq(Tokens)
<1>1. PICK s, o : Begun(f, s) /\ Opened(f, o) /\ w = s \o o
  BY DEF Waits
<1>2. s \in Seq(Tokens) /\ o \in Seq(Tokens)
  BY <1>1 DEF Begun, Opened
<1> QED
  BY <1>1, <1>2, Joined

(* Outside of any statement, what was read is a program.                   *)
LEMMA BelowNone == \A x : Is("programs", x) <=> Below(<<>>, x)
<1>1. ASSUME NEW x, Is("programs", x) PROVE Below(<<>>, x)
  <2> DEFINE pre == [k \in 0..0 |-> x]
  <2>1. Len(<<>>) = 0 /\ pre \in [0..0 -> Seq(Tokens)] /\ pre[0] = x
    BY <1>1, EmptySeq DEF Is
  <2> HIDE DEF pre
  <2>2. Divides(pre, <<>>)
    BY <2>1 DEF Divides
  <2> QED
    BY <1>1, <2>1, <2>2 DEF Below
<1>2. ASSUME NEW x, Below(<<>>, x) PROVE Is("programs", x)
  <2>1. Len(<<>>) = 0
    BY EmptySeq
  <2> QED
    BY <1>2, <2>1 DEF Below
<1> QED
  BY <1>1, <1>2

(* What was read before a command are tokens.                              *)
LEMMA BelowTyped ==
  ASSUME NEW st \in Seq(Frames), NEW x, Below(st, x)
  PROVE  x \in Seq(Tokens)
  BY LenProperties DEF Below

(* A frame is put on top, with what was read of it, ...                    *)
LEMMA BelowPut ==
  ASSUME NEW st \in Seq(Frames), st # <<>>, NEW x, NEW w,
         Below(Rest(st), x), Waits(Top(st), w)
  PROVE  Below(st, x \o w)
<1> DEFINE n == Len(st)
           r == Rest(st)
<1>1. n \in Nat \ {0} /\ Len(r) = n - 1 /\ \A k \in 1..n - 1 : r[k] = st[k]
  BY PoppedFrame DEF Rest
<1> HIDE DEF n, r
<1>2. PICK pre \in [0..n - 1 -> Seq(Tokens)] :
        /\ Is("programs", pre[0]) /\ pre[n - 1] = x
        /\ \A k \in 1..n - 1 : \E v : Waits(r[k], v) /\ pre[k] = pre[k - 1] \o v
  BY <1>1 DEF Below, Divides, r
<1>3. w \in Seq(Tokens) /\ x \in Seq(Tokens)
  <2>1. n - 1 \in 0..n - 1
    BY <1>1
  <2> QED
    BY <1>2, <2>1, WaitsTyped
<1>4. x \o w \in Seq(Tokens)
  BY <1>3, Joined
<1> DEFINE y == x \o w
           new == [k \in 0..n |-> IF k = n THEN y ELSE pre[k]]
<1> HIDE DEF y
<1>5. /\ new \in [0..n -> Seq(Tokens)] /\ new[n] = y /\ new[0] = pre[0]
      /\ \A k \in 0..n - 1 : new[k] = pre[k]
  BY <1>1, <1>4 DEF y
<1> HIDE DEF new
<1>6. ASSUME NEW k \in 1..n
      PROVE  \E v : Waits(st[k], v) /\ new[k] = new[k - 1] \o v
  <2>1. CASE k = n
    <3>1. n - 1 \in 0..n - 1
      BY <1>1
    <3>2. new[n - 1] = x /\ new[n] = x \o w
      BY <1>2, <1>5, <3>1 DEF y
    <3>3. Waits(st[n], w)
      BY DEF Top, n
    <3> QED
      BY <2>1, <3>2, <3>3
  <2>2. CASE k # n
    <3>1. k \in 1..n - 1 /\ k \in 0..n - 1 /\ k - 1 \in 0..n - 1
      BY <1>1, <2>2
    <3>2. PICK v : Waits(r[k], v) /\ pre[k] = pre[k - 1] \o v
      BY <1>2, <3>1
    <3>3. r[k] = st[k] /\ new[k] = pre[k] /\ new[k - 1] = pre[k - 1]
      BY <1>1, <1>5, <3>1
    <3> QED
      BY <3>2, <3>3
  <2> QED
    BY <2>1, <2>2
<1>7. Divides(new, st)
  BY <1>6 DEF Divides, n
<1>8. Below(st, y)
  BY <1>2, <1>5, <1>7 DEF Below, n
<1> QED
  BY <1>8 DEF y

(* ...and taken away.                                                      *)
Taken(st, y) ==
  \E x, w : Below(Rest(st), x) /\ Waits(Top(st), w) /\ y = x \o w
LEMMA BelowTake ==
  ASSUME NEW st \in Seq(Frames), st # <<>>, NEW y, Below(st, y)
  PROVE  Taken(st, y)
<1> DEFINE n == Len(st)
           r == Rest(st)
<1>1. n \in Nat \ {0} /\ Len(r) = n - 1 /\ \A k \in 1..n - 1 : r[k] = st[k]
  BY PoppedFrame DEF Rest
<1> HIDE DEF n, r
<1>2. PICK pre \in [0..n -> Seq(Tokens)] :
        /\ Is("programs", pre[0]) /\ pre[n] = y
        /\ \A k \in 1..n : \E v : Waits(st[k], v) /\ pre[k] = pre[k - 1] \o v
  BY <1>1 DEF Below, Divides, n
<1>3. n \in 1..n /\ 0 \in 0..n - 1 /\ n - 1 \in 0..n - 1
  BY <1>1
<1>4. PICK w : Waits(st[n], w) /\ pre[n] = pre[n - 1] \o w
  BY <1>2, <1>3
<1> DEFINE new == [k \in 0..n - 1 |-> pre[k]]
<1>5. /\ new \in [0..n - 1 -> Seq(Tokens)]
      /\ \A k \in 0..n - 1 : new[k] = pre[k]
  BY <1>1
<1> HIDE DEF new
<1>6. ASSUME NEW k \in 1..n - 1
      PROVE  \E v : Waits(r[k], v) /\ new[k] = new[k - 1] \o v
  <2>1. k \in 1..n /\ k \in 0..n - 1 /\ k - 1 \in 0..n - 1
    BY <1>1
  <2>2. PICK v : Waits(st[k], v) /\ pre[k] = pre[k - 1] \o v
    BY <1>2, <2>1
  <2>3. r[k] = st[k] /\ new[k] = pre[k] /\ new[k - 1] = pre[k - 1]
    BY <1>1, <1>5, <2>1
  <2> QED
    BY <2>2, <2>3
<1>7. Divides(new, r)
  BY <1>1, <1>6 DEF Divides
<1>8. new[0] = pre[0] /\ new[n - 1] = pre[n - 1]
  BY <1>3, <1>5
<1>9. Below(r, pre[n - 1])
  BY <1>1, <1>2, <1>5, <1>7, <1>8 DEF Below
<1> QED
  BY <1>2, <1>4, <1>9 DEF n, r, Top, Taken

(* A statement whose last body has been read is a command.                 *)
LEMMA Finishes ==
  ASSUME NEW f \in Frames, NEW s, NEW b, Begun(f, s), Is(Body(f), b),
         f.kind = "if" => f.phase \in {"then", "else"}
  PROVE  Is("command", s \o b)
<1>1. Body(f) \in Bodies
  BY DEF Body, Bodies
<1>2. CASE f.kind = "while"
  BY <1>1, <1>2, IsLoop DEF Begun
<1>3. CASE f.kind = "if" /\ f.phase = "then"
  BY <1>1, <1>3, IsLoop DEF Begun
<1>4. CASE f.kind = "if" /\ f.phase = "else"
  <2> DEFINE i == <<"if", "paren">>
             e == <<"else">>
  <2>1. PICK a : Is(Body(f), a) /\ s = (i \o a) \o e
    BY <1>4 DEF Begun
  <2>2. Is("command", (i \o a) \o (e \o b))
    BY <1>1, <2>1, IsIfElse
  <2>3. i \in Seq(Tokens) /\ e \in Seq(Tokens) /\ a \in Seq(Tokens) /\ b \in Seq(Tokens)
    BY <2>1, Words DEF Is
  <2> HIDE DEF i, e
  <2>4. i \o a \in Seq(Tokens)
    BY <2>3, Joined
  <2>5. ((i \o a) \o e) \o b = (i \o a) \o (e \o b)
    BY <2>3, <2>4, Joined
  <2> QED
    BY <2>1, <2>2, <2>5
<1> QED
  BY <1>2, <1>3, <1>4 DEF Frames

(* The body of the innermost frame has been read, and nothing after it.    *)
BodyRead(st, inp) ==
  \E x, s, b : /\ Below(Rest(st), x) /\ Begun(Top(st), s) /\ Is(Body(Top(st)), b)
               /\ inp = x \o (s \o b)

(* What has been read when the innermost function is at p.                 *)
ReadSoFar(p, st, inp) ==
  /\ p = "start" => Is("programs", inp)
  /\ p = "command" => Below(st, inp)
  /\ p = "return" => \E x, c : Below(st, x) /\ Is("command", c) /\ inp = x \o c
  /\ p = "whileCond" => /\ ~Top(st).block
                        /\ \E x : Below(Rest(st), x) /\ inp = x \o <<"while">>
  /\ p = "ifCond" => \E x : Below(st, x) /\ inp = x \o <<"if">>
  /\ p = "body" => /\ ~Top(st).block /\ Top(st).phase # "else"
                   /\ \E x, s : Below(Rest(st), x) /\ Begun(Top(st), s) /\ inp = x \o s
  /\ p = "block" => Top(st).block /\ Below(st, inp)
  /\ p = "else?" => BodyRead(st, inp)
  /\ p = "elseBlock" =>
       /\ Top(st).block
       /\ \E x, s : Below(Rest(st), x) /\ Begun(Top(st), s) /\ inp = x \o s

(* The source file has at most MaxTokens tokens; after an error no claim is *)
(* made.                                                                   *)
Lengths == Len(input) <= MaxTokens /\ (~found => Len(input) < MaxTokens)
Wrong == reported \/ status \notin {"running", "ok"}
SentenceInv == Lengths /\ (Wrong \/ ReadSoFar(pc, stack, input))

(* A match adds the token to what has been read.                           *)
LEMMA Reads ==
  ASSUME TypeOK, Lengths, NEW tok, Match(tok)
  PROVE  /\ input' = input \o <<tok>> /\ tok \in Tokens /\ tok = entry
         /\ Lengths'
<1>1. /\ ~found /\ entry = tok /\ input' = Append(input, tok)
      /\ found' \in BOOLEAN /\ (~found' => Len(input) + 1 < MaxTokens)
  BY DEF Match, Advance
<1>2. tok \in Tokens /\ input \in Seq(Tokens)
  BY <1>1 DEF TypeOK
<1>3. input' = input \o <<tok>> /\ Len(input') = Len(input) + 1
  BY <1>1, <1>2
<1>4. Len(input) \in Nat /\ MaxTokens \in Nat /\ Len(input) < MaxTokens
  BY <1>1, <1>2, MaxTokensAssumption DEF Lengths
<1>5. Lengths'
  BY <1>1, <1>3, <1>4 DEF Lengths
<1> QED
  BY <1>1, <1>2, <1>3, <1>5

(* A step that reads nothing leaves what was read.                         *)
LEMMA ReadsNothing ==
  ASSUME Lengths, UNCHANGED parserVars
  PROVE  Lengths' /\ input' = input
  BY DEF Lengths, parserVars

(* The stack below its top frame.                                          *)
LEMMA Rests ==
  ASSUME NEW st \in Seq(Frames)
  PROVE  /\ \A f \in Frames : /\ Rest(Append(st, f)) = st /\ Top(Append(st, f)) = f
                              /\ Append(st, f) \in Seq(Frames) /\ Append(st, f) # <<>>
         /\ st # <<>> => Rest(st) \in Seq(Frames) /\ Top(st) \in Frames
<1>1. ASSUME NEW f \in Frames
      PROVE  Rest(Append(st, f)) = st /\ Top(Append(st, f)) = f
  <2> DEFINE t == Append(st, f)
             r == Rest(t)
  <2>1. /\ t \in Seq(Frames) /\ t # <<>> /\ Len(st) \in Nat /\ Len(t) = Len(st) + 1
        /\ \A k \in 1..Len(st) : t[k] = st[k]
        /\ t[Len(st) + 1] = f
    BY PushedFrame
  <2> HIDE DEF t
  <2>2. /\ r \in Seq(Frames) /\ Len(r) = Len(t) - 1
        /\ \A k \in 1..Len(t) - 1 : r[k] = t[k]
    BY <2>1, PoppedFrame DEF Rest
  <2> HIDE DEF r
  <2>3. Len(r) = Len(st) /\ \A k \in 1..Len(r) : r[k] = st[k]
    BY <2>1, <2>2
  <2>4. r = st
    BY <2>2, <2>3, SeqEqual
  <2> QED
    BY <2>1, <2>4 DEF r, t, Top
<1>2. ASSUME st # <<>> PROVE Rest(st) \in Seq(Frames) /\ Top(st) \in Frames
  BY <1>2, PoppedFrame, TopFrame DEF Rest, Top
<1> QED
  BY <1>1, <1>2, PushedFrame

(* A change of the top frame leaves what is below it.                      *)
LEMMA RestKept ==
  ASSUME NEW s \in Seq(Frames), NEW t \in Seq(Frames), s # <<>>, Len(t) = Len(s),
         \A k \in DOMAIN s : k # Len(s) => t[k] = s[k]
  PROVE  t # <<>> /\ Rest(t) = Rest(s)
<1> DEFINE a == Rest(s)
           b == Rest(t)
<1>1. Len(s) \in Nat \ {0} /\ DOMAIN s = 1..Len(s)
  BY TopFrame
<1>2. t # <<>>
  BY <1>1, EmptySeq
<1>3. /\ a \in Seq(Frames) /\ Len(a) = Len(s) - 1
      /\ \A k \in 1..Len(s) - 1 : a[k] = s[k]
  BY PoppedFrame DEF Rest
<1>4. /\ b \in Seq(Frames) /\ Len(b) = Len(s) - 1
      /\ \A k \in 1..Len(s) - 1 : b[k] = t[k]
  BY <1>2, PoppedFrame DEF Rest
<1> HIDE DEF a, b
<1>5. \A k \in 1..Len(a) : b[k] = a[k]
  BY <1>1, <1>3, <1>4
<1>6. b = a
  BY <1>3, <1>4, <1>5, SeqEqual
<1> QED
  BY <1>2, <1>6 DEF a, b

(* The top frame with another phase, and with the brace of a block.        *)
LEMMA TopPhased ==
  ASSUME NEW s \in Seq(Frames), s # <<>>, NEW p \in Phases
  PROVE  LET t == [s EXCEPT ![Len(s)].phase = p]
         IN /\ t \in Seq(Frames) /\ t # <<>> /\ Rest(t) = Rest(s)
            /\ Top(t).kind = Top(s).kind /\ Top(t).phase = p
            /\ Top(t).block = Top(s).block
<1> DEFINE t == [s EXCEPT ![Len(s)].phase = p]
<1>1. /\ t \in Seq(Frames) /\ Len(t) = Len(s)
      /\ \A k \in DOMAIN s : k # Len(s) => t[k] = s[k]
      /\ t[Len(s)] = [s[Len(s)] EXCEPT !.phase = p]
  BY PhasedFrame
<1>2. s[Len(s)] \in Frames
  BY TopFrame
<1> HIDE DEF t
<1>3. t # <<>> /\ Rest(t) = Rest(s)
  BY <1>1, RestKept
<1>4. /\ t[Len(s)].kind = s[Len(s)].kind /\ t[Len(s)].phase = p
      /\ t[Len(s)].block = s[Len(s)].block
  BY <1>1, <1>2 DEF Frames
<1> QED
  BY <1>1, <1>3, <1>4 DEF Top, t

LEMMA TopBlocked ==
  ASSUME NEW s \in Seq(Frames), s # <<>>
  PROVE  LET t == [s EXCEPT ![Len(s)].block = TRUE]
         IN /\ t \in Seq(Frames) /\ t # <<>> /\ Rest(t) = Rest(s)
            /\ Top(t).kind = Top(s).kind /\ Top(t).phase = Top(s).phase
            /\ Top(t).block
<1> DEFINE t == [s EXCEPT ![Len(s)].block = TRUE]
           f == [s[Len(s)] EXCEPT !.block = TRUE]
<1>1. /\ Len(s) \in Nat \ {0} /\ DOMAIN s = 1..Len(s) /\ Len(s) \in DOMAIN s
      /\ s[Len(s)] \in Frames
  BY TopFrame
<1>2. /\ f \in Frames /\ f.kind = s[Len(s)].kind
      /\ f.phase = s[Len(s)].phase /\ f.block
  BY <1>1 DEF Frames
<1>3. /\ t \in Seq(Frames) /\ Len(t) = Len(s)
      /\ \A k \in DOMAIN s : k # Len(s) => t[k] = s[k]
      /\ t[Len(s)] = f
  BY <1>1, <1>2
<1> HIDE DEF t, f
<1>4. t # <<>> /\ Rest(t) = Rest(s)
  BY <1>3, RestKept
<1> QED
  BY <1>2, <1>3, <1>4 DEF Top, t

(* Nothing of a body has been read yet, or the brace of a block.           *)
LEMMA Begins ==
  ASSUME NEW st \in Seq(Frames), st # <<>>, NEW x, NEW s,
         Below(Rest(st), x), Begun(Top(st), s)
  PROVE  /\ ~Top(st).block => Below(st, x \o s)
         /\ Top(st).block => Below(st, (x \o s) \o <<"lcurly">>)
<1> DEFINE l == <<"lcurly">>
<1>1. s \in Seq(Tokens) /\ x \in Seq(Tokens) /\ l \in Seq(Tokens)
  BY Rests, BelowTyped, Words DEF Begun
<1>2. ASSUME ~Top(st).block PROVE Below(st, x \o s)
  <2>1. Opened(Top(st), <<>>) /\ s = s \o <<>>
    BY <1>1, <1>2, EmptySeq, ConcatEmptySeq DEF Opened
  <2>2. Waits(Top(st), s)
    BY <2>1 DEF Waits
  <2> QED
    BY <2>2, BelowPut
<1>3. ASSUME Top(st).block PROVE Below(st, (x \o s) \o l)
  <2>1. l = l \o <<>>
    BY <1>1, ConcatEmptySeq
  <2>2. Opened(Top(st), l)
    BY <1>1, <1>3, <2>1, NothingShort DEF Opened
  <2>3. Waits(Top(st), s \o l)
    BY <2>2 DEF Waits
  <2> HIDE DEF l
  <2>4. (x \o s) \o l = x \o (s \o l)
    BY <1>1, Joined
  <2> QED
    BY <2>3, <2>4, BelowPut
<1> QED
  BY <1>2, <1>3

-----------------------------------------------------------------------------
(* After the block or the command that a frame waits for.                  *)
LEMMA AfterRead ==
  ASSUME IInv, stack # <<>>, AfterBody, pc \in {"block", "return"},
         BodyRead(stack, input')
  PROVE  (~Wrong => ~Wrong') /\ ReadSoFar(pc', stack', input')
<1>1. /\ stack \in Seq(Frames) /\ Frame = Top(stack) /\ Top(stack) \in Frames
      /\ Rest(stack) = Pop
  BY TopFrame DEF IInv, TypeOK, Frame, Top, Rest, Pop
<1>2. UNCHANGED <<status, reported>>
  BY DEF AfterBody, Goto
<1>3. PICK x, s, b : /\ Below(Rest(stack), x) /\ Begun(Top(stack), s)
                     /\ Is(Body(Top(stack)), b) /\ input' = x \o (s \o b)
  BY DEF BodyRead
<1>4. CASE pc' = "return" /\ stack' = Pop
  <2>1. Frame.kind = "if" => Frame.phase \in {"then", "else"}
    <3>1. Len(stack) \in DOMAIN stack
      BY <1>1, TopFrame
    <3> QED
      BY <1>1, <3>1 DEF IInv, PhasesInv, Frame, Frames
  <2>2. Is("command", s \o b)
    BY <1>1, <1>3, <2>1, Finishes
  <2> QED
    BY <1>1, <1>2, <1>3, <1>4, <2>2 DEF ReadSoFar, Wrong
<1>5. CASE pc' = "else?" /\ stack' = stack
  BY <1>2, <1>5 DEF ReadSoFar, Wrong
<1> QED
  BY <1>4, <1>5 DEF AfterBody, FinishLoop, FinishIf, Goto

(* A step of a parser in which nothing is wrong, and what it leads to: one *)
(* lemma for each group of actions.                                        *)
ReadsRight == IInv /\ Lengths /\ ReadSoFar(pc, stack, input) /\ status = "running"
StaysRight == Lengths' /\ (Wrong' \/ ReadSoFar(pc', stack', input'))

LEMMA FailStays ==
  ASSUME Lengths, Fail \/ Unreachable
  PROVE  StaysRight
  BY DEF Fail, Unreachable, StaysRight, Wrong, Lengths, parserVars

LEMMA StartStays ==
  ASSUME ReadsRight, StartCommand \/ StartDeclaration \/ StartEnd
  PROVE  StaysRight
<1>1. CASE StartCommand
  <2>1. pc = "start" /\ pc' = "command" /\ stack = <<>> /\ stack' = stack
    BY <1>1 DEF StartCommand, Running, Goto, ReadsRight, IInv, TypeOK
  <2>2. Below(stack, input)
    BY <2>1, BelowNone DEF ReadsRight, ReadSoFar
  <2>3. Lengths' /\ input' = input
    BY <1>1, ReadsNothing DEF StartCommand, ReadsRight
  <2> QED
    BY <2>1, <2>2, <2>3 DEF StaysRight, ReadSoFar
<1>2. CASE StartDeclaration
  <2>1. CASE Match("decl") /\ UNCHANGED controlVars
    <3>1. Lengths' /\ input' = input \o <<"decl">>
      BY <2>1, Reads DEF ReadsRight, IInv
    <3>2. pc' = "start" /\ pc = "start"
      BY <1>2, <2>1 DEF StartDeclaration, Running, controlVars
    <3>3. Is("programs", input')
      BY <3>1, <3>2, IsDeclared DEF ReadsRight, ReadSoFar
    <3> QED
      BY <3>1, <3>2, <3>3 DEF StaysRight, ReadSoFar
  <2>2. CASE Fail \/ Unreachable
    BY <2>2, FailStays DEF ReadsRight
  <2> QED
    BY <1>2, <2>1, <2>2 DEF StartDeclaration
<1>3. CASE StartEnd
  <2>1. CASE UNCHANGED <<parserVars, stack, pc>>
    BY <2>1, ReadsNothing DEF ReadsRight, StaysRight
  <2>2. CASE Fail
    BY <2>2, FailStays DEF ReadsRight
  <2> QED
    BY <1>3, <2>1, <2>2 DEF StartEnd
<1> QED
  BY <1>1, <1>2, <1>3

LEMMA SimpleStays ==
  ASSUME ReadsRight, SimpleCommand
  PROVE  StaysRight
<1>1. CASE Match(entry) /\ Goto("return") /\ UNCHANGED stack
  <2>1. Lengths' /\ input' = input \o <<entry>>
    BY <1>1, Reads DEF ReadsRight, IInv
  <2>2. Is("command", <<entry>>)
    BY IsSimple DEF SimpleCommand
  <2>3. Below(stack, input)
    BY DEF SimpleCommand, Running, ReadsRight, ReadSoFar
  <2>4. pc' = "return" /\ stack' = stack
    BY <1>1 DEF Goto
  <2> QED
    BY <2>1, <2>2, <2>3, <2>4 DEF StaysRight, ReadSoFar
<1>2. CASE Fail
  BY <1>2, FailStays DEF ReadsRight
<1> QED
  BY <1>1, <1>2 DEF SimpleCommand

LEMMA HeadStays ==
  ASSUME ReadsRight, WhileCommand \/ IfCommand \/ UnreachableCommand
  PROVE  StaysRight
<1>1. CASE Match("while") /\ StartLoop /\ Goto("whileCond") /\ pc = "command"
  <2>1. Lengths' /\ input' = input \o <<"while">>
    BY <1>1, Reads DEF ReadsRight, IInv
  <2> DEFINE f == [kind |-> "while", phase |-> "cond", block |-> FALSE,
                   first |-> counter, second |-> counter + 1]
  <2>2. f \in Frames /\ stack \in Seq(Frames)
    BY DEF ReadsRight, IInv, TypeOK, Frames
  <2>3. stack' = Append(stack, f)
    BY <1>1 DEF StartLoop, Push
  <2>4. ~f.block
    OBVIOUS
  <2> HIDE DEF f
  <2>5. Rest(stack') = stack /\ ~Top(stack').block
    BY <2>2, <2>3, <2>4, Rests
  <2>6. Below(Rest(stack'), input)
    BY <1>1, <2>5 DEF ReadsRight, ReadSoFar
  <2>7. pc' = "whileCond"
    BY <1>1 DEF Goto
  <2> QED
    BY <2>1, <2>5, <2>6, <2>7 DEF StaysRight, ReadSoFar
<1>2. CASE Match("if") /\ Goto("ifCond") /\ UNCHANGED stack /\ pc = "command"
  <2>1. Lengths' /\ input' = input \o <<"if">>
    BY <1>2, Reads DEF ReadsRight, IInv
  <2>2. Below(stack, input) /\ pc' = "ifCond" /\ stack' = stack
    BY <1>2 DEF ReadsRight, ReadSoFar, Goto
  <2> QED
    BY <2>1, <2>2 DEF StaysRight, ReadSoFar
<1>3. CASE Fail \/ Unreachable
  BY <1>3, FailStays DEF ReadsRight
<1> QED
  BY <1>1, <1>2, <1>3 DEF WhileCommand, IfCommand, UnreachableCommand, Running

(* A frame whose condition has been read.                                  *)
LEMMA BegunFirst ==
  ASSUME NEW f
  PROVE  /\ f.kind = "while" => Begun(f, <<"while", "paren">>)
         /\ f.kind = "if" /\ f.phase = "then" => Begun(f, <<"if", "paren">>)
<1> DEFINE w == <<"while", "paren">>
           i == <<"if", "paren">>
<1>1. w \in Seq(Tokens) /\ i \in Seq(Tokens)
  BY Words
<1>2. w = <<"while", "paren">> /\ i = <<"if", "paren">>
  OBVIOUS
<1>3. "while" # "if" /\ "then" # "else"
  OBVIOUS
<1> HIDE DEF w, i
<1>4. f.kind = "while" => Begun(f, w)
  BY <1>1, <1>2, <1>3 DEF Begun
<1>5. f.kind = "if" /\ f.phase = "then" => Begun(f, i)
  BY <1>1, <1>2, <1>3 DEF Begun
<1> QED
  BY <1>4, <1>5 DEF w, i

(* The head of a statement in one piece.                                   *)
LEMMA Pairs ==
  ASSUME NEW t \in Tokens, NEW u \in Tokens
  PROVE  <<t>> \o <<u>> = <<t, u>>
<1> DEFINE a == <<t>>
           p == <<t, u>>
<1>1. /\ a \in Seq(Tokens) /\ Len(a) = 1 /\ a[1] = t
      /\ p \in Seq(Tokens) /\ Len(p) = 2 /\ p[1] = t /\ p[2] = u
  BY Words
<1> HIDE DEF a, p
<1>2. Append(a, u) = a \o <<u>>
  <2>1. \A w \in Seq(Tokens), v \in Tokens : Append(w, v) = w \o <<v>>
    OBVIOUS
  <2> QED
    BY <1>1, <2>1
<1> DEFINE c == Append(a, u)
<1>3. /\ c \in Seq(Tokens) /\ Len(c) = 2 /\ c[1] = t /\ c[2] = u
  <2>1. \A w \in Seq(Tokens), v \in Tokens :
          /\ Append(w, v) \in Seq(Tokens) /\ Len(Append(w, v)) = Len(w) + 1
          /\ Len(w) = 1 => Append(w, v)[1] = w[1] /\ Append(w, v)[2] = v
    OBVIOUS
  <2> QED
    BY <1>1, <2>1
<1> HIDE DEF c
<1>4. \A k \in 1..Len(c) : c[k] = p[k]
  BY <1>1, <1>3
<1>5. c = p
  BY <1>1, <1>3, <1>4, SeqEqual
<1> QED
  BY <1>2, <1>5 DEF a, c, p

LEMMA ConditionStays ==
  ASSUME ReadsRight, WhileCondition \/ IfCondition
  PROVE  StaysRight
<1>1. CASE /\ WhileCondition /\ Match("paren") /\ Goto("body")
           /\ \E n \in LocalCounts : EvalLoopExpr(n)
  <2>1. Lengths' /\ input' = input \o <<"paren">> /\ pc = "whileCond" /\ pc' = "body"
    BY <1>1, Reads DEF ReadsRight, IInv, WhileCondition, Running, Goto
  <2>2. stack \in Seq(Frames) /\ stack # <<>>
    BY <2>1 DEF ReadsRight, IInv, TypeOK
  <2>3. stack' = [stack EXCEPT ![Len(stack)].phase = "body"]
    BY <1>1 DEF EvalLoopExpr
  <2>4. /\ stack' \in Seq(Frames) /\ Rest(stack') = Rest(stack)
        /\ Top(stack').kind = "while" /\ Top(stack').phase = "body"
        /\ Top(stack').block = Top(stack).block
    <3>1. Top(stack).kind = "while"
      BY <2>1, <2>2, TopFrame DEF ReadsRight, IInv, PhasesInv, Top
    <3>2. "body" \in Phases
      BY DEF Phases
    <3> QED
      BY <2>2, <2>3, <3>1, <3>2, TopPhased
  <2>5. PICK x : Below(Rest(stack), x) /\ input = x \o <<"while">>
    BY <2>1 DEF ReadsRight, ReadSoFar
  <2> DEFINE w == <<"while">>
             p == <<"paren">>
             s == <<"while", "paren">>
  <2>6. x \in Seq(Tokens)
    BY <2>2, <2>5, Rests, BelowTyped
  <2>7. w \in Seq(Tokens) /\ p \in Seq(Tokens) /\ w \o p = s
    <3>1. "while" \in Tokens /\ "paren" \in Tokens
      BY Words
    <3> QED
      BY <3>1, Words, Pairs, Zenon
  <2>8. Begun(Top(stack'), s)
    BY <2>4, BegunFirst
  <2>9. ~Top(stack').block
    BY <2>1, <2>4 DEF ReadsRight, ReadSoFar
  <2> HIDE DEF w, p, s
  <2>10. input' = x \o s
    BY <2>1, <2>5, <2>6, <2>7, Joined DEF w, p
  <2> QED
    BY <2>1, <2>4, <2>5, <2>8, <2>9, <2>10 DEF StaysRight, ReadSoFar
<1>2. ASSUME IfCondition, Match("paren"), Goto("body"),
             NEW n \in LocalCounts, StartIf(n)
      PROVE  StaysRight
  <2>1. Lengths' /\ input' = input \o <<"paren">> /\ pc = "ifCond" /\ pc' = "body"
    BY <1>2, Reads DEF ReadsRight, IInv, IfCondition, Running, Goto
  <2> DEFINE f == [kind |-> "if", phase |-> "then", block |-> FALSE,
                   first |-> counter + n, second |-> counter + n + 1]
  <2>2. f \in Frames /\ stack \in Seq(Frames)
    BY LocalCountsAssumption DEF ReadsRight, IInv, TypeOK, Frames
  <2>3. stack' = Append(stack, f)
    BY <1>2 DEF StartIf, Push
  <2>4. f.kind = "if" /\ f.phase = "then" /\ ~f.block
    OBVIOUS
  <2> HIDE DEF f
  <2>5. Rest(stack') = stack /\ Top(stack') = f
    BY <2>2, <2>3, Rests
  <2>6. PICK x : Below(stack, x) /\ input = x \o <<"if">>
    BY <2>1 DEF ReadsRight, ReadSoFar
  <2> DEFINE w == <<"if">>
             p == <<"paren">>
             s == <<"if", "paren">>
  <2>7. x \in Seq(Tokens)
    BY <2>2, <2>6, BelowTyped
  <2>8. w \in Seq(Tokens) /\ p \in Seq(Tokens) /\ w \o p = s
    <3>1. "if" \in Tokens /\ "paren" \in Tokens
      BY Words
    <3> QED
      BY <3>1, Words, Pairs, Zenon
  <2>9. Begun(Top(stack'), s)
    BY <2>4, <2>5, BegunFirst
  <2> HIDE DEF w, p, s
  <2>10. input' = x \o s
    BY <2>1, <2>6, <2>7, <2>8, Joined DEF w, p
  <2> QED
    BY <2>1, <2>4, <2>5, <2>6, <2>9, <2>10 DEF StaysRight, ReadSoFar
<1>3. CASE Fail
  BY <1>3, FailStays DEF ReadsRight
<1> QED
  BY <1>1, <1>2, <1>3 DEF WhileCondition, IfCondition

(* What was read before the body depends on the kind of body only once the *)
(* first of two has been read.                                             *)
LEMMA BegunKept ==
  ASSUME NEW f, NEW g, NEW s, Begun(f, s), g.kind = f.kind, g.phase = f.phase,
         f.phase # "else"
  PROVE  Begun(g, s)
  BY DEF Begun

(* The first body and the else after it.                                   *)
LEMMA BegunElse ==
  ASSUME NEW f, NEW g, NEW s, NEW b, Begun(f, s), Is(Body(f), b),
         f.kind = "if", f.phase = "then",
         g.kind = "if", g.phase = "else", g.block = f.block
  PROVE  Begun(g, (s \o b) \o <<"else">>)
<1> DEFINE i == <<"if", "paren">>
           e == <<"else">>
<1>1. s = i
  BY DEF Begun
<1>2. i \in Seq(Tokens) /\ e \in Seq(Tokens) /\ b \in Seq(Tokens)
  BY Words DEF Is
<1>3. Is(Body(g), b)
  BY DEF Body
<1>4. i = <<"if", "paren">> /\ e = <<"else">>
  OBVIOUS
<1> HIDE DEF i, e
<1>5. i \o b \in Seq(Tokens)
  BY <1>2, Joined
<1>6. (i \o b) \o e \in Seq(Tokens)
  BY <1>2, <1>5, Joined
<1>7. Begun(g, (i \o b) \o e)
  BY <1>3, <1>4, <1>6 DEF Begun
<1> QED
  BY <1>1, <1>7 DEF e

(* What was read before a command of the innermost frame.                  *)
BraceRead(st, y) ==
  \E x, s, b : /\ Below(Rest(st), x) /\ Begun(Top(st), s) /\ Is("commands", b)
               /\ y = x \o (s \o (<<"lcurly">> \o b))
HeadRead(st, y) ==
  \E x, s : Below(Rest(st), x) /\ Begun(Top(st), s) /\ y = x \o s

LEMMA InBlock ==
  ASSUME NEW st \in Seq(Frames), st # <<>>, NEW y, Below(st, y), Top(st).block
  PROVE  BraceRead(st, y)
<1>1. PICK x, w : Below(Rest(st), x) /\ Waits(Top(st), w) /\ y = x \o w
  <2>1. Taken(st, y)
    BY BelowTake, Zenon
  <2> QED
    BY <2>1 DEF Taken
<1>2. PICK s, o : Begun(Top(st), s) /\ Opened(Top(st), o) /\ w = s \o o
  BY <1>1 DEF Waits
<1>3. PICK b : Is("commands", b) /\ o = <<"lcurly">> \o b
  BY <1>2 DEF Opened
<1> QED
  BY <1>1, <1>2, <1>3 DEF BraceRead

LEMMA InCommand ==
  ASSUME NEW st \in Seq(Frames), st # <<>>, NEW y, Below(st, y), ~Top(st).block
  PROVE  HeadRead(st, y)
<1>1. PICK x, w : Below(Rest(st), x) /\ Waits(Top(st), w) /\ y = x \o w
  <2>1. Taken(st, y)
    BY BelowTake, Zenon
  <2> QED
    BY <2>1 DEF Taken
<1>2. PICK s, o : Begun(Top(st), s) /\ Opened(Top(st), o) /\ w = s \o o
  BY <1>1 DEF Waits
<1>3. o = <<>> /\ s \in Seq(Tokens)
  BY <1>2 DEF Opened, Begun
<1>4. w = s
  BY <1>2, <1>3, ConcatEmptySeq
<1> QED
  BY <1>1, <1>2, <1>4 DEF HeadRead

(* Concatenations regrouped.                                               *)
Regroup(s, t, u) == (s \o t) \o u = s \o (t \o u)
LEMMA JoinedThree ==
  \A s, t, u \in Seq(Tokens) : Regroup(s, t, u)
BY Joined DEF Regroup

Regroups(x, s, l, b, r) ==
  (x \o (s \o (l \o b))) \o r = x \o (s \o (l \o (b \o r)))
LEMMA JoinedFive ==
  ASSUME NEW x \in Seq(Tokens), NEW s \in Seq(Tokens), NEW l \in Seq(Tokens),
         NEW b \in Seq(Tokens), NEW r \in Seq(Tokens)
  PROVE  Regroups(x, s, l, b, r) /\ l \o (b \o r) \in Seq(Tokens)
<1> DEFINE m == l \o b
           k == s \o m
           e == b \o r
<1>1. m \in Seq(Tokens) /\ e \in Seq(Tokens)
  BY Joined
<1> HIDE DEF m, e
<1>2. k \in Seq(Tokens) /\ l \o e \in Seq(Tokens)
  BY <1>1, Joined
<1> HIDE DEF k
<1>3. Regroup(x, k, r) /\ Regroup(s, m, r) /\ Regroup(l, b, r)
  BY <1>1, <1>2, JoinedThree
<1>4. (x \o k) \o r = x \o (s \o (l \o e))
  BY <1>3, Zenon DEF Regroup, k, m, e
<1> QED
  BY <1>2, <1>4, Zenon DEF Regroups, k, m, e

LEMMA BodyStays ==
  ASSUME ReadsRight, BodyCommand \/ BodyBlock \/ BodyError
  PROVE  StaysRight
<1> USE DEF Running
<1>1. pc = "body" /\ stack \in Seq(Frames) /\ stack # <<>> /\ Frame = Top(stack)
  BY DEF BodyCommand, BodyBlock, BodyError, ReadsRight, IInv, TypeOK, Frame, Top
<1>2. /\ ~Top(stack).block /\ Top(stack).phase # "else"
      /\ \E x, s : Below(Rest(stack), x) /\ Begun(Top(stack), s) /\ input = x \o s
  BY <1>1 DEF ReadsRight, ReadSoFar
<1>3. PICK x, s : Below(Rest(stack), x) /\ Begun(Top(stack), s) /\ input = x \o s
  BY <1>2
<1>4. CASE BodyCommand
  <2>1. pc' = "command" /\ stack' = stack
    BY <1>4 DEF BodyCommand, Goto
  <2>2. Below(stack, input)
    BY <1>1, <1>2, <1>3, Begins
  <2>3. Lengths' /\ input' = input
    BY <1>4, ReadsNothing DEF BodyCommand, ReadsRight
  <2> QED
    BY <2>1, <2>2, <2>3 DEF StaysRight, ReadSoFar
<1>5. CASE /\ Match("lcurly") /\ stack' = [stack EXCEPT ![Len(stack)].block = TRUE]
           /\ Goto("block")
  <2>1. Lengths' /\ input' = input \o <<"lcurly">>
    BY <1>5, Reads DEF ReadsRight, IInv
  <2>2. /\ stack' \in Seq(Frames) /\ stack' # <<>> /\ Rest(stack') = Rest(stack)
        /\ Top(stack').kind = Top(stack).kind /\ Top(stack').phase = Top(stack).phase
        /\ Top(stack').block
    BY <1>1, <1>5, TopBlocked
  <2>3. Begun(Top(stack'), s)
    BY <1>2, <1>3, <2>2, BegunKept
  <2>4. Below(stack', (x \o s) \o <<"lcurly">>)
    BY <1>3, <2>2, <2>3, Begins
  <2>5. pc' = "block"
    BY <1>5 DEF Goto
  <2>6. Below(stack', input')
    BY <1>3, <2>1, <2>4
  <2> QED
    BY <2>1, <2>2, <2>5, <2>6 DEF StaysRight, ReadSoFar
<1>6. CASE Fail
  BY <1>6, FailStays DEF ReadsRight
<1>7. CASE BodyError /\ Frame.kind # "while"
  <2>1. Wrong' /\ UNCHANGED parserVars
    BY <1>7 DEF BodyError, Wrong
  <2> QED
    BY <2>1, ReadsNothing DEF ReadsRight, StaysRight
<1> QED
  BY <1>4, <1>5, <1>6, <1>7 DEF BodyBlock, BodyError

LEMMA BlockStays ==
  ASSUME ReadsRight, BlockCommand \/ BlockEnd
  PROVE  StaysRight
<1> USE DEF Running
<1>1. pc = "block" /\ stack \in Seq(Frames) /\ stack # <<>>
  BY DEF BlockCommand, BlockEnd, ReadsRight, IInv, TypeOK
<1>2. Top(stack).block /\ Below(stack, input)
  BY <1>1 DEF ReadsRight, ReadSoFar
<1>3. CASE BlockCommand
  <2>1. pc' = "command" /\ stack' = stack
    BY <1>3 DEF BlockCommand, Goto
  <2>2. Lengths' /\ input' = input
    BY <1>3, ReadsNothing DEF BlockCommand, ReadsRight
  <2> QED
    BY <1>2, <2>1, <2>2 DEF StaysRight, ReadSoFar
<1>4. CASE Match("rcurly") /\ AfterBody
  <2> DEFINE l == <<"lcurly">>
             r == <<"rcurly">>
  <2>1. Lengths' /\ input' = input \o r
    BY <1>4, Reads DEF ReadsRight, IInv
  <2>2. PICK x, s, b : /\ Below(Rest(stack), x) /\ Begun(Top(stack), s)
                       /\ Is("commands", b) /\ input = x \o (s \o (l \o b))
    <3>1. BraceRead(stack, input)
      BY <1>1, <1>2, InBlock, Zenon
    <3> QED
      BY <3>1 DEF BraceRead
  <2>3. Is(Body(Top(stack)), l \o (b \o r))
    BY <1>2, <2>2, IsBlock DEF Body
  <2>4. /\ x \in Seq(Tokens) /\ s \in Seq(Tokens) /\ b \in Seq(Tokens)
        /\ l \in Seq(Tokens) /\ r \in Seq(Tokens)
    <3>1. x \in Seq(Tokens)
      BY <1>1, <2>2, Rests, BelowTyped
    <3>2. s \in Seq(Tokens) /\ b \in Seq(Tokens)
      BY <2>2 DEF Begun, Is
    <3>3. l \in Seq(Tokens) /\ r \in Seq(Tokens)
      BY Words
    <3> QED
      BY <3>1, <3>2, <3>3
  <2> HIDE DEF l, r
  <2>5. input' = x \o (s \o (l \o (b \o r)))
    <3>1. Regroups(x, s, l, b, r)
      BY <2>4, JoinedFive
    <3> QED
      BY <2>1, <2>2, <3>1, Zenon DEF Regroups
  <2>6. BodyRead(stack, input')
    BY <2>2, <2>3, <2>5 DEF BodyRead
  <2> QED
    BY <1>1, <1>4, <2>1, <2>6, AfterRead DEF ReadsRight, StaysRight
<1>5. CASE Fail
  BY <1>5, FailStays DEF ReadsRight
<1> QED
  BY <1>3, <1>4, <1>5 DEF BlockEnd

LEMMA ReturnStays ==
  ASSUME ReadsRight, Return
  PROVE  StaysRight
<1>1. pc = "return" /\ stack \in Seq(Frames) /\ Frame = Top(stack)
  BY DEF Return, Running, ReadsRight, IInv, TypeOK, Frame, Top
<1>2. Lengths' /\ input' = input
  BY ReadsNothing DEF Return, ReadsRight
<1>3. PICK y, c : Below(stack, y) /\ Is("command", c) /\ input = y \o c
  BY <1>1 DEF ReadsRight, ReadSoFar
<1>4. y \in Seq(Tokens) /\ c \in Seq(Tokens)
  BY <1>1, <1>3, BelowTyped DEF Is
<1>5. CASE stack = <<>> /\ Goto("start") /\ UNCHANGED stack
  <2>1. Is("programs", y \o c)
    BY <1>3, <1>5, BelowNone, IsLonger
  <2>2. pc' = "start"
    BY <1>5 DEF Goto
  <2> QED
    BY <1>2, <1>3, <2>1, <2>2 DEF StaysRight, ReadSoFar
<1>6. CASE stack # <<>> /\ Frame.block /\ Goto("block") /\ UNCHANGED stack
  <2> DEFINE l == <<"lcurly">>
  <2>1. PICK x, s, b : /\ Below(Rest(stack), x) /\ Begun(Top(stack), s)
                       /\ Is("commands", b) /\ y = x \o (s \o (l \o b))
    <3>1. BraceRead(stack, y)
      BY <1>1, <1>3, <1>6, InBlock, Zenon
    <3> QED
      BY <3>1 DEF BraceRead
  <2>2. Is("commands", b \o c)
    BY <1>3, <2>1, IsLonger
  <2>3. /\ x \in Seq(Tokens) /\ s \in Seq(Tokens) /\ b \in Seq(Tokens)
        /\ l \in Seq(Tokens) /\ b \o c \in Seq(Tokens)
    <3>1. x \in Seq(Tokens)
      BY <1>1, <1>6, <2>1, Rests, BelowTyped
    <3>2. s \in Seq(Tokens) /\ b \in Seq(Tokens) /\ b \o c \in Seq(Tokens)
      BY <2>1, <2>2 DEF Begun, Is
    <3>3. l \in Seq(Tokens)
      BY Words
    <3> QED
      BY <3>1, <3>2, <3>3
  <2>4. l \o (b \o c) \in Seq(Tokens)
    BY <1>4, <2>3, JoinedFive
  <2>5. Opened(Top(stack), l \o (b \o c))
    BY <1>1, <1>6, <2>2, <2>4 DEF Opened
  <2>6. Waits(Top(stack), s \o (l \o (b \o c)))
    BY <2>1, <2>5 DEF Waits
  <2>7. Below(stack, x \o (s \o (l \o (b \o c))))
    BY <1>1, <1>6, <2>1, <2>6, BelowPut
  <2> HIDE DEF l
  <2>8. input = x \o (s \o (l \o (b \o c)))
    <3>1. Regroups(x, s, l, b, c)
      BY <1>4, <2>3, JoinedFive
    <3> QED
      BY <1>3, <2>1, <3>1, Zenon DEF Regroups
  <2>9. pc' = "block" /\ stack' = stack
    BY <1>6 DEF Goto
  <2> QED
    BY <1>1, <1>2, <1>6, <2>7, <2>8, <2>9 DEF StaysRight, ReadSoFar
<1>7. CASE stack # <<>> /\ ~Frame.block /\ AfterBody
  <2>1. PICK x, s : Below(Rest(stack), x) /\ Begun(Top(stack), s) /\ y = x \o s
    <3>1. HeadRead(stack, y)
      BY <1>1, <1>3, <1>7, InCommand, Zenon
    <3> QED
      BY <3>1 DEF HeadRead
  <2>2. x \in Seq(Tokens) /\ s \in Seq(Tokens)
    BY <1>1, <1>7, <2>1, Rests, BelowTyped DEF Begun
  <2>3. input' = x \o (s \o c)
    BY <1>2, <1>3, <1>4, <2>1, <2>2, Joined, SMTT(30)
  <2>4. Is(Body(Top(stack)), c)
    BY <1>1, <1>3, <1>7 DEF Body
  <2>5. BodyRead(stack, input')
    BY <2>1, <2>3, <2>4 DEF BodyRead
  <2> QED
    BY <1>1, <1>2, <1>7, <2>5, AfterRead DEF ReadsRight, StaysRight
<1> QED
  BY <1>5, <1>6, <1>7 DEF Return

LEMMA ElseStays ==
  ASSUME ReadsRight, Else \/ NoElse \/ ElseBlock
  PROVE  StaysRight
<1> USE DEF Running
<1>1. /\ pc \in {"else?", "elseBlock"} /\ stack \in Seq(Frames) /\ stack # <<>>
      /\ Frame = Top(stack) /\ Top(stack) \in Frames
  BY TopFrame DEF Else, NoElse, ElseBlock, ReadsRight, IInv, TypeOK, Frame, Top
<1>2. ASSUME pc = "else?"
      PROVE  /\ Top(stack).kind = "if" /\ Top(stack).phase = "then"
             /\ BodyRead(stack, input)
  <2>1. Len(stack) \in DOMAIN stack
    BY <1>1, TopFrame
  <2>2. Frame.phase = "then"
    BY <1>2 DEF ReadsRight, IInv, PhasesInv
  <2>3. Frame.kind # "while"
    BY <2>1, <2>2 DEF ReadsRight, IInv, PhasesInv, Frame
  <2> QED
    BY <1>1, <1>2, <2>2, <2>3 DEF Frames, ReadsRight, ReadSoFar
<1>3. CASE /\ Else /\ Match("else")
           /\ stack' = [stack EXCEPT ![Len(stack)].phase = "else"]
           /\ Goto(IF Frame.block THEN "elseBlock" ELSE "command")
  <2> DEFINE e == <<"else">>
  <2>1. Lengths' /\ input' = input \o e
    BY <1>3, Reads DEF ReadsRight, IInv
  <2>2. PICK x, s, b : /\ Below(Rest(stack), x) /\ Begun(Top(stack), s)
                       /\ Is(Body(Top(stack)), b) /\ input = x \o (s \o b)
    <3>1. BodyRead(stack, input)
      BY <1>2, <1>3 DEF Else
    <3> QED
      BY <3>1 DEF BodyRead
  <2>3. /\ stack' \in Seq(Frames) /\ stack' # <<>> /\ Rest(stack') = Rest(stack)
        /\ Top(stack').kind = "if" /\ Top(stack').phase = "else"
        /\ Top(stack').block = Top(stack).block
    <3>1. "else" \in Phases /\ Top(stack).kind = "if"
      BY <1>2, <1>3 DEF Phases, Else
    <3> QED
      BY <1>1, <1>3, <3>1, TopPhased
  <2>4. Begun(Top(stack'), (s \o b) \o e)
    BY <1>2, <1>3, <2>2, <2>3, BegunElse DEF Else
  <2>5. x \in Seq(Tokens) /\ s \in Seq(Tokens) /\ b \in Seq(Tokens) /\ e \in Seq(Tokens)
    BY <1>1, <2>2, Rests, BelowTyped, Words DEF Begun, Is
  <2> HIDE DEF e
  <2>6. input' = x \o ((s \o b) \o e)
    <3>1. s \o b \in Seq(Tokens)
      BY <2>5, Joined, Zenon
    <3> DEFINE y == s \o b
    <3> HIDE DEF y
    <3>2. Regroup(x, y, e)
      BY <2>5, <3>1, JoinedThree DEF y
    <3>3. (x \o y) \o e = x \o (y \o e)
      BY <3>2, Zenon DEF Regroup
    <3> QED
      BY <2>1, <2>2, <3>3 DEF y
  <2>7. CASE Frame.block
    <3>1. pc' = "elseBlock"
      BY <1>3, <2>7 DEF Goto
    <3> QED
      BY <1>1, <2>1, <2>2, <2>3, <2>4, <2>6, <2>7, <3>1 DEF StaysRight, ReadSoFar
  <2>8. CASE ~Frame.block
    <3>1. pc' = "command"
      BY <1>3, <2>8 DEF Goto
    <3>2. Below(stack', x \o ((s \o b) \o e))
      BY <1>1, <2>2, <2>3, <2>4, <2>8, Begins
    <3> QED
      BY <2>1, <2>6, <3>1, <3>2 DEF StaysRight, ReadSoFar
  <2> QED
    BY <2>7, <2>8
<1>4. CASE reported' = TRUE /\ UNCHANGED parserVars
  BY <1>4, ReadsNothing DEF ReadsRight, StaysRight, Wrong
<1>5. CASE NoElse
  <2>1. PICK x, s, b : /\ Below(Rest(stack), x) /\ Begun(Top(stack), s)
                       /\ Is(Body(Top(stack)), b) /\ input = x \o (s \o b)
    BY <1>2, <1>5 DEF NoElse, BodyRead
  <2>2. Is("command", s \o b)
    BY <1>1, <1>2, <1>5, <2>1, Finishes DEF NoElse
  <2>3. Lengths' /\ input' = input
    BY <1>5, ReadsNothing DEF NoElse, ReadsRight
  <2>4. stack' = Rest(stack) /\ pc' = "return"
    BY <1>5 DEF NoElse, FinishIf, Goto, Pop, Rest
  <2> QED
    BY <2>1, <2>2, <2>3, <2>4 DEF StaysRight, ReadSoFar
<1>6. CASE ElseBlock /\ Match("lcurly") /\ Goto("block") /\ UNCHANGED stack
  <2>1. Lengths' /\ input' = input \o <<"lcurly">>
    BY <1>6, Reads DEF ReadsRight, IInv
  <2>2. /\ Top(stack).block
        /\ \E x, s : Below(Rest(stack), x) /\ Begun(Top(stack), s) /\ input = x \o s
    BY <1>6 DEF ElseBlock, ReadsRight, ReadSoFar
  <2>3. PICK x, s : Below(Rest(stack), x) /\ Begun(Top(stack), s) /\ input = x \o s
    BY <2>2
  <2>4. Below(stack, (x \o s) \o <<"lcurly">>)
    BY <1>1, <2>2, <2>3, Begins
  <2>5. Below(stack, input')
    BY <2>1, <2>3, <2>4
  <2>6. pc' = "block" /\ stack' = stack
    BY <1>6 DEF Goto
  <2> QED
    BY <2>1, <2>2, <2>5, <2>6 DEF StaysRight, ReadSoFar
<1>7. CASE Fail
  BY <1>7, FailStays DEF ReadsRight
<1> QED
  BY <1>3, <1>4, <1>5, <1>6, <1>7 DEF Else, ElseBlock

-----------------------------------------------------------------------------
(* The invariant holds at first...                                         *)
LEMMA SentenceInvHolds == Init => SentenceInv
<1> SUFFICES ASSUME Init PROVE SentenceInv
  OBVIOUS
<1>1. pc = "start" /\ input = <<>> /\ Len(input) = 0
  BY EmptySeq DEF Init
<1>2. Lengths
  BY <1>1, MaxTokensAssumption DEF Lengths
<1>3. ReadSoFar(pc, stack, input)
  BY <1>1, NothingShort DEF ReadSoFar
<1> QED
  BY <1>2, <1>3 DEF SentenceInv

(* Once something is wrong it stays so.                                    *)
LEMMA WrongStays ==
  ASSUME IInv, Lengths, Wrong, [Next]_vars
  PROVE  Lengths' /\ Wrong'
<1>1. ASSUME NEW tok, Match(tok) PROVE Lengths'
  BY <1>1, Reads DEF IInv
<1>2. ASSUME UNCHANGED parserVars PROVE Lengths'
  BY <1>2, ReadsNothing
<1>3. CASE status # "running"
  <2>1. UNCHANGED vars
    BY <1>3 DEF Next, StartCommand, StartDeclaration, StartEnd, SimpleCommand,
                WhileCommand, IfCommand, UnreachableCommand, WhileCondition,
                IfCondition, BodyCommand, BodyBlock, BodyError, BlockCommand,
                BlockEnd, Return, Else, NoElse, ElseBlock, Done, Running
  <2> QED
    BY <1>2, <2>1 DEF vars, controlVars, Wrong
<1>4. CASE status = "running"
  <2>1. reported
    BY <1>4 DEF Wrong
  <2>2. reported'
    BY <2>1 DEF Next, StartCommand, StartDeclaration, StartEnd, SimpleCommand,
                WhileCommand, IfCommand, UnreachableCommand, WhileCondition,
                IfCondition, BodyCommand, BodyBlock, BodyError, BlockCommand,
                BlockEnd, Return, Else, NoElse, ElseBlock, Done, vars,
                Fail, Unreachable, Goto, AfterBody, FinishIf, FinishLoop,
                controlVars
  <2>3. UNCHANGED parserVars \/ \E tok : Match(tok)
    BY DEF Next, StartCommand, StartDeclaration, StartEnd, SimpleCommand,
           WhileCommand, IfCommand, UnreachableCommand, WhileCondition,
           IfCondition, BodyCommand, BodyBlock, BodyError, BlockCommand,
           BlockEnd, Return, Else, NoElse, ElseBlock, Done, vars,
           Fail, Unreachable
  <2> QED
    BY <1>1, <1>2, <2>2, <2>3 DEF Wrong
<1> QED
  BY <1>3, <1>4

(* ...and is kept.                                                         *)
LEMMA SentenceInvKept == IInv /\ SentenceInv /\ [Next]_vars => SentenceInv'
<1> SUFFICES ASSUME IInv, SentenceInv, [Next]_vars PROVE SentenceInv'
  OBVIOUS
<1>1. CASE Wrong
  BY <1>1, WrongStays DEF SentenceInv
<1>2. CASE UNCHANGED vars
  BY <1>2 DEF vars, parserVars, controlVars, SentenceInv, Lengths, Wrong
<1>3. CASE ~Wrong /\ Next
  <2>1. Lengths /\ ReadSoFar(pc, stack, input) /\ status \in {"running", "ok"}
    BY <1>3 DEF SentenceInv, Wrong
  <2>2. CASE status = "ok"
    <3>1. UNCHANGED vars
      BY <1>3, <2>2 DEF Next, StartCommand, StartDeclaration, StartEnd,
           SimpleCommand, WhileCommand, IfCommand, UnreachableCommand,
           WhileCondition, IfCondition, BodyCommand, BodyBlock, BodyError,
           BlockCommand, BlockEnd, Return, Else, NoElse, ElseBlock, Done, Running
    <3> QED
      BY <1>2, <3>1
  <2>3. CASE status = "running"
    <3>1. ReadsRight
      BY <2>1, <2>3 DEF ReadsRight
    <3>2. ~Done
      BY <2>3 DEF Done
    <3>3. StaysRight
      BY <1>3, <3>1, <3>2, StartStays, SimpleStays, HeadStays, ConditionStays,
         BodyStays, BlockStays, ReturnStays, ElseStays DEF Next
    <3> QED
      BY <3>3 DEF StaysRight, SentenceInv
  <2> QED
    BY <2>1, <2>2, <2>3
<1> QED
  BY <1>1, <1>2, <1>3

(* What the parser accepts is in the grammar, for files of any length.     *)
THEOREM SentencesAccepted == Spec => []AcceptsSentences
<1>1. IInv /\ SentenceInv => AcceptsSentences
  <2> SUFFICES ASSUME IInv, SentenceInv, Accepted
               PROVE  input \in Grammar[Len(input)].programs
    BY DEF AcceptsSentences
  <2>1. pc = "start" /\ ~Wrong
    BY DEF IInv, TypeOK, PhasesInv, Accepted, Wrong
  <2>2. Is("programs", input)
    BY <2>1 DEF SentenceInv, ReadSoFar
  <2>3. input \in Seq(Tokens) /\ Len(input) \in Nat /\ Len(input) <= MaxTokens
        /\ input \in Levels[Len(input)][Len(input) + 1].programs
    BY <2>2 DEF SentenceInv, Lengths, Is, Of
  <2>4. Len(input) \in 0..MaxTokens
    BY <2>3, MaxTokensAssumption
  <2>5. Grammar[Len(input)] = Levels[Len(input)][Len(input) + 1]
    BY <2>4 DEF Grammar
  <2> QED
    BY <2>3, <2>5
<1> QED
  BY <1>1, InitHolds, StepKeeps, SentenceInvHolds, SentenceInvKept, PTL DEF Spec

-----------------------------------------------------------------------------
(* The driver, whatever the parser does.  The invariant says, for every    *)
(* stage of main and of codegen_dump, which files may be there and which   *)
(* must be, so that every goto of the error paths finds what it removes.   *)

(* The stages of a dump, before and after there is output.                 *)
Dumping == {"dump", "open_peephole", "open_output"}
Dumped == {"nasm", "ld", "clean"}

(* The stages at which a file may exist.                                   *)
MayExist ==
  /\ "tmp" \in made => stage \notin {"main", "codegen_init"}
  /\ "removed" \in made =>
       stage \in Dumped \union {"open_peephole", "open_output", "destroy", "done"}
  /\ "peephole" \in made => stage \in Dumped \union {"open_output"}
  /\ "asm" \in made => stage \in Dumped \union {"destroy", "done"}
  /\ "object" \in made => stage \in {"ld", "clean"}
  /\ "executable" \in made => stage \in {"clean", "destroy", "done"}

NoOutput == "dump" \in faults \/ "mkstemps" \in faults \/ "fdopen" \in faults

FilesInv ==
  /\ MayExist
  /\ stage \in {"main", "codegen_init"} => tmpFile = "null"
  /\ "tmp" \in made => tmpFile = "open" \/ "fdopen" \in faults
  /\ stage = "done" /\ tmpFile = "open" => "first_token" \in faults
  /\ stage \in Dumped => "asm" \in made
  /\ stage \in {"destroy", "done"} /\ "removed" \in made =>
       options.keep /\ "asm" \in made

ExitInv ==
  /\ stage \in Dumping /\ tmpFile = "null" => NoOutput
  /\ stage \in {"first_token", "parse"} =>
       exit = -1 /\ (tmpFile = "null" => NoOutput)
  /\ stage \in Dumping \union Dumped => exit = 0
  /\ stage = "crashed" => exit # 0
  /\ stage \in {"destroy", "done"} /\ exit = 0 => "asm" \in made \/ NoOutput
  /\ stage \in {"destroy", "done"} /\ exit # 0 =>
       "asm" \notin made /\ "executable" \notin made

Inv == FilesInv /\ ExitInv

-----------------------------------------------------------------------------
LEMMA InvInit == DriverInit => Inv
BY DEF DriverInit, Inv, FilesInv, ExitInv, MayExist, Dumping, Dumped

(* The actions of main.                                                    *)
LEMMA MainKeeps ==
  ASSUME Inv,
         ReadFile \/ CodegenInit \/ FirstToken \/ Parse \/ Parsed \/ CodegenDestroy
  PROVE  Inv'
<1> USE DEF Inv, FilesInv, ExitInv, MayExist, Dumping, Dumped, NoOutput,
            At, To, Fault, Create, Unlink
<1>1. CASE ReadFile
  BY <1>1 DEF ReadFile
<1>2. CASE CodegenInit
  BY <1>2 DEF CodegenInit
<1>3. CASE FirstToken
  BY <1>3 DEF FirstToken
<1>4. CASE Parse
  BY <1>4 DEF Parse
<1>5. CASE Parsed
  BY <1>5 DEF Parsed
<1>6. CASE CodegenDestroy
  BY <1>6 DEF CodegenDestroy
<1> QED
  BY <1>1, <1>2, <1>3, <1>4, <1>5, <1>6

(* The actions of codegen_dump.                                            *)
LEMMA DumpKeeps ==
  ASSUME Inv, OpenRemoved \/ OpenPeephole \/ OpenOutput \/ Nasm \/ Ld \/ Clean
  PROVE  Inv'
<1> USE DEF Inv, FilesInv, ExitInv, MayExist, Dumping, Dumped, NoOutput,
            At, To, Fault, Create, Unlink
<1>1. CASE OpenRemoved
  BY <1>1 DEF OpenRemoved
<1>2. CASE OpenPeephole
  BY <1>2 DEF OpenPeephole
<1>3. CASE OpenOutput
  BY <1>3 DEF OpenOutput
<1>4. CASE Nasm
  BY <1>4 DEF Nasm
<1>5. CASE Ld
  BY <1>5 DEF Ld
<1>6. CASE Clean
  BY <1>6 DEF Clean
<1> QED
  BY <1>1, <1>2, <1>3, <1>4, <1>5, <1>6

LEMMA InvKept == Inv /\ [DriverNext]_allVars => Inv'
<1> SUFFICES ASSUME Inv, [DriverNext]_allVars
             PROVE  Inv'
  OBVIOUS
<1>1. CASE UNCHANGED allVars
  BY <1>1 DEF allVars, driverVars, Inv, FilesInv, ExitInv, MayExist, NoOutput,
                  Dumped, Dumping
<1>2. CASE DriverNext
  BY <1>1, <1>2, MainKeeps, DumpKeeps DEF DriverNext, Ended
<1> QED
  BY <1>1, <1>2

(* Whatever fails, and whatever the program, no file of the compiler's own *)
(* stays but in the cases NoFilesLeft names.                               *)
THEOREM FilesRemoved == DriverSpec => []NoFilesLeft
<1>1. Inv => NoFilesLeft
  BY DEF Inv, FilesInv, NoFilesLeft, MayExist, Dumped
<1> QED
  BY <1>1, InvInit, InvKept, PTL DEF DriverSpec

(* The exit status is that of the output: zero only with new assembly or a *)
(* failure of the system, and not zero only without any.                   *)
THEOREM ExitStatus == DriverSpec => []ExitTells
<1>1. Inv => ExitTells
  BY DEF Inv, FilesInv, ExitInv, ExitTells, MayExist, Dumped, NoOutput
<1> QED
  BY <1>1, InvInit, InvKept, PTL DEF DriverSpec

-----------------------------------------------------------------------------
(* main runs the parser as it is.                                          *)
LEMMA MainParses == DriverSpec => Spec
<1>1. DriverInit => Init
  BY DEF DriverInit
<1>2. [DriverNext]_allVars => [Next]_vars
  <2> SUFFICES ASSUME [DriverNext]_allVars
               PROVE  [Next]_vars
    OBVIOUS
  <2>1. CASE Parse
    BY <2>1 DEF Parse
  <2>2. CASE ~Parse
    BY <2>2 DEF DriverNext, ReadFile, CodegenInit, FirstToken, Parsed, OpenRemoved,
                OpenPeephole, OpenOutput, Nasm, Ld, Clean, CodegenDestroy, Ended,
                At, allVars
  <2> QED
    BY <2>1, <2>2
<1> QED
  BY <1>1, <1>2, PTL DEF DriverSpec, Spec

(* So its parser keeps the promise of codegen.h...                         *)
THEOREM CompilerKeepsThePromise == DriverSpec => ImplementsStructuredCode
BY MainParses, KeepsThePromise, PTL

(* ...and accepts no program without nesting whose labels are not valid.   *)
THEOREM CompilerLabels == DriverSpec => []AcceptedIsLabelled
BY MainParses, AcceptedLabelled, PTL

(* It accepts the programs of the grammar in Statements only.              *)
THEOREM CompilerSentences == DriverSpec => []AcceptsSentences
BY MainParses, SentencesAccepted, PTL

-----------------------------------------------------------------------------
(* The variables of main and of codegen_dump.                              *)
MainTypes ==
  /\ stage \in {"main", "codegen_init", "first_token", "parse", "dump",
                "open_peephole", "open_output", "nasm", "ld", "clean",
                "destroy", "done", "crashed"}
  /\ tmpFile \in {"null", "open"}
  /\ made \subseteq Files
  /\ options \in Options
  /\ exit \in {-1, 0, 134, 139}

LEMMA MainTypesKept == MainTypes /\ [DriverNext]_allVars => MainTypes'
<1> SUFFICES ASSUME MainTypes, [DriverNext]_allVars
             PROVE  MainTypes'
  OBVIOUS
<1> USE DEF MainTypes, At, To, Create, Unlink
<1>1. {"tmp", "removed", "peephole", "asm", "object", "executable"} \subseteq Files
  BY DEF Files
<1>2. CASE ReadFile
  BY <1>1, <1>2 DEF ReadFile
<1>3. CASE CodegenInit
  BY <1>1, <1>3 DEF CodegenInit
<1>4. CASE FirstToken
  BY <1>1, <1>4 DEF FirstToken
<1>5. CASE Parse
  BY <1>1, <1>5 DEF Parse
<1>6. CASE Parsed
  BY <1>1, <1>6 DEF Parsed
<1>7. CASE OpenRemoved
  BY <1>1, <1>7 DEF OpenRemoved
<1>8. CASE OpenPeephole
  BY <1>1, <1>8 DEF OpenPeephole
<1>9. CASE OpenOutput
  BY <1>1, <1>9 DEF OpenOutput
<1>10. CASE Nasm
  BY <1>1, <1>10 DEF Nasm
<1>11. CASE Ld
  BY <1>1, <1>11 DEF Ld
<1>12. CASE Clean
  BY <1>1, <1>12 DEF Clean
<1>13. CASE CodegenDestroy
  BY <1>1, <1>13 DEF CodegenDestroy
<1>14. CASE Ended \/ UNCHANGED allVars
  BY <1>14 DEF Ended, allVars, driverVars
<1> QED
  BY <1>2, <1>3, <1>4, <1>5, <1>6, <1>7,
     <1>8, <1>9, <1>10, <1>11, <1>12, <1>13, <1>14 DEF DriverNext

(* Files, options and exit status keep their types, and so does the parser. *)
THEOREM DriverTypeCorrect == DriverSpec => []DriverTypeOK
<1>1. DriverInit => MainTypes
  BY DEF DriverInit, MainTypes, Files, Options
<1>2. TypeOK /\ MainTypes => DriverTypeOK
  BY DEF MainTypes, DriverTypeOK
<1> QED
  BY <1>1, <1>2, MainTypesKept, MainParses, TypeCorrect, PTL DEF DriverSpec

-----------------------------------------------------------------------------
(* A dump follows a parse that succeeded, and an object comes of code      *)
(* whose labels are valid.                                                 *)
SoundInv ==
  /\ stage \in Dumping \union Dumped => status = "ok" /\ exit = 0
  /\ stage = "ld" => LabelsValid
  /\ "executable" \in made =>
       /\ stage \in {"clean", "destroy", "done"}
       /\ status = "ok" /\ exit = 0 /\ LabelsValid

(* Validity is a matter of the code.                                       *)
LEMMA ValidOfCode == UNCHANGED vars => (LabelsValid' <=> LabelsValid)
BY DEF vars, genVars, LabelsValid, Structured!LabelsUnique, Structured!JumpsResolved,
       Structured!Def

LEMMA SoundKept == SoundInv /\ [DriverNext]_allVars => SoundInv'
<1> SUFFICES ASSUME SoundInv, [DriverNext]_allVars
             PROVE  SoundInv'
  OBVIOUS
<1> USE DEF SoundInv, Dumping, Dumped, To, Create, Unlink
<1>1. CASE Parse
  BY <1>1 DEF Parse
<1>2. CASE UNCHANGED vars /\ ~Parse
  <2>1. status' = status /\ (LabelsValid' <=> LabelsValid)
    BY <1>2, ValidOfCode DEF vars, controlVars, parserVars, genVars
  <2>2. CASE ReadFile \/ CodegenInit \/ FirstToken \/ Parsed \/ CodegenDestroy
    BY <2>1, <2>2 DEF ReadFile, CodegenInit, FirstToken, Parsed, CodegenDestroy, At
  <2>3. CASE OpenRemoved \/ OpenPeephole \/ OpenOutput
    BY <2>1, <2>3 DEF OpenRemoved, OpenPeephole, OpenOutput, At
  <2>4. CASE Nasm \/ Ld \/ Clean
    BY <2>1, <2>4 DEF Nasm, Ld, Clean, At
  <2>5. CASE Ended \/ UNCHANGED allVars
    BY <2>1, <2>5 DEF Ended, allVars, driverVars
  <2> QED
    BY <1>2, <2>2, <2>3, <2>4, <2>5 DEF DriverNext
<1>3. Parse \/ UNCHANGED vars
  BY DEF DriverNext, ReadFile, CodegenInit, FirstToken, Parsed, OpenRemoved,
         OpenPeephole, OpenOutput, Nasm, Ld, Clean, CodegenDestroy, Ended, At,
         allVars
<1> QED
  BY <1>1, <1>2, <1>3

(* An executable is made only of a program without an error: the errors    *)
(* that end with success leave a jump that nasm refuses (ErrorsLoseLabels).*)
THEOREM ExecutablesSound == DriverSpec => []ExecutablesAreSound
<1>1. DriverInit => SoundInv
  BY DEF DriverInit, SoundInv, Dumping, Dumped
<1>2. SoundInv /\ (Accepted \/ status # "ok" \/ ~LabelsValid)
        => ExecutablesAreSound
  BY DEF SoundInv, ExecutablesAreSound
<1> QED
  BY <1>1, <1>2, SoundKept, MainParses, ErrorsLoseLabels, PTL DEF DriverSpec
=============================================================================
