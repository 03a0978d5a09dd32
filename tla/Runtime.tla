------------------------------ MODULE Runtime ------------------------------
(***************************************************************************)
(* The code that is generated for readln, write and writeln                *)
(* (codegen_read_into, codegen_write and the functions they call), as the  *)
(* program that executes it on a terminal.                                 *)
(*                                                                         *)
(* Memory is bytes.  Every command uses the temporaries from their start   *)
(* (codegen_reset_tmp), so that the buffer of a command that only reads or *)
(* only writes a variable is at TMP and holds what earlier commands left   *)
(* there.  Sizes are scaled: a string has StringSize bytes, and an int is  *)
(* one byte, so that arithmetic on registers is modulo 256.                *)
(*                                                                         *)
(* Floating point is left out.                                             *)
(***************************************************************************)
EXTENDS Integers, Sequences

CONSTANTS
  StringSize,   (* 256                                                     *)
  MemSize,      (* bytes of the variables at UNNIT_MEM                     *)
  Variables,    (* their types and addresses                               *)
  Initial,      (* the memory they are initialised with                    *)
  Lines,        (* what may be typed, without the line feed                *)
  LastLines,    (* what may be typed and ended with the file instead       *)
  MaxCommands   (* bound: commands executed                                *)

Byte == 0 .. 255
NUL == 0
LF == 10
Minus == 45
Zero == 48
FalseWord == <<102, 97, 108, 115, 101>>
TrueWord == <<116, 114, 117, 101>>

(* "\tmov edx, %u" of codegen_read_into; a command that writes may put a   *)
(* line feed and a NUL behind its buffer.                                  *)
BufferSize == StringSize + 1
TmpAddresses == 0 .. BufferSize + 1
Addresses == 0 .. MemSize - 1

ASSUME SizesAssumption ==
  StringSize \in Nat /\ StringSize >= 8 /\ MemSize \in Nat /\ MaxCommands \in Nat
ASSUME VariablesAssumption ==
  Variables \subseteq [type : {"int", "logic", "char", "string"}, address : Addresses]
ASSUME InitialAssumption == Initial \subseteq [Addresses -> Byte]
ASSUME LinesAssumption == Lines \union LastLines \subseteq Seq(Byte)

VARIABLES
  tmp,       (* the bytes at TMP                                           *)
  memory,    (* the variables                                              *)
  rest,      (* the part of the last line that was not read yet            *)
  status,    (* running, or invalid: INVALID_INPUT_HANDLER was reached     *)
  event,     (* history: the last command, what was typed or written       *)
  commands   (* history: commands executed                                 *)

runtimeVars == <<tmp, memory, rest, status, event, commands>>

-----------------------------------------------------------------------------
(* Sequences of bytes in memory.                                           *)

(* bytes stored from an address on.                                        *)
Stored(space, address, bytes) ==
  [a \in DOMAIN space |->
     IF a \in address .. address + Len(bytes) - 1
     THEN bytes[a - address + 1] ELSE space[a]]

(* What a loop that stops at a NUL reads; memory behind the variables and  *)
(* behind the buffer is zero.                                              *)
LengthAt(space, address) ==
  LET ends == {n \in 0 .. MemSize + BufferSize + 2 :
                 address + n \notin DOMAIN space \/ space[address + n] = NUL}
  IN CHOOSE n \in ends : \A m \in ends : n <= m
BytesAt(space, address, n) == [i \in 1 .. n |-> space[address + i - 1]]
TextAt(space, address) == BytesAt(space, address, LengthAt(space, address))

(* Eight bytes, as mov rax reads them.                                     *)
Quad(space, address) ==
  [i \in 1 .. 8 |-> IF address + i - 1 \in DOMAIN space
                    THEN space[address + i - 1] ELSE NUL]
Padded(word) == [i \in 1 .. 8 |-> IF i <= Len(word) THEN word[i] ELSE NUL]

-----------------------------------------------------------------------------
(* Numbers: words modulo 256.                                              *)

Word == 256
Least == 128

(* The number a register holds, two's complement.                          *)
Signed(w) == IF w >= Least THEN w - Word ELSE w
Neg(w) == (Word - w) % Word

(* idiv rounds towards zero; neg leaves the least number negative.         *)
Quotient(n) == IF n < 0 THEN -((-n) \div 10) ELSE n \div 10
Remainder(n) == IF n < 0 THEN -((-n) % 10) ELSE n % 10

(* write_integer: the digits are pushed, the least significant first.      *)
Pushed[n \in -Least .. Least - 1] ==
  LET digit == <<(Zero + Remainder(n)) % Word>>
  IN IF Quotient(n) = 0 THEN digit ELSE Pushed[Quotient(n)] \o digit

(* A mistake: the sign is written and the number stays negative.           *)
IntegerTextWithoutNeg(w) ==
  IF Signed(w) < 0 THEN <<Minus>> \o Pushed[Signed(w)] ELSE Pushed[w]

IntegerText(w) ==
  IF Signed(w) < 0 THEN <<Minus>> \o Pushed[Signed(Neg(w))] ELSE Pushed[w]

Invalid == Word

(* A mistake: the product is not looked at.                                *)
TimesTenUnchecked(w) == (Signed(w) * 10) % Word

(* imul, and the check of its high half.                                   *)
TimesTen(w) ==
  LET product == Signed(w) * 10
  IN IF product \in 0 .. Word - 1 THEN product ELSE Invalid

(* A mistake: the register is as wide as it needs to be.                   *)
AddDigitWide(w, digit) == w + digit - Zero

AddDigit(w, digit) == (w + digit - Zero) % Word

(* One round of the loop; nothing is read any more once a product is too   *)
(* long.                                                                   *)
AppendDigit(w, digit) ==
  LET product == IF w = Invalid THEN Invalid ELSE TimesTen(w)
  IN IF product = Invalid THEN Invalid ELSE AddDigit(product, digit)

(* What eax is after none to all of the characters.                        *)
Accumulated(digits) ==
  LET value[i \in 0 .. Len(digits)] ==
        IF i = 0 THEN 0 ELSE AppendDigit(value[i - 1], digits[i])
  IN value

(* A mistake: the sign is skipped and forgotten.                           *)
IntegerOfMagnitude(chars) ==
  LET digits == IF chars # <<>> /\ Head(chars) = Minus THEN Tail(chars) ELSE chars
  IN Accumulated(digits)[Len(digits)]

(* read_int: the value of the characters, whatever they are.               *)
IntegerOf(chars) ==
  LET minus == chars # <<>> /\ Head(chars) = Minus
      digits == IF minus THEN Tail(chars) ELSE chars
      w == Accumulated(digits)[Len(digits)]
  IN IF minus /\ w # Invalid THEN Neg(w) ELSE w

-----------------------------------------------------------------------------
NoEvent == [kind |-> "none"]

Init ==
  /\ tmp = [a \in TmpAddresses |-> NUL]
  /\ memory \in Initial
  /\ rest = <<>>
  /\ status = "running"
  /\ event = NoEvent
  /\ commands = 0

(* What the terminal has for the next read: the rest of a line, another    *)
(* line, one that ends with the file and has no line feed, or nothing.     *)
Typed ==
  IF rest # <<>> THEN {rest}
  ELSE {Append(line, LF) : line \in Lines} \union LastLines \union {<<>>}
         \union (IF event.kind = "write" THEN {Append(event.text, LF)} ELSE {})

(* A mistake: the line feed stays.                                         *)
BufferAfterUntrimmed(typed) ==
  LET n == IF Len(typed) < BufferSize THEN Len(typed) ELSE BufferSize
  IN IF n = 0 THEN tmp ELSE Stored(tmp, 0, Append(SubSeq(typed, 1, n), NUL))

(* The system call and the removal of the line feed: the last byte that    *)
(* was read, whatever it is, becomes a NUL.                                *)
BufferAfter(typed) ==
  LET n == IF Len(typed) < BufferSize THEN Len(typed) ELSE BufferSize
  IN IF n = 0 THEN tmp ELSE Stored(tmp, 0, Append(SubSeq(typed, 1, n - 1), NUL))

Command == status = "running" /\ commands < MaxCommands /\ commands' = commands + 1

Receive(v, typed) ==
  /\ Command
  /\ tmp' = BufferAfter(typed)
  /\ rest' = SubSeq(typed, BufferSize + 1, Len(typed))
  /\ event' = [kind |-> "read", var |-> v, text |-> typed, fresh |-> rest = <<>>]

Assign(v, bytes) == memory' = Stored(memory, v.address, bytes) /\ UNCHANGED status
InvalidInput == status' = "invalid" /\ UNCHANGED memory

ReadInt(v, typed) ==
  /\ v.type = "int" /\ Receive(v, typed)
  /\ LET w == IntegerOf(TextAt(tmp', 0))
     IN IF w = Invalid THEN InvalidInput ELSE Assign(v, <<w>>)

ReadLogic(v, typed) ==
  /\ v.type = "logic" /\ Receive(v, typed)
  /\ CASE Quad(tmp', 0) = Padded(FalseWord) -> Assign(v, <<0>>)
       [] Quad(tmp', 0) = Padded(TrueWord)  -> Assign(v, <<1>>)
       [] OTHER                         -> InvalidInput

ReadChar(v, typed) ==
  /\ v.type = "char" /\ Receive(v, typed)
  /\ Assign(v, <<tmp'[0]>>)

(* A mistake: the whole buffer is copied.                                  *)
ReadStringWhole(v, typed) ==
  /\ v.type = "string" /\ Receive(v, typed)
  /\ Assign(v, BytesAt(tmp', 0, BufferSize))

(* codegen_move_to_id_entry copies a string up to and with its NUL.        *)
ReadString(v, typed) ==
  /\ v.type = "string" /\ Receive(v, typed)
  /\ Assign(v, Append(TextAt(tmp', 0), NUL))

(* write_*: the text is put into the buffer and written; with a line feed  *)
(* behind it for writeln.                                                  *)
Send(v, text, terminator, newLine) ==
  /\ Command
  /\ tmp' = Stored(Stored(tmp, 0, text \o terminator), Len(text),
                   IF newLine THEN <<LF, NUL>> ELSE <<>>)
  /\ event' = [kind |-> "write", var |-> v, text |-> text, newLine |-> newLine]
  /\ UNCHANGED <<memory, rest, status>>

WriteInt(v, newLine) ==
  /\ v.type = "int"
  /\ Send(v, IntegerText(memory[v.address]), <<NUL>>, newLine)

(* Eight bytes are tested and stored, and five written for both words.     *)
WriteLogic(v, newLine) ==
  /\ v.type = "logic"
  /\ LET word == IF Quad(memory, v.address) = Padded(<<>>) THEN FalseWord ELSE TrueWord
     IN Send(v, SubSeq(Padded(word), 1, 5), <<NUL, NUL, NUL>>, newLine)

WriteChar(v, newLine) ==
  /\ v.type = "char"
  /\ Send(v, <<memory[v.address]>>, <<NUL>>, newLine)

WriteString(v, newLine) ==
  /\ v.type = "string"
  /\ Send(v, TextAt(memory, v.address), <<NUL>>, newLine)

Done == (status = "invalid" \/ commands = MaxCommands) /\ UNCHANGED runtimeVars

Next ==
  \/ \E v \in Variables :
       \/ \E typed \in Typed :
            ReadInt(v, typed) \/ ReadLogic(v, typed)
              \/ ReadChar(v, typed) \/ ReadString(v, typed)
       \/ \E newLine \in BOOLEAN :
            WriteInt(v, newLine) \/ WriteLogic(v, newLine)
              \/ WriteChar(v, newLine) \/ WriteString(v, newLine)
  \/ Done

Spec == Init /\ [][Next]_runtimeVars
=============================================================================
