----------------------------- MODULE ReadWrite -----------------------------
(***************************************************************************)
(* What readln, write and writeln are to do: the commands of Runtime and   *)
(* the texts of numbers and words as a user of the terminal knows them.    *)
(***************************************************************************)
EXTENDS Runtime

(* A number as it is written down.                                         *)
Digits == Zero .. Zero + 9
Unsigned(s) == IF s # <<>> /\ Head(s) = Minus THEN Tail(s) ELSE s
IsNumeral(s) ==
  Unsigned(s) # <<>> /\ \A i \in DOMAIN Unsigned(s) : Unsigned(s)[i] \in Digits

(* The numbers that the first digits are, from none to all of them.        *)
Beginnings(digits) ==
  LET value[i \in 0 .. Len(digits)] ==
        IF i = 0 THEN 0 ELSE 10 * value[i - 1] + digits[i] - Zero
  IN value
Natural(digits) == Beginnings(digits)[Len(digits)]
Number(s) == IF Unsigned(s) = s THEN Natural(s) ELSE -Natural(Unsigned(s))

-----------------------------------------------------------------------------
InRange(n) == n \in -Least .. Least - 1
Value(v) == Signed(memory[v.address])

(* Bytes in memory; a program that was stopped has read something.         *)
TypeOK ==
  /\ tmp \in [TmpAddresses -> Byte]
  /\ memory \in [Addresses -> Byte]
  /\ \A k \in DOMAIN rest : rest[k] \in Byte
  /\ status = "invalid" => event.kind = "read"

(* A number in the range of int, on a line of its own, is read as what it  *)
(* is.  Of the others only those are not refused that have no more than 32 *)
(* bits or begin with 2^32, up to 2^32 + 3 (the last digit is added        *)
(* unchecked); they are taken for the number of their last 32 bits.        *)
ReadsNumbers ==
  event.kind = "read" /\ event.var.type = "int" =>
    LET line == SubSeq(event.text, 1, Len(event.text) - 1)
        n == Number(line)
        beginnings == Beginnings(Unsigned(line))
    IN event.text = Append(line, LF) /\ IsNumeral(line) /\ Len(line) <= StringSize =>
         /\ InRange(n) => status = "running" /\ Value(event.var) = n
         /\ status = "running" =>
              /\ (Value(event.var) - n) % Word = 0
              /\ \/ n \in -(Word - 1) .. Word - 1
                 \/ \E i \in DOMAIN beginnings : beginnings[i] \in Word .. Word + 3

(* What is written is the value: a number but the least one, without zeros *)
(* before it; a word for a boolean, unless it is false and one of the      *)
(* seven bytes behind it is not zero; a character; the characters of a     *)
(* string.                                                                 *)
WritesValues ==
  event.kind = "write" =>
    LET v == event.var
        text == event.text
        value == memory[v.address]
    IN CASE v.type = "int"    -> Value(v) # -Least =>
                                   /\ IsNumeral(text) /\ Number(text) = Value(v)
                                   /\ Head(Unsigned(text)) = Zero => text = <<Zero>>
         [] v.type = "char"   -> text = <<value>>
         [] v.type = "string" ->
              /\ \A k \in DOMAIN text : text[k] = memory[v.address + k - 1] /\ text[k] # NUL
              /\ v.address + Len(text) \in Addresses => memory[v.address + Len(text)] = NUL
         [] v.type = "logic"  ->
              \/ value # 0 /\ text = Append(TrueWord, NUL)
              \/ value = 0 /\ text = FalseWord
              \/ value = 0 /\ \E k \in 2 .. 8 : Quad(memory, v.address)[k] # NUL

Reads(v) == event'.kind = "read" /\ event'.var = v /\ event'.fresh
Types(line) == event'.text = Append(line, LF)

(* false and true are read, unless the buffer has something left of an     *)
(* earlier command in the eight bytes that are compared; nothing else is   *)
(* taken for them.                                                         *)
WordRead ==
  \A v \in Variables, w \in {FalseWord, TrueWord} :
    Reads(v) /\ v.type = "logic" =>
      /\ Types(w) =>
           \/ status' = "running" /\ memory'[v.address] = IF w = TrueWord THEN 1 ELSE 0
           \/ \E a \in Len(w) + 1 .. 7 : tmp[a] # NUL
      /\ status' = "running" /\ event'.text # <<>> =>
           \E word \in {FalseWord, TrueWord} : SubSeq(event'.text, 1, Len(word)) = word
ReadsBooleans == [][WordRead]_runtimeVars

(* A line is read as a whole if it is shorter than a string, and changes   *)
(* no other variable.  One of 256 characters or more puts a NUL into the   *)
(* first byte of the next variable, and not more.  (At the end of the file *)
(* the string is what an earlier command left in the buffer.)              *)
Room(v) ==
  v.address .. v.address + (IF v.type = "string" THEN StringSize ELSE 1) - 1
LineKept ==
  \A v \in Variables :
    Reads(v) /\ event'.text # <<>> =>
      /\ \A a \in Addresses \ Room(v) :
           memory'[a] # memory[a] =>
             /\ v.type = "string" /\ a = v.address + StringSize /\ memory'[a] = NUL
             /\ Len(event'.text) > StringSize
      /\ Len(event'.text) <= BufferSize => rest' = <<>>
NeighboursKept == [][LineKept]_runtimeVars

(* What a program writes it reads back: the value is the same afterwards,  *)
(* for every type and value but the least number, strings that are longer  *)
(* than their variable, and a byte that is no boolean (where a string      *)
(* overwrote it).                                                          *)
WrittenAsIs(v) ==
  CASE v.type = "int"    -> Value(v) # -Least
    [] v.type = "string" -> Len(event.text) < StringSize
    [] v.type = "logic"  -> /\ memory[v.address] \in {0, 1}
                            /\ (memory[v.address] = 0) = (event.text = FalseWord)
    [] OTHER             -> TRUE
ReadBack ==
  \A v \in Variables :
    /\ event.kind = "write" /\ event.var = v /\ WrittenAsIs(v)
    /\ Reads(v) /\ Types(event.text)
    => status' = "running" /\ memory' = memory
RoundTrip == [][ReadBack]_runtimeVars
=============================================================================
