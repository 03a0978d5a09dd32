# A verification of the L compiler

The repository is a compiler of the teaching language L to x86-64 assembly: one
C program, one thread, no allocation to speak of. It reads a file, parses it by
recursive descent, applies the semantic rules (`SR1`, `SR2`, ...) while it
parses, and writes nasm text to a temporary file *while it parses*; then it makes
two passes over that text and may call `nasm` and `ld`. There is no tree: what
the program knows at any time is the token it looks at, the C call stack, the
symbol table, and a handful of static counters and label buffers in `codegen.c`.
That is where it can go wrong, and what these modules are about:

* state that several calls share and nobody owns (label buffers, address
  counters, the lookahead token, also after the end of the file),
* facts that are established at one time and used at another (an identifier is
  new; an operand is in a temporary; a store is still in force),
* two parties that compute the same thing without talking to each other (the
  compiler's addresses and nasm's layout; generated code and the pass that
  removes lines of it; the code that writes a value and the code that reads it),
* protocols between the parser and the generator that only the order of the calls
  in the parser keeps (start/condition/finish of a loop, a semantic rule before
  the code that asserts it),
* calls that fail one by one, with files already made.

## 1. Inventory

| Component | State it keeps | Operations | Talks to | Module |
|---|---|---|---|---|
| Driver (`main.c`, `file.c`) | the file in memory, the exit status | read the file, run the stages, dump, clean up in reverse order | everything | `Driver` |
| Lexer (`lexer.c`, `token.h`) | cursor, line, state, lexeme buffer | `lexer_get_next_token` | symbol table | `Lexer` |
| Symbol table (`symbol_table.c`) | hash table of chained entries, by case-folded lexeme | keywords, `insert`, `search` | lexer, parser | `SymbolTable` |
| Statement parser (`semantic_and_syntatic.c` 457-510, 1038-1268) | lookahead `entry`, `found_last_token`, the C stack | start, command, while, if, match | lexer, code generator | `Commands` |
| Declarations (512-659) | `last_entry`, the symbol being declared | `decl_var`, `decl_const`; SR1-SR5, SR8 | symbol table, storage | `Declarations` |
| Expression parser and semantic rules (68-455, 702-1036) | the value of every operand on the C stack | `exp`, `exps`, `t`, `f`, `paren_exp`; SR6-SR26 | code generator | `Expressions` |
| Assignments, input and output commands (661-681, 944-1022) | the symbol and the index on the C stack | `read`, `write`, `attr` | expressions | `Expressions` |
| Value storage (`codegen.c` 28-99, 472-634) | four address counters | `add_value`, `add_unnit_value`, `add_tmp`, `reset_tmp`, `get_next_address` | nasm | `Storage` |
| Operations on values (`codegen.c` 636-1330) | the temporary area's counter | logic, arithmetic, comparison, conversion, move | storage | `Expressions` |
| Loops and conditionals (`codegen.c` 1701-1799) | two pairs of static label buffers, the label counter | start/eval/finish loop; start if, jump, start else, finish if | statement parser | `Commands` |
| Generated run-time code (`codegen.c` 1331-1668, 1801-2065) | registers and memory of the compiled program | `write_*`, `read_*` | the terminal | `Runtime` |
| Output passes (`codegen.c` 168-343) | current section; the last store | drop `section` lines, drop loads | the text generated before | `OutputPasses` |
| Output files (`codegen.c` 102-166, 345-470) | temporary files, names | `init`, `dump`, `destroy` | nasm, ld, the file system | `Driver` |

What is hard, and what makes each component correct:

* **Value storage** - alignment to sizes that are no powers of two, counters that
  never look at the size of the area they point into, `uint64_t` differences.
  Correct: no two live values share a byte, but for the operand of a write list and
  the buffer it is written through; nasm puts each value where the instructions look
  for it.
* **Loops and conditionals with the statement parser** - the buffers outlive the
  call that filled them. Correct: every label is defined once, every jump has a
  target, a statement's jumps go to its own labels.
* **Statement parser** - the lookahead is stale after the last token, two different
  failure values (-1 and 1) travel up the C stack. Correct: it ends, accepts only
  sentences of the grammar, and never succeeds after printing an error.
* **Declarations** - an identifier is new if the lexer met it for the first time,
  which was one token earlier. Correct: every name is declared once and before it
  is used, and its symbol describes a place of its own.
* **Symbol table** - case folding in three places, chains. Correct: a set of symbols
  with one for each name.
* **Lexer** - a character is put back in seven states, the line counter is not; a
  lexeme may fill the buffer. Correct: the tokens are the longest lexemes of the
  language, and errors name the line they are on.
* **Expressions** - dozens of calls with preconditions on types (assertions in
  `codegen.c`) that the semantic rules have to have established; temporaries that
  are reused. Correct: no assertion fails; an operand keeps its value until it is
  used; what is assigned, written or tested is the value of the expression.
* **Run-time code** - arithmetic on 32 bits, buffers with leftovers of earlier
  commands. Correct: reading what was written gives the value back, and nothing
  else changes.
* **Output passes** - decisions on one line depend on earlier lines. Correct: what
  is left computes the same, and every line stays in its section.
* **Driver** - partial failure. Correct: a failure is visible in the exit status,
  no temporary file stays behind, an executable is made of correct programs only.

Every hazard we know of is in `PROJECT.json` under `hazards`, at its line, with the
properties that watch it or why none does.

## 2. Modules

    StructuredCode  <-- implemented by --  Commands  (parser + label buffers)
         ^  ^                                ^   ^
         |  MCStructuredCode (TLC)           |   Statements (reference grammar)
         |                                 Driver        ^
         StructuredCodeProofs              ^  ^          |
                                           |  (main, files, tools)
                                           |             |
                     MCCommands (TLC), CommandsProofs: both of Driver and Statements

    ValueTypes                               (types, sizes, alignment)
      ^      ^
      |    Expressions <-- Phrases           (reference grammar with types and meanings)
      |                      ^  ^-- ExpressionsProofs <-- PhrasesProofs
      |                      MCExpressions   (TLC)
    Storage                                  (addresses and nasm's layout)
      ^        SymbolTable                   (hash table)
      |         ^
    Declarations -- implements --> SymbolSet (abstract: a set of symbols)
      ^      ^
      |    DeclarationsProofs                (of Storage as well)
    MCDeclarations (TLC)

    Lexer   <-- Lexemes   (the lexemes of the language as whole texts)
                  ^---- LexerProofs, MCLexer (TLC)
    Runtime <-- ReadWrite (what numbers and words are on the terminal)
                  ^---- RuntimeProofs, MCRuntime (TLC)
    OutputPasses <-- OutputPassesProofs, MCOutputPasses (TLC, a two-register machine)

How they fit together. `Driver` runs `Commands`: a step of the parser is a step of
`main` while it is in `syntatic_start`. A condition, a simple command or a declaration is one token for
`Commands`; the first two are the subject of `Expressions`, the third of
`Declarations`, where in turn a command is any tokens up to its `;`. `Declarations`
contains `Storage` and `SymbolTable` and takes what the lexer finds as a choice;
`Lexer` has the characters. What a `read` or `write` is one operation for in
`Expressions` is executed byte by byte in `Runtime`. What the last three modules
generate is lines for `OutputPasses`, and what labels and jumps among them mean for nasm is
`LabelsValid` in `Driver`.

### Storage

`next` is the four counters `current_*_address`, one per area. An action is one
call: `AddUnnitValue`, `AddValue`, `AddTmp`, `AllocateTmp` (any operation that
calls `get_next_address` for its result or its buffer), `ResetTmp`. A reset in a write
list (`ResetForWrite`, `semantic_and_syntatic.c:966`) comes between the evaluation of
a value and the code that writes it: that value is then in `leftover`, no longer
reserved and still to be read, until `codegen_write` is through with it
(`DropLeftover`). The buffer of `write(c, 2)` does lie over the operand `2`. `NoOverlap`
says that this buffer, the first temporary after the reset, is the only thing that
can. It does no harm because the generated code loads the operand before it stores to
the buffer: `Write` in `Expressions`, where `EffectsAreMeant` fails for a `write` that
does not (`WriteLate`). `loc` is the
other party: nasm's own location counter in each section, moved by the
`align`/`alignb`, `db`/`dd`/`times` and `resb` lines that the same call writes. A
value remembers both what the compiler believes (`area`, `address`, `size`) and what
nasm did (`at`, `end`). A literal is its length.

### StructuredCode

The abstract specification: what `codegen.h` says of `codegen_start_loop` ..
`codegen_finish_if`, each loop or conditional being a unit with two labels of its
own, nested like the statements. `Spec` is a generator that never fails;
`Promise` allows anything once an error was reported.

### Commands

The parser of statements, and the generator as it is. `stack` is the C stack: one
frame per `syntatic_while`/`syntatic_if` that has generated its first label; `pc` is
the point in the innermost function; `whileLabels` and `ifLabels` are the static
buffers. `entry`, `found` are `ctx->entry.token` and `ctx->found_last_token`. A
condition in parentheses, a declaration, and an assignment, read or write are one
token each: what is inside them is another component, and can fail (`Fail`) or
generate any number of labels in `LocalCounts`. The file is not fixed in advance:
`Advance` chooses the next token, a lexical error (as part of `Fail`) or the end of
the file, with the two values `entry` can be left with there (untouched if the
cursor is at the end; zeroed, which is `TOKEN_IDENTIFIER`, if blanks were skipped;
`EmptyEntry` of the `lexer` run is why a word or a number never stays there).
`input` and `nested` are history variables for the properties. The frame's `first`,
`second` record which labels `get_next_label` gave to it; the code never reads
them, the refinement mapping does.

Every error leaves through the same `Fail`. After it nothing reads the code, so the
part of it that the failing call may have generated is left out; the one place where
code is generated *before* a match that may fail (`else`) keeps that order.

### Driver

`main` and the files of `codegen_init`, `codegen_dump`, `codegen_destroy`. `stage` is
where `main` (or the dump) is, `made` the files that this compilation has made and not
removed. Every call of the system has an outcome in which it fails, at any time and
independently: reading the file, `mkstemps`, `fdopen`, opening each output, `nasm`,
`ld`. Results that the code ignores are ignored here: a null `tmp_file` goes on to
the parser and crashes at the first line that is written to it. `nasm` makes an
object of an output whose labels are valid (`LabelsValid`) and may fail otherwise
too. `faults` is a history variable: the properties name the calls that excuse a
leftover file.

### Declarations, SymbolTable, SymbolSet

`table` is the hash table, a chain per slot; a pointer is the slot and the place in
its chain, and stays valid because symbols are only appended. `entry`, `last` and `found` are
`ctx->entry`, `ctx->last_entry`, `ctx->found_last_token`, with the flag
`is_new_identifier` (`new`) that the lexer puts into an entry. `Match` is the whole of
`syntatic_match_token`: it saves the lookahead and lets the lexer look the next word up,
which inserts it if it is new. So the insertion of the token *after* an identifier
happens before the parser decides whether that identifier is new. `decl` is the C
locals of `syntatic_decl_var` or `syntatic_decl_const`. A declaration's value is a step of
`Storage` and the assignment of the symbol's fields in one action, as in the code.
A command's calls of the storage are all there: the reset when it starts
(`StartCommand`) and when a command inside it starts (`NestedCommand`), temporaries and
literals (`CommandAllocates`), the reset in a write list (`WriteResets`), the buffer
(`WriteBuffer`) and the end of a value (`WriteEnd`).

`SymbolSet` is what the parser expects of all this: a set with at most one symbol for
a name, that gets new names and describes each once. `Declarations` implements it
(`ImplementsSymbolSet`), with the set of what is in the chains as mapping.

### Lexer

One iteration of the loop of `lexer_get_next_token` is an action, one per `case` of
the switch. A character is a class of those that the lexer treats alike. `back` is a
character that was put back (`--lexer->cursor`), `last` the one before the current
one: lines are counted at the character *after* a line feed. The parser's next call
is `NextCall`. `text` and `lines` are history variables.

`Lexemes` has the lexemes of the language as predicates on whole texts, without
states, and `Viable`: a text that can still become a lexeme. `Starts` are the places where
a token may begin, which needs the blanks and comments before it.

### Expressions

`ValueTypes` has what `Storage` and `Expressions` share: types, `size_from_type`,
`get_next_address`.

`Expressions` is one command without commands inside, or one condition: where
`Commands` has one token. It is two programs at once.

The first is the parser. `stack` is again the C stack, now with a frame for every
active call of `syntatic_exp`, `_exps`, `_t`, `_f`, `_attr`, `_write`, `_read`,
`_paren_exp`. A frame's `left` is the `struct codegen_value_info` that the function
keeps while others run, `op` the operator or keyword it has matched, `symbol` its
identifier; `ret` is what the last function left in its out parameter. A semantic
rule (SR6-SR14, SR21-SR26) is part of the action that applies it, and in the order
of the code: before or after the match that follows it.

The second is the generated program. All commands in question are straight-line
code, so it can be run while it is generated: `gen.memory` is the memory after the
last generated instruction, as the set of values that were stored and not
overwritten, even partly. A load that does not find exactly one stored value of its
width gives `Garbage`. Values are terms over the literals and the identifiers, so
that all integers are covered by one of them. A `struct codegen_value_info` carries
the term it stands for, for `OperandsIntact` only: neither program reads it.
`gen.next` is the compiler's `current_bss_tmp_address`. `effects` collects what an
observer of the program sees: values written and assigned, conditions tested.

Kept: each operation's temporaries, their sizes, and the order of its loads and
stores. Left out: how an operation computes (`Runtime` has what is written and read;
floating point instructions are nowhere), and where variables live (`Storage`).

### Runtime

The code of `codegen_read_into` and `codegen_write`, as executed. `tmp` is the bytes at
`TMP`: each command resets the temporaries, so that every buffer begins there and
holds what an earlier command left. `memory` is the variables, `rest` what the
terminal has left of a line longer than the buffer. A string has `StringSize` bytes, and an
int has one, so that registers are words modulo 256 instead of 2^32; a boolean and a
character have one byte as in the code. A terminal delivers a line at a time.
`Accumulated` is the register of `read_int` after every character; `Invalid` stands for a
product that has left its 32 bits.

`ReadWrite` has what the commands are to do: the number that digits are (`Beginnings`,
without registers), and the six properties of the run.

### OutputPasses

A step is one line of the temporary file through both passes (each pass reads a
line, decides, writes or drops it, so a line does not depend on later ones).
`section` is the first pass's variable; `state`, `storeMem`, `storeReg` the second's.
Lines are the kinds the passes distinguish. `before` and `after` are two machines:
one executes every line, one only what is left. `Arrive` is a label some jump
enters: both machines then come from elsewhere. `surprised` remembers whether one did
while `perform_peephole` remembered a store, the only situation that is a mistake.

### Mistakes in the modules

Operators that a comment introduces with *A mistake* are variants of the definition
that follows them, as a plausible bug would have it. Nothing uses them: they are there to be
put in the place of the right one, and each property of a passing run fails for at least one
(`PROJECT.json`, `mutants`).

## 3. Runs

| Run | Question | Bounds, and why they are enough |
|---|---|---|
| `structured` | does generating units, nested in any way, give valid labels? does the invariant of the proof hold? | 8 labels: four units inside or after each other, with 0-2 labels in conditions |
| `commands` | `Driver`: does `main` end, with an exit status that tells the truth and no file left? does the parser inside accept only sentences, and keep `codegen.h`'s promise where no kind nests in itself? is an executable made of correct programs only? | all files of up to 7 tokens (a conditional with an else and two blocks needs 7, a conditional with an else in a loop as well), every failure at every call: about a million states. The properties of labels are proved for any number of tokens |
| `commands_nested`, `commands_errors` (violations) | findings 1 and 2 | 8 tokens; counterexamples of 5 to 9 steps |
| `declarations` | is every identifier declared once, before it is used, with a place of its own that nasm agrees on? does the table implement a set? does `Storage` keep its promises under the calls that are really made? | three spellings of two names and two reserved words, all of them in two slots; initialised and plain variables, constants, literals of commands, up to three values. Each hazard needs two identifiers. A string takes 256 bytes, an int 4, a buffer 257: residues of all pairs occur. Strings are constants and literals (`string` is no reserved word of the run). Two temporaries at a time, one may be a buffer, next to an operand left over by a reset: `TmpSize` is 768 so that all of them fit, and `TmpFits` excludes no state of the run |
| `expressions` | are exactly the ill-typed commands rejected, do the rules establish every assertion, does the code compute what was written, and does the parser return? | all commands of up to 7 tokens over a literal, two variables and an undeclared name, with an operator of each kind of rule: conditions of up to 5 tokens, so two operations, conversion of either operand, `not`, casts, both signs, parentheses |
| `expressions_text` | the same for strings, characters, indices, and lists of values | up to 8 tokens: an indexed character assigned, two values written with an operator in one, reads of all three kinds |
| `expressions_write` (violation) | finding 4 | up to 5 tokens, `write ( b ) ;` is the counterexample |
| `lexer` | are the tokens the longest lexemes, the errors errors, lines and lexemes right? | all files of up to six characters of 20 classes and lexemes of up to 3 (`MAX_LEXEME_SIZE` is 512): every state is entered and left, comments close, a lexeme fills the buffer, a token follows another |
| `runtime` | what do numbers, booleans, characters and strings become when they are written and read? | every sequence of three commands over a variable of each type, with lines at the limits of numbers (127, 128, -128, -129, 259, 260, 2590) and of the buffer (one byte less, equal, more): write, read something else into the buffer, read back is three commands |
| `passes` | do the dropped loads matter while no jump arrives behind a remembered store, and does a line ever change sections? | two registers, two places, a pointer operand, five instructions; any number of lines and jumps (the state is finite) |
| `passes_labels` (violation) | finding 3 | the same |

What the properties say is with their definitions. Three reference definitions are
written as the language is taught and not as the program is: the grammar of statements in
`Statements` (sets of sentences by length), the phrases with types and meanings in
`Phrases`, and the lexemes in `Lexemes`. `EffectsAreMeant` and `ErrorsAreErrors`
compare the two programs of `Expressions` with the second in both directions; `LongestMatch`
and the lexer's `ErrorsAreErrors` do so with the third. `UpToNeighbours` in
`Phrases` leaves out which bytes of a boolean are written, the subject of
`expressions_write`. `EffectsAreMeant` is silent on commands with a leading `+`
(`LeadingPlus`): the language has it leave its operand as it is, the code negates
(section 5). What `Phrases` has as the value of such a phrase (`Signed`) is the code's and
is no claim; that these phrases are well typed, and what is rejected among them, is
checked like the rest.

Some properties have exceptions, and these are statements about the code: `ReadsNumbers`
(overflow is noticed in products and not in sums: numbers of up to 2^32 + 3, and those that begin
with 2^32 to 2^32 + 3, are taken for others), `ReadsBooleans` (a word may be refused if an
earlier, longer line is still in the buffer), `NeighboursKept` (a line of 256 characters
writes a NUL behind its string), `WritesValues` and `RoundTrip` (the least number; a boolean with
something behind it, or that a string has overwritten), `LexemeIsText` (a constant may fill the buffer without a
NUL), `LineIsRight` (a line feed in a string is reported one line above), `NoFilesLeft` (a
lexical error in the first token), `ExitTells` (status 0 although a file could not be made). Each
exception is as narrow as it can be stated, and section 5 lists them.

`CHECK_DEADLOCK` stays on everywhere: where a system ends, it does so in a `Done` or
`Ended` action that may be repeated.

**Fairness.** `Exits` and `Terminates` need it. `DriverSpec` and `FairSpec` (`Expressions`) are
weak fairness of the whole next-state relation: the compiler is one thread without
waits, so as long as it can take a step it does (a call of the system returns, well or
badly, and so do nasm and ld). No single action is assumed fair, and no choice: an
endless file is excluded by `MaxTokens`, because a file is finite.

## 4. What is proved

For every value of the constants (TLAPS):

* `DeclarationsProofs`, its first part, of `Storage` alone - `TypeCorrect`; `ValuesDisjoint`: `Spec => []NoOverlap`, resets in write lists included;
  `LayoutAgreement`: if no literal is longer than 255 characters, `[]LayoutAgrees`.
  Invariant: every counter is at or past the end of every value of its area,
  `Base(a) + next[a] = loc[a]` for the static areas, and what is left over is a temporary
  beside which there is no other temporary but its buffer, at address 0 (`LeftInv`). It needs `TmpSize % 256 = 0`
  (0x10000 in the code): otherwise `alignb 256` pads after TMP while the compiler's
  counter starts at 0. The steps are `Allocates`, any calls without `Storage`'s bounds, so
  that a caller's proof can use the lemmas.
* `DeclarationsProofs`, of `Declarations` - for any names, folding, hash and number of slots. Every step of
  `Declarations` allocates, resets or leaves the storage alone, so `DeclValuesDisjoint`
  (`[]NoOverlap`: the calls of commands as well, with the resets of nested commands and
  write lists; a value is left over only while the parser is writing it, `WritingInv`) and `DeclLayoutAgreement` (`[]LayoutAgrees`, for literals of up to 255
  characters) hold under the calls the parser makes. `NamesFound` (`[]NamesFindSymbols`)
  needs that every symbol is in the slot of its name and no name has two (`TableInv`).
  `SymbolsDescribed` (`[]SymbolsHaveValues`) and `UsesDeclared` (`[]UsesAreDeclared`) need what
  the code relies on when it uses `is_new_identifier` a token later: up to three pointers (the
  lookahead, the last token, the symbol being declared) are to identifiers without a value,
  they are different, and nothing was written to them yet (`PointersInv`). From the same
  invariant, `TableIsSet` (`DeclSpec => ImplementsSymbolSet`): every step adds one symbol
  of a name that had none (`Grew`), describes one (`Wrote`), or is a stutter.
  `DeclTypeCorrect`.
* `StructuredCodeProofs` - `TypeCorrect`, `UnitsKeepLabels`, `Labelled`
  (`Spec => []WellLabelled`), `PromiseLabelled` (the same for whatever keeps the
  promise until it reports an error). `WellLabelled` is not inductive: it says
  nothing of a jump whose target will be defined later. `UnitInv` adds that every
  such target is the awaited label of an open unit, that open units have disjoint
  labels below the counter, and that none of their pending labels is defined yet.
* `CommandsProofs` - `KeepsThePromise`: `Spec => ImplementsStructuredCode`, for files
  of any length and any nesting. The mapping makes a unit of every frame. The
  invariant is `TypeOK`, `PhasesInv` (a frame that is not the top one is inside its
  body or its else; the top one's phase fits `pc`) and `LabelsHeld`: while no kind has
  nested in itself, the static buffers hold the labels of the one open frame of their
  kind. That is the fact the C code relies on without saying so, and it is just what
  `nested` breaks. Each action then is a step of the generator, of the environment
  (an error), or a stutter. `AcceptedLabelled` (`Spec => []AcceptedIsLabelled`) follows from
  this and `PromiseLabelled`: the property of the abstract generator is inherited
  by the code. `TypeCorrect`.
  The second part of the module is `ErrorsLoseLabels`: a program whose error was printed and forgotten
  (finding 2) jumps to a label that is not defined. An `if` that fails at the end of the
  file has generated its jump and never generates the label, but the invariant cannot
  just follow that label: if the `if` is inside another one, the outer one then defines
  the label in the buffer, which is the inner one's, and it is the outer one's own that is
  missing. So `ErrorInv` speaks of *some* label: as soon as two conditionals are
  open, or one was dropped and another is started, a label is jumped to, not defined, and
  in no buffer (`Lost`), and nothing the parser does can define it again; before that,
  the only open conditional's labels are in the buffers (`OneIf`), or the dropped one's are
  (`Dropped`). Every action keeps this, loops in any nesting included.
  The third part is `SentencesAccepted` (`Spec => []AcceptsSentences`): what is accepted, of any
  length, is a sentence of `Statements`. Its grammar is a recursive function of the number
  of tokens; that it has a solution (`LevelsAre`) is shown with the smallest number for which
  something fails, and `Productions` says what each production makes. The invariant
  (`SentenceInv`) divides the tokens read among the frames: a program, then for every frame the
  head of its statement, perhaps a first body and `else` (`Begun`), perhaps a brace and
  commands (`Opened`), then what the innermost function has read (`ReadSoFar`, by `pc`).
  After an error nothing is claimed, and `Wrong` stays. That a stale token never
  completes a statement is in the step of every match.
  The last part is about `Driver`: every behaviour of the driver is one of `Commands`
  (`MainParses`), so `CompilerKeepsThePromise` and `CompilerLabels` hold of the whole
  compiler, and so does `CompilerSentences`; `FilesRemoved` (`[]NoFilesLeft`) and `ExitStatus` (`[]ExitTells`), whatever
  fails and in whatever order: their invariants say for every stage which files exist,
  and which exit status has been decided. `ExecutablesSound` (`[]ExecutablesAreSound`): an
  executable needs an object, an object needs valid labels (`SoundInv`), and
  `ErrorsLoseLabels` says that forgotten errors leave none. `DriverTypeCorrect`.
* `OutputPassesProofs` - `TypeCorrect`; `PeepholeCorrect`
  (`Spec => []NoImpact`); `SectionsCorrect` (`Spec => []SectionsKept`).
  `NoImpact` is not inductive: while a second mov is awaited, the remembered
  register must still hold what is at the remembered place. `Denotes` and `Effect`
  are arbitrary operators, so this is independent of the instruction set.

* `ExpressionsProofs` - for commands of any length, over any literals and symbols:
  `TypeCorrect` (`[]TypeOK`), `NoAssertion` (`[]NoAssertionFails`), `OperandsStay`
  (`[]OperandsIntact`). None is inductive. `IInv` says of every value that a function on the
  stack holds, and of the one just returned to a function that waits for it, that it is in
  place (`InPlace`): a type of L with the size of that type, wholly below `gen.next` if it is a
  temporary, and the only value stored at its address. An operation keeps what is in place
  (`Keeps`), because it stores at `gen.next` or behind it only, and puts its result in place.
  Constants and variables stay in place because only the last step of a command stores at
  a variable; `readln`, which stores earlier, is alone on the stack. The operator a frame
  holds is one of its function's (`FrameOK`), which with the types is what the assertions are about.
  That variables do not overlap (`PlacesAssumption`) is what `SymbolsDescribed` and
  `DeclValuesDisjoint` show of `Declarations`.
  `EffectsMeant` (`[]EffectsAreMeant`) compares with the grammar of `Phrases`. Its invariant,
  `MeantInv`, divides the input among the functions on the stack (`Linked`): each has read a
  phrase that it holds the value of, and tokens it has matched since (`HasRead`); what it has
  called may only begin what its caller waits for (`Under`, `Begun`), and what has just
  returned is a whole phrase with its type and meaning (`Means`, `Told`). One lemma for each
  function that takes a step. The grammar is a recursive function that computes what has n
  tokens from what has fewer; that it has a solution, that a level stays as it is when later
  ones are added, and which levels a joined phrase comes from, are lemmas of their own.
* `PhrasesProofs` - `ErrorsFound` (`[]ErrorsAreErrors` of the expression parser), the other
  direction, for the same commands: nothing well typed is rejected. `MeantInv` looks back;
  `ForeseenInv` looks ahead. It says that, as long as there is no error, every sentence that goes
  on from the input and the next token goes on with what the functions on the stack are left to
  read, from the innermost one to the command's (`Remains`; for one function and place, `Comes`).
  A loop may be left to read any number of rounds (`Continues`); that a left-recursive
  production is such a loop (`Divides`) is shown with the shortest phrase that would be none. The invariant is kept since the grammar leaves the
  parser no choice: the next token tells which production applies, and an operator that
  follows a phrase belongs to the innermost loop that has it (`FollowIs`). `ResumeLeaves`,
  `CallLeaves` and `ReturnLeaves` are the three kinds of steps. Where a step reports an
  error, nothing can be left, and so no sentence goes on.
* `LexerProofs` - for files of any size and a buffer of any size: `LongestMatchHolds`,
  `ErrorsHold`, `LineHolds`, `LexemeHolds`, `EmptyEntryHolds` and `TypeCorrect`, the six
  invariants of the run. The invariant relates the state of the automaton to the text since the last
  place where a token may begin (`Begun`), and says that what is before it is blanks and
  comments, with nothing left to decide (`Decided`). `Starts` is a recursive function; that its
  definition has a solution, and that this is the least closed set, is shown with least
  counterexamples in sets of numbers. `RestStep` then says how the rest changes with a
  character: it goes on, or nothing remains of it. That a token is the longest, and an error one,
  is that no completion of a text is a lexeme: the lemmas on the first
  characters of lexemes. Lines are known up to the last character (`Fed`), as the counter is
  a character late.
* `RuntimeProofs` - for any variables, memory, lines and sizes of strings (from the eight bytes
  on that `read_logic` compares): `TypeCorrect`, `NumbersAreRead` (`[]ReadsNumbers`),
  `ValuesAreWritten` (`[]WritesValues`), and the three action properties `WordsAreRead`,
  `OthersAreKept`, `WrittenIsReadBack` (`RoundTrip`). `DigitsRead` is by induction over the digits
  of a line of any length: the register holds the number modulo a word as long as no product left
  it; once one did, it is `Invalid` for good; and it can hold a number of more than a word
  only if that number begins with 2^32 to 2^32 + 3, because only the sum of the last digit
  is not looked at (`Registered`). `IntegerWritten` says that what
  `write_integer` pushes are the digits of the number, without a leading zero. The
  invariant needs, for a boolean that is read back, what the command before left in the buffer
  (`LeftBehind`): `write_logic` puts NULs into all of the eight bytes. Neither that variables
  do not overlap nor that booleans are 0 or 1 is assumed: a string that is longer than its
  variable can make them something else.

The type invariants of `StructuredCode`, `Storage` (inside `DeclTypeOK`) and `OutputPasses` have their
proofs and no run of their own.

Only model-checked:

* `Exits`, `Terminates`: liveness is out of the prover's reach.

## 5. Findings

Each is a run that expects a violation, and was reproduced with the compiler:
by its exit status or in the assembly it writes.

1. `commands_nested`: a `while` inside a `while` (an `if` inside an `if`) overwrites
   the outer one's labels: duplicate and missing labels.
2. `commands_errors`: `if (true)` at the end of the file prints an error, and
   compiles with status 0.
3. `passes_labels`: the peephole pass drops the load of a loop's condition if the line
   before the loop stored the same variable from the same register.
4. `expressions_write`: a boolean is written by testing eight bytes, so that a false
   one is written as `true` if the variables after it are not zero.

Not runs, but worth knowing. Most are the exceptions of a property that holds otherwise:

* Parser: `if (c) x := 1; else { ... }` goes into `UNREACHABLE()` (`semantic_and_syntatic.c:1160`,
  the body of the else is parsed as a command without a look at the token); `int x` with
  blanks after it at the end of the file does too (617, `get_lexeme_from_token` of a zeroed
  token). A leading `+` negates its operand like `-` does (`First` in
  `Expressions`, `semantic_and_syntatic.c:857`), the exception of `EffectsAreMeant`.
* Lexer: a word of exactly 513 characters fails an assertion in `symbol_table_search`, a
  constant of that length is left without a NUL; the last line needs a line feed for its last
  token to be seen; `entry.line` is the line before the last line feed.
* Storage: the padding of a literal of more than 255 characters wraps around
  (`codegen.c:571`: nasm is asked for 2^64 bytes). Nothing keeps the temporaries
  of one long expression within the 64 kB at `TMP` (`TmpFits` is the condition of
  `NoOverlap`; a sum of 9000 terms compiles and stores over the variables).
* Run-time code: numbers from 2^32 to 2^32 + 3, and all longer ones that begin with one of
  these, are read as small ones (42949672990 as 30); the least number is
  written wrongly; a line of 256 characters or more puts a NUL behind its string; `false`
  typed after a longer line may be refused; at the end of the input the buffer is parsed
  again; `true` is written with a NUL after it. From a pipe, `read` may deliver several
  lines at once, and everything after the first is lost or misread: the model's lines are those of a terminal.
* Driver: `codegen_init` and `codegen_dump` may fail and the status be 0; an error in the
  first token leaves the temporary file behind.

## 6. Not modelled, and why

* Floating point at run time (`read_float`, `write_float`, the SSE instructions of
  expressions): `Runtime` is therefore partly modelled. The types and temporaries of floating
  point values are in `Expressions`.
* NUL and 0xFF bytes in the source (they end the file or a lexeme in ways that depend on the C
  library), `extract_filename`, error texts, comments in the generated code: formatting.
* Indices outside their string: the generated code does not check them
  (`codegen.c:1319`, `1690`) and reads or writes whatever variable is there. In
  `Expressions` an index is a value that is not interpreted, and an indexed
  assignment changes its string only (`MovedIdx`, `MoveIdxToTmp`).
* Assertions of `codegen.c` that repeat the rule their caller has just applied
  to the same value (conversions, negations, indices, assignments, conditions: 639, 663,
  691, 1228, 1307-1309, 1675, 1720, 1753). The guards of the actions are these rules, so
  there is no failing branch; `NoAssertionFails` is about those of the binary
  operations, which rely on conversions made in between.
* nasm, ld, the processor: external; what the modules use of them is marked so in
  the map.
* The 32-byte operand buffers of `perform_peephole`: what an overrun does is
  undefined; the modules copy operands whole. It is listed as a hazard.
* Five hazards have no property, each with its reason in `PROJECT.json`: temporaries
  past the 64 kB, and the padding of long literals (nothing in the code prevents them:
  `TmpFits` and the bound on literals are conditions), the operand buffers above, reads
  at the end of the input, and indices outside their string.
* The build files, samples and checked-in assembly have no logic of the compiler.

## 7. What is next

* Floating point at run time in `Runtime`: `read_float` and `write_float` scale by powers of
  ten and round at every step, so a result can only be stated up to a bound of the error.
* How much of `TMP` one expression can use: `TmpFits` is the condition of `NoOverlap`, and a bound
  in the number of terms would say for which programs it holds.
