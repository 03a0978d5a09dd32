------------------------------- MODULE Driver -------------------------------
(***************************************************************************)
(* main.c: a compilation from the command line to the exit status, with    *)
(* the files it makes (codegen_init, codegen_dump, codegen_destroy).       *)
(*                                                                         *)
(* The parser is Commands: its steps are steps of the driver.  What main   *)
(* asks of the system - to read, to make, to open a file, to run nasm and  *)
(* ld - may fail each time.                                                *)
(***************************************************************************)
EXTENDS Commands

VARIABLES
  stage,     (* where main or codegen_dump is                              *)
  tmpFile,   (* tmp_file of codegen.c: null or open                        *)
  made,      (* the files this compilation has made and not removed        *)
  options,   (* keep_unoptimized, assemble_and_link                        *)
  exit,      (* the exit status                                            *)
  faults     (* history: what failed                                       *)

driverVars == <<stage, tmpFile, made, options, exit, faults>>
allVars == <<vars, driverVars>>

(* XXXXXX.asm; NAME-removed-sections-XXXXXX.asm, NAME-peephole-XXXXXX.asm; *)
(* NAME.asm, NAME.asm.o and NAME.asm.out.  What an earlier compilation     *)
(* left of the last three stays until this one makes its own.              *)
Files == {"tmp", "removed", "peephole", "asm", "object", "executable"}
Options == [keep : BOOLEAN, assemble : BOOLEAN]

Create(file) == made' = made \union {file}
Unlink(names) == made' = made \ names

At(where) == stage = where /\ UNCHANGED vars
To(where) == stage' = where
Fault(what) == faults' = faults \union {what}

-----------------------------------------------------------------------------
(* main.                                                                   *)

DriverInit ==
  /\ Init
  /\ stage = "main"
  /\ tmpFile = "null"
  /\ made = {}
  /\ options = [keep |-> FALSE, assemble |-> FALSE]
  /\ exit = 0
  /\ faults = {}

(* read_file, symbol_table_create.                                         *)
ReadFile ==
  /\ At("main")
  /\ \/ To("codegen_init") /\ UNCHANGED <<exit, faults>>
     \/ To("done") /\ exit' = -1 /\ Fault("read_file")
  /\ UNCHANGED <<tmpFile, made, options>>

(* Its result is not looked at: mkstemps and fdopen may have failed.       *)
CodegenInit ==
  /\ At("codegen_init") /\ To("first_token")
  /\ \/ Create("tmp") /\ tmpFile' = "open" /\ UNCHANGED faults
     \/ Fault("mkstemps") /\ UNCHANGED <<made, tmpFile>>
     \/ Create("tmp") /\ Fault("fdopen") /\ UNCHANGED tmpFile
  /\ exit' = -1
  /\ UNCHANGED options

(* The first token: found (the one of Commands' Init), none, or an error,  *)
(* which leaves without codegen_destroy.                                   *)
FirstToken ==
  /\ At("first_token")
  /\ \/ To("parse") /\ UNCHANGED faults
     \/ To("destroy") /\ UNCHANGED faults
     \/ To("done") /\ Fault("first_token")
  /\ UNCHANGED <<tmpFile, made, options, exit>>

(* All commands but `;' write to tmp_file (a label or a jump stands for    *)
(* what they write), and so do declarations.                               *)
Generates == code' # code \/ (input' # input /\ entry = "decl")

(* syntatic_start.  fprintf to a null tmp_file crashes.                    *)
Parse ==
  /\ stage = "parse" /\ status = "running"
  /\ Next
  /\ IF tmpFile = "null" /\ Generates
     THEN To("crashed") /\ exit' = 139
     ELSE UNCHANGED <<stage, exit>>
  /\ UNCHANGED <<tmpFile, made, options, faults>>

(* A mistake: the status of the parser is asked for after the dump.        *)
ParsedDumpsAlways ==
  /\ At("parse") /\ status # "running"
  /\ IF status = "aborted"
     THEN To("crashed") /\ UNCHANGED options
     ELSE To("dump") /\ options' \in Options
  /\ exit' = CASE status = "ok"     -> 0
               [] status = "failed" -> -1
               [] OTHER             -> 134
  /\ UNCHANGED <<tmpFile, made, faults>>

(* The options are read before the file; they are chosen here, where they  *)
(* are first looked at.                                                    *)
Parsed ==
  /\ At("parse") /\ status # "running"
  /\ \/ status = "ok" /\ To("dump") /\ exit' = 0 /\ options' \in Options
     \/ status = "failed" /\ To("destroy") /\ exit' = -1 /\ UNCHANGED options
     \/ status = "aborted" /\ To("crashed") /\ exit' = 134 /\ UNCHANGED options
  /\ UNCHANGED <<tmpFile, made, faults>>

-----------------------------------------------------------------------------
(* codegen_dump, whose result main prints.                                 *)

OpenRemoved ==
  /\ At("dump")
  /\ IF tmpFile = "null" THEN To("destroy") /\ UNCHANGED <<made, faults>>
     ELSE \/ To("open_peephole") /\ Create("removed") /\ UNCHANGED faults
          \/ To("destroy") /\ Fault("dump") /\ UNCHANGED made
  /\ UNCHANGED <<tmpFile, options, exit>>

OpenPeephole ==
  /\ At("open_peephole")
  /\ \/ To("open_output") /\ Create("peephole") /\ UNCHANGED faults
     \/ To("destroy") /\ Unlink({"removed"}) /\ Fault("dump")
  /\ UNCHANGED <<tmpFile, options, exit>>

(* A mistake: the first file is removed where it is closed.                *)
OpenOutputForgetting ==
  /\ At("open_output")
  /\ \/ To(IF options.assemble THEN "nasm" ELSE "clean") /\ Create("asm")
        /\ UNCHANGED faults
     \/ To("destroy") /\ Unlink({"peephole"}) /\ Fault("dump")
  /\ UNCHANGED <<tmpFile, options, exit>>

OpenOutput ==
  /\ At("open_output")
  /\ \/ To(IF options.assemble THEN "nasm" ELSE "clean") /\ Create("asm")
        /\ UNCHANGED faults
     \/ To("destroy") /\ Unlink({"peephole", "removed"}) /\ Fault("dump")
  /\ UNCHANGED <<tmpFile, options, exit>>

(* nasm makes an object of an output whose labels are valid.               *)
Nasm ==
  /\ At("nasm")
  /\ \/ LabelsValid /\ To("ld") /\ Create("object") /\ UNCHANGED faults
     \/ To("clean") /\ Fault("nasm") /\ UNCHANGED made
  /\ UNCHANGED <<tmpFile, options, exit>>

Ld ==
  /\ At("ld") /\ To("clean")
  /\ \/ Create("executable") /\ UNCHANGED faults
     \/ Fault("ld") /\ UNCHANGED made
  /\ UNCHANGED <<tmpFile, options, exit>>

Clean ==
  /\ At("clean") /\ To("destroy")
  /\ Unlink({"object", "peephole"} \union IF options.keep THEN {} ELSE {"removed"})
  /\ UNCHANGED <<tmpFile, options, exit, faults>>

(* codegen_destroy, and main returns.                                      *)
CodegenDestroy ==
  /\ At("destroy") /\ To("done")
  /\ IF tmpFile = "open" THEN Unlink({"tmp"}) ELSE UNCHANGED made
  /\ tmpFile' = "null"
  /\ UNCHANGED <<options, exit, faults>>

Ended == stage \in {"done", "crashed"} /\ UNCHANGED allVars

DriverNext ==
  \/ ReadFile \/ CodegenInit \/ FirstToken \/ Parse \/ Parsed
  \/ OpenRemoved \/ OpenPeephole \/ OpenOutput \/ Nasm \/ Ld \/ Clean
  \/ CodegenDestroy \/ Ended

(* One process that is scheduled, and no call of its never returns.        *)
DriverSpec == DriverInit /\ [][DriverNext]_allVars /\ WF_allVars(DriverNext)

-----------------------------------------------------------------------------
(* Properties.                                                             *)

DriverTypeOK ==
  /\ TypeOK
  /\ stage \in {"main", "codegen_init", "first_token", "parse", "dump",
                "open_peephole", "open_output", "nasm", "ld", "clean",
                "destroy", "done", "crashed"}
  /\ tmpFile \in {"null", "open"}
  /\ made \subseteq Files
  /\ options \in Options
  /\ exit \in {-1, 0, 134, 139}

(* Whatever failed, no file of the compiler's own is left, but             *)
(* - the unoptimised assembly, if it was asked for and the dump succeeded; *)
(* - the temporary file, if the first token was an error, if it could not  *)
(*   be opened after it was made, or if the compiler crashed.              *)
NoFilesLeft ==
  stage \in {"done", "crashed"} =>
    /\ "peephole" \notin made /\ "object" \notin made
    /\ "removed" \in made => options.keep /\ "asm" \in made
    /\ "tmp" \in made =>
         stage = "crashed" \/ faults \intersect {"first_token", "fdopen"} # {}

(* A compilation that says it failed has not touched what an earlier one   *)
(* made, and one that says it succeeded has written the assembly, unless a *)
(* file could not be made.                                                 *)
ExitTells ==
  stage \in {"done", "crashed"} =>
    IF exit = 0
    THEN "asm" \in made \/ faults \intersect {"dump", "mkstemps", "fdopen"} # {}
    ELSE "asm" \notin made /\ "executable" \notin made

(* An executable is made only of a program without an error message, even  *)
(* though some errors end with success: nasm refuses what is left then.    *)
ExecutablesAreSound ==
  "executable" \in made => Accepted /\ exit = 0

(* Every compilation ends, by whatever way.                                *)
Exits == <>(stage \in {"done", "crashed"})
=============================================================================
