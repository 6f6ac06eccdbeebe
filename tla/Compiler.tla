------------------------------ MODULE Compiler ------------------------------
(***************************************************************************)
(* "jacc compile" and what its output does: the generator turns a program  *)
(* into an opcode list, the optimizer rewrites the list, and the machine   *)
(* runs the result.                                                        *)
(***************************************************************************)
EXTENDS Generator, Machine, CSemantics

CONSTANTS Programs,      \* the programs, as the parser hands them over
          Fuel           \* 2 ^ Fuel bounds the instructions of one run, above all it needs

VARIABLES data, count, i, pos, frame, pass, match, changed, pc,
          program,       \* the program being compiled
          data_list,     \* code->data_list: what the generator has put in the data section
          machine        \* the state of the machine that runs it

optimizerVars == << data, count, i, pos, frame, pass, match, changed, pc >>
vars == << data, count, i, pos, frame, pass, match, changed, pc, program, data_list, machine >>

Listing(p) == GeneratorProcess(p.functions)
Listings   == {Listing(p).code : p \in Programs}

Optimizer == INSTANCE Optimizer WITH Inputs <- Listings

\* The list as it stands between two rounds, assembled and linked.
Executable == Load(SubSeq(data, 1, count), data_list)

NotStarted == [status |-> "not started"]

Init ==
  /\ program \in Programs
  /\ data = Listing(program).code /\ data_list = Listing(program).data
  /\ Optimizer!Init
  /\ machine = NotStarted

Optimize == Optimizer!Next /\ UNCHANGED << program, data_list, machine >>

Launch ==
  /\ pc = "done" /\ machine = NotStarted
  /\ machine' = Start(Executable)
  /\ UNCHANGED << optimizerVars, program, data_list >>

Execute ==
  /\ machine.status = "running"
  /\ machine' = Step(Executable, machine)
  /\ UNCHANGED << optimizerVars, program, data_list >>

Next == Optimize \/ Launch \/ Execute

\* A sequential program runs to its end.
Spec == Init /\ [][Next]_vars /\ WF_vars(Next)

(***************************************************************************)
(* Properties                                                              *)
(***************************************************************************)

ProgramMeaning == Meaning(program.globals, program.functions)

\* The opcode list the generator builds, and every list the optimizer has between two
\* of its rounds, prints what the C program prints and exits.
RoundsPreserveMeaning ==
  pc = "while" => Run(Executable, Fuel) = [status |-> "exited", out |-> ProgramMeaning]

NextCommand == Executable.code[machine.ip]

\* The function the machine is in: the last one whose label it has behind it.
CurrentFunction ==
  LET labels == {n \in 1 .. machine.ip :
                   LET c == Executable.code[n]
                   IN  IsText(c) /\ c.ops # << >> /\ c.ops[1].label.name # ""}
  IN  program.functions[Cardinality(labels)]

AtReturnLabel ==
  /\ machine.status = "running"
  /\ machine.ip + 1 \in DOMAIN Executable.code
  /\ IsText(NextCommand)
  /\ Executable.code[machine.ip + 1] = Cmd("mov", <<esp, ebp>>)

\* A function comes to its return label with the stack as deep as its prologue left it,
\* by a return statement, or popped to the saved frame, at the end of its body: what an
\* expression pushed has been popped on every path.  "mov esp, ebp" (generator.c:828)
\* hides the opposite, also from the stack corruption check behind it.
FrameBalanced ==
  AtReturnLabel =>
    machine.regs["ebp"] - machine.regs["esp"] \in {0, CurrentFunction.locals_size}

\* It comes there with its result, or nothing, on the FPU's stack of eight registers:
\* what an expression left there would in the end make a later load fail.
FpuBalanced ==
  AtReturnLabel =>
    Len(machine.fpu) <= IF CurrentFunction.symbol.base = sym_double THEN 1 ELSE 0
=============================================================================
