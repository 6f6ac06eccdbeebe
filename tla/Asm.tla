-------------------------------- MODULE Asm --------------------------------
(***************************************************************************)
(* The assembler commands of jacc: the operands and opcodes declared in    *)
(* generator.h, commands.def and registers.def, and the operand            *)
(* constructors of generator.c.                                            *)
(*                                                                         *)
(* A command is [type, ops], where "ops" holds exactly the operands its    *)
(* opcode takes.  Every memory operand of the generator is built by        *)
(* memory() with no index register and scale 1, so an operand is a base    *)
(* (a register or a label), an offset and an access size.                  *)
(***************************************************************************)
EXTENDS Integers, Sequences

Reg(r)   == [kind |-> "register", reg |-> r]
Const(v) == [kind |-> "constant", value |-> v]
Label(l) == [kind |-> "label", label |-> l]
Mem(base, offset) ==
  [kind |-> "memory", base |-> base, offset |-> offset, size |-> "dword"]

eax == Reg("eax")
ebx == Reg("ebx")
ecx == Reg("ecx")
edx == Reg("edx")
esp == Reg("esp")
ebp == Reg("ebp")
cl  == Reg("cl")

Deref(base) == Mem(base, 0)

SizeSpec(size, op) == IF op.kind = "memory" THEN [op EXCEPT !.size = size] ELSE op
Dword(op) == SizeSpec("dword", op)
Qword(op) == SizeSpec("qword", op)

IsReg(op)   == op.kind = "register"
IsConst(op) == op.kind = "constant"
IsMem(op)   == op.kind = "memory"

\* A numbered label (gen_label) and a named one (text_label).
NumLabel(id)    == [id |-> id, name |-> ""]
TextLabel(name) == [id |-> -1, name |-> name]

Cmd(type, ops) == [type |-> type, ops |-> ops]

\* ASM_TEXT: a label line, the only text the program's meaning depends on.
LabelLine(l) == [type |-> "text", ops |-> <<Label(l)>>]
\* A text line that is a comment: "; unknown binary node" and its kind.
Comment      == [type |-> "text", ops |-> << >>]
Nop          == [type |-> "nop", ops |-> << >>]

IsText(c) == c.type = "text"
IsNop(c)  == c.type = "nop"
=============================================================================
