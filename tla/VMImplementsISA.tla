--------------------------- MODULE VMImplementsISA ---------------------------
(***************************************************************************)
(* The refinement mapping from the virtual machine to the instruction set: *)
(* the context's fields and the host's storage, laid out one after the     *)
(* other, are the flat data memory.                                        *)
(***************************************************************************)
EXTENDS TestVM

Addresses == RegIndex \cup { 32 + p : p \in IoPorts } \cup (Spl .. SregAddr + SramSize)

MemoryOf(c) ==
  [a \in Addresses |->
     CASE a \in RegIndex    -> c.regs[a]
       [] a \in 32..Spl - 1 -> c.io[a - 32]
       [] a = Spl           -> Lo(c.sp)
       [] a = Sph           -> Hi(c.sp)
       [] a = SregAddr      -> ByteOf(c.sreg)
       [] a >= SramBase     -> c.sram[a - SramBase]]

DataSpace == MemoryOf(ctx)

ISA == INSTANCE AvrISA WITH pc <- ctx.pc, mem <- DataSpace

(* Each call of avrvm_exec does to the script's program counter and data   *)
(* memory what the instruction does in the AVR instruction set.            *)
ImplementsISA == ISA!Spec

(* The two kinds of step that do not: cbi of a port with storage, and call *)
(* of a host function whose address is not the one Z holds.                *)
Departs ==
  \/ instr = "cbi" /\ port(instr, opcode) \in IoPorts
  \/ instr = "call" /\ Target >= AVRVM_MAX_FLASH_WORDS /\ WordReg(ctx, Z) # Target

=============================================================================
