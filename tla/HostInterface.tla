---------------------------- MODULE HostInterface ----------------------------
(***************************************************************************)
(* What the header and the README promise the host and the script's author *)
(* about avrvm_exec, and the code does not keep.                           *)
(***************************************************************************)
EXTENDS TestVM

(* "non-negative: index of called host API function" (avrvm.h): a call of  *)
(* an address at or above 32k returns that address's place in the table.   *)
(* The code of call returns Z's.                                           *)
HostCallReportsIndex ==
  [][instr = "call" /\ Target >= AVRVM_MAX_FLASH_WORDS
     => rc' = Target - AVRVM_MAX_FLASH_WORDS]_vars

(* "Instruction set is same as in AVR MCUs" (README): cbi clears one bit   *)
(* of a port and leaves the others.  The code sets the others.             *)
CbiClearsOneBit ==
  [][instr = "cbi"
     => LET a == 32 + port(instr, opcode)
        IN  readmem(ctx', a) = ByteOf(BitsOf(readmem(ctx, a)) \ {BitNumber})]_vars

(* "Addresses above 32k are treated as a table of ROMed functions"         *)
(* (avrvm.h): no instruction is ever fetched from there.  The code does    *)
(* after a jump, and so after a call the compiler made a tail call.        *)
NoCodeInHostTable == [][ctx.pc < AVRVM_MAX_FLASH_WORDS]_vars

=============================================================================
