------------------------------ MODULE CallTrace ------------------------------
(***************************************************************************)
(* The calls a script has made and not returned from, kept beside the      *)
(* virtual machine while it runs.  A frame is the stack pointer before the *)
(* call, which no two frames share, and the address of the instruction     *)
(* after the call.                                                         *)
(*                                                                         *)
(* The machine itself has no notion of a frame: a return address is two    *)
(* bytes in memory that any push may reuse and nothing stops the stack at  *)
(* the bottom of the SRAM, below which lie sreg and the stack pointer.     *)
(***************************************************************************)
EXTENDS TestVM

VARIABLE frames   \* from the stack pointer before a call to its return address

tracevars == << flash, ctx, rc, status, steps, frames >>

(* The instruction is a call of the script's own code.                     *)
Calling == \/ instr = "rcall"
           \/ instr = "icall" /\ WordReg(ctx, Z) < AVRVM_MAX_FLASH_WORDS
           \/ instr = "call"  /\ Target < AVRVM_MAX_FLASH_WORDS

Following == Wrap16(ctx.pc + IF instr \in TwoWords THEN 2 ELSE 1)

Entered == IF Calling
           THEN [s \in DOMAIN frames \cup {ctx.sp} |->
                   IF s = ctx.sp THEN Following ELSE frames[s]]
           ELSE frames

(* The address a store instruction of the script writes to.                *)
Overwritten == IF instr \in Stores THEN {Address}
               ELSE IF instr = "sts" THEN {operand} ELSE {}

(* A frame lives while the stack pointer is below its two bytes and until  *)
(* the script itself stores over one of them.  It counts only if they are  *)
(* SRAM.  Once the stack has run out of the SRAM, pushes overwrite the     *)
(* status register and the stack pointer itself, and nothing is claimed    *)
(* any more.                                                               *)
InSram(s)   == s - 1 >= SramBase /\ s < SramBase + SramSize
Overflow(c) == c.sp < SramBase - 1
Lives(s, c) == InSram(s) /\ c.sp <= s - 2 /\ ~Overflow(c)

Observe ==
  frames' = [s \in { s \in DOMAIN Entered :
                       Lives(s, ctx') /\ {s - 1, s} \cap Overwritten = {} }
               |-> Entered[s]]

TraceInit == HostInit /\ frames = [s \in {} |-> 0]

TraceNext == \/ run_bin /\ Observe
             \/ Over /\ UNCHANGED frames

TraceSpec == TraceInit /\ [][TraceNext]_tracevars

Returning(c, s) == readmem(c, s - 1) + 256 * readmem(c, s)

(* The two bytes of every live frame still hold its return address, the    *)
(* high byte above the low one: no push, pop, nested call, return or       *)
(* access to an I/O register that came after the call has touched them.    *)
FramesIntact == \A s \in DOMAIN frames : Returning(ctx, s) = frames[s]

(* A ret that finds the stack pointer where a live call left it goes to    *)
(* the instruction after that call and puts the stack pointer back,        *)
(* however many calls and returns lie between the two.                     *)
ReturnsToCaller ==
  [][instr = "ret" /\ ctx.sp + 2 \in DOMAIN frames
     => steps' = steps \/ (ctx'.pc = frames[ctx.sp + 2] /\ ctx'.sp = ctx.sp + 2)]_tracevars

=============================================================================
