------------------------------- MODULE AvrVM -------------------------------
(***************************************************************************)
(* The virtual machine: avrvm_init and avrvm_exec, with the memory that    *)
(* the host's callbacks serve.  A step of Exec is one call of avrvm_exec;  *)
(* every disjunct of it is one case, or a group of cases that differ only  *)
(* in the value computed, of the switch over the decoded instruction.      *)
(*                                                                         *)
(* The C code stores the stack pointer and the register file in unions of  *)
(* bytes and little-endian words.  Here sp is a word, the registers are    *)
(* bytes, and the other views are computed: Lo and Hi of sp, WordReg.      *)
(* The status register is the set of its flags, see AvrALU.                *)
(*                                                                         *)
(* The storage behind the callbacks is modelled with the context.  SRAM    *)
(* cells and I/O registers that the host does not have read as zero and    *)
(* ignore writes, as in testvm.c.                                          *)
(*                                                                         *)
(* Definitions with a capitalised suffix are slips, see AvrALU.            *)
(***************************************************************************)
EXTENDS AvrALU, AvrDecoder

CONSTANTS
  FlashWords,   \* size of the flash the host emulates; addresses wrap at it
  SramSize,     \* bytes of SRAM
  IoPorts,      \* I/O registers that have storage (testvm: none, hello: all)
  Words,        \* every word that occurs in a program
  Programs      \* the flash contents considered

AVRVM_N_IO_REGS       == 61
AVRVM_MAX_FLASH_WORDS == 32768

ASSUME FlashAssumption == FlashWords \in Nat \ {0} /\ FlashWords <= 65536
ASSUME SramAssumption  == SramSize \in Nat /\ SramSize <= 65440
ASSUME IoAssumption    == IoPorts \subseteq 0 .. AVRVM_N_IO_REGS - 1
ASSUME WordsAssumption == Words \subseteq Word
ASSUME ProgramsAssumption ==
  /\ Programs # {}
  /\ Programs \subseteq [1 .. FlashWords -> Words]

VARIABLES
  flash,   \* the script's binary
  ctx,     \* avrvm_ctx_t, and the contents of SRAM and of the I/O registers
  rc       \* what the last call of avrvm_exec returned

vars == << flash, ctx, rc >>

AVRVM_RC_UNDEF_INSTR == -5
AVRVM_RC_WDR         == -4
AVRVM_RC_BREAK       == -3
AVRVM_RC_SLEEP       == -2
AVRVM_RC_OK          == -1

RegIndex  == 0 .. 31
SramIndex == 0 .. SramSize - 1

Context == [pc   : Word, sp : Word, sreg : Sreg,
            regs : [RegIndex -> Byte],
            sram : [SramIndex -> Byte], io : [IoPorts -> Byte]]

-----------------------------------------------------------------------------
(* Memory.  The data space is the registers, the I/O registers, spl, sph,  *)
(* sreg and the SRAM, in this order.                                       *)

SramBase == 32 + 64
Spl      == 32 + 61
Sph      == 32 + 62
SregAddr == 32 + 63

(* The host's flash_r callback; hello and testvm both wrap the address.    *)
flash_r(i) == flash[(i % FlashWords) + 1]

sram_r(c, a) == IF a \in SramIndex THEN c.sram[a] ELSE 0
io_r(c, p)   == IF p \in IoPorts THEN c.io[p] ELSE 0

sram_w(c, a, b) == IF a \in SramIndex THEN [c EXCEPT !.sram[a] = b] ELSE c
io_w(c, p, b)   == IF p \in IoPorts THEN [c EXCEPT !.io[p] = b] ELSE c

readmem(c, a) ==
  CASE a >= SramBase     -> sram_r(c, a - SramBase)
    [] a \in RegIndex    -> c.regs[a]
    [] a \in 32..Spl - 1 -> io_r(c, a - 32)
    [] a = Spl           -> Lo(c.sp)
    [] a = Sph           -> Hi(c.sp)
    [] a = SregAddr      -> ByteOf(c.sreg)

writemem(c, a, b) ==
  CASE a >= SramBase     -> sram_w(c, a - SramBase, b)
    [] a \in RegIndex    -> [c EXCEPT !.regs[a] = b]
    [] a \in 32..Spl - 1 -> io_w(c, a - 32, b)
    [] a = Spl           -> [c EXCEPT !.sp = 256 * Hi(@) + b]
    [] a = Sph           -> [c EXCEPT !.sp = Lo(@) + 256 * b]
    [] a = SregAddr      -> [c EXCEPT !.sreg = BitsOf(b)]

push_PreDecrement(c, b) ==
  writemem([c EXCEPT !.sp = Wrap16(@ - 1)], Wrap16(c.sp - 1), b)

(* The stack pointer moves before the access, so that a push or pop at     *)
(* spl or sph sees, and is overwritten in, the moved pointer.              *)
push(c, b)  == writemem([c EXCEPT !.sp = Wrap16(@ - 1)], c.sp, b)
Popped(c)   == [c EXCEPT !.sp = Wrap16(@ + 1)]
pop(c)      == readmem(Popped(c), Popped(c).sp)

pushw_LowFirst(c, w) == push(push(c, Lo(w)), Hi(w))

pushw(c, w) == push(push(c, Hi(w)), Lo(w))
popw(c)     == pop(c) + 256 * pop(Popped(c))

(* ctx->regsw[n], and X, Y and Z.                                          *)
WordReg(c, n)    == c.regs[2 * n] + 256 * c.regs[2 * n + 1]
SetWord(c, n, w) == [c EXCEPT !.regs[2 * n] = Lo(w), !.regs[2 * n + 1] = Hi(w)]

X == 13
Y == 14
Z == 15

-----------------------------------------------------------------------------
(* Fetch and decode.  The table of decoded words is a constant, so that    *)
(* TLC matches each word against the patterns only once.                   *)

Decoded == [w \in Words |-> avr_decode(w)]

opcode == flash_r(ctx.pc)
instr  == Decoded[opcode]

fetched == [ctx EXCEPT !.pc = Wrap16(@ + 1)]

(* The instruction's second word, and the context after it is taken.       *)
operand  == flash_r(fetched.pc)
fetched2 == [ctx EXCEPT !.pc = Wrap16(@ + 2)]

Rd == rd(instr, opcode)
Rr == rr(instr, opcode)
RD == ctx.regs[Rd]
RR == ctx.regs[Rr]

(* The right operand of the two-operand instructions.                      *)
Source == IF instr \in UpperImm THEN imm(instr, opcode) ELSE RR

skip_instr_OneWord(c) == [c EXCEPT !.pc = Wrap16(@ + 1)]

skip_instr(c) ==
  [c EXCEPT !.pc = Wrap16(@ + IF Decoded[flash_r(@)] \in TwoWords THEN 2 ELSE 1)]

Return(c, code) ==
  /\ ctx' = c
  /\ rc' = code
  /\ UNCHANGED flash

Ok(c) == Return(c, AVRVM_RC_OK)

-----------------------------------------------------------------------------
(* Arithmetic and logic.                                                   *)

(* Store the result in RD and the flags in sreg; Flags keeps only those.   *)
Result(out) == Ok([fetched EXCEPT !.regs[Rd] = out.res, !.sreg = out.sreg])
Flags(out) == Ok([fetched EXCEPT !.sreg = out.sreg])
ResultWord(n, out) == Ok(SetWord([fetched EXCEPT !.sreg = out.sreg], n, out.res))

Add     == /\ instr \in {"add", "adc"}
           /\ Result(AluAdd(instr, RD, RR, ctx.sreg))
Sub     == /\ instr \in {"sub", "subi", "sbc", "sbci"}
           /\ Result(AluSub(instr, RD, Source, ctx.sreg))
Neg     == /\ instr = "neg"
           /\ Result(AluSub(instr, 0, RD, ctx.sreg))
Compare == /\ instr \in {"cp", "cpi", "cpc"}
           /\ Flags(AluSub(instr, RD, Source, ctx.sreg))
AddWord == /\ instr \in WordImm
           /\ ResultWord(Rd, AluWord(instr, WordReg(ctx, Rd),
                                    imm(instr, opcode), ctx.sreg))
Logic   == /\ instr \in {"and", "andi", "or", "ori", "eor"}
           /\ Result(AluLogic(instr, RD, Source, ctx.sreg))
Com     == /\ instr = "com"
           /\ Result(AluCom(RD, ctx.sreg))
IncDec  == /\ instr \in {"inc", "dec"}
           /\ Result(AluIncDec(instr, RD, ctx.sreg))
Mul     == /\ instr \in {"mul", "muls", "mulsu"}
           /\ ResultWord(0, AluMul(instr, RD, RR, ctx.sreg))
FMul    == /\ instr \in {"fmul", "fmuls", "fmulsu"}
           /\ ResultWord(0, AluFMul(instr, RD, RR, ctx.sreg))
Shift   == /\ instr \in {"lsr", "ror", "asr"}
           /\ Result(AluShift(instr, RD, ctx.sreg))
Swap    == /\ instr = "swap"
           /\ Ok([fetched EXCEPT !.regs[Rd] = AluSwap(RD)])

-----------------------------------------------------------------------------
(* Branches, calls and skips.                                              *)

Jump(c, target) == [c EXCEPT !.pc = Wrap16(target)]

Relative_FromSelf == ctx.pc + pc_offset(instr, opcode)

Relative == fetched.pc + pc_offset(instr, opcode)

(* The target of call and jmp; the 22-bit address is cut to 16 bits.       *)
Target == Wrap16(operand + 65536 * addr_msbyte(instr, opcode))

Rjmp == /\ instr = "rjmp"
        /\ Ok(Jump(fetched, Relative))
Ijmp == /\ instr = "ijmp"
        /\ Ok(Jump(fetched, WordReg(ctx, Z)))
Jmp  == /\ instr = "jmp"
        /\ Ok(Jump(fetched, Target))

Rcall == /\ instr = "rcall"
         /\ LET called == pushw(fetched, fetched.pc)
            IN  Ok(Jump(called, called.pc + pc_offset(instr, opcode)))

(* A target at or above AVRVM_MAX_FLASH_WORDS is a host function: the pc   *)
(* stays after the call and the function's index is returned.              *)
Icall == /\ instr = "icall"
         /\ LET z == WordReg(ctx, Z)
            IN  IF z < AVRVM_MAX_FLASH_WORDS
                THEN LET called == pushw(fetched, fetched.pc)
                     IN  Ok(Jump(called, WordReg(called, Z)))
                ELSE Return(fetched, z - AVRVM_MAX_FLASH_WORDS)

Call_IntoOperand ==
  /\ instr = "call"
  /\ IF Target < AVRVM_MAX_FLASH_WORDS
     THEN Ok(Jump(pushw(fetched, fetched.pc), Target))
     ELSE Return(fetched2, WordReg(ctx, Z) - AVRVM_MAX_FLASH_WORDS)

Call == /\ instr = "call"
        /\ IF Target < AVRVM_MAX_FLASH_WORDS
           THEN Ok(Jump(pushw(fetched2, fetched2.pc), Target))
           ELSE Return(fetched2, WordReg(ctx, Z) - AVRVM_MAX_FLASH_WORDS)

Ret == /\ instr = "ret"
       /\ Ok(Jump(Popped(Popped(fetched)), popw(fetched)))

SkipIf(cond) == Ok(IF cond THEN skip_instr(fetched) ELSE fetched)

PortValue == readmem(ctx, 32 + port(instr, opcode))
BitNumber == bit(instr, opcode)

SkipEqual == /\ instr = "cpse"
             /\ SkipIf(RD = RR)
SkipReg   == /\ instr \in {"sbrs", "sbrc"}
             /\ SkipIf((Bit(RR, BitNumber) = 1) = (instr = "sbrs"))
SkipPort  == /\ instr \in {"sbis", "sbic"}
             /\ SkipIf((Bit(PortValue, BitNumber) = 1) = (instr = "sbis"))
Branch    == /\ instr \in {"brbc", "brbs"}
             /\ Ok(IF (BitNumber \in ctx.sreg) = (instr = "brbs")
                   THEN Jump(fetched, Relative) ELSE fetched)

-----------------------------------------------------------------------------
(* Data transfer.                                                          *)

PlainPointers == {"ld_x", "ldd_y", "ldd_z", "st_x", "std_y", "std_z"}
PostIncrement == {"ld_x_inc", "ld_y_inc", "ld_z_inc",
                  "st_x_inc", "st_y_inc", "st_z_inc"}
PreDecrement  == {"ld_x_dec", "ld_y_dec", "ld_z_dec",
                  "st_x_dec", "st_y_dec", "st_z_dec"}
Loads  == {"ld_x", "ldd_y", "ldd_z", "ld_x_inc", "ld_y_inc", "ld_z_inc",
           "ld_x_dec", "ld_y_dec", "ld_z_dec"}
Stores == {"st_x", "std_y", "std_z", "st_x_inc", "st_y_inc", "st_z_inc",
           "st_x_dec", "st_y_dec", "st_z_dec"}

(* The pointer register of an indirect access, the address it yields and   *)
(* the context after its side effect, which C completes before the access. *)
Ptr == CASE instr \in {"ld_x", "ld_x_inc", "ld_x_dec",
                       "st_x", "st_x_inc", "st_x_dec"}     -> X
         [] instr \in {"ldd_y", "ld_y_inc", "ld_y_dec",
                       "std_y", "st_y_inc", "st_y_dec"}    -> Y
         [] instr \in {"ldd_z", "ld_z_inc", "ld_z_dec",
                       "std_z", "st_z_inc", "st_z_dec"}    -> Z

Displacement == IF instr \in Displaced THEN ptr_displacement(instr, opcode) ELSE 0

Address == Wrap16(WordReg(ctx, Ptr) + IF instr \in PreDecrement THEN -1
                                      ELSE Displacement)

Moved == CASE instr \in PlainPointers -> fetched
           [] instr \in PostIncrement -> SetWord(fetched, Ptr, Wrap16(Address + 1))
           [] instr \in PreDecrement  -> SetWord(fetched, Ptr, Address)

Mov  == /\ instr = "mov"
        /\ Ok([fetched EXCEPT !.regs[Rd] = RR])
Movw == /\ instr = "movw"
        /\ Ok(SetWord(fetched, Rd, WordReg(ctx, Rr)))
Ldi  == /\ instr = "ldi"
        /\ Ok([fetched EXCEPT !.regs[Rd] = imm(instr, opcode)])

Load == /\ instr \in Loads
        /\ Ok([Moved EXCEPT !.regs[Rd] = readmem(Moved, Address)])
Lds  == /\ instr = "lds"
        /\ Ok([fetched2 EXCEPT !.regs[Rd] = readmem(fetched2, operand)])

(* In writemem(ctx, X++, RR) the side effect on X and the read of RR are   *)
(* unsequenced: where RR is a half of the pointer either value is written. *)
Store == /\ instr \in Stores
         /\ \E b \in {RR, Moved.regs[Rr]} : Ok(writemem(Moved, Address, b))
Sts   == /\ instr = "sts"
         /\ Ok(writemem(fetched2, operand, RR))

(* A byte of the flash: bit 0 of Z selects the half of the word at Z / 2.  *)
FlashByte == LET z == WordReg(ctx, Z)
                 w == flash_r(z \div 2)
             IN  IF z % 2 = 1 THEN Hi(w) ELSE Lo(w)

Lpm == \/ /\ instr = "lpm"
          /\ Ok([fetched EXCEPT !.regs[Rd] = FlashByte])
       \/ /\ instr = "lpm_r0"
          /\ Ok([fetched EXCEPT !.regs[0] = FlashByte])
       \/ /\ instr = "lpm_inc"
          /\ LET loaded == [fetched EXCEPT !.regs[Rd] = FlashByte]
             IN  Ok(SetWord(loaded, Z, Wrap16(WordReg(loaded, Z) + 1)))

In   == /\ instr = "in"
        /\ Ok([fetched EXCEPT !.regs[Rd] = PortValue])
Out  == /\ instr = "out"
        /\ Ok(writemem(fetched, 32 + port(instr, opcode), RR))
Push == /\ instr = "push"
        /\ Ok(push(fetched, RR))
Pop  == /\ instr = "pop"
        /\ Ok([Popped(fetched) EXCEPT !.regs[Rd] = pop(fetched)])

-----------------------------------------------------------------------------
(* Bits, and the instructions that only return a code.                     *)

Bset == /\ instr = "bset"
        /\ Ok([fetched EXCEPT !.sreg = @ \cup {BitNumber}])
Bclr == /\ instr = "bclr"
        /\ Ok([fetched EXCEPT !.sreg = @ \ {BitNumber}])
Sbi  == /\ instr = "sbi"
        /\ Ok(writemem(fetched, 32 + port(instr, opcode),
                       ByteOf(BitsOf(PortValue) \cup {BitNumber})))

(* The mask ~(1 << bit) is or-ed to the port, not and-ed.                  *)
Cbi  == /\ instr = "cbi"
        /\ Ok(writemem(fetched, 32 + port(instr, opcode),
                       ByteOf(BitsOf(PortValue) \cup (BitIndex \ {BitNumber}))))
Bst  == /\ instr = "bst"
        /\ Ok([fetched EXCEPT !.sreg = (@ \ {F_T})
                                       \cup FlagIf(F_T, Bit(RD, BitNumber) = 1)])
Bld  == /\ instr = "bld"
        /\ Ok([fetched EXCEPT !.regs[Rd] =
                 ByteOf((BitsOf(@) \ {BitNumber})
                        \cup FlagIf(BitNumber, F_T \in ctx.sreg))])
Nop  == /\ instr = "nop"
        /\ Ok(fetched)

Special ==
  \/ instr = "wdr"       /\ Return(fetched, AVRVM_RC_WDR)
  \/ instr = "sleep"     /\ Return(fetched, AVRVM_RC_SLEEP)
  \/ instr = "break"     /\ Return(fetched, AVRVM_RC_BREAK)
  \/ instr = "undefined" /\ Return(fetched, AVRVM_RC_UNDEF_INSTR)

-----------------------------------------------------------------------------
avrvm_exec ==
  \/ Add \/ Sub \/ Neg \/ Compare \/ AddWord \/ Logic \/ Com \/ IncDec
  \/ Mul \/ FMul \/ Shift \/ Swap
  \/ Rjmp \/ Ijmp \/ Jmp \/ Rcall \/ Icall \/ Call \/ Ret
  \/ SkipEqual \/ SkipReg \/ SkipPort \/ Branch
  \/ Mov \/ Movw \/ Ldi \/ Load \/ Lds \/ Store \/ Sts \/ Lpm
  \/ In \/ Out \/ Push \/ Pop
  \/ Bset \/ Bclr \/ Sbi \/ Cbi \/ Bst \/ Bld \/ Nop \/ Special

avrvm_init ==
  ctx = [pc   |-> 0,
         sp   |-> 32 + 64 + SramSize - 1,
         sreg |-> {},
         regs |-> [n \in RegIndex |-> 0],
         sram |-> [a \in SramIndex |-> 0],
         io   |-> [p \in IoPorts |-> 0]]

Init == /\ flash \in Programs
        /\ avrvm_init
        /\ rc = AVRVM_RC_OK

Spec == Init /\ [][avrvm_exec]_vars

(* Every field keeps the width of its C type and avrvm_exec returns a code *)
(* of avrvm_rc_e or the difference of a word and AVRVM_MAX_FLASH_WORDS.    *)
TypeOK == /\ ctx \in Context
          /\ rc \in Int16

=============================================================================
