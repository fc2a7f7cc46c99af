--------------------------- MODULE MCInstructions ---------------------------
(***************************************************************************)
(* Short programs that cover every instruction.  A program sets the        *)
(* registers, the status and the stack up, executes a body of one or two   *)
(* instructions and stops at a break.                                      *)
(***************************************************************************)
EXTENDS VMImplementsISA, HostInterface

End == 14   \* address of the first break after every body

(* The stack holds End, X and Y point into the SRAM, Z is End.  A register *)
(* that is not set is zero.                                                *)
Setup(o) ==
  LET ldi(r, b) == \hE000 + (b \div 16) * 256 + (r - 16) * 16 + (b % 16)
      pushes    == << \h931F, ldi(16, End), \h930F >>   \* push r17, r16
      pointers  == << ldi(26, 97), ldi(28, 98), ldi(30, End) >>
      operands  == << ldi(16, o[3]), \hBF0F,            \* out sreg, r16
                      ldi(16, o[1]), ldi(17, o[2]) >>
  IN  pushes \o pointers \o operands

Break(n) == [k \in 1 .. n |-> \h9598]

Program(o, body) == Setup(o) \o body \o Break(FlashWords - 10 - Len(body))

-----------------------------------------------------------------------------
(* The instructions, with r16 and r17 for most operands.                   *)

OneWord == {
  \* arithmetic and logic
  \h0F01, \h1F01, \h1B01, \h0B01, \h1701, \h0701,    \* add adc sub sbc cp cpc
  \h2301, \h2B01, \h2701, \h700F, \h6801,            \* and or eor andi ori
  \h5F0F, \h4001, \h3800, \hEF0F,                    \* subi sbci cpi ldi
  \h9601, \h96EF, \h9701,                            \* adiw r24 and r28, sbiw
  \h9500, \h9501, \h9503, \h950A, \h9502,            \* com neg inc dec swap
  \h9505, \h9506, \h9507,                            \* asr lsr ror
  \h9F01, \h0201, \h0301, \h0309, \h0381, \h0389,    \* the multiplications
  \* control
  \hC001, \h9409, \hD000, \hD001, \h9509, \h9508,    \* rjmp ijmp rcall icall ret
  \hE8F0,                                            \* ldi r31: Z in the host table
  \h1301, \hFD00, \hFF00, \h9907, \h9B07, \h9B29,    \* cpse sbrc sbrs sbic sbis
  \hF409, \hF009, \hF008, \hF00A,                    \* brne breq brcs brmi
  \* data transfer
  \h2F01, \h01C8,                                    \* mov, movw r24, r16
  \h910C, \h910D, \h910E, \h91AD,                    \* ld X, X+, -X, r26 from X+
  \h8109, \h9109, \h910A, \h8102, \h9101, \h9102, \h91E2,
  \h930C, \h930D, \h930E, \h93AD,                    \* st X, X+, -X, r26 to X+
  \h8309, \h9309, \h930A, \h8302, \h9301, \h9302, \h93F2,
  \h9104, \h9105, \h91E5, \h95C8,                    \* lpm
  \hB70E, \hB70F, \hB100, \hBF1D, \hB900, \hB915,    \* in, out: sp, sreg, I/O
  \h930F, \h910F,                                    \* push pop
  \* bits, and the special returns
  \h9A07, \h9468, \h9408, \h9488, \hFB07, \hF917,    \* sbi bset bclr bst bld
  \h0000, \h9588, \h9598, \h95A8, \hFFFF }

TwoWord == { << \h9100, \h0061 >>, << \h9100, \h005D >>,   \* lds from SRAM, spl
             << \h9300, \h0060 >>, << \h9300, \h005F >>,   \* sts to SRAM, sreg
             << \h940C, End >>,    << \h940E, End >> }     \* jmp, call

Instructions == { << w >> : w \in OneWord } \cup TwoWord

(* Instructions that change what the next one meets: where it is, what    *)
(* the flags, the stack pointer and the pointer registers hold.            *)
Leading == { << w >> : w \in {
  \h0F01, \h1F01, \h0B01, \h1701, \h01C8, \h9701, \h950A, \h9507, \h0201,
  \hC001, \hD000, \hD001, \h9508, \hE8F0, \h1301, \hFF00, \hF409, \hF008,
  \h910D, \h91AD, \h91E2, \h93AD, \h93F2, \h930E, \h8309, \h91E5, \hB70E,
  \hBF1D, \hB900, \h930F, \h910F, \h9A07, \h9468, \h9408 } } \cup TwoWord

(* What the code gets right: cbi of a port without storage, and a host     *)
(* function called by call while Z holds its address.                      *)
Spared == { << \h980B >>, << \hE8F0, \h940E, \h8000 + End >> }

(* Where the code departs from the instruction set.                        *)
ClearBit == << \h9803 >>                                   \* cbi 0, 3
RomCall  == << \h940E, \h8002 >>                           \* call 0x8002
RomJump  == << \hE8F0, \h9409 >>                           \* ldi r31, 0x80; ijmp

-----------------------------------------------------------------------------
OperandValues == { 0, 1, 127, 128, 255 } \X { 0, 1, 128, 255 } \X { 0, 255 }
OnePair       == << 255, 127, 0 >>

(* Every instruction on every choice of operands, and after every leading  *)
(* instruction.                                                            *)
CoverPrograms ==
  { Program(o, body) : o \in OperandValues, body \in Instructions \cup Spared }
  \cup { Program(OnePair, a \o b) : a \in Leading, b \in Instructions }

ClearBitPrograms == { Program(OnePair, a \o ClearBit) : a \in Instructions }
RomCallPrograms  == { Program(OnePair, a \o RomCall) : a \in Instructions }
RomJumpPrograms  == { Program(OnePair, a \o RomJump) : a \in Instructions }

WordsOf(programs) == UNION { { p[k] : k \in 1 .. FlashWords } : p \in programs }

CoverWords    == WordsOf(CoverPrograms)
ClearBitWords == WordsOf(ClearBitPrograms)
RomCallWords  == WordsOf(RomCallPrograms)
RomJumpWords  == WordsOf(RomJumpPrograms)

OnePort == { 0 }

=============================================================================
