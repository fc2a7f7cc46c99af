------------------------------ MODULE WideArith ------------------------------
(***************************************************************************)
(* Arithmetic on 16-bit numbers, which a compiler makes of 8-bit           *)
(* instructions: the low bytes first, then the high bytes with the carry,  *)
(* and a comparison or a conditional branch on the flags of the second.    *)
(* What the program computes depends on flags that several instructions    *)
(* hand on: C from one step to the next, Z gathered over the steps.        *)
(*                                                                         *)
(* A program loads r17:r16 and r19:r18 with its two operands, executes a   *)
(* chain of instructions and stops at a break.                             *)
(***************************************************************************)
EXTENDS Compiled

(* The operands, as the four ldi at the start of the program load them.    *)
A == Loaded(1) + 256 * Loaded(2)
B == Loaded(3) + 256 * Loaded(4)

SignedA == Signed(A, 32768)
SignedB == Signed(B, 32768)

AddChain      == << << "add", 16, 18 >>, << "adc", 17, 19 >> >>
SubChain      == << << "sub", 16, 18 >>, << "sbc", 17, 19 >> >>
CompareChain  == << << "cp", 16, 18 >>, << "cpc", 17, 19 >> >>
SubImmChain   == << << "subi", 16, 1 >>, << "sbci", 17, 128 >> >>
NegateChain   == << << "com", 17 >>, << "neg", 16 >>, << "sbci", 17, 255 >> >>
ShiftChain    == << << "lsr", 17 >>, << "ror", 16 >> >>
HalveChain    == << << "asr", 17 >>, << "ror", 16 >> >>
MultiplyChain == << << "mul", 16, 18 >>, << "movw", 12, 0 >>,   \* r25:r24, r1:r0
                    << "mul", 16, 19 >>, << "add", 25, 0 >>,
                    << "mul", 17, 18 >>, << "add", 25, 0 >> >>

Runs(chain) == /\ \A k \in 1 .. 4 : LoadsInto(15 + k, k)
               /\ Follows(4, chain)

Answer == WordReg(ctx, 8)

(* The flags compare x and y: C and Z unsigned, S signed.                  *)
FlagsCompare(x, y) ==
  /\ (F_C \in ctx.sreg) = (x < y)
  /\ (F_Z \in ctx.sreg) = (x = y)
  /\ (F_S \in ctx.sreg) = (Signed(x, 32768) < Signed(y, 32768))

(* The 16-bit sum, its carry, and in S the sign of the exact signed sum.   *)
WideSum ==
  Finished /\ Runs(AddChain) =>
    /\ Answer = Wrap16(A + B)
    /\ (F_C \in ctx.sreg) = (A + B > 65535)
    /\ (F_S \in ctx.sreg) = (SignedA + SignedB < 0)

(* A 16-bit subtraction or comparison leaves the flags on which the        *)
(* compiler's branches rely: brlo on C, breq on Z, brlt on S.              *)
WideCompare ==
  Finished =>
    /\ Runs(SubChain)     => FlagsCompare(A, B) /\ Answer = Wrap16(A - B)
    /\ Runs(CompareChain) => FlagsCompare(A, B) /\ Answer = A
    /\ Runs(SubImmChain)  => FlagsCompare(A, 32769) /\ Answer = Wrap16(A - 32769)

(* x * y % 65536, in numbers that TLC can represent.                       *)
ProductMod16(x, y) == Wrap16(x * Lo(y) + 256 * ((x * Hi(y)) % 256))

(* Negation and the two right shifts of a 16-bit number.                   *)
WideUnary ==
  Finished =>
    /\ Runs(NegateChain) => Answer = Wrap16(0 - A) /\ (F_Z \in ctx.sreg) = (A = 0)
    /\ Runs(ShiftChain)  => Answer = A \div 2 /\ (F_C \in ctx.sreg) = (A % 2 = 1)
    /\ Runs(HalveChain)  => Answer = Wrap16(SignedA \div 2)

(* The low half of the product of two 16-bit numbers, from three of the    *)
(* four 8-bit products.                                                    *)
WideProduct ==
  Finished /\ Runs(MultiplyChain) => WordReg(ctx, 12) = ProductMod16(A, B)

=============================================================================
