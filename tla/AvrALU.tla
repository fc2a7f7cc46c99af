------------------------------- MODULE AvrALU -------------------------------
(***************************************************************************)
(* What the arithmetic, logic, multiply and shift instructions compute:    *)
(* the result and the status register, by the bit manipulation of the      *)
(* update_sreg_after_* functions and of the cases of avrvm_exec.           *)
(*                                                                         *)
(* The status register is the set of its flags that are set.  Every        *)
(* operator returns [res, sreg]; `i' is the mnemonic, `d' and `r' the      *)
(* operand values and `s' the status register before.                      *)
(*                                                                         *)
(* A definition with a capitalised suffix (AluAdd_NoCarry) is a slip the   *)
(* code could contain and does not.  No other definition uses it: put in   *)
(* the place of the right one, it shows which property notices it.         *)
(***************************************************************************)
EXTENDS AvrBits

F_C == 0
F_Z == 1
F_N == 2
F_V == 3
F_S == 4
F_H == 5
F_T == 6
F_I == 7

Sreg == SUBSET BitIndex

FlagIf(f, cond) == IF cond THEN {f} ELSE {}

Carry(s) == IF F_C \in s THEN 1 ELSE 0

(* S = N ^ V, computed last in every update.                               *)
WithS(s) == s \cup FlagIf(F_S, (F_N \in s) # (F_V \in s))

update_sreg_after_logic(s, res) ==
  WithS((s \ {F_S, F_V, F_N, F_Z})
        \cup FlagIf(F_Z, Wrap16(res) = 0)
        \cup FlagIf(F_N, Bit(res, 7) = 1))

update_sreg_after_add(s, res, d, r) ==
  WithS((s \ {F_H, F_S, F_V, F_N, F_Z, F_C})
        \cup FlagIf(F_C, Bit(res, 8) = 1)
        \cup FlagIf(F_Z, Wrap8(res) = 0)
        \cup FlagIf(F_N, Bit(res, 7) = 1)
        \cup FlagIf(F_V, Bit(res, 7) # Bit(d, 7) /\ Bit(res, 7) # Bit(r, 7))
        \cup FlagIf(F_H, (Bit(res, 4) + Bit(d, 4) + Bit(r, 4)) % 2 = 1))

update_sreg_after_sub_SetsZ(s, res, d, r) ==
  WithS((s \ {F_H, F_S, F_V, F_N, F_Z, F_C})
        \cup FlagIf(F_Z, Wrap8(res) = 0)
        \cup FlagIf(F_C, Bit(res, 8) = 1)
        \cup FlagIf(F_N, Bit(res, 7) = 1)
        \cup FlagIf(F_V, Bit(r, 7) # Bit(d, 7) /\ Bit(res, 7) # Bit(d, 7))
        \cup FlagIf(F_H, (Bit(res, 4) + Bit(d, 4) + Bit(r, 4)) % 2 = 1))

(* Z is only ever cleared here; the caller sets it first when the          *)
(* instruction does not continue a longer subtraction.                     *)
update_sreg_after_sub(s, res, d, r) ==
  WithS(((s \ {F_H, F_S, F_V, F_N, F_C}) \ FlagIf(F_Z, Wrap8(res) # 0))
        \cup FlagIf(F_C, Bit(res, 8) = 1)
        \cup FlagIf(F_N, Bit(res, 7) = 1)
        \cup FlagIf(F_V, Bit(r, 7) # Bit(d, 7) /\ Bit(res, 7) # Bit(d, 7))
        \cup FlagIf(F_H, (Bit(res, 4) + Bit(d, 4) + Bit(r, 4)) % 2 = 1))

update_sreg_after_mul(s, res) ==
  (s \ {F_Z, F_C}) \cup FlagIf(F_C, Bit(res, 15) = 1)
                   \cup FlagIf(F_Z, Wrap16(res) = 0)

update_sreg_after_fmul(s, res) ==
  (s \ {F_Z, F_C}) \cup FlagIf(F_C, Bit(res, 16) = 1)
                   \cup FlagIf(F_Z, Wrap16(res) = 0)

update_sreg_after_rshift(s, res, d) ==
  LET n == Bit(res, 7) = 1
      c == Bit(d, 0) = 1
  IN  WithS((s \ {F_S, F_V, F_N, F_Z, F_C})
            \cup FlagIf(F_C, c)
            \cup FlagIf(F_Z, Wrap8(res) = 0)
            \cup FlagIf(F_N, n)
            \cup FlagIf(F_V, n # c))

-----------------------------------------------------------------------------
AluAdd_NoCarry(i, d, r, s) ==
  [res |-> Wrap8(d + r), sreg |-> update_sreg_after_add(s, d + r, d, r)]

(* add, adc *)
AluAdd(i, d, r, s) ==
  LET res == d + r + (IF i = "adc" THEN Carry(s) ELSE 0)
  IN  [res |-> Wrap8(res), sreg |-> update_sreg_after_add(s, res, d, r)]

(* sub, subi, sbc, sbci, cp, cpi, cpc; neg is a subtraction from zero.     *)
AluSub(i, d, r, s) ==
  LET chained == i \in {"sbc", "sbci", "cpc"}
      res     == d - r - (IF chained THEN Carry(s) ELSE 0)
      before  == IF chained THEN s ELSE s \cup {F_Z}
  IN  [res |-> Wrap8(res), sreg |-> update_sreg_after_sub(before, res, d, r)]

AluWord_ZeroBeforeWrap(i, d, k, s) ==
  LET res == IF i = "adiw" THEN d + k ELSE d - k
  IN  [res  |-> Wrap16(res),
       sreg |-> WithS((s \ {F_S, F_V, F_N, F_Z, F_C}) \cup FlagIf(F_Z, res = 0))]

(* adiw, sbiw: a six-bit constant and a register pair.                     *)
AluWord(i, d, k, s) ==
  LET res  == IF i = "adiw" THEN d + k ELSE d - k
      over == IF i = "adiw" THEN Bit(d, 15) = 0 /\ Bit(res, 15) = 1
                            ELSE Bit(d, 15) = 1 /\ Bit(res, 15) = 0
  IN  [res  |-> Wrap16(res),
       sreg |-> WithS((s \ {F_S, F_V, F_N, F_Z, F_C})
                      \cup FlagIf(F_C, Bit(res, 16) = 1)
                      \cup FlagIf(F_Z, Wrap16(res) = 0)
                      \cup FlagIf(F_N, Bit(res, 15) = 1)
                      \cup FlagIf(F_V, over))]

(* and, andi, or, ori, eor *)
AluLogic(i, d, r, s) ==
  LET res == CASE i \in {"and", "andi"} -> BitAnd(d, r)
               [] i \in {"or", "ori"}   -> BitOr(d, r)
               [] i = "eor"             -> BitXor(d, r)
  IN  [res |-> res, sreg |-> update_sreg_after_logic(s, res)]

(* com: C is always set, V always cleared.                                 *)
AluCom(d, s) ==
  LET res == -1 - d
  IN  [res  |-> Wrap8(res),
       sreg |-> WithS((s \ {F_S, F_V, F_N, F_Z}) \cup {F_C}
                      \cup FlagIf(F_Z, Wrap8(res) = 0)
                      \cup FlagIf(F_N, Bit(res, 7) = 1))]

AluIncDec_NoWrap(i, d, s) ==
  [res |-> IF i = "inc" THEN d + 1 ELSE d - 1, sreg |-> s]

(* inc, dec: C is left alone, so that they can count a multi-byte loop.    *)
AluIncDec(i, d, s) ==
  LET res  == IF i = "inc" THEN d + 1 ELSE d - 1
      over == IF i = "inc" THEN d = 127 ELSE d = 128
  IN  [res  |-> Wrap8(res),
       sreg |-> WithS((s \ {F_S, F_V, F_N, F_Z})
                      \cup FlagIf(F_Z, Wrap8(res) = 0)
                      \cup FlagIf(F_N, Bit(res, 7) = 1)
                      \cup FlagIf(F_V, over))]

Product_Signed(i, d, r) == Signed(d, 128) * Signed(r, 128)

(* The product of mul, muls, mulsu and of their fractional variants.       *)
Product(i, d, r) ==
  CASE i \in {"mul", "fmul"}     -> d * r
    [] i \in {"muls", "fmuls"}   -> Signed(d, 128) * Signed(r, 128)
    [] i \in {"mulsu", "fmulsu"} -> Signed(d, 128) * r

AluMul(i, d, r, s) ==
  [res  |-> Wrap16(Product(i, d, r)),
   sreg |-> update_sreg_after_mul(s, Product(i, d, r))]

AluFMul(i, d, r, s) ==
  LET res == 2 * Product(i, d, r)
  IN  [res |-> Wrap16(res), sreg |-> update_sreg_after_fmul(s, res)]

AluShift_NoCarry(i, d, s) ==
  [res |-> d \div 2, sreg |-> update_sreg_after_rshift(s, d \div 2, d)]

(* lsr, ror, asr *)
AluShift(i, d, s) ==
  LET res == CASE i = "lsr" -> d \div 2
               [] i = "ror" -> d \div 2 + 128 * Carry(s)
               [] i = "asr" -> Signed(d, 128) \div 2
  IN  [res |-> Wrap8(res), sreg |-> update_sreg_after_rshift(s, res, d)]

AluSwap(d) == Wrap8(16 * d) + d \div 16

=============================================================================
