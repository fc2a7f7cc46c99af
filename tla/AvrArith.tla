------------------------------ MODULE AvrArith ------------------------------
(***************************************************************************)
(* What the results and flags of the arithmetic instructions mean, said of *)
(* numbers instead of bits: C is an unsigned result out of range, V a      *)
(* signed result out of range, S the sign of the exact signed result, H a  *)
(* carry out of the low digit, Z a zero result and N its top bit.          *)
(*                                                                         *)
(* AvrALU computes the same with masks, shifts and exclusive ors, as the   *)
(* code does.  AvrISA is written with the operators below.                 *)
(***************************************************************************)
EXTENDS AvrALU

Signed8(b)  == Signed(b, 128)
Signed16(w) == Signed(w, 32768)

(* The flags `affected' become those of `on', the others are kept.         *)
Update(s, affected, on) == (s \ affected) \cup (affected \cap on)

ArithFlags == {F_C, F_Z, F_N, F_V, F_S, F_H}

ResultFlags(res) == FlagIf(F_Z, res = 0) \cup FlagIf(F_N, res >= 128)

SignFlags(exact, range) == FlagIf(F_V, exact \notin range) \cup FlagIf(F_S, exact < 0)

(* d + r + carry *)
Sum(d, r, c, s) ==
  LET res == Wrap8(d + r + c)
  IN  [res  |-> res,
       sreg |-> Update(s, ArithFlags,
                  ResultFlags(res) \cup SignFlags(Signed8(d) + Signed8(r) + c, Int8)
                  \cup FlagIf(F_C, d + r + c > 255)
                  \cup FlagIf(F_H, (d % 16) + (r % 16) + c > 15))]

(* d - r - borrow, the first step of a subtraction or, where chained, a    *)
(* later one: then Z says that this and all the steps before gave zero.    *)
Difference(d, r, b, chained, s) ==
  LET res  == Wrap8(d - r - b)
      zero == res = 0 /\ (chained => F_Z \in s)
  IN  [res  |-> res,
       sreg |-> Update(s, ArithFlags,
                  FlagIf(F_Z, zero) \cup FlagIf(F_N, res >= 128)
                  \cup SignFlags(Signed8(d) - Signed8(r) - b, Int8)
                  \cup FlagIf(F_C, d < r + b)
                  \cup FlagIf(F_H, (d % 16) < (r % 16) + b))]

(* A 16-bit pair and a constant below 64, added or subtracted.             *)
WordSum(d, k, s) ==
  LET res == Wrap16(d + k)
  IN  [res  |-> res,
       sreg |-> Update(s, ArithFlags \ {F_H},
                  FlagIf(F_Z, res = 0) \cup FlagIf(F_N, res >= 32768)
                  \cup SignFlags(Signed16(d) + k, Int16)
                  \cup FlagIf(F_C, d + k \notin Word))]

(* A bitwise result: V is cleared, so S is N.                              *)
Bitwise8(res, s) ==
  [res  |-> res,
   sreg |-> Update(s, {F_Z, F_N, F_V, F_S},
              ResultFlags(res) \cup FlagIf(F_S, res >= 128))]

(* All ones minus d, with C set.                                           *)
Complement(d, s) ==
  [Bitwise8(255 - d, s) EXCEPT !.sreg = @ \cup {F_C}]

(* d + 1 or d - 1 with C untouched.                                        *)
Step(d, by, s) ==
  LET res == Wrap8(d + by)
  IN  [res  |-> res,
       sreg |-> Update(s, {F_Z, F_N, F_V, F_S},
                  ResultFlags(res) \cup SignFlags(Signed8(d) + by, Int8))]

(* A product p, shifted left once for the fractional multiplications; C is *)
(* the top bit of the 16-bit product before that.                          *)
ProductOf(p, fraction, s) ==
  LET res == Wrap16(IF fraction THEN 2 * p ELSE p)
  IN  [res  |-> res,
       sreg |-> Update(s, {F_C, F_Z},
                  FlagIf(F_Z, res = 0) \cup FlagIf(F_C, Wrap16(p) >= 32768))]

(* d halved, with `top' in the vacated bit.  C is the bit shifted out, V   *)
(* is N # C, which leaves S = C.                                           *)
Halved(d, top, s) ==
  LET res == d \div 2 + 128 * top
      odd == d % 2 = 1
  IN  [res  |-> res,
       sreg |-> Update(s, ArithFlags \ {F_H},
                  ResultFlags(res) \cup FlagIf(F_C, odd) \cup FlagIf(F_S, odd)
                  \cup FlagIf(F_V, (res >= 128) # odd))]

=============================================================================
