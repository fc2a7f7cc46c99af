---------------------------- MODULE AvrVMProofs ----------------------------
(***************************************************************************)
(* Every state of the virtual machine is one of its C types: whatever the  *)
(* program, the size of the memories and the host's I/O registers, no step *)
(* leaves a register, a flag or a memory cell out of the range its C       *)
(* declaration gives it, or a field of the context without a value.        *)
(*                                                                         *)
(* The proof rests on one fact about the decoder, that an instruction is   *)
(* only ever asked for operands its layout has, and on one lemma for every *)
(* way the code changes the context: a memory write, a push, a pop, a word *)
(* register, a jump.                                                       *)
(***************************************************************************)
EXTENDS TestVM, AvrArith, TLAPS

(***************************************************************************)
(* First the arithmetic, which is right for all operands: every operator   *)
(* of AvrALU, written with bits and masks, gives the result and the flags  *)
(* that AvrArith defines by the numbers they stand for.                    *)
(*                                                                         *)
(* Each proof has the same two halves.  One is about numbers: what a bit   *)
(* of the exact result says of the operands.  The other is about sets:     *)
(* given when each flag is on, that clearing and setting the flags in the  *)
(* code's order gives the status register of AvrArith.                     *)
(***************************************************************************)

(***************************************************************************)
(* Flags.                                                                  *)
(***************************************************************************)

(* The flags are numbered within a byte.                                   *)
LEMMA FlagNumbers ==
  /\ F_C \in BitIndex /\ F_Z \in BitIndex /\ F_N \in BitIndex /\ F_V \in BitIndex
  /\ F_S \in BitIndex /\ F_H \in BitIndex /\ F_T \in BitIndex
  BY DEF F_C, F_Z, F_N, F_V, F_S, F_H, F_T, BitIndex

(* No two flags that the arithmetic sets are the same bit.                 *)
LEMMA DistinctFlags ==
  /\ F_C # F_Z /\ F_C # F_N /\ F_C # F_V /\ F_C # F_S /\ F_C # F_H
  /\ F_Z # F_N /\ F_Z # F_V /\ F_Z # F_S /\ F_Z # F_H
  /\ F_N # F_V /\ F_N # F_S /\ F_N # F_H
  /\ F_V # F_S /\ F_V # F_H /\ F_S # F_H
  BY DEF F_C, F_Z, F_N, F_V, F_S, F_H

(***************************************************************************)
(* IntegerSets.                                                                *)
(***************************************************************************)

(* A carry into an operation is 0 or 1.                                    *)
CarryValue == {0, 1}

LEMMA CarryType == ASSUME NEW s PROVE Carry(s) \in CarryValue
  BY DEF Carry, CarryValue

(* The ranges of the C types.  With a literal bound the provers would       *)
(* enumerate them, hence the named bounds.                                 *)
LEMMA ByteRange == \A x : x \in Byte <=> x \in Int /\ 0 <= x /\ x <= 255
<1>1. UINT8_MAX \in Int
  BY SMT DEF UINT8_MAX
<1>2. \A x : x \in Byte <=> x \in Int /\ 0 <= x /\ x <= UINT8_MAX
  BY <1>1, SMT DEF Byte
<1> QED
  BY <1>2, SMT DEF UINT8_MAX

(* uint16_t *)
LEMMA WordRange == \A x : x \in Word <=> x \in Int /\ 0 <= x /\ x <= 65535
<1>1. UINT16_MAX \in Int
  BY SMT DEF UINT16_MAX
<1>2. \A x : x \in Word <=> x \in Int /\ 0 <= x /\ x <= UINT16_MAX
  BY <1>1, SMT DEF Word
<1> QED
  BY <1>2, SMT DEF UINT16_MAX

(* int8_t *)
LEMMA Int8Range == \A x : x \in Int8 <=> x \in Int /\ -128 <= x /\ x <= 127
<1>1. INT8_MAX \in Int
  BY SMT DEF INT8_MAX
<1>2. \A x : x \in Int8 <=> x \in Int /\ -INT8_MAX - 1 <= x /\ x <= INT8_MAX
  BY <1>1, SMT DEF Int8
<1> QED
  BY <1>2, SMT DEF INT8_MAX

(* int16_t *)
LEMMA Int16Range == \A x : x \in Int16 <=> x \in Int /\ -32768 <= x /\ x <= 32767
<1>1. INT16_MAX \in Int
  BY SMT DEF INT16_MAX
<1>2. \A x : x \in Int16 <=> x \in Int /\ -INT16_MAX - 1 <= x /\ x <= INT16_MAX
  BY <1>1, SMT DEF Int16
<1> QED
  BY <1>2, SMT DEF INT16_MAX

(* What the bits of d + r + c say.                                         *)
LEMMA AddBits ==
  ASSUME NEW d \in Byte, NEW r \in Byte, NEW c \in CarryValue
  PROVE  /\ Bit(d + r + c, 8) = 1 <=> d + r + c > 255
         /\ Bit(d + r + c, 7) = 1 <=> Wrap8(d + r + c) >= 128
         /\ (Bit(d + r + c, 7) # Bit(d, 7) /\ Bit(d + r + c, 7) # Bit(r, 7))
            <=> Signed8(d) + Signed8(r) + c \notin Int8
         /\ (Bit(d + r + c, 4) + Bit(d, 4) + Bit(r, 4)) % 2 = 1
            <=> (d % 16) + (r % 16) + c > 15
         /\ Signed8(d) + Signed8(r) + c < 0
            <=> (Bit(d + r + c, 7) = 1) # (Signed8(d) + Signed8(r) + c \notin Int8)
<1>0. /\ d \in Int /\ 0 <= d /\ d <= 255
      /\ r \in Int /\ 0 <= r /\ r <= 255
  BY ByteRange
<1>1. Bit(d + r + c, 8) = 1 <=> d + r + c > 255
  BY <1>0, SMT DEF CarryValue, Bit, Pow2
<1>2. Bit(d + r + c, 7) = 1 <=> Wrap8(d + r + c) >= 128
  BY <1>0, SMT DEF CarryValue, Bit, Pow2, Wrap8
<1>3. (Bit(d + r + c, 7) # Bit(d, 7) /\ Bit(d + r + c, 7) # Bit(r, 7))
      <=> Signed8(d) + Signed8(r) + c \notin Int8
  BY <1>0, Int8Range, SMT DEF CarryValue, Bit, Pow2, Signed8, Signed
<1>4. (Bit(d + r + c, 4) + Bit(d, 4) + Bit(r, 4)) % 2 = 1
      <=> (d % 16) + (r % 16) + c > 15
  BY <1>0, SMT DEF CarryValue, Bit, Pow2
<1>5. Signed8(d) + Signed8(r) + c < 0
      <=> (Bit(d + r + c, 7) = 1) # (Signed8(d) + Signed8(r) + c \notin Int8)
  BY <1>0, Int8Range, SMT DEF CarryValue, Bit, Pow2, Signed8, Signed
<1> QED
  BY <1>1, <1>2, <1>3, <1>4, <1>5

(* What the bits of the two's complement of d - r - b say.                 *)
LEMMA SubBits ==
  ASSUME NEW d \in Byte, NEW r \in Byte, NEW b \in CarryValue
  PROVE  /\ Bit(d - r - b, 8) = 1 <=> d < r + b
         /\ Bit(d - r - b, 7) = 1 <=> Wrap8(d - r - b) >= 128
         /\ (Bit(r, 7) # Bit(d, 7) /\ Bit(d - r - b, 7) # Bit(d, 7))
            <=> Signed8(d) - Signed8(r) - b \notin Int8
         /\ (Bit(d - r - b, 4) + Bit(d, 4) + Bit(r, 4)) % 2 = 1
            <=> (d % 16) < (r % 16) + b
         /\ Signed8(d) - Signed8(r) - b < 0
            <=> (Bit(d - r - b, 7) = 1) # (Signed8(d) - Signed8(r) - b \notin Int8)
<1>0. /\ d \in Int /\ 0 <= d /\ d <= 255
      /\ r \in Int /\ 0 <= r /\ r <= 255
  BY ByteRange
<1>1. Bit(d - r - b, 8) = 1 <=> d < r + b
  BY <1>0, SMT DEF CarryValue, Bit, Pow2
<1>2. Bit(d - r - b, 7) = 1 <=> Wrap8(d - r - b) >= 128
  BY <1>0, SMT DEF CarryValue, Bit, Pow2, Wrap8
<1>3. (Bit(r, 7) # Bit(d, 7) /\ Bit(d - r - b, 7) # Bit(d, 7))
      <=> Signed8(d) - Signed8(r) - b \notin Int8
  BY <1>0, Int8Range, SMT DEF CarryValue, Bit, Pow2, Signed8, Signed
<1>4. (Bit(d - r - b, 4) + Bit(d, 4) + Bit(r, 4)) % 2 = 1
      <=> (d % 16) < (r % 16) + b
  BY <1>0, SMT DEF CarryValue, Bit, Pow2
<1>5. Signed8(d) - Signed8(r) - b < 0
      <=> (Bit(d - r - b, 7) = 1) # (Signed8(d) - Signed8(r) - b \notin Int8)
  BY <1>0, Int8Range, SMT DEF CarryValue, Bit, Pow2, Signed8, Signed
<1> QED
  BY <1>1, <1>2, <1>3, <1>4, <1>5

(* The top bits of the sum of a word and a six-bit constant of either sign. *)
LEMMA WordBits ==
  ASSUME NEW d \in Word, NEW k \in Int, -63 <= k, k <= 63
  PROVE  /\ Bit(d + k, 16) = 1 <=> d + k \notin Word
         /\ Bit(d + k, 15) = 1 <=> Wrap16(d + k) >= 32768
         /\ k >= 0 => ((Bit(d, 15) = 0 /\ Bit(d + k, 15) = 1) <=> Signed16(d) + k \notin Int16)
         /\ k <= 0 => ((Bit(d, 15) = 1 /\ Bit(d + k, 15) = 0) <=> Signed16(d) + k \notin Int16)
         /\ Signed16(d) + k < 0
            <=> (Bit(d + k, 15) = 1) # (Signed16(d) + k \notin Int16)
<1>0. d \in Int /\ 0 <= d /\ d <= 65535
  BY WordRange
<1>1. Bit(d + k, 16) = 1 <=> d + k \notin Word
  BY <1>0, WordRange, SMT DEF Bit, Pow2
<1>2. Bit(d + k, 15) = 1 <=> Wrap16(d + k) >= 32768
  BY <1>0, SMT DEF Bit, Pow2, Wrap16
<1>3. k >= 0 => ((Bit(d, 15) = 0 /\ Bit(d + k, 15) = 1) <=> Signed16(d) + k \notin Int16)
  BY <1>0, Int16Range, SMT DEF Bit, Pow2, Signed16, Signed
<1>4. k <= 0 => ((Bit(d, 15) = 1 /\ Bit(d + k, 15) = 0) <=> Signed16(d) + k \notin Int16)
  BY <1>0, Int16Range, SMT DEF Bit, Pow2, Signed16, Signed
<1>5. Signed16(d) + k < 0 <=> (Bit(d + k, 15) = 1) # (Signed16(d) + k \notin Int16)
  BY <1>0, Int16Range, SMT DEF Bit, Pow2, Signed16, Signed
<1> QED
  BY <1>1, <1>2, <1>3, <1>4, <1>5

(***************************************************************************)
(* The operations.                                                         *)
(***************************************************************************)

(* add and adc: carries of the byte and of its low digit, signed overflow  *)
(* and the sign of the exact sum, for all operands and status registers.   *)
THEOREM AddMeaning ==
  ASSUME NEW i \in {"add", "adc"}, NEW d \in Byte, NEW r \in Byte, NEW s \in Sreg
  PROVE  AluAdd(i, d, r, s) = Sum(d, r, IF i = "adc" THEN Carry(s) ELSE 0, s)
<1> DEFINE c     == IF i = "adc" THEN Carry(s) ELSE 0
           res   == d + r + c
           exact == Signed8(d) + Signed8(r) + c
           t     == (s \ {F_H, F_S, F_V, F_N, F_Z, F_C})
                    \cup FlagIf(F_C, Bit(res, 8) = 1)
                    \cup FlagIf(F_Z, Wrap8(res) = 0)
                    \cup FlagIf(F_N, Bit(res, 7) = 1)
                    \cup FlagIf(F_V, Bit(res, 7) # Bit(d, 7) /\ Bit(res, 7) # Bit(r, 7))
                    \cup FlagIf(F_H, (Bit(res, 4) + Bit(d, 4) + Bit(r, 4)) % 2 = 1)
<1>1. AluAdd(i, d, r, s) = [res |-> Wrap8(res), sreg |-> WithS(t)]
  BY DEF AluAdd, update_sreg_after_add
<1>2. c \in CarryValue
  BY CarryType DEF CarryValue
<1> HIDE DEF c
<1>3. /\ Bit(res, 8) = 1 <=> res > 255
      /\ Bit(res, 7) = 1 <=> Wrap8(res) >= 128
      /\ (Bit(res, 7) # Bit(d, 7) /\ Bit(res, 7) # Bit(r, 7)) <=> exact \notin Int8
      /\ (Bit(res, 4) + Bit(d, 4) + Bit(r, 4)) % 2 = 1
         <=> (d % 16) + (r % 16) + c > 15
      /\ exact < 0 <=> (Bit(res, 7) = 1) # (exact \notin Int8)
  BY <1>2, AddBits
<1> HIDE DEF res, exact
<1>4. F_N \in t <=> Bit(res, 7) = 1
  BY DistinctFlags DEF FlagIf
<1>5. F_V \in t <=> exact \notin Int8
  BY <1>3, DistinctFlags DEF FlagIf
<1>6. WithS(t) = t \cup FlagIf(F_S, exact < 0)
  BY <1>3, <1>4, <1>5 DEF WithS, FlagIf
<1>7. WithS(t) = Update(s, ArithFlags,
                        ResultFlags(Wrap8(res)) \cup SignFlags(exact, Int8)
                        \cup FlagIf(F_C, res > 255)
                        \cup FlagIf(F_H, (d % 16) + (r % 16) + c > 15))
  BY <1>3, <1>6, DistinctFlags DEF Update, ArithFlags, ResultFlags, SignFlags, FlagIf
<1> QED
  BY <1>1, <1>7 DEF Sum, res, exact, c

(* What the flags of d - r - b say: Z survives only where it was set.      *)
LEMMA SubFlags ==
  ASSUME NEW d \in Byte, NEW r \in Byte, NEW b \in CarryValue, NEW s
  PROVE  update_sreg_after_sub(s, d - r - b, d, r)
         = Update(s, ArithFlags,
                  FlagIf(F_Z, Wrap8(d - r - b) = 0 /\ F_Z \in s)
                  \cup FlagIf(F_N, Wrap8(d - r - b) >= 128)
                  \cup SignFlags(Signed8(d) - Signed8(r) - b, Int8)
                  \cup FlagIf(F_C, d < r + b)
                  \cup FlagIf(F_H, (d % 16) < (r % 16) + b))
<1> DEFINE res   == d - r - b
           exact == Signed8(d) - Signed8(r) - b
           low   == (d % 16) < (r % 16) + b
           t     == ((s \ {F_H, F_S, F_V, F_N, F_C}) \ FlagIf(F_Z, Wrap8(res) # 0))
                    \cup FlagIf(F_C, Bit(res, 8) = 1)
                    \cup FlagIf(F_N, Bit(res, 7) = 1)
                    \cup FlagIf(F_V, Bit(r, 7) # Bit(d, 7) /\ Bit(res, 7) # Bit(d, 7))
                    \cup FlagIf(F_H, (Bit(res, 4) + Bit(d, 4) + Bit(r, 4)) % 2 = 1)
<1>1. /\ Bit(res, 8) = 1 <=> d < r + b
      /\ Bit(res, 7) = 1 <=> Wrap8(res) >= 128
      /\ (Bit(r, 7) # Bit(d, 7) /\ Bit(res, 7) # Bit(d, 7)) <=> exact \notin Int8
      /\ (Bit(res, 4) + Bit(d, 4) + Bit(r, 4)) % 2 = 1 <=> low
      /\ exact < 0 <=> (Bit(res, 7) = 1) # (exact \notin Int8)
  BY SubBits
<1> HIDE DEF res, exact, low
<1>2. F_N \in t <=> Bit(res, 7) = 1
  BY DistinctFlags DEF FlagIf
<1>3. F_V \in t <=> exact \notin Int8
  BY <1>1, DistinctFlags DEF FlagIf
<1>4. WithS(t) = t \cup FlagIf(F_S, exact < 0)
  BY <1>1, <1>2, <1>3 DEF WithS, FlagIf
<1>5. WithS(t) = Update(s, ArithFlags,
                        FlagIf(F_Z, Wrap8(res) = 0 /\ F_Z \in s)
                        \cup FlagIf(F_N, Wrap8(res) >= 128)
                        \cup SignFlags(exact, Int8)
                        \cup FlagIf(F_C, d < r + b) \cup FlagIf(F_H, low))
  BY <1>1, <1>4, DistinctFlags DEF Update, ArithFlags, SignFlags, FlagIf
<1> QED
  BY <1>5 DEF update_sreg_after_sub, res, exact, low

(* sub, sbc, cp, cpc, neg and their immediate forms: the flags compare the *)
(* operands as unsigned and as signed numbers, and in a chain Z is that of *)
(* all the bytes so far.                                                   *)
THEOREM SubMeaning ==
  ASSUME NEW d \in Byte, NEW r \in Byte, NEW s \in Sreg, NEW i
  PROVE  /\ i \in {"sbc", "sbci", "cpc"}
            => AluSub(i, d, r, s) = Difference(d, r, Carry(s), TRUE, s)
         /\ i \notin {"sbc", "sbci", "cpc"}
            => AluSub(i, d, r, s) = Difference(d, r, 0, FALSE, s)
<1>1. ASSUME i \in {"sbc", "sbci", "cpc"}
      PROVE  AluSub(i, d, r, s) = Difference(d, r, Carry(s), TRUE, s)
  <2>1. AluSub(i, d, r, s)
        = [res  |-> Wrap8(d - r - Carry(s)),
           sreg |-> update_sreg_after_sub(s, d - r - Carry(s), d, r)]
    BY <1>1 DEF AluSub
  <2>2. Carry(s) \in CarryValue
    BY CarryType
  <2> QED
    BY <2>1, <2>2, SubFlags DEF Difference, FlagIf
<1>2. ASSUME i \notin {"sbc", "sbci", "cpc"}
      PROVE  AluSub(i, d, r, s) = Difference(d, r, 0, FALSE, s)
  <2> DEFINE first == s \cup {F_Z}
             rest  == FlagIf(F_N, Wrap8(d - r - 0) >= 128)
                      \cup SignFlags(Signed8(d) - Signed8(r) - 0, Int8)
                      \cup FlagIf(F_C, d < r + 0)
                      \cup FlagIf(F_H, (d % 16) < (r % 16) + 0)
             zero  == FlagIf(F_Z, Wrap8(d - r - 0) = 0)
  <2>1. AluSub(i, d, r, s)
        = [res  |-> Wrap8(d - r - 0), sreg |-> update_sreg_after_sub(first, d - r - 0, d, r)]
    BY <1>2 DEF AluSub
  <2>2. F_Z \in first /\ 0 \in CarryValue
    BY DEF CarryValue
  <2>3. Update(first, ArithFlags, zero \cup rest) = Update(s, ArithFlags, zero \cup rest)
    BY DEF Update, ArithFlags
  <2> HIDE DEF first
  <2>4. update_sreg_after_sub(first, d - r - 0, d, r) = Update(first, ArithFlags, zero \cup rest)
    BY <2>2, SubFlags DEF FlagIf
  <2>5. Difference(d, r, 0, FALSE, s)
        = [res |-> Wrap8(d - r - 0), sreg |-> Update(s, ArithFlags, zero \cup rest)]
    BY DEF Difference, FlagIf
  <2> QED
    BY <2>1, <2>3, <2>4, <2>5
<1> QED
  BY <1>1, <1>2

(* adiw and sbiw, on a register pair and a constant below 64.              *)
THEOREM WordMeaning ==
  ASSUME NEW i \in {"adiw", "sbiw"}, NEW d \in Word, NEW k \in 0 .. 63, NEW s \in Sreg
  PROVE  AluWord(i, d, k, s) = WordSum(d, IF i = "adiw" THEN k ELSE 0 - k, s)
<1> DEFINE by    == IF i = "adiw" THEN k ELSE 0 - k
           res   == IF i = "adiw" THEN d + k ELSE d - k
           exact == Signed16(d) + by
           over  == IF i = "adiw" THEN Bit(d, 15) = 0 /\ Bit(res, 15) = 1
                                  ELSE Bit(d, 15) = 1 /\ Bit(res, 15) = 0
           t     == (s \ {F_S, F_V, F_N, F_Z, F_C})
                    \cup FlagIf(F_C, Bit(res, 16) = 1)
                    \cup FlagIf(F_Z, Wrap16(res) = 0)
                    \cup FlagIf(F_N, Bit(res, 15) = 1)
                    \cup FlagIf(F_V, over)
<1>1. AluWord(i, d, k, s) = [res |-> Wrap16(res), sreg |-> WithS(t)]
  BY DEF AluWord
<1>2. by \in Int /\ -63 <= by /\ by <= 63 /\ res = d + by
  BY WordRange, SMT
<1>3. i = "adiw" => by >= 0
  OBVIOUS
<1>4. i # "adiw" => by <= 0
  OBVIOUS
<1> HIDE DEF by, res
<1>5. /\ Bit(res, 16) = 1 <=> res \notin Word
      /\ Bit(res, 15) = 1 <=> Wrap16(res) >= 32768
      /\ exact < 0 <=> (Bit(res, 15) = 1) # (exact \notin Int16)
  BY <1>2, WordBits, SMT
<1>6. over <=> exact \notin Int16
  BY <1>2, <1>3, <1>4, WordBits, SMT
<1> HIDE DEF exact, over
<1>7. F_N \in t <=> Bit(res, 15) = 1
  BY DistinctFlags DEF FlagIf
<1>8. F_V \in t <=> exact \notin Int16
  BY <1>6, DistinctFlags DEF FlagIf
<1>9. WithS(t) = t \cup FlagIf(F_S, exact < 0)
  BY <1>5, <1>7, <1>8 DEF WithS, FlagIf
<1>10. WithS(t) = Update(s, ArithFlags \ {F_H},
                        FlagIf(F_Z, Wrap16(res) = 0) \cup FlagIf(F_N, Wrap16(res) >= 32768)
                        \cup SignFlags(exact, Int16)
                        \cup FlagIf(F_C, res \notin Word))
  BY <1>5, <1>6, <1>9, DistinctFlags DEF Update, ArithFlags, SignFlags, FlagIf
<1>11. WordSum(d, by, s) = [res |-> Wrap16(res), sreg |-> WithS(t)]
  BY <1>2, <1>10 DEF WordSum, exact
<1> QED
  BY <1>1, <1>11 DEF by

(* A bitwise operation, whatever its result.                               *)
LEMMA LogicUpdate ==
  ASSUME NEW res \in Byte, NEW s \in Sreg
  PROVE  [res |-> res, sreg |-> update_sreg_after_logic(s, res)] = Bitwise8(res, s)
<1> DEFINE t == (s \ {F_S, F_V, F_N, F_Z})
                \cup FlagIf(F_Z, Wrap16(res) = 0) \cup FlagIf(F_N, Bit(res, 7) = 1)
<1>1. /\ Wrap16(res) = 0 <=> res = 0
      /\ Bit(res, 7) = 1 <=> res >= 128
  BY ByteRange, SMT DEF Wrap16, Bit, Pow2
<1>2. F_N \in t <=> res >= 128
  BY <1>1, DistinctFlags DEF FlagIf
<1>3. F_V \notin t
  BY DistinctFlags DEF FlagIf
<1>4. WithS(t) = t \cup FlagIf(F_S, res >= 128)
  BY <1>2, <1>3 DEF WithS, FlagIf
<1>5. WithS(t) = Update(s, {F_Z, F_N, F_V, F_S},
                        ResultFlags(res) \cup FlagIf(F_S, res >= 128))
  BY <1>1, <1>4, DistinctFlags DEF Update, ResultFlags, FlagIf
<1> QED
  BY <1>5 DEF Bitwise8, update_sreg_after_logic

(* A set of bits makes a byte.                                             *)
LEMMA ByteOfType == ASSUME NEW S PROVE ByteOf(S) \in Byte
  BY ByteRange, SMT DEF ByteOf

(* and, or, eor and the immediate forms.                                   *)
THEOREM LogicMeaning ==
  ASSUME NEW d \in Byte, NEW r \in Byte, NEW s \in Sreg
  PROVE  /\ \A i \in {"and", "andi"} : AluLogic(i, d, r, s) = Bitwise8(BitAnd(d, r), s)
         /\ \A i \in {"or", "ori"}   : AluLogic(i, d, r, s) = Bitwise8(BitOr(d, r), s)
         /\ AluLogic("eor", d, r, s) = Bitwise8(BitXor(d, r), s)
<1>1. /\ BitAnd(d, r) \in Byte /\ BitOr(d, r) \in Byte /\ BitXor(d, r) \in Byte
  BY ByteOfType DEF BitAnd, BitOr, BitXor
<1>2. ASSUME NEW i \in {"and", "andi"}
      PROVE  AluLogic(i, d, r, s) = Bitwise8(BitAnd(d, r), s)
  <2>1. AluLogic(i, d, r, s) = [res  |-> BitAnd(d, r),
                                sreg |-> update_sreg_after_logic(s, BitAnd(d, r))]
    BY DEF AluLogic
  <2> QED
    BY <1>1, <2>1, LogicUpdate
<1>3. ASSUME NEW i \in {"or", "ori"}
      PROVE  AluLogic(i, d, r, s) = Bitwise8(BitOr(d, r), s)
  <2>1. AluLogic(i, d, r, s) = [res  |-> BitOr(d, r),
                                sreg |-> update_sreg_after_logic(s, BitOr(d, r))]
    BY DEF AluLogic
  <2> QED
    BY <1>1, <2>1, LogicUpdate
<1>4. AluLogic("eor", d, r, s) = Bitwise8(BitXor(d, r), s)
  <2>1. AluLogic("eor", d, r, s) = [res  |-> BitXor(d, r),
                                    sreg |-> update_sreg_after_logic(s, BitXor(d, r))]
    BY DEF AluLogic
  <2> QED
    BY <1>1, <2>1, LogicUpdate
<1> QED
  BY <1>2, <1>3, <1>4

(* com *)
THEOREM ComMeaning ==
  ASSUME NEW d \in Byte, NEW s \in Sreg
  PROVE  AluCom(d, s) = Complement(d, s)
<1> DEFINE n == 255 - d
           t == (s \ {F_S, F_V, F_N, F_Z}) \cup {F_C}
                \cup FlagIf(F_Z, Wrap8(-1 - d) = 0)
                \cup FlagIf(F_N, Bit(-1 - d, 7) = 1)
<1>1. /\ Wrap8(-1 - d) = n
      /\ Bit(-1 - d, 7) = 1 <=> n >= 128
  BY ByteRange, SMT DEF Wrap8, Bit, Pow2
<1> HIDE DEF n
<1>2. F_N \in t <=> n >= 128
  BY <1>1, DistinctFlags DEF FlagIf
<1>3. F_V \notin t
  BY DistinctFlags DEF FlagIf
<1>4. WithS(t) = t \cup FlagIf(F_S, n >= 128)
  BY <1>2, <1>3 DEF WithS, FlagIf
<1>5. WithS(t) = Update(s, {F_Z, F_N, F_V, F_S},
                        ResultFlags(n) \cup FlagIf(F_S, n >= 128)) \cup {F_C}
  BY <1>1, <1>4, DistinctFlags DEF Update, ResultFlags, FlagIf
<1>6. AluCom(d, s) = [res |-> n, sreg |-> WithS(t)]
  BY <1>1 DEF AluCom
<1> QED
  BY <1>5, <1>6 DEF Complement, Bitwise8, n

(* inc and dec leave C and H alone.                                        *)
THEOREM IncDecMeaning ==
  ASSUME NEW i \in {"inc", "dec"}, NEW d \in Byte, NEW s \in Sreg
  PROVE  AluIncDec(i, d, s) = Step(d, IF i = "inc" THEN 1 ELSE -1, s)
<1> DEFINE by    == IF i = "inc" THEN 1 ELSE -1
           res   == IF i = "inc" THEN d + 1 ELSE d - 1
           exact == Signed8(d) + by
           over  == IF i = "inc" THEN d = 127 ELSE d = 128
           t     == (s \ {F_S, F_V, F_N, F_Z})
                    \cup FlagIf(F_Z, Wrap8(res) = 0)
                    \cup FlagIf(F_N, Bit(res, 7) = 1)
                    \cup FlagIf(F_V, over)
<1>1. AluIncDec(i, d, s) = [res |-> Wrap8(res), sreg |-> WithS(t)]
  BY DEF AluIncDec
<1>2. d + by = res
  BY ByteRange, SMT
<1>3. /\ Bit(res, 7) = 1 <=> Wrap8(res) >= 128
      /\ over <=> exact \notin Int8
      /\ exact < 0 <=> (Bit(res, 7) = 1) # (exact \notin Int8)
  <2>1. CASE i = "inc"
    BY <2>1, ByteRange, Int8Range, SMT DEF Bit, Pow2, Wrap8, Signed8, Signed
  <2>2. CASE i = "dec"
    BY <2>2, ByteRange, Int8Range, SMT DEF Bit, Pow2, Wrap8, Signed8, Signed
  <2> QED
    BY <2>1, <2>2
<1> HIDE DEF by, res, exact, over
<1>4. F_N \in t <=> Bit(res, 7) = 1
  BY DistinctFlags DEF FlagIf
<1>5. F_V \in t <=> exact \notin Int8
  BY <1>3, DistinctFlags DEF FlagIf
<1>6. WithS(t) = t \cup FlagIf(F_S, exact < 0)
  BY <1>3, <1>4, <1>5 DEF WithS, FlagIf
<1>7. WithS(t) = Update(s, {F_Z, F_N, F_V, F_S},
                        ResultFlags(Wrap8(res)) \cup SignFlags(exact, Int8))
  BY <1>3, <1>6, DistinctFlags DEF Update, ResultFlags, SignFlags, FlagIf
<1> QED
  BY <1>1, <1>2, <1>7 DEF Step, exact, by

(* The product of every multiplication is an integer.                      *)
LEMMA ProductType ==
  ASSUME NEW i \in {"mul", "fmul", "muls", "fmuls", "mulsu", "fmulsu"},
         NEW d \in Byte, NEW r \in Byte
  PROVE  Product(i, d, r) \in Int
<1>1. /\ d \in Int /\ r \in Int
      /\ Signed(d, 128) \in Int /\ Signed(r, 128) \in Int
  BY ByteRange, SMT DEF Signed
<1> QED
  BY <1>1 DEF Product

(* mul, muls, mulsu and the fractional forms: the 16-bit result and C, the *)
(* top bit of the unshifted product.                                       *)
THEOREM MulMeaning ==
  ASSUME NEW i \in {"mul", "muls", "mulsu", "fmul", "fmuls", "fmulsu"},
         NEW d \in Byte, NEW r \in Byte, NEW s \in Sreg
  PROVE  /\ AluMul(i, d, r, s) = ProductOf(Product(i, d, r), FALSE, s)
         /\ AluFMul(i, d, r, s) = ProductOf(Product(i, d, r), TRUE, s)
<1> DEFINE p == Product(i, d, r)
<1>1. p \in Int
  BY ProductType
<1> HIDE DEF p
<1>2. /\ Bit(p, 15) = 1 <=> Wrap16(p) >= 32768
      /\ Bit(2 * p, 16) = 1 <=> Wrap16(p) >= 32768
  BY <1>1, SMT DEF Bit, Pow2, Wrap16
<1>3. update_sreg_after_mul(s, p)
      = Update(s, {F_C, F_Z}, FlagIf(F_Z, Wrap16(p) = 0)
                              \cup FlagIf(F_C, Wrap16(p) >= 32768))
  BY <1>2, DistinctFlags DEF update_sreg_after_mul, Update, FlagIf
<1>4. update_sreg_after_fmul(s, 2 * p)
      = Update(s, {F_C, F_Z}, FlagIf(F_Z, Wrap16(2 * p) = 0)
                              \cup FlagIf(F_C, Wrap16(p) >= 32768))
  BY <1>2, DistinctFlags DEF update_sreg_after_fmul, Update, FlagIf
<1> QED
  BY <1>3, <1>4 DEF AluMul, AluFMul, ProductOf, p

(* lsr, ror and asr: the bit shifted out is C, the bit shifted in is zero, *)
(* the old C or the sign.                                                  *)
THEOREM ShiftMeaning ==
  ASSUME NEW i \in {"lsr", "ror", "asr"}, NEW d \in Byte, NEW s \in Sreg
  PROVE  AluShift(i, d, s)
         = Halved(d, CASE i = "lsr" -> 0 [] i = "ror" -> Carry(s) [] i = "asr" -> d \div 128, s)
<1> DEFINE top == CASE i = "lsr" -> 0 [] i = "ror" -> Carry(s) [] i = "asr" -> d \div 128
           res == CASE i = "lsr" -> d \div 2
                    [] i = "ror" -> d \div 2 + 128 * Carry(s)
                    [] i = "asr" -> Signed(d, 128) \div 2
           new == d \div 2 + 128 * top
           odd == d % 2 = 1
           n   == Bit(res, 7) = 1
           c   == Bit(d, 0) = 1
           t   == (s \ {F_S, F_V, F_N, F_Z, F_C})
                  \cup FlagIf(F_C, c) \cup FlagIf(F_Z, Wrap8(res) = 0)
                  \cup FlagIf(F_N, n) \cup FlagIf(F_V, n # c)
<1>1. AluShift(i, d, s) = [res |-> Wrap8(res), sreg |-> WithS(t)]
  BY DEF AluShift, update_sreg_after_rshift
<1>2. /\ Wrap8(res) = new
      /\ n <=> new >= 128
      /\ c <=> odd
  <2>1. CASE i = "lsr"
    BY <2>1, ByteRange, SMT DEF Wrap8, Bit, Pow2
  <2>2. CASE i = "ror"
    <3>1. Carry(s) \in {0, 1}
      BY CarryType DEF CarryValue
    <3> QED
      BY <2>2, <3>1, ByteRange, SMT DEF Wrap8, Bit, Pow2
  <2>3. CASE i = "asr"
    BY <2>3, ByteRange, SMT DEF Wrap8, Bit, Pow2, Signed
  <2> QED
    BY <2>1, <2>2, <2>3
<1> HIDE DEF top, res, new, odd, n, c
<1>3. F_N \in t <=> n
  BY DistinctFlags DEF FlagIf
<1>4. F_V \in t <=> (n # c)
  BY DistinctFlags DEF FlagIf
<1>5. WithS(t) = t \cup FlagIf(F_S, odd)
  BY <1>2, <1>3, <1>4 DEF WithS, FlagIf, n, c
<1>6. WithS(t) = Update(s, ArithFlags \ {F_H},
                        ResultFlags(new) \cup FlagIf(F_C, odd) \cup FlagIf(F_S, odd)
                        \cup FlagIf(F_V, (new >= 128) # odd))
  BY <1>2, <1>5, DistinctFlags DEF Update, ArithFlags, ResultFlags, FlagIf, n, c, odd
<1>7. Halved(d, top, s)
      = [res |-> new,
         sreg |-> Update(s, ArithFlags \ {F_H},
                         ResultFlags(new) \cup FlagIf(F_C, odd) \cup FlagIf(F_S, odd)
                         \cup FlagIf(F_V, (new >= 128) # odd))]
  BY DEF Halved, new, odd
<1>8. AluShift(i, d, s) = Halved(d, top, s)
  BY <1>1, <1>2, <1>6, <1>7
<1> QED
  BY <1>8, Zenon DEF top

(* swap exchanges the digits.                                              *)
THEOREM SwapMeaning ==
  ASSUME NEW d \in Byte
  PROVE  AluSwap(d) = 16 * (d % 16) + d \div 16
  BY ByteRange, SMT DEF AluSwap, Wrap8

-----------------------------------------------------------------------------
(* Ranges.                                                                 *)

(* The register numbers.                                                   *)
LEMMA RegRange == \A n : n \in RegIndex <=> n \in Int /\ 0 <= n /\ n <= 31
  BY DEF RegIndex

(* Reducing an integer to a width gives that width.                        *)
LEMMA WrapType ==
  ASSUME NEW x \in Int
  PROVE  /\ Wrap8(x) \in Byte /\ Wrap16(x) \in Word
         /\ Lo(x) \in Byte /\ Hi(x) \in Byte
  BY ByteRange, WordRange, SMT DEF Wrap8, Wrap16, Lo, Hi

(* Two bytes make a word.                                                  *)
LEMMA PairType ==
  ASSUME NEW lo \in Byte, NEW hi \in Byte
  PROVE  lo + 256 * hi \in Word /\ 256 * hi + lo \in Word
  BY ByteRange, WordRange, SMT

(* A byte as bits.                                                         *)
LEMMA BitsType == ASSUME NEW x PROVE BitsOf(x) \in Sreg
  BY DEF BitsOf, Sreg

(* Bytes and words are numbers.                                            *)
LEMMA IntegerSets == Byte \subseteq Int /\ Word \subseteq Int /\ RegIndex \subseteq Int
  BY ByteRange, WordRange, RegRange

-----------------------------------------------------------------------------
(* Status registers.                                                       *)

(* The ways the code builds a status register from another.                *)
LEMMA SregOps ==
  /\ \A s \in Sreg : \A m : s \ m \in Sreg
  /\ \A s \in Sreg : \A m \in Sreg : s \cup m \in Sreg
  /\ \A f \in BitIndex : {f} \in Sreg
  /\ {} \in Sreg
  BY DEF Sreg

(* A flag that may be on.                                                  *)
LEMMA FlagIfType == ASSUME NEW f \in BitIndex, NEW p PROVE FlagIf(f, p) \in Sreg
  BY SregOps DEF FlagIf

(* S computed from N and V.                                                *)
LEMMA WithSType == ASSUME NEW s \in Sreg PROVE WithS(s) \in Sreg
  BY SregOps, FlagIfType, FlagNumbers DEF WithS

-----------------------------------------------------------------------------
(* Results of the arithmetic.                                              *)

(* A result of 8-bit arithmetic with the status register after it.         *)
Result8 == [res : Byte, sreg : Sreg]

(* The same for a register pair.                                           *)
Result16 == [res : Word, sreg : Sreg]

(* add, sub, logic, com, neg, inc and dec.                                 *)
LEMMA AluTypes ==
  ASSUME NEW i, NEW d \in Byte, NEW r \in Byte, NEW s \in Sreg
  PROVE  /\ AluAdd(i, d, r, s) \in Result8
         /\ AluSub(i, d, r, s) \in Result8
         /\ i \in {"and", "andi", "or", "ori", "eor"} => AluLogic(i, d, r, s) \in Result8
         /\ AluCom(d, s) \in Result8
         /\ AluIncDec(i, d, s) \in Result8
         /\ i \in {"lsr", "ror", "asr"} => AluShift(i, d, s) \in Result8
<1> USE FlagNumbers, SregOps, FlagIfType, WithSType
<1>1. d \in Int /\ r \in Int /\ Carry(s) \in Int /\ Signed(d, 128) \in Int
  BY IntegerSets, CarryType DEF CarryValue, Signed
<1>2. AluAdd(i, d, r, s) \in Result8
  <2>1. \A res : update_sreg_after_add(s, res, d, r) \in Sreg
    BY DEF update_sreg_after_add
  <2> QED
    BY <1>1, <2>1, WrapType DEF AluAdd, Result8
<1>3. AluSub(i, d, r, s) \in Result8
  <2>1. \A t \in Sreg : \A res : update_sreg_after_sub(t, res, d, r) \in Sreg
    BY DEF update_sreg_after_sub
  <2>2. s \cup {F_Z} \in Sreg
    OBVIOUS
  <2> QED
    BY <1>1, <2>1, <2>2, WrapType DEF AluSub, Result8
<1>4. ASSUME i \in {"and", "andi", "or", "ori", "eor"}
      PROVE  AluLogic(i, d, r, s) \in Result8
  <2>1. \A res : update_sreg_after_logic(s, res) \in Sreg
    BY DEF update_sreg_after_logic
  <2>2. BitAnd(d, r) \in Byte /\ BitOr(d, r) \in Byte /\ BitXor(d, r) \in Byte
    BY ByteOfType DEF BitAnd, BitOr, BitXor
  <2> QED
    BY <1>4, <2>1, <2>2 DEF AluLogic, Result8
<1>5. AluCom(d, s) \in Result8
  <2> DEFINE t == (s \ {F_S, F_V, F_N, F_Z}) \cup {F_C}
                  \cup FlagIf(F_Z, Wrap8(-1 - d) = 0)
                  \cup FlagIf(F_N, Bit(-1 - d, 7) = 1)
  <2>1. AluCom(d, s) = [res |-> Wrap8(-1 - d), sreg |-> WithS(t)]
    BY DEF AluCom
  <2>2. WithS(t) \in Sreg
    OBVIOUS
  <2>3. Wrap8(-1 - d) \in Byte
    BY <1>1, WrapType
  <2> HIDE DEF t
  <2> QED
    BY <2>1, <2>2, <2>3 DEF Result8
<1>6. AluIncDec(i, d, s) \in Result8
  <2> DEFINE res  == IF i = "inc" THEN d + 1 ELSE d - 1
             over == IF i = "inc" THEN d = 127 ELSE d = 128
             t    == (s \ {F_S, F_V, F_N, F_Z})
                     \cup FlagIf(F_Z, Wrap8(res) = 0)
                     \cup FlagIf(F_N, Bit(res, 7) = 1)
                     \cup FlagIf(F_V, over)
  <2>1. AluIncDec(i, d, s) = [res |-> Wrap8(res), sreg |-> WithS(t)]
    BY DEF AluIncDec
  <2>2. res \in Int
    BY <1>1
  <2> HIDE DEF res, over
  <2>3. WithS(t) \in Sreg
    OBVIOUS
  <2> HIDE DEF t
  <2> QED
    BY <2>1, <2>2, <2>3, WrapType DEF Result8
<1>7. ASSUME i \in {"lsr", "ror", "asr"}
      PROVE  AluShift(i, d, s) \in Result8
  <2>1. \A res : update_sreg_after_rshift(s, res, d) \in Sreg
    BY DEF update_sreg_after_rshift
  <2>2. /\ d \div 2 \in Int /\ d \div 2 + 128 * Carry(s) \in Int
        /\ Signed(d, 128) \div 2 \in Int
    BY <1>1
  <2> QED
    BY <1>7, <2>1, <2>2, WrapType DEF AluShift, Result8
<1> QED
  BY <1>2, <1>3, <1>4, <1>5, <1>6, <1>7

(* adiw, sbiw and the multiplications.                                     *)
LEMMA AluWordTypes ==
  ASSUME NEW i, NEW s \in Sreg
  PROVE  /\ \A d \in Word, k \in Byte : AluWord(i, d, k, s) \in Result16
         /\ i \in {"mul", "muls", "mulsu", "fmul", "fmuls", "fmulsu"}
            => \A d, r \in Byte : /\ AluMul(i, d, r, s) \in Result16
                                  /\ AluFMul(i, d, r, s) \in Result16
<1> USE FlagNumbers, SregOps, FlagIfType, WithSType
<1>1. ASSUME NEW d \in Word, NEW k \in Byte
      PROVE  AluWord(i, d, k, s) \in Result16
  <2> DEFINE res  == IF i = "adiw" THEN d + k ELSE d - k
             over == IF i = "adiw" THEN Bit(d, 15) = 0 /\ Bit(res, 15) = 1
                                   ELSE Bit(d, 15) = 1 /\ Bit(res, 15) = 0
             t    == (s \ {F_S, F_V, F_N, F_Z, F_C})
                     \cup FlagIf(F_C, Bit(res, 16) = 1)
                     \cup FlagIf(F_Z, Wrap16(res) = 0)
                     \cup FlagIf(F_N, Bit(res, 15) = 1)
                     \cup FlagIf(F_V, over)
  <2>1. AluWord(i, d, k, s) = [res |-> Wrap16(res), sreg |-> WithS(t)]
    BY DEF AluWord
  <2>2. res \in Int
    BY IntegerSets
  <2> HIDE DEF res, over
  <2>3. WithS(t) \in Sreg
    OBVIOUS
  <2> HIDE DEF t
  <2> QED
    BY <2>1, <2>2, <2>3, WrapType DEF Result16
<1>2. ASSUME i \in {"mul", "muls", "mulsu", "fmul", "fmuls", "fmulsu"},
             NEW d \in Byte, NEW r \in Byte
      PROVE  AluMul(i, d, r, s) \in Result16 /\ AluFMul(i, d, r, s) \in Result16
  <2>1. Product(i, d, r) \in Int /\ 2 * Product(i, d, r) \in Int
    BY <1>2, ProductType
  <2>2. \A res : /\ update_sreg_after_mul(s, res) \in Sreg
                 /\ update_sreg_after_fmul(s, res) \in Sreg
    BY DEF update_sreg_after_mul, update_sreg_after_fmul
  <2> QED
    BY <2>1, <2>2, WrapType DEF AluMul, AluFMul, Result16
<1> QED
  BY <1>1, <1>2

(* swap *)
LEMMA SwapType == ASSUME NEW d \in Byte PROVE AluSwap(d) \in Byte
  BY ByteRange, SMT DEF AluSwap, Wrap8

-----------------------------------------------------------------------------
(* Operands.                                                               *)

(* The instructions whose unpacker stores a register number in rd or rr.   *)
HasRd == RdPlain \cup UpperImm \cup {"muls"} \cup Multiplies816
HasRr == TwoRegisters \cup RrPlain \cup {"muls"} \cup Multiplies816

(* The registers an instruction names exist; those of movw, adiw and sbiw  *)
(* are among the sixteen word registers.                                   *)
LEMMA RegisterOperands ==
  ASSUME NEW op \in Word, NEW i
  PROVE  /\ i \in HasRd => rd(i, op) \in RegIndex
         /\ i \in HasRr => rr(i, op) \in RegIndex
         /\ i \in WordImm \cup {"movw"} => rd(i, op) \in 0 .. 15
         /\ i = "movw" => rr(i, op) \in 0 .. 15
<1>1. op \in Int
  BY IntegerSets
<1>2. i \in HasRd => rd(i, op) \in RegIndex
  BY <1>1, RegRange, SMT DEF HasRd, rd, Field, RdPlain, TwoRegisters, DirectLoads,
     UpperImm, Multiplies816, WordImm
<1>3. i \in HasRr => rr(i, op) \in RegIndex
  BY <1>1, RegRange, SMT DEF HasRr, rr, Field, RrPlain, TwoRegisters, DirectStores,
     Multiplies816
<1>4. i \in WordImm \cup {"movw"} => rd(i, op) \in 0 .. 15
  BY <1>1, SMT DEF rd, Field, RdPlain, TwoRegisters, DirectLoads, UpperImm,
     Multiplies816, WordImm
<1>5. i = "movw" => rr(i, op) \in 0 .. 15
  BY <1>1, SMT DEF rr, Field, RrPlain, TwoRegisters, DirectStores, Multiplies816
<1> QED
  BY <1>2, <1>3, <1>4, <1>5

(* Constants, bit numbers, ports, displacements and branch distances.      *)
LEMMA OtherOperands ==
  ASSUME NEW op \in Word, NEW i
  PROVE  /\ i \in UpperImm \cup WordImm => imm(i, op) \in Byte
         /\ i \in {"bclr", "bset", "sbrc", "sbrs", "bld", "bst", "brbc", "brbs"}
                  \cup PortBits => bit(i, op) \in BitIndex
         /\ i \in {"in", "out"} \cup PortBits
            => 32 + port(i, op) \in Word
         /\ i \in Displaced => ptr_displacement(i, op) \in Int
         /\ i \in {"brbc", "brbs", "rcall", "rjmp"} => pc_offset(i, op) \in Int
         /\ i \in {"call", "jmp"} => addr_msbyte(i, op) \in Int
<1>1. op \in Int
  BY IntegerSets
<1>2. i \in UpperImm \cup WordImm => imm(i, op) \in Byte
  BY <1>1, ByteRange, SMT DEF imm, Field, UpperImm, WordImm
<1>3. i \in {"bclr", "bset", "sbrc", "sbrs", "bld", "bst", "brbc", "brbs"}
            \cup PortBits => bit(i, op) \in BitIndex
  BY <1>1, SMT DEF bit, Field, PortBits, BitIndex
<1>4. i \in {"in", "out"} \cup PortBits => 32 + port(i, op) \in Word
  BY <1>1, WordRange, SMT DEF port, Field, PortBits
<1>5. i \in Displaced => ptr_displacement(i, op) \in Int
  BY <1>1, SMT DEF ptr_displacement, Field, Displaced
<1>6. i \in {"brbc", "brbs", "rcall", "rjmp"} => pc_offset(i, op) \in Int
  BY <1>1, SMT DEF pc_offset, Field, Signed
<1>7. i \in {"call", "jmp"} => addr_msbyte(i, op) \in Int
  BY <1>1, SMT DEF addr_msbyte, Field
<1> QED
  BY <1>2, <1>3, <1>4, <1>5, <1>6, <1>7

-----------------------------------------------------------------------------
(* The context.                                                            *)

(* What the fields of a context are.                                       *)
LEMMA ContextFields ==
  ASSUME NEW c \in Context
  PROVE  /\ c.pc \in Word /\ c.sp \in Word /\ c.sreg \in Sreg
         /\ c.regs \in [RegIndex -> Byte]
         /\ c.sram \in [SramIndex -> Byte] /\ c.io \in [IoPorts -> Byte]
  BY DEF Context

(* A context with one field replaced by a value of its type.               *)
LEMMA ContextUpdates ==
  ASSUME NEW c \in Context
  PROVE  /\ \A w \in Word : [c EXCEPT !.pc = w] \in Context
         /\ \A w \in Word : [c EXCEPT !.sp = w] \in Context
         /\ \A s \in Sreg : [c EXCEPT !.sreg = s] \in Context
         /\ \A n \in RegIndex, b \in Byte : [c EXCEPT !.regs[n] = b] \in Context
         /\ \A a \in SramIndex, b \in Byte : [c EXCEPT !.sram[a] = b] \in Context
         /\ \A q \in IoPorts, b \in Byte : [c EXCEPT !.io[q] = b] \in Context
  BY DEF Context

(* A byte read from any address of the data space.                         *)
LEMMA ReadType ==
  ASSUME NEW c \in Context, NEW a \in Word
  PROVE  readmem(c, a) \in Byte
<1>1. a \in Int /\ 0 <= a
  BY WordRange
<1>2. CASE a >= SramBase
  <2>1. sram_r(c, a - SramBase) \in Byte
    BY ContextFields, ByteRange DEF sram_r
  <2> QED
    BY <1>1, <1>2, <2>1 DEF readmem, SramBase, RegIndex, Spl, Sph, SregAddr
<1>3. CASE a \in RegIndex
  <2>1. readmem(c, a) = c.regs[a]
    BY <1>3, <1>1, RegRange, SMT DEF readmem, SramBase, Spl, Sph, SregAddr
  <2> QED
    BY <1>3, <2>1, ContextFields
<1>4. CASE 32 <= a /\ a < Spl
  <2>1. readmem(c, a) = io_r(c, a - 32)
    BY <1>4, <1>1, RegRange, SMT DEF readmem, SramBase, Spl, Sph, SregAddr
  <2> QED
    BY <2>1, ContextFields, ByteRange DEF io_r
<1>5. CASE a \in {Spl, Sph}
  <2>1. readmem(c, a) \in {Lo(c.sp), Hi(c.sp)}
    BY <1>5, <1>1, RegRange, SMT DEF readmem, SramBase, Spl, Sph, SregAddr
  <2> QED
    BY <2>1, ContextFields, WrapType, IntegerSets
<1>6. CASE a = SregAddr
  <2>1. readmem(c, a) = ByteOf(c.sreg)
    BY <1>6, <1>1, RegRange, SMT DEF readmem, SramBase, Spl, Sph, SregAddr
  <2> QED
    BY <2>1, ByteOfType
<1> QED
  BY <1>1, <1>2, <1>3, <1>4, <1>5, <1>6, RegRange, SMT DEF SramBase, Spl, Sph, SregAddr

(* A byte written to any address of the data space.                        *)
LEMMA WriteType ==
  ASSUME NEW c \in Context, NEW a \in Word, NEW b \in Byte
  PROVE  writemem(c, a, b) \in Context
<1>1. a \in Int /\ 0 <= a
  BY WordRange
<1>2. CASE a >= SramBase
  <2>1. writemem(c, a, b) = sram_w(c, a - SramBase, b)
    BY <1>2, <1>1, RegRange, SMT DEF writemem, SramBase, Spl, Sph, SregAddr
  <2> QED
    BY <2>1, ContextUpdates DEF sram_w
<1>3. CASE a \in RegIndex
  <2>1. writemem(c, a, b) = [c EXCEPT !.regs[a] = b]
    BY <1>3, <1>1, RegRange, SMT DEF writemem, SramBase, Spl, Sph, SregAddr
  <2> QED
    BY <1>3, <2>1, ContextUpdates
<1>4. CASE 32 <= a /\ a < Spl
  <2>1. writemem(c, a, b) = io_w(c, a - 32, b)
    BY <1>4, <1>1, RegRange, SMT DEF writemem, SramBase, Spl, Sph, SregAddr
  <2> QED
    BY <2>1, ContextUpdates DEF io_w
<1>5. CASE a \in {Spl, Sph}
  <2>1. /\ Hi(c.sp) \in Byte /\ Lo(c.sp) \in Byte
    BY ContextFields, WrapType, IntegerSets
  <2>2. /\ 256 * Hi(c.sp) + b \in Word /\ Lo(c.sp) + 256 * b \in Word
    BY <2>1, PairType
  <2>3. writemem(c, a, b) \in {[c EXCEPT !.sp = 256 * Hi(c.sp) + b],
                               [c EXCEPT !.sp = Lo(c.sp) + 256 * b]}
    BY <1>5, <1>1, RegRange, SMT DEF writemem, SramBase, Spl, Sph, SregAddr
  <2> QED
    BY <2>2, <2>3, ContextUpdates
<1>6. CASE a = SregAddr
  <2>1. writemem(c, a, b) = [c EXCEPT !.sreg = BitsOf(b)]
    BY <1>6, <1>1, RegRange, SMT DEF writemem, SramBase, Spl, Sph, SregAddr
  <2> QED
    BY <2>1, ContextUpdates, BitsType
<1> QED
  BY <1>1, <1>2, <1>3, <1>4, <1>5, <1>6, RegRange, SMT DEF SramBase, Spl, Sph, SregAddr

(* The stack.                                                              *)
LEMMA StackTypes ==
  ASSUME NEW c \in Context
  PROVE  /\ \A b \in Byte : push(c, b) \in Context
         /\ Popped(c) \in Context
         /\ pop(c) \in Byte
<1>1. c.sp \in Word /\ c.sp - 1 \in Int /\ c.sp + 1 \in Int
  BY ContextFields, WordRange, SMT
<1>2. [c EXCEPT !.sp = Wrap16(c.sp - 1)] \in Context
  BY <1>1, ContextUpdates, WrapType
<1>3. Popped(c) \in Context
  BY <1>1, ContextUpdates, WrapType DEF Popped
<1>4. pop(c) \in Byte
  BY <1>3, ContextFields, ReadType DEF pop
<1>5. ASSUME NEW b \in Byte PROVE push(c, b) \in Context
  BY <1>1, <1>2, WriteType DEF push
<1> QED
  BY <1>3, <1>4, <1>5

(* A return address.                                                       *)
LEMMA CallTypes ==
  ASSUME NEW c \in Context
  PROVE  /\ \A w \in Word : pushw(c, w) \in Context
         /\ Popped(Popped(c)) \in Context
         /\ popw(c) \in Word
<1>1. ASSUME NEW w \in Word PROVE pushw(c, w) \in Context
  <2>1. Lo(w) \in Byte /\ Hi(w) \in Byte
    BY IntegerSets, WrapType
  <2> QED
    BY <2>1, StackTypes DEF pushw
<1>2. Popped(c) \in Context
  BY StackTypes
<1>3. pop(c) \in Byte /\ pop(Popped(c)) \in Byte
  BY <1>2, StackTypes
<1> QED
  BY <1>1, <1>2, <1>3, StackTypes, PairType DEF popw

(* Cells of the SRAM.                                                      *)

(* The contents of an SRAM cell are read from the SRAM alone.              *)
LEMMA SramRead ==
  ASSUME NEW c, NEW a \in Int, a >= SramBase, a < SramBase + SramSize
  PROVE  readmem(c, a) = c.sram[a - SramBase] /\ a - SramBase \in SramIndex
<1>1. readmem(c, a) = sram_r(c, a - SramBase)
  BY RegRange, SMT DEF readmem, SramBase, Spl, Sph, SregAddr
<1>2. a - SramBase \in SramIndex
  BY SramAssumption DEF SramIndex, SramBase
<1> QED
  BY <1>1, <1>2 DEF sram_r

(* A write of one byte leaves every other SRAM cell alone.                 *)
LEMMA WriteKeeps ==
  ASSUME NEW c \in Context, NEW x \in Word, NEW b \in Byte,
         NEW o \in SramIndex, x # SramBase + o
  PROVE  writemem(c, x, b).sram[o] = c.sram[o]
<1>1. x \in Int /\ 0 <= x /\ o \in Int
  BY WordRange, SramAssumption DEF SramIndex
<1>2. CASE x >= SramBase
  <2>1. writemem(c, x, b) = sram_w(c, x - SramBase, b)
    BY <1>2, <1>1, RegRange, SMT DEF writemem, SramBase, Spl, Sph, SregAddr
  <2>2. x - SramBase # o
    BY <1>1 DEF SramBase
  <2>3. c.sram \in [SramIndex -> Byte]
    BY ContextFields
  <2> QED
    BY <2>1, <2>2, <2>3 DEF sram_w, Context
<1>3. CASE ~(x >= SramBase)
  <2>1. writemem(c, x, b) \in {[c EXCEPT !.regs[x] = b], io_w(c, x - 32, b),
                               [c EXCEPT !.sp = 256 * Hi(c.sp) + b],
                               [c EXCEPT !.sp = Lo(c.sp) + 256 * b],
                               [c EXCEPT !.sreg = BitsOf(b)]}
    BY <1>3, <1>1, RegRange, SMT DEF writemem, SramBase, Spl, Sph, SregAddr
  <2> QED
    BY <2>1 DEF io_w, Context
<1> QED
  BY <1>2, <1>3

(* A write of one byte to an SRAM cell.                                    *)
LEMMA WriteLands ==
  ASSUME NEW c \in Context, NEW o \in SramIndex, NEW b \in Byte
  PROVE  /\ writemem(c, SramBase + o, b) = [c EXCEPT !.sram[o] = b]
         /\ writemem(c, SramBase + o, b).sram[o] = b
         /\ writemem(c, SramBase + o, b).sp = c.sp
<1>1. o \in Int /\ 0 <= o
  BY SramAssumption DEF SramIndex
<1>2. writemem(c, SramBase + o, b) = sram_w(c, (SramBase + o) - SramBase, b)
  BY <1>1, RegRange, SMT DEF writemem, SramBase, Spl, Sph, SregAddr
<1>3. (SramBase + o) - SramBase = o
  BY <1>1 DEF SramBase
<1>4. writemem(c, SramBase + o, b) = [c EXCEPT !.sram[o] = b]
  BY <1>2, <1>3 DEF sram_w
<1> QED
  BY <1>4 DEF Context

(* A push writes at the stack pointer and moves it down by one, as long as *)
(* it is not itself what is written.                                       *)
LEMMA PushKeeps ==
  ASSUME NEW c \in Context, NEW b \in Byte, c.sp >= SramBase - 1
  PROVE  /\ push(c, b) \in Context
         /\ push(c, b).sp = c.sp - 1
         /\ \A o \in SramIndex : c.sp # SramBase + o => push(c, b).sram[o] = c.sram[o]
         /\ \A o \in SramIndex : c.sp = SramBase + o => push(c, b).sram[o] = b
<1> DEFINE m == [c EXCEPT !.sp = Wrap16(c.sp - 1)]
<1>1. c.sp \in Word /\ c.sp \in Int /\ 0 < c.sp /\ c.sp <= 65535
  BY ContextFields, WordRange DEF SramBase
<1>2. Wrap16(c.sp - 1) = c.sp - 1 /\ c.sp - 1 \in Word
  BY <1>1, WordRange, SMT DEF Wrap16
<1>3. m \in Context /\ m.sp = c.sp - 1 /\ m.sram = c.sram
  BY <1>2, ContextUpdates DEF Context
<1>4. push(c, b) = writemem(m, c.sp, b)
  BY DEF push
<1> HIDE DEF m
<1>5. push(c, b) \in Context
  BY <1>1, <1>3, <1>4, WriteType
<1>6. push(c, b).sp = c.sp - 1
  <2>1. CASE c.sp >= SramBase
    <3>1. push(c, b) = sram_w(m, c.sp - SramBase, b)
      BY <2>1, <1>1, <1>4, RegRange, SMT DEF writemem, SramBase, Spl, Sph, SregAddr
    <3> QED
      BY <3>1, <1>3 DEF sram_w, Context
  <2>2. CASE c.sp = SregAddr
    <3>1. push(c, b) = [m EXCEPT !.sreg = BitsOf(b)]
      BY <2>2, <1>1, <1>4, RegRange, SMT DEF writemem, SramBase, Spl, Sph, SregAddr
    <3> QED
      BY <3>1, <1>3 DEF Context
  <2> QED
    BY <2>1, <2>2, <1>1 DEF SramBase, SregAddr
<1>7. ASSUME NEW o \in SramIndex, c.sp # SramBase + o
      PROVE  push(c, b).sram[o] = c.sram[o]
  BY <1>1, <1>3, <1>4, <1>7, WriteKeeps
<1>8. ASSUME NEW o \in SramIndex, c.sp = SramBase + o
      PROVE  push(c, b).sram[o] = b
  <2>1. writemem(m, SramBase + o, b).sram[o] = b
    BY <1>3, WriteLands
  <2> QED
    BY <2>1, <1>4, <1>8
<1> QED
  BY <1>5, <1>6, <1>7, <1>8

(* A word register.                                                        *)
LEMMA WordRegisters ==
  ASSUME NEW c \in Context, NEW n \in 0 .. 15
  PROVE  /\ WordReg(c, n) \in Word
         /\ \A w \in Int : SetWord(c, n, w) \in Context
<1>1. 2 * n \in RegIndex /\ 2 * n + 1 \in RegIndex
  BY RegRange, SMT
<1>2. WordReg(c, n) \in Word
  BY <1>1, ContextFields, PairType DEF WordReg
<1>3. ASSUME NEW w \in Int PROVE SetWord(c, n, w) \in Context
  <2>1. Lo(w) \in Byte /\ Hi(w) \in Byte
    BY WrapType
  <2> DEFINE low == [c EXCEPT !.regs[2 * n] = Lo(w)]
  <2>2. low \in Context
    BY <1>1, <2>1, ContextUpdates
  <2>3. SetWord(c, n, w) = [low EXCEPT !.regs[2 * n + 1] = Hi(w)]
    BY DEF SetWord
  <2> HIDE DEF low
  <2> QED
    BY <1>1, <2>1, <2>2, <2>3, ContextUpdates
<1> QED
  BY <1>2, <1>3

(* A jump.                                                                 *)
LEMMA JumpType ==
  ASSUME NEW c \in Context, NEW w \in Int
  PROVE  Jump(c, w) \in Context
  BY ContextUpdates, WrapType DEF Jump

-----------------------------------------------------------------------------
(* One call of avrvm_exec.                                                 *)

(* The inductive invariant: the flash never changes, so that every fetch   *)
(* is of a word of a program.                                              *)
IInv == flash \in Programs /\ TypeOK

(* The return codes are 16-bit integers.                                   *)
LEMMA Codes ==
  /\ AVRVM_RC_OK \in Int16 /\ AVRVM_RC_WDR \in Int16 /\ AVRVM_RC_SLEEP \in Int16
  /\ AVRVM_RC_BREAK \in Int16 /\ AVRVM_RC_UNDEF_INSTR \in Int16
  /\ \A w \in Word : w - AVRVM_MAX_FLASH_WORDS \in Int16
  BY WordRange, Int16Range, SMT DEF AVRVM_RC_OK, AVRVM_RC_WDR, AVRVM_RC_SLEEP,
     AVRVM_RC_BREAK, AVRVM_RC_UNDEF_INSTR, AVRVM_MAX_FLASH_WORDS

(* Returning with a context and a code of their types.                     *)
LEMMA Returned ==
  ASSUME IInv, NEW c \in Context
  PROVE  /\ \A code \in Int16 : Return(c, code) => IInv'
         /\ Ok(c) => IInv'
  BY Codes DEF IInv, TypeOK, Return, Ok

(* A word of the flash, at any address.                                    *)
LEMMA FlashType == ASSUME IInv, NEW a \in Int PROVE flash_r(a) \in Word
<1>1. (a % FlashWords) + 1 \in 1 .. FlashWords
  BY FlashAssumption
<1>2. flash \in [1 .. FlashWords -> Words]
  BY ProgramsAssumption DEF IInv
<1> QED
  BY <1>1, <1>2, WordsAssumption DEF flash_r

(* What a step finds: the words fetched, the context after the fetch and   *)
(* the machine's own fields.                                               *)
LEMMA Fetch ==
  ASSUME IInv
  PROVE  /\ ctx \in Context /\ fetched \in Context /\ fetched2 \in Context
         /\ opcode \in Word /\ operand \in Word
         /\ ctx.sreg \in Sreg /\ ctx.pc \in Int
<1>1. ctx \in Context
  BY DEF IInv, TypeOK
<1>2. ctx.pc \in Int /\ ctx.pc + 1 \in Int /\ ctx.pc + 2 \in Int /\ ctx.sreg \in Sreg
  BY <1>1, ContextFields, WordRange, SMT
<1>3. fetched \in Context /\ fetched2 \in Context
  BY <1>1, <1>2, ContextUpdates, WrapType DEF fetched, fetched2
<1>4. fetched.pc \in Int
  BY <1>3, ContextFields, IntegerSets
<1>5. opcode \in Word /\ operand \in Word
  BY <1>2, <1>4, FlashType DEF opcode, operand
<1> QED
  BY <1>1, <1>2, <1>3, <1>5

(* The operands of an instruction that has rd, rr or either right operand. *)
LEMMA Operands ==
  ASSUME IInv
  PROVE  /\ instr \in HasRd => Rd \in RegIndex /\ RD \in Byte
         /\ instr \in HasRr => Rr \in RegIndex /\ RR \in Byte
         /\ instr \in TwoRegisters \cup UpperImm => Source \in Byte
<1>1. ctx.regs \in [RegIndex -> Byte]
  BY Fetch, ContextFields
<1>2. instr \in HasRd => Rd \in RegIndex /\ RD \in Byte
  BY <1>1, Fetch, RegisterOperands DEF Rd, RD
<1>3. instr \in HasRr => Rr \in RegIndex /\ RR \in Byte
  BY <1>1, Fetch, RegisterOperands DEF Rr, RR
<1>4. instr \in TwoRegisters \cup UpperImm => Source \in Byte
  BY <1>3, Fetch, OtherOperands DEF Source, HasRr
<1> QED
  BY <1>2, <1>3, <1>4

(* Storing a result and the flags.                                         *)
LEMMA Stored ==
  ASSUME IInv
  PROVE  /\ Rd \in RegIndex => \A out \in Result8 : Result(out) => IInv'
         /\ \A out \in Result8 : Flags(out) => IInv'
         /\ \A n \in 0 .. 15 : \A out \in Result16 : ResultWord(n, out) => IInv'
         /\ Rd \in RegIndex
            => \A c \in Context, b \in Byte : Ok([c EXCEPT !.regs[Rd] = b]) => IInv'
<1>1. fetched \in Context
  BY Fetch
<1>2. ASSUME Rd \in RegIndex, NEW c \in Context, NEW b \in Byte
      PROVE  Ok([c EXCEPT !.regs[Rd] = b]) => IInv'
  BY <1>2, ContextUpdates, Returned
<1>3. ASSUME NEW s \in Sreg PROVE [fetched EXCEPT !.sreg = s] \in Context
  BY <1>1, ContextUpdates
<1>4. ASSUME Rd \in RegIndex, NEW out \in Result8
      PROVE  Result(out) => IInv'
  <2> DEFINE c == [fetched EXCEPT !.sreg = out.sreg]
  <2>1. c \in Context /\ out.res \in Byte
    BY <1>3 DEF Result8
  <2>2. [fetched EXCEPT !.regs[Rd] = out.res, !.sreg = out.sreg]
        = [c EXCEPT !.regs[Rd] = out.res]
    BY <1>1 DEF Context
  <2> HIDE DEF c
  <2> QED
    BY <1>2, <1>4, <2>1, <2>2 DEF Result
<1>5. ASSUME NEW out \in Result8
      PROVE  Flags(out) => IInv'
  BY <1>3, Returned DEF Flags, Result8
<1>6. ASSUME NEW n \in 0 .. 15, NEW out \in Result16
      PROVE  ResultWord(n, out) => IInv'
  <2>1. out.res \in Int /\ out.sreg \in Sreg
    BY IntegerSets DEF Result16
  <2> QED
    BY <1>3, <2>1, WordRegisters, Returned DEF ResultWord
<1> QED
  BY <1>2, <1>4, <1>5, <1>6

(* The arithmetic and logic instructions keep the invariant.               *)
LEMMA ArithmeticStep ==
  ASSUME IInv
  PROVE  (\/ Add \/ Sub \/ Neg \/ Compare \/ AddWord \/ Logic \/ Com \/ IncDec
          \/ Mul \/ FMul \/ Shift \/ Swap) => IInv'
<1> USE Fetch, Operands, Stored
<1>1. Add => IInv'
  BY AluTypes DEF Add, HasRd, HasRr, TwoRegisters, RdPlain
<1>2. Sub => IInv'
  BY AluTypes DEF Sub, HasRd, TwoRegisters, UpperImm, RdPlain
<1>3. Neg => IInv'
  <2>1. 0 \in Byte
    BY ByteRange
  <2> QED
    BY <2>1, AluTypes DEF Neg, HasRd, RdPlain
<1>4. Compare => IInv'
  BY AluTypes DEF Compare, HasRd, TwoRegisters, UpperImm, RdPlain
<1>5. AddWord => IInv'
  <2>1. ASSUME instr \in WordImm
        PROVE  /\ Rd \in 0 .. 15 /\ WordReg(ctx, Rd) \in Word
               /\ imm(instr, opcode) \in Byte
    BY <2>1, RegisterOperands, OtherOperands, WordRegisters DEF Rd
  <2> QED
    BY <2>1, AluWordTypes DEF AddWord
<1>6. Logic => IInv'
  BY AluTypes DEF Logic, HasRd, TwoRegisters, UpperImm, RdPlain
<1>7. Com => IInv'
  <2>1. 0 \in Byte
    BY ByteRange
  <2> QED
    BY <2>1, AluTypes DEF Com, HasRd, RdPlain
<1>8. IncDec => IInv'
  <2>1. 0 \in Byte
    BY ByteRange
  <2> QED
    BY <2>1, AluTypes DEF IncDec, HasRd, RdPlain
<1>9. Mul => IInv'
  <2>1. ASSUME instr \in {"mul", "muls", "mulsu"}
        PROVE  RD \in Byte /\ RR \in Byte
    BY <2>1 DEF HasRd, HasRr, TwoRegisters, Multiplies816, RdPlain
  <2>2. ASSUME instr \in {"mul", "muls", "mulsu"}
        PROVE  AluMul(instr, RD, RR, ctx.sreg) \in Result16
    BY <2>1, <2>2, AluWordTypes
  <2>3. 0 \in 0 .. 15
    OBVIOUS
  <2> QED
    BY <2>2, <2>3 DEF Mul
<1>10. FMul => IInv'
  <2>1. ASSUME instr \in {"fmul", "fmuls", "fmulsu"}
        PROVE  RD \in Byte /\ RR \in Byte
    BY <2>1 DEF HasRd, HasRr, Multiplies816
  <2>2. ASSUME instr \in {"fmul", "fmuls", "fmulsu"}
        PROVE  AluFMul(instr, RD, RR, ctx.sreg) \in Result16
    BY <2>1, <2>2, AluWordTypes
  <2>3. 0 \in 0 .. 15
    OBVIOUS
  <2> QED
    BY <2>2, <2>3 DEF FMul
<1>11. Shift => IInv'
  <2>1. 0 \in Byte
    BY ByteRange
  <2> QED
    BY <2>1, AluTypes DEF Shift, HasRd, RdPlain
<1>12. Swap => IInv'
  BY SwapType DEF Swap, HasRd, RdPlain
<1> QED
  BY <1>1, <1>2, <1>3, <1>4, <1>5, <1>6, <1>7, <1>8, <1>9, <1>10, <1>11, <1>12

(* The words a jump or a call can go to.                                   *)
LEMMA Targets ==
  ASSUME IInv
  PROVE  /\ instr \in {"brbc", "brbs", "rcall", "rjmp"} => Relative \in Int
         /\ instr \in {"call", "jmp"} => Target \in Word
         /\ WordReg(ctx, Z) \in Word /\ Z \in 0 .. 15
<1>1. fetched.pc \in Int /\ operand \in Int
  BY Fetch, ContextFields, IntegerSets
<1>2. instr \in {"brbc", "brbs", "rcall", "rjmp"} => Relative \in Int
  BY <1>1, Fetch, OtherOperands DEF Relative
<1>3. instr \in {"call", "jmp"} => Target \in Word
  BY <1>1, Fetch, OtherOperands, WrapType DEF Target
<1> QED
  BY <1>2, <1>3, Fetch, WordRegisters DEF Z

(* A skip, taken or not.                                                   *)
LEMMA Skipped ==
  ASSUME IInv, NEW cond
  PROVE  SkipIf(cond) => IInv'
<1>1. fetched.pc \in Int
  BY Fetch, ContextFields, IntegerSets
<1>2. skip_instr(fetched) \in Context
  <2> DEFINE n == fetched.pc + IF Decoded[flash_r(fetched.pc)] \in TwoWords THEN 2 ELSE 1
  <2>1. n \in Int
    BY <1>1
  <2>2. skip_instr(fetched) = [fetched EXCEPT !.pc = Wrap16(n)]
    BY DEF skip_instr
  <2> HIDE DEF n
  <2> QED
    BY <2>1, <2>2, Fetch, ContextUpdates, WrapType
<1> QED
  BY <1>2, Fetch, Returned DEF SkipIf

(* Jumps, calls, returns, skips and branches keep the invariant.           *)
LEMMA ControlStep ==
  ASSUME IInv
  PROVE  (\/ Rjmp \/ Ijmp \/ Jmp \/ Rcall \/ Icall \/ Call \/ Ret
          \/ SkipEqual \/ SkipReg \/ SkipPort \/ Branch) => IInv'
<1> USE Fetch, Targets, Returned
<1>1. fetched.pc \in Word /\ fetched2.pc \in Word
  BY ContextFields
<1>2. pushw(fetched, fetched.pc) \in Context /\ pushw(fetched2, fetched2.pc) \in Context
  BY <1>1, CallTypes
<1>3. Rjmp => IInv'
  BY JumpType DEF Rjmp
<1>4. Ijmp => IInv'
  BY JumpType, IntegerSets DEF Ijmp
<1>5. Jmp => IInv'
  BY JumpType, IntegerSets DEF Jmp
<1>6. Rcall => IInv'
  <2> DEFINE called == pushw(fetched, fetched.pc)
  <2>0. called.pc \in Int
    BY <1>2, ContextFields, IntegerSets
  <2>1. instr = "rcall" => called.pc + pc_offset(instr, opcode) \in Int
    BY <2>0, OtherOperands
  <2> HIDE DEF called
  <2>2. Rcall => instr = "rcall" /\ Ok(Jump(called, called.pc + pc_offset(instr, opcode)))
    BY DEF Rcall, called
  <2> QED
    BY <1>2, <2>1, <2>2, JumpType DEF called
<1>7. Icall => IInv'
  <2>1. WordReg(pushw(fetched, fetched.pc), Z) \in Int
    BY <1>2, WordRegisters, IntegerSets
  <2>2. Jump(pushw(fetched, fetched.pc), WordReg(pushw(fetched, fetched.pc), Z)) \in Context
    BY <1>2, <2>1, JumpType
  <2>3. WordReg(ctx, Z) - AVRVM_MAX_FLASH_WORDS \in Int16
    BY Codes
  <2> QED
    BY <2>2, <2>3 DEF Icall
<1>8. Call => IInv'
  <2>1. instr = "call" => Jump(pushw(fetched2, fetched2.pc), Target) \in Context
    BY <1>2, JumpType, IntegerSets
  <2>2. WordReg(ctx, Z) - AVRVM_MAX_FLASH_WORDS \in Int16
    BY Codes
  <2> QED
    BY <2>1, <2>2 DEF Call
<1>9. Ret => IInv'
  BY CallTypes, JumpType, IntegerSets DEF Ret
<1>10. SkipEqual => IInv'
  BY Skipped DEF SkipEqual
<1>11. SkipReg => IInv'
  BY Skipped DEF SkipReg
<1>12. SkipPort => IInv'
  BY Skipped DEF SkipPort
<1>13. Branch => IInv'
  BY JumpType DEF Branch
<1> QED
  BY <1>3, <1>4, <1>5, <1>6, <1>7, <1>8, <1>9, <1>10, <1>11, <1>12, <1>13

(* The address of an indirect access and the context its side effect       *)
(* leaves; the pointer is never assigned to the register that is loaded.   *)
LEMMA Pointers ==
  ASSUME IInv
  PROVE  instr \in Loads \cup Stores
         => Address \in Word /\ Moved \in Context
<1> SUFFICES ASSUME instr \in Loads \cup Stores
             PROVE  Address \in Word /\ Moved \in Context
  OBVIOUS
<1>1. Ptr \in 0 .. 15
  BY SMT DEF Ptr, X, Y, Z, Loads, Stores
<1>2. WordReg(ctx, Ptr) \in Int /\ Displacement \in Int
  <2>1. WordReg(ctx, Ptr) \in Int
    BY <1>1, Fetch, WordRegisters, IntegerSets
  <2>2. Displacement \in Int
    BY Fetch, OtherOperands DEF Displacement
  <2> QED
    BY <2>1, <2>2
<1>3. Address \in Word
  BY <1>2, WrapType DEF Address
<1>4. Wrap16(Address + 1) \in Int /\ Address \in Int
  <2>1. Address \in Int /\ Address + 1 \in Int
    BY <1>3, WordRange, SMT
  <2> QED
    BY <2>1, WrapType, IntegerSets
<1>5. /\ SetWord(fetched, Ptr, Wrap16(Address + 1)) \in Context
      /\ SetWord(fetched, Ptr, Address) \in Context
  BY <1>1, <1>4, Fetch, WordRegisters
<1>6. instr \in PlainPointers \cup PostIncrement \cup PreDecrement
  BY DEF Loads, Stores, PlainPointers, PostIncrement, PreDecrement
<1>7. Moved \in Context
  BY <1>5, <1>6, Fetch DEF Moved
<1> QED
  BY <1>3, <1>7

(* A byte of the flash.                                                    *)
LEMMA FlashByteType == ASSUME IInv PROVE FlashByte \in Byte
<1>1. WordReg(ctx, Z) \in Int /\ WordReg(ctx, Z) \div 2 \in Int
  BY Targets, WordRange, SMT
<1>2. flash_r(WordReg(ctx, Z) \div 2) \in Int
  BY <1>1, FlashType, IntegerSets
<1> QED
  BY <1>2, WrapType DEF FlashByte

(* The ports of in, out, sbi, cbi, sbis and sbic, and their values.        *)
LEMMA Ports ==
  ASSUME IInv
  PROVE  instr \in {"in", "out"} \cup PortBits
         => 32 + port(instr, opcode) \in Word /\ PortValue \in Byte
  BY Fetch, OtherOperands, ReadType DEF PortValue

(* Moves, loads, stores and the stack instructions keep the invariant.     *)
LEMMA MoveStep ==
  ASSUME IInv
  PROVE  (\/ Mov \/ Movw \/ Ldi \/ Load \/ Lds \/ Store \/ Sts \/ Lpm
          \/ In \/ Out \/ Push \/ Pop) => IInv'
<1> USE Fetch, Operands, Stored, Returned
<1>1. Mov => IInv'
  BY DEF Mov, HasRd, HasRr, TwoRegisters, RdPlain
<1>2. Movw => IInv'
  <2>1. ASSUME instr = "movw"
        PROVE  SetWord(fetched, Rd, WordReg(ctx, Rr)) \in Context
    <3>1. Rd \in 0 .. 15 /\ Rr \in 0 .. 15
      BY <2>1, RegisterOperands DEF Rd, Rr
    <3>2. WordReg(ctx, Rr) \in Int
      BY <3>1, WordRegisters, IntegerSets
    <3> QED
      BY <3>1, <3>2, WordRegisters
  <2> QED
    BY <2>1 DEF Movw
<1>3. Ldi => IInv'
  BY OtherOperands DEF Ldi, HasRd, UpperImm
<1>4. Load => IInv'
  <2>1. ASSUME instr \in Loads
        PROVE  Rd \in RegIndex /\ Moved \in Context /\ readmem(Moved, Address) \in Byte
    <3>1. Rd \in RegIndex
      BY <2>1 DEF Loads, HasRd, RdPlain, DirectLoads
    <3> QED
      BY <2>1, <3>1, Pointers, ReadType
  <2> QED
    BY <2>1 DEF Load
<1>5. Lds => IInv'
  BY ReadType DEF Lds, HasRd, RdPlain, DirectLoads
<1>6. Store => IInv'
  <2>1. ASSUME instr \in Stores, NEW b \in {RR, Moved.regs[Rr]}
        PROVE  writemem(Moved, Address, b) \in Context
    <3>1. Rr \in RegIndex /\ RR \in Byte
      BY <2>1 DEF Stores, HasRr, RrPlain, DirectStores
    <3>2. Address \in Word /\ Moved \in Context
      BY <2>1, Pointers
    <3>3. b \in Byte
      BY <2>1, <3>1, <3>2, ContextFields
    <3> QED
      BY <3>2, <3>3, WriteType
  <2> QED
    BY <2>1 DEF Store
<1>7. Sts => IInv'
  BY WriteType DEF Sts, HasRr, RrPlain, DirectStores
<1>8. Lpm => IInv'
  <2>1. ASSUME NEW n \in RegIndex
        PROVE  [fetched EXCEPT !.regs[n] = FlashByte] \in Context
    BY FlashByteType, ContextUpdates
  <2>2. instr \in {"lpm", "lpm_inc"} => Rd \in RegIndex
    BY DEF HasRd, RdPlain
  <2>3. 0 \in RegIndex
    BY RegRange
  <2>4. ASSUME instr = "lpm_inc"
        PROVE  LET loaded == [fetched EXCEPT !.regs[Rd] = FlashByte]
               IN  SetWord(loaded, Z, Wrap16(WordReg(loaded, Z) + 1)) \in Context
    <3> DEFINE loaded == [fetched EXCEPT !.regs[Rd] = FlashByte]
    <3>1. loaded \in Context
      BY <2>1, <2>2, <2>4
    <3> HIDE DEF loaded
    <3>2. WordReg(loaded, Z) + 1 \in Int
      <4>1. WordReg(loaded, Z) \in Word
        BY <3>1, Targets, WordRegisters
      <4> QED
        BY <4>1, WordRange, SMT
    <3>3. SetWord(loaded, Z, Wrap16(WordReg(loaded, Z) + 1)) \in Context
      BY <3>1, <3>2, Targets, WordRegisters, WrapType, IntegerSets
    <3> QED
      BY <3>3 DEF loaded
  <2> QED
    BY <2>1, <2>2, <2>3, <2>4 DEF Lpm
<1>9. In => IInv'
  BY Ports DEF In, HasRd, RdPlain
<1>10. Out => IInv'
  BY Ports, WriteType DEF Out, HasRr, RrPlain
<1>11. Push => IInv'
  BY StackTypes DEF Push, HasRr, RrPlain
<1>12. Pop => IInv'
  BY StackTypes DEF Pop, HasRd, RdPlain
<1> QED
  BY <1>1, <1>2, <1>3, <1>4, <1>5, <1>6, <1>7, <1>8, <1>9, <1>10, <1>11, <1>12

(* Bit instructions and those that only return a code keep the invariant.  *)
LEMMA BitStep ==
  ASSUME IInv
  PROVE  (Bset \/ Bclr \/ Sbi \/ Cbi \/ Bst \/ Bld \/ Nop \/ Special) => IInv'
<1> USE Fetch, Returned
<1>1. fetched.sreg \in Sreg
  BY ContextFields
<1>2. ASSUME NEW s \in Sreg PROVE [fetched EXCEPT !.sreg = s] \in Context
  BY ContextUpdates
<1>3. Bset => IInv'
  <2>1. instr = "bset" => fetched.sreg \cup {BitNumber} \in Sreg
    BY <1>1, OtherOperands, SregOps DEF BitNumber
  <2> QED
    BY <1>2, <2>1 DEF Bset
<1>4. Bclr => IInv'
  BY <1>1, <1>2, SregOps DEF Bclr
<1>5. Sbi => IInv'
  BY Ports, ByteOfType, WriteType DEF Sbi, PortBits
<1>6. Cbi => IInv'
  BY Ports, ByteOfType, WriteType DEF Cbi, PortBits
<1>7. Bst => IInv'
  <2> DEFINE t == (fetched.sreg \ {F_T}) \cup FlagIf(F_T, Bit(RD, BitNumber) = 1)
  <2>1. t \in Sreg
    BY <1>1, SregOps, FlagIfType, FlagNumbers
  <2>2. Bst => Ok([fetched EXCEPT !.sreg = t])
    BY DEF Bst
  <2> HIDE DEF t
  <2> QED
    BY <1>2, <2>1, <2>2
<1>8. Bld => IInv'
  <2> DEFINE b == ByteOf((BitsOf(fetched.regs[Rd]) \ {BitNumber})
                         \cup FlagIf(BitNumber, F_T \in ctx.sreg))
  <2>1. b \in Byte
    BY ByteOfType
  <2>2. Bld => instr = "bld" /\ Ok([fetched EXCEPT !.regs[Rd] = b])
    BY DEF Bld
  <2> HIDE DEF b
  <2> QED
    BY <2>1, <2>2, Operands, Stored DEF HasRd, RdPlain
<1>9. Nop => IInv'
  BY DEF Nop
<1>10. Special => IInv'
  BY Codes DEF Special
<1> QED
  BY <1>3, <1>4, <1>5, <1>6, <1>7, <1>8, <1>9, <1>10

-----------------------------------------------------------------------------
(* The theorems.                                                           *)

(* A freshly initialised machine, and every machine that one call of       *)
(* avrvm_exec leaves.                                                      *)
LEMMA InitInv == Init => IInv
<1> SUFFICES ASSUME Init PROVE IInv
  OBVIOUS
<1>1. 32 + 64 + SramSize - 1 \in Word
  BY SramAssumption, WordRange, SMT
<1>2. 0 \in Byte /\ 0 \in Word /\ {} \in Sreg
  BY ByteRange, WordRange, SregOps
<1>3. ctx \in Context
  BY <1>1, <1>2 DEF Init, avrvm_init, Context
<1> QED
  BY <1>3, Codes DEF Init, IInv, TypeOK

(* One call of avrvm_exec.                                                 *)
LEMMA ExecInv == IInv /\ avrvm_exec => IInv'
  BY ArithmeticStep, ControlStep, MoveStep, BitStep DEF avrvm_exec

(* No instruction changes the program.                                     *)
LEMMA FlashKept == avrvm_exec => UNCHANGED flash
<1>1. (\/ Add \/ Sub \/ Neg \/ Compare \/ AddWord \/ Logic \/ Com \/ IncDec
       \/ Mul \/ FMul \/ Shift \/ Swap) => UNCHANGED flash
  BY DEF Add, Sub, Neg, Compare, AddWord, Logic, Com, IncDec, Mul, FMul, Shift, Swap,
         Result, ResultWord, Flags, Ok, Return
<1>2. (\/ Rjmp \/ Ijmp \/ Jmp \/ Rcall \/ Icall \/ Call \/ Ret
       \/ SkipEqual \/ SkipReg \/ SkipPort \/ Branch) => UNCHANGED flash
  BY DEF Rjmp, Ijmp, Jmp, Rcall, Icall, Call, Ret, SkipEqual, SkipReg, SkipPort, Branch,
         SkipIf, Ok, Return
<1>3. (\/ Mov \/ Movw \/ Ldi \/ Load \/ Lds \/ Store \/ Sts \/ Lpm
       \/ In \/ Out \/ Push \/ Pop) => UNCHANGED flash
  BY DEF Mov, Movw, Ldi, Load, Lds, Store, Sts, Lpm, In, Out, Push, Pop, Ok, Return
<1>4. (Bset \/ Bclr \/ Sbi \/ Cbi \/ Bst \/ Bld \/ Nop \/ Special) => UNCHANGED flash
  BY DEF Bset, Bclr, Sbi, Cbi, Bst, Bld, Nop, Special, Ok, Return
<1> QED
  BY <1>1, <1>2, <1>3, <1>4 DEF avrvm_exec

(* The machine on its own: whatever the program does, every field of the   *)
(* context keeps the range of its C type and every value avrvm_exec        *)
(* returns is an int16_t.                                                  *)
THEOREM TypeCorrect == Spec => []TypeOK
<1>1. IInv /\ [avrvm_exec]_vars => IInv'
  BY ExecInv DEF vars, IInv, TypeOK
<1>2. IInv => TypeOK
  BY DEF IInv
<1> QED
  BY InitInv, <1>1, <1>2, PTL DEF Spec

(* The same of the machine in the loop of testvm, which also is never in a *)
(* state but running, left at a break or left at an undecodable word.      *)
THEOREM HostTypeCorrect == HostSpec => []HostTypeOK
<1> DEFINE Inv == /\ IInv
                  /\ status \in Statuses
                  /\ steps \in 0 .. MaxSteps
<1>1. HostInit => Inv
  BY InitInv, MaxStepsAssumption DEF HostInit, Statuses
<1>2. Inv /\ [HostNext]_hostvars => Inv'
  <2> SUFFICES ASSUME Inv, [HostNext]_hostvars PROVE Inv'
    OBVIOUS
  <2>1. CASE run_bin
    <3>1. IInv'
      BY <2>1, ExecInv DEF run_bin
    <3>2. status' \in Statuses
      BY <2>1 DEF run_bin, Statuses
    <3>3. steps' \in 0 .. MaxSteps
      <4>1. steps < MaxSteps /\ steps' = steps + 1
        BY <2>1 DEF run_bin
      <4>2. steps \in Int /\ 0 <= steps
        BY MaxStepsAssumption
      <4> QED
        BY <4>1, <4>2, MaxStepsAssumption
    <3> QED
      BY <3>1, <3>2, <3>3
  <2>2. CASE UNCHANGED hostvars
    BY <2>2 DEF hostvars, IInv, TypeOK
  <2> QED
    BY <2>1, <2>2 DEF HostNext, Over
<1>3. Inv => HostTypeOK
  BY DEF IInv, HostTypeOK
<1> QED
  BY <1>1, <1>2, <1>3, PTL DEF HostSpec

=============================================================================
