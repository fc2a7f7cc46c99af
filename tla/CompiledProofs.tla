--------------------------- MODULE CompiledProofs ---------------------------
(***************************************************************************)
(* Compiled 16-bit arithmetic is right for all operands, and compiled      *)
(* loops end after the turns that their counter says for all counters.     *)
(*                                                                         *)
(* The proofs execute the programs.  First comes what one instruction      *)
(* does, given what is written at pc, with the flags as AvrArith defines   *)
(* them; then, for each program, what holds at every pc of it.             *)
(***************************************************************************)
EXTENDS WideArith, CountedLoops, AvrVMProofs

-----------------------------------------------------------------------------
(* What is written.                                                        *)

LEMMA WrittenForms ==
  ASSUME NEW w
  PROVE  LET i == Decoded[w]
         IN  /\ Written(w)[1] = i
             /\ i \in UpperImm \cup WordImm => Written(w) = << i, rd(i, w), imm(i, w) >>
             /\ i \in TwoRegisters \cup {"movw"} => Written(w) = << i, rd(i, w), rr(i, w) >>
             /\ i \in {"brbc", "brbs"} => Written(w) = << i, bit(i, w), pc_offset(i, w) >>
             /\ i = "rjmp" => Written(w) = << i, pc_offset(i, w) >>
             /\ i \in {"asr", "com", "dec", "inc", "lsr", "neg", "ror"}
                => Written(w) = << i, rd(i, w) >>
<1> DEFINE i == Decoded[w]
<1>0. /\ Decoded[w] \in UpperImm \cup WordImm => Decoded[w] \notin TwoRegisters \cup {"movw"}
      /\ Decoded[w] \in {"brbc", "brbs"} \cup {"rjmp"} \cup {"asr", "com", "dec", "inc", "lsr", "neg", "ror"}
         => Decoded[w] \notin UpperImm \cup WordImm \cup TwoRegisters \cup {"movw"}
  BY DEF UpperImm, WordImm, TwoRegisters
<1>1. CASE i \in UpperImm \cup WordImm
  <2>1. Written(w) = << i, rd(i, w), imm(i, w) >>
    BY <1>1, <1>0 DEF Written
  <2> QED BY <1>0, <1>1, <2>1
<1>2. CASE i \in TwoRegisters \cup {"movw"}
  <2>1. Written(w) = << i, rd(i, w), rr(i, w) >>
    BY <1>2, <1>0 DEF Written
  <2> QED BY <1>0, <1>2, <2>1
<1>3. CASE i \in {"brbc", "brbs"}
  <2>1. Written(w) = << i, bit(i, w), pc_offset(i, w) >>
    BY <1>3, <1>0 DEF Written
  <2> QED BY <1>0, <1>3, <2>1
<1>4. CASE i = "rjmp"
  <2>1. Written(w) = << i, pc_offset(i, w) >>
    BY <1>4, <1>0 DEF Written
  <2> QED BY <1>0, <1>4, <2>1
<1>5. CASE i \in {"asr", "com", "dec", "inc", "lsr", "neg", "ror"}
  <2>1. Written(w) = << i, rd(i, w) >>
    BY <1>5, <1>0 DEF Written
  <2> QED BY <1>0, <1>5, <2>1
<1>6. CASE i \notin UpperImm \cup WordImm \cup TwoRegisters \cup {"movw"} \cup {"brbc", "brbs"}
                    \cup {"rjmp"} \cup {"asr", "com", "dec", "inc", "lsr", "neg", "ror"}
  <2>1. Written(w) = << i >>
    BY <1>6 DEF Written
  <2> QED BY <1>6, <2>1
<1> QED
  BY <1>1, <1>2, <1>3, <1>4, <1>5, <1>6

(* The operands of what is at pc.                                          *)
LEMMA Reads ==
  ASSUME NEW i, NEW a, NEW b
  PROVE  /\ Written(opcode) = << i, a, b >> =>
              /\ instr = i
              /\ i \in UpperImm \cup WordImm => Rd = a /\ imm(instr, opcode) = b
              /\ i \in TwoRegisters \cup {"movw"} => Rd = a /\ Rr = b
              /\ i \in {"brbc", "brbs"} => BitNumber = a /\ pc_offset(instr, opcode) = b
         /\ Written(opcode) = << i, a >> =>
              /\ instr = i
              /\ i = "rjmp" => pc_offset(instr, opcode) = a
              /\ i \in {"asr", "com", "dec", "inc", "lsr", "neg", "ror"} => Rd = a
<1>1. ASSUME Written(opcode) = << i, a, b >>
      PROVE  /\ instr = i
             /\ i \in UpperImm \cup WordImm => Rd = a /\ imm(instr, opcode) = b
             /\ i \in TwoRegisters \cup {"movw"} => Rd = a /\ Rr = b
             /\ i \in {"brbc", "brbs"} => BitNumber = a /\ pc_offset(instr, opcode) = b
  <2>1. instr = i
    BY <1>1, WrittenForms DEF instr
  <2> QED
    BY <1>1, <2>1, WrittenForms DEF instr, Rd, Rr, BitNumber
<1>2. ASSUME Written(opcode) = << i, a >>
      PROVE  /\ instr = i
             /\ i = "rjmp" => pc_offset(instr, opcode) = a
             /\ i \in {"asr", "com", "dec", "inc", "lsr", "neg", "ror"} => Rd = a
  <2>1. instr = i
    BY <1>2, WrittenForms DEF instr
  <2> QED
    BY <1>2, <2>1, WrittenForms DEF instr, Rd
<1> QED
  BY <1>1, <1>2

-----------------------------------------------------------------------------
(* What one instruction does.                                              *)

(* Which case of the switch an instruction of these programs is.           *)
LEMMA Cases ==
  ASSUME avrvm_exec
  PROVE  /\ instr \in {"add", "adc"} => Add
         /\ instr \in {"sub", "subi", "sbc", "sbci"} => Sub
         /\ instr = "neg" => Neg
         /\ instr \in {"cp", "cpc"} => Compare
         /\ instr \in WordImm => AddWord
         /\ instr = "com" => Com
         /\ instr \in {"inc", "dec"} => IncDec
         /\ instr = "mul" => Mul
         /\ instr \in {"lsr", "ror", "asr"} => Shift
         /\ instr = "rjmp" => Rjmp
         /\ instr = "cpse" => SkipEqual
         /\ instr \in {"brbc", "brbs"} => Branch
         /\ instr = "movw" => Movw
         /\ instr = "ldi" => Ldi
         /\ instr = "break" => Return(fetched, AVRVM_RC_BREAK)
<1> DEFINE others == instr \notin {"add", "adc", "sub", "subi", "sbc", "sbci", "neg", "cp",
                                   "cpc", "adiw", "sbiw", "com", "inc", "dec", "mul", "lsr",
                                   "ror", "asr", "rjmp", "cpse", "brbc", "brbs", "movw",
                                   "ldi", "break"}
<1>1. /\ Add => instr \in {"add", "adc"}
      /\ Sub => instr \in {"sub", "subi", "sbc", "sbci"}
      /\ Neg => instr = "neg"
      /\ Compare => instr \in {"cp", "cpi", "cpc"}
      /\ AddWord => instr \in {"adiw", "sbiw"}
      /\ Com => instr = "com"
      /\ IncDec => instr \in {"inc", "dec"}
      /\ Mul => instr \in {"mul", "muls", "mulsu"}
      /\ Shift => instr \in {"lsr", "ror", "asr"}
      /\ Rjmp => instr = "rjmp"
      /\ SkipEqual => instr = "cpse"
      /\ Branch => instr \in {"brbc", "brbs"}
      /\ Movw => instr = "movw"
      /\ Ldi => instr = "ldi"
  BY DEF Add, Sub, Neg, Compare, AddWord, Com, IncDec, Mul, Shift, Rjmp, SkipEqual, Branch,
         Movw, Ldi, WordImm
<1>2. Special => others \/ (instr = "break" /\ Return(fetched, AVRVM_RC_BREAK))
  BY DEF Special
<1>3. Logic \/ FMul \/ Swap \/ Ijmp \/ Jmp \/ Rcall \/ Icall \/ Call \/ Ret => others
  BY DEF Logic, FMul, Swap, Ijmp, Jmp, Rcall, Icall, Call, Ret
<1>4. SkipReg \/ SkipPort \/ Mov \/ Load \/ Lds \/ Store \/ Sts \/ Lpm => others
  BY DEF SkipReg, SkipPort, Mov, Load, Loads, Lds, Store, Stores, Sts, Lpm
<1>5. In \/ Out \/ Push \/ Pop \/ Bset \/ Bclr \/ Sbi \/ Cbi \/ Bst \/ Bld \/ Nop => others
  BY DEF In, Out, Push, Pop, Bset, Bclr, Sbi, Cbi, Bst, Bld, Nop
<1>6. \/ Add \/ Sub \/ Neg \/ Compare \/ AddWord \/ Com \/ IncDec \/ Mul \/ Shift \/ Rjmp
      \/ SkipEqual \/ Branch \/ Movw \/ Ldi \/ others
      \/ (instr = "break" /\ Return(fetched, AVRVM_RC_BREAK))
  BY <1>2, <1>3, <1>4, <1>5, Zenon DEF avrvm_exec
<1> QED
  BY <1>1, <1>6 DEF WordImm

(* The machine goes on, with these registers and flags, by n words.        *)
GoesOnBy(n, regs, sreg) ==
  /\ ctx'.pc = ctx.pc + n
  /\ ctx'.regs = regs
  /\ ctx'.sreg = sreg
  /\ status' = "running"
  /\ steps' = steps + 1
  /\ UNCHANGED flash

GoesOn(regs, sreg) == GoesOnBy(1, regs, sreg)

(* A step from within a program: the 16-bit pc does not wrap.              *)
Steps == IInv /\ run_bin /\ ctx.pc < 65535

LEMMA StepsFacts ==
  ASSUME Steps
  PROVE  /\ IInv /\ avrvm_exec
         /\ ctx.pc \in Int /\ ctx.sreg \in Sreg /\ ctx.regs \in [RegIndex -> Byte]
         /\ fetched.pc = ctx.pc + 1 /\ fetched.regs = ctx.regs /\ fetched.sreg = ctx.sreg
         /\ \A c : Ok(c) => /\ ctx' = c /\ status' = "running"
                            /\ steps' = steps + 1 /\ UNCHANGED flash
<1>0. IInv /\ run_bin /\ ctx.pc < 65535
  BY DEF Steps
<1>a. run_bin => avrvm_exec
  BY DEF run_bin
<1>1. IInv /\ avrvm_exec /\ ctx.pc < 65535
  BY <1>0, <1>a
<1>2. /\ ctx \in Context
      /\ ctx.pc \in Int /\ 0 <= ctx.pc /\ ctx.sreg \in Sreg /\ ctx.regs \in [RegIndex -> Byte]
  BY <1>1, Fetch, ContextFields, WordRange
<1>3. Wrap16(ctx.pc + 1) = ctx.pc + 1
  BY <1>1, <1>2 DEF Wrap16
<1>4. fetched.pc = ctx.pc + 1 /\ fetched.regs = ctx.regs /\ fetched.sreg = ctx.sreg
  BY <1>2, <1>3 DEF fetched, Context
<1>5. ASSUME NEW c, Ok(c)
      PROVE  /\ ctx' = c /\ status' = "running"
             /\ steps' = steps + 1 /\ UNCHANGED flash
  <2>1. ctx' = c /\ rc' = AVRVM_RC_OK /\ UNCHANGED flash
    BY <1>5 DEF Ok, Return
  <2>2. AVRVM_RC_OK # AVRVM_RC_UNDEF_INSTR /\ AVRVM_RC_OK # AVRVM_RC_BREAK
    BY DEF AVRVM_RC_OK, AVRVM_RC_UNDEF_INSTR, AVRVM_RC_BREAK
  <2> QED
    BY <2>1, <2>2 DEF Steps, run_bin
<1> QED
  BY <1>1, <1>2, <1>4, <1>5

(* Storing a result, or only the flags.                                    *)
LEMMA Outcomes ==
  ASSUME Steps, NEW out
  PROVE  /\ Result(out) => GoesOn([ctx.regs EXCEPT ![Rd] = out.res], out.sreg)
         /\ Flags(out) => GoesOn(ctx.regs, out.sreg)
         /\ \A n \in 0 .. 15 : ResultWord(n, out)
              => GoesOn([ctx.regs EXCEPT ![2 * n] = Lo(out.res), ![2 * n + 1] = Hi(out.res)],
                        out.sreg)
<1>1. fetched \in Context
  BY StepsFacts, Fetch
<1>2. Result(out) => GoesOn([ctx.regs EXCEPT ![Rd] = out.res], out.sreg)
  <2> DEFINE c == [fetched EXCEPT !.regs[Rd] = out.res, !.sreg = out.sreg]
  <2>1. /\ c.pc = fetched.pc /\ c.sreg = out.sreg
        /\ c.regs = [fetched.regs EXCEPT ![Rd] = out.res]
    BY <1>1 DEF Context
  <2> HIDE DEF c
  <2> QED
    BY <2>1, StepsFacts DEF Result, GoesOn, GoesOnBy, c
<1>3. Flags(out) => GoesOn(ctx.regs, out.sreg)
  <2> DEFINE c == [fetched EXCEPT !.sreg = out.sreg]
  <2>1. c.pc = fetched.pc /\ c.sreg = out.sreg /\ c.regs = fetched.regs
    BY <1>1 DEF Context
  <2> HIDE DEF c
  <2> QED
    BY <2>1, StepsFacts DEF Flags, GoesOn, GoesOnBy, c
<1>4. ASSUME NEW n \in 0 .. 15, ResultWord(n, out)
      PROVE  GoesOn([ctx.regs EXCEPT ![2 * n] = Lo(out.res), ![2 * n + 1] = Hi(out.res)],
                    out.sreg)
  <2> DEFINE b == [fetched EXCEPT !.sreg = out.sreg]
             c == SetWord(b, n, out.res)
  <2>1. b.pc = fetched.pc /\ b.sreg = out.sreg /\ b.regs = fetched.regs
        /\ DOMAIN b = DOMAIN fetched
    BY <1>1 DEF Context
  <2>2. /\ c.pc = b.pc /\ c.sreg = b.sreg
        /\ c.regs = [b.regs EXCEPT ![2 * n] = Lo(out.res), ![2 * n + 1] = Hi(out.res)]
    BY <1>1, <2>1 DEF Context, SetWord
  <2> HIDE DEF b, c
  <2> QED
    BY <1>4, <2>1, <2>2, StepsFacts DEF ResultWord, GoesOn, GoesOnBy, b, c
<1> QED
  BY <1>2, <1>3, <1>4

LEMMA LdiStep ==
  ASSUME Steps, instr = "ldi", NEW d \in RegIndex, Rd = d
  PROVE  GoesOn([ctx.regs EXCEPT ![d] = imm("ldi", opcode)], ctx.sreg)
<1> DEFINE c == [fetched EXCEPT !.regs[Rd] = imm(instr, opcode)]
<1>1. fetched \in Context /\ Ldi
  BY StepsFacts, Fetch, Cases
<1>2. /\ c.pc = fetched.pc /\ c.sreg = fetched.sreg
      /\ c.regs = [fetched.regs EXCEPT ![d] = imm("ldi", opcode)]
  BY <1>1 DEF Context
<1>3. Ok(c)
  BY <1>1 DEF Ldi
<1> HIDE DEF c
<1> QED
  BY <1>2, <1>3, StepsFacts DEF GoesOn, GoesOnBy

(* A carry into the next step.                                             *)
LEMMA AddStep ==
  ASSUME Steps, NEW i \in {"add", "adc"}, NEW d \in RegIndex, NEW r \in RegIndex,
         Written(opcode) = << i, d, r >>
  PROVE  LET out == Sum(ctx.regs[d], ctx.regs[r], IF i = "adc" THEN Carry(ctx.sreg) ELSE 0,
                        ctx.sreg)
         IN  GoesOn([ctx.regs EXCEPT ![d] = out.res], out.sreg)
<1>1. instr = i /\ Rd = d /\ Rr = r
  BY Reads DEF TwoRegisters
<1>2. ctx.regs[d] \in Byte /\ ctx.regs[r] \in Byte
  BY StepsFacts
<1>3. Result(AluAdd(i, ctx.regs[d], ctx.regs[r], ctx.sreg))
  BY <1>1, StepsFacts, Cases DEF Add, RD, RR
<1>4. AluAdd(i, ctx.regs[d], ctx.regs[r], ctx.sreg)
      = Sum(ctx.regs[d], ctx.regs[r], IF i = "adc" THEN Carry(ctx.sreg) ELSE 0, ctx.sreg)
  BY <1>2, StepsFacts, AddMeaning
<1> QED
  BY <1>1, <1>3, <1>4, Outcomes

Subtraction(i, d, r) ==
  Difference(d, r, IF i \in {"sbc", "sbci", "cpc"} THEN Carry(ctx.sreg) ELSE 0,
             i \in {"sbc", "sbci", "cpc"}, ctx.sreg)

LEMMA SubtractionIs ==
  ASSUME Steps, NEW i, NEW d \in Byte, NEW r \in Byte
  PROVE  AluSub(i, d, r, ctx.sreg) = Subtraction(i, d, r)
<1>0. ctx.sreg \in Sreg
  BY StepsFacts
<1>1. CASE i \in {"sbc", "sbci", "cpc"}
  <2>1. AluSub(i, d, r, ctx.sreg) = Difference(d, r, Carry(ctx.sreg), TRUE, ctx.sreg)
    BY <1>0, <1>1, SubMeaning
  <2>2. (i \in {"sbc", "sbci", "cpc"}) = TRUE
    BY <1>1
  <2> QED
    BY <1>1, <2>1, <2>2 DEF Subtraction
<1>2. CASE i \notin {"sbc", "sbci", "cpc"}
  <2>1. AluSub(i, d, r, ctx.sreg) = Difference(d, r, 0, FALSE, ctx.sreg)
    BY <1>0, <1>2, SubMeaning
  <2>2. (i \in {"sbc", "sbci", "cpc"}) = FALSE
    BY <1>2
  <2> QED
    BY <1>2, <2>1, <2>2 DEF Subtraction
<1> QED
  BY <1>1, <1>2

LEMMA SubStep ==
  ASSUME Steps, NEW i \in {"sub", "sbc"}, NEW d \in RegIndex, NEW r \in RegIndex,
         Written(opcode) = << i, d, r >>
  PROVE  LET out == Subtraction(i, ctx.regs[d], ctx.regs[r])
         IN  GoesOn([ctx.regs EXCEPT ![d] = out.res], out.sreg)
<1>0. ctx.regs[d] \in Byte /\ ctx.regs[r] \in Byte
  BY StepsFacts
<1>1. instr = i /\ Rd = d /\ Source = ctx.regs[r]
  BY Reads DEF TwoRegisters, Source, UpperImm, RR
<1>2. Result(AluSub(i, ctx.regs[d], ctx.regs[r], ctx.sreg))
  BY <1>1, StepsFacts, Cases DEF Sub, RD
<1> QED
  BY <1>0, <1>1, <1>2, SubtractionIs, Outcomes

LEMMA SubImmStep ==
  ASSUME Steps, NEW i \in {"subi", "sbci"}, NEW d \in RegIndex, NEW k \in Byte,
         Written(opcode) = << i, d, k >>, NEW x, ctx.regs[d] = x
  PROVE  LET out == Subtraction(i, x, k)
         IN  GoesOn([ctx.regs EXCEPT ![d] = out.res], out.sreg)
<1>0. ctx.regs[d] \in Byte
  BY StepsFacts
<1>1. instr = i /\ Rd = d /\ Source = k
  BY Reads DEF Source, UpperImm
<1>2. Result(AluSub(i, ctx.regs[d], k, ctx.sreg))
  BY <1>1, StepsFacts, Cases DEF Sub, RD
<1> QED
  BY <1>0, <1>1, <1>2, SubtractionIs, Outcomes

LEMMA CompareStep ==
  ASSUME Steps, NEW i \in {"cp", "cpc"}, NEW d \in RegIndex, NEW r \in RegIndex,
         Written(opcode) = << i, d, r >>
  PROVE  GoesOn(ctx.regs, Subtraction(i, ctx.regs[d], ctx.regs[r]).sreg)
<1>0. ctx.regs[d] \in Byte /\ ctx.regs[r] \in Byte
  BY StepsFacts
<1>1. instr = i /\ Rd = d /\ Source = ctx.regs[r]
  BY Reads DEF TwoRegisters, Source, UpperImm, RR
<1>2. Flags(AluSub(i, ctx.regs[d], ctx.regs[r], ctx.sreg))
  BY <1>1, StepsFacts, Cases DEF Compare, RD
<1> QED
  BY <1>0, <1>1, <1>2, SubtractionIs, Outcomes

LEMMA NegStep ==
  ASSUME Steps, NEW d \in RegIndex, Written(opcode) = << "neg", d >>
  PROVE  LET out == Subtraction("neg", 0, ctx.regs[d])
         IN  GoesOn([ctx.regs EXCEPT ![d] = out.res], out.sreg)
<1>0. ctx.regs[d] \in Byte /\ 0 \in Byte
  BY StepsFacts, ByteRange
<1>1. instr = "neg" /\ Rd = d
  BY Reads
<1>2. Result(AluSub("neg", 0, ctx.regs[d], ctx.sreg))
  BY <1>1, StepsFacts, Cases DEF Neg, RD
<1> QED
  BY <1>0, <1>1, <1>2, SubtractionIs, Outcomes

(* The top bit that the shifts move in.                                    *)
TopBit(i, d) == CASE i = "lsr" -> 0 [] i = "ror" -> Carry(ctx.sreg) [] i = "asr" -> d \div 128

LEMMA ComStep ==
  ASSUME Steps, NEW d \in RegIndex, Written(opcode) = << "com", d >>
  PROVE  LET out == Complement(ctx.regs[d], ctx.sreg)
         IN  GoesOn([ctx.regs EXCEPT ![d] = out.res], out.sreg)
<1>0. ctx.regs[d] \in Byte
  BY StepsFacts
<1>1. instr = "com" /\ Rd = d
  BY Reads
<1>2. Result(AluCom(ctx.regs[d], ctx.sreg))
  BY <1>1, StepsFacts, Cases DEF Com, RD
<1> QED
  BY <1>0, <1>1, <1>2, StepsFacts, ComMeaning, Outcomes

LEMMA IncDecStep ==
  ASSUME Steps, NEW d \in RegIndex, NEW i \in {"inc", "dec"}, Written(opcode) = << i, d >>
  PROVE  LET out == Step(ctx.regs[d], IF i = "inc" THEN 1 ELSE -1, ctx.sreg)
         IN  GoesOn([ctx.regs EXCEPT ![d] = out.res], out.sreg)
<1>0. ctx.regs[d] \in Byte
  BY StepsFacts
<1>1. instr = i /\ Rd = d
  BY Reads
<1>2. Result(AluIncDec(i, ctx.regs[d], ctx.sreg))
  BY <1>1, StepsFacts, Cases DEF IncDec, RD
<1> QED
  BY <1>0, <1>1, <1>2, StepsFacts, IncDecMeaning, Outcomes

LEMMA ShiftStep ==
  ASSUME Steps, NEW d \in RegIndex, NEW i \in {"lsr", "ror", "asr"},
         Written(opcode) = << i, d >>
  PROVE  LET out == Halved(ctx.regs[d], TopBit(i, ctx.regs[d]), ctx.sreg)
         IN  GoesOn([ctx.regs EXCEPT ![d] = out.res], out.sreg)
<1>0. ctx.regs[d] \in Byte
  BY StepsFacts
<1>1. instr = i /\ Rd = d
  BY Reads
<1>2. Result(AluShift(i, ctx.regs[d], ctx.sreg))
  BY <1>1, StepsFacts, Cases DEF Shift, RD
<1>3. AluShift(i, ctx.regs[d], ctx.sreg)
      = Halved(ctx.regs[d], TopBit(i, ctx.regs[d]), ctx.sreg)
  BY <1>0, StepsFacts, ShiftMeaning DEF TopBit
<1> QED
  BY <1>1, <1>2, <1>3, Outcomes

(* A register pair, as a number.                                           *)
Pair(n) == ctx.regs[n] + 256 * ctx.regs[n + 1]

LEMMA WordImmStep ==
  ASSUME Steps, NEW i \in WordImm, NEW n \in 0 .. 15, NEW k \in 0 .. 63,
         Written(opcode) = << i, n, k >>
  PROVE  LET out == WordSum(Pair(2 * n), IF i = "adiw" THEN k ELSE 0 - k, ctx.sreg)
         IN  GoesOn([ctx.regs EXCEPT ![2 * n] = Lo(out.res), ![2 * n + 1] = Hi(out.res)],
                    out.sreg)
<1>1. instr = i /\ Rd = n /\ imm(instr, opcode) = k
  BY Reads
<1>2. Pair(2 * n) = WordReg(ctx, n) /\ Pair(2 * n) \in Word
  <2>1. Pair(2 * n) = WordReg(ctx, n)
    BY DEF Pair, WordReg
  <2>2. ctx \in Context
    BY StepsFacts, Fetch
  <2> QED
    BY <2>1, <2>2, WordRegisters
<1>3. ResultWord(n, AluWord(i, Pair(2 * n), k, ctx.sreg))
  BY <1>1, <1>2, StepsFacts, Cases DEF AddWord
<1>4. AluWord(i, Pair(2 * n), k, ctx.sreg)
      = WordSum(Pair(2 * n), IF i = "adiw" THEN k ELSE 0 - k, ctx.sreg)
  BY <1>2, StepsFacts, WordMeaning DEF WordImm
<1> QED
  BY <1>3, <1>4, Outcomes

LEMMA MovwStep ==
  ASSUME Steps, NEW n \in 0 .. 15, NEW m \in 0 .. 15, Written(opcode) = << "movw", n, m >>
  PROVE  GoesOn([ctx.regs EXCEPT ![2 * n] = ctx.regs[2 * m],
                                 ![2 * n + 1] = ctx.regs[2 * m + 1]], ctx.sreg)
<1> DEFINE w == WordReg(ctx, m)
           c == SetWord(fetched, n, w)
<1>1. instr = "movw" /\ Rd = n /\ Rr = m
  BY Reads
<1>2. Ok(c)
  BY <1>1, StepsFacts, Cases DEF Movw
<1>3. Lo(w) = ctx.regs[2 * m] /\ Hi(w) = ctx.regs[2 * m + 1]
  <2>1. ctx.regs[2 * m] \in Byte /\ ctx.regs[2 * m + 1] \in Byte
    <3>1. 2 * m \in RegIndex /\ 2 * m + 1 \in RegIndex
      BY RegRange, SMT
    <3> QED
      BY <3>1, StepsFacts
  <2> DEFINE x == ctx.regs[2 * m]
             y == ctx.regs[2 * m + 1]
  <2>2. w = x + 256 * y
    BY DEF WordReg
  <2>3. x \in Int /\ 0 <= x /\ x <= 255 /\ y \in Int /\ 0 <= y /\ y <= 255
    BY <2>1, ByteRange
  <2> HIDE DEF x, y, w
  <2>4. Lo(w) = x /\ Hi(w) = y
    BY <2>2, <2>3, SMT DEF Lo, Hi
  <2> QED
    BY <2>4 DEF x, y
<1>4. /\ c.pc = fetched.pc /\ c.sreg = fetched.sreg
      /\ c.regs = [fetched.regs EXCEPT ![2 * n] = Lo(w), ![2 * n + 1] = Hi(w)]
  <2>1. fetched \in Context
    BY StepsFacts, Fetch
  <2> HIDE DEF w
  <2> QED
    BY <2>1 DEF Context, SetWord
<1> HIDE DEF c, w
<1> QED
  BY <1>2, <1>3, <1>4, StepsFacts DEF GoesOn, GoesOnBy

LEMMA MulStep ==
  ASSUME Steps, NEW d \in RegIndex, NEW r \in RegIndex, Written(opcode) = << "mul", d, r >>
  PROVE  LET out == ProductOf(ctx.regs[d] * ctx.regs[r], FALSE, ctx.sreg)
         IN  GoesOn([ctx.regs EXCEPT ![0] = Lo(out.res), ![1] = Hi(out.res)], out.sreg)
<1> DEFINE out == ProductOf(ctx.regs[d] * ctx.regs[r], FALSE, ctx.sreg)
<1>1. instr = "mul" /\ Rd = d /\ Rr = r
  BY Reads DEF TwoRegisters
<1>2. ctx.regs[d] \in Byte /\ ctx.regs[r] \in Byte
  BY StepsFacts
<1>3. ResultWord(0, AluMul("mul", ctx.regs[d], ctx.regs[r], ctx.sreg))
  BY <1>1, StepsFacts, Cases DEF Mul, RD, RR
<1>4. Product("mul", ctx.regs[d], ctx.regs[r]) = ctx.regs[d] * ctx.regs[r]
  BY DEF Product
<1>5. AluMul("mul", ctx.regs[d], ctx.regs[r], ctx.sreg) = out
  <2>1. AluMul("mul", ctx.regs[d], ctx.regs[r], ctx.sreg)
        = ProductOf(Product("mul", ctx.regs[d], ctx.regs[r]), FALSE, ctx.sreg)
    BY <1>2, StepsFacts, MulMeaning
  <2> QED
    BY <1>4, <2>1
<1>6. 0 \in 0 .. 15 /\ 2 * 0 = 0 /\ 2 * 0 + 1 = 1
  OBVIOUS
<1> HIDE DEF out
<1>7. GoesOn([ctx.regs EXCEPT ![2 * 0] = Lo(out.res), ![2 * 0 + 1] = Hi(out.res)], out.sreg)
  BY <1>3, <1>5, <1>6, Outcomes
<1> QED
  BY <1>6, <1>7 DEF out

(* A branch or jump whose target is not beyond the ends of the flash.      *)
LEMMA BranchStep ==
  ASSUME Steps, NEW f, NEW off \in Int, ctx.pc + 1 + off \in Word
  PROVE  /\ Written(opcode) = << "brbc", f, off >> =>
              IF f \in ctx.sreg THEN GoesOn(ctx.regs, ctx.sreg)
                                ELSE GoesOnBy(1 + off, ctx.regs, ctx.sreg)
         /\ Written(opcode) = << "rjmp", off >> =>
              GoesOnBy(1 + off, ctx.regs, ctx.sreg)
<1>0. fetched \in Context /\ ctx.pc \in Int /\ fetched.pc = ctx.pc + 1
  BY StepsFacts, Fetch
<1>1. ASSUME pc_offset(instr, opcode) = off
      PROVE  Ok(Jump(fetched, Relative)) => GoesOnBy(1 + off, ctx.regs, ctx.sreg)
  <2>1. Relative = ctx.pc + 1 + off
    BY <1>0, <1>1 DEF Relative
  <2>2. Wrap16(Relative) = ctx.pc + 1 + off
    BY <2>1, WordRange DEF Wrap16
  <2> DEFINE c == Jump(fetched, Relative)
  <2>3. c.pc = ctx.pc + (1 + off) /\ c.regs = fetched.regs /\ c.sreg = fetched.sreg
    BY <1>0, <2>2 DEF Jump, Context
  <2> HIDE DEF c
  <2>4. Ok(c) => GoesOnBy(1 + off, ctx.regs, ctx.sreg)
    BY <2>3, StepsFacts DEF GoesOnBy
  <2> QED
    BY <2>4 DEF c
<1>2. ASSUME Written(opcode) = << "brbc", f, off >>
      PROVE  IF f \in ctx.sreg THEN GoesOn(ctx.regs, ctx.sreg)
                               ELSE GoesOnBy(1 + off, ctx.regs, ctx.sreg)
  <2>1. instr = "brbc" /\ BitNumber = f /\ pc_offset(instr, opcode) = off
    BY <1>2, Reads
  <2>2. Ok(IF (f \in ctx.sreg) = FALSE THEN Jump(fetched, Relative) ELSE fetched)
    BY <2>1, StepsFacts, Cases DEF Branch
  <2>3. CASE f \in ctx.sreg
    <3>1. Ok(fetched)
      BY <2>2, <2>3
    <3> QED
      BY <2>3, <3>1, StepsFacts DEF GoesOn, GoesOnBy
  <2>4. CASE f \notin ctx.sreg
    <3>1. Ok(Jump(fetched, Relative))
      BY <2>2, <2>4
    <3> QED
      BY <1>1, <2>1, <2>4, <3>1
  <2> QED
    BY <2>3, <2>4
<1>3. ASSUME Written(opcode) = << "rjmp", off >>
      PROVE  GoesOnBy(1 + off, ctx.regs, ctx.sreg)
  <2>1. instr = "rjmp" /\ pc_offset(instr, opcode) = off
    BY <1>3, Reads
  <2>2. Ok(Jump(fetched, Relative))
    BY <2>1, StepsFacts, Cases DEF Rjmp
  <2> QED
    BY <1>1, <2>1, <2>2
<1> QED
  BY <1>2, <1>3

(* A skip over a one-word instruction.                                     *)
LEMMA SkipStep ==
  ASSUME Steps, ctx.pc + 2 \in Word, NEW d \in RegIndex, NEW r \in RegIndex,
         Written(opcode) = << "cpse", d, r >>, Decoded[flash_r(ctx.pc + 1)] \notin TwoWords
  PROVE  IF ctx.regs[d] = ctx.regs[r] THEN GoesOnBy(2, ctx.regs, ctx.sreg)
                                      ELSE GoesOn(ctx.regs, ctx.sreg)
<1>1. instr = "cpse" /\ Rd = d /\ Rr = r
  BY Reads DEF TwoRegisters
<1>2. SkipIf(ctx.regs[d] = ctx.regs[r])
  BY <1>1, StepsFacts, Cases DEF SkipEqual, RD, RR
<1>3. CASE ctx.regs[d] = ctx.regs[r]
  <2> DEFINE c == skip_instr(fetched)
  <2>1. fetched \in Context /\ ctx.pc \in Int /\ fetched.pc = ctx.pc + 1
    BY StepsFacts, Fetch
  <2>2. Wrap16(ctx.pc + 1 + 1) = ctx.pc + 2
    BY <2>1, WordRange DEF Wrap16
  <2>3. c.pc = ctx.pc + 2 /\ c.regs = fetched.regs /\ c.sreg = fetched.sreg
    BY <2>1, <2>2 DEF skip_instr, Context
  <2>4. Ok(c)
    BY <1>2, <1>3 DEF SkipIf
  <2> HIDE DEF c
  <2> QED
    BY <1>3, <2>3, <2>4, StepsFacts DEF GoesOnBy
<1>4. CASE ctx.regs[d] # ctx.regs[r]
  <2>1. Ok(fetched)
    BY <1>2, <1>4 DEF SkipIf
  <2> QED
    BY <1>4, <2>1, StepsFacts DEF GoesOn, GoesOnBy
<1> QED
  BY <1>3, <1>4

(* The break, after which the host leaves its loop.                        *)
LEMMA BreakStep ==
  ASSUME IInv, run_bin, instr = "break"
  PROVE  /\ status' = "exited" /\ steps' = steps + 1
         /\ ctx'.regs = ctx.regs /\ ctx'.sreg = ctx.sreg
         /\ UNCHANGED flash
<1>a. run_bin => avrvm_exec
  BY DEF run_bin
<1>1. Return(fetched, AVRVM_RC_BREAK)
  BY <1>a, Cases
<1>2. ctx' = fetched /\ rc' = AVRVM_RC_BREAK /\ UNCHANGED flash
  BY <1>1 DEF Return
<1>3. AVRVM_RC_BREAK # AVRVM_RC_UNDEF_INSTR
  BY DEF AVRVM_RC_BREAK, AVRVM_RC_UNDEF_INSTR
<1>4. status' = "exited" /\ steps' = steps + 1
  BY <1>2, <1>3 DEF run_bin
<1>5. ctx \in Context
  BY Fetch
<1>6. fetched.regs = ctx.regs /\ fetched.sreg = ctx.sreg
  BY <1>5 DEF fetched, Context
<1> QED
  BY <1>2, <1>4, <1>6

(* What the machine fetches from a program of length len after n words.    *)
Sized(code, len) == len \in Nat /\ Len(code) = len /\ DOMAIN code = 1 .. len

LEMMA Fetches ==
  ASSUME IInv, run_bin, NEW n \in Nat, NEW code, Follows(n, code), NEW len, Sized(code, len)
  PROVE  /\ \A k \in 1 .. len : ctx.pc = n + k - 1 =>
              Steps /\ ctx.pc + 1 \in Word /\ Written(opcode) = code[k]
         /\ \A k \in 1 .. n : ctx.pc = k - 1 => Steps /\ opcode = flash[k]
         /\ ctx.pc = n + len => instr = "break"
         /\ \A k \in 1 .. len : Written(flash_r(n + k - 1)) = code[k]
<1>1. n + len < FlashWords /\ FlashWords \in Int /\ FlashWords <= 65536 /\ FlashWords > 0
      /\ len \in Nat /\ Len(code) = len /\ DOMAIN code = 1 .. len
  BY FlashAssumption DEF Follows, Sized
<1>2. \A k \in 1 .. n + len + 1 : flash_r(k - 1) = flash[k]
  <2> TAKE k \in 1 .. n + len + 1
  <2>1. (k - 1) % FlashWords = k - 1
    BY <1>1
  <2> QED
    BY <2>1 DEF flash_r
<1>3. \A k \in 1 .. len : flash_r(n + k - 1) = flash[n + k]
  <2> TAKE k \in 1 .. len
  <2>1. n + k \in 1 .. n + len + 1
    BY <1>1
  <2> QED
    BY <1>2, <2>1
<1>4. ASSUME NEW k \in 1 .. len, ctx.pc = n + k - 1
      PROVE  Steps /\ ctx.pc + 1 \in Word /\ Written(opcode) = code[k]
  <2>1. Steps /\ ctx.pc + 1 \in Word
    BY <1>1, <1>4, WordRange DEF Steps
  <2>2. opcode = flash[n + k]
    BY <1>3, <1>4 DEF opcode
  <2> QED
    BY <1>1, <2>1, <2>2 DEF Follows
<1>5. ASSUME NEW k \in 1 .. n, ctx.pc = k - 1
      PROVE  Steps /\ opcode = flash[k]
  <2>1. Steps
    BY <1>1, <1>5 DEF Steps
  <2>2. k \in 1 .. n + len + 1
    BY <1>1
  <2> QED
    BY <1>2, <1>5, <2>1, <2>2 DEF opcode
<1>6. ASSUME ctx.pc = n + len
      PROVE  instr = "break"
  <2>1. n + len + 1 \in 1 .. n + len + 1 /\ n + len + 1 - 1 = n + len
    BY <1>1
  <2>2. opcode = flash[n + len + 1]
    BY <1>1, <1>2, <1>6, <2>1 DEF opcode
  <2> QED
    BY <1>1, <2>2 DEF instr, Follows
<1>7. \A k \in 1 .. len : Written(flash_r(n + k - 1)) = code[k]
  BY <1>1, <1>3 DEF Follows
<1> QED
  BY <1>4, <1>5, <1>6, <1>7

(* Instruction w is written for pc n, in code that follows base words.     *)
Place(base, code, n, w) == \E k \in DOMAIN code : n = base + k - 1 /\ code[k] = w

LEMMA AtPlace ==
  ASSUME IInv, run_bin, NEW base \in Nat, NEW code, Follows(base, code), NEW len,
         Sized(code, len), NEW n, NEW w, Place(base, code, n, w), ctx.pc = n
  PROVE  Steps /\ ctx.pc + 1 \in Word /\ Written(opcode) = w
<1>1. PICK k \in 1 .. len : n = base + k - 1 /\ code[k] = w
  BY DEF Place, Sized
<1> QED
  BY <1>1, Fetches

LEMMA AtEnd ==
  ASSUME IInv, run_bin, NEW base \in Nat, NEW code, Follows(base, code), NEW len,
         Sized(code, len), ctx.pc = base + len
  PROVE  instr = "break"
  BY Fetches

-----------------------------------------------------------------------------
(* The flags that the programs use.                                        *)

LEMMA SumFlags ==
  ASSUME NEW d, NEW r, NEW c, NEW s
  PROVE  /\ Sum(d, r, c, s).res = Wrap8(d + r + c)
         /\ F_C \in Sum(d, r, c, s).sreg <=> d + r + c > 255
         /\ F_S \in Sum(d, r, c, s).sreg <=> Signed8(d) + Signed8(r) + c < 0
<1> DEFINE res   == Wrap8(d + r + c)
           above == d + r + c > 255
           half  == (d % 16) + (r % 16) + c > 15
           exact == Signed8(d) + Signed8(r) + c
           neg   == exact < 0
           over  == exact \notin Int8
<1>1. Sum(d, r, c, s)
      = [res  |-> res,
         sreg |-> Update(s, ArithFlags,
                    ResultFlags(res) \cup (FlagIf(F_V, over) \cup FlagIf(F_S, neg))
                    \cup FlagIf(F_C, above) \cup FlagIf(F_H, half))]
  BY DEF Sum, SignFlags
<1> HIDE DEF res, above, half, exact, neg, over
<1>2. /\ F_C \in Sum(d, r, c, s).sreg <=> above
      /\ F_S \in Sum(d, r, c, s).sreg <=> neg
  BY <1>1, DistinctFlags DEF Update, ArithFlags, ResultFlags, FlagIf
<1> QED
  BY <1>1, <1>2 DEF res, above, neg, exact

LEMMA DifferenceFlags ==
  ASSUME NEW d, NEW r, NEW b, NEW s
  PROVE  /\ LET out == Difference(d, r, b, FALSE, s)
            IN  /\ out.res = Wrap8(d - r - b)
                /\ F_C \in out.sreg <=> d < r + b
                /\ F_Z \in out.sreg <=> Wrap8(d - r - b) = 0
         /\ LET out == Difference(d, r, b, TRUE, s)
            IN  /\ out.res = Wrap8(d - r - b)
                /\ F_C \in out.sreg <=> d < r + b
                /\ F_Z \in out.sreg <=> Wrap8(d - r - b) = 0 /\ F_Z \in s
                /\ F_S \in out.sreg <=> Signed8(d) - Signed8(r) - b < 0
<1>1. ASSUME NEW chained \in BOOLEAN
      PROVE  LET out == Difference(d, r, b, chained, s)
             IN  /\ out.res = Wrap8(d - r - b)
                 /\ F_C \in out.sreg <=> d < r + b
                 /\ F_Z \in out.sreg <=> Wrap8(d - r - b) = 0 /\ (chained => F_Z \in s)
                 /\ F_S \in out.sreg <=> Signed8(d) - Signed8(r) - b < 0
  <2> DEFINE res   == Wrap8(d - r - b)
             zero  == res = 0 /\ (chained => F_Z \in s)
             below == d < r + b
             half  == (d % 16) < (r % 16) + b
             exact == Signed8(d) - Signed8(r) - b
             neg   == exact < 0
             over  == exact \notin Int8
             high  == res >= 128
             out   == Difference(d, r, b, chained, s)
  <2>1. out
        = [res  |-> res,
           sreg |-> Update(s, ArithFlags,
                      FlagIf(F_Z, zero) \cup FlagIf(F_N, high)
                      \cup (FlagIf(F_V, over) \cup FlagIf(F_S, neg))
                      \cup FlagIf(F_C, below) \cup FlagIf(F_H, half))]
    BY DEF Difference, SignFlags
  <2> HIDE DEF res, zero, below, half, exact, neg, over, high, out
  <2>2. /\ F_C \in out.sreg <=> below
        /\ F_Z \in out.sreg <=> zero
        /\ F_S \in out.sreg <=> neg
    BY <2>1, DistinctFlags DEF Update, ArithFlags, FlagIf
  <2> QED
    BY <2>1, <2>2 DEF res, zero, below, neg, exact, out
<1> QED
  BY <1>1, Zenon

LEMMA WordSumFlags ==
  ASSUME NEW d, NEW k, NEW s
  PROVE  /\ WordSum(d, k, s).res = Wrap16(d + k)
         /\ F_Z \in WordSum(d, k, s).sreg <=> Wrap16(d + k) = 0
<1> DEFINE res   == Wrap16(d + k)
           zero  == res = 0
           high  == res >= 32768
           exact == Signed16(d) + k
           neg   == exact < 0
           over  == exact \notin Int16
           wraps == d + k \notin Word
<1>1. WordSum(d, k, s)
      = [res  |-> res,
         sreg |-> Update(s, ArithFlags \ {F_H},
                    FlagIf(F_Z, zero) \cup FlagIf(F_N, high)
                    \cup (FlagIf(F_V, over) \cup FlagIf(F_S, neg)) \cup FlagIf(F_C, wraps))]
  BY DEF WordSum, SignFlags
<1> HIDE DEF res, zero, high, exact, neg, over, wraps
<1>2. F_Z \in WordSum(d, k, s).sreg <=> zero
  BY <1>1, DistinctFlags DEF Update, ArithFlags, FlagIf
<1> QED
  BY <1>1, <1>2 DEF res, zero

LEMMA ComplementIs ==
  ASSUME NEW d, NEW s
  PROVE  Complement(d, s).res = 255 - d /\ F_C \in Complement(d, s).sreg
<1> DEFINE b == Bitwise8(255 - d, s)
<1>1. b = [res |-> 255 - d, sreg |-> b.sreg]
  BY DEF Bitwise8
<1>2. Complement(d, s) = [b EXCEPT !.sreg = b.sreg \cup {F_C}]
  BY DEF Complement
<1> HIDE DEF b
<1> QED
  BY <1>1, <1>2

LEMMA OneRegisterFlags ==
  ASSUME NEW d, NEW x, NEW s
  PROVE  /\ Step(d, x, s).res = Wrap8(d + x)
         /\ F_Z \in Step(d, x, s).sreg <=> Wrap8(d + x) = 0
         /\ Halved(d, x, s).res = d \div 2 + 128 * x
         /\ F_C \in Halved(d, x, s).sreg <=> d % 2 = 1
<1>1. /\ Step(d, x, s).res = Wrap8(d + x)
      /\ F_Z \in Step(d, x, s).sreg <=> Wrap8(d + x) = 0
  <2> DEFINE res   == Wrap8(d + x)
             zero  == res = 0
             high  == res >= 128
             exact == Signed8(d) + x
             neg   == exact < 0
             over  == exact \notin Int8
  <2>1. Step(d, x, s)
        = [res  |-> res,
           sreg |-> Update(s, {F_Z, F_N, F_V, F_S},
                      (FlagIf(F_Z, zero) \cup FlagIf(F_N, high))
                      \cup (FlagIf(F_V, over) \cup FlagIf(F_S, neg)))]
    BY DEF Step, SignFlags, ResultFlags
  <2> HIDE DEF res, zero, high, exact, neg, over
  <2>2. F_Z \in Step(d, x, s).sreg <=> zero
    BY <2>1, DistinctFlags DEF Update, FlagIf
  <2> QED
    BY <2>1, <2>2 DEF res, zero
<1>2. /\ Halved(d, x, s).res = d \div 2 + 128 * x
      /\ F_C \in Halved(d, x, s).sreg <=> d % 2 = 1
  <2> DEFINE res  == d \div 2 + 128 * x
             odd  == d % 2 = 1
             over == (res >= 128) # odd
  <2>1. Halved(d, x, s)
        = [res  |-> res,
           sreg |-> Update(s, ArithFlags \ {F_H},
                      ResultFlags(res) \cup FlagIf(F_C, odd) \cup FlagIf(F_S, odd)
                      \cup FlagIf(F_V, over))]
    BY DEF Halved
  <2> HIDE DEF res, odd, over
  <2>2. F_C \in Halved(d, x, s).sreg <=> odd
    BY <2>1, DistinctFlags DEF Update, ArithFlags, ResultFlags, FlagIf
  <2> QED
    BY <2>1, <2>2 DEF res, odd
<1> QED
  BY <1>1, <1>2

-----------------------------------------------------------------------------
(* 16-bit arithmetic.                                                      *)

LEMMA RegNumbers == {0, 1, 16, 17, 18, 19, 24, 25} \subseteq RegIndex
  BY RegRange

At(n) == status = "running" /\ ctx.pc = n

(* The program is loading its operands, or has just done so.               *)
Loading ==
  /\ status = "running"
  /\ ctx.pc \in 0 .. 4
  /\ \A k \in 1 .. 4 : k <= ctx.pc => ctx.regs[15 + k] = Loaded(k)

LEMMA LoadedBytes ==
  ASSUME IInv, NEW k \in 1 .. FlashWords
  PROVE  Loaded(k) \in Byte
<1>1. flash[k] \in Word
  BY ProgramsAssumption, WordsAssumption DEF IInv
<1> QED
  BY <1>1, OtherOperands DEF Loaded, UpperImm

(* One of the first instructions loads its register.                       *)
LEMMA LoadStep ==
  ASSUME IInv, run_bin, NEW n \in Nat, NEW code, Follows(n, code), NEW len,
         Sized(code, len),
         NEW k \in 1 .. n, ctx.pc = k - 1, NEW r \in RegIndex, LoadsInto(r, k)
  PROVE  GoesOn([ctx.regs EXCEPT ![r] = Loaded(k)], ctx.sreg)
<1>1. Steps /\ opcode = flash[k]
  BY Fetches
<1>2. instr = "ldi" /\ Rd = r /\ imm("ldi", opcode) = Loaded(k)
  BY <1>1 DEF LoadsInto, Loaded, instr, Rd
<1> QED
  BY <1>1, <1>2, LdiStep

LEMMA OperandStep ==
  ASSUME IInv, run_bin, NEW chain, Runs(chain), NEW len,
         Sized(chain, len), Loading, ctx.pc # 4
  PROVE  Loading'
<1>1. PICK k \in 1 .. 4 : ctx.pc = k - 1
  <2>1. ctx.pc + 1 \in 1 .. 4 /\ ctx.pc = (ctx.pc + 1) - 1
    BY DEF Loading
  <2> QED
    BY <2>1
<1>2. 15 + k \in RegIndex /\ LoadsInto(15 + k, k) /\ Follows(4, chain)
  BY RegRange DEF Runs
<1>3. GoesOn([ctx.regs EXCEPT ![15 + k] = Loaded(k)], ctx.sreg)
  BY <1>1, <1>2, LoadStep
<1>4. Steps
  BY <1>1, <1>2, Fetches
<1>5. /\ ctx'.pc = k /\ ctx'.regs = [ctx.regs EXCEPT ![15 + k] = Loaded(k)]
      /\ status' = "running" /\ flash' = flash
  BY <1>1, <1>3 DEF GoesOn, GoesOnBy
<1>6. ASSUME NEW j \in 1 .. 4, j <= k
      PROVE  ctx'.regs[15 + j] = Loaded(j)
  <2>1. 15 + j \in RegIndex /\ ctx.regs \in [RegIndex -> Byte]
    BY <1>4, StepsFacts, RegRange
  <2>2. CASE j = k
    BY <1>5, <2>1, <2>2
  <2>3. CASE j # k
    <3>1. j <= ctx.pc /\ 15 + j # 15 + k
      BY <1>1, <1>6, <2>3
    <3> QED
      BY <1>5, <2>1, <3>1 DEF Loading
  <2> QED
    BY <2>2, <2>3
<1>7. \A j \in 1 .. 4 : Loaded(j)' = Loaded(j)
  BY <1>5 DEF Loaded
<1> QED
  BY <1>5, <1>6, <1>7 DEF Loading

(* The operands are in their registers.                                    *)
LEMMA OperandsLoaded ==
  ASSUME Loading, ctx.pc = 4
  PROVE  /\ ctx.regs[16] = Loaded(1) /\ ctx.regs[17] = Loaded(2)
         /\ ctx.regs[18] = Loaded(3) /\ ctx.regs[19] = Loaded(4)
  BY DEF Loading

LEMMA OperandBytes ==
  ASSUME IInv, NEW chain, Runs(chain), NEW len, Sized(chain, len)
  PROVE  Loaded(1) \in Byte /\ Loaded(2) \in Byte /\ Loaded(3) \in Byte /\ Loaded(4) \in Byte
<1>1. 4 < FlashWords /\ FlashWords \in Int
  BY FlashAssumption DEF Runs, Follows, Sized
<1> QED
  BY <1>1, LoadedBytes

(* The break leaves everything that the program has computed.              *)
Ends == Finished' /\ ctx'.regs = ctx.regs /\ ctx'.sreg = ctx.sreg /\ flash' = flash

LEMMA EndStep ==
  ASSUME IInv, run_bin, NEW n, At(n) \/ Finished, ctx.pc = n => instr = "break"
  PROVE  Ends
<1>1. At(n)
  BY DEF Finished, run_bin
<1> QED
  BY <1>1, BreakStep DEF At, Ends, Finished

-----------------------------------------------------------------------------
(* Addition.                                                               *)

LEMMA AddArithmetic ==
  ASSUME NEW a0 \in Byte, NEW a1 \in Byte, NEW b0 \in Byte, NEW b1 \in Byte, NEW c \in {0, 1},
         c = 1 <=> a0 + b0 > 255
  PROVE  LET a == a0 + 256 * a1
             b == b0 + 256 * b1
         IN  /\ Wrap8(a0 + b0) + 256 * Wrap8(a1 + b1 + c) = Wrap16(a + b)
             /\ a1 + b1 + c > 255 <=> a + b > 65535
             /\ Signed8(a1) + Signed8(b1) + c < 0
                <=> Signed(a, 32768) + Signed(b, 32768) < 0
<1>1. /\ a0 \in Int /\ 0 <= a0 /\ a0 <= 255 /\ a1 \in Int /\ 0 <= a1 /\ a1 <= 255
      /\ b0 \in Int /\ 0 <= b0 /\ b0 <= 255 /\ b1 \in Int /\ 0 <= b1 /\ b1 <= 255
  BY ByteRange
<1>2. Wrap8(a0 + b0) + 256 * Wrap8(a1 + b1 + c) = Wrap16(a0 + 256 * a1 + (b0 + 256 * b1))
  BY <1>1, SMT DEF Wrap8, Wrap16
<1>3. a1 + b1 + c > 255 <=> a0 + 256 * a1 + (b0 + 256 * b1) > 65535
  BY <1>1, SMT
<1>4. Signed8(a1) + Signed8(b1) + c < 0
      <=> Signed(a0 + 256 * a1, 32768) + Signed(b0 + 256 * b1, 32768) < 0
  BY <1>1, SMT DEF Signed8, Signed
<1> QED
  BY <1>2, <1>3, <1>4

Sums == /\ Answer = Wrap16(A + B)
        /\ (F_C \in ctx.sreg) = (A + B > 65535)
        /\ (F_S \in ctx.sreg) = (SignedA + SignedB < 0)

AddInv ==
  \/ Loading
  \/ /\ At(5)
     /\ ctx.regs[16] = Wrap8(Loaded(1) + Loaded(3))
     /\ F_C \in ctx.sreg <=> Loaded(1) + Loaded(3) > 255
     /\ ctx.regs[17] = Loaded(2) /\ ctx.regs[19] = Loaded(4)
  \/ (At(6) \/ Finished) /\ Sums

LEMMA AddChainStep ==
  ASSUME IInv, run_bin, Runs(AddChain), AddInv
  PROVE  AddInv'
<1>1. Sized(AddChain, 2) /\ Follows(4, AddChain) /\ 4 \in Nat /\ 4 + 2 = 6
  BY DEF AddChain, Runs, Sized
<1>2. /\ ctx.pc = 4 => Steps /\ Written(opcode) = << "add", 16, 18 >>
      /\ ctx.pc = 5 => Steps /\ Written(opcode) = << "adc", 17, 19 >>
      /\ ctx.pc = 6 => instr = "break"
  <2>1. ASSUME ctx.pc = 4 PROVE Steps /\ Written(opcode) = << "add", 16, 18 >>
    <3>1. Place(4, AddChain, 4, << "add", 16, 18 >>)
      BY DEF Place, AddChain
    <3> QED
      BY <1>1, <2>1, <3>1, AtPlace
  <2>2. ASSUME ctx.pc = 5 PROVE Steps /\ Written(opcode) = << "adc", 17, 19 >>
    <3>1. Place(4, AddChain, 5, << "adc", 17, 19 >>)
      BY DEF Place, AddChain
    <3> QED
      BY <1>1, <2>2, <3>1, AtPlace
  <2>3. ctx.pc = 6 => instr = "break"
    BY <1>1, AtEnd
  <2> QED
    BY <2>1, <2>2, <2>3
<1>3. /\ Loaded(1) \in Byte /\ Loaded(2) \in Byte /\ Loaded(3) \in Byte /\ Loaded(4) \in Byte
      /\ ctx.regs \in [RegIndex -> Byte]
  BY <1>1, OperandBytes, Fetch, ContextFields
<1>4. CASE Loading /\ ctx.pc # 4
  BY <1>1, <1>4, OperandStep DEF AddInv
<1>5. CASE Loading /\ ctx.pc = 4
  <2> DEFINE out == Sum(ctx.regs[16], ctx.regs[18], 0, ctx.sreg)
  <2>1. GoesOn([ctx.regs EXCEPT ![16] = out.res], out.sreg)
    BY <1>2, <1>5, AddStep, RegNumbers
  <2>2. out.res = Wrap8(Loaded(1) + Loaded(3)) /\ (F_C \in out.sreg <=> Loaded(1) + Loaded(3) > 255)
    BY <1>3, <1>5, OperandsLoaded, SumFlags, ByteRange
  <2> HIDE DEF out
  <2>3. /\ At(5)' /\ flash' = flash
        /\ ctx'.regs[16] = Wrap8(Loaded(1) + Loaded(3)) /\ ctx'.sreg = out.sreg
        /\ ctx'.regs[17] = Loaded(2) /\ ctx'.regs[19] = Loaded(4)
    BY <1>3, <1>5, <2>1, <2>2, OperandsLoaded, RegNumbers DEF GoesOn, GoesOnBy, At
  <2> QED
    BY <2>2, <2>3 DEF AddInv, Loaded
<1>6. CASE /\ At(5)
           /\ ctx.regs[16] = Wrap8(Loaded(1) + Loaded(3))
           /\ F_C \in ctx.sreg <=> Loaded(1) + Loaded(3) > 255
           /\ ctx.regs[17] = Loaded(2) /\ ctx.regs[19] = Loaded(4)
  <2> DEFINE c   == Carry(ctx.sreg)
             out == Sum(Loaded(2), Loaded(4), c, ctx.sreg)
  <2>1. GoesOn([ctx.regs EXCEPT ![17] = out.res], out.sreg)
    BY <1>2, <1>6, AddStep, RegNumbers DEF At
  <2>2. c \in {0, 1} /\ (c = 1 <=> Loaded(1) + Loaded(3) > 255)
    BY <1>6 DEF Carry
  <2> HIDE DEF c
  <2>3. /\ out.res = Wrap8(Loaded(2) + Loaded(4) + c)
        /\ F_C \in out.sreg <=> A + B > 65535
        /\ F_S \in out.sreg <=> SignedA + SignedB < 0
        /\ Wrap8(Loaded(1) + Loaded(3)) + 256 * out.res = Wrap16(A + B)
    BY <1>3, <2>2, AddArithmetic, SumFlags DEF A, B, SignedA, SignedB
  <2> HIDE DEF out
  <2>4. /\ At(6)' /\ flash' = flash
        /\ ctx'.regs[16] = Wrap8(Loaded(1) + Loaded(3)) /\ ctx'.sreg = out.sreg
        /\ ctx'.regs[17] = out.res
    BY <1>3, <1>6, <2>1, RegNumbers DEF GoesOn, GoesOnBy, At
  <2>5. Answer' = Wrap16(A + B)
    BY <2>3, <2>4 DEF Answer, WordReg
  <2> QED
    BY <2>3, <2>4, <2>5 DEF AddInv, Sums, Loaded, A, B, SignedA, SignedB
<1>7. CASE (At(6) \/ Finished) /\ Sums
  <2>1. Ends
    BY <1>2, <1>7, EndStep DEF At
  <2> QED
    BY <1>7, <2>1 DEF AddInv, Sums, Ends, Finished, Answer, WordReg, A, B, SignedA, SignedB, Loaded
<1> QED
  BY <1>4, <1>5, <1>6, <1>7 DEF AddInv

-----------------------------------------------------------------------------
(* Subtraction and comparison.                                             *)

(* An instruction has stored a byte.                                       *)
LEMMA Stores1 ==
  ASSUME Steps, NEW d \in RegIndex, NEW v, NEW s, GoesOn([ctx.regs EXCEPT ![d] = v], s)
  PROVE  /\ status' = "running" /\ ctx'.pc = ctx.pc + 1 /\ ctx'.sreg = s /\ flash' = flash
         /\ ctx'.regs[d] = v
         /\ \A e \in RegIndex : e # d => ctx'.regs[e] = ctx.regs[e]
<1>1. ctx.regs \in [RegIndex -> Byte]
  BY StepsFacts
<1> QED
  BY <1>1 DEF GoesOn, GoesOnBy

(* The flags after the low bytes, and what the step on the high bytes then *)
(* makes of them.                                                          *)
LowFlags(s, x, y) == /\ F_C \in s <=> x < y
                     /\ F_Z \in s <=> Wrap8(x - y) = 0

Compares(s, x, y) == /\ F_C \in s <=> x < y
                     /\ F_Z \in s <=> x = y
                     /\ F_S \in s <=> Signed(x, 32768) < Signed(y, 32768)

LEMMA LowStep ==
  ASSUME NEW i \in {"sub", "subi", "cp", "neg"}, NEW x \in Byte, NEW y \in Byte
  PROVE  /\ LowFlags(Subtraction(i, x, y).sreg, x, y)
         /\ Subtraction(i, x, y).res = Wrap8(x - y)
<1> DEFINE z   == 0
           out == Difference(x, y, z, FALSE, ctx.sreg)
<1>0. (i \in {"sbc", "sbci", "cpc"}) = FALSE
  OBVIOUS
<1>1. Subtraction(i, x, y) = out
  BY <1>0 DEF Subtraction
<1>2. x - y - z = x - y /\ y + z = y
  BY ByteRange
<1>3. /\ out.res = Wrap8(x - y - z)
      /\ F_C \in out.sreg <=> x < y + z
      /\ F_Z \in out.sreg <=> Wrap8(x - y - z) = 0
  <2> HIDE DEF z
  <2> QED
    BY DifferenceFlags
<1> HIDE DEF z, out
<1> QED
  BY <1>1, <1>2, <1>3 DEF LowFlags

LEMMA HighStep ==
  ASSUME NEW i \in {"sbc", "sbci", "cpc"},
         NEW a0 \in Byte, NEW a1 \in Byte, NEW b0 \in Byte, NEW b1 \in Byte,
         LowFlags(ctx.sreg, a0, b0)
  PROVE  LET out == Subtraction(i, a1, b1)
         IN  /\ Compares(out.sreg, a0 + 256 * a1, b0 + 256 * b1)
             /\ Wrap8(a0 - b0) + 256 * out.res = Wrap16((a0 + 256 * a1) - (b0 + 256 * b1))
<1> DEFINE c   == Carry(ctx.sreg)
           out == Difference(a1, b1, c, TRUE, ctx.sreg)
<1>0. (i \in {"sbc", "sbci", "cpc"}) = TRUE
  OBVIOUS
<1>1. Subtraction(i, a1, b1) = out
  BY <1>0 DEF Subtraction
<1>2. c \in {0, 1} /\ (c = 1 <=> a0 < b0)
  BY DEF Carry, LowFlags
<1>3. F_Z \in ctx.sreg <=> Wrap8(a0 - b0) = 0
  BY DEF LowFlags
<1>4. /\ out.res = Wrap8(a1 - b1 - c)
      /\ F_C \in out.sreg <=> a1 < b1 + c
      /\ F_Z \in out.sreg <=> Wrap8(a1 - b1 - c) = 0 /\ F_Z \in ctx.sreg
      /\ F_S \in out.sreg <=> Signed8(a1) - Signed8(b1) - c < 0
  <2> HIDE DEF c
  <2> QED
    BY DifferenceFlags
<1> HIDE DEF c, out
<1>5. /\ Wrap8(a0 - b0) + 256 * Wrap8(a1 - b1 - c) = Wrap16((a0 + 256 * a1) - (b0 + 256 * b1))
      /\ a1 < b1 + c <=> a0 + 256 * a1 < b0 + 256 * b1
      /\ Wrap8(a1 - b1 - c) = 0 /\ Wrap8(a0 - b0) = 0 <=> a0 + 256 * a1 = b0 + 256 * b1
      /\ Signed8(a1) - Signed8(b1) - c < 0
         <=> Signed(a0 + 256 * a1, 32768) < Signed(b0 + 256 * b1, 32768)
  <2>1. /\ a0 \in Int /\ 0 <= a0 /\ a0 <= 255 /\ a1 \in Int /\ 0 <= a1 /\ a1 <= 255
        /\ b0 \in Int /\ 0 <= b0 /\ b0 <= 255 /\ b1 \in Int /\ 0 <= b1 /\ b1 <= 255
    BY ByteRange
  <2>2. Wrap8(a0 - b0) + 256 * Wrap8(a1 - b1 - c) = Wrap16((a0 + 256 * a1) - (b0 + 256 * b1))
    BY <1>2, <2>1, SMT DEF Wrap8, Wrap16
  <2>3. a1 < b1 + c <=> a0 + 256 * a1 < b0 + 256 * b1
    BY <1>2, <2>1, SMT
  <2>4. Wrap8(a1 - b1 - c) = 0 /\ Wrap8(a0 - b0) = 0 <=> a0 + 256 * a1 = b0 + 256 * b1
    BY <1>2, <2>1, SMT DEF Wrap8
  <2>5. Signed8(a1) - Signed8(b1) - c < 0
        <=> Signed(a0 + 256 * a1, 32768) < Signed(b0 + 256 * b1, 32768)
    BY <1>2, <2>1, SMT DEF Signed8, Signed
  <2> QED
    BY <2>2, <2>3, <2>4, <2>5
<1>6. Compares(out.sreg, a0 + 256 * a1, b0 + 256 * b1)
  BY <1>3, <1>4, <1>5 DEF Compares
<1> QED
  BY <1>1, <1>4, <1>5, <1>6

(* The three programs differ in where the subtrahend is and in whether     *)
(* the difference is stored.                                               *)
SubInv ==
  \/ Loading
  \/ /\ At(5)
     /\ LowFlags(ctx.sreg, Loaded(1), Loaded(3))
     /\ ctx.regs[16] = Wrap8(Loaded(1) - Loaded(3))
     /\ ctx.regs[17] = Loaded(2) /\ ctx.regs[19] = Loaded(4)
  \/ (At(6) \/ Finished) /\ Compares(ctx.sreg, A, B) /\ Answer = Wrap16(A - B)

CompareInv ==
  \/ Loading
  \/ /\ At(5)
     /\ LowFlags(ctx.sreg, Loaded(1), Loaded(3))
     /\ ctx.regs[16] = Loaded(1)
     /\ ctx.regs[17] = Loaded(2) /\ ctx.regs[19] = Loaded(4)
  \/ (At(6) \/ Finished) /\ Compares(ctx.sreg, A, B) /\ Answer = A

SubImmInv ==
  \/ Loading
  \/ /\ At(5)
     /\ LowFlags(ctx.sreg, Loaded(1), 1)
     /\ ctx.regs[16] = Wrap8(Loaded(1) - 1)
     /\ ctx.regs[17] = Loaded(2)
  \/ (At(6) \/ Finished) /\ Compares(ctx.sreg, A, 32769) /\ Answer = Wrap16(A - 32769)

LEMMA SubChainStep ==
  ASSUME IInv, run_bin, Runs(SubChain), SubInv
  PROVE  SubInv'
<1>1. Sized(SubChain, 2) /\ Follows(4, SubChain) /\ 4 \in Nat /\ 4 + 2 = 6
  BY DEF SubChain, Runs, Sized
<1>2. /\ ctx.pc = 4 => Steps /\ Written(opcode) = << "sub", 16, 18 >>
      /\ ctx.pc = 5 => Steps /\ Written(opcode) = << "sbc", 17, 19 >>
      /\ ctx.pc = 6 => instr = "break"
  <2>1. ASSUME ctx.pc = 4 PROVE Steps /\ Written(opcode) = << "sub", 16, 18 >>
    <3>1. Place(4, SubChain, 4, << "sub", 16, 18 >>)
      BY DEF Place, SubChain
    <3> QED
      BY <1>1, <2>1, <3>1, AtPlace
  <2>2. ASSUME ctx.pc = 5 PROVE Steps /\ Written(opcode) = << "sbc", 17, 19 >>
    <3>1. Place(4, SubChain, 5, << "sbc", 17, 19 >>)
      BY DEF Place, SubChain
    <3> QED
      BY <1>1, <2>2, <3>1, AtPlace
  <2>3. ctx.pc = 6 => instr = "break"
    BY <1>1, AtEnd
  <2> QED
    BY <2>1, <2>2, <2>3
<1>3. Loaded(1) \in Byte /\ Loaded(2) \in Byte /\ Loaded(3) \in Byte /\ Loaded(4) \in Byte
  BY <1>1, OperandBytes
<1>4. CASE Loading /\ ctx.pc # 4
  BY <1>1, <1>4, OperandStep DEF SubInv
<1>5. CASE Loading /\ ctx.pc = 4
  <2> DEFINE out == Subtraction("sub", Loaded(1), Loaded(3))
  <2>1. GoesOn([ctx.regs EXCEPT ![16] = out.res], out.sreg)
    BY <1>2, <1>5, SubStep, OperandsLoaded, RegNumbers
  <2> HIDE DEF out
  <2>2. /\ At(5)' /\ flash' = flash /\ ctx'.regs[16] = out.res /\ ctx'.sreg = out.sreg
        /\ ctx'.regs[17] = Loaded(2) /\ ctx'.regs[19] = Loaded(4)
    BY <1>2, <1>5, <2>1, Stores1, OperandsLoaded, RegNumbers DEF At
  <2>3. LowFlags(out.sreg, Loaded(1), Loaded(3)) /\ out.res = Wrap8(Loaded(1) - Loaded(3))
    BY <1>3, LowStep DEF out
  <2> QED
    BY <2>2, <2>3 DEF SubInv, Loaded
<1>6. CASE /\ At(5)
           /\ LowFlags(ctx.sreg, Loaded(1), Loaded(3))
           /\ ctx.regs[16] = Wrap8(Loaded(1) - Loaded(3))
           /\ ctx.regs[17] = Loaded(2) /\ ctx.regs[19] = Loaded(4)
  <2> DEFINE out == Subtraction("sbc", Loaded(2), Loaded(4))
  <2>1. GoesOn([ctx.regs EXCEPT ![17] = out.res], out.sreg)
    BY <1>2, <1>6, SubStep, RegNumbers DEF At
  <2> HIDE DEF out
  <2>2. /\ At(6)' /\ flash' = flash /\ ctx'.regs[17] = out.res /\ ctx'.sreg = out.sreg
        /\ ctx'.regs[16] = ctx.regs[16]
    BY <1>2, <1>6, <2>1, Stores1, RegNumbers DEF At
  <2>3. /\ Compares(out.sreg, A, B)
        /\ Wrap8(Loaded(1) - Loaded(3)) + 256 * out.res = Wrap16(A - B)
    BY <1>3, <1>6, HighStep DEF out, A, B
  <2>4. Answer' = Wrap16(A - B)
    BY <1>6, <2>2, <2>3 DEF Answer, WordReg
  <2> QED
    BY <2>2, <2>3, <2>4 DEF SubInv, Loaded, A, B
<1>7. CASE (At(6) \/ Finished) /\ Compares(ctx.sreg, A, B) /\ Answer = Wrap16(A - B)
  <2>1. Ends
    BY <1>2, <1>7, EndStep DEF At
  <2> QED
    BY <1>7, <2>1 DEF SubInv, Ends, Finished, Answer, WordReg, A, B, Loaded
<1> QED
  BY <1>4, <1>5, <1>6, <1>7 DEF SubInv

LEMMA CompareChainStep ==
  ASSUME IInv, run_bin, Runs(CompareChain), CompareInv
  PROVE  CompareInv'
<1>1. Sized(CompareChain, 2) /\ Follows(4, CompareChain) /\ 4 \in Nat /\ 4 + 2 = 6
  BY DEF CompareChain, Runs, Sized
<1>2. /\ ctx.pc = 4 => Steps /\ Written(opcode) = << "cp", 16, 18 >>
      /\ ctx.pc = 5 => Steps /\ Written(opcode) = << "cpc", 17, 19 >>
      /\ ctx.pc = 6 => instr = "break"
  <2>1. ASSUME ctx.pc = 4 PROVE Steps /\ Written(opcode) = << "cp", 16, 18 >>
    <3>1. Place(4, CompareChain, 4, << "cp", 16, 18 >>)
      BY DEF Place, CompareChain
    <3> QED
      BY <1>1, <2>1, <3>1, AtPlace
  <2>2. ASSUME ctx.pc = 5 PROVE Steps /\ Written(opcode) = << "cpc", 17, 19 >>
    <3>1. Place(4, CompareChain, 5, << "cpc", 17, 19 >>)
      BY DEF Place, CompareChain
    <3> QED
      BY <1>1, <2>2, <3>1, AtPlace
  <2>3. ctx.pc = 6 => instr = "break"
    BY <1>1, AtEnd
  <2> QED
    BY <2>1, <2>2, <2>3
<1>3. Loaded(1) \in Byte /\ Loaded(2) \in Byte /\ Loaded(3) \in Byte /\ Loaded(4) \in Byte
  BY <1>1, OperandBytes
<1>4. CASE Loading /\ ctx.pc # 4
  BY <1>1, <1>4, OperandStep DEF CompareInv
<1>5. CASE Loading /\ ctx.pc = 4
  <2> DEFINE out == Subtraction("cp", Loaded(1), Loaded(3))
  <2>1. GoesOn(ctx.regs, out.sreg)
    BY <1>2, <1>5, CompareStep, OperandsLoaded, RegNumbers
  <2>2. LowFlags(out.sreg, Loaded(1), Loaded(3))
    BY <1>3, LowStep
  <2> HIDE DEF out
  <2> QED
    BY <1>5, <2>1, <2>2, OperandsLoaded DEF CompareInv, GoesOn, GoesOnBy, At, Loaded
<1>6. CASE /\ At(5)
           /\ LowFlags(ctx.sreg, Loaded(1), Loaded(3))
           /\ ctx.regs[16] = Loaded(1)
           /\ ctx.regs[17] = Loaded(2) /\ ctx.regs[19] = Loaded(4)
  <2> DEFINE out == Subtraction("cpc", Loaded(2), Loaded(4))
  <2>1. GoesOn(ctx.regs, out.sreg)
    BY <1>2, <1>6, CompareStep, RegNumbers DEF At
  <2>2. Compares(out.sreg, A, B)
    BY <1>3, <1>6, HighStep DEF A, B
  <2> HIDE DEF out
  <2>3. Answer = A
    BY <1>6 DEF Answer, WordReg, A
  <2> QED
    BY <1>6, <2>1, <2>2, <2>3
    DEF CompareInv, GoesOn, GoesOnBy, At, Answer, WordReg, A, B, Loaded
<1>7. CASE (At(6) \/ Finished) /\ Compares(ctx.sreg, A, B) /\ Answer = A
  <2>1. Ends
    BY <1>2, <1>7, EndStep DEF At
  <2> QED
    BY <1>7, <2>1 DEF CompareInv, Ends, Finished, Answer, WordReg, A, B, Loaded
<1> QED
  BY <1>4, <1>5, <1>6, <1>7 DEF CompareInv

LEMMA SubImmChainStep ==
  ASSUME IInv, run_bin, Runs(SubImmChain), SubImmInv
  PROVE  SubImmInv'
<1>1. Sized(SubImmChain, 2) /\ Follows(4, SubImmChain) /\ 4 \in Nat /\ 4 + 2 = 6
  BY DEF SubImmChain, Runs, Sized
<1>2. /\ ctx.pc = 4 => Steps /\ Written(opcode) = << "subi", 16, 1 >>
      /\ ctx.pc = 5 => Steps /\ Written(opcode) = << "sbci", 17, 128 >>
      /\ ctx.pc = 6 => instr = "break"
  <2>1. ASSUME ctx.pc = 4 PROVE Steps /\ Written(opcode) = << "subi", 16, 1 >>
    <3>1. Place(4, SubImmChain, 4, << "subi", 16, 1 >>)
      BY DEF Place, SubImmChain
    <3> QED
      BY <1>1, <2>1, <3>1, AtPlace
  <2>2. ASSUME ctx.pc = 5 PROVE Steps /\ Written(opcode) = << "sbci", 17, 128 >>
    <3>1. Place(4, SubImmChain, 5, << "sbci", 17, 128 >>)
      BY DEF Place, SubImmChain
    <3> QED
      BY <1>1, <2>2, <3>1, AtPlace
  <2>3. ctx.pc = 6 => instr = "break"
    BY <1>1, AtEnd
  <2> QED
    BY <2>1, <2>2, <2>3
<1>3. Loaded(1) \in Byte /\ Loaded(2) \in Byte /\ 1 \in Byte /\ 128 \in Byte
  BY <1>1, OperandBytes, ByteRange
<1>4. CASE Loading /\ ctx.pc # 4
  BY <1>1, <1>4, OperandStep DEF SubImmInv
<1>5. CASE Loading /\ ctx.pc = 4
  <2> DEFINE out == Subtraction("subi", Loaded(1), 1)
  <2>1. GoesOn([ctx.regs EXCEPT ![16] = out.res], out.sreg)
    BY <1>2, <1>3, <1>5, SubImmStep, OperandsLoaded, RegNumbers
  <2>2. LowFlags(out.sreg, Loaded(1), 1) /\ out.res = Wrap8(Loaded(1) - 1)
    BY <1>3, LowStep
  <2> HIDE DEF out
  <2>3. /\ At(5)' /\ flash' = flash /\ ctx'.regs[16] = out.res /\ ctx'.sreg = out.sreg
        /\ ctx'.regs[17] = Loaded(2)
    BY <1>2, <1>5, <2>1, Stores1, OperandsLoaded, RegNumbers DEF At
  <2> QED
    BY <2>2, <2>3 DEF SubImmInv, Loaded
<1>6. CASE /\ At(5)
           /\ LowFlags(ctx.sreg, Loaded(1), 1)
           /\ ctx.regs[16] = Wrap8(Loaded(1) - 1)
           /\ ctx.regs[17] = Loaded(2)
  <2> DEFINE out == Subtraction("sbci", Loaded(2), 128)
  <2>1. GoesOn([ctx.regs EXCEPT ![17] = out.res], out.sreg)
    BY <1>2, <1>3, <1>6, SubImmStep, RegNumbers DEF At
  <2>2. /\ Compares(out.sreg, Loaded(1) + 256 * Loaded(2), 1 + 256 * 128)
        /\ Wrap8(Loaded(1) - 1) + 256 * out.res
           = Wrap16((Loaded(1) + 256 * Loaded(2)) - (1 + 256 * 128))
    BY <1>3, <1>6, HighStep
  <2>3. 1 + 256 * 128 = 32769
    OBVIOUS
  <2> HIDE DEF out
  <2>4. /\ At(6)' /\ flash' = flash /\ ctx'.regs[17] = out.res /\ ctx'.sreg = out.sreg
        /\ ctx'.regs[16] = ctx.regs[16]
    BY <1>2, <1>6, <2>1, Stores1, RegNumbers DEF At
  <2>5. Answer' = Wrap16(A - 32769)
    BY <1>6, <2>2, <2>3, <2>4 DEF Answer, WordReg, A
  <2> QED
    BY <2>2, <2>3, <2>4, <2>5 DEF SubImmInv, Loaded, A
<1>7. CASE (At(6) \/ Finished) /\ Compares(ctx.sreg, A, 32769) /\ Answer = Wrap16(A - 32769)
  <2>1. Ends
    BY <1>2, <1>7, EndStep DEF At
  <2> QED
    BY <1>7, <2>1 DEF SubImmInv, Ends, Finished, Answer, WordReg, A, Loaded
<1> QED
  BY <1>4, <1>5, <1>6, <1>7 DEF SubImmInv

-----------------------------------------------------------------------------
(* Negation.                                                               *)

Negates == Answer = Wrap16(0 - A) /\ (F_Z \in ctx.sreg <=> A = 0)

NegateInv ==
  \/ Loading
  \/ At(5) /\ ctx.regs[16] = Loaded(1) /\ ctx.regs[17] = 255 - Loaded(2)
  \/ /\ At(6)
     /\ LowFlags(ctx.sreg, 0, Loaded(1))
     /\ ctx.regs[16] = Wrap8(0 - Loaded(1)) /\ ctx.regs[17] = 255 - Loaded(2)
  \/ (At(7) \/ Finished) /\ Negates

LEMMA NegateArithmetic ==
  ASSUME NEW a0 \in Byte, NEW a1 \in Byte, LowFlags(ctx.sreg, 0, a0)
  PROVE  LET out == Subtraction("sbci", 255 - a1, 255)
         IN  /\ Wrap8(0 - a0) + 256 * out.res = Wrap16(0 - (a0 + 256 * a1))
             /\ F_Z \in out.sreg <=> a0 + 256 * a1 = 0
<1> DEFINE c   == Carry(ctx.sreg)
           x   == 255 - a1
           y   == 255
           out == Difference(x, y, c, TRUE, ctx.sreg)
<1>1. Subtraction("sbci", 255 - a1, 255) = out
  BY DEF Subtraction
<1>2. c \in {0, 1} /\ (c = 1 <=> 0 < a0) /\ (F_Z \in ctx.sreg <=> Wrap8(0 - a0) = 0)
  BY DEF Carry, LowFlags
<1> HIDE DEF c
<1>3. out.res = Wrap8(x - y - c) /\ (F_Z \in out.sreg <=> Wrap8(x - y - c) = 0 /\ F_Z \in ctx.sreg)
  <2> HIDE DEF x, y
  <2> QED
    BY DifferenceFlags
<1>4. a0 \in Int /\ 0 <= a0 /\ a0 <= 255 /\ a1 \in Int /\ 0 <= a1 /\ a1 <= 255
  BY ByteRange
<1>5. Wrap8(0 - a0) + 256 * Wrap8((255 - a1) - 255 - c) = Wrap16(0 - (a0 + 256 * a1))
  BY <1>2, <1>4, SMT DEF Wrap8, Wrap16
<1>6. Wrap8((255 - a1) - 255 - c) = 0 /\ Wrap8(0 - a0) = 0 <=> a0 + 256 * a1 = 0
  BY <1>2, <1>4, SMT DEF Wrap8
<1> HIDE DEF out
<1> QED
  BY <1>1, <1>2, <1>3, <1>5, <1>6

LEMMA NegateChainStep ==
  ASSUME IInv, run_bin, Runs(NegateChain), NegateInv
  PROVE  NegateInv'
<1>1. Sized(NegateChain, 3) /\ Follows(4, NegateChain) /\ 4 \in Nat /\ 4 + 3 = 7
  BY DEF NegateChain, Runs, Sized
<1>2. /\ ctx.pc = 4 => Steps /\ Written(opcode) = << "com", 17 >>
      /\ ctx.pc = 5 => Steps /\ Written(opcode) = << "neg", 16 >>
      /\ ctx.pc = 6 => Steps /\ Written(opcode) = << "sbci", 17, 255 >>
      /\ ctx.pc = 7 => instr = "break"
  <2>1. ASSUME ctx.pc = 4 PROVE Steps /\ Written(opcode) = << "com", 17 >>
    <3>1. Place(4, NegateChain, 4, << "com", 17 >>)
      BY DEF Place, NegateChain
    <3> QED
      BY <1>1, <2>1, <3>1, AtPlace
  <2>2. ASSUME ctx.pc = 5 PROVE Steps /\ Written(opcode) = << "neg", 16 >>
    <3>1. Place(4, NegateChain, 5, << "neg", 16 >>)
      BY DEF Place, NegateChain
    <3> QED
      BY <1>1, <2>2, <3>1, AtPlace
  <2>3. ASSUME ctx.pc = 6 PROVE Steps /\ Written(opcode) = << "sbci", 17, 255 >>
    <3>1. Place(4, NegateChain, 6, << "sbci", 17, 255 >>)
      BY DEF Place, NegateChain
    <3> QED
      BY <1>1, <2>3, <3>1, AtPlace
  <2>4. ctx.pc = 7 => instr = "break"
    BY <1>1, AtEnd
  <2> QED
    BY <2>1, <2>2, <2>3, <2>4
<1>3. Loaded(1) \in Byte /\ Loaded(2) \in Byte /\ 0 \in Byte /\ 255 \in Byte
  BY <1>1, OperandBytes, ByteRange
<1>4. CASE Loading /\ ctx.pc # 4
  BY <1>1, <1>4, OperandStep DEF NegateInv
<1>5. CASE Loading /\ ctx.pc = 4
  <2> DEFINE out == Complement(ctx.regs[17], ctx.sreg)
  <2>1. GoesOn([ctx.regs EXCEPT ![17] = out.res], out.sreg)
    BY <1>2, <1>5, ComStep, RegNumbers
  <2>2. out.res = 255 - ctx.regs[17]
    BY ComplementIs
  <2> HIDE DEF out
  <2>3. /\ At(5)' /\ flash' = flash /\ ctx'.regs[17] = out.res
        /\ ctx'.regs[16] = ctx.regs[16]
    BY <1>2, <1>5, <2>1, Stores1, RegNumbers DEF At
  <2> QED
    BY <1>5, <2>2, <2>3, OperandsLoaded DEF NegateInv, Loaded
<1>6. CASE At(5) /\ ctx.regs[16] = Loaded(1) /\ ctx.regs[17] = 255 - Loaded(2)
  <2> DEFINE out == Subtraction("neg", 0, Loaded(1))
  <2>1. GoesOn([ctx.regs EXCEPT ![16] = out.res], out.sreg)
    BY <1>2, <1>6, NegStep, RegNumbers DEF At
  <2>2. LowFlags(out.sreg, 0, Loaded(1)) /\ out.res = Wrap8(0 - Loaded(1))
    BY <1>3, LowStep
  <2> HIDE DEF out
  <2>3. /\ At(6)' /\ flash' = flash /\ ctx'.regs[16] = out.res /\ ctx'.sreg = out.sreg
        /\ ctx'.regs[17] = ctx.regs[17]
    BY <1>2, <1>6, <2>1, Stores1, RegNumbers DEF At
  <2> QED
    BY <1>6, <2>2, <2>3 DEF NegateInv, Loaded
<1>7. CASE /\ At(6)
           /\ LowFlags(ctx.sreg, 0, Loaded(1))
           /\ ctx.regs[16] = Wrap8(0 - Loaded(1)) /\ ctx.regs[17] = 255 - Loaded(2)
  <2> DEFINE out == Subtraction("sbci", 255 - Loaded(2), 255)
  <2>1. GoesOn([ctx.regs EXCEPT ![17] = out.res], out.sreg)
    BY <1>2, <1>3, <1>7, SubImmStep, RegNumbers DEF At
  <2>2. /\ Wrap8(0 - Loaded(1)) + 256 * out.res = Wrap16(0 - A)
        /\ F_Z \in out.sreg <=> A = 0
    BY <1>3, <1>7, NegateArithmetic DEF A
  <2> HIDE DEF out
  <2>3. /\ At(7)' /\ flash' = flash /\ ctx'.regs[17] = out.res /\ ctx'.sreg = out.sreg
        /\ ctx'.regs[16] = ctx.regs[16]
    BY <1>2, <1>7, <2>1, Stores1, RegNumbers DEF At
  <2>4. Answer' = Wrap16(0 - A)
    BY <1>7, <2>2, <2>3 DEF Answer, WordReg
  <2> QED
    BY <2>2, <2>3, <2>4 DEF NegateInv, Negates, Loaded, A
<1>8. CASE (At(7) \/ Finished) /\ Negates
  <2>1. Ends
    BY <1>2, <1>8, EndStep DEF At
  <2> QED
    BY <1>8, <2>1 DEF NegateInv, Negates, Ends, Finished, Answer, WordReg, A, Loaded
<1> QED
  BY <1>4, <1>5, <1>6, <1>7, <1>8 DEF NegateInv

-----------------------------------------------------------------------------
(* Right shifts.                                                           *)

Shifted == Answer = A \div 2 /\ (F_C \in ctx.sreg <=> A % 2 = 1)

ShiftInv ==
  \/ Loading
  \/ /\ At(5)
     /\ F_C \in ctx.sreg <=> Loaded(2) % 2 = 1
     /\ ctx.regs[16] = Loaded(1) /\ ctx.regs[17] = Loaded(2) \div 2
  \/ (At(6) \/ Finished) /\ Shifted

HalveInv ==
  \/ Loading
  \/ /\ At(5)
     /\ F_C \in ctx.sreg <=> Loaded(2) % 2 = 1
     /\ ctx.regs[16] = Loaded(1)
     /\ ctx.regs[17] = Loaded(2) \div 2 + 128 * (Loaded(2) \div 128)
  \/ (At(6) \/ Finished) /\ Answer = Wrap16(SignedA \div 2)

(* The low bytes with the bit that the high bytes have lost: from the two  *)
(* halves follow the half of the number and its signed half.               *)
LEMMA ShiftArithmetic ==
  ASSUME NEW a0 \in Byte, NEW a1 \in Byte, NEW c \in {0, 1}, c = 1 <=> a1 % 2 = 1
  PROVE  LET a   == a0 + 256 * a1
             low == a0 \div 2 + 128 * c
         IN  /\ low + 256 * (a1 \div 2) = a \div 2
             /\ a0 % 2 = 1 <=> a % 2 = 1
             /\ low + 256 * (a1 \div 2 + 128 * (a1 \div 128)) = Wrap16(Signed(a, 32768) \div 2)
<1>1. a0 \in Int /\ 0 <= a0 /\ a0 <= 255 /\ a1 \in Int /\ 0 <= a1 /\ a1 <= 255
  BY ByteRange
<1>2. a0 \div 2 + 128 * c + 256 * (a1 \div 2) = (a0 + 256 * a1) \div 2
  BY <1>1, SMT
<1>3. a0 % 2 = 1 <=> (a0 + 256 * a1) % 2 = 1
  BY <1>1, SMT
<1>4. a0 \div 2 + 128 * c + 256 * (a1 \div 2 + 128 * (a1 \div 128))
      = Wrap16(Signed(a0 + 256 * a1, 32768) \div 2)
  BY <1>1, SMT DEF Signed, Wrap16
<1> QED
  BY <1>2, <1>3, <1>4

LEMMA RorStep ==
  ASSUME Steps, At(5), Written(opcode) = << "ror", 16 >>, NEW a0, ctx.regs[16] = a0
  PROVE  /\ At(6)' /\ flash' = flash
         /\ ctx'.regs[16] = a0 \div 2 + 128 * Carry(ctx.sreg)
         /\ ctx'.regs[17] = ctx.regs[17]
         /\ F_C \in ctx'.sreg <=> a0 % 2 = 1
<1> DEFINE out == Halved(a0, TopBit("ror", a0), ctx.sreg)
<1>1. GoesOn([ctx.regs EXCEPT ![16] = out.res], out.sreg)
  BY ShiftStep, RegNumbers
<1>2. out.res = a0 \div 2 + 128 * Carry(ctx.sreg) /\ (F_C \in out.sreg <=> a0 % 2 = 1)
  <2>1. TopBit("ror", a0) = Carry(ctx.sreg)
    BY DEF TopBit
  <2> QED
    BY <2>1, OneRegisterFlags
<1> HIDE DEF out
<1>3. /\ status' = "running" /\ ctx'.pc = 6 /\ flash' = flash /\ ctx'.sreg = out.sreg
      /\ ctx'.regs[16] = out.res /\ ctx'.regs[17] = ctx.regs[17]
  BY <1>1, Stores1, RegNumbers DEF At
<1> QED
  BY <1>2, <1>3 DEF At

LEMMA ShiftChainStep ==
  ASSUME IInv, run_bin, Runs(ShiftChain), ShiftInv
  PROVE  ShiftInv'
<1>1. Sized(ShiftChain, 2) /\ Follows(4, ShiftChain) /\ 4 \in Nat /\ 4 + 2 = 6
  BY DEF ShiftChain, Runs, Sized
<1>2. /\ ctx.pc = 4 => Steps /\ Written(opcode) = << "lsr", 17 >>
      /\ ctx.pc = 5 => Steps /\ Written(opcode) = << "ror", 16 >>
      /\ ctx.pc = 6 => instr = "break"
  <2>1. ASSUME ctx.pc = 4 PROVE Steps /\ Written(opcode) = << "lsr", 17 >>
    <3>1. Place(4, ShiftChain, 4, << "lsr", 17 >>)
      BY DEF Place, ShiftChain
    <3> QED
      BY <1>1, <2>1, <3>1, AtPlace
  <2>2. ASSUME ctx.pc = 5 PROVE Steps /\ Written(opcode) = << "ror", 16 >>
    <3>1. Place(4, ShiftChain, 5, << "ror", 16 >>)
      BY DEF Place, ShiftChain
    <3> QED
      BY <1>1, <2>2, <3>1, AtPlace
  <2>3. ctx.pc = 6 => instr = "break"
    BY <1>1, AtEnd
  <2> QED
    BY <2>1, <2>2, <2>3
<1>3. Loaded(1) \in Byte /\ Loaded(2) \in Byte
  BY <1>1, OperandBytes
<1>4. CASE Loading /\ ctx.pc # 4
  BY <1>1, <1>4, OperandStep DEF ShiftInv
<1>5. CASE Loading /\ ctx.pc = 4
  <2> DEFINE out == Halved(Loaded(2), TopBit("lsr", Loaded(2)), ctx.sreg)
  <2>1. GoesOn([ctx.regs EXCEPT ![17] = out.res], out.sreg)
    BY <1>2, <1>5, ShiftStep, OperandsLoaded, RegNumbers
  <2>2. out.res = Loaded(2) \div 2 /\ (F_C \in out.sreg <=> Loaded(2) % 2 = 1)
    <3>1. TopBit("lsr", Loaded(2)) = 0 /\ Loaded(2) \div 2 + 128 * 0 = Loaded(2) \div 2
      BY <1>3, ByteRange DEF TopBit
    <3> QED
      BY <3>1, OneRegisterFlags
  <2> HIDE DEF out
  <2>3. /\ At(5)' /\ flash' = flash /\ ctx'.regs[17] = out.res /\ ctx'.sreg = out.sreg
        /\ ctx'.regs[16] = Loaded(1)
    BY <1>2, <1>5, <2>1, Stores1, OperandsLoaded, RegNumbers DEF At
  <2> QED
    BY <2>2, <2>3 DEF ShiftInv, Loaded
<1>6. CASE /\ At(5)
           /\ F_C \in ctx.sreg <=> Loaded(2) % 2 = 1
           /\ ctx.regs[16] = Loaded(1) /\ ctx.regs[17] = Loaded(2) \div 2
  <2> DEFINE c == Carry(ctx.sreg)
  <2>1. /\ At(6)' /\ flash' = flash
        /\ ctx'.regs[16] = Loaded(1) \div 2 + 128 * c
        /\ ctx'.regs[17] = Loaded(2) \div 2
        /\ F_C \in ctx'.sreg <=> Loaded(1) % 2 = 1
    BY <1>2, <1>6, RorStep DEF At
  <2>2. c \in {0, 1} /\ (c = 1 <=> Loaded(2) % 2 = 1)
    BY <1>6 DEF Carry
  <2> HIDE DEF c
  <2>3. Loaded(1) \div 2 + 128 * c + 256 * (Loaded(2) \div 2) = A \div 2
        /\ (Loaded(1) % 2 = 1 <=> A % 2 = 1)
    BY <1>3, <2>2, ShiftArithmetic DEF A
  <2>4. Answer' = A \div 2
    BY <2>1, <2>3 DEF Answer, WordReg
  <2> QED
    BY <2>1, <2>3, <2>4 DEF ShiftInv, Shifted, Loaded, A
<1>7. CASE (At(6) \/ Finished) /\ Shifted
  <2>1. Ends
    BY <1>2, <1>7, EndStep DEF At
  <2> QED
    BY <1>7, <2>1 DEF ShiftInv, Shifted, Ends, Finished, Answer, WordReg, A, Loaded
<1> QED
  BY <1>4, <1>5, <1>6, <1>7 DEF ShiftInv

LEMMA HalveChainStep ==
  ASSUME IInv, run_bin, Runs(HalveChain), HalveInv
  PROVE  HalveInv'
<1>1. Sized(HalveChain, 2) /\ Follows(4, HalveChain) /\ 4 \in Nat /\ 4 + 2 = 6
  BY DEF HalveChain, Runs, Sized
<1>2. /\ ctx.pc = 4 => Steps /\ Written(opcode) = << "asr", 17 >>
      /\ ctx.pc = 5 => Steps /\ Written(opcode) = << "ror", 16 >>
      /\ ctx.pc = 6 => instr = "break"
  <2>1. ASSUME ctx.pc = 4 PROVE Steps /\ Written(opcode) = << "asr", 17 >>
    <3>1. Place(4, HalveChain, 4, << "asr", 17 >>)
      BY DEF Place, HalveChain
    <3> QED
      BY <1>1, <2>1, <3>1, AtPlace
  <2>2. ASSUME ctx.pc = 5 PROVE Steps /\ Written(opcode) = << "ror", 16 >>
    <3>1. Place(4, HalveChain, 5, << "ror", 16 >>)
      BY DEF Place, HalveChain
    <3> QED
      BY <1>1, <2>2, <3>1, AtPlace
  <2>3. ctx.pc = 6 => instr = "break"
    BY <1>1, AtEnd
  <2> QED
    BY <2>1, <2>2, <2>3
<1>3. Loaded(1) \in Byte /\ Loaded(2) \in Byte
  BY <1>1, OperandBytes
<1>4. CASE Loading /\ ctx.pc # 4
  BY <1>1, <1>4, OperandStep DEF HalveInv
<1>5. CASE Loading /\ ctx.pc = 4
  <2> DEFINE out == Halved(Loaded(2), TopBit("asr", Loaded(2)), ctx.sreg)
  <2>1. GoesOn([ctx.regs EXCEPT ![17] = out.res], out.sreg)
    BY <1>2, <1>5, ShiftStep, OperandsLoaded, RegNumbers
  <2>2. /\ out.res = Loaded(2) \div 2 + 128 * (Loaded(2) \div 128)
        /\ F_C \in out.sreg <=> Loaded(2) % 2 = 1
    <3>1. TopBit("asr", Loaded(2)) = Loaded(2) \div 128
      BY DEF TopBit
    <3> QED
      BY <3>1, OneRegisterFlags
  <2> HIDE DEF out
  <2>3. /\ At(5)' /\ flash' = flash /\ ctx'.regs[17] = out.res /\ ctx'.sreg = out.sreg
        /\ ctx'.regs[16] = Loaded(1)
    BY <1>2, <1>5, <2>1, Stores1, OperandsLoaded, RegNumbers DEF At
  <2> QED
    BY <2>2, <2>3 DEF HalveInv, Loaded
<1>6. CASE /\ At(5)
           /\ F_C \in ctx.sreg <=> Loaded(2) % 2 = 1
           /\ ctx.regs[16] = Loaded(1)
           /\ ctx.regs[17] = Loaded(2) \div 2 + 128 * (Loaded(2) \div 128)
  <2> DEFINE c == Carry(ctx.sreg)
             h == Loaded(2) \div 2 + 128 * (Loaded(2) \div 128)
  <2>1. /\ At(6)' /\ flash' = flash
        /\ ctx'.regs[16] = Loaded(1) \div 2 + 128 * c
        /\ ctx'.regs[17] = h
    BY <1>2, <1>6, RorStep DEF At
  <2>2. c \in {0, 1} /\ (c = 1 <=> Loaded(2) % 2 = 1)
    BY <1>6 DEF Carry
  <2> HIDE DEF c
  <2>3. Loaded(1) \div 2 + 128 * c + 256 * h = Wrap16(SignedA \div 2)
    BY <1>3, <2>2, ShiftArithmetic DEF A, SignedA
  <2> HIDE DEF h
  <2>4. Answer' = Wrap16(SignedA \div 2)
    BY <2>1, <2>3 DEF Answer, WordReg
  <2> QED
    BY <2>1, <2>4 DEF HalveInv, Loaded, A, SignedA
<1>7. CASE (At(6) \/ Finished) /\ Answer = Wrap16(SignedA \div 2)
  <2>1. Ends
    BY <1>2, <1>7, EndStep DEF At
  <2> QED
    BY <1>7, <2>1 DEF HalveInv, Ends, Finished, Answer, WordReg, A, SignedA, Loaded
<1> QED
  BY <1>4, <1>5, <1>6, <1>7 DEF HalveInv

-----------------------------------------------------------------------------
(* Multiplication.                                                         *)

LEMMA ByteProduct ==
  ASSUME NEW x \in Byte, NEW y \in Byte
  PROVE  /\ x * y \in Int
         /\ Wrap16(x * y) = x * y /\ Lo(x * y) + 256 * Hi(x * y) = x * y
<1>1. x \in Int /\ 0 <= x /\ x <= 255 /\ y \in Int /\ 0 <= y /\ y <= 255
  BY ByteRange
<1> DEFINE p == x * y
<1>2. p \in Int /\ 0 <= p /\ p <= 65025
  BY <1>1, SMT
<1> HIDE DEF p
<1>3. Wrap16(p) = p /\ Lo(p) + 256 * Hi(p) = p
  BY <1>2, SMT DEF Wrap16, Lo, Hi
<1> QED
  BY <1>2, <1>3 DEF p

(* The three products that count, and the fourth, which does not.          *)
P1 == Loaded(1) * Loaded(3)
P2 == Loaded(1) * Loaded(4)
P3 == Loaded(2) * Loaded(3)

LEMMA ProductArithmetic ==
  ASSUME Loaded(1) \in Byte, Loaded(2) \in Byte, Loaded(3) \in Byte, Loaded(4) \in Byte
  PROVE  Lo(P1) + 256 * Wrap8(Wrap8(Hi(P1) + Lo(P2)) + Lo(P3)) = ProductMod16(A, B)
<1> DEFINE a0 == Loaded(1)
           a1 == Loaded(2)
           b0 == Loaded(3)
           b1 == Loaded(4)
           p4 == a1 * b1
<1>1. /\ a0 \in Int /\ 0 <= a0 /\ a0 <= 255 /\ a1 \in Int /\ 0 <= a1 /\ a1 <= 255
      /\ b0 \in Int /\ 0 <= b0 /\ b0 <= 255 /\ b1 \in Int /\ 0 <= b1 /\ b1 <= 255
  BY ByteRange
<1>2. P1 = a0 * b0 /\ P2 = a0 * b1 /\ P3 = a1 * b0 /\ A = a0 + 256 * a1 /\ B = b0 + 256 * b1
  BY DEF P1, P2, P3, A, B
<1>3. /\ P1 \in Int /\ P2 \in Int /\ P3 \in Int /\ p4 \in Int
      /\ Lo(P1) + 256 * Hi(P1) = P1
  BY <1>2, ByteProduct
<1> HIDE DEF a0, a1, b0, b1
<1>4. Lo(B) = b0 /\ Hi(B) = b1
  BY <1>1, <1>2, SMT DEF Lo, Hi
<1>5. A * b0 = P1 + 256 * P3 /\ A * b1 = P2 + 256 * p4
  BY <1>1, <1>2, SMT
<1> HIDE DEF p4
<1>6. (P2 + 256 * p4) % 256 = Lo(P2)
  BY <1>3, SMT DEF Lo
<1>7. ProductMod16(A, B) = Wrap16(P1 + 256 * P3 + 256 * Lo(P2))
  BY <1>4, <1>5, <1>6 DEF ProductMod16
<1>8. Lo(P1) \in 0 .. 255 /\ Hi(P1) \in 0 .. 255 /\ Lo(P2) \in 0 .. 255
  BY <1>3, SMT DEF Lo, Hi
<1> DEFINE lo1 == Lo(P1)
           hi1 == Hi(P1)
           lo2 == Lo(P2)
<1>9. /\ lo1 \in Int /\ 0 <= lo1 /\ lo1 <= 255
      /\ hi1 \in Int /\ 0 <= hi1 /\ hi1 <= 255
      /\ lo2 \in Int /\ 0 <= lo2 /\ lo2 <= 255
      /\ P1 = lo1 + 256 * hi1
  BY <1>3, <1>8
<1> HIDE DEF lo1, hi1, lo2
<1>10. Wrap8(Wrap8(hi1 + lo2) + Lo(P3)) = (hi1 + lo2 + P3) % 256
  BY <1>3, <1>9, SMT DEF Wrap8, Lo
<1>11. Wrap16(P1 + 256 * P3 + 256 * lo2) = lo1 + 256 * ((hi1 + lo2 + P3) % 256)
  BY <1>3, <1>9, SMT DEF Wrap16
<1> QED
  BY <1>7, <1>10, <1>11 DEF lo1, hi1, lo2

Operands4 == /\ ctx.regs[16] = Loaded(1) /\ ctx.regs[17] = Loaded(2)
             /\ ctx.regs[18] = Loaded(3) /\ ctx.regs[19] = Loaded(4)

Low24 == ctx.regs[24] = Lo(P1)

MultiplyInv ==
  \/ Loading
  \/ At(5) /\ Operands4 /\ ctx.regs[0] = Lo(P1) /\ ctx.regs[1] = Hi(P1)
  \/ At(6) /\ Operands4 /\ Low24 /\ ctx.regs[25] = Hi(P1)
  \/ At(7) /\ Operands4 /\ Low24 /\ ctx.regs[25] = Hi(P1) /\ ctx.regs[0] = Lo(P2)
  \/ At(8) /\ Operands4 /\ Low24 /\ ctx.regs[25] = Wrap8(Hi(P1) + Lo(P2))
  \/ At(9) /\ Operands4 /\ Low24 /\ ctx.regs[25] = Wrap8(Hi(P1) + Lo(P2)) /\ ctx.regs[0] = Lo(P3)
  \/ (At(10) \/ Finished) /\ WordReg(ctx, 12) = ProductMod16(A, B)

LEMMA MulAt ==
  ASSUME Steps, NEW d \in RegIndex, NEW r \in RegIndex, Written(opcode) = << "mul", d, r >>,
         Operands4
  PROVE  LET p == ctx.regs[d] * ctx.regs[r]
         IN  /\ status' = "running" /\ ctx'.pc = ctx.pc + 1 /\ flash' = flash
             /\ ctx'.regs[0] = Lo(p) /\ ctx'.regs[1] = Hi(p)
             /\ ctx'.regs[24] = ctx.regs[24] /\ ctx'.regs[25] = ctx.regs[25]
             /\ Operands4'
<1> DEFINE p   == ctx.regs[d] * ctx.regs[r]
           out == ProductOf(p, FALSE, ctx.sreg)
<1>1. GoesOn([ctx.regs EXCEPT ![0] = Lo(out.res), ![1] = Hi(out.res)], out.sreg)
  BY MulStep
<1>2. ctx.regs[d] \in Byte /\ ctx.regs[r] \in Byte /\ ctx.regs \in [RegIndex -> Byte]
  BY StepsFacts
<1>3. Wrap16(p) = p
  BY <1>2, ByteProduct
<1> HIDE DEF p
<1>4. out.res = p
  BY <1>3 DEF ProductOf
<1> HIDE DEF out
<1>5. /\ status' = "running" /\ ctx'.pc = ctx.pc + 1 /\ flash' = flash
      /\ ctx'.regs = [ctx.regs EXCEPT ![0] = Lo(p), ![1] = Hi(p)]
  BY <1>1, <1>4 DEF GoesOn, GoesOnBy
<1>6. /\ ctx'.regs[0] = Lo(p) /\ ctx'.regs[1] = Hi(p)
      /\ ctx'.regs[16] = ctx.regs[16] /\ ctx'.regs[17] = ctx.regs[17]
      /\ ctx'.regs[18] = ctx.regs[18] /\ ctx'.regs[19] = ctx.regs[19]
      /\ ctx'.regs[24] = ctx.regs[24] /\ ctx'.regs[25] = ctx.regs[25]
  BY <1>2, <1>5, RegNumbers
<1>7. Operands4'
  BY <1>5, <1>6 DEF Operands4, Loaded
<1> QED
  BY <1>5, <1>6, <1>7 DEF p

(* r25 gathers the low bytes of the products in r0.                        *)
LEMMA AddsUp ==
  ASSUME Steps, Written(opcode) = << "add", 25, 0 >>, Operands4
  PROVE  /\ status' = "running" /\ ctx'.pc = ctx.pc + 1 /\ flash' = flash
         /\ ctx'.regs[24] = ctx.regs[24]
         /\ ctx'.regs[25] = Wrap8(ctx.regs[25] + ctx.regs[0])
         /\ Operands4'
<1> DEFINE x   == ctx.regs[25]
           y   == ctx.regs[0]
           out == Sum(x, y, 0, ctx.sreg)
<1>1. GoesOn([ctx.regs EXCEPT ![25] = out.res], out.sreg)
  BY AddStep, RegNumbers
<1>2. x \in Int /\ y \in Int
  BY StepsFacts, RegNumbers, ByteRange
<1>3. out.res = Wrap8(x + y)
  <2>1. out.res = Wrap8(x + y + 0)
    BY SumFlags
  <2> QED
    BY <1>2, <2>1
<1> HIDE DEF x, y, out
<1>4. /\ status' = "running" /\ ctx'.pc = ctx.pc + 1 /\ flash' = flash
      /\ ctx'.regs[25] = out.res /\ ctx'.regs[24] = ctx.regs[24]
      /\ ctx'.regs[16] = ctx.regs[16] /\ ctx'.regs[17] = ctx.regs[17]
      /\ ctx'.regs[18] = ctx.regs[18] /\ ctx'.regs[19] = ctx.regs[19]
  BY <1>1, Stores1, RegNumbers
<1>5. Operands4'
  BY <1>4 DEF Operands4, Loaded
<1> QED
  BY <1>3, <1>4, <1>5 DEF x, y

LEMMA MultiplyChainStep ==
  ASSUME IInv, run_bin, Runs(MultiplyChain), MultiplyInv
  PROVE  MultiplyInv'
<1>1. Sized(MultiplyChain, 6) /\ Follows(4, MultiplyChain) /\ 4 \in Nat /\ 4 + 6 = 10
  BY DEF MultiplyChain, Runs, Sized
<1>2. /\ ctx.pc = 4 => Steps /\ Written(opcode) = << "mul", 16, 18 >>
      /\ ctx.pc = 5 => Steps /\ Written(opcode) = << "movw", 12, 0 >>
      /\ ctx.pc = 6 => Steps /\ Written(opcode) = << "mul", 16, 19 >>
      /\ ctx.pc = 7 => Steps /\ Written(opcode) = << "add", 25, 0 >>
      /\ ctx.pc = 8 => Steps /\ Written(opcode) = << "mul", 17, 18 >>
      /\ ctx.pc = 9 => Steps /\ Written(opcode) = << "add", 25, 0 >>
      /\ ctx.pc = 10 => instr = "break"
  <2>1. ASSUME ctx.pc = 4 PROVE Steps /\ Written(opcode) = << "mul", 16, 18 >>
    <3>1. Place(4, MultiplyChain, 4, << "mul", 16, 18 >>)
      BY DEF Place, MultiplyChain
    <3> QED
      BY <1>1, <2>1, <3>1, AtPlace
  <2>2. ASSUME ctx.pc = 5 PROVE Steps /\ Written(opcode) = << "movw", 12, 0 >>
    <3>1. Place(4, MultiplyChain, 5, << "movw", 12, 0 >>)
      BY DEF Place, MultiplyChain
    <3> QED
      BY <1>1, <2>2, <3>1, AtPlace
  <2>3. ASSUME ctx.pc = 6 PROVE Steps /\ Written(opcode) = << "mul", 16, 19 >>
    <3>1. Place(4, MultiplyChain, 6, << "mul", 16, 19 >>)
      BY DEF Place, MultiplyChain
    <3> QED
      BY <1>1, <2>3, <3>1, AtPlace
  <2>4. ASSUME ctx.pc = 7 PROVE Steps /\ Written(opcode) = << "add", 25, 0 >>
    <3>1. Place(4, MultiplyChain, 7, << "add", 25, 0 >>)
      BY DEF Place, MultiplyChain
    <3> QED
      BY <1>1, <2>4, <3>1, AtPlace
  <2>5. ASSUME ctx.pc = 8 PROVE Steps /\ Written(opcode) = << "mul", 17, 18 >>
    <3>1. Place(4, MultiplyChain, 8, << "mul", 17, 18 >>)
      BY DEF Place, MultiplyChain
    <3> QED
      BY <1>1, <2>5, <3>1, AtPlace
  <2>6. ASSUME ctx.pc = 9 PROVE Steps /\ Written(opcode) = << "add", 25, 0 >>
    <3>1. Place(4, MultiplyChain, 9, << "add", 25, 0 >>)
      BY DEF Place, MultiplyChain
    <3> QED
      BY <1>1, <2>6, <3>1, AtPlace
  <2>7. ctx.pc = 10 => instr = "break"
    BY <1>1, AtEnd
  <2> QED
    BY <2>1, <2>2, <2>3, <2>4, <2>5, <2>6, <2>7
<1>3. Loaded(1) \in Byte /\ Loaded(2) \in Byte /\ Loaded(3) \in Byte /\ Loaded(4) \in Byte
  BY <1>1, OperandBytes
<1>0. flash' = flash => P1' = P1 /\ P2' = P2 /\ P3' = P3 /\ A' = A /\ B' = B
  BY DEF P1, P2, P3, A, B, Loaded
<1>4. CASE Loading /\ ctx.pc # 4
  BY <1>1, <1>4, OperandStep DEF MultiplyInv
<1>5. CASE Loading /\ ctx.pc = 4
  <2>1. Operands4 /\ At(4)
    BY <1>5, OperandsLoaded DEF Operands4, At, Loading
  <2>2. ctx.regs[16] * ctx.regs[18] = P1
    BY <2>1 DEF Operands4, P1
  <2>3. /\ status' = "running" /\ ctx'.pc = 4 + 1 /\ flash' = flash
        /\ ctx'.regs[0] = Lo(P1) /\ ctx'.regs[1] = Hi(P1) /\ Operands4'
    BY <1>2, <1>5, <2>1, <2>2, MulAt, RegNumbers
  <2> QED
    BY <1>0, <2>3 DEF MultiplyInv, At
<1>6. CASE At(5) /\ Operands4 /\ ctx.regs[0] = Lo(P1) /\ ctx.regs[1] = Hi(P1)
  <2>1. GoesOn([ctx.regs EXCEPT ![2 * 12] = ctx.regs[2 * 0],
                                ![2 * 12 + 1] = ctx.regs[2 * 0 + 1]], ctx.sreg)
    <3>1. Steps /\ Written(opcode) = << "movw", 12, 0 >> /\ 12 \in 0 .. 15 /\ 0 \in 0 .. 15
      BY <1>2, <1>6 DEF At
    <3> QED
      BY <3>1, MovwStep
  <2>2. 2 * 12 = 24 /\ 2 * 12 + 1 = 25 /\ 2 * 0 = 0 /\ 2 * 0 + 1 = 1
    OBVIOUS
  <2>3. /\ status' = "running" /\ ctx'.pc = 6 /\ flash' = flash
        /\ ctx'.regs = [ctx.regs EXCEPT ![24] = ctx.regs[0], ![25] = ctx.regs[1]]
    BY <1>6, <2>1, <2>2 DEF GoesOn, GoesOnBy, At
  <2>4. ctx.regs \in [RegIndex -> Byte]
    BY <1>2, <1>6, StepsFacts DEF At
  <2>5. /\ ctx'.regs[24] = ctx.regs[0] /\ ctx'.regs[25] = ctx.regs[1]
        /\ ctx'.regs[16] = ctx.regs[16] /\ ctx'.regs[17] = ctx.regs[17]
        /\ ctx'.regs[18] = ctx.regs[18] /\ ctx'.regs[19] = ctx.regs[19]
    BY <2>3, <2>4, RegNumbers
  <2>6. Operands4'
    BY <1>6, <2>3, <2>5 DEF Operands4, Loaded
  <2> QED
    BY <1>0, <1>6, <2>3, <2>5, <2>6 DEF MultiplyInv, At, Low24
<1>7. CASE At(6) /\ Operands4 /\ Low24 /\ ctx.regs[25] = Hi(P1)
  <2>1. ctx.regs[16] * ctx.regs[19] = P2
    BY <1>7 DEF Operands4, P2
  <2>2. /\ status' = "running" /\ ctx'.pc = 6 + 1 /\ flash' = flash
        /\ ctx'.regs[0] = Lo(P2) /\ Operands4'
        /\ ctx'.regs[24] = ctx.regs[24] /\ ctx'.regs[25] = ctx.regs[25]
    BY <1>2, <1>7, <2>1, MulAt, RegNumbers DEF At
  <2> QED
    BY <1>0, <1>7, <2>2 DEF MultiplyInv, At, Low24
<1>8. CASE At(7) /\ Operands4 /\ Low24 /\ ctx.regs[25] = Hi(P1) /\ ctx.regs[0] = Lo(P2)
  <2>1. /\ status' = "running" /\ ctx'.pc = 7 + 1 /\ flash' = flash /\ Operands4'
        /\ ctx'.regs[24] = ctx.regs[24] /\ ctx'.regs[25] = Wrap8(Hi(P1) + Lo(P2))
    BY <1>2, <1>8, AddsUp DEF At
  <2> QED
    BY <1>0, <1>8, <2>1 DEF MultiplyInv, At, Low24
<1>9. CASE At(8) /\ Operands4 /\ Low24 /\ ctx.regs[25] = Wrap8(Hi(P1) + Lo(P2))
  <2>1. ctx.regs[17] * ctx.regs[18] = P3
    BY <1>9 DEF Operands4, P3
  <2>2. /\ status' = "running" /\ ctx'.pc = 8 + 1 /\ flash' = flash
        /\ ctx'.regs[0] = Lo(P3) /\ Operands4'
        /\ ctx'.regs[24] = ctx.regs[24] /\ ctx'.regs[25] = ctx.regs[25]
    BY <1>2, <1>9, <2>1, MulAt, RegNumbers DEF At
  <2> QED
    BY <1>0, <1>9, <2>2 DEF MultiplyInv, At, Low24
<1>10. CASE /\ At(9) /\ Operands4 /\ Low24
            /\ ctx.regs[25] = Wrap8(Hi(P1) + Lo(P2)) /\ ctx.regs[0] = Lo(P3)
  <2>1. /\ status' = "running" /\ ctx'.pc = 9 + 1 /\ flash' = flash
        /\ ctx'.regs[24] = Lo(P1)
        /\ ctx'.regs[25] = Wrap8(Wrap8(Hi(P1) + Lo(P2)) + Lo(P3))
    BY <1>2, <1>10, AddsUp DEF At, Low24
  <2>2. WordReg(ctx, 12)' = ProductMod16(A, B)
    <3>1. WordReg(ctx, 12)' = ctx'.regs[24] + 256 * ctx'.regs[25]
      BY DEF WordReg
    <3> QED
      BY <1>3, <2>1, <3>1, ProductArithmetic
  <2> QED
    BY <1>0, <2>1, <2>2 DEF MultiplyInv, At
<1>11. CASE (At(10) \/ Finished) /\ WordReg(ctx, 12) = ProductMod16(A, B)
  <2>1. Ends
    BY <1>2, <1>11, EndStep DEF At
  <2>2. WordReg(ctx, 12)' = WordReg(ctx, 12)
    BY <2>1 DEF Ends, WordReg
  <2> QED
    BY <1>0, <1>11, <2>1, <2>2 DEF MultiplyInv, Ends, Finished
<1> QED
  BY <1>4, <1>5, <1>6, <1>7, <1>8, <1>9, <1>10, <1>11 DEF MultiplyInv

-----------------------------------------------------------------------------
(* All the programs.                                                       *)

ChainsInv == /\ IInv
             /\ Runs(AddChain)      => AddInv
             /\ Runs(SubChain)      => SubInv
             /\ Runs(CompareChain)  => CompareInv
             /\ Runs(SubImmChain)   => SubImmInv
             /\ Runs(NegateChain)   => NegateInv
             /\ Runs(ShiftChain)    => ShiftInv
             /\ Runs(HalveChain)    => HalveInv
             /\ Runs(MultiplyChain) => MultiplyInv

LEMMA ChainsInit == HostInit => ChainsInv
<1> SUFFICES ASSUME HostInit PROVE ChainsInv
  OBVIOUS
<1>1. IInv
  BY InitInv DEF HostInit
<1>2. ctx.pc = 0 /\ status = "running"
  BY DEF HostInit, Init, avrvm_init
<1>3. Loading
  BY <1>2 DEF Loading
<1> QED
  BY <1>1, <1>3 DEF ChainsInv, AddInv, SubInv, CompareInv, SubImmInv, NegateInv, ShiftInv,
                    HalveInv, MultiplyInv

LEMMA SameProgram ==
  ASSUME flash' = flash, NEW chain
  PROVE  Runs(chain)' <=> Runs(chain)
  BY DEF Runs, LoadsInto, Follows

LEMMA ChainsStep == ChainsInv /\ [HostNext]_hostvars => ChainsInv'
<1> SUFFICES ASSUME ChainsInv, [HostNext]_hostvars PROVE ChainsInv'
  OBVIOUS
<1>1. CASE run_bin
  <2>1. IInv' /\ flash' = flash
    BY <1>1, ExecInv, FlashKept DEF run_bin, ChainsInv
  <2>2. /\ Runs(AddChain)      => AddInv'
        /\ Runs(SubChain)      => SubInv'
        /\ Runs(CompareChain)  => CompareInv'
        /\ Runs(SubImmChain)   => SubImmInv'
    BY <1>1, AddChainStep, SubChainStep, CompareChainStep, SubImmChainStep DEF ChainsInv
  <2>3. /\ Runs(NegateChain)   => NegateInv'
        /\ Runs(ShiftChain)    => ShiftInv'
        /\ Runs(HalveChain)    => HalveInv'
        /\ Runs(MultiplyChain) => MultiplyInv'
    BY <1>1, NegateChainStep, ShiftChainStep, HalveChainStep, MultiplyChainStep DEF ChainsInv
  <2>4. /\ Runs(AddChain)' <=> Runs(AddChain)
        /\ Runs(SubChain)' <=> Runs(SubChain)
        /\ Runs(CompareChain)' <=> Runs(CompareChain)
        /\ Runs(SubImmChain)' <=> Runs(SubImmChain)
        /\ Runs(NegateChain)' <=> Runs(NegateChain)
        /\ Runs(ShiftChain)' <=> Runs(ShiftChain)
        /\ Runs(HalveChain)' <=> Runs(HalveChain)
        /\ Runs(MultiplyChain)' <=> Runs(MultiplyChain)
    BY <2>1, SameProgram
  <2> QED
    BY <2>1, <2>2, <2>3, <2>4 DEF ChainsInv
<1>2. CASE UNCHANGED hostvars
  <2>1. UNCHANGED << flash, ctx, rc, status >>
    BY <1>2 DEF hostvars
  <2>2. /\ Runs(AddChain)' <=> Runs(AddChain)
        /\ Runs(SubChain)' <=> Runs(SubChain)
        /\ Runs(CompareChain)' <=> Runs(CompareChain)
        /\ Runs(SubImmChain)' <=> Runs(SubImmChain)
        /\ Runs(NegateChain)' <=> Runs(NegateChain)
        /\ Runs(ShiftChain)' <=> Runs(ShiftChain)
        /\ Runs(HalveChain)' <=> Runs(HalveChain)
        /\ Runs(MultiplyChain)' <=> Runs(MultiplyChain)
    BY <2>1, SameProgram
  <2>3. IInv' <=> IInv
    BY <2>1 DEF IInv, TypeOK
  <2>4. /\ Loading' <=> Loading
        /\ \A n : (At(n)' <=> At(n)) /\ Loaded(n)' = Loaded(n)
        /\ Finished' <=> Finished
    BY <2>1 DEF Loading, At, Finished, Loaded
  <2>5. A' = A /\ B' = B /\ Answer' = Answer /\ SignedA' = SignedA /\ SignedB' = SignedB
    BY <2>1 DEF A, B, Answer, WordReg, SignedA, SignedB, Loaded
  <2>6. (AddInv' <=> AddInv) /\ (SubInv' <=> SubInv) /\ (CompareInv' <=> CompareInv)
    BY <2>1, <2>4, <2>5 DEF AddInv, SubInv, CompareInv, Sums
  <2>7. (SubImmInv' <=> SubImmInv) /\ (NegateInv' <=> NegateInv) /\ (ShiftInv' <=> ShiftInv)
    BY <2>1, <2>4, <2>5 DEF SubImmInv, NegateInv, ShiftInv, Negates, Shifted
  <2>8. (HalveInv' <=> HalveInv) /\ (MultiplyInv' <=> MultiplyInv)
    BY <2>1, <2>4, <2>5 DEF HalveInv, MultiplyInv, Operands4, Low24, P1, P2, P3, WordReg
  <2> QED
    BY <2>2, <2>3, <2>6, <2>7, <2>8 DEF ChainsInv
<1> QED
  BY <1>1, <1>2 DEF HostNext, Over

(* When a program ends, only the last disjunct of its invariant is left.   *)
LEMMA AtTheEnd ==
  ASSUME ChainsInv, Finished
  PROVE  /\ Runs(AddChain)      => Sums
         /\ Runs(SubChain)      => Compares(ctx.sreg, A, B) /\ Answer = Wrap16(A - B)
         /\ Runs(CompareChain)  => Compares(ctx.sreg, A, B) /\ Answer = A
         /\ Runs(SubImmChain)   => Compares(ctx.sreg, A, 32769) /\ Answer = Wrap16(A - 32769)
         /\ Runs(NegateChain)   => Negates
         /\ Runs(ShiftChain)    => Shifted
         /\ Runs(HalveChain)    => Answer = Wrap16(SignedA \div 2)
         /\ Runs(MultiplyChain) => WordReg(ctx, 12) = ProductMod16(A, B)
<1>1. ~Loading /\ \A n : ~At(n)
  BY DEF Finished, Loading, At
<1>2. /\ Runs(AddChain)      => Sums
      /\ Runs(SubChain)      => Compares(ctx.sreg, A, B) /\ Answer = Wrap16(A - B)
      /\ Runs(CompareChain)  => Compares(ctx.sreg, A, B) /\ Answer = A
      /\ Runs(SubImmChain)   => Compares(ctx.sreg, A, 32769) /\ Answer = Wrap16(A - 32769)
  BY <1>1 DEF ChainsInv, AddInv, SubInv, CompareInv, SubImmInv
<1>3. /\ Runs(NegateChain)   => Negates
      /\ Runs(ShiftChain)    => Shifted
      /\ Runs(HalveChain)    => Answer = Wrap16(SignedA \div 2)
      /\ Runs(MultiplyChain) => WordReg(ctx, 12) = ProductMod16(A, B)
  BY <1>1 DEF ChainsInv, NegateInv, ShiftInv, HalveInv, MultiplyInv
<1> QED
  BY <1>2, <1>3

LEMMA ChainsAlways == HostSpec => []ChainsInv
  BY ChainsInit, ChainsStep, PTL DEF HostSpec

(* add and adc add any two 16-bit numbers, and leave the carry and the     *)
(* sign of the exact signed sum in the flags.                              *)
THEOREM WideSumRight == HostSpec => []WideSum
<1>1. ChainsInv => WideSum
  BY AtTheEnd DEF WideSum, Sums
<1> QED
  BY <1>1, ChainsAlways, PTL

(* sub and sbc, cp and cpc, subi and sbci compare any two 16-bit numbers:  *)
(* C is the unsigned order, S the signed one, and Z, which the second      *)
(* instruction may only clear, equality.                                   *)
THEOREM WideCompareRight == HostSpec => []WideCompare
<1>1. \A x, y : Compares(ctx.sreg, x, y) => FlagsCompare(x, y)
  BY DEF Compares, FlagsCompare
<1>2. ChainsInv => WideCompare
  BY <1>1, AtTheEnd DEF WideCompare
<1> QED
  BY <1>2, ChainsAlways, PTL

(* com, neg and sbci negate, lsr and ror halve, asr and ror halve a signed *)
(* number, whatever the number.                                            *)
THEOREM WideUnaryRight == HostSpec => []WideUnary
<1>1. ChainsInv => WideUnary
  BY AtTheEnd DEF WideUnary, Negates, Shifted
<1> QED
  BY <1>1, ChainsAlways, PTL

(* Three mul, with what movw and add make of them, are the low half of the *)
(* product of any two 16-bit numbers.                                      *)
THEOREM WideProductRight == HostSpec => []WideProduct
<1>1. ChainsInv => WideProduct
  BY AtTheEnd DEF WideProduct
<1> QED
  BY <1>1, ChainsAlways, PTL

-----------------------------------------------------------------------------
(* Loops: loading the counter, and what all of them share.                 *)

Counter == ctx.regs[24] + 256 * ctx.regs[25]

LoopLoading ==
  /\ status = "running"
  /\ ctx.pc \in 0 .. 2
  /\ steps = ctx.pc
  /\ ctx.pc > 0 => ctx.regs[24] = Low
  /\ ctx.pc > 1 => ctx.regs[25] = High

LEMMA CounterBytes ==
  ASSUME IInv, NEW loop, IsLoop(loop), NEW len, Sized(loop, len)
  PROVE  Low \in Byte /\ High \in Byte /\ Start \in Word
<1>1. 2 < FlashWords /\ FlashWords \in Int
  BY FlashAssumption DEF IsLoop, Follows, Sized
<1>2. Low \in Byte /\ High \in Byte
  BY <1>1, LoadedBytes DEF Low, High
<1>3. Low + 256 * High \in Word
  BY <1>2, ByteRange, WordRange
<1> QED
  BY <1>2, <1>3 DEF Start

LEMMA LoopLoadStep ==
  ASSUME IInv, run_bin, NEW loop, IsLoop(loop), NEW len, Sized(loop, len),
         LoopLoading, ctx.pc # 2
  PROVE  LoopLoading'
<1>1. Follows(2, loop) /\ 2 \in Nat /\ 1 \in 1 .. 2 /\ 2 \in 1 .. 2
      /\ LoadsInto(24, 1) /\ LoadsInto(25, 2)
  BY DEF IsLoop
<1>2. CASE ctx.pc = 0
  <2>1. GoesOn([ctx.regs EXCEPT ![24] = Loaded(1)], ctx.sreg)
    <3>1. ctx.pc = 1 - 1
      BY <1>2
    <3> QED
      BY <1>1, <3>1, LoadStep, RegNumbers
  <2>2. Steps
    <3>1. ctx.pc = 1 - 1
      BY <1>2
    <3> QED
      BY <1>1, <3>1, Fetches
  <2>3. /\ status' = "running" /\ ctx'.pc = 1 /\ flash' = flash /\ ctx'.regs[24] = Loaded(1)
        /\ steps' = steps + 1
    BY <1>2, <2>1, <2>2, Stores1, RegNumbers DEF GoesOn, GoesOnBy
  <2> QED
    BY <1>2, <2>3 DEF LoopLoading, Low, Loaded
<1>3. CASE ctx.pc = 1
  <2>1. GoesOn([ctx.regs EXCEPT ![25] = Loaded(2)], ctx.sreg)
    <3>1. ctx.pc = 2 - 1
      BY <1>3
    <3> QED
      BY <1>1, <3>1, LoadStep, RegNumbers
  <2>2. Steps
    <3>1. ctx.pc = 2 - 1
      BY <1>3
    <3> QED
      BY <1>1, <3>1, Fetches
  <2>3. /\ status' = "running" /\ ctx'.pc = 2 /\ flash' = flash /\ ctx'.regs[25] = Loaded(2)
        /\ ctx'.regs[24] = ctx.regs[24] /\ steps' = steps + 1
    BY <1>3, <2>1, <2>2, Stores1, RegNumbers DEF GoesOn, GoesOnBy
  <2> QED
    BY <1>3, <2>3 DEF LoopLoading, Low, High, Loaded
<1> QED
  BY <1>2, <1>3 DEF LoopLoading

LEMMA LoopStarts ==
  ASSUME LoopLoading, ctx.pc = 2
  PROVE  At(2) /\ steps = 2 /\ ctx.regs[24] = Low /\ ctx.regs[25] = High /\ Counter = Start
  BY DEF LoopLoading, At, Counter, Start

(* The branch back to the start of the loop.                               *)
LEMMA BackStep ==
  ASSUME Steps, NEW f, NEW off \in Int, Written(opcode) = << "brbc", f, off >>,
         NEW p, ctx.pc = p, p + 1 + off = 2
  PROVE  /\ status' = "running" /\ steps' = steps + 1 /\ flash' = flash
         /\ ctx'.regs = ctx.regs /\ Counter' = Counter
         /\ f \in ctx.sreg => ctx'.pc = p + 1
         /\ f \notin ctx.sreg => ctx'.pc = 2
<1>1. ctx.pc \in Int
  BY StepsFacts
<1>2. ctx.pc + 1 + off \in Word /\ ctx.pc + (1 + off) = 2
  BY <1>1, WordRange
<1>3. IF f \in ctx.sreg THEN GoesOn(ctx.regs, ctx.sreg)
                        ELSE GoesOnBy(1 + off, ctx.regs, ctx.sreg)
  BY <1>2, BranchStep
<1> QED
  BY <1>2, <1>3 DEF GoesOn, GoesOnBy, Counter

LEMMA LoopEnds ==
  ASSUME IInv, run_bin, NEW n, At(n), ctx.pc = n => instr = "break"
  PROVE  Finished' /\ steps' = steps + 1 /\ flash' = flash
  BY BreakStep DEF At, Finished

-----------------------------------------------------------------------------
(* Loops that count with adiw or sbiw.                                     *)

LEMMA CountsByWord ==
  ASSUME Steps, NEW i \in WordImm, NEW k \in 0 .. 63, Written(opcode) = << i, 12, k >>,
         NEW w \in Word, Counter = w
  PROVE  LET v == Wrap16(IF i = "adiw" THEN w + k ELSE w - k)
         IN  /\ status' = "running" /\ steps' = steps + 1 /\ flash' = flash
             /\ ctx'.pc = ctx.pc + 1
             /\ Counter' = v /\ (F_Z \in ctx'.sreg <=> v = 0)
<1> DEFINE n   == 12
           by  == IF i = "adiw" THEN k ELSE 0 - k
           out == WordSum(Pair(2 * n), by, ctx.sreg)
           v   == Wrap16(IF i = "adiw" THEN w + k ELSE w - k)
<1>1. GoesOn([ctx.regs EXCEPT ![2 * n] = Lo(out.res), ![2 * n + 1] = Hi(out.res)], out.sreg)
  <2>1. n \in 0 .. 15 /\ Written(opcode) = << i, n, k >>
    OBVIOUS
  <2> HIDE DEF n
  <2> QED
    BY <2>1, WordImmStep
<1>2. 2 * n = 24 /\ 2 * n + 1 = 25
  OBVIOUS
<1>3. Pair(2 * n) = w
  BY <1>2 DEF Pair, Counter
<1>4. w + by = IF i = "adiw" THEN w + k ELSE w - k
  BY WordRange
<1>5. out.res = v /\ (F_Z \in out.sreg <=> v = 0)
  <2> HIDE DEF n, by
  <2> QED
    BY <1>3, <1>4, WordSumFlags
<1>6. v \in Word /\ Lo(v) + 256 * Hi(v) = v
  <2> DEFINE x == IF i = "adiw" THEN w + k ELSE w - k
  <2>1. x \in Int
    BY WordRange
  <2> HIDE DEF x
  <2>2. Wrap16(x) \in Word /\ Lo(Wrap16(x)) + 256 * Hi(Wrap16(x)) = Wrap16(x)
    BY <2>1, WordRange, SMT DEF Wrap16, Lo, Hi
  <2> QED
    BY <2>2 DEF x
<1> HIDE DEF n, by, out, v
<1>7. /\ status' = "running" /\ steps' = steps + 1 /\ flash' = flash /\ ctx'.pc = ctx.pc + 1
      /\ ctx'.sreg = out.sreg
      /\ ctx'.regs = [ctx.regs EXCEPT ![24] = Lo(v), ![25] = Hi(v)]
  BY <1>1, <1>2, <1>5 DEF GoesOn, GoesOnBy
<1>8. ctx'.regs[24] = Lo(v) /\ ctx'.regs[25] = Hi(v)
  BY <1>7, StepsFacts, RegNumbers
<1> QED
  BY <1>5, <1>6, <1>7, <1>8 DEF Counter, v

(* A counter that goes down is zero after as many turns as it counts.      *)
LEMMA CountsDown ==
  ASSUME NEW w \in Word, NEW m \in Nat, m < Nonzero(w, 65536)
  PROVE  /\ Wrap16(w - m) \in Word
         /\ Wrap16(Wrap16(w - m) - 1) = Wrap16(w - (m + 1))
         /\ Wrap16(w - (m + 1)) = 0 <=> m + 1 = Nonzero(w, 65536)
         /\ Wrap16(w - m) = 1 <=> m + 1 = Nonzero(w, 65536)
<1>1. w \in Int /\ 0 <= w /\ w <= 65535 /\ m \in Int /\ 0 <= m
  BY WordRange
<1>2. CASE w = 0
  BY <1>1, <1>2, WordRange, SMT DEF Nonzero, Wrap16
<1>3. CASE w # 0
  BY <1>1, <1>3, WordRange, SMT DEF Nonzero, Wrap16
<1> QED
  BY <1>2, <1>3

(* And one that goes up, after as many as it lacks.                        *)
LEMMA CountsUp ==
  ASSUME NEW w \in Word, NEW m \in Nat, m < 65536 - w
  PROVE  /\ Wrap16(w + m) \in Word
         /\ Wrap16(Wrap16(w + m) + 1) = Wrap16(w + (m + 1))
         /\ Wrap16(w + (m + 1)) = 0 <=> m + 1 = 65536 - w
<1>1. w \in Int /\ 0 <= w /\ w <= 65535 /\ m \in Int /\ 0 <= m
  BY WordRange
<1> QED
  BY <1>1, WordRange, SMT DEF Wrap16

SbiwTurns == Nonzero(Start, 65536)

SbiwAt2 == \E m \in Nat : /\ m < SbiwTurns /\ At(2) /\ steps = 2 + 2 * m
                          /\ Counter = Wrap16(Start - m)
SbiwAt3 == \E m \in Nat : /\ m < SbiwTurns /\ At(3) /\ steps = 3 + 2 * m
                          /\ Counter = Wrap16(Start - (m + 1))
                          /\ F_Z \in ctx.sreg <=> m + 1 = SbiwTurns

SbiwInv ==
  \/ LoopLoading \/ SbiwAt2 \/ SbiwAt3
  \/ At(4) /\ steps = 2 + 2 * SbiwTurns
  \/ Finished /\ steps = 3 + 2 * SbiwTurns

LEMMA SbiwLoopStep ==
  ASSUME IInv, run_bin, IsLoop(SbiwLoop), SbiwInv
  PROVE  SbiwInv'
<1>1. Sized(SbiwLoop, 2) /\ Follows(2, SbiwLoop) /\ 2 \in Nat /\ 2 + 2 = 4
  BY DEF SbiwLoop, IsLoop, Sized
<1>2. /\ ctx.pc = 2 => Steps /\ Written(opcode) = << "sbiw", 12, 1 >>
      /\ ctx.pc = 3 => Steps /\ Written(opcode) = << "brbc", F_Z, -2 >>
      /\ ctx.pc = 4 => instr = "break"
  <2>1. ASSUME ctx.pc = 2 PROVE Steps /\ Written(opcode) = << "sbiw", 12, 1 >>
    <3>1. Place(2, SbiwLoop, 2, << "sbiw", 12, 1 >>)
      BY DEF Place, SbiwLoop
    <3> QED
      BY <1>1, <2>1, <3>1, AtPlace
  <2>2. ASSUME ctx.pc = 3 PROVE Steps /\ Written(opcode) = << "brbc", F_Z, -2 >>
    <3>1. Place(2, SbiwLoop, 3, << "brbc", F_Z, -2 >>)
      BY DEF Place, SbiwLoop
    <3> QED
      BY <1>1, <2>2, <3>1, AtPlace
  <2>3. ctx.pc = 4 => instr = "break"
    BY <1>1, AtEnd
  <2> QED
    BY <2>1, <2>2, <2>3
<1>3. Low \in Byte /\ High \in Byte /\ Start \in Word
  BY <1>1, CounterBytes
<1>t. SbiwTurns \in Int
  BY <1>3, WordRange DEF SbiwTurns, Nonzero
<1>0. flash' = flash => Low' = Low /\ High' = High /\ Start' = Start /\ SbiwTurns' = SbiwTurns
  BY DEF Start, Low, High, Loaded, SbiwTurns
<1>4. CASE LoopLoading /\ ctx.pc # 2
  BY <1>1, <1>4, LoopLoadStep DEF SbiwInv
<1>5. CASE (LoopLoading /\ ctx.pc = 2) \/ SbiwAt2
  <2>1. PICK m \in Nat : /\ m < SbiwTurns /\ At(2) /\ steps = 2 + 2 * m
                         /\ Counter = Wrap16(Start - m)
    <3>1. CASE LoopLoading /\ ctx.pc = 2
      <4>1. 0 < SbiwTurns /\ Wrap16(Start - 0) = Start
        BY <1>3, WordRange, SMT DEF SbiwTurns, Nonzero, Wrap16
      <4> QED
        BY <3>1, <4>1, LoopStarts
    <3> QED
      BY <1>5, <3>1 DEF SbiwAt2
  <2> DEFINE w == Wrap16(Start - m)
  <2>2. w \in Word /\ Wrap16(w - 1) = Wrap16(Start - (m + 1))
        /\ (Wrap16(Start - (m + 1)) = 0 <=> m + 1 = SbiwTurns)
    BY <1>3, <2>1, CountsDown DEF SbiwTurns
  <2> HIDE DEF w
  <2>3. /\ status' = "running" /\ steps' = steps + 1 /\ flash' = flash /\ ctx'.pc = ctx.pc + 1
        /\ Counter' = Wrap16(w - 1) /\ (F_Z \in ctx'.sreg <=> Wrap16(w - 1) = 0)
    <3>1. Steps /\ Written(opcode) = << "sbiw", 12, 1 >> /\ Counter = w
      BY <1>2, <2>1 DEF At, w
    <3> DEFINE k == 1
    <3>2. k \in 0 .. 63 /\ "sbiw" \in WordImm /\ Written(opcode) = << "sbiw", 12, k >>
      BY <3>1 DEF WordImm
    <3> HIDE DEF k
    <3>3. LET v == Wrap16(IF "sbiw" = "adiw" THEN w + k ELSE w - k)
          IN  /\ status' = "running" /\ steps' = steps + 1 /\ flash' = flash
              /\ ctx'.pc = ctx.pc + 1
              /\ Counter' = v /\ (F_Z \in ctx'.sreg <=> v = 0)
      BY <2>2, <3>1, <3>2, CountsByWord
    <3> QED
      BY <3>3 DEF k
  <2>4. /\ At(3)' /\ steps' = 3 + 2 * m /\ m < SbiwTurns'
        /\ Counter' = Wrap16(Start' - (m + 1))
        /\ (F_Z \in ctx'.sreg <=> m + 1 = SbiwTurns')
    BY <1>0, <2>1, <2>2, <2>3 DEF At
  <2> QED
    BY <2>4 DEF SbiwInv, SbiwAt3
<1>6. CASE SbiwAt3
  <2>1. PICK m \in Nat : /\ m < SbiwTurns /\ At(3) /\ steps = 3 + 2 * m
                         /\ Counter = Wrap16(Start - (m + 1))
                         /\ F_Z \in ctx.sreg <=> m + 1 = SbiwTurns
    BY <1>6 DEF SbiwAt3
  <2>2. /\ status' = "running" /\ steps' = steps + 1 /\ flash' = flash
        /\ ctx'.regs = ctx.regs /\ Counter' = Counter
        /\ F_Z \in ctx.sreg => ctx'.pc = 4
        /\ F_Z \notin ctx.sreg => ctx'.pc = 2
    <3>1. Steps /\ Written(opcode) = << "brbc", F_Z, -2 >> /\ ctx.pc = 3
      BY <1>2, <2>1 DEF At
    <3>2. -2 \in Int /\ 3 + 1 + (-2) = 2 /\ 3 + 1 = 4
      OBVIOUS
    <3> QED
      BY <3>1, <3>2, BackStep
  <2>3. CASE F_Z \in ctx.sreg
    <3>1. At(4)' /\ steps' = 2 + 2 * SbiwTurns'
      BY <1>0, <1>t, <2>1, <2>2, <2>3 DEF At
    <3> QED
      BY <3>1 DEF SbiwInv
  <2>4. CASE F_Z \notin ctx.sreg
    <3>1. PICK k \in Nat : k = m + 1
      OBVIOUS
    <3>2. k < SbiwTurns' /\ At(2)' /\ steps' = 2 + 2 * k
      BY <1>0, <1>t, <2>1, <2>2, <2>4, <3>1 DEF At
    <3>3. Counter' = Wrap16(Start' - k)
      BY <1>0, <2>1, <2>2, <3>1
    <3> QED
      BY <3>2, <3>3 DEF SbiwInv, SbiwAt2
  <2> QED
    BY <2>3, <2>4
<1>7. CASE At(4) /\ steps = 2 + 2 * SbiwTurns
  <2>1. Finished' /\ steps' = steps + 1 /\ flash' = flash
    BY <1>2, <1>7, LoopEnds
  <2> QED
    BY <1>0, <1>t, <1>7, <2>1 DEF SbiwInv
<1>8. ~Finished
  BY DEF Finished, run_bin
<1> QED
  BY <1>4, <1>5, <1>6, <1>7, <1>8 DEF SbiwInv

AdiwTurns == 65536 - Start

AdiwAt2 == \E m \in Nat : /\ m < AdiwTurns /\ At(2) /\ steps = 2 + 2 * m
                          /\ Counter = Wrap16(Start + m)
AdiwAt3 == \E m \in Nat : /\ m < AdiwTurns /\ At(3) /\ steps = 3 + 2 * m
                          /\ Counter = Wrap16(Start + (m + 1))
                          /\ F_Z \in ctx.sreg <=> m + 1 = AdiwTurns

AdiwInv ==
  \/ LoopLoading \/ AdiwAt2 \/ AdiwAt3
  \/ At(4) /\ steps = 2 + 2 * AdiwTurns
  \/ Finished /\ steps = 3 + 2 * AdiwTurns

LEMMA AdiwLoopStep ==
  ASSUME IInv, run_bin, IsLoop(AdiwLoop), AdiwInv
  PROVE  AdiwInv'
<1>1. Sized(AdiwLoop, 2) /\ Follows(2, AdiwLoop) /\ 2 \in Nat /\ 2 + 2 = 4
  BY DEF AdiwLoop, IsLoop, Sized
<1>2. /\ ctx.pc = 2 => Steps /\ Written(opcode) = << "adiw", 12, 1 >>
      /\ ctx.pc = 3 => Steps /\ Written(opcode) = << "brbc", F_Z, -2 >>
      /\ ctx.pc = 4 => instr = "break"
  <2>1. ASSUME ctx.pc = 2 PROVE Steps /\ Written(opcode) = << "adiw", 12, 1 >>
    <3>1. Place(2, AdiwLoop, 2, << "adiw", 12, 1 >>)
      BY DEF Place, AdiwLoop
    <3> QED
      BY <1>1, <2>1, <3>1, AtPlace
  <2>2. ASSUME ctx.pc = 3 PROVE Steps /\ Written(opcode) = << "brbc", F_Z, -2 >>
    <3>1. Place(2, AdiwLoop, 3, << "brbc", F_Z, -2 >>)
      BY DEF Place, AdiwLoop
    <3> QED
      BY <1>1, <2>2, <3>1, AtPlace
  <2>3. ctx.pc = 4 => instr = "break"
    BY <1>1, AtEnd
  <2> QED
    BY <2>1, <2>2, <2>3
<1>3. Low \in Byte /\ High \in Byte /\ Start \in Word
  BY <1>1, CounterBytes
<1>t. AdiwTurns \in Int
  BY <1>3, WordRange DEF AdiwTurns, Nonzero
<1>0. flash' = flash => Low' = Low /\ High' = High /\ Start' = Start /\ AdiwTurns' = AdiwTurns
  BY DEF Start, Low, High, Loaded, AdiwTurns
<1>4. CASE LoopLoading /\ ctx.pc # 2
  BY <1>1, <1>4, LoopLoadStep DEF AdiwInv
<1>5. CASE (LoopLoading /\ ctx.pc = 2) \/ AdiwAt2
  <2>1. PICK m \in Nat : /\ m < AdiwTurns /\ At(2) /\ steps = 2 + 2 * m
                         /\ Counter = Wrap16(Start + m)
    <3>1. CASE LoopLoading /\ ctx.pc = 2
      <4>1. 0 < AdiwTurns /\ Wrap16(Start + 0) = Start
        BY <1>3, WordRange, SMT DEF AdiwTurns, Nonzero, Wrap16
      <4> QED
        BY <3>1, <4>1, LoopStarts
    <3> QED
      BY <1>5, <3>1 DEF AdiwAt2
  <2> DEFINE w == Wrap16(Start + m)
  <2>2. w \in Word /\ Wrap16(w + 1) = Wrap16(Start + (m + 1))
        /\ (Wrap16(Start + (m + 1)) = 0 <=> m + 1 = AdiwTurns)
    BY <1>3, <2>1, CountsUp DEF AdiwTurns
  <2> HIDE DEF w
  <2>3. /\ status' = "running" /\ steps' = steps + 1 /\ flash' = flash /\ ctx'.pc = ctx.pc + 1
        /\ Counter' = Wrap16(w + 1) /\ (F_Z \in ctx'.sreg <=> Wrap16(w + 1) = 0)
    <3>1. Steps /\ Written(opcode) = << "adiw", 12, 1 >> /\ Counter = w
      BY <1>2, <2>1 DEF At, w
    <3> DEFINE k == 1
    <3>2. k \in 0 .. 63 /\ "adiw" \in WordImm /\ Written(opcode) = << "adiw", 12, k >>
      BY <3>1 DEF WordImm
    <3> HIDE DEF k
    <3>3. LET v == Wrap16(IF "adiw" = "adiw" THEN w + k ELSE w - k)
          IN  /\ status' = "running" /\ steps' = steps + 1 /\ flash' = flash
              /\ ctx'.pc = ctx.pc + 1
              /\ Counter' = v /\ (F_Z \in ctx'.sreg <=> v = 0)
      BY <2>2, <3>1, <3>2, CountsByWord
    <3> QED
      BY <3>3 DEF k
  <2>4. /\ At(3)' /\ steps' = 3 + 2 * m /\ m < AdiwTurns'
        /\ Counter' = Wrap16(Start' + (m + 1))
        /\ (F_Z \in ctx'.sreg <=> m + 1 = AdiwTurns')
    BY <1>0, <2>1, <2>2, <2>3 DEF At
  <2> QED
    BY <2>4 DEF AdiwInv, AdiwAt3
<1>6. CASE AdiwAt3
  <2>1. PICK m \in Nat : /\ m < AdiwTurns /\ At(3) /\ steps = 3 + 2 * m
                         /\ Counter = Wrap16(Start + (m + 1))
                         /\ F_Z \in ctx.sreg <=> m + 1 = AdiwTurns
    BY <1>6 DEF AdiwAt3
  <2>2. /\ status' = "running" /\ steps' = steps + 1 /\ flash' = flash
        /\ ctx'.regs = ctx.regs /\ Counter' = Counter
        /\ F_Z \in ctx.sreg => ctx'.pc = 4
        /\ F_Z \notin ctx.sreg => ctx'.pc = 2
    <3>1. Steps /\ Written(opcode) = << "brbc", F_Z, -2 >> /\ ctx.pc = 3
      BY <1>2, <2>1 DEF At
    <3>2. -2 \in Int /\ 3 + 1 + (-2) = 2 /\ 3 + 1 = 4
      OBVIOUS
    <3> QED
      BY <3>1, <3>2, BackStep
  <2>3. CASE F_Z \in ctx.sreg
    <3>1. At(4)' /\ steps' = 2 + 2 * AdiwTurns'
      BY <1>0, <1>t, <2>1, <2>2, <2>3 DEF At
    <3> QED
      BY <3>1 DEF AdiwInv
  <2>4. CASE F_Z \notin ctx.sreg
    <3>1. PICK k \in Nat : k = m + 1
      OBVIOUS
    <3>2. k < AdiwTurns' /\ At(2)' /\ steps' = 2 + 2 * k
      BY <1>0, <1>t, <2>1, <2>2, <2>4, <3>1 DEF At
    <3>3. Counter' = Wrap16(Start' + k)
      BY <1>0, <2>1, <2>2, <3>1
    <3> QED
      BY <3>2, <3>3 DEF AdiwInv, AdiwAt2
  <2> QED
    BY <2>3, <2>4
<1>7. CASE At(4) /\ steps = 2 + 2 * AdiwTurns
  <2>1. Finished' /\ steps' = steps + 1 /\ flash' = flash
    BY <1>2, <1>7, LoopEnds
  <2> QED
    BY <1>0, <1>t, <1>7, <2>1 DEF AdiwInv
<1>8. ~Finished
  BY DEF Finished, run_bin
<1> QED
  BY <1>4, <1>5, <1>6, <1>7, <1>8 DEF AdiwInv
-----------------------------------------------------------------------------
(* The loop that counts with dec.                                          *)

LEMMA CountsDown8 ==
  ASSUME NEW x \in Byte, NEW m \in Nat, m < Nonzero(x, 256)
  PROVE  /\ Wrap8(x - m) \in Byte
         /\ Wrap8(Wrap8(x - m) + (-1)) = Wrap8(x - (m + 1))
         /\ Wrap8(x - (m + 1)) = 0 <=> m + 1 = Nonzero(x, 256)
<1>1. x \in Int /\ 0 <= x /\ x <= 255 /\ m \in Int /\ 0 <= m
  BY ByteRange
<1>2. CASE x = 0
  BY <1>1, <1>2, ByteRange, SMT DEF Nonzero, Wrap8
<1>3. CASE x # 0
  BY <1>1, <1>3, ByteRange, SMT DEF Nonzero, Wrap8
<1> QED
  BY <1>2, <1>3

LEMMA CountsByByte ==
  ASSUME Steps, NEW i \in {"inc", "dec"}, Written(opcode) = << i, 24 >>,
         NEW x, ctx.regs[24] = x
  PROVE  LET v == Wrap8(x + IF i = "inc" THEN 1 ELSE -1)
         IN  /\ status' = "running" /\ steps' = steps + 1 /\ flash' = flash
             /\ ctx'.pc = ctx.pc + 1 /\ ctx'.regs[24] = v /\ ctx'.regs[25] = ctx.regs[25]
             /\ F_Z \in ctx'.sreg <=> v = 0
<1> DEFINE by  == IF i = "inc" THEN 1 ELSE -1
           out == Step(x, by, ctx.sreg)
<1>1. GoesOn([ctx.regs EXCEPT ![24] = out.res], out.sreg)
  BY IncDecStep, RegNumbers
<1>2. out.res = Wrap8(x + by) /\ (F_Z \in out.sreg <=> Wrap8(x + by) = 0)
  <2> HIDE DEF by
  <2> QED
    BY OneRegisterFlags
<1> HIDE DEF out, by
<1>3. /\ status' = "running" /\ ctx'.pc = ctx.pc + 1 /\ flash' = flash /\ ctx'.sreg = out.sreg
      /\ ctx'.regs[24] = out.res /\ ctx'.regs[25] = ctx.regs[25]
  BY <1>1, Stores1, RegNumbers
<1>4. steps' = steps + 1
  BY <1>1 DEF GoesOn, GoesOnBy
<1> QED
  BY <1>2, <1>3, <1>4 DEF by

DecTurns == Nonzero(Low, 256)

DecAt2 == \E m \in Nat : /\ m < DecTurns /\ At(2) /\ steps = 2 + 2 * m
                         /\ ctx.regs[24] = Wrap8(Low - m)
DecAt3 == \E m \in Nat : /\ m < DecTurns /\ At(3) /\ steps = 3 + 2 * m
                         /\ ctx.regs[24] = Wrap8(Low - (m + 1))
                         /\ F_Z \in ctx.sreg <=> m + 1 = DecTurns

DecInv ==
  \/ LoopLoading \/ DecAt2 \/ DecAt3
  \/ At(4) /\ steps = 2 + 2 * DecTurns
  \/ Finished /\ steps = 3 + 2 * DecTurns

LEMMA DecLoopStep ==
  ASSUME IInv, run_bin, IsLoop(DecLoop), DecInv
  PROVE  DecInv'
<1>1. Sized(DecLoop, 2) /\ Follows(2, DecLoop) /\ 2 \in Nat /\ 2 + 2 = 4
  BY DEF DecLoop, IsLoop, Sized
<1>2. /\ ctx.pc = 2 => Steps /\ Written(opcode) = << "dec", 24 >>
      /\ ctx.pc = 3 => Steps /\ Written(opcode) = << "brbc", F_Z, -2 >>
      /\ ctx.pc = 4 => instr = "break"
  <2>1. ASSUME ctx.pc = 2 PROVE Steps /\ Written(opcode) = << "dec", 24 >>
    <3>1. Place(2, DecLoop, 2, << "dec", 24 >>)
      BY DEF Place, DecLoop
    <3> QED
      BY <1>1, <2>1, <3>1, AtPlace
  <2>2. ASSUME ctx.pc = 3 PROVE Steps /\ Written(opcode) = << "brbc", F_Z, -2 >>
    <3>1. Place(2, DecLoop, 3, << "brbc", F_Z, -2 >>)
      BY DEF Place, DecLoop
    <3> QED
      BY <1>1, <2>2, <3>1, AtPlace
  <2>3. ctx.pc = 4 => instr = "break"
    BY <1>1, AtEnd
  <2> QED
    BY <2>1, <2>2, <2>3
<1>3. Low \in Byte /\ High \in Byte /\ Start \in Word
  BY <1>1, CounterBytes
<1>t. DecTurns \in Int
  BY <1>3, ByteRange DEF DecTurns, Nonzero
<1>0. flash' = flash => Low' = Low /\ High' = High /\ Start' = Start /\ DecTurns' = DecTurns
  BY DEF Start, Low, High, Loaded, DecTurns
<1>4. CASE LoopLoading /\ ctx.pc # 2
  BY <1>1, <1>4, LoopLoadStep DEF DecInv
<1>5. CASE (LoopLoading /\ ctx.pc = 2) \/ DecAt2
  <2>1. PICK m \in Nat : /\ m < DecTurns /\ At(2) /\ steps = 2 + 2 * m
                         /\ ctx.regs[24] = Wrap8(Low - m)
    <3>1. CASE LoopLoading /\ ctx.pc = 2
      <4>1. 0 < DecTurns /\ Wrap8(Low - 0) = Low
        BY <1>3, ByteRange, SMT DEF DecTurns, Nonzero, Wrap8
      <4> QED
        BY <3>1, <4>1, LoopStarts
    <3> QED
      BY <1>5, <3>1 DEF DecAt2
  <2> DEFINE x == Wrap8(Low - m)
  <2>2. /\ Wrap8(x + (-1)) = Wrap8(Low - (m + 1))
        /\ Wrap8(Low - (m + 1)) = 0 <=> m + 1 = DecTurns
    BY <1>3, <2>1, CountsDown8 DEF DecTurns
  <2>3. /\ status' = "running" /\ steps' = steps + 1 /\ flash' = flash /\ ctx'.pc = ctx.pc + 1
        /\ ctx'.regs[24] = Wrap8(x + (-1)) /\ (F_Z \in ctx'.sreg <=> Wrap8(x + (-1)) = 0)
    <3>1. Steps /\ Written(opcode) = << "dec", 24 >> /\ ctx.regs[24] = x
      BY <1>2, <2>1 DEF At
    <3> HIDE DEF x
    <3> QED
      BY <3>1, CountsByByte
  <2> HIDE DEF x
  <2>4. /\ At(3)' /\ steps' = 3 + 2 * m /\ m < DecTurns'
        /\ ctx'.regs[24] = Wrap8(Low' - (m + 1))
        /\ (F_Z \in ctx'.sreg <=> m + 1 = DecTurns')
    BY <1>0, <2>1, <2>2, <2>3 DEF At
  <2> QED
    BY <2>4 DEF DecInv, DecAt3
<1>6. CASE DecAt3
  <2>1. PICK m \in Nat : /\ m < DecTurns /\ At(3) /\ steps = 3 + 2 * m
                         /\ ctx.regs[24] = Wrap8(Low - (m + 1))
                         /\ F_Z \in ctx.sreg <=> m + 1 = DecTurns
    BY <1>6 DEF DecAt3
  <2>2. /\ status' = "running" /\ steps' = steps + 1 /\ flash' = flash
        /\ ctx'.regs = ctx.regs /\ Counter' = Counter
        /\ F_Z \in ctx.sreg => ctx'.pc = 4
        /\ F_Z \notin ctx.sreg => ctx'.pc = 2
    <3>1. Steps /\ Written(opcode) = << "brbc", F_Z, -2 >> /\ ctx.pc = 3
      BY <1>2, <2>1 DEF At
    <3>2. -2 \in Int /\ 3 + 1 + (-2) = 2 /\ 3 + 1 = 4
      OBVIOUS
    <3> QED
      BY <3>1, <3>2, BackStep
  <2>3. CASE F_Z \in ctx.sreg
    <3>1. At(4)' /\ steps' = 2 + 2 * DecTurns'
      BY <1>0, <1>t, <2>1, <2>2, <2>3 DEF At
    <3> QED
      BY <3>1 DEF DecInv
  <2>4. CASE F_Z \notin ctx.sreg
    <3>1. PICK k \in Nat : k = m + 1
      OBVIOUS
    <3>2. k < DecTurns' /\ At(2)' /\ steps' = 2 + 2 * k
      BY <1>0, <1>t, <2>1, <2>2, <2>4, <3>1 DEF At
    <3>3. ctx'.regs[24] = Wrap8(Low' - k)
      BY <1>0, <2>1, <2>2, <3>1
    <3> QED
      BY <3>2, <3>3 DEF DecInv, DecAt2
  <2> QED
    BY <2>3, <2>4
<1>7. CASE At(4) /\ steps = 2 + 2 * DecTurns
  <2>1. Finished' /\ steps' = steps + 1 /\ flash' = flash
    BY <1>2, <1>7, LoopEnds
  <2> QED
    BY <1>0, <1>t, <1>7, <2>1 DEF DecInv
<1>8. ~Finished
  BY DEF Finished, run_bin
<1> QED
  BY <1>4, <1>5, <1>6, <1>7, <1>8 DEF DecInv

-----------------------------------------------------------------------------
(* Loops that count with subi and sbci.                                    *)

(* The low byte of w is counted down, the high byte not yet.               *)
Borrowing(w) == /\ LowFlags(ctx.sreg, Lo(w), 1)
                /\ ctx.regs[24] = Wrap8(Lo(w) - 1) /\ ctx.regs[25] = Hi(w)

LEMMA WordBytes ==
  ASSUME NEW x \in Byte, NEW y \in Byte
  PROVE  Lo(x + 256 * y) = x /\ Hi(x + 256 * y) = y
<1>1. x \in Int /\ 0 <= x /\ x <= 255 /\ y \in Int /\ 0 <= y /\ y <= 255
  BY ByteRange
<1> QED
  BY <1>1, SMT DEF Lo, Hi

LEMMA BytesOfWord ==
  ASSUME NEW w \in Word
  PROVE  Lo(w) \in Byte /\ Hi(w) \in Byte /\ Lo(w) + 256 * Hi(w) = w
<1>1. w \in Int /\ 0 <= w /\ w <= 65535
  BY WordRange
<1> QED
  BY <1>1, ByteRange, SMT DEF Lo, Hi

LEMMA Borrows ==
  ASSUME Steps, Written(opcode) = << "subi", 24, 1 >>, NEW w, Counter = w
  PROVE  /\ status' = "running" /\ steps' = steps + 1 /\ flash' = flash
         /\ ctx'.pc = ctx.pc + 1 /\ Borrowing(w)'
<1> DEFINE x   == ctx.regs[24]
           out == Subtraction("subi", x, 1)
<1>1. x \in Byte /\ ctx.regs[25] \in Byte /\ 1 \in Byte
  BY StepsFacts, RegNumbers, ByteRange
<1>2. Lo(w) = x /\ Hi(w) = ctx.regs[25]
  BY <1>1, WordBytes DEF Counter
<1>3. GoesOn([ctx.regs EXCEPT ![24] = out.res], out.sreg)
  BY <1>1, SubImmStep, RegNumbers
<1>4. LowFlags(out.sreg, x, 1) /\ out.res = Wrap8(x - 1)
  BY <1>1, LowStep
<1> HIDE DEF x, out
<1>5. /\ status' = "running" /\ ctx'.pc = ctx.pc + 1 /\ flash' = flash /\ ctx'.sreg = out.sreg
      /\ ctx'.regs[24] = out.res /\ ctx'.regs[25] = ctx.regs[25]
  BY <1>3, Stores1, RegNumbers
<1>6. steps' = steps + 1
  BY <1>3 DEF GoesOn, GoesOnBy
<1> QED
  BY <1>2, <1>4, <1>5, <1>6 DEF Borrowing

LEMMA GivesBack ==
  ASSUME Steps, Written(opcode) = << "sbci", 25, 0 >>, NEW w \in Word, Borrowing(w)
  PROVE  /\ status' = "running" /\ steps' = steps + 1 /\ flash' = flash
         /\ ctx'.pc = ctx.pc + 1 /\ Counter' = Wrap16(w - 1)
         /\ F_Z \in ctx'.sreg <=> w = 1
         /\ F_C \in ctx'.sreg <=> w < 1
<1> DEFINE a0  == Lo(w)
           a1  == Hi(w)
           one == 1
           nil == 0
           out == Subtraction("sbci", a1, nil)
<1>1. a0 \in Byte /\ a1 \in Byte /\ a0 + 256 * a1 = w
  BY BytesOfWord
<1>2. one \in Byte /\ nil \in Byte /\ one + 256 * nil = 1
  BY ByteRange
<1>3. LowFlags(ctx.sreg, a0, one) /\ ctx.regs[25] = a1 /\ ctx.regs[24] = Wrap8(a0 - one)
      /\ Written(opcode) = << "sbci", 25, nil >>
  BY DEF Borrowing
<1> HIDE DEF a0, a1, one, nil
<1>4. GoesOn([ctx.regs EXCEPT ![25] = out.res], out.sreg)
  <2>1. 25 \in RegIndex /\ "sbci" \in {"subi", "sbci"}
    BY RegNumbers
  <2> QED
    BY <2>1, <1>2, <1>3, SubImmStep, SMTT(30)
<1>5. /\ Compares(out.sreg, a0 + 256 * a1, one + 256 * nil)
      /\ Wrap8(a0 - one) + 256 * out.res = Wrap16((a0 + 256 * a1) - (one + 256 * nil))
  BY <1>1, <1>2, <1>3, HighStep
<1> HIDE DEF out
<1>6. /\ status' = "running" /\ ctx'.pc = ctx.pc + 1 /\ flash' = flash /\ ctx'.sreg = out.sreg
      /\ ctx'.regs[25] = out.res /\ ctx'.regs[24] = ctx.regs[24]
  <2>1. 25 \in RegIndex /\ 24 \in RegIndex
    BY RegNumbers
  <2> HIDE DEF GoesOn
  <2> QED
    BY <2>1, <1>4, Stores1
<1>7. steps' = steps + 1
  BY <1>4 DEF GoesOn, GoesOnBy
<1>8. Counter' = Wrap16(w - 1)
  BY <1>1, <1>2, <1>3, <1>5, <1>6 DEF Counter
<1> QED
  BY <1>1, <1>2, <1>5, <1>6, <1>7, <1>8 DEF Compares

SubiTurns == Nonzero(Start, 65536)

SubiAt2 == \E m \in Nat : /\ m < SubiTurns /\ At(2) /\ steps = 2 + 3 * m
                          /\ Counter = Wrap16(Start - m)
SubiAt3 == \E m \in Nat : /\ m < SubiTurns /\ At(3) /\ steps = 3 + 3 * m
                          /\ Borrowing(Wrap16(Start - m))
SubiAt4 == \E m \in Nat : /\ m < SubiTurns /\ At(4) /\ steps = 4 + 3 * m
                          /\ Counter = Wrap16(Start - (m + 1))
                          /\ F_Z \in ctx.sreg <=> m + 1 = SubiTurns

SubiInv ==
  \/ LoopLoading \/ SubiAt2 \/ SubiAt3 \/ SubiAt4
  \/ At(5) /\ steps = 2 + 3 * SubiTurns
  \/ Finished /\ steps = 3 + 3 * SubiTurns

LEMMA SubiLoopStep ==
  ASSUME IInv, run_bin, IsLoop(SubiLoop), SubiInv
  PROVE  SubiInv'
<1>1. Sized(SubiLoop, 3) /\ Follows(2, SubiLoop) /\ 2 \in Nat /\ 2 + 3 = 5
  BY DEF SubiLoop, IsLoop, Sized
<1>2. /\ ctx.pc = 2 => Steps /\ Written(opcode) = << "subi", 24, 1 >>
      /\ ctx.pc = 3 => Steps /\ Written(opcode) = << "sbci", 25, 0 >>
      /\ ctx.pc = 4 => Steps /\ Written(opcode) = << "brbc", F_Z, -3 >>
      /\ ctx.pc = 5 => instr = "break"
  <2>1. ASSUME ctx.pc = 2 PROVE Steps /\ Written(opcode) = << "subi", 24, 1 >>
    <3>1. Place(2, SubiLoop, 2, << "subi", 24, 1 >>)
      BY DEF Place, SubiLoop
    <3> QED
      BY <1>1, <2>1, <3>1, AtPlace
  <2>2. ASSUME ctx.pc = 3 PROVE Steps /\ Written(opcode) = << "sbci", 25, 0 >>
    <3>1. Place(2, SubiLoop, 3, << "sbci", 25, 0 >>)
      BY DEF Place, SubiLoop
    <3> QED
      BY <1>1, <2>2, <3>1, AtPlace
  <2>3. ASSUME ctx.pc = 4 PROVE Steps /\ Written(opcode) = << "brbc", F_Z, -3 >>
    <3>1. Place(2, SubiLoop, 4, << "brbc", F_Z, -3 >>)
      BY DEF Place, SubiLoop
    <3> QED
      BY <1>1, <2>3, <3>1, AtPlace
  <2>4. ctx.pc = 5 => instr = "break"
    BY <1>1, AtEnd
  <2> QED
    BY <2>1, <2>2, <2>3, <2>4
<1>3. Low \in Byte /\ High \in Byte /\ Start \in Word
  BY <1>1, CounterBytes
<1>t. SubiTurns \in Int
  BY <1>3, WordRange DEF SubiTurns, Nonzero
<1>0. flash' = flash => Low' = Low /\ High' = High /\ Start' = Start /\ SubiTurns' = SubiTurns
  BY DEF Start, Low, High, Loaded, SubiTurns
<1>4. CASE LoopLoading /\ ctx.pc # 2
  BY <1>1, <1>4, LoopLoadStep DEF SubiInv
<1>5. CASE (LoopLoading /\ ctx.pc = 2) \/ SubiAt2
  <2>1. PICK m \in Nat : /\ m < SubiTurns /\ At(2) /\ steps = 2 + 3 * m
                         /\ Counter = Wrap16(Start - m)
    <3>1. CASE LoopLoading /\ ctx.pc = 2
      <4>1. 0 < SubiTurns /\ Wrap16(Start - 0) = Start
        BY <1>3, WordRange, SMT DEF SubiTurns, Nonzero, Wrap16
      <4> QED
        BY <3>1, <4>1, LoopStarts
    <3> QED
      BY <1>5, <3>1 DEF SubiAt2
  <2>2. Steps /\ Written(opcode) = << "subi", 24, 1 >>
    BY <1>2, <2>1 DEF At
  <2>3. PICK w : w = Wrap16(Start - m)
    OBVIOUS
  <2>4. /\ status' = "running" /\ steps' = steps + 1 /\ flash' = flash /\ ctx'.pc = ctx.pc + 1
        /\ Borrowing(w)'
    BY <2>1, <2>2, <2>3, Borrows
  <2>5. /\ At(3)' /\ steps' = 3 + 3 * m /\ m < SubiTurns' /\ w = Wrap16(Start' - m)
    BY <1>0, <2>1, <2>3, <2>4 DEF At
  <2>6. Borrowing(Wrap16(Start - m))'
    BY <2>4, <2>5
  <2> QED
    BY <2>5, <2>6 DEF SubiInv, SubiAt3
<1>6. CASE SubiAt3
  <2>1. PICK m \in Nat : /\ m < SubiTurns /\ At(3) /\ steps = 3 + 3 * m
                         /\ Borrowing(Wrap16(Start - m))
    BY <1>6 DEF SubiAt3
  <2>2. Steps /\ Written(opcode) = << "sbci", 25, 0 >>
    BY <1>2, <2>1 DEF At
  <2>3. PICK w : w = Wrap16(Start - m)
    OBVIOUS
  <2>4. /\ w \in Word /\ Wrap16(w - 1) = Wrap16(Start - (m + 1))
        /\ w = 1 <=> m + 1 = SubiTurns
    BY <1>3, <2>1, <2>3, CountsDown DEF SubiTurns
  <2>5. /\ status' = "running" /\ steps' = steps + 1 /\ flash' = flash /\ ctx'.pc = ctx.pc + 1
        /\ Counter' = Wrap16(w - 1) /\ (F_Z \in ctx'.sreg <=> w = 1)
    BY <2>1, <2>2, <2>3, <2>4, GivesBack
  <2>6. /\ At(4)' /\ steps' = 4 + 3 * m /\ m < SubiTurns'
        /\ Counter' = Wrap16(Start' - (m + 1))
        /\ (F_Z \in ctx'.sreg <=> m + 1 = SubiTurns')
    BY <1>0, <2>1, <2>4, <2>5 DEF At
  <2> QED
    BY <2>6 DEF SubiInv, SubiAt4
<1>7. CASE SubiAt4
  <2>1. PICK m \in Nat : /\ m < SubiTurns /\ At(4) /\ steps = 4 + 3 * m
                         /\ Counter = Wrap16(Start - (m + 1))
                         /\ F_Z \in ctx.sreg <=> m + 1 = SubiTurns
    BY <1>7 DEF SubiAt4
  <2>2. /\ status' = "running" /\ steps' = steps + 1 /\ flash' = flash
        /\ ctx'.regs = ctx.regs /\ Counter' = Counter
        /\ F_Z \in ctx.sreg => ctx'.pc = 5
        /\ F_Z \notin ctx.sreg => ctx'.pc = 2
    <3>1. Steps /\ Written(opcode) = << "brbc", F_Z, -3 >> /\ ctx.pc = 4
      BY <1>2, <2>1 DEF At
    <3>2. -3 \in Int /\ 4 + 1 + (-3) = 2 /\ 4 + 1 = 5
      OBVIOUS
    <3> QED
      BY <3>1, <3>2, BackStep
  <2>3. CASE F_Z \in ctx.sreg
    <3>1. At(5)' /\ steps' = 2 + 3 * SubiTurns'
      BY <1>0, <1>t, <2>1, <2>2, <2>3 DEF At
    <3> QED
      BY <3>1 DEF SubiInv
  <2>4. CASE F_Z \notin ctx.sreg
    <3>1. PICK k \in Nat : k = m + 1
      OBVIOUS
    <3>2. k < SubiTurns' /\ At(2)' /\ steps' = 2 + 3 * k
      BY <1>0, <1>t, <2>1, <2>2, <2>4, <3>1 DEF At
    <3>3. Counter' = Wrap16(Start' - k)
      BY <1>0, <2>1, <2>2, <3>1
    <3> QED
      BY <3>2, <3>3 DEF SubiInv, SubiAt2
  <2> QED
    BY <2>3, <2>4
<1>8. CASE At(5) /\ steps = 2 + 3 * SubiTurns
  <2>1. Finished' /\ steps' = steps + 1 /\ flash' = flash
    BY <1>2, <1>8, LoopEnds
  <2> QED
    BY <1>0, <1>t, <1>8, <2>1 DEF SubiInv
<1>9. ~Finished
  BY DEF Finished, run_bin
<1> QED
  BY <1>4, <1>5, <1>6, <1>7, <1>8, <1>9 DEF SubiInv

LEMMA CountsBelow ==
  ASSUME NEW w \in Word, NEW m \in Nat, m < w + 1
  PROVE  /\ Wrap16(w - m) \in Word
         /\ Wrap16(Wrap16(w - m) - 1) = Wrap16(w - (m + 1))
         /\ Wrap16(w - m) < 1 <=> m + 1 = w + 1
<1>1. w \in Int /\ 0 <= w /\ w <= 65535 /\ m \in Int /\ 0 <= m
  BY WordRange
<1> QED
  BY <1>1, WordRange, SMT DEF Wrap16

BrccTurns == Start + 1

BrccAt2 == \E m \in Nat : /\ m < BrccTurns /\ At(2) /\ steps = 2 + 3 * m
                          /\ Counter = Wrap16(Start - m)
BrccAt3 == \E m \in Nat : /\ m < BrccTurns /\ At(3) /\ steps = 3 + 3 * m
                          /\ Borrowing(Wrap16(Start - m))
BrccAt4 == \E m \in Nat : /\ m < BrccTurns /\ At(4) /\ steps = 4 + 3 * m
                          /\ Counter = Wrap16(Start - (m + 1))
                          /\ F_C \in ctx.sreg <=> m + 1 = BrccTurns

BrccInv ==
  \/ LoopLoading \/ BrccAt2 \/ BrccAt3 \/ BrccAt4
  \/ At(5) /\ steps = 2 + 3 * BrccTurns
  \/ Finished /\ steps = 3 + 3 * BrccTurns

LEMMA BrccLoopStep ==
  ASSUME IInv, run_bin, IsLoop(BrccLoop), BrccInv
  PROVE  BrccInv'
<1>1. Sized(BrccLoop, 3) /\ Follows(2, BrccLoop) /\ 2 \in Nat /\ 2 + 3 = 5
  BY DEF BrccLoop, IsLoop, Sized
<1>2. /\ ctx.pc = 2 => Steps /\ Written(opcode) = << "subi", 24, 1 >>
      /\ ctx.pc = 3 => Steps /\ Written(opcode) = << "sbci", 25, 0 >>
      /\ ctx.pc = 4 => Steps /\ Written(opcode) = << "brbc", F_C, -3 >>
      /\ ctx.pc = 5 => instr = "break"
  <2>1. ASSUME ctx.pc = 2 PROVE Steps /\ Written(opcode) = << "subi", 24, 1 >>
    <3>1. Place(2, BrccLoop, 2, << "subi", 24, 1 >>)
      BY DEF Place, BrccLoop
    <3> QED
      BY <1>1, <2>1, <3>1, AtPlace
  <2>2. ASSUME ctx.pc = 3 PROVE Steps /\ Written(opcode) = << "sbci", 25, 0 >>
    <3>1. Place(2, BrccLoop, 3, << "sbci", 25, 0 >>)
      BY DEF Place, BrccLoop
    <3> QED
      BY <1>1, <2>2, <3>1, AtPlace
  <2>3. ASSUME ctx.pc = 4 PROVE Steps /\ Written(opcode) = << "brbc", F_C, -3 >>
    <3>1. Place(2, BrccLoop, 4, << "brbc", F_C, -3 >>)
      BY DEF Place, BrccLoop
    <3> QED
      BY <1>1, <2>3, <3>1, AtPlace
  <2>4. ctx.pc = 5 => instr = "break"
    BY <1>1, AtEnd
  <2> QED
    BY <2>1, <2>2, <2>3, <2>4
<1>3. Low \in Byte /\ High \in Byte /\ Start \in Word
  BY <1>1, CounterBytes
<1>t. BrccTurns \in Int
  BY <1>3, WordRange DEF BrccTurns
<1>0. flash' = flash => Low' = Low /\ High' = High /\ Start' = Start /\ BrccTurns' = BrccTurns
  BY DEF Start, Low, High, Loaded, BrccTurns
<1>4. CASE LoopLoading /\ ctx.pc # 2
  BY <1>1, <1>4, LoopLoadStep DEF BrccInv
<1>5. CASE (LoopLoading /\ ctx.pc = 2) \/ BrccAt2
  <2>1. PICK m \in Nat : /\ m < BrccTurns /\ At(2) /\ steps = 2 + 3 * m
                         /\ Counter = Wrap16(Start - m)
    <3>1. CASE LoopLoading /\ ctx.pc = 2
      <4>1. 0 < BrccTurns /\ Wrap16(Start - 0) = Start
        BY <1>3, WordRange, SMT DEF BrccTurns, Nonzero, Wrap16
      <4> QED
        BY <3>1, <4>1, LoopStarts
    <3> QED
      BY <1>5, <3>1 DEF BrccAt2
  <2>2. Steps /\ Written(opcode) = << "subi", 24, 1 >>
    BY <1>2, <2>1 DEF At
  <2>3. PICK w : w = Wrap16(Start - m)
    OBVIOUS
  <2>4. /\ status' = "running" /\ steps' = steps + 1 /\ flash' = flash /\ ctx'.pc = ctx.pc + 1
        /\ Borrowing(w)'
    BY <2>1, <2>2, <2>3, Borrows
  <2>5. /\ At(3)' /\ steps' = 3 + 3 * m /\ m < BrccTurns' /\ w = Wrap16(Start' - m)
    BY <1>0, <2>1, <2>3, <2>4 DEF At
  <2>6. Borrowing(Wrap16(Start - m))'
    BY <2>4, <2>5
  <2> QED
    BY <2>5, <2>6 DEF BrccInv, BrccAt3
<1>6. CASE BrccAt3
  <2>1. PICK m \in Nat : /\ m < BrccTurns /\ At(3) /\ steps = 3 + 3 * m
                         /\ Borrowing(Wrap16(Start - m))
    BY <1>6 DEF BrccAt3
  <2>2. Steps /\ Written(opcode) = << "sbci", 25, 0 >>
    BY <1>2, <2>1 DEF At
  <2>3. PICK w : w = Wrap16(Start - m)
    OBVIOUS
  <2>4. /\ w \in Word /\ Wrap16(w - 1) = Wrap16(Start - (m + 1))
        /\ w < 1 <=> m + 1 = BrccTurns
    BY <1>3, <2>1, <2>3, CountsBelow DEF BrccTurns
  <2>5. /\ status' = "running" /\ steps' = steps + 1 /\ flash' = flash /\ ctx'.pc = ctx.pc + 1
        /\ Counter' = Wrap16(w - 1) /\ (F_C \in ctx'.sreg <=> w < 1)
    BY <2>1, <2>2, <2>3, <2>4, GivesBack
  <2>6. /\ At(4)' /\ steps' = 4 + 3 * m /\ m < BrccTurns'
        /\ Counter' = Wrap16(Start' - (m + 1))
        /\ (F_C \in ctx'.sreg <=> m + 1 = BrccTurns')
    BY <1>0, <2>1, <2>4, <2>5 DEF At
  <2> QED
    BY <2>6 DEF BrccInv, BrccAt4
<1>7. CASE BrccAt4
  <2>1. PICK m \in Nat : /\ m < BrccTurns /\ At(4) /\ steps = 4 + 3 * m
                         /\ Counter = Wrap16(Start - (m + 1))
                         /\ F_C \in ctx.sreg <=> m + 1 = BrccTurns
    BY <1>7 DEF BrccAt4
  <2>2. /\ status' = "running" /\ steps' = steps + 1 /\ flash' = flash
        /\ ctx'.regs = ctx.regs /\ Counter' = Counter
        /\ F_C \in ctx.sreg => ctx'.pc = 5
        /\ F_C \notin ctx.sreg => ctx'.pc = 2
    <3>1. Steps /\ Written(opcode) = << "brbc", F_C, -3 >> /\ ctx.pc = 4
      BY <1>2, <2>1 DEF At
    <3>2. -3 \in Int /\ 4 + 1 + (-3) = 2 /\ 4 + 1 = 5
      OBVIOUS
    <3> QED
      BY <3>1, <3>2, BackStep
  <2>3. CASE F_C \in ctx.sreg
    <3>1. At(5)' /\ steps' = 2 + 3 * BrccTurns'
      BY <1>0, <1>t, <2>1, <2>2, <2>3 DEF At
    <3> QED
      BY <3>1 DEF BrccInv
  <2>4. CASE F_C \notin ctx.sreg
    <3>1. PICK k \in Nat : k = m + 1
      OBVIOUS
    <3>2. k < BrccTurns' /\ At(2)' /\ steps' = 2 + 3 * k
      BY <1>0, <1>t, <2>1, <2>2, <2>4, <3>1 DEF At
    <3>3. Counter' = Wrap16(Start' - k)
      BY <1>0, <2>1, <2>2, <3>1
    <3> QED
      BY <3>2, <3>3 DEF BrccInv, BrccAt2
  <2> QED
    BY <2>3, <2>4
<1>8. CASE At(5) /\ steps = 2 + 3 * BrccTurns
  <2>1. Finished' /\ steps' = steps + 1 /\ flash' = flash
    BY <1>2, <1>8, LoopEnds
  <2> QED
    BY <1>0, <1>t, <1>8, <2>1 DEF BrccInv
<1>9. ~Finished
  BY DEF Finished, run_bin
<1> QED
  BY <1>4, <1>5, <1>6, <1>7, <1>8, <1>9 DEF BrccInv
-----------------------------------------------------------------------------
(* The loop that counts up to a limit, which cpse finds: it skips the jump *)
(* back.                                                                   *)

LEMMA CountsTo ==
  ASSUME NEW x \in Byte, NEW y \in Byte, NEW m \in Nat, m < Nonzero(Wrap8(y - x), 256)
  PROVE  /\ Wrap8(Wrap8(x + m) + 1) = Wrap8(x + (m + 1))
         /\ Wrap8(x + (m + 1)) = y <=> m + 1 = Nonzero(Wrap8(y - x), 256)
<1>1. /\ x \in Int /\ 0 <= x /\ x <= 255 /\ y \in Int /\ 0 <= y /\ y <= 255
      /\ m \in Int /\ 0 <= m
  BY ByteRange
<1>2. CASE x = y
  BY <1>1, <1>2, SMT DEF Nonzero, Wrap8
<1>3. CASE x < y
  BY <1>1, <1>3, SMT DEF Nonzero, Wrap8
<1>4. CASE y < x
  BY <1>1, <1>4, SMT DEF Nonzero, Wrap8
<1> QED
  BY <1>1, <1>2, <1>3, <1>4

CpseTurns == Nonzero(Wrap8(High - Low), 256)

CpseAt2 == \E m \in Nat : /\ m < CpseTurns /\ At(2) /\ steps = 2 + 3 * m
                          /\ ctx.regs[24] = Wrap8(Low + m) /\ ctx.regs[25] = High
CpseAt3 == \E m \in Nat : /\ m < CpseTurns /\ At(3) /\ steps = 3 + 3 * m
                          /\ ctx.regs[24] = Wrap8(Low + (m + 1)) /\ ctx.regs[25] = High
CpseAt4 == \E m \in Nat : /\ m < CpseTurns /\ At(4) /\ steps = 4 + 3 * m
                          /\ m + 1 < CpseTurns
                          /\ ctx.regs[24] = Wrap8(Low + (m + 1)) /\ ctx.regs[25] = High

CpseInv ==
  \/ LoopLoading \/ CpseAt2 \/ CpseAt3 \/ CpseAt4
  \/ At(5) /\ steps = 1 + 3 * CpseTurns
  \/ Finished /\ steps = 2 + 3 * CpseTurns

LEMMA CpseLoopStep ==
  ASSUME IInv, run_bin, IsLoop(CpseLoop), CpseInv
  PROVE  CpseInv'
<1>1. Sized(CpseLoop, 3) /\ Follows(2, CpseLoop) /\ 2 \in Nat /\ 2 + 3 = 5
  BY DEF CpseLoop, IsLoop, Sized
<1>2. /\ ctx.pc = 2 => Steps /\ Written(opcode) = << "inc", 24 >>
      /\ ctx.pc = 3 => Steps /\ Written(opcode) = << "cpse", 24, 25 >>
      /\ ctx.pc = 4 => Steps /\ Written(opcode) = << "rjmp", -3 >>
      /\ ctx.pc = 5 => instr = "break"
  <2>1. ASSUME ctx.pc = 2 PROVE Steps /\ Written(opcode) = << "inc", 24 >>
    <3>1. Place(2, CpseLoop, 2, << "inc", 24 >>)
      BY DEF Place, CpseLoop
    <3> QED
      BY <1>1, <2>1, <3>1, AtPlace
  <2>2. ASSUME ctx.pc = 3 PROVE Steps /\ Written(opcode) = << "cpse", 24, 25 >>
    <3>1. Place(2, CpseLoop, 3, << "cpse", 24, 25 >>)
      BY DEF Place, CpseLoop
    <3> QED
      BY <1>1, <2>2, <3>1, AtPlace
  <2>3. ASSUME ctx.pc = 4 PROVE Steps /\ Written(opcode) = << "rjmp", -3 >>
    <3>1. Place(2, CpseLoop, 4, << "rjmp", -3 >>)
      BY DEF Place, CpseLoop
    <3> QED
      BY <1>1, <2>3, <3>1, AtPlace
  <2>4. ctx.pc = 5 => instr = "break"
    BY <1>1, AtEnd
  <2> QED
    BY <2>1, <2>2, <2>3, <2>4
<1>3. Low \in Byte /\ High \in Byte /\ Start \in Word
  BY <1>1, CounterBytes
<1>t. CpseTurns \in Int
  BY <1>3, ByteRange, SMT DEF CpseTurns, Nonzero, Wrap8
<1>0. flash' = flash => Low' = Low /\ High' = High /\ Start' = Start /\ CpseTurns' = CpseTurns
  BY DEF Start, Low, High, Loaded, CpseTurns
<1>4. CASE LoopLoading /\ ctx.pc # 2
  BY <1>1, <1>4, LoopLoadStep DEF CpseInv
<1>5. CASE (LoopLoading /\ ctx.pc = 2) \/ CpseAt2
  <2>1. PICK m \in Nat : /\ m < CpseTurns /\ At(2) /\ steps = 2 + 3 * m
                         /\ ctx.regs[24] = Wrap8(Low + m) /\ ctx.regs[25] = High
    <3>1. CASE LoopLoading /\ ctx.pc = 2
      <4>1. 0 < CpseTurns /\ Wrap8(Low + 0) = Low
        BY <1>3, ByteRange, SMT DEF CpseTurns, Nonzero, Wrap8
      <4> QED
        BY <3>1, <4>1, LoopStarts
    <3> QED
      BY <1>5, <3>1 DEF CpseAt2
  <2> DEFINE x == Wrap8(Low + m)
  <2>2. Wrap8(x + 1) = Wrap8(Low + (m + 1))
    BY <1>3, <2>1, CountsTo DEF CpseTurns
  <2>3. /\ status' = "running" /\ steps' = steps + 1 /\ flash' = flash /\ ctx'.pc = ctx.pc + 1
        /\ ctx'.regs[24] = Wrap8(x + 1) /\ ctx'.regs[25] = ctx.regs[25]
    <3>1. Steps /\ Written(opcode) = << "inc", 24 >> /\ ctx.regs[24] = x
      BY <1>2, <2>1 DEF At
    <3> HIDE DEF x
    <3> QED
      BY <3>1, CountsByByte
  <2> HIDE DEF x
  <2>4. /\ At(3)' /\ steps' = 3 + 3 * m /\ m < CpseTurns'
        /\ ctx'.regs[24] = Wrap8(Low' + (m + 1)) /\ ctx'.regs[25] = High'
    BY <1>0, <2>1, <2>2, <2>3 DEF At
  <2> QED
    BY <2>4 DEF CpseInv, CpseAt3
<1>6. CASE CpseAt3
  <2>1. PICK m \in Nat : /\ m < CpseTurns /\ At(3) /\ steps = 3 + 3 * m
                         /\ ctx.regs[24] = Wrap8(Low + (m + 1)) /\ ctx.regs[25] = High
    BY <1>6 DEF CpseAt3
  <2>2. Wrap8(Low + (m + 1)) = High <=> m + 1 = CpseTurns
    BY <1>3, <2>1, CountsTo DEF CpseTurns
  <2>3. IF ctx.regs[24] = ctx.regs[25] THEN GoesOnBy(2, ctx.regs, ctx.sreg)
                                       ELSE GoesOn(ctx.regs, ctx.sreg)
    <3>1. Steps /\ Written(opcode) = << "cpse", 24, 25 >> /\ ctx.pc = 3
      BY <1>2, <2>1 DEF At
    <3>2. Decoded[flash_r(4)] \notin TwoWords
      <4>1. Written(flash_r(2 + 3 - 1)) = CpseLoop[3] /\ 2 + 3 - 1 = 4
        <5>1. 3 \in 1 .. 3
          OBVIOUS
        <5>2. \A k \in 1 .. 3 : Written(flash_r(2 + k - 1)) = CpseLoop[k]
          BY <1>1, Fetches
        <5> QED
          BY <5>1, <5>2
      <4>2. Written(flash_r(4)) = << "rjmp", -3 >>
        BY <4>1 DEF CpseLoop
      <4>3. Decoded[flash_r(4)] = "rjmp"
        BY <4>2, WrittenForms
      <4> QED
        BY <4>3 DEF TwoWords
    <3>3. ctx.pc + 2 \in Word /\ ctx.pc + 1 = 4
      BY <3>1, WordRange
    <3> QED
      BY <3>1, <3>2, <3>3, SkipStep, RegNumbers
  <2>4. CASE m + 1 = CpseTurns
    <3>1. At(5)' /\ steps' = 1 + 3 * CpseTurns' /\ flash' = flash
      BY <1>0, <2>1, <2>2, <2>3, <2>4 DEF At, GoesOnBy
    <3> QED
      BY <3>1 DEF CpseInv
  <2>5. CASE m + 1 # CpseTurns
    <3>1. /\ At(4)' /\ steps' = 4 + 3 * m /\ m < CpseTurns' /\ m + 1 < CpseTurns'
          /\ ctx'.regs[24] = Wrap8(Low' + (m + 1)) /\ ctx'.regs[25] = High'
      BY <1>0, <1>t, <2>1, <2>2, <2>3, <2>5 DEF At, GoesOn, GoesOnBy
    <3> QED
      BY <3>1 DEF CpseInv, CpseAt4
  <2> QED
    BY <2>4, <2>5
<1>7. CASE CpseAt4
  <2>1. PICK m \in Nat : /\ m < CpseTurns /\ At(4) /\ steps = 4 + 3 * m
                         /\ m + 1 < CpseTurns
                         /\ ctx.regs[24] = Wrap8(Low + (m + 1)) /\ ctx.regs[25] = High
    BY <1>7 DEF CpseAt4
  <2>2. GoesOnBy(1 + (-3), ctx.regs, ctx.sreg)
    <3>1. Steps /\ Written(opcode) = << "rjmp", -3 >> /\ ctx.pc = 4
      BY <1>2, <2>1 DEF At
    <3>2. -3 \in Int /\ ctx.pc + 1 + (-3) \in Word
      BY <3>1, WordRange
    <3> QED
      BY <3>1, <3>2, BranchStep
  <2>3. PICK k \in Nat : k = m + 1
    OBVIOUS
  <2>4. /\ k < CpseTurns' /\ At(2)' /\ steps' = 2 + 3 * k
        /\ ctx'.regs[24] = Wrap8(Low' + k) /\ ctx'.regs[25] = High'
    BY <1>0, <2>1, <2>2, <2>3 DEF At, GoesOnBy
  <2> QED
    BY <2>4 DEF CpseInv, CpseAt2
<1>8. CASE At(5) /\ steps = 1 + 3 * CpseTurns
  <2>1. Finished' /\ steps' = steps + 1 /\ flash' = flash
    BY <1>2, <1>8, LoopEnds
  <2> QED
    BY <1>0, <1>t, <1>8, <2>1 DEF CpseInv
<1>9. ~Finished
  BY DEF Finished, run_bin
<1> QED
  BY <1>4, <1>5, <1>6, <1>7, <1>8, <1>9 DEF CpseInv
-----------------------------------------------------------------------------
(* The loop that shifts a number right until nothing is left of it.        *)

LEMMA Powers ==
  /\ Pow2[1] = 1 /\ Pow2[2] = 2 /\ Pow2[3] = 4 /\ Pow2[4] = 8 /\ Pow2[5] = 16
  /\ Pow2[6] = 32 /\ Pow2[7] = 64 /\ Pow2[8] = 128 /\ Pow2[9] = 256 /\ Pow2[10] = 512
  /\ Pow2[11] = 1024 /\ Pow2[12] = 2048 /\ Pow2[13] = 4096 /\ Pow2[14] = 8192
  /\ Pow2[15] = 16384 /\ Pow2[16] = 32768 /\ Pow2[17] = 65536
  BY DEF Pow2

RorTurns == CHOOSE n \in 1 .. 16 : HasBits(Start, n)

LEMMA RorTurnsAre ==
  ASSUME Start \in Word
  PROVE  RorTurns \in 1 .. 16 /\ HasBits(Start, RorTurns)
<1> DEFINE w == Start
<1>1. w \in Int /\ 0 <= w /\ w <= 65535
  BY WordRange
<1> HIDE DEF w
<1>2. \/ HasBits(w, 1) \/ HasBits(w, 2) \/ HasBits(w, 3) \/ HasBits(w, 4)
      \/ HasBits(w, 5) \/ HasBits(w, 6) \/ HasBits(w, 7) \/ HasBits(w, 8)
      \/ HasBits(w, 9) \/ HasBits(w, 10) \/ HasBits(w, 11) \/ HasBits(w, 12)
      \/ HasBits(w, 13) \/ HasBits(w, 14) \/ HasBits(w, 15) \/ HasBits(w, 16)
  BY <1>1, Powers, SMT DEF HasBits
<1>3. \E n \in 1 .. 16 : HasBits(w, n)
  BY <1>2
<1> QED
  BY <1>3 DEF RorTurns, w

LEMMA PowersGrow ==
  ASSUME NEW m \in 0 .. 15
  PROVE  /\ Pow2[m + 1] \in Int /\ Pow2[m + 1] > 0 /\ Pow2[m + 2] = 2 * Pow2[m + 1]
         /\ Pow2[m + 2] <= 65536
         /\ \A n \in 1 .. 16 : m + 1 < n => Pow2[m + 2] <= Pow2[n]
<1>1. /\ Pow2[m + 1] \in Int /\ Pow2[m + 1] > 0 /\ Pow2[m + 2] = 2 * Pow2[m + 1]
      /\ Pow2[m + 2] <= 65536
  <2>1. \/ m = 0 \/ m = 1 \/ m = 2 \/ m = 3 \/ m = 4 \/ m = 5 \/ m = 6 \/ m = 7
        \/ m = 8 \/ m = 9 \/ m = 10 \/ m = 11 \/ m = 12 \/ m = 13 \/ m = 14 \/ m = 15
    OBVIOUS
  <2> QED
    BY <2>1, Powers, SMT
<1>2. ASSUME NEW n \in 1 .. 16, m + 1 < n
      PROVE  Pow2[m + 2] <= Pow2[n]
  <2>1. \/ n = 2 \/ n = 3 \/ n = 4 \/ n = 5 \/ n = 6 \/ n = 7 \/ n = 8
        \/ n = 9 \/ n = 10 \/ n = 11 \/ n = 12 \/ n = 13 \/ n = 14 \/ n = 15 \/ n = 16
    BY <1>2
  <2>2. \/ m = 0 \/ m = 1 \/ m = 2 \/ m = 3 \/ m = 4 \/ m = 5 \/ m = 6 \/ m = 7
        \/ m = 8 \/ m = 9 \/ m = 10 \/ m = 11 \/ m = 12 \/ m = 13 \/ m = 14
    BY <1>2
  <2>3. m \in Int /\ n \in Int
    OBVIOUS
  <2> QED
    BY <1>2, <2>1, <2>2, <2>3, Powers, SMT
<1> QED
  BY <1>1, <1>2

LEMMA ShiftsOut ==
  ASSUME Start \in Word, NEW m \in Nat, m < RorTurns
  PROVE  LET w == Start \div Pow2[m + 1]
         IN  /\ w \in Word /\ w \div 2 = Start \div Pow2[m + 2]
             /\ w \div 2 = 0 <=> m + 1 = RorTurns
<1>1. RorTurns \in 1 .. 16 /\ HasBits(Start, RorTurns) /\ m \in 0 .. 15
  BY RorTurnsAre
<1>2. Start \in Int /\ 0 <= Start /\ Start <= 65535
  BY WordRange
<1>3. /\ Pow2[m + 1] \in Int /\ Pow2[m + 1] > 0 /\ Pow2[m + 2] = 2 * Pow2[m + 1]
      /\ \A n \in 1 .. 16 : m + 1 < n => Pow2[m + 2] <= Pow2[n]
  BY <1>1, PowersGrow
<1> DEFINE s == Start
           p == Pow2[m + 1]
           w == s \div p
<1>4. \/ p = 1 \/ p = 2 \/ p = 4 \/ p = 8 \/ p = 16 \/ p = 32 \/ p = 64 \/ p = 128 \/ p = 256
      \/ p = 512 \/ p = 1024 \/ p = 2048 \/ p = 4096 \/ p = 8192 \/ p = 16384 \/ p = 32768
  <2>1. \/ m = 0 \/ m = 1 \/ m = 2 \/ m = 3 \/ m = 4 \/ m = 5 \/ m = 6 \/ m = 7
        \/ m = 8 \/ m = 9 \/ m = 10 \/ m = 11 \/ m = 12 \/ m = 13 \/ m = 14 \/ m = 15
    BY <1>1
  <2> QED
    BY <2>1, Powers, SMT
<1>5. w \in Word /\ w \div 2 = s \div (2 * p) /\ (w \div 2 = 0 <=> s < 2 * p)
  <2>1. s \in Int /\ 0 <= s /\ s <= 65535
    BY <1>2
  <2> HIDE DEF s, p
  <2>2. 0 <= w /\ w <= 65535 /\ w \in Int
    BY <1>4, <2>1, SMT
  <2>3. w \div 2 = s \div (2 * p)
    BY <1>4, <2>1, SMT
  <2>4. w \div 2 = 0 <=> s < 2 * p
    BY <1>4, <2>1, SMT
  <2> QED
    BY <2>2, <2>3, <2>4, WordRange
<1>6. s < 2 * p <=> m + 1 = RorTurns
  <2>1. CASE m + 1 = RorTurns
    <3>1. Start < Pow2[RorTurns + 1] /\ RorTurns + 1 = m + 2
      BY <1>1, <2>1 DEF HasBits
    <3> QED
      BY <1>3, <2>1, <3>1
  <2>2. CASE m + 1 # RorTurns
    <3>1. m + 1 < RorTurns /\ RorTurns > 1
      BY <1>1, <2>2
    <3>2. Start >= Pow2[RorTurns] /\ Pow2[m + 2] <= Pow2[RorTurns] /\ Pow2[RorTurns] \in Int
      <4>1. RorTurns - 1 \in 0 .. 15 /\ (RorTurns - 1) + 1 = RorTurns
        BY <1>1
      <4> QED
        BY <1>1, <1>3, <3>1, <4>1, PowersGrow DEF HasBits
    <3> QED
      BY <1>2, <1>3, <2>2, <3>2
  <2> QED
    BY <2>1, <2>2
<1> QED
  BY <1>3, <1>5, <1>6

(* One shift within the loop.                                              *)
LEMMA HalvesPart ==
  ASSUME Steps, NEW i \in {"lsr", "ror"}, NEW d \in RegIndex, Written(opcode) = << i, d >>,
         NEW x, ctx.regs[d] = x
  PROVE  /\ status' = "running" /\ steps' = steps + 1 /\ flash' = flash
         /\ ctx'.pc = ctx.pc + 1
         /\ ctx'.regs[d] = x \div 2 + 128 * (IF i = "lsr" THEN 0 ELSE Carry(ctx.sreg))
         /\ \A e \in RegIndex : e # d => ctx'.regs[e] = ctx.regs[e]
         /\ F_C \in ctx'.sreg <=> x % 2 = 1
<1> DEFINE top == IF i = "lsr" THEN 0 ELSE Carry(ctx.sreg)
           out == Halved(x, top, ctx.sreg)
<1>1. TopBit(i, x) = top
  BY DEF TopBit
<1>2. GoesOn([ctx.regs EXCEPT ![d] = out.res], out.sreg)
  BY <1>1, ShiftStep
<1>3. out.res = x \div 2 + 128 * top /\ (F_C \in out.sreg <=> x % 2 = 1)
  <2> HIDE DEF top
  <2> QED
    BY OneRegisterFlags
<1> HIDE DEF out, top
<1>4. /\ status' = "running" /\ ctx'.pc = ctx.pc + 1 /\ flash' = flash /\ ctx'.sreg = out.sreg
      /\ ctx'.regs[d] = out.res
      /\ \A e \in RegIndex : e # d => ctx'.regs[e] = ctx.regs[e]
  BY <1>2, Stores1
<1>5. steps' = steps + 1
  BY <1>2 DEF GoesOn, GoesOnBy
<1> QED
  BY <1>3, <1>4, <1>5 DEF top

(* The high byte of w is shifted, the low byte not yet.                    *)
Halving(w) == /\ ctx.regs[24] = Lo(w) /\ ctx.regs[25] = Hi(w) \div 2
              /\ F_C \in ctx.sreg <=> Hi(w) % 2 = 1

LEMMA HalvesHigh ==
  ASSUME Steps, Written(opcode) = << "lsr", 25 >>, NEW w, Counter = w
  PROVE  /\ status' = "running" /\ steps' = steps + 1 /\ flash' = flash
         /\ ctx'.pc = ctx.pc + 1 /\ Halving(w)'
<1>1. ctx.regs[24] \in Byte /\ ctx.regs[25] \in Byte
  BY StepsFacts, RegNumbers
<1>2. Lo(w) = ctx.regs[24] /\ Hi(w) = ctx.regs[25]
  BY <1>1, WordBytes DEF Counter
<1> DEFINE x == ctx.regs[25]
<1>3. /\ status' = "running" /\ steps' = steps + 1 /\ flash' = flash
      /\ ctx'.pc = ctx.pc + 1 /\ ctx'.regs[25] = x \div 2 + 128 * 0
      /\ \A e \in RegIndex : e # 25 => ctx'.regs[e] = ctx.regs[e]
      /\ F_C \in ctx'.sreg <=> x % 2 = 1
  BY HalvesPart, RegNumbers
<1>4. x \div 2 + 128 * 0 = x \div 2
  BY <1>1, ByteRange
<1>5. ctx'.regs[24] = ctx.regs[24]
  BY <1>3, RegNumbers
<1> QED
  BY <1>2, <1>3, <1>4, <1>5 DEF Halving

LEMMA HalvesLow ==
  ASSUME Steps, Written(opcode) = << "ror", 24 >>, NEW w \in Word, Halving(w)
  PROVE  /\ status' = "running" /\ steps' = steps + 1 /\ flash' = flash
         /\ ctx'.pc = ctx.pc + 1 /\ Counter' = w \div 2
<1> DEFINE a0 == Lo(w)
           a1 == Hi(w)
           c  == Carry(ctx.sreg)
<1>1. a0 \in Byte /\ a1 \in Byte /\ a0 + 256 * a1 = w
  BY BytesOfWord
<1>2. ctx.regs[24] = a0 /\ ctx.regs[25] = a1 \div 2
      /\ c \in {0, 1} /\ (c = 1 <=> a1 % 2 = 1)
  BY DEF Halving, Carry
<1> HIDE DEF a0, a1
<1>3. /\ status' = "running" /\ steps' = steps + 1 /\ flash' = flash
      /\ ctx'.pc = ctx.pc + 1 /\ ctx'.regs[24] = a0 \div 2 + 128 * c
      /\ \A e \in RegIndex : e # 24 => ctx'.regs[e] = ctx.regs[e]
  BY <1>2, HalvesPart, RegNumbers
<1> HIDE DEF c
<1>4. ctx'.regs[25] = a1 \div 2
  BY <1>2, <1>3, RegNumbers
<1>5. a0 \div 2 + 128 * c + 256 * (a1 \div 2) = w \div 2
  BY <1>1, <1>2, ShiftArithmetic
<1> QED
  BY <1>3, <1>4, <1>5 DEF Counter

RorAt2 == \E m \in Nat : /\ m < RorTurns /\ At(2) /\ steps = 2 + 4 * m
                         /\ Counter = Start \div Pow2[m + 1]
RorAt3 == \E m \in Nat : /\ m < RorTurns /\ At(3) /\ steps = 3 + 4 * m
                         /\ Halving(Start \div Pow2[m + 1])
RorAt4 == \E m \in Nat : /\ m < RorTurns /\ At(4) /\ steps = 4 + 4 * m
                         /\ Counter = Start \div Pow2[m + 2]
RorAt5 == \E m \in Nat : /\ m < RorTurns /\ At(5) /\ steps = 5 + 4 * m
                         /\ Counter = Start \div Pow2[m + 2]
                         /\ F_Z \in ctx.sreg <=> m + 1 = RorTurns

RorInv ==
  \/ LoopLoading \/ RorAt2 \/ RorAt3 \/ RorAt4 \/ RorAt5
  \/ At(6) /\ steps = 2 + 4 * RorTurns
  \/ Finished /\ steps = 3 + 4 * RorTurns

LEMMA RorLoopStep ==
  ASSUME IInv, run_bin, IsLoop(RorLoop), RorInv
  PROVE  RorInv'
<1>1. Sized(RorLoop, 4) /\ Follows(2, RorLoop) /\ 2 \in Nat /\ 2 + 4 = 6
  BY DEF RorLoop, IsLoop, Sized
<1>2. /\ ctx.pc = 2 => Steps /\ Written(opcode) = << "lsr", 25 >>
      /\ ctx.pc = 3 => Steps /\ Written(opcode) = << "ror", 24 >>
      /\ ctx.pc = 4 => Steps /\ Written(opcode) = << "sbiw", 12, 0 >>
      /\ ctx.pc = 5 => Steps /\ Written(opcode) = << "brbc", F_Z, -4 >>
      /\ ctx.pc = 6 => instr = "break"
  <2>1. ASSUME ctx.pc = 2 PROVE Steps /\ Written(opcode) = << "lsr", 25 >>
    <3>1. Place(2, RorLoop, 2, << "lsr", 25 >>)
      BY DEF Place, RorLoop
    <3> QED
      BY <1>1, <2>1, <3>1, AtPlace
  <2>2. ASSUME ctx.pc = 3 PROVE Steps /\ Written(opcode) = << "ror", 24 >>
    <3>1. Place(2, RorLoop, 3, << "ror", 24 >>)
      BY DEF Place, RorLoop
    <3> QED
      BY <1>1, <2>2, <3>1, AtPlace
  <2>3. ASSUME ctx.pc = 4 PROVE Steps /\ Written(opcode) = << "sbiw", 12, 0 >>
    <3>1. Place(2, RorLoop, 4, << "sbiw", 12, 0 >>)
      BY DEF Place, RorLoop
    <3> QED
      BY <1>1, <2>3, <3>1, AtPlace
  <2>4. ASSUME ctx.pc = 5 PROVE Steps /\ Written(opcode) = << "brbc", F_Z, -4 >>
    <3>1. Place(2, RorLoop, 5, << "brbc", F_Z, -4 >>)
      BY DEF Place, RorLoop
    <3> QED
      BY <1>1, <2>4, <3>1, AtPlace
  <2>5. ctx.pc = 6 => instr = "break"
    BY <1>1, AtEnd
  <2> QED
    BY <2>1, <2>2, <2>3, <2>4, <2>5
<1>3. Low \in Byte /\ High \in Byte /\ Start \in Word
  BY <1>1, CounterBytes
<1>t. RorTurns \in Int
  BY <1>3, RorTurnsAre
<1>0. flash' = flash => Low' = Low /\ High' = High /\ Start' = Start /\ RorTurns' = RorTurns
  BY DEF Start, Low, High, Loaded, RorTurns, HasBits
<1>4. CASE LoopLoading /\ ctx.pc # 2
  BY <1>1, <1>4, LoopLoadStep DEF RorInv
<1>5. CASE (LoopLoading /\ ctx.pc = 2) \/ RorAt2
  <2>1. PICK m \in Nat : /\ m < RorTurns /\ At(2) /\ steps = 2 + 4 * m
                         /\ Counter = Start \div Pow2[m + 1]
    <3>1. CASE LoopLoading /\ ctx.pc = 2
      <4>1. 0 < RorTurns /\ Start \div Pow2[0 + 1] = Start
        BY <1>3, RorTurnsAre, Powers, WordRange
      <4> QED
        BY <3>1, <4>1, LoopStarts
    <3> QED
      BY <1>5, <3>1 DEF RorAt2
  <2>2. Steps /\ Written(opcode) = << "lsr", 25 >>
    BY <1>2, <2>1 DEF At
  <2>3. PICK w : w = Start \div Pow2[m + 1]
    OBVIOUS
  <2>4. /\ status' = "running" /\ steps' = steps + 1 /\ flash' = flash /\ ctx'.pc = ctx.pc + 1
        /\ Halving(w)'
    BY <2>1, <2>2, <2>3, HalvesHigh
  <2>5. /\ At(3)' /\ steps' = 3 + 4 * m /\ m < RorTurns' /\ w = Start' \div Pow2[m + 1]
    BY <1>0, <2>1, <2>3, <2>4 DEF At
  <2>6. Halving(Start \div Pow2[m + 1])'
    BY <2>4, <2>5
  <2> QED
    BY <2>5, <2>6 DEF RorInv, RorAt3
<1>6. CASE RorAt3
  <2>1. PICK m \in Nat : /\ m < RorTurns /\ At(3) /\ steps = 3 + 4 * m
                         /\ Halving(Start \div Pow2[m + 1])
    BY <1>6 DEF RorAt3
  <2>2. Steps /\ Written(opcode) = << "ror", 24 >>
    BY <1>2, <2>1 DEF At
  <2>3. PICK w : w = Start \div Pow2[m + 1]
    OBVIOUS
  <2>4. w \in Word /\ w \div 2 = Start \div Pow2[m + 2]
    BY <1>3, <2>1, <2>3, ShiftsOut
  <2>5. /\ status' = "running" /\ steps' = steps + 1 /\ flash' = flash /\ ctx'.pc = ctx.pc + 1
        /\ Counter' = w \div 2
    BY <2>1, <2>2, <2>3, <2>4, HalvesLow
  <2>6. /\ At(4)' /\ steps' = 4 + 4 * m /\ m < RorTurns'
        /\ Counter' = Start' \div Pow2[m + 2]
    BY <1>0, <2>1, <2>4, <2>5 DEF At
  <2> QED
    BY <2>6 DEF RorInv, RorAt4
<1>7. CASE RorAt4
  <2>1. PICK m \in Nat : /\ m < RorTurns /\ At(4) /\ steps = 4 + 4 * m
                         /\ Counter = Start \div Pow2[m + 2]
    BY <1>7 DEF RorAt4
  <2>2. PICK w : w = Start \div Pow2[m + 2]
    OBVIOUS
  <2>3. w \in Word /\ (w = 0 <=> m + 1 = RorTurns) /\ Wrap16(w - 0) = w
    <3>1. PICK v : v = Start \div Pow2[m + 1]
      OBVIOUS
    <3>2. v \in Word /\ v \div 2 = w /\ (v \div 2 = 0 <=> m + 1 = RorTurns)
      BY <1>3, <2>1, <2>2, <3>1, ShiftsOut
    <3>3. w \in Word
      BY <3>2, WordRange, SMT
    <3> QED
      BY <3>2, <3>3, WordRange DEF Wrap16
  <2>4. /\ status' = "running" /\ steps' = steps + 1 /\ flash' = flash /\ ctx'.pc = ctx.pc + 1
        /\ Counter' = w /\ (F_Z \in ctx'.sreg <=> w = 0)
    <3>1. Steps /\ Written(opcode) = << "sbiw", 12, 0 >> /\ Counter = w
      BY <1>2, <2>1, <2>2 DEF At
    <3> DEFINE k == 0
    <3>2. k \in 0 .. 63 /\ "sbiw" \in WordImm /\ Written(opcode) = << "sbiw", 12, k >>
      BY <3>1 DEF WordImm
    <3> HIDE DEF k
    <3>3. LET v == Wrap16(IF "sbiw" = "adiw" THEN w + k ELSE w - k)
          IN  /\ status' = "running" /\ steps' = steps + 1 /\ flash' = flash
              /\ ctx'.pc = ctx.pc + 1
              /\ Counter' = v /\ (F_Z \in ctx'.sreg <=> v = 0)
      BY <2>3, <3>1, <3>2, CountsByWord
    <3> QED
      BY <2>3, <3>3 DEF k
  <2>5. /\ At(5)' /\ steps' = 5 + 4 * m /\ m < RorTurns'
        /\ Counter' = Start' \div Pow2[m + 2]
        /\ (F_Z \in ctx'.sreg <=> m + 1 = RorTurns')
    BY <1>0, <2>1, <2>2, <2>3, <2>4 DEF At
  <2> QED
    BY <2>5 DEF RorInv, RorAt5
<1>8. CASE RorAt5
  <2>1. PICK m \in Nat : /\ m < RorTurns /\ At(5) /\ steps = 5 + 4 * m
                         /\ Counter = Start \div Pow2[m + 2]
                         /\ F_Z \in ctx.sreg <=> m + 1 = RorTurns
    BY <1>8 DEF RorAt5
  <2>2. /\ status' = "running" /\ steps' = steps + 1 /\ flash' = flash
        /\ ctx'.regs = ctx.regs /\ Counter' = Counter
        /\ F_Z \in ctx.sreg => ctx'.pc = 6
        /\ F_Z \notin ctx.sreg => ctx'.pc = 2
    <3>1. Steps /\ Written(opcode) = << "brbc", F_Z, -4 >> /\ ctx.pc = 5
      BY <1>2, <2>1 DEF At
    <3>2. -4 \in Int /\ 5 + 1 + (-4) = 2 /\ 5 + 1 = 6
      OBVIOUS
    <3> QED
      BY <3>1, <3>2, BackStep
  <2>3. CASE F_Z \in ctx.sreg
    <3>1. At(6)' /\ steps' = 2 + 4 * RorTurns'
      BY <1>0, <1>t, <2>1, <2>2, <2>3 DEF At
    <3> QED
      BY <3>1 DEF RorInv
  <2>4. CASE F_Z \notin ctx.sreg
    <3>1. PICK k \in Nat : k = m + 1
      OBVIOUS
    <3>2. k < RorTurns' /\ At(2)' /\ steps' = 2 + 4 * k
      BY <1>0, <1>t, <2>1, <2>2, <2>4, <3>1 DEF At
    <3>3. Counter' = Start' \div Pow2[k + 1]
      <4>1. m + 2 = k + 1
        BY <3>1
      <4> QED
        BY <1>0, <2>1, <2>2, <4>1
    <3> QED
      BY <3>2, <3>3 DEF RorInv, RorAt2
  <2> QED
    BY <2>3, <2>4
<1>9. CASE At(6) /\ steps = 2 + 4 * RorTurns
  <2>1. Finished' /\ steps' = steps + 1 /\ flash' = flash
    BY <1>2, <1>9, LoopEnds
  <2> QED
    BY <1>0, <1>t, <1>9, <2>1 DEF RorInv
<1>10. ~Finished
  BY DEF Finished, run_bin
<1> QED
  BY <1>4, <1>5, <1>6, <1>7, <1>8, <1>9, <1>10 DEF RorInv

-----------------------------------------------------------------------------
(* All the loops.                                                          *)

LoopsInv ==
  /\ IInv
  /\ IsLoop(SbiwLoop) => SbiwInv
  /\ IsLoop(AdiwLoop) => AdiwInv
  /\ IsLoop(DecLoop) => DecInv
  /\ IsLoop(SubiLoop) => SubiInv
  /\ IsLoop(BrccLoop) => BrccInv
  /\ IsLoop(CpseLoop) => CpseInv
  /\ IsLoop(RorLoop) => RorInv

LEMMA LoopsInit == HostInit => LoopsInv
<1> SUFFICES ASSUME HostInit PROVE LoopsInv
  OBVIOUS
<1>1. IInv
  BY InitInv DEF HostInit
<1>2. ctx.pc = 0 /\ status = "running" /\ steps = 0
  BY DEF HostInit, Init, avrvm_init
<1>3. LoopLoading
  BY <1>2 DEF LoopLoading
<1> QED
  BY <1>1, <1>3 DEF LoopsInv, SbiwInv, AdiwInv, DecInv, SubiInv, BrccInv, CpseInv, RorInv

LEMMA SameLoop ==
  ASSUME flash' = flash, NEW loop
  PROVE  IsLoop(loop)' <=> IsLoop(loop)
  BY DEF IsLoop, LoadsInto, Follows

LEMMA SameTurns ==
  ASSUME flash' = flash
  PROVE  /\ Low' = Low /\ High' = High /\ Start' = Start
         /\ SbiwTurns' = SbiwTurns
         /\ AdiwTurns' = AdiwTurns
         /\ DecTurns' = DecTurns
         /\ SubiTurns' = SubiTurns
         /\ BrccTurns' = BrccTurns
         /\ CpseTurns' = CpseTurns
         /\ RorTurns' = RorTurns
<1>1. Low' = Low /\ High' = High /\ Start' = Start
  BY DEF Low, High, Start, Loaded
<1> QED
  BY <1>1 DEF SbiwTurns, AdiwTurns, DecTurns, SubiTurns, BrccTurns, CpseTurns, RorTurns

(* The observation of a program that has ended changes nothing.            *)
LEMMA LoopsStutter ==
  ASSUME LoopsInv, UNCHANGED hostvars
  PROVE  LoopsInv'
<1>1. flash' = flash /\ ctx' = ctx /\ rc' = rc /\ status' = status /\ steps' = steps
  BY DEF hostvars
<1>2. IInv'
  BY <1>1 DEF LoopsInv, IInv, TypeOK
<1>3. /\ LoopLoading' <=> LoopLoading
      /\ \A n : At(n)' <=> At(n)
      /\ Finished' <=> Finished
      /\ Counter' = Counter
  BY <1>1, SameTurns DEF LoopLoading, At, Finished, Counter
<1>4. SbiwInv' <=> SbiwInv
  <2>1. (SbiwAt2' <=> SbiwAt2) /\ (SbiwAt3' <=> SbiwAt3)
    BY <1>1, <1>3, SameTurns DEF SbiwAt2, SbiwAt3
  <2> QED
    BY <1>1, <1>3, <2>1, SameTurns DEF SbiwInv
<1>5. AdiwInv' <=> AdiwInv
  <2>1. (AdiwAt2' <=> AdiwAt2) /\ (AdiwAt3' <=> AdiwAt3)
    BY <1>1, <1>3, SameTurns DEF AdiwAt2, AdiwAt3
  <2> QED
    BY <1>1, <1>3, <2>1, SameTurns DEF AdiwInv
<1>6. DecInv' <=> DecInv
  <2>1. (DecAt2' <=> DecAt2) /\ (DecAt3' <=> DecAt3)
    BY <1>1, <1>3, SameTurns DEF DecAt2, DecAt3
  <2> QED
    BY <1>1, <1>3, <2>1, SameTurns DEF DecInv
<1>7. SubiInv' <=> SubiInv
  <2>1. (SubiAt2' <=> SubiAt2) /\ (SubiAt3' <=> SubiAt3) /\ (SubiAt4' <=> SubiAt4)
    BY <1>1, <1>3, SameTurns DEF SubiAt2, SubiAt3, SubiAt4, Borrowing, LowFlags
  <2> QED
    BY <1>1, <1>3, <2>1, SameTurns DEF SubiInv
<1>8. BrccInv' <=> BrccInv
  <2>1. (BrccAt2' <=> BrccAt2) /\ (BrccAt3' <=> BrccAt3) /\ (BrccAt4' <=> BrccAt4)
    BY <1>1, <1>3, SameTurns DEF BrccAt2, BrccAt3, BrccAt4, Borrowing, LowFlags
  <2> QED
    BY <1>1, <1>3, <2>1, SameTurns DEF BrccInv
<1>9. CpseInv' <=> CpseInv
  <2>1. (CpseAt2' <=> CpseAt2) /\ (CpseAt3' <=> CpseAt3) /\ (CpseAt4' <=> CpseAt4)
    BY <1>1, <1>3, SameTurns DEF CpseAt2, CpseAt3, CpseAt4
  <2> QED
    BY <1>1, <1>3, <2>1, SameTurns DEF CpseInv
<1>10. RorInv' <=> RorInv
  <2>1. (RorAt2' <=> RorAt2) /\ (RorAt3' <=> RorAt3) /\ (RorAt4' <=> RorAt4) /\ (RorAt5' <=> RorAt5)
    BY <1>1, <1>3, SameTurns DEF RorAt2, RorAt3, RorAt4, RorAt5, Halving
  <2> QED
    BY <1>1, <1>3, <2>1, SameTurns DEF RorInv
<1> QED
  BY <1>1, <1>2, SameLoop, <1>4, <1>5, <1>6, <1>7, <1>8, <1>9, <1>10 DEF LoopsInv

LEMMA LoopsStep == LoopsInv /\ [HostNext]_hostvars => LoopsInv'
<1> SUFFICES ASSUME LoopsInv, [HostNext]_hostvars PROVE LoopsInv'
  OBVIOUS
<1>1. CASE run_bin
  <2>1. IInv' /\ flash' = flash
    BY <1>1, ExecInv, FlashKept DEF run_bin, LoopsInv
  <2>2. IsLoop(SbiwLoop)' => SbiwInv'
    BY <1>1, <2>1, SameLoop, SbiwLoopStep DEF LoopsInv
  <2>3. IsLoop(AdiwLoop)' => AdiwInv'
    BY <1>1, <2>1, SameLoop, AdiwLoopStep DEF LoopsInv
  <2>4. IsLoop(DecLoop)' => DecInv'
    BY <1>1, <2>1, SameLoop, DecLoopStep DEF LoopsInv
  <2>5. IsLoop(SubiLoop)' => SubiInv'
    BY <1>1, <2>1, SameLoop, SubiLoopStep DEF LoopsInv
  <2>6. IsLoop(BrccLoop)' => BrccInv'
    BY <1>1, <2>1, SameLoop, BrccLoopStep DEF LoopsInv
  <2>7. IsLoop(CpseLoop)' => CpseInv'
    BY <1>1, <2>1, SameLoop, CpseLoopStep DEF LoopsInv
  <2>8. IsLoop(RorLoop)' => RorInv'
    BY <1>1, <2>1, SameLoop, RorLoopStep DEF LoopsInv
  <2> QED
    BY <2>1, <2>2, <2>3, <2>4, <2>5, <2>6, <2>7, <2>8 DEF LoopsInv
<1>2. CASE UNCHANGED hostvars
  BY <1>2, LoopsStutter
<1> QED
  BY <1>1, <1>2 DEF HostNext, Over

LEMMA LoopsAlways == HostSpec => []LoopsInv
  BY LoopsInit, LoopsStep, PTL DEF HostSpec

(* When a loop ends, it has made as many turns as its counter says.        *)
LEMMA AtTheBreak ==
  ASSUME LoopsInv, Finished
  PROVE  CountsExactly
<1>1. ~LoopLoading /\ \A n : ~At(n)
  BY DEF Finished, LoopLoading, At
<1>2. IsLoop(SbiwLoop) => steps = 3 + 2 * SbiwTurns
  <2>1. ~SbiwAt2 /\ ~SbiwAt3
    BY <1>1 DEF SbiwAt2, SbiwAt3
  <2> QED
    BY <1>1, <2>1 DEF LoopsInv, SbiwInv
<1>3. IsLoop(AdiwLoop) => steps = 3 + 2 * AdiwTurns
  <2>1. ~AdiwAt2 /\ ~AdiwAt3
    BY <1>1 DEF AdiwAt2, AdiwAt3
  <2> QED
    BY <1>1, <2>1 DEF LoopsInv, AdiwInv
<1>4. IsLoop(DecLoop) => steps = 3 + 2 * DecTurns
  <2>1. ~DecAt2 /\ ~DecAt3
    BY <1>1 DEF DecAt2, DecAt3
  <2> QED
    BY <1>1, <2>1 DEF LoopsInv, DecInv
<1>5. IsLoop(SubiLoop) => steps = 3 + 3 * SubiTurns
  <2>1. ~SubiAt2 /\ ~SubiAt3 /\ ~SubiAt4
    BY <1>1 DEF SubiAt2, SubiAt3, SubiAt4
  <2> QED
    BY <1>1, <2>1 DEF LoopsInv, SubiInv
<1>6. IsLoop(BrccLoop) => steps = 3 + 3 * BrccTurns
  <2>1. ~BrccAt2 /\ ~BrccAt3 /\ ~BrccAt4
    BY <1>1 DEF BrccAt2, BrccAt3, BrccAt4
  <2> QED
    BY <1>1, <2>1 DEF LoopsInv, BrccInv
<1>7. IsLoop(CpseLoop) => steps = 2 + 3 * CpseTurns
  <2>1. ~CpseAt2 /\ ~CpseAt3 /\ ~CpseAt4
    BY <1>1 DEF CpseAt2, CpseAt3, CpseAt4
  <2> QED
    BY <1>1, <2>1 DEF LoopsInv, CpseInv
<1>8. IsLoop(RorLoop) => steps = 3 + 4 * RorTurns
  <2>1. ~RorAt2 /\ ~RorAt3 /\ ~RorAt4 /\ ~RorAt5
    BY <1>1 DEF RorAt2, RorAt3, RorAt4, RorAt5
  <2> QED
    BY <1>1, <2>1 DEF LoopsInv, RorInv
<1>9. IsLoop(RorLoop) => \E n \in 1 .. 16 : HasBits(Start, n) /\ steps = 3 + 4 * n
  <2>1. SUFFICES ASSUME IsLoop(RorLoop)
                 PROVE  \E n \in 1 .. 16 : HasBits(Start, n) /\ steps = 3 + 4 * n
    OBVIOUS
  <2>2. Sized(RorLoop, 4)
    BY DEF RorLoop, Sized
  <2>3. Start \in Word
    BY <2>1, <2>2, CounterBytes DEF LoopsInv
  <2> QED
    BY <1>8, <2>1, <2>3, RorTurnsAre
<1> QED
  BY <1>2, <1>3, <1>4, <1>5, <1>6, <1>7, <1>9
  DEF CountsExactly, SbiwTurns, AdiwTurns, DecTurns, SubiTurns, BrccTurns, CpseTurns

(* The loops a compiler makes to count end, when they do, after exactly as *)
(* many turns as the number in r25:r24 says, whatever the number: each     *)
(* flag that decides whether the branch is taken is right on every turn.   *)
THEOREM CountsExactlyRight == HostSpec => []CountsExactly
<1>1. LoopsInv => CountsExactly
  BY AtTheBreak DEF CountsExactly
<1> QED
  BY <1>1, LoopsAlways, PTL
=============================================================================
