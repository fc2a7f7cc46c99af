-------------------------- MODULE CallTraceProofs --------------------------
(***************************************************************************)
(* Every live return address is intact and every ret at its call's stack   *)
(* level goes back behind that call: for every program, every size of the  *)
(* memories and every set of I/O registers.                                *)
(*                                                                         *)
(* A step of the machine writes at most three cells of the data space: the *)
(* two that a push or a call puts on the stack, which lie at and below the *)
(* stack pointer, and the one a store names.  A live frame lies above the  *)
(* stack pointer and dies when a store names one of its bytes.             *)
(***************************************************************************)
EXTENDS CallTrace, AvrVMProofs

-----------------------------------------------------------------------------
(* The stack.                                                              *)

(* A return address goes to the two cells at and below the stack pointer.  *)
LEMMA PushwKeeps ==
  ASSUME NEW c \in Context, NEW w \in Word, c.sp >= SramBase - 1
  PROVE  /\ \A o \in SramIndex : SramBase + o > c.sp => pushw(c, w).sram[o] = c.sram[o]
         /\ InSram(c.sp) => Returning(pushw(c, w), c.sp) = w
<1> DEFINE m == push(c, Hi(w))
<1> HIDE DEF m
<1>1. Hi(w) \in Byte /\ Lo(w) \in Byte /\ Lo(w) + 256 * Hi(w) = w
  <2>1. Lo(w) + 256 * Hi(w) = w
    <3>1. w \in Int /\ 0 <= w /\ w <= 65535
      BY WordRange
    <3> QED
      BY <3>1, SMT DEF Lo, Hi
  <2> QED
    BY <2>1, IntegerSets, WrapType
<1>2. c.sp \in Int /\ SramBase \in Int /\ SramIndex \subseteq Int /\ SramSize \in Int
  BY ContextFields, WordRange, SramAssumption DEF SramBase, SramIndex
<1>3. /\ m \in Context
      /\ m.sp = c.sp - 1
      /\ \A o \in SramIndex : c.sp # SramBase + o => m.sram[o] = c.sram[o]
      /\ \A o \in SramIndex : c.sp = SramBase + o => m.sram[o] = Hi(w)
  BY <1>1, PushKeeps DEF m
<1>4. pushw(c, w) = push(m, Lo(w))
  BY DEF pushw, m
<1>5. ASSUME NEW o \in SramIndex, SramBase + o > c.sp
      PROVE  pushw(c, w).sram[o] = c.sram[o]
  <2>1. CASE c.sp >= SramBase
    <3>1. m.sp >= SramBase - 1 /\ m.sp # SramBase + o
      BY <1>2, <1>3, <1>5, <2>1
    <3> QED
      BY <1>1, <1>2, <1>3, <1>4, <1>5, <3>1, PushKeeps
  <2>2. CASE c.sp = SregAddr
    <3> DEFINE n == [m EXCEPT !.sp = Wrap16(m.sp - 1)]
    <3>1. m.sp = Sph
      BY <1>3, <2>2 DEF SregAddr, Sph
    <3>2. Wrap16(m.sp - 1) \in Word /\ Sph \in Word
      BY <3>1, WordRange DEF Sph, Wrap16
    <3>3. n \in Context /\ n.sram = m.sram
      BY <1>3, <3>2, ContextUpdates DEF Context
    <3>4. pushw(c, w) = writemem(n, Sph, Lo(w))
      BY <1>4, <3>1 DEF push
    <3>5. Sph # SramBase + o
      BY <1>5, <2>2, <1>2 DEF Sph, SramBase, SregAddr
    <3> HIDE DEF n
    <3>6. pushw(c, w).sram[o] = m.sram[o]
      BY <1>1, <3>2, <3>3, <3>4, <3>5, WriteKeeps
    <3> QED
      BY <1>2, <1>3, <1>5, <3>6
  <2> QED
    BY <1>2, <2>1, <2>2 DEF SramBase, SregAddr
<1>6. ASSUME InSram(c.sp)
      PROVE  Returning(pushw(c, w), c.sp) = w
  <2> DEFINE hi == c.sp - SramBase
             lo == c.sp - 1 - SramBase
  <2>1. /\ c.sp >= SramBase /\ c.sp < SramBase + SramSize
        /\ c.sp - 1 >= SramBase /\ c.sp - 1 < SramBase + SramSize
        /\ c.sp - 1 \in Int
    BY <1>2, <1>6 DEF InSram
  <2>2. /\ readmem(pushw(c, w), c.sp) = pushw(c, w).sram[hi] /\ hi \in SramIndex
        /\ readmem(pushw(c, w), c.sp - 1) = pushw(c, w).sram[lo] /\ lo \in SramIndex
    BY <1>2, <2>1, SramRead
  <2>3. c.sp = SramBase + hi /\ m.sp = SramBase + lo /\ m.sp # SramBase + hi
        /\ m.sp >= SramBase - 1
    BY <1>2, <1>3, <2>1
  <2> HIDE DEF hi, lo
  <2>4. pushw(c, w).sram[hi] = Hi(w)
    BY <1>1, <1>3, <1>4, <2>2, <2>3, PushKeeps
  <2>5. pushw(c, w).sram[lo] = Lo(w)
    BY <1>1, <1>3, <1>4, <2>2, <2>3, PushKeeps
  <2> QED
    BY <1>1, <2>2, <2>4, <2>5 DEF Returning
<1> QED
  BY <1>5, <1>6

-----------------------------------------------------------------------------
(* One call of avrvm_exec.                                                 *)

(* The context updates that leave the SRAM alone.                          *)
LEMMA SameSram ==
  ASSUME NEW c \in Context
  PROVE  /\ \A n, b : [c EXCEPT !.regs[n] = b].sram = c.sram
         /\ \A n, b, t : [c EXCEPT !.regs[n] = b, !.sreg = t].sram = c.sram
         /\ \A t : [c EXCEPT !.sreg = t].sram = c.sram
         /\ \A w : [c EXCEPT !.pc = w].sram = c.sram
         /\ \A w : [c EXCEPT !.sp = w].sram = c.sram
         /\ \A n, w : SetWord(c, n, w).sram = c.sram
         /\ \A w : Jump(c, w).sram = c.sram
         /\ skip_instr(c).sram = c.sram
         /\ Popped(c).sram = c.sram
<1>1. \A n, w : SetWord(c, n, w).sram = c.sram
  BY DEF SetWord, Context
<1>2. skip_instr(c).sram = c.sram
  BY DEF skip_instr, Context
<1> QED
  BY <1>1, <1>2 DEF Context, Jump, Popped

(* The fetch moves only pc.                                                *)
LEMMA FetchSram ==
  ASSUME IInv
  PROVE  /\ fetched.sram = ctx.sram /\ fetched2.sram = ctx.sram
         /\ fetched.sp = ctx.sp /\ fetched2.sp = ctx.sp
  BY Fetch DEF fetched, fetched2, Context

(* The I/O registers lie below the SRAM.                                   *)
LEMMA PortSram ==
  ASSUME IInv, NEW b \in Byte, NEW o \in SramIndex,
         instr \in {"in", "out"} \cup PortBits
  PROVE  writemem(fetched, 32 + port(instr, opcode), b).sram[o] = ctx.sram[o]
<1>1. 32 + port(instr, opcode) < SramBase
  <2>1. opcode \in Int
    BY Fetch, IntegerSets
  <2> QED
    BY <2>1, SMT DEF port, Field, PortBits, SramBase
<1>2. SramBase + o >= SramBase /\ SramBase + o \in Int
  BY SramAssumption DEF SramIndex, SramBase
<1>3. 32 + port(instr, opcode) \in Word /\ 32 + port(instr, opcode) # SramBase + o
  <2>1. 32 + port(instr, opcode) \in Word
    BY Ports
  <2> QED
    BY <1>1, <1>2, <2>1, WordRange DEF SramBase
<1> QED
  BY <1>3, Fetch, FetchSram, WriteKeeps

(* Arithmetic and logic leave the SRAM alone.                              *)
LEMMA ArithmeticSram ==
  ASSUME IInv,
         \/ Add \/ Sub \/ Neg \/ Compare \/ AddWord \/ Logic \/ Com \/ IncDec
         \/ Mul \/ FMul \/ Shift \/ Swap
  PROVE  ctx'.sram = ctx.sram
<1> USE Fetch, FetchSram, SameSram
<1>1. \A out : Result(out) => ctx'.sram = ctx.sram
  BY DEF Result, Ok, Return
<1>2. \A out : Flags(out) => ctx'.sram = ctx.sram
  BY DEF Flags, Ok, Return
<1>3. \A n, out : ResultWord(n, out) => ctx'.sram = ctx.sram
  BY DEF ResultWord, Ok, Return, SetWord, Context
<1>4. Swap => ctx'.sram = ctx.sram
  BY DEF Swap, Ok, Return
<1> QED
  BY <1>1, <1>2, <1>3, <1>4 DEF Add, Sub, Neg, Compare, AddWord, Logic, Com, IncDec,
     Mul, FMul, Shift

(* Jumps, returns, skips and branches leave the SRAM alone, and a call     *)
(* everything above the stack pointer.                                     *)
LEMMA ControlSram ==
  ASSUME IInv, ctx.sp >= SramBase - 1, NEW o \in SramIndex, SramBase + o > ctx.sp,
         \/ Rjmp \/ Ijmp \/ Jmp \/ Rcall \/ Icall \/ Call \/ Ret
         \/ SkipEqual \/ SkipReg \/ SkipPort \/ Branch
  PROVE  ctx'.sram[o] = ctx.sram[o]
<1> USE Fetch, FetchSram, SameSram
<1>1. ASSUME NEW c \in {fetched, fetched2}
      PROVE  /\ pushw(c, c.pc) \in Context
             /\ pushw(c, c.pc).sram[o] = c.sram[o]
  <2>1. c \in Context /\ c.sp = ctx.sp
    OBVIOUS
  <2>2. c.pc \in Word
    BY <2>1, ContextFields
  <2> QED
    BY <2>1, <2>2, CallTypes, PushwKeeps
<1>2. ASSUME NEW c \in {fetched, fetched2}, NEW w
      PROVE  Ok(Jump(pushw(c, c.pc), w)) => ctx'.sram[o] = ctx.sram[o]
  BY <1>1 DEF Ok, Return
<1>3. Rcall \/ Icall \/ Call => ctx'.sram[o] = ctx.sram[o]
  BY <1>2 DEF Rcall, Icall, Call, Return
<1>4. Rjmp \/ Ijmp \/ Jmp \/ Branch => ctx'.sram = ctx.sram
  BY DEF Rjmp, Ijmp, Jmp, Branch, Ok, Return
<1>5. Ret => ctx'.sram = ctx.sram
  <2>1. /\ Popped(fetched) \in Context
        /\ Popped(Popped(fetched)) \in Context
    BY StackTypes
  <2>2. Popped(Popped(fetched)).sram = ctx.sram
    BY <2>1
  <2> QED
    BY <2>1, <2>2 DEF Ret, Ok, Return
<1>6. \A cond : SkipIf(cond) => ctx'.sram = ctx.sram
  BY DEF SkipIf, Ok, Return
<1>7. SkipEqual \/ SkipReg \/ SkipPort => ctx'.sram = ctx.sram
  BY <1>6 DEF SkipEqual, SkipReg, SkipPort
<1> QED
  BY <1>3, <1>4, <1>5, <1>7

(* A store writes the address it names, a push the one at the stack        *)
(* pointer; moves and loads leave the SRAM alone.                          *)
LEMMA MoveSram ==
  ASSUME IInv, ctx.sp >= SramBase - 1, NEW o \in SramIndex, SramBase + o > ctx.sp,
         SramBase + o \notin Overwritten,
         \/ Mov \/ Movw \/ Ldi \/ Load \/ Lds \/ Store \/ Sts \/ Lpm
         \/ In \/ Out \/ Push \/ Pop
  PROVE  ctx'.sram[o] = ctx.sram[o]
<1> USE Fetch, FetchSram, SameSram
<1>0. ASSUME NEW c \in {fetched, fetched2, Popped(fetched)}, NEW n, NEW b
      PROVE  Ok([c EXCEPT !.regs[n] = b]) => ctx'.sram = ctx.sram
  <2>1. c \in Context /\ c.sram = ctx.sram
    <3>1. Popped(fetched) \in Context /\ Popped(fetched).sram = ctx.sram
      BY StackTypes
    <3> QED
      BY <3>1
  <2>2. [c EXCEPT !.regs[n] = b].sram = ctx.sram
    BY <2>1
  <2> QED
    BY <2>2 DEF Ok, Return
<1>1. Mov \/ Movw \/ Ldi \/ Lds \/ In => ctx'.sram = ctx.sram
  <2>1. \A n, w : Ok(SetWord(fetched, n, w)) => ctx'.sram = ctx.sram
    BY DEF Ok, Return
  <2> QED
    BY <1>0, <2>1 DEF Mov, Movw, Ldi, Lds, In
<1>2. Pop => ctx'.sram = ctx.sram
  BY <1>0 DEF Pop
<1>3. Lpm => ctx'.sram = ctx.sram
  BY DEF Lpm, Ok, Return, SetWord, Context
<1>4. Moved.sram = ctx.sram \/ instr \notin Loads \cup Stores
  BY DEF Moved, Loads, Stores, PlainPointers, PostIncrement, PreDecrement
<1>5. Load => ctx'.sram = ctx.sram
  BY <1>4, Pointers DEF Load, Ok, Return
<1>6. Store => ctx'.sram[o] = ctx.sram[o]
  <2> SUFFICES ASSUME instr \in Stores, NEW b \in {RR, Moved.regs[Rr]},
                      Ok(writemem(Moved, Address, b))
               PROVE  ctx'.sram[o] = ctx.sram[o]
    BY DEF Store
  <2>1. Rr \in RegIndex /\ RR \in Byte
    BY Operands DEF Stores, HasRr, RrPlain, DirectStores
  <2>2. Address \in Word /\ Moved \in Context /\ b \in Byte
    BY <2>1, Pointers, ContextFields
  <2>3. Address # SramBase + o
    BY DEF Overwritten
  <2> QED
    BY <1>4, <2>2, <2>3, WriteKeeps DEF Ok, Return
<1>7. Sts => ctx'.sram[o] = ctx.sram[o]
  <2> SUFFICES ASSUME instr = "sts", Ok(writemem(fetched2, operand, RR))
               PROVE  ctx'.sram[o] = ctx.sram[o]
    BY DEF Sts
  <2>1. RR \in Byte
    BY Operands DEF HasRr, RrPlain, DirectStores
  <2>2. operand # SramBase + o
    BY DEF Overwritten, Stores
  <2> QED
    BY <2>1, <2>2, WriteKeeps DEF Ok, Return
<1>8. Out => ctx'.sram[o] = ctx.sram[o]
  <2> SUFFICES ASSUME instr = "out", Ok(writemem(fetched, 32 + port(instr, opcode), RR))
               PROVE  ctx'.sram[o] = ctx.sram[o]
    BY DEF Out
  <2>1. RR \in Byte
    BY Operands DEF HasRr, RrPlain
  <2> QED
    BY <2>1, PortSram DEF Ok, Return
<1>9. Push => ctx'.sram[o] = ctx.sram[o]
  <2> SUFFICES ASSUME instr = "push", Ok(push(fetched, RR))
               PROVE  ctx'.sram[o] = ctx.sram[o]
    BY DEF Push
  <2>1. RR \in Byte
    BY Operands DEF HasRr, RrPlain
  <2>2. fetched.sp # SramBase + o
    BY ContextFields, WordRange, SramAssumption DEF SramIndex, SramBase
  <2> QED
    BY <2>1, <2>2, PushKeeps DEF Ok, Return
<1> QED
  BY <1>1, <1>2, <1>3, <1>5, <1>6, <1>7, <1>8, <1>9

(* Bit instructions and those that only return a code leave the SRAM alone.*)
LEMMA BitSram ==
  ASSUME IInv, NEW o \in SramIndex,
         \/ Bset \/ Bclr \/ Sbi \/ Cbi \/ Bst \/ Bld \/ Nop \/ Special
  PROVE  ctx'.sram[o] = ctx.sram[o]
<1> USE Fetch, FetchSram, SameSram
<1>1. \A t : Ok([fetched EXCEPT !.sreg = t]) => ctx'.sram = ctx.sram
  BY DEF Ok, Return
<1>2. Bset \/ Bclr \/ Bst => ctx'.sram = ctx.sram
  BY <1>1 DEF Bset, Bclr, Bst
<1>3. \A n, b : Ok([fetched EXCEPT !.regs[n] = b]) => ctx'.sram = ctx.sram
  BY DEF Ok, Return
<1>4. Bld => ctx'.sram = ctx.sram
  BY <1>3 DEF Bld
<1>5. \A b \in Byte : instr \in PortBits /\ Ok(writemem(fetched, 32 + port(instr, opcode), b))
                   => ctx'.sram[o] = ctx.sram[o]
  BY PortSram DEF Ok, Return
<1>6. Sbi \/ Cbi => ctx'.sram[o] = ctx.sram[o]
  BY <1>5, ByteOfType DEF Sbi, Cbi, PortBits
<1>7. Nop \/ Special => ctx'.sram = ctx.sram
  BY DEF Nop, Special, Ok, Return
<1> QED
  BY <1>2, <1>4, <1>6, <1>7

(* Whatever the instruction, an SRAM cell above the stack that no store    *)
(* names keeps its contents.                                               *)
LEMMA StackKept ==
  ASSUME IInv, avrvm_exec, ctx.sp >= SramBase - 1,
         NEW o \in SramIndex, SramBase + o > ctx.sp, SramBase + o \notin Overwritten
  PROVE  ctx'.sram[o] = ctx.sram[o]
<1>1. CASE \/ Add \/ Sub \/ Neg \/ Compare \/ AddWord \/ Logic \/ Com \/ IncDec
           \/ Mul \/ FMul \/ Shift \/ Swap
  BY <1>1, ArithmeticSram
<1>2. CASE \/ Rjmp \/ Ijmp \/ Jmp \/ Rcall \/ Icall \/ Call \/ Ret
           \/ SkipEqual \/ SkipReg \/ SkipPort \/ Branch
  BY <1>2, ControlSram
<1>3. CASE \/ Mov \/ Movw \/ Ldi \/ Load \/ Lds \/ Store \/ Sts \/ Lpm
           \/ In \/ Out \/ Push \/ Pop
  BY <1>3, MoveSram
<1>4. CASE Bset \/ Bclr \/ Sbi \/ Cbi \/ Bst \/ Bld \/ Nop \/ Special
  BY <1>4, BitSram
<1> QED
  BY <1>1, <1>2, <1>3, <1>4 DEF avrvm_exec

(* Which case of the switch the calls and ret are.                         *)
LEMMA CallCases ==
  ASSUME avrvm_exec
  PROVE  /\ instr = "rcall" => Rcall
         /\ instr = "icall" => Icall
         /\ instr = "call"  => Call
         /\ instr = "ret"   => Ret
<1> DEFINE others == instr \notin {"rcall", "icall", "call", "ret"}
<1>1. Add \/ Sub \/ Neg \/ Compare \/ AddWord \/ Logic \/ Com \/ IncDec => others
  BY DEF Add, Sub, Neg, Compare, AddWord, Logic, Com, IncDec, WordImm
<1>2. Mul \/ FMul \/ Shift \/ Swap => others
  BY DEF Mul, FMul, Shift, Swap
<1>3. Rjmp \/ Ijmp \/ Jmp \/ SkipEqual \/ SkipReg \/ SkipPort \/ Branch => others
  BY DEF Rjmp, Ijmp, Jmp, SkipEqual, SkipReg, SkipPort, Branch
<1>4. Mov \/ Movw \/ Ldi \/ Load \/ Lds \/ Store \/ Sts \/ Lpm => others
  BY DEF Mov, Movw, Ldi, Load, Loads, Lds, Store, Stores, Sts, Lpm
<1>5. In \/ Out \/ Push \/ Pop => others
  BY DEF In, Out, Push, Pop
<1>6. Bset \/ Bclr \/ Sbi \/ Cbi \/ Bst \/ Bld \/ Nop \/ Special => others
  BY DEF Bset, Bclr, Sbi, Cbi, Bst, Bld, Nop, Special
<1>7. others \/ Rcall \/ Icall \/ Call \/ Ret
  BY <1>1, <1>2, <1>3, <1>4, <1>5, <1>6 DEF avrvm_exec
<1> QED
  BY <1>7 DEF Rcall, Icall, Call, Ret

(* A step that calls puts the address of the next instruction on the       *)
(* stack.                                                                  *)
LEMMA CallPushes ==
  ASSUME IInv, avrvm_exec, Calling, InSram(ctx.sp)
  PROVE  Returning(ctx', ctx.sp) = Following /\ Following \in Word
<1> USE Fetch, FetchSram, SameSram
<1>1. /\ fetched.pc \in Word /\ fetched2.pc \in Word
      /\ ctx.sp \in Int /\ ctx.sp >= SramBase - 1
  BY ContextFields, WordRange DEF InSram, SramBase
<1>2. /\ instr \in {"rcall", "icall"} => Following = fetched.pc
      /\ instr = "call" => Following = fetched2.pc
  BY DEF Following, fetched, fetched2, TwoWords, Context
<1>3. ASSUME NEW c \in {fetched, fetched2}, NEW w
      PROVE  Ok(Jump(pushw(c, c.pc), w)) => Returning(ctx', ctx.sp) = c.pc
  <2>1. c \in Context /\ c.sp = ctx.sp /\ c.pc \in Word
    BY <1>1
  <2>2. Returning(pushw(c, c.pc), ctx.sp) = c.pc /\ pushw(c, c.pc) \in Context
    <3>1. c.sp >= SramBase - 1 /\ InSram(c.sp)
      BY <1>1, <2>1
    <3>2. Returning(pushw(c, c.pc), c.sp) = c.pc
      BY <2>1, <3>1, PushwKeeps
    <3> QED
      BY <2>1, <3>2, CallTypes
  <2>3. Returning(Jump(pushw(c, c.pc), w), ctx.sp) = Returning(pushw(c, c.pc), ctx.sp)
    <3>1. /\ ctx.sp >= SramBase /\ ctx.sp < SramBase + SramSize
          /\ ctx.sp - 1 >= SramBase /\ ctx.sp - 1 < SramBase + SramSize
          /\ ctx.sp - 1 \in Int
      BY <1>1, SramAssumption DEF InSram, SramBase
    <3> QED
      BY <1>1, <2>2, <3>1, SramRead DEF Returning
  <2> QED
    BY <2>2, <2>3 DEF Ok, Return
<1>4. CASE instr = "rcall"
  BY <1>1, <1>2, <1>3, <1>4, CallCases DEF Rcall
<1>5. CASE instr = "icall" /\ WordReg(ctx, Z) < AVRVM_MAX_FLASH_WORDS
  BY <1>1, <1>2, <1>3, <1>5, CallCases DEF Icall
<1>6. CASE instr = "call" /\ Target < AVRVM_MAX_FLASH_WORDS
  BY <1>1, <1>2, <1>3, <1>6, CallCases DEF Call
<1> QED
  BY <1>4, <1>5, <1>6 DEF Calling

-----------------------------------------------------------------------------
(* The theorems.                                                           *)

(* The inductive invariant: a frame is kept only as long as it lies in the *)
(* SRAM and above the stack, which is what keeps its bytes from the next   *)
(* push.                                                                   *)
TraceInv == /\ IInv
            /\ \A s \in DOMAIN frames : /\ s \in Int /\ Lives(s, ctx)
                                       /\ frames[s] \in Word
                                       /\ Returning(ctx, s) = frames[s]

(* The bytes of a frame that was live before the step.                     *)
LEMMA FrameKept ==
  ASSUME TraceInv, avrvm_exec, NEW s \in DOMAIN frames, {s - 1, s} \cap Overwritten = {}
  PROVE  Returning(ctx', s) = frames[s]
<1>1. /\ IInv /\ s \in Int /\ s - 1 \in Int /\ ctx.sp \in Int
      /\ SramBase \in Int /\ SramSize \in Int
      /\ s - 1 >= SramBase /\ s < SramBase + SramSize /\ ctx.sp <= s - 2
      /\ ctx.sp >= SramBase - 1
  BY Fetch, ContextFields, WordRange, SramAssumption
     DEF TraceInv, Lives, InSram, Overflow, SramBase
<1>2. ASSUME NEW a \in {s - 1, s} PROVE readmem(ctx', a) = readmem(ctx, a)
  <2>1. a \in Int /\ a >= SramBase /\ a < SramBase + SramSize /\ a > ctx.sp
    BY <1>1
  <2> DEFINE o == a - SramBase
  <2>2. o \in SramIndex /\ readmem(ctx', a) = ctx'.sram[o] /\ readmem(ctx, a) = ctx.sram[o]
    BY <2>1, SramRead
  <2>3. SramBase + o = a
    BY <1>1, <2>1
  <2> HIDE DEF o
  <2>4. SramBase + o > ctx.sp /\ SramBase + o \notin Overwritten
    BY <2>1, <2>3
  <2> QED
    BY <1>1, <2>2, <2>4, StackKept
<1> QED
  BY <1>2 DEF TraceInv, Returning

(* One turn of the host's loop.                                            *)
LEMMA TraceStep == TraceInv /\ [TraceNext]_tracevars => TraceInv'
<1> SUFFICES ASSUME TraceInv, [TraceNext]_tracevars PROVE TraceInv'
  OBVIOUS
<1>1. CASE run_bin /\ Observe
  <2>1. IInv /\ avrvm_exec /\ IInv'
    BY <1>1, ExecInv DEF TraceInv, run_bin
  <2>2. ctx.sp \in Int
    BY <2>1, Fetch, ContextFields, IntegerSets
  <2>3. ASSUME NEW s \in DOMAIN frames'
        PROVE  /\ s \in DOMAIN Entered /\ Lives(s, ctx') /\ frames'[s] = Entered[s]
               /\ {s - 1, s} \cap Overwritten = {}
    BY <1>1 DEF Observe
  <2>4. ASSUME NEW s \in DOMAIN frames', Calling, s = ctx.sp
        PROVE  s \in Int /\ frames'[s] \in Word /\ Returning(ctx', s) = frames'[s]
    <3>1. Entered[s] = Following
      BY <2>4 DEF Entered
    <3>2. InSram(ctx.sp)
      BY <2>3, <2>4 DEF Lives
    <3> QED
      BY <2>1, <2>2, <2>3, <2>4, <3>1, <3>2, CallPushes
  <2>5. ASSUME NEW s \in DOMAIN frames', ~(Calling /\ s = ctx.sp)
        PROVE  s \in Int /\ frames'[s] \in Word /\ Returning(ctx', s) = frames'[s]
    <3>1. s \in DOMAIN frames /\ Entered[s] = frames[s]
      BY <2>3, <2>5 DEF Entered
    <3> QED
      BY <2>1, <2>3, <3>1, FrameKept DEF TraceInv
  <2>6. \A s \in DOMAIN frames' : /\ s \in Int /\ Lives(s, ctx')
                                 /\ frames'[s] \in Word
                                 /\ Returning(ctx', s) = frames'[s]
    BY <2>3, <2>4, <2>5
  <2> QED
    BY <2>1, <2>6 DEF TraceInv, Lives, InSram, Overflow, Returning
<1>2. CASE UNCHANGED tracevars
  BY <1>2 DEF tracevars, TraceInv, IInv, TypeOK, Lives, InSram, Overflow, Returning
<1>3. CASE Over /\ UNCHANGED frames
  BY <1>2, <1>3 DEF Over, hostvars, tracevars
<1> QED
  BY <1>1, <1>2, <1>3 DEF TraceNext

(* The machine starts with no call made.                                   *)
LEMMA TraceStart == TraceInit => TraceInv
  BY InitInv DEF TraceInit, HostInit, TraceInv

(* Whatever a script calls, pushes and pops, and whatever I/O registers it *)
(* writes, the stack pointer's included: the two bytes of every live frame *)
(* hold its return address.                                                *)
THEOREM FramesStayIntact == TraceSpec => []FramesIntact
<1>1. TraceInv => FramesIntact
  BY DEF TraceInv, FramesIntact
<1> QED
  BY <1>1, TraceStart, TraceStep, PTL DEF TraceSpec

(* A ret at the stack level of a live frame.                               *)
LEMMA RetPops ==
  ASSUME TraceInv, avrvm_exec, instr = "ret", ctx.sp + 2 \in DOMAIN frames
  PROVE  ctx'.pc = frames[ctx.sp + 2] /\ ctx'.sp = ctx.sp + 2
<1> DEFINE s == ctx.sp + 2
           c == Popped(fetched)
           e == Popped(c)
<1>1. /\ IInv /\ ctx.sp \in Int /\ 0 <= ctx.sp /\ s \in Int /\ s - 1 \in Int
      /\ SramBase \in Int /\ s - 1 >= SramBase /\ s < SramBase + SramSize
      /\ s - 1 < SramBase + SramSize /\ s >= SramBase /\ s <= 65535
      /\ frames[s] \in Word /\ Returning(ctx, s) = frames[s]
  BY Fetch, ContextFields, WordRange, SramAssumption
     DEF TraceInv, Lives, InSram, Overflow, SramBase
<1>2. /\ c \in Context /\ e \in Context /\ fetched \in Context
      /\ c.sp = s - 1 /\ e.sp = s /\ c.sram = ctx.sram /\ e.sram = ctx.sram
  <2>1. fetched \in Context /\ fetched.sp = ctx.sp /\ fetched.sram = ctx.sram
    BY <1>1, Fetch, FetchSram
  <2>2. c \in Context /\ c.sp = Wrap16(ctx.sp + 1) /\ c.sram = ctx.sram
    BY <2>1, StackTypes DEF Popped, Context
  <2>3. Wrap16(ctx.sp + 1) = s - 1 /\ Wrap16((s - 1) + 1) = s
    BY <1>1, SMT DEF Wrap16
  <2>4. e \in Context /\ e.sp = Wrap16(c.sp + 1) /\ e.sram = c.sram
    BY <2>2, StackTypes DEF Popped, Context
  <2> QED
    BY <2>1, <2>2, <2>3, <2>4
<1>3. Ok(Jump(e, popw(fetched)))
  BY CallCases DEF Ret
<1>4. popw(fetched) = readmem(c, c.sp) + 256 * readmem(e, e.sp)
  BY DEF popw, pop
<1> HIDE DEF c, e
<1>5. popw(fetched) = Returning(ctx, s)
  <2>1. readmem(c, s - 1) = readmem(ctx, s - 1) /\ readmem(e, s) = readmem(ctx, s)
    BY <1>1, <1>2, SramRead
  <2> QED
    BY <1>2, <1>4, <2>1 DEF Returning
<1>6. Wrap16(frames[s]) = frames[s]
  BY <1>1, WordRange, SMT DEF Wrap16
<1>7. ctx' = [e EXCEPT !.pc = frames[s]]
  BY <1>1, <1>3, <1>5, <1>6 DEF Ok, Return, Jump
<1> QED
  BY <1>2, <1>7 DEF Context

(* However deep calls nest and whatever happens between a call and the ret *)
(* that finds the stack where the call left it: that ret goes to the       *)
(* instruction after the call and frees the two bytes.                     *)
THEOREM RetReturnsToCaller == TraceSpec => ReturnsToCaller
<1>1. TraceInv /\ [TraceNext]_tracevars
      => [instr = "ret" /\ ctx.sp + 2 \in DOMAIN frames
            => steps' = steps \/ (/\ ctx'.pc = frames[ctx.sp + 2]
                                 /\ ctx'.sp = ctx.sp + 2)]_tracevars
  <2> SUFFICES ASSUME TraceInv, TraceNext, instr = "ret", ctx.sp + 2 \in DOMAIN frames,
                      steps' # steps
               PROVE  ctx'.pc = frames[ctx.sp + 2] /\ ctx'.sp = ctx.sp + 2
    OBVIOUS
  <2>1. avrvm_exec
    BY DEF TraceNext, run_bin, Over, hostvars
  <2> QED
    BY <2>1, RetPops
<1> QED
  BY <1>1, TraceStart, TraceStep, PTL DEF TraceSpec, ReturnsToCaller

=============================================================================
