------------------------------- MODULE AvrISA -------------------------------
(***************************************************************************)
(* What a script sees: a program counter and one flat data memory, in      *)
(* which the registers, the stack pointer and the status register have     *)
(* addresses like everything else, and instructions that read and write    *)
(* it.  AvrVM, with its separate context fields and callbacks, implements  *)
(* this (DataSpace of VMImplementsISA is the refinement mapping).          *)
(*                                                                         *)
(* The decoder is shared with AvrVM; the arithmetic is that of AvrArith.   *)
(* cbi clears a bit and a call to a host function reports that function's  *)
(* index: this is where the code departs from it.                          *)
(***************************************************************************)
EXTENDS AvrArith, AvrDecoder

CONSTANTS FlashWords, SramSize, IoPorts

VARIABLES flash, pc, mem, rc

isa == << flash, pc, mem, rc >>

SPL    == 93
SREG   == 95
HostTable == 32768

(* The addresses that hold a byte; the others read as 0.                   *)
Data == (0 .. 31) \cup { 32 + p : p \in IoPorts } \cup (SPL .. 95 + SramSize)

Peek(m, a)    == IF a \in Data THEN m[a] ELSE 0
Poke(m, a, b) == IF a \in Data THEN [m EXCEPT ![a] = b] ELSE m

PeekWord(m, a)    == m[a] + 256 * m[a + 1]
PokeWord(m, a, w) == [x \in Data |-> IF x = a THEN Lo(w)
                                     ELSE IF x = a + 1 THEN Hi(w) ELSE m[x]]

(* A word of the program; addresses are 16 bits wide, and the host wraps   *)
(* them at the end of its flash.                                           *)
FlashAt(i) == flash[(Wrap16(i) % FlashWords) + 1]

SP(m)      == PeekWord(m, SPL)
Push(m, b) == Poke(PokeWord(m, SPL, Wrap16(SP(m) - 1)), SP(m), b)
Drop(m)    == PokeWord(m, SPL, Wrap16(SP(m) + 1))
Top(m)     == Peek(Drop(m), SP(Drop(m)))

(* The high byte is pushed first: an address is little-endian in memory.   *)
PushWord(m, w) == Push(Push(m, Hi(w)), Lo(w))
TopWord(m)     == Top(m) + 256 * Top(Drop(m))

Flags(m) == BitsOf(m[SREG])
CarryIn  == IF F_C \in Flags(mem) THEN 1 ELSE 0

-----------------------------------------------------------------------------
(* i is the mnemonic and w the word at pc.                                 *)

Goto(target, m) == pc' = Wrap16(target) /\ mem' = m /\ rc' = -1
Continue(m)     == Goto(pc + 1, m)
Signal(code)    == pc' = Wrap16(pc + 1) /\ UNCHANGED mem /\ rc' = code

SetFlags(m, s)  == [m EXCEPT ![SREG] = ByteOf(s)]

(* Arithmetic: the result of an instruction and where it goes.             *)
Outcome(i, w) ==
  LET s == Flags(mem)
      d == mem[rd(i, w)]
      r == IF i \in UpperImm THEN imm(i, w) ELSE mem[rr(i, w)]
  IN  CASE i = "add"                           -> Sum(d, r, 0, s)
        [] i = "adc"                           -> Sum(d, r, CarryIn, s)
        [] i \in {"sub", "subi", "cp", "cpi"}  -> Difference(d, r, 0, FALSE, s)
        [] i \in {"sbc", "sbci", "cpc"}        -> Difference(d, r, CarryIn, TRUE, s)
        [] i = "neg"                           -> Difference(0, d, 0, FALSE, s)
        [] i \in {"and", "andi"}               -> Bitwise8(BitAnd(d, r), s)
        [] i \in {"or", "ori"}                 -> Bitwise8(BitOr(d, r), s)
        [] i = "eor"                           -> Bitwise8(BitXor(d, r), s)
        [] i = "com"                           -> Complement(d, s)
        [] i = "inc"                           -> Step(d, 1, s)
        [] i = "dec"                           -> Step(d, -1, s)
        [] i = "lsr"                           -> Halved(d, 0, s)
        [] i = "ror"                           -> Halved(d, CarryIn, s)
        [] i = "asr"                           -> Halved(d, d \div 128, s)
        [] i \in {"mul", "fmul"}     -> ProductOf(d * r, i = "fmul", s)
        [] i \in {"muls", "fmuls"}   -> ProductOf(Signed8(d) * Signed8(r), i = "fmuls", s)
        [] i \in {"mulsu", "fmulsu"} -> ProductOf(Signed8(d) * r, i = "fmulsu", s)

Compares   == {"cp", "cpi", "cpc"}
Multiplies == {"mul", "muls", "mulsu", "fmul", "fmuls", "fmulsu"}
ToRegister == {"add", "adc", "sub", "subi", "sbc", "sbci", "neg", "and", "andi",
               "or", "ori", "eor", "com", "inc", "dec", "lsr", "ror", "asr"}

Arithmetic(i, w) ==
  \/ /\ i \in Compares
     /\ Continue(SetFlags(mem, Outcome(i, w).sreg))
  \/ /\ i \in ToRegister
     /\ Continue(SetFlags([mem EXCEPT ![rd(i, w)] = Outcome(i, w).res],
                          Outcome(i, w).sreg))
  \/ /\ i \in Multiplies
     /\ Continue(SetFlags(PokeWord(mem, 0, Outcome(i, w).res), Outcome(i, w).sreg))
  \/ /\ i \in WordImm
     /\ LET pair == 2 * rd(i, w)
            k    == IF i = "adiw" THEN imm(i, w) ELSE 0 - imm(i, w)
            out  == WordSum(PeekWord(mem, pair), k, Flags(mem))
        IN  Continue(SetFlags(PokeWord(mem, pair, out.res), out.sreg))

(* Control.  A call enters the script's code below HostTable; above it the *)
(* host is told which of its functions is called, and nothing else happens.*)
HostCall(target, back) ==
  /\ pc' = Wrap16(back)
  /\ UNCHANGED mem
  /\ rc' = target - HostTable

ReturnTo(back) == PushWord(mem, Wrap16(back))

AbsoluteTarget == FlashAt(pc + 1)

Length(word) == IF avr_decode(word) \in {"lds", "sts", "call", "jmp"} THEN 2 ELSE 1

Tested(i, w) ==
  CASE i = "cpse" -> mem[rd(i, w)] = mem[rr(i, w)]
    [] i = "sbrs" -> bit(i, w) \in BitsOf(mem[rr(i, w)])
    [] i = "sbrc" -> bit(i, w) \notin BitsOf(mem[rr(i, w)])
    [] i = "sbis" -> bit(i, w) \in BitsOf(Peek(mem, 32 + port(i, w)))
    [] i = "sbic" -> bit(i, w) \notin BitsOf(Peek(mem, 32 + port(i, w)))
    [] i = "brbs" -> bit(i, w) \in Flags(mem)
    [] i = "brbc" -> bit(i, w) \notin Flags(mem)

Skips    == {"cpse", "sbrs", "sbrc", "sbis", "sbic"}
Branches == {"brbs", "brbc"}

Control(i, w) ==
  \/ /\ i = "rjmp"
     /\ Goto(pc + 1 + pc_offset(i, w), mem)
  \/ /\ i = "ijmp"
     /\ Goto(PeekWord(mem, 30), mem)
  \/ /\ i = "jmp"
     /\ Goto(AbsoluteTarget, mem)
  \/ /\ i = "rcall"
     /\ Goto(pc + 1 + pc_offset(i, w), ReturnTo(pc + 1))
  \/ /\ i = "icall"
     /\ IF PeekWord(mem, 30) < HostTable
        THEN Goto(PeekWord(ReturnTo(pc + 1), 30), ReturnTo(pc + 1))
        ELSE HostCall(PeekWord(mem, 30), pc + 1)
  \/ /\ i = "call"
     /\ IF AbsoluteTarget < HostTable
        THEN Goto(AbsoluteTarget, ReturnTo(pc + 2))
        ELSE HostCall(AbsoluteTarget, pc + 2)
  \/ /\ i = "ret"
     /\ Goto(TopWord(mem), Drop(Drop(mem)))
  \/ /\ i \in Skips
     /\ Goto(pc + 1 + (IF Tested(i, w) THEN Length(FlashAt(pc + 1)) ELSE 0), mem)
  \/ /\ i \in Branches
     /\ Goto(pc + 1 + (IF Tested(i, w) THEN pc_offset(i, w) ELSE 0), mem)

-----------------------------------------------------------------------------
(* Data transfer.  An indirect access goes through the pair at `Pointer',  *)
(* which is first moved (pre-decrement) or then moved (post-increment).    *)

Through(i, p) ==
  CASE p = "X" -> i \in {"ld_x", "ld_x_inc", "ld_x_dec", "st_x", "st_x_inc", "st_x_dec"}
    [] p = "Y" -> i \in {"ldd_y", "ld_y_inc", "ld_y_dec", "std_y", "st_y_inc", "st_y_dec"}
    [] p = "Z" -> i \in {"ldd_z", "ld_z_inc", "ld_z_dec", "std_z", "st_z_inc", "st_z_dec"}

Indirect == { i \in DirectLoads \cup DirectStores \cup Displaced :
                i \notin {"lds", "sts"} }

Pointer(i) == CASE Through(i, "X") -> 26 [] Through(i, "Y") -> 28 [] Through(i, "Z") -> 30

Before(i) == IF i \in {"ld_x_dec", "ld_y_dec", "ld_z_dec",
                       "st_x_dec", "st_y_dec", "st_z_dec"} THEN -1 ELSE 0
After(i)  == IF i \in {"ld_x_inc", "ld_y_inc", "ld_z_inc",
                       "st_x_inc", "st_y_inc", "st_z_inc"} THEN 1 ELSE 0

Transfer(i, w) ==
  LET q    == Pointer(i)
      base == Wrap16(PeekWord(mem, q) + Before(i))
      at   == IF i \in Displaced THEN Wrap16(base + ptr_displacement(i, w)) ELSE base
      m    == PokeWord(mem, q, Wrap16(base + After(i)))
  IN  \/ /\ i \in DirectLoads \cup {"ldd_y", "ldd_z"}
         /\ Continue([m EXCEPT ![rd(i, w)] = Peek(m, at)])
      \/ /\ i \in DirectStores \cup {"std_y", "std_z"}
         /\ \E b \in {mem[rr(i, w)], m[rr(i, w)]} : Continue(Poke(m, at, b))

FromFlash == LET z == PeekWord(mem, 30)
             IN  IF z % 2 = 0 THEN Lo(FlashAt(z \div 2)) ELSE Hi(FlashAt(z \div 2))

Moves(i, w) ==
  \/ i \in Indirect /\ Transfer(i, w)
  \/ i = "lds"  /\ Goto(pc + 2, [mem EXCEPT ![rd(i, w)] = Peek(mem, FlashAt(pc + 1))])
  \/ i = "sts"  /\ Goto(pc + 2, Poke(mem, FlashAt(pc + 1), mem[rr(i, w)]))
  \/ i = "mov"  /\ Continue([mem EXCEPT ![rd(i, w)] = mem[rr(i, w)]])
  \/ i = "movw" /\ Continue(PokeWord(mem, 2 * rd(i, w), PeekWord(mem, 2 * rr(i, w))))
  \/ i = "ldi"  /\ Continue([mem EXCEPT ![rd(i, w)] = imm(i, w)])
  \/ i = "lpm"  /\ Continue([mem EXCEPT ![rd(i, w)] = FromFlash])
  \/ i = "lpm_r0" /\ Continue([mem EXCEPT ![0] = FromFlash])
  \/ /\ i = "lpm_inc"
     /\ LET m == [mem EXCEPT ![rd(i, w)] = FromFlash]
        IN  Continue(PokeWord(m, 30, Wrap16(PeekWord(m, 30) + 1)))
  \/ i = "in"   /\ Continue([mem EXCEPT ![rd(i, w)] = Peek(mem, 32 + port(i, w))])
  \/ i = "out"  /\ Continue(Poke(mem, 32 + port(i, w), mem[rr(i, w)]))
  \/ i = "push" /\ Continue(Push(mem, mem[rr(i, w)]))
  \/ i = "pop"  /\ Continue([Drop(mem) EXCEPT ![rd(i, w)] = Top(mem)])
  \/ i = "swap" /\ LET d == mem[rd(i, w)]
                   IN  Continue([mem EXCEPT ![rd(i, w)] = 16 * (d % 16) + d \div 16])

(* One bit of a byte at address a set or cleared.                          *)
WithBit(m, a, n, on) ==
  LET others == BitsOf(Peek(m, a)) \ {n}
  IN  Poke(m, a, ByteOf(IF on THEN others \cup {n} ELSE others))

Bits(i, w) ==
  \/ i = "bset" /\ Continue(WithBit(mem, SREG, bit(i, w), TRUE))
  \/ i = "bclr" /\ Continue(WithBit(mem, SREG, bit(i, w), FALSE))
  \/ i = "sbi"  /\ Continue(WithBit(mem, 32 + port(i, w), bit(i, w), TRUE))
  \/ i = "cbi"  /\ Continue(WithBit(mem, 32 + port(i, w), bit(i, w), FALSE))
  \/ i = "bst"  /\ Continue(WithBit(mem, SREG, F_T, bit(i, w) \in BitsOf(mem[rd(i, w)])))
  \/ i = "bld"  /\ Continue(WithBit(mem, rd(i, w), bit(i, w), F_T \in Flags(mem)))

Other(i) ==
  \/ i = "nop"       /\ Continue(mem)
  \/ i = "wdr"       /\ Signal(-4)
  \/ i = "break"     /\ Signal(-3)
  \/ i = "sleep"     /\ Signal(-2)
  \/ i = "undefined" /\ Signal(-5)

-----------------------------------------------------------------------------
Init == /\ pc = 0
        /\ mem = [a \in Data |-> CASE a = SPL     -> Lo(95 + SramSize)
                                   [] a = SPL + 1 -> Hi(95 + SramSize)
                                   [] OTHER       -> 0]
        /\ rc = -1

Next == /\ UNCHANGED flash
        /\ \E w \in {FlashAt(pc)} : \E i \in {avr_decode(w)} :
             \/ Arithmetic(i, w)
             \/ Control(i, w)
             \/ Moves(i, w)
             \/ Bits(i, w)
             \/ Other(i)

Spec == Init /\ [][Next]_isa

=============================================================================
