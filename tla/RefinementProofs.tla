-------------------------- MODULE RefinementProofs --------------------------
(***************************************************************************)
(* The virtual machine implements the instruction set: every call of       *)
(* avrvm_exec, but for the two kinds at which the code departs from it,    *)
(* does to the program counter and the data space what the instruction     *)
(* does, for every program and every size of the memories.                 *)
(*                                                                         *)
(* The first half is the ground the proof stands on: the definitions AvrVM *)
(* and AvrISA share are the same in both, and every way the code reads or  *)
(* changes a context is one read or change of the flat data space that     *)
(* MemoryOf lays the context out as.  The second half goes through the     *)
(* cases of the switch in the order of AvrVM and shows for each that it is *)
(* the instruction AvrISA has for that word.                               *)
(***************************************************************************)
EXTENDS VMImplementsISA, AvrVMProofs

-----------------------------------------------------------------------------
(* The instance has its own copies of what AvrISA extends.                 *)

(* Bytes, words and bits.                                                  *)
LEMMA SharedBits ==
  /\ \A x : ISA!Lo(x) = Lo(x) /\ ISA!Hi(x) = Hi(x) /\ ISA!Wrap16(x) = Wrap16(x)
  /\ \A x, i : ISA!Bit(x, i) = Bit(x, i)
  /\ \A x : ISA!BitsOf(x) = BitsOf(x)
  /\ \A s : ISA!ByteOf(s) = ByteOf(s)
  /\ \A x, y : /\ ISA!BitAnd(x, y) = BitAnd(x, y) /\ ISA!BitOr(x, y) = BitOr(x, y)
               /\ ISA!BitXor(x, y) = BitXor(x, y)
  /\ \A x : ISA!Signed8(x) = Signed8(x)
<1>1. \A x : ISA!Lo(x) = Lo(x) /\ ISA!Hi(x) = Hi(x) /\ ISA!Wrap16(x) = Wrap16(x)
  BY DEF ISA!Lo, Lo, ISA!Hi, Hi, ISA!Wrap16, Wrap16
<1>2. \A x, i : ISA!Bit(x, i) = Bit(x, i)
  BY DEF ISA!Bit, Bit, ISA!Pow2, Pow2
<1>3. \A x : ISA!BitsOf(x) = BitsOf(x)
  BY <1>2 DEF ISA!BitsOf, BitsOf, ISA!BitIndex, BitIndex
<1>4. \A s : ISA!ByteOf(s) = ByteOf(s)
  BY DEF ISA!ByteOf, ByteOf
<1>5. \A x, y : ISA!BitAnd(x, y) = BitAnd(x, y) /\ ISA!BitOr(x, y) = BitOr(x, y)
  BY <1>3, <1>4 DEF ISA!BitAnd, BitAnd, ISA!BitOr, BitOr
<1>6. \A x, y : ISA!BitXor(x, y) = BitXor(x, y)
  <2> TAKE x, y
  <2>1. { i \in ISA!BitIndex : ISA!Bit(x, i) # ISA!Bit(y, i) }
        = { i \in BitIndex : Bit(x, i) # Bit(y, i) }
    BY <1>2 DEF ISA!BitIndex, BitIndex
  <2> QED
    BY <1>4, <2>1 DEF ISA!BitXor, BitXor
<1>7. \A x : ISA!Signed8(x) = Signed8(x)
  BY DEF ISA!Signed8, Signed8, ISA!Signed, Signed
<1> QED
  BY <1>1, <1>2, <1>3, <1>4, <1>5, <1>6, <1>7

(* The flags, and the meaning of the arithmetic.                           *)
LEMMA SharedFlags ==
  /\ ISA!F_C = F_C /\ ISA!F_Z = F_Z /\ ISA!F_N = F_N /\ ISA!F_V = F_V
  /\ ISA!F_S = F_S /\ ISA!F_H = F_H /\ ISA!F_T = F_T
  /\ ISA!ArithFlags = ArithFlags
  /\ ISA!Int8 = Int8 /\ ISA!Int16 = Int16 /\ ISA!Word = Word
  /\ \A f, p : ISA!FlagIf(f, p) = FlagIf(f, p)
  /\ \A s, t, u : ISA!Update(s, t, u) = Update(s, t, u)
  /\ \A x : ISA!ResultFlags(x) = ResultFlags(x)
  /\ \A x, y : ISA!SignFlags(x, y) = SignFlags(x, y)
<1>1. /\ ISA!F_C = F_C /\ ISA!F_Z = F_Z /\ ISA!F_N = F_N /\ ISA!F_V = F_V
      /\ ISA!F_S = F_S /\ ISA!F_H = F_H /\ ISA!F_T = F_T
  BY DEF ISA!F_C, F_C, ISA!F_Z, F_Z, ISA!F_N, F_N, ISA!F_V, F_V, ISA!F_S, F_S,
     ISA!F_H, F_H, ISA!F_T, F_T
<1>2. ISA!ArithFlags = ArithFlags
  BY <1>1 DEF ISA!ArithFlags, ArithFlags
<1>3. ISA!Int8 = Int8 /\ ISA!Int16 = Int16 /\ ISA!Word = Word
  BY DEF ISA!Int8, Int8, ISA!Int16, Int16, ISA!Word, Word, ISA!INT8_MAX, INT8_MAX,
     ISA!INT16_MAX, INT16_MAX, ISA!UINT16_MAX, UINT16_MAX
<1>4. \A f, p : ISA!FlagIf(f, p) = FlagIf(f, p)
  BY DEF ISA!FlagIf, FlagIf
<1>5. \A s, t, u : ISA!Update(s, t, u) = Update(s, t, u)
  BY DEF ISA!Update, Update
<1>6. \A x : ISA!ResultFlags(x) = ResultFlags(x)
  BY <1>1, <1>4 DEF ISA!ResultFlags, ResultFlags
<1>7. \A x, y : ISA!SignFlags(x, y) = SignFlags(x, y)
  BY <1>1, <1>4 DEF ISA!SignFlags, SignFlags
<1> QED
  BY <1>1, <1>2, <1>3, <1>4, <1>5, <1>6, <1>7

(* The arithmetic itself.                                                  *)
LEMMA SharedArith ==
  /\ \A d, r, c, s : ISA!Sum(d, r, c, s) = Sum(d, r, c, s)
  /\ \A d, r, c, p, s : ISA!Difference(d, r, c, p, s) = Difference(d, r, c, p, s)
  /\ \A d, k, s : ISA!WordSum(d, k, s) = WordSum(d, k, s)
  /\ \A d, s : ISA!Bitwise8(d, s) = Bitwise8(d, s)
  /\ \A d, s : ISA!Complement(d, s) = Complement(d, s)
  /\ \A d, k, s : ISA!Step(d, k, s) = Step(d, k, s)
  /\ \A d, p, s : ISA!ProductOf(d, p, s) = ProductOf(d, p, s)
  /\ \A d, t, s : ISA!Halved(d, t, s) = Halved(d, t, s)
<1> USE DEF ISA!Wrap8, Wrap8, ISA!Wrap16, Wrap16, ISA!Signed8, Signed8, ISA!Signed, Signed,
            ISA!Signed16, Signed16, ISA!FlagIf, FlagIf, ISA!Update, Update, ISA!Bit, Bit, ISA!Pow2, Pow2,
            ISA!ResultFlags, ResultFlags, ISA!SignFlags, SignFlags, ISA!ArithFlags, ArithFlags,
            ISA!Int8, Int8, ISA!Int16, Int16, ISA!INT8_MAX, INT8_MAX, ISA!INT16_MAX, INT16_MAX,
            ISA!F_C, F_C, ISA!F_Z, F_Z, ISA!F_N, F_N, ISA!F_V, F_V, ISA!F_S, F_S, ISA!F_H, F_H
<1>1. \A d, r, c, s : ISA!Sum(d, r, c, s) = Sum(d, r, c, s)
  BY DEF ISA!Sum, Sum
<1>2. \A d, r, c, p, s : ISA!Difference(d, r, c, p, s) = Difference(d, r, c, p, s)
  BY DEF ISA!Difference, Difference
<1>3. \A d, k, s : ISA!WordSum(d, k, s) = WordSum(d, k, s)
  BY DEF ISA!WordSum, WordSum, ISA!Word, Word, ISA!UINT16_MAX, UINT16_MAX
<1>4. \A d, s : ISA!Bitwise8(d, s) = Bitwise8(d, s)
  BY DEF ISA!Bitwise8, Bitwise8
<1>5. \A d, s : ISA!Complement(d, s) = Complement(d, s)
  BY DEF ISA!Complement, Complement, ISA!Bitwise8, Bitwise8
<1>6. \A d, k, s : ISA!Step(d, k, s) = Step(d, k, s)
  BY DEF ISA!Step, Step
<1>7. \A d, p, s : ISA!ProductOf(d, p, s) = ProductOf(d, p, s)
  BY DEF ISA!ProductOf, ProductOf
<1>8. \A d, t, s : ISA!Halved(d, t, s) = Halved(d, t, s)
  BY DEF ISA!Halved, Halved
<1> QED
  BY <1>1, <1>2, <1>3, <1>4, <1>5, <1>6, <1>7, <1>8, Zenon

(* The decoder.                                                            *)
LEMMA SharedDecoder ==
  ASSUME NEW w
  PROVE  /\ ISA!avr_decode(w) = avr_decode(w)
         /\ \A i : /\ ISA!rd(i, w) = rd(i, w) /\ ISA!rr(i, w) = rr(i, w)
                   /\ ISA!imm(i, w) = imm(i, w) /\ ISA!bit(i, w) = bit(i, w)
                   /\ ISA!port(i, w) = port(i, w)
                   /\ ISA!ptr_displacement(i, w) = ptr_displacement(i, w)
                   /\ ISA!pc_offset(i, w) = pc_offset(i, w)
<1>1. ISA!avr_decode(w) = avr_decode(w)
  BY DEF ISA!avr_decode, avr_decode, ISA!Matches, Matches, ISA!is_op_match, is_op_match,
     ISA!Bit, Bit, ISA!Pow2, Pow2, ISA!SPEC, SPEC
<1> USE DEF ISA!Field, Field, ISA!Signed, Signed,
        ISA!TwoRegisters, TwoRegisters, ISA!UpperImm, UpperImm, ISA!WordImm, WordImm,
        ISA!Multiplies816, Multiplies816, ISA!DirectLoads, DirectLoads,
        ISA!DirectStores, DirectStores, ISA!Displaced, Displaced, ISA!PortBits, PortBits,
        ISA!RdPlain, RdPlain, ISA!RrPlain, RrPlain
<1>2. \A i : ISA!rd(i, w) = rd(i, w) /\ ISA!rr(i, w) = rr(i, w)
  BY DEF ISA!rd, rd, ISA!rr, rr
<1>3. \A i : ISA!imm(i, w) = imm(i, w) /\ ISA!bit(i, w) = bit(i, w)
  BY DEF ISA!imm, imm, ISA!bit, bit
<1>4. \A i : ISA!port(i, w) = port(i, w) /\ ISA!pc_offset(i, w) = pc_offset(i, w)
  BY DEF ISA!port, port, ISA!pc_offset, pc_offset
<1>5. \A i : ISA!ptr_displacement(i, w) = ptr_displacement(i, w)
  BY DEF ISA!ptr_displacement, ptr_displacement
<1> QED
  BY <1>1, <1>2, <1>3, <1>4, <1>5

-----------------------------------------------------------------------------
(* The data space.                                                         *)

(* Where things are, in numbers.                                           *)
LEMMA Places ==
  /\ ISA!SPL = 93 /\ ISA!SREG = 95 /\ ISA!HostTable = 32768
  /\ Spl = 93 /\ Sph = 94 /\ SregAddr = 95 /\ SramBase = 96
  /\ AVRVM_MAX_FLASH_WORDS = 32768 /\ X = 13 /\ Y = 14 /\ Z = 15
  BY DEF ISA!SPL, ISA!SREG, ISA!HostTable, Spl, Sph, SregAddr, SramBase,
     AVRVM_MAX_FLASH_WORDS, X, Y, Z

(* The I/O registers with storage are below spl.                           *)
LEMMA PortRange == \A p \in IoPorts : p \in Int /\ 0 <= p /\ p <= 60
  BY IoAssumption DEF AVRVM_N_IO_REGS

(* The SRAM's cells.                                                       *)
LEMMA SramRange ==
  /\ SramSize \in Int /\ 0 <= SramSize /\ SramSize <= 65440
  /\ \A o : o \in SramIndex <=> o \in Int /\ 0 <= o /\ o < SramSize
  BY SramAssumption DEF SramIndex

(* The addresses of the instruction set's data memory are those the        *)
(* machine's fields are laid out at.                                       *)
LEMMA DataIsAddresses == ISA!Data = Addresses
  BY Places DEF ISA!Data, Addresses, RegIndex

(* An address is that of a register, of an I/O register, of half the stack *)
(* pointer, of sreg or of a cell of the SRAM.                              *)
LEMMA AddressCases ==
  ASSUME NEW a \in Addresses
  PROVE  /\ a \in Int
         /\ \/ a \in RegIndex
            \/ \E p \in IoPorts : a = 32 + p
            \/ a = Spl \/ a = Sph \/ a = SregAddr
            \/ \E o \in SramIndex : a = SramBase + o
<1>1. CASE a \in RegIndex
  BY <1>1, RegRange
<1>2. CASE a \in { 32 + p : p \in IoPorts }
  BY <1>2, PortRange
<1>3. CASE a \in Spl .. SregAddr + SramSize
  <2>1. a \in Int /\ 93 <= a /\ a <= 95 + SramSize
    BY <1>3, Places, SramRange
  <2>2. CASE a >= 96
    <3>1. a - 96 \in SramIndex /\ a = SramBase + (a - 96)
      BY <2>1, <2>2, Places, SramRange
    <3> QED
      BY <2>1, <3>1
  <2>3. CASE a < 96
    BY <2>1, <2>3, Places
  <2> QED
    BY <2>1, <2>2, <2>3
<1> QED
  BY <1>1, <1>2, <1>3 DEF Addresses

(* What each of them holds.                                                *)
LEMMA Cells ==
  ASSUME NEW c
  PROVE  /\ MemoryOf(c) = [a \in Addresses |-> MemoryOf(c)[a]]
         /\ \A n \in RegIndex : n \in Addresses /\ MemoryOf(c)[n] = c.regs[n]
         /\ \A p \in IoPorts : 32 + p \in Addresses /\ MemoryOf(c)[32 + p] = c.io[p]
         /\ Spl \in Addresses /\ MemoryOf(c)[Spl] = Lo(c.sp)
         /\ Sph \in Addresses /\ MemoryOf(c)[Sph] = Hi(c.sp)
         /\ SregAddr \in Addresses /\ MemoryOf(c)[SregAddr] = ByteOf(c.sreg)
         /\ \A o \in SramIndex : /\ SramBase + o \in Addresses
                                 /\ MemoryOf(c)[SramBase + o] = c.sram[o]
<1>1. MemoryOf(c) = [a \in Addresses |-> MemoryOf(c)[a]]
  <2> DEFINE held(a) == CASE a \in RegIndex    -> c.regs[a]
                          [] a \in 32..Spl - 1 -> c.io[a - 32]
                          [] a = Spl           -> Lo(c.sp)
                          [] a = Sph           -> Hi(c.sp)
                          [] a = SregAddr      -> ByteOf(c.sreg)
                          [] a >= SramBase     -> c.sram[a - SramBase]
  <2>1. MemoryOf(c) = [a \in Addresses |-> held(a)]
    BY DEF MemoryOf
  <2> HIDE DEF held
  <2> QED
    BY <2>1
<1>2. ASSUME NEW n \in RegIndex
      PROVE  n \in Addresses /\ MemoryOf(c)[n] = c.regs[n]
  BY Places, RegRange, SMT DEF MemoryOf, Addresses
<1>3. ASSUME NEW p \in IoPorts
      PROVE  32 + p \in Addresses /\ MemoryOf(c)[32 + p] = c.io[p]
  <2>1. 32 + p \in Addresses /\ (32 + p) - 32 = p
    BY PortRange DEF Addresses
  <2>2. MemoryOf(c)[32 + p] = c.io[(32 + p) - 32]
    BY <2>1, Places, RegRange, PortRange, SMT DEF MemoryOf
  <2> QED
    BY <2>1, <2>2
<1>4. Spl \in Addresses /\ Sph \in Addresses /\ SregAddr \in Addresses
  BY Places, SramRange, SMT DEF Addresses
<1>5. MemoryOf(c)[Spl] = Lo(c.sp)
  BY <1>4, Places, RegRange, SMT DEF MemoryOf
<1>6. MemoryOf(c)[Sph] = Hi(c.sp)
  BY <1>4, Places, RegRange, SMT DEF MemoryOf
<1>7. MemoryOf(c)[SregAddr] = ByteOf(c.sreg)
  BY <1>4, Places, RegRange, SMT DEF MemoryOf
<1>8. ASSUME NEW o \in SramIndex
      PROVE  SramBase + o \in Addresses /\ MemoryOf(c)[SramBase + o] = c.sram[o]
  <2>1. SramBase + o \in Addresses /\ (SramBase + o) - SramBase = o
    BY Places, SramRange, SMT DEF Addresses
  <2>2. MemoryOf(c)[SramBase + o] = c.sram[(SramBase + o) - SramBase]
    BY <2>1, Places, RegRange, SramRange, SMT DEF MemoryOf
  <2> QED
    BY <2>1, <2>2
<1> QED
  BY <1>1, <1>2, <1>3, <1>4, <1>5, <1>6, <1>7, <1>8

(* m holds, address by address, what the context's fields hold.            *)
Holds(m, c) ==
  /\ \A n \in RegIndex : m[n] = c.regs[n]
  /\ \A p \in IoPorts : m[32 + p] = c.io[p]
  /\ m[Spl] = Lo(c.sp)
  /\ m[Sph] = Hi(c.sp)
  /\ m[SregAddr] = ByteOf(c.sreg)
  /\ \A o \in SramIndex : m[SramBase + o] = c.sram[o]

(* The data space does.                                                    *)
LEMMA Held == ASSUME NEW c PROVE Holds(MemoryOf(c), c)
  BY Cells DEF Holds

(* And it is the only memory with these addresses that does.               *)
LEMMA Cellwise ==
  ASSUME NEW c, NEW f, f = [a \in Addresses |-> f[a]], Holds(f, c)
  PROVE  MemoryOf(c) = f
<1>1. ASSUME NEW a \in Addresses PROVE MemoryOf(c)[a] = f[a]
  <2>1. CASE a \in RegIndex
    BY <2>1, Held DEF Holds
  <2>2. ASSUME NEW p \in IoPorts, a = 32 + p PROVE MemoryOf(c)[a] = f[a]
    BY <2>2, Held DEF Holds
  <2>3. ASSUME NEW o \in SramIndex, a = SramBase + o PROVE MemoryOf(c)[a] = f[a]
    BY <2>3, Held DEF Holds
  <2>4. CASE a = Spl \/ a = Sph \/ a = SregAddr
    BY <2>4, Held DEF Holds
  <2> QED
    BY <2>1, <2>2, <2>3, <2>4, AddressCases
<1>2. MemoryOf(c) = [a \in Addresses |-> MemoryOf(c)[a]]
  BY Cells
<1> QED
  BY <1>1, <1>2

(* A byte of the data space.                                               *)
LEMMA MemoryType ==
  ASSUME NEW c \in Context
  PROVE  MemoryOf(c) \in [Addresses -> Byte]
<1>1. ASSUME NEW a \in Addresses PROVE MemoryOf(c)[a] \in Byte
  <2>1. CASE a \in RegIndex
    BY <2>1, Cells, ContextFields
  <2>2. ASSUME NEW p \in IoPorts, a = 32 + p PROVE MemoryOf(c)[a] \in Byte
    <3>1. MemoryOf(c)[a] = c.io[p]
      BY <2>2, Cells
    <3> QED
      BY <3>1, ContextFields
  <2>3. ASSUME NEW o \in SramIndex, a = SramBase + o PROVE MemoryOf(c)[a] \in Byte
    <3>1. MemoryOf(c)[a] = c.sram[o]
      BY <2>3, Cells
    <3> QED
      BY <3>1, ContextFields
  <2>4. CASE a = Spl \/ a = Sph \/ a = SregAddr
    <3>1. Lo(c.sp) \in Byte /\ Hi(c.sp) \in Byte
      BY ContextFields, IntegerSets, WrapType
    <3> QED
      BY <2>4, <3>1, Cells, ByteOfType
  <2> QED
    BY <2>1, <2>2, <2>3, <2>4, AddressCases
<1> QED
  BY <1>1, Cells

(* The kinds of address do not overlap.                                    *)
LEMMA Apart ==
  /\ \A n \in RegIndex : n \in Int /\ n < 32
  /\ \A p \in IoPorts : 32 + p >= 32 /\ 32 + p < Spl
  /\ \A o \in SramIndex : SramBase + o > SregAddr
  /\ Spl > 92 /\ Sph > Spl /\ SregAddr > Sph
  /\ Spl \in Int /\ Sph \in Int /\ SregAddr \in Int
  /\ \A p \in IoPorts : \A o \in SramIndex : 32 + p # SramBase + o
BY Places, RegRange, PortRange, SramRange, SMT

(* A change of one field of the context is the change of its cell.         *)
LEMMA FieldMemory ==
  ASSUME NEW c \in Context
  PROVE  /\ \A w : MemoryOf([c EXCEPT !.pc = w]) = MemoryOf(c)
         /\ \A s : MemoryOf([c EXCEPT !.sreg = s])
                   = [MemoryOf(c) EXCEPT ![SregAddr] = ByteOf(s)]
         /\ \A n \in RegIndex : \A b :
              MemoryOf([c EXCEPT !.regs[n] = b]) = [MemoryOf(c) EXCEPT ![n] = b]
         /\ \A p \in IoPorts : \A b :
              MemoryOf([c EXCEPT !.io[p] = b]) = [MemoryOf(c) EXCEPT ![32 + p] = b]
         /\ \A o \in SramIndex : \A b :
              MemoryOf([c EXCEPT !.sram[o] = b]) = [MemoryOf(c) EXCEPT ![SramBase + o] = b]
<1> DEFINE m == MemoryOf(c)
<1>1. m = [a \in Addresses |-> m[a]] /\ Holds(m, c)
  BY Cells, Held
<1>2. \A x, b : LET f == [m EXCEPT ![x] = b]
               IN  /\ f = [a \in Addresses |-> f[a]]
                   /\ x \in Addresses => f[x] = b
                   /\ \A a \in Addresses : a # x => f[a] = m[a]
  BY <1>1
<1>3. /\ \A n \in RegIndex : n \in Addresses
      /\ \A p \in IoPorts : 32 + p \in Addresses
      /\ Spl \in Addresses /\ Sph \in Addresses /\ SregAddr \in Addresses
      /\ \A o \in SramIndex : SramBase + o \in Addresses
  BY Cells
<1> HIDE DEF m
<1>4. ASSUME NEW w PROVE MemoryOf([c EXCEPT !.pc = w]) = m
  <2> DEFINE d == [c EXCEPT !.pc = w]
  <2>1. d.regs = c.regs /\ d.io = c.io /\ d.sp = c.sp /\ d.sreg = c.sreg /\ d.sram = c.sram
    BY DEF Context
  <2> HIDE DEF d
  <2>2. Holds(m, d)
    BY <1>1, <2>1 DEF Holds
  <2>3. MemoryOf(d) = m
    BY <1>1, <2>2, Cellwise
  <2> QED
    BY <2>3 DEF d
<1>5. ASSUME NEW s PROVE MemoryOf([c EXCEPT !.sreg = s]) = [m EXCEPT ![SregAddr] = ByteOf(s)]
  <2> DEFINE d == [c EXCEPT !.sreg = s]
             f == [m EXCEPT ![SregAddr] = ByteOf(s)]
  <2>1. d.regs = c.regs /\ d.io = c.io /\ d.sp = c.sp /\ d.sreg = s /\ d.sram = c.sram
    BY DEF Context
  <2>2. /\ f = [a \in Addresses |-> f[a]] /\ f[SregAddr] = ByteOf(s)
        /\ \A a \in Addresses : a # SregAddr => f[a] = m[a]
    BY <1>2, <1>3
  <2> HIDE DEF d, f
  <2>3. Holds(f, d)
    BY <1>1, <1>3, <2>1, <2>2, Apart DEF Holds
  <2>4. MemoryOf(d) = f
    BY <2>2, <2>3, Cellwise
  <2> QED
    BY <2>4 DEF d, f
<1>6. ASSUME NEW n \in RegIndex, NEW b
      PROVE  MemoryOf([c EXCEPT !.regs[n] = b]) = [m EXCEPT ![n] = b]
  <2> DEFINE d == [c EXCEPT !.regs[n] = b]
             f == [m EXCEPT ![n] = b]
  <2>1. /\ d.io = c.io /\ d.sp = c.sp /\ d.sreg = c.sreg /\ d.sram = c.sram
        /\ d.regs[n] = b /\ \A k \in RegIndex : k # n => d.regs[k] = c.regs[k]
    BY DEF Context
  <2>2. /\ f = [a \in Addresses |-> f[a]] /\ f[n] = b
        /\ \A a \in Addresses : a # n => f[a] = m[a]
    BY <1>2, <1>3
  <2> HIDE DEF d, f
  <2>3. Holds(f, d)
    BY <1>1, <1>3, <2>1, <2>2, Apart DEF Holds
  <2>4. MemoryOf(d) = f
    BY <2>2, <2>3, Cellwise
  <2> QED
    BY <2>4 DEF d, f
<1>7. ASSUME NEW p \in IoPorts, NEW b
      PROVE  MemoryOf([c EXCEPT !.io[p] = b]) = [m EXCEPT ![32 + p] = b]
  <2> DEFINE d == [c EXCEPT !.io[p] = b]
             f == [m EXCEPT ![32 + p] = b]
  <2>1. /\ d.regs = c.regs /\ d.sp = c.sp /\ d.sreg = c.sreg /\ d.sram = c.sram
        /\ d.io[p] = b /\ \A q \in IoPorts : q # p => d.io[q] = c.io[q]
    BY DEF Context
  <2>2. /\ f = [a \in Addresses |-> f[a]] /\ f[32 + p] = b
        /\ \A a \in Addresses : a # 32 + p => f[a] = m[a]
    BY <1>2, <1>3
  <2>3. \A q \in IoPorts : q # p => 32 + q # 32 + p
    BY PortRange
  <2> HIDE DEF d, f
  <2>4. Holds(f, d)
    <3>1. \A a \in Addresses : a # 32 + p => f[a] = m[a]
      BY <2>2
    <3>2. \A q \in IoPorts : f[32 + q] = d.io[q]
      BY <1>1, <1>3, <2>1, <2>2, <2>3 DEF Holds
    <3>3. \A n \in RegIndex : f[n] = d.regs[n]
      BY <1>1, <1>3, <2>1, <3>1, Apart, Places DEF Holds
    <3>4. f[Spl] = Lo(d.sp) /\ f[Sph] = Hi(d.sp) /\ f[SregAddr] = ByteOf(d.sreg)
      BY <1>1, <1>3, <2>1, <3>1, Apart, Places DEF Holds
    <3>5. \A q \in SramIndex : f[SramBase + q] = d.sram[q]
      <4> SUFFICES ASSUME NEW q \in SramIndex PROVE f[SramBase + q] = d.sram[q]
        OBVIOUS
      <4>1. SramBase + q \in Addresses /\ SramBase + q # 32 + p
        BY <1>3, Apart
      <4>2. f[SramBase + q] = m[SramBase + q] /\ m[SramBase + q] = c.sram[q]
        BY <1>1, <3>1, <4>1 DEF Holds
      <4> QED
        BY <2>1, <4>2
    <3> QED
      BY <3>2, <3>3, <3>4, <3>5 DEF Holds
  <2>5. MemoryOf(d) = f
    BY <2>2, <2>4, Cellwise
  <2> QED
    BY <2>5 DEF d, f
<1>8. ASSUME NEW o \in SramIndex, NEW b
      PROVE  MemoryOf([c EXCEPT !.sram[o] = b]) = [m EXCEPT ![SramBase + o] = b]
  <2> DEFINE d == [c EXCEPT !.sram[o] = b]
             f == [m EXCEPT ![SramBase + o] = b]
  <2>1. /\ d.regs = c.regs /\ d.sp = c.sp /\ d.sreg = c.sreg /\ d.io = c.io
        /\ d.sram[o] = b /\ \A q \in SramIndex : q # o => d.sram[q] = c.sram[q]
    BY DEF Context
  <2>2. /\ f = [a \in Addresses |-> f[a]] /\ f[SramBase + o] = b
        /\ \A a \in Addresses : a # SramBase + o => f[a] = m[a]
    BY <1>2, <1>3
  <2>3. \A q \in SramIndex : q # o => SramBase + q # SramBase + o
    BY SramRange, Places
  <2> HIDE DEF d, f
  <2>4. Holds(f, d)
    <3>1. \A a \in Addresses : a # SramBase + o => f[a] = m[a]
      BY <2>2
    <3>2. \A q \in SramIndex : f[SramBase + q] = d.sram[q]
      BY <1>1, <1>3, <2>1, <2>2, <2>3 DEF Holds
    <3>3. \A n \in RegIndex : f[n] = d.regs[n]
      BY <1>1, <1>3, <2>1, <3>1, Apart, Places DEF Holds
    <3>4. f[Spl] = Lo(d.sp) /\ f[Sph] = Hi(d.sp) /\ f[SregAddr] = ByteOf(d.sreg)
      BY <1>1, <1>3, <2>1, <3>1, Apart, Places DEF Holds
    <3>5. \A q \in IoPorts : f[32 + q] = d.io[q]
      <4> SUFFICES ASSUME NEW q \in IoPorts PROVE f[32 + q] = d.io[q]
        OBVIOUS
      <4>1. 32 + q \in Addresses /\ 32 + q # SramBase + o
        BY <1>3, Apart
      <4>2. f[32 + q] = m[32 + q] /\ m[32 + q] = c.io[q]
        BY <1>1, <3>1, <4>1 DEF Holds
      <4> QED
        BY <2>1, <4>2
    <3> QED
      BY <3>2, <3>3, <3>4, <3>5 DEF Holds
  <2>5. MemoryOf(d) = f
    BY <2>2, <2>4, Cellwise
  <2> QED
    BY <2>5 DEF d, f
<1> QED
  BY <1>4, <1>5, <1>6, <1>7, <1>8 DEF m

(* The status register's byte and the set of its flags say the same.       *)
LEMMA BitsRoundTrip ==
  /\ \A b \in Byte : ByteOf(BitsOf(b)) = b
  /\ \A s \in Sreg : BitsOf(ByteOf(s)) = s
<1>1. ASSUME NEW b \in Byte PROVE ByteOf(BitsOf(b)) = b
  <2>1. \A i \in BitIndex : i \in BitsOf(b) <=> Bit(b, i) = 1
    BY DEF BitsOf
  <2>2. /\ 0 \in BitIndex /\ 1 \in BitIndex /\ 2 \in BitIndex /\ 3 \in BitIndex
        /\ 4 \in BitIndex /\ 5 \in BitIndex /\ 6 \in BitIndex /\ 7 \in BitIndex
    BY DEF BitIndex
  <2>3. /\ Bit(b, 0) = b % 2         /\ Bit(b, 1) = (b \div 2) % 2
        /\ Bit(b, 2) = (b \div 4) % 2 /\ Bit(b, 3) = (b \div 8) % 2
        /\ Bit(b, 4) = (b \div 16) % 2 /\ Bit(b, 5) = (b \div 32) % 2
        /\ Bit(b, 6) = (b \div 64) % 2 /\ Bit(b, 7) = (b \div 128) % 2
    BY ByteRange, SMT DEF Bit, Pow2
  <2>4. /\ (IF 0 \in BitsOf(b) THEN 1 ELSE 0) = b % 2
        /\ (IF 1 \in BitsOf(b) THEN 2 ELSE 0) = 2 * ((b \div 2) % 2)
        /\ (IF 2 \in BitsOf(b) THEN 4 ELSE 0) = 4 * ((b \div 4) % 2)
        /\ (IF 3 \in BitsOf(b) THEN 8 ELSE 0) = 8 * ((b \div 8) % 2)
        /\ (IF 4 \in BitsOf(b) THEN 16 ELSE 0) = 16 * ((b \div 16) % 2)
        /\ (IF 5 \in BitsOf(b) THEN 32 ELSE 0) = 32 * ((b \div 32) % 2)
        /\ (IF 6 \in BitsOf(b) THEN 64 ELSE 0) = 64 * ((b \div 64) % 2)
        /\ (IF 7 \in BitsOf(b) THEN 128 ELSE 0) = 128 * ((b \div 128) % 2)
    BY <2>1, <2>2, <2>3, ByteRange, SMT
  <2>5. ByteOf(BitsOf(b))
        = (b % 2) + 2 * ((b \div 2) % 2) + 4 * ((b \div 4) % 2) + 8 * ((b \div 8) % 2)
          + 16 * ((b \div 16) % 2) + 32 * ((b \div 32) % 2) + 64 * ((b \div 64) % 2)
          + 128 * ((b \div 128) % 2)
    BY <2>4 DEF ByteOf
  <2>6. /\ b \in Int /\ b \div 2 \in Int /\ b \div 4 \in Int /\ b \div 8 \in Int
        /\ b \div 16 \in Int /\ b \div 32 \in Int /\ b \div 64 \in Int
        /\ b \div 128 \in Int
    BY ByteRange, SMT
  <2>7. /\ b % 2 \in Int /\ (b \div 2) % 2 \in Int /\ (b \div 4) % 2 \in Int
        /\ (b \div 8) % 2 \in Int /\ (b \div 16) % 2 \in Int /\ (b \div 32) % 2 \in Int
        /\ (b \div 64) % 2 \in Int /\ (b \div 128) % 2 \in Int
    BY <2>6, SMT
  <2>9. b \div 2 = ((b \div 2) % 2) + 2 * (b \div 4)
    BY ByteRange, SMT
  <2>10. b \div 4 = ((b \div 4) % 2) + 2 * (b \div 8)
    BY ByteRange, SMT
  <2>11. b \div 8 = ((b \div 8) % 2) + 2 * (b \div 16)
    BY ByteRange, SMT
  <2>12. b \div 16 = ((b \div 16) % 2) + 2 * (b \div 32)
    BY ByteRange, SMT
  <2>13. b \div 32 = ((b \div 32) % 2) + 2 * (b \div 64)
    BY ByteRange, SMT
  <2>14. b \div 64 = ((b \div 64) % 2) + 2 * (b \div 128)
    BY ByteRange, SMT
  <2>15. b = (b % 2) + 2 * (b \div 2) /\ b \div 128 = (b \div 128) % 2
    BY ByteRange, SMT
  <2> QED
    BY <2>5, <2>6, <2>7, <2>9, <2>10, <2>11, <2>12, <2>13, <2>14, <2>15
<1>2. ASSUME NEW s \in Sreg PROVE BitsOf(ByteOf(s)) = s
  <2> DEFINE b == ByteOf(s)
             v(i) == IF i \in s THEN 1 ELSE 0
  <2>1. PICK v0 \in Int : v0 = v(0) /\ 0 <= v0 /\ v0 <= 1
    OBVIOUS
  <2>2. PICK v1 \in Int : v1 = v(1) /\ 0 <= v1 /\ v1 <= 1
    OBVIOUS
  <2>3. PICK v2 \in Int : v2 = v(2) /\ 0 <= v2 /\ v2 <= 1
    OBVIOUS
  <2>4. PICK v3 \in Int : v3 = v(3) /\ 0 <= v3 /\ v3 <= 1
    OBVIOUS
  <2>5. PICK v4 \in Int : v4 = v(4) /\ 0 <= v4 /\ v4 <= 1
    OBVIOUS
  <2>6. PICK v5 \in Int : v5 = v(5) /\ 0 <= v5 /\ v5 <= 1
    OBVIOUS
  <2>7. PICK v6 \in Int : v6 = v(6) /\ 0 <= v6 /\ v6 <= 1
    OBVIOUS
  <2>8. PICK v7 \in Int : v7 = v(7) /\ 0 <= v7 /\ v7 <= 1
    OBVIOUS
  <2>9. b = v0 + 2 * v1 + 4 * v2 + 8 * v3 + 16 * v4 + 32 * v5 + 64 * v6 + 128 * v7
    BY <2>1, <2>2, <2>3, <2>4, <2>5, <2>6, <2>7, <2>8 DEF ByteOf
  <2> HIDE DEF b
  <2>10. Bit(b, 0) = v0
    <3> DEFINE low  == 0
               high == v1 + 2 * v2 + 4 * v3 + 8 * v4 + 16 * v5 + 32 * v6 + 64 * v7
    <3>1. /\ low \in Int /\ high \in Int /\ 0 <= low /\ low < 1
          /\ b = low + 1 * v0 + 2 * high
      BY <2>1, <2>2, <2>3, <2>4, <2>5, <2>6, <2>7, <2>8, <2>9
    <3> HIDE DEF low, high
    <3>2. Bit(b, 0) = (b \div 1) % 2
      BY DEF Bit, Pow2
    <3> QED
      BY <2>1, <3>1, <3>2
  <2>11. Bit(b, 1) = v1
    <3> DEFINE low  == v0
               high == v2 + 2 * v3 + 4 * v4 + 8 * v5 + 16 * v6 + 32 * v7
    <3>1. /\ low \in Int /\ high \in Int /\ 0 <= low /\ low < 2
          /\ b = low + 2 * v1 + 4 * high
      BY <2>1, <2>2, <2>3, <2>4, <2>5, <2>6, <2>7, <2>8, <2>9
    <3> HIDE DEF low, high
    <3>2. Bit(b, 1) = (b \div 2) % 2
      BY DEF Bit, Pow2
    <3> QED
      BY <2>2, <3>1, <3>2
  <2>12. Bit(b, 2) = v2
    <3> DEFINE low  == v0 + 2 * v1
               high == v3 + 2 * v4 + 4 * v5 + 8 * v6 + 16 * v7
    <3>1. /\ low \in Int /\ high \in Int /\ 0 <= low /\ low < 4
          /\ b = low + 4 * v2 + 8 * high
      BY <2>1, <2>2, <2>3, <2>4, <2>5, <2>6, <2>7, <2>8, <2>9
    <3> HIDE DEF low, high
    <3>2. Bit(b, 2) = (b \div 4) % 2
      BY DEF Bit, Pow2
    <3> QED
      BY <2>3, <3>1, <3>2
  <2>13. Bit(b, 3) = v3
    <3> DEFINE low  == v0 + 2 * v1 + 4 * v2
               high == v4 + 2 * v5 + 4 * v6 + 8 * v7
    <3>1. /\ low \in Int /\ high \in Int /\ 0 <= low /\ low < 8
          /\ b = low + 8 * v3 + 16 * high
      BY <2>1, <2>2, <2>3, <2>4, <2>5, <2>6, <2>7, <2>8, <2>9
    <3> HIDE DEF low, high
    <3>2. Bit(b, 3) = (b \div 8) % 2
      BY DEF Bit, Pow2
    <3> QED
      BY <2>4, <3>1, <3>2
  <2>14. Bit(b, 4) = v4
    <3> DEFINE low  == v0 + 2 * v1 + 4 * v2 + 8 * v3
               high == v5 + 2 * v6 + 4 * v7
    <3>1. /\ low \in Int /\ high \in Int /\ 0 <= low /\ low < 16
          /\ b = low + 16 * v4 + 32 * high
      BY <2>1, <2>2, <2>3, <2>4, <2>5, <2>6, <2>7, <2>8, <2>9
    <3> HIDE DEF low, high
    <3>2. Bit(b, 4) = (b \div 16) % 2
      BY DEF Bit, Pow2
    <3> QED
      BY <2>5, <3>1, <3>2
  <2>15. Bit(b, 5) = v5
    <3> DEFINE low  == v0 + 2 * v1 + 4 * v2 + 8 * v3 + 16 * v4
               high == v6 + 2 * v7
    <3>1. /\ low \in Int /\ high \in Int /\ 0 <= low /\ low < 32
          /\ b = low + 32 * v5 + 64 * high
      BY <2>1, <2>2, <2>3, <2>4, <2>5, <2>6, <2>7, <2>8, <2>9
    <3> HIDE DEF low, high
    <3>2. Bit(b, 5) = (b \div 32) % 2
      BY DEF Bit, Pow2
    <3> QED
      BY <2>6, <3>1, <3>2
  <2>16. Bit(b, 6) = v6
    <3> DEFINE low  == v0 + 2 * v1 + 4 * v2 + 8 * v3 + 16 * v4 + 32 * v5
               high == v7
    <3>1. /\ low \in Int /\ high \in Int /\ 0 <= low /\ low < 64
          /\ b = low + 64 * v6 + 128 * high
      BY <2>1, <2>2, <2>3, <2>4, <2>5, <2>6, <2>7, <2>8, <2>9
    <3> HIDE DEF low, high
    <3>2. Bit(b, 6) = (b \div 64) % 2
      BY DEF Bit, Pow2
    <3> QED
      BY <2>7, <3>1, <3>2
  <2>17. Bit(b, 7) = v7
    <3> DEFINE low  == v0 + 2 * v1 + 4 * v2 + 8 * v3 + 16 * v4 + 32 * v5 + 64 * v6
               high == 0
    <3>1. /\ low \in Int /\ high \in Int /\ 0 <= low /\ low < 128
          /\ b = low + 128 * v7 + 256 * high
      BY <2>1, <2>2, <2>3, <2>4, <2>5, <2>6, <2>7, <2>8, <2>9
    <3> HIDE DEF low, high
    <3>2. Bit(b, 7) = (b \div 128) % 2
      BY DEF Bit, Pow2
    <3> QED
      BY <2>8, <3>1, <3>2
  <2>18. ASSUME NEW i \in BitIndex PROVE Bit(b, i) = 1 <=> i \in s
    BY <2>1, <2>2, <2>3, <2>4, <2>5, <2>6, <2>7, <2>8, <2>10, <2>11, <2>12, <2>13, <2>14,
       <2>15, <2>16, <2>17 DEF BitIndex
  <2>19. BitsOf(b) = { i \in BitIndex : i \in s }
    BY <2>18 DEF BitsOf
  <2> QED
    BY <2>19 DEF b, Sreg
<1> QED
  BY <1>1, <1>2

(* The halves of a word.                                                   *)
LEMMA Halves ==
  /\ \A w \in Word : Lo(w) + 256 * Hi(w) = w
  /\ \A lo, hi \in Byte : /\ lo + 256 * hi \in Word
                          /\ Lo(lo + 256 * hi) = lo /\ Hi(lo + 256 * hi) = hi
<1>1. ASSUME NEW w \in Word PROVE Lo(w) + 256 * Hi(w) = w
  <2>1. w \div 256 \in Int /\ 0 <= w \div 256 /\ w \div 256 < 256
    BY WordRange, SMT
  <2>2. Hi(w) = w \div 256
    BY <2>1 DEF Hi
  <2> QED
    BY <2>2, WordRange, SMT DEF Lo
<1>2. ASSUME NEW lo \in Byte, NEW hi \in Byte
      PROVE  /\ lo + 256 * hi \in Word
             /\ Lo(lo + 256 * hi) = lo /\ Hi(lo + 256 * hi) = hi
  <2>1. lo \in Int /\ 0 <= lo /\ lo <= 255 /\ hi \in Int /\ 0 <= hi /\ hi <= 255
    BY ByteRange
  <2>2. Lo(lo + 256 * hi) = lo
    BY <2>1, SMT DEF Lo
  <2>3. (lo + 256 * hi) \div 256 = hi
    BY <2>1, SMT
  <2> QED
    BY <2>1, <2>2, <2>3, PairType, SMT DEF Hi
<1> QED
  BY <1>1, <1>2

(* The stack pointer is the word at spl; its halves are cells too.         *)
LEMMA StackPointer ==
  ASSUME NEW c \in Context
  PROVE  /\ ISA!SP(MemoryOf(c)) = c.sp
         /\ \A w : MemoryOf([c EXCEPT !.sp = w]) = ISA!PokeWord(MemoryOf(c), Spl, w)
<1>1. ISA!SP(MemoryOf(c)) = c.sp
  <2>1. ISA!SP(MemoryOf(c)) = MemoryOf(c)[Spl] + 256 * MemoryOf(c)[Sph]
    BY Places DEF ISA!SP, ISA!PeekWord
  <2> QED
    BY <2>1, Cells, Halves, ContextFields
<1>2. ASSUME NEW w PROVE MemoryOf([c EXCEPT !.sp = w]) = ISA!PokeWord(MemoryOf(c), Spl, w)
  <2> DEFINE d == [c EXCEPT !.sp = w]
             m == MemoryOf(c)
             f == ISA!PokeWord(m, Spl, w)
  <2>0. /\ \A n \in RegIndex : n \in Addresses
        /\ \A p \in IoPorts : 32 + p \in Addresses
        /\ Spl \in Addresses /\ Sph \in Addresses /\ SregAddr \in Addresses
        /\ \A o \in SramIndex : SramBase + o \in Addresses
    BY Cells
  <2>1. d.regs = c.regs /\ d.io = c.io /\ d.sreg = c.sreg /\ d.sp = w /\ d.sram = c.sram
    BY DEF Context
  <2>2. f = [x \in Addresses |-> IF x = Spl THEN Lo(w) ELSE IF x = Sph THEN Hi(w) ELSE m[x]]
    BY DataIsAddresses, SharedBits, Places DEF ISA!PokeWord
  <2>3. /\ f = [x \in Addresses |-> f[x]]
        /\ f[Spl] = Lo(w) /\ f[Sph] = Hi(w)
        /\ \A x \in Addresses : x # Spl /\ x # Sph => f[x] = m[x]
    BY <2>2, Cells, Apart
  <2>4. Holds(m, c)
    BY Held
  <2> HIDE DEF d, f, m
  <2>5. Holds(f, d)
    <3>1. \A n \in RegIndex : f[n] = d.regs[n]
      BY <2>0, <2>1, <2>3, <2>4, Apart DEF Holds
    <3>2. \A p \in IoPorts : f[32 + p] = d.io[p]
      BY <2>0, <2>1, <2>3, <2>4, Apart DEF Holds
    <3>3. \A o \in SramIndex : f[SramBase + o] = d.sram[o]
      BY <2>0, <2>1, <2>3, <2>4, Apart DEF Holds
    <3>4. f[SregAddr] = ByteOf(d.sreg)
      BY <2>0, <2>1, <2>3, <2>4, Apart DEF Holds
    <3> QED
      BY <2>1, <2>3, <3>1, <3>2, <3>3, <3>4 DEF Holds
  <2>6. MemoryOf(d) = f
    BY <2>3, <2>5, Cellwise
  <2> QED
    BY <2>6 DEF d, f, m
<1> QED
  BY <1>1, <1>2

(* spl and sph change one half each.                                       *)
LEMMA StackPointerHalves ==
  ASSUME NEW c \in Context, NEW b \in Byte
  PROVE  /\ MemoryOf([c EXCEPT !.sp = 256 * Hi(@) + b]) = [MemoryOf(c) EXCEPT ![Spl] = b]
         /\ MemoryOf([c EXCEPT !.sp = Lo(@) + 256 * b]) = [MemoryOf(c) EXCEPT ![Sph] = b]
<1> DEFINE m == MemoryOf(c)
<1>1. m = [x \in Addresses |-> m[x]] /\ m[Spl] = Lo(c.sp) /\ m[Sph] = Hi(c.sp)
  BY Cells
<1>2. Lo(c.sp) \in Byte /\ Hi(c.sp) \in Byte
  BY ContextFields, IntegerSets, WrapType
<1>3. /\ Lo(256 * Hi(c.sp) + b) = b /\ Hi(256 * Hi(c.sp) + b) = Hi(c.sp)
      /\ Lo(Lo(c.sp) + 256 * b) = Lo(c.sp) /\ Hi(Lo(c.sp) + 256 * b) = b
  BY <1>2, Halves, ByteRange
<1>4. \A w : ISA!PokeWord(m, Spl, w)
              = [x \in Addresses |-> IF x = Spl THEN Lo(w) ELSE IF x = Sph THEN Hi(w) ELSE m[x]]
  BY DataIsAddresses, SharedBits, Places DEF ISA!PokeWord
<1> HIDE DEF m
<1>5. ISA!PokeWord(m, Spl, 256 * Hi(c.sp) + b) = [m EXCEPT ![Spl] = b]
  BY <1>1, <1>3, <1>4, Apart
<1>6. ISA!PokeWord(m, Spl, Lo(c.sp) + 256 * b) = [m EXCEPT ![Sph] = b]
  BY <1>1, <1>3, <1>4, Apart
<1> QED
  BY <1>5, <1>6, StackPointer DEF m

-----------------------------------------------------------------------------
(* Access by address.                                                      *)

(* readmem and writemem, and so the loads, the stores and the instructions *)
(* on I/O registers, reach the cell of the data space with that address.   *)
LEMMA ByAddress ==
  ASSUME NEW c \in Context, NEW a \in Word
  PROVE  /\ readmem(c, a) = ISA!Peek(MemoryOf(c), a)
         /\ \A b \in Byte :
              MemoryOf(writemem(c, a, b)) = ISA!Poke(MemoryOf(c), a, b)
<1> DEFINE m == MemoryOf(c)
<1>0. /\ a \in ISA!Data => /\ ISA!Peek(m, a) = m[a]
                          /\ \A b : ISA!Poke(m, a, b) = [m EXCEPT ![a] = b]
      /\ a \notin ISA!Data => /\ ISA!Peek(m, a) = 0
                             /\ \A b : ISA!Poke(m, a, b) = m
  BY DEF ISA!Peek, ISA!Poke
<1>1. CASE a \in RegIndex
  <2>1. a \in ISA!Data /\ m[a] = c.regs[a]
    BY <1>1, Cells, DataIsAddresses
  <2>2. a \notin 32 .. Spl - 1 /\ ~(a >= SramBase) /\ a # Spl /\ a # Sph /\ a # SregAddr
    BY <1>1, RegRange, Places
  <2>3. readmem(c, a) = c.regs[a] /\ \A b : writemem(c, a, b) = [c EXCEPT !.regs[a] = b]
    BY <1>1, <2>2 DEF readmem, writemem
  <2>4. \A b : MemoryOf([c EXCEPT !.regs[a] = b]) = [m EXCEPT ![a] = b]
    BY <1>1, FieldMemory
  <2> HIDE DEF m
  <2> QED
    BY <1>0, <2>1, <2>3, <2>4 DEF m
<1>2. CASE a \in 32 .. Spl - 1
  <2>1. /\ a \in Int /\ a - 32 \in Int /\ 32 + (a - 32) = a
        /\ a \notin RegIndex /\ ~(a >= SramBase) /\ a # Spl /\ a # Sph /\ a # SregAddr
    BY <1>2, RegRange, Places
  <2>2. /\ readmem(c, a) = io_r(c, a - 32)
        /\ \A b : writemem(c, a, b) = io_w(c, a - 32, b)
    BY <1>2, <2>1 DEF readmem, writemem
  <2>3. CASE a - 32 \in IoPorts
    <3>1. a \in ISA!Data /\ m[a] = c.io[a - 32]
      BY <2>1, <2>3, Cells, DataIsAddresses
    <3>2. \A b : MemoryOf([c EXCEPT !.io[a - 32] = b]) = [m EXCEPT ![a] = b]
      BY <2>1, <2>3, FieldMemory
    <3> QED
      BY <2>2, <2>3, <3>1, <3>2, <1>0 DEF io_r, io_w
  <2>4. CASE a - 32 \notin IoPorts
    <3>1. \A p \in IoPorts : a # 32 + p
      BY <2>1, <2>4, PortRange
    <3>2. \A o \in SramIndex : a # SramBase + o
      BY <2>1, SramRange, Places
    <3>3. a \notin ISA!Data
      BY <2>1, <3>1, <3>2, AddressCases, DataIsAddresses
    <3> QED
      BY <2>2, <2>4, <3>3, <1>0 DEF io_r, io_w
  <2> QED
    BY <2>3, <2>4
<1>3. CASE a >= SramBase
  <2>1. /\ a \in Int /\ a - SramBase \in Int /\ SramBase + (a - SramBase) = a
        /\ a \notin RegIndex /\ a \notin 32 .. Spl - 1 /\ a # Spl /\ a # Sph /\ a # SregAddr
    BY <1>3, WordRange, RegRange, Places
  <2>2. /\ readmem(c, a) = sram_r(c, a - SramBase)
        /\ \A b : writemem(c, a, b) = sram_w(c, a - SramBase, b)
    BY <1>3, <2>1 DEF readmem, writemem
  <2>3. CASE a - SramBase \in SramIndex
    <3>1. a \in ISA!Data /\ m[a] = c.sram[a - SramBase]
      BY <2>1, <2>3, Cells, DataIsAddresses
    <3>2. \A b : MemoryOf([c EXCEPT !.sram[a - SramBase] = b]) = [m EXCEPT ![a] = b]
      BY <2>1, <2>3, FieldMemory
    <3> QED
      BY <2>2, <2>3, <3>1, <3>2, <1>0 DEF sram_r, sram_w
  <2>4. CASE a - SramBase \notin SramIndex
    <3>1. \A p \in IoPorts : a # 32 + p
      BY <1>3, <2>1, PortRange, Places
    <3>2. \A o \in SramIndex : a # SramBase + o
      BY <2>1, <2>4, SramRange, Places
    <3>3. a \notin ISA!Data
      BY <2>1, <3>1, <3>2, AddressCases, DataIsAddresses
    <3> QED
      BY <2>2, <2>4, <3>3, <1>0 DEF sram_r, sram_w
  <2> QED
    BY <2>3, <2>4
<1>4. CASE a = SregAddr
  <2>1. /\ a \notin RegIndex /\ a \notin 32 .. Spl - 1
        /\ ~(a >= SramBase) /\ a # Spl /\ a # Sph
    BY <1>4, RegRange, Places
  <2>2. readmem(c, a) = ByteOf(c.sreg) /\ \A b : writemem(c, a, b) = [c EXCEPT !.sreg = BitsOf(b)]
    BY <1>4, <2>1 DEF readmem, writemem
  <2>3. a \in ISA!Data /\ m[a] = ByteOf(c.sreg)
    BY <1>4, Cells, DataIsAddresses
  <2>4. \A b \in Byte : MemoryOf([c EXCEPT !.sreg = BitsOf(b)]) = [m EXCEPT ![a] = b]
    BY <1>4, FieldMemory, BitsRoundTrip
  <2> QED
    BY <2>2, <2>3, <2>4, <1>0
<1>5. CASE a = Spl
  <2>1. /\ a \notin RegIndex /\ a \notin 32 .. Spl - 1
        /\ ~(a >= SramBase) /\ a # SregAddr /\ a # Sph
    BY <1>5, RegRange, Places
  <2>2. /\ readmem(c, a) = Lo(c.sp)
        /\ \A b : writemem(c, a, b) = [c EXCEPT !.sp = 256 * Hi(@) + b]
    BY <1>5, <2>1 DEF readmem, writemem
  <2>3. a \in ISA!Data /\ m[a] = Lo(c.sp)
    BY <1>5, Cells, DataIsAddresses
  <2>4. \A b \in Byte : MemoryOf([c EXCEPT !.sp = 256 * Hi(@) + b]) = [m EXCEPT ![a] = b]
    BY <1>5, StackPointerHalves
  <2> QED
    BY <2>2, <2>3, <2>4, <1>0
<1>6. CASE a = Sph
  <2>1. /\ a \notin RegIndex /\ a \notin 32 .. Spl - 1
        /\ ~(a >= SramBase) /\ a # SregAddr /\ a # Spl
    BY <1>6, RegRange, Places
  <2>2. /\ readmem(c, a) = Hi(c.sp)
        /\ \A b : writemem(c, a, b) = [c EXCEPT !.sp = Lo(@) + 256 * b]
    BY <1>6, <2>1 DEF readmem, writemem
  <2>3. a \in ISA!Data /\ m[a] = Hi(c.sp)
    BY <1>6, Cells, DataIsAddresses
  <2>4. \A b \in Byte : MemoryOf([c EXCEPT !.sp = Lo(@) + 256 * b]) = [m EXCEPT ![a] = b]
    BY <1>6, StackPointerHalves
  <2> QED
    BY <2>2, <2>3, <2>4, <1>0
<1> QED
  <2>1. a \in Int /\ 0 <= a
    BY WordRange
  <2>2. \/ a \in RegIndex \/ a \in 32 .. Spl - 1 \/ a >= SramBase
        \/ a = SregAddr \/ a = Spl \/ a = Sph
    BY <2>1, RegRange, Places
  <2> QED
    BY <1>1, <1>2, <1>3, <1>4, <1>5, <1>6, <2>2

-----------------------------------------------------------------------------
(* Access by name: registers, pairs of registers, the flags, the stack.    *)

(* A register is the cell with its number.                                *)
LEMMA Registers ==
  ASSUME NEW c \in Context, NEW n \in RegIndex
  PROVE  /\ MemoryOf(c)[n] = c.regs[n] /\ c.regs[n] \in Byte
         /\ \A b : MemoryOf([c EXCEPT !.regs[n] = b]) = [MemoryOf(c) EXCEPT ![n] = b]
<1>1. MemoryOf(c)[n] = c.regs[n]
  BY Cells
<1>2. c.regs[n] \in Byte
  BY ContextFields
<1>3. \A b : MemoryOf([c EXCEPT !.regs[n] = b]) = [MemoryOf(c) EXCEPT ![n] = b]
  BY FieldMemory
<1> QED
  BY <1>1, <1>2, <1>3

(* A pair is a little-endian word of the data space.                       *)
LEMMA Pairs ==
  ASSUME NEW c \in Context, NEW n \in 0 .. 15
  PROVE  /\ WordReg(c, n) = ISA!PeekWord(MemoryOf(c), 2 * n)
         /\ \A w \in Int : MemoryOf(SetWord(c, n, w)) = ISA!PokeWord(MemoryOf(c), 2 * n, w)
         /\ ISA!PokeWord(MemoryOf(c), 2 * n, WordReg(c, n)) = MemoryOf(c)
<1>1. /\ 2 * n \in RegIndex /\ 2 * n + 1 \in RegIndex
      /\ 2 * n \in Addresses /\ 2 * n + 1 \in Addresses /\ 2 * n # 2 * n + 1
  <2>1. 2 * n \in RegIndex /\ 2 * n + 1 \in RegIndex
    BY RegRange
  <2> QED
    BY <2>1, Cells, RegRange
<1>2. WordReg(c, n) = ISA!PeekWord(MemoryOf(c), 2 * n)
  BY <1>1, Registers DEF WordReg, ISA!PeekWord
<1>3. \A m, w : ISA!PokeWord(m, 2 * n, w)
        = [x \in Addresses |-> IF x = 2 * n THEN Lo(w) ELSE IF x = 2 * n + 1 THEN Hi(w) ELSE m[x]]
  BY DataIsAddresses, SharedBits DEF ISA!PokeWord
<1>4. ASSUME NEW w \in Int
      PROVE  MemoryOf(SetWord(c, n, w)) = ISA!PokeWord(MemoryOf(c), 2 * n, w)
  <2> DEFINE d == [c EXCEPT !.regs[2 * n] = Lo(w)]
  <2>1. Lo(w) \in Byte /\ d \in Context
    BY <1>1, WrapType, ContextUpdates
  <2>2. SetWord(c, n, w) = [d EXCEPT !.regs[2 * n + 1] = Hi(w)]
    BY DEF SetWord
  <2>3. MemoryOf(d) = [MemoryOf(c) EXCEPT ![2 * n] = Lo(w)]
    BY <1>1, Registers
  <2> HIDE DEF d
  <2>4. MemoryOf(SetWord(c, n, w)) = [MemoryOf(d) EXCEPT ![2 * n + 1] = Hi(w)]
    BY <1>1, <2>1, <2>2, Registers
  <2> DEFINE m == MemoryOf(c)
  <2>5. m = [x \in Addresses |-> m[x]]
    BY Cells
  <2> HIDE DEF m
  <2>6. [[m EXCEPT ![2 * n] = Lo(w)] EXCEPT ![2 * n + 1] = Hi(w)]
        = [x \in Addresses |-> IF x = 2 * n THEN Lo(w) ELSE IF x = 2 * n + 1 THEN Hi(w) ELSE m[x]]
    BY <1>1, <2>5
  <2> QED
    BY <1>3, <2>3, <2>4, <2>6 DEF m
<1>5. ISA!PokeWord(MemoryOf(c), 2 * n, WordReg(c, n)) = MemoryOf(c)
  <2> DEFINE m == MemoryOf(c)
             w == WordReg(c, n)
  <2>1. m = [x \in Addresses |-> m[x]]
    BY Cells
  <2>2. Lo(w) = m[2 * n] /\ Hi(w) = m[2 * n + 1]
    BY <1>1, Registers, Halves DEF WordReg
  <2>3. ISA!PokeWord(m, 2 * n, w)
        = [x \in Addresses |-> IF x = 2 * n THEN Lo(w) ELSE IF x = 2 * n + 1 THEN Hi(w) ELSE m[x]]
    BY <1>3
  <2> HIDE DEF m, w
  <2>4. [x \in Addresses |-> IF x = 2 * n THEN Lo(w) ELSE IF x = 2 * n + 1 THEN Hi(w) ELSE m[x]]
        = [x \in Addresses |-> m[x]]
    BY <2>2
  <2>5. ISA!PokeWord(m, 2 * n, w) = m
    BY <2>1, <2>3, <2>4
  <2> QED
    BY <2>5 DEF m, w
<1> QED
  BY <1>2, <1>4, <1>5

(* The status register is the cell at its address.                         *)
LEMMA FlagsCell ==
  ASSUME NEW c \in Context
  PROVE  /\ ISA!Flags(MemoryOf(c)) = c.sreg
         /\ \A s : MemoryOf([c EXCEPT !.sreg = s]) = ISA!SetFlags(MemoryOf(c), s)
<1>1. ISA!Flags(MemoryOf(c)) = BitsOf(ByteOf(c.sreg))
  BY Cells, SharedBits, Places DEF ISA!Flags
<1> QED
  BY <1>1, BitsRoundTrip, ContextFields, FieldMemory, SharedBits, Places DEF ISA!SetFlags

(* push and pop.                                                           *)
LEMMA StackOps ==
  ASSUME NEW c \in Context
  PROVE  /\ \A b \in Byte : MemoryOf(push(c, b)) = ISA!Push(MemoryOf(c), b)
         /\ MemoryOf(Popped(c)) = ISA!Drop(MemoryOf(c))
         /\ pop(c) = ISA!Top(MemoryOf(c))
<1>1. c.sp \in Word /\ Wrap16(c.sp - 1) \in Word /\ Wrap16(c.sp + 1) \in Word
  <2>1. c.sp \in Word /\ c.sp - 1 \in Int /\ c.sp + 1 \in Int
    BY ContextFields, WordRange
  <2> QED
    BY <2>1, WrapType
<1>2. ISA!SP(MemoryOf(c)) = c.sp
  BY StackPointer
<1>3. ASSUME NEW b \in Byte PROVE MemoryOf(push(c, b)) = ISA!Push(MemoryOf(c), b)
  <2> DEFINE d == [c EXCEPT !.sp = Wrap16(@ - 1)]
  <2>1. d \in Context
    BY <1>1, ContextUpdates
  <2>2. MemoryOf(d) = ISA!PokeWord(MemoryOf(c), Spl, Wrap16(c.sp - 1))
    BY StackPointer
  <2>3. push(c, b) = writemem(d, c.sp, b)
    BY DEF push
  <2> HIDE DEF d
  <2>4. MemoryOf(push(c, b)) = ISA!Poke(MemoryOf(d), c.sp, b)
    BY <1>1, <2>1, <2>3, ByAddress
  <2> QED
    BY <1>2, <2>2, <2>4, SharedBits, Places DEF ISA!Push
<1>4. MemoryOf(Popped(c)) = ISA!Drop(MemoryOf(c))
  BY <1>2, StackPointer, SharedBits, Places DEF Popped, ISA!Drop
<1>5. pop(c) = ISA!Top(MemoryOf(c))
  <2>1. Popped(c) \in Context
    BY StackTypes
  <2>2. ISA!SP(MemoryOf(Popped(c))) = Popped(c).sp /\ Popped(c).sp \in Word
    BY <2>1, StackPointer, ContextFields
  <2>3. pop(c) = ISA!Peek(MemoryOf(Popped(c)), Popped(c).sp)
    BY <2>1, <2>2, ByAddress DEF pop
  <2> QED
    BY <1>4, <2>2, <2>3 DEF ISA!Top
<1> QED
  BY <1>3, <1>4, <1>5

(* Pushing and popping an address.                                         *)
LEMMA CallOps ==
  ASSUME NEW c \in Context
  PROVE  /\ \A w \in Word : MemoryOf(pushw(c, w)) = ISA!PushWord(MemoryOf(c), w)
         /\ MemoryOf(Popped(Popped(c))) = ISA!Drop(ISA!Drop(MemoryOf(c)))
         /\ popw(c) = ISA!TopWord(MemoryOf(c))
<1>1. ASSUME NEW w \in Word PROVE MemoryOf(pushw(c, w)) = ISA!PushWord(MemoryOf(c), w)
  <2>1. Lo(w) \in Byte /\ Hi(w) \in Byte
    BY WrapType, IntegerSets
  <2>2. push(c, Hi(w)) \in Context
    BY <2>1, StackTypes
  <2> QED
    BY <2>1, <2>2, StackOps, SharedBits DEF pushw, ISA!PushWord
<1>2. Popped(c) \in Context
  BY StackTypes
<1> QED
  BY <1>1, <1>2, StackOps DEF popw, ISA!TopWord

-----------------------------------------------------------------------------
(* The fetch, and what it means to be done.                                *)

(* The words fetched are those the instruction set reads.                  *)
LEMMA SameFetch ==
  ASSUME IInv
  PROVE  /\ ISA!FlashAt(ctx.pc) = opcode /\ ISA!FlashAt(ctx.pc + 1) = operand
         /\ ISA!avr_decode(opcode) = instr
         /\ fetched.pc = Wrap16(ctx.pc + 1) /\ fetched2.pc = Wrap16(ctx.pc + 2)
         /\ MemoryOf(fetched) = DataSpace /\ MemoryOf(fetched2) = DataSpace
<1>1. ctx \in Context /\ ctx.pc \in Word /\ ctx.pc + 1 \in Int
  BY Fetch, ContextFields, WordRange
<1>2. \A i : ISA!FlashAt(i) = flash_r(Wrap16(i))
  BY SharedBits DEF ISA!FlashAt, flash_r
<1>3. Wrap16(ctx.pc) = ctx.pc
  BY <1>1, WordRange DEF Wrap16
<1>4. fetched.pc = Wrap16(ctx.pc + 1) /\ fetched2.pc = Wrap16(ctx.pc + 2)
  BY <1>1 DEF fetched, fetched2, Context
<1>5. ISA!FlashAt(ctx.pc) = opcode /\ ISA!FlashAt(ctx.pc + 1) = operand
  BY <1>2, <1>3, <1>4 DEF opcode, operand
<1>6. opcode \in Words
  <2>1. (ctx.pc % FlashWords) + 1 \in 1 .. FlashWords
    BY <1>1, WordRange, FlashAssumption
  <2>2. flash \in [1 .. FlashWords -> Words]
    BY ProgramsAssumption DEF IInv
  <2> QED
    BY <2>1, <2>2 DEF opcode, flash_r
<1>7. ISA!avr_decode(opcode) = instr
  BY <1>6, SharedDecoder DEF instr, Decoded
<1>8. MemoryOf(fetched) = DataSpace /\ MemoryOf(fetched2) = DataSpace
  BY <1>1, FieldMemory DEF fetched, fetched2, DataSpace
<1> QED
  BY <1>4, <1>5, <1>7, <1>8

(* A context with the right pc and the right data space is the outcome.    *)
LEMMA Reached ==
  ASSUME NEW c, NEW t, NEW m, MemoryOf(c) = m, c.pc = Wrap16(t), Ok(c)
  PROVE  ISA!Goto(t, m)
  BY SharedBits DEF Ok, Return, AVRVM_RC_OK, ISA!Goto, DataSpace

LEMMA Continued ==
  ASSUME IInv, NEW c, NEW m, MemoryOf(c) = m, c.pc = fetched.pc, Ok(c)
  PROVE  ISA!Continue(m)
  BY SameFetch, Reached DEF ISA!Continue

LEMMA Skipped2 ==
  ASSUME IInv, NEW c, NEW m, MemoryOf(c) = m, c.pc = fetched2.pc, Ok(c)
  PROVE  ISA!Goto(ctx.pc + 2, m)
  BY SameFetch, Reached

(* The operands are the cells the instruction names.                       *)
LEMMA SameOperands ==
  ASSUME IInv
  PROVE  /\ ISA!rd(instr, opcode) = Rd /\ ISA!rr(instr, opcode) = Rr
         /\ instr \in HasRd => DataSpace[Rd] = RD
         /\ instr \in HasRr => DataSpace[Rr] = RR
         /\ ISA!Flags(DataSpace) = ctx.sreg
<1>1. ISA!rd(instr, opcode) = Rd /\ ISA!rr(instr, opcode) = Rr
  BY SharedDecoder DEF Rd, Rr
<1>2. instr \in HasRd => DataSpace[Rd] = RD
  BY Fetch, Operands, Registers DEF DataSpace, RD
<1>3. instr \in HasRr => DataSpace[Rr] = RR
  BY Fetch, Operands, Registers DEF DataSpace, RR
<1>4. ISA!Flags(DataSpace) = ctx.sreg
  BY Fetch, FlagsCell DEF DataSpace
<1> QED
  BY <1>1, <1>2, <1>3, <1>4

-----------------------------------------------------------------------------
(* Arithmetic.                                                             *)

(* Where a result goes.                                                    *)
LEMMA Outcomes ==
  ASSUME IInv
  PROVE  /\ Rd \in RegIndex
            => \A out \in Result8 : Result(out)
                 => ISA!Continue(ISA!SetFlags([DataSpace EXCEPT ![Rd] = out.res], out.sreg))
         /\ \A out \in Result8 : Flags(out)
                 => ISA!Continue(ISA!SetFlags(DataSpace, out.sreg))
         /\ \A n \in 0 .. 15 : \A out \in Result16 : ResultWord(n, out)
                 => ISA!Continue(ISA!SetFlags(ISA!PokeWord(DataSpace, 2 * n, out.res), out.sreg))
<1>1. fetched \in Context /\ MemoryOf(fetched) = DataSpace
  BY Fetch, SameFetch
<1>2. ASSUME Rd \in RegIndex, NEW out \in Result8, Result(out)
      PROVE  ISA!Continue(ISA!SetFlags([DataSpace EXCEPT ![Rd] = out.res], out.sreg))
  <2> DEFINE c == [fetched EXCEPT !.regs[Rd] = out.res]
             d == [c EXCEPT !.sreg = out.sreg]
  <2>1. out.res \in Byte /\ out.sreg \in Sreg
    BY DEF Result8
  <2>2. c \in Context /\ MemoryOf(c) = [DataSpace EXCEPT ![Rd] = out.res] /\ c.pc = fetched.pc
    <3>1. c \in Context
      BY <1>1, <1>2, <2>1, ContextUpdates
    <3>2. MemoryOf(c) = [MemoryOf(fetched) EXCEPT ![Rd] = out.res]
      BY <1>1, <1>2, Registers
    <3>3. c.pc = fetched.pc
      BY <1>1 DEF Context
    <3> QED
      BY <1>1, <3>1, <3>2, <3>3
  <2>3. Ok(d)
    BY <1>2 DEF Result
  <2>4. d.pc = c.pc
    BY <2>2 DEF Context
  <2> HIDE DEF c
  <2>5. MemoryOf(d) = ISA!SetFlags(MemoryOf(c), out.sreg)
    BY <2>2, FlagsCell
  <2> HIDE DEF d
  <2>6. ISA!Continue(MemoryOf(d))
    BY <2>2, <2>3, <2>4, Continued
  <2> QED
    BY <2>2, <2>5, <2>6
<1>3. ASSUME NEW out \in Result8, Flags(out)
      PROVE  ISA!Continue(ISA!SetFlags(DataSpace, out.sreg))
  <2> DEFINE d == [fetched EXCEPT !.sreg = out.sreg]
  <2>1. Ok(d) /\ d.pc = fetched.pc
    BY <1>1, <1>3 DEF Flags, Context
  <2>2. MemoryOf(d) = ISA!SetFlags(DataSpace, out.sreg)
    BY <1>1, FlagsCell
  <2> HIDE DEF d
  <2> QED
    BY <2>1, <2>2, Continued
<1>4. ASSUME NEW n \in 0 .. 15, NEW out \in Result16, ResultWord(n, out)
      PROVE  ISA!Continue(ISA!SetFlags(ISA!PokeWord(DataSpace, 2 * n, out.res), out.sreg))
  <2> DEFINE c == SetWord(fetched, n, out.res)
             d == [c EXCEPT !.sreg = out.sreg]
             e == SetWord([fetched EXCEPT !.sreg = out.sreg], n, out.res)
  <2>1. out.res \in Int
    BY IntegerSets DEF Result16
  <2>2. c \in Context /\ c.pc = fetched.pc
    BY <1>1, <2>1, WordRegisters DEF SetWord, Context
  <2>3. d = e
    BY <1>1 DEF SetWord, Context
  <2>4. Ok(e)
    BY <1>4 DEF ResultWord
  <2>5. d.pc = c.pc
    BY <2>2 DEF Context
  <2>6. MemoryOf(c) = ISA!PokeWord(DataSpace, 2 * n, out.res)
    BY <1>1, <2>1, Pairs
  <2> HIDE DEF c, e
  <2>7. MemoryOf(d) = ISA!SetFlags(MemoryOf(c), out.sreg)
    BY <2>2, FlagsCell
  <2> HIDE DEF d
  <2> QED
    BY <2>2, <2>3, <2>4, <2>5, <2>6, <2>7, Continued
<1> QED
  BY <1>2, <1>3, <1>4

(* The instruction set's arithmetic, instruction by instruction, on what   *)
(* the code's operands are.                                                *)
LEMMA OutcomeCases ==
  ASSUME NEW i, NEW w
  PROVE  LET s   == ISA!Flags(DataSpace)
             d   == DataSpace[ISA!rd(i, w)]
             r   == IF i \in ISA!UpperImm THEN ISA!imm(i, w) ELSE DataSpace[ISA!rr(i, w)]
             out == ISA!Outcome(i, w)
         IN
         /\ i = "add" => out = Sum(d, r, 0, s)
         /\ i = "adc" => out = Sum(d, r, Carry(s), s)
         /\ i \in {"sub", "subi", "cp", "cpi"} => out = Difference(d, r, 0, FALSE, s)
         /\ i \in {"sbc", "sbci", "cpc"} => out = Difference(d, r, Carry(s), TRUE, s)
         /\ i = "neg" => out = Difference(0, d, 0, FALSE, s)
         /\ i \in {"and", "andi"} => out = Bitwise8(BitAnd(d, r), s)
         /\ i \in {"or", "ori"} => out = Bitwise8(BitOr(d, r), s)
         /\ i = "eor" => out = Bitwise8(BitXor(d, r), s)
         /\ i = "com" => out = Complement(d, s)
         /\ i = "inc" => out = Step(d, 1, s)
         /\ i = "dec" => out = Step(d, -1, s)
         /\ i = "lsr" => out = Halved(d, 0, s)
         /\ i = "ror" => out = Halved(d, Carry(s), s)
         /\ i = "asr" => out = Halved(d, d \div 128, s)
         /\ i = "mul" => out = ProductOf(d * r, FALSE, s)
         /\ i = "fmul" => out = ProductOf(d * r, TRUE, s)
         /\ i = "muls" => out = ProductOf(Signed8(d) * Signed8(r), FALSE, s)
         /\ i = "fmuls" => out = ProductOf(Signed8(d) * Signed8(r), TRUE, s)
         /\ i = "mulsu" => out = ProductOf(Signed8(d) * r, FALSE, s)
         /\ i = "fmulsu" => out = ProductOf(Signed8(d) * r, TRUE, s)
<1> DEFINE s   == ISA!Flags(DataSpace)
           d   == DataSpace[ISA!rd(i, w)]
           r   == IF i \in ISA!UpperImm THEN ISA!imm(i, w) ELSE DataSpace[ISA!rr(i, w)]
           out == ISA!Outcome(i, w)
<1>1. ISA!CarryIn = Carry(s)
  BY SharedFlags DEF ISA!CarryIn, Carry
<1>2. /\ i = "add" => out = ISA!Sum(d, r, 0, s)
      /\ i = "adc" => out = ISA!Sum(d, r, Carry(s), s)
      /\ i \in {"sub", "subi", "cp", "cpi"} => out = ISA!Difference(d, r, 0, FALSE, s)
      /\ i \in {"sbc", "sbci", "cpc"} => out = ISA!Difference(d, r, Carry(s), TRUE, s)
      /\ i = "neg" => out = ISA!Difference(0, d, 0, FALSE, s)
  BY <1>1 DEF ISA!Outcome
<1>3. /\ i \in {"and", "andi"} => out = ISA!Bitwise8(ISA!BitAnd(d, r), s)
      /\ i \in {"or", "ori"} => out = ISA!Bitwise8(ISA!BitOr(d, r), s)
      /\ i = "eor" => out = ISA!Bitwise8(ISA!BitXor(d, r), s)
      /\ i = "com" => out = ISA!Complement(d, s)
      /\ i = "inc" => out = ISA!Step(d, 1, s)
      /\ i = "dec" => out = ISA!Step(d, -1, s)
  BY DEF ISA!Outcome
<1>4. /\ i = "lsr" => out = ISA!Halved(d, 0, s)
      /\ i = "ror" => out = ISA!Halved(d, Carry(s), s)
      /\ i = "asr" => out = ISA!Halved(d, d \div 128, s)
  BY <1>1 DEF ISA!Outcome
<1>5. /\ i = "mul" => out = ISA!ProductOf(d * r, i = "fmul", s)
      /\ i = "fmul" => out = ISA!ProductOf(d * r, i = "fmul", s)
      /\ i = "muls" => out = ISA!ProductOf(Signed8(d) * Signed8(r), i = "fmuls", s)
      /\ i = "fmuls" => out = ISA!ProductOf(Signed8(d) * Signed8(r), i = "fmuls", s)
      /\ i = "mulsu" => out = ISA!ProductOf(Signed8(d) * r, i = "fmulsu", s)
      /\ i = "fmulsu" => out = ISA!ProductOf(Signed8(d) * r, i = "fmulsu", s)
  BY SharedBits DEF ISA!Outcome
<1>6. /\ i = "mul" => (i = "fmul") = FALSE
      /\ i = "fmul" => (i = "fmul") = TRUE
      /\ i = "muls" => (i = "fmuls") = FALSE
      /\ i = "fmuls" => (i = "fmuls") = TRUE
      /\ i = "mulsu" => (i = "fmulsu") = FALSE
      /\ i = "fmulsu" => (i = "fmulsu") = TRUE
  OBVIOUS
<1>7. /\ i = "mul" => out = ProductOf(d * r, FALSE, s)
      /\ i = "fmul" => out = ProductOf(d * r, TRUE, s)
      /\ i = "muls" => out = ProductOf(Signed8(d) * Signed8(r), FALSE, s)
      /\ i = "fmuls" => out = ProductOf(Signed8(d) * Signed8(r), TRUE, s)
      /\ i = "mulsu" => out = ProductOf(Signed8(d) * r, FALSE, s)
      /\ i = "fmulsu" => out = ProductOf(Signed8(d) * r, TRUE, s)
  <2> HIDE DEF d, r, s, out
  <2> QED
    BY <1>5, <1>6, SharedArith, Zenon
<1>8. /\ i \in {"sub", "subi", "cp", "cpi"} => out = Difference(d, r, 0, FALSE, s)
      /\ i \in {"sbc", "sbci", "cpc"} => out = Difference(d, r, Carry(s), TRUE, s)
      /\ i = "neg" => out = Difference(0, d, 0, FALSE, s)
  <2> HIDE DEF d, r, s, out
  <2> QED
    BY <1>2, SharedArith, Zenon
<1>9. /\ i = "add" => out = Sum(d, r, 0, s)
      /\ i = "adc" => out = Sum(d, r, Carry(s), s)
      /\ i \in {"and", "andi"} => out = Bitwise8(BitAnd(d, r), s)
      /\ i \in {"or", "ori"} => out = Bitwise8(BitOr(d, r), s)
      /\ i = "eor" => out = Bitwise8(BitXor(d, r), s)
      /\ i = "com" => out = Complement(d, s)
      /\ i = "inc" => out = Step(d, 1, s)
      /\ i = "dec" => out = Step(d, -1, s)
      /\ i = "lsr" => out = Halved(d, 0, s)
      /\ i = "ror" => out = Halved(d, Carry(s), s)
      /\ i = "asr" => out = Halved(d, d \div 128, s)
  <2> HIDE DEF d, r, s, out
  <2> QED
    BY <1>2, <1>3, <1>4, SharedArith, SharedBits, ZenonT(60)
<1> HIDE DEF d, r, s, out
<1>10. QED
  BY <1>7, <1>8, <1>9, Zenon DEF d, r, s, out

(* It is the code's.                                                       *)
LEMMA SameArithmetic ==
  ASSUME IInv
  PROVE  /\ instr \in {"add", "adc"}
            => ISA!Outcome(instr, opcode) = AluAdd(instr, RD, RR, ctx.sreg)
         /\ instr \in {"sub", "subi", "sbc", "sbci", "cp", "cpi", "cpc"}
            => ISA!Outcome(instr, opcode) = AluSub(instr, RD, Source, ctx.sreg)
         /\ instr = "neg" => ISA!Outcome(instr, opcode) = AluSub(instr, 0, RD, ctx.sreg)
         /\ instr \in {"and", "andi", "or", "ori", "eor"}
            => ISA!Outcome(instr, opcode) = AluLogic(instr, RD, Source, ctx.sreg)
         /\ instr = "com" => ISA!Outcome(instr, opcode) = AluCom(RD, ctx.sreg)
         /\ instr \in {"inc", "dec"}
            => ISA!Outcome(instr, opcode) = AluIncDec(instr, RD, ctx.sreg)
         /\ instr \in {"mul", "muls", "mulsu"}
            => ISA!Outcome(instr, opcode) = AluMul(instr, RD, RR, ctx.sreg)
         /\ instr \in {"fmul", "fmuls", "fmulsu"}
            => ISA!Outcome(instr, opcode) = AluFMul(instr, RD, RR, ctx.sreg)
         /\ instr \in {"lsr", "ror", "asr"}
            => ISA!Outcome(instr, opcode) = AluShift(instr, RD, ctx.sreg)
<1> DEFINE d == DataSpace[ISA!rd(instr, opcode)]
           r == IF instr \in ISA!UpperImm THEN ISA!imm(instr, opcode)
                ELSE DataSpace[ISA!rr(instr, opcode)]
           s == ISA!Flags(DataSpace)
           out == ISA!Outcome(instr, opcode)
<1>1. s \in Sreg /\ s = ctx.sreg
  BY Fetch, SameOperands
<1>2. instr \in HasRd => d = RD /\ d \in Byte
  BY SameOperands, Operands
<1>3. /\ instr \in TwoRegisters \cup UpperImm => r = Source /\ r \in Byte
      /\ instr \in HasRr \ UpperImm => r = RR /\ r \in Byte
  <2>1. ISA!UpperImm = UpperImm
    BY DEF ISA!UpperImm, UpperImm
  <2>2. instr \in TwoRegisters \cup UpperImm => r = Source
    BY <2>1, SharedDecoder, SameOperands DEF Source, HasRr
  <2>3. instr \in HasRr \ UpperImm => r = RR /\ r \in Byte
    BY <2>1, SameOperands, Operands
  <2> QED
    BY <2>2, <2>3, Operands
<1>4. /\ instr = "add" => out = Sum(d, r, 0, s)
      /\ instr = "adc" => out = Sum(d, r, Carry(s), s)
      /\ instr \in {"sub", "subi", "cp", "cpi"} => out = Difference(d, r, 0, FALSE, s)
      /\ instr \in {"sbc", "sbci", "cpc"} => out = Difference(d, r, Carry(s), TRUE, s)
      /\ instr = "neg" => out = Difference(0, d, 0, FALSE, s)
      /\ instr \in {"and", "andi"} => out = Bitwise8(BitAnd(d, r), s)
      /\ instr \in {"or", "ori"} => out = Bitwise8(BitOr(d, r), s)
      /\ instr = "eor" => out = Bitwise8(BitXor(d, r), s)
      /\ instr = "com" => out = Complement(d, s)
      /\ instr = "inc" => out = Step(d, 1, s)
      /\ instr = "dec" => out = Step(d, -1, s)
      /\ instr = "lsr" => out = Halved(d, 0, s)
      /\ instr = "ror" => out = Halved(d, Carry(s), s)
      /\ instr = "asr" => out = Halved(d, d \div 128, s)
      /\ instr = "mul" => out = ProductOf(d * r, FALSE, s)
      /\ instr = "fmul" => out = ProductOf(d * r, TRUE, s)
      /\ instr = "muls" => out = ProductOf(Signed8(d) * Signed8(r), FALSE, s)
      /\ instr = "fmuls" => out = ProductOf(Signed8(d) * Signed8(r), TRUE, s)
      /\ instr = "mulsu" => out = ProductOf(Signed8(d) * r, FALSE, s)
      /\ instr = "fmulsu" => out = ProductOf(Signed8(d) * r, TRUE, s)
  BY OutcomeCases, Zenon
<1> HIDE DEF d, r, s, out
<1>5. CASE instr \in {"add", "adc"}
  <2>1. d \in Byte /\ d = RD /\ r \in Byte /\ r = RR
    BY <1>2, <1>3, <1>5 DEF HasRd, HasRr, RdPlain, TwoRegisters, UpperImm
  <2> QED
    BY <1>1, <1>4, <1>5, <2>1, AddMeaning DEF out
<1>6. CASE instr \in {"sub", "subi", "sbc", "sbci", "cp", "cpi", "cpc"}
  <2>1. d \in Byte /\ d = RD /\ r \in Byte /\ r = Source
    BY <1>2, <1>3, <1>6 DEF HasRd, RdPlain, TwoRegisters, UpperImm
  <2>2. d \in Byte /\ r \in Byte /\ s \in Sreg
    BY <1>1, <2>1
  <2>3. CASE instr \in {"sbc", "sbci", "cpc"}
    <3>1. AluSub(instr, d, r, s) = Difference(d, r, Carry(s), TRUE, s)
      BY <2>2, <2>3, SubMeaning, Zenon
    <3> QED
      BY <1>1, <1>4, <2>1, <2>3, <3>1, Zenon DEF out
  <2>4. CASE instr \in {"sub", "subi", "cp", "cpi"}
    <3>1. instr \notin {"sbc", "sbci", "cpc"}
      BY <2>4
    <3>2. AluSub(instr, d, r, s) = Difference(d, r, 0, FALSE, s)
      BY <2>2, <3>1, SubMeaning, Zenon
    <3> QED
      BY <1>1, <1>4, <2>1, <2>4, <3>2, Zenon DEF out
  <2> QED
    BY <1>6, <2>3, <2>4
<1>7. CASE instr = "neg"
  <2>1. d \in Byte /\ d = RD /\ 0 \in Byte
    BY <1>2, <1>7, ByteRange DEF HasRd, RdPlain
  <2>2. d \in Byte /\ s \in Sreg /\ instr \notin {"sbc", "sbci", "cpc"}
    BY <1>1, <1>7, <2>1
  <2>3. AluSub(instr, 0, d, s) = Difference(0, d, 0, FALSE, s)
    BY <2>1, <2>2, SubMeaning, ZenonT(60)
  <2> QED
    BY <1>1, <1>4, <1>7, <2>1, <2>3, Zenon DEF out
<1>8. CASE instr \in {"and", "andi", "or", "ori", "eor"}
  <2>1. d \in Byte /\ d = RD /\ r \in Byte /\ r = Source
    BY <1>2, <1>3, <1>8 DEF HasRd, RdPlain, TwoRegisters, UpperImm
  <2>2. AluLogic(instr, d, r, s) = out
    BY <1>1, <1>4, <1>8, <2>1, LogicMeaning
  <2> QED
    BY <1>1, <1>8, <2>1, <2>2 DEF out
<1>9. CASE instr = "com"
  <2>1. d \in Byte /\ d = RD
    BY <1>2, <1>9 DEF HasRd, RdPlain
  <2> QED
    BY <1>1, <1>4, <1>9, <2>1, ComMeaning DEF out
<1>10. CASE instr \in {"inc", "dec"}
  <2>1. d \in Byte /\ d = RD
    BY <1>2, <1>10 DEF HasRd, RdPlain
  <2> QED
    BY <1>1, <1>4, <1>10, <2>1, IncDecMeaning DEF out
<1>11. CASE instr \in {"mul", "muls", "mulsu", "fmul", "fmuls", "fmulsu"}
  <2>1. d \in Byte /\ d = RD /\ r \in Byte /\ r = RR
    BY <1>2, <1>3, <1>11 DEF HasRd, HasRr, RdPlain, RrPlain, TwoRegisters, UpperImm, Multiplies816
  <2>2. /\ instr \in {"mul", "fmul"} => Product(instr, d, r) = d * r
        /\ instr \in {"muls", "fmuls"} => Product(instr, d, r) = Signed8(d) * Signed8(r)
        /\ instr \in {"mulsu", "fmulsu"} => Product(instr, d, r) = Signed8(d) * r
    BY DEF Product, Signed8
  <2>3. instr \in {"mul", "muls", "mulsu"} => out = ProductOf(Product(instr, d, r), FALSE, s)
    BY <1>4, <2>2
  <2>4. instr \in {"fmul", "fmuls", "fmulsu"} => out = ProductOf(Product(instr, d, r), TRUE, s)
    BY <1>4, <2>2
  <2>5. /\ AluMul(instr, d, r, s) = ProductOf(Product(instr, d, r), FALSE, s)
        /\ AluFMul(instr, d, r, s) = ProductOf(Product(instr, d, r), TRUE, s)
    <3>1. d \in Byte /\ r \in Byte /\ s \in Sreg
      BY <1>1, <2>1
    <3>2. \A i \in {"mul", "muls", "mulsu", "fmul", "fmuls", "fmulsu"} :
            /\ AluMul(i, d, r, s) = ProductOf(Product(i, d, r), FALSE, s)
            /\ AluFMul(i, d, r, s) = ProductOf(Product(i, d, r), TRUE, s)
      BY <3>1, MulMeaning, Zenon
    <3> QED
      BY <1>11, <3>2, Zenon
  <2> QED
    BY <1>1, <1>11, <2>1, <2>3, <2>4, <2>5 DEF out
<1>12. CASE instr \in {"lsr", "ror", "asr"}
  <2>1. d \in Byte /\ d = RD
    BY <1>2, <1>12 DEF HasRd, RdPlain
  <2> QED
    BY <1>1, <1>4, <1>12, <2>1, ShiftMeaning DEF out
<1> QED
  BY <1>5, <1>6, <1>7, <1>8, <1>9, <1>10, <1>11, <1>12

(* A pair and a six-bit constant.                                          *)
LEMMA SameWordSum ==
  ASSUME IInv, instr \in WordImm
  PROVE  /\ Rd \in 0 .. 15 /\ ISA!rd(instr, opcode) = Rd
         /\ AluWord(instr, WordReg(ctx, Rd), imm(instr, opcode), ctx.sreg)
            = ISA!WordSum(ISA!PeekWord(DataSpace, 2 * Rd),
                          IF instr = "adiw" THEN ISA!imm(instr, opcode)
                          ELSE 0 - ISA!imm(instr, opcode),
                          ISA!Flags(DataSpace))
         /\ AluWord(instr, WordReg(ctx, Rd), imm(instr, opcode), ctx.sreg) \in Result16
<1> DEFINE k == imm(instr, opcode)
<1>1. Rd \in 0 .. 15 /\ ISA!rd(instr, opcode) = Rd
  BY Fetch, RegisterOperands, SameOperands DEF Rd
<1>2. k \in 0 .. 63
  <2>1. k = Field(opcode, 1, 16) + 16 * Field(opcode, 64, 4)
    BY DEF imm, WordImm, UpperImm
  <2> QED
    BY <2>1, Fetch, WordRange, SMT DEF Field
<1>3. WordReg(ctx, Rd) \in Word /\ WordReg(ctx, Rd) = ISA!PeekWord(DataSpace, 2 * Rd)
  BY <1>1, Fetch, WordRegisters, Pairs DEF DataSpace
<1>4. ISA!imm(instr, opcode) = k /\ ISA!Flags(DataSpace) = ctx.sreg /\ ctx.sreg \in Sreg
  BY Fetch, SharedDecoder, SameOperands
<1>5. k \in Byte /\ AluWord(instr, WordReg(ctx, Rd), k, ctx.sreg) \in Result16
  <2> HIDE DEF k
  <2>1. k \in Byte
    BY <1>2, ByteRange
  <2> QED
    BY <1>3, <1>4, <2>1, AluWordTypes
<1> HIDE DEF k
<1>6. AluWord(instr, WordReg(ctx, Rd), k, ctx.sreg)
      = WordSum(WordReg(ctx, Rd), IF instr = "adiw" THEN k ELSE 0 - k, ctx.sreg)
  BY <1>2, <1>3, <1>4, WordMeaning DEF WordImm
<1> QED
  BY <1>1, <1>3, <1>4, <1>5, <1>6, SharedArith, Zenon DEF k

(* The arithmetic and logic instructions.                                  *)
LEMMA ArithmeticImplements ==
  ASSUME IInv,
         \/ Add \/ Sub \/ Neg \/ Compare \/ AddWord \/ Logic \/ Com \/ IncDec
         \/ Mul \/ FMul \/ Shift
  PROVE  ISA!Arithmetic(instr, opcode)
<1> DEFINE out == ISA!Outcome(instr, opcode)
<1>1. ctx.sreg \in Sreg /\ 0 \in Byte
  BY Fetch, ByteRange
<1>2. ASSUME instr \in {"add", "adc", "sub", "subi", "sbc", "sbci", "neg", "and", "andi",
                       "or", "ori", "eor", "com", "inc", "dec", "lsr", "ror", "asr"},
             Result(out), out \in Result8
      PROVE  ISA!Arithmetic(instr, opcode)
  <2>1. instr \in HasRd /\ instr \in ISA!ToRegister
    BY <1>2 DEF HasRd, RdPlain, TwoRegisters, UpperImm, ISA!ToRegister
  <2>2. Rd \in RegIndex /\ ISA!rd(instr, opcode) = Rd
    BY <2>1, Operands, SameOperands
  <2> HIDE DEF out
  <2>3. ISA!Continue(ISA!SetFlags([DataSpace EXCEPT ![Rd] = out.res], out.sreg))
    BY <1>2, <2>2, Outcomes
  <2> QED
    BY <2>1, <2>2, <2>3 DEF out, ISA!Arithmetic
<1>3. ASSUME instr \in {"mul", "muls", "mulsu", "fmul", "fmuls", "fmulsu"},
             ResultWord(0, out), out \in Result16
      PROVE  ISA!Arithmetic(instr, opcode)
  <2>1. instr \in ISA!Multiplies
    BY <1>3 DEF ISA!Multiplies
  <2> HIDE DEF out
  <2>2. ISA!Continue(ISA!SetFlags(ISA!PokeWord(DataSpace, 2 * 0, out.res), out.sreg))
    BY <1>3, Outcomes
  <2> QED
    BY <2>1, <2>2 DEF out, ISA!Arithmetic
<1>4. CASE Add
  <2>1. instr \in {"add", "adc"} /\ out = AluAdd(instr, RD, RR, ctx.sreg)
    BY <1>4, SameArithmetic DEF Add
  <2>2. RD \in Byte /\ RR \in Byte
    BY <2>1, Operands DEF HasRd, HasRr, RdPlain, TwoRegisters
  <2> QED
    BY <1>1, <1>2, <1>4, <2>1, <2>2, AluTypes DEF Add
<1>5. CASE Sub
  <2>1. instr \in {"sub", "subi", "sbc", "sbci"} /\ out = AluSub(instr, RD, Source, ctx.sreg)
    BY <1>5, SameArithmetic DEF Sub
  <2>2. RD \in Byte /\ Source \in Byte
    BY <2>1, Operands DEF HasRd, RdPlain, TwoRegisters, UpperImm
  <2> QED
    BY <1>1, <1>2, <1>5, <2>1, <2>2, AluTypes DEF Sub
<1>6. CASE Neg
  <2>1. instr = "neg" /\ out = AluSub(instr, 0, RD, ctx.sreg)
    BY <1>6, SameArithmetic DEF Neg
  <2>2. RD \in Byte
    BY <2>1, Operands DEF HasRd, RdPlain
  <2> QED
    BY <1>1, <1>2, <1>6, <2>1, <2>2, AluTypes DEF Neg
<1>7. CASE Compare
  <2>1. instr \in {"cp", "cpi", "cpc"} /\ out = AluSub(instr, RD, Source, ctx.sreg)
    BY <1>7, SameArithmetic DEF Compare
  <2>2. RD \in Byte /\ Source \in Byte
    BY <2>1, Operands DEF HasRd, RdPlain, TwoRegisters, UpperImm
  <2>3. out \in Result8 /\ Flags(out)
    BY <1>1, <1>7, <2>1, <2>2, AluTypes DEF Compare
  <2> HIDE DEF out
  <2>4. ISA!Continue(ISA!SetFlags(DataSpace, out.sreg))
    BY <2>3, Outcomes
  <2> QED
    BY <2>1, <2>4 DEF out, ISA!Arithmetic, ISA!Compares
<1>8. CASE AddWord
  <2> DEFINE sum == AluWord(instr, WordReg(ctx, Rd), imm(instr, opcode), ctx.sreg)
  <2>1. instr \in WordImm /\ ResultWord(Rd, sum)
    BY <1>8 DEF AddWord
  <2>2. Rd \in 0 .. 15 /\ sum \in Result16
    BY <2>1, SameWordSum
  <2> HIDE DEF sum
  <2>3. ISA!Continue(ISA!SetFlags(ISA!PokeWord(DataSpace, 2 * Rd, sum.res), sum.sreg))
    BY <2>1, <2>2, Outcomes
  <2>4. instr \in ISA!WordImm
    BY <2>1 DEF ISA!WordImm, WordImm
  <2> QED
    BY <2>1, <2>3, <2>4, SameWordSum DEF sum, ISA!Arithmetic
<1>9. CASE Logic
  <2>1. /\ instr \in {"and", "andi", "or", "ori", "eor"}
        /\ out = AluLogic(instr, RD, Source, ctx.sreg)
    BY <1>9, SameArithmetic DEF Logic
  <2>2. RD \in Byte /\ Source \in Byte
    BY <2>1, Operands DEF HasRd, RdPlain, TwoRegisters, UpperImm
  <2> QED
    BY <1>1, <1>2, <1>9, <2>1, <2>2, AluTypes DEF Logic
<1>10. CASE Com
  <2>1. instr = "com" /\ out = AluCom(RD, ctx.sreg)
    BY <1>10, SameArithmetic DEF Com
  <2>2. RD \in Byte
    BY <2>1, Operands DEF HasRd, RdPlain
  <2> QED
    BY <1>1, <1>2, <1>10, <2>1, <2>2, AluTypes DEF Com
<1>11. CASE IncDec
  <2>1. instr \in {"inc", "dec"} /\ out = AluIncDec(instr, RD, ctx.sreg)
    BY <1>11, SameArithmetic DEF IncDec
  <2>2. RD \in Byte
    BY <2>1, Operands DEF HasRd, RdPlain
  <2> QED
    BY <1>1, <1>2, <1>11, <2>1, <2>2, AluTypes DEF IncDec
<1>12. CASE Mul
  <2>1. instr \in {"mul", "muls", "mulsu"} /\ out = AluMul(instr, RD, RR, ctx.sreg)
    BY <1>12, SameArithmetic DEF Mul
  <2>2. RD \in Byte /\ RR \in Byte
    BY <2>1, Operands DEF HasRd, HasRr, RdPlain, TwoRegisters, Multiplies816
  <2> QED
    BY <1>1, <1>3, <1>12, <2>1, <2>2, AluWordTypes DEF Mul
<1>13. CASE FMul
  <2>1. instr \in {"fmul", "fmuls", "fmulsu"} /\ out = AluFMul(instr, RD, RR, ctx.sreg)
    BY <1>13, SameArithmetic DEF FMul
  <2>2. RD \in Byte /\ RR \in Byte
    BY <2>1, Operands DEF HasRd, HasRr, RdPlain, TwoRegisters, Multiplies816
  <2> QED
    BY <1>1, <1>3, <1>13, <2>1, <2>2, AluWordTypes DEF FMul
<1>14. CASE Shift
  <2>1. instr \in {"lsr", "ror", "asr"} /\ out = AluShift(instr, RD, ctx.sreg)
    BY <1>14, SameArithmetic DEF Shift
  <2>2. RD \in Byte
    BY <2>1, Operands DEF HasRd, RdPlain
  <2> QED
    BY <1>1, <1>2, <1>14, <2>1, <2>2, AluTypes DEF Shift
<1> QED
  BY <1>4, <1>5, <1>6, <1>7, <1>8, <1>9, <1>10, <1>11, <1>12, <1>13, <1>14

-----------------------------------------------------------------------------
(* Branches, calls and skips.                                              *)

(* Relative addresses are taken from a pc that has already wrapped.        *)
LEMMA Relatives ==
  ASSUME IInv
  PROVE  \A k \in Int : /\ Wrap16(fetched.pc + k) = Wrap16(ctx.pc + 1 + k)
                        /\ ctx.pc + 1 + k \in Int
<1>1. ctx.pc \in Int /\ fetched.pc = Wrap16(ctx.pc + 1)
  BY Fetch, SameFetch
<1> QED
  BY <1>1 DEF Wrap16

(* A jump leaves the data space alone and goes where its target says.      *)
LEMMA Jumped ==
  ASSUME NEW c \in Context, NEW t, NEW u, NEW m, MemoryOf(c) = m, Wrap16(t) = Wrap16(u),
         Ok(Jump(c, t))
  PROVE  ISA!Goto(u, m)
<1>1. Jump(c, t).pc = Wrap16(u)
  BY DEF Jump, Context
<1>2. MemoryOf(Jump(c, t)) = m
  BY FieldMemory DEF Jump
<1> QED
  BY <1>1, <1>2, Reached

(* The return address of a call is pushed as the instruction set says.     *)
LEMMA Pushed ==
  ASSUME IInv
  PROVE  /\ pushw(fetched, fetched.pc) \in Context
         /\ pushw(fetched2, fetched2.pc) \in Context
         /\ MemoryOf(pushw(fetched, fetched.pc)) = ISA!ReturnTo(ctx.pc + 1)
         /\ MemoryOf(pushw(fetched2, fetched2.pc)) = ISA!ReturnTo(ctx.pc + 2)
<1>1. /\ fetched \in Context /\ fetched.pc \in Word
      /\ fetched2 \in Context /\ fetched2.pc \in Word
  BY Fetch, ContextFields
<1>2. /\ MemoryOf(fetched) = DataSpace /\ fetched.pc = Wrap16(ctx.pc + 1)
      /\ MemoryOf(fetched2) = DataSpace /\ fetched2.pc = Wrap16(ctx.pc + 2)
  BY SameFetch
<1>3. /\ pushw(fetched, fetched.pc) \in Context
      /\ pushw(fetched2, fetched2.pc) \in Context
  BY <1>1, CallTypes
<1>4. MemoryOf(pushw(fetched, fetched.pc)) = ISA!PushWord(DataSpace, fetched.pc)
  BY <1>1, <1>2, CallOps
<1>5. MemoryOf(pushw(fetched2, fetched2.pc)) = ISA!PushWord(DataSpace, fetched2.pc)
  BY <1>1, <1>2, CallOps
<1> QED
  BY <1>2, <1>3, <1>4, <1>5, SharedBits DEF ISA!ReturnTo

(* A write or a push does not move the pc.                                 *)
LEMMA WritePc ==
  ASSUME NEW c \in Context, NEW b \in Byte
  PROVE  /\ \A a \in Word : writemem(c, a, b).pc = c.pc
         /\ push(c, b).pc = c.pc
<1>1. ASSUME NEW d \in Context, NEW a \in Word PROVE writemem(d, a, b).pc = d.pc
  <2>1. /\ \A n : [d EXCEPT !.regs[n] = b].pc = d.pc
        /\ \A n : [d EXCEPT !.sram[n] = b].pc = d.pc
        /\ \A n : [d EXCEPT !.io[n] = b].pc = d.pc
        /\ [d EXCEPT !.sp = 256 * Hi(@) + b].pc = d.pc
        /\ [d EXCEPT !.sp = Lo(@) + 256 * b].pc = d.pc
        /\ [d EXCEPT !.sreg = BitsOf(b)].pc = d.pc
    BY DEF Context
  <2>2. a \in Int /\ 0 <= a
    BY WordRange
  <2>3. \/ a \in RegIndex \/ a \in 32 .. Spl - 1 \/ a >= SramBase
        \/ a = SregAddr \/ a = Spl \/ a = Sph
    BY <2>2, RegRange, Places
  <2> QED
    BY <2>1, <2>3 DEF writemem, sram_w, io_w
<1>2. push(c, b).pc = c.pc
  <2> DEFINE e == [c EXCEPT !.sp = Wrap16(@ - 1)]
  <2>1. c.sp \in Word /\ Wrap16(c.sp - 1) \in Word
    BY ContextFields, IntegerSets, WrapType, WordRange
  <2>2. e \in Context /\ e.pc = c.pc
    BY <2>1, ContextUpdates DEF Context
  <2>3. push(c, b) = writemem(e, c.sp, b)
    BY DEF push
  <2> HIDE DEF e
  <2> QED
    BY <1>1, <2>1, <2>2, <2>3
<1> QED
  BY <1>1, <1>2

(* Nor does the push of a return address.                                  *)
LEMMA PushPc ==
  ASSUME NEW c \in Context, NEW w \in Word
  PROVE  pushw(c, w).pc = c.pc
<1>1. Lo(w) \in Byte /\ Hi(w) \in Byte
  BY WrapType, IntegerSets
<1>2. push(c, Hi(w)) \in Context
  BY <1>1, StackTypes
<1> QED
  BY <1>1, <1>2, WritePc DEF pushw

(* Calls and jumps.  A call of a host function takes its index from the    *)
(* call's own target only where Z holds the same.                          *)
LEMMA CallImplements ==
  ASSUME IInv,
         \/ Rjmp \/ Ijmp \/ Jmp \/ Rcall \/ Icall \/ Call \/ Ret,
         instr = "call" /\ Target >= AVRVM_MAX_FLASH_WORDS => WordReg(ctx, Z) = Target
  PROVE  ISA!Control(instr, opcode)
<1>1. /\ fetched \in Context /\ fetched2 \in Context /\ ctx \in Context /\ opcode \in Word
      /\ MemoryOf(fetched) = DataSpace /\ MemoryOf(fetched2) = DataSpace
      /\ fetched.pc = Wrap16(ctx.pc + 1) /\ fetched2.pc = Wrap16(ctx.pc + 2)
      /\ fetched.pc \in Word /\ fetched2.pc \in Word
  BY Fetch, SameFetch, ContextFields
<1>2. /\ ISA!pc_offset(instr, opcode) = pc_offset(instr, opcode)
      /\ ISA!HostTable = AVRVM_MAX_FLASH_WORDS /\ Z = 15 /\ Z \in 0 .. 15
  BY SharedDecoder, Places
<1>3. WordReg(ctx, Z) = ISA!PeekWord(DataSpace, 30) /\ WordReg(ctx, Z) \in Word
  <2>1. WordReg(ctx, Z) = ISA!PeekWord(MemoryOf(ctx), 2 * 15) /\ WordReg(ctx, Z) \in Word
    BY <1>1, <1>2, Pairs, WordRegisters
  <2> QED
    BY <2>1 DEF DataSpace
<1>4. instr \in {"call", "jmp"} => Target = ISA!AbsoluteTarget /\ Target \in Word
  <2>1. ISA!AbsoluteTarget = operand /\ operand \in Word
    BY Fetch, SameFetch DEF ISA!AbsoluteTarget
  <2>2. instr \in {"call", "jmp"} => addr_msbyte(instr, opcode) \in Int
    BY Fetch, OtherOperands
  <2>3. ASSUME NEW h \in Int PROVE Wrap16(operand + 65536 * h) = operand
    BY <2>1, WordRange, SMT DEF Wrap16
  <2> QED
    BY <2>1, <2>2, <2>3 DEF Target
<1>5. \A w \in Word : Wrap16(w) = w
  BY WordRange, SMT DEF Wrap16
<1>6. CASE Rjmp
  <2> DEFINE k == pc_offset(instr, opcode)
  <2>1. instr = "rjmp" /\ k \in Int
    BY <1>1, <1>6, OtherOperands DEF Rjmp
  <2>2. Ok(Jump(fetched, fetched.pc + k))
    BY <1>6 DEF Rjmp, Relative
  <2> HIDE DEF k
  <2>3. ISA!Goto(ctx.pc + 1 + k, DataSpace)
    BY <1>1, <2>1, <2>2, Relatives, Jumped
  <2> QED
    BY <1>2, <2>1, <2>3 DEF k, ISA!Control
<1>7. CASE Ijmp
  <2>1. ISA!Goto(WordReg(ctx, Z), DataSpace)
    BY <1>1, <1>7, Jumped DEF Ijmp
  <2> QED
    BY <1>3, <1>7, <2>1 DEF Ijmp, ISA!Control
<1>8. CASE Jmp
  <2>1. ISA!Goto(Target, DataSpace)
    BY <1>1, <1>8, Jumped DEF Jmp
  <2> QED
    BY <1>4, <1>8, <2>1 DEF Jmp, ISA!Control
<1>9. CASE Rcall
  <2> DEFINE k == pc_offset(instr, opcode)
             called == pushw(fetched, fetched.pc)
  <2>1. instr = "rcall" /\ k \in Int
    BY <1>1, <1>9, OtherOperands DEF Rcall
  <2>2. Ok(Jump(called, called.pc + k))
    BY <1>9 DEF Rcall
  <2>3. /\ called \in Context /\ called.pc = fetched.pc
        /\ MemoryOf(called) = ISA!ReturnTo(ctx.pc + 1)
    BY <1>1, Pushed, PushPc
  <2> HIDE DEF k, called
  <2>4. ISA!Goto(ctx.pc + 1 + k, ISA!ReturnTo(ctx.pc + 1))
    BY <2>1, <2>2, <2>3, Relatives, Jumped
  <2> QED
    BY <1>2, <2>1, <2>4 DEF k, ISA!Control
<1>10. CASE Icall
  <2> DEFINE called == pushw(fetched, fetched.pc)
             z == WordReg(ctx, Z)
  <2>1. called \in Context /\ MemoryOf(called) = ISA!ReturnTo(ctx.pc + 1)
    BY Pushed
  <2>2. CASE z < AVRVM_MAX_FLASH_WORDS
    <3>1. Ok(Jump(called, WordReg(called, Z)))
      BY <1>10, <2>2 DEF Icall
    <3>2. WordReg(called, Z) = ISA!PeekWord(ISA!ReturnTo(ctx.pc + 1), 30)
      <4> HIDE DEF called
      <4>1. WordReg(called, Z) = ISA!PeekWord(MemoryOf(called), 2 * 15)
        BY <1>2, <2>1, Pairs
      <4> QED
        BY <2>1, <4>1
    <3> HIDE DEF called
    <3>3. ISA!Goto(WordReg(called, Z), ISA!ReturnTo(ctx.pc + 1))
      BY <2>1, <3>1, Jumped
    <3> QED
      BY <1>2, <1>3, <1>10, <2>2, <3>2, <3>3 DEF Icall, ISA!Control
  <2>3. CASE ~(z < AVRVM_MAX_FLASH_WORDS)
    <3>1. Return(fetched, z - AVRVM_MAX_FLASH_WORDS)
      BY <1>10, <2>3 DEF Icall
    <3>2. ISA!HostCall(z, ctx.pc + 1)
      BY <1>1, <1>2, <3>1, SharedBits DEF Return, ISA!HostCall, DataSpace
    <3> QED
      BY <1>2, <1>3, <1>10, <2>3, <3>2 DEF Icall, ISA!Control
  <2> QED
    BY <2>2, <2>3
<1>11. CASE Call
  <2> DEFINE called == pushw(fetched2, fetched2.pc)
  <2>1. /\ called \in Context /\ MemoryOf(called) = ISA!ReturnTo(ctx.pc + 2)
        /\ instr = "call"
    BY <1>11, Pushed DEF Call
  <2>2. CASE Target < AVRVM_MAX_FLASH_WORDS
    <3>1. Ok(Jump(called, Target))
      BY <1>11, <2>2 DEF Call
    <3> HIDE DEF called
    <3>2. ISA!Goto(Target, ISA!ReturnTo(ctx.pc + 2))
      BY <2>1, <3>1, Jumped
    <3> QED
      BY <1>2, <1>4, <2>1, <2>2, <3>2 DEF ISA!Control
  <2>3. CASE ~(Target < AVRVM_MAX_FLASH_WORDS)
    <3>1. Return(fetched2, WordReg(ctx, Z) - AVRVM_MAX_FLASH_WORDS)
      BY <1>11, <2>3 DEF Call
    <3>2. WordReg(ctx, Z) = Target
      BY <1>2, <1>4, <2>1, <2>3, WordRange, Places
    <3>3. ISA!HostCall(Target, ctx.pc + 2)
      BY <1>1, <1>2, <3>1, <3>2, SharedBits DEF Return, ISA!HostCall, DataSpace
    <3> QED
      BY <1>2, <1>4, <2>1, <2>3, <3>3 DEF ISA!Control
  <2> QED
    BY <2>2, <2>3
<1>12. CASE Ret
  <2> DEFINE c == Popped(Popped(fetched))
  <2>1. c \in Context /\ MemoryOf(c) = ISA!Drop(ISA!Drop(DataSpace))
    BY <1>1, CallTypes, CallOps
  <2>2. popw(fetched) = ISA!TopWord(DataSpace)
    BY <1>1, CallOps
  <2>3. Ok(Jump(c, popw(fetched)))
    BY <1>12 DEF Ret
  <2> HIDE DEF c
  <2>4. ISA!Goto(popw(fetched), ISA!Drop(ISA!Drop(DataSpace)))
    BY <2>1, <2>3, Jumped
  <2> QED
    BY <1>12, <2>2, <2>4 DEF Ret, ISA!Control
<1> QED
  BY <1>6, <1>7, <1>8, <1>9, <1>10, <1>11, <1>12

(* A skip passes over one instruction, of one word or of two.              *)
LEMMA Skips ==
  ASSUME IInv
  PROVE  /\ Ok(skip_instr(fetched))
            => ISA!Goto(ctx.pc + 1 + ISA!Length(ISA!FlashAt(ctx.pc + 1)), DataSpace)
         /\ Ok(fetched) => ISA!Goto(ctx.pc + 1 + 0, DataSpace)
<1>1. /\ fetched \in Context /\ ctx \in Context /\ ctx.pc \in Int
      /\ MemoryOf(fetched) = DataSpace /\ fetched.pc = Wrap16(ctx.pc + 1)
      /\ ISA!FlashAt(ctx.pc + 1) = operand
  BY Fetch, SameFetch
<1> DEFINE n == IF Decoded[operand] \in TwoWords THEN 2 ELSE 1
<1>2. ISA!Length(operand) = n /\ n \in Int
  <2>1. operand \in Words
    <3>1. (fetched.pc % FlashWords) + 1 \in 1 .. FlashWords
      BY <1>1, ContextFields, WordRange, FlashAssumption
    <3>2. flash \in [1 .. FlashWords -> Words]
      BY ProgramsAssumption DEF IInv
    <3> QED
      BY <3>1, <3>2 DEF operand, flash_r
  <2>2. Decoded[operand] = ISA!avr_decode(operand)
    BY <2>1, SharedDecoder DEF Decoded
  <2> QED
    BY <2>2 DEF ISA!Length, TwoWords
<1>3. skip_instr(fetched) = [fetched EXCEPT !.pc = Wrap16(fetched.pc + n)]
  BY DEF skip_instr, operand
<1> HIDE DEF n
<1>4. /\ skip_instr(fetched).pc = Wrap16(ctx.pc + 1 + n)
      /\ MemoryOf(skip_instr(fetched)) = DataSpace
  <2>1. skip_instr(fetched).pc = Wrap16(fetched.pc + n)
    BY <1>1, <1>3 DEF Context
  <2>2. MemoryOf(skip_instr(fetched)) = DataSpace
    BY <1>1, <1>3, FieldMemory
  <2> QED
    BY <1>2, <2>1, <2>2, Relatives
<1>5. Ok(skip_instr(fetched)) => ISA!Goto(ctx.pc + 1 + n, DataSpace)
  BY <1>4, Reached
<1>6. ctx.pc + 1 + 0 = ctx.pc + 1
  BY <1>1
<1>7. Ok(fetched) => ISA!Goto(ctx.pc + 1, DataSpace)
  BY <1>1, Reached
<1> QED
  BY <1>1, <1>2, <1>5, <1>6, <1>7

(* The tests of the skips and branches are those of the instruction set.   *)
LEMMA SameTests ==
  ASSUME IInv
  PROVE  /\ instr = "cpse" => (ISA!Tested(instr, opcode) <=> RD = RR)
         /\ instr \in {"sbrs", "sbrc"}
            => (ISA!Tested(instr, opcode) <=> (Bit(RR, BitNumber) = 1) = (instr = "sbrs"))
         /\ instr \in {"sbis", "sbic"}
            => (ISA!Tested(instr, opcode)
                <=> (Bit(PortValue, BitNumber) = 1) = (instr = "sbis"))
         /\ instr \in {"brbs", "brbc"}
            => (ISA!Tested(instr, opcode) <=> (BitNumber \in ctx.sreg) = (instr = "brbs"))
<1>1. /\ ISA!bit(instr, opcode) = BitNumber
      /\ ISA!port(instr, opcode) = port(instr, opcode)
      /\ ISA!rd(instr, opcode) = Rd /\ ISA!rr(instr, opcode) = Rr
      /\ \A x : ISA!BitsOf(x) = BitsOf(x)
  BY SharedDecoder, SharedBits, SameOperands DEF BitNumber
<1>2. instr \in {"sbrc", "sbrs", "brbc", "brbs", "sbis", "sbic"} => BitNumber \in BitIndex
  BY Fetch, OtherOperands DEF BitNumber, PortBits
<1>3. BitNumber \in BitIndex => \A x : BitNumber \in BitsOf(x) <=> Bit(x, BitNumber) = 1
  BY DEF BitsOf
<1>4. instr = "cpse" => DataSpace[Rd] = RD /\ DataSpace[Rr] = RR
  BY SameOperands DEF HasRd, HasRr, RdPlain, TwoRegisters
<1>5. instr \in {"sbrs", "sbrc"} => DataSpace[Rr] = RR
  BY SameOperands DEF HasRr, RrPlain
<1>6. instr \in {"sbis", "sbic"}
      => ISA!Peek(DataSpace, 32 + port(instr, opcode)) = PortValue
  <2>1. instr \in {"sbis", "sbic"} => 32 + port(instr, opcode) \in Word
    BY Ports DEF PortBits
  <2> QED
    BY <2>1, Fetch, ByAddress DEF PortValue, DataSpace
<1>7. CASE instr = "cpse"
  BY <1>1, <1>4, <1>7 DEF ISA!Tested
<1>8. CASE instr = "sbrs"
  BY <1>1, <1>2, <1>3, <1>5, <1>8 DEF ISA!Tested
<1>9. CASE instr = "sbrc"
  BY <1>1, <1>2, <1>3, <1>5, <1>9 DEF ISA!Tested
<1>10. CASE instr = "sbis"
  BY <1>1, <1>2, <1>3, <1>6, <1>10 DEF ISA!Tested
<1>11. CASE instr = "sbic"
  BY <1>1, <1>2, <1>3, <1>6, <1>11 DEF ISA!Tested
<1>12. CASE instr \in {"brbs", "brbc"}
  <2>1. ISA!Flags(DataSpace) = ctx.sreg
    BY SameOperands
  <2>2. /\ instr = "brbs" => (ISA!Tested(instr, opcode) <=> BitNumber \in ctx.sreg)
        /\ instr = "brbc" => (ISA!Tested(instr, opcode) <=> BitNumber \notin ctx.sreg)
    BY <1>1, <2>1 DEF ISA!Tested
  <2>3. CASE instr = "brbs"
    BY <2>2, <2>3
  <2>4. CASE instr = "brbc"
    BY <2>2, <2>4
  <2> QED
    BY <1>12, <2>3, <2>4
<1> QED
  BY <1>7, <1>8, <1>9, <1>10, <1>11, <1>12

(* Skips and conditional branches.                                         *)
LEMMA SkipImplements ==
  ASSUME IInv, SkipEqual \/ SkipReg \/ SkipPort \/ Branch
  PROVE  ISA!Control(instr, opcode)
<1> DEFINE next == ISA!FlashAt(ctx.pc + 1)
           tested == ISA!Tested(instr, opcode)
<1>1. ASSUME instr \in ISA!Skips, tested, Ok(skip_instr(fetched))
      PROVE  ISA!Control(instr, opcode)
  BY <1>1, Skips DEF ISA!Control
<1>2. ASSUME instr \in ISA!Skips, ~tested, Ok(fetched)
      PROVE  ISA!Control(instr, opcode)
  BY <1>2, Skips DEF ISA!Control
<1>3. CASE SkipEqual
  <2>1. instr = "cpse" /\ instr \in ISA!Skips
    BY <1>3 DEF SkipEqual, ISA!Skips
  <2>2. CASE RD = RR
    BY <1>1, <1>3, <2>1, <2>2, SameTests DEF SkipEqual, SkipIf
  <2>3. CASE RD # RR
    BY <1>2, <1>3, <2>1, <2>3, SameTests DEF SkipEqual, SkipIf
  <2> QED
    BY <2>2, <2>3
<1>4. CASE SkipReg
  <2> DEFINE cond == (Bit(RR, BitNumber) = 1) = (instr = "sbrs")
  <2>1. instr \in {"sbrs", "sbrc"} /\ instr \in ISA!Skips /\ (tested <=> cond)
    BY <1>4, SameTests DEF SkipReg, ISA!Skips
  <2>2. Ok(IF cond THEN skip_instr(fetched) ELSE fetched)
    BY <1>4 DEF SkipReg, SkipIf
  <2> HIDE DEF cond, tested
  <2>3. CASE cond
    BY <1>1, <2>1, <2>2, <2>3
  <2>4. CASE ~cond
    BY <1>2, <2>1, <2>2, <2>4
  <2> QED
    BY <2>3, <2>4
<1>5. CASE SkipPort
  <2> DEFINE cond == (Bit(PortValue, BitNumber) = 1) = (instr = "sbis")
  <2>1. instr \in {"sbis", "sbic"} /\ instr \in ISA!Skips /\ (tested <=> cond)
    BY <1>5, SameTests DEF SkipPort, ISA!Skips
  <2>2. Ok(IF cond THEN skip_instr(fetched) ELSE fetched)
    BY <1>5 DEF SkipPort, SkipIf
  <2> HIDE DEF cond, tested
  <2>3. CASE cond
    BY <1>1, <2>1, <2>2, <2>3
  <2>4. CASE ~cond
    BY <1>2, <2>1, <2>2, <2>4
  <2> QED
    BY <2>3, <2>4
<1>6. CASE Branch
  <2> DEFINE cond == (BitNumber \in ctx.sreg) = (instr = "brbs")
             k == pc_offset(instr, opcode)
  <2>1. instr \in {"brbs", "brbc"} /\ instr \in ISA!Branches /\ (tested <=> cond)
    BY <1>6, SameTests DEF Branch, ISA!Branches
  <2>2. Ok(IF cond THEN Jump(fetched, fetched.pc + k) ELSE fetched)
    BY <1>6 DEF Branch, Relative
  <2>3. k \in Int /\ ISA!pc_offset(instr, opcode) = k
    BY <2>1, Fetch, OtherOperands, SharedDecoder
  <2>4. fetched \in Context /\ MemoryOf(fetched) = DataSpace
    BY Fetch, SameFetch
  <2> HIDE DEF cond, k
  <2>5. CASE cond
    <3>1. Ok(Jump(fetched, fetched.pc + k))
      BY <2>2, <2>5
    <3>2. ISA!Goto(ctx.pc + 1 + k, DataSpace)
      BY <2>3, <2>4, <3>1, Relatives, Jumped
    <3> QED
      BY <2>1, <2>3, <2>5, <3>2 DEF ISA!Control
  <2>6. CASE ~cond
    <3>1. ISA!Goto(ctx.pc + 1 + 0, DataSpace)
      BY <2>2, <2>6, Skips
    <3> QED
      BY <2>1, <2>6, <3>1 DEF ISA!Control
  <2> QED
    BY <2>5, <2>6
<1> QED
  BY <1>3, <1>4, <1>5, <1>6

-----------------------------------------------------------------------------
(* Data transfer.                                                          *)

(* A byte put in a register by an instruction of one word.                 *)
LEMMA PutInRegister ==
  ASSUME IInv, NEW c \in Context, c.pc = fetched.pc, NEW n \in RegIndex, NEW b,
         Ok([c EXCEPT !.regs[n] = b])
  PROVE  ISA!Continue([MemoryOf(c) EXCEPT ![n] = b])
<1> DEFINE d == [c EXCEPT !.regs[n] = b]
<1>1. MemoryOf(d) = [MemoryOf(c) EXCEPT ![n] = b]
  BY Registers
<1>2. d.pc = fetched.pc /\ Ok(d)
  BY DEF Context
<1> HIDE DEF d
<1> QED
  BY <1>1, <1>2, Continued

(* A word put in a pair of registers by an instruction of one word.        *)
LEMMA PutInPair ==
  ASSUME IInv, NEW c \in Context, c.pc = fetched.pc, NEW n \in 0 .. 15, NEW w \in Int,
         Ok(SetWord(c, n, w))
  PROVE  ISA!Continue(ISA!PokeWord(MemoryOf(c), 2 * n, w))
<1>1. MemoryOf(SetWord(c, n, w)) = ISA!PokeWord(MemoryOf(c), 2 * n, w)
  BY Pairs
<1>2. SetWord(c, n, w).pc = fetched.pc
  BY DEF SetWord, Context
<1> QED
  BY <1>1, <1>2, Continued

(* The pointer, the address it yields and its side effect.                 *)
LEMMA SamePointers ==
  ASSUME IInv, instr \in Loads \cup Stores
  PROVE  LET q    == ISA!Pointer(instr)
             base == ISA!Wrap16(ISA!PeekWord(DataSpace, q) + ISA!Before(instr))
         IN  /\ Address = IF instr \in ISA!Displaced
                          THEN ISA!Wrap16(base + ISA!ptr_displacement(instr, opcode))
                          ELSE base
             /\ MemoryOf(Moved) = ISA!PokeWord(DataSpace, q, ISA!Wrap16(base + ISA!After(instr)))
             /\ Moved.pc = fetched.pc
<1> DEFINE q == ISA!Pointer(instr)
           v == WordReg(ctx, Ptr)
<1>1. ctx \in Context /\ fetched \in Context /\ MemoryOf(fetched) = DataSpace
  BY Fetch, SameFetch
<1>2. Ptr \in 0 .. 15 /\ q = 2 * Ptr
  <2>1. /\ (ISA!Through(instr, "X")
            <=> instr \in {"ld_x", "ld_x_inc", "ld_x_dec", "st_x", "st_x_inc", "st_x_dec"})
        /\ (ISA!Through(instr, "Y")
            <=> instr \in {"ldd_y", "ld_y_inc", "ld_y_dec", "std_y", "st_y_inc", "st_y_dec"})
        /\ (ISA!Through(instr, "Z")
            <=> instr \in {"ldd_z", "ld_z_inc", "ld_z_dec", "std_z", "st_z_inc", "st_z_dec"})
    BY DEF ISA!Through
  <2>2. CASE ISA!Through(instr, "X")
    <3>1. ~ISA!Through(instr, "Y") /\ ~ISA!Through(instr, "Z")
      BY <2>1, <2>2
    <3>2. Ptr = X
      BY <2>1, <2>2 DEF Ptr
    <3>3. q = 26
      BY <2>2, <3>1 DEF ISA!Pointer
    <3> QED
      BY <3>2, <3>3, Places
  <2>3. CASE ISA!Through(instr, "Y")
    <3>1. ~ISA!Through(instr, "X") /\ ~ISA!Through(instr, "Z")
      BY <2>1, <2>3
    <3>2. Ptr = Y
      BY <2>1, <2>3 DEF Ptr
    <3>3. q = 28
      BY <2>3, <3>1 DEF ISA!Pointer
    <3> QED
      BY <3>2, <3>3, Places
  <2>4. CASE ISA!Through(instr, "Z")
    <3>1. ~ISA!Through(instr, "X") /\ ~ISA!Through(instr, "Y")
      BY <2>1, <2>4
    <3>2. Ptr = Z
      BY <2>1, <2>4 DEF Ptr
    <3>3. q = 30
      BY <2>4, <3>1 DEF ISA!Pointer
    <3> QED
      BY <3>2, <3>3, Places
  <2> QED
    BY <2>1, <2>2, <2>3, <2>4 DEF Loads, Stores
<1> HIDE DEF q
<1>3. v \in Word /\ v = ISA!PeekWord(DataSpace, q) /\ ISA!PokeWord(DataSpace, q, v) = DataSpace
  BY <1>1, <1>2, WordRegisters, Pairs DEF DataSpace
<1>4. \A w \in Int : /\ MemoryOf(SetWord(fetched, Ptr, w)) = ISA!PokeWord(DataSpace, q, w)
                     /\ SetWord(fetched, Ptr, w).pc = fetched.pc
  <2>1. \A w \in Int : SetWord(fetched, Ptr, w).pc = fetched.pc
    BY <1>1 DEF SetWord, Context
  <2>2. \A w \in Int : MemoryOf(SetWord(fetched, Ptr, w)) = ISA!PokeWord(MemoryOf(fetched), 2 * Ptr, w)
    BY <1>1, <1>2, Pairs
  <2> QED
    BY <1>1, <1>2, <2>1, <2>2
<1>5. /\ ISA!ptr_displacement(instr, opcode) = ptr_displacement(instr, opcode)
      /\ ISA!Displaced = Displaced /\ \A x : ISA!Wrap16(x) = Wrap16(x)
  BY SharedDecoder, SharedBits DEF ISA!Displaced, Displaced
<1>6. Address = Wrap16(v + IF instr \in PreDecrement THEN -1 ELSE Displacement)
  BY DEF Address
<1> HIDE DEF v
<1>7. Wrap16(v) = v /\ Wrap16(v + 0) = v /\ v \in Int
  BY <1>3, WordRange, SMT DEF Wrap16
<1>8. CASE instr \in PlainPointers
  <2>1. ISA!Before(instr) = 0 /\ ISA!After(instr) = 0 /\ instr \notin PreDecrement
    BY <1>8 DEF PlainPointers, PreDecrement, ISA!Before, ISA!After
  <2>2. Moved = fetched
    BY <1>8 DEF Moved, PlainPointers, PostIncrement, PreDecrement
  <2>3. Address = Wrap16(v + Displacement)
    BY <1>6, <2>1
  <2>4. Displacement = IF instr \in Displaced THEN ptr_displacement(instr, opcode) ELSE 0
    BY DEF Displacement
  <2> QED
    BY <1>1, <1>3, <1>5, <1>7, <2>1, <2>2, <2>3, <2>4 DEF q
<1>9. CASE instr \in PostIncrement
  <2>1. /\ ISA!Before(instr) = 0 /\ ISA!After(instr) = 1
        /\ instr \notin PreDecrement /\ instr \notin Displaced
    BY <1>9 DEF PostIncrement, PreDecrement, Displaced, ISA!Before, ISA!After
  <2>2. Address = v
    BY <1>6, <1>7, <2>1 DEF Displacement
  <2>3. Moved = SetWord(fetched, Ptr, Wrap16(v + 1))
    BY <1>9, <2>2 DEF Moved, PlainPointers, PostIncrement, PreDecrement
  <2>4. Wrap16(v + 1) \in Int
    BY <1>7 DEF Wrap16
  <2> QED
    BY <1>3, <1>4, <1>5, <1>7, <2>1, <2>2, <2>3, <2>4 DEF q
<1>10. CASE instr \in PreDecrement
  <2>1. /\ ISA!Before(instr) = -1 /\ ISA!After(instr) = 0 /\ instr \notin Displaced
    BY <1>10 DEF PreDecrement, Displaced, ISA!Before, ISA!After
  <2>2. Address = Wrap16(v + (-1))
    BY <1>6, <1>10
  <2>3. Moved = SetWord(fetched, Ptr, Address)
    BY <1>10 DEF Moved, PlainPointers, PostIncrement, PreDecrement
  <2>4. Address \in Int /\ Wrap16(Address + 0) = Address
    BY <1>7, <2>2 DEF Wrap16
  <2> QED
    BY <1>3, <1>4, <1>5, <2>1, <2>2, <2>3, <2>4 DEF q
<1> QED
  BY <1>8, <1>9, <1>10 DEF Loads, Stores, PlainPointers, PostIncrement, PreDecrement

(* Indirect loads and stores.                                              *)
LEMMA TransferImplements ==
  ASSUME IInv, Load \/ Store
  PROVE  ISA!Moves(instr, opcode)
<1> DEFINE q    == ISA!Pointer(instr)
           base == ISA!Wrap16(ISA!PeekWord(DataSpace, q) + ISA!Before(instr))
           at   == IF instr \in ISA!Displaced
                   THEN ISA!Wrap16(base + ISA!ptr_displacement(instr, opcode)) ELSE base
           m    == ISA!PokeWord(DataSpace, q, ISA!Wrap16(base + ISA!After(instr)))
<1>1. instr \in Loads \cup Stores
  BY DEF Load, Store
<1>2. Address = at /\ MemoryOf(Moved) = m /\ Moved.pc = fetched.pc
  BY <1>1, SamePointers
<1>3. Address \in Word /\ Moved \in Context
  BY <1>1, Pointers
<1>4. instr \in ISA!Indirect
  BY <1>1 DEF Loads, Stores, ISA!Indirect, ISA!DirectLoads, ISA!DirectStores, ISA!Displaced
<1>5. ISA!rd(instr, opcode) = Rd /\ ISA!rr(instr, opcode) = Rr
  BY SameOperands
<1>6. CASE Load
  <2>1. instr \in ISA!DirectLoads \cup {"ldd_y", "ldd_z"} /\ instr \in HasRd
    BY <1>6 DEF Load, Loads, ISA!DirectLoads, DirectLoads, HasRd, RdPlain
  <2>2. Rd \in RegIndex /\ readmem(Moved, Address) = ISA!Peek(m, at)
    BY <1>2, <1>3, <2>1, Operands, ByAddress
  <2>3. Ok([Moved EXCEPT !.regs[Rd] = ISA!Peek(m, at)])
    BY <1>6, <2>2 DEF Load
  <2> HIDE DEF m, at, base, q
  <2>4. ISA!Continue([m EXCEPT ![Rd] = ISA!Peek(m, at)])
    BY <1>2, <1>3, <2>2, <2>3, PutInRegister
  <2>5. ISA!Transfer(instr, opcode)
    BY <1>5, <2>1, <2>4 DEF ISA!Transfer, m, at, base, q
  <2> QED
    BY <1>4, <2>5 DEF ISA!Moves
<1>7. CASE Store
  <2>1. instr \in ISA!DirectStores \cup {"std_y", "std_z"} /\ instr \in HasRr
    BY <1>7 DEF Store, Stores, ISA!DirectStores, DirectStores, HasRr, RrPlain
  <2>2. Rr \in RegIndex /\ RR \in Byte /\ DataSpace[Rr] = RR
    BY <2>1, Operands, SameOperands
  <2>3. Moved.regs[Rr] = m[Rr] /\ Moved.regs[Rr] \in Byte
    BY <1>2, <1>3, <2>2, Registers
  <2>4. PICK b \in {RR, Moved.regs[Rr]} : Ok(writemem(Moved, Address, b))
    BY <1>7 DEF Store
  <2>5. b \in Byte /\ b \in {DataSpace[Rr], m[Rr]}
    BY <2>2, <2>3
  <2> HIDE DEF m, at, base, q
  <2>6. /\ MemoryOf(writemem(Moved, Address, b)) = ISA!Poke(m, at, b)
        /\ writemem(Moved, Address, b).pc = fetched.pc
    BY <1>2, <1>3, <2>5, ByAddress, WritePc
  <2>7. ISA!Continue(ISA!Poke(m, at, b))
    BY <2>4, <2>6, Continued
  <2>8. ISA!Transfer(instr, opcode)
    BY <1>5, <2>1, <2>5, <2>7 DEF ISA!Transfer, m, at, base, q
  <2> QED
    BY <1>4, <2>8 DEF ISA!Moves
<1> QED
  BY <1>6, <1>7

(* The byte lpm loads.                                                     *)
LEMMA SameFlashByte == ASSUME IInv PROVE FlashByte = ISA!FromFlash
<1> DEFINE z == WordReg(ctx, Z)
<1>1. z \in Word /\ z = ISA!PeekWord(DataSpace, 30)
  <2>1. Z = 15 /\ Z \in 0 .. 15
    BY Places
  <2>2. z \in Word /\ z = ISA!PeekWord(MemoryOf(ctx), 2 * 15)
    BY <2>1, Fetch, WordRegisters, Pairs
  <2> QED
    BY <2>2 DEF DataSpace
<1>2. FlashByte = IF z % 2 = 1 THEN Hi(flash_r(z \div 2)) ELSE Lo(flash_r(z \div 2))
  BY DEF FlashByte
<1> HIDE DEF z
<1>3. Wrap16(z \div 2) = z \div 2 /\ (z % 2 = 0 \/ z % 2 = 1)
  BY <1>1, WordRange, SMT DEF Wrap16
<1>4. ISA!FlashAt(z \div 2) = flash_r(z \div 2)
  BY <1>3, SharedBits DEF ISA!FlashAt, flash_r
<1>5. ISA!FromFlash = IF z % 2 = 0 THEN Lo(flash_r(z \div 2)) ELSE Hi(flash_r(z \div 2))
  BY <1>1, <1>4, SharedBits DEF ISA!FromFlash
<1> QED
  BY <1>2, <1>3, <1>5

(* Moves between registers, and from the flash.                            *)
LEMMA RegisterMovesImplement ==
  ASSUME IInv, Swap \/ Mov \/ Movw \/ Ldi \/ Lpm
  PROVE  ISA!Moves(instr, opcode)
<1>1. /\ fetched \in Context /\ ctx \in Context /\ opcode \in Word
      /\ MemoryOf(fetched) = DataSpace /\ Z = 15 /\ Z \in 0 .. 15
  BY Fetch, SameFetch, Places
<1>2. /\ ISA!rd(instr, opcode) = Rd /\ ISA!rr(instr, opcode) = Rr
      /\ ISA!imm(instr, opcode) = imm(instr, opcode)
  BY SameOperands, SharedDecoder
<1>3. Rd \in RegIndex
      => \A b : Ok([fetched EXCEPT !.regs[Rd] = b])
               => ISA!Continue([DataSpace EXCEPT ![Rd] = b])
  BY <1>1, PutInRegister
<1>4. CASE Swap
  <2>1. instr = "swap" /\ Ok([fetched EXCEPT !.regs[Rd] = AluSwap(RD)])
    BY <1>4 DEF Swap
  <2>2. Rd \in RegIndex /\ RD \in Byte /\ DataSpace[Rd] = RD
    BY <2>1, Operands, SameOperands DEF HasRd, RdPlain
  <2>3. AluSwap(RD) = 16 * (RD % 16) + RD \div 16
    BY <2>2, SwapMeaning
  <2> QED
    BY <1>2, <1>3, <2>1, <2>2, <2>3 DEF ISA!Moves
<1>5. CASE Mov
  <2>1. instr = "mov" /\ Ok([fetched EXCEPT !.regs[Rd] = RR])
    BY <1>5 DEF Mov
  <2>2. Rd \in RegIndex /\ DataSpace[Rr] = RR
    BY <2>1, Operands, SameOperands DEF HasRd, HasRr, RdPlain, TwoRegisters
  <2> QED
    BY <1>2, <1>3, <2>1, <2>2 DEF ISA!Moves
<1>6. CASE Movw
  <2>1. instr = "movw" /\ Ok(SetWord(fetched, Rd, WordReg(ctx, Rr)))
    BY <1>6 DEF Movw
  <2>2. Rd \in 0 .. 15 /\ Rr \in 0 .. 15
    BY <1>1, <2>1, RegisterOperands DEF Rd, Rr
  <2>3. /\ WordReg(ctx, Rr) = ISA!PeekWord(DataSpace, 2 * Rr)
        /\ WordReg(ctx, Rr) \in Int
    BY <1>1, <2>2, Pairs, WordRegisters, IntegerSets DEF DataSpace
  <2>4. ISA!Continue(ISA!PokeWord(DataSpace, 2 * Rd, WordReg(ctx, Rr)))
    BY <1>1, <2>1, <2>2, <2>3, PutInPair
  <2> QED
    BY <1>2, <2>1, <2>3, <2>4 DEF ISA!Moves
<1>7. CASE Ldi
  <2>1. instr = "ldi" /\ Ok([fetched EXCEPT !.regs[Rd] = imm(instr, opcode)])
    BY <1>7 DEF Ldi
  <2>2. Rd \in RegIndex
    BY <2>1, Operands DEF HasRd, UpperImm
  <2> QED
    BY <1>2, <1>3, <2>1, <2>2 DEF ISA!Moves
<1>8. CASE Lpm
  <2>1. FlashByte = ISA!FromFlash /\ FlashByte \in Byte
    BY SameFlashByte, FlashByteType
  <2>2. instr \in {"lpm", "lpm_inc"} => Rd \in RegIndex
    BY Operands DEF HasRd, RdPlain
  <2>3. CASE instr = "lpm" /\ Ok([fetched EXCEPT !.regs[Rd] = FlashByte])
    BY <1>2, <1>3, <2>1, <2>2, <2>3 DEF ISA!Moves
  <2>4. CASE instr = "lpm_r0" /\ Ok([fetched EXCEPT !.regs[0] = FlashByte])
    <3>1. 0 \in RegIndex
      BY RegRange
    <3>2. ISA!Continue([DataSpace EXCEPT ![0] = FlashByte])
      BY <1>1, <2>4, <3>1, PutInRegister
    <3> QED
      BY <2>1, <2>4, <3>2 DEF ISA!Moves
  <2>5. ASSUME instr = "lpm_inc",
               LET loaded == [fetched EXCEPT !.regs[Rd] = FlashByte]
               IN  Ok(SetWord(loaded, Z, Wrap16(WordReg(loaded, Z) + 1)))
        PROVE  ISA!Moves(instr, opcode)
    <3> DEFINE loaded == [fetched EXCEPT !.regs[Rd] = FlashByte]
               m == [DataSpace EXCEPT ![Rd] = FlashByte]
    <3>1. loaded \in Context /\ MemoryOf(loaded) = m /\ loaded.pc = fetched.pc
      <4>1. fetched \in Context /\ MemoryOf(fetched) = DataSpace
        BY <1>1
      <4>2. Rd \in RegIndex /\ FlashByte \in Byte
        BY <2>1, <2>2, <2>5
      <4>3. loaded \in Context
        BY <4>1, <4>2, ContextUpdates
      <4>4. MemoryOf(loaded) = m
        BY <4>1, <4>2, Registers
      <4>5. loaded.pc = fetched.pc
        BY <4>1 DEF Context
      <4> QED
        BY <4>3, <4>4, <4>5
    <3>2. Ok(SetWord(loaded, Z, Wrap16(WordReg(loaded, Z) + 1)))
      BY <2>5
    <3> HIDE DEF loaded, m
    <3>3. WordReg(loaded, Z) \in Int /\ WordReg(loaded, Z) = ISA!PeekWord(m, 2 * 15)
      BY <1>1, <3>1, WordRegisters, Pairs, IntegerSets
    <3>4. Wrap16(WordReg(loaded, Z) + 1) \in Int
      BY <3>3 DEF Wrap16
    <3>5. ISA!Continue(ISA!PokeWord(m, 2 * 15, Wrap16(WordReg(loaded, Z) + 1)))
      BY <1>1, <3>1, <3>2, <3>4, PutInPair
    <3>6. ISA!Continue(ISA!PokeWord(m, 30, ISA!Wrap16(ISA!PeekWord(m, 30) + 1)))
      BY <3>3, <3>5, SharedBits
    <3> QED
      BY <1>2, <2>1, <2>5, <3>6 DEF m, ISA!Moves
  <2> QED
    BY <1>8, <2>3, <2>4, <2>5 DEF Lpm
<1> QED
  BY <1>4, <1>5, <1>6, <1>7, <1>8

(* Direct accesses, ports and the stack.                                   *)
LEMMA MemoryMovesImplement ==
  ASSUME IInv, Lds \/ Sts \/ In \/ Out \/ Push \/ Pop
  PROVE  ISA!Moves(instr, opcode)
<1>1. /\ fetched \in Context /\ fetched2 \in Context /\ ctx \in Context
      /\ operand \in Word /\ MemoryOf(ctx) = DataSpace
      /\ MemoryOf(fetched) = DataSpace /\ MemoryOf(fetched2) = DataSpace
      /\ ISA!FlashAt(ctx.pc + 1) = operand
  BY Fetch, SameFetch DEF DataSpace
<1>2. /\ ISA!rd(instr, opcode) = Rd /\ ISA!rr(instr, opcode) = Rr
      /\ ISA!port(instr, opcode) = port(instr, opcode)
  BY SameOperands, SharedDecoder
<1>3. /\ instr \in {"lds", "in", "pop"} => Rd \in RegIndex
      /\ instr \in {"sts", "out", "push"} => RR \in Byte /\ DataSpace[Rr] = RR
  BY Operands, SameOperands
     DEF HasRd, HasRr, RdPlain, RrPlain, DirectLoads, DirectStores
<1>4. instr \in {"in", "out"}
      => /\ 32 + port(instr, opcode) \in Word
         /\ PortValue = ISA!Peek(DataSpace, 32 + port(instr, opcode))
  BY <1>1, Ports, ByAddress DEF PortValue
<1>5. CASE Lds
  <2> DEFINE b == ISA!Peek(DataSpace, operand)
             c == [fetched2 EXCEPT !.regs[Rd] = b]
  <2>1. instr = "lds" /\ Rd \in RegIndex /\ readmem(fetched2, operand) = b
    BY <1>1, <1>3, <1>5, ByAddress DEF Lds
  <2>2. Ok(c) /\ c.pc = fetched2.pc
    BY <1>1, <1>5, <2>1 DEF Lds, Context
  <2> HIDE DEF b
  <2>3. MemoryOf(c) = [DataSpace EXCEPT ![Rd] = b]
    <3>1. fetched2 \in Context /\ Rd \in RegIndex /\ MemoryOf(fetched2) = DataSpace
      BY <1>1, <2>1
    <3>2. MemoryOf(c) = [MemoryOf(fetched2) EXCEPT ![Rd] = b]
      BY <3>1, Registers
    <3> QED
      BY <3>1, <3>2
  <2> HIDE DEF c
  <2>4. ISA!Goto(ctx.pc + 2, [DataSpace EXCEPT ![Rd] = b])
    BY <2>2, <2>3, Skipped2
  <2> QED
    BY <1>1, <1>2, <2>1, <2>4 DEF b, ISA!Moves
<1>6. CASE Sts
  <2>1. instr = "sts" /\ Ok(writemem(fetched2, operand, RR)) /\ RR \in Byte
    BY <1>3, <1>6 DEF Sts
  <2>2. /\ MemoryOf(writemem(fetched2, operand, RR)) = ISA!Poke(DataSpace, operand, RR)
        /\ writemem(fetched2, operand, RR).pc = fetched2.pc
    BY <1>1, <2>1, ByAddress, WritePc
  <2>3. ISA!Goto(ctx.pc + 2, ISA!Poke(DataSpace, operand, RR))
    BY <2>1, <2>2, Skipped2
  <2> QED
    BY <1>1, <1>2, <1>3, <2>1, <2>3 DEF ISA!Moves
<1>7. CASE In
  <2>1. instr = "in" /\ Ok([fetched EXCEPT !.regs[Rd] = PortValue])
    BY <1>7 DEF In
  <2>2. ISA!Continue([DataSpace EXCEPT ![Rd] = PortValue])
    BY <1>1, <1>3, <2>1, PutInRegister
  <2> QED
    BY <1>2, <1>4, <2>1, <2>2 DEF ISA!Moves
<1>8. CASE Out
  <2> DEFINE a == 32 + port(instr, opcode)
  <2>1. instr = "out" /\ Ok(writemem(fetched, a, RR)) /\ RR \in Byte /\ a \in Word
    BY <1>3, <1>4, <1>8 DEF Out
  <2> HIDE DEF a
  <2>2. /\ MemoryOf(writemem(fetched, a, RR)) = ISA!Poke(DataSpace, a, RR)
        /\ writemem(fetched, a, RR).pc = fetched.pc
    BY <1>1, <2>1, ByAddress, WritePc
  <2>3. ISA!Continue(ISA!Poke(DataSpace, a, RR))
    BY <2>1, <2>2, Continued
  <2> QED
    BY <1>2, <1>3, <2>1, <2>3 DEF a, ISA!Moves
<1>9. CASE Push
  <2>1. instr = "push" /\ Ok(push(fetched, RR)) /\ RR \in Byte
    BY <1>3, <1>9 DEF Push
  <2>2. MemoryOf(push(fetched, RR)) = ISA!Push(DataSpace, RR)
    BY <1>1, <2>1, StackOps
  <2>3. push(fetched, RR).pc = fetched.pc
    BY <1>1, <2>1, WritePc
  <2>4. ISA!Continue(ISA!Push(DataSpace, RR))
    BY <2>1, <2>2, <2>3, Continued
  <2> QED
    BY <1>2, <1>3, <2>1, <2>4 DEF ISA!Moves
<1>10. CASE Pop
  <2>1. instr = "pop" /\ Ok([Popped(fetched) EXCEPT !.regs[Rd] = pop(fetched)])
    BY <1>10 DEF Pop
  <2>2. /\ Popped(fetched) \in Context /\ pop(fetched) = ISA!Top(DataSpace)
        /\ MemoryOf(Popped(fetched)) = ISA!Drop(DataSpace)
    BY <1>1, StackTypes, StackOps
  <2>3. Popped(fetched).pc = fetched.pc
    BY <1>1 DEF Popped, Context
  <2>4. ISA!Continue([ISA!Drop(DataSpace) EXCEPT ![Rd] = pop(fetched)])
    BY <1>3, <2>1, <2>2, <2>3, PutInRegister
  <2> QED
    BY <1>2, <2>1, <2>2, <2>4 DEF ISA!Moves
<1> QED
  BY <1>5, <1>6, <1>7, <1>8, <1>9, <1>10

-----------------------------------------------------------------------------
(* Bits, and the instructions that only return a code.                     *)

(* New flags stored by an instruction of one word.                         *)
LEMMA PutInFlags ==
  ASSUME IInv, NEW s, Ok([fetched EXCEPT !.sreg = s])
  PROVE  ISA!Continue(ISA!SetFlags(DataSpace, s))
<1> DEFINE d == [fetched EXCEPT !.sreg = s]
<1>1. fetched \in Context /\ MemoryOf(fetched) = DataSpace
  BY Fetch, SameFetch
<1>2. MemoryOf(d) = ISA!SetFlags(DataSpace, s) /\ d.pc = fetched.pc
  BY <1>1, FlagsCell DEF Context
<1> HIDE DEF d
<1> QED
  BY <1>2, Continued DEF d

(* One flag is one bit of the cell at SREG.                                *)
LEMMA WithFlag ==
  ASSUME IInv, NEW n
  PROVE  /\ \A on : on => ISA!WithBit(DataSpace, ISA!SREG, n, on)
                         = ISA!SetFlags(DataSpace, ctx.sreg \cup {n})
         /\ \A on : ~on => ISA!WithBit(DataSpace, ISA!SREG, n, on)
                          = ISA!SetFlags(DataSpace, ctx.sreg \ {n})
<1>1. ISA!SREG \in ISA!Data
  BY DataIsAddresses, Places, Cells
<1>2. ISA!BitsOf(DataSpace[ISA!SREG]) = ctx.sreg
  BY SameOperands DEF ISA!Flags
<1>3. ISA!BitsOf(ISA!Peek(DataSpace, ISA!SREG)) = ctx.sreg
  BY <1>1, <1>2 DEF ISA!Peek
<1>4. (ctx.sreg \ {n}) \cup {n} = ctx.sreg \cup {n}
  OBVIOUS
<1>5. ASSUME NEW on, on
      PROVE  ISA!WithBit(DataSpace, ISA!SREG, n, on)
             = ISA!SetFlags(DataSpace, ctx.sreg \cup {n})
  BY <1>1, <1>3, <1>4, <1>5 DEF ISA!WithBit, ISA!Poke, ISA!SetFlags
<1>6. ASSUME NEW on, ~on
      PROVE  ISA!WithBit(DataSpace, ISA!SREG, n, on)
             = ISA!SetFlags(DataSpace, ctx.sreg \ {n})
  BY <1>1, <1>3, <1>6 DEF ISA!WithBit, ISA!Poke, ISA!SetFlags
<1> QED
  BY <1>5, <1>6

(* Flags and register bits.                                                *)
LEMMA FlagBitsImplement ==
  ASSUME IInv, Bset \/ Bclr \/ Bst \/ Bld
  PROVE  ISA!Bits(instr, opcode)
<1> DEFINE n == BitNumber
<1>1. /\ fetched \in Context /\ ctx \in Context /\ opcode \in Word
      /\ MemoryOf(fetched) = DataSpace
      /\ fetched.sreg = ctx.sreg /\ fetched.regs = ctx.regs
  BY Fetch, SameFetch DEF fetched, Context
<1>2. /\ ISA!rd(instr, opcode) = Rd /\ ISA!bit(instr, opcode) = n
      /\ ISA!Flags(DataSpace) = ctx.sreg /\ ISA!F_T = F_T
      /\ \A x : ISA!BitsOf(x) = BitsOf(x) /\ ISA!ByteOf(x) = ByteOf(x)
  BY SameOperands, SharedDecoder, SharedFlags, SharedBits DEF BitNumber
<1>3. /\ instr \in {"bst", "bld"} => Rd \in RegIndex /\ RD \in Byte /\ DataSpace[Rd] = RD
      /\ instr \in {"bst", "bld"} => n \in BitIndex
  <2>1. instr \in {"bst", "bld"} => instr \in HasRd
    BY DEF HasRd, RdPlain
  <2>2. instr \in {"bst", "bld"} => BitNumber \in BitIndex
    BY <1>1, OtherOperands DEF BitNumber
  <2> QED
    BY <2>1, <2>2, Operands, SameOperands
<1> HIDE DEF n
<1>4. CASE Bset
  <2>1. instr = "bset" /\ Ok([fetched EXCEPT !.sreg = ctx.sreg \cup {n}])
    BY <1>1, <1>4 DEF Bset, n
  <2>2. ISA!Continue(ISA!SetFlags(DataSpace, ctx.sreg \cup {n}))
    BY <2>1, PutInFlags
  <2>3. ISA!Continue(ISA!WithBit(DataSpace, ISA!SREG, n, TRUE))
    BY <2>2, WithFlag
  <2> QED
    BY <1>2, <2>1, <2>3 DEF ISA!Bits
<1>5. CASE Bclr
  <2>1. instr = "bclr" /\ Ok([fetched EXCEPT !.sreg = ctx.sreg \ {n}])
    BY <1>1, <1>5 DEF Bclr, n
  <2>2. ISA!Continue(ISA!SetFlags(DataSpace, ctx.sreg \ {n}))
    BY <2>1, PutInFlags
  <2>3. ISA!Continue(ISA!WithBit(DataSpace, ISA!SREG, n, FALSE))
    BY <2>2, WithFlag
  <2> QED
    BY <1>2, <2>1, <2>3 DEF ISA!Bits
<1>6. CASE Bst
  <2> DEFINE on == n \in BitsOf(RD)
  <2>1. instr = "bst"
    BY <1>6 DEF Bst
  <2>2. on <=> Bit(RD, n) = 1
    BY <1>3, <2>1 DEF BitsOf
  <2>3. Ok([fetched EXCEPT !.sreg = (ctx.sreg \ {F_T}) \cup FlagIf(F_T, Bit(RD, n) = 1)])
    BY <1>1, <1>6 DEF Bst, n
  <2>4. CASE on
    <3>1. (ctx.sreg \ {F_T}) \cup FlagIf(F_T, Bit(RD, n) = 1) = ctx.sreg \cup {F_T}
      BY <2>2, <2>4 DEF FlagIf
    <3>2. ISA!Continue(ISA!SetFlags(DataSpace, ctx.sreg \cup {F_T}))
      BY <2>3, <3>1, PutInFlags
    <3>3. ISA!WithBit(DataSpace, ISA!SREG, F_T, on)
          = ISA!SetFlags(DataSpace, ctx.sreg \cup {F_T})
      BY <2>4, WithFlag
    <3> QED
      BY <1>2, <1>3, <2>1, <3>2, <3>3 DEF ISA!Bits
  <2>5. CASE ~on
    <3>1. (ctx.sreg \ {F_T}) \cup FlagIf(F_T, Bit(RD, n) = 1) = ctx.sreg \ {F_T}
      BY <2>2, <2>5 DEF FlagIf
    <3>2. ISA!Continue(ISA!SetFlags(DataSpace, ctx.sreg \ {F_T}))
      BY <2>3, <3>1, PutInFlags
    <3>3. ISA!WithBit(DataSpace, ISA!SREG, F_T, on)
          = ISA!SetFlags(DataSpace, ctx.sreg \ {F_T})
      BY <2>5, WithFlag
    <3> QED
      BY <1>2, <1>3, <2>1, <3>2, <3>3 DEF ISA!Bits
  <2> QED
    BY <2>4, <2>5
<1>7. CASE Bld
  <2> DEFINE on == F_T \in ctx.sreg
             b == ByteOf((BitsOf(RD) \ {n}) \cup FlagIf(n, on))
  <2>1. instr = "bld" /\ Ok([fetched EXCEPT !.regs[Rd] = b])
    BY <1>1, <1>7 DEF Bld, n, RD
  <2>2. Rd \in ISA!Data /\ ISA!Peek(DataSpace, Rd) = RD
    BY <1>3, <2>1, DataIsAddresses, Cells DEF ISA!Peek
  <2>3. b = ByteOf(IF on THEN (BitsOf(RD) \ {n}) \cup {n} ELSE BitsOf(RD) \ {n})
    BY DEF FlagIf
  <2>4. ISA!WithBit(DataSpace, Rd, n, on) = [DataSpace EXCEPT ![Rd] = b]
    BY <1>2, <2>2, <2>3 DEF ISA!WithBit, ISA!Poke
  <2> HIDE DEF b
  <2>5. ISA!Continue([DataSpace EXCEPT ![Rd] = b])
    BY <1>1, <1>3, <2>1, PutInRegister
  <2> QED
    BY <1>2, <2>1, <2>4, <2>5 DEF ISA!Bits
<1> QED
  BY <1>4, <1>5, <1>6, <1>7

(* Bits of ports.  cbi is the instruction only where the port is not there *)
(* and what is written to it is lost.                                      *)
LEMMA PortBitsImplement ==
  ASSUME IInv, Sbi \/ (Cbi /\ port(instr, opcode) \notin IoPorts)
  PROVE  ISA!Bits(instr, opcode)
<1> DEFINE n == BitNumber
           a == 32 + port(instr, opcode)
<1>1. /\ fetched \in Context /\ ctx \in Context /\ opcode \in Word
      /\ MemoryOf(fetched) = DataSpace /\ MemoryOf(ctx) = DataSpace
  BY Fetch, SameFetch DEF DataSpace
<1>2. /\ ISA!port(instr, opcode) = port(instr, opcode) /\ ISA!bit(instr, opcode) = n
      /\ \A x : ISA!BitsOf(x) = BitsOf(x) /\ ISA!ByteOf(x) = ByteOf(x)
  BY SharedDecoder, SharedBits DEF BitNumber
<1>3. instr \in {"sbi", "cbi"}
  BY DEF Sbi, Cbi
<1>4. a \in Word /\ PortValue = ISA!Peek(DataSpace, a)
  BY <1>1, <1>3, Ports, ByAddress DEF PortBits, PortValue
<1>5. ASSUME NEW b \in Byte, Ok(writemem(fetched, a, b))
      PROVE  ISA!Continue(ISA!Poke(DataSpace, a, b))
  <2> HIDE DEF a
  <2>1. /\ MemoryOf(writemem(fetched, a, b)) = ISA!Poke(DataSpace, a, b)
        /\ writemem(fetched, a, b).pc = fetched.pc
    BY <1>1, <1>4, ByAddress, WritePc
  <2> QED
    BY <1>5, <2>1, Continued
<1>6. CASE Sbi
  <2> DEFINE b == ByteOf(BitsOf(PortValue) \cup {n})
  <2>1. instr = "sbi" /\ Ok(writemem(fetched, a, b)) /\ b \in Byte
    BY <1>6, ByteOfType DEF Sbi
  <2>2. (BitsOf(PortValue) \ {n}) \cup {n} = BitsOf(PortValue) \cup {n}
    OBVIOUS
  <2> HIDE DEF a, n
  <2>3. ISA!WithBit(DataSpace, a, n, TRUE) = ISA!Poke(DataSpace, a, b)
    BY <1>2, <1>4, <2>2 DEF ISA!WithBit
  <2> HIDE DEF b
  <2>4. ISA!Continue(ISA!Poke(DataSpace, a, b))
    BY <1>5, <2>1
  <2> QED
    BY <1>2, <2>1, <2>3, <2>4 DEF a, ISA!Bits
<1>7. CASE Cbi /\ port(instr, opcode) \notin IoPorts
  <2> DEFINE b == ByteOf(BitsOf(PortValue) \cup (BitIndex \ {BitNumber}))
  <2>1. instr = "cbi" /\ Ok(writemem(fetched, a, b)) /\ b \in Byte
    BY <1>7, ByteOfType DEF Cbi
  <2>2. a \notin ISA!Data
    <3>1. port(instr, opcode) = Field(opcode, 8, 32)
      BY <2>1 DEF port, PortBits
    <3>2. port(instr, opcode) \in Int /\ 32 <= a /\ a < 64
      BY <1>1, <3>1, WordRange, SMT DEF Field
    <3>3. ASSUME a \in Addresses PROVE FALSE
      <4>1. \/ a \in RegIndex \/ \E p \in IoPorts : a = 32 + p
            \/ a = Spl \/ a = Sph \/ a = SregAddr
            \/ \E o \in SramIndex : a = SramBase + o
        BY <3>3, AddressCases
      <4>2. ~ \E p \in IoPorts : a = 32 + p
        BY <1>7, <3>2, PortRange
      <4> QED
        BY <3>2, <4>1, <4>2, RegRange, SramRange, Places
    <3> QED
      BY <3>3, DataIsAddresses
  <2> HIDE DEF a, n, b
  <2>3. ISA!Continue(DataSpace)
    BY <1>5, <2>1, <2>2 DEF ISA!Poke
  <2>4. ISA!WithBit(DataSpace, a, n, FALSE) = DataSpace
    BY <2>2 DEF ISA!WithBit, ISA!Poke
  <2> QED
    BY <1>2, <2>1, <2>3, <2>4 DEF a, ISA!Bits
<1> QED
  BY <1>6, <1>7

(* The rest.                                                               *)
LEMMA OtherImplements ==
  ASSUME IInv, Nop \/ Special
  PROVE  ISA!Other(instr)
<1>1. /\ fetched \in Context /\ MemoryOf(fetched) = DataSpace
      /\ fetched.pc = Wrap16(ctx.pc + 1)
  BY Fetch, SameFetch
<1>2. ASSUME NEW code, Return(fetched, code) PROVE ISA!Signal(code)
  BY <1>1, <1>2, SharedBits DEF Return, ISA!Signal, DataSpace
<1>3. CASE Nop
  <2>1. instr = "nop" /\ ISA!Continue(DataSpace)
    BY <1>1, <1>3, Continued DEF Nop
  <2> QED
    BY <2>1 DEF ISA!Other
<1>4. CASE Special
  BY <1>2, <1>4
     DEF Special, AVRVM_RC_WDR, AVRVM_RC_SLEEP, AVRVM_RC_BREAK, AVRVM_RC_UNDEF_INSTR,
         ISA!Other
<1> QED
  BY <1>3, <1>4

-----------------------------------------------------------------------------
(* Putting it together.                                                    *)

(* The machine avrvm_init sets up is the one the instruction set starts    *)
(* from: registers, status and memory zero, the stack pointer at the end.  *)
LEMMA StartsAlike == Init => ISA!Init
<1> SUFFICES ASSUME Init PROVE ISA!Init
  OBVIOUS
<1> DEFINE top == 95 + SramSize
           m   == [a \in Addresses |-> CASE a = Spl -> Lo(top) [] a = Sph -> Hi(top)
                                          [] OTHER -> 0]
<1>1. /\ ctx.pc = 0 /\ ctx.sp = 32 + 64 + SramSize - 1 /\ ctx.sreg = {}
      /\ ctx.regs = [n \in RegIndex |-> 0]
      /\ ctx.sram = [a \in SramIndex |-> 0]
      /\ ctx.io = [p \in IoPorts |-> 0]
  BY DEF Init, avrvm_init
<1>2. ctx.sp = top
  BY <1>1, SramRange
<1>3. ByteOf(ctx.sreg) = 0
  BY <1>1 DEF ByteOf
<1>4. /\ m[Spl] = Lo(top) /\ m[Sph] = Hi(top) /\ m[SregAddr] = 0
      /\ \A n \in RegIndex : m[n] = 0
      /\ \A p \in IoPorts : m[32 + p] = 0
      /\ \A o \in SramIndex : m[SramBase + o] = 0
  <2> HIDE DEF top
  <2>1. /\ Spl \in Addresses /\ Sph \in Addresses /\ SregAddr \in Addresses
        /\ \A n \in RegIndex : n \in Addresses /\ n # Spl /\ n # Sph
        /\ \A p \in IoPorts : 32 + p \in Addresses /\ 32 + p # Spl /\ 32 + p # Sph
        /\ \A o \in SramIndex : SramBase + o \in Addresses
    BY Cells, Places, RegRange, PortRange
  <2>2. \A o \in SramIndex : SramBase + o # Spl /\ SramBase + o # Sph
    BY Places, SramRange
  <2>3. Spl # Sph /\ SregAddr # Spl /\ SregAddr # Sph
    BY Places
  <2> QED
    BY <2>1, <2>2, <2>3
<1>5. DataSpace = m
  <2>1. Holds(m, ctx)
    <3> HIDE DEF m, top
    <3> QED
      BY <1>1, <1>2, <1>3, <1>4 DEF Holds
  <2>2. m = [a \in Addresses |-> m[a]]
    OBVIOUS
  <2> HIDE DEF m
  <2> QED
    BY <2>1, <2>2, Cellwise DEF DataSpace
<1>6. ISA!Data = Addresses /\ ISA!SPL = Spl /\ ISA!SPL + 1 = Sph
  BY DataIsAddresses, Places
<1>7. rc = -1
  BY DEF Init, AVRVM_RC_OK
<1> QED
  BY <1>1, <1>5, <1>6, <1>7, SharedBits DEF ISA!Init

(* Each call of avrvm_exec that is not a departure is a step of the        *)
(* instruction set.                                                        *)
LEMMA ExecImplements == ASSUME IInv, avrvm_exec, ~Departs PROVE ISA!Next
<1>1. instr = "call" /\ Target >= AVRVM_MAX_FLASH_WORDS => WordReg(ctx, Z) = Target
  BY DEF Departs
<1>2. \/ ISA!Arithmetic(instr, opcode) \/ ISA!Control(instr, opcode)
      \/ ISA!Moves(instr, opcode) \/ ISA!Bits(instr, opcode) \/ ISA!Other(instr)
  <2>1. CASE \/ Add \/ Sub \/ Neg \/ Compare \/ AddWord \/ Logic \/ Com \/ IncDec
             \/ Mul \/ FMul \/ Shift
    BY <2>1, ArithmeticImplements
  <2>2. CASE Rjmp \/ Ijmp \/ Jmp \/ Rcall \/ Icall \/ Call \/ Ret
    BY <1>1, <2>2, CallImplements
  <2>3. CASE SkipEqual \/ SkipReg \/ SkipPort \/ Branch
    BY <2>3, SkipImplements
  <2>4. CASE Swap \/ Mov \/ Movw \/ Ldi \/ Lpm
    BY <2>4, RegisterMovesImplement
  <2>5. CASE Load \/ Store
    BY <2>5, TransferImplements
  <2>6. CASE Lds \/ Sts \/ In \/ Out \/ Push \/ Pop
    BY <2>6, MemoryMovesImplement
  <2>7. CASE Bset \/ Bclr \/ Bst \/ Bld
    BY <2>7, FlagBitsImplement
  <2>8. CASE Sbi \/ Cbi
    <3>1. Cbi => port(instr, opcode) \notin IoPorts
      BY DEF Cbi, Departs
    <3> QED
      BY <2>8, <3>1, PortBitsImplement
  <2>9. CASE Nop \/ Special
    BY <2>9, OtherImplements
  <2> QED
    BY <2>1, <2>2, <2>3, <2>4, <2>5, <2>6, <2>7, <2>8, <2>9 DEF avrvm_exec
<1>3. ISA!FlashAt(ctx.pc) = opcode /\ ISA!avr_decode(opcode) = instr
  BY SameFetch
<1>4. UNCHANGED flash
  BY FlashKept
<1> QED
  BY <1>2, <1>3, <1>4 DEF ISA!Next

(* The host's loop keeps the machine's invariant.                          *)
LEMMA HostKeeps == HostSpec => []IInv
<1>1. HostInit => IInv
  BY InitInv DEF HostInit
<1>2. IInv /\ [HostNext]_hostvars => IInv'
  <2>1. run_bin /\ IInv => IInv'
    BY ExecInv DEF run_bin
  <2>2. UNCHANGED hostvars /\ IInv => IInv'
    BY DEF hostvars, IInv, TypeOK
  <2> QED
    BY <2>1, <2>2 DEF HostNext, Over
<1> QED
  BY <1>1, <1>2, PTL DEF HostSpec

(* For every program, every size of the flash and of the SRAM and every    *)
(* choice of I/O registers: what a script sees is the instruction set from *)
(* avrvm_init on, except at a cbi of a port that has storage and at a call *)
(* of a host function by an address that Z does not hold.                  *)
THEOREM StepsImplementISA == HostSpec => ISA!Init /\ [][Departs \/ ISA!Next]_ISA!isa
<1> DEFINE Step1 == [Departs \/ ISA!Next]_ISA!isa
<1>1. HostInit => ISA!Init
  BY StartsAlike DEF HostInit
<1>2. IInv /\ [HostNext]_hostvars => Step1
  <2> SUFFICES ASSUME IInv, [HostNext]_hostvars, ~Departs PROVE [ISA!Next]_ISA!isa
    OBVIOUS
  <2>1. CASE run_bin
    BY <2>1, ExecImplements DEF run_bin
  <2>2. CASE UNCHANGED hostvars
    BY <2>2 DEF hostvars, ISA!isa, DataSpace, MemoryOf
  <2> QED
    BY <2>1, <2>2 DEF HostNext, Over
<1> QED
  BY <1>1, <1>2, HostKeeps, PTL DEF HostSpec

(* A script whose run meets neither departure sees the AVR instruction set *)
(* from beginning to end.                                                  *)
THEOREM VMImplements == HostSpec /\ [][~Departs]_hostvars => ImplementsISA
<1>1. HostInit => ISA!Init
  BY StartsAlike DEF HostInit
<1>2. IInv /\ [HostNext]_hostvars /\ [~Departs]_hostvars => [ISA!Next]_ISA!isa
  <2> SUFFICES ASSUME IInv, [HostNext]_hostvars, [~Departs]_hostvars
               PROVE  [ISA!Next]_ISA!isa
    OBVIOUS
  <2>1. CASE UNCHANGED hostvars
    BY <2>1 DEF hostvars, ISA!isa, DataSpace, MemoryOf
  <2>2. CASE run_bin /\ ~Departs
    BY <2>2, ExecImplements DEF run_bin
  <2> QED
    BY <2>1, <2>2 DEF HostNext, Over
<1> QED
  BY <1>1, <1>2, HostKeeps, PTL DEF HostSpec, ImplementsISA, ISA!Spec

=============================================================================
