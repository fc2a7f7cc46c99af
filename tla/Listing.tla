------------------------------- MODULE Listing -------------------------------
(***************************************************************************)
(* The disassembler: main reads a binary word by word and gives each to    *)
(* list_opcode.                                                            *)
(*                                                                         *)
(* A listing is good for something if one can tell from it what the        *)
(* machine would execute.  So the property is that an assembler, which is  *)
(* given the lines only, makes the binary of them again.  Encodings is     *)
(* that assembler, written from the instruction set's formats and without  *)
(* the decoder's operand fields.                                           *)
(***************************************************************************)
EXTENDS ListOpcode, Unpackers

CONSTANT Files   \* the binaries considered

ASSUME FilesAssumption == Files \subseteq Seq(Word)

VARIABLES
  file,      \* the binary
  listing    \* what has been printed of it, and the position, see ListOpcode

listvars == << file, listing >>

(* Every word, decoded once.                                               *)
AllDecoded == [w \in Word |-> avr_decode(w)]

ListInit == /\ file \in Files
            /\ listing = NothingListed

Position == listing.addr \div 2

(* One turn of main's loop.                                                *)
ReadWord == /\ Position < Len(file)
            /\ listing' = list_opcode(listing, file[Position + 1], AllDecoded)
            /\ UNCHANGED file

(* fread fails, main returns.  A first word that still waits for its       *)
(* second is never printed.                                                *)
EndOfFile == /\ Position = Len(file)
             /\ UNCHANGED listvars

ListNext == ReadWord \/ EndOfFile

ListSpec == ListInit /\ [][ListNext]_listvars

-----------------------------------------------------------------------------
(* The assembler.                                                          *)

(* The instruction with a given mnemonic and pointer.  A displaced form    *)
(* without displacement is written like a plain one.                       *)
Instruction(m, p) ==
  CASE \E i \in DOMAIN Forms : Forms[i] = << m, p >>
         -> CHOOSE i \in DOMAIN Forms : Forms[i] = << m, p >>
    [] \E i \in Displaced : << m, p >> \in { NearForms[i], FarForms[i] }
         -> CHOOSE i \in Displaced : << m, p >> \in { NearForms[i], FarForms[i] }
    [] OTHER -> m

(* The fixed bits of an instruction, by name.                              *)
Fixed == [i \in { SPEC[k][1] : k \in DOMAIN SPEC } |->
            SPEC[CHOOSE k \in DOMAIN SPEC : SPEC[k][1] = i][3]]

(* Where registers, bits, ports and constants go.                          *)
AtD(r)     == 16 * r                                   \* r0 to r31, as Rd
AtR(r)     == (r % 16) + 512 * (r \div 16)             \* r0 to r31, as Rr
AtUpperD(r, n) == 16 * (r % n)                         \* one of n upper registers
AtK(k, p)  == (k % 16) + p * (k \div 16)               \* a constant in two parts
AtQ(q)     == (q % 8) + 1024 * ((q \div 8) % 4) + 8192 * (q \div 32)
AtP(p)     == AtK(p, 512)
AtOffset(l, n) == ((l.numbers[2] - l.addr - 2) \div 2) % n

(* The operands of a line, put in their places.                            *)
Placed(i, l) ==
  LET n == l.numbers
  IN  CASE i \in {"rjmp", "rcall"}  -> AtOffset(l, 4096)
        [] i \in {"brbc", "brbs"}   -> 8 * AtOffset(l, 128) + n[3]
        [] i \in {"sbrc", "sbrs", "bld", "bst"} -> AtD(n[1]) + n[2]
        [] i \in TwoRegisters       -> AtD(n[1]) + AtR(n[2])
        [] i = "muls"               -> AtUpperD(n[1], 16) + (n[2] % 16)
        [] i \in Multiplies816      -> AtUpperD(n[1], 8) + (n[2] % 8)
        [] i = "movw"               -> 8 * n[1] + n[2] \div 2
        [] i \in WordImm            -> 8 * (n[1] - 24) + AtK(n[2], 64)
        [] i \in UpperImm           -> AtUpperD(n[1], 16) + AtK(n[2], 256)
        [] i = "in"                 -> AtD(n[1]) + AtP(n[2])
        [] i = "out"                -> AtD(n[2]) + AtP(n[1])
        [] i \in PortBits           -> 8 * n[1] + n[2]
        [] i = "lds"           -> AtD(n[1])
        [] i = "sts"           -> AtD(n[2])
        [] i \in {"call", "jmp"}    -> LET high == n[1] \div 131072
                                       IN  16 * (high \div 2) + (high % 2)
        [] i \in {"ldd_y", "ldd_z"} -> AtD(n[1]) + IF Len(n) = 2 THEN AtQ(n[2]) ELSE 0
        [] i \in {"std_y", "std_z"} -> AtD(n[Len(n)]) + IF Len(n) = 2 THEN AtQ(n[1]) ELSE 0
        [] i \in OneRegister \cup PointerLoads \cup PointerStores \cup {"push"}
                                    -> AtD(n[1])
        [] OTHER                    -> 0

(* The words that a line may stand for: of bset and bclr the flag is not   *)
(* printed, of everything else there is one encoding.                      *)
Encodings(l) ==
  LET i == Instruction(l.mnemonic, l.pointer)
  IN  CASE i = "undefined"         -> { << l.numbers[1] >> }
        [] i \in {"bset", "bclr"}  -> { << Fixed[i] + 16 * s >> : s \in 0 .. 7 }
        [] i = "lds"               -> { << Fixed[i] + Placed(i, l), l.numbers[2] >> }
        [] i = "sts"               -> { << Fixed[i] + Placed(i, l), l.numbers[1] >> }
        [] i \in {"call", "jmp"}   -> { << Fixed[i] + Placed(i, l),
                                           (l.numbers[1] \div 2) % 65536 >> }
        [] OTHER                   -> { << Fixed[i] + Placed(i, l) >> }

Relatives == {"rjmp", "rcall", "brbc", "brbs"}

Size(l) == IF l.mnemonic \in TwoWords THEN 2 ELSE 1

(* The words of the file that line l of the listing is about.              *)
Described(l) == [k \in 1 .. Size(l) |-> file[l.addr \div 2 + k]]

(* The lines follow one another without gap or overlap from the start of   *)
(* the file to the last word read, or to the one that waits.               *)
Consecutive ==
  LET lines == listing.lines
      last  == listing.addr - IF listing.prev_opcode < 0 THEN 0 ELSE 2
  IN  \A k \in 1 .. Len(lines) + 1 :
        (IF k > Len(lines) THEN last ELSE lines[k].addr)
          = (IF k = 1 THEN 0 ELSE lines[k - 1].addr + 2 * Size(lines[k - 1]))

(* Assembled, the listing is the binary again: every line names one        *)
(* instruction with all of its operands, the printed target of a jump is   *)
(* where the offset leads, and no bit of the word is dropped.  Of bset and *)
(* bclr the listing leaves the flag open.                                  *)
Reassembles ==
  /\ Consecutive
  /\ \A k \in DOMAIN listing.lines :
       LET l == listing.lines[k]
       IN  /\ Described(l) \in Encodings(l)
           /\ l.mnemonic \in Relatives => l.numbers[1] = l.numbers[2] - l.addr - 2

(* No word that is read matches two patterns of the generator's table, so  *)
(* the order of the table, on which first match depends, decides nothing.  *)
Unambiguous ==
  Position = Len(file) => \A k \in DOMAIN file : Cardinality(Matches(file[k])) <= 1

(* The compiled decoder is checked in beside the generator, and takes the  *)
(* operands out of every word as the generator would make it do now, from  *)
(* the patterns' letters: split fields are joined in order, offsets are    *)
(* sign-extended and short register numbers moved up.  A bit of a pattern  *)
(* that belongs to no operand is compared.                                 *)
UnpackedAsGenerated ==
  Position = Len(file) =>
    \A k \in DOMAIN file : \A j \in Matches(file[k]) :
      LET i == SPEC[j][1]
      IN  /\ \A op \in DOMAIN Letters(i) :
               Generated(i, op, file[k]) = Compiled(OPERAND_MAP[op], i, file[k])
          /\ \A b \in 0 .. 15 :
               Bit(SPEC[j][2], b) = 0 <=> \E op \in DOMAIN Letters(i) : b \in Letters(i)[op]

=============================================================================
