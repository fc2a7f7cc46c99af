----------------------------- MODULE ListOpcode -----------------------------
(***************************************************************************)
(* What the disassembler prints for the words it is given one after the    *)
(* other, list_opcode.                                                     *)
(*                                                                         *)
(* A line is its address, the mnemonic, for a memory access the form of    *)
(* its pointer, the numbers printed in their order, and whether the note   *)
(* "undefined" follows.  The address and the targets of jumps are byte     *)
(* addresses.  Left out are the bytes of the words, which precede the      *)
(* mnemonic, the layout, and numbers printed a second time in a comment.   *)
(*                                                                         *)
(* Definitions with a capitalised suffix are slips, see AvrALU.            *)
(***************************************************************************)
EXTENDS AvrDecoder

(* Mnemonic and pointer of the instructions whose name in the decoder is   *)
(* not what is printed.                                                    *)
Forms ==
  [ld_x     |-> << "ld", "X" >>,  st_x     |-> << "st", "X" >>,
   ld_x_inc |-> << "ld", "X+" >>, st_x_inc |-> << "st", "X+" >>,
   ld_x_dec |-> << "ld", "-X" >>, st_x_dec |-> << "st", "-X" >>,
   ld_y_inc |-> << "ld", "Y+" >>, st_y_inc |-> << "st", "Y+" >>,
   ld_y_dec |-> << "ld", "-Y" >>, st_y_dec |-> << "st", "-Y" >>,
   ld_z_inc |-> << "ld", "Z+" >>, st_z_inc |-> << "st", "Z+" >>,
   ld_z_dec |-> << "ld", "-Z" >>, st_z_dec |-> << "st", "-Z" >>,
   lpm_r0   |-> << "lpm", "" >>,  lpm_inc  |-> << "lpm", "Z+" >>,
   lpm      |-> << "lpm", "Z" >>, undefined |-> << ".word", "" >>]

(* The same of the displaced ones: ld and st where there is no             *)
(* displacement, ldd and std with it otherwise.                            *)
NearForms == [ldd_y |-> << "ld", "Y" >>, std_y |-> << "st", "Y" >>,
              ldd_z |-> << "ld", "Z" >>, std_z |-> << "st", "Z" >>]
FarForms  == [ldd_y |-> << "ldd", "Y+q" >>, std_y |-> << "std", "Y+q" >>,
              ldd_z |-> << "ldd", "Z+q" >>, std_z |-> << "std", "Z+q" >>]

Form(i, w) ==
  CASE i \in DOMAIN Forms -> Forms[i]
    [] i \in Displaced    -> IF ptr_displacement(i, w) = 0 THEN NearForms[i] ELSE FarForms[i]
    [] OTHER              -> << i, "" >>

Offset(i, w) == 2 * pc_offset(i, w)

OneRegister   == {"asr", "com", "dec", "inc", "lsr", "neg", "pop", "ror", "swap"}
PointerLoads  == {"ld_x", "ld_x_inc", "ld_x_dec", "ld_y_inc", "ld_y_dec",
                  "ld_z_inc", "ld_z_dec", "lpm", "lpm_inc"}
PointerStores == {"st_x", "st_x_inc", "st_x_dec", "st_y_inc", "st_y_dec",
                  "st_z_inc", "st_z_dec"}

(* The displacement, where it is printed.                                  *)
PrintedDisplacement(i, w) ==
  IF ptr_displacement(i, w) = 0 THEN << >> ELSE << ptr_displacement(i, w) >>

PairRegister_Index(n) == n

(* The first register of pair n.                                           *)
PairRegister(n) == n * 2

(* The numbers printed of a one-word instruction at address a.  The        *)
(* register numbers of movw, adiw and sbiw are those of pairs.  bset and   *)
(* bclr fall through the switch and print none.                            *)
Numbers(i, w, a) ==
  CASE i \in {"rjmp", "rcall"}     -> << Offset(i, w), a + Offset(i, w) + 2 >>
    [] i \in {"brbc", "brbs"}      -> << Offset(i, w), a + Offset(i, w) + 2, bit(i, w) >>
    [] i \in {"sbrc", "sbrs"}      -> << rr(i, w), bit(i, w) >>
    [] i \in TwoRegisters \cup Multiplies816 \cup {"muls"}
                                   -> << rd(i, w), rr(i, w) >>
    [] i = "movw"                  -> << PairRegister(rd(i, w)), PairRegister(rr(i, w)) >>
    [] i \in WordImm               -> << PairRegister(rd(i, w)), imm(i, w) >>
    [] i \in UpperImm              -> << rd(i, w), imm(i, w) >>
    [] i = "in"                    -> << rd(i, w), port(i, w) >>
    [] i = "out"                   -> << port(i, w), rr(i, w) >>
    [] i \in {"bld", "bst"}        -> << rd(i, w), bit(i, w) >>
    [] i \in PortBits              -> << port(i, w), bit(i, w) >>
    [] i \in OneRegister \cup PointerLoads -> << rd(i, w) >>
    [] i \in PointerStores \cup {"push"}   -> << rr(i, w) >>
    [] i \in {"ldd_y", "ldd_z"}    -> << rd(i, w) >> \o PrintedDisplacement(i, w)
    [] i \in {"std_y", "std_z"}    -> PrintedDisplacement(i, w) \o << rr(i, w) >>
    [] i = "undefined"             -> << w >>
    [] OTHER                       -> << >>

(* The two registers of a pointer that changes.                            *)
Halves(pointer) == CASE pointer \in {"X+", "-X"} -> {26, 27}
                     [] pointer \in {"Y+", "-Y"} -> {28, 29}
                     [] pointer \in {"Z+", "-Z"} -> {30, 31}
                     [] OTHER                    -> {}

Noted_LoadsOnly(i, w) ==
  Form(i, w)[1] = "ld" /\ Numbers(i, w, 0)[1] \in Halves(Form(i, w)[2])

(* They are noted where they are also what is loaded or stored.            *)
Noted(i, w) == /\ Form(i, w)[1] \in {"ld", "st"}
               /\ Numbers(i, w, 0)[1] \in Halves(Form(i, w)[2])

Line(a, form, numbers, note) ==
  [addr |-> a, mnemonic |-> form[1], pointer |-> form[2],
   numbers |-> numbers, noted |-> note]

OneWordLine(a, i, w) == Line(a, Form(i, w), Numbers(i, w, a), Noted(i, w))

(* call and jmp print their target whole, as a byte address.               *)
JumpTarget(high, low) == 2 * (high * 65536 + low)

TwoWordLine(a, i, w, second) ==
  LET numbers == CASE i = "lds" -> << rd(i, w), second >>
                   [] i = "sts" -> << second, rr(i, w) >>
                   [] i \in {"call", "jmp"}
                                -> << JumpTarget(addr_msbyte(i, w), second) >>
  IN  Line(a, << i, "" >>, numbers, FALSE)

(* The state of the listing: the address of the next word, the static      *)
(* variable prev_opcode, -1 if it holds no word, and the lines printed.    *)
NothingListed == [addr |-> 0, prev_opcode |-> -1, lines |-> << >>]

(* One call of list_opcode, with main's addr += 2.  The first word of a    *)
(* two-word instruction is only remembered.  decoded is the table of the   *)
(* decoder's answers.                                                      *)
list_opcode(d, opcode, decoded) ==
  LET prev    == d.prev_opcode
      printed == IF prev < 0 THEN OneWordLine(d.addr, decoded[opcode], opcode)
                 ELSE TwoWordLine(d.addr - 2, decoded[prev], prev, opcode)
  IN  IF prev < 0 /\ decoded[opcode] \in TwoWords
      THEN [d EXCEPT !.addr = @ + 2, !.prev_opcode = opcode]
      ELSE [addr |-> d.addr + 2, prev_opcode |-> -1, lines |-> Append(d.lines, printed)]

=============================================================================
