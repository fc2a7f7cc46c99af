------------------------------ MODULE Unpackers ------------------------------
(***************************************************************************)
(* The operand unpackers as the generator makes them: from the letters of  *)
(* a pattern (gen_operand_unpacker) and the template of the C file.  The   *)
(* unpackers that were generated, and are compiled, are in AvrDecoder.     *)
(*                                                                         *)
(* The letters of an instruction's pattern are a function from the letter  *)
(* to its positions, 0 the last of the word.                               *)
(*                                                                         *)
(* Definitions with a capitalised suffix are slips, see AvrALU.            *)
(***************************************************************************)
EXTENDS AvrDecoder, FiniteSetsExt

DisplacementBits == (0 .. 2) \cup {10, 11, 13}

Letters(i) ==
  CASE i \in TwoRegisters            -> [d |-> 4 .. 8, r |-> (0 .. 3) \cup {9}]
    [] i \in UpperImm                -> [D |-> 4 .. 7, K |-> (0 .. 3) \cup (8 .. 11)]
    [] i \in WordImm                 -> [w |-> 4 .. 5, K |-> (0 .. 3) \cup (6 .. 7)]
    [] i \in {"sbrc", "sbrs"}        -> [r |-> 4 .. 8, s |-> 0 .. 2]
    [] i \in {"bld", "bst"}          -> [d |-> 4 .. 8, s |-> 0 .. 2]
    [] i \in {"bset", "bclr"}        -> [s |-> 4 .. 6]
    [] i = "in"                      -> [d |-> 4 .. 8, P |-> (0 .. 3) \cup (9 .. 10)]
    [] i = "out"                     -> [r |-> 4 .. 8, P |-> (0 .. 3) \cup (9 .. 10)]
    [] i \in PortBits                -> [p |-> 3 .. 7, s |-> 0 .. 2]
    [] i \in {"brbc", "brbs"}        -> [l |-> 3 .. 9, s |-> 0 .. 2]
    [] i \in {"rcall", "rjmp"}       -> [L |-> 0 .. 11]
    [] i \in {"call", "jmp"}         -> [h |-> {0} \cup (4 .. 8)]
    [] i = "movw"                    -> [d |-> 4 .. 7, r |-> 0 .. 3]
    [] i = "muls"                    -> [D |-> 4 .. 7, R |-> 0 .. 3]
    [] i \in Multiplies816           -> [D |-> 4 .. 6, R |-> 0 .. 2]
    [] i \in {"ldd_y", "ldd_z"}      -> [d |-> 4 .. 8, q |-> DisplacementBits]
    [] i \in {"std_y", "std_z"}      -> [r |-> 4 .. 8, q |-> DisplacementBits]
    [] i \in RdPlain \ (TwoRegisters \cup {"bld", "bst", "in", "ldd_y", "ldd_z"})
                                     -> [d |-> 4 .. 8]
    [] i \in DirectStores \cup {"push"} -> [r |-> 4 .. 8]
    [] OTHER                         -> << >>

OPERAND_MAP ==
  [d |-> "rd", D |-> "rd", w |-> "rd", r |-> "rr", R |-> "rr", l |-> "pc_offset",
   s |-> "bit", P |-> "port", K |-> "imm", q |-> "ptr_displacement", p |-> "port",
   L |-> "pc_offset", h |-> "addr_msbyte"]

(* The runs of adjacent positions: the first and how many.                 *)
Runs(ps) == { run \in ps \X (1 .. 16) :
                LET end == run[1] + run[2]
                IN  /\ run[1] .. (end - 1) \subseteq ps
                    /\ run[1] - 1 \notin ps /\ end \notin ps }

Group_EachFromZero(ps, run) ==
  [first |-> run[1], nbits |-> run[2], rshift |-> run[1]]

(* A run's mask, by its first bit and length, and the shift that moves it  *)
(* next to the runs below it.                                              *)
Group(ps, run) ==
  [first |-> run[1], nbits |-> run[2],
   rshift |-> run[1] - Cardinality({ b \in ps : b < run[1] })]

gen_operand_unpacker(ps) == { Group(ps, run) : run \in Runs(ps) }

Instructions == { SPEC[k][1] : k \in DOMAIN SPEC }

(* create_oplist, as far as operands go.                                   *)
unpackers ==
  [i \in Instructions |->
     [op \in DOMAIN Letters(i) |-> gen_operand_unpacker(Letters(i)[op])]]

(* (opcode & mask) >> rshift                                               *)
Masked(g, opcode) ==
  (Field(opcode, Pow2[g.first + 1], Pow2[g.nbits + 1]) * Pow2[g.first + 1]) \div Pow2[g.rshift + 1]

unpack_operand(groups, opcode) ==
  MapThenSumSet(LAMBDA g : Masked(g, opcode), groups)

(* What the template adds for some letters.                                *)
Adjusted(op, value) ==
  CASE op = "l"          -> Signed(value, 64)
    [] op = "L"          -> Signed(value, 2048)
    [] op \in {"R", "D"} -> value + 16
    [] op = "w"          -> value + 12
    [] OTHER             -> value

Generated(i, op, opcode) == Adjusted(op, unpack_operand(unpackers[i][op], opcode))

(* The field that the compiled unpacker assigns.                           *)
Compiled(field, i, opcode) ==
  CASE field = "rd"               -> rd(i, opcode)
    [] field = "rr"               -> rr(i, opcode)
    [] field = "imm"              -> imm(i, opcode)
    [] field = "bit"              -> bit(i, opcode)
    [] field = "port"             -> port(i, opcode)
    [] field = "pc_offset"        -> pc_offset(i, opcode)
    [] field = "ptr_displacement" -> ptr_displacement(i, opcode)
    [] field = "addr_msbyte"      -> addr_msbyte(i, opcode)

=============================================================================
