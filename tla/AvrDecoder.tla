----------------------------- MODULE AvrDecoder -----------------------------
(***************************************************************************)
(* The opcode decoder: which instruction a 16-bit word is (avr_decode) and *)
(* which operands the instruction's unpacker takes out of it.              *)
(*                                                                         *)
(* SPEC is the generator's table of bit patterns.  A row is << mnemonic,   *)
(* mask of the pattern's fixed bits, their values >>; the rows that the    *)
(* generator drops (MNEMOS and USELESS) are not there.                     *)
(*                                                                         *)
(* An operand operator has no OTHER case: it has a value for exactly the   *)
(* instructions whose unpacker assigns that field of avr_operands_t, so    *)
(* that reading a field the decoder left uninitialised is an error TLC     *)
(* reports and not a default value.                                        *)
(*                                                                         *)
(* Definitions with a capitalised suffix are slips, see AvrALU.            *)
(***************************************************************************)
EXTENDS AvrBits, Sequences

SPEC == <<
  <<"bclr",     \hFF8F, \h9488>>, <<"bset",     \hFF8F, \h9408>>,
  <<"icall",    \hFFFF, \h9509>>, <<"ijmp",     \hFFFF, \h9409>>,
  <<"lpm_r0",   \hFFFF, \h95C8>>, <<"lpm",      \hFE0F, \h9004>>,
  <<"lpm_inc",  \hFE0F, \h9005>>, <<"nop",      \hFFFF, \h0000>>,
  <<"wdr",      \hFFFF, \h95A8>>, <<"ret",      \hFFFF, \h9508>>,
  <<"adc",      \hFC00, \h1C00>>, <<"add",      \hFC00, \h0C00>>,
  <<"and",      \hFC00, \h2000>>, <<"cp",       \hFC00, \h1400>>,
  <<"cpc",      \hFC00, \h0400>>, <<"cpse",     \hFC00, \h1000>>,
  <<"eor",      \hFC00, \h2400>>, <<"mov",      \hFC00, \h2C00>>,
  <<"mul",      \hFC00, \h9C00>>, <<"or",       \hFC00, \h2800>>,
  <<"sbc",      \hFC00, \h0800>>, <<"sub",      \hFC00, \h1800>>,
  <<"andi",     \hF000, \h7000>>, <<"ldi",      \hF000, \hE000>>,
  <<"ori",      \hF000, \h6000>>, <<"cpi",      \hF000, \h3000>>,
  <<"sbci",     \hF000, \h4000>>, <<"subi",     \hF000, \h5000>>,
  <<"sbrc",     \hFE08, \hFC00>>, <<"sbrs",     \hFE08, \hFE00>>,
  <<"bld",      \hFE08, \hF800>>, <<"bst",      \hFE08, \hFA00>>,
  <<"in",       \hF800, \hB000>>, <<"out",      \hF800, \hB800>>,
  <<"adiw",     \hFF00, \h9600>>, <<"sbiw",     \hFF00, \h9700>>,
  <<"cbi",      \hFF00, \h9800>>, <<"sbi",      \hFF00, \h9A00>>,
  <<"sbic",     \hFF00, \h9900>>, <<"sbis",     \hFF00, \h9B00>>,
  <<"brbc",     \hFC00, \hF400>>, <<"brbs",     \hFC00, \hF000>>,
  <<"rcall",    \hF000, \hD000>>, <<"rjmp",     \hF000, \hC000>>,
  <<"call",     \hFE0E, \h940E>>, <<"jmp",      \hFE0E, \h940C>>,
  <<"asr",      \hFE0F, \h9405>>, <<"com",      \hFE0F, \h9400>>,
  <<"dec",      \hFE0F, \h940A>>, <<"inc",      \hFE0F, \h9403>>,
  <<"lsr",      \hFE0F, \h9406>>, <<"neg",      \hFE0F, \h9401>>,
  <<"pop",      \hFE0F, \h900F>>, <<"push",     \hFE0F, \h920F>>,
  <<"ror",      \hFE0F, \h9407>>, <<"swap",     \hFE0F, \h9402>>,
  <<"movw",     \hFF00, \h0100>>, <<"sts",      \hFE0F, \h9200>>,
  <<"lds",      \hFE0F, \h9000>>, <<"ld_x",     \hFE0F, \h900C>>,
  <<"ld_x_inc", \hFE0F, \h900D>>, <<"ld_x_dec", \hFE0F, \h900E>>,
  <<"ld_y_inc", \hFE0F, \h9009>>, <<"ld_y_dec", \hFE0F, \h900A>>,
  <<"ldd_y",    \hD208, \h8008>>, <<"ld_z_inc", \hFE0F, \h9001>>,
  <<"ld_z_dec", \hFE0F, \h9002>>, <<"ldd_z",    \hD208, \h8000>>,
  <<"st_x",     \hFE0F, \h920C>>, <<"st_x_inc", \hFE0F, \h920D>>,
  <<"st_x_dec", \hFE0F, \h920E>>, <<"st_y_inc", \hFE0F, \h9209>>,
  <<"st_y_dec", \hFE0F, \h920A>>, <<"std_y",    \hD208, \h8208>>,
  <<"st_z_inc", \hFE0F, \h9201>>, <<"st_z_dec", \hFE0F, \h9202>>,
  <<"std_z",    \hD208, \h8200>>, <<"muls",     \hFF00, \h0200>>,
  <<"mulsu",    \hFF88, \h0300>>, <<"fmul",     \hFF88, \h0308>>,
  <<"fmuls",    \hFF88, \h0380>>, <<"fmulsu",   \hFF88, \h0388>>,
  <<"sleep",    \hFFFF, \h9588>>, <<"break",    \hFFFF, \h9598>> >>

is_op_match_SkipsLastBit(row, op) ==
  \A i \in 0 .. 14 : Bit(row[2], 15 - i) = 1 => Bit(op, 15 - i) = Bit(row[3], 15 - i)

(* is_op_match: the fixed bits of the pattern agree with the word.  They   *)
(* are compared from the top, where most patterns differ.                  *)
is_op_match(row, op) ==
  \A i \in 0 .. 15 : Bit(row[2], 15 - i) = 1 => Bit(op, 15 - i) = Bit(row[3], 15 - i)

(* The rows a word matches; the table lookup yields the first of them.     *)
Matches(op) == { k \in DOMAIN SPEC : is_op_match(SPEC[k], op) }

avr_decode(op) ==
  LET found == Matches(op)
  IN  IF found = {} THEN "undefined"
      ELSE SPEC[CHOOSE k \in found : \A j \in found : k <= j][1]

-----------------------------------------------------------------------------
(* Instructions that share the layout of their operands.                   *)

TwoRegisters  == {"adc", "add", "and", "cp", "cpc", "cpse", "eor", "mov",
                  "mul", "or", "sbc", "sub"}
UpperImm      == {"andi", "ldi", "ori", "cpi", "sbci", "subi"}
WordImm       == {"adiw", "sbiw"}
Multiplies816 == {"mulsu", "fmul", "fmuls", "fmulsu"}
DirectLoads   == {"lds", "ld_x", "ld_x_inc", "ld_x_dec", "ld_y_inc",
                  "ld_y_dec", "ld_z_inc", "ld_z_dec"}
DirectStores  == {"sts", "st_x", "st_x_inc", "st_x_dec", "st_y_inc",
                  "st_y_dec", "st_z_inc", "st_z_dec"}
Displaced     == {"ldd_y", "ldd_z", "std_y", "std_z"}
PortBits      == {"cbi", "sbi", "sbic", "sbis"}

RdPlain == TwoRegisters \cup DirectLoads \cup
           {"ldd_y", "ldd_z", "lpm", "lpm_inc", "bld", "bst", "in", "asr",
            "com", "dec", "inc", "lsr", "neg", "pop", "ror", "swap"}
RrPlain == DirectStores \cup
           {"std_y", "std_z", "sbrc", "sbrs", "out", "push"}

(* The two-word instructions: the next flash word is an operand.           *)
TwoWords == {"sts", "lds", "call", "jmp"}

(* ops.rd, a register number, or for adiw, sbiw and movw a word register's.*)
rd(i, op) ==
  CASE i \in RdPlain             -> Field(op, 16, 32)
    [] i \in UpperImm \cup {"muls"} -> 16 + Field(op, 16, 16)
    [] i \in Multiplies816       -> 16 + Field(op, 16, 8)
    [] i \in WordImm             -> 12 + Field(op, 16, 4)
    [] i = "movw"                -> Field(op, 16, 16)

(* ops.rr *)
rr(i, op) ==
  CASE i \in TwoRegisters  -> Field(op, 1, 16) + 16 * Field(op, 512, 2)
    [] i \in RrPlain       -> Field(op, 16, 32)
    [] i = "muls"          -> 16 + Field(op, 1, 16)
    [] i \in Multiplies816 -> 16 + Field(op, 1, 8)
    [] i = "movw"          -> Field(op, 1, 16)

(* ops.imm *)
imm(i, op) ==
  CASE i \in UpperImm -> Field(op, 1, 16) + 16 * Field(op, 256, 16)
    [] i \in WordImm  -> Field(op, 1, 16) + 16 * Field(op, 64, 4)

(* ops.bit *)
bit(i, op) ==
  CASE i \in {"bclr", "bset"} -> Field(op, 16, 8)
    [] i \in PortBits \cup {"sbrc", "sbrs", "bld", "bst", "brbc", "brbs"}
                              -> Field(op, 1, 8)

(* ops.port *)
port(i, op) ==
  CASE i \in {"in", "out"} -> Field(op, 1, 16) + 16 * Field(op, 512, 4)
    [] i \in PortBits      -> Field(op, 8, 32)

(* ops.ptr_displacement *)
ptr_displacement(i, op) ==
  CASE i \in Displaced ->
    Field(op, 1, 8) + 8 * Field(op, 1024, 4) + 32 * Field(op, 8192, 2)

(* ops.pc_offset, sign-extended from 7 or 12 bits.                         *)
pc_offset(i, op) ==
  CASE i \in {"brbc", "brbs"}  -> Signed(Field(op, 8, 128), 64)
    [] i \in {"rcall", "rjmp"} -> Signed(Field(op, 1, 4096), 2048)

(* ops.addr_msbyte: the six high bits of a call's or jump's 22-bit target. *)
addr_msbyte(i, op) ==
  CASE i \in {"call", "jmp"} -> Field(op, 1, 2) + 2 * Field(op, 16, 32)

=============================================================================
