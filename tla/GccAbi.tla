------------------------------- MODULE GccAbi -------------------------------
(***************************************************************************)
(* The helpers with which a host function reads its arguments out of the   *)
(* context and leaves its result there, avrvm_unpack_args_gcc and          *)
(* avrvm_pack_return_gcc.                                                  *)
(*                                                                         *)
(* A value is the sequence of its bytes, lowest first, as in the memory of *)
(* the host.  Format characters that neither helper knows make it loop for *)
(* ever and are left out.  Definitions with a capitalised suffix are       *)
(* slips, see AvrALU.                                                      *)
(***************************************************************************)
EXTENDS AvrVM, Sequences

Formats == {"c", "b", "B", "h", "H", "P", "i", "I", "l", "L", "f", "q", "Q"}

size(f) == CASE f \in {"c", "b", "B"}           -> 1
             [] f \in {"h", "H", "P"}           -> 2
             [] f \in {"i", "I", "l", "L", "f"} -> 4
             [] f \in {"q", "Q"}                -> 8

ceil_even_NotRounded(n) == n

(* (n + 1) & -2                                                            *)
ceil_even(n) == n + (n % 2)

WordOf(bytes) == bytes[1] + 256 * bytes[2]
Bytes(w)      == << Lo(w), Hi(w) >>

(* A pointer of the script becomes an offset into the host's SRAM.         *)
Patched(f, bytes) == IF f = "P" THEN Bytes(Wrap16(WordOf(bytes) - SramBase))
                                ELSE bytes

FromRegs(c, f, idx)  == [k \in 1 .. size(f) |-> c.regs[idx + k - 1]]

FromStack(c, f, idx) == [k \in 1 .. size(f) |-> readmem(c, Wrap16(c.sp + idx + k))]

(* One pass of the loop over the format: down from r25 in even registers   *)
(* until an argument does not fit, from there on up the stack from the     *)
(* byte above the stack pointer.                                           *)
unpack_arg(c, f, before) ==
  LET reg   == before.idx - ceil_even(size(f))
      depth == IF before.are_using_stack THEN before.idx ELSE 0
  IN  IF ~before.are_using_stack /\ reg >= 8
      THEN [idx |-> reg, are_using_stack |-> FALSE,
            args |-> Append(before.args, Patched(f, FromRegs(c, f, reg)))]
      ELSE [idx |-> depth + size(f), are_using_stack |-> TRUE,
            args |-> Append(before.args, Patched(f, FromStack(c, f, depth)))]

NoneUnpacked == [idx |-> 26, are_using_stack |-> FALSE, args |-> << >>]

(* The loop, as the function of how many arguments it has taken.           *)
avrvm_unpack_args_gcc(c, fmt) ==
  LET loop[n \in 0 .. Len(fmt)] == IF n = 0 THEN NoneUnpacked
                                   ELSE unpack_arg(c, fmt[n], loop[n - 1])
  IN  loop[Len(fmt)].args

ReturnWord_ZeroExtends(f, val) ==
  CASE size(f) = 1       -> val[1]
    [] f \in {"h", "H"} -> WordOf(val)
    [] f = "P"          -> Wrap16(WordOf(val) + SramBase)

(* What is assigned to regsw[12] for the formats of one or two bytes.      *)
(* Plain char is signed with the hosts' compilers.                         *)
ReturnWord(f, val) ==
  CASE f \in {"c", "b"} -> Wrap16(Signed(val[1], 128))
    [] f = "B"          -> val[1]
    [] f \in {"h", "H"} -> WordOf(val)
    [] f = "P"          -> Wrap16(WordOf(val) + SramBase)

SetRegs(c, first, val) ==
  [c EXCEPT !.regs = [n \in RegIndex |-> IF n - first + 1 \in DOMAIN val
                                         THEN val[n - first + 1] ELSE @[n]]]

avrvm_pack_return_gcc(c, f, val) ==
  CASE size(f) <= 2 -> SetWord(c, 12, ReturnWord(f, val))
    [] size(f) = 4  -> SetRegs(c, 22, val)
    [] size(f) = 8  -> SetRegs(c, 18, val)

=============================================================================
