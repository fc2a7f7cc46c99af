------------------------------ MODULE Compiled ------------------------------
(***************************************************************************)
(* Programs by what they say: the instructions and operands at given       *)
(* places of the flash, whatever else there is in it.                      *)
(***************************************************************************)
EXTENDS TestVM

(* The instruction that a word is, as one writes it.  adiw, sbiw and movw  *)
(* name register pairs, branches and rjmp the distance they go.            *)
Written(w) ==
  LET i == Decoded[w]
  IN  CASE i \in UpperImm \cup WordImm       -> << i, rd(i, w), imm(i, w) >>
        [] i \in TwoRegisters \cup {"movw"}  -> << i, rd(i, w), rr(i, w) >>
        [] i \in {"brbc", "brbs"}            -> << i, bit(i, w), pc_offset(i, w) >>
        [] i = "rjmp"                        -> << i, pc_offset(i, w) >>
        [] i \in {"asr", "com", "dec", "inc", "lsr", "neg", "ror"}
                                             -> << i, rd(i, w) >>
        [] OTHER                             -> << i >>

(* The instructions that follow the first n words, and a break after them. *)
Follows(n, code) ==
  /\ n + Len(code) < FlashWords
  /\ \A k \in DOMAIN code : Written(flash[n + k]) = code[k]
  /\ Decoded[flash[n + Len(code) + 1]] = "break"

(* Word k is an ldi of register n, of the byte Loaded(k).                  *)
LoadsInto(n, k) == Decoded[flash[k]] = "ldi" /\ rd("ldi", flash[k]) = n

Loaded(k) == imm("ldi", flash[k])

Finished == status = "exited"

=============================================================================
