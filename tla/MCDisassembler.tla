--------------------------- MODULE MCDisassembler ---------------------------
(***************************************************************************)
(* Every program of FlashWords - 1 words from a palette of two-word        *)
(* instructions, skips, branches and calls, and a final break; and every   *)
(* store through a pointer that moves, from two values of the pointers.    *)
(***************************************************************************)
EXTENDS Disassembler

ListingWords == { \h9100, \h940E,            \* lds r16, call
                  \h1000, \hFF00,            \* cpse r0, r0 and sbrs r16, 0
                  \hF009, \hCFFE, \hD001,    \* breq +1, rjmp -2, rcall +1
                  \h9508, \h0002,            \* ret; an operand
                  \h9503, \h9598 }           \* inc r16, break

(* st X+, st -X and so on, of every register.                              *)
MovingStores == { form + 16 * r : form \in { \h920D, \h920E, \h9209, \h920A,
                                             \h9201, \h9202 }, r \in 0 .. 31 }

(* X, Y and Z are zero, or 255: ldi r26, ldi r28 and ldi r30.              *)
PointerLow == { << \h0000, \h0000, \h0000 >>, << \hEFAF, \hEFCF, \hEFEF >> }

ListingPrograms ==
  { Append(p, \h9598) : p \in [1 .. FlashWords - 1 -> ListingWords] }
  \cup { low \o << w, \h9598, \h9598 >> : low \in PointerLow, w \in MovingStores }

UsedWords == ListingWords \cup MovingStores \cup { \h0000, \hEFAF, \hEFCF, \hEFEF }

NoPorts == {}

=============================================================================
