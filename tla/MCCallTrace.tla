----------------------------- MODULE MCCallTrace -----------------------------
(***************************************************************************)
(* Every program of FlashWords words from a small palette of calls,        *)
(* returns, stack instructions and a store.  A word is also an operand     *)
(* where it follows a call or the store, so that call reaches address 2    *)
(* or, by the high words, the host table, the store hits the outermost     *)
(* frame, and control may enter the middle of an instruction.              *)
(***************************************************************************)
EXTENDS CallTrace

CallWords == { \hD001, \hDFFD,      \* rcall over a word, and back by two
               \h940E, \h0002,      \* call; its operand, alone not an instruction
               \h9509, \h9508,      \* icall with Z = 0, ret
               \h930F, \h910F,      \* push r16, pop r16
               \hE602, \hBF0D,      \* ldi r16, 0x62; out spl, r16
               \h9300, \h0065 }     \* sts 0x65, r16

CallPrograms == [1 .. FlashWords -> CallWords]

NoPorts == {}

=============================================================================
