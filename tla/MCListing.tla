----------------------------- MODULE MCListing -----------------------------
(***************************************************************************)
(* Every word alone in its file, every two-word instruction with second    *)
(* words of all kinds, and short files of a small palette, in which        *)
(* operands look like instructions and instructions wait for operands.     *)
(***************************************************************************)
EXTENDS Listing

OneWord == { << w >> : w \in Word }

Seconds == { \h0000, \h00FF, \h1234, \h8000, \h940E, \hFFFF }

(* lds, sts, and jmp and call with either low bit.                         *)
FirstWords == { 16 * d + base : d \in 0 .. 31,
                base \in { \h9000, \h9200, \h940C, \h940D, \h940E, \h940F } }

TwoWord == { << w, s >> : w \in FirstWords, s \in Seconds }

Palette == { \h9100,            \* lds r16, ...
             \h95FF,            \* call ..., with a target above 64k
             \h9598,            \* break
             \hCFFE, \hF009,    \* rjmp -2, breq +1
             \hFFFF, \h0002 }   \* undefined words

Mixed == UNION { [1 .. n -> Palette] : n \in 2 .. 4 }

ShortFiles == OneWord \cup TwoWord \cup Mixed

=============================================================================
