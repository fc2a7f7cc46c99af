----------------------------- MODULE MCHostCall -----------------------------
(***************************************************************************)
(* All signatures of up to five arguments of one format of each size and   *)
(* pointers, all of up to two of any formats, and as many bytes as it      *)
(* takes to fill nine pairs of registers and go on.                        *)
(***************************************************************************)
EXTENDS HostCall

Lists(S, m, n) == UNION { [1 .. k -> S] : k \in m .. n }

MixedSignatures == Lists({"B", "H", "P", "I", "Q"}, 0, 5)
                     \cup Lists(Formats, 1, 2)
                     \cup Lists({"b"}, 8, 11)

(* Different for all j, and for all k below 16.                            *)
DistinctByte(k, j) == (16 * k + j) % 256

(* Low bytes on either side of the sign, the rest told apart.              *)
SomeValues == { [j \in 1 .. 8 |-> IF j = 1 THEN b ELSE 128 + j] : b \in {5, 127, 128, 255} }

NoCode      == {0}
NoPrograms  == [1 .. FlashWords -> NoCode]
NoPorts     == {}

=============================================================================
