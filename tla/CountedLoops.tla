---------------------------- MODULE CountedLoops ----------------------------
(***************************************************************************)
(* The loops a compiler makes to count, in which the only thing between an *)
(* iteration and an endless loop is a flag of the status register: a       *)
(* program loads r25:r24, repeats a body until its branch falls through    *)
(* and stops at a break.                                                   *)
(***************************************************************************)
EXTENDS Compiled

Low   == Loaded(1)
High  == Loaded(2)
Start == Low + 256 * High

SbiwLoop == << << "sbiw", 12, 1 >>, << "brbc", F_Z, -2 >> >>
AdiwLoop == << << "adiw", 12, 1 >>, << "brbc", F_Z, -2 >> >>
DecLoop  == << << "dec", 24 >>, << "brbc", F_Z, -2 >> >>
SubiLoop == << << "subi", 24, 1 >>, << "sbci", 25, 0 >>, << "brbc", F_Z, -3 >> >>
BrccLoop == << << "subi", 24, 1 >>, << "sbci", 25, 0 >>, << "brbc", F_C, -3 >> >>
CpseLoop == << << "inc", 24 >>, << "cpse", 24, 25 >>, << "rjmp", -3 >> >>
RorLoop  == << << "lsr", 25 >>, << "ror", 24 >>, << "sbiw", 12, 0 >>,
               << "brbc", F_Z, -4 >> >>

IsLoop(loop) == /\ LoadsInto(24, 1) /\ LoadsInto(25, 2)
                /\ Follows(2, loop)

Nonzero(n, whole) == IF n = 0 THEN whole ELSE n

(* How many bits n has, at least one.                                      *)
HasBits(n, bits) == n < Pow2[bits + 1] /\ (bits > 1 => n >= Pow2[bits])

(* A counted loop ends: the host's loop reaches the break.                 *)
Terminates == <>Finished

(* It ends after exactly the iterations that its counter says: the steps   *)
(* are two loads, the iterations and the break; cpse skips the last rjmp.  *)
CountsExactly ==
  Finished =>
    /\ IsLoop(SbiwLoop) => steps = 3 + 2 * Nonzero(Start, 65536)
    /\ IsLoop(AdiwLoop) => steps = 3 + 2 * (65536 - Start)
    /\ IsLoop(DecLoop)  => steps = 3 + 2 * Nonzero(Low, 256)
    /\ IsLoop(SubiLoop) => steps = 3 + 3 * Nonzero(Start, 65536)
    /\ IsLoop(BrccLoop) => steps = 3 + 3 * (Start + 1)
    /\ IsLoop(CpseLoop) => steps = 2 + 3 * Nonzero(Wrap8(High - Low), 256)
    /\ IsLoop(RorLoop)  => \E n \in 1 .. 16 : HasBits(Start, n) /\ steps = 3 + 4 * n

=============================================================================
