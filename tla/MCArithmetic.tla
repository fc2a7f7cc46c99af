---------------------------- MODULE MCArithmetic ----------------------------
(***************************************************************************)
(* Compiled arithmetic: the chains of WideArith on operands whose bytes    *)
(* lie on the boundaries of the signed and the unsigned ranges, and the    *)
(* loops of CountedLoops with counters that carry or borrow between their  *)
(* two bytes and end within MaxSteps.                                      *)
(***************************************************************************)
EXTENDS WideArith, CountedLoops

Edges == { 0, 1, 127, 128, 254, 255 }

(* The chains and the loops, assembled.                                    *)
Chains == {
  << \h0F02, \h1F13 >>,           \* add r16, r18; adc r17, r19
  << \h1B02, \h0B13 >>,           \* sub r16, r18; sbc r17, r19
  << \h1702, \h0713 >>,           \* cp r16, r18; cpc r17, r19
  << \h5001, \h4810 >>,           \* subi r16, 1; sbci r17, 128
  << \h9510, \h9501, \h4F1F >>,   \* com r17; neg r16; sbci r17, 255
  << \h9516, \h9507 >>,           \* lsr r17; ror r16
  << \h9515, \h9507 >>,           \* asr r17; ror r16
  << \h9F02, \h01C0,              \* mul r16, r18; movw r24, r0
     \h9F03, \h0D90,              \* mul r16, r19; add r25, r0
     \h9F12, \h0D90 >> }          \* mul r17, r18; add r25, r0

SlowLoops == {
  << \h9701, \hF7F1 >>,           \* sbiw r24, 1; brne
  << \h5081, \h4090, \hF7E9 >>,   \* subi r24, 1; sbci r25, 0; brne
  << \h5081, \h4090, \hF7E8 >> }  \* the same with brcc

UpLoop == << \h9601, \hF7F1 >>    \* adiw r24, 1; brne

FastLoops == {
  << \h958A, \hF7F1 >>,                   \* dec r24; brne
  << \h9583, \h1389, \hCFFD >>,           \* inc r24; cpse r24, r25; rjmp
  << \h9596, \h9587, \h9700, \hF7E1 >> }  \* lsr r25; ror r24; sbiw r24, 0; brne

Loops == SlowLoops \cup FastLoops \cup { UpLoop }

LdiWord(r, b) == \hE000 + (b \div 16) * 256 + (r - 16) * 16 + (b % 16)

Padded(p) == p \o [k \in 1 .. FlashWords - Len(p) |-> \h9598]

ChainPrograms ==
  { Padded(<< LdiWord(16, x[1]), LdiWord(17, x[2]), LdiWord(18, x[3]), LdiWord(19, x[4]) >>
           \o chain) :
      x \in Edges \X Edges \X Edges \X Edges, chain \in Chains }

Counters == { << 1, 0 >>, << 3, 0 >>, << 0, 1 >>, << 1, 1 >>, << 255, 255 >>,
              << 128, 127 >>, << 255, 254 >>, << 0, 255 >> }

(* From these counters the loop would take tens of thousands of steps.     *)
TooLong(loop, c) ==
  \/ loop \in SlowLoops /\ c[2] > 1
  \/ loop = UpLoop /\ c[2] < 254

LoopPrograms ==
  UNION { { Padded(<< LdiWord(24, c[1]), LdiWord(25, c[2]) >> \o loop) :
              c \in { d \in Counters : ~TooLong(loop, d) } } : loop \in Loops }

ArithmeticPrograms == ChainPrograms \cup LoopPrograms

ArithmeticWords ==
  { LdiWord(r, b) : r \in 16 .. 19, b \in Edges }
  \cup { LdiWord(r, b) : r \in {24, 25}, b \in Edges \cup {3} }
  \cup { \h9598 }
  \cup UNION { { s[k] : k \in DOMAIN s } : s \in Chains \cup Loops }

NoPorts == {}

=============================================================================
