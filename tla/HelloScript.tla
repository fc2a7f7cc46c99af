----------------------------- MODULE HelloScript -----------------------------
(***************************************************************************)
(* script_hello.c compiled by hand for a machine with 32 bytes of SRAM, as *)
(* avr-gcc would: a startup that sets the stack pointer and copies the     *)
(* constants from the flash to the SRAM, and the three functions.  Of the  *)
(* interrupt vectors there are none, and the strings are shorter.          *)
(*                                                                         *)
(* A division by a constant is a multiplication and a shift: the tens of n *)
(* are n * 205 / 2048, the hundreds n * 41 / 4096.                         *)
(***************************************************************************)
EXTENDS Sequences

(* "su", "b", "" and "lad", as character codes.                            *)
strings == << << 115, 117 >>, << 98 >>, << >>, << 108, 97, 100 >> >>

Startup == <<
  \h2411, \hBE1F,                           \* clr r1; out sreg, r1
  \hE7CF, \hE0D0, \hBFDE, \hBFCD,           \* sp := 127, the last SRAM address
  \hE010, \hE6A0, \hE0B0, \hEDE2, \hE0F0,   \* X := 96; Z := 210, the image
  \hC002, \h9005, \h920D,                   \* do { lpm r0, Z+; st X+, r0 }
  \h37A6, \h07B1, \hF7D9,                   \* until X = 118
  \hD033, \h94F8, \hCFFF >>                 \* rcall main; cli; rjmp to itself

put_s == <<
  \h93CF, \h93DF, \h01EC,                   \* push r28 and r29; Y := r25:r24
  \h9189, \h2388, \hF021,                   \* ld r24, Y+; tst r24; breq to the pops
  \hE0E0, \hE8F0, \h9509, \hCFF9,           \* putc(r24); rjmp to ld
  \h91DF, \h91CF, \h9508 >>                 \* pop r29 and r28; ret

put_d == <<
  \h93CF, \h2FC8,                           \* push r28; r28 := r24
  \hE299, \h9FC9, \h2D81, \h9582, \h708F,   \* r24 := r28 * 41 / 4096
  \hE694, \h9F89, \h19C0, \h2411,           \* r28 -= 100 * r24; clr r1
  \h5D80, \hE0E0, \hE8F0, \h9509,           \* putc(r24 + '0')
  \hEC9D, \h9FC9, \h2D81,
  \h9586, \h9586, \h9586,                   \* r24 := r28 * 205 / 2048
  \hE09A, \h9F89, \h19C0, \h2411,           \* r28 -= 10 * r24; clr r1
  \h5D80, \hE0E0, \hE8F0, \h9509,           \* putc(r24 + '0')
  \h2F8C, \h5D80, \hE0E0, \hE8F0, \h9509,   \* putc(r28 + '0')
  \h91CF, \h9508 >>                         \* pop r28; ret

main == <<
  \hE0E2, \hE8F0, \h9509, \h2FC8, \hDFD7,   \* r28 := get_next_count(); put_d(r28)
  \hE782, \hE090, \hDFC7,                   \* put_s(114)
  \h70C3, \h2FEC, \hE0F0, \h0FEE, \h1FFF,   \* Z := 2 * (r28 & 3)
  \h5AE0, \h4FFF,                           \* Z += 96
  \h8180, \h8191, \hDFBD,                   \* put_s(word at Z)
  \hE784, \hE090, \hDFBA,                   \* put_s(116)
  \hEF6A, \hE070, \hE080, \hE090,           \* r25..r22 := 250
  \hE0E1, \hE8F0, \h9509,                   \* sleep(250)
  \hB180, \h3781, \hF019,                   \* in r24, 0; cpi r24, 'q'; breq to break
  \hB180, \h3581, \hF6F1,                   \* in r24, 0; cpi r24, 'Q'; brne to 0
  \h9598, \hCFDC >>                         \* break; rjmp to 0

(* The constants: the addresses of the four strings, their bytes, each     *)
(* with a zero behind it, and ":" and "\n" at 114 and 116.                 *)
rodata == << 104, 107, 109, 110,
             \h7573, \h6200, \h0000, \h616C, \h0064, \h003A, \h000A >>

Script == Startup \o put_s \o put_d \o main \o rodata

=============================================================================
