------------------------------ MODULE HelloHost ------------------------------
(***************************************************************************)
(* The hello host: the loop of main in host_hello.c, its functions and the *)
(* keyboard.  A turn of the loop is up to three steps: look at the         *)
(* keyboard, execute one instruction, and serve the host function that it  *)
(* called.  A key may be pressed before any instruction.                   *)
(*                                                                         *)
(* I/O register 0 holds the last key.                                      *)
(***************************************************************************)
EXTENDS GccAbi, HelloScript

CONSTANT Keys   \* codes of the keys that are pressed

ASSUME KeysAssumption == Keys \subseteq Byte /\ 0 \in IoPorts

VARIABLES
  at,        \* where the loop is, or how the program ended
  counter,   \* what get_next_count returns next
  line       \* the characters printed since the last newline before the last one

hellovars == << flash, ctx, rc, at, counter, line >>

HelloInit == /\ Init
             /\ at = "keyboard"
             /\ counter = 0
             /\ line = << >>

(* if (_kbhit()) io[0] = _getch();                                         *)
Keyboard == /\ at = "keyboard"
            /\ \/ UNCHANGED ctx
               \/ \E key \in Keys : ctx' = [ctx EXCEPT !.io[0] = key]
            /\ at' = "exec"
            /\ UNCHANGED << flash, rc, counter, line >>

After_BreakIsBad(code) ==
  CASE code >= 0                    -> "call"
    [] code <= AVRVM_RC_BREAK       -> "bad instruction"
    [] OTHER                        -> "keyboard"

(* What main does with a return value; a sleep is only reported.           *)
After(code) == CASE code >= 0                   -> "call"
                 [] code = AVRVM_RC_UNDEF_INSTR -> "bad instruction"
                 [] code = AVRVM_RC_BREAK       -> "exited"
                 [] OTHER                       -> "keyboard"

Exec == /\ at = "exec"
        /\ avrvm_exec
        /\ at' = After(rc')
        /\ UNCHANGED << counter, line >>

Newline == 10

(* printf("%c", c)                                                         *)
Putc == /\ rc = 0
        /\ line' = Append(IF Newline \in { line[k] : k \in DOMAIN line } THEN << >> ELSE line,
                           avrvm_unpack_args_gcc(ctx, << "c" >>)[1][1])
        /\ UNCHANGED << ctx, counter >>

(* Sleep, and any index without a function, leave everything as it is.     *)
Sleep == /\ rc # 0 /\ rc # 2
         /\ UNCHANGED << ctx, counter, line >>

GetNextCount_NotCounted ==
  /\ rc = 2
  /\ ctx' = avrvm_pack_return_gcc(ctx, "B", << counter >>)
  /\ UNCHANGED << counter, line >>

GetNextCount == /\ rc = 2
                /\ ctx' = avrvm_pack_return_gcc(ctx, "B", << counter >>)
                /\ counter' = Wrap8(counter + 1)
                /\ UNCHANGED line

exec_ext_call == /\ at = "call"
                 /\ Putc \/ Sleep \/ GetNextCount
                 /\ at' = "keyboard"
                 /\ UNCHANGED << flash, rc >>

Loop == Keyboard \/ Exec \/ exec_ext_call

(* main has returned.                                                      *)
Ended == /\ at \in {"exited", "bad instruction"}
         /\ UNCHANGED hellovars

HelloNext == Loop \/ Ended

HelloSpec == HelloInit /\ [][HelloNext]_hellovars

(* One step of a turn, by what becomes of at: every step of Loop is one of *)
(* these, and each is possible where Loop is.                              *)
Turn == \/ at = "keyboard" /\ at' = "exec"
        \/ at = "exec" /\ at' \in {"call", "keyboard", "exited", "bad instruction"}
        \/ at = "call" /\ at' = "keyboard"

(* Nothing in the loop waits, apart from Sleep, which ends, so the loop    *)
(* goes on.  Of the keyboard nothing is assumed.  Fairness of Turn is      *)
(* fairness of Loop and much cheaper to check.                             *)
FairHelloSpec == HelloSpec /\ WF_at(Turn)

-----------------------------------------------------------------------------
QuitKeys == {113, 81}   \* q and Q

(* What one turn of the script's loop prints for n: three digits, a colon, *)
(* one of the strings and a newline.                                       *)
LineOf(n) ==
  << 48 + (n \div 100), 48 + ((n \div 10) % 10), 48 + (n % 10), 58 >>
  \o strings[(n % 4) + 1] \o << Newline >>

StartOf(s, t) == Len(s) <= Len(t) /\ s = SubSeq(t, 1, Len(s))

(* The script prints the line of every number, in order and whole before   *)
(* it asks for the next, with whatever keys in between.  For that, the     *)
(* constants must have been copied, each result and argument must arrive   *)
(* in the registers of the call it belongs to, what a function saved on    *)
(* the stack must come back, host calls must leave the other registers     *)
(* alone, and the digits rest on mul, swap, shifts and the carry.          *)
OutputInOrder ==
  [][at = "call" =>
       /\ rc = 0 => StartOf(line', LineOf(Wrap8(counter - 1)))
       /\ rc = 2 => \/ line = LineOf(Wrap8(counter - 1))
                    \/ line = << >> /\ counter = 0]_hellovars

(* Whoever keeps pressing q, or keeps pressing Q, and nothing else ends    *)
(* the script: it does read the keyboard between its host calls, and its   *)
(* break ends the loop.                                                    *)
QuitsWhenHeld ==
  \A key \in QuitKeys : <>[](ctx.io[0] = key) => <>(at = "exited")

(* "Script also reads keyboard input from I/O register 0 and terminates on *)
(* 'Q' press" (hello/readme).  The host keeps only the last key, and the   *)
(* script looks once per turn, at q and at Q separately.                   *)
QuitsOnPress == ctx.io[0] \in QuitKeys ~> at = "exited"

=============================================================================
