------------------------------ MODULE HostCall ------------------------------
(***************************************************************************)
(* A host function called from compiled code, from the caller's first push *)
(* to its use of the result.  The caller is the script's compiler, whose   *)
(* side of the convention the comments of avrvm.c quote from avr-libc:     *)
(*                                                                         *)
(*  - arguments are allocated left to right from r25 down to r8, each in   *)
(*    an even-numbered register; those that do not fit go to the stack;    *)
(*  - results of up to 8 bytes end in r25 and begin in an even-numbered    *)
(*    register; 8-bit results are extended to 16 bits by the called.       *)
(*                                                                         *)
(* The caller says where a value goes in closed form, the helpers in       *)
(* GccAbi count as they go along.  A call to the host pushes no return     *)
(* address, so the host finds the arguments where a function of the script *)
(* would find them above its own.                                          *)
(***************************************************************************)
EXTENDS GccAbi

CONSTANTS
  Signatures,          \* argument formats of host functions, as sequences
  ArgumentByte(_, _),  \* byte j of the k-th argument
  ReturnValues         \* the bytes that results are made of, as sequences of eight

ASSUME SignaturesAssumption   == Signatures \subseteq Seq(Formats)
ASSUME ReturnValuesAssumption == ReturnValues \subseteq [1 .. 8 -> Byte]
ASSUME ArgumentsAssumption ==
  \A s \in Signatures : \A k \in DOMAIN s : \A j \in 1 .. size(s[k]) :
    ArgumentByte(k, j) \in Byte

VARIABLES
  stage,     \* how far the call is
  fmt,       \* the signature of the function called
  unpushed,  \* bytes of stack arguments still to be pushed
  args,      \* what the host function has unpacked
  result     \* the format and the bytes it has returned

callvars == << flash, ctx, rc, stage, fmt, unpushed, args, result >>

-----------------------------------------------------------------------------
(* The caller: where it puts the arguments of a signature s.               *)

(* first + d[1] + ... + d[k], for every k                                  *)
RunningSum(first, d) ==
  LET sum[k \in 0 .. Len(d)] == IF k = 0 THEN first ELSE sum[k - 1] + d[k]
  IN  sum

Value(s, k) == [j \in 1 .. size(s[k]) |-> ArgumentByte(k, j)]

RegsFor(f) == 2 * ((size(f) + 1) \div 2)

(* The register an argument starts in, if there are enough down to r8.     *)
FirstReg(s)  == RunningSum(26, [k \in 1 .. Len(s) |-> -RegsFor(s[k])])
InRegs(s, k) == FirstReg(s)[k] >= 8

(* How many bytes of the first k arguments go to the stack.                *)
OnStack(s)    == RunningSum(0, [k \in 1 .. Len(s) |-> IF InRegs(s, k) THEN 0 ELSE size(s[k])])
StackBytes(s) == OnStack(s)[Len(s)]

(* Byte n of the arguments on the stack is one of argument k.              *)
Covers(s, k, n)  == OnStack(s)[k - 1] < n /\ n <= OnStack(s)[k]
StackByte(s, n)  == LET k == CHOOSE k \in 1 .. Len(s) : Covers(s, k, n)
                    IN  Value(s, k)[n - OnStack(s)[k - 1]]

(* Register n holds a byte of argument k.                                  *)
InArgument(s, n, k) == InRegs(s, k) /\ n - FirstReg(s)[k] + 1 \in 1 .. size(s[k])

(* The script's stack has room for the arguments.                          *)
ASSUME RoomAssumption == \A s \in Signatures : StackBytes(s) <= SramSize

CallInit == /\ flash \in Programs
            /\ rc = AVRVM_RC_OK
            /\ ctx = [pc |-> 0, sp |-> SramBase + SramSize - 1, sreg |-> {},
                      regs |-> [n \in RegIndex |-> 255],
                      sram |-> [a \in SramIndex |-> 255],
                      io   |-> [p \in IoPorts |-> 0]]
            /\ stage = "passing"
            /\ fmt \in Signatures
            /\ unpushed = StackBytes(fmt)
            /\ args = << >>
            /\ result = << >>

(* push: the last byte of the last argument comes first.                   *)
PassOnStack == /\ stage = "passing"
               /\ unpushed > 0
               /\ ctx' = push(ctx, StackByte(fmt, unpushed))
               /\ unpushed' = unpushed - 1
               /\ UNCHANGED << flash, rc, stage, fmt, args, result >>

(* The loads of the registers and the call.  Registers outside of the      *)
(* arguments keep what they hold.                                          *)
PassInRegs ==
  /\ stage = "passing"
  /\ unpushed = 0
  /\ ctx' = [ctx EXCEPT !.regs =
               [n \in RegIndex |->
                  IF \E k \in 1 .. Len(fmt) : InArgument(fmt, n, k)
                  THEN LET k == CHOOSE k \in 1 .. Len(fmt) : InArgument(fmt, n, k)
                       IN  Value(fmt, k)[n - FirstReg(fmt)[k] + 1]
                  ELSE ctx.regs[n]]]
  /\ stage' = "called"
  /\ UNCHANGED << flash, rc, fmt, unpushed, args, result >>

-----------------------------------------------------------------------------
(* The host function.                                                      *)

Unpack == /\ stage = "called"
          /\ args' = avrvm_unpack_args_gcc(ctx, fmt)
          /\ stage' = "unpacked"
          /\ UNCHANGED << flash, ctx, rc, fmt, unpushed, result >>

Pack == /\ stage = "unpacked"
        /\ \E f \in Formats, v \in ReturnValues :
             LET val == [j \in 1 .. size(f) |-> v[j]]
             IN  /\ ctx' = avrvm_pack_return_gcc(ctx, f, val)
                 /\ result' = << f, val >>
        /\ stage' = "returned"
        /\ UNCHANGED << flash, rc, fmt, unpushed, args >>

(* The script goes on with its next instruction.                           *)
Resumed == /\ stage = "returned"
           /\ UNCHANGED callvars

CallNext == PassOnStack \/ PassInRegs \/ Unpack \/ Pack \/ Resumed

CallSpec == CallInit /\ [][CallNext]_callvars

-----------------------------------------------------------------------------
(* The host function sees the values that the caller passed, whatever the  *)
(* mix of sizes and wherever the registers run out: nothing is read from a *)
(* neighbour, a padding register or the wrong end of the stack.  A pointer *)
(* is seen as an offset from the beginning of the SRAM.                    *)
ArgsArrive ==
  stage = "unpacked" =>
    /\ Len(args) = Len(fmt)
    /\ \A k \in DOMAIN fmt :
         IF fmt[k] = "P" THEN Wrap16(WordOf(args[k]) + SramBase) = WordOf(Value(fmt, k))
                         ELSE args[k] = Value(fmt, k)

(* What the caller reads after the call: the bytes of the result, a single *)
(* byte extended by its sign or by zero, a pointer as its own address.     *)
HighByte(f, low) == IF f # "B" /\ low >= 128 THEN 255 ELSE 0

Expected(f, val) ==
  CASE size(f) = 1 -> << val[1], HighByte(f, val[1]) >>
    [] f = "P"     -> Bytes(Wrap16(WordOf(val) + SramBase))
    [] OTHER       -> val

(* The result is where a caller of compiled code looks for it, in the      *)
(* registers up to r25, and returning it changes nothing else: no          *)
(* register that the caller keeps, no flag, and neither pc nor stack, to   *)
(* which the script goes back as from a plain call.                        *)
ReturnArrives ==
  [][stage = "unpacked" =>
       LET f     == result'[1]
           first == 26 - RegsFor(f)
       IN  /\ \A n \in first .. 25 :
                ctx'.regs[n] = Expected(f, result'[2])[n - first + 1]
           /\ ctx' = [ctx EXCEPT !.regs = [n \in RegIndex |->
                        IF n \in first .. 25 THEN ctx'.regs[n] ELSE @[n]]]]_callvars

=============================================================================
