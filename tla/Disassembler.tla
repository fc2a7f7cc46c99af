---------------------------- MODULE Disassembler ----------------------------
(***************************************************************************)
(* A listing of a binary next to the virtual machine that executes it.     *)
(* list_opcode sees the words one after the other and remembers in a       *)
(* static variable that the previous one was the first half of a two-word  *)
(* instruction; the machine gets from one instruction to the next by       *)
(* executing them, and over one when it skips.                             *)
(***************************************************************************)
EXTENDS TestVM, ListOpcode

VARIABLE lines   \* what the disassembler has printed of the flash

disasmvars == << flash, ctx, rc, status, steps, lines >>

(* main of the disassembler on the words of p: the listing after each of   *)
(* them, and what has been printed at the end.                             *)
Listed(p) ==
  LET d[k \in 0 .. Len(p)] ==
        IF k = 0 THEN NothingListed ELSE list_opcode(d[k - 1], p[k], Decoded)
  IN  d

ListingOf(p) == Listed(p)[Len(p)].lines

Directs == {"rjmp", "rcall", "brbc", "brbs", "call", "jmp"}

(* The target printed on a line.                                           *)
ListedTarget(l) == l.numbers[IF l.mnemonic \in TwoWords THEN 1 ELSE 2]

IsListed(address) == \E k \in DOMAIN lines : lines[k].addr = address

(* A program as a compiler makes it: every direct jump or call that is     *)
(* listed has a listed instruction for its target.                         *)
WellFormed ==
  \A k \in DOMAIN lines :
    lines[k].mnemonic \in Directs => IsListed(ListedTarget(lines[k]))

ListingInit == /\ HostInit
               /\ lines = ListingOf(flash)
               /\ WellFormed

ListingNext == HostNext /\ UNCHANGED lines

ListingSpec == ListingInit /\ [][ListingNext]_disasmvars

(* The line of the instruction that is about to be executed.               *)
AtPc == { k \in DOMAIN lines : lines[k].addr = 2 * ctx.pc }

(* A well-formed program executes listed instructions only: no skip, jump, *)
(* call or return lands on the second word of an instruction.  This needs  *)
(* skip_instr, list_opcode and the cases of the interpreter to agree on    *)
(* which instructions have two words.                                      *)
OnListedLine == ctx.pc < FlashWords => AtPc # {}

(* Control goes where the listing says: to the printed target or, when a   *)
(* branch is not taken, to the next line.                                  *)
GoesWhereListed ==
  [][steps' # steps /\ instr \in Directs
     => \A k \in AtPc : \/ 2 * ctx'.pc = ListedTarget(lines[k])
                        \/ /\ instr \in {"brbc", "brbs"}
                           /\ ctx'.pc = ctx.pc + 1]_disasmvars

(* The listing warns of what the interpreter leaves to the compiler: where *)
(* a store moves its pointer over the register it stores, and either of    *)
(* two bytes may be written, the line says "undefined".                    *)
SurprisesNoted ==
  instr \in Stores /\ RR # Moved.regs[Rr] => \A k \in AtPc : lines[k].noted

=============================================================================
