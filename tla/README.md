# avrvm in TLA+

avrvm is an embeddable virtual machine that executes AVR code one instruction
per call. This directory specifies it in TLA+: the interpreter, its decoder and
its arithmetic are translated from the C source, an instruction set written
independently says what a script is promised, TLC checks the one against the
other and against what compiled programs rely on, and TLAPS proves the facts
about all operands and all programs that no enumeration reaches.

All paths below are relative to the repository.

## 1. The system

| Component | Source | State | Operations |
|---|---|---|---|
| Interpreter | `avrvm.c` 1-683, `avrvm.h` | `avrvm_ctx_t`: pc, sp (spl/sph), sreg, 32 registers | `avrvm_init`, `avrvm_exec` (one instruction) |
| Decoder | `avr_op_decoder.c/.h` | none (two constant tables) | `avr_decode`, 84 unpackers, `avr_get_instr_name_by_id` |
| Decoder generator | `gen_op_decoder.py`, two jinja templates | `SPEC`, the tables under construction, the files `luts.pickle`, `avr_op_decoder.c` and `.h` | `create_oplist`, `find_best_nmsbits`, `gen_luts`, `main` |
| Call convention | `avrvm.c` 694-811 | none (reads and writes the context) | `avrvm_unpack_args_gcc`, `avrvm_pack_return_gcc` |
| Test host | `testvm/testvm.c` | SRAM, the binary | the callbacks, `run_bin` |
| Hello host and script | `hello/` | SRAM, I/O registers, a counter | the callbacks, `exec_ext_call`, the main loop; keyboard input |
| Disassembler | `disasm/disasm.c` | `prev_opcode` | `list_opcode`, `main` |
| Test programs | `testvm/tests/` | - | assembly programs and logs of real hardware |

How they interact. A host owns an `avrvm_ctx_t` and five callbacks; it calls
`avrvm_exec` in a loop, and the interpreter calls back for every flash word and
every byte of SRAM or I/O it needs. The value returned tells the host to go on,
to stop, or which of its own functions the script called; the hello host then
reads the arguments out of, and writes the result into, the context between two
calls of `avrvm_exec`. The interpreter calls the decoder for each instruction,
and once more, without operands, to measure an instruction it skips. The
disassembler calls the decoder on each word of a file in order, and re-derives
on its own which words are operands. The generator is run by the developer after
an edit of its pattern list; the two files that it writes are checked in.

There is no thread, lock or message, and of the programs only the generator writes
files. What is hard here:

* **Flags.** Eight bits of status, computed by shifting and masking, carried
  from one instruction to the next. Z is only ever *cleared* by a subtraction,
  and each instruction that starts a chain sets it first (`avrvm.c:208` and the
  like). A wrong flag shows up some instructions later, as a branch not taken or
  a loop that does not end.
* **One memory, several views.** Registers, pairs, sp, sreg, I/O and SRAM are
  one address space for the script and different fields and callbacks for the
  code. The order of a side effect and an access (`sp--`, `X++`) shows when
  the access hits the register that moves.
* **Framing.** Nothing marks the second word of a two-word instruction. Four
  places must agree on which they are: `skip_instr`, `list_opcode` and the cases
  of the interpreter that advance pc.
* **The stack.** Return addresses are ordinary bytes. Nothing stops the stack
  at the bottom of the SRAM; below it are sreg and sp.
* **Host calls.** A call at or above 0x8000 is not a call but a return to the
  host, for `call` and `icall` and for nothing else.
* **Files that outlive the list they were made from.** The generator reloads its
  tables from `luts.pickle` whenever it can, and writes three files, of which any
  may be left half-written or not written at all.

What makes each component correct:

* *interpreter*: each step does to pc and data memory what the instruction set
  says; fields keep their width; a `ret` goes back behind its call; multi-byte
  arithmetic comes out right; counted loops end after the right number of turns;
  a host call reports the function's index;
* *decoder*: the tables yield the first matching pattern for all 65536 words;
  every field an instruction uses is one its unpacker assigns;
* *generator*: the two-level table equals first match, for any list of patterns
  and any split of the word; unpackers take out the letters of the pattern; a run
  that is interrupted does not spoil a later one;
* *call convention*: unpacking what a caller packed gives it back, in registers
  and on the stack; a result overwrites no other register;
* *hosts*: a script that ends ends the loop; a host call leaves everything but
  the result alone;
* *disassembler*: the listing tells everything about the binary; control flow
  stays on listed lines and goes where they say.

## 2. The modules

| Module | What it is | Code |
|---|---|---|
| `AvrBits` | bytes, words, bits, casts | C's integer types |
| `AvrDecoder` | `avr_decode` as the first matching row of `SPEC`, and the operands | `avr_op_decoder.c`, `gen_op_decoder.py` |
| `AvrALU` | results and flags, by bits | `update_sreg_after_*` and the arithmetic cases |
| `AvrVM` | the machine: `avrvm_init`, one action per case of `avrvm_exec` | `avrvm.c` 27-692 |
| `TestVM` | the machine in testvm's loop | `testvm.c` |
| `AvrArith` | results and flags, by what they mean for numbers | - |
| `AvrISA` | the abstract specification: pc, flat data memory | - |
| `VMImplementsISA` | the refinement mapping | - |
| `HostInterface` | three promises of the docs the code does not keep | `avrvm.h`, `README.md` |
| `CallTrace` | the machine and a history of its unreturned calls | - |
| `Compiled` | what instructions a program has at given places, for the next two | - |
| `WideArith` | 16-bit arithmetic made of 8-bit instructions | - |
| `CountedLoops` | compiled loops | - |
| `ListOpcode` | what is printed for each word, `list_opcode` | `disasm.c` 6-289 |
| `Listing` | the disassembler's `main`, and an assembler that reads its lines | `disasm.c` 291-315 |
| `Disassembler` | the listing of a binary beside the machine that runs it | `disasm.c`, `testvm.c` |
| `GccAbi` | argument unpacking and result packing for host functions | `avrvm.c` 694-811 |
| `HostCall` | a compiled caller, a host function, and `GccAbi` between them | `avrvm.c` comments, `host_hello.c` 56-83 |
| `HelloHost` | the hello host's loop, its functions, the keyboard | `host_hello.c` |
| `HelloScript` | the script as compiled code | `script_hello.c` |
| `DecoderTables` | how the generator fills the decoder's two tables | `gen_op_decoder.py` 252-343 |
| `Unpackers` | how it makes the operand unpackers | `gen_op_decoder.py` 202-250, `avr_op_decoder.jinja` 7-51 |
| `Generator` | the generator as a program with files, on top of `DecoderTables` | `gen_op_decoder.py` 258-304, 345-387 |
| `MC*` | the programs, signatures or patterns each run goes through | - |
| `AvrVMProofs`, `RefinementProofs`, `CallTraceProofs`, `CompiledProofs`, `ListingProofs`, `EncodingProofs`, `HostCallProofs`, `GeneratorProofs` | theorems | - |

**State.** `ctx` is `avrvm_ctx_t` with the storage behind the callbacks: pc,
sp, sreg, regs, sram, io. The unions are resolved: sp is a word whose halves are
computed, the registers are bytes from which `WordReg` makes the pairs, and sreg
is the set of its flags that are set, so that `|=` is union and `&= ~` is
difference. `flash` is the binary and does not change. `rc` is the value that
`avrvm_exec` last returned. `TestVM` adds `status`, where `run_bin` is, and
`steps`, which only bounds the runs.

**Actions.** One action per case of the switch, with the cases that differ only
in the value computed grouped: `Add` is `add` and `adc`. Each is one whole call
of `avrvm_exec`: fetch, increment of pc, decode, effect and return value. `instr`
and the operands are state functions of flash and pc, so exactly one action is
enabled in a state. The decoder's operand operators have no default: they are
defined for the instructions whose unpacker assigns the field, so that an action
that used a field left uninitialised would stop TLC.

**Undefined behaviour.** `writemem(ctx, X++, RR)` reads `RR` and changes X in no
order when RR is a half of X. `Store` writes either value.

**Host memory.** An SRAM address that the host does not have reads as zero and
ignores writes, as in `testvm.c`. The parameter `IoPorts` says which I/O
registers have storage: none for testvm, all for the hello host, of which its runs keep
register 0, the only one its script reads.

**The hello host.** A turn of the loop in `main` is up to three steps, told
apart by the variable `at`: look at the keyboard, one `avrvm_exec`, and
`exec_ext_call` if that returned a non-negative number. The keyboard may deliver
a key at every look and need not deliver any. `Sleep` changes nothing and is
assumed to end. `line` holds what was printed since the last newline before the
last one, so that a whole line can be compared. The script is compiled by
hand as avr-gcc would, startup code included, which copies the constants to the SRAM;
`put_d` divides by multiplying, `put_s` keeps its pointer in Y and saves it on the
stack. Only the strings are shortened, so that 32 bytes of SRAM hold them.

**The listing.** A line is a record: address, mnemonic, the form of the pointer
(X+, Y+q, ...), the numbers in the order they are printed and whether "undefined"
is noted. `list_opcode` is one function from a listing and a word to the next
listing; `Listing` makes a step of each word of the file, `Disassembler` folds it over
the flash. The state the C code keeps in a static variable is `prev_opcode`.
`Listing`'s assembler, `Encodings`, is written from the instruction formats and does not use
the decoder's operand fields, so that an error in either shows.

**The call convention.** `HostCall` puts a caller before and after the helpers.
It is external code, avr-gcc's output, modelled from the rules that the comments of `avrvm.c`
quote: it places an argument by two sums over those before it (26 less the rounded
sizes; the sizes of those that found no register), while `GccAbi` counts down and
switches to the stack as the C code does. The bytes of the arguments are a constant of the
module, `ArgumentByte`. Registers and stack are filled with 255 beforehand, so that reading a
padding register shows.

**The tables.** In `DecoderTables` a word is the set of its bits and a pattern
the set of its fixed bits with those that are one, which is what comparing
strings of `0`, `1` and letters amounts to. A list of matches, which the code
joins to a string, is the set of its numbers; the code makes it in increasing
order. In `Unpackers` the letters of a pattern are sets of positions, the runs of
adjacent ones the groups that `re.finditer` finds.

**The generator's files.** `Generator` extends `DecoderTables`: its action `Fill` is
`gen_luts`, one word per step, at the split that `find_best_nmsbits` has chosen. Each
file is absent, cut short or whole. `open(..., 'w')` cuts it short; the output files are
written and closed in one statement, but `luts.pickle` is never closed before
`main` returns, so what was dumped waits in a buffer (`Exit`). `Crash` ends a run at any
point: an exception unwinds `main` and closes the file, force does not, so the file is
whole or cut short. A whole file has the field `of`, the list its tables were
computed from, for the properties only: nothing in the real file tells. `Edit` changes
the list in the script, also while a run goes on; `DeletePickle` is what the developer
can do against stale tables.

**The abstract specification.** `AvrISA` has one memory in which registers, sp
and sreg have addresses, and describes instructions by their meaning: C is a sum
out of range, V a signed sum out of range, S the sign of the exact result, H a
carry from the low digit. It shares the decoder with `AvrVM` and nothing else. The
refinement mapping is `MemoryOf`: the context's fields laid out one after the other. Flash
addresses are 16 bits wide and wrap where the host's flash ends, as the hosts' callbacks
do, so that a script in a flash of any size means the same to both.

**Calls.** `CallTrace` keeps beside the machine what the machine does not know: for every
call that has not returned, the stack pointer before it and the address behind it. Nothing
stops a script from pushing, popping, storing to `spl` or returning to an address it made up; a
frame is forgotten when the stack pointer rises above it, when a store instruction of the
script writes into it, and when the stack leaves the SRAM.

Operators with a capitalised suffix, such as `AluAdd_NoCarry`, are slips the
code could contain and does not. Nothing uses them; put in the place of the
right definition, each makes the property it is paired with fail, which shows
that the property notices.

## 3. The runs

| Run | Programs | Question |
|---|---|---|
| `instructions` | each instruction on 40 operand/flag combinations, and every pair of a leading instruction and another | does each step do what the instruction set says (`ImplementsISA`), keep every field in range (`HostTypeOK`), and read only what its unpacker set? |
| `calls` | every program of 5 words over 12: calls, ret, push, pop, a store, and `out spl` | are return addresses intact (`FramesIntact`) and does ret go back (`ReturnsToCaller`)? |
| `listing` | every well-formed program of 5 words over 11, and a break | does control stay on listed instructions (`OnListedLine`), go where the listing says (`GoesWhereListed`), and is every store whose outcome C leaves open warned about (`SurprisesNoted`)? |
| `listing_words` | each of the 65536 words; 192 two-word instructions with 6 second words; files of 2 to 4 words over 7 | can the binary be made again from its listing (`Reassembles`), does a word match one pattern at most (`Unambiguous`), and are the compiled unpackers those of the generator (`UnpackedAsGenerated`)? |
| `arithmetic` | 8 chains on 1296 operand pairs; 7 loops, 8 counters | are 16-bit sums, comparisons, negation, shifts and products right (`WideSum` and the like), and do counted loops end (`Terminates`) after the right number of steps (`CountsExactly`)? |
| `host_call` | 4062 signatures, 52 results each | do arguments arrive (`ArgsArrive`) and results, and nothing else (`ReturnArrives`)? |
| `hello` | the hello script | is the line of every number printed, whole and in order (`OutputInOrder`), and does holding a quit key end the script (`QuitsWhenHeld`)? |
| `generator` | lists of up to two of four patterns, and of three that overlap, words of 5 bits; 1 edit, 1 crash, entries of 4 values | is each word entered found as its first match (`LookupIsFirstMatch`), and why (`SharedSafely`); is a decoder right unless its tables are of another list or too large for their type (`RightUnlessStale`), and does rerunning without `luts.pickle` bring everything up to date (`Heals`)? |
| `quit_press` | the hello script without output, with one quit key and another key | expected violation, see section 6 |
| `cbi`, `rom_call`, `rom_jump` | one departure after each instruction | expected violations, see section 6 |

**Bounds, and why they are enough.** An instruction's effect depends on its
word, the two operand bytes and sreg. `instructions` takes operands at the
edges of the signed and unsigned ranges, {0, 1, 127, 128, 255} and
{0, 1, 128, 255}, with all flags clear and all set; each flag goes both ways
within them. What edge values cannot show about the arithmetic the theorems of section 5 show for
all operands. Pairs of instructions make the second meet the pc, flags, stack
pointer and pointer registers the first leaves, among them sp pointing at sp,
pointers at registers, and Z in the host table. SRAM of 6 bytes lets pointers
and the stack leave it; flash of 16 words makes fetches wrap.
In `calls`, the SRAM of 7 bytes is overrun by the fourth nested call and
programs run for 9 steps, so three calls nest and return in every order; words
are also operands, so control enters the middle of `call`; `sts` hits the outermost frame,
and `out spl` moves the stack pointer under the frames or above them. In `listing`, 5 free
words hold a skip over a two-word instruction followed by a branch over it; 10
steps let a loop go round twice. In `listing_words` an instruction is printed without regard to
its neighbours except the word before, so single words, pairs and a few mixed files are
all there is; the palette has words that are an instruction or an operand, and files that end
in the middle of an instruction. The chains of `arithmetic` end after 11 or 12 steps, and
their operands put 0, 1, 127, 128, 254 and 255 in either byte. For the loops
1100 steps cover 256 and 257 iterations, where the low byte has
passed zero and the high byte decides; larger counters are left out by `TooLong`
since they only repeat this.

`host_call` takes all lists of up to five arguments of one format of each size
and pointers, so that registers run out at the third, fourth or fifth argument,
with and without one that would still have fitted behind it; all pairs of formats; and lists
of 8 to 11 bytes, around the ninth, which takes the last pair. `hello`
has no bound on steps: all 256 values of the counter, and q, Q or another key at any moment, are covered. In `generator` the words have 5
bits, for which there are two splits, and each is chosen for some list; one edit makes
tables stale and one crash leaves any of the files cut short, before or after it. A table entry
has `ByteValues` values, 4 there and 256 in the code, where the real list needs 52 for the
top table and 85 for the bottom ones; the list `TooMany` leaves five sets of patterns
possible, so that the entries of one decoder are cut. The theorems of
section 5 take care of 16 bits, any number of patterns, edits and crashes, except for `Heals`.

`MaxSteps` ends an observation, not a program: in the step-bounded state only
`Over`, which stutters, is enabled. It also stands for the end of the process.

**Fairness.** `Terminates` needs `WF_hostvars(run_bin)`, `QuitsWhenHeld` and
`QuitsOnPress` the same of the hello host's loop: `WF_at(Turn)`, where a step of
`Turn` is one of the loop, told by the change of `at` alone. `run_bin`
(testvm.c 58-82) is a `while (1)` with no wait, and each call of `avrvm_exec` is
a straight line of code, so the loop goes on while the process is given the
processor. Nothing is
assumed of the program, nor of the keyboard. `Heals` needs `WF_<< at, i >>(GoesOn)`, a run that
was started goes on, and `WF_at(Starts)`: whoever edits the list runs the generator
until a run ends. Each tells the steps of `main` and of `Start` by the change of `at` and `i`
alone, which are the only ones that change these so. Crashes are finitely many; deleting `luts.pickle` is not assumed but is
the condition of the property.

## 4. What the runs show

The interpreter implements the instruction set on everything `instructions`
covers, apart from the two departures of section 6, of which its programs have
only cases where they make no difference: a `cbi` of a port without storage, a
host call while Z holds the address called. For compiled code this is what the flags are for, so `arithmetic`
checks that separately: a comparison of two 16-bit numbers leaves C, Z and S
telling less-than and equal, unsigned and signed; a loop on a 16-bit counter ends
when both bytes are zero, not when one is. Calls nest and return as long as the
stack is in SRAM; when it leaves, pushes overwrite sreg and then sp, and
`CallTrace` says nothing any more, because the machine promises nothing. A
program whose listed jumps go to listed lines never executes an operand as an
instruction, whatever it skips. Host functions see their arguments in every
signature covered, and their results change nothing but r18 to r25; so a host
call looks like a plain call whenever the host answers, which is what README.md:21
promises. The hello script prints the line of every number, digits and string, once and in order.

The listing is complete: a binary can be assembled from it, with three things to know. The
flag of `bset` and `bclr` is not printed, since the switch has no case for them
(`disasm.c:38-254`), so `sec` and `sez` look alike up to their bytes. The first word of a two-word
instruction at the end of a file is not printed at all (`disasm.c:308`). And the target of `call` and `jmp` is
printed with 22 bits of which the machine uses 16. No two of the generator's patterns
match the same word, so their order decides nothing, although first match depends on
it.

A generator that is run again after anything that can happen to it writes the right
decoder, unless it finds tables of an older list: then the decoder is wrong and stays
so until `luts.pickle` is deleted. An edit while a run goes on has the same effect even if
the file was deleted before. Between the two writes of a run (`gen_op_decoder.py:379`,
385) the C file and its header belong to different lists; a run that ends there leaves
them so until the next.

The template declares the entries of both tables `uint8_t` whatever they are
(`avr_op_decoder.jinja:65`), while `find_best_nmsbits` also counts splits with 256 sets of
patterns and more, at two bytes an entry. A list that has more than 256 sets at the split
chosen, or more than 255 patterns, would give a decoder that is wrong
without a word from the generator, and may not from the compiler (`Fits`).

## 5. What is proved

All by TLAPS, for every value of the constants within the assumptions
`FlashAssumption`, `SramAssumption`, `IoAssumption`, `WordsAssumption`,
`ProgramsAssumption` and `MaxStepsAssumption`: the flash has between 1 and 65536
words, the SRAM fits the 16-bit address space after the 96 bytes below it, I/O
registers are among the 61, and programs are sequences of 16-bit words. So they
hold for the real sizes of testvm and hello and for every script.

* **`HostTypeCorrect`, `TypeCorrect`** (`AvrVMProofs`): `HostTypeOK`, respectively
  `TypeOK`, always. Every field keeps the width of its C type, whatever the program is. The
  invariant that is inductive is `IInv`, which adds `flash \in Programs`: without
  it an instruction's operands have no range. The proof goes bottom up: ranges
  of bits and fields, of each arithmetic result, of reads and
  writes of memory (a write goes to registers, sp, sreg or the host, and each
  keeps the context a context), of push, pop and calls, of the decoder's
  operands (a register number is below 32 because of its field's width, a pair's
  below 16); then one lemma for each group of actions that `avrvm_exec` is the
  disjunction of, `ExecInv` to combine them, and PTL.
* **`AddMeaning`, `SubMeaning`, `WordMeaning`, `LogicMeaning`, `ComMeaning`,
  `IncDecMeaning`, `MulMeaning`, `ShiftMeaning`, `SwapMeaning`**
  (`AvrVMProofs`): for all operands and status registers, the operator of
  `AvrALU`, which manipulates bits as the C code does, equals that of `AvrArith`,
  which says what the flags mean. They rest on `AddBits`, `SubBits` and
  `WordBits`, which relate bit 7 or 15 to the sign, bit 8 or 16 to the carry and
  the exclusive or of the bits 4 to the carry out of the low digit.

* **`VMImplements`, `StepsImplementISA`** (`RefinementProofs`): the machine implements the
  instruction set for every script and every size of the memories. `StepsImplementISA` has
  no hypothesis but `HostSpec`: it starts where `AvrISA` starts and each step is one of
  `AvrISA` or begins in a state of `Departs`, a `cbi` of a port with storage or a `call` of a
  host address that Z does not hold. `VMImplements` is the property of the run: a
  behaviour without departures satisfies `ImplementsISA`. The first half of the module shows that the
  mapping is faithful, address by address: `ByAddress` (`readmem` and `writemem` are
  lookup and update of the flat memory, host storage and holes included), `Pairs`,
  `FlagsCell`, `StackOps`, `CallOps`, which turn the operations on fields into
  operations on the memory; they rest on `Cellwise`, that the cells determine the
  memory, `Halves` and `BitsRoundTrip`, and on `Apart`, that no two places share an
  address. Then one lemma for each group of cases of the switch shows that it is the
  disjunct of `AvrISA` for the word at pc (`ArithmeticImplements`, from the nine Meaning
  theorems, to `OtherImplements`), and `ExecImplements` combines them. The only invariant needed is `IInv`.

* **`FramesStayIntact`, `RetReturnsToCaller`** (`CallTraceProofs`): `FramesIntact` always,
  and `ReturnsToCaller`, for every program, number of steps and size of SRAM. `FramesIntact` is not
  inductive: the next push must not reach a frame. `TraceInv` adds that every frame lies in the
  SRAM and wholly above the stack pointer, which has not left the SRAM, and `IInv`. `StackKept`
  says what an instruction may do to a byte above the stack pointer: nothing, unless it is a
  store of the script to that address. It goes through the cases of the switch: most change no SRAM at all
  (`SameSram`), in and out reach no SRAM address (`PortSram`), pushes and calls write at the
  stack pointer and below it (`PushKeeps`, `PushwKeeps`). `CallPushes` shows that a call leaves its return
  address where a ret reads it, `RetPops` that the ret does.

* **`WideSumRight`, `WideCompareRight`, `WideUnaryRight`, `WideProductRight`,
  `CountsExactlyRight`** (`CompiledProofs`): the properties of `WideArith` and `CountedLoops` always,
  in every program that begins with one of the chains or loops, for all operands and all
  start values, where the run has 36 numbers and 8 counters. The properties speak of the end
  only, so the invariants say where the program is and what the registers and flags hold there:
  `ChainsInv` after each instruction of a chain, `LoopsInv` after each instruction of a turn,
  with the number m of turns made, the counter (`Wrap16(Start - m)` and the like), the steps,
  and that the flag the branch looks at is set exactly in the last turn. `Reads`, and one lemma
  for each instruction, get its effect from the case of the switch and its Meaning theorem
  (`AddStep`, `SubImmStep`, ...); `LowStep` and `HighStep` say what the flags of two bytes
  are in terms of the two numbers. A loop that is left cannot be entered again, and
  nothing is said of one that never ends: that it ends stays with `Terminates`.

* **`LinesConsecutive`, `SurprisesAreNoted`, `GoesThere`, `OnlyListedExecuted`**
  (`ListingProofs`): of the listing, for a file of any length and every program.
  `LinesConsecutive` is `[]Consecutive`, the part of `Reassembles` about addresses; its invariant
  `ReadInv` says of the listing after n words (`Sound`) which line each word got,
  that each line ends where the next begins, and what waits in the static variable. The same
  induction, over the words of a flash, makes the fold `Listed` a listing of that kind
  (`FlashListed`), on which the other three rest; `DisasmInv` is `IInv` and that `lines` is
  that listing. `SurprisesAreNoted` needs nothing else. `GoesThere` assumes `FlashWords <=
  AVRVM_MAX_FLASH_WORDS`, as the machine does: a call above is one of the host.
  `OnlyListedExecuted` assumes this too, and two things no listing can give. The last word must
  not wait for a second one, since the line of such a word is never printed
  (`WholeListing`); and control must not leave the listing by what is not in it: a step from an address past the
  flash, or a `ret`, `ijmp` or `icall` to an address without a line (`Strays`). The rest, fall-through, skips over one or two words, branches,
  jumps and calls, is the theorem: each line's successor is a line (`NextListed`,
  `BehindListed`), and `PcAfter` says where each case of the switch leaves pc. All programs of
  the run are `WholeListing`, some of them stray past the end, so the run and the
  theorem each have cases the other has not.

* **`NoWordTwice`, `ListingReassembles`** (`EncodingProofs`): `Unambiguous` and `Reassembles` always, for a
  file of any length and any words, where the run has every single word but only 6
  second words and files of up to 4. `OneRow` shows from the bits that the rows of `SPEC`
  fix that a word matches one row at most (`AtMostOne`). Then, for each mask
  of the table, a word that matches a row with it is the row's fixed bits plus its
  operand fields at their places (the lemmas `Gap...` and `Free...`, `DecodedIs`);
  the assembler's places undo the unpackers, split fields, offsets and signs included
  (`Joined`, `Undone`, `Restored`); and a line's mnemonic, pointer form and numbers name the instruction
  and its operands (`InstructionIs`, `OperandsAre`, `NumbersAre`), which is the hard half, since the
  listing doubles pairs and displacements in some instructions and prints them as they are in others. `OneWordBack`, `TwoWordBack` and `TargetBack` put
  this together for one line, and `ReadInv` of `ListingProofs` says that every line of a
  listing is such a line.

* **`ArgumentsArrive`, `ResultsArrive`** (`HostCallProofs`): `ArgsArrive` always, and
  `ReturnArrives`, for every signature made of the thirteen formats, of any length, all argument
  bytes, all results and every size of SRAM, from `SignaturesAssumption`, `ArgumentsAssumption`,
  `ReturnValuesAssumption` (what signatures, bytes and results are) and `RoomAssumption`: the
  arguments on the stack fit the SRAM. (Arguments that do not would be pushed over the stack pointer itself.)
  `CallInv` says where every byte is on the way: the pushed ones in the last cells of the SRAM,
  the stack pointer right below them, the others in the registers of their argument. It rests on
  three groups of lemmas. The caller's sums define no two arguments to the same place
  (`OneHolds`, `OneCovers`). The loop of the helper, after n arguments, has counted what
  the caller's sums say and taken what is there (`OnePass`, `Unpacked`); that nothing is on
  the stack before the first argument without a register (`FirstInRegs`) is what makes the
  loop's start at the stack pointer right. And a write by way of `regsw[12]` is two bytes
  (`ReturnWords`). The inductions over the arguments are by `AllReached`, which speaks of sets of
  numbers and not of predicates, so that the provers can apply it.

* **`TablesFirstMatch`, `TablesShareSafely`** (`GeneratorProofs`), from
  `WidthAssumption`: for every list of patterns, every width up to 16 and every
  split, the tables give each word entered its first match. This alone is not
  inductive, since an entry made for one word serves others. `IInv` says
  what upper halves share: a top index stands for the set of patterns these bits
  leave possible (`TopShared`), a bottom entry is the first of the table's patterns that
  the lower bits match, whichever word brought it (`BottomShared`), each word
  has entries (`Entered`), and no set has two tables (`NoneTwice`), without
  which a word entered earlier could lose its bottom table to a second one. The step uses
  that matching is matching by halves (`MatchByHalves`). With Width = 16 and
  `SPEC` as the list this justifies `AvrDecoder`, which models `avr_decode` as
  first match.

* **`GeneratorRight`, `GeneratorTables`** (`GeneratorProofs`), from `WidthAssumption`,
  `SplitAssumption`, `ByteAssumption` and `OpListsAssumption`: `RightUnlessStale`, and
  the two above for the generator as a program, whatever the lists, edits, crashes and
  files. The inductive invariant `GenInv` says that the run's own tables and those in a
  readable `luts.pickle` are right for the list they were computed from, as are those in a
  decoder of the same list if they fit, that the tables are empty until the split is chosen,
  and that a run which has to write has tables. `CutRight` shows that tables that fit lose
  nothing by the type of their entries. `BestSplit` shows that there is a smallest
  split (from the well-foundedness of the naturals) and that it splits the word.

Only model-checked:

* all liveness: `Terminates`, `QuitsWhenHeld` and `Heals` speak of fairness, and ENABLED is
  beyond this prover;
* `OutputInOrder`: it is about one closed program, the hello script, whose states the run
  goes through to the last one. A proof would need an invariant for each of the script's
  addresses and would add only that the size of the SRAM does not matter;
* `UnpackedAsGenerated`: it is about one word at a time and the run has every word, so nothing is left
  open. A proof would have to unfold the sum over the pieces of an operand's field, which the model makes with the
  recursive `MapThenSumSet` of the community modules;
* what violation runs show: each is one counterexample.

## 6. Where code and documentation disagree

* `rom_call`: `call` of an address at or above 32k returns **Z - 32768**, not the
  address's index (`avrvm.c:422`; `avrvm.h:74` promises the index of the called
  function). `icall` is right, and avr-gcc happens to use it for calls through
  pointers like those in `script_hello.c`. If Z is below 32768 the value is
  negative and the host can take it for a return code, for -3 as a break.
* `cbi`: `cbi` ors `~(1 << bit)` to the port: it *sets* the other seven bits and leaves
  the bit alone (`avrvm.c:648`; README.md:13 promises the AVR's instruction set).
* `rom_jump`: a jump, as opposed to a call, at or above 32k executes whatever
  flash word the address wraps to (`avrvm.c:385-391`; `avrvm.h:6` says these
  addresses are the host's functions). A compiler makes such jumps of tail calls.
* `quit_press`: a press of q need not end the hello script (`hello/readme:9`). The host
  overwrites the one key register (`host_hello.c:109`) and the script looks once
  per turn, between sleeps of 250 ms. Its two volatile reads
  (`script_hello.c:46`) can also differ: q during the one and Q during the other
  counts as neither, which is why `QuitsWhenHeld` holds each key by itself.

## 7. Not modelled

* **Debug output** (`DBG`), printing, file access. `testvm.c`'s `fetch_op` exits
  the process when the file is shorter than the address; the model's flash has a
  word at every address below `FlashWords`.
* **The text of the generated files** and the layout of the listing. Instructions are
  identified by their names, so the names table of `avr_get_instr_name_by_id`, the
  enum and the table of unpackers, which the templates all render from one list in one order,
  are that list.
* **Several machines at a time** (README.md:22 of the repository). Machines share nothing but what a host's callbacks share;
  the callbacks get no context argument, so hosts with one SRAM per machine have to switch it
  themselves, which no code here does.
* **Test programs, recordings and build files**: no behaviour of the program.

The integer model: TLC's integers have 32 bits and it reports an overflow as an
error. All arithmetic stays below; `WideArith`'s `ProductMod16` reduces as it
goes for this reason.

## 8. Plan

Done, in this order: bits, decoder, arithmetic, machine, host loop; the instruction
set and the refinement; calls, listing, wide arithmetic, loops; the proofs of the
arithmetic and of type correctness; the tables with their proofs; the call
convention and the hello host; the whole listing, the whole hello script, the
unpackers and the generator with its files and proofs. Every part with behaviour of its own
is modelled.

The proofs of the refinement, of the calls and of the call convention came next, then those of
compiled arithmetic and loops and of the listing, and last the proof that the listing can be
assembled again. Every safety property of a passing run is now a theorem but for
`OutputInOrder` and `UnpackedAsGenerated`, for the reasons at the end of section 5. What
more could be done is modelling what section 7 leaves out.
