------------------------------ MODULE Generator ------------------------------
(***************************************************************************)
(* The decoder generator as a program: main of gen_op_decoder.py, which    *)
(* keeps the tables it has computed in the file luts.pickle and writes the *)
(* decoder, a C file and its header.                                       *)
(*                                                                         *)
(* While it runs the developer may edit the list of patterns, between runs *)
(* he may delete luts.pickle, and a run may end at any point, by an        *)
(* exception or by force.  A file that is being written is cut short until *)
(* it is closed.                                                           *)
(*                                                                         *)
(* Definitions with a capitalised suffix are slips, see AvrALU.            *)
(***************************************************************************)
EXTENDS DecoderTables, FiniteSets

CONSTANTS
  MaxEdits,    \* how often the list is edited
  MaxCrashes,  \* how many runs do not reach their end
  ByteValues   \* values of an entry of the C tables; 256, they are uint8_t

ASSUME EnvironmentAssumption == MaxEdits \in Nat /\ MaxCrashes \in Nat
ASSUME ByteAssumption        == ByteValues \in Nat \ {0}
ASSUME SplitAssumption       == Width >= 4

VARIABLES
  SPEC,      \* the list of patterns in the script
  at,        \* what the run does next; "idle" and "done" between runs
  luts,      \* the tables the run works with, once it has them
  pickle,    \* the file luts.pickle
  c_out,     \* the file avr_op_decoder.c
  h_out,     \* the file avr_op_decoder.h
  edits, crashes

files  == << pickle, c_out, h_out >>
genvars == << tables, SPEC, at, luts, files, edits, crashes >>

(* A file is absent, cut short or whole, and a whole one has contents:     *)
(* luts.pickle the split and the tables, with the list they were computed  *)
(* from, which the file itself does not name.                              *)
Absent   == [is |-> "absent"]
Cut      == [is |-> "cut", of |-> << >>, nmsbits |-> 2, lut0 |-> << >>, lut1 |-> << >>]

-----------------------------------------------------------------------------
(* find_best_nmsbits: the first of the splits with the smallest tables.    *)

Splits == 2 .. Width - 2

(* How many different sets of patterns the upper n bits leave possible.    *)
research_hashing(n) ==
  LET top == (Width - n) .. (Width - 1)
  IN  Cardinality({ { k \in DOMAIN oplist : is_op_match(oplist[k], u, top) } :
                      u \in SUBSET top })

total_size(n) ==
  LET entries == research_hashing(n)
  IN  Pow2[n + 1] * (IF entries < ByteValues THEN 1 ELSE 2) + Pow2[Width - n + 1] * entries

find_best_nmsbits ==
  CHOOSE n \in Splits : \A m \in Splits :
    total_size(n) < total_size(m) \/ (total_size(n) = total_size(m) /\ n <= m)

-----------------------------------------------------------------------------
GenInit == /\ SPEC \in OpLists
           /\ oplist = SPEC /\ nmsbits = 2 /\ i = 0
           /\ hashset = << >> /\ top_lut = << >> /\ bot_lut = << >>
           /\ at = "idle"
           /\ luts = Cut
           /\ pickle = Absent /\ c_out = Absent /\ h_out = Absent
           /\ edits = 0 /\ crashes = 0

Environment == << SPEC, edits, crashes >>

Between == at \in {"idle", "done"}

(* The script is loaded, and with it its list.                             *)
Start == /\ Between
         /\ oplist' = SPEC
         /\ i' = 0 /\ hashset' = << >> /\ top_lut' = << >> /\ bot_lut' = << >>
         /\ at' = "load"
         /\ luts' = Cut
         /\ UNCHANGED << nmsbits, files, Environment >>

Readable_IfPresent(f) == f.is # "absent"

(* Opening or loading fails with an exception otherwise.                   *)
Readable(f) == f.is = "whole"

LoadPickle == /\ at = "load"
              /\ IF Readable(pickle)
                 THEN luts' = pickle /\ at' = "render c"
                 ELSE at' = "choose" /\ UNCHANGED luts
              /\ UNCHANGED << tables, files, Environment >>

Choose == /\ at = "choose"
          /\ nmsbits' = find_best_nmsbits
          /\ at' = "fill"
          /\ UNCHANGED << oplist, i, hashset, top_lut, bot_lut, luts, files, Environment >>

Fill == /\ at = "fill"
        /\ gen_luts
        /\ UNCHANGED << SPEC, at, luts, files, edits, crashes >>

(* open with 'w' empties the file; what is dumped waits in its buffer.     *)
OpenPickle == /\ at = "fill" /\ i = Words
              /\ pickle' = Cut
              /\ luts' = [is |-> "whole", of |-> oplist, nmsbits |-> nmsbits,
                          lut0 |-> top_lut, lut1 |-> bot_lut]
              /\ at' = "dump"
              /\ UNCHANGED << tables, c_out, h_out, Environment >>

Dump == /\ at = "dump"
        /\ at' = "render c"
        /\ UNCHANGED << tables, luts, files, Environment >>

(* The tables as the compiler takes them: entries are cut to their type.   *)
(* Bottom tables count from 0 there, patterns from 1.                      *)
CutTop(lut0)    == [u \in DOMAIN lut0 |-> ((lut0[u] - 1) % ByteValues) + 1]
CutBottom(lut1) ==
  [h \in DOMAIN lut1 |-> [x \in DOMAIN lut1[h] |-> lut1[h][x] % ByteValues]]

(* The decoder's patterns and names are those of the list, its tables are  *)
(* those that were loaded or computed.                                     *)
RenderC == /\ at = "render c"
           /\ c_out' = Cut
           /\ at' = "write c"
           /\ UNCHANGED << tables, luts, pickle, h_out, Environment >>

WriteC == /\ at = "write c"
          /\ c_out' = [is |-> "whole", oplist |-> oplist, of |-> luts.of,
                       nmsbits |-> luts.nmsbits,
                       lut0 |-> CutTop(luts.lut0), lut1 |-> CutBottom(luts.lut1)]
          /\ at' = "render h"
          /\ UNCHANGED << tables, luts, pickle, h_out, Environment >>

RenderH == /\ at = "render h"
           /\ h_out' = Cut
           /\ at' = "write h"
           /\ UNCHANGED << tables, luts, pickle, c_out, Environment >>

WriteH == /\ at = "write h"
          /\ h_out' = [is |-> "whole", oplist |-> oplist]
          /\ at' = "exit"
          /\ UNCHANGED << tables, luts, pickle, c_out, Environment >>

(* main returns and its file is closed.                                    *)
Exit == /\ at = "exit"
        /\ pickle' = IF pickle = Cut THEN luts ELSE pickle
        /\ at' = "done"
        /\ UNCHANGED << tables, luts, c_out, h_out, Environment >>

main == LoadPickle \/ Choose \/ Fill \/ OpenPickle \/ Dump \/ RenderC \/ WriteC
        \/ RenderH \/ WriteH \/ Exit

-----------------------------------------------------------------------------
(* The run ends before its time.  An exception still closes luts.pickle,   *)
(* so that what was dumped reaches it; force does not.                     *)
Dumped == at \in {"render c", "write c", "render h", "write h", "exit"}

Crash == /\ ~Between /\ crashes < MaxCrashes
         /\ \/ UNCHANGED pickle
            \/ pickle = Cut /\ Dumped /\ pickle' = luts
         /\ at' = "idle"
         /\ crashes' = crashes + 1
         /\ UNCHANGED << tables, SPEC, luts, c_out, h_out, edits >>

(* A row is dropped, as REMOVE_MNEMOS does, or two change places.          *)
Edit == /\ edits < MaxEdits
        /\ \E k \in DOMAIN SPEC :
             \/ SPEC' = [j \in 1 .. Len(SPEC) - 1 |-> SPEC[IF j < k THEN j ELSE j + 1]]
             \/ k > 1 /\ SPEC' = [SPEC EXCEPT ![k] = SPEC[k - 1], ![k - 1] = SPEC[k]]
        /\ edits' = edits + 1
        /\ UNCHANGED << tables, at, luts, files, crashes >>

DeletePickle == /\ Between /\ pickle.is # "absent"
                /\ pickle' = Absent
                /\ UNCHANGED << tables, at, luts, c_out, h_out, Environment >>

GenNext == Start \/ main \/ Crash \/ Edit \/ DeletePickle

(* The steps of main and Start, by what becomes of at and i alone: with    *)
(* these, fairness is cheap to check.                                      *)
GoesOn == /\ ~Between
          /\ \/ /\ at' \in {"render c", "choose", "fill", "dump", "write c", "render h",
                            "write h", "exit", "done"}
                /\ i' = i
             \/ at' = at /\ i' = i + 1
Starts == Between /\ at' = "load"

(* A run that was started goes on, and the developer starts another.       *)
GenSpec == GenInit /\ [][GenNext]_genvars /\ WF_<< at, i >>(GoesOn) /\ WF_at(Starts)

-----------------------------------------------------------------------------
(* Tables that look up, for every word, the first match in a list.         *)
RightFor(t, list) ==
  \A w \in 0 .. Words - 1 :
    LET top   == Ones(w) \cap ((Width - t.nmsbits) .. (Width - 1))
        table == t.lut0[top]
    IN  /\ top \in DOMAIN t.lut0
        /\ table \in DOMAIN t.lut1
        /\ Ones(w) \ top \in DOMAIN t.lut1[table]
        /\ t.lut1[table][Ones(w) \ top]
             = First({ k \in DOMAIN list : is_op_match(list[k], Ones(w), Positions) })

(* avr_decode of a generated file is right for the list it was made from.  *)
Right(c) == RightFor(c, c.oplist)

(* The numbers of its bottom tables and of its patterns fit their type.    *)
Fits(c) == /\ \A h \in DOMAIN c.lut1 : h <= ByteValues
           /\ Len(c.oplist) < ByteValues

(* Whatever ended in between, was reloaded or computed again: a decoder    *)
(* that was written is right for the list it was written from, unless its  *)
(* tables were computed from another list or have more entries than a byte *)
(* can number.                                                             *)
RightUnlessStale ==
  c_out.is = "whole" => c_out.of # c_out.oplist \/ ~Fits(c_out) \/ Right(c_out)

(* Between two runs, with the last edit made and luts.pickle deleted or    *)
(* cut short, running the generator until it ends gives the decoder of the *)
(* list, and a header that numbers the instructions alike.                 *)
Settled == Between /\ edits = MaxEdits /\ pickle.is # "whole"

UpToDate == /\ at = "done"
            /\ c_out.is = "whole" /\ h_out.is = "whole"
            /\ c_out.oplist = SPEC /\ h_out.oplist = SPEC
            /\ Fits(c_out) => Right(c_out)

Heals == Settled ~> UpToDate

=============================================================================
