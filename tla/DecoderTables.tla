--------------------------- MODULE DecoderTables ---------------------------
(***************************************************************************)
(* How the generator makes the decoder's two tables (gen_luts), for any    *)
(* list of bit patterns, any width of a word and any split of the word.    *)
(*                                                                         *)
(* The upper nmsbits bits of a word index the top table.  Upper halves     *)
(* that match the same patterns share an entry there, the index of a       *)
(* bottom table, which the lower bits index.  A bottom table is filled     *)
(* with the first value that any word brings (setdefault), so it is right  *)
(* for all the upper halves that share it only if what they share decides  *)
(* the outcome.                                                            *)
(*                                                                         *)
(* A word or a part of it is the set of its bits that are one.  A pattern  *)
(* is the set of bits that are not operands and those of them that are     *)
(* one.                                                                    *)
(***************************************************************************)
EXTENDS AvrBits, Sequences

CONSTANTS
  Width,     \* bits of an instruction word; 16 in the generator
  OpLists    \* the pattern lists considered

Positions == 0 .. Width - 1

Pattern == { p \in [fixed : SUBSET Positions, ones : SUBSET Positions] :
               p.ones \subseteq p.fixed }

ASSUME WidthAssumption   == Width \in 1 .. 16
ASSUME OpListsAssumption == OpLists \subseteq Seq(Pattern)

VARIABLES
  oplist,    \* the patterns, numbered from 1
  nmsbits,   \* how many bits index the top table
  i,         \* the next word to enter
  hashset,   \* the sets of patterns met so far: an index is a bottom table's
  top_lut,   \* upper bits to index
  bot_lut    \* index to lower bits to pattern number

tables == << oplist, nmsbits, i, hashset, top_lut, bot_lut >>

Words    == Pow2[Width + 1]
Ones(w)  == { b \in Positions : Bit(w, b) = 1 }
TopBits  == (Width - nmsbits) .. (Width - 1)
Upper(w) == Ones(w) \cap TopBits
Lower(w) == Ones(w) \ TopBits

is_op_match_UnknownDiffers(op, ones, known) == op.fixed \cap known \cap ones = op.ones

(* The pattern's fixed bits, as far as they are known, are the word's.     *)
is_op_match(op, ones, known) == op.fixed \cap known \cap ones = op.ones \cap known

top_matches_FirstOnly(w) ==
  LET all == { k \in DOMAIN oplist : is_op_match(oplist[k], Ones(w), TopBits) }
  IN  { k \in all : \A j \in all : k <= j }

(* The patterns that the upper half of a word leaves possible, and those   *)
(* that the word matches.                                                  *)
top_matches(w)  == { k \in DOMAIN oplist : is_op_match(oplist[k], Ones(w), TopBits) }
full_matches(w) == { k \in DOMAIN oplist : is_op_match(oplist[k], Ones(w), Positions) }

(* The first of a set of pattern numbers; 0, undefined, where there is     *)
(* none.                                                                   *)
First(s) == IF s = {} THEN 0 ELSE CHOOSE k \in s : \A j \in s : k <= j

Put(f, x, v)        == [y \in DOMAIN f \cup {x} |-> IF y = x THEN v ELSE f[y]]
SetDefault(f, x, v) == IF x \in DOMAIN f THEN f ELSE Put(f, x, v)

Init == /\ oplist \in OpLists
        /\ nmsbits \in 1 .. Width - 1
        /\ i = 0
        /\ hashset = << >>
        /\ top_lut = << >>
        /\ bot_lut = << >>

(* One turn of the loop: the word enters both tables under index h.        *)
Enter(h) ==
  /\ hashset' = IF h = Len(hashset) + 1 THEN Append(hashset, top_matches(i)) ELSE hashset
  /\ top_lut' = Put(top_lut, Upper(i), h)
  /\ bot_lut' = LET table == IF h \in DOMAIN bot_lut THEN bot_lut[h] ELSE << >>
                IN  Put(bot_lut, h, SetDefault(table, Lower(i), First(full_matches(i))))

gen_luts == /\ i < Words
            /\ \/ \E h \in DOMAIN hashset : hashset[h] = top_matches(i) /\ Enter(h)
               \/ /\ \A h \in DOMAIN hashset : hashset[h] # top_matches(i)
                  /\ Enter(Len(hashset) + 1)
            /\ i' = i + 1
            /\ UNCHANGED << oplist, nmsbits >>

Finished == /\ i = Words
            /\ UNCHANGED tables

Next == gen_luts \/ Finished

Spec == Init /\ [][Next]_tables

(* avr_decode in the generated code.                                       *)
lookup(w) == bot_lut[top_lut[Upper(w)]][Lower(w)]

-----------------------------------------------------------------------------
(* A word is found in the tables as soon as it is entered and however many *)
(* are entered after it, under the number of the first pattern it matches. *)
(* Sharing a bottom table never gives it another word's number.            *)
LookupIsFirstMatch == \A w \in 0 .. i - 1 : lookup(w) = First(full_matches(w))

(* Why: at every moment, a top index names the patterns that its upper     *)
(* bits leave possible, whichever words brought them; a bottom entry is    *)
(* the first of its table's patterns that its lower bits match, which no   *)
(* longer depends on the word that brought it; every word entered so far   *)
(* has its two entries; and no set of patterns has two tables.             *)
TopShared ==
  \A u \in DOMAIN top_lut :
     /\ top_lut[u] \in DOMAIN hashset
     /\ hashset[top_lut[u]] =
          { k \in DOMAIN oplist : is_op_match(oplist[k], u, TopBits) }

BottomShared ==
  /\ DOMAIN bot_lut \subseteq DOMAIN hashset
  /\ \A h \in DOMAIN bot_lut : \A x \in DOMAIN bot_lut[h] :
        bot_lut[h][x] =
          First({ k \in hashset[h] : is_op_match(oplist[k], x, Positions \ TopBits) })

Entered ==
  \A w \in 0 .. i - 1 :
     /\ Upper(w) \in DOMAIN top_lut
     /\ top_lut[Upper(w)] \in DOMAIN bot_lut
     /\ Lower(w) \in DOMAIN bot_lut[top_lut[Upper(w)]]

NoneTwice == \A g, h \in DOMAIN hashset : hashset[g] = hashset[h] => g = h

SharedSafely == TopShared /\ BottomShared /\ Entered /\ NoneTwice

=============================================================================
