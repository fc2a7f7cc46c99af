--------------------------- MODULE GeneratorProofs ---------------------------
(***************************************************************************)
(* The generator writes no wrong decoder, for every list of patterns,      *)
(* every width of a word, any number of edits and interrupted runs: what   *)
(* it loads, computes, half writes and takes over from earlier runs never  *)
(* leaves a decoder that is wrong for the list of its tables.  The tables  *)
(* come first: they look up the first pattern that a word matches.         *)
(***************************************************************************)
EXTENDS Generator, FiniteSetTheorems, WellFoundedInduction, TLAPS

(* Of the tables: SharedSafely, and that the index of the next             *)
(* word and the sequence of pattern sets are what they should be.          *)
IInv == /\ i \in Nat
        /\ hashset \in Seq(SUBSET (DOMAIN oplist))
        /\ SharedSafely

-----------------------------------------------------------------------------
(* A word matches a pattern if its upper half and its lower half do.       *)
LEMMA MatchByHalves ==
  ASSUME NEW op, NEW w, TopBits \subseteq Positions
  PROVE  is_op_match(op, Ones(w), Positions) <=>
           /\ is_op_match(op, Upper(w), TopBits)
           /\ is_op_match(op, Lower(w), Positions \ TopBits)
<1> DEFINE fixed == op.fixed
           ones  == op.ones
           known == Positions
           top   == TopBits
           word  == Ones(w)
<1>1. /\ word \subseteq known
      /\ top \subseteq known
  BY DEF Ones
<1> SUFFICES (fixed \cap known \cap word = ones \cap known) <=>
               /\ fixed \cap top \cap (word \cap top) = ones \cap top
               /\ fixed \cap (known \ top) \cap (word \ top) = ones \cap (known \ top)
  BY DEF is_op_match, Upper, Lower
<1> HIDE DEF fixed, ones, known, top, word
<1> QED BY <1>1, Zenon

(* For the upper half alone, the word or its upper part make no difference.*)
LEMMA MatchUpper ==
  ASSUME NEW op, NEW w
  PROVE  is_op_match(op, Ones(w), TopBits) <=> is_op_match(op, Upper(w), TopBits)
BY Zenon DEF is_op_match, Upper

-----------------------------------------------------------------------------
(* Before the first word there is nothing in the tables to be wrong.       *)
NothingEntered == i = 0 /\ hashset = << >> /\ top_lut = << >> /\ bot_lut = << >>

LEMMA NothingEnteredInv == NothingEntered => IInv
<1> SUFFICES ASSUME NothingEntered PROVE IInv
  OBVIOUS
<1>1. DOMAIN << >> = {}
  OBVIOUS
<1>2. i \in Nat /\ 0 .. i - 1 = {}
  BY DEF NothingEntered
<1>3. hashset \in Seq(SUBSET (DOMAIN oplist))
  BY DEF NothingEntered
<1>4. DOMAIN top_lut = {} /\ DOMAIN bot_lut = {}
  BY <1>1 DEF NothingEntered
<1>5. DOMAIN hashset = {}
  BY <1>1 DEF NothingEntered
<1> QED
  BY <1>2, <1>3, <1>4, <1>5
     DEF IInv, SharedSafely, TopShared, BottomShared, Entered, NoneTwice

(* Entering a word under an index that belongs to its set of patterns, old *)
(* or new, keeps what the tables share.                                    *)
LEMMA EnterInv ==
  ASSUME IInv, NEW h, Enter(h), i' = i + 1, UNCHANGED << oplist, nmsbits >>,
         nmsbits \in 1 .. Width - 1,
         \/ h \in DOMAIN hashset /\ hashset[h] = top_matches(i)
         \/ /\ h = Len(hashset) + 1
            /\ \A j \in DOMAIN hashset : hashset[j] # top_matches(i)
  PROVE  IInv'
<1> DEFINE sets == hashset'
<1>1. /\ hashset' \in Seq(SUBSET (DOMAIN oplist))
      /\ DOMAIN hashset \subseteq DOMAIN hashset'
      /\ h \in DOMAIN hashset'
      /\ hashset'[h] = top_matches(i)
      /\ \A j \in DOMAIN hashset : hashset'[j] = hashset[j]
  <2>1. top_matches(i) \in SUBSET (DOMAIN oplist)
    BY DEF top_matches
  <2>2. CASE h \in DOMAIN hashset /\ hashset[h] = top_matches(i)
    BY <2>2 DEF IInv, Enter
  <2>3. CASE h = Len(hashset) + 1
    BY <2>1, <2>3 DEF IInv, Enter
  <2> QED BY <2>2, <2>3
<1>2. /\ DOMAIN top_lut' = DOMAIN top_lut \cup {Upper(i)}
      /\ top_lut'[Upper(i)] = h
      /\ \A u \in DOMAIN top_lut : u # Upper(i) => top_lut'[u] = top_lut[u]
  BY DEF Enter, Put
<1>3. top_matches(i) = { k \in DOMAIN oplist : is_op_match(oplist[k], Upper(i), TopBits) }
  BY MatchUpper DEF top_matches
<1>4. TopShared'
  <2>1. TopBits' = TopBits /\ oplist' = oplist
    BY DEF TopBits
  <2>2. TopShared
    BY DEF IInv, SharedSafely
  <2> SUFFICES ASSUME NEW u \in DOMAIN top_lut'
               PROVE  /\ top_lut'[u] \in DOMAIN hashset'
                      /\ hashset'[top_lut'[u]] =
                           { k \in DOMAIN oplist : is_op_match(oplist[k], u, TopBits) }
    BY <2>1 DEF TopShared, is_op_match
  <2>3. CASE u = Upper(i)
    BY <1>1, <1>2, <1>3, <2>3
  <2>4. CASE u # Upper(i)
    BY <1>1, <1>2, <2>2, <2>4 DEF TopShared
  <2> QED BY <2>3, <2>4
<1>5. full_matches(i) =
        { k \in hashset'[h] : is_op_match(oplist[k], Lower(i), Positions \ TopBits) }
  <2>1. TopBits \subseteq Positions
    BY WidthAssumption DEF TopBits, Positions
  <2>2. \A op : is_op_match(op, Ones(i), Positions) <=>
                  /\ is_op_match(op, Upper(i), TopBits)
                  /\ is_op_match(op, Lower(i), Positions \ TopBits)
    <3> TAKE op
    <3> QED
      BY <2>1, MatchByHalves
  <2>3. ASSUME NEW k PROVE k \in full_matches(i) <=>
          k \in top_matches(i) /\ is_op_match(oplist[k], Lower(i), Positions \ TopBits)
    BY <1>3, <2>2 DEF full_matches
  <2> QED BY <1>1, <2>3
<1> DEFINE old == IF h \in DOMAIN bot_lut THEN bot_lut[h] ELSE << >>
           new == SetDefault(old, Lower(i), First(full_matches(i)))
<1>6. /\ DOMAIN bot_lut' = DOMAIN bot_lut \cup {h}
      /\ bot_lut'[h] = new
      /\ \A j \in DOMAIN bot_lut : j # h => bot_lut'[j] = bot_lut[j]
  BY DEF Enter, Put
<1>7. /\ DOMAIN new = DOMAIN old \cup {Lower(i)}
      /\ \A x \in DOMAIN old : new[x] = old[x]
      /\ Lower(i) \notin DOMAIN old => new[Lower(i)] = First(full_matches(i))
  BY DEF SetDefault, Put
<1> HIDE DEF new
<1>8. BottomShared'
  <2>1. TopBits' = TopBits /\ Positions' = Positions /\ oplist' = oplist
    BY DEF TopBits, Positions
  <2>2. BottomShared
    BY DEF IInv, SharedSafely
  <2>3. DOMAIN bot_lut' \subseteq DOMAIN hashset'
    BY <1>1, <1>6, <2>2 DEF BottomShared
  <2> SUFFICES ASSUME NEW j \in DOMAIN bot_lut', NEW x \in DOMAIN bot_lut'[j]
               PROVE  bot_lut'[j][x] =
                        First({ k \in hashset'[j] :
                                  is_op_match(oplist[k], x, Positions \ TopBits) })
    BY <2>1, <2>3 DEF BottomShared, First, is_op_match
  <2>4. CASE j # h
    <3>1. /\ j \in DOMAIN bot_lut
          /\ bot_lut'[j] = bot_lut[j]
          /\ hashset'[j] = hashset[j]
      BY <1>1, <1>6, <2>2, <2>4 DEF BottomShared
    <3> QED BY <2>2, <3>1 DEF BottomShared
  <2>5. CASE j = h /\ x \in DOMAIN old
    <3>1. /\ h \in DOMAIN bot_lut
          /\ old = bot_lut[h]
      BY <2>5
    <3>2. hashset'[h] = hashset[h]
      BY <1>1, <2>2, <3>1 DEF BottomShared
    <3>3. bot_lut'[j][x] = bot_lut[h][x]
      BY <1>6, <1>7, <2>5, <3>1
    <3> QED BY <2>2, <2>5, <3>1, <3>2, <3>3 DEF BottomShared
  <2>6. CASE j = h /\ x \notin DOMAIN old
    <3>1. x = Lower(i)
      BY <1>6, <1>7, <2>6
    <3>2. bot_lut'[j][x] = First(full_matches(i))
      BY <1>6, <1>7, <2>6, <3>1
    <3> QED BY <1>5, <2>6, <3>1, <3>2
  <2> QED BY <2>4, <2>5, <2>6
<1>9. Entered'
  <2>1. \A w : Upper(w)' = Upper(w) /\ Lower(w)' = Lower(w)
    BY DEF Upper, Lower, TopBits, Ones, Positions
  <2>2. Entered /\ TopShared
    BY DEF IInv, SharedSafely
  <2> SUFFICES ASSUME NEW w \in 0 .. i
               PROVE  /\ Upper(w) \in DOMAIN top_lut'
                      /\ top_lut'[Upper(w)] \in DOMAIN bot_lut'
                      /\ Lower(w) \in DOMAIN bot_lut'[top_lut'[Upper(w)]]
    BY <2>1 DEF Entered, IInv
  <2>3. CASE w = i
    BY <1>2, <1>6, <1>7, <2>3
  <2>4. CASE w # i
    <3>1. /\ Upper(w) \in DOMAIN top_lut
          /\ top_lut[Upper(w)] \in DOMAIN bot_lut
          /\ Lower(w) \in DOMAIN bot_lut[top_lut[Upper(w)]]
      BY <2>2, <2>4 DEF Entered, IInv
    <3>2. CASE Upper(w) # Upper(i)
      <4>1. top_lut'[Upper(w)] = top_lut[Upper(w)]
        BY <1>2, <3>1, <3>2
      <4>2. \A g \in DOMAIN bot_lut : DOMAIN bot_lut[g] \subseteq DOMAIN bot_lut'[g]
        BY <1>6, <1>7
      <4> QED BY <1>2, <1>6, <3>1, <4>1, <4>2
    <3>3. CASE Upper(w) = Upper(i)
      <4>1. top_lut[Upper(i)] = h
        <5>1. /\ top_lut[Upper(i)] \in DOMAIN hashset
              /\ hashset[top_lut[Upper(i)]] = top_matches(i)
          BY <1>3, <2>2, <3>1, <3>3 DEF TopShared
        <5> QED BY <5>1 DEF IInv, SharedSafely, NoneTwice
      <4> QED BY <1>2, <1>6, <1>7, <3>1, <3>3, <4>1
    <3> QED BY <3>2, <3>3
  <2> QED BY <2>3, <2>4
<1>10. NoneTwice'
  <2>1. NoneTwice
    BY DEF IInv, SharedSafely
  <2>2. CASE h \in DOMAIN hashset
    BY <2>1, <2>2 DEF Enter, IInv, NoneTwice
  <2>3. CASE /\ h = Len(hashset) + 1
             /\ \A j \in DOMAIN hashset : hashset[j] # top_matches(i)
    <3>1. DOMAIN hashset' = DOMAIN hashset \cup {h}
      BY <2>3 DEF Enter, IInv
    <3> QED BY <1>1, <2>1, <2>3, <3>1 DEF NoneTwice
  <2> QED BY <2>2, <2>3
<1>11. i' \in Nat /\ oplist' = oplist
  BY DEF IInv
<1> QED BY <1>1, <1>4, <1>8, <1>9, <1>10, <1>11 DEF IInv, SharedSafely

-----------------------------------------------------------------------------
(* The split is one of the word, always.                                   *)
Split == nmsbits \in 1 .. Width - 1

(* One turn of the loop keeps the invariant.                               *)
LEMMA GenLutsInv == Split /\ IInv /\ gen_luts => (Split /\ IInv)'
<1> SUFFICES ASSUME Split, IInv, gen_luts PROVE (Split /\ IInv)'
  OBVIOUS
<1>1. i' = i + 1 /\ UNCHANGED << oplist, nmsbits >>
  BY DEF gen_luts
<1>2. CASE \E h \in DOMAIN hashset : hashset[h] = top_matches(i) /\ Enter(h)
  <2>1. PICK h \in DOMAIN hashset : hashset[h] = top_matches(i) /\ Enter(h)
    BY <1>2
  <2> QED BY <1>1, <2>1, EnterInv DEF Split
<1>3. CASE /\ \A h \in DOMAIN hashset : hashset[h] # top_matches(i)
           /\ Enter(Len(hashset) + 1)
  <2>1. PICK h : h = Len(hashset) + 1
    OBVIOUS
  <2>2. Enter(h)
    BY <1>3, <2>1
  <2> QED BY <1>1, <1>3, <2>1, <2>2, EnterInv DEF Split
<1> QED BY <1>2, <1>3 DEF gen_luts

(* It speaks of the tables only.                                           *)
LEMMA TablesUnchanged == Split /\ IInv /\ UNCHANGED tables => (Split /\ IInv)'
<1> SUFFICES ASSUME Split, IInv, UNCHANGED tables PROVE (Split /\ IInv)'
  OBVIOUS
<1> USE DEF tables
<1>1. TopShared' /\ BottomShared'
  BY DEF IInv, SharedSafely, TopShared, BottomShared, TopBits, is_op_match, First
<1>2. Entered'
  BY DEF IInv, SharedSafely, Entered, Upper, Lower, TopBits
<1>3. NoneTwice' /\ Split' /\ i' \in Nat /\ hashset' \in Seq(SUBSET (DOMAIN oplist'))
  BY DEF IInv, SharedSafely, NoneTwice, Split
<1> QED BY <1>1, <1>2, <1>3 DEF IInv, SharedSafely

THEOREM TablesInv == Spec => [](Split /\ IInv)
<1>1. Init => Split /\ IInv
  BY NothingEnteredInv DEF Init, Split, NothingEntered
<1>2. Split /\ IInv /\ [Next]_tables => (Split /\ IInv)'
  BY GenLutsInv, TablesUnchanged DEF Next, Finished
<1> QED BY <1>1, <1>2, PTL DEF Spec

(* The invariant that the run checks, for all lists, widths and splits:    *)
(* sharing bottom tables between upper halves is safe at every word.       *)
THEOREM TablesShareSafely == Spec => []SharedSafely
BY TablesInv, PTL DEF IInv

(* Whatever is entered is found, once the invariant holds.                 *)
LEMMA LookupInv == Split /\ IInv => LookupIsFirstMatch
<1> SUFFICES ASSUME Split, IInv, NEW w \in 0 .. i - 1
             PROVE  lookup(w) = First(full_matches(w))
  BY DEF LookupIsFirstMatch
<1> DEFINE h == top_lut[Upper(w)]
<1>1. /\ Upper(w) \in DOMAIN top_lut
      /\ h \in DOMAIN bot_lut
      /\ Lower(w) \in DOMAIN bot_lut[h]
  BY DEF IInv, SharedSafely, Entered
<1>2. hashset[h] = { k \in DOMAIN oplist : is_op_match(oplist[k], Upper(w), TopBits) }
  BY <1>1 DEF IInv, SharedSafely, TopShared
<1>3. bot_lut[h][Lower(w)] =
        First({ k \in hashset[h] : is_op_match(oplist[k], Lower(w), Positions \ TopBits) })
  BY <1>1 DEF IInv, SharedSafely, BottomShared
<1>4. \A op : is_op_match(op, Ones(w), Positions) <=>
                /\ is_op_match(op, Upper(w), TopBits)
                /\ is_op_match(op, Lower(w), Positions \ TopBits)
  <2>1. TopBits \subseteq Positions
    BY WidthAssumption DEF TopBits, Positions, Split
  <2> QED BY <2>1, MatchByHalves
<1>5. full_matches(w) =
        { k \in hashset[h] : is_op_match(oplist[k], Lower(w), Positions \ TopBits) }
  BY <1>2, <1>4 DEF full_matches
<1> QED BY <1>3, <1>5 DEF lookup

(* Every word entered is looked up as the first pattern that it matches.   *)
THEOREM TablesFirstMatch == Spec => []LookupIsFirstMatch
BY TablesInv, LookupInv, PTL

-----------------------------------------------------------------------------
(* The choice of the split.                                                *)

LEMMA LeastNat ==
  ASSUME NEW T, T \subseteq Nat, T # {}
  PROVE  \E x \in T : \A y \in T : x <= y
<1>1. PICK x \in T : \A y \in T : ~ (<< y, x >> \in OpToRel(<, Nat))
  BY NatLessThanWellFounded, WFMin
<1>2. \A y \in T : ~ (y < x)
  BY <1>1 DEF OpToRel
<1> QED BY <1>2

LEMMA TotalSizeNat == \A n \in Splits : total_size(n) \in Nat
<1> SUFFICES ASSUME NEW n \in Splits PROVE total_size(n) \in Nat
  OBVIOUS
<1> DEFINE top == (Width - n) .. (Width - 1)
           left(u) == { k \in DOMAIN oplist : is_op_match(oplist[k], u, top) }
           f == [u \in SUBSET top |-> left(u)]
<1>1. IsFiniteSet(SUBSET top)
  <2>1. Width - n \in Int /\ Width - 1 \in Int
    BY WidthAssumption DEF Splits
  <2> QED BY <2>1, FS_Interval, FS_SUBSET
<1>2. IsFiniteSet({ left(u) : u \in SUBSET top })
  <2>1. f \in Surjection(SUBSET top, { left(u) : u \in SUBSET top })
    BY DEF Surjection
  <2> HIDE DEF f, left, top
  <2> QED BY <1>1, <2>1, FS_Surjection
<1>3. research_hashing(n) = Cardinality({ left(u) : u \in SUBSET top })
  BY DEF research_hashing
<1>4. research_hashing(n) \in Nat
  BY <1>2, <1>3, FS_CardinalityType
<1>5. n + 1 \in 1 .. 17 /\ Width - n + 1 \in 1 .. 17
  BY WidthAssumption DEF Splits
<1>6. \A k \in 1 .. 17 : Pow2[k] \in Nat
  BY DEF Pow2
<1> HIDE DEF top, left, f
<1> DEFINE a == Pow2[n + 1]
           b == Pow2[Width - n + 1]
           c == research_hashing(n)
<1>7. a \in Nat /\ b \in Nat /\ c \in Nat
  BY <1>4, <1>5, <1>6
<1>8. total_size(n) = a * (IF c < ByteValues THEN 1 ELSE 2) + b * c
  BY DEF total_size
<1> HIDE DEF a, b, c
<1> QED BY <1>7, <1>8, ByteAssumption

(* There is a first of the smallest, and it splits the word.               *)
LEMMA BestSplit == find_best_nmsbits \in 1 .. Width - 1
<1> DEFINE sizes == { total_size(n) : n \in Splits }
<1>1. Splits \subseteq 1 .. Width - 1 /\ Splits # {} /\ Splits \subseteq Nat
  <2>1. 2 \in Splits
    BY WidthAssumption, SplitAssumption DEF Splits
  <2>2. \A n \in Splits : n \in 1 .. Width - 1 /\ n \in Nat
    BY WidthAssumption DEF Splits
  <2> QED BY <2>1, <2>2
<1>2. PICK s \in sizes : \A t \in sizes : s <= t
  BY <1>1, TotalSizeNat, LeastNat
<1> DEFINE best == { n \in Splits : total_size(n) = s }
<1>3. PICK m \in best : \A n \in best : m <= n
  <2>1. best \subseteq Nat /\ best # {}
    BY <1>1
  <2> HIDE DEF best
  <2> QED BY <2>1, LeastNat
<1>4. \A n \in Splits :
        total_size(m) < total_size(n) \/ (total_size(m) = total_size(n) /\ m <= n)
  <2> SUFFICES ASSUME NEW n \in Splits
               PROVE  total_size(m) < total_size(n)
                        \/ (total_size(m) = total_size(n) /\ m <= n)
    OBVIOUS
  <2>1. total_size(m) = s /\ s <= total_size(n)
    BY <1>2, <1>3
  <2>2. total_size(n) \in Nat /\ s \in Nat
    BY <1>2, TotalSizeNat
  <2>3. CASE total_size(n) = s
    BY <1>3, <2>1, <2>3
  <2>4. CASE total_size(n) # s
    BY <2>1, <2>2, <2>4
  <2> QED BY <2>3, <2>4
<1>5. find_best_nmsbits \in Splits
  BY <1>3, <1>4 DEF find_best_nmsbits
<1> QED BY <1>1, <1>5

-----------------------------------------------------------------------------
(* The invariant.  While nothing is computed yet the tables are empty; the *)
(* run's own tables, those in a file that can be read and those in a       *)
(* decoder are right for the list that they were computed from, and a run  *)
(* has tables when it has to write or to save them.  Bottom tables are     *)
(* numbered from 1.                                                        *)
HasTables == at \in {"dump", "render c", "write c", "render h", "write h", "exit"}

Sound(t) == RightFor(t, t.of) /\ DOMAIN t.lut1 \subseteq Nat \ {0}

Lists == SPEC \in Seq(Pattern) /\ oplist \in Seq(Pattern)

GenInv ==
  /\ Lists
  /\ Split /\ IInv
  /\ at \in {"load", "choose"} => NothingEntered
  /\ luts.is = "whole" => Sound(luts)
  /\ HasTables => luts.is = "whole"
  /\ pickle.is = "whole" => Sound(pickle)
  /\ RightUnlessStale

LEMMA GenInitInv == GenInit => GenInv
<1> SUFFICES ASSUME GenInit PROVE GenInv
  OBVIOUS
<1>1. NothingEntered
  BY DEF GenInit, NothingEntered
<1>2. Split
  BY WidthAssumption, SplitAssumption DEF GenInit, Split
<1>3. luts.is # "whole" /\ pickle.is # "whole" /\ c_out.is # "whole" /\ ~HasTables
  BY DEF GenInit, Cut, Absent, HasTables
<1>4. Lists
  BY OpListsAssumption DEF GenInit, Lists
<1> QED BY <1>1, <1>2, <1>3, <1>4, NothingEnteredInv DEF GenInv, RightUnlessStale

(* The lists stay lists of patterns.                                       *)
LEMMA ListsInv == Lists /\ [GenNext]_genvars => Lists'
<1> SUFFICES ASSUME Lists, [GenNext]_genvars PROVE Lists'
  OBVIOUS
<1>1. CASE Start
  BY <1>1 DEF Start, Environment, Lists
<1>2. CASE Edit
  <2>1. oplist' = oplist
    BY <1>2 DEF Edit, tables
  <2>2. PICK k \in DOMAIN SPEC :
          \/ SPEC' = [j \in 1 .. Len(SPEC) - 1 |-> SPEC[IF j < k THEN j ELSE j + 1]]
          \/ k > 1 /\ SPEC' = [SPEC EXCEPT ![k] = SPEC[k - 1], ![k - 1] = SPEC[k]]
    BY <1>2 DEF Edit
  <2>3. SPEC \in Seq(Pattern) /\ k \in 1 .. Len(SPEC)
    BY DEF Lists
  <2>4. CASE SPEC' = [j \in 1 .. Len(SPEC) - 1 |-> SPEC[IF j < k THEN j ELSE j + 1]]
    <3>1. \A j \in 1 .. Len(SPEC) - 1 : SPEC[IF j < k THEN j ELSE j + 1] \in Pattern
      BY <2>3
    <3>2. Len(SPEC) - 1 \in Nat
      BY <2>3
    <3>3. SPEC' \in Seq(Pattern)
      BY <2>4, <3>1, <3>2
    <3> QED BY <2>1, <3>3 DEF Lists
  <2>5. CASE k > 1 /\ SPEC' = [SPEC EXCEPT ![k] = SPEC[k - 1], ![k - 1] = SPEC[k]]
    <3>1. SPEC[k] \in Pattern /\ SPEC[k - 1] \in Pattern
      BY <2>3, <2>5
    <3>2. SPEC' \in Seq(Pattern)
      BY <2>3, <2>5, <3>1
    <3> QED BY <2>1, <3>2 DEF Lists
  <2> QED BY <2>2, <2>4, <2>5
<1>3. CASE main \/ Crash \/ DeletePickle \/ UNCHANGED genvars
  <2>1. UNCHANGED << SPEC, oplist >>
    BY <1>3 DEF main, LoadPickle, Choose, Fill, gen_luts, OpenPickle, Dump, RenderC, WriteC,
                RenderH, WriteH, Exit, Crash, DeletePickle, genvars, tables, Environment
  <2> QED BY <2>1 DEF Lists
<1> QED BY <1>1, <1>2, <1>3 DEF GenNext

(* Tables into which every word has been entered look every word up.       *)
LEMMA FilledRight ==
  ASSUME Split, IInv, i = Words, NEW t,
         t.nmsbits = nmsbits, t.lut0 = top_lut, t.lut1 = bot_lut
  PROVE  RightFor(t, oplist)
<1> SUFFICES ASSUME NEW w \in 0 .. Words - 1
             PROVE  /\ Upper(w) \in DOMAIN top_lut
                    /\ top_lut[Upper(w)] \in DOMAIN bot_lut
                    /\ Lower(w) \in DOMAIN bot_lut[top_lut[Upper(w)]]
                    /\ bot_lut[top_lut[Upper(w)]][Lower(w)] = First(full_matches(w))
  BY DEF RightFor, Upper, Lower, TopBits, full_matches
<1>1. Entered /\ LookupIsFirstMatch
  BY LookupInv DEF IInv, SharedSafely
<1> QED BY <1>1 DEF Entered, LookupIsFirstMatch, lookup

(* The first of a set of pattern numbers is one of them, or 0.             *)
LEMMA FirstBound ==
  ASSUME NEW n \in Nat, NEW S, S \subseteq 1 .. n
  PROVE  First(S) \in 0 .. n
<1>1. CASE S = {}
  BY <1>1 DEF First
<1>2. CASE S # {}
  <2>1. \E k \in S : \A j \in S : k <= j
    <3>1. S \subseteq Nat
      OBVIOUS
    <3> QED BY <3>1, <1>2, LeastNat
  <2>2. First(S) \in S
    BY <1>2, <2>1 DEF First
  <2>3. \A k \in S : k \in 0 .. n
    OBVIOUS
  <2> QED BY <2>2, <2>3
<1> QED BY <1>1, <1>2

(* Tables whose entries fit a byte lose nothing by being cut to one.       *)
LEMMA CutRight ==
  ASSUME NEW s, NEW t, NEW list \in Seq(Pattern),
         RightFor(t, list), DOMAIN t.lut1 \subseteq Nat \ {0},
         s.nmsbits = t.nmsbits,
         s.lut0 = CutTop(t.lut0), s.lut1 = CutBottom(t.lut1),
         s.oplist = list, Fits(s)
  PROVE  RightFor(s, list)
<1> SUFFICES ASSUME NEW w \in 0 .. Words - 1
             PROVE  LET top   == Ones(w) \cap ((Width - s.nmsbits) .. (Width - 1))
                        table == s.lut0[top]
                    IN  /\ top \in DOMAIN s.lut0
                        /\ table \in DOMAIN s.lut1
                        /\ Ones(w) \ top \in DOMAIN s.lut1[table]
                        /\ s.lut1[table][Ones(w) \ top]
                             = First({ k \in DOMAIN list : is_op_match(list[k], Ones(w), Positions) })
  BY DEF RightFor
<1> DEFINE top == Ones(w) \cap ((Width - t.nmsbits) .. (Width - 1))
           low == Ones(w) \ top
           h   == t.lut0[top]
           met == { k \in DOMAIN list : is_op_match(list[k], Ones(w), Positions) }
<1>1. /\ top \in DOMAIN t.lut0 /\ h \in DOMAIN t.lut1
      /\ low \in DOMAIN t.lut1[h]
      /\ t.lut1[h][low] = First(met)
  BY DEF RightFor
<1>2. Len(list) \in Nat /\ Len(list) < ByteValues /\ met \subseteq 1 .. Len(list)
  BY DEF Fits
<1>3. First(met) \in 0 .. Len(list)
  BY <1>2, FirstBound
<1> HIDE DEF met
<1>4. DOMAIN s.lut1 = DOMAIN t.lut1
  BY DEF CutBottom
<1> HIDE DEF top, low
<1>5. h \in 1 .. ByteValues
  BY <1>1, <1>4, ByteAssumption DEF Fits
<1>6. top \in DOMAIN s.lut0 /\ s.lut0[top] = ((h - 1) % ByteValues) + 1
  BY <1>1 DEF CutTop
<1> HIDE DEF h
<1>7. s.lut0[top] = h
  <2>1. h - 1 \in 0 .. ByteValues - 1
    BY <1>5, ByteAssumption
  <2>2. (h - 1) % ByteValues = h - 1
    BY <2>1, ByteAssumption
  <2> QED BY <1>5, <1>6, <2>2, ByteAssumption
<1>8. low \in DOMAIN s.lut1[h] /\ s.lut1[h][low] = First(met) % ByteValues
  BY <1>1 DEF CutBottom
<1>9. First(met) % ByteValues = First(met)
  BY <1>2, <1>3, ByteAssumption
<1> QED BY <1>1, <1>4, <1>6, <1>7, <1>8, <1>9 DEF top, low, met

(* Starting a run, choosing the split and entering a word.                 *)
LEMMA TablesStepInv == GenInv /\ (Start \/ Choose \/ Fill) => GenInv'
<1> SUFFICES ASSUME GenInv, Start \/ Choose \/ Fill PROVE GenInv'
  OBVIOUS
<1> Lists'
  BY ListsInv DEF GenInv, GenNext, main
<1>1. CASE Start
  <2>1. NothingEntered' /\ Split'
    BY <1>1 DEF Start, NothingEntered, Split, GenInv
  <2>2. IInv'
    BY <2>1, NothingEnteredInv, PTL
  <2>3. luts'.is # "whole" /\ ~HasTables'
    BY <1>1 DEF Start, Cut, HasTables
  <2> QED BY <1>1, <2>1, <2>2, <2>3
          DEF GenInv, Start, files, RightUnlessStale, Fits, Right
<1>2. CASE Choose
  <2>1. NothingEntered' /\ Split'
    BY <1>2, BestSplit DEF Choose, NothingEntered, Split, GenInv
  <2>2. IInv'
    BY <2>1, NothingEnteredInv, PTL
  <2>3. ~HasTables' /\ at' \notin {"load", "choose"}
    BY <1>2 DEF Choose, HasTables
  <2> QED BY <1>2, <2>1, <2>2, <2>3
          DEF GenInv, Choose, files, RightUnlessStale, Fits, Right
<1>3. CASE Fill
  <2>1. Split' /\ IInv'
    BY <1>3, GenLutsInv DEF Fill, GenInv
  <2>2. ~HasTables' /\ at' \notin {"load", "choose"}
    BY <1>3 DEF Fill, HasTables
  <2> QED BY <1>3, <2>1, <2>2 DEF GenInv, Fill, files, RightUnlessStale, Fits, Right
<1> QED BY <1>1, <1>2, <1>3

(* Everything else leaves the tables alone.                                *)
LEMMA SameTablesInv ==
  GenInv /\ UNCHANGED tables
    => /\ Split' /\ IInv'
       /\ at' = at \/ (at = "load" /\ at' = "choose")
            => (at' \in {"load", "choose"} => NothingEntered')
BY TablesUnchanged DEF GenInv, tables, NothingEntered

(* Getting the tables: from luts.pickle, or to it.                         *)
LEMMA PickleStepInv ==
  GenInv /\ (LoadPickle \/ OpenPickle \/ Dump \/ Exit \/ DeletePickle) => GenInv'
<1> SUFFICES ASSUME GenInv, LoadPickle \/ OpenPickle \/ Dump \/ Exit \/ DeletePickle
             PROVE  GenInv'
  OBVIOUS
<1> Lists'
  BY ListsInv DEF GenInv, GenNext, main
<1>1. UNCHANGED << tables, c_out >>
  BY DEF LoadPickle, OpenPickle, Dump, Exit, DeletePickle, files
<1>2. Split' /\ IInv' /\ RightUnlessStale'
  BY <1>1, SameTablesInv DEF GenInv, RightUnlessStale, Fits, Right
<1>3. CASE LoadPickle
  <2>1. at' \in {"load", "choose"} => NothingEntered'
    BY <1>1, <1>3, SameTablesInv DEF LoadPickle
  <2> QED BY <1>2, <1>3, <2>1 DEF GenInv, LoadPickle, Readable, HasTables, files
<1>4. CASE OpenPickle
  <2>1. RightFor(luts', luts'.of) /\ luts'.is = "whole"
    BY <1>4, FilledRight DEF OpenPickle, GenInv
  <2>2. DOMAIN luts'.lut1 \subseteq Nat \ {0}
    <3>1. luts'.lut1 = bot_lut
      BY <1>4 DEF OpenPickle
    <3>2. DOMAIN bot_lut \subseteq DOMAIN hashset /\ Len(hashset) \in Nat
          /\ DOMAIN hashset = 1 .. Len(hashset)
      BY DEF GenInv, IInv, SharedSafely, BottomShared
    <3> QED BY <3>1, <3>2
  <2> QED BY <1>2, <1>4, <2>1, <2>2 DEF GenInv, Sound, OpenPickle, Cut, HasTables
<1>5. CASE Dump
  BY <1>2, <1>5 DEF GenInv, Dump, HasTables, files
<1>6. CASE Exit
  BY <1>2, <1>6 DEF GenInv, Exit, HasTables
<1>7. CASE DeletePickle
  BY <1>2, <1>7 DEF GenInv, DeletePickle, Between, Absent, HasTables
<1> QED BY <1>3, <1>4, <1>5, <1>6, <1>7

(* Writing the two files.                                                  *)
LEMMA WriteStepInv ==
  GenInv /\ (RenderC \/ WriteC \/ RenderH \/ WriteH) => GenInv'
<1> SUFFICES ASSUME GenInv, RenderC \/ WriteC \/ RenderH \/ WriteH PROVE GenInv'
  OBVIOUS
<1> Lists'
  BY ListsInv DEF GenInv, GenNext, main
<1>1. UNCHANGED << tables, luts, pickle >> /\ HasTables
  BY DEF RenderC, WriteC, RenderH, WriteH, HasTables
<1>2. Split' /\ IInv'
  BY <1>1, SameTablesInv DEF GenInv
<1>3. at' \notin {"load", "choose"}
  BY DEF RenderC, WriteC, RenderH, WriteH
<1>4. RightUnlessStale'
  <2>1. CASE RenderC
    BY <2>1 DEF RenderC, RightUnlessStale, Cut
  <2>2. CASE WriteC
    <3> SUFFICES ASSUME luts.of = oplist, Fits(c_out') PROVE RightFor(c_out', oplist)
      <4>1. /\ c_out'.is = "whole" /\ c_out'.of = luts.of
            /\ c_out'.oplist = oplist
        BY <2>2 DEF WriteC
      <4> QED BY <4>1 DEF RightUnlessStale, Fits, Right
    <3>1. Sound(luts) /\ oplist \in Seq(Pattern)
      BY <1>1 DEF GenInv, Lists
    <3>2. /\ c_out'.nmsbits = luts.nmsbits /\ c_out'.oplist = oplist
          /\ c_out'.lut0 = CutTop(luts.lut0) /\ c_out'.lut1 = CutBottom(luts.lut1)
      BY <2>2 DEF WriteC
    <3> QED BY <3>1, <3>2, CutRight DEF Sound
  <2>3. CASE UNCHANGED c_out
    BY <2>3 DEF GenInv, RightUnlessStale, Fits, Right
  <2> QED BY <2>1, <2>2, <2>3 DEF RenderH, WriteH
<1> QED BY <1>1, <1>2, <1>3, <1>4 DEF GenInv, HasTables

(* A run that ends early, an edit, and a step that does nothing.           *)
LEMMA OtherStepInv == GenInv /\ (Crash \/ Edit \/ UNCHANGED genvars) => GenInv'
<1> SUFFICES ASSUME GenInv, Crash \/ Edit \/ UNCHANGED genvars PROVE GenInv'
  OBVIOUS
<1> Lists'
  BY ListsInv DEF GenInv, GenNext, main
<1>1. UNCHANGED << tables, luts, c_out >>
  BY DEF Crash, Edit, genvars, files
<1>2. Split' /\ IInv' /\ RightUnlessStale'
  BY <1>1, SameTablesInv DEF GenInv, RightUnlessStale, Fits, Right
<1>3. CASE Crash
  BY <1>1, <1>2, <1>3 DEF GenInv, Crash, Dumped, HasTables
<1>4. CASE UNCHANGED << at, pickle >>
  BY <1>1, <1>2, <1>4, SameTablesInv DEF GenInv, HasTables
<1> QED BY <1>3, <1>4 DEF Edit, genvars, files

-----------------------------------------------------------------------------
THEOREM GeneratorInv == GenSpec => []GenInv
<1>1. GenInit => GenInv
  BY GenInitInv
<1>2. GenInv /\ [GenNext]_genvars => GenInv'
  BY TablesStepInv, PickleStepInv, WriteStepInv, OtherStepInv DEF GenNext, main
<1> QED BY <1>1, <1>2, PTL DEF GenSpec

(* No decoder is wrong for the list that its tables were computed from,    *)
(* whatever the generator found, left behind or did not finish; at the     *)
(* split that it chooses, which is one of the word.                        *)
THEOREM GeneratorRight == GenSpec => []RightUnlessStale
BY GeneratorInv, PTL DEF GenInv

(* The tables of every run are right as far as they are filled.            *)
THEOREM GeneratorTables == GenSpec => [](SharedSafely /\ LookupIsFirstMatch)
<1>1. GenInv => SharedSafely /\ LookupIsFirstMatch
  BY LookupInv DEF GenInv, IInv
<1> QED BY <1>1, GeneratorInv, PTL

=============================================================================
