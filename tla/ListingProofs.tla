---------------------------- MODULE ListingProofs ----------------------------
(***************************************************************************)
(* What a listing tells, for every binary of every length.                 *)
(***************************************************************************)
EXTENDS Disassembler, Listing, AvrVMProofs, WellFoundedInduction

-----------------------------------------------------------------------------
(* Induction.                                                              *)

(* A set that holds 0, and with a number the next one, holds all.          *)
LEMMA AllReached ==
  ASSUME NEW N \in Nat, NEW T,
         0 \in T, \A k \in 1 .. N : k - 1 \in T => k \in T
  PROVE  0 .. N \subseteq T
<1> DEFINE missed == (0 .. N) \ T
<1>1. SUFFICES ASSUME missed # {} PROVE FALSE
  OBVIOUS
<1>2. missed \subseteq Nat
  OBVIOUS
<1>3. PICK m \in missed : \A y \in missed : ~ (<< y, m >> \in OpToRel(<, Nat))
  BY <1>1, <1>2, NatLessThanWellFounded, WFMin, Zenon
<1>4. \A y \in missed : ~ (y < m)
  BY <1>2, <1>3 DEF OpToRel
<1>5. m # 0 /\ m \in Int /\ 0 <= m /\ m <= N
  OBVIOUS
<1>6. m - 1 \notin missed
  BY <1>4, <1>5
<1>7. m - 1 \in 0 .. N /\ m \in 1 .. N
  BY <1>5
<1> QED
  BY <1>6, <1>7

-----------------------------------------------------------------------------
(* The lines.                                                              *)

(* The line of the instruction at word a of p.                             *)
LineAt(a, p, decoded) ==
  LET w == p[a + 1]
  IN  IF decoded[w] \in TwoWords THEN TwoWordLine(2 * a, decoded[w], w, p[a + 2])
                                 ELSE OneWordLine(2 * a, decoded[w], w)

(* Where an instruction is complete.                                       *)
Complete(p, decoded) ==
  { a \in 0 .. Len(p) - 1 : decoded[p[a + 1]] \in TwoWords => a + 1 < Len(p) }

LinesOf(p, decoded) == { LineAt(a, p, decoded) : a \in Complete(p, decoded) }

LEMMA Components == \A f, x, y : f = << x, y >> => f[1] = x /\ f[2] = y
  OBVIOUS

(* The written forms, one by one.                                          *)
LEMMA FormsAre ==
  /\ Forms["ld_x"] = << "ld", "X" >> /\ Forms["st_x"] = << "st", "X" >>
  /\ Forms["ld_x_inc"] = << "ld", "X+" >> /\ Forms["st_x_inc"] = << "st", "X+" >>
  /\ Forms["ld_x_dec"] = << "ld", "-X" >> /\ Forms["st_x_dec"] = << "st", "-X" >>
  /\ Forms["ld_y_inc"] = << "ld", "Y+" >> /\ Forms["st_y_inc"] = << "st", "Y+" >>
  /\ Forms["ld_y_dec"] = << "ld", "-Y" >> /\ Forms["st_y_dec"] = << "st", "-Y" >>
  /\ Forms["ld_z_inc"] = << "ld", "Z+" >> /\ Forms["st_z_inc"] = << "st", "Z+" >>
  /\ Forms["ld_z_dec"] = << "ld", "-Z" >> /\ Forms["st_z_dec"] = << "st", "-Z" >>
  /\ Forms["lpm_r0"] = << "lpm", "" >> /\ Forms["lpm_inc"] = << "lpm", "Z+" >>
  /\ Forms["lpm"] = << "lpm", "Z" >> /\ Forms["undefined"] = << ".word", "" >>
  /\ DOMAIN Forms = {"ld_x", "st_x", "ld_x_inc", "st_x_inc", "ld_x_dec", "st_x_dec", 
                      "ld_y_inc", "st_y_inc", "ld_y_dec", "st_y_dec", "ld_z_inc", "st_z_inc", 
                      "ld_z_dec", "st_z_dec", "lpm_r0", "lpm_inc", "lpm", "undefined"}
  BY DEF Forms

LEMMA FormMnemonics ==
  \A i \in DOMAIN Forms : Forms[i][1] \in {"ld", "st", "lpm", ".word"}
<1>1. \A i \in {"ld_x", "ld_x_inc", "ld_x_dec"} : Forms[i][1] = "ld"
  <2>1. /\ Forms["ld_x"] = << "ld", "X" >>
        /\ Forms["ld_x_inc"] = << "ld", "X+" >>
        /\ Forms["ld_x_dec"] = << "ld", "-X" >>
    BY FormsAre
  <2>2. /\ Forms["ld_x"][1] = "ld"
        /\ Forms["ld_x_inc"][1] = "ld"
        /\ Forms["ld_x_dec"][1] = "ld"
    BY <2>1, Components
  <2> QED
    BY <2>2
<1>2. \A i \in {"ld_y_inc", "ld_y_dec"} : Forms[i][1] = "ld"
  <2>1. /\ Forms["ld_y_inc"] = << "ld", "Y+" >>
        /\ Forms["ld_y_dec"] = << "ld", "-Y" >>
    BY FormsAre
  <2>2. /\ Forms["ld_y_inc"][1] = "ld"
        /\ Forms["ld_y_dec"][1] = "ld"
    BY <2>1, Components
  <2> QED
    BY <2>2
<1>3. \A i \in {"ld_z_inc", "ld_z_dec"} : Forms[i][1] = "ld"
  <2>1. /\ Forms["ld_z_inc"] = << "ld", "Z+" >>
        /\ Forms["ld_z_dec"] = << "ld", "-Z" >>
    BY FormsAre
  <2>2. /\ Forms["ld_z_inc"][1] = "ld"
        /\ Forms["ld_z_dec"][1] = "ld"
    BY <2>1, Components
  <2> QED
    BY <2>2
<1>4. \A i \in {"st_x", "st_x_inc", "st_x_dec"} : Forms[i][1] = "st"
  <2>1. /\ Forms["st_x"] = << "st", "X" >>
        /\ Forms["st_x_inc"] = << "st", "X+" >>
        /\ Forms["st_x_dec"] = << "st", "-X" >>
    BY FormsAre
  <2>2. /\ Forms["st_x"][1] = "st"
        /\ Forms["st_x_inc"][1] = "st"
        /\ Forms["st_x_dec"][1] = "st"
    BY <2>1, Components
  <2> QED
    BY <2>2
<1>5. \A i \in {"st_y_inc", "st_y_dec"} : Forms[i][1] = "st"
  <2>1. /\ Forms["st_y_inc"] = << "st", "Y+" >>
        /\ Forms["st_y_dec"] = << "st", "-Y" >>
    BY FormsAre
  <2>2. /\ Forms["st_y_inc"][1] = "st"
        /\ Forms["st_y_dec"][1] = "st"
    BY <2>1, Components
  <2> QED
    BY <2>2
<1>6. \A i \in {"st_z_inc", "st_z_dec"} : Forms[i][1] = "st"
  <2>1. /\ Forms["st_z_inc"] = << "st", "Z+" >>
        /\ Forms["st_z_dec"] = << "st", "-Z" >>
    BY FormsAre
  <2>2. /\ Forms["st_z_inc"][1] = "st"
        /\ Forms["st_z_dec"][1] = "st"
    BY <2>1, Components
  <2> QED
    BY <2>2
<1>7. \A i \in {"lpm_r0", "lpm_inc", "lpm"} : Forms[i][1] = "lpm"
  <2>1. Forms["lpm_r0"] = << "lpm", "" >>
    BY FormsAre
  <2>2. Forms["lpm_inc"] = << "lpm", "Z+" >>
    BY FormsAre
  <2>3. Forms["lpm"] = << "lpm", "Z" >>
    BY FormsAre
  <2>4. Forms["lpm_r0"][1] = "lpm"
    BY <2>1, Components
  <2>5. Forms["lpm_inc"][1] = "lpm"
    BY <2>2, Components
  <2>6. Forms["lpm"][1] = "lpm"
    BY <2>3, Components
  <2> QED
    BY <2>4, <2>5, <2>6
<1>8. \A i \in {"undefined"} : Forms[i][1] = ".word"
  <2>1. /\ Forms["undefined"] = << ".word", "" >>
    BY FormsAre
  <2>2. /\ Forms["undefined"][1] = ".word"
    BY <2>1, Components
  <2> QED
    BY <2>2
<1>9. ASSUME NEW i \in DOMAIN Forms
     PROVE  i \in {"ld_x", "ld_x_inc", "ld_x_dec"} \cup
                  {"ld_y_inc", "ld_y_dec"} \cup
                  {"ld_z_inc", "ld_z_dec"} \cup
                  {"st_x", "st_x_inc", "st_x_dec"} \cup
                  {"st_y_inc", "st_y_dec"} \cup
                  {"st_z_inc", "st_z_dec"} \cup
                  {"lpm_r0", "lpm_inc", "lpm"} \cup
                  {"undefined"}
  BY FormsAre
<1> QED
  BY <1>1, <1>2, <1>3, <1>4, <1>5, <1>6, <1>7, <1>8, <1>9

LEMMA DisplacedForms ==
  /\ NearForms["ldd_y"] = << "ld", "Y" >> /\ NearForms["std_y"] = << "st", "Y" >>
  /\ NearForms["ldd_z"] = << "ld", "Z" >> /\ NearForms["std_z"] = << "st", "Z" >>
  /\ FarForms["ldd_y"] = << "ldd", "Y+q" >> /\ FarForms["std_y"] = << "std", "Y+q" >>
  /\ FarForms["ldd_z"] = << "ldd", "Z+q" >> /\ FarForms["std_z"] = << "std", "Z+q" >>
  BY DEF NearForms, FarForms

(* How an instruction is written.                                          *)
LEMMA FormIs ==
  ASSUME NEW i, NEW w
  PROVE  /\ i \in DOMAIN Forms => Form(i, w) = Forms[i]
         /\ i \in Displaced => Form(i, w) = IF ptr_displacement(i, w) = 0 THEN NearForms[i]
                                                                        ELSE FarForms[i]
         /\ i \notin DOMAIN Forms /\ i \notin Displaced => Form(i, w) = << i, "" >>
<1> DEFINE D == DOMAIN Forms
           plain == << i, "" >>
<1>1. i \in Displaced => i \notin D
  BY FormsAre DEF Displaced
<1> HIDE DEF D, plain
<1>2. Form(i, w) = CASE i \in D -> Forms[i]
                     [] i \in Displaced -> IF ptr_displacement(i, w) = 0 THEN NearForms[i]
                                                                        ELSE FarForms[i]
                     [] OTHER -> plain
  BY DEF Form, D, plain
<1>3. /\ i \in D => Form(i, w) = Forms[i]
      /\ i \in Displaced => Form(i, w) = IF ptr_displacement(i, w) = 0 THEN NearForms[i]
                                                                     ELSE FarForms[i]
      /\ i \notin D /\ i \notin Displaced => Form(i, w) = plain
  BY <1>1, <1>2
<1> QED
  BY <1>3 DEF D, plain

(* No one-word instruction has the mnemonic of a two-word one.             *)
LEMMA Mnemonics ==
  ASSUME NEW i, i \notin TwoWords, NEW w
  PROVE  Form(i, w)[1] \notin TwoWords
<1>1. CASE i \in DOMAIN Forms
  <2>1. Forms[i][1] \in {"ld", "st", "lpm", ".word"}
    BY <1>1, FormMnemonics
  <2> QED
    BY <1>1, <2>1, FormIs DEF TwoWords
<1>2. CASE i \in Displaced
  <2>1. NearForms[i][1] \in {"ld", "st"} /\ FarForms[i][1] \in {"ldd", "std"}
    BY <1>2, DisplacedForms DEF Displaced
  <2> QED
    BY <1>2, <2>1, FormIs DEF TwoWords
<1>3. CASE i \notin DOMAIN Forms /\ i \notin Displaced
  <2>1. Form(i, w) = << i, "" >> /\ << i, "" >>[1] = i
    BY <1>3, FormIs
  <2> QED
    BY <2>1
<1> QED
  BY <1>1, <1>2, <1>3

LEMMA LineFields ==
  ASSUME NEW l, NEW b, NEW form, NEW numbers, NEW note, l = Line(b, form, numbers, note)
  PROVE  /\ l.addr = b /\ l.mnemonic = form[1] /\ l.pointer = form[2]
         /\ l.numbers = numbers /\ l.noted = note
  BY DEF Line

LEMMA OneWordFields ==
  ASSUME NEW l, NEW b, NEW i, NEW w, l = OneWordLine(b, i, w)
  PROVE  /\ l.addr = b /\ l.mnemonic = Form(i, w)[1] /\ l.pointer = Form(i, w)[2]
         /\ l.numbers = Numbers(i, w, b) /\ l.noted = Noted(i, w)
  BY DEF OneWordLine, Line

LEMMA TwoWordFields ==
  ASSUME NEW l, NEW b, NEW i, NEW w, NEW second, l = TwoWordLine(b, i, w, second)
  PROVE  /\ l.addr = b /\ l.mnemonic = i
         /\ i \in {"call", "jmp"} =>
              l.numbers = << JumpTarget(addr_msbyte(i, w), second) >>
<1>1. << i, "" >>[1] = i
  OBVIOUS
<1>2. l.addr = b /\ l.mnemonic = << i, "" >>[1]
  BY DEF TwoWordLine, Line
<1>3. ASSUME i \in {"call", "jmp"}
      PROVE  l.numbers = << JumpTarget(addr_msbyte(i, w), second) >>
  BY <1>3 DEF TwoWordLine, Line
<1> QED
  BY <1>1, <1>2, <1>3

LEMMA LineIs ==
  ASSUME NEW p, NEW decoded, NEW a
  PROVE  LET l == LineAt(a, p, decoded)
             w == p[a + 1]
         IN  /\ l.addr = 2 * a
             /\ Size(l) = IF decoded[w] \in TwoWords THEN 2 ELSE 1
             /\ decoded[w] \in TwoWords => l = TwoWordLine(2 * a, decoded[w], w, p[a + 2])
                                           /\ l.mnemonic = decoded[w]
             /\ decoded[w] \notin TwoWords => l = OneWordLine(2 * a, decoded[w], w)
                                              /\ l.mnemonic = Form(decoded[w], w)[1]
<1> DEFINE w == p[a + 1]
           l == LineAt(a, p, decoded)
           b == 2 * a
           i == decoded[w]
<1>1. l = IF i \in TwoWords THEN TwoWordLine(b, i, w, p[a + 2]) ELSE OneWordLine(b, i, w)
  BY DEF LineAt
<1>2. Size(l) = IF l.mnemonic \in TwoWords THEN 2 ELSE 1
  BY DEF Size
<1> HIDE DEF w, l, b, i
<1>3. CASE i \in TwoWords
  <2>1. l = TwoWordLine(b, i, w, p[a + 2])
    BY <1>1, <1>3
  <2>2. l.addr = b /\ l.mnemonic = i
    BY <2>1, TwoWordFields
  <2> QED
    BY <1>2, <1>3, <2>1, <2>2 DEF b, l, w, i
<1>4. CASE i \notin TwoWords
  <2>1. l = OneWordLine(b, i, w)
    BY <1>1, <1>4
  <2>2. l.addr = b /\ l.mnemonic = Form(i, w)[1]
    BY <2>1, OneWordFields
  <2>3. l.mnemonic \notin TwoWords
    BY <1>4, <2>2, Mnemonics
  <2> QED
    BY <1>2, <1>4, <2>1, <2>2, <2>3 DEF b, l, w, i
<1> QED
  BY <1>3, <1>4

-----------------------------------------------------------------------------
(* The listing of the first k words of p.                                  *)

(* Where the lines end: before the word that waits for its second.         *)
EndOf(s) == s.addr - IF s.prev_opcode < 0 THEN 0 ELSE 2

(* The lines follow one another, see Consecutive.                          *)
Chained(s) ==
  \A k \in 1 .. Len(s.lines) + 1 :
    (IF k > Len(s.lines) THEN EndOf(s) ELSE s.lines[k].addr)
      = (IF k = 1 THEN 0 ELSE s.lines[k - 1].addr + 2 * Size(s.lines[k - 1]))

Waits(s, p, k, decoded) ==
  k > 0 /\ s.prev_opcode = p[k] /\ decoded[p[k]] \in TwoWords

Sound(s, p, k, decoded) ==
  /\ s \in [addr : {2 * k}, prev_opcode : Int, lines : Seq(LinesOf(p, decoded))]
  /\ s.prev_opcode < 0 \/ Waits(s, p, k, decoded)
  /\ Chained(s)

LEMMA SoundStart == ASSUME NEW p, NEW decoded PROVE Sound(NothingListed, p, 0, decoded)
<1>1. NothingListed \in [addr : {2 * 0}, prev_opcode : Int, lines : Seq(LinesOf(p, decoded))]
  BY DEF NothingListed
<1>2. NothingListed.prev_opcode < 0
  BY DEF NothingListed
<1>3. Chained(NothingListed)
  BY DEF Chained, EndOf, NothingListed
<1> QED
  BY <1>1, <1>2, <1>3 DEF Sound

(* Another line at the end.                                                *)
LEMMA ChainGrows ==
  ASSUME NEW s, NEW t, NEW S, s.lines \in Seq(S), NEW l, Chained(s),
         t.lines = Append(s.lines, l), l.addr = EndOf(s),
         EndOf(t) = l.addr + 2 * Size(l)
  PROVE  Chained(t)
<1> DEFINE n == Len(s.lines)
<1>1. /\ n \in Nat /\ Len(t.lines) = n + 1 /\ t.lines[n + 1] = l
      /\ \A k \in 1 .. n : t.lines[k] = s.lines[k]
  OBVIOUS
<1> SUFFICES ASSUME NEW k \in 1 .. n + 2
             PROVE  (IF k > n + 1 THEN EndOf(t) ELSE t.lines[k].addr)
                    = (IF k = 1 THEN 0 ELSE t.lines[k - 1].addr + 2 * Size(t.lines[k - 1]))
  BY <1>1, SMTT(30) DEF Chained
<1>2. \A j \in 1 .. n + 1 :
        (IF j > n THEN EndOf(s) ELSE s.lines[j].addr)
          = (IF j = 1 THEN 0 ELSE s.lines[j - 1].addr + 2 * Size(s.lines[j - 1]))
  BY DEF Chained
<1> HIDE DEF n
<1>3. CASE k = n + 2
  <2>1. k - 1 = n + 1 /\ k # 1 /\ k > n + 1
    BY <1>1, <1>3
  <2> QED
    BY <1>1, <2>1
<1>4. CASE k = n + 1
  <2>1. t.lines[k].addr = EndOf(s) /\ k \in 1 .. n + 1 /\ k > n /\ ~ (k > n + 1)
    BY <1>1, <1>4
  <2>2. EndOf(s) = (IF k = 1 THEN 0 ELSE s.lines[k - 1].addr + 2 * Size(s.lines[k - 1]))
    BY <1>2, <2>1
  <2>3. k # 1 => s.lines[k - 1] = t.lines[k - 1]
    BY <1>1, <1>4
  <2> QED
    BY <2>1, <2>2, <2>3
<1>5. CASE k \in 1 .. n
  <2>1. k \in 1 .. n + 1 /\ ~ (k > n) /\ ~ (k > n + 1) /\ t.lines[k] = s.lines[k]
    BY <1>1, <1>5
  <2>2. k # 1 => s.lines[k - 1] = t.lines[k - 1]
    BY <1>1, <1>5
  <2> QED
    BY <1>2, <2>1, <2>2
<1> QED
  BY <1>1, <1>3, <1>4, <1>5

(* One call of list_opcode.                                                *)
LEMMA SoundStep ==
  ASSUME NEW p \in Seq(Word), NEW decoded, NEW k \in 1 .. Len(p), NEW s,
         Sound(s, p, k - 1, decoded)
  PROVE  Sound(list_opcode(s, p[k], decoded), p, k, decoded)
<1> DEFINE t == list_opcode(s, p[k], decoded)
           L == LinesOf(p, decoded)
           w == p[k]
           i == decoded[w]
           b == s.addr
<1>1. /\ s \in [addr : {2 * (k - 1)}, prev_opcode : Int, lines : Seq(L)]
      /\ s.prev_opcode < 0 \/ Waits(s, p, k - 1, decoded)
      /\ Chained(s)
  BY DEF Sound
<1>2. k \in Int /\ 1 <= k /\ k <= Len(p) /\ Len(p) \in Int /\ w \in Int /\ 0 <= w
  BY WordRange
<1>3. b = 2 * (k - 1) /\ s.prev_opcode \in Int /\ s.lines \in Seq(L)
  BY <1>1
<1>4. CASE s.prev_opcode < 0 /\ i \in TwoWords
  <2>1. t = [s EXCEPT !.addr = @ + 2, !.prev_opcode = w]
    BY <1>4 DEF list_opcode
  <2>2. t \in [addr : {2 * k}, prev_opcode : Int, lines : Seq(L)]
    <3> DEFINE M == Seq(L)
    <3> HIDE DEF w, L, M, t
    <3>1. s \in [addr : {2 * (k - 1)}, prev_opcode : Int, lines : M]
      BY <1>1 DEF M
    <3>2. t = [addr |-> s.addr + 2, prev_opcode |-> w, lines |-> s.lines]
      BY <2>1, <3>1
    <3>3. s.addr + 2 = 2 * k /\ s.lines \in M
      BY <1>2, <3>1 DEF b
    <3> QED
      BY <1>2, <3>2, <3>3 DEF M
  <2>3. t.lines = s.lines /\ t.prev_opcode = w /\ t.addr = b + 2
    BY <1>1, <2>1
  <2>4. EndOf(t) = EndOf(s)
    BY <1>2, <1>3, <1>4, <2>3 DEF EndOf
  <2>5. Chained(t)
    BY <1>1, <2>3, <2>4 DEF Chained
  <2>6. Waits(t, p, k, decoded)
    BY <1>2, <1>4, <2>3 DEF Waits
  <2> QED
    BY <2>2, <2>5, <2>6 DEF Sound
<1>5. ASSUME ~ (s.prev_opcode < 0 /\ i \in TwoWords), NEW a \in 0 .. Len(p) - 1,
             NEW l, l = LineAt(a, p, decoded), a \in Complete(p, decoded),
             2 * a = EndOf(s), 2 * a + 2 * Size(l) = 2 * k,
             t = [addr |-> b + 2, prev_opcode |-> -1, lines |-> Append(s.lines, l)]
      PROVE  Sound(t, p, k, decoded)
  <2>1. l \in L
    BY <1>5 DEF LinesOf
  <2>2. t.addr = b + 2 /\ t.prev_opcode = -1 /\ t.lines = Append(s.lines, l)
    BY <1>5
  <2>3. Append(s.lines, l) \in Seq(L)
    BY <1>3, <2>1
  <2>4. t \in [addr : {2 * k}, prev_opcode : Int, lines : Seq(L)]
    BY <1>2, <1>3, <1>5, <2>3
  <2>5. l.addr = 2 * a
    BY <1>5, LineIs
  <2>6. EndOf(t) = b + 2
    BY <1>2, <1>3, <2>2 DEF EndOf
  <2> HIDE DEF t, L
  <2>7. Chained(t)
    <3>1. EndOf(t) = l.addr + 2 * Size(l) /\ l.addr = EndOf(s)
      BY <1>2, <1>3, <1>5, <2>5, <2>6
    <3> QED
      BY <1>1, <1>3, <2>2, <3>1, ChainGrows
  <2>8. t.prev_opcode < 0
    BY <2>2
  <2> QED
    BY <2>4, <2>7, <2>8 DEF Sound, L
<1>6. CASE s.prev_opcode < 0 /\ i \notin TwoWords
  <2> DEFINE a == k - 1
             l == LineAt(a, p, decoded)
  <2>1. a + 1 = k /\ a \in 0 .. Len(p) - 1 /\ 2 * a = b
    BY <1>2, <1>3
  <2>2. l = OneWordLine(2 * a, i, w) /\ Size(l) = 1
    BY <1>6, <2>1, LineIs
  <2>3. a \in Complete(p, decoded)
    BY <1>6, <2>1 DEF Complete
  <2>4. EndOf(s) = b
    BY <1>3, <1>6 DEF EndOf
  <2>5. t = [addr |-> b + 2, prev_opcode |-> -1, lines |-> Append(s.lines, l)]
    BY <1>6, <2>1, <2>2 DEF list_opcode
  <2>6. 2 * a + 2 * Size(l) = 2 * k /\ 2 * a = EndOf(s)
    BY <1>2, <2>1, <2>2, <2>4
  <2> HIDE DEF a, l, t
  <2> QED
    BY <1>5, <1>6, <2>1, <2>3, <2>5, <2>6 DEF l, t
<1>7. CASE ~ (s.prev_opcode < 0)
  <2> DEFINE a == k - 2
             l == LineAt(a, p, decoded)
             v == p[k - 1]
  <2>1. k - 1 > 0 /\ s.prev_opcode = v /\ decoded[v] \in TwoWords
    BY <1>1, <1>7 DEF Waits
  <2>2. a + 1 = k - 1 /\ a + 2 = k /\ a \in 0 .. Len(p) - 1 /\ 2 * a = b - 2
    BY <1>2, <1>3, <2>1
  <2>3. l = TwoWordLine(2 * a, decoded[v], v, w) /\ Size(l) = 2
    BY <2>1, <2>2, LineIs
  <2>4. a \in Complete(p, decoded)
    BY <1>2, <2>2 DEF Complete
  <2>5. EndOf(s) = b - 2
    BY <1>7 DEF EndOf
  <2>6. t = [addr |-> b + 2, prev_opcode |-> -1, lines |-> Append(s.lines, l)]
    BY <1>7, <2>1, <2>2, <2>3 DEF list_opcode
  <2>7. 2 * a + 2 * Size(l) = 2 * k /\ 2 * a = EndOf(s)
    BY <1>2, <1>3, <2>2, <2>3, <2>5
  <2> HIDE DEF a, l, t
  <2> QED
    BY <1>5, <1>7, <2>2, <2>4, <2>6, <2>7 DEF l, t
<1> QED
  BY <1>4, <1>6, <1>7

-----------------------------------------------------------------------------
(* The disassembler on any binary.                                         *)

(* The inductive invariant: the listing is sound as far as main has read.  *)
ReadInv == /\ file \in Seq(Word)
           /\ \E k \in 0 .. Len(file) : Sound(listing, file, k, AllDecoded)

LEMMA ReadStart == ListInit => ReadInv
<1> SUFFICES ASSUME ListInit PROVE ReadInv
  OBVIOUS
<1>1. file \in Seq(Word) /\ listing = NothingListed /\ 0 \in 0 .. Len(file)
  BY FilesAssumption DEF ListInit
<1> QED
  BY <1>1, SoundStart DEF ReadInv

LEMMA ReadStep == ReadInv /\ [ListNext]_listvars => ReadInv'
<1> SUFFICES ASSUME ReadInv, [ListNext]_listvars PROVE ReadInv'
  OBVIOUS
<1>1. CASE ReadWord
  <2>1. PICK k \in 0 .. Len(file) : Sound(listing, file, k, AllDecoded)
    BY DEF ReadInv
  <2>2. listing.addr = 2 * k
    BY <2>1 DEF Sound
  <2>3. file \in Seq(Word) /\ k \in Nat /\ Len(file) \in Nat
    BY DEF ReadInv
  <2>4. Position = k
    BY <2>2, <2>3 DEF Position
  <2>5. /\ k + 1 \in 1 .. Len(file) /\ k + 1 \in 0 .. Len(file) /\ (k + 1) - 1 = k
        /\ listing' = list_opcode(listing, file[k + 1], AllDecoded) /\ file' = file
    BY <1>1, <2>3, <2>4 DEF ReadWord
  <2> DEFINE n == k + 1
  <2>6. Sound(listing, file, n - 1, AllDecoded) /\ n \in 1 .. Len(file)
    BY <2>1, <2>5
  <2> HIDE DEF n
  <2>7. Sound(list_opcode(listing, file[n], AllDecoded), file, n, AllDecoded)
    BY <2>3, <2>6, SoundStep
  <2>8. Sound(listing', file', n, AllDecoded) /\ n \in 0 .. Len(file')
    BY <2>5, <2>7 DEF n
  <2> QED
    BY <2>3, <2>5, <2>8 DEF ReadInv
<1>2. CASE UNCHANGED listvars
  BY <1>2 DEF ReadInv, listvars
<1> QED
  BY <1>1, <1>2 DEF ListNext, EndOfFile

(* Of every binary, whatever its length and its words, the lines follow    *)
(* one another without gap or overlap from the first word to the last one  *)
(* read, or to the first word of a two-word instruction that waits in the  *)
(* static variable of list_opcode for its second.                          *)
THEOREM LinesConsecutive == ListSpec => []Consecutive
<1>1. ReadInv => Consecutive
  BY DEF ReadInv, Sound, Chained, EndOf, Consecutive
<1> QED
  BY <1>1, ReadStart, ReadStep, PTL DEF ListSpec

-----------------------------------------------------------------------------
(* The listing of the flash.                                               *)

(* Listed is what it says, for every binary.                               *)
LEMMA ListedIs ==
  ASSUME NEW p \in Seq(Word)
  PROVE  /\ Listed(p)[0] = NothingListed
         /\ \A k \in 1 .. Len(p) : Listed(p)[k] = list_opcode(Listed(p)[k - 1], p[k], Decoded)
<1> DEFINE N == Len(p)
           next(s, k) == list_opcode(s, p[k], Decoded)
           IsListing(f, m) == /\ f = [k \in 0 .. m |-> f[k]]
                              /\ f[0] = NothingListed
                              /\ \A k \in 1 .. m : f[k] = next(f[k - 1], k)
           d == Listed(p)
<1>1. N \in Nat
  OBVIOUS
<1>2. d = CHOOSE f : f = [k \in 0 .. N |-> IF k = 0 THEN NothingListed ELSE next(f[k - 1], k)]
  BY DEF Listed
<1> HIDE DEF N, next, d
<1>3. \A m \in 0 .. N : \E f : IsListing(f, m)
  <2> DEFINE T == { m \in 0 .. N : \E f : IsListing(f, m) }
  <2>1. 0 \in T
    <3>1. IsListing([k \in 0 .. 0 |-> NothingListed], 0)
      OBVIOUS
    <3> HIDE DEF IsListing
    <3> QED
      BY <1>1, <3>1
  <2>2. ASSUME NEW m \in 1 .. N, m - 1 \in T PROVE m \in T
    <3>1. PICK f : IsListing(f, m - 1)
      BY <2>2
    <3> DEFINE g == [k \in 0 .. m |-> IF k = m THEN next(f[m - 1], m) ELSE f[k]]
    <3>2. /\ g = [k \in 0 .. m |-> g[k]]
          /\ g[0] = NothingListed
      BY <3>1, <1>1
    <3>3. ASSUME NEW k \in 1 .. m PROVE g[k] = next(g[k - 1], k)
      <4>1. CASE k = m
        <5>1. k - 1 # m /\ k \in 0 .. m /\ k - 1 \in 0 .. m
          BY <4>1, <1>1
        <5> QED
          BY <4>1, <5>1
      <4>2. CASE k # m
        <5>1. k \in 1 .. m - 1 /\ k - 1 # m /\ k \in 0 .. m /\ k - 1 \in 0 .. m
          BY <4>2, <1>1
        <5> QED
          BY <5>1, <4>2, <3>1
      <4> QED
        BY <4>1, <4>2
    <3>4. IsListing(g, m)
      BY <3>2, <3>3
    <3> HIDE DEF IsListing, g
    <3> QED
      BY <3>4, <1>1
  <2> HIDE DEF T
  <2>3. 0 .. N \subseteq T
    BY <1>1, <2>1, <2>2, AllReached
  <2> QED
    BY <2>3 DEF T
<1>4. PICK f : IsListing(f, N)
  <2>1. N \in 0 .. N
    BY <1>1
  <2> QED
    BY <2>1, <1>3
<1>5. f = [k \in 0 .. N |-> IF k = 0 THEN NothingListed ELSE next(f[k - 1], k)]
  <2>1. /\ f = [k \in 0 .. N |-> f[k]]
        /\ f[0] = NothingListed
        /\ \A k \in 1 .. N : f[k] = next(f[k - 1], k)
    BY <1>4
  <2>2. ASSUME NEW k \in 0 .. N
        PROVE  f[k] = IF k = 0 THEN NothingListed ELSE next(f[k - 1], k)
    <3>1. CASE k = 0
      BY <2>1, <3>1
    <3>2. CASE k # 0
      <4>1. k \in 1 .. N
        BY <1>1, <3>2
      <4> QED
        BY <2>1, <3>2, <4>1, Zenon
    <3> QED
      BY <3>1, <3>2
  <2> QED
    BY <2>1, <2>2, Zenon
<1>6. d = [k \in 0 .. N |-> IF k = 0 THEN NothingListed ELSE next(d[k - 1], k)]
  BY <1>2, <1>5
<1>7. d[0] = NothingListed /\ \A k \in 1 .. N : d[k] = next(d[k - 1], k)
  BY <1>1, <1>6
<1> QED
  BY <1>7 DEF d, next, N

(* The listing of the whole flash is sound.                                *)
LEMMA FlashListed ==
  ASSUME NEW p \in Seq(Word)
  PROVE  Sound(Listed(p)[Len(p)], p, Len(p), Decoded)
<1> DEFINE T == { k \in 0 .. Len(p) : Sound(Listed(p)[k], p, k, Decoded) }
           N == Len(p)
<1>1. N \in Nat
  OBVIOUS
<1>2. 0 \in T
  BY <1>1, ListedIs, SoundStart
<1>3. ASSUME NEW k \in 1 .. N, k - 1 \in T PROVE k \in T
  <2>1. Sound(Listed(p)[k - 1], p, k - 1, Decoded)
    BY <1>3
  <2>2. Listed(p)[k] = list_opcode(Listed(p)[k - 1], p[k], Decoded)
    BY ListedIs
  <2>3. Sound(Listed(p)[k], p, k, Decoded)
    BY <2>1, <2>2, SoundStep
  <2> QED
    BY <1>1, <2>3
<1> HIDE DEF T
<1>4. 0 .. N \subseteq T
  BY <1>1, <1>2, <1>3, AllReached
<1> QED
  BY <1>1, <1>4 DEF T

(* A program is a sequence of words.                                       *)
LEMMA FlashIsBinary == IInv => flash \in Seq(Word) /\ Len(flash) = FlashWords
<1> SUFFICES ASSUME IInv PROVE flash \in Seq(Word) /\ Len(flash) = FlashWords
  OBVIOUS
<1>1. flash \in [1 .. FlashWords -> Word]
  BY ProgramsAssumption, WordsAssumption DEF IInv
<1> QED
  BY <1>1, FlashAssumption

-----------------------------------------------------------------------------
(* The machine and the listing.                                            *)

DisasmInv == IInv /\ lines = ListingOf(flash) /\ WellFormed

LEMMA DisasmStart == ListingInit => DisasmInv
  BY InitInv DEF ListingInit, HostInit, DisasmInv

LEMMA DisasmStep == DisasmInv /\ [ListingNext]_disasmvars => DisasmInv'
<1> SUFFICES ASSUME DisasmInv, [ListingNext]_disasmvars PROVE DisasmInv'
  OBVIOUS
<1>1. UNCHANGED << flash, lines >> /\ IInv'
  <2>1. CASE run_bin /\ UNCHANGED lines
    BY <2>1, ExecInv, FlashKept DEF run_bin, DisasmInv
  <2>2. CASE UNCHANGED << hostvars, lines >>
    BY <2>2 DEF hostvars, DisasmInv, IInv, TypeOK
  <2> QED
    BY <2>1, <2>2 DEF ListingNext, HostNext, Over, disasmvars, hostvars
<1> QED
  BY <1>1 DEF DisasmInv, WellFormed, IsListed

(* Every line is about an instruction of the flash.                        *)
LEMMA LinesAre ==
  ASSUME DisasmInv
  PROVE  /\ lines \in Seq(LinesOf(flash, Decoded))
         /\ \A k \in DOMAIN lines : \E a \in 0 .. FlashWords - 1 :
              a \in Complete(flash, Decoded) /\ lines[k] = LineAt(a, flash, Decoded)
<1>1. flash \in Seq(Word) /\ Len(flash) = FlashWords
  BY FlashIsBinary DEF DisasmInv
<1>2. Sound(Listed(flash)[Len(flash)], flash, Len(flash), Decoded)
  BY <1>1, FlashListed
<1>3. lines \in Seq(LinesOf(flash, Decoded))
  BY <1>2 DEF Sound, DisasmInv, ListingOf
<1>4. \A k \in DOMAIN lines : lines[k] \in LinesOf(flash, Decoded)
  BY <1>3
<1> QED
  BY <1>1, <1>3, <1>4 DEF LinesOf, Complete

(* A word of the flash where it does not wrap.                             *)
LEMMA FlashWord ==
  ASSUME NEW a \in 0 .. FlashWords - 1
  PROVE  flash_r(a) = flash[a + 1]
<1>1. a % FlashWords = a
  BY FlashAssumption
<1> QED
  BY <1>1 DEF flash_r

(* The line at pc is the line of what is fetched.                          *)
LEMMA AtPcIs ==
  ASSUME DisasmInv, NEW k \in AtPc
  PROVE  /\ k \in DOMAIN lines /\ ctx.pc \in 0 .. FlashWords - 1
         /\ instr \in TwoWords => /\ ctx.pc + 1 < FlashWords
                                  /\ lines[k] = TwoWordLine(2 * ctx.pc, instr, opcode, operand)
         /\ instr \notin TwoWords => lines[k] = OneWordLine(2 * ctx.pc, instr, opcode)
<1>1. PICK a \in 0 .. FlashWords - 1 :
        a \in Complete(flash, Decoded) /\ lines[k] = LineAt(a, flash, Decoded)
  BY LinesAre DEF AtPc
<1>2. ctx \in Context /\ ctx.pc \in Int /\ a \in Int
  BY Fetch DEF DisasmInv
<1>3. a = ctx.pc
  <2>1. lines[k].addr = 2 * a /\ lines[k].addr = 2 * ctx.pc
    BY <1>1, LineIs DEF AtPc
  <2> QED
    BY <1>2, <2>1
<1>4. opcode = flash[a + 1] /\ instr = Decoded[flash[a + 1]]
  BY <1>1, <1>3, FlashWord DEF opcode, instr
<1>5. fetched.pc = Wrap16(ctx.pc + 1)
  BY <1>2 DEF fetched, Context
<1>7. CASE instr \in TwoWords
  <2>1. a + 1 < FlashWords
    BY <1>1, <1>4, <1>7, FlashIsBinary DEF Complete, DisasmInv
  <2>2. (a + 1) + 1 = a + 2 /\ a + 1 \in 0 .. FlashWords - 1
    BY <1>2, <2>1, FlashAssumption
  <2>3. operand = flash[a + 2]
    <3>1. Wrap16(a + 1) = a + 1
      BY <1>2, <2>2, FlashAssumption DEF Wrap16
    <3> QED
      BY <1>3, <1>5, <2>2, <3>1, FlashWord DEF operand
  <2>4. lines[k] = TwoWordLine(2 * a, Decoded[flash[a + 1]], flash[a + 1], flash[a + 2])
    BY <1>1, <1>4, <1>7, LineIs
  <2> QED
    BY <1>1, <1>3, <1>4, <1>7, <2>1, <2>3, <2>4 DEF AtPc
<1>8. CASE instr \notin TwoWords
  <2>1. lines[k] = OneWordLine(2 * a, Decoded[flash[a + 1]], flash[a + 1])
    BY <1>1, <1>4, <1>8, LineIs
  <2> QED
    BY <1>1, <1>3, <1>4, <1>8, <2>1 DEF AtPc
<1> QED
  BY <1>7, <1>8

(* The pointers that stores move, and how those stores are written.        *)
LEMMA MovingStores ==
  /\ \A i \in {"st_x_inc", "st_x_dec"} : Forms[i][1] = "st" /\ Halves(Forms[i][2]) = {26, 27}
  /\ \A i \in {"st_y_inc", "st_y_dec"} : Forms[i][1] = "st" /\ Halves(Forms[i][2]) = {28, 29}
  /\ \A i \in {"st_z_inc", "st_z_dec"} : Forms[i][1] = "st" /\ Halves(Forms[i][2]) = {30, 31}
<1>1. /\ Halves("X+") = {26, 27} /\ Halves("-X") = {26, 27}
      /\ Halves("Y+") = {28, 29} /\ Halves("-Y") = {28, 29}
      /\ Halves("Z+") = {30, 31} /\ Halves("-Z") = {30, 31}
  BY DEF Halves
<1>2. /\ Forms["st_x_inc"][1] = "st" /\ Forms["st_x_inc"][2] = "X+"
      /\ Forms["st_x_dec"][1] = "st" /\ Forms["st_x_dec"][2] = "-X"
  <2>1. Forms["st_x_inc"] = << "st", "X+" >> /\ Forms["st_x_dec"] = << "st", "-X" >>
    BY FormsAre
  <2> QED
    BY <2>1, Components
<1>3. /\ Forms["st_y_inc"][1] = "st" /\ Forms["st_y_inc"][2] = "Y+"
      /\ Forms["st_y_dec"][1] = "st" /\ Forms["st_y_dec"][2] = "-Y"
  <2>1. Forms["st_y_inc"] = << "st", "Y+" >> /\ Forms["st_y_dec"] = << "st", "-Y" >>
    BY FormsAre
  <2> QED
    BY <2>1, Components
<1>4. /\ Forms["st_z_inc"][1] = "st" /\ Forms["st_z_inc"][2] = "Z+"
      /\ Forms["st_z_dec"][1] = "st" /\ Forms["st_z_dec"][2] = "-Z"
  <2>1. Forms["st_z_inc"] = << "st", "Z+" >> /\ Forms["st_z_dec"] = << "st", "-Z" >>
    BY FormsAre
  <2> QED
    BY <2>1, Components
<1> QED
  BY <1>1, <1>2, <1>3, <1>4

(* A store's register that its pointer's move changes is a half of the     *)
(* pointer.                                                                *)
LEMMA MovedHalves ==
  ASSUME IInv, instr \in Stores, RR # Moved.regs[Rr]
  PROVE  /\ instr \in PostIncrement \cup PreDecrement
         /\ Rr \in {2 * Ptr, 2 * Ptr + 1}
<1>1. Rr \in RegIndex /\ RR = ctx.regs[Rr]
  BY Operands DEF RR, HasRr, RrPlain, DirectStores, Stores
<1>2. fetched \in Context /\ fetched.regs = ctx.regs
  BY Fetch DEF fetched, Context
<1>3. instr \in PlainPointers \cup PostIncrement \cup PreDecrement
  BY DEF Stores, PlainPointers, PostIncrement, PreDecrement
<1>4. instr \notin PlainPointers
  <2>1. instr \in PlainPointers => Moved = fetched
    BY DEF Moved, PlainPointers, PostIncrement, PreDecrement
  <2> QED
    BY <1>1, <1>2, <2>1
<1>5. PICK w : Moved = SetWord(fetched, Ptr, w)
  BY <1>3, <1>4 DEF Moved
<1>6. \A r \in RegIndex : r \notin {2 * Ptr, 2 * Ptr + 1}
        => SetWord(fetched, Ptr, w).regs[r] = fetched.regs[r]
  BY <1>2 DEF SetWord, Context
<1> QED
  BY <1>1, <1>2, <1>3, <1>4, <1>5, <1>6

(* On every program, and wherever a script may have got to: when a store's *)
(* pointer moves over the register it stores, so that C leaves open which  *)
(* of two bytes is written, the line that the disassembler printed for the *)
(* instruction is one of those noted "undefined".                          *)
THEOREM SurprisesAreNoted == ListingSpec => []SurprisesNoted
<1>1. ASSUME DisasmInv PROVE SurprisesNoted
  <2> SUFFICES ASSUME instr \in Stores, RR # Moved.regs[Rr], NEW k \in AtPc
               PROVE  lines[k].noted
    BY DEF SurprisesNoted
  <2>1. /\ instr \in PostIncrement \cup PreDecrement
        /\ Rr \in {2 * Ptr, 2 * Ptr + 1}
    BY <1>1, MovedHalves DEF DisasmInv
  <2>2. instr \in {"st_x_inc", "st_y_inc", "st_z_inc", "st_x_dec", "st_y_dec", "st_z_dec"}
    BY <2>1 DEF Stores, PostIncrement, PreDecrement
  <2>3. lines[k] = OneWordLine(2 * ctx.pc, instr, opcode)
    BY <1>1, <2>2, AtPcIs DEF TwoWords
  <2>4. lines[k].noted = Noted(instr, opcode)
    BY <2>3, OneWordFields
  <2>5. Form(instr, opcode) = Forms[instr]
    BY <2>2, FormIs, FormsAre
  <2>6. Form(instr, opcode)[1] = "st" /\ Rr \in Halves(Form(instr, opcode)[2])
    <3>1. CASE instr \in {"st_x_inc", "st_x_dec"}
      <4>1. Ptr = 13
        BY <3>1 DEF Ptr, X
      <4> QED
        BY <2>1, <2>5, <3>1, <4>1, MovingStores
    <3>2. CASE instr \in {"st_y_inc", "st_y_dec"}
      <4>1. Ptr = 14
        BY <3>2 DEF Ptr, Y
      <4> QED
        BY <2>1, <2>5, <3>2, <4>1, MovingStores
    <3>3. CASE instr \in {"st_z_inc", "st_z_dec"}
      <4>1. Ptr = 15
        BY <3>3 DEF Ptr, Z
      <4> QED
        BY <2>1, <2>5, <3>3, <4>1, MovingStores
    <3> QED
      BY <2>2, <3>1, <3>2, <3>3
  <2>7. Numbers(instr, opcode, 0) = << rr(instr, opcode) >>
    BY <2>2 DEF Numbers, TwoRegisters, Multiplies816, WordImm, UpperImm, PortBits,
       OneRegister, PointerLoads, PointerStores
  <2>8. Numbers(instr, opcode, 0)[1] = Rr
    BY <2>7 DEF Rr
  <2> QED
    BY <2>4, <2>6, <2>8 DEF Noted
<1> QED
  BY <1>1, DisasmStart, DisasmStep, PTL DEF ListingSpec

-----------------------------------------------------------------------------
(* Where control goes.                                                     *)

(* The direct jumps and calls, and which case of the switch each is.       *)
LEMMA DirectCases ==
  ASSUME avrvm_exec
  PROVE  /\ instr = "rjmp" => Rjmp
         /\ instr = "jmp"  => Jmp
         /\ instr = "rcall" => Rcall
         /\ instr = "call"  => Call
         /\ instr \in {"brbc", "brbs"} => Branch
<1> DEFINE others == instr \notin {"rjmp", "jmp", "rcall", "call", "brbc", "brbs"}
<1>1. Add \/ Sub \/ Neg \/ Compare \/ AddWord \/ Logic \/ Com \/ IncDec => others
  BY DEF Add, Sub, Neg, Compare, AddWord, Logic, Com, IncDec, WordImm
<1>2. Mul \/ FMul \/ Shift \/ Swap => others
  BY DEF Mul, FMul, Shift, Swap
<1>3. Ijmp \/ Icall \/ Ret \/ SkipEqual \/ SkipReg \/ SkipPort => others
  BY DEF Ijmp, Icall, Ret, SkipEqual, SkipReg, SkipPort
<1>4. Mov \/ Movw \/ Ldi \/ Load \/ Lds \/ Store \/ Sts \/ Lpm => others
  BY DEF Mov, Movw, Ldi, Load, Loads, Lds, Store, Stores, Sts, Lpm
<1>5. In \/ Out \/ Push \/ Pop => others
  BY DEF In, Out, Push, Pop
<1>6. Bset \/ Bclr \/ Sbi \/ Cbi \/ Bst \/ Bld \/ Nop \/ Special => others
  BY DEF Bset, Bclr, Sbi, Cbi, Bst, Bld, Nop, Special
<1>7. others \/ Rjmp \/ Jmp \/ Rcall \/ Call \/ Branch
  BY <1>1, <1>2, <1>3, <1>4, <1>5, <1>6 DEF avrvm_exec
<1> QED
  BY <1>7 DEF Rjmp, Jmp, Rcall, Call, Branch

(* The context updates that leave pc alone.                                *)
LEMMA SamePc ==
  ASSUME NEW c \in Context
  PROVE  /\ \A n, b : [c EXCEPT !.regs[n] = b].pc = c.pc
         /\ \A n, b, t : [c EXCEPT !.regs[n] = b, !.sreg = t].pc = c.pc
         /\ \A t : [c EXCEPT !.sreg = t].pc = c.pc
         /\ \A w : [c EXCEPT !.sp = w].pc = c.pc
         /\ \A n, w : SetWord(c, n, w).pc = c.pc
         /\ Popped(c).pc = c.pc
         /\ \A w : Jump(c, w).pc = Wrap16(w)
<1>1. \A n, w : SetWord(c, n, w).pc = c.pc
  BY DEF SetWord, Context
<1> QED
  BY <1>1 DEF Context, Jump, Popped

LEMMA WritePc ==
  ASSUME NEW c \in Context, NEW x \in Word, NEW b \in Byte
  PROVE  writemem(c, x, b).pc = c.pc
<1>1. x \in Int /\ 0 <= x
  BY WordRange
<1>2. CASE x >= SramBase
  <2>1. writemem(c, x, b) = sram_w(c, x - SramBase, b)
    BY <1>2, <1>1, RegRange, SMT DEF writemem, SramBase, Spl, Sph, SregAddr
  <2> QED
    BY <2>1 DEF sram_w, Context
<1>3. CASE ~(x >= SramBase)
  <2>1. writemem(c, x, b) \in {[c EXCEPT !.regs[x] = b], io_w(c, x - 32, b),
                               [c EXCEPT !.sp = 256 * Hi(c.sp) + b],
                               [c EXCEPT !.sp = Lo(c.sp) + 256 * b],
                               [c EXCEPT !.sreg = BitsOf(b)]}
    BY <1>3, <1>1, RegRange, SMT DEF writemem, SramBase, Spl, Sph, SregAddr
  <2> QED
    BY <2>1 DEF io_w, Context
<1> QED
  BY <1>2, <1>3

LEMMA PushPc ==
  ASSUME NEW c \in Context
  PROVE  /\ \A b \in Byte : push(c, b).pc = c.pc
         /\ \A w \in Word : pushw(c, w).pc = c.pc
<1>1. ASSUME NEW d \in Context, NEW b \in Byte PROVE push(d, b).pc = d.pc
  <2> DEFINE m == [d EXCEPT !.sp = Wrap16(d.sp - 1)]
  <2>1. d.sp \in Word
    BY ContextFields
  <2>2. d.sp - 1 \in Int
    BY <2>1, WordRange
  <2>3. m \in Context
    BY <2>2, ContextUpdates, WrapType
  <2>4. m.pc = d.pc
    BY SamePc
  <2>5. push(d, b) = writemem(m, d.sp, b)
    BY DEF push
  <2> HIDE DEF m
  <2> QED
    BY <2>1, <2>3, <2>4, <2>5, WritePc
<1>2. ASSUME NEW w \in Word PROVE pushw(c, w).pc = c.pc
  <2>1. Lo(w) \in Byte /\ Hi(w) \in Byte
    BY IntegerSets, WrapType
  <2> QED
    BY <1>1, <2>1, StackTypes DEF pushw
<1> QED
  BY <1>1, <1>2

(* What the lines of direct jumps and calls say.                           *)
LEMMA DirectLines ==
  ASSUME DisasmInv, NEW k \in AtPc, instr \in Directs
  PROVE  /\ lines[k].mnemonic = instr
         /\ instr \in {"rjmp", "rcall", "brbc", "brbs"}
              => ListedTarget(lines[k]) = 2 * ctx.pc + 2 * pc_offset(instr, opcode) + 2
         /\ instr \in {"call", "jmp"}
              => ListedTarget(lines[k]) = 2 * (addr_msbyte(instr, opcode) * 65536 + operand)
<1> DEFINE l == lines[k]
           a == 2 * ctx.pc
           i == instr
           w == opcode
<1>1. /\ i \in TwoWords => l = TwoWordLine(a, i, w, operand)
      /\ i \notin TwoWords => l = OneWordLine(a, i, w)
  BY AtPcIs
<1>2. CASE i \in {"call", "jmp"}
  <2>1. l.mnemonic = i /\ l.numbers = << JumpTarget(addr_msbyte(i, w), operand) >>
    BY <1>1, <1>2, TwoWordFields DEF TwoWords
  <2>2. ListedTarget(l) = JumpTarget(addr_msbyte(i, w), operand)
    BY <1>2, <2>1 DEF ListedTarget, TwoWords
  <2> QED
    BY <1>2, <2>1, <2>2 DEF JumpTarget
<1>3. CASE i \in {"rjmp", "rcall", "brbc", "brbs"}
  <2>1. i \notin TwoWords /\ i \notin DOMAIN Forms /\ i \notin Displaced
    BY <1>3, FormsAre DEF TwoWords, Displaced
  <2>2. l.mnemonic = Form(i, w)[1] /\ l.numbers = Numbers(i, w, a)
    BY <1>1, <2>1, OneWordFields
  <2>3. Form(i, w) = << i, "" >>
    BY <2>1, FormIs
  <2>4. l.mnemonic = i
    BY <2>2, <2>3, Components
  <2>5. Numbers(i, w, a)[2] = a + Offset(i, w) + 2
    <3>1. i \in {"rjmp", "rcall"} => Numbers(i, w, a) = << Offset(i, w), a + Offset(i, w) + 2 >>
      BY DEF Numbers, TwoRegisters, Multiplies816, WordImm, UpperImm, PortBits,
         OneRegister, PointerLoads, PointerStores
    <3>2. i \in {"brbc", "brbs"} =>
            Numbers(i, w, a) = << Offset(i, w), a + Offset(i, w) + 2, bit(i, w) >>
      BY DEF Numbers, TwoRegisters, Multiplies816, WordImm, UpperImm, PortBits,
         OneRegister, PointerLoads, PointerStores
    <3>3. \A f, x, y, z : f = << x, y, z >> => f[2] = y
      OBVIOUS
    <3> HIDE DEF a, i, w
    <3> QED
      BY <1>3, <3>1, <3>2, <3>3, Components
  <2>6. ListedTarget(l) = l.numbers[2]
    BY <2>1, <2>4 DEF ListedTarget
  <2> QED
    BY <1>3, <2>2, <2>4, <2>5, <2>6 DEF Offset
<1> QED
  BY <1>2, <1>3 DEF Directs

(* A listed address is that of a word of the flash.                        *)
LEMMA ListedIsFlash ==
  ASSUME DisasmInv, NEW t, IsListed(t)
  PROVE  \E a \in 0 .. FlashWords - 1 : t = 2 * a
<1>1. PICK k \in DOMAIN lines : lines[k].addr = t
  BY DEF IsListed
<1>2. PICK a \in 0 .. FlashWords - 1 : lines[k] = LineAt(a, flash, Decoded)
  BY LinesAre
<1> QED
  BY <1>1, <1>2, LineIs

(* A direct jump or call whose target is listed goes there.                *)
LEMMA DirectStep ==
  ASSUME DisasmInv, FlashWords <= AVRVM_MAX_FLASH_WORDS, avrvm_exec,
         instr \in Directs, NEW k \in AtPc
  PROVE  \/ 2 * ctx'.pc = ListedTarget(lines[k])
         \/ instr \in {"brbc", "brbs"} /\ ctx'.pc = ctx.pc + 1
<1> DEFINE t == ListedTarget(lines[k])
<1>0. IInv
  BY DEF DisasmInv
<1>1. k \in DOMAIN lines /\ ctx.pc \in 0 .. FlashWords - 1
  BY AtPcIs
<1>2. IsListed(t)
  BY <1>1, DirectLines DEF DisasmInv, WellFormed
<1>3. PICK a \in 0 .. FlashWords - 1 : t = 2 * a
  BY <1>2, ListedIsFlash
<1>4. Wrap16(a) = a /\ a \in Int /\ ctx.pc \in Int /\ a < 32768 /\ 0 <= a
  BY <1>1, <1>3, FlashAssumption DEF Wrap16, AVRVM_MAX_FLASH_WORDS
<1>5. /\ fetched \in Context /\ fetched2 \in Context
      /\ fetched.pc = ctx.pc + 1 /\ fetched.pc \in Word /\ fetched2.pc \in Word
  <2>1. fetched \in Context /\ fetched2 \in Context /\ ctx \in Context
    BY <1>0, Fetch
  <2>2. fetched.pc = Wrap16(ctx.pc + 1)
    BY <2>1 DEF fetched, Context
  <2>3. Wrap16(ctx.pc + 1) = ctx.pc + 1
    BY <1>1, FlashAssumption DEF Wrap16, AVRVM_MAX_FLASH_WORDS
  <2> QED
    BY <2>1, <2>2, <2>3, ContextFields
<1>6. CASE instr \in {"call", "jmp"}
  <2>1. operand \in Int /\ addr_msbyte(instr, opcode) \in Int
    BY <1>0, <1>6, Fetch, OtherOperands, IntegerSets
  <2>2. t = 2 * (addr_msbyte(instr, opcode) * 65536 + operand)
    BY <1>6, DirectLines
  <2>3. operand + 65536 * addr_msbyte(instr, opcode) = a
    BY <1>3, <1>4, <2>1, <2>2
  <2>4. Target = a /\ Target < AVRVM_MAX_FLASH_WORDS
    BY <1>4, <2>3 DEF Target, AVRVM_MAX_FLASH_WORDS
  <2>5. pushw(fetched2, fetched2.pc) \in Context
    BY <1>5, CallTypes
  <2>6. ctx'.pc = a
    <3>1. Wrap16(Target) = a
      BY <1>4, <2>4
    <3>2. CASE instr = "jmp"
      BY <1>5, <3>1, <3>2, DirectCases, SamePc DEF Jmp, Ok, Return
    <3>3. CASE instr = "call"
      BY <2>4, <2>5, <3>1, <3>3, DirectCases, SamePc DEF Call, Ok, Return
    <3> QED
      BY <1>6, <3>2, <3>3
  <2> QED
    BY <1>3, <2>6
<1>7. CASE instr \in {"rjmp", "rcall", "brbc", "brbs"}
  <2>1. pc_offset(instr, opcode) \in Int
    BY <1>0, <1>7, Fetch, OtherOperands
  <2>2. t = 2 * ctx.pc + 2 * pc_offset(instr, opcode) + 2
    BY <1>7, DirectLines
  <2>3. fetched.pc + pc_offset(instr, opcode) = a
    BY <1>3, <1>4, <1>5, <2>1, <2>2
  <2>4. pushw(fetched, fetched.pc) \in Context /\ pushw(fetched, fetched.pc).pc = fetched.pc
    BY <1>5, CallTypes, PushPc
  <2>5. CASE instr = "rjmp"
    <3>1. ctx'.pc = a
      BY <1>4, <1>5, <2>3, <2>5, DirectCases, SamePc DEF Rjmp, Relative, Ok, Return
    <3> QED
      BY <1>3, <3>1
  <2>6. CASE instr = "rcall"
    <3>1. ctx'.pc = a
      BY <1>4, <2>3, <2>4, <2>6, DirectCases, SamePc DEF Rcall, Ok, Return
    <3> QED
      BY <1>3, <3>1
  <2>7. CASE instr \in {"brbc", "brbs"}
    <3>1. ctx' = Jump(fetched, Relative) \/ ctx' = fetched
      BY <2>7, DirectCases DEF Branch, Ok, Return
    <3>2. ctx'.pc = a \/ ctx'.pc = ctx.pc + 1
      BY <1>4, <1>5, <2>3, <3>1, SamePc DEF Relative
    <3> QED
      BY <1>3, <2>7, <3>2
  <2> QED
    BY <1>7, <2>5, <2>6, <2>7
<1> QED
  BY <1>6, <1>7 DEF Directs

(* For every well-formed program that fits the address space of the        *)
(* machine: a direct jump, call or branch leads to the byte address that   *)
(* is printed on its line, or a branch to the next word, although the      *)
(* machine counts words, wraps them and cuts the 22-bit target of call and *)
(* jmp.  The bound is the code's own: a call at or above                   *)
(* AVRVM_MAX_FLASH_WORDS is a call of the host.                            *)
THEOREM GoesThere ==
  ASSUME FlashWords <= AVRVM_MAX_FLASH_WORDS
  PROVE  ListingSpec => GoesWhereListed
<1> DEFINE Goes == steps' # steps /\ instr \in Directs
                   => \A k \in AtPc : \/ 2 * ctx'.pc = ListedTarget(lines[k])
                                      \/ /\ instr \in {"brbc", "brbs"}
                                         /\ ctx'.pc = ctx.pc + 1
<1>1. DisasmInv /\ [ListingNext]_disasmvars => [Goes]_disasmvars
  <2> SUFFICES ASSUME DisasmInv, [ListingNext]_disasmvars, steps' # steps,
                      instr \in Directs, NEW k \in AtPc
               PROVE  \/ 2 * ctx'.pc = ListedTarget(lines[k])
                      \/ instr \in {"brbc", "brbs"} /\ ctx'.pc = ctx.pc + 1
    OBVIOUS
  <2>1. avrvm_exec
    BY DEF ListingNext, HostNext, run_bin, Over, disasmvars, hostvars
  <2> QED
    BY <2>1, DirectStep
<1> QED
  BY <1>1, DisasmStart, DisasmStep, PTL DEF ListingSpec, GoesWhereListed

(* The instructions that go on behind themselves, or behind the            *)
(* instruction they skip.                                                  *)
LEMMA ArithmeticPc ==
  ASSUME IInv,
         \/ Add \/ Sub \/ Neg \/ Compare \/ AddWord \/ Logic \/ Com \/ IncDec
         \/ Mul \/ FMul \/ Shift \/ Swap
  PROVE  instr \notin TwoWords /\ ctx'.pc = fetched.pc
<1> USE Fetch, SamePc
<1>1. \A out : Result(out) => ctx'.pc = fetched.pc
  BY DEF Result, Ok, Return
<1>2. \A out : Flags(out) => ctx'.pc = fetched.pc
  BY DEF Flags, Ok, Return
<1>3. \A n, out : ResultWord(n, out) => ctx'.pc = fetched.pc
  BY DEF ResultWord, Ok, Return, SetWord, Context
<1>4. Swap => ctx'.pc = fetched.pc
  BY DEF Swap, Ok, Return
<1>5. ctx'.pc = fetched.pc
  BY <1>1, <1>2, <1>3, <1>4 DEF Add, Sub, Neg, Compare, AddWord, Logic, Com, IncDec,
     Mul, FMul, Shift
<1>6. instr \notin TwoWords
  BY DEF Add, Sub, Neg, Compare, AddWord, Logic, Com, IncDec, Mul, FMul, Shift, Swap,
     TwoWords, WordImm
<1> QED
  BY <1>5, <1>6

LEMMA SkipPc ==
  ASSUME SkipEqual \/ SkipReg \/ SkipPort
  PROVE  instr \notin TwoWords /\ ctx' \in {fetched, skip_instr(fetched)}
<1>1. \A cond : SkipIf(cond) => ctx' \in {fetched, skip_instr(fetched)}
  BY DEF SkipIf, Ok, Return
<1>2. ctx' \in {fetched, skip_instr(fetched)}
  BY <1>1 DEF SkipEqual, SkipReg, SkipPort
<1>3. instr \notin TwoWords
  BY DEF SkipEqual, SkipReg, SkipPort, TwoWords
<1> QED
  BY <1>2, <1>3

LEMMA MovePc ==
  ASSUME IInv,
         \/ Mov \/ Movw \/ Ldi \/ Load \/ Lds \/ Store \/ Sts \/ Lpm
         \/ In \/ Out \/ Push \/ Pop
  PROVE  \/ instr \notin TwoWords /\ ctx'.pc = fetched.pc
         \/ instr \in {"lds", "sts"} /\ ctx'.pc = fetched2.pc
<1> USE Fetch, SamePc
<1>1. Mov \/ Movw \/ Ldi \/ In => instr \notin TwoWords /\ ctx'.pc = fetched.pc
  <2>1. \A n, b : Ok([fetched EXCEPT !.regs[n] = b]) => ctx'.pc = fetched.pc
    BY DEF Ok, Return
  <2>2. \A n, w : Ok(SetWord(fetched, n, w)) => ctx'.pc = fetched.pc
    BY DEF Ok, Return
  <2> QED
    BY <2>1, <2>2 DEF Mov, Movw, Ldi, In, TwoWords
<1>2. Lds => instr \in {"lds", "sts"} /\ ctx'.pc = fetched2.pc
  BY DEF Lds, Ok, Return
<1>3. Pop => instr \notin TwoWords /\ ctx'.pc = fetched.pc
  <2>1. Popped(fetched) \in Context /\ Popped(fetched).pc = fetched.pc
    BY StackTypes
  <2> QED
    BY <2>1 DEF Pop, TwoWords, Ok, Return
<1>4. Lpm => instr \notin TwoWords /\ ctx'.pc = fetched.pc
  <2>1. \A n, b : Ok([fetched EXCEPT !.regs[n] = b]) => ctx'.pc = fetched.pc
    BY DEF Ok, Return
  <2>2. \A n, b, m, w : Ok(SetWord([fetched EXCEPT !.regs[n] = b], m, w))
                        => ctx'.pc = fetched.pc
    BY DEF Ok, Return, SetWord
  <2> QED
    BY <2>1, <2>2 DEF Lpm, TwoWords
<1>5. Moved.pc = fetched.pc \/ instr \notin Loads \cup Stores
  BY DEF Moved, Loads, Stores, PlainPointers, PostIncrement, PreDecrement
<1>6. Load => instr \notin TwoWords /\ ctx'.pc = fetched.pc
  <2>1. Loads \cap TwoWords = {}
    BY DEF Loads, TwoWords
  <2> QED
    BY <1>5, <2>1, Pointers DEF Load, Ok, Return
<1>7. Store => instr \notin TwoWords /\ ctx'.pc = fetched.pc
  <2> SUFFICES ASSUME instr \in Stores, NEW b \in {RR, Moved.regs[Rr]},
                      Ok(writemem(Moved, Address, b))
               PROVE  instr \notin TwoWords /\ ctx'.pc = fetched.pc
    BY DEF Store
  <2>1. Rr \in RegIndex /\ RR \in Byte
    BY Operands DEF Stores, HasRr, RrPlain, DirectStores
  <2>2. Address \in Word /\ Moved \in Context /\ b \in Byte
    BY <2>1, Pointers, ContextFields
  <2>3. instr \notin TwoWords
    BY DEF Stores, TwoWords
  <2> QED
    BY <1>5, <2>2, <2>3, WritePc DEF Ok, Return
<1>8. Sts => instr \in {"lds", "sts"} /\ ctx'.pc = fetched2.pc
  <2> SUFFICES ASSUME instr = "sts", Ok(writemem(fetched2, operand, RR))
               PROVE  ctx'.pc = fetched2.pc
    BY DEF Sts
  <2>1. RR \in Byte
    BY Operands DEF HasRr, RrPlain, DirectStores
  <2> QED
    BY <2>1, WritePc DEF Ok, Return
<1>9. Out => instr \notin TwoWords /\ ctx'.pc = fetched.pc
  <2> SUFFICES ASSUME instr = "out", Ok(writemem(fetched, 32 + port(instr, opcode), RR))
               PROVE  instr \notin TwoWords /\ ctx'.pc = fetched.pc
    BY DEF Out
  <2>1. RR \in Byte /\ 32 + port(instr, opcode) \in Word
    BY Operands, Ports DEF HasRr, RrPlain
  <2> QED
    BY <2>1, WritePc DEF Ok, Return, TwoWords
<1>10. Push => instr \notin TwoWords /\ ctx'.pc = fetched.pc
  <2> SUFFICES ASSUME instr = "push", Ok(push(fetched, RR))
               PROVE  instr \notin TwoWords /\ ctx'.pc = fetched.pc
    BY DEF Push
  <2>1. RR \in Byte
    BY Operands DEF HasRr, RrPlain
  <2> QED
    BY <2>1, PushPc DEF Ok, Return, TwoWords
<1> QED
  BY <1>1, <1>2, <1>3, <1>4, <1>6, <1>7, <1>8, <1>9, <1>10

LEMMA BitPc ==
  ASSUME IInv, \/ Bset \/ Bclr \/ Sbi \/ Cbi \/ Bst \/ Bld \/ Nop \/ Special
  PROVE  instr \notin TwoWords /\ ctx'.pc = fetched.pc
<1> USE Fetch, SamePc
<1>1. Bset \/ Bclr \/ Bst \/ Bld => ctx'.pc = fetched.pc
  <2>1. \A t : Ok([fetched EXCEPT !.sreg = t]) => ctx'.pc = fetched.pc
    BY DEF Ok, Return
  <2>2. \A n, b : Ok([fetched EXCEPT !.regs[n] = b]) => ctx'.pc = fetched.pc
    BY DEF Ok, Return
  <2> QED
    BY <2>1, <2>2 DEF Bset, Bclr, Bst, Bld
<1>2. \A b \in Byte : instr \in PortBits /\ Ok(writemem(fetched, 32 + port(instr, opcode), b))
                   => ctx'.pc = fetched.pc
  BY Ports, WritePc DEF Ok, Return
<1>3. Sbi \/ Cbi => ctx'.pc = fetched.pc
  BY <1>2, ByteOfType DEF Sbi, Cbi, PortBits
<1>4. Nop \/ Special => ctx'.pc = fetched.pc
  BY DEF Nop, Special, Ok, Return
<1>5. instr \notin TwoWords
  BY DEF Bset, Bclr, Sbi, Cbi, Bst, Bld, Nop, Special, TwoWords
<1> QED
  BY <1>1, <1>3, <1>4, <1>5

(* One call of avrvm_exec, as far as pc goes.                              *)
LEMMA PcAfter ==
  ASSUME IInv, avrvm_exec, instr \notin Directs \cup {"ret", "ijmp", "icall"}
  PROVE  \/ instr \notin TwoWords /\ ctx'.pc \in {fetched.pc, skip_instr(fetched).pc}
         \/ instr \in {"lds", "sts"} /\ ctx'.pc = fetched2.pc
<1>1. ~ (\/ Rjmp \/ Ijmp \/ Jmp \/ Rcall \/ Icall \/ Call \/ Ret \/ Branch)
  BY DEF Rjmp, Ijmp, Jmp, Rcall, Icall, Call, Ret, Branch, Directs
<1> QED
  BY <1>1, ArithmeticPc, SkipPc, MovePc, BitPc DEF avrvm_exec

-----------------------------------------------------------------------------
(* Listed instructions.                                                    *)

(* The last word of the flash does not wait for a second one, which        *)
(* list_opcode would never get.                                            *)
WholeListing == Listed(flash)[FlashWords].prev_opcode < 0

(* What the lines of a program cannot rule out: the end of the flash is    *)
(* passed, or a computed jump or a return, whose target comes from         *)
(* registers or from the stack, goes where no instruction is listed.       *)
Strays == /\ steps' # steps
          /\ \/ ctx.pc >= FlashWords
             \/ instr \in {"ret", "ijmp", "icall"} /\ ~ IsListed(2 * ctx'.pc)

(* The address after a line is that of a line, or the end.                 *)
LEMMA NextListed ==
  ASSUME DisasmInv, WholeListing
  PROVE  /\ IsListed(0)
         /\ \A k \in DOMAIN lines :
              LET t == lines[k].addr + 2 * Size(lines[k])
              IN  IsListed(t) \/ t = 2 * FlashWords
<1> DEFINE s == Listed(flash)[FlashWords]
           n == Len(lines)
<1>1. Sound(s, flash, FlashWords, Decoded)
  BY FlashIsBinary, FlashListed DEF DisasmInv
<1>2. s.addr = 2 * FlashWords /\ Chained(s) /\ s.prev_opcode < 0
  BY <1>1 DEF Sound, WholeListing
<1>3. s.lines = lines
  BY FlashIsBinary DEF DisasmInv, ListingOf
<1>4. EndOf(s) = 2 * FlashWords
  BY <1>2, FlashAssumption DEF EndOf
<1>5. n \in Nat /\ DOMAIN lines = 1 .. n
  BY LinesAre
<1>6. \A k \in 1 .. n + 1 :
        (IF k > n THEN 2 * FlashWords ELSE lines[k].addr)
          = (IF k = 1 THEN 0 ELSE lines[k - 1].addr + 2 * Size(lines[k - 1]))
  BY <1>2, <1>3, <1>4 DEF Chained
<1> HIDE DEF s, n
<1>7. IsListed(0)
  <2>1. 1 \in 1 .. n + 1
    BY <1>5
  <2>2. ~ (1 > n) /\ lines[1].addr = 0
    BY <1>6, <2>1, FlashAssumption
  <2> QED
    BY <1>5, <2>2 DEF IsListed
<1>8. ASSUME NEW k \in DOMAIN lines
      PROVE  LET t == lines[k].addr + 2 * Size(lines[k])
             IN  IsListed(t) \/ t = 2 * FlashWords
  <2>1. k + 1 \in 1 .. n + 1 /\ k + 1 # 1 /\ (k + 1) - 1 = k
    BY <1>5
  <2>2. (IF k + 1 > n THEN 2 * FlashWords ELSE lines[k + 1].addr)
          = lines[k].addr + 2 * Size(lines[k])
    BY <1>6, <2>1
  <2>3. k + 1 > n \/ k + 1 \in DOMAIN lines
    BY <1>5, <2>1
  <2> QED
    BY <2>2, <2>3 DEF IsListed
<1> QED
  BY <1>7, <1>8

(* The word behind a listed instruction is listed, unless it is the end.   *)
LEMMA BehindListed ==
  ASSUME DisasmInv, WholeListing, NEW a \in 0 .. FlashWords - 1, IsListed(2 * a)
  PROVE  LET b == a + IF Decoded[flash_r(a)] \in TwoWords THEN 2 ELSE 1
         IN  IsListed(2 * b) \/ b = FlashWords
<1>1. PICK k \in DOMAIN lines : lines[k].addr = 2 * a
  BY DEF IsListed
<1>2. PICK c \in 0 .. FlashWords - 1 : lines[k] = LineAt(c, flash, Decoded)
  BY LinesAre
<1>3. lines[k].addr = 2 * c /\ a \in Int /\ c \in Int /\ FlashWords \in Int
  BY <1>2, LineIs, FlashAssumption
<1>4. c = a
  BY <1>1, <1>3
<1>5. Size(lines[k]) = IF Decoded[flash_r(a)] \in TwoWords THEN 2 ELSE 1
  BY <1>2, <1>4, LineIs, FlashWord
<1> DEFINE z == IF Decoded[flash_r(a)] \in TwoWords THEN 2 ELSE 1
           t == lines[k].addr + 2 * Size(lines[k])
<1>6. z \in Int
  OBVIOUS
<1>7. IsListed(t) \/ t = 2 * FlashWords
  BY NextListed
<1>8. t = 2 * (a + z)
  BY <1>1, <1>3, <1>5, <1>6
<1> HIDE DEF z, t
<1>9. IsListed(2 * (a + z)) \/ a + z = FlashWords
  BY <1>3, <1>6, <1>7, <1>8
<1> QED
  BY <1>9 DEF z

(* One instruction, from a listed one to a listed one.                     *)
LEMMA ListedStep ==
  ASSUME DisasmInv, FlashWords <= AVRVM_MAX_FLASH_WORDS, WholeListing, avrvm_exec,
         ctx.pc < FlashWords, IsListed(2 * ctx.pc),
         instr \in {"ret", "ijmp", "icall"} => IsListed(2 * ctx'.pc)
  PROVE  ctx'.pc < FlashWords => IsListed(2 * ctx'.pc)
<1> DEFINE a == ctx.pc
<1>0. IInv
  BY DEF DisasmInv
<1>1. a \in 0 .. FlashWords - 1 /\ a \in Int /\ FlashWords \in Int /\ FlashWords <= 32768
  BY <1>0, Fetch, ContextFields, WordRange, FlashAssumption DEF AVRVM_MAX_FLASH_WORDS
<1>2. fetched \in Context /\ fetched.pc = a + 1 /\ fetched2.pc = a + 2
  <2>1. fetched \in Context /\ ctx \in Context
    BY <1>0, Fetch
  <2>2. fetched.pc = Wrap16(a + 1) /\ fetched2.pc = Wrap16(a + 2)
    BY <2>1 DEF fetched, fetched2, Context
  <2>3. Wrap16(a + 1) = a + 1 /\ Wrap16(a + 2) = a + 2
    BY <1>1 DEF Wrap16
  <2> QED
    BY <2>1, <2>2, <2>3
<1>3. instr = Decoded[flash_r(a)]
  BY DEF instr, opcode
<1>4. /\ instr \in TwoWords => IsListed(2 * (a + 2)) \/ a + 2 = FlashWords
      /\ instr \notin TwoWords => IsListed(2 * (a + 1)) \/ a + 1 = FlashWords
  BY <1>1, <1>3, BehindListed
<1>5. CASE instr \in Directs
  <2>1. PICK k \in DOMAIN lines : lines[k].addr = 2 * ctx.pc
    BY DEF IsListed
  <2>2. k \in AtPc
    BY <2>1 DEF AtPc
  <2>3. \/ 2 * ctx'.pc = ListedTarget(lines[k])
        \/ instr \in {"brbc", "brbs"} /\ ctx'.pc = a + 1
    BY <1>5, <2>2, DirectStep
  <2>4. IsListed(ListedTarget(lines[k]))
    BY <1>5, <2>1, <2>2, DirectLines DEF DisasmInv, WellFormed
  <2>5. instr \in {"brbc", "brbs"} => instr \notin TwoWords
    BY DEF TwoWords
  <2>6. CASE 2 * ctx'.pc = ListedTarget(lines[k])
    BY <2>4, <2>6
  <2>7. CASE instr \in {"brbc", "brbs"} /\ ctx'.pc = a + 1
    BY <1>1, <1>4, <2>5, <2>7
  <2> QED
    BY <2>3, <2>6, <2>7
<1>6. CASE instr \in {"ret", "ijmp", "icall"}
  BY <1>6
<1>7. CASE instr \in {"lds", "sts"} /\ ctx'.pc = fetched2.pc
  BY <1>1, <1>2, <1>4, <1>7 DEF TwoWords
<1>8. CASE instr \notin TwoWords /\ ctx'.pc = fetched.pc
  BY <1>1, <1>2, <1>4, <1>8
<1>9. CASE instr \notin TwoWords /\ ctx'.pc = skip_instr(fetched).pc
  <2> DEFINE z == IF Decoded[flash_r(a + 1)] \in TwoWords THEN 2 ELSE 1
  <2>1. z \in {1, 2}
    OBVIOUS
  <2>2. skip_instr(fetched).pc = Wrap16(a + 1 + z)
    BY <1>2 DEF skip_instr, Context
  <2>3. a + 1 < FlashWords => IsListed(2 * (a + 1 + z)) \/ a + 1 + z = FlashWords
    <3>1. SUFFICES ASSUME a + 1 < FlashWords
                   PROVE  IsListed(2 * (a + 1 + z)) \/ a + 1 + z = FlashWords
      OBVIOUS
    <3>2. a + 1 \in 0 .. FlashWords - 1 /\ IsListed(2 * (a + 1))
      BY <1>1, <1>4, <1>9, <3>1
    <3> QED
      BY <3>2, BehindListed
  <2> HIDE DEF z
  <2>4. Wrap16(a + 1 + z) = a + 1 + z
    <3> HIDE DEF a
    <3> DEFINE n == a + 1 + z
    <3>1. n \in Int /\ 0 <= n /\ n < 65536
      BY <1>1, <2>1
    <3> HIDE DEF n
    <3>2. Wrap16(n) = n
      BY <3>1 DEF Wrap16
    <3> QED
      BY <3>2 DEF n
  <2> QED
    BY <1>1, <1>9, <2>1, <2>2, <2>3, <2>4
<1> QED
  BY <1>0, <1>5, <1>6, <1>7, <1>8, <1>9, PcAfter

(* A program that neither passes the end of the flash nor computes a       *)
(* target beside the listing executes listed instructions only: the        *)
(* interpreter, skip_instr and the disassembler agree, for every program,  *)
(* on which words are second words.  This needs the last word not to be    *)
(* the first half of an instruction, which list_opcode swallows.           *)
THEOREM OnlyListedExecuted ==
  ASSUME FlashWords <= AVRVM_MAX_FLASH_WORDS
  PROVE  ListingSpec /\ WholeListing /\ [][~ Strays]_disasmvars => []OnListedLine
<1> DEFINE Inv == /\ DisasmInv /\ WholeListing /\ steps \in Int
                  /\ ctx.pc < FlashWords => IsListed(2 * ctx.pc)
<1>1. ListingInit /\ WholeListing => Inv
  <2> SUFFICES ASSUME ListingInit, WholeListing PROVE Inv
    OBVIOUS
  <2>1. DisasmInv /\ IsListed(0)
    BY DisasmStart, NextListed
  <2>2. 2 * ctx.pc = 0 /\ steps \in Int
    BY DEF ListingInit, HostInit, Init, avrvm_init
  <2> QED
    BY <2>1, <2>2
<1>2. Inv /\ [ListingNext]_disasmvars /\ [~ Strays]_disasmvars => Inv'
  <2> SUFFICES ASSUME Inv, [ListingNext]_disasmvars, [~ Strays]_disasmvars PROVE Inv'
    OBVIOUS
  <2>1. DisasmInv'
    BY DisasmStep
  <2>2. CASE run_bin /\ UNCHANGED lines
    <3>1. avrvm_exec /\ steps' = steps + 1 /\ lines' = lines
      BY <2>2 DEF run_bin
    <3>2. steps' # steps /\ steps' \in Int
      BY <3>1
    <3>3. ~ Strays
      BY <3>2 DEF disasmvars
    <3>4. ctx.pc < FlashWords /\ (instr \in {"ret", "ijmp", "icall"} => IsListed(2 * ctx'.pc))
      <4>1. ~ (ctx.pc >= FlashWords)
        BY <3>2, <3>3 DEF Strays
      <4>2. ctx.pc \in Int
        BY Fetch DEF DisasmInv
      <4> QED
        BY <3>2, <3>3, <4>1, <4>2, FlashAssumption DEF Strays
    <3>5. ctx'.pc < FlashWords => IsListed(2 * ctx'.pc)
      BY <3>1, <3>4, ListedStep
    <3>6. WholeListing'
      BY <3>1, FlashKept DEF WholeListing
    <3> QED
      BY <2>1, <3>1, <3>2, <3>5, <3>6 DEF IsListed
  <2>3. CASE UNCHANGED disasmvars
    BY <2>1, <2>3 DEF disasmvars, WholeListing, IsListed
  <2> QED
    BY <2>2, <2>3 DEF ListingNext, HostNext, Over, disasmvars, hostvars
<1>3. Inv => OnListedLine
  BY DEF OnListedLine, IsListed, AtPc
<1> QED
  BY <1>1, <1>2, <1>3, PTL DEF ListingSpec

=============================================================================
