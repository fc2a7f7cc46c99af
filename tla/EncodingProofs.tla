--------------------------- MODULE EncodingProofs ---------------------------
(***************************************************************************)
(* The table of patterns and the listing: no word matches two patterns,    *)
(* and the lines of a listing assemble to the words they were made of.     *)
(***************************************************************************)
EXTENDS ListingProofs, FiniteSetTheorems

-----------------------------------------------------------------------------
(* The bits of a pattern.                                                  *)

LEMMA Powers ==
  /\ Pow2[1] = 1 /\ Pow2[2] = 2 /\ Pow2[3] = 4 /\ Pow2[4] = 8
  /\ Pow2[5] = 16 /\ Pow2[6] = 32 /\ Pow2[7] = 64 /\ Pow2[8] = 128
  /\ Pow2[9] = 256 /\ Pow2[10] = 512 /\ Pow2[11] = 1024 /\ Pow2[12] = 2048
  /\ Pow2[13] = 4096 /\ Pow2[14] = 8192 /\ Pow2[15] = 16384 /\ Pow2[16] = 32768
  /\ Pow2[17] = 65536
  BY DEF Pow2

LEMMA BitIs ==
  ASSUME NEW x
  PROVE  /\ Bit(x, 0) = (x \div 1) % 2 /\ Bit(x, 1) = (x \div 2) % 2
         /\ Bit(x, 2) = (x \div 4) % 2 /\ Bit(x, 3) = (x \div 8) % 2
         /\ Bit(x, 4) = (x \div 16) % 2 /\ Bit(x, 5) = (x \div 32) % 2
         /\ Bit(x, 6) = (x \div 64) % 2 /\ Bit(x, 7) = (x \div 128) % 2
         /\ Bit(x, 8) = (x \div 256) % 2 /\ Bit(x, 9) = (x \div 512) % 2
         /\ Bit(x, 10) = (x \div 1024) % 2 /\ Bit(x, 11) = (x \div 2048) % 2
         /\ Bit(x, 12) = (x \div 4096) % 2 /\ Bit(x, 13) = (x \div 8192) % 2
         /\ Bit(x, 14) = (x \div 16384) % 2 /\ Bit(x, 15) = (x \div 32768) % 2
  BY Powers DEF Bit

(* A match, position by position.                                          *)
LEMMA Matched ==
  ASSUME NEW row, NEW w
  PROVE  is_op_match(row, w)
         <=> \A j \in 0 .. 15 : Bit(row[2], j) = 1 => Bit(w, j) = Bit(row[3], j)
<1>1. \A j \in 0 .. 15 : 15 - j \in 0 .. 15 /\ 15 - (15 - j) = j
  OBVIOUS
<1> QED
  BY <1>1 DEF is_op_match

(* The bits that a match with a row compares, for each of the eleven masks *)
(* of the table.                                                           *)
LEMMA MaskD208 ==
  ASSUME NEW row, NEW w, row[2] = \hD208, is_op_match(row, w)
  PROVE  /\ Bit(w, 15) = Bit(row[3], 15) /\ Bit(w, 14) = Bit(row[3], 14)
         /\ Bit(w, 12) = Bit(row[3], 12) /\ Bit(w, 9) = Bit(row[3], 9)
         /\ Bit(w, 3) = Bit(row[3], 3)
<1>1. /\ Bit(\hD208, 15) = 1 /\ Bit(\hD208, 14) = 1 /\ Bit(\hD208, 12) = 1
      /\ Bit(\hD208, 9) = 1 /\ Bit(\hD208, 3) = 1
  BY BitIs
<1> QED
  BY <1>1, Matched

LEMMA MaskF000 ==
  ASSUME NEW row, NEW w, row[2] = \hF000, is_op_match(row, w)
  PROVE  /\ Bit(w, 15) = Bit(row[3], 15) /\ Bit(w, 14) = Bit(row[3], 14)
         /\ Bit(w, 13) = Bit(row[3], 13) /\ Bit(w, 12) = Bit(row[3], 12)
<1>1. /\ Bit(\hF000, 15) = 1 /\ Bit(\hF000, 14) = 1 /\ Bit(\hF000, 13) = 1
      /\ Bit(\hF000, 12) = 1
  BY BitIs
<1> QED
  BY <1>1, Matched

LEMMA MaskF800 ==
  ASSUME NEW row, NEW w, row[2] = \hF800, is_op_match(row, w)
  PROVE  /\ Bit(w, 15) = Bit(row[3], 15) /\ Bit(w, 14) = Bit(row[3], 14)
         /\ Bit(w, 13) = Bit(row[3], 13) /\ Bit(w, 12) = Bit(row[3], 12)
         /\ Bit(w, 11) = Bit(row[3], 11)
<1>1. /\ Bit(\hF800, 15) = 1 /\ Bit(\hF800, 14) = 1 /\ Bit(\hF800, 13) = 1
      /\ Bit(\hF800, 12) = 1 /\ Bit(\hF800, 11) = 1
  BY BitIs
<1> QED
  BY <1>1, Matched

LEMMA MaskFC00 ==
  ASSUME NEW row, NEW w, row[2] = \hFC00, is_op_match(row, w)
  PROVE  /\ Bit(w, 15) = Bit(row[3], 15) /\ Bit(w, 14) = Bit(row[3], 14)
         /\ Bit(w, 13) = Bit(row[3], 13) /\ Bit(w, 12) = Bit(row[3], 12)
         /\ Bit(w, 11) = Bit(row[3], 11) /\ Bit(w, 10) = Bit(row[3], 10)
<1>1. /\ Bit(\hFC00, 15) = 1 /\ Bit(\hFC00, 14) = 1 /\ Bit(\hFC00, 13) = 1
      /\ Bit(\hFC00, 12) = 1 /\ Bit(\hFC00, 11) = 1 /\ Bit(\hFC00, 10) = 1
  BY BitIs
<1> QED
  BY <1>1, Matched

LEMMA MaskFE08 ==
  ASSUME NEW row, NEW w, row[2] = \hFE08, is_op_match(row, w)
  PROVE  /\ Bit(w, 15) = Bit(row[3], 15) /\ Bit(w, 14) = Bit(row[3], 14)
         /\ Bit(w, 13) = Bit(row[3], 13) /\ Bit(w, 12) = Bit(row[3], 12)
         /\ Bit(w, 11) = Bit(row[3], 11) /\ Bit(w, 10) = Bit(row[3], 10)
         /\ Bit(w, 9) = Bit(row[3], 9) /\ Bit(w, 3) = Bit(row[3], 3)
<1>1. /\ Bit(\hFE08, 15) = 1 /\ Bit(\hFE08, 14) = 1 /\ Bit(\hFE08, 13) = 1
      /\ Bit(\hFE08, 12) = 1 /\ Bit(\hFE08, 11) = 1 /\ Bit(\hFE08, 10) = 1
  BY BitIs
<1>2. /\ Bit(\hFE08, 9) = 1 /\ Bit(\hFE08, 3) = 1
  BY BitIs
<1> QED
  BY <1>1, <1>2, Matched

LEMMA MaskFE0E ==
  ASSUME NEW row, NEW w, row[2] = \hFE0E, is_op_match(row, w)
  PROVE  /\ Bit(w, 15) = Bit(row[3], 15) /\ Bit(w, 14) = Bit(row[3], 14)
         /\ Bit(w, 13) = Bit(row[3], 13) /\ Bit(w, 12) = Bit(row[3], 12)
         /\ Bit(w, 11) = Bit(row[3], 11) /\ Bit(w, 10) = Bit(row[3], 10)
         /\ Bit(w, 9) = Bit(row[3], 9) /\ Bit(w, 3) = Bit(row[3], 3)
         /\ Bit(w, 2) = Bit(row[3], 2) /\ Bit(w, 1) = Bit(row[3], 1)
<1>1. /\ Bit(\hFE0E, 15) = 1 /\ Bit(\hFE0E, 14) = 1 /\ Bit(\hFE0E, 13) = 1
      /\ Bit(\hFE0E, 12) = 1 /\ Bit(\hFE0E, 11) = 1 /\ Bit(\hFE0E, 10) = 1
  BY BitIs
<1>2. /\ Bit(\hFE0E, 9) = 1 /\ Bit(\hFE0E, 3) = 1 /\ Bit(\hFE0E, 2) = 1
      /\ Bit(\hFE0E, 1) = 1
  BY BitIs
<1> QED
  BY <1>1, <1>2, Matched

LEMMA MaskFE0F ==
  ASSUME NEW row, NEW w, row[2] = \hFE0F, is_op_match(row, w)
  PROVE  /\ Bit(w, 15) = Bit(row[3], 15) /\ Bit(w, 14) = Bit(row[3], 14)
         /\ Bit(w, 13) = Bit(row[3], 13) /\ Bit(w, 12) = Bit(row[3], 12)
         /\ Bit(w, 11) = Bit(row[3], 11) /\ Bit(w, 10) = Bit(row[3], 10)
         /\ Bit(w, 9) = Bit(row[3], 9) /\ Bit(w, 3) = Bit(row[3], 3)
         /\ Bit(w, 2) = Bit(row[3], 2) /\ Bit(w, 1) = Bit(row[3], 1)
         /\ Bit(w, 0) = Bit(row[3], 0)
<1>1. /\ Bit(\hFE0F, 15) = 1 /\ Bit(\hFE0F, 14) = 1 /\ Bit(\hFE0F, 13) = 1
      /\ Bit(\hFE0F, 12) = 1 /\ Bit(\hFE0F, 11) = 1 /\ Bit(\hFE0F, 10) = 1
  BY BitIs
<1>2. /\ Bit(\hFE0F, 9) = 1 /\ Bit(\hFE0F, 3) = 1 /\ Bit(\hFE0F, 2) = 1
      /\ Bit(\hFE0F, 1) = 1 /\ Bit(\hFE0F, 0) = 1
  BY BitIs
<1> QED
  BY <1>1, <1>2, Matched

LEMMA MaskFF00 ==
  ASSUME NEW row, NEW w, row[2] = \hFF00, is_op_match(row, w)
  PROVE  /\ Bit(w, 15) = Bit(row[3], 15) /\ Bit(w, 14) = Bit(row[3], 14)
         /\ Bit(w, 13) = Bit(row[3], 13) /\ Bit(w, 12) = Bit(row[3], 12)
         /\ Bit(w, 11) = Bit(row[3], 11) /\ Bit(w, 10) = Bit(row[3], 10)
         /\ Bit(w, 9) = Bit(row[3], 9) /\ Bit(w, 8) = Bit(row[3], 8)
<1>1. /\ Bit(\hFF00, 15) = 1 /\ Bit(\hFF00, 14) = 1 /\ Bit(\hFF00, 13) = 1
      /\ Bit(\hFF00, 12) = 1 /\ Bit(\hFF00, 11) = 1 /\ Bit(\hFF00, 10) = 1
  BY BitIs
<1>2. /\ Bit(\hFF00, 9) = 1 /\ Bit(\hFF00, 8) = 1
  BY BitIs
<1> QED
  BY <1>1, <1>2, Matched

LEMMA MaskFF88 ==
  ASSUME NEW row, NEW w, row[2] = \hFF88, is_op_match(row, w)
  PROVE  /\ Bit(w, 15) = Bit(row[3], 15) /\ Bit(w, 14) = Bit(row[3], 14)
         /\ Bit(w, 13) = Bit(row[3], 13) /\ Bit(w, 12) = Bit(row[3], 12)
         /\ Bit(w, 11) = Bit(row[3], 11) /\ Bit(w, 10) = Bit(row[3], 10)
         /\ Bit(w, 9) = Bit(row[3], 9) /\ Bit(w, 8) = Bit(row[3], 8)
         /\ Bit(w, 7) = Bit(row[3], 7) /\ Bit(w, 3) = Bit(row[3], 3)
<1>1. /\ Bit(\hFF88, 15) = 1 /\ Bit(\hFF88, 14) = 1 /\ Bit(\hFF88, 13) = 1
      /\ Bit(\hFF88, 12) = 1 /\ Bit(\hFF88, 11) = 1 /\ Bit(\hFF88, 10) = 1
  BY BitIs
<1>2. /\ Bit(\hFF88, 9) = 1 /\ Bit(\hFF88, 8) = 1 /\ Bit(\hFF88, 7) = 1
      /\ Bit(\hFF88, 3) = 1
  BY BitIs
<1> QED
  BY <1>1, <1>2, Matched

LEMMA MaskFF8F ==
  ASSUME NEW row, NEW w, row[2] = \hFF8F, is_op_match(row, w)
  PROVE  /\ Bit(w, 15) = Bit(row[3], 15) /\ Bit(w, 14) = Bit(row[3], 14)
         /\ Bit(w, 13) = Bit(row[3], 13) /\ Bit(w, 12) = Bit(row[3], 12)
         /\ Bit(w, 11) = Bit(row[3], 11) /\ Bit(w, 10) = Bit(row[3], 10)
         /\ Bit(w, 9) = Bit(row[3], 9) /\ Bit(w, 8) = Bit(row[3], 8)
         /\ Bit(w, 7) = Bit(row[3], 7) /\ Bit(w, 3) = Bit(row[3], 3)
         /\ Bit(w, 2) = Bit(row[3], 2) /\ Bit(w, 1) = Bit(row[3], 1)
         /\ Bit(w, 0) = Bit(row[3], 0)
<1>1. /\ Bit(\hFF8F, 15) = 1 /\ Bit(\hFF8F, 14) = 1 /\ Bit(\hFF8F, 13) = 1
      /\ Bit(\hFF8F, 12) = 1 /\ Bit(\hFF8F, 11) = 1 /\ Bit(\hFF8F, 10) = 1
  BY BitIs
<1>2. /\ Bit(\hFF8F, 9) = 1 /\ Bit(\hFF8F, 8) = 1 /\ Bit(\hFF8F, 7) = 1
      /\ Bit(\hFF8F, 3) = 1 /\ Bit(\hFF8F, 2) = 1 /\ Bit(\hFF8F, 1) = 1
  BY BitIs
<1>3. /\ Bit(\hFF8F, 0) = 1
  BY BitIs
<1> QED
  BY <1>1, <1>2, <1>3, Matched

LEMMA MaskFFFF ==
  ASSUME NEW row, NEW w, row[2] = \hFFFF, is_op_match(row, w)
  PROVE  /\ Bit(w, 15) = Bit(row[3], 15) /\ Bit(w, 14) = Bit(row[3], 14)
         /\ Bit(w, 13) = Bit(row[3], 13) /\ Bit(w, 12) = Bit(row[3], 12)
         /\ Bit(w, 11) = Bit(row[3], 11) /\ Bit(w, 10) = Bit(row[3], 10)
         /\ Bit(w, 9) = Bit(row[3], 9) /\ Bit(w, 8) = Bit(row[3], 8)
         /\ Bit(w, 7) = Bit(row[3], 7) /\ Bit(w, 6) = Bit(row[3], 6)
         /\ Bit(w, 5) = Bit(row[3], 5) /\ Bit(w, 4) = Bit(row[3], 4)
         /\ Bit(w, 3) = Bit(row[3], 3) /\ Bit(w, 2) = Bit(row[3], 2)
         /\ Bit(w, 1) = Bit(row[3], 1) /\ Bit(w, 0) = Bit(row[3], 0)
<1>1. /\ Bit(\hFFFF, 15) = 1 /\ Bit(\hFFFF, 14) = 1 /\ Bit(\hFFFF, 13) = 1
      /\ Bit(\hFFFF, 12) = 1 /\ Bit(\hFFFF, 11) = 1 /\ Bit(\hFFFF, 10) = 1
  BY BitIs
<1>2. /\ Bit(\hFFFF, 9) = 1 /\ Bit(\hFFFF, 8) = 1 /\ Bit(\hFFFF, 7) = 1
      /\ Bit(\hFFFF, 6) = 1 /\ Bit(\hFFFF, 5) = 1 /\ Bit(\hFFFF, 4) = 1
  BY BitIs
<1>3. /\ Bit(\hFFFF, 3) = 1 /\ Bit(\hFFFF, 2) = 1 /\ Bit(\hFFFF, 1) = 1
      /\ Bit(\hFFFF, 0) = 1
  BY BitIs
<1> QED
  BY <1>1, <1>2, <1>3, Matched

-----------------------------------------------------------------------------
(* The rows exclude one another.                                           *)

(* The only row that a word may match, by the bits that tell the rows      *)
(* apart.                                                                  *)
RowOf(w) ==
  IF Bit(w, 15) = 1 THEN
    IF Bit(w, 14) = 1 THEN
      IF Bit(w, 13) = 1 THEN
        IF Bit(w, 12) # 1 THEN 24
        ELSE IF Bit(w, 10) = 1 THEN
          IF Bit(w, 11) # 1 THEN 41
          ELSE IF Bit(w, 9) = 1 THEN 30
          ELSE 29
        ELSE IF Bit(w, 11) # 1 THEN 42
        ELSE IF Bit(w, 9) = 1 THEN 32
        ELSE 31
      ELSE IF Bit(w, 12) = 1 THEN 43
      ELSE 44
    ELSE IF Bit(w, 12) = 1 THEN
      IF Bit(w, 11) = 1 THEN
        IF Bit(w, 13) = 1 THEN 34
        ELSE IF Bit(w, 10) = 1 THEN 19
        ELSE IF Bit(w, 9) = 1 THEN
          IF Bit(w, 8) = 1 THEN 40
          ELSE 38
        ELSE IF Bit(w, 8) = 1 THEN 39
        ELSE 37
      ELSE IF Bit(w, 13) = 1 THEN 33
      ELSE IF Bit(w, 10) = 1 THEN
        IF Bit(w, 9) = 1 THEN
          IF Bit(w, 8) = 1 THEN 36
          ELSE 35
        ELSE IF Bit(w, 3) = 1 THEN
          IF Bit(w, 2) = 1 THEN
            IF Bit(w, 1) = 1 THEN 45
            ELSE 46
          ELSE IF Bit(w, 0) = 1 THEN
            IF Bit(w, 8) = 1 THEN 3
            ELSE 4
          ELSE IF Bit(w, 1) = 1 THEN 49
          ELSE IF Bit(w, 8) = 1 THEN
            IF Bit(w, 7) # 1 THEN 10
            ELSE IF Bit(w, 6) = 1 THEN 5
            ELSE IF Bit(w, 5) = 1 THEN 9
            ELSE IF Bit(w, 4) = 1 THEN 84
            ELSE 83
          ELSE IF Bit(w, 7) = 1 THEN 1
          ELSE 2
        ELSE IF Bit(w, 2) = 1 THEN
          IF Bit(w, 1) # 1 THEN 47
          ELSE IF Bit(w, 0) = 1 THEN 55
          ELSE 51
        ELSE IF Bit(w, 1) = 1 THEN
          IF Bit(w, 0) = 1 THEN 50
          ELSE 56
        ELSE IF Bit(w, 0) = 1 THEN 52
        ELSE 48
      ELSE IF Bit(w, 2) = 1 THEN
        IF Bit(w, 0) = 1 THEN
          IF Bit(w, 9) = 1 THEN
            IF Bit(w, 1) = 1 THEN 54
            ELSE 70
          ELSE IF Bit(w, 3) # 1 THEN 7
          ELSE IF Bit(w, 1) = 1 THEN 53
          ELSE 61
        ELSE IF Bit(w, 9) = 1 THEN
          IF Bit(w, 1) = 1 THEN 71
          ELSE 69
        ELSE IF Bit(w, 3) # 1 THEN 6
        ELSE IF Bit(w, 1) = 1 THEN 62
        ELSE 60
      ELSE IF Bit(w, 9) = 1 THEN
        IF Bit(w, 3) = 1 THEN
          IF Bit(w, 1) = 1 THEN 73
          ELSE 72
        ELSE IF Bit(w, 1) = 1 THEN 76
        ELSE IF Bit(w, 0) = 1 THEN 75
        ELSE 58
      ELSE IF Bit(w, 3) = 1 THEN
        IF Bit(w, 1) = 1 THEN 64
        ELSE 63
      ELSE IF Bit(w, 1) = 1 THEN 67
      ELSE IF Bit(w, 0) = 1 THEN 66
      ELSE 59
    ELSE IF Bit(w, 9) = 1 THEN
      IF Bit(w, 3) = 1 THEN 74
      ELSE 77
    ELSE IF Bit(w, 3) = 1 THEN 65
    ELSE 68
  ELSE IF Bit(w, 13) = 1 THEN
    IF Bit(w, 14) = 1 THEN
      IF Bit(w, 12) = 1 THEN 23
      ELSE 25
    ELSE IF Bit(w, 12) = 1 THEN 26
    ELSE IF Bit(w, 11) = 1 THEN
      IF Bit(w, 10) = 1 THEN 18
      ELSE 20
    ELSE IF Bit(w, 10) = 1 THEN 17
    ELSE 13
  ELSE IF Bit(w, 12) = 1 THEN
    IF Bit(w, 14) = 1 THEN 28
    ELSE IF Bit(w, 11) = 1 THEN
      IF Bit(w, 10) = 1 THEN 11
      ELSE 22
    ELSE IF Bit(w, 10) = 1 THEN 14
    ELSE 16
  ELSE IF Bit(w, 14) = 1 THEN 27
  ELSE IF Bit(w, 11) = 1 THEN
    IF Bit(w, 10) = 1 THEN 12
    ELSE 21
  ELSE IF Bit(w, 10) = 1 THEN 15
  ELSE IF Bit(w, 9) = 1 THEN
    IF Bit(w, 8) # 1 THEN 78
    ELSE IF Bit(w, 7) = 1 THEN
      IF Bit(w, 3) = 1 THEN 82
      ELSE 81
    ELSE IF Bit(w, 3) = 1 THEN 80
    ELSE 79
  ELSE IF Bit(w, 8) = 1 THEN 57
  ELSE 8

LEMMA OneRow == ASSUME NEW w PROVE \A k \in 1 .. 84 : is_op_match(SPEC[k], w) => k = RowOf(w)
<1>1. is_op_match(SPEC[1], w) => 1 = RowOf(w)
  BY BitIs, MaskFF8F DEF SPEC, RowOf
<1>2. is_op_match(SPEC[2], w) => 2 = RowOf(w)
  BY BitIs, MaskFF8F DEF SPEC, RowOf
<1>3. is_op_match(SPEC[3], w) => 3 = RowOf(w)
  BY BitIs, MaskFFFF DEF SPEC, RowOf
<1>4. is_op_match(SPEC[4], w) => 4 = RowOf(w)
  BY BitIs, MaskFFFF DEF SPEC, RowOf
<1>5. is_op_match(SPEC[5], w) => 5 = RowOf(w)
  BY BitIs, MaskFFFF DEF SPEC, RowOf
<1>6. is_op_match(SPEC[6], w) => 6 = RowOf(w)
  BY BitIs, MaskFE0F DEF SPEC, RowOf
<1>7. is_op_match(SPEC[7], w) => 7 = RowOf(w)
  BY BitIs, MaskFE0F DEF SPEC, RowOf
<1>8. is_op_match(SPEC[8], w) => 8 = RowOf(w)
  BY BitIs, MaskFFFF DEF SPEC, RowOf
<1>9. is_op_match(SPEC[9], w) => 9 = RowOf(w)
  BY BitIs, MaskFFFF DEF SPEC, RowOf
<1>10. is_op_match(SPEC[10], w) => 10 = RowOf(w)
  BY BitIs, MaskFFFF DEF SPEC, RowOf
<1>11. is_op_match(SPEC[11], w) => 11 = RowOf(w)
  BY BitIs, MaskFC00 DEF SPEC, RowOf
<1>12. is_op_match(SPEC[12], w) => 12 = RowOf(w)
  BY BitIs, MaskFC00 DEF SPEC, RowOf
<1>13. is_op_match(SPEC[13], w) => 13 = RowOf(w)
  BY BitIs, MaskFC00 DEF SPEC, RowOf
<1>14. is_op_match(SPEC[14], w) => 14 = RowOf(w)
  BY BitIs, MaskFC00 DEF SPEC, RowOf
<1>15. is_op_match(SPEC[15], w) => 15 = RowOf(w)
  BY BitIs, MaskFC00 DEF SPEC, RowOf
<1>16. is_op_match(SPEC[16], w) => 16 = RowOf(w)
  BY BitIs, MaskFC00 DEF SPEC, RowOf
<1>17. is_op_match(SPEC[17], w) => 17 = RowOf(w)
  BY BitIs, MaskFC00 DEF SPEC, RowOf
<1>18. is_op_match(SPEC[18], w) => 18 = RowOf(w)
  BY BitIs, MaskFC00 DEF SPEC, RowOf
<1>19. is_op_match(SPEC[19], w) => 19 = RowOf(w)
  BY BitIs, MaskFC00 DEF SPEC, RowOf
<1>20. is_op_match(SPEC[20], w) => 20 = RowOf(w)
  BY BitIs, MaskFC00 DEF SPEC, RowOf
<1>21. is_op_match(SPEC[21], w) => 21 = RowOf(w)
  BY BitIs, MaskFC00 DEF SPEC, RowOf
<1>22. is_op_match(SPEC[22], w) => 22 = RowOf(w)
  BY BitIs, MaskFC00 DEF SPEC, RowOf
<1>23. is_op_match(SPEC[23], w) => 23 = RowOf(w)
  BY BitIs, MaskF000 DEF SPEC, RowOf
<1>24. is_op_match(SPEC[24], w) => 24 = RowOf(w)
  BY BitIs, MaskF000 DEF SPEC, RowOf
<1>25. is_op_match(SPEC[25], w) => 25 = RowOf(w)
  BY BitIs, MaskF000 DEF SPEC, RowOf
<1>26. is_op_match(SPEC[26], w) => 26 = RowOf(w)
  BY BitIs, MaskF000 DEF SPEC, RowOf
<1>27. is_op_match(SPEC[27], w) => 27 = RowOf(w)
  BY BitIs, MaskF000 DEF SPEC, RowOf
<1>28. is_op_match(SPEC[28], w) => 28 = RowOf(w)
  BY BitIs, MaskF000 DEF SPEC, RowOf
<1>29. is_op_match(SPEC[29], w) => 29 = RowOf(w)
  BY BitIs, MaskFE08 DEF SPEC, RowOf
<1>30. is_op_match(SPEC[30], w) => 30 = RowOf(w)
  BY BitIs, MaskFE08 DEF SPEC, RowOf
<1>31. is_op_match(SPEC[31], w) => 31 = RowOf(w)
  BY BitIs, MaskFE08 DEF SPEC, RowOf
<1>32. is_op_match(SPEC[32], w) => 32 = RowOf(w)
  BY BitIs, MaskFE08 DEF SPEC, RowOf
<1>33. is_op_match(SPEC[33], w) => 33 = RowOf(w)
  BY BitIs, MaskF800 DEF SPEC, RowOf
<1>34. is_op_match(SPEC[34], w) => 34 = RowOf(w)
  BY BitIs, MaskF800 DEF SPEC, RowOf
<1>35. is_op_match(SPEC[35], w) => 35 = RowOf(w)
  BY BitIs, MaskFF00 DEF SPEC, RowOf
<1>36. is_op_match(SPEC[36], w) => 36 = RowOf(w)
  BY BitIs, MaskFF00 DEF SPEC, RowOf
<1>37. is_op_match(SPEC[37], w) => 37 = RowOf(w)
  BY BitIs, MaskFF00 DEF SPEC, RowOf
<1>38. is_op_match(SPEC[38], w) => 38 = RowOf(w)
  BY BitIs, MaskFF00 DEF SPEC, RowOf
<1>39. is_op_match(SPEC[39], w) => 39 = RowOf(w)
  BY BitIs, MaskFF00 DEF SPEC, RowOf
<1>40. is_op_match(SPEC[40], w) => 40 = RowOf(w)
  BY BitIs, MaskFF00 DEF SPEC, RowOf
<1>41. is_op_match(SPEC[41], w) => 41 = RowOf(w)
  BY BitIs, MaskFC00 DEF SPEC, RowOf
<1>42. is_op_match(SPEC[42], w) => 42 = RowOf(w)
  BY BitIs, MaskFC00 DEF SPEC, RowOf
<1>43. is_op_match(SPEC[43], w) => 43 = RowOf(w)
  BY BitIs, MaskF000 DEF SPEC, RowOf
<1>44. is_op_match(SPEC[44], w) => 44 = RowOf(w)
  BY BitIs, MaskF000 DEF SPEC, RowOf
<1>45. is_op_match(SPEC[45], w) => 45 = RowOf(w)
  BY BitIs, MaskFE0E DEF SPEC, RowOf
<1>46. is_op_match(SPEC[46], w) => 46 = RowOf(w)
  BY BitIs, MaskFE0E DEF SPEC, RowOf
<1>47. is_op_match(SPEC[47], w) => 47 = RowOf(w)
  BY BitIs, MaskFE0F DEF SPEC, RowOf
<1>48. is_op_match(SPEC[48], w) => 48 = RowOf(w)
  BY BitIs, MaskFE0F DEF SPEC, RowOf
<1>49. is_op_match(SPEC[49], w) => 49 = RowOf(w)
  BY BitIs, MaskFE0F DEF SPEC, RowOf
<1>50. is_op_match(SPEC[50], w) => 50 = RowOf(w)
  BY BitIs, MaskFE0F DEF SPEC, RowOf
<1>51. is_op_match(SPEC[51], w) => 51 = RowOf(w)
  BY BitIs, MaskFE0F DEF SPEC, RowOf
<1>52. is_op_match(SPEC[52], w) => 52 = RowOf(w)
  BY BitIs, MaskFE0F DEF SPEC, RowOf
<1>53. is_op_match(SPEC[53], w) => 53 = RowOf(w)
  BY BitIs, MaskFE0F DEF SPEC, RowOf
<1>54. is_op_match(SPEC[54], w) => 54 = RowOf(w)
  BY BitIs, MaskFE0F DEF SPEC, RowOf
<1>55. is_op_match(SPEC[55], w) => 55 = RowOf(w)
  BY BitIs, MaskFE0F DEF SPEC, RowOf
<1>56. is_op_match(SPEC[56], w) => 56 = RowOf(w)
  BY BitIs, MaskFE0F DEF SPEC, RowOf
<1>57. is_op_match(SPEC[57], w) => 57 = RowOf(w)
  BY BitIs, MaskFF00 DEF SPEC, RowOf
<1>58. is_op_match(SPEC[58], w) => 58 = RowOf(w)
  BY BitIs, MaskFE0F DEF SPEC, RowOf
<1>59. is_op_match(SPEC[59], w) => 59 = RowOf(w)
  BY BitIs, MaskFE0F DEF SPEC, RowOf
<1>60. is_op_match(SPEC[60], w) => 60 = RowOf(w)
  BY BitIs, MaskFE0F DEF SPEC, RowOf
<1>61. is_op_match(SPEC[61], w) => 61 = RowOf(w)
  BY BitIs, MaskFE0F DEF SPEC, RowOf
<1>62. is_op_match(SPEC[62], w) => 62 = RowOf(w)
  BY BitIs, MaskFE0F DEF SPEC, RowOf
<1>63. is_op_match(SPEC[63], w) => 63 = RowOf(w)
  BY BitIs, MaskFE0F DEF SPEC, RowOf
<1>64. is_op_match(SPEC[64], w) => 64 = RowOf(w)
  BY BitIs, MaskFE0F DEF SPEC, RowOf
<1>65. is_op_match(SPEC[65], w) => 65 = RowOf(w)
  BY BitIs, MaskD208 DEF SPEC, RowOf
<1>66. is_op_match(SPEC[66], w) => 66 = RowOf(w)
  BY BitIs, MaskFE0F DEF SPEC, RowOf
<1>67. is_op_match(SPEC[67], w) => 67 = RowOf(w)
  BY BitIs, MaskFE0F DEF SPEC, RowOf
<1>68. is_op_match(SPEC[68], w) => 68 = RowOf(w)
  BY BitIs, MaskD208 DEF SPEC, RowOf
<1>69. is_op_match(SPEC[69], w) => 69 = RowOf(w)
  BY BitIs, MaskFE0F DEF SPEC, RowOf
<1>70. is_op_match(SPEC[70], w) => 70 = RowOf(w)
  BY BitIs, MaskFE0F DEF SPEC, RowOf
<1>71. is_op_match(SPEC[71], w) => 71 = RowOf(w)
  BY BitIs, MaskFE0F DEF SPEC, RowOf
<1>72. is_op_match(SPEC[72], w) => 72 = RowOf(w)
  BY BitIs, MaskFE0F DEF SPEC, RowOf
<1>73. is_op_match(SPEC[73], w) => 73 = RowOf(w)
  BY BitIs, MaskFE0F DEF SPEC, RowOf
<1>74. is_op_match(SPEC[74], w) => 74 = RowOf(w)
  BY BitIs, MaskD208 DEF SPEC, RowOf
<1>75. is_op_match(SPEC[75], w) => 75 = RowOf(w)
  BY BitIs, MaskFE0F DEF SPEC, RowOf
<1>76. is_op_match(SPEC[76], w) => 76 = RowOf(w)
  BY BitIs, MaskFE0F DEF SPEC, RowOf
<1>77. is_op_match(SPEC[77], w) => 77 = RowOf(w)
  BY BitIs, MaskD208 DEF SPEC, RowOf
<1>78. is_op_match(SPEC[78], w) => 78 = RowOf(w)
  BY BitIs, MaskFF00 DEF SPEC, RowOf
<1>79. is_op_match(SPEC[79], w) => 79 = RowOf(w)
  BY BitIs, MaskFF88 DEF SPEC, RowOf
<1>80. is_op_match(SPEC[80], w) => 80 = RowOf(w)
  BY BitIs, MaskFF88 DEF SPEC, RowOf
<1>81. is_op_match(SPEC[81], w) => 81 = RowOf(w)
  BY BitIs, MaskFF88 DEF SPEC, RowOf
<1>82. is_op_match(SPEC[82], w) => 82 = RowOf(w)
  BY BitIs, MaskFF88 DEF SPEC, RowOf
<1>83. is_op_match(SPEC[83], w) => 83 = RowOf(w)
  BY BitIs, MaskFFFF DEF SPEC, RowOf
<1>84. is_op_match(SPEC[84], w) => 84 = RowOf(w)
  BY BitIs, MaskFFFF DEF SPEC, RowOf
<1> QED
  BY <1>1, <1>2, <1>3, <1>4, <1>5, <1>6, <1>7, <1>8, <1>9, <1>10, <1>11,
     <1>12, <1>13, <1>14, <1>15, <1>16, <1>17, <1>18, <1>19, <1>20, <1>21,
     <1>22, <1>23, <1>24, <1>25, <1>26, <1>27, <1>28, <1>29, <1>30, <1>31,
     <1>32, <1>33, <1>34, <1>35, <1>36, <1>37, <1>38, <1>39, <1>40, <1>41,
     <1>42, <1>43, <1>44, <1>45, <1>46, <1>47, <1>48, <1>49, <1>50, <1>51,
     <1>52, <1>53, <1>54, <1>55, <1>56, <1>57, <1>58, <1>59, <1>60, <1>61,
     <1>62, <1>63, <1>64, <1>65, <1>66, <1>67, <1>68, <1>69, <1>70, <1>71,
     <1>72, <1>73, <1>74, <1>75, <1>76, <1>77, <1>78, <1>79, <1>80, <1>81,
     <1>82, <1>83, <1>84

LEMMA Table == DOMAIN SPEC = 1 .. 84
  BY DEF SPEC

LEMMA AtMostOne == ASSUME NEW w PROVE Matches(w) \subseteq {RowOf(w)}
  BY OneRow, Table DEF Matches

(* No word matches two patterns, of any file: the first match on which     *)
(* everything here builds is the only one, and the order of SPEC, by which *)
(* gen_luts chooses among several (full_matches[0]), decides nothing.      *)
THEOREM NoWordTwice == ListSpec => []Unambiguous
<1>1. \A w : Cardinality(Matches(w)) <= 1
  <2> TAKE w
  <2>1. Matches(w) = {} \/ Matches(w) = {RowOf(w)}
    BY AtMostOne
  <2>2. Cardinality({}) = 0 /\ Cardinality({RowOf(w)}) = 1
    BY FS_EmptySet, FS_Singleton
  <2>3. Cardinality(Matches(w)) = 0 \/ Cardinality(Matches(w)) = 1
    BY <2>1, <2>2
  <2> QED
    BY <2>3
<1>2. Unambiguous
  BY <1>1 DEF Unambiguous
<1> QED
  BY <1>2, PTL

-----------------------------------------------------------------------------
(* A word is the fixed bits of its row and its operand fields.             *)

(* How far two words are apart without their j last bits.                  *)
Gap(w, v, j) == w \div Pow2[j + 1] - v \div Pow2[j + 1]

LEMMA GapType == ASSUME NEW w \in Nat, NEW v \in Nat PROVE 
  /\ Gap(w, v, 0) \in Int /\ Gap(w, v, 1) \in Int /\ Gap(w, v, 2) \in Int /\ Gap(w, v, 3) \in Int
  /\ Gap(w, v, 4) \in Int /\ Gap(w, v, 5) \in Int /\ Gap(w, v, 6) \in Int /\ Gap(w, v, 7) \in Int
  /\ Gap(w, v, 8) \in Int /\ Gap(w, v, 9) \in Int /\ Gap(w, v, 10) \in Int /\ Gap(w, v, 11) \in Int
  /\ Gap(w, v, 12) \in Int /\ Gap(w, v, 13) \in Int /\ Gap(w, v, 14) \in Int /\ Gap(w, v, 15) \in Int
  /\ Gap(w, v, 16) \in Int
  BY Powers DEF Gap

(* An equal bit adds nothing.                                              *)
LEMMA GapBits ==
  ASSUME NEW w \in Nat, NEW v \in Nat
  PROVE  /\ Bit(w, 0) = Bit(v, 0) => Gap(w, v, 0) = 2 * Gap(w, v, 1)
         /\ Bit(w, 1) = Bit(v, 1) => Gap(w, v, 1) = 2 * Gap(w, v, 2)
         /\ Bit(w, 2) = Bit(v, 2) => Gap(w, v, 2) = 2 * Gap(w, v, 3)
         /\ Bit(w, 3) = Bit(v, 3) => Gap(w, v, 3) = 2 * Gap(w, v, 4)
         /\ Bit(w, 4) = Bit(v, 4) => Gap(w, v, 4) = 2 * Gap(w, v, 5)
         /\ Bit(w, 5) = Bit(v, 5) => Gap(w, v, 5) = 2 * Gap(w, v, 6)
         /\ Bit(w, 6) = Bit(v, 6) => Gap(w, v, 6) = 2 * Gap(w, v, 7)
         /\ Bit(w, 7) = Bit(v, 7) => Gap(w, v, 7) = 2 * Gap(w, v, 8)
         /\ Bit(w, 8) = Bit(v, 8) => Gap(w, v, 8) = 2 * Gap(w, v, 9)
         /\ Bit(w, 9) = Bit(v, 9) => Gap(w, v, 9) = 2 * Gap(w, v, 10)
         /\ Bit(w, 10) = Bit(v, 10) => Gap(w, v, 10) = 2 * Gap(w, v, 11)
         /\ Bit(w, 11) = Bit(v, 11) => Gap(w, v, 11) = 2 * Gap(w, v, 12)
         /\ Bit(w, 12) = Bit(v, 12) => Gap(w, v, 12) = 2 * Gap(w, v, 13)
         /\ Bit(w, 13) = Bit(v, 13) => Gap(w, v, 13) = 2 * Gap(w, v, 14)
         /\ Bit(w, 14) = Bit(v, 14) => Gap(w, v, 14) = 2 * Gap(w, v, 15)
         /\ Bit(w, 15) = Bit(v, 15) => Gap(w, v, 15) = 2 * Gap(w, v, 16)
<1>0. Bit(w, 0) = Bit(v, 0) => Gap(w, v, 0) = 2 * Gap(w, v, 1)
  <2> DEFINE q == w \div 1
             h == w \div 2
             r == v \div 1
             g == v \div 2
  <2>1. Gap(w, v, 0) = q - r /\ Gap(w, v, 1) = h - g /\ Bit(w, 0) = q % 2 /\ Bit(v, 0) = r % 2
    BY Powers DEF Gap, Bit
  <2>2. /\ q \in Nat /\ h \in Nat /\ q = 2 * h + (q % 2) /\ q % 2 \in Nat
        /\ r \in Nat /\ g \in Nat /\ r = 2 * g + (r % 2) /\ r % 2 \in Nat
    OBVIOUS
  <2> HIDE DEF q, h, r, g
  <2> QED
    BY <2>1, <2>2
<1>1. Bit(w, 1) = Bit(v, 1) => Gap(w, v, 1) = 2 * Gap(w, v, 2)
  <2> DEFINE q == w \div 2
             h == w \div 4
             r == v \div 2
             g == v \div 4
  <2>1. Gap(w, v, 1) = q - r /\ Gap(w, v, 2) = h - g /\ Bit(w, 1) = q % 2 /\ Bit(v, 1) = r % 2
    BY Powers DEF Gap, Bit
  <2>2. /\ q \in Nat /\ h \in Nat /\ q = 2 * h + (q % 2) /\ q % 2 \in Nat
        /\ r \in Nat /\ g \in Nat /\ r = 2 * g + (r % 2) /\ r % 2 \in Nat
    OBVIOUS
  <2> HIDE DEF q, h, r, g
  <2> QED
    BY <2>1, <2>2
<1>2. Bit(w, 2) = Bit(v, 2) => Gap(w, v, 2) = 2 * Gap(w, v, 3)
  <2> DEFINE q == w \div 4
             h == w \div 8
             r == v \div 4
             g == v \div 8
  <2>1. Gap(w, v, 2) = q - r /\ Gap(w, v, 3) = h - g /\ Bit(w, 2) = q % 2 /\ Bit(v, 2) = r % 2
    BY Powers DEF Gap, Bit
  <2>2. /\ q \in Nat /\ h \in Nat /\ q = 2 * h + (q % 2) /\ q % 2 \in Nat
        /\ r \in Nat /\ g \in Nat /\ r = 2 * g + (r % 2) /\ r % 2 \in Nat
    OBVIOUS
  <2> HIDE DEF q, h, r, g
  <2> QED
    BY <2>1, <2>2
<1>3. Bit(w, 3) = Bit(v, 3) => Gap(w, v, 3) = 2 * Gap(w, v, 4)
  <2> DEFINE q == w \div 8
             h == w \div 16
             r == v \div 8
             g == v \div 16
  <2>1. Gap(w, v, 3) = q - r /\ Gap(w, v, 4) = h - g /\ Bit(w, 3) = q % 2 /\ Bit(v, 3) = r % 2
    BY Powers DEF Gap, Bit
  <2>2. /\ q \in Nat /\ h \in Nat /\ q = 2 * h + (q % 2) /\ q % 2 \in Nat
        /\ r \in Nat /\ g \in Nat /\ r = 2 * g + (r % 2) /\ r % 2 \in Nat
    OBVIOUS
  <2> HIDE DEF q, h, r, g
  <2> QED
    BY <2>1, <2>2
<1>4. Bit(w, 4) = Bit(v, 4) => Gap(w, v, 4) = 2 * Gap(w, v, 5)
  <2> DEFINE q == w \div 16
             h == w \div 32
             r == v \div 16
             g == v \div 32
  <2>1. Gap(w, v, 4) = q - r /\ Gap(w, v, 5) = h - g /\ Bit(w, 4) = q % 2 /\ Bit(v, 4) = r % 2
    BY Powers DEF Gap, Bit
  <2>2. /\ q \in Nat /\ h \in Nat /\ q = 2 * h + (q % 2) /\ q % 2 \in Nat
        /\ r \in Nat /\ g \in Nat /\ r = 2 * g + (r % 2) /\ r % 2 \in Nat
    OBVIOUS
  <2> HIDE DEF q, h, r, g
  <2> QED
    BY <2>1, <2>2
<1>5. Bit(w, 5) = Bit(v, 5) => Gap(w, v, 5) = 2 * Gap(w, v, 6)
  <2> DEFINE q == w \div 32
             h == w \div 64
             r == v \div 32
             g == v \div 64
  <2>1. Gap(w, v, 5) = q - r /\ Gap(w, v, 6) = h - g /\ Bit(w, 5) = q % 2 /\ Bit(v, 5) = r % 2
    BY Powers DEF Gap, Bit
  <2>2. /\ q \in Nat /\ h \in Nat /\ q = 2 * h + (q % 2) /\ q % 2 \in Nat
        /\ r \in Nat /\ g \in Nat /\ r = 2 * g + (r % 2) /\ r % 2 \in Nat
    OBVIOUS
  <2> HIDE DEF q, h, r, g
  <2> QED
    BY <2>1, <2>2
<1>6. Bit(w, 6) = Bit(v, 6) => Gap(w, v, 6) = 2 * Gap(w, v, 7)
  <2> DEFINE q == w \div 64
             h == w \div 128
             r == v \div 64
             g == v \div 128
  <2>1. Gap(w, v, 6) = q - r /\ Gap(w, v, 7) = h - g /\ Bit(w, 6) = q % 2 /\ Bit(v, 6) = r % 2
    BY Powers DEF Gap, Bit
  <2>2. /\ q \in Nat /\ h \in Nat /\ q = 2 * h + (q % 2) /\ q % 2 \in Nat
        /\ r \in Nat /\ g \in Nat /\ r = 2 * g + (r % 2) /\ r % 2 \in Nat
    OBVIOUS
  <2> HIDE DEF q, h, r, g
  <2> QED
    BY <2>1, <2>2
<1>7. Bit(w, 7) = Bit(v, 7) => Gap(w, v, 7) = 2 * Gap(w, v, 8)
  <2> DEFINE q == w \div 128
             h == w \div 256
             r == v \div 128
             g == v \div 256
  <2>1. Gap(w, v, 7) = q - r /\ Gap(w, v, 8) = h - g /\ Bit(w, 7) = q % 2 /\ Bit(v, 7) = r % 2
    BY Powers DEF Gap, Bit
  <2>2. /\ q \in Nat /\ h \in Nat /\ q = 2 * h + (q % 2) /\ q % 2 \in Nat
        /\ r \in Nat /\ g \in Nat /\ r = 2 * g + (r % 2) /\ r % 2 \in Nat
    OBVIOUS
  <2> HIDE DEF q, h, r, g
  <2> QED
    BY <2>1, <2>2
<1>8. Bit(w, 8) = Bit(v, 8) => Gap(w, v, 8) = 2 * Gap(w, v, 9)
  <2> DEFINE q == w \div 256
             h == w \div 512
             r == v \div 256
             g == v \div 512
  <2>1. Gap(w, v, 8) = q - r /\ Gap(w, v, 9) = h - g /\ Bit(w, 8) = q % 2 /\ Bit(v, 8) = r % 2
    BY Powers DEF Gap, Bit
  <2>2. /\ q \in Nat /\ h \in Nat /\ q = 2 * h + (q % 2) /\ q % 2 \in Nat
        /\ r \in Nat /\ g \in Nat /\ r = 2 * g + (r % 2) /\ r % 2 \in Nat
    OBVIOUS
  <2> HIDE DEF q, h, r, g
  <2> QED
    BY <2>1, <2>2
<1>9. Bit(w, 9) = Bit(v, 9) => Gap(w, v, 9) = 2 * Gap(w, v, 10)
  <2> DEFINE q == w \div 512
             h == w \div 1024
             r == v \div 512
             g == v \div 1024
  <2>1. Gap(w, v, 9) = q - r /\ Gap(w, v, 10) = h - g /\ Bit(w, 9) = q % 2 /\ Bit(v, 9) = r % 2
    BY Powers DEF Gap, Bit
  <2>2. /\ q \in Nat /\ h \in Nat /\ q = 2 * h + (q % 2) /\ q % 2 \in Nat
        /\ r \in Nat /\ g \in Nat /\ r = 2 * g + (r % 2) /\ r % 2 \in Nat
    OBVIOUS
  <2> HIDE DEF q, h, r, g
  <2> QED
    BY <2>1, <2>2
<1>10. Bit(w, 10) = Bit(v, 10) => Gap(w, v, 10) = 2 * Gap(w, v, 11)
  <2> DEFINE q == w \div 1024
             h == w \div 2048
             r == v \div 1024
             g == v \div 2048
  <2>1. Gap(w, v, 10) = q - r /\ Gap(w, v, 11) = h - g /\ Bit(w, 10) = q % 2 /\ Bit(v, 10) = r % 2
    BY Powers DEF Gap, Bit
  <2>2. /\ q \in Nat /\ h \in Nat /\ q = 2 * h + (q % 2) /\ q % 2 \in Nat
        /\ r \in Nat /\ g \in Nat /\ r = 2 * g + (r % 2) /\ r % 2 \in Nat
    OBVIOUS
  <2> HIDE DEF q, h, r, g
  <2> QED
    BY <2>1, <2>2
<1>11. Bit(w, 11) = Bit(v, 11) => Gap(w, v, 11) = 2 * Gap(w, v, 12)
  <2> DEFINE q == w \div 2048
             h == w \div 4096
             r == v \div 2048
             g == v \div 4096
  <2>1. Gap(w, v, 11) = q - r /\ Gap(w, v, 12) = h - g /\ Bit(w, 11) = q % 2 /\ Bit(v, 11) = r % 2
    BY Powers DEF Gap, Bit
  <2>2. /\ q \in Nat /\ h \in Nat /\ q = 2 * h + (q % 2) /\ q % 2 \in Nat
        /\ r \in Nat /\ g \in Nat /\ r = 2 * g + (r % 2) /\ r % 2 \in Nat
    OBVIOUS
  <2> HIDE DEF q, h, r, g
  <2> QED
    BY <2>1, <2>2
<1>12. Bit(w, 12) = Bit(v, 12) => Gap(w, v, 12) = 2 * Gap(w, v, 13)
  <2> DEFINE q == w \div 4096
             h == w \div 8192
             r == v \div 4096
             g == v \div 8192
  <2>1. Gap(w, v, 12) = q - r /\ Gap(w, v, 13) = h - g /\ Bit(w, 12) = q % 2 /\ Bit(v, 12) = r % 2
    BY Powers DEF Gap, Bit
  <2>2. /\ q \in Nat /\ h \in Nat /\ q = 2 * h + (q % 2) /\ q % 2 \in Nat
        /\ r \in Nat /\ g \in Nat /\ r = 2 * g + (r % 2) /\ r % 2 \in Nat
    OBVIOUS
  <2> HIDE DEF q, h, r, g
  <2> QED
    BY <2>1, <2>2
<1>13. Bit(w, 13) = Bit(v, 13) => Gap(w, v, 13) = 2 * Gap(w, v, 14)
  <2> DEFINE q == w \div 8192
             h == w \div 16384
             r == v \div 8192
             g == v \div 16384
  <2>1. Gap(w, v, 13) = q - r /\ Gap(w, v, 14) = h - g /\ Bit(w, 13) = q % 2 /\ Bit(v, 13) = r % 2
    BY Powers DEF Gap, Bit
  <2>2. /\ q \in Nat /\ h \in Nat /\ q = 2 * h + (q % 2) /\ q % 2 \in Nat
        /\ r \in Nat /\ g \in Nat /\ r = 2 * g + (r % 2) /\ r % 2 \in Nat
    OBVIOUS
  <2> HIDE DEF q, h, r, g
  <2> QED
    BY <2>1, <2>2
<1>14. Bit(w, 14) = Bit(v, 14) => Gap(w, v, 14) = 2 * Gap(w, v, 15)
  <2> DEFINE q == w \div 16384
             h == w \div 32768
             r == v \div 16384
             g == v \div 32768
  <2>1. Gap(w, v, 14) = q - r /\ Gap(w, v, 15) = h - g /\ Bit(w, 14) = q % 2 /\ Bit(v, 14) = r % 2
    BY Powers DEF Gap, Bit
  <2>2. /\ q \in Nat /\ h \in Nat /\ q = 2 * h + (q % 2) /\ q % 2 \in Nat
        /\ r \in Nat /\ g \in Nat /\ r = 2 * g + (r % 2) /\ r % 2 \in Nat
    OBVIOUS
  <2> HIDE DEF q, h, r, g
  <2> QED
    BY <2>1, <2>2
<1>15. Bit(w, 15) = Bit(v, 15) => Gap(w, v, 15) = 2 * Gap(w, v, 16)
  <2> DEFINE q == w \div 32768
             h == w \div 65536
             r == v \div 32768
             g == v \div 65536
  <2>1. Gap(w, v, 15) = q - r /\ Gap(w, v, 16) = h - g /\ Bit(w, 15) = q % 2 /\ Bit(v, 15) = r % 2
    BY Powers DEF Gap, Bit
  <2>2. /\ q \in Nat /\ h \in Nat /\ q = 2 * h + (q % 2) /\ q % 2 \in Nat
        /\ r \in Nat /\ g \in Nat /\ r = 2 * g + (r % 2) /\ r % 2 \in Nat
    OBVIOUS
  <2> HIDE DEF q, h, r, g
  <2> QED
    BY <2>1, <2>2
<1> QED
  BY <1>0, <1>1, <1>2, <1>3, <1>4, <1>5, <1>6, <1>7, <1>8, <1>9, <1>10, <1>11,
     <1>12, <1>13, <1>14, <1>15

(* Where one has zeros, the field of the other is added.                   *)
LEMMA GapFields ==
  ASSUME NEW w \in Nat, NEW v \in Nat
  PROVE  /\ Field(v, 1, 2) = 0 => Gap(w, v, 0) = 2 * Gap(w, v, 1) + Field(w, 1, 2)
         /\ Field(v, 1, 8) = 0 => Gap(w, v, 0) = 8 * Gap(w, v, 3) + Field(w, 1, 8)
         /\ Field(v, 1, 256) = 0 => Gap(w, v, 0) = 256 * Gap(w, v, 8) + Field(w, 1, 256)
         /\ Field(v, 1, 1024) = 0
              => Gap(w, v, 0) = 1024 * Gap(w, v, 10) + Field(w, 1, 1024)
         /\ Field(v, 1, 2048) = 0
              => Gap(w, v, 0) = 2048 * Gap(w, v, 11) + Field(w, 1, 2048)
         /\ Field(v, 1, 4096) = 0
              => Gap(w, v, 0) = 4096 * Gap(w, v, 12) + Field(w, 1, 4096)
         /\ Field(v, 16, 8) = 0 => Gap(w, v, 4) = 8 * Gap(w, v, 7) + Field(w, 16, 8)
         /\ Field(v, 16, 32) = 0 => Gap(w, v, 4) = 32 * Gap(w, v, 9) + Field(w, 16, 32)
         /\ Field(v, 1024, 4) = 0
              => Gap(w, v, 10) = 4 * Gap(w, v, 12) + Field(w, 1024, 4)
         /\ Field(v, 8192, 2) = 0
              => Gap(w, v, 13) = 2 * Gap(w, v, 14) + Field(w, 8192, 2)
<1>1. Field(v, 1, 2) = 0 => Gap(w, v, 0) = 2 * Gap(w, v, 1) + Field(w, 1, 2)
  <2> DEFINE q == w \div 1
             h == w \div 2
             r == v \div 1
             g == v \div 2
  <2>1. Gap(w, v, 0) = q - r
    BY Powers DEF Gap
  <2>2. Gap(w, v, 1) = h - g
    BY Powers DEF Gap
  <2>3. Field(w, 1, 2) = q % 2 /\ Field(v, 1, 2) = r % 2
    BY DEF Field
  <2>4. /\ q \in Nat /\ h \in Nat /\ q = 2 * h + (q % 2) /\ q % 2 \in Nat
        /\ r \in Nat /\ g \in Nat /\ r = 2 * g + (r % 2) /\ r % 2 \in Nat
    OBVIOUS
  <2> HIDE DEF q, h, r, g
  <2> QED
    BY <2>1, <2>2, <2>3, <2>4
<1>2. Field(v, 1, 8) = 0 => Gap(w, v, 0) = 8 * Gap(w, v, 3) + Field(w, 1, 8)
  <2> DEFINE q == w \div 1
             h == w \div 8
             r == v \div 1
             g == v \div 8
  <2>1. Gap(w, v, 0) = q - r
    BY Powers DEF Gap
  <2>2. Gap(w, v, 3) = h - g
    BY Powers DEF Gap
  <2>3. Field(w, 1, 8) = q % 8 /\ Field(v, 1, 8) = r % 8
    BY DEF Field
  <2>4. /\ q \in Nat /\ h \in Nat /\ q = 8 * h + (q % 8) /\ q % 8 \in Nat
        /\ r \in Nat /\ g \in Nat /\ r = 8 * g + (r % 8) /\ r % 8 \in Nat
    OBVIOUS
  <2> HIDE DEF q, h, r, g
  <2> QED
    BY <2>1, <2>2, <2>3, <2>4
<1>3. Field(v, 1, 256) = 0 => Gap(w, v, 0) = 256 * Gap(w, v, 8) + Field(w, 1, 256)
  <2> DEFINE q == w \div 1
             h == w \div 256
             r == v \div 1
             g == v \div 256
  <2>1. Gap(w, v, 0) = q - r
    BY Powers DEF Gap
  <2>2. Gap(w, v, 8) = h - g
    BY Powers DEF Gap
  <2>3. Field(w, 1, 256) = q % 256 /\ Field(v, 1, 256) = r % 256
    BY DEF Field
  <2>4. /\ q \in Nat /\ h \in Nat /\ q = 256 * h + (q % 256) /\ q % 256 \in Nat
        /\ r \in Nat /\ g \in Nat /\ r = 256 * g + (r % 256) /\ r % 256 \in Nat
    OBVIOUS
  <2> HIDE DEF q, h, r, g
  <2> QED
    BY <2>1, <2>2, <2>3, <2>4
<1>4. Field(v, 1, 1024) = 0 => Gap(w, v, 0) = 1024 * Gap(w, v, 10) + Field(w, 1, 1024)
  <2> DEFINE q == w \div 1
             h == w \div 1024
             r == v \div 1
             g == v \div 1024
  <2>1. Gap(w, v, 0) = q - r
    BY Powers DEF Gap
  <2>2. Gap(w, v, 10) = h - g
    BY Powers DEF Gap
  <2>3. Field(w, 1, 1024) = q % 1024 /\ Field(v, 1, 1024) = r % 1024
    BY DEF Field
  <2>4. /\ q \in Nat /\ h \in Nat /\ q = 1024 * h + (q % 1024) /\ q % 1024 \in Nat
        /\ r \in Nat /\ g \in Nat /\ r = 1024 * g + (r % 1024) /\ r % 1024 \in Nat
    OBVIOUS
  <2> HIDE DEF q, h, r, g
  <2> QED
    BY <2>1, <2>2, <2>3, <2>4
<1>5. Field(v, 1, 2048) = 0 => Gap(w, v, 0) = 2048 * Gap(w, v, 11) + Field(w, 1, 2048)
  <2> DEFINE q == w \div 1
             h == w \div 2048
             r == v \div 1
             g == v \div 2048
  <2>1. Gap(w, v, 0) = q - r
    BY Powers DEF Gap
  <2>2. Gap(w, v, 11) = h - g
    BY Powers DEF Gap
  <2>3. Field(w, 1, 2048) = q % 2048 /\ Field(v, 1, 2048) = r % 2048
    BY DEF Field
  <2>4. /\ q \in Nat /\ h \in Nat /\ q = 2048 * h + (q % 2048) /\ q % 2048 \in Nat
        /\ r \in Nat /\ g \in Nat /\ r = 2048 * g + (r % 2048) /\ r % 2048 \in Nat
    OBVIOUS
  <2> HIDE DEF q, h, r, g
  <2> QED
    BY <2>1, <2>2, <2>3, <2>4
<1>6. Field(v, 1, 4096) = 0 => Gap(w, v, 0) = 4096 * Gap(w, v, 12) + Field(w, 1, 4096)
  <2> DEFINE q == w \div 1
             h == w \div 4096
             r == v \div 1
             g == v \div 4096
  <2>1. Gap(w, v, 0) = q - r
    BY Powers DEF Gap
  <2>2. Gap(w, v, 12) = h - g
    BY Powers DEF Gap
  <2>3. Field(w, 1, 4096) = q % 4096 /\ Field(v, 1, 4096) = r % 4096
    BY DEF Field
  <2>4. /\ q \in Nat /\ h \in Nat /\ q = 4096 * h + (q % 4096) /\ q % 4096 \in Nat
        /\ r \in Nat /\ g \in Nat /\ r = 4096 * g + (r % 4096) /\ r % 4096 \in Nat
    OBVIOUS
  <2> HIDE DEF q, h, r, g
  <2> QED
    BY <2>1, <2>2, <2>3, <2>4
<1>7. Field(v, 16, 8) = 0 => Gap(w, v, 4) = 8 * Gap(w, v, 7) + Field(w, 16, 8)
  <2> DEFINE q == w \div 16
             h == w \div 128
             r == v \div 16
             g == v \div 128
  <2>1. Gap(w, v, 4) = q - r
    BY Powers DEF Gap
  <2>2. Gap(w, v, 7) = h - g
    BY Powers DEF Gap
  <2>3. Field(w, 16, 8) = q % 8 /\ Field(v, 16, 8) = r % 8
    BY DEF Field
  <2>4. /\ q \in Nat /\ h \in Nat /\ q = 8 * h + (q % 8) /\ q % 8 \in Nat
        /\ r \in Nat /\ g \in Nat /\ r = 8 * g + (r % 8) /\ r % 8 \in Nat
    OBVIOUS
  <2> HIDE DEF q, h, r, g
  <2> QED
    BY <2>1, <2>2, <2>3, <2>4
<1>8. Field(v, 16, 32) = 0 => Gap(w, v, 4) = 32 * Gap(w, v, 9) + Field(w, 16, 32)
  <2> DEFINE q == w \div 16
             h == w \div 512
             r == v \div 16
             g == v \div 512
  <2>1. Gap(w, v, 4) = q - r
    BY Powers DEF Gap
  <2>2. Gap(w, v, 9) = h - g
    BY Powers DEF Gap
  <2>3. Field(w, 16, 32) = q % 32 /\ Field(v, 16, 32) = r % 32
    BY DEF Field
  <2>4. /\ q \in Nat /\ h \in Nat /\ q = 32 * h + (q % 32) /\ q % 32 \in Nat
        /\ r \in Nat /\ g \in Nat /\ r = 32 * g + (r % 32) /\ r % 32 \in Nat
    OBVIOUS
  <2> HIDE DEF q, h, r, g
  <2> QED
    BY <2>1, <2>2, <2>3, <2>4
<1>9. Field(v, 1024, 4) = 0 => Gap(w, v, 10) = 4 * Gap(w, v, 12) + Field(w, 1024, 4)
  <2> DEFINE q == w \div 1024
             h == w \div 4096
             r == v \div 1024
             g == v \div 4096
  <2>1. Gap(w, v, 10) = q - r
    BY Powers DEF Gap
  <2>2. Gap(w, v, 12) = h - g
    BY Powers DEF Gap
  <2>3. Field(w, 1024, 4) = q % 4 /\ Field(v, 1024, 4) = r % 4
    BY DEF Field
  <2>4. /\ q \in Nat /\ h \in Nat /\ q = 4 * h + (q % 4) /\ q % 4 \in Nat
        /\ r \in Nat /\ g \in Nat /\ r = 4 * g + (r % 4) /\ r % 4 \in Nat
    OBVIOUS
  <2> HIDE DEF q, h, r, g
  <2> QED
    BY <2>1, <2>2, <2>3, <2>4
<1>10. Field(v, 8192, 2) = 0 => Gap(w, v, 13) = 2 * Gap(w, v, 14) + Field(w, 8192, 2)
  <2> DEFINE q == w \div 8192
             h == w \div 16384
             r == v \div 8192
             g == v \div 16384
  <2>1. Gap(w, v, 13) = q - r
    BY Powers DEF Gap
  <2>2. Gap(w, v, 14) = h - g
    BY Powers DEF Gap
  <2>3. Field(w, 8192, 2) = q % 2 /\ Field(v, 8192, 2) = r % 2
    BY DEF Field
  <2>4. /\ q \in Nat /\ h \in Nat /\ q = 2 * h + (q % 2) /\ q % 2 \in Nat
        /\ r \in Nat /\ g \in Nat /\ r = 2 * g + (r % 2) /\ r % 2 \in Nat
    OBVIOUS
  <2> HIDE DEF q, h, r, g
  <2> QED
    BY <2>1, <2>2, <2>3, <2>4
<1> QED
  BY <1>1, <1>2, <1>3, <1>4, <1>5, <1>6, <1>7, <1>8, <1>9, <1>10

LEMMA GapEnds ==
  ASSUME NEW w \in Word, NEW v \in Word
  PROVE  w \in Nat /\ v \in Nat /\ Gap(w, v, 0) = w - v /\ Gap(w, v, 16) = 0
  BY Powers, WordRange DEF Gap

(* For each mask, a word that matches a row is the row's value and the     *)
(* fields between the fixed bits, if the row has zeros there.              *)
LEMMA FreeD208 ==
  ASSUME NEW row, NEW w \in Word, row[2] = \hD208, is_op_match(row, w),
         row[3] \in Word,
         Field(row[3], 1, 8) = 0, Field(row[3], 16, 32) = 0,
         Field(row[3], 1024, 4) = 0, Field(row[3], 8192, 2) = 0
  PROVE  w = row[3] + Field(w, 1, 8) + 16 * Field(w, 16, 32)
                    + 1024 * Field(w, 1024, 4) + 8192 * Field(w, 8192, 2)
<1> DEFINE v == row[3]
<1>1. w \in Nat /\ v \in Nat /\ Gap(w, v, 0) = w - v /\ Gap(w, v, 16) = 0
  BY GapEnds
<1>2. /\ Bit(w, 15) = Bit(v, 15) /\ Bit(w, 14) = Bit(v, 14) /\ Bit(w, 12) = Bit(v, 12)
      /\ Bit(w, 9) = Bit(v, 9) /\ Bit(w, 3) = Bit(v, 3)
  BY MaskD208
<1>3. /\ Field(v, 1, 8) = 0 /\ Field(v, 16, 32) = 0 /\ Field(v, 1024, 4) = 0
      /\ Field(v, 8192, 2) = 0
  OBVIOUS
<1> HIDE DEF v
<1>4. /\ Gap(w, v, 15) = 2 * Gap(w, v, 16) /\ Gap(w, v, 14) = 2 * Gap(w, v, 15)
  BY <1>1, <1>2, GapBits
<1>5. Gap(w, v, 14) = 0
  BY <1>1, <1>4
<1>6. /\ Gap(w, v, 12) = 2 * Gap(w, v, 13) /\ Gap(w, v, 9) = 2 * Gap(w, v, 10)
      /\ Gap(w, v, 3) = 2 * Gap(w, v, 4)
  BY <1>1, <1>2, GapBits
<1>7. /\ Gap(w, v, 0) = 8 * Gap(w, v, 3) + Field(w, 1, 8)
      /\ Gap(w, v, 4) = 32 * Gap(w, v, 9) + Field(w, 16, 32)
      /\ Gap(w, v, 10) = 4 * Gap(w, v, 12) + Field(w, 1024, 4)
      /\ Gap(w, v, 13) = 2 * Gap(w, v, 14) + Field(w, 8192, 2)
  BY <1>1, <1>3, GapFields
<1>8. /\ Gap(w, v, 0) \in Int /\ Gap(w, v, 3) \in Int
      /\ Gap(w, v, 4) \in Int /\ Gap(w, v, 9) \in Int
      /\ Gap(w, v, 10) \in Int /\ Gap(w, v, 12) \in Int
      /\ Gap(w, v, 13) \in Int /\ Field(w, 1, 8) \in Int
      /\ Field(w, 16, 32) \in Int /\ Field(w, 1024, 4) \in Int
      /\ Field(w, 8192, 2) \in Int
  BY <1>1, GapType DEF Field
<1>9. w = v + Field(w, 1, 8) + 16 * Field(w, 16, 32)
                + 1024 * Field(w, 1024, 4) + 8192 * Field(w, 8192, 2)
  BY <1>1, <1>5, <1>6, <1>7, <1>8
<1> QED
  BY <1>9 DEF v

LEMMA FreeF000 ==
  ASSUME NEW row, NEW w \in Word, row[2] = \hF000, is_op_match(row, w),
         row[3] \in Word,
         Field(row[3], 1, 4096) = 0
  PROVE  w = row[3] + Field(w, 1, 4096)
<1> DEFINE v == row[3]
<1>1. w \in Nat /\ v \in Nat /\ Gap(w, v, 0) = w - v /\ Gap(w, v, 16) = 0
  BY GapEnds
<1>2. /\ Bit(w, 15) = Bit(v, 15) /\ Bit(w, 14) = Bit(v, 14) /\ Bit(w, 13) = Bit(v, 13)
      /\ Bit(w, 12) = Bit(v, 12)
  BY MaskF000
<1>3. /\ Field(v, 1, 4096) = 0
  OBVIOUS
<1> HIDE DEF v
<1>4. /\ Gap(w, v, 15) = 2 * Gap(w, v, 16) /\ Gap(w, v, 14) = 2 * Gap(w, v, 15)
      /\ Gap(w, v, 13) = 2 * Gap(w, v, 14) /\ Gap(w, v, 12) = 2 * Gap(w, v, 13)
  BY <1>1, <1>2, GapBits
<1>5. Gap(w, v, 12) = 0
  BY <1>1, <1>4
<1>7. /\ Gap(w, v, 0) = 4096 * Gap(w, v, 12) + Field(w, 1, 4096)
  BY <1>1, <1>3, GapFields
<1>8. /\ Gap(w, v, 0) \in Int /\ Field(w, 1, 4096) \in Int
  BY <1>1, GapType DEF Field
<1>9. w = v + Field(w, 1, 4096)
  BY <1>1, <1>5, <1>7, <1>8
<1> QED
  BY <1>9 DEF v

LEMMA FreeF800 ==
  ASSUME NEW row, NEW w \in Word, row[2] = \hF800, is_op_match(row, w),
         row[3] \in Word,
         Field(row[3], 1, 2048) = 0
  PROVE  w = row[3] + Field(w, 1, 2048)
<1> DEFINE v == row[3]
<1>1. w \in Nat /\ v \in Nat /\ Gap(w, v, 0) = w - v /\ Gap(w, v, 16) = 0
  BY GapEnds
<1>2. /\ Bit(w, 15) = Bit(v, 15) /\ Bit(w, 14) = Bit(v, 14) /\ Bit(w, 13) = Bit(v, 13)
      /\ Bit(w, 12) = Bit(v, 12) /\ Bit(w, 11) = Bit(v, 11)
  BY MaskF800
<1>3. /\ Field(v, 1, 2048) = 0
  OBVIOUS
<1> HIDE DEF v
<1>4. /\ Gap(w, v, 15) = 2 * Gap(w, v, 16) /\ Gap(w, v, 14) = 2 * Gap(w, v, 15)
      /\ Gap(w, v, 13) = 2 * Gap(w, v, 14) /\ Gap(w, v, 12) = 2 * Gap(w, v, 13)
      /\ Gap(w, v, 11) = 2 * Gap(w, v, 12)
  BY <1>1, <1>2, GapBits
<1>5. Gap(w, v, 11) = 0
  BY <1>1, <1>4
<1>7. /\ Gap(w, v, 0) = 2048 * Gap(w, v, 11) + Field(w, 1, 2048)
  BY <1>1, <1>3, GapFields
<1>8. /\ Gap(w, v, 0) \in Int /\ Field(w, 1, 2048) \in Int
  BY <1>1, GapType DEF Field
<1>9. w = v + Field(w, 1, 2048)
  BY <1>1, <1>5, <1>7, <1>8
<1> QED
  BY <1>9 DEF v

LEMMA FreeFC00 ==
  ASSUME NEW row, NEW w \in Word, row[2] = \hFC00, is_op_match(row, w),
         row[3] \in Word,
         Field(row[3], 1, 1024) = 0
  PROVE  w = row[3] + Field(w, 1, 1024)
<1> DEFINE v == row[3]
<1>1. w \in Nat /\ v \in Nat /\ Gap(w, v, 0) = w - v /\ Gap(w, v, 16) = 0
  BY GapEnds
<1>2. /\ Bit(w, 15) = Bit(v, 15) /\ Bit(w, 14) = Bit(v, 14) /\ Bit(w, 13) = Bit(v, 13)
      /\ Bit(w, 12) = Bit(v, 12) /\ Bit(w, 11) = Bit(v, 11) /\ Bit(w, 10) = Bit(v, 10)
  BY MaskFC00
<1>3. /\ Field(v, 1, 1024) = 0
  OBVIOUS
<1> HIDE DEF v
<1>4. /\ Gap(w, v, 15) = 2 * Gap(w, v, 16) /\ Gap(w, v, 14) = 2 * Gap(w, v, 15)
      /\ Gap(w, v, 13) = 2 * Gap(w, v, 14) /\ Gap(w, v, 12) = 2 * Gap(w, v, 13)
      /\ Gap(w, v, 11) = 2 * Gap(w, v, 12) /\ Gap(w, v, 10) = 2 * Gap(w, v, 11)
  BY <1>1, <1>2, GapBits
<1>5. Gap(w, v, 10) = 0
  BY <1>1, <1>4
<1>7. /\ Gap(w, v, 0) = 1024 * Gap(w, v, 10) + Field(w, 1, 1024)
  BY <1>1, <1>3, GapFields
<1>8. /\ Gap(w, v, 0) \in Int /\ Field(w, 1, 1024) \in Int
  BY <1>1, GapType DEF Field
<1>9. w = v + Field(w, 1, 1024)
  BY <1>1, <1>5, <1>7, <1>8
<1> QED
  BY <1>9 DEF v

LEMMA FreeFE08 ==
  ASSUME NEW row, NEW w \in Word, row[2] = \hFE08, is_op_match(row, w),
         row[3] \in Word,
         Field(row[3], 1, 8) = 0, Field(row[3], 16, 32) = 0
  PROVE  w = row[3] + Field(w, 1, 8) + 16 * Field(w, 16, 32)
<1> DEFINE v == row[3]
<1>1. w \in Nat /\ v \in Nat /\ Gap(w, v, 0) = w - v /\ Gap(w, v, 16) = 0
  BY GapEnds
<1>2. /\ Bit(w, 15) = Bit(v, 15) /\ Bit(w, 14) = Bit(v, 14) /\ Bit(w, 13) = Bit(v, 13)
      /\ Bit(w, 12) = Bit(v, 12) /\ Bit(w, 11) = Bit(v, 11) /\ Bit(w, 10) = Bit(v, 10)
      /\ Bit(w, 9) = Bit(v, 9) /\ Bit(w, 3) = Bit(v, 3)
  BY MaskFE08
<1>3. /\ Field(v, 1, 8) = 0 /\ Field(v, 16, 32) = 0
  OBVIOUS
<1> HIDE DEF v
<1>4. /\ Gap(w, v, 15) = 2 * Gap(w, v, 16) /\ Gap(w, v, 14) = 2 * Gap(w, v, 15)
      /\ Gap(w, v, 13) = 2 * Gap(w, v, 14) /\ Gap(w, v, 12) = 2 * Gap(w, v, 13)
      /\ Gap(w, v, 11) = 2 * Gap(w, v, 12) /\ Gap(w, v, 10) = 2 * Gap(w, v, 11)
      /\ Gap(w, v, 9) = 2 * Gap(w, v, 10)
  BY <1>1, <1>2, GapBits
<1>5. Gap(w, v, 9) = 0
  BY <1>1, <1>4
<1>6. /\ Gap(w, v, 3) = 2 * Gap(w, v, 4)
  BY <1>1, <1>2, GapBits
<1>7. /\ Gap(w, v, 0) = 8 * Gap(w, v, 3) + Field(w, 1, 8)
      /\ Gap(w, v, 4) = 32 * Gap(w, v, 9) + Field(w, 16, 32)
  BY <1>1, <1>3, GapFields
<1>8. /\ Gap(w, v, 0) \in Int /\ Gap(w, v, 3) \in Int
      /\ Gap(w, v, 4) \in Int /\ Field(w, 1, 8) \in Int
      /\ Field(w, 16, 32) \in Int
  BY <1>1, GapType DEF Field
<1>9. w = v + Field(w, 1, 8) + 16 * Field(w, 16, 32)
  BY <1>1, <1>5, <1>6, <1>7, <1>8
<1> QED
  BY <1>9 DEF v

LEMMA FreeFE0E ==
  ASSUME NEW row, NEW w \in Word, row[2] = \hFE0E, is_op_match(row, w),
         row[3] \in Word,
         Field(row[3], 1, 2) = 0, Field(row[3], 16, 32) = 0
  PROVE  w = row[3] + Field(w, 1, 2) + 16 * Field(w, 16, 32)
<1> DEFINE v == row[3]
<1>1. w \in Nat /\ v \in Nat /\ Gap(w, v, 0) = w - v /\ Gap(w, v, 16) = 0
  BY GapEnds
<1>2. /\ Bit(w, 15) = Bit(v, 15) /\ Bit(w, 14) = Bit(v, 14) /\ Bit(w, 13) = Bit(v, 13)
      /\ Bit(w, 12) = Bit(v, 12) /\ Bit(w, 11) = Bit(v, 11) /\ Bit(w, 10) = Bit(v, 10)
      /\ Bit(w, 9) = Bit(v, 9) /\ Bit(w, 3) = Bit(v, 3) /\ Bit(w, 2) = Bit(v, 2)
      /\ Bit(w, 1) = Bit(v, 1)
  BY MaskFE0E
<1>3. /\ Field(v, 1, 2) = 0 /\ Field(v, 16, 32) = 0
  OBVIOUS
<1> HIDE DEF v
<1>4. /\ Gap(w, v, 15) = 2 * Gap(w, v, 16) /\ Gap(w, v, 14) = 2 * Gap(w, v, 15)
      /\ Gap(w, v, 13) = 2 * Gap(w, v, 14) /\ Gap(w, v, 12) = 2 * Gap(w, v, 13)
      /\ Gap(w, v, 11) = 2 * Gap(w, v, 12) /\ Gap(w, v, 10) = 2 * Gap(w, v, 11)
      /\ Gap(w, v, 9) = 2 * Gap(w, v, 10)
  BY <1>1, <1>2, GapBits
<1>5. Gap(w, v, 9) = 0
  BY <1>1, <1>4
<1>6. /\ Gap(w, v, 3) = 2 * Gap(w, v, 4) /\ Gap(w, v, 2) = 2 * Gap(w, v, 3)
      /\ Gap(w, v, 1) = 2 * Gap(w, v, 2)
  BY <1>1, <1>2, GapBits
<1>7. /\ Gap(w, v, 0) = 2 * Gap(w, v, 1) + Field(w, 1, 2)
      /\ Gap(w, v, 4) = 32 * Gap(w, v, 9) + Field(w, 16, 32)
  BY <1>1, <1>3, GapFields
<1>8. /\ Gap(w, v, 0) \in Int /\ Gap(w, v, 1) \in Int
      /\ Gap(w, v, 2) \in Int /\ Gap(w, v, 3) \in Int
      /\ Gap(w, v, 4) \in Int /\ Field(w, 1, 2) \in Int
      /\ Field(w, 16, 32) \in Int
  BY <1>1, GapType DEF Field
<1>9. w = v + Field(w, 1, 2) + 16 * Field(w, 16, 32)
  BY <1>1, <1>5, <1>6, <1>7, <1>8
<1> QED
  BY <1>9 DEF v

LEMMA FreeFE0F ==
  ASSUME NEW row, NEW w \in Word, row[2] = \hFE0F, is_op_match(row, w),
         row[3] \in Word,
         Field(row[3], 16, 32) = 0
  PROVE  w = row[3] + 16 * Field(w, 16, 32)
<1> DEFINE v == row[3]
<1>1. w \in Nat /\ v \in Nat /\ Gap(w, v, 0) = w - v /\ Gap(w, v, 16) = 0
  BY GapEnds
<1>2. /\ Bit(w, 15) = Bit(v, 15) /\ Bit(w, 14) = Bit(v, 14) /\ Bit(w, 13) = Bit(v, 13)
      /\ Bit(w, 12) = Bit(v, 12) /\ Bit(w, 11) = Bit(v, 11) /\ Bit(w, 10) = Bit(v, 10)
      /\ Bit(w, 9) = Bit(v, 9) /\ Bit(w, 3) = Bit(v, 3) /\ Bit(w, 2) = Bit(v, 2)
      /\ Bit(w, 1) = Bit(v, 1) /\ Bit(w, 0) = Bit(v, 0)
  BY MaskFE0F
<1>3. /\ Field(v, 16, 32) = 0
  OBVIOUS
<1> HIDE DEF v
<1>4. /\ Gap(w, v, 15) = 2 * Gap(w, v, 16) /\ Gap(w, v, 14) = 2 * Gap(w, v, 15)
      /\ Gap(w, v, 13) = 2 * Gap(w, v, 14) /\ Gap(w, v, 12) = 2 * Gap(w, v, 13)
      /\ Gap(w, v, 11) = 2 * Gap(w, v, 12) /\ Gap(w, v, 10) = 2 * Gap(w, v, 11)
      /\ Gap(w, v, 9) = 2 * Gap(w, v, 10)
  BY <1>1, <1>2, GapBits
<1>5. Gap(w, v, 9) = 0
  BY <1>1, <1>4
<1>6. /\ Gap(w, v, 3) = 2 * Gap(w, v, 4) /\ Gap(w, v, 2) = 2 * Gap(w, v, 3)
      /\ Gap(w, v, 1) = 2 * Gap(w, v, 2) /\ Gap(w, v, 0) = 2 * Gap(w, v, 1)
  BY <1>1, <1>2, GapBits
<1>7. /\ Gap(w, v, 4) = 32 * Gap(w, v, 9) + Field(w, 16, 32)
  BY <1>1, <1>3, GapFields
<1>8. /\ Gap(w, v, 0) \in Int /\ Gap(w, v, 1) \in Int
      /\ Gap(w, v, 2) \in Int /\ Gap(w, v, 3) \in Int
      /\ Gap(w, v, 4) \in Int /\ Field(w, 16, 32) \in Int
  BY <1>1, GapType DEF Field
<1>9. w = v + 16 * Field(w, 16, 32)
  BY <1>1, <1>5, <1>6, <1>7, <1>8
<1> QED
  BY <1>9 DEF v

LEMMA FreeFF00 ==
  ASSUME NEW row, NEW w \in Word, row[2] = \hFF00, is_op_match(row, w),
         row[3] \in Word,
         Field(row[3], 1, 256) = 0
  PROVE  w = row[3] + Field(w, 1, 256)
<1> DEFINE v == row[3]
<1>1. w \in Nat /\ v \in Nat /\ Gap(w, v, 0) = w - v /\ Gap(w, v, 16) = 0
  BY GapEnds
<1>2. /\ Bit(w, 15) = Bit(v, 15) /\ Bit(w, 14) = Bit(v, 14) /\ Bit(w, 13) = Bit(v, 13)
      /\ Bit(w, 12) = Bit(v, 12) /\ Bit(w, 11) = Bit(v, 11) /\ Bit(w, 10) = Bit(v, 10)
      /\ Bit(w, 9) = Bit(v, 9) /\ Bit(w, 8) = Bit(v, 8)
  BY MaskFF00
<1>3. /\ Field(v, 1, 256) = 0
  OBVIOUS
<1> HIDE DEF v
<1>4. /\ Gap(w, v, 15) = 2 * Gap(w, v, 16) /\ Gap(w, v, 14) = 2 * Gap(w, v, 15)
      /\ Gap(w, v, 13) = 2 * Gap(w, v, 14) /\ Gap(w, v, 12) = 2 * Gap(w, v, 13)
      /\ Gap(w, v, 11) = 2 * Gap(w, v, 12) /\ Gap(w, v, 10) = 2 * Gap(w, v, 11)
      /\ Gap(w, v, 9) = 2 * Gap(w, v, 10) /\ Gap(w, v, 8) = 2 * Gap(w, v, 9)
  BY <1>1, <1>2, GapBits
<1>5. Gap(w, v, 8) = 0
  BY <1>1, <1>4
<1>7. /\ Gap(w, v, 0) = 256 * Gap(w, v, 8) + Field(w, 1, 256)
  BY <1>1, <1>3, GapFields
<1>8. /\ Gap(w, v, 0) \in Int /\ Field(w, 1, 256) \in Int
  BY <1>1, GapType DEF Field
<1>9. w = v + Field(w, 1, 256)
  BY <1>1, <1>5, <1>7, <1>8
<1> QED
  BY <1>9 DEF v

LEMMA FreeFF88 ==
  ASSUME NEW row, NEW w \in Word, row[2] = \hFF88, is_op_match(row, w),
         row[3] \in Word,
         Field(row[3], 1, 8) = 0, Field(row[3], 16, 8) = 0
  PROVE  w = row[3] + Field(w, 1, 8) + 16 * Field(w, 16, 8)
<1> DEFINE v == row[3]
<1>1. w \in Nat /\ v \in Nat /\ Gap(w, v, 0) = w - v /\ Gap(w, v, 16) = 0
  BY GapEnds
<1>2. /\ Bit(w, 15) = Bit(v, 15) /\ Bit(w, 14) = Bit(v, 14) /\ Bit(w, 13) = Bit(v, 13)
      /\ Bit(w, 12) = Bit(v, 12) /\ Bit(w, 11) = Bit(v, 11) /\ Bit(w, 10) = Bit(v, 10)
      /\ Bit(w, 9) = Bit(v, 9) /\ Bit(w, 8) = Bit(v, 8) /\ Bit(w, 7) = Bit(v, 7)
      /\ Bit(w, 3) = Bit(v, 3)
  BY MaskFF88
<1>3. /\ Field(v, 1, 8) = 0 /\ Field(v, 16, 8) = 0
  OBVIOUS
<1> HIDE DEF v
<1>4. /\ Gap(w, v, 15) = 2 * Gap(w, v, 16) /\ Gap(w, v, 14) = 2 * Gap(w, v, 15)
      /\ Gap(w, v, 13) = 2 * Gap(w, v, 14) /\ Gap(w, v, 12) = 2 * Gap(w, v, 13)
      /\ Gap(w, v, 11) = 2 * Gap(w, v, 12) /\ Gap(w, v, 10) = 2 * Gap(w, v, 11)
      /\ Gap(w, v, 9) = 2 * Gap(w, v, 10) /\ Gap(w, v, 8) = 2 * Gap(w, v, 9)
      /\ Gap(w, v, 7) = 2 * Gap(w, v, 8)
  BY <1>1, <1>2, GapBits
<1>5. Gap(w, v, 7) = 0
  BY <1>1, <1>4
<1>6. /\ Gap(w, v, 3) = 2 * Gap(w, v, 4)
  BY <1>1, <1>2, GapBits
<1>7. /\ Gap(w, v, 0) = 8 * Gap(w, v, 3) + Field(w, 1, 8)
      /\ Gap(w, v, 4) = 8 * Gap(w, v, 7) + Field(w, 16, 8)
  BY <1>1, <1>3, GapFields
<1>8. /\ Gap(w, v, 0) \in Int /\ Gap(w, v, 3) \in Int
      /\ Gap(w, v, 4) \in Int /\ Field(w, 1, 8) \in Int
      /\ Field(w, 16, 8) \in Int
  BY <1>1, GapType DEF Field
<1>9. w = v + Field(w, 1, 8) + 16 * Field(w, 16, 8)
  BY <1>1, <1>5, <1>6, <1>7, <1>8
<1> QED
  BY <1>9 DEF v

LEMMA FreeFF8F ==
  ASSUME NEW row, NEW w \in Word, row[2] = \hFF8F, is_op_match(row, w),
         row[3] \in Word,
         Field(row[3], 16, 8) = 0
  PROVE  w = row[3] + 16 * Field(w, 16, 8)
<1> DEFINE v == row[3]
<1>1. w \in Nat /\ v \in Nat /\ Gap(w, v, 0) = w - v /\ Gap(w, v, 16) = 0
  BY GapEnds
<1>2. /\ Bit(w, 15) = Bit(v, 15) /\ Bit(w, 14) = Bit(v, 14) /\ Bit(w, 13) = Bit(v, 13)
      /\ Bit(w, 12) = Bit(v, 12) /\ Bit(w, 11) = Bit(v, 11) /\ Bit(w, 10) = Bit(v, 10)
      /\ Bit(w, 9) = Bit(v, 9) /\ Bit(w, 8) = Bit(v, 8) /\ Bit(w, 7) = Bit(v, 7)
      /\ Bit(w, 3) = Bit(v, 3) /\ Bit(w, 2) = Bit(v, 2) /\ Bit(w, 1) = Bit(v, 1)
      /\ Bit(w, 0) = Bit(v, 0)
  BY MaskFF8F
<1>3. /\ Field(v, 16, 8) = 0
  OBVIOUS
<1> HIDE DEF v
<1>4. /\ Gap(w, v, 15) = 2 * Gap(w, v, 16) /\ Gap(w, v, 14) = 2 * Gap(w, v, 15)
      /\ Gap(w, v, 13) = 2 * Gap(w, v, 14) /\ Gap(w, v, 12) = 2 * Gap(w, v, 13)
      /\ Gap(w, v, 11) = 2 * Gap(w, v, 12) /\ Gap(w, v, 10) = 2 * Gap(w, v, 11)
      /\ Gap(w, v, 9) = 2 * Gap(w, v, 10) /\ Gap(w, v, 8) = 2 * Gap(w, v, 9)
      /\ Gap(w, v, 7) = 2 * Gap(w, v, 8)
  BY <1>1, <1>2, GapBits
<1>5. Gap(w, v, 7) = 0
  BY <1>1, <1>4
<1>6. /\ Gap(w, v, 3) = 2 * Gap(w, v, 4) /\ Gap(w, v, 2) = 2 * Gap(w, v, 3)
      /\ Gap(w, v, 1) = 2 * Gap(w, v, 2) /\ Gap(w, v, 0) = 2 * Gap(w, v, 1)
  BY <1>1, <1>2, GapBits
<1>7. /\ Gap(w, v, 4) = 8 * Gap(w, v, 7) + Field(w, 16, 8)
  BY <1>1, <1>3, GapFields
<1>8. /\ Gap(w, v, 0) \in Int /\ Gap(w, v, 1) \in Int
      /\ Gap(w, v, 2) \in Int /\ Gap(w, v, 3) \in Int
      /\ Gap(w, v, 4) \in Int /\ Field(w, 16, 8) \in Int
  BY <1>1, GapType DEF Field
<1>9. w = v + 16 * Field(w, 16, 8)
  BY <1>1, <1>5, <1>6, <1>7, <1>8
<1> QED
  BY <1>9 DEF v

LEMMA FreeFFFF ==
  ASSUME NEW row, NEW w \in Word, row[2] = \hFFFF, is_op_match(row, w),
         row[3] \in Word
  PROVE  w = row[3]
<1> DEFINE v == row[3]
<1>1. w \in Nat /\ v \in Nat /\ Gap(w, v, 0) = w - v /\ Gap(w, v, 16) = 0
  BY GapEnds
<1>2. /\ Bit(w, 15) = Bit(v, 15) /\ Bit(w, 14) = Bit(v, 14) /\ Bit(w, 13) = Bit(v, 13)
      /\ Bit(w, 12) = Bit(v, 12) /\ Bit(w, 11) = Bit(v, 11) /\ Bit(w, 10) = Bit(v, 10)
      /\ Bit(w, 9) = Bit(v, 9) /\ Bit(w, 8) = Bit(v, 8) /\ Bit(w, 7) = Bit(v, 7)
      /\ Bit(w, 6) = Bit(v, 6) /\ Bit(w, 5) = Bit(v, 5) /\ Bit(w, 4) = Bit(v, 4)
      /\ Bit(w, 3) = Bit(v, 3) /\ Bit(w, 2) = Bit(v, 2) /\ Bit(w, 1) = Bit(v, 1)
      /\ Bit(w, 0) = Bit(v, 0)
  BY MaskFFFF
<1> HIDE DEF v
<1>4. /\ Gap(w, v, 15) = 2 * Gap(w, v, 16) /\ Gap(w, v, 14) = 2 * Gap(w, v, 15)
      /\ Gap(w, v, 13) = 2 * Gap(w, v, 14) /\ Gap(w, v, 12) = 2 * Gap(w, v, 13)
      /\ Gap(w, v, 11) = 2 * Gap(w, v, 12) /\ Gap(w, v, 10) = 2 * Gap(w, v, 11)
      /\ Gap(w, v, 9) = 2 * Gap(w, v, 10) /\ Gap(w, v, 8) = 2 * Gap(w, v, 9)
      /\ Gap(w, v, 7) = 2 * Gap(w, v, 8) /\ Gap(w, v, 6) = 2 * Gap(w, v, 7)
      /\ Gap(w, v, 5) = 2 * Gap(w, v, 6) /\ Gap(w, v, 4) = 2 * Gap(w, v, 5)
      /\ Gap(w, v, 3) = 2 * Gap(w, v, 4) /\ Gap(w, v, 2) = 2 * Gap(w, v, 3)
      /\ Gap(w, v, 1) = 2 * Gap(w, v, 2) /\ Gap(w, v, 0) = 2 * Gap(w, v, 1)
  BY <1>1, <1>2, GapBits
<1>5. Gap(w, v, 0) = 0
  BY <1>1, <1>4
<1> QED
  BY <1>1, <1>5, WordRange DEF v

-----------------------------------------------------------------------------
(* The rows, and the instructions that share a layout.                     *)

(* The row of an instruction.                                              *)
RowNumber(i) ==
  IF i = "bclr" THEN 1 ELSE IF i = "bset" THEN 2 ELSE IF i = "icall" THEN 3 ELSE
  IF i = "ijmp" THEN 4 ELSE IF i = "lpm_r0" THEN 5 ELSE IF i = "lpm" THEN 6 ELSE
  IF i = "lpm_inc" THEN 7 ELSE IF i = "nop" THEN 8 ELSE IF i = "wdr" THEN 9 ELSE
  IF i = "ret" THEN 10 ELSE IF i = "adc" THEN 11 ELSE IF i = "add" THEN 12 ELSE
  IF i = "and" THEN 13 ELSE IF i = "cp" THEN 14 ELSE IF i = "cpc" THEN 15 ELSE
  IF i = "cpse" THEN 16 ELSE IF i = "eor" THEN 17 ELSE IF i = "mov" THEN 18 ELSE
  IF i = "mul" THEN 19 ELSE IF i = "or" THEN 20 ELSE IF i = "sbc" THEN 21 ELSE
  IF i = "sub" THEN 22 ELSE IF i = "andi" THEN 23 ELSE IF i = "ldi" THEN 24 ELSE
  IF i = "ori" THEN 25 ELSE IF i = "cpi" THEN 26 ELSE IF i = "sbci" THEN 27 ELSE
  IF i = "subi" THEN 28 ELSE IF i = "sbrc" THEN 29 ELSE IF i = "sbrs" THEN 30 ELSE
  IF i = "bld" THEN 31 ELSE IF i = "bst" THEN 32 ELSE IF i = "in" THEN 33 ELSE
  IF i = "out" THEN 34 ELSE IF i = "adiw" THEN 35 ELSE IF i = "sbiw" THEN 36 ELSE
  IF i = "cbi" THEN 37 ELSE IF i = "sbi" THEN 38 ELSE IF i = "sbic" THEN 39 ELSE
  IF i = "sbis" THEN 40 ELSE IF i = "brbc" THEN 41 ELSE IF i = "brbs" THEN 42 ELSE
  IF i = "rcall" THEN 43 ELSE IF i = "rjmp" THEN 44 ELSE IF i = "call" THEN 45 ELSE
  IF i = "jmp" THEN 46 ELSE IF i = "asr" THEN 47 ELSE IF i = "com" THEN 48 ELSE
  IF i = "dec" THEN 49 ELSE IF i = "inc" THEN 50 ELSE IF i = "lsr" THEN 51 ELSE
  IF i = "neg" THEN 52 ELSE IF i = "pop" THEN 53 ELSE IF i = "push" THEN 54 ELSE
  IF i = "ror" THEN 55 ELSE IF i = "swap" THEN 56 ELSE IF i = "movw" THEN 57 ELSE
  IF i = "sts" THEN 58 ELSE IF i = "lds" THEN 59 ELSE IF i = "ld_x" THEN 60 ELSE
  IF i = "ld_x_inc" THEN 61 ELSE IF i = "ld_x_dec" THEN 62 ELSE IF i = "ld_y_inc" THEN 63 ELSE
  IF i = "ld_y_dec" THEN 64 ELSE IF i = "ldd_y" THEN 65 ELSE IF i = "ld_z_inc" THEN 66 ELSE
  IF i = "ld_z_dec" THEN 67 ELSE IF i = "ldd_z" THEN 68 ELSE IF i = "st_x" THEN 69 ELSE
  IF i = "st_x_inc" THEN 70 ELSE IF i = "st_x_dec" THEN 71 ELSE IF i = "st_y_inc" THEN 72 ELSE
  IF i = "st_y_dec" THEN 73 ELSE IF i = "std_y" THEN 74 ELSE IF i = "st_z_inc" THEN 75 ELSE
  IF i = "st_z_dec" THEN 76 ELSE IF i = "std_z" THEN 77 ELSE IF i = "muls" THEN 78 ELSE
  IF i = "mulsu" THEN 79 ELSE IF i = "fmul" THEN 80 ELSE IF i = "fmuls" THEN 81 ELSE
  IF i = "fmulsu" THEN 82 ELSE IF i = "sleep" THEN 83 ELSE IF i = "break" THEN 84 ELSE 0

NoOperands == {"icall", "ijmp", "lpm_r0", "nop", "wdr", "ret", "sleep", "break"}
OneOperand == OneRegister \cup PointerLoads \cup PointerStores \cup {"push"}

(* A row with a mask has one of these instructions, and zeros where its    *)
(* operands are.                                                           *)
Laid(row) ==
  \/ row[1] \in {"bset", "bclr"} /\ row[2] = \hFF8F
  \/ row[1] \in NoOperands /\ row[2] = \hFFFF
  \/ row[1] \in OneOperand /\ row[2] = \hFE0F
  \/ row[1] \in {"lds", "sts"} /\ row[2] = \hFE0F
  \/ row[1] \in TwoRegisters /\ row[2] = \hFC00
  \/ row[1] \in UpperImm /\ row[2] = \hF000
  \/ row[1] \in {"sbrc", "sbrs", "bld", "bst"} /\ row[2] = \hFE08
  \/ row[1] \in {"in", "out"} /\ row[2] = \hF800
  \/ row[1] \in WordImm /\ row[2] = \hFF00
  \/ row[1] \in PortBits /\ row[2] = \hFF00
  \/ row[1] \in {"brbc", "brbs"} /\ row[2] = \hFC00
  \/ row[1] \in {"rcall", "rjmp"} /\ row[2] = \hF000
  \/ row[1] \in {"call", "jmp"} /\ row[2] = \hFE0E
  \/ row[1] \in {"movw"} /\ row[2] = \hFF00
  \/ row[1] \in {"muls"} /\ row[2] = \hFF00
  \/ row[1] \in Multiplies816 /\ row[2] = \hFF88
  \/ row[1] \in Displaced /\ row[2] = \hD208

Zeros(row) ==
  /\ row[3] \in Word
  /\ row[2] = \hD208 => /\ Field(row[3], 1, 8) = 0 /\ Field(row[3], 16, 32) = 0
                        /\ Field(row[3], 1024, 4) = 0 /\ Field(row[3], 8192, 2) = 0
  /\ row[2] = \hF000 => Field(row[3], 1, 4096) = 0
  /\ row[2] = \hF800 => Field(row[3], 1, 2048) = 0
  /\ row[2] = \hFC00 => Field(row[3], 1, 1024) = 0
  /\ row[2] = \hFE08 => Field(row[3], 1, 8) = 0 /\ Field(row[3], 16, 32) = 0
  /\ row[2] = \hFE0E => Field(row[3], 1, 2) = 0 /\ Field(row[3], 16, 32) = 0
  /\ row[2] = \hFE0F => Field(row[3], 16, 32) = 0
  /\ row[2] = \hFF00 => Field(row[3], 1, 256) = 0
  /\ row[2] = \hFF88 => Field(row[3], 1, 8) = 0 /\ Field(row[3], 16, 8) = 0
  /\ row[2] = \hFF8F => Field(row[3], 16, 8) = 0

Regular(k) == RowNumber(SPEC[k][1]) = k /\ Laid(SPEC[k]) /\ Zeros(SPEC[k])

LEMMA Rows == \A k \in 1 .. 84 : Regular(k)
<1>1. Regular(1)
  <2>1. SPEC[1][1] = "bclr" /\ SPEC[1][2] = \hFF8F /\ SPEC[1][3] = \h9488
    BY DEF SPEC
  <2>2. RowNumber("bclr") = 1
    BY DEF RowNumber
  <2>3. Laid(SPEC[1])
    BY <2>1 DEF Laid
  <2>4. Zeros(SPEC[1])
    BY <2>1, WordRange DEF Zeros, Field
  <2> QED
    BY <2>1, <2>2, <2>3, <2>4 DEF Regular
<1>2. Regular(2)
  <2>1. SPEC[2][1] = "bset" /\ SPEC[2][2] = \hFF8F /\ SPEC[2][3] = \h9408
    BY DEF SPEC
  <2>2. RowNumber("bset") = 2
    BY DEF RowNumber
  <2>3. Laid(SPEC[2])
    BY <2>1 DEF Laid
  <2>4. Zeros(SPEC[2])
    BY <2>1, WordRange DEF Zeros, Field
  <2> QED
    BY <2>1, <2>2, <2>3, <2>4 DEF Regular
<1>3. Regular(3)
  <2>1. SPEC[3][1] = "icall" /\ SPEC[3][2] = \hFFFF /\ SPEC[3][3] = \h9509
    BY DEF SPEC
  <2>2. RowNumber("icall") = 3
    BY DEF RowNumber
  <2>3. Laid(SPEC[3])
    BY <2>1 DEF Laid, NoOperands
  <2>4. Zeros(SPEC[3])
    BY <2>1, WordRange DEF Zeros, Field
  <2> QED
    BY <2>1, <2>2, <2>3, <2>4 DEF Regular
<1>4. Regular(4)
  <2>1. SPEC[4][1] = "ijmp" /\ SPEC[4][2] = \hFFFF /\ SPEC[4][3] = \h9409
    BY DEF SPEC
  <2>2. RowNumber("ijmp") = 4
    BY DEF RowNumber
  <2>3. Laid(SPEC[4])
    BY <2>1 DEF Laid, NoOperands
  <2>4. Zeros(SPEC[4])
    BY <2>1, WordRange DEF Zeros, Field
  <2> QED
    BY <2>1, <2>2, <2>3, <2>4 DEF Regular
<1>5. Regular(5)
  <2>1. SPEC[5][1] = "lpm_r0" /\ SPEC[5][2] = \hFFFF /\ SPEC[5][3] = \h95C8
    BY DEF SPEC
  <2>2. RowNumber("lpm_r0") = 5
    BY DEF RowNumber
  <2>3. Laid(SPEC[5])
    BY <2>1 DEF Laid, NoOperands
  <2>4. Zeros(SPEC[5])
    BY <2>1, WordRange DEF Zeros, Field
  <2> QED
    BY <2>1, <2>2, <2>3, <2>4 DEF Regular
<1>6. Regular(6)
  <2>1. SPEC[6][1] = "lpm" /\ SPEC[6][2] = \hFE0F /\ SPEC[6][3] = \h9004
    BY DEF SPEC
  <2>2. RowNumber("lpm") = 6
    BY DEF RowNumber
  <2>3. Laid(SPEC[6])
    BY <2>1 DEF Laid, OneOperand, PointerLoads
  <2>4. Zeros(SPEC[6])
    BY <2>1, WordRange DEF Zeros, Field
  <2> QED
    BY <2>1, <2>2, <2>3, <2>4 DEF Regular
<1>7. Regular(7)
  <2>1. SPEC[7][1] = "lpm_inc" /\ SPEC[7][2] = \hFE0F /\ SPEC[7][3] = \h9005
    BY DEF SPEC
  <2>2. RowNumber("lpm_inc") = 7
    BY DEF RowNumber
  <2>3. Laid(SPEC[7])
    BY <2>1 DEF Laid, OneOperand, PointerLoads
  <2>4. Zeros(SPEC[7])
    BY <2>1, WordRange DEF Zeros, Field
  <2> QED
    BY <2>1, <2>2, <2>3, <2>4 DEF Regular
<1>8. Regular(8)
  <2>1. SPEC[8][1] = "nop" /\ SPEC[8][2] = \hFFFF /\ SPEC[8][3] = \h0000
    BY DEF SPEC
  <2>2. RowNumber("nop") = 8
    BY DEF RowNumber
  <2>3. Laid(SPEC[8])
    BY <2>1 DEF Laid, NoOperands
  <2>4. Zeros(SPEC[8])
    BY <2>1, WordRange DEF Zeros, Field
  <2> QED
    BY <2>1, <2>2, <2>3, <2>4 DEF Regular
<1>9. Regular(9)
  <2>1. SPEC[9][1] = "wdr" /\ SPEC[9][2] = \hFFFF /\ SPEC[9][3] = \h95A8
    BY DEF SPEC
  <2>2. RowNumber("wdr") = 9
    BY DEF RowNumber
  <2>3. Laid(SPEC[9])
    BY <2>1 DEF Laid, NoOperands
  <2>4. Zeros(SPEC[9])
    BY <2>1, WordRange DEF Zeros, Field
  <2> QED
    BY <2>1, <2>2, <2>3, <2>4 DEF Regular
<1>10. Regular(10)
  <2>1. SPEC[10][1] = "ret" /\ SPEC[10][2] = \hFFFF /\ SPEC[10][3] = \h9508
    BY DEF SPEC
  <2>2. RowNumber("ret") = 10
    BY DEF RowNumber
  <2>3. Laid(SPEC[10])
    BY <2>1 DEF Laid, NoOperands
  <2>4. Zeros(SPEC[10])
    BY <2>1, WordRange DEF Zeros, Field
  <2> QED
    BY <2>1, <2>2, <2>3, <2>4 DEF Regular
<1>11. Regular(11)
  <2>1. SPEC[11][1] = "adc" /\ SPEC[11][2] = \hFC00 /\ SPEC[11][3] = \h1C00
    BY DEF SPEC
  <2>2. RowNumber("adc") = 11
    BY DEF RowNumber
  <2>3. Laid(SPEC[11])
    BY <2>1 DEF Laid, TwoRegisters
  <2>4. Zeros(SPEC[11])
    BY <2>1, WordRange DEF Zeros, Field
  <2> QED
    BY <2>1, <2>2, <2>3, <2>4 DEF Regular
<1>12. Regular(12)
  <2>1. SPEC[12][1] = "add" /\ SPEC[12][2] = \hFC00 /\ SPEC[12][3] = \h0C00
    BY DEF SPEC
  <2>2. RowNumber("add") = 12
    BY DEF RowNumber
  <2>3. Laid(SPEC[12])
    BY <2>1 DEF Laid, TwoRegisters
  <2>4. Zeros(SPEC[12])
    BY <2>1, WordRange DEF Zeros, Field
  <2> QED
    BY <2>1, <2>2, <2>3, <2>4 DEF Regular
<1>13. Regular(13)
  <2>1. SPEC[13][1] = "and" /\ SPEC[13][2] = \hFC00 /\ SPEC[13][3] = \h2000
    BY DEF SPEC
  <2>2. RowNumber("and") = 13
    BY DEF RowNumber
  <2>3. Laid(SPEC[13])
    BY <2>1 DEF Laid, TwoRegisters
  <2>4. Zeros(SPEC[13])
    BY <2>1, WordRange DEF Zeros, Field
  <2> QED
    BY <2>1, <2>2, <2>3, <2>4 DEF Regular
<1>14. Regular(14)
  <2>1. SPEC[14][1] = "cp" /\ SPEC[14][2] = \hFC00 /\ SPEC[14][3] = \h1400
    BY DEF SPEC
  <2>2. RowNumber("cp") = 14
    BY DEF RowNumber
  <2>3. Laid(SPEC[14])
    BY <2>1 DEF Laid, TwoRegisters
  <2>4. Zeros(SPEC[14])
    BY <2>1, WordRange DEF Zeros, Field
  <2> QED
    BY <2>1, <2>2, <2>3, <2>4 DEF Regular
<1>15. Regular(15)
  <2>1. SPEC[15][1] = "cpc" /\ SPEC[15][2] = \hFC00 /\ SPEC[15][3] = \h0400
    BY DEF SPEC
  <2>2. RowNumber("cpc") = 15
    BY DEF RowNumber
  <2>3. Laid(SPEC[15])
    BY <2>1 DEF Laid, TwoRegisters
  <2>4. Zeros(SPEC[15])
    BY <2>1, WordRange DEF Zeros, Field
  <2> QED
    BY <2>1, <2>2, <2>3, <2>4 DEF Regular
<1>16. Regular(16)
  <2>1. SPEC[16][1] = "cpse" /\ SPEC[16][2] = \hFC00 /\ SPEC[16][3] = \h1000
    BY DEF SPEC
  <2>2. RowNumber("cpse") = 16
    BY DEF RowNumber
  <2>3. Laid(SPEC[16])
    BY <2>1 DEF Laid, TwoRegisters
  <2>4. Zeros(SPEC[16])
    BY <2>1, WordRange DEF Zeros, Field
  <2> QED
    BY <2>1, <2>2, <2>3, <2>4 DEF Regular
<1>17. Regular(17)
  <2>1. SPEC[17][1] = "eor" /\ SPEC[17][2] = \hFC00 /\ SPEC[17][3] = \h2400
    BY DEF SPEC
  <2>2. RowNumber("eor") = 17
    BY DEF RowNumber
  <2>3. Laid(SPEC[17])
    BY <2>1 DEF Laid, TwoRegisters
  <2>4. Zeros(SPEC[17])
    BY <2>1, WordRange DEF Zeros, Field
  <2> QED
    BY <2>1, <2>2, <2>3, <2>4 DEF Regular
<1>18. Regular(18)
  <2>1. SPEC[18][1] = "mov" /\ SPEC[18][2] = \hFC00 /\ SPEC[18][3] = \h2C00
    BY DEF SPEC
  <2>2. RowNumber("mov") = 18
    BY DEF RowNumber
  <2>3. Laid(SPEC[18])
    BY <2>1 DEF Laid, TwoRegisters
  <2>4. Zeros(SPEC[18])
    BY <2>1, WordRange DEF Zeros, Field
  <2> QED
    BY <2>1, <2>2, <2>3, <2>4 DEF Regular
<1>19. Regular(19)
  <2>1. SPEC[19][1] = "mul" /\ SPEC[19][2] = \hFC00 /\ SPEC[19][3] = \h9C00
    BY DEF SPEC
  <2>2. RowNumber("mul") = 19
    BY DEF RowNumber
  <2>3. Laid(SPEC[19])
    BY <2>1 DEF Laid, TwoRegisters
  <2>4. Zeros(SPEC[19])
    BY <2>1, WordRange DEF Zeros, Field
  <2> QED
    BY <2>1, <2>2, <2>3, <2>4 DEF Regular
<1>20. Regular(20)
  <2>1. SPEC[20][1] = "or" /\ SPEC[20][2] = \hFC00 /\ SPEC[20][3] = \h2800
    BY DEF SPEC
  <2>2. RowNumber("or") = 20
    BY DEF RowNumber
  <2>3. Laid(SPEC[20])
    BY <2>1 DEF Laid, TwoRegisters
  <2>4. Zeros(SPEC[20])
    BY <2>1, WordRange DEF Zeros, Field
  <2> QED
    BY <2>1, <2>2, <2>3, <2>4 DEF Regular
<1>21. Regular(21)
  <2>1. SPEC[21][1] = "sbc" /\ SPEC[21][2] = \hFC00 /\ SPEC[21][3] = \h0800
    BY DEF SPEC
  <2>2. RowNumber("sbc") = 21
    BY DEF RowNumber
  <2>3. Laid(SPEC[21])
    BY <2>1 DEF Laid, TwoRegisters
  <2>4. Zeros(SPEC[21])
    BY <2>1, WordRange DEF Zeros, Field
  <2> QED
    BY <2>1, <2>2, <2>3, <2>4 DEF Regular
<1>22. Regular(22)
  <2>1. SPEC[22][1] = "sub" /\ SPEC[22][2] = \hFC00 /\ SPEC[22][3] = \h1800
    BY DEF SPEC
  <2>2. RowNumber("sub") = 22
    BY DEF RowNumber
  <2>3. Laid(SPEC[22])
    BY <2>1 DEF Laid, TwoRegisters
  <2>4. Zeros(SPEC[22])
    BY <2>1, WordRange DEF Zeros, Field
  <2> QED
    BY <2>1, <2>2, <2>3, <2>4 DEF Regular
<1>23. Regular(23)
  <2>1. SPEC[23][1] = "andi" /\ SPEC[23][2] = \hF000 /\ SPEC[23][3] = \h7000
    BY DEF SPEC
  <2>2. RowNumber("andi") = 23
    BY DEF RowNumber
  <2>3. Laid(SPEC[23])
    BY <2>1 DEF Laid, UpperImm
  <2>4. Zeros(SPEC[23])
    BY <2>1, WordRange DEF Zeros, Field
  <2> QED
    BY <2>1, <2>2, <2>3, <2>4 DEF Regular
<1>24. Regular(24)
  <2>1. SPEC[24][1] = "ldi" /\ SPEC[24][2] = \hF000 /\ SPEC[24][3] = \hE000
    BY DEF SPEC
  <2>2. RowNumber("ldi") = 24
    BY DEF RowNumber
  <2>3. Laid(SPEC[24])
    BY <2>1 DEF Laid, UpperImm
  <2>4. Zeros(SPEC[24])
    BY <2>1, WordRange DEF Zeros, Field
  <2> QED
    BY <2>1, <2>2, <2>3, <2>4 DEF Regular
<1>25. Regular(25)
  <2>1. SPEC[25][1] = "ori" /\ SPEC[25][2] = \hF000 /\ SPEC[25][3] = \h6000
    BY DEF SPEC
  <2>2. RowNumber("ori") = 25
    BY DEF RowNumber
  <2>3. Laid(SPEC[25])
    BY <2>1 DEF Laid, UpperImm
  <2>4. Zeros(SPEC[25])
    BY <2>1, WordRange DEF Zeros, Field
  <2> QED
    BY <2>1, <2>2, <2>3, <2>4 DEF Regular
<1>26. Regular(26)
  <2>1. SPEC[26][1] = "cpi" /\ SPEC[26][2] = \hF000 /\ SPEC[26][3] = \h3000
    BY DEF SPEC
  <2>2. RowNumber("cpi") = 26
    BY DEF RowNumber
  <2>3. Laid(SPEC[26])
    BY <2>1 DEF Laid, UpperImm
  <2>4. Zeros(SPEC[26])
    BY <2>1, WordRange DEF Zeros, Field
  <2> QED
    BY <2>1, <2>2, <2>3, <2>4 DEF Regular
<1>27. Regular(27)
  <2>1. SPEC[27][1] = "sbci" /\ SPEC[27][2] = \hF000 /\ SPEC[27][3] = \h4000
    BY DEF SPEC
  <2>2. RowNumber("sbci") = 27
    BY DEF RowNumber
  <2>3. Laid(SPEC[27])
    BY <2>1 DEF Laid, UpperImm
  <2>4. Zeros(SPEC[27])
    BY <2>1, WordRange DEF Zeros, Field
  <2> QED
    BY <2>1, <2>2, <2>3, <2>4 DEF Regular
<1>28. Regular(28)
  <2>1. SPEC[28][1] = "subi" /\ SPEC[28][2] = \hF000 /\ SPEC[28][3] = \h5000
    BY DEF SPEC
  <2>2. RowNumber("subi") = 28
    BY DEF RowNumber
  <2>3. Laid(SPEC[28])
    BY <2>1 DEF Laid, UpperImm
  <2>4. Zeros(SPEC[28])
    BY <2>1, WordRange DEF Zeros, Field
  <2> QED
    BY <2>1, <2>2, <2>3, <2>4 DEF Regular
<1>29. Regular(29)
  <2>1. SPEC[29][1] = "sbrc" /\ SPEC[29][2] = \hFE08 /\ SPEC[29][3] = \hFC00
    BY DEF SPEC
  <2>2. RowNumber("sbrc") = 29
    BY DEF RowNumber
  <2>3. Laid(SPEC[29])
    BY <2>1 DEF Laid
  <2>4. Zeros(SPEC[29])
    BY <2>1, WordRange DEF Zeros, Field
  <2> QED
    BY <2>1, <2>2, <2>3, <2>4 DEF Regular
<1>30. Regular(30)
  <2>1. SPEC[30][1] = "sbrs" /\ SPEC[30][2] = \hFE08 /\ SPEC[30][3] = \hFE00
    BY DEF SPEC
  <2>2. RowNumber("sbrs") = 30
    BY DEF RowNumber
  <2>3. Laid(SPEC[30])
    BY <2>1 DEF Laid
  <2>4. Zeros(SPEC[30])
    BY <2>1, WordRange DEF Zeros, Field
  <2> QED
    BY <2>1, <2>2, <2>3, <2>4 DEF Regular
<1>31. Regular(31)
  <2>1. SPEC[31][1] = "bld" /\ SPEC[31][2] = \hFE08 /\ SPEC[31][3] = \hF800
    BY DEF SPEC
  <2>2. RowNumber("bld") = 31
    BY DEF RowNumber
  <2>3. Laid(SPEC[31])
    BY <2>1 DEF Laid
  <2>4. Zeros(SPEC[31])
    BY <2>1, WordRange DEF Zeros, Field
  <2> QED
    BY <2>1, <2>2, <2>3, <2>4 DEF Regular
<1>32. Regular(32)
  <2>1. SPEC[32][1] = "bst" /\ SPEC[32][2] = \hFE08 /\ SPEC[32][3] = \hFA00
    BY DEF SPEC
  <2>2. RowNumber("bst") = 32
    BY DEF RowNumber
  <2>3. Laid(SPEC[32])
    BY <2>1 DEF Laid
  <2>4. Zeros(SPEC[32])
    BY <2>1, WordRange DEF Zeros, Field
  <2> QED
    BY <2>1, <2>2, <2>3, <2>4 DEF Regular
<1>33. Regular(33)
  <2>1. SPEC[33][1] = "in" /\ SPEC[33][2] = \hF800 /\ SPEC[33][3] = \hB000
    BY DEF SPEC
  <2>2. RowNumber("in") = 33
    BY DEF RowNumber
  <2>3. Laid(SPEC[33])
    BY <2>1 DEF Laid
  <2>4. Zeros(SPEC[33])
    BY <2>1, WordRange DEF Zeros, Field
  <2> QED
    BY <2>1, <2>2, <2>3, <2>4 DEF Regular
<1>34. Regular(34)
  <2>1. SPEC[34][1] = "out" /\ SPEC[34][2] = \hF800 /\ SPEC[34][3] = \hB800
    BY DEF SPEC
  <2>2. RowNumber("out") = 34
    BY DEF RowNumber
  <2>3. Laid(SPEC[34])
    BY <2>1 DEF Laid
  <2>4. Zeros(SPEC[34])
    BY <2>1, WordRange DEF Zeros, Field
  <2> QED
    BY <2>1, <2>2, <2>3, <2>4 DEF Regular
<1>35. Regular(35)
  <2>1. SPEC[35][1] = "adiw" /\ SPEC[35][2] = \hFF00 /\ SPEC[35][3] = \h9600
    BY DEF SPEC
  <2>2. RowNumber("adiw") = 35
    BY DEF RowNumber
  <2>3. Laid(SPEC[35])
    BY <2>1 DEF Laid, WordImm
  <2>4. Zeros(SPEC[35])
    BY <2>1, WordRange DEF Zeros, Field
  <2> QED
    BY <2>1, <2>2, <2>3, <2>4 DEF Regular
<1>36. Regular(36)
  <2>1. SPEC[36][1] = "sbiw" /\ SPEC[36][2] = \hFF00 /\ SPEC[36][3] = \h9700
    BY DEF SPEC
  <2>2. RowNumber("sbiw") = 36
    BY DEF RowNumber
  <2>3. Laid(SPEC[36])
    BY <2>1 DEF Laid, WordImm
  <2>4. Zeros(SPEC[36])
    BY <2>1, WordRange DEF Zeros, Field
  <2> QED
    BY <2>1, <2>2, <2>3, <2>4 DEF Regular
<1>37. Regular(37)
  <2>1. SPEC[37][1] = "cbi" /\ SPEC[37][2] = \hFF00 /\ SPEC[37][3] = \h9800
    BY DEF SPEC
  <2>2. RowNumber("cbi") = 37
    BY DEF RowNumber
  <2>3. Laid(SPEC[37])
    BY <2>1 DEF Laid, PortBits
  <2>4. Zeros(SPEC[37])
    BY <2>1, WordRange DEF Zeros, Field
  <2> QED
    BY <2>1, <2>2, <2>3, <2>4 DEF Regular
<1>38. Regular(38)
  <2>1. SPEC[38][1] = "sbi" /\ SPEC[38][2] = \hFF00 /\ SPEC[38][3] = \h9A00
    BY DEF SPEC
  <2>2. RowNumber("sbi") = 38
    BY DEF RowNumber
  <2>3. Laid(SPEC[38])
    BY <2>1 DEF Laid, PortBits
  <2>4. Zeros(SPEC[38])
    BY <2>1, WordRange DEF Zeros, Field
  <2> QED
    BY <2>1, <2>2, <2>3, <2>4 DEF Regular
<1>39. Regular(39)
  <2>1. SPEC[39][1] = "sbic" /\ SPEC[39][2] = \hFF00 /\ SPEC[39][3] = \h9900
    BY DEF SPEC
  <2>2. RowNumber("sbic") = 39
    BY DEF RowNumber
  <2>3. Laid(SPEC[39])
    BY <2>1 DEF Laid, PortBits
  <2>4. Zeros(SPEC[39])
    BY <2>1, WordRange DEF Zeros, Field
  <2> QED
    BY <2>1, <2>2, <2>3, <2>4 DEF Regular
<1>40. Regular(40)
  <2>1. SPEC[40][1] = "sbis" /\ SPEC[40][2] = \hFF00 /\ SPEC[40][3] = \h9B00
    BY DEF SPEC
  <2>2. RowNumber("sbis") = 40
    BY DEF RowNumber
  <2>3. Laid(SPEC[40])
    BY <2>1 DEF Laid, PortBits
  <2>4. Zeros(SPEC[40])
    BY <2>1, WordRange DEF Zeros, Field
  <2> QED
    BY <2>1, <2>2, <2>3, <2>4 DEF Regular
<1>41. Regular(41)
  <2>1. SPEC[41][1] = "brbc" /\ SPEC[41][2] = \hFC00 /\ SPEC[41][3] = \hF400
    BY DEF SPEC
  <2>2. RowNumber("brbc") = 41
    BY DEF RowNumber
  <2>3. Laid(SPEC[41])
    BY <2>1 DEF Laid
  <2>4. Zeros(SPEC[41])
    BY <2>1, WordRange DEF Zeros, Field
  <2> QED
    BY <2>1, <2>2, <2>3, <2>4 DEF Regular
<1>42. Regular(42)
  <2>1. SPEC[42][1] = "brbs" /\ SPEC[42][2] = \hFC00 /\ SPEC[42][3] = \hF000
    BY DEF SPEC
  <2>2. RowNumber("brbs") = 42
    BY DEF RowNumber
  <2>3. Laid(SPEC[42])
    BY <2>1 DEF Laid
  <2>4. Zeros(SPEC[42])
    BY <2>1, WordRange DEF Zeros, Field
  <2> QED
    BY <2>1, <2>2, <2>3, <2>4 DEF Regular
<1>43. Regular(43)
  <2>1. SPEC[43][1] = "rcall" /\ SPEC[43][2] = \hF000 /\ SPEC[43][3] = \hD000
    BY DEF SPEC
  <2>2. RowNumber("rcall") = 43
    BY DEF RowNumber
  <2>3. Laid(SPEC[43])
    BY <2>1 DEF Laid
  <2>4. Zeros(SPEC[43])
    BY <2>1, WordRange DEF Zeros, Field
  <2> QED
    BY <2>1, <2>2, <2>3, <2>4 DEF Regular
<1>44. Regular(44)
  <2>1. SPEC[44][1] = "rjmp" /\ SPEC[44][2] = \hF000 /\ SPEC[44][3] = \hC000
    BY DEF SPEC
  <2>2. RowNumber("rjmp") = 44
    BY DEF RowNumber
  <2>3. Laid(SPEC[44])
    BY <2>1 DEF Laid
  <2>4. Zeros(SPEC[44])
    BY <2>1, WordRange DEF Zeros, Field
  <2> QED
    BY <2>1, <2>2, <2>3, <2>4 DEF Regular
<1>45. Regular(45)
  <2>1. SPEC[45][1] = "call" /\ SPEC[45][2] = \hFE0E /\ SPEC[45][3] = \h940E
    BY DEF SPEC
  <2>2. RowNumber("call") = 45
    BY DEF RowNumber
  <2>3. Laid(SPEC[45])
    BY <2>1 DEF Laid
  <2>4. Zeros(SPEC[45])
    BY <2>1, WordRange DEF Zeros, Field
  <2> QED
    BY <2>1, <2>2, <2>3, <2>4 DEF Regular
<1>46. Regular(46)
  <2>1. SPEC[46][1] = "jmp" /\ SPEC[46][2] = \hFE0E /\ SPEC[46][3] = \h940C
    BY DEF SPEC
  <2>2. RowNumber("jmp") = 46
    BY DEF RowNumber
  <2>3. Laid(SPEC[46])
    BY <2>1 DEF Laid
  <2>4. Zeros(SPEC[46])
    BY <2>1, WordRange DEF Zeros, Field
  <2> QED
    BY <2>1, <2>2, <2>3, <2>4 DEF Regular
<1>47. Regular(47)
  <2>1. SPEC[47][1] = "asr" /\ SPEC[47][2] = \hFE0F /\ SPEC[47][3] = \h9405
    BY DEF SPEC
  <2>2. RowNumber("asr") = 47
    BY DEF RowNumber
  <2>3. Laid(SPEC[47])
    BY <2>1 DEF Laid, OneOperand, OneRegister
  <2>4. Zeros(SPEC[47])
    BY <2>1, WordRange DEF Zeros, Field
  <2> QED
    BY <2>1, <2>2, <2>3, <2>4 DEF Regular
<1>48. Regular(48)
  <2>1. SPEC[48][1] = "com" /\ SPEC[48][2] = \hFE0F /\ SPEC[48][3] = \h9400
    BY DEF SPEC
  <2>2. RowNumber("com") = 48
    BY DEF RowNumber
  <2>3. Laid(SPEC[48])
    BY <2>1 DEF Laid, OneOperand, OneRegister
  <2>4. Zeros(SPEC[48])
    BY <2>1, WordRange DEF Zeros, Field
  <2> QED
    BY <2>1, <2>2, <2>3, <2>4 DEF Regular
<1>49. Regular(49)
  <2>1. SPEC[49][1] = "dec" /\ SPEC[49][2] = \hFE0F /\ SPEC[49][3] = \h940A
    BY DEF SPEC
  <2>2. RowNumber("dec") = 49
    BY DEF RowNumber
  <2>3. Laid(SPEC[49])
    BY <2>1 DEF Laid, OneOperand, OneRegister
  <2>4. Zeros(SPEC[49])
    BY <2>1, WordRange DEF Zeros, Field
  <2> QED
    BY <2>1, <2>2, <2>3, <2>4 DEF Regular
<1>50. Regular(50)
  <2>1. SPEC[50][1] = "inc" /\ SPEC[50][2] = \hFE0F /\ SPEC[50][3] = \h9403
    BY DEF SPEC
  <2>2. RowNumber("inc") = 50
    BY DEF RowNumber
  <2>3. Laid(SPEC[50])
    BY <2>1 DEF Laid, OneOperand, OneRegister
  <2>4. Zeros(SPEC[50])
    BY <2>1, WordRange DEF Zeros, Field
  <2> QED
    BY <2>1, <2>2, <2>3, <2>4 DEF Regular
<1>51. Regular(51)
  <2>1. SPEC[51][1] = "lsr" /\ SPEC[51][2] = \hFE0F /\ SPEC[51][3] = \h9406
    BY DEF SPEC
  <2>2. RowNumber("lsr") = 51
    BY DEF RowNumber
  <2>3. Laid(SPEC[51])
    BY <2>1 DEF Laid, OneOperand, OneRegister
  <2>4. Zeros(SPEC[51])
    BY <2>1, WordRange DEF Zeros, Field
  <2> QED
    BY <2>1, <2>2, <2>3, <2>4 DEF Regular
<1>52. Regular(52)
  <2>1. SPEC[52][1] = "neg" /\ SPEC[52][2] = \hFE0F /\ SPEC[52][3] = \h9401
    BY DEF SPEC
  <2>2. RowNumber("neg") = 52
    BY DEF RowNumber
  <2>3. Laid(SPEC[52])
    BY <2>1 DEF Laid, OneOperand, OneRegister
  <2>4. Zeros(SPEC[52])
    BY <2>1, WordRange DEF Zeros, Field
  <2> QED
    BY <2>1, <2>2, <2>3, <2>4 DEF Regular
<1>53. Regular(53)
  <2>1. SPEC[53][1] = "pop" /\ SPEC[53][2] = \hFE0F /\ SPEC[53][3] = \h900F
    BY DEF SPEC
  <2>2. RowNumber("pop") = 53
    BY DEF RowNumber
  <2>3. Laid(SPEC[53])
    BY <2>1 DEF Laid, OneOperand, OneRegister
  <2>4. Zeros(SPEC[53])
    BY <2>1, WordRange DEF Zeros, Field
  <2> QED
    BY <2>1, <2>2, <2>3, <2>4 DEF Regular
<1>54. Regular(54)
  <2>1. SPEC[54][1] = "push" /\ SPEC[54][2] = \hFE0F /\ SPEC[54][3] = \h920F
    BY DEF SPEC
  <2>2. RowNumber("push") = 54
    BY DEF RowNumber
  <2>3. Laid(SPEC[54])
    BY <2>1 DEF Laid, OneOperand
  <2>4. Zeros(SPEC[54])
    BY <2>1, WordRange DEF Zeros, Field
  <2> QED
    BY <2>1, <2>2, <2>3, <2>4 DEF Regular
<1>55. Regular(55)
  <2>1. SPEC[55][1] = "ror" /\ SPEC[55][2] = \hFE0F /\ SPEC[55][3] = \h9407
    BY DEF SPEC
  <2>2. RowNumber("ror") = 55
    BY DEF RowNumber
  <2>3. Laid(SPEC[55])
    BY <2>1 DEF Laid, OneOperand, OneRegister
  <2>4. Zeros(SPEC[55])
    BY <2>1, WordRange DEF Zeros, Field
  <2> QED
    BY <2>1, <2>2, <2>3, <2>4 DEF Regular
<1>56. Regular(56)
  <2>1. SPEC[56][1] = "swap" /\ SPEC[56][2] = \hFE0F /\ SPEC[56][3] = \h9402
    BY DEF SPEC
  <2>2. RowNumber("swap") = 56
    BY DEF RowNumber
  <2>3. Laid(SPEC[56])
    BY <2>1 DEF Laid, OneOperand, OneRegister
  <2>4. Zeros(SPEC[56])
    BY <2>1, WordRange DEF Zeros, Field
  <2> QED
    BY <2>1, <2>2, <2>3, <2>4 DEF Regular
<1>57. Regular(57)
  <2>1. SPEC[57][1] = "movw" /\ SPEC[57][2] = \hFF00 /\ SPEC[57][3] = \h0100
    BY DEF SPEC
  <2>2. RowNumber("movw") = 57
    BY DEF RowNumber
  <2>3. Laid(SPEC[57])
    BY <2>1 DEF Laid
  <2>4. Zeros(SPEC[57])
    BY <2>1, WordRange DEF Zeros, Field
  <2> QED
    BY <2>1, <2>2, <2>3, <2>4 DEF Regular
<1>58. Regular(58)
  <2>1. SPEC[58][1] = "sts" /\ SPEC[58][2] = \hFE0F /\ SPEC[58][3] = \h9200
    BY DEF SPEC
  <2>2. RowNumber("sts") = 58
    BY DEF RowNumber
  <2>3. Laid(SPEC[58])
    BY <2>1 DEF Laid
  <2>4. Zeros(SPEC[58])
    BY <2>1, WordRange DEF Zeros, Field
  <2> QED
    BY <2>1, <2>2, <2>3, <2>4 DEF Regular
<1>59. Regular(59)
  <2>1. SPEC[59][1] = "lds" /\ SPEC[59][2] = \hFE0F /\ SPEC[59][3] = \h9000
    BY DEF SPEC
  <2>2. RowNumber("lds") = 59
    BY DEF RowNumber
  <2>3. Laid(SPEC[59])
    BY <2>1 DEF Laid
  <2>4. Zeros(SPEC[59])
    BY <2>1, WordRange DEF Zeros, Field
  <2> QED
    BY <2>1, <2>2, <2>3, <2>4 DEF Regular
<1>60. Regular(60)
  <2>1. SPEC[60][1] = "ld_x" /\ SPEC[60][2] = \hFE0F /\ SPEC[60][3] = \h900C
    BY DEF SPEC
  <2>2. RowNumber("ld_x") = 60
    BY DEF RowNumber
  <2>3. Laid(SPEC[60])
    BY <2>1 DEF Laid, OneOperand, PointerLoads
  <2>4. Zeros(SPEC[60])
    BY <2>1, WordRange DEF Zeros, Field
  <2> QED
    BY <2>1, <2>2, <2>3, <2>4 DEF Regular
<1>61. Regular(61)
  <2>1. SPEC[61][1] = "ld_x_inc" /\ SPEC[61][2] = \hFE0F /\ SPEC[61][3] = \h900D
    BY DEF SPEC
  <2>2. RowNumber("ld_x_inc") = 61
    BY DEF RowNumber
  <2>3. Laid(SPEC[61])
    BY <2>1 DEF Laid, OneOperand, PointerLoads
  <2>4. Zeros(SPEC[61])
    BY <2>1, WordRange DEF Zeros, Field
  <2> QED
    BY <2>1, <2>2, <2>3, <2>4 DEF Regular
<1>62. Regular(62)
  <2>1. SPEC[62][1] = "ld_x_dec" /\ SPEC[62][2] = \hFE0F /\ SPEC[62][3] = \h900E
    BY DEF SPEC
  <2>2. RowNumber("ld_x_dec") = 62
    BY DEF RowNumber
  <2>3. Laid(SPEC[62])
    BY <2>1 DEF Laid, OneOperand, PointerLoads
  <2>4. Zeros(SPEC[62])
    BY <2>1, WordRange DEF Zeros, Field
  <2> QED
    BY <2>1, <2>2, <2>3, <2>4 DEF Regular
<1>63. Regular(63)
  <2>1. SPEC[63][1] = "ld_y_inc" /\ SPEC[63][2] = \hFE0F /\ SPEC[63][3] = \h9009
    BY DEF SPEC
  <2>2. RowNumber("ld_y_inc") = 63
    BY DEF RowNumber
  <2>3. Laid(SPEC[63])
    BY <2>1 DEF Laid, OneOperand, PointerLoads
  <2>4. Zeros(SPEC[63])
    BY <2>1, WordRange DEF Zeros, Field
  <2> QED
    BY <2>1, <2>2, <2>3, <2>4 DEF Regular
<1>64. Regular(64)
  <2>1. SPEC[64][1] = "ld_y_dec" /\ SPEC[64][2] = \hFE0F /\ SPEC[64][3] = \h900A
    BY DEF SPEC
  <2>2. RowNumber("ld_y_dec") = 64
    BY DEF RowNumber
  <2>3. Laid(SPEC[64])
    BY <2>1 DEF Laid, OneOperand, PointerLoads
  <2>4. Zeros(SPEC[64])
    BY <2>1, WordRange DEF Zeros, Field
  <2> QED
    BY <2>1, <2>2, <2>3, <2>4 DEF Regular
<1>65. Regular(65)
  <2>1. SPEC[65][1] = "ldd_y" /\ SPEC[65][2] = \hD208 /\ SPEC[65][3] = \h8008
    BY DEF SPEC
  <2>2. RowNumber("ldd_y") = 65
    BY DEF RowNumber
  <2>3. Laid(SPEC[65])
    BY <2>1 DEF Laid, Displaced
  <2>4. Zeros(SPEC[65])
    BY <2>1, WordRange DEF Zeros, Field
  <2> QED
    BY <2>1, <2>2, <2>3, <2>4 DEF Regular
<1>66. Regular(66)
  <2>1. SPEC[66][1] = "ld_z_inc" /\ SPEC[66][2] = \hFE0F /\ SPEC[66][3] = \h9001
    BY DEF SPEC
  <2>2. RowNumber("ld_z_inc") = 66
    BY DEF RowNumber
  <2>3. Laid(SPEC[66])
    BY <2>1 DEF Laid, OneOperand, PointerLoads
  <2>4. Zeros(SPEC[66])
    BY <2>1, WordRange DEF Zeros, Field
  <2> QED
    BY <2>1, <2>2, <2>3, <2>4 DEF Regular
<1>67. Regular(67)
  <2>1. SPEC[67][1] = "ld_z_dec" /\ SPEC[67][2] = \hFE0F /\ SPEC[67][3] = \h9002
    BY DEF SPEC
  <2>2. RowNumber("ld_z_dec") = 67
    BY DEF RowNumber
  <2>3. Laid(SPEC[67])
    BY <2>1 DEF Laid, OneOperand, PointerLoads
  <2>4. Zeros(SPEC[67])
    BY <2>1, WordRange DEF Zeros, Field
  <2> QED
    BY <2>1, <2>2, <2>3, <2>4 DEF Regular
<1>68. Regular(68)
  <2>1. SPEC[68][1] = "ldd_z" /\ SPEC[68][2] = \hD208 /\ SPEC[68][3] = \h8000
    BY DEF SPEC
  <2>2. RowNumber("ldd_z") = 68
    BY DEF RowNumber
  <2>3. Laid(SPEC[68])
    BY <2>1 DEF Laid, Displaced
  <2>4. Zeros(SPEC[68])
    BY <2>1, WordRange DEF Zeros, Field
  <2> QED
    BY <2>1, <2>2, <2>3, <2>4 DEF Regular
<1>69. Regular(69)
  <2>1. SPEC[69][1] = "st_x" /\ SPEC[69][2] = \hFE0F /\ SPEC[69][3] = \h920C
    BY DEF SPEC
  <2>2. RowNumber("st_x") = 69
    BY DEF RowNumber
  <2>3. Laid(SPEC[69])
    BY <2>1 DEF Laid, OneOperand, PointerStores
  <2>4. Zeros(SPEC[69])
    BY <2>1, WordRange DEF Zeros, Field
  <2> QED
    BY <2>1, <2>2, <2>3, <2>4 DEF Regular
<1>70. Regular(70)
  <2>1. SPEC[70][1] = "st_x_inc" /\ SPEC[70][2] = \hFE0F /\ SPEC[70][3] = \h920D
    BY DEF SPEC
  <2>2. RowNumber("st_x_inc") = 70
    BY DEF RowNumber
  <2>3. Laid(SPEC[70])
    BY <2>1 DEF Laid, OneOperand, PointerStores
  <2>4. Zeros(SPEC[70])
    BY <2>1, WordRange DEF Zeros, Field
  <2> QED
    BY <2>1, <2>2, <2>3, <2>4 DEF Regular
<1>71. Regular(71)
  <2>1. SPEC[71][1] = "st_x_dec" /\ SPEC[71][2] = \hFE0F /\ SPEC[71][3] = \h920E
    BY DEF SPEC
  <2>2. RowNumber("st_x_dec") = 71
    BY DEF RowNumber
  <2>3. Laid(SPEC[71])
    BY <2>1 DEF Laid, OneOperand, PointerStores
  <2>4. Zeros(SPEC[71])
    BY <2>1, WordRange DEF Zeros, Field
  <2> QED
    BY <2>1, <2>2, <2>3, <2>4 DEF Regular
<1>72. Regular(72)
  <2>1. SPEC[72][1] = "st_y_inc" /\ SPEC[72][2] = \hFE0F /\ SPEC[72][3] = \h9209
    BY DEF SPEC
  <2>2. RowNumber("st_y_inc") = 72
    BY DEF RowNumber
  <2>3. Laid(SPEC[72])
    BY <2>1 DEF Laid, OneOperand, PointerStores
  <2>4. Zeros(SPEC[72])
    BY <2>1, WordRange DEF Zeros, Field
  <2> QED
    BY <2>1, <2>2, <2>3, <2>4 DEF Regular
<1>73. Regular(73)
  <2>1. SPEC[73][1] = "st_y_dec" /\ SPEC[73][2] = \hFE0F /\ SPEC[73][3] = \h920A
    BY DEF SPEC
  <2>2. RowNumber("st_y_dec") = 73
    BY DEF RowNumber
  <2>3. Laid(SPEC[73])
    BY <2>1 DEF Laid, OneOperand, PointerStores
  <2>4. Zeros(SPEC[73])
    BY <2>1, WordRange DEF Zeros, Field
  <2> QED
    BY <2>1, <2>2, <2>3, <2>4 DEF Regular
<1>74. Regular(74)
  <2>1. SPEC[74][1] = "std_y" /\ SPEC[74][2] = \hD208 /\ SPEC[74][3] = \h8208
    BY DEF SPEC
  <2>2. RowNumber("std_y") = 74
    BY DEF RowNumber
  <2>3. Laid(SPEC[74])
    BY <2>1 DEF Laid, Displaced
  <2>4. Zeros(SPEC[74])
    BY <2>1, WordRange DEF Zeros, Field
  <2> QED
    BY <2>1, <2>2, <2>3, <2>4 DEF Regular
<1>75. Regular(75)
  <2>1. SPEC[75][1] = "st_z_inc" /\ SPEC[75][2] = \hFE0F /\ SPEC[75][3] = \h9201
    BY DEF SPEC
  <2>2. RowNumber("st_z_inc") = 75
    BY DEF RowNumber
  <2>3. Laid(SPEC[75])
    BY <2>1 DEF Laid, OneOperand, PointerStores
  <2>4. Zeros(SPEC[75])
    BY <2>1, WordRange DEF Zeros, Field
  <2> QED
    BY <2>1, <2>2, <2>3, <2>4 DEF Regular
<1>76. Regular(76)
  <2>1. SPEC[76][1] = "st_z_dec" /\ SPEC[76][2] = \hFE0F /\ SPEC[76][3] = \h9202
    BY DEF SPEC
  <2>2. RowNumber("st_z_dec") = 76
    BY DEF RowNumber
  <2>3. Laid(SPEC[76])
    BY <2>1 DEF Laid, OneOperand, PointerStores
  <2>4. Zeros(SPEC[76])
    BY <2>1, WordRange DEF Zeros, Field
  <2> QED
    BY <2>1, <2>2, <2>3, <2>4 DEF Regular
<1>77. Regular(77)
  <2>1. SPEC[77][1] = "std_z" /\ SPEC[77][2] = \hD208 /\ SPEC[77][3] = \h8200
    BY DEF SPEC
  <2>2. RowNumber("std_z") = 77
    BY DEF RowNumber
  <2>3. Laid(SPEC[77])
    BY <2>1 DEF Laid, Displaced
  <2>4. Zeros(SPEC[77])
    BY <2>1, WordRange DEF Zeros, Field
  <2> QED
    BY <2>1, <2>2, <2>3, <2>4 DEF Regular
<1>78. Regular(78)
  <2>1. SPEC[78][1] = "muls" /\ SPEC[78][2] = \hFF00 /\ SPEC[78][3] = \h0200
    BY DEF SPEC
  <2>2. RowNumber("muls") = 78
    BY DEF RowNumber
  <2>3. Laid(SPEC[78])
    BY <2>1 DEF Laid
  <2>4. Zeros(SPEC[78])
    BY <2>1, WordRange DEF Zeros, Field
  <2> QED
    BY <2>1, <2>2, <2>3, <2>4 DEF Regular
<1>79. Regular(79)
  <2>1. SPEC[79][1] = "mulsu" /\ SPEC[79][2] = \hFF88 /\ SPEC[79][3] = \h0300
    BY DEF SPEC
  <2>2. RowNumber("mulsu") = 79
    BY DEF RowNumber
  <2>3. Laid(SPEC[79])
    BY <2>1 DEF Laid, Multiplies816
  <2>4. Zeros(SPEC[79])
    BY <2>1, WordRange DEF Zeros, Field
  <2> QED
    BY <2>1, <2>2, <2>3, <2>4 DEF Regular
<1>80. Regular(80)
  <2>1. SPEC[80][1] = "fmul" /\ SPEC[80][2] = \hFF88 /\ SPEC[80][3] = \h0308
    BY DEF SPEC
  <2>2. RowNumber("fmul") = 80
    BY DEF RowNumber
  <2>3. Laid(SPEC[80])
    BY <2>1 DEF Laid, Multiplies816
  <2>4. Zeros(SPEC[80])
    BY <2>1, WordRange DEF Zeros, Field
  <2> QED
    BY <2>1, <2>2, <2>3, <2>4 DEF Regular
<1>81. Regular(81)
  <2>1. SPEC[81][1] = "fmuls" /\ SPEC[81][2] = \hFF88 /\ SPEC[81][3] = \h0380
    BY DEF SPEC
  <2>2. RowNumber("fmuls") = 81
    BY DEF RowNumber
  <2>3. Laid(SPEC[81])
    BY <2>1 DEF Laid, Multiplies816
  <2>4. Zeros(SPEC[81])
    BY <2>1, WordRange DEF Zeros, Field
  <2> QED
    BY <2>1, <2>2, <2>3, <2>4 DEF Regular
<1>82. Regular(82)
  <2>1. SPEC[82][1] = "fmulsu" /\ SPEC[82][2] = \hFF88 /\ SPEC[82][3] = \h0388
    BY DEF SPEC
  <2>2. RowNumber("fmulsu") = 82
    BY DEF RowNumber
  <2>3. Laid(SPEC[82])
    BY <2>1 DEF Laid, Multiplies816
  <2>4. Zeros(SPEC[82])
    BY <2>1, WordRange DEF Zeros, Field
  <2> QED
    BY <2>1, <2>2, <2>3, <2>4 DEF Regular
<1>83. Regular(83)
  <2>1. SPEC[83][1] = "sleep" /\ SPEC[83][2] = \hFFFF /\ SPEC[83][3] = \h9588
    BY DEF SPEC
  <2>2. RowNumber("sleep") = 83
    BY DEF RowNumber
  <2>3. Laid(SPEC[83])
    BY <2>1 DEF Laid, NoOperands
  <2>4. Zeros(SPEC[83])
    BY <2>1, WordRange DEF Zeros, Field
  <2> QED
    BY <2>1, <2>2, <2>3, <2>4 DEF Regular
<1>84. Regular(84)
  <2>1. SPEC[84][1] = "break" /\ SPEC[84][2] = \hFFFF /\ SPEC[84][3] = \h9598
    BY DEF SPEC
  <2>2. RowNumber("break") = 84
    BY DEF RowNumber
  <2>3. Laid(SPEC[84])
    BY <2>1 DEF Laid, NoOperands
  <2>4. Zeros(SPEC[84])
    BY <2>1, WordRange DEF Zeros, Field
  <2> QED
    BY <2>1, <2>2, <2>3, <2>4 DEF Regular
<1>85. \A k \in 1 .. 21 : Regular(k)
  BY <1>1, <1>2, <1>3, <1>4, <1>5, <1>6, <1>7, <1>8, <1>9, <1>10, <1>11,
     <1>12, <1>13, <1>14, <1>15, <1>16, <1>17, <1>18, <1>19, <1>20, <1>21
<1>86. \A k \in 22 .. 42 : Regular(k)
  BY <1>22, <1>23, <1>24, <1>25, <1>26, <1>27, <1>28, <1>29, <1>30, <1>31,
     <1>32, <1>33, <1>34, <1>35, <1>36, <1>37, <1>38, <1>39, <1>40, <1>41,
     <1>42
<1>87. \A k \in 43 .. 63 : Regular(k)
  BY <1>43, <1>44, <1>45, <1>46, <1>47, <1>48, <1>49, <1>50, <1>51, <1>52,
     <1>53, <1>54, <1>55, <1>56, <1>57, <1>58, <1>59, <1>60, <1>61, <1>62,
     <1>63
<1>88. \A k \in 64 .. 84 : Regular(k)
  BY <1>64, <1>65, <1>66, <1>67, <1>68, <1>69, <1>70, <1>71, <1>72, <1>73,
     <1>74, <1>75, <1>76, <1>77, <1>78, <1>79, <1>80, <1>81, <1>82, <1>83,
     <1>84
<1> QED
  BY <1>85, <1>86, <1>87, <1>88

(* The assembler finds the fixed bits of a row by its name.                *)
LEMMA FixedIs == ASSUME NEW k \in 1 .. 84 PROVE Fixed[SPEC[k][1]] = SPEC[k][3]
<1> DEFINE i == SPEC[k][1]
           j == CHOOSE j \in DOMAIN SPEC : SPEC[j][1] = i
<1>0. k \in DOMAIN SPEC
  BY Table
<1>1. i \in { SPEC[n][1] : n \in DOMAIN SPEC }
  BY <1>0, Zenon
<1>2. Fixed[i] = SPEC[j][3]
  BY <1>1 DEF Fixed
<1>3. j \in DOMAIN SPEC /\ SPEC[j][1] = i
  BY <1>0, Zenon
<1> HIDE DEF j
<1>4. j \in 1 .. 84
  BY <1>3, Table
<1>5. j = k
  <2>1. RowNumber(SPEC[j][1]) = j /\ RowNumber(SPEC[k][1]) = k
    BY <1>4, Rows DEF Regular
  <2> QED
    BY <1>3, <2>1
<1> QED
  BY <1>2, <1>5

(* The decoder takes the one row there is.                                 *)
LEMMA DecodedRow ==
  ASSUME NEW w, avr_decode(w) # "undefined"
  PROVE  \E k \in 1 .. 84 : is_op_match(SPEC[k], w) /\ avr_decode(w) = SPEC[k][1]
<1> DEFINE found == Matches(w)
           r == RowOf(w)
           least(k) == k \in found /\ \A j \in found : k <= j
<1>1. found # {}
  BY DEF avr_decode
<1>2. found \subseteq {r} /\ found \subseteq 1 .. 84
  BY AtMostOne, Table DEF Matches
<1>3. r \in found /\ r \in 1 .. 84 /\ found = {r}
  BY <1>1, <1>2
<1>4. is_op_match(SPEC[r], w)
  BY <1>3 DEF Matches
<1>5. avr_decode(w) = SPEC[CHOOSE k \in found : \A j \in found : k <= j][1]
  BY <1>1 DEF avr_decode
<1> HIDE DEF found, r
<1>6. (CHOOSE k \in found : \A j \in found : k <= j) = r
  BY <1>3
<1> QED
  BY <1>3, <1>4, <1>5, <1>6

(* What a word is that decodes to i, where v are the fixed bits.           *)
Encoded(i, w, v) ==
  /\ v \in Word
  /\ \/ i \in {"bset", "bclr"} /\ w = v + 16 * Field(w, 16, 8)
     \/ i \in NoOperands /\ w = v
     \/ i \in OneOperand /\ w = v + 16 * Field(w, 16, 32)
     \/ i \in {"lds", "sts"} /\ w = v + 16 * Field(w, 16, 32)
     \/ i \in TwoRegisters /\ w = v + Field(w, 1, 1024)
     \/ i \in UpperImm /\ w = v + Field(w, 1, 4096)
     \/ i \in {"sbrc", "sbrs", "bld", "bst"}
        /\ w = v + Field(w, 1, 8) + 16 * Field(w, 16, 32)
     \/ i \in {"in", "out"} /\ w = v + Field(w, 1, 2048)
     \/ i \in WordImm /\ w = v + Field(w, 1, 256)
     \/ i \in PortBits /\ w = v + Field(w, 1, 256)
     \/ i \in {"brbc", "brbs"} /\ w = v + Field(w, 1, 1024)
     \/ i \in {"rcall", "rjmp"} /\ w = v + Field(w, 1, 4096)
     \/ i \in {"call", "jmp"}
        /\ w = v + Field(w, 1, 2) + 16 * Field(w, 16, 32)
     \/ i \in {"movw"} /\ w = v + Field(w, 1, 256)
     \/ i \in {"muls"} /\ w = v + Field(w, 1, 256)
     \/ i \in Multiplies816 /\ w = v + Field(w, 1, 8) + 16 * Field(w, 16, 8)
     \/ i \in Displaced
        /\ w = v + Field(w, 1, 8) + 16 * Field(w, 16, 32)
             + 1024 * Field(w, 1024, 4) + 8192 * Field(w, 8192, 2)

LEMMA DecodedIs ==
  ASSUME NEW w \in Word, avr_decode(w) # "undefined"
  PROVE  Encoded(avr_decode(w), w, Fixed[avr_decode(w)])
<1>1. PICK k \in 1 .. 84 : is_op_match(SPEC[k], w) /\ avr_decode(w) = SPEC[k][1]
  BY DecodedRow
<1> DEFINE row == SPEC[k]
<1>2. Laid(row) /\ Zeros(row) /\ is_op_match(row, w)
  BY <1>1, Rows DEF Regular
<1>3. row[1] = avr_decode(w) /\ row[3] = Fixed[avr_decode(w)]
  BY <1>1, FixedIs
<1> HIDE DEF row
<1>4. row[3] \in Word
  BY <1>2 DEF Zeros
<1>5. CASE row[2] = \hD208
  BY <1>2, <1>3, <1>4, <1>5, FreeD208 DEF Laid, Zeros, Encoded
<1>6. CASE row[2] = \hF000
  BY <1>2, <1>3, <1>4, <1>6, FreeF000 DEF Laid, Zeros, Encoded
<1>7. CASE row[2] = \hF800
  BY <1>2, <1>3, <1>4, <1>7, FreeF800 DEF Laid, Zeros, Encoded
<1>8. CASE row[2] = \hFC00
  BY <1>2, <1>3, <1>4, <1>8, FreeFC00 DEF Laid, Zeros, Encoded
<1>9. CASE row[2] = \hFE08
  BY <1>2, <1>3, <1>4, <1>9, FreeFE08 DEF Laid, Zeros, Encoded
<1>10. CASE row[2] = \hFE0E
  BY <1>2, <1>3, <1>4, <1>10, FreeFE0E DEF Laid, Zeros, Encoded
<1>11. CASE row[2] = \hFE0F
  BY <1>2, <1>3, <1>4, <1>11, FreeFE0F DEF Laid, Zeros, Encoded
<1>12. CASE row[2] = \hFF00
  BY <1>2, <1>3, <1>4, <1>12, FreeFF00 DEF Laid, Zeros, Encoded
<1>13. CASE row[2] = \hFF88
  BY <1>2, <1>3, <1>4, <1>13, FreeFF88 DEF Laid, Zeros, Encoded
<1>14. CASE row[2] = \hFF8F
  BY <1>2, <1>3, <1>4, <1>14, FreeFF8F DEF Laid, Zeros, Encoded
<1>15. CASE row[2] = \hFFFF
  BY <1>2, <1>3, <1>4, <1>15, FreeFFFF DEF Laid, Zeros, Encoded
<1> QED
  BY <1>2, <1>5, <1>6, <1>7, <1>8, <1>9, <1>10, <1>11, <1>12, <1>13, <1>14,
     <1>15 DEF Laid

-----------------------------------------------------------------------------
(* The numbers of a line, and the operands the assembler makes of them.    *)

LEMMA PlacedIs ==
  ASSUME NEW i, NEW l
  PROVE  LET n == l.numbers
         IN  /\ i \in {"rjmp", "rcall"} => Placed(i, l) = AtOffset(l, 4096)
             /\ i \in {"brbc", "brbs"} => Placed(i, l) = 8 * AtOffset(l, 128) + n[3]
             /\ i \in {"sbrc", "sbrs", "bld", "bst"} => Placed(i, l) = AtD(n[1]) + n[2]
             /\ i \in TwoRegisters => Placed(i, l) = AtD(n[1]) + AtR(n[2])
             /\ i = "muls" => Placed(i, l) = AtUpperD(n[1], 16) + (n[2] % 16)
             /\ i \in Multiplies816 => Placed(i, l) = AtUpperD(n[1], 8) + (n[2] % 8)
             /\ i = "movw" => Placed(i, l) = 8 * n[1] + n[2] \div 2
             /\ i \in WordImm => Placed(i, l) = 8 * (n[1] - 24) + AtK(n[2], 64)
             /\ i \in UpperImm => Placed(i, l) = AtUpperD(n[1], 16) + AtK(n[2], 256)
             /\ i = "in" => Placed(i, l) = AtD(n[1]) + AtP(n[2])
             /\ i = "out" => Placed(i, l) = AtD(n[2]) + AtP(n[1])
             /\ i \in PortBits => Placed(i, l) = 8 * n[1] + n[2]
             /\ i = "lds" => Placed(i, l) = AtD(n[1])
             /\ i = "sts" => Placed(i, l) = AtD(n[2])
             /\ i \in {"call", "jmp"} => Placed(i, l) = LET high == n[1] \div 131072
                                   IN  16 * (high \div 2) + (high % 2)
             /\ i \in {"ldd_y", "ldd_z"}
                  => Placed(i, l) = AtD(n[1]) + IF Len(n) = 2 THEN AtQ(n[2]) ELSE 0
             /\ i \in {"std_y", "std_z"}
                  => Placed(i, l) = AtD(n[Len(n)]) + IF Len(n) = 2 THEN AtQ(n[1]) ELSE 0
             /\ i \in OneOperand => Placed(i, l) = AtD(n[1])
             /\ i \in NoOperands => Placed(i, l) = 0
<1> DEFINE n == l.numbers
           a == AtOffset(l, 4096)
           b == 8 * AtOffset(l, 128) + n[3]
           c == AtD(n[1]) + n[2]
           d == AtD(n[1]) + AtR(n[2])
           e == AtUpperD(n[1], 16) + (n[2] % 16)
           f == AtUpperD(n[1], 8) + (n[2] % 8)
           g == 8 * n[1] + n[2] \div 2
           h == 8 * (n[1] - 24) + AtK(n[2], 64)
           j == AtUpperD(n[1], 16) + AtK(n[2], 256)
           k == AtD(n[1]) + AtP(n[2])
           m == AtD(n[2]) + AtP(n[1])
           p == 8 * n[1] + n[2]
           q == AtD(n[1])
           r == AtD(n[2])
           s == LET high == n[1] \div 131072
                  IN  16 * (high \div 2) + (high % 2)
           t == AtD(n[1]) + IF Len(n) = 2 THEN AtQ(n[2]) ELSE 0
           u == AtD(n[Len(n)]) + IF Len(n) = 2 THEN AtQ(n[1]) ELSE 0
           x == AtD(n[1])
           y == 0
<1>1. Placed(i, l) =
        CASE i \in {"rjmp", "rcall"} -> a
          [] i \in {"brbc", "brbs"} -> b
          [] i \in {"sbrc", "sbrs", "bld", "bst"} -> c
          [] i \in TwoRegisters -> d
          [] i = "muls" -> e
          [] i \in Multiplies816 -> f
          [] i = "movw" -> g
          [] i \in WordImm -> h
          [] i \in UpperImm -> j
          [] i = "in" -> k
          [] i = "out" -> m
          [] i \in PortBits -> p
          [] i = "lds" -> q
          [] i = "sts" -> r
          [] i \in {"call", "jmp"} -> s
          [] i \in {"ldd_y", "ldd_z"} -> t
          [] i \in {"std_y", "std_z"} -> u
          [] i \in OneRegister \cup PointerLoads \cup PointerStores \cup {"push"} -> x
          [] OTHER -> y
  BY DEF Placed
<1> HIDE DEF a, b, c, d, e, f, g, h, j, k, m, p, q, r, s, t, u, x, y
<1>2. i \in {"rjmp", "rcall"} => Placed(i, l) = a
  BY <1>1 DEF NoOperands, OneOperand, TwoRegisters, Multiplies816, WordImm,
     UpperImm, PortBits, OneRegister, PointerLoads, PointerStores
<1>3. i \in {"brbc", "brbs"} => Placed(i, l) = b
  BY <1>1 DEF NoOperands, OneOperand, TwoRegisters, Multiplies816, WordImm,
     UpperImm, PortBits, OneRegister, PointerLoads, PointerStores
<1>4. i \in {"sbrc", "sbrs", "bld", "bst"} => Placed(i, l) = c
  BY <1>1 DEF NoOperands, OneOperand, TwoRegisters, Multiplies816, WordImm,
     UpperImm, PortBits, OneRegister, PointerLoads, PointerStores
<1>5. i \in TwoRegisters => Placed(i, l) = d
  BY <1>1 DEF NoOperands, OneOperand, TwoRegisters, Multiplies816, WordImm,
     UpperImm, PortBits, OneRegister, PointerLoads, PointerStores
<1>6. i = "muls" => Placed(i, l) = e
  BY <1>1 DEF NoOperands, OneOperand, TwoRegisters, Multiplies816, WordImm,
     UpperImm, PortBits, OneRegister, PointerLoads, PointerStores
<1>7. i \in Multiplies816 => Placed(i, l) = f
  BY <1>1 DEF NoOperands, OneOperand, TwoRegisters, Multiplies816, WordImm,
     UpperImm, PortBits, OneRegister, PointerLoads, PointerStores
<1>8. i = "movw" => Placed(i, l) = g
  BY <1>1 DEF NoOperands, OneOperand, TwoRegisters, Multiplies816, WordImm,
     UpperImm, PortBits, OneRegister, PointerLoads, PointerStores
<1>9. i \in WordImm => Placed(i, l) = h
  BY <1>1 DEF NoOperands, OneOperand, TwoRegisters, Multiplies816, WordImm,
     UpperImm, PortBits, OneRegister, PointerLoads, PointerStores
<1>10. i \in UpperImm => Placed(i, l) = j
  BY <1>1 DEF NoOperands, OneOperand, TwoRegisters, Multiplies816, WordImm,
     UpperImm, PortBits, OneRegister, PointerLoads, PointerStores
<1>11. i = "in" => Placed(i, l) = k
  BY <1>1 DEF NoOperands, OneOperand, TwoRegisters, Multiplies816, WordImm,
     UpperImm, PortBits, OneRegister, PointerLoads, PointerStores
<1>12. i = "out" => Placed(i, l) = m
  BY <1>1 DEF NoOperands, OneOperand, TwoRegisters, Multiplies816, WordImm,
     UpperImm, PortBits, OneRegister, PointerLoads, PointerStores
<1>13. i \in PortBits => Placed(i, l) = p
  BY <1>1 DEF NoOperands, OneOperand, TwoRegisters, Multiplies816, WordImm,
     UpperImm, PortBits, OneRegister, PointerLoads, PointerStores
<1>14. i = "lds" => Placed(i, l) = q
  BY <1>1 DEF NoOperands, OneOperand, TwoRegisters, Multiplies816, WordImm,
     UpperImm, PortBits, OneRegister, PointerLoads, PointerStores
<1>15. i = "sts" => Placed(i, l) = r
  BY <1>1 DEF NoOperands, OneOperand, TwoRegisters, Multiplies816, WordImm,
     UpperImm, PortBits, OneRegister, PointerLoads, PointerStores
<1>16. i \in {"call", "jmp"} => Placed(i, l) = s
  BY <1>1 DEF NoOperands, OneOperand, TwoRegisters, Multiplies816, WordImm,
     UpperImm, PortBits, OneRegister, PointerLoads, PointerStores
<1>17. i \in {"ldd_y", "ldd_z"} => Placed(i, l) = t
  BY <1>1 DEF NoOperands, OneOperand, TwoRegisters, Multiplies816, WordImm,
     UpperImm, PortBits, OneRegister, PointerLoads, PointerStores
<1>18. i \in {"std_y", "std_z"} => Placed(i, l) = u
  BY <1>1 DEF NoOperands, OneOperand, TwoRegisters, Multiplies816, WordImm,
     UpperImm, PortBits, OneRegister, PointerLoads, PointerStores
<1>19. i \in OneOperand => Placed(i, l) = x
  BY <1>1 DEF NoOperands, OneOperand, TwoRegisters, Multiplies816, WordImm,
     UpperImm, PortBits, OneRegister, PointerLoads, PointerStores
<1>20. i \in NoOperands => Placed(i, l) = y
  BY <1>1 DEF NoOperands, OneOperand, TwoRegisters, Multiplies816, WordImm,
     UpperImm, PortBits, OneRegister, PointerLoads, PointerStores
<1> QED
  BY <1>2, <1>3, <1>4, <1>5, <1>6, <1>7, <1>8, <1>9, <1>10, <1>11, <1>12,
     <1>13, <1>14, <1>15, <1>16, <1>17, <1>18, <1>19, <1>20 DEF a, b, c, d, e,
     f, g, h, j, k, m, p, q, r, s, t, u, x, y
LEMMA NumbersAre ==
  ASSUME NEW i, NEW w, NEW b, NEW n, n = Numbers(i, w, b)
  PROVE  /\ i \in {"rjmp", "rcall"}
              => n[1] = Offset(i, w) /\ n[2] = b + Offset(i, w) + 2
         /\ i \in {"brbc", "brbs"}
              => n[1] = Offset(i, w) /\ n[2] = b + Offset(i, w) + 2 /\ n[3] = bit(i, w)
         /\ i \in {"sbrc", "sbrs"} => n[1] = rr(i, w) /\ n[2] = bit(i, w)
         /\ i \in {"bld", "bst"} => n[1] = rd(i, w) /\ n[2] = bit(i, w)
         /\ i \in TwoRegisters \cup Multiplies816 \cup {"muls"}
              => n[1] = rd(i, w) /\ n[2] = rr(i, w)
         /\ i = "movw"
              => n[1] = PairRegister(rd(i, w)) /\ n[2] = PairRegister(rr(i, w))
         /\ i \in WordImm => n[1] = PairRegister(rd(i, w)) /\ n[2] = imm(i, w)
         /\ i \in UpperImm => n[1] = rd(i, w) /\ n[2] = imm(i, w)
         /\ i = "in" => n[1] = rd(i, w) /\ n[2] = port(i, w)
         /\ i = "out" => n[1] = port(i, w) /\ n[2] = rr(i, w)
         /\ i \in PortBits => n[1] = port(i, w) /\ n[2] = bit(i, w)
         /\ i \in OneRegister => n[1] = rd(i, w)
         /\ i \in PointerLoads => n[1] = rd(i, w)
         /\ i \in PointerStores \cup {"push"} => n[1] = rr(i, w)
         /\ i = "undefined" => n[1] = w
<1>1. i \in {"rjmp", "rcall"}
      => n[1] = Offset(i, w) /\ n[2] = b + Offset(i, w) + 2
  BY DEF Numbers, TwoRegisters, Multiplies816, WordImm, UpperImm, PortBits,
     OneRegister, PointerLoads, PointerStores
<1>2. i \in {"brbc", "brbs"}
      => n[1] = Offset(i, w) /\ n[2] = b + Offset(i, w) + 2 /\ n[3] = bit(i, w)
  BY DEF Numbers, TwoRegisters, Multiplies816, WordImm, UpperImm, PortBits,
     OneRegister, PointerLoads, PointerStores
<1>3. i \in {"sbrc", "sbrs"} => n[1] = rr(i, w) /\ n[2] = bit(i, w)
  BY DEF Numbers, TwoRegisters, Multiplies816, WordImm, UpperImm, PortBits,
     OneRegister, PointerLoads, PointerStores
<1>4. i \in {"bld", "bst"} => n[1] = rd(i, w) /\ n[2] = bit(i, w)
  BY DEF Numbers, TwoRegisters, Multiplies816, WordImm, UpperImm, PortBits,
     OneRegister, PointerLoads, PointerStores
<1>5. i \in TwoRegisters \cup Multiplies816 \cup {"muls"}
      => n[1] = rd(i, w) /\ n[2] = rr(i, w)
  BY DEF Numbers, TwoRegisters, Multiplies816, WordImm, UpperImm, PortBits,
     OneRegister, PointerLoads, PointerStores
<1>6. i = "movw"
      => n[1] = PairRegister(rd(i, w)) /\ n[2] = PairRegister(rr(i, w))
  BY DEF Numbers, TwoRegisters, Multiplies816, WordImm, UpperImm, PortBits,
     OneRegister, PointerLoads, PointerStores
<1>7. i \in WordImm => n[1] = PairRegister(rd(i, w)) /\ n[2] = imm(i, w)
  BY DEF Numbers, TwoRegisters, Multiplies816, WordImm, UpperImm, PortBits,
     OneRegister, PointerLoads, PointerStores
<1>8. i \in UpperImm => n[1] = rd(i, w) /\ n[2] = imm(i, w)
  BY DEF Numbers, TwoRegisters, Multiplies816, WordImm, UpperImm, PortBits,
     OneRegister, PointerLoads, PointerStores
<1>9. i = "in" => n[1] = rd(i, w) /\ n[2] = port(i, w)
  BY DEF Numbers, TwoRegisters, Multiplies816, WordImm, UpperImm, PortBits,
     OneRegister, PointerLoads, PointerStores
<1>10. i = "out" => n[1] = port(i, w) /\ n[2] = rr(i, w)
  BY DEF Numbers, TwoRegisters, Multiplies816, WordImm, UpperImm, PortBits,
     OneRegister, PointerLoads, PointerStores
<1>11. i \in PortBits => n[1] = port(i, w) /\ n[2] = bit(i, w)
  BY DEF Numbers, TwoRegisters, Multiplies816, WordImm, UpperImm, PortBits,
     OneRegister, PointerLoads, PointerStores
<1>12. i \in OneRegister => n[1] = rd(i, w)
  BY DEF Numbers, TwoRegisters, Multiplies816, WordImm, UpperImm, PortBits,
     OneRegister, PointerLoads, PointerStores
<1>13. i \in PointerLoads => n[1] = rd(i, w)
  BY DEF Numbers, TwoRegisters, Multiplies816, WordImm, UpperImm, PortBits,
     OneRegister, PointerLoads, PointerStores
<1>14. i \in PointerStores \cup {"push"} => n[1] = rr(i, w)
  BY DEF Numbers, TwoRegisters, Multiplies816, WordImm, UpperImm, PortBits,
     OneRegister, PointerLoads, PointerStores
<1>15. i = "undefined" => n[1] = w
  BY DEF Numbers, TwoRegisters, Multiplies816, WordImm, UpperImm, PortBits,
     OneRegister, PointerLoads, PointerStores
<1> QED
  BY <1>1, <1>2, <1>3, <1>4, <1>5, <1>6, <1>7, <1>8, <1>9, <1>10, <1>11,
     <1>12, <1>13, <1>14, <1>15

(* A displacement of zero is not printed.                                  *)
LEMMA DisplacedNumbers ==
  ASSUME NEW i, NEW w, NEW b, NEW n, n = Numbers(i, w, b), i \in Displaced
  PROVE  LET q == ptr_displacement(i, w)
         IN  /\ q = 0 => Len(n) = 1
             /\ q # 0 => Len(n) = 2
             /\ i \in {"ldd_y", "ldd_z"} => n[1] = rd(i, w) /\ (q # 0 => n[2] = q)
             /\ i \in {"std_y", "std_z"} => n[Len(n)] = rr(i, w) /\ (q # 0 => n[1] = q)
<1> DEFINE q == ptr_displacement(i, w)
           p == PrintedDisplacement(i, w)
<1>1. i \in {"ldd_y", "ldd_z"} \/ i \in {"std_y", "std_z"}
  BY DEF Displaced
<1>2. CASE i \in {"ldd_y", "ldd_z"}
  <2>1. Numbers(i, w, b) = << rd(i, w) >> \o p
    BY <1>2 DEF Numbers, TwoRegisters, Multiplies816, WordImm, UpperImm,
       PortBits, OneRegister, PointerLoads, PointerStores
  <2>2. CASE q = 0
    <3>1. n = << rd(i, w) >> \o << >>
      BY <2>1, <2>2 DEF PrintedDisplacement
    <3> QED
      BY <1>2, <2>2, <3>1
  <2>3. CASE q # 0
    <3>1. n = << rd(i, w) >> \o << q >>
      BY <2>1, <2>3 DEF PrintedDisplacement
    <3> QED
      BY <1>2, <2>3, <3>1
  <2> QED
    BY <2>2, <2>3
<1>3. CASE i \in {"std_y", "std_z"}
  <2>1. Numbers(i, w, b) = p \o << rr(i, w) >>
    BY <1>3 DEF Numbers, TwoRegisters, Multiplies816, WordImm, UpperImm,
       PortBits, OneRegister, PointerLoads, PointerStores
  <2>2. CASE q = 0
    <3>1. n = << >> \o << rr(i, w) >>
      BY <2>1, <2>2 DEF PrintedDisplacement
    <3> QED
      BY <1>3, <2>2, <3>1
  <2>3. CASE q # 0
    <3>1. n = << q >> \o << rr(i, w) >>
      BY <2>1, <2>3 DEF PrintedDisplacement
    <3> QED
      BY <1>3, <2>3, <3>1
  <2> QED
    BY <2>2, <2>3
<1> QED
  BY <1>1, <1>2, <1>3

LEMMA LowField == ASSUME NEW w \in Nat, NEW m PROVE Field(w, 1, m) = w % m
<1>1. w \div 1 = w
  OBVIOUS
<1> QED
  BY <1>1 DEF Field

(* Fields that stand side by side are one field.                           *)
LEMMA Joined ==
  ASSUME NEW w \in Nat
  PROVE  /\ Field(w, 1, 1024)
            = Field(w, 1, 16) + 16 * Field(w, 16, 32) + 512 * Field(w, 512, 2)
         /\ Field(w, 1, 4096)
            = Field(w, 1, 16) + 16 * Field(w, 16, 16) + 256 * Field(w, 256, 16)
         /\ Field(w, 1, 2048)
            = Field(w, 1, 16) + 16 * Field(w, 16, 32) + 512 * Field(w, 512, 4)
         /\ Field(w, 1, 256)
            = Field(w, 1, 16) + 16 * Field(w, 16, 4) + 64 * Field(w, 64, 4)
         /\ Field(w, 1, 256) = Field(w, 1, 8) + 8 * Field(w, 8, 32)
         /\ Field(w, 1, 1024) = Field(w, 1, 8) + 8 * Field(w, 8, 128)
         /\ Field(w, 1, 256) = Field(w, 1, 16) + 16 * Field(w, 16, 16)
<1>1. Field(w, 1, 1024)
      = Field(w, 1, 16) + 16 * Field(w, 16, 32) + 512 * Field(w, 512, 2)
  <2> DEFINE x == w \div 16
             y == w \div 512
             z == w \div 1024
  <2>1. x \in Nat /\ Field(w, 1, 16) \in Nat /\ w = 16 * x + Field(w, 1, 16)
    <3>1. Field(w, 1, 16) = w % 16
      BY LowField
    <3> QED
      BY <3>1
  <2>2. y \in Nat /\ Field(w, 16, 32) \in Nat /\ x = 32 * y + Field(w, 16, 32)
    BY DEF Field
  <2>3. z \in Nat /\ Field(w, 512, 2) \in Nat /\ y = 2 * z + Field(w, 512, 2)
    BY DEF Field
  <2>4. Field(w, 1, 1024) \in Nat /\ w = 1024 * z + Field(w, 1, 1024)
    <3>1. Field(w, 1, 1024) = w % 1024
      BY LowField
    <3> QED
      BY <3>1
  <2> HIDE DEF x, y, z
  <2>5. w = 512 * y + 16 * Field(w, 16, 32) + Field(w, 1, 16)
    BY <2>1, <2>2
  <2>6. w = 1024 * z + 512 * Field(w, 512, 2) + 16 * Field(w, 16, 32) + Field(w, 1, 16)
    BY <2>1, <2>2, <2>3, <2>5
  <2>7. /\ z \in Int /\ Field(w, 1, 16) \in Int /\ Field(w, 16, 32) \in Int
        /\ Field(w, 512, 2) \in Int /\ Field(w, 1, 1024) \in Int
    BY <2>1, <2>2, <2>3, <2>4
  <2> DEFINE s == 16 * Field(w, 16, 32) + Field(w, 1, 16)
             t == 512 * Field(w, 512, 2)
  <2>8. s \in Int /\ t \in Int /\ w = 1024 * z + t + s
    BY <2>6, <2>7
  <2>9. Field(w, 1, 16) + 16 * Field(w, 16, 32) + t = t + s
    BY <2>7
  <2> HIDE DEF s, t
  <2>10. Field(w, 1, 1024) = t + s
    BY <2>4, <2>7, <2>8
  <2> QED
    BY <2>9, <2>10 DEF t
<1>2. Field(w, 1, 4096)
      = Field(w, 1, 16) + 16 * Field(w, 16, 16) + 256 * Field(w, 256, 16)
  <2> DEFINE x == w \div 16
             y == w \div 256
             z == w \div 4096
  <2>1. x \in Nat /\ Field(w, 1, 16) \in Nat /\ w = 16 * x + Field(w, 1, 16)
    <3>1. Field(w, 1, 16) = w % 16
      BY LowField
    <3> QED
      BY <3>1
  <2>2. y \in Nat /\ Field(w, 16, 16) \in Nat /\ x = 16 * y + Field(w, 16, 16)
    BY DEF Field
  <2>3. z \in Nat /\ Field(w, 256, 16) \in Nat /\ y = 16 * z + Field(w, 256, 16)
    BY DEF Field
  <2>4. Field(w, 1, 4096) \in Nat /\ w = 4096 * z + Field(w, 1, 4096)
    <3>1. Field(w, 1, 4096) = w % 4096
      BY LowField
    <3> QED
      BY <3>1
  <2> HIDE DEF x, y, z
  <2>5. w = 256 * y + 16 * Field(w, 16, 16) + Field(w, 1, 16)
    BY <2>1, <2>2
  <2>6. w = 4096 * z + 256 * Field(w, 256, 16) + 16 * Field(w, 16, 16) + Field(w, 1, 16)
    BY <2>1, <2>2, <2>3, <2>5
  <2>7. /\ z \in Int /\ Field(w, 1, 16) \in Int /\ Field(w, 16, 16) \in Int
        /\ Field(w, 256, 16) \in Int /\ Field(w, 1, 4096) \in Int
    BY <2>1, <2>2, <2>3, <2>4
  <2> DEFINE s == 16 * Field(w, 16, 16) + Field(w, 1, 16)
             t == 256 * Field(w, 256, 16)
  <2>8. s \in Int /\ t \in Int /\ w = 4096 * z + t + s
    BY <2>6, <2>7
  <2>9. Field(w, 1, 16) + 16 * Field(w, 16, 16) + t = t + s
    BY <2>7
  <2> HIDE DEF s, t
  <2>10. Field(w, 1, 4096) = t + s
    BY <2>4, <2>7, <2>8
  <2> QED
    BY <2>9, <2>10 DEF t
<1>3. Field(w, 1, 2048)
      = Field(w, 1, 16) + 16 * Field(w, 16, 32) + 512 * Field(w, 512, 4)
  <2> DEFINE x == w \div 16
             y == w \div 512
             z == w \div 2048
  <2>1. x \in Nat /\ Field(w, 1, 16) \in Nat /\ w = 16 * x + Field(w, 1, 16)
    <3>1. Field(w, 1, 16) = w % 16
      BY LowField
    <3> QED
      BY <3>1
  <2>2. y \in Nat /\ Field(w, 16, 32) \in Nat /\ x = 32 * y + Field(w, 16, 32)
    BY DEF Field
  <2>3. z \in Nat /\ Field(w, 512, 4) \in Nat /\ y = 4 * z + Field(w, 512, 4)
    BY DEF Field
  <2>4. Field(w, 1, 2048) \in Nat /\ w = 2048 * z + Field(w, 1, 2048)
    <3>1. Field(w, 1, 2048) = w % 2048
      BY LowField
    <3> QED
      BY <3>1
  <2> HIDE DEF x, y, z
  <2>5. w = 512 * y + 16 * Field(w, 16, 32) + Field(w, 1, 16)
    BY <2>1, <2>2
  <2>6. w = 2048 * z + 512 * Field(w, 512, 4) + 16 * Field(w, 16, 32) + Field(w, 1, 16)
    BY <2>1, <2>2, <2>3, <2>5
  <2>7. /\ z \in Int /\ Field(w, 1, 16) \in Int /\ Field(w, 16, 32) \in Int
        /\ Field(w, 512, 4) \in Int /\ Field(w, 1, 2048) \in Int
    BY <2>1, <2>2, <2>3, <2>4
  <2> DEFINE s == 16 * Field(w, 16, 32) + Field(w, 1, 16)
             t == 512 * Field(w, 512, 4)
  <2>8. s \in Int /\ t \in Int /\ w = 2048 * z + t + s
    BY <2>6, <2>7
  <2>9. Field(w, 1, 16) + 16 * Field(w, 16, 32) + t = t + s
    BY <2>7
  <2> HIDE DEF s, t
  <2>10. Field(w, 1, 2048) = t + s
    BY <2>4, <2>7, <2>8
  <2> QED
    BY <2>9, <2>10 DEF t
<1>4. Field(w, 1, 256)
      = Field(w, 1, 16) + 16 * Field(w, 16, 4) + 64 * Field(w, 64, 4)
  <2> DEFINE x == w \div 16
             y == w \div 64
             z == w \div 256
  <2>1. x \in Nat /\ Field(w, 1, 16) \in Nat /\ w = 16 * x + Field(w, 1, 16)
    <3>1. Field(w, 1, 16) = w % 16
      BY LowField
    <3> QED
      BY <3>1
  <2>2. y \in Nat /\ Field(w, 16, 4) \in Nat /\ x = 4 * y + Field(w, 16, 4)
    BY DEF Field
  <2>3. z \in Nat /\ Field(w, 64, 4) \in Nat /\ y = 4 * z + Field(w, 64, 4)
    BY DEF Field
  <2>4. Field(w, 1, 256) \in Nat /\ w = 256 * z + Field(w, 1, 256)
    <3>1. Field(w, 1, 256) = w % 256
      BY LowField
    <3> QED
      BY <3>1
  <2> HIDE DEF x, y, z
  <2>5. w = 64 * y + 16 * Field(w, 16, 4) + Field(w, 1, 16)
    BY <2>1, <2>2
  <2>6. w = 256 * z + 64 * Field(w, 64, 4) + 16 * Field(w, 16, 4) + Field(w, 1, 16)
    BY <2>1, <2>2, <2>3, <2>5
  <2>7. /\ z \in Int /\ Field(w, 1, 16) \in Int /\ Field(w, 16, 4) \in Int
        /\ Field(w, 64, 4) \in Int /\ Field(w, 1, 256) \in Int
    BY <2>1, <2>2, <2>3, <2>4
  <2> DEFINE s == 16 * Field(w, 16, 4) + Field(w, 1, 16)
             t == 64 * Field(w, 64, 4)
  <2>8. s \in Int /\ t \in Int /\ w = 256 * z + t + s
    BY <2>6, <2>7
  <2>9. Field(w, 1, 16) + 16 * Field(w, 16, 4) + t = t + s
    BY <2>7
  <2> HIDE DEF s, t
  <2>10. Field(w, 1, 256) = t + s
    BY <2>4, <2>7, <2>8
  <2> QED
    BY <2>9, <2>10 DEF t
<1>5. Field(w, 1, 256) = Field(w, 1, 8) + 8 * Field(w, 8, 32)
  <2> DEFINE x == w \div 8
             y == w \div 256
  <2>1. x \in Nat /\ Field(w, 1, 8) \in Nat /\ w = 8 * x + Field(w, 1, 8)
    <3>1. Field(w, 1, 8) = w % 8
      BY LowField
    <3> QED
      BY <3>1
  <2>2. y \in Nat /\ Field(w, 8, 32) \in Nat /\ x = 32 * y + Field(w, 8, 32)
    BY DEF Field
  <2>3. Field(w, 1, 256) \in Nat /\ w = 256 * y + Field(w, 1, 256)
    <3>1. Field(w, 1, 256) = w % 256
      BY LowField
    <3> QED
      BY <3>1
  <2> HIDE DEF x, y
  <2> QED
    BY <2>1, <2>2, <2>3
<1>6. Field(w, 1, 1024) = Field(w, 1, 8) + 8 * Field(w, 8, 128)
  <2> DEFINE x == w \div 8
             y == w \div 1024
  <2>1. x \in Nat /\ Field(w, 1, 8) \in Nat /\ w = 8 * x + Field(w, 1, 8)
    <3>1. Field(w, 1, 8) = w % 8
      BY LowField
    <3> QED
      BY <3>1
  <2>2. y \in Nat /\ Field(w, 8, 128) \in Nat /\ x = 128 * y + Field(w, 8, 128)
    BY DEF Field
  <2>3. Field(w, 1, 1024) \in Nat /\ w = 1024 * y + Field(w, 1, 1024)
    <3>1. Field(w, 1, 1024) = w % 1024
      BY LowField
    <3> QED
      BY <3>1
  <2> HIDE DEF x, y
  <2> QED
    BY <2>1, <2>2, <2>3
<1>7. Field(w, 1, 256) = Field(w, 1, 16) + 16 * Field(w, 16, 16)
  <2> DEFINE x == w \div 16
             y == w \div 256
  <2>1. x \in Nat /\ Field(w, 1, 16) \in Nat /\ w = 16 * x + Field(w, 1, 16)
    <3>1. Field(w, 1, 16) = w % 16
      BY LowField
    <3> QED
      BY <3>1
  <2>2. y \in Nat /\ Field(w, 16, 16) \in Nat /\ x = 16 * y + Field(w, 16, 16)
    BY DEF Field
  <2>3. Field(w, 1, 256) \in Nat /\ w = 256 * y + Field(w, 1, 256)
    <3>1. Field(w, 1, 256) = w % 256
      BY LowField
    <3> QED
      BY <3>1
  <2> HIDE DEF x, y
  <2> QED
    BY <2>1, <2>2, <2>3
<1> QED
  BY <1>1, <1>2, <1>3, <1>4, <1>5, <1>6, <1>7

(* The places of the assembler undo what the unpackers put together.       *)
LEMMA Undone ==
  /\ \A r \in 0 .. 31 : AtD(r) = 16 * r
  /\ \A x \in 0 .. 15, y \in 0 .. 1 : AtR(x + 16 * y) = x + 512 * y
  /\ \A x \in 0 .. 15 : AtUpperD(16 + x, 16) = 16 * x /\ (16 + x) % 16 = x
  /\ \A x \in 0 .. 7 : AtUpperD(16 + x, 8) = 16 * x /\ (16 + x) % 8 = x
  /\ \A x \in 0 .. 15, y \in 0 .. 15 : /\ AtK(x + 16 * y, 256) = x + 256 * y
                                       /\ AtK(x + 16 * y, 64) = x + 64 * y
                                       /\ AtP(x + 16 * y) = x + 512 * y
  /\ \A x \in 0 .. 7, y \in 0 .. 3, z \in 0 .. 1 :
       AtQ(x + 8 * y + 32 * z) = x + 1024 * y + 8192 * z
<1>1. \A r \in 0 .. 31 : AtD(r) = 16 * r
  BY DEF AtD
<1>2. ASSUME NEW x \in 0 .. 15, NEW y \in 0 .. 15
      PROVE  /\ y <= 1 => AtR(x + 16 * y) = x + 512 * y
             /\ AtK(x + 16 * y, 256) = x + 256 * y
             /\ AtK(x + 16 * y, 64) = x + 64 * y
             /\ AtP(x + 16 * y) = x + 512 * y
  <2> DEFINE s == x + 16 * y
  <2>1. s % 16 = x /\ s \div 16 = y
    OBVIOUS
  <2> HIDE DEF s
  <2>2. AtR(s) = x + 512 * y
    BY <2>1 DEF AtR
  <2>3. AtK(s, 256) = x + 256 * y /\ AtK(s, 64) = x + 64 * y /\ AtP(s) = x + 512 * y
    BY <2>1 DEF AtK, AtP
  <2> QED
    BY <2>2, <2>3 DEF s
<1>3. ASSUME NEW x \in 0 .. 15
      PROVE  /\ AtUpperD(16 + x, 16) = 16 * x /\ (16 + x) % 16 = x
             /\ x <= 7 => AtUpperD(16 + x, 8) = 16 * x /\ (16 + x) % 8 = x
  <2>1. (16 + x) % 16 = x
    OBVIOUS
  <2>2. x <= 7 => (16 + x) % 8 = x
    OBVIOUS
  <2> QED
    BY <2>1, <2>2 DEF AtUpperD
<1>4. ASSUME NEW x \in 0 .. 7, NEW y \in 0 .. 3, NEW z \in 0 .. 1
      PROVE  AtQ(x + 8 * y + 32 * z) = x + 1024 * y + 8192 * z
  <2> DEFINE s == x + 8 * y + 32 * z
             h == s \div 8
  <2>1. s % 8 = x /\ h = y + 4 * z /\ s \div 32 = z
    OBVIOUS
  <2> HIDE DEF s
  <2>2. h % 4 = y
    BY <2>1
  <2>3. AtQ(s) = x + 1024 * y + 8192 * z
    BY <2>1, <2>2 DEF AtQ
  <2> QED
    BY <2>3 DEF s
<1>5. \A x \in 0 .. 15, y \in 0 .. 1 : AtR(x + 16 * y) = x + 512 * y
  BY <1>2
<1>6. \A x \in 0 .. 7 : AtUpperD(16 + x, 8) = 16 * x /\ (16 + x) % 8 = x
  BY <1>3
<1> QED
  BY <1>1, <1>2, <1>3, <1>4, <1>5, <1>6

(* What the unpackers take out of a word.                                  *)
LEMMA OperandsAre ==
  ASSUME NEW i, NEW w
  PROVE  /\ i \in RdPlain => rd(i, w) = Field(w, 16, 32)
         /\ i \in UpperImm \cup {"muls"} => rd(i, w) = 16 + Field(w, 16, 16)
         /\ i \in Multiplies816 => rd(i, w) = 16 + Field(w, 16, 8)
         /\ i \in WordImm => rd(i, w) = 12 + Field(w, 16, 4)
         /\ i = "movw" => rd(i, w) = Field(w, 16, 16) /\ rr(i, w) = Field(w, 1, 16)
         /\ i \in TwoRegisters => rr(i, w) = Field(w, 1, 16) + 16 * Field(w, 512, 2)
         /\ i \in RrPlain => rr(i, w) = Field(w, 16, 32)
         /\ i = "muls" => rr(i, w) = 16 + Field(w, 1, 16)
         /\ i \in Multiplies816 => rr(i, w) = 16 + Field(w, 1, 8)
         /\ i \in UpperImm => imm(i, w) = Field(w, 1, 16) + 16 * Field(w, 256, 16)
         /\ i \in WordImm => imm(i, w) = Field(w, 1, 16) + 16 * Field(w, 64, 4)
         /\ i \in PortBits \cup {"sbrc", "sbrs", "bld", "bst", "brbc", "brbs"}
              => bit(i, w) = Field(w, 1, 8)
         /\ i \in {"in", "out"} => port(i, w) = Field(w, 1, 16) + 16 * Field(w, 512, 4)
         /\ i \in PortBits => port(i, w) = Field(w, 8, 32)
         /\ i \in Displaced
              => ptr_displacement(i, w)
                   = Field(w, 1, 8) + 8 * Field(w, 1024, 4) + 32 * Field(w, 8192, 2)
         /\ i \in {"brbc", "brbs"} => pc_offset(i, w) = Signed(Field(w, 8, 128), 64)
         /\ i \in {"rcall", "rjmp"} => pc_offset(i, w) = Signed(Field(w, 1, 4096), 2048)
         /\ i \in {"call", "jmp"}
              => addr_msbyte(i, w) = Field(w, 1, 2) + 2 * Field(w, 16, 32)
<1>1. i \in RdPlain => rd(i, w) = Field(w, 16, 32)
  BY DEF rd, RdPlain, TwoRegisters, DirectLoads, UpperImm, Multiplies816,
     WordImm
<1>2. i \in UpperImm \cup {"muls"} => rd(i, w) = 16 + Field(w, 16, 16)
  BY DEF rd, RdPlain, TwoRegisters, DirectLoads, UpperImm, Multiplies816,
     WordImm
<1>3. i \in Multiplies816 => rd(i, w) = 16 + Field(w, 16, 8)
  BY DEF rd, RdPlain, TwoRegisters, DirectLoads, UpperImm, Multiplies816,
     WordImm
<1>4. i \in WordImm => rd(i, w) = 12 + Field(w, 16, 4)
  BY DEF rd, RdPlain, TwoRegisters, DirectLoads, UpperImm, Multiplies816,
     WordImm
<1>5. i = "movw" => rd(i, w) = Field(w, 16, 16) /\ rr(i, w) = Field(w, 1, 16)
  BY DEF rd, RdPlain, TwoRegisters, DirectLoads, UpperImm, Multiplies816,
     WordImm, rr, RrPlain, DirectStores
<1>6. i \in TwoRegisters => rr(i, w) = Field(w, 1, 16) + 16 * Field(w, 512, 2)
  BY DEF rr, RrPlain, TwoRegisters, DirectStores, Multiplies816
<1>7. i \in RrPlain => rr(i, w) = Field(w, 16, 32)
  BY DEF rr, RrPlain, TwoRegisters, DirectStores, Multiplies816
<1>8. i = "muls" => rr(i, w) = 16 + Field(w, 1, 16)
  BY DEF rr, RrPlain, TwoRegisters, DirectStores, Multiplies816
<1>9. i \in Multiplies816 => rr(i, w) = 16 + Field(w, 1, 8)
  BY DEF rr, RrPlain, TwoRegisters, DirectStores, Multiplies816
<1>10. i \in UpperImm => imm(i, w) = Field(w, 1, 16) + 16 * Field(w, 256, 16)
  BY DEF imm, UpperImm, WordImm
<1>11. i \in WordImm => imm(i, w) = Field(w, 1, 16) + 16 * Field(w, 64, 4)
  BY DEF imm, UpperImm, WordImm
<1>12. i \in PortBits \cup {"sbrc", "sbrs", "bld", "bst", "brbc", "brbs"}
      => bit(i, w) = Field(w, 1, 8)
  BY DEF bit, PortBits
<1>13. i \in {"in", "out"} => port(i, w) = Field(w, 1, 16) + 16 * Field(w, 512, 4)
  BY DEF port, PortBits
<1>14. i \in PortBits => port(i, w) = Field(w, 8, 32)
  BY DEF port, PortBits
<1>15. i \in Displaced
      => ptr_displacement(i, w)
           = Field(w, 1, 8) + 8 * Field(w, 1024, 4) + 32 * Field(w, 8192, 2)
  BY DEF ptr_displacement
<1>16. i \in {"brbc", "brbs"} => pc_offset(i, w) = Signed(Field(w, 8, 128), 64)
  BY DEF pc_offset
<1>17. i \in {"rcall", "rjmp"} => pc_offset(i, w) = Signed(Field(w, 1, 4096), 2048)
  BY DEF pc_offset
<1>18. i \in {"call", "jmp"}
      => addr_msbyte(i, w) = Field(w, 1, 2) + 2 * Field(w, 16, 32)
  BY DEF addr_msbyte
<1> QED
  BY <1>1, <1>2, <1>3, <1>4, <1>5, <1>6, <1>7, <1>8, <1>9, <1>10, <1>11,
     <1>12, <1>13, <1>14, <1>15, <1>16, <1>17, <1>18

(* Put in their places, the numbers of a line are the fields of the word.  *)
Restored(i, w, x) ==
  /\ i \in NoOperands => x = 0
  /\ i \in OneOperand => x = 16 * Field(w, 16, 32)
  /\ i \in TwoRegisters \cup {"brbc", "brbs"} => x = Field(w, 1, 1024)
  /\ i \in UpperImm \cup {"rcall", "rjmp"} => x = Field(w, 1, 4096)
  /\ i \in {"sbrc", "sbrs", "bld", "bst"} => x = Field(w, 1, 8) + 16 * Field(w, 16, 32)
  /\ i \in {"in", "out"} => x = Field(w, 1, 2048)
  /\ i \in WordImm \cup PortBits \cup {"movw", "muls"} => x = Field(w, 1, 256)
  /\ i \in Multiplies816 => x = Field(w, 1, 8) + 16 * Field(w, 16, 8)
  /\ i \in Displaced => x = Field(w, 1, 8) + 16 * Field(w, 16, 32)
                              + 1024 * Field(w, 1024, 4) + 8192 * Field(w, 8192, 2)

LEMMA PlacesBack ==
  ASSUME NEW i, NEW w \in Nat, NEW b \in Nat, NEW l,
         l.numbers = Numbers(i, w, b), l.addr = b
  PROVE  Restored(i, w, Placed(i, l))
<1>1. i \in NoOperands => Placed(i, l) = 0
  BY PlacedIs
<1>2. ASSUME i \in OneRegister \cup PointerLoads
      PROVE  Placed(i, l) = 16 * Field(w, 16, 32)
  <2>1. l.numbers[1] = rd(i, w)
    BY <1>2, NumbersAre
  <2>2. rd(i, w) = Field(w, 16, 32)
    BY <1>2, OperandsAre DEF RdPlain, DirectLoads, PointerLoads, OneRegister
  <2>3. Placed(i, l) = AtD(rd(i, w))
    BY <1>2, <2>1, PlacedIs DEF OneOperand
  <2>4. Field(w, 16, 32) \in 0 .. 31
    BY DEF Field
  <2>5. AtD(Field(w, 16, 32)) = 16 * Field(w, 16, 32)
    BY <2>4, Undone
  <2> QED
    BY <2>2, <2>3, <2>4, <2>5
<1>3. ASSUME i \in PointerStores \cup {"push"}
      PROVE  Placed(i, l) = 16 * Field(w, 16, 32)
  <2>1. l.numbers[1] = rr(i, w)
    BY <1>3, NumbersAre
  <2>2. rr(i, w) = Field(w, 16, 32)
    BY <1>3, OperandsAre DEF RrPlain, DirectStores, PointerStores
  <2>3. Placed(i, l) = AtD(rr(i, w))
    BY <1>3, <2>1, PlacedIs DEF OneOperand
  <2>4. Field(w, 16, 32) \in 0 .. 31
    BY DEF Field
  <2>5. AtD(Field(w, 16, 32)) = 16 * Field(w, 16, 32)
    BY <2>4, Undone
  <2> QED
    BY <2>2, <2>3, <2>4, <2>5
<1>4. ASSUME i \in TwoRegisters
      PROVE  Placed(i, l) = Field(w, 1, 1024)
  <2>1. l.numbers[1] = rd(i, w) /\ l.numbers[2] = rr(i, w)
    BY <1>4, NumbersAre
  <2>2. /\ rd(i, w) = Field(w, 16, 32)
        /\ rr(i, w) = Field(w, 1, 16) + 16 * Field(w, 512, 2)
    BY <1>4, OperandsAre DEF RdPlain
  <2>3. Placed(i, l) = AtD(rd(i, w)) + AtR(rr(i, w))
    BY <1>4, <2>1, PlacedIs
  <2>4. /\ Field(w, 16, 32) \in 0 .. 31 /\ Field(w, 1, 16) \in 0 .. 15
        /\ Field(w, 512, 2) \in 0 .. 1
    BY DEF Field
  <2>5. /\ AtD(Field(w, 16, 32)) = 16 * Field(w, 16, 32)
        /\ AtR(Field(w, 1, 16) + 16 * Field(w, 512, 2))
          = Field(w, 1, 16) + 512 * Field(w, 512, 2)
    BY <2>4, Undone
  <2>6. Field(w, 1, 1024)
        = Field(w, 1, 16) + 16 * Field(w, 16, 32) + 512 * Field(w, 512, 2)
    BY Joined
  <2> QED
    BY <2>2, <2>3, <2>4, <2>5, <2>6
<1>5. ASSUME i \in UpperImm
      PROVE  Placed(i, l) = Field(w, 1, 4096)
  <2>1. l.numbers[1] = rd(i, w) /\ l.numbers[2] = imm(i, w)
    BY <1>5, NumbersAre
  <2>2. /\ rd(i, w) = 16 + Field(w, 16, 16)
        /\ imm(i, w) = Field(w, 1, 16) + 16 * Field(w, 256, 16)
    BY <1>5, OperandsAre
  <2>3. Placed(i, l) = AtUpperD(rd(i, w), 16) + AtK(imm(i, w), 256)
    BY <1>5, <2>1, PlacedIs
  <2>4. /\ Field(w, 16, 16) \in 0 .. 15 /\ Field(w, 1, 16) \in 0 .. 15
        /\ Field(w, 256, 16) \in 0 .. 15
    BY DEF Field
  <2>5. /\ AtUpperD(16 + Field(w, 16, 16), 16) = 16 * Field(w, 16, 16)
        /\ AtK(Field(w, 1, 16) + 16 * Field(w, 256, 16), 256)
          = Field(w, 1, 16) + 256 * Field(w, 256, 16)
    BY <2>4, Undone
  <2>6. Field(w, 1, 4096)
        = Field(w, 1, 16) + 16 * Field(w, 16, 16) + 256 * Field(w, 256, 16)
    BY Joined
  <2> QED
    BY <2>2, <2>3, <2>4, <2>5, <2>6
<1>6. ASSUME i \in {"sbrc", "sbrs"}
      PROVE  Placed(i, l) = Field(w, 1, 8) + 16 * Field(w, 16, 32)
  <2>1. l.numbers[1] = rr(i, w) /\ l.numbers[2] = bit(i, w)
    BY <1>6, NumbersAre
  <2>2. /\ rr(i, w) = Field(w, 16, 32)
        /\ bit(i, w) = Field(w, 1, 8)
    BY <1>6, OperandsAre DEF RrPlain
  <2>3. Placed(i, l) = AtD(rr(i, w)) + bit(i, w)
    BY <1>6, <2>1, PlacedIs
  <2>4. Field(w, 16, 32) \in 0 .. 31 /\ Field(w, 1, 8) \in 0 .. 7
    BY DEF Field
  <2>5. AtD(Field(w, 16, 32)) = 16 * Field(w, 16, 32)
    BY <2>4, Undone
  <2> QED
    BY <2>2, <2>3, <2>4, <2>5
<1>7. ASSUME i \in {"bld", "bst"}
      PROVE  Placed(i, l) = Field(w, 1, 8) + 16 * Field(w, 16, 32)
  <2>1. l.numbers[1] = rd(i, w) /\ l.numbers[2] = bit(i, w)
    BY <1>7, NumbersAre
  <2>2. /\ rd(i, w) = Field(w, 16, 32)
        /\ bit(i, w) = Field(w, 1, 8)
    BY <1>7, OperandsAre DEF RdPlain
  <2>3. Placed(i, l) = AtD(rd(i, w)) + bit(i, w)
    BY <1>7, <2>1, PlacedIs
  <2>4. Field(w, 16, 32) \in 0 .. 31 /\ Field(w, 1, 8) \in 0 .. 7
    BY DEF Field
  <2>5. AtD(Field(w, 16, 32)) = 16 * Field(w, 16, 32)
    BY <2>4, Undone
  <2> QED
    BY <2>2, <2>3, <2>4, <2>5
<1>8. ASSUME i = "in"
      PROVE  Placed(i, l) = Field(w, 1, 2048)
  <2>1. l.numbers[1] = rd(i, w) /\ l.numbers[2] = port(i, w)
    BY <1>8, NumbersAre
  <2>2. /\ rd(i, w) = Field(w, 16, 32)
        /\ port(i, w) = Field(w, 1, 16) + 16 * Field(w, 512, 4)
    BY <1>8, OperandsAre DEF RdPlain
  <2>3. Placed(i, l) = AtD(rd(i, w)) + AtP(port(i, w))
    BY <1>8, <2>1, PlacedIs
  <2>4. /\ Field(w, 16, 32) \in 0 .. 31 /\ Field(w, 1, 16) \in 0 .. 15
        /\ Field(w, 512, 4) \in 0 .. 3
    BY DEF Field
  <2>5. /\ AtD(Field(w, 16, 32)) = 16 * Field(w, 16, 32)
        /\ AtP(Field(w, 1, 16) + 16 * Field(w, 512, 4))
          = Field(w, 1, 16) + 512 * Field(w, 512, 4)
    BY <2>4, Undone
  <2>6. Field(w, 1, 2048)
        = Field(w, 1, 16) + 16 * Field(w, 16, 32) + 512 * Field(w, 512, 4)
    BY Joined
  <2> QED
    BY <2>2, <2>3, <2>4, <2>5, <2>6
<1>9. ASSUME i = "out"
      PROVE  Placed(i, l) = Field(w, 1, 2048)
  <2>1. l.numbers[1] = port(i, w) /\ l.numbers[2] = rr(i, w)
    BY <1>9, NumbersAre
  <2>2. /\ rr(i, w) = Field(w, 16, 32)
        /\ port(i, w) = Field(w, 1, 16) + 16 * Field(w, 512, 4)
    BY <1>9, OperandsAre DEF RrPlain
  <2>3. Placed(i, l) = AtD(rr(i, w)) + AtP(port(i, w))
    BY <1>9, <2>1, PlacedIs
  <2>4. /\ Field(w, 16, 32) \in 0 .. 31 /\ Field(w, 1, 16) \in 0 .. 15
        /\ Field(w, 512, 4) \in 0 .. 3
    BY DEF Field
  <2>5. /\ AtD(Field(w, 16, 32)) = 16 * Field(w, 16, 32)
        /\ AtP(Field(w, 1, 16) + 16 * Field(w, 512, 4))
          = Field(w, 1, 16) + 512 * Field(w, 512, 4)
    BY <2>4, Undone
  <2>6. Field(w, 1, 2048)
        = Field(w, 1, 16) + 16 * Field(w, 16, 32) + 512 * Field(w, 512, 4)
    BY Joined
  <2> QED
    BY <2>2, <2>3, <2>4, <2>5, <2>6
<1>10. ASSUME i \in WordImm
      PROVE  Placed(i, l) = Field(w, 1, 256)
  <2>1. l.numbers[1] = PairRegister(rd(i, w)) /\ l.numbers[2] = imm(i, w)
    BY <1>10, NumbersAre
  <2>2. /\ rd(i, w) = 12 + Field(w, 16, 4)
        /\ imm(i, w) = Field(w, 1, 16) + 16 * Field(w, 64, 4)
    BY <1>10, OperandsAre
  <2>3. Placed(i, l) = 8 * (PairRegister(rd(i, w)) - 24) + AtK(imm(i, w), 64)
    BY <1>10, <2>1, PlacedIs
  <2>4. /\ Field(w, 16, 4) \in 0 .. 3 /\ Field(w, 1, 16) \in 0 .. 15
        /\ Field(w, 64, 4) \in 0 .. 3
    BY DEF Field
  <2>5. AtK(Field(w, 1, 16) + 16 * Field(w, 64, 4), 64)
          = Field(w, 1, 16) + 64 * Field(w, 64, 4)
    BY <2>4, Undone
  <2>6. Field(w, 1, 256)
        = Field(w, 1, 16) + 16 * Field(w, 16, 4) + 64 * Field(w, 64, 4)
    BY Joined
  <2> QED
    BY <2>2, <2>3, <2>4, <2>5, <2>6 DEF PairRegister
<1>11. ASSUME i \in PortBits
      PROVE  Placed(i, l) = Field(w, 1, 256)
  <2>1. /\ l.numbers[1] = port(i, w)
        /\ l.numbers[2] = bit(i, w)
    BY <1>11, NumbersAre
  <2>2. port(i, w) = Field(w, 8, 32) /\ bit(i, w) = Field(w, 1, 8)
    BY <1>11, OperandsAre
  <2>3. Placed(i, l) = 8 * port(i, w) + bit(i, w)
    BY <1>11, <2>1, PlacedIs
  <2>4. Field(w, 8, 32) \in 0 .. 31 /\ Field(w, 1, 8) \in 0 .. 7
    BY DEF Field
  <2>6. Field(w, 1, 256) = Field(w, 1, 8) + 8 * Field(w, 8, 32)
    BY Joined
  <2> QED
    BY <2>2, <2>3, <2>4, <2>6
<1>12. ASSUME i = "movw"
      PROVE  Placed(i, l) = Field(w, 1, 256)
  <2>1. /\ l.numbers[1] = PairRegister(rd(i, w))
        /\ l.numbers[2] = PairRegister(rr(i, w))
    BY <1>12, NumbersAre
  <2>2. rd(i, w) = Field(w, 16, 16) /\ rr(i, w) = Field(w, 1, 16)
    BY <1>12, OperandsAre
  <2>3. Placed(i, l) = 8 * PairRegister(rd(i, w)) + PairRegister(rr(i, w)) \div 2
    BY <1>12, <2>1, PlacedIs
  <2>4. Field(w, 16, 16) \in 0 .. 15 /\ Field(w, 1, 16) \in 0 .. 15
    BY DEF Field
  <2>5. PairRegister(Field(w, 1, 16)) \div 2 = Field(w, 1, 16)
    BY <2>4 DEF PairRegister
  <2>6. Field(w, 1, 256) = Field(w, 1, 16) + 16 * Field(w, 16, 16)
    BY Joined
  <2> QED
    BY <2>2, <2>3, <2>4, <2>5, <2>6 DEF PairRegister
<1>13. ASSUME i = "muls"
      PROVE  Placed(i, l) = Field(w, 1, 256)
  <2>1. /\ l.numbers[1] = rd(i, w)
        /\ l.numbers[2] = rr(i, w)
    BY <1>13, NumbersAre
  <2>2. rd(i, w) = 16 + Field(w, 16, 16) /\ rr(i, w) = 16 + Field(w, 1, 16)
    BY <1>13, OperandsAre
  <2>3. Placed(i, l) = AtUpperD(rd(i, w), 16) + (rr(i, w) % 16)
    BY <1>13, <2>1, PlacedIs
  <2>4. Field(w, 16, 16) \in 0 .. 15 /\ Field(w, 1, 16) \in 0 .. 15
    BY DEF Field
  <2>5. /\ AtUpperD(16 + Field(w, 16, 16), 16) = 16 * Field(w, 16, 16)
        /\ (16 + Field(w, 1, 16)) % 16 = Field(w, 1, 16)
    BY <2>4, Undone
  <2>6. Field(w, 1, 256) = Field(w, 1, 16) + 16 * Field(w, 16, 16)
    BY Joined
  <2> QED
    BY <2>2, <2>3, <2>4, <2>5, <2>6
<1>14. ASSUME i \in Multiplies816
      PROVE  Placed(i, l) = Field(w, 1, 8) + 16 * Field(w, 16, 8)
  <2>1. l.numbers[1] = rd(i, w) /\ l.numbers[2] = rr(i, w)
    BY <1>14, NumbersAre
  <2>2. /\ rd(i, w) = 16 + Field(w, 16, 8)
        /\ rr(i, w) = 16 + Field(w, 1, 8)
    BY <1>14, OperandsAre
  <2>3. Placed(i, l) = AtUpperD(rd(i, w), 8) + (rr(i, w) % 8)
    BY <1>14, <2>1, PlacedIs
  <2>4. Field(w, 16, 8) \in 0 .. 7 /\ Field(w, 1, 8) \in 0 .. 7
    BY DEF Field
  <2>5. /\ AtUpperD(16 + Field(w, 16, 8), 8) = 16 * Field(w, 16, 8)
        /\ (16 + Field(w, 1, 8)) % 8 = Field(w, 1, 8)
    BY <2>4, Undone
  <2> QED
    BY <2>2, <2>3, <2>4, <2>5
<1>15. ASSUME i \in {"brbc", "brbs"}
      PROVE  Placed(i, l) = Field(w, 1, 1024)
  <2> DEFINE f == Field(w, 8, 128)
             o == pc_offset(i, w)
  <2>1. l.numbers[2] = b + Offset(i, w) + 2 /\ l.numbers[3] = bit(i, w)
    <3>1. l.numbers[2] = b + Offset(i, w) + 2
      BY <1>15, NumbersAre
    <3>2. l.numbers[3] = bit(i, w)
      BY <1>15, NumbersAre
    <3> QED
      BY <3>1, <3>2
  <2>2. f \in 0 .. 127
    BY DEF Field
  <2>3. o = Signed(f, 64) /\ bit(i, w) = Field(w, 1, 8)
    BY <1>15, OperandsAre
  <2>4. Placed(i, l) = 8 * AtOffset(l, 128) + bit(i, w)
    BY <1>15, <2>1, PlacedIs
  <2>5. l.numbers[2] = b + 2 * o + 2
    BY <2>1 DEF Offset
  <2> HIDE DEF f, o
  <2>6. o \in Int /\ o % 128 = f
    BY <2>2, <2>3 DEF Signed
  <2>7. AtOffset(l, 128) = f
    <3>1. l.numbers[2] - l.addr - 2 = 2 * o
      BY <2>5, <2>6
    <3>2. (2 * o) \div 2 = o
      BY <2>6
    <3> QED
      BY <2>6, <3>1, <3>2 DEF AtOffset
  <2>8. Field(w, 1, 1024) = Field(w, 1, 8) + 8 * f
    BY Joined DEF f
  <2>9. Field(w, 1, 8) \in 0 .. 7
    BY DEF Field
  <2> QED
    BY <2>2, <2>3, <2>4, <2>7, <2>8, <2>9
<1>16. ASSUME i \in {"rcall", "rjmp"}
      PROVE  Placed(i, l) = Field(w, 1, 4096)
  <2> DEFINE f == Field(w, 1, 4096)
             o == pc_offset(i, w)
  <2>1. l.numbers[2] = b + Offset(i, w) + 2
    BY <1>16, NumbersAre
  <2>2. f \in 0 .. 4095
    BY DEF Field
  <2>3. o = Signed(f, 2048)
    BY <1>16 DEF pc_offset
  <2>4. Placed(i, l) = AtOffset(l, 4096)
    BY <1>16, PlacedIs
  <2>5. l.numbers[2] = b + 2 * o + 2
    BY <2>1 DEF Offset
  <2> HIDE DEF f, o
  <2>6. o \in Int /\ o % 4096 = f
    BY <2>2, <2>3 DEF Signed
  <2>7. AtOffset(l, 4096) = f
    <3>1. l.numbers[2] - l.addr - 2 = 2 * o
      BY <2>5, <2>6
    <3>2. (2 * o) \div 2 = o
      BY <2>6
    <3> QED
      BY <2>6, <3>1, <3>2 DEF AtOffset
  <2> QED
    BY <2>4, <2>7 DEF f
<1>17. ASSUME i \in Displaced
      PROVE  Placed(i, l) = Field(w, 1, 8) + 16 * Field(w, 16, 32)
                              + 1024 * Field(w, 1024, 4) + 8192 * Field(w, 8192, 2)
  <2> DEFINE q == ptr_displacement(i, w)
             x == Field(w, 1, 8)
             y == Field(w, 1024, 4)
             z == Field(w, 8192, 2)
             n == l.numbers
             r == Field(w, 16, 32)
  <2>1. q = x + 8 * y + 32 * z
    BY <1>17, OperandsAre
  <2>2. x \in 0 .. 7 /\ y \in 0 .. 3 /\ z \in 0 .. 1 /\ r \in 0 .. 31
    BY DEF Field
  <2>3. i \in {"ldd_y", "ldd_z"} \/ i \in {"std_y", "std_z"}
    BY <1>17 DEF Displaced
  <2>4. AtQ(q) = x + 1024 * y + 8192 * z /\ AtD(r) = 16 * r
    BY <2>1, <2>2, Undone
  <2>5. (q = 0 => Len(n) = 1) /\ (q # 0 => Len(n) = 2)
    BY <1>17, DisplacedNumbers
  <2>6. Placed(i, l) = AtD(r) + IF q = 0 THEN 0 ELSE AtQ(q)
    <3>1. CASE i \in {"ldd_y", "ldd_z"}
      <4>1. rd(i, w) = r
        BY <3>1, OperandsAre DEF RdPlain
      <4>2. n[1] = r /\ (q # 0 => n[2] = q)
        BY <1>17, <3>1, <4>1, DisplacedNumbers
      <4>3. Placed(i, l) = AtD(n[1]) + IF Len(n) = 2 THEN AtQ(n[2]) ELSE 0
        BY <3>1, PlacedIs
      <4> HIDE DEF r, n, q
      <4> QED
        BY <2>5, <4>2, <4>3
    <3>2. CASE i \in {"std_y", "std_z"}
      <4>1. rr(i, w) = r
        BY <3>2, OperandsAre DEF RrPlain
      <4>2. n[Len(n)] = r /\ (q # 0 => n[1] = q)
        BY <1>17, <3>2, <4>1, DisplacedNumbers
      <4>3. Placed(i, l) = AtD(n[Len(n)]) + IF Len(n) = 2 THEN AtQ(n[1]) ELSE 0
        BY <3>2, PlacedIs
      <4> HIDE DEF r, n, q
      <4> QED
        BY <2>5, <4>2, <4>3
    <3> QED
      BY <2>3, <3>1, <3>2
  <2> HIDE DEF q, x, y, z, r
  <2>7. q = 0 => x = 0 /\ y = 0 /\ z = 0
    BY <2>1, <2>2
  <2>8. Placed(i, l) = x + 16 * r + 1024 * y + 8192 * z
    BY <2>2, <2>4, <2>6, <2>7
  <2> QED
    BY <2>8 DEF x, y, z, r
<1> QED
  BY <1>1, <1>2, <1>3, <1>4, <1>5, <1>6, <1>7, <1>8, <1>9, <1>10, <1>11,
     <1>12, <1>13, <1>14, <1>15, <1>16, <1>17 DEF OneOperand, Restored

-----------------------------------------------------------------------------
(* The instruction a line names.                                           *)

(* The instruction that is written in a form of its own.                   *)
FormOf(m, p) ==
  IF m = "lpm" THEN IF p = "" THEN "lpm_r0" ELSE
                       IF p = "Z+" THEN "lpm_inc" ELSE "lpm" ELSE
  IF m = ".word" THEN "undefined" ELSE
  IF m = "ldd" THEN IF p = "Y+q" THEN "ldd_y" ELSE "ldd_z" ELSE
  IF m = "std" THEN IF p = "Y+q" THEN "std_y" ELSE "std_z" ELSE
  IF m = "ld"
  THEN IF p = "X" THEN "ld_x" ELSE IF p = "X+" THEN "ld_x_inc" ELSE
       IF p = "-X" THEN "ld_x_dec" ELSE IF p = "Y+" THEN "ld_y_inc" ELSE
       IF p = "-Y" THEN "ld_y_dec" ELSE IF p = "Z+" THEN "ld_z_inc" ELSE
       IF p = "-Z" THEN "ld_z_dec" ELSE IF p = "Y" THEN "ldd_y" ELSE "ldd_z"
  ELSE IF p = "X" THEN "st_x" ELSE IF p = "X+" THEN "st_x_inc" ELSE
       IF p = "-X" THEN "st_x_dec" ELSE IF p = "Y+" THEN "st_y_inc" ELSE
       IF p = "-Y" THEN "st_y_dec" ELSE IF p = "Z+" THEN "st_z_inc" ELSE
       IF p = "-Z" THEN "st_z_dec" ELSE IF p = "Y" THEN "std_y" ELSE "std_z"

(* A form is a pair that tells its instruction.                            *)
Tells(f, i) == << f[1], f[2] >> = f /\ FormOf(f[1], f[2]) = i

LEMMA TellsIf == ASSUME NEW f, NEW x, NEW y, f = << x, y >> PROVE Tells(f, FormOf(x, y))
<1>1. f[1] = x /\ f[2] = y
  BY Components
<1> QED
  BY <1>1 DEF Tells

LEMMA FormOfForms == \A i \in DOMAIN Forms : Tells(Forms[i], i)
<1>1. Tells(Forms["ld_x"], "ld_x")
  <2>1. Forms["ld_x"] = << "ld", "X" >>
    BY FormsAre
  <2>2. FormOf("ld", "X") = "ld_x"
    BY DEF FormOf
  <2> QED
    BY <2>1, <2>2, TellsIf
<1>2. Tells(Forms["ld_x_inc"], "ld_x_inc")
  <2>1. Forms["ld_x_inc"] = << "ld", "X+" >>
    BY FormsAre
  <2>2. FormOf("ld", "X+") = "ld_x_inc"
    BY DEF FormOf
  <2> QED
    BY <2>1, <2>2, TellsIf
<1>3. Tells(Forms["ld_x_dec"], "ld_x_dec")
  <2>1. Forms["ld_x_dec"] = << "ld", "-X" >>
    BY FormsAre
  <2>2. FormOf("ld", "-X") = "ld_x_dec"
    BY DEF FormOf
  <2> QED
    BY <2>1, <2>2, TellsIf
<1>4. Tells(Forms["ld_y_inc"], "ld_y_inc")
  <2>1. Forms["ld_y_inc"] = << "ld", "Y+" >>
    BY FormsAre
  <2>2. FormOf("ld", "Y+") = "ld_y_inc"
    BY DEF FormOf
  <2> QED
    BY <2>1, <2>2, TellsIf
<1>5. Tells(Forms["ld_y_dec"], "ld_y_dec")
  <2>1. Forms["ld_y_dec"] = << "ld", "-Y" >>
    BY FormsAre
  <2>2. FormOf("ld", "-Y") = "ld_y_dec"
    BY DEF FormOf
  <2> QED
    BY <2>1, <2>2, TellsIf
<1>6. Tells(Forms["ld_z_inc"], "ld_z_inc")
  <2>1. Forms["ld_z_inc"] = << "ld", "Z+" >>
    BY FormsAre
  <2>2. FormOf("ld", "Z+") = "ld_z_inc"
    BY DEF FormOf
  <2> QED
    BY <2>1, <2>2, TellsIf
<1>7. Tells(Forms["ld_z_dec"], "ld_z_dec")
  <2>1. Forms["ld_z_dec"] = << "ld", "-Z" >>
    BY FormsAre
  <2>2. FormOf("ld", "-Z") = "ld_z_dec"
    BY DEF FormOf
  <2> QED
    BY <2>1, <2>2, TellsIf
<1>8. Tells(Forms["st_x"], "st_x")
  <2>1. Forms["st_x"] = << "st", "X" >>
    BY FormsAre
  <2>2. FormOf("st", "X") = "st_x"
    BY DEF FormOf
  <2> QED
    BY <2>1, <2>2, TellsIf
<1>9. Tells(Forms["st_x_inc"], "st_x_inc")
  <2>1. Forms["st_x_inc"] = << "st", "X+" >>
    BY FormsAre
  <2>2. FormOf("st", "X+") = "st_x_inc"
    BY DEF FormOf
  <2> QED
    BY <2>1, <2>2, TellsIf
<1>10. Tells(Forms["st_x_dec"], "st_x_dec")
  <2>1. Forms["st_x_dec"] = << "st", "-X" >>
    BY FormsAre
  <2>2. FormOf("st", "-X") = "st_x_dec"
    BY DEF FormOf
  <2> QED
    BY <2>1, <2>2, TellsIf
<1>11. Tells(Forms["st_y_inc"], "st_y_inc")
  <2>1. Forms["st_y_inc"] = << "st", "Y+" >>
    BY FormsAre
  <2>2. FormOf("st", "Y+") = "st_y_inc"
    BY DEF FormOf
  <2> QED
    BY <2>1, <2>2, TellsIf
<1>12. Tells(Forms["st_y_dec"], "st_y_dec")
  <2>1. Forms["st_y_dec"] = << "st", "-Y" >>
    BY FormsAre
  <2>2. FormOf("st", "-Y") = "st_y_dec"
    BY DEF FormOf
  <2> QED
    BY <2>1, <2>2, TellsIf
<1>13. Tells(Forms["st_z_inc"], "st_z_inc")
  <2>1. Forms["st_z_inc"] = << "st", "Z+" >>
    BY FormsAre
  <2>2. FormOf("st", "Z+") = "st_z_inc"
    BY DEF FormOf
  <2> QED
    BY <2>1, <2>2, TellsIf
<1>14. Tells(Forms["st_z_dec"], "st_z_dec")
  <2>1. Forms["st_z_dec"] = << "st", "-Z" >>
    BY FormsAre
  <2>2. FormOf("st", "-Z") = "st_z_dec"
    BY DEF FormOf
  <2> QED
    BY <2>1, <2>2, TellsIf
<1>15. Tells(Forms["lpm_r0"], "lpm_r0")
  <2>1. Forms["lpm_r0"] = << "lpm", "" >>
    BY FormsAre
  <2>2. FormOf("lpm", "") = "lpm_r0"
    BY DEF FormOf
  <2> QED
    BY <2>1, <2>2, TellsIf
<1>16. Tells(Forms["lpm_inc"], "lpm_inc")
  <2>1. Forms["lpm_inc"] = << "lpm", "Z+" >>
    BY FormsAre
  <2>2. FormOf("lpm", "Z+") = "lpm_inc"
    BY DEF FormOf
  <2> QED
    BY <2>1, <2>2, TellsIf
<1>17. Tells(Forms["lpm"], "lpm")
  <2>1. Forms["lpm"] = << "lpm", "Z" >>
    BY FormsAre
  <2>2. FormOf("lpm", "Z") = "lpm"
    BY DEF FormOf
  <2> QED
    BY <2>1, <2>2, TellsIf
<1>18. Tells(Forms["undefined"], "undefined")
  <2>1. Forms["undefined"] = << ".word", "" >>
    BY FormsAre
  <2>2. FormOf(".word", "") = "undefined"
    BY DEF FormOf
  <2> QED
    BY <2>1, <2>2, TellsIf
<1> QED
  BY <1>1, <1>2, <1>3, <1>4, <1>5, <1>6, <1>7, <1>8, <1>9, <1>10, <1>11,
     <1>12, <1>13, <1>14, <1>15, <1>16, <1>17, <1>18, FormsAre

LEMMA FormOfDisplaced ==
  \A i \in Displaced : Tells(NearForms[i], i) /\ Tells(FarForms[i], i)
<1>1. Tells(NearForms["ldd_y"], "ldd_y")
  <2>1. NearForms["ldd_y"] = << "ld", "Y" >>
    BY DisplacedForms
  <2>2. FormOf("ld", "Y") = "ldd_y"
    BY DEF FormOf
  <2> QED
    BY <2>1, <2>2, TellsIf
<1>2. Tells(NearForms["ldd_z"], "ldd_z")
  <2>1. NearForms["ldd_z"] = << "ld", "Z" >>
    BY DisplacedForms
  <2>2. FormOf("ld", "Z") = "ldd_z"
    BY DEF FormOf
  <2> QED
    BY <2>1, <2>2, TellsIf
<1>3. Tells(NearForms["std_y"], "std_y")
  <2>1. NearForms["std_y"] = << "st", "Y" >>
    BY DisplacedForms
  <2>2. FormOf("st", "Y") = "std_y"
    BY DEF FormOf
  <2> QED
    BY <2>1, <2>2, TellsIf
<1>4. Tells(NearForms["std_z"], "std_z")
  <2>1. NearForms["std_z"] = << "st", "Z" >>
    BY DisplacedForms
  <2>2. FormOf("st", "Z") = "std_z"
    BY DEF FormOf
  <2> QED
    BY <2>1, <2>2, TellsIf
<1>5. Tells(FarForms["ldd_y"], "ldd_y")
  <2>1. FarForms["ldd_y"] = << "ldd", "Y+q" >>
    BY DisplacedForms
  <2>2. FormOf("ldd", "Y+q") = "ldd_y"
    BY DEF FormOf
  <2> QED
    BY <2>1, <2>2, TellsIf
<1>6. Tells(FarForms["ldd_z"], "ldd_z")
  <2>1. FarForms["ldd_z"] = << "ldd", "Z+q" >>
    BY DisplacedForms
  <2>2. FormOf("ldd", "Z+q") = "ldd_z"
    BY DEF FormOf
  <2> QED
    BY <2>1, <2>2, TellsIf
<1>7. Tells(FarForms["std_y"], "std_y")
  <2>1. FarForms["std_y"] = << "std", "Y+q" >>
    BY DisplacedForms
  <2>2. FormOf("std", "Y+q") = "std_y"
    BY DEF FormOf
  <2> QED
    BY <2>1, <2>2, TellsIf
<1>8. Tells(FarForms["std_z"], "std_z")
  <2>1. FarForms["std_z"] = << "std", "Z+q" >>
    BY DisplacedForms
  <2>2. FormOf("std", "Z+q") = "std_z"
    BY DEF FormOf
  <2> QED
    BY <2>1, <2>2, TellsIf
<1> QED
  BY <1>1, <1>2, <1>3, <1>4, <1>5, <1>6, <1>7, <1>8 DEF Displaced

(* The guards and the choices of Instruction.                              *)
LEMMA InstructionIs ==
  ASSUME NEW m, NEW p
  PROVE  /\ \A i \in DOMAIN Forms : Forms[i] = << m, p >> => Instruction(m, p) = i
         /\ \A i \in Displaced : << m, p >> \in {NearForms[i], FarForms[i]}
                                   => Instruction(m, p) = i
         /\ m \notin {"ld", "st", "lpm", ".word", "ldd", "std"} => Instruction(m, p) = m
<1> DEFINE f == << m, p >>
           own == \E i \in DOMAIN Forms : Forms[i] = f
           far == \E i \in Displaced : f \in {NearForms[i], FarForms[i]}
           c == CHOOSE i \in DOMAIN Forms : Forms[i] = f
           d == CHOOSE i \in Displaced : f \in {NearForms[i], FarForms[i]}
<1>1. Instruction(m, p) = CASE own -> c [] far -> d [] OTHER -> m
  BY DEF Instruction
<1>2. \A i \in Displaced : i \notin DOMAIN Forms
  BY FormsAre DEF Displaced
<1>3. f[1] = m
  OBVIOUS
<1>4. own => c \in DOMAIN Forms /\ Forms[c] = f
  OBVIOUS
<1>5. far => d \in Displaced /\ f \in {NearForms[d], FarForms[d]}
  OBVIOUS
<1> HIDE DEF c, d, f
<1> DEFINE j == FormOf(f[1], f[2])
<1>6. own => c = j /\ c \in DOMAIN Forms
  BY <1>4, FormOfForms DEF Tells
<1>7. far => d = j /\ d \in Displaced
  BY <1>5, FormOfDisplaced DEF Tells
<1>8. ~ (own /\ far)
  BY <1>2, <1>6, <1>7
<1>9. own => m \in {"ld", "st", "lpm", ".word"}
  BY <1>3, <1>4, FormMnemonics
<1>10. far => m \in {"ld", "st", "ldd", "std"}
  <2>1. \A i \in Displaced : /\ NearForms[i][1] \in {"ld", "st"}
                             /\ FarForms[i][1] \in {"ldd", "std"}
    BY DisplacedForms DEF Displaced
  <2> QED
    BY <1>3, <1>5, <2>1
<1>11. ASSUME NEW i \in DOMAIN Forms, Forms[i] = f PROVE own /\ i = j
  BY <1>11, FormOfForms DEF Tells
<1>12. ASSUME NEW i \in Displaced, f \in {NearForms[i], FarForms[i]}
       PROVE  far /\ i = j
  BY <1>12, FormOfDisplaced DEF Tells
<1> HIDE DEF own, far, j
<1>13. /\ own => Instruction(m, p) = c
       /\ far => Instruction(m, p) = d
       /\ ~ own /\ ~ far => Instruction(m, p) = m
  BY <1>1, <1>8
<1> QED
  BY <1>6, <1>7, <1>9, <1>10, <1>11, <1>12, <1>13 DEF f

(* The instruction is that of the word.                                    *)
LEMMA InstructionBack ==
  ASSUME NEW i, i \notin {"ld", "st", ".word", "ldd", "std"}, NEW w
  PROVE  Instruction(Form(i, w)[1], Form(i, w)[2]) = i
<1> DEFINE f == Form(i, w)
<1>1. CASE i \in DOMAIN Forms
  <2>1. f = Forms[i]
    BY <1>1, FormIs
  <2>2. Forms[i] = << f[1], f[2] >>
    BY <1>1, <2>1, FormOfForms DEF Tells
  <2> HIDE DEF f
  <2>3. Instruction(f[1], f[2]) = i
    BY <1>1, <2>2, InstructionIs
  <2> QED
    BY <2>3 DEF f
<1>2. CASE i \in Displaced
  <2>1. f \in {NearForms[i], FarForms[i]}
    BY <1>2, FormIs
  <2>2. << f[1], f[2] >> = f
    BY <1>2, <2>1, FormOfDisplaced DEF Tells
  <2> HIDE DEF f
  <2>3. Instruction(f[1], f[2]) = i
    BY <1>2, <2>1, <2>2, InstructionIs
  <2> QED
    BY <2>3 DEF f
<1>3. CASE i \notin DOMAIN Forms /\ i \notin Displaced
  <2>1. Form(i, w) = << i, "" >>
    BY <1>3, FormIs
  <2>2. f[1] = i
    BY <2>1, Components
  <2>3. i \notin {"ld", "st", "lpm", ".word", "ldd", "std"}
    BY <1>3, FormsAre
  <2> HIDE DEF f
  <2>4. Instruction(f[1], f[2]) = i
    BY <2>2, <2>3, InstructionIs
  <2> QED
    BY <2>4 DEF f
<1> QED
  BY <1>1, <1>2, <1>3


-----------------------------------------------------------------------------
(* A line, assembled again.                                                *)

(* The names that are only written.                                        *)
LEMMA Names ==
  ASSUME NEW i, NEW w, NEW v, i = "undefined" \/ Encoded(i, w, v)
  PROVE  i \notin {"ld", "st", ".word", "ldd", "std"}
<1>1. i # "ld"
  BY DEF Encoded, NoOperands, OneOperand, OneRegister, PointerLoads,
     PointerStores, TwoRegisters, UpperImm, WordImm, PortBits, Multiplies816,
     Displaced
<1>2. i # "st"
  BY DEF Encoded, NoOperands, OneOperand, OneRegister, PointerLoads,
     PointerStores, TwoRegisters, UpperImm, WordImm, PortBits, Multiplies816,
     Displaced
<1>3. i # ".word"
  BY DEF Encoded, NoOperands, OneOperand, OneRegister, PointerLoads,
     PointerStores, TwoRegisters, UpperImm, WordImm, PortBits, Multiplies816,
     Displaced
<1>4. i # "ldd"
  BY DEF Encoded, NoOperands, OneOperand, OneRegister, PointerLoads,
     PointerStores, TwoRegisters, UpperImm, WordImm, PortBits, Multiplies816,
     Displaced
<1>5. i # "std"
  BY DEF Encoded, NoOperands, OneOperand, OneRegister, PointerLoads,
     PointerStores, TwoRegisters, UpperImm, WordImm, PortBits, Multiplies816,
     Displaced
<1> QED
  BY <1>1, <1>2, <1>3, <1>4, <1>5

(* What an assembler may make of line l, if it names instruction i.        *)
Assembled(i, l, e) ==
  LET u == Fixed[i] + Placed(i, l)
  IN  /\ i = "undefined" => e = { << l.numbers[1] >> }
      /\ i \in {"bset", "bclr"} => e = { << Fixed[i] + 16 * s >> : s \in 0 .. 7 }
      /\ i = "lds" => e = { << u, l.numbers[2] >> }
      /\ i = "sts" => e = { << u, l.numbers[1] >> }
      /\ i \in {"call", "jmp"} => e = { << u, (l.numbers[1] \div 2) % 65536 >> }
      /\ i \notin TwoWords \cup {"undefined", "bset", "bclr"} => e = { << u >> }

LEMMA EncodingsAre ==
  ASSUME NEW l, NEW i, i = Instruction(l.mnemonic, l.pointer)
  PROVE  Assembled(i, l, Encodings(l))
<1> DEFINE u == Fixed[i] + Placed(i, l)
           a == { << l.numbers[1] >> }
           b == { << Fixed[i] + 16 * s >> : s \in 0 .. 7 }
           c == { << u, l.numbers[2] >> }
           d == { << u, l.numbers[1] >> }
           e == { << u, (l.numbers[1] \div 2) % 65536 >> }
           f == { << u >> }
<1>1. Encodings(l) = CASE i = "undefined"        -> a
                       [] i \in {"bset", "bclr"} -> b
                       [] i = "lds"              -> c
                       [] i = "sts"              -> d
                       [] i \in {"call", "jmp"}  -> e
                       [] OTHER                  -> f
  BY DEF Encodings
<1> HIDE DEF a, b, c, d, e, f
<1>2. /\ i = "undefined" => Encodings(l) = a
      /\ i \in {"bset", "bclr"} => Encodings(l) = b
      /\ i = "lds" => Encodings(l) = c
      /\ i = "sts" => Encodings(l) = d
      /\ i \in {"call", "jmp"} => Encodings(l) = e
      /\ i \notin TwoWords \cup {"undefined", "bset", "bclr"} => Encodings(l) = f
  BY <1>1 DEF TwoWords
<1> QED
  BY <1>2 DEF a, b, c, d, e, f, Assembled

(* The fixed bits and the operands in their places are the word.           *)
LEMMA Together ==
  ASSUME NEW i, NEW w \in Nat, NEW v, Encoded(i, w, v), NEW b \in Nat, NEW l,
         l.numbers = Numbers(i, w, b), l.addr = b
  PROVE  /\ i \notin TwoWords \cup {"bset", "bclr"} => w = v + Placed(i, l)
         /\ i \in {"bset", "bclr"} => \E s \in 0 .. 7 : w = v + 16 * s
<1> DEFINE F(p, m) == Field(w, p, m)
<1>0. Restored(i, w, Placed(i, l))
  BY PlacesBack
<1>1. v \in Int
  BY WordRange DEF Encoded
<1>2. /\ F(1, 8) \in Int /\ F(16, 8) \in 0 .. 7 /\ F(16, 32) \in Int
      /\ F(1024, 4) \in Int /\ F(8192, 2) \in Int
  <2>1. /\ F(1, 8) \in 0 .. 7 /\ F(16, 8) \in 0 .. 7 /\ F(16, 32) \in 0 .. 31
        /\ F(1024, 4) \in 0 .. 3 /\ F(8192, 2) \in 0 .. 1
    BY DEF Field
  <2> HIDE DEF F
  <2> QED
    BY <2>1
<1>3. CASE i \in NoOperands
  <2>1. w = v
    BY <1>3 DEF Encoded, NoOperands, OneOperand, OneRegister, PointerLoads,
       PointerStores, TwoRegisters, UpperImm, WordImm, PortBits, Multiplies816, Displaced
  <2>2. Placed(i, l) = 0
    BY <1>0, <1>3 DEF Restored
  <2> QED
    BY <1>1, <1>3, <2>1, <2>2 DEF NoOperands
<1>4. CASE i \in OneOperand
  <2>1. w = v + 16 * F(16, 32)
    BY <1>4 DEF NoOperands, OneOperand, OneRegister, PointerLoads,
       PointerStores, TwoRegisters, UpperImm, WordImm, PortBits,
       Multiplies816, Displaced, Encoded
  <2>2. Placed(i, l) = 16 * F(16, 32)
    BY <1>0, <1>4 DEF Restored
  <2>3. i \notin {"bset", "bclr"}
    BY <1>4 DEF OneOperand, OneRegister, PointerLoads, PointerStores
  <2> HIDE DEF F
  <2> QED
    BY <1>1, <1>2, <2>1, <2>2, <2>3
<1>5. CASE i \in TwoRegisters \cup {"brbc", "brbs"}
  <2>1. w = v + F(1, 1024)
    BY <1>5 DEF NoOperands, OneOperand, OneRegister, PointerLoads,
       PointerStores, TwoRegisters, UpperImm, WordImm, PortBits,
       Multiplies816, Displaced, Encoded
  <2>2. Placed(i, l) = F(1, 1024)
    BY <1>0, <1>5 DEF Restored
  <2>3. i \notin {"bset", "bclr"}
    BY <1>5 DEF TwoRegisters
  <2> HIDE DEF F
  <2> QED
    BY <1>1, <1>2, <2>1, <2>2, <2>3
<1>6. CASE i \in UpperImm \cup {"rcall", "rjmp"}
  <2>1. w = v + F(1, 4096)
    BY <1>6 DEF NoOperands, OneOperand, OneRegister, PointerLoads,
       PointerStores, TwoRegisters, UpperImm, WordImm, PortBits,
       Multiplies816, Displaced, Encoded
  <2>2. Placed(i, l) = F(1, 4096)
    BY <1>0, <1>6 DEF Restored
  <2>3. i \notin {"bset", "bclr"}
    BY <1>6 DEF UpperImm
  <2> HIDE DEF F
  <2> QED
    BY <1>1, <1>2, <2>1, <2>2, <2>3
<1>7. CASE i \in {"sbrc", "sbrs", "bld", "bst"}
  <2>1. w = v + F(1, 8) + 16 * F(16, 32)
    BY <1>7 DEF NoOperands, OneOperand, OneRegister, PointerLoads,
       PointerStores, TwoRegisters, UpperImm, WordImm, PortBits,
       Multiplies816, Displaced, Encoded
  <2>2. Placed(i, l) = F(1, 8) + 16 * F(16, 32)
    BY <1>0, <1>7 DEF Restored
  <2>3. i \notin {"bset", "bclr"}
    BY <1>7
  <2> HIDE DEF F
  <2> QED
    BY <1>1, <1>2, <2>1, <2>2, <2>3
<1>8. CASE i \in {"in", "out"}
  <2>1. w = v + F(1, 2048)
    BY <1>8 DEF NoOperands, OneOperand, OneRegister, PointerLoads,
       PointerStores, TwoRegisters, UpperImm, WordImm, PortBits,
       Multiplies816, Displaced, Encoded
  <2>2. Placed(i, l) = F(1, 2048)
    BY <1>0, <1>8 DEF Restored
  <2>3. i \notin {"bset", "bclr"}
    BY <1>8
  <2> HIDE DEF F
  <2> QED
    BY <1>1, <1>2, <2>1, <2>2, <2>3
<1>9. CASE i \in WordImm \cup PortBits \cup {"movw", "muls"}
  <2>1. w = v + F(1, 256)
    BY <1>9 DEF NoOperands, OneOperand, OneRegister, PointerLoads,
       PointerStores, TwoRegisters, UpperImm, WordImm, PortBits,
       Multiplies816, Displaced, Encoded
  <2>2. Placed(i, l) = F(1, 256)
    BY <1>0, <1>9 DEF Restored
  <2>3. i \notin {"bset", "bclr"}
    BY <1>9 DEF WordImm, PortBits
  <2> HIDE DEF F
  <2> QED
    BY <1>1, <1>2, <2>1, <2>2, <2>3
<1>10. CASE i \in Multiplies816
  <2>1. w = v + F(1, 8) + 16 * F(16, 8)
    BY <1>10 DEF NoOperands, OneOperand, OneRegister, PointerLoads,
       PointerStores, TwoRegisters, UpperImm, WordImm, PortBits,
       Multiplies816, Displaced, Encoded
  <2>2. Placed(i, l) = F(1, 8) + 16 * F(16, 8)
    BY <1>0, <1>10 DEF Restored
  <2>3. i \notin {"bset", "bclr"}
    BY <1>10 DEF Multiplies816
  <2> HIDE DEF F
  <2> QED
    BY <1>1, <1>2, <2>1, <2>2, <2>3
<1>11. CASE i \in Displaced
  <2>1. w = v + F(1, 8) + 16 * F(16, 32) + 1024 * F(1024, 4) + 8192 * F(8192, 2)
    BY <1>11 DEF NoOperands, OneOperand, OneRegister, PointerLoads,
       PointerStores, TwoRegisters, UpperImm, WordImm, PortBits,
       Multiplies816, Displaced, Encoded
  <2>2. Placed(i, l) = F(1, 8) + 16 * F(16, 32) + 1024 * F(1024, 4) + 8192 * F(8192, 2)
    BY <1>0, <1>11 DEF Restored
  <2>3. i \notin {"bset", "bclr"}
    BY <1>11 DEF Displaced
  <2> HIDE DEF F
  <2> QED
    BY <1>1, <1>2, <2>1, <2>2, <2>3
<1>12. CASE i \in {"bset", "bclr"}
  <2>1. w = v + 16 * F(16, 8)
    BY <1>12 DEF NoOperands, OneOperand, OneRegister, PointerLoads,
       PointerStores, TwoRegisters, UpperImm, WordImm, PortBits,
       Multiplies816, Displaced, Encoded
  <2> QED
    BY <1>2, <1>12, <2>1
<1>13. CASE i \in TwoWords
  BY <1>13 DEF TwoWords
<1> QED
  BY <1>3, <1>4, <1>5, <1>6, <1>7, <1>8, <1>9, <1>10, <1>11, <1>12, <1>13 DEF
     Encoded, TwoWords

(* The word of a short instruction comes back from its line.               *)
LEMMA OneWordBack ==
  ASSUME NEW w \in Word, avr_decode(w) \notin TwoWords, NEW b \in Nat,
         NEW l, l = OneWordLine(b, avr_decode(w), w)
  PROVE  /\ << w >> \in Encodings(l)
         /\ l.mnemonic \in Relatives => l.numbers[1] = l.numbers[2] - l.addr - 2
<1> DEFINE i == avr_decode(w)
           v == Fixed[i]
           n == l.numbers
<1>1. /\ l.addr = b /\ l.mnemonic = Form(i, w)[1] /\ l.pointer = Form(i, w)[2]
      /\ n = Numbers(i, w, b)
  BY OneWordFields
<1>2. i = "undefined" \/ Encoded(i, w, v)
  BY DecodedIs
<1>3. w \in Nat /\ i \notin TwoWords
  BY WordRange
<1> HIDE DEF i, v
<1>4. i \notin {"ld", "st", ".word", "ldd", "std"}
  BY <1>2, Names
<1>5. i = Instruction(l.mnemonic, l.pointer)
  BY <1>1, <1>4, InstructionBack
<1> HIDE DEF n
<1>6. Assembled(i, l, Encodings(l))
  BY <1>5, EncodingsAre
<1>7. << w >> \in Encodings(l)
  <2>1. CASE i = "undefined"
    <3>1. n[1] = w
      BY <1>1, <2>1, NumbersAre
    <3>2. Encodings(l) = { << n[1] >> }
      BY <1>6, <2>1 DEF Assembled, n
    <3> QED
      BY <3>1, <3>2
  <2>2. CASE i \in {"bset", "bclr"}
    <3>1. PICK s \in 0 .. 7 : w = v + 16 * s
      BY <1>1, <1>2, <1>3, <2>2, Together DEF n
    <3>2. Encodings(l) = { << v + 16 * t >> : t \in 0 .. 7 }
      BY <1>6, <2>2 DEF Assembled, v
    <3> QED
      BY <3>1, <3>2
  <2>3. CASE i \notin {"undefined", "bset", "bclr"}
    <3>0. i \notin TwoWords \cup {"bset", "bclr"} /\ Encoded(i, w, v)
      BY <1>2, <1>3, <2>3
    <3>1. w = v + Placed(i, l)
      BY <1>1, <1>3, <3>0, Together DEF n
    <3>2. Encodings(l) = { << v + Placed(i, l) >> }
      BY <1>6, <1>3, <2>3 DEF Assembled, v
    <3> QED
      BY <3>1, <3>2
  <2> QED
    BY <2>1, <2>2, <2>3
<1>8. ASSUME l.mnemonic \in Relatives
      PROVE  n[1] = n[2] - l.addr - 2
  <2>1. i \in Relatives
    <3>1. l.mnemonic \notin {"ld", "st", "lpm", ".word", "ldd", "std"}
      BY <1>8 DEF Relatives
    <3> QED
      BY <1>5, <1>8, <3>1, InstructionIs
  <2>2. n[1] = Offset(i, w) /\ n[2] = b + Offset(i, w) + 2
    BY <1>1, <2>1, NumbersAre DEF Relatives
  <2>3. Offset(i, w) \in Int
    <3>1. Field(w, 8, 128) \in Int /\ Field(w, 1, 4096) \in Int
      BY <1>3 DEF Field
    <3>2. pc_offset(i, w) \in Int
      BY <2>1, <3>1 DEF Relatives, pc_offset, Signed
    <3> QED
      BY <3>2 DEF Offset
  <2> QED
    BY <1>1, <2>2, <2>3
<1> QED
  BY <1>7, <1>8 DEF n

(* The parts of a target: its high bits go into the word, the rest is the  *)
(* second word.                                                            *)
LEMMA TargetBack ==
  ASSUME NEW x \in 0 .. 1, NEW r \in 0 .. 31, NEW s \in Word
  PROVE  LET t == JumpTarget(x + 2 * r, s)
         IN  /\ 16 * ((t \div 131072) \div 2) + ((t \div 131072) % 2) = x + 16 * r
             /\ (t \div 2) % 65536 = s
<1> DEFINE h == x + 2 * r
           t == JumpTarget(h, s)
<1>1. s \in Int /\ 0 <= s /\ s < 65536
  BY WordRange
<1>2. h \in Nat /\ h \div 2 = r /\ h % 2 = x
  OBVIOUS
<1> HIDE DEF h
<1>3. t = 2 * (h * 65536 + s)
  BY DEF JumpTarget
<1> DEFINE q == h * 65536 + s
<1>4. q \in Nat /\ q % 65536 = s
  BY <1>1, <1>2
<1>5. (2 * q) \div 131072 = h
  BY <1>1, <1>2
<1> HIDE DEF q, t
<1>6. t \div 131072 = h
  BY <1>3, <1>5 DEF q
<1>7. t \div 2 = q
  BY <1>3, <1>4 DEF q
<1> QED
  BY <1>2, <1>4, <1>6, <1>7 DEF t, h

(* The two words of a long instruction come back from its line.            *)
LEMMA TwoWordBack ==
  ASSUME NEW w \in Word, avr_decode(w) \in TwoWords, NEW s \in Word, NEW b,
         NEW l, l = TwoWordLine(b, avr_decode(w), w, s)
  PROVE  << w, s >> \in Encodings(l) /\ l.mnemonic \notin Relatives
<1> DEFINE i == avr_decode(w)
           v == Fixed[i]
           n == l.numbers
           r == Field(w, 16, 32)
           x == Field(w, 1, 2)
<1>1. i \in {"lds", "sts"} \/ i \in {"call", "jmp"}
  BY DEF TwoWords
<1>2. Encoded(i, w, v)
  <2>1. i # "undefined"
    BY <1>1
  <2> QED
    BY <2>1, DecodedIs
<1>3. l.mnemonic = i /\ l.pointer = ""
  <2>1. l.mnemonic = << i, "" >>[1] /\ l.pointer = << i, "" >>[2]
    BY DEF TwoWordLine, Line
  <2> QED
    BY <2>1
<1>4. /\ i = "lds" => n = << rd(i, w), s >>
      /\ i = "sts" => n = << s, rr(i, w) >>
      /\ i \in {"call", "jmp"} => n = << JumpTarget(addr_msbyte(i, w), s) >>
  BY DEF TwoWordLine, Line
<1>5. r \in 0 .. 31 /\ x \in 0 .. 1 /\ v \in Int
  <2>1. r \in 0 .. 31 /\ x \in 0 .. 1
    BY WordRange DEF Field
  <2>2. v \in Int
    BY <1>2, WordRange DEF Encoded
  <2> QED
    BY <2>1, <2>2
<1>6. /\ i = "lds" => rd(i, w) = r
      /\ i = "sts" => rr(i, w) = r
      /\ i \in {"call", "jmp"} => addr_msbyte(i, w) = x + 2 * r
  BY OperandsAre DEF RdPlain, RrPlain, DirectLoads, DirectStores
<1>7. /\ i \in {"lds", "sts"} => w = v + 16 * r
      /\ i \in {"call", "jmp"} => w = v + x + 16 * r
  BY <1>2 DEF NoOperands, OneOperand, OneRegister, PointerLoads,
     PointerStores, TwoRegisters, UpperImm, WordImm, PortBits, Multiplies816,
     Displaced, Encoded
<1> HIDE DEF i, v, n, r, x
<1>8. i = Instruction(l.mnemonic, l.pointer)
  BY <1>1, <1>3, InstructionIs
<1>9. Assembled(i, l, Encodings(l))
  BY <1>8, EncodingsAre
<1>10. l.mnemonic \notin Relatives
  BY <1>1, <1>3 DEF Relatives
<1>11. CASE i = "lds"
  <2>1. n[1] = r /\ n[2] = s
    BY <1>4, <1>6, <1>11
  <2>2. Placed(i, l) = 16 * r
    <3>1. Placed(i, l) = AtD(l.numbers[1])
      BY <1>11, PlacedIs
    <3> QED
      BY <2>1, <3>1 DEF n, AtD
  <2>3. Encodings(l) = { << v + Placed(i, l), n[2] >> }
    <3>1. Encodings(l) = { << Fixed[i] + Placed(i, l), l.numbers[2] >> }
      BY <1>9, <1>11 DEF Assembled
    <3> QED
      BY <3>1 DEF v, n
  <2> QED
    BY <1>7, <1>10, <1>11, <2>1, <2>2, <2>3
<1>12. CASE i = "sts"
  <2>1. n[1] = s /\ n[2] = r
    BY <1>4, <1>6, <1>12
  <2>2. Placed(i, l) = 16 * r
    <3>1. Placed(i, l) = AtD(l.numbers[2])
      BY <1>12, PlacedIs
    <3> QED
      BY <2>1, <3>1 DEF n, AtD
  <2>3. Encodings(l) = { << v + Placed(i, l), n[1] >> }
    <3>1. Encodings(l) = { << Fixed[i] + Placed(i, l), l.numbers[1] >> }
      BY <1>9, <1>12 DEF Assembled
    <3> QED
      BY <3>1 DEF v, n
  <2> QED
    BY <1>7, <1>10, <1>12, <2>1, <2>2, <2>3
<1>13. CASE i \in {"call", "jmp"}
  <2> DEFINE t == JumpTarget(x + 2 * r, s)
             h == t \div 131072
  <2>1. n[1] = t
    BY <1>4, <1>6, <1>13
  <2>2. 16 * (h \div 2) + (h % 2) = x + 16 * r /\ (t \div 2) % 65536 = s
    BY <1>5, TargetBack
  <2> HIDE DEF t
  <2>3. Placed(i, l) = x + 16 * r
    <3>1. Placed(i, l) = 16 * (h \div 2) + (h % 2)
      BY <1>13, <2>1, PlacedIs DEF n
    <3> QED
      BY <2>2, <3>1
  <2>4. Encodings(l) = { << v + Placed(i, l), (n[1] \div 2) % 65536 >> }
    BY <1>9, <1>13 DEF Assembled, v, n
  <2>5. w = v + (x + 16 * r)
    BY <1>5, <1>7, <1>13
  <2> QED
    BY <1>10, <2>1, <2>2, <2>3, <2>4, <2>5
<1> QED
  BY <1>1, <1>11, <1>12, <1>13

-----------------------------------------------------------------------------
(* The listing of a binary.                                                *)

(* What Reassembles says of one line.                                      *)
LEMMA LineBack ==
  ASSUME file \in Seq(Word), NEW l \in LinesOf(file, AllDecoded)
  PROVE  /\ Described(l) \in Encodings(l)
         /\ l.mnemonic \in Relatives => l.numbers[1] = l.numbers[2] - l.addr - 2
<1>1. PICK a \in Complete(file, AllDecoded) : l = LineAt(a, file, AllDecoded)
  BY DEF LinesOf
<1> DEFINE w == file[a + 1]
           s == file[a + 2]
           b == 2 * a
           i == AllDecoded[w]
<1>2. /\ a \in Nat /\ a + 1 \in 1 .. Len(file)
      /\ i \in TwoWords => a + 2 \in 1 .. Len(file)
  BY <1>1 DEF Complete
<1>3. w \in Word /\ (i \in TwoWords => s \in Word) /\ b \in Nat
  BY <1>2
<1>4. i = avr_decode(w)
  BY <1>3 DEF AllDecoded
<1>5. /\ l.addr = b
      /\ Size(l) = IF i \in TwoWords THEN 2 ELSE 1
      /\ i \in TwoWords => l = TwoWordLine(b, i, w, s)
      /\ i \notin TwoWords => l = OneWordLine(b, i, w)
  BY <1>1, LineIs
<1>6. l.addr \div 2 = a
  <2>1. b \div 2 = a
    BY <1>2
  <2> QED
    BY <1>5, <2>1
<1>7. Described(l) = [k \in 1 .. Size(l) |-> file[a + k]]
  BY <1>6, Zenon DEF Described
<1> HIDE DEF i, b
<1>8. CASE i \in TwoWords
  <2>1. Described(l) = << w, s >>
    BY <1>5, <1>7, <1>8
  <2>2. << w, s >> \in Encodings(l) /\ l.mnemonic \notin Relatives
    BY <1>3, <1>4, <1>5, <1>8, TwoWordBack
  <2> QED
    BY <2>1, <2>2
<1>9. CASE i \notin TwoWords
  <2>1. Described(l) = << w >>
    BY <1>5, <1>7, <1>9
  <2> HIDE DEF w
  <2>2. /\ << w >> \in Encodings(l)
        /\ l.mnemonic \in Relatives => l.numbers[1] = l.numbers[2] - l.addr - 2
    BY <1>3, <1>4, <1>5, <1>9, OneWordBack
  <2> QED
    BY <2>1, <2>2
<1> QED
  BY <1>8, <1>9

(* The listing of every binary, of any length and with any words, is the   *)
(* binary: list_opcode drops no bit of a word but the flag of bset and     *)
(* bclr, names each instruction so that it can be told from all others,    *)
(* joins two words to a line only where they are one instruction, and      *)
(* prints for a relative jump the target that its offset leads to.         *)
THEOREM ListingReassembles == ListSpec => []Reassembles
<1>1. ReadInv => Reassembles
  <2> SUFFICES ASSUME ReadInv PROVE Reassembles
    OBVIOUS
  <2>1. Consecutive
    BY DEF ReadInv, Sound, Chained, EndOf, Consecutive
  <2>2. file \in Seq(Word) /\ listing.lines \in Seq(LinesOf(file, AllDecoded))
    BY DEF ReadInv, Sound
  <2>3. ASSUME NEW k \in DOMAIN listing.lines
        PROVE  listing.lines[k] \in LinesOf(file, AllDecoded)
    <3> DEFINE S == LinesOf(file, AllDecoded)
               q == listing.lines
    <3>1. q \in Seq(S) /\ k \in DOMAIN q
      BY <2>2
    <3> HIDE DEF S, q
    <3>2. q[k] \in S
      BY <3>1
    <3> QED
      BY <3>2 DEF S, q
  <2> QED
    BY <2>1, <2>2, <2>3, LineBack DEF Reassembles
<1> QED
  BY <1>1, ReadStart, ReadStep, PTL DEF ListSpec

=============================================================================
