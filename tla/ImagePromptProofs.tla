------------------------- MODULE ImagePromptProofs -------------------------
(***************************************************************************)
(* For images of any size in a prompt of any length, under any             *)
(* configuration with cells of three patches or more and a budget of more  *)
(* than ten tokens: what safe_resize leaves fits the budget, the block     *)
(* made of it is as long as everyone believes, uses each row of the        *)
(* aligner once and lies in whole groups of the compressor, and planner    *)
(* and splice write it at its own placeholder.  For chats of any length,   *)
(* behind any context: what encode_messages merges, sorts, drops and       *)
(* renders is said in the prompt, each message in its place, so that       *)
(* results follow their calls, turns close and images keep their order.    *)
(***************************************************************************)
EXTENDS ImagePrompt, FiniteSetTheorems, SequenceTheorems, WellFoundedInduction, TLAPS

-----------------------------------------------------------------------------
(* The arithmetic of a block: its lengths and where its body begins and ends. *)

\* Quotient and remainder.
LEMMA DivMod ==
  ASSUME NEW a \in Int, NEW b \in Nat \ {0}
  PROVE  /\ a \div b \in Int /\ a % b \in 0 .. b - 1
         /\ a = b * (a \div b) + (a % b)
  OBVIOUS

\* A number is its quotient and remainder in one way.
LEMMA DivUnique ==
  ASSUME NEW q \in Int, NEW b \in Nat \ {0}, NEW r \in 0 .. b - 1
  PROVE  (b * q + r) \div b = q /\ (b * q + r) % b = r
  BY SMT

\* The quotient of naturals, rounded down.
LEMMA DivNat ==
  ASSUME NEW a \in Nat, NEW b \in Nat \ {0}
  PROVE  a \div b \in Nat /\ b * (a \div b) <= a /\ a < b * (a \div b) + b
  BY SMT

\* The pad in front of a block.
LEMMA PadAligns ==
  ASSUME NEW s \in Nat
  PROVE  /\ CompressPad(s) \in 0 .. 3
         /\ (s + CompressPad(s) + 1) % CompressPadTo = 0
  BY DEF CompressPad, CompressPadTo

\* Rows come in pairs.
LEMMA RowsArePairs ==
  ASSUME NEW nh \in Nat
  PROVE  \E r \in Nat : /\ Rows(nh) = 2 * r /\ r = (nh + 1) \div 2 /\ Rows(nh) \div 2 = r
                        /\ nh + (nh % 2) = 2 * r
<1>1. CASE nh % 2 = 0
  <2>1. PICK r \in Nat : nh = 2 * r
    BY <1>1
  <2>. QED BY <1>1, <2>1 DEF Rows
<1>2. CASE nh % 2 = 1
  <2>1. PICK r \in Nat : nh = 2 * r + 1
    BY <1>2
  <2>. QED BY <1>2, <2>1 DEF Rows
<1>. QED BY <1>1, <1>2

\* A block is its start, its body of pairs of rows and its end, with a pad that
\* makes the body a whole number of groups.
LEMMA BlockLengths ==
  ASSUME NEW nh \in Nat, NEW nw \in Nat
  PROVE  /\ BodyLen(nh, nw) \in Nat /\ PadLast(nh, nw) \in {0, 2}
         /\ BlockLen(nh, nw) \in Nat /\ BlockLen(nh, nw) >= 2
         /\ GridTokens(nh, nw) = BlockLen(nh, nw)
         /\ TypesSize(nh, nw) = BlockLen(nh, nw)
         /\ (BodyLen(nh, nw) + PadLast(nh, nw)) % CompressPadTo = 0
<1>1. PICK r \in Nat : /\ Rows(nh) = 2 * r /\ r = (nh + 1) \div 2 /\ Rows(nh) \div 2 = r
                       /\ nh + (nh % 2) = 2 * r
  BY RowsArePairs
<1>. DEFINE p == r * (nw + 1)
<1>2. p \in Nat /\ BodyLen(nh, nw) = 2 * p
  BY <1>1 DEF BodyLen
<1>3. PadLast(nh, nw) = 2 * (p % 2)
  BY <1>1 DEF PadLast
<1>. HIDE DEF p
<1>4. PadLast(nh, nw) \in {0, 2} /\ (2 * p + PadLast(nh, nw)) % 4 = 0
  BY <1>2, <1>3
<1>5. BlockLen(nh, nw) = 2 + 2 * p + 2 * (p % 2)
  BY <1>2, <1>3 DEF BlockLen
<1>6. nh % 2 \in {0, 1}
  OBVIOUS
<1>7. nh * (nw + 1) + (nh % 2) * (nw + 1) = 2 * p
  BY <1>1, <1>6 DEF p
<1>8. TypesSize(nh, nw) = 2 + 2 * p + 2 * (p % 2)
  <2>1. TypesSize(nh, nw) = nh * (nw + 1) + 2 + (nh % 2) * (nw + 1) + 2 * (p % 2)
    BY <1>1 DEF TypesSize, p
  <2>2. nh * (nw + 1) \in Int /\ (nh % 2) * (nw + 1) \in Int
    BY <1>6
  <2>. QED BY <2>1, <2>2, <1>7, <1>2
<1>9. GridTokens(nh, nw) = 2 + 2 * p + 2 * (p % 2)
  <2>1. GridTokens(nh, nw) = nh * (nw + 1) + 2 + (IF nh % 2 = 1 THEN nw + 1 ELSE 0) + 2 * (p % 2)
    BY <1>1 DEF GridTokens, p
  <2>2. nh * (nw + 1) \in Int
    OBVIOUS
  <2>3. (IF nh % 2 = 1 THEN nw + 1 ELSE 0) = (nh % 2) * (nw + 1)
    BY <1>6
  <2>. QED BY <2>1, <2>2, <2>3, <1>7, <1>2, <1>6
<1>. QED BY <1>2, <1>4, <1>5, <1>8, <1>9 DEF CompressPadTo

\* A block with its pad begins and ends where the compressor's groups do.
LEMMA BlockAligns ==
  ASSUME NEW s \in Nat, NEW nh \in Nat, NEW nw \in Nat
  PROVE  /\ (s + CompressPad(s) + 1) % CompressPadTo = 0
         /\ (s + (CompressPad(s) + BlockLen(nh, nw)) - 1) % CompressPadTo = 0
<1>. DEFINE b == BodyLen(nh, nw) + PadLast(nh, nw)
            c == s + CompressPad(s) + 1
<1>1. b \in Nat /\ b % 4 = 0 /\ BlockLen(nh, nw) = 2 + b
  <2>1. BodyLen(nh, nw) \in Nat /\ PadLast(nh, nw) \in {0, 2} /\ b % CompressPadTo = 0
    BY BlockLengths
  <2>. QED BY <2>1 DEF BlockLen, CompressPadTo
<1>. HIDE DEF b
<1>2. CompressPad(s) \in 0 .. 3 /\ c % 4 = 0
  BY PadAligns DEF CompressPadTo
<1>3. s + (CompressPad(s) + BlockLen(nh, nw)) - 1 = c + b
  <2>1. CompressPad(s) \in Nat
    BY <1>2
  <2>2. BlockLen(nh, nw) = 2 + b /\ b \in Nat
    BY <1>1
  <2>. QED BY <2>1, <2>2
<1>4. c \in Nat
  BY <1>2
<1>. HIDE DEF c
<1>5. (c + b) % 4 = 0
  BY <1>1, <1>2, <1>4
<1>. QED BY <1>2, <1>3, <1>5 DEF CompressPadTo, c

-----------------------------------------------------------------------------
(* The bounds of solve_resize_ratio, one computation after the other.      *)

\* Ceil and floor.
LEMMA CeilDivBounds ==
  ASSUME NEW a \in Nat \ {0}, NEW b \in Nat \ {0}
  PROVE  /\ CeilDiv(a, b) \in Nat \ {0}
         /\ \A n \in Nat : a <= b * n => CeilDiv(a, b) <= n
<1>. DEFINE q == CeilDiv(a, b)
<1>1. q \in Nat /\ b * q <= a + b - 1 /\ a + b - 1 < b * q + b
  BY DivNat, a + b - 1 \in Nat DEF CeilDiv
<1>. HIDE DEF q
<1>2. q # 0
  BY <1>1
<1>3. ASSUME NEW n \in Nat, a <= b * n PROVE q <= n
  <2>1. SUFFICES ASSUME q >= n + 1 PROVE FALSE
    BY <1>1
  <2>2. b * q >= b * (n + 1) /\ b * (n + 1) = b * n + b
    BY <1>1, <2>1
  <2>. QED BY <1>1, <1>3, <2>2
<1>. QED BY <1>1, <1>2, <1>3 DEF q

\* Rounding down in floating point keeps at least one patch.
LEMMA FloorsBounds ==
  ASSUME NEW a \in Nat, NEW b \in Nat \ {0}, a > b, NEW f \in Floors(a, b)
  PROVE  f \in Nat \ {0} /\ b * f <= a
<1>. DEFINE q == a \div b
            r == a % b
<1>1. q \in Int /\ a = b * q + r /\ r \in 0 .. b - 1
  BY DivMod
<1>2. f = q \/ (r = 0 /\ f = q - 1)
  BY DEF Floors
<1>. HIDE DEF q, r
<1>3. q >= 1
  <2>1. SUFFICES ASSUME q <= 0 PROVE FALSE
    BY <1>1
  <2>2. b * q <= 0
    BY <1>1, <2>1
  <2>. QED BY <1>1, <2>2
<1>4. r = 0 => q >= 2
  <2>1. SUFFICES ASSUME r = 0, q = 1 PROVE FALSE
    BY <1>1, <1>3
  <2>. QED BY <1>1, <2>1
<1>5. b * q <= a /\ b * (q - 1) <= a
  <2>1. b * (q - 1) = b * q - b
    BY <1>1
  <2>. QED BY <1>1, <2>1
<1>. QED BY <1>1, <1>2, <1>3, <1>4, <1>5

\* An even number of rows.
LEMMA EvenBounds ==
  ASSUME NEW n \in Nat
  PROVE  Even(n) \in Nat /\ Even(n) <= n /\ n <= Even(n) + 1 /\ Even(n) % 2 = 0
BY DEF Even

\* The tokens of an image of at most h rows, an even number, and w columns.
LEMMA GridBound ==
  ASSUME NEW h \in Nat, h % 2 = 0, NEW w \in Nat, NEW nh \in Nat, NEW nw \in Nat, nh <= h, nw <= w
  PROVE  GridTokens(nh, nw) <= h * (w + 1) + 4
<1>1. GridTokens(nh, nw) = 2 + BodyLen(nh, nw) + PadLast(nh, nw)
  BY BlockLengths DEF BlockLen
<1>2. PadLast(nh, nw) <= 2 /\ PadLast(nh, nw) \in Nat /\ BodyLen(nh, nw) \in Nat
  <2>1. PadLast(nh, nw) \in {0, 2} /\ BodyLen(nh, nw) \in Nat
    BY BlockLengths
  <2>. QED BY <2>1
<1>3. Rows(nh) \in Nat /\ Rows(nh) <= h
  BY DEF Rows
<1>4. BodyLen(nh, nw) <= h * (w + 1)
  <2>1. Rows(nh) * (nw + 1) <= h * (nw + 1)
    BY <1>3
  <2>2. h * (nw + 1) <= h * (w + 1)
    OBVIOUS
  <2>. QED BY <2>1, <2>2, <1>3 DEF BodyLen
<1>5. h * (w + 1) \in Nat
  OBVIOUS
<1>. QED BY <1>1, <1>2, <1>4, <1>5

\* The same for a size in patches.
LEMMA TokensBound ==
  ASSUME Downsample \in Nat \ {0}, NEW bh \in Nat \ {0}, NEW bw \in Nat \ {0},
         NEW h \in Nat, h % 2 = 0, NEW w \in Nat, bh <= Downsample * h, bw <= Downsample * w
  PROVE  TokensOf(bh, bw) \in Nat /\ TokensOf(bh, bw) <= h * (w + 1) + 4
<1>1. Cells(bh, bw)[1] \in Nat /\ Cells(bh, bw)[1] <= h /\ Cells(bh, bw)[2] \in Nat /\ Cells(bh, bw)[2] <= w
  BY CeilDivBounds DEF Cells
<1>. DEFINE nh == Cells(bh, bw)[1]
            nw == Cells(bh, bw)[2]
<1>. HIDE DEF nh, nw
<1>2. nh \in Nat /\ nh <= h /\ nw \in Nat /\ nw <= w
  BY <1>1 DEF nh, nw
<1>3. GridTokens(nh, nw) <= h * (w + 1) + 4
  BY <1>2, GridBound
<1>4. GridTokens(nh, nw) \in Nat
  BY <1>2, BlockLengths
<1>. QED BY <1>3, <1>4 DEF TokensOf, nh, nw

\* A quotient that is rounded down, and one that is rounded up, less one.
LEMMA QuotientBounds ==
  ASSUME NEW a \in Int, NEW b \in Nat \ {0}, NEW n \in Nat
  PROVE  (n <= a \div b => n * b <= a) /\ ((a - 1) \div b < n => a <= n * b)
<1>. DEFINE p == a \div b
            q == (a - 1) \div b
<1>1. /\ p \in Int /\ a = b * p + (a % b) /\ a % b \in 0 .. b - 1
      /\ q \in Int /\ a - 1 = b * q + ((a - 1) % b) /\ (a - 1) % b \in 0 .. b - 1
  BY DivMod
<1>. HIDE DEF p, q
<1>2. ASSUME n <= p PROVE n * b <= a
  <2>1. n * b <= b * p
    BY <1>1, <1>2
  <2>. QED BY <2>1, <1>1
<1>3. ASSUME q < n PROVE a <= n * b
  <2>1. b * (q + 1) <= n * b
    BY <1>1, <1>3
  <2>. QED BY <2>1, <1>1
<1>. QED BY <1>2, <1>3 DEF p, q

\* What the square roots of solve_resize_ratio say, without division.
LEMMA MaxWBounds ==
  ASSUME NEW H \in Nat \ {0}, NEW W \in Nat \ {0}, NEW m \in Nat, NEW w \in MaxW(H, W, m)
  PROVE  /\ w \in Nat \ {0}
         /\ (w * (w + 1)) * H <= (m - 2) * W
         /\ (m - 2) * W <= ((w + 1) * (w + 2)) * H
<1>1. /\ w \in Nat \ {0} /\ w * (w + 1) <= ((m - 2) * W) \div H
      /\ ((m - 2) * W - 1) \div H < (w + 1) * (w + 2)
  BY DEF MaxW
<1>2. (m - 2) * W \in Int /\ w * (w + 1) \in Nat /\ (w + 1) * (w + 2) \in Nat
  BY <1>1
<1>. QED BY <1>1, <1>2, QuotientBounds

\* The most rows that fit.
LEMMA MaxHBounds ==
  ASSUME NEW H \in Nat \ {0}, NEW W \in Nat \ {0}, NEW m \in Nat, NEW top \in MaxH(H, W, m)
  PROVE  /\ top \in Nat /\ top >= 2
         /\ (top * top) * W <= (m - 2 - top) * H
         /\ (m - 3 - top) * H <= ((top + 1) * (top + 1)) * W
<1>1. /\ top \in Nat /\ top >= 2 /\ top * top <= ((m - 2 - top) * H) \div W
      /\ ((m - 3 - top) * H - 1) \div W < (top + 1) * (top + 1)
  BY DEF MaxH
<1>2. /\ (m - 2 - top) * H \in Int /\ (m - 3 - top) * H \in Int
      /\ top * top \in Nat /\ (top + 1) * (top + 1) \in Nat
  BY <1>1
<1>. QED BY <1>1, <1>2, QuotientBounds

-----------------------------------------------------------------------------
(* Products: why the rounded sizes still have rows and columns, and why they fit. *)

\* An image that is neither too tall nor too flat keeps both sides: the products behind it.
LEMMA WidthKeepsHeight ==
  ASSUME NEW H \in Nat \ {0}, NEW W \in Nat \ {0}, NEW m \in Nat, m >= 6,
         NEW D \in Nat, D >= 2, NEW w \in Nat \ {0},
         4 * W + 2 * H <= (m - 2) * H, (m - 2) * W <= ((w + 1) * (w + 2)) * H
  PROVE  (w * D) * H > W
<1>1. SUFFICES ASSUME W >= (w * D) * H PROVE FALSE
  BY (w * D) * H \in Int
<1>2. W >= (2 * w) * H
  <2>1. (w * D) >= 2 * w /\ w * D \in Nat
    OBVIOUS
  <2>2. (w * D) * H >= (2 * w) * H
    BY <2>1
  <2>. QED BY <1>1, <2>2, <2>1
<1>3. m - 2 >= 8 * w + 2
  <2>1. SUFFICES ASSUME m - 2 <= 8 * w + 1 PROVE FALSE
    OBVIOUS
  <2>2. (m - 2) * H <= (8 * w + 1) * H
    BY <2>1
  <2>3. 4 * ((2 * w) * H) + 2 * H = (8 * w + 1) * H + H /\ (8 * w + 1) * H \in Nat /\ (2 * w) * H \in Nat
    OBVIOUS
  <2>. QED BY <1>2, <2>2, <2>3
<1>4. (m - 2) * W >= (8 * w + 2) * W
  BY <1>3
<1>5. (8 * w + 2) * W >= (8 * w + 2) * ((2 * w) * H)
  BY <1>2
<1>. DEFINE k == w * w
<1>6. k >= w /\ k \in Nat
  OBVIOUS
<1>7. (8 * w + 2) * ((2 * w) * H) = (16 * k + 4 * w) * H
  OBVIOUS
<1>8. (w + 1) * (w + 2) = k + 3 * w + 2
  OBVIOUS
<1>. HIDE DEF k
<1>9. (k + 3 * w + 2) * H < (16 * k + 4 * w) * H
  BY <1>6
<1>10. (m - 2) * W \in Int /\ (8 * w + 2) * W \in Int /\ (16 * k + 4 * w) * H \in Int /\ (k + 3 * w + 2) * H \in Int
  BY <1>6
<1>. QED BY <1>4, <1>5, <1>7, <1>8, <1>9, <1>10

\* And where the height does, a patch of width is left.
LEMMA HeightKeepsWidth ==
  ASSUME NEW H \in Nat \ {0}, NEW W \in Nat \ {0}, NEW m \in Nat, m >= 6,
         NEW D \in Nat, D >= 3, NEW h \in Nat, h >= 2, NEW top \in Nat, top <= h + 1,
         2 * H <= (m - 2) * W, (m - 3 - top) * H <= ((top + 1) * (top + 1)) * W
  PROVE  (h * D) * W > H
<1>1. SUFFICES ASSUME H >= (h * D) * W PROVE FALSE
  BY (h * D) * W \in Int
<1>2. H >= (3 * h) * W
  <2>1. (h * D) >= 3 * h /\ h * D \in Nat
    OBVIOUS
  <2>2. (h * D) * W >= (3 * h) * W
    BY <2>1
  <2>. QED BY <1>1, <2>2, <2>1
<1>3. m - 2 >= 4 * h
  <2>1. SUFFICES ASSUME m - 2 <= 4 * h - 1 PROVE FALSE
    OBVIOUS
  <2>2. (m - 2) * W <= (4 * h - 1) * W
    BY <2>1
  <2>3. 2 * ((3 * h) * W) >= (4 * h - 1) * W + W /\ (4 * h - 1) * W \in Nat /\ (3 * h) * W \in Nat
    OBVIOUS
  <2>. QED BY <1>2, <2>2, <2>3
<1>4. (m - 3 - top) * H >= (3 * h - 2) * H
  BY <1>3
<1>5. (3 * h - 2) * H >= (3 * h - 2) * ((3 * h) * W)
  BY <1>2
<1>6. ((top + 1) * (top + 1)) * W <= ((h + 2) * (h + 2)) * W
  <2>1. (top + 1) * (top + 1) <= (h + 2) * (h + 2)
    OBVIOUS
  <2>2. (top + 1) * (top + 1) \in Nat /\ (h + 2) * (h + 2) \in Nat
    OBVIOUS
  <2>. QED BY <2>1, <2>2
<1>. DEFINE k == h * h
<1>7. k >= 2 * h /\ k \in Nat
  OBVIOUS
<1>8. (3 * h - 2) * ((3 * h) * W) = (9 * k - 6 * h) * W
  OBVIOUS
<1>9. (h + 2) * (h + 2) = k + 4 * h + 4
  OBVIOUS
<1>. HIDE DEF k
<1>10. (k + 4 * h + 4) * W < (9 * k - 6 * h) * W
  <2>1. k + 4 * h + 4 < 9 * k - 6 * h
    BY <1>7
  <2>. QED BY <2>1, <1>7
<1>11. /\ (m - 3 - top) * H \in Int /\ (3 * h - 2) * H \in Int /\ (9 * k - 6 * h) * W \in Int
       /\ (k + 4 * h + 4) * W \in Int /\ ((top + 1) * (top + 1)) * W \in Int
  BY <1>7
<1>. QED BY <1>4, <1>5, <1>6, <1>8, <1>9, <1>10, <1>11

\* Less than the width and the height together allow.
LEMMA WidthFits ==
  ASSUME NEW H \in Nat \ {0}, NEW W \in Nat \ {0}, NEW m \in Nat, NEW w \in Nat \ {0}, NEW h \in Nat,
         NEW top \in Nat, h <= top, (top * top) * W <= (m - 2 - top) * H, w * H <= h * W
  PROVE  h * (w + 1) <= m - 2
<1>1. (h * h) * W <= (m - 2 - h) * H
  <2>1. (h * h) <= top * top /\ h * h \in Nat /\ top * top \in Nat
    OBVIOUS
  <2>2. (h * h) * W <= (top * top) * W /\ (h * h) * W \in Nat /\ (top * top) * W \in Nat
    BY <2>1
  <2>3. (m - 2 - top) * H <= (m - 2 - h) * H /\ (m - 2 - top) * H \in Int /\ (m - 2 - h) * H \in Int
    OBVIOUS
  <2>. QED BY <2>2, <2>3
<1>2. (h * w) * H <= (h * h) * W
  <2>1. h * (w * H) <= h * (h * W)
    OBVIOUS
  <2>. QED BY <2>1
<1>3. (h * w) * H <= (m - 2 - h) * H
  <2>1. (h * w) * H \in Int /\ (h * h) * W \in Int /\ (m - 2 - h) * H \in Int
    OBVIOUS
  <2>. QED BY <1>1, <1>2, <2>1
<1>. DEFINE p == h * w
<1>4. p \in Nat /\ h * (w + 1) = p + h
  OBVIOUS
<1>5. p * H <= (m - 2 - h) * H
  BY <1>3
<1>. HIDE DEF p
<1>6. p <= m - 2 - h
  BY <1>4, <1>5
<1>. QED BY <1>4, <1>6

\* And where the height does, the width is at most what it allows.
LEMMA HeightFits ==
  ASSUME NEW H \in Nat \ {0}, NEW W \in Nat \ {0}, NEW m \in Nat, NEW w \in Nat \ {0}, NEW h \in Nat,
         (w * (w + 1)) * H <= (m - 2) * W, h * W < w * H
  PROVE  h * (w + 1) <= m - 2
<1>1. (h * (w + 1)) * W <= (w * (w + 1)) * H
  <2>1. (w + 1) * (h * W) <= (w + 1) * (w * H)
    OBVIOUS
  <2>. QED BY <2>1
<1>. DEFINE p == h * (w + 1)
<1>2. p * W <= (m - 2) * W
  <2>1. p * W \in Int /\ (w * (w + 1)) * H \in Int /\ (m - 2) * W \in Int
    OBVIOUS
  <2>. QED BY <1>1, <2>1
<1>3. p \in Nat
  OBVIOUS
<1>. HIDE DEF p
<1>4. p <= m - 2
  BY <1>2, <1>3
<1>. QED BY <1>4 DEF p

-----------------------------------------------------------------------------
(* solve_resize_ratio returns a size that has at most two tokens more than it was asked for. *)

\* An image has at least one pixel on a side also as numbers that floor is applied to.
LEMMA FloorOfWhole ==
  ASSUME NEW a \in Nat, a >= 2, NEW f \in Floors(a, 1)
  PROVE  f \in Nat \ {0} /\ f <= a
<1>1. 1 * f <= a /\ f \in Nat \ {0}
  BY FloorsBounds
<1>. QED BY <1>1

\* What solve_resize_ratio returns for an image neither too tall nor too flat.
LEMMA MiddleFits ==
  ASSUME NEW H \in Nat \ {0}, NEW W \in Nat \ {0}, NEW m \in Nat, m >= 6,
         Downsample \in Nat, Downsample >= 3, ~TooTall(H, W, m), ~TooFlat(H, W, m),
         NEW w \in MaxW(H, W, m), NEW top \in MaxH(H, W, m),
         NEW c \in IF w * H <= Even(top) * W
                   THEN Floors(w * Downsample * H, W) \X Floors(w * Downsample, 1)
                   ELSE Floors(Even(top) * Downsample, 1) \X Floors(Even(top) * Downsample * W, H)
  PROVE  c[1] \in Nat \ {0} /\ c[2] \in Nat \ {0} /\ TokensOf(c[1], c[2]) <= m + 2
<1>. DEFINE D == Downsample
            h == Even(top)
<1>0. Downsample \in Nat \ {0}
  OBVIOUS
<1>1. /\ w \in Nat \ {0}
      /\ (w * (w + 1)) * H <= (m - 2) * W
      /\ (m - 2) * W <= ((w + 1) * (w + 2)) * H
  BY MaxWBounds
<1>2. /\ top \in Nat /\ top >= 2
      /\ (top * top) * W <= (m - 2 - top) * H
      /\ (m - 3 - top) * H <= ((top + 1) * (top + 1)) * W
  BY MaxHBounds
<1>3. h \in Nat /\ h <= top /\ top <= h + 1 /\ h % 2 = 0
  BY <1>2, EvenBounds
<1>4. h >= 2
  BY <1>2, <1>3
<1>5. D \in Nat /\ D >= 3 /\ w * D \in Nat /\ w * D >= 2 /\ h * D \in Nat /\ h * D >= 2
  <2>1. w * D >= D /\ h * D >= 2 * D
    BY <1>1, <1>4, <1>3
  <2>. QED BY <2>1, <1>1, <1>3
<1>6. 4 * W + 2 * H <= (m - 2) * H /\ 2 * H <= (m - 2) * W
  BY DEF TooTall, TooFlat
<1>. HIDE DEF h, D
<1>7. CASE w * H <= h * W
  <2>1. c[1] \in Floors(w * D * H, W) /\ c[2] \in Floors(w * D, 1)
    BY <1>7 DEF h, D
  <2>2. w * D * H > W /\ w * D * H \in Nat
    BY <1>1, <1>5, <1>6, WidthKeepsHeight
  <2>3. c[1] \in Nat \ {0} /\ W * c[1] <= w * D * H
    BY <2>1, <2>2, FloorsBounds
  <2>4. c[2] \in Nat \ {0} /\ c[2] <= w * D
    BY <2>1, <1>5, FloorOfWhole
  <2>5. w * D * H <= (D * h) * W
    <3>1. D * (w * H) <= D * (h * W)
      BY <1>1, <1>3, <1>5, <1>7
    <3>. QED BY <3>1, <1>1, <1>3, <1>5
  <2>6. c[1] <= D * h
    <3>. DEFINE k == D * h
    <3>1. k \in Nat /\ W * c[1] <= k * W
      BY <2>2, <2>3, <2>5, <1>3, <1>5, W * c[1] \in Int, k * W \in Int
    <3>. HIDE DEF k
    <3>2. c[1] <= k
      BY <3>1, <2>3
    <3>. QED BY <3>2 DEF k
  <2>7. h * (w + 1) <= m - 2
    BY <1>1, <1>2, <1>3, <1>7, WidthFits
  <2>8. c[1] <= Downsample * h /\ c[2] <= Downsample * w
    BY <2>3, <2>4, <2>6, <1>1, <1>3, <1>5 DEF D
  <2>9. TokensOf(c[1], c[2]) \in Nat /\ TokensOf(c[1], c[2]) <= h * (w + 1) + 4
    BY <2>3, <2>4, <2>8, <1>0, <1>1, <1>3, TokensBound
  <2>10. h * (w + 1) \in Nat
    BY <1>1, <1>3
  <2>. QED BY <2>3, <2>4, <2>7, <2>9, <2>10
<1>8. CASE h * W < w * H
  <2>1. c[1] \in Floors(h * D, 1) /\ c[2] \in Floors(h * D * W, H)
    <3>1. ~(w * H <= h * W)
      BY <1>8, <1>1, <1>3, w * H \in Int, h * W \in Int
    <3>. QED BY <3>1 DEF h, D
  <2>2. h * D * W > H /\ h * D * W \in Nat
    BY <1>2, <1>3, <1>4, <1>5, <1>6, HeightKeepsWidth
  <2>3. c[2] \in Nat \ {0} /\ H * c[2] <= h * D * W
    BY <2>1, <2>2, FloorsBounds
  <2>4. c[1] \in Nat \ {0} /\ c[1] <= h * D
    BY <2>1, <1>5, FloorOfWhole
  <2>5. h * D * W <= (D * w) * H
    <3>1. D * (h * W) <= D * (w * H)
      BY <1>1, <1>3, <1>5, <1>8
    <3>. QED BY <3>1, <1>1, <1>3, <1>5
  <2>6. c[2] <= D * w
    <3>. DEFINE k == D * w
    <3>1. k \in Nat /\ H * c[2] <= k * H
      BY <2>2, <2>3, <2>5, <1>1, <1>5, H * c[2] \in Int, k * H \in Int
    <3>. HIDE DEF k
    <3>2. c[2] <= k
      BY <3>1, <2>3
    <3>. QED BY <3>2 DEF k
  <2>7. h * (w + 1) <= m - 2
    BY <1>1, <1>3, <1>8, HeightFits
  <2>8. c[1] <= Downsample * h /\ c[2] <= Downsample * w
    BY <2>3, <2>4, <2>6, <1>1, <1>3, <1>5 DEF D
  <2>9. TokensOf(c[1], c[2]) \in Nat /\ TokensOf(c[1], c[2]) <= h * (w + 1) + 4
    BY <2>3, <2>4, <2>8, <1>0, <1>1, <1>3, TokensBound
  <2>10. h * (w + 1) \in Nat
    BY <1>1, <1>3
  <2>. QED BY <2>3, <2>4, <2>7, <2>9, <2>10
<1>9. w * H \in Int /\ h * W \in Int
  BY <1>1, <1>3
<1>. QED BY <1>7, <1>8, <1>9

\* What solve_resize_ratio returns has rows and columns, and at most two tokens more
\* than it was asked for.
LEMMA ResizeFits ==
  ASSUME NEW H \in Nat \ {0}, NEW W \in Nat \ {0}, NEW m \in Nat, m >= 6,
         Downsample \in Nat, Downsample >= 3, NEW c \in SolveResizeRatio(H, W, m)
  PROVE  c[1] \in Nat \ {0} /\ c[2] \in Nat \ {0} /\ TokensOf(c[1], c[2]) <= m + 2
<1>. DEFINE D == Downsample
            q == (m - 2) \div 2
<1>0. q \in Nat /\ q >= 2 /\ 2 * q <= m - 2 /\ D \in Nat \ {0}
  OBVIOUS
<1>1. CASE TooTall(H, W, m)
  <2>. DEFINE e == Even(q)
  <2>1. c = <<e * D, D>>
    BY <1>1 DEF SolveResizeRatio, Tallest
  <2>2. e \in Nat /\ e <= q /\ q <= e + 1 /\ e % 2 = 0
    BY <1>0, EvenBounds
  <2>. HIDE DEF e, q
  <2>3. e >= 2
    BY <1>0, <2>2
  <2>4. e * D \in Nat /\ e * D = D * e /\ e * D # 0 /\ D = D * 1
    BY <2>2, <2>3
  <2>5. e * D \in Nat \ {0} /\ e * D <= D * e /\ D <= D * 1
    BY <2>4
  <2>6. TokensOf(e * D, D) \in Nat /\ TokensOf(e * D, D) <= e * (1 + 1) + 4
    BY <1>0, <2>2, <2>5, TokensBound
  <2>. QED BY <2>1, <2>2, <2>5, <2>6, <1>0
<1>2. CASE c \in Flattest(m)
  <2>. DEFINE x == q - 1
  <2>1. c = <<2 * D, x * D>> /\ x \notin {-1, 0, 1}
    BY <1>2 DEF Flattest
  <2>2. x \in Nat /\ x >= 2 /\ 2 * x <= m - 4
    BY <2>1, <1>0
  <2>. HIDE DEF x, q
  <2>3. 2 * D \in Nat \ {0} /\ x * D \in Nat /\ x * D # 0 /\ x * D = D * x /\ 2 * D = D * 2
    BY <2>2
  <2>4. 2 * D <= D * 2 /\ x * D <= D * x /\ x * D \in Nat \ {0} /\ 2 % 2 = 0
    BY <2>3
  <2>5. TokensOf(2 * D, x * D) \in Nat /\ TokensOf(2 * D, x * D) <= 2 * (x + 1) + 4
    BY <1>0, <2>2, <2>3, <2>4, TokensBound
  <2>. QED BY <1>0, <2>1, <2>2, <2>3, <2>4, <2>5
<1>3. CASE ~TooTall(H, W, m) /\ ~TooFlat(H, W, m) /\ c \in Between(H, W, m)
  <2>1. PICK w \in MaxW(H, W, m), top \in MaxH(H, W, m) :
          c \in IF w * H <= Even(top) * W
                THEN Floors(w * Downsample * H, W) \X Floors(w * Downsample, 1)
                ELSE Floors(Even(top) * Downsample, 1) \X Floors(Even(top) * Downsample * W, H)
    <3>1. c \in UNION {LET h == Even(top) IN
              IF w * H <= h * W
              THEN Floors(w * Downsample * H, W) \X Floors(w * Downsample, 1)
              ELSE Floors(h * Downsample, 1) \X Floors(h * Downsample * W, H) :
                w \in MaxW(H, W, m), top \in MaxH(H, W, m)}
      BY <1>3 DEF Between
    <3>. QED BY <3>1
  <2>. QED BY <1>3, <2>1, MiddleFits
<1>. QED BY <1>1, <1>2, <1>3 DEF SolveResizeRatio

\* load_image scales an image to one of at least a pixel on each side.
LEMMA ScaledIsPositive ==
  ASSUME NEW H \in Nat \ {0}, NEW W \in Nat \ {0}, NEW ratio \in Nat \ {0}, MinPixels \in Nat,
         NEW s \in Scaled(H, W, ratio)
  PROVE  s[1] \in Nat \ {0} /\ s[2] \in Nat \ {0}
<1>1. PICK w \in Nat \ {0} : s \in IF w * H < MinPixels THEN Sides(H, w) \X Sides(w, H) ELSE {<<H, w>>}
  <2>. DEFINE w == IF W > H * ratio THEN H * ratio ELSE W
  <2>1. w \in Nat \ {0}
    BY H * ratio \in Nat \ {0}
  <2>2. s \in IF w * H < MinPixels THEN Sides(H, w) \X Sides(w, H) ELSE {<<H, w>>}
    BY DEF Scaled
  <2>. HIDE DEF w
  <2>. QED BY <2>1, <2>2
<1>2. ASSUME NEW n \in Nat \ {0}, NEW x \in Roots(n) PROVE x \in Nat \ {0}
  <2>1. x \in Nat /\ n < (x + 1) * (x + 1)
    BY DEF Roots
  <2>. QED BY <2>1
<1>3. ASSUME NEW a \in Nat \ {0}, NEW b \in Nat \ {0}, a * b < MinPixels, NEW x \in Sides(a, b)
      PROVE  x \in Nat \ {0}
  <2>. DEFINE q == (a * MinPixels) \div b
  <2>1. q \in Nat \ {0}
    <3>1. a * MinPixels >= MinPixels /\ a * b >= b /\ a * MinPixels \in Nat /\ a * b \in Nat
      OBVIOUS
    <3>2. a * MinPixels >= b
      BY <3>1, <1>3
    <3>3. q \in Nat /\ a * MinPixels < b * q + b
      BY <3>1, DivNat
    <3>. HIDE DEF q
    <3>4. q # 0
      BY <3>2, <3>3
    <3>. QED BY <3>3, <3>4
  <2>2. x \in Roots(q) \/ (x > 0 /\ \E r \in Roots(q) : x = r - 1)
    BY DEF Sides
  <2>. HIDE DEF q
  <2>. QED BY <2>1, <2>2, <1>2
<1>4. w * H = H * w /\ H * w \in Nat
  OBVIOUS
<1>5. CASE w * H < MinPixels
  <2>1. s[1] \in Sides(H, w) /\ s[2] \in Sides(w, H)
    BY <1>1, <1>5
  <2>. QED BY <2>1, <1>3, <1>4, <1>5
<1>6. CASE ~(w * H < MinPixels)
  <2>1. s = <<H, w>>
    BY <1>1, <1>6
  <2>. QED BY <2>1
<1>. QED BY <1>5, <1>6

-----------------------------------------------------------------------------
(* Induction to a bound, and the place of a slot in the body of a block.   *)

\* A set of numbers that is not empty has a smallest member.
LEMMA SmallestOfSet ==
  ASSUME NEW S \in SUBSET Nat, S # {}
  PROVE  \E m \in S : \A n \in S : m <= n
<1>1. PICK m \in S : \A n \in S : ~(<<n, m>> \in OpToRel(<, Nat))
  BY WFMin, NatLessThanWellFounded, Zenon
<1>2. \A n \in S : ~(n < m)
  BY <1>1, Zenon DEF OpToRel
<1>. QED
  BY <1>2

\* Induction over the numbers up to a bound, of a set instead of a predicate.
LEMMA InductionTo ==
  ASSUME NEW L \in Nat, NEW S, 0 \in S, \A n \in 0 .. (L - 1) : n \in S => n + 1 \in S
  PROVE  0 .. L \subseteq S
<1>. SUFFICES ASSUME (0 .. L) \ S # {} PROVE FALSE
  OBVIOUS
<1>1. (0 .. L) \ S \in SUBSET Nat
  OBVIOUS
<1>2. PICK m \in (0 .. L) \ S : \A n \in (0 .. L) \ S : m <= n
  BY <1>1, SmallestOfSet
<1>3. m # 0 /\ m - 1 \in 0 .. (L - 1)
  BY <1>2
<1>4. m - 1 \in S
  BY <1>2, <1>3
<1>. QED
  BY <1>2, <1>3, <1>4

\* The place of a slot in the body.
Place(a, b, nw) == 1 + (2 * (nw + 1)) * (a \div 2) + (2 * b + (a % 2))

\* Rows in pairs.
LEMMA HalfOf ==
  ASSUME NEW a \in Nat
  PROVE  /\ a \div 2 \in Nat /\ a % 2 \in {0, 1} /\ a = 2 * (a \div 2) + (a % 2)
  OBVIOUS

\* Which row of which pair.
LEMMA HalfUnique ==
  ASSUME NEW p \in Nat, NEW e \in {0, 1}
  PROVE  (2 * p + e) \div 2 = p /\ (2 * p + e) % 2 = e
  OBVIOUS

\* Every place of the body is that of its slot.
LEMMA SlotOfPlace ==
  ASSUME NEW nh \in Nat, NEW nw \in Nat, NEW k \in 1 .. BodyLen(nh, nw)
  PROVE  \E a \in 0 .. Rows(nh) - 1, b \in 0 .. nw : Slot(k, nw) = <<a, b>> /\ k = Place(a, b, nw)
<1>. DEFINE L == 2 * (nw + 1)
            p == (k - 1) \div L
            t == (k - 1) % L
            a == 2 * p + (t % 2)
            b == t \div 2
<1>1. Slot(k, nw) = <<a, b>>
  BY DEF Slot
<1>2. PICK r \in Nat : Rows(nh) = 2 * r
  BY RowsArePairs
<1>3. BodyLen(nh, nw) = r * L /\ L \in Nat \ {0} /\ k \in Nat /\ k - 1 \in Nat /\ k <= r * L
  BY <1>2 DEF BodyLen
<1>4. p \in Nat /\ t \in 0 .. L - 1 /\ k - 1 = L * p + t
  <2>. HIDE DEF L
  <2>1. (k - 1) \div L \in Nat
    BY <1>3, DivNat
  <2>2. (k - 1) % L \in 0 .. L - 1 /\ k - 1 = L * ((k - 1) \div L) + ((k - 1) % L)
    BY <1>3, DivMod
  <2>. QED BY <2>1, <2>2
<1>5. p < r
  <2>. HIDE DEF p, t, L
  <2>1. SUFFICES ASSUME p >= r PROVE FALSE
    BY <1>2, <1>4
  <2>2. L * p >= L * r
    BY <2>1, <1>2, <1>3, <1>4
  <2>3. L * p \in Nat /\ L * r \in Nat /\ r * L = L * r
    BY <1>2, <1>3, <1>4
  <2>. QED BY <2>2, <2>3, <1>3, <1>4
<1>. HIDE DEF p
<1>6. t \in Nat /\ t % 2 \in {0, 1} /\ b \in Nat /\ t = 2 * b + (t % 2)
  BY <1>4, HalfOf
<1>7. a \in 0 .. Rows(nh) - 1 /\ a \div 2 = p /\ a % 2 = t % 2
  BY <1>2, <1>4, <1>5, <1>6, HalfUnique
<1>. HIDE DEF a
<1>8. b \in 0 .. nw
  <2>1. t <= 2 * nw + 1
    BY <1>4
  <2>. QED BY <1>6, <2>1
<1>9. k = Place(a, b, nw)
  <2>1. Place(a, b, nw) = 1 + L * p + t
    BY <1>6, <1>7 DEF Place
  <2>2. L * p \in Nat
    BY <1>3, <1>4
  <2>. QED BY <1>3, <1>4, <1>6, <2>1, <2>2
<1>. QED BY <1>1, <1>7, <1>8, <1>9

\* And every slot has a place in the body.
LEMMA PlaceOfSlot ==
  ASSUME NEW nh \in Nat, NEW nw \in Nat, NEW a \in 0 .. Rows(nh) - 1, NEW b \in 0 .. nw
  PROVE  Place(a, b, nw) \in 1 .. BodyLen(nh, nw) /\ Slot(Place(a, b, nw), nw) = <<a, b>>
<1>. DEFINE L == 2 * (nw + 1)
            q == a \div 2
            e == a % 2
            t == 2 * b + e
            k == Place(a, b, nw)
<1>1. q \in Nat /\ e \in {0, 1} /\ a = 2 * q + e /\ a \in Nat
  BY HalfOf, RowsArePairs
<1>. HIDE DEF q, e
<1>2. PICK r \in Nat : Rows(nh) = 2 * r
  BY RowsArePairs
<1>3. BodyLen(nh, nw) = r * L /\ L \in Nat \ {0} /\ t \in 0 .. L - 1
  BY <1>1, <1>2 DEF BodyLen
<1>4. k = 1 + L * q + t /\ L * q \in Nat
  BY <1>1 DEF Place, q, e
<1>5. q + 1 <= r
  BY <1>1, <1>2
<1>6. L * q + t < r * L
  <2>. HIDE DEF L, t
  <2>1. L * (q + 1) <= L * r /\ L * (q + 1) = L * q + L /\ L * r = r * L
    BY <1>1, <1>2, <1>3, <1>5
  <2>. QED BY <2>1, <1>1, <1>2, <1>3, <1>4
<1>7. k \in 1 .. BodyLen(nh, nw)
  BY <1>2, <1>3, <1>4, <1>6, r * L \in Nat
<1>8. k - 1 = L * q + t
  BY <1>4, <1>3
<1>. HIDE DEF k
<1>9. (k - 1) \div L = q /\ (k - 1) % L = t
  <2>. HIDE DEF L, t
  <2>1. (L * q + t) \div L = q /\ (L * q + t) % L = t
    <3>1. q \in Int /\ L \in Nat \ {0} /\ t \in 0 .. L - 1
      BY <1>1, <1>3
    <3>. QED BY <3>1, DivUnique, Zenon
  <2>. QED BY <2>1, <1>8
<1>10. t % 2 = e /\ t \div 2 = b
  BY <1>1, HalfUnique
<1>11. Slot(k, nw) = <<2 * q + e, b>>
  BY <1>9, <1>10 DEF Slot
<1>. QED BY <1>1, <1>7, <1>11 DEF k

-----------------------------------------------------------------------------
(* The recursion of Perm.                                                  *)

\* The slots of the image, and the rows behind the first k of the body.
ImageSlot(k, nh, nw) == BodyType(k, nh, nw) = "image"
RowAt(k, nw) == AlignerRow(Slot(k, nw), nw)
IsRows(f, n, nh, nw) ==
  f = [k \in 0 .. n |-> IF k = 0 THEN <<>>
                        ELSE IF ImageSlot(k, nh, nw) THEN Append(f[k - 1], RowAt(k, nw)) ELSE f[k - 1]]

\* The recursion of Perm has a solution, for any length.
LEMMA RowsAreDefined ==
  ASSUME NEW n \in Nat, NEW nh, NEW nw
  PROVE  \E f : IsRows(f, n, nh, nw)
<1>. DEFINE S == {m \in 0 .. n : \E f : IsRows(f, m, nh, nw)}
<1>1. 0 \in S
  <2>. DEFINE f == [k \in 0 .. 0 |-> <<>>]
  <2>1. IsRows(f, 0, nh, nw)
    BY DEF IsRows
  <2>. QED BY <2>1
<1>2. ASSUME NEW m \in 0 .. (n - 1), m \in S PROVE m + 1 \in S
  <2>1. PICK f : IsRows(f, m, nh, nw)
    BY <1>2
  <2>. DEFINE row == IF ImageSlot(m + 1, nh, nw) THEN Append(f[m], RowAt(m + 1, nw)) ELSE f[m]
              g == [k \in 0 .. m + 1 |-> IF k = m + 1 THEN row ELSE f[k]]
  <2>2. m + 1 \in 0 .. n
    OBVIOUS
  <2>3. f = [k \in 0 .. m |-> IF k = 0 THEN <<>>
              ELSE IF ImageSlot(k, nh, nw) THEN Append(f[k - 1], RowAt(k, nw)) ELSE f[k - 1]]
    BY <2>1 DEF IsRows
  <2>4. \A k \in 0 .. m : g[k] = f[k]
    OBVIOUS
  <2>5. g[m + 1] = row
    BY <2>2
  <2>6. g[0] = <<>>
    BY <2>3, <2>4
  <2>7. ASSUME NEW k \in 1 .. m + 1
        PROVE  g[k] = IF ImageSlot(k, nh, nw) THEN Append(g[k - 1], RowAt(k, nw)) ELSE g[k - 1]
    <3>1. CASE k = m + 1
      <4>1. g[k - 1] = f[m]
        BY <3>1, <2>4
      <4>. QED BY <3>1, <4>1, <2>5
    <3>2. CASE k # m + 1
      <4>1. k \in 0 .. m /\ k - 1 \in 0 .. m /\ k # 0
        BY <3>2
      <4>2. f[k] = IF ImageSlot(k, nh, nw) THEN Append(f[k - 1], RowAt(k, nw)) ELSE f[k - 1]
        BY <2>3, <4>1, Zenon
      <4>. HIDE DEF g
      <4>. QED BY <4>1, <4>2, <2>4
    <3>. QED BY <3>1, <3>2
  <2>8. IsRows(g, m + 1, nh, nw)
    <3>1. ASSUME NEW k \in 0 .. m + 1
          PROVE  g[k] = IF k = 0 THEN <<>> ELSE IF ImageSlot(k, nh, nw) THEN Append(g[k - 1], RowAt(k, nw)) ELSE g[k - 1]
      <4>1. CASE k = 0
        BY <4>1, <2>6
      <4>2. CASE k # 0
        <5>1. k \in 1 .. m + 1
          BY <4>2
        <5>. HIDE DEF g
        <5>. QED BY <5>1, <4>2, <2>7
      <4>. QED BY <4>1, <4>2
    <3>2. g = [k \in 0 .. m + 1 |-> g[k]]
      OBVIOUS
    <3>. HIDE DEF g
    <3>. QED BY <3>1, <3>2 DEF IsRows
  <2>. QED BY <2>2, <2>8
<1>. HIDE DEF S
<1>3. 0 .. n \subseteq S
  BY <1>1, <1>2, InductionTo
<1>. QED BY <1>3 DEF S

\* Perm is its value at the end of the body.
LEMMA PermIsRows ==
  ASSUME NEW nh \in Nat, NEW nw \in Nat
  PROVE  \E f : IsRows(f, BodyLen(nh, nw), nh, nw) /\ Perm(nh, nw) = f[BodyLen(nh, nw)]
<1>. DEFINE n == BodyLen(nh, nw)
            rows == CHOOSE f : IsRows(f, n, nh, nw)
<1>1. n \in Nat
  BY BlockLengths
<1>2. IsRows(rows, n, nh, nw)
  BY <1>1, RowsAreDefined
<1>3. Perm(nh, nw) = rows[n]
  BY DEF Perm, IsRows, ImageSlot, RowAt
<1>. QED BY <1>2, <1>3

-----------------------------------------------------------------------------
(* Perm has each row of the aligner once.                                  *)

\* A slot of the image is a row and a column of it, and the aligner's row tells which.
LEMMA ImageSlotIs ==
  ASSUME NEW nh \in Nat, NEW nw \in Nat, NEW k \in 1 .. BodyLen(nh, nw)
  PROVE  ImageSlot(k, nh, nw) =>
           \E a \in 0 .. nh - 1, b \in 0 .. nw - 1 : RowAt(k, nw) = nw * a + b /\ k = Place(a, b, nw)
<1>1. PICK a \in 0 .. Rows(nh) - 1, b \in 0 .. nw : Slot(k, nw) = <<a, b>> /\ k = Place(a, b, nw)
  BY SlotOfPlace
<1>2. a \in Nat /\ b \in Nat
  BY RowsArePairs
<1>3. RowAt(k, nw) = nw * a + b
  BY <1>1, <1>2 DEF RowAt, AlignerRow
<1>4. ImageSlot(k, nh, nw) => a < nh /\ b # nw
  BY <1>1, <1>2 DEF ImageSlot, BodyType
<1>. QED BY <1>1, <1>2, <1>3, <1>4

\* And every cell of the image has a slot.
LEMMA EveryCellHasSlot ==
  ASSUME NEW nh \in Nat, NEW nw \in Nat, NEW a \in 0 .. nh - 1, NEW b \in 0 .. nw - 1
  PROVE  \E k \in 1 .. BodyLen(nh, nw) : ImageSlot(k, nh, nw) /\ RowAt(k, nw) = nw * a + b
<1>1. a \in 0 .. Rows(nh) - 1 /\ b \in 0 .. nw
  BY DEF Rows
<1>. DEFINE k == Place(a, b, nw)
<1>2. k \in 1 .. BodyLen(nh, nw) /\ Slot(k, nw) = <<a, b>>
  BY <1>1, PlaceOfSlot
<1>. HIDE DEF k
<1>3. ImageSlot(k, nh, nw)
  BY <1>2 DEF ImageSlot, BodyType
<1>4. RowAt(k, nw) = nw * a + b
  BY <1>2 DEF RowAt, AlignerRow
<1>. QED BY <1>2, <1>3, <1>4

\* No two slots have the same row.
LEMMA RowAtInjective ==
  ASSUME NEW nh \in Nat, NEW nw \in Nat, NEW k \in 1 .. BodyLen(nh, nw), NEW l \in 1 .. BodyLen(nh, nw),
         ImageSlot(k, nh, nw), ImageSlot(l, nh, nw), RowAt(k, nw) = RowAt(l, nw)
  PROVE  k = l
<1>1. PICK a \in 0 .. nh - 1, b \in 0 .. nw - 1 : RowAt(k, nw) = nw * a + b /\ k = Place(a, b, nw)
  BY ImageSlotIs
<1>2. PICK c \in 0 .. nh - 1, d \in 0 .. nw - 1 : RowAt(l, nw) = nw * c + d /\ l = Place(c, d, nw)
  BY ImageSlotIs
<1>3. nw \in Nat \ {0} /\ a \in Int /\ c \in Int
  BY <1>1
<1>4. (nw * a + b) \div nw = a /\ (nw * a + b) % nw = b
  BY <1>1, <1>3, DivUnique, ZenonT(40)
<1>5. (nw * c + d) \div nw = c /\ (nw * c + d) % nw = d
  BY <1>2, <1>3, DivUnique, ZenonT(40)
<1>6. nw * a + b = nw * c + d
  BY <1>1, <1>2, Zenon
<1>7. a = c /\ b = d
  BY <1>4, <1>5, <1>6, Zenon
<1>. QED BY <1>1, <1>2, <1>7, Zenon

\* Every row is one of the aligner.
LEMMA RowAtRange ==
  ASSUME NEW nh \in Nat, NEW nw \in Nat, NEW k \in 1 .. BodyLen(nh, nw), ImageSlot(k, nh, nw)
  PROVE  RowAt(k, nw) \in 0 .. nh * nw - 1
<1>1. PICK a \in 0 .. nh - 1, b \in 0 .. nw - 1 : RowAt(k, nw) = nw * a + b
  BY ImageSlotIs
<1>2. nw * (a + 1) <= nw * nh /\ nw * (a + 1) = nw * a + nw /\ nw * nh = nh * nw
  BY <1>1
<1>3. nw * a \in Nat /\ nh * nw \in Nat
  BY <1>1
<1>. QED BY <1>1, <1>2, <1>3

\* The rows of the first m places: those of the image, each once.
RowsSoFar(s, m, nh, nw) ==
  /\ s \in Seq(0 .. nh * nw - 1)
  /\ \A j \in 1 .. Len(s) : \E k \in 1 .. m : ImageSlot(k, nh, nw) /\ s[j] = RowAt(k, nw)
  /\ \A k \in 1 .. m : ImageSlot(k, nh, nw) => \E j \in 1 .. Len(s) : s[j] = RowAt(k, nw)
  /\ \A i, j \in 1 .. Len(s) : s[i] = s[j] => i = j

\* One more place of the body.
LEMMA RowsSoFarStep ==
  ASSUME NEW nh \in Nat, NEW nw \in Nat, NEW m \in Nat, m + 1 \in 1 .. BodyLen(nh, nw),
         NEW s, RowsSoFar(s, m, nh, nw)
  PROVE  RowsSoFar(IF ImageSlot(m + 1, nh, nw) THEN Append(s, RowAt(m + 1, nw)) ELSE s, m + 1, nh, nw)
<1>0. BodyLen(nh, nw) \in Nat
  BY BlockLengths
<1>1. CASE ~ImageSlot(m + 1, nh, nw)
  <2>1. \A k \in 1 .. m + 1 : ImageSlot(k, nh, nw) => k \in 1 .. m
    BY <1>1
  <2>2. 1 .. m \subseteq 1 .. m + 1
    OBVIOUS
  <2>3. RowsSoFar(s, m + 1, nh, nw)
    BY <2>1, <2>2 DEF RowsSoFar
  <2>. QED BY <1>1, <2>3
<1>2. CASE ImageSlot(m + 1, nh, nw)
  <2>. DEFINE v == RowAt(m + 1, nw)
              t == Append(s, v)
  <2>1. v \in 0 .. nh * nw - 1
    BY <1>2, RowAtRange
  <2>2. \A j \in 1 .. Len(s) : s[j] # v
    <3>1. SUFFICES ASSUME NEW j \in 1 .. Len(s), s[j] = v PROVE FALSE
      OBVIOUS
    <3>2. PICK k \in 1 .. m : ImageSlot(k, nh, nw) /\ s[j] = RowAt(k, nw)
      BY DEF RowsSoFar
    <3>3. k \in 1 .. BodyLen(nh, nw)
      BY <1>0
    <3>4. k = m + 1
      BY <3>1, <3>2, <3>3, <1>2, RowAtInjective
    <3>. QED BY <3>4
  <2>3. s \in Seq(0 .. nh * nw - 1)
    BY DEF RowsSoFar
  <2>. HIDE DEF v
  <2>4. /\ t \in Seq(0 .. nh * nw - 1) /\ Len(t) = Len(s) + 1 /\ Len(s) \in Nat
        /\ \A j \in 1 .. Len(s) : t[j] = s[j]
        /\ t[Len(s) + 1] = v
    BY <2>1, <2>3
  <2>. HIDE DEF t
  <2>5. ASSUME NEW j \in 1 .. Len(t) PROVE \E k \in 1 .. m + 1 : ImageSlot(k, nh, nw) /\ t[j] = RowAt(k, nw)
    <3>1. CASE j = Len(s) + 1
      <4>1. m + 1 \in 1 .. m + 1
        OBVIOUS
      <4>. QED BY <3>1, <4>1, <2>4, <1>2 DEF v
    <3>2. CASE j # Len(s) + 1
      <4>0. j \in 1 .. Len(s)
        BY <3>2, <2>4
      <4>1. j \in 1 .. Len(s) /\ t[j] = s[j]
        BY <4>0, <2>4, Zenon
      <4>2. PICK k \in 1 .. m : ImageSlot(k, nh, nw) /\ s[j] = RowAt(k, nw)
        BY <4>1 DEF RowsSoFar
      <4>3. k \in 1 .. m + 1
        OBVIOUS
      <4>. QED BY <4>1, <4>2, <4>3
    <3>. QED BY <3>1, <3>2
  <2>6. ASSUME NEW k \in 1 .. m + 1, ImageSlot(k, nh, nw) PROVE \E j \in 1 .. Len(t) : t[j] = RowAt(k, nw)
    <3>1. CASE k = m + 1
      <4>1. Len(s) + 1 \in 1 .. Len(t)
        BY <2>4
      <4>. QED BY <3>1, <4>1, <2>4 DEF v
    <3>2. CASE k # m + 1
      <4>1. k \in 1 .. m
        BY <3>2
      <4>2. PICK j \in 1 .. Len(s) : s[j] = RowAt(k, nw)
        BY <4>1, <2>6 DEF RowsSoFar
      <4>3. j \in 1 .. Len(t) /\ t[j] = s[j]
        BY <2>4
      <4>. QED BY <4>2, <4>3
    <3>. QED BY <3>1, <3>2
  <2>7. ASSUME NEW i \in 1 .. Len(t), NEW j \in 1 .. Len(t), t[i] = t[j] PROVE i = j
    <3>1. CASE i \in 1 .. Len(s) /\ j \in 1 .. Len(s)
      BY <3>1, <2>7, <2>4 DEF RowsSoFar
    <3>2. CASE i = Len(s) + 1 /\ j = Len(s) + 1
      BY <3>2
    <3>3. CASE i = Len(s) + 1 /\ j \in 1 .. Len(s)
      BY <3>3, <2>7, <2>4, <2>2
    <3>4. CASE i \in 1 .. Len(s) /\ j = Len(s) + 1
      BY <3>4, <2>7, <2>4, <2>2
    <3>5. \A l \in 1 .. Len(t) : l \in 1 .. Len(s) \/ l = Len(s) + 1
      BY <2>4
    <3>. QED BY <3>1, <3>2, <3>3, <3>4, <3>5
  <2>8. RowsSoFar(t, m + 1, nh, nw)
    BY <2>4, <2>5, <2>6, <2>7 DEF RowsSoFar
  <2>. QED BY <1>2, <2>8 DEF t, v
<1>. QED BY <1>1, <1>2

\* What Perm has collected at the end of the body.
LEMMA PermRows ==
  ASSUME NEW nh \in Nat, NEW nw \in Nat
  PROVE  RowsSoFar(Perm(nh, nw), BodyLen(nh, nw), nh, nw)
<1>. DEFINE n == BodyLen(nh, nw)
<1>1. PICK f : IsRows(f, n, nh, nw) /\ Perm(nh, nw) = f[n]
  BY PermIsRows
<1>2. n \in Nat
  BY BlockLengths
<1>. DEFINE S == {m \in 0 .. n : RowsSoFar(f[m], m, nh, nw)}
<1>3. f[0] = <<>> /\ \A k \in 0 .. n : k # 0 =>
         f[k] = IF ImageSlot(k, nh, nw) THEN Append(f[k - 1], RowAt(k, nw)) ELSE f[k - 1]
  <2>. HIDE DEF n
  <2>1. f = [k \in 0 .. n |-> IF k = 0 THEN <<>>
              ELSE IF ImageSlot(k, nh, nw) THEN Append(f[k - 1], RowAt(k, nw)) ELSE f[k - 1]]
    BY <1>1 DEF IsRows
  <2>2. \A k \in 0 .. n : f[k] = IF k = 0 THEN <<>>
              ELSE IF ImageSlot(k, nh, nw) THEN Append(f[k - 1], RowAt(k, nw)) ELSE f[k - 1]
    BY <2>1, Zenon
  <2>3. 0 \in 0 .. n
    BY <1>2
  <2>. QED BY <2>2, <2>3
<1>4. 0 \in S
  <2>1. RowsSoFar(<<>>, 0, nh, nw)
    BY DEF RowsSoFar
  <2>. QED BY <1>2, <1>3, <2>1
<1>5. ASSUME NEW m \in 0 .. (n - 1), m \in S PROVE m + 1 \in S
  <2>1. m \in Nat /\ m + 1 \in 1 .. n /\ m + 1 \in 0 .. n /\ m + 1 # 0 /\ (m + 1) - 1 = m
    BY <1>2
  <2>2. RowsSoFar(f[m], m, nh, nw)
    BY <1>5
  <2>3. f[m + 1] = IF ImageSlot(m + 1, nh, nw) THEN Append(f[m], RowAt(m + 1, nw)) ELSE f[m]
    BY <1>3, <2>1
  <2>4. RowsSoFar(f[m + 1], m + 1, nh, nw)
    BY <2>1, <2>2, <2>3, RowsSoFarStep
  <2>. QED BY <2>1, <2>4
<1>. HIDE DEF S, n
<1>6. 0 .. n \subseteq S
  BY <1>2, <1>4, <1>5, InductionTo
<1>7. n \in S
  BY <1>2, <1>6
<1>. QED BY <1>1, <1>7 DEF S, n

\* The permutation of a block uses each row of the aligner once.
LEMMA PermIsWhole ==
  ASSUME NEW nh \in Nat, NEW nw \in Nat
  PROVE  /\ Len(Perm(nh, nw)) = nh * nw
         /\ {Perm(nh, nw)[k] : k \in 1 .. nh * nw} = 0 .. nh * nw - 1
<1>. DEFINE s == Perm(nh, nw)
            n == nh * nw
<1>1. n \in Nat
  OBVIOUS
<1>2. RowsSoFar(s, BodyLen(nh, nw), nh, nw)
  BY PermRows
<1>. HIDE DEF s
<1>3. s \in Seq(0 .. n - 1) /\ Len(s) \in Nat /\ s \in [1 .. Len(s) -> 0 .. n - 1]
  BY <1>2, SMTT(30) DEF RowsSoFar
<1>4. \A v \in 0 .. n - 1 : \E j \in 1 .. Len(s) : s[j] = v
  <2>1. SUFFICES ASSUME NEW v \in 0 .. n - 1 PROVE \E j \in 1 .. Len(s) : s[j] = v
    OBVIOUS
  <2>2. nw # 0
    BY <2>1
  <2>3. v \in Nat /\ nw \in Nat \ {0} /\ v < n
    BY <2>2, <1>1
  <2>. DEFINE a == v \div nw
              b == v % nw
  <2>4. a \in Nat /\ b \in 0 .. nw - 1 /\ v = nw * a + b
    <3>1. a \in Nat
      BY <2>3, DivNat
    <3>2. b \in 0 .. nw - 1 /\ v = nw * a + b
      <4>1. v \in Int
        BY <2>3
      <4>. QED BY <4>1, <2>3, DivMod, ZenonT(40)
    <3>. QED BY <3>1, <3>2
  <2>. HIDE DEF a, b
  <2>5. a < nh
    <3>1. SUFFICES ASSUME a >= nh PROVE FALSE
      BY <2>4
    <3>2. nw * a >= nw * nh /\ nw * nh = n /\ nw * a \in Nat
      BY <3>1, <2>4
    <3>. HIDE DEF n
    <3>. QED BY <3>2, <2>3, <2>4, <1>1
  <2>6. PICK k \in 1 .. BodyLen(nh, nw) : ImageSlot(k, nh, nw) /\ RowAt(k, nw) = nw * a + b
    <3>1. a \in 0 .. nh - 1
      BY <2>4, <2>5
    <3>. QED BY <3>1, <2>4, EveryCellHasSlot
  <2>. QED BY <2>4, <2>6, <1>2 DEF RowsSoFar
<1>5. \A i, j \in 1 .. Len(s) : s[i] = s[j] => i = j
  BY <1>2 DEF RowsSoFar
<1>. HIDE DEF n
<1>6. s \in Bijection(1 .. Len(s), 0 .. n - 1)
  <2>1. s \in Injection(1 .. Len(s), 0 .. n - 1)
    BY <1>3, <1>5 DEF Injection, IsInjective
  <2>2. s \in Surjection(1 .. Len(s), 0 .. n - 1)
    BY <1>3, <1>4 DEF Surjection
  <2>. QED BY <2>1, <2>2 DEF Bijection
<1>7. IsFiniteSet(1 .. Len(s)) /\ Cardinality(1 .. Len(s)) = Len(s) /\ Cardinality(0 .. n - 1) = n
  <2>1. \A p, q \in Int : IsFiniteSet(p .. q) /\ Cardinality(p .. q) = IF p > q THEN 0 ELSE q - p + 1
    BY FS_Interval
  <2>2. n - 1 \in Int /\ Len(s) \in Int /\ 0 \in Int /\ 1 \in Int
    BY <1>1, <1>3
  <2>3. Cardinality(0 .. n - 1) = IF 0 > n - 1 THEN 0 ELSE n - 1 - 0 + 1
    BY <2>1, <2>2, Zenon
  <2>4. IsFiniteSet(1 .. Len(s)) /\ Cardinality(1 .. Len(s)) = IF 1 > Len(s) THEN 0 ELSE Len(s) - 1 + 1
    BY <2>1, <2>2, Zenon
  <2>. QED BY <1>1, <1>3, <2>3, <2>4
<1>8. Len(s) = n
  <2>1. ExistsBijection(1 .. Len(s), 0 .. n - 1)
    BY <1>6 DEF ExistsBijection
  <2>. QED BY <2>1, <1>7, FS_Bijection
<1>9. {s[k] : k \in 1 .. n} = 0 .. n - 1
  BY <1>3, <1>4, <1>8
<1>. QED BY <1>8, <1>9 DEF s, n

-----------------------------------------------------------------------------
(* A turn of the planner when every item is an image.                      *)

\* One of the planner's updates of a prompt with images.
ReplaceImg == <<[mode |-> "replace", target |-> <<"img">>]>>
\* The indexes of the placeholders from one on.
ImgFrom(p, start) == {s \in start .. Len(p) - 1 : p[s + 1] = "img"}

\* A placeholder matches where it stands.
LEMMA MatchesOfImg ==
  ASSUME NEW T, NEW p \in Seq(T), NEW start \in Nat
  PROVE  Matches(<<"img">>, p, start) = {<<s, s + 1>> : s \in ImgFrom(p, start)}
<1>1. <<"img">> # <<>> /\ Len(<<"img">>) = 1
  OBVIOUS
<1>2. \A t \in start .. Len(p) - 1 : SubSeq(p, t + 1, t + 1) = <<p[t + 1]>>
  <2>1. SUFFICES ASSUME NEW t \in start .. Len(p) - 1 PROVE SubSeq(p, t + 1, t + 1) = <<p[t + 1]>>
    OBVIOUS
  <2>2. t + 1 \in 1 .. Len(p) /\ Len(p) \in Nat
    OBVIOUS
  <2>. DEFINE q == SubSeq(p, t + 1, t + 1)
  <2>3. q \in Seq(T) /\ Len(q) = 1 /\ q[1] = p[t + 1]
    BY <2>2
  <2>. HIDE DEF q
  <2>4. q = <<q[1]>>
    BY <2>3
  <2>. QED BY <2>3, <2>4 DEF q
<1>3. \A t \in start .. Len(p) - 1 : SubSeq(p, t + 1, t + 1) = <<"img">> <=> p[t + 1] = "img"
  BY <1>2
<1>4. Matches(<<"img">>, p, start) =
        {<<s, s + 1>> : s \in {t \in start .. Len(p) - 1 : SubSeq(p, t + 1, t + 1) = <<"img">>}}
  BY <1>1 DEF Matches
<1>5. {t \in start .. Len(p) - 1 : SubSeq(p, t + 1, t + 1) = <<"img">>} = ImgFrom(p, start)
  BY <1>3 DEF ImgFrom
<1>. QED BY <1>4, <1>5

\* The earliest match is the first placeholder.
LEMMA EarliestOfImg ==
  ASSUME NEW T, NEW p \in Seq(T), NEW start \in Nat, NEW s \in ImgFrom(p, start),
         \A t \in ImgFrom(p, start) : s <= t
  PROVE  Earliest(Matches(<<"img">>, p, start)) = <<s, s + 1>>
<1>. DEFINE ms == Matches(<<"img">>, p, start)
            m == CHOOSE m \in ms : \A n \in ms : ~Before(n, m)
<1>1. ms = {<<t, t + 1>> : t \in ImgFrom(p, start)}
  BY MatchesOfImg
<1>2. ImgFrom(p, start) \subseteq Int
  BY DEF ImgFrom
<1>. HIDE DEF ms
<1>3. <<s, s + 1>> \in ms /\ \A n \in ms : ~Before(n, <<s, s + 1>>)
  <2>1. SUFFICES ASSUME NEW t \in ImgFrom(p, start) PROVE ~Before(<<t, t + 1>>, <<s, s + 1>>)
    BY <1>1
  <2>. QED BY <1>2 DEF Before
<1>4. m \in ms /\ \A n \in ms : ~Before(n, m)
  BY <1>3
<1>. HIDE DEF m
<1>5. PICK t \in ImgFrom(p, start) : m = <<t, t + 1>>
  BY <1>1, <1>4
<1>6. ~Before(<<s, s + 1>>, <<t, t + 1>>)
  BY <1>3, <1>4, <1>5
<1>7. t = s
  BY <1>2, <1>6 DEF Before
<1>. QED BY <1>5, <1>7 DEF Earliest, m, ms

\* All images have the same target: they wait in one queue, the first of them at its head.
LEMMA HeadsOfImages ==
  ASSUME NEW I \in Nat, NEW L \in 0 .. I
  PROVE  LET items == [i \in 1 .. I |-> ReplaceImg]
             waiting == (L + 1) .. I IN
         /\ \A i \in waiting : Queue(i, items, waiting) = waiting
         /\ Heads(items, waiting) = IF L < I THEN {L + 1} ELSE {}
<1>. DEFINE items == [i \in 1 .. I |-> ReplaceImg]
            waiting == (L + 1) .. I
<1>1. \A i, j \in waiting : items[i] = items[j]
  OBVIOUS
<1>. HIDE DEF items
<1>2. \A i \in waiting : Queue(i, items, waiting) = waiting
  BY <1>1 DEF Queue
<1>3. Heads(items, waiting) = {i \in waiting : \A j \in waiting : i <= j}
  BY <1>2 DEF Heads
<1>4. {i \in waiting : \A j \in waiting : i <= j} = IF L < I THEN {L + 1} ELSE {}
  OBVIOUS
<1>. QED BY <1>2, <1>3, <1>4 DEF items

\* What the queue of the images finds.
LEMMA QueueMatchesOfImg ==
  ASSUME NEW T, NEW p \in Seq(T), NEW start \in Nat, NEW items, NEW i, items[i] = ReplaceImg,
         NEW modes, "replace" \in modes
  PROVE  /\ ImgFrom(p, start) = {} => QueueMatches(i, items, p, start, modes) = {}
         /\ \A s \in ImgFrom(p, start) : (\A t \in ImgFrom(p, start) : s <= t) =>
              QueueMatches(i, items, p, start, modes) = {[item |-> i, alt |-> 1, at |-> <<s, s + 1>>]}
<1>. DEFINE found(a) == items[i][a].mode \in modes /\ Matches(items[i][a].target, p, start) # {}
            alts == {b \in DOMAIN items[i] : found(b) /\ \A c \in 1 .. b - 1 : ~found(c)}
<1>1. QueueMatches(i, items, p, start, modes) =
        {[item |-> i, alt |-> a, at |-> Earliest(Matches(items[i][a].target, p, start))] : a \in alts}
  BY DEF QueueMatches
<1>2. DOMAIN items[i] = {1} /\ items[i][1].mode = "replace" /\ items[i][1].target = <<"img">>
  BY DEF ReplaceImg
<1>3. found(1) <=> ImgFrom(p, start) # {}
  <2>1. Matches(items[i][1].target, p, start) = {<<s, s + 1>> : s \in ImgFrom(p, start)}
    BY <1>2, MatchesOfImg
  <2>2. {<<s, s + 1>> : s \in ImgFrom(p, start)} # {} <=> ImgFrom(p, start) # {}
    OBVIOUS
  <2>. QED BY <1>2, <2>1, <2>2
<1>4. alts = IF found(1) THEN {1} ELSE {}
  BY <1>2, SMTT(30)
<1>. HIDE DEF found, alts
<1>5. CASE ImgFrom(p, start) = {}
  BY <1>1, <1>3, <1>4, <1>5
<1>6. ASSUME NEW s \in ImgFrom(p, start), \A t \in ImgFrom(p, start) : s <= t
      PROVE  QueueMatches(i, items, p, start, modes) = {[item |-> i, alt |-> 1, at |-> <<s, s + 1>>]}
  <2>1. alts = {1}
    BY <1>3, <1>4, <1>6
  <2>2. Earliest(Matches(items[i][1].target, p, start)) = <<s, s + 1>>
    BY <1>2, <1>6, EarliestOfImg
  <2>. QED BY <1>1, <2>1, <2>2
<1>. QED BY <1>5, <1>6

\* A turn of the planner over images: the first of those left is written at the next placeholder.
LEMMA TurnOfImages ==
  ASSUME NEW T, NEW p \in Seq(T), NEW start \in Nat, NEW I \in Nat, NEW L \in 0 .. I
  PROVE  LET turn == Turn([i \in 1 .. I |-> ReplaceImg], p, (L + 1) .. I, start) IN
         /\ (L = I \/ ImgFrom(p, start) = {}) => turn = <<>>
         /\ L < I => \A s \in ImgFrom(p, start) : (\A t \in ImgFrom(p, start) : s <= t) =>
              turn = <<[item |-> L + 1, alt |-> 1, at |-> <<s, s + 1>>]>>
<1>. DEFINE items == [i \in 1 .. I |-> ReplaceImg]
            waiting == (L + 1) .. I
            all(modes) == UNION {QueueMatches(i, items, p, start, modes) : i \in Heads(items, waiting)}
            lead == CHOOSE f \in all(Modes) : \A g \in all(Modes) : f.item <= g.item
            mode == items[lead.item][lead.alt].mode
            grow == {f \in all({mode}) : mode = "replace" /\ f.at[1] # f.at[2]}
            drained == UNION {{[f EXCEPT !.item = j] : j \in Queue(f.item, items, waiting)} :
                          f \in all({mode}) \ grow}
            one == {f \in grow : \A g \in grow : ~Precedes(g, f)}
            turn == Turn(items, p, waiting, start)
<1>1. turn = IF all(Modes) = {} THEN <<>> ELSE Sorted(drained \cup one)
  BY DEF Turn
<1>2. Heads(items, waiting) = IF L < I THEN {L + 1} ELSE {}
  BY HeadsOfImages
<1>3. CASE L = I \/ ImgFrom(p, start) = {}
  <2>1. all(Modes) = {}
    <3>1. CASE L = I
      BY <3>1, <1>2
    <3>2. CASE L < I /\ ImgFrom(p, start) = {}
      <4>1. items[L + 1] = ReplaceImg
        BY <3>2
      <4>2. QueueMatches(L + 1, items, p, start, Modes) = {}
        <5>. HIDE DEF items
        <5>. QED BY <3>2, <4>1, QueueMatchesOfImg DEF Modes
      <4>. QED BY <3>2, <4>2, <1>2
    <3>. QED BY <3>1, <3>2, <1>3
  <2>. QED BY <1>1, <1>3, <2>1
<1>4. ASSUME L < I, NEW s \in ImgFrom(p, start), \A t \in ImgFrom(p, start) : s <= t
      PROVE  turn = <<[item |-> L + 1, alt |-> 1, at |-> <<s, s + 1>>]>>
  <2>. DEFINE f0 == [item |-> L + 1, alt |-> 1, at |-> <<s, s + 1>>]
  <2>1. items[L + 1] = ReplaceImg
    BY <1>4
  <2>2. ASSUME NEW modes, "replace" \in modes PROVE all(modes) = {f0}
    <3>1. QueueMatches(L + 1, items, p, start, modes) = {f0}
      <4>. HIDE DEF items
      <4>. QED BY <1>4, <2>1, <2>2, QueueMatchesOfImg
    <3>. QED BY <1>2, <1>4, <3>1
  <2>3. all(Modes) = {f0}
    BY <2>2 DEF Modes
  <2>4. f0.item = L + 1 /\ f0.alt = 1 /\ f0.at = <<s, s + 1>> /\ s \in Int
    BY DEF ImgFrom
  <2>. HIDE DEF f0, all, items
  <2>5. lead = f0
    BY <2>3, <2>4
  <2>6. mode = "replace"
      <3>1. items[lead.item][lead.alt] = ReplaceImg[1]
      BY <2>1, <2>4, <2>5
    <3>2. ReplaceImg[1].mode = "replace"
      BY DEF ReplaceImg
    <3>. QED BY <3>1, <3>2
  <2>. HIDE DEF lead, mode
  <2>7. all({mode}) = {f0}
    BY <2>2, <2>6
  <2>8. grow = {f0}
    <3>1. f0.at[1] # f0.at[2]
      BY <2>4
    <3>. QED BY <2>6, <2>7, <3>1
  <2>. HIDE DEF grow
  <2>9. drained = {}
    BY <2>7, <2>8
  <2>. HIDE DEF drained
  <2>10. ~Precedes(f0, f0)
    BY <2>4 DEF Precedes, Before
  <2>11. one = {f0}
    BY <2>8, <2>10
  <2>. HIDE DEF one
  <2>12. turn = Sorted({f0})
    <3>1. drained \cup one = {f0}
      BY <2>9, <2>11
    <3>. QED BY <1>1, <2>3, <3>1
  <2>13. Cardinality({f0}) = 1
    BY FS_Singleton
  <2>. DEFINE sorted == CHOOSE q \in [1 .. 1 -> {f0}] : \A i, j \in DOMAIN q : i < j => Precedes(q[i], q[j])
  <2>14. Sorted({f0}) = sorted
    BY <2>13 DEF Sorted
  <2>15. sorted \in [1 .. 1 -> {f0}]
    <3>1. [i \in 1 .. 1 |-> f0] \in [1 .. 1 -> {f0}]
      OBVIOUS
    <3>2. \A i, j \in 1 .. 1 : ~(i < j)
      OBVIOUS
    <3>3. \E q \in [1 .. 1 -> {f0}] : \A i, j \in DOMAIN q : i < j => Precedes(q[i], q[j])
      BY <3>1, <3>2
    <3>. QED BY <3>3
  <2>. HIDE DEF sorted
  <2>16. sorted = <<f0>>
    BY <2>15
  <2>. QED BY <2>12, <2>14, <2>16 DEF f0
<1>. QED BY <1>3, <1>4

-----------------------------------------------------------------------------
(* The prompt without the planner.                                         *)

SeenIn(p, k) == Cardinality({j \in 1 .. k : p[j] = "img"})

\* Placeholders are counted one by one.
LEMMA SeenCounts ==
  ASSUME NEW p, NEW k \in Nat
  PROVE  /\ SeenIn(p, k) \in Nat /\ SeenIn(p, 0) = 0
         /\ p[k + 1] # "img" => SeenIn(p, k + 1) = SeenIn(p, k)
         /\ p[k + 1] = "img" => SeenIn(p, k + 1) = SeenIn(p, k) + 1
<1>. DEFINE S(i) == {j \in 1 .. i : p[j] = "img"}
<1>1. IsFiniteSet(1 .. k) /\ IsFiniteSet(1 .. k + 1)
  BY FS_Interval
<1>2. IsFiniteSet(S(k)) /\ Cardinality(S(k)) \in Nat
  BY <1>1, FS_Subset, FS_CardinalityType
<1>3. S(0) = {}
  OBVIOUS
<1>4. p[k + 1] # "img" => S(k + 1) = S(k)
  OBVIOUS
<1>5. p[k + 1] = "img" => S(k + 1) = S(k) \cup {k + 1} /\ k + 1 \notin S(k)
  OBVIOUS
<1>. HIDE DEF S
<1>6. p[k + 1] = "img" => Cardinality(S(k + 1)) = Cardinality(S(k)) + 1
  BY <1>2, <1>5, FS_AddElement
<1>. QED BY <1>2, <1>3, <1>4, <1>6, FS_EmptySet DEF SeenIn, S

\* Text has no placeholder to count.
LEMMA SeenStays ==
  ASSUME NEW p, NEW a \in Nat, NEW b \in Nat, a <= b, \A k \in a + 1 .. b : p[k] # "img"
  PROVE  SeenIn(p, b) = SeenIn(p, a)
<1>1. {j \in 1 .. b : p[j] = "img"} = {j \in 1 .. a : p[j] = "img"}
  OBVIOUS
<1>. QED BY <1>1 DEF SeenIn

\* A later placeholder has a higher count.
LEMMA SeenGrows ==
  ASSUME NEW p, NEW a \in Nat, NEW b \in Nat, a < b, p[b] = "img"
  PROVE  SeenIn(p, b) > SeenIn(p, a)
<1>1. b - 1 \in Nat /\ (b - 1) + 1 = b
  OBVIOUS
<1>2. SeenIn(p, b) = SeenIn(p, b - 1) + 1 /\ SeenIn(p, b - 1) \in Nat /\ SeenIn(p, a) \in Nat
  BY <1>1, SeenCounts
<1>3. SeenIn(p, a) <= SeenIn(p, b - 1)
  <2>1. {j \in 1 .. a : p[j] = "img"} \subseteq {j \in 1 .. b - 1 : p[j] = "img"}
    OBVIOUS
  <2>2. IsFiniteSet({j \in 1 .. b - 1 : p[j] = "img"})
    <3>1. IsFiniteSet(1 .. b - 1)
      BY FS_Interval
    <3>. QED BY <3>1, FS_Subset
  <2>. QED BY <2>1, <2>2, FS_Subset DEF SeenIn
<1>. QED BY <1>2, <1>3

\* What stands in a block.
Marks == {"start", "end", "pad", "newline", "image"}

\* A block is a text of as many tokens as its length says.
LEMMA BlockIsSeq ==
  ASSUME NEW nh \in Nat, NEW nw \in Nat
  PROVE  Block(nh, nw) \in Seq(Marks) /\ Len(Block(nh, nw)) = BlockLen(nh, nw)
<1>1. BlockLen(nh, nw) \in Nat
  BY BlockLengths
<1>2. \A k : BodyType(k, nh, nw) \in Marks
  BY DEF BodyType, Marks
<1>3. Block(nh, nw) \in [1 .. BlockLen(nh, nw) -> Marks]
  BY <1>2 DEF Block, Marks
<1>. QED BY <1>1, <1>3

\* A placeholder that is not the place of an image stays as it is.
Stays(p, cs, k) == p[k] # "img" \/ SeenIn(p, k) > Len(cs)
Grown(s, p, cs, k) ==
  IF Stays(p, cs, k) THEN Append(s, p[k])
  ELSE s \o [j \in 1 .. CompressPad(Len(s)) |-> "pad"]
         \o Block(cs[SeenIn(p, k)][1], cs[SeenIn(p, k)][2])
IsExpanded(f, n, p, cs) ==
  f = [k \in 0 .. n |-> IF k = 0 THEN <<>> ELSE Grown(f[k - 1], p, cs, k)]
ExpandedOf(p, cs) == CHOOSE f : IsExpanded(f, Len(p), p, cs)

\* The recursion of Expanded has a solution, for any prompt.
LEMMA ExpandedIsDefined ==
  ASSUME NEW n \in Nat, NEW p, NEW cs
  PROVE  \E f : IsExpanded(f, n, p, cs)
<1>. DEFINE S == {m \in 0 .. n : \E f : IsExpanded(f, m, p, cs)}
<1>1. 0 \in S
  <2>. DEFINE f == [k \in 0 .. 0 |-> <<>>]
  <2>1. IsExpanded(f, 0, p, cs)
    BY DEF IsExpanded
  <2>. QED BY <2>1
<1>2. ASSUME NEW m \in 0 .. (n - 1), m \in S PROVE m + 1 \in S
  <2>1. PICK f : IsExpanded(f, m, p, cs)
    BY <1>2
  <2>. DEFINE g == [k \in 0 .. m + 1 |-> IF k = m + 1 THEN Grown(f[m], p, cs, m + 1) ELSE f[k]]
  <2>2. m + 1 \in 0 .. n
    OBVIOUS
  <2>3. f = [k \in 0 .. m |-> IF k = 0 THEN <<>> ELSE Grown(f[k - 1], p, cs, k)]
    BY <2>1 DEF IsExpanded
  <2>4. \A k \in 0 .. m : g[k] = f[k]
    OBVIOUS
  <2>5. g[m + 1] = Grown(f[m], p, cs, m + 1)
    BY <2>2
  <2>6. g[0] = <<>>
    BY <2>3, <2>4
  <2>7. ASSUME NEW k \in 1 .. m + 1 PROVE g[k] = Grown(g[k - 1], p, cs, k)
    <3>1. CASE k = m + 1
      <4>1. g[k - 1] = f[m]
        BY <3>1, <2>4
      <4>. QED BY <3>1, <4>1, <2>5
    <3>2. CASE k # m + 1
      <4>1. k \in 0 .. m /\ k - 1 \in 0 .. m /\ k # 0
        BY <3>2
      <4>2. f[k] = Grown(f[k - 1], p, cs, k)
        BY <2>3, <4>1, Zenon
      <4>. HIDE DEF g
      <4>. QED BY <4>1, <4>2, <2>4
    <3>. QED BY <3>1, <3>2
  <2>8. IsExpanded(g, m + 1, p, cs)
    <3>1. ASSUME NEW k \in 0 .. m + 1 PROVE g[k] = IF k = 0 THEN <<>> ELSE Grown(g[k - 1], p, cs, k)
      <4>1. CASE k = 0
        BY <4>1, <2>6
      <4>2. CASE k # 0
        <5>1. k \in 1 .. m + 1
          BY <4>2
        <5>. HIDE DEF g
        <5>. QED BY <5>1, <4>2, <2>7
      <4>. QED BY <4>1, <4>2
    <3>2. g = [k \in 0 .. m + 1 |-> g[k]]
      OBVIOUS
    <3>. HIDE DEF g
    <3>. QED BY <3>1, <3>2 DEF IsExpanded
  <2>. QED BY <2>2, <2>8
<1>. HIDE DEF S
<1>3. 0 .. n \subseteq S
  BY <1>1, <1>2, InductionTo
<1>. QED BY <1>3 DEF S

\* Expanded obeys its recursion.
LEMMA ExpandedSteps ==
  ASSUME NEW T, NEW p \in Seq(T), NEW cs
  PROVE  /\ ExpandedOf(p, cs)[0] = <<>>
         /\ \A k \in 1 .. Len(p) : ExpandedOf(p, cs)[k] = Grown(ExpandedOf(p, cs)[k - 1], p, cs, k)
<1>. DEFINE f == ExpandedOf(p, cs)
<1>1. Len(p) \in Nat
  OBVIOUS
<1>2. IsExpanded(f, Len(p), p, cs)
  BY <1>1, ExpandedIsDefined DEF ExpandedOf
<1>. HIDE DEF f
<1>3. f = [k \in 0 .. Len(p) |-> IF k = 0 THEN <<>> ELSE Grown(f[k - 1], p, cs, k)]
  BY <1>2 DEF IsExpanded
<1>4. \A k \in 0 .. Len(p) : f[k] = IF k = 0 THEN <<>> ELSE Grown(f[k - 1], p, cs, k)
  BY <1>3, Zenon
<1>5. 0 \in 0 .. Len(p) /\ \A k \in 1 .. Len(p) : k \in 0 .. Len(p) /\ k # 0
  BY <1>1
<1>. QED BY <1>4, <1>5 DEF f

\* The expanded prompt is a sequence.
LEMMA ExpandedIsSeq ==
  ASSUME NEW T, NEW p \in Seq(T), NEW cs \in Seq(Nat \X Nat)
  PROVE  \A k \in 0 .. Len(p) : ExpandedOf(p, cs)[k] \in Seq(T \cup Marks)
<1>. DEFINE f == ExpandedOf(p, cs)
            S == {k \in 0 .. Len(p) : f[k] \in Seq(T \cup Marks)}
<1>0. Len(p) \in Nat
  OBVIOUS
<1>1. 0 \in S
  <2>1. f[0] = <<>>
    BY ExpandedSteps
  <2>2. <<>> \in Seq(T \cup Marks) /\ 0 \in 0 .. Len(p)
    BY <1>0, EmptySeq
  <2>. HIDE DEF f
  <2>. QED BY <2>1, <2>2
<1>2. ASSUME NEW m \in 0 .. (Len(p) - 1), m \in S PROVE m + 1 \in S
  <2>1. m + 1 \in 1 .. Len(p) /\ m + 1 \in 0 .. Len(p) /\ (m + 1) - 1 = m
    OBVIOUS
  <2>2. f[m + 1] = Grown(f[m], p, cs, m + 1)
    BY <2>1, ExpandedSteps
  <2>. DEFINE s == f[m]
              c == cs[SeenIn(p, m + 1)]
  <2>3. s \in Seq(T \cup Marks)
    BY <1>2
  <2>. HIDE DEF f
  <2>4. p[m + 1] \in T
    BY <2>1
  <2>. HIDE DEF s
  <2>5. Append(s, p[m + 1]) \in Seq(T \cup Marks)
    BY <2>3, <2>4
  <2>6. ASSUME ~Stays(p, cs, m + 1)
        PROVE  s \o [j \in 1 .. CompressPad(Len(s)) |-> "pad"] \o Block(c[1], c[2]) \in Seq(T \cup Marks)
    <3>1. SeenIn(p, m + 1) \in 1 .. Len(cs)
      <4>1. p[m + 1] = "img" /\ ~(SeenIn(p, m + 1) > Len(cs))
        BY <2>6 DEF Stays
      <4>2. SeenIn(p, m + 1) = SeenIn(p, m) + 1 /\ SeenIn(p, m) \in Nat
        BY <4>1, SeenCounts
      <4>. QED BY <4>1, <4>2
    <3>2. c \in Nat \X Nat
      BY <3>1
    <3>. HIDE DEF c
    <3>3. Block(c[1], c[2]) \in Seq(Marks)
      BY <3>2, BlockIsSeq
    <3>4. CompressPad(Len(s)) \in 0 .. 3
      BY <2>3, PadAligns
    <3>5. [j \in 1 .. CompressPad(Len(s)) |-> "pad"] \in Seq(Marks)
      BY <3>4 DEF Marks
    <3>. DEFINE x == [j \in 1 .. CompressPad(Len(s)) |-> "pad"]
                y == Block(c[1], c[2])
    <3>. HIDE DEF x, y
    <3>6. x \in Seq(T \cup Marks) /\ y \in Seq(T \cup Marks)
      BY <3>3, <3>5 DEF x, y
    <3>7. s \o x \o y \in Seq(T \cup Marks)
      BY <2>3, <3>6
    <3>. QED BY <3>7 DEF x, y
  <2>. QED BY <2>1, <2>2, <2>5, <2>6 DEF Grown, s
<1>. HIDE DEF S
<1>3. 0 .. Len(p) \subseteq S
  BY <1>0, <1>1, <1>2, InductionTo
<1>. QED BY <1>3 DEF S

\* One more token at the end.
LEMMA AppendToConcat ==
  ASSUME NEW U, NEW s \in Seq(U), NEW q \in Seq(U), NEW x \in U
  PROVE  Append(s \o q, x) = s \o (q \o <<x>>)
<1>1. s \o q \in Seq(U) /\ <<x>> \in Seq(U)
  OBVIOUS
<1>2. Append(s \o q, x) = (s \o q) \o <<x>>
  BY <1>1, AppendIsConcat
<1>3. \A y \in Seq(U) : (s \o q) \o y = s \o (q \o y)
  BY ConcatAssociative
<1>. QED BY <1>1, <1>2, <1>3

\* Where nothing is replaced, the prompt is copied.
LEMMA ExpandedText ==
  ASSUME NEW T, NEW p \in Seq(T), NEW cs \in Seq(Nat \X Nat),
         NEW a \in 0 .. Len(p), NEW b \in 0 .. Len(p), a <= b,
         \A k \in a + 1 .. b : Stays(p, cs, k)
  PROVE  ExpandedOf(p, cs)[b] = ExpandedOf(p, cs)[a] \o SubSeq(p, a + 1, b)
<1>. DEFINE f == ExpandedOf(p, cs)
            S == {k \in 0 .. b - a : f[a + k] = f[a] \o SubSeq(p, a + 1, a + k)}
<1>0. f[a] \in Seq(T \cup Marks) /\ p \in Seq(T \cup Marks) /\ b - a \in Nat /\ a + 0 = a
  BY ExpandedIsSeq
<1>1. 0 \in S
  <2>. DEFINE s == f[a]
  <2>. HIDE DEF s
  <2>1. SubSeq(p, a + 1, a + 0) = <<>>
    OBVIOUS
  <2>2. s \o <<>> = s
    BY <1>0, ConcatEmptySeq DEF s
  <2>3. 0 \in 0 .. b - a
    BY <1>0
  <2>. QED BY <1>0, <2>1, <2>2, <2>3 DEF s
<1>2. ASSUME NEW m \in 0 .. (b - a - 1), m \in S PROVE m + 1 \in S
  <2>1. a + m + 1 \in 1 .. Len(p) /\ m + 1 \in 0 .. b - a /\ (a + m + 1) - 1 = a + m /\ a + m + 1 \in a + 1 .. b
        /\ a + (m + 1) = a + m + 1
    OBVIOUS
  <2>2. f[a + m + 1] = Grown(f[a + m], p, cs, a + m + 1)
    BY <2>1, ExpandedSteps
  <2>3. Stays(p, cs, a + m + 1)
    BY <2>1
  <2>. DEFINE s == f[a]
              q == SubSeq(p, a + 1, a + m)
              x == p[a + m + 1]
  <2>4. f[a + m] = s \o q
    BY <1>2
  <2>5. f[a + m + 1] = Append(s \o q, x)
    BY <2>2, <2>3, <2>4 DEF Grown
  <2>6. q \in Seq(T \cup Marks) /\ x \in T \cup Marks /\ s \in Seq(T \cup Marks)
    BY <1>0, <2>1
  <2>7. SubSeq(p, a + 1, a + m + 1) = q \o <<x>>
    <3>1. a + 1 \in 1 .. Len(p) /\ a + m + 1 \in a + 1 .. Len(p)
      BY <2>1
    <3>. QED BY <3>1, <2>1, SubSeqRecursiveSecond
  <2>. HIDE DEF q, x, s
  <2>8. Append(s \o q, x) = s \o (q \o <<x>>)
    <3>. DEFINE U == T \cup Marks
    <3>1. s \in Seq(U) /\ q \in Seq(U) /\ x \in U
      BY <2>6
    <3>. HIDE DEF U
    <3>. QED BY <3>1, AppendToConcat
  <2>. QED BY <2>1, <2>5, <2>7, <2>8 DEF s
<1>. HIDE DEF S
<1>3. 0 .. b - a \subseteq S
  BY <1>0, <1>1, <1>2, InductionTo
<1>4. b - a \in S /\ a + (b - a) = b
  BY <1>0, <1>3
<1>. QED BY <1>4 DEF S

-----------------------------------------------------------------------------
(* The encoding of a chat.  A sequence of sequences in one, and the places of its parts. *)

\* What FlattenSeq makes of the parts up to one of them.
Flattened(f, n, ss) == f = [i \in 1 .. n |-> IF i = 1 THEN ss[i] ELSE f[i - 1] \o ss[i]]
FlatTo(ss) == CHOOSE f : Flattened(f, Len(ss), ss)

\* The recursion has a solution.
LEMMA FlattenIsDefined ==
  ASSUME NEW n \in Nat, NEW ss
  PROVE  \E f : Flattened(f, n, ss)
<1>. DEFINE S == {m \in 0 .. n : \E f : Flattened(f, m, ss)}
<1>1. 0 \in S
  <2>. DEFINE f == [i \in 1 .. 0 |-> <<>>]
  <2>1. Flattened(f, 0, ss)
    BY DEF Flattened
  <2>. QED BY <2>1
<1>2. ASSUME NEW m \in 0 .. (n - 1), m \in S PROVE m + 1 \in S
  <2>1. PICK f : Flattened(f, m, ss)
    BY <1>2
  <2>. DEFINE h(i, s) == IF i = 1 THEN ss[i] ELSE s \o ss[i]
              g == [i \in 1 .. m + 1 |-> IF i = m + 1 THEN h(i, f[m]) ELSE f[i]]
  <2>3. f = [i \in 1 .. m |-> h(i, f[i - 1])]
    BY <2>1 DEF Flattened
  <2>4. \A i \in 1 .. m : g[i] = f[i]
    OBVIOUS
  <2>5. g[m + 1] = h(m + 1, f[m])
    OBVIOUS
  <2>6. ASSUME NEW i \in 1 .. m + 1 PROVE g[i] = h(i, g[i - 1])
    <3>1. CASE i = 1
      <4>1. CASE m = 0
        BY <3>1, <4>1
      <4>2. CASE m # 0
        <5>1. 1 \in 1 .. m
          BY <4>2
        <5>2. f[1] = h(1, f[1 - 1])
          BY <5>1, <2>3, Zenon
        <5>. QED BY <3>1, <5>1, <5>2, <2>4
      <4>. QED BY <4>1, <4>2
    <3>2. CASE i = m + 1 /\ i # 1
      <4>1. i - 1 \in 1 .. m /\ i - 1 = m
        BY <3>2
      <4>2. g[i - 1] = f[m]
        BY <4>1, <2>4
      <4>. QED BY <3>2, <4>2, <2>5
    <3>3. CASE i # m + 1 /\ i # 1
      <4>1. i \in 1 .. m /\ i - 1 \in 1 .. m
        BY <3>3
      <4>2. f[i] = h(i, f[i - 1])
        BY <2>3, <4>1, Zenon
      <4>. HIDE DEF g, h
      <4>. QED BY <4>1, <4>2, <2>4
    <3>. QED BY <3>1, <3>2, <3>3
  <2>7. g = [i \in 1 .. m + 1 |-> g[i]]
    OBVIOUS
  <2>8. Flattened(g, m + 1, ss)
    <3>. HIDE DEF g
    <3>. QED BY <2>6, <2>7 DEF Flattened
  <2>9. m + 1 \in 0 .. n
    OBVIOUS
  <2>. QED BY <2>8, <2>9
<1>. HIDE DEF S
<1>3. 0 .. n \subseteq S
  BY <1>1, <1>2, InductionTo
<1>. QED BY <1>3 DEF S

\* The steps of that recursion.
LEMMA FlatToSteps ==
  ASSUME NEW S, NEW ss \in Seq(Seq(S)), ss # <<>>
  PROVE  /\ FlatTo(ss)[1] = ss[1] /\ FlattenSeq(ss) = FlatTo(ss)[Len(ss)]
         /\ \A i \in 2 .. Len(ss) : FlatTo(ss)[i] = FlatTo(ss)[i - 1] \o ss[i]
         /\ \A i \in 1 .. Len(ss) : FlatTo(ss)[i] \in Seq(S)
<1>. DEFINE f == FlatTo(ss)
<1>1. Len(ss) \in Nat /\ Len(ss) >= 1 /\ Len(ss) # 0
  OBVIOUS
<1>2. Flattened(f, Len(ss), ss)
  BY <1>1, FlattenIsDefined DEF FlatTo
<1>3. FlattenSeq(ss) = f[Len(ss)]
  BY <1>1 DEF FlattenSeq, FlatTo, Flattened
<1>. HIDE DEF f
<1>4. \A i \in 1 .. Len(ss) : f[i] = IF i = 1 THEN ss[i] ELSE f[i - 1] \o ss[i]
  BY <1>2, Zenon DEF Flattened
<1>5. f[1] = ss[1] /\ \A i \in 2 .. Len(ss) : f[i] = f[i - 1] \o ss[i]
  <2>1. 1 \in 1 .. Len(ss) /\ \A i \in 2 .. Len(ss) : i \in 1 .. Len(ss) /\ i # 1
    BY <1>1
  <2>. QED BY <1>4, <2>1
<1>6. \A i \in 1 .. Len(ss) : f[i] \in Seq(S)
  <2>. DEFINE T == {m \in 0 .. Len(ss) : m = 0 \/ f[m] \in Seq(S)}
  <2>1. 0 \in T
    BY <1>1
  <2>2. ASSUME NEW m \in 0 .. (Len(ss) - 1), m \in T PROVE m + 1 \in T
    <3>1. m + 1 \in 1 .. Len(ss) /\ m + 1 \in 0 .. Len(ss)
      OBVIOUS
    <3>2. ss[m + 1] \in Seq(S)
      BY <3>1
    <3>3. CASE m = 0
      BY <3>1, <3>2, <3>3, <1>5
    <3>4. CASE m # 0
      <4>1. m + 1 \in 2 .. Len(ss) /\ (m + 1) - 1 = m
        BY <3>4
      <4>2. f[m] \in Seq(S)
        BY <2>2, <3>4
      <4>3. f[m + 1] = f[m] \o ss[m + 1]
        BY <4>1, <1>5
      <4>4. f[m] \o ss[m + 1] \in Seq(S)
        BY <4>2, <3>2, ConcatProperties
      <4>. QED BY <4>3, <4>4, <3>1
    <3>. QED BY <3>3, <3>4
  <2>. HIDE DEF T
  <2>3. 0 .. Len(ss) \subseteq T
    BY <1>1, <2>1, <2>2, InductionTo
  <2>4. \A i \in 1 .. Len(ss) : i \in 0 .. Len(ss) /\ i # 0
    OBVIOUS
  <2>. QED BY <2>3, <2>4 DEF T
<1>. QED BY <1>3, <1>5, <1>6 DEF f

\* Where the parts end.
Ends(ss, i) == IF i = 0 THEN 0 ELSE Len(FlatTo(ss)[i])

\* The whole is a sequence of what the parts are of.
LEMMA FlattenIsSeq ==
  ASSUME NEW S, NEW ss \in Seq(Seq(S))
  PROVE  FlattenSeq(ss) \in Seq(S)
<1>1. CASE ss = <<>>
  <2>1. Len(ss) = 0
    BY <1>1
  <2>2. FlattenSeq(ss) = <<>>
    BY <1>1, <2>1 DEF FlattenSeq
  <2>. QED BY <2>2
<1>2. CASE ss # <<>>
  <2>1. Len(ss) \in 1 .. Len(ss)
    BY <1>2
  <2>. QED BY <1>2, <2>1, FlatToSteps
<1>. QED BY <1>1, <1>2

\* Where the parts are.
LEMMA FlattenPlaces ==
  ASSUME NEW S, NEW ss \in Seq(Seq(S))
  PROVE  /\ Ends(ss, 0) = 0 /\ Len(FlattenSeq(ss)) = Ends(ss, Len(ss))
         /\ \A i \in 0 .. Len(ss) : Ends(ss, i) \in Nat
         /\ \A i \in 1 .. Len(ss) : Ends(ss, i) = Ends(ss, i - 1) + Len(ss[i])
         /\ \A i \in 1 .. Len(ss) : \A q \in 1 .. Len(ss[i]) : FlattenSeq(ss)[Ends(ss, i - 1) + q] = ss[i][q]
<1>0. Len(ss) \in Nat /\ Ends(ss, 0) = 0
  BY DEF Ends
<1>1. CASE ss = <<>>
  <2>1. Len(ss) = 0
    BY <1>1
  <2>2. FlattenSeq(ss) = <<>>
    BY <1>1, <2>1 DEF FlattenSeq
  <2>. QED BY <1>0, <2>1, <2>2
<1>2. CASE ss # <<>>
  <2>. DEFINE f == FlatTo(ss)  n == Len(ss)
  <2>1. /\ f[1] = ss[1] /\ FlattenSeq(ss) = f[n]
        /\ \A i \in 2 .. n : f[i] = f[i - 1] \o ss[i]
        /\ \A i \in 1 .. n : f[i] \in Seq(S)
    BY <1>2, FlatToSteps
  <2>2. n \in Nat /\ n >= 1 /\ \A i \in 1 .. n : ss[i] \in Seq(S) /\ Len(ss[i]) \in Nat
    BY <1>2
  <2>3. \A i \in 1 .. n : Ends(ss, i) = Len(f[i]) /\ Len(f[i]) \in Nat
    <3>. SUFFICES ASSUME NEW i \in 1 .. n PROVE Ends(ss, i) = Len(f[i]) /\ Len(f[i]) \in Nat
      OBVIOUS
    <3>1. i # 0 /\ f[i] \in Seq(S)
      BY <2>1, <2>2
    <3>. QED BY <3>1 DEF Ends
  <2>. HIDE DEF f
  <2>4. \A i \in 0 .. n : Ends(ss, i) \in Nat
    <3>1. \A i \in 0 .. n : i = 0 \/ i \in 1 .. n
      BY <2>2
    <3>. QED BY <3>1, <2>3, <1>0
  <2>5. \A i \in 1 .. n : Ends(ss, i) = Ends(ss, i - 1) + Len(ss[i])
    <3>. SUFFICES ASSUME NEW i \in 1 .. n PROVE Ends(ss, i) = Ends(ss, i - 1) + Len(ss[i])
      OBVIOUS
    <3>1. CASE i = 1
      BY <3>1, <2>1, <2>2, <2>3, <1>0
    <3>2. CASE i # 1
      <4>1. i \in 2 .. n /\ i - 1 \in 1 .. n
        BY <3>2
      <4>2. Len(f[i]) = Len(f[i - 1]) + Len(ss[i])
        <5>1. f[i] = f[i - 1] \o ss[i] /\ f[i - 1] \in Seq(S) /\ ss[i] \in Seq(S)
          BY <4>1, <2>1, <2>2
        <5>. QED BY <5>1, ConcatProperties
      <4>. QED BY <4>1, <4>2, <2>3
    <3>. QED BY <3>1, <3>2
  <2>6. ASSUME NEW i \in 1 .. n, NEW q \in 1 .. Len(ss[i])
        PROVE  FlattenSeq(ss)[Ends(ss, i - 1) + q] = ss[i][q]
    <3>. DEFINE p == Ends(ss, i - 1) + q
                T == {d \in 0 .. n - i : p \in 1 .. Len(f[i + d]) /\ f[i + d][p] = ss[i][q]}
    <3>0. i - 1 \in 0 .. n /\ Ends(ss, i - 1) \in Nat /\ p \in 1 .. Ends(ss, i)
      BY <2>2, <2>4, <2>5, SMTT(30)
    <3>1. 0 \in T
      <4>1. p \in 1 .. Len(f[i])
        BY <3>0, <2>3
      <4>2. f[i][p] = ss[i][q]
        <5>1. CASE i = 1
          BY <5>1, <2>1, <2>2, <1>0
        <5>2. CASE i # 1
          <6>1. i \in 2 .. n /\ i - 1 \in 1 .. n
            BY <5>2
          <6>. DEFINE a == f[i - 1]  b == ss[i]
          <6>2. f[i] = a \o b /\ a \in Seq(S) /\ b \in Seq(S) /\ Ends(ss, i - 1) = Len(a)
            BY <6>1, <2>1, <2>2, <2>3
          <6>. HIDE DEF a
          <6>3. (a \o b)[Len(a) + q] = b[q]
            BY <6>2
          <6>. QED BY <6>2, <6>3
        <5>. QED BY <5>1, <5>2
      <4>. QED BY <4>1, <4>2
    <3>2. ASSUME NEW d \in 0 .. ((n - i) - 1), d \in T PROVE d + 1 \in T
      <4>1. i + d \in 1 .. n /\ i + d + 1 \in 2 .. n /\ (i + d + 1) - 1 = i + d /\ d + 1 \in 0 .. n - i
            /\ i + (d + 1) = i + d + 1
        BY <2>2
      <4>. DEFINE a == f[i + d]  b == ss[i + d + 1]
      <4>2. f[i + d + 1] = a \o b /\ a \in Seq(S) /\ b \in Seq(S)
        <5>1. f[i + d + 1] = f[(i + d + 1) - 1] \o ss[i + d + 1]
          BY <4>1, <2>1
        <5>2. f[i + d] \in Seq(S)
          BY <4>1, <2>1
        <5>3. ss[i + d + 1] \in Seq(S)
          BY <4>1, <2>2
        <5>. QED BY <4>1, <5>1, <5>2, <5>3
      <4>3. p \in 1 .. Len(a) /\ a[p] = ss[i][q]
        BY <3>2
      <4>. HIDE DEF a, b, p
      <4>4. p \in 1 .. Len(a \o b) /\ (a \o b)[p] = a[p]
        BY <4>2, <4>3
      <4>. QED BY <4>1, <4>2, <4>3, <4>4
    <3>. HIDE DEF T
    <3>3. 0 .. n - i \subseteq T
      <4>1. n - i \in Nat
        BY <2>2
      <4>. QED BY <4>1, <3>1, <3>2, InductionTo
    <3>4. n - i \in T /\ i + (n - i) = n
      <4>1. n - i \in 0 .. n - i /\ i + (n - i) = n
        BY <2>2
      <4>. QED BY <4>1, <3>3
    <3>. QED BY <3>4, <2>1 DEF T
  <2>. QED BY <1>0, <2>1, <2>2, <2>3, <2>4, <2>5, <2>6
<1>. QED BY <1>1, <1>2

\* The ends of the parts grow.
LEMMA EndsGrow ==
  ASSUME NEW S, NEW ss \in Seq(Seq(S)), NEW i \in 0 .. Len(ss), NEW j \in i .. Len(ss)
  PROVE  Ends(ss, i) <= Ends(ss, j)
<1>. DEFINE T == {d \in 0 .. j - i : Ends(ss, i) <= Ends(ss, i + d)}
<1>0. j - i \in Nat /\ Len(ss) \in Nat
  OBVIOUS
<1>1. 0 \in T
  <2>1. Ends(ss, i) \in Nat /\ i + 0 = i
    BY FlattenPlaces
  <2>. QED BY <2>1, <1>0
<1>2. ASSUME NEW d \in 0 .. ((j - i) - 1), d \in T PROVE d + 1 \in T
  <2>1. i + d + 1 \in 1 .. Len(ss) /\ i + d \in 0 .. Len(ss) /\ (i + d + 1) - 1 = i + d /\ d + 1 \in 0 .. j - i
        /\ i + (d + 1) = i + d + 1
    OBVIOUS
  <2>2. Ends(ss, i + d + 1) = Ends(ss, i + d) + Len(ss[i + d + 1])
    BY <2>1, FlattenPlaces
  <2>3. Len(ss[i + d + 1]) \in Nat
    BY <2>1
  <2>4. Ends(ss, i) \in Nat /\ Ends(ss, i + d) \in Nat
    BY <2>1, FlattenPlaces
  <2>. QED BY <1>2, <2>1, <2>2, <2>3, <2>4
<1>. HIDE DEF T
<1>3. 0 .. j - i \subseteq T
  BY <1>0, <1>1, <1>2, InductionTo
<1>4. j - i \in T /\ i + (j - i) = j
  <2>1. j - i \in 0 .. j - i /\ i + (j - i) = j
    BY <1>0
  <2>. QED BY <2>1, <1>3
<1>. QED BY <1>4 DEF T

\* Every place of the whole is one of some part.
LEMMA PlaceOfPart ==
  ASSUME NEW S, NEW ss \in Seq(Seq(S)), NEW p \in 1 .. Len(FlattenSeq(ss))
  PROVE  \E i \in 1 .. Len(ss) : \E q \in 1 .. Len(ss[i]) : p = Ends(ss, i - 1) + q
<1>. DEFINE T == {i \in 1 .. Len(ss) : p <= Ends(ss, i)}
<1>0. Len(ss) \in Nat /\ Len(FlattenSeq(ss)) = Ends(ss, Len(ss)) /\ Ends(ss, 0) = 0
      /\ \A i \in 0 .. Len(ss) : Ends(ss, i) \in Nat
  BY FlattenPlaces
<1>1. Len(ss) \in 1 .. Len(ss)
  BY <1>0
<1>2. T # {} /\ T \in SUBSET Nat
  <2>1. p <= Ends(ss, Len(ss))
    BY <1>0
  <2>2. Len(ss) \in T
    BY <1>1, <2>1
  <2>. QED BY <2>2
<1>3. PICK i \in T : \A k \in T : i <= k
  BY <1>2, SmallestOfSet
<1>4. Ends(ss, i - 1) < p
  <2>1. CASE i = 1
    BY <2>1, <1>0
  <2>2. CASE i # 1
    <3>1. i - 1 \in 1 .. Len(ss) /\ i - 1 \notin T
      BY <1>3, <2>2
    <3>. QED BY <3>1, <1>0, SMTT(30)
  <2>. QED BY <2>1, <2>2
<1>5. Ends(ss, i) = Ends(ss, i - 1) + Len(ss[i]) /\ Len(ss[i]) \in Nat /\ Ends(ss, i - 1) \in Nat
  BY FlattenPlaces
<1>6. p - Ends(ss, i - 1) \in 1 .. Len(ss[i]) /\ p = Ends(ss, i - 1) + (p - Ends(ss, i - 1))
  BY <1>3, <1>4, <1>5
<1>. QED BY <1>6

\* Places are in the order of the parts, and in a part in its own.
LEMMA PlacesInOrder ==
  ASSUME NEW S, NEW ss \in Seq(Seq(S)), NEW i \in 1 .. Len(ss), NEW j \in 1 .. Len(ss),
         NEW q \in 1 .. Len(ss[i]), NEW r \in 1 .. Len(ss[j])
  PROVE  /\ Ends(ss, i - 1) + q \in 1 .. Len(FlattenSeq(ss))
         /\ i < j => Ends(ss, i - 1) + q < Ends(ss, j - 1) + r
         /\ i = j => (Ends(ss, i - 1) + q < Ends(ss, j - 1) + r <=> q < r)
<1>1. /\ Ends(ss, i) = Ends(ss, i - 1) + Len(ss[i]) /\ Len(FlattenSeq(ss)) = Ends(ss, Len(ss))
      /\ Ends(ss, i - 1) \in Nat /\ Ends(ss, j - 1) \in Nat /\ Ends(ss, i) \in Nat
      /\ Ends(ss, Len(ss)) \in Nat
  <2>1. Len(ss) \in Nat /\ i - 1 \in 0 .. Len(ss) /\ j - 1 \in 0 .. Len(ss) /\ i \in 0 .. Len(ss) /\ Len(ss) \in 0 .. Len(ss)
    OBVIOUS
  <2>. QED BY <2>1, FlattenPlaces
<1>2. Len(ss[i]) \in Nat /\ Len(ss[j]) \in Nat /\ Len(ss) \in Nat
  OBVIOUS
<1>3. Ends(ss, i) <= Ends(ss, Len(ss))
  BY EndsGrow
<1>4. i < j => Ends(ss, i) <= Ends(ss, j - 1)
  <2>1. SUFFICES ASSUME i < j PROVE Ends(ss, i) <= Ends(ss, j - 1)
    OBVIOUS
  <2>2. j - 1 \in i .. Len(ss) /\ i \in 0 .. Len(ss) /\ j - 1 \in 0 .. Len(ss)
    BY <2>1
  <2>. QED BY <2>2, EndsGrow
<1>5. i - 1 \in Int /\ j - 1 \in Int /\ q >= 1 /\ q <= Len(ss[i]) /\ r >= 1 /\ r <= Len(ss[j]) /\ q \in Int /\ r \in Int
  BY <1>2
<1>. DEFINE a == Ends(ss, i - 1)  b == Ends(ss, j - 1)  c == Ends(ss, i)  d == Ends(ss, Len(ss))  l == Len(ss[i])
<1>6. c = a + l /\ Len(FlattenSeq(ss)) = d /\ a \in Nat /\ b \in Nat /\ c \in Nat /\ d \in Nat /\ c <= d /\ (i < j => c <= b)
      /\ q >= 1 /\ q <= l /\ r >= 1 /\ l \in Nat
  BY <1>1, <1>2, <1>3, <1>4, <1>5
<1>7. i = j => a = b
  OBVIOUS
<1>. HIDE DEF a, b, c, d, l
<1>8. /\ a + q \in 1 .. Len(FlattenSeq(ss))
      /\ i < j => a + q < b + r
      /\ i = j => (a + q < b + r <=> q < r)
  BY <1>5, <1>6, <1>7
<1>. QED BY <1>8 DEF a, b

-----------------------------------------------------------------------------
(* The messages as they are merged.                                        *)

\* The messages after merge_tool_messages: no tool among them, blocks in those of a user.
Blocks == [result : BOOLEAN, id : Nat, content : Seq(Tokens)]
Merged ==
  [role : Roles \ {"tool"}, content : Seq(Tokens), id : Nat, calls : Seq(Nat), task : Tasks \cup {NoTask},
   reasoning : BOOLEAN, tools : BOOLEAN, blocks : Seq(Blocks)]
Asks(msg) == msg.role \in {"user", "tool"}
BlockFor(msg) == [result |-> msg.role = "tool", id |-> msg.id, content |-> msg.content]

\* The recursion of merge_tool_messages.
MergedUpTo(f, n, ms) == f = [k \in 0 .. n |-> IF k = 0 THEN <<>> ELSE MergeOne(f[k - 1], ms[k])]
MergeTo(ms) == CHOOSE f : MergedUpTo(f, Len(ms), ms)

\* The recursion has a solution.
LEMMA MergeIsDefined ==
  ASSUME NEW n \in Nat, NEW ms
  PROVE  \E f : MergedUpTo(f, n, ms)
<1>. DEFINE S == {m \in 0 .. n : \E f : MergedUpTo(f, m, ms)}
<1>1. 0 \in S
  <2>. DEFINE f == [k \in 0 .. 0 |-> <<>>]
  <2>1. MergedUpTo(f, 0, ms)
    BY DEF MergedUpTo
  <2>. QED BY <2>1
<1>2. ASSUME NEW m \in 0 .. (n - 1), m \in S PROVE m + 1 \in S
  <2>1. PICK f : MergedUpTo(f, m, ms)
    BY <1>2
  <2>. DEFINE h(k, s) == MergeOne(s, ms[k])
              g == [k \in 0 .. m + 1 |-> IF k = m + 1 THEN h(m + 1, f[m]) ELSE f[k]]
  <2>3. f = [k \in 0 .. m |-> IF k = 0 THEN <<>> ELSE h(k, f[k - 1])]
    BY <2>1 DEF MergedUpTo
  <2>. HIDE DEF h
  <2>4. \A k \in 0 .. m : g[k] = f[k]
    OBVIOUS
  <2>5. g[m + 1] = h(m + 1, f[m])
    OBVIOUS
  <2>6. g[0] = <<>>
    BY <2>3, <2>4
  <2>7. ASSUME NEW k \in 1 .. m + 1 PROVE g[k] = h(k, g[k - 1])
    <3>1. CASE k = m + 1
      <4>1. g[k - 1] = f[m]
        BY <3>1, <2>4
      <4>. QED BY <3>1, <4>1, <2>5
    <3>2. CASE k # m + 1
      <4>1. k \in 0 .. m /\ k - 1 \in 0 .. m /\ k # 0
        BY <3>2
      <4>2. f[k] = h(k, f[k - 1])
        BY <2>3, <4>1, Zenon
      <4>. HIDE DEF g
      <4>. QED BY <4>1, <4>2, <2>4
    <3>. QED BY <3>1, <3>2
  <2>8. ASSUME NEW k \in 0 .. m + 1 PROVE g[k] = IF k = 0 THEN <<>> ELSE h(k, g[k - 1])
    <3>1. CASE k = 0
      BY <3>1, <2>6
    <3>2. CASE k # 0
      <4>1. k \in 1 .. m + 1
        BY <3>2
      <4>. HIDE DEF g
      <4>. QED BY <4>1, <3>2, <2>7
    <3>. QED BY <3>1, <3>2
  <2>9. g = [k \in 0 .. m + 1 |-> g[k]]
    OBVIOUS
  <2>10. MergedUpTo(g, m + 1, ms)
    <3>. HIDE DEF g
    <3>. QED BY <2>8, <2>9 DEF MergedUpTo, h
  <2>11. m + 1 \in 0 .. n
    OBVIOUS
  <2>. QED BY <2>10, <2>11
<1>. HIDE DEF S
<1>3. 0 .. n \subseteq S
  BY <1>1, <1>2, InductionTo
<1>. QED BY <1>3 DEF S

\* The steps of that recursion.
LEMMA MergeSteps ==
  ASSUME NEW S, NEW ms \in Seq(S)
  PROVE  /\ MergeToolMessages(ms) = MergeTo(ms)[Len(ms)] /\ MergeTo(ms)[0] = <<>>
         /\ \A k \in 1 .. Len(ms) : MergeTo(ms)[k] = MergeOne(MergeTo(ms)[k - 1], ms[k])
<1>. DEFINE f == MergeTo(ms)
<1>1. Len(ms) \in Nat
  OBVIOUS
<1>2. MergedUpTo(f, Len(ms), ms)
  BY <1>1, MergeIsDefined DEF MergeTo
<1>3. MergeToolMessages(ms) = f[Len(ms)]
  BY DEF MergeToolMessages, MergeTo, MergedUpTo
<1>. HIDE DEF f
<1>4. \A k \in 0 .. Len(ms) : f[k] = IF k = 0 THEN <<>> ELSE MergeOne(f[k - 1], ms[k])
  BY <1>2, Zenon DEF MergedUpTo
<1>5. 0 \in 0 .. Len(ms) /\ \A k \in 1 .. Len(ms) : k \in 0 .. Len(ms) /\ k # 0
  BY <1>1
<1>. QED BY <1>3, <1>4, <1>5 DEF f

\* The message that opens with one that asks.
OpenedBy(msg) ==
  [msg EXCEPT !.role = "user", !.tools = FALSE, !.blocks = <<BlockFor(msg)>>,
              !.task = IF msg.role = "tool" THEN NoTask ELSE @]

\* What becomes of a message when it is merged.
LEMMA MessageTypes ==
  ASSUME NEW msg \in Messages
  PROVE  /\ BlockFor(msg) \in Blocks
         /\ ~Asks(msg) => msg \in Merged /\ msg.role # "user"
         /\ OpenedBy(msg) \in Merged /\ OpenedBy(msg).role = "user"
         /\ OpenedBy(msg).blocks = <<BlockFor(msg)>>
<1>1. BlockFor(msg) \in Blocks
  BY DEF BlockFor, Blocks, Messages
<1>2. ~Asks(msg) => msg \in Merged /\ msg.role # "user"
  <2>1. <<>> \in Seq(Blocks)
    OBVIOUS
  <2>. QED BY <2>1 DEF Asks, Messages, Merged
<1>3. <<BlockFor(msg)>> \in Seq(Blocks)
  BY <1>1
<1>4. OpenedBy(msg) \in Merged /\ OpenedBy(msg).role = "user" /\ OpenedBy(msg).blocks = <<BlockFor(msg)>>
  <2>. DEFINE b == <<BlockFor(msg)>>
  <2>. HIDE DEF b
  <2>1. OpenedBy(msg) = [msg EXCEPT !.role = "user", !.tools = FALSE, !.blocks = b,
                                    !.task = IF msg.role = "tool" THEN NoTask ELSE @]
    BY DEF OpenedBy, b
  <2>2. b \in Seq(Blocks)
    BY <1>3 DEF b
  <2>3. "user" \in Roles \ {"tool"}
    BY DEF Roles
  <2>. QED BY <2>1, <2>2, <2>3 DEF Messages, Merged, b
<1>. QED BY <1>1, <1>2, <1>4

\* What one more message makes of those merged.
LEMMA MergeCases ==
  ASSUME NEW s \in Seq(Merged), NEW msg \in Messages
  PROVE  /\ ~Asks(msg) => MergeOne(s, msg) = Append(s, msg)
         /\ Asks(msg) /\ ~Opens(s, msg.role) => MergeOne(s, msg) = Append(s, OpenedBy(msg))
         /\ Asks(msg) /\ Opens(s, msg.role) =>
              /\ Len(s) > 0 /\ s[Len(s)].role = "user"
              /\ MergeOne(s, msg) = [s EXCEPT ![Len(s)].blocks = Append(@, BlockFor(msg))]
<1>1. ~Asks(msg) => MergeOne(s, msg) = Append(s, msg)
  BY DEF MergeOne, Asks
<1>2. Asks(msg) /\ ~Opens(s, msg.role) => MergeOne(s, msg) = Append(s, OpenedBy(msg))
  BY DEF MergeOne, Asks, OpenedBy, BlockFor
<1>3. Asks(msg) /\ Opens(s, msg.role) =>
              /\ Len(s) > 0 /\ s[Len(s)].role = "user"
              /\ MergeOne(s, msg) = [s EXCEPT ![Len(s)].blocks = Append(@, BlockFor(msg))]
  <2>. SUFFICES ASSUME Asks(msg), Opens(s, msg.role)
                PROVE /\ Len(s) > 0 /\ s[Len(s)].role = "user"
                      /\ MergeOne(s, msg) = [s EXCEPT ![Len(s)].blocks = Append(@, BlockFor(msg))]
    OBVIOUS
  <2>1. s # <<>> /\ s[Len(s)].role = "user"
    BY DEF Opens, Last
  <2>2. MergeOne(s, msg) = [s EXCEPT ![Len(s)].blocks = Append(@, BlockFor(msg))]
    BY DEF MergeOne, Asks, BlockFor
  <2>. QED BY <2>1, <2>2
<1>. QED BY <1>1, <1>2, <1>3

\* Where a message is among those merged, and its block in it.
Spot(ms, i) == Len(MergeTo(ms)[i])
BlockOf(ms, i) == Len(MergeTo(ms)[i][Spot(ms, i)].blocks)

\* Each message is at its spot, and nothing else is anywhere.
MergeInv(ms, k) ==
  LET s == MergeTo(ms)[k] IN
  /\ s \in Seq(Merged)
  /\ \A i \in 1 .. k :
       /\ Spot(ms, i) \in 1 .. Len(s)
       /\ ~Asks(ms[i]) => s[Spot(ms, i)] = ms[i]
       /\ Asks(ms[i]) => /\ s[Spot(ms, i)].role = "user"
                         /\ BlockOf(ms, i) \in 1 .. Len(s[Spot(ms, i)].blocks)
                         /\ s[Spot(ms, i)].blocks[BlockOf(ms, i)] = BlockFor(ms[i])
  /\ \A p \in 1 .. Len(s) :
       /\ \E i \in 1 .. k : Spot(ms, i) = p /\ (Asks(ms[i]) <=> s[p].role = "user")
       /\ s[p].role = "user" =>
            \A b \in 1 .. Len(s[p].blocks) : \E i \in 1 .. k : Asks(ms[i]) /\ Spot(ms, i) = p /\ BlockOf(ms, i) = b

\* A message appended.
LEMMA MergeAppends ==
  ASSUME NEW ms \in Seq(Messages), NEW k \in 0 .. Len(ms) - 1, MergeInv(ms, k),
         NEW msg \in Merged, MergeTo(ms)[k + 1] = Append(MergeTo(ms)[k], msg),
         ~Asks(ms[k + 1]) => msg = ms[k + 1] /\ msg.role # "user",
         Asks(ms[k + 1]) => msg.role = "user" /\ msg.blocks = <<BlockFor(ms[k + 1])>>
  PROVE  MergeInv(ms, k + 1) /\ Spot(ms, k + 1) = Len(MergeTo(ms)[k]) + 1
<1>. DEFINE s == MergeTo(ms)[k]  t == MergeTo(ms)[k + 1]
<1>0. Asks(ms[k + 1]) => Len(msg.blocks) = 1 /\ msg.blocks[1] = BlockFor(ms[k + 1])
  <2>1. Len(<<BlockFor(ms[k + 1])>>) = 1 /\ <<BlockFor(ms[k + 1])>>[1] = BlockFor(ms[k + 1])
    OBVIOUS
  <2>. QED BY <2>1
<1>1. s \in Seq(Merged) /\ Len(s) \in Nat
  BY DEF MergeInv
<1>. HIDE DEF s
<1>2. t \in Seq(Merged) /\ Len(t) = Len(s) + 1 /\ t[Len(s) + 1] = msg /\ \A p \in 1 .. Len(s) : t[p] = s[p]
  BY <1>1 DEF s
<1>. HIDE DEF t
<1>3. Spot(ms, k + 1) = Len(s) + 1
  BY <1>2 DEF Spot, t
<1>4. Asks(ms[k + 1]) => BlockOf(ms, k + 1) = 1
  BY <1>0, <1>2, <1>3 DEF BlockOf, t
<1>5. ASSUME NEW i \in 1 .. k + 1
      PROVE  /\ Spot(ms, i) \in 1 .. Len(t)
             /\ ~Asks(ms[i]) => t[Spot(ms, i)] = ms[i]
             /\ Asks(ms[i]) => /\ t[Spot(ms, i)].role = "user"
                               /\ BlockOf(ms, i) \in 1 .. Len(t[Spot(ms, i)].blocks)
                               /\ t[Spot(ms, i)].blocks[BlockOf(ms, i)] = BlockFor(ms[i])
  <2>1. CASE i = k + 1
    BY <2>1, <1>0, <1>1, <1>2, <1>3, <1>4
  <2>2. CASE i # k + 1
    <3>1. i \in 1 .. k
      BY <2>2
    <3>2. /\ Spot(ms, i) \in 1 .. Len(s)
          /\ ~Asks(ms[i]) => s[Spot(ms, i)] = ms[i]
          /\ Asks(ms[i]) => /\ s[Spot(ms, i)].role = "user"
                            /\ BlockOf(ms, i) \in 1 .. Len(s[Spot(ms, i)].blocks)
                            /\ s[Spot(ms, i)].blocks[BlockOf(ms, i)] = BlockFor(ms[i])
      BY <3>1 DEF MergeInv, s
    <3>3. t[Spot(ms, i)] = s[Spot(ms, i)] /\ Spot(ms, i) \in 1 .. Len(t)
      BY <3>2, <1>2, <1>1
    <3>. QED BY <3>2, <3>3
  <2>. QED BY <2>1, <2>2
<1>6. ASSUME NEW p \in 1 .. Len(t)
      PROVE  /\ \E i \in 1 .. k + 1 : Spot(ms, i) = p /\ (Asks(ms[i]) <=> t[p].role = "user")
             /\ t[p].role = "user" =>
                  \A b \in 1 .. Len(t[p].blocks) :
                    \E i \in 1 .. k + 1 : Asks(ms[i]) /\ Spot(ms, i) = p /\ BlockOf(ms, i) = b
  <2>0. \A i \in 1 .. k : i \in 1 .. k + 1
    OBVIOUS
  <2>1. CASE p = Len(s) + 1
    <3>1. k + 1 \in 1 .. k + 1 /\ t[p] = msg
      BY <2>1, <1>2
    <3>2. Asks(ms[k + 1]) <=> msg.role = "user"
      OBVIOUS
    <3>3. msg.role = "user" => Len(msg.blocks) = 1
      BY <3>2, <1>0
    <3>4. \A b \in 1 .. 1 : b = 1
      OBVIOUS
    <3>. QED BY <3>1, <3>2, <3>3, <3>4, <2>1, <1>3, <1>4
  <2>2. CASE p # Len(s) + 1
    <3>1. p \in 1 .. Len(s) /\ t[p] = s[p]
      BY <2>2, <1>1, <1>2
    <3>2. /\ \E i \in 1 .. k : Spot(ms, i) = p /\ (Asks(ms[i]) <=> s[p].role = "user")
          /\ s[p].role = "user" =>
               \A b \in 1 .. Len(s[p].blocks) :
                 \E i \in 1 .. k : Asks(ms[i]) /\ Spot(ms, i) = p /\ BlockOf(ms, i) = b
      BY <3>1 DEF MergeInv, s
    <3>. QED BY <3>1, <3>2, <2>0
  <2>. QED BY <2>1, <2>2
<1>. QED BY <1>2, <1>3, <1>5, <1>6 DEF MergeInv, t, s

\* A block appended to the last message.
LEMMA MergeExtends ==
  ASSUME NEW ms \in Seq(Messages), NEW k \in 0 .. Len(ms) - 1, MergeInv(ms, k), Asks(ms[k + 1]),
         NEW block \in Blocks, block = BlockFor(ms[k + 1]),
         Len(MergeTo(ms)[k]) > 0, MergeTo(ms)[k][Len(MergeTo(ms)[k])].role = "user",
         MergeTo(ms)[k + 1] = [MergeTo(ms)[k] EXCEPT ![Len(MergeTo(ms)[k])].blocks = Append(@, block)]
  PROVE  /\ MergeInv(ms, k + 1) /\ k > 0 /\ Spot(ms, k + 1) = Spot(ms, k) /\ Asks(ms[k])
         /\ BlockOf(ms, k + 1) = BlockOf(ms, k) + 1
<1>. DEFINE s == MergeTo(ms)[k]  t == MergeTo(ms)[k + 1]  l == Len(s)  bs == s[l].blocks
<1>1. s \in Seq(Merged) /\ l \in Nat /\ l > 0 /\ s[l].role = "user" /\ k \in Nat
  BY DEF MergeInv
<1>2. s[l] \in Merged
  BY <1>1
<1>3. bs \in Seq(Blocks) /\ Append(bs, block) \in Seq(Blocks) /\ Len(Append(bs, block)) = Len(bs) + 1 /\ Len(bs) \in Nat
      /\ Append(bs, block)[Len(bs) + 1] = block /\ \A b \in 1 .. Len(bs) : Append(bs, block)[b] = bs[b]
  <2>1. bs \in Seq(Blocks)
    BY <1>2 DEF Merged
  <2>. HIDE DEF bs
  <2>. QED BY <2>1
<1>4. t = [s EXCEPT ![l].blocks = Append(@, block)]
  OBVIOUS
<1>. HIDE DEF s, t
<1>. DEFINE msg == [s[l] EXCEPT !.blocks = Append(bs, block)]
<1>5. msg \in Merged /\ msg.role = "user" /\ msg.blocks = Append(bs, block)
  BY <1>1, <1>2, <1>3 DEF Merged
<1>6. t = [s EXCEPT ![l] = msg]
  BY <1>4
<1>. HIDE DEF msg, bs
<1>7. t \in Seq(Merged) /\ Len(t) = l /\ t[l] = msg /\ \A p \in 1 .. l : p # l => t[p] = s[p]
  BY <1>1, <1>5, <1>6
<1>8. Spot(ms, k + 1) = l /\ BlockOf(ms, k + 1) = Len(bs) + 1
  BY <1>7, <1>5, <1>3 DEF Spot, BlockOf, t
<1>9. k > 0 /\ k \in 1 .. k
  <2>1. \E i \in 1 .. k : TRUE
    BY <1>1 DEF MergeInv, s
  <2>. QED BY <2>1, <1>1
<1>10. Spot(ms, k) = l /\ BlockOf(ms, k) = Len(bs)
  BY DEF Spot, BlockOf, s, bs
<1>11. ASSUME NEW i \in 1 .. k
       PROVE  /\ Spot(ms, i) \in 1 .. l
              /\ Spot(ms, i) = l => Asks(ms[i])
              /\ ~Asks(ms[i]) => s[Spot(ms, i)] = ms[i]
              /\ Asks(ms[i]) => /\ s[Spot(ms, i)].role = "user"
                                /\ BlockOf(ms, i) \in 1 .. Len(s[Spot(ms, i)].blocks)
                                /\ s[Spot(ms, i)].blocks[BlockOf(ms, i)] = BlockFor(ms[i])
  <2>1. /\ Spot(ms, i) \in 1 .. l
        /\ ~Asks(ms[i]) => s[Spot(ms, i)] = ms[i]
        /\ Asks(ms[i]) => /\ s[Spot(ms, i)].role = "user"
                          /\ BlockOf(ms, i) \in 1 .. Len(s[Spot(ms, i)].blocks)
                          /\ s[Spot(ms, i)].blocks[BlockOf(ms, i)] = BlockFor(ms[i])
    BY DEF MergeInv, s
  <2>2. ~Asks(ms[i]) => ms[i].role # "user"
    BY DEF Asks
  <2>. QED BY <2>1, <2>2, <1>1
<1>12. ASSUME NEW i \in 1 .. k + 1
       PROVE  /\ Spot(ms, i) \in 1 .. Len(t)
              /\ ~Asks(ms[i]) => t[Spot(ms, i)] = ms[i]
              /\ Asks(ms[i]) => /\ t[Spot(ms, i)].role = "user"
                                /\ BlockOf(ms, i) \in 1 .. Len(t[Spot(ms, i)].blocks)
                                /\ t[Spot(ms, i)].blocks[BlockOf(ms, i)] = BlockFor(ms[i])
  <2>1. CASE i = k + 1
    BY <2>1, <1>1, <1>3, <1>5, <1>7, <1>8, SMTT(30)
  <2>2. CASE i # k + 1 /\ Spot(ms, i) # l
    <3>1. i \in 1 .. k
      BY <2>2
    <3>2. t[Spot(ms, i)] = s[Spot(ms, i)]
      BY <3>1, <2>2, <1>7, <1>11
    <3>. QED BY <3>1, <3>2, <1>7, <1>11
  <2>3. CASE i # k + 1 /\ Spot(ms, i) = l
    <3>1. i \in 1 .. k
      BY <2>3
    <3>2. Asks(ms[i]) /\ BlockOf(ms, i) \in 1 .. Len(bs) /\ bs[BlockOf(ms, i)] = BlockFor(ms[i])
      BY <3>1, <2>3, <1>11 DEF bs
    <3>. QED BY <3>2, <2>3, <1>1, <1>3, <1>5, <1>7, SMTT(30)
  <2>. QED BY <2>1, <2>2, <2>3
<1>13. ASSUME NEW p \in 1 .. Len(t)
       PROVE  /\ \E i \in 1 .. k + 1 : Spot(ms, i) = p /\ (Asks(ms[i]) <=> t[p].role = "user")
              /\ t[p].role = "user" =>
                   \A b \in 1 .. Len(t[p].blocks) :
                     \E i \in 1 .. k + 1 : Asks(ms[i]) /\ Spot(ms, i) = p /\ BlockOf(ms, i) = b
  <2>0. /\ \A i \in 1 .. k : i \in 1 .. k + 1
        /\ k + 1 \in 1 .. k + 1 /\ p \in 1 .. l
    BY <1>7, <1>1
  <2>1. /\ \E i \in 1 .. k : Spot(ms, i) = p /\ (Asks(ms[i]) <=> s[p].role = "user")
        /\ s[p].role = "user" =>
             \A b \in 1 .. Len(s[p].blocks) :
               \E i \in 1 .. k : Asks(ms[i]) /\ Spot(ms, i) = p /\ BlockOf(ms, i) = b
    BY <2>0 DEF MergeInv, s
  <2>2. CASE p # l
    BY <2>0, <2>1, <2>2, <1>7
  <2>3. CASE p = l
    <3>1. \A b \in 1 .. Len(t[p].blocks) : b \in 1 .. Len(bs) \/ b = Len(bs) + 1
      BY <2>3, <1>7, <1>5, <1>3
    <3>2. \A b \in 1 .. Len(bs) : \E i \in 1 .. k : Asks(ms[i]) /\ Spot(ms, i) = p /\ BlockOf(ms, i) = b
      BY <2>1, <2>3, <1>1 DEF bs
    <3>. QED BY <3>1, <3>2, <2>0, <2>3, <1>5, <1>7, <1>8
  <2>. QED BY <2>2, <2>3
<1>14. MergeInv(ms, k + 1)
  BY <1>7, <1>12, <1>13 DEF MergeInv, t
<1>. QED BY <1>8, <1>9, <1>10, <1>11, <1>14

\* One message more.
LEMMA MergeInvStep ==
  ASSUME NEW ms \in Seq(Messages), NEW k \in 0 .. Len(ms) - 1, MergeInv(ms, k)
  PROVE  /\ MergeInv(ms, k + 1)
         /\ \/ Spot(ms, k + 1) = Len(MergeTo(ms)[k]) + 1
            \/ /\ Spot(ms, k + 1) = Len(MergeTo(ms)[k]) /\ k > 0 /\ Asks(ms[k]) /\ Asks(ms[k + 1])
               /\ BlockOf(ms, k + 1) = BlockOf(ms, k) + 1
         /\ k > 0 /\ Asks(ms[k]) /\ ms[k + 1].role = "tool" => Spot(ms, k + 1) = Spot(ms, k)
<1>. DEFINE s == MergeTo(ms)[k]  msg == ms[k + 1]
<1>1. s \in Seq(Merged) /\ k + 1 \in 1 .. Len(ms) /\ msg \in Messages /\ (k + 1) - 1 = k
  BY DEF MergeInv
<1>2. MergeTo(ms)[k + 1] = MergeOne(s, msg)
  BY <1>1, MergeSteps
<1>. HIDE DEF s, msg
<1>3. CASE ~Asks(msg)
  <2>1. MergeTo(ms)[k + 1] = Append(s, msg) /\ msg \in Merged /\ msg.role # "user"
    BY <1>1, <1>2, <1>3, MergeCases, MessageTypes
  <2>2. MergeInv(ms, k + 1) /\ Spot(ms, k + 1) = Len(MergeTo(ms)[k]) + 1
    BY <2>1, <1>3, MergeAppends DEF s, msg
  <2>3. msg.role # "tool"
    BY <1>3 DEF Asks
  <2>. QED BY <2>2, <2>3 DEF msg
<1>4. CASE Asks(msg) /\ ~Opens(s, msg.role)
  <2>1. MergeTo(ms)[k + 1] = Append(s, OpenedBy(msg))
    BY <1>1, <1>2, <1>4, MergeCases
  <2>2. OpenedBy(msg) \in Merged /\ OpenedBy(msg).role = "user" /\ OpenedBy(msg).blocks = <<BlockFor(msg)>>
    BY <1>1, MessageTypes
  <2>. DEFINE o == OpenedBy(msg)
  <2>. HIDE DEF o
  <2>3. MergeInv(ms, k + 1) /\ Spot(ms, k + 1) = Len(MergeTo(ms)[k]) + 1
    <3>1. o \in Merged /\ o.role = "user" /\ o.blocks = <<BlockFor(ms[k + 1])>>
          /\ MergeTo(ms)[k + 1] = Append(MergeTo(ms)[k], o) /\ Asks(ms[k + 1])
      BY <2>1, <2>2, <1>4 DEF o, msg, s
    <3>. QED BY <3>1, MergeAppends
  <2>4. ~(k > 0 /\ Asks(ms[k]) /\ msg.role = "tool")
    <3>. SUFFICES ASSUME k > 0, Asks(ms[k]), msg.role = "tool" PROVE FALSE
      OBVIOUS
    <3>1. k \in 1 .. k
      OBVIOUS
    <3>2. s[Spot(ms, k)].role = "user" /\ Spot(ms, k) \in 1 .. Len(s)
      BY <3>1 DEF MergeInv, s
    <3>3. s[Len(s)].role = "user" /\ s # <<>>
      BY <3>2, <1>1 DEF Spot, s
    <3>. QED BY <3>3, <1>4 DEF Opens, Last
  <2>. QED BY <2>3, <2>4 DEF msg
<1>5. CASE Asks(msg) /\ Opens(s, msg.role)
  <2>1. /\ Len(s) > 0 /\ s[Len(s)].role = "user"
        /\ MergeTo(ms)[k + 1] = [s EXCEPT ![Len(s)].blocks = Append(@, BlockFor(msg))]
    BY <1>1, <1>2, <1>5, MergeCases
  <2>. DEFINE b == BlockFor(msg)
  <2>2. b \in Blocks /\ b = BlockFor(ms[k + 1])
    BY <1>1, MessageTypes DEF msg
  <2>. HIDE DEF b
  <2>3. MergeTo(ms)[k + 1] = [MergeTo(ms)[k] EXCEPT ![Len(MergeTo(ms)[k])].blocks = Append(@, b)]
    BY <2>1 DEF s, b
  <2>4. /\ MergeInv(ms, k + 1) /\ k > 0 /\ Spot(ms, k + 1) = Spot(ms, k) /\ Asks(ms[k])
        /\ BlockOf(ms, k + 1) = BlockOf(ms, k) + 1
    BY <2>1, <2>2, <2>3, <1>5, MergeExtends DEF s, msg
  <2>. QED BY <2>4, <1>5 DEF Spot, msg
<1>. QED BY <1>3, <1>4, <1>5

\* It holds of every prefix.
LEMMA MergeHolds ==
  ASSUME NEW ms \in Seq(Messages), NEW k \in 0 .. Len(ms)
  PROVE  MergeInv(ms, k)
<1>. DEFINE T == {m \in 0 .. Len(ms) : MergeInv(ms, m)}
<1>0. Len(ms) \in Nat
  OBVIOUS
<1>1. 0 \in T
  <2>1. MergeTo(ms)[0] = <<>>
    BY MergeSteps
  <2>2. MergeInv(ms, 0)
    BY <2>1 DEF MergeInv
  <2>. QED BY <2>2, <1>0
<1>2. ASSUME NEW m \in 0 .. (Len(ms) - 1), m \in T PROVE m + 1 \in T
  <2>1. MergeInv(ms, m + 1)
    BY <1>2, MergeInvStep
  <2>2. m + 1 \in 0 .. Len(ms)
    OBVIOUS
  <2>. QED BY <2>1, <2>2
<1>. HIDE DEF T
<1>3. 0 .. Len(ms) \subseteq T
  BY <1>0, <1>1, <1>2, InductionTo
<1>. QED BY <1>3 DEF T

\* The spot of the next message.
LEMMA SpotSteps ==
  ASSUME NEW ms \in Seq(Messages), NEW k \in 0 .. Len(ms) - 1
  PROVE  /\ Spot(ms, k) \in Nat
         /\ \/ Spot(ms, k + 1) = Spot(ms, k) + 1
            \/ /\ Spot(ms, k + 1) = Spot(ms, k) /\ k > 0 /\ Asks(ms[k]) /\ Asks(ms[k + 1])
               /\ BlockOf(ms, k + 1) = BlockOf(ms, k) + 1
         /\ k > 0 /\ Asks(ms[k]) /\ ms[k + 1].role = "tool" => Spot(ms, k + 1) = Spot(ms, k)
<1>1. k \in 0 .. Len(ms)
  OBVIOUS
<1>2. MergeInv(ms, k)
  BY <1>1, MergeHolds
<1>3. Spot(ms, k) \in Nat /\ Spot(ms, k) = Len(MergeTo(ms)[k])
  BY <1>2 DEF MergeInv, Spot
<1>. QED BY <1>2, <1>3, MergeInvStep

\* Messages are at spots in their order, and those that share one all ask, in the order
\* of their blocks.
LEMMA SpotsGrow ==
  ASSUME NEW ms \in Seq(Messages), NEW i \in 1 .. Len(ms), NEW j \in i .. Len(ms)
  PROVE  \/ Spot(ms, i) < Spot(ms, j)
         \/ /\ Spot(ms, i) = Spot(ms, j) /\ BlockOf(ms, j) = BlockOf(ms, i) + (j - i)
            /\ i < j => \A k \in i .. j : Asks(ms[k])
<1>. DEFINE G(d) == \/ Spot(ms, i) < Spot(ms, i + d)
                    \/ /\ Spot(ms, i) = Spot(ms, i + d) /\ BlockOf(ms, i + d) = BlockOf(ms, i) + d
                       /\ 0 < d => \A k \in i .. i + d : Asks(ms[k])
            T == {d \in 0 .. j - i : G(d)}
<1>0. j - i \in Nat /\ Len(ms) \in Nat /\ i \in Nat
  OBVIOUS
<1>1. \A k \in 1 .. Len(ms) : Spot(ms, k) \in Nat
  <2>. SUFFICES ASSUME NEW k \in 1 .. Len(ms) PROVE Spot(ms, k) \in Nat
    OBVIOUS
  <2>1. MergeInv(ms, k) /\ k \in 1 .. k
    BY MergeHolds
  <2>. QED BY <2>1 DEF MergeInv
<1>2. \A k \in 1 .. Len(ms) : Asks(ms[k]) => BlockOf(ms, k) \in Nat
  <2>. SUFFICES ASSUME NEW k \in 1 .. Len(ms), Asks(ms[k]) PROVE BlockOf(ms, k) \in Nat
    OBVIOUS
  <2>1. MergeInv(ms, k) /\ k \in 1 .. k
    BY MergeHolds
  <2>2. BlockOf(ms, k) \in 1 .. Len(MergeTo(ms)[k][Spot(ms, k)].blocks)
    BY <2>1 DEF MergeInv
  <2>. QED BY <2>2
<1>3. 0 \in T
  <2>1. MergeInv(ms, i) /\ i \in 1 .. i
    BY MergeHolds
  <2>2. MergeTo(ms)[i] \in Seq(Merged) /\ Spot(ms, i) \in 1 .. Len(MergeTo(ms)[i])
    BY <2>1 DEF MergeInv
  <2>3. MergeTo(ms)[i][Spot(ms, i)] \in Merged
    BY <2>2
  <2>4. BlockOf(ms, i) \in Nat
    BY <2>3 DEF BlockOf, Merged
  <2>5. i + 0 = i /\ 0 \in 0 .. j - i
    BY <1>0
  <2>6. BlockOf(ms, i + 0) = BlockOf(ms, i) + 0
    BY <2>4, <2>5
  <2>. QED BY <2>5, <2>6
<1>4. ASSUME NEW d \in 0 .. ((j - i) - 1), d \in T PROVE d + 1 \in T
  <2>1. i + d \in 0 .. Len(ms) - 1 /\ i + d \in 1 .. Len(ms) /\ i + (d + 1) = i + d + 1 /\ i + d + 1 \in 1 .. Len(ms)
        /\ d + 1 \in 0 .. j - i /\ d \in Nat
    OBVIOUS
  <2>2. \/ Spot(ms, i + d + 1) = Spot(ms, i + d) + 1
        \/ /\ Spot(ms, i + d + 1) = Spot(ms, i + d) /\ Asks(ms[i + d]) /\ Asks(ms[i + d + 1])
           /\ BlockOf(ms, i + d + 1) = BlockOf(ms, i + d) + 1
    BY <2>1, SpotSteps
  <2>3. Spot(ms, i) \in Nat /\ Spot(ms, i + d) \in Nat
    BY <2>1, <1>1
  <2>4. CASE Spot(ms, i) < Spot(ms, i + d)
    <3>1. Spot(ms, i) < Spot(ms, i + d + 1)
      BY <2>2, <2>3, <2>4
    <3>. QED BY <3>1, <2>1
  <2>5. CASE ~(Spot(ms, i) < Spot(ms, i + d))
    <3>1. Spot(ms, i) = Spot(ms, i + d) /\ BlockOf(ms, i + d) = BlockOf(ms, i) + d
          /\ (0 < d => \A k \in i .. i + d : Asks(ms[k]))
      BY <1>4, <2>5
    <3>2. CASE Spot(ms, i + d + 1) = Spot(ms, i + d) + 1
      <4>1. Spot(ms, i) < Spot(ms, i + d + 1)
        BY <3>1, <3>2, <2>3
      <4>. QED BY <4>1, <2>1
    <3>3. CASE ~(Spot(ms, i + d + 1) = Spot(ms, i + d) + 1)
      <4>1. /\ Spot(ms, i + d + 1) = Spot(ms, i + d) /\ Asks(ms[i + d]) /\ Asks(ms[i + d + 1])
            /\ BlockOf(ms, i + d + 1) = BlockOf(ms, i + d) + 1
        BY <2>2, <3>3
      <4>2. \A k \in i .. i + d + 1 : Asks(ms[k])
        <5>. SUFFICES ASSUME NEW k \in i .. i + d + 1 PROVE Asks(ms[k])
          OBVIOUS
        <5>1. k = i + d + 1 \/ k = i + d \/ (0 < d /\ k \in i .. i + d)
          BY <2>1
        <5>. QED BY <5>1, <4>1, <3>1
      <4>3. i \in i .. i + d + 1
        BY <2>1
      <4>4. BlockOf(ms, i) \in Nat
        BY <4>2, <4>3, <1>2
      <4>5. BlockOf(ms, i + d + 1) = BlockOf(ms, i) + (d + 1)
        BY <4>1, <4>4, <3>1, <2>1
      <4>. QED BY <4>1, <4>2, <4>5, <3>1, <2>1
    <3>. QED BY <3>2, <3>3
  <2>. QED BY <2>4, <2>5
<1>. HIDE DEF T
<1>5. 0 .. j - i \subseteq T
  BY <1>0, <1>3, <1>4, InductionTo
<1>6. j - i \in T /\ i + (j - i) = j /\ (0 < j - i <=> i < j)
  <2>1. j - i \in 0 .. j - i /\ i + (j - i) = j /\ (0 < j - i <=> i < j)
    BY <1>0
  <2>. QED BY <2>1, <1>5
<1>7. G(j - i)
  BY <1>6 DEF T
<1>. QED BY <1>6, <1>7

\* Results that follow each other are blocks of one message.
LEMMA ResultsTogether ==
  ASSUME NEW ms \in Seq(Messages), NEW i \in 1 .. Len(ms), NEW j \in i .. Len(ms),
         \A k \in i .. j : ms[k].role = "tool"
  PROVE  Spot(ms, i) = Spot(ms, j)
<1>. DEFINE T == {d \in 0 .. j - i : Spot(ms, i) = Spot(ms, i + d)}
<1>0. j - i \in Nat /\ Len(ms) \in Nat /\ i \in Nat
  OBVIOUS
<1>1. 0 \in T
  BY <1>0
<1>2. ASSUME NEW d \in 0 .. ((j - i) - 1), d \in T PROVE d + 1 \in T
  <2>1. i + d \in 0 .. Len(ms) - 1 /\ i + d > 0 /\ i + (d + 1) = i + d + 1 /\ i + d + 1 \in i .. j /\ i + d \in i .. j
        /\ d + 1 \in 0 .. j - i
    OBVIOUS
  <2>2. ms[i + d].role = "tool" /\ ms[i + d + 1].role = "tool"
    BY <2>1
  <2>3. Spot(ms, i + d + 1) = Spot(ms, i + d)
    BY <2>1, <2>2, SpotSteps DEF Asks
  <2>. QED BY <2>1, <2>3, <1>2
<1>. HIDE DEF T
<1>3. 0 .. j - i \subseteq T
  BY <1>0, <1>1, <1>2, InductionTo
<1>4. j - i \in T /\ i + (j - i) = j
  <2>1. j - i \in 0 .. j - i /\ i + (j - i) = j
    BY <1>0
  <2>. QED BY <2>1, <1>3
<1>. QED BY <1>4 DEF T

\* The messages when all are merged.
LEMMA MergedAre ==
  ASSUME NEW ms \in Seq(Messages)
  PROVE  LET s == MergeToolMessages(ms) IN
         /\ s \in Seq(Merged)
         /\ \A i \in 1 .. Len(ms) :
              /\ Spot(ms, i) \in 1 .. Len(s)
              /\ ~Asks(ms[i]) => s[Spot(ms, i)] = ms[i]
              /\ Asks(ms[i]) => /\ s[Spot(ms, i)].role = "user"
                                /\ BlockOf(ms, i) \in 1 .. Len(s[Spot(ms, i)].blocks)
                                /\ s[Spot(ms, i)].blocks[BlockOf(ms, i)] = BlockFor(ms[i])
         /\ \A p \in 1 .. Len(s) :
              /\ \E i \in 1 .. Len(ms) : Spot(ms, i) = p /\ (Asks(ms[i]) <=> s[p].role = "user")
              /\ s[p].role = "user" =>
                   \A b \in 1 .. Len(s[p].blocks) :
                     \E i \in 1 .. Len(ms) : Asks(ms[i]) /\ Spot(ms, i) = p /\ BlockOf(ms, i) = b
<1>1. MergeToolMessages(ms) = MergeTo(ms)[Len(ms)]
  BY MergeSteps
<1>2. Len(ms) \in 0 .. Len(ms)
  OBVIOUS
<1>3. MergeInv(ms, Len(ms))
  BY <1>2, MergeHolds
<1>. QED BY <1>1, <1>3 DEF MergeInv

-----------------------------------------------------------------------------
(* The calls that results are sorted by.                                   *)

\* The last calls are those of the last message that has some.
LEMMA LastCallsAre ==
  ASSUME NEW S, NEW s \in Seq(S), NEW i \in 1 .. Len(s) + 1
  PROVE  /\ \A j \in 1 .. i - 1 :
              /\ s[j].role = "assistant" /\ s[j].calls # <<>>
              /\ \A k \in j + 1 .. i - 1 : ~(s[k].role = "assistant" /\ s[k].calls # <<>>)
              => LastCalls(s, i) = s[j].calls
         /\ (\A j \in 1 .. i - 1 : ~(s[j].role = "assistant" /\ s[j].calls # <<>>)) => LastCalls(s, i) = <<>>
         /\ \/ \A j \in 1 .. i - 1 : ~(s[j].role = "assistant" /\ s[j].calls # <<>>)
            \/ \E j \in 1 .. i - 1 :
                 /\ s[j].role = "assistant" /\ s[j].calls # <<>>
                 /\ \A k \in j + 1 .. i - 1 : ~(s[k].role = "assistant" /\ s[k].calls # <<>>)
<1>. DEFINE W == {j \in 1 .. i - 1 : s[j].role = "assistant" /\ s[j].calls # <<>>}
<1>1. ASSUME NEW j \in W, \A k \in j + 1 .. i - 1 : k \notin W PROVE Max(W) = j
  <2>1. \A k \in W : j >= k
    <3>. SUFFICES ASSUME NEW k \in W, k > j PROVE FALSE
      OBVIOUS
    <3>1. k \in j + 1 .. i - 1
      OBVIOUS
    <3>. QED BY <3>1, <1>1
  <2>2. \A m \in W : (\A k \in W : m >= k) => m = j
    <3>. SUFFICES ASSUME NEW m \in W, \A k \in W : m >= k PROVE m = j
      OBVIOUS
    <3>1. m >= j /\ j >= m /\ m \in Int /\ j \in Int
      BY <2>1
    <3>. QED BY <3>1
  <2>. HIDE DEF W
  <2>. QED BY <2>1, <2>2 DEF Max
<1>2. W # {} => \E j \in W : \A k \in j + 1 .. i - 1 : k \notin W
  <2>. SUFFICES ASSUME W # {} PROVE \E j \in W : \A k \in j + 1 .. i - 1 : k \notin W
    OBVIOUS
  <2>. DEFINE V == {i - j : j \in W}
  <2>1. V \in SUBSET Nat /\ V # {}
    OBVIOUS
  <2>2. PICK v \in V : \A u \in V : v <= u
    BY <2>1, SmallestOfSet
  <2>3. PICK j \in W : v = i - j
    OBVIOUS
  <2>4. \A k \in j + 1 .. i - 1 : k \notin W
    <3>. SUFFICES ASSUME NEW k \in j + 1 .. i - 1, k \in W PROVE FALSE
      OBVIOUS
    <3>1. i - k \in V
      OBVIOUS
    <3>2. i - j <= i - k
      BY <3>1, <2>2, <2>3
    <3>. QED BY <3>2
  <2>. QED BY <2>3, <2>4
<1>3. LastCalls(s, i) = IF W = {} THEN <<>> ELSE s[Max(W)].calls
  BY DEF LastCalls
<1>4. ASSUME NEW j \in 1 .. i - 1, s[j].role = "assistant" /\ s[j].calls # <<>>,
             \A k \in j + 1 .. i - 1 : ~(s[k].role = "assistant" /\ s[k].calls # <<>>)
      PROVE  LastCalls(s, i) = s[j].calls
  <2>1. j \in W /\ \A k \in j + 1 .. i - 1 : k \notin W
    BY <1>4
  <2>. HIDE DEF W
  <2>. QED BY <2>1, <1>1, <1>3
<1>5. (\A j \in 1 .. i - 1 : ~(s[j].role = "assistant" /\ s[j].calls # <<>>)) => W = {}
  OBVIOUS
<1>6. CASE W = {}
  <2>1. \A j \in 1 .. i - 1 : ~(s[j].role = "assistant" /\ s[j].calls # <<>>)
    BY <1>6
  <2>. QED BY <2>1, <1>3, <1>4, <1>5
<1>7. CASE W # {}
  <2>1. PICK j \in W : \A k \in j + 1 .. i - 1 : k \notin W
    BY <1>2, <1>7
  <2>2. j \in 1 .. i - 1 /\ s[j].role = "assistant" /\ s[j].calls # <<>>
    OBVIOUS
  <2>3. \A k \in j + 1 .. i - 1 : ~(s[k].role = "assistant" /\ s[k].calls # <<>>)
    <3>. SUFFICES ASSUME NEW k \in j + 1 .. i - 1, s[k].role = "assistant" /\ s[k].calls # <<>> PROVE FALSE
      OBVIOUS
    <3>1. k \in 1 .. i - 1
      OBVIOUS
    <3>. QED BY <3>1, <2>1
  <2>. QED BY <2>2, <2>3, <1>3, <1>4, <1>5
<1>. QED BY <1>6, <1>7

-----------------------------------------------------------------------------
(* The sort of the results.                                                *)

\* A bounded set has its maximum.
LEMMA MaxOfBounded ==
  ASSUME NEW S \in SUBSET Nat, S # {}, NEW b \in Nat, \A x \in S : x <= b
  PROVE  Max(S) \in S /\ \A x \in S : x <= Max(S)
<1>. DEFINE V == {b - x : x \in S}
<1>1. V \in SUBSET Nat /\ V # {}
  <2>1. \A x \in S : b - x \in Nat
    OBVIOUS
  <2>. QED BY <2>1
<1>2. PICK v \in V : \A u \in V : v <= u
  BY <1>1, SmallestOfSet
<1>3. PICK m \in S : v = b - m
  OBVIOUS
<1>4. \A x \in S : m >= x
  <2>. SUFFICES ASSUME NEW x \in S PROVE m >= x
    OBVIOUS
  <2>1. b - m <= b - x
    BY <1>2, <1>3
  <2>. QED BY <2>1
<1>5. \E x \in S : \A y \in S : x >= y
  BY <1>4
<1>6. Max(S) \in S /\ \A y \in S : Max(S) >= y
  BY <1>5 DEF Max
<1>. QED BY <1>6

\* A call's place is a number.
LEMMA CallOrderIsNat ==
  ASSUME NEW calls \in Seq(Nat), NEW id
  PROVE  CallOrder(calls, id) \in Nat
<1>. DEFINE S == {0} \cup {k - 1 : k \in {j \in DOMAIN calls : calls[j] = id /\ id # 0}}
<1>1. S \in SUBSET Nat /\ S # {} /\ Len(calls) \in Nat /\ \A x \in S : x <= Len(calls)
  OBVIOUS
<1>. HIDE DEF S
<1>2. Max(S) \in Nat
  BY <1>1, MaxOfBounded
<1>. QED BY <1>2 DEF CallOrder, S

\* The rank of a member under an order, given as a set of pairs.
Below(R, lt, p) == {q \in R : <<q, p>> \in lt}
RankIn(R, lt, p) == Cardinality(Below(R, lt, p))
IsOrder(R, lt) ==
  /\ \A p \in R : <<p, p>> \notin lt
  /\ \A p, q \in R : p = q \/ <<p, q>> \in lt \/ <<q, p>> \in lt
  /\ \A p, q, r \in R : <<p, q>> \in lt /\ <<q, r>> \in lt => <<p, r>> \in lt

\* A rank is a number.
LEMMA RankIsNat ==
  ASSUME NEW R, IsFiniteSet(R), NEW lt, NEW p \in R
  PROVE  IsFiniteSet(Below(R, lt, p)) /\ RankIn(R, lt, p) \in Nat
<1>1. Below(R, lt, p) \subseteq R
  BY DEF Below
<1>2. IsFiniteSet(Below(R, lt, p))
  BY <1>1, FS_Subset
<1>. QED BY <1>2, FS_CardinalityType DEF RankIn

\* What is below has a smaller rank.
LEMMA RankGrows ==
  ASSUME NEW R, IsFiniteSet(R), NEW lt, IsOrder(R, lt), NEW p \in R, NEW q \in R, <<p, q>> \in lt
  PROVE  RankIn(R, lt, p) < RankIn(R, lt, q)
<1>1. Below(R, lt, p) \subseteq Below(R, lt, q) /\ p \in Below(R, lt, q) /\ p \notin Below(R, lt, p)
  BY DEF Below, IsOrder
<1>2. IsFiniteSet(Below(R, lt, q)) /\ IsFiniteSet(Below(R, lt, p))
  BY RankIsNat
<1>3. Cardinality(Below(R, lt, p)) <= Cardinality(Below(R, lt, q))
      /\ (Cardinality(Below(R, lt, p)) = Cardinality(Below(R, lt, q)) => Below(R, lt, p) = Below(R, lt, q))
  BY <1>1, <1>2, FS_Subset
<1>4. RankIn(R, lt, p) \in Nat /\ RankIn(R, lt, q) \in Nat
  BY RankIsNat
<1>. QED BY <1>1, <1>3, <1>4 DEF RankIn

\* Ranks are the numbers up to the count, each that of one member.
LEMMA RanksAreAll ==
  ASSUME NEW R, IsFiniteSet(R), NEW lt, IsOrder(R, lt)
  PROVE  /\ Cardinality(R) \in Nat
         /\ \A p \in R : RankIn(R, lt, p) \in 0 .. Cardinality(R) - 1
         /\ \A p, q \in R : RankIn(R, lt, p) = RankIn(R, lt, q) => p = q
         /\ \A p, q \in R : RankIn(R, lt, p) < RankIn(R, lt, q) <=> <<p, q>> \in lt
         /\ \A n \in 0 .. Cardinality(R) - 1 : \E p \in R : RankIn(R, lt, p) = n
<1>1. Cardinality(R) \in Nat
  BY FS_CardinalityType
<1>2. ASSUME NEW p \in R PROVE RankIn(R, lt, p) \in 0 .. Cardinality(R) - 1
  <2>1. Below(R, lt, p) \subseteq R /\ p \notin Below(R, lt, p)
    BY DEF Below, IsOrder
  <2>2. Cardinality(Below(R, lt, p)) <= Cardinality(R)
        /\ (Cardinality(Below(R, lt, p)) = Cardinality(R) => Below(R, lt, p) = R)
    BY <2>1, FS_Subset
  <2>3. RankIn(R, lt, p) \in Nat
    BY RankIsNat
  <2>. QED BY <2>1, <2>2, <2>3, <1>1 DEF RankIn
<1>3. ASSUME NEW p \in R, NEW q \in R
      PROVE  /\ RankIn(R, lt, p) = RankIn(R, lt, q) => p = q
             /\ RankIn(R, lt, p) < RankIn(R, lt, q) <=> <<p, q>> \in lt
  <2>1. p = q \/ <<p, q>> \in lt \/ <<q, p>> \in lt
    BY DEF IsOrder
  <2>2. <<p, q>> \in lt => RankIn(R, lt, p) < RankIn(R, lt, q)
    BY RankGrows
  <2>3. <<q, p>> \in lt => RankIn(R, lt, q) < RankIn(R, lt, p)
    BY RankGrows
  <2>4. RankIn(R, lt, p) \in Nat /\ RankIn(R, lt, q) \in Nat
    BY RankIsNat
  <2>5. <<p, p>> \notin lt
    BY DEF IsOrder
  <2>. QED BY <2>1, <2>2, <2>3, <2>4, <2>5
<1>4. ASSUME NEW n \in 0 .. Cardinality(R) - 1 PROVE \E p \in R : RankIn(R, lt, p) = n
  <2>. DEFINE T == 0 .. Cardinality(R) - 1
              f == [p \in R |-> RankIn(R, lt, p)]
  <2>1. f \in Injection(R, T)
    <3>1. f \in [R -> T]
      BY <1>2
    <3>2. \A p, q \in R : f[p] = f[q] => p = q
      BY <1>3
    <3>. HIDE DEF f, T
    <3>. QED BY <3>1, <3>2 DEF Injection, IsInjective
  <2>2. IsFiniteSet(T) /\ Cardinality(T) = Cardinality(R)
    <3>. DEFINE b == Cardinality(R) - 1
    <3>1. b \in Int /\ 0 \in Int /\ b + 1 = Cardinality(R) /\ (0 > b => Cardinality(R) = 0) /\ b - 0 + 1 = b + 1
      BY <1>1
    <3>. HIDE DEF b
    <3>2. IsFiniteSet(0 .. b) /\ Cardinality(0 .. b) = IF 0 > b THEN 0 ELSE b - 0 + 1
      BY <3>1, FS_Interval
    <3>. QED BY <3>1, <3>2 DEF b
  <2>3. f \in Surjection(R, T)
    <3>. HIDE DEF f, T
    <3>. QED BY <2>1, <2>2, FS_Injection
  <2>4. \E p \in R : f[p] = n
    <3>1. n \in T
      OBVIOUS
    <3>. HIDE DEF f, T
    <3>. QED BY <2>3, <3>1 DEF Surjection
  <2>. QED BY <2>4
<1>. QED BY <1>1, <1>2, <1>3, <1>4

\* The results among the blocks, and the two orders of them: by call, and as they stand.
ResultsIn(blocks) == {p \in DOMAIN blocks : blocks[p].result}
KeyOf(blocks, calls, p) == CallOrder(calls, blocks[p].id)
Sooner(blocks, calls, q, p) ==
  KeyOf(blocks, calls, q) < KeyOf(blocks, calls, p) \/ (KeyOf(blocks, calls, q) = KeyOf(blocks, calls, p) /\ q < p)
SortOrder(blocks, calls) ==
  {e \in ResultsIn(blocks) \X ResultsIn(blocks) : Sooner(blocks, calls, e[1], e[2])}
PlaceOrder(blocks) == {e \in ResultsIn(blocks) \X ResultsIn(blocks) : e[1] < e[2]}

\* Where the sort puts a block.
SortSlot(blocks, calls, p) ==
  IF p \in ResultsIn(blocks)
  THEN CHOOSE x \in ResultsIn(blocks) :
         RankIn(ResultsIn(blocks), PlaceOrder(blocks), x) = RankIn(ResultsIn(blocks), SortOrder(blocks, calls), p)
  ELSE p

\* The results are some of the blocks.
LEMMA ResultsAreSome ==
  ASSUME NEW blocks \in Seq(Blocks)
  PROVE  ResultsIn(blocks) \subseteq 1 .. Len(blocks) /\ IsFiniteSet(ResultsIn(blocks)) /\ Len(blocks) \in Nat
<1>1. ResultsIn(blocks) \subseteq 1 .. Len(blocks) /\ Len(blocks) \in Nat
  BY DEF ResultsIn
<1>2. IsFiniteSet(1 .. Len(blocks))
  BY <1>1, FS_Interval
<1>. QED BY <1>1, <1>2, FS_Subset

\* Both are orders.
LEMMA SortOrders ==
  ASSUME NEW blocks \in Seq(Blocks), NEW calls \in Seq(Nat)
  PROVE  /\ IsOrder(ResultsIn(blocks), SortOrder(blocks, calls))
         /\ IsOrder(ResultsIn(blocks), PlaceOrder(blocks))
         /\ \A p, q \in ResultsIn(blocks) : <<p, q>> \in PlaceOrder(blocks) <=> p < q
         /\ \A p, q \in ResultsIn(blocks) : <<p, q>> \in SortOrder(blocks, calls) <=> Sooner(blocks, calls, p, q)
<1>. DEFINE R == ResultsIn(blocks)
<1>1. R \subseteq Nat
  BY ResultsAreSome
<1>2. \A p \in R : KeyOf(blocks, calls, p) \in Nat
  BY CallOrderIsNat DEF KeyOf
<1>3. \A p, q \in R : <<p, q>> \in PlaceOrder(blocks) <=> p < q
  BY DEF PlaceOrder
<1>4. \A p, q \in R : <<p, q>> \in SortOrder(blocks, calls) <=> Sooner(blocks, calls, p, q)
  BY DEF SortOrder
<1>. HIDE DEF R
<1>5. IsOrder(R, PlaceOrder(blocks))
  BY <1>1, <1>3 DEF IsOrder
<1>6. /\ \A p \in R : ~Sooner(blocks, calls, p, p)
      /\ \A p, q \in R : p = q \/ Sooner(blocks, calls, p, q) \/ Sooner(blocks, calls, q, p)
  BY <1>1, <1>2 DEF Sooner
<1>7. \A p, q, r \in R : Sooner(blocks, calls, p, q) /\ Sooner(blocks, calls, q, r) => Sooner(blocks, calls, p, r)
  BY <1>1, <1>2 DEF Sooner
<1>8. IsOrder(R, SortOrder(blocks, calls))
  BY <1>4, <1>6, <1>7 DEF IsOrder
<1>. QED BY <1>3, <1>4, <1>5, <1>8 DEF R

\* The slot of a result is a result's, of the same rank.
LEMMA SlotIsRanked ==
  ASSUME NEW blocks \in Seq(Blocks), NEW calls \in Seq(Nat), NEW p \in ResultsIn(blocks)
  PROVE  LET x == SortSlot(blocks, calls, p)  R == ResultsIn(blocks) IN
         x \in R /\ RankIn(R, PlaceOrder(blocks), x) = RankIn(R, SortOrder(blocks, calls), p)
<1>. DEFINE R == ResultsIn(blocks)  n == RankIn(R, SortOrder(blocks, calls), p)
<1>1. n \in 0 .. Cardinality(R) - 1
  BY SortOrders, ResultsAreSome, RanksAreAll
<1>2. \E x \in R : RankIn(R, PlaceOrder(blocks), x) = n
  <2>. HIDE DEF n
  <2>. QED BY <1>1, SortOrders, ResultsAreSome, RanksAreAll
<1>. QED BY <1>2 DEF SortSlot

\* What SortBlocks computes.
LEMMA SortBlocksIs ==
  ASSUME NEW blocks \in Seq(Blocks), NEW calls \in Seq(Nat)
  PROVE  SortBlocks(blocks, calls) =
           [p \in 1 .. Len(blocks) |->
              IF p \in ResultsIn(blocks)
              THEN blocks[CHOOSE x \in ResultsIn(blocks) :
                            RankIn(ResultsIn(blocks), SortOrder(blocks, calls), x)
                              = RankIn(ResultsIn(blocks), PlaceOrder(blocks), p)]
              ELSE blocks[p]]
<1>. DEFINE R == ResultsIn(blocks)
            key(p) == CallOrder(calls, blocks[p].id)
            rank(p) == Cardinality({q \in R : key(q) < key(p) \/ (key(q) = key(p) /\ q < p)})
            nth(n) == CHOOSE p \in R : rank(p) = n
<1>1. SortBlocks(blocks, calls) =
        [p \in DOMAIN blocks |-> IF p \in R THEN blocks[nth(Cardinality({q \in R : q < p}))] ELSE blocks[p]]
  BY DEF SortBlocks, ResultsIn
<1>2. \A p \in R : Cardinality({q \in R : q < p}) = RankIn(R, PlaceOrder(blocks), p)
  <2>. SUFFICES ASSUME NEW p \in R PROVE {q \in R : q < p} = Below(R, PlaceOrder(blocks), p)
    BY DEF RankIn
  <2>. QED BY DEF Below, PlaceOrder
<1>3. \A p \in R : rank(p) = RankIn(R, SortOrder(blocks, calls), p)
  <2>. SUFFICES ASSUME NEW p \in R
                PROVE {q \in R : key(q) < key(p) \/ (key(q) = key(p) /\ q < p)} = Below(R, SortOrder(blocks, calls), p)
    BY DEF RankIn
  <2>. QED BY DEF Below, SortOrder, Sooner, KeyOf
<1>. HIDE DEF rank
<1>4. \A n : nth(n) = CHOOSE x \in R : RankIn(R, SortOrder(blocks, calls), x) = n
  <2>. SUFFICES ASSUME NEW n PROVE nth(n) = CHOOSE x \in R : RankIn(R, SortOrder(blocks, calls), x) = n
    OBVIOUS
  <2>1. \A x \in R : rank(x) = n <=> RankIn(R, SortOrder(blocks, calls), x) = n
    BY <1>3
  <2>2. \A x : (x \in R /\ rank(x) = n) <=> (x \in R /\ RankIn(R, SortOrder(blocks, calls), x) = n)
    BY <2>1
  <2>. HIDE DEF R
  <2>. QED BY <2>2
<1>5. DOMAIN blocks = 1 .. Len(blocks)
  OBVIOUS
<1>6. ASSUME NEW p \in R
      PROVE  nth(Cardinality({q \in R : q < p}))
               = CHOOSE x \in R : RankIn(R, SortOrder(blocks, calls), x) = RankIn(R, PlaceOrder(blocks), p)
  <2>. DEFINE n == Cardinality({q \in R : q < p})
  <2>1. n = RankIn(R, PlaceOrder(blocks), p)
    BY <1>2
  <2>. HIDE DEF n, nth, R
  <2>2. nth(n) = CHOOSE x \in R : RankIn(R, SortOrder(blocks, calls), x) = n
    BY <1>4
  <2>3. nth(n) = CHOOSE x \in R : RankIn(R, SortOrder(blocks, calls), x) = RankIn(R, PlaceOrder(blocks), p)
    BY <2>1, <2>2
  <2>. QED BY <2>3 DEF n
<1>. HIDE DEF nth, R
<1>7. \A p \in 1 .. Len(blocks) :
        (IF p \in R THEN blocks[nth(Cardinality({q \in R : q < p}))] ELSE blocks[p])
          = IF p \in R
            THEN blocks[CHOOSE x \in R : RankIn(R, SortOrder(blocks, calls), x) = RankIn(R, PlaceOrder(blocks), p)]
            ELSE blocks[p]
  BY <1>6
<1>8. SortBlocks(blocks, calls) =
        [p \in 1 .. Len(blocks) |->
           IF p \in R
           THEN blocks[CHOOSE x \in R : RankIn(R, SortOrder(blocks, calls), x) = RankIn(R, PlaceOrder(blocks), p)]
           ELSE blocks[p]]
  BY <1>1, <1>5, <1>7, Zenon
<1>. QED BY <1>8 DEF R

\* The sort moves each block to its slot, texts not at all and results by their calls.
LEMMA SortedAre ==
  ASSUME NEW blocks \in Seq(Blocks), NEW calls \in Seq(Nat)
  PROVE  LET s == SortBlocks(blocks, calls)
             slot(p) == SortSlot(blocks, calls, p) IN
         /\ s \in Seq(Blocks) /\ Len(s) = Len(blocks)
         /\ \A p \in 1 .. Len(blocks) : slot(p) \in 1 .. Len(blocks) /\ s[slot(p)] = blocks[p]
         /\ \A x \in 1 .. Len(blocks) : \E p \in 1 .. Len(blocks) : slot(p) = x
         /\ \A p \in 1 .. Len(blocks) : p \notin ResultsIn(blocks) => slot(p) = p
         /\ \A p, q \in ResultsIn(blocks) : slot(p) < slot(q) <=> Sooner(blocks, calls, p, q)
<1>. DEFINE R == ResultsIn(blocks)  so == SortOrder(blocks, calls)  po == PlaceOrder(blocks)
            slot(p) == SortSlot(blocks, calls, p)  s == SortBlocks(blocks, calls)  n == Len(blocks)
            at(x) == CHOOSE p \in R : RankIn(R, so, p) = RankIn(R, po, x)
<1>0. n \in Nat /\ R \subseteq 1 .. n /\ IsFiniteSet(R) /\ IsOrder(R, so) /\ IsOrder(R, po)
  BY ResultsAreSome, SortOrders
<1>1. s = [x \in 1 .. n |-> IF x \in R THEN blocks[at(x)] ELSE blocks[x]]
  BY SortBlocksIs
<1>2. \A p \in R : slot(p) \in R /\ RankIn(R, po, slot(p)) = RankIn(R, so, p)
  BY SlotIsRanked
<1>3. \A p : p \notin R => slot(p) = p
  BY DEF SortSlot
<1>. HIDE DEF slot, R, so, po
<1>4. ASSUME NEW x \in R PROVE at(x) \in R /\ RankIn(R, so, at(x)) = RankIn(R, po, x)
  <2>1. RankIn(R, po, x) \in 0 .. Cardinality(R) - 1
    BY <1>0, RanksAreAll
  <2>2. \E p \in R : RankIn(R, so, p) = RankIn(R, po, x)
    <3>. DEFINE k == RankIn(R, po, x)
    <3>0. k \in 0 .. Cardinality(R) - 1
      BY <2>1
    <3>. HIDE DEF k
    <3>1. \E p \in R : RankIn(R, so, p) = k
      BY <3>0, <1>0, RanksAreAll, ZenonT(30)
    <3>. QED BY <3>1 DEF k
  <2>. QED BY <2>2
<1>5. ASSUME NEW x \in R PROVE slot(at(x)) = x
  <2>1. at(x) \in R /\ RankIn(R, so, at(x)) = RankIn(R, po, x)
    BY <1>4
  <2>2. slot(at(x)) \in R /\ RankIn(R, po, slot(at(x))) = RankIn(R, po, x)
    BY <2>1, <1>2
  <2>. HIDE DEF at
  <2>. QED BY <2>2, <1>0, RanksAreAll
<1>6. ASSUME NEW p \in R PROVE at(slot(p)) = p
  <2>1. slot(p) \in R /\ RankIn(R, po, slot(p)) = RankIn(R, so, p)
    BY <1>2
  <2>2. at(slot(p)) \in R /\ RankIn(R, so, at(slot(p))) = RankIn(R, so, p)
    BY <2>1, <1>4
  <2>. HIDE DEF at
  <2>. QED BY <2>2, <1>0, RanksAreAll
<1>. HIDE DEF at
<1>7. s \in Seq(Blocks) /\ Len(s) = n
  <2>1. \A x \in 1 .. n : (IF x \in R THEN blocks[at(x)] ELSE blocks[x]) \in Blocks
    <3>. SUFFICES ASSUME NEW x \in 1 .. n PROVE (IF x \in R THEN blocks[at(x)] ELSE blocks[x]) \in Blocks
      OBVIOUS
    <3>1. x \in R => at(x) \in 1 .. n
      BY <1>0, <1>4
    <3>. QED BY <3>1
  <2>. HIDE DEF s
  <2>2. s \in [1 .. n -> Blocks]
    BY <1>1, <2>1
  <2>. QED BY <2>2, <1>0
<1>8. ASSUME NEW p \in 1 .. n PROVE slot(p) \in 1 .. n /\ s[slot(p)] = blocks[p]
  <2>1. CASE p \in R
    <3>1. slot(p) \in R /\ slot(p) \in 1 .. n
      BY <2>1, <1>0, <1>2
    <3>2. s[slot(p)] = blocks[at(slot(p))]
      BY <3>1, <1>1
    <3>. QED BY <3>1, <3>2, <2>1, <1>6
  <2>2. CASE p \notin R
    <3>1. slot(p) = p
      BY <2>2, <1>3
    <3>. QED BY <3>1, <2>2, <1>1
  <2>. QED BY <2>1, <2>2
<1>9. ASSUME NEW x \in 1 .. n PROVE \E p \in 1 .. n : slot(p) = x
  <2>1. CASE x \in R
    BY <2>1, <1>0, <1>4, <1>5
  <2>2. CASE x \notin R
    BY <2>2, <1>3
  <2>. QED BY <2>1, <2>2
<1>10. ASSUME NEW p \in R, NEW q \in R PROVE slot(p) < slot(q) <=> Sooner(blocks, calls, p, q)
  <2>1. slot(p) \in R /\ slot(q) \in R /\ RankIn(R, po, slot(p)) = RankIn(R, so, p) /\ RankIn(R, po, slot(q)) = RankIn(R, so, q)
    BY <1>2
  <2>2. RankIn(R, so, p) < RankIn(R, so, q) <=> <<p, q>> \in so
    BY <1>0, RanksAreAll
  <2>3. RankIn(R, po, slot(p)) < RankIn(R, po, slot(q)) <=> <<slot(p), slot(q)>> \in po
    BY <2>1, <1>0, RanksAreAll
  <2>4. <<slot(p), slot(q)>> \in po <=> slot(p) < slot(q)
    BY <2>1, SortOrders DEF R, po
  <2>5. <<p, q>> \in so <=> Sooner(blocks, calls, p, q)
    BY SortOrders DEF R, so
  <2>. QED BY <2>1, <2>2, <2>3, <2>4, <2>5
<1>11. \A p \in 1 .. n : p \notin R => slot(p) = p
  BY <1>3
<1>. QED BY <1>7, <1>8, <1>9, <1>10, <1>11 DEF R, slot

\* Two blocks keep their order when no result that is sorted jumps over them.
LEMMA SortKeeps ==
  ASSUME NEW blocks \in Seq(Blocks), NEW calls \in Seq(Nat), NEW p \in 1 .. Len(blocks), NEW q \in 1 .. Len(blocks), p < q,
         p \in ResultsIn(blocks) =>
           \A x \in ResultsIn(blocks) : x >= q => KeyOf(blocks, calls, p) <= KeyOf(blocks, calls, x),
         q \in ResultsIn(blocks) =>
           \A x \in ResultsIn(blocks) : x <= p => KeyOf(blocks, calls, x) <= KeyOf(blocks, calls, q)
  PROVE  SortSlot(blocks, calls, p) < SortSlot(blocks, calls, q)
<1>. DEFINE R == ResultsIn(blocks)  so == SortOrder(blocks, calls)  po == PlaceOrder(blocks)
            slot(x) == SortSlot(blocks, calls, x)  key(x) == KeyOf(blocks, calls, x)
            B(x) == {y \in R : y < x}
<1>0. R \subseteq 1 .. Len(blocks) /\ IsFiniteSet(R) /\ Len(blocks) \in Nat
      /\ \A x \in R : key(x) \in Nat
  <2>1. \A x \in R : KeyOf(blocks, calls, x) \in Nat
    BY CallOrderIsNat DEF KeyOf
  <2>. QED BY <2>1, ResultsAreSome
<1>1. \A x \in 1 .. Len(blocks) : x \notin R => slot(x) = x
  BY SortedAre
<1>2. \A x \in R : slot(x) \in R /\ Cardinality(B(slot(x))) = RankIn(R, so, x)
  <2>. SUFFICES ASSUME NEW x \in R PROVE slot(x) \in R /\ Cardinality(B(slot(x))) = RankIn(R, so, x)
    OBVIOUS
  <2>1. slot(x) \in R /\ RankIn(R, po, slot(x)) = RankIn(R, so, x)
    BY SlotIsRanked
  <2>2. Below(R, po, slot(x)) = B(slot(x))
    <3>1. \A y \in R : <<y, slot(x)>> \in po <=> y < slot(x)
      BY <2>1, SortOrders
    <3>. QED BY <3>1 DEF Below
  <2>. QED BY <2>1, <2>2 DEF RankIn
<1>3. \A x : IsFiniteSet(B(x)) /\ Cardinality(B(x)) \in Nat
  <2>. SUFFICES ASSUME NEW x PROVE IsFiniteSet(B(x)) /\ Cardinality(B(x)) \in Nat
    OBVIOUS
  <2>1. B(x) \subseteq R
    OBVIOUS
  <2>. HIDE DEF B
  <2>2. IsFiniteSet(B(x))
    BY <2>1, <1>0, FS_Subset
  <2>. QED BY <2>2, FS_CardinalityType
<1>4. \A x \in R : \A y \in R : <<x, y>> \in so <=> key(x) < key(y) \/ (key(x) = key(y) /\ x < y)
  BY SortOrders DEF Sooner
<1>5. \A x \in R : IsFiniteSet(Below(R, so, x)) /\ RankIn(R, so, x) \in Nat
  BY <1>0, RankIsNat
<1>6. CASE p \notin R /\ q \notin R
  BY <1>6, <1>1
<1>7. CASE p \in R /\ q \in R
  <2>1. Sooner(blocks, calls, p, q)
    <3>1. key(p) <= key(q) /\ key(p) \in Nat /\ key(q) \in Nat
      BY <1>7, <1>0
    <3>. QED BY <3>1 DEF Sooner
  <2>. QED BY <2>1, <1>7, SortedAre
<1>8. CASE p \in R /\ q \notin R
  <2>1. slot(q) = q /\ slot(p) \in R
    BY <1>1, <1>2, <1>8
  <2>2. SUFFICES ASSUME slot(p) >= q PROVE FALSE
    <3>1. slot(p) \in Int /\ q \in Int
      BY <2>1, <1>0
    <3>. HIDE DEF slot
    <3>. QED BY <2>1, <2>2, <3>1 DEF slot
  <2>3. Below(R, so, p) \subseteq B(q)
    <3>. SUFFICES ASSUME NEW x \in R, <<x, p>> \in so PROVE x < q
      BY DEF Below
    <3>1. key(x) < key(p) \/ (key(x) = key(p) /\ x < p)
      BY <1>4, <1>8
    <3>2. x >= q => key(p) <= key(x)
      BY <1>8
    <3>3. key(x) \in Nat /\ key(p) \in Nat /\ x \in Int
      BY <1>0, <1>8
    <3>. HIDE DEF key
    <3>. QED BY <3>1, <3>2, <3>3
  <2>4. p \in B(q) /\ p \notin Below(R, so, p)
    <3>1. <<p, p>> \notin so
      BY SortOrders, <1>8 DEF IsOrder
    <3>. QED BY <3>1, <1>8 DEF Below
  <2>5. B(q) \subseteq B(slot(p))
    <3>1. slot(p) \in Int /\ \A x \in R : x \in Int
      BY <2>1, <1>0
    <3>. HIDE DEF slot
    <3>. QED BY <3>1, <2>2
  <2>. HIDE DEF B, slot
  <2>6. Cardinality(Below(R, so, p)) <= Cardinality(B(q)) /\ Cardinality(Below(R, so, p)) # Cardinality(B(q))
    BY <2>3, <2>4, <1>3, FS_Subset
  <2>7. Cardinality(B(q)) <= Cardinality(B(slot(p)))
    BY <2>5, <1>3, FS_Subset
  <2>8. Cardinality(B(slot(p))) = Cardinality(Below(R, so, p))
    BY <1>2, <1>8 DEF RankIn
  <2>. QED BY <2>6, <2>7, <2>8, <1>3
<1>9. CASE p \notin R /\ q \in R
  <2>1. slot(p) = p /\ slot(q) \in R /\ slot(q) # p
    BY <1>1, <1>2, <1>9
  <2>2. SUFFICES ASSUME slot(q) < p PROVE FALSE
    <3>1. slot(q) \in Int /\ p \in Int
      BY <2>1, <1>0
    <3>. HIDE DEF slot
    <3>. QED BY <2>1, <2>2, <3>1 DEF slot
  <2>3. B(p) \subseteq Below(R, so, q)
    <3>. SUFFICES ASSUME NEW x \in R, x < p PROVE <<x, q>> \in so
      BY DEF Below
    <3>1. key(x) <= key(q)
      BY <1>9, <1>0
    <3>2. key(x) \in Nat /\ key(q) \in Nat /\ x < q
      BY <1>0, <1>9
    <3>. HIDE DEF key
    <3>3. key(x) < key(q) \/ (key(x) = key(q) /\ x < q)
      BY <3>1, <3>2
    <3>. QED BY <3>3, <1>4, <1>9
  <2>4. slot(q) \in B(p) /\ slot(q) \notin B(slot(q)) /\ B(slot(q)) \subseteq B(p)
    <3>1. slot(q) \in Int /\ \A x \in R : x \in Int
      BY <2>1, <1>0
    <3>. HIDE DEF slot
    <3>. QED BY <3>1, <2>1, <2>2
  <2>. HIDE DEF B, slot
  <2>5. Cardinality(B(slot(q))) <= Cardinality(B(p)) /\ Cardinality(B(slot(q))) # Cardinality(B(p))
    BY <2>4, <1>3, FS_Subset
  <2>6. Cardinality(B(p)) <= Cardinality(Below(R, so, q))
    BY <2>3, <1>5, <1>9, FS_Subset
  <2>7. Cardinality(B(slot(q))) = Cardinality(Below(R, so, q))
    BY <1>2, <1>9 DEF RankIn
  <2>. QED BY <2>5, <2>6, <2>7, <1>3
<1>. QED BY <1>6, <1>7, <1>8, <1>9

\* Messages with calls; g takes those of s before i to those of t before j.
HasCalls(msg) == msg.role = "assistant" /\ msg.calls # <<>>

Carries(g, s, i, t, j) ==
  /\ \A p \in 1 .. i - 1 : HasCalls(s[p]) =>
       g[p] \in 1 .. j - 1 /\ HasCalls(t[g[p]]) /\ t[g[p]].calls = s[p].calls
  /\ \A p, q \in 1 .. i - 1 : HasCalls(s[p]) /\ HasCalls(s[q]) /\ p < q => g[p] < g[q]
  /\ \A q \in 1 .. j - 1 : HasCalls(t[q]) => \E p \in 1 .. i - 1 : HasCalls(s[p]) /\ g[p] = q

\* Two lists that have the same calls in the same order have the same last ones.
LEMMA CallsCarry ==
  ASSUME NEW S, NEW s \in Seq(S), NEW t \in Seq(S), NEW i \in 1 .. Len(s) + 1, NEW j \in 1 .. Len(t) + 1, NEW g,
         Carries(g, s, i, t, j)
  PROVE  LastCalls(s, i) = LastCalls(t, j)
<1>0. /\ \A p \in 1 .. i - 1 : HasCalls(s[p]) =>
           g[p] \in 1 .. j - 1 /\ HasCalls(t[g[p]]) /\ t[g[p]].calls = s[p].calls
      /\ \A p, q \in 1 .. i - 1 : HasCalls(s[p]) /\ HasCalls(s[q]) /\ p < q => g[p] < g[q]
      /\ \A q \in 1 .. j - 1 : HasCalls(t[q]) => \E p \in 1 .. i - 1 : HasCalls(s[p]) /\ g[p] = q
  BY DEF Carries
<1>1. CASE \A p \in 1 .. i - 1 : ~HasCalls(s[p])
  <2>1. \A q \in 1 .. j - 1 : ~HasCalls(t[q])
    BY <1>0, <1>1
  <2>2. LastCalls(s, i) = <<>>
    BY <1>1, LastCallsAre DEF HasCalls
  <2>3. LastCalls(t, j) = <<>>
    BY <2>1, LastCallsAre DEF HasCalls
  <2>. QED BY <2>2, <2>3
<1>2. CASE ~(\A p \in 1 .. i - 1 : ~HasCalls(s[p]))
  <2>1. PICK p \in 1 .. i - 1 : HasCalls(s[p]) /\ \A k \in p + 1 .. i - 1 : ~HasCalls(s[k])
    BY <1>2, LastCallsAre DEF HasCalls
  <2>2. LastCalls(s, i) = s[p].calls
    BY <2>1, LastCallsAre DEF HasCalls
  <2>3. g[p] \in 1 .. j - 1 /\ HasCalls(t[g[p]]) /\ t[g[p]].calls = s[p].calls
    BY <1>0, <2>1
  <2>4. ASSUME NEW q \in g[p] + 1 .. j - 1, HasCalls(t[q]) PROVE FALSE
    <3>1. q \in 1 .. j - 1 /\ g[p] < q
      BY <2>3
    <3>2. PICK k \in 1 .. i - 1 : HasCalls(s[k]) /\ g[k] = q
      BY <1>0, <2>4, <3>1
    <3>3. k <= p
      <4>1. ~(k \in p + 1 .. i - 1)
        BY <2>1, <3>2
      <4>. QED BY <4>1
    <3>4. k < p => g[k] < g[p]
      BY <1>0, <2>1, <3>2
    <3>. QED BY <2>3, <3>1, <3>2, <3>3, <3>4
  <2>5. LastCalls(t, j) = t[g[p]].calls
    <3>. DEFINE y == g[p]
    <3>1. y \in 1 .. j - 1 /\ HasCalls(t[y]) /\ \A q \in y + 1 .. j - 1 : ~HasCalls(t[q])
      BY <2>3, <2>4
    <3>. HIDE DEF y
    <3>2. LastCalls(t, j) = t[y].calls
      BY <3>1, LastCallsAre DEF HasCalls
    <3>. QED BY <3>2 DEF y
  <2>. QED BY <2>2, <2>3, <2>5
<1>. QED BY <1>1, <1>2

\* Only what came before counts.
LEMMA CallsBefore ==
  ASSUME NEW S, NEW s \in Seq(S), NEW t \in Seq(S), NEW i \in 1 .. Len(s) + 1, i <= Len(t) + 1,
         \A p \in 1 .. i - 1 : s[p] = t[p]
  PROVE  LastCalls(s, i) = LastCalls(t, i)
<1>. DEFINE A == {j \in 1 .. i - 1 : s[j].role = "assistant" /\ s[j].calls # <<>>}
            B == {j \in 1 .. i - 1 : t[j].role = "assistant" /\ t[j].calls # <<>>}
<1>1. A = B
  OBVIOUS
<1>2. i \in 1 .. Len(t) + 1
  OBVIOUS
<1>. DEFINE g == [p \in 1 .. i - 1 |-> p]
<1>3. \A p \in 1 .. i - 1 : g[p] = p
  OBVIOUS
<1>. HIDE DEF g, A, B
<1>4. Carries(g, s, i, t, i)
  BY <1>3 DEF Carries
<1>. QED BY <1>2, <1>4, CallsCarry

\* The messages with calls, merged.
LEMMA CallsAreMerged ==
  ASSUME NEW ms \in Seq(Messages)
  PROVE  LET s == MergeToolMessages(ms) IN
         /\ \A i \in 1 .. Len(ms) : Spot(ms, i) \in 1 .. Len(s)
         /\ \A i \in 1 .. Len(ms) : HasCalls(ms[i]) => s[Spot(ms, i)] = ms[i]
         /\ \A i, j \in 1 .. Len(ms) : HasCalls(ms[i]) /\ i < j => Spot(ms, i) < Spot(ms, j)
         /\ \A i, j \in 1 .. Len(ms) : Spot(ms, i) < Spot(ms, j) => i < j
         /\ \A p \in 1 .. Len(s) : HasCalls(s[p]) => \E i \in 1 .. Len(ms) : Spot(ms, i) = p /\ ms[i] = s[p]
<1>. DEFINE s == MergeToolMessages(ms)
<1>1. \A msg : HasCalls(msg) => ~Asks(msg) /\ msg.role # "user"
  BY DEF HasCalls, Asks
<1>2. \A i \in 1 .. Len(ms) : Spot(ms, i) \in 1 .. Len(s) /\ (~Asks(ms[i]) => s[Spot(ms, i)] = ms[i])
  BY MergedAre
<1>3. \A p \in 1 .. Len(s) : \E i \in 1 .. Len(ms) : Spot(ms, i) = p /\ (Asks(ms[i]) <=> s[p].role = "user")
  BY MergedAre
<1>. HIDE DEF s
<1>4. ASSUME NEW i \in 1 .. Len(ms), NEW j \in 1 .. Len(ms), HasCalls(ms[i]), i < j PROVE Spot(ms, i) < Spot(ms, j)
  <2>1. j \in i .. Len(ms) /\ i \in i .. j
    BY <1>4
  <2>2. \/ Spot(ms, i) < Spot(ms, j)
        \/ i < j => \A k \in i .. j : Asks(ms[k])
    BY <2>1, SpotsGrow
  <2>. QED BY <2>1, <2>2, <1>1, <1>4
<1>5. ASSUME NEW i \in 1 .. Len(ms), NEW j \in 1 .. Len(ms), Spot(ms, i) < Spot(ms, j) PROVE i < j
  <2>1. SUFFICES ASSUME j <= i PROVE FALSE
    OBVIOUS
  <2>2. i \in j .. Len(ms)
    BY <2>1
  <2>3. Spot(ms, j) < Spot(ms, i) \/ Spot(ms, j) = Spot(ms, i)
    BY <2>2, SpotsGrow
  <2>4. Spot(ms, i) \in Nat /\ Spot(ms, j) \in Nat
    BY <1>2
  <2>. QED BY <1>5, <2>3, <2>4
<1>6. ASSUME NEW p \in 1 .. Len(s), HasCalls(s[p]) PROVE \E i \in 1 .. Len(ms) : Spot(ms, i) = p /\ ms[i] = s[p]
  <2>1. PICK i \in 1 .. Len(ms) : Spot(ms, i) = p /\ (Asks(ms[i]) <=> s[p].role = "user")
    BY <1>3
  <2>2. ~Asks(ms[i])
    BY <2>1, <1>1, <1>6
  <2>. QED BY <2>1, <2>2, <1>2
<1>. QED BY <1>1, <1>2, <1>4, <1>5, <1>6 DEF s

\* The parts of two sequences in one.
LEMMA ConcatParts ==
  ASSUME NEW S, NEW a \in Seq(S), NEW b \in Seq(S)
  PROVE  /\ a \o b \in Seq(S) /\ Len(a \o b) = Len(a) + Len(b) /\ Len(a) \in Nat /\ Len(b) \in Nat
         /\ \A i \in 1 .. Len(a) : (a \o b)[i] = a[i]
         /\ \A i \in 1 .. Len(b) : (a \o b)[Len(a) + i] = b[i]
         /\ \A i \in 1 .. Len(a) + Len(b) : i \in 1 .. Len(a) \/ \E k \in 1 .. Len(b) : i = Len(a) + k
<1>1. Len(a) \in Nat /\ Len(b) \in Nat
  OBVIOUS
<1>2. \A i \in 1 .. Len(a) + Len(b) : i \in 1 .. Len(a) \/ \E k \in 1 .. Len(b) : i = Len(a) + k
  <2>. SUFFICES ASSUME NEW i \in 1 .. Len(a) + Len(b), i \notin 1 .. Len(a) PROVE \E k \in 1 .. Len(b) : i = Len(a) + k
    OBVIOUS
  <2>1. i - Len(a) \in 1 .. Len(b) /\ i = Len(a) + (i - Len(a))
    BY <1>1
  <2>. QED BY <2>1
<1>. QED BY <1>1, <1>2

\* Messages before and after they are merged.
AnyMessages == Messages \cup Merged

\* Messages and what they are merged into, side by side.
LEMMA TypesMix ==
  ASSUME NEW ms \in Seq(Messages)
  PROVE  ms \in Seq(AnyMessages) /\ MergeToolMessages(ms) \in Seq(AnyMessages)
<1>1. MergeToolMessages(ms) \in Seq(Merged)
  BY MergedAre
<1>2. \A A, B : A \subseteq B => Seq(A) \subseteq Seq(B)
  OBVIOUS
<1>. QED BY <1>1 DEF AnyMessages

\* Two lists of them in one, and the last calls of two.
LEMMA PartsMix ==
  ASSUME NEW a \in Seq(AnyMessages), NEW b \in Seq(AnyMessages)
  PROVE  /\ a \o b \in Seq(AnyMessages) /\ Len(a \o b) = Len(a) + Len(b) /\ Len(a) \in Nat /\ Len(b) \in Nat
         /\ \A i \in 1 .. Len(a) : (a \o b)[i] = a[i]
         /\ \A i \in 1 .. Len(b) : (a \o b)[Len(a) + i] = b[i]
         /\ \A i \in 1 .. Len(a) + Len(b) : i \in 1 .. Len(a) \/ \E k \in 1 .. Len(b) : i = Len(a) + k
  BY ConcatParts
LEMMA CallsMix ==
  ASSUME NEW s \in Seq(AnyMessages), NEW t \in Seq(AnyMessages), NEW i \in 1 .. Len(s) + 1, NEW j \in 1 .. Len(t) + 1,
         NEW g, Carries(g, s, i, t, j)
  PROVE  LastCalls(s, i) = LastCalls(t, j)
  BY CallsCarry, SMTT(30)

\* The calls before a message are those before its spot.
LEMMA CallsAtSpot ==
  ASSUME NEW ctx \in Seq(Messages), NEW ms \in Seq(Messages), NEW i \in 1 .. Len(ms)
  PROVE  LastCalls(ctx \o ms, Len(ctx) + i) = LastCalls(ctx \o MergeToolMessages(ms), Len(ctx) + Spot(ms, i))
<1>. DEFINE n == Len(ctx)  r == MergeToolMessages(ms)  s == ctx \o ms  t == ctx \o r
            g == [p \in 1 .. n + Len(ms) |-> IF p <= n THEN p ELSE n + Spot(ms, p - n)]
<1>0. n \in Nat /\ Len(ms) \in Nat /\ ctx \in Seq(AnyMessages) /\ ms \in Seq(AnyMessages) /\ r \in Seq(AnyMessages)
  BY TypesMix
<1>1. /\ s \in Seq(AnyMessages) /\ Len(s) = n + Len(ms)
      /\ (\A p \in 1 .. n : s[p] = ctx[p]) /\ (\A p \in 1 .. Len(ms) : s[n + p] = ms[p])
      /\ \A p \in 1 .. n + Len(ms) : p \in 1 .. n \/ \E k \in 1 .. Len(ms) : p = n + k
  <2>1. ctx \in Seq(AnyMessages) /\ ms \in Seq(AnyMessages)
    BY <1>0
  <2>2. /\ ctx \o ms \in Seq(AnyMessages) /\ Len(ctx \o ms) = Len(ctx) + Len(ms) /\ Len(ctx) \in Nat /\ Len(ms) \in Nat
        /\ \A p \in 1 .. Len(ctx) : (ctx \o ms)[p] = ctx[p]
        /\ \A p \in 1 .. Len(ms) : (ctx \o ms)[Len(ctx) + p] = ms[p]
        /\ \A p \in 1 .. Len(ctx) + Len(ms) : p \in 1 .. Len(ctx) \/ \E k \in 1 .. Len(ms) : p = Len(ctx) + k
    BY <2>1, PartsMix, ZenonT(30)
  <2>. QED BY <2>2
<1>2. /\ t \in Seq(AnyMessages) /\ Len(t) = n + Len(r) /\ Len(r) \in Nat
      /\ (\A p \in 1 .. n : t[p] = ctx[p]) /\ (\A p \in 1 .. Len(r) : t[n + p] = r[p])
      /\ \A p \in 1 .. n + Len(r) : p \in 1 .. n \/ \E k \in 1 .. Len(r) : p = n + k
  <2>1. ctx \in Seq(AnyMessages) /\ r \in Seq(AnyMessages)
    BY <1>0
  <2>. HIDE DEF r
  <2>. QED BY <2>1, ConcatParts
<1>3. /\ \A k \in 1 .. Len(ms) : Spot(ms, k) \in 1 .. Len(r)
      /\ \A k \in 1 .. Len(ms) : HasCalls(ms[k]) => r[Spot(ms, k)] = ms[k]
      /\ \A k, j \in 1 .. Len(ms) : HasCalls(ms[k]) /\ k < j => Spot(ms, k) < Spot(ms, j)
      /\ \A k, j \in 1 .. Len(ms) : Spot(ms, k) < Spot(ms, j) => k < j
      /\ \A p \in 1 .. Len(r) : HasCalls(r[p]) => \E k \in 1 .. Len(ms) : Spot(ms, k) = p /\ ms[k] = r[p]
  BY CallsAreMerged
<1>4. /\ \A p \in 1 .. n : g[p] = p
      /\ \A k \in 1 .. Len(ms) : g[n + k] = n + Spot(ms, k)
  <2>1. \A p \in 1 .. n : p \in 1 .. n + Len(ms) /\ p <= n
    BY <1>0
  <2>2. \A k \in 1 .. Len(ms) : n + k \in 1 .. n + Len(ms) /\ ~(n + k <= n) /\ (n + k) - n = k
    BY <1>0
  <2>. QED BY <2>1, <2>2
<1>. DEFINE a == n + i  b == n + Spot(ms, i)
<1>5. a \in 1 .. Len(s) + 1 /\ b \in 1 .. Len(t) + 1
  <2>1. Spot(ms, i) \in 1 .. Len(r)
    BY <1>3
  <2>. HIDE DEF n, r, s, t
  <2>. QED BY <2>1, <1>0, <1>1, <1>2
<1>. HIDE DEF s, t, g, n, r
<1>6. \A p \in 1 .. a - 1 : p \in 1 .. n \/ \E k \in 1 .. i - 1 : p = n + k
  <2>. SUFFICES ASSUME NEW p \in 1 .. a - 1, ~(p \in 1 .. n) PROVE \E k \in 1 .. i - 1 : p = n + k
    OBVIOUS
  <2>1. p - n \in 1 .. i - 1 /\ p = n + (p - n)
    BY <1>0
  <2>. QED BY <2>1
<1>7. \A q \in 1 .. b - 1 : q \in 1 .. n \/ \E k \in 1 .. Spot(ms, i) - 1 : q = n + k
  <2>. SUFFICES ASSUME NEW q \in 1 .. b - 1, ~(q \in 1 .. n) PROVE \E k \in 1 .. Spot(ms, i) - 1 : q = n + k
    OBVIOUS
  <2>1. q - n \in 1 .. Spot(ms, i) - 1 /\ q = n + (q - n)
    BY <1>0, <1>3
  <2>. QED BY <2>1
<1>8. ASSUME NEW p \in 1 .. a - 1, HasCalls(s[p])
      PROVE  g[p] \in 1 .. b - 1 /\ HasCalls(t[g[p]]) /\ t[g[p]].calls = s[p].calls
  <2>1. CASE p \in 1 .. n
    <3>1. g[p] = p /\ t[p] = ctx[p] /\ s[p] = ctx[p]
      BY <2>1, <1>1, <1>2, <1>4
    <3>2. p \in 1 .. b - 1
      BY <2>1, <1>0, <1>3
    <3>. QED BY <1>8, <3>1, <3>2
  <2>2. CASE \E k \in 1 .. i - 1 : p = n + k
    <3>1. PICK k \in 1 .. i - 1 : p = n + k
      BY <2>2
    <3>2. k \in 1 .. Len(ms) /\ k < i
      BY <1>0
    <3>3. s[p] = ms[k] /\ g[p] = n + Spot(ms, k) /\ Spot(ms, k) \in 1 .. Len(r)
      BY <3>1, <3>2, <1>1, <1>3, <1>4
    <3>4. Spot(ms, k) < Spot(ms, i) /\ r[Spot(ms, k)] = ms[k]
      BY <3>2, <3>3, <1>3, <1>8
    <3>5. t[g[p]] = ms[k]
      BY <3>3, <3>4, <1>2
    <3>6. g[p] \in 1 .. b - 1
      BY <3>3, <3>4, <1>0, <1>3, SMTT(30)
    <3>. QED BY <1>8, <3>3, <3>5, <3>6
  <2>. QED BY <2>1, <2>2, <1>6
<1>9. ASSUME NEW p \in 1 .. a - 1, NEW q \in 1 .. a - 1, HasCalls(s[p]), HasCalls(s[q]), p < q PROVE g[p] < g[q]
  <2>1. CASE q \in 1 .. n
    <3>1. p \in 1 .. n
      BY <2>1, <1>9, <1>0
    <3>. QED BY <3>1, <2>1, <1>4, <1>9
  <2>2. CASE p \in 1 .. n /\ ~(q \in 1 .. n)
    <3>1. PICK k \in 1 .. i - 1 : q = n + k
      BY <2>2, <1>6
    <3>2. k \in 1 .. Len(ms)
      BY <1>0
    <3>3. g[q] = n + Spot(ms, k) /\ Spot(ms, k) \in 1 .. Len(r) /\ g[p] = p
      BY <3>1, <3>2, <2>2, <1>3, <1>4
    <3>. QED BY <3>3, <2>2, <1>0, <1>2
  <2>3. CASE ~(p \in 1 .. n)
    <3>0. ~(q \in 1 .. n)
      BY <2>3, <1>9, <1>0
    <3>1. PICK k \in 1 .. i - 1 : q = n + k
      BY <3>0, <1>6
    <3>2. PICK l \in 1 .. i - 1 : p = n + l
      BY <2>3, <1>6
    <3>3. k \in 1 .. Len(ms) /\ l \in 1 .. Len(ms) /\ l < k
      BY <1>0, <1>9, <3>1, <3>2
    <3>4. s[p] = ms[l] /\ g[q] = n + Spot(ms, k) /\ g[p] = n + Spot(ms, l)
      BY <3>1, <3>2, <3>3, <1>1, <1>4
    <3>5. Spot(ms, l) < Spot(ms, k) /\ Spot(ms, l) \in 1 .. Len(r) /\ Spot(ms, k) \in 1 .. Len(r)
      BY <3>3, <3>4, <1>3, <1>9
    <3>. QED BY <3>4, <3>5, <1>0, <1>2
  <2>. QED BY <2>1, <2>2, <2>3
<1>10. ASSUME NEW q \in 1 .. b - 1, HasCalls(t[q]) PROVE \E p \in 1 .. a - 1 : HasCalls(s[p]) /\ g[p] = q
  <2>1. CASE q \in 1 .. n
    <3>1. q \in 1 .. a - 1
      BY <2>1, <1>0
    <3>. QED BY <3>1, <2>1, <1>1, <1>2, <1>4, <1>10
  <2>2. CASE \E k \in 1 .. Spot(ms, i) - 1 : q = n + k
    <3>1. PICK k \in 1 .. Spot(ms, i) - 1 : q = n + k
      BY <2>2
    <3>2. k \in 1 .. Len(r) /\ k < Spot(ms, i)
      BY <1>3, <1>2
    <3>3. t[q] = r[k]
      BY <3>1, <3>2, <1>2
    <3>4. PICK l \in 1 .. Len(ms) : Spot(ms, l) = k /\ ms[l] = r[k]
      BY <3>2, <3>3, <1>3, <1>10
    <3>5. l < i
      BY <3>2, <3>4, <1>3
    <3>6. n + l \in 1 .. a - 1
      BY <3>5, <1>0
    <3>7. s[n + l] = ms[l] /\ g[n + l] = q
      BY <3>1, <3>4, <1>1, <1>4
    <3>. QED BY <3>3, <3>4, <3>6, <3>7, <1>10
  <2>. QED BY <2>1, <2>2, <1>7
<1>. HIDE DEF a, b
<1>11. Carries(g, s, a, t, b)
  BY <1>8, <1>9, <1>10 DEF Carries
<1>12. LastCalls(s, a) = LastCalls(t, b)
  <2>1. s \in Seq(AnyMessages) /\ t \in Seq(AnyMessages)
    BY <1>1, <1>2
  <2>. QED BY <2>1, <1>5, <1>11, CallsMix, ZenonT(30)
<1>. QED BY <1>12 DEF a, b, s, t, n, r

\* A merged context has the calls of the context.
LEMMA CallsOfContext ==
  ASSUME NEW ctx \in Seq(Messages), NEW r \in Seq(Merged), NEW q \in 1 .. Len(r)
  PROVE  LastCalls(ctx \o r, Len(ctx) + q)
           = LastCalls(MergeToolMessages(ctx) \o r, Len(MergeToolMessages(ctx)) + q)
<1>. DEFINE n == Len(ctx)  mc == MergeToolMessages(ctx)  m == Len(mc)  s == ctx \o r  t == mc \o r
            g == [p \in 1 .. n + Len(r) |-> IF p <= n THEN Spot(ctx, p) ELSE m + (p - n)]
<1>0. n \in Nat /\ Len(r) \in Nat /\ ctx \in Seq(AnyMessages) /\ mc \in Seq(AnyMessages) /\ r \in Seq(AnyMessages) /\ m \in Nat
  <2>1. r \in Seq(AnyMessages)
    BY DEF AnyMessages
  <2>2. mc \in Seq(AnyMessages) /\ ctx \in Seq(AnyMessages)
    BY TypesMix
  <2>. HIDE DEF mc
  <2>. QED BY <2>1, <2>2
<1>1. /\ s \in Seq(AnyMessages) /\ Len(s) = n + Len(r)
      /\ (\A p \in 1 .. n : s[p] = ctx[p]) /\ (\A p \in 1 .. Len(r) : s[n + p] = r[p])
  BY <1>0, ConcatParts
<1>2. /\ t \in Seq(AnyMessages) /\ Len(t) = m + Len(r)
      /\ (\A p \in 1 .. m : t[p] = mc[p]) /\ (\A p \in 1 .. Len(r) : t[m + p] = r[p])
  BY <1>0, ConcatParts
<1>3. /\ \A k \in 1 .. n : Spot(ctx, k) \in 1 .. m
      /\ \A k \in 1 .. n : HasCalls(ctx[k]) => mc[Spot(ctx, k)] = ctx[k]
      /\ \A k, j \in 1 .. n : HasCalls(ctx[k]) /\ k < j => Spot(ctx, k) < Spot(ctx, j)
      /\ \A p \in 1 .. m : HasCalls(mc[p]) => \E k \in 1 .. n : Spot(ctx, k) = p /\ ctx[k] = mc[p]
  BY CallsAreMerged
<1>4. /\ \A p \in 1 .. n : g[p] = Spot(ctx, p)
      /\ \A k \in 1 .. Len(r) : g[n + k] = m + k
  <2>1. \A p \in 1 .. n : p \in 1 .. n + Len(r) /\ p <= n
    BY <1>0
  <2>2. \A k \in 1 .. Len(r) : n + k \in 1 .. n + Len(r) /\ ~(n + k <= n) /\ (n + k) - n = k
    BY <1>0
  <2>. QED BY <2>1, <2>2
<1>. HIDE DEF m, mc, s, t, g, n
<1>. DEFINE a == n + q  b == m + q
<1>5. a \in 1 .. Len(s) + 1 /\ b \in 1 .. Len(t) + 1
  BY <1>0, <1>1, <1>2
<1>6. \A p \in 1 .. a - 1 : p \in 1 .. n \/ \E k \in 1 .. q - 1 : p = n + k
  <2>. SUFFICES ASSUME NEW p \in 1 .. a - 1, ~(p \in 1 .. n) PROVE \E k \in 1 .. q - 1 : p = n + k
    OBVIOUS
  <2>1. p - n \in 1 .. q - 1 /\ p = n + (p - n)
    BY <1>0
  <2>. QED BY <2>1
<1>7. \A p \in 1 .. b - 1 : p \in 1 .. m \/ \E k \in 1 .. q - 1 : p = m + k
  <2>. SUFFICES ASSUME NEW p \in 1 .. b - 1, ~(p \in 1 .. m) PROVE \E k \in 1 .. q - 1 : p = m + k
    OBVIOUS
  <2>1. p - m \in 1 .. q - 1 /\ p = m + (p - m)
    BY <1>0
  <2>. QED BY <2>1
<1>8. ASSUME NEW p \in 1 .. a - 1, HasCalls(s[p])
      PROVE  g[p] \in 1 .. b - 1 /\ HasCalls(t[g[p]]) /\ t[g[p]].calls = s[p].calls
  <2>1. CASE p \in 1 .. n
    <3>1. g[p] = Spot(ctx, p) /\ s[p] = ctx[p] /\ Spot(ctx, p) \in 1 .. m
      BY <2>1, <1>1, <1>3, <1>4
    <3>2. t[g[p]] = ctx[p]
      BY <3>1, <2>1, <1>2, <1>3, <1>8
    <3>3. Spot(ctx, p) \in 1 .. b - 1
      BY <3>1, <1>0
    <3>. QED BY <1>8, <3>1, <3>2, <3>3
  <2>2. CASE \E k \in 1 .. q - 1 : p = n + k
    <3>1. PICK k \in 1 .. q - 1 : p = n + k
      BY <2>2
    <3>2. k \in 1 .. Len(r)
      BY <1>0
    <3>3. s[p] = r[k] /\ g[p] = m + k /\ t[m + k] = r[k]
      BY <3>1, <3>2, <1>1, <1>2, <1>4
    <3>4. m + k \in 1 .. b - 1
      BY <1>0
    <3>. QED BY <1>8, <3>3, <3>4
  <2>. QED BY <2>1, <2>2, <1>6
<1>9. ASSUME NEW p \in 1 .. a - 1, NEW y \in 1 .. a - 1, HasCalls(s[p]), HasCalls(s[y]), p < y PROVE g[p] < g[y]
  <2>1. CASE y \in 1 .. n
    <3>1. p \in 1 .. n
      BY <2>1, <1>9, <1>0
    <3>. QED BY <3>1, <2>1, <1>1, <1>3, <1>4, <1>9
  <2>2. CASE p \in 1 .. n /\ ~(y \in 1 .. n)
    <3>1. PICK k \in 1 .. q - 1 : y = n + k
      BY <2>2, <1>6
    <3>2. k \in 1 .. Len(r)
      BY <1>0
    <3>3. g[y] = m + k /\ g[p] = Spot(ctx, p) /\ Spot(ctx, p) \in 1 .. m
      BY <3>1, <3>2, <2>2, <1>3, <1>4
    <3>. QED BY <3>2, <3>3, <1>0
  <2>3. CASE ~(p \in 1 .. n)
    <3>0. ~(y \in 1 .. n)
      BY <2>3, <1>9, <1>0
    <3>1. PICK k \in 1 .. q - 1 : y = n + k
      BY <3>0, <1>6
    <3>2. PICK l \in 1 .. q - 1 : p = n + l
      BY <2>3, <1>6
    <3>3. k \in 1 .. Len(r) /\ l \in 1 .. Len(r) /\ l < k
      BY <1>0, <1>9, <3>1, <3>2
    <3>. QED BY <3>1, <3>2, <3>3, <1>4, <1>0
  <2>. QED BY <2>1, <2>2, <2>3
<1>10. ASSUME NEW y \in 1 .. b - 1, HasCalls(t[y]) PROVE \E p \in 1 .. a - 1 : HasCalls(s[p]) /\ g[p] = y
  <2>1. CASE y \in 1 .. m
    <3>1. PICK k \in 1 .. n : Spot(ctx, k) = y /\ ctx[k] = mc[y]
      BY <2>1, <1>2, <1>3, <1>10
    <3>2. k \in 1 .. a - 1
      BY <1>0
    <3>. QED BY <3>1, <3>2, <2>1, <1>1, <1>2, <1>4, <1>10
  <2>2. CASE \E k \in 1 .. q - 1 : y = m + k
    <3>1. PICK k \in 1 .. q - 1 : y = m + k
      BY <2>2
    <3>2. k \in 1 .. Len(r) /\ n + k \in 1 .. a - 1
      BY <1>0
    <3>3. t[y] = r[k] /\ s[n + k] = r[k] /\ g[n + k] = y
      BY <3>1, <3>2, <1>1, <1>2, <1>4
    <3>. QED BY <3>2, <3>3, <1>10
  <2>. QED BY <2>1, <2>2, <1>7
<1>. HIDE DEF a, b
<1>11. Carries(g, s, a, t, b)
  BY <1>8, <1>9, <1>10 DEF Carries
<1>12. LastCalls(s, a) = LastCalls(t, b)
  <2>1. s \in Seq(AnyMessages) /\ t \in Seq(AnyMessages)
    BY <1>1, <1>2
  <2>. QED BY <2>1, <1>5, <1>11, CallsMix, ZenonT(30)
<1>. QED BY <1>12 DEF a, b, s, t, n, m, mc

-----------------------------------------------------------------------------
(* The messages as they are preprocessed.                                  *)

\* A message with its results sorted by the calls.
SortedBy(msg, calls) == [msg EXCEPT !.blocks = SortBlocks(@, calls)]

\* The last calls are calls.
LEMMA LastCallsType ==
  ASSUME NEW s \in Seq(AnyMessages), NEW i \in 1 .. Len(s) + 1
  PROVE  LastCalls(s, i) \in Seq(Nat)
<1>1. \A j \in 1 .. Len(s) : s[j].calls \in Seq(Nat)
  BY DEF AnyMessages, Messages, Merged
<1>2. CASE \A j \in 1 .. i - 1 : ~HasCalls(s[j])
  <2>1. LastCalls(s, i) = <<>>
    BY <1>2, LastCallsAre DEF HasCalls
  <2>. QED BY <2>1
<1>3. CASE ~(\A j \in 1 .. i - 1 : ~HasCalls(s[j]))
  <2>1. PICK p \in 1 .. i - 1 : HasCalls(s[p]) /\ \A k \in p + 1 .. i - 1 : ~HasCalls(s[k])
    BY <1>3, LastCallsAre DEF HasCalls
  <2>2. LastCalls(s, i) = s[p].calls
    BY <2>1, LastCallsAre DEF HasCalls
  <2>3. p \in 1 .. Len(s)
    OBVIOUS
  <2>. QED BY <2>2, <2>3, <1>1
<1>. QED BY <1>2, <1>3

\* The sort changes the blocks alone.
LEMMA SortedByIs ==
  ASSUME NEW msg \in Merged, NEW calls \in Seq(Nat)
  PROVE  LET m == SortedBy(msg, calls) IN
         /\ m \in Merged /\ m.blocks = SortBlocks(msg.blocks, calls) /\ msg.blocks \in Seq(Blocks)
         /\ m.role = msg.role /\ m.content = msg.content /\ m.id = msg.id /\ m.calls = msg.calls
         /\ m.task = msg.task /\ m.reasoning = msg.reasoning /\ m.tools = msg.tools
<1>1. msg.blocks \in Seq(Blocks)
  BY DEF Merged
<1>2. SortBlocks(msg.blocks, calls) \in Seq(Blocks)
  <2>. DEFINE b == msg.blocks
  <2>. HIDE DEF b
  <2>1. SortBlocks(b, calls) \in Seq(Blocks)
    BY <1>1, SortedAre DEF b
  <2>. QED BY <2>1 DEF b
<1>. DEFINE b == SortBlocks(msg.blocks, calls)
<1>3. SortedBy(msg, calls) = [msg EXCEPT !.blocks = b]
  BY DEF SortedBy
<1>4. b \in Seq(Blocks)
  BY <1>2
<1>. HIDE DEF b
<1>5. LET m == [msg EXCEPT !.blocks = b] IN
         /\ m \in Merged /\ m.blocks = b
         /\ m.role = msg.role /\ m.content = msg.content /\ m.id = msg.id /\ m.calls = msg.calls
         /\ m.task = msg.task /\ m.reasoning = msg.reasoning /\ m.tools = msg.tools
  BY <1>4 DEF Merged
<1>. QED BY <1>1, <1>3, <1>5 DEF b

\* Every message is sorted by its last calls.
LEMMA SortToolResultsIs ==
  ASSUME NEW S, NEW s \in Seq(S)
  PROVE  SortToolResults(s) = [i \in 1 .. Len(s) |-> SortedBy(s[i], LastCalls(s, i))]
<1>1. DOMAIN s = 1 .. Len(s)
  OBVIOUS
<1>. QED BY <1>1 DEF SortToolResults, SortedBy

\* A context is its merged messages, each sorted.
LEMMA EncodedIs ==
  ASSUME NEW ctx \in Seq(Messages)
  PROVE  LET mc == MergeToolMessages(ctx) IN
         /\ Encoded(ctx) \in Seq(Merged) /\ Len(Encoded(ctx)) = Len(mc) /\ mc \in Seq(Merged)
         /\ \A p \in 1 .. Len(mc) : LastCalls(mc, p) \in Seq(Nat) /\ Encoded(ctx)[p] = SortedBy(mc[p], LastCalls(mc, p))
<1>. DEFINE mc == MergeToolMessages(ctx)
<1>1. mc \in Seq(Merged) /\ mc \in Seq(AnyMessages) /\ Len(mc) \in Nat
  BY MergedAre, TypesMix
<1>2. Encoded(ctx) = SortToolResults(mc)
  BY DEF Encoded
<1>. HIDE DEF mc
<1>3. Encoded(ctx) = [p \in 1 .. Len(mc) |-> SortedBy(mc[p], LastCalls(mc, p))]
  BY <1>1, <1>2, SortToolResultsIs
<1>4. \A p \in 1 .. Len(mc) : LastCalls(mc, p) \in Seq(Nat)
  BY <1>1, LastCallsType
<1>5. \A p \in 1 .. Len(mc) : SortedBy(mc[p], LastCalls(mc, p)) \in Merged
  BY <1>1, <1>4, SortedByIs
<1>. QED BY <1>1, <1>3, <1>4, <1>5 DEF mc

\* So are the messages that follow it, by the calls of both.
LEMMA PreprocessIs ==
  ASSUME NEW ctx \in Seq(Messages), NEW ms \in Seq(Messages)
  PROVE  LET r == MergeToolMessages(ms)
             c(q) == LastCalls(ctx \o r, Len(ctx) + q) IN
         /\ Preprocess(ctx, ms) \in Seq(Merged) /\ Len(Preprocess(ctx, ms)) = Len(r) /\ r \in Seq(Merged)
         /\ \A q \in 1 .. Len(r) : c(q) \in Seq(Nat) /\ Preprocess(ctx, ms)[q] = SortedBy(r[q], c(q))
<1>. DEFINE n == Len(ctx)  r == MergeToolMessages(ms)  s == ctx \o r  t == SortToolResults(s)
<1>1. r \in Seq(Merged) /\ r \in Seq(AnyMessages) /\ ctx \in Seq(AnyMessages) /\ n \in Nat
  BY MergedAre, TypesMix
<1>2. Preprocess(ctx, ms) = SubSeq(t, n + 1, n + Len(r))
  BY DEF Preprocess
<1>. HIDE DEF r
<1>3. s \in Seq(AnyMessages) /\ Len(s) = n + Len(r) /\ Len(r) \in Nat /\ \A q \in 1 .. Len(r) : s[n + q] = r[q]
  <2>1. ctx \in Seq(AnyMessages) /\ r \in Seq(AnyMessages)
    BY <1>1
  <2>. QED BY <2>1, ConcatParts
<1>. HIDE DEF s, n
<1>4. t = [i \in 1 .. n + Len(r) |-> SortedBy(s[i], LastCalls(s, i))]
  BY <1>3, SortToolResultsIs
<1>. DEFINE E == {t[i] : i \in 1 .. n + Len(r)}
<1>5. t \in Seq(E) /\ Len(t) = n + Len(r)
  <2>1. t \in [1 .. n + Len(r) -> E]
    BY <1>4
  <2>. HIDE DEF t, E
  <2>1a. n + Len(r) \in Nat
    BY <1>1, <1>3
  <2>. DEFINE k == n + Len(r)
  <2>. HIDE DEF k
  <2>. QED BY <2>1, <2>1a DEF k
<1>. HIDE DEF t, E
<1>6. SubSeq(t, n + 1, n + Len(r)) = [q \in 1 .. Len(r) |-> t[n + q]]
  <2>. DEFINE m == n + 1  e == n + Len(r)  cut == SubSeq(t, m, e)
  <2>1. m \in Int /\ m >= 1 /\ e \in Int /\ e <= Len(t) /\ e - m + 1 = Len(r) /\ (m <= e <=> Len(r) > 0)
        /\ \A q \in 1 .. Len(r) : m + q - 1 = n + q
    BY <1>1, <1>3, <1>5
  <2>. HIDE DEF m, e
  <2>2. cut \in Seq(E) /\ Len(cut) = (IF m <= e THEN e - m + 1 ELSE 0) /\ \A i \in 1 .. e - m + 1 : cut[i] = t[m + i - 1]
    BY <2>1, <1>5, SubSeqProperties, SMTT(30)
  <2>. HIDE DEF cut
  <2>3. Len(cut) = Len(r)
    BY <2>1, <2>2, <1>3
  <2>4. \A q \in 1 .. Len(r) : cut[q] = t[n + q]
    BY <2>1, <2>2
  <2>5. cut = [q \in 1 .. Len(r) |-> cut[q]]
    BY <2>2, <2>3
  <2>. QED BY <2>4, <2>5 DEF cut, m, e
<1>7. ASSUME NEW q \in 1 .. Len(r)
      PROVE  /\ LastCalls(s, n + q) \in Seq(Nat) /\ t[n + q] = SortedBy(r[q], LastCalls(s, n + q))
             /\ SortedBy(r[q], LastCalls(s, n + q)) \in Merged
  <2>1. n + q \in 1 .. n + Len(r) /\ n + q \in 1 .. Len(s) + 1 /\ s[n + q] = r[q]
    BY <1>1, <1>3
  <2>2. LastCalls(s, n + q) \in Seq(Nat)
    BY <2>1, <1>3, LastCallsType
  <2>3. t[n + q] = SortedBy(r[q], LastCalls(s, n + q))
    BY <2>1, <1>4
  <2>4. r[q] \in Merged
    BY <1>1
  <2>. QED BY <2>2, <2>3, <2>4, SortedByIs
<1>8. \A q \in 1 .. Len(r) : t[n + q] \in Merged
  BY <1>7
<1>9. [q \in 1 .. Len(r) |-> t[n + q]] \in Seq(Merged)
  BY <1>3, <1>8
<1>10. \A q \in 1 .. Len(r) : LastCalls(s, n + q) \in Seq(Nat) /\ Preprocess(ctx, ms)[q] = SortedBy(r[q], LastCalls(s, n + q))
  BY <1>2, <1>6, <1>7
<1>. QED BY <1>1, <1>2, <1>3, <1>6, <1>9, <1>10 DEF s, n, r

-----------------------------------------------------------------------------
(* A context and what follows it.                                          *)

\* One message more, behind others.
LEMMA MergeBehind ==
  ASSUME NEW a \in Seq(Merged), NEW s \in Seq(Merged), NEW msg \in Messages,
         s # <<>> \/ ~Asks(msg) \/ a = <<>> \/ a[Len(a)].role # "user"
  PROVE  MergeOne(a \o s, msg) = a \o MergeOne(s, msg)
<1>. DEFINE c == a \o s
<1>1. /\ c \in Seq(Merged) /\ Len(c) = Len(a) + Len(s) /\ Len(a) \in Nat /\ Len(s) \in Nat
      /\ (\A i \in 1 .. Len(a) : c[i] = a[i]) /\ (\A i \in 1 .. Len(s) : c[Len(a) + i] = s[i])
  BY ConcatParts
<1>2. \A m : Append(c, m) = a \o Append(s, m)
  BY SMT
<1>3. \A role : Opens(c, role) /\ (s # <<>> \/ a = <<>> \/ a[Len(a)].role # "user") => Opens(s, role)
  <2>. SUFFICES ASSUME NEW role, Opens(c, role), s # <<>> \/ a = <<>> \/ a[Len(a)].role # "user" PROVE Opens(s, role)
    OBVIOUS
  <2>. HIDE DEF c
  <2>1. c # <<>> /\ c[Len(c)].role = "user" /\ (role = "tool" \/ c[Len(c)].task = NoTask)
    BY DEF Opens, Last
  <2>2. s # <<>>
    <3>1. SUFFICES ASSUME s = <<>> PROVE FALSE
      OBVIOUS
    <3>2. Len(s) = 0 /\ Len(c) = Len(a) /\ Len(a) # 0
      BY <3>1, <2>1, <1>1
    <3>3. c[Len(c)] = a[Len(a)] /\ a # <<>>
      BY <3>2, <1>1
    <3>. QED BY <3>1, <3>3, <2>1
  <2>3. Len(s) \in 1 .. Len(s)
    BY <2>2
  <2>4. c[Len(c)] = s[Len(s)]
    BY <2>3, <1>1
  <2>. QED BY <2>1, <2>2, <2>4 DEF Opens, Last
<1>4. \A role : Opens(s, role) => Opens(c, role) /\ Len(s) \in 1 .. Len(s) /\ c[Len(c)] = s[Len(s)] /\ Len(c) = Len(a) + Len(s)
  <2>. SUFFICES ASSUME NEW role, Opens(s, role)
                PROVE Opens(c, role) /\ Len(s) \in 1 .. Len(s) /\ c[Len(c)] = s[Len(s)] /\ Len(c) = Len(a) + Len(s)
    OBVIOUS
  <2>1. s # <<>> /\ s[Len(s)].role = "user" /\ (role = "tool" \/ s[Len(s)].task = NoTask)
    BY DEF Opens, Last
  <2>2. Len(s) \in 1 .. Len(s)
    BY <2>1
  <2>. HIDE DEF c
  <2>3. c[Len(c)] = s[Len(s)] /\ c # <<>>
    BY <2>2, <1>1
  <2>. QED BY <2>1, <2>2, <2>3, <1>1 DEF Opens, Last
<1>5. CASE ~Asks(msg)
  <2>. HIDE DEF c
  <2>1. MergeOne(c, msg) = Append(c, msg)
    BY <1>1, <1>5, MergeCases
  <2>2. MergeOne(s, msg) = Append(s, msg)
    BY <1>5, MergeCases
  <2>3. Append(c, msg) = a \o Append(s, msg)
    BY <1>2
  <2>. QED BY <2>1, <2>2, <2>3 DEF c
<1>6. CASE Asks(msg) /\ ~Opens(s, msg.role)
  <2>1. ~Opens(c, msg.role)
    BY <1>3, <1>6
  <2>. QED BY <2>1, <1>1, <1>2, <1>6, MergeCases
<1>7. CASE Asks(msg) /\ Opens(s, msg.role)
  <2>. DEFINE b == BlockFor(msg)  l == Len(s)
              new == [s[l] EXCEPT !.blocks = Append(@, b)]
  <2>1. Opens(c, msg.role) /\ l \in 1 .. Len(s) /\ c[Len(c)] = s[l] /\ Len(c) = Len(a) + l
    BY <1>4, <1>7
  <2>2. MergeOne(c, msg) = [c EXCEPT ![Len(c)] = new]
    <3>1. MergeOne(c, msg) = [c EXCEPT ![Len(c)].blocks = Append(@, b)]
      BY <2>1, <1>1, <1>7, MergeCases
    <3>. HIDE DEF c, b
    <3>. QED BY <3>1, <2>1
  <2>3. MergeOne(s, msg) = [s EXCEPT ![l] = new]
    <3>1. MergeOne(s, msg) = [s EXCEPT ![Len(s)].blocks = Append(@, b)]
      BY <1>7, MergeCases
    <3>. HIDE DEF b
    <3>. QED BY <3>1
  <2>4. new \in Merged
    <3>1. b \in Blocks
      BY MessageTypes
    <3>2. s[l] \in Merged
      BY <2>1
    <3>. DEFINE m == s[l]
    <3>. HIDE DEF b, m
    <3>3. m \in Merged
      BY <3>2 DEF m
    <3>4. m.blocks \in Seq(Blocks) /\ Append(m.blocks, b) \in Seq(Blocks)
      BY <3>1, <3>3 DEF Merged
    <3>5. [m EXCEPT !.blocks = Append(@, b)] \in Merged
      BY <3>3, <3>4 DEF Merged
    <3>. QED BY <3>5 DEF m
  <2>. HIDE DEF new, c, l
  <2>5. [c EXCEPT ![Len(c)] = new] = a \o [s EXCEPT ![l] = new]
    <3>. DEFINE t == [s EXCEPT ![l] = new]
    <3>1. t \in Seq(Merged) /\ Len(t) = Len(s) /\ t[l] = new /\ \A i \in 1 .. Len(s) : i # l => t[i] = s[i]
      BY <2>1, <2>4
    <3>. HIDE DEF t
    <3>0. t \in Seq(Merged)
      BY <3>1
    <3>2. /\ a \o t \in Seq(Merged) /\ Len(a \o t) = Len(a) + Len(t)
          /\ (\A i \in 1 .. Len(a) : (a \o t)[i] = a[i]) /\ (\A i \in 1 .. Len(t) : (a \o t)[Len(a) + i] = t[i])
          /\ \A i \in 1 .. Len(a) + Len(t) : i \in 1 .. Len(a) \/ \E k \in 1 .. Len(t) : i = Len(a) + k
      BY <3>0, ConcatParts
    <3>. DEFINE d == [c EXCEPT ![Len(c)] = new]
    <3>3. d \in Seq(Merged) /\ Len(d) = Len(c) /\ \A i \in 1 .. Len(c) : d[i] = IF i = Len(c) THEN new ELSE c[i]
      BY <2>1, <2>4, <1>1
    <3>. HIDE DEF d
    <3>4. ASSUME NEW i \in 1 .. Len(d) PROVE d[i] = (a \o t)[i]
      <4>0. i \in 1 .. Len(c) /\ i \in 1 .. Len(a) + Len(t)
        BY <3>1, <3>3, <1>1
      <4>1. CASE i \in 1 .. Len(a)
        <5>1. i # Len(c)
          BY <4>1, <2>1, <1>1
        <5>. QED BY <4>0, <4>1, <5>1, <3>2, <3>3, <1>1
      <4>2. CASE \E k \in 1 .. Len(t) : i = Len(a) + k
        <5>1. PICK k \in 1 .. Len(t) : i = Len(a) + k
          BY <4>2
        <5>4. Len(a) \in Int /\ Len(t) \in Int /\ Len(s) \in Int
          BY <3>1, <1>1
        <5>5. k \in Int /\ l \in Int /\ Len(c) = Len(a) + l
          BY <5>4, <2>1
        <5>2. k = l <=> i = Len(c)
          BY <5>1, <5>4, <5>5
        <5>3. c[i] = s[k] /\ (a \o t)[i] = t[k] /\ k \in 1 .. Len(s)
          BY <5>1, <3>1, <3>2, <1>1
        <5>. QED BY <4>0, <5>2, <5>3, <3>1, <3>3
      <4>. QED BY <4>0, <4>1, <4>2, <3>2
    <3>5. Len(d) = Len(a \o t)
      BY <3>1, <3>2, <3>3, <1>1
    <3>. DEFINE e == a \o t
    <3>. HIDE DEF e
    <3>6. e \in Seq(Merged) /\ Len(d) = Len(e) /\ \A i \in 1 .. Len(d) : d[i] = e[i]
      BY <3>2, <3>4, <3>5 DEF e
    <3>7. d = e
      BY <3>3, <3>6, SeqEqual
    <3>. QED BY <3>7 DEF d, e, t
  <2>. QED BY <2>2, <2>3, <2>5 DEF c, l
<1>. QED BY <1>5, <1>6, <1>7

\* What is merged of the context alone.
LEMMA MergePrefix ==
  ASSUME NEW ctx \in Seq(Messages), NEW ms \in Seq(Messages), NEW k \in 0 .. Len(ctx)
  PROVE  MergeTo(ctx \o ms)[k] = MergeTo(ctx)[k]
<1>. DEFINE w == ctx \o ms
            T == {i \in 0 .. Len(ctx) : MergeTo(w)[i] = MergeTo(ctx)[i]}
<1>1. w \in Seq(Messages) /\ Len(w) = Len(ctx) + Len(ms) /\ Len(ctx) \in Nat /\ Len(ms) \in Nat
      /\ \A i \in 1 .. Len(ctx) : w[i] = ctx[i]
  BY ConcatParts
<1>. HIDE DEF w
<1>2. 0 \in T
  <2>1. MergeTo(w)[0] = <<>> /\ MergeTo(ctx)[0] = <<>>
    BY <1>1, MergeSteps
  <2>. QED BY <2>1, <1>1
<1>3. ASSUME NEW i \in 0 .. (Len(ctx) - 1), i \in T PROVE i + 1 \in T
  <2>1. i + 1 \in 1 .. Len(ctx) /\ i + 1 \in 1 .. Len(w) /\ (i + 1) - 1 = i /\ i + 1 \in 0 .. Len(ctx)
    BY <1>1
  <2>2. MergeTo(w)[i + 1] = MergeOne(MergeTo(w)[i], w[i + 1])
    BY <2>1, <1>1, MergeSteps
  <2>3. MergeTo(ctx)[i + 1] = MergeOne(MergeTo(ctx)[i], ctx[i + 1])
    BY <2>1, MergeSteps
  <2>. QED BY <2>1, <2>2, <2>3, <1>1, <1>3
<1>. HIDE DEF T
<1>4. 0 .. Len(ctx) \subseteq T
  BY <1>1, <1>2, <1>3, InductionTo
<1>. QED BY <1>4 DEF T, w

\* Unless both ask, the last message of a context and the first behind it are merged apart.
LEMMA MergeApart ==
  ASSUME NEW ctx \in Seq(Messages), NEW ms \in Seq(Messages), ctx # <<>>, ms # <<>>,
         ~(Asks(ctx[Len(ctx)]) /\ Asks(ms[1]))
  PROVE  MergeToolMessages(ctx \o ms) = MergeToolMessages(ctx) \o MergeToolMessages(ms)
<1>. DEFINE w == ctx \o ms  n == Len(ctx)  a == MergeTo(ctx)[n]
            T == {k \in 0 .. Len(ms) : MergeTo(w)[n + k] = a \o MergeTo(ms)[k]}
<1>1. w \in Seq(Messages) /\ Len(w) = n + Len(ms) /\ n \in Nat /\ Len(ms) \in Nat
      /\ (\A i \in 1 .. Len(ms) : w[n + i] = ms[i]) /\ n \in 1 .. Len(ctx)
  BY ConcatParts
<1>. HIDE DEF w
<1>2. a = MergeToolMessages(ctx) /\ a \in Seq(Merged)
  BY MergeSteps, MergedAre
<1>3. Asks(ms[1]) => a = <<>> \/ a[Len(a)].role # "user"
  <2>. SUFFICES ASSUME Asks(ms[1]) PROVE a[Len(a)].role # "user"
    OBVIOUS
  <2>1. Spot(ctx, n) = Len(a)
    BY DEF Spot
  <2>2. a[Spot(ctx, n)] = ctx[n]
    BY <1>1, <1>2, MergedAre
  <2>. QED BY <2>1, <2>2 DEF Asks
<1>4. 0 \in T
  <2>1. MergeTo(w)[n] = a
    BY MergePrefix, <1>1 DEF w
  <2>2. MergeTo(ms)[0] = <<>>
    BY MergeSteps
  <2>3. a \o <<>> = a
    BY <1>2, ConcatEmptySeq
  <2>. HIDE DEF a
  <2>4. n + 0 = n /\ 0 \in 0 .. Len(ms)
    BY <1>1
  <2>. QED BY <2>1, <2>2, <2>3, <2>4
<1>. HIDE DEF a
<1>5. ASSUME NEW k \in 0 .. (Len(ms) - 1), k \in T PROVE k + 1 \in T
  <2>1. k + 1 \in 1 .. Len(ms) /\ n + k + 1 \in 1 .. Len(w) /\ (n + k + 1) - 1 = n + k /\ k + 1 \in 0 .. Len(ms)
        /\ (k + 1) - 1 = k /\ n + (k + 1) = n + k + 1 /\ k \in 0 .. Len(ms)
    BY <1>1
  <2>. DEFINE s == MergeTo(ms)[k]  msg == ms[k + 1]
  <2>2. MergeTo(w)[n + k + 1] = MergeOne(MergeTo(w)[n + k], w[n + k + 1])
    BY <2>1, <1>1, MergeSteps, ZenonT(60)
  <2>3. MergeTo(ms)[k + 1] = MergeOne(s, msg)
    BY <2>1, MergeSteps
  <2>4. w[n + k + 1] = msg /\ msg \in Messages
    BY <2>1, <1>1
  <2>5. s \in Seq(Merged)
    BY <2>1, MergeHolds DEF MergeInv
  <2>6. s # <<>> \/ ~Asks(msg) \/ a = <<>> \/ a[Len(a)].role # "user"
    <3>1. CASE k = 0
      BY <3>1, <1>3
    <3>2. CASE k # 0
      <4>1. MergeInv(ms, k) /\ k \in 1 .. k
        BY <3>2, <2>1, MergeHolds
      <4>2. Spot(ms, k) \in 1 .. Len(s)
        BY <4>1 DEF MergeInv
      <4>. QED BY <4>2, <2>5
    <3>. QED BY <3>1, <3>2
  <2>. HIDE DEF s, msg
  <2>7. MergeOne(a \o s, msg) = a \o MergeOne(s, msg)
    BY <2>4, <2>5, <2>6, <1>2, MergeBehind
  <2>8. MergeTo(w)[n + k] = a \o s
    BY <1>5 DEF s
  <2>. QED BY <2>1, <2>2, <2>3, <2>4, <2>7, <2>8
<1>. HIDE DEF T
<1>6. Len(ms) \in T
  <2>1. 0 .. Len(ms) \subseteq T
    BY <1>1, <1>4, <1>5, InductionTo
  <2>. QED BY <2>1, <1>1
<1>7. MergeToolMessages(w) = MergeTo(w)[n + Len(ms)] /\ MergeToolMessages(ms) = MergeTo(ms)[Len(ms)]
  BY <1>1, MergeSteps
<1>. QED BY <1>2, <1>6, <1>7 DEF T, w

\* All messages, of the context and behind it.
LEMMA AllAre ==
  ASSUME NEW ctx \in Seq(Messages), NEW ms \in Seq(Messages)
  PROVE  LET all == AllMessages(ctx, ms)  n == Len(Encoded(ctx)) IN
         /\ all \in Seq(Merged) /\ Len(all) = n + Len(Preprocess(ctx, ms)) /\ n \in Nat /\ Len(Preprocess(ctx, ms)) \in Nat
         /\ \A p \in 1 .. n : all[p] = Encoded(ctx)[p]
         /\ \A q \in 1 .. Len(Preprocess(ctx, ms)) : all[n + q] = Preprocess(ctx, ms)[q]
         /\ \A p \in 1 .. Len(all) : p \in 1 .. n \/ \E q \in 1 .. Len(Preprocess(ctx, ms)) : p = n + q
<1>1. Encoded(ctx) \in Seq(Merged) /\ Preprocess(ctx, ms) \in Seq(Merged)
  BY EncodedIs, PreprocessIs
<1>. DEFINE a == Encoded(ctx)  b == Preprocess(ctx, ms)
<1>. HIDE DEF a, b
<1>2. a \in Seq(Merged) /\ b \in Seq(Merged)
  BY <1>1 DEF a, b
<1>3. /\ a \o b \in Seq(Merged) /\ Len(a \o b) = Len(a) + Len(b) /\ Len(a) \in Nat /\ Len(b) \in Nat
      /\ (\A i \in 1 .. Len(a) : (a \o b)[i] = a[i])
      /\ (\A i \in 1 .. Len(b) : (a \o b)[Len(a) + i] = b[i])
      /\ (\A i \in 1 .. Len(a) + Len(b) : i \in 1 .. Len(a) \/ \E k \in 1 .. Len(b) : i = Len(a) + k)
  BY <1>2, ConcatParts
<1>4. AllMessages(ctx, ms) = a \o b
  BY DEF AllMessages, a, b
<1>. DEFINE c == a \o b
<1>. HIDE DEF c
<1>5. /\ c \in Seq(Merged) /\ Len(c) = Len(a) + Len(b) /\ Len(a) \in Nat /\ Len(b) \in Nat
      /\ (\A i \in 1 .. Len(a) : c[i] = a[i])
      /\ (\A i \in 1 .. Len(b) : c[Len(a) + i] = b[i])
      /\ (\A i \in 1 .. Len(a) + Len(b) : i \in 1 .. Len(a) \/ \E k \in 1 .. Len(b) : i = Len(a) + k)
  BY <1>3 DEF c
<1>6. AllMessages(ctx, ms) = c
  BY <1>4 DEF c
<1>. QED BY <1>5, <1>6 DEF a, b

\* No context is no messages.
LEMMA NothingEncoded == Encoded(<<>>) = <<>>
<1>1. <<>> \in Seq(Messages) /\ Len(<<>>) = 0
  OBVIOUS
<1>2. MergeToolMessages(<<>>) = MergeTo(<<>>)[0] /\ MergeTo(<<>>)[0] = <<>>
  BY <1>1, MergeSteps
<1>3. Encoded(<<>>) \in Seq(Merged) /\ Len(Encoded(<<>>)) = 0
  BY <1>1, <1>2, EncodedIs
<1>. QED BY <1>3, EmptySeq

\* Unless it is joined with what follows, a context reads as it does alone.
LEMMA WholeAgrees ==
  ASSUME NEW ctx \in Seq(Messages), NEW ms \in Seq(Messages), ctx # <<>>, ms # <<>>,
         ~(Asks(ctx[Len(ctx)]) /\ Asks(ms[1]))
  PROVE  AllMessages(<<>>, ctx \o ms) = AllMessages(ctx, ms)
<1>. DEFINE w == ctx \o ms  mw == MergeToolMessages(w)  mc == MergeToolMessages(ctx)  r == MergeToolMessages(ms)
            n == Len(ctx)  m == Len(mc)
            c(p) == LastCalls(mw, p)
            all == AllMessages(ctx, ms)  whole == AllMessages(<<>>, w)
<1>1. w \in Seq(Messages) /\ <<>> \in Seq(Messages) /\ n \in Nat
  BY ConcatParts
<1>2. mw = mc \o r
  BY MergeApart
<1>3. mc \in Seq(Merged) /\ r \in Seq(Merged) /\ mc \in Seq(AnyMessages) /\ r \in Seq(AnyMessages)
  BY MergedAre, TypesMix
<1>4. mw \in Seq(Merged) /\ mw \in Seq(AnyMessages)
  BY <1>1, MergedAre, TypesMix
<1>. HIDE DEF w
<1>5. whole = Preprocess(<<>>, w) /\ whole \in Seq(Merged)
  <2>1. Preprocess(<<>>, w) \in Seq(Merged)
    BY <1>1, PreprocessIs
  <2>. DEFINE b == Preprocess(<<>>, w)
  <2>. HIDE DEF b
  <2>2. <<>> \o b = b
    BY <2>1, ConcatEmptySeq DEF b
  <2>. QED BY <2>1, <2>2, NothingEncoded DEF AllMessages, b
<1>6. Len(whole) = Len(mw) /\ \A p \in 1 .. Len(mw) : whole[p] = SortedBy(mw[p], c(p))
  <2>1. <<>> \o mw = mw
    BY <1>4, ConcatEmptySeq
  <2>. DEFINE e(q) == LastCalls(<<>> \o mw, Len(<<>>) + q)
  <2>2. Len(Preprocess(<<>>, w)) = Len(mw) /\ \A q \in 1 .. Len(mw) : Preprocess(<<>>, w)[q] = SortedBy(mw[q], e(q))
    BY <1>1, PreprocessIs
  <2>3. ASSUME NEW q \in 1 .. Len(mw) PROVE e(q) = c(q)
    <3>1. Len(<<>>) + q = q
      OBVIOUS
    <3>. HIDE DEF mw
    <3>. QED BY <3>1, <2>1
  <2>. HIDE DEF e, mw, whole, c
  <2>. QED BY <2>2, <2>3, <1>5
<1>. HIDE DEF mw, whole, c
<1>7. /\ Len(mw) = m + Len(r) /\ m \in Nat /\ Len(r) \in Nat
      /\ \A p \in 1 .. m : mw[p] = mc[p]
      /\ \A q \in 1 .. Len(r) : mw[m + q] = r[q]
  <2>. HIDE DEF mc, r
  <2>. QED BY <1>2, <1>3, ConcatParts
<1>8. /\ Len(Encoded(ctx)) = m /\ \A p \in 1 .. m : Encoded(ctx)[p] = SortedBy(mc[p], LastCalls(mc, p))
  BY EncodedIs
<1>9. /\ Len(Preprocess(ctx, ms)) = Len(r)
      /\ \A q \in 1 .. Len(r) : Preprocess(ctx, ms)[q] = SortedBy(r[q], LastCalls(ctx \o r, n + q))
  BY PreprocessIs
<1>10. /\ all \in Seq(Merged) /\ Len(all) = m + Len(r)
       /\ \A p \in 1 .. m : all[p] = Encoded(ctx)[p]
       /\ \A q \in 1 .. Len(r) : all[m + q] = Preprocess(ctx, ms)[q]
       /\ \A p \in 1 .. Len(all) : p \in 1 .. m \/ \E q \in 1 .. Len(r) : p = m + q
  <2>. DEFINE e == Len(Encoded(ctx))  b == Len(Preprocess(ctx, ms))
  <2>1. /\ all \in Seq(Merged) /\ Len(all) = e + b
        /\ \A p \in 1 .. e : all[p] = Encoded(ctx)[p]
        /\ \A q \in 1 .. b : all[e + q] = Preprocess(ctx, ms)[q]
        /\ \A p \in 1 .. Len(all) : p \in 1 .. e \/ \E q \in 1 .. b : p = e + q
    BY AllAre
  <2>2. e = m /\ b = Len(r)
    BY <1>8, <1>9
  <2>. HIDE DEF e, b, all, mc, m, r
  <2>. QED BY <2>1, <2>2
<1>11. ASSUME NEW p \in 1 .. m PROVE c(p) = LastCalls(mc, p)
  <2>. HIDE DEF mc, m
  <2>1. p \in 1 .. Len(mc) + 1 /\ p <= Len(mw) + 1 /\ \A x \in 1 .. p - 1 : mc[x] = mw[x]
    BY <1>7 DEF m
  <2>2. LastCalls(mc, p) = LastCalls(mw, p)
    BY <2>1, <1>3, <1>4, CallsBefore
  <2>. QED BY <2>2 DEF c
<1>12. ASSUME NEW q \in 1 .. Len(r) PROVE c(m + q) = LastCalls(ctx \o r, n + q)
  <2>. HIDE DEF r
  <2>1. LastCalls(ctx \o r, n + q) = LastCalls(mc \o r, m + q)
    BY <1>3, CallsOfContext
  <2>. QED BY <2>1, <1>2 DEF c
<1>. HIDE DEF all, mc, r, n, m
<1>13. \A p \in 1 .. Len(all) : whole[p] = all[p]
  <2>. SUFFICES ASSUME NEW p \in 1 .. Len(all) PROVE whole[p] = all[p]
    OBVIOUS
  <2>0. p \in 1 .. Len(mw) /\ whole[p] = SortedBy(mw[p], c(p))
    BY <1>6, <1>7, <1>10
  <2>1. CASE p \in 1 .. m
    BY <2>0, <2>1, <1>7, <1>8, <1>10, <1>11
  <2>2. CASE \E q \in 1 .. Len(r) : p = m + q
    <3>1. PICK q \in 1 .. Len(r) : p = m + q
      BY <2>2
    <3>. QED BY <2>0, <3>1, <1>7, <1>9, <1>10, <1>12
  <2>. QED BY <2>1, <2>2, <1>10
<1>14. Len(whole) = Len(all)
  BY <1>6, <1>7, <1>10
<1>15. whole = all
  BY <1>5, <1>10, <1>13, <1>14, SeqEqual
<1>. QED BY <1>15 DEF whole, all, w

-----------------------------------------------------------------------------
(* The messages that are rendered.                                         *)

\* The last user or developer.
LEMMA LastUserIs ==
  ASSUME NEW s \in Seq(Merged)
  PROVE  /\ LastUser(s) \in 0 .. Len(s)
         /\ \A i \in 1 .. Len(s) : s[i].role \in {"user", "developer"} => i <= LastUser(s)
         /\ LastUser(s) # 0 => s[LastUser(s)].role \in {"user", "developer"}
<1>. DEFINE A == {i \in DOMAIN s : s[i].role \in {"user", "developer"}}
            B == {0} \cup A
<1>1. Len(s) \in Nat /\ DOMAIN s = 1 .. Len(s)
  OBVIOUS
<1>2. B \in SUBSET Nat /\ B # {} /\ \A x \in B : x <= Len(s)
  BY <1>1
<1>. HIDE DEF B
<1>3. Max(B) \in B /\ \A x \in B : x <= Max(B)
  BY <1>1, <1>2, MaxOfBounded
<1>4. LastUser(s) = Max(B)
  BY DEF LastUser, B
<1>. QED BY <1>1, <1>3, <1>4 DEF B

\* Parts as long end at the same places.
LEMMA EndsAlike ==
  ASSUME NEW S, NEW ss \in Seq(Seq(S)), NEW tt \in Seq(Seq(S)), NEW n \in Nat, n <= Len(ss), n <= Len(tt),
         \A i \in 1 .. n : Len(ss[i]) = Len(tt[i])
  PROVE  Ends(ss, n) = Ends(tt, n)
<1>. DEFINE T == {k \in 0 .. n : Ends(ss, k) = Ends(tt, k)}
<1>1. 0 \in T
  <2>1. Ends(ss, 0) = 0 /\ Ends(tt, 0) = 0
    BY DEF Ends
  <2>. QED BY <2>1
<1>2. ASSUME NEW k \in 0 .. (n - 1), k \in T PROVE k + 1 \in T
  <2>1. k + 1 \in 1 .. Len(ss) /\ k + 1 \in 1 .. Len(tt) /\ k + 1 \in 1 .. n /\ (k + 1) - 1 = k /\ k + 1 \in 0 .. n
    OBVIOUS
  <2>2. Ends(ss, k + 1) = Ends(ss, k) + Len(ss[k + 1])
    BY <2>1, FlattenPlaces, SMTT(30)
  <2>3. Ends(tt, k + 1) = Ends(tt, k) + Len(tt[k + 1])
    BY <2>1, FlattenPlaces, SMTT(30)
  <2>. QED BY <2>1, <2>2, <2>3, <1>2
<1>. HIDE DEF T
<1>3. 0 .. n \subseteq T
  BY <1>1, <1>2, InductionTo
<1>. QED BY <1>3 DEF T

\* A message without its reasoning.
Bare(msg) == [msg EXCEPT !.reasoning = FALSE]
Keeps(s, i) == s[i].role # "developer" \/ i >= LastUser(s)
DropParts(s) ==
  [i \in 1 .. Len(s) |-> IF Keeps(s, i) THEN <<IF i < LastUser(s) THEN Bare(s[i]) ELSE s[i]>> ELSE <<>>]

\* It is the same message otherwise.
LEMMA BareIs ==
  ASSUME NEW msg \in Merged
  PROVE  LET m == Bare(msg) IN
         /\ m \in Merged /\ m.blocks = msg.blocks /\ m.role = msg.role /\ m.content = msg.content
         /\ m.calls = msg.calls /\ m.task = msg.task
  BY DEF Bare, Merged

\* DropThinkingMessages as a list of parts, one or none of each message.
LEMMA DropIs ==
  ASSUME NEW s \in Seq(Merged)
  PROVE  /\ DropThinkingMessages(s) = FlattenSeq(DropParts(s))
         /\ DropParts(s) \in Seq(Seq(Merged)) /\ Len(DropParts(s)) = Len(s)
         /\ \A i \in 1 .. Len(s) : /\ Len(DropParts(s)[i]) = IF Keeps(s, i) THEN 1 ELSE 0
                                   /\ Keeps(s, i) => DropParts(s)[i][1] \in {s[i], Bare(s[i])}
         /\ DropThinkingMessages(s) \in Seq(Merged)
<1>. DEFINE L == LastUser(s)
            keep(i) == s[i].role \in KeepRoles \cup {"assistant"} \/ i >= L
            one(i) == IF i < L THEN Bare(s[i]) ELSE s[i]
<1>1. \A i \in 1 .. Len(s) : s[i] \in Merged /\ Bare(s[i]) \in Merged
  BY BareIs
<1>2. \A i \in 1 .. Len(s) : keep(i) <=> Keeps(s, i)
  <2>1. \A i \in 1 .. Len(s) : s[i].role \in Roles \ {"tool"}
    BY <1>1 DEF Merged
  <2>2. \A x \in Roles \ {"tool"} : x \in KeepRoles \cup {"assistant"} <=> x # "developer"
    BY DEF Roles, KeepRoles
  <2>. QED BY <2>1, <2>2 DEF Keeps
<1>3. DropThinkingMessages(s) = FlattenSeq([i \in DOMAIN s |-> IF keep(i) THEN <<one(i)>> ELSE <<>>])
  BY DEF DropThinkingMessages, Bare
<1>. HIDE DEF keep
<1>4. [i \in DOMAIN s |-> IF keep(i) THEN <<one(i)>> ELSE <<>>] = DropParts(s)
  <2>1. DOMAIN s = 1 .. Len(s)
    OBVIOUS
  <2>2. \A i \in 1 .. Len(s) : (IF keep(i) THEN <<one(i)>> ELSE <<>>) = IF Keeps(s, i) THEN <<one(i)>> ELSE <<>>
    BY <1>2
  <2>. QED BY <2>1, <2>2 DEF DropParts
<1>5. \A i \in 1 .. Len(s) : one(i) \in Merged /\ one(i) \in {s[i], Bare(s[i])}
  BY <1>1
<1>6. DropParts(s) = [i \in 1 .. Len(s) |-> IF Keeps(s, i) THEN <<one(i)>> ELSE <<>>]
  BY DEF DropParts
<1>. HIDE DEF one
<1>7. \A i \in 1 .. Len(s) : (IF Keeps(s, i) THEN <<one(i)>> ELSE <<>>) \in Seq(Merged)
  BY <1>5
<1>8. DropParts(s) \in Seq(Seq(Merged)) /\ Len(DropParts(s)) = Len(s)
  <2>1. DropParts(s) \in [1 .. Len(s) -> Seq(Merged)] /\ Len(s) \in Nat
    BY <1>6, <1>7
  <2>. QED BY <2>1
<1>9. ASSUME NEW i \in 1 .. Len(s)
      PROVE  /\ Len(DropParts(s)[i]) = IF Keeps(s, i) THEN 1 ELSE 0
             /\ Keeps(s, i) => DropParts(s)[i][1] \in {s[i], Bare(s[i])}
  <2>1. DropParts(s)[i] = IF Keeps(s, i) THEN <<one(i)>> ELSE <<>>
    BY <1>6
  <2>2. Len(<<one(i)>>) = 1 /\ <<one(i)>>[1] = one(i) /\ Len(<<>>) = 0
    OBVIOUS
  <2>. QED BY <2>1, <2>2, <1>5
<1>10. FlattenSeq(DropParts(s)) \in Seq(Merged)
  BY <1>8, FlattenIsSeq
<1>. QED BY <1>3, <1>4, <1>8, <1>9, <1>10

\* What is rendered is of all messages those that are kept, in their order; the context's are the first.
Thinned(full, first, all, n, kept) ==
  /\ full \in Seq(Merged) /\ first \in 0 .. Len(full)
  /\ \A t \in 1 .. Len(full) : kept[t] \in 1 .. Len(all) /\ full[t] \in {all[kept[t]], Bare(all[kept[t]])}
  /\ \A t, u \in 1 .. Len(full) : t < u <=> kept[t] < kept[u]
  /\ \A i \in 1 .. Len(all) : all[i].role # "developer" => \E t \in 1 .. Len(full) : kept[t] = i
  /\ \A t \in 1 .. Len(full) : first < t <=> n < kept[t]

\* What dropping leaves of a list, and where it leaves the context.
LEMMA DropThins ==
  ASSUME NEW all \in Seq(Merged), NEW enc \in Seq(Merged), Len(enc) <= Len(all),
         \A i \in 1 .. Len(enc) : enc[i] = all[i],
         \A i \in 1 .. Len(enc) : enc[i].role = "developer" => \E j \in i + 1 .. Len(enc) : enc[j].role = "user"
  PROVE  \E kept : Thinned(DropThinkingMessages(all), Len(DropThinkingMessages(enc)), all, Len(enc), kept)
<1>. DEFINE P == DropParts(all)  Q == DropParts(enc)  full == DropThinkingMessages(all)  n == Len(enc)
            E(i) == Ends(P, i)
            kept == [t \in 1 .. Len(full) |-> CHOOSE i \in 1 .. Len(all) : Keeps(all, i) /\ E(i - 1) + 1 = t]
<1>1. /\ full = FlattenSeq(P) /\ P \in Seq(Seq(Merged)) /\ Len(P) = Len(all) /\ full \in Seq(Merged)
      /\ \A i \in 1 .. Len(all) : /\ Len(P[i]) = IF Keeps(all, i) THEN 1 ELSE 0
                                  /\ Keeps(all, i) => P[i][1] \in {all[i], Bare(all[i])}
  BY DropIs
<1>2. /\ DropThinkingMessages(enc) = FlattenSeq(Q) /\ Q \in Seq(Seq(Merged)) /\ Len(Q) = n
      /\ \A i \in 1 .. n : Len(Q[i]) = IF Keeps(enc, i) THEN 1 ELSE 0
  BY DropIs
<1>3. n \in Nat /\ Len(all) \in Nat /\ n <= Len(all) /\ Len(full) \in Nat
  BY <1>1
<1>4. /\ E(0) = 0 /\ Len(full) = E(Len(all)) /\ (\A i \in 0 .. Len(all) : E(i) \in Nat)
      /\ (\A i \in 1 .. Len(all) : E(i) = E(i - 1) + IF Keeps(all, i) THEN 1 ELSE 0)
      /\ (\A i \in 1 .. Len(all) : Keeps(all, i) => full[E(i - 1) + 1] = P[i][1])
  <2>1. /\ Ends(P, 0) = 0 /\ Len(FlattenSeq(P)) = Ends(P, Len(P))
        /\ \A i \in 0 .. Len(P) : Ends(P, i) \in Nat
        /\ \A i \in 1 .. Len(P) : Ends(P, i) = Ends(P, i - 1) + Len(P[i])
        /\ \A i \in 1 .. Len(P) : \A q \in 1 .. Len(P[i]) : FlattenSeq(P)[Ends(P, i - 1) + q] = P[i][q]
    BY <1>1, FlattenPlaces
  <2>2. \A i \in 1 .. Len(all) : Keeps(all, i) => 1 \in 1 .. Len(P[i])
    BY <1>1
  <2>. HIDE DEF P, full
  <2>. QED BY <2>1, <2>2, <1>1
<1>. HIDE DEF P, Q, full
<1>5. ASSUME NEW i \in 1 .. Len(all), NEW j \in 1 .. Len(all), Keeps(all, i), Keeps(all, j)
      PROVE  E(i - 1) + 1 \in 1 .. Len(full) /\ (i < j => E(i - 1) + 1 < E(j - 1) + 1)
  <2>1. 1 \in 1 .. Len(P[i]) /\ 1 \in 1 .. Len(P[j])
    BY <1>1, <1>5
  <2>. QED BY <2>1, <1>1, PlacesInOrder
<1>. HIDE DEF E
<1>6. \A i, j \in 1 .. Len(all) : Keeps(all, i) /\ Keeps(all, j) /\ E(i - 1) + 1 = E(j - 1) + 1 => i = j
  <2>. SUFFICES ASSUME NEW i \in 1 .. Len(all), NEW j \in 1 .. Len(all), Keeps(all, i), Keeps(all, j), E(i - 1) + 1 = E(j - 1) + 1
                PROVE i = j
    OBVIOUS
  <2>1. i < j => E(i - 1) + 1 < E(j - 1) + 1
    BY <1>5
  <2>2. j < i => E(j - 1) + 1 < E(i - 1) + 1
    BY <1>5
  <2>3. i - 1 \in 0 .. Len(all) /\ j - 1 \in 0 .. Len(all)
    BY <1>3
  <2>4. E(i - 1) \in Nat /\ E(j - 1) \in Nat
    BY <2>3, <1>4
  <2>. QED BY <2>1, <2>2, <2>4
<1>7. ASSUME NEW t \in 1 .. Len(full)
      PROVE  kept[t] \in 1 .. Len(all) /\ Keeps(all, kept[t]) /\ E(kept[t] - 1) + 1 = t
  <2>1. PICK i \in 1 .. Len(P) : \E q \in 1 .. Len(P[i]) : t = Ends(P, i - 1) + q
    BY <1>1, PlaceOfPart
  <2>2. PICK q \in 1 .. Len(P[i]) : t = E(i - 1) + q
    BY <2>1 DEF E
  <2>3. i \in 1 .. Len(all) /\ Keeps(all, i) /\ q = 1
    BY <2>2, <1>1
  <2>4. \E x \in 1 .. Len(all) : Keeps(all, x) /\ E(x - 1) + 1 = t
    BY <2>2, <2>3
  <2>. QED BY <2>4
<1>. HIDE DEF kept
<1>8. ASSUME NEW i \in 1 .. Len(all), Keeps(all, i) PROVE E(i - 1) + 1 \in 1 .. Len(full) /\ kept[E(i - 1) + 1] = i
  <2>1. E(i - 1) + 1 \in 1 .. Len(full)
    BY <1>5, <1>8
  <2>2. kept[E(i - 1) + 1] \in 1 .. Len(all) /\ Keeps(all, kept[E(i - 1) + 1])
        /\ E(kept[E(i - 1) + 1] - 1) + 1 = E(i - 1) + 1
    BY <2>1, <1>7
  <2>. QED BY <2>1, <2>2, <1>6, <1>8
<1>9. ASSUME NEW t \in 1 .. Len(full) PROVE full[t] \in {all[kept[t]], Bare(all[kept[t]])}
  <2>. DEFINE i == kept[t]
  <2>1. i \in 1 .. Len(all) /\ Keeps(all, i) /\ E(i - 1) + 1 = t
    BY <1>7
  <2>. HIDE DEF i
  <2>2. full[t] = P[i][1]
    BY <2>1, <1>4
  <2>3. P[i][1] \in {all[i], Bare(all[i])}
    BY <2>1, <1>1
  <2>. QED BY <2>2, <2>3 DEF i
<1>10. ASSUME NEW t \in 1 .. Len(full), NEW u \in 1 .. Len(full) PROVE t < u <=> kept[t] < kept[u]
  <2>1. /\ kept[t] \in 1 .. Len(all) /\ Keeps(all, kept[t]) /\ E(kept[t] - 1) + 1 = t
        /\ kept[u] \in 1 .. Len(all) /\ Keeps(all, kept[u]) /\ E(kept[u] - 1) + 1 = u
    BY <1>7
  <2>. DEFINE i == kept[t]  j == kept[u]
  <2>. HIDE DEF i, j
  <2>2. /\ i \in 1 .. Len(all) /\ Keeps(all, i) /\ E(i - 1) + 1 = t
        /\ j \in 1 .. Len(all) /\ Keeps(all, j) /\ E(j - 1) + 1 = u
    BY <2>1 DEF i, j
  <2>3. (i < j => t < u) /\ (j < i => u < t)
    BY <2>2, <1>5
  <2>4. i = j => t = u
    BY <2>2
  <2>5. t < u <=> i < j
    BY <2>2, <2>3, <2>4
  <2>. QED BY <2>5 DEF i, j
<1>11. ASSUME NEW i \in 1 .. n PROVE Len(Q[i]) = Len(P[i])
  <2>1. i \in 1 .. Len(all) /\ enc[i] = all[i]
    BY <1>3
  <2>2. CASE enc[i].role # "developer"
    BY <2>1, <2>2, <1>1, <1>2 DEF Keeps
  <2>3. CASE enc[i].role = "developer"
    <3>1. PICK j \in i + 1 .. Len(enc) : enc[j].role = "user"
      BY <2>3
    <3>2. j \in 1 .. Len(enc) /\ j \in 1 .. Len(all) /\ all[j].role = "user" /\ j > i
      BY <3>1, <1>3
    <3>3. j <= LastUser(enc) /\ j <= LastUser(all) /\ LastUser(enc) \in Int /\ LastUser(all) \in Int
      BY <3>1, <3>2, LastUserIs
    <3>4. ~Keeps(enc, i) /\ ~Keeps(all, i)
      BY <3>2, <3>3, <2>1, <2>3 DEF Keeps
    <3>. QED BY <3>4, <2>1, <1>1, <1>2
  <2>. QED BY <2>2, <2>3
<1>12. Len(DropThinkingMessages(enc)) = E(n)
  <2>1. Ends(Q, n) = Ends(P, n)
    BY <1>1, <1>2, <1>3, <1>11, EndsAlike
  <2>2. Len(FlattenSeq(Q)) = Ends(Q, n)
    BY <1>2, FlattenPlaces
  <2>. QED BY <2>1, <2>2, <1>2 DEF E
<1>13. \A i \in 0 .. Len(all) : \A j \in i .. Len(all) : E(i) <= E(j)
  BY <1>1, EndsGrow DEF E
<1>14. E(n) \in 0 .. Len(full)
  <2>1. n \in 0 .. Len(all) /\ Len(all) \in n .. Len(all)
    BY <1>3
  <2>2. E(n) \in Nat /\ E(n) <= E(Len(all))
    BY <2>1, <1>4, <1>13
  <2>. QED BY <2>2, <1>4, <1>3
<1>15. ASSUME NEW t \in 1 .. Len(full) PROVE E(n) < t <=> n < kept[t]
  <2>. DEFINE i == kept[t]
  <2>1. i \in 1 .. Len(all) /\ Keeps(all, i) /\ E(i - 1) + 1 = t
    BY <1>7
  <2>. HIDE DEF i
  <2>2. i - 1 \in 0 .. Len(all) /\ i \in 0 .. Len(all) /\ n \in 0 .. Len(all)
    BY <2>1, <1>3
  <2>3. E(i) = t /\ E(i - 1) \in Nat /\ E(n) \in Nat
    BY <2>1, <2>2, <1>4
  <2>4. CASE i <= n
    <3>1. n \in i .. Len(all)
      BY <2>1, <2>4, <1>3
    <3>2. t <= E(n)
      BY <3>1, <2>2, <2>3, <1>13
    <3>. QED BY <3>2, <2>1, <2>3, <2>4, <1>3 DEF i
  <2>5. CASE n < i
    <3>1. i - 1 \in n .. Len(all)
      BY <2>1, <2>5, <1>3
    <3>2. E(n) <= E(i - 1)
      BY <3>1, <2>2, <1>13
    <3>. QED BY <3>2, <2>1, <2>3, <2>5 DEF i
  <2>. QED BY <2>1, <2>4, <2>5, <1>3
<1>16. ASSUME NEW i \in 1 .. Len(all), all[i].role # "developer" PROVE \E t \in 1 .. Len(full) : kept[t] = i
  <2>1. Keeps(all, i)
    BY <1>16 DEF Keeps
  <2>. QED BY <2>1, <1>8
<1>17. Thinned(full, E(n), all, n, kept)
  BY <1>1, <1>7, <1>9, <1>10, <1>14, <1>15, <1>16 DEF Thinned
<1>. QED BY <1>12, <1>17 DEF full

\* Behind every developer of the context a user or a tool speaks.
Answered(ctx) ==
  \A i \in DOMAIN ctx : ctx[i].role = "developer" =>
    \E j \in DOMAIN ctx : j > i /\ ctx[j].role \in {"user", "tool"}

\* Behind every developer of an encoded context comes a user.
LEMMA EncodedIsAnswered ==
  ASSUME NEW ctx \in Seq(Messages), Answered(ctx), NEW p \in 1 .. Len(Encoded(ctx)), Encoded(ctx)[p].role = "developer"
  PROVE  \E j \in p + 1 .. Len(Encoded(ctx)) : Encoded(ctx)[j].role = "user"
<1>. DEFINE mc == MergeToolMessages(ctx)
<1>1. Len(Encoded(ctx)) = Len(mc) /\ mc \in Seq(Merged) /\ \A x \in 1 .. Len(mc) : Encoded(ctx)[x].role = mc[x].role
  <2>1. Len(Encoded(ctx)) = Len(mc) /\ mc \in Seq(Merged)
        /\ \A x \in 1 .. Len(mc) : LastCalls(mc, x) \in Seq(Nat) /\ Encoded(ctx)[x] = SortedBy(mc[x], LastCalls(mc, x))
    BY EncodedIs
  <2>. HIDE DEF mc
  <2>2. \A x \in 1 .. Len(mc) : mc[x] \in Merged
    BY <2>1
  <2>. QED BY <2>1, <2>2, SortedByIs
<1>2. /\ \A i \in 1 .. Len(ctx) : /\ Spot(ctx, i) \in 1 .. Len(mc)
                                  /\ ~Asks(ctx[i]) => mc[Spot(ctx, i)] = ctx[i]
                                  /\ Asks(ctx[i]) => mc[Spot(ctx, i)].role = "user"
      /\ \A x \in 1 .. Len(mc) : \E i \in 1 .. Len(ctx) : Spot(ctx, i) = x /\ (Asks(ctx[i]) <=> mc[x].role = "user")
  BY MergedAre
<1>. HIDE DEF mc
<1>3. p \in 1 .. Len(mc) /\ mc[p].role = "developer" /\ Len(mc) \in Nat
  BY <1>1
<1>4. PICK i \in 1 .. Len(ctx) : Spot(ctx, i) = p /\ (Asks(ctx[i]) <=> mc[p].role = "user")
  BY <1>2, <1>3
<1>5. ~Asks(ctx[i]) /\ ctx[i].role = "developer"
  BY <1>2, <1>3, <1>4
<1>6. DOMAIN ctx = 1 .. Len(ctx)
  OBVIOUS
<1>7. PICK j \in 1 .. Len(ctx) : j > i /\ ctx[j].role \in {"user", "tool"}
  BY <1>5, <1>6 DEF Answered
<1>8. Asks(ctx[j])
  BY <1>7 DEF Asks
<1>9. Spot(ctx, i) < Spot(ctx, j)
  <2>1. j \in i .. Len(ctx) /\ i \in i .. j /\ i < j
    BY <1>7
  <2>2. \/ Spot(ctx, i) < Spot(ctx, j)
        \/ i < j => \A k \in i .. j : Asks(ctx[k])
    BY <2>1, SpotsGrow
  <2>. QED BY <2>1, <2>2, <1>5
<1>10. Spot(ctx, j) \in 1 .. Len(mc) /\ mc[Spot(ctx, j)].role = "user"
  BY <1>2, <1>8
<1>11. Spot(ctx, j) \in p + 1 .. Len(mc)
  BY <1>3, <1>4, <1>9, <1>10
<1>. QED BY <1>1, <1>10, <1>11

\* What is rendered are messages.
LEMMA FullIsTyped ==
  ASSUME NEW ctx \in Seq(Messages), NEW ms \in Seq(Messages), NEW mode, NEW drop
  PROVE  FullMessages(ctx, ms, mode, drop) \in Seq(Merged) /\ ContextLen(ctx, ms, mode, drop) \in Nat
<1>1. AllMessages(ctx, ms) \in Seq(Merged) /\ Encoded(ctx) \in Seq(Merged)
  BY AllAre, EncodedIs
<1>2. DropThinkingMessages(AllMessages(ctx, ms)) \in Seq(Merged) /\ DropThinkingMessages(Encoded(ctx)) \in Seq(Merged)
  BY <1>1, DropIs
<1>3. \A s \in Seq(Merged) : Len(s) \in Nat
  OBVIOUS
<1>. DEFINE a == AllMessages(ctx, ms)  e == Encoded(ctx)  d == EffectiveDrop(a, drop)
<1>. HIDE DEF a, e, d
<1>4. Dropped(a, mode, d) \in Seq(Merged) /\ Dropped(e, mode, d) \in Seq(Merged)
  BY <1>1, <1>2 DEF Dropped, a, e
<1>. QED BY <1>3, <1>4 DEF FullMessages, ContextLen, a, e, d

\* What is rendered is what all messages leave.
LEMMA FullIsThinned ==
  ASSUME NEW ctx \in Seq(Messages), NEW ms \in Seq(Messages), NEW mode, NEW drop, Answered(ctx)
  PROVE  \E kept : Thinned(FullMessages(ctx, ms, mode, drop), ContextLen(ctx, ms, mode, drop), AllMessages(ctx, ms),
                           Len(Encoded(ctx)), kept)
<1>. DEFINE a == AllMessages(ctx, ms)  e == Encoded(ctx)  d == EffectiveDrop(a, drop)
<1>1. /\ a \in Seq(Merged) /\ e \in Seq(Merged) /\ Len(e) <= Len(a) /\ Len(e) \in Nat
      /\ \A i \in 1 .. Len(e) : e[i] = a[i]
  <2>1. a \in Seq(Merged) /\ Len(a) = Len(e) + Len(Preprocess(ctx, ms)) /\ Len(e) \in Nat /\ Len(Preprocess(ctx, ms)) \in Nat
        /\ \A i \in 1 .. Len(e) : e[i] = a[i]
    BY AllAre
  <2>2. e \in Seq(Merged)
    BY EncodedIs
  <2>. HIDE DEF a, e
  <2>. QED BY <2>1, <2>2
<1>2. \A i \in 1 .. Len(e) : e[i].role = "developer" => \E j \in i + 1 .. Len(e) : e[j].role = "user"
  BY EncodedIsAnswered
<1>3. /\ FullMessages(ctx, ms, mode, drop) = Dropped(a, mode, d)
      /\ ContextLen(ctx, ms, mode, drop) = Len(Dropped(e, mode, d))
  BY DEF FullMessages, ContextLen
<1>. HIDE DEF a, e, d
<1>4. CASE mode = "thinking" /\ d
  <2>1. \E kept : Thinned(DropThinkingMessages(a), Len(DropThinkingMessages(e)), a, Len(e), kept)
    BY <1>1, <1>2, DropThins
  <2>. QED BY <2>1, <1>3, <1>4 DEF Dropped, a, e
<1>5. CASE ~(mode = "thinking" /\ d)
  <2>. DEFINE kept == [t \in 1 .. Len(a) |-> t]
  <2>1. \A t \in 1 .. Len(a) : kept[t] = t
    OBVIOUS
  <2>. HIDE DEF kept
  <2>2. Thinned(a, Len(e), a, Len(e), kept)
    BY <2>1, <1>1 DEF Thinned
  <2>. QED BY <2>2, <1>3, <1>5 DEF Dropped, a, e
<1>. QED BY <1>4, <1>5

-----------------------------------------------------------------------------
(* What a prompt shows of its messages.                                    *)

\* The words of the messages and the tokens the encoding adds.
AnyTokens == [tok : STRING \cup Special, of : Nat]

\* The words of s that are no special tokens are those of the pieces, one after the other.
Shows(s, pieces, st) ==
  /\ s \in Seq(AnyTokens) /\ pieces \in Seq(Seq(AnyTokens))
  /\ \A b \in 1 .. Len(pieces) :
       /\ st[b] \in Nat /\ st[b] + Len(pieces[b]) <= Len(s)
       /\ \A o \in 1 .. Len(pieces[b]) : s[st[b] + o] = pieces[b][o]
  /\ \A b, c \in 1 .. Len(pieces) : b < c => st[b] + Len(pieces[b]) <= st[c]
  /\ \A p \in 1 .. Len(s) : s[p].tok \in Special \/
       \E b \in 1 .. Len(pieces) : \E o \in 1 .. Len(pieces[b]) : p = st[b] + o
AllSpecial(s) == s \in Seq(AnyTokens) /\ \A p \in 1 .. Len(s) : s[p].tok \in Special

\* Words show themselves.
LEMMA ShowsItself ==
  ASSUME NEW c \in Seq(AnyTokens)
  PROVE  Shows(c, <<c>>, <<0>>)
<1>. DEFINE w == <<c>>  st == <<0>>
<1>1. w \in Seq(Seq(AnyTokens)) /\ Len(w) = 1 /\ w[1] = c /\ st[1] = 0 /\ Len(c) \in Nat
  OBVIOUS
<1>2. \A b \in 1 .. 1 : b = 1
  OBVIOUS
<1>. HIDE DEF w, st
<1>3. Shows(c, w, st)
  <2>1. \A p \in 1 .. Len(c) : 1 \in 1 .. Len(w) /\ p \in 1 .. Len(w[1]) /\ p = st[1] + p
    BY <1>1
  <2>2. \A o \in 1 .. Len(c) : c[0 + o] = c[o]
    OBVIOUS
  <2>. QED BY <1>1, <1>2, <2>1, <2>2 DEF Shows
<1>. QED BY <1>3 DEF w, st

\* Special tokens around it change nothing.
LEMMA ShowsInside ==
  ASSUME NEW s, NEW pieces, NEW st, Shows(s, pieces, st), NEW a, AllSpecial(a), NEW z, AllSpecial(z)
  PROVE  \E r : Shows(a \o s \o z, pieces, r)
<1>. DEFINE u == a \o s  v == u \o z
            r == [b \in 1 .. Len(pieces) |-> Len(a) + st[b]]
<1>1. s \in Seq(AnyTokens) /\ a \in Seq(AnyTokens) /\ z \in Seq(AnyTokens)
  BY DEF Shows, AllSpecial
<1>2. /\ u \in Seq(AnyTokens) /\ Len(u) = Len(a) + Len(s) /\ Len(a) \in Nat /\ Len(s) \in Nat
      /\ (\A i \in 1 .. Len(a) : u[i] = a[i]) /\ (\A i \in 1 .. Len(s) : u[Len(a) + i] = s[i])
      /\ \A i \in 1 .. Len(a) + Len(s) : i \in 1 .. Len(a) \/ \E k \in 1 .. Len(s) : i = Len(a) + k
  BY <1>1, ConcatParts
<1>. HIDE DEF u
<1>11. u \in Seq(AnyTokens) /\ z \in Seq(AnyTokens)
  BY <1>1, <1>2
<1>3. /\ v \in Seq(AnyTokens) /\ Len(v) = Len(u) + Len(z) /\ Len(z) \in Nat
      /\ (\A i \in 1 .. Len(u) : v[i] = u[i]) /\ (\A i \in 1 .. Len(z) : v[Len(u) + i] = z[i])
      /\ \A i \in 1 .. Len(u) + Len(z) : i \in 1 .. Len(u) \/ \E k \in 1 .. Len(z) : i = Len(u) + k
  BY <1>11, ConcatParts
<1>4. \A b \in 1 .. Len(pieces) : r[b] = Len(a) + st[b]
  OBVIOUS
<1>. HIDE DEF v, r
<1>5. /\ pieces \in Seq(Seq(AnyTokens))
      /\ \A b \in 1 .. Len(pieces) :
           /\ st[b] \in Nat /\ st[b] + Len(pieces[b]) <= Len(s)
           /\ \A o \in 1 .. Len(pieces[b]) : s[st[b] + o] = pieces[b][o]
      /\ \A b, c \in 1 .. Len(pieces) : b < c => st[b] + Len(pieces[b]) <= st[c]
      /\ \A p \in 1 .. Len(s) : s[p].tok \in Special \/
           \E b \in 1 .. Len(pieces) : \E o \in 1 .. Len(pieces[b]) : p = st[b] + o
  BY DEF Shows
<1>6. \A b \in 1 .. Len(pieces) : Len(pieces[b]) \in Nat
  BY <1>5
<1>7. ASSUME NEW b \in 1 .. Len(pieces)
      PROVE /\ r[b] \in Nat /\ r[b] + Len(pieces[b]) <= Len(v)
            /\ \A o \in 1 .. Len(pieces[b]) : v[r[b] + o] = pieces[b][o]
  <2>1. st[b] \in Nat /\ st[b] + Len(pieces[b]) <= Len(s) /\ Len(pieces[b]) \in Nat /\ r[b] = Len(a) + st[b]
    BY <1>4, <1>5, <1>6
  <2>2. r[b] \in Nat /\ r[b] + Len(pieces[b]) <= Len(v)
    BY <2>1, <1>2, <1>3, SMTT(30)
  <2>3. ASSUME NEW o \in 1 .. Len(pieces[b]) PROVE v[r[b] + o] = pieces[b][o]
    <3>. DEFINE x == st[b] + o
    <3>3. s[x] = pieces[b][o]
      BY <1>5
    <3>4. st[b] \in Int /\ o \in Int /\ o >= 1 /\ o <= Len(pieces[b]) /\ Len(pieces[b]) \in Int /\ Len(a) \in Nat /\ Len(s) \in Nat
      BY <2>1, <1>2
    <3>5. x \in 1 .. Len(s) /\ r[b] + o = Len(a) + x
      BY <3>4, <2>1, SMTT(30)
    <3>. HIDE DEF x
    <3>1. x \in 1 .. Len(s) /\ r[b] + o = Len(a) + x /\ Len(a) + x \in 1 .. Len(u) /\ s[x] = pieces[b][o]
      BY <3>3, <3>5, <1>2
    <3>2. v[Len(a) + x] = u[Len(a) + x] /\ u[Len(a) + x] = s[x]
      BY <3>1, <1>2, <1>3
    <3>. QED BY <3>1, <3>2
  <2>. QED BY <2>2, <2>3
<1>8. \A b, c \in 1 .. Len(pieces) : b < c => r[b] + Len(pieces[b]) <= r[c]
  <2>. SUFFICES ASSUME NEW b \in 1 .. Len(pieces), NEW c \in 1 .. Len(pieces), b < c PROVE r[b] + Len(pieces[b]) <= r[c]
    OBVIOUS
  <2>1. st[b] \in Nat /\ st[c] \in Nat /\ Len(pieces[b]) \in Nat /\ r[b] = Len(a) + st[b] /\ r[c] = Len(a) + st[c]
        /\ st[b] + Len(pieces[b]) <= st[c]
    BY <1>4, <1>5, <1>6
  <2>. QED BY <2>1, <1>2, SMTT(30)
<1>9. \A p \in 1 .. Len(v) : v[p].tok \in Special \/
        \E b \in 1 .. Len(pieces) : \E o \in 1 .. Len(pieces[b]) : p = r[b] + o
  <2>. SUFFICES ASSUME NEW p \in 1 .. Len(v), v[p].tok \notin Special
                PROVE \E b \in 1 .. Len(pieces) : \E o \in 1 .. Len(pieces[b]) : p = r[b] + o
    OBVIOUS
  <2>1. p \in 1 .. Len(u)
    <3>1. ASSUME NEW k \in 1 .. Len(z), p = Len(u) + k PROVE FALSE
      <4>1. v[p] = z[k]
        BY <3>1, <1>3
      <4>. QED BY <4>1 DEF AllSpecial
    <3>. QED BY <3>1, <1>3
  <2>2. v[p] = u[p] /\ p \in 1 .. Len(a) + Len(s)
    BY <2>1, <1>2, <1>3
  <2>3. p \notin 1 .. Len(a)
    <3>1. SUFFICES ASSUME p \in 1 .. Len(a) PROVE FALSE
      OBVIOUS
    <3>2. v[p] = a[p]
      BY <3>1, <2>2, <1>2
    <3>. QED BY <3>1, <3>2 DEF AllSpecial
  <2>4. PICK k \in 1 .. Len(s) : p = Len(a) + k
    BY <2>2, <2>3, <1>2
  <2>5. s[k].tok \notin Special
    BY <2>2, <2>4, <1>2
  <2>6. PICK b \in 1 .. Len(pieces) : \E o \in 1 .. Len(pieces[b]) : k = st[b] + o
    BY <2>5, <1>5
  <2>7. PICK o \in 1 .. Len(pieces[b]) : k = st[b] + o
    BY <2>6
  <2>8. p = r[b] + o
    <3>1. st[b] \in Nat /\ r[b] = Len(a) + st[b] /\ o \in Int
      BY <1>4, <1>5
    <3>. QED BY <3>1, <2>4, <2>7, <1>2, SMTT(30)
  <2>. QED BY <2>8
<1>10. Shows(v, pieces, r)
  BY <1>3, <1>5, <1>7, <1>8, <1>9 DEF Shows
<1>. QED BY <1>10 DEF v, u

\* What each part shows the whole does, in the order of the parts.
LEMMA ShowsAll ==
  ASSUME NEW ss \in Seq(Seq(AnyTokens)), NEW pp \in Seq(Seq(Seq(AnyTokens))), Len(ss) = Len(pp),
         \A i \in 1 .. Len(ss) : \E st : Shows(ss[i], pp[i], st)
  PROVE  \E st : Shows(FlattenSeq(ss), FlattenSeq(pp), st)
<1>. DEFINE s == FlattenSeq(ss)  w == FlattenSeq(pp)  n == Len(ss)
            F == [i \in 1 .. n |-> CHOOSE st : Shows(ss[i], pp[i], st)]
            of == [x \in 1 .. Len(w) |-> CHOOSE i \in 1 .. n : \E b \in 1 .. Len(pp[i]) : x = Ends(pp, i - 1) + b]
            st == [x \in 1 .. Len(w) |-> Ends(ss, of[x] - 1) + F[of[x]][x - Ends(pp, of[x] - 1)]]
<1>0. s \in Seq(AnyTokens) /\ w \in Seq(Seq(AnyTokens)) /\ n \in Nat /\ Len(s) \in Nat /\ Len(w) \in Nat
  <2>1. s \in Seq(AnyTokens) /\ w \in Seq(Seq(AnyTokens))
    BY FlattenIsSeq
  <2>. HIDE DEF s, w
  <2>. QED BY <2>1
<1>1. ASSUME NEW i \in 1 .. n PROVE Shows(ss[i], pp[i], F[i])
  <2>1. \E x : Shows(ss[i], pp[i], x)
    OBVIOUS
  <2>2. F[i] = CHOOSE x : Shows(ss[i], pp[i], x)
    OBVIOUS
  <2>. QED BY <2>1, <2>2
<1>. HIDE DEF F
<1>2. ASSUME NEW i \in 1 .. n
      PROVE  /\ \A b \in 1 .. Len(pp[i]) :
                  /\ F[i][b] \in Nat /\ F[i][b] + Len(pp[i][b]) <= Len(ss[i])
                  /\ \A o \in 1 .. Len(pp[i][b]) : ss[i][F[i][b] + o] = pp[i][b][o]
             /\ \A b, c \in 1 .. Len(pp[i]) : b < c => F[i][b] + Len(pp[i][b]) <= F[i][c]
             /\ \A p \in 1 .. Len(ss[i]) : ss[i][p].tok \in Special \/
                  \E b \in 1 .. Len(pp[i]) : \E o \in 1 .. Len(pp[i][b]) : p = F[i][b] + o
  BY <1>1 DEF Shows
<1>3. \A i \in 1 .. n : \A b \in 1 .. Len(pp[i]) : Len(pp[i][b]) \in Nat /\ pp[i][b] \in Seq(AnyTokens) /\ Len(pp[i]) \in Nat
      /\ Len(ss[i]) \in Nat
  OBVIOUS
<1>4. /\ \A i \in 0 .. n : Ends(ss, i) \in Nat /\ Ends(pp, i) \in Nat
      /\ \A i \in 1 .. n : Ends(ss, i) = Ends(ss, i - 1) + Len(ss[i])
      /\ \A i \in 1 .. n : \A q \in 1 .. Len(ss[i]) : s[Ends(ss, i - 1) + q] = ss[i][q]
      /\ \A i \in 1 .. n : \A q \in 1 .. Len(pp[i]) : w[Ends(pp, i - 1) + q] = pp[i][q]
      /\ Len(s) = Ends(ss, n)
  <2>1. /\ \A i \in 0 .. n : Ends(ss, i) \in Nat
        /\ \A i \in 1 .. n : Ends(ss, i) = Ends(ss, i - 1) + Len(ss[i])
        /\ \A i \in 1 .. n : \A q \in 1 .. Len(ss[i]) : s[Ends(ss, i - 1) + q] = ss[i][q]
        /\ Len(s) = Ends(ss, n)
    BY FlattenPlaces
  <2>2. /\ \A i \in 0 .. Len(pp) : Ends(pp, i) \in Nat
        /\ \A i \in 1 .. Len(pp) : \A q \in 1 .. Len(pp[i]) : w[Ends(pp, i - 1) + q] = pp[i][q]
    BY FlattenPlaces
  <2>. HIDE DEF s, w
  <2>. QED BY <2>1, <2>2
<1>5. ASSUME NEW x \in 1 .. Len(w)
      PROVE  of[x] \in 1 .. n /\ \E b \in 1 .. Len(pp[of[x]]) : x = Ends(pp, of[x] - 1) + b
  <2>1. \E i \in 1 .. n : \E b \in 1 .. Len(pp[i]) : x = Ends(pp, i - 1) + b
    BY PlaceOfPart
  <2>. HIDE DEF w
  <2>. QED BY <2>1
<1>6. ASSUME NEW i \in 1 .. n, NEW b \in 1 .. Len(pp[i]), NEW j \in 1 .. n, NEW c \in 1 .. Len(pp[j])
      PROVE  /\ Ends(pp, i - 1) + b \in 1 .. Len(w)
             /\ i < j => Ends(pp, i - 1) + b < Ends(pp, j - 1) + c
             /\ i = j => (Ends(pp, i - 1) + b < Ends(pp, j - 1) + c <=> b < c)
  <2>1. i \in 1 .. Len(pp) /\ j \in 1 .. Len(pp)
    OBVIOUS
  <2>. DEFINE S == Seq(AnyTokens)
  <2>2. pp \in Seq(Seq(S))
    OBVIOUS
  <2>. HIDE DEF F, of, st, s, S
  <2>3. /\ Ends(pp, i - 1) + b \in 1 .. Len(FlattenSeq(pp))
        /\ i < j => Ends(pp, i - 1) + b < Ends(pp, j - 1) + c
        /\ i = j => (Ends(pp, i - 1) + b < Ends(pp, j - 1) + c <=> b < c)
    BY <2>1, <2>2, PlacesInOrder, ZenonT(60)
  <2>. QED BY <2>3
<1>7. \A x \in 1 .. Len(w) : st[x] = Ends(ss, of[x] - 1) + F[of[x]][x - Ends(pp, of[x] - 1)]
  OBVIOUS
<1>. HIDE DEF s, w, of, st, n
<1>8. ASSUME NEW i \in 1 .. n, NEW b \in 1 .. Len(pp[i])
      PROVE  /\ Ends(pp, i - 1) + b \in 1 .. Len(w) /\ of[Ends(pp, i - 1) + b] = i
             /\ st[Ends(pp, i - 1) + b] = Ends(ss, i - 1) + F[i][b]
  <2>. DEFINE x == Ends(pp, i - 1) + b
  <2>1. x \in 1 .. Len(w)
    BY <1>6
  <2>2. i - 1 \in 0 .. n /\ Ends(pp, i - 1) \in Nat /\ b \in Nat
    <3>1. i - 1 \in 0 .. n
      BY <1>0
    <3>. QED BY <3>1, <1>4
  <2>3. x - Ends(pp, i - 1) = b
    <3>. DEFINE e == Ends(pp, i - 1)
    <3>1. e \in Nat /\ b \in Nat
      BY <2>2
    <3>. HIDE DEF e
    <3>2. (e + b) - e = b
      BY <3>1
    <3>. QED BY <3>2 DEF e
  <2>. HIDE DEF x
  <2>4. of[x] \in 1 .. n
    BY <2>1, <1>5
  <2>5. PICK c \in 1 .. Len(pp[of[x]]) : x = Ends(pp, of[x] - 1) + c
    BY <2>1, <1>5
  <2>6. x \in Int
    BY <2>1
  <2>7. of[x] = i
    <3>1. i < of[x] => Ends(pp, i - 1) + b < Ends(pp, of[x] - 1) + c
      BY <2>4, <1>6
    <3>2. of[x] < i => Ends(pp, of[x] - 1) + c < Ends(pp, i - 1) + b
      BY <2>4, <1>6
    <3>3. Ends(pp, i - 1) + b = x
      BY DEF x
    <3>4. of[x] \in Int /\ i \in Int
      BY <2>4
    <3>. QED BY <3>1, <3>2, <3>3, <3>4, <2>5, <2>6, SMTT(30)
  <2>8. st[x] = Ends(ss, i - 1) + F[i][b]
    <3>1. st[x] = Ends(ss, of[x] - 1) + F[of[x]][x - Ends(pp, of[x] - 1)]
      BY <2>1, <1>7
    <3>2. x - Ends(pp, i - 1) = b
      BY <2>3 DEF x
    <3>. QED BY <3>1, <3>2, <2>7
  <2>. QED BY <2>1, <2>7, <2>8 DEF x
<1>9. ASSUME NEW x \in 1 .. Len(w)
      PROVE  \E i \in 1 .. n : \E b \in 1 .. Len(pp[i]) : x = Ends(pp, i - 1) + b
  BY <1>5
<1>10. ASSUME NEW x \in 1 .. Len(w)
       PROVE  /\ st[x] \in Nat /\ st[x] + Len(w[x]) <= Len(s)
              /\ \A o \in 1 .. Len(w[x]) : s[st[x] + o] = w[x][o]
  <2>1. PICK i \in 1 .. n : \E b \in 1 .. Len(pp[i]) : x = Ends(pp, i - 1) + b
    BY <1>9
  <2>2. PICK b \in 1 .. Len(pp[i]) : x = Ends(pp, i - 1) + b
    BY <2>1
  <2>3. st[x] = Ends(ss, i - 1) + F[i][b] /\ w[x] = pp[i][b]
    BY <2>2, <1>4, <1>8
  <2>4. i - 1 \in 0 .. n /\ i \in 0 .. n /\ n \in 0 .. n /\ n \in i .. n
    BY <1>0
  <2>5. Ends(ss, i - 1) \in Nat /\ Ends(ss, i) \in Nat /\ Ends(ss, i) = Ends(ss, i - 1) + Len(ss[i])
    BY <2>4, <1>4
  <2>6. Ends(ss, i) <= Len(s)
    <3>1. Ends(ss, i) <= Ends(ss, n)
      BY <2>4, EndsGrow DEF n
    <3>. QED BY <3>1, <1>4
  <2>7. F[i][b] \in Nat /\ F[i][b] + Len(pp[i][b]) <= Len(ss[i]) /\ Len(pp[i][b]) \in Nat /\ Len(ss[i]) \in Nat
        /\ \A o \in 1 .. Len(pp[i][b]) : ss[i][F[i][b] + o] = pp[i][b][o]
    BY <1>2, <1>3
  <2>. DEFINE e == Ends(ss, i - 1)  f == F[i][b]  l == Len(pp[i][b])
  <2>. DEFINE m == Len(ss[i])  z == Len(s)  d == Ends(ss, i)
  <2>21. f \in Nat /\ e \in Nat /\ l \in Nat /\ m \in Nat /\ z \in Nat /\ d \in Nat /\ f + l <= m /\ d = e + m /\ d <= z
         /\ st[x] = e + f /\ Len(w[x]) = l
    BY <2>3, <2>5, <2>6, <2>7, <1>0
  <2>. HIDE DEF e, f, l, m, z, d
  <2>22. st[x] \in Nat /\ st[x] + l <= z
    BY <2>21
  <2>8. st[x] \in Nat /\ st[x] + Len(w[x]) <= Len(s)
    BY <2>21, <2>22 DEF z
  <2>9. ASSUME NEW o \in 1 .. Len(w[x]) PROVE s[st[x] + o] = w[x][o]
    <3>0. o \in 1 .. l
      BY <2>21
    <3>11. f + o \in 1 .. m /\ st[x] + o = e + (f + o)
      BY <3>0, <2>21
    <3>1. f + o \in 1 .. Len(ss[i]) /\ st[x] + o = e + (f + o)
      BY <3>11 DEF m
    <3>2. s[e + (f + o)] = ss[i][f + o]
      BY <3>1, <1>4 DEF e
    <3>3. ss[i][f + o] = pp[i][b][o]
      BY <3>0, <2>7 DEF f, l
    <3>. QED BY <3>1, <3>2, <3>3, <2>3
  <2>. QED BY <2>8, <2>9
<1>11. ASSUME NEW x \in 1 .. Len(w), NEW y \in 1 .. Len(w), x < y PROVE st[x] + Len(w[x]) <= st[y]
  <2>1. PICK i \in 1 .. n : \E b \in 1 .. Len(pp[i]) : x = Ends(pp, i - 1) + b
    BY <1>9
  <2>2. PICK b \in 1 .. Len(pp[i]) : x = Ends(pp, i - 1) + b
    BY <2>1
  <2>3. PICK j \in 1 .. n : \E c \in 1 .. Len(pp[j]) : y = Ends(pp, j - 1) + c
    BY <1>9
  <2>4. PICK c \in 1 .. Len(pp[j]) : y = Ends(pp, j - 1) + c
    BY <2>3
  <2>5. st[x] = Ends(ss, i - 1) + F[i][b] /\ w[x] = pp[i][b] /\ st[y] = Ends(ss, j - 1) + F[j][c]
    BY <2>2, <2>4, <1>4, <1>8
  <2>6. i - 1 \in 0 .. n /\ i \in 0 .. n /\ j - 1 \in 0 .. n
    BY <1>0
  <2>7. Ends(ss, i - 1) \in Nat /\ Ends(ss, i) \in Nat /\ Ends(ss, j - 1) \in Nat /\ Ends(ss, i) = Ends(ss, i - 1) + Len(ss[i])
    BY <2>6, <1>4
  <2>8. F[i][b] \in Nat /\ F[i][b] + Len(pp[i][b]) <= Len(ss[i]) /\ Len(pp[i][b]) \in Nat /\ F[j][c] \in Nat /\ Len(ss[i]) \in Nat
    BY <1>2, <1>3
  <2>9. ~(j < i) /\ (i = j => b < c)
    <3>1. j < i => Ends(pp, j - 1) + c < Ends(pp, i - 1) + b
      BY <1>6
    <3>2. i = j => (Ends(pp, i - 1) + b < Ends(pp, j - 1) + c <=> b < c)
      BY <1>6
    <3>3. x \in Int /\ y \in Int /\ ~(y < x)
      BY <1>11
    <3>. QED BY <3>1, <3>2, <3>3, <2>2, <2>4, <1>11
  <2>12. i \in Int /\ j \in Int
    BY <2>6
  <2>. DEFINE e == Ends(ss, i - 1)  f == F[i][b]  l == Len(pp[i][b])  g == Ends(ss, j - 1)  h == F[j][c]  m == Len(ss[i])
              d == Ends(ss, i)
  <2>13. e \in Nat /\ f \in Nat /\ l \in Nat /\ g \in Nat /\ h \in Nat /\ m \in Nat /\ d \in Nat /\ d = e + m /\ f + l <= m
         /\ st[x] = e + f /\ Len(w[x]) = l /\ st[y] = g + h
    BY <2>5, <2>7, <2>8
  <2>10. CASE i = j
    <3>1. F[i][b] + Len(pp[i][b]) <= F[i][c]
      BY <2>9, <2>10, <1>2
    <3>2. f + l <= h /\ e = g
      BY <3>1, <2>10
    <3>. HIDE DEF e, f, l, g, h, m, d
    <3>. QED BY <3>2, <2>13
  <2>11. CASE i < j
    <3>1. j - 1 \in i .. n
      BY <2>11, <1>0
    <3>2. Ends(ss, i) <= Ends(ss, j - 1)
      BY <3>1, <2>6, EndsGrow DEF n
    <3>. HIDE DEF e, f, l, h, m
    <3>3. d <= g
      BY <3>2
    <3>. HIDE DEF d, g
    <3>. QED BY <3>3, <2>13
  <2>. QED BY <2>9, <2>10, <2>11, <2>12
<1>12. ASSUME NEW p \in 1 .. Len(s), s[p].tok \notin Special
       PROVE  \E x \in 1 .. Len(w) : \E o \in 1 .. Len(w[x]) : p = st[x] + o
  <2>1. PICK i \in 1 .. n : \E q \in 1 .. Len(ss[i]) : p = Ends(ss, i - 1) + q
    BY PlaceOfPart DEF s, n
  <2>2. PICK q \in 1 .. Len(ss[i]) : p = Ends(ss, i - 1) + q
    BY <2>1
  <2>3. ss[i][q].tok \notin Special
    BY <2>2, <1>4, <1>12
  <2>4. PICK b \in 1 .. Len(pp[i]) : \E o \in 1 .. Len(pp[i][b]) : q = F[i][b] + o
    BY <2>3, <1>2
  <2>5. PICK o \in 1 .. Len(pp[i][b]) : q = F[i][b] + o
    BY <2>4
  <2>. DEFINE x == Ends(pp, i - 1) + b
  <2>6. x \in 1 .. Len(w) /\ st[x] = Ends(ss, i - 1) + F[i][b] /\ w[x] = pp[i][b]
    BY <1>4, <1>8
  <2>. HIDE DEF x
  <2>7. i - 1 \in 0 .. n
    BY <1>0
  <2>. DEFINE e == Ends(ss, i - 1)  f == F[i][b]
  <2>10. e \in Nat /\ f \in Nat
    <3>1. e \in Nat
      BY <2>7, <1>4
    <3>2. f \in Nat
      BY <1>2
    <3>. QED BY <3>1, <3>2
  <2>11. o \in Int /\ p = e + q /\ q = f + o /\ st[x] = e + f
    BY <2>2, <2>5, <2>6
  <2>. HIDE DEF e, f
  <2>9. o \in 1 .. Len(w[x]) /\ p = st[x] + o
    BY <2>10, <2>11, <2>6, SMTT(30)
  <2>. QED BY <2>6, <2>9
<1>13. Shows(s, w, st)
  BY <1>0, <1>10, <1>11, <1>12 DEF Shows
<1>. QED BY <1>13 DEF s, w

\* Parts of one element each.
LEMMA FlattenSingles ==
  ASSUME NEW S, NEW f \in Seq(S), NEW ss \in Seq(Seq(S)), Len(ss) = Len(f), \A i \in 1 .. Len(f) : ss[i] = <<f[i]>>
  PROVE  FlattenSeq(ss) = f
<1>. DEFINE T == {i \in 0 .. Len(f) : Ends(ss, i) = i}
<1>0. Len(f) \in Nat /\ \A i \in 1 .. Len(f) : Len(ss[i]) = 1 /\ ss[i][1] = f[i]
  <2>1. \A x : Len(<<x>>) = 1 /\ <<x>>[1] = x
    OBVIOUS
  <2>2. ASSUME NEW i \in 1 .. Len(f) PROVE Len(ss[i]) = 1 /\ ss[i][1] = f[i]
    <3>. DEFINE x == f[i]
    <3>1. ss[i] = <<x>>
      OBVIOUS
    <3>. HIDE DEF x
    <3>2. Len(<<x>>) = 1 /\ <<x>>[1] = x
      OBVIOUS
    <3>. QED BY <3>1, <3>2 DEF x
  <2>3. Len(f) \in Nat
    OBVIOUS
  <2>. QED BY <2>2, <2>3
<1>1. 0 \in T
  BY <1>0 DEF Ends
<1>2. ASSUME NEW i \in 0 .. (Len(f) - 1), i \in T PROVE i + 1 \in T
  <2>1. i + 1 \in 1 .. Len(ss) /\ (i + 1) - 1 = i /\ i + 1 \in 0 .. Len(f)
    BY <1>0
  <2>2. Ends(ss, i + 1) = Ends(ss, i) + Len(ss[i + 1])
    BY <2>1, FlattenPlaces
  <2>. QED BY <2>1, <2>2, <1>0, <1>2
<1>. HIDE DEF T
<1>3. \A i \in 0 .. Len(f) : Ends(ss, i) = i
  <2>1. 0 .. Len(f) \subseteq T
    BY <1>0, <1>1, <1>2, InductionTo
  <2>. QED BY <2>1 DEF T
<1>. DEFINE g == FlattenSeq(ss)
<1>4. g \in Seq(S) /\ Len(g) = Ends(ss, Len(f)) /\ \A i \in 1 .. Len(f) : \A q \in 1 .. Len(ss[i]) : g[Ends(ss, i - 1) + q] = ss[i][q]
  <2>1. g \in Seq(S)
    BY FlattenIsSeq
  <2>2. Len(g) = Ends(ss, Len(ss)) /\ \A i \in 1 .. Len(ss) : \A q \in 1 .. Len(ss[i]) : g[Ends(ss, i - 1) + q] = ss[i][q]
    BY FlattenPlaces
  <2>. HIDE DEF g
  <2>. QED BY <2>1, <2>2
<1>. HIDE DEF g
<1>5. Len(g) = Len(f)
  <2>1. Len(f) \in 0 .. Len(f)
    BY <1>0
  <2>. QED BY <2>1, <1>3, <1>4
<1>6. \A i \in 1 .. Len(f) : g[i] = f[i]
  <2>. SUFFICES ASSUME NEW i \in 1 .. Len(f) PROVE g[i] = f[i]
    OBVIOUS
  <2>1. i - 1 \in 0 .. Len(f) /\ (i - 1) + 1 = i /\ 1 \in 1 .. Len(ss[i])
    BY <1>0
  <2>2. g[Ends(ss, i - 1) + 1] = ss[i][1]
    BY <2>1, <1>4
  <2>. QED BY <2>1, <2>2, <1>0, <1>3
<1>7. g = f
  BY <1>4, <1>5, <1>6, SeqEqual
<1>. QED BY <1>7 DEF g

\* The tokens the encoding adds are tokens, and special.
LEMMA SpecialIsToken ==
  ASSUME NEW t \in Special
  PROVE  Tok(t) \in AnyTokens /\ AllSpecial(<<Tok(t)>>)
<1>2. Tok(t) \in AnyTokens /\ Tok(t).tok = t
  BY DEF Tok, AnyTokens
<1>. DEFINE x == Tok(t)  s == <<x>>
<1>. HIDE DEF x
<1>3. x \in AnyTokens /\ x.tok = t
  BY <1>2 DEF x
<1>4. s \in Seq(AnyTokens) /\ Len(s) = 1 /\ s[1] = x
  BY <1>3
<1>. HIDE DEF s
<1>5. AllSpecial(s)
  <2>1. \A p \in 1 .. Len(s) : p = 1
    BY <1>4
  <2>. QED BY <2>1, <1>3, <1>4 DEF AllSpecial
<1>. QED BY <1>2, <1>5 DEF s, x

\* Special tokens behind special tokens.
LEMMA SpecialsJoin ==
  /\ AllSpecial(<<>>)
  /\ \A a, b : AllSpecial(a) /\ AllSpecial(b) => AllSpecial(a \o b)
<1>1. AllSpecial(<<>>)
  <2>1. <<>> \in Seq(AnyTokens) /\ Len(<<>>) = 0
    OBVIOUS
  <2>2. \A p : p \notin 1 .. 0
    OBVIOUS
  <2>. QED BY <2>1, <2>2 DEF AllSpecial
<1>2. ASSUME NEW a, NEW b, AllSpecial(a), AllSpecial(b) PROVE AllSpecial(a \o b)
  <2>1. a \in Seq(AnyTokens) /\ b \in Seq(AnyTokens)
    BY <1>2 DEF AllSpecial
  <2>. DEFINE c == a \o b
  <2>2. /\ c \in Seq(AnyTokens) /\ Len(c) = Len(a) + Len(b)
        /\ (\A i \in 1 .. Len(a) : c[i] = a[i]) /\ (\A i \in 1 .. Len(b) : c[Len(a) + i] = b[i])
        /\ \A i \in 1 .. Len(a) + Len(b) : i \in 1 .. Len(a) \/ \E k \in 1 .. Len(b) : i = Len(a) + k
    BY <2>1, ConcatParts
  <2>. HIDE DEF c
  <2>3. ASSUME NEW p \in 1 .. Len(c) PROVE c[p].tok \in Special
    <3>1. CASE p \in 1 .. Len(a)
      BY <3>1, <2>2, <1>2 DEF AllSpecial
    <3>2. CASE \E k \in 1 .. Len(b) : p = Len(a) + k
      BY <3>2, <2>2, <1>2 DEF AllSpecial
    <3>. QED BY <3>1, <3>2, <2>2
  <2>4. AllSpecial(c)
    BY <2>2, <2>3 DEF AllSpecial
  <2>. QED BY <2>4 DEF c
<1>. QED BY <1>1, <1>2

\* A list made place by place.
LEMMA ListIs ==
  ASSUME NEW S, NEW m \in Int, NEW s, s = [k \in 1 .. m |-> s[k]], \A k \in 1 .. m : s[k] \in S
  PROVE  s \in Seq(S) /\ Len(s) = (IF m < 0 THEN 0 ELSE m) /\ 1 .. Len(s) = 1 .. m
<1>1. CASE m < 0
  <2>1. 1 .. m = {}
    BY <1>1
  <2>2. DOMAIN s = {} /\ s = [k \in {} |-> s[k]]
    BY <2>1
  <2>3. s = <<>>
    BY <2>2
  <2>4. <<>> \in Seq(S) /\ Len(<<>>) = 0 /\ 1 .. 0 = {}
    OBVIOUS
  <2>5. s \in Seq(S) /\ Len(s) = 0 /\ 1 .. Len(s) = {}
    BY <2>3, <2>4
  <2>6. \A k \in 1 .. m : FALSE
    BY <2>1
  <2>. QED BY <1>1, <2>1, <2>5
<1>2. CASE m >= 0
  <2>1. m \in Nat
    BY <1>2
  <2>2. s \in Seq(S)
    BY <2>1
  <2>3. DOMAIN s = 1 .. m
    OBVIOUS
  <2>4. Len(s) = m
    BY <2>1, <2>2, <2>3
  <2>. QED BY <1>2, <2>2, <2>4
<1>3. m < 0 \/ m >= 0
  OBVIOUS
<1>. QED BY <1>1, <1>2, <1>3, Zenon

\* The words of messages are tokens among others.
LEMMA WordsAreTokens ==
  /\ \A c \in Seq(Tokens) : c \in Seq(AnyTokens)
  /\ \A msg \in Merged : msg.content \in Seq(AnyTokens)
  /\ \A block \in Blocks : block.content \in Seq(AnyTokens)
<1>1. Tokens \subseteq AnyTokens
  BY DEF Tokens, AnyTokens
<1>2. \A c \in Seq(Tokens) : c \in Seq(AnyTokens)
  BY <1>1
<1>3. \A msg \in Merged : msg.content \in Seq(Tokens)
  BY DEF Merged
<1>4. \A block \in Blocks : block.content \in Seq(Tokens)
  BY DEF Blocks
<1>. QED BY <1>2, <1>3, <1>4

\* A block shows its content.
LEMMA BlockShows ==
  ASSUME NEW block \in Blocks
  PROVE  BlockTokens(block) \in Seq(AnyTokens) /\ \E st : Shows(BlockTokens(block), <<block.content>>, st)
<1>. DEFINE c == block.content
<1>1. c \in Seq(AnyTokens) /\ block.id \in Nat
  BY WordsAreTokens DEF Blocks
<1>2. Shows(c, <<c>>, <<0>>)
  BY <1>1, ShowsItself
<1>3. CASE block.result
  <2>. DEFINE x == [tok |-> "result", of |-> block.id]  a == <<x>>  z == <<Tok("result_end")>>
  <2>1. "result" \in Special /\ "result_end" \in Special
    BY DEF Special
  <2>2. AllSpecial(z)
    BY <2>1, SpecialIsToken
  <2>3. x \in AnyTokens /\ x.tok = "result"
    BY <1>1, <2>1 DEF AnyTokens
  <2>4. BlockTokens(block) = a \o c \o z
    BY <1>3 DEF BlockTokens
  <2>. HIDE DEF x
  <2>5. a \in Seq(AnyTokens) /\ Len(a) = 1 /\ a[1] = x
    BY <2>3
  <2>. HIDE DEF a
  <2>6. AllSpecial(a)
    <3>1. \A p \in 1 .. Len(a) : p = 1
      BY <2>5
    <3>. QED BY <3>1, <2>1, <2>3, <2>5 DEF AllSpecial
  <2>. HIDE DEF c, z
  <2>7. \E st : Shows(a \o c \o z, <<c>>, st)
    BY <1>2, <2>2, <2>6, ShowsInside
  <2>8. \E st : Shows(BlockTokens(block), <<c>>, st)
    BY <2>4, <2>7
  <2>9. BlockTokens(block) \in Seq(AnyTokens)
    BY <2>8 DEF Shows
  <2>. QED BY <2>8, <2>9 DEF c
<1>4. CASE ~block.result
  <2>1. BlockTokens(block) = c
    BY <1>4 DEF BlockTokens
  <2>. QED BY <1>1, <1>2, <2>1
<1>. QED BY <1>3, <1>4

\* What a message says: its content, or that of its blocks.
Pieces(msg) ==
  IF msg.role = "user" THEN [b \in 1 .. Len(msg.blocks) |-> msg.blocks[b].content] ELSE <<msg.content>>

\* The pieces, one by one.
LEMMA PiecesAre ==
  ASSUME NEW msg \in Merged
  PROVE  /\ Pieces(msg) \in Seq(Seq(AnyTokens)) /\ msg.blocks \in Seq(Blocks)
         /\ msg.role = "user" => Len(Pieces(msg)) = Len(msg.blocks) /\ \A b \in 1 .. Len(msg.blocks) : Pieces(msg)[b] = msg.blocks[b].content
         /\ msg.role # "user" => Len(Pieces(msg)) = 1 /\ Pieces(msg)[1] = msg.content
<1>1. msg.blocks \in Seq(Blocks) /\ msg.content \in Seq(AnyTokens)
  BY WordsAreTokens DEF Merged
<1>2. CASE msg.role = "user"
  <2>. DEFINE bs == msg.blocks  s == [b \in 1 .. Len(bs) |-> bs[b].content]
  <2>1. Len(bs) \in Int /\ Len(bs) >= 0 /\ \A b \in 1 .. Len(bs) : bs[b].content \in Seq(AnyTokens)
    BY <1>1, WordsAreTokens
  <2>2. s = [b \in 1 .. Len(bs) |-> s[b]] /\ \A b \in 1 .. Len(bs) : s[b] = bs[b].content
    OBVIOUS
  <2>3. Pieces(msg) = s
    BY <1>2 DEF Pieces
  <2>. HIDE DEF s, bs
  <2>4. s \in Seq(Seq(AnyTokens)) /\ Len(s) = (IF Len(bs) < 0 THEN 0 ELSE Len(bs))
    BY <2>1, <2>2, ListIs
  <2>5. Len(s) = Len(bs)
    BY <2>1, <2>4
  <2>. QED BY <1>1, <1>2, <2>2, <2>3, <2>4, <2>5, Zenon DEF bs
<1>3. CASE msg.role # "user"
  <2>. DEFINE c == msg.content  s == <<c>>
  <2>1. Pieces(msg) = s
    BY <1>3 DEF Pieces
  <2>2. c \in Seq(AnyTokens)
    BY <1>1
  <2>. HIDE DEF c
  <2>3. s \in Seq(Seq(AnyTokens)) /\ Len(s) = 1 /\ s[1] = c
    BY <2>2
  <2>. QED BY <1>1, <1>3, <2>1, <2>3 DEF c
<1>. QED BY <1>2, <1>3

\* A user's message shows its blocks.
LEMMA BlocksShow ==
  ASSUME NEW msg \in Merged, msg.role = "user"
  PROVE  \E st : Shows(FlattenSeq([b \in DOMAIN msg.blocks |-> BlockTokens(msg.blocks[b])]), Pieces(msg), st)
<1>. DEFINE bs == msg.blocks  n == Len(bs)
            ss == [b \in DOMAIN bs |-> BlockTokens(bs[b])]
            pp == [b \in 1 .. n |-> <<bs[b].content>>]
            f == Pieces(msg)
<1>1. bs \in Seq(Blocks) /\ n \in Nat /\ DOMAIN bs = 1 .. n
  BY PiecesAre
<1>2. f \in Seq(Seq(AnyTokens)) /\ Len(f) = n /\ \A b \in 1 .. n : f[b] = bs[b].content
  BY PiecesAre
<1>3. ss = [b \in 1 .. n |-> ss[b]] /\ (\A b \in 1 .. n : ss[b] = BlockTokens(bs[b])) /\ pp = [b \in 1 .. n |-> pp[b]]
      /\ \A b \in 1 .. n : pp[b] = <<f[b]>>
  BY <1>1, <1>2
<1>4. ASSUME NEW b \in 1 .. n PROVE ss[b] \in Seq(AnyTokens) /\ \E st : Shows(ss[b], <<f[b]>>, st)
  <2>. DEFINE x == bs[b]
  <2>1. x \in Blocks
    BY <1>1
  <2>2. ss[b] = BlockTokens(x) /\ f[b] = x.content
    BY <1>2, <1>3
  <2>. HIDE DEF x, ss, f
  <2>3. BlockTokens(x) \in Seq(AnyTokens) /\ \E st : Shows(BlockTokens(x), <<x.content>>, st)
    BY <2>1, BlockShows
  <2>. QED BY <2>2, <2>3
<1>5. \A b \in 1 .. n : <<f[b]>> \in Seq(Seq(AnyTokens))
  <2>1. \A b \in 1 .. n : f[b] \in Seq(AnyTokens)
    BY <1>2
  <2>. HIDE DEF f, n
  <2>. QED BY <2>1
<1>. HIDE DEF bs, ss, pp, f
<1>6. n \in Int /\ n >= 0
  BY <1>1
<1>. HIDE DEF n
<1>7. ss \in Seq(Seq(AnyTokens)) /\ Len(ss) = n
  <2>1. ss \in Seq(Seq(AnyTokens)) /\ Len(ss) = IF n < 0 THEN 0 ELSE n
    BY <1>3, <1>4, <1>6, ListIs
  <2>. QED BY <2>1, <1>6
<1>8. pp \in Seq(Seq(Seq(AnyTokens))) /\ Len(pp) = n
  <2>. DEFINE S == Seq(Seq(AnyTokens))
  <2>1. \A b \in 1 .. n : pp[b] \in S
    BY <1>3, <1>5
  <2>. HIDE DEF S
  <2>2. pp \in Seq(S) /\ Len(pp) = IF n < 0 THEN 0 ELSE n
    BY <1>3, <2>1, <1>6, ListIs
  <2>. QED BY <2>2, <1>6 DEF S
<1>9. \E st : Shows(FlattenSeq(ss), FlattenSeq(pp), st)
  <2>1. \A i \in 1 .. Len(ss) : \E st : Shows(ss[i], pp[i], st)
    BY <1>3, <1>4, <1>7
  <2>. QED BY <2>1, <1>7, <1>8, ShowsAll
<1>10. FlattenSeq(pp) = f
  <2>. DEFINE S == Seq(AnyTokens)
  <2>1. pp \in Seq(Seq(S)) /\ f \in Seq(S) /\ Len(pp) = Len(f) /\ \A i \in 1 .. Len(f) : pp[i] = <<f[i]>>
    BY <1>2, <1>3, <1>8
  <2>. HIDE DEF S
  <2>. QED BY <2>1, FlattenSingles
<1>. QED BY <1>9, <1>10 DEF ss, f, bs

\* Special tokens before or behind.
LEMMA ShowsBeside ==
  ASSUME NEW s, NEW pieces, NEW st, Shows(s, pieces, st), NEW a, AllSpecial(a)
  PROVE  (\E r : Shows(a \o s, pieces, r)) /\ \E r : Shows(s \o a, pieces, r)
<1>1. s \in Seq(AnyTokens) /\ a \in Seq(AnyTokens)
  BY DEF Shows, AllSpecial
<1>2. AllSpecial(<<>>)
  BY SpecialsJoin
<1>. DEFINE u == a \o s
<1>3. u \in Seq(AnyTokens)
  BY <1>1, ConcatParts
<1>4. \E r : Shows(u \o <<>>, pieces, r)
  BY <1>2, ShowsInside
<1>5. \E r : Shows(<<>> \o s \o a, pieces, r)
  BY <1>2, ShowsInside
<1>6. u \o <<>> = u
  <2>. HIDE DEF u
  <2>. QED BY <1>3
<1>7. <<>> \o s = s
  BY <1>1
<1>. QED BY <1>4, <1>5, <1>6, <1>7

\* What a message may add to its words.
LEMMA AddedAreSpecial ==
  ASSUME NEW msg \in Merged
  PROVE  /\ AllSpecial(Tools(msg)) /\ AllSpecial(Reasoning(msg)) /\ AllSpecial(Calls(msg))
         /\ \A t \in {"user", "latest_reminder", "think_end", "eos", "assistant", "think", "action", "bos"} \cup Tasks :
              AllSpecial(<<Tok(t)>>)
<1>1. \A t \in {"user", "latest_reminder", "think_end", "eos", "assistant", "think", "action", "tools", "reasoning", "bos"} \cup Tasks :
        AllSpecial(<<Tok(t)>>)
  <2>1. \A t \in {"user", "latest_reminder", "think_end", "eos", "assistant", "think", "action", "tools", "reasoning", "bos"} \cup Tasks :
          t \in Special
    BY DEF Special, Tasks
  <2>. QED BY <2>1, SpecialIsToken
<1>2. AllSpecial(Tools(msg)) /\ AllSpecial(Reasoning(msg))
  BY <1>1, SpecialsJoin DEF Tools, Reasoning
<1>3. AllSpecial(Calls(msg))
  <2>. DEFINE cs == msg.calls  s == [k \in DOMAIN cs |-> [tok |-> "call", of |-> cs[k]]]
  <2>1. cs \in Seq(Nat) /\ Len(cs) \in Nat /\ DOMAIN cs = 1 .. Len(cs)
    BY DEF Merged
  <2>2. "call" \in Special
    BY DEF Special
  <2>3. \A k \in 1 .. Len(cs) : s[k] \in AnyTokens /\ s[k].tok = "call"
    <3>. SUFFICES ASSUME NEW k \in 1 .. Len(cs) PROVE s[k] \in AnyTokens /\ s[k].tok = "call"
      OBVIOUS
    <3>1. s[k] = [tok |-> "call", of |-> cs[k]] /\ cs[k] \in Nat
      BY <2>1
    <3>. QED BY <3>1, <2>2 DEF AnyTokens
  <2>4. s = [k \in 1 .. Len(cs) |-> s[k]]
    BY <2>1
  <2>5. Calls(msg) = s
    BY DEF Calls
  <2>. HIDE DEF s, cs
  <2>6. Len(cs) \in Int
    BY <2>1
  <2>7. s \in Seq(AnyTokens) /\ 1 .. Len(s) = 1 .. Len(cs)
    BY <2>3, <2>4, <2>6, ListIs
  <2>. QED BY <2>2, <2>3, <2>5, <2>7 DEF AllSpecial
<1>. QED BY <1>1, <1>2, <1>3

\* What follows a message are special tokens.
LEMMA TransitionIsSpecial ==
  ASSUME NEW full \in Seq(Merged), NEW i \in 1 .. Len(full), NEW mode, NEW drop
  PROVE  AllSpecial(Transition(i, full, mode, drop))
<1>. DEFINE msg == full[i]
            inner == i < Len(full) /\ full[i + 1].role \notin {"assistant", "latest_reminder"}
            z == IF mode = "thinking" THEN "think" ELSE "think_end"
<1>1. msg \in Merged /\ msg.task \in Tasks \cup {NoTask}
  <2>1. msg \in Merged
    OBVIOUS
  <2>. HIDE DEF msg
  <2>. QED BY <2>1 DEF Merged
<1>2. \A t \in {"user", "latest_reminder", "think_end", "eos", "assistant", "think", "action"} \cup Tasks : AllSpecial(<<Tok(t)>>)
  BY <1>1, AddedAreSpecial
<1>12. z \in {"think", "think_end", "assistant", "action"}
  OBVIOUS
<1>. HIDE DEF msg, inner, z
<1>3. Transition(i, full, mode, drop) =
        CASE inner -> <<>>
          [] ~inner /\ msg.task = "action" ->
               <<Tok("assistant"), Tok(z), Tok("action")>>
          [] ~inner /\ msg.task \notin {NoTask, "action"} -> <<Tok(msg.task)>>
          [] ~inner /\ msg.task = NoTask /\ msg.role \in {"user", "developer"} ->
               <<Tok("assistant"), Tok(Think(i, full, mode, drop))>>
          [] OTHER -> <<>>
  BY DEF Transition, msg, inner, z
<1>4. \A t, u \in {"think", "think_end", "assistant", "action"} : AllSpecial(<<Tok(t), Tok(u)>>)
  <2>. SUFFICES ASSUME NEW t \in {"think", "think_end", "assistant", "action"}, NEW u \in {"think", "think_end", "assistant", "action"}
                PROVE AllSpecial(<<Tok(t), Tok(u)>>)
    OBVIOUS
  <2>. DEFINE x == Tok(t)  y == Tok(u)  s == <<x, y>>
  <2>1. t \in Special /\ u \in Special
    BY DEF Special, Tasks
  <2>2. x \in AnyTokens /\ y \in AnyTokens /\ x.tok = t /\ y.tok = u
    BY <2>1, SpecialIsToken DEF Tok
  <2>. HIDE DEF x, y
  <2>3. s \in Seq(AnyTokens) /\ Len(s) = 2 /\ s[1] = x /\ s[2] = y
    BY <2>2
  <2>4. \A p \in 1 .. 2 : p = 1 \/ p = 2
    OBVIOUS
  <2>. HIDE DEF s
  <2>5. AllSpecial(s)
    BY <2>1, <2>2, <2>3, <2>4 DEF AllSpecial
  <2>. QED BY <2>5 DEF s, x, y
<1>5. \A t, u, v \in {"think", "think_end", "assistant", "action"} : AllSpecial(<<Tok(t), Tok(u), Tok(v)>>)
  <2>. SUFFICES ASSUME NEW t \in {"think", "think_end", "assistant", "action"}, NEW u \in {"think", "think_end", "assistant", "action"},
                       NEW v \in {"think", "think_end", "assistant", "action"}
                PROVE AllSpecial(<<Tok(t), Tok(u), Tok(v)>>)
    OBVIOUS
  <2>. DEFINE x == Tok(t)  y == Tok(u)  w == Tok(v)  s == <<x, y, w>>
  <2>1. t \in Special /\ u \in Special /\ v \in Special
    BY DEF Special, Tasks
  <2>2. x \in AnyTokens /\ y \in AnyTokens /\ w \in AnyTokens /\ x.tok = t /\ y.tok = u /\ w.tok = v
    BY <2>1, SpecialIsToken DEF Tok
  <2>. HIDE DEF x, y, w
  <2>3. s \in Seq(AnyTokens) /\ Len(s) = 3 /\ s[1] = x /\ s[2] = y /\ s[3] = w
    BY <2>2
  <2>4. \A p \in 1 .. 3 : p = 1 \/ p = 2 \/ p = 3
    OBVIOUS
  <2>. HIDE DEF s
  <2>5. AllSpecial(s)
    BY <2>1, <2>2, <2>3, <2>4 DEF AllSpecial
  <2>. QED BY <2>5 DEF s, x, y, w
<1>6. AllSpecial(<<>>)
  BY SpecialsJoin
<1>7. CASE inner
  BY <1>3, <1>6, <1>7
<1>8. CASE ~inner /\ msg.task = "action"
  <2>1. Transition(i, full, mode, drop) = <<Tok("assistant"), Tok(z), Tok("action")>>
    BY <1>3, <1>8 DEF NoTask
  <2>. QED BY <2>1, <1>5, <1>12
<1>9. CASE ~inner /\ msg.task \notin {NoTask, "action"}
  <2>1. Transition(i, full, mode, drop) = <<Tok(msg.task)>>
    BY <1>3, <1>9
  <2>. QED BY <2>1, <1>1, <1>2, <1>9
<1>10. CASE ~inner /\ msg.task = NoTask /\ msg.role \in {"user", "developer"}
  <2>. DEFINE u == Think(i, full, mode, drop)
  <2>1. Transition(i, full, mode, drop) = <<Tok("assistant"), Tok(u)>>
    BY <1>3, <1>10 DEF NoTask
  <2>2. u \in {"think", "think_end", "assistant", "action"}
    BY DEF Think
  <2>. HIDE DEF u
  <2>. QED BY <2>1, <2>2, <1>4
<1>11. CASE ~inner /\ msg.task = NoTask /\ msg.role \notin {"user", "developer"}
  BY <1>3, <1>6, <1>11 DEF NoTask
<1>. QED BY <1>7, <1>8, <1>9, <1>10, <1>11

\* A message itself shows its pieces.
LEMMA BodyShows ==
  ASSUME NEW full \in Seq(Merged), NEW i \in 1 .. Len(full), NEW mode, NEW drop
  PROVE  \E st : Shows(Body(i, full, mode, drop), Pieces(full[i]), st)
<1>. DEFINE msg == full[i]  c == msg.content
<1>1. msg \in Merged /\ c \in Seq(AnyTokens)
      /\ msg.role \in {"system", "developer", "user", "latest_reminder", "assistant"}
  <2>1. msg \in Merged
    OBVIOUS
  <2>. HIDE DEF msg
  <2>2. msg.role \in {"system", "developer", "user", "latest_reminder", "assistant"}
    BY <2>1 DEF Merged, Roles
  <2>. QED BY <2>1, <2>2, WordsAreTokens
<1>2. AllSpecial(Tools(msg)) /\ AllSpecial(Reasoning(msg)) /\ AllSpecial(Calls(msg)) /\ AllSpecial(<<>>)
      /\ \A t \in {"user", "latest_reminder", "think_end", "eos"} : AllSpecial(<<Tok(t)>>)
  BY <1>1, AddedAreSpecial, SpecialsJoin
<1>3. msg.role # "user" => Pieces(msg) = <<c>>
  BY DEF Pieces
<1>4. Shows(c, <<c>>, <<0>>)
  BY <1>1, ShowsItself
<1>5. CASE msg.role = "system"
  <2>1. Body(i, full, mode, drop) = c \o Tools(msg)
    BY <1>5 DEF Body
  <2>. HIDE DEF msg, c
  <2>2. \E st : Shows(c \o Tools(msg), <<c>>, st)
    BY <1>2, <1>4, ShowsBeside
  <2>. QED BY <2>1, <2>2, <1>3, <1>5 DEF msg
<1>6. CASE msg.role = "developer"
  <2>1. Body(i, full, mode, drop) = <<Tok("user")>> \o c \o Tools(msg)
    BY <1>6 DEF Body
  <2>. HIDE DEF msg, c
  <2>2. \E st : Shows(<<Tok("user")>> \o c \o Tools(msg), <<c>>, st)
    BY <1>2, <1>4, ShowsInside
  <2>. QED BY <2>1, <2>2, <1>3, <1>6 DEF msg
<1>7. CASE msg.role = "user"
  <2>. DEFINE f == FlattenSeq([b \in DOMAIN msg.blocks |-> BlockTokens(msg.blocks[b])])
  <2>1. Body(i, full, mode, drop) = <<Tok("user")>> \o f
    BY <1>7 DEF Body
  <2>2. \E st : Shows(f, Pieces(msg), st)
    BY <1>1, <1>7, BlocksShow
  <2>. HIDE DEF msg, c, f
  <2>3. \E st : Shows(<<Tok("user")>> \o f, Pieces(msg), st)
    BY <2>2, <1>2, ShowsBeside
  <2>. QED BY <2>1, <2>3 DEF msg
<1>8. CASE msg.role = "latest_reminder"
  <2>1. Body(i, full, mode, drop) = <<Tok("latest_reminder")>> \o c
    BY <1>8 DEF Body
  <2>. HIDE DEF msg, c
  <2>2. \E st : Shows(<<Tok("latest_reminder")>> \o c, <<c>>, st)
    BY <1>2, <1>4, ShowsBeside
  <2>. QED BY <2>1, <2>2, <1>3, <1>8 DEF msg
<1>9. CASE msg.role = "assistant"
  <2>. DEFINE a == IF ClosesThinking(i, full, mode, drop) THEN Reasoning(msg) \o <<Tok("think_end")>> ELSE <<>>
  <2>1. Body(i, full, mode, drop) = a \o c \o Calls(msg) \o <<Tok("eos")>>
    BY <1>9 DEF Body
  <2>2. AllSpecial(a)
    BY <1>2, SpecialsJoin
  <2>. HIDE DEF msg, c, a
  <2>3. \E st : Shows(a \o c \o Calls(msg), <<c>>, st)
    BY <1>2, <1>4, <2>2, ShowsInside
  <2>4. \E st : Shows(a \o c \o Calls(msg) \o <<Tok("eos")>>, <<c>>, st)
    BY <1>2, <2>3, ShowsBeside
  <2>. QED BY <2>1, <2>4, <1>3, <1>9 DEF msg
<1>. QED BY <1>1, <1>5, <1>6, <1>7, <1>8, <1>9

\* A message as it is rendered.
LEMMA RenderShows ==
  ASSUME NEW full \in Seq(Merged), NEW i \in 1 .. Len(full), NEW mode, NEW drop
  PROVE  /\ RenderMessage(i, full, mode, drop) \in Seq(AnyTokens)
         /\ \E st : Shows(RenderMessage(i, full, mode, drop), Pieces(full[i]), st)
<1>1. \E st : Shows(Body(i, full, mode, drop), Pieces(full[i]), st)
  BY BodyShows
<1>2. AllSpecial(Transition(i, full, mode, drop))
  BY TransitionIsSpecial
<1>3. \E st : Shows(RenderMessage(i, full, mode, drop), Pieces(full[i]), st)
  BY <1>1, <1>2, ShowsBeside DEF RenderMessage
<1>. QED BY <1>3 DEF Shows

\* What is rendered.
Rendered(ctx, ms, mode, drop) ==
  LET full == FullMessages(ctx, ms, mode, drop)  first == ContextLen(ctx, ms, mode, drop) IN
  [k \in 1 .. Len(full) - first |-> RenderMessage(first + k, full, mode, EffectiveDrop(AllMessages(ctx, ms), drop))]
Said(ctx, ms, mode, drop) ==
  LET full == FullMessages(ctx, ms, mode, drop)  first == ContextLen(ctx, ms, mode, drop) IN
  [k \in 1 .. Len(full) - first |-> Pieces(full[first + k])]

\* The prompt is what is rendered, and it shows what is said.
LEMMA PromptShows ==
  ASSUME NEW ctx \in Seq(Messages), NEW ms \in Seq(Messages), NEW mode, NEW drop
  PROVE  LET ss == Rendered(ctx, ms, mode, drop)  pp == Said(ctx, ms, mode, drop)
             full == FullMessages(ctx, ms, mode, drop)  first == ContextLen(ctx, ms, mode, drop)
             s == EncodeMessages(ctx, ms, mode, drop) IN
         /\ ss \in Seq(Seq(AnyTokens)) /\ pp \in Seq(Seq(Seq(AnyTokens))) /\ Len(ss) = Len(pp)
         /\ 1 .. Len(ss) = 1 .. Len(full) - first
         /\ \A k \in 1 .. Len(ss) :
              /\ first + k \in 1 .. Len(full) /\ pp[k] = Pieces(full[first + k])
              /\ ss[k] = RenderMessage(first + k, full, mode, EffectiveDrop(AllMessages(ctx, ms), drop))
         /\ s = (IF ctx = <<>> THEN <<Tok("bos")>> ELSE <<>>) \o FlattenSeq(ss)
         /\ s \in Seq(AnyTokens) /\ \E st : Shows(s, FlattenSeq(pp), st)
<1>. DEFINE ss == Rendered(ctx, ms, mode, drop)  pp == Said(ctx, ms, mode, drop)
            full == FullMessages(ctx, ms, mode, drop)  first == ContextLen(ctx, ms, mode, drop)
            s == EncodeMessages(ctx, ms, mode, drop)  d == EffectiveDrop(AllMessages(ctx, ms), drop)
            m == Len(full) - first
            b == IF ctx = <<>> THEN <<Tok("bos")>> ELSE <<>>
<1>1. full \in Seq(Merged) /\ first \in Nat
  BY FullIsTyped
<1>2. s = b \o FlattenSeq(ss)
  BY DEF EncodeMessages, Rendered
<1>3. /\ ss = [k \in 1 .. m |-> RenderMessage(first + k, full, mode, d)]
      /\ pp = [k \in 1 .. m |-> Pieces(full[first + k])]
  BY DEF Rendered, Said
<1>4. AllSpecial(b)
  <2>1. "bos" \in Special
    BY DEF Special
  <2>. QED BY <2>1, SpecialIsToken, SpecialsJoin
<1>. HIDE DEF ss, pp, full, first, s, d, b
<1>5. m \in Int /\ \A k \in 1 .. m : first + k \in 1 .. Len(full)
  <2>1. Len(full) \in Nat
    BY <1>1
  <2>. QED BY <2>1, <1>1
<1>6. /\ ss = [k \in 1 .. m |-> ss[k]] /\ \A k \in 1 .. m : ss[k] = RenderMessage(first + k, full, mode, d)
      /\ pp = [k \in 1 .. m |-> pp[k]] /\ \A k \in 1 .. m : pp[k] = Pieces(full[first + k])
  BY <1>3
<1>7. ASSUME NEW k \in 1 .. m
      PROVE  ss[k] \in Seq(AnyTokens) /\ pp[k] \in Seq(Seq(AnyTokens)) /\ \E st : Shows(ss[k], pp[k], st)
  <2>1. first + k \in 1 .. Len(full) /\ full[first + k] \in Merged
    BY <1>1, <1>5
  <2>2. ss[k] = RenderMessage(first + k, full, mode, d) /\ pp[k] = Pieces(full[first + k])
    BY <1>6
  <2>3. Pieces(full[first + k]) \in Seq(Seq(AnyTokens))
    BY <2>1, PiecesAre
  <2>4. /\ RenderMessage(first + k, full, mode, d) \in Seq(AnyTokens)
        /\ \E st : Shows(RenderMessage(first + k, full, mode, d), Pieces(full[first + k]), st)
    BY <1>1, <2>1, RenderShows
  <2>. QED BY <2>2, <2>3, <2>4
<1>. HIDE DEF m
<1>8. ss \in Seq(Seq(AnyTokens)) /\ Len(ss) = (IF m < 0 THEN 0 ELSE m) /\ 1 .. Len(ss) = 1 .. m
  BY <1>5, <1>6, <1>7, ListIs
<1>9. pp \in Seq(Seq(Seq(AnyTokens))) /\ Len(pp) = (IF m < 0 THEN 0 ELSE m)
  <2>. DEFINE S == Seq(Seq(AnyTokens))
  <2>1. \A k \in 1 .. m : pp[k] \in S
    BY <1>7
  <2>. HIDE DEF S
  <2>2. pp \in Seq(S) /\ Len(pp) = IF m < 0 THEN 0 ELSE m
    BY <2>1, <1>5, <1>6, ListIs
  <2>. QED BY <2>2 DEF S
<1>10. \E st : Shows(FlattenSeq(ss), FlattenSeq(pp), st)
  <2>1. \A k \in 1 .. Len(ss) : \E st : Shows(ss[k], pp[k], st)
    BY <1>7, <1>8
  <2>2. Len(ss) = Len(pp)
    BY <1>8, <1>9
  <2>. QED BY <2>1, <2>2, <1>8, <1>9, ShowsAll
<1>11. \E st : Shows(s, FlattenSeq(pp), st)
  BY <1>2, <1>4, <1>10, ShowsBeside
<1>12. s \in Seq(AnyTokens)
  BY <1>11 DEF Shows
<1>13. /\ 1 .. Len(ss) = 1 .. Len(full) - first
       /\ \A k \in 1 .. Len(ss) : first + k \in 1 .. Len(full) /\ pp[k] = Pieces(full[first + k])
                                  /\ ss[k] = RenderMessage(first + k, full, mode, d)
  BY <1>5, <1>6, <1>8 DEF m
<1>14. Len(ss) = Len(pp)
  BY <1>8, <1>9
<1>. QED BY <1>2, <1>8, <1>9, <1>11, <1>12, <1>13, <1>14 DEF ss, pp, full, first, s, d, b

-----------------------------------------------------------------------------
(* Where a message is said.                                                *)

\* The piece a message is of the one it is merged into.
PieceAt(ctx, ms, i) ==
  IF Asks(ms[i])
  THEN SortSlot(MergeToolMessages(ms)[Spot(ms, i)].blocks, LastCalls(ctx \o ms, Len(ctx) + i), BlockOf(ms, i))
  ELSE 1

\* Every message is one piece of what it is merged into, and every piece is one message's.
LEMMA PieceAtIs ==
  ASSUME NEW ctx \in Seq(Messages), NEW ms \in Seq(Messages), NEW q \in 1 .. Len(Preprocess(ctx, ms))
  PROVE  /\ \A i \in 1 .. Len(ms) : Spot(ms, i) = q =>
              /\ PieceAt(ctx, ms, i) \in 1 .. Len(Pieces(Preprocess(ctx, ms)[q]))
              /\ Pieces(Preprocess(ctx, ms)[q])[PieceAt(ctx, ms, i)] = ms[i].content
         /\ \A x \in 1 .. Len(Pieces(Preprocess(ctx, ms)[q])) :
              \E i \in 1 .. Len(ms) : Spot(ms, i) = q /\ PieceAt(ctx, ms, i) = x
<1>. DEFINE r == MergeToolMessages(ms)  c == LastCalls(ctx \o r, Len(ctx) + q)  p == Preprocess(ctx, ms)[q]
            bs == r[q].blocks
<1>1. /\ q \in 1 .. Len(r) /\ r \in Seq(Merged) /\ c \in Seq(Nat) /\ p = SortedBy(r[q], c)
  BY PreprocessIs
<1>2. /\ \A i \in 1 .. Len(ms) :
           /\ Spot(ms, i) \in 1 .. Len(r)
           /\ ~Asks(ms[i]) => r[Spot(ms, i)] = ms[i]
           /\ Asks(ms[i]) => /\ r[Spot(ms, i)].role = "user"
                             /\ BlockOf(ms, i) \in 1 .. Len(r[Spot(ms, i)].blocks)
                             /\ r[Spot(ms, i)].blocks[BlockOf(ms, i)] = BlockFor(ms[i])
      /\ \A x \in 1 .. Len(r) :
           /\ \E i \in 1 .. Len(ms) : Spot(ms, i) = x /\ (Asks(ms[i]) <=> r[x].role = "user")
           /\ r[x].role = "user" =>
                \A b \in 1 .. Len(r[x].blocks) :
                  \E i \in 1 .. Len(ms) : Asks(ms[i]) /\ Spot(ms, i) = x /\ BlockOf(ms, i) = b
  BY MergedAre
<1>3. \A i \in 1 .. Len(ms) : Spot(ms, i) = q => LastCalls(ctx \o ms, Len(ctx) + i) = c
  BY CallsAtSpot
<1>4. \A i \in 1 .. Len(ms) : Spot(ms, i) = q => PieceAt(ctx, ms, i) = IF Asks(ms[i]) THEN SortSlot(bs, c, BlockOf(ms, i)) ELSE 1
  BY <1>3 DEF PieceAt
<1>5. p = SortedBy(r[q], c) /\ r[q] \in Merged /\ c \in Seq(Nat)
  BY <1>1
<1>. HIDE DEF r, c, p
<1>6. p \in Merged /\ p.blocks = SortBlocks(bs, c) /\ bs \in Seq(Blocks) /\ p.role = r[q].role /\ p.content = r[q].content
  BY <1>5, SortedByIs
<1>. HIDE DEF bs
<1>7. /\ SortBlocks(bs, c) \in Seq(Blocks) /\ Len(SortBlocks(bs, c)) = Len(bs)
      /\ \A b \in 1 .. Len(bs) : SortSlot(bs, c, b) \in 1 .. Len(bs) /\ SortBlocks(bs, c)[SortSlot(bs, c, b)] = bs[b]
      /\ \A x \in 1 .. Len(bs) : \E b \in 1 .. Len(bs) : SortSlot(bs, c, b) = x
  BY <1>5, <1>6, SortedAre
<1>8. /\ p.role = "user" => Len(Pieces(p)) = Len(bs) /\ \A b \in 1 .. Len(bs) : Pieces(p)[b] = SortBlocks(bs, c)[b].content
      /\ p.role # "user" => Len(Pieces(p)) = 1 /\ Pieces(p)[1] = r[q].content
  BY <1>6, <1>7, PiecesAre, ZenonT(30)
<1>. DEFINE P == Pieces(p)  l == Len(P)
<1>20. p.role = "user" => l = Len(bs)
  BY <1>8
<1>21. p.role # "user" => l = 1 /\ P[1] = r[q].content
  BY <1>8
<1>22. p.role = "user" => \A b \in 1 .. Len(bs) : P[b] = SortBlocks(bs, c)[b].content
  BY <1>8
<1>. HIDE DEF l
<1>9. ASSUME NEW i \in 1 .. Len(ms), Spot(ms, i) = q
      PROVE  PieceAt(ctx, ms, i) \in 1 .. l /\ P[PieceAt(ctx, ms, i)] = ms[i].content
  <2>1. CASE Asks(ms[i])
    <3>1. /\ p.role = "user" /\ BlockOf(ms, i) \in 1 .. Len(bs) /\ bs[BlockOf(ms, i)] = BlockFor(ms[i])
      BY <1>2, <1>6, <1>9, <2>1 DEF bs
    <3>. DEFINE b == BlockOf(ms, i)
    <3>2. PieceAt(ctx, ms, i) = SortSlot(bs, c, b)
      BY <1>4, <1>9, <2>1
    <3>3. bs[b].content = ms[i].content
      BY <3>1 DEF BlockFor
    <3>. HIDE DEF b
    <3>4. b \in 1 .. Len(bs)
      BY <3>1 DEF b
    <3>5. SortSlot(bs, c, b) \in 1 .. Len(bs) /\ SortBlocks(bs, c)[SortSlot(bs, c, b)] = bs[b]
      BY <3>4, <1>7
    <3>6. P[SortSlot(bs, c, b)] = bs[b].content
      BY <3>1, <3>5, <1>22
    <3>. QED BY <3>1, <3>2, <3>3, <3>5, <3>6, <1>20
  <2>2. CASE ~Asks(ms[i])
    <3>1. r[q] = ms[i] /\ PieceAt(ctx, ms, i) = 1
      BY <1>2, <1>4, <1>9, <2>2
    <3>2. p.role # "user"
      BY <3>1, <2>2, <1>6 DEF Asks
    <3>3. l = 1 /\ P[1] = r[q].content
      BY <3>2, <1>21
    <3>. QED BY <3>1, <3>3
  <2>. QED BY <2>1, <2>2
<1>. HIDE DEF P
<1>10. ASSUME NEW x \in 1 .. l
       PROVE  \E i \in 1 .. Len(ms) : Spot(ms, i) = q /\ PieceAt(ctx, ms, i) = x
  <2>1. CASE p.role = "user"
    <3>1. x \in 1 .. Len(bs) /\ r[q].role = "user"
      BY <2>1, <1>6, <1>20
    <3>2. PICK b \in 1 .. Len(bs) : SortSlot(bs, c, b) = x
      BY <3>1, <1>7
    <3>3. PICK i \in 1 .. Len(ms) : Asks(ms[i]) /\ Spot(ms, i) = q /\ BlockOf(ms, i) = b
      BY <1>1, <1>2, <3>1 DEF bs
    <3>. QED BY <3>2, <3>3, <1>4
  <2>2. CASE p.role # "user"
    <3>1. x = 1
      BY <2>2, <1>21
    <3>2. PICK i \in 1 .. Len(ms) : Spot(ms, i) = q /\ (Asks(ms[i]) <=> r[q].role = "user")
      BY <1>1, <1>2
    <3>. QED BY <3>1, <3>2, <2>2, <1>4, <1>6
  <2>. QED BY <2>1, <2>2
<1>. QED BY <1>9, <1>10 DEF p, P, l

\* What is said is what the messages of D say, at w, in the order of their spots and of their slots.
Placed(ctx, ms, said, D, w) ==
  /\ D \subseteq 1 .. Len(ms) /\ \A i \in 1 .. Len(ms) : ms[i].role # "developer" => i \in D
  /\ \A i \in D : w[i] \in 1 .. Len(said) /\ said[w[i]] = ms[i].content
  /\ \A x \in 1 .. Len(said) : \E i \in D : w[i] = x
  /\ \A i, j \in D : Spot(ms, i) < Spot(ms, j) => w[i] < w[j]
  /\ \A i, j \in D : Spot(ms, i) = Spot(ms, j) => (w[i] < w[j] <=> PieceAt(ctx, ms, i) < PieceAt(ctx, ms, j))

\* The prompt says every message but the developers that are dropped, and nothing else.
LEMMA MessagesAreSaid ==
  ASSUME NEW ctx \in Seq(Messages), NEW ms \in Seq(Messages), NEW mode, NEW drop, Answered(ctx)
  PROVE  \E D, w : Placed(ctx, ms, FlattenSeq(Said(ctx, ms, mode, drop)), D, w)
<1>. DEFINE full == FullMessages(ctx, ms, mode, drop)  first == ContextLen(ctx, ms, mode, drop)
            all == AllMessages(ctx, ms)  n == Len(Encoded(ctx))  pp == Said(ctx, ms, mode, drop)  said == FlattenSeq(pp)
            pre == Preprocess(ctx, ms)
<1>1. PICK kept : Thinned(full, first, all, n, kept)
  BY FullIsThinned
<1>2. /\ pp \in Seq(Seq(Seq(AnyTokens)))
      /\ 1 .. Len(pp) = 1 .. Len(full) - first
      /\ \A k \in 1 .. Len(pp) : first + k \in 1 .. Len(full) /\ pp[k] = Pieces(full[first + k])
  BY PromptShows
<1>3. /\ all \in Seq(Merged) /\ Len(all) = n + Len(pre) /\ n \in Nat /\ Len(pre) \in Nat
      /\ \A q \in 1 .. Len(pre) : all[n + q] = pre[q]
      /\ \A p \in 1 .. Len(all) : p \in 1 .. n \/ \E q \in 1 .. Len(pre) : p = n + q
  BY AllAre
<1>4. /\ \A i \in 1 .. Len(ms) : Spot(ms, i) \in 1 .. Len(pre)
      /\ \A i \in 1 .. Len(ms) : ms[i].role # "developer" => pre[Spot(ms, i)].role # "developer"
  <2>. DEFINE r == MergeToolMessages(ms)
  <2>1. Len(pre) = Len(r) /\ r \in Seq(Merged)
        /\ \A q \in 1 .. Len(r) : LastCalls(ctx \o r, Len(ctx) + q) \in Seq(Nat) /\ pre[q] = SortedBy(r[q], LastCalls(ctx \o r, Len(ctx) + q))
    BY PreprocessIs
  <2>2. \A i \in 1 .. Len(ms) : Spot(ms, i) \in 1 .. Len(r) /\ (~Asks(ms[i]) => r[Spot(ms, i)] = ms[i])
          /\ (Asks(ms[i]) => r[Spot(ms, i)].role = "user")
    BY MergedAre
  <2>. HIDE DEF pre, r
  <2>3. \A q \in 1 .. Len(r) : pre[q].role = r[q].role
    <3>. SUFFICES ASSUME NEW q \in 1 .. Len(r) PROVE pre[q].role = r[q].role
      OBVIOUS
    <3>1. r[q] \in Merged
      BY <2>1
    <3>. QED BY <3>1, <2>1, SortedByIs
  <2>4. \A i \in 1 .. Len(ms) : ms[i].role # "developer" => r[Spot(ms, i)].role # "developer"
    <3>. SUFFICES ASSUME NEW i \in 1 .. Len(ms), ms[i].role # "developer" PROVE r[Spot(ms, i)].role # "developer"
      OBVIOUS
    <3>1. CASE Asks(ms[i])
      BY <3>1, <2>2
    <3>2. CASE ~Asks(ms[i])
      BY <3>2, <2>2
    <3>. QED BY <3>1, <3>2
  <2>. QED BY <2>1, <2>2, <2>3, <2>4
<1>. HIDE DEF full, first, all, n, pp, pre
<1>5. /\ full \in Seq(Merged) /\ first \in 0 .. Len(full)
      /\ \A t \in 1 .. Len(full) : kept[t] \in 1 .. Len(all) /\ full[t] \in {all[kept[t]], Bare(all[kept[t]])}
      /\ \A t, u \in 1 .. Len(full) : t < u <=> kept[t] < kept[u]
      /\ \A i \in 1 .. Len(all) : all[i].role # "developer" => \E t \in 1 .. Len(full) : kept[t] = i
      /\ \A t \in 1 .. Len(full) : first < t <=> n < kept[t]
  BY <1>1 DEF Thinned
<1>6. Len(full) \in Nat /\ first \in Nat
  BY <1>5
<1>. DEFINE at(k) == kept[first + k] - n
<1>7. ASSUME NEW k \in 1 .. Len(pp)
      PROVE  at(k) \in 1 .. Len(pre) /\ kept[first + k] = n + at(k) /\ pp[k] = Pieces(pre[at(k)])
  <2>1. first + k \in 1 .. Len(full) /\ pp[k] = Pieces(full[first + k])
    BY <1>2
  <2>2. first < first + k
    BY <1>6
  <2>3. kept[first + k] \in 1 .. Len(all) /\ n < kept[first + k]
    BY <2>1, <2>2, <1>5
  <2>4. at(k) \in 1 .. Len(pre) /\ kept[first + k] = n + at(k)
    BY <2>3, <1>3
  <2>. DEFINE q == at(k)
  <2>. HIDE DEF q
  <2>5. full[first + k] \in {pre[q], Bare(pre[q])} /\ pre[q] \in Merged
    <3>1. all[n + q] = pre[q] /\ kept[first + k] = n + q /\ n + q \in 1 .. Len(all)
      BY <2>3, <2>4, <1>3 DEF q
    <3>2. all[n + q] \in Merged
      BY <3>1, <1>3
    <3>. QED BY <3>1, <3>2, <2>1, <1>5
  <2>6. Pieces(full[first + k]) = Pieces(pre[q])
    <3>1. /\ Bare(pre[q]).blocks = pre[q].blocks /\ Bare(pre[q]).role = pre[q].role /\ Bare(pre[q]).content = pre[q].content
      BY <2>5, BareIs
    <3>. QED BY <3>1, <2>5 DEF Pieces
  <2>. QED BY <2>1, <2>4, <2>6 DEF q
<1>8. \A k, l \in 1 .. Len(pp) : (k < l <=> at(k) < at(l))
  <2>. SUFFICES ASSUME NEW k \in 1 .. Len(pp), NEW l \in 1 .. Len(pp) PROVE k < l <=> at(k) < at(l)
    OBVIOUS
  <2>1. first + k \in 1 .. Len(full) /\ first + l \in 1 .. Len(full)
    BY <1>2
  <2>2. first + k < first + l <=> kept[first + k] < kept[first + l]
    BY <2>1, <1>5
  <2>3. at(k) \in Int /\ at(l) \in Int /\ kept[first + k] = n + at(k) /\ kept[first + l] = n + at(l)
    BY <1>7
  <2>. DEFINE a == at(k)  b == at(l)
  <2>. HIDE DEF a, b
  <2>4. first + k < first + l <=> k < l
    BY <1>6
  <2>5. n + a < n + b <=> a < b
    BY <2>3, <1>3 DEF a, b
  <2>. QED BY <2>2, <2>3, <2>4, <2>5 DEF a, b
<1>. DEFINE At == [k \in 1 .. Len(pp) |-> at(k)]
<1>9. /\ \A k \in 1 .. Len(pp) : At[k] \in 1 .. Len(pre) /\ pp[k] = Pieces(pre[At[k]])
      /\ \A k, l \in 1 .. Len(pp) : (k < l <=> At[k] < At[l])
  <2>1. \A k \in 1 .. Len(pp) : At[k] = at(k)
    OBVIOUS
  <2>. HIDE DEF At, at
  <2>. QED BY <2>1, <1>7, <1>8
<1>10. \A q \in 1 .. Len(pre) : pre[q].role # "developer" => \E k \in 1 .. Len(pp) : At[k] = q
  <2>. SUFFICES ASSUME NEW q \in 1 .. Len(pre), pre[q].role # "developer" PROVE \E k \in 1 .. Len(pp) : At[k] = q
    OBVIOUS
  <2>1. n + q \in 1 .. Len(all) /\ all[n + q].role # "developer"
    BY <1>3
  <2>2. PICK t \in 1 .. Len(full) : kept[t] = n + q
    BY <2>1, <1>5
  <2>3. first < t
    BY <2>2, <1>3, <1>5
  <2>. DEFINE k == t - first
  <2>4. k \in 1 .. Len(full) - first /\ first + k = t
    BY <2>3, <1>6
  <2>. HIDE DEF k
  <2>5. k \in 1 .. Len(pp) /\ at(k) = (n + q) - n
    BY <2>2, <2>4, <1>2
  <2>6. at(k) = q
    BY <2>5, <1>3
  <2>. QED BY <2>5, <2>6
<1>. HIDE DEF At, at
<1>. DEFINE D == {i \in 1 .. Len(ms) : \E k \in 1 .. Len(pp) : At[k] = Spot(ms, i)}
            K == [i \in D |-> CHOOSE k \in 1 .. Len(pp) : At[k] = Spot(ms, i)]
            w == [i \in D |-> Ends(pp, K[i] - 1) + PieceAt(ctx, ms, i)]
<1>11. \A i \in D : i \in 1 .. Len(ms) /\ K[i] \in 1 .. Len(pp) /\ At[K[i]] = Spot(ms, i) /\ w[i] = Ends(pp, K[i] - 1) + PieceAt(ctx, ms, i)
  OBVIOUS
<1>12. D \subseteq 1 .. Len(ms) /\ \A i \in 1 .. Len(ms) : ms[i].role # "developer" => i \in D
  BY <1>4, <1>10
<1>13. \A i \in 1 .. Len(ms) : \A k \in 1 .. Len(pp) : At[k] = Spot(ms, i) => i \in D /\ K[i] = k
  <2>. SUFFICES ASSUME NEW i \in 1 .. Len(ms), NEW k \in 1 .. Len(pp), At[k] = Spot(ms, i) PROVE i \in D /\ K[i] = k
    OBVIOUS
  <2>1. i \in D
    OBVIOUS
  <2>2. K[i] \in 1 .. Len(pp) /\ At[K[i]] = At[k]
    BY <2>1, <1>11
  <2>. HIDE DEF D, K
  <2>3. ~(K[i] < k) /\ ~(k < K[i])
    <3>1. At[k] \in Int
      BY <1>9
    <3>. QED BY <2>2, <3>1, <1>9
  <2>4. K[i] \in Int /\ k \in Int
    BY <2>2
  <2>. QED BY <2>1, <2>3, <2>4
<1>. HIDE DEF D, K, w
<1>14. ASSUME NEW i \in D
       PROVE  PieceAt(ctx, ms, i) \in 1 .. Len(pp[K[i]]) /\ pp[K[i]][PieceAt(ctx, ms, i)] = ms[i].content
  <2>1. i \in 1 .. Len(ms) /\ K[i] \in 1 .. Len(pp) /\ At[K[i]] = Spot(ms, i)
    BY <1>11
  <2>2. At[K[i]] \in 1 .. Len(pre) /\ pp[K[i]] = Pieces(pre[At[K[i]]])
    BY <2>1, <1>9
  <2>. DEFINE q == Spot(ms, i)
  <2>3. q \in 1 .. Len(pre) /\ pp[K[i]] = Pieces(pre[q])
    BY <2>1, <2>2
  <2>4. PieceAt(ctx, ms, i) \in 1 .. Len(Pieces(pre[q])) /\ Pieces(pre[q])[PieceAt(ctx, ms, i)] = ms[i].content
    BY <2>1, <2>3, PieceAtIs DEF pre
  <2>. QED BY <2>3, <2>4
<1>. DEFINE S == Seq(AnyTokens)
<1>15. pp \in Seq(Seq(S))
  BY <1>2
<1>. HIDE DEF S, said
<1>16. ASSUME NEW i \in D
       PROVE  w[i] \in 1 .. Len(said) /\ said[w[i]] = ms[i].content
  <2>1. K[i] \in 1 .. Len(pp) /\ PieceAt(ctx, ms, i) \in 1 .. Len(pp[K[i]]) /\ pp[K[i]][PieceAt(ctx, ms, i)] = ms[i].content
        /\ w[i] = Ends(pp, K[i] - 1) + PieceAt(ctx, ms, i)
    BY <1>11, <1>14
  <2>2. Ends(pp, K[i] - 1) + PieceAt(ctx, ms, i) \in 1 .. Len(FlattenSeq(pp))
    BY <2>1, <1>15, PlacesInOrder
  <2>3. FlattenSeq(pp)[Ends(pp, K[i] - 1) + PieceAt(ctx, ms, i)] = pp[K[i]][PieceAt(ctx, ms, i)]
    BY <2>1, <1>15, FlattenPlaces, SMTT(30)
  <2>. QED BY <2>1, <2>2, <2>3 DEF said
<1>17. ASSUME NEW x \in 1 .. Len(said)
       PROVE  \E i \in D : w[i] = x
  <2>1. PICK k \in 1 .. Len(pp) : \E q \in 1 .. Len(pp[k]) : x = Ends(pp, k - 1) + q
    BY <1>15, PlaceOfPart DEF said
  <2>2. PICK y \in 1 .. Len(pp[k]) : x = Ends(pp, k - 1) + y
    BY <2>1
  <2>3. At[k] \in 1 .. Len(pre) /\ pp[k] = Pieces(pre[At[k]])
    BY <1>9
  <2>. DEFINE q == At[k]
  <2>. HIDE DEF q
  <2>4. q \in 1 .. Len(Preprocess(ctx, ms)) /\ y \in 1 .. Len(Pieces(Preprocess(ctx, ms)[q]))
    BY <2>3 DEF pre, q
  <2>5. PICK i \in 1 .. Len(ms) : Spot(ms, i) = q /\ PieceAt(ctx, ms, i) = y
    BY <2>4, PieceAtIs
  <2>6. i \in D /\ K[i] = k
    BY <2>5, <1>13 DEF q
  <2>. QED BY <2>2, <2>5, <2>6, <1>11
<1>18. ASSUME NEW i \in D, NEW j \in D
       PROVE  /\ Spot(ms, i) < Spot(ms, j) => w[i] < w[j]
              /\ Spot(ms, i) = Spot(ms, j) => (w[i] < w[j] <=> PieceAt(ctx, ms, i) < PieceAt(ctx, ms, j))
  <2>1. /\ K[i] \in 1 .. Len(pp) /\ K[j] \in 1 .. Len(pp) /\ w[i] = Ends(pp, K[i] - 1) + PieceAt(ctx, ms, i)
        /\ w[j] = Ends(pp, K[j] - 1) + PieceAt(ctx, ms, j) /\ At[K[i]] = Spot(ms, i) /\ At[K[j]] = Spot(ms, j)
        /\ PieceAt(ctx, ms, i) \in 1 .. Len(pp[K[i]]) /\ PieceAt(ctx, ms, j) \in 1 .. Len(pp[K[j]])
        /\ i \in 1 .. Len(ms) /\ j \in 1 .. Len(ms)
    BY <1>11, <1>14
  <2>2. /\ K[i] < K[j] => Ends(pp, K[i] - 1) + PieceAt(ctx, ms, i) < Ends(pp, K[j] - 1) + PieceAt(ctx, ms, j)
        /\ K[i] = K[j] => (Ends(pp, K[i] - 1) + PieceAt(ctx, ms, i) < Ends(pp, K[j] - 1) + PieceAt(ctx, ms, j)
                             <=> PieceAt(ctx, ms, i) < PieceAt(ctx, ms, j))
    <3>. DEFINE k == K[i]  l == K[j]  a == PieceAt(ctx, ms, i)  b == PieceAt(ctx, ms, j)
    <3>1. k \in 1 .. Len(pp) /\ l \in 1 .. Len(pp) /\ a \in 1 .. Len(pp[k]) /\ b \in 1 .. Len(pp[l]) /\ pp \in Seq(Seq(S))
      BY <2>1, <1>15
    <3>. HIDE DEF k, l, a, b
    <3>2. /\ k < l => Ends(pp, k - 1) + a < Ends(pp, l - 1) + b
          /\ k = l => (Ends(pp, k - 1) + a < Ends(pp, l - 1) + b <=> a < b)
      BY <3>1, PlacesInOrder, ZenonT(60)
    <3>. QED BY <3>2 DEF k, l, a, b
  <2>3. Spot(ms, i) < Spot(ms, j) => K[i] < K[j]
    BY <2>1, <1>9
  <2>4. Spot(ms, i) = Spot(ms, j) => K[i] = K[j]
    BY <2>1, <1>13
  <2>. QED BY <2>1, <2>2, <2>3, <2>4
<1>19. Placed(ctx, ms, said, D, w)
  BY <1>12, <1>16, <1>17, <1>18 DEF Placed
<1>. QED BY <1>19 DEF said, pp

\* What ChatInv takes of the messages of a chat.
Wordy(ms) == \A i \in DOMAIN ms : \A k \in DOMAIN ms[i].content : ms[i].content[k].tok \notin Special
Telling(ms) ==
  \A i \in DOMAIN ms : ms[i].role = "tool" =>
    /\ ms[i].content # <<>>
    /\ \A j \in DOMAIN ms \ {i} : ms[i].content[1] \notin ToSet(ms[j].content)

\* The calls do not change while there are only results.
LEMMA CallsStay ==
  ASSUME NEW S, NEW s \in Seq(S), NEW i \in 1 .. Len(s) + 1, NEW j \in 1 .. i, \A k \in j .. i - 1 : ~HasCalls(s[k])
  PROVE  LastCalls(s, i) = LastCalls(s, j)
<1>. DEFINE g == [p \in 1 .. i - 1 |-> p]
<1>1. \A p \in 1 .. i - 1 : g[p] = p
  OBVIOUS
<1>. HIDE DEF g
<1>2. \A p \in 1 .. i - 1 : HasCalls(s[p]) => p \in 1 .. j - 1
  <2>1. \A p \in 1 .. i - 1 : p \in j .. i - 1 \/ p \in 1 .. j - 1
    OBVIOUS
  <2>. QED BY <2>1
<1>3. \A p \in 1 .. j - 1 : p \in 1 .. i - 1
  OBVIOUS
<1>4. Carries(g, s, i, s, j)
  BY <1>1, <1>2, <1>3 DEF Carries
<1>5. j \in 1 .. Len(s) + 1
  OBVIOUS
<1>. QED BY <1>4, <1>5, CallsCarry

\* The results of a turn are merged into one message, those of earlier calls in earlier slots.
LEMMA ResultsSlot ==
  ASSUME NEW ctx \in Seq(Messages), NEW ms \in Seq(Messages), NEW j \in 1 .. Len(ms), NEW k \in 1 .. Len(ms), NEW calls,
         ms[j].role = "tool", ms[k].role = "tool", Spot(ms, j) = Spot(ms, k),
         calls = LastCalls(ctx \o ms, Len(ctx) + j), calls = LastCalls(ctx \o ms, Len(ctx) + k),
         CallOrder(calls, ms[j].id) < CallOrder(calls, ms[k].id)
  PROVE  PieceAt(ctx, ms, j) < PieceAt(ctx, ms, k)
<1>. DEFINE r == MergeToolMessages(ms)  q == Spot(ms, j)  bs == r[q].blocks  a == BlockOf(ms, j)  b == BlockOf(ms, k)
<1>1. Asks(ms[j]) /\ Asks(ms[k])
  BY DEF Asks
<1>2. /\ q \in 1 .. Len(r) /\ r \in Seq(Merged)
      /\ a \in 1 .. Len(bs) /\ b \in 1 .. Len(bs) /\ bs[a] = BlockFor(ms[j]) /\ bs[b] = BlockFor(ms[k])
  BY <1>1, MergedAre
<1>3. bs \in Seq(Blocks)
  <2>. HIDE DEF r, q
  <2>1. r[q] \in Merged
    BY <1>2
  <2>. QED BY <2>1, PiecesAre
<1>4. calls \in Seq(Nat)
  <2>1. ctx \o ms \in Seq(Messages) /\ Len(ctx \o ms) = Len(ctx) + Len(ms) /\ Len(ctx) \in Nat /\ Len(ms) \in Nat
    BY ConcatParts
  <2>2. ctx \o ms \in Seq(AnyMessages) /\ Len(ctx) + j \in 1 .. Len(ctx \o ms) + 1
    BY <2>1, TypesMix
  <2>. QED BY <2>2, LastCallsType
<1>5. PieceAt(ctx, ms, j) = SortSlot(bs, calls, a) /\ PieceAt(ctx, ms, k) = SortSlot(bs, calls, b)
  BY <1>1 DEF PieceAt
<1>. HIDE DEF r, q, bs, a, b
<1>6. a \in ResultsIn(bs) /\ b \in ResultsIn(bs)
  <2>1. BlockFor(ms[j]).result /\ BlockFor(ms[k]).result
    BY DEF BlockFor
  <2>2. bs[a].result /\ bs[b].result
    BY <1>2, <2>1
  <2>3. DOMAIN bs = 1 .. Len(bs)
    BY <1>3
  <2>. QED BY <1>2, <2>2, <2>3 DEF ResultsIn
<1>7. KeyOf(bs, calls, a) = CallOrder(calls, ms[j].id) /\ KeyOf(bs, calls, b) = CallOrder(calls, ms[k].id)
  BY <1>2 DEF KeyOf, BlockFor
<1>8. Sooner(bs, calls, a, b)
  BY <1>7 DEF Sooner
<1>9. SortSlot(bs, calls, a) < SortSlot(bs, calls, b)
  BY <1>3, <1>4, <1>6, <1>8, SortedAre
<1>. QED BY <1>5, <1>9

\* The first token of a kind.
FirstOf(s, x) == SelectInSeq(s, LAMBDA t : t = x)

\* It is the first.
LEMMA FirstOfIs ==
  ASSUME NEW S, NEW s \in Seq(S), NEW x, NEW p \in 1 .. Len(s), s[p] = x
  PROVE  FirstOf(s, x) \in 1 .. Len(s) /\ s[FirstOf(s, x)] = x /\ FirstOf(s, x) <= p
<1>. DEFINE I == {i \in 1 .. Len(s) : s[i] = x}
<1>1. FirstOf(s, x) = IF I # {} THEN Min(I) ELSE 0
  BY DEF FirstOf, SelectInSeq
<1>2. p \in I
  OBVIOUS
<1>3. I \subseteq Nat
  OBVIOUS
<1>4. \E y \in I : \A z \in I : y <= z
  BY <1>2, <1>3, SmallestOfSet
<1>5. FirstOf(s, x) = CHOOSE y \in I : \A z \in I : y <= z
  BY <1>1, <1>2 DEF Min
<1>. HIDE DEF I
<1>6. FirstOf(s, x) \in I /\ \A z \in I : FirstOf(s, x) <= z
  BY <1>4, <1>5
<1>. QED BY <1>2, <1>6 DEF I

\* The prompt says the results of a turn in the order of the calls they answer.
LEMMA ResultsAreSaidInOrder ==
  ASSUME NEW ctx \in Seq(Messages), NEW ms \in Seq(Messages), NEW mode, NEW drop, Answered(ctx), Wordy(ms), Telling(ms),
         NEW j \in 1 .. Len(ms), NEW k \in 1 .. Len(ms), NEW calls,
         ms[j].role = "tool", ms[k].role = "tool", Spot(ms, j) = Spot(ms, k),
         calls = LastCalls(ctx \o ms, Len(ctx) + j), calls = LastCalls(ctx \o ms, Len(ctx) + k),
         CallOrder(calls, ms[j].id) < CallOrder(calls, ms[k].id)
  PROVE  FirstOf(EncodeMessages(ctx, ms, mode, drop), ms[j].content[1])
           < FirstOf(EncodeMessages(ctx, ms, mode, drop), ms[k].content[1])
<1>. DEFINE s == EncodeMessages(ctx, ms, mode, drop)  said == FlattenSeq(Said(ctx, ms, mode, drop))
<1>1. PICK D, w : Placed(ctx, ms, said, D, w)
  BY MessagesAreSaid
<1>2. PICK st : Shows(s, said, st)
  BY PromptShows
<1>3. PieceAt(ctx, ms, j) < PieceAt(ctx, ms, k)
  BY ResultsSlot
<1>. HIDE DEF s, said
<1>4. j \in D /\ k \in D /\ D \subseteq 1 .. Len(ms)
  BY <1>1 DEF Placed
<1>5. /\ w[j] \in 1 .. Len(said) /\ said[w[j]] = ms[j].content
      /\ w[k] \in 1 .. Len(said) /\ said[w[k]] = ms[k].content
      /\ w[j] < w[k]
  BY <1>1, <1>3, <1>4 DEF Placed
<1>6. DOMAIN ms = 1 .. Len(ms) /\ \A i \in 1 .. Len(ms) : /\ ms[i].content \in Seq(Tokens) /\ Len(ms[i].content) \in Nat
                                                         /\ DOMAIN ms[i].content = 1 .. Len(ms[i].content)
  <2>1. ASSUME NEW m \in Messages
        PROVE  m.content \in Seq(Tokens) /\ Len(m.content) \in Nat /\ DOMAIN m.content = 1 .. Len(m.content)
    <3>1. m.content \in Seq(Tokens)
      BY DEF Messages
    <3>. QED BY <3>1
  <2>2. DOMAIN ms = 1 .. Len(ms) /\ \A i \in 1 .. Len(ms) : ms[i] \in Messages
    OBVIOUS
  <2>. QED BY <2>1, <2>2
<1>7. 1 \in 1 .. Len(ms[j].content) /\ 1 \in 1 .. Len(ms[k].content)
  <2>1. ms[j].content # <<>> /\ ms[k].content # <<>> /\ ms[j].content \in Seq(Tokens) /\ ms[k].content \in Seq(Tokens)
    BY <1>6 DEF Telling
  <2>2. Len(ms[j].content) \in Nat \ {0} /\ Len(ms[k].content) \in Nat \ {0}
    BY <2>1, EmptySeq
  <2>. QED BY <2>2
<1>. DEFINE x == ms[j].content[1]  y == ms[k].content[1]
<1>15. ASSUME NEW e \in 1 .. Len(said)
       PROVE  /\ st[e] \in Nat /\ st[e] + Len(said[e]) <= Len(s)
              /\ \A o \in 1 .. Len(said[e]) : s[st[e] + o] = said[e][o]
              /\ \A f \in 1 .. Len(said) : e < f => st[e] + Len(said[e]) <= st[f]
  BY <1>2 DEF Shows
<1>16. s \in Seq(AnyTokens) /\ Len(s) \in Nat
  <2>1. s \in Seq(AnyTokens)
    BY <1>2 DEF Shows
  <2>. QED BY <2>1
<1>8. /\ s \in Seq(AnyTokens) /\ Len(s) \in Nat /\ st[w[j]] \in Nat /\ st[w[k]] \in Nat
      /\ st[w[j]] + Len(ms[j].content) <= Len(s) /\ st[w[k]] + Len(ms[k].content) <= Len(s)
      /\ s[st[w[j]] + 1] = x /\ s[st[w[k]] + 1] = y
      /\ st[w[j]] + Len(ms[j].content) <= st[w[k]]
  BY <1>5, <1>7, <1>15, <1>16, ZenonT(30)
<1>9. st[w[j]] + 1 \in 1 .. Len(s) /\ st[w[k]] + 1 \in 1 .. Len(s) /\ st[w[j]] + 1 <= st[w[k]]
  <2>. DEFINE a == st[w[j]]  b == st[w[k]]  e == Len(ms[j].content)  f == Len(ms[k].content)  z == Len(s)
  <2>1. a \in Nat /\ b \in Nat /\ e \in Nat /\ f \in Nat /\ z \in Nat /\ a + e <= z /\ b + f <= z /\ a + e <= b /\ e >= 1 /\ f >= 1
    <3>1. e \in Nat /\ f \in Nat /\ e >= 1 /\ f >= 1
      <4>1. e \in Nat /\ f \in Nat
        BY <1>6
      <4>. HIDE DEF e, f
      <4>2. 1 \in 1 .. e /\ 1 \in 1 .. f
        BY <1>7 DEF e, f
      <4>. QED BY <4>1, <4>2
    <3>. QED BY <3>1, <1>8
  <2>. HIDE DEF a, b, e, f, z
  <2>2. a + 1 \in 1 .. z /\ b + 1 \in 1 .. z /\ a + 1 <= b
    BY <2>1
  <2>. QED BY <2>2 DEF a, b, z
<1>10. FirstOf(s, x) \in 1 .. Len(s) /\ FirstOf(s, x) <= st[w[j]] + 1
  BY <1>8, <1>9, FirstOfIs
<1>11. FirstOf(s, y) \in 1 .. Len(s) /\ s[FirstOf(s, y)] = y
  BY <1>8, <1>9, FirstOfIs
<1>12. st[w[k]] + 1 <= FirstOf(s, y)
  <2>. DEFINE p == FirstOf(s, y)
  <2>1. p \in 1 .. Len(s) /\ s[p].tok \notin Special
    BY <1>6, <1>7, <1>11 DEF Wordy
  <2>. HIDE DEF p
  <2>2. PICK b \in 1 .. Len(said) : \E o \in 1 .. Len(said[b]) : p = st[b] + o
    BY <2>1, <1>2 DEF Shows
  <2>3. PICK o \in 1 .. Len(said[b]) : p = st[b] + o
    BY <2>2
  <2>4. PICK i \in D : w[i] = b
    BY <1>1 DEF Placed
  <2>5. i \in 1 .. Len(ms) /\ said[b] = ms[i].content
    BY <2>4, <1>1, <1>4 DEF Placed
  <2>6. s[p] = ms[i].content[o] /\ o \in 1 .. Len(ms[i].content)
    BY <2>3, <2>5, <1>2 DEF Shows
  <2>7. i = k
    <3>1. s[p] \in ToSet(ms[i].content)
      BY <2>5, <2>6, <1>6 DEF ToSet
    <3>2. s[p] = y
      BY <1>11 DEF p
    <3>. QED BY <3>1, <3>2, <2>5, <1>6 DEF Telling
  <2>8. p = st[w[k]] + o
    BY <2>3, <2>4, <2>7
  <2>9. o \in Nat /\ o >= 1
    BY <2>6
  <2>. QED BY <2>8, <2>9, <1>8 DEF p
<1>. DEFINE u == FirstOf(s, x)  v == FirstOf(s, y)  l == st[w[j]]  m == st[w[k]]
<1>13. u \in Int /\ v \in Int /\ l \in Int /\ m \in Int /\ u <= l + 1 /\ l + 1 <= m /\ m + 1 <= v
  <2>1. u \in 1 .. Len(s) /\ u <= l + 1
    BY <1>10
  <2>2. v \in 1 .. Len(s) /\ m + 1 <= v
    BY <1>11, <1>12
  <2>3. l \in Nat /\ m \in Nat /\ l + 1 <= m
    BY <1>8, <1>9
  <2>4. Len(s) \in Nat
    BY <1>8
  <2>. HIDE DEF u, v, l, m
  <2>. QED BY <2>1, <2>2, <2>3, <2>4
<1>. HIDE DEF u, v, l, m
<1>14. u < v
  BY <1>13
<1>. QED BY <1>14 DEF u, v, s

-----------------------------------------------------------------------------
(* A chat behind its context.                                              *)

\* Two lists of parts, one behind the other.
LEMMA FlattenConcat ==
  ASSUME NEW S, NEW a \in Seq(Seq(S)), NEW b \in Seq(Seq(S))
  PROVE  FlattenSeq(a \o b) = FlattenSeq(a) \o FlattenSeq(b)
<1>. DEFINE c == a \o b  n == Len(a)  m == Len(b)
<1>1. /\ c \in Seq(Seq(S)) /\ Len(c) = n + m /\ n \in Nat /\ m \in Nat
      /\ (\A i \in 1 .. n : c[i] = a[i]) /\ (\A i \in 1 .. m : c[n + i] = b[i])
      /\ \A i \in 1 .. n + m : i \in 1 .. n \/ \E k \in 1 .. m : i = n + k
  BY ConcatParts
<1>. DEFINE fa == FlattenSeq(a)  fb == FlattenSeq(b)  fc == FlattenSeq(c)
<1>2. fa \in Seq(S) /\ fb \in Seq(S) /\ fc \in Seq(S)
  <2>. HIDE DEF c
  <2>. QED BY <1>1, FlattenIsSeq
<1>3. /\ Len(fa) = Ends(a, n) /\ \A i \in 0 .. n : Ends(a, i) \in Nat
      /\ \A i \in 1 .. n : Ends(a, i) = Ends(a, i - 1) + Len(a[i])
      /\ \A i \in 1 .. n : \A q \in 1 .. Len(a[i]) : fa[Ends(a, i - 1) + q] = a[i][q]
  BY FlattenPlaces
<1>4. /\ Len(fb) = Ends(b, m) /\ \A i \in 0 .. m : Ends(b, i) \in Nat
      /\ \A i \in 1 .. m : Ends(b, i) = Ends(b, i - 1) + Len(b[i])
      /\ \A i \in 1 .. m : \A q \in 1 .. Len(b[i]) : fb[Ends(b, i - 1) + q] = b[i][q]
      /\ Ends(b, 0) = 0
  BY FlattenPlaces
<1>. HIDE DEF c
<1>5. /\ Len(fc) = Ends(c, n + m) /\ \A i \in 0 .. n + m : Ends(c, i) \in Nat
      /\ \A i \in 1 .. n + m : Ends(c, i) = Ends(c, i - 1) + Len(c[i])
      /\ \A i \in 1 .. n + m : \A q \in 1 .. Len(c[i]) : fc[Ends(c, i - 1) + q] = c[i][q]
  <2>1. c \in Seq(Seq(S)) /\ Len(c) = n + m
    BY <1>1
  <2>2. /\ Len(fc) = Ends(c, Len(c)) /\ \A i \in 0 .. Len(c) : Ends(c, i) \in Nat
        /\ \A i \in 1 .. Len(c) : Ends(c, i) = Ends(c, i - 1) + Len(c[i])
        /\ \A i \in 1 .. Len(c) : \A q \in 1 .. Len(c[i]) : fc[Ends(c, i - 1) + q] = c[i][q]
    BY <2>1, FlattenPlaces
  <2>. HIDE DEF fc, n, m
  <2>. QED BY <2>1, <2>2
<1>6. ASSUME NEW k \in 0 .. n PROVE Ends(c, k) = Ends(a, k)
  <2>0. \A i \in 1 .. k : i \in 1 .. n
    BY <1>1
  <2>2. \A i \in 1 .. k : c[i] = a[i]
    BY <2>0, <1>1
  <2>3. k \in Nat /\ k <= Len(c) /\ k <= Len(a)
    BY <1>1
  <2>1. k \in Nat /\ k <= Len(c) /\ k <= Len(a) /\ \A i \in 1 .. k : Len(c[i]) = Len(a[i])
    BY <2>2, <2>3
  <2>. HIDE DEF n
  <2>. QED BY <2>1, <1>1, EndsAlike
<1>7. \A k \in 0 .. m : Ends(c, n + k) = Ends(a, n) + Ends(b, k)
  <2>. DEFINE T == {k \in 0 .. m : Ends(c, n + k) = Ends(a, n) + Ends(b, k)}
  <2>1. 0 \in T
    <3>1. n \in 0 .. n /\ n + 0 = n /\ 0 \in 0 .. m
      BY <1>1
    <3>2. Ends(a, n) + 0 = Ends(a, n)
      BY <3>1, <1>3
    <3>. QED BY <3>1, <3>2, <1>4, <1>6
  <2>2. ASSUME NEW k \in 0 .. m - 1, k \in T PROVE k + 1 \in T
    <3>1. /\ k + 1 \in 1 .. m /\ k + 1 \in 0 .. m /\ (k + 1) - 1 = k /\ n + k + 1 \in 1 .. n + m /\ (n + k + 1) - 1 = n + k
          /\ n + (k + 1) = n + k + 1 /\ k \in 0 .. m
      BY <1>1
    <3>2. Ends(c, n + k + 1) = Ends(c, n + k) + Len(c[n + k + 1])
      BY <3>1, <1>5
    <3>3. Ends(b, k + 1) = Ends(b, k) + Len(b[k + 1])
      BY <3>1, <1>4
    <3>4. c[n + k + 1] = b[k + 1]
      BY <3>1, <1>1
    <3>5. Ends(a, n) \in Nat /\ Ends(b, k) \in Nat /\ Len(b[k + 1]) \in Nat
      <4>1. n \in 0 .. n
        BY <1>1
      <4>2. b[k + 1] \in Seq(S)
        BY <3>1
      <4>3. Ends(a, n) \in Nat
        BY <4>1, <1>3
      <4>4. Ends(b, k) \in Nat
        BY <3>1, <1>4
      <4>5. Len(b[k + 1]) \in Nat
        BY <4>2
      <4>. QED BY <4>3, <4>4, <4>5
    <3>. DEFINE e == Ends(a, n)  f == Ends(b, k)  l == Len(b[k + 1])
    <3>6. Ends(c, n + k + 1) = (e + f) + l /\ Ends(b, k + 1) = f + l
      BY <3>2, <3>3, <3>4, <2>2
    <3>. HIDE DEF f, l
    <3>7. (e + f) + l = e + (f + l)
      BY <3>5 DEF f, l
    <3>. QED BY <3>1, <3>6, <3>7
  <2>. HIDE DEF T
  <2>3. 0 .. m \subseteq T
    BY <1>1, <2>1, <2>2, InductionTo
  <2>. QED BY <2>3 DEF T
<1>. DEFINE g == fa \o fb
<1>8. /\ g \in Seq(S) /\ Len(g) = Len(fa) + Len(fb) /\ Len(fa) \in Nat /\ Len(fb) \in Nat
      /\ (\A i \in 1 .. Len(fa) : g[i] = fa[i]) /\ (\A i \in 1 .. Len(fb) : g[Len(fa) + i] = fb[i])
  <2>. HIDE DEF fa, fb
  <2>. QED BY <1>2, ConcatParts
<1>. DEFINE R == Seq(S)
<1>. HIDE DEF g, fa, fb, fc
<1>9. Len(fc) = Len(g)
  <2>1. m \in 0 .. m
    BY <1>1
  <2>. QED BY <2>1, <1>3, <1>4, <1>5, <1>7, <1>8
<1>10. ASSUME NEW p \in 1 .. Len(fc) PROVE fc[p] = g[p]
  <2>1. PICK i \in 1 .. Len(c) : \E q \in 1 .. Len(c[i]) : p = Ends(c, i - 1) + q
    <3>1. c \in Seq(Seq(S)) /\ p \in 1 .. Len(FlattenSeq(c))
      BY <1>1 DEF fc
    <3>. QED BY <3>1, PlaceOfPart
  <2>2. PICK q \in 1 .. Len(c[i]) : p = Ends(c, i - 1) + q
    BY <2>1
  <2>3. fc[p] = c[i][q] /\ i \in 1 .. n + m
    BY <2>2, <1>1, <1>5
  <2>4. CASE i \in 1 .. n
    <3>1. i - 1 \in 0 .. n /\ c[i] = a[i]
      BY <2>4, <1>1
    <3>2. p = Ends(a, i - 1) + q /\ q \in 1 .. Len(a[i])
      BY <3>1, <2>2, <1>6
    <3>3. fa[p] = a[i][q]
      BY <2>4, <3>2, <1>3
    <3>4. p \in 1 .. Len(fa)
      BY <2>4, <3>2, PlacesInOrder DEF fa
    <3>. QED BY <2>3, <3>1, <3>3, <3>4, <1>8
  <2>5. CASE \E k \in 1 .. m : i = n + k
    <3>1. PICK k \in 1 .. m : i = n + k
      BY <2>5
    <3>2. i - 1 = n + (k - 1) /\ k - 1 \in 0 .. m /\ c[i] = b[k]
      BY <3>1, <1>1
    <3>3. q \in 1 .. Len(b[k]) /\ Ends(c, i - 1) = Ends(a, n) + Ends(b, k - 1)
      BY <3>2, <2>2, <1>7
    <3>. DEFINE z == Ends(b, k - 1) + q
    <3>4. z \in 1 .. Len(fb)
      BY <3>3, PlacesInOrder DEF fb
    <3>5. fb[z] = b[k][q]
      BY <3>3, <1>4
    <3>6. p = Len(fa) + z
      <4>. DEFINE e == Ends(a, n)  f == Ends(b, k - 1)
      <4>1. e \in Nat /\ f \in Nat /\ q \in Int /\ p = (e + f) + q
        <5>1. n \in 0 .. n
          BY <1>1
        <5>2. e \in Nat /\ f \in Nat /\ q \in Int
          <6>1. e \in Nat
            BY <5>1, <1>3
          <6>2. f \in Nat
            BY <3>2, <1>4
          <6>3. q \in Int
            BY <3>3
          <6>. QED BY <6>1, <6>2, <6>3
        <5>3. p = Ends(c, i - 1) + q /\ Ends(c, i - 1) = e + f
          BY <2>2, <3>3
        <5>. QED BY <5>2, <5>3
      <4>. HIDE DEF e, f
      <4>2. p = e + (f + q)
        BY <4>1
      <4>. QED BY <4>2, <1>3 DEF e, f
    <3>. HIDE DEF z
    <3>. QED BY <2>3, <3>2, <3>4, <3>5, <3>6, <1>8
  <2>. QED BY <2>3, <2>4, <2>5, <1>1
<1>11. fc = g
  BY <1>2, <1>8, <1>9, <1>10, SeqEqual
<1>. QED BY <1>11 DEF fa, fb, fc, g, c

\* What comes last is a suffix.
LEMMA SuffixOf ==
  ASSUME NEW S, NEW a \in Seq(S), NEW s \in Seq(S)
  PROVE  IsSuffix(s, a \o s)
<1>. DEFINE t == a \o s  rs == Reverse(s)  rt == Reverse(t)
<1>1. /\ t \in Seq(S) /\ Len(t) = Len(a) + Len(s) /\ Len(a) \in Nat /\ Len(s) \in Nat
      /\ \A i \in 1 .. Len(s) : t[Len(a) + i] = s[i]
  BY ConcatParts
<1>. HIDE DEF t
<1>2. /\ rs = [i \in 1 .. Len(s) |-> rs[i]] /\ \A i \in 1 .. Len(s) : rs[i] = s[(Len(s) - i) + 1]
      /\ rt = [i \in 1 .. Len(t) |-> rt[i]] /\ \A i \in 1 .. Len(t) : rt[i] = t[(Len(t) - i) + 1]
  BY DEF Reverse
<1>. HIDE DEF rs, rt
<1>3. \A i \in 1 .. Len(s) : rs[i] \in S
  <2>1. \A i \in 1 .. Len(s) : (Len(s) - i) + 1 \in 1 .. Len(s)
    BY <1>1
  <2>. QED BY <2>1, <1>2
<1>4. \A i \in 1 .. Len(t) : rt[i] \in S
  <2>1. \A i \in 1 .. Len(t) : (Len(t) - i) + 1 \in 1 .. Len(t)
    BY <1>1
  <2>. QED BY <2>1, <1>1, <1>2
<1>5. rs \in Seq(S) /\ Len(rs) = Len(s) /\ rt \in Seq(S) /\ Len(rt) = Len(t)
  <2>1. Len(s) \in Int /\ Len(t) \in Int /\ ~(Len(s) < 0) /\ ~(Len(t) < 0)
    BY <1>1
  <2>2. rs \in Seq(S) /\ Len(rs) = IF Len(s) < 0 THEN 0 ELSE Len(s)
    BY <2>1, <1>2, <1>3, ListIs
  <2>3. rt \in Seq(S) /\ Len(rt) = IF Len(t) < 0 THEN 0 ELSE Len(t)
    BY <2>1, <1>2, <1>4, ListIs
  <2>. QED BY <2>1, <2>2, <2>3
<1>6. \A i \in 1 .. Len(s) : rs[i] = rt[i]
  <2>. SUFFICES ASSUME NEW i \in 1 .. Len(s) PROVE rs[i] = rt[i]
    OBVIOUS
  <2>1. i \in 1 .. Len(t) /\ (Len(s) - i) + 1 \in 1 .. Len(s) /\ (Len(t) - i) + 1 = Len(a) + ((Len(s) - i) + 1)
    BY <1>1
  <2>2. t[(Len(t) - i) + 1] = s[(Len(s) - i) + 1]
    BY <2>1, <1>1
  <2>. QED BY <2>1, <2>2, <1>2
<1>7. SubSeq(rs, 1, Len(rs)) = SubSeq(rt, 1, Len(rs)) /\ Len(rs) <= Len(rt)
  <2>. DEFINE u == SubSeq(rs, 1, Len(rs))  v == SubSeq(rt, 1, Len(rs))
  <2>1. Len(rs) <= Len(rt) /\ Len(rs) \in Nat /\ Len(rt) \in Nat
    BY <1>1, <1>5
  <2>2. u \in Seq(S) /\ Len(u) = Len(rs) /\ \A i \in 1 .. Len(rs) : u[i] = rs[i]
    BY <2>1, <1>5
  <2>3. v \in Seq(S) /\ Len(v) = Len(rs) /\ \A i \in 1 .. Len(rs) : v[i] = rt[i]
    BY <2>1, <1>5
  <2>. HIDE DEF u, v
  <2>4. \A i \in 1 .. Len(u) : u[i] = v[i]
    BY <2>2, <2>3, <1>5, <1>6
  <2>5. u = v
    BY <2>2, <2>3, <2>4, SeqEqual
  <2>. QED BY <2>1, <2>5 DEF u, v
<1>8. IsPrefix(rs, rt)
  BY <1>7 DEF IsPrefix
<1>. QED BY <1>8 DEF IsSuffix, rs, rt, t

\* Unless it is joined with what follows, a prompt behind a context ends the prompt of both.
LEMMA PromptIsSuffix ==
  ASSUME NEW ctx \in Seq(Messages), NEW ms \in Seq(Messages), NEW mode, NEW drop, Answered(ctx), ctx # <<>>, ms # <<>>,
         ~(Asks(ctx[Len(ctx)]) /\ Asks(ms[1]))
  PROVE  IsSuffix(EncodeMessages(ctx, ms, mode, drop), EncodeMessages(<<>>, ctx \o ms, mode, drop))
<1>. DEFINE whole == ctx \o ms  all == AllMessages(ctx, ms)  d == EffectiveDrop(all, drop)
            full == FullMessages(ctx, ms, mode, drop)  first == ContextLen(ctx, ms, mode, drop)
            ss == Rendered(ctx, ms, mode, drop)  tt == Rendered(<<>>, whole, mode, drop)
            n == Len(full)
<1>1. AllMessages(<<>>, whole) = all
  BY WholeAgrees
<1>2. FullMessages(<<>>, whole, mode, drop) = full
  BY <1>1 DEF FullMessages
<1>3. ContextLen(<<>>, whole, mode, drop) = 0
  <2>1. Encoded(<<>>) = <<>>
    BY NothingEncoded
  <2>2. DropThinkingMessages(<<>>) = <<>>
    <3>1. <<>> \in Seq(Merged) /\ Len(<<>>) = 0
      OBVIOUS
    <3>2. DropThinkingMessages(<<>>) = FlattenSeq(DropParts(<<>>)) /\ Len(DropParts(<<>>)) = 0
          /\ DropParts(<<>>) \in Seq(Seq(Merged))
      BY <3>1, DropIs
    <3>3. DropParts(<<>>) = <<>>
      BY <3>2
    <3>. QED BY <3>2, <3>3 DEF FlattenSeq
  <2>. DEFINE e == EffectiveDrop(AllMessages(<<>>, whole), drop)
  <2>3. ContextLen(<<>>, whole, mode, drop) = Len(Dropped(<<>>, mode, e))
    BY <2>1 DEF ContextLen
  <2>. HIDE DEF e
  <2>4. Dropped(<<>>, mode, e) = <<>>
    BY <2>2 DEF Dropped
  <2>. QED BY <2>3, <2>4
<1>4. whole \in Seq(Messages) /\ whole # <<>>
  <2>1. whole \in Seq(Messages) /\ Len(whole) = Len(ctx) + Len(ms) /\ Len(ctx) \in Nat /\ Len(ms) \in Nat
    BY ConcatParts
  <2>2. Len(ctx) # 0
    OBVIOUS
  <2>. QED BY <2>1, <2>2
<1>5. full \in Seq(Merged) /\ n \in Nat /\ first \in 0 .. n
  <2>1. PICK kept : Thinned(full, first, all, Len(Encoded(ctx)), kept)
    BY FullIsThinned
  <2>. HIDE DEF full, first, all
  <2>2. full \in Seq(Merged) /\ first \in 0 .. n
    BY <2>1 DEF Thinned
  <2>. QED BY <2>2
<1>6. /\ ss \in Seq(Seq(AnyTokens)) /\ 1 .. Len(ss) = 1 .. n - first
      /\ \A k \in 1 .. Len(ss) : ss[k] = RenderMessage(first + k, full, mode, d)
      /\ EncodeMessages(ctx, ms, mode, drop) = <<>> \o FlattenSeq(ss)
  <2>1. /\ ss \in Seq(Seq(AnyTokens)) /\ 1 .. Len(ss) = 1 .. n - first
        /\ \A k \in 1 .. Len(ss) : ss[k] = RenderMessage(first + k, full, mode, d)
        /\ EncodeMessages(ctx, ms, mode, drop) = (IF ctx = <<>> THEN <<Tok("bos")>> ELSE <<>>) \o FlattenSeq(ss)
    BY PromptShows
  <2>. HIDE DEF ss, full, first, d
  <2>2. (IF ctx = <<>> THEN <<Tok("bos")>> ELSE <<>>) = <<>>
    OBVIOUS
  <2>. QED BY <2>1, <2>2
<1>7. /\ tt \in Seq(Seq(AnyTokens)) /\ 1 .. Len(tt) = 1 .. n
      /\ \A k \in 1 .. Len(tt) : tt[k] = RenderMessage(k, full, mode, d)
      /\ EncodeMessages(<<>>, whole, mode, drop) = <<Tok("bos")>> \o FlattenSeq(tt)
  <2>. DEFINE z == <<>>
  <2>1. /\ tt \in Seq(Seq(AnyTokens))
        /\ 1 .. Len(tt) = 1 .. Len(FullMessages(z, whole, mode, drop)) - ContextLen(z, whole, mode, drop)
        /\ \A k \in 1 .. Len(tt) :
             tt[k] = RenderMessage(ContextLen(z, whole, mode, drop) + k, FullMessages(z, whole, mode, drop), mode,
                                   EffectiveDrop(AllMessages(z, whole), drop))
        /\ EncodeMessages(z, whole, mode, drop) = (IF z = <<>> THEN <<Tok("bos")>> ELSE <<>>) \o FlattenSeq(tt)
    <3>1. z \in Seq(Messages)
      OBVIOUS
    <3>2. tt = Rendered(z, whole, mode, drop)
      OBVIOUS
    <3>. HIDE DEF whole, z, tt
    <3>. DEFINE rr == Rendered(z, whole, mode, drop)
    <3>3. /\ rr \in Seq(Seq(AnyTokens))
          /\ 1 .. Len(rr) = 1 .. Len(FullMessages(z, whole, mode, drop)) - ContextLen(z, whole, mode, drop)
          /\ \A k \in 1 .. Len(rr) :
               rr[k] = RenderMessage(ContextLen(z, whole, mode, drop) + k, FullMessages(z, whole, mode, drop), mode,
                                     EffectiveDrop(AllMessages(z, whole), drop))
          /\ EncodeMessages(z, whole, mode, drop) = (IF z = <<>> THEN <<Tok("bos")>> ELSE <<>>) \o FlattenSeq(rr)
      BY <3>1, <1>4, PromptShows, SMTT(30)
    <3>. QED BY <3>2, <3>3
  <2>. HIDE DEF full, first, all, whole, tt
  <2>2. n - 0 = n /\ \A k \in 1 .. Len(tt) : 0 + k = k
    BY <1>5
  <2>. QED BY <2>1, <2>2, <1>1, <1>2, <1>3
<1>. HIDE DEF full, first, all, whole, tt, ss, d
<1>8. Len(ss) = n - first /\ Len(tt) = n
  <2>1. Len(ss) \in Nat /\ Len(tt) \in Nat
    BY <1>6, <1>7
  <2>. HIDE DEF n
  <2>2. n - first \in Nat
    BY <1>5
  <2>3. \A a, b \in Nat : 1 .. a = 1 .. b => a = b
    <3>. SUFFICES ASSUME NEW a \in Nat, NEW b \in Nat, 1 .. a = 1 .. b PROVE a = b
      OBVIOUS
    <3>1. \A x : x \in 1 .. a <=> x \in 1 .. b
      OBVIOUS
    <3>2. a > b => a \in 1 .. a /\ a \notin 1 .. b
      OBVIOUS
    <3>3. b > a => b \in 1 .. b /\ b \notin 1 .. a
      OBVIOUS
    <3>. QED BY <3>1, <3>2, <3>3
  <2>. QED BY <2>1, <2>2, <2>3, <1>5, <1>6, <1>7
<1>. DEFINE hd == SubSeq(tt, 1, first)  P == Seq(AnyTokens)
<1>9. hd \in Seq(P) /\ Len(hd) = first /\ \A k \in 1 .. first : hd[k] = tt[k]
  <2>1. tt \in Seq(P) /\ first \in Nat /\ first <= Len(tt)
    BY <1>5, <1>7, <1>8
  <2>. HIDE DEF P
  <2>. QED BY <2>1
<1>. HIDE DEF hd
<1>10. tt = hd \o ss
  <2>. DEFINE c == hd \o ss
  <2>1. /\ c \in Seq(P) /\ Len(c) = Len(hd) + Len(ss)
        /\ (\A i \in 1 .. Len(hd) : c[i] = hd[i]) /\ (\A i \in 1 .. Len(ss) : c[Len(hd) + i] = ss[i])
        /\ \A i \in 1 .. Len(hd) + Len(ss) : i \in 1 .. Len(hd) \/ \E k \in 1 .. Len(ss) : i = Len(hd) + k
    <3>1. ss \in Seq(P) /\ hd \in Seq(P)
      BY <1>6, <1>9
    <3>. HIDE DEF P
    <3>2. /\ hd \o ss \in Seq(P) /\ Len(hd \o ss) = Len(hd) + Len(ss)
          /\ \A i \in 1 .. Len(hd) : (hd \o ss)[i] = hd[i]
          /\ \A i \in 1 .. Len(ss) : (hd \o ss)[Len(hd) + i] = ss[i]
          /\ \A i \in 1 .. Len(hd) + Len(ss) : i \in 1 .. Len(hd) \/ \E k \in 1 .. Len(ss) : i = Len(hd) + k
      BY <3>1, ConcatParts
    <3>. QED BY <3>2
  <2>. HIDE DEF c, n, P
  <2>2. Len(c) = n /\ Len(tt) = n
    BY <2>1, <1>5, <1>8, <1>9
  <2>3. ASSUME NEW i \in 1 .. Len(c) PROVE c[i] = tt[i]
    <3>1. CASE i \in 1 .. Len(hd)
      BY <3>1, <2>1, <1>9
    <3>2. CASE \E k \in 1 .. Len(ss) : i = Len(hd) + k
      <4>1. PICK k \in 1 .. Len(ss) : i = Len(hd) + k
        BY <3>2
      <4>2. c[i] = ss[k] /\ i = first + k
        BY <4>1, <2>1, <1>9
      <4>3. i \in 1 .. Len(tt)
        BY <2>2
      <4>. QED BY <4>2, <4>3, <1>6, <1>7
    <3>. QED BY <3>1, <3>2, <2>1
  <2>4. tt \in Seq(P)
    BY <1>7 DEF P
  <2>5. c = tt
    BY <2>1, <2>2, <2>3, <2>4, SeqEqual
  <2>. QED BY <2>5 DEF c
<1>11. FlattenSeq(tt) = FlattenSeq(hd) \o FlattenSeq(ss)
  BY <1>6, <1>9, <1>10, FlattenConcat
<1>. DEFINE x == <<Tok("bos")>>  u == FlattenSeq(hd)  v == FlattenSeq(ss)
<1>12. x \in Seq(AnyTokens) /\ u \in Seq(AnyTokens) /\ v \in Seq(AnyTokens)
  <2>1. "bos" \in Special
    BY DEF Special
  <2>2. AllSpecial(x)
    BY <2>1, SpecialIsToken
  <2>. QED BY <2>2, <1>6, <1>9, FlattenIsSeq DEF AllSpecial
<1>. HIDE DEF x, u, v
<1>13. x \o (u \o v) = (x \o u) \o v /\ x \o u \in Seq(AnyTokens)
  <2>1. x \o (u \o v) = (x \o u) \o v
    BY <1>12, ConcatAssociative, SMTT(60)
  <2>2. x \in Seq(AnyTokens) /\ u \in Seq(AnyTokens)
    BY <1>12
  <2>3. x \o u \in Seq(AnyTokens)
    BY <2>2, ConcatParts
  <2>. QED BY <2>1, <2>3
<1>14. IsSuffix(v, (x \o u) \o v)
  BY <1>12, <1>13, SuffixOf
<1>15. EncodeMessages(ctx, ms, mode, drop) = v
  <2>1. <<>> \o v = v
    BY <1>12
  <2>. QED BY <2>1, <1>6 DEF v
<1>16. EncodeMessages(<<>>, whole, mode, drop) = x \o (u \o v)
  BY <1>7, <1>11 DEF x, u, v
<1>. QED BY <1>13, <1>14, <1>15, <1>16 DEF whole

\* Whatever the messages say is in the prompt.
LEMMA WordsAreSaid ==
  ASSUME NEW ctx \in Seq(Messages), NEW ms \in Seq(Messages), NEW mode, NEW drop, Answered(ctx),
         NEW i \in 1 .. Len(ms), ms[i].role # "developer"
  PROVE  ToSet(ms[i].content) \subseteq ToSet(EncodeMessages(ctx, ms, mode, drop))
<1>. DEFINE s == EncodeMessages(ctx, ms, mode, drop)  said == FlattenSeq(Said(ctx, ms, mode, drop))
<1>1. PICK D, w : Placed(ctx, ms, said, D, w)
  BY MessagesAreSaid
<1>2. PICK st : Shows(s, said, st)
  BY PromptShows
<1>. HIDE DEF s, said
<1>3. w[i] \in 1 .. Len(said) /\ said[w[i]] = ms[i].content
  BY <1>1 DEF Placed
<1>. DEFINE e == w[i]  c == ms[i].content
<1>4. /\ st[e] \in Nat /\ st[e] + Len(said[e]) <= Len(s)
      /\ \A o \in 1 .. Len(said[e]) : s[st[e] + o] = said[e][o]
  BY <1>2, <1>3 DEF Shows
<1>5. s \in Seq(AnyTokens) /\ said[e] \in Seq(AnyTokens)
  BY <1>2, <1>3 DEF Shows
<1>6. said[e] = c
  BY <1>3
<1>. HIDE DEF e, c
<1>7. Len(c) \in Nat /\ Len(s) \in Nat /\ DOMAIN c = 1 .. Len(c) /\ DOMAIN s = 1 .. Len(s)
  BY <1>5, <1>6
<1>8. ASSUME NEW o \in 1 .. Len(c) PROVE c[o] \in ToSet(s)
  <2>1. s[st[e] + o] = c[o]
    BY <1>4, <1>6
  <2>2. st[e] + o \in 1 .. Len(s)
    BY <1>4, <1>6, <1>7
  <2>. QED BY <2>1, <2>2, <1>7 DEF ToSet
<1>9. ToSet(c) \subseteq ToSet(s)
  BY <1>7, <1>8 DEF ToSet
<1>. QED BY <1>9 DEF c, s

-----------------------------------------------------------------------------
(* The images of a chat.                                                   *)

\* The images a message shows, and the place of its call; what ImagesComeInOrder says.
ShownBy(msg) == {k \in DOMAIN msg.content : msg.content[k].tok = "img"}
CallOf(ctx, ms, i) == CallOrder(LastCalls(ctx \o ms, Len(ctx) + i), ms[i].id)
ImagesOrdered(ctx, ms) ==
  \A i, j \in DOMAIN ms :
    /\ \A k \in ShownBy(ms[i]), l \in ShownBy(ms[j]) : i < j \/ (i = j /\ k < l) => ms[i].content[k].of < ms[j].content[l].of
    /\ /\ i < j /\ ms[i].role = "tool" /\ ms[j].role = "tool"
       /\ \A k \in i .. j : ms[k].role \in {"user", "tool"}
       /\ \E k \in i .. j : ShownBy(ms[k]) # {}
       => CallOf(ctx, ms, i) <= CallOf(ctx, ms, j)

\* Messages of one spot are in the order of their blocks.
LEMMA BlocksGrow ==
  ASSUME NEW ms \in Seq(Messages), NEW i \in 1 .. Len(ms), NEW j \in 1 .. Len(ms), Spot(ms, i) = Spot(ms, j), Asks(ms[i])
  PROVE  /\ BlockOf(ms, i) < BlockOf(ms, j) => i < j
         /\ BlockOf(ms, i) <= BlockOf(ms, j) => i <= j
         /\ i < j => BlockOf(ms, i) < BlockOf(ms, j) /\ \A k \in i .. j : Asks(ms[k])
<1>1. BlockOf(ms, i) \in Nat /\ Spot(ms, i) \in Nat
  BY MergedAre
<1>2. i <= j => BlockOf(ms, j) = BlockOf(ms, i) + (j - i) /\ (i < j => \A k \in i .. j : Asks(ms[k]))
  <2>1. SUFFICES ASSUME i <= j PROVE BlockOf(ms, j) = BlockOf(ms, i) + (j - i) /\ (i < j => \A k \in i .. j : Asks(ms[k]))
    OBVIOUS
  <2>2. j \in i .. Len(ms)
    BY <2>1
  <2>3. \/ Spot(ms, i) < Spot(ms, j)
        \/ /\ Spot(ms, i) = Spot(ms, j) /\ BlockOf(ms, j) = BlockOf(ms, i) + (j - i)
           /\ i < j => \A k \in i .. j : Asks(ms[k])
    BY <2>2, SpotsGrow
  <2>. QED BY <2>3, <1>1
<1>3. j <= i => BlockOf(ms, i) = BlockOf(ms, j) + (i - j)
  <2>1. SUFFICES ASSUME j <= i PROVE BlockOf(ms, i) = BlockOf(ms, j) + (i - j)
    OBVIOUS
  <2>2. i \in j .. Len(ms)
    BY <2>1
  <2>3. \/ Spot(ms, j) < Spot(ms, i)
        \/ Spot(ms, j) = Spot(ms, i) /\ BlockOf(ms, i) = BlockOf(ms, j) + (i - j)
    BY <2>2, SpotsGrow
  <2>. QED BY <2>3, <1>1
<1>. DEFINE a == BlockOf(ms, i)  b == BlockOf(ms, j)
<1>4. a \in Nat /\ (i <= j => b = a + (j - i)) /\ (j <= i => a = b + (i - j)) /\ i \in Int /\ j \in Int
  BY <1>1, <1>2, <1>3
<1>5. b \in Int
  <2>1. j <= i => Asks(ms[j])
    <3>1. SUFFICES ASSUME j <= i PROVE Asks(ms[j])
      OBVIOUS
    <3>2. i \in j .. Len(ms) /\ j \in j .. i
      BY <3>1
    <3>3. \/ Spot(ms, j) < Spot(ms, i)
          \/ j < i => \A k \in j .. i : Asks(ms[k])
      BY <3>2, SpotsGrow
    <3>. QED BY <3>2, <3>3, <1>1
  <2>2. j <= i => b \in Nat
    BY <2>1, MergedAre
  <2>. HIDE DEF a, b
  <2>. QED BY <2>2, <1>4
<1>. HIDE DEF a, b
<1>6. (a < b => i < j) /\ (a <= b => i <= j) /\ (i < j => a < b)
  BY <1>4, <1>5
<1>. QED BY <1>2, <1>6 DEF a, b

\* A later message that shows images is not said before an earlier one.
LEMMA ImagesKeepTheirOrder ==
  ASSUME NEW ctx \in Seq(Messages), NEW ms \in Seq(Messages), ImagesOrdered(ctx, ms),
         NEW i \in 1 .. Len(ms), NEW j \in 1 .. Len(ms), i < j, Spot(ms, i) = Spot(ms, j),
         ShownBy(ms[i]) # {}, ShownBy(ms[j]) # {}
  PROVE  PieceAt(ctx, ms, i) < PieceAt(ctx, ms, j)
<1>. DEFINE r == MergeToolMessages(ms)  q == Spot(ms, i)  bs == r[q].blocks  a == BlockOf(ms, i)  b == BlockOf(ms, j)
            calls == LastCalls(ctx \o ms, Len(ctx) + i)
<1>1. Asks(ms[i]) /\ Asks(ms[j])
  <2>1. j \in i .. Len(ms) /\ i \in i .. j /\ j \in i .. j
    OBVIOUS
  <2>2. \/ Spot(ms, i) < Spot(ms, j)
        \/ i < j => \A k \in i .. j : Asks(ms[k])
    BY <2>1, SpotsGrow
  <2>3. Spot(ms, i) \in Nat
    BY MergedAre
  <2>. QED BY <2>1, <2>2, <2>3
<1>2. /\ q \in 1 .. Len(r) /\ r \in Seq(Merged) /\ r[q].role = "user"
      /\ \A m \in 1 .. Len(ms) : Asks(ms[m]) /\ Spot(ms, m) = q => BlockOf(ms, m) \in 1 .. Len(bs) /\ bs[BlockOf(ms, m)] = BlockFor(ms[m])
      /\ \A x \in 1 .. Len(bs) : \E m \in 1 .. Len(ms) : Asks(ms[m]) /\ Spot(ms, m) = q /\ BlockOf(ms, m) = x
  <2>1. /\ r \in Seq(Merged) /\ q \in 1 .. Len(r) /\ r[q].role = "user"
        /\ \A m \in 1 .. Len(ms) : Asks(ms[m]) => /\ BlockOf(ms, m) \in 1 .. Len(r[Spot(ms, m)].blocks)
                                                  /\ r[Spot(ms, m)].blocks[BlockOf(ms, m)] = BlockFor(ms[m])
    BY <1>1, MergedAre
  <2>2. \A x \in 1 .. Len(r) : r[x].role = "user" =>
             \A c \in 1 .. Len(r[x].blocks) : \E m \in 1 .. Len(ms) : Asks(ms[m]) /\ Spot(ms, m) = x /\ BlockOf(ms, m) = c
    BY MergedAre
  <2>. HIDE DEF r, q
  <2>. QED BY <2>1, <2>2
<1>3. bs \in Seq(Blocks)
  <2>. HIDE DEF r, q
  <2>1. r[q] \in Merged
    BY <1>2
  <2>. QED BY <2>1, PiecesAre
<1>4. calls \in Seq(Nat)
  <2>1. ctx \o ms \in Seq(Messages) /\ Len(ctx \o ms) = Len(ctx) + Len(ms) /\ Len(ctx) \in Nat /\ Len(ms) \in Nat
    BY ConcatParts
  <2>2. ctx \o ms \in Seq(AnyMessages) /\ Len(ctx) + i \in 1 .. Len(ctx \o ms) + 1
    BY <2>1, TypesMix
  <2>. QED BY <2>2, LastCallsType
<1>5. \A m \in 1 .. Len(ms) : Spot(ms, m) = q => LastCalls(ctx \o ms, Len(ctx) + m) = calls
  BY CallsAtSpot
<1>6. PieceAt(ctx, ms, i) = SortSlot(bs, calls, a) /\ PieceAt(ctx, ms, j) = SortSlot(bs, calls, b)
  BY <1>1, <1>5 DEF PieceAt
<1>7. \A m \in 1 .. Len(ms) : Spot(ms, m) = q => CallOf(ctx, ms, m) = CallOrder(calls, ms[m].id)
  BY <1>5 DEF CallOf
<1>8. Spot(ms, i) = q /\ Spot(ms, j) = q
  OBVIOUS
<1>. HIDE DEF r, q, bs, calls
<1>9. ASSUME NEW x \in ResultsIn(bs)
      PROVE  \E m \in 1 .. Len(ms) : /\ Asks(ms[m]) /\ Spot(ms, m) = q /\ BlockOf(ms, m) = x /\ ms[m].role = "tool"
                                     /\ KeyOf(bs, calls, x) = CallOf(ctx, ms, m)
  <2>1. x \in 1 .. Len(bs) /\ bs[x].result
    BY <1>3 DEF ResultsIn
  <2>2. PICK m \in 1 .. Len(ms) : Asks(ms[m]) /\ Spot(ms, m) = q /\ BlockOf(ms, m) = x
    BY <2>1, <1>2
  <2>3. bs[x] = BlockFor(ms[m])
    BY <2>2, <1>2
  <2>4. ms[m].role = "tool" /\ bs[x].id = ms[m].id
    <3>1. BlockFor(ms[m]).result = (ms[m].role = "tool") /\ BlockFor(ms[m]).id = ms[m].id
      BY DEF BlockFor
    <3>. HIDE DEF bs
    <3>. QED BY <3>1, <2>1, <2>3
  <2>5. KeyOf(bs, calls, x) = CallOf(ctx, ms, m)
    BY <2>2, <2>4, <1>7 DEF KeyOf
  <2>. QED BY <2>2, <2>4, <2>5
<1>10. DOMAIN ms = 1 .. Len(ms) /\ \A k \in 1 .. Len(ms) : Asks(ms[k]) => ms[k].role \in {"user", "tool"}
  BY DEF Asks
<1>11. ASSUME NEW x \in ResultsIn(bs), NEW y \in ResultsIn(bs), x < y, (x = a /\ y >= b) \/ (y = b /\ x <= a)
       PROVE  KeyOf(bs, calls, x) <= KeyOf(bs, calls, y)
  <2>1. PICK m \in 1 .. Len(ms) : /\ Asks(ms[m]) /\ Spot(ms, m) = q /\ BlockOf(ms, m) = x /\ ms[m].role = "tool"
                                  /\ KeyOf(bs, calls, x) = CallOf(ctx, ms, m)
    BY <1>9
  <2>2. PICK l \in 1 .. Len(ms) : /\ Asks(ms[l]) /\ Spot(ms, l) = q /\ BlockOf(ms, l) = y /\ ms[l].role = "tool"
                                  /\ KeyOf(bs, calls, y) = CallOf(ctx, ms, l)
    BY <1>9
  <2>3. m < l /\ \A k \in m .. l : Asks(ms[k])
    BY <2>1, <2>2, <1>11, BlocksGrow
  <2>4. i \in m .. l \/ j \in m .. l
    <3>1. CASE x = a /\ y >= b
      <4>1. m <= i
        <5>1. BlockOf(ms, m) <= BlockOf(ms, i)
          <6>1. BlockOf(ms, i) \in Nat
            BY <1>1, <1>2, <1>8
          <6>. QED BY <6>1, <2>1, <3>1
        <5>. QED BY <5>1, <2>1, <1>8, BlocksGrow
      <4>2. j <= l
        <5>1. BlockOf(ms, j) <= BlockOf(ms, l)
          BY <2>2, <3>1
        <5>. QED BY <5>1, <2>2, <1>1, <1>8, BlocksGrow
      <4>. QED BY <4>1, <4>2
    <3>2. CASE y = b /\ x <= a
      <4>1. m <= i
        <5>1. BlockOf(ms, m) <= BlockOf(ms, i)
          BY <2>1, <3>2
        <5>. QED BY <5>1, <2>1, <1>8, BlocksGrow
      <4>2. j <= l
        <5>1. BlockOf(ms, j) <= BlockOf(ms, l)
          <6>1. BlockOf(ms, j) \in Nat
            BY <1>1, <1>2, <1>8
          <6>. QED BY <6>1, <2>2, <3>2
        <5>. QED BY <5>1, <2>2, <1>1, <1>8, BlocksGrow
      <4>. QED BY <4>1, <4>2
    <3>. QED BY <1>11, <3>1, <3>2
  <2>5. \E k \in m .. l : ShownBy(ms[k]) # {}
    BY <2>4
  <2>6. \A k \in m .. l : ms[k].role \in {"user", "tool"}
    BY <2>3, <1>10
  <2>7. CallOf(ctx, ms, m) <= CallOf(ctx, ms, l)
    BY <2>1, <2>2, <2>3, <2>5, <2>6, <1>10 DEF ImagesOrdered
  <2>. QED BY <2>1, <2>2, <2>7
<1>12. a \in 1 .. Len(bs) /\ b \in 1 .. Len(bs) /\ a < b
  BY <1>1, <1>2, <1>8, BlocksGrow
<1>13. ResultsIn(bs) \subseteq 1 .. Len(bs)
  BY <1>3, ResultsAreSome
<1>. HIDE DEF a, b
<1>14. a \in ResultsIn(bs) => \A x \in ResultsIn(bs) : x >= b => KeyOf(bs, calls, a) <= KeyOf(bs, calls, x)
  <2>. SUFFICES ASSUME a \in ResultsIn(bs), NEW x \in ResultsIn(bs), x >= b PROVE KeyOf(bs, calls, a) <= KeyOf(bs, calls, x)
    OBVIOUS
  <2>1. a < x
    BY <1>12, <1>13
  <2>. QED BY <2>1, <1>11
<1>15. b \in ResultsIn(bs) => \A x \in ResultsIn(bs) : x <= a => KeyOf(bs, calls, x) <= KeyOf(bs, calls, b)
  <2>. SUFFICES ASSUME b \in ResultsIn(bs), NEW x \in ResultsIn(bs), x <= a PROVE KeyOf(bs, calls, x) <= KeyOf(bs, calls, b)
    OBVIOUS
  <2>1. x < b
    BY <1>12, <1>13
  <2>. QED BY <2>1, <1>11
<1>16. SortSlot(bs, calls, a) < SortSlot(bs, calls, b)
  BY <1>3, <1>4, <1>12, <1>14, <1>15, SortKeeps
<1>. QED BY <1>6, <1>16

\* The placeholders of a prompt stand for later and later images.
LEMMA PlaceholdersGrow ==
  ASSUME NEW ctx \in Seq(Messages), NEW ms \in Seq(Messages), NEW mode, NEW drop, Answered(ctx), ImagesOrdered(ctx, ms),
         NEW p \in 1 .. Len(EncodeMessages(ctx, ms, mode, drop)), NEW q \in 1 .. Len(EncodeMessages(ctx, ms, mode, drop)), p < q,
         EncodeMessages(ctx, ms, mode, drop)[p].tok = "img", EncodeMessages(ctx, ms, mode, drop)[q].tok = "img"
  PROVE  EncodeMessages(ctx, ms, mode, drop)[p].of < EncodeMessages(ctx, ms, mode, drop)[q].of
<1>. DEFINE s == EncodeMessages(ctx, ms, mode, drop)  said == FlattenSeq(Said(ctx, ms, mode, drop))
<1>1. PICK D, w : Placed(ctx, ms, said, D, w)
  BY MessagesAreSaid
<1>2. PICK st : Shows(s, said, st)
  BY PromptShows
<1>3. p \in 1 .. Len(s) /\ q \in 1 .. Len(s) /\ s[p].tok = "img" /\ s[q].tok = "img"
  OBVIOUS
<1>. HIDE DEF s, said
<1>4. ASSUME NEW z \in 1 .. Len(s), s[z].tok = "img"
      PROVE  \E i \in D : \E o \in ShownBy(ms[i]) : /\ i \in 1 .. Len(ms) /\ w[i] \in 1 .. Len(said) /\ o \in 1 .. Len(said[w[i]])
                                                    /\ z = st[w[i]] + o /\ s[z] = ms[i].content[o]
  <2>1. "img" \notin Special
    BY DEF Special, Tasks
  <2>2. PICK b \in 1 .. Len(said) : \E o \in 1 .. Len(said[b]) : z = st[b] + o
    BY <2>1, <1>2, <1>4 DEF Shows
  <2>3. PICK o \in 1 .. Len(said[b]) : z = st[b] + o
    BY <2>2
  <2>4. PICK i \in D : w[i] = b
    BY <1>1 DEF Placed
  <2>5. i \in 1 .. Len(ms) /\ said[b] = ms[i].content
    BY <2>4, <1>1 DEF Placed
  <2>6. s[z] = said[b][o]
    BY <2>3, <1>2 DEF Shows
  <2>7. said[b] \in Seq(AnyTokens)
    BY <1>2 DEF Shows
  <2>8. DOMAIN ms[i].content = 1 .. Len(said[b])
    BY <2>5, <2>7
  <2>9. o \in ShownBy(ms[i])
    BY <2>5, <2>6, <2>8, <1>4 DEF ShownBy
  <2>. QED BY <2>3, <2>4, <2>5, <2>6, <2>9
<1>5. PICK i \in D : \E o \in ShownBy(ms[i]) : /\ i \in 1 .. Len(ms) /\ w[i] \in 1 .. Len(said) /\ o \in 1 .. Len(said[w[i]])
                                               /\ p = st[w[i]] + o /\ s[p] = ms[i].content[o]
  BY <1>3, <1>4
<1>6. PICK o \in ShownBy(ms[i]) : /\ i \in 1 .. Len(ms) /\ w[i] \in 1 .. Len(said) /\ o \in 1 .. Len(said[w[i]])
                                  /\ p = st[w[i]] + o /\ s[p] = ms[i].content[o]
  BY <1>5
<1>7. PICK j \in D : \E u \in ShownBy(ms[j]) : /\ j \in 1 .. Len(ms) /\ w[j] \in 1 .. Len(said) /\ u \in 1 .. Len(said[w[j]])
                                               /\ q = st[w[j]] + u /\ s[q] = ms[j].content[u]
  BY <1>3, <1>4
<1>8. PICK u \in ShownBy(ms[j]) : /\ j \in 1 .. Len(ms) /\ w[j] \in 1 .. Len(said) /\ u \in 1 .. Len(said[w[j]])
                                  /\ q = st[w[j]] + u /\ s[q] = ms[j].content[u]
  BY <1>7
<1>9. ~(j < i)
  <2>1. SUFFICES ASSUME j < i PROVE FALSE
    OBVIOUS
  <2>2. Spot(ms, j) \in Nat /\ Spot(ms, i) \in Nat
    <3>1. i \in 1 .. Len(ms) /\ j \in 1 .. Len(ms)
      BY <1>6, <1>8
    <3>2. \A m \in 1 .. Len(ms) : Spot(ms, m) \in Nat
      BY MergedAre
    <3>. QED BY <3>1, <3>2
  <2>3. w[j] < w[i]
    <3>1. CASE Spot(ms, j) < Spot(ms, i)
      BY <3>1, <1>1 DEF Placed
    <3>2. CASE Spot(ms, j) = Spot(ms, i)
      <4>1. PieceAt(ctx, ms, j) < PieceAt(ctx, ms, i)
        BY <2>1, <3>2, <1>6, <1>8, ImagesKeepTheirOrder
      <4>. QED BY <4>1, <3>2, <1>1 DEF Placed
    <3>3. i \in j .. Len(ms)
      BY <2>1, <1>6, <1>8
    <3>4. Spot(ms, j) < Spot(ms, i) \/ Spot(ms, j) = Spot(ms, i)
      BY <3>3, <1>6, <1>8, SpotsGrow
    <3>. QED BY <3>1, <3>2, <3>4
  <2>4. st[w[j]] + Len(said[w[j]]) <= st[w[i]] /\ st[w[j]] \in Nat /\ st[w[i]] \in Nat
    BY <2>3, <1>2, <1>6, <1>8 DEF Shows
  <2>. DEFINE a == st[w[j]]  b == st[w[i]]  l == Len(said[w[j]])
  <2>5. a \in Nat /\ b \in Nat /\ a + l <= b /\ u \in 1 .. l /\ o \in Int /\ o >= 1 /\ p = b + o /\ q = a + u
    BY <2>4, <1>6, <1>8
  <2>6. l \in Nat
    <3>1. said[w[j]] \in Seq(AnyTokens)
      BY <1>2, <1>8 DEF Shows
    <3>. QED BY <3>1
  <2>. HIDE DEF a, b, l
  <2>. QED BY <2>5, <2>6
<1>10. i = j => o < u
  <2>1. SUFFICES ASSUME i = j PROVE o < u
    OBVIOUS
  <2>2. st[w[i]] \in Nat
    BY <1>2, <1>6 DEF Shows
  <2>. DEFINE a == st[w[i]]
  <2>3. p = a + o /\ q = a + u /\ a \in Nat /\ o \in Int /\ u \in Int
    BY <2>1, <2>2, <1>6, <1>8
  <2>. HIDE DEF a
  <2>. QED BY <2>3
<1>11. DOMAIN ms = 1 .. Len(ms)
  OBVIOUS
<1>12. i < j \/ (i = j /\ o < u)
  BY <1>6, <1>8, <1>9, <1>10
<1>13. ms[i].content[o].of < ms[j].content[u].of
  BY <1>6, <1>8, <1>11, <1>12 DEF ImagesOrdered
<1>. QED BY <1>6, <1>8, <1>13 DEF s

-----------------------------------------------------------------------------
(* The turns of a prompt, by the tokens that open and close them.          *)

\* The marks of a text, in their order.
MarkedAt(s, m, f) ==
  /\ s \in Seq(AnyTokens) /\ m \in Seq(TurnMarks)
  /\ \A x \in 1 .. Len(m) : f[x] \in 1 .. Len(s) /\ s[f[x]].tok = m[x]
  /\ \A x, y \in 1 .. Len(m) : x < y => f[x] < f[y]
  /\ \A p \in 1 .. Len(s) : s[p].tok \in TurnMarks => \E x \in 1 .. Len(m) : p = f[x]
Marked(s, m) == \E f : MarkedAt(s, m, f)
Unmarked(s) == s \in Seq(AnyTokens) /\ \A p \in 1 .. Len(s) : s[p].tok \notin TurnMarks

\* A text without marks has none.
LEMMA UnmarkedIs ==
  ASSUME NEW s, Unmarked(s)
  PROVE  Marked(s, <<>>)
<1>1. <<>> \in Seq(TurnMarks) /\ Len(<<>>) = 0 /\ \A x : x \notin 1 .. 0
  OBVIOUS
<1>2. MarkedAt(s, <<>>, <<>>)
  BY <1>1 DEF MarkedAt, Unmarked
<1>. QED BY <1>2 DEF Marked

\* A mark alone.
LEMMA MarkedOne ==
  ASSUME NEW t \in TurnMarks
  PROVE  Marked(<<Tok(t)>>, <<t>>)
<1>. DEFINE x == Tok(t)  s == <<x>>  m == <<t>>  f == <<1>>
<1>1. t \in Special
  BY DEF TurnMarks, Special, Tasks
<1>2. x \in AnyTokens /\ x.tok = t
  BY <1>1, SpecialIsToken DEF Tok
<1>. HIDE DEF x
<1>3. s \in Seq(AnyTokens) /\ Len(s) = 1 /\ s[1] = x /\ m \in Seq(TurnMarks) /\ Len(m) = 1 /\ m[1] = t /\ f[1] = 1
  BY <1>2
<1>. HIDE DEF s, m, f
<1>4. MarkedAt(s, m, f)
  <2>1. \A p \in 1 .. 1 : p = 1
    OBVIOUS
  <2>. QED BY <2>1, <1>2, <1>3 DEF MarkedAt
<1>. QED BY <1>4 DEF Marked, s, m, x

\* The marks of two texts, one behind the other.
LEMMA MarkedJoin ==
  ASSUME NEW a, NEW m, Marked(a, m), NEW b, NEW n, Marked(b, n)
  PROVE  Marked(a \o b, m \o n)
<1>1. PICK f : MarkedAt(a, m, f)
  BY DEF Marked
<1>2. PICK g : MarkedAt(b, n, g)
  BY DEF Marked
<1>3. a \in Seq(AnyTokens) /\ b \in Seq(AnyTokens) /\ m \in Seq(TurnMarks) /\ n \in Seq(TurnMarks)
  BY <1>1, <1>2 DEF MarkedAt
<1>. DEFINE c == a \o b  k == m \o n
            h == [x \in 1 .. Len(k) |-> IF x <= Len(m) THEN f[x] ELSE Len(a) + g[x - Len(m)]]
<1>4. /\ c \in Seq(AnyTokens) /\ Len(c) = Len(a) + Len(b) /\ Len(a) \in Nat /\ Len(b) \in Nat
      /\ (\A i \in 1 .. Len(a) : c[i] = a[i]) /\ (\A i \in 1 .. Len(b) : c[Len(a) + i] = b[i])
      /\ \A i \in 1 .. Len(a) + Len(b) : i \in 1 .. Len(a) \/ \E j \in 1 .. Len(b) : i = Len(a) + j
  BY <1>3, ConcatParts
<1>5. /\ k \in Seq(TurnMarks) /\ Len(k) = Len(m) + Len(n) /\ Len(m) \in Nat /\ Len(n) \in Nat
      /\ (\A i \in 1 .. Len(m) : k[i] = m[i]) /\ (\A i \in 1 .. Len(n) : k[Len(m) + i] = n[i])
      /\ \A i \in 1 .. Len(m) + Len(n) : i \in 1 .. Len(m) \/ \E j \in 1 .. Len(n) : i = Len(m) + j
  BY <1>3, ConcatParts
<1>. HIDE DEF c, k
<1>6. \A x \in 1 .. Len(m) : x \in 1 .. Len(k) /\ h[x] = f[x]
  BY <1>5
<1>7. \A y \in 1 .. Len(n) : Len(m) + y \in 1 .. Len(k) /\ h[Len(m) + y] = Len(a) + g[y]
  <2>. SUFFICES ASSUME NEW y \in 1 .. Len(n) PROVE Len(m) + y \in 1 .. Len(k) /\ h[Len(m) + y] = Len(a) + g[y]
    OBVIOUS
  <2>. DEFINE x == Len(m) + y
  <2>1. x \in 1 .. Len(k) /\ ~(x <= Len(m)) /\ x - Len(m) = y
    BY <1>5
  <2>. HIDE DEF x
  <2>2. h[x] = Len(a) + g[y]
    BY <2>1
  <2>. QED BY <2>1, <2>2 DEF x
<1>. HIDE DEF h
<1>8. /\ \A x \in 1 .. Len(m) : f[x] \in 1 .. Len(a) /\ a[f[x]].tok = m[x]
      /\ \A x, y \in 1 .. Len(m) : x < y => f[x] < f[y]
      /\ \A p \in 1 .. Len(a) : a[p].tok \in TurnMarks => \E x \in 1 .. Len(m) : p = f[x]
  BY <1>1 DEF MarkedAt
<1>9. /\ \A x \in 1 .. Len(n) : g[x] \in 1 .. Len(b) /\ b[g[x]].tok = n[x]
      /\ \A x, y \in 1 .. Len(n) : x < y => g[x] < g[y]
      /\ \A p \in 1 .. Len(b) : b[p].tok \in TurnMarks => \E x \in 1 .. Len(n) : p = g[x]
  BY <1>2 DEF MarkedAt
<1>10. ASSUME NEW x \in 1 .. Len(k) PROVE h[x] \in 1 .. Len(c) /\ c[h[x]].tok = k[x]
  <2>1. CASE x \in 1 .. Len(m)
    <3>1. f[x] \in 1 .. Len(a) /\ h[x] = f[x] /\ k[x] = m[x] /\ a[f[x]].tok = m[x]
      BY <2>1, <1>5, <1>6, <1>8
    <3>2. c[f[x]] = a[f[x]] /\ f[x] \in 1 .. Len(c)
      BY <3>1, <1>4
    <3>. QED BY <3>1, <3>2
  <2>2. CASE \E y \in 1 .. Len(n) : x = Len(m) + y
    <3>1. PICK y \in 1 .. Len(n) : x = Len(m) + y
      BY <2>2
    <3>2. g[y] \in 1 .. Len(b) /\ h[x] = Len(a) + g[y] /\ k[x] = n[y] /\ b[g[y]].tok = n[y]
      BY <3>1, <1>5, <1>7, <1>9
    <3>3. c[Len(a) + g[y]] = b[g[y]] /\ Len(a) + g[y] \in 1 .. Len(c)
      BY <3>2, <1>4
    <3>. QED BY <3>2, <3>3
  <2>. QED BY <2>1, <2>2, <1>5
<1>11. ASSUME NEW x \in 1 .. Len(k), NEW y \in 1 .. Len(k), x < y PROVE h[x] < h[y]
  <2>1. CASE y \in 1 .. Len(m)
    <3>1. x \in 1 .. Len(m)
      BY <2>1, <1>11
    <3>. QED BY <3>1, <2>1, <1>6, <1>8, <1>11
  <2>2. CASE \E v \in 1 .. Len(n) : y = Len(m) + v
    <3>1. PICK v \in 1 .. Len(n) : y = Len(m) + v
      BY <2>2
    <3>2. h[y] = Len(a) + g[v] /\ g[v] \in 1 .. Len(b)
      BY <3>1, <1>7, <1>9
    <3>3. CASE x \in 1 .. Len(m)
      <4>1. h[x] \in 1 .. Len(a)
        BY <3>3, <1>6, <1>8
      <4>. QED BY <4>1, <3>2, <1>4
    <3>4. CASE \E u \in 1 .. Len(n) : x = Len(m) + u
      <4>1. PICK u \in 1 .. Len(n) : x = Len(m) + u
        BY <3>4
      <4>2. u < v
        BY <3>1, <4>1, <1>5, <1>11
      <4>3. h[x] = Len(a) + g[u] /\ g[u] \in 1 .. Len(b) /\ g[u] < g[v]
        BY <4>1, <4>2, <1>7, <1>9
      <4>. QED BY <4>3, <3>2, <1>4
    <3>. QED BY <3>3, <3>4, <1>5
  <2>. QED BY <2>1, <2>2, <1>5
<1>12. ASSUME NEW p \in 1 .. Len(c), c[p].tok \in TurnMarks PROVE \E x \in 1 .. Len(k) : p = h[x]
  <2>1. CASE p \in 1 .. Len(a)
    <3>1. a[p].tok \in TurnMarks
      BY <2>1, <1>4, <1>12
    <3>2. PICK x \in 1 .. Len(m) : p = f[x]
      BY <2>1, <3>1, <1>8
    <3>. QED BY <3>2, <1>6
  <2>2. CASE \E q \in 1 .. Len(b) : p = Len(a) + q
    <3>1. PICK q \in 1 .. Len(b) : p = Len(a) + q
      BY <2>2
    <3>2. b[q].tok \in TurnMarks
      BY <3>1, <1>4, <1>12
    <3>3. PICK y \in 1 .. Len(n) : q = g[y]
      BY <3>2, <1>9
    <3>. QED BY <3>1, <3>3, <1>7
  <2>. QED BY <2>1, <2>2, <1>4
<1>13. MarkedAt(c, k, h)
  BY <1>4, <1>5, <1>10, <1>11, <1>12 DEF MarkedAt
<1>. QED BY <1>13 DEF Marked, c, k

\* Text without marks, before or behind.
LEMMA MarkedBeside ==
  ASSUME NEW s, NEW m, Marked(s, m), NEW a, Unmarked(a)
  PROVE  Marked(a \o s, m) /\ Marked(s \o a, m)
<1>1. Marked(a, <<>>)
  BY UnmarkedIs
<1>2. m \in Seq(TurnMarks)
  BY DEF Marked, MarkedAt
<1>3. <<>> \o m = m /\ m \o <<>> = m
  BY <1>2
<1>4. Marked(a \o s, <<>> \o m) /\ Marked(s \o a, m \o <<>>)
  BY <1>1, MarkedJoin
<1>. QED BY <1>3, <1>4

\* Two texts without marks, one behind the other.
LEMMA UnmarkedJoin ==
  ASSUME NEW a, Unmarked(a), NEW b, Unmarked(b)
  PROVE  Unmarked(a \o b)
<1>. DEFINE c == a \o b
<1>1. a \in Seq(AnyTokens) /\ b \in Seq(AnyTokens)
  BY DEF Unmarked
<1>4. /\ c \in Seq(AnyTokens) /\ Len(c) = Len(a) + Len(b)
      /\ (\A i \in 1 .. Len(a) : c[i] = a[i]) /\ (\A i \in 1 .. Len(b) : c[Len(a) + i] = b[i])
      /\ \A i \in 1 .. Len(a) + Len(b) : i \in 1 .. Len(a) \/ \E j \in 1 .. Len(b) : i = Len(a) + j
  BY <1>1, ConcatParts
<1>. HIDE DEF c
<1>5. ASSUME NEW p \in 1 .. Len(c) PROVE c[p].tok \notin TurnMarks
  <2>1. CASE p \in 1 .. Len(a)
    BY <2>1, <1>4 DEF Unmarked
  <2>2. CASE \E q \in 1 .. Len(b) : p = Len(a) + q
    BY <2>2, <1>4 DEF Unmarked
  <2>. QED BY <2>1, <2>2, <1>4
<1>6. Unmarked(c)
  BY <1>4, <1>5 DEF Unmarked
<1>. QED BY <1>6 DEF c

\* A text made of texts without marks has none.
LEMMA UnmarkedAll ==
  ASSUME NEW ss \in Seq(Seq(AnyTokens)), \A i \in 1 .. Len(ss) : Unmarked(ss[i])
  PROVE  Unmarked(FlattenSeq(ss))
<1>. DEFINE f == FlattenSeq(ss)
<1>1. f \in Seq(AnyTokens)
  BY FlattenIsSeq
<1>2. ASSUME NEW p \in 1 .. Len(f) PROVE f[p].tok \notin TurnMarks
  <2>1. PICK i \in 1 .. Len(ss) : \E q \in 1 .. Len(ss[i]) : p = Ends(ss, i - 1) + q
    BY PlaceOfPart
  <2>2. PICK q \in 1 .. Len(ss[i]) : p = Ends(ss, i - 1) + q
    BY <2>1
  <2>3. f[Ends(ss, i - 1) + q] = ss[i][q]
    BY FlattenPlaces
  <2>4. ss[i][q].tok \notin TurnMarks
    BY DEF Unmarked
  <2>. HIDE DEF f
  <2>. QED BY <2>2, <2>3, <2>4
<1>. HIDE DEF f
<1>3. Unmarked(f)
  BY <1>1, <1>2 DEF Unmarked
<1>. QED BY <1>3 DEF f

\* A token of the encoding that is no mark.
LEMMA UnmarkedOne ==
  ASSUME NEW x \in AnyTokens, x.tok \notin TurnMarks
  PROVE  Unmarked(<<x>>)
<1>. DEFINE s == <<x>>
<1>1. s \in Seq(AnyTokens) /\ Len(s) = 1 /\ s[1] = x
  OBVIOUS
<1>2. \A p \in 1 .. 1 : p = 1
  OBVIOUS
<1>. HIDE DEF s
<1>3. Unmarked(s)
  BY <1>1, <1>2 DEF Unmarked
<1>. QED BY <1>3 DEF s

\* What a message adds to its words without a mark.
LEMMA AddedAreUnmarked ==
  ASSUME NEW msg \in Merged
  PROVE  /\ Unmarked(Tools(msg)) /\ Unmarked(Reasoning(msg)) /\ Unmarked(Calls(msg)) /\ Unmarked(<<>>)
         /\ Unmarked(<<Tok("user")>>) /\ Unmarked(<<Tok("latest_reminder")>>) /\ Unmarked(<<Tok("result_end")>>)
<1>1. \A t \in {"user", "latest_reminder", "result_end", "tools", "reasoning"} : t \in Special /\ t \notin TurnMarks
  BY DEF Special, TurnMarks, Tasks
<1>2. \A t \in {"user", "latest_reminder", "result_end", "tools", "reasoning"} : Unmarked(<<Tok(t)>>)
  <2>. SUFFICES ASSUME NEW t \in {"user", "latest_reminder", "result_end", "tools", "reasoning"} PROVE Unmarked(<<Tok(t)>>)
    OBVIOUS
  <2>. DEFINE x == Tok(t)
  <2>1. x \in AnyTokens /\ x.tok \notin TurnMarks
    BY <1>1, SpecialIsToken DEF Tok
  <2>. HIDE DEF x
  <2>2. Unmarked(<<x>>)
    BY <2>1, UnmarkedOne
  <2>. QED BY <2>2 DEF x
<1>3. Unmarked(<<>>)
  <2>1. <<>> \in Seq(AnyTokens) /\ Len(<<>>) = 0 /\ \A p : p \notin 1 .. 0
    OBVIOUS
  <2>. QED BY <2>1 DEF Unmarked
<1>4. Unmarked(Tools(msg)) /\ Unmarked(Reasoning(msg))
  BY <1>2, <1>3 DEF Tools, Reasoning
<1>5. Unmarked(Calls(msg))
  <2>. DEFINE cs == msg.calls  s == [k \in DOMAIN cs |-> [tok |-> "call", of |-> cs[k]]]
  <2>1. cs \in Seq(Nat) /\ Len(cs) \in Nat /\ DOMAIN cs = 1 .. Len(cs)
    BY DEF Merged
  <2>2. "call" \in Special /\ "call" \notin TurnMarks
    BY DEF Special, TurnMarks, Tasks
  <2>3. \A k \in 1 .. Len(cs) : s[k] \in AnyTokens /\ s[k].tok = "call"
    <3>. SUFFICES ASSUME NEW k \in 1 .. Len(cs) PROVE s[k] \in AnyTokens /\ s[k].tok = "call"
      OBVIOUS
    <3>1. s[k] = [tok |-> "call", of |-> cs[k]] /\ cs[k] \in Nat
      BY <2>1
    <3>. QED BY <3>1, <2>2 DEF AnyTokens
  <2>4. s = [k \in 1 .. Len(cs) |-> s[k]]
    BY <2>1
  <2>5. Calls(msg) = s
    BY DEF Calls
  <2>. HIDE DEF s, cs
  <2>6. Len(cs) \in Int
    BY <2>1
  <2>7. s \in Seq(AnyTokens) /\ 1 .. Len(s) = 1 .. Len(cs)
    BY <2>3, <2>4, <2>6, ListIs
  <2>. QED BY <2>2, <2>3, <2>5, <2>7 DEF Unmarked
<1>. QED BY <1>2, <1>3, <1>4, <1>5

\* A message whose words are no marks.
Quiet(msg) == \A b \in 1 .. Len(Pieces(msg)) : Unmarked(Pieces(msg)[b])

\* The blocks of such a message have no marks.
LEMMA BlocksAreUnmarked ==
  ASSUME NEW msg \in Merged, msg.role = "user", Quiet(msg)
  PROVE  Unmarked(FlattenSeq([b \in DOMAIN msg.blocks |-> BlockTokens(msg.blocks[b])]))
<1>. DEFINE bs == msg.blocks  n == Len(bs)
            ss == [b \in DOMAIN bs |-> BlockTokens(bs[b])]
            f == Pieces(msg)
<1>1. bs \in Seq(Blocks) /\ n \in Nat /\ DOMAIN bs = 1 .. n
  BY PiecesAre
<1>2. Len(f) = n /\ \A b \in 1 .. n : f[b] = bs[b].content
  BY PiecesAre
<1>3. ss = [b \in 1 .. n |-> ss[b]] /\ \A b \in 1 .. n : ss[b] = BlockTokens(bs[b])
  BY <1>1
<1>4. ASSUME NEW b \in 1 .. n PROVE Unmarked(ss[b])
  <2>. DEFINE x == bs[b]  c == x.content
  <2>1. x \in Blocks
    BY <1>1
  <2>2. Unmarked(c)
    BY <1>2 DEF Quiet
  <2>3. ss[b] = BlockTokens(x) /\ x.id \in Nat
    BY <1>3, <2>1 DEF Blocks
  <2>. HIDE DEF ss
  <2>4. CASE ~x.result
    BY <2>2, <2>3, <2>4 DEF BlockTokens
  <2>5. CASE x.result
    <3>. DEFINE y == [tok |-> "result", of |-> x.id]
    <3>1. "result" \in Special /\ "result" \notin TurnMarks
      BY DEF Special, TurnMarks, Tasks
    <3>2. y \in AnyTokens /\ y.tok \notin TurnMarks
      BY <2>3, <3>1 DEF AnyTokens
    <3>3. BlockTokens(x) = <<y>> \o c \o <<Tok("result_end")>>
      BY <2>5 DEF BlockTokens
    <3>. HIDE DEF x, c, y
    <3>4. Unmarked(<<y>>) /\ Unmarked(<<Tok("result_end")>>)
      BY <3>2, UnmarkedOne, AddedAreUnmarked
    <3>5. Unmarked(<<y>> \o c)
      BY <2>2, <3>4, UnmarkedJoin
    <3>6. Unmarked(<<y>> \o c \o <<Tok("result_end")>>)
      BY <3>4, <3>5, UnmarkedJoin
    <3>. QED BY <2>3, <3>3, <3>6
  <2>. QED BY <2>4, <2>5
<1>. HIDE DEF ss, bs, f
<1>5. n \in Int /\ n >= 0
  BY <1>1
<1>6. \A b \in 1 .. n : ss[b] \in Seq(AnyTokens)
  BY <1>4 DEF Unmarked
<1>. HIDE DEF n
<1>7. ss \in Seq(Seq(AnyTokens)) /\ 1 .. Len(ss) = 1 .. n
  BY <1>3, <1>5, <1>6, ListIs
<1>8. Unmarked(FlattenSeq(ss))
  BY <1>4, <1>7, UnmarkedAll
<1>. QED BY <1>8 DEF ss, bs

\* A sequence written down is what its parts make.
LEMMA WrittenDown ==
  ASSUME NEW S, NEW x \in S, NEW y \in S, NEW z \in S
  PROVE  <<x>> \o <<y>> = <<x, y>> /\ <<x, y>> \o <<z>> = <<x, y, z>> /\ <<>> \o <<x>> = <<x>>
<1>. DEFINE a == <<x>>  b == <<y>>  c == <<x, y>>  d == <<z>>  e == <<x, y, z>>  p == a \o b  q == c \o d
<1>1. /\ a \in Seq(S) /\ b \in Seq(S) /\ c \in Seq(S) /\ d \in Seq(S) /\ e \in Seq(S)
      /\ Len(a) = 1 /\ Len(b) = 1 /\ Len(c) = 2 /\ Len(d) = 1 /\ Len(e) = 3
      /\ a[1] = x /\ b[1] = y /\ c[1] = x /\ c[2] = y /\ d[1] = z /\ e[1] = x /\ e[2] = y /\ e[3] = z
  OBVIOUS
<1>2. <<>> \o <<x>> = <<x>>
  OBVIOUS
<1>. HIDE DEF a, b, c, d, e
<1>3. /\ p \in Seq(S) /\ Len(p) = Len(a) + Len(b)
      /\ (\A i \in 1 .. Len(a) : p[i] = a[i]) /\ \A i \in 1 .. Len(b) : p[Len(a) + i] = b[i]
  <2>1. a \in Seq(S) /\ b \in Seq(S)
    BY <1>1
  <2>. QED BY <2>1, ConcatParts
<1>4. /\ q \in Seq(S) /\ Len(q) = Len(c) + Len(d)
      /\ (\A i \in 1 .. Len(c) : q[i] = c[i]) /\ \A i \in 1 .. Len(d) : q[Len(c) + i] = d[i]
  <2>1. c \in Seq(S) /\ d \in Seq(S)
    BY <1>1
  <2>. QED BY <2>1, ConcatParts
<1>. HIDE DEF p, q
<1>5. p = c
  <2>1. Len(p) = 2 /\ p[1] = x /\ p[1 + 1] = y
    BY <1>1, <1>3
  <2>. QED BY <2>1, <1>1, <1>3
<1>6. q = e
  <2>1. Len(q) = 3 /\ q[1] = x /\ q[2] = y /\ q[2 + 1] = z
    BY <1>1, <1>4
  <2>. QED BY <2>1, <1>1, <1>4, SMTT(30)
<1>. QED BY <1>2, <1>5, <1>6 DEF a, b, c, d, e, p, q

\* The marks of an assistant's message.
AnswerMarks(closes) == IF closes THEN <<"think_end", "eos">> ELSE <<"eos">>

\* The marks of a message itself.
LEMMA BodyIsMarked ==
  ASSUME NEW full \in Seq(Merged), NEW i \in 1 .. Len(full), NEW mode, NEW drop, Quiet(full[i])
  PROVE  Marked(Body(i, full, mode, drop),
                IF full[i].role = "assistant" THEN AnswerMarks(ClosesThinking(i, full, mode, drop)) ELSE <<>>)
<1>. DEFINE msg == full[i]  c == msg.content
            closes == ClosesThinking(i, full, mode, drop)
<1>1. msg \in Merged /\ msg.role \in {"system", "developer", "user", "latest_reminder", "assistant"}
  <2>1. msg \in Merged
    OBVIOUS
  <2>. HIDE DEF msg
  <2>2. msg.role \in {"system", "developer", "user", "latest_reminder", "assistant"}
    BY <2>1 DEF Merged, Roles
  <2>. QED BY <2>1, <2>2
<1>2. /\ Unmarked(Tools(msg)) /\ Unmarked(Reasoning(msg)) /\ Unmarked(Calls(msg)) /\ Unmarked(<<>>)
      /\ Unmarked(<<Tok("user")>>) /\ Unmarked(<<Tok("latest_reminder")>>)
  BY <1>1, AddedAreUnmarked
<1>3. msg.role # "user" => Unmarked(c)
  <2>1. msg.role # "user" => Len(Pieces(msg)) = 1 /\ Pieces(msg)[1] = c
    BY <1>1, PiecesAre
  <2>. QED BY <2>1 DEF Quiet
<1>4. Quiet(msg)
  OBVIOUS
<1>5. CASE msg.role = "system"
  <2>1. Body(i, full, mode, drop) = c \o Tools(msg)
    BY <1>5 DEF Body
  <2>. HIDE DEF msg, c
  <2>2. Unmarked(c \o Tools(msg))
    BY <1>2, <1>3, <1>5, UnmarkedJoin
  <2>. QED BY <2>1, <2>2, <1>5, UnmarkedIs DEF msg
<1>6. CASE msg.role = "developer"
  <2>1. Body(i, full, mode, drop) = <<Tok("user")>> \o c \o Tools(msg)
    BY <1>6 DEF Body
  <2>. HIDE DEF msg, c
  <2>2. Unmarked(<<Tok("user")>> \o c)
    BY <1>2, <1>3, <1>6, UnmarkedJoin
  <2>3. Unmarked(<<Tok("user")>> \o c \o Tools(msg))
    BY <1>2, <2>2, UnmarkedJoin
  <2>. QED BY <2>1, <2>3, <1>6, UnmarkedIs DEF msg
<1>7. CASE msg.role = "user"
  <2>. DEFINE f == FlattenSeq([b \in DOMAIN msg.blocks |-> BlockTokens(msg.blocks[b])])
  <2>1. Body(i, full, mode, drop) = <<Tok("user")>> \o f
    BY <1>7 DEF Body
  <2>2. Unmarked(f)
    BY <1>1, <1>4, <1>7, BlocksAreUnmarked
  <2>. HIDE DEF msg, c, f
  <2>3. Unmarked(<<Tok("user")>> \o f)
    BY <2>2, <1>2, UnmarkedJoin
  <2>. QED BY <2>1, <2>3, <1>7, UnmarkedIs DEF msg
<1>8. CASE msg.role = "latest_reminder"
  <2>1. Body(i, full, mode, drop) = <<Tok("latest_reminder")>> \o c
    BY <1>8 DEF Body
  <2>. HIDE DEF msg, c
  <2>2. Unmarked(<<Tok("latest_reminder")>> \o c)
    BY <1>2, <1>3, <1>8, UnmarkedJoin
  <2>. QED BY <2>1, <2>2, <1>8, UnmarkedIs DEF msg
<1>9. CASE msg.role = "assistant"
  <2>. DEFINE a == IF closes THEN Reasoning(msg) \o <<Tok("think_end")>> ELSE <<>>
              m == IF closes THEN <<"think_end">> ELSE <<>>
  <2>1. Body(i, full, mode, drop) = a \o c \o Calls(msg) \o <<Tok("eos")>>
    BY <1>9 DEF Body
  <2>2. "think_end" \in TurnMarks /\ "eos" \in TurnMarks
    BY DEF TurnMarks
  <2>3. Marked(<<Tok("think_end")>>, <<"think_end">>) /\ Marked(<<Tok("eos")>>, <<"eos">>)
    BY <2>2, MarkedOne
  <2>4. Marked(Reasoning(msg) \o <<Tok("think_end")>>, <<"think_end">>)
    BY <2>3, <1>2, MarkedBeside
  <2>5. Marked(a, m)
    BY <2>4, <1>2, UnmarkedIs
  <2>6. m \o <<"eos">> = AnswerMarks(closes)
    <3>1. <<"think_end">> \o <<"eos">> = <<"think_end", "eos">> /\ <<>> \o <<"eos">> = <<"eos">>
      BY <2>2, WrittenDown
    <3>. HIDE DEF closes
    <3>. QED BY <3>1 DEF AnswerMarks
  <2>7. Unmarked(c)
    BY <1>3, <1>9
  <2>. HIDE DEF msg, c, a, m, closes
  <2>8. Marked(a \o c, m)
    BY <2>5, <2>7, MarkedBeside
  <2>9. Marked(a \o c \o Calls(msg), m)
    BY <2>8, <1>2, MarkedBeside
  <2>10. Marked(a \o c \o Calls(msg) \o <<Tok("eos")>>, m \o <<"eos">>)
    BY <2>9, <2>3, MarkedJoin
  <2>. QED BY <2>1, <2>6, <2>10, <1>9 DEF msg, closes
<1>. QED BY <1>1, <1>5, <1>6, <1>7, <1>8, <1>9

\* The marks of what hands over to the assistant.
HandMarks(task, mode, think) ==
  IF task = "action" THEN <<"assistant", IF mode = "thinking" THEN "think" ELSE "think_end", "action">>
  ELSE IF task # NoTask THEN <<task>> ELSE <<"assistant", think>>

\* The marks of what follows a message.
LEMMA TransitionIsMarked ==
  ASSUME NEW full \in Seq(Merged), NEW i \in 1 .. Len(full), NEW mode, NEW drop,
         full[i].task # NoTask => full[i].role \in {"user", "developer"}
  PROVE  Marked(Transition(i, full, mode, drop),
                IF HandsOver(full, i) THEN HandMarks(full[i].task, mode, Think(i, full, mode, drop)) ELSE <<>>)
<1>. DEFINE msg == full[i]
            inner == i < Len(full) /\ full[i + 1].role \notin {"assistant", "latest_reminder"}
            z == IF mode = "thinking" THEN "think" ELSE "think_end"
            u == Think(i, full, mode, drop)
            t == Transition(i, full, mode, drop)
<1>1. msg.task \in Tasks \cup {NoTask}
  <2>1. msg \in Merged
    OBVIOUS
  <2>. HIDE DEF msg
  <2>. QED BY <2>1 DEF Merged
<1>2. HandsOver(full, i) <=> msg.role \in {"user", "developer"} /\ ~inner
  <2>1. i = Len(full) <=> ~(i < Len(full))
    <3>1. Len(full) \in Nat
      OBVIOUS
    <3>. QED BY <3>1
  <2>. QED BY <2>1 DEF HandsOver
<1>3. t = CASE inner -> <<>>
          [] ~inner /\ msg.task = "action" -> <<Tok("assistant"), Tok(z), Tok("action")>>
          [] ~inner /\ msg.task \notin {NoTask, "action"} -> <<Tok(msg.task)>>
          [] ~inner /\ msg.task = NoTask /\ msg.role \in {"user", "developer"} -> <<Tok("assistant"), Tok(u)>>
          [] OTHER -> <<>>
  BY DEF Transition
<1>4. z \in {"think", "think_end"} /\ u \in {"think", "think_end"}
  BY DEF Think
<1>5. msg.task # NoTask => msg.role \in {"user", "developer"}
  OBVIOUS
<1>6. Marked(<<>>, <<>>)
  <2>1. <<>> \in Seq(AnyTokens) /\ Len(<<>>) = 0 /\ \A p : p \notin 1 .. 0
    OBVIOUS
  <2>2. Unmarked(<<>>)
    BY <2>1 DEF Unmarked
  <2>. QED BY <2>2, UnmarkedIs
<1>7. \A x \in TurnMarks : Marked(<<Tok(x)>>, <<x>>)
  BY MarkedOne
<1>8. \A x, y \in TurnMarks : Marked(<<Tok(x), Tok(y)>>, <<x, y>>)
  <2>1. ASSUME NEW x \in TurnMarks, NEW y \in TurnMarks PROVE Marked(<<Tok(x), Tok(y)>>, <<x, y>>)
    <3>1. Marked(<<Tok(x)>> \o <<Tok(y)>>, <<x>> \o <<y>>)
      BY <1>7, MarkedJoin
    <3>2. x \in Special /\ y \in Special
      BY DEF TurnMarks, Special, Tasks
    <3>3. Tok(x) \in AnyTokens /\ Tok(y) \in AnyTokens
      BY <3>2, SpecialIsToken
    <3>4. <<Tok(x)>> \o <<Tok(y)>> = <<Tok(x), Tok(y)>> /\ <<x>> \o <<y>> = <<x, y>>
      BY <3>3, WrittenDown
    <3>. QED BY <3>1, <3>4
  <2>. QED BY <2>1
<1>9. \A x, y, v \in TurnMarks : Marked(<<Tok(x), Tok(y), Tok(v)>>, <<x, y, v>>)
  <2>1. ASSUME NEW x \in TurnMarks, NEW y \in TurnMarks, NEW v \in TurnMarks
        PROVE  Marked(<<Tok(x), Tok(y), Tok(v)>>, <<x, y, v>>)
    <3>1. Marked(<<Tok(x), Tok(y)>> \o <<Tok(v)>>, <<x, y>> \o <<v>>)
      BY <1>7, <1>8, MarkedJoin
    <3>2. x \in Special /\ y \in Special /\ v \in Special
      BY DEF TurnMarks, Special, Tasks
    <3>3. Tok(x) \in AnyTokens /\ Tok(y) \in AnyTokens /\ Tok(v) \in AnyTokens
      BY <3>2, SpecialIsToken
    <3>4. <<Tok(x), Tok(y)>> \o <<Tok(v)>> = <<Tok(x), Tok(y), Tok(v)>> /\ <<x, y>> \o <<v>> = <<x, y, v>>
      BY <3>3, WrittenDown, ZenonT(60)
    <3>. QED BY <3>1, <3>4
  <2>. QED BY <2>1
<1>10. {"assistant", "think", "think_end", "action"} \cup Tasks \subseteq TurnMarks
  BY DEF TurnMarks, Tasks
<1>. DEFINE m == IF HandsOver(full, i) THEN HandMarks(msg.task, mode, u) ELSE <<>>
<1>11. CASE inner
  <2>1. t = <<>> /\ m = <<>>
    BY <1>2, <1>3, <1>11
  <2>. QED BY <2>1, <1>6 DEF t, m, u, msg
<1>12. CASE ~inner /\ msg.task = "action"
  <2>1. t = <<Tok("assistant"), Tok(z), Tok("action")>>
    BY <1>3, <1>12 DEF NoTask
  <2>2. m = <<"assistant", z, "action">>
    BY <1>2, <1>5, <1>12 DEF NoTask, HandMarks, z
  <2>3. z \in TurnMarks /\ "assistant" \in TurnMarks /\ "action" \in TurnMarks
    BY <1>4, <1>10
  <2>4. Marked(t, m)
    BY <2>1, <2>2, <2>3, <1>9
  <2>. QED BY <2>4 DEF t, m, u, msg
<1>13. CASE ~inner /\ msg.task \notin {NoTask, "action"}
  <2>1. t = <<Tok(msg.task)>>
    BY <1>3, <1>13
  <2>2. m = <<msg.task>>
    BY <1>2, <1>5, <1>13 DEF HandMarks
  <2>3. msg.task \in TurnMarks
    BY <1>1, <1>10, <1>13
  <2>4. Marked(t, m)
    BY <2>1, <2>2, <2>3, <1>7
  <2>. QED BY <2>4 DEF t, m, u, msg
<1>14. CASE ~inner /\ msg.task = NoTask /\ msg.role \in {"user", "developer"}
  <2>1. t = <<Tok("assistant"), Tok(u)>>
    BY <1>3, <1>14 DEF NoTask
  <2>2. m = <<"assistant", u>>
    BY <1>2, <1>14 DEF HandMarks, NoTask
  <2>3. u \in TurnMarks /\ "assistant" \in TurnMarks
    BY <1>4, <1>10
  <2>4. Marked(t, m)
    BY <2>1, <2>2, <2>3, <1>8
  <2>. QED BY <2>4 DEF t, m, u, msg
<1>15. CASE ~inner /\ msg.task = NoTask /\ msg.role \notin {"user", "developer"}
  <2>1. t = <<>> /\ m = <<>>
    BY <1>2, <1>3, <1>15 DEF NoTask
  <2>. QED BY <2>1, <1>6 DEF t, m, u, msg
<1>. QED BY <1>11, <1>12, <1>13, <1>14, <1>15

\* The marks of a message as it is rendered.
MarksOf(i, full, mode, drop) ==
  IF Answers(full, i) THEN AnswerMarks(ClosesThinking(i, full, mode, drop))
  ELSE IF HandsOver(full, i) THEN HandMarks(full[i].task, mode, Think(i, full, mode, drop)) ELSE <<>>

\* They are those of its body and of what follows it.
LEMMA RenderIsMarked ==
  ASSUME NEW full \in Seq(Merged), NEW i \in 1 .. Len(full), NEW mode, NEW drop, Quiet(full[i]),
         full[i].task # NoTask => full[i].role \in {"user", "developer"}
  PROVE  Marked(RenderMessage(i, full, mode, drop), MarksOf(i, full, mode, drop))
<1>. DEFINE b == Body(i, full, mode, drop)  t == Transition(i, full, mode, drop)
            m == IF full[i].role = "assistant" THEN AnswerMarks(ClosesThinking(i, full, mode, drop)) ELSE <<>>
            n == IF HandsOver(full, i) THEN HandMarks(full[i].task, mode, Think(i, full, mode, drop)) ELSE <<>>
<1>1. Marked(b, m)
  BY BodyIsMarked
<1>2. Marked(t, n)
  BY TransitionIsMarked
<1>3. m \in Seq(TurnMarks) /\ n \in Seq(TurnMarks)
  BY <1>1, <1>2 DEF Marked, MarkedAt
<1>4. m \o n = MarksOf(i, full, mode, drop)
  <2>1. m \o <<>> = m /\ <<>> \o n = n
    BY <1>3
  <2>2. CASE Answers(full, i)
    <3>1. n = <<>> /\ m = MarksOf(i, full, mode, drop)
      BY <2>2 DEF Answers, HandsOver, MarksOf
    <3>. HIDE DEF m, n
    <3>. QED BY <3>1, <2>1
  <2>3. CASE ~Answers(full, i)
    <3>1. m = <<>> /\ n = MarksOf(i, full, mode, drop)
      BY <2>3 DEF Answers, HandsOver, MarksOf
    <3>. HIDE DEF m, n
    <3>. QED BY <3>1, <2>1
  <2>. QED BY <2>2, <2>3
<1>5. RenderMessage(i, full, mode, drop) = b \o t
  BY DEF RenderMessage
<1>. HIDE DEF b, t, m, n
<1>. QED BY <1>1, <1>2, <1>4, <1>5, MarkedJoin

\* Of n texts with the marks mm: one behind the other in a text, or the last mark of a text and
\* the first of the next that has any.
NextMarks(t, u, mm, n) ==
  \/ \E k \in 1 .. n : \E x \in 1 .. Len(mm[k]) : x + 1 \in 1 .. Len(mm[k]) /\ t = mm[k][x] /\ u = mm[k][x + 1]
  \/ \E k, l \in 1 .. n : /\ k < l /\ mm[k] # <<>> /\ mm[l] # <<>> /\ t = mm[k][Len(mm[k])] /\ u = mm[l][1]
                         /\ \A c \in k + 1 .. l - 1 : mm[c] = <<>>

\* Two marks with none between them are of one text, or the last of one and the first of another.
LEMMA MarksAreNext ==
  ASSUME NEW ss \in Seq(Seq(AnyTokens)), NEW mm, \A k \in 1 .. Len(ss) : Marked(ss[k], mm[k]),
         NEW p \in 1 .. Len(FlattenSeq(ss)), NEW q \in 1 .. Len(FlattenSeq(ss)), p < q,
         FlattenSeq(ss)[p].tok \in TurnMarks, FlattenSeq(ss)[q].tok \in TurnMarks,
         \A k \in p + 1 .. q - 1 : FlattenSeq(ss)[k].tok \notin TurnMarks
  PROVE  NextMarks(FlattenSeq(ss)[p].tok, FlattenSeq(ss)[q].tok, mm, Len(ss))
<1>. DEFINE s == FlattenSeq(ss)  F(k) == CHOOSE f : MarkedAt(ss[k], mm[k], f)
            P(k, a) == Ends(ss, k - 1) + a
<1>1. \A k \in 1 .. Len(ss) : MarkedAt(ss[k], mm[k], F(k))
  BY DEF Marked
<1>. HIDE DEF F
<1>2. ASSUME NEW k \in 1 .. Len(ss)
      PROVE  /\ mm[k] \in Seq(TurnMarks) /\ Len(mm[k]) \in Nat
             /\ \A x \in 1 .. Len(mm[k]) : F(k)[x] \in 1 .. Len(ss[k]) /\ ss[k][F(k)[x]].tok = mm[k][x] /\ mm[k][x] \in TurnMarks
             /\ \A x, y \in 1 .. Len(mm[k]) : x < y => F(k)[x] < F(k)[y]
             /\ \A a \in 1 .. Len(ss[k]) : ss[k][a].tok \in TurnMarks => \E x \in 1 .. Len(mm[k]) : a = F(k)[x]
  <2>. DEFINE t == ss[k]  m == mm[k]  f == F(k)
  <2>1. MarkedAt(t, m, f)
    BY <1>1
  <2>. HIDE DEF t, m, f
  <2>2. m \in Seq(TurnMarks)
    BY <2>1 DEF MarkedAt
  <2>3. Len(m) \in Nat /\ \A x \in 1 .. Len(m) : m[x] \in TurnMarks
    BY <2>2
  <2>4. /\ m \in Seq(TurnMarks) /\ Len(m) \in Nat
        /\ \A x \in 1 .. Len(m) : f[x] \in 1 .. Len(t) /\ t[f[x]].tok = m[x] /\ m[x] \in TurnMarks
        /\ \A x, y \in 1 .. Len(m) : x < y => f[x] < f[y]
        /\ \A a \in 1 .. Len(t) : t[a].tok \in TurnMarks => \E x \in 1 .. Len(m) : a = f[x]
    BY <2>1, <2>2, <2>3 DEF MarkedAt
  <2>. QED BY <2>4 DEF t, m, f
<1>3. \A k \in 1 .. Len(ss) : \A a \in 1 .. Len(ss[k]) : s[P(k, a)] = ss[k][a]
  BY FlattenPlaces
<1>4. /\ \A k \in 1 .. Len(ss) : \A a \in 1 .. Len(ss[k]) : P(k, a) \in 1 .. Len(s)
      /\ \A k, l \in 1 .. Len(ss) : \A a \in 1 .. Len(ss[k]) : \A b \in 1 .. Len(ss[l]) :
           /\ k < l => P(k, a) < P(l, b)
           /\ k = l => (P(k, a) < P(l, b) <=> a < b)
  <2>. SUFFICES ASSUME NEW k \in 1 .. Len(ss), NEW l \in 1 .. Len(ss), NEW a \in 1 .. Len(ss[k]), NEW b \in 1 .. Len(ss[l])
                PROVE  /\ P(k, a) \in 1 .. Len(s)
                       /\ k < l => P(k, a) < P(l, b)
                       /\ k = l => (P(k, a) < P(l, b) <=> a < b)
    BY Zenon
  <2>1. /\ Ends(ss, k - 1) + a \in 1 .. Len(FlattenSeq(ss))
        /\ k < l => Ends(ss, k - 1) + a < Ends(ss, l - 1) + b
        /\ k = l => (Ends(ss, k - 1) + a < Ends(ss, l - 1) + b <=> a < b)
    <3>. HIDE <1>1
    <3>. QED BY ZenonT(60), PlacesInOrder
  <2>. QED BY <2>1, Zenon
<1>5. \A z \in 1 .. Len(s) : \E k \in 1 .. Len(ss) : \E a \in 1 .. Len(ss[k]) : z = P(k, a)
  BY PlaceOfPart
<1>6. Len(s) \in Nat /\ Len(ss) \in Nat /\ \A k \in 1 .. Len(ss) : Len(ss[k]) \in Nat
  <2>1. s \in Seq(AnyTokens)
    BY FlattenIsSeq
  <2>. HIDE DEF s
  <2>. QED BY <2>1
<1>7. /\ p \in 1 .. Len(s) /\ q \in 1 .. Len(s) /\ s[p].tok \in TurnMarks /\ s[q].tok \in TurnMarks
      /\ \A k \in p + 1 .. q - 1 : s[k].tok \notin TurnMarks
  OBVIOUS
<1>. HIDE DEF s, P
<1>8. \A k \in 1 .. Len(ss) : \A x \in 1 .. Len(mm[k]) : ~(p < P(k, F(k)[x]) /\ P(k, F(k)[x]) < q)
  <2>. SUFFICES ASSUME NEW k \in 1 .. Len(ss), NEW x \in 1 .. Len(mm[k]), p < P(k, F(k)[x]), P(k, F(k)[x]) < q
                PROVE  FALSE
    OBVIOUS
  <2>. DEFINE z == P(k, F(k)[x])
  <2>1. z \in 1 .. Len(s) /\ s[z].tok \in TurnMarks
    <3>1. F(k)[x] \in 1 .. Len(ss[k]) /\ ss[k][F(k)[x]].tok \in TurnMarks
      BY <1>2, ZenonT(60)
    <3>. QED BY <3>1, <1>3, <1>4
  <2>2. z \in p + 1 .. q - 1
    BY <2>1, <1>6, <1>7
  <2>. QED BY <2>1, <2>2, <1>7
<1>9. PICK i \in 1 .. Len(ss) : \E a \in 1 .. Len(ss[i]) : p = P(i, a)
  BY <1>5, <1>7
<1>10. PICK a \in 1 .. Len(ss[i]) : p = P(i, a)
  BY <1>9
<1>11. PICK j \in 1 .. Len(ss) : \E b \in 1 .. Len(ss[j]) : q = P(j, b)
  BY <1>5, <1>7
<1>12. PICK b \in 1 .. Len(ss[j]) : q = P(j, b)
  BY <1>11
<1>13. i <= j /\ (i = j => a < b)
  <2>1. j < i => P(j, b) < P(i, a)
    BY <1>4
  <2>2. i = j => (P(i, a) < P(j, b) <=> a < b)
    BY <1>4
  <2>. QED BY <2>1, <2>2, <1>6, <1>7, <1>10, <1>12, SMTT(30)
<1>14. PICK x \in 1 .. Len(mm[i]) : a = F(i)[x]
  <2>1. ss[i][a].tok \in TurnMarks
    BY <1>3, <1>7, <1>10
  <2>. QED BY <2>1, <1>2
<1>15. PICK y \in 1 .. Len(mm[j]) : b = F(j)[y]
  <2>1. ss[j][b].tok \in TurnMarks
    BY <1>3, <1>7, <1>12
  <2>. QED BY <2>1, <1>2, ZenonT(60)
<1>16. s[p].tok = mm[i][x] /\ s[q].tok = mm[j][y]
  <2>1. s[p] = ss[i][a] /\ s[q] = ss[j][b]
    BY <1>3, <1>10, <1>12
  <2>2. ss[i][a].tok = mm[i][x] /\ ss[j][b].tok = mm[j][y]
    BY <1>2, <1>14, <1>15, ZenonT(60)
  <2>. QED BY <2>1, <2>2
<1>19. Len(mm[i]) \in Nat /\ Len(mm[j]) \in Nat /\ x \in 1 .. Len(mm[i]) /\ y \in 1 .. Len(mm[j])
  BY <1>2
<1>17. CASE i = j
  <2>1. x < y
    <3>0. y \in 1 .. Len(mm[i])
      BY <1>17
    <3>1. F(i)[x] < F(i)[y] /\ F(i)[x] \in Int /\ F(i)[y] \in Int
      BY <3>0, <1>2, <1>13, <1>14, <1>15, <1>17
    <3>2. ~(y < x) /\ x # y
      <4>1. y < x => F(i)[y] < F(i)[x]
        BY <3>0, <1>2
      <4>. QED BY <3>1, <4>1
    <3>. QED BY <3>2, <1>2
  <2>2. x + 1 = y
    <3>. SUFFICES ASSUME x + 1 # y PROVE FALSE
      OBVIOUS
    <3>1. x + 1 \in 1 .. Len(mm[i]) /\ x < x + 1 /\ x + 1 < y
      BY <2>1, <1>17, <1>19
    <3>2. F(i)[x] < F(i)[x + 1] /\ F(i)[x + 1] < F(i)[y] /\ F(i)[x + 1] \in 1 .. Len(ss[i])
      BY <3>1, <1>2, <1>17
    <3>3. P(i, a) < P(i, F(i)[x + 1]) /\ P(i, F(i)[x + 1]) < P(j, b)
      BY <3>2, <1>4, <1>14, <1>15, <1>17
    <3>. QED BY <3>1, <3>3, <1>8, <1>10, <1>12
  <2>3. y \in 1 .. Len(mm[i]) /\ s[q].tok = mm[i][y]
    BY <1>16, <1>17
  <2>. QED BY <2>2, <2>3, <1>16 DEF s, NextMarks
<1>18. CASE i < j
  <2>1. x = Len(mm[i])
    <3>. SUFFICES ASSUME x # Len(mm[i]) PROVE FALSE
      OBVIOUS
    <3>1. x + 1 \in 1 .. Len(mm[i]) /\ x < x + 1
      BY <1>19, SMTT(30)
    <3>2. F(i)[x] < F(i)[x + 1] /\ F(i)[x + 1] \in 1 .. Len(ss[i])
      BY <3>1, <1>2
    <3>3. P(i, a) < P(i, F(i)[x + 1]) /\ P(i, F(i)[x + 1]) < P(j, b)
      BY <3>2, <1>4, <1>14, <1>18
    <3>. QED BY <3>1, <3>3, <1>8, <1>10, <1>12
  <2>2. y = 1
    <3>. SUFFICES ASSUME y # 1 PROVE FALSE
      OBVIOUS
    <3>1. 1 \in 1 .. Len(mm[j]) /\ 1 < y
      BY <1>19
    <3>2. F(j)[1] < F(j)[y] /\ F(j)[1] \in 1 .. Len(ss[j])
      BY <3>1, <1>2
    <3>3. P(i, a) < P(j, F(j)[1]) /\ P(j, F(j)[1]) < P(j, b)
      BY <3>2, <1>4, <1>15, <1>18
    <3>. QED BY <3>1, <3>3, <1>8, <1>10, <1>12
  <2>3. ASSUME NEW c \in i + 1 .. j - 1 PROVE mm[c] = <<>>
    <3>. SUFFICES ASSUME mm[c] # <<>> PROVE FALSE
      OBVIOUS
    <3>1. c \in 1 .. Len(ss) /\ i < c /\ c < j
      BY <1>6
    <3>2. 1 \in 1 .. Len(mm[c])
      <4>. DEFINE e == mm[c]
      <4>1. e \in Seq(TurnMarks) /\ e # <<>>
        BY <3>1, <1>2
      <4>. HIDE DEF e
      <4>2. 1 \in 1 .. Len(e)
        BY <4>1
      <4>. QED BY <4>2 DEF e
    <3>3. F(c)[1] \in 1 .. Len(ss[c])
      BY <3>1, <3>2, <1>2
    <3>4. P(i, a) < P(c, F(c)[1]) /\ P(c, F(c)[1]) < P(j, b)
      BY <3>1, <3>3, <1>4
    <3>. QED BY <3>1, <3>2, <3>4, <1>8, <1>10, <1>12
  <2>4. mm[i] \in Seq(TurnMarks) /\ mm[j] \in Seq(TurnMarks) /\ mm[i] # <<>> /\ mm[j] # <<>>
    <3>. DEFINE u == mm[i]  v == mm[j]
    <3>1. u \in Seq(TurnMarks) /\ v \in Seq(TurnMarks)
      BY <1>2
    <3>. HIDE DEF u, v
    <3>4. Len(u) \in Nat /\ Len(v) \in Nat /\ x \in 1 .. Len(u) /\ y \in 1 .. Len(v)
      BY <1>19 DEF u, v
    <3>2. Len(u) # 0 /\ Len(v) # 0
      BY <3>4
    <3>3. u # <<>> /\ v # <<>>
      BY <3>1, <3>2
    <3>. QED BY <3>1, <3>3 DEF u, v
  <2>5. s[p].tok = mm[i][Len(mm[i])] /\ s[q].tok = mm[j][1]
    BY <2>1, <2>2, <1>16
  <2>. QED BY <2>3, <2>4, <2>5, <1>18 DEF s, NextMarks
<1>. QED BY <1>13, <1>17, <1>18

\* What TurnsAlternate says of the messages that are rendered.
Alternates(full) ==
  \A i \in DOMAIN full :
    /\ full[i].task # NoTask => full[i].role \in {"user", "developer"}
    /\ i < Len(full) /\ HandsOver(full, i) /\ full[i].task # NoTask => full[i + 1].role = "assistant"
    /\ i < Len(full) /\ full[i].role \in {"user", "developer"} => full[i + 1].role # "system"
    /\ \A j \in i + 1 .. Len(full) :
         /\ HandsOver(full, i) /\ HandsOver(full, j) => \E k \in i + 1 .. j - 1 : Answers(full, k)
         /\ Answers(full, i) /\ Answers(full, j) => \E k \in i + 1 .. j - 1 : HandsOver(full, k)

\* The marks of an answer: their ends, and what follows in them.
LEMMA AnswerMarksAre ==
  ASSUME NEW c \in BOOLEAN
  PROVE  LET m == AnswerMarks(c) IN
         /\ m # <<>> /\ m[1] = (IF c THEN "think_end" ELSE "eos") /\ m[Len(m)] = "eos"
         /\ \A x \in 1 .. Len(m) : x + 1 \in 1 .. Len(m) => <<m[x], m[x + 1]>> \in Follows
<1>1. CASE c
  <2>. DEFINE m == <<"think_end", "eos">>
  <2>1. AnswerMarks(c) = m
    BY <1>1 DEF AnswerMarks
  <2>2. m # <<>> /\ Len(m) = 2 /\ m[1] = "think_end" /\ m[2] = "eos"
    OBVIOUS
  <2>3. <<"think_end", "eos">> \in Follows
    BY DEF Follows
  <2>. HIDE DEF m
  <2>4. \A x \in 1 .. Len(m) : x + 1 \in 1 .. Len(m) => x = 1
    BY <2>2
  <2>5. \A x \in 1 .. Len(m) : x + 1 \in 1 .. Len(m) => <<m[x], m[x + 1]>> \in Follows
    <3>1. <<m[1], m[1 + 1]>> \in Follows
      BY <2>2, <2>3
    <3>. QED BY <3>1, <2>4
  <2>. QED BY <2>1, <2>2, <2>5, <1>1
<1>2. CASE ~c
  <2>. DEFINE m == <<"eos">>
  <2>1. AnswerMarks(c) = m
    BY <1>2 DEF AnswerMarks
  <2>2. m # <<>> /\ Len(m) = 1 /\ m[1] = "eos"
    OBVIOUS
  <2>. HIDE DEF m
  <2>3. \A x \in 1 .. Len(m) : x + 1 \notin 1 .. Len(m)
    BY <2>2
  <2>. QED BY <2>1, <2>2, <2>3, <1>2
<1>. QED BY <1>1, <1>2

\* The same of what hands over.
LEMMA HandMarksAre ==
  ASSUME NEW task \in Tasks \cup {NoTask}, NEW mode, NEW think \in {"think", "think_end"}
  PROVE  LET m == HandMarks(task, mode, think) IN
         /\ m # <<>> /\ m[1] = (IF task \in {"action", NoTask} THEN "assistant" ELSE task)
         /\ m[Len(m)] = (IF task = NoTask THEN think ELSE task)
         /\ \A x \in 1 .. Len(m) : x + 1 \in 1 .. Len(m) => <<m[x], m[x + 1]>> \in Follows
<1>1. CASE task = "action"
  <2>. DEFINE z == IF mode = "thinking" THEN "think" ELSE "think_end"
              m == <<"assistant", z, "action">>
  <2>1. HandMarks(task, mode, think) = m
    BY <1>1 DEF HandMarks
  <2>2. z \in {"think", "think_end"}
    OBVIOUS
  <2>. HIDE DEF z
  <2>3. m # <<>> /\ Len(m) = 3 /\ m[1] = "assistant" /\ m[2] = z /\ m[3] = "action"
    OBVIOUS
  <2>4. <<"assistant", z>> \in Follows /\ <<z, "action">> \in Follows
    BY <2>2 DEF Follows
  <2>. HIDE DEF m
  <2>5. \A x \in 1 .. Len(m) : x + 1 \in 1 .. Len(m) => x = 1 \/ x = 2
    BY <2>3
  <2>6. <<m[1], m[1 + 1]>> \in Follows /\ <<m[2], m[2 + 1]>> \in Follows
    BY <2>3, <2>4
  <2>7. \A x \in 1 .. Len(m) : x + 1 \in 1 .. Len(m) => <<m[x], m[x + 1]>> \in Follows
    BY <2>5, <2>6
  <2>8. task # NoTask
    BY <1>1 DEF NoTask
  <2>. QED BY <2>1, <2>3, <2>7, <2>8, <1>1
<1>2. CASE task \notin {"action", NoTask}
  <2>. DEFINE m == <<task>>
  <2>1. HandMarks(task, mode, think) = m
    BY <1>2 DEF HandMarks
  <2>2. m # <<>> /\ Len(m) = 1 /\ m[1] = task
    OBVIOUS
  <2>. HIDE DEF m
  <2>3. \A x \in 1 .. Len(m) : x + 1 \notin 1 .. Len(m)
    BY <2>2
  <2>. QED BY <2>1, <2>2, <2>3, <1>2
<1>3. CASE task = NoTask
  <2>. DEFINE m == <<"assistant", think>>
  <2>1. HandMarks(task, mode, think) = m
    BY <1>3 DEF HandMarks, NoTask
  <2>2. m # <<>> /\ Len(m) = 2 /\ m[1] = "assistant" /\ m[2] = think
    OBVIOUS
  <2>3. <<"assistant", think>> \in Follows
    BY DEF Follows
  <2>. HIDE DEF m
  <2>4. \A x \in 1 .. Len(m) : x + 1 \in 1 .. Len(m) => x = 1
    BY <2>2
  <2>5. <<m[1], m[1 + 1]>> \in Follows
    BY <2>2, <2>3
  <2>6. \A x \in 1 .. Len(m) : x + 1 \in 1 .. Len(m) => <<m[x], m[x + 1]>> \in Follows
    BY <2>4, <2>5
  <2>. QED BY <2>1, <2>2, <2>6, <1>3
<1>. QED BY <1>1, <1>2, <1>3

\* What a message marks: an answer or what hands over, and nothing else.
LEMMA MarksOfAre ==
  ASSUME NEW full \in Seq(Merged), NEW i \in 1 .. Len(full), NEW mode, NEW drop
  PROVE  LET m == MarksOf(i, full, mode, drop)  task == full[i].task IN
         /\ m # <<>> <=> Answers(full, i) \/ HandsOver(full, i)
         /\ \A x \in 1 .. Len(m) : x + 1 \in 1 .. Len(m) => <<m[x], m[x + 1]>> \in Follows
         /\ Answers(full, i) =>
              m[1] = (IF ClosesThinking(i, full, mode, drop) THEN "think_end" ELSE "eos") /\ m[Len(m)] = "eos"
         /\ HandsOver(full, i) => /\ m[1] = (IF task \in {"action", NoTask} THEN "assistant" ELSE task)
                                  /\ m[Len(m)] = (IF task = NoTask THEN Think(i, full, mode, drop) ELSE task)
<1>. DEFINE m == MarksOf(i, full, mode, drop)  task == full[i].task  c == ClosesThinking(i, full, mode, drop)
            th == Think(i, full, mode, drop)
<1>1. task \in Tasks \cup {NoTask}
  <2>1. full[i] \in Merged
    OBVIOUS
  <2>. QED BY <2>1 DEF Merged
<1>2. c \in BOOLEAN /\ th \in {"think", "think_end"}
  BY DEF ClosesThinking, Think
<1>3. m = IF Answers(full, i) THEN AnswerMarks(c) ELSE IF HandsOver(full, i) THEN HandMarks(task, mode, th) ELSE <<>>
  BY DEF MarksOf
<1>4. ~(Answers(full, i) /\ HandsOver(full, i))
  BY DEF Answers, HandsOver
<1>. HIDE DEF m, task, c, th
<1>5. CASE Answers(full, i)
  <2>1. /\ AnswerMarks(c) # <<>> /\ AnswerMarks(c)[1] = (IF c THEN "think_end" ELSE "eos")
        /\ AnswerMarks(c)[Len(AnswerMarks(c))] = "eos"
        /\ \A x \in 1 .. Len(AnswerMarks(c)) :
             x + 1 \in 1 .. Len(AnswerMarks(c)) => <<AnswerMarks(c)[x], AnswerMarks(c)[x + 1]>> \in Follows
    BY <1>2, AnswerMarksAre
  <2>2. m = AnswerMarks(c)
    BY <1>3, <1>5
  <2>. QED BY <2>1, <2>2, <1>4, <1>5 DEF m, task, c, th
<1>6. CASE HandsOver(full, i)
  <2>. DEFINE h == HandMarks(task, mode, th)
  <2>1. /\ h # <<>> /\ h[1] = (IF task \in {"action", NoTask} THEN "assistant" ELSE task)
        /\ h[Len(h)] = (IF task = NoTask THEN th ELSE task)
        /\ \A x \in 1 .. Len(h) : x + 1 \in 1 .. Len(h) => <<h[x], h[x + 1]>> \in Follows
    BY <1>1, <1>2, HandMarksAre
  <2>2. m = h
    BY <1>3, <1>4, <1>6
  <2>. HIDE DEF h
  <2>. QED BY <2>1, <2>2, <1>4, <1>6 DEF m, task, c, th
<1>7. CASE ~Answers(full, i) /\ ~HandsOver(full, i)
  <2>1. m = <<>>
    BY <1>3, <1>7
  <2>2. \A x : x \notin 1 .. Len(<<>>)
    OBVIOUS
  <2>. QED BY <2>1, <2>2, <1>7 DEF m, task, c, th
<1>. QED BY <1>5, <1>6, <1>7

\* A turn that is handed over is answered as it was left: with its thinking open or closed.
LEMMA AnswerFits ==
  ASSUME NEW full \in Seq(Merged), Alternates(full), NEW i \in 1 .. Len(full), NEW j \in 1 .. Len(full), i < j,
         HandsOver(full, i), Answers(full, j), \A k \in i + 1 .. j - 1 : ~Answers(full, k) /\ ~HandsOver(full, k),
         NEW mode, NEW drop
  PROVE  /\ full[i].task # NoTask => ~ClosesThinking(j, full, mode, drop)
         /\ full[i].task = NoTask => (ClosesThinking(j, full, mode, drop) <=> Think(i, full, mode, drop) = "think")
<1>1. Len(full) \in Nat /\ DOMAIN full = 1 .. Len(full) /\ i < Len(full) /\ j - 1 \in 1 .. Len(full)
  OBVIOUS
<1>2. \A k \in 1 .. Len(full) : full[k].role \in {"system", "developer", "user", "latest_reminder", "assistant"}
  <2>1. \A k \in 1 .. Len(full) : full[k] \in Merged
    OBVIOUS
  <2>. QED BY <2>1 DEF Merged, Roles
<1>3. \A k \in 1 .. Len(full) :
        /\ full[k].task # NoTask => full[k].role \in {"user", "developer"}
        /\ k < Len(full) /\ HandsOver(full, k) /\ full[k].task # NoTask => full[k + 1].role = "assistant"
        /\ k < Len(full) /\ full[k].role \in {"user", "developer"} => full[k + 1].role # "system"
  BY <1>1 DEF Alternates
<1>4. CASE full[i].task # NoTask
  <2>1. full[i + 1].role = "assistant"
    BY <1>1, <1>3, <1>4
  <2>2. j = i + 1
    <3>1. Answers(full, i + 1)
      BY <2>1 DEF Answers
    <3>2. i + 1 \notin i + 1 .. j - 1
      BY <3>1
    <3>. QED BY <3>2, <1>1
  <2>3. j > 1 /\ full[j - 1].task # NoTask
    BY <2>2, <1>4, <1>1
  <2>. QED BY <2>3, <1>4 DEF ClosesThinking
<1>5. CASE full[i].task = NoTask
  <2>. DEFINE u == LastUser(full)
  <2>1. /\ u \in 0 .. Len(full) /\ (u # 0 => full[u].role \in {"user", "developer"})
        /\ \A k \in 1 .. Len(full) : full[k].role \in {"user", "developer"} => k <= u
    BY LastUserIs
  <2>2. full[j - 1].task = NoTask
    <3>. SUFFICES ASSUME full[j - 1].task # NoTask PROVE FALSE
      OBVIOUS
    <3>1. full[j - 1].role \in {"user", "developer"}
      BY <1>1, <1>3
    <3>2. full[(j - 1) + 1].role = "assistant"
      <4>1. (j - 1) + 1 = j
        OBVIOUS
      <4>. QED BY <4>1 DEF Answers
    <3>3. HandsOver(full, j - 1)
      BY <3>1, <3>2 DEF HandsOver
    <3>4. j - 1 # i /\ j - 1 \in i + 1 .. j - 1
      BY <1>1, <1>5
    <3>. QED BY <3>3, <3>4
  <2>. HIDE DEF u
  <2>3. i < u => u > j
    <3>. SUFFICES ASSUME i < u, ~(u > j) PROVE FALSE
      OBVIOUS
    <3>1. u \in 1 .. Len(full) /\ full[u].role \in {"user", "developer"} /\ u # j
      <4>1. u \in 1 .. Len(full)
        BY <2>1
      <4>2. full[u].role \in {"user", "developer"}
        BY <2>1, <4>1
      <4>. QED BY <4>1, <4>2 DEF Answers
    <3>2. u \in i + 1 .. j - 1 /\ u < Len(full) /\ u + 1 \in 1 .. Len(full)
      BY <3>1, <1>1
    <3>3. ~HandsOver(full, u)
      BY <3>2
    <3>4. full[u + 1].role \notin {"assistant", "latest_reminder"} /\ full[u + 1].role # "system"
      BY <3>1, <3>2, <3>3, <1>3 DEF HandsOver
    <3>5. full[u + 1].role \in {"user", "developer"}
      BY <3>2, <3>4, <1>2
    <3>. QED BY <3>2, <3>5, <2>1
  <2>4. ClosesThinking(j, full, mode, drop) <=> mode = "thinking" /\ (~drop \/ j > u)
    BY <2>2 DEF ClosesThinking, u
  <2>5. Think(i, full, mode, drop) = "think" <=> mode = "thinking" /\ (~drop \/ i >= u)
    BY DEF Think, u
  <2>6. j > u <=> i >= u
    BY <2>1, <2>3
  <2>. QED BY <2>4, <2>5, <2>6, <1>5
<1>. QED BY <1>4, <1>5

\* The last mark of a message and the first of the next that has any.
LEMMA TurnsFollow ==
  ASSUME NEW full \in Seq(Merged), Alternates(full), NEW i \in 1 .. Len(full), NEW j \in 1 .. Len(full), i < j,
         NEW mode, NEW drop, NEW m, NEW n, m = MarksOf(i, full, mode, drop), n = MarksOf(j, full, mode, drop), m # <<>>, n # <<>>,
         \A k \in i + 1 .. j - 1 : MarksOf(k, full, mode, drop) = <<>>
  PROVE  <<m[Len(m)], n[1]>> \in Follows
<1>1. \A k \in i + 1 .. j - 1 : ~Answers(full, k) /\ ~HandsOver(full, k)
  <2>. SUFFICES ASSUME NEW k \in i + 1 .. j - 1 PROVE ~Answers(full, k) /\ ~HandsOver(full, k)
    OBVIOUS
  <2>1. k \in 1 .. Len(full)
    OBVIOUS
  <2>. QED BY <2>1, MarksOfAre
<1>2. /\ Answers(full, i) \/ HandsOver(full, i)
      /\ Answers(full, i) => m[Len(m)] = "eos"
      /\ HandsOver(full, i) => m[Len(m)] = (IF full[i].task = NoTask THEN Think(i, full, mode, drop) ELSE full[i].task)
  BY MarksOfAre
<1>3. /\ Answers(full, j) \/ HandsOver(full, j)
      /\ Answers(full, j) => n[1] = (IF ClosesThinking(j, full, mode, drop) THEN "think_end" ELSE "eos")
      /\ HandsOver(full, j) => n[1] = (IF full[j].task \in {"action", NoTask} THEN "assistant" ELSE full[j].task)
  BY MarksOfAre
<1>4. full[i].task \in Tasks \cup {NoTask} /\ full[j].task \in Tasks \cup {NoTask}
  <2>1. full[i] \in Merged /\ full[j] \in Merged
    OBVIOUS
  <2>. QED BY <2>1 DEF Merged
<1>5. j \in i + 1 .. Len(full) /\ DOMAIN full = 1 .. Len(full)
  OBVIOUS
<1>6. ~(HandsOver(full, i) /\ HandsOver(full, j)) /\ ~(Answers(full, i) /\ Answers(full, j))
  BY <1>1, <1>5 DEF Alternates
<1>7. CASE HandsOver(full, i) /\ Answers(full, j)
  <2>1. /\ full[i].task # NoTask => ~ClosesThinking(j, full, mode, drop)
        /\ full[i].task = NoTask => (ClosesThinking(j, full, mode, drop) <=> Think(i, full, mode, drop) = "think")
    BY <1>1, <1>7, AnswerFits
  <2>2. Think(i, full, mode, drop) \in {"think", "think_end"}
    BY DEF Think
  <2>3. CASE full[i].task = NoTask
    <3>1. <<"think", "think_end">> \in Follows /\ <<"think_end", "eos">> \in Follows
      BY DEF Follows
    <3>. QED BY <3>1, <2>1, <2>2, <2>3, <1>2, <1>3, <1>7
  <2>4. CASE full[i].task # NoTask
    <3>1. \A t \in Tasks : <<t, "eos">> \in Follows
      <4>1. <<"action", "eos">> \in Follows
        BY DEF Follows
      <4>2. \A t \in Tasks \ {"action"} : <<t, "eos">> \in Follows
        BY DEF Follows
      <4>. QED BY <4>1, <4>2
    <3>. QED BY <3>1, <2>1, <2>4, <1>2, <1>3, <1>4, <1>7
  <2>. QED BY <2>3, <2>4
<1>8. CASE Answers(full, i) /\ HandsOver(full, j)
  <2>1. <<"eos", "assistant">> \in Follows /\ \A t \in Tasks \ {"action"} : <<"eos", t>> \in Follows
    BY DEF Follows
  <2>. QED BY <2>1, <1>2, <1>3, <1>4, <1>8
<1>. QED BY <1>2, <1>3, <1>6, <1>7, <1>8

\* The messages of a prompt say words.
LEMMA PromptIsQuiet ==
  ASSUME NEW ctx \in Seq(Messages), NEW ms \in Seq(Messages), NEW mode, NEW drop, Answered(ctx), Wordy(ms),
         NEW k \in 1 .. Len(Rendered(ctx, ms, mode, drop))
  PROVE  Quiet(FullMessages(ctx, ms, mode, drop)[ContextLen(ctx, ms, mode, drop) + k])
<1>. DEFINE pp == Said(ctx, ms, mode, drop)  ss == Rendered(ctx, ms, mode, drop)
            msg == FullMessages(ctx, ms, mode, drop)[ContextLen(ctx, ms, mode, drop) + k]
<1>1. pp \in Seq(Seq(Seq(AnyTokens))) /\ k \in 1 .. Len(pp) /\ pp[k] = Pieces(msg)
  BY PromptShows
<1>2. PICK D, w : Placed(ctx, ms, FlattenSeq(pp), D, w)
  BY MessagesAreSaid
<1>3. /\ D \subseteq 1 .. Len(ms) /\ \A i \in D : FlattenSeq(pp)[w[i]] = ms[i].content
      /\ \A x \in 1 .. Len(FlattenSeq(pp)) : \E i \in D : w[i] = x
  BY <1>2 DEF Placed
<1>4. \A i \in 1 .. Len(ms) : Unmarked(ms[i].content)
  <2>. SUFFICES ASSUME NEW i \in 1 .. Len(ms) PROVE Unmarked(ms[i].content)
    OBVIOUS
  <2>1. ms[i] \in Messages /\ i \in DOMAIN ms
    OBVIOUS
  <2>. DEFINE c == ms[i].content
  <2>2. c \in Seq(Tokens)
    BY <2>1 DEF Messages
  <2>3. c \in Seq(AnyTokens) /\ DOMAIN c = 1 .. Len(c)
    BY <2>2, WordsAreTokens
  <2>4. \A p \in DOMAIN c : c[p].tok \notin Special
    BY <2>1 DEF Wordy
  <2>5. TurnMarks \subseteq Special
    BY DEF TurnMarks, Special
  <2>. HIDE DEF c
  <2>6. Unmarked(c)
    BY <2>3, <2>4, <2>5 DEF Unmarked
  <2>. QED BY <2>6 DEF c
<1>. HIDE DEF pp, msg
<1>5. ASSUME NEW b \in 1 .. Len(pp[k]) PROVE Unmarked(pp[k][b])
  <2>. DEFINE x == Ends(pp, k - 1) + b
  <2>1. FlattenSeq(pp)[x] = pp[k][b]
    <3>. DEFINE S == Seq(AnyTokens)
    <3>1. pp \in Seq(Seq(S))
      BY <1>1
    <3>. HIDE DEF S
    <3>. QED BY <3>1, <1>1, FlattenPlaces
  <2>2. x \in 1 .. Len(FlattenSeq(pp))
    <3>. DEFINE S == Seq(AnyTokens)
    <3>1. pp \in Seq(Seq(S)) /\ k \in 1 .. Len(pp) /\ b \in 1 .. Len(pp[k])
      BY <1>1
    <3>. HIDE DEF S
    <3>2. Ends(pp, k - 1) + b \in 1 .. Len(FlattenSeq(pp))
      BY ZenonT(60), <3>1, PlacesInOrder
    <3>. QED BY <3>2
  <2>. HIDE DEF x
  <2>3. PICK i \in D : w[i] = x
    BY <2>2, <1>3
  <2>. QED BY <2>1, <2>3, <1>3, <1>4
<1>6. Quiet(msg)
  BY <1>1, <1>5 DEF Quiet
<1>. QED BY <1>6 DEF msg

\* Two marks of a prompt with none between them follow each other as they may.
LEMMA TurnsOfPromptClose ==
  ASSUME NEW ctx \in Seq(Messages), NEW ms \in Seq(Messages), NEW mode, NEW drop, Answered(ctx), Wordy(ms),
         Alternates(FullMessages(ctx, ms, mode, drop)), NEW s, s = EncodeMessages(ctx, ms, mode, drop),
         NEW p \in 1 .. Len(s), NEW q \in 1 .. Len(s), p < q, s[p].tok \in TurnMarks, s[q].tok \in TurnMarks,
         \A k \in p + 1 .. q - 1 : s[k].tok \notin TurnMarks
  PROVE  <<s[p].tok, s[q].tok>> \in Follows
<1>. DEFINE ss == Rendered(ctx, ms, mode, drop)  full == FullMessages(ctx, ms, mode, drop)
            first == ContextLen(ctx, ms, mode, drop)  d == EffectiveDrop(AllMessages(ctx, ms), drop)
            f == FlattenSeq(ss)  b == IF ctx = <<>> THEN <<Tok("bos")>> ELSE <<>>
            mm == [k \in 1 .. Len(ss) |-> MarksOf(first + k, full, mode, d)]
<1>1. /\ ss \in Seq(Seq(AnyTokens)) /\ s = b \o f
      /\ \A k \in 1 .. Len(ss) : first + k \in 1 .. Len(full) /\ ss[k] = RenderMessage(first + k, full, mode, d)
  BY PromptShows, SMTT(60)
<1>2. full \in Seq(Merged) /\ first \in Nat /\ Alternates(full)
  BY FullIsTyped
<1>3. \A k \in 1 .. Len(ss) : Quiet(full[first + k])
  BY PromptIsQuiet
<1>4. Unmarked(b)
  <2>1. "bos" \in Special /\ "bos" \notin TurnMarks
    BY DEF Special, TurnMarks, Tasks
  <2>. DEFINE x == Tok("bos")
  <2>2. x \in AnyTokens /\ x.tok \notin TurnMarks
    BY <2>1, SpecialIsToken DEF Tok
  <2>. HIDE DEF x
  <2>3. Unmarked(<<x>>)
    BY <2>2, UnmarkedOne
  <2>4. Unmarked(<<>>)
    <3>1. <<>> \in Seq(AnyTokens) /\ Len(<<>>) = 0 /\ \A y : y \notin 1 .. 0
      OBVIOUS
    <3>. QED BY <3>1 DEF Unmarked
  <2>. QED BY <2>3, <2>4 DEF x
<1>. HIDE DEF ss, full, first, d, b
<1>5. \A k \in 1 .. Len(ss) : mm[k] = MarksOf(first + k, full, mode, d)
  OBVIOUS
<1>. HIDE DEF mm
<1>6. \A k \in 1 .. Len(ss) : Marked(ss[k], mm[k])
  <2>. SUFFICES ASSUME NEW k \in 1 .. Len(ss) PROVE Marked(ss[k], mm[k])
    OBVIOUS
  <2>. DEFINE i == first + k
  <2>1. i \in 1 .. Len(full) /\ Quiet(full[i]) /\ DOMAIN full = 1 .. Len(full)
    BY <1>1, <1>2, <1>3
  <2>. HIDE DEF i
  <2>2. full[i].task # NoTask => full[i].role \in {"user", "developer"}
    BY <2>1, <1>2 DEF Alternates
  <2>3. Marked(RenderMessage(i, full, mode, d), MarksOf(i, full, mode, d))
    BY <2>1, <2>2, <1>2, RenderIsMarked
  <2>. QED BY <2>3, <1>1, <1>5 DEF i
<1>7. f \in Seq(AnyTokens)
  BY <1>1, FlattenIsSeq
<1>. HIDE DEF f
<1>8. /\ Len(s) = Len(b) + Len(f) /\ Len(b) \in Nat /\ Len(f) \in Nat
      /\ (\A i \in 1 .. Len(b) : s[i] = b[i]) /\ (\A i \in 1 .. Len(f) : s[Len(b) + i] = f[i])
      /\ \A i \in 1 .. Len(b) + Len(f) : i \in 1 .. Len(b) \/ \E k \in 1 .. Len(f) : i = Len(b) + k
  <2>1. b \in Seq(AnyTokens)
    BY <1>4 DEF Unmarked
  <2>. QED BY <2>1, <1>1, <1>7, ConcatParts
<1>9. \A i \in 1 .. Len(b) : s[i].tok \notin TurnMarks
  BY <1>4, <1>8 DEF Unmarked
<1>10. PICK x \in 1 .. Len(f) : p = Len(b) + x
  BY <1>8, <1>9
<1>11. PICK y \in 1 .. Len(f) : q = Len(b) + y
  BY <1>8, <1>9
<1>12. x < y /\ f[x] = s[p] /\ f[y] = s[q]
  BY <1>8, <1>10, <1>11
<1>13. \A k \in x + 1 .. y - 1 : f[k].tok \notin TurnMarks
  <2>. SUFFICES ASSUME NEW k \in x + 1 .. y - 1 PROVE f[k].tok \notin TurnMarks
    OBVIOUS
  <2>1. k \in 1 .. Len(f) /\ Len(b) + k \in p + 1 .. q - 1
    BY <1>8, <1>10, <1>11
  <2>2. s[Len(b) + k] = f[k]
    BY <2>1, <1>8
  <2>. QED BY <2>1, <2>2
<1>14. NextMarks(f[x].tok, f[y].tok, mm, Len(ss))
  <2>1. f[x].tok \in TurnMarks /\ f[y].tok \in TurnMarks
    BY <1>12
  <2>2. ss \in Seq(Seq(AnyTokens)) /\ (\A k \in 1 .. Len(ss) : Marked(ss[k], mm[k])) /\ x < y
    BY <1>1, <1>6, <1>12
  <2>3. x \in 1 .. Len(FlattenSeq(ss)) /\ y \in 1 .. Len(FlattenSeq(ss))
        /\ FlattenSeq(ss)[x].tok \in TurnMarks /\ FlattenSeq(ss)[y].tok \in TurnMarks
        /\ \A k \in x + 1 .. y - 1 : FlattenSeq(ss)[k].tok \notin TurnMarks
    BY <2>1, <1>13 DEF f
  <2>4. NextMarks(FlattenSeq(ss)[x].tok, FlattenSeq(ss)[y].tok, mm, Len(ss))
    BY <2>2, <2>3, MarksAreNext
  <2>. QED BY <2>4 DEF f
<1>15. CASE \E k \in 1 .. Len(ss) : \E z \in 1 .. Len(mm[k]) :
              z + 1 \in 1 .. Len(mm[k]) /\ f[x].tok = mm[k][z] /\ f[y].tok = mm[k][z + 1]
  <2>1. PICK k \in 1 .. Len(ss) : \E z \in 1 .. Len(mm[k]) :
              z + 1 \in 1 .. Len(mm[k]) /\ f[x].tok = mm[k][z] /\ f[y].tok = mm[k][z + 1]
    BY <1>15
  <2>2. PICK z \in 1 .. Len(mm[k]) : z + 1 \in 1 .. Len(mm[k]) /\ f[x].tok = mm[k][z] /\ f[y].tok = mm[k][z + 1]
    BY <2>1
  <2>. DEFINE m == mm[k]
  <2>3. first + k \in 1 .. Len(full) /\ m = MarksOf(first + k, full, mode, d)
    BY <1>1, <1>5
  <2>4. \A v \in 1 .. Len(m) : v + 1 \in 1 .. Len(m) => <<m[v], m[v + 1]>> \in Follows
    <3>. HIDE DEF m
    <3>1. full \in Seq(Merged) /\ first + k \in 1 .. Len(full)
      BY <2>3, <1>2
    <3>2. \A v \in 1 .. Len(MarksOf(first + k, full, mode, d)) :
            v + 1 \in 1 .. Len(MarksOf(first + k, full, mode, d)) =>
              <<MarksOf(first + k, full, mode, d)[v], MarksOf(first + k, full, mode, d)[v + 1]>> \in Follows
      BY <3>1, MarksOfAre
    <3>. QED BY <3>2, <2>3
  <2>. QED BY <2>2, <2>4, <1>12
<1>16. CASE \E k, l \in 1 .. Len(ss) :
              /\ k < l /\ mm[k] # <<>> /\ mm[l] # <<>>
              /\ f[x].tok = mm[k][Len(mm[k])] /\ f[y].tok = mm[l][1]
              /\ \A c \in k + 1 .. l - 1 : mm[c] = <<>>
  <2>1. PICK k \in 1 .. Len(ss), l \in 1 .. Len(ss) :
              /\ k < l /\ mm[k] # <<>> /\ mm[l] # <<>>
              /\ f[x].tok = mm[k][Len(mm[k])] /\ f[y].tok = mm[l][1]
              /\ \A c \in k + 1 .. l - 1 : mm[c] = <<>>
    BY <1>16
  <2>. DEFINE i == first + k  j == first + l  m == mm[k]  n == mm[l]
  <2>2. i \in 1 .. Len(full) /\ j \in 1 .. Len(full) /\ i < j
    BY <1>1, <1>2, <2>1
  <2>3. m = MarksOf(i, full, mode, d) /\ n = MarksOf(j, full, mode, d)
    BY <1>5
  <2>4. ASSUME NEW c \in i + 1 .. j - 1 PROVE MarksOf(c, full, mode, d) = <<>>
    <3>. DEFINE e == c - first
    <3>1. e \in k + 1 .. l - 1 /\ e \in 1 .. Len(ss) /\ first + e = c
      <4>1. Len(ss) \in Nat
        BY <1>1
      <4>. QED BY <4>1, <1>2
    <3>. HIDE DEF e
    <3>. QED BY <3>1, <2>1, <1>5
  <2>5. m # <<>> /\ n # <<>>
    BY <2>1
  <2>. HIDE DEF i, j, m, n
  <2>6. <<m[Len(m)], n[1]>> \in Follows
    BY <2>2, <2>3, <2>4, <2>5, <1>2, TurnsFollow
  <2>. QED BY <2>1, <2>6, <1>12 DEF m, n
<1>. QED BY <1>14, <1>15, <1>16 DEF NextMarks

-----------------------------------------------------------------------------
(* The inductive invariant.                                                *)

\* The vision configuration: a cell has three patches or more on a side, and the budget leaves
\* solve_resize_ratio a size to return for every image. deepseek_v4.py has 3 and 384.
SizesAllowed == Downsample >= 3 /\ MaxTokens >= 11

Steps == {"load", "resize", "plan", "splice", "done", "raised"}
Symbols == {prompt[i] : i \in DOMAIN prompt} \cup Marks

RequestInv ==
  /\ request \in Requests /\ step \in Steps
  /\ tokens = EncodeMessages(request.context, request.messages, request.mode, request.drop)

\* The sizes: what is resized has rows and columns, and at most three tokens more than
\* the budget, from the second turn on.
Positive == Nat \ {0}
SizesInv ==
  /\ cells \in Seq(Positive \X Positive) /\ Len(cells) <= Len(images)
  /\ \A j \in 1 .. Len(cells) : GridTokens(cells[j][1], cells[j][2]) <= Limit
  /\ step \notin {"load", "resize", "raised"} => Len(cells) = Len(images)
  /\ step = "resize" =>
       /\ Len(cells) < Len(images)
       /\ cur \in [H : Positive, W : Positive, bh : Positive, bw : Positive, budget : Int]
       /\ cur.budget = Limit \/ (cur.budget < Limit /\ TokensOf(cur.bh, cur.bw) <= cur.budget + 3)

\* The plan: the images in order, each at the next placeholder.
EndOf(j) == IF j = 0 THEN 0 ELSE plan[j].at[2]
NoImg(a, b) == \A k \in a .. b : prompt[k] # "img"
Planned(j) ==
  /\ plan[j].item = j /\ plan[j].at = <<EndOf(j) - 1, EndOf(j)>>
  /\ EndOf(j) \in 1 .. Len(prompt) /\ EndOf(j - 1) < EndOf(j) /\ prompt[EndOf(j)] = "img"
  /\ NoImg(EndOf(j - 1) + 1, EndOf(j) - 1)
PlanInv ==
  /\ plan \in Seq([item : Nat, alt : Nat, at : Nat \X Nat]) /\ Len(plan) <= Len(images)
  /\ \A j \in 1 .. Len(plan) : Planned(j)
  /\ step \in {"load", "resize", "raised"} => plan = <<>> /\ left = {} /\ from = 0
  /\ step = "plan" => left = (Len(plan) + 1) .. Len(images) /\ from = EndOf(Len(plan))
  /\ step \in {"splice", "done"} =>
       /\ left \subseteq 1 .. Len(images)
       /\ Len(plan) = Len(images) \/ NoImg(EndOf(Len(plan)) + 1, Len(prompt))

\* The splice: the prompt is expanded up to the end of the last update written.
HoleSound(h) ==
  LET hole == holes[h]
      c == cells[h] IN
  /\ hole.item = h /\ hole.pad = CompressPad(hole.start)
  /\ hole.len = hole.pad + BlockLen(c[1], c[2])
  /\ hole.start + hole.len <= Len(out)
  /\ \A i \in 1 .. BlockLen(c[1], c[2]) : out[hole.start + hole.pad + i] = Block(c[1], c[2])[i]
SpliceInv ==
  /\ out \in Seq(Symbols)
  /\ holes \in Seq([item : Nat, start : Nat, pad : Nat, len : Nat]) /\ Len(holes) <= Len(plan)
  /\ step \notin {"splice", "done"} => holes = <<>> /\ out = <<>>
  /\ step \in {"splice", "done"} => from = EndOf(Len(holes)) /\ \A h \in 1 .. Len(holes) : HoleSound(h)
  /\ step = "splice" => out = ExpandedOf(prompt, cells)[from]
  /\ step = "done" => out = ExpandedOf(prompt, cells)[Len(prompt)]

PromptInv == RequestInv /\ SizesInv /\ PlanInv /\ SpliceInv

\* What the assumption says of the request at hand.
LEMMA RequestTyped ==
  ASSUME RequestInv
  PROVE  /\ images \in Seq(Positive \X Positive) /\ request.ratio \in Positive
         /\ Len(images) \in Nat /\ DOMAIN images = 1 .. Len(images)
         /\ prompt \in Seq(Symbols) /\ Len(prompt) \in Nat /\ DOMAIN prompt = 1 .. Len(prompt)
<1>1. request \in Requests
  BY DEF RequestInv
<1>2. Len(tokens) \in Nat /\ DOMAIN tokens = 1 .. Len(tokens)
  <2>1. request.context \in Seq(Messages) /\ request.messages \in Seq(Messages)
    BY <1>1, RequestAssumption
  <2>2. EncodeMessages(request.context, request.messages, request.mode, request.drop) \in Seq(AnyTokens)
    BY <2>1, PromptShows
  <2>3. tokens \in Seq(AnyTokens)
    BY <2>2 DEF RequestInv
  <2>. QED BY <2>3
<1>3. images \in Seq(Positive \X Positive) /\ request.ratio \in Positive
  BY <1>1, RequestAssumption DEF images, Positive
<1>4. prompt \in [1 .. Len(tokens) -> Symbols]
  <2>1. DOMAIN prompt = 1 .. Len(tokens)
    BY <1>2 DEF prompt
  <2>2. \A i \in DOMAIN prompt : prompt[i] \in Symbols
    BY DEF Symbols
  <2>3. prompt = [i \in 1 .. Len(tokens) |-> prompt[i]]
    BY <1>2 DEF prompt
  <2>. QED BY <2>1, <2>2, <2>3
<1>5. prompt \in Seq(Symbols)
  BY <1>2, <1>4
<1>. QED BY <1>3, <1>5, LenProperties

\* Every image has the same update.
LEMMA UpdatesAre ==
  ASSUME RequestInv
  PROVE  Updates = [i \in 1 .. Len(images) |-> ReplaceImg]
BY RequestTyped DEF Updates, ReplaceImg

\* The prompt without the planner, of the state at hand.
LEMMA ExpandedIs == Expanded = ExpandedOf(prompt, cells)
BY DEF Expanded, ExpandedOf, IsExpanded, Grown, Stays, Seen, SeenIn

\* A request begins in the invariant.
LEMMA InitIsSound == Init => PromptInv
<1>. SUFFICES ASSUME Init PROVE PromptInv
  OBVIOUS
<1>1. RequestInv
  BY DEF Init, RequestInv, Steps
<1>2. Len(images) \in Nat /\ Len(prompt) \in Nat
  BY <1>1, RequestTyped
<1>3. cells = <<>> /\ step = "load" /\ plan = <<>> /\ left = {} /\ from = 0 /\ out = <<>> /\ holes = <<>>
  BY DEF Init
<1>4. SizesInv
  BY <1>2, <1>3, EmptySeq DEF SizesInv
<1>5. PlanInv
  BY <1>2, <1>3, EmptySeq DEF PlanInv
<1>6. SpliceInv
  BY <1>2, <1>3, EmptySeq DEF SpliceInv
<1>. QED BY <1>1, <1>4, <1>5, <1>6 DEF PromptInv

-----------------------------------------------------------------------------
(* Every action keeps the invariant: the sizes.                            *)

Early == {"load", "resize", "raised"}

\* The chat and its prompt stay what they are.
LEMMA RequestStays ==
  ASSUME RequestInv, UNCHANGED <<request, tokens>>, step' \in Steps
  PROVE  RequestInv' /\ prompt' = prompt /\ images' = images /\ Symbols' = Symbols
<1>1. prompt' = prompt
  BY DEF prompt
<1>2. Symbols' = Symbols
  BY <1>1 DEF Symbols
<1>. QED BY <1>1, <1>2 DEF RequestInv, images

\* While images are loaded, nothing is planned and nothing written.
LEMMA NothingPlanned ==
  ASSUME RequestInv, PlanInv, SpliceInv, step \in Early, step' \in Early,
         UNCHANGED <<request, tokens, left, plan, from, out, holes>>
  PROVE  PlanInv' /\ SpliceInv'
<1>1. step' \in Steps
  BY DEF Early, Steps
<1>2. prompt' = prompt /\ images' = images /\ Symbols' = Symbols
  BY <1>1, RequestStays
<1>3. plan = <<>> /\ left = {} /\ from = 0 /\ holes = <<>> /\ out = <<>>
  BY DEF PlanInv, SpliceInv, Early
<1>4. step' \notin {"plan", "splice", "done"} /\ step \notin {"plan", "splice", "done"}
  BY DEF Early
<1>5. Len(plan) = 0
  BY <1>3
<1>6. PlanInv'
  BY <1>2, <1>3, <1>4, <1>5 DEF PlanInv
<1>7. SpliceInv'
  BY <1>2, <1>3, <1>4 DEF SpliceInv
<1>. QED BY <1>6, <1>7

\* load_image: an image has rows and columns in patches, whatever its size in pixels.
LEMMA LoadStep == PromptInv /\ Load => PromptInv'
<1>. SUFFICES ASSUME PromptInv, Load PROVE PromptInv'
  OBVIOUS
<1>1. RequestInv /\ SizesInv /\ PlanInv /\ SpliceInv
  BY DEF PromptInv
<1>2. step = "load" /\ step' = "resize" /\ Len(cells) < Len(images)
      /\ UNCHANGED <<request, tokens, cells, left, plan, from, out, holes>>
  BY DEF Load
<1>3. step' \in Steps /\ step \in Early /\ step' \in Early
  BY <1>2 DEF Steps, Early
<1>4. RequestInv' /\ images' = images
  BY <1>1, <1>2, <1>3, RequestStays
<1>5. PlanInv' /\ SpliceInv'
  BY <1>1, <1>2, <1>3, NothingPlanned
<1>6. cells \in Seq(Positive \X Positive) /\ \A j \in 1 .. Len(cells) : GridTokens(cells[j][1], cells[j][2]) <= Limit
  BY <1>1 DEF SizesInv
<1>7. cur' \in [H : Positive, W : Positive, bh : Positive, bw : Positive, budget : Int] /\ cur'.budget = Limit
  <2>1. PICK s \in Scaled(images[Len(cells) + 1][1], images[Len(cells) + 1][2], request.ratio) :
          cur' = [H |-> s[1], W |-> s[2], bh |-> CeilDiv(s[1], PatchSize), bw |-> CeilDiv(s[2], PatchSize),
                  budget |-> Limit]
    BY DEF Load
  <2>2. images \in Seq(Positive \X Positive) /\ request.ratio \in Positive
    BY <1>1, RequestTyped
  <2>3. Len(cells) + 1 \in 1 .. Len(images)
    BY <1>2, <1>6, <2>2
  <2>4. images[Len(cells) + 1] \in Positive \X Positive
    BY <2>2, <2>3
  <2>5. images[Len(cells) + 1][1] \in Positive /\ images[Len(cells) + 1][2] \in Positive
    BY <2>4
  <2>6. s[1] \in Positive /\ s[2] \in Positive
    BY <2>1, <2>2, <2>5, ScaledIsPositive, ImageAssumption DEF Positive
  <2>7. CeilDiv(s[1], PatchSize) \in Positive /\ CeilDiv(s[2], PatchSize) \in Positive
    BY <2>6, CeilDivBounds, ImageAssumption DEF Positive
  <2>8. Limit \in Int
    BY ImageAssumption DEF Limit, CompressPadTo
  <2>. QED BY <2>1, <2>6, <2>7, <2>8
<1>8. SizesInv'
  <2>1. Len(cells)' = Len(cells) /\ Len(images)' = Len(images)
    BY <1>2, <1>4
  <2>. QED BY <1>2, <1>4, <1>6, <1>7, <2>1 DEF SizesInv
<1>. QED BY <1>4, <1>5, <1>8 DEF PromptInv

\* A size in patches and a budget are replaced.
LEMMA SizeReplaced ==
  ASSUME NEW P, NEW c \in [H : P, W : P, bh : P, bw : P, budget : Int],
         NEW x \in P, NEW y \in P, NEW z \in Int,
         NEW d, d = [c EXCEPT !.bh = x, !.bw = y, !.budget = z]
  PROVE  /\ d \in [H : P, W : P, bh : P, bw : P, budget : Int]
         /\ d.bh = x /\ d.bw = y /\ d.budget = z
  OBVIOUS

\* A turn of safe_resize: the budget is still at least 6, so that what solve_resize_ratio
\* returns has rows, columns, and at most two tokens more than the budget.
LEMMA ShrinkStep == SizesAllowed /\ PromptInv /\ Shrink => PromptInv'
<1>. SUFFICES ASSUME SizesAllowed, PromptInv, Shrink PROVE PromptInv'
  OBVIOUS
<1>1. RequestInv /\ SizesInv /\ PlanInv /\ SpliceInv
  BY DEF PromptInv
<1>2. step = "resize" /\ TokensOf(cur.bh, cur.bw) > Limit
      /\ UNCHANGED <<request, tokens, cells, left, plan, from, out, holes>>
  BY DEF Shrink
<1>3. step' \in Steps /\ step \in Early /\ step' \in Early
  BY <1>2 DEF Shrink, Steps, Early
<1>4. RequestInv' /\ images' = images
  BY <1>1, <1>2, <1>3, RequestStays
<1>5. PlanInv' /\ SpliceInv'
  BY <1>1, <1>2, <1>3, NothingPlanned
<1>6. /\ cells \in Seq(Positive \X Positive) /\ Len(cells) < Len(images)
      /\ \A j \in 1 .. Len(cells) : GridTokens(cells[j][1], cells[j][2]) <= Limit
      /\ cur \in [H : Positive, W : Positive, bh : Positive, bw : Positive, budget : Int]
      /\ cur.budget = Limit \/ (cur.budget < Limit /\ TokensOf(cur.bh, cur.bw) <= cur.budget + 3)
  BY <1>1, <1>2 DEF SizesInv
<1>7. Len(cells)' = Len(cells) /\ Len(images)' = Len(images) /\ Len(images) \in Nat
  BY <1>1, <1>2, <1>4, RequestTyped
<1>8. CASE Candidates(cur) = {}
  <2>1. step' = "raised"
    BY <1>8 DEF Shrink
  <2>. QED
    <3>1. SizesInv'
      BY <1>2, <1>4, <1>6, <1>7, <2>1 DEF SizesInv
    <3>. QED BY <1>4, <1>5, <3>1 DEF PromptInv
<1>9. CASE Candidates(cur) # {}
  <2>1. step' = "resize"
    BY <1>2, <1>9 DEF Shrink
  <2>2. PICK b \in Candidates(cur) : cur' = [cur EXCEPT !.bh = b[1], !.bw = b[2], !.budget = Lower(@)]
    BY <1>9 DEF Shrink
  <2>3. Limit \in Int /\ Limit >= 8 /\ Downsample \in Nat /\ Downsample >= 3
    BY ImageAssumption DEF SizesAllowed, Limit, CompressPadTo
  <2>4. cur.budget \in Int /\ cur.H \in Positive /\ cur.W \in Positive
    BY <1>6
  <2>5. cur.budget \in Nat /\ cur.budget >= 6 /\ cur.budget <= Limit
    <3>1. CASE cur.budget = Limit
      BY <2>3, <3>1
    <3>2. CASE cur.budget < Limit /\ TokensOf(cur.bh, cur.bw) <= cur.budget + 3
      <4>1. TokensOf(cur.bh, cur.bw) \in Int
        <5>1. cur.bh \in Positive /\ cur.bw \in Positive
          BY <1>6
        <5>2. CeilDiv(cur.bh, Downsample) \in Nat /\ CeilDiv(cur.bw, Downsample) \in Nat
          BY <5>1, CeilDivBounds, ImageAssumption DEF Positive
        <5>3. GridTokens(CeilDiv(cur.bh, Downsample), CeilDiv(cur.bw, Downsample)) \in Nat
          BY <5>2, BlockLengths, Zenon
        <5>. QED BY <5>3 DEF TokensOf, Cells
      <4>. QED BY <1>2, <2>3, <2>4, <3>2, <4>1
    <3>. QED BY <1>6, <3>1, <3>2
  <2>6. b[1] \in Positive /\ b[2] \in Positive /\ TokensOf(b[1], b[2]) <= cur.budget + 2
    BY <2>2, <2>3, <2>4, <2>5, ResizeFits DEF Candidates, Positive
  <2>7. /\ cur' \in [H : Positive, W : Positive, bh : Positive, bw : Positive, budget : Int]
        /\ cur'.bh = b[1] /\ cur'.bw = b[2] /\ cur'.budget = cur.budget - 1
    <3>1. cur' = [cur EXCEPT !.bh = b[1], !.bw = b[2], !.budget = cur.budget - 1]
      BY <2>2 DEF Lower
    <3>2. cur.budget - 1 \in Int
      BY <2>4
    <3>3. \A x, y \in Positive, z \in Int : cur' = [cur EXCEPT !.bh = x, !.bw = y, !.budget = z] =>
            /\ cur' \in [H : Positive, W : Positive, bh : Positive, bw : Positive, budget : Int]
            /\ cur'.bh = x /\ cur'.bw = y /\ cur'.budget = z
      BY <1>6, SizeReplaced, ZenonT(60)
    <3>. QED BY <2>6, <3>1, <3>2, <3>3, Zenon
  <2>8. TokensOf(cur.bh, cur.bw)' = TokensOf(b[1], b[2])
    BY <2>7 DEF TokensOf, Cells
  <2>9. cur'.budget < Limit /\ cur'.budget + 3 = cur.budget + 2
    BY <2>3, <2>4, <2>5, <2>7
  <2>10. SizesInv'
    BY <1>2, <1>4, <1>6, <1>7, <2>1, <2>6, <2>7, <2>8, <2>9 DEF SizesInv
  <2>. QED BY <1>4, <1>5, <2>10 DEF PromptInv
<1>. QED BY <1>8, <1>9

\* An image that fits gets its cells.
LEMMA BuildStep == PromptInv /\ Build => PromptInv'
<1>. SUFFICES ASSUME PromptInv, Build PROVE PromptInv'
  OBVIOUS
<1>1. RequestInv /\ SizesInv /\ PlanInv /\ SpliceInv
  BY DEF PromptInv
<1>2. step = "resize" /\ step' = "load" /\ TokensOf(cur.bh, cur.bw) <= Limit
      /\ cells' = Append(cells, Cells(cur.bh, cur.bw))
      /\ UNCHANGED <<request, tokens, left, plan, from, out, holes>>
  BY DEF Build
<1>3. step' \in Steps /\ step \in Early /\ step' \in Early
  BY <1>2 DEF Steps, Early
<1>4. RequestInv' /\ images' = images
  BY <1>1, <1>2, <1>3, RequestStays
<1>5. PlanInv' /\ SpliceInv'
  BY <1>1, <1>2, <1>3, NothingPlanned
<1>6. /\ cells \in Seq(Positive \X Positive) /\ Len(cells) < Len(images)
      /\ \A j \in 1 .. Len(cells) : GridTokens(cells[j][1], cells[j][2]) <= Limit
      /\ cur.bh \in Positive /\ cur.bw \in Positive
  BY <1>1, <1>2 DEF SizesInv
<1>7. Len(images)' = Len(images) /\ Len(images) \in Nat
  BY <1>1, <1>4, RequestTyped
<1>. DEFINE c == Cells(cur.bh, cur.bw)
<1>8. c \in Positive \X Positive /\ GridTokens(c[1], c[2]) <= Limit
  <2>1. CeilDiv(cur.bh, Downsample) \in Positive /\ CeilDiv(cur.bw, Downsample) \in Positive
    BY <1>6, CeilDivBounds, ImageAssumption DEF Positive
  <2>2. c \in Positive \X Positive
    BY <2>1 DEF Cells
  <2>. QED BY <1>2, <2>2 DEF TokensOf
<1>. HIDE DEF c
<1>9. cells' = Append(cells, c)
  BY <1>2 DEF c
<1>10. /\ cells' \in Seq(Positive \X Positive) /\ Len(cells') = Len(cells) + 1
       /\ cells'[Len(cells) + 1] = c /\ \A j \in 1 .. Len(cells) : cells'[j] = cells[j]
  BY <1>6, <1>8, <1>9
<1>11. ASSUME NEW j \in 1 .. Len(cells') PROVE GridTokens(cells'[j][1], cells'[j][2]) <= Limit
  <2>1. CASE j = Len(cells) + 1
    BY <1>8, <1>10, <2>1
  <2>2. CASE j # Len(cells) + 1
    <3>1. j \in 1 .. Len(cells)
      BY <1>6, <1>10, <2>2
    <3>2. cells'[j] = cells[j]
      BY <1>10, <3>1
    <3>. QED BY <1>6, <3>1, <3>2
  <2>. QED BY <2>1, <2>2
<1>12. SizesInv'
  <2>1. Len(cells') <= Len(images)
    BY <1>6, <1>7, <1>10
  <2>. QED BY <1>2, <1>4, <1>10, <1>11, <2>1 DEF SizesInv
<1>. QED BY <1>4, <1>5, <1>12 DEF PromptInv

\* All images have their cells: planning begins.
LEMMA PlanStep == PromptInv /\ Plan => PromptInv'
<1>. SUFFICES ASSUME PromptInv, Plan PROVE PromptInv'
  OBVIOUS
<1>1. RequestInv /\ SizesInv /\ PlanInv /\ SpliceInv
  BY DEF PromptInv
<1>2. step = "load" /\ step' = "plan" /\ Len(cells) = Len(images) /\ left' = DOMAIN images
      /\ UNCHANGED <<request, tokens, cur, cells, plan, from, out, holes>>
  BY DEF Plan
<1>3. RequestInv' /\ images' = images /\ prompt' = prompt /\ Symbols' = Symbols
  BY <1>1, <1>2, RequestStays DEF Steps
<1>4. DOMAIN images = 1 .. Len(images) /\ Len(images) \in Nat
  BY <1>1, RequestTyped
<1>5. SizesInv'
  BY <1>1, <1>2, <1>3 DEF SizesInv
<1>6. plan = <<>> /\ from = 0 /\ holes = <<>> /\ out = <<>>
  BY <1>1, <1>2 DEF PlanInv, SpliceInv
<1>7. PlanInv'
  <2>1. Len(plan') = 0 /\ plan' = <<>> /\ from' = 0 /\ left' = 1 .. Len(images')
    BY <1>2, <1>3, <1>4, <1>6
  <2>. QED BY <1>1, <1>2, <1>3, <1>4, <1>6, <2>1 DEF PlanInv, EndOf
<1>8. SpliceInv'
  BY <1>1, <1>2, <1>3, <1>6 DEF SpliceInv
<1>. QED BY <1>3, <1>5, <1>7, <1>8 DEF PromptInv

-----------------------------------------------------------------------------
(* Every action keeps the invariant: the planner.                          *)

\* A turn of the planner: it places the next image at the next placeholder, and stops when
\* there is no image left or no placeholder.
LEMMA PlanTurnStep == PromptInv /\ PlanTurn => PromptInv'
<1>. SUFFICES ASSUME PromptInv, PlanTurn PROVE PromptInv'
  OBVIOUS
<1>. DEFINE applied == Turn(Updates, prompt, left, from)
<1>1. RequestInv /\ SizesInv /\ PlanInv /\ SpliceInv
  BY DEF PromptInv
<1>2. PICK I, L, a : I = Len(images) /\ L = Len(plan) /\ a = from
  OBVIOUS
<1>3. step = "plan" /\ UNCHANGED <<request, tokens, cur, cells, out, holes>>
  BY DEF PlanTurn
<1>4. IF applied = <<>> THEN step' = "splice" /\ from' = 0 /\ UNCHANGED <<left, plan>>
      ELSE /\ plan' = plan \o applied /\ left' = Unplaced(applied)
           /\ from' = applied[Len(applied)].at[2] /\ UNCHANGED step
  BY DEF PlanTurn
<1>5. step' \in Steps
  BY <1>3, <1>4 DEF Steps
<1>6. RequestInv' /\ images' = images /\ prompt' = prompt /\ Symbols' = Symbols
  BY <1>1, <1>3, <1>5, RequestStays
<1>7. I \in Nat /\ prompt \in Seq(Symbols) /\ Len(prompt) \in Nat
  BY <1>1, <1>2, RequestTyped
<1>8. /\ plan \in Seq([item : Nat, alt : Nat, at : Nat \X Nat]) /\ L <= I
      /\ \A j \in 1 .. L : Planned(j)
      /\ left = (L + 1) .. I /\ a = EndOf(L)
  BY <1>1, <1>3, <1>2 DEF PlanInv
<1>9. L \in Nat /\ L \in 0 .. I
  BY <1>7, <1>8, <1>2
<1>10. a \in Nat /\ a <= Len(prompt)
  <2>1. CASE L = 0
    BY <1>7, <1>8, <2>1 DEF EndOf
  <2>2. CASE L # 0
    <3>1. L \in 1 .. L
      BY <1>9, <2>2
    <3>2. EndOf(L) \in 1 .. Len(prompt)
      BY <1>8, <3>1 DEF Planned
    <3>. QED BY <1>7, <1>8, <3>2
  <2>. QED BY <2>1, <2>2
<1>11. holes = <<>> /\ out = <<>>
  BY <1>1, <1>3 DEF SpliceInv
<1>12. /\ (L = I \/ ImgFrom(prompt, a) = {}) => applied = <<>>
       /\ L < I => \A s \in ImgFrom(prompt, a) : (\A t \in ImgFrom(prompt, a) : s <= t) =>
            applied = <<[item |-> L + 1, alt |-> 1, at |-> <<s, s + 1>>]>>
  <2>1. Updates = [i \in 1 .. I |-> ReplaceImg]
    BY <1>1, <1>2, UpdatesAre
  <2>2. LET turn == Turn([i \in 1 .. I |-> ReplaceImg], prompt, (L + 1) .. I, a) IN
        /\ (L = I \/ ImgFrom(prompt, a) = {}) => turn = <<>>
        /\ L < I => \A s \in ImgFrom(prompt, a) : (\A t \in ImgFrom(prompt, a) : s <= t) =>
             turn = <<[item |-> L + 1, alt |-> 1, at |-> <<s, s + 1>>]>>
    BY <1>7, <1>9, <1>10, TurnOfImages
  <2>3. applied = Turn([i \in 1 .. I |-> ReplaceImg], prompt, (L + 1) .. I, a)
    BY <1>8, <1>2, <2>1
  <2>. HIDE DEF applied
  <2>. QED BY <2>2, <2>3
<1>13. SizesInv'
  BY <1>1, <1>3, <1>4, <1>6 DEF SizesInv
<1>. HIDE DEF applied
<1>14. CASE L = I \/ ImgFrom(prompt, a) = {}
  <2>1. step' = "splice" /\ from' = 0 /\ left' = left /\ plan' = plan
    BY <1>4, <1>12, <1>14
  <2>2. L = I \/ NoImg(EndOf(L) + 1, Len(prompt))
    <3>1. ASSUME ImgFrom(prompt, a) = {}, NEW k \in a + 1 .. Len(prompt)
          PROVE  prompt[k] # "img"
      <4>1. k - 1 \in a .. Len(prompt) - 1 /\ (k - 1) + 1 = k
        BY <1>7, <1>10
      <4>2. prompt[(k - 1) + 1] # "img"
        BY <3>1, <4>1 DEF ImgFrom
      <4>. QED BY <4>1, <4>2
    <3>. QED BY <1>8, <1>14, <3>1 DEF NoImg
  <2>3. left \subseteq 1 .. I
    BY <1>8, <1>9
  <2>4. PlanInv'
    <3>1. \A j \in 1 .. L : Planned(j)'
      BY <1>6, <1>8, <2>1 DEF Planned, EndOf, NoImg
    <3>2. Len(plan') = L /\ Len(images') = I
      BY <1>6, <1>2, <2>1
    <3>3. (Len(plan) = Len(images) \/ NoImg(EndOf(Len(plan)) + 1, Len(prompt)))'
      BY <1>6, <1>2, <2>1, <2>2 DEF NoImg, EndOf
    <3>. QED BY <1>8, <2>1, <2>3, <3>1, <3>2, <3>3, <1>6 DEF PlanInv
  <2>5. SpliceInv'
    <3>1. ExpandedOf(prompt, cells)[0] = <<>>
      BY <1>7, ExpandedSteps
    <3>2. ExpandedOf(prompt, cells)' = ExpandedOf(prompt, cells)
      BY <1>3, <1>6
    <3>3. Len(holes') = 0 /\ Len(plan') = L /\ Len(holes') <= Len(plan')
      BY <1>3, <1>2, <1>9, <1>11, <2>1
    <3>4. holes' = <<>> /\ out' = <<>> /\ from' = 0 /\ step' = "splice"
      BY <1>3, <1>11, <2>1
    <3>5. out' \in Seq(Symbols') /\ holes' \in Seq([item : Nat, start : Nat, pad : Nat, len : Nat])
      BY <3>4
    <3>6. from' = EndOf(Len(holes))' /\ \A h \in 1 .. Len(holes') : HoleSound(h)'
      BY <3>3, <3>4 DEF EndOf
    <3>7. out' = ExpandedOf(prompt, cells)'[from']
      BY <3>1, <3>2, <3>4
    <3>. QED BY <3>3, <3>4, <3>5, <3>6, <3>7 DEF SpliceInv
  <2>. QED BY <1>6, <1>13, <2>4, <2>5 DEF PromptInv
<1>15. CASE L < I /\ ImgFrom(prompt, a) # {}
  <2>1. PICK s \in ImgFrom(prompt, a) : \A t \in ImgFrom(prompt, a) : s <= t
    <3>1. ImgFrom(prompt, a) \in SUBSET Nat
      BY <1>7, <1>10 DEF ImgFrom
    <3>. QED BY <1>15, <3>1, SmallestOfSet
  <2>2. s \in Nat /\ s >= a /\ s + 1 <= Len(prompt) /\ prompt[s + 1] = "img"
    BY <1>7, <1>10 DEF ImgFrom
  <2>. DEFINE u == [item |-> L + 1, alt |-> 1, at |-> <<s, s + 1>>]
  <2>3. applied = <<u>>
    BY <1>12, <1>15, <2>1
  <2>4. u \in [item : Nat, alt : Nat, at : Nat \X Nat] /\ u.item = L + 1 /\ u.at = <<s, s + 1>> /\ u.at[2] = s + 1
    BY <1>9, <2>2
  <2>. HIDE DEF u
  <2>5. <<u>> # <<>> /\ Len(<<u>>) = 1 /\ DOMAIN <<u>> = {1} /\ <<u>>[1] = u
    OBVIOUS
  <2>6. plan' = plan \o <<u>> /\ left' = Unplaced(<<u>>) /\ from' = s + 1 /\ step' = "plan"
    BY <1>3, <1>4, <2>3, <2>4, <2>5
  <2>7. left' = (L + 2) .. I
    <3>1. left' = left \ {L + 1}
      BY <2>4, <2>5, <2>6 DEF Unplaced
    <3>. QED BY <1>7, <1>8, <1>9, <3>1
  <2>8. /\ plan' \in Seq([item : Nat, alt : Nat, at : Nat \X Nat]) /\ Len(plan') = L + 1
        /\ plan'[L + 1] = u /\ \A j \in 1 .. L : plan'[j] = plan[j]
    BY <1>8, <1>9, <1>2, <2>4, <2>6
  <2>9. \A j \in 0 .. L : EndOf(j)' = EndOf(j)
    <3>1. \A j \in 0 .. L : j = 0 \/ plan'[j] = plan[j]
      BY <1>9, <2>8
    <3>2. \A j : (j = 0 \/ plan'[j] = plan[j]) => EndOf(j)' = EndOf(j)
      BY Zenon DEF EndOf
    <3>. QED BY <3>1, <3>2
  <2>10. EndOf(L + 1)' = s + 1
    BY <1>9, <2>4, <2>8 DEF EndOf
  <2>11. ASSUME NEW j \in 1 .. L PROVE Planned(j)'
    <3>1. EndOf(j)' = EndOf(j) /\ EndOf(j - 1)' = EndOf(j - 1)
      BY <1>9, <2>9
    <3>2. plan'[j] = plan[j] /\ Planned(j)
      BY <1>8, <2>8
    <3>. QED BY <1>6, <3>1, <3>2 DEF Planned, NoImg
  <2>12. Planned(L + 1)'
    <3>1. EndOf((L + 1) - 1)' = a
      BY <1>8, <1>9, <2>9
    <3>2. \A k \in a + 1 .. s : prompt[k] # "img"
      <4>. SUFFICES ASSUME NEW k \in a + 1 .. s, prompt[k] = "img" PROVE FALSE
        OBVIOUS
      <4>1. k - 1 \in a .. Len(prompt) - 1 /\ (k - 1) + 1 = k /\ k - 1 < s
        BY <1>7, <1>10, <2>2
      <4>2. k - 1 \in ImgFrom(prompt, a)
        BY <4>1 DEF ImgFrom
      <4>. QED BY <2>1, <2>2, <4>1, <4>2
    <3>3. NoImg(a + 1, s)'
      BY <1>6, <3>2 DEF NoImg
    <3>4. s + 1 \in 1 .. Len(prompt) /\ a < s + 1 /\ (s + 1) - 1 = s
      BY <1>7, <1>10, <2>2
    <3>. QED BY <1>6, <2>2, <2>4, <2>8, <2>10, <3>1, <3>3, <3>4 DEF Planned
  <2>13. PlanInv'
    <3>1. \A j \in 1 .. Len(plan') : Planned(j)'
      <4>1. \A j \in 1 .. Len(plan') : j \in 1 .. L \/ j = L + 1
        BY <1>9, <2>8
      <4>. QED BY <2>11, <2>12, <4>1
    <3>2. Len(plan') <= Len(images')
      BY <1>6, <1>2, <1>7, <1>9, <1>15, <2>8
    <3>3. left' = (Len(plan') + 1) .. Len(images')
      BY <1>6, <1>2, <1>9, <2>7, <2>8
    <3>4. from' = EndOf(Len(plan))'
      BY <2>6, <2>8, <2>10
    <3>. QED BY <2>6, <2>8, <3>1, <3>2, <3>3, <3>4 DEF PlanInv
  <2>14. SpliceInv'
    <3>1. Len(holes') = 0 /\ Len(holes') <= Len(plan')
      BY <1>3, <1>9, <1>11, <2>8
    <3>2. holes' = <<>> /\ out' = <<>>
      BY <1>3, <1>11
    <3>. QED BY <2>6, <3>1, <3>2 DEF SpliceInv
  <2>. QED BY <1>6, <1>13, <2>13, <2>14 DEF PromptInv
<1>. QED BY <1>9, <1>7, <1>14, <1>15

-----------------------------------------------------------------------------
(* Every action keeps the invariant: the splice.                           *)

\* Three texts after each other: what stands where.
LEMMA ThreeTexts ==
  ASSUME NEW U, NEW s \in Seq(U), NEW t \in Seq(U), NEW u \in Seq(U)
  PROVE  LET w == s \o t \o u IN
         /\ w \in Seq(U) /\ Len(w) = Len(s) + Len(t) + Len(u)
         /\ \A i \in 1 .. Len(s) : w[i] = s[i]
         /\ \A i \in 1 .. Len(u) : w[Len(s) + Len(t) + i] = u[i]
<1>. DEFINE v == s \o t
            w == v \o u
<1>1. /\ v \in Seq(U) /\ Len(v) = Len(s) + Len(t) /\ \A i \in 1 .. Len(s) : v[i] = s[i]
  BY ConcatProperties
<1>2. Len(s) \in Nat /\ Len(t) \in Nat /\ Len(u) \in Nat
  OBVIOUS
<1>. HIDE DEF v
<1>3. /\ w \in Seq(U) /\ Len(w) = Len(v) + Len(u)
      /\ \A i \in 1 .. Len(v) + Len(u) : w[i] = IF i <= Len(v) THEN v[i] ELSE u[i - Len(v)]
  <2>1. \A x, y \in Seq(U) : /\ x \o y \in Seq(U) /\ Len(x \o y) = Len(x) + Len(y)
                             /\ \A i \in 1 .. Len(x) + Len(y) :
                                  (x \o y)[i] = IF i <= Len(x) THEN x[i] ELSE y[i - Len(x)]
    BY ConcatProperties, Zenon
  <2>2. v \in Seq(U) /\ u \in Seq(U)
    BY <1>1
  <2>. QED BY <2>1, <2>2, Zenon
<1>. HIDE DEF w
<1>4. \A i \in 1 .. Len(s) : w[i] = s[i]
  BY <1>1, <1>2, <1>3
<1>5. \A i \in 1 .. Len(u) : w[Len(s) + Len(t) + i] = u[i]
  <2>. SUFFICES ASSUME NEW i \in 1 .. Len(u) PROVE w[Len(s) + Len(t) + i] = u[i]
    OBVIOUS
  <2>1. Len(v) + i \in 1 .. Len(v) + Len(u) /\ ~(Len(v) + i <= Len(v)) /\ (Len(v) + i) - Len(v) = i
    BY <1>1, <1>2
  <2>. QED BY <1>1, <1>3, <2>1
<1>6. w = s \o t \o u
  BY DEF w, v
<1>. QED BY <1>1, <1>3, <1>4, <1>5, <1>6

\* The placeholders up to the end of the j-th update are j.
LEMMA PlanCounts ==
  ASSUME RequestInv, PlanInv
  PROVE  \A j \in 0 .. Len(plan) : EndOf(j) \in 0 .. Len(prompt) /\ SeenIn(prompt, EndOf(j)) = j
<1>. DEFINE S == {j \in 0 .. Len(plan) : EndOf(j) \in 0 .. Len(prompt) /\ SeenIn(prompt, EndOf(j)) = j}
<1>1. Len(plan) \in Nat /\ Len(prompt) \in Nat
  BY RequestTyped DEF PlanInv
<1>2. 0 \in S
  BY <1>1, SeenCounts DEF EndOf
<1>3. ASSUME NEW n \in 0 .. (Len(plan) - 1), n \in S PROVE n + 1 \in S
  <2>1. n + 1 \in 1 .. Len(plan) /\ (n + 1) - 1 = n /\ n + 1 \in Nat
    BY <1>1
  <2>2. EndOf(n + 1) \in 1 .. Len(prompt) /\ EndOf(n) < EndOf(n + 1) /\ prompt[EndOf(n + 1)] = "img"
        /\ NoImg(EndOf(n) + 1, EndOf(n + 1) - 1)
    BY <2>1 DEF PlanInv, Planned
  <2>. DEFINE a == EndOf(n)
              b == EndOf(n + 1) - 1
  <2>3. a \in Nat /\ b \in Nat /\ a <= b /\ b + 1 = EndOf(n + 1) /\ SeenIn(prompt, a) = n
    BY <1>1, <1>3, <2>2
  <2>4. \A k \in a + 1 .. b : prompt[k] # "img"
    BY <2>2 DEF NoImg
  <2>5. prompt[b + 1] = "img"
    BY <2>2, <2>3
  <2>. HIDE DEF a, b
  <2>6. SeenIn(prompt, b) = n
    BY <2>3, <2>4, SeenStays
  <2>7. SeenIn(prompt, b + 1) = n + 1
    BY <2>3, <2>5, <2>6, SeenCounts
  <2>. QED BY <1>1, <2>1, <2>2, <2>3, <2>7
<1>. HIDE DEF S
<1>4. 0 .. Len(plan) \subseteq S
  BY <1>1, <1>2, <1>3, InductionTo
<1>. QED BY <1>4 DEF S

\* A block written stays where it is.
LEMMA HoleStays ==
  ASSUME NEW g \in 1 .. Len(holes), g \in 1 .. Len(cells), cells \in Seq(Positive \X Positive),
         holes \in Seq([item : Nat, start : Nat, pad : Nat, len : Nat]), out \in Seq(Symbols),
         HoleSound(g), cells' = cells, holes'[g] = holes[g],
         Len(out) <= Len(out'), \A i \in 1 .. Len(out) : out'[i] = out[i], out' \in Seq(Symbols)
  PROVE  HoleSound(g)'
<1>. DEFINE n == BlockLen(cells[g][1], cells[g][2])
<1>1. n \in Nat
  <2>1. cells[g] \in Positive \X Positive
    BY ElementOfSeq, Zenon
  <2>2. cells[g][1] \in Nat /\ cells[g][2] \in Nat
    BY <2>1 DEF Positive
  <2>. QED BY <2>2, BlockLengths
<1>2. holes[g].start \in Nat /\ holes[g].pad \in Nat
  <2>1. holes[g] \in [item : Nat, start : Nat, pad : Nat, len : Nat]
    BY ElementOfSeq, Zenon
  <2>. QED BY <2>1
<1>3. holes[g].len = holes[g].pad + n /\ holes[g].start + holes[g].len <= Len(out)
      /\ \A i \in 1 .. n : out[holes[g].start + holes[g].pad + i] = Block(cells[g][1], cells[g][2])[i]
  BY DEF HoleSound
<1>4. holes[g].item = g /\ holes[g].pad = CompressPad(holes[g].start)
  BY DEF HoleSound
<1>. HIDE DEF n
<1>5. Len(out) \in Nat /\ Len(out') \in Nat
  BY LenProperties, Zenon
<1>6. \A i \in 1 .. n : holes[g].start + holes[g].pad + i \in 1 .. Len(out)
  <2>1. holes[g].start + (holes[g].pad + n) <= Len(out)
    BY <1>3
  <2>2. \A x, y, m, z \in Nat : x + (y + m) <= z => \A i \in 1 .. m : x + y + i \in 1 .. z
    OBVIOUS
  <2>. QED BY <1>1, <1>2, <1>5, <2>1, <2>2, Zenon
<1>7. \A i \in 1 .. n : out'[holes[g].start + holes[g].pad + i] = Block(cells[g][1], cells[g][2])[i]
  BY <1>3, <1>6
<1>8. holes[g].start + holes[g].len <= Len(out')
  <2>1. holes[g].start + holes[g].len <= Len(out)
    BY <1>3
  <2>2. holes[g].len = holes[g].pad + n
    BY <1>3
  <2>3. \A x, l, v, w \in Nat : x + l <= v /\ v <= w => x + l <= w
    OBVIOUS
  <2>4. holes[g].len \in Nat
    <3>1. holes[g] \in [item : Nat, start : Nat, pad : Nat, len : Nat]
      BY ElementOfSeq, Zenon
    <3>. QED BY <3>1, SMTT(30)
  <2>5. Len(out) <= Len(out')
    OBVIOUS
  <2>. QED BY <1>2, <1>5, <2>1, <2>3, <2>4, <2>5, Zenon
<1>. QED BY <1>3, <1>4, <1>7, <1>8 DEF HoleSound, n

\* An update is written: text up to the placeholder, the pad, the block.
LEMMA SpliceStep == PromptInv /\ Splice => PromptInv'
<1>. SUFFICES ASSUME PromptInv, Splice PROVE PromptInv'
  OBVIOUS
<1>1. RequestInv /\ SizesInv /\ PlanInv /\ SpliceInv
  BY DEF PromptInv
<1>2. step = "splice" /\ Len(holes) < Len(plan) /\ UNCHANGED <<request, step, tokens, cur, cells, left, plan>>
  BY DEF Splice
<1>3. RequestInv' /\ images' = images /\ prompt' = prompt /\ Symbols' = Symbols
  BY <1>1, <1>2, RequestStays DEF Steps
<1>4. PICK h, a, e : h = Len(holes) /\ a = from /\ e = EndOf(h + 1)
  OBVIOUS
<1>5. /\ holes \in Seq([item : Nat, start : Nat, pad : Nat, len : Nat]) /\ h \in Nat
      /\ out \in Seq(Symbols) /\ a = EndOf(h) /\ \A g \in 1 .. h : HoleSound(g)
      /\ out = ExpandedOf(prompt, cells)[a]
  BY <1>1, <1>2, <1>4 DEF SpliceInv
<1>6. Len(plan) \in Nat /\ Len(plan) <= Len(images) /\ Len(cells) = Len(images) /\ cells \in Seq(Positive \X Positive)
  BY <1>1, <1>2 DEF PlanInv, SizesInv
<1>7. h + 1 \in 1 .. Len(plan) /\ (h + 1) - 1 = h /\ h + 1 \in 1 .. Len(cells) /\ h \in 0 .. Len(plan) /\ h + 1 \in 0 .. Len(plan)
  BY <1>2, <1>4, <1>5, <1>6, <1>1, RequestTyped
<1>8. prompt \in Seq(Symbols) /\ Len(prompt) \in Nat /\ Marks \subseteq Symbols
  BY <1>1, RequestTyped DEF Symbols
<1>9. /\ plan[h + 1].item = h + 1 /\ plan[h + 1].at = <<e - 1, e>>
      /\ e \in 1 .. Len(prompt) /\ a < e /\ prompt[e] = "img" /\ NoImg(a + 1, e - 1)
  BY <1>1, <1>4, <1>5, <1>7 DEF PlanInv, Planned
<1>10. a \in 0 .. Len(prompt) /\ SeenIn(prompt, e) = h + 1
  BY <1>1, <1>4, <1>5, <1>7, PlanCounts
<1>. DEFINE c == cells[h + 1]
            middle == SubSeq(prompt, a + 1, e - 1)
            text == out \o middle
            pad == CompressPad(Len(text))
            pads == [j \in 1 .. pad |-> "pad"]
            block == Block(c[1], c[2])
            hole == [item |-> h + 1, start |-> Len(text), pad |-> pad, len |-> pad + BlockLen(c[1], c[2])]
<1>11. /\ out' = text \o pads \o block
       /\ holes' = Append(holes, hole)
       /\ from' = e
  <2>1. plan[h + 1].at[1] = e - 1 /\ plan[h + 1].at[2] = e
    BY <1>9
  <2>. QED BY <1>4, <1>9, <2>1, Zenon DEF Splice
<1>12. middle \in Seq(Symbols)
  BY <1>8, <1>9, <1>10, SubSeqProperties
<1>. HIDE DEF middle
<1>13. text \in Seq(Symbols) /\ Len(text) \in Nat /\ Len(text) = Len(out) + Len(middle)
  BY <1>5, <1>12, ConcatProperties
<1>14. Len(out) \in Nat /\ Len(out) <= Len(text)
  <2>1. Len(out) \in Nat /\ Len(middle) \in Nat
    BY <1>5, <1>12
  <2>. HIDE DEF text
  <2>. QED BY <1>13, <2>1
<1>. HIDE DEF text
<1>15. c \in Positive \X Positive /\ c[1] \in Nat /\ c[2] \in Nat
  BY <1>6, <1>7 DEF Positive
<1>16. block \in Seq(Symbols) /\ Len(block) = BlockLen(c[1], c[2]) /\ BlockLen(c[1], c[2]) \in Nat
  <2>1. \A x, y \in Nat : Block(x, y) \in Seq(Marks) /\ Len(Block(x, y)) = BlockLen(x, y) /\ BlockLen(x, y) \in Nat
    BY BlockIsSeq, BlockLengths, Zenon
  <2>2. block \in Seq(Marks) /\ Len(block) = BlockLen(c[1], c[2]) /\ BlockLen(c[1], c[2]) \in Nat
    BY <1>15, <2>1, Zenon
  <2>. HIDE DEF c, block
  <2>. QED BY <1>8, <2>2
<1>. HIDE DEF c, text, block
<1>17. pad \in 0 .. 3 /\ pad \in Nat
  <2>1. \A x \in Nat : CompressPad(x) \in 0 .. 3
    BY PadAligns, Zenon
  <2>2. pad \in 0 .. 3
    BY <1>13, <2>1, Zenon
  <2>. HIDE DEF pad
  <2>. QED BY <2>2
<1>. HIDE DEF pad
<1>18. pads \in Seq(Symbols) /\ Len(pads) = pad
  <2>1. pads \in [1 .. pad -> Symbols]
    BY <1>8 DEF Marks
  <2>. QED BY <1>17, <2>1
<1>. HIDE DEF pads
<1>19. /\ out' \in Seq(Symbols) /\ Len(out') = Len(text) + pad + BlockLen(c[1], c[2])
       /\ \A i \in 1 .. Len(text) : out'[i] = text[i]
       /\ \A i \in 1 .. BlockLen(c[1], c[2]) : out'[Len(text) + pad + i] = block[i]
  <2>1. Len(pads) = pad /\ pads \in Seq(Symbols) /\ text \in Seq(Symbols) /\ block \in Seq(Symbols)
    BY <1>13, <1>16, <1>18
  <2>2. \A s, t, u \in Seq(Symbols) :
        LET w == s \o t \o u IN
        /\ w \in Seq(Symbols) /\ Len(w) = Len(s) + Len(t) + Len(u)
        /\ \A i \in 1 .. Len(s) : w[i] = s[i]
        /\ \A i \in 1 .. Len(u) : w[Len(s) + Len(t) + i] = u[i]
    BY ThreeTexts
  <2>3. LET w == text \o pads \o block IN
        /\ w \in Seq(Symbols) /\ Len(w) = Len(text) + Len(pads) + Len(block)
        /\ \A i \in 1 .. Len(text) : w[i] = text[i]
        /\ \A i \in 1 .. Len(block) : w[Len(text) + Len(pads) + i] = block[i]
    BY <2>1, <2>2, Zenon
  <2>. QED BY <1>11, <1>16, <1>18, <2>3, Zenon
<1>20. Len(out) <= Len(out') /\ Len(text) + (pad + BlockLen(c[1], c[2])) <= Len(out')
  <2>1. Len(text) \in Nat /\ BlockLen(c[1], c[2]) \in Nat /\ Len(out') = Len(text) + pad + BlockLen(c[1], c[2])
    BY <1>13, <1>16, <1>19, Zenon
  <2>. QED BY <1>14, <1>17, <2>1
<1>21. \A i \in 1 .. Len(out) : out'[i] = out[i]
  <2>1. \A i \in 1 .. Len(out) : text[i] = out[i]
    BY <1>5, <1>12, ConcatProperties DEF text
  <2>2. \A i \in 1 .. Len(out) : i \in 1 .. Len(text)
    <3>1. Len(text) \in Nat
      BY <1>13
    <3>. QED BY <1>14, <3>1
  <2>. QED BY <1>19, <2>1, <2>2, Zenon
<1>22. out' = ExpandedOf(prompt, cells)[e]
  <2>1. cells \in Seq(Nat \X Nat)
    BY <1>6 DEF Positive
  <2>2. \A k \in a + 1 .. e - 1 : Stays(prompt, cells, k)
    BY <1>9 DEF NoImg, Stays
  <2>3. ExpandedOf(prompt, cells)[e - 1] = text
    <3>1. e - 1 \in 0 .. Len(prompt) /\ a <= e - 1
      BY <1>8, <1>9, <1>10
    <3>2. ExpandedOf(prompt, cells)[e - 1] = ExpandedOf(prompt, cells)[a] \o SubSeq(prompt, a + 1, e - 1)
      BY <1>8, <1>10, <2>1, <2>2, <3>1, ExpandedText
    <3>. QED BY <1>5, <3>2 DEF text, middle
  <2>4. ExpandedOf(prompt, cells)[e] = Grown(text, prompt, cells, e)
    BY <1>8, <1>9, <2>3, ExpandedSteps
  <2>5. ~Stays(prompt, cells, e)
    BY <1>6, <1>7, <1>9, <1>10 DEF Stays
  <2>6. Grown(text, prompt, cells, e) = text \o pads \o block
    BY <1>10, <2>5, Zenon DEF Grown, pads, pad, block, c
  <2>. QED BY <1>11, <2>4, <2>6
<1>23. hole \in [item : Nat, start : Nat, pad : Nat, len : Nat]
  <2>1. h + 1 \in Nat /\ Len(text) \in Nat /\ pad + BlockLen(c[1], c[2]) \in Nat
    <3>1. h \in Nat /\ Len(text) \in Nat /\ BlockLen(c[1], c[2]) \in Nat /\ pad \in Nat
      BY <1>5, <1>13, <1>16, <1>17, Zenon
    <3>. QED BY <3>1
  <2>. QED BY <1>17, <2>1
<1>24. hole.item = h + 1 /\ hole.start = Len(text) /\ hole.pad = pad /\ hole.len = pad + BlockLen(c[1], c[2])
  OBVIOUS
<1>. HIDE DEF hole
<1>25. /\ holes' \in Seq([item : Nat, start : Nat, pad : Nat, len : Nat]) /\ Len(holes') = h + 1
       /\ holes'[h + 1] = hole /\ \A g \in 1 .. h : holes'[g] = holes[g]
  BY <1>4, <1>5, <1>11, <1>23
<1>26. ASSUME NEW g \in 1 .. h PROVE HoleSound(g)'
  <2>1. HoleSound(g) /\ g \in 1 .. Len(holes) /\ g \in 1 .. Len(cells) /\ holes'[g] = holes[g] /\ cells' = cells
    <3>1. g \in 1 .. Len(holes) /\ g \in 1 .. Len(cells)
      BY <1>4, <1>5, <1>7
    <3>2. HoleSound(g)
      BY <1>5
    <3>3. holes'[g] = holes[g] /\ cells' = cells
      BY <1>2, <1>25
    <3>. QED BY <3>1, <3>2, <3>3
  <2>2. out \in Seq(Symbols) /\ out' \in Seq(Symbols)
        /\ holes \in Seq([item : Nat, start : Nat, pad : Nat, len : Nat]) /\ cells \in Seq(Positive \X Positive)
    BY <1>5, <1>6, <1>19
  <2>. QED BY <1>20, <1>21, <2>1, <2>2, HoleStays, Zenon
<1>27. HoleSound(h + 1)'
  <2>1. cells'[h + 1] = c
    BY <1>2 DEF c
  <2>2. Len(text) + (pad + BlockLen(c[1], c[2])) <= Len(out')
    BY <1>20
  <2>3. pad = CompressPad(Len(text))
    BY DEF pad
  <2>4. \A i \in 1 .. BlockLen(c[1], c[2]) : out'[Len(text) + pad + i] = Block(c[1], c[2])[i]
    BY <1>19 DEF block
  <2>5. (cells[h + 1])' = c /\ (holes[h + 1])' = hole
    BY <1>4, <1>25, <2>1
  <2>. QED BY <1>24, <2>2, <2>3, <2>4, <2>5 DEF HoleSound
<1>28. SizesInv'
  BY <1>1, <1>2, <1>3 DEF SizesInv
<1>29. PlanInv'
  BY <1>1, <1>2, <1>3, SMTT(30) DEF PlanInv, Planned, EndOf, NoImg
<1>30. SpliceInv'
  <2>1. step' = "splice" /\ step' # "done" /\ Len(holes') <= Len(plan')
    BY <1>2, <1>7, <1>25
  <2>2. from' = EndOf(Len(holes))'
    BY <1>2, <1>4, <1>11, <1>25 DEF EndOf
  <2>3. \A g \in 1 .. Len(holes') : HoleSound(g)'
    <3>1. \A g \in 1 .. Len(holes') : g \in 1 .. h \/ g = h + 1
      BY <1>5, <1>25
    <3>. QED BY <1>26, <1>27, <3>1
  <2>4. out' = ExpandedOf(prompt, cells)'[from']
    BY <1>2, <1>3, <1>11, <1>22
  <2>. QED BY <1>3, <1>19, <1>25, <2>1, <2>2, <2>3, <2>4 DEF SpliceInv
<1>. QED BY <1>3, <1>28, <1>29, <1>30 DEF PromptInv

-----------------------------------------------------------------------------
(* Every action keeps the invariant: the end.                              *)

\* The text after the last update is written: no placeholder in it has an image left.
LEMMA FinishStep == PromptInv /\ Finish => PromptInv'
<1>. SUFFICES ASSUME PromptInv, Finish PROVE PromptInv'
  OBVIOUS
<1>1. RequestInv /\ SizesInv /\ PlanInv /\ SpliceInv
  BY DEF PromptInv
<1>2. step = "splice" /\ Len(holes) = Len(plan) /\ step' = "done"
      /\ out' = out \o SubSeq(prompt, from + 1, Len(prompt))
      /\ UNCHANGED <<request, tokens, cur, cells, left, plan, from, holes>>
  BY DEF Finish
<1>3. RequestInv' /\ images' = images /\ prompt' = prompt /\ Symbols' = Symbols
  BY <1>1, <1>2, RequestStays DEF Steps
<1>4. PICK L, a : L = Len(plan) /\ a = from
  OBVIOUS
<1>5. /\ holes \in Seq([item : Nat, start : Nat, pad : Nat, len : Nat])
      /\ out \in Seq(Symbols) /\ a = EndOf(L) /\ \A g \in 1 .. L : HoleSound(g)
      /\ out = ExpandedOf(prompt, cells)[a]
  BY <1>1, <1>2, <1>4 DEF SpliceInv
<1>6. /\ L \in Nat /\ L <= Len(images) /\ Len(cells) = Len(images) /\ cells \in Seq(Positive \X Positive)
      /\ L = Len(images) \/ NoImg(a + 1, Len(prompt))
  BY <1>1, <1>2, <1>4, <1>5 DEF PlanInv, SizesInv
<1>7. prompt \in Seq(Symbols) /\ Len(prompt) \in Nat /\ Len(images) \in Nat
  BY <1>1, RequestTyped
<1>8. a \in 0 .. Len(prompt) /\ SeenIn(prompt, a) = L
  BY <1>1, <1>4, <1>5, <1>6, PlanCounts
<1>9. ASSUME NEW k \in a + 1 .. Len(prompt) PROVE Stays(prompt, cells, k)
  <2>1. CASE L = Len(images)
    <3>1. ASSUME prompt[k] = "img" PROVE SeenIn(prompt, k) > Len(cells)
      <4>1. a \in Nat /\ k \in Nat /\ a < k
        BY <1>7, <1>8
      <4>. QED BY <1>6, <1>8, <2>1, <3>1, <4>1, SeenGrows
    <3>. QED BY <3>1 DEF Stays
  <2>2. CASE NoImg(a + 1, Len(prompt))
    BY <2>2 DEF NoImg, Stays
  <2>. QED BY <1>6, <2>1, <2>2
<1>. DEFINE rest == SubSeq(prompt, a + 1, Len(prompt))
<1>10. out' = ExpandedOf(prompt, cells)[Len(prompt)] /\ out' = out \o rest
  <2>1. cells \in Seq(Nat \X Nat)
    BY <1>6 DEF Positive
  <2>2. Len(prompt) \in 0 .. Len(prompt) /\ a <= Len(prompt)
    BY <1>7, <1>8
  <2>3. ExpandedOf(prompt, cells)[Len(prompt)] = ExpandedOf(prompt, cells)[a] \o rest
    BY <1>7, <1>8, <1>9, <2>1, <2>2, ExpandedText
  <2>. QED BY <1>2, <1>4, <1>5, <2>3
<1>11. rest \in Seq(Symbols)
  BY <1>7, <1>8, SubSeqProperties
<1>. HIDE DEF rest
<1>12. /\ out' \in Seq(Symbols) /\ Len(out') = Len(out) + Len(rest)
       /\ \A i \in 1 .. Len(out) + Len(rest) : out'[i] = IF i <= Len(out) THEN out[i] ELSE rest[i - Len(out)]
  BY <1>5, <1>10, <1>11, ConcatProperties
<1>13. Len(out) <= Len(out') /\ \A i \in 1 .. Len(out) : out'[i] = out[i]
  <2>1. Len(out) \in Nat /\ Len(rest) \in Nat
    BY <1>5, <1>11, LenProperties
  <2>2. \A i \in 1 .. Len(out) : i \in 1 .. Len(out) + Len(rest) /\ i <= Len(out)
    BY <2>1
  <2>3. Len(out) <= Len(out')
    BY <1>12, <2>1
  <2>. QED BY <1>12, <2>2, <2>3, Zenon
<1>14. ASSUME NEW g \in 1 .. L PROVE HoleSound(g)'
  <2>1. g \in 1 .. Len(holes) /\ g \in 1 .. Len(cells) /\ HoleSound(g) /\ holes'[g] = holes[g] /\ cells' = cells
    BY <1>2, <1>4, <1>5, <1>6, <1>7
  <2>2. out \in Seq(Symbols) /\ out' \in Seq(Symbols)
        /\ holes \in Seq([item : Nat, start : Nat, pad : Nat, len : Nat]) /\ cells \in Seq(Positive \X Positive)
    BY <1>5, <1>6, <1>12
  <2>. QED BY <1>13, <2>1, <2>2, HoleStays, Zenon
<1>15. SizesInv'
  BY <1>1, <1>2, <1>3 DEF SizesInv
<1>16. PlanInv'
  BY <1>1, <1>2, <1>3, ZenonT(60) DEF PlanInv, Planned, EndOf, NoImg
<1>17. SpliceInv'
  <2>1. step' = "done" /\ step' # "splice" /\ Len(holes') <= Len(plan') /\ Len(holes') = L
    BY <1>2, <1>4, <1>6, SMTT(30)
  <2>2. from' = EndOf(Len(holes))'
    BY <1>2, <1>4, <1>5 DEF EndOf
  <2>3. \A g \in 1 .. Len(holes') : HoleSound(g)'
    BY <1>14, <2>1
  <2>4. out' = (ExpandedOf(prompt, cells)[Len(prompt)])'
    BY <1>2, <1>3, <1>10
  <2>. QED BY <1>2, <1>3, <1>5, <1>12, <2>1, <2>2, <2>3, <2>4 DEF SpliceInv
<1>. QED BY <1>3, <1>15, <1>16, <1>17 DEF PromptInv

\* Nothing happens.
LEMMA StutterStep == PromptInv /\ UNCHANGED vars => PromptInv'
<1>. SUFFICES ASSUME PromptInv, UNCHANGED vars PROVE PromptInv'
  OBVIOUS
<1>1. RequestInv /\ SizesInv /\ PlanInv /\ SpliceInv
  BY DEF PromptInv
<1>2. UNCHANGED <<request, step, tokens, cur, cells, left, plan, from, out, holes>>
  BY DEF vars
<1>3. RequestInv' /\ images' = images /\ prompt' = prompt /\ Symbols' = Symbols
  BY <1>1, <1>2, RequestStays DEF RequestInv
<1>4. SizesInv'
  BY <1>1, <1>2, <1>3 DEF SizesInv, TokensOf, Cells
<1>5. PlanInv'
  BY <1>1, <1>2, <1>3, ZenonT(60) DEF PlanInv, Planned, EndOf, NoImg
<1>6. SpliceInv'
  BY <1>1, <1>2, <1>3 DEF SpliceInv, HoleSound, EndOf
<1>. QED BY <1>3, <1>4, <1>5, <1>6 DEF PromptInv

\* The invariant holds in every reachable state.
LEMMA InvariantHolds == ASSUME SizesAllowed PROVE Spec => []PromptInv
<1>1. Init => PromptInv
  BY InitIsSound
<1>2. PromptInv /\ [Next]_vars => PromptInv'
  <2>. SUFFICES ASSUME PromptInv, [Next]_vars PROVE PromptInv'
    OBVIOUS
  <2>1. CASE Load
    BY <2>1, LoadStep
  <2>2. CASE Shrink
    BY <2>2, ShrinkStep
  <2>3. CASE Build
    BY <2>3, BuildStep
  <2>4. CASE Plan
    BY <2>4, PlanStep
  <2>5. CASE PlanTurn
    BY <2>5, PlanTurnStep
  <2>6. CASE Splice
    BY <2>6, SpliceStep
  <2>7. CASE Finish
    BY <2>7, FinishStep
  <2>8. CASE Rest \/ UNCHANGED vars
    BY <2>8, StutterStep DEF Rest
  <2>. QED BY <2>1, <2>2, <2>3, <2>4, <2>5, <2>6, <2>7, <2>8 DEF Next
<1>. QED BY <1>1, <1>2, PTL DEF Spec

-----------------------------------------------------------------------------
(* What follows from the invariant.                                        *)

\* What the invariant says of the cells of an image.
LEMMA CellsSound ==
  ASSUME PromptInv, NEW j \in DOMAIN cells
  PROVE  /\ j \in 1 .. Len(cells) /\ cells[j][1] \in Positive /\ cells[j][2] \in Positive
         /\ GridTokens(cells[j][1], cells[j][2]) <= Limit
<1>1. cells \in Seq(Positive \X Positive) /\ \A i \in 1 .. Len(cells) : GridTokens(cells[i][1], cells[i][2]) <= Limit
  BY DEF PromptInv, SizesInv
<1>2. j \in 1 .. Len(cells)
  BY <1>1, LenProperties
<1>3. cells[j] \in Positive \X Positive
  BY <1>1, <1>2, ElementOfSeq, Zenon
<1>. QED BY <1>1, <1>2, <1>3

\* What it says of a placeholder handed to the engine.
LEMMA HolesSound ==
  ASSUME PromptInv, NEW h \in DOMAIN holes
  PROVE  /\ h \in 1 .. Len(holes) /\ HoleSound(h) /\ holes[h].start \in Nat /\ h \in DOMAIN cells
         /\ cells[h][1] \in Nat /\ cells[h][2] \in Nat /\ step \in {"splice", "done"}
<1>1. /\ holes \in Seq([item : Nat, start : Nat, pad : Nat, len : Nat])
      /\ step \notin {"splice", "done"} => holes = <<>>
      /\ step \in {"splice", "done"} => \A g \in 1 .. Len(holes) : HoleSound(g)
      /\ Len(holes) <= Len(plan)
  BY DEF PromptInv, SpliceInv
<1>2. h \in 1 .. Len(holes)
  BY <1>1, LenProperties
<1>3. step \in {"splice", "done"}
  BY <1>1
<1>4. holes[h] \in [item : Nat, start : Nat, pad : Nat, len : Nat]
  BY <1>1, <1>2, ElementOfSeq, Zenon
<1>5. Len(plan) \in Nat /\ Len(plan) <= Len(images) /\ Len(images) = Len(cells) /\ cells \in Seq(Positive \X Positive)
  BY <1>3 DEF PromptInv, PlanInv, SizesInv
<1>6. h \in DOMAIN cells
  <2>1. Len(holes) \in Nat /\ Len(cells) \in Nat /\ DOMAIN cells = 1 .. Len(cells)
    BY <1>1, <1>5, LenProperties
  <2>. QED BY <1>1, <1>2, <1>5, <2>1
<1>7. cells[h][1] \in Nat /\ cells[h][2] \in Nat
  BY <1>6, CellsSound DEF Positive
<1>. QED BY <1>1, <1>2, <1>3, <1>4, <1>6, <1>7

\* The invariant of the run follows.
LEMMA PromptInvGivesBlockInv == PromptInv => BlockInv
<1>. SUFFICES ASSUME PromptInv PROVE BlockInv
  OBVIOUS
<1>1. RequestInv /\ SizesInv /\ PlanInv /\ SpliceInv
  BY DEF PromptInv
<1>2. Len(images) \in Nat /\ DOMAIN images = 1 .. Len(images) /\ Len(prompt) \in Nat
  BY <1>1, RequestTyped
<1>3. TypeOK
  <2>1. step \in Steps
    BY <1>1 DEF RequestInv
  <2>2. cells \in Seq(Nat \X Nat) /\ Len(cells) <= Len(images)
    BY <1>1 DEF SizesInv, Positive
  <2>3. Len(plan) \in Nat /\ Len(plan) <= Len(images) /\ Len(holes) \in Nat /\ Len(holes) <= Len(plan)
    <3>1. plan \in Seq([item : Nat, alt : Nat, at : Nat \X Nat]) /\ Len(plan) <= Len(images)
      BY <1>1 DEF PlanInv
    <3>2. holes \in Seq([item : Nat, start : Nat, pad : Nat, len : Nat]) /\ Len(holes) <= Len(plan)
      BY <1>1 DEF SpliceInv
    <3>. QED BY <3>1, <3>2, LenProperties, Zenon
  <2>4. left \subseteq 1 .. Len(images)
    <3>1. CASE step \in Early
      BY <1>1, <3>1 DEF PlanInv, Early
    <3>2. CASE step = "plan"
      <4>1. left = (Len(plan) + 1) .. Len(images)
        BY <1>1, <3>2 DEF PlanInv
      <4>. QED BY <1>2, <2>3, <4>1
    <3>3. CASE step \in {"splice", "done"}
      BY <1>1, <3>3 DEF PlanInv
    <3>. QED BY <2>1, <3>1, <3>2, <3>3 DEF Steps, Early
  <2>5. from \in 0 .. Len(prompt)
    <3>1. CASE step \in Early
      BY <1>1, <1>2, <3>1 DEF PlanInv, Early
    <3>2. CASE step = "plan"
      <4>1. from = EndOf(Len(plan)) /\ Len(plan) \in 0 .. Len(plan)
        BY <1>1, <2>3, <3>2 DEF PlanInv
      <4>. QED BY <1>1, <4>1, PlanCounts
    <3>3. CASE step \in {"splice", "done"}
      <4>1. from = EndOf(Len(holes)) /\ Len(holes) \in 0 .. Len(plan)
        BY <1>1, <2>3, <3>3 DEF SpliceInv
      <4>. QED BY <1>1, <4>1, PlanCounts
    <3>. QED BY <2>1, <3>1, <3>2, <3>3 DEF Steps, Early
  <2>. QED BY <1>2, <2>1, <2>2, <2>3, <2>4, <2>5 DEF TypeOK, Steps
<1>4. LengthsAgree
  <2>. SUFFICES ASSUME NEW j \in DOMAIN cells
                PROVE  /\ GridTokens(cells[j][1], cells[j][2]) = BlockLen(cells[j][1], cells[j][2])
                       /\ TypesSize(cells[j][1], cells[j][2]) = BlockLen(cells[j][1], cells[j][2])
    BY DEF LengthsAgree
  <2>1. cells[j][1] \in Nat /\ cells[j][2] \in Nat
    BY CellsSound DEF Positive
  <2>. QED BY <2>1, BlockLengths, Zenon
<1>5. EveryRowOnce
  <2>. SUFFICES ASSUME NEW j \in DOMAIN cells
                PROVE  LET n == cells[j][1] * cells[j][2]
                           perm == Perm(cells[j][1], cells[j][2]) IN
                       Len(perm) = n /\ {perm[k] : k \in 1 .. n} = 0 .. n - 1
    BY DEF EveryRowOnce
  <2>1. cells[j][1] \in Nat /\ cells[j][2] \in Nat
    BY CellsSound DEF Positive
  <2>. QED BY <2>1, PermIsWhole, Zenon
<1>6. BlockFits
  <2>. SUFFICES ASSUME NEW j \in DOMAIN cells
                PROVE  /\ cells[j][1] > 0 /\ cells[j][2] > 0
                       /\ BlockLen(cells[j][1], cells[j][2]) + CompressPadTo - 1 <= MaxTokens
    BY DEF BlockFits
  <2>1. PICK a, b : a = cells[j][1] /\ b = cells[j][2]
    OBVIOUS
  <2>2. a \in Nat /\ b \in Nat /\ a > 0 /\ b > 0 /\ GridTokens(a, b) <= Limit
    BY <2>1, CellsSound DEF Positive
  <2>3. GridTokens(a, b) = BlockLen(a, b) /\ BlockLen(a, b) \in Nat
    BY <2>2, BlockLengths, Zenon
  <2>4. BlockLen(a, b) <= MaxTokens - 3
    BY <2>2, <2>3 DEF Limit, CompressPadTo
  <2>5. BlockLen(a, b) + CompressPadTo - 1 <= MaxTokens
    BY <2>3, <2>4, ImageAssumption DEF CompressPadTo
  <2>. QED BY <2>1, <2>2, <2>5
<1>7. GroupsHoldImages
  <2>. SUFFICES ASSUME NEW h \in DOMAIN holes
                PROVE  /\ (holes[h].start + holes[h].pad + 1) % CompressPadTo = 0
                       /\ (holes[h].start + holes[h].len - 1) % CompressPadTo = 0
                       /\ holes[h].pad < CompressPadTo
    BY DEF GroupsHoldImages
  <2>1. PICK s, a, b : s = holes[h].start /\ a = cells[h][1] /\ b = cells[h][2]
    OBVIOUS
  <2>2. /\ s \in Nat /\ a \in Nat /\ b \in Nat
        /\ holes[h].pad = CompressPad(s) /\ holes[h].len = CompressPad(s) + BlockLen(a, b)
    BY <2>1, HolesSound DEF HoleSound
  <2>3. /\ (s + CompressPad(s) + 1) % CompressPadTo = 0
        /\ (s + (CompressPad(s) + BlockLen(a, b)) - 1) % CompressPadTo = 0
    BY <2>2, BlockAligns, Zenon
  <2>4. CompressPad(s) \in 0 .. 3
    BY <2>2, PadAligns, Zenon
  <2>5. CompressPad(s) < CompressPadTo
    <3>. HIDE DEF CompressPad
    <3>. QED BY <2>4 DEF CompressPadTo
  <2>. QED BY <2>1, <2>2, <2>3, <2>5
<1>. QED BY <1>3, <1>4, <1>5, <1>6, <1>7 DEF BlockInv

\* The finished prompt is the expanded one, and the ranges are the blocks.
LEMMA PromptInvGivesExpansion == PromptInv => PromptIsExpanded
<1>. SUFFICES ASSUME PromptInv, step = "done" PROVE
       /\ out = Expanded[Len(prompt)]
       /\ \A h \in DOMAIN holes :
            LET block == SubSeq(out, holes[h].start + holes[h].pad + 1, holes[h].start + holes[h].len)
            IN block = Block(cells[holes[h].item][1], cells[holes[h].item][2])
  BY DEF PromptIsExpanded
<1>1. out = Expanded[Len(prompt)]
  BY ExpandedIs DEF PromptInv, SpliceInv
<1>2. ASSUME NEW h \in DOMAIN holes
      PROVE  SubSeq(out, holes[h].start + holes[h].pad + 1, holes[h].start + holes[h].len)
               = Block(cells[holes[h].item][1], cells[holes[h].item][2])
  <2>1. PICK s, p, n, a, b : /\ s = holes[h].start /\ p = holes[h].pad
                             /\ a = cells[h][1] /\ b = cells[h][2] /\ n = BlockLen(a, b)
    OBVIOUS
  <2>2. /\ s \in Nat /\ a \in Nat /\ b \in Nat /\ p = CompressPad(s) /\ holes[h].item = h
        /\ holes[h].len = p + n /\ s + holes[h].len <= Len(out)
        /\ \A i \in 1 .. n : out[s + p + i] = Block(a, b)[i]
    BY <2>1, HolesSound DEF HoleSound
  <2>3. Block(a, b) \in Seq(Marks) /\ Len(Block(a, b)) = n /\ n \in Nat
    BY <2>1, <2>2, BlockIsSeq, BlockLengths, Zenon
  <2>4. p \in Nat
    <3>1. CompressPad(s) \in 0 .. 3
      BY <2>2, PadAligns, Zenon
    <3>2. 0 .. 3 \subseteq Nat
      OBVIOUS
    <3>. QED BY <2>2, <3>1, <3>2, Zenon
  <2>5. out \in Seq(Symbols) /\ Marks \subseteq Symbols
    BY DEF PromptInv, SpliceInv, Symbols
  <2>. DEFINE m == s + p + 1
              e == s + (p + n)
              cut == SubSeq(out, m, e)
  <2>6. m \in Int /\ m >= 1 /\ e \in Int /\ e <= Len(out) /\ e - m + 1 = n /\ \A i \in 1 .. n : m + i - 1 = s + p + i
    <3>1. s \in Nat /\ p \in Nat /\ n \in Nat
      BY <2>2, <2>3, <2>4, Zenon
    <3>2. e <= Len(out)
      BY <2>2, Zenon
    <3>. QED BY <3>1, <3>2
  <2>. HIDE DEF m, e
  <2>7. /\ cut \in Seq(Symbols) /\ Len(cut) = IF m <= e THEN e - m + 1 ELSE 0
        /\ \A i \in 1 .. e - m + 1 : cut[i] = out[m + i - 1]
    BY <2>5, <2>6, SubSeqProperties
  <2>8. Len(cut) = n
    BY <2>3, <2>6, <2>7
  <2>9. \A i \in 1 .. n : cut[i] = Block(a, b)[i]
    BY <2>2, <2>6, <2>7
  <2>10. Block(a, b) \in Seq(Symbols)
    BY <2>3, <2>5
  <2>. HIDE DEF cut
  <2>11. cut = Block(a, b)
    BY <2>3, <2>7, <2>8, <2>9, <2>10, SeqEqual
  <2>. QED BY <2>1, <2>2, <2>11 DEF cut, m, e
<1>. QED BY <1>1, <1>2

\* Whatever the sizes of the images and wherever they stand in the chat: the three lengths of a
\* block agree, its permutation uses every row of the aligner once, it fits the budget with its
\* largest pad, and it lies in whole groups of the compressor (mm_preprocess.py, grid_tokens,
\* types_sizes, build_image_block, safe_resize, _apply_token_matches_with_placeholders).
THEOREM BlocksLieWell == ASSUME SizesAllowed PROVE Spec => []BlockInv
<1>1. Spec => []PromptInv
  BY InvariantHolds
<1>2. PromptInv => BlockInv
  BY PromptInvGivesBlockInv
<1>. QED BY <1>1, <1>2, PTL

\* Whatever the prompt, with fewer, as many or more placeholders than images: queues, turns and
\* splice write the n-th image at the n-th placeholder, once, and leave the rest of the text as
\* it is, and the ranges handed to the engine are the blocks (dsv4_mm_compat.py,
\* _plan_prompt_updates_with; mm_preprocess.py, _apply_token_matches_with_placeholders).
THEOREM PromptsAreExpanded == ASSUME SizesAllowed PROVE Spec => []PromptIsExpanded
<1>1. Spec => []PromptInv
  BY InvariantHolds
<1>2. PromptInv => PromptIsExpanded
  BY PromptInvGivesExpansion
<1>. QED BY <1>1, <1>2, PTL

-----------------------------------------------------------------------------
(* What the prompt says.                                                   *)

\* A request that may be made.
LEMMA ChatIsAllowed ==
  ASSUME ChatsAllowed, RequestInv
  PROVE  LET ctx == request.context  ms == request.messages  mode == request.mode  drop == request.drop IN
         /\ ctx \in Seq(Messages) /\ ms \in Seq(Messages) /\ ms # <<>>
         /\ tokens = EncodeMessages(ctx, ms, mode, drop) /\ tokens \in Seq(AnyTokens)
         /\ Answered(ctx) /\ Wordy(ms) /\ Telling(ms) /\ ImagesOrdered(ctx, ms) /\ Alternates(FullMessages(ctx, ms, mode, drop))
<1>1. request \in Requests
  BY DEF RequestInv
<1>2. request.context \in Seq(Messages) /\ request.messages \in Seq(Messages) /\ request.messages # <<>>
  BY <1>1, RequestAssumption
<1>3. tokens = EncodeMessages(request.context, request.messages, request.mode, request.drop)
  BY DEF RequestInv
<1>4. tokens \in Seq(AnyTokens)
  <2>1. EncodeMessages(request.context, request.messages, request.mode, request.drop) \in Seq(AnyTokens)
    BY <1>2, PromptShows
  <2>. QED BY <2>1, <1>3
<1>5. /\ WordsAreWords(request) /\ ResultsTell(request) /\ DevelopersAreAnswered(request) /\ TurnsAlternate(request)
      /\ ImagesComeInOrder(request)
  BY <1>1 DEF ChatsAllowed
<1>6. Answered(request.context)
  BY <1>5 DEF DevelopersAreAnswered, Answered
<1>7. Wordy(request.messages)
  BY <1>5 DEF WordsAreWords, Wordy
<1>8. Telling(request.messages)
  BY <1>5 DEF ResultsTell, Telling
<1>9. ImagesOrdered(request.context, request.messages)
  BY <1>5 DEF ImagesComeInOrder, ImagesOrdered, ShownBy, CallOf
<1>10. Alternates(FullMessages(request.context, request.messages, request.mode, request.drop))
  BY <1>5, SMTT(30) DEF TurnsAlternate, Alternates
<1>. QED BY <1>2, <1>3, <1>4, <1>6, <1>7, <1>8, <1>9, <1>10

\* The results of a turn are said in the order of the calls.
LEMMA ResultsDoFollow == ASSUME ChatsAllowed, RequestInv PROVE ResultsFollowCalls
<1>. DEFINE ctx == request.context  ms == request.messages  n == Len(ctx)  whole == ctx \o ms
<1>1. /\ ctx \in Seq(Messages) /\ ms \in Seq(Messages)
      /\ tokens = EncodeMessages(ctx, ms, request.mode, request.drop)
      /\ Answered(ctx) /\ Wordy(ms) /\ Telling(ms)
  BY ChatIsAllowed
<1>. HIDE DEF ctx, ms
<1>2. /\ whole \in Seq(Messages) /\ Len(whole) = n + Len(ms) /\ n \in Nat /\ Len(ms) \in Nat
      /\ \A p \in 1 .. Len(ms) : whole[n + p] = ms[p]
  <2>1. ctx \in Seq(Messages) /\ ms \in Seq(Messages)
    BY <1>1
  <2>. QED BY <2>1, ConcatParts
<1>. HIDE DEF whole, n
<1>3. ASSUME NEW i \in n + 1 .. Len(whole), NEW j \in 1 .. i, NEW k \in 1 .. i,
             \A l \in j .. i : whole[l].role = "tool", \A l \in k .. i : whole[l].role = "tool",
             j \notin 1 .. n, k \notin 1 .. n,
             CallOrder(LastCalls(whole, i), whole[j].id) < CallOrder(LastCalls(whole, i), whole[k].id)
      PROVE  FirstOf(tokens, whole[j].content[1]) < FirstOf(tokens, whole[k].content[1])
  <2>. DEFINE calls == LastCalls(whole, i)  a == j - n  b == k - n
  <2>1. calls = LastCalls(whole, j) /\ calls = LastCalls(whole, k)
    <3>1. i \in 1 .. Len(whole) + 1
      BY <1>2
    <3>2. (\A l \in j .. i - 1 : ~HasCalls(whole[l])) /\ \A l \in k .. i - 1 : ~HasCalls(whole[l])
      <4>1. (\A l \in j .. i - 1 : l \in j .. i) /\ \A l \in k .. i - 1 : l \in k .. i
        BY <1>2, <3>1
      <4>. QED BY <4>1, <1>3 DEF HasCalls
    <3>3. LastCalls(whole, i) = LastCalls(whole, j)
      BY <1>2, <3>1, <3>2, CallsStay
    <3>4. LastCalls(whole, i) = LastCalls(whole, k)
      BY <1>2, <3>1, <3>2, CallsStay
    <3>. QED BY <3>3, <3>4
  <2>2. a \in 1 .. Len(ms) /\ b \in 1 .. Len(ms) /\ j = n + a /\ k = n + b /\ i - n \in 1 .. Len(ms)
    BY <1>3, <1>2
  <2>3. whole[j] = ms[a] /\ whole[k] = ms[b]
    BY <1>2, <2>2
  <2>4. ms[a].role = "tool" /\ ms[b].role = "tool"
    <3>1. j \in j .. i /\ k \in k .. i
      BY <1>2
    <3>2. whole[j].role = "tool" /\ whole[k].role = "tool"
      BY <1>3, <3>1
    <3>. QED BY <2>3, <3>2
  <2>5. Spot(ms, a) = Spot(ms, b)
    <3>1. (\A p \in a .. i - n : ms[p].role = "tool") /\ \A p \in b .. i - n : ms[p].role = "tool"
      <4>1. ASSUME NEW p \in 1 .. i - n, a <= p \/ b <= p PROVE ms[p].role = "tool"
        <5>1. p \in 1 .. Len(ms) /\ (n + p \in j .. i \/ n + p \in k .. i)
          BY <4>1, <1>2, <2>2
        <5>2. whole[n + p] = ms[p] /\ whole[n + p].role = "tool"
          BY <5>1, <1>3, <1>2
        <5>. QED BY <5>2
      <4>2. \A p \in a .. i - n : p \in 1 .. i - n /\ a <= p
        BY <1>2, <2>2
      <4>3. \A p \in b .. i - n : p \in 1 .. i - n /\ b <= p
        BY <1>2, <2>2
      <4>. QED BY <4>1, <4>2, <4>3
    <3>2. i - n \in a .. Len(ms) /\ i - n \in b .. Len(ms)
      BY <1>3, <1>2, <2>2
    <3>. HIDE DEF a, b
    <3>. DEFINE e == i - n
    <3>. HIDE DEF e
    <3>3. Spot(ms, a) = Spot(ms, e)
      BY <1>1, <2>2, <3>1, <3>2, ResultsTogether DEF e
    <3>4. Spot(ms, b) = Spot(ms, e)
      BY <1>1, <2>2, <3>1, <3>2, ResultsTogether DEF e
    <3>. QED BY <3>3, <3>4
  <2>6. calls = LastCalls(ctx \o ms, Len(ctx) + a) /\ calls = LastCalls(ctx \o ms, Len(ctx) + b)
    BY <2>1, <2>2 DEF whole, n
  <2>7. CallOrder(calls, ms[a].id) < CallOrder(calls, ms[b].id)
    BY <1>3, <2>3
  <2>8. a \in 1 .. Len(ms) /\ b \in 1 .. Len(ms)
    BY <2>2
  <2>. HIDE DEF calls, a, b
  <2>9. FirstOf(EncodeMessages(ctx, ms, request.mode, request.drop), ms[a].content[1])
           < FirstOf(EncodeMessages(ctx, ms, request.mode, request.drop), ms[b].content[1])
    BY <1>1, <2>4, <2>5, <2>6, <2>7, <2>8, ResultsAreSaidInOrder
  <2>. QED BY <1>1, <2>3, <2>9
<1>. QED BY <1>3 DEF ResultsFollowCalls, FirstOf, ctx, ms, whole, n

\* The turns open and close.
LEMMA TurnsDoClose == ASSUME ChatsAllowed, RequestInv PROVE TurnsClose
<1>. DEFINE ctx == request.context  ms == request.messages
<1>1. /\ ctx \in Seq(Messages) /\ ms \in Seq(Messages) /\ tokens \in Seq(AnyTokens)
      /\ tokens = EncodeMessages(ctx, ms, request.mode, request.drop)
      /\ Answered(ctx) /\ Wordy(ms) /\ Alternates(FullMessages(ctx, ms, request.mode, request.drop))
  BY ChatIsAllowed
<1>2. /\ DOMAIN prompt = 1 .. Len(tokens) /\ \A i \in 1 .. Len(tokens) : prompt[i] = tokens[i].tok
      /\ Len(tokens) \in Nat
  BY <1>1 DEF prompt
<1>. HIDE DEF ctx, ms
<1>3. ASSUME NEW i \in DOMAIN prompt, NEW j \in DOMAIN prompt, i < j, prompt[i] \in TurnMarks, prompt[j] \in TurnMarks,
             \A k \in i + 1 .. j - 1 : prompt[k] \notin TurnMarks
      PROVE  <<prompt[i], prompt[j]>> \in Follows
  <2>1. i \in 1 .. Len(tokens) /\ j \in 1 .. Len(tokens)
    BY <1>2
  <2>2. tokens[i].tok \in TurnMarks /\ tokens[j].tok \in TurnMarks
    BY <1>2, <1>3, <2>1
  <2>3. \A k \in i + 1 .. j - 1 : tokens[k].tok \notin TurnMarks
    <3>1. \A k \in i + 1 .. j - 1 : k \in 1 .. Len(tokens)
      BY <1>2, <2>1
    <3>. QED BY <3>1, <1>2, <1>3
  <2>4. <<tokens[i].tok, tokens[j].tok>> \in Follows
    BY <1>1, <1>3, <2>1, <2>2, <2>3, TurnsOfPromptClose
  <2>. QED BY <2>1, <2>4, <1>2
<1>. QED BY <1>3 DEF TurnsClose

\* A context reads as it would with the rest, and every message is said.
LEMMA ContextIsTold == ASSUME ChatsAllowed, RequestInv PROVE ContextIsPrefix
<1>. DEFINE ctx == request.context  ms == request.messages  mode == request.mode  drop == request.drop
<1>1. /\ ctx \in Seq(Messages) /\ ms \in Seq(Messages) /\ ms # <<>>
      /\ tokens = EncodeMessages(ctx, ms, mode, drop) /\ Answered(ctx) /\ DOMAIN ms = 1 .. Len(ms)
  BY ChatIsAllowed
<1>2. ASSUME ctx # <<>>, ~(ctx[Len(ctx)].role \in {"user", "tool"} /\ ms[1].role \in {"user", "tool"})
      PROVE  IsSuffix(tokens, EncodeMessages(<<>>, ctx \o ms, mode, drop))
  <2>1. ~(Asks(ctx[Len(ctx)]) /\ Asks(ms[1]))
    BY <1>2 DEF Asks
  <2>. HIDE DEF ctx, ms, mode, drop
  <2>. QED BY <1>1, <1>2, <2>1, PromptIsSuffix
<1>3. ASSUME NEW i \in DOMAIN ms, ms[i].role # "developer"
      PROVE  ToSet(ms[i].content) \subseteq ToSet(tokens)
  <2>1. i \in 1 .. Len(ms)
    BY <1>1
  <2>. HIDE DEF ctx, ms, mode, drop
  <2>. QED BY <1>1, <1>3, <2>1, WordsAreSaid
<1>. QED BY <1>2, <1>3 DEF ContextIsPrefix

\* Every image stands where its placeholder stood.
LEMMA ImagesAreTheirs == ASSUME ChatsAllowed, PromptInv PROVE EachPlaceholderItsImage
<1>. DEFINE ctx == request.context  ms == request.messages  n == Len(images)
<1>0. RequestInv /\ PlanInv
  BY DEF PromptInv
<1>1. /\ ctx \in Seq(Messages) /\ ms \in Seq(Messages) /\ tokens \in Seq(AnyTokens)
      /\ tokens = EncodeMessages(ctx, ms, request.mode, request.drop) /\ Answered(ctx) /\ ImagesOrdered(ctx, ms)
  BY <1>0, ChatIsAllowed
<1>2. /\ DOMAIN prompt = 1 .. Len(tokens) /\ Len(prompt) = Len(tokens) /\ DOMAIN tokens = 1 .. Len(tokens)
      /\ Len(tokens) \in Nat /\ \A i \in 1 .. Len(tokens) : prompt[i] = tokens[i].tok
  <2>1. DOMAIN tokens = 1 .. Len(tokens) /\ Len(tokens) \in Nat
    BY <1>1
  <2>2. DOMAIN prompt = 1 .. Len(tokens) /\ \A i \in 1 .. Len(tokens) : prompt[i] = tokens[i].tok
    BY <2>1 DEF prompt
  <2>3. Len(prompt) \in Nat /\ DOMAIN prompt = 1 .. Len(prompt)
    BY <1>0, RequestTyped
  <2>4. Len(prompt) = Len(tokens)
    BY <2>1, <2>2, <2>3
  <2>. QED BY <2>1, <2>2, <2>4
<1>3. n \in Nat /\ DOMAIN images = 1 .. n
  BY <1>0, RequestTyped
<1>4. ASSUME NEW p \in 1 .. Len(tokens), NEW q \in 1 .. Len(tokens), p < q, tokens[p].tok = "img", tokens[q].tok = "img"
      PROVE  tokens[p].of < tokens[q].of
  <2>. HIDE DEF ctx, ms
  <2>. QED BY <1>1, <1>4, PlaceholdersGrow
<1>5. \A p \in 1 .. Len(tokens) : tokens[p].of \in Nat
  <2>1. \A p \in 1 .. Len(tokens) : tokens[p] \in AnyTokens
    BY <1>1
  <2>. QED BY <2>1 DEF AnyTokens
<1>. HIDE DEF n, ctx, ms
<1>6. SUFFICES ASSUME {tokens[i].of : i \in {i \in DOMAIN tokens : tokens[i].tok = "img"}} = 1 .. n
               PROVE  \A j \in DOMAIN plan : tokens[plan[j].at[1] + 1].of = plan[j].item
  BY <1>3 DEF EachPlaceholderItsImage
<1>7. /\ \A p \in 1 .. Len(tokens) : tokens[p].tok = "img" => tokens[p].of \in 1 .. n
      /\ \A v \in 1 .. n : \E p \in 1 .. Len(tokens) : tokens[p].tok = "img" /\ tokens[p].of = v
  BY <1>2, <1>6
<1>. DEFINE m == Len(plan)
<1>8. /\ m \in Nat /\ DOMAIN plan = 1 .. m /\ m <= n
  BY <1>0 DEF PlanInv, n
<1>9. \A j \in 1 .. m : Planned(j)
  BY <1>0 DEF PlanInv
<1>. HIDE DEF m
<1>10. ASSUME NEW j \in 1 .. m
       PROVE  /\ plan[j].item = j /\ plan[j].at[1] = EndOf(j) - 1
              /\ EndOf(j) \in 1 .. Len(tokens) /\ EndOf(j - 1) < EndOf(j) /\ tokens[EndOf(j)].tok = "img"
              /\ \A k \in EndOf(j - 1) + 1 .. EndOf(j) - 1 : prompt[k] # "img"
  <2>1. Planned(j)
    BY <1>9
  <2>2. plan[j].item = j /\ plan[j].at = <<EndOf(j) - 1, EndOf(j)>> /\ EndOf(j - 1) < EndOf(j)
        /\ EndOf(j) \in 1 .. Len(prompt) /\ prompt[EndOf(j)] = "img" /\ NoImg(EndOf(j - 1) + 1, EndOf(j) - 1)
    BY <2>1 DEF Planned
  <2>3. plan[j].at[1] = EndOf(j) - 1
    BY <2>2
  <2>4. EndOf(j) \in 1 .. Len(tokens) /\ tokens[EndOf(j)].tok = "img"
    BY <2>2, <1>2
  <2>. QED BY <2>2, <2>3, <2>4 DEF NoImg
<1>11. EndOf(0) = 0
  BY DEF EndOf
<1>. DEFINE T == {j \in 0 .. m : j = 0 \/ tokens[EndOf(j)].of = j}
<1>12. 0 \in T
  BY <1>8
<1>13. ASSUME NEW j \in 0 .. (m - 1), j \in T PROVE j + 1 \in T
  <2>. DEFINE e == EndOf(j)  f == EndOf(j + 1)  l == Len(tokens)
  <2>1. j + 1 \in 1 .. m /\ (j + 1) - 1 = j /\ j \in Nat /\ j + 1 \in 0 .. m /\ j + 1 \in 1 .. n
    BY <1>3, <1>8
  <2>2. /\ f \in 1 .. l /\ e < f /\ tokens[f].tok = "img" /\ \A k \in e + 1 .. f - 1 : prompt[k] # "img"
    BY <2>1, <1>10
  <2>3. e \in 0 .. l /\ (j = 0 => e = 0) /\ (j # 0 => e \in 1 .. l /\ tokens[e].tok = "img" /\ tokens[e].of = j)
    <3>1. CASE j = 0
      BY <3>1, <1>2, <1>11
    <3>2. CASE j # 0
      <4>1. j \in 1 .. m /\ tokens[EndOf(j)].of = j
        BY <3>2, <1>13, <2>1, <1>8
      <4>. QED BY <3>2, <4>1, <1>10
    <3>. QED BY <3>1, <3>2
  <2>4. l \in Nat
    BY <1>2
  <2>. HIDE DEF e, f
  <2>5. tokens[f].of \in 1 .. n /\ tokens[f].of \in Nat
    BY <1>5, <1>7, <2>2
  <2>6. tokens[f].of > j
    <3>1. CASE j = 0
      BY <3>1, <1>3, <2>5
    <3>2. CASE j # 0
      BY <3>2, <1>4, <2>2, <2>3
    <3>. QED BY <3>1, <3>2
  <2>7. PICK p \in 1 .. l : tokens[p].tok = "img" /\ tokens[p].of = j + 1
    BY <1>7, <2>1
  <2>8. ~(f < p)
    <3>. SUFFICES ASSUME f < p PROVE FALSE
      OBVIOUS
    <3>1. tokens[f].of < j + 1
      BY <1>4, <2>2, <2>7
    <3>. QED BY <3>1, <2>1, <2>5, <2>6
  <2>9. ~(p <= e)
    <3>. SUFFICES ASSUME p <= e PROVE FALSE
      OBVIOUS
    <3>1. j # 0
      BY <2>3, <2>4, <2>7
    <3>2. e \in 1 .. l /\ tokens[e].tok = "img" /\ tokens[e].of = j
      BY <3>1, <2>3
    <3>3. p = e \/ p < e
      BY <3>2, <2>4, <2>7
    <3>4. p < e => tokens[p].of < tokens[e].of
      BY <1>4, <2>7, <3>2
    <3>. QED BY <3>2, <3>3, <3>4, <2>1, <2>7
  <2>10. p \notin e + 1 .. f - 1
    <3>1. prompt[p] = "img"
      BY <1>2, <2>7
    <3>. QED BY <3>1, <2>2
  <2>11. p = f
    BY <2>2, <2>3, <2>4, <2>7, <2>8, <2>9, <2>10
  <2>12. tokens[EndOf(j + 1)].of = j + 1
    BY <2>7, <2>11 DEF f
  <2>. QED BY <2>1, <2>12
<1>. HIDE DEF T
<1>14. 0 .. m \subseteq T
  BY <1>8, <1>12, <1>13, InductionTo
<1>15. ASSUME NEW j \in DOMAIN plan PROVE tokens[plan[j].at[1] + 1].of = plan[j].item
  <2>1. j \in 1 .. m /\ j \in 0 .. m /\ j # 0
    BY <1>8
  <2>2. tokens[EndOf(j)].of = j
    BY <2>1, <1>14 DEF T
  <2>3. plan[j].item = j /\ plan[j].at[1] = EndOf(j) - 1 /\ EndOf(j) \in Int
    BY <2>1, <1>2, <1>10
  <2>4. plan[j].at[1] + 1 = EndOf(j)
    BY <2>3
  <2>. QED BY <2>2, <2>3, <2>4
<1>. QED BY <1>15

\* Of every chat that ChatsAllowed admits, of any length and behind any context, the prompt
\* says what the chat said: the results of a turn in the order of their calls, wherever the
\* assistant spoke; turns that open and close their thinking, whatever is dropped; a context as
\* it reads with the rest; and each image at the placeholder it was shown at
\* (deepseek_v4_encoding.py, encode_messages; dsv4_mm_compat.py, _plan_prompt_updates_with).
THEOREM ChatsAreTrue == ASSUME SizesAllowed, ChatsAllowed PROVE Spec => []ChatInv
<1>1. Spec => []PromptInv
  BY InvariantHolds
<1>2. PromptInv => ChatInv
  BY ResultsDoFollow, TurnsDoClose, ContextIsTold, ImagesAreTheirs DEF PromptInv, ChatInv
<1>. QED BY <1>1, <1>2, PTL
=============================================================================
