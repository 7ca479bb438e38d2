----------------------------- MODULE ImageBlock -----------------------------
\* How an image becomes a block of prompt tokens: the arithmetic of
\* models/deepseek_v4/common/mm_preprocess.py. Sizes in pixels are (H, W), sizes
\* in ViT patches (bh, bw), sizes in aligner cells (nh, nw). A computation in
\* floating point has a set of results.
EXTENDS Integers, Sequences

CONSTANTS PatchSize,      \* vision_patch_size
          Downsample,     \* vision_downsample_ratio
          MaxTokens,      \* vision_max_n_token
          MinPixels       \* vision_min_pixels

ASSUME ImageAssumption ==
  /\ PatchSize \in Nat \ {0} /\ Downsample \in Nat \ {0} /\ MaxTokens \in Nat
  /\ MinPixels \in Nat

CompressPadTo == 4
Limit_WholeBudget == MaxTokens
Limit == MaxTokens - (CompressPadTo - 1)

CeilDiv(a, b) == (a + b - 1) \div b
Even(n) == n - (n % 2)

\* floor(a / b): one less than the quotient is possible if that is exact.
Floors(a, b) == {a \div b} \cup (IF a % b = 0 THEN {(a \div b) - 1} ELSE {})

\* The square root of n, rounded down: first to a multiple of 256.
Roots(n) ==
  LET m == n \div 65536
      coarse == {y \in 0 .. m : y * y <= m /\ m < (y + 1) * (y + 1)}
  IN {x \in UNION {256 * y .. 256 * y + 255 : y \in coarse} : x * x <= n /\ n < (x + 1) * (x + 1)}

\* The tokens an image of nh x nw cells takes, by grid_tokens, and by the split
\* of the processor's output.
GridTokens(nh, nw) == nh * (nw + 1) + 2 + (IF nh % 2 = 1 THEN nw + 1 ELSE 0)
                      + 2 * ((((nh + 1) \div 2) * (nw + 1)) % 2)
TypesSize(nh, nw) == nh * (nw + 1) + 2 + (nh % 2) * (nw + 1)
                     + 2 * ((((nh + 1) \div 2) * (nw + 1)) % 2)

Cells(bh, bw) == <<CeilDiv(bh, Downsample), CeilDiv(bw, Downsample)>>
TokensOf(bh, bw) == GridTokens(Cells(bh, bw)[1], Cells(bh, bw)[2])

\* solve_resize_ratio with its square roots as integer inequalities: the sizes in
\* patches it may return for m tokens, none if its assertion fails.  Where a root is
\* a whole number, the code's may be a little less (a width of 1 is exact).
TooTall(H, W, m) == 2 * H > (m - 2) * W
TooFlat(H, W, m) == 2 * (2 * W + H) > (m - 2) * H
MaybeFlat(H, W, m) == 2 * (2 * W + H) >= (m - 2) * H
MaxW(H, W, m) == {x \in 1 .. MaxTokens : x * (x + 1) <= ((m - 2) * W) \div H
                                         /\ ((m - 2) * W - 1) \div H < (x + 1) * (x + 2)}
MaxH(H, W, m) == {x \in 2 .. MaxTokens : x * x <= ((m - 2 - x) * H) \div W
                                         /\ ((m - 3 - x) * H - 1) \div W < (x + 1) * (x + 1)}
Tallest(m) == {<<Even((m - 2) \div 2) * Downsample, Downsample>>}
Flattest(m) == {<<2 * Downsample, x * Downsample>> : x \in {((m - 2) \div 2) - 1} \ {-1, 0, 1}}
Between(H, W, m) ==
  UNION {LET h == Even(top) IN
         IF w * H <= h * W    \* the width limits the scale
         THEN Floors(w * Downsample * H, W) \X Floors(w * Downsample, 1)
         ELSE Floors(h * Downsample, 1) \X Floors(h * Downsample * W, H) :
           w \in MaxW(H, W, m), top \in MaxH(H, W, m)}
SolveResizeRatio(H, W, m) ==
  IF TooTall(H, W, m) THEN Tallest(m)
  ELSE (IF MaybeFlat(H, W, m) THEN Flattest(m) ELSE {})
         \cup (IF TooFlat(H, W, m) THEN {} ELSE Between(H, W, m))

\* load_image up to safe_resize: the size <<H, W>> after the limit on the ratio (None is
\* a large number) and the smallest number of pixels.
Sides(a, b) == LET q == (a * MinPixels) \div b
                   exact(r) == r * r = q /\ (a * MinPixels) % b = 0
               IN Roots(q) \cup {x \in {r - 1 : r \in {s \in Roots(q) : exact(s)}} : x > 0}
Scaled(H, W, ratio) ==
  LET w == IF W > H * ratio THEN H * ratio ELSE W IN
  IF w * H < MinPixels THEN Sides(H, w) \X Sides(w, H) ELSE {<<H, w>>}

\* get_image_size_with_most_features: the image the engine is profiled with.
DummySizes == SolveResizeRatio(Limit * PatchSize * Downsample, Limit * PatchSize * Downsample, Limit)

-----------------------------------------------------------------------------
\* build_image_block. The body is laid out in pairs of rows, column by column:
\* Slot(k, nw) is the row and the column of its k-th token.
Rows(nh) == nh + (nh % 2)
BodyLen(nh, nw) == Rows(nh) * (nw + 1)
Slot(k, nw) == LET pair == (k - 1) \div (2 * (nw + 1))
                   rest == (k - 1) % (2 * (nw + 1))
               IN <<2 * pair + (rest % 2), rest \div 2>>
PadLast(nh, nw) == 2 * (((Rows(nh) \div 2) * (nw + 1)) % 2)
BlockLen(nh, nw) == 2 + BodyLen(nh, nw) + PadLast(nh, nw)

\* The pad in front: IMAGE_START stands between it and the body.
CompressPad(start) == CompressPadTo - 1 - (start % CompressPadTo)

\* Types of the block without that pad, and the aligner's rows for its image tokens.
BodyType(k, nh, nw) == LET s == Slot(k, nw) IN
  IF s[1] >= nh THEN "pad" ELSE IF s[2] = nw THEN "newline" ELSE "image"
Block(nh, nw) == [j \in 1 .. BlockLen(nh, nw) |->
                    IF j = 1 THEN "start"
                    ELSE IF j = BlockLen(nh, nw) THEN "end"
                    ELSE IF j - 1 <= BodyLen(nh, nw) THEN BodyType(j - 1, nh, nw) ELSE "pad"]

\* The row of the aligner's output behind a slot, and these rows in the order of the
\* image's slots: what is left of the body when the others are filtered out.
AlignerRow(s, nw) == s[1] * nw + s[2]
Perm(nh, nw) ==
  LET rows[k \in 0 .. BodyLen(nh, nw)] ==
        IF k = 0 THEN <<>>
        ELSE IF BodyType(k, nh, nw) = "image" THEN Append(rows[k - 1], AlignerRow(Slot(k, nw), nw))
        ELSE rows[k - 1]
  IN rows[BodyLen(nh, nw)]
=============================================================================
