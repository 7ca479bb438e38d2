----------------------------- MODULE ImagePrompt ----------------------------
\* A chat with images, from its messages to the tokens the engine reads: the
\* encoding of the chat (ChatEncoding), load_image and safe_resize for each
\* image, the blocks, the plan (PromptPlan) and
\* _apply_token_matches_with_placeholders, which writes the blocks into the
\* prompt with the pad the compressor needs.
EXTENDS ImageBlock, PromptPlan, ChatEncoding

\* A request is [context, messages, mode, drop, images, ratio]: the arguments of
\* encode_messages, the sizes <<H, W>> of the images, collected from the messages in their
\* order and numbered so in them, and vision_max_wh_ratio.
CONSTANTS Requests

\* A chat has messages, and images have pixels.
ASSUME RequestAssumption ==
  \A r \in Requests :
    /\ r.context \in Seq(Messages) /\ r.messages \in Seq(Messages) /\ r.messages # <<>>
    /\ r.mode \in {"chat", "thinking"} /\ r.drop \in BOOLEAN
    /\ r.images \in Seq((Nat \ {0}) \X (Nat \ {0})) /\ r.ratio \in Nat \ {0}

VARIABLES request, step,
          tokens,   \* the prompt as encoded
          cur,      \* the image being resized: size in pixels and in patches, budget
          cells,    \* the sizes <<nh, nw>> of the images done
          left,     \* items the planner has not placed
          plan,     \* the updates it planned, in order
          from,     \* prev_end_idx of the planner, then of the splice
          out,      \* new_token_ids
          holes     \* placeholders: item, start and length in out

vars == <<request, step, tokens, cur, cells, left, plan, from, out, holes>>

prompt == [i \in DOMAIN tokens |-> tokens[i].tok]
images == request.images
Updates == [i \in DOMAIN images |-> <<[mode |-> "replace", target |-> <<"img">>]>>]
Idle == [H |-> 0, W |-> 0, bh |-> 0, bw |-> 0, budget |-> 0]

\* What solve_resize_ratio may return, and the next budget; a slip keeps the budget.
Candidates(c) == SolveResizeRatio(c.H, c.W, c.budget)
Lower_Never(budget) == budget
Lower(budget) == budget - 1

\* popleft of the items placed.
Unplaced(applied) == left \ {applied[j].item : j \in DOMAIN applied}

Init == /\ request \in Requests
        /\ tokens = EncodeMessages(request.context, request.messages, request.mode, request.drop)
        /\ step = "load" /\ cur = Idle /\ cells = <<>>
        /\ left = {} /\ plan = <<>> /\ from = 0 /\ out = <<>> /\ holes = <<>>

Load == /\ step = "load" /\ Len(cells) < Len(images)
        /\ \E s \in Scaled(images[Len(cells) + 1][1], images[Len(cells) + 1][2], request.ratio) :
             cur' = [H |-> s[1], W |-> s[2], bh |-> CeilDiv(s[1], PatchSize),
                     bw |-> CeilDiv(s[2], PatchSize), budget |-> Limit]
        /\ step' = "resize"
        /\ UNCHANGED <<request, tokens, cells, left, plan, from, out, holes>>

\* A turn of safe_resize's loop.
Shrink == /\ step = "resize" /\ TokensOf(cur.bh, cur.bw) > Limit
          /\ IF Candidates(cur) = {}
             THEN step' = "raised" /\ UNCHANGED cur
             ELSE /\ \E b \in Candidates(cur) :
                       cur' = [cur EXCEPT !.bh = b[1], !.bw = b[2], !.budget = Lower(@)]
                  /\ UNCHANGED step
          /\ UNCHANGED <<request, tokens, cells, left, plan, from, out, holes>>

Build == /\ step = "resize" /\ TokensOf(cur.bh, cur.bw) <= Limit
         /\ cells' = Append(cells, Cells(cur.bh, cur.bw)) /\ cur' = Idle /\ step' = "load"
         /\ UNCHANGED <<request, tokens, left, plan, from, out, holes>>

Plan == /\ step = "load" /\ Len(cells) = Len(images)
        /\ step' = "plan" /\ left' = DOMAIN images
        /\ UNCHANGED <<request, tokens, cur, cells, plan, from, out, holes>>

PlanTurn == LET applied == Turn(Updates, prompt, left, from) IN
  /\ step = "plan"
  /\ IF applied = <<>> THEN step' = "splice" /\ from' = 0 /\ UNCHANGED <<left, plan>>
     ELSE /\ plan' = plan \o applied
          /\ left' = Unplaced(applied)
          /\ from' = applied[Len(applied)].at[2]
          /\ UNCHANGED step
  /\ UNCHANGED <<request, tokens, cur, cells, out, holes>>

\* One planned update is written: the text before it, the pad, the block.
Splice == LET p == plan[Len(holes) + 1]
              text == out \o SubSeq(prompt, from + 1, p.at[1])
              c == cells[p.item]
              pad == CompressPad(Len(text)) IN
  /\ step = "splice" /\ Len(holes) < Len(plan)
  /\ out' = text \o [j \in 1 .. pad |-> "pad"] \o Block(c[1], c[2])
  /\ holes' = Append(holes, [item |-> p.item, start |-> Len(text), pad |-> pad,
                             len |-> pad + BlockLen(c[1], c[2])])
  /\ from' = p.at[2]
  /\ UNCHANGED <<request, step, tokens, cur, cells, left, plan>>

Finish == /\ step = "splice" /\ Len(holes) = Len(plan)
          /\ out' = out \o SubSeq(prompt, from + 1, Len(prompt)) /\ step' = "done"
          /\ UNCHANGED <<request, tokens, cur, cells, left, plan, from, holes>>

Rest == step \in {"done", "raised"} /\ UNCHANGED vars

Next == Load \/ Shrink \/ Build \/ Plan \/ PlanTurn \/ Splice \/ Finish \/ Rest
Spec == Init /\ [][Next]_vars /\ WF_vars(Next)

-----------------------------------------------------------------------------
\* Types: the handler is at one of its steps, indexes stay inside the prompt.
TypeOK ==
  /\ step \in {"load", "resize", "plan", "splice", "done", "raised"}
  /\ cells \in Seq(Nat \X Nat) /\ Len(cells) <= Len(images)
  /\ left \subseteq DOMAIN images /\ from \in 0 .. Len(prompt)
  /\ Len(holes) <= Len(plan) /\ Len(plan) <= Len(images)

\* The lengths that grid_tokens (the token budget), types_sizes (the split of the
\* processor's output) and build_image_block give for a block are the same.
LengthsAgree ==
  \A j \in DOMAIN cells :
    /\ GridTokens(cells[j][1], cells[j][2]) = BlockLen(cells[j][1], cells[j][2])
    /\ TypesSize(cells[j][1], cells[j][2]) = BlockLen(cells[j][1], cells[j][2])

\* A block has as many image tokens as the aligner has rows, and the permutation uses
\* each row once: every vision embedding reaches the prompt.
EveryRowOnce ==
  \A j \in DOMAIN cells :
    LET n == cells[j][1] * cells[j][2]
        perm == Perm(cells[j][1], cells[j][2]) IN
    Len(perm) = n /\ {perm[k] : k \in 1 .. n} = 0 .. n - 1

\* No image gives the ViT more patches than the one the memory is profiled with.
DummyIsLargest ==
  step = "resize" /\ TokensOf(cur.bh, cur.bw) <= Limit =>
    \E d \in DummySizes : cur.bh * cur.bw <= d[1] * d[2]

\* Whatever the size of an image, what safe_resize leaves has rows and columns, and its
\* block with the largest pad is no longer than vision_max_n_token.
BlockFits ==
  \A j \in DOMAIN cells :
    /\ cells[j][1] > 0 /\ cells[j][2] > 0
    /\ BlockLen(cells[j][1], cells[j][2]) + CompressPadTo - 1 <= MaxTokens

\* The compressor reads four tokens at a time, by their position in the prompt: for every
\* image of a prompt, behind any text, pads and blocks, the body of its block
\* begins such a group and its last pad completes one, so that a group never
\* mixes an image with text and never splits the two rows of a column.
GroupsHoldImages ==
  \A h \in DOMAIN holes :
    LET hole == holes[h] IN
    /\ (hole.start + hole.pad + 1) % CompressPadTo = 0
    /\ (hole.start + hole.len - 1) % CompressPadTo = 0
    /\ hole.pad < CompressPadTo

\* Every block of a prompt is made as the tower and the budget expect it, and lies
\* where the compressor reads it.
BlockInv == TypeOK /\ LengthsAgree /\ EveryRowOnce /\ BlockFits /\ GroupsHoldImages

\* The prompt without the planner: every placeholder in turn is replaced by the
\* block of the next image, as long as there is one.
Seen(k) == Cardinality({j \in 1 .. k : prompt[j] = "img"})
Expanded[k \in 0 .. Len(prompt)] ==
  IF k = 0 THEN <<>>
  ELSE LET before == Expanded[k - 1] IN
       IF prompt[k] # "img" \/ Seen(k) > Len(cells) THEN Append(before, prompt[k])
       ELSE before \o [j \in 1 .. CompressPad(Len(before)) |-> "pad"]
              \o Block(cells[Seen(k)][1], cells[Seen(k)][2])

\* Planner and splice together write each image at its own placeholder, in
\* order and once, and leave the text alone; the ranges handed to the engine are
\* exactly the blocks.
PromptIsExpanded ==
  step = "done" =>
    /\ out = Expanded[Len(prompt)]
    /\ \A h \in DOMAIN holes :
         LET block == SubSeq(out, holes[h].start + holes[h].pad + 1, holes[h].start + holes[h].len)
         IN block = Block(cells[holes[h].item][1], cells[holes[h].item][2])

fresh == step = "load" /\ cells = <<>>

\* Results of a turn stand in the order of the calls they answer, those of
\* the assistant's last message with calls, wherever its message came in.
ResultsFollowCalls ==
  LET whole == request.context \o request.messages
      turn(i) == {j \in 1 .. i : \A k \in j .. i : whole[k].role = "tool"}
      calls(i) == LastCalls(whole, i)
      known(i) == {k \in turn(i) : whole[k].id \in ToSet(calls(i))}
      at(i) == SelectInSeq(tokens, LAMBDA t : t = whole[i].content[1])
  IN fresh =>
       \A i \in Len(request.context) + 1 .. Len(whole) :
         whole[i].role = "tool" =>
           \A j, k \in known(i) \ (1 .. Len(request.context)) :
             CallOrder(calls(i), whole[j].id) < CallOrder(calls(i), whole[k].id) => at(j) < at(k)

\* In a chat whose turns alternate (TurnsAlternate), each turn of the assistant opens and
\* closes its thinking once, also where earlier reasoning is dropped and the transitions of
\* one message depend on the next; the last may be left open for the engine.
Follows ==
  { <<"assistant", "think">>, <<"assistant", "think_end">>, <<"think", "think_end">>, <<"think_end", "eos">>,
    <<"eos", "assistant">>, <<"think", "action">>, <<"think_end", "action">>, <<"action", "eos">> }
  \cup UNION {{<<"eos", t>>, <<t, "eos">>} : t \in Tasks \ {"action"}}
TurnMarks == {"assistant", "think", "think_end", "eos"} \cup Tasks
TurnsClose ==
  fresh =>
    \A i, j \in DOMAIN prompt :
      /\ i < j /\ prompt[i] \in TurnMarks /\ prompt[j] \in TurnMarks
      /\ \A k \in i + 1 .. j - 1 : prompt[k] \notin TurnMarks
      => <<prompt[i], prompt[j]>> \in Follows

\* A chat encoded after a context reads as in the prompt of both at once, and
\* says all that its users, its tools and its assistant said.
ContextIsPrefix ==
  LET last == request.context[Len(request.context)]
      joined == last.role \in {"user", "tool"} /\ request.messages[1].role \in {"user", "tool"}
  IN fresh /\ request.context # <<>> /\ ~joined =>
       /\ IsSuffix(tokens, EncodeMessages(<<>>, request.context \o request.messages, request.mode, request.drop))
       /\ \A i \in DOMAIN request.messages :
            request.messages[i].role # "developer" => ToSet(request.messages[i].content) \subseteq ToSet(tokens)

\* The image a placeholder stood for is the one its block shows ("matched to the
\* placeholders by order", deepseek_v4_encoding.py:202), in a prompt whose
\* placeholders are those of its images.
EachPlaceholderItsImage ==
  LET placeholders == {i \in DOMAIN tokens : tokens[i].tok = "img"}
  IN step = "done" /\ {tokens[i].of : i \in placeholders} = DOMAIN images =>
       \A j \in DOMAIN plan : tokens[plan[j].at[1] + 1].of = plan[j].item

\* The prompt says what the chat said: results in the order of their calls, turns
\* that open and close, a context that reads as if it had come with the rest, and
\* images where they were shown.
ChatInv == ResultsFollowCalls /\ TurnsClose /\ ContextIsPrefix /\ EachPlaceholderItsImage

\* What ChatInv takes of the chats, of which the code asks nothing.
\* The words of messages are no special tokens.
WordsAreWords(r) ==
  \A i \in DOMAIN r.messages : \A k \in DOMAIN r.messages[i].content : r.messages[i].content[k].tok \notin Special

\* A result says something, and begins with a word that no other message has.
ResultsTell(r) ==
  \A i \in DOMAIN r.messages : r.messages[i].role = "tool" =>
    /\ r.messages[i].content # <<>>
    /\ \A j \in DOMAIN r.messages \ {i} : r.messages[i].content[1] \notin ToSet(r.messages[j].content)

\* The developer does not have the last word of a context.
DevelopersAreAnswered(r) ==
  \A i \in DOMAIN r.context : r.context[i].role = "developer" =>
    \E j \in DOMAIN r.context : j > i /\ r.context[j].role \in {"user", "tool"}

\* Of the messages as they are rendered, one asks and one answers; the answer to a
\* task follows at once, and no system message stands behind one that asks.
HandsOver(full, i) ==
  /\ full[i].role \in {"user", "developer"}
  /\ i = Len(full) \/ full[i + 1].role \in {"assistant", "latest_reminder"}
Answers(full, i) == full[i].role = "assistant"
TurnsAlternate(r) ==
  LET full == FullMessages(r.context, r.messages, r.mode, r.drop) IN
  \A i \in DOMAIN full :
    /\ full[i].task # NoTask => full[i].role \in {"user", "developer"}
    /\ i < Len(full) /\ HandsOver(full, i) /\ full[i].task # NoTask => full[i + 1].role = "assistant"
    /\ i < Len(full) /\ full[i].role \in {"user", "developer"} => full[i + 1].role # "system"
    /\ \A j \in i + 1 .. Len(full) :
         /\ HandsOver(full, i) /\ HandsOver(full, j) => \E k \in i + 1 .. j - 1 : Answers(full, k)
         /\ Answers(full, i) /\ Answers(full, j) => \E k \in i + 1 .. j - 1 : HandsOver(full, k)

\* Images are numbered in the order of the messages, and where a turn shows any, its
\* results come in the order of the calls.
ImagesComeInOrder(r) ==
  LET shown(i) == {k \in DOMAIN r.messages[i].content : r.messages[i].content[k].tok = "img"}
      key(i) == CallOrder(LastCalls(r.context \o r.messages, Len(r.context) + i), r.messages[i].id)
  IN \A i, j \in DOMAIN r.messages :
       /\ \A k \in shown(i), l \in shown(j) :
            i < j \/ (i = j /\ k < l) => r.messages[i].content[k].of < r.messages[j].content[l].of
       /\ /\ i < j /\ r.messages[i].role = "tool" /\ r.messages[j].role = "tool"
          /\ \A k \in i .. j : r.messages[k].role \in {"user", "tool"}
          /\ \E k \in i .. j : shown(k) # {}
          => key(i) <= key(j)

ChatsAllowed ==
  \A r \in Requests :
    /\ WordsAreWords(r) /\ ResultsTell(r) /\ DevelopersAreAnswered(r) /\ TurnsAlternate(r)
    /\ ImagesComeInOrder(r)

\* Every request gets its tokens: the loop of safe_resize ends for every image, and
\* never at the sizes its assertion refuses.
ResizeEnds == <>(step = "done")
=============================================================================
