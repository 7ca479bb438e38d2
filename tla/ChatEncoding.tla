---------------------------- MODULE ChatEncoding ----------------------------
\* tokenizers/deepseek_v4_encoding.py: from the messages of a chat to its prompt.
\* A message is a record [role, content, id, calls, task, reasoning, tools,
\* blocks]; its content is a sequence of tokens, an image in it is its placeholder.
\* A token is [tok, of]: the image of a placeholder, the call of a tool call or of
\* a result, else 0.  Images and calls are numbered from 1.  Left out: answers with
\* wo_eos, and the content of a result as a list (vLLM has made it a string).
EXTENDS Integers, Sequences, SequencesExt, FiniteSets, FiniteSetsExt

Tok(t) == [tok |-> t, of |-> 0]
NoTask == "none"

\* What encode_messages is given: messages of a role and a task it knows.
Roles == {"system", "developer", "user", "latest_reminder", "assistant", "tool"}
Tasks == {"action", "query", "authority", "domain", "title", "read_url"}
Tokens == [tok : STRING, of : Nat]
Messages ==
  [role : Roles, content : Seq(Tokens), id : Nat, calls : Seq(Nat), task : Tasks \cup {NoTask},
   reasoning : BOOLEAN, tools : BOOLEAN, blocks : {<<>>}]

\* The tokens that are not words of a message.
Special == {"bos", "eos", "user", "assistant", "latest_reminder", "think", "think_end", "tools", "reasoning",
            "result", "result_end", "call"} \cup Tasks

\* find_last_user_index, 0 where the code has -1.
LastUser(messages) ==
  Max({0} \cup {i \in DOMAIN messages : messages[i].role \in {"user", "developer"}})

\* merge_tool_messages: results and user text that follow each other are
\* blocks of one message, which keeps the task of a user's text alone.
Opens(merged, role) ==
  merged # <<>> /\ Last(merged).role = "user" /\ (role = "tool" \/ Last(merged).task = NoTask)
MergeOne(merged, msg) ==
  LET block == [result |-> msg.role = "tool", id |-> msg.id, content |-> msg.content] IN
  IF msg.role \notin {"tool", "user"} THEN Append(merged, msg)
  ELSE IF Opens(merged, msg.role)
       THEN [merged EXCEPT ![Len(merged)].blocks = Append(@, block)]
       ELSE Append(merged, [msg EXCEPT !.role = "user", !.tools = FALSE, !.blocks = <<block>>,
                                       !.task = IF msg.role = "tool" THEN NoTask ELSE @])
MergeToolMessages(messages) ==
  LET merged[k \in 0 .. Len(messages)] == IF k = 0 THEN <<>> ELSE MergeOne(merged[k - 1], messages[k])
  IN merged[Len(messages)]

\* The place of a call among the calls of the assistant's message; a result of
\* no such call is taken for one of the first.
CallOrder(calls, id) == Max({0} \cup {k - 1 : k \in {j \in DOMAIN calls : calls[j] = id /\ id # 0}})

\* A stable sort of the results, between texts that stay where they are.
SortBlocks(blocks, calls) ==
  LET results == {p \in DOMAIN blocks : blocks[p].result}
      key(p) == CallOrder(calls, blocks[p].id)
      rank(p) == Cardinality({q \in results : key(q) < key(p) \/ (key(q) = key(p) /\ q < p)})
      nth(n) == CHOOSE p \in results : rank(p) = n
  IN [p \in DOMAIN blocks |->
        IF p \in results THEN blocks[nth(Cardinality({q \in results : q < p}))] ELSE blocks[p]]

\* sort_tool_results_by_call_order: by the last assistant's message that has calls.
LastCalls(messages, i) ==
  LET with == {j \in 1 .. i - 1 : messages[j].role = "assistant" /\ messages[j].calls # <<>>}
  IN IF with = {} THEN <<>> ELSE messages[Max(with)].calls
SortToolResults(messages) ==
  [i \in DOMAIN messages |-> [messages[i] EXCEPT !.blocks = SortBlocks(@, LastCalls(messages, i))]]

\* _drop_thinking_messages: before the last user no reasoning and no developer.
KeepRoles == {"user", "system", "tool", "latest_reminder", "direct_search_results"}
DropThinkingMessages(messages) ==
  LET last == LastUser(messages)
      keep(i) == messages[i].role \in KeepRoles \cup {"assistant"} \/ i >= last
      one(i) == IF i < last THEN [messages[i] EXCEPT !.reasoning = FALSE] ELSE messages[i]
  IN FlattenSeq([i \in DOMAIN messages |-> IF keep(i) THEN <<one(i)>> ELSE <<>>])

-----------------------------------------------------------------------------
\* render_message.

BlockTokens(block) ==
  IF block.result THEN <<[tok |-> "result", of |-> block.id]>> \o block.content \o <<Tok("result_end")>>
  ELSE block.content
Tools(msg) == IF msg.tools THEN <<Tok("tools")>> ELSE <<>>
Reasoning(msg) == IF msg.reasoning THEN <<Tok("reasoning")>> ELSE <<>>
Calls(msg) == [k \in DOMAIN msg.calls |-> [tok |-> "call", of |-> msg.calls[k]]]

\* An assistant's message closes its thinking where its turn was left open.
ClosesThinking(i, messages, mode, drop) ==
  /\ mode = "thinking" /\ ~(i > 1 /\ messages[i - 1].task # NoTask)
  /\ ~drop \/ i > LastUser(messages)

\* The token that a turn of the assistant begins with.
Think(i, messages, mode, drop) ==
  IF mode = "thinking" /\ (~drop \/ i >= LastUser(messages)) THEN "think" ELSE "think_end"

Body(i, messages, mode, drop) ==
  LET msg == messages[i] IN
  CASE msg.role = "system"          -> msg.content \o Tools(msg)
    [] msg.role = "developer"       -> <<Tok("user")>> \o msg.content \o Tools(msg)
    [] msg.role = "user"            -> <<Tok("user")>> \o FlattenSeq([b \in DOMAIN msg.blocks |-> BlockTokens(msg.blocks[b])])
    [] msg.role = "latest_reminder" -> <<Tok("latest_reminder")>> \o msg.content
    [] msg.role = "assistant"       ->
         (IF ClosesThinking(i, messages, mode, drop) THEN Reasoning(msg) \o <<Tok("think_end")>> ELSE <<>>)
           \o msg.content \o Calls(msg) \o <<Tok("eos")>>

\* What follows a message before the next turn: a task, or the assistant's turn.
Transition(i, messages, mode, drop) ==
  LET msg == messages[i]
      inner == i < Len(messages) /\ messages[i + 1].role \notin {"assistant", "latest_reminder"}
  IN CASE inner -> <<>>
       [] ~inner /\ msg.task = "action" ->
            <<Tok("assistant"), Tok(IF mode = "thinking" THEN "think" ELSE "think_end"), Tok("action")>>
       [] ~inner /\ msg.task \notin {NoTask, "action"} -> <<Tok(msg.task)>>
       [] ~inner /\ msg.task = NoTask /\ msg.role \in {"user", "developer"} ->
            <<Tok("assistant"), Tok(Think(i, messages, mode, drop))>>
       [] OTHER -> <<>>

RenderMessage(i, messages, mode, drop) ==
  Body(i, messages, mode, drop) \o Transition(i, messages, mode, drop)

\* encode_messages: the prompt of the messages that follow an encoded context.
Preprocess_SortsAlone(context, messages) == SortToolResults(MergeToolMessages(messages))
Preprocess(context, messages) ==
  SubSeq(SortToolResults(context \o MergeToolMessages(messages)), Len(context) + 1,
         Len(context) + Len(MergeToolMessages(messages)))
Encoded(context) == SortToolResults(MergeToolMessages(context))
AllMessages(context, messages) == Encoded(context) \o Preprocess(context, messages)

\* Reasoning is dropped unless some message has tools.
EffectiveDrop(all, drop_thinking) == drop_thinking /\ \A i \in DOMAIN all : ~all[i].tools
Dropped(messages, mode, drop) ==
  IF mode = "thinking" /\ drop THEN DropThinkingMessages(messages) ELSE messages
FullMessages(context, messages, mode, drop_thinking) ==
  Dropped(AllMessages(context, messages), mode, EffectiveDrop(AllMessages(context, messages), drop_thinking))
ContextLen(context, messages, mode, drop_thinking) ==
  Len(Dropped(Encoded(context), mode, EffectiveDrop(AllMessages(context, messages), drop_thinking)))

EncodeMessages(context, messages, mode, drop_thinking) ==
  LET drop == EffectiveDrop(AllMessages(context, messages), drop_thinking)
      full == FullMessages(context, messages, mode, drop_thinking)
      first == ContextLen(context, messages, mode, drop_thinking)
  IN (IF context = <<>> THEN <<Tok("bos")>> ELSE <<>>)
       \o FlattenSeq([k \in 1 .. Len(full) - first |-> RenderMessage(first + k, full, mode, drop)])
=============================================================================
