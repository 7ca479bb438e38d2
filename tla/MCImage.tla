------------------------------ MODULE MCImage -------------------------------
\* Images of every shape under the repository's own limits, prompts with fewer,
\* as many and more placeholders than images, and chats of one to three turns
\* with tools, tasks and a context, one size of image.
EXTENDS ImagePrompt

Message(role, words) ==
  [role |-> role, content |-> words, id |-> 0, calls |-> <<>>, task |-> NoTask, reasoning |-> FALSE,
   tools |-> FALSE, blocks |-> <<>>]
User(words) == Message("user", words)
Result(id, words) == [Message("tool", words) EXCEPT !.id = id]
Answer(reasoning, calls) == [Message("assistant", <<"t">>) EXCEPT !.reasoning = reasoning, !.calls = calls]

\* Words become tokens: text is numbered by its message, images are numbered in their order.
IsImage(w) == w = "img"
ImagesIn(messages) == FlattenSeq([i \in DOMAIN messages |-> SelectSeq(messages[i].content, IsImage)])
Labelled(messages) ==
  LET earlier(i, k) == Len(ImagesIn(SubSeq(messages, 1, i - 1))) + Len(SelectSeq(SubSeq(messages[i].content, 1, k), IsImage))
  IN [i \in DOMAIN messages |-> [messages[i] EXCEPT !.content =
        [k \in DOMAIN @ |-> [tok |-> @[k], of |-> IF @[k] = "img" THEN earlier(i, k) ELSE i]]]]

Lengths == {1, 13, 43, 200, 384, 422, 598, 756, 798, 2000, 6000}
Few == {<<1, 13>>, <<13, 1>>, <<756, 798>>, <<422, 790>>, <<6000, 43>>}
Prompts == {<<"img">>, <<"t", "img", "t">>, <<"img", "img">>, <<"t", "t", "img", "t", "img">>,
            <<"img", "t", "t", "img", "img">>, <<"t">>}
Ratios == {8, 10000}
\* Sizes of which a root is a whole number at a budget of 380, and the code's is below it.
Exact == {<<1080, 520>>, <<2250, 80>>}
Asked(words, sizes, ratios) ==
  [context : {<<>>}, messages : {Labelled(<<User(w)>>) : w \in words}, mode : {"chat"}, drop : {TRUE},
   images : sizes, ratio : ratios]

Openings == {<<>>, <<Message("system", <<"t">>)>>, <<[Message("system", <<"t">>) EXCEPT !.tools = TRUE]>>}
Asks == { <<User(<<"t", "img">>)>>, <<User(<<"t">>), User(<<"img", "t">>)>>, <<Message("developer", <<"t">>)>>,
          <<[User(<<"t">>) EXCEPT !.task = "title"]>>, <<[User(<<"t">>) EXCEPT !.task = "action"]>>,
          <<User(<<"t", "img">>), User(<<"img">>)>>,
          <<User(<<"img">>), Message("latest_reminder", <<"t">>)>> }
Uses == { <<Answer(TRUE, <<1, 2>>), Result(2, <<"t">>), Result(1, <<"t">>)>>,
          <<Answer(FALSE, <<2, 1>>), Result(2, <<"t", "img">>), Result(1, <<"t", "img">>), User(<<"t">>)>>,
          <<Answer(TRUE, <<1, 2>>), Result(2, <<"t">>), Result(3, <<"t">>), Result(1, <<"t">>)>>,
          <<Answer(FALSE, <<1, 2>>), User(<<"img", "t">>)>> }
Turns == Uses \cup {<<Answer(TRUE, <<>>)>> \o a : a \in Asks}
Chats == {o \o a \o t : o \in Openings \ {<<>>}, a \in Asks, t \in Turns}
           \cup {o \o a : o \in Openings, a \in Asks}
           \cup {a \o t \o <<Answer(TRUE, <<>>)>> : a \in Asks, t \in Uses}

\* A chat in one piece, or after a context that ends before its last messages.
Splits(chat) == {k \in 1 .. Len(chat) - 1 : \A i \in 1 .. k : chat[i].role # "developer"}
Request(chat, k, mode, drop) ==
  LET rest == SubSeq(chat, k + 1, Len(chat)) IN
  [context |-> Labelled(SubSeq(chat, 1, k)), messages |-> Labelled(rest), mode |-> mode, drop |-> drop,
   images |-> [i \in DOMAIN ImagesIn(rest) |-> <<200, 200>>], ratio |-> 8]
Ways == {<<"chat", TRUE>>, <<"thinking", TRUE>>, <<"thinking", FALSE>>}
Whole(chat) == {Request(chat, 0, way[1], way[2]) : way \in Ways}
After(chat) == {Request(chat, k, "thinking", TRUE) : k \in Splits(chat)}

MCRequests ==
       Asked({<<"t", "img">>}, {<<s>> : s \in (Lengths \X Lengths) \cup Exact}, Ratios)
  \cup Asked(Prompts, {<<s, t>> : s, t \in Few}, {8})
  \cup UNION {Whole(chat) \cup After(chat) : chat \in Chats}

\* The chats are ones that the theorem about ChatInv is about.
ASSUME RequestsAreAllowed == ChatsAllowed

\* Two calls of which the second is answered first, each with an image: left out of
\* MCRequests, as EachPlaceholderItsImage does not hold of it.
AnswersCross ==
  {Request(<<User(<<"t">>), Answer(FALSE, <<1, 2>>), Result(2, <<"t", "img">>), Result(1, <<"t", "img">>)>>, 0, "chat", TRUE)}
=============================================================================
