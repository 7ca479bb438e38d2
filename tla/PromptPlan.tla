----------------------------- MODULE PromptPlan -----------------------------
\* The planner of models/deepseek_v4/common/dsv4_mm_compat.py: where in the
\* prompt each multimodal item is written. An item is a sequence of alternatives, each with
\* a mode and a target: a sequence of tokens, or <<>> for the end of the prompt.
\* Items are numbered in their order, which is their priority. A match is
\* a pair of indexes as in Python: <<s, e>> stands for prompt[s:e].
EXTENDS Integers, Sequences, FiniteSets

Modes == {"insert", "replace"}

\* iter_token_matches: the matches of a target that begin at an index or after it.
Matches(target, prompt, from) ==
  IF target = <<>> THEN {<<Len(prompt), Len(prompt)>>}
  ELSE {<<s, s + Len(target)>> :
          s \in {t \in from .. Len(prompt) - Len(target) :
                   SubSeq(prompt, t + 1, t + Len(target)) = target}}

Before(m, n) == m[1] < n[1] \/ (m[1] = n[1] /\ m[2] < n[2])
Earliest(ms) == CHOOSE m \in ms : \A n \in ms : ~Before(n, m)

\* _compile_prompt_update_queues: items with the same alternatives wait in one
\* queue; Heads are the first ones of the queues, Queue is the one an item is in.
\* A slip pops the other end.
Queue(i, items, left) == {j \in left : items[j] = items[i]}
Heads_Last(items, left) == {i \in left : \A j \in Queue(i, items, left) : i >= j}
Heads(items, left) == {i \in left : \A j \in Queue(i, items, left) : i <= j}

\* _find_queue_match: the first alternative of one of the modes that matches.
QueueMatches(i, items, prompt, from, modes) ==
  LET found(a) == /\ items[i][a].mode \in modes
                  /\ Matches(items[i][a].target, prompt, from) # {}
  IN {[item |-> i, alt |-> a, at |-> Earliest(Matches(items[i][a].target, prompt, from))] :
        a \in {b \in DOMAIN items[i] : found(b) /\ \A c \in 1 .. b - 1 : ~found(c)}}

\* The sort key (match, priority) of updates, and a set of them in its order.
Precedes(f, g) == Before(f.at, g.at) \/ (f.at = g.at /\ f.item < g.item)
Sorted(S) ==
  CHOOSE q \in [1 .. Cardinality(S) -> S] : \A i, j \in DOMAIN q : i < j => Precedes(q[i], q[j])

\* One turn of the loop of _plan_prompt_updates_with: what it applies, in order.
Turn(items, prompt, left, from) ==
  LET all(modes) == UNION {QueueMatches(i, items, prompt, from, modes) : i \in Heads(items, left)}
      lead == CHOOSE f \in all(Modes) : \A g \in all(Modes) : f.item <= g.item
      mode == items[lead.item][lead.alt].mode
      grow == {f \in all({mode}) : mode = "replace" /\ f.at[1] # f.at[2]}
      drained == UNION {{[f EXCEPT !.item = j] : j \in Queue(f.item, items, left)} :
                          f \in all({mode}) \ grow}
      one == {f \in grow : \A g \in grow : ~Precedes(g, f)}
  IN IF all(Modes) = {} THEN <<>> ELSE Sorted(drained \cup one)
=============================================================================
