------------------------------- MODULE MCProxy -------------------------------
(* Requests for the runs of BadWordsProxy: one of each kind that the handler *)
(* tells apart.                                                              *)
EXTENDS BadWordsProxy

CONSTANTS m1, m2, w  \* two masked words and one of a client

Object(have, words) == [form |-> "object", have |-> have, words |-> words]
Completion(body) ==
  [post |-> TRUE, completion |-> TRUE, body |-> body, sized |-> TRUE, keep |-> TRUE]

Plain == Completion(Object("absent", {}))

\* What a client may ask for, for the questions about bodies.
AllKinds ==
  { Plain,
    Completion(Object("other", {})),
    Completion(Object("list", {m1, w})),
    Completion(Object("list", {m1, m2})),
    Completion([form |-> "opaque", have |-> "absent", words |-> {}]),
    [Plain EXCEPT !.completion = FALSE],
    [Plain EXCEPT !.post = FALSE],
    [Plain EXCEPT !.sized = FALSE],
    [Plain EXCEPT !.keep = FALSE],
    [Plain EXCEPT !.body = EmptyBody] }

\* For the questions about the relay the body does not matter.
KeepOrClose == {Plain, [Plain EXCEPT !.keep = FALSE]}
JustPlain == {Plain}
=============================================================================
