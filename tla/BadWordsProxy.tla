---------------------------- MODULE BadWordsProxy ----------------------------
(***************************************************************************)
(* scripts/badwords_proxy.py: one handler thread per client connection,    *)
(* which reads a request, adds the masked words to a completion request,   *)
(* sends it on over an upstream connection of its own and relays the       *)
(* answer in chunks.  The engine is external and answers one request at a  *)
(* time (MAX_NUM_SEQS=1 in serve.sh); it may go down and come back, and    *)
(* its open connections then end in one of the ways of Cuts.  A response   *)
(* is MaxEvents events at most; one read(8192) of the proxy holds Block    *)
(* events.  Both are small stand-ins for bytes.                            *)
(***************************************************************************)
EXTENDS Naturals, FiniteSets

CONSTANTS
  Clients,     \* client connections, one handler thread each
  BadWords,    \* the words of --bad-word or the default list
  Requests,    \* the requests a client may send (a subset of Request)
  Framings,    \* how the engine delimits a response: chunked, length
  Cuts,        \* how an upstream connection dies: fin (closed), rst (reset)
  MaxEvents,   \* bound: events of one response
  Block,       \* events that fill one up.read(8192)
  MaxRequests, \* bound: requests of one client
  MaxDowns     \* bound: how often the engine goes down

VARIABLES
  pc,      \* what the handler thread of a connection is about to do
  conn,    \* the client's socket: open, left (client hung up), closed (by the proxy)
  req,     \* the request being handled
  view,    \* what the client has seen of the answer
  got,     \* events of the answer the client has received
  up,      \* the upstream connection of the handler
  atEng,   \* the body the engine received, NoBody before that
  framing, \* framing announced in the response headers, "none" before them
  total,   \* events of the whole response
  sent,    \* events of the response the engine has written
  flushed, \* events the handler has read and written to the client
  backend, \* up or down
  downs,   \* how often it went down
  count    \* requests sent on a connection so far

answer    == <<framing, total, sent>>
world     == <<backend, downs, count>>
proxyVars == <<pc, conn, req, view, got, up, atEng, answer, flushed, world>>

\* A body is empty, an object with or without a list of bad_words, or opaque
\* (no JSON, or JSON that is no object).  "other" is a bad_words of another type.
Body(W) == [form : {"empty", "opaque"}, have : {"absent"}, words : {{}}]
      \cup [form : {"object"}, have : {"absent", "other"}, words : {{}}]
      \cup [form : {"object"}, have : {"list"}, words : SUBSET W]
NoBody == [form |-> "none", have |-> "absent", words |-> {}]
EmptyBody == [form |-> "empty", have |-> "absent", words |-> {}]

\* "completion": the path ends in /chat/completions or /completions.
\* "sized": the client sent a Content-Length.  "keep": it wants keep-alive.
Request(W) == [post : BOOLEAN, completion : BOOLEAN, body : Body(W),
               sized : BOOLEAN, keep : BOOLEAN]
Words == BadWords \cup UNION {r.body.words : r \in Requests}
NoRequest == [post |-> FALSE, completion |-> FALSE, body |-> NoBody,
              sized |-> TRUE, keep |-> TRUE]

ASSUME ProxyAssumption ==
  /\ IsFiniteSet(Clients) /\ Clients # {}
  /\ Requests # {} /\ Requests \subseteq Request(Words)
  /\ Framings \subseteq {"chunked", "length"} /\ Framings # {}
  /\ Cuts \subseteq {"fin", "rst"} /\ Cuts # {}
  /\ MaxEvents \in Nat /\ Block \in Nat \ {0}
  /\ MaxRequests \in Nat /\ MaxDowns \in Nat

ProxyInit ==
  /\ pc = [c \in Clients |-> "idle"]
  /\ conn = [c \in Clients |-> "open"]
  /\ req = [c \in Clients |-> NoRequest]
  /\ view = [c \in Clients |-> "none"]
  /\ got = [c \in Clients |-> 0]
  /\ up = [c \in Clients |-> "closed"]
  /\ atEng = [c \in Clients |-> NoBody]
  /\ framing = [c \in Clients |-> "none"]
  /\ total = [c \in Clients |-> 0]
  /\ sent = [c \in Clients |-> 0]
  /\ flushed = [c \in Clients |-> 0]
  /\ backend = "up" /\ downs = 0
  /\ count = [c \in Clients |-> 0]

-----------------------------------------------------------------------------
(***************************************************************************)
(* Clients.  A client waits for its answer before the next request, and    *)
(* may hang up at any moment of that wait.                                 *)
(***************************************************************************)

SendRequest(c) ==
  /\ pc[c] = "idle" /\ conn[c] = "open" /\ count[c] < MaxRequests
  /\ view[c] \in {"none", "complete"}
  /\ \E r \in Requests : req' = [req EXCEPT ![c] = r]
  /\ pc' = [pc EXCEPT ![c] = "parsed"]
  /\ view' = [view EXCEPT ![c] = "waiting"]
  /\ count' = [count EXCEPT ![c] = @ + 1]
  /\ got' = [got EXCEPT ![c] = 0]
  /\ flushed' = [flushed EXCEPT ![c] = 0]
  /\ total' = [total EXCEPT ![c] = 0]
  /\ sent' = [sent EXCEPT ![c] = 0]
  /\ framing' = [framing EXCEPT ![c] = "none"]
  /\ atEng' = [atEng EXCEPT ![c] = NoBody]
  /\ UNCHANGED <<conn, up, backend, downs>>

HangUp(c) ==
  /\ conn[c] = "open" /\ view[c] \in {"waiting", "streaming"}
  /\ conn' = [conn EXCEPT ![c] = "left"]
  /\ UNCHANGED <<pc, req, view, got, up, atEng, answer, flushed, world>>

\* A new connection, and a new thread for it.
Reconnect(c) ==
  /\ pc[c] = "closed" /\ count[c] < MaxRequests
  /\ pc' = [pc EXCEPT ![c] = "idle"]
  /\ conn' = [conn EXCEPT ![c] = "open"]
  /\ view' = [view EXCEPT ![c] = "none"]
  /\ UNCHANGED <<req, got, up, atEng, answer, flushed, world>>

-----------------------------------------------------------------------------
(***************************************************************************)
(* The engine.                                                             *)
(***************************************************************************)

Busy == \E c \in Clients : up[c] = "running"

Admit(c) ==
  /\ up[c] = "queued" /\ ~Busy
  /\ up' = [up EXCEPT ![c] = "running"]
  /\ \E f \in Framings : framing' = [framing EXCEPT ![c] = f]
  /\ \E n \in 0 .. MaxEvents : total' = [total EXCEPT ![c] = n]
  /\ UNCHANGED <<pc, conn, req, view, got, atEng, sent, flushed, world>>

Emit(c) ==
  /\ up[c] = "running" /\ sent[c] < total[c]
  /\ sent' = [sent EXCEPT ![c] = @ + 1]
  /\ UNCHANGED <<pc, conn, req, view, got, up, atEng, framing, total, flushed, world>>

Finish(c) ==
  /\ up[c] = "running" /\ sent[c] = total[c]
  /\ up' = [up EXCEPT ![c] = "done"]
  /\ UNCHANGED <<pc, conn, req, view, got, atEng, answer, flushed, world>>

EngineDown ==
  /\ backend = "up" /\ downs < MaxDowns
  /\ backend' = "down" /\ downs' = downs + 1
  /\ \E cut \in [Clients -> Cuts] :
       up' = [c \in Clients |-> IF up[c] \in {"queued", "running"}
                                THEN cut[c] ELSE up[c]]
  /\ UNCHANGED <<pc, conn, req, view, got, atEng, answer, flushed, count>>

EngineUp ==
  /\ backend = "down" /\ backend' = "up"
  /\ UNCHANGED <<pc, conn, req, view, got, up, atEng, answer, flushed, downs, count>>

-----------------------------------------------------------------------------
(***************************************************************************)
(* The handler: _inject and _relay.                                        *)
(***************************************************************************)

\* Mutant of Inject: a request that has a list of its own is left alone.
Inject_Absent(body) ==
  IF body.form # "object" \/ body.have = "list" THEN body
  ELSE [body EXCEPT !.have = "list", !.words = BadWords]

\* _inject: the client's own list is kept, what it lacks is added.
Inject(body) ==
  IF body.form # "object" THEN body
  ELSE [body EXCEPT !.have = "list", !.words = @ \cup BadWords]

\* Without a Content-Length nothing is read, whatever the client sent.
ReadBody(r) == IF r.sized THEN r.body ELSE EmptyBody

\* Mutant of Outgoing: every path is rewritten.
Outgoing_AnyPath(r) ==
  IF ReadBody(r).form # "empty" THEN Inject(ReadBody(r)) ELSE ReadBody(r)

\* The body that goes upstream.
Outgoing(r) ==
  IF r.post /\ r.completion /\ ReadBody(r).form # "empty"
  THEN Inject(ReadBody(r)) ELSE ReadBody(r)

\* urlopen: the request is sent.
Forward(c) ==
  /\ pc[c] = "parsed" /\ backend = "up"
  /\ pc' = [pc EXCEPT ![c] = "headers"]
  /\ up' = [up EXCEPT ![c] = "queued"]
  /\ atEng' = [atEng EXCEPT ![c] = Outgoing(req[c])]
  /\ UNCHANGED <<conn, req, view, got, answer, flushed, world>>

\* The handler returns and the connection stays, or is closed: the client asked
\* for that, is gone, or the unread body makes the next request line a 400.
After(c) == IF req[c].keep /\ req[c].sized /\ conn[c] = "open" THEN "idle" ELSE "closed"

\* What a client sees that gets no more on a closed connection.
Ended(c) == IF conn[c] = "open" /\ view[c] \in {"waiting", "streaming"} THEN "cut" ELSE view[c]

Close(c, v) ==
  /\ pc' = [pc EXCEPT ![c] = "closed"]
  /\ conn' = [conn EXCEPT ![c] = "closed"]
  /\ view' = [view EXCEPT ![c] = v]

\* URLError: 502, which also closes the connection.
Refuse(c) ==
  /\ pc[c] = "parsed" /\ backend = "down"
  /\ Close(c, IF conn[c] = "open" THEN "refused" ELSE view[c])
  /\ UNCHANGED <<req, got, up, atEng, answer, flushed, world>>

\* Mutant of NoAnswer: any failure of urlopen is answered with a 502.
NoAnswer_502(c) ==
  /\ pc[c] = "headers" /\ up[c] \in {"fin", "rst"} /\ framing[c] = "none"
  /\ up' = [up EXCEPT ![c] = "closed"]
  /\ Close(c, IF conn[c] = "open" THEN "refused" ELSE view[c])
  /\ UNCHANGED <<req, got, atEng, answer, flushed, world>>

\* The engine goes away before the headers: neither handler of urlopen takes
\* what getresponse raises, so the thread ends and the connection is closed.
NoAnswer(c) ==
  /\ pc[c] = "headers" /\ up[c] \in {"fin", "rst"} /\ framing[c] = "none"
  /\ up' = [up EXCEPT ![c] = "closed"]
  /\ Close(c, Ended(c))
  /\ UNCHANGED <<req, got, atEng, answer, flushed, world>>

\* The status line and the headers go to the client.
Begin(c) ==
  /\ pc[c] = "headers" /\ framing[c] # "none"
  /\ pc' = [pc EXCEPT ![c] = "relay"]
  /\ view' = [view EXCEPT ![c] = IF conn[c] = "open" THEN "streaming" ELSE @]
  /\ UNCHANGED <<conn, req, got, up, atEng, answer, flushed, world>>

Avail(c) == sent[c] - flushed[c]

\* The response is over for read(8192): the end is there, or a response of
\* known length is closed early, which http.client reports as an end as well.
AtEnd(c) == \/ up[c] = "done"
            \/ up[c] = "fin" /\ framing[c] = "length"

\* read(8192) blocks until the block is full or the response is over.
ReadReturns(c) == Avail(c) > 0 /\ (Avail(c) >= Block \/ AtEnd(c))

ReadFails(c) ==
  /\ ~ReadReturns(c)
  /\ \/ up[c] = "rst"
     \/ up[c] = "fin" /\ framing[c] = "chunked"

\* What one read returned is written to the client at once.
Flush(c) ==
  /\ pc[c] = "relay" /\ ReadReturns(c)
  /\ LET n == IF Avail(c) >= Block THEN Block ELSE Avail(c)
     IN /\ flushed' = [flushed EXCEPT ![c] = @ + n]
        /\ got' = [got EXCEPT ![c] = IF conn[c] = "open" THEN @ + n ELSE @]
  /\ UNCHANGED <<pc, conn, req, view, up, atEng, answer, world>>

\* An empty read: the last chunk is written and the handler returns.
Terminate(c) ==
  /\ pc[c] = "relay" /\ Avail(c) = 0 /\ AtEnd(c)
  /\ up' = [up EXCEPT ![c] = "closed"]
  /\ view' = [view EXCEPT ![c] = IF conn[c] = "open" THEN "complete" ELSE @]
  /\ pc' = [pc EXCEPT ![c] = After(c)]
  /\ conn' = [conn EXCEPT ![c] = IF After(c) = "closed" THEN "closed" ELSE @]
  /\ UNCHANGED <<req, got, atEng, answer, flushed, world>>

\* Mutant of Broken: every exception ends the stream as an empty read does.
Broken_AsEnd(c) ==
  /\ pc[c] = "relay" /\ up[c] = "fin" /\ ReadFails(c)
  /\ up' = [up EXCEPT ![c] = "closed"]
  /\ view' = [view EXCEPT ![c] = IF conn[c] = "open" THEN "complete" ELSE @]
  /\ pc' = [pc EXCEPT ![c] = After(c)]
  /\ conn' = [conn EXCEPT ![c] = IF After(c) = "closed" THEN "closed" ELSE @]
  /\ UNCHANGED <<req, got, atEng, answer, flushed, world>>

\* Mutant of Broken: the exception is swallowed with the ones of the client.
Broken_Swallowed(c) ==
  /\ pc[c] = "relay" /\ up[c] = "fin" /\ ReadFails(c)
  /\ up' = [up EXCEPT ![c] = "closed"]
  /\ pc' = [pc EXCEPT ![c] = After(c)]
  /\ UNCHANGED <<conn, req, view, got, atEng, answer, flushed, world>>

\* A chunked response that is closed early: no ConnectionResetError, so the
\* thread ends, the connection is closed and the part block is lost.
Broken(c) ==
  /\ pc[c] = "relay" /\ up[c] = "fin" /\ ReadFails(c)
  /\ up' = [up EXCEPT ![c] = "closed"]
  /\ Close(c, Ended(c))
  /\ UNCHANGED <<req, got, atEng, answer, flushed, world>>

\* A reset of the upstream connection is a ConnectionResetError: taken for the
\* client's, and the handler returns without the last chunk.
Swallowed(c) ==
  /\ pc[c] = "relay" /\ up[c] = "rst" /\ ReadFails(c)
  /\ up' = [up EXCEPT ![c] = "closed"]
  /\ pc' = [pc EXCEPT ![c] = After(c)]
  /\ conn' = [conn EXCEPT ![c] = IF After(c) = "closed" THEN "closed" ELSE @]
  /\ view' = [view EXCEPT ![c] = IF After(c) = "closed" THEN Ended(c) ELSE @]
  /\ UNCHANGED <<req, got, atEng, answer, flushed, world>>

\* The handler is about to write headers, a block or the last chunk.
Writing(c) ==
  \/ pc[c] = "headers" /\ framing[c] # "none"
  \/ pc[c] = "relay" /\ (ReadReturns(c) \/ AtEnd(c))

\* Mutant of WriteFails: the upstream connection is left open.
WriteFails_NoClose(c) ==
  /\ conn[c] = "left" /\ Writing(c)
  /\ Close(c, view[c])
  /\ UNCHANGED <<req, got, up, atEng, answer, flushed, world>>

\* A write to a client that hung up: swallowed, and the upstream is closed.
\* The first such write may still succeed (Begin, Flush, Terminate).
WriteFails(c) ==
  /\ conn[c] = "left" /\ Writing(c)
  /\ up' = [up EXCEPT ![c] = "closed"]
  /\ Close(c, view[c])
  /\ UNCHANGED <<req, got, atEng, answer, flushed, world>>

\* Waiting for the next request, the thread reads the end of the connection.
CloseIdle(c) ==
  /\ pc[c] = "idle" /\ conn[c] = "left"
  /\ Close(c, view[c])
  /\ UNCHANGED <<req, got, up, atEng, answer, flushed, world>>

-----------------------------------------------------------------------------
Handler(c) ==
  \/ Forward(c) \/ Refuse(c) \/ NoAnswer(c) \/ Begin(c) \/ Flush(c) \/ Terminate(c)
  \/ Broken(c) \/ Swallowed(c) \/ WriteFails(c) \/ CloseIdle(c)

\* Every request of the bound has been made: nothing is left to do.
Rest ==
  /\ \A c \in Clients : pc[c] \in {"idle", "closed"} /\ count[c] = MaxRequests
  /\ UNCHANGED proxyVars

ProxyNext ==
  \/ \E c \in Clients :
       \/ SendRequest(c) \/ HangUp(c) \/ Reconnect(c)
       \/ Admit(c) \/ Emit(c) \/ Finish(c)
       \/ Handler(c)
  \/ EngineDown \/ EngineUp \/ Rest

\* The threads are scheduled; nothing is promised of the engine.
HandlersRun == \A c \in Clients : WF_proxyVars(Handler(c))
StreamSpec == ProxyInit /\ [][ProxyNext]_proxyVars /\ HandlersRun

\* The engine admits in order of arrival and ends what it has admitted.
EngineRuns == \A c \in Clients : SF_proxyVars(Admit(c)) /\ WF_proxyVars(Emit(c)) /\ WF_proxyVars(Finish(c))
ProxySpec == StreamSpec /\ EngineRuns

-----------------------------------------------------------------------------
(***************************************************************************)
(* Properties.                                                             *)
(***************************************************************************)

\* The types of the variables.
ProxyTypeOK ==
  /\ pc \in [Clients -> {"idle", "parsed", "headers", "relay", "closed"}]
  /\ conn \in [Clients -> {"open", "left", "closed"}]
  /\ req \in [Clients -> Requests \cup {NoRequest}]
  /\ view \in [Clients -> {"none", "waiting", "streaming", "complete", "refused", "cut"}]
  /\ up \in [Clients -> {"closed", "queued", "running", "done", "fin", "rst"}]
  /\ atEng \in [Clients -> Body(Words) \cup {NoBody}]
  /\ framing \in [Clients -> Framings \cup {"none"}]
  /\ got \in [Clients -> 0 .. MaxEvents]
  /\ total \in [Clients -> 0 .. MaxEvents]
  /\ sent \in [Clients -> 0 .. MaxEvents]
  /\ flushed \in [Clients -> 0 .. MaxEvents]
  /\ backend \in {"up", "down"} /\ downs \in 0 .. MaxDowns
  /\ count \in [Clients -> 0 .. MaxRequests]

\* Every completion request that reaches the engine with a JSON object has all
\* the masked words and every word the client asked for (lines 2 and 85-98).
Masked ==
  \A c \in Clients :
    atEng[c].form = "object" /\ req[c].post /\ req[c].completion =>
      BadWords \cup req[c].body.words \subseteq atEng[c].words

\* Any other request, and a body that is no JSON object, reaches the engine as
\* the client sent it (lines 17 and 86-91), if it came with a Content-Length.
OthersVerbatim ==
  \A c \in Clients :
    (/\ atEng[c] # NoBody /\ req[c].sized
     /\ req[c].post /\ req[c].completion => req[c].body.form # "object")
    => atEng[c] = req[c].body

\* A response the client sees the end of is the whole response of the engine:
\* a stream that breaks off never looks finished.
CompleteIsWhole ==
  \A c \in Clients : view[c] = "complete" => got[c] = total[c]

\* A client that is told 502 may send again: the engine never saw the request.
RefusedNeverRan ==
  \A c \in Clients : view[c] = "refused" => atEng[c] = NoBody

\* A client that stays sees its response end, in one way or another.
EveryRequestEnds ==
  \A c \in Clients :
    conn[c] = "open" /\ view[c] \in {"waiting", "streaming"} ~>
      view[c] \in {"complete", "refused", "cut"} \/ conn[c] = "left"

\* A request whose client hung up does not keep the engine's only slot.
HangUpFreesEngine ==
  \A c \in Clients : conn[c] = "left" ~> up[c] = "closed"

\* "server-sent events still arrive token by token" (lines 11-12): an event the
\* engine has written reaches the client, however long the engine then pauses.
TokenByToken ==
  \A c \in Clients, n \in 1 .. MaxEvents :
    sent[c] >= n /\ view[c] = "streaming" ~>
      got[c] >= n \/ view[c] # "streaming" \/ conn[c] # "open"

=============================================================================
