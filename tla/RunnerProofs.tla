---------------------------- MODULE RunnerProofs ----------------------------
(* The runner's batch, proved for any requests, images, prompts and drafts,   *)
(* and for schedules without end: what the runner holds agrees with what the  *)
(* scheduler says of each request (BatchInv), and every token it feeds, and   *)
(* every count, is that of the request in the row (InputsInv).                *)
EXTENDS RunnerBatch, FiniteSetTheorems, TLAPS

Acts == {"skip", "submit", "resubmit", "finish", "preempt", "go", "resume", "force", "stream"}
PlanType == [act : Acts, n : Nat, k : 0..NumSpec, hash : SUBSET Hashes]
Statuses == {"none", "running", "preempted"}
Truths == [st : Statuses, gen : Nat, prompt : Nat, len : Nat, comp : Nat,
           got : 0..(NumSpec + 1), rej : 0..NumSpec, epoch : Nat, held : Nat, hash : SUBSET Hashes]
Tokens == {Unknown} \cup (Reqs \X Nat \X Nat \X {"real"})
Addresses == Nat \X Nat \X Nat
ReqStates == [gen : Nat, prompt : Nat, outs : Seq(Tokens), comp : Nat, draftLen : 0..NumSpec,
              blocks : Seq(Addresses), hash : SUBSET Hashes]

(* -------- the inductive invariant ------------------------------------------- *)

\* Sound is what always holds of a request.
Sound(s) ==
  /\ s.st = "none" => s.got = 0 /\ s.rej = 0
  /\ s.st # "none" => s.prompt >= NumPrompt /\ s.hash # {} /\ s.len >= s.prompt + s.got /\ s.comp < s.len
  /\ s.st = "preempted" => s.comp = 0 /\ s.got = 0 /\ s.rej = 0 /\ s.held = 0
  /\ s.got > 0 => s.comp = s.len - 1

Tables ==
  /\ sched \in [Reqs -> Truths]
  /\ encoderCache \subseteq Hashes /\ schedEncoded = encoderCache
  /\ requests \in [DOMAIN requests -> ReqStates]
  /\ rows \in [DOMAIN rows -> [comp : Nat, blocks : Seq(Addresses)]]
  /\ DOMAIN requests = {r \in Reqs : sched[r].st # "none"}
  /\ order \in Seq(Reqs) /\ IsInjective(order) /\ DOMAIN rows = ToSet(order)
  /\ Len(order) <= Cardinality(Reqs)
  /\ DOMAIN prevIndex \subseteq Reqs
  /\ DOMAIN gpu = {"tokens", "counts", "drafts", "computed"}
  /\ fault = {}

\* Of: the runner's state q of request r is that of s.
Of(r, s, q) ==
  /\ q.gen = s.gen /\ q.prompt = s.prompt /\ q.hash = s.hash
  /\ \A i \in DOMAIN q.outs : q.outs[i] \in {Unknown, Real(r, s.gen, s.prompt + i)}
  /\ s.st = "running" => q.blocks = Blocks(s, 0)

Agree ==
  /\ \A r \in Reqs : Sound(sched[r])
  /\ \A r \in DOMAIN requests : Of(r, sched[r], requests[r])
  /\ \A r \in DOMAIN rows : sched[r].st = "running" /\ rows[r].blocks = Blocks(sched[r], 0)
  /\ \A r \in Reqs \ DOMAIN rows : sched[r].got = 0 /\ sched[r].rej = 0

AllKnown(r, s, q) == \A i \in DOMAIN q.outs : q.outs[i] = Real(r, s.gen, s.prompt + i)

\* OnGpu: row i of the last step was of request r, and sampled: what the GPU has of it.
OnGpu(r, s, q, i) ==
  /\ i \in DOMAIN order /\ order[i] = r
  /\ i \in DOMAIN gpu.counts /\ gpu.counts[i] = s.got /\ s.got > 0
  /\ i \in DOMAIN gpu.tokens /\ gpu.tokens[i] = Real(r, s.gen, s.len)
  /\ \A x \in 1..NumSpec : gpu.drafts[i][x] \in {Draft(r, s.gen, s.len + x), Zero}
  /\ q.draftLen = s.got - 1 + s.rej
  /\ q.draftLen > 0 => gpu.computed[i] + gpu.counts[i] = s.comp
NotOnGpu(r, s, q) == s.got = 0 /\ s.rej = 0 /\ q.draftLen = 0 /\ AllKnown(r, s, q)

AtRest ==
  /\ DOMAIN prevIndex \subseteq DOMAIN rows
  /\ \A r \in DOMAIN prevIndex : OnGpu(r, sched[r], requests[r], prevIndex[r])
  /\ \A r \in DOMAIN rows \ DOMAIN prevIndex : NotOnGpu(r, sched[r], requests[r])
  /\ \A r \in DOMAIN rows :
       Len(requests[r].outs) + requests[r].draftLen >= sched[r].len - sched[r].prompt + sched[r].rej

\* InFlightOf: request r in the step launched.
InFlightOf(r, s, q) ==
  /\ q.comp = s.comp /\ rows[r].comp = s.comp
  /\ s.got = 0 /\ s.rej = 0
  /\ step.n[r] \in Nat \ {0} /\ step.spec[r] = q.draftLen
  /\ IF q.draftLen > 0 THEN step.n[r] = q.draftLen + 1 /\ s.comp = s.len - 1
     ELSE s.comp + step.n[r] <= s.len
  /\ Len(q.outs) = step.outputs[r] /\ step.outputs[r] >= s.len - s.prompt
  /\ s.comp + step.n[r] < s.len => AllKnown(r, s, q)
  /\ Overlaps(s.comp, step.n[r]) => s.hash \cap encoderCache # {}

InFlight ==
  /\ order = step.order /\ DOMAIN step.n = DOMAIN rows
  /\ \A r \in DOMAIN rows : InFlightOf(r, sched[r], requests[r])
  /\ InputsAreTheRequests /\ PositionsAreTrue /\ SamplesAtTheEnd

RunnerInv == Tables /\ Agree /\ (IF step = NoStep THEN AtRest ELSE InFlight)

(* -------- what the scheduler may plan ----------------------------------------- *)

LEMMA PlansOfAll ==
  ASSUME NEW f \in Planned
  PROVE  DOMAIN f = Reqs /\ \A r \in Reqs : f[r] \in Plans(r)
<1>. DEFINE plans == [r \in Reqs |-> Plans(r)]
            plain == [r \in Reqs |-> {p \in plans[r] : p.act \in {"go", "skip"}}]
            others == {g \in [Reqs -> UNION {plain[q] : q \in Reqs}] : \A q \in Reqs : g[q] \in plain[q]}
<1>. DEFINE chosen(r) == {[g EXCEPT ![r] = p] : g \in others, p \in plans[r]}
<1>a. Planned = UNION {chosen(r) : r \in Reqs}
  BY DEF Planned
<1>1. PICK r \in Reqs : f \in chosen(r)
  <2>. HIDE DEF chosen
  <2>. QED
    BY <1>a
<1>2. PICK g \in others, p \in plans[r] : f = [g EXCEPT ![r] = p]
  BY <1>1
<1>. QED
  BY <1>2

\* Asked: what a plan asks of the request it is for.
Asked(s, p) ==
  /\ p \in PlanType
  /\ p.n = 0 <=> p.act \in {"skip", "finish", "preempt"}
  /\ p.k > 0 => p.act = "go" /\ p.n = p.k + 1 /\ s.got > 0
  /\ p.act = "submit" => s.st = "none"
  /\ p.act = "finish" => s.st # "none"
  /\ p.act = "resume" => s.st = "preempted" /\ p.n <= s.len
  /\ p.act \in {"resubmit", "preempt", "go", "force", "stream"} => s.st = "running"
  /\ p.act \in {"submit", "resubmit"} => p.n <= NumPrompt /\ p.hash # {}
  /\ p.act = "go" /\ p.k = 0 => p.n <= s.len - s.comp
  /\ p.act = "force" => p.n <= s.len - s.got
  /\ p.act = "stream" => s.got = 0 /\ s.len - s.comp = 1 /\ p.n <= 2

LEMMA FreshPlans ==
  ASSUME NEW act, NEW p \in Fresh(act)
  PROVE  \E n \in {1, NumPrompt}, h \in Hashes : p = Plan(act, n, 0, {h})
<1>1. \E n \in Chunks(NumPrompt), h \in Hashes : p = Plan(act, n, 0, {h})
  BY DEF Fresh
<1>. QED
  BY <1>1 DEF Chunks

LEMMA PlanIsAsked ==
  ASSUME NEW r \in Reqs, sched[r] \in Truths, Sound(sched[r]), NEW p \in Plans(r)
  PROVE  Asked(sched[r], p)
<1>. DEFINE s == sched[r]
<1>1. NumPrompt \in Nat \ {0} /\ NumSpec \in Nat /\ \A k \in Drafted : k \in 1..NumSpec
  BY RunnerAssumption
<1>2. \/ p = Plan("skip", 0, 0, {})
      \/ p \in Fresh("submit") /\ s.st = "none"
      \/ p \in Fresh("resubmit") /\ s.st = "running"
      \/ p = Plan("finish", 0, 0, {}) /\ s.st # "none"
      \/ p = Plan("preempt", 0, 0, {}) /\ s.st = "running"
      \/ p \in {Plan("go", n, 0, {}) : n \in Chunks(Remaining(s))} /\ s.st = "running"
      \/ p \in {Plan("go", 1 + k, k, {}) : k \in Drafted} /\ s.st = "running" /\ s.got > 0
      \/ p \in {Plan("resume", n, 0, {}) : n \in Chunks(s.len)} /\ s.st = "preempted"
      \/ p \in {Plan("force", n, 0, {}) : n \in Chunks(s.len - s.got)} /\ s.st = "running"
      \/ p \in {Plan("stream", n, 0, {}) : n \in Chunks(Remaining(s) + 1)} /\ s.st = "running" /\ s.got = 0 /\ Remaining(s) = 1
  BY Zenon DEF Plans
<1>3. s \in Truths /\ Sound(s)
  OBVIOUS
<1>. SUFFICES Asked(s, p)
  OBVIOUS
<1>. HIDE DEF s
<1>4. \A n \in Nat, k \in 0..NumSpec, h \in SUBSET Hashes, act \in Acts :
        /\ Plan(act, n, k, h) \in PlanType
        /\ Plan(act, n, k, h).act = act /\ Plan(act, n, k, h).n = n
        /\ Plan(act, n, k, h).k = k /\ Plan(act, n, k, h).hash = h
  BY DEF Plan, PlanType
<1>5. CASE p = Plan("skip", 0, 0, {})
  BY <1>1, <1>3, <1>4, <1>5 DEF Asked, Acts
<1>6. CASE p \in Fresh("submit") /\ s.st = "none"
  <2>1. PICK n \in {1, NumPrompt}, h \in Hashes : p = Plan("submit", n, 0, {h})
    BY <1>6, FreshPlans
  <2>2. n \in Nat \ {0} /\ n <= NumPrompt /\ {h} \in SUBSET Hashes /\ 0 \in 0..NumSpec /\ "submit" \in Acts
    BY <1>1 DEF Acts
  <2>. QED
    BY <1>3, <1>4, <1>6, <2>1, <2>2 DEF Asked
<1>7. CASE p \in Fresh("resubmit") /\ s.st = "running"
  <2>1. PICK n \in {1, NumPrompt}, h \in Hashes : p = Plan("resubmit", n, 0, {h})
    BY <1>7, FreshPlans
  <2>2. n \in Nat \ {0} /\ n <= NumPrompt /\ {h} \in SUBSET Hashes /\ 0 \in 0..NumSpec /\ "resubmit" \in Acts
    BY <1>1 DEF Acts
  <2>. QED
    BY <1>3, <1>4, <1>7, <2>1, <2>2 DEF Asked
<1>8. CASE p = Plan("finish", 0, 0, {}) /\ s.st # "none"
  BY <1>1, <1>3, <1>4, <1>8 DEF Asked, Acts
<1>9. CASE p = Plan("preempt", 0, 0, {}) /\ s.st = "running"
  BY <1>1, <1>3, <1>4, <1>9 DEF Asked, Acts
<1>10. CASE p \in {Plan("go", n, 0, {}) : n \in Chunks(Remaining(s))} /\ s.st = "running"
  BY <1>1, <1>3, <1>4, <1>10 DEF Asked, Acts, Chunks, Remaining, Sound, Truths
<1>11. CASE p \in {Plan("go", 1 + k, k, {}) : k \in Drafted} /\ s.st = "running" /\ s.got > 0
  <2>1. PICK k \in Drafted : p = Plan("go", 1 + k, k, {})
    BY <1>11
  <2>2. k \in 1..NumSpec /\ k \in 0..NumSpec /\ 1 + k \in Nat \ {0} /\ "go" \in Acts /\ {} \in SUBSET Hashes
    BY <1>1 DEF Acts
  <2>3. p \in PlanType /\ p.act = "go" /\ p.n = 1 + k /\ p.k = k
    BY <1>4, <2>1, <2>2
  <2>4. 1 + k = k + 1 /\ k # 0 /\ 1 + k # 0
    BY <2>2
  <2>. QED
    BY <1>11, <2>3, <2>4 DEF Asked
<1>12. CASE p \in {Plan("resume", n, 0, {}) : n \in Chunks(s.len)} /\ s.st = "preempted"
  BY <1>1, <1>3, <1>4, <1>12 DEF Asked, Acts, Chunks, Sound, Truths
<1>13. CASE p \in {Plan("force", n, 0, {}) : n \in Chunks(s.len - s.got)} /\ s.st = "running"
  BY <1>1, <1>3, <1>4, <1>13 DEF Asked, Acts, Chunks, Sound, Truths
<1>14. CASE p \in {Plan("stream", n, 0, {}) : n \in Chunks(Remaining(s) + 1)} /\ s.st = "running" /\ s.got = 0 /\ Remaining(s) = 1
  <2>1. PICK n \in {1, 2} : p = Plan("stream", n, 0, {})
    BY <1>14 DEF Chunks
  <2>2. n \in Nat \ {0} /\ n <= 2 /\ {} \in SUBSET Hashes /\ 0 \in 0..NumSpec /\ "stream" \in Acts
    BY <1>1 DEF Acts
  <2>. QED
    BY <1>3, <1>4, <1>14, <2>1, <2>2 DEF Asked, Remaining
<1>. QED
  BY <1>2, <1>5, <1>6, <1>7, <1>8, <1>9, <1>10, <1>11, <1>12, <1>13, <1>14

\* Ahead: the drafts the scheduler still counts as accepted.
Ahead(s, p) == IF p.act = "go" THEN s.rej ELSE 0

\* Settled: what planning p has made of a request s.
Settled(s, p, s1) ==
  /\ s1 \in Truths /\ Sound(s1) /\ s1.got = 0 /\ s1.rej = 0
  /\ s1.st = "none" <=> p.act = "finish" \/ (p.act = "skip" /\ s.st = "none")
  /\ p.n > 0 => s1.st = "running"
  /\ p.k > 0 => p.n = p.k + 1 /\ s1.comp = s1.len - 1
  /\ p.n > 0 /\ p.k = 0 => s1.comp + p.n <= s1.len
  /\ p.act \in {"skip", "preempt", "go", "resume", "force"} =>
       s1.gen = s.gen /\ s1.prompt = s.prompt /\ s1.hash = s.hash
  /\ p.act \in {"submit", "resubmit"} => s1.len = s1.prompt /\ s1.comp = 0
  /\ p.act = "stream" => s1.len = s1.prompt
  /\ p.act \in {"go", "skip"} => s1.st = s.st /\ s1.epoch = s.epoch /\ s1.len = s.len /\ s1.comp = s.comp
  /\ p.act = "go" => s1.held >= s.held
  /\ p.act = "skip" => s1.held = s.held
  /\ p.act = "preempt" => s1.st = "preempted"
  /\ p.act = "stream" => s1.gen = s.gen

LEMMA TruthsExcept ==
  ASSUME NEW s \in Truths
  PROVE  /\ \A v \in Statuses : [s EXCEPT !.st = v] \in Truths
         /\ \A v \in Nat : [s EXCEPT !.prompt = v] \in Truths
         /\ \A v \in Nat : [s EXCEPT !.len = v] \in Truths
         /\ \A v \in Nat : [s EXCEPT !.comp = v] \in Truths
         /\ \A v \in 0..(NumSpec + 1) : [s EXCEPT !.got = v] \in Truths
         /\ \A v \in 0..NumSpec : [s EXCEPT !.rej = v] \in Truths
         /\ \A v \in Nat : [s EXCEPT !.epoch = v] \in Truths
         /\ \A v \in Nat : [s EXCEPT !.held = v] \in Truths
         /\ \A v \in SUBSET Hashes : [s EXCEPT !.hash = v] \in Truths
<1>1. \A v \in Statuses : [s EXCEPT !.st = v] \in Truths
  BY DEF Truths
<1>2. \A v \in Nat : [s EXCEPT !.prompt = v] \in Truths
  BY DEF Truths
<1>3. \A v \in Nat : [s EXCEPT !.len = v] \in Truths
  BY DEF Truths
<1>4. \A v \in Nat : [s EXCEPT !.comp = v] \in Truths
  BY DEF Truths
<1>5. \A v \in 0..(NumSpec + 1) : [s EXCEPT !.got = v] \in Truths
  BY DEF Truths
<1>6. \A v \in 0..NumSpec : [s EXCEPT !.rej = v] \in Truths
  BY DEF Truths
<1>7. \A v \in Nat : [s EXCEPT !.epoch = v] \in Truths
  BY DEF Truths
<1>8. \A v \in Nat : [s EXCEPT !.held = v] \in Truths
  BY DEF Truths
<1>9. \A v \in SUBSET Hashes : [s EXCEPT !.hash = v] \in Truths
  BY DEF Truths
<1>. QED
  BY <1>1, <1>2, <1>3, <1>4, <1>5, <1>6, <1>7, <1>8, <1>9

\* What planning p makes of s, before it is given blocks.
Started(s, p) ==
  LET settled == [s EXCEPT !.got = 0, !.rej = 0]
  IN CASE p.act \in {"submit", "resubmit"} -> Submitted(s.gen + 1, p.hash)
       [] p.act = "finish"  -> Absent(s.gen)
       [] p.act = "preempt" -> [settled EXCEPT !.st = "preempted", !.comp = 0, !.epoch = s.epoch + 1, !.held = 0]
       [] p.act = "resume"  -> [settled EXCEPT !.st = "running"]
       [] p.act = "force"   -> [settled EXCEPT !.len = s.len - s.got, !.comp = 0, !.epoch = s.epoch + 1, !.held = 0]
       [] p.act = "stream"  -> [settled EXCEPT !.prompt = s.len + 1, !.len = s.len + 1]
       [] OTHER             -> settled

LEMMA SettledIsTyped ==
  ASSUME NEW s \in Truths
  PROVE  [s EXCEPT !.got = 0, !.rej = 0] \in Truths
<1>. DEFINE one == [s EXCEPT !.got = 0]
<1>1. NumSpec \in Nat
  BY RunnerAssumption
<1>2. one \in Truths
  BY <1>1, TruthsExcept
<1>. HIDE DEF one
<1>3. [one EXCEPT !.rej = 0] \in Truths
  BY <1>1, <1>2, TruthsExcept
<1>. QED
  BY <1>3, Zenon DEF one

LEMMA StartedIsTyped ==
  ASSUME NEW s \in Truths, Sound(s), NEW p, Asked(s, p)
  PROVE  Started(s, p) \in Truths
<1>. DEFINE settled == [s EXCEPT !.got = 0, !.rej = 0]
<1>1. NumPrompt \in Nat \ {0} /\ NumSpec \in Nat
  BY RunnerAssumption
<1>2. p \in PlanType /\ p.act \in Acts
  BY DEF Asked, PlanType
<1>3. settled \in Truths
  BY SettledIsTyped
<1>4. s.gen \in Nat /\ s.len \in Nat /\ s.epoch \in Nat /\ s.got \in Nat
  BY <1>1 DEF Truths
<1>5. /\ s.epoch + 1 \in Nat /\ 0 \in Nat /\ s.len + 1 \in Nat
      /\ "preempted" \in Statuses /\ "running" \in Statuses
  BY <1>4 DEF Statuses
<1>. DEFINE absent == Absent(s.gen)
<1>. HIDE DEF settled
<1>6. CASE p.act \in {"submit", "resubmit"}
  <2>. DEFINE a == Absent(s.gen + 1)
              b == [a EXCEPT !.st = "running"]
              c == [b EXCEPT !.prompt = NumPrompt]
              d == [c EXCEPT !.len = NumPrompt]
              e == [d EXCEPT !.hash = p.hash]
  <2>1. a \in Truths
    BY <1>1, <1>4 DEF Absent, Truths, Statuses
  <2>2. p.hash \in SUBSET Hashes /\ NumPrompt \in Nat
    BY <1>1, <1>2 DEF PlanType
  <2>3. b \in Truths
    BY <2>1, <1>5, TruthsExcept
  <2>4. c \in Truths
    BY <2>3, <2>2, TruthsExcept
  <2>5. d \in Truths
    BY <2>4, <2>2, TruthsExcept
  <2>6. e \in Truths
    BY <2>5, <2>2, TruthsExcept
  <2>7. Started(s, p) = e
    BY <1>6, Zenon DEF Started, Submitted
  <2>. QED
    BY <2>6, <2>7, Zenon
<1>7. CASE p.act = "finish"
  <2>1. absent \in Truths
    BY <1>1, <1>4 DEF Absent, Truths, Statuses
  <2>. QED
    BY <1>7, <2>1 DEF Started
<1>8. CASE p.act = "preempt"
  <2>. DEFINE a == [settled EXCEPT !.st = "preempted"]
              b == [a EXCEPT !.comp = 0]
              c == [b EXCEPT !.epoch = s.epoch + 1]
              d == [c EXCEPT !.held = 0]
  <2>1. a \in Truths
    BY <1>3, <1>5, TruthsExcept
  <2>2. b \in Truths
    BY <2>1, <1>5, TruthsExcept
  <2>3. c \in Truths
    BY <2>2, <1>5, TruthsExcept
  <2>4. d \in Truths
    BY <2>3, <1>5, TruthsExcept
  <2>5. Started(s, p) = d
    BY <1>8, Zenon DEF Started, settled
  <2>. QED
    BY <2>4, <2>5, Zenon
<1>9. CASE p.act = "resume"
  <2>1. Started(s, p) = [settled EXCEPT !.st = "running"]
    BY <1>9 DEF Started, settled
  <2>. QED
    BY <1>3, <1>5, <2>1, TruthsExcept
<1>10. CASE p.act = "force"
  <2>. DEFINE a == [settled EXCEPT !.len = s.len - s.got]
              b == [a EXCEPT !.comp = 0]
              c == [b EXCEPT !.epoch = s.epoch + 1]
              d == [c EXCEPT !.held = 0]
  <2>0. s.len - s.got \in Nat
    BY <1>1, <1>4, <1>10 DEF Asked, Sound, Truths
  <2>1. a \in Truths
    BY <1>3, <2>0, TruthsExcept
  <2>2. b \in Truths
    BY <2>1, <1>5, TruthsExcept
  <2>3. c \in Truths
    BY <2>2, <1>5, TruthsExcept
  <2>4. d \in Truths
    BY <2>3, <1>5, TruthsExcept
  <2>5. Started(s, p) = d
    BY <1>10, Zenon DEF Started, settled
  <2>. QED
    BY <2>4, <2>5, Zenon
<1>11. CASE p.act = "stream"
  <2>. DEFINE a == [settled EXCEPT !.prompt = s.len + 1]
              b == [a EXCEPT !.len = s.len + 1]
  <2>1. a \in Truths
    BY <1>3, <1>5, TruthsExcept
  <2>2. b \in Truths
    BY <2>1, <1>5, TruthsExcept
  <2>3. Started(s, p) = b
    BY <1>11, Zenon DEF Started, settled
  <2>. QED
    BY <2>2, <2>3, Zenon
<1>12. CASE p.act \in {"skip", "go"}
  BY <1>3, <1>12 DEF Started, settled
<1>. QED
  BY <1>2, <1>6, <1>7, <1>8, <1>9, <1>10, <1>11, <1>12 DEF Acts

LEMMA StartedIsSettled ==
  ASSUME NEW s \in Truths, Sound(s), NEW p, Asked(s, p)
  PROVE  Settled(s, p, Started(s, p))
<1>. DEFINE t == Started(s, p)
<1>1. NumPrompt \in Nat \ {0} /\ NumSpec \in Nat
  BY RunnerAssumption
<1>2. p \in PlanType /\ p.act \in Acts /\ p.n \in Nat /\ p.k \in Nat
  BY <1>1 DEF Asked, PlanType
<1>3. /\ t \in Truths
      /\ s.len \in Nat /\ s.prompt \in Nat /\ s.comp \in Nat /\ s.got \in Nat /\ s.held \in Nat
  BY <1>1, StartedIsTyped DEF Truths
<1>. SUFFICES Settled(s, p, t)
  OBVIOUS
<1>4. CASE p.act \in {"submit", "resubmit"}
  <2>1. /\ t.st = "running" /\ t.got = 0 /\ t.rej = 0 /\ t.prompt = NumPrompt /\ t.len = NumPrompt
        /\ t.comp = 0 /\ t.hash = p.hash
    BY <1>4 DEF Started, Submitted, Absent
  <2>. HIDE DEF t
  <2>. QED
    BY <1>1, <1>2, <1>3, <1>4, <2>1 DEF Settled, Asked, Sound
<1>5. CASE p.act = "finish"
  <2>1. t.st = "none" /\ t.got = 0 /\ t.rej = 0
    BY <1>5 DEF Started, Absent
  <2>. HIDE DEF t
  <2>. QED
    BY <1>2, <1>3, <1>5, <2>1 DEF Settled, Asked, Sound
<1>6. CASE p.act \notin {"submit", "resubmit", "finish"}
  <2>. DEFINE settled == [s EXCEPT !.got = 0, !.rej = 0]
  <2>1. /\ settled.got = 0 /\ settled.rej = 0
        /\ settled.st = s.st /\ settled.gen = s.gen /\ settled.prompt = s.prompt /\ settled.len = s.len
        /\ settled.comp = s.comp /\ settled.epoch = s.epoch /\ settled.held = s.held /\ settled.hash = s.hash
    BY DEF Truths
  <2>2. settled \in Truths
    BY SettledIsTyped
  <2>. HIDE DEF t, settled
  <2>3. CASE p.act = "preempt"
    <3>1. t = [settled EXCEPT !.st = "preempted", !.comp = 0, !.epoch = s.epoch + 1, !.held = 0]
      BY <2>3, Zenon DEF Started, t, settled
    <3>2. /\ t.st = "preempted" /\ t.comp = 0 /\ t.held = 0 /\ t.prompt = settled.prompt /\ t.len = settled.len
          /\ t.got = settled.got /\ t.rej = settled.rej /\ t.gen = settled.gen /\ t.hash = settled.hash
      BY <2>2, <3>1 DEF Truths
    <3>. QED
      BY <1>1, <1>2, <1>3, <2>1, <2>3, <3>2 DEF Settled, Asked, Sound
  <2>4. CASE p.act = "resume"
    <3>1. t = [settled EXCEPT !.st = "running"]
      BY <2>4, Zenon DEF Started, t, settled
    <3>2. /\ t.st = "running" /\ t.comp = settled.comp /\ t.prompt = settled.prompt /\ t.len = settled.len
          /\ t.got = settled.got /\ t.rej = settled.rej /\ t.gen = settled.gen /\ t.hash = settled.hash
      BY <2>2, <3>1 DEF Truths
    <3>. QED
      BY <1>1, <1>2, <1>3, <2>1, <2>4, <3>2 DEF Settled, Asked, Sound
  <2>5. CASE p.act = "force"
    <3>1. t = [settled EXCEPT !.len = s.len - s.got, !.comp = 0, !.epoch = s.epoch + 1, !.held = 0]
      BY <2>5, Zenon DEF Started, t, settled
    <3>2. /\ t.st = settled.st /\ t.comp = 0 /\ t.prompt = settled.prompt /\ t.len = s.len - s.got
          /\ t.got = settled.got /\ t.rej = settled.rej /\ t.gen = settled.gen /\ t.hash = settled.hash
      BY <2>2, <3>1 DEF Truths
    <3>. QED
      BY <1>1, <1>2, <1>3, <2>1, <2>5, <3>2 DEF Settled, Asked, Sound
  <2>6. CASE p.act = "stream"
    <3>1. t = [settled EXCEPT !.prompt = s.len + 1, !.len = s.len + 1]
      BY <2>6, Zenon DEF Started, t, settled
    <3>2. /\ t.st = settled.st /\ t.comp = settled.comp /\ t.prompt = s.len + 1 /\ t.len = s.len + 1
          /\ t.got = settled.got /\ t.rej = settled.rej /\ t.gen = settled.gen /\ t.hash = settled.hash
      BY <2>2, <3>1 DEF Truths
    <3>. QED
      BY <1>1, <1>2, <1>3, <2>1, <2>6, <3>2 DEF Settled, Asked, Sound
  <2>7. CASE p.act \in {"skip", "go"}
    <3>1. t = settled
      BY <1>6, <2>7, Zenon DEF Started, t, settled
    <3>. QED
      BY <1>1, <1>2, <1>3, <2>1, <2>7, <3>1 DEF Settled, Asked, Sound
  <2>. QED
    BY <1>2, <1>6, <2>3, <2>4, <2>5, <2>6, <2>7 DEF Acts
<1>. QED
  BY <1>4, <1>5, <1>6

LEMMA PlannedIsSettled ==
  ASSUME NEW s \in Truths, Sound(s), NEW p, Asked(s, p)
  PROVE  Settled(s, p, After(s, p))
<1>. DEFINE a == Started(s, p)
            held == Max2(a.held, BlocksFor(a.comp + Ahead(s, p) + p.n))
            b == [a EXCEPT !.held = held]
<1>1. NumPrompt \in Nat \ {0} /\ NumSpec \in Nat
  BY RunnerAssumption
<1>2. a \in Truths /\ Settled(s, p, a)
  BY StartedIsTyped, StartedIsSettled
<1>3. After(s, p) = IF p.n = 0 THEN a ELSE [a EXCEPT !.held = Max2(@, BlocksFor(a.comp + Ahead(s, p) + p.n))]
  BY Zenon DEF After, Ahead, Started
<1>4. CASE p.n = 0
  BY <1>2, <1>3, <1>4
<1>5. CASE p.n # 0
  <2>1. a.held \in Nat /\ a.comp \in Nat /\ Ahead(s, p) \in Nat /\ p.n \in Nat
    BY <1>1, <1>2 DEF Truths, Ahead, Asked, PlanType
  <2>2. BlocksFor(a.comp + Ahead(s, p) + p.n) \in Nat
    BY <2>1 DEF BlocksFor
  <2>3. held \in Nat /\ held >= a.held
    BY <2>1, <2>2 DEF Max2
  <2>. HIDE DEF a, held
  <2>4. b \in Truths /\ b.held = held
    BY <1>2, <2>3, TruthsExcept DEF Truths
  <2>5. /\ b.st = a.st /\ b.gen = a.gen /\ b.prompt = a.prompt /\ b.len = a.len /\ b.comp = a.comp
        /\ b.got = a.got /\ b.rej = a.rej /\ b.epoch = a.epoch /\ b.hash = a.hash
    BY <1>2 DEF Truths
  <2>6. p.act \notin {"skip", "preempt", "finish"} /\ a.st = "running" /\ s.held \in Nat /\ a.held \in Nat
    BY <1>2, <1>5 DEF Asked, PlanType, Settled, Truths
  <2>. HIDE DEF b
  <2>7. Settled(s, p, b)
    BY <1>2, <2>3, <2>4, <2>5, <2>6 DEF Settled, Sound
  <2>8. After(s, p) = b
    BY <1>3, <1>5 DEF b, held, a
  <2>. QED
    BY <2>7, <2>8
<1>. QED
  BY <1>4, <1>5

(* -------- what the scheduler says ----------------------------------------------- *)

Scheduled(f) == {r \in Reqs : f[r].n > 0}
Next1(f, r) == After(sched[r], f[r])
AheadOf(f, r) == Ahead(sched[r], f[r])
Shown(f) == UNION {Next1(f, r).hash : r \in {q \in Scheduled(f) : Overlaps(Next1(f, q).comp + AheadOf(f, q), f[q].n)}}

\* What the scheduler's output says of the plans f.
Says(o, f, free) ==
  /\ o.finished = {r \in Reqs : f[r].act \in {"finish", "resubmit"}}
  /\ o.new = {r \in Reqs : f[r].act \in {"submit", "resubmit", "stream"}}
  /\ o.cached = {r \in Reqs : f[r].act \in {"go", "resume", "force"}}
  /\ o.resumed = {r \in Reqs : f[r].act \in {"resume", "force"}}
  /\ DOMAIN o.n = Scheduled(f)
  /\ o.free = free
  /\ o.encode = Shown(f) \ (schedEncoded \ free)
  /\ o.after = [r \in Reqs |-> Next1(f, r)]
SaysOf(o, f, r) ==
  LET s1 == Next1(f, r)
  IN /\ o.n[r] = f[r].n /\ o.spec[r] = f[r].k
     /\ o.data[r].gen = s1.gen /\ o.data[r].prompt = s1.prompt /\ o.data[r].hash = s1.hash
     /\ o.data[r].computed = s1.comp + AheadOf(f, r)
     /\ o.data[r].outputs = s1.len - s1.prompt + AheadOf(f, r)
     /\ o.data[r].tokens = [p \in 1..s1.len |-> Real(r, s1.gen, p)]
     /\ o.data[r].blocks = Blocks(s1, IF f[r].act = "go" THEN sched[r].held ELSE 0)

LEMMA OutputIs ==
  ASSUME NEW f, NEW free
  PROVE  /\ Says(Output(f, free), f, free)
         /\ \A r \in Scheduled(f) : SaysOf(Output(f, free), f, r)
<1>. DEFINE on == {r \in Reqs : f[r].n > 0}
            s1 == [r \in Reqs |-> After(sched[r], f[r])]
            ahead == [r \in Reqs |-> IF f[r].act = "go" THEN sched[r].rej ELSE 0]
            shown == UNION {s1[r].hash : r \in {q \in on : Overlaps(s1[q].comp + ahead[q], f[q].n)}}
            o == Output(f, free)
            data == [r \in on |->
              [gen |-> s1[r].gen, prompt |-> s1[r].prompt, hash |-> s1[r].hash,
               computed |-> s1[r].comp + ahead[r],
               outputs |-> s1[r].len - s1[r].prompt + ahead[r],
               tokens |-> [p \in 1..s1[r].len |-> Real(r, s1[r].gen, p)],
               blocks |-> Blocks(s1[r], IF f[r].act = "go" THEN sched[r].held ELSE 0)]]
<1>1. /\ o.finished = {r \in Reqs : f[r].act \in {"finish", "resubmit"}}
      /\ o.new = {r \in Reqs : f[r].act \in {"submit", "resubmit", "stream"}}
      /\ o.cached = {r \in Reqs : f[r].act \in {"go", "resume", "force"}}
      /\ o.resumed = {r \in Reqs : f[r].act \in {"resume", "force"}}
      /\ o.n = [r \in on |-> f[r].n] /\ o.spec = [r \in on |-> f[r].k]
      /\ o.free = free /\ o.encode = shown \ (schedEncoded \ free) /\ o.after = s1
      /\ o.data = data
  BY DEF Output
<1>2. shown = Shown(f)
  BY DEF Shown, Next1, AheadOf, Ahead, Scheduled
<1>3. \A r \in on : s1[r] = Next1(f, r) /\ ahead[r] = AheadOf(f, r)
  BY DEF Next1, AheadOf, Ahead
<1>4. s1 = [r \in Reqs |-> Next1(f, r)]
  BY DEF Next1
<1>5. on = Scheduled(f)
  BY DEF Scheduled
<1>6. ASSUME NEW r \in on
      PROVE  /\ o.data[r].gen = s1[r].gen /\ o.data[r].prompt = s1[r].prompt /\ o.data[r].hash = s1[r].hash
             /\ o.data[r].computed = s1[r].comp + ahead[r]
             /\ o.data[r].outputs = s1[r].len - s1[r].prompt + ahead[r]
             /\ o.data[r].tokens = [p \in 1..s1[r].len |-> Real(r, s1[r].gen, p)]
             /\ o.data[r].blocks = Blocks(s1[r], IF f[r].act = "go" THEN sched[r].held ELSE 0)
  <2>. HIDE DEF s1, ahead, o
  <2>. QED
    BY <1>1
<1>. HIDE DEF s1, ahead, o, shown, data, on
<1>7. \A r \in on : o.n[r] = f[r].n /\ o.spec[r] = f[r].k
  BY <1>1
<1>8. DOMAIN o.n = on
  BY <1>1
<1>9. \A r \in Scheduled(f) : SaysOf(o, f, r)
  BY <1>3, <1>5, <1>6, <1>7 DEF SaysOf
<1>10. Says(o, f, free)
  BY <1>1, <1>2, <1>4, <1>5, <1>8 DEF Says
<1>. QED
  BY <1>9, <1>10 DEF o

\* Resting: the state Execute finds.
Resting == Tables /\ Agree /\ AtRest

LEMMA RestFacts ==
  ASSUME Resting, NEW f \in Planned, NEW r \in Reqs
  PROVE  /\ f[r] \in PlanType /\ f[r].act \in Acts /\ f[r].n \in Nat /\ f[r].k \in Nat
         /\ NumSpec \in Nat /\ NumPrompt \in Nat \ {0}
         /\ sched[r] \in Truths /\ Sound(sched[r]) /\ Asked(sched[r], f[r])
         /\ Next1(f, r) \in Truths /\ Settled(sched[r], f[r], Next1(f, r))
         /\ AheadOf(f, r) \in Nat
         /\ r \in DOMAIN requests <=> sched[r].st # "none"
         /\ r \in DOMAIN requests => requests[r] \in ReqStates /\ Of(r, sched[r], requests[r])
         /\ r \in DOMAIN rows =>
              /\ r \in DOMAIN requests /\ sched[r].st = "running"
              /\ rows[r] \in [comp : Nat, blocks : Seq(Addresses)] /\ rows[r].blocks = Blocks(sched[r], 0)
         /\ r \notin DOMAIN rows => sched[r].got = 0 /\ sched[r].rej = 0
         /\ DOMAIN rows \subseteq Reqs /\ DOMAIN prevIndex \subseteq DOMAIN rows
<1>1. sched[r] \in Truths /\ Sound(sched[r]) /\ NumSpec \in Nat /\ NumPrompt \in Nat \ {0}
  BY RunnerAssumption DEF Resting, Tables, Agree
<1>2. f[r] \in Plans(r)
  BY PlansOfAll
<1>3. Asked(sched[r], f[r])
  BY <1>1, <1>2, PlanIsAsked
<1>4. Settled(sched[r], f[r], Next1(f, r))
  BY <1>1, <1>3, PlannedIsSettled DEF Next1
<1>5. f[r] \in PlanType /\ Next1(f, r) \in Truths
  BY <1>3, <1>4 DEF Asked, Settled
<1>6. f[r].act \in Acts /\ f[r].n \in Nat /\ f[r].k \in Nat /\ sched[r].rej \in Nat
  BY <1>1, <1>5 DEF PlanType, Truths
<1>7. AheadOf(f, r) \in Nat
  BY <1>6 DEF AheadOf, Ahead
<1>8. DOMAIN rows \subseteq Reqs /\ DOMAIN prevIndex \subseteq DOMAIN rows
  BY DEF Resting, Tables, AtRest, ToSet
<1>9. r \in DOMAIN requests <=> sched[r].st # "none"
  BY DEF Resting, Tables
<1>10. r \in DOMAIN requests => requests[r] \in ReqStates /\ Of(r, sched[r], requests[r])
  BY DEF Resting, Tables, Agree
<1>11. r \in DOMAIN rows =>
         /\ sched[r].st = "running"
         /\ rows[r] \in [comp : Nat, blocks : Seq(Addresses)] /\ rows[r].blocks = Blocks(sched[r], 0)
  BY DEF Resting, Tables, Agree
<1>12. r \notin DOMAIN rows => sched[r].got = 0 /\ sched[r].rej = 0
  BY DEF Resting, Agree
<1>. QED
  BY <1>1, <1>3, <1>4, <1>5, <1>6, <1>7, <1>8, <1>9, <1>10, <1>11, <1>12

Prev(o) == Forget(prevIndex, Removed(o))

LEMMA KeptGoOn ==
  ASSUME Resting, NEW f \in Planned, NEW free
  PROVE  LET o == Output(f, free)
         IN /\ InBatch(o) = {r \in DOMAIN rows : f[r].act = "go"}
            /\ InBatch(o) \cup DOMAIN o.n = Scheduled(f)
            /\ DOMAIN Rows(o, States(o)) = Scheduled(f)
            /\ DOMAIN States(o) = {r \in Reqs : Next1(f, r).st # "none"}
            /\ o.resumed \cap InBatch(o) = {}
            /\ Prev(o) = [r \in DOMAIN prevIndex \cap InBatch(o) |-> prevIndex[r]]
<1>. DEFINE o == Output(f, free)
<1>0. Says(o, f, free)
  BY OutputIs
<1>. HIDE DEF o
<1>1. /\ o.finished = {r \in Reqs : f[r].act \in {"finish", "resubmit"}}
      /\ o.new = {r \in Reqs : f[r].act \in {"submit", "resubmit", "stream"}}
      /\ o.resumed = {r \in Reqs : f[r].act \in {"resume", "force"}}
      /\ DOMAIN o.n = Scheduled(f)
  BY <1>0, Zenon DEF Says
<1>2. DOMAIN rows \subseteq Reqs /\ DOMAIN prevIndex \subseteq DOMAIN rows
  BY DEF Resting, Tables, AtRest, ToSet
<1>3. ASSUME NEW r \in Reqs
      PROVE  /\ f[r].n = 0 \/ f[r].n > 0
             /\ f[r].act \in Acts /\ (f[r].n = 0 <=> f[r].act \in {"skip", "finish", "preempt"})
  BY RestFacts DEF Asked
<1>4. Scheduled(f) = {r \in Reqs : f[r].act \in {"submit", "resubmit", "go", "resume", "force", "stream"}}
  BY <1>3 DEF Scheduled, Acts
<1>5. InBatch(o) = {r \in DOMAIN rows : f[r].act = "go"}
  <2>1. ASSUME NEW r \in DOMAIN rows PROVE r \in InBatch(o) <=> f[r].act = "go"
    BY <1>1, <1>2, <1>3, <1>4 DEF InBatch, Removed, Unscheduled, Acts
  <2>. QED
    BY <2>1 DEF InBatch
<1>6. InBatch(o) \cup DOMAIN o.n = Scheduled(f)
  BY <1>1, <1>2, <1>4, <1>5
<1>7. DOMAIN Rows(o, States(o)) = Scheduled(f)
  BY <1>6, <1>1 DEF Rows
<1>8. ASSUME NEW r \in Reqs
      PROVE  (r \in DOMAIN Known(o) \cup o.new) <=> Next1(f, r).st # "none"
  <2>1. /\ r \in DOMAIN requests <=> sched[r].st # "none"
        /\ f[r].act \in Acts /\ Settled(sched[r], f[r], Next1(f, r)) /\ Asked(sched[r], f[r])
    BY RestFacts
  <2>2. r \in DOMAIN Known(o) <=> r \in DOMAIN requests /\ f[r].act \notin {"finish", "resubmit"}
    BY <1>1 DEF Known, Forget, Only
  <2>3. r \in o.new <=> f[r].act \in {"submit", "resubmit", "stream"}
    BY <1>1
  <2>4. Next1(f, r).st = "none" <=> f[r].act = "finish" \/ (f[r].act = "skip" /\ sched[r].st = "none")
    BY <2>1 DEF Settled
  <2>. QED
    BY <2>1, <2>2, <2>3, <2>4 DEF Asked, Acts
<1>9. DOMAIN States(o) = DOMAIN Known(o) \cup o.new
  BY DEF States
<1>10. DOMAIN Known(o) \cup o.new \subseteq Reqs
  <2>1. DOMAIN Known(o) \subseteq DOMAIN requests /\ DOMAIN requests \subseteq Reqs
    BY DEF Known, Forget, Only, Resting, Tables
  <2>. QED
    BY <1>1, <2>1
<1>11. DOMAIN States(o) = {r \in Reqs : Next1(f, r).st # "none"}
  BY <1>8, <1>9, <1>10
<1>12. o.resumed \cap InBatch(o) = {}
  BY <1>1, <1>2, <1>5
<1>13. Prev(o) = [r \in DOMAIN prevIndex \cap InBatch(o) |-> prevIndex[r]]
  <2>1. DOMAIN prevIndex \cap (DOMAIN prevIndex \ Removed(o)) = DOMAIN prevIndex \cap InBatch(o)
    BY <1>2 DEF InBatch
  <2>. QED
    BY <2>1 DEF Prev, Forget, Only
<1>. QED
  BY <1>5, <1>6, <1>7, <1>11, <1>12, <1>13 DEF o

LEMMA BlocksAreAddresses ==
  ASSUME NEW s \in Truths, NEW from \in Nat, from <= s.held
  PROVE  Blocks(s, from) \in Seq(Addresses)
<1>1. s.held - from \in Nat /\ s.gen \in Nat /\ s.epoch \in Nat
  BY DEF Truths
<1>2. \A i \in 1..(s.held - from) : <<s.gen, s.epoch, from + i>> \in Addresses
  BY <1>1 DEF Addresses
<1>. QED
  BY <1>1, <1>2 DEF Blocks

LEMMA BlocksGrow ==
  ASSUME NEW s \in Truths, NEW t \in Truths, t.gen = s.gen, t.epoch = s.epoch, t.held >= s.held
  PROVE  Blocks(s, 0) \o Blocks(t, s.held) = Blocks(t, 0)
<1>1. s.held \in Nat /\ t.held \in Nat /\ s.gen \in Nat /\ s.epoch \in Nat
  BY DEF Truths
<1>2. Blocks(s, 0) = [i \in 1..s.held |-> <<t.gen, t.epoch, i>>]
  BY <1>1 DEF Blocks
<1>3. Blocks(t, 0) = [i \in 1..t.held |-> <<t.gen, t.epoch, i>>]
  BY <1>1 DEF Blocks
<1>4. \A n, m \in Nat : [i \in 1..n |-> <<t.gen, t.epoch, i>>] \o [i \in 1..m |-> <<t.gen, t.epoch, n + i>>]
                      = [i \in 1..(n + m) |-> <<t.gen, t.epoch, i>>]
  OBVIOUS
<1>5. t.held - s.held \in Nat /\ s.held + (t.held - s.held) = t.held
  BY <1>1
<1>6. Blocks(t, s.held) = [i \in 1..(t.held - s.held) |-> <<t.gen, t.epoch, s.held + i>>]
  BY DEF Blocks
<1>. DEFINE h == s.held
            m == t.held - s.held
<1>7. [i \in 1..h |-> <<t.gen, t.epoch, i>>] \o [i \in 1..m |-> <<t.gen, t.epoch, h + i>>]
        = [i \in 1..(h + m) |-> <<t.gen, t.epoch, i>>]
  <2>. HIDE DEF h, m
  <2>1. h \in Nat /\ m \in Nat
    BY <1>1, <1>5 DEF h, m
  <2>. QED
    BY <1>4, <2>1
<1>. QED
  BY <1>2, <1>3, <1>5, <1>6, <1>7

\* Planned for: what a request's state is when its step is launched.
PlannedFor(r, s1, ahead, k, q) ==
  /\ q \in ReqStates
  /\ q.gen = s1.gen /\ q.prompt = s1.prompt /\ q.hash = s1.hash
  /\ q.comp = s1.comp + ahead /\ q.draftLen = k
  /\ Len(q.outs) = s1.len - s1.prompt + ahead
  /\ \A i \in DOMAIN q.outs : q.outs[i] \in {Unknown, Real(r, s1.gen, s1.prompt + i)}
  /\ q.blocks = Blocks(s1, 0)

LEMMA NewIsPlanned ==
  ASSUME Resting, NEW f \in Planned, NEW free, NEW r \in Scheduled(f),
         f[r].act \in {"submit", "resubmit", "stream"}
  PROVE  LET q == States(Output(f, free))[r]
         IN /\ PlannedFor(r, Next1(f, r), AheadOf(f, r), f[r].k, q)
            /\ q.outs = <<>>
<1>. DEFINE o == Output(f, free)
            s1 == Next1(f, r)
            d == o.data[r]
            base == IF r \in DOMAIN Known(o) THEN Streamed(requests[r], d) ELSE NewState(d)
            q == States(o)[r]
<1>0. Says(o, f, free) /\ SaysOf(o, f, r)
  BY OutputIs
<1>1. r \in Reqs
  BY DEF Scheduled
<1>2. /\ o.new = {x \in Reqs : f[x].act \in {"submit", "resubmit", "stream"}}
      /\ o.finished = {x \in Reqs : f[x].act \in {"finish", "resubmit"}}
      /\ o.spec[r] = f[r].k
      /\ d.gen = s1.gen /\ d.prompt = s1.prompt /\ d.hash = s1.hash /\ d.computed = s1.comp + AheadOf(f, r)
      /\ d.blocks = Blocks(s1, IF f[r].act = "go" THEN sched[r].held ELSE 0)
  BY <1>0, Zenon DEF Says, SaysOf
<1>3. /\ s1 \in Truths /\ Settled(sched[r], f[r], s1) /\ Asked(sched[r], f[r]) /\ AheadOf(f, r) \in Nat
      /\ f[r] \in PlanType /\ NumSpec \in Nat
      /\ r \in DOMAIN requests <=> sched[r].st # "none"
      /\ r \in DOMAIN requests => requests[r] \in ReqStates /\ Of(r, sched[r], requests[r])
  BY <1>1, RestFacts
<1>4. q = WithSpec(base, f[r].k)
  BY <1>1, <1>2 DEF States
<1>. HIDE DEF o, s1, d
<1>5. /\ s1.gen \in Nat /\ s1.prompt \in Nat /\ s1.hash \in SUBSET Hashes /\ s1.comp + AheadOf(f, r) \in Nat
      /\ s1.held \in Nat /\ f[r].k \in 0..NumSpec /\ 0 \in 0..NumSpec
  BY <1>3 DEF Truths, PlanType
<1>6. d.blocks = Blocks(s1, 0) /\ d.blocks \in Seq(Addresses)
  BY <1>2, <1>3, <1>5, BlocksAreAddresses
<1>7. <<>> \in Seq(Tokens)
  OBVIOUS
<1>8. /\ base \in ReqStates /\ base.outs = <<>> /\ base.gen = s1.gen /\ base.prompt = s1.prompt
      /\ base.hash = s1.hash /\ base.comp = s1.comp + AheadOf(f, r) /\ base.blocks = Blocks(s1, 0)
  <2>1. CASE r \in DOMAIN Known(o)
    <3>1. r \in DOMAIN requests /\ f[r].act = "stream"
      BY <1>1, <1>2, <1>3, <2>1 DEF Known, Forget, Only, Asked
    <3>2. requests[r] \in ReqStates /\ requests[r].gen = s1.gen
      BY <1>3, <3>1 DEF Of, Settled
    <3>. DEFINE a == [requests[r] EXCEPT !.prompt = d.prompt]
                b == [a EXCEPT !.outs = <<>>]
                c == [b EXCEPT !.comp = d.computed]
                e == [c EXCEPT !.blocks = d.blocks]
                h == [e EXCEPT !.hash = d.hash]
    <3>3. a \in ReqStates /\ a.prompt = s1.prompt /\ a.gen = s1.gen
      BY <1>2, <1>5, <3>2 DEF ReqStates
    <3>. HIDE DEF a
    <3>4. b \in ReqStates /\ b.outs = <<>> /\ b.prompt = s1.prompt /\ b.gen = s1.gen
      BY <1>7, <3>3 DEF ReqStates
    <3>. HIDE DEF b
    <3>5. c \in ReqStates /\ c.outs = <<>> /\ c.prompt = s1.prompt /\ c.gen = s1.gen /\ c.comp = s1.comp + AheadOf(f, r)
      BY <1>2, <1>5, <3>4 DEF ReqStates
    <3>. HIDE DEF c
    <3>6. /\ e \in ReqStates /\ e.outs = <<>> /\ e.prompt = s1.prompt /\ e.gen = s1.gen
          /\ e.comp = s1.comp + AheadOf(f, r) /\ e.blocks = Blocks(s1, 0)
      BY <1>6, <3>5 DEF ReqStates
    <3>. HIDE DEF e
    <3>7. /\ h \in ReqStates /\ h.outs = <<>> /\ h.prompt = s1.prompt /\ h.gen = s1.gen
          /\ h.comp = s1.comp + AheadOf(f, r) /\ h.blocks = Blocks(s1, 0) /\ h.hash = s1.hash
      BY <1>2, <1>5, <3>6 DEF ReqStates
    <3>8. Streamed(requests[r], d) = h
      BY Zenon DEF Streamed, h, e, c, b, a
    <3>. QED
      BY <2>1, <3>7, <3>8
  <2>2. CASE r \notin DOMAIN Known(o)
    <3>1. base = NewState(d)
      BY <2>2
    <3>2. NewState(d) \in ReqStates
      <4>1. d.gen \in Nat /\ d.prompt \in Nat /\ d.computed \in Nat /\ d.hash \in SUBSET Hashes
        BY <1>2, <1>5
      <4>. QED
        BY <1>5, <1>6, <1>7, <4>1 DEF NewState, ReqStates
    <3>3. /\ NewState(d).outs = <<>> /\ NewState(d).gen = s1.gen /\ NewState(d).prompt = s1.prompt
          /\ NewState(d).hash = s1.hash /\ NewState(d).comp = s1.comp + AheadOf(f, r)
          /\ NewState(d).blocks = Blocks(s1, 0)
      BY <1>2, <1>6 DEF NewState
    <3>. QED
      BY <3>1, <3>2, <3>3
  <2>. QED
    BY <2>1, <2>2
<1>9. s1.len = s1.prompt /\ AheadOf(f, r) = 0 /\ s1.len \in Nat
  BY <1>3 DEF Settled, AheadOf, Ahead, Truths
<1>. HIDE DEF base, q
<1>10. q \in ReqStates /\ q.draftLen = f[r].k
  BY <1>4, <1>5, <1>8 DEF WithSpec, ReqStates
<1>11. /\ q.outs = <<>> /\ q.gen = s1.gen /\ q.prompt = s1.prompt
       /\ q.hash = s1.hash /\ q.comp = s1.comp + AheadOf(f, r) /\ q.blocks = Blocks(s1, 0)
  BY <1>4, <1>8 DEF WithSpec, ReqStates
<1>12. PlannedFor(r, s1, AheadOf(f, r), f[r].k, q)
  BY <1>9, <1>10, <1>11 DEF PlannedFor
<1>. QED
  BY <1>11, <1>12 DEF q, o, s1

LEMMA PrefixOfSeq ==
  ASSUME NEW S, NEW s \in Seq(S), NEW n \in 0..Len(s)
  PROVE  /\ SubSeq(s, 1, n) \in Seq(S) /\ Len(SubSeq(s, 1, n)) = n
         /\ \A i \in 1..n : SubSeq(s, 1, n)[i] = s[i]
  OBVIOUS

LEMMA SuffixOfSeq ==
  ASSUME NEW S, NEW s \in Seq(S), NEW n \in 0..Len(s)
  PROVE  /\ SubSeq(s, Len(s) - n + 1, Len(s)) \in Seq(S) /\ Len(SubSeq(s, Len(s) - n + 1, Len(s))) = n
         /\ \A i \in 1..n : SubSeq(s, Len(s) - n + 1, Len(s))[i] = s[Len(s) - n + i]
  OBVIOUS

LEMMA UnknownTail ==
  ASSUME NEW k \in Nat
  PROVE  /\ [i \in 1..k |-> Unknown] \in Seq(Tokens) /\ Len([i \in 1..k |-> Unknown]) = k
         /\ \A i \in 1..k : [j \in 1..k |-> Unknown][i] = Unknown
<1>1. Unknown \in Tokens
  BY DEF Tokens
<1>. QED
  BY <1>1

\* The outputs of a request in a row: its own, and a placeholder for every draft, cut to the scheduler's count.
LEMMA AlignedOutputs ==
  ASSUME NEW outs \in Seq(Tokens), NEW n \in Nat,
         NEW tail \in Seq(Tokens), \A i \in 1..Len(tail) : tail[i] = Unknown,
         n <= Len(outs) + Len(tail)
  PROVE  LET cut == SubSeq(outs \o tail, 1, Min2(Len(outs \o tail), n))
         IN /\ cut \in Seq(Tokens) /\ Len(cut) = n
            /\ \A i \in 1..n : cut[i] = IF i <= Len(outs) THEN outs[i] ELSE Unknown
<1>. DEFINE all == outs \o tail
<1>1. /\ all \in Seq(Tokens) /\ Len(all) = Len(outs) + Len(tail)
      /\ \A i \in 1..(Len(outs) + Len(tail)) : all[i] = IF i <= Len(outs) THEN outs[i] ELSE Unknown
  OBVIOUS
<1>. HIDE DEF all
<1>2. Min2(Len(all), n) = n /\ n \in 0..Len(all)
  BY <1>1 DEF Min2
<1>3. /\ SubSeq(all, 1, n) \in Seq(Tokens) /\ Len(SubSeq(all, 1, n)) = n
      /\ \A i \in 1..n : SubSeq(all, 1, n)[i] = all[i]
  BY <1>1, <1>2, PrefixOfSeq
<1>4. \A i \in 1..n : SubSeq(all, 1, n)[i] = IF i <= Len(outs) THEN outs[i] ELSE Unknown
  BY <1>1, <1>2, <1>3
<1>. QED
  BY <1>2, <1>3, <1>4 DEF all

LEMMA ContinuedIsPlanned ==
  ASSUME Resting, NEW f \in Planned, NEW free, NEW r \in Scheduled(f),
         f[r].act \in {"go", "resume", "force"}
  PROVE  LET o == Output(f, free)
             q == States(o)[r]
         IN /\ PlannedFor(r, Next1(f, r), AheadOf(f, r), f[r].k, q)
            /\ r \notin DOMAIN Prev(o) => AllKnown(r, Next1(f, r), q)
<1>. DEFINE o == Output(f, free)
            s == sched[r]
            s1 == Next1(f, r)
            d == o.data[r]
            ahead == AheadOf(f, r)
            old == requests[r]
            q == States(o)[r]
<1>0. Says(o, f, free) /\ SaysOf(o, f, r)
  BY OutputIs
<1>1. r \in Reqs
  BY DEF Scheduled
<1>2. /\ o.new = {x \in Reqs : f[x].act \in {"submit", "resubmit", "stream"}}
      /\ o.finished = {x \in Reqs : f[x].act \in {"finish", "resubmit"}}
      /\ o.cached = {x \in Reqs : f[x].act \in {"go", "resume", "force"}}
      /\ o.resumed = {x \in Reqs : f[x].act \in {"resume", "force"}}
      /\ o.spec[r] = f[r].k
      /\ d.computed = s1.comp + ahead
      /\ d.outputs = s1.len - s1.prompt + ahead
      /\ d.tokens = [p \in 1..s1.len |-> Real(r, s1.gen, p)]
      /\ d.blocks = Blocks(s1, IF f[r].act = "go" THEN sched[r].held ELSE 0)
  BY <1>0, Zenon DEF Says, SaysOf
<1>3. /\ s \in Truths /\ s1 \in Truths /\ Settled(s, f[r], s1) /\ Asked(s, f[r]) /\ ahead \in Nat
      /\ f[r] \in PlanType /\ NumSpec \in Nat /\ NumPrompt \in Nat \ {0}
      /\ r \in DOMAIN requests <=> s.st # "none"
      /\ r \in DOMAIN requests => old \in ReqStates /\ Of(r, s, old)
      /\ r \notin DOMAIN rows => s.got = 0 /\ s.rej = 0
  BY <1>1, RestFacts
<1>4. r \in DOMAIN requests /\ old \in ReqStates /\ Of(r, s, old)
  BY <1>3 DEF Asked
<1>5. r \in DOMAIN Known(o) /\ r \notin o.new /\ r \in o.cached
  BY <1>1, <1>2, <1>4 DEF Known, Forget, Only
<1>6. q = WithSpec(Continued(o, r), f[r].k)
  BY <1>2, <1>5 DEF States
<1>7. /\ InBatch(o) = {x \in DOMAIN rows : f[x].act = "go"}
      /\ Prev(o) = [x \in DOMAIN prevIndex \cap InBatch(o) |-> prevIndex[x]]
  BY KeptGoOn
<1>. HIDE DEF o, d, s, s1, ahead, old, q
<1>8. /\ s1.gen = s.gen /\ s1.prompt = s.prompt /\ s1.hash = s.hash
      /\ s1.gen \in Nat /\ s1.prompt \in Nat /\ s1.len \in Nat /\ s1.comp + ahead \in Nat
      /\ s1.held \in Nat /\ s.held \in Nat /\ f[r].k \in 0..NumSpec
      /\ s1.st = "running" /\ s1.prompt <= s1.len
      /\ f[r].act = "go" => s1.len = s.len /\ s1.epoch = s.epoch /\ s1.held >= s.held /\ s.st = "running"
  <2>1. f[r].n > 0
    BY DEF Scheduled
  <2>2. s1.st = "running" /\ Sound(s1)
    BY <1>3, <2>1 DEF Settled
  <2>3. /\ s1.gen \in Nat /\ s1.prompt \in Nat /\ s1.len \in Nat /\ s1.comp \in Nat /\ s1.got \in Nat
        /\ s1.held \in Nat /\ s.held \in Nat /\ f[r].k \in 0..NumSpec
    BY <1>3 DEF Truths, PlanType
  <2>. QED
    BY <1>3, <2>2, <2>3 DEF Settled, Sound, Asked
<1>9. StateBlocks(o, r) = Blocks(s1, 0) /\ Blocks(s1, 0) \in Seq(Addresses)
  <2>1. Blocks(s1, 0) \in Seq(Addresses)
    BY <1>3, <1>8, BlocksAreAddresses
  <2>2. CASE f[r].act = "go"
    <3>1. old.blocks = Blocks(s, 0) /\ d.blocks = Blocks(s1, s.held) /\ r \notin o.resumed
      BY <1>1, <1>2, <1>4, <1>8, <2>2 DEF Of, s
    <3>2. Blocks(s, 0) \o Blocks(s1, s.held) = Blocks(s1, 0)
      BY <1>3, <1>8, <2>2, BlocksGrow
    <3>. QED
      BY <2>1, <3>1, <3>2 DEF StateBlocks, d, old
  <2>3. CASE f[r].act # "go"
    BY <1>1, <1>2, <2>1, <2>3 DEF StateBlocks, d
  <2>. QED
    BY <2>2, <2>3
<1>10. /\ Outputs(o, r) \in Seq(Tokens) /\ Len(Outputs(o, r)) = s1.len - s1.prompt + ahead
       /\ \A i \in 1..(s1.len - s1.prompt + ahead) : Outputs(o, r)[i] \in {Unknown, Real(r, s1.gen, s1.prompt + i)}
       /\ r \notin DOMAIN Prev(o) =>
            \A i \in 1..(s1.len - s1.prompt + ahead) : Outputs(o, r)[i] = Real(r, s1.gen, s1.prompt + i)
  <2>1. old.outs \in Seq(Tokens) /\ old.draftLen \in Nat
    BY <1>3, <1>4 DEF ReqStates
  <2>2. CASE r \in InBatch(o)
    <3>1. r \in DOMAIN rows /\ f[r].act = "go"
      BY <1>7, <2>2
    <3>2. ahead = s.rej
      BY <3>1 DEF ahead, AheadOf, Ahead, s
    <3>3. Optimistic(o, r) = old.draftLen
      BY <1>5, <2>1, <2>2 DEF Optimistic, Deferred, old
    <3>4. Len(old.outs) + old.draftLen >= s1.len - s1.prompt + ahead
      BY <1>8, <3>1, <3>2 DEF Resting, AtRest, s, old
    <3>5. s1.len - s1.prompt + ahead \in Nat
      BY <1>3, <1>8
    <3>6. Outputs(o, r) = Aligned(o, r)
      BY <2>2 DEF Outputs
    <3>. DEFINE n == s1.len - s1.prompt + ahead
                tail == [i \in 1..old.draftLen |-> Unknown]
                all == old.outs \o tail
    <3>7. Aligned(o, r) = SubSeq(all, 1, Min2(Len(all), n))
      BY <1>2, <3>3 DEF Aligned, Extended, old, d
    <3>a. tail \in Seq(Tokens) /\ Len(tail) = old.draftLen /\ \A i \in 1..Len(tail) : tail[i] = Unknown
      <4>1. Len(tail) = old.draftLen /\ tail \in Seq(Tokens)
        BY <2>1, UnknownTail
      <4>2. \A i \in 1..old.draftLen : tail[i] = Unknown
        BY <2>1
      <4>. QED
        BY <4>1, <4>2
    <3>b. n \in Nat /\ n <= Len(old.outs) + Len(tail)
      BY <2>1, <3>4, <3>5, <3>a
    <3>. HIDE DEF tail, n
    <3>c. /\ SubSeq(all, 1, Min2(Len(all), n)) \in Seq(Tokens) /\ Len(SubSeq(all, 1, Min2(Len(all), n))) = n
          /\ \A i \in 1..n :
               SubSeq(all, 1, Min2(Len(all), n))[i] = IF i <= Len(old.outs) THEN old.outs[i] ELSE Unknown
      BY <2>1, <3>a, <3>b, AlignedOutputs
    <3>. HIDE DEF all
    <3>8. /\ Outputs(o, r) \in Seq(Tokens) /\ Len(Outputs(o, r)) = s1.len - s1.prompt + ahead
          /\ \A i \in 1..(s1.len - s1.prompt + ahead) :
               Outputs(o, r)[i] = IF i <= Len(old.outs) THEN old.outs[i] ELSE Unknown
      BY <3>6, <3>7, <3>c DEF n
    <3>9. \A i \in 1..Len(old.outs) : old.outs[i] \in {Unknown, Real(r, s1.gen, s1.prompt + i)}
      BY <1>4, <1>8, <2>1 DEF Of
    <3>10. \A i \in 1..(s1.len - s1.prompt + ahead) : Outputs(o, r)[i] \in {Unknown, Real(r, s1.gen, s1.prompt + i)}
      BY <2>1, <3>5, <3>8, <3>9
    <3>11. ASSUME r \notin DOMAIN Prev(o)
           PROVE  \A i \in 1..(s1.len - s1.prompt + ahead) : Outputs(o, r)[i] = Real(r, s1.gen, s1.prompt + i)
      <4>1. r \notin DOMAIN prevIndex
        BY <1>7, <2>2, <3>11
      <4>2. old.draftLen = 0 /\ AllKnown(r, s, old)
        BY <3>1, <4>1 DEF Resting, AtRest, NotOnGpu, s, old
      <4>3. \A i \in 1..Len(old.outs) : old.outs[i] = Real(r, s1.gen, s1.prompt + i)
        BY <1>8, <2>1, <4>2 DEF AllKnown
      <4>. QED
        BY <2>1, <3>4, <3>5, <3>8, <4>2, <4>3
    <3>. QED
      BY <3>8, <3>10, <3>11
  <2>3. CASE r \notin InBatch(o)
    <3>1. ahead = 0
      BY <1>3, <1>7, <2>3 DEF ahead, AheadOf, Ahead, s
    <3>. DEFINE n == s1.len - s1.prompt
    <3>2. n \in Nat /\ d.outputs = n /\ s1.len - s1.prompt + ahead = n
      BY <1>2, <1>8, <3>1
    <3>3. CASE n > 0
      <4>1. Outputs(o, r) = Recovered(o, r)
        BY <2>3, <3>2, <3>3 DEF Outputs, d
      <4>2. Recovered(o, r) = SubSeq(d.tokens, Len(d.tokens) - n + 1, Len(d.tokens))
        BY <3>2 DEF Recovered, d
      <4>3. /\ Outputs(o, r) \in Seq(Tokens) /\ Len(Outputs(o, r)) = n
            /\ \A i \in 1..n : Outputs(o, r)[i] = Real(r, s1.gen, s1.prompt + i)
        <5>. HIDE DEF n
        <5>. DEFINE tokens == d.tokens
        <5>1. \A p \in 1..s1.len : Real(r, s1.gen, p) \in Tokens
          BY <1>1, <1>8 DEF Real, Tokens
        <5>a. /\ tokens \in Seq(Tokens) /\ Len(tokens) = s1.len
              /\ \A p \in 1..s1.len : tokens[p] = Real(r, s1.gen, p)
          BY <1>2, <1>8, <5>1
        <5>b. n \in Nat /\ n = s1.len - s1.prompt
          BY <3>2 DEF n
        <5>. HIDE DEF tokens
        <5>. DEFINE last == SubSeq(tokens, Len(tokens) - n + 1, Len(tokens))
        <5>c. n \in 0..Len(tokens) /\ Len(tokens) - n = s1.prompt /\ Len(tokens) = s1.len
          BY <1>8, <5>a, <5>b
        <5>d. last \in Seq(Tokens) /\ Len(last) = n /\ \A i \in 1..n : last[i] = tokens[Len(tokens) - n + i]
          BY <5>a, <5>c, SuffixOfSeq
        <5>. HIDE DEF last, n
        <5>2. \A i \in 1..n : last[i] = Real(r, s1.gen, s1.prompt + i)
          <6>. TAKE i \in 1..n
          <6>1. s1.prompt + i \in 1..s1.len /\ Len(tokens) - n + i = s1.prompt + i
            BY <1>8, <5>b, <5>c
          <6>2. last[i] = tokens[s1.prompt + i]
            BY <5>d, <6>1
          <6>. QED
            BY <5>a, <6>1, <6>2
        <5>3. Outputs(o, r) = last
          BY <4>1, <4>2 DEF tokens, last
        <5>. QED
          BY <5>d, <5>2, <5>3
      <4>. QED
        BY <3>2, <4>3
    <3>4. CASE n = 0
      <4>1. Outputs(o, r) = Aligned(o, r)
        BY <3>2, <3>4 DEF Outputs, d
      <4>2. Optimistic(o, r) = 0
        BY <2>3 DEF Optimistic, Deferred
      <4>. DEFINE tail == [i \in 1..0 |-> Unknown]
                  all == old.outs \o tail
      <4>3. Aligned(o, r) = SubSeq(all, 1, Min2(Len(all), 0))
        BY <3>2, <3>4, <4>2 DEF Aligned, Extended, old, d
      <4>a. tail \in Seq(Tokens) /\ Len(tail) = 0 /\ \A i \in 1..Len(tail) : tail[i] = Unknown
        BY UnknownTail
      <4>c. 0 \in Nat /\ 0 <= Len(old.outs) + Len(tail)
        BY <2>1, <4>a
      <4>. HIDE DEF tail
      <4>b. SubSeq(all, 1, Min2(Len(all), 0)) \in Seq(Tokens) /\ Len(SubSeq(all, 1, Min2(Len(all), 0))) = 0
        BY <2>1, <4>a, <4>c, AlignedOutputs
      <4>4. Outputs(o, r) \in Seq(Tokens) /\ Len(Outputs(o, r)) = 0
        BY <4>1, <4>3, <4>b
      <4>. QED
        BY <3>2, <3>4, <4>4
    <3>. QED
      BY <3>2, <3>3, <3>4
  <2>. QED
    BY <2>2, <2>3
<1>. DEFINE outs == Outputs(o, r)
            blocks == StateBlocks(o, r)
            a == [old EXCEPT !.outs = outs]
            b == [a EXCEPT !.comp = d.computed]
            c == [b EXCEPT !.blocks = blocks]
            e == [c EXCEPT !.draftLen = f[r].k]
<1>11. outs \in Seq(Tokens) /\ blocks \in Seq(Addresses) /\ blocks = Blocks(s1, 0)
  BY <1>9, <1>10
<1>. HIDE DEF outs, blocks
<1>12. a \in ReqStates /\ a.outs = outs /\ a.gen = old.gen /\ a.prompt = old.prompt /\ a.hash = old.hash
  BY <1>4, <1>11 DEF ReqStates
<1>. HIDE DEF a
<1>13. /\ b \in ReqStates /\ b.outs = outs /\ b.gen = old.gen /\ b.prompt = old.prompt /\ b.hash = old.hash
       /\ b.comp = s1.comp + ahead
  BY <1>2, <1>8, <1>12 DEF ReqStates
<1>. HIDE DEF b
<1>14. /\ c \in ReqStates /\ c.outs = outs /\ c.gen = old.gen /\ c.prompt = old.prompt /\ c.hash = old.hash
       /\ c.comp = s1.comp + ahead /\ c.blocks = Blocks(s1, 0)
  BY <1>11, <1>13 DEF ReqStates
<1>. HIDE DEF c
<1>15. /\ e \in ReqStates /\ e.outs = outs /\ e.gen = old.gen /\ e.prompt = old.prompt /\ e.hash = old.hash
       /\ e.comp = s1.comp + ahead /\ e.blocks = Blocks(s1, 0) /\ e.draftLen = f[r].k
  BY <1>8, <1>14 DEF ReqStates
<1>16. q = e
  BY <1>6, Zenon DEF WithSpec, Continued, e, c, b, a, outs, blocks, old, d
<1>. HIDE DEF e
<1>17. DOMAIN outs = 1..(s1.len - s1.prompt + ahead)
  BY <1>10 DEF outs
<1>18. PlannedFor(r, s1, ahead, f[r].k, q)
  BY <1>4, <1>8, <1>10, <1>15, <1>16, <1>17 DEF PlannedFor, Of, outs
<1>19. r \notin DOMAIN Prev(o) => AllKnown(r, s1, q)
  BY <1>10, <1>15, <1>16, <1>17 DEF AllKnown, outs
<1>. QED
  BY <1>18, <1>19 DEF q, s1, ahead, o

LEMMA ScheduledIsPlanned ==
  ASSUME Resting, NEW f \in Planned, NEW free, NEW r \in Scheduled(f)
  PROVE  LET o == Output(f, free)
             q == States(o)[r]
             w == Rows(o, States(o))[r]
         IN /\ PlannedFor(r, Next1(f, r), AheadOf(f, r), f[r].k, q)
            /\ r \notin DOMAIN Prev(o) => AllKnown(r, Next1(f, r), q)
            /\ w \in [comp : Nat, blocks : Seq(Addresses)]
            /\ w.comp = Next1(f, r).comp + AheadOf(f, r) /\ w.blocks = Blocks(Next1(f, r), 0)
<1>. DEFINE o == Output(f, free)
            s1 == Next1(f, r)
            q == States(o)[r]
            w == Rows(o, States(o))[r]
<1>1. r \in Reqs /\ f[r].n > 0
  BY DEF Scheduled
<1>2. f[r].act \in {"submit", "resubmit", "stream", "go", "resume", "force"}
  BY <1>1, RestFacts DEF Asked, Acts
<1>3. /\ PlannedFor(r, s1, AheadOf(f, r), f[r].k, q)
      /\ r \notin DOMAIN Prev(o) => AllKnown(r, s1, q)
  <2>1. CASE f[r].act \in {"submit", "resubmit", "stream"}
    <3>1. PlannedFor(r, s1, AheadOf(f, r), f[r].k, q) /\ q.outs = <<>>
      BY <2>1, NewIsPlanned
    <3>2. AllKnown(r, s1, q)
      BY <3>1 DEF AllKnown
    <3>. QED
      BY <3>1, <3>2
  <2>2. CASE f[r].act \in {"go", "resume", "force"}
    BY <2>2, ContinuedIsPlanned
  <2>. QED
    BY <1>2, <2>1, <2>2
<1>4. /\ InBatch(o) = {x \in DOMAIN rows : f[x].act = "go"}
      /\ InBatch(o) \cup DOMAIN o.n = Scheduled(f)
  BY KeptGoOn
<1>5. Says(o, f, free) /\ SaysOf(o, f, r)
  BY OutputIs
<1>6. o.data[r].computed = s1.comp + AheadOf(f, r) /\ o.data[r].blocks = Blocks(s1, IF f[r].act = "go" THEN sched[r].held ELSE 0)
  BY <1>5, Zenon DEF SaysOf
<1>7. /\ s1 \in Truths /\ sched[r] \in Truths /\ Settled(sched[r], f[r], s1)
      /\ r \in DOMAIN rows =>
           rows[r] \in [comp : Nat, blocks : Seq(Addresses)] /\ rows[r].blocks = Blocks(sched[r], 0)
  BY <1>1, RestFacts
<1>8. s1.comp + AheadOf(f, r) \in Nat /\ Blocks(s1, 0) \in Seq(Addresses)
  <2>1. q.comp = s1.comp + AheadOf(f, r) /\ q \in ReqStates /\ q.blocks = Blocks(s1, 0)
    BY <1>3 DEF PlannedFor
  <2>. HIDE DEF q, s1
  <2>2. q.comp \in Nat /\ q.blocks \in Seq(Addresses)
    BY <2>1 DEF ReqStates
  <2>. QED
    BY <2>1, <2>2
<1>9. /\ r \in InBatch(o) => w = [comp |-> o.data[r].computed, blocks |-> rows[r].blocks \o o.data[r].blocks]
      /\ r \notin InBatch(o) => w = [comp |-> q.comp, blocks |-> q.blocks]
  BY <1>4 DEF Rows
<1>. HIDE DEF o, s1, q, w
<1>10. CASE r \in InBatch(o)
  <2>1. f[r].act = "go" /\ r \in DOMAIN rows
    BY <1>4, <1>10
  <2>2. s1.gen = sched[r].gen /\ s1.epoch = sched[r].epoch /\ s1.held >= sched[r].held
    BY <1>7, <2>1 DEF Settled
  <2>3. Blocks(sched[r], 0) \o Blocks(s1, sched[r].held) = Blocks(s1, 0)
    BY <1>7, <2>2, BlocksGrow
  <2>4. w = [comp |-> s1.comp + AheadOf(f, r), blocks |-> Blocks(s1, 0)]
    BY <1>6, <1>7, <1>9, <1>10, <2>1, <2>3
  <2>. QED
    BY <1>3, <1>8, <2>4 DEF o, s1, q, w
<1>11. CASE r \notin InBatch(o)
  <2>1. q.comp = s1.comp + AheadOf(f, r) /\ q.blocks = Blocks(s1, 0)
    BY <1>3 DEF PlannedFor
  <2>2. w = [comp |-> s1.comp + AheadOf(f, r), blocks |-> Blocks(s1, 0)]
    BY <1>9, <1>11, <2>1
  <2>. QED
    BY <1>3, <1>8, <2>2 DEF o, s1, q, w
<1>. QED
  BY <1>10, <1>11

\* A request left out of the step: the runner keeps what it had of it.
LEMMA LeftOutIsKept ==
  ASSUME Resting, NEW f \in Planned, NEW free, NEW r \in Reqs \ Scheduled(f), Next1(f, r).st # "none"
  PROVE  LET q == States(Output(f, free))[r]
         IN q \in ReqStates /\ Of(r, Next1(f, r), q)
<1>. DEFINE o == Output(f, free)
            s == sched[r]
            s1 == Next1(f, r)
            q == States(o)[r]
<1>1. /\ f[r].n \in Nat /\ f[r].act \in Acts /\ Settled(s, f[r], s1) /\ Asked(s, f[r])
      /\ s \in Truths /\ s1 \in Truths
      /\ r \in DOMAIN requests <=> s.st # "none"
      /\ r \in DOMAIN requests => requests[r] \in ReqStates /\ Of(r, s, requests[r])
  BY RestFacts
<1>2. f[r].act \in {"skip", "preempt"} /\ s.st # "none"
  BY <1>1 DEF Scheduled, Asked, Settled
<1>3. Says(o, f, free)
  BY OutputIs
<1>4. q = requests[r]
  <2>1. r \notin o.new /\ r \notin o.cached /\ r \notin o.finished
    BY <1>2, <1>3 DEF Says
  <2>2. r \in DOMAIN Known(o)
    BY <1>1, <1>2, <2>1 DEF Known, Forget, Only
  <2>. QED
    BY <2>1, <2>2 DEF States
<1>. HIDE DEF o, s, s1, q
<1>5. s1.gen = s.gen /\ s1.prompt = s.prompt /\ s1.hash = s.hash
  BY <1>1, <1>2 DEF Settled
<1>6. s1.st = "running" => s.st = "running" /\ Blocks(s1, 0) = Blocks(s, 0)
  BY <1>1, <1>2 DEF Settled, Blocks
<1>7. Of(r, s1, q)
  BY <1>1, <1>2, <1>4, <1>5, <1>6 DEF Of
<1>. QED
  BY <1>1, <1>2, <1>4, <1>7 DEF o, s1, q

(* -------- the counts ------------------------------------------------------------- *)

\* The correction takes back exactly the drafts the scheduler counted too many.
LEMMA CorrectionIsAhead ==
  ASSUME Resting, NEW f \in Planned, NEW free, NEW r \in Reqs
  PROVE  LET o == Output(f, free)
         IN /\ Correction(o, Prev(o), r) = AheadOf(f, r)
            /\ r \in Deferred(o) => r \in DOMAIN Prev(o)
<1>. DEFINE o == Output(f, free)
            s == sched[r]
            q == requests[r]
            i == prevIndex[r]
            c == Correction(o, Prev(o), r)
<1>1. /\ InBatch(o) = {x \in DOMAIN rows : f[x].act = "go"}
      /\ Prev(o) = [x \in DOMAIN prevIndex \cap InBatch(o) |-> prevIndex[x]]
  BY KeptGoOn
<1>2. Says(o, f, free)
  BY OutputIs
<1>3. o.cached = {x \in Reqs : f[x].act \in {"go", "resume", "force"}}
  BY <1>2, Zenon DEF Says
<1>4. /\ s \in Truths /\ NumSpec \in Nat
      /\ r \notin DOMAIN rows => s.rej = 0
  BY RestFacts
<1>. HIDE DEF o, c
<1>5. s.rej \in Nat /\ s.got \in Nat
  <2>1. s \in Truths /\ NumSpec \in Nat
    BY <1>4
  <2>. HIDE DEF s
  <2>. QED
    BY <2>1 DEF Truths
<1>6. CASE r \in InBatch(o) /\ r \in DOMAIN prevIndex
  <2>1. r \in DOMAIN Prev(o) /\ Prev(o)[r] = i /\ f[r].act = "go" /\ r \in DOMAIN rows
    BY <1>1, <1>6
  <2>2. /\ i \in DOMAIN gpu.counts /\ gpu.counts[i] = s.got /\ s.got > 0 /\ q.draftLen = s.got - 1 + s.rej
    BY <1>6 DEF Resting, AtRest, OnGpu
  <2>3. gpu.counts # <<>>
    BY <2>2
  <2>4. AheadOf(f, r) = s.rej
    BY <2>1 DEF AheadOf, Ahead
  <2>5. r \in o.cached
    BY <1>3, <2>1
  <2>6. CASE q.draftLen > 0
    <3>1. r \in Deferred(o) /\ Optimistic(o, r) = q.draftLen
      BY <1>6, <2>5, <2>6 DEF Deferred, Optimistic
    <3>2. c = q.draftLen - (s.got - 1)
      BY <2>1, <2>2, <2>3, <3>1 DEF Correction, c
    <3>. QED
      BY <1>5, <2>1, <2>2, <2>4, <3>2 DEF c, o
  <2>7. CASE ~(q.draftLen > 0)
    <3>1. r \notin Deferred(o)
      BY <2>7 DEF Deferred
    <3>2. c = 0
      BY <3>1 DEF Correction, c
    <3>. QED
      BY <1>5, <2>2, <2>4, <2>7, <3>1, <3>2 DEF c, o
  <2>. QED
    BY <2>6, <2>7
<1>7. CASE r \in InBatch(o) /\ r \notin DOMAIN prevIndex
  <2>1. f[r].act = "go" /\ r \in DOMAIN rows
    BY <1>1, <1>7
  <2>2. s.rej = 0 /\ q.draftLen = 0
    BY <1>7, <2>1 DEF Resting, AtRest, NotOnGpu
  <2>3. r \notin Deferred(o)
    BY <2>2 DEF Deferred
  <2>4. c = 0
    BY <2>3 DEF Correction, c
  <2>. QED
    BY <2>1, <2>2, <2>3, <2>4 DEF AheadOf, Ahead, c, o
<1>8. CASE r \notin InBatch(o)
  <2>1. r \notin Deferred(o)
    BY <1>8 DEF Deferred
  <2>2. c = 0
    BY <2>1 DEF Correction, c
  <2>3. AheadOf(f, r) = 0
    BY <1>1, <1>4, <1>8 DEF AheadOf, Ahead
  <2>. QED
    BY <2>1, <2>2, <2>3 DEF c, o
<1>. QED
  BY <1>6, <1>7, <1>8

\* The rows of a step: an order of the requests scheduled.
LEMMA OrderOfStep ==
  ASSUME NEW S \in SUBSET Reqs, NEW ord \in Orders(S)
  PROVE  /\ ord \in Seq(Reqs) /\ DOMAIN ord = 1..Len(ord) /\ Len(ord) \in Nat /\ Len(ord) = Cardinality(S)
         /\ \A i \in DOMAIN ord : ord[i] \in S
         /\ \A i, j \in DOMAIN ord : ord[i] = ord[j] => i = j
         /\ ToSet(ord) = S /\ Len(ord) <= Cardinality(Reqs)
         /\ S # {} => ord # <<>>
<1>1. IsFiniteSet(S) /\ Cardinality(S) \in Nat /\ Cardinality(S) <= Cardinality(Reqs)
  BY RunnerAssumption, FS_Subset, FS_CardinalityType
<1>2. ord \in [1..Cardinality(S) -> S] /\ \A i, j \in DOMAIN ord : i # j => ord[i] # ord[j]
  BY DEF Orders
<1>3. ord \in Seq(Reqs) /\ Len(ord) = Cardinality(S) /\ DOMAIN ord = 1..Cardinality(S)
  BY <1>1, <1>2
<1>4. ToSet(ord) = S
  <2>. DEFINE n == Cardinality(S)
  <2>1. IsFiniteSet(1..n) /\ Cardinality(1..n) = n
    BY <1>1, FS_Interval
  <2>2. ord \in Injection(1..n, S)
    BY <1>2 DEF Injection, IsInjective
  <2>3. ToSet(ord) = {ord[i] : i \in 1..n}
    BY <1>3 DEF ToSet
  <2>4. ToSet(ord) \in SUBSET S
    BY <1>2, <2>3
  <2>5. IsFiniteSet(ToSet(ord)) /\ Cardinality(ToSet(ord)) = n
    <3>1. ord \in Bijection(1..n, ToSet(ord))
      BY <1>2, <2>3 DEF Bijection, Injection, Surjection, IsInjective
    <3>. QED
      BY <2>1, <3>1, FS_Bijection DEF ExistsBijection
  <2>. QED
    BY <1>1, <2>4, <2>5, FS_Subset
<1>5. S # {} => ord # <<>>
  BY <1>4 DEF ToSet
<1>. QED
  BY <1>1, <1>2, <1>3, <1>4, <1>5

\* The positions the GPU computes, or reads, are the true ones, whichever of the copy and the correction was first.
LEMMA PositionsAreTheRequests ==
  ASSUME Resting, NEW f \in Planned, NEW free, NEW ord \in Orders(Scheduled(f)),
         NEW read \in CountsRead(Output(f, free), Prev(Output(f, free)), Rows(Output(f, free), States(Output(f, free)))),
         NEW i \in DOMAIN ord
  PROVE  LET o == Output(f, free)
         IN GpuComputed(ord, Prev(o), PrevDrafts(o, Prev(o)), read)[i] = Next1(f, ord[i]).comp
<1>. DEFINE o == Output(f, free)
            rws == Rows(o, States(o))
            prev == Prev(o)
            drafts == PrevDrafts(o, prev)
            r == ord[i]
            s1 == Next1(f, r)
            at == prevIndex[r]
            pos == PrevPositions(ord, prev)
            g == GpuComputed(ord, prev, drafts, read)[i]
<1>1. Scheduled(f) \in SUBSET Reqs
  BY DEF Scheduled
<1>2. r \in Scheduled(f) /\ r \in Reqs
  BY <1>1, OrderOfStep
<1>a. rws[r].comp = s1.comp + AheadOf(f, r)
  BY <1>2, ScheduledIsPlanned
<1>b. /\ InBatch(o) = {x \in DOMAIN rows : f[x].act = "go"}
      /\ prev = [x \in DOMAIN prevIndex \cap InBatch(o) |-> prevIndex[x]]
  BY KeptGoOn
<1>c. /\ Correction(o, prev, r) = AheadOf(f, r)
      /\ r \in Deferred(o) => r \in DOMAIN prev
  BY <1>2, CorrectionIsAhead
<1>3. /\ rws[r].comp = s1.comp + AheadOf(f, r)
      /\ InBatch(o) = {x \in DOMAIN rows : f[x].act = "go"}
      /\ prev = [x \in DOMAIN prevIndex \cap InBatch(o) |-> prevIndex[x]]
      /\ Correction(o, prev, r) = AheadOf(f, r)
      /\ r \in Deferred(o) => r \in DOMAIN prev
  BY <1>a, <1>b, <1>c
<1>4. /\ s1 \in Truths /\ Settled(sched[r], f[r], s1) /\ AheadOf(f, r) \in Nat
  BY <1>2, RestFacts
<1>5. s1.comp \in Nat
  <2>. HIDE DEF s1
  <2>. QED
    BY <1>4 DEF Truths
<1>6. DOMAIN o.n = Scheduled(f)
  BY OutputIs, Zenon DEF Says
<1>. HIDE DEF o, rws, prev, drafts, s1
<1>7. pos[i] = IF r \in DOMAIN prev THEN prev[r] ELSE 0
  BY DEF PrevPositions
<1>8. g = IF pos[i] > 0 /\ gpu.counts # <<>> /\ drafts[pos[i]] > 0
          THEN gpu.computed[pos[i]] + gpu.counts[pos[i]] ELSE read[r]
  BY DEF GpuComputed
<1>9. Correction(o, prev, r) = 0 => read[r] = s1.comp
  <2>1. PICK late \in SUBSET {x \in DOMAIN o.n : Correction(o, prev, x) # 0} :
           read = [x \in DOMAIN o.n |-> rws[x].comp - (IF x \in late THEN Correction(o, prev, x) ELSE 0)]
    BY DEF CountsRead, o, prev, rws
  <2>2. read[r] = rws[r].comp - (IF r \in late THEN Correction(o, prev, r) ELSE 0)
    BY <1>2, <1>6, <2>1
  <2>. QED
    BY <1>3, <1>4, <1>5, <2>2
<1>10. CASE r \in DOMAIN prev
  <2>1. r \in DOMAIN prevIndex /\ f[r].act = "go" /\ prev[r] = at /\ r \in DOMAIN rows
    BY <1>3, <1>10
  <2>2. OnGpu(r, sched[r], requests[r], at)
    BY <2>1 DEF Resting, AtRest
  <2>3. order \in Seq(Reqs) /\ Len(order) <= Cardinality(Reqs) /\ Cardinality(Reqs) \in Nat
    BY RunnerAssumption, FS_CardinalityType DEF Resting, Tables
  <2>4. at \in 1..Cardinality(Reqs) /\ order[at] = r
    BY <2>2, <2>3 DEF OnGpu
  <2>5. pos[i] = at /\ at > 0
    BY <1>7, <1>10, <2>1, <2>4
  <2>. DEFINE who == {x \in Deferred(o) \cap DOMAIN prev : prev[x] = at}
  <2>6. drafts[at] = IF who = {} THEN 0 ELSE Optimistic(o, CHOOSE x \in who : TRUE)
    BY <2>4 DEF PrevDrafts, drafts
  <2>7. who \subseteq {r}
    <3>1. ASSUME NEW x \in who PROVE x = r
      <4>1. x \in DOMAIN prevIndex /\ prevIndex[x] = at
        BY <1>3
      <4>2. order[at] = x
        BY <4>1 DEF Resting, AtRest, OnGpu
      <4>. QED
        BY <2>4, <4>2
    <3>. QED
      BY <3>1
  <2>8. CASE r \in Deferred(o)
    <3>1. r \in who
      BY <1>10, <2>1, <2>8
    <3>. HIDE DEF who
    <3>2. (CHOOSE x \in who : TRUE) = r
      BY <2>7, <3>1
    <3>3. drafts[at] = requests[r].draftLen /\ requests[r].draftLen > 0
      <4>1. drafts[at] = Optimistic(o, r)
        BY <2>6, <3>1, <3>2
      <4>. QED
        BY <2>8, <4>1 DEF Optimistic, Deferred
    <3>4. gpu.counts # <<>> /\ gpu.computed[at] + gpu.counts[at] = sched[r].comp
      BY <2>2, <3>3 DEF OnGpu
    <3>5. s1.comp = sched[r].comp
      BY <1>4, <2>1 DEF Settled
    <3>6. g = gpu.computed[at] + gpu.counts[at]
      BY <1>8, <2>5, <3>3, <3>4
    <3>. QED
      BY <3>4, <3>5, <3>6 DEF s1, drafts, prev, o
  <2>9. CASE r \notin Deferred(o)
    <3>1. who = {}
      BY <2>7, <2>9
    <3>. HIDE DEF who
    <3>2. drafts[at] = 0
      BY <2>6, <3>1
    <3>3. Correction(o, prev, r) = 0
      BY <2>9 DEF Correction
    <3>4. g = read[r]
      BY <1>8, <2>5, <3>2
    <3>. QED
      BY <1>9, <3>3, <3>4 DEF s1, drafts, prev, o
  <2>. QED
    BY <2>8, <2>9
<1>11. CASE r \notin DOMAIN prev
  <2>1. Correction(o, prev, r) = 0
    BY <1>11 DEF Correction
  <2>2. g = read[r]
    BY <1>7, <1>8, <1>11
  <2>. QED
    BY <1>9, <2>1, <2>2 DEF s1, drafts, prev, o
<1>. QED
  BY <1>10, <1>11

\* An image the step shows, or the drafter's look-ahead, is in the encoder cache.
LEMMA ImagesAreThere ==
  ASSUME Resting, NEW f \in Planned, NEW free, NEW r \in Scheduled(f)
  PROVE  LET o == Output(f, free)
             q == States(o)[r]
         IN /\ ~CacheMiss(q, o.n[r], 0, Encoded(o))
            /\ Overlaps(Next1(f, r).comp, o.n[r]) => Next1(f, r).hash \cap Encoded(o) # {}
<1>. DEFINE o == Output(f, free)
            s == sched[r]
            s1 == Next1(f, r)
            q == States(o)[r]
            ahead == AheadOf(f, r)
<1>1. r \in Reqs /\ f[r].n > 0
  BY DEF Scheduled
<1>2. /\ s \in Truths /\ Sound(s) /\ s1 \in Truths /\ Settled(s, f[r], s1) /\ ahead \in Nat
      /\ NumPrompt \in Nat \ {0} /\ NumSpec \in Nat
      /\ r \notin DOMAIN rows => s.rej = 0
  BY <1>1, RestFacts
<1>3. Says(o, f, free) /\ SaysOf(o, f, r)
  BY OutputIs
<1>4. o.n[r] = f[r].n /\ o.free = free /\ o.encode = Shown(f) \ (schedEncoded \ free)
  BY <1>3, Zenon DEF Says, SaysOf
<1>5. Shown(f) \subseteq Encoded(o)
  <2>1. schedEncoded = encoderCache
    BY DEF Resting, Tables
  <2>. QED
    BY <1>4, <2>1 DEF Encoded, Freed
<1>6. Overlaps(s1.comp + ahead, f[r].n) => s1.hash \subseteq Shown(f)
  BY DEF Shown
<1>7. PlannedFor(r, s1, ahead, f[r].k, q)
  BY ScheduledIsPlanned
<1>8. q.hash = s1.hash /\ q.comp = s1.comp + ahead
  BY <1>7 DEF PlannedFor
<1>. HIDE DEF s, s1, q, o, ahead
<1>9. s1.hash # {} /\ s1.comp \in Nat
  BY <1>1, <1>2 DEF Settled, Sound, Truths
<1>10. Overlaps(s1.comp + ahead, f[r].n) => s1.hash \cap Encoded(o) # {}
  BY <1>5, <1>6, <1>9
<1>11. ~CacheMiss(q, o.n[r], 0, Encoded(o))
  <2>1. q.comp + 0 = s1.comp + ahead
    BY <1>2, <1>8, <1>9
  <2>. QED
    BY <1>4, <1>8, <1>10, <2>1 DEF CacheMiss
<1>12. ASSUME ahead # 0 PROVE ~Overlaps(s1.comp, f[r].n)
  <2>1. f[r].act = "go" /\ s.rej # 0
    BY <1>12 DEF ahead, AheadOf, Ahead, s
  <2>2. r \in DOMAIN rows
    BY <1>2, <2>1
  <2>3. r \in DOMAIN prevIndex
    BY <2>1, <2>2 DEF Resting, AtRest, NotOnGpu, s
  <2>4. s.got > 0
    BY <2>3 DEF Resting, AtRest, OnGpu, s
  <2>5. s.st = "running" /\ s1.comp = s.comp
    BY <1>1, <1>2, <2>1 DEF Settled
  <2>6. s.comp = s.len - 1 /\ s.len >= s.prompt + s.got /\ s.prompt >= NumPrompt
    BY <1>2, <2>4, <2>5 DEF Sound
  <2>7. s.comp \in Nat /\ s.len \in Nat /\ s.prompt \in Nat /\ s.got \in Nat
    BY <1>2 DEF Truths
  <2>. QED
    BY <1>2, <2>4, <2>5, <2>6, <2>7 DEF Overlaps
<1>13. ahead = 0 => s1.comp + ahead = s1.comp
  BY <1>9
<1>. QED
  BY <1>4, <1>10, <1>11, <1>12, <1>13 DEF s1, q, o

(* -------- the sums ---------------------------------------------------------------- *)

\* A set of numbers that is not empty has a smallest member.
LEMMA SmallestOfSet ==
  ASSUME NEW S \in SUBSET Nat, S # {}
  PROVE  \E m \in S : \A n \in S : m <= n
<1>1. PICK m \in S : \A n \in S : ~(<<n, m>> \in OpToRel(<, Nat))
  BY WFMin, NatLessThanWellFounded, Zenon
<1>2. \A n \in S : ~(n < m)
  BY <1>1, Zenon DEF OpToRel
<1>. QED
  BY <1>2

\* Induction over the numbers up to a bound, of a set instead of a predicate.
LEMMA InductionTo ==
  ASSUME NEW L \in Nat, NEW S, 0 \in S, \A n \in 0..(L - 1) : n \in S => n + 1 \in S
  PROVE  0..L \subseteq S
<1>. SUFFICES ASSUME (0..L) \ S # {} PROVE FALSE
  OBVIOUS
<1>1. (0..L) \ S \in SUBSET Nat
  OBVIOUS
<1>2. PICK m \in (0..L) \ S : \A n \in (0..L) \ S : m <= n
  BY <1>1, SmallestOfSet
<1>3. m # 0 /\ m - 1 \in 0..(L - 1)
  BY <1>2
<1>4. m - 1 \in S
  BY <1>2, <1>3
<1>. QED
  BY <1>2, <1>3, <1>4

\* The first m sums of n.
IsSum(e, n, m) == e = [i \in 0..m |-> IF i = 0 THEN 0 ELSE e[i - 1] + n[i]]

LEMMA SumIsDefined ==
  ASSUME NEW n, NEW L \in Nat
  PROVE  \E e : IsSum(e, n, L)
<1>. DEFINE S == {k \in Nat : \E e : IsSum(e, n, k)}
<1>1. 0 \in S
  <2>1. IsSum([i \in 0..0 |-> 0], n, 0)
    BY DEF IsSum
  <2>. QED
    BY <2>1
<1>2. ASSUME NEW k \in 0..(L - 1), k \in S PROVE k + 1 \in S
  <2>1. PICK e : IsSum(e, n, k)
    BY <1>2
  <2>. DEFINE next == e[k] + n[k + 1]
              g == [i \in 0..(k + 1) |-> IF i <= k THEN e[i] ELSE next]
  <2>2. ASSUME NEW i \in 0..(k + 1), i # 0 PROVE g[i] = g[i - 1] + n[i]
    <3>1. CASE i <= k
      <4>1. i - 1 \in 0..(k + 1) /\ i - 1 <= k /\ g[i] = e[i] /\ g[i - 1] = e[i - 1]
        BY <2>2, <3>1
      <4>2. i \in 0..k /\ i # 0
        BY <2>2, <3>1
      <4>3. e[i] = e[i - 1] + n[i]
        BY <2>1, <4>2 DEF IsSum
      <4>. QED
        BY <4>1, <4>3
    <3>2. CASE i = k + 1
      <4>1. i - 1 = k /\ k \in 0..(k + 1) /\ g[i] = next /\ g[k] = e[k]
        BY <3>2
      <4>. QED
        BY <3>2, <4>1
    <3>3. i <= k \/ i = k + 1
      OBVIOUS
    <3>. HIDE DEF g
    <3>. QED
      BY <3>1, <3>2, <3>3
  <2>3. g[0] = 0
    BY <2>1 DEF IsSum
  <2>4. g = [i \in 0..(k + 1) |-> IF i = 0 THEN 0 ELSE g[i - 1] + n[i]]
    BY <2>2, <2>3
  <2>. HIDE DEF g
  <2>5. IsSum(g, n, k + 1)
    BY <2>4 DEF IsSum
  <2>. QED
    BY <2>5
<1>. HIDE DEF S
<1>3. 0..L \subseteq S
  BY <1>1, <1>2, InductionTo
<1>. QED
  BY <1>3 DEF S

LEMMA EndsAre ==
  ASSUME NEW n \in Seq(Nat)
  PROVE  /\ Ends(n)[0] = 0
         /\ \A i \in 1..Len(n) : Ends(n)[i] = Ends(n)[i - 1] + n[i]
         /\ \A i \in 0..Len(n) : Ends(n)[i] \in Nat
<1>. DEFINE L == Len(n)
            e == Ends(n)
            S == {i \in 0..L : e[i] \in Nat}
<1>1. L \in Nat /\ \A i \in 1..L : n[i] \in Nat
  OBVIOUS
<1>2. e = CHOOSE x : IsSum(x, n, L)
  BY DEF Ends, IsSum
<1>3. \E x : IsSum(x, n, L)
  BY <1>1, SumIsDefined
<1>4. IsSum(e, n, L)
  BY <1>2, <1>3
<1>. HIDE DEF e, L
<1>5. e[0] = 0 /\ \A i \in 1..L : e[i] = e[i - 1] + n[i]
  <2>1. 0 \in 0..L /\ \A i \in 1..L : i \in 0..L /\ i # 0
    BY <1>1
  <2>2. e = [i \in 0..L |-> IF i = 0 THEN 0 ELSE e[i - 1] + n[i]]
    BY <1>4 DEF IsSum
  <2>3. \A i \in 0..L : e[i] = IF i = 0 THEN 0 ELSE e[i - 1] + n[i]
    BY <2>2
  <2>. QED
    BY <2>1, <2>3
<1>6. 0 \in S
  BY <1>1, <1>5
<1>7. ASSUME NEW k \in 0..(L - 1), k \in S PROVE k + 1 \in S
  <2>1. k + 1 \in 1..L /\ (k + 1) - 1 = k /\ k + 1 \in 0..L
    BY <1>1
  <2>2. e[k + 1] = e[k] + n[k + 1] /\ e[k] \in Nat /\ n[k + 1] \in Nat
    BY <1>1, <1>5, <1>7, <2>1
  <2>. QED
    BY <2>1, <2>2
<1>8. 0..L \subseteq S
  <2>. HIDE DEF S
  <2>. QED
    BY <1>1, <1>6, <1>7, InductionTo
<1>. QED
  BY <1>5, <1>8 DEF e, L

LEMMA EndsGrow ==
  ASSUME NEW n \in Seq(Nat), NEW i \in 0..Len(n), NEW j \in i..Len(n)
  PROVE  Ends(n)[i] <= Ends(n)[j]
<1>. DEFINE L == Len(n)
            e == Ends(n)
            S == {k \in 0..L : i <= k => e[i] <= e[k]}
<1>1. /\ L \in Nat /\ \A k \in 1..L : n[k] \in Nat
      /\ \A k \in 1..L : e[k] = e[k - 1] + n[k]
      /\ \A k \in 0..L : e[k] \in Nat
  BY EndsAre
<1>. HIDE DEF e
<1>2. i \in 0..L /\ j \in 0..L /\ i <= j
  BY <1>1
<1>. HIDE DEF L
<1>3. 0 \in S
  BY <1>1, <1>2
<1>4. ASSUME NEW k \in 0..(L - 1), k \in S PROVE k + 1 \in S
  <2>1. k + 1 \in 1..L /\ (k + 1) - 1 = k /\ k + 1 \in 0..L /\ k \in 0..L
    BY <1>1
  <2>2. e[k + 1] = e[k] + n[k + 1] /\ e[k] \in Nat /\ n[k + 1] \in Nat /\ e[i] \in Nat /\ e[k + 1] \in Nat
    BY <1>1, <1>2, <2>1
  <2>3. CASE i <= k
    BY <1>2, <1>4, <2>1, <2>2, <2>3
  <2>4. CASE i = k + 1
    BY <2>1, <2>2, <2>4
  <2>5. CASE i > k + 1
    BY <2>1, <2>5
  <2>. QED
    BY <1>2, <2>3, <2>4, <2>5
<1>5. 0..L \subseteq S
  <2>. HIDE DEF S
  <2>. QED
    BY <1>1, <1>3, <1>4, InductionTo
<1>. QED
  BY <1>2, <1>5 DEF e

LEMMA IntervalTo ==
  ASSUME NEW m \in Nat
  PROVE  /\ IsFiniteSet(1..m) /\ Cardinality(1..m) = m
         /\ IsFiniteSet(0..(m - 1)) /\ Cardinality(0..(m - 1)) = m
<1>1. 0 \in Int /\ 1 \in Int /\ m \in Int /\ m - 1 \in Int
  OBVIOUS
<1>2. IsFiniteSet(1..m) /\ Cardinality(1..m) = m
  <2>1. Cardinality(1..m) = IF 1 <= m THEN m - 1 + 1 ELSE 0
    BY <1>1, FS_Interval
  <2>. QED
    BY <1>1, <2>1, FS_Interval
<1>3. IsFiniteSet(0..(m - 1)) /\ Cardinality(0..(m - 1)) = m
  <2>1. Cardinality(0..(m - 1)) = IF 0 <= m - 1 THEN (m - 1) - 0 + 1 ELSE 0
    BY <1>1, FS_Interval
  <2>. QED
    BY <1>1, <2>1, FS_Interval
<1>. QED
  BY <1>2, <1>3

\* A row leaves a token besides its drafts: the CPU's tokens are copied if a row is not of the last step.
LEMMA CopiedForOthers ==
  ASSUME NEW n \in Seq(Nat), NEW k \in Seq(Nat), Len(k) = Len(n), \A i \in 1..Len(n) : k[i] < n[i],
         NEW common \in SUBSET (1..Len(n)), common # 1..Len(n)
  PROVE  Cardinality(common) < Ends(n)[Len(n)] - Ends(k)[Len(n)]
<1>. DEFINE L == Len(n)
            e == Ends(n)
            d == Ends(k)
            S == {i \in 0..L : e[i] - d[i] >= i}
<1>1. /\ L \in Nat /\ \A i \in 1..L : n[i] \in Nat /\ k[i] \in Nat /\ k[i] < n[i]
      /\ e[0] = 0 /\ \A i \in 1..L : e[i] = e[i - 1] + n[i]
      /\ d[0] = 0 /\ \A i \in 1..L : d[i] = d[i - 1] + k[i]
      /\ \A i \in 0..L : e[i] \in Nat /\ d[i] \in Nat
  <2>1. /\ e[0] = 0 /\ \A i \in 1..L : e[i] = e[i - 1] + n[i]
        /\ \A i \in 0..L : e[i] \in Nat
    BY EndsAre
  <2>2. /\ d[0] = 0 /\ \A i \in 1..Len(k) : d[i] = d[i - 1] + k[i]
        /\ \A i \in 0..Len(k) : d[i] \in Nat
    BY EndsAre
  <2>3. L \in Nat /\ Len(k) = L /\ \A i \in 1..L : n[i] \in Nat /\ k[i] \in Nat /\ k[i] < n[i]
    OBVIOUS
  <2>. HIDE DEF e, d, L
  <2>. QED
    BY <2>1, <2>2, <2>3
<1>2. IsFiniteSet(1..L) /\ Cardinality(1..L) = L
  BY <1>1, IntervalTo
<1>3. Cardinality(common) < L /\ Cardinality(common) \in Nat
  <2>1. common \in SUBSET (1..L) /\ common # 1..L
    OBVIOUS
  <2>. HIDE DEF L
  <2>2. IsFiniteSet(common) /\ Cardinality(common) <= L
    BY <1>2, <2>1, FS_Subset
  <2>3. Cardinality(common) # L
    BY <1>2, <2>1, FS_Subset
  <2>4. Cardinality(common) \in Nat
    BY <2>2, FS_CardinalityType
  <2>. QED
    BY <1>1, <2>2, <2>3, <2>4
<1>. HIDE DEF e, d, L
<1>4. 0 \in S
  BY <1>1
<1>5. ASSUME NEW i \in 0..(L - 1), i \in S PROVE i + 1 \in S
  <2>1. i + 1 \in 1..L /\ (i + 1) - 1 = i /\ i + 1 \in 0..L /\ i \in 0..L
    BY <1>1
  <2>2. /\ e[i + 1] = e[i] + n[i + 1] /\ d[i + 1] = d[i] + k[i + 1] /\ k[i + 1] < n[i + 1]
        /\ e[i] \in Nat /\ d[i] \in Nat /\ n[i + 1] \in Nat /\ k[i + 1] \in Nat
    BY <1>1, <2>1
  <2>3. \A a, b, c, x, y \in Nat : x - y >= c /\ b < a => (x + a) - (y + b) >= c + 1
    OBVIOUS
  <2>4. e[i] - d[i] >= i /\ i \in Nat
    BY <1>5, <2>1
  <2>5. e[i + 1] - d[i + 1] >= i + 1
    BY <2>2, <2>3, <2>4, Zenon
  <2>. QED
    BY <2>1, <2>5
<1>6. 0..L \subseteq S
  <2>. HIDE DEF S
  <2>. QED
    BY <1>1, <1>4, <1>5, InductionTo
<1>7. e[L] - d[L] >= L /\ e[L] \in Nat /\ d[L] \in Nat
  BY <1>1, <1>6
<1>. QED
  BY <1>1, <1>3, <1>7 DEF e, d, L

LEMMA LargestOfSet ==
  ASSUME NEW S, NEW b \in Nat, S \subseteq 0..b, S # {}
  PROVE  Max(S) \in S /\ \A x \in S : Max(S) >= x
<1>. DEFINE T == {b - x : x \in S}
<1>0. \A x \in S : x \in 0..b /\ b - x \in Nat
  OBVIOUS
<1>1. T \in SUBSET Nat /\ T # {}
  BY <1>0
<1>2. PICK t \in T : \A u \in T : t <= u
  BY <1>1, SmallestOfSet
<1>3. PICK m \in S : t = b - m
  BY <1>2
<1>4. \A x \in S : m >= x
  <2>. TAKE x \in S
  <2>1. b - m <= b - x /\ m \in 0..b /\ x \in 0..b
    BY <1>2, <1>3
  <2>. QED
    BY <2>1
<1>. QED
  BY <1>3, <1>4 DEF Max

\* The slice: if the rows of the last step end at 0, 1, ..., they are the first rows, of one token each.
LEMMA SliceIsRows ==
  ASSUME NEW n \in Seq(Nat), \A i \in 1..Len(n) : n[i] > 0,
         NEW common \in SUBSET (1..Len(n)), common # {},
         NEW flat, flat = {Ends(n)[i] - 1 : i \in common},
         Max(flat) = Cardinality(common) - 1,
         NEW i \in 1..Len(n), NEW j \in 1..n[i]
  PROVE  /\ Ends(n)[i] - 1 - n[i] + j < Cardinality(common) <=> i \in common
         /\ i \in common => n[i] = 1
<1>. DEFINE L == Len(n)
            e == Ends(n)
            m == Cardinality(common)
<1>1. /\ L \in Nat /\ \A x \in 1..L : n[x] \in Nat /\ n[x] > 0
      /\ \A x \in 1..L : e[x] = e[x - 1] + n[x]
      /\ \A x \in 0..L : e[x] \in Nat
  BY EndsAre
<1>2. \A x \in 0..L, y \in 0..L : x <= y => e[x] <= e[y]
  BY <1>1, EndsGrow
<1>3. IsFiniteSet(1..L)
  BY <1>1, FS_Interval
<1>4. IsFiniteSet(common) /\ m \in Nat
  BY <1>3, FS_Subset, FS_CardinalityType
<1>. HIDE DEF e, L, m
<1>5. flat = {e[x] - 1 : x \in common} /\ Max(flat) = m - 1 /\ common \subseteq 1..L
  BY DEF e, L, m
<1>6. \A x \in common : x \in 1..L /\ x \in 0..L /\ x - 1 \in 0..L /\ e[x] \in Nat /\ e[x] >= 1 /\ e[x] <= e[L]
  <2>. TAKE x \in common
  <2>1. x \in 1..L /\ x \in 0..L /\ x - 1 \in 0..L /\ L \in 0..L /\ x <= L
    BY <1>1, <1>5
  <2>2. e[x] = e[x - 1] + n[x] /\ e[x - 1] \in Nat /\ n[x] \in Nat /\ n[x] > 0 /\ e[x] \in Nat /\ e[x] <= e[L]
    BY <1>1, <1>2, <2>1
  <2>. QED
    BY <2>1, <2>2
<1>7. flat \subseteq 0..e[L] /\ flat # {} /\ e[L] \in Nat
  <2>1. \A x \in common : e[x] - 1 \in 0..e[L]
    <3>. TAKE x \in common
    <3>1. L \in 0..L
      BY <1>1
    <3>2. e[L] \in Nat /\ e[x] \in Nat /\ e[x] >= 1 /\ e[x] <= e[L]
      BY <1>1, <1>6, <3>1
    <3>. QED
      BY <3>2
  <2>2. e[L] \in Nat
    BY <1>1
  <2>. QED
    BY <1>5, <2>1, <2>2
<1>8. \A x \in flat : x <= m - 1
  BY <1>5, <1>7, LargestOfSet
<1>9. \A x, y \in 1..L : x < y => e[x] <= e[y] - n[y] /\ e[x] < e[y]
  <2>. TAKE x, y \in 1..L
  <2>. HAVE x < y
  <2>1. x \in 0..L /\ y \in 0..L /\ y - 1 \in 0..L /\ x <= y - 1
    BY <1>1
  <2>2. e[x] <= e[y - 1] /\ e[y] = e[y - 1] + n[y]
    BY <1>1, <1>2, <2>1
  <2>3. e[x] \in Nat /\ e[y - 1] \in Nat /\ e[y] \in Nat
    BY <1>1, <2>1
  <2>4. n[y] \in Nat /\ n[y] > 0
    BY <1>1
  <2>5. \A a, b, c, d \in Nat : a <= b /\ d = b + c /\ c > 0 => a <= d - c /\ a < d
    OBVIOUS
  <2>. QED
    BY <2>2, <2>3, <2>4, <2>5, Zenon
<1>10. flat = 0..(m - 1)
  <2>. DEFINE f == [x \in common |-> e[x] - 1]
  <2>1. flat \in SUBSET (0..(m - 1))
    <3>. SUFFICES ASSUME NEW t \in flat PROVE t \in 0..(m - 1)
      OBVIOUS
    <3>1. t \in 0..e[L] /\ e[L] \in Nat
      BY <1>7
    <3>2. t \in Nat
      BY <3>1
    <3>3. t <= m - 1
      BY <1>8
    <3>. QED
      BY <1>4, <3>2, <3>3
  <2>2. \A x, y \in common : x # y => e[x] - 1 # e[y] - 1
    <3>. TAKE x, y \in common
    <3>. HAVE x # y
    <3>1. x \in 1..L /\ y \in 1..L /\ e[x] \in Nat /\ e[y] \in Nat
      BY <1>6
    <3>2. x < y \/ y < x
      BY <1>1, <3>1
    <3>3. e[x] < e[y] \/ e[y] < e[x]
      BY <1>9, <3>1, <3>2
    <3>4. \A a, b \in Nat : a < b \/ b < a => a - 1 # b - 1
      OBVIOUS
    <3>. QED
      BY <3>1, <3>3, <3>4, Zenon
  <2>3. f \in Bijection(common, flat)
    <3>1. f \in [common -> flat] /\ \A t \in flat : \E x \in common : f[x] = t
      BY <1>5
    <3>2. \A x, y \in common : f[x] = f[y] => x = y
      BY <2>2
    <3>. QED
      BY <3>1, <3>2 DEF Bijection, Injection, Surjection, IsInjective
  <2>4. Cardinality(flat) = m
    BY <1>4, <2>3, FS_Bijection DEF ExistsBijection, m
  <2>5. IsFiniteSet(0..(m - 1)) /\ Cardinality(0..(m - 1)) = m
    BY <1>4, IntervalTo
  <2>. QED
    BY <2>1, <2>4, <2>5, FS_Subset
<1>11. ASSUME NEW x \in 1..n[i], e[i] - 1 - n[i] + x < m
       PROVE  i \in common /\ x = n[i]
  <2>. DEFINE at == e[i] - 1 - n[i] + x
  <2>1. i \in 1..L /\ i - 1 \in 0..L /\ n[i] \in Nat /\ e[i] = e[i - 1] + n[i] /\ e[i - 1] \in Nat /\ e[i] \in Nat
    <3>1. i \in 1..L
      BY DEF L
    <3>2. i - 1 \in 0..L /\ i \in 0..L
      BY <1>1, <3>1
    <3>. QED
      BY <1>1, <3>1, <3>2
  <2>0. x \in Nat /\ x >= 1 /\ x <= n[i]
    BY <2>1
  <2>10. \A a, b, c, d, l \in Nat :
           b = a + c /\ d >= 1 /\ d <= c /\ b - 1 - c + d < l
           => /\ b - 1 - c + d \in 0..(l - 1)
              /\ b - 1 - c + d >= b - c /\ b - 1 - c + d < b
    OBVIOUS
  <2>2. at \in 0..(m - 1) /\ at >= e[i] - n[i] /\ at < e[i]
    BY <1>4, <1>11, <2>0, <2>1, <2>10, Zenon
  <2>3. PICK y \in common : at = e[y] - 1
    BY <1>5, <1>10, <2>2
  <2>4. y \in 1..L /\ e[y] \in Nat /\ n[y] \in Nat /\ n[y] > 0
    BY <1>1, <1>6
  <2>5. ~(y < i)
    <3>. SUFFICES ASSUME y < i PROVE FALSE
      OBVIOUS
    <3>1. e[y] <= e[i] - n[i]
      BY <1>9, <2>1, <2>4
    <3>2. \A a, b, c \in Nat : a <= b - c => ~(a - 1 >= b - c)
      OBVIOUS
    <3>3. e[y] - 1 >= e[i] - n[i]
      BY <2>2, <2>3
    <3>. QED
      BY <2>1, <2>4, <3>1, <3>2, <3>3, Zenon
  <2>6. ~(i < y)
    <3>. SUFFICES ASSUME i < y PROVE FALSE
      OBVIOUS
    <3>1. e[i] <= e[y - 1] /\ e[y] = e[y - 1] + n[y] /\ e[y - 1] \in Nat
      <4>0. L \in Nat
        BY <1>1
      <4>a. \A a, b \in 1..L : a < b => a \in 0..L /\ b - 1 \in 0..L /\ a <= b - 1
        BY <4>0
      <4>1. i \in 0..L /\ y - 1 \in 0..L /\ i <= y - 1
        BY <2>1, <2>4, <4>a, Zenon
      <4>. QED
        BY <1>1, <1>2, <2>4, <4>1
    <3>2. \A a, b, c, d \in Nat : a <= b /\ d = b + c /\ c > 0 => ~(d - 1 < a)
      OBVIOUS
    <3>3. e[y] - 1 < e[i]
      BY <2>2, <2>3
    <3>. QED
      BY <2>1, <2>4, <3>1, <3>2, <3>3, Zenon
  <2>7. y = i
    BY <1>1, <2>1, <2>4, <2>5, <2>6
  <2>8. e[i] - 1 - n[i] + x = e[i] - 1
    BY <2>3, <2>7
  <2>. HIDE DEF at
  <2>. QED
    BY <2>0, <2>1, <2>3, <2>7, <2>8
<1>12. i \in common => e[i] - 1 <= m - 1 /\ e[i] \in Nat
  BY <1>5, <1>6, <1>8
<1>13. n[i] \in Nat /\ n[i] > 0
  BY <1>1 DEF L
<1>a. \A a, b, l \in Nat : a - 1 <= l - 1 /\ b > 0 => 1 \in 1..b /\ \A c \in 1..b : a - 1 - b + c < l
  OBVIOUS
<1>14. i \in common => e[i] - 1 - n[i] + j < m
  BY <1>4, <1>12, <1>13, <1>a, Zenon
<1>15. ASSUME i \in common PROVE n[i] = 1
  <2>1. 1 \in 1..n[i] /\ e[i] - 1 - n[i] + 1 < m
    BY <1>4, <1>12, <1>13, <1>15, <1>a, Zenon
  <2>. QED
    BY <1>11, <2>1
<1>. QED
  BY <1>11, <1>14, <1>15 DEF e, m

(* -------- the tokens fed ------------------------------------------------------------ *)

\* A row of the last step takes its last sampled token and its drafts from the GPU.
LEMMA FromTheGpu ==
  ASSUME Resting, NEW f \in Planned, NEW free, NEW r \in Scheduled(f), r \in DOMAIN Prev(Output(f, free))
  PROVE  LET at == Prev(Output(f, free))[r]
             s1 == Next1(f, r)
         IN /\ at \in Nat /\ at > 0 /\ gpu.tokens # <<>>
            /\ f[r].n = 1 + f[r].k /\ s1.len = s1.comp + 1 /\ s1.comp \in Nat
            /\ gpu.tokens[at] = Real(r, s1.gen, s1.comp + 1)
            /\ \A x \in 1..NumSpec : gpu.drafts[at][x] \in {Draft(r, s1.gen, s1.comp + 1 + x), Zero}
<1>. DEFINE at == prevIndex[r]
            s == sched[r]
            s1 == Next1(f, r)
<1>1. r \in Reqs /\ f[r].n > 0
  BY DEF Scheduled
<1>2. /\ InBatch(Output(f, free)) = {x \in DOMAIN rows : f[x].act = "go"}
      /\ Prev(Output(f, free)) = [x \in DOMAIN prevIndex \cap InBatch(Output(f, free)) |-> prevIndex[x]]
  BY KeptGoOn
<1>3. r \in DOMAIN prevIndex /\ f[r].act = "go" /\ r \in DOMAIN rows /\ Prev(Output(f, free))[r] = at
  BY <1>2
<1>4. /\ s \in Truths /\ Sound(s) /\ s1 \in Truths /\ Settled(s, f[r], s1)
      /\ f[r].n \in Nat /\ f[r].k \in Nat /\ s.st = "running"
  BY <1>1, <1>3, RestFacts
<1>5. OnGpu(r, s, requests[r], at)
  BY <1>3 DEF Resting, AtRest
<1>6. /\ at \in DOMAIN order /\ at \in DOMAIN gpu.tokens /\ s.got > 0
      /\ gpu.tokens[at] = Real(r, s.gen, s.len)
      /\ \A x \in 1..NumSpec : gpu.drafts[at][x] \in {Draft(r, s.gen, s.len + x), Zero}
  BY <1>5 DEF OnGpu
<1>7. order \in Seq(Reqs)
  BY DEF Resting, Tables
<1>8. at \in Nat /\ at > 0 /\ gpu.tokens # <<>>
  BY <1>6, <1>7
<1>. HIDE DEF at, s, s1
<1>9. s.comp \in Nat /\ s.len \in Nat /\ s1.comp \in Nat /\ s1.len \in Nat
  BY <1>4 DEF Truths
<1>10. s1.gen = s.gen /\ s1.len = s.len /\ s1.comp = s.comp /\ s.comp = s.len - 1
  BY <1>3, <1>4, <1>6 DEF Settled, Sound
<1>11. s1.len = s1.comp + 1 /\ s.len = s1.comp + 1
  BY <1>9, <1>10
<1>12. f[r].n = 1 + f[r].k
  <2>1. CASE f[r].k > 0
    BY <1>4, <2>1 DEF Settled
  <2>2. CASE f[r].k = 0
    <3>1. s1.comp + f[r].n <= s1.len
      BY <1>1, <1>4, <2>2 DEF Settled
    <3>. QED
      BY <1>1, <1>4, <1>9, <1>11, <2>2, <3>1
  <2>. QED
    BY <1>4, <2>1, <2>2
<1>. QED
  BY <1>3, <1>6, <1>8, <1>9, <1>10, <1>11, <1>12 DEF s1

\* Any other row has every token of its step on the CPU, and no drafts.
LEMMA FromTheCpu ==
  ASSUME Resting, NEW f \in Planned, NEW free, NEW r \in Scheduled(f), r \notin DOMAIN Prev(Output(f, free)),
         NEW j \in 1..f[r].n
  PROVE  LET o == Output(f, free)
             s1 == Next1(f, r)
         IN /\ f[r].k = 0 /\ s1.comp + j <= s1.len
            /\ CpuToken(r, States(o)[r], Rows(o, States(o))[r].comp + j) = Real(r, s1.gen, s1.comp + j)
<1>. DEFINE o == Output(f, free)
            s == sched[r]
            s1 == Next1(f, r)
            q == States(o)[r]
            w == Rows(o, States(o))[r]
            p == s1.comp + j
<1>1. r \in Reqs /\ f[r].n > 0
  BY DEF Scheduled
<1>2. /\ InBatch(o) = {x \in DOMAIN rows : f[x].act = "go"}
      /\ Prev(o) = [x \in DOMAIN prevIndex \cap InBatch(o) |-> prevIndex[x]]
  BY KeptGoOn
<1>3. /\ Asked(s, f[r]) /\ s1 \in Truths /\ Settled(s, f[r], s1)
      /\ f[r].n \in Nat /\ f[r].k \in Nat
      /\ r \notin DOMAIN rows => s.got = 0
  BY <1>1, RestFacts
<1>4. f[r].k = 0
  <2>1. ASSUME f[r].k > 0 PROVE FALSE
    <3>1. f[r].act = "go" /\ s.got > 0 /\ r \in DOMAIN rows
      BY <1>3, <2>1 DEF Asked
    <3>2. r \notin DOMAIN prevIndex
      BY <1>2, <3>1
    <3>. QED
      BY <3>1, <3>2 DEF Resting, AtRest, NotOnGpu
  <2>. QED
    BY <1>3, <2>1
<1>5. AheadOf(f, r) = 0
  <2>1. Correction(o, Prev(o), r) = AheadOf(f, r)
    BY <1>1, CorrectionIsAhead
  <2>. QED
    BY <2>1 DEF Correction
<1>6. /\ PlannedFor(r, s1, AheadOf(f, r), f[r].k, q)
      /\ AllKnown(r, s1, q)
      /\ w.comp = s1.comp + AheadOf(f, r)
  BY ScheduledIsPlanned
<1>. HIDE DEF o, s, s1, q, w
<1>7. s1.comp \in Nat /\ s1.len \in Nat /\ s1.prompt \in Nat /\ j \in Nat /\ j >= 1 /\ j <= f[r].n
  BY <1>3 DEF Truths
<1>8. s1.comp + f[r].n <= s1.len
  BY <1>1, <1>3, <1>4 DEF Settled
<1>9. p <= s1.len /\ p \in Nat /\ p >= 1
  BY <1>3, <1>7, <1>8
<1>10. w.comp + j = p
  BY <1>5, <1>6, <1>7
<1>11. /\ q.gen = s1.gen /\ q.prompt = s1.prompt /\ Len(q.outs) = s1.len - s1.prompt /\ q.outs \in Seq(Tokens)
  BY <1>5, <1>6, <1>7 DEF PlannedFor, ReqStates
<1>. HIDE DEF p
<1>12. CpuToken(r, q, p) = Real(r, s1.gen, p)
  <2>1. CASE p <= s1.prompt
    BY <1>11, <2>1 DEF CpuToken
  <2>2. CASE ~(p <= s1.prompt)
    <3>1. p - s1.prompt <= Len(q.outs) /\ p - s1.prompt \in 1..Len(q.outs)
      BY <1>7, <1>9, <1>11, <2>2
    <3>2. q.outs[p - s1.prompt] = Real(r, s1.gen, s1.prompt + (p - s1.prompt))
      BY <1>6, <1>11, <3>1 DEF AllKnown
    <3>3. s1.prompt + (p - s1.prompt) = p
      BY <1>7, <1>9
    <3>. QED
      BY <1>11, <2>2, <3>1, <3>2, <3>3 DEF CpuToken
  <2>. QED
    BY <2>1, <2>2
<1>. QED
  BY <1>4, <1>9, <1>10, <1>12 DEF p, w, q, o, s1

\* Whatever the order of the rows, and whichever way the tokens come, each row is fed its request's.
LEMMA TokensAreTheRequests ==
  ASSUME Resting, NEW f \in Planned, NEW free, NEW ord \in Orders(Scheduled(f)),
         NEW i \in DOMAIN ord, NEW j \in 1..f[ord[i]].n
  PROVE  LET o == Output(f, free)
             s1 == Next1(f, ord[i])
             p == s1.comp + j
             fed == InputIds(o, ord, Prev(o), States(o), Rows(o, States(o)))[i][j]
         IN IF p <= s1.len THEN fed = Real(ord[i], s1.gen, p) ELSE fed \in {Draft(ord[i], s1.gen, p), Zero}
<1>. DEFINE o == Output(f, free)
            prev == Prev(o)
            st == States(o)
            rws == Rows(o, st)
            pos == PrevPositions(ord, prev)
            n == [x \in DOMAIN ord |-> o.n[ord[x]]]
            k == [x \in DOMAIN ord |-> o.spec[ord[x]]]
            common == {x \in DOMAIN ord : pos[x] > 0}
            drafts == [x \in DOMAIN ord |-> IF x \in common THEN k[x] ELSE 0]
            total == Ends(n)[Len(ord)]
            specs == Ends(drafts)[Len(ord)]
            flat == [x \in DOMAIN ord |-> Ends(n)[x] - 1]
            flats == {flat[x] : x \in common}
            copied == Cardinality(common) < total - specs
            slice == /\ \A x \in common : pos[x] - 1 = flat[x]
                     /\ common # {} /\ Max(flats) = Cardinality(common) - 1
            known == CpuToken(ord[i], st[ord[i]], rws[ord[i]].comp + j)
            cpu == IF copied THEN known ELSE Unknown
            at == flat[i] - n[i] + j
            sliced == IF at < Cardinality(common) THEN gpu.tokens[at + 1] ELSE cpu
            scattered == IF i \notin common \/ j < n[i] - k[i] THEN cpu
                         ELSE IF j = n[i] - k[i] THEN gpu.tokens[pos[i]]
                         ELSE gpu.drafts[pos[i]][j - (n[i] - k[i])]
            fed == InputIds(o, ord, prev, st, rws)[i][j]
            r == ord[i]
            s1 == Next1(f, r)
            p == s1.comp + j
            G == IF p <= s1.len THEN fed = Real(r, s1.gen, p) ELSE fed \in {Draft(r, s1.gen, p), Zero}
<1>. SUFFICES G
  OBVIOUS
<1>1. /\ ord \in Seq(Reqs) /\ DOMAIN ord = 1..Len(ord) /\ Len(ord) \in Nat
      /\ \A x \in DOMAIN ord : ord[x] \in Scheduled(f)
  <2>1. Scheduled(f) \in SUBSET Reqs
    BY DEF Scheduled
  <2>. QED
    BY <2>1, OrderOfStep
<1>2. \A x \in DOMAIN ord : o.n[ord[x]] = f[ord[x]].n /\ o.spec[ord[x]] = f[ord[x]].k
  <2>. TAKE x \in DOMAIN ord
  <2>1. SaysOf(o, f, ord[x])
    BY <1>1, OutputIs
  <2>. QED
    BY <2>1 DEF SaysOf
<1>3. \A x \in DOMAIN ord : n[x] = f[ord[x]].n /\ k[x] = f[ord[x]].k
  BY <1>2
<1>4. \A x \in DOMAIN ord : n[x] \in Nat /\ n[x] > 0 /\ k[x] \in Nat /\ k[x] \in 0..NumSpec
  <2>. TAKE x \in DOMAIN ord
  <2>1. ord[x] \in Reqs /\ f[ord[x]].n > 0
    BY <1>1 DEF Scheduled
  <2>2. f[ord[x]] \in PlanType
    BY <2>1, RestFacts
  <2>. QED
    BY <1>3, <2>1, <2>2, RunnerAssumption DEF PlanType
<1>5. \A x \in DOMAIN ord :
        ord[x] \in DOMAIN prev =>
          /\ prev[ord[x]] \in Nat /\ prev[ord[x]] > 0 /\ gpu.tokens # <<>>
          /\ f[ord[x]].n = 1 + f[ord[x]].k
  BY <1>1, FromTheGpu
<1>6. \A x \in DOMAIN ord : pos[x] = IF ord[x] \in DOMAIN prev THEN prev[ord[x]] ELSE 0
  BY DEF PrevPositions
<1>7. fed = IF gpu.tokens = <<>> THEN known ELSE IF slice THEN sliced ELSE scattered
  <2>1. j \in 1..n[i]
    BY <1>3
  <2>. QED
    BY <2>1 DEF InputIds
<1>8. ASSUME r \notin DOMAIN prev PROVE known = Real(r, s1.gen, p) /\ p <= s1.len
  BY <1>1, <1>8, FromTheCpu
<1>9. ASSUME r \in DOMAIN prev
      PROVE  /\ s1.len = s1.comp + 1 /\ s1.comp \in Nat
             /\ gpu.tokens[prev[r]] = Real(r, s1.gen, s1.comp + 1)
             /\ \A x \in 1..NumSpec : gpu.drafts[prev[r]][x] \in {Draft(r, s1.gen, s1.comp + 1 + x), Zero}
  BY <1>1, <1>9, FromTheGpu
<1>10. Len(n) = Len(ord) /\ n \in Seq(Nat) /\ Len(drafts) = Len(ord) /\ drafts \in Seq(Nat)
  BY <1>1, <1>4
<1>11. \A x \in 1..Len(n) : drafts[x] = IF x \in common THEN k[x] ELSE 0
  BY <1>1, <1>10
<1>12. flats = {Ends(n)[x] - 1 : x \in common} /\ flat[i] = Ends(n)[i] - 1
  OBVIOUS
<1>13. common \in SUBSET (1..Len(n)) /\ i \in 1..Len(n)
  BY <1>1, <1>10
<1>14. \A x \in DOMAIN ord : x \in common <=> ord[x] \in DOMAIN prev
  BY <1>5, <1>6
<1>. HIDE DEF o, prev, st, rws, pos, n, k, common, drafts, flat, flats, known, fed, s1
<1>15. \A x \in 1..Len(n) : drafts[x] < n[x]
  <2>. TAKE x \in 1..Len(n)
  <2>1. x \in DOMAIN ord
    BY <1>1, <1>10
  <2>2. x \in common => n[x] = 1 + k[x]
    BY <1>3, <1>5, <1>14, <2>1
  <2>. QED
    BY <1>4, <1>11, <2>1, <2>2
<1>16. i \notin common => copied
  <2>1. i \notin common => common # 1..Len(n)
    BY <1>13
  <2>. QED
    BY <1>10, <1>13, <1>15, <2>1, CopiedForOthers
<1>17. CASE r \notin DOMAIN prev
  <2>1. i \notin common
    BY <1>14, <1>17
  <2>2. slice => ~(at < Cardinality(common))
    <3>. SUFFICES ASSUME slice PROVE ~(at < Cardinality(common))
      OBVIOUS
    <3>1. \A x \in 1..Len(n) : n[x] > 0
      BY <1>1, <1>4, <1>10
    <3>2. j \in 1..n[i]
      BY <1>3
    <3>. QED
      BY <1>10, <1>12, <1>13, <2>1, <3>1, <3>2, SliceIsRows
  <2>3. fed = known
    BY <1>7, <1>16, <2>1, <2>2
  <2>. QED
    BY <1>8, <1>17, <2>3
<1>18. CASE r \in DOMAIN prev
  <2>1. i \in common /\ pos[i] = prev[r] /\ prev[r] \in Nat /\ prev[r] > 0 /\ gpu.tokens # <<>> /\ n[i] = 1 + k[i]
    BY <1>3, <1>5, <1>6, <1>14, <1>18
  <2>2. n[i] \in Nat /\ k[i] \in Nat /\ k[i] \in 0..NumSpec /\ j \in 1..n[i] /\ n[i] - k[i] = 1
    BY <1>3, <1>4, <2>1
  <2>3. CASE slice
    <3>1. \A x \in 1..Len(n) : n[x] > 0
      BY <1>1, <1>4, <1>10
    <3>2. Ends(n)[i] - 1 - n[i] + j < Cardinality(common) /\ n[i] = 1
      BY <1>10, <1>12, <1>13, <2>1, <2>2, <2>3, <3>1, SliceIsRows
    <3>3. j = 1
      BY <2>2, <3>2
    <3>4. pos[i] - 1 = flat[i]
      BY <2>1, <2>3
    <3>5. at + 1 = prev[r]
      <4>1. flat[i] = prev[r] - 1
        BY <2>1, <3>4
      <4>. QED
        BY <2>1, <3>2, <3>3, <4>1
    <3>6. at < Cardinality(common)
      BY <1>12, <3>2
    <3>7. fed = gpu.tokens[prev[r]]
      BY <1>7, <2>1, <2>3, <3>5, <3>6
    <3>. QED
      BY <1>9, <1>18, <3>3, <3>7
  <2>4. CASE ~slice
    <3>1. fed = scattered
      BY <1>7, <2>1, <2>4
    <3>2. CASE j = 1
      <4>1. fed = gpu.tokens[prev[r]]
        BY <2>1, <2>2, <3>1, <3>2
      <4>. QED
        BY <1>9, <1>18, <3>2, <4>1
    <3>3. CASE j # 1
      <4>1. fed = gpu.drafts[prev[r]][j - 1] /\ j - 1 \in 1..NumSpec
        BY <2>1, <2>2, <3>1, <3>3, RunnerAssumption
      <4>2. s1.len = s1.comp + 1 /\ s1.comp \in Nat
        BY <1>9, <1>18
      <4>3. s1.comp + 1 + (j - 1) = p /\ ~(p <= s1.len)
        BY <2>2, <3>3, <4>2
      <4>4. fed \in {Draft(r, s1.gen, s1.comp + 1 + (j - 1)), Zero}
        BY <1>9, <1>18, <4>1
      <4>. QED
        BY <4>3, <4>4
    <3>. QED
      BY <3>2, <3>3
  <2>. QED
    BY <2>3, <2>4
<1>. QED
  BY <1>17, <1>18

(* -------- the step launched --------------------------------------------------------- *)

\* The states of the requests once the step is launched, their counts corrected.
LEMMA StateOfStep ==
  ASSUME Resting, NEW f \in Planned, NEW free, NEW r \in Reqs, Next1(f, r).st # "none"
  PROVE  LET o == Output(f, free)
             s1 == Next1(f, r)
             q == Corrected(States(o), o, Prev(o))[r]
         IN /\ q \in ReqStates /\ Of(r, s1, q)
            /\ r \in Scheduled(f) =>
                 /\ q.comp = s1.comp /\ q.draftLen = f[r].k /\ q.blocks = Blocks(s1, 0)
                 /\ Len(q.outs) = s1.len - s1.prompt + AheadOf(f, r)
                 /\ r \notin DOMAIN Prev(o) => AllKnown(r, s1, q)
<1>. DEFINE o == Output(f, free)
            s1 == Next1(f, r)
            q0 == States(o)[r]
            c == Correction(o, Prev(o), r)
            q == Corrected(States(o), o, Prev(o))[r]
            a == AheadOf(f, r)
<1>1. r \in DOMAIN States(o)
  <2>1. DOMAIN States(o) = {x \in Reqs : Next1(f, x).st # "none"}
    BY KeptGoOn
  <2>. QED
    BY <2>1
<1>2. c = a
  BY CorrectionIsAhead
<1>3. /\ s1 \in Truths /\ a \in Nat /\ f[r].n \in Nat
      /\ Asked(sched[r], f[r])
  BY RestFacts
<1>4. r \in Scheduled(f) =>
        /\ PlannedFor(r, s1, a, f[r].k, q0)
        /\ r \notin DOMAIN Prev(o) => AllKnown(r, s1, q0)
  BY ScheduledIsPlanned
<1>5. r \notin Scheduled(f) => q0 \in ReqStates /\ Of(r, s1, q0) /\ a = 0
  <2>. SUFFICES ASSUME r \notin Scheduled(f) PROVE q0 \in ReqStates /\ Of(r, s1, q0) /\ a = 0
    OBVIOUS
  <2>1. q0 \in ReqStates /\ Of(r, s1, q0)
    BY LeftOutIsKept
  <2>2. f[r].n = 0
    BY <1>3 DEF Scheduled
  <2>3. f[r].act # "go"
    BY <1>3, <2>2 DEF Asked
  <2>. QED
    BY <2>1, <2>3 DEF AheadOf, Ahead
<1>. HIDE DEF s1, a
<1>6. q = [q0 EXCEPT !.comp = q0.comp - c]
  BY <1>1 DEF Corrected
<1>. HIDE DEF o, q0, c, q
<1>7. s1.comp \in Nat
  BY <1>3 DEF Truths
<1>8. q0 \in ReqStates /\ q0.comp - c \in Nat /\ (r \in Scheduled(f) => q0.comp - c = s1.comp)
  <2>1. CASE r \in Scheduled(f)
    BY <1>2, <1>3, <1>4, <1>7, <2>1 DEF PlannedFor
  <2>2. CASE r \notin Scheduled(f)
    <3>1. q0.comp \in Nat
      BY <1>5, <2>2 DEF ReqStates
    <3>. QED
      BY <1>2, <1>5, <2>2, <3>1
  <2>. QED
    BY <2>1, <2>2
<1>9. /\ q \in ReqStates /\ q.comp = q0.comp - c
      /\ q.gen = q0.gen /\ q.prompt = q0.prompt /\ q.hash = q0.hash /\ q.outs = q0.outs
      /\ q.blocks = q0.blocks /\ q.draftLen = q0.draftLen
  BY <1>6, <1>8 DEF ReqStates
<1>10. Of(r, s1, q)
  <2>1. Of(r, s1, q0)
    <3>1. CASE r \in Scheduled(f)
      BY <1>4, <3>1 DEF PlannedFor, Of
    <3>. QED
      BY <1>5, <3>1
  <2>. QED
    BY <1>9, <2>1 DEF Of
<1>11. ASSUME r \in Scheduled(f)
       PROVE  /\ q.comp = s1.comp /\ q.draftLen = f[r].k /\ q.blocks = Blocks(s1, 0)
              /\ Len(q.outs) = s1.len - s1.prompt + a
              /\ r \notin DOMAIN Prev(o) => AllKnown(r, s1, q)
  BY <1>4, <1>8, <1>9, <1>11 DEF PlannedFor, AllKnown
<1>. QED
  BY <1>9, <1>10, <1>11 DEF q, s1, o, a

\* The row of a request once the step is launched.
LEMMA RowOfStep ==
  ASSUME Resting, NEW f \in Planned, NEW free, NEW r \in Scheduled(f)
  PROVE  LET o == Output(f, free)
             w == Corrected(Rows(o, States(o)), o, Prev(o))[r]
         IN /\ w \in [comp : Nat, blocks : Seq(Addresses)]
            /\ w.comp = Next1(f, r).comp /\ w.blocks = Blocks(Next1(f, r), 0)
<1>. DEFINE o == Output(f, free)
            s1 == Next1(f, r)
            w0 == Rows(o, States(o))[r]
            c == Correction(o, Prev(o), r)
            w == Corrected(Rows(o, States(o)), o, Prev(o))[r]
            a == AheadOf(f, r)
<1>1. r \in Reqs
  BY DEF Scheduled
<1>2. r \in DOMAIN Rows(o, States(o))
  BY KeptGoOn
<1>3. c = a
  BY <1>1, CorrectionIsAhead
<1>4. s1 \in Truths /\ a \in Nat
  BY <1>1, RestFacts
<1>5. w0 \in [comp : Nat, blocks : Seq(Addresses)] /\ w0.comp = s1.comp + a /\ w0.blocks = Blocks(s1, 0)
  BY ScheduledIsPlanned
<1>6. w = [w0 EXCEPT !.comp = w0.comp - c]
  BY <1>2 DEF Corrected
<1>. HIDE DEF o, s1, w0, c, w, a
<1>7. s1.comp \in Nat
  BY <1>4 DEF Truths
<1>8. w0.comp - c = s1.comp
  BY <1>3, <1>4, <1>5, <1>7
<1>. QED
  BY <1>5, <1>6, <1>7, <1>8 DEF w, o, s1

\* Launched: what Execute leaves, when its step ran or there was nothing to run.
Launched(f, free, ord) ==
  LET o == Output(f, free)
  IN /\ ord \in Orders(Scheduled(f))
     /\ sched' = o.after /\ schedEncoded' = (schedEncoded \ free) \cup o.encode
     /\ requests' = Corrected(States(o), o, Prev(o))
     /\ rows' = Corrected(Rows(o, States(o)), o, Prev(o))
     /\ order' = ord /\ prevIndex' = Prev(o) /\ encoderCache' = Encoded(o)
     /\ DOMAIN gpu' = DOMAIN gpu /\ fault' = {}

LEMMA TablesAreLaunched ==
  ASSUME Resting, NEW f \in Planned, NEW free, NEW ord, Launched(f, free, ord)
  PROVE  Tables' /\ Agree' /\ DOMAIN rows' = Scheduled(f) /\ \A r \in Reqs : sched'[r] = Next1(f, r)
<1>. DEFINE o == Output(f, free)
<1>0. Says(o, f, free)
  BY OutputIs
<1>1. /\ sched' = [r \in Reqs |-> Next1(f, r)]
      /\ o.free = free /\ o.encode = Shown(f) \ (schedEncoded \ free)
  BY <1>0, Zenon DEF Says, Launched
<1>2. DOMAIN States(o) = {r \in Reqs : Next1(f, r).st # "none"}
  BY KeptGoOn
<1>3. DOMAIN Rows(o, States(o)) = Scheduled(f)
  BY KeptGoOn
<1>4. /\ requests' = Corrected(States(o), o, Prev(o))
      /\ rows' = Corrected(Rows(o, States(o)), o, Prev(o))
      /\ schedEncoded' = (schedEncoded \ free) \cup o.encode /\ encoderCache' = Encoded(o)
      /\ order' = ord /\ ord \in Orders(Scheduled(f)) /\ prevIndex' = Prev(o)
      /\ DOMAIN gpu' = DOMAIN gpu /\ fault' = {}
  BY DEF Launched
<1>5. \A r \in Reqs : sched'[r] = Next1(f, r)
  BY <1>1
<1>6. \A r \in Reqs : Next1(f, r) \in Truths /\ Settled(sched[r], f[r], Next1(f, r)) /\ f[r].n \in Nat
  BY RestFacts
<1>7. \A r \in Reqs : Next1(f, r).st # "none" => requests'[r] \in ReqStates /\ Of(r, Next1(f, r), requests'[r])
  BY <1>4, StateOfStep
<1>8. \A r \in Scheduled(f) :
        rows'[r] \in [comp : Nat, blocks : Seq(Addresses)] /\ rows'[r].blocks = Blocks(Next1(f, r), 0)
  BY <1>4, RowOfStep
<1>9. DOMAIN requests' = {r \in Reqs : Next1(f, r).st # "none"}
  BY <1>2, <1>4 DEF Corrected
<1>10. DOMAIN rows' = Scheduled(f)
  BY <1>3, <1>4 DEF Corrected
<1>11. DOMAIN prevIndex' \subseteq DOMAIN prevIndex
  <2>1. Prev(o) = [r \in DOMAIN prevIndex \cap InBatch(o) |-> prevIndex[r]]
    BY KeptGoOn
  <2>. QED
    BY <1>4, <2>1
<1>12. requests' = [r \in DOMAIN requests' |-> requests'[r]] /\ rows' = [r \in DOMAIN rows' |-> rows'[r]]
  BY <1>4 DEF Corrected
<1>13. Tables /\ DOMAIN prevIndex \subseteq Reqs
  BY DEF Resting, Tables
<1>. HIDE DEF o
<1>14. Scheduled(f) \in SUBSET Reqs
  BY DEF Scheduled
<1>15. Tables'
  <2>1. sched' \in [Reqs -> Truths]
    BY <1>1, <1>6
  <2>2. encoderCache' \subseteq Hashes /\ schedEncoded' = encoderCache'
    <3>1. Shown(f) \subseteq Hashes
      <4>1. \A r \in Reqs : Next1(f, r).hash \subseteq Hashes
        BY <1>6 DEF Truths
      <4>. QED
        BY <1>14, <4>1 DEF Shown
    <3>2. schedEncoded = encoderCache /\ encoderCache \subseteq Hashes
      BY <1>13 DEF Tables
    <3>. QED
      BY <1>1, <1>4, <3>1, <3>2 DEF Encoded, Freed
  <2>3. requests' \in [DOMAIN requests' -> ReqStates]
    BY <1>7, <1>9, <1>12
  <2>4. rows' \in [DOMAIN rows' -> [comp : Nat, blocks : Seq(Addresses)]]
    BY <1>8, <1>10, <1>12
  <2>5. DOMAIN requests' = {r \in Reqs : sched'[r].st # "none"}
    BY <1>5, <1>9
  <2>6. order' \in Seq(Reqs) /\ IsInjective(order') /\ DOMAIN rows' = ToSet(order') /\ Len(order') <= Cardinality(Reqs)
    BY <1>4, <1>10, <1>14, OrderOfStep DEF IsInjective
  <2>. QED
    BY <1>4, <1>11, <1>13, <2>1, <2>2, <2>3, <2>4, <2>5, <2>6 DEF Tables, ToSet, IsInjective
<1>16. Agree'
  <2>1. \A r \in Reqs : Sound(sched'[r]) /\ sched'[r].got = 0 /\ sched'[r].rej = 0
    BY <1>5, <1>6 DEF Settled
  <2>2. \A r \in DOMAIN requests' : Of(r, sched'[r], requests'[r])
    BY <1>5, <1>7, <1>9
  <2>3. \A r \in DOMAIN rows' : sched'[r].st = "running" /\ rows'[r].blocks = Blocks(sched'[r], 0)
    <3>. SUFFICES ASSUME NEW r \in Scheduled(f)
                  PROVE  sched'[r].st = "running" /\ rows'[r].blocks = Blocks(sched'[r], 0)
      BY <1>10
    <3>1. r \in Reqs /\ f[r].n > 0
      BY DEF Scheduled
    <3>2. Next1(f, r).st = "running"
      BY <1>6, <3>1 DEF Settled
    <3>. QED
      BY <1>5, <1>8, <3>1, <3>2
  <2>. QED
    BY <2>1, <2>2, <2>3 DEF Agree, Sound, Of, Blocks
<1>. QED
  BY <1>5, <1>10, <1>15, <1>16

\* With nothing scheduled, the batch is empty and nothing of the last step is used again.
LEMMA EmptyIsSafe ==
  ASSUME Resting, step = NoStep, NEW f \in Planned, NEW free,
         sched' = Output(f, free).after, schedEncoded' = (schedEncoded \ free) \cup Output(f, free).encode,
         ExecuteEmpty(Output(f, free))
  PROVE  RunnerInv'
<1>. DEFINE o == Output(f, free)
            st == States(o)
            rws == Rows(o, st)
<1>0. Says(o, f, free)
  BY OutputIs
<1>1. DOMAIN o.n = Scheduled(f) /\ o.free = free /\ o.encode = Shown(f) \ (schedEncoded \ free)
  BY <1>0, Zenon DEF Says
<1>2. /\ DOMAIN o.n = {} /\ requests' = st /\ rows' = rws /\ order' = <<>>
      /\ prevIndex' = Prev(o) /\ encoderCache' = Freed(o)
      /\ gpu' = gpu /\ step' = step /\ fault' = fault
  BY DEF ExecuteEmpty, Prev
<1>3. DOMAIN rws = Scheduled(f)
  BY KeptGoOn
<1>4. DOMAIN st = {r \in Reqs : Next1(f, r).st # "none"}
  BY KeptGoOn
<1>5. Prev(o) = [r \in DOMAIN prevIndex \cap InBatch(o) |-> prevIndex[r]] /\ InBatch(o) \cup DOMAIN o.n = Scheduled(f)
  BY KeptGoOn
<1>6. Scheduled(f) = {}
  BY <1>1, <1>2
<1>7. \A r \in Reqs : Correction(o, Prev(o), r) = 0
  <2>. TAKE r \in Reqs
  <2>1. Correction(o, Prev(o), r) = AheadOf(f, r)
    BY CorrectionIsAhead
  <2>2. Asked(sched[r], f[r]) /\ f[r].n \in Nat
    BY RestFacts
  <2>3. f[r].n = 0
    BY <1>6, <2>2 DEF Scheduled
  <2>4. f[r].act # "go"
    BY <2>2, <2>3 DEF Asked
  <2>. QED
    BY <2>1, <2>4 DEF AheadOf, Ahead
<1>8. \A r \in DOMAIN st : st[r] \in ReqStates
  <2>. TAKE r \in DOMAIN st
  <2>1. r \in Reqs \ Scheduled(f) /\ Next1(f, r).st # "none"
    BY <1>4, <1>6
  <2>. QED
    BY <2>1, LeftOutIsKept
<1>9. Corrected(st, o, Prev(o)) = st
  <2>1. \A q \in ReqStates : [q EXCEPT !.comp = q.comp - 0] = q
    <3>1. \A q \in ReqStates : q.comp - 0 = q.comp
      BY DEF ReqStates
    <3>. QED
      BY <3>1 DEF ReqStates
  <2>2. st = [r \in DOMAIN st |-> st[r]]
    BY DEF States
  <2>. HIDE DEF st, o
  <2>3. \A r \in DOMAIN st : [st[r] EXCEPT !.comp = @ - Correction(o, Prev(o), r)] = st[r]
    BY <1>4, <1>7, <1>8, <2>1
  <2>. QED
    BY <2>2, <2>3 DEF Corrected
<1>10. Corrected(rws, o, Prev(o)) = rws
  <2>1. rws = [r \in DOMAIN rws |-> rws[r]]
    BY DEF Rows
  <2>. HIDE DEF rws, o
  <2>2. DOMAIN rws = {}
    BY <1>3, <1>6
  <2>. QED
    BY <2>1, <2>2 DEF Corrected
<1>11. <<>> \in Orders(Scheduled(f))
  <2>1. Cardinality({}) = 0
    BY FS_EmptySet
  <2>. QED
    BY <1>6, <2>1 DEF Orders
<1>12. o.encode = {}
  BY <1>1, <1>6 DEF Shown
<1>13. fault = {}
  BY DEF Resting, Tables
<1>. HIDE DEF st, rws
<1>14. Launched(f, free, <<>>)
  <2>1. encoderCache' = Encoded(o)
    BY <1>2, <1>12 DEF Encoded
  <2>. QED
    BY <1>2, <1>9, <1>10, <1>11, <1>13, <2>1 DEF Launched, st, rws
<1>15. Tables' /\ Agree' /\ DOMAIN rows' = {}
  BY <1>6, <1>14, TablesAreLaunched
<1>16. DOMAIN prevIndex' = {}
  BY <1>2, <1>5, <1>6
<1>17. AtRest'
  BY <1>15, <1>16 DEF AtRest
<1>. QED
  BY <1>2, <1>15, <1>17 DEF RunnerInv, NoStep

\* A request in the step that is launched.
LEMMA LaunchedInFlight ==
  ASSUME Resting, NEW f \in Planned, NEW free, NEW ord, Launched(f, free, ord), NEW r \in Scheduled(f),
         step'.n = Output(f, free).n, step'.spec = Output(f, free).spec,
         step'.outputs[r] = Output(f, free).data[r].outputs
  PROVE  InFlightOf(r, sched[r], requests[r])'
<1>. DEFINE o == Output(f, free)
            s1 == Next1(f, r)
            a == AheadOf(f, r)
<1>1. r \in Reqs /\ f[r].n > 0
  BY DEF Scheduled
<1>2. /\ s1 \in Truths /\ Settled(sched[r], f[r], s1) /\ a \in Nat /\ f[r].n \in Nat /\ f[r].k \in Nat
  BY <1>1, RestFacts
<1>3. SaysOf(o, f, r)
  BY OutputIs
<1>4. o.n[r] = f[r].n /\ o.spec[r] = f[r].k /\ o.data[r].outputs = s1.len - s1.prompt + a
  BY <1>3, Zenon DEF SaysOf
<1>5. sched'[r] = s1
  BY <1>1, TablesAreLaunched
<1>6. s1.st # "none"
  BY <1>1, <1>2 DEF Settled
<1>7. /\ requests'[r].comp = s1.comp /\ requests'[r].draftLen = f[r].k
      /\ Len(requests'[r].outs) = s1.len - s1.prompt + a
      /\ r \notin DOMAIN Prev(o) => AllKnown(r, s1, requests'[r])
  BY <1>1, <1>6, StateOfStep DEF Launched
<1>8. rows'[r].comp = s1.comp
  BY RowOfStep DEF Launched
<1>9. Overlaps(s1.comp, o.n[r]) => s1.hash \cap encoderCache' # {}
  BY ImagesAreThere DEF Launched
<1>10. r \in DOMAIN Prev(o) => s1.len = s1.comp + 1
  BY FromTheGpu
<1>. HIDE DEF o, s1, a
<1>11. s1.comp \in Nat /\ s1.len \in Nat /\ s1.prompt \in Nat /\ s1.got = 0 /\ s1.rej = 0
  BY <1>2 DEF Truths, Settled
<1>12. step'.n[r] = f[r].n /\ step'.spec[r] = f[r].k /\ step'.outputs[r] = s1.len - s1.prompt + a
  BY <1>4 DEF o
<1>13. IF f[r].k > 0 THEN f[r].n = f[r].k + 1 /\ s1.comp = s1.len - 1 ELSE s1.comp + f[r].n <= s1.len
  BY <1>1, <1>2 DEF Settled
<1>14. s1.len - s1.prompt + a >= s1.len - s1.prompt
  BY <1>2, <1>11
<1>15. s1.comp + f[r].n < s1.len => AllKnown(r, s1, requests'[r])
  BY <1>1, <1>2, <1>7, <1>10, <1>11
<1>. QED
  BY <1>1, <1>2, <1>4, <1>5, <1>7, <1>8, <1>9, <1>11, <1>12, <1>13, <1>14, <1>15
  DEF InFlightOf, Overlaps, AllKnown

\* A row of the step launched: its position, whether it samples, its tokens.
LEMMA RowsOfStep ==
  ASSUME Resting, NEW f \in Planned, NEW free, NEW ord \in Orders(Scheduled(f)), NEW i \in DOMAIN ord
  PROVE  LET o == Output(f, free)
             r == ord[i]
         IN /\ r \in Reqs /\ r \in Scheduled(f) /\ o.n[r] = f[r].n
            /\ DiscardMask(o, ord, States(o), Rows(o, States(o)))[i]
                 <=> Next1(f, r).comp + f[r].n < Next1(f, r).len
<1>. DEFINE o == Output(f, free)
            r == ord[i]
            s1 == Next1(f, r)
            q == States(o)[r]
            w == Rows(o, States(o))[r]
            a == AheadOf(f, r)
            d == DiscardMask(o, ord, States(o), Rows(o, States(o)))[i]
<1>1. Scheduled(f) \in SUBSET Reqs
  BY DEF Scheduled
<1>2. r \in Scheduled(f) /\ r \in Reqs
  BY <1>1, OrderOfStep
<1>3. SaysOf(o, f, r)
  BY <1>2, OutputIs
<1>4. o.n[r] = f[r].n
  BY <1>3, Zenon DEF SaysOf
<1>5. PlannedFor(r, s1, a, f[r].k, q) /\ w.comp = s1.comp + a
  BY <1>2, ScheduledIsPlanned
<1>6. s1 \in Truths /\ a \in Nat /\ f[r].n \in Nat
  BY <1>2, RestFacts
<1>7. d <=> w.comp + o.n[r] < q.prompt + Len(q.outs)
  BY DEF DiscardMask
<1>. HIDE DEF o, s1, q, w, a, d
<1>8. s1.comp \in Nat /\ s1.len \in Nat /\ s1.prompt \in Nat
  BY <1>6 DEF Truths
<1>9. q.prompt = s1.prompt /\ Len(q.outs) = s1.len - s1.prompt + a
  BY <1>5 DEF PlannedFor
<1>a. \A c, b, n, p, l \in Nat : (c + b) + n < p + (l - p + b) <=> c + n < l
  OBVIOUS
<1>b. d <=> (s1.comp + a) + f[r].n < s1.prompt + (s1.len - s1.prompt + a)
  BY <1>4, <1>5, <1>7, <1>9, Zenon
<1>10. d <=> s1.comp + f[r].n < s1.len
  BY <1>6, <1>8, <1>a, <1>b
<1>. QED
  BY <1>2, <1>4, <1>10 DEF o, d, s1

\* A step that is launched is in flight with what its requests have.
LEMMA StepIsSafe ==
  ASSUME Resting, NEW f \in Planned, NEW free,
         sched' = Output(f, free).after, schedEncoded' = (schedEncoded \ free) \cup Output(f, free).encode,
         ExecuteStep(Output(f, free))
  PROVE  RunnerInv'
<1>. DEFINE o == Output(f, free)
            st == States(o)
            rws == Rows(o, st)
            prev == Prev(o)
            drafts == PrevDrafts(o, prev)
<1>0. Says(o, f, free)
  BY OutputIs
<1>1. DOMAIN o.n = Scheduled(f)
  BY <1>0, Zenon DEF Says
<1>2. DOMAIN o.n # {} /\ InBatch(o) \cup DOMAIN o.n = Scheduled(f) /\ o.resumed \cap InBatch(o) = {}
  BY KeptGoOn DEF ExecuteStep
<1>3. PICK ord \in Orders(Scheduled(f)) :
        /\ order' = ord /\ prevIndex' = prev /\ encoderCache' = Encoded(o)
        /\ step' = [order |-> ord, n |-> o.n, spec |-> o.spec,
                    inputs |-> InputIds(o, ord, prev, st, rws),
                    discard |-> DiscardMask(o, ord, st, rws),
                    longest |-> Max({rws[r].comp + o.n[r] : r \in DOMAIN o.n}),
                    outputs |-> [r \in DOMAIN o.n |-> o.data[r].outputs]]
        /\ \E read \in CountsRead(o, prev, rws) :
             gpu' = [gpu EXCEPT !.computed = GpuComputed(ord, prev, drafts, read)]
        /\ requests' = Corrected(st, o, prev) /\ rows' = Corrected(rws, o, prev)
        /\ fault' = IF o.resumed \cap InBatch(o) # {} THEN {"assert req_index is None"}
                    ELSE IF \E r \in DOMAIN o.n : CacheMiss(st[r], o.n[r], 0, Encoded(o))
                         THEN {"Encoder cache miss"} ELSE {}
  BY <1>2, Zenon DEF ExecuteStep, Prev
<1>4. fault' = {}
  <2>1. \A r \in DOMAIN o.n : ~CacheMiss(st[r], o.n[r], 0, Encoded(o))
    BY <1>1, ImagesAreThere
  <2>. HIDE DEF o, st
  <2>. QED
    BY <1>2, <1>3, <2>1
<1>5. PICK read \in CountsRead(o, prev, rws) :
        gpu' = [gpu EXCEPT !.computed = GpuComputed(ord, prev, drafts, read)]
  BY <1>3
<1>6. "computed" \in DOMAIN gpu
  BY DEF Resting, Tables
<1>7. DOMAIN gpu' = DOMAIN gpu /\ gpu'.computed = GpuComputed(ord, prev, drafts, read)
  BY <1>5, <1>6
<1>8. /\ step'.order = ord /\ step'.n = o.n /\ step'.spec = o.spec
      /\ step'.inputs = InputIds(o, ord, prev, st, rws)
      /\ step'.discard = DiscardMask(o, ord, st, rws)
      /\ step'.outputs = [r \in DOMAIN o.n |-> o.data[r].outputs]
  <2>. HIDE DEF o, st, rws, prev
  <2>. QED
    BY <1>3
<1>9. Launched(f, free, ord)
  BY <1>3, <1>4, <1>7 DEF Launched
<1>10. Tables' /\ Agree' /\ DOMAIN rows' = Scheduled(f) /\ \A r \in Reqs : sched'[r] = Next1(f, r)
  BY <1>9, TablesAreLaunched
<1>11. step' # NoStep
  <2>1. Scheduled(f) \in SUBSET Reqs
    BY DEF Scheduled
  <2>2. ord # <<>>
    BY <1>1, <1>2, <2>1, OrderOfStep
  <2>3. NoStep.order = <<>>
    BY DEF NoStep
  <2>. QED
    BY <1>8, <2>2, <2>3
<1>12. \A r \in DOMAIN rows' : InFlightOf(r, sched[r], requests[r])'
  <2>. SUFFICES ASSUME NEW r \in Scheduled(f) PROVE InFlightOf(r, sched[r], requests[r])'
    BY <1>10 DEF InFlightOf, Overlaps, AllKnown
  <2>1. step'.outputs[r] = o.data[r].outputs
    BY <1>1, <1>8
  <2>. QED
    BY <1>8, <1>9, <2>1, LaunchedInFlight
<1>13. \A i \in DOMAIN ord :
         /\ ord[i] \in Reqs /\ o.n[ord[i]] = f[ord[i]].n
         /\ step'.discard[i] <=> Next1(f, ord[i]).comp + f[ord[i]].n < Next1(f, ord[i]).len
  BY <1>8, RowsOfStep
<1>14. \A i \in DOMAIN ord : gpu'.computed[i] = Next1(f, ord[i]).comp
  BY <1>7, PositionsAreTheRequests
<1>15. \A i \in DOMAIN ord : \A j \in 1..f[ord[i]].n :
         LET s1 == Next1(f, ord[i])
             p == s1.comp + j
             fed == step'.inputs[i][j]
         IN IF p <= s1.len THEN fed = Real(ord[i], s1.gen, p) ELSE fed \in {Draft(ord[i], s1.gen, p), Zero}
  BY <1>8, TokensAreTheRequests
<1>. HIDE DEF o, st, rws, prev, drafts
<1>16. InputsAreTheRequests'
  <2>1. ASSUME NEW ij \in Placed'
        PROVE  LET r == step'.order[ij[1]]
                   p == sched'[r].comp + ij[2]
                   fed == step'.inputs[ij[1]][ij[2]]
               IN IF p <= sched'[r].len THEN fed = Real(r, sched'[r].gen, p)
                  ELSE fed \in {Draft(r, sched'[r].gen, p), Zero}
    <3>1. PICK i \in DOMAIN ord : ij \in {i} \X (1..step'.n[ord[i]])
      BY <1>8 DEF Placed
    <3>2. ij[1] = i /\ ij[2] \in 1..f[ord[i]].n /\ step'.order[ij[1]] = ord[i] /\ sched'[ord[i]] = Next1(f, ord[i])
      BY <1>8, <1>10, <1>13, <3>1
    <3>. QED
      BY <1>15, <3>2
  <2>. QED
    BY <2>1 DEF InputsAreTheRequests
<1>17. PositionsAreTrue'
  BY <1>8, <1>10, <1>13, <1>14 DEF PositionsAreTrue
<1>18. SamplesAtTheEnd'
  BY <1>8, <1>10, <1>13 DEF SamplesAtTheEnd
<1>19. order' = step'.order /\ DOMAIN step'.n = DOMAIN rows'
  BY <1>1, <1>3, <1>8, <1>10
<1>20. InFlight'
  BY <1>12, <1>16, <1>17, <1>18, <1>19 DEF InFlight
<1>. QED
  BY <1>10, <1>11, <1>20 DEF RunnerInv

LEMMA ExecuteIsSafe ==
  ASSUME RunnerInv, Execute
  PROVE  RunnerInv'
<1>1. Resting /\ step = NoStep
  BY DEF Execute, RunnerInv, Resting
<1>2. PICK f \in Planned, free \in SUBSET (schedEncoded \ InUse) :
        /\ sched' = Output(f, free).after
        /\ schedEncoded' = (schedEncoded \ free) \cup Output(f, free).encode
        /\ ExecuteEmpty(Output(f, free)) \/ ExecuteStep(Output(f, free))
  BY Zenon DEF Execute
<1>. QED
  BY <1>1, <1>2, EmptyIsSafe, StepIsSafe

(* -------- the step sampled ---------------------------------------------------------- *)

Flying == Tables /\ Agree /\ InFlight /\ step # NoStep

\* Which row of the step is a request's.
LEMMA RowsInFlight ==
  ASSUME Flying
  PROVE  /\ step.order = order /\ order \in Seq(Reqs) /\ DOMAIN step.n = DOMAIN rows
         /\ \A i, j \in DOMAIN order : order[i] = order[j] => i = j
         /\ \A r \in DOMAIN rows : \E i \in DOMAIN order : order[i] = r
         /\ \A i \in DOMAIN order : order[i] \in DOMAIN rows /\ order[i] \in Reqs
         /\ DOMAIN rows \subseteq Reqs /\ DOMAIN rows \subseteq DOMAIN requests
         /\ DOMAIN PrevIndexOfStep = {order[i] : i \in Kept}
<1>1. /\ step.order = order /\ order \in Seq(Reqs) /\ DOMAIN step.n = DOMAIN rows
      /\ IsInjective(order) /\ DOMAIN rows = ToSet(order)
      /\ DOMAIN requests = {r \in Reqs : sched[r].st # "none"}
      /\ \A r \in DOMAIN rows : sched[r].st = "running"
  BY DEF Flying, InFlight, Tables, Agree
<1>2. DOMAIN rows = {order[i] : i \in DOMAIN order}
  BY <1>1 DEF ToSet
<1>3. \A i \in DOMAIN order : order[i] \in Reqs
  BY <1>1
<1>4. DOMAIN PrevIndexOfStep = {order[i] : i \in Kept}
  BY <1>1 DEF PrevIndexOfStep
<1>. QED
  BY <1>1, <1>2, <1>3, <1>4 DEF IsInjective

\* What sampling makes of a request whose chunk ends before its last token.
LEMMA DiscardedRow ==
  ASSUME Flying, NEW acc \in Accepted, NEW i \in DOMAIN order, step.discard[i]
  PROVE  LET r == order[i]
             s == sched[r]
             s2 == Truth(acc)[r]
             q == requests[r]
         IN /\ s2 \in Truths /\ Sound(s2)
            /\ s2 = [s EXCEPT !.comp = s2.comp]
            /\ s2.got = 0 /\ s2.rej = 0 /\ q.draftLen = 0 /\ AllKnown(r, s, q)
            /\ r \notin DOMAIN PrevIndexOfStep
            /\ Len(q.outs) >= s.len - s.prompt
<1>. DEFINE r == order[i]
            s == sched[r]
            s2 == Truth(acc)[r]
            q == requests[r]
            n == step.n[r]
<1>1. /\ step.order = order /\ r \in DOMAIN rows /\ r \in Reqs /\ r \in DOMAIN requests
      /\ DOMAIN step.n = DOMAIN rows
      /\ \A j \in DOMAIN order : order[j] = r => j = i
      /\ DOMAIN PrevIndexOfStep = {order[j] : j \in Kept}
  BY RowsInFlight
<1>2. (CHOOSE x \in DOMAIN step.order : step.order[x] = r) = i
  BY <1>1
<1>3. InFlightOf(r, s, q) /\ s \in Truths /\ Sound(s) /\ s.st = "running" /\ q \in ReqStates
  BY <1>1 DEF Flying, InFlight, Tables, Agree
<1>4. s.comp + n < s.len
  BY <1>1 DEF Flying, InFlight, SamplesAtTheEnd, Running
<1>5. s2 = [s EXCEPT !.comp = s.comp + n - 0]
  <2>1. s2 = TruthOf(acc, r)
    BY <1>1 DEF Truth
  <2>. QED
    BY <1>1, <1>2, <2>1, Zenon DEF TruthOf
<1>6. r \notin DOMAIN PrevIndexOfStep
  BY <1>1 DEF Kept
<1>. HIDE DEF s, s2, q, n, r
<1>7. s.comp \in Nat /\ s.len \in Nat /\ n \in Nat /\ n > 0 /\ q.draftLen \in Nat
  <2>1. s.comp \in Nat /\ s.len \in Nat
    BY <1>3 DEF Truths
  <2>2. n \in Nat \ {0}
    BY <1>3 DEF InFlightOf, n
  <2>3. q.draftLen \in 0..NumSpec /\ NumSpec \in Nat
    BY <1>3, RunnerAssumption DEF ReqStates
  <2>. QED
    BY <2>1, <2>2, <2>3
<1>8. s.comp + n - 0 \in Nat
  BY <1>7
<1>9. s2 \in Truths /\ s2 = [s EXCEPT !.comp = s2.comp] /\ s2.comp = s.comp + n
  BY <1>3, <1>5, <1>7, <1>8 DEF Truths
<1>10. s2.got = 0 /\ s2.rej = 0 /\ Sound(s2)
  <2>1. s.got = 0 /\ s.rej = 0
    BY <1>3 DEF InFlightOf
  <2>2. /\ s2.got = s.got /\ s2.rej = s.rej /\ s2.st = s.st /\ s2.prompt = s.prompt
        /\ s2.hash = s.hash /\ s2.len = s.len
    BY <1>3, <1>9 DEF Truths
  <2>3. s2.comp < s2.len
    BY <1>4, <1>9, <2>2
  <2>. QED
    BY <1>3, <2>1, <2>2, <2>3 DEF Sound
<1>11. q.draftLen = 0 /\ AllKnown(r, s, q) /\ Len(q.outs) >= s.len - s.prompt
  BY <1>3, <1>4, <1>7 DEF InFlightOf, n
<1>. QED
  BY <1>6, <1>9, <1>10, <1>11 DEF s2, q, s, r

\* What sampling makes of a request whose last token was computed.
LEMMA SampledRow ==
  ASSUME Flying, NEW acc \in Accepted, NEW i \in DOMAIN order, ~step.discard[i]
  PROVE  LET r == order[i]
             s == sched[r]
             s2 == Truth(acc)[r]
             q == requests[r]
         IN /\ s2 \in Truths /\ Sound(s2)
            /\ s2.st = s.st /\ s2.gen = s.gen /\ s2.prompt = s.prompt /\ s2.hash = s.hash
            /\ s2.epoch = s.epoch /\ s2.held = s.held
            /\ acc[i] \in Nat /\ s2.len = s.len + acc[i] + 1 /\ s2.len = LastAt(i, acc)
            /\ s2.comp = s.len + acc[i] /\ s2.got = acc[i] + 1 /\ s2.rej = q.draftLen - acc[i]
            /\ q.draftLen > 0 => gpu.computed[i] + (acc[i] + 1) = s2.comp
            /\ r \in DOMAIN PrevIndexOfStep /\ PrevIndexOfStep[r] = i
            /\ Len(q.outs) >= s.len - s.prompt
<1>. DEFINE r == order[i]
            s == sched[r]
            s2 == Truth(acc)[r]
            q == requests[r]
            n == step.n[r]
            k == q.draftLen
            done == s.comp + n - (k - acc[i])
<1>1. /\ step.order = order /\ r \in DOMAIN rows /\ r \in Reqs /\ r \in DOMAIN requests
      /\ DOMAIN step.n = DOMAIN rows
      /\ \A j \in DOMAIN order : order[j] = r => j = i
      /\ DOMAIN PrevIndexOfStep = {order[j] : j \in Kept}
  BY RowsInFlight
<1>2. (CHOOSE x \in DOMAIN step.order : step.order[x] = r) = i
  BY <1>1
<1>3. InFlightOf(r, s, q) /\ s \in Truths /\ Sound(s) /\ s.st = "running" /\ q \in ReqStates
  BY <1>1 DEF Flying, InFlight, Tables, Agree
<1>4. ~(s.comp + n < s.len) /\ gpu.computed[i] = s.comp
  BY <1>1 DEF Flying, InFlight, SamplesAtTheEnd, PositionsAreTrue, Running
<1>5. step.spec[r] = k
  BY <1>3 DEF InFlightOf
<1>6. s2 = [s EXCEPT !.comp = done, !.len = done + 1, !.got = acc[i] + 1, !.rej = k - acc[i]]
  <2>1. s2 = TruthOf(acc, r)
    BY <1>1 DEF Truth
  <2>. QED
    BY <1>1, <1>2, <1>5, <2>1, Zenon DEF TruthOf
<1>7. LastAt(i, acc) = s.comp + n - k + acc[i] + 1
  BY <1>1, <1>5 DEF LastAt
<1>8. acc[i] \in 0..NumSpec /\ acc[i] <= k
  BY <1>1, <1>5 DEF Accepted
<1>9. i \in Kept /\ r \in DOMAIN PrevIndexOfStep
  BY <1>1 DEF Kept
<1>10. PrevIndexOfStep[r] = i
  <2>1. PrevIndexOfStep[r] = CHOOSE x \in Kept : step.order[x] = r
    BY <1>1, <1>9 DEF PrevIndexOfStep
  <2>2. Kept \subseteq DOMAIN order
    BY <1>1 DEF Kept
  <2>. QED
    BY <1>1, <1>9, <2>1, <2>2
<1>. HIDE DEF s, s2, q, n, r, k, done
<1>11. /\ s.comp \in Nat /\ s.len \in Nat /\ s.prompt \in Nat /\ n \in Nat /\ n > 0 /\ k \in 0..NumSpec /\ k \in Nat
       /\ acc[i] \in Nat /\ NumSpec \in Nat
  <2>1. s.comp \in Nat /\ s.len \in Nat /\ s.prompt \in Nat
    BY <1>3 DEF Truths
  <2>2. n \in Nat \ {0}
    BY <1>3 DEF InFlightOf, n
  <2>3. k \in 0..NumSpec
    BY <1>3 DEF ReqStates, k
  <2>4. NumSpec \in Nat
    BY RunnerAssumption
  <2>. QED
    BY <1>8, <2>1, <2>2, <2>3, <2>4
<1>12. IF k > 0 THEN n = k + 1 /\ s.comp = s.len - 1 ELSE s.comp + n <= s.len
  BY <1>3 DEF InFlightOf, n, k
<1>13. done = s.len + acc[i] /\ (k > 0 => s.comp + (acc[i] + 1) = done)
  <2>1. CASE k > 0
    BY <1>11, <1>12, <2>1 DEF done
  <2>2. CASE k = 0
    BY <1>4, <1>8, <1>11, <1>12, <2>2 DEF done
  <2>. QED
    BY <1>11, <2>1, <2>2
<1>14. done \in Nat /\ done + 1 \in Nat /\ acc[i] + 1 \in 0..(NumSpec + 1) /\ k - acc[i] \in 0..NumSpec
  BY <1>8, <1>11, <1>13
<1>15. s2 \in Truths
  <2>. DEFINE a == [s EXCEPT !.comp = done]
              b == [a EXCEPT !.len = done + 1]
              c == [b EXCEPT !.got = acc[i] + 1]
              d == [c EXCEPT !.rej = k - acc[i]]
  <2>1. a \in Truths
    BY <1>3, <1>14, TruthsExcept
  <2>2. b \in Truths
    BY <2>1, <1>14, TruthsExcept
  <2>3. c \in Truths
    BY <2>2, <1>14, TruthsExcept
  <2>4. d \in Truths
    BY <2>3, <1>14, TruthsExcept
  <2>5. s2 = d
    BY <1>6, Zenon
  <2>. QED
    BY <2>4, <2>5
<1>16. /\ s2.comp = done /\ s2.len = done + 1 /\ s2.got = acc[i] + 1 /\ s2.rej = k - acc[i]
       /\ s2.st = s.st /\ s2.gen = s.gen /\ s2.prompt = s.prompt /\ s2.hash = s.hash
       /\ s2.epoch = s.epoch /\ s2.held = s.held
  BY <1>3, <1>6 DEF Truths
<1>17. s2.len = s.len + acc[i] + 1 /\ s2.len = LastAt(i, acc) /\ s2.comp = s.len + acc[i]
  <2>1. LastAt(i, acc) = done + 1
    BY <1>7, <1>11 DEF done
  <2>. QED
    BY <1>11, <1>13, <1>16, <2>1
<1>18. Sound(s2)
  <2>1. s2.len >= s2.prompt + s2.got /\ s2.comp < s2.len /\ s2.comp = s2.len - 1
    <3>1. s.len >= s.prompt
      BY <1>3, <1>11 DEF Sound, InFlightOf
    <3>. QED
      BY <1>11, <1>13, <1>14, <1>16, <3>1
  <2>. QED
    BY <1>3, <1>16, <2>1 DEF Sound
<1>19. k > 0 => gpu.computed[i] + (acc[i] + 1) = s2.comp
  BY <1>4, <1>13, <1>16
<1>20. Len(q.outs) >= s.len - s.prompt
  BY <1>3 DEF InFlightOf
<1>. QED
  BY <1>9, <1>10, <1>11, <1>15, <1>16, <1>17, <1>18, <1>19, <1>20 DEF s2, q, s, r, k

\* The state of a request whose token was sampled: a placeholder for it.
LEMMA PlaceholderIs ==
  ASSUME NEW q \in ReqStates
  PROVE  LET q2 == [q EXCEPT !.outs = Append(@, Unknown)]
         IN /\ q2 \in ReqStates /\ q2.outs = Append(q.outs, Unknown) /\ Len(q2.outs) = Len(q.outs) + 1
            /\ q2.gen = q.gen /\ q2.prompt = q.prompt /\ q2.hash = q.hash /\ q2.blocks = q.blocks
            /\ q2.draftLen = q.draftLen /\ q2.comp = q.comp
            /\ \A x \in DOMAIN q2.outs : (x \in DOMAIN q.outs /\ q2.outs[x] = q.outs[x]) \/ q2.outs[x] = Unknown
<1>. DEFINE outs == Append(q.outs, Unknown)
            q2 == [q EXCEPT !.outs = outs]
<1>1. q.outs \in Seq(Tokens) /\ Unknown \in Tokens
  BY DEF ReqStates, Tokens
<1>2. /\ outs \in Seq(Tokens) /\ Len(outs) = Len(q.outs) + 1
      /\ \A x \in DOMAIN outs : (x \in DOMAIN q.outs /\ outs[x] = q.outs[x]) \/ outs[x] = Unknown
  BY <1>1
<1>. HIDE DEF outs
<1>3. /\ q2 \in ReqStates /\ q2.outs = outs
      /\ q2.gen = q.gen /\ q2.prompt = q.prompt /\ q2.hash = q.hash /\ q2.blocks = q.blocks
      /\ q2.draftLen = q.draftLen /\ q2.comp = q.comp
  BY <1>2 DEF ReqStates
<1>4. q2 = [q EXCEPT !.outs = Append(@, Unknown)]
  BY DEF outs
<1>. HIDE DEF q2
<1>. QED
  BY <1>2, <1>3, <1>4 DEF outs

\* What Agree and AtRest say of a row, once its step was sampled.
LEMMA RowIsSampled ==
  ASSUME Flying, NEW acc \in Accepted, NEW r \in DOMAIN rows
  PROVE  LET s2 == Truth(acc)[r]
             q2 == Placeholders[r]
             g2 == SampledOnGpu(acc)
             i == PrevIndexOfStep[r]
         IN /\ s2 \in Truths /\ Sound(s2) /\ q2 \in ReqStates /\ Of(r, s2, q2)
            /\ s2.st = "running" /\ Blocks(s2, 0) = Blocks(sched[r], 0)
            /\ Len(q2.outs) + q2.draftLen >= s2.len - s2.prompt + s2.rej
            /\ r \in DOMAIN PrevIndexOfStep =>
                 /\ i \in DOMAIN order /\ order[i] = r
                 /\ i \in DOMAIN g2.counts /\ g2.counts[i] = s2.got /\ s2.got > 0
                 /\ i \in DOMAIN g2.tokens /\ g2.tokens[i] = Real(r, s2.gen, s2.len)
                 /\ \A x \in 1..NumSpec : g2.drafts[i][x] \in {Draft(r, s2.gen, s2.len + x), Zero}
                 /\ q2.draftLen = s2.got - 1 + s2.rej
                 /\ q2.draftLen > 0 => g2.computed[i] + g2.counts[i] = s2.comp
            /\ r \notin DOMAIN PrevIndexOfStep => NotOnGpu(r, s2, q2)
<1>. DEFINE s == sched[r]
            s2 == Truth(acc)[r]
            q == requests[r]
            q2 == Placeholders[r]
            g2 == SampledOnGpu(acc)
<1>1. PICK i \in DOMAIN order : order[i] = r
  BY RowsInFlight
<1>2. r \in Reqs /\ r \in DOMAIN requests /\ step.order = order
  BY RowsInFlight
<1>3. /\ s \in Truths /\ q \in ReqStates /\ Of(r, s, q) /\ s.st = "running"
  BY <1>2 DEF Flying, Tables, Agree
<1>4. q2 = IF r \in DOMAIN PrevIndexOfStep THEN [q EXCEPT !.outs = Append(@, Unknown)] ELSE q
  BY <1>2 DEF Placeholders
<1>5. CASE step.discard[i]
  <2>1. /\ s2 \in Truths /\ Sound(s2)
        /\ s2 = [s EXCEPT !.comp = s2.comp]
        /\ s2.got = 0 /\ s2.rej = 0 /\ q.draftLen = 0 /\ AllKnown(r, s, q)
        /\ r \notin DOMAIN PrevIndexOfStep
        /\ Len(q.outs) >= s.len - s.prompt
    BY <1>1, <1>5, DiscardedRow
  <2>2. q2 = q
    BY <1>4, <2>1
  <2>. HIDE DEF s, s2, q, q2
  <2>3. /\ s2.st = s.st /\ s2.gen = s.gen /\ s2.prompt = s.prompt /\ s2.hash = s.hash
        /\ s2.epoch = s.epoch /\ s2.held = s.held /\ s2.len = s.len
    BY <1>3, <2>1 DEF Truths
  <2>4. Blocks(s2, 0) = Blocks(s, 0)
    BY <2>3 DEF Blocks
  <2>5. Of(r, s2, q) /\ AllKnown(r, s2, q)
    BY <1>3, <2>1, <2>3, <2>4 DEF Of, AllKnown
  <2>6. Len(q.outs) + q.draftLen >= s2.len - s2.prompt + s2.rej
    <3>1. s.len \in Nat /\ s.prompt \in Nat /\ q.outs \in Seq(Tokens)
      BY <1>3 DEF Truths, ReqStates
    <3>. QED
      BY <2>1, <2>3, <3>1
  <2>7. NotOnGpu(r, s2, q)
    BY <2>1, <2>5 DEF NotOnGpu
  <2>. QED
    BY <1>3, <2>1, <2>2, <2>3, <2>4, <2>5, <2>6, <2>7 DEF s, s2, q2
<1>6. CASE ~step.discard[i]
  <2>1. /\ s2 \in Truths /\ Sound(s2)
        /\ s2.st = s.st /\ s2.gen = s.gen /\ s2.prompt = s.prompt /\ s2.hash = s.hash
        /\ s2.epoch = s.epoch /\ s2.held = s.held
        /\ acc[i] \in Nat /\ s2.len = s.len + acc[i] + 1 /\ s2.len = LastAt(i, acc)
        /\ s2.comp = s.len + acc[i] /\ s2.got = acc[i] + 1 /\ s2.rej = q.draftLen - acc[i]
        /\ q.draftLen > 0 => gpu.computed[i] + (acc[i] + 1) = s2.comp
        /\ r \in DOMAIN PrevIndexOfStep /\ PrevIndexOfStep[r] = i
        /\ Len(q.outs) >= s.len - s.prompt
    BY <1>1, <1>6, SampledRow
  <2>2. /\ q2 \in ReqStates /\ Len(q2.outs) = Len(q.outs) + 1
        /\ q2.gen = q.gen /\ q2.prompt = q.prompt /\ q2.hash = q.hash /\ q2.blocks = q.blocks
        /\ q2.draftLen = q.draftLen
        /\ \A x \in DOMAIN q2.outs : (x \in DOMAIN q.outs /\ q2.outs[x] = q.outs[x]) \/ q2.outs[x] = Unknown
    <3>1. q2 = [q EXCEPT !.outs = Append(@, Unknown)]
      BY <1>4, <2>1
    <3>. HIDE DEF q, q2
    <3>. QED
      BY <1>3, <3>1, PlaceholderIs
  <2>3. DOMAIN acc = DOMAIN order
    BY <1>2 DEF Accepted
  <2>4. /\ i \in DOMAIN g2.counts /\ g2.counts[i] = acc[i] + 1
        /\ i \in DOMAIN g2.tokens /\ g2.tokens[i] = Real(r, s.gen, LastAt(i, acc))
        /\ \A x \in 1..NumSpec : g2.drafts[i][x] \in {Draft(r, s.gen, LastAt(i, acc) + x), Zero}
        /\ g2.computed[i] = gpu.computed[i]
    BY <1>1, <1>2, <1>6, <2>3 DEF SampledOnGpu
  <2>. HIDE DEF s, s2, q, q2, g2
  <2>5. Blocks(s2, 0) = Blocks(s, 0)
    BY <2>1 DEF Blocks
  <2>6. Of(r, s2, q2)
    BY <1>3, <2>1, <2>2, <2>5 DEF Of
  <2>7. /\ s.len \in Nat /\ s.prompt \in Nat /\ q.outs \in Seq(Tokens) /\ q.draftLen \in Nat
    <3>1. s.len \in Nat /\ s.prompt \in Nat
      BY <1>3 DEF Truths
    <3>2. q.outs \in Seq(Tokens) /\ q.draftLen \in 0..NumSpec
      BY <1>3 DEF ReqStates
    <3>. QED
      BY <3>1, <3>2
  <2>8. Len(q2.outs) + q2.draftLen >= s2.len - s2.prompt + s2.rej
    <3>1. Len(q.outs) \in Nat
      BY <2>7
    <3>2. \A a, b, c, d, e \in Nat : a >= b - c => (a + 1) + d >= (b + e + 1) - c + (d - e)
      OBVIOUS
    <3>3. /\ Len(q2.outs) = Len(q.outs) + 1 /\ q2.draftLen = q.draftLen
          /\ s2.len = s.len + acc[i] + 1 /\ s2.prompt = s.prompt /\ s2.rej = q.draftLen - acc[i]
          /\ Len(q.outs) >= s.len - s.prompt /\ acc[i] \in Nat
      BY <2>1, <2>2
    <3>. QED
      BY <2>7, <3>1, <3>2, <3>3, Zenon
  <2>9. /\ g2.counts[i] = s2.got /\ s2.got > 0
        /\ g2.tokens[i] = Real(r, s2.gen, s2.len)
        /\ \A x \in 1..NumSpec : g2.drafts[i][x] \in {Draft(r, s2.gen, s2.len + x), Zero}
        /\ q2.draftLen = s2.got - 1 + s2.rej
        /\ q2.draftLen > 0 => g2.computed[i] + g2.counts[i] = s2.comp
    <3>1. s2.got > 0
      BY <2>1
    <3>2. q2.draftLen = s2.got - 1 + s2.rej
      BY <2>1, <2>2, <2>7
    <3>. QED
      BY <2>1, <2>2, <2>4, <3>1, <3>2
  <2>. QED
    BY <1>1, <1>3, <2>1, <2>2, <2>4, <2>5, <2>6, <2>8, <2>9 DEF s, s2, q2, g2
<1>. QED
  BY <1>5, <1>6

\* The drafter's look-ahead finds its image.
LEMMA LookAheadFindsImages ==
  ASSUME Flying, NEW r \in DOMAIN step.n
  PROVE  ~CacheMiss(requests[r], step.n[r], 1, encoderCache)
<1>. DEFINE s == sched[r]
            q == requests[r]
            n == step.n[r]
<1>1. r \in DOMAIN rows /\ r \in Reqs /\ r \in DOMAIN requests
  BY RowsInFlight
<1>2. InFlightOf(r, s, q) /\ s \in Truths /\ Of(r, s, q)
  BY <1>1 DEF Flying, InFlight, Tables, Agree
<1>. HIDE DEF s, q, n
<1>3. s.comp \in Nat /\ NumPrompt \in Nat /\ ImageAt \in Nat
  BY <1>2, RunnerAssumption DEF Truths
<1>4. n \in Nat \ {0} /\ q.comp = s.comp /\ q.hash = s.hash
      /\ (Overlaps(s.comp, n) => s.hash \cap encoderCache # {})
  BY <1>2 DEF InFlightOf, Of, n
<1>5. \A c, m \in Nat : Overlaps(c + 1, m) /\ ~(ImageAt - 1 >= c + m) => Overlaps(c, m)
  BY <1>3 DEF Overlaps
<1>. QED
  BY <1>3, <1>4, <1>5 DEF CacheMiss, q, n

LEMMA SampleIsSafe ==
  ASSUME RunnerInv, SampleTokens
  PROVE  RunnerInv'
<1>1. Flying
  BY DEF SampleTokens, RunnerInv, Flying
<1>2. PICK acc \in Accepted : gpu' = SampledOnGpu(acc) /\ sched' = Truth(acc)
  BY DEF SampleTokens
<1>3. /\ prevIndex' = PrevIndexOfStep /\ requests' = Placeholders /\ step' = NoStep
      /\ schedEncoded' = schedEncoded /\ rows' = rows /\ order' = order /\ encoderCache' = encoderCache
      /\ fault' = IF FitsDrafter /\ \E r \in DOMAIN step.n : CacheMiss(requests[r], step.n[r], 1, encoderCache)
                  THEN {"Encoder cache miss"} ELSE {}
  BY DEF SampleTokens
<1>4. fault' = {}
  BY <1>1, <1>3, LookAheadFindsImages
<1>5. /\ step.order = order /\ order \in Seq(Reqs) /\ DOMAIN step.n = DOMAIN rows
      /\ \A i \in DOMAIN order : order[i] \in DOMAIN rows /\ order[i] \in Reqs
      /\ DOMAIN rows \subseteq Reqs /\ DOMAIN rows \subseteq DOMAIN requests
      /\ DOMAIN PrevIndexOfStep = {order[i] : i \in Kept}
  BY <1>1, RowsInFlight
<1>6. Tables /\ Agree
  BY <1>1 DEF Flying
<1>7. \A r \in Reqs \ DOMAIN rows : sched'[r] = sched[r]
  BY <1>2, <1>5 DEF Truth, TruthOf
<1>8. \A r \in DOMAIN requests \ DOMAIN rows : requests'[r] = requests[r]
  <2>1. Kept \subseteq DOMAIN order
    BY <1>5 DEF Kept
  <2>. QED
    BY <1>3, <1>5, <2>1 DEF Placeholders
<1>9. DOMAIN requests' = DOMAIN requests /\ requests' = [r \in DOMAIN requests' |-> requests'[r]]
  BY <1>3 DEF Placeholders
<1>10. \A r \in DOMAIN rows :
         /\ sched'[r] \in Truths /\ Sound(sched'[r]) /\ requests'[r] \in ReqStates
         /\ Of(r, sched'[r], requests'[r])
         /\ sched'[r].st = "running" /\ Blocks(sched'[r], 0) = Blocks(sched[r], 0)
         /\ Len(requests'[r].outs) + requests'[r].draftLen >= sched'[r].len - sched'[r].prompt + sched'[r].rej
         /\ r \notin DOMAIN prevIndex' => NotOnGpu(r, sched'[r], requests'[r])
  BY <1>1, <1>2, <1>3, RowIsSampled
<1>11. \A r \in DOMAIN rows : r \in DOMAIN prevIndex' => OnGpu(r, sched[r], requests[r], prevIndex[r])'
  <2>. SUFFICES ASSUME NEW r \in DOMAIN rows, r \in DOMAIN prevIndex'
                PROVE  OnGpu(r, sched[r], requests[r], prevIndex[r])'
    OBVIOUS
  <2>. DEFINE i == PrevIndexOfStep[r]
  <2>1. LET s2 == Truth(acc)[r]
            q2 == Placeholders[r]
            g2 == SampledOnGpu(acc)
        IN /\ i \in DOMAIN order /\ order[i] = r
           /\ i \in DOMAIN g2.counts /\ g2.counts[i] = s2.got /\ s2.got > 0
           /\ i \in DOMAIN g2.tokens /\ g2.tokens[i] = Real(r, s2.gen, s2.len)
           /\ \A x \in 1..NumSpec : g2.drafts[i][x] \in {Draft(r, s2.gen, s2.len + x), Zero}
           /\ q2.draftLen = s2.got - 1 + s2.rej
           /\ q2.draftLen > 0 => g2.computed[i] + g2.counts[i] = s2.comp
    BY <1>1, <1>3, RowIsSampled
  <2>. QED
    BY <1>2, <1>3, <2>1 DEF OnGpu
<1>12. Tables'
  <2>1. sched' \in [Reqs -> Truths]
    <3>1. \A r \in Reqs : sched'[r] \in Truths
      BY <1>6, <1>7, <1>10 DEF Tables
    <3>2. sched' = [r \in Reqs |-> sched'[r]]
      BY <1>2 DEF Truth
    <3>. QED
      BY <3>1, <3>2
  <2>2. requests' \in [DOMAIN requests' -> ReqStates]
    <3>1. \A r \in DOMAIN requests' : requests'[r] \in ReqStates
      BY <1>6, <1>8, <1>9, <1>10 DEF Tables
    <3>. QED
      BY <1>9, <3>1
  <2>3. \A r \in Reqs : sched'[r].st = sched[r].st
    BY <1>6, <1>7, <1>10 DEF Agree
  <2>4. DOMAIN requests' = {r \in Reqs : sched'[r].st # "none"}
    BY <1>6, <1>9, <2>3 DEF Tables
  <2>5. DOMAIN prevIndex' \subseteq Reqs
    BY <1>3, <1>5 DEF Kept
  <2>6. DOMAIN gpu' = {"tokens", "counts", "drafts", "computed"}
    BY <1>2 DEF SampledOnGpu
  <2>7. /\ encoderCache' \subseteq Hashes /\ schedEncoded' = encoderCache'
        /\ rows' \in [DOMAIN rows' -> [comp : Nat, blocks : Seq(Addresses)]]
        /\ order' \in Seq(Reqs) /\ IsInjective(order') /\ DOMAIN rows' = ToSet(order')
        /\ Len(order') <= Cardinality(Reqs)
    BY <1>3, <1>6 DEF Tables
  <2>. QED
    BY <1>4, <2>1, <2>2, <2>4, <2>5, <2>6, <2>7 DEF Tables, ToSet, IsInjective
<1>13. Agree'
  <2>1. \A r \in Reqs : Sound(sched'[r])
    BY <1>6, <1>7, <1>10 DEF Agree
  <2>2. \A r \in DOMAIN requests' : Of(r, sched'[r], requests'[r])
    <3>1. DOMAIN requests \subseteq Reqs
      BY <1>6 DEF Tables
    <3>. QED
      BY <1>6, <1>7, <1>8, <1>9, <1>10, <3>1 DEF Agree
  <2>3. \A r \in DOMAIN rows' : sched'[r].st = "running" /\ rows'[r].blocks = Blocks(sched'[r], 0)
    BY <1>3, <1>6, <1>10 DEF Agree
  <2>4. \A r \in Reqs \ DOMAIN rows' : sched'[r].got = 0 /\ sched'[r].rej = 0
    BY <1>3, <1>6, <1>7 DEF Agree
  <2>. QED
    BY <2>1, <2>2, <2>3, <2>4 DEF Agree, Sound, Of, Blocks
<1>14. AtRest'
  <2>1. DOMAIN prevIndex' \subseteq DOMAIN rows'
    BY <1>3, <1>5 DEF Kept
  <2>2. \A r \in DOMAIN prevIndex' : OnGpu(r, sched[r], requests[r], prevIndex[r])'
    BY <1>3, <1>11, <2>1
  <2>3. \A r \in DOMAIN rows' \ DOMAIN prevIndex' : NotOnGpu(r, sched'[r], requests'[r])
    BY <1>3, <1>10
  <2>4. \A r \in DOMAIN rows' :
          Len(requests'[r].outs) + requests'[r].draftLen >= sched'[r].len - sched'[r].prompt + sched'[r].rej
    BY <1>3, <1>10
  <2>. QED
    BY <2>1, <2>2, <2>3, <2>4 DEF AtRest, OnGpu, NotOnGpu, AllKnown
<1>. QED
  BY <1>3, <1>12, <1>13, <1>14 DEF RunnerInv, NoStep

(* -------- the theorems ---------------------------------------------------------------- *)

LEMMA InitIsSafe ==
  ASSUME Init
  PROVE  RunnerInv
<1>1. /\ sched = [r \in Reqs |-> Absent(0)] /\ schedEncoded = {} /\ encoderCache = {}
      /\ requests = Empty /\ rows = Empty /\ order = <<>> /\ prevIndex = Empty
      /\ gpu = [tokens |-> <<>>, counts |-> <<>>, drafts |-> <<>>, computed |-> <<>>]
      /\ step = NoStep /\ fault = {}
  BY DEF Init
<1>2. NumSpec \in Nat /\ Cardinality(Reqs) \in Nat
  BY RunnerAssumption, FS_CardinalityType
<1>3. Absent(0) \in Truths /\ Sound(Absent(0)) /\ Absent(0).st = "none" /\ Absent(0).got = 0 /\ Absent(0).rej = 0
  BY <1>2 DEF Absent, Truths, Statuses, Sound
<1>4. DOMAIN Empty = {} /\ \A S : Empty \in [DOMAIN Empty -> S]
  BY DEF Empty
<1>5. DOMAIN gpu = {"tokens", "counts", "drafts", "computed"}
  BY <1>1
<1>6. Tables
  <2>1. \A r \in Reqs : sched[r] = Absent(0)
    BY <1>1
  <2>. QED
    BY <1>1, <1>2, <1>3, <1>4, <1>5, <2>1 DEF Tables, ToSet, IsInjective
<1>7. Agree
  BY <1>1, <1>3, <1>4 DEF Agree
<1>8. AtRest
  BY <1>1, <1>4 DEF AtRest
<1>. QED
  BY <1>1, <1>6, <1>7, <1>8 DEF RunnerInv

\* The inductive invariant: what the runner holds of a request agrees with the scheduler, at rest and in flight.
THEOREM RunnerIsSafe == Spec => []RunnerInv
<1>1. Init => RunnerInv
  BY InitIsSafe
<1>2. RunnerInv /\ [Next]_vars => RunnerInv'
  <2>. SUFFICES ASSUME RunnerInv, [Next]_vars PROVE RunnerInv'
    OBVIOUS
  <2>1. CASE Execute
    BY <2>1, ExecuteIsSafe
  <2>2. CASE SampleTokens
    BY <2>2, SampleIsSafe
  <2>3. CASE UNCHANGED vars
    <3>1. /\ sched' = sched /\ schedEncoded' = schedEncoded /\ requests' = requests /\ rows' = rows
          /\ order' = order /\ encoderCache' = encoderCache /\ prevIndex' = prevIndex /\ gpu' = gpu
          /\ step' = step /\ fault' = fault
      BY <2>3 DEF vars
    <3>2. Tables => Tables'
      BY <3>1 DEF Tables, ToSet, IsInjective
    <3>3. Agree => Agree'
      BY <3>1 DEF Agree, Of, Sound, Blocks
    <3>4. AtRest => AtRest'
      BY <3>1 DEF AtRest, OnGpu, NotOnGpu, AllKnown
    <3>5. InFlight => InFlight'
      <4>1. /\ PositionsAreTrue => PositionsAreTrue'
            /\ SamplesAtTheEnd => SamplesAtTheEnd'
        BY <3>1 DEF PositionsAreTrue, SamplesAtTheEnd, Running
      <4>3. InputsAreTheRequests => InputsAreTheRequests'
        <5>1. Placed' = Placed
          BY <3>1 DEF Placed
        <5>. QED
          BY <3>1, <5>1 DEF InputsAreTheRequests, Running
      <4>2. \A r : InFlightOf(r, sched[r], requests[r]) => InFlightOf(r, sched[r], requests[r])'
        BY <3>1 DEF InFlightOf, AllKnown, Overlaps
      <4>. QED
        BY <3>1, <4>1, <4>2, <4>3 DEF InFlight
    <3>. QED
      BY <3>1, <3>2, <3>3, <3>4, <3>5 DEF RunnerInv
  <2>. QED
    BY <2>1, <2>2, <2>3 DEF Next
<1>. QED
  BY <1>1, <1>2, PTL DEF Spec

LEMMA InvIsBatchInv ==
  ASSUME RunnerInv
  PROVE  BatchInv
<1>1. Tables /\ Agree /\ (Running => InFlight)
  BY DEF RunnerInv, Running
<1>2. NumSpec \in Nat
  BY RunnerAssumption
<1>3. TypeOK
  <2>1. \A r \in DOMAIN requests : requests[r].comp \in Nat /\ requests[r].draftLen \in 0..NumSpec
    BY <1>1 DEF Tables, ReqStates
  <2>2. \A r \in DOMAIN rows : rows[r].comp \in Nat
    BY <1>1 DEF Tables
  <2>3. DOMAIN requests \subseteq Reqs
    BY <1>1 DEF Tables
  <2>. QED
    BY <1>1, <2>1, <2>2, <2>3 DEF TypeOK, Tables, Truths, Statuses
<1>4. BatchIsSchedule
  BY <1>1 DEF BatchIsSchedule, Tables, Agree, Of, InFlight
<1>5. ASSUME Running
      PROVE  \A r \in DOMAIN step.n :
               /\ r \in DOMAIN rows /\ r \in DOMAIN requests /\ sched[r].st = "running"
               /\ Of(r, sched[r], requests[r]) /\ InFlightOf(r, sched[r], requests[r])
               /\ rows[r].blocks = Blocks(sched[r], 0)
  <2>1. Flying
    BY <1>1, <1>5 DEF Flying, Running
  <2>. QED
    BY <1>1, <1>5, <2>1, RowsInFlight DEF Agree, InFlight
<1>6. OutputsAgree
  BY <1>5 DEF OutputsAgree, Of, InFlightOf
<1>7. BlocksAgree
  BY <1>5 DEF BlocksAgree, Of
<1>. QED
  BY <1>3, <1>4, <1>6, <1>7 DEF BatchInv

LEMMA InvIsInputsInv ==
  ASSUME RunnerInv
  PROVE  InputsInv
<1>1. Tables /\ Agree /\ (Running => InFlight)
  BY DEF RunnerInv, Running
<1>2. CorrectedIsTrue
  <2>. SUFFICES ASSUME Running, NEW r \in DOMAIN step.n
                PROVE  requests[r].comp = sched[r].comp /\ rows[r].comp = sched[r].comp
    BY DEF CorrectedIsTrue
  <2>. QED
    BY <1>1 DEF InFlight, InFlightOf
<1>3. NothingRaised
  BY <1>1 DEF NothingRaised, Tables
<1>4. InputsAreTheRequests /\ PositionsAreTrue /\ SamplesAtTheEnd
  <2>1. CASE Running
    BY <1>1, <2>1 DEF InFlight
  <2>2. CASE ~Running
    BY <2>2 DEF InputsAreTheRequests, PositionsAreTrue, SamplesAtTheEnd
  <2>. QED
    BY <2>1, <2>2
<1>. QED
  BY <1>2, <1>3, <1>4 DEF InputsInv

\* BatchInv: the tables of the runner are the scheduler's, in whatever order requests come, leave and come back.
THEOREM BatchIsTheScheduler == Spec => []BatchInv
<1>1. RunnerInv => BatchInv
  BY InvIsBatchInv
<1>. QED
  BY <1>1, RunnerIsSafe, PTL

\* InputsInv: a step is fed its requests' tokens at their true positions, and samples exactly at their ends, for any
\* order of the rows, any drafts accepted, and either order of the copy of the counts and their correction.
THEOREM InputsAreTrue == Spec => []InputsInv
<1>1. RunnerInv => InputsInv
  BY InvIsInputsInv
<1>. QED
  BY <1>1, RunnerIsSafe, PTL
=============================================================================
