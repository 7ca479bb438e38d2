---------------------------- MODULE RunnerBatch ----------------------------
(* The persistent batch of the model runner, gpu_model_runner.py, under the   *)
(* flags the image serves with: --async-scheduling and draft tokens, one      *)
(* pipeline rank.  The scheduler, outside the repository, is one step ahead:  *)
(* it plans a step before it knows the tokens of the last one, and counts     *)
(* every draft as accepted.  The runner feeds the tokens of the last step     *)
(* from the GPU, whatever row their request moved to, and corrects the counts *)
(* afterwards.                                                                *)
(* A token is known by its request, the life of the request's id it belongs   *)
(* to, and its position; sched holds what is true of a request.               *)
EXTENDS Integers, Sequences, FiniteSets, SequencesExt, FiniteSetsExt

CONSTANTS Reqs, Hashes,  \* request ids; identifiers of images
          NumPrompt,     \* tokens of a new prompt
          ImageAt,       \* position of the first token of its image, which ends it
          NumSpec,       \* draft tokens of a step
          Drafted,       \* how many of them a step may be given
          DrafterMax,    \* effective_drafter_max_model_len
          MaxLen,        \* bound: a request with as many tokens is not scheduled again
          MaxEvents      \* bound: requests submitted, and preemptions

ASSUME RunnerAssumption ==
  /\ IsFiniteSet(Reqs)
  /\ NumPrompt \in Nat \ {0} /\ ImageAt \in 1..NumPrompt
  /\ NumSpec \in Nat /\ Drafted \subseteq 1..NumSpec
  /\ {DrafterMax, MaxLen, MaxEvents} \subseteq Nat

VARIABLES
  sched,         \* the scheduler's requests: what is true of them
  schedEncoded,  \* the images the scheduler takes to be in the encoder cache
  requests,      \* self.requests: the cached states
  rows,          \* the rows of self.input_batch, by request id
  order,         \* self.input_batch.req_ids
  encoderCache,  \* self.encoder_cache
  prevIndex,     \* self.input_batch.prev_req_id_to_index
  gpu,           \* what stays on the GPU: sampled tokens, drafts, counts, positions
  step,          \* self.execute_model_state
  fault          \* what the runner raised

vars == <<sched, schedEncoded, requests, rows, order, encoderCache, prevIndex, gpu, step, fault>>

Real(r, gen, p) == <<r, gen, p, "real">>
Draft(r, gen, p) == <<r, gen, p, "draft">>
Zero == <<0>>        \* a zeroed draft
Unknown == <<-1>>    \* the placeholder -1
NoStep == [order |-> <<>>]
Only(f, S) == [x \in DOMAIN f \cap S |-> f[x]]
Min2(a, b) == IF a < b THEN a ELSE b
Max2(a, b) == IF a > b THEN a ELSE b

(* -------- the scheduler: what it may plan, and what it tells the runner ---- *)

(* got and rej: tokens sampled, and drafts rejected, in the step still in      *)
(* flight.                                                                     *)
Absent(gen) == [st |-> "none", gen |-> gen, prompt |-> 0, len |-> 0, comp |-> 0, got |-> 0, rej |-> 0,
                epoch |-> 0, held |-> 0, hash |-> {}]
Submitted(gen, h) == [Absent(gen) EXCEPT !.st = "running", !.prompt = NumPrompt, !.len = NumPrompt, !.hash = h]
Remaining(s) == s.len - s.comp
BlocksFor(tokens) == (tokens + 1) \div 2

Plan(act, n, k, h) == [act |-> act, n |-> n, k |-> k, hash |-> h]
Chunks(rem) == {1, rem}
Events == MapThenSumSet(LAMBDA r : sched[r].gen + sched[r].epoch, Reqs)
Fresh(act) == {Plan(act, n, 0, {h}) : n \in Chunks(NumPrompt), h \in Hashes}
Plans(r) ==
  LET s == sched[r]
      more == s.len < MaxLen
      free == Events < MaxEvents
  IN {Plan("skip", 0, 0, {})}
     \cup {p \in Fresh("submit") : s.st = "none" /\ free}
     \cup {p \in Fresh("resubmit") : s.st = "running" /\ free}
     \cup {p \in {Plan("finish", 0, 0, {})} : s.st # "none"}
     \cup {p \in {Plan("preempt", 0, 0, {})} : s.st = "running" /\ free}
     \cup {p \in {Plan("go", n, 0, {}) : n \in Chunks(Remaining(s))} : s.st = "running" /\ more}
     \cup {p \in {Plan("go", 1 + k, k, {}) : k \in Drafted} : s.st = "running" /\ s.got > 0 /\ more}
     \cup {p \in {Plan("resume", n, 0, {}) : n \in Chunks(s.len)} : s.st = "preempted" /\ more}
     \cup {p \in {Plan("force", n, 0, {}) : n \in Chunks(s.len - s.got)} : s.st = "running" /\ free /\ more}
     \cup {p \in {Plan("stream", n, 0, {}) : n \in Chunks(Remaining(s) + 1)} :
             s.st = "running" /\ s.got = 0 /\ Remaining(s) = 1 /\ s.len + 1 < MaxLen}

(* a request after it was planned, before its step ran                        *)
After(s, p) ==
  LET settled == [s EXCEPT !.got = 0, !.rej = 0]
      started ==
        CASE p.act \in {"submit", "resubmit"} -> Submitted(s.gen + 1, p.hash)
          [] p.act = "finish"  -> Absent(s.gen)
          [] p.act = "preempt" -> [settled EXCEPT !.st = "preempted", !.comp = 0, !.epoch = s.epoch + 1, !.held = 0]
          [] p.act = "resume"  -> [settled EXCEPT !.st = "running"]
          [] p.act = "force"   -> [settled EXCEPT !.len = s.len - s.got, !.comp = 0, !.epoch = s.epoch + 1, !.held = 0]
          [] p.act = "stream"  -> [settled EXCEPT !.prompt = s.len + 1, !.len = s.len + 1]
          [] OTHER             -> settled
      ahead == IF p.act = "go" THEN s.rej ELSE 0
  IN IF p.n = 0 THEN started
     ELSE [started EXCEPT !.held = Max2(@, BlocksFor(started.comp + ahead + p.n))]

Blocks(s, from) == [i \in 1..(s.held - from) |-> <<s.gen, s.epoch, from + i>>]
Overlaps(c, n) == c + n >= ImageAt /\ c < NumPrompt

(* SchedulerOutput                                                            *)
Output(f, free) ==
  LET on == {r \in Reqs : f[r].n > 0}
      s1 == [r \in Reqs |-> After(sched[r], f[r])]
      ahead == [r \in Reqs |-> IF f[r].act = "go" THEN sched[r].rej ELSE 0]
      shown == UNION {s1[r].hash : r \in {q \in on : Overlaps(s1[q].comp + ahead[q], f[q].n)}}
  IN [finished |-> {r \in Reqs : f[r].act \in {"finish", "resubmit"}},
      new      |-> {r \in Reqs : f[r].act \in {"submit", "resubmit", "stream"}},
      cached   |-> {r \in Reqs : f[r].act \in {"go", "resume", "force"}},
      resumed  |-> {r \in Reqs : f[r].act \in {"resume", "force"}},
      n        |-> [r \in on |-> f[r].n],
      spec     |-> [r \in on |-> f[r].k],
      free     |-> free,
      encode   |-> shown \ (schedEncoded \ free),
      data     |-> [r \in on |->
        [gen |-> s1[r].gen, prompt |-> s1[r].prompt, hash |-> s1[r].hash,
         computed |-> s1[r].comp + ahead[r],
         outputs |-> s1[r].len - s1[r].prompt + ahead[r],
         tokens |-> [p \in 1..s1[r].len |-> Real(r, s1[r].gen, p)],
         blocks |-> Blocks(s1[r], IF f[r].act = "go" THEN sched[r].held ELSE 0)]],
      after    |-> s1]

(* -------- _update_states ---------------------------------------------------- *)

(* InputBatch.remove_request drops the row, and what it knew of the last step  *)
Forget(f, gone) == Only(f, DOMAIN f \ gone)

Unscheduled(o) == (DOMAIN rows \ o.finished) \ (DOMAIN o.n \ o.resumed)
Removed(o) == o.finished \cup Unscheduled(o) \cup (o.new \cap DOMAIN rows)
InBatch(o) == DOMAIN rows \ Removed(o)
Known_Keeps(o) == requests
Known(o) == Forget(requests, o.finished)

NewState(d) == [gen |-> d.gen, prompt |-> d.prompt, outs |-> <<>>, comp |-> d.computed,
                draftLen |-> 0, blocks |-> d.blocks, hash |-> d.hash]
Streamed(q, d) == [q EXCEPT !.prompt = d.prompt, !.outs = <<>>, !.comp = d.computed, !.blocks = d.blocks, !.hash = d.hash]

Deferred(o) == {r \in o.cached : r \in InBatch(o) /\ requests[r].draftLen > 0}
Optimistic(o, r) == IF r \in Deferred(o) THEN requests[r].draftLen ELSE 0
Extended(o, r) == requests[r].outs \o [i \in 1..Optimistic(o, r) |-> Unknown]
Aligned(o, r) ==
  LET outs == Extended(o, r) IN SubSeq(outs, 1, Min2(Len(outs), o.data[r].outputs))
Recovered(o, r) ==
  LET d == o.data[r] IN SubSeq(d.tokens, Len(d.tokens) - d.outputs + 1, Len(d.tokens))
Outputs(o, r) ==
  IF r \notin InBatch(o) /\ o.data[r].outputs > 0 THEN Recovered(o, r) ELSE Aligned(o, r)
StateBlocks(o, r) ==
  IF r \in o.resumed THEN o.data[r].blocks ELSE requests[r].blocks \o o.data[r].blocks

(* update_req_spec_token_ids notes the drafts of the step for the next one     *)
WithSpec(q, k) == [q EXCEPT !.draftLen = k]
Continued(o, r) ==
  [requests[r] EXCEPT !.outs = Outputs(o, r), !.comp = o.data[r].computed, !.blocks = StateBlocks(o, r)]
States(o) ==
  [r \in DOMAIN Known(o) \cup o.new |->
     IF r \in o.new
     THEN WithSpec(IF r \in DOMAIN Known(o) THEN Streamed(requests[r], o.data[r]) ELSE NewState(o.data[r]), o.spec[r])
     ELSE IF r \in o.cached THEN WithSpec(Continued(o, r), o.spec[r]) ELSE requests[r]]
Rows(o, st) ==
  LET kept == InBatch(o)
  IN [r \in kept \cup (DOMAIN o.n \ kept) |->
        IF r \in kept THEN [comp |-> o.data[r].computed, blocks |-> rows[r].blocks \o o.data[r].blocks]
        ELSE [comp |-> st[r].comp, blocks |-> st[r].blocks]]

(* -------- _prepare_inputs --------------------------------------------------- *)

PrevPositions(ord, prev) == [i \in DOMAIN ord |-> IF ord[i] \in DOMAIN prev THEN prev[ord[i]] ELSE 0]
PrevDrafts(o, prev) == [i \in 1..Cardinality(Reqs) |->
  LET who == {r \in Deferred(o) \cap DOMAIN prev : prev[r] = i} IN IF who = {} THEN 0 ELSE Optimistic(o, CHOOSE r \in who : TRUE)]

(* update_num_computed_tokens_for_batch_change; read: the counts of the CPU as  *)
(* the copy to the GPU found them                                              *)
GpuComputed(ord, prev, drafts, read) ==
  LET pos == PrevPositions(ord, prev)
  IN [i \in DOMAIN ord |->
        IF pos[i] > 0 /\ gpu.counts # <<>> /\ drafts[pos[i]] > 0
        THEN gpu.computed[pos[i]] + gpu.counts[pos[i]]
        ELSE read[ord[i]]]

CpuToken(r, q, p) ==
  IF p <= q.prompt THEN Real(r, q.gen, p)
  ELSE IF p - q.prompt <= Len(q.outs) THEN q.outs[p - q.prompt] ELSE Unknown

(* cu_num_tokens: where each row ends among the tokens of the step              *)
Ends(n) == LET end[i \in 0..Len(n)] == IF i = 0 THEN 0 ELSE end[i - 1] + n[i] IN end

(* The tokens of the step, row by row.  A row of the last step takes its last  *)
(* sampled token and its drafts from the GPU; the CPU's copy is skipped when   *)
(* every token of the step comes from there.                                   *)
InputIds(o, ord, prev, st, rws) ==
  LET pos == PrevPositions(ord, prev)
      n == [i \in DOMAIN ord |-> o.n[ord[i]]]
      k == [i \in DOMAIN ord |-> o.spec[ord[i]]]
      common == {i \in DOMAIN ord : pos[i] > 0}
      total == Ends(n)[Len(ord)]
      specs == Ends([i \in DOMAIN ord |-> IF i \in common THEN k[i] ELSE 0])[Len(ord)]
      flat == [i \in DOMAIN ord |-> Ends(n)[i] - 1]
      copied == Cardinality(common) < total - specs
      slice == /\ \A i \in common : pos[i] - 1 = flat[i]
               /\ common # {} /\ Max({flat[i] : i \in common}) = Cardinality(common) - 1
      cpu(i, j) == IF copied THEN CpuToken(ord[i], st[ord[i]], rws[ord[i]].comp + j) ELSE Unknown
      sliced(i, j) == LET at == flat[i] - n[i] + j IN IF at < Cardinality(common) THEN gpu.tokens[at + 1] ELSE cpu(i, j)
      scattered(i, j) == IF i \notin common \/ j < n[i] - k[i] THEN cpu(i, j)
                         ELSE IF j = n[i] - k[i] THEN gpu.tokens[pos[i]]
                         ELSE gpu.drafts[pos[i]][j - (n[i] - k[i])]
  IN [i \in DOMAIN ord |-> [j \in 1..n[i] |->
        IF gpu.tokens = <<>> THEN CpuToken(ord[i], st[ord[i]], rws[ord[i]].comp + j)
        ELSE IF slice THEN sliced(i, j) ELSE scattered(i, j)]]
DiscardMask(o, ord, st, rws) ==
  [i \in DOMAIN ord |-> rws[ord[i]].comp + o.n[ord[i]] < st[ord[i]].prompt + Len(st[ord[i]].outs)]

(* -------- the images ---------------------------------------------------------- *)

Freed(o) == encoderCache \ o.free
Encoded(o) == Freed(o) \cup o.encode
(* _gather_mm_embeddings raises; shift is 1 for the drafter's look-ahead        *)
CacheMiss(q, n, shift, cache) ==
  /\ Overlaps(q.comp + shift, n) /\ q.hash \cap cache = {}
  /\ ~(ImageAt - 1 >= q.comp + n)

(* -------- the steps ------------------------------------------------------------ *)

(* correct_spec_decode_token_counts, once the step is launched                  *)
Correction_Swapped(o, prev, r) ==
  IF r \in Deferred(o) /\ gpu.counts # <<>> /\ r \in DOMAIN prev THEN (gpu.counts[prev[r]] - 1) - Optimistic(o, r) ELSE 0
Correction(o, prev, r) ==
  IF r \in Deferred(o) /\ gpu.counts # <<>> /\ r \in DOMAIN prev
  THEN Optimistic(o, r) - (gpu.counts[prev[r]] - 1) ELSE 0
(* The copy is not waited for, and the correction is outside                    *)
(* synchronize_input_prep: it may come first.                                   *)
CountsRead(o, prev, rws) ==
  {[r \in DOMAIN o.n |-> rws[r].comp - (IF r \in late THEN Correction(o, prev, r) ELSE 0)] :
     late \in SUBSET {r \in DOMAIN o.n : Correction(o, prev, r) # 0}}
Corrected(f, o, prev) == [r \in DOMAIN f |-> [f[r] EXCEPT !.comp = @ - Correction(o, prev, r)]]

InUse == UNION {sched[r].hash : r \in {q \in Reqs : sched[q].st = "running" /\ sched[q].comp < NumPrompt}}
(* bound: in one step, at most one request does more than go on                 *)
Planned ==
  LET plans == [r \in Reqs |-> Plans(r)]
      plain == [r \in Reqs |-> {p \in plans[r] : p.act \in {"go", "skip"}}]
      others == {f \in [Reqs -> UNION {plain[q] : q \in Reqs}] : \A q \in Reqs : f[q] \in plain[q]}
  IN UNION {{[f EXCEPT ![r] = p] : f \in others, p \in plans[r]} : r \in Reqs}
Orders(S) == {ord \in [1..Cardinality(S) -> S] : \A i, j \in DOMAIN ord : i # j => ord[i] # ord[j]}

Empty == [x \in {} |-> 0]
(* execute_model with nothing scheduled returns after _update_states            *)
ExecuteEmpty(o) ==
  /\ DOMAIN o.n = {}
  /\ requests' = States(o) /\ rows' = Rows(o, States(o)) /\ order' = <<>>
  /\ prevIndex' = Forget(prevIndex, Removed(o))
  /\ encoderCache' = Freed(o)
  /\ UNCHANGED <<gpu, step, fault>>

ExecuteStep(o) ==
  /\ DOMAIN o.n # {}
  /\ \E ord \in Orders(InBatch(o) \cup DOMAIN o.n) :
       LET prev == Forget(prevIndex, Removed(o))
           st == States(o)
           rws == Rows(o, st)
           drafts == PrevDrafts(o, prev)
           bad == IF o.resumed \cap InBatch(o) # {} THEN {"assert req_index is None"}
                  ELSE IF \E r \in DOMAIN o.n : CacheMiss(st[r], o.n[r], 0, Encoded(o)) THEN {"Encoder cache miss"} ELSE {}
       IN /\ order' = ord
          /\ prevIndex' = prev
          /\ encoderCache' = Encoded(o)
          /\ step' = [order |-> ord, n |-> o.n, spec |-> o.spec,
                      inputs |-> InputIds(o, ord, prev, st, rws),
                      discard |-> DiscardMask(o, ord, st, rws),
                      longest |-> Max({rws[r].comp + o.n[r] : r \in DOMAIN o.n}),
                      outputs |-> [r \in DOMAIN o.n |-> o.data[r].outputs]]
          /\ \E read \in CountsRead(o, prev, rws) :
               gpu' = [gpu EXCEPT !.computed = GpuComputed(ord, prev, drafts, read)]
          /\ requests' = Corrected(st, o, prev)
          /\ rows' = Corrected(rws, o, prev)
          /\ fault' = bad

Execute ==
  /\ step = NoStep /\ fault = {}
  /\ \E f \in Planned, free \in SUBSET (schedEncoded \ InUse) :
       LET o == Output(f, free)
       IN /\ sched' = o.after
          /\ schedEncoded' = (schedEncoded \ free) \cup o.encode
          /\ (ExecuteEmpty(o) \/ ExecuteStep(o))

(* sample_tokens: the sampler accepts any prefix of a row's drafts; the drafter *)
(* runs when it fits, and the sampled tokens stay on the GPU                    *)
FitsDrafter == step.longest + NumSpec <= DrafterMax
LastAt(i, acc) == sched[step.order[i]].comp + step.n[step.order[i]] - step.spec[step.order[i]] + acc[i] + 1
Accepted == {acc \in [DOMAIN step.order -> 0..NumSpec] :
               \A i \in DOMAIN acc : acc[i] <= (IF step.discard[i] THEN 0 ELSE step.spec[step.order[i]])}
SampledOnGpu(acc) ==
  [computed |-> gpu.computed,
   tokens |-> [i \in DOMAIN acc |-> IF step.discard[i] THEN Unknown
                 ELSE Real(step.order[i], sched[step.order[i]].gen, LastAt(i, acc))],
   counts |-> [i \in DOMAIN acc |-> IF step.discard[i] THEN 0 ELSE acc[i] + 1],
   drafts |-> [i \in DOMAIN acc |-> [j \in 1..NumSpec |->
                 IF ~FitsDrafter THEN Zero
                 ELSE IF step.discard[i] THEN Unknown
                 ELSE Draft(step.order[i], sched[step.order[i]].gen, LastAt(i, acc) + j)]]]
(* _bookkeeping_sync                                                            *)
Kept == {i \in DOMAIN step.order : ~step.discard[i]}
PrevIndexOfStep == [r \in {step.order[i] : i \in Kept} |-> CHOOSE i \in Kept : step.order[i] = r]
Placeholders == [r \in DOMAIN requests |->
  IF r \in DOMAIN PrevIndexOfStep THEN [requests[r] EXCEPT !.outs = Append(@, Unknown)] ELSE requests[r]]
TruthOf(acc, r) ==
  IF r \notin DOMAIN step.n THEN sched[r]
  ELSE LET i == CHOOSE x \in DOMAIN step.order : step.order[x] = r
           s == sched[r]
           rejected == step.spec[r] - acc[i]
           done == s.comp + step.n[r] - (IF step.discard[i] THEN 0 ELSE rejected)
       IN IF step.discard[i] THEN [s EXCEPT !.comp = done]
          ELSE [s EXCEPT !.comp = done, !.len = done + 1, !.got = acc[i] + 1, !.rej = rejected]
Truth(acc) == [r \in Reqs |-> TruthOf(acc, r)]
SampleTokens ==
  /\ step # NoStep /\ fault = {}
  /\ \E acc \in Accepted : gpu' = SampledOnGpu(acc) /\ sched' = Truth(acc)
  /\ prevIndex' = PrevIndexOfStep
  /\ requests' = Placeholders
  /\ fault' = IF FitsDrafter /\ \E r \in DOMAIN step.n : CacheMiss(requests[r], step.n[r], 1, encoderCache)
              THEN {"Encoder cache miss"} ELSE {}
  /\ step' = NoStep
  /\ UNCHANGED <<schedEncoded, rows, order, encoderCache>>

Init ==
  /\ sched = [r \in Reqs |-> Absent(0)] /\ schedEncoded = {}
  /\ requests = Empty /\ rows = Empty /\ order = <<>> /\ encoderCache = {} /\ prevIndex = Empty
  /\ gpu = [tokens |-> <<>>, counts |-> <<>>, drafts |-> <<>>, computed |-> <<>>]
  /\ step = NoStep /\ fault = {}
Next == Execute \/ SampleTokens
Spec == Init /\ [][Next]_vars

(* -------- properties ------------------------------------------------------------ *)

Running == step # NoStep
Placed == UNION {{i} \X (1..step.n[step.order[i]]) : i \in DOMAIN step.order}

(* The types of the state; a row for every request of the step and no other.    *)
TypeOK ==
  /\ sched \in [Reqs -> [st : {"none", "running", "preempted"}, gen : Nat, prompt : Nat, len : Nat, comp : Nat,
                         got : 0..(NumSpec + 1), rej : 0..NumSpec, epoch : Nat, held : Nat, hash : SUBSET Hashes]]
  /\ encoderCache \subseteq Hashes /\ schedEncoded \subseteq Hashes
  /\ DOMAIN requests \subseteq Reqs
  /\ \A r \in DOMAIN requests : requests[r].comp \in Nat /\ requests[r].draftLen \in 0..NumSpec
  /\ \A r \in DOMAIN rows : rows[r].comp \in Nat
  /\ DOMAIN rows = ToSet(order) /\ IsInjective(order)
  /\ DOMAIN prevIndex \subseteq Reqs
  /\ fault \subseteq {"assert req_index is None", "Encoder cache miss"}

(* The runner and the scheduler hold the same requests, and the batch is the    *)
(* step: nothing of a request that was finished, preempted or left out stays.   *)
BatchIsSchedule ==
  /\ DOMAIN requests = {r \in Reqs : sched[r].st # "none"}
  /\ \A r \in DOMAIN requests : requests[r].gen = sched[r].gen
  /\ Running => ToSet(order) = DOMAIN step.n

(* Every token the model is fed is the one its request has at that position, or *)
(* a draft proposed for that position: whatever the order of the rows, and when *)
(* an id is used again, a request is preempted or a step is skipped.            *)
InputsAreTheRequests ==
  Running => \A ij \in Placed :
    LET r == step.order[ij[1]]
        p == sched[r].comp + ij[2]
        fed == step.inputs[ij[1]][ij[2]]
    IN IF p <= sched[r].len THEN fed = Real(r, sched[r].gen, p)
       ELSE fed \in {Draft(r, sched[r].gen, p), Zero}

(* The positions on the GPU are those of the tokens really computed, although   *)
(* the scheduler counted every draft of the last step as accepted, and whether  *)
(* the copy of the CPU's counts or their correction comes first.                *)
PositionsAreTrue ==
  Running => \A i \in DOMAIN step.order : gpu.computed[i] = sched[step.order[i]].comp

(* Once a step is launched, the runner's own count of computed tokens has lost  *)
(* its optimism: the drafter's look-ahead reads it.                             *)
CorrectedIsTrue ==
  Running => \A r \in DOMAIN step.n : requests[r].comp = sched[r].comp /\ rows[r].comp = sched[r].comp

(* A row samples a token in exactly the steps that reach the last token of its  *)
(* request: a chunk of a prompt never does.                                     *)
SamplesAtTheEnd ==
  Running => \A i \in DOMAIN step.order :
    LET r == step.order[i] IN step.discard[i] <=> sched[r].comp + step.n[r] < sched[r].len

(* The outputs cached for a request are as many as the scheduler counts, and    *)
(* no known output is another position's token.                                 *)
OutputsAgree ==
  Running => \A r \in DOMAIN step.n :
    /\ Len(requests[r].outs) = step.outputs[r]
    /\ \A i \in DOMAIN requests[r].outs : requests[r].outs[i] \in {Unknown, Real(r, sched[r].gen, requests[r].prompt + i)}

(* The blocks of a row and of a cached request are those the scheduler gave it  *)
(* since it last took them all away.                                            *)
BlocksAgree ==
  Running => \A r \in DOMAIN step.n : rows[r].blocks = Blocks(sched[r], 0) /\ requests[r].blocks = Blocks(sched[r], 0)

(* The runner's tables are the scheduler's, in whatever order requests come,    *)
(* leave and come back.                                                         *)
BatchInv == TypeOK /\ BatchIsSchedule /\ OutputsAgree /\ BlocksAgree

(* No assertion of the batch fails, and no image is missing from the encoder    *)
(* cache when a step or the drafter's look-ahead needs it.                      *)
NothingRaised == fault = {}

(* What a step computes with is there, and true of its requests, one step before *)
(* their last tokens are known to the scheduler.                                *)
InputsInv ==
  InputsAreTheRequests /\ PositionsAreTrue /\ CorrectedIsTrue /\ SamplesAtTheEnd /\ NothingRaised
=============================================================================
