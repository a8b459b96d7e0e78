-------------------------------- MODULE Route --------------------------------
(***************************************************************************)
(* `omrp route`: one CLI invocation after another over the same ledger.    *)
(* cmd_route in omrp-runtime/src/main.rs replays the ledger, registers the *)
(* configured models, picks the candidates of the prompt's tier and tries  *)
(* them in order of score until one answers; what it learned is written    *)
(* back when it ends.  saved is the State the file on disk replays to, mem *)
(* the State of the running invocation.  The file is written line by line, *)
(* and module Ledger has the lines; here a save is a step, or is cut short *)
(* and leaves what a prefix of the lines replays to.                       *)
(*                                                                         *)
(* The order is that of module Ranking; which models are of the prompt's   *)
(* tier, and suit its task, is any set (module Classifier has the tier).   *)
(* A provider answers under whatever model name it likes.  An invocation   *)
(* may be killed at any point; the network and the retry inside one call   *)
(* (complete_with_retry) are part of that call's outcome.                  *)
(***************************************************************************)
EXTENDS Ranking

CONSTANTS
  Configurable,   \* the models a config file may list
  Latency,        \* how long an answer may take: ms, at least 20
  MaxRuns,        \* bound: invocations
  MaxCuts,        \* bound: saves cut short
  LastCut         \* bound: the last invocation whose save may be cut short

ASSUME RouteAssumption ==
  /\ Configurable \subseteq ModelId /\ IsFiniteSet(Configurable)
  /\ Latency \subseteq Nat
  /\ MaxRuns \in Nat /\ MaxCuts \in Nat /\ LastCut \in Nat

VARIABLES
  saved,   \* the State the ledger on disk replays to
  mem,     \* the State of the running invocation
  average, \* rolling_latency_avg_ms per model, of saved and of mem
  past,    \* what the shorter prefixes of the two logs replay to
  pc,      \* "idle", "trying" or "saving"
  chain,   \* candidates not tried yet, the next one first
  runs,    \* invocations that called a model so far
  cuts     \* saves cut short so far

vars == <<saved, mem, average, past, pc, chain, runs, cuts>>

(* max_inflight_per_model of cmd_route's request. *)
MAX_INFLIGHT == 3

Init ==
  /\ saved = NewState
  /\ mem = NewState
  /\ average = [saved |-> [m \in ModelId |-> 0], mem |-> [m \in ModelId |-> 0]]
  /\ past = [saved |-> <<>>, mem |-> <<>>]
  /\ pc = "idle"
  /\ chain = <<>>
  /\ runs = 0
  /\ cuts = 0

-----------------------------------------------------------------------------
(* bootstrap_pipeline: ModelAdded for every configured model not known     *)
(* yet, in any order.                                                      *)
Bootstrapped(s, configured) ==
  LET new == configured \ s.models
  IN  [s EXCEPT
        !.models   = @ \union new,
        !.health   = [m \in DOMAIN @ \union new |-> IF m \in new THEN NewHealth ELSE @[m]],
        !.inflight = [m \in DOMAIN @ \union new |-> IF m \in new THEN 0 ELSE @[m]]]

(* What a log replays to. *)
Replay(s, avg) == [state |-> s, average |-> avg]

(* The replays on the way there, before each model is added and after all. *)
Registering(s, avg, added) ==
  [i \in 1 .. Len(added) + 1 |->
     Replay(Bootstrapped(s, ToSet(SubSeq(added, 1, i - 1))), avg)]

(* Bound: prefixes are kept while a save may still be cut short. *)
Kept(prefixes) == IF cuts' < MaxCuts /\ runs' <= LastCut THEN prefixes ELSE <<>>

-----------------------------------------------------------------------------
(* Everything up to CompletionRequested.  With no candidate the invocation *)
(* ends without a trace.                                                   *)
Start(configured, tier, suited) ==
  LET s == Bootstrapped(saved, configured)
  IN  /\ pc = "idle"
      /\ runs < MaxRuns
      /\ runs' = runs + 1
      /\ UNCHANGED <<saved, average, cuts>>
      /\ \E order \in Rankings(s, average.saved, TierCandidates(s, tier),
                               suited, MAX_INFLIGHT) :
           /\ order # <<>>
           /\ chain' = order
           /\ mem' = CompletionRequested(s, Head(order))
      /\ \E added \in SetToSeqs(configured \ saved.models) :
           past' = [past EXCEPT !.mem =
             Kept(past.saved \o Registering(saved, average.saved, added))]
      /\ pc' = "trying"

Trying == pc = "trying" /\ chain # <<>>

(* A slip to be caught: a model without a client is put off, not dropped. *)
SkipToBack ==
  /\ Trying
  /\ chain' = Append(Tail(chain), Head(chain))
  /\ UNCHANGED <<saved, mem, average, past, pc, runs, cuts>>

(* No client for the model's provider: `continue`. *)
Skip ==
  /\ Trying
  /\ chain' = Tail(chain)
  /\ UNCHANGED <<saved, mem, average, past, pc, runs, cuts>>

(* The loop is over and save_ledger is called. *)
Exit ==
  /\ pc' = "saving"
  /\ chain' = <<>>
  /\ UNCHANGED <<saved, runs, cuts>>

(* The call answers after ms, naming the model `used`.  A zero token count *)
(* makes validate() reject the event; the error is ignored.                *)
Succeed(used, ms, valid) ==
  /\ Trying
  /\ Exit
  /\ IF valid
     THEN /\ mem' = CompletionFinished(mem, used, TRUE)
          /\ average' = IF used \in DOMAIN mem.health
                        THEN [average EXCEPT !.mem[used] = WindowedAvg(@, ms)]
                        ELSE average
          /\ past' = [past EXCEPT !.mem = Kept(@ \o <<Replay(mem, average.mem)>>)]
     ELSE UNCHANGED <<mem, average, past>>

(* An authentication error ends the loop and records no event. *)
AuthError ==
  /\ Trying
  /\ Exit
  /\ UNCHANGED <<mem, average, past>>

(* Any other error: ModelFailed, CompletionFinished(false), next model. *)
Fail ==
  LET s == ModelFailed(mem, Head(chain))
  IN  /\ Trying
      /\ UNCHANGED <<saved, average, pc, runs, cuts>>
      /\ mem' = CompletionFinished(s, Head(chain), FALSE)
      /\ past' = [past EXCEPT !.mem =
           Kept(@ \o <<Replay(mem, average.mem), Replay(s, average.mem)>>)]
      /\ chain' = Tail(chain)

(* All candidates failed or were skipped: save and exit with an error. *)
GiveUp ==
  /\ pc = "trying"
  /\ chain = <<>>
  /\ Exit
  /\ UNCHANGED <<mem, average, past>>

(* The process is gone, and this is what its ledger replays to. *)
Leave(s, avg, prefixes) ==
  /\ pc' = "idle"
  /\ chain' = <<>>
  /\ UNCHANGED runs
  /\ saved' = s
  /\ mem' = s
  /\ average' = [saved |-> avg, mem |-> avg]
  /\ past' = [saved |-> Kept(prefixes), mem |-> Kept(prefixes)]

(* Killed before the save: the file is as it was. *)
Kill ==
  /\ pc = "trying"
  /\ UNCHANGED cuts
  /\ Leave(saved, average.saved, past.saved)

(* persist() writes every entry. *)
Save ==
  /\ pc = "saving"
  /\ UNCHANGED cuts
  /\ Leave(mem, average.mem, past.mem)

(* Killed while it saves, or a write fails.  Before the file is truncated  *)
(* all is as it was; a torn line makes it unreadable, which counts as      *)
(* empty; otherwise the lines that were written replay.                    *)
CutSave ==
  /\ pc = "saving"
  /\ cuts < MaxCuts /\ runs <= LastCut
  /\ cuts' = cuts + 1
  /\ \/ Leave(saved, average.saved, past.saved)
     \/ Leave(NewState, [m \in ModelId |-> 0], <<>>)
     \/ \E i \in DOMAIN past.mem :
          Leave(past.mem[i].state, past.mem[i].average, SubSeq(past.mem, 1, i - 1))

(* The running invocation's own progress. *)
Step ==
  \/ Skip
  \/ \E used \in ModelId, ms \in Latency, valid \in BOOLEAN :
       Succeed(used, ms, valid)
  \/ AuthError
  \/ Fail
  \/ GiveUp
  \/ Save

(* A model may be in the ledger and no longer in the config file. *)
Next ==
  \/ \E configured, suited \in SUBSET Configurable :
       \E tier \in SUBSET configured : Start(configured, tier, suited)
  \/ Step
  \/ Kill
  \/ CutSave

(* The loop visits each candidate once, every call has a timeout and the   *)
(* file is finite, so a running invocation keeps taking steps.  Nobody has *)
(* to start one.                                                           *)
Spec == Init /\ [][Next]_vars /\ WF_vars(Step)

-----------------------------------------------------------------------------
(* The sum of the numbers in a map, counted one by one. *)
Units(map) == UNION {{m} \X (1 .. map[m]) : m \in DOMAIN map}

Total(map) == Cardinality(Units(map))

FailureCounts(s) == [m \in DOMAIN s.health |-> s.health[m].failure_count]

Failures(s) == Total(FailureCounts(s))

IsReplay(r) == IsState(r.state) /\ r.average \in [ModelId -> Nat]

IsLog(replays) ==
  /\ replays \in Seq(ToSet(replays))
  /\ \A i \in DOMAIN replays : IsReplay(replays[i])

(* Every part of the system has its type; see IsState in Reducers. *)
TypeOK ==
  /\ IsState(saved)
  /\ IsState(mem)
  /\ average \in [{"saved", "mem"} -> [ModelId -> Nat]]
  /\ past = [saved |-> past.saved, mem |-> past.mem]
  /\ IsLog(past.saved) /\ IsLog(past.mem)
  /\ pc \in {"idle", "trying", "saving"}
  /\ chain \in Seq(ModelId)
  /\ runs \in 0 .. MaxRuns
  /\ cuts \in 0 .. MaxCuts

(***************************************************************************)
(* The chain is chosen once, before the first call, and worked off while   *)
(* failures change the health it was chosen by.  Still no candidate ahead  *)
(* has become garbage or unregistered, and none comes up twice.            *)
(***************************************************************************)
ChainStaysSound ==
  /\ \A i \in DOMAIN chain :
       /\ chain[i] \in mem.models
       /\ ~mem.health[chain[i]].garbage
  /\ \A i, j \in DOMAIN chain : i # j => chain[i] # chain[j]

(***************************************************************************)
(* The books balance: each failure the diagnostics count, and the clock    *)
(* derived from them, is a failure of one model's health and the other way *)
(* round, on disk and in memory, although the two events of a failed call  *)
(* both count it.                                                          *)
(***************************************************************************)
FailuresBalance ==
  /\ Failures(saved) = saved.diagnostics.total_failures
  /\ Failures(mem) = mem.diagnostics.total_failures

(***************************************************************************)
(* Counters that leak, leak at most one request per invocation: whatever   *)
(* way an invocation ends, the inflight counters together are no more than *)
(* the number of invocations.                                              *)
(***************************************************************************)
InflightBounded == Total(saved.inflight) <= runs /\ Total(mem.inflight) <= runs

(***************************************************************************)
(* The ledger only learns, unless a save is cut short: whatever other way  *)
(* an invocation ends, and whatever config it was started with, no model   *)
(* it knew is forgotten, no count is lower and no observation older than   *)
(* what the invocation before it saved.  A save that is cut short may      *)
(* forget, but it makes up nothing: no model, count or observation is in   *)
(* what it leaves that the invocation did not have.                        *)
(***************************************************************************)
Grown(s, t) ==
  /\ s.models \subseteq t.models
  /\ \A m \in s.models : Accumulated(s.health[m], t.health[m])

SavedHealthGrows ==
  [][/\ cuts' = cuts => Grown(saved, saved')
     /\ pc = "saving" => Grown(saved', mem)]_vars

(***************************************************************************)
(* A model saved as garbage stays untried: unless a save is cut short, no  *)
(* later invocation calls it, so it can never fail again, and the one      *)
(* thing that changes its record is an answer that some other model gave   *)
(* under its name.                                                         *)
(***************************************************************************)
GarbageStaysUntried ==
  [][cuts' = cuts =>
       \A m \in saved.models :
         saved.health[m].garbage =>
           LET h == saved.health[m]
               g == saved'.health[m]
           IN  \/ g = h
               \/ /\ g.success_count = h.success_count + 1
                  /\ g.failure_count = h.failure_count]_vars

(* Every invocation that starts trying models comes to an end. *)
RouteEnds == pc = "trying" ~> pc = "idle"

(***************************************************************************)
(* A failure costs: whatever the record of a model, one that fails is      *)
(* worth less than before.  Each failure makes the estimate of the model   *)
(* more certain, for which the stability factor rewards it; the loss of    *)
(* competence must always outweigh that.                                   *)
(***************************************************************************)
FailureCosts ==
  [][\A m \in DOMAIN mem.health \intersect DOMAIN mem'.health :
       /\ mem'.health[m].failure_count > mem.health[m].failure_count
       /\ mem'.health[m].success_count = mem.health[m].success_count
       => Merit(mem'.health[m], average'.mem[m]) < Merit(mem.health[m], average.mem[m])]_vars
=============================================================================
