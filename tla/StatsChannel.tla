---------------------------- MODULE StatsChannel ----------------------------
(***************************************************************************)
(* The stats channel: the operator reads the counters of a policy's        *)
(* sidecars, keeps their growth and reports it to the rule server          *)
(* (operator/internal/stats; rules/internal/server/reports.go,             *)
(* store/reports.go).  One counter stands for all of them: lines, errors,  *)
(* redactions and findings are read, added and reset alike.                *)
(*                                                                         *)
(* Time is counted in passes.  A request the operator has given up on goes *)
(* on at the server.  The reporter runs on the elected leader only.        *)
(***************************************************************************)
EXTENDS Integers, FiniteSets, Functions

CONSTANTS
    Pods,        \* the policy's pods, over time
    Slots,       \* requests the server handles at a time
    None,        \* no value
    Interval,    \* spec.stats.intervalSeconds, in passes
    MaxLines,    \* bound: lines the sidecars process
    MaxFaults    \* bound: faults of any kind

ASSUME StatsAssumption ==
    /\ IsFiniteSet(Pods) /\ IsFiniteSet(Slots)
    /\ Interval \in Nat \ {0} /\ MaxLines \in Nat /\ MaxFaults \in Nat
    /\ None \notin Nat /\ None \notin Slots

VARIABLES
    phase,      \* each pod: "new", "running" or "gone"
    counter,    \* what each sidecar's /metrics shows
    lines,      \* lines the sidecars really processed
    enabled,    \* spec.stats is set
    unsynced,   \* the reconciler has not seen the latest change of spec.stats
    st,         \* the reporter's policyState, or None
    at,         \* where the pass is
    todo,       \* pods listed and not read yet
    samples,    \* what this pass has read
    status,     \* the StatsStatus this pass will write
    waiting,    \* the request the reporter waits for
    slot,       \* the server's requests
    access,     \* the report token is good and the receiver answers
    reports,    \* lines of the reports stored so far
    api,        \* status.stats of the policy
    faults,     \* faults so far
    twice,      \* lines of requests given up on, which may be stored all the same
    gap,        \* a read, the reporter's state or an answer was lost
    first, last \* first and latest read of each pod, until there is a gap

podVars == <<phase, counter, lines>>
policyVars == <<enabled, unsynced, api>>
passVars == <<at, todo, samples, status, waiting>>
serverVars == <<slot, access, reports>>
vars == <<podVars, policyVars, st, passVars, serverVars, faults, twice, gap, first, last>>

\* LastError, PodsReporting (PodsTotal is written with it) and LastReportTime,
\* of which it matters only whether it is set and that it changes.
Status == [error : BOOLEAN, reporting : Nat, reported : 0 .. 2]
NoStatus == [error |-> FALSE, reporting |-> 0, reported |-> 0]
Reads == [Pods -> Nat \cup {None}]
NoReads == [p \in Pods |-> None]
States == [pods : Reads, acc : Nat, age : 0 .. Interval, last : Status]
Requests == [lines : Nat, stage : {"sent", "let_in", "stored", "refused"}]

\* None is no status, no state and no request.
ASSUME NoneAssumption == None \notin Status /\ None \notin States /\ None \notin Requests

\* The sum of a function's values.
Total(f) == FoldFunction(+, 0, f)

\* The type of the state.
TypeOK ==
    /\ phase \in [Pods -> {"new", "running", "gone"}] /\ counter \in [Pods -> Nat] /\ lines \in Nat
    /\ enabled \in BOOLEAN /\ unsynced \in BOOLEAN /\ api \in Status \cup {None}
    /\ st \in States \cup {None}
    /\ at \in {"idle", "scrape", "send", "wait", "patch"}
    /\ todo \subseteq Pods /\ samples \in Reads /\ status \in Status
    /\ waiting \in Slots \cup {None}
    /\ slot \in [Slots -> Requests \cup {None}]
    /\ access \in BOOLEAN
    /\ reports \in Nat
    /\ faults \in 0 .. MaxFaults /\ twice \in Nat /\ gap \in BOOLEAN
    /\ first \in Reads /\ last \in Reads

Fault == faults < MaxFaults /\ faults' = faults + 1 /\ UNCHANGED gap
Loss == faults < MaxFaults /\ faults' = faults + 1 /\ gap' = TRUE
NoFault == UNCHANGED <<faults, gap>>
Running == {p \in Pods : phase[p] = "running"}
-----------------------------------------------------------------------------
(* The pods and their sidecars *)

PodStarts(p) ==
    /\ phase[p] = "new"
    /\ phase' = [phase EXCEPT ![p] = "running"]
    /\ UNCHANGED <<counter, lines, policyVars, st, passVars, serverVars, faults, twice, gap, first, last>>

PodEnds(p) ==
    /\ phase[p] = "running"
    /\ phase' = [phase EXCEPT ![p] = "gone"]
    /\ counter' = [counter EXCEPT ![p] = 0]
    /\ UNCHANGED <<lines, policyVars, st, passVars, serverVars, faults, twice, gap, first, last>>

ProcessLine(p) ==
    /\ phase[p] = "running" /\ lines < MaxLines
    /\ counter' = [counter EXCEPT ![p] = @ + 1] /\ lines' = lines + 1
    /\ UNCHANGED <<phase, policyVars, st, passVars, serverVars, faults, twice, gap, first, last>>

\* The sidecar restarts in its pod: its counters are of the new process.
SidecarRestarts(p) ==
    /\ phase[p] = "running" /\ counter[p] > 0
    /\ counter' = [counter EXCEPT ![p] = 0]
    /\ Loss
    /\ UNCHANGED <<phase, lines, policyVars, st, passVars, serverVars, twice, first, last>>
-----------------------------------------------------------------------------
(* The policy: spec.stats is set or removed; the reconciler, once per change, *)
(* unsets status.stats when spec.stats is unset.                              *)

EditStats ==
    /\ enabled' = ~enabled /\ unsynced' = TRUE
    /\ (enabled /\ Loss) \/ (~enabled /\ NoFault)
    /\ UNCHANGED <<podVars, api, st, passVars, serverVars, twice, first, last>>

ReconcileStats ==
    /\ unsynced /\ unsynced' = FALSE
    /\ api' = IF enabled THEN api ELSE None
    /\ UNCHANGED <<podVars, enabled, st, passVars, serverVars, faults, twice, gap, first, last>>
-----------------------------------------------------------------------------
(* The reporter *)

Grow(prev, cur) == IF cur >= prev THEN cur - prev ELSE cur

\* Mutant: the first read counts what the sidecar has processed so far.
FirstCounts(prev, cur) == IF prev = None THEN cur ELSE Grow(prev, cur)

\* The first read of a pod only sets the starting point.
Growth(prev, cur) == IF prev = None THEN 0 ELSE Grow(prev, cur)

\* Mutant: the interval has to be exceeded by the passes it is long.
DueLate(age) == age > Interval

Due(age) == age >= Interval

\* A failed post keeps the counts for the next one.
KeepOnError(s) == s

\* Mutant: the time of the report is not recorded.
SentUnstamped(s) == [s EXCEPT !.error = FALSE]

\* The status after a report was accepted: a new LastReportTime, no error.
Sent(s) == [s EXCEPT !.error = FALSE, !.reported = IF @ = 1 THEN 2 ELSE 1]

NewState == [pods |-> NoReads, acc |-> 0, age |-> 0, last |-> NoStatus]

\* A pass later; past the interval it makes no difference how old the window is.
Aged(s) == [s EXCEPT !.age = IF @ < Interval THEN @ + 1 ELSE @]

\* Pass, up to the list of pods: state is made for a policy with spec.stats and
\* dropped for one without.  A list that fails is an error in the status.
PassBegins ==
    /\ at = "idle"
    /\ IF ~enabled
       THEN st' = None /\ UNCHANGED passVars /\ NoFault
       ELSE LET s == IF st = None THEN NewState ELSE Aged(st) IN
            /\ st' = s
            /\ \/ /\ at' = "scrape" /\ todo' = Running /\ samples' = NoReads
                  /\ status' = s.last
                  /\ NoFault
               \/ /\ at' = "patch" /\ status' = [s.last EXCEPT !.error = TRUE]
                  /\ Fault /\ UNCHANGED <<todo, samples>>
            /\ UNCHANGED waiting
    /\ UNCHANGED <<podVars, policyVars, serverVars, twice, first, last>>

\* scrapeAll reads the listed pods at different moments.  A pod that is gone, or
\* does not answer in time, is not read.
ScrapePod(p) ==
    /\ at = "scrape" /\ p \in todo
    /\ todo' = todo \ {p}
    /\ \/ /\ phase[p] = "running"
          /\ samples' = [samples EXCEPT ![p] = counter[p]] /\ NoFault
       \/ phase[p] = "gone" /\ UNCHANGED samples /\ NoFault
       \/ phase[p] = "running" /\ Loss /\ UNCHANGED samples
    /\ UNCHANGED <<podVars, policyVars, st, at, status, waiting, serverVars, twice, first, last>>

\* passPolicy, after the reads: the growth is added, pods that were not read are
\* forgotten, and the report is sent when the interval is over.
Accumulate ==
    LET alive == {p \in Pods : samples[p] # None}
        grown == Total([p \in Pods |-> IF p \in alive THEN Growth(st.pods[p], samples[p]) ELSE 0])
    IN
    /\ at = "scrape" /\ todo = {}
    /\ st' = [st EXCEPT !.pods = samples, !.acc = @ + grown]
    /\ status' = [status EXCEPT !.reporting = Cardinality(alive)]
    /\ at' = IF Due(st.age) THEN "send" ELSE "patch"
    /\ samples' = NoReads
    /\ IF gap THEN first' = NoReads /\ last' = NoReads
       ELSE /\ first' = [p \in Pods |-> IF first[p] = None THEN samples[p] ELSE first[p]]
            /\ last' = [p \in Pods |-> IF samples[p] = None THEN last[p] ELSE samples[p]]
    /\ UNCHANGED <<podVars, policyVars, todo, waiting, serverVars, faults, twice, gap>>

\* send posts the report; a secret that is missing is an error without a post.
SendReport ==
    /\ at = "send"
    /\ \/ LET r == CHOOSE q \in Slots : slot[q] = None IN
            /\ \E q \in Slots : slot[q] = None
            /\ slot' = [slot EXCEPT ![r] = [lines |-> st.acc, stage |-> "sent"]]
            /\ waiting' = r /\ at' = "wait"
            /\ UNCHANGED status /\ NoFault
       \/ /\ at' = "patch" /\ status' = [status EXCEPT !.error = TRUE]
          /\ Fault /\ UNCHANGED <<slot, waiting>>
    /\ UNCHANGED <<podVars, policyVars, st, todo, samples, access, reports, twice, first, last>>

\* The answer: 2xx starts a new window, anything else keeps the counts.
Answered ==
    /\ at = "wait" /\ slot[waiting].stage \in {"stored", "refused"}
    /\ IF slot[waiting].stage = "stored"
       THEN /\ st' = [st EXCEPT !.acc = 0, !.age = 0]
            /\ status' = Sent(status)
       ELSE /\ st' = KeepOnError(st)
            /\ status' = [status EXCEPT !.error = TRUE]
    /\ slot' = [slot EXCEPT ![waiting] = None] /\ waiting' = None /\ at' = "patch"
    /\ UNCHANGED <<podVars, policyVars, todo, samples, access, reports, faults, twice, gap, first, last>>

\* The post times out or its answer is lost; the server may have stored it, or
\* may yet.
TimesOut ==
    /\ at = "wait"
    /\ st' = KeepOnError(st)
    /\ status' = [status EXCEPT !.error = TRUE]
    /\ twice' = twice + slot[waiting].lines
    /\ slot' = [slot EXCEPT ![waiting] = IF @.stage \in {"stored", "refused"} THEN None ELSE @]
    /\ waiting' = None /\ at' = "patch"
    /\ Loss
    /\ UNCHANGED <<podVars, policyVars, todo, samples, access, reports, first, last>>

\* patchStatus writes a status that changed, every field of it, an empty one as
\* null, so that a cleared error does not stay; one that could not be written is
\* tried again at the next pass.
PatchStatus ==
    /\ at = "patch" /\ at' = "idle" /\ status' = NoStatus
    /\ \/ status = st.last /\ UNCHANGED <<st, api>> /\ NoFault
       \/ /\ status # st.last
          /\ api' = status /\ st' = [st EXCEPT !.last = status] /\ NoFault
       \/ status # st.last /\ Fault /\ UNCHANGED <<st, api>>
    /\ UNCHANGED <<podVars, enabled, unsynced, todo, samples, waiting, serverVars, twice, first, last>>

\* The operator restarts: what the reporter knew is gone.
OperatorRestarts ==
    /\ st' = None /\ at' = "idle" /\ waiting' = None
    /\ todo' = {} /\ samples' = NoReads /\ status' = NoStatus
    /\ slot' = IF waiting # None /\ slot[waiting].stage \in {"stored", "refused"}
               THEN [slot EXCEPT ![waiting] = None] ELSE slot
    /\ Loss
    /\ UNCHANGED <<podVars, policyVars, access, reports, twice, first, last>>
-----------------------------------------------------------------------------
(* The receiver *)

\* An answered request that nobody waits for is over.
Reply(r, stage) == slot' = [slot EXCEPT ![r] = IF r = waiting THEN [@ EXCEPT !.stage = stage] ELSE None]

\* tokenAccess: a revoked token, one of the other kind, or too many requests.
TokenAccess(r) ==
    /\ slot[r] # None /\ slot[r].stage = "sent"
    /\ IF access THEN slot' = [slot EXCEPT ![r].stage = "let_in"] ELSE Reply(r, "refused")
    /\ UNCHANGED <<podVars, policyVars, st, passVars, access, reports, faults, twice, gap, first, last>>

\* The body is checked and AddReport stores it, in a transaction that may fail.
\* (It also drops the reports past their retention; the sum here is of all that
\* ever arrived.)
AddReport(r) ==
    /\ slot[r] # None /\ slot[r].stage = "let_in"
    /\ \/ reports' = reports + slot[r].lines /\ Reply(r, "stored") /\ NoFault
       \/ Reply(r, "refused") /\ Fault /\ UNCHANGED reports
    /\ UNCHANGED <<podVars, policyVars, st, passVars, access, twice, first, last>>

\* The token is revoked or replaced, the receiver goes down or comes up.
AccessChanges ==
    /\ access' = ~access
    /\ (access /\ Fault) \/ (~access /\ NoFault)
    /\ UNCHANGED <<podVars, policyVars, st, passVars, slot, reports, twice, first, last>>
-----------------------------------------------------------------------------
Init ==
    /\ phase = [p \in Pods |-> "new"] /\ counter = [p \in Pods |-> 0] /\ lines = 0
    /\ enabled = TRUE /\ unsynced = FALSE /\ api = None
    /\ st = None
    /\ at = "idle" /\ todo = {} /\ samples = NoReads /\ status = NoStatus /\ waiting = None
    /\ slot = [r \in Slots |-> None] /\ access = TRUE
    /\ reports = 0
    /\ faults = 0 /\ twice = 0 /\ gap = FALSE
    /\ first = NoReads /\ last = NoReads

ReporterStep ==
    \/ PassBegins \/ (\E p \in Pods : ScrapePod(p)) \/ Accumulate
    \/ SendReport \/ Answered \/ TimesOut \/ PatchStatus
ServerStep(r) == TokenAccess(r) \/ AddReport(r)

Next ==
    \/ \E p \in Pods : PodStarts(p) \/ PodEnds(p) \/ ProcessLine(p) \/ SidecarRestarts(p)
    \/ EditStats \/ ReconcileStats
    \/ ReporterStep \/ OperatorRestarts
    \/ \E r \in Slots : ServerStep(r)
    \/ AccessChanges

Spec == Init /\ [][Next]_vars

\* The ticker starts passes and every call of a pass ends, by its timeout at the
\* latest; the server's handlers run.
FairSpec == Spec /\ WF_vars(ReporterStep) /\ \A r \in Slots : WF_vars(ServerStep(r))
-----------------------------------------------------------------------------
(* Properties *)

\* A request's lines that are not stored yet.
Pending(q) == IF q # None /\ q.stage \in {"sent", "let_in"} THEN q.lines ELSE 0

OnTheWay == Total([r \in Slots |-> Pending(slot[r])])

\* The lines between the first and the latest read of a pod.
Between(a, b) == IF a = None THEN 0 ELSE b - a

\* Counts the reporter holds that are neither on the way nor stored.
Held == IF st = None \/ (at = "wait" /\ slot[waiting].stage # "refused") THEN 0 ELSE st.acc

\* A line is counted at most once: whatever restarts, fails or is delayed, what
\* was received, is on its way and is held adds up to no more than the sidecars
\* processed ("an operator restart never counts the same lines twice"), but for
\* reports the operator gave up on that were stored all the same.  Nothing is
\* missed either, between the first and the latest read of each pod, while
\* sidecars, reads and the operator are well, however many reports were refused
\* or could not be sent.
CountedOnce ==
    /\ TypeOK
    /\ reports + OnTheWay + Held <= lines + twice
    /\ ~gap =>
          reports + OnTheWay + Held =
              Total([p \in Pods |-> Between(first[p], last[p])])

\* Once the channel stays on and the receiver stays reachable, all growth is
\* reported again and again ("A failed post keeps the counts for the next one").
AllReported == <>[](enabled /\ access) => []<>(st # None /\ st.acc = 0)

\* Once the channel stays on and the receiver stays reachable, the status comes
\* to show no error and stays so ("empty after a success").
StatusSettles == <>[](enabled /\ access) => <>[](api # None /\ ~api.error /\ api.reported # 0)
=============================================================================
