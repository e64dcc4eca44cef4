--------------------------- MODULE PatternRuntime ---------------------------
(* What the SDK logs while a workflow or a task runs.  Either Runtime.run     *)
(* (sdk/runtime.py) executes the workflow of a pack, step by step and level   *)
(* by level, a loop_until step recursing into its body; or an agent works in  *)
(* a Session (sdk/session.py).  What a model, a shell or a module answers is  *)
(* a choice, a callable may exit the process, and a call that logs an event   *)
(* may raise.                                                                 *)
EXTENDS Naturals, Sequences, FiniteSets, SequencesExt

CONSTANTS
    Workflows,      \* sequences of steps; a step is a record
                    \*   [id, kind, needs, gives, onFail, guards, body, max]
    Bodies,         \* the bodies of their loops, at every depth
    None,           \* nothing; also a max_iterations that is no number
    MaxOps, MaxMishaps  \* bounds: operations of a session, faults

Root == "root"
Kinds == {"shell", "module", "callable", "llm", "apply", "check", "judge", "loop"}

Parts == Workflows \cup Bodies
Steps == UNION {ToSet(b) : b \in Parts}

\* The id of a step is unique in its workflow (PATTERN_SCHEMA.md:312), the bodies
\* of its loops included.  Since a run has one workflow, the ids of different
\* workflows may be taken to differ.
ASSUME RuntimeAssumption ==
    /\ MaxOps \in Nat /\ MaxMishaps \in Nat
    /\ Parts \subseteq Seq(Steps) /\ Workflows \cap Bodies = {}
    /\ \A s \in Steps : s.body \in Bodies \cup {<<>>} /\ IsFiniteSet(s.guards)
    /\ \A w \in Workflows, b \in Parts : \A m \in DOMAIN w, n \in DOMAIN b :
           w[m].id # Root /\ (w[m].id = b[n].id => w = b /\ m = n)
    /\ None \notin BOOLEAN \cup [inv : Nat, kind : {"check", "judge"}]

VARIABLES
    mode,       \* "run" or "session"
    state,      \* "new", "open", "failed" or "done", "over"; or from "open",
                \* when something exits, "exits", "exited"
    log,        \* the events logged, in order
    stack,      \* run: the levels of _execute_steps in progress, outermost first
    sess,       \* session: roll-up counters, the closed flag, what is open, and
                \* the children whose outcome has been recorded
    mishaps
vars == <<mode, state, log, stack, sess, mishaps>>

Level(steps) == [steps |-> steps, at |-> 1, made |-> {}, pc |-> "next",
                 inv |-> 0, ok |-> TRUE, hits |-> 0, iter |-> 0]
NoSess == [subs |-> 0, hits |-> 0, closed |-> FALSE, op |-> None,
           kids |-> <<>>, told |-> {}, ops |-> 0]

Init ==
    /\ mode \in {"run", "session"} /\ state = "new" /\ log = <<>>
    /\ stack \in (IF mode = "run" THEN {<<Level(w)>> : w \in Workflows} ELSE {<<>>})
    /\ sess = NoSess /\ mishaps = 0

Mishap == mishaps < MaxMishaps /\ mishaps' = mishaps + 1

\* An event: the root is invocation 0, the others are numbered as they open;
\* "hits" counts the violations it reports.
Event(inv, step, phase, ok, hits) ==
    [inv |-> inv, step |-> step, phase |-> phase, ok |-> ok, hits |-> hits]
Loaded(inv, step) == Event(inv, step, "loaded", None, 0)
Outcome(inv, step, ok, hits) == Event(inv, step, "outcome", ok, hits)
IsSub(e) == e.inv # 0
Fresh == Cardinality({k \in DOMAIN log : log[k].phase = "loaded"})

----------------------------------------------------------------------------
(* Runtime.run and _execute_steps                                            *)

Top == Last(stack)
Step == Top.steps[Top.at]
SetTop(lv) == stack' = Front(stack) \o <<lv>>

Begin ==
    /\ mode = "run" /\ state = "new" /\ state' = "open"
    /\ log' = <<Loaded(0, Root)>>
    /\ UNCHANGED <<mode, stack, sess, mishaps>>

\* A level ends by an exception: the outermost ends the run, a failure only if
\* it is a RuntimeError_; in a loop body the loop_until executor catches it and
\* returns it as what the loop gives.
After(lv) == [lv EXCEPT !.pc = "post", !.iter = 0]
Gives(lv) == [lv EXCEPT !.made = @ \cup ({lv.steps[lv.at].gives} \ {None})]
Outer == Last(Front(stack))
SetOuter(lv) == stack' = Front(Front(stack)) \o <<lv>>
Raise(end) ==
    IF Len(stack) = 1 THEN state' = end /\ stack' = <<>>
    ELSE SetOuter(After(Gives(Outer))) /\ UNCHANGED state

Running == mode = "run" /\ state = "open"

\* The next step of the level.  A name it needs that no earlier step of this
\* level has given raises before anything is logged, as an unknown kind does.
Missing(lv) == \/ lv.steps[lv.at].kind \notin Kinds
               \/ ~(lv.steps[lv.at].needs \subseteq lv.made)
Lacking_Quiet == Raise("done")
Lacking_Waits == FALSE /\ UNCHANGED <<state, stack>>
Lacking == Raise("failed")
OpenStep ==
    /\ Running /\ Top.pc = "next" /\ Top.at <= Len(Top.steps)
    /\ IF Missing(Top) THEN Lacking /\ UNCHANGED log
       ELSE /\ log' = Append(log, Loaded(Fresh, Step.id))
            /\ SetTop([Top EXCEPT !.pc = "pre", !.inv = Fresh, !.ok = TRUE, !.hits = 0])
            /\ UNCHANGED state
    /\ UNCHANGED <<mode, sess, mishaps>>

\* guard_check: the model names the section a violated rule is in.  A section
\* it makes up counts as hard when hard sections were asked about; an answer
\* that is no JSON is a warning; a check that raises blocks nothing.
Verdicts == {"pass", "raises", "hard", "asked", "made up"}
Severity(g, verdict) ==
    CASE verdict \in {"pass", "raises"} -> "none"
      [] verdict = "hard" \/ (verdict = "made up" /\ g.hard) -> "hard"
      [] OTHER -> "soft"

Failed_Silent(lv) == [lv EXCEPT !.pc = "next", !.at = @ + 1]
Failed(lv) == [lv EXCEPT !.ok = FALSE, !.pc = "close"]

\* _run_guards before or after the step.  A hard violation fails the step.
Guarded(phase) == {g \in Step.guards : g.check \in {phase, "both"}}
Guard(phase, next) ==
    /\ Running /\ Top.pc = phase
    /\ \E answer \in [Guarded(phase) -> Verdicts] :
        LET sev == {Severity(g, answer[g]) : g \in Guarded(phase)}
            found == Cardinality({g \in Guarded(phase) : Severity(g, answer[g]) # "none"}) IN
        SetTop(IF "hard" \in sev THEN Failed([Top EXCEPT !.hits = @ + found])
               ELSE [Top EXCEPT !.hits = @ + found, !.pc = next])
    /\ UNCHANGED <<mode, state, log, sess, mishaps>>
PreGuards == Guard("pre", "exec")
PostGuards == Guard("post", "close")

\* executor.execute: it raises, or returns a result with or without what the
\* step gives.  A shell, an http call and a callable give something, a module,
\* whose exit is caught, does not; llm_action gives its answer, judgment too,
\* unless the pattern has no rubric; pattern_apply and guard_check give nothing.
ToolReturns(kind) == IF kind = "module" THEN {"bare", "raises"} ELSE {"value", "raises"}
ActionReturns == {"value", "raises"}
JudgmentReturns == {"value", "bare", "raises"}
ApplyReturns == {"bare", "raises"}
Returns(kind) ==
    CASE kind \in {"shell", "module", "callable"} -> ToolReturns(kind)
      [] kind = "llm" -> ActionReturns
      [] kind = "judge" -> JudgmentReturns
      [] kind \in {"apply", "check"} -> ApplyReturns
Execute ==
    /\ Running /\ Top.pc = "exec" /\ Step.kind # "loop"
    /\ \E r \in Returns(Step.kind), found \in (IF Step.kind = "check" THEN 0..1 ELSE {0}) :
        SetTop(CASE r = "raises" -> Failed(Top)
                 [] r = "value" -> After(Gives(Top))
                 [] OTHER -> After([Top EXCEPT !.hits = @ + found]))
    /\ UNCHANGED <<mode, state, log, sess, mishaps>>

\* A callable that exits, or an interrupt at any moment, raises no Exception:
\* it passes every step and loop, and Runtime.run goes on to its finally block
\* with success still set.
Unwinds == state' = "exits" /\ stack' = <<>> /\ UNCHANGED <<mode, log, sess>>
Exits ==
    /\ Running /\ Top.pc = "exec" /\ Step.kind = "callable" /\ Unwinds
    /\ UNCHANGED mishaps
Interrupted == Running /\ Mishap /\ Unwinds

\* loop_until: the body again while the predicate, which may be anything, does
\* not hold and iterations are left.
Iterate ==
    /\ Running /\ Top.pc = "exec" /\ Step.kind = "loop"
    /\ IF Step.body = <<>> \/ Step.max = None THEN SetTop(Failed(Top))
       ELSE \/ Top.iter < Step.max /\ stack' = Append(stack, Level(Step.body))
            \/ SetTop(After(Top))
    /\ UNCHANGED <<mode, state, log, sess, mishaps>>

\* The level has no step left: the run is over, or the iteration.
NextIteration(lv) == [lv EXCEPT !.iter = @ + 1]
EndLevel ==
    /\ Running /\ Top.pc = "next" /\ Top.at > Len(Top.steps)
    /\ IF Len(stack) = 1 THEN state' = "done" /\ stack' = <<>>
       ELSE SetOuter(NextIteration(Outer)) /\ UNCHANGED state
    /\ UNCHANGED <<mode, log, sess, mishaps>>

\* The step's outcome is logged; a failed one stops its level unless it is to
\* be continued.
Stops_Break(step) == step.onFail = "break"
Stops(step) == step.onFail # "continue"
Closing(lv) == Outcome(lv.inv, lv.steps[lv.at].id, lv.ok, lv.hits)
CloseStep ==
    /\ Running /\ Top.pc = "close"
    /\ log' = Append(log, Closing(Top))
    /\ IF ~Top.ok /\ Stops(Step) THEN Raise("failed")
       ELSE SetTop([Top EXCEPT !.pc = "next", !.at = @ + 1]) /\ UNCHANGED state
    /\ UNCHANGED <<mode, sess, mishaps>>

\* The finally block logs the outcome of the run (its metrics are left out).
RootOutcome == Outcome(0, Root, state # "failed", 0)
EndRun ==
    /\ mode = "run" /\ state \in {"failed", "done", "exits"}
    /\ log' = Append(log, RootOutcome)
    /\ state' = IF state = "exits" THEN "exited" ELSE "over"
    /\ UNCHANGED <<mode, stack, sess, mishaps>>

\* log_invocation_event raises, the event stored or not.  What it raises is no
\* RuntimeError_: the outermost level is left with success still set.
MaybeStored(e) == {log, Append(log, e)}
StepLogFails ==
    /\ Running /\ Mishap /\ Raise("done")
    /\ \/ /\ Top.pc = "next" /\ Top.at <= Len(Top.steps) /\ ~Missing(Top)
          /\ log' \in MaybeStored(Loaded(Fresh, Step.id))
       \/ Top.pc = "close" /\ log' \in MaybeStored(Closing(Top))
    /\ UNCHANGED <<mode, sess>>
Finished == {"over", "exited"}
Dies ==
    /\ state \notin {"new"} \cup Finished /\ Mishap /\ state' = "over"
    /\ UNCHANGED <<mode, log, stack, sess>>

----------------------------------------------------------------------------
(* Session: check, judge and invoke between __enter__ and __exit__            *)

InSession == mode = "session" /\ state = "open"
EnterSession ==
    /\ mode = "session" /\ state = "new" /\ state' = "open"
    /\ log' = <<Loaded(0, Root)>>
    /\ UNCHANGED <<mode, stack, sess, mishaps>>

\* _sub_invoke_start and invoke count, then log.
Counted_Uncounted(s) == s
Counted(s) == [s EXCEPT !.subs = @ + 1]
Started == [Counted(sess) EXCEPT !.ops = @ + 1]
Able == InSession /\ sess.op = None /\ sess.ops < MaxOps
StartOp(kind) ==
    /\ Able /\ log' = Append(log, Loaded(Fresh, kind))
    /\ sess' = [Started EXCEPT !.op = [inv |-> Fresh, kind |-> kind]]
    /\ UNCHANGED <<mode, state, stack, mishaps>>
EnterChild ==
    /\ Able /\ log' = Append(log, Loaded(Fresh, "invoke"))
    /\ sess' = [Started EXCEPT !.kids = Append(@, Fresh)]
    /\ UNCHANGED <<mode, state, stack, mishaps>>

\* The executor answers or raises; check counts the violations; the outcome
\* is logged.
Answered(n) == [sess EXCEPT !.op = None, !.hits = @ + n]
OpOutcome(ok, n) == Outcome(sess.op.inv, sess.op.kind, ok, n)
EndOp ==
    /\ InSession /\ sess.op # None
    /\ \E ok \in BOOLEAN, n \in 0..1 :
        /\ n = 1 => ok /\ sess.op.kind = "check"
        /\ log' = Append(log, OpOutcome(ok, n))
        /\ sess' = Answered(n)
    /\ UNCHANGED <<mode, state, stack, mishaps>>

\* A child logs an outcome each time it is told one, after its block has ended
\* too; at the end of its block it logs one only if it has been told none.
ChildOutcome(inv, ok) == Outcome(inv, "invoke", ok, 0)
RecordChild ==
    /\ Able /\ \E inv \in ToSet(sess.kids) \cup sess.told :
        /\ log' = Append(log, ChildOutcome(inv, TRUE))
        /\ sess' = [sess EXCEPT !.told = @ \cup {inv}, !.ops = @ + 1]
    /\ UNCHANGED <<mode, state, stack, mishaps>>
Left == [sess EXCEPT !.kids = Front(@)]
Untold == sess.kids # <<>> /\ Last(sess.kids) \notin sess.told
LeaveChild ==
    /\ InSession /\ sess.op = None /\ sess.kids # <<>> /\ sess' = Left
    /\ log' = IF Untold THEN Append(log, ChildOutcome(Last(sess.kids), None)) ELSE log
    /\ UNCHANGED <<mode, state, stack, mishaps>>

\* record_outcome closes the session once; more may be logged after it.  The
\* metrics an agent gives it are laid over the counters of the session.
Completion(ok) == [Outcome(0, Root, ok, sess.hits) EXCEPT !.step = sess.subs]
Overlaid == [Completion(TRUE) EXCEPT !.step = None, !.hits = 0]
CloseSession ==
    /\ InSession /\ sess.op = None /\ ~sess.closed
    /\ \E e \in {Completion(TRUE), Overlaid} : log' = Append(log, e)
    /\ sess' = [sess EXCEPT !.closed = TRUE]
    /\ UNCHANGED <<mode, state, stack, mishaps>>
ExitSession ==
    /\ InSession /\ sess.op = None /\ sess.kids = <<>>
    /\ log' = IF sess.closed THEN log ELSE Append(log, Completion(None))
    /\ state' = "over"
    /\ UNCHANGED <<mode, stack, sess, mishaps>>

\* A call that logs raises into the agent's code, its counters already changed;
\* the agent may go on.  Only a completion that was logged closes the session,
\* and only an outcome that was logged counts as told.
OpLogFails ==
    /\ InSession /\ Mishap
    /\ \/ /\ Able /\ sess' = Started
          /\ log' \in MaybeStored(Loaded(Fresh, "check"))
       \/ /\ sess.op # None /\ sess.op.kind = "check" /\ sess' = Answered(1)
          /\ log' \in MaybeStored(OpOutcome(TRUE, 1))
       \/ /\ sess.op = None /\ Untold /\ sess' \in {sess, Left}
          /\ log' \in MaybeStored(ChildOutcome(Last(sess.kids), None))
       \/ /\ sess.op = None /\ ~sess.closed /\ UNCHANGED sess
          /\ log' \in MaybeStored(Completion(TRUE))
    /\ UNCHANGED <<mode, state, stack>>

----------------------------------------------------------------------------
RunStep ==
    \/ Begin \/ OpenStep \/ PreGuards \/ Execute \/ Exits \/ Iterate
    \/ PostGuards \/ CloseStep \/ EndLevel \/ StepLogFails \/ EndRun
SessionStep ==
    \/ EnterSession \/ EnterChild \/ EndOp \/ RecordChild \/ LeaveChild
    \/ CloseSession \/ ExitSession \/ OpLogFails \/ \E kind \in {"check", "judge"} : StartOp(kind)
Next == RunStep \/ Interrupted \/ Dies \/ SessionStep
Spec == Init /\ [][Next]_vars
\* The runtime goes on by itself; an agent may leave its session open.
FairSpec == Spec /\ WF_vars(RunStep)

----------------------------------------------------------------------------
\* The aggregator pairs events by invocation: a loaded event comes first, and
\* unless a call that logs has failed only a child of a session ever gets a
\* second outcome, and nothing is left without one when the session is over or
\* the run has ended by itself.
Reported(inv) == \E k \in DOMAIN log : log[k].inv = inv /\ log[k].phase = "outcome"
IsChild(inv) ==
    /\ mode = "session"
    /\ \E k \in DOMAIN log : log[k] = Loaded(inv, "invoke")
EventsPaired ==
    /\ \A k \in DOMAIN log : log[k].phase = "outcome" =>
            \E j \in 1..k - 1 : log[j].inv = log[k].inv /\ log[j].phase = "loaded"
    /\ mishaps = 0 =>
        /\ \A j, k \in DOMAIN log : j # k =>
               \/ log[j].inv # log[k].inv \/ log[j].phase # log[k].phase
               \/ log[j].phase = "outcome" /\ IsChild(log[j].inv)
        /\ state = "over" => \A k \in DOMAIN log : Reported(log[k].inv)

\* A step of the outermost level that failed and is not to be continued is the
\* last one of the run, wherever it failed, and unless a call that logs has
\* failed the run is no success.
StepOf(w, e) == {k \in DOMAIN w : w[k].id = e.step}
FailureStops ==
    mode = "run" /\ state \in Finished =>
        \A w \in Workflows, k \in DOMAIN log :
            /\ log[k].ok = FALSE /\ \E n \in StepOf(w, log[k]) : w[n].onFail # "continue"
            => /\ \A e \in ToSet(SubSeq(log, k + 1, Len(log))) : ~IsSub(e)
               /\ mishaps = 0 => Last(log) = Outcome(0, Root, FALSE, 0)

\* A run that ends by itself and in success has the outcome of every step of
\* its workflow in its log, in their order, as long as no call that logs has
\* failed.  (One that exits may say success of steps that never ran.)
Succeeds == mode = "run" /\ mishaps = 0 /\ Last(log) = Outcome(0, Root, TRUE, 0)
AllSteps ==
    \E w \in Workflows :
        LET ends == {k \in DOMAIN log : log[k].phase = "outcome" /\ StepOf(w, log[k]) # {}} IN
        /\ \A n \in DOMAIN w : \E k \in ends : n \in StepOf(w, log[k])
        /\ \A j, k \in ends : j < k =>
               \A m \in StepOf(w, log[j]), n \in StepOf(w, log[k]) : m < n
SuccessIsWhole == state = "over" /\ Succeeds => AllSteps

\* What a session reports of itself when it closes is never less than what its
\* checks have logged before, whatever failed in between, and exactly that
\* when nothing did; unless the agent's own metrics have taken its place.
SubsBefore(k) == {j \in 1..k - 1 : IsSub(log[j])}
Violations(events) == UNION {{j} \X (1..log[j].hits) : j \in events}
HitsBefore(k) == Cardinality(Violations(SubsBefore(k)))
StartsBefore(k) == Cardinality({j \in SubsBefore(k) : log[j].phase = "loaded"})
RollupNeverLow ==
    mode = "session" =>
        \A k \in DOMAIN log :
            ~IsSub(log[k]) /\ log[k].phase = "outcome" /\ log[k].step # None =>
            /\ log[k].hits >= HitsBefore(k) /\ log[k].step >= StartsBefore(k)
            /\ mishaps = 0 => log[k].hits = HitsBefore(k) /\ log[k].step = StartsBefore(k)

\* Every workflow comes to an end: loops are bounded, also by a body that is
\* continued after every failure.
Terminates == mode = "run" ~> state \in Finished
=============================================================================
