------------------------ MODULE PatternRuntime_proofs ------------------------
(* Proofs of what the SDK logs of a run or a session: that events pair up,    *)
(* that a failed step stops its run, that the success of a run that ends by   *)
(* itself means the whole workflow and that a roll-up is never too low.       *)
(* PairInv holds of every execution; Stopped, Progress and Counts are the     *)
(* parts that the last three add to it. A step of a run in progress is first  *)
(* put into one of the forms of Moves, so that each invariant has few cases.  *)
EXTENDS PatternRuntime, SequenceTheorems, FiniteSetTheorems, TLAPS

-----------------------------------------------------------------------------
(* The invariants.                                                           *)

Labels == Nat \cup {s.id : s \in Steps} \cup {Root, "check", "judge", "invoke", None}
Events == [inv : Nat, step : Labels, phase : {"loaded", "outcome"},
           ok : BOOLEAN \cup {None}, hits : Nat]
Levels == [steps : Parts, at : Nat \ {0}, made : SUBSET {s.gives : s \in Steps},
           pc : {"next", "pre", "exec", "post", "close"}, inv : Nat,
           ok : BOOLEAN, hits : Nat, iter : Nat]
Ops == [inv : Nat, kind : {"check", "judge"}]
Sessions == [subs : Nat, hits : Nat, closed : BOOLEAN, op : Ops \cup {None},
             kids : Seq(Nat), told : SUBSET Nat, ops : Nat]

Types ==
    /\ mode \in {"run", "session"}
    /\ state \in {"new", "open", "failed", "done", "over", "exits", "exited"}
    /\ log \in Seq(Events) /\ stack \in Seq(Levels)
    /\ sess \in Sessions /\ mishaps \in Nat

\* The outermost level runs a workflow, the inner ones loop bodies; every
\* level but the innermost is within a step.
StackOK ==
    /\ stack # <<>> /\ stack[1].steps \in Workflows
    /\ \A i \in DOMAIN stack :
          /\ i > 1 => stack[i].steps \in Bodies
          /\ i < Len(stack) => stack[i].pc # "next"
          /\ stack[i].pc # "next" => stack[i].at \in DOMAIN stack[i].steps
Shape ==
    /\ mode = "run" => sess = NoSess
    /\ mode = "session" => state \in {"new", "open", "over"}
    /\ state = "new" => log = <<>> /\ mishaps = 0 /\ sess = NoSess
    /\ mode = "run" /\ state = "new" =>
          Len(stack) = 1 /\ stack[1].at = 1 /\ stack[1].pc = "next"
    /\ mode = "run" /\ state \in {"new", "open"} => StackOK

\* Invocations are numbered by their loaded events.
With(phase) == {k \in DOMAIN log : log[k].phase = phase}
Loads == {log[k].inv : k \in With("loaded")}
Ended == {log[k].inv : k \in With("outcome")}
Numbered ==
    \A k \in DOMAIN log : log[k].phase = "loaded" =>
        /\ log[k].inv < Fresh
        /\ \A j \in DOMAIN log : j # k /\ log[j].phase = "loaded" => log[j].inv # log[k].inv
Preceded ==
    \A k \in DOMAIN log : log[k].phase = "outcome" =>
        \E j \in 1..k - 1 : log[j].inv = log[k].inv /\ log[j].phase = "loaded"

\* What is in progress: the root, the steps of the levels, the operation and the
\* children of a session.  Each has a loaded event of its own.
InStep(i) == stack[i].pc # "next"
InRun == mode = "run" /\ state = "open"
Begun ==
    /\ state # "new" => 0 \in Loads
    /\ InRun => \A i \in DOMAIN stack : InStep(i) =>
          /\ stack[i].inv \in Loads /\ stack[i].inv # 0
          /\ \A j \in 1..i - 1 : stack[j].inv < stack[i].inv
    /\ sess.op # None => sess.op.inv \in Loads /\ sess.op.inv # 0
    /\ \A i \in DOMAIN sess.kids :
          sess.kids[i] \in Loads /\ sess.kids[i] # 0 /\ IsChild(sess.kids[i])
    /\ \A x \in sess.told : x \in Loads /\ x \in Ended /\ x # 0 /\ IsChild(x)

\* Without a fault nothing in progress but a child has an outcome, and nothing
\* but a child has two.
OnceEach == \A j, k \in With("outcome") :
    j # k => log[j].inv # log[k].inv \/ IsChild(log[j].inv)
Unfinished ==
    /\ state \notin Finished /\ ~sess.closed => 0 \notin Ended
    /\ InRun => \A i \in DOMAIN stack : InStep(i) => stack[i].inv \notin Ended
    /\ sess.op # None => sess.op.inv \notin Ended
Once == OnceEach /\ Unfinished

\* What has begun has ended or is in progress, unless something has exited.
Busy(x) ==
    \/ x = 0 /\ state \notin Finished /\ ~sess.closed
    \/ InRun /\ \E i \in DOMAIN stack : InStep(i) /\ stack[i].inv = x
    \/ sess.op # None /\ sess.op.inv = x
    \/ \E i \in DOMAIN sess.kids : sess.kids[i] = x
Accounted ==
    /\ state \notin {"exits", "exited"} => \A x \in Loads : x \in Ended \/ Busy(x)
    /\ state = "over" => sess.op = None /\ sess.kids = <<>>

\* A failure that stops the run has ended its outermost level.
StopEvent(e) ==
    e.ok = FALSE /\ \E w \in Workflows : \E n \in StepOf(w, e) : w[n].onFail # "continue"
Failure == Outcome(0, Root, FALSE, 0)
Stopped ==
    mode = "run" => \A k \in DOMAIN log : StopEvent(log[k]) =>
        /\ state \in {"failed", "done", "over"}
        /\ \A j \in DOMAIN log : j > k => ~IsSub(log[j])
        /\ mishaps = 0 => state = "failed" \/ (state = "over" /\ Last(log) = Failure)

\* The outcomes of the first n steps of w are in the log, in order, and those
\* of no other step of w.
EndOf(w, e) == e.phase = "outcome" /\ StepOf(w, e) # {}
Done(w, n) ==
    /\ \A m \in DOMAIN w : m <= n => \E k \in DOMAIN log : EndOf(w, log[k]) /\ m \in StepOf(w, log[k])
    /\ \A k \in DOMAIN log : EndOf(w, log[k]) => \A m \in StepOf(w, log[k]) : m <= n
    /\ \A j, k \in DOMAIN log : EndOf(w, log[j]) /\ EndOf(w, log[k]) /\ j < k =>
          \A m \in StepOf(w, log[j]), i \in StepOf(w, log[k]) : m < i
Whole == \E w \in Workflows : Done(w, Len(w))
Success == Outcome(0, Root, TRUE, 0)
Progress ==
    /\ InRun => \E w \in Workflows, n \in Nat :
          w = stack[1].steps /\ stack[1].at = n + 1 /\ Done(w, n)
    /\ mode = "run" /\ state = "done" => Whole
    /\ mode = "run" /\ state = "over" /\ Last(log) = Success => Whole

\* The counters of a session are at least the counts over its log.
Subs == {k \in DOMAIN log : IsSub(log[k])}
SubHits == Cardinality(Violations(Subs))
SubStarts == Cardinality({k \in Subs : log[k].phase = "loaded"})
Counts ==
    mode = "session" =>
        /\ sess.hits >= SubHits /\ sess.subs >= SubStarts
        /\ mishaps = 0 => sess.hits = SubHits /\ sess.subs = SubStarts

\* What the pairing of events needs.
PairInv == Types /\ Shape /\ Numbered /\ Preceded /\ Begun /\ (mishaps = 0 => Once /\ Accounted)

-----------------------------------------------------------------------------
(* Sequences: replacing the last elements, appending an event.               *)

\* The parts of workflows are sequences of steps.
LEMMA PartSteps ==
    ASSUME NEW b \in Parts
    PROVE  /\ b \in Seq(Steps) /\ Len(b) \in Nat /\ DOMAIN b = 1..Len(b)
           /\ \A n \in DOMAIN b : b[n] \in Steps
<1>1. b \in Seq(Steps)
  BY RuntimeAssumption
<1> QED BY <1>1

\* Of a nonempty sequence, the first n elements and then v.
LEMMA Replaced ==
    ASSUME NEW S, NEW s \in Seq(S), NEW n \in 0..Len(s), NEW v \in S
    PROVE  LET t == SubSeq(s, 1, n) \o <<v>> IN
           /\ t \in Seq(S) /\ Len(t) = n + 1 /\ t[n + 1] = v
           /\ \A i \in 1..n : t[i] = s[i]
<1> DEFINE f == SubSeq(s, 1, n)
<1>1. /\ f \in Seq(S) /\ Len(f) = n /\ \A i \in 1..n : f[i] = s[i]
  BY SubSeqProperties, ElementOfSeq, LenProperties
<1>2. <<v>> \in Seq(S) /\ Len(<<v>>) = 1 /\ <<v>>[1] = v
  OBVIOUS
<1> HIDE DEF f
<1>3. /\ f \o <<v>> \in Seq(S) /\ Len(f \o <<v>>) = n + 1
      /\ \A i \in 1..n + 1 : (f \o <<v>>)[i] = IF i <= n THEN f[i] ELSE <<v>>[i - n]
  BY <1>1, <1>2, ConcatProperties
<1> QED BY <1>1, <1>2, <1>3 DEF f

\* Taking two elements off the end.
LEMMA FrontOfFront ==
    ASSUME NEW S, NEW s \in Seq(S), Len(s) > 1
    PROVE  Front(Front(s)) = SubSeq(s, 1, Len(s) - 2) /\ Last(Front(s)) = s[Len(s) - 1]
<1>1. /\ Front(s) = SubSeq(s, 1, Len(s) - 1) /\ Front(s) \in Seq(S) /\ Len(Front(s)) = Len(s) - 1
      /\ \A i \in 1..Len(s) - 1 : Front(s)[i] = s[i]
  BY SubSeqProperties, ElementOfSeq, LenProperties DEF Front
<1>2. Last(Front(s)) = s[Len(s) - 1]
  BY <1>1, LenProperties DEF Last
<1>3. CASE Len(s) = 2
  <2>1. Front(Front(s)) = SubSeq(Front(s), 1, 0) /\ SubSeq(s, 1, Len(s) - 2) = SubSeq(s, 1, 0)
    BY <1>1, <1>3 DEF Front
  <2>2. SubSeq(Front(s), 1, 0) = <<>> /\ SubSeq(s, 1, 0) = <<>>
    BY SubSeqEmpty
  <2> QED BY <1>2, <2>1, <2>2
<1>4. CASE Len(s) > 2
  <2>1. SubSeq(SubSeq(s, 1, Len(s) - 1), 1, Len(s) - 2) = SubSeq(s, 1, Len(s) - 2)
    BY <1>4, SubSeqOfSubSeq, LenProperties
  <2> QED BY <1>1, <1>2, <2>1 DEF Front
<1>5. Len(s) = 2 \/ Len(s) > 2
  <2>1. PICK n \in Nat : n = Len(s)
    BY LenProperties
  <2>2. n > 1 => n = 2 \/ n > 2
    OBVIOUS
  <2> QED BY <2>1, <2>2
<1> QED BY <1>3, <1>4, <1>5

\* The stack gets m levels, the last one lv, the others as before.
Becomes(m, lv) ==
    /\ stack' \in Seq(Levels) /\ Len(stack') = m /\ stack'[m] = lv
    /\ \A i \in 1..m - 1 : stack'[i] = stack[i]

\* The ways the model changes the stack, as Becomes.
LEMMA SetTopBecomes ==
    ASSUME stack \in Seq(Levels), stack # <<>>, NEW lv \in Levels, SetTop(lv)
    PROVE  Becomes(Len(stack), lv)
<1>1. Len(stack) \in Nat /\ Len(stack) - 1 \in 0..Len(stack)
  BY LenProperties, EmptySeq
<1>2. stack' = SubSeq(stack, 1, Len(stack) - 1) \o <<lv>>
  BY DEF SetTop, Front
<1> QED BY <1>1, <1>2, Replaced DEF Becomes

LEMMA SetOuterBecomes ==
    ASSUME stack \in Seq(Levels), Len(stack) > 1, NEW lv \in Levels, SetOuter(lv)
    PROVE  Becomes(Len(stack) - 1, lv)
<1>1. Len(stack) \in Nat
  BY LenProperties
<1>2. PICK n : n = Len(stack) - 2
  OBVIOUS
<1>3. n \in 0..Len(stack) /\ Len(stack) - 1 = n + 1
  BY <1>1, <1>2
<1>4. stack' = SubSeq(stack, 1, n) \o <<lv>>
  BY <1>2, FrontOfFront DEF SetOuter
<1> QED BY <1>3, <1>4, Replaced DEF Becomes

LEMMA PushBecomes ==
    ASSUME stack \in Seq(Levels), NEW lv \in Levels, stack' = Append(stack, lv)
    PROVE  Becomes(Len(stack) + 1, lv)
  BY AppendProperties, LenProperties DEF Becomes

\* One more event: the older ones stay, and a loaded event counts.
LEMMA LogAppend ==
    ASSUME log \in Seq(Events), NEW e \in Events, log' = Append(log, e)
    PROVE  /\ Len(log) \in Nat /\ DOMAIN log = 1..Len(log) /\ DOMAIN log' = 1..Len(log) + 1
           /\ log' \in Seq(Events) /\ Len(log') = Len(log) + 1 /\ log'[Len(log) + 1] = e
           /\ \A k \in 1..Len(log) : log'[k] = log[k]
           /\ Fresh \in Nat
           /\ Fresh' = Fresh + (IF e.phase = "loaded" THEN 1 ELSE 0)
<1>1. /\ Len(log) \in Nat /\ DOMAIN log = 1..Len(log) /\ DOMAIN log' = 1..Len(log) + 1
      /\ log' \in Seq(Events) /\ Len(log') = Len(log) + 1 /\ log'[Len(log) + 1] = e
      /\ \A k \in 1..Len(log) : log'[k] = log[k]
  BY AppendProperties, LenProperties
<1> DEFINE A == {k \in DOMAIN log : log[k].phase = "loaded"}
           B == {k \in DOMAIN log' : log'[k].phase = "loaded"}
<1>2. IsFiniteSet(A)
  <2>1. IsFiniteSet(1..Len(log)) /\ A \subseteq 1..Len(log)
    BY <1>1, FS_Interval
  <2> QED BY <2>1, FS_Subset
<1>3. e.phase = "loaded" => B = A \cup {Len(log) + 1} /\ Len(log) + 1 \notin A
  BY <1>1
<1>4. e.phase # "loaded" => B = A
  BY <1>1
<1>5. Fresh = Cardinality(A) /\ Fresh' = Cardinality(B)
  BY DEF Fresh
<1> HIDE DEF A, B
<1>6. Cardinality(A) \in Nat
  BY <1>2, FS_CardinalityType
<1>7. e.phase = "loaded" => Cardinality(B) = Cardinality(A) + 1
  BY <1>2, <1>3, FS_AddElement
<1> QED BY <1>1, <1>4, <1>5, <1>6, <1>7

LEMMA FreshType == ASSUME log \in Seq(Events) PROVE Fresh \in Nat
<1>1. IsFiniteSet(1..Len(log)) /\ DOMAIN log = 1..Len(log)
  BY LenProperties, FS_Interval
<1>2. IsFiniteSet({k \in DOMAIN log : log[k].phase = "loaded"})
  BY <1>1, FS_Subset
<1> QED BY <1>2, FS_CardinalityType DEF Fresh

-----------------------------------------------------------------------------
(* What the steps of a run do to the levels and to the log.                  *)

\* The last of m levels goes on with the step it is in.
Settles(m) ==
    /\ m \in 1..Len(stack) /\ stack[m].pc # "next" /\ state' = state
    /\ \E lv \in Levels :
          /\ Becomes(m, lv) /\ lv.pc # "next"
          /\ lv.steps = stack[m].steps /\ lv.at = stack[m].at /\ lv.inv = stack[m].inv
Leaves(end) ==
    IF Len(stack) = 1 THEN state' = end /\ stack' = <<>> ELSE Settles(Len(stack) - 1)
Turns == Settles(Len(stack)) /\ log' = log
Enters ==
    /\ Top.pc # "next" /\ state' = state /\ log' = log
    /\ \E b \in Bodies : Becomes(Len(stack) + 1, Level(b))
Opens ==
    /\ Top.pc = "next" /\ Top.at \in DOMAIN Top.steps /\ state' = state
    /\ log' = Append(log, Loaded(Fresh, Step.id))
    /\ \E lv \in Levels :
          /\ Becomes(Len(stack), lv) /\ lv.pc = "pre" /\ lv.inv = Fresh
          /\ lv.steps = Top.steps /\ lv.at = Top.at
Closes ==
    /\ Top.pc = "close" /\ log' = Append(log, Closing(Top))
    /\ IF ~Top.ok /\ Stops(Step) THEN Leaves("failed")
       ELSE /\ state' = state
            /\ \E lv \in Levels :
                  /\ Becomes(Len(stack), lv) /\ lv.pc = "next"
                  /\ lv.steps = Top.steps /\ lv.at = Top.at + 1
Ends ==
    /\ Top.pc = "next" /\ log' = log
    /\ \/ Leaves("failed")
       \/ Leaves("done") /\ Top.at > Len(Top.steps)
Faults ==
    /\ mishaps' = mishaps + 1 /\ Leaves("done")
    /\ \/ /\ Top.pc = "next" /\ Top.at \in DOMAIN Top.steps
          /\ log' \in MaybeStored(Loaded(Fresh, Step.id))
       \/ Top.pc = "close" /\ log' \in MaybeStored(Closing(Top))

\* The innermost level and its step.
LEMMA TopFacts ==
    ASSUME Types, StackOK
    PROVE  /\ Len(stack) \in Nat \ {0} /\ DOMAIN stack = 1..Len(stack)
           /\ Top = stack[Len(stack)] /\ Top \in Levels
           /\ \A i \in DOMAIN stack : stack[i] \in Levels
           /\ Top.steps \in Parts /\ Len(Top.steps) \in Nat
           /\ DOMAIN Top.steps = 1..Len(Top.steps)
           /\ Top.at \in DOMAIN Top.steps =>
                 /\ Step \in Steps /\ Step.body \in Bodies \cup {<<>>}
                 /\ IsFiniteSet(Step.guards)
<1>1. /\ Len(stack) \in Nat \ {0} /\ DOMAIN stack = 1..Len(stack)
      /\ \A i \in DOMAIN stack : stack[i] \in Levels
  BY LenProperties, EmptySeq, ElementOfSeq DEF Types, StackOK
<1>2. Top = stack[Len(stack)] /\ Top \in Levels
  BY <1>1 DEF Top, Last
<1>3. Top.steps \in Parts
  BY <1>2 DEF Levels
<1>4. Top.at \in DOMAIN Top.steps => Step \in Steps
  BY <1>3, PartSteps DEF Step
<1> QED BY <1>1, <1>2, <1>3, <1>4, PartSteps, RuntimeAssumption

\* Expected of a level that is replaced: the outer one is within a step.
LEMMA OuterFacts ==
    ASSUME Types, StackOK, Len(stack) # 1
    PROVE  /\ Len(stack) > 1 /\ Len(stack) - 1 \in 1..Len(stack)
           /\ Outer = stack[Len(stack) - 1] /\ Outer \in Levels /\ Outer.pc # "next"
           /\ Outer.at \in DOMAIN Outer.steps /\ Outer.steps[Outer.at] \in Steps
<1>1. Len(stack) > 1 /\ Len(stack) - 1 \in 1..Len(stack)
  BY TopFacts
<1>2. Outer = stack[Len(stack) - 1]
  BY <1>1, FrontOfFront DEF Types, Outer
<1>3. Outer \in Levels /\ Outer.pc # "next" /\ Outer.at \in DOMAIN Outer.steps
  BY <1>1, <1>2, TopFacts DEF StackOK
<1>4. Outer.steps \in Parts
  BY <1>3 DEF Levels
<1> QED BY <1>1, <1>2, <1>3, <1>4, PartSteps

LEMMA AfterGives ==
    ASSUME NEW lv \in Levels, lv.steps[lv.at] \in Steps
    PROVE  /\ After(lv) \in Levels /\ Gives(lv) \in Levels /\ After(Gives(lv)) \in Levels
           /\ Failed(lv) \in Levels /\ NextIteration(lv) \in Levels
           /\ \A x \in {After(lv), After(Gives(lv)), Failed(lv), NextIteration(lv)} :
                 x.steps = lv.steps /\ x.at = lv.at /\ x.inv = lv.inv
           /\ After(lv).pc = "post" /\ After(Gives(lv)).pc = "post"
           /\ Failed(lv).pc = "close" /\ NextIteration(lv).pc = lv.pc
<1>1. lv.steps[lv.at].gives \in {s.gives : s \in Steps}
  OBVIOUS
<1>2. /\ lv.steps \in Parts /\ lv.at \in Nat \ {0} /\ lv.inv \in Nat /\ lv.ok \in BOOLEAN
      /\ lv.hits \in Nat /\ lv.iter \in Nat /\ lv.made \subseteq {s.gives : s \in Steps}
      /\ lv.pc \in {"next", "pre", "exec", "post", "close"}
  BY DEF Levels
<1>3. /\ Gives(lv) \in Levels /\ Gives(lv).steps = lv.steps /\ Gives(lv).at = lv.at
      /\ Gives(lv).inv = lv.inv
  BY <1>1, <1>2 DEF Levels, Gives
<1>4. \A x \in Levels : /\ After(x) \in Levels /\ After(x).steps = x.steps
                        /\ After(x).at = x.at /\ After(x).inv = x.inv /\ After(x).pc = "post"
  BY DEF Levels, After
<1>5. /\ Failed(lv) \in Levels /\ Failed(lv).steps = lv.steps /\ Failed(lv).at = lv.at
      /\ Failed(lv).inv = lv.inv /\ Failed(lv).pc = "close"
  BY DEF Levels, Failed
<1>6. /\ NextIteration(lv) \in Levels /\ NextIteration(lv).steps = lv.steps
      /\ NextIteration(lv).at = lv.at /\ NextIteration(lv).inv = lv.inv
      /\ NextIteration(lv).pc = lv.pc
  BY DEF Levels, NextIteration
<1> QED BY <1>3, <1>4, <1>5, <1>6

LEMMA LevelType ==
    ASSUME NEW b \in Parts
    PROVE  /\ Level(b) \in Levels /\ Level(b).steps = b /\ Level(b).at = 1
           /\ Level(b).pc = "next"
  BY DEF Level, Levels

LEMMA RaiseLeaves ==
    ASSUME Types, StackOK, NEW end, Raise(end)
    PROVE  Leaves(end)
<1>1. CASE Len(stack) = 1
  BY <1>1 DEF Raise, Leaves
<1>2. CASE Len(stack) # 1
  <2>1. SetOuter(After(Gives(Outer))) /\ state' = state
    BY <1>2 DEF Raise
  <2>2. /\ After(Gives(Outer)) \in Levels /\ After(Gives(Outer)).pc = "post"
        /\ After(Gives(Outer)).steps = Outer.steps /\ After(Gives(Outer)).at = Outer.at
        /\ After(Gives(Outer)).inv = Outer.inv
    BY <1>2, OuterFacts, AfterGives
  <2>3. Becomes(Len(stack) - 1, After(Gives(Outer)))
    BY <1>2, <2>1, <2>2, OuterFacts, SetOuterBecomes DEF Types
  <2> QED BY <1>2, <2>1, <2>2, <2>3, OuterFacts DEF Leaves, Settles
<1> QED BY <1>1, <1>2

LEMMA SetTopSettles ==
    ASSUME Types, StackOK, Top.pc # "next", state' = state, NEW lv \in Levels, SetTop(lv),
           lv.pc # "next", lv.steps = Top.steps, lv.at = Top.at, lv.inv = Top.inv
    PROVE  Settles(Len(stack))
<1>1. Becomes(Len(stack), lv)
  BY SetTopBecomes DEF Types, StackOK
<1> QED BY <1>1, TopFacts DEF Settles

\* Each action of a run in progress is one of the moves.
LEMMA OpenStepMoves ==
    ASSUME Types, StackOK, OpenStep PROVE Opens \/ Ends
<1>1. CASE Missing(Top)
  <2>1. Raise("failed") /\ log' = log /\ Top.pc = "next"
    BY <1>1 DEF OpenStep, Lacking
  <2> QED BY <2>1, RaiseLeaves DEF Ends
<1>2. CASE ~Missing(Top)
  <2> DEFINE lv == [Top EXCEPT !.pc = "pre", !.inv = Fresh, !.ok = TRUE, !.hits = 0]
  <2>1. /\ SetTop(lv) /\ log' = Append(log, Loaded(Fresh, Step.id)) /\ state' = state
        /\ Top.pc = "next" /\ Top.at <= Len(Top.steps)
    BY <1>2 DEF OpenStep
  <2>2. lv \in Levels /\ lv.pc = "pre" /\ lv.inv = Fresh /\ lv.steps = Top.steps /\ lv.at = Top.at
    BY TopFacts, FreshType DEF Types, Levels
  <2>3. Top.at \in DOMAIN Top.steps
    BY <2>1, TopFacts DEF Levels
  <2> HIDE DEF lv
  <2>4. Becomes(Len(stack), lv)
    BY <2>1, <2>2, SetTopBecomes DEF Types, StackOK
  <2> QED BY <2>1, <2>2, <2>3, <2>4 DEF Opens
<1> QED BY <1>1, <1>2

LEMMA GuardMoves ==
    ASSUME Types, StackOK, NEW phase \in {"pre", "post"}, NEW next \in {"exec", "close"},
           Guard(phase, next)
    PROVE  Turns
<1>1. Top.pc = phase /\ state' = state /\ log' = log
  BY DEF Guard
<1>2. /\ Top \in Levels /\ Top.at \in DOMAIN Top.steps /\ Step \in Steps
      /\ IsFiniteSet(Step.guards)
  BY <1>1, TopFacts DEF StackOK
<1>3. PICK answer \in [Guarded(phase) -> Verdicts] :
        LET sev == {Severity(g, answer[g]) : g \in Guarded(phase)}
            found == Cardinality({g \in Guarded(phase) : Severity(g, answer[g]) # "none"}) IN
        SetTop(IF "hard" \in sev THEN Failed([Top EXCEPT !.hits = @ + found])
               ELSE [Top EXCEPT !.hits = @ + found, !.pc = next])
  BY DEF Guard
<1> DEFINE hit == {g \in Guarded(phase) : Severity(g, answer[g]) # "none"}
           found == Cardinality(hit)
           more == [Top EXCEPT !.hits = @ + found]
<1>4. found \in Nat
  <2>1. hit \subseteq Step.guards
    BY DEF Guarded
  <2> HIDE DEF hit
  <2> QED BY <1>2, <2>1, FS_Subset, FS_CardinalityType
<1>5. SetTop(Failed(more)) \/ SetTop([Top EXCEPT !.hits = @ + found, !.pc = next])
  BY <1>3
<1> HIDE DEF found
<1>6. more \in Levels /\ more.steps = Top.steps /\ more.at = Top.at /\ more.inv = Top.inv
  BY <1>2, <1>4 DEF Levels
<1>7. CASE SetTop(Failed(more))
  <2>1. more.steps[more.at] \in Steps
    BY <1>2, <1>6 DEF Step
  <2> HIDE DEF more
  <2>2. /\ Failed(more) \in Levels /\ Failed(more).pc = "close"
        /\ Failed(more).steps = Top.steps /\ Failed(more).at = Top.at
        /\ Failed(more).inv = Top.inv
    BY <1>6, <2>1, AfterGives
  <2>3. PICK lv \in Levels : lv = Failed(more)
    BY <2>2
  <2> QED BY <1>1, <1>7, <2>2, <2>3, SetTopSettles DEF Turns
<1>8. CASE SetTop([Top EXCEPT !.hits = @ + found, !.pc = next])
  <2>1. PICK lv : lv = [Top EXCEPT !.hits = @ + found, !.pc = next]
    OBVIOUS
  <2>2. lv \in Levels /\ lv.pc = next /\ lv.steps = Top.steps /\ lv.at = Top.at /\ lv.inv = Top.inv
    <3>1. PICK top \in Levels, n \in Nat : top = Top /\ n = top.hits + found
      BY <1>2, <1>4 DEF Levels
    <3>2. lv = [top EXCEPT !.hits = n, !.pc = next]
      BY <2>1, <3>1
    <3> QED BY <3>1, <3>2 DEF Levels
  <2> QED BY <1>1, <1>8, <2>1, <2>2, SetTopSettles DEF Turns
<1> QED BY <1>5, <1>7, <1>8

LEMMA ExecuteMoves ==
    ASSUME Types, StackOK, Execute PROVE Turns
<1>1. Top.pc = "exec" /\ state' = state /\ log' = log
  BY DEF Execute
<1>2. /\ Top \in Levels /\ Top.at \in DOMAIN Top.steps /\ Top.steps[Top.at] \in Steps
  BY <1>1, TopFacts DEF StackOK, Step
<1>3. PICK found \in {0, 1} :
        \/ SetTop(Failed(Top)) \/ SetTop(After(Gives(Top)))
        \/ SetTop(After([Top EXCEPT !.hits = @ + found]))
  BY DEF Execute
<1>4. CASE SetTop(Failed(Top)) \/ SetTop(After(Gives(Top)))
  <2>1. PICK lv \in {Failed(Top), After(Gives(Top))} : SetTop(lv)
    BY <1>4
  <2> QED BY <1>1, <1>2, <2>1, AfterGives, SetTopSettles DEF Turns
<1>5. CASE SetTop(After([Top EXCEPT !.hits = @ + found]))
  <2>1. PICK x : x = [Top EXCEPT !.hits = @ + found]
    OBVIOUS
  <2>2. x \in Levels /\ x.steps = Top.steps /\ x.at = Top.at /\ x.inv = Top.inv
    BY <1>2, <2>1 DEF Levels
  <2>3. /\ After(x) \in Levels /\ After(x).pc = "post" /\ After(x).steps = Top.steps
        /\ After(x).at = Top.at /\ After(x).inv = Top.inv
    BY <1>2, <2>2, AfterGives
  <2>4. PICK lv \in Levels : lv = After(x)
    BY <2>3
  <2> QED BY <1>1, <1>5, <2>1, <2>3, <2>4, SetTopSettles DEF Turns
<1> QED BY <1>3, <1>4, <1>5

LEMMA IterateMoves ==
    ASSUME Types, StackOK, Iterate PROVE Turns \/ Enters
<1>1. Top.pc = "exec" /\ state' = state /\ log' = log
  BY DEF Iterate
<1>2. /\ Top \in Levels /\ Top.at \in DOMAIN Top.steps /\ Top.steps[Top.at] \in Steps
      /\ Step.body \in Bodies \cup {<<>>}
  BY <1>1, TopFacts DEF StackOK, Step
<1>3. CASE SetTop(Failed(Top)) \/ SetTop(After(Top))
  <2>1. PICK lv \in {Failed(Top), After(Top)} : SetTop(lv)
    BY <1>3
  <2> QED BY <1>1, <1>2, <2>1, AfterGives, SetTopSettles DEF Turns
<1>4. CASE Step.body # <<>> /\ stack' = Append(stack, Level(Step.body))
  <2>1. PICK b \in Bodies : b = Step.body
    BY <1>2, <1>4
  <2>2. Level(b) \in Levels
    BY LevelType DEF Parts
  <2>3. Becomes(Len(stack) + 1, Level(b))
    BY <1>4, <2>1, <2>2, PushBecomes DEF Types
  <2> QED BY <1>1, <2>3 DEF Enters
<1> QED BY <1>3, <1>4 DEF Iterate

LEMMA EndLevelMoves ==
    ASSUME Types, StackOK, EndLevel PROVE Ends
<1>1. Top.pc = "next" /\ Top.at > Len(Top.steps) /\ log' = log
  BY DEF EndLevel
<1>2. CASE Len(stack) = 1
  BY <1>1, <1>2 DEF EndLevel, Ends, Leaves
<1>3. CASE Len(stack) # 1
  <2>1. SetOuter(NextIteration(Outer)) /\ state' = state
    BY <1>3 DEF EndLevel
  <2>2. PICK lv : lv = NextIteration(Outer)
    OBVIOUS
  <2>3. /\ lv \in Levels /\ lv.pc = Outer.pc /\ lv.steps = Outer.steps
        /\ lv.at = Outer.at /\ lv.inv = Outer.inv
    BY <1>3, <2>2, OuterFacts, AfterGives
  <2>4. Becomes(Len(stack) - 1, lv)
    BY <1>3, <2>1, <2>2, <2>3, OuterFacts, SetOuterBecomes DEF Types
  <2>5. Settles(Len(stack) - 1)
    BY <1>3, <2>1, <2>3, <2>4, OuterFacts DEF Settles
  <2> QED BY <1>1, <1>3, <2>5 DEF Ends, Leaves
<1> QED BY <1>2, <1>3

LEMMA CloseStepMoves ==
    ASSUME Types, StackOK, CloseStep PROVE Closes
<1>1. Top.pc = "close" /\ log' = Append(log, Closing(Top))
  BY DEF CloseStep
<1>2. CASE ~Top.ok /\ Stops(Step)
  BY <1>1, <1>2, RaiseLeaves DEF CloseStep, Closes
<1>3. CASE ~(~Top.ok /\ Stops(Step))
  <2>1. PICK lv : lv = [Top EXCEPT !.pc = "next", !.at = @ + 1]
    OBVIOUS
  <2>2. lv \in Levels /\ lv.pc = "next" /\ lv.steps = Top.steps /\ lv.at = Top.at + 1
    <3>1. PICK top \in Levels, n \in Nat \ {0} : top = Top /\ n = top.at + 1
      BY TopFacts DEF Levels
    <3>2. lv = [top EXCEPT !.pc = "next", !.at = n]
      BY <2>1, <3>1
    <3> QED BY <3>1, <3>2 DEF Levels
  <2>3. SetTop(lv) /\ state' = state
    BY <1>3, <2>1 DEF CloseStep
  <2>4. Becomes(Len(stack), lv)
    BY <2>2, <2>3, SetTopBecomes DEF Types, StackOK
  <2> QED BY <1>1, <1>3, <2>2, <2>3, <2>4 DEF Closes
<1> QED BY <1>2, <1>3

LEMMA LogFailsMoves ==
    ASSUME Types, StackOK, StepLogFails PROVE Faults
<1>1. Leaves("done") /\ mishaps' = mishaps + 1
  BY RaiseLeaves DEF StepLogFails, Mishap
<1>2. CASE Top.pc = "close"
  BY <1>1, <1>2 DEF StepLogFails, Faults
<1>3. CASE Top.pc # "close"
  <2>1. /\ Top.pc = "next" /\ Top.at <= Len(Top.steps)
        /\ log' \in MaybeStored(Loaded(Fresh, Step.id))
    BY <1>3 DEF StepLogFails
  <2>2. Top.at \in DOMAIN Top.steps
    BY <2>1, TopFacts DEF Levels
  <2> QED BY <1>1, <2>1, <2>2 DEF Faults
<1> QED BY <1>2, <1>3

\* Every step of a run in progress is one of these, or something exits, or its
\* process dies.
Moves == Turns \/ Enters \/ Opens \/ Closes \/ Ends
LEMMA RunMoves ==
    ASSUME Types, StackOK, InRun, Next
    PROVE  /\ mode' = mode
           /\ \/ sess' = sess /\ mishaps' = mishaps /\ Moves
              \/ sess' = sess /\ Faults
              \/ sess' = sess /\ (mishaps' = mishaps \/ Mishap) /\ Unwinds
              \/ Dies
<1>1. CASE OpenStep
  BY <1>1, OpenStepMoves DEF OpenStep, Moves
<1>2. CASE PreGuards
  BY <1>2, GuardMoves DEF PreGuards, Guard, Moves
<1>3. CASE PostGuards
  BY <1>3, GuardMoves DEF PostGuards, Guard, Moves
<1>4. CASE Execute
  BY <1>4, ExecuteMoves DEF Execute, Moves
<1>5. CASE Iterate
  BY <1>5, IterateMoves DEF Iterate, Moves
<1>6. CASE CloseStep
  BY <1>6, CloseStepMoves DEF CloseStep, Moves
<1>7. CASE EndLevel
  BY <1>7, EndLevelMoves DEF EndLevel, Moves
<1>8. CASE StepLogFails
  BY <1>8, LogFailsMoves DEF StepLogFails
<1>9. CASE Dies
  BY <1>9 DEF Dies
<1>10. ~(Begin \/ EndRun \/ SessionStep)
  BY DEF InRun, Begin, EndRun, SessionStep, EnterSession, EnterChild, EndOp, LeaveChild,
         RecordChild, CloseSession, ExitSession, OpLogFails, StartOp, InSession, Able
<1>11. CASE Exits \/ Interrupted
  BY <1>11 DEF Exits, Interrupted, Unwinds
<1> QED BY <1>1, <1>2, <1>3, <1>4, <1>5, <1>6, <1>7, <1>8, <1>9, <1>10, <1>11
        DEF Next, RunStep

-----------------------------------------------------------------------------
(* Types, and the shape of the stack.                                        *)

LEMMA SettlesShape ==
    ASSUME Types, StackOK, NEW m, Settles(m)
    PROVE  stack' \in Seq(Levels) /\ StackOK' /\ Len(stack') = m /\ stack'[m].pc # "next"
<1>1. PICK lv \in Levels :
          /\ Becomes(m, lv) /\ lv.pc # "next" /\ m \in 1..Len(stack) /\ stack[m].pc # "next"
          /\ lv.steps = stack[m].steps /\ lv.at = stack[m].at
  BY DEF Settles
<1>2. /\ Len(stack) \in Nat /\ DOMAIN stack = 1..Len(stack)
      /\ stack' \in Seq(Levels) /\ Len(stack') = m /\ DOMAIN stack' = 1..m /\ stack'[m] = lv
      /\ \A i \in 1..m - 1 : stack'[i] = stack[i]
  BY <1>1, TopFacts, LenProperties DEF Becomes
<1>3. stack' # <<>>
  BY <1>1, <1>2
<1> QED BY <1>1, <1>2, <1>3 DEF StackOK

LEMMA LeavesShape ==
    ASSUME Types, StackOK, NEW end \in {"failed", "done"}, state = "open", Leaves(end)
    PROVE  /\ stack' \in Seq(Levels)
           /\ \/ state' = end /\ stack' = <<>> /\ Len(stack) = 1
              \/ state' = "open" /\ StackOK'
<1>1. CASE Len(stack) = 1
  BY <1>1 DEF Leaves
<1>2. CASE Len(stack) # 1
  BY <1>2, SettlesShape DEF Leaves, Settles
<1> QED BY <1>1, <1>2

LEMMA EntersShape ==
    ASSUME Types, StackOK, Enters
    PROVE  /\ stack' \in Seq(Levels) /\ StackOK' /\ Len(stack') = Len(stack) + 1
           /\ stack'[Len(stack) + 1].pc = "next"
           /\ \A i \in 1..Len(stack) : stack'[i] = stack[i]
<1>1. PICK b \in Bodies : Becomes(Len(stack) + 1, Level(b)) /\ Top.pc # "next"
  BY DEF Enters
<1>2. Level(b).steps = b /\ Level(b).pc = "next"
  BY LevelType DEF Parts
<1>3. /\ Len(stack) \in Nat \ {0} /\ DOMAIN stack = 1..Len(stack) /\ Top = stack[Len(stack)]
      /\ stack' \in Seq(Levels) /\ Len(stack') = Len(stack) + 1
      /\ DOMAIN stack' = 1..Len(stack) + 1 /\ stack'[Len(stack) + 1] = Level(b)
      /\ \A i \in 1..Len(stack) : stack'[i] = stack[i]
  BY <1>1, TopFacts, LenProperties DEF Becomes
<1>4. stack' # <<>>
  BY <1>3
<1> QED BY <1>1, <1>2, <1>3, <1>4 DEF StackOK

\* The innermost level is replaced by one on the same steps.
LEMMA TopShape ==
    ASSUME Types, StackOK, NEW lv \in Levels, Becomes(Len(stack), lv), lv.steps = Top.steps,
           lv.pc # "next" => lv.at \in DOMAIN Top.steps
    PROVE  /\ stack' \in Seq(Levels) /\ StackOK' /\ Len(stack') = Len(stack)
           /\ stack'[Len(stack)] = lv /\ \A i \in 1..Len(stack) - 1 : stack'[i] = stack[i]
<1>1. /\ Len(stack) \in Nat \ {0} /\ DOMAIN stack = 1..Len(stack) /\ Top = stack[Len(stack)]
      /\ stack' \in Seq(Levels) /\ Len(stack') = Len(stack)
      /\ DOMAIN stack' = 1..Len(stack) /\ stack'[Len(stack)] = lv
      /\ \A i \in 1..Len(stack) - 1 : stack'[i] = stack[i]
  BY TopFacts, LenProperties DEF Becomes
<1>2. stack' # <<>>
  BY <1>1
<1> QED BY <1>1, <1>2 DEF StackOK

LEMMA EventTypes ==
    ASSUME Types, StackOK, Top.at \in DOMAIN Top.steps
    PROVE  Loaded(Fresh, Step.id) \in Events /\ Closing(Top) \in Events
<1>1. Step.id \in Labels
  BY TopFacts DEF Labels
<1>2. Top.steps[Top.at] = Step /\ Top.inv \in Nat /\ Top.ok \in BOOLEAN /\ Top.hits \in Nat
  BY TopFacts DEF Step, Levels
<1> QED BY <1>1, <1>2, FreshType DEF Types, Events, Loaded, Closing, Outcome, Event

\* What a run in progress logs in a step, if anything.
LEMMA RunLogs ==
    ASSUME Types, StackOK, Moves \/ Faults
    PROVE  \/ log' = log
           \/ \E e \in {Loaded(Fresh, Step.id), Closing(Top)} :
                 e \in Events /\ log' = Append(log, e)
<1>1. Top.pc = "close" => Top.at \in DOMAIN Top.steps
  BY TopFacts DEF StackOK
<1>2. Top.at \in DOMAIN Top.steps =>
          Loaded(Fresh, Step.id) \in Events /\ Closing(Top) \in Events
  BY EventTypes
<1> QED BY <1>1, <1>2 DEF Moves, Turns, Enters, Opens, Closes, Ends, Faults, MaybeStored

LEMMA RunShape ==
    ASSUME Types, StackOK, state = "open", Moves \/ Faults
    PROVE  /\ stack' \in Seq(Levels) /\ log' \in Seq(Events)
           /\ \/ state' \in {"failed", "done"} /\ stack' = <<>>
              \/ state' = "open" /\ StackOK'
<1>1. log' \in Seq(Events)
  BY RunLogs, LogAppend DEF Types
<1>2. CASE \E end \in {"failed", "done"} : Leaves(end)
  BY <1>1, <1>2, LeavesShape
<1>3. CASE Settles(Len(stack))
  BY <1>1, <1>3, SettlesShape DEF Settles
<1>4. CASE Enters
  BY <1>1, <1>4, EntersShape DEF Enters
<1>5. CASE /\ state' = state
           /\ \E lv \in Levels : /\ Becomes(Len(stack), lv) /\ lv.steps = Top.steps
                                 /\ lv.pc # "next" => lv.at \in DOMAIN Top.steps
  BY <1>1, <1>5, TopShape
<1>6. CASE Opens
  <2>1. PICK lv \in Levels : Becomes(Len(stack), lv) /\ lv.steps = Top.steps /\ lv.at = Top.at
    BY <1>6 DEF Opens
  <2> QED BY <1>5, <1>6, <2>1 DEF Opens
<1>7. CASE Closes /\ ~Leaves("failed")
  <2>1. PICK lv \in Levels : Becomes(Len(stack), lv) /\ lv.steps = Top.steps /\ lv.pc = "next"
    BY <1>7 DEF Closes
  <2> QED BY <1>5, <1>7, <2>1 DEF Closes
<1> QED BY <1>2, <1>3, <1>4, <1>6, <1>7 DEF Moves, Turns, Ends, Faults

\* The last child that is open leaves.
LEMMA LeftFacts ==
    ASSUME Types, sess.kids # <<>>
    PROVE  /\ Left \in Sessions /\ Last(sess.kids) \in Nat
           /\ Left.op = sess.op /\ Left.closed = sess.closed /\ Left.told = sess.told
           /\ Left.hits = sess.hits /\ Left.subs = sess.subs
           /\ \E q \in Nat : /\ DOMAIN sess.kids = 1..q + 1 /\ Last(sess.kids) = sess.kids[q + 1]
                             /\ DOMAIN Left.kids = 1..q
                             /\ \A i \in 1..q : Left.kids[i] = sess.kids[i] /\ i \in 1..q + 1
<1>0. sess \in Sessions /\ sess.kids \in Seq(Nat)
  BY DEF Types, Sessions
<1>1. PICK q \in Nat : Len(sess.kids) = q + 1
  <2>1. Len(sess.kids) \in Nat \ {0}
    BY <1>0, EmptySeq
  <2> QED BY <2>1
<1>2. DOMAIN sess.kids = 1..q + 1 /\ \A i \in 1..q + 1 : sess.kids[i] \in Nat
  BY <1>0, <1>1, LenProperties, ElementOfSeq
<1>3. Front(sess.kids) = SubSeq(sess.kids, 1, q) /\ Last(sess.kids) = sess.kids[q + 1]
  BY <1>1 DEF Front, Last
<1>4. \A i \in 1..q : i \in 1..q + 1
  OBVIOUS
<1>5. /\ Front(sess.kids) \in Seq(Nat) /\ Len(Front(sess.kids)) = q
      /\ \A i \in 1..q : Front(sess.kids)[i] = sess.kids[i]
  <2>1. \A i \in 1..q : sess.kids[i] \in Nat
    BY <1>2, <1>4
  <2> QED BY <1>3, <2>1, SubSeqProperties
<1>6. PICK kids \in Seq(Nat) : kids = Front(sess.kids) /\ DOMAIN kids = 1..q
  BY <1>5, LenProperties
<1>7. Left = [sess EXCEPT !.kids = kids]
  BY <1>6 DEF Left
<1>8. /\ Left \in Sessions /\ Left.kids = kids
      /\ Left.op = sess.op /\ Left.closed = sess.closed /\ Left.told = sess.told
      /\ Left.hits = sess.hits /\ Left.subs = sess.subs
  BY <1>0, <1>7 DEF Sessions
<1>9. q + 1 \in 1..q + 1
  OBVIOUS
<1> QED BY <1>2, <1>3, <1>4, <1>5, <1>6, <1>8, <1>9

\* The session: what its steps do to the counters and to what is open.
LEMMA SessionTypes ==
    ASSUME Types, Shape, mode = "session", SessionStep
    PROVE  /\ sess' \in Sessions /\ mode' = mode /\ stack' = stack
           /\ mishaps' \in Nat /\ state' \in {"open", "over"}
           /\ \/ log' = log
              \/ \E e \in Events : log' = Append(log, e)
<1>0. /\ sess \in Sessions /\ sess.subs \in Nat /\ sess.hits \in Nat /\ sess.ops \in Nat
      /\ sess.closed \in BOOLEAN /\ sess.kids \in Seq(Nat) /\ sess.op \in Ops \cup {None}
      /\ sess.told \subseteq Nat /\ Fresh \in Nat /\ mishaps \in Nat /\ log \in Seq(Events)
  BY FreshType DEF Types, Sessions
<1>1. /\ \A i \in Nat, kind \in {"check", "judge", "invoke"}, n \in Nat, ok \in BOOLEAN :
            Loaded(i, kind) \in Events /\ Outcome(i, kind, ok, n) \in Events
      /\ Loaded(0, Root) \in Events /\ Overlaid \in Events
      /\ \A ok \in BOOLEAN \cup {None} :
            Completion(ok) \in Events /\ \A i \in Nat : ChildOutcome(i, ok) \in Events
  BY <1>0 DEF Events, Labels, Loaded, Outcome, Event, Completion, ChildOutcome, Overlaid
<1>2. /\ Started \in Sessions /\ \A n \in Nat : Answered(n) \in Sessions
      /\ [sess EXCEPT !.closed = TRUE] \in Sessions
      /\ \A kind \in {"check", "judge"} :
            [Started EXCEPT !.op = [inv |-> Fresh, kind |-> kind]] \in Sessions
  <2>1. Started = [sess EXCEPT !.subs = @ + 1, !.ops = @ + 1]
    BY <1>0 DEF Started, Counted, Sessions
  <2>2. Started \in Sessions
    <3>1. PICK n \in Nat, m \in Nat : n = sess.subs + 1 /\ m = sess.ops + 1
      BY <1>0
    <3>2. Started = [sess EXCEPT !.subs = n, !.ops = m]
      BY <2>1, <3>1
    <3> QED BY <1>0, <3>2 DEF Sessions
  <2>3. \A n \in Nat : Answered(n) \in Sessions
    <3>1. TAKE n \in Nat
    <3>2. PICK m \in Nat : m = sess.hits + n
      BY <1>0
    <3>3. Answered(n) = [sess EXCEPT !.op = None, !.hits = m]
      BY <3>2 DEF Answered
    <3> QED BY <1>0, <3>3 DEF Sessions
  <2>4. \A kind \in {"check", "judge"} :
            [Started EXCEPT !.op = [inv |-> Fresh, kind |-> kind]] \in Sessions
    BY <1>0, <2>2 DEF Sessions, Ops
  <2> QED BY <1>0, <2>2, <2>3, <2>4 DEF Sessions
<1>3. CASE EnterSession
  <2>1. log' = Append(<<>>, Loaded(0, Root)) /\ log = <<>>
    BY <1>3 DEF EnterSession, Shape
  <2> QED BY <1>0, <1>1, <1>3, <2>1 DEF EnterSession, Types
<1>4. CASE \E kind \in {"check", "judge"} : StartOp(kind)
  BY <1>0, <1>1, <1>2, <1>4 DEF StartOp, Able, InSession
<1>5. CASE EnterChild
  <2>1. [Started EXCEPT !.kids = Append(@, Fresh)] \in Sessions
    BY <1>0, <1>2, AppendProperties DEF Sessions
  <2> QED BY <1>0, <1>1, <1>5, <2>1 DEF EnterChild, Able, InSession
<1>6. CASE EndOp
  <2>1. PICK ok \in BOOLEAN, n \in 0..1 : log' = Append(log, OpOutcome(ok, n)) /\ sess' = Answered(n)
    BY <1>6 DEF EndOp
  <2>2. sess.op \in Ops
    BY <1>0, <1>6 DEF EndOp
  <2>3. OpOutcome(ok, n) \in Events
    BY <1>1, <2>2 DEF OpOutcome, Ops
  <2>4. sess' \in Sessions
    BY <1>2, <2>1
  <2>5. mode' = mode /\ stack' = stack /\ mishaps' = mishaps /\ state' = "open"
    BY <1>6 DEF EndOp, InSession
  <2> QED BY <1>0, <2>1, <2>3, <2>4, <2>5
<1>7. ASSUME sess.kids # <<>> PROVE Left \in Sessions /\ Last(sess.kids) \in Nat
  BY <1>0, <1>7, LeftFacts DEF Types
<1>71. CASE LeaveChild
  BY <1>0, <1>1, <1>7, <1>71 DEF LeaveChild, InSession
<1>72. CASE RecordChild
  <2>1. PICK inv \in ToSet(sess.kids) \cup sess.told :
            /\ log' = Append(log, ChildOutcome(inv, TRUE))
            /\ sess' = [sess EXCEPT !.told = @ \cup {inv}, !.ops = @ + 1]
    BY <1>72 DEF RecordChild
  <2>2. inv \in Nat
    BY <1>0, ElementOfSeq DEF ToSet
  <2>3. PICK n \in Nat : n = sess.ops + 1
    BY <1>0
  <2>4. PICK told : told = sess.told \cup {inv}
    OBVIOUS
  <2>5. sess' \in Sessions
    <3>1. told \in SUBSET Nat
      BY <1>0, <2>2, <2>4
    <3>2. sess' = [sess EXCEPT !.told = told, !.ops = n]
      BY <2>1, <2>3, <2>4
    <3> QED BY <1>0, <3>1, <3>2 DEF Sessions
  <2> QED BY <1>0, <1>1, <1>72, <2>1, <2>2, <2>5 DEF RecordChild, Able, InSession
<1>8. CASE CloseSession \/ ExitSession
  BY <1>0, <1>1, <1>2, <1>8 DEF CloseSession, ExitSession, InSession
<1>9. CASE OpLogFails
  <2>1. state' = state /\ state = "open" /\ mode' = mode /\ stack' = stack /\ mishaps' \in Nat
    BY <1>0, <1>9 DEF OpLogFails, InSession, Mishap
  <2>2. sess.op # None => OpOutcome(TRUE, 1) \in Events
    BY <1>0, <1>1 DEF OpOutcome, Ops
  <2>3. CASE Untold /\ sess' \in {sess, Left} /\ log' \in MaybeStored(ChildOutcome(Last(sess.kids), None))
    BY <1>0, <1>1, <1>7, <2>1, <2>3 DEF Untold, MaybeStored
  <2> QED BY <1>0, <1>1, <1>2, <1>9, <2>1, <2>2, <2>3 DEF OpLogFails, MaybeStored
<1> QED BY <1>3, <1>4, <1>5, <1>6, <1>71, <1>72, <1>8, <1>9 DEF SessionStep

LEMMA InitTypes == Init => Types /\ Shape
<1> SUFFICES ASSUME Init PROVE Types /\ Shape
  OBVIOUS
<1>1. NoSess \in Sessions
  BY DEF NoSess, Sessions
<1>2. ASSUME NEW w \in Workflows, mode = "run", stack = <<Level(w)>> PROVE Types /\ Shape
  <2>1. Level(w) \in Levels /\ Level(w).steps = w /\ Level(w).at = 1 /\ Level(w).pc = "next"
    BY LevelType DEF Parts
  <2>2. PICK lv \in Levels : lv = Level(w)
    BY <2>1
  <2>3. stack = <<lv>> /\ stack \in Seq(Levels) /\ Len(stack) = 1 /\ stack[1] = lv /\ DOMAIN stack = 1..1
    BY <1>2, <2>2
  <2>4. stack # <<>>
    BY <2>3
  <2> QED BY <1>1, <1>2, <2>1, <2>2, <2>3, <2>4 DEF Init, Types, Shape, StackOK
<1>3. ASSUME mode = "session", stack = <<>> PROVE Types /\ Shape
  BY <1>1, <1>3 DEF Init, Types, Shape
<1> QED BY <1>2, <1>3 DEF Init

\* Every step keeps the types and the shape.
LEMMA NextTypes ==
    ASSUME Types, Shape, [Next]_vars PROVE Types' /\ Shape'
<1>1. CASE UNCHANGED vars
  BY <1>1 DEF vars, Types, Shape, StackOK
<1>2. CASE Next /\ InRun
  <2>1. StackOK /\ state = "open" /\ mode = "run" /\ sess = NoSess
    BY <1>2 DEF Shape, InRun
  <2>2. /\ mode' = mode
        /\ \/ Dies \/ (sess' = sess /\ ((Moves /\ mishaps' = mishaps) \/ Faults))
           \/ sess' = sess /\ (mishaps' = mishaps \/ Mishap) /\ Unwinds
    BY <1>2, <2>1, RunMoves
  <2>3. CASE Dies
    BY <2>1, <2>3 DEF Dies, Mishap, Types, Shape
  <2>4. CASE sess' = sess /\ ((Moves /\ mishaps' = mishaps) \/ Faults)
    <3>1. /\ stack' \in Seq(Levels) /\ log' \in Seq(Events)
          /\ \/ state' \in {"failed", "done"}
             \/ state' = "open" /\ StackOK'
      BY <2>1, <2>4, RunShape
    <3>2. mishaps' \in Nat
      BY <2>4 DEF Faults, Types
    <3> QED BY <2>1, <2>2, <2>4, <3>1, <3>2 DEF Types, Shape
  <2>5. CASE sess' = sess /\ (mishaps' = mishaps \/ Mishap) /\ Unwinds
    BY <2>1, <2>2, <2>5 DEF Unwinds, Mishap, Types, Shape
  <2> QED BY <2>2, <2>3, <2>4, <2>5
<1>3. CASE SessionStep /\ mode = "session"
  <2>1. /\ sess' \in Sessions /\ mode' = mode /\ stack' = stack
        /\ mishaps' \in Nat /\ state' \in {"open", "over"}
        /\ log' = log \/ \E e \in Events : log' = Append(log, e)
    BY <1>3, SessionTypes
  <2>2. log' \in Seq(Events)
    BY <2>1, LogAppend DEF Types
  <2> QED BY <1>3, <2>1, <2>2 DEF Types, Shape
<1>4. CASE Dies /\ ~InRun
  BY <1>4 DEF Dies, Mishap, InRun, Types, Shape, StackOK, Finished
<1>5. CASE Begin
  <2>1. log' = <<Loaded(0, Root)>> /\ Loaded(0, Root) \in Events
    BY <1>5 DEF Begin, Events, Labels, Loaded, Event
  <2>2. log' \in Seq(Events)
    BY <2>1
  <2> QED BY <1>5, <2>2 DEF Begin, Types, Shape, StackOK
<1>6. CASE EndRun
  <2>1. log' = Append(log, RootOutcome) /\ RootOutcome \in Events
    BY <1>6 DEF EndRun, RootOutcome, Outcome, Event, Events, Labels
  <2>2. log' \in Seq(Events)
    BY <2>1, AppendProperties DEF Types
  <2> QED BY <1>6, <2>2 DEF EndRun, Types, Shape
<1>7. (RunStep \/ Interrupted) /\ ~InRun => Begin \/ EndRun
  BY DEF RunStep, InRun, Running, OpenStep, PreGuards, PostGuards, Guard, Execute, Exits,
         Interrupted, Iterate, CloseStep, EndLevel, StepLogFails
<1>8. SessionStep => mode = "session"
  BY DEF SessionStep, EnterSession, EnterChild, EndOp, RecordChild, LeaveChild, CloseSession, ExitSession,
         OpLogFails, StartOp, InSession, Able
<1> QED BY <1>1, <1>2, <1>3, <1>4, <1>5, <1>6, <1>7, <1>8 DEF Next

-----------------------------------------------------------------------------
(* The log: an invocation opens with a number of its own, and what ends has  *)
(* begun.                                                                    *)

Logs(e) == e \in Events /\ log' = Append(log, e)
Books == Types /\ Numbered /\ Preceded

\* The invocations loaded are numbered from 0, and only they have ended.
LEMMA Members ==
    ASSUME Books
    PROVE  /\ Fresh \in Nat /\ Loads \subseteq 0..Fresh - 1 /\ Ended \subseteq Loads
           /\ Fresh \notin Loads
<1>1. Fresh \in Nat /\ DOMAIN log = 1..Len(log) /\ Len(log) \in Nat /\ \A k \in DOMAIN log : log[k] \in Events
  BY FreshType, LenProperties, ElementOfSeq DEF Books, Types
<1>2. Loads \subseteq 0..Fresh - 1
  <2>1. SUFFICES ASSUME NEW k \in DOMAIN log, log[k].phase = "loaded" PROVE log[k].inv \in 0..Fresh - 1
    BY DEF Loads, With
  <2>2. log[k].inv < Fresh /\ log[k].inv \in Nat
    BY <1>1, <2>1 DEF Books, Numbered, Events
  <2> QED BY <1>1, <2>2
<1>3. Ended \subseteq Loads
  <2>1. SUFFICES ASSUME NEW k \in DOMAIN log, log[k].phase = "outcome" PROVE log[k].inv \in Loads
    BY DEF Ended, With
  <2>2. PICK j \in 1..k - 1 : log[j].inv = log[k].inv /\ log[j].phase = "loaded"
    BY <2>1 DEF Books, Preceded
  <2>3. j \in DOMAIN log
    BY <1>1, <2>1, <2>2
  <2> QED BY <2>2, <2>3 DEF Loads, With
<1> QED BY <1>1, <1>2, <1>3

\* An event adds its invocation to those loaded or to those ended.
LEMMA LogsSets ==
    ASSUME Types, NEW e, Logs(e)
    PROVE  /\ e.phase = "loaded" => Loads' = Loads \cup {e.inv} /\ Ended' = Ended
           /\ e.phase = "outcome" => Loads' = Loads /\ Ended' = Ended \cup {e.inv}
           /\ Len(log) \in Nat /\ Len(log') = Len(log) + 1
           /\ Fresh \in Nat /\ Fresh' = Fresh + (IF e.phase = "loaded" THEN 1 ELSE 0)
           /\ DOMAIN log = 1..Len(log) /\ DOMAIN log' = 1..Len(log) + 1
           /\ log'[Len(log) + 1] = e /\ \A k \in 1..Len(log) : log'[k] = log[k]
<1>1. /\ Len(log) \in Nat /\ Len(log') = Len(log) + 1
      /\ Fresh \in Nat /\ Fresh' = Fresh + (IF e.phase = "loaded" THEN 1 ELSE 0)
      /\ DOMAIN log = 1..Len(log) /\ DOMAIN log' = 1..Len(log) + 1
      /\ log'[Len(log) + 1] = e /\ \A k \in 1..Len(log) : log'[k] = log[k]
  BY LogAppend DEF Logs, Types
<1>2. \A phase : With(phase)' = With(phase) \cup (IF e.phase = phase THEN {Len(log) + 1} ELSE {})
  BY <1>1 DEF With
<1>3. \A phase : /\ Len(log) + 1 \notin With(phase) /\ With(phase) \subseteq 1..Len(log)
  BY <1>1 DEF With
<1>4. CASE e.phase = "loaded"
  <2>1. With("loaded")' = With("loaded") \cup {Len(log) + 1} /\ With("outcome")' = With("outcome")
    BY <1>2, <1>4
  <2> QED BY <1>1, <1>3, <1>4, <2>1 DEF Loads, Ended
<1>5. CASE e.phase = "outcome"
  <2>1. With("outcome")' = With("outcome") \cup {Len(log) + 1} /\ With("loaded")' = With("loaded")
    BY <1>2, <1>5
  <2> QED BY <1>1, <1>3, <1>5, <2>1 DEF Loads, Ended
<1> QED BY <1>1, <1>4, <1>5

\* What has been loaded as a child stays one.
LEMMA ChildStays ==
    ASSUME Types, NEW e, Logs(e), mode' = mode
    PROVE  \A x : IsChild(x) => IsChild(x)'
<1>1. \A k \in DOMAIN log : k \in DOMAIN log' /\ log'[k] = log[k]
  BY LogsSets
<1> QED BY <1>1 DEF IsChild, Loaded

\* A loaded event with the next number, an outcome of what was loaded.
LEMMA Starts ==
    ASSUME Books, NEW e, Logs(e), e.phase = "loaded", e.inv = Fresh, mode' = mode
    PROVE  Numbered' /\ Preceded' /\ (OnceEach => OnceEach')
<1>0. /\ Len(log) \in Nat /\ Fresh \in Nat /\ Fresh' = Fresh + 1
      /\ DOMAIN log = 1..Len(log) /\ DOMAIN log' = 1..Len(log) + 1
      /\ log'[Len(log) + 1] = e /\ \A k \in 1..Len(log) : log'[k] = log[k]
      /\ \A k \in 1..Len(log) : log[k].inv \in Nat
  <2>1. \A k \in 1..Len(log) : log[k] \in Events
    BY ElementOfSeq DEF Books, Types
  <2>2. \A k \in 1..Len(log) : log[k].inv \in Nat
    BY <2>1 DEF Events
  <2> QED BY <2>2, LogsSets DEF Books
<1>1. Numbered'
  BY <1>0 DEF Books, Numbered
<1>2. Preceded'
  <2> SUFFICES ASSUME NEW k \in 1..Len(log) + 1, log'[k].phase = "outcome"
      PROVE \E j \in 1..k - 1 : log'[j].inv = log'[k].inv /\ log'[j].phase = "loaded"
    BY <1>0 DEF Preceded
  <2>1. k \in 1..Len(log)
    BY <1>0
  <2>2. PICK j \in 1..k - 1 : log[j].inv = log[k].inv /\ log[j].phase = "loaded"
    BY <1>0, <2>1 DEF Books, Preceded
  <2> QED BY <1>0, <2>1, <2>2
<1>3. OnceEach => OnceEach'
  <2>1. SUFFICES ASSUME OnceEach, NEW j \in With("outcome")', NEW k \in With("outcome")', j # k
                 PROVE  log'[j].inv # log'[k].inv \/ IsChild(log[j].inv)'
    BY DEF OnceEach
  <2>2. j \in With("outcome") /\ k \in With("outcome") /\ log'[j] = log[j] /\ log'[k] = log[k]
    BY <1>0, <2>1 DEF With
  <2> QED BY <2>1, <2>2, ChildStays DEF OnceEach, Books
<1> QED BY <1>1, <1>2, <1>3

LEMMA Finishes ==
    ASSUME Books, NEW e, Logs(e), e.phase = "outcome", e.inv \in Loads, mode' = mode
    PROVE  /\ Numbered' /\ Preceded'
           /\ OnceEach /\ (e.inv \notin Ended \/ IsChild(e.inv)) => OnceEach'
<1>0. /\ Len(log) \in Nat /\ Fresh \in Nat /\ Fresh' = Fresh
      /\ DOMAIN log = 1..Len(log) /\ DOMAIN log' = 1..Len(log) + 1
      /\ log'[Len(log) + 1] = e /\ \A k \in 1..Len(log) : log'[k] = log[k]
  BY LogsSets DEF Books
<1>1. Numbered'
  BY <1>0 DEF Books, Numbered
<1>2. Preceded'
  <2> SUFFICES ASSUME NEW k \in 1..Len(log) + 1, log'[k].phase = "outcome"
      PROVE \E j \in 1..k - 1 : log'[j].inv = log'[k].inv /\ log'[j].phase = "loaded"
    BY <1>0 DEF Preceded
  <2>1. CASE k \in 1..Len(log)
    <3>1. PICK j \in 1..k - 1 : log[j].inv = log[k].inv /\ log[j].phase = "loaded"
      BY <1>0, <2>1 DEF Books, Preceded
    <3> QED BY <1>0, <2>1, <3>1
  <2>2. CASE k = Len(log) + 1
    <3>1. PICK j \in 1..Len(log) : log[j].inv = e.inv /\ log[j].phase = "loaded"
      BY <1>0 DEF Loads, With
    <3> QED BY <1>0, <2>2, <3>1
  <2> QED BY <1>0, <2>1, <2>2
<1>3. OnceEach /\ (e.inv \notin Ended \/ IsChild(e.inv)) => OnceEach'
  <2>1. SUFFICES ASSUME OnceEach, e.inv \notin Ended \/ IsChild(e.inv), NEW j \in With("outcome")',
                        NEW k \in With("outcome")', j # k, log'[j].inv = log'[k].inv
                 PROVE  IsChild(log[j].inv)'
    BY DEF OnceEach
  <2>2. CASE j \in 1..Len(log) /\ k \in 1..Len(log)
    <3>1. j \in With("outcome") /\ k \in With("outcome") /\ log'[j] = log[j] /\ log'[k] = log[k]
      BY <1>0, <2>1, <2>2 DEF With
    <3> QED BY <2>1, <3>1, ChildStays DEF OnceEach, Books
  <2>3. CASE ~(j \in 1..Len(log) /\ k \in 1..Len(log))
    <3>1. log'[j].inv = e.inv /\ \E i \in 1..Len(log) : log[i].inv = e.inv /\ log[i].phase = "outcome"
      BY <1>0, <2>1, <2>3 DEF With
    <3>2. e.inv \in Ended
      BY <1>0, <3>1 DEF Ended, With
    <3> QED BY <2>1, <3>1, <3>2, ChildStays DEF Books
  <2> QED BY <2>2, <2>3
<1> QED BY <1>1, <1>2, <1>3

-----------------------------------------------------------------------------
(* What is in progress has begun, and without a fault it has not ended.      *)

\* The last of m levels is new or changed.
LEMMA LevelsBegun ==
    ASSUME Books, Begun, StackOK, InRun, Loads \subseteq Loads', NEW m \in 1..Len(stack) + 1,
           NEW lv \in Levels, Becomes(m, lv), UNCHANGED <<sess, state>>, sess = NoSess,
           lv.pc # "next" =>
              /\ lv.inv \in Loads' /\ lv.inv # 0
              /\ \A j \in 1..m - 1 : stack[j].inv < lv.inv
    PROVE  Begun'
<1>1. /\ DOMAIN stack' = 1..m /\ stack'[m] = lv /\ \A i \in 1..m - 1 : stack'[i] = stack[i]
      /\ DOMAIN stack = 1..Len(stack) /\ Len(stack) \in Nat
  BY LenProperties DEF Becomes, Books, Types
<1>2. \A i \in 1..m - 1 : i \in DOMAIN stack /\ i < Len(stack) + 1
  BY <1>1
<1>3. \A i \in DOMAIN stack' : stack'[i].pc # "next" =>
          /\ stack'[i].inv \in Loads' /\ stack'[i].inv # 0
          /\ \A j \in 1..i - 1 : stack'[j].inv < stack'[i].inv
  <2> SUFFICES ASSUME NEW i \in 1..m, stack'[i].pc # "next"
      PROVE /\ stack'[i].inv \in Loads' /\ stack'[i].inv # 0
            /\ \A j \in 1..i - 1 : stack'[j].inv < stack'[i].inv
    BY <1>1
  <2>1. CASE i = m
    BY <1>1, <2>1
  <2>2. CASE i # m
    <3>1. i \in 1..m - 1 /\ InStep(i)
      BY <1>1, <2>2 DEF InStep
    <3>2. /\ stack[i].inv \in Loads /\ stack[i].inv # 0
          /\ \A j \in 1..i - 1 : stack[j].inv < stack[i].inv
      BY <1>2, <3>1 DEF Begun
    <3>3. \A j \in 1..i - 1 : stack'[j] = stack[j]
      BY <1>1, <3>1
    <3> QED BY <1>1, <3>1, <3>2, <3>3
  <2> QED BY <2>1, <2>2
<1>4. sess'.op = None /\ sess'.kids = <<>> /\ sess'.told = {} /\ 0 \in Loads'
  BY DEF NoSess, Begun, InRun
<1> QED BY <1>3, <1>4 DEF Begun, InStep, InRun

LEMMA LevelsUnfinished ==
    ASSUME Books, Unfinished, StackOK, InRun, NEW m \in 1..Len(stack) + 1,
           NEW lv \in Levels, Becomes(m, lv), UNCHANGED <<sess, state>>, sess = NoSess,
           0 \notin Ended', lv.pc # "next" => lv.inv \notin Ended',
           \A j \in 1..m - 1 : InStep(j) => stack[j].inv \notin Ended'
    PROVE  Unfinished'
<1>1. /\ DOMAIN stack' = 1..m /\ stack'[m] = lv /\ \A i \in 1..m - 1 : stack'[i] = stack[i]
      /\ DOMAIN stack = 1..Len(stack) /\ Len(stack) \in Nat
  BY LenProperties DEF Becomes, Books, Types
<1>2. \A i \in DOMAIN stack' : stack'[i].pc # "next" => stack'[i].inv \notin Ended'
  BY <1>1 DEF InStep
<1>3. sess.op = None /\ sess.kids = <<>> /\ sess.closed = FALSE
  BY DEF NoSess
<1> QED BY <1>2, <1>3 DEF Unfinished, InStep, InRun

LEMMA LevelsAccounted ==
    ASSUME Books, InRun, NEW m \in 1..Len(stack) + 1, NEW lv \in Levels, Becomes(m, lv),
           UNCHANGED <<sess, state, mode>>, sess = NoSess,
           \A x \in Loads' : \/ x \in Ended' \/ x = 0 \/ (lv.pc # "next" /\ lv.inv = x)
                             \/ \E j \in 1..m - 1 : InStep(j) /\ stack[j].inv = x
    PROVE  Accounted'
<1>1. /\ DOMAIN stack' = 1..m /\ stack'[m] = lv /\ \A i \in 1..m - 1 : stack'[i] = stack[i]
      /\ m \in DOMAIN stack' /\ \A i \in 1..m - 1 : i \in DOMAIN stack'
  BY LenProperties DEF Becomes, Books, Types
<1>2. sess'.closed = FALSE /\ state' = "open" /\ mode' = "run"
  BY DEF NoSess, InRun
<1>3. ASSUME NEW x \in Loads' PROVE x \in Ended' \/ Busy(x)'
  <2>1. CASE x = 0
    BY <1>2, <2>1 DEF Busy, Finished
  <2>2. CASE lv.pc # "next" /\ lv.inv = x
    BY <1>1, <1>2, <2>2 DEF Busy, InRun, InStep
  <2>3. CASE \E j \in 1..m - 1 : InStep(j) /\ stack[j].inv = x
    BY <1>1, <1>2, <2>3 DEF Busy, InRun, InStep
  <2> QED BY <1>3, <2>1, <2>2, <2>3
<1> QED BY <1>2, <1>3 DEF Accounted

\* The part of the invariant that faults do not disturb.
PairBase == Books /\ Shape /\ Begun

\* The steps that leave the run in progress, by what they do to the log.
LEMMA SettlesPairs ==
    ASSUME PairBase, InRun, NEW m, Settles(m), Loads \subseteq Loads', sess' = sess
    PROVE  /\ Begun'
           /\ /\ Unfinished /\ 0 \notin Ended'
              /\ \A j \in 1..m : InStep(j) => stack[j].inv \notin Ended'
              => Unfinished'
           /\ /\ \A x \in Loads' : x \in Ended' \/ x = 0 \/ \E j \in 1..m : InStep(j) /\ stack[j].inv = x
              /\ mode' = mode
              => Accounted'
<1>1. PICK lv \in Levels :
          /\ Becomes(m, lv) /\ lv.pc # "next" /\ m \in 1..Len(stack) /\ stack[m].pc # "next"
          /\ lv.inv = stack[m].inv /\ state' = state
  BY DEF Settles
<1>2. StackOK /\ Books /\ Begun /\ sess = NoSess
  BY DEF PairBase, InRun, Shape
<1>3. Len(stack) \in Nat /\ DOMAIN stack = 1..Len(stack) /\ m \in 1..Len(stack) + 1 /\ InStep(m)
  BY <1>1, LenProperties DEF PairBase, Books, Types, InStep
<1>4. lv.inv \in Loads' /\ lv.inv # 0 /\ \A j \in 1..m - 1 : stack[j].inv < lv.inv
  BY <1>1, <1>2, <1>3 DEF Begun
<1>5. Begun'
  BY <1>1, <1>2, <1>3, <1>4, LevelsBegun
<1>6. ASSUME Unfinished, 0 \notin Ended', \A j \in 1..m : InStep(j) => stack[j].inv \notin Ended'
      PROVE  Unfinished'
  <2>1. lv.inv \notin Ended' /\ \A j \in 1..m - 1 : InStep(j) => stack[j].inv \notin Ended'
    BY <1>1, <1>3, <1>6
  <2> QED BY <1>1, <1>2, <1>3, <1>6, <2>1, LevelsUnfinished
<1>7. ASSUME mode' = mode,
             \A x \in Loads' : x \in Ended' \/ x = 0 \/ \E j \in 1..m : InStep(j) /\ stack[j].inv = x
      PROVE  Accounted'
  <2>1. \A j \in 1..m : j = m \/ j \in 1..m - 1
    BY <1>3
  <2>2. \A x \in Loads' : \/ x \in Ended' \/ x = 0 \/ (lv.pc # "next" /\ lv.inv = x)
                          \/ \E j \in 1..m - 1 : InStep(j) /\ stack[j].inv = x
    BY <1>1, <1>7, <2>1
  <2> QED BY <1>1, <1>2, <1>3, <1>7, <2>2, LevelsAccounted
<1> QED BY <1>5, <1>6, <1>7

LEMMA FreshOne == ASSUME PairBase, state # "new" PROVE Fresh > 0 /\ Fresh \in Nat
<1>1. 0 \in Loads
  BY DEF PairBase, Begun
<1> QED BY <1>1, Members DEF PairBase

LEMMA RunTop ==
    ASSUME PairBase, InRun
    PROVE  /\ StackOK /\ Types /\ sess = NoSess /\ state = "open" /\ mode = "run"
           /\ sess.op = None /\ sess.kids = <<>> /\ sess.told = {} /\ sess.closed = FALSE
           /\ \E n \in Nat \ {0} :
                 /\ n = Len(stack) /\ Top = stack[n] /\ DOMAIN stack = 1..n
                 /\ n \in 1..Len(stack) + 1 /\ n + 1 \in 1..Len(stack) + 1
                 /\ \A j \in 1..n - 1 : InStep(j) /\ j \in DOMAIN stack
                 /\ \A j \in 1..n : j = n \/ j \in 1..n - 1
           /\ Accounted => \A x \in Loads :
                 x \in Ended \/ x = 0 \/ \E j \in DOMAIN stack : InStep(j) /\ stack[j].inv = x
<1>1. StackOK /\ Types /\ sess = NoSess /\ state = "open" /\ mode = "run"
  BY DEF PairBase, InRun, Shape, Books
<1>2. PICK n \in Nat \ {0} : n = Len(stack) /\ Top = stack[n] /\ DOMAIN stack = 1..n
  BY <1>1, TopFacts
<1>3. n \in 1..n + 1 /\ n + 1 \in 1..n + 1 /\ \A j \in 1..n : j = n \/ j \in 1..n - 1
  BY <1>2
<1>4. \A j \in 1..n - 1 : j \in DOMAIN stack /\ j < n
  BY <1>2
<1>5. \A j \in 1..n - 1 : InStep(j)
  BY <1>1, <1>2, <1>4 DEF StackOK, InStep
<1>6. sess.op = None /\ sess.kids = <<>> /\ sess.told = {} /\ sess.closed = FALSE
  BY <1>1 DEF NoSess
<1>7. Accounted => \A x \in Loads :
          x \in Ended \/ x = 0 \/ \E j \in DOMAIN stack : InStep(j) /\ stack[j].inv = x
  BY <1>1, <1>6 DEF Accounted, Busy
<1> QED BY <1>1, <1>2, <1>3, <1>4, <1>5, <1>6, <1>7

LEMMA LeavesPairs ==
    ASSUME PairBase, InRun, NEW end \in {"failed", "done"}, Leaves(end),
           Loads \subseteq Loads', UNCHANGED <<sess, mode>>
    PROVE  /\ Begun'
           /\ /\ Unfinished /\ 0 \notin Ended'
              /\ \A j \in 1..Len(stack) - 1 : stack[j].inv \notin Ended'
              => Unfinished'
           /\ (\A x \in Loads' : x \in Ended' \/ x = 0 \/ \E j \in 1..Len(stack) - 1 : stack[j].inv = x)
              => Accounted'
<1>1. /\ StackOK /\ Types /\ sess = NoSess /\ state = "open" /\ mode = "run"
      /\ mode' = mode /\ sess' = sess
  BY RunTop
<1>2. PICK n \in Nat \ {0} : n = Len(stack) /\ \A j \in 1..n - 1 : InStep(j)
  BY RunTop
<1>3. CASE n = 1
  <2>1. state' = end /\ mode' = "run" /\ sess' = NoSess /\ 0 \in Loads' /\ state' \notin Finished
    BY <1>1, <1>2, <1>3 DEF Leaves, PairBase, Begun, Finished
  <2>2. /\ sess'.op = None /\ sess'.kids = <<>> /\ sess'.told = {} /\ sess'.closed = FALSE
        /\ ~InRun'
    BY <2>1 DEF NoSess, InRun
  <2>3. (\A x \in Loads' : x \in Ended' \/ x = 0) => Accounted'
    BY <2>1, <2>2 DEF Accounted, Busy
  <2> QED BY <1>2, <1>3, <2>1, <2>2, <2>3 DEF Begun, Unfinished
<1>4. CASE n # 1
  <2>1. PICK m \in Nat : m = n - 1
    BY <1>2
  <2>2. Settles(m)
    BY <1>2, <1>4, <2>1 DEF Leaves
  <2> QED BY <1>1, <1>2, <2>1, <2>2, SettlesPairs
<1> QED BY <1>3, <1>4

LEMMA TurnsPairs ==
    ASSUME PairBase, InRun, UNCHANGED <<sess, mode, log>>, Turns \/ Ends \/ Enters
    PROVE  Begun' /\ (Unfinished => Unfinished') /\ (Accounted => Accounted')
<1>1. /\ StackOK /\ Types /\ sess = NoSess /\ state = "open" /\ mode = "run"
      /\ sess.closed = FALSE /\ mode' = mode /\ sess' = sess
  BY RunTop
<1>2. PICK n \in Nat \ {0} :
          /\ n = Len(stack) /\ Top = stack[n] /\ DOMAIN stack = 1..n
          /\ n \in 1..Len(stack) + 1 /\ n + 1 \in 1..Len(stack) + 1
          /\ \A j \in 1..n - 1 : InStep(j) /\ j \in DOMAIN stack
          /\ \A j \in 1..n : j = n \/ j \in 1..n - 1
  BY RunTop
<1>3. Loads' = Loads /\ Ended' = Ended
  BY DEF Loads, Ended, With
<1>4. Unfinished => /\ 0 \notin Ended' /\ \A j \in 1..n : InStep(j) => stack[j].inv \notin Ended'
  BY <1>1, <1>2, <1>3 DEF Unfinished, InRun, Finished
<1>5. Accounted => \A x \in Loads' :
          x \in Ended' \/ x = 0 \/ \E j \in 1..n : InStep(j) /\ stack[j].inv = x
  BY <1>2, <1>3, RunTop
<1>6. CASE Turns
  <2>1. Settles(n)
    BY <1>2, <1>6 DEF Turns
  <2> QED BY <1>1, <1>3, <1>4, <1>5, <2>1, SettlesPairs
<1>7. CASE Ends
  <2>1. PICK end \in {"failed", "done"} : Leaves(end) /\ Top.pc = "next"
    BY <1>7 DEF Ends
  <2>2. Unfinished => \A j \in 1..n - 1 : stack[j].inv \notin Ended'
    BY <1>2, <1>4
  <2>3. Accounted => \A x \in Loads' : x \in Ended' \/ x = 0 \/ \E j \in 1..n - 1 : stack[j].inv = x
    <3>1. ~InStep(n)
      BY <1>2, <2>1 DEF InStep
    <3> QED BY <1>2, <1>5, <3>1
  <2> QED BY <1>1, <1>2, <1>3, <1>4, <2>1, <2>2, <2>3, LeavesPairs
<1>8. CASE Enters
  <2>1. PICK b \in Bodies : Becomes(n + 1, Level(b)) /\ Top.pc # "next" /\ state' = state
    BY <1>2, <1>8 DEF Enters
  <2>2. PICK lv \in Levels : lv = Level(b) /\ lv.pc = "next"
    BY LevelType DEF Parts
  <2>3. Becomes(n + 1, lv)
    BY <2>1, <2>2
  <2>4. PICK m \in Nat : m = n + 1 /\ m \in 1..Len(stack) + 1 /\ m - 1 = n
    BY <1>2
  <2>5. Begun'
    BY <1>1, <1>3, <2>1, <2>2, <2>3, <2>4, LevelsBegun DEF PairBase
  <2>6. Unfinished => Unfinished'
    BY <1>1, <1>4, <2>1, <2>2, <2>3, <2>4, LevelsUnfinished DEF PairBase
  <2>7. Accounted => Accounted'
    BY <1>1, <1>5, <2>1, <2>2, <2>3, <2>4, LevelsAccounted DEF PairBase
  <2> QED BY <2>5, <2>6, <2>7
<1> QED BY <1>6, <1>7, <1>8

LEMMA OpensPairs ==
    ASSUME PairBase, InRun, UNCHANGED <<sess, mode>>, Opens
    PROVE  /\ Numbered' /\ Preceded' /\ Begun' /\ (Once => Once') /\ (Accounted => Accounted')
<1>1. /\ StackOK /\ Types /\ sess = NoSess /\ state = "open" /\ mode = "run"
      /\ sess.closed = FALSE /\ mode' = mode /\ sess' = sess
  BY RunTop
<1>2. PICK n \in Nat \ {0} :
          /\ n = Len(stack) /\ Top = stack[n] /\ DOMAIN stack = 1..n
          /\ n \in 1..Len(stack) + 1
          /\ \A j \in 1..n - 1 : InStep(j) /\ j \in DOMAIN stack
          /\ \A j \in 1..n : j = n \/ j \in 1..n - 1
  BY RunTop
<1>3. Fresh > 0 /\ Fresh \in Nat /\ Loads \subseteq 0..Fresh - 1 /\ Ended \subseteq Loads
  BY <1>1, FreshOne, Members DEF PairBase
<1>4. PICK e : e = Loaded(Fresh, Step.id)
  OBVIOUS
<1>5. Logs(e) /\ e.phase = "loaded" /\ e.inv = Fresh
  BY <1>1, <1>4, EventTypes DEF Opens, Logs, Loaded, Event
<1>6. /\ Loads' = Loads \cup {Fresh} /\ Ended' = Ended /\ Fresh' = Fresh + 1
      /\ Len(log') = Len(log) + 1 /\ Len(log) \in Nat
  <2>1. Fresh' = Fresh + (IF e.phase = "loaded" THEN 1 ELSE 0)
    BY <1>1, <1>5, LogsSets
  <2> QED BY <1>1, <1>5, <2>1, LogsSets
<1>7. Numbered' /\ Preceded' /\ (OnceEach => OnceEach')
  BY <1>1, <1>5, Starts DEF PairBase
<1>8. PICK lv \in Levels : Becomes(n, lv) /\ lv.pc = "pre" /\ lv.inv = Fresh /\ state' = state
  BY <1>2 DEF Opens
<1>9. \A j \in 1..n - 1 : stack[j].inv < lv.inv
  <2>1. \A j \in 1..n - 1 : stack[j].inv \in Loads
    BY <1>2 DEF PairBase, Begun
  <2>2. \A i \in 0..Fresh - 1 : i < Fresh
    BY <1>3
  <2> QED BY <1>3, <1>8, <2>1, <2>2
<1>10. Begun'
  <2>1. lv.inv \in Loads' /\ lv.inv # 0
    BY <1>3, <1>6, <1>8
  <2> QED BY <1>1, <1>2, <1>6, <1>8, <1>9, <2>1, LevelsBegun DEF PairBase
<1>11. Unfinished => Unfinished'
  <2>1. SUFFICES ASSUME Unfinished PROVE Unfinished'
    OBVIOUS
  <2>2. 0 \notin Ended' /\ lv.inv \notin Ended'
    <3>1. Fresh \notin Loads
      BY Members DEF PairBase
    <3> QED BY <1>1, <1>3, <1>6, <1>8, <2>1, <3>1 DEF Unfinished, Finished
  <2>3. \A j \in 1..n - 1 : stack[j].inv \notin Ended'
    BY <1>2, <1>6, <2>1 DEF Unfinished
  <2> QED BY <1>1, <1>2, <1>8, <2>1, <2>2, <2>3, LevelsUnfinished DEF PairBase
<1>12. Accounted => Accounted'
  <2>1. SUFFICES ASSUME Accounted PROVE Accounted'
    OBVIOUS
  <2>2. ~InStep(n)
    BY <1>2 DEF Opens, InStep
  <2>3. \A x \in Loads' : \/ x \in Ended' \/ x = 0 \/ (lv.pc # "next" /\ lv.inv = x)
                          \/ \E j \in 1..n - 1 : InStep(j) /\ stack[j].inv = x
    <3>1. \A x \in Loads :
              x \in Ended \/ x = 0 \/ \E j \in DOMAIN stack : InStep(j) /\ stack[j].inv = x
      BY <2>1, RunTop
    <3> QED BY <1>2, <1>6, <1>8, <2>2, <3>1
  <2> QED BY <1>1, <1>2, <1>8, <2>3, LevelsAccounted DEF PairBase
<1> QED BY <1>7, <1>10, <1>11, <1>12 DEF Once

LEMMA ClosesPairs ==
    ASSUME PairBase, InRun, UNCHANGED <<sess, mode>>, Closes
    PROVE  /\ Numbered' /\ Preceded' /\ Begun' /\ (Once => Once') /\ (Accounted => Accounted')
<1>1. /\ StackOK /\ Types /\ sess = NoSess /\ state = "open" /\ mode = "run"
      /\ sess.closed = FALSE /\ mode' = mode /\ sess' = sess
  BY RunTop
<1>2. PICK n \in Nat \ {0} :
          /\ n = Len(stack) /\ Top = stack[n] /\ DOMAIN stack = 1..n
          /\ n \in 1..Len(stack) + 1
          /\ \A j \in 1..n - 1 : InStep(j) /\ j \in DOMAIN stack
          /\ \A j \in 1..n : j = n \/ j \in 1..n - 1
  BY RunTop
<1>3. n \in DOMAIN stack /\ InStep(n) /\ Top.pc = "close"
  BY <1>2 DEF Closes, InStep
<1>4. /\ Top.inv \in Loads /\ Top.inv # 0 /\ Top.at \in DOMAIN Top.steps
      /\ \A j \in 1..n - 1 : stack[j].inv < Top.inv
  BY <1>1, <1>2, <1>3 DEF PairBase, Begun, StackOK, InStep
<1>5. PICK e : e = Closing(Top)
  OBVIOUS
<1>6. Logs(e) /\ e.phase = "outcome" /\ e.inv = Top.inv
  BY <1>1, <1>4, <1>5, EventTypes DEF Closes, Logs, Closing, Outcome, Event
<1>7. /\ Loads' = Loads /\ Ended' = Ended \cup {Top.inv} /\ Fresh' = Fresh /\ Fresh \in Nat
      /\ Len(log') = Len(log) + 1 /\ Len(log) \in Nat
  <2>1. Fresh' = Fresh + (IF e.phase = "loaded" THEN 1 ELSE 0) /\ Fresh \in Nat
    BY <1>1, <1>6, LogsSets
  <2> QED BY <1>1, <1>6, <2>1, LogsSets
<1>8. Numbered' /\ Preceded' /\ (OnceEach /\ Top.inv \notin Ended => OnceEach')
  BY <1>1, <1>4, <1>6, Finishes DEF PairBase
<1>9. ASSUME Unfinished
      PROVE  /\ Top.inv \notin Ended /\ 0 \notin Ended'
             /\ \A j \in 1..n - 1 : stack[j].inv \notin Ended'
  <2>1. Top.inv \notin Ended /\ 0 \notin Ended
    BY <1>1, <1>2, <1>3, <1>9 DEF Unfinished, Finished
  <2>2. ASSUME NEW j \in 1..n - 1 PROVE stack[j].inv \notin Ended'
    <3>1. stack[j].inv \notin Ended
      BY <1>2, <1>9 DEF Unfinished
    <3>2. stack[j].inv # Top.inv
      <4>1. Top.inv \in Nat /\ stack[j].inv < Top.inv
        BY <1>1, <1>4, TopFacts DEF Levels
      <4> QED BY <4>1
    <3> QED BY <1>7, <3>1, <3>2
  <2> QED BY <1>4, <1>7, <2>1, <2>2
<1>10. Accounted => \A x \in Loads' :
           x \in Ended' \/ x = 0 \/ \E j \in 1..n - 1 : InStep(j) /\ stack[j].inv = x
  <2>1. SUFFICES ASSUME Accounted, NEW x \in Loads, x \notin Ended, x # 0, x # Top.inv
                 PROVE  \E j \in 1..n - 1 : InStep(j) /\ stack[j].inv = x
    BY <1>7
  <2>2. PICK j \in DOMAIN stack : InStep(j) /\ stack[j].inv = x
    BY <2>1, RunTop
  <2> QED BY <1>2, <2>1, <2>2
<1>11. /\ Begun' /\ (Unfinished => Unfinished') /\ (Accounted => Accounted')
  <2>1. CASE Leaves("failed")
    BY <1>1, <1>2, <1>7, <1>9, <1>10, <2>1, LeavesPairs
  <2>2. CASE ~Leaves("failed")
    <3>1. PICK lv \in Levels : Becomes(n, lv) /\ lv.pc = "next" /\ state' = state
      BY <1>2, <2>2 DEF Closes
    <3>2. Begun'
      BY <1>1, <1>2, <1>7, <3>1, LevelsBegun DEF PairBase
    <3>3. Accounted => Accounted'
      BY <1>1, <1>2, <1>10, <3>1, LevelsAccounted DEF PairBase
    <3>4. Unfinished => Unfinished'
      BY <1>1, <1>2, <1>9, <3>1, LevelsUnfinished DEF PairBase
    <3> QED BY <3>2, <3>3, <3>4
  <2> QED BY <2>1, <2>2
<1> QED BY <1>8, <1>9, <1>11 DEF Once

LEMMA FaultsPairs ==
    ASSUME PairBase, InRun, UNCHANGED <<sess, mode>>, Faults
    PROVE  Numbered' /\ Preceded' /\ Begun' /\ mishaps' # 0
<1>1. StackOK /\ Types /\ Leaves("done") /\ mishaps' = mishaps + 1
  BY RunTop DEF Faults
<1>2. mishaps' # 0
  BY <1>1 DEF Types
<1>3. CASE log' = log
  <2>1. Loads' = Loads
    BY <1>3 DEF Loads, With
  <2>2. Numbered' /\ Preceded'
    BY <1>3 DEF PairBase, Books, Numbered, Preceded, Fresh
  <2> QED BY <1>1, <1>2, <2>1, <2>2, LeavesPairs
<1>4. CASE Top.pc = "next" /\ Top.at \in DOMAIN Top.steps /\ log' = Append(log, Loaded(Fresh, Step.id))
  <2>1. PICK e : e = Loaded(Fresh, Step.id)
    OBVIOUS
  <2>2. Logs(e) /\ e.phase = "loaded" /\ e.inv = Fresh
    BY <1>1, <1>4, <2>1, EventTypes DEF Logs, Loaded, Event
  <2>3. Loads \subseteq Loads'
    BY <1>1, <2>2, LogsSets
  <2> QED BY <1>1, <1>2, <2>2, <2>3, Starts, LeavesPairs DEF PairBase
<1>5. CASE Top.pc = "close" /\ log' = Append(log, Closing(Top))
  <2>1. PICK n \in DOMAIN stack : Top = stack[n]
    BY RunTop
  <2>2. Top.inv \in Loads /\ Top.at \in DOMAIN Top.steps
    BY <1>1, <1>5, <2>1 DEF PairBase, Begun, StackOK, InStep
  <2>3. PICK e : e = Closing(Top)
    OBVIOUS
  <2>4. Logs(e) /\ e.phase = "outcome" /\ e.inv = Top.inv
    BY <1>1, <1>5, <2>2, <2>3, EventTypes DEF Logs, Closing, Outcome, Event
  <2>5. Loads \subseteq Loads'
    BY <1>1, <2>4, LogsSets
  <2> QED BY <1>1, <1>2, <2>2, <2>4, <2>5, Finishes, LeavesPairs DEF PairBase
<1> QED BY <1>3, <1>4, <1>5 DEF Faults, MaybeStored

LEMMA LogStays ==
    ASSUME PairBase, log' = log, mode' = mode
    PROVE  Numbered' /\ Preceded' /\ (OnceEach => OnceEach') /\ Loads' = Loads /\ Ended' = Ended
           /\ Fresh' = Fresh
           /\ \A x : IsChild(x) => IsChild(x)'
  BY DEF PairBase, Books, Numbered, Preceded, Fresh, Loads, Ended, OnceEach, With, IsChild

\* Something exits.
LEMMA UnwindsPairs ==
    ASSUME PairBase, InRun, Unwinds
    PROVE  /\ Numbered' /\ Preceded' /\ Begun' /\ (Once => Once') /\ Accounted'
<1>1. /\ sess' = sess /\ mode' = mode /\ state' = "exits" /\ log' = log /\ state = "open"
      /\ sess.op = None /\ sess.kids = <<>> /\ sess.told = {} /\ sess.closed = FALSE
  BY RunTop DEF Unwinds
<1>2. Numbered' /\ Preceded' /\ (OnceEach => OnceEach') /\ Loads' = Loads /\ Ended' = Ended
  BY <1>1, LogStays
<1>3. Begun' /\ (Unfinished => Unfinished')
  BY <1>1, <1>2 DEF PairBase, Begun, Unfinished, InRun, Finished
<1> QED BY <1>1, <1>2, <1>3 DEF Once, Accounted

\* Begin and EnterSession.
LEMMA FirstPairs ==
    ASSUME PairBase, Begin \/ EnterSession
    PROVE  Numbered' /\ Preceded' /\ Begun' /\ Once' /\ Accounted'
<1>1. /\ state = "new" /\ state' = "open" /\ log = <<>> /\ sess = NoSess /\ Types
      /\ sess' = sess /\ stack' = stack /\ mode' = mode /\ mishaps' = mishaps
      /\ log' = <<Loaded(0, Root)>>
  BY DEF Begin, EnterSession, PairBase, Books, Shape
<1>2. sess.op = None /\ sess.kids = <<>> /\ sess.told = {} /\ sess.closed = FALSE
  BY <1>1 DEF NoSess
<1>3. PICK e : e = Loaded(0, Root)
  OBVIOUS
<1>4. e \in Events /\ e.phase = "loaded" /\ e.inv = 0
  BY <1>3 DEF Loaded, Event, Events, Labels
<1>5. Logs(e)
  BY <1>1, <1>3, <1>4 DEF Logs
<1>6. Loads = {} /\ Ended = {} /\ Fresh = 0 /\ Len(log) = 0 /\ With("loaded") = {} /\ With("outcome") = {}
  <2>1. With("loaded") = {} /\ With("outcome") = {} /\ Len(log) = 0
    BY <1>1 DEF With
  <2>2. Fresh = 0
    BY <2>1, FS_EmptySet DEF Fresh, With
  <2> QED BY <2>1, <2>2 DEF Loads, Ended
<1>7. Loads' = {0} /\ Ended' = {} /\ Fresh' = 1 /\ Len(log') = 1
  <2>1. Fresh' = Fresh + (IF e.phase = "loaded" THEN 1 ELSE 0)
    BY <1>1, <1>5, LogsSets
  <2> QED BY <1>1, <1>4, <1>5, <1>6, <2>1, LogsSets
<1>8. Numbered' /\ Preceded' /\ OnceEach'
  <2>1. OnceEach
    BY <1>6 DEF OnceEach
  <2> QED BY <1>1, <1>4, <1>5, <1>6, <2>1, Starts DEF PairBase
<1>9. mode = "run" => stack' = stack /\ Len(stack) = 1 /\ stack[1].pc = "next" /\ DOMAIN stack = 1..1
  <2>1. mode = "run" => Len(stack) = 1 /\ stack[1].pc = "next"
    BY <1>1 DEF PairBase, Shape
  <2> QED BY <1>1, <2>1, LenProperties DEF Types
<1>10. Begun'
  BY <1>1, <1>2, <1>7, <1>9 DEF Begun, InStep, InRun
<1>11. Unfinished'
  BY <1>1, <1>2, <1>7 DEF Unfinished
<1>12. Accounted'
  BY <1>1, <1>2, <1>7 DEF Accounted, Busy, Finished
<1> QED BY <1>7, <1>8, <1>10, <1>11, <1>12 DEF Once

LEMMA EndRunPairs ==
    ASSUME PairBase, EndRun
    PROVE  Numbered' /\ Preceded' /\ Begun' /\ (Once => Once') /\ (Accounted => Accounted')
<1>1. /\ mode = "run" /\ state \in {"failed", "done", "exits"} /\ mode' = mode
      /\ state' = IF state = "exits" THEN "exited" ELSE "over"
      /\ sess' = sess /\ sess = NoSess /\ Types /\ log' = Append(log, RootOutcome)
  BY DEF EndRun, PairBase, Books, Shape
<1>2. sess.op = None /\ sess.kids = <<>> /\ sess.told = {} /\ sess.closed = FALSE
  BY <1>1 DEF NoSess
<1>3. PICK e : e = RootOutcome
  OBVIOUS
<1>4. Logs(e) /\ e.phase = "outcome" /\ e.inv = 0
  BY <1>1, <1>3 DEF Logs, RootOutcome, Outcome, Event, Events, Labels
<1>5. 0 \in Loads /\ (Unfinished => 0 \notin Ended)
  BY <1>1, <1>2 DEF PairBase, Begun, Unfinished, Finished
<1>6. Numbered' /\ Preceded' /\ (OnceEach /\ 0 \notin Ended => OnceEach')
  BY <1>1, <1>4, <1>5, Finishes DEF PairBase
<1>7. Loads' = Loads /\ Ended' = Ended \cup {0} /\ Fresh' = Fresh /\ Len(log') = Len(log) + 1 /\ Fresh \in Nat /\ Len(log) \in Nat
  <2>1. Fresh' = Fresh + (IF e.phase = "loaded" THEN 1 ELSE 0) /\ Fresh \in Nat
    BY <1>1, <1>4, LogsSets
  <2> QED BY <1>1, <1>4, <2>1, LogsSets
<1>8. Begun' /\ Unfinished'
  BY <1>1, <1>2, <1>5, <1>7 DEF Begun, Unfinished, InRun, Finished
<1>9. Accounted => Accounted'
  <2>1. Accounted /\ state # "exits" => \A x \in Loads : x \in Ended \/ x = 0
    BY <1>1, <1>2 DEF Accounted, Busy, InRun
  <2> QED BY <1>1, <1>2, <1>7, <2>1 DEF Accounted
<1> QED BY <1>5, <1>6, <1>8, <1>9 DEF Once

LEMMA DiesPairs ==
    ASSUME PairBase, Dies PROVE Numbered' /\ Preceded' /\ Begun' /\ mishaps' # 0
<1>1. /\ log' = log /\ sess' = sess /\ state' = "over" /\ mishaps' = mishaps + 1 /\ state # "new"
      /\ mishaps \in Nat /\ mode' = mode
  BY DEF Dies, Mishap, PairBase, Books, Types
<1>2. /\ Numbered' /\ Preceded' /\ Loads' = Loads /\ Ended' = Ended
      /\ \A x : IsChild(x) => IsChild(x)'
  BY <1>1, LogStays
<1>3. Begun'
  BY <1>1, <1>2 DEF PairBase, Begun, InRun
<1> QED BY <1>1, <1>2, <1>3

-----------------------------------------------------------------------------
(* The steps of a session.                                                   *)

LEMMA SessionIdle ==
    ASSUME PairBase, mode = "session"
    PROVE  /\ ~InRun /\ Types /\ Shape /\ sess \in Sessions /\ sess.kids \in Seq(Nat)
           /\ sess.op \in Ops \cup {None} /\ sess.closed \in BOOLEAN /\ sess.told \subseteq Nat
           /\ sess.subs \in Nat /\ sess.hits \in Nat /\ sess.ops \in Nat
           /\ Len(sess.kids) \in Nat /\ DOMAIN sess.kids = 1..Len(sess.kids)
           /\ \A i \in DOMAIN sess.kids : sess.kids[i] \in Nat
           /\ Fresh \in Nat /\ Len(log) \in Nat
<1>1. ~InRun /\ Types /\ Shape /\ sess \in Sessions
  BY DEF InRun, PairBase, Books, Types
<1>2. /\ sess.kids \in Seq(Nat) /\ sess.op \in Ops \cup {None} /\ sess.closed \in BOOLEAN
      /\ sess.subs \in Nat /\ sess.hits \in Nat /\ sess.ops \in Nat /\ sess.told \subseteq Nat
  BY <1>1 DEF Sessions
<1> QED BY <1>1, <1>2, FreshType, LenProperties, ElementOfSeq DEF Types

\* Nothing new is open, and what is told has ended.
LEMMA SessionBegun ==
    ASSUME PairBase, mode = "session", mode' = mode, state = "open",
           Loads \subseteq Loads', Ended \subseteq Ended', \A x : IsChild(x) => IsChild(x)',
           sess'.op # None => sess'.op = sess.op,
           \A i \in DOMAIN sess'.kids : \E j \in DOMAIN sess.kids : sess'.kids[i] = sess.kids[j],
           \A x \in sess'.told :
               x \in sess.told \/ (x \in Ended' /\ x \in Loads /\ x # 0 /\ IsChild(x))
    PROVE  Begun'
<1>1. 0 \in Loads' /\ ~InRun'
  BY DEF PairBase, Begun, InRun
<1>2. sess'.op # None => sess'.op.inv \in Loads' /\ sess'.op.inv # 0
  BY DEF PairBase, Begun
<1>3. ASSUME NEW i \in DOMAIN sess'.kids
      PROVE  sess'.kids[i] \in Loads' /\ sess'.kids[i] # 0 /\ IsChild(sess.kids[i])'
  <2>1. PICK j \in DOMAIN sess.kids : sess'.kids[i] = sess.kids[j]
    OBVIOUS
  <2>2. sess.kids[j] \in Loads /\ sess.kids[j] # 0 /\ IsChild(sess.kids[j])
    BY DEF PairBase, Begun
  <2>3. PICK x : x = sess'.kids[i] /\ x = sess.kids[j]
    BY <2>1
  <2>4. x \in Loads' /\ x # 0 /\ IsChild(x)'
    BY <2>2, <2>3
  <2> QED BY <2>3, <2>4 DEF IsChild
<1>4. \A x \in sess'.told : x \in Loads' /\ x \in Ended' /\ x # 0 /\ IsChild(x)'
  BY DEF PairBase, Begun
<1> QED BY <1>1, <1>2, <1>3, <1>4 DEF Begun

\* An operation or a child begins.
LEMMA BeginsPairs ==
    ASSUME PairBase, mode = "session", NEW kind \in {"check", "judge"}, StartOp(kind) \/ EnterChild
    PROVE  /\ Numbered' /\ Preceded' /\ Begun' /\ (Once => Once') /\ (Accounted => Accounted')
<1>0. /\ ~InRun /\ Types /\ Len(sess.kids) \in Nat /\ DOMAIN sess.kids = 1..Len(sess.kids)
      /\ \A i \in DOMAIN sess.kids : sess.kids[i] \in Nat
      /\ sess.kids \in Seq(Nat) /\ sess \in Sessions
  BY SessionIdle
<1>1. /\ state = "open" /\ state' = "open" /\ mode' = mode /\ sess.op = None
      /\ \E k \in {"check", "judge", "invoke"} :
            log' = Append(log, Loaded(Fresh, k)) /\ (EnterChild => k = "invoke")
  <2>1. CASE StartOp(kind)
    <3>1. ~EnterChild
      <4>1. StartOp(kind) /\ EnterChild => FALSE
        <5>1. SUFFICES ASSUME StartOp(kind), EnterChild PROVE FALSE
          OBVIOUS
        <5>2. PICK e, f : e = Loaded(Fresh, kind) /\ f = Loaded(Fresh, "invoke")
          OBVIOUS
        <5>3. e.step # f.step
          BY <5>2 DEF Loaded, Event
        <5>4. Append(log, e) = Append(log, f)
          BY <5>1, <5>2 DEF StartOp, EnterChild
        <5>5. log \in Seq({e, f} \cup Events)
          <6>1. log \in Seq(Events)
            BY <1>0 DEF Types
          <6>2. \A k \in 1..Len(log) : log[k] \in {e, f} \cup Events
            BY <6>1, ElementOfSeq
          <6> QED BY <6>1, <6>2
        <5>6. Append(log, e)[Len(log) + 1] = e /\ Append(log, f)[Len(log) + 1] = f
          BY <5>5, AppendProperties
        <5> QED BY <5>3, <5>4, <5>6
      <4> QED BY <2>1, <4>1
    <3> QED BY <2>1, <3>1 DEF StartOp, Able, InSession
  <2>2. CASE EnterChild
    BY <2>2 DEF EnterChild, Able, InSession
  <2> QED BY <2>1, <2>2
<1>2. PICK k \in {"check", "judge", "invoke"} :
          log' = Append(log, Loaded(Fresh, k)) /\ (EnterChild => k = "invoke")
  BY <1>1
<1>3. PICK e : e = Loaded(Fresh, k)
  OBVIOUS
<1>4. Logs(e) /\ e.phase = "loaded" /\ e.inv = Fresh
  BY <1>0, <1>2, <1>3, FreshType DEF Types, Logs, Loaded, Event, Events, Labels
<1>5. Fresh > 0 /\ Fresh \in Nat /\ Ended \subseteq Loads /\ Fresh \notin Loads
  BY <1>1, FreshOne, Members DEF PairBase
<1>6. /\ Loads' = Loads \cup {Fresh} /\ Ended' = Ended
      /\ Len(log) \in Nat /\ DOMAIN log' = 1..Len(log) + 1 /\ log'[Len(log) + 1] = e
  BY <1>0, <1>4, LogsSets
<1>7. Numbered' /\ Preceded' /\ (OnceEach => OnceEach')
  BY <1>1, <1>4, Starts DEF PairBase
<1>8. \A x : IsChild(x) => IsChild(x)'
  BY <1>0, <1>1, <1>4, ChildStays
<1>9. /\ Started \in Sessions /\ Started.op = sess.op /\ Started.kids = sess.kids
      /\ Started.closed = sess.closed /\ Started.told = sess.told
  <2>1. PICK n \in Nat, m \in Nat : n = sess.subs + 1 /\ m = sess.ops + 1
    BY <1>0 DEF Sessions
  <2>2. Started = [sess EXCEPT !.subs = n, !.ops = m]
    BY <1>0, <2>1 DEF Started, Counted, Sessions
  <2> QED BY <1>0, <2>2 DEF Sessions
<1>10. /\ \A i \in DOMAIN sess.kids :
              sess.kids[i] \in Loads' /\ sess.kids[i] # 0 /\ IsChild(sess.kids[i])
       /\ \A x \in sess.told : x \in Loads' /\ x \in Ended' /\ x # 0 /\ IsChild(x)'
       /\ 0 \in Loads' /\ ~InRun'
  BY <1>0, <1>1, <1>6, <1>8 DEF PairBase, Begun, InRun
<1>11. Accounted => \A x \in Loads : \/ x \in Ended \/ (x = 0 /\ ~sess.closed)
                                     \/ \E i \in DOMAIN sess.kids : sess.kids[i] = x
  BY <1>0, <1>1 DEF Accounted, Busy
<1>12. CASE StartOp(kind)
  <2>1. sess' = [Started EXCEPT !.op = [inv |-> Fresh, kind |-> kind]]
    BY <1>12 DEF StartOp
  <2>2. /\ sess'.op.inv = Fresh /\ sess'.kids = sess.kids /\ sess'.closed = sess.closed
        /\ sess'.told = sess.told
    BY <1>9, <2>1 DEF Sessions
  <2>3. sess'.op # None
    <3>1. sess'.op = [inv |-> Fresh, kind |-> kind]
      BY <1>9, <2>1 DEF Sessions
    <3>2. [inv |-> Fresh, kind |-> kind] \in Ops
      BY <1>5 DEF Ops
    <3> QED BY <3>1, <3>2, RuntimeAssumption DEF Ops
  <2>4. Begun'
    <3>1. \A i \in DOMAIN sess'.kids : IsChild(sess.kids[i])'
      <4>1. ASSUME NEW i \in DOMAIN sess'.kids PROVE IsChild(sess.kids[i])'
        <5>1. PICK x : x = sess.kids[i] /\ x = sess'.kids[i]
          BY <2>2
        <5>2. IsChild(x)'
          BY <1>8, <1>10, <2>2, <4>1, <5>1
        <5> QED BY <5>1, <5>2 DEF IsChild
      <4> QED BY <4>1
    <3> QED BY <1>5, <1>6, <1>10, <2>2, <3>1 DEF Begun
  <2>5. Unfinished => Unfinished'
    BY <1>0, <1>1, <1>5, <1>6, <1>10, <2>2, <2>3 DEF Unfinished, Finished
  <2>6. Accounted => Accounted'
    BY <1>1, <1>6, <1>11, <2>2, <2>3 DEF Accounted, Busy, Finished
  <2> QED BY <1>7, <2>4, <2>5, <2>6 DEF Once
<1>13. CASE EnterChild
  <2>1. sess' = [Started EXCEPT !.kids = Append(@, Fresh)]
    BY <1>13 DEF EnterChild
  <2>2. /\ sess'.op = None /\ sess'.kids = Append(sess.kids, Fresh) /\ sess'.closed = sess.closed
        /\ sess'.told = sess.told
    BY <1>1, <1>9, <2>1 DEF Sessions
  <2>3. PICK q \in Nat : q = Len(sess.kids)
    BY <1>0
  <2>4. PICK kids : /\ kids = sess'.kids /\ DOMAIN kids = 1..q + 1 /\ kids[q + 1] = Fresh
                    /\ DOMAIN sess.kids = 1..q /\ \A i \in 1..q : kids[i] = sess.kids[i]
    <3>1. PICK kids \in Seq(Nat) : kids = Append(sess.kids, Fresh)
      BY <1>0, <1>5, AppendProperties
    <3>2. Len(kids) = q + 1 /\ kids[q + 1] = Fresh /\ \A i \in 1..q : kids[i] = sess.kids[i]
      BY <1>0, <1>5, <2>3, <3>1, AppendProperties
    <3>3. DOMAIN kids = 1..q + 1 /\ DOMAIN sess.kids = 1..q
      BY <1>0, <2>3, <3>1, <3>2, LenProperties
    <3> QED BY <2>2, <3>1, <3>2, <3>3
  <2>5. \A i \in 1..q + 1 : i \in 1..q \/ i = q + 1
    OBVIOUS
  <2>6. PICK f \in Nat : f = Fresh /\ f # 0 /\ IsChild(f)'
    <3>1. log'[Len(log) + 1] = Loaded(Fresh, "invoke") /\ Len(log) + 1 \in DOMAIN log'
      BY <1>2, <1>3, <1>6, <1>13
    <3>2. PICK f \in Nat : f = Fresh
      BY <1>5
    <3>3. log'[Len(log) + 1] = Loaded(f, "invoke")
      BY <3>1, <3>2
    <3>4. \E i \in DOMAIN log' : log'[i] = Loaded(f, "invoke")
      BY <3>1, <3>3
    <3>5. IsChild(f)'
      BY <1>1, <3>4 DEF IsChild, Loaded, Event
    <3> QED BY <1>5, <3>2, <3>5
  <2>7. ASSUME NEW i \in DOMAIN kids PROVE kids[i] \in Loads' /\ kids[i] # 0 /\ IsChild(kids[i])'
    <3>1. CASE i = q + 1
      BY <1>6, <2>4, <2>6, <3>1
    <3>2. CASE i \in 1..q
      <4>1. PICK x : x = kids[i] /\ x = sess.kids[i]
        BY <2>4, <3>2
      <4>2. x \in Loads' /\ x # 0 /\ IsChild(x)'
        BY <1>8, <1>10, <2>4, <3>2, <4>1
      <4> QED BY <4>1, <4>2 DEF IsChild
    <3> QED BY <2>4, <2>5, <2>7, <3>1, <3>2
  <2>8. Begun'
    BY <1>10, <2>2, <2>4, <2>7 DEF Begun
  <2>9. Unfinished => Unfinished'
    BY <1>0, <1>1, <1>6, <1>10, <2>2 DEF Unfinished, Finished
  <2>10. Accounted => Accounted'
    <3>1. \A x \in Loads : (\E i \in DOMAIN sess.kids : sess.kids[i] = x) => \E i \in DOMAIN kids : kids[i] = x
      <4>1. \A i \in 1..q : i \in 1..q + 1
        OBVIOUS
      <4> QED BY <2>4, <4>1
    <3>2. \E i \in DOMAIN kids : kids[i] = Fresh
      <4>1. q + 1 \in 1..q + 1
        OBVIOUS
      <4> QED BY <2>4, <4>1
    <3>3. Accounted => \A x \in Loads' : \/ x \in Ended' \/ (x = 0 /\ ~sess'.closed)
                                         \/ \E i \in DOMAIN kids : kids[i] = x
      BY <1>6, <1>11, <2>2, <3>1, <3>2
    <3> QED BY <1>1, <2>4, <3>3 DEF Accounted, Busy, Finished
  <2> QED BY <1>7, <2>8, <2>9, <2>10 DEF Once
<1> QED BY <1>12, <1>13

LEMMA EndOpPairs ==
    ASSUME PairBase, EndOp
    PROVE  /\ Numbered' /\ Preceded' /\ Begun' /\ (Once => Once') /\ (Accounted => Accounted')
<1>0. mode = "session"
  BY DEF EndOp, InSession
<1>1. /\ ~InRun /\ Types /\ Len(sess.kids) \in Nat /\ sess \in Sessions /\ sess.op \in Ops \cup {None}
      /\ sess.hits \in Nat
  BY <1>0, SessionIdle
<1>2. PICK ok \in BOOLEAN, n \in 0..1 : log' = Append(log, OpOutcome(ok, n)) /\ sess' = Answered(n)
  BY DEF EndOp
<1>3. /\ state = "open" /\ state' = "open" /\ mode' = mode /\ sess.op # None /\ sess.op \in Ops
  BY <1>1 DEF EndOp, InSession
<1>4. PICK m \in Nat : m = sess.hits + n
  BY <1>1
<1>5. sess' = [sess EXCEPT !.op = None, !.hits = m]
  BY <1>2, <1>4 DEF Answered
<1>6. sess'.op = None /\ sess'.kids = sess.kids /\ sess'.closed = sess.closed /\ sess'.told = sess.told
  BY <1>1, <1>5 DEF Sessions
<1>7. PICK e : e = OpOutcome(ok, n)
  OBVIOUS
<1>8. Logs(e) /\ e.phase = "outcome" /\ e.inv = sess.op.inv
  BY <1>2, <1>3, <1>7 DEF Logs, OpOutcome, Outcome, Event, Events, Labels, Ops
<1>9. sess.op.inv \in Loads /\ sess.op.inv # 0
  BY <1>3 DEF PairBase, Begun
<1>10. Numbered' /\ Preceded' /\ (OnceEach /\ sess.op.inv \notin Ended => OnceEach')
  BY <1>3, <1>8, <1>9, Finishes DEF PairBase
<1>11. Loads' = Loads /\ Ended' = Ended \cup {sess.op.inv}
  BY <1>1, <1>8, LogsSets
<1>12. Begun'
  <2>1. \A x : IsChild(x) => IsChild(x)'
    BY <1>1, <1>3, <1>8, ChildStays
  <2>2. \A i \in DOMAIN sess'.kids : \E j \in DOMAIN sess.kids : sess'.kids[i] = sess.kids[j]
    BY <1>6
  <2> QED BY <1>0, <1>3, <1>6, <1>11, <2>1, <2>2, SessionBegun
<1>13. Unfinished => Unfinished' /\ sess.op.inv \notin Ended
  BY <1>0, <1>1, <1>3, <1>6, <1>9, <1>11 DEF Unfinished, InRun, Finished
<1>14. Accounted => Accounted'
  BY <1>0, <1>1, <1>3, <1>6, <1>11 DEF Accounted, Busy, InRun, Finished
<1> QED BY <1>10, <1>12, <1>13, <1>14 DEF Once

\* A child logs an outcome; it may leave.
LEMMA ChildLogs ==
    ASSUME PairBase, mode = "session", mode' = mode, state = "open", state' = "open",
           sess.op = None, sess'.op = None, sess'.closed = sess.closed,
           NEW x \in Nat, NEW ok \in BOOLEAN \cup {None}, x \in Loads, x # 0, IsChild(x),
           log' = Append(log, ChildOutcome(x, ok)),
           \A i \in DOMAIN sess'.kids : \E j \in DOMAIN sess.kids : sess'.kids[i] = sess.kids[j],
           \A j \in DOMAIN sess.kids :
               sess.kids[j] = x \/ \E i \in DOMAIN sess'.kids : sess'.kids[i] = sess.kids[j],
           sess'.told \subseteq sess.told \cup {x}
    PROVE  /\ Numbered' /\ Preceded' /\ Begun' /\ (Once => Once') /\ (Accounted => Accounted')
<1>1. ~InRun /\ Types
  BY SessionIdle
<1>2. PICK e : e = ChildOutcome(x, ok)
  OBVIOUS
<1>3. Logs(e) /\ e.phase = "outcome" /\ e.inv = x
  BY <1>2 DEF ChildOutcome, Logs, Outcome, Event, Events, Labels
<1>4. Numbered' /\ Preceded' /\ (OnceEach => OnceEach')
  BY <1>3, Finishes DEF PairBase
<1>5. Loads' = Loads /\ Ended' = Ended \cup {x}
  BY <1>1, <1>3, LogsSets
<1>6. Begun'
  <2>1. \A y : IsChild(y) => IsChild(y)'
    BY <1>1, <1>3, ChildStays
  <2>2. \A y \in sess'.told : y \in sess.told \/ (y \in Ended' /\ y \in Loads /\ y # 0 /\ IsChild(y))
    BY <1>5
  <2> QED BY <1>5, <2>1, <2>2, SessionBegun
<1>7. Unfinished => Unfinished'
  BY <1>5 DEF Unfinished, InRun, Finished
<1>8. Accounted => Accounted'
  <2>1. SUFFICES ASSUME Accounted, NEW y \in Loads PROVE y \in Ended' \/ Busy(y)'
    BY <1>5 DEF Accounted
  <2>2. \/ y \in Ended \/ (y = 0 /\ ~sess.closed) \/ \E j \in DOMAIN sess.kids : sess.kids[j] = y
    BY <1>1, <2>1 DEF Accounted, Busy
  <2> QED BY <1>5, <2>2 DEF Busy, Finished
<1> QED BY <1>4, <1>6, <1>7, <1>8 DEF Once

LEMMA LeftKids ==
    ASSUME PairBase, mode = "session", sess.kids # <<>>
    PROVE  /\ Left \in Sessions /\ Left.op = sess.op /\ Left.closed = sess.closed
           /\ Left.told = sess.told /\ Last(sess.kids) \in Nat
           /\ Last(sess.kids) \in Loads /\ Last(sess.kids) # 0 /\ IsChild(Last(sess.kids))
           /\ \A i \in DOMAIN Left.kids : \E j \in DOMAIN sess.kids : Left.kids[i] = sess.kids[j]
           /\ \A j \in DOMAIN sess.kids :
                 sess.kids[j] = Last(sess.kids) \/ \E i \in DOMAIN Left.kids : Left.kids[i] = sess.kids[j]
<1>1. /\ Left \in Sessions /\ Last(sess.kids) \in Nat
      /\ Left.op = sess.op /\ Left.closed = sess.closed /\ Left.told = sess.told
  BY SessionIdle, LeftFacts
<1>2. PICK q \in Nat : /\ DOMAIN sess.kids = 1..q + 1 /\ Last(sess.kids) = sess.kids[q + 1]
                       /\ DOMAIN Left.kids = 1..q
                       /\ \A i \in 1..q : Left.kids[i] = sess.kids[i] /\ i \in 1..q + 1
  BY SessionIdle, LeftFacts
<1>3. q + 1 \in 1..q + 1 /\ \A j \in 1..q + 1 : j = q + 1 \/ j \in 1..q
  OBVIOUS
<1>4. Last(sess.kids) \in Loads /\ Last(sess.kids) # 0 /\ IsChild(Last(sess.kids))
  BY <1>2, <1>3 DEF PairBase, Begun
<1> QED BY <1>1, <1>2, <1>3, <1>4

LEMMA RecordChildPairs ==
    ASSUME PairBase, RecordChild
    PROVE  /\ Numbered' /\ Preceded' /\ Begun' /\ (Once => Once') /\ (Accounted => Accounted')
<1>1. /\ mode = "session" /\ mode' = mode /\ state = "open" /\ state' = "open" /\ sess.op = None
  BY DEF RecordChild, Able, InSession
<1>2. /\ sess \in Sessions /\ sess.ops \in Nat /\ sess.told \subseteq Nat
      /\ DOMAIN sess.kids = 1..Len(sess.kids) /\ \A i \in DOMAIN sess.kids : sess.kids[i] \in Nat
  BY <1>1, SessionIdle
<1>3. PICK x \in ToSet(sess.kids) \cup sess.told :
          /\ log' = Append(log, ChildOutcome(x, TRUE))
          /\ sess' = [sess EXCEPT !.told = @ \cup {x}, !.ops = @ + 1]
  BY DEF RecordChild
<1>4. x \in Nat /\ x \in Loads /\ x # 0 /\ IsChild(x)
  BY <1>2, <1>3 DEF ToSet, PairBase, Begun
<1>5. /\ sess'.op = sess.op /\ sess'.closed = sess.closed /\ sess'.kids = sess.kids
      /\ sess'.told = sess.told \cup {x}
  BY <1>2, <1>3 DEF Sessions
<1>6. /\ \A i \in DOMAIN sess'.kids : \E j \in DOMAIN sess.kids : sess'.kids[i] = sess.kids[j]
      /\ \A j \in DOMAIN sess.kids : \E i \in DOMAIN sess'.kids : sess'.kids[i] = sess.kids[j]
  BY <1>5
<1> QED BY <1>1, <1>3, <1>4, <1>5, <1>6, ChildLogs

LEMMA LeaveChildPairs ==
    ASSUME PairBase, LeaveChild
    PROVE  /\ Numbered' /\ Preceded' /\ Begun' /\ (Once => Once') /\ (Accounted => Accounted')
<1>1. /\ mode = "session" /\ mode' = mode /\ state = "open" /\ state' = "open" /\ sess.op = None
      /\ sess.kids # <<>> /\ sess' = Left /\ ~InRun
      /\ log' = IF Untold THEN Append(log, ChildOutcome(Last(sess.kids), None)) ELSE log
  BY DEF LeaveChild, InSession, InRun
<1>2. PICK x \in Nat : x = Last(sess.kids)
  BY <1>1, LeftKids
<1>3. /\ sess'.op = None /\ sess'.closed = sess.closed /\ sess'.told = sess.told
      /\ x \in Loads /\ x # 0 /\ IsChild(x)
      /\ \A i \in DOMAIN sess'.kids : \E j \in DOMAIN sess.kids : sess'.kids[i] = sess.kids[j]
      /\ \A j \in DOMAIN sess.kids :
            sess.kids[j] = x \/ \E i \in DOMAIN sess'.kids : sess'.kids[i] = sess.kids[j]
  BY <1>1, <1>2, LeftKids
<1>4. CASE Untold
  <2>1. log' = Append(log, ChildOutcome(x, None))
    BY <1>1, <1>2, <1>4
  <2> QED BY <1>1, <1>3, <2>1, ChildLogs
<1>5. CASE ~Untold
  <2>1. log' = log
    BY <1>1, <1>5
  <2>2. x \in Ended
    <3>1. x \in sess.told
      BY <1>1, <1>2, <1>5 DEF Untold
    <3> QED BY <3>1 DEF PairBase, Begun
  <2>3. /\ Numbered' /\ Preceded' /\ (OnceEach => OnceEach') /\ Loads' = Loads /\ Ended' = Ended
        /\ \A y : IsChild(y) => IsChild(y)'
    BY <1>1, <2>1, LogStays
  <2>4. Begun'
    BY <1>1, <1>3, <2>3, SessionBegun
  <2>5. Unfinished => Unfinished'
    BY <1>1, <1>3, <2>3 DEF Unfinished, InRun, Finished
  <2>6. Accounted => Accounted'
    <3>1. SUFFICES ASSUME Accounted, NEW y \in Loads PROVE y \in Ended' \/ Busy(y)'
      BY <1>1, <2>3 DEF Accounted
    <3>2. \/ y \in Ended \/ (y = 0 /\ ~sess.closed) \/ \E j \in DOMAIN sess.kids : sess.kids[j] = y
      BY <1>1, <3>1 DEF Accounted, Busy
    <3> QED BY <1>1, <1>3, <2>2, <2>3, <3>2 DEF Busy, Finished
  <2> QED BY <2>3, <2>4, <2>5, <2>6 DEF Once
<1> QED BY <1>4, <1>5

LEMMA CompletionEvents ==
    ASSUME PairBase, mode = "session", NEW e \in {Completion(TRUE), Completion(None), Overlaid}
    PROVE  e \in Events /\ e.phase = "outcome" /\ e.inv = 0
<1>1. sess.subs \in Nat /\ sess.hits \in Nat
  BY SessionIdle
<1>2. \A ok \in BOOLEAN \cup {None} :
          Completion(ok) \in Events /\ Completion(ok).phase = "outcome" /\ Completion(ok).inv = 0
  BY <1>1 DEF Completion, Outcome, Event, Events, Labels
<1>3. Overlaid \in Events /\ Overlaid.phase = "outcome" /\ Overlaid.inv = 0
  BY <1>1 DEF Overlaid, Completion, Outcome, Event, Events, Labels
<1> QED BY <1>2, <1>3

LEMMA CompletesPairs ==
    ASSUME PairBase, CloseSession \/ ExitSession
    PROVE  /\ Numbered' /\ Preceded' /\ Begun' /\ (Once => Once') /\ (Accounted => Accounted')
<1>0. /\ mode = "session" /\ state = "open" /\ mode' = mode /\ sess.op = None /\ state' \in {"open", "over"}
  BY DEF CloseSession, ExitSession, InSession
<1>1. ~InRun /\ Types /\ sess \in Sessions
  BY <1>0, SessionIdle
<1>2. /\ sess'.op = None /\ sess'.kids = sess.kids /\ sess'.told = sess.told
      /\ \A i \in DOMAIN sess'.kids : \E j \in DOMAIN sess.kids : sess'.kids[i] = sess.kids[j]
  <2>1. sess'.op = None /\ sess'.kids = sess.kids /\ sess'.told = sess.told
    BY <1>0, <1>1 DEF CloseSession, ExitSession, Sessions
  <2> QED BY <2>1
<1>3. state' = "over" => sess.kids = <<>> /\ sess' = sess
  BY <1>0 DEF CloseSession, ExitSession
<1>4. 0 \in Loads /\ (Unfinished /\ ~sess.closed => 0 \notin Ended)
  BY <1>0 DEF PairBase, Begun, Unfinished, Finished
<1>5. Accounted => \A x \in Loads : \/ x \in Ended \/ (x = 0 /\ ~sess.closed)
                                    \/ \E i \in DOMAIN sess.kids : sess.kids[i] = x
  BY <1>0, <1>1 DEF Accounted, Busy
<1>6. CASE sess.closed
  <2>1. log' = log /\ sess' = sess /\ state' = "over" /\ sess.kids = <<>>
    BY <1>6 DEF CloseSession, ExitSession
  <2>2. /\ Numbered' /\ Preceded' /\ (OnceEach => OnceEach') /\ Loads' = Loads /\ Ended' = Ended
        /\ \A y : IsChild(y) => IsChild(y)'
    BY <1>0, <2>1, LogStays
  <2>3. Begun'
    BY <1>0, <1>2, <2>1, <2>2, SessionBegun
  <2>4. Unfinished => Unfinished'
    BY <1>0, <1>1, <1>2, <2>1, <2>2 DEF Unfinished, InRun, Finished
  <2>5. Accounted => Accounted'
    BY <1>2, <1>5, <1>6, <2>1, <2>2 DEF Accounted
  <2> QED BY <2>2, <2>3, <2>4, <2>5 DEF Once
<1>7. CASE ~sess.closed
  <2>1. PICK e \in {Completion(TRUE), Completion(None), Overlaid} : log' = Append(log, e)
    BY <1>7 DEF CloseSession, ExitSession
  <2>2. Logs(e) /\ e.phase = "outcome" /\ e.inv = 0
    BY <1>0, <2>1, CompletionEvents DEF Logs
  <2>3. Numbered' /\ Preceded' /\ (OnceEach /\ 0 \notin Ended => OnceEach')
    BY <1>0, <1>4, <2>2, Finishes DEF PairBase
  <2>4. Loads' = Loads /\ Ended' = Ended \cup {0}
    BY <1>1, <2>2, LogsSets
  <2>5. Begun'
    <3>1. \A y : IsChild(y) => IsChild(y)'
      BY <1>0, <1>1, <2>2, ChildStays
    <3> QED BY <1>0, <1>2, <2>4, <3>1, SessionBegun
  <2>6. state' = "over" \/ sess'.closed = TRUE
    BY <1>1 DEF CloseSession, ExitSession, Sessions
  <2>7. Unfinished => Unfinished'
    BY <1>0, <1>1, <1>2, <1>4, <2>4, <2>6 DEF Unfinished, InRun, Finished
  <2>8. Accounted => Accounted'
    BY <1>0, <1>2, <1>3, <1>5, <2>4 DEF Accounted, Busy
  <2> QED BY <1>4, <1>7, <2>3, <2>5, <2>7, <2>8 DEF Once
<1> QED BY <1>6, <1>7

LEMMA OpFailsPairs ==
    ASSUME PairBase, OpLogFails
    PROVE  Numbered' /\ Preceded' /\ Begun' /\ mishaps' # 0
<1>0. /\ mode = "session" /\ state = "open" /\ state' = state /\ mode' = mode
      /\ mishaps' = mishaps + 1
  BY DEF OpLogFails, InSession, Mishap
<1>1. /\ ~InRun /\ Types /\ sess \in Sessions /\ sess.kids \in Seq(Nat) /\ sess.op \in Ops \cup {None}
      /\ sess.subs \in Nat /\ sess.hits \in Nat /\ sess.ops \in Nat /\ Fresh \in Nat
  BY <1>0, SessionIdle
<1>2. mishaps' # 0
  BY <1>0, <1>1 DEF Types
<1>3. /\ sess'.op # None => sess'.op = sess.op
      /\ sess'.told = sess.told
      /\ \A i \in DOMAIN sess'.kids : \E j \in DOMAIN sess.kids : sess'.kids[i] = sess.kids[j]
  <2>1. Started.kids = sess.kids /\ Started.op = sess.op /\ Started.told = sess.told
    <3>1. PICK n \in Nat, m \in Nat : n = sess.subs + 1 /\ m = sess.ops + 1
      BY <1>1
    <3>2. Started = [sess EXCEPT !.subs = n, !.ops = m]
      BY <1>1, <3>1 DEF Started, Counted, Sessions
    <3> QED BY <1>1, <3>2 DEF Sessions
  <2>2. Answered(1).kids = sess.kids /\ Answered(1).op = None /\ Answered(1).told = sess.told
    BY <1>1 DEF Answered, Sessions
  <2>3. CASE sess' \in {Started, Answered(1), sess}
    <3>1. sess'.kids = sess.kids /\ sess'.told = sess.told /\ (sess'.op # None => sess'.op = sess.op)
      BY <2>1, <2>2, <2>3
    <3> QED BY <3>1
  <2>4. CASE Untold /\ sess' = Left
    <3>1. sess.kids # <<>>
      BY <2>4 DEF Untold
    <3> QED BY <1>0, <2>4, <3>1, LeftKids
  <2> QED BY <2>3, <2>4 DEF OpLogFails
<1>4. CASE log' = log
  <2>1. /\ Numbered' /\ Preceded' /\ Loads' = Loads /\ Ended' = Ended
        /\ \A y : IsChild(y) => IsChild(y)'
    BY <1>0, <1>4, LogStays
  <2> QED BY <1>0, <1>2, <1>3, <2>1, SessionBegun
<1>5. CASE log' = Append(log, Loaded(Fresh, "check"))
  <2>1. PICK e : e = Loaded(Fresh, "check")
    OBVIOUS
  <2>2. Logs(e) /\ e.phase = "loaded" /\ e.inv = Fresh
    BY <1>1, <1>5, <2>1 DEF Logs, Loaded, Event, Events, Labels
  <2>3. /\ Loads \subseteq Loads' /\ Ended' = Ended /\ Numbered' /\ Preceded'
        /\ \A y : IsChild(y) => IsChild(y)'
    BY <1>0, <1>1, <2>2, LogsSets, Starts, ChildStays DEF PairBase
  <2> QED BY <1>0, <1>2, <1>3, <2>3, SessionBegun
<1>6. ASSUME NEW e, log' = Append(log, e), e \in Events, e.phase = "outcome", e.inv \in Loads
      PROVE  Numbered' /\ Preceded' /\ Begun'
  <2>1. Logs(e)
    BY <1>6 DEF Logs
  <2>2. /\ Loads' = Loads /\ Ended \subseteq Ended' /\ Numbered' /\ Preceded'
        /\ \A y : IsChild(y) => IsChild(y)'
    BY <1>0, <1>1, <1>6, <2>1, LogsSets, Finishes, ChildStays DEF PairBase
  <2> QED BY <1>0, <1>3, <2>2, SessionBegun
<1>7. CASE sess.op # None /\ log' = Append(log, OpOutcome(TRUE, 1))
  <2>1. sess.op.inv \in Loads /\ sess.op \in Ops
    BY <1>1, <1>7 DEF PairBase, Begun
  <2>2. PICK e : e = OpOutcome(TRUE, 1)
    OBVIOUS
  <2>3. e \in Events /\ e.phase = "outcome" /\ e.inv \in Loads
    BY <2>1, <2>2 DEF OpOutcome, Outcome, Event, Events, Labels, Ops
  <2> QED BY <1>2, <1>6, <1>7, <2>2, <2>3
<1>8. CASE Untold /\ log' = Append(log, ChildOutcome(Last(sess.kids), None))
  <2>1. Last(sess.kids) \in Nat /\ Last(sess.kids) \in Loads
    BY <1>0, <1>8, LeftKids DEF Untold
  <2>2. PICK e : e = ChildOutcome(Last(sess.kids), None)
    OBVIOUS
  <2>3. e \in Events /\ e.phase = "outcome" /\ e.inv \in Loads
    BY <2>1, <2>2 DEF ChildOutcome, Outcome, Event, Events, Labels
  <2> QED BY <1>2, <1>6, <1>8, <2>2, <2>3
<1>9. CASE log' = Append(log, Completion(TRUE))
  <2>1. PICK e : e = Completion(TRUE)
    OBVIOUS
  <2>2. e \in Events /\ e.phase = "outcome" /\ e.inv = 0 /\ 0 \in Loads
    BY <1>0, <2>1, CompletionEvents DEF PairBase, Begun
  <2> QED BY <1>2, <1>6, <1>9, <2>1, <2>2
<1> QED BY <1>4, <1>5, <1>7, <1>8, <1>9 DEF OpLogFails, MaybeStored

LEMMA InitPairs == Init => PairInv
<1> SUFFICES ASSUME Init PROVE PairInv
  OBVIOUS
<1>1. /\ log = <<>> /\ state = "new" /\ sess.op = None /\ sess.kids = <<>> /\ sess.told = {}
      /\ mishaps = 0
  BY DEF Init, NoSess
<1>2. With("loaded") = {} /\ With("outcome") = {} /\ Loads = {} /\ Ended = {}
  <2>1. With("loaded") = {} /\ With("outcome") = {}
    BY <1>1 DEF With
  <2> QED BY <2>1 DEF Loads, Ended
<1>3. Numbered /\ Preceded
  BY <1>1 DEF Numbered, Preceded
<1>4. Begun
  BY <1>1 DEF Begun, InRun
<1>5. Once
  BY <1>1, <1>2 DEF Once, OnceEach, Unfinished, InRun
<1>6. Accounted
  BY <1>1, <1>2 DEF Accounted
<1> QED BY <1>3, <1>4, <1>5, <1>6, InitTypes DEF PairInv

\* Every step keeps the pairing.
LEMMA NextPairs ==
    ASSUME PairInv, [Next]_vars PROVE PairInv'
<1>0. PairBase /\ Types /\ Shape
  BY DEF PairInv, PairBase, Books
<1>1. Types' /\ Shape'
  BY <1>0, NextTypes
<1> SUFFICES Numbered' /\ Preceded' /\ Begun' /\ (mishaps' = 0 => Once' /\ Accounted')
  BY <1>1 DEF PairInv
<1>2. CASE UNCHANGED vars
  <2>1. /\ Numbered' /\ Preceded' /\ (OnceEach => OnceEach') /\ Loads' = Loads /\ Ended' = Ended
        /\ \A x : IsChild(x) => IsChild(x)'
    BY <1>0, <1>2, LogStays DEF vars
  <2>2. Begun' /\ (Unfinished => Unfinished')
    <3>1. \A i \in DOMAIN sess'.kids : IsChild(sess.kids[i])'
      BY <1>0, <1>2 DEF vars, PairBase, Begun, IsChild
    <3> QED BY <1>0, <1>2, <2>1, <3>1 DEF vars, PairBase, Begun, Unfinished, InRun, InStep
  <2>3. Accounted => Accounted'
    BY <1>2, <2>1 DEF vars, Accounted, Busy, InRun, InStep
  <2> QED BY <1>2, <2>1, <2>2, <2>3 DEF vars, PairInv, Once
<1>3. CASE Next /\ InRun
  <2>1. StackOK
    BY <1>0, <1>3 DEF Shape, InRun
  <2>2. /\ mode' = mode
        /\ \/ Dies \/ (sess' = sess /\ ((Moves /\ mishaps' = mishaps) \/ Faults))
           \/ sess' = sess /\ (mishaps' = mishaps \/ Mishap) /\ Unwinds
    BY <1>0, <1>3, <2>1, RunMoves
  <2>3. CASE Dies
    BY <1>0, <2>3, DiesPairs
  <2>4. CASE sess' = sess /\ Faults
    BY <1>0, <1>3, <2>2, <2>4, FaultsPairs
  <2>5. CASE sess' = sess /\ mishaps' = mishaps /\ (Turns \/ Ends \/ Enters)
    <3>1. log' = log
      BY <2>5 DEF Turns, Ends, Enters
    <3>2. /\ Numbered' /\ Preceded' /\ (OnceEach => OnceEach')
      BY <1>0, <2>2, <3>1, LogStays
    <3>3. Begun' /\ (Accounted => Accounted') /\ (Unfinished => Unfinished')
      BY <1>0, <1>3, <2>2, <2>5, <3>1, TurnsPairs
    <3> QED BY <2>5, <3>2, <3>3 DEF PairInv, Once
  <2>6. CASE sess' = sess /\ mishaps' = mishaps /\ (Opens \/ Closes)
    BY <1>0, <1>3, <2>2, <2>6, OpensPairs, ClosesPairs DEF PairInv
  <2>7. CASE (mishaps' = mishaps \/ Mishap) /\ Unwinds
    <3>1. mishaps' = 0 => mishaps = 0
      BY <1>0, <2>7 DEF Mishap, Types
    <3> QED BY <1>0, <1>3, <2>7, <3>1, UnwindsPairs DEF PairInv
  <2> QED BY <2>2, <2>3, <2>4, <2>5, <2>6, <2>7 DEF Moves
<1>4. CASE Dies
  BY <1>0, <1>4, DiesPairs
<1>5. CASE Begin \/ EnterSession
  BY <1>0, <1>5, FirstPairs
<1>6. CASE EndRun
  BY <1>0, <1>6, EndRunPairs DEF PairInv, EndRun
<1>7. CASE SessionStep /\ mode = "session"
  <2>1. CASE \E kind \in {"check", "judge"} : StartOp(kind) \/ EnterChild
    BY <1>0, <1>7, <2>1, BeginsPairs DEF PairInv, StartOp, EnterChild
  <2>2. CASE EndOp
    BY <1>0, <2>2, EndOpPairs DEF PairInv, EndOp
  <2>3. CASE LeaveChild
    BY <1>0, <2>3, LeaveChildPairs DEF PairInv, LeaveChild
  <2>4. CASE CloseSession \/ ExitSession
    BY <1>0, <2>4, CompletesPairs DEF PairInv, CloseSession, ExitSession
  <2>5. CASE OpLogFails
    BY <1>0, <2>5, OpFailsPairs
  <2>6. CASE RecordChild
    BY <1>0, <2>6, RecordChildPairs DEF PairInv, RecordChild
  <2> QED BY <1>5, <1>7, <2>1, <2>2, <2>3, <2>4, <2>5, <2>6 DEF SessionStep
<1>8. (RunStep \/ Interrupted) /\ ~InRun => Begin \/ EndRun
  BY DEF RunStep, InRun, Running, OpenStep, PreGuards, PostGuards, Guard, Execute, Exits,
         Interrupted, Iterate, CloseStep, EndLevel, StepLogFails
<1>9. SessionStep => mode = "session"
  BY DEF SessionStep, EnterSession, EnterChild, EndOp, RecordChild, LeaveChild, CloseSession, ExitSession,
         OpLogFails, StartOp, InSession, Able
<1> QED BY <1>2, <1>3, <1>4, <1>5, <1>6, <1>7, <1>8, <1>9 DEF Next

\* From the invariant: of what has begun, nothing is in progress any more when
\* it is over, and no two events of one kind are of one invocation but a child's.
LEMMA PairsPaired == PairInv => EventsPaired
<1> SUFFICES ASSUME PairInv PROVE EventsPaired
  OBVIOUS
<1>1. \A k \in DOMAIN log : log[k].phase = "outcome" =>
          \E j \in 1..k - 1 : log[j].inv = log[k].inv /\ log[j].phase = "loaded"
  BY DEF PairInv, Preceded
<1>2. \A k \in DOMAIN log : log[k].phase \in {"loaded", "outcome"}
  <2>1. \A k \in DOMAIN log : log[k] \in Events
    BY ElementOfSeq, LenProperties DEF PairInv, Types
  <2> QED BY <2>1 DEF Events
<1>3. ASSUME mishaps = 0, NEW j \in DOMAIN log, NEW k \in DOMAIN log, j # k
      PROVE  \/ log[j].inv # log[k].inv \/ log[j].phase # log[k].phase
             \/ (log[j].phase = "outcome" /\ IsChild(log[j].inv))
  <2>1. CASE log[j].phase = "loaded"
    BY <1>3, <2>1 DEF PairInv, Numbered
  <2>2. CASE log[j].phase = "outcome"
    BY <1>3, <2>2 DEF PairInv, Once, OnceEach, With
  <2> QED BY <1>2, <2>1, <2>2
<1>4. ASSUME mishaps = 0, state = "over", NEW k \in DOMAIN log
      PROVE  Reported(log[k].inv)
  <2>1. Accounted /\ Ended \subseteq Loads
    BY <1>4, Members DEF PairInv, Books
  <2>2. log[k].inv \in Loads
    BY <1>2, <2>1 DEF Loads, Ended, With
  <2>3. log[k].inv \in Ended
    BY <1>4, <2>1, <2>2 DEF Accounted, Busy, InRun, Finished
  <2> QED BY <2>3 DEF Ended, With, Reported
<1> QED BY <1>1, <1>3, <1>4 DEF EventsPaired

\* The inductive invariant of the pairing (log_invocation_event in
\* sdk/runtime.py and sdk/session.py).
THEOREM PairsInvariant == Spec => []PairInv
<1>1. PairInv /\ [Next]_vars => PairInv'
  BY NextPairs
<1> QED BY <1>1, InitPairs, PTL DEF Spec

\* Every outcome in the log follows the loaded event of its invocation.  Without
\* a failing log call, an interrupt or a death only a child of a session gets
\* two, and nothing is left without one when the session is over or the run has
\* ended by itself, for every workflow, every answer of guards and executors and
\* loops at any depth (Runtime.run, Session.__exit__, Invocation).
THEOREM EventsPairedCorrect == Spec => []EventsPaired
  BY PairsInvariant, PairsPaired, PTL

-----------------------------------------------------------------------------
(* Failures that stop the run.                                               *)

\* A step id of a workflow names one step of one part.
LEMMA IdsApart ==
    ASSUME NEW w \in Workflows, NEW b \in Parts, NEW n \in DOMAIN b, NEW m \in DOMAIN w,
           w[m].id = b[n].id
    PROVE  w = b /\ m = n
  BY RuntimeAssumption

\* The innermost level runs a workflow only if it is the outermost.
LEMMA ClosingFacts ==
    ASSUME Types, StackOK, Top.at \in DOMAIN Top.steps, NEW w \in Workflows,
           NEW m \in StepOf(w, Closing(Top))
    PROVE  Len(stack) = 1 /\ w = Top.steps /\ m = Top.at /\ w = stack[1].steps
<1>1. m \in DOMAIN w /\ w[m].id = Top.steps[Top.at].id
  BY DEF StepOf, Closing, Outcome, Event
<1>2. Top.steps \in Parts /\ Top = stack[Len(stack)] /\ Len(stack) \in Nat \ {0} /\ DOMAIN stack = 1..Len(stack)
  BY TopFacts
<1>3. w = Top.steps /\ m = Top.at
  BY <1>1, <1>2, IdsApart
<1>4. Len(stack) > 1 => FALSE
  <2>1. Len(stack) > 1 => Top.steps \in Bodies
    BY <1>2 DEF StackOK
  <2> QED BY <1>3, <2>1, RuntimeAssumption
<1>5. Len(stack) = 1
  <2>1. PICK n \in Nat \ {0} : n = Len(stack)
    BY <1>2
  <2>2. n > 1 \/ n = 1
    OBVIOUS
  <2> QED BY <1>4, <2>1, <2>2
<1> QED BY <1>2, <1>3, <1>5

LEMMA OthersDoNotStop ==
    /\ \A i, s : ~StopEvent(Loaded(i, s)) /\ \A w : ~EndOf(w, Loaded(i, s))
    /\ ~StopEvent(RootOutcome) /\ \A w \in Workflows : ~EndOf(w, RootOutcome)
<1>1. \A i, s : Loaded(i, s).ok = None /\ Loaded(i, s).phase = "loaded"
  BY DEF Loaded, Event
<1>2. \A w \in Workflows : StepOf(w, RootOutcome) = {}
  <2>1. \A w \in Workflows : \A m \in DOMAIN w : w[m].id # Root
    <3>1. TAKE w \in Workflows
    <3>2. TAKE m \in DOMAIN w
    <3>3. w \in Parts
      BY DEF Parts
    <3> QED BY <3>3, RuntimeAssumption
  <2> QED BY <2>1 DEF StepOf, RootOutcome, Outcome, Event
<1>3. None \notin BOOLEAN
  BY RuntimeAssumption
<1> QED BY <1>1, <1>2, <1>3 DEF StopEvent, EndOf

LEMMA InitStopped == Init => Stopped
  BY DEF Init, Stopped

\* Every step keeps Stopped: only the close of a step of the outermost level
\* logs a stop event, and it leaves that level.
LEMMA NextStopped ==
    ASSUME PairInv, Stopped, [Next]_vars PROVE Stopped'
<1>0. Types /\ Shape /\ mode' = mode
  BY DEF PairInv, Next, RunStep, SessionStep, vars, Begin, OpenStep, PreGuards, PostGuards, Guard,
         Execute, Iterate, CloseStep, EndLevel, StepLogFails, EndRun, Dies, EnterSession,
         EnterChild, EndOp, RecordChild, LeaveChild, CloseSession, ExitSession, OpLogFails, StartOp,
         Exits, Interrupted, Unwinds
<1> SUFFICES ASSUME mode = "run" PROVE Stopped'
  BY <1>0 DEF Stopped
<1>1. CASE UNCHANGED vars
  BY <1>1 DEF vars, Stopped
<1>2. CASE Next /\ InRun
  <2>1. StackOK /\ state = "open" /\ \A k \in DOMAIN log : ~StopEvent(log[k])
    BY <1>0, <1>2 DEF Shape, InRun, Stopped
  <2>2. (Moves /\ mishaps' = mishaps) \/ Faults \/ Dies \/ Unwinds
    BY <1>0, <1>2, <2>1, RunMoves
  <2>3. CASE log' = log
    BY <2>1, <2>3 DEF Stopped
  <2>4. CASE log' # log
    <3>1. PICK e \in {Loaded(Fresh, Step.id), Closing(Top)} : e \in Events /\ log' = Append(log, e)
      BY <1>0, <2>1, <2>2, <2>4, RunLogs DEF Dies, Unwinds
    <3>2. /\ Len(log) \in Nat /\ DOMAIN log = 1..Len(log) /\ DOMAIN log' = 1..Len(log) + 1
          /\ log'[Len(log) + 1] = e /\ \A k \in 1..Len(log) : log'[k] = log[k]
      BY <1>0, <3>1, LogAppend DEF Types
    <3>3. CASE ~StopEvent(e)
      <4>1. \A k \in DOMAIN log' : ~StopEvent(log'[k])
        BY <2>1, <3>2, <3>3
      <4> QED BY <4>1 DEF Stopped
    <3>4. CASE StopEvent(e)
      <4>1. e = Closing(Top)
        BY <3>1, <3>4, OthersDoNotStop
      <4>2. Loaded(Fresh, Step.id) # Closing(Top)
        BY DEF Loaded, Closing, Outcome, Event
      <4>3. Top.pc = "close" /\ (Closes \/ Faults)
        <5>1. ASSUME Top.at \in DOMAIN Top.steps, log' = Append(log, Loaded(Fresh, Step.id)) PROVE FALSE
          <6>1. Loaded(Fresh, Step.id) \in Events
            BY <1>0, <2>1, <5>1, EventTypes
          <6>2. log'[Len(log) + 1] = Loaded(Fresh, Step.id)
            BY <1>0, <5>1, <6>1, LogAppend DEF Types
          <6> QED BY <3>2, <4>1, <4>2, <6>2
        <5> QED BY <2>2, <2>4, <5>1 DEF Moves, Turns, Enters, Opens, Closes, Ends,
               Faults, MaybeStored, Dies, Unwinds
      <4>4. Top.at \in DOMAIN Top.steps
        BY <1>0, <2>1, <4>3, TopFacts DEF StackOK
      <4>5. PICK w \in Workflows : \E m \in StepOf(w, e) : w[m].onFail # "continue"
        BY <3>4 DEF StopEvent
      <4>6. PICK m \in StepOf(w, e) : w[m].onFail # "continue"
        BY <4>5
      <4>7. Len(stack) = 1 /\ w = Top.steps /\ m = Top.at
        BY <1>0, <2>1, <4>1, <4>4, <4>6, ClosingFacts
      <4>8. ~Top.ok /\ Stops(Step)
        BY <3>4, <4>1, <4>6, <4>7 DEF StopEvent, Closing, Outcome, Event, Stops, Step
      <4>9. \/ state' = "failed"
            \/ state' = "done" /\ mishaps' = mishaps + 1
        BY <4>3, <4>7, <4>8 DEF Closes, Faults, Leaves
      <4>10. mishaps' = mishaps + 1 => mishaps' # 0
        BY <1>0 DEF Types
      <4>11. \A k \in DOMAIN log' : StopEvent(log'[k]) => \A j \in DOMAIN log' : j > k => FALSE
        BY <2>1, <3>2
      <4> QED BY <4>9, <4>10, <4>11 DEF Stopped
    <3> QED BY <3>3, <3>4
  <2> QED BY <2>3, <2>4
<1>3. CASE Dies /\ ~InRun
  <2>1. /\ log' = log /\ state' = "over" /\ mishaps' = mishaps + 1 /\ mishaps' # 0
    BY <1>0, <1>3 DEF Dies, Mishap, Types
  <2> QED BY <2>1 DEF Stopped
<1>4. CASE Begin
  <2>1. log' = <<Loaded(0, Root)>>
    BY <1>4 DEF Begin
  <2>2. DOMAIN log' = 1..1 /\ log'[1] = Loaded(0, Root)
    BY <2>1
  <2> QED BY <2>2, OthersDoNotStop DEF Stopped
<1>5. CASE EndRun
  <2>1. PICK e : e = RootOutcome
    OBVIOUS
  <2>2. /\ log' = Append(log, e) /\ mishaps' = mishaps
        /\ state \in {"failed", "done"} => state' = "over"
    BY <1>5, <2>1 DEF EndRun
  <2>3. e \in Events /\ ~IsSub(e) /\ ~StopEvent(e)
    BY <2>1, <2>2, OthersDoNotStop DEF RootOutcome, Outcome, Event, Events, Labels, IsSub
  <2>4. /\ Len(log) \in Nat /\ DOMAIN log = 1..Len(log) /\ DOMAIN log' = 1..Len(log) + 1
        /\ log'[Len(log) + 1] = e /\ \A k \in 1..Len(log) : log'[k] = log[k]
        /\ Len(log') = Len(log) + 1
    BY <1>0, <2>2, <2>3, LogAppend DEF Types
  <2>5. Last(log') = e
    BY <2>4 DEF Last
  <2>6. state = "failed" => e = Failure
    BY <2>1 DEF RootOutcome, Failure
  <2>7. ASSUME NEW k \in DOMAIN log', StopEvent(log'[k])
        PROVE  /\ \A j \in DOMAIN log' : j > k => ~IsSub(log'[j])
               /\ state' = "over"
               /\ mishaps = 0 => state = "failed"
    <3>1. k \in DOMAIN log /\ StopEvent(log[k])
      BY <2>3, <2>4, <2>7
    <3>2. \A j \in DOMAIN log : j > k => ~IsSub(log[j])
      BY <3>1 DEF Stopped
    <3>3. state \in {"failed", "done"} /\ (mishaps = 0 => state = "failed")
      BY <1>5, <3>1 DEF Stopped, EndRun
    <3> QED BY <2>2, <2>3, <2>4, <3>2, <3>3
  <2> QED BY <2>2, <2>5, <2>6, <2>7 DEF Stopped
<1>6. (RunStep \/ Interrupted) /\ ~InRun => Begin \/ EndRun
  BY DEF RunStep, InRun, Running, OpenStep, PreGuards, PostGuards, Guard, Execute, Exits,
         Interrupted, Iterate, CloseStep, EndLevel, StepLogFails
<1>7. ~SessionStep
  BY DEF SessionStep, EnterSession, EnterChild, EndOp, RecordChild, LeaveChild, CloseSession, ExitSession,
         OpLogFails, StartOp, InSession, Able
<1> QED BY <1>1, <1>2, <1>3, <1>4, <1>5, <1>6, <1>7 DEF Next

LEMMA StoppedStops == PairInv /\ Stopped => FailureStops
<1> SUFFICES ASSUME PairInv, Stopped, mode = "run", state \in Finished, NEW w \in Workflows,
                    NEW k \in DOMAIN log, log[k].ok = FALSE,
                    \E n \in StepOf(w, log[k]) : w[n].onFail # "continue"
             PROVE  /\ \A e \in ToSet(SubSeq(log, k + 1, Len(log))) : ~IsSub(e)
                    /\ mishaps = 0 => Last(log) = Outcome(0, Root, FALSE, 0)
  BY DEF FailureStops
<1>1. StopEvent(log[k])
  BY DEF StopEvent
<1>2. log \in Seq(Events) /\ Len(log) \in Nat /\ DOMAIN log = 1..Len(log)
  BY LenProperties DEF PairInv, Types
<1>3. mishaps = 0 => Last(log) = Outcome(0, Root, FALSE, 0)
  BY <1>1 DEF Stopped, Failure, Finished
<1>4. ASSUME NEW e \in ToSet(SubSeq(log, k + 1, Len(log))) PROVE ~IsSub(e)
  <2> DEFINE s == SubSeq(log, k + 1, Len(log))
  <2>1. \A i \in k + 1..Len(log) : log[i] \in Events
    BY <1>2, ElementOfSeq
  <2>2. /\ s \in Seq(Events) /\ Len(s) = (IF k + 1 <= Len(log) THEN Len(log) - (k + 1) + 1 ELSE 0)
        /\ \A i \in 1..Len(log) - (k + 1) + 1 : s[i] = log[k + 1 + i - 1]
    BY <1>2, <2>1, SubSeqProperties
  <2>3. DOMAIN s = 1..Len(s)
    BY <2>2, LenProperties
  <2>4. PICK i \in DOMAIN s : e = s[i]
    BY <1>4 DEF ToSet
  <2>5. i \in 1..Len(s)
    BY <2>3, <2>4
  <2> HIDE DEF s
  <2>6. k + i \in DOMAIN log /\ k + i > k /\ e = log[k + i]
    BY <1>2, <2>2, <2>4, <2>5
  <2> QED BY <1>1, <2>6 DEF Stopped
<1> QED BY <1>3, <1>4

\* After a failed step of the workflow that is not to be continued nothing but
\* the outcome of the run is logged, and it says failure unless a call that logs
\* has failed (Runtime._execute_steps).
THEOREM FailureStopsCorrect == Spec => []FailureStops
<1>1. PairInv /\ Stopped /\ [Next]_vars => PairInv' /\ Stopped'
  BY NextPairs, NextStopped
<1>2. Init => PairInv /\ Stopped
  BY InitPairs, InitStopped
<1> QED BY <1>1, <1>2, StoppedStops, PTL DEF Spec

-----------------------------------------------------------------------------
(* A run that ends in success.                                               *)

LEMMA WorkflowSteps ==
    ASSUME NEW w \in Workflows
    PROVE  w \in Parts /\ Len(w) \in Nat /\ DOMAIN w = 1..Len(w)
  BY PartSteps DEF Parts

\* An event that ends no step of w changes nothing.
LEMMA DoneOther ==
    ASSUME Types, NEW w, NEW n, Done(w, n), NEW e, Logs(e), ~EndOf(w, e)
    PROVE  Done(w, n)'
<1>1. /\ Len(log) \in Nat /\ DOMAIN log = 1..Len(log) /\ DOMAIN log' = 1..Len(log) + 1
      /\ log'[Len(log) + 1] = e /\ \A k \in 1..Len(log) : log'[k] = log[k]
  BY LogsSets
<1>2. \A k \in DOMAIN log' : EndOf(w, log'[k]) => k \in DOMAIN log /\ log'[k] = log[k]
  BY <1>1
<1>3. \A k \in DOMAIN log : k \in DOMAIN log' /\ log'[k] = log[k]
  BY <1>1
<1>4. \A m \in DOMAIN w : m <= n => \E k \in DOMAIN log' : EndOf(w, log'[k]) /\ m \in StepOf(w, log'[k])
  BY <1>3 DEF Done
<1>5. \A k \in DOMAIN log' : EndOf(w, log'[k]) => \A m \in StepOf(w, log'[k]) : m <= n
  BY <1>2 DEF Done
<1>6. \A j, k \in DOMAIN log' : EndOf(w, log'[j]) /\ EndOf(w, log'[k]) /\ j < k =>
          \A m \in StepOf(w, log'[j]), i \in StepOf(w, log'[k]) : m < i
  BY <1>2 DEF Done
<1> QED BY <1>4, <1>5, <1>6 DEF Done

\* The outcome of the next step.
LEMMA DoneNext ==
    ASSUME Types, NEW w \in Workflows, NEW n \in Nat, Done(w, n), NEW e, Logs(e),
           EndOf(w, e), StepOf(w, e) = {n + 1}
    PROVE  Done(w, n + 1)'
<1>1. /\ Len(log) \in Nat /\ DOMAIN log = 1..Len(log) /\ DOMAIN log' = 1..Len(log) + 1
      /\ log'[Len(log) + 1] = e /\ \A k \in 1..Len(log) : log'[k] = log[k]
  BY LogsSets
<1>2. \A k \in DOMAIN log : k \in DOMAIN log' /\ log'[k] = log[k]
  BY <1>1
<1>3. \A k \in DOMAIN log' : k \in DOMAIN log \/ k = Len(log) + 1
  BY <1>1
<1>4. DOMAIN w \subseteq Nat
  BY WorkflowSteps
<1>5. \A m \in DOMAIN w : m <= n + 1 => \E k \in DOMAIN log' : EndOf(w, log'[k]) /\ m \in StepOf(w, log'[k])
  <2>1. SUFFICES ASSUME NEW m \in DOMAIN w, m <= n + 1
        PROVE \E k \in DOMAIN log' : EndOf(w, log'[k]) /\ m \in StepOf(w, log'[k])
    OBVIOUS
  <2>2. m <= n \/ m = n + 1
    BY <1>4, <2>1
  <2>3. CASE m <= n
    BY <1>2, <2>3 DEF Done
  <2>4. CASE m = n + 1
    BY <1>1, <2>4
  <2> QED BY <2>2, <2>3, <2>4
<1>6. \A k \in DOMAIN log' : EndOf(w, log'[k]) => \A m \in StepOf(w, log'[k]) : m <= n + 1
  <2>1. \A k \in DOMAIN log : EndOf(w, log[k]) => \A m \in StepOf(w, log[k]) : m \in Nat /\ m <= n
    BY <1>4 DEF Done, StepOf
  <2>2. \A m \in Nat : m <= n => m <= n + 1
    OBVIOUS
  <2> QED BY <1>1, <1>2, <1>3, <2>1, <2>2
<1>7. \A j, k \in DOMAIN log' : EndOf(w, log'[j]) /\ EndOf(w, log'[k]) /\ j < k =>
          \A m \in StepOf(w, log'[j]), i \in StepOf(w, log'[k]) : m < i
  <2>1. SUFFICES ASSUME NEW j \in DOMAIN log', NEW k \in DOMAIN log',
                        EndOf(w, log'[j]), EndOf(w, log'[k]), j < k,
                        NEW m \in StepOf(w, log'[j]), NEW i \in StepOf(w, log'[k])
        PROVE  m < i
    OBVIOUS
  <2>2. j \in DOMAIN log
    BY <1>1, <2>1
  <2>3. CASE k \in DOMAIN log
    BY <1>2, <2>1, <2>2, <2>3 DEF Done
  <2>4. CASE k = Len(log) + 1
    <3>1. i = n + 1
      BY <1>1, <2>1, <2>4
    <3>2. m \in Nat /\ m <= n
      BY <1>2, <1>4, <2>1, <2>2 DEF Done, StepOf
    <3> QED BY <3>1, <3>2
  <2> QED BY <1>3, <2>3, <2>4
<1> QED BY <1>5, <1>6, <1>7 DEF Done

LEMMA DoneStays == ASSUME log' = log PROVE \A w, n : Done(w, n) => Done(w, n)'
  BY DEF Done

\* The outermost level is replaced by one at the same step, or stays.
LEMMA FirstStays ==
    ASSUME StackOK, NEW m \in Nat \ {0}, NEW lv, Becomes(m, lv),
           m = 1 => lv.steps = stack[1].steps /\ lv.at = stack[1].at
    PROVE  stack'[1].steps = stack[1].steps /\ stack'[1].at = stack[1].at
<1>1. m = 1 \/ 1 \in 1..m - 1
  OBVIOUS
<1> QED BY <1>1 DEF Becomes

LEMMA SettlesFirst ==
    ASSUME Types, StackOK, NEW m, Settles(m)
    PROVE  stack'[1].steps = stack[1].steps /\ stack'[1].at = stack[1].at
<1>1. PICK lv : /\ Becomes(m, lv) /\ lv.steps = stack[m].steps /\ lv.at = stack[m].at
                /\ m \in 1..Len(stack)
  BY DEF Settles
<1>2. m \in Nat \ {0}
  BY <1>1, TopFacts
<1> QED BY <1>1, <1>2, FirstStays

LEMMA InitProgress == Init => Progress
  BY DEF Init, Progress, InRun

\* Every step keeps Progress: the outermost level goes from a step to the next
\* by logging its outcome.
LEMMA NextProgress ==
    ASSUME PairInv, mishaps = 0 => Progress, [Next]_vars, mishaps' = 0
    PROVE  Progress'
<1>0. Types /\ Shape /\ mode' = mode
  BY DEF PairInv, Next, RunStep, SessionStep, vars, Begin, OpenStep, PreGuards, PostGuards, Guard,
         Execute, Iterate, CloseStep, EndLevel, StepLogFails, EndRun, Dies, EnterSession,
         EnterChild, EndOp, RecordChild, LeaveChild, CloseSession, ExitSession, OpLogFails, StartOp,
         Exits, Interrupted, Unwinds
<1> SUFFICES ASSUME mode = "run" PROVE Progress'
  BY <1>0 DEF Progress, InRun
<1>1. CASE UNCHANGED vars
  <2>1. Progress /\ \A w, n : Done(w, n) => Done(w, n)'
    BY <1>1, DoneStays DEF vars
  <2>2. Whole => Whole'
    BY <2>1 DEF Whole
  <2> QED BY <1>1, <2>1, <2>2 DEF vars, Progress, InRun
<1>2. CASE Next /\ InRun
  <2>1. StackOK /\ state = "open"
    BY <1>0, <1>2 DEF Shape, InRun
  <2>2. (Moves /\ mishaps' = mishaps) \/ Unwinds
    <3>1. mishaps \in Nat
      BY <1>0 DEF Types
    <3>2. ~Faults /\ ~Dies
      BY <3>1 DEF Faults, Dies, Mishap
    <3> QED BY <1>0, <1>2, <2>1, <3>2, RunMoves
  <2>9. CASE Unwinds
    BY <2>9 DEF Unwinds, Progress, InRun
  <2> SUFFICES ASSUME Moves, mishaps' = mishaps PROVE Progress'
    BY <2>2, <2>9
  <2>3. PICK w \in Workflows, n \in Nat : w = stack[1].steps /\ stack[1].at = n + 1 /\ Done(w, n)
    BY <1>2 DEF Progress
  <2>4. ASSUME Done(w, n)', stack'[1].steps = w, stack'[1].at = n + 1, state' = "open" PROVE Progress'
    BY <2>3, <2>4 DEF Progress, InRun
  <2>5. CASE Turns \/ Enters
    <3>1. stack'[1].steps = w /\ stack'[1].at = n + 1
      <4>1. CASE Turns
        BY <1>0, <2>1, <2>3, <4>1, SettlesFirst DEF Turns
      <4>2. CASE Enters
        <5>1. PICK q \in Nat \ {0} : q = Len(stack)
          BY <1>0, <2>1, TopFacts
        <5>2. 1 \in 1..q
          OBVIOUS
        <5> QED BY <1>0, <2>1, <2>3, <4>2, <5>1, <5>2, EntersShape
      <4> QED BY <2>5, <4>1, <4>2
    <3>2. log' = log /\ state' = "open"
      BY <2>1, <2>5 DEF Turns, Enters, Settles
    <3> QED BY <2>3, <2>4, <3>1, <3>2, DoneStays
  <2>6. CASE Opens
    <3>1. PICK e : e = Loaded(Fresh, Step.id)
      OBVIOUS
    <3>2. Logs(e) /\ ~EndOf(w, e)
      BY <1>0, <2>1, <2>6, <3>1, EventTypes, OthersDoNotStop DEF Opens, Logs
    <3>3. Done(w, n)'
      BY <1>0, <2>3, <3>2, DoneOther
    <3>4. PICK lv \in Levels : Becomes(Len(stack), lv) /\ lv.steps = Top.steps /\ lv.at = Top.at
      BY <2>6 DEF Opens
    <3>5. stack'[1].steps = w /\ stack'[1].at = n + 1
      BY <1>0, <2>1, <2>3, <3>4, TopFacts, FirstStays
    <3> QED BY <2>1, <2>4, <2>6, <3>3, <3>5 DEF Opens
  <2>7. CASE Closes
    <3>1. PICK e : e = Closing(Top)
      OBVIOUS
    <3>2. Top.at \in DOMAIN Top.steps
      BY <1>0, <2>1, <2>7, TopFacts DEF Closes, StackOK
    <3>3. Logs(e) /\ e.phase = "outcome"
      BY <1>0, <2>1, <2>7, <3>1, <3>2, EventTypes DEF Closes, Logs, Closing, Outcome, Event
    <3>4. PICK q \in Nat \ {0} : q = Len(stack) /\ Top = stack[q]
      BY <1>0, <2>1, TopFacts
    <3>5. CASE q = 1
      <4>1. Top.steps = w /\ Top.at = n + 1
        BY <2>3, <3>4, <3>5
      <4>2. n + 1 \in StepOf(w, e)
        BY <3>1, <3>2, <4>1 DEF StepOf, Closing, Outcome, Event
      <4>3. \A m \in StepOf(w, e) : m = n + 1
        BY <1>0, <2>1, <3>1, <3>2, <4>1, ClosingFacts
      <4>4. EndOf(w, e) /\ StepOf(w, e) = {n + 1}
        BY <3>3, <4>2, <4>3 DEF EndOf
      <4>5. Done(w, n + 1)'
        BY <1>0, <2>3, <3>3, <4>4, DoneNext
      <4>6. CASE ~Top.ok /\ Stops(Step)
        <5>1. state' = "failed"
          BY <2>7, <3>4, <3>5, <4>6 DEF Closes, Leaves
        <5> QED BY <5>1 DEF Progress, InRun
      <4>7. CASE ~(~Top.ok /\ Stops(Step))
        <5>1. PICK lv \in Levels : Becomes(1, lv) /\ lv.steps = w /\ lv.at = (n + 1) + 1 /\ state' = "open"
          BY <2>1, <2>7, <3>4, <3>5, <4>1, <4>7 DEF Closes
        <5>2. stack'[1].steps = w /\ stack'[1].at = (n + 1) + 1
          BY <5>1 DEF Becomes
        <5>3. PICK i \in Nat : i = n + 1
          OBVIOUS
        <5>4. Done(w, i)' /\ stack'[1].at = i + 1
          BY <4>5, <5>2, <5>3
        <5> QED BY <5>1, <5>2, <5>4 DEF Progress, InRun
      <4> QED BY <4>6, <4>7
    <3>6. CASE q # 1
      <4>1. ~EndOf(w, e)
        BY <1>0, <2>1, <3>1, <3>2, <3>4, <3>6, ClosingFacts DEF EndOf
      <4>2. Done(w, n)'
        BY <1>0, <2>3, <3>3, <4>1, DoneOther
      <4>3. stack'[1].steps = w /\ stack'[1].at = n + 1 /\ state' = "open"
        <5>1. CASE Leaves("failed")
          BY <1>0, <2>1, <2>3, <3>4, <3>6, <5>1, SettlesFirst DEF Leaves, Settles
        <5>2. CASE ~Leaves("failed")
          <6>1. PICK lv \in Levels : Becomes(q, lv) /\ state' = "open"
            BY <2>1, <2>7, <3>4, <5>2 DEF Closes
          <6> QED BY <2>1, <2>3, <3>4, <3>6, <6>1, FirstStays
        <5> QED BY <5>1, <5>2
      <4> QED BY <2>4, <4>2, <4>3
    <3> QED BY <3>5, <3>6
  <2>8. CASE Ends
    <3>1. log' = log /\ Done(w, n)'
      BY <2>3, <2>8, DoneStays DEF Ends
    <3>2. CASE Len(stack) = 1
      <4>1. CASE state' = "failed"
        BY <4>1 DEF Progress, InRun
      <4>2. CASE state' # "failed"
        <5>1. state' = "done" /\ Top.at > Len(Top.steps)
          BY <2>8, <3>2, <4>2 DEF Ends, Leaves
        <5>2. Top = stack[1]
          BY <1>0, <2>1, <3>2, TopFacts
        <5>3. n + 1 > Len(w)
          BY <2>3, <5>1, <5>2
        <5>4. Len(w) \in Nat /\ DOMAIN w = 1..Len(w) /\ \A m \in DOMAIN w : m <= n /\ m <= Len(w)
          BY <5>3, WorkflowSteps
        <5>5. \A k : \A m \in StepOf(w, log[k]) : m \in DOMAIN w
          BY DEF StepOf
        <5>6. Done(w, Len(w))
          BY <2>3, <5>4, <5>5 DEF Done
        <5>7. Whole'
          BY <3>1, <5>6 DEF Whole, Done
        <5> QED BY <5>1, <5>7 DEF Progress, InRun
      <4> QED BY <4>1, <4>2
    <3>3. CASE Len(stack) # 1
      <4>1. Settles(Len(stack) - 1)
        BY <2>8, <3>3 DEF Ends, Leaves
      <4>2. PICK m : m = Len(stack) - 1
        OBVIOUS
      <4>3. stack'[1].steps = w /\ stack'[1].at = n + 1 /\ state' = "open"
        BY <1>0, <2>1, <2>3, <4>1, <4>2, SettlesFirst DEF Settles
      <4> QED BY <2>4, <3>1, <4>3
    <3> QED BY <3>2, <3>3
  <2> QED BY <2>5, <2>6, <2>7, <2>8 DEF Moves
<1>3. CASE Dies
  <2>1. mishaps' # 0
    BY <1>0, <1>3 DEF Dies, Mishap, Types
  <2> QED BY <2>1
<1>4. CASE Begin
  <2>1. log' = <<Loaded(0, Root)>> /\ state = "new" /\ stack' = stack /\ state' = "open"
    BY <1>4 DEF Begin
  <2>2. DOMAIN log' = 1..1 /\ log'[1] = Loaded(0, Root)
    BY <2>1
  <2>3. PICK w \in Workflows : w = stack[1].steps /\ stack[1].at = 1
    BY <1>0, <2>1 DEF Shape, StackOK
  <2>4. \A k \in DOMAIN log' : ~EndOf(w, log'[k])
    BY <2>2, OthersDoNotStop
  <2>5. \A m \in DOMAIN w : ~(m <= 0)
    BY WorkflowSteps
  <2>6. Done(w, 0)'
    BY <2>4, <2>5 DEF Done
  <2>7. 0 \in Nat /\ 1 = 0 + 1
    OBVIOUS
  <2> QED BY <2>1, <2>3, <2>6, <2>7 DEF Progress, InRun
<1>5. CASE EndRun
  <2>1. PICK e : e = RootOutcome
    OBVIOUS
  <2>2. /\ log' = Append(log, e) /\ mishaps' = mishaps
        /\ \/ state' = "exited" /\ state = "exits"
           \/ state' = "over" /\ state \in {"failed", "done"}
    BY <1>5, <2>1 DEF EndRun
  <2>3. Logs(e)
    BY <2>1, <2>2 DEF Logs, RootOutcome, Outcome, Event, Events, Labels
  <2>4. Last(log') = e
    BY <1>0, <2>3, LogsSets DEF Last
  <2>5. e = Success => state # "failed"
    BY <2>1, <2>2 DEF RootOutcome, Success, Outcome, Event
  <2>6. Whole => Whole'
    <3>1. ASSUME NEW w \in Workflows, Done(w, Len(w)) PROVE Done(w, Len(w))'
      <4>1. ~EndOf(w, e)
        BY <2>1, OthersDoNotStop
      <4>2. PICK n : n = Len(w)
        OBVIOUS
      <4>3. Done(w, n)'
        BY <1>0, <2>3, <3>1, <4>1, <4>2, DoneOther
      <4> QED BY <4>2, <4>3
    <3> QED BY <3>1 DEF Whole
  <2> QED BY <2>2, <2>4, <2>5, <2>6 DEF Progress, InRun
<1>6. (RunStep \/ Interrupted) /\ ~InRun => Begin \/ EndRun
  BY DEF RunStep, InRun, Running, OpenStep, PreGuards, PostGuards, Guard, Execute, Exits,
         Interrupted, Iterate, CloseStep, EndLevel, StepLogFails
<1>7. ~SessionStep
  BY DEF SessionStep, EnterSession, EnterChild, EndOp, RecordChild, LeaveChild, CloseSession, ExitSession,
         OpLogFails, StartOp, InSession, Able
<1> QED BY <1>1, <1>2, <1>3, <1>4, <1>5, <1>6, <1>7 DEF Next

LEMMA ProgressIsWhole == PairInv /\ (mishaps = 0 => Progress) => SuccessIsWhole
<1> SUFFICES ASSUME PairInv, mishaps = 0 => Progress, mode = "run", state = "over", mishaps = 0,
                    Last(log) = Outcome(0, Root, TRUE, 0)
             PROVE  AllSteps
  BY DEF SuccessIsWhole, Succeeds
<1>1. PICK w \in Workflows : Done(w, Len(w))
  BY DEF Progress, Success, Whole
<1>2. \A n \in DOMAIN w : n <= Len(w)
  BY WorkflowSteps
<1> DEFINE ends == {k \in DOMAIN log : log[k].phase = "outcome" /\ StepOf(w, log[k]) # {}}
<1>3. \A n \in DOMAIN w : \E k \in ends : n \in StepOf(w, log[k])
  BY <1>1, <1>2 DEF Done, EndOf
<1>4. \A j, k \in ends : j < k => \A m \in StepOf(w, log[j]), n \in StepOf(w, log[k]) : m < n
  BY <1>1 DEF Done, EndOf
<1> QED BY <1>3, <1>4 DEF AllSteps

\* A run that ends by itself and reports success has logged the outcome of every step of its
\* workflow, in their order, as long as no call that logs has failed
\* (Runtime.run, Runtime._execute_steps).
THEOREM SuccessIsWholeCorrect == Spec => []SuccessIsWhole
<1>1. PairInv /\ (mishaps = 0 => Progress) /\ [Next]_vars => PairInv' /\ (mishaps = 0 => Progress)'
  BY NextPairs, NextProgress
<1>2. Init => PairInv /\ (mishaps = 0 => Progress)
  BY InitPairs, InitProgress
<1> DEFINE Inv == PairInv /\ (mishaps = 0 => Progress)
<1>3. Init => Inv
  BY <1>2
<1>4. Inv /\ [Next]_vars => Inv'
  BY <1>1
<1>5. Inv => SuccessIsWhole
  BY ProgressIsWhole
<1> HIDE DEF Inv
<1> QED BY <1>3, <1>4, <1>5, PTL DEF Spec

-----------------------------------------------------------------------------
(* The roll-up: a session's counters and the counts over its log.            *)

\* The calls in a log and their violations are finitely many.
LEMMA SubsFinite ==
    ASSUME Types
    PROVE  /\ Len(log) \in Nat /\ DOMAIN log = 1..Len(log)
           /\ \A k \in 1..Len(log) : log[k] \in Events /\ log[k].hits \in Nat
           /\ IsFiniteSet(Subs) /\ Subs \subseteq 1..Len(log)
           /\ IsFiniteSet(Violations(Subs)) /\ SubHits \in Nat
<1>1. Len(log) \in Nat /\ DOMAIN log = 1..Len(log) /\ \A k \in 1..Len(log) : log[k] \in Events
  BY LenProperties, ElementOfSeq DEF Types
<1>2. \A k \in 1..Len(log) : log[k].hits \in Nat
  BY <1>1 DEF Events
<1>3. Subs \subseteq 1..Len(log)
  BY <1>1 DEF Subs
<1>4. IsFiniteSet(Subs)
  <2>1. IsFiniteSet(1..Len(log))
    BY <1>1, FS_Interval
  <2> QED BY <1>3, <2>1, FS_Subset
<1> DEFINE Of == [j \in Subs |-> {j} \X (1..log[j].hits)]
           Parted == {{j} \X (1..log[j].hits) : j \in Subs}
<1>5. IsFiniteSet(Parted)
  <2>1. Of \in Surjection(Subs, Parted)
    BY DEF Surjection
  <2> HIDE DEF Of, Parted
  <2> QED BY <1>4, <2>1, FS_Surjection
<1>6. \A T \in Parted : IsFiniteSet(T)
  <2>1. SUFFICES ASSUME NEW j \in Subs PROVE IsFiniteSet({j} \X (1..log[j].hits))
    OBVIOUS
  <2>2. IsFiniteSet({j}) /\ IsFiniteSet(1..log[j].hits)
    <3>1. PICK n \in Nat : n = log[j].hits
      BY <1>2, <1>3
    <3>2. IsFiniteSet(1..n)
      BY FS_Interval
    <3> QED BY <3>1, <3>2, FS_Singleton
  <2> QED BY <2>2, FS_Product
<1>7. IsFiniteSet(UNION Parted)
  <2> HIDE DEF Parted
  <2> QED BY <1>5, <1>6, FS_UNION
<1>8. IsFiniteSet(Violations(Subs))
  BY <1>7 DEF Violations
<1>9. SubHits \in Nat
  BY <1>8, FS_CardinalityType DEF SubHits
<1> QED BY <1>1, <1>2, <1>3, <1>4, <1>8, <1>9

\* The violations that a new event k reports are as many as it says.
LEMMA ViolationsOfOne ==
    ASSUME NEW V, IsFiniteSet(V), NEW k, NEW h \in Nat, \A v \in V : v[1] # k
    PROVE  Cardinality(V \cup ({k} \X (1..h))) = Cardinality(V) + h
<1> DEFINE P == {k} \X (1..h)
<1>1. IsFiniteSet({k}) /\ Cardinality({k}) = 1
  BY FS_Singleton
<1>2. IsFiniteSet(1..h) /\ Cardinality(1..h) = h
  BY FS_Interval
<1>3. IsFiniteSet(P) /\ Cardinality(P) = h
  <2>1. IsFiniteSet(P) /\ Cardinality(P) = Cardinality({k}) * Cardinality(1..h)
    BY <1>1, <1>2, FS_Product, Zenon
  <2>2. 1 * h = h
    OBVIOUS
  <2> QED BY <1>1, <1>2, <2>1, <2>2, Zenon
<1>4. V \cap P = {}
  OBVIOUS
<1> HIDE DEF P
<1>5. Cardinality(V \cup P) = Cardinality(V) + Cardinality(P) - Cardinality(V \cap P)
  BY <1>3, FS_Union
<1>6. Cardinality(V \cap P) = 0 /\ Cardinality(V) \in Nat
  BY <1>4, FS_EmptySet, FS_CardinalityType
<1>7. Cardinality(V \cup P) = Cardinality(V) + h
  BY <1>3, <1>5, <1>6
<1> QED BY <1>7 DEF P

\* What an event adds; the counts before an older event stay.
LEMMA LogsCounts ==
    ASSUME Types, NEW e, Logs(e)
    PROVE  /\ SubHits' = SubHits + (IF IsSub(e) THEN e.hits ELSE 0)
           /\ SubStarts' = SubStarts + (IF IsSub(e) /\ e.phase = "loaded" THEN 1 ELSE 0)
           /\ SubHits \in Nat /\ SubStarts \in Nat
           /\ \A k \in 1..Len(log) : HitsBefore(k)' = HitsBefore(k) /\ StartsBefore(k)' = StartsBefore(k)
           /\ \A k : k = Len(log) + 1 => HitsBefore(k)' = SubHits /\ StartsBefore(k)' = SubStarts
<1>1. /\ Len(log) \in Nat /\ DOMAIN log = 1..Len(log) /\ DOMAIN log' = 1..Len(log) + 1
      /\ log'[Len(log) + 1] = e /\ \A k \in 1..Len(log) : log'[k] = log[k]
  BY LogsSets
<1>2. PICK l \in Nat : l = Len(log)
  BY <1>1
<1>3. /\ IsFiniteSet(Subs) /\ Subs \subseteq 1..l /\ IsFiniteSet(Violations(Subs))
      /\ SubHits \in Nat /\ e.hits \in Nat
  BY <1>2, SubsFinite DEF Logs, Events
<1>5. Subs' = IF IsSub(e) THEN Subs \cup {l + 1} ELSE Subs
  BY <1>1, <1>2 DEF Subs, IsSub
<1> DEFINE Later(S) == UNION {{j} \X (1..log'[j].hits) : j \in S}
<1>7. \A S \in SUBSET (1..l) : Later(S) = Violations(S)
  <2>1. TAKE S \in SUBSET (1..l)
  <2>2. \A j \in S : log'[j] = log[j]
    BY <1>1, <1>2
  <2>3. {{j} \X (1..log'[j].hits) : j \in S} = {{j} \X (1..log[j].hits) : j \in S}
    BY <2>2
  <2> QED BY <2>3 DEF Violations
<1>8. SubHits' = Cardinality(Later(Subs')) /\ \A k : HitsBefore(k)' = Cardinality(Later(SubsBefore(k)'))
  BY DEF SubHits, HitsBefore, Violations
<1>9. SubHits' = SubHits + (IF IsSub(e) THEN e.hits ELSE 0)
  <2>1. Later(Subs) = Violations(Subs) /\ SubHits = Cardinality(Violations(Subs))
    BY <1>3, <1>7 DEF SubHits
  <2>2. CASE IsSub(e)
    <3>1. Later(Subs \cup {l + 1}) = Later(Subs) \cup ({l + 1} \X (1..e.hits))
      <4>1. log'[l + 1] = e
        BY <1>1, <1>2
      <4>2. {{j} \X (1..log'[j].hits) : j \in Subs \cup {l + 1}}
              = {{j} \X (1..log'[j].hits) : j \in Subs} \cup {{l + 1} \X (1..e.hits)}
        BY <4>1
      <4> QED BY <4>2
    <3>2. \A v \in Violations(Subs) : v[1] # l + 1
      <4>1. SUFFICES ASSUME NEW j \in Subs, NEW v \in {j} \X (1..log[j].hits) PROVE v[1] # l + 1
        BY DEF Violations
      <4> QED BY <1>3
    <3> HIDE DEF Later
    <3>3. Cardinality(Violations(Subs) \cup ({l + 1} \X (1..e.hits)))
            = Cardinality(Violations(Subs)) + e.hits
      BY <1>3, <3>2, ViolationsOfOne
    <3> QED BY <1>5, <1>8, <2>1, <2>2, <3>1, <3>3
  <2>3. CASE ~IsSub(e)
    <3>1. Subs' = Subs
      BY <1>5, <2>3
    <3> HIDE DEF Later
    <3> QED BY <1>3, <1>8, <2>1, <2>3, <3>1
  <2> QED BY <2>2, <2>3
<1> DEFINE A == {k \in Subs : log[k].phase = "loaded"}
           B == {k \in Subs' : log'[k].phase = "loaded"}
<1>10. /\ B = IF IsSub(e) /\ e.phase = "loaded" THEN A \cup {l + 1} ELSE A
       /\ l + 1 \notin A
  <2>1. \A k \in Subs : k \in 1..l /\ k # l + 1 /\ log'[k] = log[k]
    <3>1. \A k \in 1..l : k # l + 1 /\ log'[k] = log[k]
      BY <1>1, <1>2
    <3> QED BY <1>3, <3>1
  <2>2. log'[l + 1] = e
    BY <1>1, <1>2
  <2>3. CASE IsSub(e)
    <3>1. Subs' = Subs \cup {l + 1}
      BY <1>5, <2>3
    <3> QED BY <2>1, <2>2, <2>3, <3>1
  <2>4. CASE ~IsSub(e)
    <3>1. Subs' = Subs
      BY <1>5, <2>4
    <3> QED BY <2>1, <2>4, <3>1
  <2> QED BY <2>3, <2>4
<1>11. IsFiniteSet(A)
  BY <1>3, FS_Subset
<1>12. SubStarts = Cardinality(A) /\ SubStarts' = Cardinality(B)
  BY DEF SubStarts
<1>13. SubStarts' = SubStarts + (IF IsSub(e) /\ e.phase = "loaded" THEN 1 ELSE 0) /\ SubStarts \in Nat
  <2> HIDE DEF A, B
  <2>1. Cardinality(A) \in Nat /\ Cardinality(A \cup {l + 1}) = Cardinality(A) + 1
    BY <1>10, <1>11, FS_CardinalityType, FS_AddElement
  <2> QED BY <1>10, <1>12, <2>1
<1>14. ASSUME NEW k \in 1..l + 1
       PROVE  /\ SubsBefore(k) \subseteq 1..l /\ SubsBefore(k)' = SubsBefore(k)
              /\ HitsBefore(k)' = HitsBefore(k) /\ StartsBefore(k)' = StartsBefore(k)
  <2>1. \A j \in 1..k - 1 : j \in 1..l /\ log'[j] = log[j]
    BY <1>1, <1>2
  <2>2. SubsBefore(k) \subseteq 1..l /\ SubsBefore(k)' = SubsBefore(k)
    BY <2>1 DEF SubsBefore
  <2>3. HitsBefore(k)' = HitsBefore(k)
    <3>1. Later(SubsBefore(k)) = Violations(SubsBefore(k))
      BY <1>7, <2>2
    <3> HIDE DEF Later
    <3> QED BY <1>8, <2>2, <3>1 DEF HitsBefore
  <2>4. StartsBefore(k)' = StartsBefore(k)
    <3>1. {j \in SubsBefore(k) : log[j].phase = "loaded"} = {j \in SubsBefore(k)' : log'[j].phase = "loaded"}
      BY <1>1, <1>2, <2>2
    <3> QED BY <3>1 DEF StartsBefore
  <2> QED BY <2>2, <2>3, <2>4
<1>15. \A k : k = l + 1 => SubsBefore(k) = Subs
  <2>1. l + 1 - 1 = l
    OBVIOUS
  <2> QED BY <1>1, <1>2, <2>1 DEF SubsBefore, Subs
<1>16. \A k : k = l + 1 => HitsBefore(k)' = SubHits /\ StartsBefore(k)' = SubStarts
  <2>1. SUFFICES ASSUME NEW k, k = l + 1 PROVE HitsBefore(k)' = SubHits /\ StartsBefore(k)' = SubStarts
    OBVIOUS
  <2>2. k \in 1..l + 1 /\ SubsBefore(k) = Subs
    BY <1>15, <2>1
  <2>3. HitsBefore(k) = SubHits
    BY <2>2 DEF HitsBefore, SubHits
  <2>4. StartsBefore(k) = SubStarts
    BY <2>2 DEF StartsBefore, SubStarts
  <2> QED BY <1>14, <2>2, <2>3, <2>4
<1> QED BY <1>2, <1>3, <1>9, <1>13, <1>14, <1>16

\* A step adds h to the session's count of violations and s to that of calls,
\* or more when a call that logs has failed.
Tallies(h, s) ==
    /\ sess'.hits >= sess.hits + h /\ sess'.subs >= sess.subs + s
    /\ mishaps' = 0 => mishaps = 0 /\ sess'.hits = sess.hits + h /\ sess'.subs = sess.subs + s
Tallied ==
    \/ log' = log /\ Tallies(0, 0)
    \/ \E e \in Events : /\ Logs(e) /\ IsSub(e)
                         /\ Tallies(e.hits, IF e.phase = "loaded" THEN 1 ELSE 0)
    \/ \E e \in Events : /\ Logs(e) /\ ~IsSub(e) /\ Tallies(0, 0)
                         /\ e.phase = "outcome" /\ e.step # None =>
                               e.hits = sess.hits /\ e.step = sess.subs

\* Each action of a session is one of the three.
LEMMA SessionTallies ==
    ASSUME PairInv, mode = "session", SessionStep
    PROVE  Tallied
<1>0. /\ Types /\ sess \in Sessions /\ sess.op \in Ops \cup {None}
      /\ sess.subs \in Nat /\ sess.hits \in Nat /\ sess.ops \in Nat /\ Fresh \in Nat
      /\ mishaps \in Nat
  BY SessionIdle DEF PairInv, PairBase, Books, Types, Sessions
<1>1. PICK h \in Nat, s \in Nat, o \in Nat : h = sess.hits /\ s = sess.subs /\ o = sess.ops
  BY <1>0
<1>2. Started.hits = h /\ Started.subs = s + 1 /\ Started \in Sessions
  <2>1. PICK n \in Nat, m \in Nat : n = s + 1 /\ m = o + 1
    OBVIOUS
  <2>2. Started = [sess EXCEPT !.subs = n, !.ops = m]
    BY <1>0, <1>1, <2>1 DEF Started, Counted, Sessions
  <2> QED BY <1>0, <1>1, <2>1, <2>2 DEF Sessions
<1>3. ASSUME NEW n \in Nat PROVE Answered(n).hits = h + n /\ Answered(n).subs = s
  <2>1. PICK m \in Nat : m = h + n
    OBVIOUS
  <2>2. Answered(n) = [sess EXCEPT !.op = None, !.hits = m]
    BY <1>1, <2>1 DEF Answered
  <2> QED BY <1>0, <1>1, <2>1, <2>2 DEF Sessions
<1>4. \A k \in {"check", "judge", "invoke"} :
          /\ Loaded(Fresh, k) \in Events /\ Loaded(Fresh, k).hits = 0 /\ Loaded(Fresh, k).phase = "loaded"
          /\ state # "new" => IsSub(Loaded(Fresh, k))
  <2>1. state # "new" => Fresh # 0
    BY <1>0, FreshOne DEF PairInv, PairBase, Books
  <2> QED BY <1>0, <2>1 DEF Loaded, Event, Events, Labels, IsSub
<1>5. ASSUME sess.op # None, NEW ok \in BOOLEAN, NEW n \in Nat
      PROVE  LET e == OpOutcome(ok, n) IN
             e \in Events /\ IsSub(e) /\ e.phase = "outcome" /\ e.hits = n
  <2>1. sess.op.inv # 0 /\ sess.op \in Ops
    BY <1>0, <1>5 DEF PairInv, Begun
  <2> QED BY <2>1 DEF OpOutcome, Outcome, Event, Events, Labels, Ops, IsSub
<1>6. ASSUME NEW ok \in BOOLEAN \cup {None}
      PROVE  LET e == Completion(ok) IN
             e \in Events /\ ~IsSub(e) /\ e.phase = "outcome" /\ e.hits = h /\ e.step = s
  BY <1>0, <1>1 DEF Completion, Outcome, Event, Events, Labels, IsSub
<1>7. (mishaps' = mishaps \/ Mishap) => (mishaps' = 0 => mishaps = 0)
  BY <1>0 DEF Mishap
<1>8. Mishap => mishaps' # 0
  BY <1>0 DEF Mishap
<1>9. CASE EnterSession
  <2>1. PICK e : e = Loaded(0, Root)
    OBVIOUS
  <2>2. log = <<>> /\ log' = Append(log, e) /\ sess' = sess /\ mishaps' = mishaps
    BY <1>9, <2>1 DEF EnterSession, PairInv, Shape
  <2>3. e \in Events /\ ~IsSub(e) /\ e.phase = "loaded"
    BY <2>1 DEF Loaded, Event, Events, Labels, IsSub
  <2>4. Tallies(0, 0)
    BY <1>1, <2>2 DEF Tallies
  <2> QED BY <2>2, <2>3, <2>4 DEF Tallied, Logs
<1>10. ASSUME NEW k \in {"check", "judge", "invoke"}, state # "new", log' = Append(log, Loaded(Fresh, k)),
              sess'.hits = h, sess'.subs = s + 1, mishaps' = 0 => mishaps = 0
       PROVE  Tallied
  <2>1. PICK e : e = Loaded(Fresh, k)
    OBVIOUS
  <2>2. e \in Events /\ Logs(e) /\ IsSub(e) /\ e.hits = 0 /\ e.phase = "loaded"
    BY <1>4, <1>10, <2>1 DEF Logs
  <2>3. Tallies(0, 1)
    BY <1>1, <1>10 DEF Tallies
  <2> QED BY <2>2, <2>3 DEF Tallied
<1>11. CASE \E kind \in {"check", "judge"} : StartOp(kind)
  <2>1. PICK kind \in {"check", "judge"} : StartOp(kind)
    BY <1>11
  <2>2. sess' = [Started EXCEPT !.op = [inv |-> Fresh, kind |-> kind]]
    BY <2>1 DEF StartOp
  <2>3. sess'.hits = h /\ sess'.subs = s + 1
    BY <1>2, <2>2 DEF Sessions
  <2> QED BY <1>7, <1>10, <2>1, <2>3 DEF StartOp, Able, InSession
<1>12. CASE EnterChild
  <2>1. sess'.hits = h /\ sess'.subs = s + 1
    BY <1>2, <1>12 DEF EnterChild, Sessions
  <2> QED BY <1>7, <1>10, <1>12, <2>1 DEF EnterChild, Able, InSession
<1>13. ASSUME sess.op # None, NEW ok \in BOOLEAN, NEW n \in Nat, log' = Append(log, OpOutcome(ok, n)),
              sess' = Answered(n), mishaps' = 0 => mishaps = 0
       PROVE  Tallied
  <2>1. PICK e : e = OpOutcome(ok, n)
    OBVIOUS
  <2>2. e \in Events /\ Logs(e) /\ IsSub(e) /\ e.hits = n /\ e.phase = "outcome"
    BY <1>5, <1>13, <2>1 DEF Logs
  <2>3. sess'.hits = h + n /\ sess'.subs = s
    BY <1>3, <1>13
  <2>4. Tallies(n, 0)
    BY <1>1, <1>13, <2>3 DEF Tallies
  <2> QED BY <2>2, <2>4 DEF Tallied
<1>14. CASE EndOp
  <2>1. PICK ok \in BOOLEAN, n \in 0..1 : log' = Append(log, OpOutcome(ok, n)) /\ sess' = Answered(n)
    BY <1>14 DEF EndOp
  <2> QED BY <1>7, <1>13, <1>14, <2>1 DEF EndOp
<1>15. ASSUME NEW x \in Loads, x # 0, NEW ok \in BOOLEAN \cup {None},
              log' = Append(log, ChildOutcome(x, ok)),
              sess'.hits = h, sess'.subs = s, mishaps' = 0 => mishaps = 0
       PROVE  Tallied
  <2>1. PICK e : e = ChildOutcome(x, ok)
    OBVIOUS
  <2>2. x \in Nat
    BY <1>0, <1>15, Members DEF PairInv, Books
  <2>3. e \in Events /\ Logs(e) /\ IsSub(e) /\ e.hits = 0 /\ e.phase = "outcome"
    BY <1>15, <2>1, <2>2 DEF Logs, ChildOutcome, Outcome, Event, Events, Labels, IsSub
  <2>4. Tallies(0, 0)
    BY <1>1, <1>15 DEF Tallies
  <2> QED BY <2>3, <2>4 DEF Tallied
<1>16. ASSUME NEW ok \in BOOLEAN \cup {None}, log' = Append(log, Completion(ok)),
              sess'.hits = h, sess'.subs = s, mishaps' = 0 => mishaps = 0
       PROVE  Tallied
  <2>1. PICK e : e = Completion(ok)
    OBVIOUS
  <2>2. e \in Events /\ Logs(e) /\ ~IsSub(e) /\ e.hits = sess.hits /\ e.step = sess.subs
    BY <1>1, <1>6, <1>16, <2>1 DEF Logs
  <2>3. Tallies(0, 0)
    BY <1>1, <1>16 DEF Tallies
  <2> QED BY <2>2, <2>3 DEF Tallied
<1>17. ASSUME log' = log, sess'.hits >= h, sess'.subs >= s, mishaps' = 0 => mishaps = 0,
              mishaps' = 0 => sess'.hits = h /\ sess'.subs = s
       PROVE  Tallied
  BY <1>1, <1>17 DEF Tallied, Tallies
<1>171. CASE LeaveChild
  <2>1. /\ sess.kids # <<>> /\ sess' = Left /\ mishaps' = mishaps
        /\ log' = IF Untold THEN Append(log, ChildOutcome(Last(sess.kids), None)) ELSE log
    BY <1>171 DEF LeaveChild
  <2>2. Left.hits = h /\ Left.subs = s
    BY <1>0, <1>1, <2>1, LeftFacts
  <2>3. Last(sess.kids) \in Loads /\ Last(sess.kids) # 0
    BY <2>1, LeftKids DEF PairInv, PairBase, Books
  <2>4. CASE Untold
    BY <1>15, <2>1, <2>2, <2>3, <2>4
  <2>5. CASE ~Untold
    BY <1>0, <1>1, <1>17, <2>1, <2>2, <2>5
  <2> QED BY <2>4, <2>5
<1>172. CASE RecordChild
  <2>1. PICK x \in ToSet(sess.kids) \cup sess.told :
            /\ log' = Append(log, ChildOutcome(x, TRUE))
            /\ sess' = [sess EXCEPT !.told = @ \cup {x}, !.ops = @ + 1]
    BY <1>172 DEF RecordChild
  <2>2. x \in Loads /\ x # 0
    <3>1. PairBase
      BY DEF PairInv, PairBase, Books
    <3>2. DOMAIN sess.kids = 1..Len(sess.kids)
      BY <3>1, SessionIdle
    <3> QED BY <2>1, <3>2 DEF ToSet, PairInv, Begun
  <2>3. sess'.hits = h /\ sess'.subs = s /\ mishaps' = mishaps
    BY <1>0, <1>1, <1>172, <2>1 DEF Sessions, RecordChild
  <2> QED BY <1>15, <2>1, <2>2, <2>3
<1>18. CASE CloseSession
  <2>1. sess'.hits = h /\ sess'.subs = s /\ mishaps' = mishaps
    BY <1>0, <1>1, <1>18 DEF CloseSession, Sessions
  <2>2. CASE log' = Append(log, Completion(TRUE))
    BY <1>16, <2>1, <2>2
  <2>3. CASE log' = Append(log, Overlaid)
    <3>1. PICK e : e = Overlaid
      OBVIOUS
    <3>2. e \in Events /\ ~IsSub(e) /\ e.step = None
      BY <1>0, <3>1 DEF Overlaid, Completion, Outcome, Event, Events, Labels, IsSub
    <3>3. Logs(e) /\ Tallies(0, 0)
      BY <1>1, <2>1, <2>3, <3>1, <3>2 DEF Logs, Tallies
    <3> QED BY <3>2, <3>3 DEF Tallied
  <2> QED BY <1>18, <2>2, <2>3 DEF CloseSession
<1>19. CASE ExitSession
  <2>1. sess' = sess /\ mishaps' = mishaps /\ (log' = log \/ log' = Append(log, Completion(None)))
    BY <1>19 DEF ExitSession
  <2> QED BY <1>1, <1>16, <1>17, <2>1
<1>20. CASE OpLogFails
  <2>1. mishaps' # 0 /\ state # "new"
    BY <1>8, <1>20 DEF OpLogFails, InSession
  <2>2. CASE sess' = Started /\ log' \in MaybeStored(Loaded(Fresh, "check"))
    BY <1>1, <1>2, <1>10, <1>17, <2>1, <2>2 DEF MaybeStored
  <2>3. CASE sess.op # None /\ sess' = Answered(1) /\ log' \in MaybeStored(OpOutcome(TRUE, 1))
    <3>1. sess'.hits = h + 1 /\ sess'.subs = s
      BY <1>3, <2>3
    <3>2. CASE log' = log
      BY <1>17, <2>1, <3>1, <3>2
    <3>3. CASE log' = Append(log, OpOutcome(TRUE, 1))
      BY <1>13, <2>1, <2>3, <3>3
    <3> QED BY <2>3, <3>2, <3>3 DEF MaybeStored
  <2>4. CASE sess' = sess /\ log' \in MaybeStored(Completion(TRUE))
    <3>1. sess'.hits = h /\ sess'.subs = s
      BY <1>1, <2>4
    <3>2. CASE log' = log
      BY <1>17, <2>1, <3>1, <3>2
    <3>3. CASE log' = Append(log, Completion(TRUE))
      BY <1>16, <2>1, <3>1, <3>3
    <3> QED BY <2>4, <3>2, <3>3 DEF MaybeStored
  <2>5. CASE /\ Untold /\ sess' \in {sess, Left}
             /\ log' \in MaybeStored(ChildOutcome(Last(sess.kids), None))
    <3>1. sess'.hits = h /\ sess'.subs = s /\ sess.kids # <<>>
      BY <1>0, <1>1, <2>5, LeftFacts DEF Untold
    <3>2. Last(sess.kids) \in Loads /\ Last(sess.kids) # 0
      BY <3>1, LeftKids DEF PairInv, PairBase, Books
    <3>3. CASE log' = log
      BY <1>0, <1>1, <1>17, <2>1, <3>1, <3>3
    <3>4. CASE log' = Append(log, ChildOutcome(Last(sess.kids), None))
      BY <1>15, <2>1, <3>1, <3>2, <3>4
    <3> QED BY <2>5, <3>3, <3>4 DEF MaybeStored
  <2> QED BY <1>20, <2>2, <2>3, <2>4, <2>5 DEF OpLogFails
<1> QED BY <1>9, <1>11, <1>12, <1>14, <1>171, <1>172, <1>18, <1>19, <1>20 DEF SessionStep

\* Every roll-up event is at least the counts before it, and equal without a fault.
LEMMA TalliedCounts ==
    ASSUME Types, Counts, RollupNeverLow, mode = "session", mode' = mode,
           sess.hits \in Nat, sess.subs \in Nat, sess'.hits \in Nat, sess'.subs \in Nat,
           Tallied
    PROVE  Counts' /\ RollupNeverLow'
<1>1. /\ sess.hits >= SubHits /\ sess.subs >= SubStarts
      /\ mishaps = 0 => sess.hits = SubHits /\ sess.subs = SubStarts
  BY DEF Counts
<1>2. CASE log' = log /\ Tallies(0, 0)
  <2>1. SubHits' = SubHits /\ SubStarts' = SubStarts /\ SubHits \in Nat
    BY <1>2, SubsFinite DEF SubHits, SubStarts, Violations, Subs
  <2>2. SubStarts \in Nat
    <3>1. {k \in Subs : log[k].phase = "loaded"} \subseteq Subs /\ IsFiniteSet(Subs)
      BY SubsFinite
    <3> QED BY <3>1, FS_Subset, FS_CardinalityType DEF SubStarts
  <2>3. Counts'
    BY <1>1, <1>2, <2>1, <2>2 DEF Counts, Tallies
  <2>4. \A k : HitsBefore(k)' = HitsBefore(k) /\ StartsBefore(k)' = StartsBefore(k)
    BY <1>2 DEF HitsBefore, StartsBefore, Violations, SubsBefore
  <2>5. RollupNeverLow'
    BY <1>2, <2>4 DEF RollupNeverLow, Tallies
  <2> QED BY <2>3, <2>5
<1>3. ASSUME NEW e \in Events, Logs(e), NEW h \in Nat, NEW s \in Nat, Tallies(h, s),
             h = (IF IsSub(e) THEN e.hits ELSE 0),
             s = (IF IsSub(e) /\ e.phase = "loaded" THEN 1 ELSE 0),
             ~IsSub(e) /\ e.phase = "outcome" /\ e.step # None =>
                 e.hits = sess.hits /\ e.step = sess.subs
      PROVE  Counts' /\ RollupNeverLow'
  <2>1. /\ SubHits' = SubHits + h /\ SubStarts' = SubStarts + s
        /\ SubHits \in Nat /\ SubStarts \in Nat
        /\ \A k \in 1..Len(log) : HitsBefore(k)' = HitsBefore(k) /\ StartsBefore(k)' = StartsBefore(k)
        /\ \A k : k = Len(log) + 1 => HitsBefore(k)' = SubHits /\ StartsBefore(k)' = SubStarts
    BY <1>3, LogsCounts
  <2>2. Counts'
    <3>1. PICK a \in Nat, b \in Nat, c \in Nat, d \in Nat, sh \in Nat, ss \in Nat :
              /\ a = sess.hits /\ b = sess.subs /\ c = sess'.hits /\ d = sess'.subs
              /\ sh = SubHits /\ ss = SubStarts
      BY <2>1
    <3>2. c >= a + h /\ d >= b + s /\ a >= sh /\ b >= ss
      BY <1>1, <1>3, <3>1 DEF Tallies
    <3>3. c >= sh + h /\ d >= ss + s
      BY <3>2
    <3>4. mishaps' = 0 => c = sh + h /\ d = ss + s
      BY <1>1, <1>3, <3>1 DEF Tallies
    <3> QED BY <2>1, <3>1, <3>3, <3>4 DEF Counts
  <2>3. /\ DOMAIN log = 1..Len(log) /\ DOMAIN log' = 1..Len(log) + 1 /\ Len(log) \in Nat
        /\ log'[Len(log) + 1] = e /\ \A k \in 1..Len(log) : log'[k] = log[k]
    BY <1>3, LogsSets
  <2>4. PICK l \in Nat : l = Len(log)
    BY <2>3
  <2>5. \A k \in DOMAIN log' : k \in 1..l \/ k = l + 1
    BY <2>3, <2>4
  <2>6. ASSUME NEW k \in 1..l, ~IsSub(log'[k]), log'[k].phase = "outcome", log'[k].step # None
        PROVE  /\ log'[k].hits >= HitsBefore(k)' /\ log'[k].step >= StartsBefore(k)'
               /\ mishaps' = 0 => log'[k].hits = HitsBefore(k)' /\ log'[k].step = StartsBefore(k)'
    <3>1. log'[k] = log[k] /\ k \in DOMAIN log
      BY <2>3, <2>4
    <3>2. mishaps' = 0 => mishaps = 0
      BY <1>3 DEF Tallies
    <3> QED BY <2>1, <2>4, <2>6, <3>1, <3>2 DEF RollupNeverLow
  <2>7. ASSUME NEW k, k = l + 1, ~IsSub(log'[k]), log'[k].phase = "outcome", log'[k].step # None
        PROVE  /\ log'[k].hits >= HitsBefore(k)' /\ log'[k].step >= StartsBefore(k)'
               /\ mishaps' = 0 => log'[k].hits = HitsBefore(k)' /\ log'[k].step = StartsBefore(k)'
    <3>1. log'[k] = e
      BY <2>3, <2>4, <2>7
    <3>2. mishaps' = 0 => mishaps = 0
      BY <1>3 DEF Tallies
    <3> QED BY <1>1, <1>3, <2>1, <2>4, <2>7, <3>1, <3>2
  <2>8. RollupNeverLow'
    BY <2>5, <2>6, <2>7 DEF RollupNeverLow
  <2> QED BY <2>2, <2>8
<1>4. CASE \E e \in Events : /\ Logs(e) /\ IsSub(e)
                             /\ Tallies(e.hits, IF e.phase = "loaded" THEN 1 ELSE 0)
  <2>1. PICK e \in Events : Logs(e) /\ IsSub(e) /\ Tallies(e.hits, IF e.phase = "loaded" THEN 1 ELSE 0)
    BY <1>4
  <2>2. PICK h \in Nat, s \in Nat : h = e.hits /\ s = (IF e.phase = "loaded" THEN 1 ELSE 0)
    BY DEF Events
  <2>3. Tallies(h, s)
    BY <2>1, <2>2
  <2> QED BY <1>3, <2>1, <2>2, <2>3
<1>5. CASE \E e \in Events : /\ Logs(e) /\ ~IsSub(e) /\ Tallies(0, 0)
                             /\ e.phase = "outcome" /\ e.step # None =>
                                   e.hits = sess.hits /\ e.step = sess.subs
  BY <1>3, <1>5
<1> QED BY <1>2, <1>4, <1>5 DEF Tallied

LEMMA InitCounts == Init => Counts /\ RollupNeverLow
<1> SUFFICES ASSUME Init PROVE Counts /\ RollupNeverLow
  OBVIOUS
<1>1. log = <<>> /\ sess.hits = 0 /\ sess.subs = 0 /\ DOMAIN log = {}
  BY DEF Init, NoSess
<1>2. Subs = {}
  BY <1>1 DEF Subs
<1>3. SubHits = 0
  BY <1>2, FS_EmptySet DEF SubHits, Violations
<1>4. SubStarts = 0
  BY <1>2, FS_EmptySet DEF SubStarts
<1>5. RollupNeverLow
  BY <1>1 DEF RollupNeverLow
<1> QED BY <1>1, <1>3, <1>4, <1>5 DEF Counts

LEMMA NextCounts ==
    ASSUME PairInv, Counts, RollupNeverLow, [Next]_vars
    PROVE  Counts' /\ RollupNeverLow'
<1>0. Types /\ Shape /\ mode \in {"run", "session"}
  BY DEF PairInv, Types
<1>1. mode' = mode
  BY DEF Next, RunStep, SessionStep, vars, Begin, OpenStep, PreGuards, PostGuards, Guard, Execute, Iterate,
         CloseStep, EndLevel, StepLogFails, EndRun, Dies, EnterSession, StartOp, EnterChild, EndOp,
         RecordChild, LeaveChild, CloseSession, ExitSession, OpLogFails, Exits, Interrupted, Unwinds
<1>2. CASE mode = "run"
  BY <1>1, <1>2 DEF Counts, RollupNeverLow
<1>3. CASE mode = "session"
  <2>1. sess \in Sessions /\ sess' \in Sessions
    BY <1>0, NextTypes DEF Types
  <2>2. sess.hits \in Nat /\ sess.subs \in Nat /\ sess'.hits \in Nat /\ sess'.subs \in Nat
    BY <2>1 DEF Sessions
  <2>3. Tallied
    <3>1. CASE UNCHANGED vars
      BY <2>2, <3>1 DEF vars, Tallied, Tallies
    <3>2. CASE Dies
      <4>1. log' = log /\ sess' = sess /\ mishaps' # 0
        BY <1>0, <3>2 DEF Dies, Mishap, Types
      <4> QED BY <2>2, <4>1 DEF Tallied, Tallies
    <3>3. CASE SessionStep
      BY <1>3, <3>3, SessionTallies
    <3>4. ~RunStep /\ ~Interrupted
      BY <1>0, <1>3 DEF RunStep, Begin, Running, OpenStep, PreGuards, PostGuards, Guard, Execute,
             Exits, Interrupted, Iterate, CloseStep, EndLevel, StepLogFails, EndRun
    <3> QED BY <3>1, <3>2, <3>3, <3>4 DEF Next
  <2> QED BY <1>0, <1>1, <1>3, <2>2, <2>3, TalliedCounts
<1> QED BY <1>0, <1>2, <1>3

\* What a session reports of itself when it closes is never less than what its
\* log shows before, whatever call that logs has failed, and exactly that when
\* none did (Session.record_outcome, Session._sub_invoke_end).
THEOREM RollupNeverLowCorrect == Spec => []RollupNeverLow
<1> DEFINE Inv == PairInv /\ Counts /\ RollupNeverLow
<1>1. Init => Inv
  BY InitPairs, InitCounts
<1>2. Inv /\ [Next]_vars => Inv'
  BY NextPairs, NextCounts
<1>3. Inv => RollupNeverLow
  OBVIOUS
<1> HIDE DEF Inv
<1> QED BY <1>1, <1>2, <1>3, PTL DEF Spec
=============================================================================
