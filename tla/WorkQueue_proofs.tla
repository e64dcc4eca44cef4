--------------------------- MODULE WorkQueue_proofs ---------------------------
(***************************************************************************)
(* Proofs about WorkQueue, for any number of jobs, nodes and requests: its *)
(* types, that a job has one worker (OneWorker) and that a claim is kept   *)
(* (ClaimIsKept); for a client that submits a result once, that a job is   *)
(* paid once (PaidOnce) and in full (PaidInFull); and, when no database    *)
(* call fails as well, that the queue implements WorkContract.             *)
(***************************************************************************)
EXTENDS WorkQueue, FiniteSetTheorems, TLAPS

\* The labels at which a handler works on the job at[h].
Busy == PC \ {"idle", "scan", "inline", "reply"}

\* A busy handler has a job; what it has still to reward, and what it found to be
\* reusable, agree with where it is; and whoever it is about to pay exists.
Located(h) ==
    /\ pc[h] \in Busy => at[h] \in Jobs
    /\ due[h] # {} => pc[h] \in {"payCapability", "create"}
    /\ pc[h] = "payCapability" => due[h] # {}
    /\ pc[h] = "recordReuse" => reuse[h] # None
    /\ pc[h] = "createPattern" => reuse[h] = None
    /\ pc[h] \in {"payCapability", "payPattern", "create"} => Payee(h) \in Accounts

TypeInv == TypeOK /\ \A h \in Handlers : Located(h)

\* Job j belongs to node n: claimed by it, or completed by it.
NodeOwns(n, j) == owner[j] = n /\ work[j] \in {"claimed", "completed"}

\* Job j belongs to the sweep, whose completion erases the owner.
SweepOwns(j) == \/ owner[j] = Fallback /\ work[j] \in {"running", "failed"}
                \/ owner[j] = None /\ work[j] \in {"completed", "failed"}

\* The strengthening of OneWorker: every party past its claim owns its job,
\* and a job nobody claimed has no owner.
ClientOwns  == \A n \in Nodes : has[n] \in Jobs => NodeOwns(n, has[n])
RequestOwns == \A h \in Requests : at[h] \in Jobs /\ pc[h] # "claim" => NodeOwns(From[h], at[h])
SweepHolds  == at[Sweep] \in Jobs /\ pc[Sweep] # "claim" => SweepOwns(at[Sweep])
Unowned     == \A j \in Jobs : work[j] \in {"absent", "queued"} => owner[j] = None

OwnerInv == ClientOwns /\ RequestOwns /\ SweepHolds /\ Unowned

-----------------------------------------------------------------------------
USE WorkQueueAssumption

LEMMA InitType == Init => TypeInv
  BY DEF Init, TypeInv, TypeOK, Located, Busy, PC, Handlers, WorkState, ExecState, Rewards

\* The only fact about Cardinality the types need: creation order is a number.
LEMMA CountType == \A S \in SUBSET Jobs : Cardinality(S) \in Nat
  BY FS_Subset, FS_CardinalityType

\* Where a handler goes after a job, it has none.
LEMMA AfterJobIdle == \A h \in Handlers : AfterJob(h) \in PC \ Busy
  BY DEF AfterJob, PC, Busy

\* What FirstOf takes from a set is in it.
LEMMA FirstIn == \A S : S # {} => FirstOf(S) \in S
  BY DEF FirstOf

\* The payee of a capability, and of a pattern with a creator, has an owner.
LEMMA PayeeType ==
  ASSUME TypeOK, NEW h \in Handlers
  PROVE  /\ due[h] # {} => Payee(h) \in Accounts
         /\ due[h] = {} /\ reuse[h] # None /\ CreatorOf(reuse[h]) # None => Payee(h) \in Accounts
         /\ due[h] = {} /\ reuse[h] = None /\ at[h] \in Jobs /\ CreatorOf(at[h]) # None
                => Payee(h) \in Accounts
<1>1. ASSUME NEW j \in Jobs, CreatorOf(j) # None PROVE CreatorOf(j) \in Contacts
  BY <1>1, FirstIn DEF CreatorOf
<1>2. due[h] # {} => ProviderOf[FirstOf(due[h])] \in Contacts
  BY FirstIn DEF TypeOK
<1> QED
  BY <1>1, <1>2 DEF Payee, Accounts, TypeOK

\* The types of what a handler's own step changes.
HandlerType == /\ pc \in [Handlers -> PC]
               /\ at \in [Handlers -> Jobs \cup {None}]
               /\ reuse \in [Handlers -> Jobs \cup {None}]
               /\ due \in [Handlers -> SUBSET Capabilities]
               /\ \A h \in Handlers : Located(h)

\* A handler of which the variables stand still is where it was.
LEMMA StandLocated ==
  ASSUME NEW g, Located(g), pc'[g] = pc[g], at'[g] = at[g], reuse'[g] = reuse[g], due'[g] = due[g]
  PROVE  Located(g)'
BY DEF Located, Payee

\* A step of one handler: it ends where what it holds belongs.
LEMMA OneType ==
  ASSUME HandlerType, NEW h \in Handlers, NEW l \in PC, Goto(h, l),
         NEW v \in Jobs \cup {None}, at' = [at EXCEPT ![h] = v],
         NEW p \in Jobs \cup {None}, reuse' = [reuse EXCEPT ![h] = p],
         NEW d \in SUBSET Capabilities, due' = [due EXCEPT ![h] = d],
         Located(h)'
  PROVE  HandlerType'
<1>1. /\ pc' \in [Handlers -> PC] /\ at' \in [Handlers -> Jobs \cup {None}]
      /\ reuse' \in [Handlers -> Jobs \cup {None}] /\ due' \in [Handlers -> SUBSET Capabilities]
  BY DEF HandlerType, Goto
<1>2. ASSUME NEW g \in Handlers \ {h} PROVE Located(g)'
  BY <1>2, StandLocated DEF HandlerType, Goto
<1> QED BY <1>1, <1>2 DEF HandlerType

\* A handler that leaves its job owes it nothing more.
LEMMA LeaveType ==
  ASSUME HandlerType, NEW h \in Handlers, NEW l \in PC \ Busy, Goto(h, l), due[h] = {},
         UNCHANGED due, NEW v \in Jobs \cup {None}, at' = at \/ at' = [at EXCEPT ![h] = v],
         reuse' = reuse \/ reuse' = [reuse EXCEPT ![h] = None]
  PROVE  HandlerType'
<1>1. at = [at EXCEPT ![h] = at[h]] /\ reuse = [reuse EXCEPT ![h] = reuse[h]]
      /\ due = [due EXCEPT ![h] = due[h]]
  BY DEF HandlerType
<1>2. Located(h)'
  BY DEF HandlerType, Goto, Located, Busy, PC
<1>3. at[h] \in Jobs \cup {None} /\ reuse[h] \in Jobs \cup {None} /\ due[h] \in SUBSET Capabilities
      /\ None \in Jobs \cup {None} /\ l \in PC
  BY DEF HandlerType
<1>4. CASE at' = at /\ reuse' = reuse
  BY <1>1, <1>2, <1>3, <1>4, OneType
<1>5. CASE at' = at /\ reuse' = [reuse EXCEPT ![h] = None]
  BY <1>1, <1>2, <1>3, <1>5, OneType
<1>6. CASE at' = [at EXCEPT ![h] = v] /\ reuse' = reuse
  BY <1>1, <1>2, <1>3, <1>6, OneType
<1>7. CASE at' = [at EXCEPT ![h] = v] /\ reuse' = [reuse EXCEPT ![h] = None]
  BY <1>1, <1>2, <1>3, <1>7, OneType
<1> QED BY <1>4, <1>5, <1>6, <1>7

LEMMA FinishType ==
  ASSUME HandlerType, NEW h \in Handlers, Finish(h), due[h] = {}, UNCHANGED due
  PROVE  HandlerType'
<1>1. None \in Jobs \cup {None} /\ AfterJob(h) \in PC \ Busy
  BY AfterJobIdle
<1> QED BY <1>1, LeaveType DEF Finish

\* A handler that stays with its job before the rewards.
LEMMA GotoType ==
  ASSUME HandlerType, NEW h \in Handlers,
         NEW l \in PC \ {"payCapability", "recordReuse", "createPattern", "payPattern", "create"},
         at[h] \in Jobs \/ l \notin Busy, Goto(h, l), due[h] = {}, UNCHANGED <<at, reuse, due>>
  PROVE  HandlerType'
<1>1. at = [at EXCEPT ![h] = at[h]] /\ reuse = [reuse EXCEPT ![h] = reuse[h]]
      /\ due = [due EXCEPT ![h] = due[h]]
  BY DEF HandlerType
<1>2. Located(h)'
  BY DEF HandlerType, Goto, Located
<1>3. at[h] \in Jobs \cup {None} /\ reuse[h] \in Jobs \cup {None} /\ due[h] \in SUBSET Capabilities
      /\ l \in PC
  BY DEF HandlerType
<1> QED BY <1>1, <1>2, <1>3, OneType

\* The steps of the rewards.
RewardStep == {"done", "payCapability", "payNode", "recordReuse", "createPattern", "payPattern"}

\* A handler that goes from one reward to the next, or is done.
LEMMA GoOnType ==
  ASSUME TypeInv, NEW h \in Handlers, NEW l \in RewardStep, GoOn(h, l), at[h] \in Jobs,
         NEW d \in SUBSET Capabilities, due' = [due EXCEPT ![h] = d],
         d # {} <=> l = "payCapability",
         l = "recordReuse" => reuse[h] # None,
         l = "createPattern" => reuse[h] = None,
         l = "payPattern" => CreatorOf(IF reuse[h] # None THEN reuse[h] ELSE at[h]) # None
  PROVE  HandlerType'
<1>1. HandlerType
  BY DEF TypeInv, TypeOK, HandlerType
<1>2. CASE l = "done"
  <2>1. /\ pc' = [pc EXCEPT ![h] = AfterJob(h)] /\ AfterJob(h) \in PC \ Busy
        /\ at' = at \/ at' = [at EXCEPT ![h] = None]
        /\ reuse' = reuse \/ reuse' = [reuse EXCEPT ![h] = None]
    BY <1>2, AfterJobIdle DEF GoOn, Finish, Goto
  <2>2. /\ pc' \in [Handlers -> PC] /\ at' \in [Handlers -> Jobs \cup {None}]
        /\ reuse' \in [Handlers -> Jobs \cup {None}] /\ due' \in [Handlers -> SUBSET Capabilities]
    BY <1>1, <2>1 DEF HandlerType
  <2>3. Located(h)'
    BY <1>1, <1>2, <2>1 DEF HandlerType, Located, Busy, PC
  <2>4. ASSUME NEW g \in Handlers \ {h} PROVE Located(g)'
    BY <1>1, <2>1, <2>4, StandLocated DEF HandlerType
  <2> QED BY <2>2, <2>3, <2>4 DEF HandlerType
<1>3. CASE l # "done"
  <2>1. Goto(h, l) /\ UNCHANGED <<at, reuse>> /\ l \in PC
    BY <1>3 DEF GoOn, RewardStep, PC
  <2>2. at = [at EXCEPT ![h] = at[h]] /\ reuse = [reuse EXCEPT ![h] = reuse[h]]
        /\ at[h] \in Jobs \cup {None} /\ reuse[h] \in Jobs \cup {None}
    BY <1>1 DEF HandlerType
  <2>3. pc'[h] = l /\ due'[h] = d /\ at'[h] = at[h] /\ reuse'[h] = reuse[h]
    BY <1>1, <2>1 DEF HandlerType, Goto
  <2>4. Payee(h)' \in Accounts \/ l \notin {"payCapability", "payPattern"}
    <3>1. CASE l = "payCapability"
      <4>1. ProviderOf[FirstOf(d)] \in Contacts
        BY <3>1, FirstIn
      <4> QED BY <4>1, <3>1, <2>3 DEF Payee, Accounts
    <3>2. CASE l = "payPattern"
      <4> DEFINE j == IF reuse[h] # None THEN reuse[h] ELSE at[h]
      <4>1. j \in Jobs
        BY <1>1 DEF HandlerType
      <4>2. CreatorOf(j) \in Contacts
        BY <4>1, <3>2, FirstIn DEF CreatorOf
      <4> QED BY <4>2, <3>2, <2>3 DEF Payee, Accounts
    <3> QED BY <3>1, <3>2
  <2>5. Located(h)'
    BY <2>3, <2>4, <1>3 DEF Located, RewardStep
  <2> QED BY <1>1, <2>1, <2>2, <2>5, OneType
<1> QED BY <1>2, <1>3

\* Where the rewards lead after the capabilities, and after the node.
LEMMA AfterLeads ==
  ASSUME NEW h
  PROVE  /\ AfterNode(h) \in RewardStep \ {"payCapability", "payNode", "payPattern"}
         /\ AfterCapability(h) \in RewardStep \ {"payCapability", "payPattern"}
         /\ AfterCapability(h) = "payNode" => Submitter(h) # None
         /\ AfterNode(h) = "recordReuse" \/ AfterCapability(h) = "recordReuse" => reuse[h] # None
         /\ AfterNode(h) = "createPattern" \/ AfterCapability(h) = "createPattern" => reuse[h] = None
BY DEF AfterNode, AfterCapability, RewardStep

\* A reward that is settled, recorded or not, is due no more; the labels at which
\* one is settled.
Settling == {"payCapability", "payNode", "payPattern", "create"}

LEMMA ProceedLeads ==
  ASSUME TypeInv, NEW h \in Handlers, Proceed(h), pc[h] \in Settling
  PROVE  \E l \in RewardStep :
            /\ GoOn(h, l) /\ at[h] \in Jobs /\ Reward(h) \in Rewards
            /\ due[h] \ {Reward(h)} \in SUBSET Capabilities
            /\ due' = [due EXCEPT ![h] = due[h] \ {Reward(h)}]
            /\ due[h] \ {Reward(h)} # {} <=> l = "payCapability"
            /\ l = "recordReuse" => reuse[h] # None
            /\ l = "createPattern" => reuse[h] = None
            /\ l # "payPattern"
            /\ l = "payNode" => due[h] # {} /\ Submitter(h) # None
            /\ due[h] = {} /\ pc[h] # "payNode" => l = "done"
            /\ due[h] # {} /\ due[h] \ {Reward(h)} = {} => l = AfterCapability(h)
<1> DEFINE d == due[h] \ {Reward(h)}
<1>1. /\ due[h] \in SUBSET Capabilities /\ at[h] \in Jobs
      /\ due' = [due EXCEPT ![h] = d] /\ due'[h] = d
  BY DEF TypeInv, TypeOK, Located, Busy, PC, Proceed, Settling
<1>2. Reward(h) \in Rewards /\ (due[h] # {} => Reward(h) \in due[h])
  BY <1>1, FirstIn DEF Reward, Rewards
<1>3. CASE due[h] # {} /\ d # {}
  BY <1>1, <1>2, <1>3 DEF Proceed, RewardStep
<1>4. CASE due[h] # {} /\ d = {}
  <2>1. GoOn(h, AfterCapability(h))
    BY <1>1, <1>4 DEF Proceed
  <2> QED BY <1>1, <1>2, <1>4, <2>1, AfterLeads
<1>5. CASE due[h] = {} /\ pc[h] = "payNode"
  <2>1. GoOn(h, AfterNode(h))
    BY <1>5 DEF Proceed
  <2> QED BY <1>1, <1>2, <1>5, <2>1, AfterLeads
<1>6. CASE due[h] = {} /\ pc[h] # "payNode"
  BY <1>1, <1>2, <1>6 DEF Proceed, RewardStep
<1> QED BY <1>3, <1>4, <1>5, <1>6

LEMMA ProceedType ==
  ASSUME TypeInv, NEW h \in Handlers, Proceed(h), pc[h] \in Settling
  PROVE  HandlerType'
<1>1. PICK l \in RewardStep :
          /\ GoOn(h, l) /\ at[h] \in Jobs
          /\ due[h] \ {Reward(h)} \in SUBSET Capabilities
          /\ due' = [due EXCEPT ![h] = due[h] \ {Reward(h)}]
          /\ due[h] \ {Reward(h)} # {} <=> l = "payCapability"
          /\ l = "recordReuse" => reuse[h] # None
          /\ l = "createPattern" => reuse[h] = None
          /\ l # "payPattern"
  BY ProceedLeads
<1> QED BY <1>1, GoOnType

LEMMA NextType == TypeInv /\ [Next]_vars => TypeInv'
<1> SUFFICES ASSUME TypeInv, [Next]_vars PROVE TypeInv'
  OBVIOUS
<1> USE DEF rows, times, ledger, handler, client, faults
<1>0. HandlerType
  BY DEF TypeInv, TypeOK, HandlerType
<1>1. ASSUME NEW j \in Jobs, PostExecution(j) PROVE TypeInv'
  <2>1. Cardinality({k \in Jobs : Exists(k)}) \in Nat
    BY CountType
  <2>2. HandlerType'
    <3>1. ASSUME NEW g \in Handlers PROVE Located(g)'
      BY <1>1, <3>1 DEF PostExecution, WithSweep, Located, Payee, Busy, PC, TypeInv, TypeOK
    <3> QED BY <1>0, <1>1, <3>1 DEF PostExecution, WithSweep, HandlerType, PC
  <2> QED
    BY <1>1, <2>1, <2>2 DEF PostExecution, TypeInv, TypeOK, HandlerType, WorkState, ExecState
<1>2. ASSUME NEW j \in Jobs, Age(j) PROVE TypeInv'
  BY <1>2 DEF Age, TypeInv, TypeOK, Located, Payee
<1>3. ASSUME NEW i \in Intents, MatchIntent(i) PROVE TypeInv'
  BY <1>3 DEF MatchIntent, TypeInv, TypeOK, Located, Payee
<1>4. ASSUME NEW h \in Requests, Heartbeat(h) PROVE TypeInv'
  <2>1. /\ pc[h] = "idle" /\ h \in Handlers
        /\ \/ pc' = [WithSweep(pc) EXCEPT ![h] = "reply"] /\ UNCHANGED at
           \/ /\ pc' = [WithSweep(pc) EXCEPT ![h] = "claim"]
              /\ \E j \in Jobs : at' = [at EXCEPT ![h] = j]
    BY <1>4 DEF Heartbeat, Queued, Handlers
  <2>2. ASSUME NEW g \in Handlers PROVE Located(g)'
    <3>1. UNCHANGED <<reuse, due>> /\ Located(g) /\ h # Sweep
      BY <1>4 DEF Heartbeat, TypeInv
    <3>2. CASE g = h
      BY <1>0, <2>1, <3>1, <3>2 DEF WithSweep, Located, Busy, PC, HandlerType
    <3>3. CASE g # h /\ WithSweep(pc)[g] # pc[g]
      <4>1. pc[g] = "idle" /\ pc'[g] = "scan"
        BY <1>0, <2>1, <3>1, <3>3 DEF WithSweep, HandlerType
      <4> QED BY <3>1, <4>1 DEF Located, Busy, PC
    <3>4. CASE g # h /\ WithSweep(pc)[g] = pc[g]
      <4>1. pc'[g] = pc[g] /\ at'[g] = at[g]
        BY <1>0, <2>1, <3>4 DEF WithSweep, HandlerType
      <4> QED BY <3>1, <4>1, StandLocated
    <3> QED BY <3>2, <3>3, <3>4
  <2>3. HandlerType'
    BY <1>0, <1>4, <2>1, <2>2 DEF Heartbeat, WithSweep, HandlerType, PC
  <2> QED
    BY <1>4, <2>3 DEF Heartbeat, TypeInv, TypeOK, HandlerType
<1>5. ASSUME NEW h \in Requests, Submit(h) PROVE TypeInv'
  <2>1. /\ pc[h] = "idle" /\ h \in Handlers /\ has[From[h]] \in Jobs
    BY <1>5 DEF Submit, Handlers, TypeInv, TypeOK
  <2>2. ASSUME NEW g \in Handlers PROVE Located(g)'
    BY <1>5, <2>1, <2>2 DEF Submit, Goto, Located, Payee, Busy, PC, TypeInv, TypeOK
  <2>3. HandlerType'
    BY <1>0, <1>5, <2>1, <2>2 DEF Submit, Goto, HandlerType, PC
  <2> QED
    BY <1>5, <2>1, <2>3 DEF Submit, TypeInv, TypeOK, HandlerType
<1>6. ASSUME NEW h \in Handlers, Continue(h) PROVE TypeInv'
  <2>0. None \in Jobs \cup {None} /\ Located(h) /\ AfterJob(h) \in PC \ Busy
    BY AfterJobIdle DEF TypeInv
  <2>1. CASE Claim(h)
    <3>0. at[h] \in Jobs /\ due[h] = {}
      BY <2>0, <2>1 DEF Claim, Located, Busy, PC
    <3>1. CASE work[at[h]] = "queued"
      <4>1. HandlerType'
        BY <1>0, <2>1, <3>0, <3>1, GotoType DEF Claim, Claimable, PC
      <4>2. /\ work' \in [Jobs -> WorkState]
            /\ owner' \in [Jobs -> Nodes \cup {Fallback, None}]
        <5>1. (IF h = Sweep THEN Fallback ELSE From[h]) \in Nodes \cup {Fallback, None}
          BY DEF Handlers
        <5> QED BY <2>1, <3>1, <5>1 DEF Claim, Claimable, TypeInv, TypeOK, WorkState
      <4> QED
        BY <2>1, <4>1, <4>2 DEF Claim, TypeInv, TypeOK, HandlerType
    <3>2. CASE work[at[h]] # "queued"
      <4>1. HandlerType'
        BY <1>0, <2>0, <2>1, <3>0, <3>2, LeaveType DEF Claim, Claimable
      <4> QED
        BY <2>1, <3>2, <4>1 DEF Claim, Claimable, TypeInv, TypeOK, HandlerType
    <3> QED
      BY <3>1, <3>2
  <2>2. CASE Mark(h)
    <3>1. HandlerType'
      BY <1>0, <2>0, <2>2, GotoType DEF Mark, Located, Busy, PC
    <3> QED BY <2>2, <3>1 DEF Mark, TypeInv, TypeOK, HandlerType, ExecState
  <2>3. CASE Reply(h)
    <3>1. h \in Requests /\ From[h] \in Nodes /\ due[h] = {} /\ "reply" \in PC \ Busy
          /\ "idle" \in PC \ Busy
      BY <2>0, <2>3 DEF Reply, Handlers, Located, PC, Busy
    <3>2. waiting' \in [Nodes -> Requests \cup {None}] /\ has' \in [Nodes -> Jobs \cup {None}]
      <4>1. at[h] \in Jobs \cup {None}
        BY DEF TypeInv, TypeOK
      <4>2. CASE waiting[From[h]] = h
        <5>1. /\ waiting' = [waiting EXCEPT ![From[h]] = None]
              /\ has' = [has EXCEPT ![From[h]] = IF @ = None THEN at[h] ELSE None]
          BY <2>3, <4>2 DEF Reply
        <5> QED BY <3>1, <4>1, <5>1 DEF TypeInv, TypeOK
      <4>3. CASE waiting[From[h]] # h
        BY <2>3, <4>3 DEF Reply, TypeInv, TypeOK
      <4> QED BY <4>2, <4>3
    <3>3. HandlerType'
      BY <1>0, <2>0, <2>3, <3>1, LeaveType DEF Reply
    <3> QED
      BY <2>3, <3>2, <3>3 DEF Reply, TypeInv, TypeOK, HandlerType
  <2>4. CASE CheckSubmit(h)
    <3>1. HandlerType'
      BY <1>0, <2>0, <2>4, GotoType DEF CheckSubmit, Located, Busy, PC
    <3> QED BY <2>4, <3>1 DEF CheckSubmit, TypeInv, TypeOK, HandlerType
  <2>5. CASE ReadWork(h)
    <3>0. due[h] = {} /\ at[h] \in Jobs
      BY <2>0, <2>5 DEF ReadWork, Located, Busy, PC
    <3>1. CASE Finish(h)
      <4>1. HandlerType'
        BY <1>0, <2>5, <3>0, <3>1, FinishType DEF ReadWork
      <4> QED BY <2>5, <4>1 DEF ReadWork, TypeInv, TypeOK, HandlerType
    <3>2. CASE Goto(h, "commit") /\ UNCHANGED at /\ \E p \in Jobs \cup {None} : reuse' = [reuse EXCEPT ![h] = p]
      <4>1. PICK p \in Jobs \cup {None} : reuse' = [reuse EXCEPT ![h] = p]
        BY <3>2
      <4>2. at = [at EXCEPT ![h] = at[h]] /\ due = [due EXCEPT ![h] = due[h]] /\ UNCHANGED due
            /\ at[h] \in Jobs \cup {None} /\ due[h] \in SUBSET Capabilities /\ "commit" \in PC
        BY <1>0, <2>5 DEF HandlerType, ReadWork, PC
      <4>3. Located(h)'
        BY <1>0, <3>0, <3>2, <4>1, <4>2 DEF HandlerType, Located, Goto
      <4>4. HandlerType'
        BY <1>0, <3>2, <4>1, <4>2, <4>3, OneType
      <4> QED BY <2>5, <4>4 DEF ReadWork, TypeInv, TypeOK, HandlerType
    <3> QED
      BY <2>5, <3>1, <3>2 DEF ReadWork, TypeInv, TypeOK
  <2>6. CASE Commit(h)
    <3>1. at[h] \in Jobs
      BY <2>0, <2>6 DEF Commit, Located, Busy, PC
    <3>2. Hired[at[h]] \in SUBSET Capabilities /\ Submitter(h) \in Nodes \cup {None}
      BY <3>1 DEF Submitter, Handlers
    <3>3. HandlerType'
      <4>1. CASE Hired[at[h]] = {}
        BY <2>6, <3>1, <3>2, <4>1, GoOnType, AfterLeads DEF Commit
      <4>2. CASE Hired[at[h]] # {}
        BY <2>6, <3>1, <3>2, <4>2, GoOnType DEF Commit, RewardStep
      <4> QED BY <4>1, <4>2
    <3> QED
      BY <2>6, <3>2, <3>3 DEF Commit, TypeInv, TypeOK, HandlerType, WorkState, ExecState
  <2>7. CASE Pay(h)
    <3>1. HandlerType' /\ at[h] \in Jobs /\ Reward(h) \in Rewards
      BY <2>7, ProceedType, ProceedLeads DEF Pay, Settling
    <3> QED
      BY <2>7, <3>1 DEF Pay, TypeInv, TypeOK, HandlerType
  <2>8. CASE RecordReuse(h)
    <3>1. at[h] \in Jobs /\ due[h] = {} /\ reuse[h] # None
      BY <2>0, <2>8 DEF RecordReuse, Located, Busy, PC
    <3>2. due' = [due EXCEPT ![h] = {}] /\ {} \in SUBSET Capabilities
      BY <1>0, <2>8, <3>1 DEF RecordReuse, HandlerType
    <3>3. HandlerType'
      <4>1. CASE CreatorOf(reuse[h]) # None /\ GoOn(h, "payPattern")
        BY <3>1, <3>2, <4>1, GoOnType DEF RewardStep
      <4>2. CASE GoOn(h, "done")
        BY <3>1, <3>2, <4>2, GoOnType DEF RewardStep
      <4> QED BY <2>8, <4>1, <4>2 DEF RecordReuse
    <3> QED
      BY <2>8, <3>3 DEF RecordReuse, TypeInv, TypeOK, HandlerType
  <2>9. CASE CreatePattern(h)
    <3>1. at[h] \in Jobs /\ due[h] = {} /\ reuse[h] = None
      BY <2>0, <2>9 DEF CreatePattern, Located, Busy, PC
    <3>2. due' = [due EXCEPT ![h] = {}] /\ {} \in SUBSET Capabilities
      BY <1>0, <2>9, <3>1 DEF CreatePattern, HandlerType
    <3>3. HandlerType'
      <4>1. CASE CreatorOf(at[h]) # None
        BY <2>9, <3>1, <3>2, <4>1, GoOnType DEF RewardStep, CreatePattern
      <4>2. CASE CreatorOf(at[h]) = None
        BY <2>9, <3>1, <3>2, <4>2, GoOnType DEF RewardStep, CreatePattern
      <4> QED BY <4>1, <4>2
    <3> QED
      BY <2>9, <3>1, <3>3 DEF CreatePattern, TypeInv, TypeOK, HandlerType
  <2>10. CASE FindNone(h)
    <3>1. at = [at EXCEPT ![h] = at[h]] /\ due = [due EXCEPT ![h] = due[h]]
          /\ reuse = [reuse EXCEPT ![h] = reuse[h]]
          /\ at[h] \in Jobs \cup {None} /\ due[h] \in SUBSET Capabilities
          /\ reuse[h] \in Jobs \cup {None} /\ "create" \in PC
      BY <1>0 DEF HandlerType, PC
    <3>2. Located(h)'
      BY <1>0, <2>0, <2>10 DEF FindNone, Located, HandlerType, Goto, Busy, PC, Payee
    <3>3. HandlerType'
      BY <1>0, <2>10, <3>1, <3>2, OneType DEF FindNone
    <3> QED BY <2>10, <3>3 DEF FindNone, TypeInv, TypeOK, HandlerType
  <2>11. CASE CreateAccount(h)
    <3>1. at = [at EXCEPT ![h] = at[h]] /\ due = [due EXCEPT ![h] = due[h]]
          /\ reuse = [reuse EXCEPT ![h] = reuse[h]]
          /\ at[h] \in Jobs \cup {None} /\ due[h] \in SUBSET Capabilities
          /\ reuse[h] \in Jobs \cup {None} /\ PayStep(h) \in PC
      BY <1>0 DEF HandlerType, PC, PayStep
    <3>2. Located(h)'
      BY <1>0, <2>0, <2>11 DEF CreateAccount, Located, HandlerType, Goto, Busy, PC, Payee, PayStep
    <3>3. HandlerType' /\ Payee(h) \in Accounts
      BY <1>0, <2>0, <2>11, <3>1, <3>2, OneType DEF CreateAccount, Located
    <3> QED BY <2>11, <3>3 DEF CreateAccount, TypeInv, TypeOK, HandlerType
  <2>12. CASE CreateCollides(h)
    <3>1. HandlerType'
      BY <2>12, ProceedType DEF CreateCollides, Settling
    <3> QED BY <2>12, <3>1 DEF CreateCollides, TypeInv, TypeOK, HandlerType
  <2> QED
    BY <1>6, <2>1, <2>2, <2>3, <2>4, <2>5, <2>6, <2>7, <2>8, <2>9, <2>10, <2>11, <2>12 DEF Continue
<1>7. ASSUME NEW h \in Handlers, HandlerFails(h) PROVE TypeInv'
  <2>0. None \in Jobs \cup {None} /\ Located(h) /\ AfterJob(h) \in PC \ Busy
    BY AfterJobIdle DEF TypeInv
  <2>1. CASE MarkFails(h)
    <3>1. HandlerType'
      BY <1>0, <2>0, <2>1, LeaveType DEF MarkFails, Located
    <3> QED BY <2>1, <3>1 DEF MarkFails, Error, TypeInv, TypeOK, HandlerType
  <2>2. CASE CommitFails(h)
    <3>1. HandlerType'
      BY <1>0, <2>0, <2>2, GotoType DEF CommitFails, Throw, Located, Busy, PC
    <3> QED BY <2>2, <3>1 DEF CommitFails, Error, TypeInv, TypeOK, HandlerType
  <2>3. CASE PayFails(h)
    <3>1. HandlerType'
      BY <2>3, ProceedType DEF PayFails, Settling
    <3> QED
      BY <2>3, <3>1 DEF PayFails, Error, TypeInv, TypeOK, HandlerType
  <2>4. CASE RecordReuseFails(h)
    <3>1. HandlerType'
      BY <1>0, <2>0, <2>4, GotoType DEF RecordReuseFails, Throw, Located, Busy, PC
    <3> QED BY <2>4, <3>1 DEF RecordReuseFails, Error, TypeInv, TypeOK, HandlerType
  <2>5. CASE CreatePatternFails(h)
    <3>1. HandlerType'
      BY <1>0, <2>0, <2>5, FinishType DEF CreatePatternFails, GoOn, Located
    <3> QED
      BY <2>5, <3>1 DEF CreatePatternFails, Error, TypeInv, TypeOK, HandlerType
  <2>6. CASE RefuseSubmit(h)
    <3>1. HandlerType'
      BY <1>0, <2>0, <2>6, GotoType DEF RefuseSubmit, Located, Busy, PC
    <3> QED BY <2>6, <3>1 DEF RefuseSubmit, Error, TypeInv, TypeOK, HandlerType
  <2> QED
    BY <1>7, <2>1, <2>2, <2>3, <2>4, <2>5, <2>6 DEF HandlerFails
<1>8. ASSUME SweepStep \/ LoadFails \/ FailFails PROVE TypeInv'
  <2>0. /\ Sweep \in Handlers /\ None \in Jobs \cup {None} /\ Located(Sweep)
        /\ AfterJob(Sweep) \in PC \ Busy /\ "idle" \in PC \ Busy /\ "inline" \in PC \ Busy
    BY AfterJobIdle DEF TypeInv, Handlers, PC, Busy
  <2>1. CASE Scan
    <3>1. HandlerType' /\ todo' \subseteq Jobs
      BY <1>0, <2>0, <2>1, GotoType DEF Scan, Located, Busy, PC, Oldest, Queued
    <3> QED BY <2>1, <3>1 DEF Scan, TypeInv, TypeOK, HandlerType
  <2>2. CASE Inline
    <3>0. due[Sweep] = {} /\ due = [due EXCEPT ![Sweep] = due[Sweep]] /\ UNCHANGED <<due, reuse>>
          /\ reuse = [reuse EXCEPT ![Sweep] = reuse[Sweep]] /\ due[Sweep] \in SUBSET Capabilities
          /\ reuse[Sweep] \in Jobs \cup {None} /\ "claim" \in PC
      BY <1>0, <2>0, <2>2 DEF Inline, Located, HandlerType, PC
    <3>1. PICK j \in Jobs : \/ Goto(Sweep, "claim") /\ at' = [at EXCEPT ![Sweep] = j]
                            \/ \E l \in {"idle", "inline"} : Goto(Sweep, l) /\ UNCHANGED at
      BY <2>2 DEF Inline, TypeInv, TypeOK
    <3>2. HandlerType'
      <4>1. CASE Goto(Sweep, "claim") /\ at' = [at EXCEPT ![Sweep] = j]
        <5>1. Located(Sweep)'
          BY <1>0, <2>0, <3>0, <4>1 DEF Located, Goto, HandlerType
        <5> QED BY <1>0, <2>0, <3>0, <4>1, <5>1, OneType
      <4>2. ASSUME NEW l \in {"idle", "inline"}, Goto(Sweep, l) /\ UNCHANGED at PROVE HandlerType'
        BY <1>0, <2>0, <3>0, <4>2, LeaveType
      <4> QED BY <3>1, <4>1, <4>2
    <3> QED BY <2>2, <3>2 DEF Inline, TypeInv, TypeOK, HandlerType
  <2>3. CASE RunInline
    <3>1. HandlerType'
      BY <1>0, <2>0, <2>3, GotoType DEF RunInline, Located, Busy, PC
    <3> QED BY <2>3, <3>1 DEF RunInline, TypeInv, TypeOK, HandlerType
  <2>4. CASE FailWork
    <3>1. HandlerType'
      BY <1>0, <2>0, <2>4, GotoType DEF FailWork, Located, Busy, PC
    <3> QED BY <2>4, <3>1 DEF FailWork, TypeInv, TypeOK, HandlerType, WorkState
  <2>5. CASE FailExec
    <3>1. HandlerType'
      BY <1>0, <2>0, <2>5, LeaveType DEF FailExec, Located
    <3> QED BY <2>5, <3>1 DEF FailExec, TypeInv, TypeOK, HandlerType, ExecState
  <2>6. CASE LoadFails
    <3>1. HandlerType'
      BY <1>0, <2>0, <2>6, LeaveType DEF LoadFails, Located
    <3> QED BY <2>6, <3>1 DEF LoadFails, Error, TypeInv, TypeOK, HandlerType
  <2>7. CASE FailFails
    <3>1. HandlerType'
      BY <1>0, <2>0, <2>7, LeaveType DEF FailFails, Located
    <3> QED BY <2>7, <3>1 DEF FailFails, Error, TypeInv, TypeOK, HandlerType
  <2> QED
    BY <1>8, <2>1, <2>2, <2>3, <2>4, <2>5, <2>6, <2>7 DEF SweepStep
<1>9. ASSUME NEW c \in Capabilities, OpenAccount(c) PROVE TypeInv'
  <2>1. <<ProviderOf[c], "provider">> \in Accounts
    BY DEF Accounts
  <2> QED BY <1>9, <2>1 DEF OpenAccount, TypeInv, TypeOK, Located, Payee
<1>10. ASSUME ServerCrash PROVE TypeInv'
  BY <1>10 DEF ServerCrash, Loss, TypeInv, TypeOK, Located, Busy, PC
<1>11. ASSUME NEW n \in Nodes, Disconnect(n) \/ NodeCrash(n) PROVE TypeInv'
  <2>1. \A g \in Handlers : Located(g)'
    BY <1>11 DEF Disconnect, NodeCrash, TypeInv, Located, Payee
  <2>2. CASE Disconnect(n)
    <3>1. has' \in [Nodes -> Jobs \cup {None}]
      BY <2>2 DEF Disconnect, TypeInv, TypeOK
    <3> QED
      BY <2>1, <2>2, <3>1 DEF Disconnect, Loss, TypeInv, TypeOK
  <2>3. CASE NodeCrash(n)
    BY <2>1, <2>3 DEF NodeCrash, Loss, TypeInv, TypeOK
  <2> QED
    BY <1>11, <2>2, <2>3
<1>12. ASSUME UNCHANGED vars PROVE TypeInv'
  BY <1>12 DEF vars, TypeInv, TypeOK, Located, Payee
<1> QED
  BY <1>1, <1>2, <1>3, <1>4, <1>5, <1>6, <1>7, <1>8, <1>9, <1>10, <1>11, <1>12 DEF Next

\* The variables keep their types and every busy handler has a job, in all of
\* WorkQueue's behaviours.
THEOREM TypeCorrect == Spec => []TypeOK
<1>1. Spec => []TypeInv
  BY InitType, NextType, PTL DEF Spec
<1>2. TypeInv => TypeOK
  BY DEF TypeInv
<1> QED
  BY <1>1, <1>2, PTL

-----------------------------------------------------------------------------
\* Most steps are quiet: they write neither status nor owner, hand no job to a
\* node, and take no handler past a claim.
Quiet ==
    /\ UNCHANGED <<work, owner>>
    /\ \A n \in Nodes : has'[n] \in Jobs => has'[n] = has[n]
    /\ \A h \in Handlers : at'[h] \in Jobs /\ pc'[h] # "claim" =>
                               at'[h] = at[h] /\ pc[h] # "claim"

LEMMA QuietOwner == OwnerInv /\ Quiet => OwnerInv'
  BY DEF OwnerInv, ClientOwns, RequestOwns, SweepHolds, Unowned, NodeOwns, SweepOwns,
         Quiet, Handlers

LEMMA FinishQuiet ==
  ASSUME TypeOK, NEW h \in Handlers, Finish(h), pc[h] # "claim", UNCHANGED <<work, owner, has>>
  PROVE  Quiet
BY AfterJobIdle DEF TypeOK, Finish, Goto, Quiet

LEMMA GotoQuiet ==
  ASSUME TypeOK, NEW h \in Handlers, NEW l, Goto(h, l), pc[h] # "claim", l # "claim",
         UNCHANGED <<work, owner, has, at>>
  PROVE  Quiet
BY DEF TypeOK, Goto, Quiet

LEMMA GoOnQuiet ==
  ASSUME TypeOK, NEW h \in Handlers, NEW l \in RewardStep, GoOn(h, l), pc[h] # "claim",
         UNCHANGED <<work, owner, has>>
  PROVE  Quiet
<1>1. CASE l = "done"
  BY <1>1, FinishQuiet DEF GoOn
<1>2. CASE l # "done"
  <2>1. Goto(h, l) /\ l # "claim" /\ UNCHANGED at
    BY <1>2 DEF GoOn, RewardStep
  <2> QED BY <2>1, GotoQuiet
<1> QED BY <1>1, <1>2

LEMMA ProceedQuiet ==
  ASSUME TypeInv, NEW h \in Handlers, Proceed(h), pc[h] \in Settling, UNCHANGED <<work, owner, has>>
  PROVE  Quiet
<1>1. PICK l \in RewardStep : GoOn(h, l)
  BY ProceedLeads
<1>2. TypeOK /\ pc[h] # "claim"
  BY DEF TypeInv, Settling
<1> QED BY <1>1, <1>2, GoOnQuiet

\* No party past a claim works on a job that nobody owns.
LEMMA NobodyOnUnowned ==
  ASSUME TypeOK, OwnerInv, NEW j \in Jobs, work[j] \in {"absent", "queued"}
  PROVE  /\ \A n \in Nodes : has[n] # j
         /\ \A h \in Handlers : pc[h] # "claim" => at[h] # j
BY DEF OwnerInv, ClientOwns, RequestOwns, SweepHolds, Unowned, NodeOwns, SweepOwns, Handlers

LEMMA InitOwner == Init => OwnerInv
  BY DEF Init, OwnerInv, ClientOwns, RequestOwns, SweepHolds, Unowned, Handlers

LEMMA NextOwner == TypeInv /\ OwnerInv /\ [Next]_vars => OwnerInv'
<1> SUFFICES ASSUME TypeInv, OwnerInv, [Next]_vars PROVE OwnerInv'
  OBVIOUS
<1> TypeOK /\ \A h \in Handlers : Located(h)
  BY DEF TypeInv
<1> USE DEF rows, times, ledger, handler, client, faults
<1>1. ASSUME NEW j \in Jobs, PostExecution(j) PROVE OwnerInv'
  <2>1. \A k \in Jobs : work'[k] # work[k] => k = j
    BY <1>1 DEF PostExecution, TypeOK
  <2>2. work[j] = "absent" /\ work'[j] = "queued" /\ UNCHANGED <<owner, has, at>>
    BY <1>1 DEF PostExecution, TypeOK, Exists
  <2>3. \A h \in Handlers : pc'[h] = "claim" <=> pc[h] = "claim"
    BY <1>1 DEF PostExecution, TypeOK, WithSweep
  <2>4. (\A n \in Nodes : has[n] # j) /\ \A h \in Handlers : pc[h] # "claim" => at[h] # j
    BY <2>2, NobodyOnUnowned
  <2> QED
    BY <2>1, <2>2, <2>3, <2>4
    DEF OwnerInv, ClientOwns, RequestOwns, SweepHolds, Unowned, NodeOwns, SweepOwns, Handlers
<1>2. ASSUME NEW j \in Jobs, Age(j) PROVE OwnerInv'
  BY <1>2, QuietOwner DEF Age, Quiet
<1>3. ASSUME NEW i \in Intents, MatchIntent(i) PROVE OwnerInv'
  BY <1>3, QuietOwner DEF MatchIntent, Quiet
<1>4. ASSUME NEW h \in Requests, Heartbeat(h) PROVE OwnerInv'
  <2>1. \A g \in Handlers : pc[g] = "claim" => WithSweep(pc)[g] = "claim"
    BY DEF WithSweep, TypeOK
  <2>2. WithSweep(pc) \in [Handlers -> PC]
    BY DEF WithSweep, TypeOK, PC
  <2>3. \/ pc' = [WithSweep(pc) EXCEPT ![h] = "reply"] /\ UNCHANGED at
        \/ /\ pc' = [WithSweep(pc) EXCEPT ![h] = "claim"]
           /\ \E j \in Jobs : at' = [at EXCEPT ![h] = j]
    BY <1>4 DEF Heartbeat, Queued
  <2>4. pc[h] = "idle" /\ h \in Handlers /\ UNCHANGED <<work, owner, has>>
    BY <1>4 DEF Heartbeat, Handlers
  <2>5. Quiet
    BY <2>1, <2>2, <2>3, <2>4 DEF Quiet, TypeOK
  <2> QED
    BY <2>5, QuietOwner
<1>5. ASSUME NEW h \in Requests, Submit(h) PROVE OwnerInv'
  <2>1. From[h] \in Nodes /\ h \in Handlers /\ h # Sweep
    BY DEF Handlers
  <2>2. has[From[h]] \in Jobs /\ UNCHANGED <<work, owner, has>>
    BY <1>5, <2>1 DEF Submit, TypeOK
  <2>3. \A g \in Handlers \ {h} : at'[g] = at[g] /\ pc'[g] = pc[g]
    BY <1>5, <2>1 DEF Submit, Goto, TypeOK
  <2>4. at'[h] = has[From[h]]
    BY <1>5, <2>1 DEF Submit, Goto, TypeOK
  <2> QED
    BY <2>1, <2>2, <2>3, <2>4
    DEF OwnerInv, ClientOwns, RequestOwns, SweepHolds, Unowned, NodeOwns, SweepOwns, Handlers
<1>6. ASSUME NEW h \in Handlers, Continue(h) PROVE OwnerInv'
  <2>1. CASE Claim(h) /\ work[at[h]] = "queued"
    <3>1. at[h] \in Jobs
      BY <2>1 DEF Claim, Claimable, Located, Busy, PC
    <3>2. (\A n \in Nodes : has[n] # at[h]) /\ \A g \in Handlers : pc[g] # "claim" => at[g] # at[h]
      BY <2>1, <3>1, NobodyOnUnowned
    <3>3. /\ \A j \in Jobs \ {at[h]} : work'[j] = work[j] /\ owner'[j] = owner[j]
          /\ \A g \in Handlers \ {h} : pc'[g] = pc[g]
          /\ UNCHANGED <<at, has>>
      BY <2>1 DEF Claim, Claimable, Goto, TypeOK
    <3>4. CASE h = Sweep
      <4>1. work'[at[h]] = "running" /\ owner'[at[h]] = Fallback
        BY <2>1, <3>1, <3>4 DEF Claim, Claimable, TypeOK
      <4> QED
        BY <3>1, <3>2, <3>3, <3>4, <4>1
        DEF OwnerInv, ClientOwns, RequestOwns, SweepHolds, Unowned, NodeOwns, SweepOwns, Handlers
    <3>5. CASE h \in Requests
      <4>1. work'[at[h]] = "claimed" /\ owner'[at[h]] = From[h] /\ h # Sweep
        BY <2>1, <3>1, <3>5 DEF Claim, Claimable, TypeOK
      <4> QED
        BY <3>1, <3>2, <3>3, <3>5, <4>1
        DEF OwnerInv, ClientOwns, RequestOwns, SweepHolds, Unowned, NodeOwns, SweepOwns, Handlers
    <3> QED
      BY <3>4, <3>5 DEF Handlers
  <2>2. CASE Claim(h) /\ work[at[h]] # "queued"
    BY <2>2, QuietOwner, AfterJobIdle DEF Claim, Claimable, Goto, TypeOK, Quiet
  <2>3. CASE Mark(h)
    BY <2>3, QuietOwner, GotoQuiet DEF Mark
  <2>4. CASE Reply(h)
    <3>1. h \in Requests /\ From[h] \in Nodes /\ pc[h] = "reply" /\ h # Sweep
      BY <2>4 DEF Reply, Handlers
    <3>2. /\ \A g \in Handlers \ {h} : at'[g] = at[g] /\ pc'[g] = pc[g]
          /\ at'[h] = None
          /\ UNCHANGED <<work, owner>>
      BY <2>4 DEF Reply, Goto, TypeOK
    <3>3. \A n \in Nodes : \/ has'[n] \in {has[n], None}
                           \/ n = From[h] /\ has'[n] = at[h]
      BY <2>4, <3>1 DEF Reply, TypeOK
    <3>4. None \notin Jobs
      OBVIOUS
    <3> QED
      BY <3>1, <3>2, <3>3, <3>4
      DEF OwnerInv, ClientOwns, RequestOwns, SweepHolds, Unowned, NodeOwns, SweepOwns, Handlers
  <2>5. CASE CheckSubmit(h)
    BY <2>5, QuietOwner, GotoQuiet DEF CheckSubmit
  <2>6. CASE ReadWork(h)
    <3>1. CASE Finish(h)
      BY <2>6, <3>1, QuietOwner, FinishQuiet DEF ReadWork
    <3>2. CASE Goto(h, "commit") /\ UNCHANGED at
      BY <2>6, <3>2, QuietOwner, GotoQuiet DEF ReadWork
    <3> QED
      BY <2>6, <3>1, <3>2 DEF ReadWork
  <2>7. CASE Commit(h)
    <3>1. at[h] \in Jobs /\ pc[h] = "commit"
      BY <2>7 DEF Commit, Located, Busy, PC
    <3>2. /\ \A j \in Jobs \ {at[h]} : work'[j] = work[j] /\ owner'[j] = owner[j]
          /\ \A g \in Handlers \ {h} : pc'[g] = pc[g]
          /\ work'[at[h]] = "completed" /\ owner'[at[h]] = Submitter(h)
          /\ \A g \in Handlers \ {h} : at'[g] = at[g]
          /\ at'[h] \in {at[h], None} /\ UNCHANGED has
      BY <2>7, <3>1 DEF Commit, GoOn, Finish, Goto, TypeOK
    <3>3. CASE h = Sweep
      BY <3>1, <3>2, <3>3
      DEF OwnerInv, ClientOwns, RequestOwns, SweepHolds, Unowned, NodeOwns, SweepOwns,
          Handlers, Submitter
    <3>4. CASE h \in Requests
      <4>1. h # Sweep /\ From[h] \in Nodes /\ owner'[at[h]] = From[h] /\ owner[at[h]] = From[h]
        BY <3>1, <3>2, <3>4 DEF OwnerInv, RequestOwns, NodeOwns, Submitter
      <4> QED
        BY <3>1, <3>2, <3>4, <4>1
        DEF OwnerInv, ClientOwns, RequestOwns, SweepHolds, Unowned, NodeOwns, SweepOwns, Handlers
    <3> QED
      BY <3>3, <3>4 DEF Handlers
  <2>8. CASE Pay(h)
    BY <2>8, QuietOwner, ProceedQuiet DEF Pay, Settling
  <2>9. CASE RecordReuse(h)
    BY <2>9, QuietOwner, GoOnQuiet DEF RecordReuse, RewardStep
  <2>10. CASE CreatePattern(h)
    BY <2>10, QuietOwner, GoOnQuiet DEF CreatePattern, RewardStep
  <2>11. CASE FindNone(h)
    BY <2>11, QuietOwner, GotoQuiet DEF FindNone
  <2>12. CASE CreateAccount(h)
    BY <2>12, QuietOwner, GotoQuiet DEF CreateAccount, PayStep
  <2>13. CASE CreateCollides(h)
    BY <2>13, QuietOwner, ProceedQuiet DEF CreateCollides, Settling
  <2> QED
    BY <1>6, <2>1, <2>2, <2>3, <2>4, <2>5, <2>6, <2>7, <2>8, <2>9, <2>10, <2>11, <2>12, <2>13
    DEF Continue
<1>7. ASSUME NEW h \in Handlers, HandlerFails(h) PROVE OwnerInv'
  <2>1. CASE MarkFails(h)
    BY <2>1, QuietOwner, AfterJobIdle DEF MarkFails, Goto, TypeOK, Quiet
  <2>2. CASE CommitFails(h)
    BY <2>2, QuietOwner, GotoQuiet DEF CommitFails, Throw
  <2>3. CASE PayFails(h)
    BY <2>3, QuietOwner, ProceedQuiet DEF PayFails, Settling
  <2>4. CASE RecordReuseFails(h)
    BY <2>4, QuietOwner, GotoQuiet DEF RecordReuseFails, Throw
  <2>5. CASE CreatePatternFails(h)
    BY <2>5, QuietOwner, FinishQuiet DEF CreatePatternFails, GoOn
  <2>6. CASE RefuseSubmit(h)
    BY <2>6, QuietOwner, GotoQuiet DEF RefuseSubmit
  <2> QED
    BY <1>7, <2>1, <2>2, <2>3, <2>4, <2>5, <2>6 DEF HandlerFails
<1>8. ASSUME SweepStep PROVE OwnerInv'
  <2> Sweep \in Handlers
    BY DEF Handlers
  <2>1. CASE Scan
    BY <2>1, QuietOwner, GotoQuiet DEF Scan
  <2>2. CASE Inline
    BY <2>2, QuietOwner DEF Inline, Goto, TypeOK, Quiet
  <2>3. CASE RunInline
    BY <2>3, QuietOwner, GotoQuiet DEF RunInline
  <2>4. CASE FailWork
    <3>1. at[Sweep] \in Jobs /\ pc[Sweep] = "failWork"
      BY <2>4 DEF FailWork, Located, Busy, PC
    <3>2. /\ \A j \in Jobs \ {at[Sweep]} : work'[j] = work[j]
          /\ work'[at[Sweep]] = "failed"
          /\ \A g \in Handlers \ {Sweep} : pc'[g] = pc[g]
          /\ UNCHANGED <<owner, at, has>>
      BY <2>4, <3>1 DEF FailWork, Goto, TypeOK
    <3> QED
      BY <3>1, <3>2
      DEF OwnerInv, ClientOwns, RequestOwns, SweepHolds, Unowned, NodeOwns, SweepOwns, Handlers
  <2>5. CASE FailExec
    BY <2>5, QuietOwner, AfterJobIdle DEF FailExec, Goto, TypeOK, Quiet
  <2> QED
    BY <1>8, <2>1, <2>2, <2>3, <2>4, <2>5 DEF SweepStep
<1>9. ASSUME FailFails \/ LoadFails PROVE OwnerInv'
  <2> Sweep \in Handlers
    BY DEF Handlers
  <2> QED
    BY <1>9, QuietOwner, AfterJobIdle DEF FailFails, LoadFails, Goto, TypeOK, Quiet
<1>10. ASSUME ServerCrash PROVE OwnerInv'
  BY <1>10, QuietOwner DEF ServerCrash, TypeOK, Quiet
<1>11. ASSUME NEW n \in Nodes, Disconnect(n) \/ NodeCrash(n) PROVE OwnerInv'
  <2>1. \A m \in Nodes : has'[m] \in {has[m], None}
    BY <1>11 DEF Disconnect, NodeCrash, TypeOK
  <2>2. UNCHANGED <<work, owner, pc, at>>
    BY <1>11 DEF Disconnect, NodeCrash
  <2> QED
    BY <2>1, <2>2, QuietOwner DEF Quiet, TypeOK
<1>12. ASSUME UNCHANGED vars \/ \E c \in Capabilities : OpenAccount(c) PROVE OwnerInv'
  BY <1>12, QuietOwner DEF vars, OpenAccount, Quiet
<1> QED
  BY <1>1, <1>2, <1>3, <1>4, <1>5, <1>6, <1>7, <1>8, <1>9, <1>10, <1>11, <1>12 DEF Next

LEMMA OwnerCorrect == Spec => [](TypeInv /\ OwnerInv)
  BY InitType, InitOwner, NextType, NextOwner, PTL DEF Spec

\* Nobody but the owner on the row ever works on a job: neither two nodes, nor a
\* node and the sweep, through any losses, crashes and failing calls.
THEOREM OneWorkerCorrect == Spec => []OneWorker
<1>1. TypeInv /\ OwnerInv => OneWorker
  BY DEF TypeInv, TypeOK, OwnerInv, ClientOwns, RequestOwns, SweepHolds, NodeOwns, SweepOwns,
         OneWorker, Workers, Handlers
<1> QED
  BY <1>1, OwnerCorrect, PTL

\* Only a claim of an unowned job and a completion write the owner.
LEMMA OwnerStep ==
  ASSUME TypeInv, OwnerInv, [Next]_vars, NEW j \in Jobs, owner[j] \in Nodes
  PROVE  owner'[j] = owner[j]
<1> USE DEF rows, times, ledger, handler, client, faults
<1>1. ASSUME NEW h \in Handlers, Claim(h) PROVE owner'[j] = owner[j]
  <2>1. CASE work[at[h]] = "queued"
    <3>1. at[h] \in Jobs
      BY <1>1 DEF Claim, Claimable, TypeInv, Located, Busy, PC
    <3>2. at[h] # j
      BY <2>1, <3>1 DEF OwnerInv, Unowned
    <3> QED
      BY <1>1, <3>2 DEF Claim, Claimable, TypeInv, TypeOK
  <2>2. CASE work[at[h]] # "queued"
    BY <1>1, <2>2 DEF Claim, Claimable
  <2> QED
    BY <2>1, <2>2
<1>2. ASSUME NEW h \in Handlers, Commit(h) PROVE owner'[j] = owner[j]
  <2>1. at[h] \in Jobs /\ pc[h] = "commit"
    BY <1>2 DEF Commit, TypeInv, Located, Busy, PC
  <2>2. owner' = [owner EXCEPT ![at[h]] = Submitter(h)]
    BY <1>2 DEF Commit
  <2>3. CASE at[h] = j
    BY <2>1, <2>2, <2>3
    DEF OwnerInv, RequestOwns, SweepHolds, NodeOwns, SweepOwns, Submitter, Handlers, TypeInv, TypeOK
  <2>4. CASE at[h] # j
    BY <2>2, <2>4 DEF TypeInv, TypeOK
  <2> QED
    BY <2>3, <2>4
<1>3. ASSUME NEW h \in Handlers, Continue(h), ~Claim(h), ~Commit(h) PROVE UNCHANGED owner
  BY <1>3 DEF Continue, Mark, Reply, CheckSubmit, ReadWork, Pay, RecordReuse, CreatePattern,
     FindNone, CreateAccount, CreateCollides
<1>4. ASSUME NEW h \in Handlers, HandlerFails(h) PROVE UNCHANGED owner
  BY <1>4 DEF HandlerFails, MarkFails, CommitFails, PayFails, RecordReuseFails, CreatePatternFails,
     RefuseSubmit
<1>5. ASSUME SweepStep \/ LoadFails \/ FailFails \/ ServerCrash PROVE UNCHANGED owner
  BY <1>5 DEF LoadFails, SweepStep, Scan, Inline, RunInline, FailWork, FailExec, FailFails, ServerCrash
<1>6. ASSUME NEW k \in Jobs, PostExecution(k) \/ Age(k) PROVE UNCHANGED owner
  BY <1>6 DEF PostExecution, Age
<1>7. ASSUME NEW i \in Intents, MatchIntent(i) PROVE UNCHANGED owner
  BY <1>7 DEF MatchIntent
<1>8. ASSUME NEW h \in Requests, Heartbeat(h) \/ Submit(h) PROVE UNCHANGED owner
  BY <1>8 DEF Heartbeat, Submit
<1>9. ASSUME NEW n \in Nodes, Disconnect(n) \/ NodeCrash(n) PROVE UNCHANGED owner
  BY <1>9 DEF Disconnect, NodeCrash
<1>10. ASSUME UNCHANGED vars \/ \E c \in Capabilities : OpenAccount(c) PROVE UNCHANGED owner
  BY <1>10 DEF vars, OpenAccount
<1> QED
  BY <1>1, <1>2, <1>3, <1>4, <1>5, <1>6, <1>7, <1>8, <1>9, <1>10 DEF Next

\* A node's claim is never taken from it, whatever the other nodes, the sweep and
\* the failures do.
THEOREM ClaimIsKeptCorrect == Spec => ClaimIsKept
<1>1. TypeInv /\ OwnerInv /\ [Next]_vars =>
        [\A j \in Jobs : owner[j] \in Nodes => owner'[j] = owner[j]]_vars
  BY OwnerStep
<1> QED
  BY <1>1, OwnerCorrect, PTL DEF Spec, ClaimIsKept

-----------------------------------------------------------------------------
(***************************************************************************)
(* The rewards.  A node that sends one PUT per job, as the shipped client   *)
(* does, has one handler that may complete the job; nobody completes what   *)
(* the sweep claimed but the sweep.  So the job is completed once, and what *)
(* the completing handler has still to pay has not been paid.               *)
(***************************************************************************)

\* The labels of a handler that may still complete its job, and of one that has.
Before(h) == IF h = Sweep THEN {"mark", "run", "read", "commit"} ELSE {"check", "read", "commit"}
Rewarding == {"payCapability", "payNode", "recordReuse", "createPattern", "payPattern", "create"}
Carries(h) == pc[h] \in Before(h) \cup Rewarding

\* The rewards a handler may still record.
Open(h) == IF pc[h] \in Before(h) THEN Rewards
           ELSE IF pc[h] \in Rewarding
           THEN {"pattern"} \cup due[h] \cup (IF pc[h] = "payNode" \/ due[h] # {} THEN {"node"} ELSE {})
           ELSE {}

OpenUnpaid == \A h \in Handlers : \A r \in Open(h) : paid[at[h]][r] = 0

\* The one PUT of a job is carried by one handler.
OnePut ==
    /\ \A h \in Requests : Carries(h) => sent[at[h]] # 0
    /\ \A g, h \in Requests : Carries(g) /\ Carries(h) /\ at[g] = at[h] => g = h

\* A job that is not claimed, or whose PUT is not sent, is neither completed nor paid.
Fresh ==
    \A j \in Jobs :
        /\ work[j] \in {"absent", "queued"} => \A r \in Rewards : paid[j][r] = 0
        /\ owner[j] \in Nodes /\ sent[j] = 0 =>
               work[j] = "claimed" /\ \A r \in Rewards : paid[j][r] = 0

\* The status of the job tells where its handler is.
Staged ==
    /\ \A h \in Handlers :
          /\ pc[h] \in Before(h) => work[at[h]] = IF h = Sweep THEN "running" ELSE "claimed"
          /\ pc[h] \in Rewarding => work[at[h]] = "completed"
    /\ pc[Sweep] \notin {"check", "payNode"}
    /\ pc[Sweep] = "failWork" /\ errors = 0 => work[at[Sweep]] = "running"

PayInv == OpenUnpaid /\ OnePut /\ Fresh /\ Staged /\ PaidOnce

LEMMA InitPay == Init => PayInv
<1> SUFFICES ASSUME Init PROVE PayInv
  OBVIOUS
<1>1. \A h \in Handlers : pc[h] = "idle" /\ ~Carries(h) /\ Open(h) = {}
  BY DEF Init, Carries, Before, Rewarding, Open
<1>2. OpenUnpaid /\ OnePut
  BY <1>1 DEF OpenUnpaid, OnePut, Handlers
<1>3. Fresh /\ PaidOnce
  BY DEF Init, Fresh, PaidOnce
<1>4. Staged
  BY <1>1 DEF Staged, Before, Rewarding, Handlers
<1> QED BY <1>2, <1>3, <1>4 DEF PayInv

\* A handler's step is tame if it neither takes up a job nor goes back to a reward.
Tame(h) ==
    /\ \/ ~Carries(h)'
       \/ /\ at'[h] = at[h]
          /\ \/ pc[h] \in Before(h) /\ pc'[h] \in Before(h)
             \/ pc[h] \in Rewarding /\ pc'[h] \in Rewarding
          /\ \A r : r \in Open(h)' => r \in Open(h)
    /\ h = Sweep => pc'[h] \notin {"check", "payNode"}
    /\ h = Sweep /\ pc'[h] = "failWork" /\ errors' = 0 =>
           pc[h] \in {"run", "failWork"} /\ at'[h] = at[h] /\ errors = 0

LEMMA TamePay ==
    ASSUME TypeInv, PayInv, \A h \in Handlers : Tame(h), UNCHANGED <<work, owner, paid, sent>>
    PROVE  PayInv'
<1> Sweep \in Handlers /\ \A h \in Requests : h \in Handlers
  BY DEF Handlers
<1>1. OpenUnpaid'
  <2> SUFFICES ASSUME NEW h \in Handlers, NEW r, r \in Open(h)' PROVE paid'[at'[h]][r] = 0
    BY DEF OpenUnpaid
  <2>1. Carries(h)'
    BY DEF Carries, Open, Before, Rewarding
  <2> QED BY <2>1 DEF Tame, PayInv, OpenUnpaid
<1>2. OnePut'
  <2>1. \A h \in Requests : Carries(h)' => Carries(h) /\ at'[h] = at[h]
    BY DEF Tame, Carries
  <2> QED BY <2>1 DEF PayInv, OnePut
<1>3. Fresh' /\ PaidOnce'
  BY DEF PayInv, Fresh, PaidOnce
<1>4. Staged'
  <2>1. ASSUME NEW h \in Handlers
        PROVE  /\ pc'[h] \in Before(h) => work'[at'[h]] = IF h = Sweep THEN "running" ELSE "claimed"
               /\ pc'[h] \in Rewarding => work'[at'[h]] = "completed"
    <3>1. Before(h) \cap Rewarding = {}
      BY DEF Before, Rewarding
    <3> QED BY <3>1 DEF Tame, PayInv, Staged, Carries, Before
  <2>2. pc'[Sweep] \notin {"check", "payNode"}
    BY DEF Tame
  <2>3. pc'[Sweep] = "failWork" /\ errors' = 0 => work'[at'[Sweep]] = "running"
    BY DEF Tame, PayInv, Staged, Before
  <2> QED BY <2>1, <2>2, <2>3 DEF Staged, Before
<1> QED BY <1>1, <1>2, <1>3, <1>4 DEF PayInv

\* A handler that stands still is tame, and one that leaves its job.
LEMMA StandTame ==
    ASSUME PayInv, NEW h \in Handlers, pc'[h] = pc[h], at'[h] = at[h], due'[h] = due[h],
           errors' = 0 => errors = 0
    PROVE  Tame(h)
<1>1. \A r : r \in Open(h)' => r \in Open(h)
  BY DEF Open
<1>2. h = Sweep => pc'[h] \notin {"check", "payNode"}
  BY DEF PayInv, Staged
<1> QED BY <1>1, <1>2 DEF Tame, Carries

LEMMA GoneTame ==
    ASSUME NEW h \in Handlers, pc'[h] \in {"idle", "scan", "inline", "claim", "reply", "failExec"}
    PROVE  Tame(h)
BY DEF Tame, Carries, Before, Rewarding

LEMMA AfterJobGone ==
    \A h \in Handlers : AfterJob(h) \in {"idle", "scan", "inline", "claim", "reply", "failExec"}
BY DEF AfterJob

LEMMA OneTame ==
    ASSUME TypeInv, PayInv, NEW h \in Handlers, Tame(h),
           \A g \in Handlers \ {h} : pc'[g] = pc[g] /\ at'[g] = at[g] /\ due'[g] = due[g],
           errors' = 0 => errors = 0, UNCHANGED <<work, owner, paid, sent>>
    PROVE  PayInv'
<1>1. \A g \in Handlers : Tame(g)
  BY StandTame
<1> QED BY <1>1, TamePay

\* A step of handler h alone.
LEMMA OthersStand ==
    ASSUME TypeInv, NEW h \in Handlers, NEW l, Goto(h, l),
           at' = at \/ (\E v : at' = [at EXCEPT ![h] = v]),
           due' = due \/ (\E d : due' = [due EXCEPT ![h] = d])
    PROVE  pc'[h] = l /\ \A g \in Handlers \ {h} : pc'[g] = pc[g] /\ at'[g] = at[g] /\ due'[g] = due[g]
BY DEF Goto, TypeInv, TypeOK

LEMMA FinishPay ==
    ASSUME TypeInv, PayInv, NEW h \in Handlers, Finish(h), errors' = 0 => errors = 0,
           due' = due \/ (\E d : due' = [due EXCEPT ![h] = d]),
           UNCHANGED <<work, owner, paid, sent>>
    PROVE  PayInv'
<1>1. pc'[h] = AfterJob(h) /\ \A g \in Handlers \ {h} : pc'[g] = pc[g] /\ at'[g] = at[g] /\ due'[g] = due[g]
  BY DEF Finish, Goto, TypeInv, TypeOK
<1>2. Tame(h)
  BY <1>1, AfterJobGone, GoneTame
<1> QED BY <1>1, <1>2, OneTame

\* A handler that goes on with its job before the transaction.
LEMMA OnwardPay ==
    ASSUME TypeInv, PayInv, NEW h \in Handlers, NEW l \in Before(h), pc[h] \in Before(h), Goto(h, l),
           UNCHANGED <<at, due>>, errors' = 0 => errors = 0, UNCHANGED <<work, owner, paid, sent>>
    PROVE  PayInv'
<1>1. /\ pc'[h] = l /\ at' = at
      /\ \A g \in Handlers \ {h} : pc'[g] = pc[g] /\ at'[g] = at[g] /\ due'[g] = due[g]
  BY OthersStand
<1>2. Open(h) = Rewards /\ l \notin {"failWork"} /\ ~(h = Sweep /\ l \in {"check", "payNode"})
  BY DEF Open, Before
<1>3. \A r : r \in Open(h)' => r \in Rewards
  BY <1>1 DEF Open
<1>4. Tame(h)
  BY <1>1, <1>2, <1>3 DEF Tame
<1> QED BY <1>1, <1>4, OneTame

\* A handler that goes on with its rewards, of which none becomes due again.
LEMMA GoOnTame ==
    ASSUME TypeInv, NEW h \in Handlers, NEW l \in RewardStep, GoOn(h, l), pc[h] \in Rewarding,
           NEW d \in SUBSET due[h], due' = [due EXCEPT ![h] = d], l = "payNode" => due[h] # {} /\ h # Sweep
    PROVE  /\ Tame(h)
           /\ \A g \in Handlers \ {h} : pc'[g] = pc[g] /\ at'[g] = at[g] /\ due'[g] = due[g]
           /\ IF l = "done" THEN ~Carries(h)' ELSE pc'[h] = l /\ at'[h] = at[h]
<1>1. due'[h] = d
  BY DEF TypeInv, TypeOK
<1>2. CASE l = "done"
  <2>1. pc'[h] = AfterJob(h) /\ \A g \in Handlers \ {h} : pc'[g] = pc[g] /\ at'[g] = at[g] /\ due'[g] = due[g]
    BY <1>2 DEF GoOn, Finish, Goto, TypeInv, TypeOK
  <2>2. Tame(h) /\ ~Carries(h)'
    BY <2>1, AfterJobGone, GoneTame DEF Carries, Before, Rewarding
  <2> QED BY <1>2, <2>1, <2>2
<1>3. CASE l # "done"
  <2>1. Goto(h, l) /\ UNCHANGED <<at, reuse>> /\ l \in Rewarding
    BY <1>3 DEF GoOn, RewardStep, Rewarding
  <2>2. /\ pc'[h] = l /\ at'[h] = at[h]
        /\ \A g \in Handlers \ {h} : pc'[g] = pc[g] /\ at'[g] = at[g] /\ due'[g] = due[g]
    BY <2>1, OthersStand
  <2>3. pc[h] \notin Before(h) /\ l \notin Before(h) /\ l \notin {"check", "failWork"}
    BY <2>1 DEF Before, Rewarding
  <2>4. \A r : r \in Open(h)' => r \in Open(h)
    BY <1>1, <2>1, <2>2, <2>3 DEF Open
  <2>5. Tame(h)
    BY <2>1, <2>2, <2>3, <2>4 DEF Tame
  <2> QED BY <1>3, <2>2, <2>5
<1> QED BY <1>2, <1>3

\* A handler that looks for its payee's account, or creates it.
LEMMA SeekPay ==
    ASSUME TypeInv, PayInv, NEW h \in Handlers, FindNone(h) \/ CreateAccount(h)
    PROVE  PayInv'
<1>1. PICK l \in {"payCapability", "payPattern", "create"} : Goto(h, l)
  BY DEF FindNone, CreateAccount, PayStep
<1>2. /\ UNCHANGED <<at, due, work, owner, paid, sent, errors>>
      /\ pc[h] \in {"payCapability", "payPattern", "create"}
  BY DEF FindNone, CreateAccount, rows, ledger, client, faults
<1>3. /\ pc'[h] = l
      /\ \A g \in Handlers \ {h} : pc'[g] = pc[g] /\ at'[g] = at[g] /\ due'[g] = due[g]
  BY <1>1, <1>2, OthersStand
<1>4. pc[h] \in Rewarding /\ l \in Rewarding /\ Open(h)' = Open(h)
  BY <1>1, <1>2, <1>3 DEF Open, Rewarding, Before
<1>5. Tame(h)
  BY <1>1, <1>2, <1>3, <1>4 DEF Tame
<1> QED BY <1>2, <1>3, <1>5, OneTame

\* A handler that leaves its job.
LEMMA GonePay ==
    ASSUME TypeInv, PayInv, NEW h \in Handlers, errors' = 0 => errors = 0,
           NEW l \in {"idle", "scan", "inline", "claim", "reply", "failExec"}, Goto(h, l),
           at' = at \/ (\E v : at' = [at EXCEPT ![h] = v]),
           UNCHANGED <<work, owner, paid, sent, due>>
    PROVE  PayInv'
<1>1. pc'[h] = l /\ \A g \in Handlers \ {h} : pc'[g] = pc[g] /\ at'[g] = at[g] /\ due'[g] = due[g]
  BY OthersStand
<1>2. Tame(h)
  BY <1>1, GoneTame
<1> QED BY <1>1, <1>2, OneTame

\* A failing call counts, so the step is not errorless.
LEMMA ErrorCounts == TypeInv /\ Error => errors' # 0
  BY DEF TypeInv, TypeOK, Error

\* completeWork that fails leaves the job to the sweep's catch block.
LEMMA ThrowPay ==
    ASSUME TypeInv, PayInv, NEW h \in Handlers, Throw(h), errors' # 0, UNCHANGED <<at, due>>,
           UNCHANGED <<work, owner, paid, sent>>
    PROVE  PayInv'
<1>1. /\ pc'[h] = IF h = Sweep THEN "failWork" ELSE "reply"
      /\ \A g \in Handlers \ {h} : pc'[g] = pc[g] /\ at'[g] = at[g] /\ due'[g] = due[g]
  BY OthersStand DEF Throw
<1>2. Tame(h)
  BY <1>1 DEF Tame, Carries, Before, Rewarding
<1> QED BY <1>1, <1>2, OneTame

LEMMA ClaimPay ==
    ASSUME TypeInv, OwnerInv, PayInv, NEW h \in Handlers, Claim(h)
    PROVE  PayInv'
<1>1. CASE work[at[h]] # "queued"
  BY <1>1, AfterJobGone, GonePay DEF Claim, Claimable, times, ledger, client, faults
<1>2. CASE work[at[h]] = "queued"
  <2> DEFINE j == at[h]
  <2>1. /\ j \in Jobs /\ pc[h] = "claim" /\ work[j] = "queued"
        /\ work' = [work EXCEPT ![j] = IF h = Sweep THEN "running" ELSE "claimed"]
        /\ owner' = [owner EXCEPT ![j] = IF h = Sweep THEN Fallback ELSE From[h]]
        /\ pc' = [pc EXCEPT ![h] = "mark"]
        /\ UNCHANGED <<at, paid, sent, errors, due>>
    BY <1>2 DEF Claim, Claimable, Goto, TypeInv, Located, Busy, PC, ledger, client, faults
  <2>2. \A g \in Handlers : pc[g] # "claim" => at[g] # j
    BY <2>1, NobodyOnUnowned DEF TypeInv
  <2>3. /\ \A g \in Handlers \ {h} : pc'[g] = pc[g] /\ Open(g)' = Open(g) /\ (Carries(g)' <=> Carries(g))
        /\ pc'[h] = "mark"
        /\ \A g \in Handlers : Carries(g) \/ pc[g] = "failWork" => at[g] # j
    BY <2>1, <2>2 DEF TypeInv, TypeOK, Open, Carries, Before, Rewarding
  <2>4. \A r \in Rewards : paid[j][r] = 0
    BY <2>1 DEF PayInv, Fresh
  <2> HIDE DEF j
  <2>5. OpenUnpaid'
    <3>1. ASSUME NEW g \in Handlers, NEW r \in Open(g)' PROVE paid'[at'[g]][r] = 0
      <4>1. r \in Rewards
        BY <2>1 DEF Open, Rewards, TypeInv, TypeOK
      <4> QED BY <4>1, <2>1, <2>3, <2>4, <3>1 DEF PayInv, OpenUnpaid, j
    <3> QED BY <3>1 DEF OpenUnpaid
  <2>6. OnePut'
    <3>1. \A g \in Requests : Carries(g)' => Carries(g) /\ g # h
      BY <2>1, <2>3 DEF Carries, Before, Rewarding, Handlers
    <3> QED BY <2>1, <3>1 DEF PayInv, OnePut
  <2>7. \A k \in Jobs \ {j} : work'[k] = work[k] /\ owner'[k] = owner[k]
    BY <2>1 DEF TypeInv, TypeOK
  <2>8. /\ work'[j] = IF h = Sweep THEN "running" ELSE "claimed"
        /\ h = Sweep => owner'[j] = Fallback
    BY <2>1 DEF TypeInv, TypeOK
  <2>9. Fresh'
    <3>1. ASSUME NEW k \in Jobs
          PROVE  /\ work'[k] \in {"absent", "queued"} => \A r \in Rewards : paid'[k][r] = 0
                 /\ owner'[k] \in Nodes /\ sent'[k] = 0 =>
                        work'[k] = "claimed" /\ \A r \in Rewards : paid'[k][r] = 0
      BY <2>1, <2>4, <2>7, <2>8 DEF PayInv, Fresh
    <3> QED BY <3>1 DEF Fresh
  <2>10. Staged'
    <3>1. ASSUME NEW g \in Handlers
          PROVE  /\ pc'[g] \in Before(g) => work'[at'[g]] = IF g = Sweep THEN "running" ELSE "claimed"
                 /\ pc'[g] \in Rewarding => work'[at'[g]] = "completed"
      <4>1. CASE g = h
        BY <4>1, <2>3, <2>8, <2>1 DEF Before, Rewarding, j
      <4>2. CASE g # h
        <5>1. pc[g] \in Before(g) \cup Rewarding => at[g] \in Jobs \ {j}
          BY <4>2, <2>3 DEF Carries, TypeInv, Located, Busy, PC, Before, Rewarding
        <5> QED BY <4>2, <5>1, <2>1, <2>3, <2>7 DEF PayInv, Staged
      <4> QED BY <4>1, <4>2
    <3>2. pc'[Sweep] \notin {"check", "payNode"}
      BY <2>1, <2>3 DEF PayInv, Staged, Handlers
    <3>3. pc'[Sweep] = "failWork" /\ errors' = 0 => work'[at'[Sweep]] = "running"
      <4>1. pc'[Sweep] = "failWork" => Sweep # h /\ pc[Sweep] = "failWork" /\ at[Sweep] \in Jobs \ {j}
        BY <2>1, <2>3 DEF TypeInv, Located, Busy, PC, Handlers
      <4> QED BY <4>1, <2>1, <2>7 DEF PayInv, Staged
    <3> QED BY <3>1, <3>2, <3>3 DEF Staged, Before
  <2>11. PaidOnce'
    BY <2>1 DEF PayInv, PaidOnce
  <2> QED BY <2>5, <2>6, <2>9, <2>10, <2>11 DEF PayInv
<1> QED BY <1>1, <1>2

LEMMA SubmitPay ==
    ASSUME MaxSubmits = 1, TypeInv, OwnerInv, PayInv, NEW h \in Requests, Submit(h)
    PROVE  PayInv'
<1> DEFINE j == has[From[h]]
<1>1. /\ From[h] \in Nodes /\ h \in Handlers /\ h # Sweep /\ j \in Jobs
      /\ pc[h] = "idle" /\ pc' = [pc EXCEPT ![h] = "check"] /\ at' = [at EXCEPT ![h] = j]
      /\ sent[j] = 0 /\ sent' = [sent EXCEPT ![j] = @ + 1]
      /\ UNCHANGED <<work, owner, paid, errors, due>>
  BY DEF Submit, Goto, TypeInv, TypeOK, Handlers, rows, ledger, faults
<1>2. owner[j] \in Nodes /\ work[j] = "claimed" /\ \A r \in Rewards : paid[j][r] = 0
  BY <1>1 DEF OwnerInv, ClientOwns, NodeOwns, PayInv, Fresh
<1>3. /\ \A g \in Handlers \ {h} : /\ pc'[g] = pc[g] /\ at'[g] = at[g] /\ due'[g] = due[g]
                                   /\ Open(g)' = Open(g) /\ (Carries(g)' <=> Carries(g))
      /\ pc'[h] = "check" /\ at'[h] = j
      /\ \A k \in Jobs \ {j} : sent'[k] = sent[k]
      /\ sent'[j] = 1
  BY <1>1 DEF TypeInv, TypeOK, Open, Carries
<1>4. \A g \in Requests : Carries(g) => at[g] # j
  BY <1>1 DEF PayInv, OnePut
<1> HIDE DEF j
<1>5. OpenUnpaid'
  <2>1. ASSUME NEW g \in Handlers, NEW r \in Open(g)' PROVE paid'[at'[g]][r] = 0
    <3>1. r \in Rewards
      BY <1>1 DEF Open, Rewards, TypeInv, TypeOK
    <3> QED BY <3>1, <1>1, <1>2, <1>3, <2>1 DEF PayInv, OpenUnpaid
  <2> QED BY <2>1 DEF OpenUnpaid
<1>6. OnePut'
  <2>1. ASSUME NEW g \in Requests, Carries(g)' PROVE sent'[at'[g]] # 0
    <3>1. CASE g = h
      BY <3>1, <1>3
    <3>2. CASE g # h
      <4>1. at[g] \in Jobs /\ sent[at[g]] # 0 /\ at'[g] = at[g]
        BY <3>2, <2>1, <1>3 DEF PayInv, OnePut, TypeInv, Located, Busy, PC, Carries, Before,
                                Rewarding, Handlers
      <4> QED BY <4>1, <1>3
    <3> QED BY <3>1, <3>2
  <2>2. ASSUME NEW f \in Requests, NEW g \in Requests, Carries(f)', Carries(g)', at'[f] = at'[g]
        PROVE  f = g
    BY <2>2, <1>3, <1>4 DEF PayInv, OnePut, Handlers
  <2> QED BY <2>1, <2>2 DEF OnePut
<1>7. Fresh' /\ PaidOnce'
  <2>1. \A k \in Jobs : sent'[k] = 0 => sent[k] = 0
    BY <1>3
  <2> QED BY <1>1, <2>1 DEF PayInv, Fresh, PaidOnce
<1>8. Staged'
  <2>1. ASSUME NEW g \in Handlers
        PROVE  /\ pc'[g] \in Before(g) => work'[at'[g]] = IF g = Sweep THEN "running" ELSE "claimed"
               /\ pc'[g] \in Rewarding => work'[at'[g]] = "completed"
    BY <1>1, <1>2, <1>3 DEF PayInv, Staged, Rewarding
  <2>2. pc'[Sweep] = pc[Sweep] /\ at'[Sweep] = at[Sweep]
    BY <1>1, <1>3 DEF Handlers
  <2> QED BY <1>1, <2>1, <2>2 DEF PayInv, Staged, Before
<1> QED BY <1>5, <1>6, <1>7, <1>8 DEF PayInv

\* A handler that carries a job has it, and is the only one: two requests by
\* OnePut, a request and the sweep because they belong to different owners.
LEMMA CarriesJob ==
    ASSUME TypeInv, NEW h \in Handlers, Carries(h) \/ pc[h] = "failWork"
    PROVE  at[h] \in Jobs
BY DEF TypeInv, Located, Busy, PC, Carries, Before, Rewarding

LEMMA CarriesAlone ==
    ASSUME TypeInv, OwnerInv, PayInv, NEW g \in Handlers, NEW h \in Handlers, Carries(g),
           Carries(h) \/ (h = Sweep /\ pc[h] = "failWork"), at[g] = at[h]
    PROVE  g = h
<1>1. at[g] \in Jobs /\ pc[g] # "claim" /\ pc[h] # "claim"
  BY CarriesJob DEF Carries, Before, Rewarding
<1>2. CASE g = Sweep /\ h \in Requests
  <2>1. owner[at[h]] \in Nodes
    BY <1>1, <1>2 DEF OwnerInv, RequestOwns, NodeOwns
  <2>2. owner[at[g]] \in {Fallback, None}
    BY <1>1, <1>2 DEF OwnerInv, SweepHolds, SweepOwns
  <2> QED BY <2>1, <2>2
<1>3. CASE h = Sweep /\ g \in Requests
  <2>1. owner[at[g]] \in Nodes
    BY <1>1, <1>3 DEF OwnerInv, RequestOwns, NodeOwns
  <2>2. owner[at[h]] \in {Fallback, None}
    BY <1>1, <1>3 DEF OwnerInv, SweepHolds, SweepOwns
  <2> QED BY <2>1, <2>2
<1>4. CASE g \in Requests /\ h \in Requests
  BY <1>4 DEF PayInv, OnePut
<1> QED BY <1>2, <1>3, <1>4 DEF Handlers

LEMMA CommitPay ==
    ASSUME TypeInv, OwnerInv, PayInv, NEW h \in Handlers, Commit(h)
    PROVE  PayInv'
<1> DEFINE j == at[h]
<1>0. PICK l \in RewardStep : GoOn(h, l) /\ (l = "payNode" => h # Sweep)
  BY AfterLeads DEF Commit, RewardStep, Submitter
<1>1. /\ pc[h] = "commit" /\ j \in Jobs /\ Carries(h)
      /\ work' = [work EXCEPT ![j] = "completed"] /\ owner' = [owner EXCEPT ![j] = Submitter(h)]
      /\ due' = [due EXCEPT ![h] = Hired[j]] /\ Hired[j] \subseteq Capabilities
      /\ UNCHANGED <<paid, sent, errors>>
  BY DEF Commit, TypeInv, Located, Busy, PC, Carries, Before, ledger, client, faults
<1>2. /\ \A g \in Handlers \ {h} : /\ pc'[g] = pc[g] /\ at'[g] = at[g]
                                   /\ Open(g)' = Open(g) /\ (Carries(g)' <=> Carries(g))
      /\ pc'[h] \notin Before(h) /\ (Carries(h)' => at'[h] = j)
      /\ h = Sweep => pc'[h] \notin {"check", "payNode", "failWork"}
      /\ \A k \in Jobs \ {j} : work'[k] = work[k] /\ owner'[k] = owner[k]
      /\ work'[j] = "completed" /\ owner'[j] = Submitter(h)
  <2>1. /\ \A k \in Jobs \ {j} : work'[k] = work[k] /\ owner'[k] = owner[k]
        /\ work'[j] = "completed" /\ owner'[j] = Submitter(h)
    BY <1>1 DEF TypeInv, TypeOK
  <2>2. \A g \in Handlers \ {h} : pc'[g] = pc[g] /\ at'[g] = at[g] /\ due'[g] = due[g]
    BY <1>0, <1>1 DEF GoOn, Finish, Goto, TypeInv, TypeOK
  <2>3. \A g \in Handlers \ {h} : Open(g)' = Open(g) /\ (Carries(g)' <=> Carries(g))
    BY <2>2 DEF Open, Carries
  <2>4. CASE l = "done"
    <3>1. pc'[h] = AfterJob(h)
      BY <1>0, <2>4 DEF GoOn, Finish, Goto, TypeInv, TypeOK
    <3>2. pc'[h] \notin Before(h) \cup Rewarding /\ pc'[h] \notin {"check", "payNode", "failWork"}
      BY <3>1, AfterJobGone DEF Before, Rewarding
    <3> QED BY <2>1, <2>2, <2>3, <3>2 DEF Carries
  <2>5. CASE l # "done"
    <3>1. pc'[h] = l /\ at'[h] = j
      BY <1>0, <1>1, <2>5 DEF GoOn, Goto, TypeInv, TypeOK
    <3>2. l \notin Before(h) \cup {"check", "failWork"}
      BY DEF RewardStep, Before
    <3> QED BY <1>0, <2>1, <2>2, <2>3, <3>1, <3>2
  <2> QED BY <2>4, <2>5
<1>3. \A g \in Handlers \ {h} : Carries(g) \/ (g = Sweep /\ pc[g] = "failWork") => at[g] # j
  BY <1>1, CarriesAlone
<1>4. Submitter(h) \in Nodes => h \in Requests /\ sent[j] # 0
  BY <1>1 DEF Submitter, PayInv, OnePut, Handlers
<1>5. \A r \in Rewards : paid[j][r] = 0
  BY <1>1 DEF PayInv, OpenUnpaid, Open, Before
<1>6. \A g \in Handlers : \A r \in Open(g)' : Carries(g)' /\ r \in Rewards
  <2>1. due'[h] = Hired[j]
    BY <1>1 DEF TypeInv, TypeOK
  <2>2. \A g \in Handlers : due'[g] \in SUBSET Capabilities
    BY <1>1, <2>1 DEF TypeInv, TypeOK
  <2> QED BY <2>2 DEF Open, Carries, Rewards
<1> HIDE DEF j
<1>7. OpenUnpaid'
  <2>1. ASSUME NEW g \in Handlers, NEW r \in Open(g)' PROVE paid'[at'[g]][r] = 0
    <3>1. CASE g = h
      BY <3>1, <1>1, <1>2, <1>5, <1>6, <2>1
    <3>2. CASE g # h
      BY <3>2, <1>1, <1>2, <2>1 DEF PayInv, OpenUnpaid
    <3> QED BY <3>1, <3>2
  <2> QED BY <2>1 DEF OpenUnpaid
<1>8. OnePut'
  <2>1. \A g \in Requests : Carries(g)' => Carries(g) /\ at'[g] = at[g]
    BY <1>1, <1>2 DEF Handlers, j
  <2> QED BY <1>1, <2>1 DEF PayInv, OnePut
<1>9. Fresh' /\ PaidOnce'
  <2>1. ASSUME NEW k \in Jobs
        PROVE  /\ work'[k] \in {"absent", "queued"} => \A r \in Rewards : paid'[k][r] = 0
               /\ owner'[k] \in Nodes /\ sent'[k] = 0 =>
                      work'[k] = "claimed" /\ \A r \in Rewards : paid'[k][r] = 0
    BY <1>1, <1>2, <1>4 DEF PayInv, Fresh
  <2> QED BY <1>1, <2>1 DEF Fresh, PaidOnce, PayInv
<1>10. Staged'
  <2>1. ASSUME NEW g \in Handlers
        PROVE  /\ pc'[g] \in Before(g) => work'[at'[g]] = IF g = Sweep THEN "running" ELSE "claimed"
               /\ pc'[g] \in Rewarding => work'[at'[g]] = "completed"
    <3>1. CASE g = h
      BY <3>1, <1>2 DEF Carries
    <3>2. CASE g # h
      <4>1. pc[g] \in Before(g) \cup Rewarding => at[g] \in Jobs \ {j}
        BY <3>2, <1>3, CarriesJob DEF Carries
      <4> QED BY <4>1, <3>2, <1>1, <1>2 DEF PayInv, Staged
    <3> QED BY <3>1, <3>2
  <2>2. pc'[Sweep] \notin {"check", "payNode"}
    BY <1>1, <1>2 DEF PayInv, Staged, Handlers
  <2>3. pc'[Sweep] = "failWork" /\ errors' = 0 => work'[at'[Sweep]] = "running"
    <3>1. pc'[Sweep] = "failWork" => pc[Sweep] = "failWork" /\ at[Sweep] \in Jobs \ {j} /\ at'[Sweep] = at[Sweep]
      BY <1>1, <1>2, <1>3, CarriesJob DEF Handlers
    <3> QED BY <3>1, <1>1, <1>2 DEF PayInv, Staged
  <2> QED BY <2>1, <2>2, <2>3 DEF Staged, Before
<1> QED BY <1>7, <1>8, <1>9, <1>10 DEF PayInv

\* Where Proceed leads: the reward just settled is not open again.
LEMMA ProceedPays ==
    ASSUME TypeInv, PayInv, NEW h \in Handlers, Proceed(h), pc[h] \in Settling
    PROVE  /\ at[h] \in Jobs /\ Reward(h) \in Open(h)
           /\ \A g \in Handlers \ {h} : pc'[g] = pc[g] /\ at'[g] = at[g] /\ due'[g] = due[g]
           /\ Tame(h)
           /\ Carries(h)' => Reward(h) \notin Open(h)'
<1> DEFINE d == due[h] \ {Reward(h)}
<1>1. PICK l \in RewardStep :
          /\ GoOn(h, l) /\ at[h] \in Jobs /\ Reward(h) \in Rewards
          /\ due' = [due EXCEPT ![h] = d]
          /\ l # "payPattern"
          /\ d # {} <=> l = "payCapability"
          /\ l = "payNode" => due[h] # {} /\ Submitter(h) # None
          /\ due[h] = {} /\ pc[h] # "payNode" => l = "done"
  BY ProceedLeads
<1>2. pc[h] \in Rewarding /\ pc[h] \notin Before(h)
  BY DEF Settling, Rewarding, Before
<1>3. l = "payNode" => h # Sweep
  BY <1>1 DEF Submitter
<1>4. /\ Tame(h)
      /\ \A g \in Handlers \ {h} : pc'[g] = pc[g] /\ at'[g] = at[g] /\ due'[g] = due[g]
      /\ IF l = "done" THEN ~Carries(h)' ELSE pc'[h] = l /\ at'[h] = at[h]
  <2>1. d \in SUBSET due[h]
    OBVIOUS
  <2> QED BY <1>1, <1>2, <1>3, <2>1, GoOnTame
<1>5. /\ due[h] # {} => Reward(h) \in due[h] /\ Reward(h) \notin {"node", "pattern"}
      /\ due[h] = {} /\ pc[h] = "payNode" => Reward(h) = "node"
      /\ due[h] = {} /\ pc[h] # "payNode" => Reward(h) = "pattern"
  <2>1. due[h] \subseteq Capabilities
    BY DEF TypeInv, TypeOK
  <2> QED BY <2>1, FirstIn DEF Reward
<1>6. Reward(h) \in Open(h)
  BY <1>2, <1>5 DEF Open
<1>7. ASSUME Carries(h)' PROVE Reward(h) \notin Open(h)'
  <2>1. l # "done" /\ pc'[h] = l /\ due'[h] = d
    BY <1>1, <1>4, <1>7 DEF TypeInv, TypeOK
  <2>2. l \notin Before(h)
    BY <2>1 DEF RewardStep, Before
  <2>3. CASE due[h] # {}
    BY <2>1, <2>2, <2>3, <1>5 DEF Open
  <2>4. CASE due[h] = {}
    <3>1. pc[h] = "payNode" /\ l # "payNode" /\ d = {} /\ Reward(h) = "node"
      BY <2>1, <2>4, <1>1, <1>5
    <3> QED BY <2>1, <2>2, <3>1 DEF Open
  <2> QED BY <2>3, <2>4
<1> QED BY <1>1, <1>4, <1>6, <1>7

LEMMA OpenRewards ==
    ASSUME TypeInv, NEW h \in Handlers
    PROVE  Open(h) \subseteq Rewards
<1>1. due[h] \subseteq Capabilities
  BY DEF TypeInv, TypeOK
<1> QED BY <1>1 DEF Open, Rewards

LEMMA PayPay ==
    ASSUME TypeInv, OwnerInv, PayInv, NEW h \in Handlers, Pay(h)
    PROVE  PayInv'
<1> DEFINE j == at[h]
           r == Reward(h)
<1>1. /\ j \in Jobs /\ r \in Rewards /\ Carries(h) /\ r \in Open(h) /\ Tame(h)
      /\ \A g \in Handlers \ {h} : pc'[g] = pc[g] /\ at'[g] = at[g] /\ due'[g] = due[g]
      /\ Carries(h)' => r \notin Open(h)'
  BY ProceedPays, ProceedLeads DEF Pay, Carries, Rewarding, Settling
<1>2. /\ paid' = [paid EXCEPT ![j][r] = @ + 1]
      /\ UNCHANGED <<work, owner, sent, errors>>
  BY DEF Pay, rows, client, faults
<1>3. /\ \A k \in Jobs, q \in Rewards : (k # j \/ q # r) => paid'[k][q] = paid[k][q]
      /\ paid[j][r] = 0 /\ paid'[j][r] = 1
  BY <1>1, <1>2 DEF TypeInv, TypeOK, PayInv, OpenUnpaid
<1>4. \A g \in Handlers \ {h} : /\ Tame(g) /\ (Carries(g)' <=> Carries(g)) /\ Open(g)' = Open(g)
                                /\ Carries(g) => at[g] # j
  <2>1. ASSUME NEW g \in Handlers \ {h} PROVE Tame(g)
    BY <1>1, <1>2, StandTame
  <2>2. ASSUME NEW g \in Handlers \ {h} PROVE (Carries(g)' <=> Carries(g)) /\ Open(g)' = Open(g)
    BY <1>1 DEF Carries, Open
  <2>3. ASSUME NEW g \in Handlers \ {h}, Carries(g) PROVE at[g] # j
    BY <1>1, <2>3, CarriesAlone
  <2> QED BY <2>1, <2>2, <2>3
<1>5. /\ work[j] \notin {"absent", "queued"}
      /\ ~(owner[j] \in Nodes /\ sent[j] = 0)
  <2>1. work[j] \in {"claimed", "running", "completed"}
    BY <1>1 DEF PayInv, Staged, Carries
  <2>2. pc[h] \in Rewarding /\ pc[h] # "claim"
    BY DEF Pay, Rewarding
  <2>3. CASE h \in Requests
    BY <1>1, <2>1, <2>3 DEF PayInv, OnePut
  <2>4. CASE h = Sweep
    BY <1>1, <2>1, <2>2, <2>4 DEF OwnerInv, SweepHolds, SweepOwns
  <2> QED BY <2>1, <2>3, <2>4 DEF Handlers
<1> HIDE DEF j, r
<1>6. OpenUnpaid'
  <2>1. ASSUME NEW g \in Handlers, NEW q \in Open(g)' PROVE paid'[at'[g]][q] = 0
    <3>1. Carries(g)'
      BY <2>1 DEF Carries, Open
    <3>2. Carries(g) /\ at'[g] = at[g] /\ q \in Open(g) /\ at[g] \in Jobs /\ q \in Rewards
      <4>1. Tame(g)
        BY <1>1, <1>4
      <4>2. Carries(g) /\ at'[g] = at[g] /\ q \in Open(g)
        BY <4>1, <3>1, <2>1 DEF Tame, Carries
      <4> QED BY <4>2, CarriesJob, OpenRewards
    <3>3. g = h => q # r
      BY <1>1, <2>1, <3>1
    <3>4. at[g] # j \/ q # r
      BY <1>4, <3>2, <3>3 DEF j
    <3> QED BY <3>1, <3>2, <3>4, <1>3 DEF PayInv, OpenUnpaid
  <2> QED BY <2>1 DEF OpenUnpaid
<1>7. OnePut'
  <2>1. \A g \in Requests : Carries(g)' => Carries(g) /\ at'[g] = at[g]
    BY <1>1, <1>4 DEF Tame, Carries, Handlers
  <2> QED BY <1>2, <2>1 DEF PayInv, OnePut
<1>8. Fresh' /\ PaidOnce'
  <2>1. ASSUME NEW k \in Jobs
        PROVE  /\ work'[k] \in {"absent", "queued"} => \A q \in Rewards : paid'[k][q] = 0
               /\ owner'[k] \in Nodes /\ sent'[k] = 0 =>
                      work'[k] = "claimed" /\ \A q \in Rewards : paid'[k][q] = 0
    BY <1>2, <1>3, <1>5 DEF PayInv, Fresh
  <2>2. \A k \in Jobs, q \in Rewards : paid'[k][q] <= 1
    BY <1>1, <1>3 DEF PayInv, PaidOnce
  <2> QED BY <2>1, <2>2 DEF Fresh, PaidOnce
<1>9. Staged'
  <2>1. ASSUME NEW g \in Handlers
        PROVE  /\ pc'[g] \in Before(g) => work'[at'[g]] = IF g = Sweep THEN "running" ELSE "claimed"
               /\ pc'[g] \in Rewarding => work'[at'[g]] = "completed"
    <3>1. Tame(g) /\ Before(g) \cap Rewarding = {}
      BY <1>1, <1>4 DEF Before, Rewarding
    <3>2. Carries(g)' => /\ at'[g] = at[g]
                         /\ pc'[g] \in Before(g) => pc[g] \in Before(g)
                         /\ pc'[g] \in Rewarding => pc[g] \in Rewarding
      BY <3>1 DEF Tame
    <3> QED BY <3>2, <1>2 DEF PayInv, Staged, Carries, Before
  <2>2. Tame(Sweep)
    BY <1>1, <1>4 DEF Handlers
  <2>3. pc'[Sweep] \notin {"check", "payNode"}
    BY <2>2 DEF Tame
  <2>4. pc'[Sweep] = "failWork" /\ errors' = 0 => work'[at'[Sweep]] = "running"
    BY <2>2, <1>2 DEF Tame, PayInv, Staged, Before, Handlers
  <2> QED BY <2>1, <2>3, <2>4 DEF Staged, Before
<1> QED BY <1>6, <1>7, <1>8, <1>9 DEF PayInv

LEMMA FailWorkPay ==
    ASSUME TypeInv, OwnerInv, PayInv, FailWork
    PROVE  PayInv'
<1> DEFINE j == at[Sweep]
<1>1. /\ Sweep \in Handlers /\ pc[Sweep] = "failWork" /\ j \in Jobs
      /\ pc' = [pc EXCEPT ![Sweep] = "failExec"] /\ work' = [work EXCEPT ![j] = "failed"]
      /\ UNCHANGED <<owner, at, paid, sent, errors, due>>
  BY DEF FailWork, Goto, TypeInv, Located, Busy, PC, Handlers, ledger, client, faults
<1>2. /\ \A g \in Handlers \ {Sweep} : pc'[g] = pc[g] /\ Open(g)' = Open(g) /\ (Carries(g)' <=> Carries(g))
      /\ pc'[Sweep] = "failExec" /\ Open(Sweep)' = {} /\ ~Carries(Sweep)'
      /\ \A k \in Jobs \ {j} : work'[k] = work[k]
      /\ work'[j] = "failed"
  BY <1>1 DEF TypeInv, TypeOK, Open, Carries, Before, Rewarding
<1>3. \A g \in Handlers : Carries(g) => at[g] # j
  <2>1. ~Carries(Sweep)
    BY <1>1 DEF Carries, Before, Rewarding
  <2> QED BY <1>1, <2>1, CarriesAlone
<1>4. owner[j] \notin Nodes
  BY <1>1 DEF OwnerInv, SweepHolds, SweepOwns
<1> HIDE DEF j
<1>5. OpenUnpaid' /\ OnePut' /\ PaidOnce'
  BY <1>1, <1>2 DEF PayInv, OpenUnpaid, OnePut, PaidOnce, Handlers
<1>6. Fresh'
  BY <1>1, <1>2, <1>4 DEF PayInv, Fresh
<1>7. Staged'
  <2>1. ASSUME NEW g \in Handlers
        PROVE  /\ pc'[g] \in Before(g) => work'[at'[g]] = IF g = Sweep THEN "running" ELSE "claimed"
               /\ pc'[g] \in Rewarding => work'[at'[g]] = "completed"
    <3>1. CASE g = Sweep
      BY <3>1, <1>2 DEF Before, Rewarding
    <3>2. CASE g # Sweep
      <4>1. pc[g] \in Before(g) \cup Rewarding => at[g] \in Jobs \ {j}
        BY <1>3, CarriesJob DEF Carries
      <4> QED BY <4>1, <3>2, <1>1, <1>2 DEF PayInv, Staged
    <3> QED BY <3>1, <3>2
  <2> QED BY <2>1, <1>2 DEF Staged, Before
<1> QED BY <1>5, <1>6, <1>7 DEF PayInv

LEMMA PostPay ==
    ASSUME TypeInv, OwnerInv, PayInv, NEW j \in Jobs, PostExecution(j)
    PROVE  PayInv'
<1>1. /\ work[j] = "absent" /\ work' = [work EXCEPT ![j] = "queued"]
      /\ UNCHANGED <<owner, at, paid, sent, errors, due>> /\ pc' = WithSweep(pc)
  BY DEF PostExecution, Exists, ledger, client, faults
<1>2. \A g \in Handlers : \/ pc'[g] = pc[g] /\ Open(g)' = Open(g) /\ (Carries(g)' <=> Carries(g))
                          \/ g = Sweep /\ pc'[g] = "scan" /\ Open(g)' = {} /\ ~Carries(g)'
  BY <1>1 DEF WithSweep, TypeInv, TypeOK, Open, Carries, Before, Rewarding
<1>3. /\ \A k \in Jobs \ {j} : work'[k] = work[k]
      /\ work'[j] = "queued"
  BY <1>1 DEF TypeInv, TypeOK
<1>4. /\ \A g \in Handlers : pc[g] # "claim" => at[g] # j
      /\ \A r \in Rewards : paid[j][r] = 0
      /\ owner[j] \notin Nodes
  BY <1>1, NobodyOnUnowned DEF TypeInv, PayInv, Fresh, OwnerInv, Unowned
<1>5. OpenUnpaid' /\ PaidOnce'
  BY <1>1, <1>2 DEF PayInv, OpenUnpaid, PaidOnce
<1>6. OnePut'
  <2>1. \A g \in Requests : Carries(g)' => Carries(g)
    BY <1>2 DEF Handlers
  <2> QED BY <2>1, <1>1 DEF PayInv, OnePut
<1>7. Fresh'
  BY <1>1, <1>3, <1>4 DEF PayInv, Fresh
<1>8. Staged'
  <2>1. ASSUME NEW g \in Handlers
        PROVE  /\ pc'[g] \in Before(g) => work'[at'[g]] = IF g = Sweep THEN "running" ELSE "claimed"
               /\ pc'[g] \in Rewarding => work'[at'[g]] = "completed"
    <3>1. pc'[g] \in Before(g) \cup Rewarding => pc[g] = pc'[g] /\ at[g] \in Jobs \ {j}
      BY <1>2, <1>4, CarriesJob DEF Carries, Before, Rewarding
    <3> QED BY <3>1, <1>1, <1>3 DEF PayInv, Staged
  <2>2. pc'[Sweep] \notin {"check", "payNode"}
    BY <1>2 DEF PayInv, Staged, Handlers
  <2>3. pc'[Sweep] = "failWork" /\ errors' = 0 => work'[at'[Sweep]] = "running"
    <3>1. pc'[Sweep] = "failWork" => pc[Sweep] = "failWork" /\ at[Sweep] \in Jobs \ {j}
      BY <1>2, <1>4, CarriesJob DEF Handlers
    <3> QED BY <3>1, <1>1, <1>3 DEF PayInv, Staged
  <2> QED BY <2>1, <2>2, <2>3 DEF Staged, Before
<1> QED BY <1>5, <1>6, <1>7, <1>8 DEF PayInv

LEMMA NextPay ==
    ASSUME MaxSubmits = 1, TypeInv, OwnerInv, PayInv, [Next]_vars
    PROVE  PayInv'
<1> USE DEF rows, times, ledger, client, faults
<1>1. ASSUME NEW j \in Jobs, Age(j) PROVE PayInv'
  BY <1>1, StandTame, TamePay DEF Age, handler
<1>2. ASSUME NEW i \in Intents, MatchIntent(i) PROVE PayInv'
  BY <1>2, StandTame, TamePay DEF MatchIntent, handler
<1>3. ASSUME NEW h \in Requests, Heartbeat(h) PROVE PayInv'
  <2>1. /\ pc[h] = "idle" /\ h \in Handlers /\ h # Sweep
        /\ UNCHANGED <<work, owner, paid, sent, errors, due>>
        /\ pc' = [WithSweep(pc) EXCEPT ![h] = "reply"] \/ pc' = [WithSweep(pc) EXCEPT ![h] = "claim"]
        /\ at' = at \/ \E j : at' = [at EXCEPT ![h] = j]
    BY <1>3 DEF Heartbeat, Handlers
  <2>2. ASSUME NEW g \in Handlers PROVE Tame(g)
    <3>1. CASE g = h
      <4>1. pc'[g] \in {"reply", "claim"}
        BY <2>1, <3>1 DEF WithSweep, TypeInv, TypeOK
      <4> QED BY <4>1, GoneTame
    <3>2. CASE g # h
      <4>1. at'[g] = at[g] /\ due'[g] = due[g] /\ (pc'[g] = pc[g] \/ pc'[g] = "scan")
        BY <2>1, <3>2 DEF WithSweep, TypeInv, TypeOK
      <4> QED BY <4>1, <2>1, GoneTame, StandTame
    <3> QED BY <3>1, <3>2
  <2> QED BY <2>1, <2>2, TamePay
<1>4. ASSUME NEW h \in Handlers, Continue(h) PROVE PayInv'
  <2>1. CASE Mark(h)
    <3>1. CASE h = Sweep
      <4>1. pc[h] \in Before(h) /\ "run" \in Before(h)
        BY <2>1, <3>1 DEF Mark, Before
      <4> QED BY <2>1, <3>1, <4>1, OnwardPay DEF Mark
    <3>2. CASE h # Sweep
      BY <2>1, <3>2, GonePay DEF Mark
    <3> QED BY <3>1, <3>2
  <2>2. CASE Reply(h)
    BY <2>2, GonePay DEF Reply
  <2>3. CASE CheckSubmit(h)
    <3>1. h # Sweep /\ pc[h] = "check"
      BY <2>3 DEF CheckSubmit, PayInv, Staged
    <3>2. CASE Goto(h, "read")
      <4>1. pc[h] \in Before(h) /\ "read" \in Before(h)
        BY <3>1 DEF Before
      <4> QED BY <2>3, <3>1, <3>2, <4>1, OnwardPay DEF CheckSubmit
    <3>3. CASE Goto(h, "reply")
      BY <2>3, <3>3, GonePay DEF CheckSubmit
    <3> QED BY <2>3, <3>2, <3>3 DEF CheckSubmit
  <2>4. CASE ReadWork(h)
    <3>1. CASE Finish(h)
      BY <2>4, <3>1, FinishPay DEF ReadWork
    <3>2. CASE Goto(h, "commit") /\ UNCHANGED at
      <4>1. pc[h] \in Before(h) /\ "commit" \in Before(h)
        BY <2>4 DEF ReadWork, Before
      <4> QED BY <2>4, <3>2, <4>1, OnwardPay DEF ReadWork
    <3> QED BY <2>4, <3>1, <3>2 DEF ReadWork
  <2>5. CASE RecordReuse(h) \/ CreatePattern(h)
    <3>1. PICK l \in {"payPattern", "done"} : GoOn(h, l)
      BY <2>5 DEF RecordReuse, CreatePattern
    <3>2. due' = [due EXCEPT ![h] = due[h]] /\ pc[h] \in Rewarding /\ l \in RewardStep
          /\ UNCHANGED <<work, owner, paid, sent, errors>>
      BY <2>5 DEF RecordReuse, CreatePattern, Rewarding, RewardStep, TypeInv, TypeOK
    <3> QED BY <3>1, <3>2, GoOnTame, OneTame
  <2>6. CASE CreateCollides(h)
    BY <2>6, ProceedPays, OneTame DEF CreateCollides, Settling
  <2> QED BY <1>4, <2>1, <2>2, <2>3, <2>4, <2>5, <2>6, ClaimPay, CommitPay, PayPay, SeekPay DEF Continue
<1>5. ASSUME NEW h \in Handlers, HandlerFails(h) PROVE PayInv'
  <2>0. errors' # 0
    BY <1>5, ErrorCounts
    DEF HandlerFails, MarkFails, CommitFails, PayFails, RecordReuseFails, CreatePatternFails,
        RefuseSubmit
  <2>1. CASE MarkFails(h) \/ RefuseSubmit(h)
    BY <2>0, <2>1, AfterJobGone, GonePay DEF MarkFails, RefuseSubmit
  <2>2. CASE CommitFails(h) \/ RecordReuseFails(h)
    BY <2>0, <2>2, ThrowPay DEF CommitFails, RecordReuseFails
  <2>3. CASE PayFails(h)
    BY <2>0, <2>3, ProceedPays, OneTame DEF PayFails, Settling
  <2>4. CASE CreatePatternFails(h)
    BY <2>0, <2>4, FinishPay DEF CreatePatternFails, GoOn
  <2> QED BY <1>5, <2>1, <2>2, <2>3, <2>4 DEF HandlerFails
<1>6. ASSUME SweepStep PROVE PayInv'
  <2> Sweep \in Handlers
    BY DEF Handlers
  <2>1. CASE Scan
    BY <2>1, GonePay DEF Scan
  <2>2. CASE Inline
    <3>1. PICK l \in {"claim", "idle", "inline"} :
             Goto(Sweep, l) /\ (at' = at \/ \E j : at' = [at EXCEPT ![Sweep] = j])
      BY <2>2 DEF Inline
    <3> QED BY <2>2, <3>1, GonePay DEF Inline
  <2>3. CASE RunInline
    <3>1. CASE Goto(Sweep, "read")
      <4>1. pc[Sweep] \in Before(Sweep) /\ "read" \in Before(Sweep)
        BY <2>3 DEF RunInline, Before
      <4> QED BY <2>3, <3>1, <4>1, OnwardPay DEF RunInline
    <3>2. CASE Goto(Sweep, "failWork")
      <4>1. pc'[Sweep] = "failWork" /\ \A g \in Handlers \ {Sweep} : pc'[g] = pc[g] /\ at'[g] = at[g] /\ due'[g] = due[g]
        BY <2>3, <3>2, OthersStand DEF RunInline
      <4>2. Tame(Sweep)
        BY <2>3, <4>1 DEF RunInline, Tame, Carries, Before, Rewarding
      <4> QED BY <2>3, <4>1, <4>2, OneTame DEF RunInline
    <3> QED BY <2>3, <3>1, <3>2 DEF RunInline
  <2>4. CASE FailExec
    BY <2>4, AfterJobGone, GonePay DEF FailExec
  <2> QED BY <1>6, <2>1, <2>2, <2>3, <2>4, FailWorkPay DEF SweepStep
<1>7. ASSUME FailFails \/ LoadFails PROVE PayInv'
  <2> Sweep \in Handlers
    BY DEF Handlers
  <2> QED BY <1>7, ErrorCounts, AfterJobGone, GonePay DEF FailFails, LoadFails
<1>8. ASSUME ServerCrash PROVE PayInv'
  <2>1. \A g \in Handlers : pc'[g] = "idle"
    BY <1>8 DEF ServerCrash
  <2>2. UNCHANGED <<work, owner, paid, sent>>
    BY <1>8 DEF ServerCrash
  <2>3. \A g \in Handlers : Tame(g)
    BY <2>1, GoneTame
  <2> QED BY <2>2, <2>3, TamePay
<1>9. ASSUME NEW n \in Nodes, Disconnect(n) \/ NodeCrash(n) PROVE PayInv'
  <2>1. UNCHANGED <<work, owner, paid, sent, pc, at, due, errors>>
    BY <1>9 DEF Disconnect, NodeCrash, Loss, handler
  <2> QED BY <2>1, StandTame, TamePay
<1>10. ASSUME UNCHANGED vars \/ \E c \in Capabilities : OpenAccount(c) PROVE PayInv'
  <2>1. UNCHANGED <<work, owner, paid, sent, pc, at, due, errors>>
    BY <1>10 DEF vars, handler, OpenAccount
  <2> QED BY <2>1, StandTame, TamePay
<1> QED
  BY <1>1, <1>2, <1>3, <1>4, <1>5, <1>6, <1>7, <1>8, <1>9, <1>10, SubmitPay, PostPay DEF Next

LEMMA PayCorrect == ASSUME MaxSubmits = 1 PROVE Spec => [](TypeInv /\ OwnerInv /\ PayInv)
<1>1. TypeInv /\ OwnerInv /\ PayInv /\ [Next]_vars => PayInv'
  BY NextPay
<1> QED
  BY <1>1, InitPay, OwnerCorrect, PTL DEF Spec

\* A client that sends one PUT per job is paid each reward at most once, whatever
\* crashes, lost connections and failing calls there are.
THEOREM PaidOnceCorrect == ASSUME MaxSubmits = 1 PROVE Spec => []PaidOnce
<1>1. PayInv => PaidOnce
  BY DEF PayInv
<1> QED
  BY <1>1, PayCorrect, PTL

\* While nothing fails, a reward is missed only by the race for an account, so no
\* more of a provider's than there were handlers in that race.

\* The handlers about to create p's account for a reward they owe.
Racing(p) == {h \in Handlers : pc[h] = "create" /\ due[h] # {} /\ ProviderOf[FirstOf(due[h])] = p}

Counted(p) == IF <<p, "provider">> \in accounts
              THEN Cardinality(Missed(p)) + Cardinality(Racing(p)) <= Cardinality(Handlers)
              ELSE Missed(p) = {}

\* A handler that has still to pay the node for job j.
Owes(h, j) == at[h] = j /\ (due[h] # {} \/ pc[h] = "payNode")

NodeOwed ==
    \A j \in Jobs \ Instant : work[j] = "completed" /\ owner[j] \in Nodes =>
        paid[j]["node"] # 0 \/ \E h \in Requests : Owes(h, j)

Owed == Faultless => NodeOwed /\ \A p \in Contacts : Counted(p)

LEMMA HandlersFinite == IsFiniteSet(Handlers)
BY FS_AddElement DEF Handlers

\* What is counted is finite.
LEMMA CountFinite ==
    ASSUME NEW p \in Contacts
    PROVE  /\ IsFiniteSet(Missed(p)) /\ IsFiniteSet(Missed(p)')
           /\ IsFiniteSet(Racing(p)) /\ IsFiniteSet(Racing(p)')
           /\ Cardinality(Racing(p)') <= Cardinality(Handlers)
<1>1. IsFiniteSet(Jobs \X Capabilities)
  BY FS_Product
<1>2. Missed(p) \in SUBSET (Jobs \X Capabilities) /\ Missed(p)' \in SUBSET (Jobs \X Capabilities)
  BY DEF Missed
<1>3. Racing(p) \in SUBSET Handlers /\ Racing(p)' \in SUBSET Handlers
  BY DEF Racing
<1> HIDE DEF Missed, Racing
<1> QED BY <1>1, <1>2, <1>3, FS_Subset, HandlersFinite

\* Fewer missed and fewer racing.
LEMMA FewerCounted ==
    ASSUME NEW p \in Contacts, Counted(p),
           Missed(p)' \subseteq Missed(p), accounts \subseteq accounts',
           <<p, "provider">> \in accounts => Racing(p)' \subseteq Racing(p)
    PROVE  Counted(p)'
<1> DEFINE A == Missed(p)
           B == Missed(p)'
           R == Racing(p)
           S == Racing(p)'
<1>1. /\ IsFiniteSet(A) /\ IsFiniteSet(B) /\ IsFiniteSet(R) /\ IsFiniteSet(S)
      /\ Cardinality(S) <= Cardinality(Handlers)
  BY CountFinite
<1>2. /\ Cardinality(A) \in Nat /\ Cardinality(B) \in Nat /\ Cardinality(R) \in Nat
      /\ Cardinality(S) \in Nat /\ Cardinality(Handlers) \in Nat
  BY <1>1, HandlersFinite, FS_CardinalityType
<1>3. CASE <<p, "provider">> \in accounts
  <2>1. Cardinality(B) <= Cardinality(A) /\ Cardinality(S) <= Cardinality(R)
    <3> HIDE DEF A, B, R, S
    <3>1. B \in SUBSET A /\ S \in SUBSET R
      BY <1>3 DEF A, B, R, S
    <3> QED BY <3>1, <1>1, FS_Subset
  <2>2. Cardinality(A) + Cardinality(R) <= Cardinality(Handlers)
    BY <1>3 DEF Counted
  <2> QED BY <2>1, <2>2, <1>2, <1>3 DEF Counted
<1>4. CASE <<p, "provider">> \notin accounts
  <2>1. B = {}
    BY <1>4 DEF Counted
  <2>2. Cardinality(B) = 0
    BY <2>1, FS_EmptySet
  <2> QED BY <2>1, <2>2, <1>1, <1>2 DEF Counted
<1> QED BY <1>3, <1>4

\* One racing handler's reward is missed.
LEMMA OneMissed ==
    ASSUME NEW p \in Contacts, Counted(p), <<p, "provider">> \in accounts, UNCHANGED accounts,
           NEW x, Missed(p)' \subseteq Missed(p) \cup {x},
           NEW h \in Racing(p), Racing(p)' \subseteq Racing(p) \ {h}
    PROVE  Counted(p)'
<1> DEFINE A == Missed(p)
           B == Missed(p)'
           R == Racing(p)
           S == Racing(p)'
<1>1. /\ IsFiniteSet(A) /\ IsFiniteSet(B) /\ IsFiniteSet(R) /\ IsFiniteSet(S)
  BY CountFinite
<1>2. /\ Cardinality(A) \in Nat /\ Cardinality(B) \in Nat /\ Cardinality(R) \in Nat
      /\ Cardinality(S) \in Nat /\ Cardinality(Handlers) \in Nat
  BY <1>1, HandlersFinite, FS_CardinalityType
<1>3. Cardinality(A) + Cardinality(R) <= Cardinality(Handlers)
  BY DEF Counted
<1>4. B \in SUBSET (A \cup {x}) /\ S \in SUBSET (R \ {h}) /\ h \in R
  OBVIOUS
<1> HIDE DEF A, B, R, S
<1>5. IsFiniteSet(A \cup {x}) /\ Cardinality(A \cup {x}) <= Cardinality(A) + 1
  <2>1. /\ IsFiniteSet(A \cup {x})
        /\ Cardinality(A \cup {x}) = IF x \in A THEN Cardinality(A) ELSE Cardinality(A) + 1
    BY <1>1, FS_AddElement
  <2> QED BY <2>1, <1>2
<1>6. IsFiniteSet(R \ {h}) /\ Cardinality(R \ {h}) = Cardinality(R) - 1
  BY <1>1, <1>4, FS_RemoveElement
<1>7. Cardinality(B) <= Cardinality(A \cup {x}) /\ Cardinality(S) <= Cardinality(R \ {h})
  BY <1>4, <1>5, <1>6, FS_Subset
<1>8. Cardinality(A \cup {x}) \in Nat /\ Cardinality(R \ {h}) \in Nat
  BY <1>5, <1>6, FS_CardinalityType
<1>9. Cardinality(B) + Cardinality(S) <= Cardinality(Handlers)
  BY <1>2, <1>3, <1>5, <1>6, <1>7, <1>8
<1> QED BY <1>9 DEF Counted, B, S

\* A step that completes no job and settles no reward, and leaves the handlers that
\* owe one where they are; who goes to create an account has seen that there is none.
Held ==
    /\ \A j \in Jobs : work'[j] = "completed" => work[j] = "completed" /\ owner'[j] = owner[j]
    /\ \A h \in Handlers : due[h] # {} => at'[h] = at[h] /\ due'[h] = due[h]
    /\ \A h \in Handlers : pc[h] = "payNode" => at'[h] = at[h] /\ pc'[h] = pc[h]
    /\ \A h \in Handlers : pc'[h] = "create" =>
           \/ pc[h] = "create" /\ due'[h] = due[h]
           \/ Payee(h)' \notin accounts'
    /\ paid' = paid
    /\ accounts \subseteq accounts'

LEMMA HeldOwed == Owed /\ Held /\ (Faultless' => Faultless) => Owed'
<1> SUFFICES ASSUME NodeOwed, \A p \in Contacts : Counted(p), Held
             PROVE  NodeOwed' /\ \A p \in Contacts : Counted(p)'
  BY DEF Owed
<1>1. NodeOwed'
  BY DEF NodeOwed, Owes, Held, Handlers
<1>2. ASSUME NEW p \in Contacts PROVE Counted(p)'
  <2>1. Missed(p)' \subseteq Missed(p)
    BY DEF Missed, Held
  <2>2. <<p, "provider">> \in accounts => Racing(p)' \subseteq Racing(p)
    <3> SUFFICES ASSUME <<p, "provider">> \in accounts, NEW h \in Racing(p)'
                 PROVE  h \in Racing(p)
      OBVIOUS
    <3>1. h \in Handlers /\ pc'[h] = "create" /\ due'[h] # {} /\ ProviderOf[FirstOf(due'[h])] = p
      BY DEF Racing
    <3>2. Payee(h)' = <<p, "provider">>
      BY <3>1 DEF Payee
    <3> QED BY <3>1, <3>2 DEF Racing, Held
  <2> QED BY <2>1, <2>2, FewerCounted DEF Held
<1> QED BY <1>1, <1>2

\* A step of one handler that owes nothing yet.
LEMMA MineHeld ==
    ASSUME TypeInv, NEW h \in Handlers, NEW l, due[h] = {}, pc[h] # "payNode", l # "create",
           Goto(h, l), at' = at \/ (\E v : at' = [at EXCEPT ![h] = v]),
           UNCHANGED <<work, owner, paid, accounts, due>>
    PROVE  Held
<1>1. pc'[h] = l /\ \A g \in Handlers \ {h} : pc'[g] = pc[g] /\ at'[g] = at[g] /\ due'[g] = due[g]
  BY OthersStand
<1> QED BY <1>1 DEF Held

LEMMA FaultsGrow == TypeInv /\ [Next]_vars /\ Faultless' => Faultless /\ UNCHANGED <<losses, errors>>
<1> SUFFICES ASSUME TypeInv, [Next]_vars, Faultless'
             PROVE  losses' = losses /\ errors' = errors
  BY DEF Faultless
<1>1. losses \in Nat /\ errors \in Nat /\ losses' = 0 /\ errors' = 0
  BY DEF TypeInv, TypeOK, Faultless
<1>2. ~Error /\ ~Loss
  BY <1>1 DEF Error, Loss
<1>3. ASSUME NEW h \in Handlers, Continue(h) PROVE UNCHANGED faults
  BY <1>3 DEF Continue, Claim, Mark, Reply, CheckSubmit, ReadWork, Commit, Pay, RecordReuse,
     CreatePattern, FindNone, CreateAccount, CreateCollides
<1> QED
  BY <1>2, <1>3 DEF Next, PostExecution, Age, MatchIntent, Heartbeat, Submit, HandlerFails, MarkFails,
     RefuseSubmit, CommitFails, PayFails, RecordReuseFails, CreatePatternFails, SweepStep, Scan,
     Inline, RunInline, LoadFails, FailWork, FailExec, FailFails, OpenAccount, ServerCrash,
     Disconnect, NodeCrash, vars, faults

\* Nothing is due before the transaction.
LEMMA NothingDue ==
    ASSUME TypeInv, NEW h \in Handlers, pc[h] \notin {"payCapability", "create"}
    PROVE  due[h] = {}
BY DEF TypeInv, Located

\* While nothing fails, every step but a completion and a settled reward holds
\* what is owed.
LEMMA NextHeld ==
    ASSUME TypeInv, OwnerInv, PayInv, [Next]_vars, Faultless'
    PROVE  Held \/ \E h \in Handlers : Commit(h) \/ Pay(h) \/ CreateCollides(h)
<1> USE DEF rows, times, ledger, client, faults
<1>0. ~Error /\ ~Loss /\ Sweep \in Handlers
  BY FaultsGrow DEF Error, Loss, TypeInv, TypeOK, Handlers
<1>1. ASSUME NEW j \in Jobs, PostExecution(j) PROVE Held
  <2>1. /\ UNCHANGED <<owner, at, due, paid, accounts>> /\ pc' = WithSweep(pc)
        /\ \A k \in Jobs : work'[k] = "completed" => work[k] = "completed"
    BY <1>1 DEF PostExecution, TypeInv, TypeOK
  <2>2. \A h \in Handlers : pc'[h] = pc[h] \/ (pc[h] = "idle" /\ pc'[h] = "scan")
    BY <2>1 DEF WithSweep, TypeInv, TypeOK
  <2> QED BY <2>1, <2>2 DEF Held
<1>2. ASSUME NEW j \in Jobs, Age(j) PROVE Held
  BY <1>2 DEF Age, Held, handler
<1>3. ASSUME NEW i \in Intents, MatchIntent(i) PROVE Held
  BY <1>3 DEF MatchIntent, Held, handler
<1>4. ASSUME NEW h \in Requests, Heartbeat(h) PROVE Held
  <2>1. /\ pc[h] = "idle" /\ h \in Handlers /\ h # Sweep
        /\ UNCHANGED <<work, owner, paid, due, accounts>>
        /\ pc' = [WithSweep(pc) EXCEPT ![h] = "reply"] \/ pc' = [WithSweep(pc) EXCEPT ![h] = "claim"]
        /\ at' = at \/ \E j : at' = [at EXCEPT ![h] = j]
    BY <1>4 DEF Heartbeat, Handlers
  <2>2. due[h] = {}
    BY <2>1, NothingDue
  <2>3. \A g \in Handlers \ {h} : at'[g] = at[g] /\ (pc'[g] = pc[g] \/ (pc[g] = "idle" /\ pc'[g] = "scan"))
    BY <2>1 DEF WithSweep, TypeInv, TypeOK
  <2>4. pc'[h] # "create"
    BY <2>1 DEF WithSweep, TypeInv, TypeOK
  <2> QED BY <2>1, <2>2, <2>3, <2>4 DEF Held
<1>5. ASSUME NEW h \in Requests, Submit(h) PROVE Held
  BY <1>5, NothingDue, MineHeld DEF Submit, Handlers
<1>6. ASSUME NEW h \in Handlers, Continue(h), ~Commit(h), ~Pay(h), ~CreateCollides(h) PROVE Held
  <2>1. CASE Claim(h) /\ Claimable(at[h])
    <3>1. /\ at[h] \in Jobs /\ pc[h] = "claim" /\ Goto(h, "mark") /\ work[at[h]] = "queued"
          /\ work' = [work EXCEPT ![at[h]] = IF h = Sweep THEN "running" ELSE "claimed"]
          /\ owner' = [owner EXCEPT ![at[h]] = IF h = Sweep THEN Fallback ELSE From[h]]
          /\ UNCHANGED <<at, paid, due, accounts>>
      BY <2>1 DEF Claim, Claimable, TypeInv, Located, Busy, PC
    <3>2. pc'[h] = "mark" /\ \A g \in Handlers \ {h} : pc'[g] = pc[g]
      BY <3>1, OthersStand
    <3>3. \A k \in Jobs : work'[k] = "completed" => work[k] = "completed" /\ owner'[k] = owner[k]
      BY <3>1 DEF TypeInv, TypeOK
    <3> QED BY <3>1, <3>2, <3>3, NothingDue DEF Held
  <2>2. CASE Claim(h) /\ ~Claimable(at[h])
    BY <2>2, AfterJobGone, NothingDue, MineHeld DEF Claim
  <2>3. CASE Mark(h)
    BY <2>3, NothingDue, MineHeld DEF Mark
  <2>4. CASE Reply(h)
    BY <2>4, NothingDue, MineHeld DEF Reply
  <2>5. CASE CheckSubmit(h)
    BY <2>5, NothingDue, MineHeld DEF CheckSubmit
  <2>6. CASE ReadWork(h)
    BY <2>6, AfterJobGone, NothingDue, MineHeld DEF ReadWork, Finish
  <2>7. CASE RecordReuse(h) \/ CreatePattern(h)
    <3>1. pc[h] \in {"recordReuse", "createPattern"} /\ due[h] = {}
          /\ UNCHANGED <<work, owner, paid, accounts, due>>
      BY <2>7, NothingDue DEF RecordReuse, CreatePattern
    <3>2. GoOn(h, "payPattern") \/ GoOn(h, "done")
      BY <2>7 DEF RecordReuse, CreatePattern
    <3>3. \E l : Goto(h, l) /\ l # "create" /\ (at' = at \/ \E v : at' = [at EXCEPT ![h] = v])
      BY <3>2, AfterJobGone DEF GoOn, Finish
    <3> QED BY <3>1, <3>3, MineHeld
  <2>8. CASE FindNone(h) \/ CreateAccount(h)
    <3>1. /\ UNCHANGED <<work, owner, paid, at, due, reuse>> /\ accounts \subseteq accounts'
          /\ pc[h] # "payNode"
      BY <2>8 DEF FindNone, CreateAccount
    <3>2. PICK l : Goto(h, l) /\ (l = "create" => FindNone(h))
      BY <2>8 DEF FindNone, CreateAccount, PayStep
    <3>3. pc'[h] = l /\ \A g \in Handlers \ {h} : pc'[g] = pc[g]
      BY <3>1, <3>2, OthersStand
    <3>4. FindNone(h) => Payee(h)' \notin accounts'
      BY <3>1 DEF FindNone, Payee
    <3> QED BY <3>1, <3>2, <3>3, <3>4 DEF Held
  <2> QED BY <1>6, <2>1, <2>2, <2>3, <2>4, <2>5, <2>6, <2>7, <2>8 DEF Continue
<1>7. ASSUME SweepStep PROVE Held
  <2>1. CASE Scan
    BY <1>0, <2>1, NothingDue, MineHeld DEF Scan
  <2>2. CASE Inline
    <3>1. PICK l : Goto(Sweep, l) /\ l # "create" /\ (at' = at \/ \E j : at' = [at EXCEPT ![Sweep] = j])
      BY <2>2 DEF Inline
    <3> QED BY <1>0, <2>2, <3>1, NothingDue, MineHeld DEF Inline
  <2>3. CASE RunInline
    BY <1>0, <2>3, NothingDue, MineHeld DEF RunInline
  <2>4. CASE FailWork
    <3>1. /\ pc[Sweep] = "failWork" /\ Goto(Sweep, "failExec")
          /\ at[Sweep] \in Jobs /\ work' = [work EXCEPT ![at[Sweep]] = "failed"]
          /\ UNCHANGED <<owner, at, paid, due, accounts>>
      BY <2>4 DEF FailWork, TypeInv, Located, Busy, PC, Handlers
    <3>2. pc'[Sweep] = "failExec" /\ \A g \in Handlers \ {Sweep} : pc'[g] = pc[g]
      BY <1>0, <3>1, OthersStand
    <3>3. \A k \in Jobs : work'[k] = "completed" => work[k] = "completed"
      BY <3>1 DEF TypeInv, TypeOK
    <3> QED BY <3>1, <3>2, <3>3 DEF Held
  <2>5. CASE FailExec
    BY <1>0, <2>5, AfterJobGone, NothingDue, MineHeld DEF FailExec
  <2> QED BY <1>7, <2>1, <2>2, <2>3, <2>4, <2>5 DEF SweepStep
<1>8. UNCHANGED vars \/ (\E c \in Capabilities : OpenAccount(c)) => Held
  BY DEF vars, handler, Held, OpenAccount, Payee
<1> QED
  BY <1>0, <1>1, <1>2, <1>3, <1>4, <1>5, <1>6, <1>7, <1>8
  DEF Next, HandlerFails, MarkFails, RefuseSubmit, CommitFails, PayFails, RecordReuseFails,
      CreatePatternFails, LoadFails, FailFails, ServerCrash, Disconnect, NodeCrash

LEMMA CommitOwed ==
    ASSUME TypeInv, Owed, Faultless, NEW h \in Handlers, Commit(h)
    PROVE  Owed'
<1> DEFINE j == at[h]
<1>1. /\ pc[h] = "commit" /\ j \in Jobs /\ due[h] = {}
      /\ due' = [due EXCEPT ![h] = Hired[j]]
      /\ work' = [work EXCEPT ![j] = "completed"]
      /\ owner' = [owner EXCEPT ![j] = Submitter(h)]
      /\ UNCHANGED <<paid, accounts>>
  BY NothingDue DEF Commit, TypeInv, Located, Busy, PC, ledger
<1>2. /\ due'[h] = Hired[j] /\ \A g \in Handlers \ {h} : pc'[g] = pc[g] /\ at'[g] = at[g] /\ due'[g] = due[g]
      /\ \A k \in Jobs \ {j} : work'[k] = work[k] /\ owner'[k] = owner[k]
      /\ owner'[j] = Submitter(h)
  BY <1>1 DEF Commit, GoOn, Finish, Goto, TypeInv, TypeOK
<1>3. pc'[h] # "create" /\ (Hired[j] # {} => at'[h] = j)
  <2>1. CASE Hired[j] # {}
    BY <1>1, <2>1 DEF Commit, GoOn, Goto, TypeInv, TypeOK
  <2>2. CASE Hired[j] = {} /\ AfterCapability(h) = "done"
    BY <2>2, AfterJobGone DEF Commit, GoOn, Finish, Goto, TypeInv, TypeOK
  <2>3. CASE Hired[j] = {} /\ AfterCapability(h) # "done"
    BY <2>3, AfterLeads DEF Commit, GoOn, Goto, TypeInv, TypeOK, RewardStep
  <2> QED BY <2>1, <2>2, <2>3
<1>4. Submitter(h) \in Nodes /\ j \notin Instant =>
         h \in Requests /\ at'[h] = j /\ (due'[h] # {} \/ pc'[h] = "payNode")
  <2> SUFFICES ASSUME Submitter(h) \in Nodes, j \notin Instant
               PROVE  h \in Requests /\ at'[h] = j /\ (due'[h] # {} \/ pc'[h] = "payNode")
    OBVIOUS
  <2>1. h \in Requests /\ Submitter(h) # None
    BY DEF Submitter, Handlers
  <2>2. CASE Hired[j] # {}
    BY <1>2, <1>3, <2>1, <2>2
  <2>3. CASE Hired[j] = {}
    <3>1. AfterCapability(h) = "payNode"
      BY <2>1 DEF AfterCapability
    <3>2. Goto(h, "payNode") /\ UNCHANGED at
      BY <2>3, <3>1 DEF Commit, GoOn
    <3> QED BY <2>1, <3>2 DEF Goto, TypeInv, TypeOK
  <2> QED BY <2>2, <2>3
<1>5. NodeOwed'
  <2> SUFFICES ASSUME NEW k \in Jobs \ Instant, work'[k] = "completed", owner'[k] \in Nodes
               PROVE  paid'[k]["node"] # 0 \/ \E g \in Requests : Owes(g, k)'
    BY DEF NodeOwed
  <2>1. CASE k = j
    <3>1. Submitter(h) \in Nodes /\ j \notin Instant
      BY <2>1, <1>2
    <3>2. h \in Requests /\ Owes(h, k)'
      BY <3>1, <2>1, <1>4 DEF Owes
    <3> QED BY <3>2
  <2>2. CASE k # j
    <3>1. paid[k]["node"] # 0 \/ \E g \in Requests : Owes(g, k)
      BY <2>2, <1>2 DEF Owed, NodeOwed
    <3>2. \A g \in Requests : Owes(g, k) => g \in Handlers \ {h}
      BY <2>2 DEF Owes, Handlers
    <3> QED BY <3>1, <3>2, <1>1, <1>2 DEF Owes
  <2> QED BY <2>1, <2>2
<1>6. ASSUME NEW p \in Contacts PROVE Counted(p)'
  <2>1. Missed(p)' \subseteq Missed(p)
    <3> SUFFICES ASSUME NEW jc \in Missed(p)' PROVE jc \in Missed(p)
      OBVIOUS
    <3>1. /\ jc \in Jobs \X Capabilities /\ work'[jc[1]] = "completed"
          /\ jc[2] \in Hired[jc[1]] /\ ProviderOf[jc[2]] = p /\ paid'[jc[1]][jc[2]] = 0
          /\ \A g \in Handlers : at'[g] = jc[1] => jc[2] \notin due'[g]
      BY DEF Missed
    <3>2. jc[1] # j
      BY <3>1, <1>2, <1>3
    <3>3. \A g \in Handlers : at[g] = jc[1] => jc[2] \notin due[g]
      BY <3>1, <1>1, <1>2
    <3> HIDE DEF j
    <3> QED BY <3>1, <3>2, <3>3, <1>1, <1>2 DEF Missed
  <2>2. Racing(p)' \subseteq Racing(p)
    BY <1>2, <1>3 DEF Racing
  <2> QED BY <1>1, <2>1, <2>2, FewerCounted DEF Owed
<1> QED BY <1>5, <1>6 DEF Owed

\* A reward is settled: the handler still owes the others, then the node's.
LEMMA ProceedOwes ==
    ASSUME TypeInv, NEW h \in Handlers, Proceed(h), pc[h] \in Settling
    PROVE  /\ \A g \in Handlers \ {h} : pc'[g] = pc[g] /\ at'[g] = at[g] /\ due'[g] = due[g]
           /\ due'[h] = due[h] \ {Reward(h)} /\ pc'[h] # "create" /\ at[h] \in Jobs
           /\ due'[h] # {} => at'[h] = at[h]
           /\ due[h] # {} /\ due'[h] = {} /\ h \in Requests /\ at[h] \notin Instant =>
                 at'[h] = at[h] /\ pc'[h] = "payNode"
           /\ due[h] # {} => Reward(h) = FirstOf(due[h]) /\ Reward(h) \in Capabilities
<1> DEFINE d == due[h] \ {Reward(h)}
<1>1. PICK l \in RewardStep :
          /\ GoOn(h, l) /\ at[h] \in Jobs
          /\ due' = [due EXCEPT ![h] = d] /\ d \in SUBSET Capabilities
          /\ d # {} <=> l = "payCapability"
          /\ l = "payNode" => due[h] # {} /\ Submitter(h) # None
          /\ due[h] # {} /\ d = {} => l = AfterCapability(h)
  BY ProceedLeads
<1>2. due'[h] = d
  BY <1>1 DEF TypeInv, TypeOK
<1>3. pc[h] \in Rewarding /\ d \in SUBSET due[h] /\ (l = "payNode" => due[h] # {} /\ h # Sweep)
  BY <1>1 DEF Settling, Rewarding, Submitter
<1> HIDE DEF d
<1>4. /\ \A g \in Handlers \ {h} : pc'[g] = pc[g] /\ at'[g] = at[g] /\ due'[g] = due[g]
      /\ IF l = "done" THEN ~Carries(h)' ELSE pc'[h] = l /\ at'[h] = at[h]
  BY <1>1, <1>3, GoOnTame
<1>5. pc'[h] # "create"
  BY <1>4 DEF Carries, Rewarding, RewardStep
<1>6. due[h] # {} /\ d = {} /\ h \in Requests /\ at[h] \notin Instant => l = "payNode"
  BY <1>1 DEF AfterCapability, Submitter
<1>7. due[h] # {} => Reward(h) = FirstOf(due[h]) /\ Reward(h) \in Capabilities
  BY FirstIn DEF Reward, TypeInv, TypeOK
<1> QED BY <1>1, <1>2, <1>4, <1>5, <1>6, <1>7 DEF d

\* The reward just settled is recorded, or its handler has lost the race.
LEMMA ProceedOwed ==
    ASSUME TypeInv, Owed, Faultless, NEW h \in Handlers, Pay(h) \/ CreateCollides(h)
    PROVE  Owed'
<1> DEFINE j == at[h]
           r == Reward(h)
<1>1. /\ Proceed(h) /\ pc[h] \in Settling /\ UNCHANGED <<work, owner, accounts>>
  BY DEF Pay, CreateCollides, Settling, rows, ledger
<1>2. /\ \A g \in Handlers \ {h} : pc'[g] = pc[g] /\ at'[g] = at[g] /\ due'[g] = due[g]
      /\ due'[h] = due[h] \ {r} /\ pc'[h] # "create" /\ j \in Jobs
      /\ due'[h] # {} => at'[h] = j
      /\ due[h] # {} /\ due'[h] = {} /\ h \in Requests /\ j \notin Instant =>
            at'[h] = j /\ pc'[h] = "payNode"
      /\ due[h] # {} => r = FirstOf(due[h]) /\ r \in Capabilities
  BY <1>1, ProceedOwes
<1>3. r \in Rewards
  BY <1>1, ProceedLeads
<1>4. /\ \A k \in Jobs, q \in Rewards : paid[k][q] # 0 => paid'[k][q] # 0
      /\ Pay(h) => paid'[j][r] # 0
      /\ \A k \in Jobs, q \in Rewards : k # j \/ q # r => paid'[k][q] = paid[k][q]
  <2>1. CASE Pay(h)
    <3>1. paid' = [paid EXCEPT ![j][r] = @ + 1]
      BY <2>1 DEF Pay
    <3>2. paid[j][r] \in Nat
      BY <1>2, <1>3 DEF TypeInv, TypeOK
    <3>3. paid'[j][r] = paid[j][r] + 1
      BY <3>1, <1>2, <1>3 DEF TypeInv, TypeOK
    <3>4. \A k \in Jobs, q \in Rewards : k # j \/ q # r => paid'[k][q] = paid[k][q]
      BY <3>1, <1>2, <1>3 DEF TypeInv, TypeOK
    <3> QED BY <3>2, <3>3, <3>4
  <2>2. CASE CreateCollides(h)
    <3>1. paid' = paid /\ ~Pay(h)
      BY <2>2 DEF CreateCollides, Pay, ledger
    <3> QED BY <3>1
  <2> QED BY <2>1, <2>2
<1>5. pc[h] = "payNode" => r = "node" /\ Pay(h)
  BY NothingDue DEF Reward, Pay, CreateCollides
<1> HIDE DEF r
<1>6. NodeOwed'
  <2> SUFFICES ASSUME NEW k \in Jobs \ Instant, work'[k] = "completed", owner'[k] \in Nodes
               PROVE  paid'[k]["node"] # 0 \/ \E g \in Requests : Owes(g, k)'
    BY DEF NodeOwed
  <2>1. "node" \in Rewards
    BY DEF Rewards
  <2>2. CASE paid[k]["node"] # 0
    BY <2>1, <2>2, <1>4
  <2>3. ASSUME NEW g \in Requests, Owes(g, k)
        PROVE  paid'[k]["node"] # 0 \/ Owes(g, k)'
    <3>1. CASE g # h
      BY <3>1, <2>3, <1>2 DEF Owes, Handlers
    <3>2. CASE g = h
      BY <3>2, <2>3, <1>2, <1>4, <1>5 DEF Owes
    <3> QED BY <3>1, <3>2
  <2>4. paid[k]["node"] # 0 \/ \E g \in Requests : Owes(g, k)
    BY <1>1 DEF Owed, NodeOwed
  <2> QED BY <2>2, <2>3, <2>4
<1>7. ASSUME NEW p \in Contacts PROVE Counted(p)'
  <2>1. Racing(p)' \subseteq Racing(p) \ {h}
    BY <1>2 DEF Racing
  <2>2. ASSUME NEW jc \in Missed(p)'
        PROVE  \/ jc \in Missed(p)
               \/ ~Pay(h) /\ due[h] # {} /\ jc = <<j, r>> /\ ProviderOf[r] = p
    <3>1. /\ jc \in Jobs \X Capabilities /\ work'[jc[1]] = "completed"
          /\ jc[2] \in Hired[jc[1]] /\ ProviderOf[jc[2]] = p /\ paid'[jc[1]][jc[2]] = 0
          /\ \A g \in Handlers : at'[g] = jc[1] => jc[2] \notin due'[g]
      BY DEF Missed
    <3>2. jc[1] \in Jobs /\ jc[2] \in Capabilities /\ jc[2] \in Rewards /\ jc = <<jc[1], jc[2]>>
      BY <3>1 DEF Rewards
    <3>3. paid[jc[1]][jc[2]] = 0
      BY <3>1, <3>2, <1>4
    <3>4. \A g \in Handlers \ {h} : at[g] = jc[1] => jc[2] \notin due[g]
      BY <3>1, <1>2
    <3>5. at[h] = jc[1] /\ jc[2] \in due[h] => due[h] # {} /\ jc = <<j, r>> /\ ~Pay(h)
      <4>1. ASSUME at[h] = jc[1], jc[2] \in due[h] PROVE jc[2] = r
        BY <4>1, <3>1, <1>2
      <4> QED BY <4>1, <3>1, <3>2, <1>4
    <3> QED BY <3>1, <3>3, <3>4, <3>5, <1>1 DEF Missed
  <2>3. CASE Missed(p)' \subseteq Missed(p)
    BY <1>1, <2>1, <2>3, FewerCounted DEF Owed
  <2>4. CASE ~(Missed(p)' \subseteq Missed(p))
    <3>1. /\ Missed(p)' \subseteq Missed(p) \cup {<<j, r>>} /\ CreateCollides(h)
          /\ due[h] # {} /\ ProviderOf[r] = p
      BY <2>2, <2>4
    <3>2. Payee(h) = <<p, "provider">> /\ Payee(h) \in accounts /\ pc[h] = "create"
      BY <3>1, <1>2 DEF Payee, CreateCollides
    <3>3. h \in Racing(p)
      BY <3>1, <3>2, <1>2 DEF Racing
    <3> QED BY <1>1, <2>1, <3>1, <3>2, <3>3, OneMissed DEF Owed
  <2> QED BY <2>3, <2>4
<1> QED BY <1>6, <1>7 DEF Owed

LEMMA NextOwed ==
    ASSUME TypeInv, OwnerInv, PayInv, Owed, [Next]_vars
    PROVE  Owed'
<1>1. CASE ~Faultless'
  BY <1>1 DEF Owed
<1>2. CASE Faultless'
  <2>1. Faultless
    BY <1>2, FaultsGrow
  <2> QED BY <1>2, <2>1, NextHeld, HeldOwed, CommitOwed, ProceedOwed
<1> QED BY <1>1, <1>2

\* While nothing fails, no provider misses a reward before it has an account, nor
\* more rewards for ever than there are handlers, which are those that may lose the
\* race to open it; and a node's completion is paid its compute reward, once.
THEOREM PaidInFullCorrect == ASSUME MaxSubmits = 1 PROVE Spec => []PaidInFull
<1>1. Init => Owed
  <2> SUFFICES ASSUME Init PROVE NodeOwed /\ \A p \in Contacts : Counted(p)
    BY DEF Owed
  <2>1. \A p \in Contacts : Missed(p) = {} /\ accounts = {}
    BY DEF Init, Missed
  <2> QED BY <2>1 DEF Init, NodeOwed, Counted
<1>2. TypeInv /\ OwnerInv /\ PayInv /\ Owed /\ [Next]_vars => Owed'
  BY NextOwed
<1>3. TypeInv /\ PayInv /\ Owed => PaidInFull
  <2> SUFFICES ASSUME TypeInv, PayInv, NodeOwed, \A p \in Contacts : Counted(p)
               PROVE  /\ \A p \in Contacts :
                            Cardinality(Missed(p)) <= IF <<p, "provider">> \in accounts
                                                      THEN Cardinality(Handlers) ELSE 0
                      /\ \A j \in Jobs \ Instant :
                            work[j] = "completed" /\ owner[j] \in Nodes /\ (\A h \in Handlers : at[h] # j)
                               => paid[j]["node"] = 1
    BY DEF PaidInFull, Owed
  <2>1. ASSUME NEW p \in Contacts
        PROVE  Cardinality(Missed(p)) <= IF <<p, "provider">> \in accounts
                                         THEN Cardinality(Handlers) ELSE 0
    <3>1. /\ Cardinality(Missed(p)) \in Nat /\ Cardinality(Racing(p)) \in Nat
          /\ Cardinality(Handlers) \in Nat
      BY CountFinite, HandlersFinite, FS_CardinalityType
    <3>2. Missed(p) = {} => Cardinality(Missed(p)) = 0
      BY FS_EmptySet
    <3> QED BY <3>1, <3>2 DEF Counted
  <2>2. ASSUME NEW j \in Jobs \ Instant, work[j] = "completed", owner[j] \in Nodes,
               \A h \in Handlers : at[h] # j
        PROVE  paid[j]["node"] = 1
    <3>1. "node" \in Rewards
      BY DEF Rewards
    <3>2. paid[j]["node"] \in Nat /\ paid[j]["node"] <= 1
      BY <3>1 DEF TypeInv, TypeOK, PayInv, PaidOnce
    <3>3. paid[j]["node"] # 0
      BY <2>2 DEF NodeOwed, Owes, Handlers
    <3> QED BY <3>2, <3>3
  <2> QED BY <2>1, <2>2
<1> QED
  BY <1>1, <1>2, <1>3, PayCorrect, PTL DEF Spec

-----------------------------------------------------------------------------
(***************************************************************************)
(* The contract: every step is one of WorkContract's, or changes nothing   *)
(* that the contract sees.                                                 *)
(***************************************************************************)

\* The stage of a job with status w, and the mapped variables.
StageOf(w) == CASE w = "absent" -> "none"
                [] w = "queued" -> "open"
                [] w \in {"claimed", "running"} -> "taken"
                [] w = "completed" -> "done"
                [] w = "failed" -> "failed"
Stage  == [j \in Jobs |-> StageOf(work[j])]
Holder == [j \in Jobs |-> IF work[j] = "completed" /\ owner[j] = None THEN Fallback ELSE owner[j]]

LEMMA StageIs ==
    Stage = [j \in Jobs |-> CASE work[j] = "absent" -> "none"
                              [] work[j] = "queued" -> "open"
                              [] work[j] \in {"claimed", "running"} -> "taken"
                              [] work[j] = "completed" -> "done"
                              [] work[j] = "failed" -> "failed"]
BY DEF Stage, StageOf

LEMMA StageMoves ==
    ASSUME TypeInv, NEW j \in Jobs, NEW w \in WorkState, work' = [work EXCEPT ![j] = w]
    PROVE  Stage' = [Stage EXCEPT ![j] = StageOf(w)] /\ Stage[j] = StageOf(work[j])
BY DEF Stage, TypeInv, TypeOK

LEMMA StageValues ==
    /\ StageOf("absent") = "none" /\ StageOf("queued") = "open" /\ StageOf("claimed") = "taken"
    /\ StageOf("running") = "taken" /\ StageOf("completed") = "done" /\ StageOf("failed") = "failed"
BY DEF StageOf

LEMMA InitContract == Init => Contract!Init
<1> SUFFICES ASSUME Init PROVE Contract!Init
  OBVIOUS
<1>1. Stage = [j \in Jobs |-> "none"]
  BY StageValues DEF Init, Stage
<1>2. Holder = [j \in Jobs |-> None]
  BY DEF Init, Holder
<1>3. paid = [j \in Jobs |-> [r \in Contract!Rewards |-> 0]]
  BY DEF Init, Rewards, Contract!Rewards
<1> QED BY <1>1, <1>2, <1>3, StageIs DEF Contract!Init, Holder

LEMMA QuietContract == UNCHANGED <<work, owner, paid>> => UNCHANGED Contract!vars
BY DEF Contract!vars

LEMMA ContractSteps ==
    ASSUME NEW j \in Jobs,
           \/ Contract!Post(j) \/ Contract!Finish(j) \/ Contract!Fail(j)
           \/ \E w \in Nodes \cup {Fallback} : Contract!Take(j, w)
           \/ \E r \in Contract!Rewards : Contract!Pay(j, r)
    PROVE  Contract!Next
BY DEF Contract!Next

LEMMA PostContract ==
    ASSUME TypeInv, OwnerInv, NEW j \in Jobs, PostExecution(j)
    PROVE  Contract!Post(j)
<1>1. work[j] = "absent" /\ work' = [work EXCEPT ![j] = "queued"] /\ UNCHANGED <<owner, paid>>
  BY DEF PostExecution, Exists, ledger
<1>2. Stage[j] = "none" /\ Stage' = [Stage EXCEPT ![j] = "open"]
  BY <1>1, StageMoves, StageValues DEF WorkState
<1>3. Holder' = Holder
  BY <1>1 DEF Holder, TypeInv, TypeOK
<1> QED BY <1>1, <1>2, <1>3, StageIs DEF Contract!Post, Contract!Move, Holder, Stage, StageOf

LEMMA ClaimContract ==
    ASSUME TypeInv, OwnerInv, NEW h \in Handlers, Claim(h), work[at[h]] = "queued"
    PROVE  Contract!Next
<1>0. PICK j \in Jobs : j = at[h]
  BY DEF Claim, TypeInv, Located, Busy, PC
<1> DEFINE w == IF h = Sweep THEN Fallback ELSE From[h]
           s == IF h = Sweep THEN "running" ELSE "claimed"
<1>1. /\ j \in Jobs /\ w \in Nodes \cup {Fallback} /\ s \in {"running", "claimed"} /\ w # None
      /\ work' = [work EXCEPT ![j] = s] /\ owner' = [owner EXCEPT ![j] = w] /\ UNCHANGED paid
  BY <1>0 DEF Claim, Claimable, Handlers, ledger, TypeInv, TypeOK, WorkQueueAssumption
<1> HIDE DEF w, s
<1>2. Stage[j] = "open" /\ Stage' = [Stage EXCEPT ![j] = "taken"]
  BY <1>0, <1>1, StageMoves, StageValues DEF WorkState
<1>3. Holder' = [Holder EXCEPT ![j] = w]
  BY <1>1 DEF Holder, TypeInv, TypeOK
<1>4. Contract!Take(j, w)
  BY <1>1, <1>2, <1>3 DEF Contract!Take, Contract!Move, Holder, Stage, StageOf
<1> QED BY <1>1, <1>4, ContractSteps

LEMMA CommitContract ==
    ASSUME TypeInv, OwnerInv, PayInv, NEW h \in Handlers, Commit(h)
    PROVE  Contract!Next
<1>0. PICK j \in Jobs : j = at[h]
  BY DEF Commit, TypeInv, Located, Busy, PC
<1>1. /\ pc[h] = "commit" /\ work' = [work EXCEPT ![j] = "completed"]
      /\ owner' = [owner EXCEPT ![j] = Submitter(h)] /\ UNCHANGED paid
  BY <1>0 DEF Commit, ledger
<1>2. work[j] = IF h = Sweep THEN "running" ELSE "claimed"
  BY <1>0, <1>1 DEF PayInv, Staged, Before
<1>3. owner[j] = IF h = Sweep THEN Fallback ELSE From[h]
  BY <1>0, <1>1, <1>2 DEF OwnerInv, RequestOwns, SweepHolds, NodeOwns, SweepOwns, Handlers
<1>4. Stage[j] = "taken" /\ Stage' = [Stage EXCEPT ![j] = "done"]
  BY <1>1, <1>2, StageMoves, StageValues DEF WorkState
<1>5. Holder' = Holder
  <2>1. ASSUME NEW k \in Jobs PROVE Holder'[k] = Holder[k]
    <3>1. CASE k = j
      BY <3>1, <1>1, <1>2, <1>3 DEF Holder, Submitter, TypeInv, TypeOK, Handlers
    <3>2. CASE k # j
      BY <3>2, <1>1 DEF Holder, TypeInv, TypeOK
    <3> QED BY <3>1, <3>2
  <2> QED BY <2>1 DEF Holder
<1>6. Contract!Finish(j)
  BY <1>1, <1>4, <1>5 DEF Contract!Finish, Contract!Move, Holder, Stage, StageOf
<1> QED BY <1>6, ContractSteps

LEMMA PayContract ==
    ASSUME TypeInv, OwnerInv, PayInv, NEW h \in Handlers, Pay(h)
    PROVE  Contract!Next
<1> DEFINE j == at[h]
           r == Reward(h)
<1>1. pc[h] \in Settling /\ Proceed(h) /\ j \in Jobs /\ r \in Open(h) /\ r \in Rewards
  BY ProceedPays, ProceedLeads DEF Pay, Settling
<1>2. paid' = [paid EXCEPT ![j][r] = @ + 1] /\ UNCHANGED <<work, owner>>
  BY DEF Pay, rows
<1>3. work[j] = "completed" /\ paid[j][r] = 0
  BY <1>1 DEF PayInv, Staged, OpenUnpaid, Rewarding, Settling
<1>4. r = "node" => owner[j] \in Nodes
  <2>1. ASSUME r = "node" PROVE h \in Requests /\ pc[h] # "claim"
    <3>1. due[h] \subseteq Capabilities
      BY DEF TypeInv, TypeOK
    <3>2. pc[h] = "payNode"
      BY <3>1, <2>1, FirstIn DEF Reward
    <3> QED BY <3>2 DEF PayInv, Staged, Handlers
  <2> QED BY <1>1, <2>1 DEF OwnerInv, RequestOwns, NodeOwns
<1>5. paid' = [paid EXCEPT ![j][r] = 1]
  BY <1>1, <1>2, <1>3 DEF TypeInv, TypeOK
<1>6. Stage' = Stage /\ Holder' = Holder /\ Stage[j] = "done" /\ (r = "node" => Holder[j] \in Nodes)
  BY <1>1, <1>2, <1>3, <1>4, StageValues DEF Stage, Holder
<1>7. Contract!Pay(j, r)
  BY <1>3, <1>5, <1>6 DEF Contract!Pay, Holder, Stage, StageOf
<1> QED BY <1>1, <1>7, ContractSteps DEF Contract!Rewards, Rewards

LEMMA FailContract ==
    ASSUME TypeInv, OwnerInv, PayInv, errors = 0, FailWork
    PROVE  Contract!Next
<1>0. PICK j \in Jobs : j = at[Sweep]
  BY DEF FailWork, TypeInv, Located, Busy, PC, Handlers
<1>1. /\ pc[Sweep] = "failWork" /\ work' = [work EXCEPT ![j] = "failed"]
      /\ UNCHANGED <<owner, paid>>
  BY <1>0 DEF FailWork, ledger
<1>2. work[j] = "running" /\ owner[j] = Fallback
  BY <1>0, <1>1 DEF PayInv, Staged, OwnerInv, SweepHolds, SweepOwns
<1>3. Stage[j] = "taken" /\ Stage' = [Stage EXCEPT ![j] = "failed"]
  BY <1>1, <1>2, StageMoves, StageValues DEF WorkState
<1>4. Holder' = Holder /\ Holder[j] = Fallback
  BY <1>1, <1>2 DEF Holder, TypeInv, TypeOK
<1>5. Contract!Fail(j)
  BY <1>1, <1>3, <1>4 DEF Contract!Fail, Contract!Move, Holder, Stage, StageOf
<1> QED BY <1>5, ContractSteps

\* Most steps are unseen by the contract: all but a posting, a claim that takes
\* effect, a completion, a reward and the sweep's failure.
Unseen == UNCHANGED <<work, owner, paid>>

LEMMA HandlerQuiet ==
    ASSUME NEW h \in Handlers,
           \/ Mark(h) \/ Reply(h) \/ CheckSubmit(h) \/ ReadWork(h) \/ RecordReuse(h)
           \/ CreatePattern(h) \/ FindNone(h) \/ CreateAccount(h) \/ CreateCollides(h)
           \/ HandlerFails(h) \/ (Claim(h) /\ ~Claimable(at[h]))
    PROVE  Unseen
<1>1. CASE Mark(h) \/ Reply(h) \/ CheckSubmit(h)
  BY <1>1 DEF Unseen, Mark, Reply, CheckSubmit, rows, ledger
<1>2. CASE ReadWork(h) \/ RecordReuse(h) \/ CreatePattern(h)
  BY <1>2 DEF Unseen, ReadWork, RecordReuse, CreatePattern, rows, ledger
<1>5. CASE FindNone(h) \/ CreateAccount(h) \/ CreateCollides(h)
  BY <1>5 DEF Unseen, FindNone, CreateAccount, CreateCollides, rows, ledger
<1>3. CASE HandlerFails(h)
  BY <1>3 DEF Unseen, HandlerFails, MarkFails, RefuseSubmit, CommitFails, PayFails, RecordReuseFails,
     CreatePatternFails, rows, ledger
<1>4. CASE Claim(h) /\ ~Claimable(at[h])
  BY <1>4 DEF Unseen, Claim, ledger
<1> QED BY <1>1, <1>2, <1>3, <1>4, <1>5

LEMMA OthersQuiet ==
    ASSUME \/ \E j \in Jobs : Age(j)
           \/ \E i \in Intents : MatchIntent(i)
           \/ \E h \in Requests : Heartbeat(h) \/ Submit(h)
           \/ Scan \/ Inline \/ RunInline \/ LoadFails \/ FailExec \/ FailFails \/ ServerCrash
           \/ \E c \in Capabilities : OpenAccount(c)
           \/ \E n \in Nodes : Disconnect(n) \/ NodeCrash(n)
           \/ UNCHANGED vars
    PROVE  Unseen
BY DEF Unseen, Age, MatchIntent, Heartbeat, Submit, Scan, Inline, RunInline, LoadFails, FailExec,
   FailFails, OpenAccount, ServerCrash, Disconnect, NodeCrash, vars, rows, ledger

\* No call has failed.
ErrorFree == errors = 0

LEMMA NextContract ==
    ASSUME TypeInv, OwnerInv, PayInv, ErrorFree, [Next]_vars
    PROVE  [Contract!Next]_(Contract!vars)
<1>1. CASE Unseen
  BY <1>1, QuietContract DEF Unseen
<1>2. CASE \E j \in Jobs : PostExecution(j)
  BY <1>2, PostContract, ContractSteps
<1>3. ASSUME NEW h \in Handlers, (Claim(h) /\ Claimable(at[h])) \/ Commit(h) \/ Pay(h)
      PROVE  Contract!Next
  BY <1>3, ClaimContract, CommitContract, PayContract DEF Claimable
<1>4. CASE FailWork
  BY <1>4, FailContract DEF ErrorFree
<1>5. CASE \E h \in Handlers : Continue(h) \/ HandlerFails(h)
  BY <1>5, <1>1, <1>3, HandlerQuiet DEF Continue
<1> QED
  BY <1>1, <1>2, <1>4, <1>5, OthersQuiet DEF Next, SweepStep

LEMMA NoErrors ==
    ASSUME MaxErrors = 0, TypeInv, ErrorFree, [Next]_vars
    PROVE  ErrorFree'
<1>1. ~Error
  BY DEF Error, ErrorFree
<1>2. ASSUME NEW h \in Handlers, Continue(h) PROVE UNCHANGED errors
  BY <1>2 DEF Continue, Claim, Mark, Reply, CheckSubmit, ReadWork, Commit, Pay, RecordReuse,
     CreatePattern, FindNone, CreateAccount, CreateCollides, faults
<1> QED
  BY <1>1, <1>2 DEF ErrorFree, Next, PostExecution, Age, MatchIntent, Heartbeat, Submit, HandlerFails,
     MarkFails, RefuseSubmit, CommitFails, PayFails, RecordReuseFails, CreatePatternFails, SweepStep,
     Scan, Inline, RunInline, LoadFails, FailWork, FailExec, FailFails, OpenAccount, ServerCrash,
     Disconnect, NodeCrash, Loss, vars, faults

\* With one PUT per job and no failing call, the queue implements WorkContract
\* through any crashes and lost connections: one taker per job, who alone ends
\* it, and each reward at most once.
THEOREM KeepsContractCorrect ==
    ASSUME MaxSubmits = 1, MaxErrors = 0 PROVE Spec => KeepsContract
<1>1. Init => Contract!Init /\ ErrorFree
  BY InitContract DEF Init, ErrorFree
<1>2. TypeInv /\ ErrorFree /\ [Next]_vars => ErrorFree'
  BY NoErrors
<1>3. TypeInv /\ OwnerInv /\ PayInv /\ ErrorFree /\ [Next]_vars => [Contract!Next]_(Contract!vars)
  BY NextContract
<1> QED
  BY <1>1, <1>2, <1>3, PayCorrect, PTL DEF Spec, KeepsContract, Contract!Spec
=============================================================================
