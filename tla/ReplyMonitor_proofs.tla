------------------------- MODULE ReplyMonitor_proofs -------------------------
(* Proofs about ReplyMonitor: its types, that no post is missed between one   *)
(* run and the next, and that a row is escalated for a cause; for any         *)
(* contacts, threads, posts and --since overrides, and any number of failures,*)
(* edits and deaths.                                                          *)
EXTENDS ReplyMonitor, TLAPS

People == ToSet(Contacts) \cup {Newcomer}
Rows   == [who : People, status : Statuses, replied : {Unset, "today"}]
Jobs   == [line : Nat, nth : Nat, status : Statuses, thread : Threads]
Runs   == [pc : {"off", "rows", "sweep", "read", "write", "save"}, since : 0..MaxTime,
           started : 0..MaxTime, dry : BOOLEAN, jobs : SUBSET (Jobs \cup Threads),
           checked : SUBSET Threads, found : SUBSET Posts, updates : SUBSET Nat,
           text : Seq(Rows), scope : SUBSET Threads]

\* The first pass works on jobs, the second on threads.
JobsTyped ==
    /\ run.pc = "rows" => run.jobs \subseteq Jobs
    /\ run.pc = "sweep" => run.jobs \subseteq Threads
TypeInv == TypeOK /\ run \in Runs /\ mishaps \in Nat /\ shifted \in BOOLEAN /\ JobsTyped

\* What a run has to report: what others posted after its bound, before its start.
Due(p) == Theirs(p) /\ at[p] < run.started /\ at[p] > run.since

\* No bound lies in the future.
Clocked == saved <= now /\ run.started <= now

\* A thread that was fetched has nothing due left.
Looked == run.pc \in {"rows", "sweep"} =>
    \A p \in Posts : Due(p) /\ On[p] \in run.checked => p \in run.found \cup excused \/ Overtaken(p)

\* A thread in scope was fetched, or will be.
Ahead ==
    /\ run.pc = "rows" =>
         run.scope \subseteq run.checked \cup OwnThreads \cup {job.thread : job \in run.jobs}
    /\ run.pc = "sweep" => run.scope \subseteq run.checked \cup run.jobs

\* After the report nothing due in scope is untold.
Shown == run.pc \in {"read", "write", "save"} =>
    \A p \in Posts : Due(p) /\ On[p] \in run.scope => p \in told \cup excused \/ Overtaken(p)

WatchInv == Clocked /\ Looked /\ Ahead /\ Shown /\ NothingMissed

\* A comment in S of the maintainer's side on a thread of contact c.
Grounds(c, S) == \E p \in S \cap Comments : By[p] = "maintainer" /\ On[p] \in ToSet(NotesOf(c))

\* While no row was moved, jobs and updates name the rows they came from, and the
\* rows about to be written are justified like those of the file.
LinesStand ==
    /\ run.pc = "rows" => \A job \in run.jobs :
           job.line \in DOMAIN crm /\ job.thread \in ToSet(NotesOf(crm[job.line].who))
    /\ run.pc \in {"rows", "sweep", "read"} => \A i \in run.updates :
           i \in DOMAIN crm /\ Grounds(crm[i].who, run.found)
    /\ run.pc = "read" => run.found \subseteq told
    /\ run.pc = "write" => \A i \in DOMAIN run.text :
           run.text[i].status = "engaged" /\ run.text[i].replied # Unset =>
               Grounds(run.text[i].who, told)
CauseInv == (shifted \/ LinesStand) /\ EscalatedForCause

-----------------------------------------------------------------------------
(* Sequences of rows, and the jobs they give.                                *)

LEMMA Spliced ==
    ASSUME NEW S, NEW s \in Seq(S), NEW i \in DOMAIN s, NEW e \in S
    PROVE  InsertAt(s, i, e) \in Seq(S) /\ RemoveAt(s, i) \in Seq(S)
<1>1. i \in 1..Len(s) /\ Len(s) \in Nat
  OBVIOUS
<1>2. SubSeq(s, 1, i - 1) \in Seq(S) /\ SubSeq(s, i, Len(s)) \in Seq(S)
      /\ SubSeq(s, i + 1, Len(s)) \in Seq(S)
  BY <1>1
<1> QED BY <1>2 DEF InsertAt, RemoveAt

\* What is inserted into or removed from leaves the other elements what they are.
LEMMA Kept ==
    ASSUME NEW S, NEW s \in Seq(S), NEW i \in DOMAIN s, NEW e,
           NEW t \in {InsertAt(s, i, e), RemoveAt(s, i)}, NEW k \in DOMAIN t
    PROVE  t[k] = e \/ \E m \in DOMAIN s : t[k] = s[m]
<1> DEFINE T == {s[m] : m \in DOMAIN s} \cup {e}
<1>1. s \in Seq(T)
  <2>1. s = [m \in 1..Len(s) |-> s[m]] /\ Len(s) \in Nat /\ \A m \in 1..Len(s) : s[m] \in T
    OBVIOUS
  <2> HIDE DEF T
  <2> QED BY <2>1
<1>2. e \in T
  OBVIOUS
<1> HIDE DEF T
<1>3. t \in Seq(T)
  BY <1>1, <1>2, Spliced
<1>4. t[k] \in T
  BY <1>3
<1> QED BY <1>4 DEF T

LEMMA Rewritten ==
    ASSUME NEW R, NEW s \in Seq(R), NEW S, NEW t, DOMAIN t = DOMAIN s,
           t = [i \in DOMAIN s |-> t[i]], \A i \in DOMAIN s : t[i] \in S
    PROVE  t \in Seq(S) /\ Len(t) = Len(s)
<1>1. t \in [1..Len(s) -> S] /\ Len(s) \in Nat
  OBVIOUS
<1> QED BY <1>1

LEMMA NotesTyped == \A c \in People : NotesOf(c) \in Seq(Threads) /\ ToSet(NotesOf(c)) \subseteq Threads
<1>1. \A c \in People : NotesOf(c) \in Seq(Threads)
  BY MonitorAssumption DEF People, NotesOf
<1> QED BY <1>1 DEF ToSet

\* A job is that of a row and of a thread in its notes.
LEMMA ParseSound ==
    ASSUME NEW file \in Seq(Rows), NEW job \in ParseCrm(file)
    PROVE  /\ job \in Jobs /\ job.line \in DOMAIN file
           /\ job.thread \in ToSet(NotesOf(file[job.line].who))
<1>1. PICK i \in Lines(file) : job \in JobsOf(i, file[i])
  BY DEF ParseCrm
<1>2. i \in DOMAIN file /\ i \in Nat /\ file[i] \in Rows
  BY <1>1 DEF Lines
<1>3. PICK k \in DOMAIN NotesOf(file[i].who) :
          job = [line |-> i, nth |-> k, status |-> file[i].status, thread |-> NotesOf(file[i].who)[k]]
  BY <1>1 DEF JobsOf
<1>4. NotesOf(file[i].who) \in Seq(Threads) /\ k \in Nat
  BY <1>2, <1>3, NotesTyped DEF Rows
<1> QED BY <1>2, <1>3, <1>4 DEF Jobs, Rows, ToSet

\* Every thread in the notes of a row that is not skipped has a job.
LEMMA ParseComplete ==
    ASSUME NEW file \in Seq(Rows), NEW i \in Lines(file), NEW t \in ToSet(NotesOf(file[i].who))
    PROVE  \E job \in ParseCrm(file) : job.thread = t
<1>1. PICK k \in DOMAIN NotesOf(file[i].who) : t = NotesOf(file[i].who)[k]
  BY DEF ToSet
<1> DEFINE job == [line |-> i, nth |-> k, status |-> file[i].status, thread |-> NotesOf(file[i].who)[k]]
<1>2. job \in JobsOf(i, file[i])
  BY DEF JobsOf
<1>3. job \in ParseCrm(file)
  BY <1>2 DEF ParseCrm
<1> QED BY <1>1, <1>3

-----------------------------------------------------------------------------
(* Types.                                                                    *)

LEMMA InitType == Init => TypeInv
<1> SUFFICES ASSUME Init PROVE TypeInv
  OBVIOUS
<1>1. crm \in Seq(Rows)
  <2>1. Contacts \in Seq(ToSet(Contacts)) /\ DOMAIN crm = DOMAIN Contacts
        /\ crm = [i \in DOMAIN Contacts |-> crm[i]]
    BY MonitorAssumption DEF Init
  <2>2. ASSUME NEW i \in DOMAIN Contacts PROVE crm[i] \in Rows
    BY <2>1, <2>2, MonitorAssumption DEF Init, Row, Rows, People, Statuses, ToSet
  <2> QED BY <2>1, <2>2, Rewritten
<1>2. run \in Runs /\ JobsTyped
  BY MonitorAssumption DEF Init, Off, Runs, JobsTyped
<1>3. at \in [Posts -> 1..MaxTime \cup {None}]
  BY DEF Init
<1>4. now \in 1..MaxTime /\ saved \in 0..MaxTime
  BY MonitorAssumption DEF Init
<1> QED BY <1>1, <1>2, <1>3, <1>4 DEF Init, TypeInv, TypeOK, Rows, People, Runs

LEMMA CrmIs == TypeInv => crm \in Seq(Rows)
BY DEF TypeInv, TypeOK, Rows, People

LEMMA FreshIs == \A t \in Threads : Fresh(t) \subseteq {p \in Posts : On[p] = t}
BY DEF Fresh, NewComments, NewEvents, Since

LEMMA StartType ==
    ASSUME TypeInv, NEW since \in Overrides \cup {None}, NEW dry \in BOOLEAN, Start(since, dry)
    PROVE  TypeInv'
<1>1. LoadSince(since) \in 0..MaxTime /\ now \in 0..MaxTime
  <2>1. saved \in 0..MaxTime /\ now \in 1..MaxTime
    BY DEF TypeInv, TypeOK
  <2>2. since # None => since \in 0..MaxTime
    BY MonitorAssumption
  <2>3. now \in 0..MaxTime
    BY <2>1, MonitorAssumption
  <2> QED BY <2>1, <2>2, <2>3 DEF LoadSince
<1>2. ParseCrm(crm) \subseteq Jobs
  BY CrmIs, ParseSound
<1>3. OwnThreads \cup UNION {ToSet(NotesOf(crm[i].who)) : i \in Lines(crm)} \subseteq Threads
  <2>1. ASSUME NEW i \in Lines(crm) PROVE ToSet(NotesOf(crm[i].who)) \subseteq Threads
    <3>1. crm[i] \in Rows
      BY CrmIs DEF Lines
    <3>2. crm[i].who \in People
      BY <3>1 DEF Rows
    <3> QED BY <3>2, NotesTyped
  <2> QED BY <2>1, MonitorAssumption
<1>4. run' \in Runs /\ JobsTyped'
  BY <1>1, <1>2, <1>3 DEF Start, Runs, JobsTyped
<1> QED BY <1>4 DEF Start, TypeInv, TypeOK, Runs

\* What a fetch does: a thread fetched before shows nothing more, of another one
\* everything new is found or lost.
Fetched(t, seen, lost) ==
    /\ excused' = excused \cup lost /\ mishaps' \in Nat
    /\ \/ t \in run.checked /\ seen = {} /\ lost = {}
       \/ seen \cup lost = Fresh(t)

LEMMA CheckRowIs ==
    ASSUME TypeInv, CheckRow
    PROVE  \E job \in run.jobs, seen \in SUBSET Posts, lost \in SUBSET Posts :
               /\ Fetched(job.thread, seen, lost)
               /\ run' = [run EXCEPT !.jobs = @ \ {job}, !.checked = @ \cup {job.thread},
                              !.found = @ \cup seen,
                              !.updates = IF Escalates(job, seen) THEN @ \cup {job.line} ELSE @]
<1>1. PICK job \in run.jobs :
          IF job.thread \in run.checked
          THEN run' = [run EXCEPT !.jobs = @ \ {job}] /\ UNCHANGED <<mishaps, excused>>
          ELSE \E lost \in SUBSET Fresh(job.thread) :
            LET seen == Fresh(job.thread) \ lost IN
            /\ Fetch(job.thread, lost)
            /\ run' = [run EXCEPT !.jobs = @ \ {job},
                           !.checked = @ \cup {job.thread},
                           !.found = @ \cup seen,
                           !.updates = IF Escalates(job, seen)
                                       THEN @ \cup {job.line} ELSE @]
  BY DEF CheckRow
<1>2. job \in Jobs /\ job.thread \in Threads /\ run \in Runs
  BY DEF CheckRow, TypeInv, JobsTyped, Jobs
<1>3. CASE job.thread \in run.checked
  <2>1. ~Escalates(job, {})
    BY DEF Escalates
  <2>2. run.checked \cup {job.thread} = run.checked /\ run.found \cup {} = run.found
    BY <1>3
  <2>3. run' = [run EXCEPT !.jobs = @ \ {job}, !.checked = @ \cup {job.thread},
                    !.found = @ \cup {},
                    !.updates = IF Escalates(job, {}) THEN @ \cup {job.line} ELSE @]
    BY <1>1, <1>2, <1>3, <2>1, <2>2 DEF Runs
  <2>4. Fetched(job.thread, {}, {})
    BY <1>1, <1>3 DEF Fetched, TypeInv
  <2>5. {} \in SUBSET Posts
    OBVIOUS
  <2> WITNESS job \in run.jobs, {} \in SUBSET Posts, {} \in SUBSET Posts
  <2> QED BY <2>3, <2>4
<1>4. CASE job.thread \notin run.checked
  <2>1. PICK lost \in SUBSET Fresh(job.thread) :
            LET seen == Fresh(job.thread) \ lost IN
            /\ Fetch(job.thread, lost)
            /\ run' = [run EXCEPT !.jobs = @ \ {job},
                           !.checked = @ \cup {job.thread},
                           !.found = @ \cup seen,
                           !.updates = IF Escalates(job, seen)
                                       THEN @ \cup {job.line} ELSE @]
    BY <1>1, <1>4
  <2>2. Fetched(job.thread, Fresh(job.thread) \ lost, lost)
    BY <2>1 DEF Fetched, Fetch, Mishap, TypeInv
  <2> QED BY <1>2, <2>1, <2>2, FreshIs
<1> QED BY <1>3, <1>4

LEMMA CheckRowType == TypeInv /\ CheckRow => TypeInv'
<1> SUFFICES ASSUME TypeInv, CheckRow PROVE TypeInv'
  OBVIOUS
<1>1. PICK job \in run.jobs, seen \in SUBSET Posts, lost \in SUBSET Posts :
               /\ Fetched(job.thread, seen, lost)
               /\ run' = [run EXCEPT !.jobs = @ \ {job}, !.checked = @ \cup {job.thread},
                              !.found = @ \cup seen,
                              !.updates = IF Escalates(job, seen) THEN @ \cup {job.line} ELSE @]
  BY CheckRowIs
<1>2. job \in Jobs /\ job.thread \in Threads /\ job.line \in Nat /\ run.jobs \subseteq Jobs
  BY DEF CheckRow, TypeInv, JobsTyped, Jobs
<1>3. run' \in Runs /\ JobsTyped'
  BY <1>1, <1>2 DEF CheckRow, TypeInv, Runs, JobsTyped
<1>4. excused' \subseteq Posts /\ mishaps' \in Nat
  BY <1>1 DEF Fetched, TypeInv, TypeOK
<1> QED BY <1>3, <1>4 DEF CheckRow, TypeInv, TypeOK, Runs

\* A run goes on with its first fields, or is over.
LEMMA MovesOn ==
    ASSUME run \in Runs,
           \/ run' = Off
           \/ \E l \in {"read", "save"} : run' = [run EXCEPT !.pc = l]
           \/ \E file \in Seq(Rows) : run' = [run EXCEPT !.pc = "write", !.text = file]
    PROVE  run' \in Runs /\ JobsTyped'
<1>1. CASE run' = Off
  BY <1>1, MonitorAssumption DEF Off, Runs, JobsTyped
<1>2. ASSUME NEW l \in {"read", "save"}, run' = [run EXCEPT !.pc = l]
      PROVE  run' \in Runs /\ run'.pc = l
  BY <1>2 DEF Runs
<1>3. ASSUME NEW file \in Seq(Rows), run' = [run EXCEPT !.pc = "write", !.text = file]
      PROVE  run' \in Runs /\ run'.pc = "write"
  BY <1>3 DEF Runs
<1> QED BY <1>1, <1>2, <1>3 DEF JobsTyped

LEMMA ListOwnType == TypeInv /\ ListOwn => TypeInv'
<1> SUFFICES ASSUME TypeInv, ListOwn PROVE TypeInv'
  OBVIOUS
<1>1. PICK missing \in SUBSET Threads :
          /\ mishaps' \in Nat
          /\ excused' = excused \cup UNION {Fresh(t) : t \in (OwnThreads \cap missing) \ run.checked}
          /\ run' = [run EXCEPT !.pc = "sweep",
                         !.scope = @ \ ((OwnThreads \cap missing) \ run.checked),
                         !.jobs = OwnThreads \ missing]
  <2>1. PICK missing \in {{}, Discussions, Threads \ Discussions, Threads} :
          LET listed == OwnThreads \ missing IN
          /\ IF missing = {} THEN UNCHANGED mishaps ELSE Mishap
          /\ excused' = excused \cup UNION {Fresh(t) :
                            t \in (OwnThreads \cap missing) \ run.checked}
          /\ run' = [run EXCEPT !.pc = "sweep",
                         !.scope = @ \ ((OwnThreads \cap missing) \ run.checked),
                         !.jobs = listed]
    BY DEF ListOwn
  <2>2. missing \in SUBSET Threads
    BY MonitorAssumption
  <2>3. mishaps' \in Nat
    BY <2>1 DEF Mishap, TypeInv
  <2> QED BY <2>1, <2>2, <2>3
<1>2. OwnThreads \subseteq Threads
  BY MonitorAssumption
<1>3. run' \in Runs /\ JobsTyped'
  BY <1>1, <1>2 DEF TypeInv, Runs, JobsTyped
<1>4. excused' \subseteq Posts
  BY <1>1, <1>2, FreshIs DEF TypeInv, TypeOK
<1> QED BY <1>1, <1>3, <1>4 DEF ListOwn, TypeInv, TypeOK, Runs

LEMMA SweepIs ==
    ASSUME TypeInv, Sweep
    PROVE  \E t \in run.jobs, seen \in SUBSET Posts, lost \in SUBSET Posts :
               /\ Fetched(t, seen, lost)
               /\ run' = [run EXCEPT !.jobs = @ \ {t}, !.checked = @ \cup {t}, !.found = @ \cup seen]
<1>1. PICK t \in run.jobs :
          IF t \in run.checked
          THEN run' = [run EXCEPT !.jobs = @ \ {t}] /\ UNCHANGED <<mishaps, excused>>
          ELSE \E lost \in SUBSET Fresh(t) :
            /\ Fetch(t, lost)
            /\ run' = [run EXCEPT !.jobs = @ \ {t}, !.checked = @ \cup {t},
                           !.found = @ \cup (Fresh(t) \ lost)]
  BY DEF Sweep
<1>2. t \in Threads /\ run \in Runs
  BY DEF Sweep, TypeInv, JobsTyped
<1>3. CASE t \in run.checked
  <2>1. run.checked \cup {t} = run.checked /\ run.found \cup {} = run.found
    BY <1>3
  <2>2. run' = [run EXCEPT !.jobs = @ \ {t}, !.checked = @ \cup {t}, !.found = @ \cup {}]
    BY <1>1, <1>2, <1>3, <2>1 DEF Runs
  <2>3. Fetched(t, {}, {})
    BY <1>1, <1>3 DEF Fetched, TypeInv
  <2>4. {} \in SUBSET Posts
    OBVIOUS
  <2> WITNESS t \in run.jobs, {} \in SUBSET Posts, {} \in SUBSET Posts
  <2> QED BY <2>2, <2>3
<1>4. CASE t \notin run.checked
  <2>1. PICK lost \in SUBSET Fresh(t) :
            /\ Fetch(t, lost)
            /\ run' = [run EXCEPT !.jobs = @ \ {t}, !.checked = @ \cup {t},
                           !.found = @ \cup (Fresh(t) \ lost)]
    BY <1>1, <1>4
  <2>2. Fetched(t, Fresh(t) \ lost, lost)
    BY <2>1 DEF Fetched, Fetch, Mishap, TypeInv
  <2> QED BY <1>2, <2>1, <2>2, FreshIs
<1> QED BY <1>3, <1>4

LEMMA SweepType == TypeInv /\ Sweep => TypeInv'
<1> SUFFICES ASSUME TypeInv, Sweep PROVE TypeInv'
  OBVIOUS
<1>1. PICK t \in run.jobs, seen \in SUBSET Posts, lost \in SUBSET Posts :
               /\ Fetched(t, seen, lost)
               /\ run' = [run EXCEPT !.jobs = @ \ {t}, !.checked = @ \cup {t}, !.found = @ \cup seen]
  BY SweepIs
<1>2. t \in Threads /\ run.jobs \subseteq Threads
  BY DEF Sweep, TypeInv, JobsTyped
<1>3. run' \in Runs /\ JobsTyped'
  BY <1>1, <1>2 DEF Sweep, TypeInv, Runs, JobsTyped
<1>4. excused' \subseteq Posts /\ mishaps' \in Nat
  BY <1>1 DEF Fetched, TypeInv, TypeOK
<1> QED BY <1>3, <1>4 DEF Sweep, TypeInv, TypeOK, Runs

LEMMA ReportType == TypeInv /\ PrintReport => TypeInv'
<1> SUFFICES ASSUME TypeInv, PrintReport PROVE TypeInv'
  OBVIOUS
<1>1. run' \in Runs /\ JobsTyped'
  BY MovesOn DEF PrintReport, TypeInv
<1>2. told' \subseteq Posts
  BY DEF PrintReport, TypeInv, TypeOK, Runs
<1> QED BY <1>1, <1>2 DEF PrintReport, TypeInv, TypeOK, Runs

\* The tool rewrites rows in place: who they are of stays.
LEMMA ReadRows ==
    ASSUME TypeInv, ReadCrm, run' # Off
    PROVE  /\ run' = [run EXCEPT !.pc = "write", !.text = run'.text]
           /\ run'.text \in Seq(Rows) /\ DOMAIN run'.text = DOMAIN crm
           /\ \A i \in DOMAIN crm : /\ run'.text[i].who = crm[i].who
                                    /\ run'.text[i] = crm[i] \/ i \in run.updates
<1> DEFINE file == [i \in DOMAIN crm |-> IF i \in run.updates THEN UpdateRow(crm[i]) ELSE crm[i]]
<1>1. crm \in Seq(Rows) /\ run \in Runs
  BY CrmIs DEF TypeInv
<1>2. \A row \in Rows : UpdateRow(row) \in Rows /\ UpdateRow(row).who = row.who
  BY DEF UpdateRow, Rows, Statuses
<1>3. \A i \in DOMAIN crm : crm[i] \in Rows
  BY <1>1
<1>4. /\ DOMAIN file = DOMAIN crm /\ file = [i \in DOMAIN crm |-> file[i]]
      /\ \A i \in DOMAIN crm : file[i] = IF i \in run.updates THEN UpdateRow(crm[i]) ELSE crm[i]
  OBVIOUS
<1>5. run' = [run EXCEPT !.pc = "write", !.text = file]
  BY DEF ReadCrm
<1> HIDE DEF file
<1>6. file \in Seq(Rows)
  BY <1>1, <1>2, <1>3, <1>4, Rewritten
<1>7. run'.text = file
  BY <1>1, <1>5 DEF Runs
<1> QED BY <1>2, <1>3, <1>4, <1>5, <1>6, <1>7

LEMMA ReadType == TypeInv /\ ReadCrm => TypeInv'
<1> SUFFICES ASSUME TypeInv, ReadCrm PROVE TypeInv'
  OBVIOUS
<1>1. run' \in Runs /\ JobsTyped'
  BY MovesOn, ReadRows DEF TypeInv
<1> QED BY <1>1 DEF ReadCrm, TypeInv, TypeOK, Runs, Rows, People

LEMMA WriteType == TypeInv /\ WriteCrm => TypeInv'
<1> SUFFICES ASSUME TypeInv, WriteCrm PROVE TypeInv'
  OBVIOUS
<1>1. run' \in Runs /\ JobsTyped'
  BY MovesOn DEF WriteCrm, TypeInv
<1>2. crm' \in Seq(Rows)
  BY DEF WriteCrm, TypeInv, Runs
<1> QED BY <1>1, <1>2 DEF WriteCrm, TypeInv, TypeOK, Runs, Rows, People

LEMMA SaveType == TypeInv /\ SaveState => TypeInv'
<1> SUFFICES ASSUME TypeInv, SaveState PROVE TypeInv'
  OBVIOUS
<1>1. run' \in Runs /\ JobsTyped'
  BY MonitorAssumption DEF SaveState, Off, Runs, JobsTyped
<1>2. saved' \in 0..MaxTime
  BY DEF SaveState, NextBound, TypeInv, Runs
<1>3. excused' \subseteq Posts
  BY DEF SaveState, TypeInv, TypeOK
<1> QED BY <1>1, <1>2, <1>3 DEF SaveState, TypeInv, TypeOK, Runs

\* What the founder does to the file.
FounderStep ==
    \/ \E i \in DOMAIN crm, s \in {"committed", "bounce"} : FounderSets(i, s)
    \/ \E i \in DOMAIN crm : FounderAdds(i) \/ FounderRemoves(i)

\* Edited rows are rows of the file, up to their status, or a new one.
LEMMA FounderRows ==
    ASSUME TypeInv, FounderStep
    PROVE  /\ crm' \in Seq(Rows) /\ mishaps' \in Nat /\ UNCHANGED <<now, at, shut, saved, run, told, excused>>
           /\ \A k \in DOMAIN crm' :
                \/ crm'[k].replied = Unset
                \/ crm'[k].status \in {"committed", "bounce"}
                \/ \E m \in DOMAIN crm : crm'[k] = crm[m]
           /\ \/ shifted' = shifted /\ DOMAIN crm' = DOMAIN crm
                 /\ \A k \in DOMAIN crm : crm'[k].who = crm[k].who
              \/ shifted' = (shifted \/ run.pc # "off")
<1>1. crm \in Seq(Rows) /\ mishaps \in Nat
  BY CrmIs DEF TypeInv
<1>2. ASSUME NEW i \in DOMAIN crm, NEW s \in {"committed", "bounce"}, FounderSets(i, s)
      PROVE  /\ crm' \in Seq(Rows) /\ DOMAIN crm' = DOMAIN crm /\ shifted' = shifted
             /\ \A k \in DOMAIN crm : crm'[k].who = crm[k].who
             /\ \A k \in DOMAIN crm : crm'[k].status = s \/ crm'[k] = crm[k]
  <2>1. crm' = [crm EXCEPT ![i].status = s] /\ shifted' = shifted
    BY <1>2 DEF FounderSets, Edit
  <2>2. \A k \in DOMAIN crm : crm[k] \in Rows
    BY <1>1
  <2>3. DOMAIN crm' = DOMAIN crm /\ crm' = [k \in DOMAIN crm |-> crm'[k]]
    BY <1>1, <2>1
  <2>4. \A k \in DOMAIN crm : crm'[k] = IF k = i THEN [crm[k] EXCEPT !.status = s] ELSE crm[k]
    BY <1>1, <2>1
  <2>5. \A row \in Rows : /\ [row EXCEPT !.status = s] \in Rows
                          /\ [row EXCEPT !.status = s].who = row.who
                          /\ [row EXCEPT !.status = s].status = s
    BY DEF Rows, Statuses
  <2>6. crm' \in Seq(Rows)
    BY <1>1, <2>2, <2>3, <2>4, <2>5, Rewritten
  <2> QED BY <2>1, <2>2, <2>3, <2>4, <2>5, <2>6
<1>3. ASSUME NEW i \in DOMAIN crm, FounderAdds(i) \/ FounderRemoves(i)
      PROVE  /\ crm' \in Seq(Rows) /\ shifted' = (shifted \/ run.pc # "off")
             /\ \A k \in DOMAIN crm' : crm'[k].replied = Unset \/ \E m \in DOMAIN crm : crm'[k] = crm[m]
  <2>1. Row(Newcomer, "sent") \in Rows /\ Row(Newcomer, "sent").replied = Unset
    BY DEF Row, Rows, People, Statuses
  <2>2. crm' \in {InsertAt(crm, i, Row(Newcomer, "sent")), RemoveAt(crm, i)}
    BY <1>3 DEF FounderAdds, FounderRemoves, Edit
  <2>3. crm' \in Seq(Rows)
    BY <1>1, <2>1, <2>2, Spliced
  <2>4. \A k \in DOMAIN crm' : crm'[k] = Row(Newcomer, "sent") \/ \E m \in DOMAIN crm : crm'[k] = crm[m]
    BY <1>1, <2>2, Kept
  <2> QED BY <1>3, <2>1, <2>3, <2>4 DEF FounderAdds, FounderRemoves
<1>4. mishaps' \in Nat /\ UNCHANGED <<now, at, shut, saved, run, told, excused>>
  BY <1>1 DEF FounderStep, FounderSets, FounderAdds, FounderRemoves, Edit, Mishap
<1> QED BY <1>2, <1>3, <1>4 DEF FounderStep

LEMMA FounderType == TypeInv /\ FounderStep => TypeInv'
<1> SUFFICES ASSUME TypeInv, FounderStep PROVE TypeInv'
  OBVIOUS
<1>1. shifted' \in BOOLEAN
  BY FounderRows DEF TypeInv
<1> QED BY <1>1, FounderRows DEF TypeInv, TypeOK, Runs, JobsTyped, Rows, People

LEMMA AroundType ==
    ASSUME TypeInv, Die \/ Tick \/ \E p \in Posts : Post(p)
    PROVE  TypeInv'
<1>1. CASE Die
  <2>1. run' \in Runs /\ JobsTyped' /\ mishaps' \in Nat
    BY <1>1, MonitorAssumption DEF Die, Mishap, Off, TypeInv, Runs, JobsTyped
  <2> QED BY <1>1, <2>1 DEF Die, TypeInv, TypeOK, Runs
<1>2. CASE Tick
  <2>1. now' \in 1..MaxTime
    BY <1>2, MonitorAssumption DEF Tick, TypeInv, TypeOK
  <2> QED BY <1>2, <2>1 DEF Tick, TypeInv, TypeOK, JobsTyped
<1>3. ASSUME NEW p \in Posts, Post(p) PROVE TypeInv'
  <2>1. at' \in [Posts -> 1..MaxTime \cup {None}] /\ shut' \in [Threads -> Posts \cup {None}]
    BY <1>3 DEF Post, TypeInv, TypeOK
  <2> QED BY <1>3, <2>1 DEF Post, TypeInv, TypeOK, JobsTyped
<1> QED BY <1>1, <1>2, <1>3

LEMMA NextType == TypeInv /\ [Next]_vars => TypeInv'
<1>1. TypeInv /\ UNCHANGED vars => TypeInv'
  BY DEF vars, TypeInv, TypeOK, JobsTyped
<1> QED
  BY <1>1, StartType, CheckRowType, ListOwnType, SweepType, ReportType, ReadType, WriteType, SaveType,
     FounderType, AroundType DEF Next, RunStep, FounderStep

LEMMA TypeInvariant == Spec => []TypeInv
BY InitType, NextType, PTL DEF Spec

\* Every variable has its type: the clock, crm.md, main's locals, the state file.
THEOREM TypeCorrect == Spec => []TypeOK
<1>1. TypeInv => TypeOK
  BY DEF TypeInv
<1> QED BY <1>1, TypeInvariant, PTL

-----------------------------------------------------------------------------
(* What a run looks at, and what the next one is spared.                     *)

LEMMA InitWatch == Init => WatchInv
BY MonitorAssumption DEF Init, Off, WatchInv, Clocked, Looked, Ahead, Shown, NothingMissed, Theirs, Overtaken

\* Times are numbers, None is not one.
LEMMA Times ==
    ASSUME TypeInv
    PROVE  /\ now \in Nat /\ saved \in Nat /\ run.started \in Nat /\ run.since \in Nat
           /\ \A p \in Posts : at[p] # None => at[p] \in Nat
<1>1. now \in 1..MaxTime /\ saved \in 0..MaxTime /\ at \in [Posts -> 1..MaxTime \cup {None}]
      /\ run.started \in 0..MaxTime /\ run.since \in 0..MaxTime
  BY DEF TypeInv, TypeOK
<1> QED BY <1>1, MonitorAssumption

LEMMA StartWatch ==
    ASSUME TypeInv, WatchInv, NEW since \in Overrides \cup {None}, NEW dry \in BOOLEAN, Start(since, dry)
    PROVE  WatchInv'
<1>1. /\ run'.pc = "rows" /\ run'.started = now /\ run'.jobs = ParseCrm(crm) /\ run'.checked = {}
      /\ run'.scope = OwnThreads \cup UNION {ToSet(NotesOf(crm[i].who)) : i \in Lines(crm)}
      /\ UNCHANGED <<now, at, shut, saved, told, excused>>
  BY DEF Start
<1>2. Clocked'
  BY <1>1, Times DEF WatchInv, Clocked
<1>3. Looked' /\ Shown'
  BY <1>1 DEF Looked, Shown
<1>4. Ahead'
  <2>1. ASSUME NEW t \in UNION {ToSet(NotesOf(crm[i].who)) : i \in Lines(crm)}
        PROVE  t \in {job.thread : job \in ParseCrm(crm)}
    BY <2>1, CrmIs, ParseComplete
  <2> QED BY <1>1, <2>1 DEF Ahead
<1>5. NothingMissed'
  BY <1>1 DEF WatchInv, NothingMissed, Theirs, Overtaken
<1> QED BY <1>2, <1>3, <1>4, <1>5 DEF WatchInv

\* What is due on a thread is what a fetch of it returns, or was overtaken.
LEMMA FreshOrOvertaken == \A p \in Posts : Due(p) => p \in Fresh(On[p]) \/ Overtaken(p)
<1> SUFFICES ASSUME NEW p \in Posts, Due(p), ~Overtaken(p) PROVE p \in Fresh(On[p])
  OBVIOUS
<1>1. p \in Since(On[p]) /\ By[p] # "us"
  BY DEF Due, Theirs, Since
<1>2. CASE p \in Comments
  BY <1>1, <1>2 DEF Fresh, NewComments
<1>3. CASE p \notin Comments /\ On[p] \in Discussions
  BY <1>1, <1>3 DEF Overtaken, Fresh, NewEvents
<1>4. CASE p \notin Comments /\ On[p] \notin Discussions
  <2>1. \A m \in Since(On[p]) \ Comments : By[m] # "us" /\ What[p] = "closed" => What[m] # "merged"
    BY <1>4 DEF Overtaken, Since, Theirs
  <2> QED BY <1>1, <1>4, <2>1 DEF Fresh, NewEvents
<1> QED BY <1>2, <1>3, <1>4

\* A fetch of t leaves nothing due there, and nothing due elsewhere that was not.
LEMMA FetchedAll ==
    ASSUME TypeInv, NEW t \in Threads, NEW seen \in SUBSET Posts, NEW lost \in SUBSET Posts,
           Fetched(t, seen, lost), Looked, run.pc \in {"rows", "sweep"},
           NEW p \in Posts, Due(p), On[p] \in run.checked \cup {t}
    PROVE  p \in (run.found \cup seen) \cup excused' \/ Overtaken(p)
<1>1. On[p] \in run.checked => p \in run.found \cup excused \/ Overtaken(p)
  BY DEF Looked
<1>2. On[p] = t => p \in Fresh(t) \/ Overtaken(p)
  BY FreshOrOvertaken
<1> QED BY <1>1, <1>2 DEF Fetched

LEMMA CheckRowWatch == TypeInv /\ WatchInv /\ CheckRow => WatchInv'
<1> SUFFICES ASSUME TypeInv, WatchInv, CheckRow PROVE WatchInv'
  OBVIOUS
<1>1. PICK job \in run.jobs, seen \in SUBSET Posts, lost \in SUBSET Posts :
               /\ Fetched(job.thread, seen, lost)
               /\ run' = [run EXCEPT !.jobs = @ \ {job}, !.checked = @ \cup {job.thread},
                              !.found = @ \cup seen,
                              !.updates = IF Escalates(job, seen) THEN @ \cup {job.line} ELSE @]
  BY CheckRowIs
<1>2. /\ run.pc = "rows" /\ run'.pc = "rows" /\ run'.jobs = run.jobs \ {job}
      /\ run'.checked = run.checked \cup {job.thread} /\ run'.found = run.found \cup seen
      /\ run'.scope = run.scope /\ run'.since = run.since /\ run'.started = run.started
      /\ UNCHANGED <<now, at, shut, saved, told>> /\ excused \subseteq excused'
  BY <1>1 DEF CheckRow, TypeInv, Runs, Fetched
<1>3. job.thread \in Threads
  BY DEF CheckRow, TypeInv, JobsTyped, Jobs
<1>4. Clocked'
  BY <1>2 DEF WatchInv, Clocked
<1>5. Looked'
  <2>1. ASSUME NEW p \in Posts, Due(p), On[p] \in run'.checked PROVE p \in run'.found \cup excused' \/ Overtaken(p)
    BY <1>1, <1>2, <1>3, <2>1, FetchedAll DEF WatchInv
  <2> QED BY <1>2, <2>1 DEF Looked, Due, Theirs, Overtaken
<1>6. Ahead' /\ Shown'
  BY <1>2 DEF WatchInv, Ahead, Shown
<1>7. NothingMissed'
  BY <1>2 DEF WatchInv, NothingMissed, Theirs, Overtaken
<1> QED BY <1>4, <1>5, <1>6, <1>7 DEF WatchInv

LEMMA ListOwnWatch == TypeInv /\ WatchInv /\ ListOwn => WatchInv'
<1> SUFFICES ASSUME TypeInv, WatchInv, ListOwn PROVE WatchInv'
  OBVIOUS
<1>1. PICK missing :
          /\ excused' = excused \cup UNION {Fresh(t) : t \in (OwnThreads \cap missing) \ run.checked}
          /\ run' = [run EXCEPT !.pc = "sweep",
                         !.scope = @ \ ((OwnThreads \cap missing) \ run.checked),
                         !.jobs = OwnThreads \ missing]
  BY DEF ListOwn
<1>2. /\ run.pc = "rows" /\ run'.pc = "sweep" /\ run.jobs = {} /\ run'.jobs = OwnThreads \ missing
      /\ run'.checked = run.checked /\ run'.found = run.found
      /\ run'.scope = run.scope \ ((OwnThreads \cap missing) \ run.checked)
      /\ run'.since = run.since /\ run'.started = run.started
      /\ UNCHANGED <<now, at, shut, saved, told>> /\ excused \subseteq excused'
  BY <1>1 DEF ListOwn, TypeInv, Runs
<1>3. Clocked' /\ Shown' /\ NothingMissed'
  BY <1>2 DEF WatchInv, Clocked, Shown, NothingMissed, Theirs, Overtaken
<1>4. Looked'
  BY <1>2 DEF WatchInv, Looked, Due, Theirs, Overtaken
<1>5. Ahead'
  BY <1>2 DEF WatchInv, Ahead
<1> QED BY <1>3, <1>4, <1>5 DEF WatchInv

LEMMA SweepWatch == TypeInv /\ WatchInv /\ Sweep => WatchInv'
<1> SUFFICES ASSUME TypeInv, WatchInv, Sweep PROVE WatchInv'
  OBVIOUS
<1>1. PICK t \in run.jobs, seen \in SUBSET Posts, lost \in SUBSET Posts :
               /\ Fetched(t, seen, lost)
               /\ run' = [run EXCEPT !.jobs = @ \ {t}, !.checked = @ \cup {t}, !.found = @ \cup seen]
  BY SweepIs
<1>2. /\ run.pc = "sweep" /\ run'.pc = "sweep" /\ run'.jobs = run.jobs \ {t}
      /\ run'.checked = run.checked \cup {t} /\ run'.found = run.found \cup seen
      /\ run'.scope = run.scope /\ run'.since = run.since /\ run'.started = run.started
      /\ UNCHANGED <<now, at, shut, saved, told>> /\ excused \subseteq excused'
  BY <1>1 DEF Sweep, TypeInv, Runs, Fetched
<1>3. t \in Threads
  BY DEF Sweep, TypeInv, JobsTyped
<1>4. Clocked'
  BY <1>2 DEF WatchInv, Clocked
<1>5. Looked'
  <2>1. ASSUME NEW p \in Posts, Due(p), On[p] \in run'.checked PROVE p \in run'.found \cup excused' \/ Overtaken(p)
    BY <1>1, <1>2, <1>3, <2>1, FetchedAll DEF WatchInv
  <2> QED BY <1>2, <2>1 DEF Looked, Due, Theirs, Overtaken
<1>6. Ahead' /\ Shown'
  BY <1>2 DEF WatchInv, Ahead, Shown
<1>7. NothingMissed'
  BY <1>2 DEF WatchInv, NothingMissed, Theirs, Overtaken
<1> QED BY <1>4, <1>5, <1>6, <1>7 DEF WatchInv

LEMMA ReportWatch == TypeInv /\ WatchInv /\ PrintReport => WatchInv'
<1> SUFFICES ASSUME TypeInv, WatchInv, PrintReport PROVE WatchInv'
  OBVIOUS
<1>1. /\ run.pc = "sweep" /\ run.jobs = {} /\ told \subseteq told'
      /\ UNCHANGED <<now, at, shut, saved, excused>>
  BY DEF PrintReport
<1>2. NothingMissed'
  BY <1>1 DEF WatchInv, NothingMissed, Theirs, Overtaken
<1>3. CASE run' = Off
  BY <1>1, <1>2, <1>3, Times DEF Off, WatchInv, Clocked, Looked, Ahead, Shown
<1>4. ASSUME NEW l \in {"read", "save"}, run' = [run EXCEPT !.pc = l], told' = told \cup run.found
      PROVE  WatchInv'
  <2>1. /\ run'.pc = l /\ run'.checked = run.checked /\ run'.scope = run.scope
        /\ run'.since = run.since /\ run'.started = run.started
    BY <1>4 DEF TypeInv, Runs
  <2>2. run.scope \subseteq run.checked
    BY <1>1 DEF WatchInv, Ahead
  <2>3. Shown'
    BY <1>1, <1>4, <2>1, <2>2 DEF WatchInv, Looked, Shown, Due, Theirs, Overtaken
  <2> QED BY <1>1, <1>2, <2>1, <2>3 DEF WatchInv, Clocked, Looked, Ahead
<1> QED BY <1>3, <1>4 DEF PrintReport

LEMMA WriteWatch == TypeInv /\ WatchInv /\ (ReadCrm \/ WriteCrm) => WatchInv'
<1> SUFFICES ASSUME TypeInv, WatchInv, ReadCrm \/ WriteCrm PROVE WatchInv'
  OBVIOUS
<1>1. run.pc \in {"read", "write"} /\ UNCHANGED <<now, at, shut, saved, told, excused>>
  BY DEF ReadCrm, WriteCrm
<1>2. NothingMissed'
  BY <1>1 DEF WatchInv, NothingMissed, Theirs, Overtaken
<1>3. CASE run' = Off
  BY <1>1, <1>2, <1>3, Times DEF Off, WatchInv, Clocked, Looked, Ahead, Shown
<1>4. CASE run' # Off
  <2>1. \/ run' = [run EXCEPT !.pc = "write", !.text = run'.text]
        \/ run' = [run EXCEPT !.pc = "save"]
    BY <1>4, ReadRows DEF WriteCrm
  <2>2. /\ run'.pc \in {"write", "save"} /\ run'.scope = run.scope
        /\ run'.since = run.since /\ run'.started = run.started
    BY <2>1 DEF TypeInv, Runs
  <2>3. Shown'
    BY <1>1, <2>2 DEF WatchInv, Shown, Due, Theirs, Overtaken
  <2> QED BY <1>1, <1>2, <2>2, <2>3 DEF WatchInv, Clocked, Looked, Ahead
<1> QED BY <1>3, <1>4

\* A change that was overtaken stays so, and what is overtaken was posted before.
LEMMA OvertakenStays ==
    ASSUME TypeInv, NEW q \in Posts, Post(q), NEW p \in Posts, at[p] # None, Overtaken(p)
    PROVE  Overtaken(p)'
<1>1. at[q] = None /\ at' = [at EXCEPT ![q] = now] /\ at \in [Posts -> 1..MaxTime \cup {None}]
  BY DEF Post, TypeInv, TypeOK
<1>2. p # q /\ None \notin Posts /\ On[p] \in Threads /\ shut \in [Threads -> Posts \cup {None}]
  BY <1>1, MonitorAssumption DEF TypeInv, TypeOK
<1>3. shut' \in {shut, [shut EXCEPT ![On[q]] = q], [shut EXCEPT ![On[q]] = None]}
  BY DEF Post
<1>4. shut[On[p]] # p => shut'[On[p]] # p
  BY <1>2, <1>3
<1>5. \A m \in Posts : Theirs(m) => Theirs(m)'
  BY <1>1 DEF Theirs
<1> QED BY <1>4, <1>5 DEF Overtaken

\* The bound that is saved is the start of the run that saves it.
LEMMA SaveWatch == TypeInv /\ WatchInv /\ SaveState => WatchInv'
<1> SUFFICES ASSUME TypeInv, WatchInv, SaveState PROVE WatchInv'
  OBVIOUS
<1>1. /\ run.pc = "save" /\ run' = Off /\ saved' = run.started /\ UNCHANGED <<now, at, shut, told>>
      /\ excused' = excused \cup
            {p \in Posts : at[p] # None /\ (On[p] \notin run.scope \/ at[p] <= run.since)}
  BY DEF SaveState, NextBound
<1>2. NothingMissed'
  <2>1. ASSUME NEW p \in Posts, Theirs(p), at[p] < run.started PROVE p \in told \cup excused' \/ Overtaken(p)
    <3>1. CASE On[p] \in run.scope /\ at[p] > run.since
      BY <1>1, <2>1, <3>1 DEF WatchInv, Shown, Due
    <3>2. CASE On[p] \notin run.scope \/ at[p] <= run.since
      BY <1>1, <2>1, <3>2 DEF Theirs
    <3>3. at[p] \in Nat /\ run.since \in Nat
      BY <2>1, Times DEF Theirs
    <3> QED BY <3>1, <3>2, <3>3
  <2> QED BY <1>1, <2>1 DEF NothingMissed, Theirs, Overtaken
<1>3. Clocked'
  BY <1>1, Times DEF Off, WatchInv, Clocked
<1> QED BY <1>1, <1>2, <1>3 DEF Off, WatchInv, Looked, Ahead, Shown

LEMMA AroundWatch ==
    ASSUME TypeInv, WatchInv, FounderStep \/ Die \/ Tick \/ (\E p \in Posts : Post(p)) \/ UNCHANGED vars
    PROVE  WatchInv'
<1>1. CASE FounderStep \/ UNCHANGED vars
  <2>1. UNCHANGED <<now, at, shut, saved, run, told, excused>>
    BY <1>1, FounderRows DEF vars
  <2> QED BY <2>1 DEF WatchInv, Clocked, Looked, Ahead, Shown, NothingMissed, Due, Theirs, Overtaken
<1>2. CASE Die
  BY <1>2, Times DEF Die, Off, WatchInv, Clocked, Looked, Ahead, Shown, NothingMissed, Theirs, Overtaken
<1>3. CASE Tick
  BY <1>3, Times DEF Tick, WatchInv, Clocked, Looked, Ahead, Shown, NothingMissed, Due, Theirs, Overtaken
<1>4. ASSUME NEW q \in Posts, Post(q) PROVE WatchInv'
  <2>1. /\ at[q] = None /\ at' = [at EXCEPT ![q] = now] /\ at \in [Posts -> 1..MaxTime \cup {None}]
        /\ UNCHANGED <<now, saved, run, told, excused>>
    BY <1>4 DEF Post, TypeInv, TypeOK
  <2>2. ASSUME NEW p \in Posts, at'[p] < now PROVE at'[p] = at[p]
    BY <2>1, <2>2, Times
  <2>3. \A p \in Posts : at'[p] # None => at'[p] \in Nat
    BY <2>1, Times
  <2>4. Looked' /\ Shown' /\ NothingMissed'
    <3>1. ASSUME NEW p \in Posts, Due(p)' PROVE Due(p) /\ (Overtaken(p) => Overtaken(p)')
      BY <2>1, <2>2, <2>3, <3>1, <1>4, OvertakenStays, Times DEF Due, Theirs, WatchInv, Clocked
    <3>2. ASSUME NEW p \in Posts, Theirs(p)', at'[p] < saved
          PROVE  Theirs(p) /\ at[p] < saved /\ (Overtaken(p) => Overtaken(p)')
      BY <2>1, <2>2, <2>3, <3>2, <1>4, OvertakenStays, Times DEF Theirs, WatchInv, Clocked
    <3> QED BY <2>1, <3>1, <3>2 DEF WatchInv, Looked, Shown, NothingMissed
  <2> QED BY <2>1, <2>4 DEF WatchInv, Clocked, Ahead
<1> QED BY <1>1, <1>2, <1>3, <1>4

LEMMA NextWatch == TypeInv /\ WatchInv /\ [Next]_vars => WatchInv'
BY StartWatch, CheckRowWatch, ListOwnWatch, SweepWatch, ReportWatch, WriteWatch, SaveWatch,
   AroundWatch DEF Next, RunStep, FounderStep

\* Whatever others posted before the start of the last complete run was reported,
\* or no run could or should have seen it, or it was a change of state that the
\* fetch did not show any more: across deaths, failing fetches, edits
\* and posts that come in while a run is on its way.
THEOREM NothingMissedCorrect == Spec => []NothingMissed
<1>1. WatchInv => NothingMissed
  BY DEF WatchInv
<1> QED BY <1>1, InitWatch, NextWatch, TypeInvariant, PTL DEF Spec

-----------------------------------------------------------------------------
(* What a row is escalated for.                                              *)

LEMMA InitCause == Init => CauseInv
<1> SUFFICES ASSUME Init PROVE CauseInv
  OBVIOUS
<1>1. EscalatedForCause
  <2>1. \A i \in DOMAIN crm : crm[i].replied = Unset
    BY DEF Init, Row
  <2> QED BY <2>1 DEF EscalatedForCause
<1> QED BY <1>1 DEF Init, Off, CauseInv, LinesStand

LEMMA GroundsGrow ==
    ASSUME NEW c, NEW S, NEW T, S \subseteq T, Grounds(c, S) PROVE Grounds(c, T)
BY DEF Grounds

\* Rows that stay what they are stay justified while reports accumulate.
LEMMA CauseStays ==
    ASSUME EscalatedForCause, UNCHANGED <<crm, shifted>>, told \subseteq told'
    PROVE  EscalatedForCause'
BY DEF EscalatedForCause

LEMMA StartCause ==
    ASSUME TypeInv, CauseInv, NEW since \in Overrides \cup {None}, NEW dry \in BOOLEAN, Start(since, dry)
    PROVE  CauseInv'
<1>1. /\ run'.pc = "rows" /\ run'.jobs = ParseCrm(crm) /\ run'.updates = {}
      /\ UNCHANGED <<crm, told, shifted>>
  BY DEF Start
<1>2. LinesStand'
  BY <1>1, CrmIs, ParseSound DEF LinesStand
<1> QED BY <1>1, <1>2, CauseStays DEF CauseInv

LEMMA CheckRowCause == TypeInv /\ CauseInv /\ CheckRow => CauseInv'
<1> SUFFICES ASSUME TypeInv, CauseInv, CheckRow PROVE CauseInv'
  OBVIOUS
<1>1. PICK job \in run.jobs, seen \in SUBSET Posts, lost \in SUBSET Posts :
               /\ Fetched(job.thread, seen, lost)
               /\ run' = [run EXCEPT !.jobs = @ \ {job}, !.checked = @ \cup {job.thread},
                              !.found = @ \cup seen,
                              !.updates = IF Escalates(job, seen) THEN @ \cup {job.line} ELSE @]
  BY CheckRowIs
<1>2. /\ run.pc = "rows" /\ run'.pc = "rows" /\ run'.jobs = run.jobs \ {job}
      /\ run'.found = run.found \cup seen
      /\ run'.updates = IF Escalates(job, seen) THEN run.updates \cup {job.line} ELSE run.updates
      /\ UNCHANGED <<crm, told, shifted>>
  BY <1>1 DEF CheckRow, TypeInv, Runs
<1>3. EscalatedForCause'
  BY <1>2, CauseStays DEF CauseInv
<1>4. ASSUME ~shifted PROVE LinesStand'
  <2>1. job.line \in DOMAIN crm /\ job.thread \in ToSet(NotesOf(crm[job.line].who))
    BY <1>2, <1>4 DEF CauseInv, LinesStand
  <2>2. Escalates(job, seen) => Grounds(crm[job.line].who, run'.found)
    <3>1. \A p \in seen : On[p] = job.thread
      BY <1>1, FreshIs DEF Fetched, CheckRow, TypeInv, JobsTyped, Jobs
    <3> QED BY <1>2, <2>1, <3>1 DEF Escalates, Grounds
  <2>3. \A i \in run.updates : i \in DOMAIN crm /\ Grounds(crm[i].who, run'.found)
    BY <1>2, <1>4, GroundsGrow DEF CauseInv, LinesStand
  <2>4. \A i \in run'.updates : i \in DOMAIN crm /\ Grounds(crm[i].who, run'.found)
    BY <1>2, <2>1, <2>2, <2>3
  <2> QED BY <1>2, <1>4, <2>4 DEF CauseInv, LinesStand, Grounds
<1> QED BY <1>2, <1>3, <1>4 DEF CauseInv

\* The second pass finds more and updates nothing.
LEMMA LaterCause ==
    ASSUME TypeInv, CauseInv, ListOwn \/ Sweep
    PROVE  CauseInv'
<1>1. /\ run.pc \in {"rows", "sweep"} /\ run'.pc = "sweep" /\ run'.updates = run.updates
      /\ run.found \subseteq run'.found /\ UNCHANGED <<crm, told, shifted>>
  <2>1. CASE ListOwn
    BY <2>1 DEF ListOwn, TypeInv, Runs
  <2>2. CASE Sweep
    <3>1. PICK t \in run.jobs, seen \in SUBSET Posts, lost \in SUBSET Posts :
               run' = [run EXCEPT !.jobs = @ \ {t}, !.checked = @ \cup {t}, !.found = @ \cup seen]
      BY <2>2, SweepIs
    <3> QED BY <2>2, <3>1 DEF Sweep, TypeInv, Runs
  <2> QED BY <2>1, <2>2
<1>2. ASSUME ~shifted, NEW i \in run.updates
      PROVE  i \in DOMAIN crm /\ Grounds(crm[i].who, run'.found)
  BY <1>1, <1>2, GroundsGrow DEF CauseInv, LinesStand
<1> QED BY <1>1, <1>2, CauseStays DEF CauseInv, LinesStand, Grounds

LEMMA ReportCause == TypeInv /\ CauseInv /\ PrintReport => CauseInv'
<1> SUFFICES ASSUME TypeInv, CauseInv, PrintReport PROVE CauseInv'
  OBVIOUS
<1>1. run.pc = "sweep" /\ told \subseteq told' /\ UNCHANGED <<crm, shifted>>
  BY DEF PrintReport
<1>2. CASE run' = Off
  BY <1>1, <1>2, CauseStays DEF Off, CauseInv, LinesStand
<1>3. ASSUME NEW l \in {"read", "save"}, run' = [run EXCEPT !.pc = l], told' = told \cup run.found
      PROVE  CauseInv'
  <2>1. run'.pc = l /\ run'.found = run.found /\ run'.updates = run.updates
    BY <1>3 DEF TypeInv, Runs
  <2> QED BY <1>1, <1>3, <2>1, CauseStays DEF CauseInv, LinesStand, Grounds
<1> QED BY <1>2, <1>3 DEF PrintReport

\* The rows to be written are those of the file, or updated for the run's finds.
LEMMA ReadCause == TypeInv /\ CauseInv /\ ReadCrm => CauseInv'
<1> SUFFICES ASSUME TypeInv, CauseInv, ReadCrm PROVE CauseInv'
  OBVIOUS
<1>1. run.pc = "read" /\ UNCHANGED <<crm, told, shifted>>
  BY DEF ReadCrm
<1>2. CASE run' = Off
  BY <1>1, <1>2, CauseStays DEF Off, CauseInv, LinesStand
<1>3. CASE run' # Off
  <2>1. run'.pc = "write"
    BY <1>3, ReadRows DEF TypeInv, Runs
  <2>2. ASSUME ~shifted, NEW i \in DOMAIN run'.text,
               run'.text[i].status = "engaged", run'.text[i].replied # Unset
        PROVE  Grounds(run'.text[i].who, told)
    <3>1. /\ i \in DOMAIN crm /\ run'.text[i].who = crm[i].who
          /\ run'.text[i] = crm[i] \/ i \in run.updates
      BY <1>3, <2>2, ReadRows
    <3>2. CASE i \in run.updates
      BY <1>1, <2>2, <3>1, <3>2, GroundsGrow DEF CauseInv, LinesStand
    <3>3. CASE run'.text[i] = crm[i]
      BY <2>2, <3>1, <3>3 DEF CauseInv, EscalatedForCause, Grounds
    <3> QED BY <3>1, <3>2, <3>3
  <2> QED BY <1>1, <2>1, <2>2, CauseStays DEF CauseInv, LinesStand, Grounds
<1> QED BY <1>2, <1>3

LEMMA WriteCause == TypeInv /\ CauseInv /\ WriteCrm => CauseInv'
<1> SUFFICES ASSUME TypeInv, CauseInv, WriteCrm PROVE CauseInv'
  OBVIOUS
<1>1. run.pc = "write" /\ crm' = run.text /\ UNCHANGED <<told, shifted>> /\ run'.pc = "save"
  BY DEF WriteCrm, TypeInv, Runs
<1>2. EscalatedForCause'
  BY <1>1 DEF CauseInv, LinesStand, EscalatedForCause, Grounds
<1> QED BY <1>1, <1>2 DEF CauseInv, LinesStand

\* An edit that moves rows during a run sets shifted; between runs no line is
\* remembered.
LEMMA FounderCause == TypeInv /\ CauseInv /\ FounderStep => CauseInv'
<1> SUFFICES ASSUME TypeInv, CauseInv, FounderStep PROVE CauseInv'
  OBVIOUS
<1>1. UNCHANGED <<run, told>> /\ (shifted => shifted')
  <2>1. UNCHANGED <<run, told>>
    BY FounderRows
  <2>2. shifted' = shifted \/ shifted' = (shifted \/ run.pc # "off")
    BY FounderRows
  <2>3. shifted => shifted'
    BY <2>2, Zenon
  <2> QED BY <2>1, <2>3
<1>2. EscalatedForCause'
  <2>1. SUFFICES ASSUME NEW k \in DOMAIN crm', crm'[k].status = "engaged", crm'[k].replied # Unset,
                        ~shifted'
                 PROVE  Grounds(crm'[k].who, told)
    BY <1>1 DEF EscalatedForCause, Grounds
  <2>2. PICK m \in DOMAIN crm : crm'[k] = crm[m]
    BY <2>1, FounderRows
  <2> QED BY <1>1, <2>1, <2>2 DEF CauseInv, EscalatedForCause, Grounds
<1>3. ASSUME ~shifted' PROVE LinesStand'
  <2>1. CASE DOMAIN crm' = DOMAIN crm /\ \A k \in DOMAIN crm : crm'[k].who = crm[k].who
    BY <1>1, <1>3, <2>1 DEF CauseInv, LinesStand, Grounds
  <2>2. CASE run.pc = "off"
    BY <1>1, <2>2 DEF LinesStand
  <2> QED BY <1>3, <2>1, <2>2, FounderRows
<1> QED BY <1>2, <1>3 DEF CauseInv

LEMMA AroundCause ==
    ASSUME TypeInv, CauseInv,
           SaveState \/ Die \/ Tick \/ (\E p \in Posts : Post(p)) \/ UNCHANGED vars
    PROVE  CauseInv'
<1>1. UNCHANGED <<crm, told, shifted>> /\ (run' = Off \/ run' = run)
  BY DEF SaveState, Die, Tick, Post, vars
<1> QED BY <1>1, CauseStays DEF Off, CauseInv, LinesStand, Grounds

LEMMA NextCause == TypeInv /\ CauseInv /\ [Next]_vars => CauseInv'
BY StartCause, CheckRowCause, LaterCause, ReportCause, ReadCause, WriteCause, FounderCause, AroundCause
   DEF Next, RunStep, FounderStep

\* As long as no row was moved during a run, a row is "engaged" by the tool only
\* for a comment of the maintainer's side on one of its threads, in a report.
THEOREM EscalatedForCauseCorrect == Spec => []EscalatedForCause
<1>1. CauseInv => EscalatedForCause
  BY DEF CauseInv
<1> QED BY <1>1, InitCause, NextCause, TypeInvariant, PTL DEF Spec
=============================================================================
