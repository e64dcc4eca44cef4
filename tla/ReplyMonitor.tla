---------------------------- MODULE ReplyMonitor ----------------------------
(* tools/check-replies.py: the daily run that reads the outreach CRM, fetches *)
(* the new posts of every thread it tracks, prints them, moves the rows whose *)
(* maintainer answered to "engaged", and saves the time the run started as    *)
(* the lower bound of the next one.  Between any two of its steps people      *)
(* post, the founder edits crm.md by hand, a fetch fails or the run dies.     *)
(* Times are whole seconds, as in the timestamps the tool compares.           *)
EXTENDS Naturals, Sequences, SequencesExt

CONSTANTS
    Contacts,       \* the handles of the CRM from top to bottom
    Newcomer,       \* a contact the founder may add; its notes have no URL
    Notes,          \* contact -> the threads its notes refer to, in order
    Threads,
    Discussions,    \* the threads that are discussions
    OwnThreads,     \* the threads of the own repository
    Posts,          \* what may be posted: comments and state changes
    On,             \* post -> its thread
    By,             \* post -> "us", "maintainer" or "stranger"
    What,           \* post -> "comment", or the change of state it is
    InitialStatus,  \* contact -> its status when the CRM is first read
    None,
    MaxTime, MaxMishaps, \* bounds: the clock; failures, edits and deaths
    Overrides       \* the values --since is given, besides none

Statuses == {"sent", "silent", "engaged", "committed", "bounce"}

ASSUME MonitorAssumption ==
    /\ Contacts \in Seq(ToSet(Contacts)) /\ Newcomer \notin ToSet(Contacts)
    /\ InitialStatus \in [ToSet(Contacts) -> Statuses] /\ None \notin Nat
    /\ Notes \in [ToSet(Contacts) -> Seq(Threads)]
    /\ Discussions \subseteq Threads /\ OwnThreads \subseteq Threads
    /\ On \in [Posts -> Threads]
    /\ What \in [Posts -> {"comment", "closed", "reopened", "merged"}]
    /\ \A p \in Posts : What[p] = "merged" => On[p] \notin Discussions
    /\ None \notin Posts
    /\ By \in [Posts -> {"us", "maintainer", "stranger"}]
    /\ MaxTime \in Nat \ {0} /\ Overrides \subseteq 0..MaxTime

Comments == {p \in Posts : What[p] = "comment"}
Escalatable == {"sent", "silent"}
Unset == "-"

VARIABLES
    now,        \* the clock
    at,         \* post -> when it was made, None before
    shut,       \* thread -> the post that closed or merged it, None while it is open
    crm,        \* crm.md: its rows from top to bottom
    saved,      \* last_checked of the state file; 0 stands for yesterday
    run,        \* the run in progress
    told,       \* posts some printed report shows, dry runs aside
    excused,    \* posts a run could not see, or was told not to look for
    shifted,    \* has a row been added or removed during a run?
    mishaps     \* failed fetches, edits of crm.md and deaths so far
vars == <<now, at, shut, crm, saved, run, told, excused, shifted, mishaps>>

Row(c, s) == [who |-> c, status |-> s, replied |-> Unset]
Off == [pc |-> "off", since |-> 0, started |-> 0, dry |-> FALSE,
        jobs |-> {}, checked |-> {}, found |-> {}, updates |-> {}, text |-> <<>>, scope |-> {}]

Init ==
    /\ now = 1 /\ saved = 0 /\ at = [p \in Posts |-> None]
    /\ shut = [t \in Threads |-> None]
    /\ crm = [i \in DOMAIN Contacts |-> Row(Contacts[i], InitialStatus[Contacts[i]])]
    /\ run = Off /\ told = {} /\ excused = {} /\ shifted = FALSE
    /\ mishaps = 0

Mishap == mishaps < MaxMishaps /\ mishaps' = mishaps + 1
NotesOf(c) == IF c = Newcomer THEN <<>> ELSE Notes[c]
Active(row) == row.status # "bounce"

\* The rows of the file with their line, the skipped ones left out, and one
\* job for every URL in their notes; the loop takes them from top to bottom.
Lines(file) == {i \in DOMAIN file : Active(file[i])}
JobsOf(i, row) == {[line |-> i, nth |-> k, status |-> row.status, thread |-> NotesOf(row.who)[k]] :
                      k \in DOMAIN NotesOf(row.who)}
ParseCrm(file) == UNION {JobsOf(i, file[i]) : i \in Lines(file)}
NextJob(job) ==
    /\ job \in run.jobs
    /\ \A o \in run.jobs : o.line > job.line \/ (o.line = job.line /\ o.nth >= job.nth)

LoadSince(override) == IF override = None THEN saved ELSE override

\* main: the arguments, the state file and the CRM are read at the start.
Start(override, dry) ==
    /\ run.pc = "off"
    /\ run' = [pc |-> "rows", since |-> LoadSince(override), started |-> now,
               dry |-> dry, jobs |-> ParseCrm(crm), checked |-> {},
               found |-> {}, updates |-> {}, text |-> <<>>,
               scope |-> OwnThreads \cup UNION {ToSet(NotesOf(crm[i].who)) : i \in Lines(crm)}]
    /\ UNCHANGED <<now, at, shut, crm, saved, told, excused, shifted, mishaps>>

\* What the two calls of a fetch that works return: the comments of others after
\* the bound; a discussion's closing while it is closed, whoever closed it; of an
\* issue, the changes of others, without the closings if it was merged.
Since(t) == {p \in Posts : On[p] = t /\ at[p] # None /\ at[p] > run.since}
NewComments(t) == {p \in Since(t) \cap Comments : By[p] # "us"}
NewEvents(t) ==
    LET changes == {p \in Since(t) \ Comments : By[p] # "us"}
    IN IF t \in Discussions THEN Since(t) \cap {shut[t]}
       ELSE {p \in changes : What[p] = "closed" => \A m \in changes : What[m] # "merged"}
Fresh(t) == NewComments(t) \cup NewEvents(t)

\* fetch_thread_comments and fetch_thread_events of one thread; each of the
\* two calls may fail, and a call that fails has returned nothing new.
\* ("lost" is what the failing calls would have shown.)
Fetch(t, lost) ==
    /\ lost \in {{}, Fresh(t), NewComments(t), NewEvents(t)}
    /\ IF lost = {} THEN UNCHANGED mishaps ELSE Mishap
    /\ excused' = excused \cup lost

Escalates_Anyone(job, seen) == job.status \in Escalatable /\ seen # {}
Escalates(job, seen) ==
    /\ job.status \in Escalatable
    /\ \E p \in seen \cap Comments : By[p] = "maintainer"

\* Pass 1: a thread an earlier row had fetched is not looked at again.
CheckRow ==
    /\ run.pc = "rows"
    /\ \E job \in run.jobs :
       /\ NextJob(job)
       /\ IF job.thread \in run.checked
          THEN run' = [run EXCEPT !.jobs = @ \ {job}] /\ UNCHANGED <<mishaps, excused>>
          ELSE \E lost \in SUBSET Fresh(job.thread) :
            LET seen == Fresh(job.thread) \ lost IN
            /\ Fetch(job.thread, lost)
            /\ run' = [run EXCEPT !.jobs = @ \ {job},
                           !.checked = @ \cup {job.thread},
                           !.found = @ \cup seen,
                           !.updates = IF Escalates(job, seen)
                                       THEN @ \cup {job.line} ELSE @]
    /\ UNCHANGED <<now, at, shut, crm, saved, told, shifted>>

\* The two listings of the own repository, issues and discussions; a listing
\* that fails is empty.
ListOwn ==
    /\ run.pc = "rows" /\ run.jobs = {}
    /\ \E missing \in {{}, Discussions, Threads \ Discussions, Threads} :
          LET listed == OwnThreads \ missing IN
          /\ IF missing = {} THEN UNCHANGED mishaps ELSE Mishap
          /\ excused' = excused \cup UNION {Fresh(t) :
                            t \in (OwnThreads \cap missing) \ run.checked}
          /\ run' = [run EXCEPT !.pc = "sweep",
                         !.scope = @ \ ((OwnThreads \cap missing) \ run.checked),
                         !.jobs = listed]
    /\ UNCHANGED <<now, at, shut, crm, saved, told, shifted>>

\* Pass 2: the own threads no row has led to, the discussions after the issues.
Sweep ==
    /\ run.pc = "sweep"
    /\ \E t \in run.jobs :
       /\ t \in Discussions => run.jobs \subseteq Discussions
       /\ IF t \in run.checked
          THEN run' = [run EXCEPT !.jobs = @ \ {t}] /\ UNCHANGED <<mishaps, excused>>
          ELSE \E lost \in SUBSET Fresh(t) :
            /\ Fetch(t, lost)
            /\ run' = [run EXCEPT !.jobs = @ \ {t},
                           !.checked = @ \cup {t},
                           !.found = @ \cup (Fresh(t) \ lost)]
    /\ UNCHANGED <<now, at, shut, crm, saved, told, shifted>>

PrintReport ==
    /\ run.pc = "sweep" /\ run.jobs = {}
    /\ IF run.dry THEN run' = Off /\ UNCHANGED told
       ELSE /\ run' = [run EXCEPT !.pc = IF run.updates = {} THEN "save" ELSE "read"]
            /\ told' = told \cup run.found
    /\ UNCHANGED <<now, at, shut, crm, saved, excused, shifted, mishaps>>

\* update_crm_row: the line as it is now decides, not the row that was parsed.
UpdateRow(row) ==
    [row EXCEPT !.replied = IF @ = Unset THEN "today" ELSE @,
                !.status = IF @ \in Escalatable THEN "engaged" ELSE @]

\* write_crm_updates reads the file again and updates it by line number; a line
\* that is gone ends the run.
ReadCrm ==
    /\ run.pc = "read"
    /\ run' = IF run.updates \subseteq DOMAIN crm
              THEN [run EXCEPT !.pc = "write",
                        !.text = [i \in DOMAIN crm |-> IF i \in run.updates
                                                       THEN UpdateRow(crm[i]) ELSE crm[i]]]
              ELSE Off
    /\ UNCHANGED <<now, at, shut, crm, saved, told, excused, shifted, mishaps>>

\* Then it writes the whole file, over what the founder has changed meanwhile.
WriteCrm ==
    /\ run.pc = "write"
    /\ crm' = run.text
    /\ run' = [run EXCEPT !.pc = "save"]
    /\ UNCHANGED <<now, at, shut, saved, told, excused, shifted, mishaps>>

NextBound_End == now
NextBound == run.started

\* save_state.  What lies outside the run's scope, or in a gap that --since
\* left behind the last run, is not looked for again.
SaveState ==
    /\ run.pc = "save"
    /\ saved' = NextBound /\ run' = Off
    /\ excused' = excused \cup
          {p \in Posts : at[p] # None /\ (\/ On[p] \notin run.scope
                                          \/ at[p] <= run.since)}
    /\ UNCHANGED <<now, at, shut, crm, told, shifted, mishaps>>

----------------------------------------------------------------------------
(* What goes on around the run.                                             *)
\* Somebody comments, or changes the state of the thread: only an open one is
\* closed or merged, only a closed one is reopened.
Post(p) ==
    LET t == On[p] IN
    /\ at[p] = None /\ at' = [at EXCEPT ![p] = now]
    /\ \/ What[p] = "comment" /\ UNCHANGED shut
       \/ /\ What[p] \in {"closed", "merged"} /\ shut[t] = None
          /\ shut' = [shut EXCEPT ![t] = p]
       \/ /\ What[p] = "reopened" /\ shut[t] # None /\ What[shut[t]] = "closed"
          /\ shut' = [shut EXCEPT ![t] = None]
    /\ UNCHANGED <<now, crm, saved, run, told, excused, shifted, mishaps>>
Tick ==
    /\ now < MaxTime /\ now' = now + 1
    /\ UNCHANGED <<at, shut, crm, saved, run, told, excused, shifted, mishaps>>
Edit(file) ==
    /\ Mishap /\ crm' = file
    /\ UNCHANGED <<now, at, shut, saved, run, told, excused>>
FounderSets(i, s) ==
    /\ Edit([crm EXCEPT ![i].status = s]) /\ UNCHANGED shifted
FounderAdds(i) ==
    /\ \A k \in DOMAIN crm : crm[k].who # Newcomer
    /\ Edit(InsertAt(crm, i, Row(Newcomer, "sent")))
    /\ shifted' = (shifted \/ run.pc # "off")
FounderRemoves(i) ==
    /\ Edit(RemoveAt(crm, i)) /\ shifted' = (shifted \/ run.pc # "off")
\* The process is killed, or an exception ends it.
Die ==
    /\ run.pc # "off" /\ Mishap
    /\ run' = Off
    /\ UNCHANGED <<now, at, shut, crm, saved, told, excused, shifted>>

RunStep == CheckRow \/ ListOwn \/ Sweep \/ PrintReport \/ ReadCrm \/ WriteCrm \/ SaveState
Next ==
    \/ \E since \in Overrides \cup {None}, dry \in BOOLEAN : Start(since, dry)
    \/ RunStep
    \/ \E p \in Posts : Post(p)
    \/ Tick
    \/ \E i \in DOMAIN crm, s \in {"committed", "bounce"} : FounderSets(i, s)
    \/ \E i \in DOMAIN crm : FounderAdds(i) \/ FounderRemoves(i)
    \/ Die
Spec == Init /\ [][Next]_vars

----------------------------------------------------------------------------
\* The variables have their types (main's locals, crm.md and the state file).
TypeOK ==
    /\ now \in 1..MaxTime /\ saved \in 0..MaxTime
    /\ at \in [Posts -> 1..MaxTime \cup {None}]
    /\ shut \in [Threads -> Posts \cup {None}]
    /\ crm \in Seq([who : ToSet(Contacts) \cup {Newcomer}, status : Statuses,
                    replied : {Unset, "today"}])
    /\ run.pc \in {"off", "rows", "sweep", "read", "write", "save"}
    /\ run.since \in 0..MaxTime /\ run.started \in 0..MaxTime
    /\ run.checked \subseteq Threads /\ run.found \subseteq Posts
    /\ told \subseteq Posts /\ excused \subseteq Posts

Theirs(p) == at[p] # None /\ By[p] # "us"

\* What the tool shows of a thread is the state it is in: a discussion's changes
\* but the closing that stands, and an issue's closings before it was merged, may
\* be gone when the thread is fetched.
Overtaken(p) ==
    /\ p \notin Comments
    /\ IF On[p] \in Discussions THEN shut[On[p]] # p
       ELSE What[p] = "closed" /\ \E m \in Posts : What[m] = "merged" /\ On[m] = On[p] /\ Theirs(m)

\* What was posted before the start of the last complete run is in a report,
\* unless the thread was out of its scope or could not be fetched, or the change
\* was overtaken: posts that come in while a run is on its way, or whose run dies,
\* are seen by the next (save_state keeps the start of the run, not its end).
NothingMissed ==
    \A p \in Posts : Theirs(p) /\ at[p] < saved => p \in told \cup excused \/ Overtaken(p)

\* A row becomes "engaged" only for a comment of the maintainer's side on one
\* of its own threads that a report has shown, as long as no row was added or
\* removed during a run.
EscalatedForCause ==
    \A i \in DOMAIN crm :
        crm[i].status = "engaged" /\ crm[i].replied # Unset =>
            \/ shifted
            \/ \E p \in told \cap Comments :
                  By[p] = "maintainer" /\ On[p] \in ToSet(NotesOf(crm[i].who))

=============================================================================
