-------------------------- MODULE PatternEvolution --------------------------
(* The loop that rewrites the patterns: tools/propose_evolutions.py turns the *)
(* events of the last days and the growth metrics into proposals;             *)
(* tools/apply_evolutions.py takes back what did not help and then edits,     *)
(* commits, ships and logs one recipe after another; _apply_r_promote.py      *)
(* writes the promoted rules.  A text is the set of the edits it contains,    *)
(* and edits are numbered.  A run may die between any two steps, a command    *)
(* may fail, and midnight may pass.                                           *)
EXTENDS Naturals, Sequences, PatternTools

CONSTANTS
    Gaps,           \* growth gaps: a project and one of its metrics
    PatternOf,      \* gap -> the pattern file its project map names
    Article,        \* the pattern of the article format
    Settings,       \* OM-WORLD-X/config/settings.yaml, in a repository of its own
    Clusters,       \* keys of violation clusters: pattern, section, rule
    Whitelist,      \* the patterns that may be changed
    RollbackAge,    \* days until a promotion is looked at again
    MaxDay, MaxEdits \* bounds

\* The pattern files are all in the private repository.
Targets == Patterns \cup {Settings}

ASSUME EvolutionAssumption ==
    /\ PatternOf \in [Gaps -> Patterns] /\ Article \in Patterns
    /\ Whitelist \subseteq Patterns /\ Settings \notin Patterns
    /\ RollbackAge \in Nat /\ MaxDay \in Nat /\ MaxEdits \in Nat /\ MaxMishaps \in Nat
    /\ None \notin Targets \cup Gaps

VARIABLES
    day,
    proposals,  \* the newest proposals file; None without one
    edits,      \* all edits made so far: target, recipe, day
    file, index, head, \* target -> edits in the working tree; the index; the last commit
    origin,     \* the edits of the pushed Settings
    server,     \* target -> edits in the copy the server runs on
    unmerged,   \* files a conflicting revert has left unmerged
    commits,    \* commit number -> the edits it adds, and those it takes out
    log,        \* auto_apply_log
    run         \* the run of apply_evolutions in progress
vars == <<day, proposals, edits, file, index, head, origin,
          server, unmerged, commits, log, run, mishaps>>

Off == [pc |-> "off", due |-> {}, todo |-> {}, row |-> 0, cur |-> None, sha |-> 0]

Init ==
    /\ day = 0 /\ proposals = None /\ edits = <<>>
    /\ file = [t \in Targets |-> {}] /\ index = file /\ head = file /\ server = file
    /\ origin = {} /\ unmerged = {} /\ commits = <<>> /\ log = <<>>
    /\ run = Off /\ mishaps = 0

repo == <<edits, file, index, head, origin, server, unmerged, commits, log>>

Edits == 1..Len(edits)

----------------------------------------------------------------------------
(* propose_evolutions.py                                                    *)

Proposal(g, r, t) == [gap |-> g, recipe |-> r, target |-> t]

\* A growth metric makes a gap when it is zero, and also when its query fails
\* and returns no row: what _check_growth_gaps returns is any set of gaps.
GrowthGaps == SUBSET Gaps
ForGap(g) == Proposal(g, "R-PROMOTE", PatternOf[g])

\* What the article posts show, of the signals that have a recipe: articles
\* outperform single posts; nobody saves or answers them.  A failing query
\* shows nothing.
ContentSignals == SUBSET {"outperforms", "dead"}
ForArticle(signals) ==
    {Proposal(None, "R-CONFIG", Settings) : s \in signals \cap {"outperforms"}}
        \cup {Proposal(None, "R-ADD-AP", Article) : s \in signals \cap {"dead"}}

\* The clusters with enough violations since their pattern last changed.  The
\* path of the recipe is built from the whole key of the cluster, which is no
\* pattern's name (None).
ActiveClusters == SUBSET Clusters
ForCluster(key) == Proposal(None, "R-ADD-AP", None)

\* main: without events from the server no file is written, and the newest
\* one stays what it was.  (A run has read its proposals at its start, so a
\* file written during the run is one written after it.)
Propose(gaps, signals, clusters) ==
    /\ run.pc = "off"
    /\ proposals' = {ForGap(g) : g \in gaps} \cup ForArticle(signals)
                    \cup {ForCluster(key) : key \in clusters}
    /\ UNCHANGED <<day, repo, run, mishaps>>

----------------------------------------------------------------------------
(* apply_evolutions.py                                                      *)

Promotion(k) == log[k].recipe = "R-PROMOTE" /\ log[k].gap # None
Due(k) == ~log[k].reverted /\ log[k].day + RollbackAge < day

\* check_rollbacks reads the rows that are due before anything else.
StartApply ==
    /\ run.pc = "off"
    /\ run' = [Off EXCEPT !.pc = "rollback", !.due = {k \in DOMAIN log : Due(k)}]
    /\ UNCHANGED <<day, proposals, repo, mishaps>>

\* A promotion whose metric is not above its baseline is reverted; other rows,
\* and metrics that have improved or cannot be queried, are passed over.  The
\* query has no ORDER BY: rows come in any order (recipes too, where the code
\* keeps the order of the file: the model allows more).
CheckRow(k) ==
    /\ run.pc = "rollback" /\ k \in run.due
    /\ \/ /\ Promotion(k)
          /\ run' = [run EXCEPT !.pc = "revert", !.due = @ \ {k}, !.row = k]
       \/ run' = [run EXCEPT !.due = @ \ {k}]
    /\ UNCHANGED <<day, proposals, repo, mishaps>>

\* The text of t without the edits a commit added, and with those it took out.
Of(es, t) == {e \in es : edits[e].target = t}
Undone(c, t, text) == (text \ c.plus) \cup Of(c.minus, t)
Touched(c) == {edits[e].target : e \in c.plus \cup c.minus}

\* git revert of the whole commit, of whatever files it is: refused while a file
\* is unmerged, while the index differs from the last commit or a file of the
\* commit does, and when nothing of the commit is left to undo.
Revertible(c) ==
    /\ unmerged = {} /\ \A t \in Patterns : index[t] = head[t]
    /\ \A t \in Touched(c) : file[t] = head[t]
    /\ \E t \in Touched(c) : Undone(c, t, head[t]) # head[t]
\* It may conflict in a file that has changed since: the other files are then
\* undone in the working tree and in the index, and nothing is committed.
Disturbed(c, t) ==
    \E e \in Of(Edits \ c.plus, t) : e \notin head[t] \/ \E m \in Of(c.plus, t) : e > m

\* _run raises when the command fails, and the row is left as it is.
NotReverted_Unchecked == run' = [run EXCEPT !.pc = "reverted"]
NotReverted == run' = [run EXCEPT !.pc = "rollback"]
GitRevert ==
    /\ run.pc = "revert"
    /\ LET c == commits[log[run.row].sha]
           undo(text, ts) == [t \in Targets |-> IF t \in ts THEN Undone(c, t, text[t]) ELSE text[t]]
       IN
       \/ /\ Revertible(c)
          /\ file' = undo(file, Touched(c)) /\ index' = undo(index, Touched(c))
          /\ head' = undo(head, Touched(c))
          /\ run' = [run EXCEPT !.pc = "reverted"]
          /\ UNCHANGED unmerged
       \/ /\ Revertible(c)
          /\ unmerged' \in SUBSET {t \in Touched(c) : Disturbed(c, t)} \ {{}}
          /\ file' = undo(file, Touched(c) \ unmerged') /\ index' = undo(index, Touched(c) \ unmerged')
          /\ NotReverted /\ UNCHANGED head
       \/ /\ ~Revertible(c)
          /\ NotReverted /\ UNCHANGED <<file, index, head, unmerged>>
    /\ UNCHANGED <<day, proposals, edits, origin, server, commits, log,
                   mishaps>>
LogRevert ==
    /\ run.pc = "reverted"
    /\ log' = [log EXCEPT ![run.row].reverted = TRUE]
    /\ run' = [run EXCEPT !.pc = "rollback"]
    /\ UNCHANGED <<day, proposals, edits, file, index, head, origin, server,
                   unmerged, commits, mishaps>>

\* git has reverted, and reading the new commit or updating the row fails: the
\* exception is caught and the run goes on.
RevertUnlogged ==
    /\ run.pc = "reverted" /\ Mishap
    /\ run' = [run EXCEPT !.pc = "rollback"]
    /\ UNCHANGED <<day, proposals, repo>>

\* _load_proposals: the newest file there is, however old.
LoadProposals ==
    /\ run.pc = "rollback" /\ run.due = {}
    /\ run' = IF proposals \in {None, {}} \/ Len(edits) >= MaxEdits THEN Off
              ELSE [run EXCEPT !.pc = "recipes", !.todo = proposals]
    /\ UNCHANGED <<day, proposals, repo, mishaps>>

ChangedToday_Proposal(p) ==
    \E k \in DOMAIN log : /\ log[k].target = p.target /\ log[k].day = day
                          /\ log[k].gap = p.gap
ChangedToday(p) == \E k \in DOMAIN log : log[k].target = p.target /\ log[k].day = day

\* What keeps the handlers from writing: a target that is not on the list, and
\* a text or marker that is already there; a promotion has no such check.
Present_Committed(p) == \E e \in head[p.target] : edits[e].recipe = p.recipe
Present(p) == \E e \in file[p.target] : edits[e].recipe = p.recipe
apply_r_config(p) == p.recipe = "R-CONFIG" /\ ~Present(p)
apply_r_add_ap(p) == p.recipe = "R-ADD-AP" /\ p.target \in Whitelist /\ ~Present(p)
apply_r_promote(p) == p.recipe = "R-PROMOTE" /\ p.target \in Whitelist
Writable(p) == apply_r_config(p) \/ apply_r_add_ap(p) \/ apply_r_promote(p)

\* One recipe of the file: the quota, then the handler, which writes.
WriteRecipe(p) ==
    /\ run.pc = "recipes" /\ p \in run.todo
    /\ ~ChangedToday(p) /\ Writable(p)
    /\ edits' = Append(edits, [target |-> p.target, recipe |-> p.recipe, day |-> day])
    /\ file' = [file EXCEPT ![p.target] = @ \cup {Len(edits')}]
    /\ run' = [run EXCEPT !.pc = "commit", !.todo = @ \ {p}, !.cur = p]
    /\ UNCHANGED <<day, proposals, index, head, origin, server, unmerged,
                   commits, log, mishaps>>

\* Skipped: by the quota, by the handler, or because the new text, which for a
\* promotion a language model writes, fails one of the checks it goes through.
Checks(p) ==
    CASE p.recipe = "R-CONFIG"  -> {"cron key", "yaml"}
      [] p.recipe = "R-ADD-AP"  -> {"section", "frontmatter"}
      [] p.recipe = "R-PROMOTE" -> {"generate", "lint", "semantic", "dry run"}
SkipRecipe(p) ==
    /\ run.pc = "recipes" /\ p \in run.todo
    /\ ChangedToday(p) \/ ~Writable(p) \/ \E check \in Checks(p) : TRUE
    /\ run' = [run EXCEPT !.todo = @ \ {p}]
    /\ UNCHANGED <<day, proposals, repo, mishaps>>

\* _git_commit: git add of the target, which also ends its conflict, takes what
\* the file holds, also what a run that died had written.
Cur == run.cur
Stage ==
    /\ run.pc = "commit"
    /\ index' = [index EXCEPT ![Cur.target] = file[Cur.target]]
    /\ unmerged' = unmerged \ {Cur.target}
    /\ run' = [run EXCEPT !.pc = "staged"]
    /\ UNCHANGED <<day, proposals, edits, file, head, origin, server, commits,
                   log, mishaps>>

\* git commit names no file: it commits the index of the whole repository, with
\* what earlier runs have staged.
RepoOf(t) == IF t = Settings THEN {Settings} ELSE Patterns
Staged == [plus |-> UNION {index[t] \ head[t] : t \in RepoOf(Cur.target)},
           minus |-> UNION {head[t] \ index[t] : t \in RepoOf(Cur.target)}]
NewSha == Len(commits')
Commit ==
    /\ run.pc = "staged" /\ unmerged \cap RepoOf(Cur.target) = {}
    /\ commits' = Append(commits, Staged)
    /\ head' = [t \in Targets |-> IF t \in RepoOf(Cur.target) THEN index[t] ELSE head[t]]
    /\ run' = [run EXCEPT !.pc = "ship", !.sha = NewSha]
    /\ UNCHANGED <<day, proposals, edits, file, index, origin, server, unmerged,
                   log, mishaps>>

\* git commit is refused while another file of the repository is unmerged; that,
\* or a command that fails, raises an exception that ends the run.
CommitFails ==
    /\ run.pc \in {"commit", "staged"} /\ run' = Off
    /\ IF run.pc = "staged" /\ unmerged \cap RepoOf(Cur.target) # {}
       THEN UNCHANGED mishaps ELSE Mishap
    /\ UNCHANGED <<day, proposals, repo>>

\* rsync of a pattern; push and redeploy of the settings.  A failure of one
\* is noted and the run goes on ("done" are the commands that work).
Ship ==
    /\ run.pc = "ship"
    /\ \E done \in SUBSET {"rsync", "push", "redeploy"} :
        /\ IF done = {"rsync", "push", "redeploy"} THEN UNCHANGED mishaps
           ELSE Mishap
        /\ origin' = IF Cur.target = Settings /\ "push" \in done
                     THEN head[Settings] ELSE origin
        /\ server' =
             [server EXCEPT ![Cur.target] =
                 IF Cur.target = Settings
                 THEN IF "redeploy" \in done THEN origin' ELSE @
                 ELSE IF "rsync" \in done THEN file[Cur.target] ELSE @]
    /\ run' = [run EXCEPT !.pc = "log"]
    /\ UNCHANGED <<day, proposals, edits, file, index, head, unmerged,
                   commits, log>>

\* The baseline is the value in the proposal, the day is that of the row.
LogApply ==
    /\ run.pc = "log"
    /\ log' = Append(log, [day |-> day, target |-> Cur.target,
                           recipe |-> Cur.recipe, sha |-> run.sha,
                           gap |-> Cur.gap, reverted |-> FALSE])
    /\ run' = [run EXCEPT !.pc = "recipes", !.cur = None, !.sha = 0]
    /\ UNCHANGED <<day, proposals, edits, file, index, head, origin, server,
                   unmerged, commits, mishaps>>
EndApply ==
    /\ run.pc = "recipes" /\ run.todo = {} /\ run' = Off
    /\ UNCHANGED <<day, proposals, repo, mishaps>>
Die ==
    /\ run.pc # "off" /\ run' = Off /\ Mishap
    /\ UNCHANGED <<day, proposals, repo>>

----------------------------------------------------------------------------
NextDay ==
    /\ day < MaxDay /\ day' = day + 1
    /\ UNCHANGED <<proposals, repo, run, mishaps>>

ApplyStep ==
    \/ StartApply \/ GitRevert \/ LogRevert \/ RevertUnlogged \/ LoadProposals
    \/ Stage \/ Commit \/ CommitFails \/ Ship \/ LogApply \/ EndApply \/ Die
    \/ \E k \in run.due : CheckRow(k)
    \/ \E p \in run.todo : WriteRecipe(p) \/ SkipRecipe(p)
Next ==
    \/ \E gaps \in GrowthGaps, signals \in ContentSignals, clusters \in ActiveClusters :
          Propose(gaps, signals, clusters)
    \/ ApplyStep
    \/ NextDay
Spec == Init /\ [][Next]_vars

----------------------------------------------------------------------------
\* The variables have their types (the repositories, the log, main's locals).
TypeOK ==
    /\ day \in 0..MaxDay
    /\ edits \in Seq([target : Targets, day : 0..MaxDay,
                      recipe : {"R-CONFIG", "R-ADD-AP", "R-PROMOTE"}])
    /\ \A f \in {file, index, head, server} : f \in [Targets -> SUBSET Edits]
    /\ origin \subseteq Edits /\ unmerged \subseteq Targets
    /\ commits \in Seq([plus : SUBSET Edits, minus : SUBSET Edits])
    /\ \A k \in DOMAIN log : log[k].sha \in DOMAIN commits
    /\ run.pc \in {"off", "rollback", "revert", "reverted", "recipes",
                   "commit", "staged", "ship", "log"}

\* Has the run that made the edit logged it?  A commit's own edit is its last.
Logged(e) ==
    \E k \in DOMAIN log : LET own == commits[log[k].sha].plus IN
        e \in own /\ \A f \in own : f <= e

\* The quota of one change of a target a day (safety rail 2) holds for the
\* edits themselves, also over midnight, unless the first of two was never
\* logged because its run died or its commit was refused.
OneChangeADay ==
    \A e, f \in Edits :
        e < f /\ edits[e].target = edits[f].target /\ edits[e].day = edits[f].day
            => ~Logged(e)

\* A row is marked reverted only when it is a promotion that was due and no edit
\* of its commit, whatever its target, is in a file of the repository any more:
\* whatever was refused, conflicted or died in between.
RevertedIsGone ==
    [][\A k \in DOMAIN log : log'[k].reverted /\ ~log[k].reverted =>
          /\ Promotion(k) /\ Due(k)
          /\ \A t \in Patterns : commits[log[k].sha].plus \cap (file[t] \cup index[t] \cup head[t]) = {}]_vars

\* Is the edit in the commit of a logged promotion?  (Its revert takes it back.)
Adopted(e) == \E k \in DOMAIN log : Promotion(k) /\ e \in commits[log[k].sha].plus

\* The recipes with a fixed text change their target once for good, also after
\* a run that wrote the file and died before it committed or logged; a second
\* time only when the commit of a promotion has taken the first one along.
FixedTextsOnce ==
    \A e, f \in Edits :
        e < f /\ edits[e].target = edits[f].target
              /\ edits[e].recipe = edits[f].recipe
              /\ edits[e].recipe # "R-PROMOTE"
            => Adopted(e)

=============================================================================
