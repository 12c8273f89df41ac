------------------------------ MODULE UClassSync ------------------------------
(***************************************************************************)
(* The UClass collection of jobs/pipeline.py: sync_uclass, which goes       *)
(* through the users with a Moodle connection under the sync_uclass lock,   *)
(* and refresh_uclass_for_user, which an operator starts for one user       *)
(* without that lock.  Both run _sync_uclass_target: they fetch what the    *)
(* web service says, write the tasks row by row, and take every material    *)
(* through download, extraction, brief, deadline scan and its artifact row. *)
(* Each stage is a step, since the other run, the user and the file system  *)
(* act between them.  An operator's repair makes the briefs that are        *)
(* missing from a list of rows it read at its beginning.                    *)
(*                                                                         *)
(* All materials of the model have one file name, course and date, so that  *)
(* their files collide; a content stands for its bytes, its hash and the    *)
(* text in it.  Notices, events and courses are written like the tasks and  *)
(* are left out.                                                            *)
(***************************************************************************)
EXTENDS Naturals, FiniteSets, Sequences

CONSTANTS
  Users,           \* the users that may have a connection
  Global,          \* user 0, who owns what belongs to nobody
  Order,           \* the materials as the answer lists them, each once
  Contents,        \* what a material can be: bytes, hash and text in one
  Deadlines,       \* the contents with a deadline in their text
  ActionEvents,    \* tasks of the calendar, which says whether they are completed
  Assignments,     \* tasks of the courses, which are reported as open for ever
  Poller,          \* sync_uclass, one at a time under its lock
  Refresher,       \* refresh_uclass_for_user
  StaticToken,     \* UCLASS_WS_BASE and UCLASS_WSTOKEN are set
  MaxName,         \* bound: the numbers a file name can get
  MaxStarts,       \* bound: runs, of either kind
  MaxChanges,      \* bound: what the school and the user change
  MaxFaults        \* bound: failures, kills and lost files

ASSUME ConstantsAssumption ==
  /\ Global \notin Users /\ Poller # Refresher
  /\ Deadlines \subseteq Contents
  /\ Order \in Seq({Order[i] : i \in DOMAIN Order})
  /\ \A i, j \in DOMAIN Order : Order[i] = Order[j] => i = j
  /\ {"none", "torn", "bad", "empty"} \intersect Contents = {}
  /\ StaticToken \in BOOLEAN
  /\ MaxName \in Nat /\ MaxStarts \in Nat /\ MaxChanges \in Nat /\ MaxFaults \in Nat

Owners == Users \union {Global}
Materials == {Order[i] : i \in DOMAIN Order}
Runs   == {Poller, Refresher}
Names  == 0 .. MaxName
NoName == MaxName + 1
WsTasks  == ActionEvents \union Assignments
\* a task is known to the web service or was found in a content of a material
TaskIds  == WsTasks \union (Materials \X Deadlines)
Statuses == {"none", "open", "done"}

VARIABLES
  conn,        \* user -> "none", or whether the token of the connection can be read
  \* UClass
  served,      \* material -> the content a download gets
  completed,   \* the tasks the web service reports as completed
  \* the file system and the database
  files,       \* owner -> name -> a content, "none" or "torn"
  artifact,    \* owner -> material -> its row
  tasks,       \* owner -> task -> status
  state,       \* owner -> status of the sync_uclass row
  \* the runs
  pc, todo, user, failed,
  got,         \* the tasks of the answer, with the status it gives them
  left,        \* the materials still to be taken through the stages
  work,        \* the _UClassMaterialState of the material at hand
  briefs,      \* generated_brief_items
  repair,      \* what the repair has listed and not done yet: owner, material, row
  \* history
  pushes,      \* owner -> material -> content -> briefs that were sent
  recorded,    \* the briefs that have been in a row
  outdated,    \* the runs whose row at hand was written by somebody else since they read it
  upset,       \* row updates lost to another run, and files lost
  contested,   \* the files that were lost, or that two runs were to write
  starts, changes, faults

school  == <<conn, served, completed>>
store   == <<files, artifact, tasks, state>>
locals  == <<todo, user, failed, got, left, work, briefs>>
sent    == <<pushes, recorded, outdated, upset, contested>>
history == <<sent, starts, changes, faults>>
vars    == <<school, store, pc, locals, repair, history>>

NoRow  == [path |-> NoName, hash |-> "none", extract |-> "none", brief |-> "none", scan |-> "none"]
NoWork == [m |-> "none", old |-> NoRow, path |-> NoName, hash |-> "none", fresh |-> FALSE,
           payload |-> "none", target |-> NoName,
           text |-> "none", extract |-> "none", brief |-> "none", scan |-> "none"]
\* a row or a download says what the file is: _download_material returns
Obtained(w, n, c, fresh) ==
  [w EXCEPT !.path = n, !.hash = c, !.fresh = fresh, !.payload = "none", !.target = NoName]

Init ==
  /\ conn \in [Users -> {"none", "readable", "unreadable"}]
  /\ served \in [Materials -> Contents] /\ completed = {}
  /\ files = [o \in Owners |-> [n \in Names |-> "none"]]
  /\ artifact = [o \in Owners |-> [m \in Materials |-> NoRow]]
  /\ tasks = [o \in Owners |-> [t \in TaskIds |-> "none"]]
  /\ state = [o \in Owners |-> "none"]
  /\ pc = [p \in Runs |-> "idle"]
  /\ todo = [p \in Runs |-> {}] /\ user = [p \in Runs |-> Global]
  /\ failed = [p \in Runs |-> FALSE] /\ got = [p \in Runs |-> {}]
  /\ left = [p \in Runs |-> <<>>] /\ work = [p \in Runs |-> NoWork]
  /\ briefs = [p \in Runs |-> {}] /\ repair = {}
  /\ pushes = [o \in Owners |-> [m \in Materials |-> [c \in Contents |-> 0]]]
  /\ recorded = {} /\ outdated = {} /\ upset = 0 /\ contested = {}
  /\ starts = 0 /\ changes = 0 /\ faults = 0

-----------------------------------------------------------------------------
(* The environment                                                          *)

Change == changes < MaxChanges /\ changes' = changes + 1
Fault  == faults < MaxFaults /\ faults' = faults + 1

\* another file is put behind the link of the material
Replace(m) ==
  /\ Change
  /\ \E c \in Contents \ {served[m]} : served' = [served EXCEPT ![m] = c]
  /\ UNCHANGED <<conn, completed, store, pc, locals, sent, starts, faults>>

\* a task is handed in, or handed in no longer
Submit(t) ==
  /\ Change
  /\ completed' = IF t \in completed THEN completed \ {t} ELSE completed \union {t}
  /\ UNCHANGED <<conn, served, store, pc, locals, sent, starts, faults>>

\* /done in the chat of o
Done(o, t) ==
  /\ Change
  /\ tasks[o][t] = "open"
  /\ tasks' = [tasks EXCEPT ![o][t] = "done"]
  /\ UNCHANGED <<school, files, artifact, state, pc, locals, sent, starts, faults>>

\* somebody removes a file from the folder
Lose(o, n) ==
  /\ Fault
  /\ files[o][n] # "none"
  /\ files' = [files EXCEPT ![o][n] = "none"]
  /\ upset' = upset + 1
  /\ contested' = contested \union {<<o, n>>}
  /\ UNCHANGED <<school, artifact, tasks, state, pc, locals, pushes, recorded, outdated, starts,
                 changes>>

-----------------------------------------------------------------------------
(* A run and its users                                                      *)

Go(p, place) == pc' = [pc EXCEPT ![p] = place]
\* what p knows of the user it has left
Forget(p) ==
  /\ user' = [user EXCEPT ![p] = Global] /\ got' = [got EXCEPT ![p] = {}]
  /\ left' = [left EXCEPT ![p] = <<>>] /\ work' = [work EXCEPT ![p] = NoWork]
  /\ briefs' = [briefs EXCEPT ![p] = {}]

\* _resolve_uclass_sync_targets
Connected == {u \in Users : conn[u] # "none"}
Targets   == IF Connected = {} /\ StaticToken THEN {Global} ELSE Connected

Begin(p, T) ==
  /\ starts < MaxStarts /\ starts' = starts + 1
  /\ Go(p, "target")
  /\ todo' = [todo EXCEPT ![p] = T] /\ failed' = [failed EXCEPT ![p] = FALSE]
  /\ UNCHANGED <<school, store, user, got, left, work, briefs, sent, changes, faults>>

StartPoller ==
  /\ pc[Poller] = "idle"
  /\ Targets # {}
  /\ Begin(Poller, Targets)

StartRefresher(u) ==
  /\ pc[Refresher] = "idle" /\ repair = {}
  /\ u \in Targets
  /\ Begin(Refresher, {u})

\* nobody to collect for: the row says so
Skip(p, o) ==
  /\ pc[p] = "idle"
  /\ IF p = Poller THEN o = Global /\ Targets = {} ELSE o \in Users \ Targets
  /\ state' = [state EXCEPT ![o] = "skipped"]
  /\ UNCHANGED <<school, files, artifact, tasks, pc, locals, history>>

\* the target of user[p] raised: the loop writes its row and goes on
Fail(p, o) ==
  /\ state' = [state EXCEPT ![o] = "error"]
  /\ failed' = [failed EXCEPT ![p] = TRUE]
  /\ Go(p, "target") /\ Forget(p)

\* _prepare_uclass_target_auth
NextTarget(p, o) ==
  /\ pc[p] = "target"
  /\ o \in todo[p]
  /\ todo' = [todo EXCEPT ![p] = @ \ {o}]
  /\ IF o \in Users /\ conn[o] = "unreadable"
     THEN Fail(p, o)
     ELSE /\ Go(p, "fetch") /\ user' = [user EXCEPT ![p] = o]
          /\ UNCHANGED <<state, failed, got, left, work, briefs>>
  /\ UNCHANGED <<school, files, artifact, tasks, history>>

\* the row of the run: user 0 for sync_uclass, none for a refresh
EndRun(p) ==
  /\ pc[p] = "target" /\ todo[p] = {}
  /\ state' = IF p = Poller
              THEN [state EXCEPT ![Global] = IF failed[p] THEN "error" ELSE "success"]
              ELSE state
  /\ Go(p, "idle") /\ failed' = [failed EXCEPT ![p] = FALSE]
  /\ UNCHANGED <<school, files, artifact, tasks, todo, user, got, left, work, briefs, history>>

-----------------------------------------------------------------------------
(* The answer of the web service                                            *)

FromActionEvents == {<<t, IF t \in completed THEN "done" ELSE "open">> : t \in ActionEvents}
FromAssignments  == {<<t, "open">> : t \in Assignments}
Answered == FromActionEvents \union FromAssignments
\* every material once, whatever in the answer links to it
Offered  == Order

\* an optional function that fails leaves its part of the answer out
Fetch(p) ==
  /\ pc[p] = "fetch"
  /\ \/ /\ got' = [got EXCEPT ![p] = Answered] /\ left' = [left EXCEPT ![p] = Offered]
        /\ UNCHANGED faults
     \/ /\ Fault
        /\ \/ got' = [got EXCEPT ![p] = Answered] /\ left' = [left EXCEPT ![p] = <<>>]
           \/ got' = [got EXCEPT ![p] = {}] /\ left' = [left EXCEPT ![p] = Offered]
  /\ Go(p, IF got'[p] = {} THEN "open" ELSE "persist")
  /\ UNCHANGED <<school, store, todo, user, failed, work, briefs, sent, starts, changes>>

\* upsert_task: an open task does not replace a closed one
Upserted(old, new) == IF old = "done" /\ new = "open" THEN old ELSE new

PersistTask(p, t, status) ==
  /\ pc[p] = "persist"
  /\ <<t, status>> \in got[p]
  /\ got' = [got EXCEPT ![p] = @ \ {<<t, status>>}]
  /\ tasks' = [tasks EXCEPT ![user[p]][t] = Upserted(@, status)]
  /\ Go(p, IF got'[p] = {} THEN "open" ELSE "persist")
  /\ UNCHANGED <<school, files, artifact, state, todo, user, failed, left, work, briefs,
                 history>>

-----------------------------------------------------------------------------
(* A material                                                               *)

Exists(o, n) == n \in Names /\ files[o][n] # "none"
OnFile(p) == files[user[p]]

\* _initialize_uclass_material_state: the metadata of the old row are carried over
Open(p, m) ==
  /\ pc[p] = "open"
  /\ left[p] # <<>> /\ m = Head(left[p])
  /\ left' = [left EXCEPT ![p] = Tail(@)]
  /\ LET row  == artifact[user[p]][m]
         kept == Exists(user[p], row.path)
     IN  work' = [work EXCEPT ![p] =
           [m |-> m, old |-> row, path |-> IF kept THEN row.path ELSE NoName,
            hash |-> IF kept THEN row.hash ELSE "none", fresh |-> FALSE,
            payload |-> "none", target |-> NoName, text |-> "none", extract |-> row.extract,
            brief |-> row.brief, scan |-> row.scan]]
  /\ outdated' = outdated \ {p}
  /\ Go(p, "check")
  /\ UNCHANGED <<school, store, todo, user, failed, got, briefs, pushes, recorded, upset,
                 contested, starts, changes, faults>>

\* _download_material reads the row again: a file that is still there is kept
Check(p) ==
  /\ pc[p] = "check"
  /\ LET row == artifact[user[p]][work[p].m]
     IN  IF row.hash # "none" /\ Exists(user[p], row.path)
         THEN /\ work' = [work EXCEPT ![p] = Obtained(work[p], row.path, row.hash, FALSE)]
              /\ Go(p, "read")
         ELSE Go(p, "request") /\ UNCHANGED work
  /\ UNCHANGED <<school, store, todo, user, failed, got, left, briefs, history>>

Request(p) ==
  /\ pc[p] = "request"
  /\ work' = [work EXCEPT ![p].payload = served[work[p].m]]
  /\ Go(p, "resolve")
  /\ UNCHANGED <<school, store, todo, user, failed, got, left, briefs, history>>

\* mutant: an existing file of that name is taken to be the material
FitsByName(p, n) == TRUE
\* _resolve_collision_target: the first name that is free or has this content
Fits(p, n) == OnFile(p)[n] \in {"none", work[p].payload}
Target(p, n) == Fits(p, n) /\ \A k \in 0 .. n - 1 : ~Fits(p, k)

\* another run is about to write this file
Contended(p, n) ==
  \E q \in Runs \ {p} : pc[q] = "write" /\ user[q] = user[p] /\ work[q].target = n

Resolve(p, n) ==
  /\ pc[p] = "resolve"
  /\ Target(p, n)
  /\ IF OnFile(p)[n] = "none"
     THEN Go(p, "write") /\ work' = [work EXCEPT ![p].target = n]
     ELSE Go(p, "read") /\ work' = [work EXCEPT ![p] = Obtained(work[p], n, work[p].payload, FALSE)]
  /\ contested' = IF Contended(p, n) THEN contested \union {<<user[p], n>>} ELSE contested
  /\ UNCHANGED <<school, store, todo, user, failed, got, left, briefs, pushes, recorded, outdated,
                 upset, starts, changes, faults>>

Write(p) ==
  /\ pc[p] = "write"
  /\ files' = [files EXCEPT ![user[p]][work[p].target] = work[p].payload]
  /\ work' = [work EXCEPT ![p] = Obtained(work[p], work[p].target, work[p].payload, TRUE)]
  /\ Go(p, "read")
  /\ UNCHANGED <<school, artifact, tasks, state, todo, user, failed, got, left, briefs, history>>

\* the download raises: what Open found is kept, and half a file may stay behind
DownloadFails(p) ==
  /\ pc[p] \in {"check", "request", "resolve", "write"}
  /\ Fault
  /\ work' = [work EXCEPT ![p].payload = "none", ![p].target = NoName]
  /\ \/ files' = files
     \/ pc[p] = "write" /\ files' = [files EXCEPT ![user[p]][work[p].target] = "torn"]
  /\ Go(p, "read")
  /\ UNCHANGED <<school, artifact, tasks, state, todo, user, failed, got, left, briefs, sent, starts, changes>>

\* mutant: any file counts as changed
ChangedIfThere(w) == w.hash # "none"
\* content_changed
Changed(w) == w.hash # "none" /\ w.hash # w.old.hash
Readable(p) == Exists(user[p], work[p].path) /\ OnFile(p)[work[p].path] \in Contents

\* _generate_uclass_material_summary_stage: a brief of the text there is, if there is any
Briefs(w, text) ==
  /\ w.path # NoName /\ text # "none"
  /\ w.fresh \/ Changed(w) \/ w.old.brief = "none"

\* the text of a material, and the brief that is made of it
Digest(p, text, extract) ==
  LET w == work[p]
  IN  IF Briefs(w, text)
      THEN /\ work' = [work EXCEPT ![p] = [w EXCEPT !.text = text, !.extract = extract, !.brief = text]]
           /\ briefs' = [briefs EXCEPT ![p] = @ \union {<<w.m, text>>}]
      ELSE /\ work' = [work EXCEPT ![p] = [w EXCEPT !.text = text, !.extract = extract]]
           /\ UNCHANGED briefs

\* _extract_uclass_material_stage, and the excerpt of the old extract where it got nothing
Read(p) ==
  /\ pc[p] = "read"
  /\ LET w       == work[p]
         extract == w.path # NoName /\ (w.fresh \/ Changed(w) \/ w.old.extract \in {"none", "bad"})
         excerpt == IF w.old.extract \in Contents THEN w.old.extract ELSE "none"
     IN  \/ /\ extract /\ Readable(p)
            /\ Digest(p, OnFile(p)[w.path], OnFile(p)[w.path])
            /\ UNCHANGED faults
         \/ /\ extract
            /\ IF Readable(p) THEN Fault ELSE UNCHANGED faults
            /\ Digest(p, excerpt, "bad")
         \/ /\ ~extract
            /\ Digest(p, excerpt, w.extract)
            /\ UNCHANGED faults
  /\ Go(p, "scan")
  /\ UNCHANGED <<school, store, todo, user, failed, got, left, sent, starts, changes>>

\* the dates and the words that make a deadline of a text
DeadlineIn(text) == text \in Deadlines
\* _is_equivalent_existing_task: another material of user 0 has this deadline already
Equivalent(m, c) ==
  /\ tasks[Global][<<m, c>>] = "none"
  /\ \E other \in Materials \ {m} : tasks[Global][<<other, c>>] # "none"

\* _build_material_deadline_scan: a task is written for user 0, whoever's material it is
ScanOwner(p) == Global
Found(p, text) ==
  IF DeadlineIn(text) /\ ~Equivalent(work[p].m, text)
  THEN tasks' = [tasks EXCEPT ![ScanOwner(p)][<<work[p].m, text>>] = Upserted(@, "open")]
  ELSE UNCHANGED tasks

\* _llm_material_deadline_tasks, asked where the dates of a text say nothing: the model finds
\* nothing, or it is blocked or fails; of a file without text nothing can be remembered
Asked(text) == {"bad", IF text = "none" THEN "empty" ELSE text}

\* _should_scan_uclass_material_tasks, which does not ask whether the content changed; the
\* file is read when there is no text yet
Scan(p) ==
  /\ pc[p] = "scan"
  /\ LET w    == work[p]
         scan == w.path # NoName /\ (w.fresh \/ w.old.scan \in {"none", "bad"})
         text == IF w.text = "none" /\ Readable(p) THEN OnFile(p)[w.path] ELSE w.text
     IN  \/ /\ scan
            /\ Found(p, text)
            /\ \E outcome \in IF DeadlineIn(text) THEN {text} ELSE Asked(text) :
                 work' = [work EXCEPT ![p].scan = outcome,
                                      ![p].extract = IF @ = "none" THEN text ELSE @]
         \/ ~scan /\ UNCHANGED <<work, tasks>>
  /\ Go(p, "record")
  /\ UNCHANGED <<school, files, artifact, state, todo, user, failed, got, left, briefs, history>>

\* a row is written while these runs are at it
Rewritten(o, m) == outdated \union {q \in Runs : user[q] = o /\ work[q].m = m}

\* record_artifact writes the whole row, whatever has become of it since Open
Record(p) ==
  /\ pc[p] = "record"
  /\ LET w == work[p]
     IN  /\ artifact' = [artifact EXCEPT ![user[p]][w.m] =
              [path |-> w.path, hash |-> w.hash, extract |-> w.extract, brief |-> w.brief,
               scan |-> w.scan]]
         /\ recorded' = IF w.brief = "none" THEN recorded
                        ELSE recorded \union {<<user[p], w.m, w.brief>>}
         /\ upset' = IF p \in outdated THEN upset + 1 ELSE upset
         /\ outdated' = Rewritten(user[p], w.m) \ {p}
  /\ work' = [work EXCEPT ![p] = NoWork]
  /\ Go(p, "open")
  /\ UNCHANGED <<school, files, tasks, state, todo, user, failed, got, left, briefs, pushes,
                 contested, starts, changes, faults>>

-----------------------------------------------------------------------------
(* The end of a target                                                      *)

\* send_material_brief_push: one message with the briefs of this run, which may not arrive
Push(p) ==
  /\ pc[p] = "open" /\ left[p] = <<>>
  /\ \/ /\ p = Poller /\ briefs[p] # {}
        /\ pushes' = [pushes EXCEPT ![user[p]] =
             [m \in Materials |-> [c \in Contents |->
                pushes[user[p]][m][c] + IF <<m, c>> \in briefs[p] THEN 1 ELSE 0]]]
        /\ UNCHANGED faults
     \/ /\ p = Poller /\ briefs[p] # {} /\ Fault
        /\ UNCHANGED pushes
     \/ (p = Refresher \/ briefs[p] = {}) /\ UNCHANGED <<pushes, faults>>
  /\ Go(p, "finish")
  /\ UNCHANGED <<school, store, locals, recorded, outdated, upset, contested, starts, changes>>

Finish(p) ==
  /\ pc[p] = "finish"
  /\ state' = [state EXCEPT ![user[p]] = "success"]
  /\ Go(p, "target") /\ Forget(p)
  /\ UNCHANGED <<school, files, artifact, tasks, todo, failed, history>>

\* the web service, the database or the extraction raises, outside of the download
Raise(p) ==
  /\ pc[p] \in {"fetch", "persist", "open", "scan", "record", "finish"}
  /\ Fault
  /\ Fail(p, user[p])
  /\ UNCHANGED <<school, files, artifact, tasks, todo, sent, starts, changes>>

\* the process is killed; a file it is writing may be left half written
Kill(p) ==
  /\ pc[p] # "idle"
  /\ Fault
  /\ Go(p, "idle") /\ Forget(p)
  /\ todo' = [todo EXCEPT ![p] = {}] /\ failed' = [failed EXCEPT ![p] = FALSE]
  /\ \/ files' = files
     \/ pc[p] = "write" /\ files' = [files EXCEPT ![user[p]][work[p].target] = "torn"]
  /\ UNCHANGED <<school, artifact, tasks, state, sent, starts, changes>>

-----------------------------------------------------------------------------
(* repair_missing_material_briefs_for_user                                   *)

\* the rows of the user are listed once; those with a brief are left alone.  The operator
\* of the model does one thing at a time: a repair overlaps the collection, not a refresh
StartRepair(o) ==
  /\ repair = {} /\ pc[Refresher] = "idle"
  /\ repair' = {<<o, m, artifact[o][m]>> : m \in {m \in Materials :
                   artifact[o][m] # NoRow /\ artifact[o][m].brief = "none"}}
  /\ UNCHANGED <<school, store, pc, locals, history>>

\* the excerpt of the row, or else what the file says; nothing when it has no text
RepairText(o, row) ==
  IF row.extract \in Contents THEN {row.extract}
  ELSE IF Exists(o, row.path) /\ files[o][row.path] \in Contents THEN {files[o][row.path]}
  ELSE {}

\* _build_material_brief always comes to a brief; the row is written as it was listed,
\* without a path whose file is gone
RepairRow(e) ==
  /\ repair' = repair \ {e}
  /\ LET o == e[1]  m == e[2]  row == e[3]
     IN  \/ /\ RepairText(o, row) = {}
            /\ UNCHANGED <<artifact, recorded, outdated, upset>>
         \/ \E text \in RepairText(o, row) :
              /\ artifact' = [artifact EXCEPT ![o][m] =
                   [row EXCEPT !.path = IF Exists(o, row.path) THEN row.path ELSE NoName,
                               !.extract = text, !.brief = text]]
              /\ recorded' = recorded \union {<<o, m, text>>}
              /\ outdated' = Rewritten(o, m)
              /\ upset' = IF artifact[o][m] # row THEN upset + 1 ELSE upset
  /\ UNCHANGED <<school, files, tasks, state, pc, locals, pushes, contested, starts, changes,
                 faults>>

Environment ==
  \/ \E m \in Materials : Replace(m)
  \/ \E t \in ActionEvents : Submit(t)
  \/ \E o \in Owners, t \in TaskIds : Done(o, t)
  \/ \E o \in Owners, n \in Names : Lose(o, n)

Step(p) ==
  \/ \E o \in Owners : Skip(p, o) \/ NextTarget(p, o)
  \/ EndRun(p) \/ Fetch(p)
  \/ \E t \in WsTasks, s \in Statuses : PersistTask(p, t, s)
  \/ \E m \in Materials : Open(p, m)
  \/ Check(p) \/ Request(p)
  \/ \E n \in Names : Resolve(p, n)
  \/ Write(p) \/ DownloadFails(p) \/ Read(p) \/ Scan(p) \/ Record(p)
  \/ Push(p) \/ Finish(p) \/ Raise(p) \/ Kill(p)

Next ==
  \/ /\ \/ StartPoller
        \/ \E u \in Users : StartRefresher(u)
        \/ \E p \in Runs : Step(p)
        \/ Environment
     /\ UNCHANGED repair
  \/ \E o \in Users : StartRepair(o)
  \/ \E e \in repair : RepairRow(e)

Spec == Init /\ [][Next]_vars

-----------------------------------------------------------------------------
(* Properties                                                               *)

Rows  == [path : Names \union {NoName}, hash : Contents \union {"none"},
          extract : Contents \union {"none", "bad"}, brief : Contents \union {"none"},
          scan : Contents \union {"none", "bad", "empty"}]
Works == [m : Materials \union {"none"}, old : Rows, path : Names \union {NoName},
          hash : Contents \union {"none"}, fresh : BOOLEAN, payload : Contents \union {"none"},
          target : Names \union {NoName}, text : Contents \union {"none"},
          extract : Contents \union {"none", "bad"}, brief : Contents \union {"none"},
          scan : Contents \union {"none", "bad", "empty"}]

\* The values the columns, the folder and the locals of the collection can have.
TypeOK ==
  /\ conn \in [Users -> {"none", "readable", "unreadable"}]
  /\ served \in [Materials -> Contents] /\ completed \subseteq ActionEvents
  /\ artifact \in [Owners -> [Materials -> Rows]]
  /\ files \in [Owners -> [Names -> Contents \union {"none", "torn"}]]
  /\ tasks \in [Owners -> [TaskIds -> Statuses]]
  /\ state \in [Owners -> {"none", "skipped", "error", "success"}]
  /\ pc \in [Runs -> {"idle", "target", "fetch", "persist", "open", "check", "request",
                      "resolve", "write", "read", "scan", "record", "finish"}]
  /\ todo \in [Runs -> SUBSET Owners] /\ user \in [Runs -> Owners]
  /\ failed \in [Runs -> BOOLEAN] /\ got \in [Runs -> SUBSET (WsTasks \X {"open", "done"})]
  /\ left \in [Runs -> Seq(Materials)] /\ work \in [Runs -> Works]
  /\ briefs \in [Runs -> SUBSET (Materials \X Contents)]
  /\ repair \subseteq Users \X Materials \X Rows
  /\ outdated \subseteq Runs
  /\ pushes \in [Owners -> [Materials -> [Contents -> Nat]]]
  /\ upset \in Nat /\ starts \in Nat /\ changes \in Nat /\ faults \in Nat

\* The file a row names holds the bytes whose hash the row has, through downloads that fail,
\* half written files and kills: materials of one name never take each other's file, unless
\* somebody removed it or two runs were about to write it at the same time.
HashOfFile ==
  /\ TypeOK
  /\ \A o \in Owners, m \in Materials :
       LET row == artifact[o][m]
       IN  \/ ~Exists(o, row.path) \/ files[o][row.path] = row.hash
           \/ <<o, row.path>> \in contested

\* A task that was closed, by /done or by the school, is never open again: neither a collection
\* that fetched its answer before the task was closed, nor a deadline scan made once more
\* reopens it.
DoneStays ==
  [][\A o \in Owners, t \in TaskIds : tasks[o][t] = "done" => tasks'[o][t] = "done"]_vars

\* The brief of a content is sent again only after a file was lost or a run overwrote the row
\* of another one: neither failures and kills nor the collections that follow repeat it.  It was
\* written to its row before, which is what keeps a later collection from sending it again.
PushesBounded ==
  \A o \in Owners, m \in Materials, c \in Contents :
    /\ pushes[o][m][c] <= 1 + upset
    /\ pushes[o][m][c] > 0 => <<o, m, c>> \in recorded
===============================================================================
