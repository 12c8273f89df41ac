---------------------------- MODULE UClassSyncProofs ----------------------------
(***************************************************************************)
(* The UClass collection for any users, materials, contents, tasks and      *)
(* number of runs, changes and faults: the file of a row is the one its     *)
(* hash was taken from, a closed task stays closed, a brief that was sent   *)
(* is in a row, and it is sent once and once more per lost row or file.     *)
(***************************************************************************)
EXTENDS UClassSync, SequenceTheorems, TLAPS

Texts  == Contents \union {"none"}
Places == {"idle", "target", "fetch", "persist", "open", "check", "request", "resolve", "write",
           "read", "scan", "record", "finish"}
\* the stages of a material
Stages == {"check", "request", "resolve", "write", "read", "scan", "record"}

\* What a run holds where: nothing between two users, and in the stages a material,
\* the content it has been sent and the file it is to write.
Shape ==
  \A p \in Runs :
    /\ pc[p] \in {"idle", "target"} => briefs[p] = {} /\ work[p].path = NoName
    /\ pc[p] \in Stages => work[p].m \in Materials
    /\ pc[p] \in {"resolve", "write"} => work[p].payload \in Contents
    /\ pc[p] = "write" => work[p].target \in Names

TypeInv == TypeOK /\ Shape

-----------------------------------------------------------------------------
(* Types                                                                    *)

\* A number without a file is no name.
LEMMA NoNameIsNone == NoName \notin Names
BY ConstantsAssumption DEF NoName, Names

\* What the empty row and the empty working state are.
LEMMA EmptyRecords == NoRow \in Rows /\ NoWork \in Works /\ NoWork.path = NoName
BY DEF NoRow, NoWork, Rows, Works

\* The list of the answer holds materials.
LEMMA OfferedIsList == Offered \in Seq(Materials) /\ <<>> \in Seq(Materials)
BY ConstantsAssumption, EmptySeq DEF Offered, Materials

\* The tasks of the answer, each with a status.
LEMMA AnsweredIsTyped == Answered \subseteq WsTasks \X {"open", "done"}
BY DEF Answered, FromActionEvents, FromAssignments, WsTasks

\* What a download returns, in a state of the kind.
LEMMA ObtainedIsWork ==
  ASSUME NEW w \in Works, NEW n \in Names \union {NoName}, NEW c \in Texts, NEW fresh \in BOOLEAN
  PROVE  /\ Obtained(w, n, c, fresh) \in Works
         /\ Obtained(w, n, c, fresh).m = w.m
         /\ Obtained(w, n, c, fresh).path = n /\ Obtained(w, n, c, fresh).hash = c
<1> DEFINE w1 == [w EXCEPT !.path = n]
           w2 == [w1 EXCEPT !.hash = c]
           w3 == [w2 EXCEPT !.fresh = fresh]
           w4 == [w3 EXCEPT !.payload = "none"]
           w5 == [w4 EXCEPT !.target = NoName]
<1>1. Obtained(w, n, c, fresh) = w5
  BY DEF Obtained
<1>2. w1 \in Works /\ w1.m = w.m /\ w1.path = n
  BY DEF Works
<1> HIDE DEF w1
<1>3. w2 \in Works /\ w2.m = w.m /\ w2.path = n /\ w2.hash = c
  BY <1>2 DEF Works, Texts
<1> HIDE DEF w2
<1>4. w3 \in Works /\ w3.m = w.m /\ w3.path = n /\ w3.hash = c
  BY <1>3 DEF Works
<1> HIDE DEF w3
<1>5. w4 \in Works /\ w4.m = w.m /\ w4.path = n /\ w4.hash = c
  BY <1>4 DEF Works
<1> HIDE DEF w4
<1>6. w5 \in Works /\ w5.m = w.m /\ w5.path = n /\ w5.hash = c
  BY <1>5 DEF Works
<1> QED BY <1>1, <1>6

\* What else it leaves as it was.
LEMMA ObtainedKeeps ==
  ASSUME NEW w \in Works, NEW n \in Names \union {NoName}, NEW c \in Texts, NEW fresh \in BOOLEAN
  PROVE  /\ Obtained(w, n, c, fresh).old = w.old /\ Obtained(w, n, c, fresh).brief = w.brief
         /\ fresh = FALSE => Obtained(w, n, c, fresh).fresh = FALSE
<1> DEFINE w1 == [w EXCEPT !.path = n]
           w2 == [w1 EXCEPT !.hash = c]
           w3 == [w2 EXCEPT !.fresh = fresh]
           w4 == [w3 EXCEPT !.payload = "none"]
           w5 == [w4 EXCEPT !.target = NoName]
<1>1. Obtained(w, n, c, fresh) = w5
  BY DEF Obtained
<1>2. w1 \in Works /\ w1.old = w.old /\ w1.brief = w.brief
  BY DEF Works
<1> HIDE DEF w1
<1>3. w2 \in Works /\ w2.old = w.old /\ w2.brief = w.brief
  BY <1>2 DEF Works, Texts
<1> HIDE DEF w2
<1>4. w3 \in Works /\ w3.old = w.old /\ w3.brief = w.brief /\ w3.fresh = fresh
  BY <1>3 DEF Works
<1> HIDE DEF w3
<1>5. w4 \in Works /\ w4.old = w.old /\ w4.brief = w.brief /\ w4.fresh = fresh
  BY <1>4 DEF Works
<1> HIDE DEF w4
<1>6. w5 \in Works /\ w5.old = w.old /\ w5.brief = w.brief /\ w5.fresh = fresh
  BY <1>5 DEF Works
<1> QED BY <1>1, <1>6

\* The initial state is of its type.
LEMMA InitTyped == Init => TypeInv
<1> SUFFICES ASSUME Init PROVE TypeInv
  OBVIOUS
<1>1. TypeOK
  BY EmptyRecords, EmptySeq, ConstantsAssumption DEF Init, TypeOK, Owners, Statuses
<1>2. Shape
  BY EmptyRecords DEF Init, Shape, Stages
<1> QED BY <1>1, <1>2 DEF TypeInv

\* What the school, a user or somebody at the folder does keeps the types.
LEMMA EnvironmentTyped ==
  ASSUME TypeInv, Environment, UNCHANGED repair
  PROVE  TypeInv'
<1> USE DEF TypeInv, TypeOK
<1>1. Shape'
  BY DEF Environment, Replace, Submit, Done, Lose, locals, Shape
<1>2. CASE \E m \in Materials : Replace(m)
  BY <1>1, <1>2 DEF Replace, Change, store, locals, sent
<1>3. CASE \E t \in ActionEvents : Submit(t)
  BY <1>1, <1>3 DEF Submit, Change, store, locals, sent
<1>4. CASE \E o \in Owners, t \in TaskIds : Done(o, t)
  BY <1>1, <1>4 DEF Done, Change, school, locals, sent, Statuses
<1>5. CASE \E o \in Owners, n \in Names : Lose(o, n)
  BY <1>1, <1>5 DEF Lose, Fault, school, locals
<1> QED BY <1>2, <1>3, <1>4, <1>5 DEF Environment

\* A run that leaves a user holds nothing of it.
LEMMA ForgetTyped ==
  ASSUME TypeOK, NEW p \in Runs, Forget(p)
  PROVE  /\ user' \in [Runs -> Owners]
         /\ got' \in [Runs -> SUBSET (WsTasks \X {"open", "done"})]
         /\ left' \in [Runs -> Seq(Materials)] /\ work' \in [Runs -> Works]
         /\ briefs' \in [Runs -> SUBSET (Materials \X Contents)]
         /\ work'[p] = NoWork /\ briefs'[p] = {} /\ user'[p] = Global /\ left'[p] = <<>>
         /\ \A q \in Runs \ {p} : work'[q] = work[q] /\ briefs'[q] = briefs[q]
                                 /\ user'[q] = user[q] /\ left'[q] = left[q]
<1>1. user' \in [Runs -> Owners] /\ user'[p] = Global
  BY DEF TypeOK, Forget, Owners
<1>2. got' \in [Runs -> SUBSET (WsTasks \X {"open", "done"})]
  BY DEF TypeOK, Forget
<1>3. left' \in [Runs -> Seq(Materials)] /\ left'[p] = <<>>
  BY OfferedIsList DEF TypeOK, Forget
<1>4. work' \in [Runs -> Works] /\ work'[p] = NoWork
  BY EmptyRecords DEF TypeOK, Forget
<1>5. briefs' \in [Runs -> SUBSET (Materials \X Contents)] /\ briefs'[p] = {}
  BY DEF TypeOK, Forget
<1>6. \A q \in Runs \ {p} : work'[q] = work[q] /\ briefs'[q] = briefs[q] /\ user'[q] = user[q]
                           /\ left'[q] = left[q]
  BY DEF TypeOK, Forget
<1> QED BY <1>1, <1>2, <1>3, <1>4, <1>5, <1>6

\* A run whose place changes to one where it holds nothing.
LEMMA ForgetShaped ==
  ASSUME TypeOK, Shape, NEW p \in Runs, NEW place \in {"idle", "target"}, Go(p, place), Forget(p)
  PROVE  Shape'
<1> SUFFICES ASSUME NEW q \in Runs
             PROVE  /\ pc'[q] \in {"idle", "target"} => briefs'[q] = {} /\ work'[q].path = NoName
                    /\ pc'[q] \in Stages => work'[q].m \in Materials
                    /\ pc'[q] \in {"resolve", "write"} => work'[q].payload \in Contents
                    /\ pc'[q] = "write" => work'[q].target \in Names
  BY DEF Shape
<1>1. pc'[p] = place /\ \A r \in Runs \ {p} : pc'[r] = pc[r]
  BY DEF Go, TypeOK
<1>2. CASE q = p
  BY <1>1, <1>2, ForgetTyped, EmptyRecords DEF Stages
<1>3. CASE q # p
  BY <1>1, <1>3, ForgetTyped DEF Shape
<1> QED BY <1>2, <1>3

\* The error of a target keeps the types.
LEMMA FailTyped ==
  ASSUME TypeInv, UNCHANGED repair, NEW p \in Runs, NEW o \in Owners, Fail(p, o),
         todo' \in [Runs -> SUBSET Owners], faults' \in Nat,
         UNCHANGED <<school, files, artifact, tasks, sent, starts, changes>>
  PROVE  TypeInv'
<1>1. Go(p, "target") /\ Forget(p)
  BY DEF Fail
<1>2. Shape'
  BY <1>1, ForgetShaped DEF TypeInv
<1>3. state' \in [Owners -> {"none", "skipped", "error", "success"}]
  BY DEF Fail, TypeInv, TypeOK
<1>4. failed' \in [Runs -> BOOLEAN] /\ pc' \in [Runs -> Places]
  BY <1>1 DEF Fail, Go, TypeInv, TypeOK, Places
<1>5. TypeOK'
  BY <1>1, <1>3, <1>4, ForgetTyped DEF TypeInv, TypeOK, Places, school, sent
<1> QED BY <1>2, <1>5 DEF TypeInv

\* Runs begin and end, and go from one user to the next.
LEMMA UsersTyped ==
  ASSUME TypeInv, UNCHANGED repair,
         \/ StartPoller
         \/ \E u \in Users : StartRefresher(u)
         \/ \E p \in Runs : EndRun(p) \/ \E o \in Owners : Skip(p, o) \/ NextTarget(p, o)
  PROVE  TypeInv'
<1> USE DEF TypeInv, TypeOK
<1>1. CASE StartPoller \/ \E u \in Users : StartRefresher(u)
  <2>1. PICK p \in Runs, T \in SUBSET Owners : Begin(p, T) /\ pc[p] = "idle"
    BY <1>1 DEF StartPoller, StartRefresher, Runs, Targets, Connected, Owners
  <2>2. TypeOK'
    BY <2>1 DEF Begin, Go, school, store, sent
  <2>3. Shape'
    BY <2>1 DEF Begin, Go, Shape, store, Stages
  <2> QED BY <2>2, <2>3
<1>2. ASSUME NEW p \in Runs, NEW o \in Owners, Skip(p, o)
      PROVE  TypeInv'
  <2>1. TypeOK'
    BY <1>2 DEF Skip, school, locals, history, sent
  <2>2. Shape'
    BY <1>2 DEF Skip, Shape, locals
  <2> QED BY <2>1, <2>2
<1>3. ASSUME NEW p \in Runs, EndRun(p)
      PROVE  TypeInv'
  <2>1. TypeOK'
    BY <1>3 DEF EndRun, Go, school, history, sent, Owners
  <2>2. Shape'
    BY <1>3 DEF EndRun, Go, Shape, Stages
  <2> QED BY <2>1, <2>2
<1>4. ASSUME NEW p \in Runs, NEW o \in Owners, NextTarget(p, o)
      PROVE  TypeInv'
  <2>1. CASE o \in Users /\ conn[o] = "unreadable"
    <3>1. Fail(p, o) /\ todo' = [todo EXCEPT ![p] = @ \ {o}]
          /\ UNCHANGED <<school, files, artifact, tasks, history>>
      BY <1>4, <2>1 DEF NextTarget
    <3>2. todo' \in [Runs -> SUBSET Owners] /\ faults' \in Nat
      BY <3>1 DEF history
    <3> QED BY <3>1, <3>2, FailTyped DEF history
  <2>2. CASE ~(o \in Users /\ conn[o] = "unreadable")
    <3>1. Go(p, "fetch")
      BY <1>4, <2>2 DEF NextTarget
    <3>2. todo' \in [Runs -> SUBSET Owners] /\ user' \in [Runs -> Owners]
          /\ pc' \in [Runs -> Places]
      <4>1. todo[p] \ {o} \in SUBSET Owners
        OBVIOUS
      <4>2. todo' \in [Runs -> SUBSET Owners]
        BY <1>4, <4>1 DEF NextTarget
      <4>3. user' \in [Runs -> Owners]
        BY <1>4, <2>2 DEF NextTarget
      <4>4. pc' \in [Runs -> Places]
        BY <3>1 DEF Go, Places
      <4> QED BY <4>2, <4>3, <4>4
    <3>3. UNCHANGED <<school, files, artifact, tasks, state, failed, got, left, work, briefs, history>>
      BY <1>4, <2>2 DEF NextTarget
    <3>4. TypeOK'
      BY <3>2, <3>3 DEF Places, school, history, sent
    <3>5. Shape'
      BY <3>1, <3>3 DEF Go, Shape, Stages
    <3> QED BY <3>4, <3>5
  <2> QED BY <2>1, <2>2
<1> QED BY <1>1, <1>2, <1>3, <1>4

\* The answer of the web service, and the row of a task.
LEMMA AnswerTyped ==
  ASSUME TypeInv, UNCHANGED repair, NEW p \in Runs,
         Fetch(p) \/ \E t \in WsTasks, s \in Statuses : PersistTask(p, t, s)
  PROVE  TypeInv'
<1> USE DEF TypeInv, TypeOK
<1>1. CASE Fetch(p)
  <2>1. got' \in [Runs -> SUBSET (WsTasks \X {"open", "done"})]
    BY <1>1, AnsweredIsTyped DEF Fetch
  <2>2. left' \in [Runs -> Seq(Materials)]
    BY <1>1, OfferedIsList DEF Fetch
  <2>3. pc' \in [Runs -> Places] /\ faults' \in Nat
    BY <1>1 DEF Fetch, Go, Fault, Places
  <2>4. TypeOK'
    BY <1>1, <2>1, <2>2, <2>3 DEF Fetch, Places, school, store, sent
  <2>5. Shape'
    BY <1>1 DEF Fetch, Go, Shape, Stages
  <2> QED BY <2>4, <2>5
<1>2. ASSUME NEW t \in WsTasks, NEW s \in Statuses, PersistTask(p, t, s)
      PROVE  TypeInv'
  <2>1. TypeOK'
    BY <1>2 DEF PersistTask, Go, Upserted, school, history, sent, TaskIds, Statuses
  <2>2. Shape'
    BY <1>2 DEF PersistTask, Go, Shape, Stages
  <2> QED BY <2>1, <2>2
<1> QED BY <1>1, <1>2

\* A run goes on to the next stage of a material with a new working state.
LEMMA StageTyped ==
  ASSUME TypeInv, UNCHANGED repair, NEW p \in Runs, NEW w \in Works, NEW place \in Stages,
         work' = [work EXCEPT ![p] = w], Go(p, place), w.m \in Materials,
         place \in {"resolve", "write"} => w.payload \in Contents,
         place = "write" => w.target \in Names,
         files' \in [Owners -> [Names -> Contents \union {"none", "torn"}]],
         tasks' \in [Owners -> [TaskIds -> Statuses]],
         left' \in [Runs -> Seq(Materials)], briefs' \in [Runs -> SUBSET (Materials \X Contents)],
         \A q \in Runs \ {p} : briefs'[q] = briefs[q],
         faults' \in Nat, outdated' = outdated \/ outdated' = outdated \ {p},
         UNCHANGED <<school, artifact, state, todo, user, failed, got, pushes, upset, starts,
                     changes>>
  PROVE  TypeInv'
<1>1. pc' \in [Runs -> Places] /\ work' \in [Runs -> Works]
  BY DEF TypeInv, TypeOK, Go, Places, Stages
<1>2. TypeOK'
  BY <1>1 DEF TypeInv, TypeOK, Places, school
<1>3. Shape'
  <2> SUFFICES ASSUME NEW q \in Runs
               PROVE  /\ pc'[q] \in {"idle", "target"} => briefs'[q] = {} /\ work'[q].path = NoName
                      /\ pc'[q] \in Stages => work'[q].m \in Materials
                      /\ pc'[q] \in {"resolve", "write"} => work'[q].payload \in Contents
                      /\ pc'[q] = "write" => work'[q].target \in Names
    BY DEF Shape
  <2>1. CASE q = p
    <3>1. pc'[q] = place /\ work'[q] = w
      BY <2>1 DEF TypeInv, TypeOK, Go
    <3> QED BY <3>1 DEF Stages
  <2>2. CASE q # p
    <3>1. pc'[q] = pc[q] /\ work'[q] = work[q] /\ briefs'[q] = briefs[q]
      BY <2>2 DEF TypeInv, TypeOK, Go
    <3> QED BY <3>1 DEF TypeInv, Shape
  <2> QED BY <2>1, <2>2
<1> QED BY <1>2, <1>3 DEF TypeInv

\* The row of a material of the run.
LEMMA RowOfMaterial ==
  ASSUME TypeInv, NEW p \in Runs, NEW m \in Materials
  PROVE  artifact[user[p]][m] \in Rows
BY DEF TypeInv, TypeOK

\* What the stages that download do.
LEMMA DownloadTyped ==
  ASSUME TypeInv, UNCHANGED repair, NEW p \in Runs,
         \/ \E m \in Materials : Open(p, m)
         \/ Check(p) \/ Request(p)
         \/ \E n \in Names : Resolve(p, n)
         \/ Write(p) \/ DownloadFails(p)
  PROVE  TypeInv'
<1>1. /\ files \in [Owners -> [Names -> Contents \union {"none", "torn"}]]
      /\ tasks \in [Owners -> [TaskIds -> Statuses]]
      /\ left \in [Runs -> Seq(Materials)] /\ briefs \in [Runs -> SUBSET (Materials \X Contents)]
      /\ faults \in Nat /\ work \in [Runs -> Works] /\ user[p] \in Owners
  BY DEF TypeInv, TypeOK
<1>2. work[p] \in Works /\ (pc[p] \in Stages => work[p].m \in Materials)
  BY <1>1 DEF TypeInv, Shape
<1>3. ASSUME NEW m \in Materials, Open(p, m)
      PROVE  TypeInv'
  <2> DEFINE row == artifact[user[p]][m]
             kept == Exists(user[p], row.path)
             w == [m |-> m, old |-> row, path |-> IF kept THEN row.path ELSE NoName,
                   hash |-> IF kept THEN row.hash ELSE "none", fresh |-> FALSE,
                   payload |-> "none", target |-> NoName, text |-> "none",
                   extract |-> row.extract, brief |-> row.brief, scan |-> row.scan]
  <2>1. w \in Works /\ w.m \in Materials
    <3>1. row \in Rows
      BY RowOfMaterial
    <3> HIDE DEF row, kept
    <3> QED BY <3>1 DEF Rows, Works
  <2>2. work' = [work EXCEPT ![p] = w] /\ Go(p, "check")
    BY <1>3 DEF Open
  <2>3. left' \in [Runs -> Seq(Materials)]
    <3>1. left[p] \in Seq(Materials) /\ left[p] # <<>> /\ left' = [left EXCEPT ![p] = Tail(left[p])]
      BY <1>1, <1>3 DEF Open
    <3>2. Tail(left[p]) \in Seq(Materials)
      BY <3>1, HeadTailProperties
    <3> QED BY <1>1, <3>1, <3>2
  <2>4. /\ UNCHANGED <<school, files, tasks, artifact, state, todo, user, failed, got, briefs,
                    pushes, upset, starts, changes, faults>>
        /\ outdated' = outdated \ {p}
    BY <1>3 DEF Open, store, history, sent
  <2> HIDE DEF w
  <2> QED BY <1>1, <2>1, <2>2, <2>3, <2>4, StageTyped DEF Stages
<1>4. CASE Check(p)
  <2> DEFINE row == artifact[user[p]][work[p].m]
  <2>1. pc[p] = "check" /\ work[p].m \in Materials
    BY <1>2, <1>4 DEF Check, Stages
  <2>2. row \in Rows
    BY <2>1, RowOfMaterial
  <2>3. UNCHANGED <<school, files, tasks, artifact, state, todo, user, failed, got, left, briefs,
                    pushes, outdated, upset, starts, changes, faults>>
    BY <1>4 DEF Check, store, history, sent
  <2>4. CASE row.hash # "none" /\ Exists(user[p], row.path)
    <3> DEFINE w == Obtained(work[p], row.path, row.hash, FALSE)
    <3>1. work' = [work EXCEPT ![p] = w] /\ Go(p, "read")
      BY <1>4, <2>4 DEF Check
    <3>2. w \in Works /\ w.m \in Materials
      <4>1. row.path \in Names \union {NoName} /\ row.hash \in Texts
        BY <2>2 DEF Rows, Texts
      <4> HIDE DEF row
      <4> QED BY <1>2, <2>1, <4>1, ObtainedIsWork
    <3> HIDE DEF w
    <3> QED BY <1>1, <2>3, <3>1, <3>2, StageTyped DEF Stages
  <2>5. CASE ~(row.hash # "none" /\ Exists(user[p], row.path))
    <3>1. work' = [work EXCEPT ![p] = work[p]] /\ Go(p, "request")
      BY <1>1, <1>4, <2>5 DEF Check
    <3> QED BY <1>1, <1>2, <2>1, <2>3, <3>1, StageTyped DEF Stages
  <2> QED BY <2>4, <2>5
<1>5. CASE Request(p)
  <2> DEFINE w == [work[p] EXCEPT !.payload = served[work[p].m]]
  <2>1. pc[p] = "request" /\ work[p].m \in Materials
    BY <1>2, <1>5 DEF Request, Stages
  <2>2. served[work[p].m] \in Contents
    BY <2>1 DEF TypeInv, TypeOK
  <2>3. w \in Works /\ w.m \in Materials /\ w.payload \in Contents
    BY <1>2, <2>1, <2>2 DEF Works
  <2>4. work' = [work EXCEPT ![p] = w] /\ Go(p, "resolve")
    BY <1>1, <1>5 DEF Request
  <2>5. UNCHANGED <<school, files, tasks, artifact, state, todo, user, failed, got, left, briefs,
                    pushes, outdated, upset, starts, changes, faults>>
    BY <1>5 DEF Request, store, history, sent
  <2> HIDE DEF w
  <2> QED BY <1>1, <2>3, <2>4, <2>5, StageTyped DEF Stages
<1>6. ASSUME NEW n \in Names, Resolve(p, n)
      PROVE  TypeInv'
  <2>1. pc[p] = "resolve" /\ work[p].m \in Materials /\ work[p].payload \in Contents
    BY <1>2, <1>6 DEF Resolve, Stages, TypeInv, Shape
  <2>2. UNCHANGED <<school, files, tasks, artifact, state, todo, user, failed, got, left, briefs,
                    pushes, outdated, upset, starts, changes, faults>>
    BY <1>6 DEF Resolve, store
  <2>3. CASE OnFile(p)[n] = "none"
    <3> DEFINE w == [work[p] EXCEPT !.target = n]
    <3>1. w \in Works /\ w.m \in Materials /\ w.payload \in Contents /\ w.target \in Names
      BY <1>2, <2>1 DEF Works
    <3>2. work' = [work EXCEPT ![p] = w] /\ Go(p, "write")
      BY <1>1, <1>6, <2>3 DEF Resolve
    <3> HIDE DEF w
    <3> QED BY <1>1, <2>2, <3>1, <3>2, StageTyped DEF Stages
  <2>4. CASE OnFile(p)[n] # "none"
    <3> DEFINE w == Obtained(work[p], n, work[p].payload, FALSE)
    <3>1. w \in Works /\ w.m \in Materials
      <4>1. n \in Names \union {NoName} /\ work[p].payload \in Texts /\ FALSE \in BOOLEAN
        BY <2>1 DEF Texts
      <4> QED BY <1>2, <2>1, <4>1, ObtainedIsWork
    <3>2. work' = [work EXCEPT ![p] = w] /\ Go(p, "read")
      BY <1>6, <2>4 DEF Resolve
    <3> HIDE DEF w
    <3> QED BY <1>1, <2>2, <3>1, <3>2, StageTyped DEF Stages
  <2> QED BY <2>3, <2>4
<1>7. CASE Write(p)
  <2> DEFINE w == Obtained(work[p], work[p].target, work[p].payload, TRUE)
  <2>1. pc[p] = "write" /\ work[p].m \in Materials /\ work[p].payload \in Contents
        /\ work[p].target \in Names
    BY <1>2, <1>7 DEF Write, Stages, TypeInv, Shape
  <2>2. w \in Works /\ w.m \in Materials
    <3>1. work[p].target \in Names \union {NoName} /\ work[p].payload \in Texts
          /\ TRUE \in BOOLEAN
      BY <2>1 DEF Texts
    <3> QED BY <1>2, <2>1, <3>1, ObtainedIsWork
  <2>3. work' = [work EXCEPT ![p] = w] /\ Go(p, "read")
    BY <1>7 DEF Write
  <2>4. files' \in [Owners -> [Names -> Contents \union {"none", "torn"}]]
    BY <1>1, <1>7, <2>1 DEF Write
  <2>5. UNCHANGED <<school, tasks, artifact, state, todo, user, failed, got, left, briefs,
                    pushes, outdated, upset, starts, changes, faults>>
    BY <1>7 DEF Write, history, sent
  <2> HIDE DEF w
  <2> QED BY <1>1, <2>2, <2>3, <2>4, <2>5, StageTyped DEF Stages
<1>8. CASE DownloadFails(p)
  <2> DEFINE w1 == [work[p] EXCEPT !.payload = "none"]
             w == [w1 EXCEPT !.target = NoName]
  <2>1. pc[p] \in {"check", "request", "resolve", "write"} /\ work[p].m \in Materials
    BY <1>2, <1>8 DEF DownloadFails, Stages
  <2>2. work' = [work EXCEPT ![p] = w] /\ Go(p, "read")
    BY <1>1, <1>8 DEF DownloadFails
  <2>3. w1 \in Works /\ w1.m \in Materials
    BY <1>2, <2>1 DEF Works
  <2>4. w \in Works /\ w.m \in Materials
    <3> HIDE DEF w1
    <3> QED BY <2>3 DEF Works
  <2>5. files' \in [Owners -> [Names -> Contents \union {"none", "torn"}]]
    <3>1. CASE files' = files
      BY <1>1, <3>1
    <3>2. CASE files' = [files EXCEPT ![user[p]][work[p].target] = "torn"]
      BY <1>1, <3>2
    <3> QED BY <1>8, <3>1, <3>2 DEF DownloadFails
  <2>6. faults' \in Nat
    BY <1>1, <1>8 DEF DownloadFails, Fault
  <2>7. UNCHANGED <<school, tasks, artifact, state, todo, user, failed, got, left, briefs,
                    pushes, outdated, upset, starts, changes>>
    BY <1>8 DEF DownloadFails, sent
  <2> HIDE DEF w, w1
  <2> QED BY <1>1, <2>2, <2>4, <2>5, <2>6, <2>7, StageTyped DEF Stages
<1> QED BY <1>3, <1>4, <1>5, <1>6, <1>7, <1>8

\* The text of a material is put into the working state, and its brief into the list
\* of the run when it is new.
LEMMA DigestKeeps ==
  ASSUME TypeInv, NEW p \in Runs, work[p].m \in Materials,
         NEW text \in Texts, NEW extract \in Texts \union {"bad"}, Digest(p, text, extract)
  PROVE  \E w \in Works :
           /\ work' = [work EXCEPT ![p] = w]
           /\ w.m = work[p].m /\ w.path = work[p].path /\ w.hash = work[p].hash
           /\ briefs' \in [Runs -> SUBSET (Materials \X Contents)]
           /\ \A q \in Runs \ {p} : briefs'[q] = briefs[q]
           /\ w.old = work[p].old /\ w.fresh = work[p].fresh
           /\ \/ briefs'[p] = briefs[p] /\ w.brief = work[p].brief
              \/ /\ briefs'[p] = briefs[p] \union {<<work[p].m, text>>} /\ w.brief = text
                 /\ Briefs(work[p], text)
<1> DEFINE w == work[p]
           w1 == [w EXCEPT !.text = text]
           w2 == [w1 EXCEPT !.extract = extract]
           w3 == [w2 EXCEPT !.brief = text]
<1>1. work \in [Runs -> Works] /\ briefs \in [Runs -> SUBSET (Materials \X Contents)]
      /\ w \in Works /\ w.m \in Materials
  BY DEF TypeInv, TypeOK
<1>2. w1 \in Works /\ w1.m = w.m /\ w1.path = w.path /\ w1.hash = w.hash
      /\ w1.old = w.old /\ w1.fresh = w.fresh /\ w1.brief = w.brief
  <2> HIDE DEF w
  <2> QED BY <1>1 DEF Works, Texts
<1>3. w2 \in Works /\ w2.m = w.m /\ w2.path = w.path /\ w2.hash = w.hash
      /\ w2.old = w.old /\ w2.fresh = w.fresh /\ w2.brief = w.brief
  <2> HIDE DEF w, w1
  <2> QED BY <1>2 DEF Works, Texts
<1>4. w3 \in Works /\ w3.m = w.m /\ w3.path = w.path /\ w3.hash = w.hash
      /\ w3.old = w.old /\ w3.fresh = w.fresh /\ w3.brief = text
  <2> HIDE DEF w, w1, w2
  <2> QED BY <1>3 DEF Works, Texts
<1>5. CASE Briefs(w, text)
  <2>1. work' = [work EXCEPT ![p] = w3] /\ briefs' = [briefs EXCEPT ![p] = @ \union {<<w.m, text>>}]
    BY <1>5 DEF Digest
  <2>2. text \in Contents
    BY <1>5 DEF Briefs, Texts
  <2>3. briefs[p] \union {<<w.m, text>>} \in SUBSET (Materials \X Contents)
    BY <1>1, <2>2
  <2>4. briefs' \in [Runs -> SUBSET (Materials \X Contents)]
        /\ briefs'[p] = briefs[p] \union {<<w.m, text>>}
        /\ \A q \in Runs \ {p} : briefs'[q] = briefs[q]
    <3> HIDE DEF w
    <3> QED BY <1>1, <2>1, <2>3
  <2> HIDE DEF w3
  <2> QED BY <1>4, <1>5, <2>1, <2>4
<1>6. CASE ~Briefs(w, text)
  <2>1. work' = [work EXCEPT ![p] = w2] /\ briefs' = briefs
    BY <1>6 DEF Digest
  <2> HIDE DEF w2
  <2> QED BY <1>1, <1>3, <2>1
<1> QED BY <1>5, <1>6

\* The text of a file that can be read.
LEMMA FileText ==
  ASSUME TypeInv, NEW p \in Runs, Readable(p)
  PROVE  OnFile(p)[work[p].path] \in Contents
BY DEF Readable

\* How the text of a material is come by.
LEMMA ReadDigests ==
  ASSUME TypeInv, NEW p \in Runs, Read(p)
  PROVE  \E text \in Texts, extract \in Texts \union {"bad"} : Digest(p, text, extract)
<1> DEFINE w == work[p]
           excerpt == IF w.old.extract \in Contents THEN w.old.extract ELSE "none"
<1>1. excerpt \in Texts /\ w.extract \in Texts \union {"bad"}
  <2>1. w \in Works
    BY DEF TypeInv, TypeOK
  <2> HIDE DEF w
  <2> QED BY <2>1 DEF Works, Texts
<1>2. \/ Readable(p) /\ Digest(p, OnFile(p)[w.path], OnFile(p)[w.path])
      \/ Digest(p, excerpt, "bad")
      \/ Digest(p, excerpt, w.extract)
  BY DEF Read
<1>3. Readable(p) => OnFile(p)[w.path] \in Texts
  BY FileText DEF Texts
<1> HIDE DEF w, excerpt
<1>4. "bad" \in Texts \union {"bad"}
  OBVIOUS
<1>5. CASE Readable(p) /\ Digest(p, OnFile(p)[w.path], OnFile(p)[w.path])
  BY <1>3, <1>5
<1>6. CASE Digest(p, excerpt, "bad")
  BY <1>1, <1>4, <1>6
<1>7. CASE Digest(p, excerpt, w.extract)
  BY <1>1, <1>7
<1> QED BY <1>2, <1>5, <1>6, <1>7

\* What the scan leaves in the working state.
LEMMA ScanKeeps ==
  ASSUME TypeInv, NEW p \in Runs, Scan(p)
  PROVE  /\ \E w \in Works :
              /\ work' = [work EXCEPT ![p] = w]
              /\ w.m = work[p].m /\ w.path = work[p].path /\ w.hash = work[p].hash
              /\ w.brief = work[p].brief /\ w.old = work[p].old /\ w.fresh = work[p].fresh
         /\ tasks' = tasks \/ \E text \in Deadlines : Found(p, text) /\ DeadlineIn(text)
<1> DEFINE w == work[p]
           scan == w.path # NoName /\ (w.fresh \/ w.old.scan \in {"none", "bad"})
           text == IF w.text = "none" /\ Readable(p) THEN OnFile(p)[w.path] ELSE w.text
<1>1. work \in [Runs -> Works] /\ w \in Works
  BY DEF TypeInv, TypeOK
<1>2. CASE ~scan
  BY <1>1, <1>2 DEF Scan
<1>3. CASE scan
  <2>1. text \in Texts
    <3>1. w.text \in Texts
      <4> HIDE DEF w
      <4> QED BY <1>1 DEF Works, Texts
    <3> QED BY <3>1, FileText DEF Texts
  <2>2. PICK outcome \in IF DeadlineIn(text) THEN {text} ELSE Asked(text) :
          work' = [work EXCEPT ![p].scan = outcome,
                               ![p].extract = IF @ = "none" THEN text ELSE @]
    BY <1>3 DEF Scan
  <2>3. outcome \in Texts \union {"bad", "empty"}
    <3> HIDE DEF text
    <3> QED BY <2>1, <2>2 DEF Asked, Texts
  <2> DEFINE w1 == [w EXCEPT !.scan = outcome]
             w2 == [w1 EXCEPT !.extract = IF w1.extract = "none" THEN text ELSE w1.extract]
  <2>4. work' = [work EXCEPT ![p] = w2]
    <3> HIDE DEF text
    <3> QED BY <1>1, <2>2
  <2>5. w1 \in Works /\ w1.m = w.m /\ w1.path = w.path /\ w1.hash = w.hash /\ w1.brief = w.brief
        /\ w1.old = w.old /\ w1.fresh = w.fresh
    <3> HIDE DEF w
    <3> QED BY <1>1, <2>3 DEF Works, Texts
  <2>6. w2 \in Works /\ w2.m = w.m /\ w2.path = w.path /\ w2.hash = w.hash /\ w2.brief = w.brief
        /\ w2.old = w.old /\ w2.fresh = w.fresh
    <3> HIDE DEF w, w1, text
    <3> QED BY <2>1, <2>5 DEF Works, Texts
  <2>7. tasks' = tasks \/ \E t \in Deadlines : Found(p, t) /\ DeadlineIn(t)
    <3>1. Found(p, text)
      BY <1>3 DEF Scan
    <3>2. CASE DeadlineIn(text)
      BY <3>1, <3>2 DEF DeadlineIn
    <3>3. CASE ~DeadlineIn(text)
      <4> HIDE DEF text
      <4> QED BY <3>1, <3>3 DEF Found
    <3> QED BY <3>2, <3>3
  <2> HIDE DEF w2
  <2> QED BY <2>4, <2>6, <2>7
<1> QED BY <1>2, <1>3

\* The deadline of a text becomes a task of user 0.
LEMMA FoundTyped ==
  ASSUME TypeInv, NEW p \in Runs, work[p].m \in Materials, NEW text \in Deadlines, Found(p, text)
  PROVE  /\ tasks' \in [Owners -> [TaskIds -> Statuses]]
         /\ \A o \in Owners, t \in TaskIds : tasks[o][t] = "done" => tasks'[o][t] = "done"
<1> DEFINE id == <<work[p].m, text>>
<1>1. id \in TaskIds /\ Global \in Owners /\ tasks \in [Owners -> [TaskIds -> Statuses]]
  BY DEF TaskIds, Owners, TypeInv, TypeOK
<1>2. tasks' = tasks \/ tasks' = [tasks EXCEPT ![Global][id] = Upserted(tasks[Global][id], "open")]
  BY DEF Found, ScanOwner
<1>3. tasks[Global][id] \in Statuses /\ Upserted(tasks[Global][id], "open") \in Statuses
      /\ (tasks[Global][id] = "done" => Upserted(tasks[Global][id], "open") = "done")
  BY <1>1 DEF Statuses, Upserted
<1> HIDE DEF id
<1> QED BY <1>1, <1>2, <1>3

\* What the stages after the download do.
LEMMA StagesTyped ==
  ASSUME TypeInv, UNCHANGED repair, NEW p \in Runs, Read(p) \/ Scan(p) \/ Record(p)
  PROVE  TypeInv'
<1>1. /\ files \in [Owners -> [Names -> Contents \union {"none", "torn"}]]
      /\ tasks \in [Owners -> [TaskIds -> Statuses]]
      /\ left \in [Runs -> Seq(Materials)] /\ briefs \in [Runs -> SUBSET (Materials \X Contents)]
      /\ faults \in Nat /\ work \in [Runs -> Works] /\ work[p] \in Works /\ user[p] \in Owners
  BY DEF TypeInv, TypeOK
<1>2. pc[p] \in Stages /\ work[p].m \in Materials
  BY DEF Read, Scan, Record, Stages, TypeInv, Shape
<1>3. CASE Read(p)
  <2>1. PICK text \in Texts, extract \in Texts \union {"bad"} : Digest(p, text, extract)
    BY <1>3, ReadDigests
  <2>2. PICK w \in Works :
          /\ work' = [work EXCEPT ![p] = w] /\ w.m = work[p].m
          /\ briefs' \in [Runs -> SUBSET (Materials \X Contents)]
          /\ \A q \in Runs \ {p} : briefs'[q] = briefs[q]
    BY <1>2, <2>1, DigestKeeps
  <2>3. Go(p, "scan")
    BY <1>3 DEF Read
  <2>4. UNCHANGED <<school, files, tasks, artifact, state, todo, user, failed, got, left,
                    pushes, outdated, upset, starts, changes>>
    BY <1>3 DEF Read, store, sent
  <2>5. faults' \in Nat
    BY <1>1, <1>3 DEF Read, Fault
  <2> QED BY <1>1, <1>2, <2>2, <2>3, <2>4, <2>5, StageTyped DEF Stages
<1>4. CASE Scan(p)
  <2>1. PICK w \in Works : work' = [work EXCEPT ![p] = w] /\ w.m = work[p].m
    BY <1>4, ScanKeeps
  <2>2. tasks' \in [Owners -> [TaskIds -> Statuses]]
    BY <1>1, <1>2, <1>4, ScanKeeps, FoundTyped
  <2>3. Go(p, "record")
    BY <1>4 DEF Scan
  <2>4. UNCHANGED <<school, files, artifact, state, todo, user, failed, got, left, briefs,
                    pushes, outdated, upset, starts, changes, faults>>
    BY <1>4 DEF Scan, history, sent
  <2> QED BY <1>1, <1>2, <2>1, <2>2, <2>3, <2>4, StageTyped DEF Stages
<1>5. CASE Record(p)
  <2> DEFINE w == work[p]
             row == [path |-> w.path, hash |-> w.hash, extract |-> w.extract, brief |-> w.brief,
                     scan |-> w.scan]
  <2>1. row \in Rows
    <3>1. w \in Works
      BY <1>1
    <3> HIDE DEF w
    <3> QED BY <3>1 DEF Works, Rows
  <2>2. artifact' = [artifact EXCEPT ![user[p]][w.m] = row]
    BY <1>5 DEF Record
  <2>3. artifact' \in [Owners -> [Materials -> Rows]]
    <3>1. artifact \in [Owners -> [Materials -> Rows]]
      BY DEF TypeInv, TypeOK
    <3>2. w.m \in Materials
      BY <1>2
    <3> HIDE DEF row, w
    <3> QED BY <1>1, <2>1, <2>2, <3>1, <3>2
  <2>4. upset' \in Nat
    <3>1. upset' = upset + 1 \/ upset' = upset
      BY <1>5 DEF Record
    <3> QED BY <3>1 DEF TypeInv, TypeOK
  <2>5. work' \in [Runs -> Works] /\ work' = [work EXCEPT ![p] = NoWork]
    BY <1>1, <1>5, EmptyRecords DEF Record
  <2>6. pc' \in [Runs -> Places] /\ Go(p, "open") /\ pc' = [pc EXCEPT ![p] = "open"]
    BY <1>5 DEF Record, Go, Places, TypeInv, TypeOK
  <2>7. /\ UNCHANGED <<school, files, tasks, state, todo, user, failed, got, left, briefs, pushes,
                       starts, changes, faults>>
        /\ outdated' \subseteq Runs
    BY <1>5 DEF Record, Rewritten, TypeInv, TypeOK
  <2>8. TypeOK'
    BY <2>3, <2>4, <2>5, <2>6, <2>7 DEF TypeInv, TypeOK, Places, school
  <2>9. Shape'
    <3>1. \A q \in Runs \ {p} : pc'[q] = pc[q] /\ work'[q] = work[q]
      BY <1>1, <2>5, <2>6 DEF TypeInv, TypeOK
    <3>2. pc'[p] = "open"
      BY <2>6 DEF TypeInv, TypeOK
    <3> QED BY <2>7, <3>1, <3>2 DEF Shape, Stages, TypeInv
  <2> QED BY <2>8, <2>9 DEF TypeInv
<1> QED BY <1>3, <1>4, <1>5

\* The end of a target, and what ends a run early.
LEMMA EndsTyped ==
  ASSUME TypeInv, UNCHANGED repair, NEW p \in Runs, Push(p) \/ Finish(p) \/ Raise(p) \/ Kill(p)
  PROVE  TypeInv'
<1>1. /\ files \in [Owners -> [Names -> Contents \union {"none", "torn"}]]
      /\ todo \in [Runs -> SUBSET Owners] /\ user[p] \in Owners /\ faults \in Nat
      /\ pc \in [Runs -> Places] /\ pushes \in [Owners -> [Materials -> [Contents -> Nat]]]
  BY DEF TypeInv, TypeOK, Places
<1>2. CASE Push(p)
  <2>1. pushes' \in [Owners -> [Materials -> [Contents -> Nat]]]
    <3>1. CASE UNCHANGED pushes
      BY <1>1, <3>1
    <3>2. CASE pushes' = [pushes EXCEPT ![user[p]] =
             [m \in Materials |-> [c \in Contents |->
                pushes[user[p]][m][c] + IF <<m, c>> \in briefs[p] THEN 1 ELSE 0]]]
      <4>1. [m \in Materials |-> [c \in Contents |->
               pushes[user[p]][m][c] + IF <<m, c>> \in briefs[p] THEN 1 ELSE 0]]
            \in [Materials -> [Contents -> Nat]]
        BY <1>1
      <4> QED BY <1>1, <3>2, <4>1
    <3> QED BY <1>2, <3>1, <3>2 DEF Push
  <2>2. faults' \in Nat
    BY <1>1, <1>2 DEF Push, Fault
  <2>3. pc' \in [Runs -> Places] /\ pc' = [pc EXCEPT ![p] = "finish"]
    BY <1>1, <1>2 DEF Push, Go, Places
  <2>4. UNCHANGED <<school, store, locals, recorded, outdated, upset, contested, starts, changes>>
    BY <1>2 DEF Push
  <2>5. TypeOK'
    BY <2>1, <2>2, <2>3, <2>4 DEF TypeInv, TypeOK, Places, school, store, locals
  <2>6. Shape'
    BY <1>1, <2>3, <2>4 DEF TypeInv, Shape, Stages, locals
  <2> QED BY <2>5, <2>6 DEF TypeInv
<1>3. CASE Finish(p)
  <2>1. Go(p, "target") /\ Forget(p)
    BY <1>3 DEF Finish
  <2>2. Shape'
    BY <2>1, ForgetShaped DEF TypeInv
  <2>3. state' \in [Owners -> {"none", "skipped", "error", "success"}] /\ pc' \in [Runs -> Places]
    BY <1>1, <1>3 DEF Finish, Go, Places, TypeInv, TypeOK
  <2>4. UNCHANGED <<school, files, artifact, tasks, todo, failed, history>>
    BY <1>3 DEF Finish
  <2>5. TypeOK'
    BY <2>1, <2>3, <2>4, ForgetTyped DEF TypeInv, TypeOK, Places, school, history, sent
  <2> QED BY <2>2, <2>5 DEF TypeInv
<1>4. CASE Raise(p)
  <2>1. Fail(p, user[p]) /\ UNCHANGED <<school, files, artifact, tasks, todo, sent, starts, changes>>
    BY <1>4 DEF Raise
  <2>2. faults' \in Nat
    BY <1>1, <1>4 DEF Raise, Fault
  <2>3. todo' \in [Runs -> SUBSET Owners]
    BY <1>1, <2>1
  <2> QED BY <1>1, <2>1, <2>2, <2>3, FailTyped
<1>5. CASE Kill(p)
  <2>1. Go(p, "idle") /\ Forget(p)
    BY <1>5 DEF Kill
  <2>2. Shape'
    BY <2>1, ForgetShaped DEF TypeInv
  <2>3. pc' \in [Runs -> Places] /\ faults' \in Nat
    BY <1>1, <1>5 DEF Kill, Go, Fault, Places
  <2>4. todo' \in [Runs -> SUBSET Owners] /\ failed' \in [Runs -> BOOLEAN]
    BY <1>1, <1>5 DEF Kill, TypeInv, TypeOK
  <2>5. files' \in [Owners -> [Names -> Contents \union {"none", "torn"}]]
    <3>1. CASE files' = files
      BY <1>1, <3>1
    <3>2. CASE files' = [files EXCEPT ![user[p]][work[p].target] = "torn"]
      BY <1>1, <3>2
    <3> QED BY <1>5, <3>1, <3>2 DEF Kill
  <2>6. UNCHANGED <<school, artifact, tasks, state, sent, starts, changes>>
    BY <1>5 DEF Kill
  <2>7. TypeOK'
    BY <2>1, <2>3, <2>4, <2>5, <2>6, ForgetTyped DEF TypeInv, TypeOK, Places, school, sent
  <2> QED BY <2>2, <2>7 DEF TypeInv
<1> QED BY <1>2, <1>3, <1>4, <1>5

\* The text a repair makes a brief of.
LEMMA RepairTextTyped ==
  ASSUME TypeInv, NEW o \in Owners, NEW row \in Rows
  PROVE  RepairText(o, row) \subseteq Contents
BY DEF RepairText

\* What a repair does.
LEMMA RepairTyped ==
  ASSUME TypeInv, (\E o \in Users : StartRepair(o)) \/ \E e \in repair : RepairRow(e)
  PROVE  TypeInv'
<1>1. ASSUME NEW o \in Users, StartRepair(o)
      PROVE  TypeInv'
  <2>1. repair' \subseteq Users \X Materials \X Rows
    <3>1. o \in Owners
      BY DEF Owners
    <3>2. \A m \in Materials : artifact[o][m] \in Rows
      BY <3>1 DEF TypeInv, TypeOK
    <3> QED BY <1>1, <3>2 DEF StartRepair
  <2>2. TypeOK'
    BY <1>1, <2>1 DEF StartRepair, TypeInv, TypeOK, school, store, locals, history, sent
  <2>3. Shape'
    BY <1>1 DEF StartRepair, TypeInv, Shape, locals
  <2> QED BY <2>2, <2>3 DEF TypeInv
<1>2. ASSUME NEW e \in repair, RepairRow(e)
      PROVE  TypeInv'
  <2>1. e \in Users \X Materials \X Rows /\ e[1] \in Owners /\ e[2] \in Materials /\ e[3] \in Rows
    BY DEF TypeInv, TypeOK, Owners
  <2>2. artifact' \in [Owners -> [Materials -> Rows]] /\ upset' \in Nat /\ outdated' \subseteq Runs
    <3> DEFINE o == e[1]
               row == e[3]
    <3>1. CASE UNCHANGED <<artifact, recorded, outdated, upset>>
      BY <3>1 DEF TypeInv, TypeOK
    <3>2. ASSUME NEW text \in RepairText(o, row),
                 artifact' = [artifact EXCEPT ![o][e[2]] =
                   [row EXCEPT !.path = IF Exists(o, row.path) THEN row.path ELSE NoName,
                               !.extract = text, !.brief = text]],
                 outdated' = Rewritten(o, e[2]),
                 upset' = IF artifact[o][e[2]] # row THEN upset + 1 ELSE upset
          PROVE  /\ artifact' \in [Owners -> [Materials -> Rows]] /\ upset' \in Nat
                 /\ outdated' \subseteq Runs
      <4> DEFINE r1 == [row EXCEPT !.path = IF Exists(o, row.path) THEN row.path ELSE NoName]
                 r2 == [r1 EXCEPT !.extract = text]
                 r3 == [r2 EXCEPT !.brief = text]
      <4>1. text \in Contents
        BY <2>1, RepairTextTyped
      <4>2. r1 \in Rows
        BY <2>1 DEF Rows
      <4>3. r2 \in Rows
        <5> HIDE DEF r1
        <5> QED BY <4>1, <4>2 DEF Rows
      <4>4. r3 \in Rows
        <5> HIDE DEF r2
        <5> QED BY <4>1, <4>3 DEF Rows
      <4>5. artifact' = [artifact EXCEPT ![o][e[2]] = r3]
        <5>1. r3 = [row EXCEPT !.path = IF Exists(o, row.path) THEN row.path ELSE NoName,
                               !.extract = text, !.brief = text]
          <6> HIDE DEF row
          <6> QED OBVIOUS
        <5> HIDE DEF r3
        <5> QED BY <3>2, <5>1
      <4>6. artifact' \in [Owners -> [Materials -> Rows]]
        <5> HIDE DEF r3
        <5> QED BY <2>1, <4>4, <4>5 DEF TypeInv, TypeOK
      <4>7. upset' \in Nat /\ outdated' \subseteq Runs
        BY <3>2 DEF TypeInv, TypeOK, Rewritten
      <4> QED BY <4>6, <4>7
    <3> QED BY <1>2, <3>1, <3>2 DEF RepairRow
  <2>3. /\ repair' = repair \ {e}
        /\ UNCHANGED <<school, files, tasks, state, pc, locals, pushes, contested, starts, changes,
                       faults>>
    BY <1>2 DEF RepairRow
  <2>4. TypeOK'
    BY <2>2, <2>3 DEF TypeInv, TypeOK, school, locals
  <2>5. Shape'
    BY <2>3 DEF TypeInv, Shape, locals
  <2> QED BY <2>4, <2>5 DEF TypeInv
<1> QED BY <1>1, <1>2

\* Every step keeps the types.
LEMMA StepTyped == TypeInv /\ [Next]_vars => TypeInv'
<1> SUFFICES ASSUME TypeInv, [Next]_vars PROVE TypeInv'
  OBVIOUS
<1>1. CASE UNCHANGED vars
  BY <1>1 DEF vars, TypeInv, TypeOK, Shape, school, store, locals, history, sent
<1>2. CASE (\E o \in Users : StartRepair(o)) \/ \E e \in repair : RepairRow(e)
  BY <1>2, RepairTyped
<1>3. CASE UNCHANGED repair /\ Environment
  BY <1>3, EnvironmentTyped
<1>4. CASE UNCHANGED repair /\ (StartPoller \/ \E u \in Users : StartRefresher(u))
  BY <1>4, UsersTyped
<1>5. ASSUME UNCHANGED repair, NEW p \in Runs, Step(p)
      PROVE  TypeInv'
  BY <1>5, UsersTyped, AnswerTyped, DownloadTyped, StagesTyped, EndsTyped DEF Step
<1> QED BY <1>1, <1>2, <1>3, <1>4, <1>5 DEF Next

\* Every column, file and local of the collection has a value of its kind at any time: the
\* stages and the errors hand on what the next one can use.
THEOREM TypeCorrect == Spec => []TypeInv
<1>1. Init => TypeInv
  BY InitTyped
<1>2. TypeInv /\ [Next]_vars => TypeInv'
  BY StepTyped
<1> QED BY <1>1, <1>2, PTL DEF Spec

-----------------------------------------------------------------------------
(* Tasks                                                                    *)

\* A closed task is closed after the step.
ClosedStay == \A o \in Owners, t \in TaskIds : tasks[o][t] = "done" => tasks'[o][t] = "done"

\* The steps that write tasks.
LEMMA TaskWriters ==
  ASSUME [Next]_vars
  PROVE  \/ UNCHANGED tasks
         \/ \E o \in Owners, t \in TaskIds : Done(o, t)
         \/ \E p \in Runs, t \in WsTasks, s \in Statuses : PersistTask(p, t, s)
         \/ \E p \in Runs : Scan(p)
<1>1. CASE Environment
  BY <1>1 DEF Environment, Replace, Submit, Lose, store
<1>2. CASE StartPoller \/ \E u \in Users : StartRefresher(u)
  BY <1>2 DEF StartPoller, StartRefresher, Begin, store
<1>3. ASSUME NEW p \in Runs, Step(p)
      PROVE  \/ UNCHANGED tasks
             \/ \E t \in WsTasks, s \in Statuses : PersistTask(p, t, s)
             \/ Scan(p)
  <2>1. CASE \/ EndRun(p) \/ Fetch(p) \/ \E o \in Owners : Skip(p, o) \/ NextTarget(p, o)
    BY <2>1 DEF EndRun, Fetch, Skip, NextTarget, store
  <2>2. CASE (\E m \in Materials : Open(p, m)) \/ Check(p) \/ Request(p)
             \/ (\E n \in Names : Resolve(p, n)) \/ Write(p) \/ DownloadFails(p)
    BY <2>2 DEF Open, Check, Request, Resolve, Write, DownloadFails, store
  <2>3. CASE Read(p) \/ Record(p) \/ Push(p) \/ Finish(p) \/ Raise(p) \/ Kill(p)
    BY <2>3 DEF Read, Record, Push, Finish, Raise, Kill, store
  <2> QED BY <1>3, <2>1, <2>2, <2>3 DEF Step
<1>4. CASE (\E o \in Users : StartRepair(o)) \/ \E e \in repair : RepairRow(e)
  BY <1>4 DEF StartRepair, RepairRow, store
<1>5. CASE UNCHANGED vars
  BY <1>5 DEF vars, store
<1> QED BY <1>1, <1>2, <1>3, <1>4, <1>5 DEF Next

\* A task that was closed stays so, whatever collection, deadline scan or repair comes next.
THEOREM ClosedTasksStay == Spec => DoneStays
<1>1. TypeInv /\ [Next]_vars => ClosedStay
  <2> SUFFICES ASSUME TypeInv, [Next]_vars PROVE ClosedStay
    OBVIOUS
  <2>1. tasks \in [Owners -> [TaskIds -> Statuses]]
    BY DEF TypeInv, TypeOK
  <2>2. CASE UNCHANGED tasks
    BY <2>2 DEF ClosedStay
  <2>3. ASSUME NEW o \in Owners, NEW t \in TaskIds, Done(o, t)
        PROVE  ClosedStay
    BY <2>1, <2>3 DEF Done, ClosedStay
  <2>4. ASSUME NEW p \in Runs, NEW t \in WsTasks, NEW s \in Statuses, PersistTask(p, t, s)
        PROVE  ClosedStay
    <3>1. user[p] \in Owners /\ t \in TaskIds /\ s \in {"open", "done"}
      BY <2>4 DEF PersistTask, TypeInv, TypeOK, TaskIds
    <3>2. tasks' = [tasks EXCEPT ![user[p]][t] = Upserted(tasks[user[p]][t], s)]
      BY <2>4 DEF PersistTask
    <3>3. tasks[user[p]][t] = "done" => Upserted(tasks[user[p]][t], s) = "done"
      BY <3>1 DEF Upserted
    <3> QED BY <2>1, <3>1, <3>2, <3>3 DEF ClosedStay
  <2>5. ASSUME NEW p \in Runs, Scan(p)
        PROVE  ClosedStay
    <3>1. work[p].m \in Materials
      BY <2>5 DEF Scan, TypeInv, Shape, Stages
    <3>2. tasks' = tasks \/ \E text \in Deadlines : Found(p, text)
      BY <2>5, ScanKeeps
    <3> QED BY <3>1, <3>2, FoundTyped DEF ClosedStay
  <2> QED BY <2>2, <2>3, <2>4, <2>5, TaskWriters
<1>2. TypeInv /\ [Next]_vars => [ClosedStay]_vars
  BY <1>1
<1> QED BY <1>2, TypeCorrect, PTL DEF Spec, DoneStays, ClosedStay

-----------------------------------------------------------------------------
(* Files                                                                    *)

\* The file n of o has the content of hash h, if nobody fought about it.
FileIs(o, n, h) ==
  n \in Names /\ <<o, n>> \notin contested => files[o][n] = h /\ h \in Contents
\* The same after a step.
FileWillBe(o, n, h) ==
  n \in Names /\ <<o, n>> \notin contested' => files'[o][n] = h /\ h \in Contents

\* What the rows, the runs and the list of a repair say of the files is true.
RowFiles    == \A o \in Owners, m \in Materials : FileIs(o, artifact[o][m].path, artifact[o][m].hash)
WorkFiles   == \A p \in Runs : FileIs(user[p], work[p].path, work[p].hash)
RepairFiles == \A e \in repair : FileIs(e[1], e[3].path, e[3].hash)
Facts       == RowFiles /\ WorkFiles /\ RepairFiles

\* The file a run is about to write is not there yet, so that nobody says anything of
\* it, and no other run is about to write it.
WritesAlone(p) ==
  pc[p] = "write" /\ <<user[p], work[p].target>> \notin contested =>
    /\ files[user[p]][work[p].target] = "none"
    /\ \A q \in Runs \ {p} : pc[q] = "write" /\ user[q] = user[p] => work[q].target # work[p].target
Writing == \A p \in Runs : WritesAlone(p)

FileInv == Facts /\ Writing

\* A step makes nothing untrue that was said of a file.
Kept ==
  \A o \in Owners, n \in Names \union {NoName}, h \in Texts : FileIs(o, n, h) => FileWillBe(o, n, h)

\* The files that are fought about only get more.
LEMMA KeptWhenSame ==
  ASSUME UNCHANGED files, contested \subseteq contested'
  PROVE  Kept
BY DEF Kept, FileIs, FileWillBe

\* What is said of no file is true.
LEMMA NothingSaid ==
  ASSUME NEW o, NEW h
  PROVE  FileIs(o, NoName, h) /\ FileWillBe(o, NoName, h)
BY NoNameIsNone DEF FileIs, FileWillBe

\* The columns, the locals and the listed rows say something of an owner, a name and a hash.
LEMMA SaidOf ==
  ASSUME TypeInv
  PROVE  /\ \A o \in Owners, m \in Materials :
              artifact[o][m].path \in Names \union {NoName} /\ artifact[o][m].hash \in Texts
         /\ \A p \in Runs : /\ user[p] \in Owners
                            /\ work[p].path \in Names \union {NoName} /\ work[p].hash \in Texts
         /\ \A e \in repair : /\ e[1] \in Owners /\ e[2] \in Materials /\ e[3] \in Rows
                              /\ e[3].path \in Names \union {NoName} /\ e[3].hash \in Texts
<1>1. \A row \in Rows : row.path \in Names \union {NoName} /\ row.hash \in Texts
  BY DEF Rows, Texts
<1>2. \A w \in Works : w.path \in Names \union {NoName} /\ w.hash \in Texts
  BY DEF Works, Texts
<1>3. \A o \in Owners, m \in Materials : artifact[o][m] \in Rows
  BY DEF TypeInv, TypeOK
<1>4. \A p \in Runs : user[p] \in Owners /\ work[p] \in Works
  BY DEF TypeInv, TypeOK
<1>5. \A e \in repair : e[1] \in Owners /\ e[2] \in Materials /\ e[3] \in Rows
  BY DEF TypeInv, TypeOK, Owners
<1> QED BY <1>1, <1>2, <1>3, <1>4, <1>5

\* A step of one run, or of a repair, that says nothing untrue.
LEMMA FactsKept ==
  ASSUME TypeInv, Facts, Kept, NEW p \in Runs,
         \A q \in Runs \ {p} : user'[q] = user[q] /\ work'[q] = work[q],
         FileWillBe(user'[p], work'[p].path, work'[p].hash),
         \A o \in Owners, m \in Materials :
           artifact'[o][m] = artifact[o][m]
           \/ FileWillBe(o, artifact'[o][m].path, artifact'[o][m].hash),
         \A e \in repair' : e \in repair \/ FileWillBe(e[1], e[3].path, e[3].hash)
  PROVE  Facts'
<1>1. RowFiles'
  <2> SUFFICES ASSUME NEW o \in Owners, NEW m \in Materials
               PROVE  FileWillBe(o, artifact'[o][m].path, artifact'[o][m].hash)
    BY DEF RowFiles, FileIs, FileWillBe
  <2>1. FileWillBe(o, artifact[o][m].path, artifact[o][m].hash)
    BY SaidOf DEF Facts, RowFiles, Kept
  <2> QED BY <2>1
<1>2. WorkFiles'
  <2> SUFFICES ASSUME NEW q \in Runs
               PROVE  FileWillBe(user'[q], work'[q].path, work'[q].hash)
    BY DEF WorkFiles, FileIs, FileWillBe
  <2>1. FileWillBe(user[q], work[q].path, work[q].hash)
    BY SaidOf DEF Facts, WorkFiles, Kept
  <2> QED BY <2>1
<1>3. RepairFiles'
  <2> SUFFICES ASSUME NEW e \in repair'
               PROVE  FileWillBe(e[1], e[3].path, e[3].hash)
    BY DEF RepairFiles, FileIs, FileWillBe
  <2>1. e \in repair => FileWillBe(e[1], e[3].path, e[3].hash)
    BY SaidOf DEF Facts, RepairFiles, Kept
  <2> QED BY <2>1
<1> QED BY <1>1, <1>2, <1>3 DEF Facts

\* A step of one run that begins no write and changes no file.
LEMMA WritingKept ==
  ASSUME TypeInv, Writing, NEW p \in Runs, UNCHANGED files, contested \subseteq contested',
         \A q \in Runs \ {p} : pc'[q] = pc[q] /\ user'[q] = user[q] /\ work'[q] = work[q],
         \/ pc'[p] # "write"
         \/ pc'[p] = pc[p] /\ user'[p] = user[p] /\ work'[p] = work[p]
  PROVE  Writing'
BY DEF Writing, WritesAlone

\* The steps that say nothing new.
LEMMA SilentStep ==
  ASSUME TypeInv, FileInv, NEW p \in Runs, UNCHANGED <<files, contested, artifact, repair, user, work>>,
         \/ UNCHANGED pc
         \/ \E place \in Places \ {"write"} : Go(p, place)
  PROVE  FileInv'
<1>1. Kept
  BY KeptWhenSame
<1>2. Facts'
  <2>1. FileWillBe(user[p], work[p].path, work[p].hash)
    BY <1>1, SaidOf DEF FileInv, Facts, WorkFiles, Kept
  <2> QED BY <1>1, <2>1, FactsKept DEF FileInv
<1>3. Writing'
  <2>1. pc \in [Runs -> Places]
    BY DEF TypeInv, TypeOK, Places
  <2>2. \A q \in Runs \ {p} : pc'[q] = pc[q]
    BY <2>1 DEF Go
  <2>3. pc'[p] # "write" \/ pc'[p] = pc[p]
    BY <2>1 DEF Go
  <2> QED BY <2>2, <2>3, WritingKept DEF FileInv
<1> QED BY <1>2, <1>3 DEF FileInv

\* A run leaves its user, the files are as before.
LEMMA LeaveStep ==
  ASSUME TypeInv, FileInv, NEW p \in Runs, NEW place \in {"idle", "target"},
         Go(p, place), Forget(p), UNCHANGED <<files, contested, artifact, repair>>
  PROVE  FileInv'
<1>1. Kept
  BY KeptWhenSame
<1>2. work'[p].path = NoName /\ \A q \in Runs \ {p} : user'[q] = user[q] /\ work'[q] = work[q]
  BY ForgetTyped, EmptyRecords DEF TypeInv
<1>3. Facts'
  BY <1>1, <1>2, NothingSaid, FactsKept DEF FileInv
<1>4. pc'[p] = place /\ \A q \in Runs \ {p} : pc'[q] = pc[q]
  BY DEF Go, TypeInv, TypeOK
<1>5. Writing'
  BY <1>2, <1>4, WritingKept DEF FileInv
<1> QED BY <1>3, <1>5 DEF FileInv

\* A run goes on with its material, the files are as before.
LEMMA WorkStep ==
  ASSUME TypeInv, FileInv, NEW p \in Runs, NEW w, NEW place \in Places \ {"write"},
         work' = [work EXCEPT ![p] = w], FileIs(user[p], w.path, w.hash), Go(p, place),
         UNCHANGED <<files, contested, artifact, repair, user>>
  PROVE  FileInv'
<1>1. Kept
  BY KeptWhenSame
<1>2. work'[p] = w /\ \A q \in Runs \ {p} : work'[q] = work[q]
  BY DEF TypeInv, TypeOK
<1>3. Facts'
  <2>1. FileWillBe(user'[p], work'[p].path, work'[p].hash)
    BY <1>2 DEF FileIs, FileWillBe
  <2> QED BY <1>1, <1>2, <2>1, FactsKept DEF FileInv
<1>4. pc'[p] = place /\ \A q \in Runs \ {p} : pc'[q] = pc[q]
  BY DEF Go, TypeInv, TypeOK
<1>5. Writing'
  BY <1>2, <1>4, WritingKept DEF FileInv
<1> QED BY <1>3, <1>5 DEF FileInv

\* A run writes its file, whole or half: nobody has said anything of it.
LEMMA FileWritten ==
  ASSUME TypeInv, FileInv, NEW p \in Runs, pc[p] = "write",
         NEW c, files' = [files EXCEPT ![user[p]][work[p].target] = c],
         UNCHANGED contested,
         pc'[p] # "write", \A q \in Runs \ {p} : pc'[q] = pc[q] /\ user'[q] = user[q] /\ work'[q] = work[q]
  PROVE  Kept /\ Writing' /\ files'[user[p]][work[p].target] = c
<1> DEFINE u == user[p]
           n == work[p].target
<1>1. u \in Owners /\ n \in Names /\ files \in [Owners -> [Names -> Contents \union {"none", "torn"}]]
  BY DEF TypeInv, TypeOK, Shape
<1>2. files'[u][n] = c /\ \A o \in Owners, k \in Names : <<o, k>> # <<u, n>> => files'[o][k] = files[o][k]
  <2> HIDE DEF u, n
  <2>1. files' = [files EXCEPT ![u][n] = c]
    BY DEF u, n
  <2> QED BY <1>1, <2>1
<1>3. <<u, n>> \notin contested =>
         /\ files[u][n] = "none"
         /\ \A q \in Runs \ {p} : pc[q] = "write" /\ user[q] = u => work[q].target # n
  BY DEF FileInv, Writing, WritesAlone
<1>4. "none" \notin Contents
  BY ConstantsAssumption
<1>5. Kept
  <2> SUFFICES ASSUME NEW o \in Owners, NEW k \in Names \union {NoName}, NEW h \in Texts,
                      FileIs(o, k, h), k \in Names, <<o, k>> \notin contested
               PROVE  files'[o][k] = h /\ h \in Contents
    BY DEF Kept, FileWillBe
  <2>1. files[o][k] = h /\ h \in Contents
    BY DEF FileIs
  <2>2. <<o, k>> # <<u, n>>
    <3> HIDE DEF u, n
    <3> QED BY <1>3, <1>4, <2>1
  <2> QED BY <1>2, <2>1, <2>2
<1>6. Writing'
  <2> SUFFICES ASSUME NEW q \in Runs, pc'[q] = "write", <<user'[q], work'[q].target>> \notin contested
               PROVE  /\ files'[user'[q]][work'[q].target] = "none"
                      /\ \A r \in Runs \ {q} : pc'[r] = "write" /\ user'[r] = user'[q]
                                               => work'[r].target # work'[q].target
    BY DEF Writing, WritesAlone
  <2>1. q # p /\ pc[q] = "write" /\ user'[q] = user[q] /\ work'[q] = work[q]
    OBVIOUS
  <2>2. user[q] \in Owners /\ work[q].target \in Names
    BY <2>1 DEF TypeInv, TypeOK, Shape
  <2>3. /\ files[user[q]][work[q].target] = "none"
        /\ \A r \in Runs \ {q} : pc[r] = "write" /\ user[r] = user[q] => work[r].target # work[q].target
    BY <2>1 DEF FileInv, Writing, WritesAlone
  <2>4. <<user[q], work[q].target>> # <<u, n>>
    BY <2>1, <2>3
  <2>5. files'[user[q]][work[q].target] = "none"
    <3> HIDE DEF u, n
    <3> QED BY <1>2, <2>2, <2>3, <2>4
  <2>6. ASSUME NEW r \in Runs \ {q}, pc'[r] = "write", user'[r] = user'[q]
        PROVE  work'[r].target # work'[q].target
    BY <2>1, <2>3, <2>6
  <2> QED BY <2>1, <2>5, <2>6
<1> QED BY <1>2, <1>5, <1>6

\* The environment and what begins and ends runs.
LEMMA FilesOutside ==
  ASSUME TypeInv, FileInv, UNCHANGED repair,
         \/ Environment \/ StartPoller \/ \E u \in Users : StartRefresher(u)
  PROVE  FileInv'
<1>1. CASE \/ \E m \in Materials : Replace(m)
           \/ \E t \in ActionEvents : Submit(t)
           \/ \E o \in Owners, t \in TaskIds : Done(o, t)
  <2>1. UNCHANGED <<files, contested, artifact, user, work, pc>>
    BY <1>1 DEF Replace, Submit, Done, store, locals, sent
  <2> QED BY <2>1, SilentStep DEF Runs
<1>2. ASSUME NEW o \in Owners, NEW n \in Names, Lose(o, n)
      PROVE  FileInv'
  <2>1. /\ files' = [files EXCEPT ![o][n] = "none"] /\ contested' = contested \union {<<o, n>>}
        /\ UNCHANGED <<artifact, user, work, pc>>
    BY <1>2 DEF Lose, locals
  <2>2. files \in [Owners -> [Names -> Contents \union {"none", "torn"}]]
    BY DEF TypeInv, TypeOK
  <2>3. \A x \in Owners, k \in Names : <<x, k>> # <<o, n>> => files'[x][k] = files[x][k]
    BY <2>1, <2>2
  <2>4. Kept
    <3> SUFFICES ASSUME NEW x \in Owners, NEW k \in Names \union {NoName}, NEW h \in Texts,
                        FileIs(x, k, h), k \in Names, <<x, k>> \notin contested'
                 PROVE  files'[x][k] = h /\ h \in Contents
      BY DEF Kept, FileWillBe
    <3>1. <<x, k>> \notin contested /\ <<x, k>> # <<o, n>>
      BY <2>1
    <3> QED BY <2>3, <3>1 DEF FileIs
  <2>5. Facts'
    <3>1. FileWillBe(user[Poller], work[Poller].path, work[Poller].hash)
      BY <2>4, SaidOf DEF FileInv, Facts, WorkFiles, Kept, Runs
    <3> QED BY <2>1, <2>4, <3>1, FactsKept DEF FileInv, Runs
  <2>6. Writing'
    <3> SUFFICES ASSUME NEW p \in Runs, pc[p] = "write", <<user[p], work[p].target>> \notin contested'
                 PROVE  /\ files'[user[p]][work[p].target] = "none"
                        /\ \A q \in Runs \ {p} : pc[q] = "write" /\ user[q] = user[p]
                                                 => work[q].target # work[p].target
      BY <2>1 DEF Writing, WritesAlone
    <3>1. user[p] \in Owners /\ work[p].target \in Names
      BY DEF TypeInv, TypeOK, Shape
    <3>2. <<user[p], work[p].target>> \notin contested /\ <<user[p], work[p].target>> # <<o, n>>
      BY <2>1
    <3>3. files'[user[p]][work[p].target] = files[user[p]][work[p].target]
      BY <2>3, <3>1, <3>2
    <3> QED BY <3>2, <3>3 DEF FileInv, Writing, WritesAlone
  <2> QED BY <2>5, <2>6 DEF FileInv
<1>3. CASE StartPoller \/ \E u \in Users : StartRefresher(u)
  <2>1. PICK p \in Runs, T \in SUBSET Owners : Begin(p, T)
    BY <1>3 DEF StartPoller, StartRefresher, Runs, Targets, Connected, Owners
  <2>2. Go(p, "target") /\ UNCHANGED <<files, contested, artifact, user, work>>
    BY <2>1 DEF Begin, store, sent
  <2>3. "target" \in Places \ {"write"}
    BY DEF Places
  <2> QED BY <2>2, <2>3, SilentStep
<1> QED BY <1>1, <1>2, <1>3 DEF Environment

\* The steps of a run between materials.
LEMMA FilesBetween ==
  ASSUME TypeInv, FileInv, UNCHANGED repair, NEW p \in Runs,
         \/ \E o \in Owners : Skip(p, o) \/ NextTarget(p, o)
         \/ EndRun(p) \/ Fetch(p)
         \/ \E t \in WsTasks, s \in Statuses : PersistTask(p, t, s)
         \/ Push(p) \/ Finish(p) \/ Raise(p)
  PROVE  FileInv'
<1>1. {"idle", "open", "persist", "finish", "fetch"} \subseteq Places \ {"write"}
  BY DEF Places
<1>2. ASSUME NEW o \in Owners, Skip(p, o)
      PROVE  FileInv'
  BY <1>2, SilentStep DEF Skip, locals, history, sent
<1>3. ASSUME NEW o \in Owners, NextTarget(p, o)
      PROVE  FileInv'
  <2>1. pc[p] = "target" /\ UNCHANGED <<files, contested, artifact>>
    BY <1>3 DEF NextTarget, history, sent
  <2>2. CASE o \in Users /\ conn[o] = "unreadable"
    <3>1. Go(p, "target") /\ Forget(p)
      BY <1>3, <2>2 DEF NextTarget, Fail
    <3> QED BY <2>1, <3>1, LeaveStep
  <2>3. CASE ~(o \in Users /\ conn[o] = "unreadable")
    <3>1. Go(p, "fetch") /\ user' = [user EXCEPT ![p] = o] /\ UNCHANGED work
      BY <1>3, <2>3 DEF NextTarget
    <3>2. Kept
      BY <2>1, KeptWhenSame
    <3>3. work'[p].path = NoName
      BY <2>1, <3>1 DEF TypeInv, Shape
    <3>4. \A q \in Runs \ {p} : user'[q] = user[q] /\ work'[q] = work[q]
      BY <3>1 DEF TypeInv, TypeOK
    <3>5. Facts'
      BY <2>1, <3>2, <3>3, <3>4, NothingSaid, FactsKept DEF FileInv
    <3>6. pc'[p] = "fetch" /\ \A q \in Runs \ {p} : pc'[q] = pc[q]
      BY <3>1 DEF Go, TypeInv, TypeOK
    <3>7. Writing'
      BY <2>1, <3>4, <3>6, WritingKept DEF FileInv
    <3> QED BY <3>5, <3>7 DEF FileInv
  <2> QED BY <2>2, <2>3
<1>4. CASE EndRun(p)
  <2>1. Go(p, "idle") /\ UNCHANGED <<files, contested, artifact, user, work>>
    BY <1>4 DEF EndRun, history, sent
  <2> QED BY <1>1, <2>1, SilentStep
<1>5. CASE Fetch(p)
  <2>1. (Go(p, "open") \/ Go(p, "persist")) /\ UNCHANGED <<files, contested, artifact, user, work>>
    BY <1>5 DEF Fetch, store, sent
  <2> QED BY <1>1, <2>1, SilentStep
<1>6. ASSUME NEW t \in WsTasks, NEW s \in Statuses, PersistTask(p, t, s)
      PROVE  FileInv'
  <2>1. (Go(p, "open") \/ Go(p, "persist")) /\ UNCHANGED <<files, contested, artifact, user, work>>
    BY <1>6 DEF PersistTask, history, sent
  <2> QED BY <1>1, <2>1, SilentStep
<1>7. CASE Push(p)
  <2>1. Go(p, "finish") /\ UNCHANGED <<files, contested, artifact, user, work>>
    BY <1>7 DEF Push, store, locals
  <2> QED BY <1>1, <2>1, SilentStep
<1>8. CASE Finish(p)
  BY <1>8, LeaveStep DEF Finish, history, sent
<1>9. CASE Raise(p)
  BY <1>9, LeaveStep DEF Raise, Fail, sent
<1> QED BY <1>2, <1>3, <1>4, <1>5, <1>6, <1>7, <1>8, <1>9

\* The stages of a material.
LEMMA FilesInStages ==
  ASSUME TypeInv, FileInv, UNCHANGED repair, NEW p \in Runs,
         \/ \E m \in Materials : Open(p, m)
         \/ Check(p) \/ Request(p) \/ Read(p) \/ Scan(p)
  PROVE  FileInv'
<1>1. {"check", "request", "resolve", "read", "scan", "record"} \subseteq Places \ {"write"}
  BY DEF Places
<1>2. work \in [Runs -> Works] /\ FileIs(user[p], work[p].path, work[p].hash) /\ user[p] \in Owners
  BY DEF TypeInv, TypeOK, FileInv, Facts, WorkFiles
<1>3. ASSUME NEW m \in Materials, Open(p, m)
      PROVE  FileInv'
  <2> DEFINE row == artifact[user[p]][m]
             kept == Exists(user[p], row.path)
             w == [m |-> m, old |-> row, path |-> IF kept THEN row.path ELSE NoName,
                   hash |-> IF kept THEN row.hash ELSE "none", fresh |-> FALSE,
                   payload |-> "none", target |-> NoName, text |-> "none",
                   extract |-> row.extract, brief |-> row.brief, scan |-> row.scan]
  <2>1. work' = [work EXCEPT ![p] = w] /\ Go(p, "check")
        /\ UNCHANGED <<files, contested, artifact, user>>
    BY <1>3 DEF Open, store, history, sent
  <2>2. FileIs(user[p], w.path, w.hash)
    <3>1. FileIs(user[p], row.path, row.hash)
      BY <1>2 DEF FileInv, Facts, RowFiles
    <3>2. (w.path = row.path /\ w.hash = row.hash) \/ w.path = NoName
      OBVIOUS
    <3> HIDE DEF w, row
    <3> QED BY <3>1, <3>2, NothingSaid
  <2> HIDE DEF w
  <2> QED BY <1>1, <2>1, <2>2, WorkStep
<1>4. CASE Check(p)
  <2> DEFINE row == artifact[user[p]][work[p].m]
  <2>1. UNCHANGED <<files, contested, artifact, user>> /\ pc[p] = "check"
    BY <1>4 DEF Check, store, history, sent
  <2>2. work[p].m \in Materials
    BY <2>1 DEF TypeInv, Shape, Stages
  <2>3. CASE row.hash # "none" /\ Exists(user[p], row.path)
    <3> DEFINE w == Obtained(work[p], row.path, row.hash, FALSE)
    <3>1. work' = [work EXCEPT ![p] = w] /\ Go(p, "read")
      BY <1>4, <2>3 DEF Check
    <3>2. w.path = row.path /\ w.hash = row.hash
      <4>1. row.path \in Names \union {NoName} /\ row.hash \in Texts /\ FALSE \in BOOLEAN
        BY <1>2, <2>2, SaidOf
      <4> HIDE DEF row
      <4> QED BY <1>2, <4>1, ObtainedIsWork
    <3>3. FileIs(user[p], row.path, row.hash)
      BY <1>2, <2>2 DEF FileInv, Facts, RowFiles
    <3> HIDE DEF w, row
    <3> QED BY <1>1, <2>1, <3>1, <3>2, <3>3, WorkStep
  <2>4. CASE ~(row.hash # "none" /\ Exists(user[p], row.path))
    <3>1. UNCHANGED work /\ Go(p, "request")
      BY <1>4, <2>4 DEF Check
    <3> QED BY <1>1, <2>1, <3>1, SilentStep
  <2> QED BY <2>3, <2>4
<1>5. CASE Request(p)
  <2> DEFINE w == [work[p] EXCEPT !.payload = served[work[p].m]]
  <2>1. work' = [work EXCEPT ![p] = w] /\ Go(p, "resolve")
        /\ UNCHANGED <<files, contested, artifact, user>>
    BY <1>2, <1>5 DEF Request, store, history, sent
  <2>2. w.path = work[p].path /\ w.hash = work[p].hash
    BY <1>2 DEF Works
  <2> HIDE DEF w
  <2> QED BY <1>1, <1>2, <2>1, <2>2, WorkStep
<1>6. CASE Read(p)
  <2>1. PICK text \in Texts, extract \in Texts \union {"bad"} : Digest(p, text, extract)
    BY <1>6, ReadDigests
  <2>2. work[p].m \in Materials
    BY <1>6 DEF Read, TypeInv, Shape, Stages
  <2>3. PICK w \in Works : work' = [work EXCEPT ![p] = w] /\ w.path = work[p].path
                           /\ w.hash = work[p].hash
    BY <2>1, <2>2, DigestKeeps
  <2>4. Go(p, "scan") /\ UNCHANGED <<files, contested, artifact, user>>
    BY <1>6 DEF Read, store, sent
  <2> QED BY <1>1, <1>2, <2>3, <2>4, WorkStep
<1>7. CASE Scan(p)
  <2>1. PICK w \in Works : work' = [work EXCEPT ![p] = w] /\ w.path = work[p].path
                           /\ w.hash = work[p].hash
    BY <1>7, ScanKeeps
  <2>2. Go(p, "record") /\ UNCHANGED <<files, contested, artifact, user>>
    BY <1>7 DEF Scan, history, sent
  <2> QED BY <1>1, <1>2, <2>1, <2>2, WorkStep
<1> QED BY <1>3, <1>4, <1>5, <1>6, <1>7

\* The name of a download is free, or its file has this content already.
LEMMA FilesResolved ==
  ASSUME TypeInv, FileInv, UNCHANGED repair, NEW p \in Runs, NEW n \in Names, Resolve(p, n)
  PROVE  FileInv'
<1> DEFINE u == user[p]
<1>1. /\ pc[p] = "resolve" /\ work \in [Runs -> Works] /\ work[p] \in Works /\ pc \in [Runs -> Places]
      /\ work[p].payload \in Contents
  BY DEF Resolve, TypeInv, TypeOK, Shape, Places
<1>2. UNCHANGED <<files, artifact, user>> /\ contested \subseteq contested'
      /\ (Contended(p, n) => <<u, n>> \in contested')
  BY DEF Resolve, store
<1>3. Kept
  BY <1>2, KeptWhenSame
<1>4. files[u][n] = "none" \/ files[u][n] = work[p].payload
  BY DEF Resolve, Target, Fits, OnFile
<1>5. CASE files[u][n] = "none"
  <2> DEFINE w == [work[p] EXCEPT !.target = n]
  <2>1. work' = [work EXCEPT ![p] = w] /\ pc' = [pc EXCEPT ![p] = "write"]
    BY <1>1, <1>5 DEF Resolve, OnFile, Go
  <2>2. w.path = work[p].path /\ w.hash = work[p].hash /\ w.target = n
    BY <1>1 DEF Works
  <2> HIDE DEF w
  <2>3. /\ work'[p] = w /\ pc'[p] = "write"
        /\ \A q \in Runs \ {p} : work'[q] = work[q] /\ pc'[q] = pc[q] /\ user'[q] = user[q]
    BY <1>1, <1>2, <2>1
  <2>4. Facts'
    <3>1. FileWillBe(user'[p], work'[p].path, work'[p].hash)
      BY <1>2, <1>3, <2>2, <2>3, SaidOf DEF FileInv, Facts, WorkFiles, Kept
    <3> QED BY <1>2, <1>3, <2>3, <3>1, FactsKept DEF FileInv
  <2>5. Writing'
    <3> SUFFICES ASSUME NEW q \in Runs, pc'[q] = "write", <<user'[q], work'[q].target>> \notin contested'
                 PROVE  /\ files'[user'[q]][work'[q].target] = "none"
                        /\ \A r \in Runs \ {q} : pc'[r] = "write" /\ user'[r] = user'[q]
                                                 => work'[r].target # work'[q].target
      BY DEF Writing, WritesAlone
    <3>1. CASE q = p
      <4>1. <<u, n>> \notin contested'
        BY <1>2, <2>2, <2>3, <3>1
      <4>2. \A r \in Runs \ {p} : pc[r] = "write" /\ user[r] = u => work[r].target # n
        BY <1>2, <4>1 DEF Contended
      <4> QED BY <1>2, <1>5, <2>2, <2>3, <3>1, <4>2
    <3>2. CASE q # p
      <4>1. pc[q] = "write" /\ user'[q] = user[q] /\ work'[q] = work[q]
            /\ <<user[q], work[q].target>> \notin contested
        BY <1>2, <2>3, <3>2
      <4>2. /\ files[user[q]][work[q].target] = "none"
            /\ \A r \in Runs \ {q} : pc[r] = "write" /\ user[r] = user[q] => work[r].target # work[q].target
        BY <4>1 DEF FileInv, Writing, WritesAlone
      <4>3. ASSUME NEW r \in Runs \ {q}, pc'[r] = "write", user'[r] = user'[q]
            PROVE  work'[r].target # work'[q].target
        <5>1. CASE r = p
          <6>1. work'[r].target = n /\ user'[r] = u
            BY <1>2, <2>2, <2>3, <5>1
          <6>2. ASSUME work[q].target = n
                PROVE  FALSE
            <7>1. Contended(p, n)
              BY <1>2, <3>2, <4>1, <4>3, <6>1, <6>2 DEF Contended
            <7> QED BY <1>2, <4>1, <4>3, <6>1, <6>2, <7>1
          <6> QED BY <4>1, <6>1, <6>2
        <5>2. CASE r # p
          BY <2>3, <4>1, <4>2, <4>3, <5>2
        <5> QED BY <5>1, <5>2
      <4> QED BY <1>2, <4>1, <4>2, <4>3
    <3> QED BY <3>1, <3>2
  <2> QED BY <2>4, <2>5 DEF FileInv
<1>6. CASE files[u][n] # "none"
  <2> DEFINE w == Obtained(work[p], n, work[p].payload, FALSE)
  <2>1. work' = [work EXCEPT ![p] = w] /\ pc' = [pc EXCEPT ![p] = "read"]
    BY <1>6 DEF Resolve, OnFile, Go
  <2>2. w.path = n /\ w.hash = work[p].payload
    <3>1. n \in Names \union {NoName} /\ work[p].payload \in Texts /\ FALSE \in BOOLEAN
      BY <1>1 DEF Texts
    <3> QED BY <1>1, <3>1, ObtainedIsWork
  <2> HIDE DEF w
  <2>3. /\ work'[p] = w /\ pc'[p] = "read"
        /\ \A q \in Runs \ {p} : work'[q] = work[q] /\ pc'[q] = pc[q] /\ user'[q] = user[q]
    BY <1>1, <1>2, <2>1
  <2>4. Facts'
    <3>1. FileWillBe(user'[p], work'[p].path, work'[p].hash)
      BY <1>1, <1>2, <1>4, <1>6, <2>2, <2>3 DEF FileWillBe
    <3> QED BY <1>2, <1>3, <2>3, <3>1, FactsKept DEF FileInv
  <2>5. Writing'
    BY <1>2, <2>3, WritingKept DEF FileInv
  <2> QED BY <2>4, <2>5 DEF FileInv
<1> QED BY <1>5, <1>6

\* A download ends: the file is whole, or half of it may stay behind.
LEMMA FilesDownloaded ==
  ASSUME TypeInv, FileInv, UNCHANGED repair, NEW p \in Runs, Write(p) \/ DownloadFails(p)
  PROVE  FileInv'
<1>1. work \in [Runs -> Works] /\ work[p] \in Works /\ pc \in [Runs -> Places] /\ user[p] \in Owners
  BY DEF TypeInv, TypeOK, Places
<1>2. CASE Write(p)
  <2> DEFINE w == Obtained(work[p], work[p].target, work[p].payload, TRUE)
  <2>1. /\ work' = [work EXCEPT ![p] = w] /\ pc' = [pc EXCEPT ![p] = "read"] /\ pc[p] = "write"
        /\ files' = [files EXCEPT ![user[p]][work[p].target] = work[p].payload]
        /\ UNCHANGED <<contested, artifact, user>>
    BY <1>2 DEF Write, Go, history, sent
  <2>2. work[p].payload \in Contents /\ work[p].target \in Names
    BY <2>1 DEF TypeInv, Shape
  <2>3. w.path = work[p].target /\ w.hash = work[p].payload
    <3>1. work[p].target \in Names \union {NoName} /\ work[p].payload \in Texts /\ TRUE \in BOOLEAN
      BY <2>2 DEF Texts
    <3> QED BY <1>1, <3>1, ObtainedIsWork
  <2> HIDE DEF w
  <2>4. /\ work'[p] = w /\ pc'[p] = "read"
        /\ \A q \in Runs \ {p} : work'[q] = work[q] /\ pc'[q] = pc[q] /\ user'[q] = user[q]
    BY <1>1, <2>1
  <2>5. Kept /\ Writing' /\ files'[user[p]][work[p].target] = work[p].payload
    BY <2>1, <2>4, FileWritten
  <2>6. FileWillBe(user'[p], work'[p].path, work'[p].hash)
    BY <2>1, <2>2, <2>3, <2>4, <2>5 DEF FileWillBe
  <2>7. Facts'
    BY <2>1, <2>4, <2>5, <2>6, FactsKept DEF FileInv
  <2> QED BY <2>5, <2>7 DEF FileInv
<1>3. CASE DownloadFails(p)
  <2> DEFINE w1 == [work[p] EXCEPT !.payload = "none"]
             w == [w1 EXCEPT !.target = NoName]
  <2>1. /\ work' = [work EXCEPT ![p] = w] /\ Go(p, "read") /\ pc' = [pc EXCEPT ![p] = "read"]
        /\ UNCHANGED <<contested, artifact, user>>
    BY <1>1, <1>3 DEF DownloadFails, Go, sent
  <2>2. w.path = work[p].path /\ w.hash = work[p].hash
    <3>1. w1 \in Works /\ w1.path = work[p].path /\ w1.hash = work[p].hash
      BY <1>1 DEF Works
    <3> HIDE DEF w1
    <3> QED BY <3>1 DEF Works
  <2> HIDE DEF w
  <2>3. CASE UNCHANGED files
    <3>1. FileIs(user[p], w.path, w.hash)
      BY <2>2 DEF FileInv, Facts, WorkFiles
    <3>2. "read" \in Places \ {"write"}
      BY DEF Places
    <3> QED BY <2>1, <2>3, <3>1, <3>2, WorkStep
  <2>4. CASE pc[p] = "write" /\ files' = [files EXCEPT ![user[p]][work[p].target] = "torn"]
    <3>1. /\ work'[p] = w /\ pc'[p] = "read"
          /\ \A q \in Runs \ {p} : work'[q] = work[q] /\ pc'[q] = pc[q] /\ user'[q] = user[q]
      BY <1>1, <2>1
    <3>2. Kept /\ Writing'
      BY <2>1, <2>4, <3>1, FileWritten
    <3>3. FileWillBe(user'[p], work'[p].path, work'[p].hash)
      BY <2>1, <2>2, <3>1, <3>2, SaidOf DEF FileInv, Facts, WorkFiles, Kept
    <3>4. Facts'
      BY <2>1, <3>1, <3>2, <3>3, FactsKept DEF FileInv
    <3> QED BY <3>2, <3>4 DEF FileInv
  <2> QED BY <1>3, <2>3, <2>4 DEF DownloadFails
<1> QED BY <1>2, <1>3

\* A row is written, by the collection or by a repair, or the process is killed.
LEMMA FilesRecorded ==
  ASSUME TypeInv, FileInv,
         \/ UNCHANGED repair /\ \E p \in Runs : Record(p) \/ Kill(p)
         \/ \E o \in Users : StartRepair(o)
         \/ \E e \in repair : RepairRow(e)
  PROVE  FileInv'
<1>1. artifact \in [Owners -> [Materials -> Rows]]
  BY DEF TypeInv, TypeOK
<1>2. ASSUME UNCHANGED repair, NEW p \in Runs, Record(p)
      PROVE  FileInv'
  <2> DEFINE w == work[p]
             row == [path |-> w.path, hash |-> w.hash, extract |-> w.extract, brief |-> w.brief,
                     scan |-> w.scan]
  <2>1. /\ pc[p] = "record" /\ artifact' = [artifact EXCEPT ![user[p]][w.m] = row]
        /\ work' = [work EXCEPT ![p] = NoWork] /\ pc' = [pc EXCEPT ![p] = "open"]
        /\ UNCHANGED <<files, contested, user>>
    BY <1>2 DEF Record, Go
  <2>2. user[p] \in Owners /\ w.m \in Materials /\ FileIs(user[p], w.path, w.hash)
    BY <2>1 DEF TypeInv, TypeOK, Shape, Stages, FileInv, Facts, WorkFiles
  <2>3. \A o \in Owners, m \in Materials :
          artifact'[o][m] = artifact[o][m]
          \/ (o = user[p] /\ artifact'[o][m].path = w.path /\ artifact'[o][m].hash = w.hash)
    <3>1. row.path = w.path /\ row.hash = w.hash
      OBVIOUS
    <3> HIDE DEF row, w
    <3> QED BY <1>1, <2>1, <2>2, <3>1
  <2>4. Kept /\ FileWillBe(user[p], w.path, w.hash)
    BY <2>1, <2>2, KeptWhenSame DEF FileIs, FileWillBe
  <2>5. /\ work'[p] = NoWork /\ pc'[p] = "open"
        /\ \A q \in Runs \ {p} : work'[q] = work[q] /\ pc'[q] = pc[q] /\ user'[q] = user[q]
    BY <2>1 DEF TypeInv, TypeOK
  <2>6. FileWillBe(user'[p], work'[p].path, work'[p].hash)
    BY <2>5, EmptyRecords, NothingSaid
  <2>7. Facts'
    <3> HIDE DEF w
    <3>1. \A o \in Owners, m \in Materials :
            artifact'[o][m] = artifact[o][m]
            \/ FileWillBe(o, artifact'[o][m].path, artifact'[o][m].hash)
      BY <2>3, <2>4
    <3> QED BY <1>2, <2>4, <2>5, <2>6, <3>1, FactsKept DEF FileInv
  <2>8. Writing'
    BY <2>1, <2>5, WritingKept DEF FileInv
  <2> QED BY <2>7, <2>8 DEF FileInv
<1>3. ASSUME UNCHANGED repair, NEW p \in Runs, Kill(p)
      PROVE  FileInv'
  <2>1. Go(p, "idle") /\ Forget(p) /\ UNCHANGED <<contested, artifact>>
    BY <1>3 DEF Kill, sent
  <2>2. CASE UNCHANGED files
    BY <1>3, <2>1, <2>2, LeaveStep
  <2>3. CASE pc[p] = "write" /\ files' = [files EXCEPT ![user[p]][work[p].target] = "torn"]
    <3>1. work'[p].path = NoName /\ \A q \in Runs \ {p} : user'[q] = user[q] /\ work'[q] = work[q]
      BY <2>1, ForgetTyped, EmptyRecords DEF TypeInv
    <3>2. pc'[p] = "idle" /\ \A q \in Runs \ {p} : pc'[q] = pc[q]
      BY <2>1 DEF Go, TypeInv, TypeOK
    <3>3. Kept /\ Writing'
      BY <2>1, <2>3, <3>1, <3>2, FileWritten
    <3>4. Facts'
      BY <1>3, <2>1, <3>1, <3>3, NothingSaid, FactsKept DEF FileInv
    <3> QED BY <3>3, <3>4 DEF FileInv
  <2> QED BY <1>3, <2>2, <2>3 DEF Kill
<1>4. ASSUME NEW o \in Users, StartRepair(o)
      PROVE  FileInv'
  <2>1. UNCHANGED <<files, contested, artifact, user, work, pc>>
    BY <1>4 DEF StartRepair, store, locals, history, sent
  <2>2. Kept
    BY <2>1, KeptWhenSame
  <2>3. \A e \in repair' : FileWillBe(e[1], e[3].path, e[3].hash)
    <3>1. ASSUME NEW e \in repair'
          PROVE  FileWillBe(e[1], e[3].path, e[3].hash)
      <4>1. PICK m \in Materials : e = <<o, m, artifact[o][m]>>
        BY <1>4, <3>1 DEF StartRepair
      <4>2. o \in Owners
        BY DEF Owners
      <4> QED BY <2>2, <4>1, <4>2, SaidOf DEF FileInv, Facts, RowFiles, Kept
    <3> QED BY <3>1
  <2>4. Facts'
    <3>1. Poller \in Runs /\ FileWillBe(user[Poller], work[Poller].path, work[Poller].hash)
      BY <2>2, SaidOf DEF FileInv, Facts, WorkFiles, Kept, Runs
    <3> QED BY <2>1, <2>2, <2>3, <3>1, FactsKept DEF FileInv
  <2>5. Writing'
    BY <2>1, WritingKept DEF FileInv, Runs
  <2> QED BY <2>4, <2>5 DEF FileInv
<1>5. ASSUME NEW e \in repair, RepairRow(e)
      PROVE  FileInv'
  <2> DEFINE o == e[1]
             row == e[3]
  <2>1. UNCHANGED <<files, contested, user, work, pc>> /\ repair' = repair \ {e}
    BY <1>5 DEF RepairRow, locals
  <2>2. Kept /\ o \in Owners /\ e[2] \in Materials /\ row \in Rows /\ FileIs(o, row.path, row.hash)
    BY <2>1, KeptWhenSame, SaidOf DEF FileInv, Facts, RepairFiles
  <2>3. \A x \in Owners, m \in Materials :
          artifact'[x][m] = artifact[x][m]
          \/ FileWillBe(x, artifact'[x][m].path, artifact'[x][m].hash)
    <3>1. CASE UNCHANGED artifact
      BY <3>1
    <3>2. ASSUME NEW text \in RepairText(o, row),
                 artifact' = [artifact EXCEPT ![o][e[2]] =
                   [row EXCEPT !.path = IF Exists(o, row.path) THEN row.path ELSE NoName,
                               !.extract = text, !.brief = text]]
          PROVE  \A x \in Owners, m \in Materials :
                   artifact'[x][m] = artifact[x][m]
                   \/ FileWillBe(x, artifact'[x][m].path, artifact'[x][m].hash)
      <4> DEFINE path == IF Exists(o, row.path) THEN row.path ELSE NoName
                 new  == [row EXCEPT !.path = path, !.extract = text, !.brief = text]
      <4>1. new.path = path /\ new.hash = row.hash
        <5>1. row \in Rows
          BY <2>2
        <5> HIDE DEF row, path
        <5> QED BY <5>1 DEF Rows
      <4>2. FileWillBe(o, path, row.hash)
        BY <2>1, <2>2, NothingSaid DEF FileIs, FileWillBe
      <4>3. \A x \in Owners, m \in Materials :
              artifact'[x][m] = artifact[x][m] \/ (x = o /\ artifact'[x][m] = new)
        <5>1. artifact' = [artifact EXCEPT ![o][e[2]] = new]
          BY <3>2
        <5> HIDE DEF new, o
        <5> QED BY <1>1, <2>2, <5>1
      <4> HIDE DEF new, path, o, row
      <4> QED BY <4>1, <4>2, <4>3
    <3> QED BY <1>5, <3>1, <3>2 DEF RepairRow
  <2>4. Facts'
    <3>1. Poller \in Runs /\ FileWillBe(user[Poller], work[Poller].path, work[Poller].hash)
      BY <2>2, SaidOf DEF FileInv, Facts, WorkFiles, Kept, Runs
    <3> QED BY <2>1, <2>2, <2>3, <3>1, FactsKept DEF FileInv
  <2>5. Writing'
    BY <2>1, WritingKept DEF FileInv, Runs
  <2> QED BY <2>4, <2>5 DEF FileInv
<1> QED BY <1>2, <1>3, <1>4, <1>5

\* Every step keeps true what is said of the files.
LEMMA StepKeepsFiles == TypeInv /\ FileInv /\ [Next]_vars => FileInv'
<1> SUFFICES ASSUME TypeInv, FileInv, [Next]_vars PROVE FileInv'
  OBVIOUS
<1>1. CASE UNCHANGED vars
  <2>1. UNCHANGED <<files, contested, artifact, repair, user, work, pc>>
    BY <1>1 DEF vars, store, locals, history, sent
  <2> QED BY <2>1, SilentStep DEF Runs
<1>2. CASE (\E o \in Users : StartRepair(o)) \/ \E e \in repair : RepairRow(e)
  BY <1>2, FilesRecorded
<1>3. CASE UNCHANGED repair /\ (Environment \/ StartPoller \/ \E u \in Users : StartRefresher(u))
  BY <1>3, FilesOutside
<1>4. ASSUME UNCHANGED repair, NEW p \in Runs, Step(p)
      PROVE  FileInv'
  <2>1. CASE \/ \E o \in Owners : Skip(p, o) \/ NextTarget(p, o)
             \/ EndRun(p) \/ Fetch(p)
             \/ \E t \in WsTasks, s \in Statuses : PersistTask(p, t, s)
             \/ Push(p) \/ Finish(p) \/ Raise(p)
    BY <1>4, <2>1, FilesBetween
  <2>2. CASE (\E m \in Materials : Open(p, m)) \/ Check(p) \/ Request(p) \/ Read(p) \/ Scan(p)
    BY <1>4, <2>2, FilesInStages
  <2>3. CASE \E n \in Names : Resolve(p, n)
    BY <1>4, <2>3, FilesResolved
  <2>4. CASE Write(p) \/ DownloadFails(p)
    BY <1>4, <2>4, FilesDownloaded
  <2>5. CASE Record(p) \/ Kill(p)
    BY <1>4, <2>5, FilesRecorded
  <2> QED BY <1>4, <2>1, <2>2, <2>3, <2>4, <2>5 DEF Step
<1> QED BY <1>1, <1>2, <1>3, <1>4 DEF Next

\* A file that a row names, and nobody lost or fought about, has the bytes the hash of the row
\* was taken from: no download that fails, half written file, kill, repair or material of the
\* same name puts other bytes under a name that a row has, in any number of runs.
THEOREM RowsNameTheirFiles == Spec => []HashOfFile
<1>1. Init => FileInv
  <2> SUFFICES ASSUME Init PROVE FileInv
    OBVIOUS
  <2>1. Facts
    BY NothingSaid, EmptyRecords DEF Init, Facts, RowFiles, WorkFiles, RepairFiles, NoRow
  <2>2. Writing
    BY DEF Init, Writing, WritesAlone
  <2> QED BY <2>1, <2>2 DEF FileInv
<1>2. TypeInv /\ FileInv /\ [Next]_vars => FileInv'
  BY StepKeepsFiles
<1>3. TypeInv /\ FileInv => HashOfFile
  <2> SUFFICES ASSUME TypeInv, FileInv, NEW o \in Owners, NEW m \in Materials,
                      Exists(o, artifact[o][m].path), <<o, artifact[o][m].path>> \notin contested
               PROVE  files[o][artifact[o][m].path] = artifact[o][m].hash
    BY DEF HashOfFile, TypeInv
  <2>1. FileIs(o, artifact[o][m].path, artifact[o][m].hash)
    BY DEF FileInv, Facts, RowFiles
  <2> QED BY <2>1 DEF FileIs, Exists
<1> QED BY <1>1, <1>2, <1>3, TypeCorrect, PTL DEF Spec

-----------------------------------------------------------------------------
(* Briefs                                                                   *)

\* A brief of the run is in a row, or is the one of the material at hand.
BriefsRecorded(p) ==
  \A b \in briefs[p] :
    \/ <<user[p], b[1], b[2]>> \in recorded
    \/ pc[p] \in {"scan", "record"} /\ work[p].m = b[1] /\ work[p].brief = b[2]
\* A brief that was sent has been in a row.
PushedRecorded ==
  \A o \in Owners, m \in Materials, c \in Contents : pushes[o][m][c] > 0 => <<o, m, c>> \in recorded

BriefInv == PushedRecorded /\ \A p \in Runs : BriefsRecorded(p)

\* What has been in a row stays remembered.
LEMMA RecordedGrows ==
  ASSUME [Next]_vars
  PROVE  recorded \subseteq recorded'
<1>1. CASE Environment
  BY <1>1 DEF Environment, Replace, Submit, Done, Lose, sent
<1>2. CASE StartPoller \/ \E u \in Users : StartRefresher(u)
  BY <1>2 DEF StartPoller, StartRefresher, Begin, sent
<1>3. ASSUME NEW p \in Runs, Step(p)
      PROVE  recorded \subseteq recorded'
  <2>1. CASE \/ EndRun(p) \/ Fetch(p) \/ \E o \in Owners : Skip(p, o) \/ NextTarget(p, o)
    BY <2>1 DEF EndRun, Fetch, Skip, NextTarget, history, sent
  <2>2. CASE \/ \E t \in WsTasks, s \in Statuses : PersistTask(p, t, s)
             \/ \E m \in Materials : Open(p, m)
             \/ Check(p) \/ Request(p) \/ (\E n \in Names : Resolve(p, n)) \/ Write(p) \/ DownloadFails(p)
    BY <2>2 DEF PersistTask, Open, Check, Request, Resolve, Write, DownloadFails, history, sent
  <2>3. CASE Read(p) \/ Scan(p) \/ Record(p)
    BY <2>3 DEF Read, Scan, Record, history, sent
  <2>4. CASE Push(p) \/ Finish(p) \/ Raise(p) \/ Kill(p)
    BY <2>4 DEF Push, Finish, Raise, Kill, history, sent
  <2> QED BY <1>3, <2>1, <2>2, <2>3, <2>4 DEF Step
<1>4. CASE (\E o \in Users : StartRepair(o)) \/ \E e \in repair : RepairRow(e)
  BY <1>4 DEF StartRepair, RepairRow, history, sent
<1>5. CASE UNCHANGED vars
  BY <1>5 DEF vars, history, sent
<1> QED BY <1>1, <1>2, <1>3, <1>4, <1>5 DEF Next

\* A run leaves the other one's locals alone.
LEMMA RunsAreApart ==
  ASSUME TypeInv, NEW p \in Runs, Step(p), NEW q \in Runs \ {p}
  PROVE  /\ pc'[q] = pc[q] /\ user'[q] = user[q] /\ work'[q] = work[q]
         /\ briefs'[q] = briefs[q] /\ left'[q] = left[q]
<1>1. /\ pc \in [Runs -> Places] /\ user \in [Runs -> Owners] /\ work \in [Runs -> Works]
      /\ left \in [Runs -> Seq(Materials)]
      /\ briefs \in [Runs -> SUBSET (Materials \X Contents)]
  BY DEF TypeInv, TypeOK, Places
<1>2. CASE \/ EndRun(p) \/ Fetch(p) \/ (\E o \in Owners : Skip(p, o)) \/ Push(p)
           \/ \E t \in WsTasks, s \in Statuses : PersistTask(p, t, s)
  BY <1>1, <1>2 DEF EndRun, Fetch, Skip, Push, PersistTask, Go, locals
<1>3. CASE \/ \E m \in Materials : Open(p, m)
           \/ Check(p) \/ Request(p) \/ (\E n \in Names : Resolve(p, n)) \/ Write(p)
  BY <1>1, <1>3 DEF Open, Check, Request, Resolve, Write, Go
<1>4. CASE DownloadFails(p)
  BY <1>1, <1>4 DEF DownloadFails, Go
<1>5. CASE Record(p)
  BY <1>1, <1>5 DEF Record, Go
<1>6. CASE Read(p)
  <2>1. PICK text \in Texts, extract \in Texts \union {"bad"} : Digest(p, text, extract)
    BY <1>6, ReadDigests
  <2>2. work[p].m \in Materials
    BY <1>6 DEF Read, TypeInv, Shape, Stages
  <2>3. PICK w \in Works : work' = [work EXCEPT ![p] = w] /\ briefs'[q] = briefs[q]
    BY <2>1, <2>2, DigestKeeps
  <2> QED BY <1>1, <1>6, <2>3 DEF Read, Go
<1>7. CASE Scan(p)
  <2>1. PICK w \in Works : work' = [work EXCEPT ![p] = w]
    BY <1>7, ScanKeeps
  <2> QED BY <1>1, <1>7, <2>1 DEF Scan, Go
<1>8. CASE Finish(p) \/ Raise(p) \/ Kill(p) \/ \E o \in Owners : NextTarget(p, o)
  <2>1. \/ Forget(p) /\ \E place : Go(p, place)
        \/ \E o : Go(p, "fetch") /\ user' = [user EXCEPT ![p] = o] /\ UNCHANGED <<left, work, briefs>>
    BY <1>8 DEF Finish, Raise, Fail, Kill, NextTarget
  <2>2. CASE Forget(p) /\ \E place : Go(p, place)
    BY <1>1, <2>2, ForgetTyped DEF Go, TypeInv
  <2>3. CASE \E o : Go(p, "fetch") /\ user' = [user EXCEPT ![p] = o] /\ UNCHANGED <<left, work, briefs>>
    BY <1>1, <2>3 DEF Go
  <2> QED BY <2>1, <2>2, <2>3
<1> QED BY <1>2, <1>3, <1>4, <1>5, <1>6, <1>7, <1>8 DEF Step

\* The briefs a run has after a step of its own.
LEMMA OwnBriefs ==
  ASSUME TypeInv, NEW p \in Runs, Step(p), BriefsRecorded(p), recorded \subseteq recorded'
  PROVE  BriefsRecorded(p)'
<1>1. /\ pc \in [Runs -> Places] /\ work \in [Runs -> Works]
      /\ briefs \in [Runs -> SUBSET (Materials \X Contents)]
  BY DEF TypeInv, TypeOK, Places
<1>2. CASE UNCHANGED <<user, briefs>> /\ pc[p] \notin {"scan", "record"}
  BY <1>2 DEF BriefsRecorded
<1>3. CASE Forget(p)
  BY <1>3, ForgetTyped DEF BriefsRecorded, TypeInv
<1>4. CASE \E o \in Owners : NextTarget(p, o)
  <2>1. pc[p] = "target" /\ (Forget(p) \/ UNCHANGED briefs)
    BY <1>4 DEF NextTarget, Fail
  <2>2. briefs[p] = {}
    BY <2>1 DEF TypeInv, Shape
  <2> QED BY <1>3, <2>1, <2>2 DEF BriefsRecorded
<1>5. CASE Finish(p) \/ Raise(p) \/ Kill(p)
  BY <1>3, <1>5 DEF Finish, Raise, Fail, Kill
<1>6. CASE \/ EndRun(p) \/ Fetch(p) \/ (\E o \in Owners : Skip(p, o)) \/ Push(p)
           \/ \E t \in WsTasks, s \in Statuses : PersistTask(p, t, s)
  BY <1>2, <1>6 DEF EndRun, Fetch, Skip, Push, PersistTask, locals
<1>7. CASE \/ \E m \in Materials : Open(p, m)
           \/ Check(p) \/ Request(p) \/ (\E n \in Names : Resolve(p, n)) \/ Write(p)
           \/ DownloadFails(p)
  BY <1>2, <1>7 DEF Open, Check, Request, Resolve, Write, DownloadFails
<1>8. CASE Read(p)
  <2>1. PICK text \in Texts, extract \in Texts \union {"bad"} : Digest(p, text, extract)
    BY <1>8, ReadDigests
  <2>2. work[p].m \in Materials /\ pc[p] = "read"
    BY <1>8 DEF Read, TypeInv, Shape, Stages
  <2>3. PICK w \in Works :
          /\ work' = [work EXCEPT ![p] = w] /\ w.m = work[p].m
          /\ \/ briefs'[p] = briefs[p]
             \/ briefs'[p] = briefs[p] \union {<<work[p].m, text>>} /\ w.brief = text
    BY <2>1, <2>2, DigestKeeps
  <2>4. work'[p] = w /\ pc'[p] = "scan" /\ user' = user
    BY <1>1, <1>8, <2>3 DEF Read, Go
  <2>5. \A b \in briefs[p] : <<user[p], b[1], b[2]>> \in recorded
    BY <2>2 DEF BriefsRecorded
  <2>6. \A b \in briefs'[p] : b \in briefs[p] \/ (b[1] = w.m /\ b[2] = w.brief)
    BY <2>3
  <2> QED BY <2>4, <2>5, <2>6 DEF BriefsRecorded
<1>9. CASE Scan(p)
  <2>1. PICK w \in Works : work' = [work EXCEPT ![p] = w] /\ w.m = work[p].m
                           /\ w.brief = work[p].brief
    BY <1>9, ScanKeeps
  <2>2. work'[p] = w /\ pc'[p] = "record" /\ UNCHANGED <<user, briefs>>
    BY <1>1, <1>9, <2>1 DEF Scan, Go
  <2> QED BY <2>1, <2>2 DEF BriefsRecorded
<1>10. CASE Record(p)
  <2>1. /\ UNCHANGED <<user, briefs>>
        /\ work[p].brief # "none" => <<user[p], work[p].m, work[p].brief>> \in recorded'
    BY <1>10 DEF Record
  <2>2. \A b \in briefs[p] : b[2] \in Contents
    BY <1>1
  <2>3. "none" \notin Contents
    BY ConstantsAssumption
  <2>4. ASSUME NEW b \in briefs[p]
        PROVE  <<user[p], b[1], b[2]>> \in recorded'
    <3>1. CASE <<user[p], b[1], b[2]>> \in recorded
      BY <3>1
    <3>2. CASE work[p].m = b[1] /\ work[p].brief = b[2]
      BY <2>1, <2>2, <2>3, <3>2
    <3> QED BY <3>1, <3>2 DEF BriefsRecorded
  <2> QED BY <2>1, <2>4 DEF BriefsRecorded
<1> QED BY <1>4, <1>5, <1>6, <1>7, <1>8, <1>9, <1>10 DEF Step

\* A brief is sent by the push of a run only, of those the run has.
LEMMA PushesMove ==
  ASSUME TypeInv, BriefInv, [Next]_vars
  PROVE  PushedRecorded'
<1>1. recorded \subseteq recorded'
  BY RecordedGrows
<1>2. CASE UNCHANGED pushes
  BY <1>1, <1>2 DEF BriefInv, PushedRecorded
<1>3. ASSUME NEW p \in Runs, Push(p)
      PROVE  PushedRecorded'
  <2>1. pc[p] = "open" /\ UNCHANGED recorded
    BY <1>3 DEF Push
  <2>2. \A b \in briefs[p] : <<user[p], b[1], b[2]>> \in recorded
    BY <2>1 DEF BriefInv, BriefsRecorded
  <2>3. CASE pushes' = [pushes EXCEPT ![user[p]] =
             [m \in Materials |-> [c \in Contents |->
                pushes[user[p]][m][c] + IF <<m, c>> \in briefs[p] THEN 1 ELSE 0]]]
    <3>1. pushes \in [Owners -> [Materials -> [Contents -> Nat]]] /\ user[p] \in Owners
      BY DEF TypeInv, TypeOK
    <3> SUFFICES ASSUME NEW o \in Owners, NEW m \in Materials, NEW c \in Contents,
                        pushes'[o][m][c] > 0
                 PROVE  <<o, m, c>> \in recorded
      BY <2>1 DEF PushedRecorded
    <3>2. CASE o # user[p] \/ <<m, c>> \notin briefs[p]
      <4>1. pushes'[o][m][c] = pushes[o][m][c]
        BY <2>3, <3>1, <3>2
      <4> QED BY <4>1 DEF BriefInv, PushedRecorded
    <3>3. CASE o = user[p] /\ <<m, c>> \in briefs[p]
      BY <2>2, <3>3
    <3> QED BY <3>2, <3>3
  <2> QED BY <1>2, <1>3, <2>3 DEF Push
<1>4. CASE Environment
  BY <1>2, <1>4 DEF Environment, Replace, Submit, Done, Lose, sent
<1>5. CASE StartPoller \/ \E u \in Users : StartRefresher(u)
  BY <1>2, <1>5 DEF StartPoller, StartRefresher, Begin, sent
<1>6. ASSUME NEW p \in Runs, Step(p)
      PROVE  PushedRecorded'
  <2>1. CASE \/ EndRun(p) \/ Fetch(p) \/ \E o \in Owners : Skip(p, o) \/ NextTarget(p, o)
    BY <1>2, <2>1 DEF EndRun, Fetch, Skip, NextTarget, history, sent
  <2>2. CASE \/ \E t \in WsTasks, s \in Statuses : PersistTask(p, t, s)
             \/ \E m \in Materials : Open(p, m)
             \/ Check(p) \/ Request(p) \/ (\E n \in Names : Resolve(p, n)) \/ Write(p) \/ DownloadFails(p)
    BY <1>2, <2>2 DEF PersistTask, Open, Check, Request, Resolve, Write, DownloadFails, history, sent
  <2>3. CASE Read(p) \/ Scan(p) \/ Record(p)
    BY <1>2, <2>3 DEF Read, Scan, Record, history, sent
  <2>4. CASE Finish(p) \/ Raise(p) \/ Kill(p)
    BY <1>2, <2>4 DEF Finish, Raise, Kill, history, sent
  <2> QED BY <1>3, <1>6, <2>1, <2>2, <2>3, <2>4 DEF Step
<1>7. CASE (\E o \in Users : StartRepair(o)) \/ \E e \in repair : RepairRow(e)
  BY <1>2, <1>7 DEF StartRepair, RepairRow, history, sent
<1>8. CASE UNCHANGED vars
  BY <1>2, <1>8 DEF vars, history, sent
<1> QED BY <1>4, <1>5, <1>6, <1>7, <1>8 DEF Next

\* A brief that was sent was written to its row before, by whichever run and whatever failed in
\* between: that is what keeps a later collection from sending it again.  It is the second half
\* of PushesBounded.
THEOREM SentBriefsAreRecorded == Spec => []PushedRecorded
<1>1. Init => BriefInv
  BY DEF Init, BriefInv, PushedRecorded, BriefsRecorded
<1>2. TypeInv /\ BriefInv /\ [Next]_vars => BriefInv'
  <2> SUFFICES ASSUME TypeInv, BriefInv, [Next]_vars, NEW q \in Runs
               PROVE  BriefsRecorded(q)'
    BY PushesMove DEF BriefInv
  <2>1. recorded \subseteq recorded' /\ BriefsRecorded(q)
    BY RecordedGrows DEF BriefInv
  <2>2. CASE UNCHANGED <<user, briefs, work, pc>>
    BY <2>1, <2>2 DEF BriefsRecorded
  <2>3. ASSUME NEW p \in Runs, Step(p)
        PROVE  BriefsRecorded(q)'
    <3>1. CASE q = p
      BY <2>1, <2>3, <3>1, OwnBriefs
    <3>2. CASE q # p
      <4>1. pc'[q] = pc[q] /\ user'[q] = user[q] /\ work'[q] = work[q] /\ briefs'[q] = briefs[q]
        BY <2>3, <3>2, RunsAreApart
      <4> QED BY <2>1, <4>1 DEF BriefsRecorded
    <3> QED BY <3>1, <3>2
  <2>4. CASE StartPoller \/ \E u \in Users : StartRefresher(u)
    <3>1. PICK p \in Runs, T \in SUBSET Owners : Begin(p, T) /\ pc[p] = "idle"
      BY <2>4 DEF StartPoller, StartRefresher, Runs, Targets, Connected, Owners
    <3>2. UNCHANGED <<user, briefs, work>> /\ briefs[p] = {}
      BY <3>1 DEF Begin, TypeInv, Shape
    <3>3. q # p => pc'[q] = pc[q]
      BY <3>1 DEF Begin, Go, TypeInv, TypeOK
    <3> QED BY <2>1, <3>2, <3>3 DEF BriefsRecorded
  <2>5. CASE Environment
    BY <2>2, <2>5 DEF Environment, Replace, Submit, Done, Lose, locals
  <2>6. CASE (\E o \in Users : StartRepair(o)) \/ \E e \in repair : RepairRow(e)
    BY <2>2, <2>6 DEF StartRepair, RepairRow, locals
  <2>7. CASE UNCHANGED vars
    BY <2>2, <2>7 DEF vars, locals
  <2> QED BY <2>3, <2>4, <2>5, <2>6, <2>7 DEF Next
<1>3. BriefInv => PushedRecorded
  BY DEF BriefInv
<1> QED BY <1>1, <1>2, <1>3, TypeCorrect, PTL DEF Spec

-----------------------------------------------------------------------------
(* Briefs sent once                                                         *)

\* A run takes every material once: those still to come are different ones, and it has no
\* brief of any of them, nor of the material at hand before its text was read.
Distinct(p) ==
  /\ \A i, j \in DOMAIN left[p] : left[p][i] = left[p][j] => i = j
  /\ \A i \in DOMAIN left[p], b \in briefs[p] : left[p][i] # b[1]
  /\ pc[p] \in Stages => \A i \in DOMAIN left[p] : left[p][i] # work[p].m
  /\ pc[p] \in Stages \ {"scan", "record"} => \A b \in briefs[p] : b[1] # work[p].m
  /\ pc[p] = "fetch" => briefs[p] = {}

\* A run that has nothing left has nothing twice.
LEMMA NothingLeft ==
  ASSUME NEW p \in Runs, left[p] = <<>>, briefs[p] = {}
  PROVE  Distinct(p)
BY DEF Distinct

\* What a download does to the working state: nothing, or a file is named that is there.
LEMMA DownloadKeeps ==
  ASSUME TypeInv, NEW p \in Runs,
         Check(p) \/ Request(p) \/ (\E n \in Names : Resolve(p, n)) \/ Write(p) \/ DownloadFails(p)
  PROVE  \E w \in Works :
           /\ work' = [work EXCEPT ![p] = w]
           /\ w.m = work[p].m /\ w.old = work[p].old /\ w.brief = work[p].brief
           /\ \/ w.path = work[p].path /\ w.hash = work[p].hash /\ w.fresh = work[p].fresh
              \/ /\ Check(p) /\ ~w.fresh
                 /\ w.path = artifact[user[p]][w.m].path /\ w.hash = artifact[user[p]][w.m].hash
                 /\ w.hash # "none" /\ Exists(user[p], w.path)
              \/ /\ pc[p] \in {"resolve", "write"}
                 /\ w.path \in Names /\ w.hash \in Contents /\ files'[user[p]][w.path] # "none"
<1>1. /\ work \in [Runs -> Works] /\ work[p] \in Works /\ user[p] \in Owners
      /\ files \in [Owners -> [Names -> Contents \union {"none", "torn"}]]
      /\ "none" \notin Contents
  BY ConstantsAssumption DEF TypeInv, TypeOK
<1>2. /\ pc[p] \in Stages => work[p].m \in Materials
      /\ pc[p] \in {"resolve", "write"} => work[p].payload \in Contents
      /\ pc[p] = "write" => work[p].target \in Names
  BY DEF TypeInv, Shape
<1>3. CASE Check(p)
  <2> DEFINE row == artifact[user[p]][work[p].m]
  <2>1. row \in Rows
    BY <1>2, <1>3, RowOfMaterial DEF Check, Stages
  <2>2. CASE row.hash # "none" /\ Exists(user[p], row.path)
    <3> DEFINE w == Obtained(work[p], row.path, row.hash, FALSE)
    <3>1. work' = [work EXCEPT ![p] = w]
      BY <1>3, <2>2 DEF Check
    <3>2. /\ w \in Works /\ w.m = work[p].m /\ w.old = work[p].old /\ w.brief = work[p].brief
          /\ w.path = row.path /\ w.hash = row.hash /\ w.fresh = FALSE
      <4>1. row.path \in Names \union {NoName} /\ row.hash \in Texts /\ FALSE \in BOOLEAN
        BY <2>1 DEF Rows, Texts
      <4>2. w = Obtained(work[p], row.path, row.hash, FALSE)
        OBVIOUS
      <4> HIDE DEF row, w
      <4>3. w \in Works /\ w.m = work[p].m /\ w.path = row.path /\ w.hash = row.hash
        BY <1>1, <4>1, <4>2, ObtainedIsWork
      <4>4. w.old = work[p].old /\ w.brief = work[p].brief /\ w.fresh = FALSE
        <5>1. \A f \in BOOLEAN :
                /\ Obtained(work[p], row.path, row.hash, f).old = work[p].old
                /\ Obtained(work[p], row.path, row.hash, f).brief = work[p].brief
                /\ f = FALSE => Obtained(work[p], row.path, row.hash, f).fresh = FALSE
          BY <1>1, <4>1, ObtainedKeeps
        <5> QED BY ONLY <4>2, <5>1, Zenon
      <4> QED BY <4>3, <4>4
    <3>3. /\ w.path = artifact[user[p]][w.m].path /\ w.hash = artifact[user[p]][w.m].hash
          /\ w.hash # "none" /\ Exists(user[p], w.path) /\ ~w.fresh
      <4> HIDE DEF w
      <4> QED BY <2>2, <3>2
    <3> HIDE DEF w
    <3> QED BY <1>3, <3>1, <3>2, <3>3
  <2>3. CASE ~(row.hash # "none" /\ Exists(user[p], row.path))
    <3>1. work' = [work EXCEPT ![p] = work[p]]
      BY <1>1, <1>3, <2>3 DEF Check
    <3> QED BY <1>1, <3>1
  <2> QED BY <2>2, <2>3
<1>4. CASE Request(p)
  <2> DEFINE w == [work[p] EXCEPT !.payload = served[work[p].m]]
  <2>1. served[work[p].m] \in Contents
    BY <1>2, <1>4 DEF Request, Stages, TypeInv, TypeOK
  <2>2. /\ w \in Works /\ w.m = work[p].m /\ w.old = work[p].old /\ w.brief = work[p].brief
        /\ w.path = work[p].path /\ w.hash = work[p].hash /\ w.fresh = work[p].fresh
    BY <1>1, <2>1 DEF Works
  <2>3. work' = [work EXCEPT ![p] = w]
    BY <1>1, <1>4 DEF Request
  <2> HIDE DEF w
  <2> QED BY <2>2, <2>3
<1>5. ASSUME NEW n \in Names, Resolve(p, n), files[user[p]][n] = "none"
      PROVE  \E w \in Works :
               /\ work' = [work EXCEPT ![p] = w]
               /\ w.m = work[p].m /\ w.old = work[p].old /\ w.brief = work[p].brief
               /\ w.path = work[p].path /\ w.hash = work[p].hash /\ w.fresh = work[p].fresh
  <2> DEFINE w == [work[p] EXCEPT !.target = n]
  <2>1. /\ w \in Works /\ w.m = work[p].m /\ w.old = work[p].old /\ w.brief = work[p].brief
        /\ w.path = work[p].path /\ w.hash = work[p].hash /\ w.fresh = work[p].fresh
    BY <1>1 DEF Works
  <2>2. work' = [work EXCEPT ![p] = w]
    BY <1>1, <1>5 DEF Resolve, OnFile
  <2> HIDE DEF w
  <2> QED BY <2>1, <2>2
<1>6. ASSUME NEW n \in Names, NEW c \in Contents, NEW fresh \in BOOLEAN,
             work' = [work EXCEPT ![p] = Obtained(work[p], n, c, fresh)],
             files'[user[p]][n] # "none"
      PROVE  \E w \in Works :
               /\ work' = [work EXCEPT ![p] = w]
               /\ w.m = work[p].m /\ w.old = work[p].old /\ w.brief = work[p].brief
               /\ w.path \in Names /\ w.hash \in Contents /\ files'[user[p]][w.path] # "none"
  <2> DEFINE w == Obtained(work[p], n, c, fresh)
  <2>1. /\ w \in Works /\ w.m = work[p].m /\ w.old = work[p].old /\ w.brief = work[p].brief
        /\ w.path = n /\ w.hash = c
    <3>1. n \in Names \union {NoName} /\ c \in Texts
      BY DEF Texts
    <3>2. w \in Works /\ w.m = work[p].m /\ w.path = n /\ w.hash = c
      BY <1>1, <3>1, ObtainedIsWork
    <3>3. /\ Obtained(work[p], n, c, fresh).old = work[p].old
          /\ Obtained(work[p], n, c, fresh).brief = work[p].brief
      BY <1>1, <3>1, ObtainedKeeps
    <3> QED BY <3>2, <3>3
  <2>2. work' = [work EXCEPT ![p] = w]
    BY <1>6
  <2> HIDE DEF w
  <2> QED BY <1>6, <2>1, <2>2
<1>7. ASSUME NEW n \in Names, Resolve(p, n), files[user[p]][n] # "none"
      PROVE  /\ pc[p] = "resolve" /\ files'[user[p]][n] # "none" /\ work[p].payload \in Contents
             /\ work' = [work EXCEPT ![p] = Obtained(work[p], n, work[p].payload, FALSE)]
  BY <1>2, <1>7 DEF Resolve, OnFile, store
<1>8. CASE Write(p)
  <2>1. /\ pc[p] = "write" /\ work[p].payload \in Contents /\ work[p].target \in Names
        /\ work' = [work EXCEPT ![p] = Obtained(work[p], work[p].target, work[p].payload, TRUE)]
    BY <1>2, <1>8 DEF Write
  <2>2. files'[user[p]][work[p].target] = work[p].payload
    BY <1>1, <1>8, <2>1 DEF Write
  <2> QED BY <1>1, <1>6, <2>1, <2>2
<1>9. CASE DownloadFails(p)
  <2> DEFINE w1 == [work[p] EXCEPT !.payload = "none"]
             w == [w1 EXCEPT !.target = NoName]
  <2>1. /\ w1 \in Works /\ w1.m = work[p].m /\ w1.old = work[p].old /\ w1.brief = work[p].brief
        /\ w1.path = work[p].path /\ w1.hash = work[p].hash /\ w1.fresh = work[p].fresh
    BY <1>1 DEF Works
  <2>2. /\ w \in Works /\ w.m = work[p].m /\ w.old = work[p].old /\ w.brief = work[p].brief
        /\ w.path = work[p].path /\ w.hash = work[p].hash /\ w.fresh = work[p].fresh
    <3> HIDE DEF w1
    <3> QED BY <2>1 DEF Works
  <2>3. work' = [work EXCEPT ![p] = w]
    BY <1>1, <1>9 DEF DownloadFails
  <2> HIDE DEF w, w1
  <2> QED BY <2>2, <2>3
<1>10. ASSUME NEW n \in Names, Resolve(p, n)
       PROVE  \E w \in Works :
                /\ work' = [work EXCEPT ![p] = w]
                /\ w.m = work[p].m /\ w.old = work[p].old /\ w.brief = work[p].brief
                /\ \/ w.path = work[p].path /\ w.hash = work[p].hash /\ w.fresh = work[p].fresh
                   \/ /\ pc[p] \in {"resolve", "write"}
                      /\ w.path \in Names /\ w.hash \in Contents /\ files'[user[p]][w.path] # "none"
  BY <1>5, <1>6, <1>7, <1>10
<1> QED BY <1>3, <1>4, <1>8, <1>9, <1>10

\* A step of a run takes no material twice.
LEMMA OwnDistinct ==
  ASSUME TypeInv, NEW p \in Runs, Step(p), Distinct(p)
  PROVE  Distinct(p)'
<1>1. /\ pc \in [Runs -> Places] /\ work \in [Runs -> Works] /\ left \in [Runs -> Seq(Materials)]
      /\ briefs \in [Runs -> SUBSET (Materials \X Contents)] /\ user \in [Runs -> Owners]
  BY DEF TypeInv, TypeOK, Places
<1>2. CASE Forget(p) /\ pc'[p] \in {"idle", "target"}
  BY <1>2, ForgetTyped DEF Distinct, TypeInv, Stages
<1>3. CASE Finish(p) \/ Raise(p) \/ Kill(p)
  BY <1>1, <1>2, <1>3 DEF Finish, Raise, Fail, Kill, Go
<1>4. CASE \E o \in Owners : NextTarget(p, o)
  <2>1. CASE Forget(p) /\ Go(p, "target")
    BY <1>1, <1>2, <2>1 DEF Go
  <2>2. CASE Go(p, "fetch") /\ UNCHANGED <<left, work, briefs>>
    <3>1. pc[p] = "target" /\ briefs[p] = {}
      BY <1>4 DEF NextTarget, TypeInv, Shape
    <3>2. pc'[p] = "fetch"
      BY <1>1, <2>2 DEF Go
    <3> QED BY <2>2, <3>1, <3>2 DEF Distinct, Stages
  <2> QED BY <1>4, <2>1, <2>2 DEF NextTarget, Fail
<1>5. CASE UNCHANGED <<left, work, briefs>> /\ pc'[p] \notin Stages /\ pc'[p] # "fetch"
  BY <1>5 DEF Distinct
<1>6. CASE (\E o \in Owners : Skip(p, o)) \/ EndRun(p) \/ Push(p)
  <2>1. UNCHANGED <<left, work, briefs>>
    BY <1>6 DEF Skip, EndRun, Push, locals
  <2>2. pc'[p] \notin Stages /\ pc'[p] # "fetch"
    BY <1>1, <1>6 DEF Skip, EndRun, Push, Go, Stages
  <2> QED BY <1>5, <2>1, <2>2
<1>7. CASE \E t \in WsTasks, s \in Statuses : PersistTask(p, t, s)
  <2>1. UNCHANGED <<left, work, briefs>>
    BY <1>7 DEF PersistTask
  <2>2. pc'[p] \in {"open", "persist"}
    BY <1>1, <1>7 DEF PersistTask, Go
  <2> QED BY <1>5, <2>1, <2>2 DEF Stages
<1>8. CASE Fetch(p)
  <2>1. pc[p] = "fetch" /\ briefs[p] = {} /\ UNCHANGED <<work, briefs>>
    BY <1>8 DEF Fetch, Distinct
  <2>2. pc'[p] \in {"open", "persist"}
    BY <1>1, <1>8 DEF Fetch, Go
  <2>3. left'[p] = <<>> \/ left'[p] = Order
    BY <1>1, <1>8 DEF Fetch, Offered
  <2>4. \A i, j \in DOMAIN left'[p] : left'[p][i] = left'[p][j] => i = j
    BY <2>3, ConstantsAssumption
  <2> QED BY <2>1, <2>2, <2>4 DEF Distinct, Stages
<1>9. ASSUME NEW m \in Materials, Open(p, m)
      PROVE  Distinct(p)'
  <2> DEFINE s == left[p]
             t == Tail(left[p])
  <2>1. /\ left'[p] = t /\ pc'[p] = "check" /\ UNCHANGED briefs
        /\ s # <<>> /\ m = Head(s)
    BY <1>1, <1>9 DEF Open, Go
  <2>2. work'[p].m = m
    <3> DEFINE row == artifact[user[p]][m]
               kept == Exists(user[p], row.path)
               w == [m |-> m, old |-> row, path |-> IF kept THEN row.path ELSE NoName,
                     hash |-> IF kept THEN row.hash ELSE "none", fresh |-> FALSE,
                     payload |-> "none", target |-> NoName, text |-> "none",
                     extract |-> row.extract, brief |-> row.brief, scan |-> row.scan]
    <3>1. work' = [work EXCEPT ![p] = w] /\ w.m = m
      BY <1>9 DEF Open
    <3> HIDE DEF w
    <3> QED BY <1>1, <3>1
  <2>3. /\ Len(s) \in Nat /\ DOMAIN s = 1 .. Len(s) /\ m = s[1] /\ Len(s) > 0
        /\ DOMAIN t = 1 .. Len(s) - 1 /\ \A i \in DOMAIN t : t[i] = s[i + 1] /\ i + 1 \in DOMAIN s
    <3>1. s \in Seq(Materials)
      BY <1>1
    <3> HIDE DEF s
    <3>2. Tail(s) \in Seq(Materials) /\ Len(Tail(s)) = Len(s) - 1
          /\ \A i \in 1 .. Len(Tail(s)) : Tail(s)[i] = s[i + 1]
      BY <2>1, <3>1, HeadTailProperties
    <3>3. Len(s) \in Nat /\ DOMAIN s = 1 .. Len(s) /\ DOMAIN Tail(s) = 1 .. Len(Tail(s)) /\ Len(s) > 0
          /\ Len(Tail(s)) \in Nat
      BY <2>1, <3>1, <3>2, LenProperties, EmptySeq
    <3>4. Head(s) = s[1]
      BY <2>1, <3>1
    <3>5. t = Tail(s)
      BY DEF s
    <3> QED BY <2>1, <3>2, <3>3, <3>4, <3>5
  <2>4. /\ \A i, j \in DOMAIN s : s[i] = s[j] => i = j
        /\ \A i \in DOMAIN s, b \in briefs[p] : s[i] # b[1]
    BY DEF Distinct
  <2> HIDE DEF s, t
  <2>5. \A i, j \in DOMAIN t : t[i] = t[j] => i = j
    BY <2>3, <2>4
  <2>6. \A i \in DOMAIN t, b \in briefs[p] : t[i] # b[1]
    BY <2>3, <2>4
  <2>7. \A i \in DOMAIN t : t[i] # m
    BY <2>3, <2>4
  <2>8. \A b \in briefs[p] : b[1] # m
    <3>1. 1 \in DOMAIN s
      BY <2>3
    <3> QED BY <2>3, <2>4, <3>1
  <2> QED BY <2>1, <2>2, <2>5, <2>6, <2>7, <2>8 DEF Distinct
<1>10. CASE /\ UNCHANGED <<left, briefs>> /\ work'[p].m = work[p].m
            /\ pc[p] \in Stages /\ (pc'[p] \in {"scan", "record"} \/ pc[p] \notin {"scan", "record"})
            /\ pc'[p] # "fetch"
  BY <1>10 DEF Distinct
<1>11. CASE Check(p) \/ Request(p) \/ (\E n \in Names : Resolve(p, n)) \/ Write(p) \/ DownloadFails(p)
  <2>1. work'[p].m = work[p].m
    BY <1>1, <1>11, DownloadKeeps
  <2>2. UNCHANGED <<left, briefs>> /\ pc[p] \in Stages \ {"scan", "record"}
    BY <1>11 DEF Check, Request, Resolve, Write, DownloadFails, Stages
  <2>3. pc'[p] # "fetch"
    BY <1>1, <1>11 DEF Check, Request, Resolve, Write, DownloadFails, Go
  <2> QED BY <1>10, <2>1, <2>2, <2>3
<1>12. CASE Read(p)
  <2>1. PICK text \in Texts, extract \in Texts \union {"bad"} : Digest(p, text, extract)
    BY <1>12, ReadDigests
  <2>2. work[p].m \in Materials /\ pc[p] = "read" /\ pc'[p] = "scan" /\ left' = left
    BY <1>1, <1>12 DEF Read, TypeInv, Shape, Stages, Go
  <2>3. PICK w \in Works :
          /\ work' = [work EXCEPT ![p] = w] /\ w.m = work[p].m
          /\ \/ briefs'[p] = briefs[p]
             \/ briefs'[p] = briefs[p] \union {<<work[p].m, text>>} /\ w.brief = text
    BY <2>1, <2>2, DigestKeeps
  <2>4. work'[p].m = work[p].m /\ \A b \in briefs'[p] : b \in briefs[p] \/ b[1] = work[p].m
    BY <1>1, <2>3
  <2> QED BY <2>2, <2>4 DEF Distinct, Stages
<1>13. CASE Scan(p)
  <2>1. PICK w \in Works : work' = [work EXCEPT ![p] = w] /\ w.m = work[p].m
    BY <1>13, ScanKeeps
  <2>2. work'[p].m = work[p].m /\ UNCHANGED <<left, briefs>> /\ pc[p] = "scan" /\ pc'[p] = "record"
    BY <1>1, <1>13, <2>1 DEF Scan, Go
  <2> QED BY <1>10, <2>2 DEF Stages
<1>14. CASE Record(p)
  <2>1. UNCHANGED <<left, briefs>> /\ pc'[p] = "open"
    BY <1>1, <1>14 DEF Record, Go
  <2> QED BY <2>1 DEF Distinct, Stages
<1> QED BY <1>3, <1>4, <1>6, <1>7, <1>8, <1>9, <1>11, <1>12, <1>13, <1>14 DEF Step

\* The brief of a content waits in the list of the collection for its push.  While the row
\* of the material is not written yet, it does not count as such.
Waiting(o, m, c) ==
  /\ user[Poller] = o /\ pc[Poller] # "finish" /\ <<m, c>> \in briefs[Poller]
  /\ ~(pc[Poller] \in {"scan", "record"} /\ work[Poller].m = m)
\* How often the brief was sent, with the one that waits.
Sendings(o, m, c) == pushes[o][m][c] + IF Waiting(o, m, c) THEN 1 ELSE 0

\* A number of sendings is a number.
LEMMA SendingsCounted ==
  ASSUME TypeInv
  PROVE  \A o \in Owners, m \in Materials, c \in Contents :
           Sendings(o, m, c) \in Nat /\ pushes[o][m][c] \in Nat /\ pushes[o][m][c] <= Sendings(o, m, c)
<1> SUFFICES ASSUME NEW o \in Owners, NEW m \in Materials, NEW c \in Contents
             PROVE  Sendings(o, m, c) \in Nat /\ pushes[o][m][c] \in Nat
                    /\ pushes[o][m][c] <= Sendings(o, m, c)
  OBVIOUS
<1>1. pushes[o][m][c] \in Nat
  BY DEF TypeInv, TypeOK
<1> QED BY <1>1 DEF Sendings

\* No brief comes to wait by a step of the collection, but when its row is written.
LEMMA WaitingFalls ==
  ASSUME TypeInv, Step(Poller), ~Record(Poller), ~Push(Poller),
         NEW o, NEW m, NEW c, Waiting(o, m, c)'
  PROVE  Waiting(o, m, c)
<1>1. /\ pc \in [Runs -> Places] /\ work \in [Runs -> Works] /\ Poller \in Runs
      /\ briefs \in [Runs -> SUBSET (Materials \X Contents)] /\ user \in [Runs -> Owners]
  BY DEF TypeInv, TypeOK, Places, Runs
<1>2. <<m, c>> \in briefs'[Poller]
  BY DEF Waiting
<1>3. CASE Forget(Poller)
  BY <1>1, <1>2, <1>3, ForgetTyped DEF TypeInv
<1>4. CASE briefs[Poller] = {} /\ UNCHANGED briefs
  BY <1>2, <1>4
<1>5. CASE UNCHANGED <<user, briefs>> /\ pc[Poller] \notin {"scan", "record", "finish"}
  BY <1>5 DEF Waiting
<1>6. CASE Finish(Poller) \/ Raise(Poller) \/ Kill(Poller)
  BY <1>3, <1>6 DEF Finish, Raise, Fail, Kill
<1>7. CASE \E u \in Owners : NextTarget(Poller, u)
  <2>1. pc[Poller] = "target" /\ (Forget(Poller) \/ UNCHANGED briefs)
    BY <1>7 DEF NextTarget, Fail
  <2> QED BY <1>1, <1>3, <1>4, <2>1 DEF TypeInv, Shape
<1>8. CASE EndRun(Poller) \/ \E u \in Owners : Skip(Poller, u)
  BY <1>1, <1>4, <1>8 DEF EndRun, Skip, locals, TypeInv, Shape
<1>9. CASE \/ Fetch(Poller) \/ (\E t \in WsTasks, s \in Statuses : PersistTask(Poller, t, s))
           \/ (\E k \in Materials : Open(Poller, k))
           \/ Check(Poller) \/ Request(Poller) \/ (\E n \in Names : Resolve(Poller, n))
           \/ Write(Poller) \/ DownloadFails(Poller)
  BY <1>5, <1>9 DEF Fetch, PersistTask, Open, Check, Request, Resolve, Write, DownloadFails
<1>10. CASE Read(Poller)
  <2>1. PICK text \in Texts, extract \in Texts \union {"bad"} : Digest(Poller, text, extract)
    BY <1>1, <1>10, ReadDigests
  <2>2. /\ work[Poller].m \in Materials /\ pc[Poller] = "read" /\ pc'[Poller] = "scan"
        /\ user' = user
    BY <1>1, <1>10 DEF Read, TypeInv, Shape, Stages, Go
  <2>3. PICK w \in Works :
          /\ work' = [work EXCEPT ![Poller] = w] /\ w.m = work[Poller].m
          /\ \/ briefs'[Poller] = briefs[Poller]
             \/ briefs'[Poller] = briefs[Poller] \union {<<work[Poller].m, text>>}
    BY <1>1, <2>1, <2>2, DigestKeeps
  <2>4. work'[Poller].m = work[Poller].m
    BY <1>1, <2>3
  <2>5. m # work[Poller].m
    BY <2>2, <2>4 DEF Waiting
  <2>6. <<m, c>> \in briefs[Poller]
    BY <1>2, <2>3, <2>5
  <2> QED BY <2>2, <2>6 DEF Waiting
<1>11. CASE Scan(Poller)
  <2>1. PICK w \in Works : work' = [work EXCEPT ![Poller] = w] /\ w.m = work[Poller].m
    BY <1>1, <1>11, ScanKeeps
  <2>2. /\ work'[Poller].m = work[Poller].m /\ UNCHANGED <<user, briefs>>
        /\ pc[Poller] = "scan" /\ pc'[Poller] = "record"
    BY <1>1, <1>11, <2>1 DEF Scan, Go
  <2> QED BY <2>2 DEF Waiting
<1> QED BY <1>6, <1>7, <1>8, <1>9, <1>10, <1>11 DEF Step

\* What a step of a run leaves as it was, but when a row is written.
LEMMA StepFrame ==
  ASSUME TypeInv, NEW p \in Runs, Step(p), ~Record(p)
  PROVE  /\ UNCHANGED <<artifact, upset>>
         /\ ~Push(p) => UNCHANGED pushes
         /\ outdated' = outdated \/ (outdated' = outdated \ {p} /\ \E m \in Materials : Open(p, m))
         /\ \A o \in Owners, n \in Names : files[o][n] # "none" => files'[o][n] # "none"
<1>1. /\ files \in [Owners -> [Names -> Contents \union {"none", "torn"}]]
      /\ user[p] \in Owners
  BY DEF TypeInv, TypeOK
<1>2. CASE \/ EndRun(p) \/ Fetch(p) \/ \E o \in Owners : Skip(p, o) \/ NextTarget(p, o)
  BY <1>2 DEF EndRun, Fetch, Skip, NextTarget, history, sent, store
<1>3. CASE \E t \in WsTasks, s \in Statuses : PersistTask(p, t, s)
  BY <1>3 DEF PersistTask, history, sent
<1>4. CASE \E m \in Materials : Open(p, m)
  BY <1>4 DEF Open, store
<1>5. CASE Check(p) \/ Request(p) \/ \E n \in Names : Resolve(p, n)
  BY <1>5 DEF Check, Request, Resolve, history, sent, store
<1>6. CASE Read(p) \/ Scan(p)
  BY <1>6 DEF Read, Scan, history, sent, store
<1>7. CASE Push(p) \/ Finish(p) \/ Raise(p)
  BY <1>7 DEF Push, Finish, Raise, history, sent, store
<1>8. CASE Write(p) \/ DownloadFails(p) \/ Kill(p)
  <2>1. UNCHANGED <<artifact, upset, pushes, outdated>>
    BY <1>8 DEF Write, DownloadFails, Kill, history, sent
  <2>2. \/ files' = files
        \/ \E c : c # "none" /\ files' = [files EXCEPT ![user[p]][work[p].target] = c]
    <3>1. Write(p) => work[p].payload # "none"
      BY ConstantsAssumption DEF Write, TypeInv, Shape
    <3> QED BY <1>8, <3>1 DEF Write, DownloadFails, Kill
  <2>3. \A o \in Owners, n \in Names : files[o][n] # "none" => files'[o][n] # "none"
    BY <1>1, <2>2
  <2> QED BY <2>1, <2>3
<1> QED BY <1>2, <1>3, <1>4, <1>5, <1>6, <1>7, <1>8 DEF Step

\* No brief is sent or comes to wait more often by a step of a run, but when its row is written.
LEMMA SendingsFall ==
  ASSUME TypeInv, NEW p \in Runs, Step(p), ~(p = Poller /\ Record(p)),
         NEW o \in Owners, NEW m \in Materials, NEW c \in Contents
  PROVE  Sendings(o, m, c)' <= Sendings(o, m, c)
<1>1. Sendings(o, m, c) \in Nat /\ pushes[o][m][c] \in Nat
  BY SendingsCounted
<1>2. CASE UNCHANGED pushes /\ (Waiting(o, m, c)' => Waiting(o, m, c))
  BY <1>1, <1>2 DEF Sendings
<1>3. CASE p # Poller
  <2>1. UNCHANGED pushes
    <3>1. CASE Record(p)
      BY <3>1 DEF Record
    <3>2. CASE Push(p)
      BY <1>3, <3>2 DEF Push
    <3> QED BY <3>1, <3>2, StepFrame
  <2>2. Poller \in Runs \ {p}
    BY <1>3 DEF Runs
  <2>3. pc'[Poller] = pc[Poller] /\ user'[Poller] = user[Poller] /\ work'[Poller] = work[Poller]
        /\ briefs'[Poller] = briefs[Poller]
    BY <2>2, RunsAreApart
  <2>4. Waiting(o, m, c)' => Waiting(o, m, c)
    BY <2>3 DEF Waiting
  <2> QED BY <1>2, <2>1, <2>4
<1>4. CASE p = Poller /\ ~Push(p)
  BY <1>2, <1>4, StepFrame, WaitingFalls
<1>5. CASE p = Poller /\ Push(p)
  <2>1. /\ pc[Poller] = "open" /\ pc'[Poller] = "finish"
        /\ UNCHANGED pushes
           \/ pushes' = [pushes EXCEPT ![user[p]] =
             [k \in Materials |-> [d \in Contents |->
                pushes[user[p]][k][d] + IF <<k, d>> \in briefs[p] THEN 1 ELSE 0]]]
    BY <1>5 DEF Push, Go, TypeInv, TypeOK
  <2>2. ~Waiting(o, m, c)'
    BY <2>1 DEF Waiting
  <2>3. CASE UNCHANGED pushes
    BY <1>2, <2>2, <2>3
  <2>4. CASE pushes' = [pushes EXCEPT ![user[p]] =
             [k \in Materials |-> [d \in Contents |->
                pushes[user[p]][k][d] + IF <<k, d>> \in briefs[p] THEN 1 ELSE 0]]]
    <3>1. pushes \in [Owners -> [Materials -> [Contents -> Nat]]] /\ user[p] \in Owners
      BY DEF TypeInv, TypeOK
    <3>2. CASE o # user[p] \/ <<m, c>> \notin briefs[p]
      <4>1. pushes'[o][m][c] = pushes[o][m][c]
        BY <2>4, <3>1, <3>2
      <4> QED BY <1>1, <2>2, <4>1 DEF Sendings
    <3>3. CASE o = user[p] /\ <<m, c>> \in briefs[p]
      <4>1. Waiting(o, m, c)
        BY <1>5, <2>1, <3>3 DEF Waiting
      <4>2. pushes'[o][m][c] = pushes[o][m][c] + 1
        BY <2>4, <3>1, <3>3
      <4> QED BY <1>1, <2>2, <4>1, <4>2 DEF Sendings
    <3> QED BY <3>2, <3>3
  <2> QED BY <2>1, <2>3, <2>4
<1> QED BY <1>3, <1>4, <1>5

\* The brief of a material was sent no more often than rows and files were lost: it may be
\* sent once more, or twice.
Low(o, m)   == \A c \in Contents : Sendings(o, m, c) <= upset
Lower(o, m) == \A c \in Contents : Sendings(o, m, c) + 1 <= upset

\* A row with which no run makes a brief again.
Settled(o, row) == row.brief # "none" /\ row.hash # "none" /\ Exists(o, row.path)
\* A file that is named has a hash.
HasHash(r) == r.path \in Names => r.hash # "none"
\* Why a brief is made again.
Reason(w) == w.fresh \/ Changed(w) \/ w.old.brief = "none"

\* What holds of a run with the material w of o: it works on the row that is there, unless
\* somebody wrote it meanwhile, and has come upon a reason to make a brief again only where a
\* sending is allowed; where the file was lost meanwhile, two are.
Course(q, o, w, place) ==
  /\ HasHash(w) /\ (w.brief = "none" => w.old.brief = "none")
  /\ q \notin outdated => artifact[o][w.m] = w.old
  /\ /\ q \notin outdated
     /\ ~Exists(o, w.path) \/ w.fresh \/ Changed(w) \/ place \in {"request", "resolve", "write"}
     => Low(o, w.m)
  /\ q = Poller /\ w.path # NoName /\ ~Exists(o, w.path) =>
       Low(o, w.m) /\ (q \notin outdated /\ Reason(w) => Lower(o, w.m))
  /\ q = Poller /\ place \in {"scan", "record"} /\ (\E c \in Contents : <<w.m, c>> \in briefs[q]) =>
       Reason(w) /\ w.path # NoName /\ w.brief # "none"
OnCourse(q) == pc[q] \in Stages => Course(q, user[q], work[q], pc[q])

\* Every brief was sent once, and once more for every row or file that was lost ...
Bound == \A o \in Owners, m \in Materials, c \in Contents : Sendings(o, m, c) <= 1 + upset
\* ... and is not at the bound while the row is one with which it would be sent again.
Credit == \A o \in Owners, m \in Materials : Low(o, m) \/ Settled(o, artifact[o][m])
Named ==
  /\ \A o \in Owners, m \in Materials : HasHash(artifact[o][m])
  /\ \A e \in repair : HasHash(e[3])
SendInv == Bound /\ Credit /\ Named /\ \A p \in Runs : Distinct(p) /\ OnCourse(p)

\* A material and its row after a step that sends nothing more.
LEMMA LowKept ==
  ASSUME TypeInv, upset' \in Nat, upset <= upset', NEW o \in Owners, NEW m \in Materials,
         \A c \in Contents : Sendings(o, m, c)' <= Sendings(o, m, c) /\ Sendings(o, m, c)' \in Nat
  PROVE  (Low(o, m) => Low(o, m)') /\ (Lower(o, m) => Lower(o, m)')
<1>1. \A c \in Contents : Sendings(o, m, c) \in Nat
  BY SendingsCounted
<1>2. upset \in Nat
  BY DEF TypeInv, TypeOK
<1>3. Low(o, m) => Low(o, m)'
  <2> SUFFICES ASSUME Low(o, m), NEW c \in Contents PROVE Sendings(o, m, c)' <= upset'
    BY DEF Low
  <2>1. Sendings(o, m, c) <= upset
    BY DEF Low
  <2> QED BY <1>1, <1>2, <2>1
<1>4. Lower(o, m) => Lower(o, m)'
  <2> SUFFICES ASSUME Lower(o, m), NEW c \in Contents PROVE Sendings(o, m, c)' + 1 <= upset'
    BY DEF Lower
  <2>1. Sendings(o, m, c) + 1 <= upset
    BY DEF Lower
  <2> QED BY <1>1, <1>2, <2>1
<1> QED BY <1>3, <1>4

\* A material whose file and hash are as before stays on its course.
LEMMA CourseCarried ==
  ASSUME NEW q \in Runs, NEW o \in Owners, NEW w \in Works, NEW v \in Works, NEW place, NEW next,
         Course(q, o, w, place),
         v.m = w.m, v.path = w.path, v.hash = w.hash, v.fresh = w.fresh, v.old = w.old,
         v.brief = "none" => w.brief = "none",
         Exists(o, w.path) => Exists(o, w.path)',
         q \notin outdated' => q \notin outdated /\ artifact'[o][w.m] = artifact[o][w.m],
         q = Poller \/ q \notin outdated' =>
           (Low(o, w.m) => Low(o, w.m)') /\ (Lower(o, w.m) => Lower(o, w.m)'),
         q \notin outdated /\ next \in {"request", "resolve", "write"} => Low(o, w.m),
         q = Poller /\ next \in {"scan", "record"} /\ (\E c \in Contents : <<w.m, c>> \in briefs'[q])
           => Reason(w) /\ w.path # NoName /\ v.brief # "none"
  PROVE  Course(q, o, v, next)'
<1>1. HasHash(v) /\ (v.brief = "none" => v.old.brief = "none")
  BY DEF Course, HasHash
<1>2. q \notin outdated' => artifact'[o][v.m] = v.old
  BY DEF Course
<1>3. (Changed(v) <=> Changed(w)) /\ (Reason(v) <=> Reason(w))
  BY DEF Changed, Reason
<1>4. (Exists(o, v.path)' => Exists(o, w.path)') /\ (Low(o, w.m)' => Low(o, v.m)')
      /\ (Lower(o, w.m)' => Lower(o, v.m)')
  OBVIOUS
<1>5. ~Exists(o, v.path)' => ~Exists(o, w.path)
  OBVIOUS
<1>6. ASSUME q \notin outdated',
             ~Exists(o, v.path)' \/ v.fresh \/ Changed(v) \/ next \in {"request", "resolve", "write"}
      PROVE  Low(o, v.m)'
  <2>1. Low(o, w.m)
    BY <1>3, <1>5, <1>6 DEF Course
  <2> QED BY <1>4, <1>6, <2>1
<1>7. ASSUME q = Poller, v.path # NoName, ~Exists(o, v.path)'
      PROVE  Low(o, v.m)' /\ (q \notin outdated' /\ Reason(v) => Lower(o, v.m)')
  <2>1. Low(o, w.m) /\ (q \notin outdated /\ Reason(w) => Lower(o, w.m))
    BY <1>5, <1>7 DEF Course
  <2> QED BY <1>3, <1>4, <1>7, <2>1
<1> QED BY <1>1, <1>2, <1>3, <1>6, <1>7 DEF Course, HasHash, Changed, Reason

\* A step of a run that writes no row: no file goes, and no more is sent.
LEMMA CalmStep ==
  ASSUME TypeInv, TypeInv', NEW p \in Runs, Step(p), ~Record(p)
  PROVE  /\ UNCHANGED <<artifact, upset>>
         /\ \A o \in Owners, n \in Names \union {NoName} : Exists(o, n) => Exists(o, n)'
         /\ \A o \in Owners, m \in Materials :
              (Low(o, m) => Low(o, m)') /\ (Lower(o, m) => Lower(o, m)')
<1>1. UNCHANGED <<artifact, upset>> /\ upset \in Nat
  BY StepFrame DEF TypeInv, TypeOK
<1>2. \A o \in Owners, n \in Names \union {NoName} : Exists(o, n) => Exists(o, n)'
  BY StepFrame DEF Exists
<1>3. ASSUME NEW o \in Owners, NEW m \in Materials
      PROVE  (Low(o, m) => Low(o, m)') /\ (Lower(o, m) => Lower(o, m)')
  <2>1. \A c \in Contents : Sendings(o, m, c)' <= Sendings(o, m, c) /\ Sendings(o, m, c)' \in Nat
    <3> SUFFICES ASSUME NEW c \in Contents
                 PROVE  Sendings(o, m, c)' <= Sendings(o, m, c) /\ Sendings(o, m, c)' \in Nat
      OBVIOUS
    <3>1. pushes'[o][m][c] \in Nat
      BY DEF TypeInv, TypeOK
    <3>2. Sendings(o, m, c)' \in Nat
      BY <3>1 DEF Sendings
    <3> QED BY <3>2, SendingsFall
  <2> QED BY <1>1, <2>1, LowKept
<1> QED BY <1>1, <1>2, <1>3

\* A material that is opened is on its course: the row is the one that is there.
LEMMA OpenCourse ==
  ASSUME TypeInv, TypeInv', SendInv, NEW p \in Runs, Step(p), NEW m \in Materials, Open(p, m)
  PROVE  OnCourse(p)'
<1> DEFINE row == artifact[user[p]][m]
           kept == Exists(user[p], row.path)
           w == [m |-> m, old |-> row, path |-> IF kept THEN row.path ELSE NoName,
                 hash |-> IF kept THEN row.hash ELSE "none", fresh |-> FALSE,
                 payload |-> "none", target |-> NoName, text |-> "none",
                 extract |-> row.extract, brief |-> row.brief, scan |-> row.scan]
<1>1. PICK o \in Owners : o = user[p]
  BY DEF TypeInv, TypeOK
<1>2. PICK r \in Rows : r = row
  BY RowOfMaterial
<1>3. PICK v \in Works : v = w
  <2>1. w \in Works
    <3>1. row \in Rows
      BY <1>2
    <3> HIDE DEF row, kept
    <3> QED BY <3>1 DEF Rows, Works
  <2> HIDE DEF w
  <2> QED BY <2>1
<1>4. /\ user'[p] = o /\ work'[p] = v /\ pc'[p] = "check" /\ UNCHANGED <<artifact, files>>
      /\ ~Record(p)
  <2>1. work' = [work EXCEPT ![p] = v]
    BY <1>3 DEF Open
  <2> HIDE DEF w
  <2> QED BY <1>1, <2>1 DEF Open, Record, Go, store, TypeInv, TypeOK
<1>5. /\ v.m = m /\ v.old = r /\ v.brief = r.brief /\ v.fresh = FALSE
      /\ kept => v.path = r.path /\ v.hash = r.hash
      /\ ~kept => v.path = NoName /\ v.hash = "none"
  <2> HIDE DEF row, kept
  <2> QED BY <1>2, <1>3
<1> HIDE DEF w
<1>6. kept <=> Exists(o, r.path)
  BY <1>1, <1>2
<1>7. artifact'[o][m] = r /\ (Low(o, m) \/ Settled(o, r)) /\ HasHash(r)
  BY <1>1, <1>2, <1>4 DEF SendInv, Credit, Named
<1> HIDE DEF row, kept
<1>8. NoName \notin Names
  BY NoNameIsNone
<1>9. \A n : Exists(o, n)' <=> Exists(o, n)
  BY <1>4 DEF Exists
<1>10. HasHash(v) /\ ~Changed(v)
  BY <1>5, <1>6, <1>7, <1>8 DEF HasHash, Changed
<1>11. ~Exists(o, v.path) => ~kept
  BY <1>5, <1>6
<1>12. ~kept => Low(o, m)'
  BY <1>4, <1>6, <1>7, CalmStep DEF Settled
<1>13. Course(p, o, v, "check")'
  <2>1. v.path # NoName => Exists(o, v.path)'
    BY <1>5, <1>6, <1>9
  <2>2. ~Exists(o, v.path)' => Low(o, v.m)'
    BY <1>5, <1>9, <1>11, <1>12
  <2> QED BY <1>5, <1>7, <1>10, <2>1, <2>2 DEF Course, HasHash, Changed, Reason
<1> QED BY <1>4, <1>13 DEF OnCourse

\* So is one that is downloaded.
LEMMA DownloadCourse ==
  ASSUME TypeInv, TypeInv', SendInv, NEW p \in Runs, Step(p),
         Check(p) \/ Request(p) \/ (\E n \in Names : Resolve(p, n)) \/ Write(p) \/ DownloadFails(p)
  PROVE  OnCourse(p)'
<1>1. PICK o \in Owners : o = user[p]
  BY DEF TypeInv, TypeOK
<1>2. PICK w \in Works : w = work[p]
  BY DEF TypeInv, TypeOK
<1>3. PICK place \in {"check", "request", "resolve", "write"} : place = pc[p]
  BY DEF Check, Request, Resolve, Write, DownloadFails
<1>4. PICK v \in Works :
        /\ work' = [work EXCEPT ![p] = v]
        /\ v.m = work[p].m /\ v.old = work[p].old /\ v.brief = work[p].brief
        /\ \/ v.path = work[p].path /\ v.hash = work[p].hash /\ v.fresh = work[p].fresh
           \/ /\ Check(p) /\ ~v.fresh
              /\ v.path = artifact[user[p]][v.m].path /\ v.hash = artifact[user[p]][v.m].hash
              /\ v.hash # "none" /\ Exists(user[p], v.path)
           \/ /\ pc[p] \in {"resolve", "write"}
              /\ v.path \in Names /\ v.hash \in Contents /\ files'[user[p]][v.path] # "none"
  BY DownloadKeeps
<1>5. /\ user'[p] = o /\ work'[p] = v /\ briefs' = briefs /\ outdated' = outdated
      /\ pc'[p] \in {"request", "resolve", "write", "read"} /\ ~Record(p)
      /\ (pc'[p] \in {"request", "resolve", "write"} /\ place = "check") => Check(p)
  <2>1. /\ UNCHANGED <<user, briefs>> /\ ~Record(p)
        /\ \E next \in {"request", "resolve", "write", "read"} :
             Go(p, next) /\ (next # "read" /\ pc[p] = "check" => Check(p))
    BY DEF Check, Request, Resolve, Write, DownloadFails, Record
  <2>2. UNCHANGED outdated
    BY DEF Check, Request, Resolve, Write, DownloadFails, history, sent
  <2> QED BY <1>1, <1>3, <1>4, <2>1, <2>2 DEF Go, TypeInv, TypeOK
<1>6. PICK next \in {"request", "resolve", "write", "read"} : next = pc'[p]
  BY <1>5
<1>7. w.m \in Materials /\ Course(p, o, w, place)
  BY <1>1, <1>2, <1>3 DEF SendInv, OnCourse, Stages, TypeInv, Shape
<1>8. /\ UNCHANGED <<artifact, upset>>
      /\ w.path \in Names \union {NoName} /\ v.path \in Names \union {NoName}
      /\ \A n \in Names \union {NoName} : Exists(o, n) => Exists(o, n)'
      /\ (Low(o, w.m) => Low(o, w.m)') /\ (Lower(o, w.m) => Lower(o, w.m)')
  <2>1. w.path \in Names \union {NoName} /\ v.path \in Names \union {NoName}
    BY DEF Works
  <2> QED BY <1>5, <1>7, <2>1, CalmStep
<1>9. v.m = w.m /\ v.old = w.old /\ v.brief = w.brief
  BY <1>2, <1>4
<1>10. PICK r \in Rows : r = artifact[o][w.m]
  BY <1>7 DEF TypeInv, TypeOK
<1>11. /\ p \notin outdated => w.old = r
       /\ Low(o, w.m) \/ Settled(o, r)
  BY <1>7, <1>10 DEF Course, SendInv, Credit
<1>12. CASE v.path = w.path /\ v.hash = w.hash /\ v.fresh = w.fresh
  <2>1. p \notin outdated /\ next \in {"request", "resolve", "write"} => Low(o, w.m)
    <3> SUFFICES ASSUME p \notin outdated, next \in {"request", "resolve", "write"}
                 PROVE  Low(o, w.m)
      OBVIOUS
    <3>1. CASE place = "check"
      <4>1. ~(r.hash # "none" /\ Exists(o, r.path))
        <5>1. Check(p)
          BY <1>5, <1>6, <3>1
        <5> QED BY <1>1, <1>2, <1>6, <1>10, <5>1 DEF Check, Go, TypeInv, TypeOK
      <4> QED BY <1>11, <4>1 DEF Settled
    <3>2. CASE place # "check"
      BY <1>7, <3>2 DEF Course
    <3> QED BY <3>1, <3>2
  <2>2. Course(p, o, v, next)'
    BY <1>5, <1>7, <1>8, <1>9, <1>12, <2>1, CourseCarried
  <2> QED BY <1>5, <1>6, <2>2 DEF OnCourse
<1>13. CASE /\ Check(p) /\ ~v.fresh
            /\ v.path = r.path /\ v.hash = r.hash /\ v.hash # "none" /\ Exists(o, v.path)
  <2>1. next = "read"
    <3>1. r.hash # "none" /\ Exists(o, r.path)
      BY <1>13
    <3> QED BY <1>1, <1>2, <1>6, <1>10, <1>13, <3>1 DEF Check, Go, TypeInv, TypeOK
  <2>2. Exists(o, v.path)'
    BY <1>8, <1>13
  <2>3. HasHash(v) /\ (v.brief = "none" => v.old.brief = "none")
    BY <1>7, <1>9, <1>13 DEF HasHash, Course
  <2>4. p \notin outdated => artifact'[o][v.m] = v.old /\ ~Changed(v)
    BY <1>8, <1>9, <1>10, <1>11, <1>13 DEF Changed
  <2>5. Course(p, o, v, next)'
    BY <1>5, <1>13, <2>1, <2>2, <2>3, <2>4 DEF Course, HasHash, Changed
  <2> QED BY <1>5, <1>6, <2>5 DEF OnCourse
<1>14. CASE /\ place \in {"resolve", "write"}
            /\ v.path \in Names /\ v.hash \in Contents /\ files'[o][v.path] # "none"
  <2>1. HasHash(v) /\ (v.brief = "none" => v.old.brief = "none")
    BY <1>7, <1>9, <1>14, ConstantsAssumption DEF HasHash, Course
  <2>2. Exists(o, v.path)'
    BY <1>14 DEF Exists
  <2>3. p \notin outdated => artifact'[o][v.m] = v.old /\ Low(o, v.m)'
    BY <1>7, <1>8, <1>9, <1>14 DEF Course
  <2>4. next \notin {"scan", "record"}
    BY <1>6
  <2>5. Course(p, o, v, next)'
    BY <1>5, <2>1, <2>2, <2>3, <2>4 DEF Course, HasHash
  <2> QED BY <1>5, <1>6, <2>5 DEF OnCourse
<1> QED BY <1>1, <1>2, <1>3, <1>4, <1>9, <1>10, <1>12, <1>13, <1>14

\* So is one whose text was read: a brief was made of it only for a reason.
LEMMA ReadCourse ==
  ASSUME TypeInv, TypeInv', SendInv, NEW p \in Runs, Step(p), Read(p)
  PROVE  OnCourse(p)'
<1>1. PICK o \in Owners : o = user[p]
  BY DEF TypeInv, TypeOK
<1>2. PICK w \in Works : w = work[p]
  BY DEF TypeInv, TypeOK
<1>3. PICK text \in Texts, extract \in Texts \union {"bad"} : Digest(p, text, extract)
  BY ReadDigests
<1>4. pc[p] = "read" /\ w.m \in Materials /\ Course(p, o, w, "read") /\ Distinct(p)
  BY <1>1, <1>2 DEF Read, SendInv, OnCourse, Stages, TypeInv, Shape
<1>5. PICK v \in Works :
        /\ work' = [work EXCEPT ![p] = v]
        /\ v.m = w.m /\ v.path = w.path /\ v.hash = w.hash
        /\ v.old = w.old /\ v.fresh = w.fresh
        /\ \/ briefs'[p] = briefs[p] /\ v.brief = w.brief
           \/ /\ briefs'[p] = briefs[p] \union {<<w.m, text>>} /\ v.brief = text
              /\ Briefs(w, text)
  <2>1. work[p].m \in Materials
    BY <1>2, <1>4
  <2> QED BY <1>2, <1>3, <2>1, DigestKeeps
<1>6. /\ user'[p] = o /\ work'[p] = v /\ pc'[p] = "scan" /\ outdated' = outdated /\ ~Record(p)
  BY <1>1, <1>5 DEF Read, Record, Go, sent, TypeInv, TypeOK
<1>7. /\ UNCHANGED <<artifact, upset>>
      /\ Exists(o, w.path) => Exists(o, w.path)'
      /\ (Low(o, w.m) => Low(o, w.m)') /\ (Lower(o, w.m) => Lower(o, w.m)')
  <2>1. w.path \in Names \union {NoName}
    BY DEF Works
  <2> QED BY <1>4, <1>6, <2>1, CalmStep
<1>8. v.brief = "none" => w.brief = "none"
  BY <1>5 DEF Briefs
<1>9. \A c \in Contents : <<w.m, c>> \notin briefs[p]
  BY <1>2, <1>4 DEF Distinct, Stages
<1>10. (\E c \in Contents : <<w.m, c>> \in briefs'[p]) => Reason(w) /\ w.path # NoName /\ v.brief # "none"
  BY <1>5, <1>9 DEF Briefs, Reason
<1>11. Course(p, o, v, "scan")'
  BY <1>4, <1>5, <1>6, <1>7, <1>8, <1>10, CourseCarried
<1> QED BY <1>6, <1>11 DEF OnCourse

\* So is one that was scanned.
LEMMA ScanCourse ==
  ASSUME TypeInv, TypeInv', SendInv, NEW p \in Runs, Step(p), Scan(p)
  PROVE  OnCourse(p)'
<1>1. PICK o \in Owners : o = user[p]
  BY DEF TypeInv, TypeOK
<1>2. PICK w \in Works : w = work[p]
  BY DEF TypeInv, TypeOK
<1>3. pc[p] = "scan" /\ w.m \in Materials /\ Course(p, o, w, "scan")
  BY <1>1, <1>2 DEF Scan, SendInv, OnCourse, Stages, TypeInv, Shape
<1>4. PICK v \in Works :
        /\ work' = [work EXCEPT ![p] = v]
        /\ v.m = w.m /\ v.path = w.path /\ v.hash = w.hash
        /\ v.brief = w.brief /\ v.old = w.old /\ v.fresh = w.fresh
  BY <1>2, ScanKeeps
<1>5. /\ user'[p] = o /\ work'[p] = v /\ pc'[p] = "record" /\ UNCHANGED <<outdated, briefs>>
      /\ ~Record(p)
  BY <1>1, <1>4 DEF Scan, Record, Go, history, sent, TypeInv, TypeOK
<1>6. /\ UNCHANGED <<artifact, upset>>
      /\ Exists(o, w.path) => Exists(o, w.path)'
      /\ (Low(o, w.m) => Low(o, w.m)') /\ (Lower(o, w.m) => Lower(o, w.m)')
  <2>1. w.path \in Names \union {NoName}
    BY DEF Works
  <2> QED BY <1>3, <1>5, <2>1, CalmStep
<1>7. p = Poller /\ (\E c \in Contents : <<w.m, c>> \in briefs'[p])
        => Reason(w) /\ w.path # NoName /\ v.brief # "none"
  BY <1>3, <1>4, <1>5 DEF Course
<1>8. Course(p, o, v, "record")'
  BY <1>3, <1>4, <1>5, <1>6, <1>7, CourseCarried
<1> QED BY <1>5, <1>8 DEF OnCourse

\* A step of a run keeps its material on course.
LEMMA OwnCourse ==
  ASSUME TypeInv, TypeInv', SendInv, NEW p \in Runs, Step(p)
  PROVE  OnCourse(p)'
<1>1. CASE pc'[p] \notin Stages
  BY <1>1 DEF OnCourse
<1>2. CASE \/ EndRun(p) \/ Fetch(p) \/ (\E t \in WsTasks, s \in Statuses : PersistTask(p, t, s))
           \/ Push(p) \/ Record(p) \/ (\E o \in Owners : Skip(p, o))
  <2>1. pc \in [Runs -> Places]
    BY DEF TypeInv, TypeOK, Places
  <2>2. CASE UNCHANGED pc /\ pc[p] = "idle"
    BY <1>1, <2>2 DEF Stages
  <2>3. CASE \E place \in {"idle", "open", "persist", "finish"} : Go(p, place)
    BY <1>1, <2>1, <2>3 DEF Go, Stages
  <2> QED BY <1>2, <2>2, <2>3 DEF EndRun, Fetch, PersistTask, Push, Record, Skip
<1>3. CASE Finish(p) \/ Raise(p) \/ Kill(p) \/ \E o \in Owners : NextTarget(p, o)
  BY <1>1, <1>3 DEF Finish, Raise, Kill, NextTarget, Fail, Go, Stages, TypeInv, TypeOK
<1>4. CASE \E m \in Materials : Open(p, m)
  BY <1>4, OpenCourse
<1>5. CASE Check(p) \/ Request(p) \/ (\E n \in Names : Resolve(p, n)) \/ Write(p) \/ DownloadFails(p)
  BY <1>5, DownloadCourse
<1> QED BY <1>2, <1>3, <1>4, <1>5, ReadCourse, ScanCourse DEF Step

\* A run that does nothing stays on course, when nobody takes its file away, and the row of
\* its material is as before or it is behind.
LEMMA OthersCourse ==
  ASSUME TypeInv, SendInv, NEW q \in Runs,
         pc'[q] = pc[q], user'[q] = user[q], work'[q] = work[q], briefs'[q] = briefs[q],
         \A o \in Owners, n \in Names \union {NoName} : Exists(o, n) => Exists(o, n)',
         pc[q] \in Stages /\ q \notin outdated' =>
           q \notin outdated /\ artifact'[user[q]][work[q].m] = artifact[user[q]][work[q].m],
         \A o \in Owners, m \in Materials :
           (q = Poller \/ q \notin outdated') /\ pc[q] \in Stages /\ o = user[q] /\ m = work[q].m =>
             (Low(o, m) => Low(o, m)') /\ (Lower(o, m) => Lower(o, m)')
  PROVE  OnCourse(q)'
<1> SUFFICES ASSUME pc[q] \in Stages PROVE OnCourse(q)'
  BY DEF OnCourse
<1>1. PICK o \in Owners : o = user[q]
  BY DEF TypeInv, TypeOK
<1>2. PICK w \in Works : w = work[q]
  BY DEF TypeInv, TypeOK
<1>3. PICK place \in Stages : place = pc[q]
  OBVIOUS
<1>4. w.m \in Materials /\ w.path \in Names \union {NoName} /\ Course(q, o, w, place)
  BY <1>1, <1>2, <1>3 DEF SendInv, OnCourse, TypeInv, Shape, Works
<1>5. q \notin outdated /\ place \in {"request", "resolve", "write"} => Low(o, w.m)
  BY <1>4 DEF Course
<1>6. q = Poller /\ place \in {"scan", "record"} /\ (\E c \in Contents : <<w.m, c>> \in briefs'[q])
        => Reason(w) /\ w.path # NoName /\ w.brief # "none"
  BY <1>4 DEF Course
<1>7. Course(q, o, w, place)'
  BY <1>1, <1>2, <1>4, <1>5, <1>6, CourseCarried
<1> QED BY <1>1, <1>2, <1>3, <1>7 DEF OnCourse

\* A step of a run that writes no row.
LEMMA RunKeepsSendInv ==
  ASSUME TypeInv, TypeInv', SendInv, UNCHANGED repair, NEW p \in Runs, Step(p), ~Record(p)
  PROVE  SendInv'
<1>1. /\ UNCHANGED <<artifact, upset>> /\ upset \in Nat
      /\ \A o \in Owners, n \in Names \union {NoName} : Exists(o, n) => Exists(o, n)'
      /\ \A o \in Owners, m \in Materials :
           (Low(o, m) => Low(o, m)') /\ (Lower(o, m) => Lower(o, m)')
  BY CalmStep DEF TypeInv, TypeOK
<1>2. Bound'
  <2> SUFFICES ASSUME NEW o \in Owners, NEW m \in Materials, NEW c \in Contents
               PROVE  Sendings(o, m, c)' <= 1 + upset'
    BY DEF Bound
  <2>1. Sendings(o, m, c)' <= Sendings(o, m, c) /\ Sendings(o, m, c) \in Nat
    BY SendingsFall, SendingsCounted
  <2>2. Sendings(o, m, c) <= 1 + upset
    BY DEF SendInv, Bound
  <2>3. Sendings(o, m, c)' \in Nat
    <3>1. pushes'[o][m][c] \in Nat
      BY DEF TypeInv, TypeOK
    <3> QED BY <3>1 DEF Sendings
  <2> QED BY <1>1, <2>1, <2>2, <2>3
<1>3. Credit'
  <2> SUFFICES ASSUME NEW o \in Owners, NEW m \in Materials
               PROVE  Low(o, m)' \/ Settled(o, artifact[o][m])'
    BY DEF Credit
  <2>1. Low(o, m) \/ Settled(o, artifact[o][m])
    BY DEF SendInv, Credit
  <2>2. artifact[o][m].path \in Names \union {NoName}
    BY SaidOf
  <2>3. Settled(o, artifact[o][m]) => Settled(o, artifact[o][m])'
    BY <1>1, <2>2 DEF Settled
  <2> QED BY <1>1, <2>1, <2>3
<1>4. Named'
  BY <1>1 DEF SendInv, Named, HasHash
<1>5. ASSUME NEW q \in Runs \ {p}
      PROVE  Distinct(q)' /\ OnCourse(q)'
  <2>1. pc'[q] = pc[q] /\ user'[q] = user[q] /\ work'[q] = work[q] /\ briefs'[q] = briefs[q]
        /\ left'[q] = left[q]
    BY RunsAreApart
  <2>2. Distinct(q)'
    BY <2>1 DEF Distinct, SendInv
  <2>3. q \notin outdated' => q \notin outdated
    BY StepFrame
  <2>4. OnCourse(q)'
    BY <1>1, <2>1, <2>3, OthersCourse
  <2> QED BY <2>2, <2>4
<1>6. Distinct(p)' /\ OnCourse(p)'
  BY OwnDistinct, OwnCourse DEF SendInv
<1> QED BY <1>2, <1>3, <1>4, <1>5, <1>6 DEF SendInv

\* The steps of others that touch neither the rows nor the files, and the start of a run.
LEMMA OutsideKeepsSendInv ==
  ASSUME TypeInv, SendInv,
         UNCHANGED <<pushes, briefs, user, work, left, artifact, files, outdated, upset>>,
         \A q \in Runs : pc'[q] = pc[q] \/ (pc[q] = "idle" /\ pc'[q] = "target"),
         \A e \in repair' : e \in repair \/ \E o \in Owners, m \in Materials : e[3] = artifact[o][m]
  PROVE  SendInv'
<1>1. upset \in Nat /\ Poller \in Runs
  BY DEF TypeInv, TypeOK, Runs
<1>2. \A o, m, c : Waiting(o, m, c)' <=> Waiting(o, m, c)
  <2>1. CASE pc'[Poller] = pc[Poller]
    BY <2>1 DEF Waiting
  <2>2. CASE pc[Poller] = "idle" /\ pc'[Poller] = "target"
    BY <1>1, <2>2 DEF Waiting, TypeInv, Shape
  <2> QED BY <1>1, <2>1, <2>2
<1>3. \A o, m, c : Sendings(o, m, c)' = Sendings(o, m, c)
  BY <1>2 DEF Sendings
<1>4. Bound' /\ \A o, m : (Low(o, m)' <=> Low(o, m)) /\ (Lower(o, m)' <=> Lower(o, m))
  BY <1>3 DEF SendInv, Bound, Low, Lower
<1>5. \A o, n : Exists(o, n)' <=> Exists(o, n)
  BY DEF Exists
<1>6. Credit'
  BY <1>4, <1>5 DEF SendInv, Credit, Settled
<1>7. Named'
  <2>1. \A o \in Owners, m \in Materials : HasHash(artifact[o][m])'
    BY DEF SendInv, Named, HasHash
  <2>2. \A e \in repair' : HasHash(e[3])
    BY DEF SendInv, Named
  <2> QED BY <2>1, <2>2 DEF Named, HasHash
<1>8. ASSUME NEW q \in Runs
      PROVE  Distinct(q)' /\ OnCourse(q)'
  <2>1. CASE pc'[q] = pc[q]
    <3>1. Distinct(q)'
      BY <2>1 DEF Distinct, SendInv
    <3>2. OnCourse(q)'
      BY <1>4, <1>5, <2>1, OthersCourse
    <3> QED BY <3>1, <3>2
  <2>2. CASE pc'[q] = "target"
    BY <2>2 DEF SendInv, Distinct, OnCourse, Stages
  <2> QED BY <2>1, <2>2
<1> QED BY <1>4, <1>6, <1>7, <1>8 DEF SendInv

\* A file is lost: one more sending of every brief is allowed.
LEMMA LossKeepsSendInv ==
  ASSUME TypeInv, SendInv, UNCHANGED repair, NEW u \in Owners, NEW k \in Names, Lose(u, k)
  PROVE  SendInv'
<1>1. /\ UNCHANGED <<pushes, briefs, user, work, left, artifact, outdated, pc>>
      /\ upset' = upset + 1 /\ upset \in Nat
  BY DEF Lose, locals, TypeInv, TypeOK
<1>2. \A o, m, c : Sendings(o, m, c)' = Sendings(o, m, c)
  BY <1>1 DEF Sendings, Waiting
<1>3. \A o \in Owners, m \in Materials, c \in Contents :
        Sendings(o, m, c) <= 1 + upset /\ Sendings(o, m, c) \in Nat
  BY SendingsCounted DEF SendInv, Bound
<1>4. Bound' /\ \A o \in Owners, m \in Materials : Low(o, m)'
  BY <1>1, <1>2, <1>3 DEF Bound, Low
<1>5. \A o \in Owners, m \in Materials : Low(o, m) => Lower(o, m)'
  BY <1>1, <1>2, <1>3 DEF Low, Lower
<1>6. Credit' /\ Named'
  BY <1>1, <1>4 DEF SendInv, Credit, Named, HasHash
<1>7. ASSUME NEW q \in Runs
      PROVE  Distinct(q)' /\ OnCourse(q)'
  <2>1. Distinct(q)'
    BY <1>1 DEF Distinct, SendInv
  <2>2. CASE pc[q] \notin Stages
    BY <1>1, <2>1, <2>2 DEF OnCourse
  <2>3. CASE pc[q] \in Stages
    <3>1. PICK o \in Owners : o = user[q]
      BY DEF TypeInv, TypeOK
    <3>2. PICK w \in Works : w = work[q]
      BY DEF TypeInv, TypeOK
    <3>3. PICK place \in Stages : place = pc[q]
      BY <2>3
    <3>4. w.m \in Materials /\ Course(q, o, w, place)
      BY <3>1, <3>2, <3>3 DEF SendInv, OnCourse, TypeInv, Shape
    <3>5. Low(o, w.m) \/ Settled(o, artifact[o][w.m])
      BY <3>4 DEF SendInv, Credit
    <3>6. q \notin outdated /\ Reason(w) => Low(o, w.m)
      BY <3>4, <3>5 DEF Course, Reason, Settled
    <3>7. Low(o, w.m)' /\ (Low(o, w.m) => Lower(o, w.m)')
      BY <1>4, <1>5, <3>4
    <3>8. Course(q, o, w, place)'
      BY <1>1, <3>4, <3>6, <3>7 DEF Course, HasHash, Changed, Reason
    <3> QED BY <1>1, <2>1, <3>1, <3>2, <3>3, <3>8 DEF OnCourse
  <2> QED BY <2>2, <2>3
<1> QED BY <1>4, <1>6, <1>7 DEF SendInv

\* A repair writes a row as it was listed, with a brief.
LEMMA RepairKeepsSendInv ==
  ASSUME TypeInv, SendInv, NEW e \in repair, RepairRow(e)
  PROVE  SendInv'
<1>1. PICK o \in Owners : o = e[1]
  BY SaidOf
<1>2. PICK m \in Materials : m = e[2]
  BY SaidOf
<1>3. PICK row \in Rows : row = e[3]
  BY SaidOf
<1>4. /\ UNCHANGED <<pushes, briefs, user, work, left, files, pc>> /\ repair' = repair \ {e}
      /\ upset \in Nat /\ artifact \in [Owners -> [Materials -> Rows]]
  BY DEF RepairRow, locals, TypeInv, TypeOK
<1>5. CASE UNCHANGED <<artifact, outdated, upset>>
  BY <1>4, <1>5, OutsideKeepsSendInv
<1>6. ASSUME NEW text \in RepairText(o, row),
             artifact' = [artifact EXCEPT ![o][m] =
               [row EXCEPT !.path = IF Exists(o, row.path) THEN row.path ELSE NoName,
                           !.extract = text, !.brief = text]],
             outdated' = Rewritten(o, m),
             upset' = IF artifact[o][m] # row THEN upset + 1 ELSE upset
      PROVE  SendInv'
  <2> DEFINE path == IF Exists(o, row.path) THEN row.path ELSE NoName
             new  == [row EXCEPT !.path = path, !.extract = text, !.brief = text]
  <2>1. text # "none"
    BY RepairTextTyped, ConstantsAssumption
  <2>2. new.path = path /\ new.hash = row.hash /\ new.brief = text
    <3> HIDE DEF path
    <3> QED BY DEF Rows
  <2>3. artifact' = [artifact EXCEPT ![o][m] = new]
    BY <1>6
  <2>4. /\ Exists(o, row.path) => path = row.path
        /\ ~Exists(o, row.path) => path = NoName
    OBVIOUS
  <2> HIDE DEF new, path
  <2>5. /\ artifact'[o][m] = new
        /\ \A u \in Owners, k \in Materials : u # o \/ k # m => artifact'[u][k] = artifact[u][k]
    BY <1>4, <2>3
  <2>6. \A u, k, c : Sendings(u, k, c)' = Sendings(u, k, c)
    BY <1>4 DEF Sendings, Waiting
  <2>7. \A u, n : Exists(u, n)' <=> Exists(u, n)
    BY <1>4 DEF Exists
  <2>8. \A u \in Owners, k \in Materials, c \in Contents :
          Sendings(u, k, c) <= 1 + upset /\ Sendings(u, k, c) \in Nat
    BY SendingsCounted DEF SendInv, Bound
  <2>9. /\ upset' \in Nat /\ upset <= upset'
        /\ artifact[o][m] # row => upset' = upset + 1
    BY <1>4, <1>6
  <2>10. Bound'
    BY <1>4, <2>6, <2>8, <2>9 DEF Bound
  <2>11. ASSUME NEW u \in Owners, NEW k \in Materials
         PROVE  (Low(u, k) => Low(u, k)') /\ (Lower(u, k) => Lower(u, k)')
    <3>1. \A c \in Contents : Sendings(u, k, c)' <= Sendings(u, k, c) /\ Sendings(u, k, c)' \in Nat
      BY <2>6, <2>8
    <3> QED BY <2>9, <3>1, LowKept
  <2>12. Low(o, m)' \/ Settled(o, new)
    <3>1. CASE artifact[o][m] # row
      BY <1>4, <2>6, <2>8, <2>9, <3>1 DEF Low
    <3>2. CASE artifact[o][m] = row
      <4>1. Low(o, m) \/ Settled(o, row)
        BY <3>2 DEF SendInv, Credit
      <4> QED BY <2>1, <2>2, <2>4, <2>11, <4>1 DEF Settled
    <3> QED BY <3>1, <3>2
  <2>13. Credit'
    <3> SUFFICES ASSUME NEW u \in Owners, NEW k \in Materials
                 PROVE  Low(u, k)' \/ Settled(u, artifact[u][k])'
      BY DEF Credit
    <3>1. CASE u = o /\ k = m
      BY <2>5, <2>7, <2>12, <3>1 DEF Settled
    <3>2. CASE u # o \/ k # m
      <4>1. Low(u, k) \/ Settled(u, artifact[u][k])
        BY DEF SendInv, Credit
      <4> QED BY <2>5, <2>7, <2>11, <3>2, <4>1 DEF Settled
    <3> QED BY <3>1, <3>2
  <2>14. HasHash(new)
    <3>1. HasHash(row)
      BY <1>3 DEF SendInv, Named
    <3> QED BY <2>2, <2>4, <3>1, NoNameIsNone DEF HasHash
  <2>15. Named'
    <3>1. \A u \in Owners, k \in Materials : HasHash(artifact'[u][k])
      BY <2>5, <2>14 DEF SendInv, Named
    <3> QED BY <1>4, <3>1 DEF SendInv, Named, HasHash
  <2>16. ASSUME NEW q \in Runs
         PROVE  Distinct(q)' /\ OnCourse(q)'
    <3>1. Distinct(q)'
      BY <1>4 DEF Distinct, SendInv
    <3>2. pc[q] \in Stages /\ q \notin outdated' =>
            q \notin outdated /\ artifact'[user[q]][work[q].m] = artifact[user[q]][work[q].m]
      <4>1. pc[q] \in Stages => user[q] \in Owners /\ work[q].m \in Materials
        BY DEF TypeInv, TypeOK, Shape
      <4> QED BY <1>6, <2>5, <4>1 DEF Rewritten
    <3>3. OnCourse(q)'
      BY <1>4, <2>7, <2>11, <3>2, OthersCourse
    <3> QED BY <3>1, <3>3
  <2> QED BY <2>10, <2>13, <2>15, <2>16 DEF SendInv
<1> QED BY <1>1, <1>2, <1>3, <1>5, <1>6 DEF RepairRow

\* Which briefs come to wait when a row is written: those of its material, if any.
LEMMA RecordSends ==
  ASSUME TypeInv, NEW p \in Runs, Record(p), Step(p),
         NEW o \in Owners, NEW m \in Materials, NEW c \in Contents
  PROVE  /\ Sendings(o, m, c)' \in Nat /\ Sendings(o, m, c) \in Nat
         /\ Sendings(o, m, c)' <= Sendings(o, m, c) + 1
         /\ ~(p = Poller /\ o = user[p] /\ m = work[p].m /\ <<m, c>> \in briefs[p])
              => Sendings(o, m, c)' <= Sendings(o, m, c)
<1>1. pushes[o][m][c] \in Nat /\ UNCHANGED pushes
  BY DEF Record, TypeInv, TypeOK
<1>2. ASSUME p = Poller, o # user[p] \/ m # work[p].m \/ <<m, c>> \notin briefs[p]
      PROVE  Waiting(o, m, c)' => Waiting(o, m, c)
  BY <1>2 DEF Record, Waiting
<1>3. p # Poller => Sendings(o, m, c)' <= Sendings(o, m, c)
  BY SendingsFall
<1> QED BY <1>1, <1>2, <1>3 DEF Sendings

\* The row of the run at its material.
LEMMA RecordedRow ==
  ASSUME TypeInv, SendInv, NEW p \in Runs, Record(p), Step(p),
         NEW o \in Owners, NEW w \in Works, o = user[p], w = work[p],
         NEW row \in Rows, row.path = w.path, row.hash = w.hash, row.brief = w.brief
  PROVE  /\ Low(o, w.m)' \/ Settled(o, row)
         /\ \A c \in Contents : Sendings(o, w.m, c)' <= 1 + upset'
<1> DEFINE m == w.m
           made == p = Poller /\ \E c \in Contents : <<m, c>> \in briefs[p]
<1>1. m \in Materials /\ Course(p, o, w, "record") /\ upset \in Nat
      /\ w.path \in Names \union {NoName}
  BY DEF SendInv, OnCourse, Record, Stages, TypeInv, TypeOK, Shape, Works
<1>2. \A c \in Contents :
        /\ Sendings(o, m, c)' \in Nat /\ Sendings(o, m, c) \in Nat
        /\ Sendings(o, m, c)' <= Sendings(o, m, c) + 1
        /\ ~made => Sendings(o, m, c)' <= Sendings(o, m, c)
        /\ Sendings(o, m, c) <= 1 + upset
  BY <1>1, RecordSends DEF SendInv, Bound
<1>3. /\ p \in outdated => upset' = upset + 1
      /\ p \notin outdated => upset' = upset
  BY DEF Record
<1>4. /\ p \notin outdated => artifact[o][m] = w.old
      /\ Low(o, m) \/ Settled(o, artifact[o][m])
      /\ w.path # NoName <=> w.path \in Names
  BY <1>1, NoNameIsNone DEF Course, SendInv, Credit
<1>5. Exists(o, w.path) => w.path # NoName /\ w.hash # "none"
  BY <1>1, <1>4 DEF Course, HasHash, Exists
<1>6. CASE ~made
  <2>1. \A c \in Contents : Sendings(o, m, c)' <= 1 + upset'
    BY <1>1, <1>2, <1>3, <1>6
  <2>2. CASE p \in outdated
    BY <1>1, <1>2, <1>3, <1>6, <2>1, <2>2 DEF Low
  <2>3. CASE p \notin outdated /\ Low(o, m)
    BY <1>1, <1>2, <1>3, <1>6, <2>1, <2>3 DEF Low
  <2>4. CASE p \notin outdated /\ ~Low(o, m)
    <3>1. Settled(o, w.old)
      BY <1>4, <2>4
    <3>2. Exists(o, w.path)
      BY <1>1, <2>4 DEF Course
    <3>3. w.brief # "none"
      BY <1>1, <3>1 DEF Course, Settled
    <3> QED BY <1>5, <2>1, <3>2, <3>3 DEF Settled
  <2> QED BY <2>2, <2>3, <2>4
<1>7. CASE made
  <2>1. Reason(w) /\ w.path # NoName /\ w.brief # "none"
    BY <1>1, <1>7 DEF Course
  <2>2. p \notin outdated => Low(o, m)
    <3>1. w.old.brief = "none" /\ p \notin outdated => Low(o, m)
      BY <1>4 DEF Settled
    <3> QED BY <1>1, <2>1, <3>1 DEF Course, Reason
  <2>3. \A c \in Contents : Sendings(o, m, c)' <= 1 + upset'
    <3>1. CASE p \in outdated
      BY <1>1, <1>2, <1>3, <3>1
    <3>2. CASE p \notin outdated
      BY <1>1, <1>2, <1>3, <2>2, <3>2 DEF Low
    <3> QED BY <3>1, <3>2
  <2>4. CASE Exists(o, w.path)
    BY <1>5, <2>1, <2>3, <2>4 DEF Settled
  <2>5. CASE ~Exists(o, w.path)
    <3>1. Low(o, m) /\ (p \notin outdated => Lower(o, m))
      BY <1>1, <1>7, <2>1, <2>5 DEF Course
    <3>2. CASE p \in outdated
      BY <1>1, <1>2, <1>3, <2>3, <3>1, <3>2 DEF Low
    <3>3. CASE p \notin outdated
      BY <1>1, <1>2, <1>3, <2>3, <3>1, <3>3 DEF Low, Lower
    <3> QED BY <3>2, <3>3
  <2> QED BY <2>4, <2>5
<1> QED BY <1>6, <1>7

\* A row is written by a run.
LEMMA RecordKeepsSendInv ==
  ASSUME TypeInv, TypeInv', SendInv, UNCHANGED repair, NEW p \in Runs, Step(p), Record(p)
  PROVE  SendInv'
<1>1. PICK o \in Owners : o = user[p]
  BY DEF TypeInv, TypeOK
<1>2. PICK w \in Works : w = work[p]
  BY DEF TypeInv, TypeOK
<1> DEFINE r == [path |-> w.path, hash |-> w.hash, extract |-> w.extract, brief |-> w.brief,
                 scan |-> w.scan]
<1>3. PICK row \in Rows : row = r
  BY DEF Rows, Works
<1>4. row.path = w.path /\ row.hash = w.hash /\ row.brief = w.brief
  BY <1>3
<1>5. artifact' = [artifact EXCEPT ![o][w.m] = row]
  BY <1>1, <1>2, <1>3 DEF Record
<1> HIDE DEF r
<1>6. w.m \in Materials /\ Course(p, o, w, "record")
  BY <1>1, <1>2 DEF Record, SendInv, OnCourse, Stages, TypeInv, TypeOK, Shape
<1>7. PICK m \in Materials : m = w.m
  BY <1>6
<1>8. /\ artifact'[o][m] = row
      /\ \A u \in Owners, k \in Materials : u # o \/ k # m => artifact'[u][k] = artifact[u][k]
  BY <1>5, <1>7 DEF TypeInv, TypeOK
<1>9. /\ UNCHANGED files
      /\ outdated' = Rewritten(o, m) \ {p}
      /\ upset \in Nat /\ upset' \in Nat /\ upset <= upset'
  BY <1>1, <1>2, <1>7 DEF Record, TypeInv, TypeOK
<1>10. \A u, n : Exists(u, n)' <=> Exists(u, n)
  BY <1>9 DEF Exists
<1>11. ASSUME NEW u \in Owners, NEW k \in Materials, p # Poller \/ u # o \/ k # m
       PROVE  (Low(u, k) => Low(u, k)') /\ (Lower(u, k) => Lower(u, k)')
  <2>1. \A c \in Contents : Sendings(u, k, c)' <= Sendings(u, k, c) /\ Sendings(u, k, c)' \in Nat
    BY <1>1, <1>2, <1>7, <1>11, RecordSends
  <2> QED BY <1>9, <2>1, LowKept
<1>12. /\ Low(o, m)' \/ Settled(o, row)
       /\ \A c \in Contents : Sendings(o, m, c)' <= 1 + upset'
  BY <1>1, <1>2, <1>4, <1>7, RecordedRow
<1>13. Bound'
  <2> SUFFICES ASSUME NEW u \in Owners, NEW k \in Materials, NEW c \in Contents
               PROVE  Sendings(u, k, c)' <= 1 + upset'
    BY DEF Bound
  <2>1. CASE u = o /\ k = m
    BY <1>12, <2>1
  <2>2. CASE u # o \/ k # m
    <3>1. /\ Sendings(u, k, c)' <= Sendings(u, k, c)
          /\ Sendings(u, k, c)' \in Nat /\ Sendings(u, k, c) \in Nat
      BY <1>1, <1>2, <1>7, <2>2, RecordSends
    <3>2. Sendings(u, k, c) <= 1 + upset
      BY DEF SendInv, Bound
    <3> QED BY <1>9, <3>1, <3>2
  <2> QED BY <2>1, <2>2
<1>14. Credit'
  <2> SUFFICES ASSUME NEW u \in Owners, NEW k \in Materials
               PROVE  Low(u, k)' \/ Settled(u, artifact[u][k])'
    BY DEF Credit
  <2>1. CASE u = o /\ k = m
    BY <1>8, <1>10, <1>12, <2>1 DEF Settled
  <2>2. CASE u # o \/ k # m
    <3>1. Low(u, k) \/ Settled(u, artifact[u][k])
      BY DEF SendInv, Credit
    <3> QED BY <1>8, <1>10, <1>11, <2>2, <3>1 DEF Settled
  <2> QED BY <2>1, <2>2
<1>15. Named'
  <2>1. HasHash(row)
    BY <1>4, <1>6 DEF Course, HasHash
  <2>2. \A u \in Owners, k \in Materials : HasHash(artifact'[u][k])
    BY <1>8, <2>1 DEF SendInv, Named
  <2> QED BY <2>2 DEF SendInv, Named, HasHash
<1>16. ASSUME NEW q \in Runs \ {p}
       PROVE  Distinct(q)' /\ OnCourse(q)'
  <2>1. pc'[q] = pc[q] /\ user'[q] = user[q] /\ work'[q] = work[q] /\ briefs'[q] = briefs[q]
        /\ left'[q] = left[q]
    BY RunsAreApart
  <2>2. Distinct(q)'
    BY <2>1 DEF Distinct, SendInv
  <2>3. pc[q] \in Stages => user[q] \in Owners /\ work[q].m \in Materials
    BY DEF TypeInv, TypeOK, Shape
  <2>4. q \notin outdated' => q \notin outdated /\ (user[q] # o \/ work[q].m # m)
    BY <1>9 DEF Rewritten
  <2>5. pc[q] \in Stages /\ q \notin outdated' =>
          q \notin outdated /\ artifact'[user[q]][work[q].m] = artifact[user[q]][work[q].m]
    BY <1>8, <2>3, <2>4
  <2>6. \A u \in Owners, k \in Materials :
          (q = Poller \/ q \notin outdated') /\ pc[q] \in Stages /\ u = user[q] /\ k = work[q].m =>
            (Low(u, k) => Low(u, k)') /\ (Lower(u, k) => Lower(u, k)')
    BY <1>11, <2>4
  <2>7. OnCourse(q)'
    BY <1>10, <2>1, <2>5, <2>6, OthersCourse
  <2> QED BY <2>2, <2>7
<1>17. Distinct(p)' /\ OnCourse(p)'
  BY OwnDistinct, OwnCourse DEF SendInv
<1> QED BY <1>13, <1>14, <1>15, <1>16, <1>17 DEF SendInv

\* Every step sends no brief more often than rows and files were lost, but once.
LEMMA StepKeepsSendInv == TypeInv /\ TypeInv' /\ SendInv /\ [Next]_vars => SendInv'
<1> SUFFICES ASSUME TypeInv, TypeInv', SendInv, [Next]_vars PROVE SendInv'
  OBVIOUS
<1>1. CASE UNCHANGED vars
  <2>1. UNCHANGED <<pushes, briefs, user, work, left, artifact, files, outdated, upset, pc, repair>>
    BY <1>1 DEF vars, store, locals, history, sent
  <2> QED BY <2>1, OutsideKeepsSendInv
<1>2. CASE /\ UNCHANGED repair
           /\ \/ \E m \in Materials : Replace(m)
              \/ \E t \in ActionEvents : Submit(t)
              \/ \E o \in Owners, t \in TaskIds : Done(o, t)
  <2>1. UNCHANGED <<pushes, briefs, user, work, left, artifact, files, outdated, upset, pc>>
    BY <1>2 DEF Replace, Submit, Done, store, locals, sent
  <2> QED BY <1>2, <2>1, OutsideKeepsSendInv
<1>3. CASE UNCHANGED repair /\ (StartPoller \/ \E u \in Users : StartRefresher(u))
  <2>1. PICK p \in Runs, T \in SUBSET Owners : Begin(p, T) /\ pc[p] = "idle"
    BY <1>3 DEF StartPoller, StartRefresher, Runs, Targets, Connected, Owners
  <2>2. UNCHANGED <<pushes, briefs, user, work, left, artifact, files, outdated, upset>>
    BY <2>1 DEF Begin, store, sent
  <2>3. \A q \in Runs : pc'[q] = pc[q] \/ (pc[q] = "idle" /\ pc'[q] = "target")
    BY <2>1 DEF Begin, Go, TypeInv, TypeOK
  <2> QED BY <1>3, <2>2, <2>3, OutsideKeepsSendInv
<1>4. ASSUME NEW o \in Users, StartRepair(o)
      PROVE  SendInv'
  <2>1. UNCHANGED <<pushes, briefs, user, work, left, artifact, files, outdated, upset, pc>>
    BY <1>4 DEF StartRepair, store, locals, history, sent
  <2>2. \A e \in repair' : \E u \in Owners, m \in Materials : e[3] = artifact[u][m]
    <3> SUFFICES ASSUME NEW e \in repair'
                 PROVE  \E u \in Owners, m \in Materials : e[3] = artifact[u][m]
      OBVIOUS
    <3>1. PICK m \in Materials : e = <<o, m, artifact[o][m]>>
      BY <1>4 DEF StartRepair
    <3>2. o \in Owners
      BY DEF Owners
    <3> QED BY <3>1, <3>2
  <2> QED BY <2>1, <2>2, OutsideKeepsSendInv
<1>5. ASSUME NEW p \in Runs, Step(p), UNCHANGED repair
      PROVE  SendInv'
  BY <1>5, RunKeepsSendInv, RecordKeepsSendInv
<1>6. ASSUME NEW o \in Owners, NEW n \in Names, Lose(o, n), UNCHANGED repair
      PROVE  SendInv'
  BY <1>6, LossKeepsSendInv
<1>7. ASSUME NEW e \in repair, RepairRow(e)
      PROVE  SendInv'
  BY <1>7, RepairKeepsSendInv
<1> QED BY <1>1, <1>2, <1>3, <1>4, <1>5, <1>6, <1>7 DEF Next, Environment

\* The brief of a content is sent once, and once more for every row or file that was lost: no
\* failure, kill, refresh or repair, and no collection that follows, repeats it, in any number
\* of runs.  It was in its row before.
THEOREM BriefsAreSentOnce == Spec => []PushesBounded
<1>1. Init => SendInv
  <2> SUFFICES ASSUME Init PROVE SendInv
    OBVIOUS
  <2>1. \A o \in Owners, m \in Materials, c \in Contents : Sendings(o, m, c) = 0
    <3>1. \A o \in Owners, m \in Materials, c \in Contents : pushes[o][m][c] = 0
      BY DEF Init
    <3>2. briefs[Poller] = {}
      BY DEF Init, Runs
    <3>3. \A o, m, c : ~Waiting(o, m, c)
      BY <3>2 DEF Waiting
    <3> QED BY <3>1, <3>3 DEF Sendings
  <2>2. upset = 0
    BY DEF Init
  <2>3. Bound /\ Credit
    BY <2>1, <2>2 DEF Bound, Credit, Low
  <2>4. Named
    BY NoNameIsNone DEF Init, Named, HasHash, NoRow
  <2>5. \A p \in Runs : Distinct(p) /\ OnCourse(p)
    BY DEF Init, Distinct, OnCourse, Stages
  <2> QED BY <2>3, <2>4, <2>5 DEF SendInv
<1>2. TypeInv /\ TypeInv' /\ SendInv /\ [Next]_vars => SendInv'
  BY StepKeepsSendInv
<1>3. TypeInv /\ SendInv /\ PushedRecorded => PushesBounded
  <2> SUFFICES ASSUME TypeInv, SendInv, PushedRecorded,
                      NEW o \in Owners, NEW m \in Materials, NEW c \in Contents
               PROVE  /\ pushes[o][m][c] <= 1 + upset
                      /\ pushes[o][m][c] > 0 => <<o, m, c>> \in recorded
    BY DEF PushesBounded
  <2>1. Sendings(o, m, c) <= 1 + upset /\ upset \in Nat
    BY DEF SendInv, Bound, TypeInv, TypeOK
  <2>2. /\ Sendings(o, m, c) \in Nat /\ pushes[o][m][c] \in Nat
        /\ pushes[o][m][c] <= Sendings(o, m, c)
    BY SendingsCounted
  <2> QED BY <2>1, <2>2 DEF PushedRecorded
<1> QED BY <1>1, <1>2, <1>3, TypeCorrect, SentBriefsAreRecorded, PTL DEF Spec
===============================================================================
