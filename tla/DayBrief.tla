------------------------------ MODULE DayBrief ------------------------------
(***************************************************************************)
(* The brief of a day: what /today, /tomorrow and their summaries, the     *)
(* scheduled briefings and the published dashboard are made from           *)
(* (DayBriefService of jobs/pipeline.py), for one user.                    *)
(*                                                                         *)
(* A process keeps the briefs it has built under the parameters of the     *)
(* request, each with a fingerprint of the database: per table the number  *)
(* of rows and the newest updated_at, which counts whole seconds.  A brief *)
(* is built by several reads, each a transaction of its own, while other   *)
(* processes write.  Open tasks that a language model takes for the same   *)
(* are shown as one line; what it said is kept in a row of the database    *)
(* that three kinds of processes rewrite, each for another list of tasks.  *)
(***************************************************************************)
EXTENDS Naturals, FiniteSets, FiniteSetsExt, Sequences, SequencesExt

CONSTANTS
    Task,       \* the tasks of one course of the user
    Place,      \* the order of the tasks in the table
    Rank,       \* how much a task has to show
    Similar,    \* pairs of tasks whose titles are alike, as one may contain the other
    FirstDue,   \* when each task is due as it is first collected
    Dues,       \* bound: the deadlines a later collection may find
    Commands,   \* the commands the user gives, <<kind, day>>
    Keep,       \* DAY_BRIEF_CACHE_MAX_ENTRIES, briefs a process remembers
    Seconds,    \* bound: the clock
    MaxWrites,  \* bound: writes of other processes to the tables
    MaxRuns     \* bound: messages and job runs that bring the groups up to date

ASSUME BriefAssumption ==
    /\ IsFiniteSet(Task)
    /\ Rank \in [Task -> Nat]
    /\ Place \in [Task -> Nat]
    /\ \A t, u \in Task : Place[t] = Place[u] => t = u
    /\ \A s \in Similar : s \subseteq Task /\ Cardinality(s) = 2
    /\ Dues \subseteq 0 .. 5
    /\ FirstDue \in [Task -> 0 .. 5]
    /\ Commands \subseteq {"day", "summary"} \X {0, 1}
    /\ Keep \in Nat \ {0}
    /\ Seconds \in Nat
    /\ MaxWrites \in Nat
    /\ MaxRuns \in Nat

VARIABLES
    now,        \* the second of the clock
    tasks,      \* the rows of the tasks
    rest,       \* events, materials, notices, courses and aliases as one table
    merges,     \* the row task_merge_cache
    mem,        \* the briefs the listener remembers, the oldest first
    request,        \* the request each process works on, or has just answered
    writes,     \* bounded: writes so far
    runs        \* bounded: messages and job runs so far

briefVars == <<now, tasks, rest, merges, mem, request, writes, runs>>

-----------------------------------------------------------------------------
(* Processes, requests and rows                                            *)

\* The listener lives on.  The jobs that send and publish the briefings end
\* after each run; no run builds a brief twice, so that what such a process
\* remembers is never found, and the jobs are one process here.
Proc == {"listener", "job"}
Days == 0 .. 2                  \* today, tomorrow and the day after
Minute(s) == s \div 2           \* a minute has two seconds here

\* Tasks are due in the first or in the last minutes of a day.  The last of a
\* day and the first of the next have the same midnight near them.
Slots == 0 .. 5
Day(slot) == slot \div 2
Midnight(slot) == (slot + 1) \div 2
Late(slot) == Midnight(slot) > Day(slot)

Kinds == {"day", "summary", "briefing"}
Windowed(k) == k # "summary"
Key(r) == [kind |-> r.kind, day |-> r.day, ref |-> r.ref,
           minute |-> IF Windowed(r.kind) THEN Minute(r.start) ELSE 0]

\* The rows of the open tasks that are due from a day on; their order and
\* their limit do not matter here.
OpenFrom(d) == {[task |-> t, due |-> tasks[t].due] :
                    t \in {u \in Task : tasks[u].status = "open" /\ Day(tasks[u].due) >= d}}

Newest(S) == IF S = {} THEN 0 ELSE Max(S)
OpenTasks == {t \in Task : tasks[t].status = "open"}
Fingerprint ==
    [tasks |-> [count |-> Cardinality(OpenTasks), newest |-> Newest({tasks[t].at : t \in OpenTasks})],
     rest |-> rest.at,
     merges |-> [of |-> merges.of, at |-> merges.at, count |-> Cardinality(merges.groups)]]

NoValue == [rest |-> 0, rows |-> {}, groups |-> {}, seen |-> {}, at |-> 0]
NoPrint == [tasks |-> [count |-> 0, newest |-> 0], rest |-> 0,
            merges |-> [of |-> {}, at |-> 0, count |-> 0]]
NoTruth == [rest |-> 0, rows |-> {}, groups |-> {}]
NoRequest == [pc |-> "idle", kind |-> "day", day |-> 0, ref |-> 0, start |-> 0, rows |-> {},
              print |-> NoPrint, value |-> NoValue, truth |-> NoTruth]

BriefInit ==
    /\ now = 0
    /\ tasks = [t \in Task |-> [status |-> "open", due |-> FirstDue[t], at |-> 0]]
    /\ rest = [at |-> 0, version |-> 0]
    /\ merges = [of |-> {}, groups |-> {}, at |-> 0]
    /\ mem = <<>>
    /\ request = [p \in Proc |-> NoRequest]
    /\ writes = 0
    /\ runs = 0

-----------------------------------------------------------------------------
(* Duplicates and merged lines                                             *)

\* Two rows are taken for one task if the titles are alike and the deadlines
\* at most 15 minutes apart, though midnight may be between them.
Equivalent(x, y) == {x.task, y.task} \in Similar /\ Midnight(x.due) = Midnight(y.due)

\* The rows by deadline; each is compared with those kept so far, and takes
\* the place of the first it is equivalent to if it has more to show.
InOrder(rows) ==
    SetToSortSeq(rows, LAMBDA x, y : \/ x.due < y.due
                                     \/ x.due = y.due /\ Place[x.task] < Place[y.task])
Admit(kept, x) ==
    LET same == {i \in DOMAIN kept : Equivalent(kept[i], x)}
    IN  CASE same = {} -> Append(kept, x)
          [] same # {} /\ Rank[x.task] > Rank[kept[Min(same)].task] -> [kept EXCEPT ![Min(same)] = x]
          [] OTHER -> kept
Deduped(rows) == {x \in rows : x \in ToSet(FoldLeft(Admit, <<>>, InOrder(rows)))}

\* The deadlines are close enough for the model to be asked (36 hours).
Eligible(x, y) ==
    x # y /\ Midnight(x.due) <= Midnight(y.due) + 1 /\ Midnight(y.due) <= Midnight(x.due) + 1
Linked(rows, x, y) ==
    \A S \in SUBSET rows :
        x \in S /\ (\A u \in S, v \in rows : Eligible(u, v) => v \in S) => y \in S
Components(rows) ==
    {c \in {{x} \cup {y \in rows : x # y /\ Linked(rows, x, y)} : x \in rows} : Cardinality(c) >= 2}

\* What the model may say: disjoint groups of at least two tasks, each from
\* one component.  No answer, or nonsense, makes no group.
Verdicts(rows) ==
    LET Within == {g \in SUBSET {x.task : x \in rows} :
                      /\ Cardinality(g) >= 2
                      /\ \E c \in Components(rows) : g \subseteq {x.task : x \in c}}
    IN  {G \in SUBSET Within : \A g, h \in G : g # h => g \cap h = {}}

Earliest(rows) == Min({x.due : x \in rows})
Present(kept, g) == {x \in kept : x.task \in g}

\* Mutant of MergeLines: a task whose partner is not in the list goes with it.
MergeLinesConsumed(rows, groups) ==
    LET kept   == Deduped(rows)
        merged == {g \in groups : Cardinality(Present(kept, g)) >= 2}
    IN  {[tasks |-> {x.task : x \in Present(kept, g)}, due |-> Earliest(Present(kept, g))] : g \in merged}
        \cup {[tasks |-> {x.task}, due |-> x.due] :
                  x \in {y \in kept : ~ \E g \in groups : y.task \in g}}

\* The lines of a list of rows.  The groups may be older than the rows, and
\* made for another list: what they name that is not in the list is ignored.
MergeLines(rows, groups) ==
    LET kept   == Deduped(rows)
        merged == {g \in groups : Cardinality(Present(kept, g)) >= 2}
    IN  {[tasks |-> {x.task : x \in Present(kept, g)}, due |-> Earliest(Present(kept, g))] : g \in merged}
        \cup {[tasks |-> {x.task}, due |-> x.due] :
                  x \in {y \in kept : ~ \E g \in merged : y.task \in g}}

-----------------------------------------------------------------------------
(* The other processes                                                     *)

Tick ==
    /\ now < Seconds
    /\ now' = now + 1
    /\ UNCHANGED <<tasks, rest, merges, mem, request, writes, runs>>

\* A collection writes a task, with the deadline it has found; it leaves the
\* tasks alone that are done.
Collect(t) ==
    /\ writes < MaxWrites
    /\ tasks[t].status # "done"
    /\ \E d \in Dues : tasks' = [tasks EXCEPT ![t] = [status |-> "open", due |-> d, at |-> now]]
    /\ writes' = writes + 1
    /\ UNCHANGED <<now, rest, merges, mem, request, runs>>

\* The command /done closes a task.
Close(t) ==
    /\ writes < MaxWrites
    /\ tasks[t].status = "open"
    /\ tasks' = [tasks EXCEPT ![t] = [status |-> "done", due |-> @.due, at |-> now]]
    /\ writes' = writes + 1
    /\ UNCHANGED <<now, rest, merges, mem, request, runs>>

\* A row of another table is rewritten.  (An added row changes the number of
\* rows as well, and is noticed in any case.)
Touch ==
    /\ writes < MaxWrites
    /\ rest' = [at |-> now, version |-> rest.version + 1]
    /\ writes' = writes + 1
    /\ UNCHANGED <<now, tasks, merges, mem, request, runs>>

-----------------------------------------------------------------------------
(* What the model says about the tasks                                     *)

\* The listener has got messages of the user: the groups of all open tasks
\* are brought up to date before the commands are executed.
Poll ==
    /\ request["listener"].pc = "idle"
    /\ runs < MaxRuns
    /\ runs' = runs + 1
    /\ request' = [request EXCEPT !["listener"] = [NoRequest EXCEPT !.pc = "merge", !.rows = OpenFrom(0)]]
    /\ UNCHANGED <<now, tasks, rest, merges, mem, writes>>

\* A scheduled briefing reads the tasks from the day of its sending on, the one
\* of the evening too, which is about the day after.  The publisher also
\* prepares those of tomorrow.
Brief(ref, day) ==
    /\ request["job"].pc = "idle"
    /\ runs < MaxRuns
    /\ runs' = runs + 1
    /\ request' = [request EXCEPT !["job"] = [NoRequest EXCEPT !.pc = "merge", !.kind = "briefing", !.day = day,
                                      !.ref = ref, !.rows = OpenFrom(ref)]]
    /\ UNCHANGED <<now, tasks, rest, merges, mem, writes>>

\* The groups are those of this very list of tasks.
Current(rows) == merges.of = Deduped(rows)

AfterMerge(p) ==
    [request EXCEPT ![p] = IF request[p].kind = "briefing"
                       THEN [request[p] EXCEPT !.pc = "lines", !.value.rows = request[p].rows] ELSE NoRequest]

KeepMerges(p) ==
    /\ request[p].pc = "merge"
    /\ Current(request[p].rows)
    /\ request' = AfterMerge(p)
    /\ UNCHANGED <<now, tasks, rest, merges, mem, writes, runs>>

\* Without two tasks to compare the row is written at once; otherwise after
\* the answer of the model, which takes its time.
WriteMerges(p) ==
    /\ request[p].pc = "merge"
    /\ ~ Current(request[p].rows)
    /\ \E G \in Verdicts(Deduped(request[p].rows)) :
           merges' = [of |-> Deduped(request[p].rows), groups |-> G, at |-> now]
    /\ request' = AfterMerge(p)
    /\ UNCHANGED <<now, tasks, rest, mem, writes, runs>>

-----------------------------------------------------------------------------
(* A brief                                                                 *)

\* A command of the user: /today and /tomorrow take the tasks of the next
\* days along, the summaries do not.  (The list of the next days is merged as
\* the tasks of the day are, and left out.)
Ask(k, d) ==
    /\ request["listener"].pc = "idle"
    /\ request' = [request EXCEPT !["listener"] = [NoRequest EXCEPT !.pc = "lookup", !.kind = k, !.day = d,
                                            !.ref = d, !.start = now]]
    /\ UNCHANGED <<now, tasks, rest, merges, mem, writes, runs>>

\* Mutant of Matching: the tasks are left out of the comparison.
MatchingRest(e, r) ==
    e.key = Key(r) /\ e.print.rest = Fingerprint.rest /\ e.print.merges = Fingerprint.merges
Matching(e, r) == e.key = Key(r) /\ e.print = Fingerprint
Without(m, key) ==
    IF \E i \in DOMAIN m : m[i].key = key
    THEN RemoveAt(m, CHOOSE i \in DOMAIN m : m[i].key = key) ELSE m

\* The remembered brief is given, and is now the one used last.
Hit(p) ==
    /\ request[p].pc = "lookup"
    /\ \E i \in DOMAIN mem :
           /\ Matching(mem[i], request[p])
           /\ mem' = Append(Without(mem, Key(request[p])), mem[i])
           /\ request' = [request EXCEPT ![p] = [request[p] EXCEPT
                  !.pc = "hit", !.print = mem[i].print, !.value = mem[i].value,
                  !.truth = [rest |-> rest.version, rows |-> OpenFrom(request[p].ref),
                             groups |-> merges.groups]]]
    /\ UNCHANGED <<now, tasks, rest, merges, writes, runs>>

Miss(p) ==
    /\ request[p].pc = "lookup"
    /\ ~ \E i \in DOMAIN mem : Matching(mem[i], request[p])
    /\ request' = [request EXCEPT ![p] = [request[p] EXCEPT
           !.pc = "rest", !.print = Fingerprint,
           !.value.at = now, !.value.seen = OpenFrom(request[p].ref)]]
    /\ UNCHANGED <<now, tasks, rest, merges, mem, writes, runs>>

ReadRest(p) ==
    /\ request[p].pc = "rest"
    /\ request' = [request EXCEPT ![p] = [request[p] EXCEPT !.pc = "tasks", !.value.rest = rest.version]]
    /\ UNCHANGED <<now, tasks, rest, merges, mem, writes, runs>>

ReadTasks(p) ==
    /\ request[p].pc = "tasks"
    /\ request' = [request EXCEPT ![p] = [request[p] EXCEPT
           !.pc = "lines", !.value.rows = OpenFrom(request[p].ref)]]
    /\ UNCHANGED <<now, tasks, rest, merges, mem, writes, runs>>

\* The groups are read last, by a job too, which has just written them.
ReadMerges(p) ==
    /\ request[p].pc = "lines"
    /\ request' = [request EXCEPT ![p] = [request[p] EXCEPT
           !.pc = IF p = "job" THEN "done" ELSE "store", !.value.groups = merges.groups]]
    /\ UNCHANGED <<now, tasks, rest, merges, mem, writes, runs>>

\* The brief is stored under the fingerprint from before the reads, and the
\* briefs that were not used for longest give way.
Stored(m, e) ==
    LET all == Append(Without(m, e.key), e)
    IN  IF Len(all) > Keep THEN Tail(all) ELSE all
Entry(r) == [key |-> Key(r), print |-> r.print, value |-> r.value]
Store(p) ==
    /\ request[p].pc = "store"
    /\ mem' = Stored(mem, Entry(request[p]))
    /\ request' = [request EXCEPT ![p] = [request[p] EXCEPT !.pc = "done"]]
    /\ UNCHANGED <<now, tasks, rest, merges, writes, runs>>

\* The message is written and sent from the brief alone.
Reply(p) ==
    /\ request[p].pc \in {"hit", "done"}
    /\ request' = [request EXCEPT ![p] = NoRequest]
    /\ UNCHANGED <<now, tasks, rest, merges, mem, writes, runs>>

BriefNext ==
    \/ Tick
    \/ Touch
    \/ \E t \in Task : Collect(t) \/ Close(t)
    \/ Poll
    \/ \E k \in {"day", "summary"}, d \in {0, 1} : <<k, d>> \in Commands /\ Ask(k, d)
    \/ \E ref \in {0, 1} : \E day \in {ref, ref + 1} : Brief(ref, day)
    \/ \E p \in Proc :
           \/ KeepMerges(p) \/ WriteMerges(p)
           \/ Hit(p) \/ Miss(p) \/ ReadRest(p) \/ ReadTasks(p) \/ ReadMerges(p) \/ Store(p)
           \/ Reply(p)

BriefSpec == BriefInit /\ [][BriefNext]_briefVars

-----------------------------------------------------------------------------
(* Properties                                                              *)

Rows == [task : Task, due : Slots]

\* Every row, request and remembered brief is of its kind, the listener
\* remembers no two briefs for one request and no more than it may keep, and
\* the groups of the merge row never share a task.
BriefTypeOK ==
    /\ now \in 0 .. Seconds
    /\ tasks \in [Task -> [status : {"open", "done"}, due : Slots, at : 0 .. Seconds]]
    /\ rest \in [at : 0 .. Seconds, version : 0 .. MaxWrites]
    /\ merges.of \subseteq Rows /\ merges.groups \subseteq SUBSET Task /\ merges.at \in 0 .. Seconds
    /\ \A g, h \in merges.groups : g # h => g \cap h = {}
    /\ \A p \in Proc :
           /\ request[p].pc \in {"idle", "merge", "lookup", "rest", "tasks", "lines", "store", "hit", "done"}
           /\ request[p].kind \in Kinds
    /\ Len(mem) <= Keep
    /\ \A i, j \in DOMAIN mem : mem[i].key = mem[j].key => i = j
    /\ writes \in 0 .. MaxWrites /\ runs \in 0 .. MaxRuns

\* A remembered brief is given again although its tasks, its other rows or
\* its groups have changed only if the change fell into the second of the
\* fingerprint, which is also the second of the newest row of that table,
\* or if a task was written while the brief was being built.
StaleOnlyInItsSecond ==
    /\ BriefTypeOK
    /\ \A p \in Proc :
          LET r == request[p]
          IN  r.pc = "hit" =>
                /\ r.value.rest # r.truth.rest => r.value.at = r.print.rest
                /\ r.value.groups # r.truth.groups => r.value.at = r.print.merges.at
                /\ r.value.rows # r.truth.rows =>
                      r.value.at = r.print.tasks.newest \/ r.value.rows # r.value.seen

Lines(r) == MergeLines(r.value.rows, r.value.groups)
Shows(lines, x) == \E l \in lines : x.task \in l.tasks
OfDay(r, lines) == {l \in lines : Day(l.due) = r.day}
\* The tasks of the day itself are what /today and /tomorrow list.
AskedFor(r, x) == r.kind = "day" /\ Day(x.due) = r.day

\* A row that the duplicates leave is in a line, and in one of the day if it is
\* of the day, also when it is merged with tasks of other days.
KeptShown(r, lines, x) == Shows(lines, x) /\ (AskedFor(r, x) => Shows(OfDay(r, lines), x))
KeptAreShown ==
    \A p \in Proc :
        LET r == request[p]
            lines == Lines(r)
        IN  r.pc \in {"hit", "done"} => \A x \in Deduped(r.value.rows) : KeptShown(r, lines, x)

\* One row leads to the other by rows that are equivalent one after the other.
Chained(rows, x, y) ==
    \A S \in SUBSET rows :
        x \in S /\ (\A u \in S, v \in rows : Equivalent(u, v) => v \in S) => y \in S

\* Whatever the model has said, and for whichever list of tasks: every task
\* that was read is in the lines of the brief, and one that is due on the day
\* the user asks for is among the tasks of that day, or a task is that a chain
\* of equivalent ones leads to.  Only a task of the last minutes of the day may
\* have given way to one of the first minutes of the next.
NoTaskHidden ==
    /\ KeptAreShown
    /\ \A p \in Proc :
          LET r == request[p]
              lines == Lines(r)
              kept == Deduped(r.value.rows)
          IN  r.pc \in {"hit", "done"} =>
                \A x \in r.value.rows : \E y \in kept :
                    /\ Chained(r.value.rows, x, y)
                    /\ KeptShown(r, lines, y)
                    /\ AskedFor(r, x) => AskedFor(r, y) \/ (Late(x.due) /\ ~ Late(y.due))
=============================================================================
