----------------------------- MODULE TaskCreation -----------------------------
(***************************************************************************)
(* Creating tasks: POST /tasks and the CLI's create.  A creator reads the  *)
(* number its task will get, looks for a task that was created for the     *)
(* same request, writes the workspace, inserts the row, and answers; the   *)
(* HTTP answer schedules the agent of an auto_run task.  Each of these     *)
(* steps has a connection or a file of its own, and creators interleave    *)
(* between any two of them.  What TaskRunner calls Init is a task as one   *)
(* of them leaves it.                                                      *)
(*                                                                         *)
(* A request is equal to another when CVE, kernel, kernel source and       *)
(* profile agree (its scope).  A task_id is a date with a serial number    *)
(* that is padded to three digits, or a name that a CLI user chose, which  *)
(* is not of that form: the names are the ids of day 0.                    *)
(***************************************************************************)
EXTENDS Naturals, Sequences

CONSTANTS
    Creators,     \* API threads and CLI processes
    Scopes,       \* what requests may ask for
    Names,        \* ids a CLI user may choose
    Radix, Last,  \* digits of a serial, and the highest that fits the padding
    MaxDay,       \* bound on the days that pass
    MaxRequests   \* bound on the requests ever made

ASSUME NamesNatural == Names \subseteq Nat
\* 10 and 999: the first serial beyond the padding starts with small digits.
ASSUME PaddedSerials ==
    Radix \in Nat \ {0} /\ Last \in Nat \ {0} /\ (Last + 1) \div Radix < Last
ASSUME BoundsNatural == MaxDay \in Nat \ {0} /\ MaxRequests \in Nat

VARIABLES
    rows,       \* the tasks table
    workspaces, \* the ids that have a directory with a task_context.json
    agents,     \* the ids auto_run_task was scheduled for
    today,      \* the date
    pc,         \* where each creator stands
    want,       \* the request it serves
    held,       \* the id it is going to use
    requests    \* requests made so far

vars == <<rows, workspaces, agents, today, pc, want, held, requests>>

Ids == [day : Nat, serial : Nat]

\* named: the CLI's --task-id; auto: the API's auto_run.
Requests == [scope : Scopes, forced : BOOLEAN, auto : BOOLEAN, named : BOOLEAN]

Locations == {"idle", "take", "find", "prepare", "insert", "answer"}

TypeOK ==
    /\ rows \in Seq([id : Ids, scope : Scopes, forced : BOOLEAN])
    /\ workspaces \subseteq Ids
    /\ agents \in Seq(Ids)
    /\ today \in 1..MaxDay
    /\ pc \in [Creators -> Locations]
    /\ want \in [Creators -> Requests]
    /\ held \in [Creators -> Ids]
    /\ requests \in 0..MaxRequests

Init ==
    /\ rows = <<>>
    /\ workspaces = {}
    /\ agents = <<>>
    /\ today = 1
    /\ pc = [c \in Creators |-> "idle"]
    /\ want \in {[c \in Creators |-> r] : r \in Requests}
    /\ held = [c \in Creators |-> [day |-> 0, serial |-> 0]]
    /\ requests = 0

----------------------------------------------------------------------------
(* next_task_id *)

\* task_exists, and what the UNIQUE column refuses.
Taken(id) == \E i \in 1..Len(rows) : rows[i].id = id

Serials(day) == {rows[i].id.serial : i \in {j \in 1..Len(rows) : rows[j].id.day = day}}

\* ORDER BY task_id compares text: beyond the padding a serial has one digit
\* more, and a shorter one is compared with its leading digits.
TextAfter(a, b) ==
    \/ a > b /\ (a <= Last <=> b <= Last)
    \/ a > Last /\ b <= Last /\ a \div Radix >= b
    \/ a <= Last /\ b > Last /\ a > b \div Radix

LatestSerial(day) ==
    CHOOSE s \in Serials(day) : \A t \in Serials(day) \ {s} : TextAfter(s, t)

NextSerial(day) == IF Serials(day) = {} THEN 1 ELSE LatestSerial(day) + 1

\* Mutant: the prefix is left out.
NextTaskIdUndated == [serial |-> NextSerial(today)]

NextTaskId == [day |-> today, serial |-> NextSerial(today)]

----------------------------------------------------------------------------
(* create_task *)

At(c, l) == pc[c] = l

GoTo(c, l) == pc' = [pc EXCEPT ![c] = l]

Request(c) ==
    /\ At(c, "idle") /\ requests < MaxRequests
    /\ requests' = requests + 1
    /\ \E r \in Requests :
          /\ r.named => ~r.auto
          /\ want' = [want EXCEPT ![c] = r]
    /\ GoTo(c, "take")
    /\ UNCHANGED <<rows, workspaces, agents, today, held>>

\* The CLI also ends on a serial that was taken in the meantime (see Abort);
\* the API goes on to the insertion.
TakeSerial(c) ==
    /\ At(c, "take") /\ ~want[c].named
    /\ held' = [held EXCEPT ![c] = NextTaskId]
    /\ GoTo(c, "find")
    /\ UNCHANGED <<rows, workspaces, agents, today, want, requests>>

\* A name that is in use already ends the command.
TakeName(c) ==
    /\ At(c, "take") /\ want[c].named
    /\ \E n \in Names :
          /\ held' = [held EXCEPT ![c] = [day |-> 0, serial |-> n]]
          /\ GoTo(c, IF Taken(held'[c]) THEN "idle" ELSE "find")
    /\ UNCHANGED <<rows, workspaces, agents, today, want, requests>>

\* find_latest_equivalent_task: any row of the scope will do, forced or not.
Equivalent(scope) == \E i \in 1..Len(rows) : rows[i].scope = scope

\* A duplicate is answered with the task that exists.
Find(c) ==
    /\ At(c, "find")
    /\ GoTo(c, IF ~want[c].forced /\ Equivalent(want[c].scope) THEN "idle" ELSE "prepare")
    /\ UNCHANGED <<rows, workspaces, agents, today, want, held, requests>>

\* WorkspaceGuard.create_task_workspace, over whatever lies there.
Prepare(c) ==
    /\ At(c, "prepare")
    /\ workspaces' = workspaces \cup {held[c]}
    /\ GoTo(c, "insert")
    /\ UNCHANGED <<rows, agents, today, want, held, requests>>

Row(c) == [id |-> held[c], scope |-> want[c].scope, forced |-> want[c].forced]

\* Mutant: an id that is taken is replaced by a new one.
InsertRenumbered(c) ==
    /\ At(c, "insert")
    /\ held' = [held EXCEPT ![c] = IF Taken(held[c]) THEN NextTaskId ELSE held[c]]
    /\ rows' = Append(rows, [Row(c) EXCEPT !.id = held'[c]])
    /\ GoTo(c, "answer")
    /\ UNCHANGED <<workspaces, agents, today, want, requests>>

\* Mutant: INSERT OR IGNORE.
InsertOrIgnore(c) ==
    /\ At(c, "insert")
    /\ rows' = IF Taken(held[c]) THEN rows ELSE Append(rows, Row(c))
    /\ GoTo(c, "answer")
    /\ UNCHANGED <<workspaces, agents, today, want, held, requests>>

\* An id that somebody else inserted meanwhile raises.
Insert(c) ==
    /\ At(c, "insert")
    /\ \/ Taken(held[c]) /\ GoTo(c, "idle") /\ UNCHANGED rows
       \/ ~Taken(held[c]) /\ GoTo(c, "answer") /\ rows' = Append(rows, Row(c))
    /\ UNCHANGED <<workspaces, agents, today, want, held, requests>>

Answer(c) ==
    /\ At(c, "answer")
    /\ agents' = IF want[c].auto THEN Append(agents, held[c]) ELSE agents
    /\ GoTo(c, "idle")
    /\ UNCHANGED <<rows, workspaces, today, want, held, requests>>

\* An exception or the death of the process; an agent not yet scheduled
\* never will be.
Abort(c) ==
    /\ ~At(c, "idle")
    /\ GoTo(c, "idle")
    /\ UNCHANGED <<rows, workspaces, agents, today, want, held, requests>>

NextDay ==
    /\ today < MaxDay
    /\ today' = today + 1
    /\ UNCHANGED <<rows, workspaces, agents, pc, want, held, requests>>

Create(c) ==
    \/ Request(c) \/ TakeSerial(c) \/ TakeName(c) \/ Find(c) \/ Prepare(c)
    \/ Insert(c) \/ Answer(c) \/ Abort(c)

Next == NextDay \/ \E c \in Creators : Create(c)

Spec == Init /\ [][Next]_vars

----------------------------------------------------------------------------
(* Properties *)

\* Of the tasks numbered on one day, no second one answers the same request
\* unless it was forced, although the search for an equivalent task and the
\* insertion are apart: the id is read before the search, and the UNIQUE
\* column turns the loser of the race away.  (Two creators on either side of
\* midnight, or with names of their own, do create the task twice.)
OneTaskPerRequest ==
    \A i, j \in 1..Len(rows) :
        (/\ i < j
         /\ rows[i].scope = rows[j].scope
         /\ rows[i].id.day = rows[j].id.day /\ rows[i].id.day > 0)
            => rows[j].forced

\* However requests race, repeat and die, at most one agent is ever scheduled
\* for a task, and it finds the row and the workspace.
AgentFindsItsTask ==
    \A i \in 1..Len(agents) :
        /\ Taken(agents[i])
        /\ agents[i] \in workspaces
        /\ \A j \in 1..Len(agents) : agents[j] = agents[i] => j = i

\* task_repo.py, "the next task number of the date": no task has it yet.
NextIdIsNew == ~Taken(NextTaskId)

=============================================================================
