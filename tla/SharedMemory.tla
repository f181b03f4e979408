----------------------------- MODULE SharedMemory -----------------------------
(***************************************************************************)
(* The memory as it is written: every attempt of every task that finishes  *)
(* calls DualMemory.record_attempt, which reads failure_memory.json,       *)
(* appends and writes the whole file back, then does the same with         *)
(* recipe_memory.json.  No lock is held, in a process or between them.     *)
(* RepairLoop takes the operation as one step; here it is eight, and       *)
(* others may come between any two.                                        *)
(*                                                                         *)
(* write_text truncates the file and writes from its start: a reader in    *)
(* between finds it empty, which counts as a memory without entries, and   *)
(* a text written over a longer one leaves the tail of that one behind,    *)
(* which no reader can parse.                                              *)
(***************************************************************************)
EXTENDS Memory

CONSTANTS
    Writers,     \* the attempts that finish
    Outcome      \* what each records: [plan, type, success]

VARIABLES
    files,       \* the two documents: [entries, broken]
    held,        \* the entries a writer holds, changed already
    phase,       \* where a writer is
    disturbed    \* two writers overlapped, or one died while writing

sharedVars == <<files, held, phase, disturbed>>

Documents == {"failures", "recipes"}

\* What a writer is about to do with a document.
ReadOf  == [failures |-> "read failures", recipes |-> "read recipes"]
OpenOf  == [failures |-> "open failures", recipes |-> "open recipes"]
WriteOf == [failures |-> "write failures", recipes |-> "write recipes"]

Readable(entries) == [entries |-> entries, broken |-> FALSE]

SharedInit ==
    /\ files = [d \in Documents |-> Readable(<<>>)]
    /\ held = [w \in Writers |-> <<>>]
    /\ phase = [w \in Writers |-> "idle"]
    /\ disturbed = FALSE

Recording(w) == phase[w] \notin {"idle", "done", "dead"}

BeginRecording(w) ==
    /\ phase[w] = "idle"
    /\ phase' = [phase EXCEPT ![w] = "read failures"]
    /\ disturbed' = (disturbed \/ \E v \in Writers : Recording(v))
    /\ UNCHANGED <<files, held>>

\* What the operation makes of the entries it read.
Recorded(w, document, entries) ==
    LET mem == [EmptyMemory EXCEPT ![document] = entries]
    IN RecordAttempt(mem, w, Outcome[w].plan, Outcome[w].type, "none",
                     Outcome[w].success)[document]

\* Mutant: the repository keeps the entries it was created with.
ReadEntriesAtStart(w, document, next) ==
    /\ phase[w] = ReadOf[document]
    /\ ~files[document].broken
    /\ held' = [held EXCEPT ![w] = Recorded(w, document, <<>>)]
    /\ phase' = [phase EXCEPT ![w] = next]
    /\ UNCHANGED <<files, disturbed>>

ReadEntries(w, document, next) ==
    /\ phase[w] = ReadOf[document]
    /\ ~files[document].broken
    /\ held' = [held EXCEPT ![w] = Recorded(w, document, files[document].entries)]
    /\ phase' = [phase EXCEPT ![w] = next]
    /\ UNCHANGED <<files, disturbed>>

\* Mutant: an attempt that could not be recorded is recorded again.
ReadBrokenAgain(w, document) ==
    /\ phase[w] = ReadOf[document]
    /\ files[document].broken
    /\ phase' = [phase EXCEPT ![w] = "read failures"]
    /\ UNCHANGED <<files, held, disturbed>>

\* json.loads raises, and the attempt ends in an exception.
ReadBroken(w, document) ==
    /\ phase[w] = ReadOf[document]
    /\ files[document].broken
    /\ phase' = [phase EXCEPT ![w] = "dead"]
    /\ UNCHANGED <<files, held, disturbed>>

\* An attempt that did not fail leaves failure_memory.json alone.
SkipFailures(w) ==
    /\ phase[w] = "read failures"
    /\ Outcome[w].type = "none"
    /\ phase' = [phase EXCEPT ![w] = "read recipes"]
    /\ UNCHANGED <<files, held, disturbed>>

\* The file is truncated when it is opened; the text comes with write and close.
OpenFile(w, document) ==
    /\ phase[w] = OpenOf[document]
    /\ files' = [files EXCEPT ![document] = Readable(<<>>)]
    /\ phase' = [phase EXCEPT ![w] = WriteOf[document]]
    /\ UNCHANGED <<held, disturbed>>

WriteFile(w, document, next) ==
    /\ phase[w] = WriteOf[document]
    /\ \E tail \in {FALSE, files[document] # Readable(<<>>)} :
          files' = [files EXCEPT ![document] = [entries |-> held[w], broken |-> tail]]
    /\ phase' = [phase EXCEPT ![w] = next]
    /\ UNCHANGED <<held, disturbed>>

\* The process dies, in the middle of the text if it was writing.
DieRecording(w) ==
    /\ Recording(w)
    /\ phase' = [phase EXCEPT ![w] = "dead"]
    /\ \/ UNCHANGED <<files, disturbed>>
          /\ \A d \in Documents : phase[w] # WriteOf[d]
       \/ \E d \in Documents, cut \in BOOLEAN :
            /\ phase[w] = WriteOf[d]
            /\ files' = [files EXCEPT ![d].broken = @ \/ cut]
            /\ disturbed' = TRUE
    /\ UNCHANGED held

SharedNext ==
    \E w \in Writers :
        \/ BeginRecording(w)
        \/ SkipFailures(w)
        \/ Outcome[w].type # "none" /\ ReadEntries(w, "failures", "open failures")
        \/ Outcome[w].type # "none" /\ ReadBroken(w, "failures")
        \/ ReadEntries(w, "recipes", "open recipes")
        \/ ReadBroken(w, "recipes")
        \/ \E d \in Documents : OpenFile(w, d)
        \/ WriteFile(w, "failures", "read recipes")
        \/ WriteFile(w, "recipes", "done")
        \/ DieRecording(w)

SharedSpec == SharedInit /\ [][SharedNext]_sharedVars

----------------------------------------------------------------------------
(* Properties *)

\* The sum of the attempts of all entries.
Counted(entries) ==
    Cardinality(UNION {{i} \X (1..entries[i].attempts) : i \in DOMAIN entries})

\* As long as nobody overlapped and nobody died while writing, the memory
\* holds every attempt recorded so far, once, in both documents, and can be
\* read: the eight steps amount to the one of RepairLoop.
KeptWhileAlone ==
    ~disturbed =>
        /\ \A d \in Documents : ~files[d].broken
        /\ \A w \in Writers :
              (phase[w] = "done" /\ Outcome[w].type # "none") =>
                 \/ \E v \in Writers : phase[v] = "write failures"
                 \/ Cardinality({i \in DOMAIN files["failures"].entries :
                                   files["failures"].entries[i].task = w}) = 1
        /\ \/ \E v \in Writers : phase[v] = "write recipes"
           \/ Counted(files["recipes"].entries) =
                Cardinality({w \in Writers : phase[w] = "done"})

\* However the writers overlap, die and read each other's halves, the memory
\* never holds an attempt twice nor counts more attempts than were begun: what
\* goes wrong only forgets (FailureMemory.record, RecipeMemory.record).
NeverOverstated ==
    /\ Counted(files["recipes"].entries) <=
          Cardinality({w \in Writers : phase[w] # "idle"})
    /\ \A i, j \in DOMAIN files["failures"].entries :
          files["failures"].entries[i].task = files["failures"].entries[j].task => i = j

=============================================================================
