----------------------------- MODULE Memory_proof -----------------------------
(***************************************************************************)
(* The memory the attempts of all tasks share, and what one task makes of  *)
(* it.                                                                     *)
(*                                                                         *)
(* SharedMemory: for any set of writers with any outcomes, the documents   *)
(* never say more than was recorded, and all of it while the writers take  *)
(* turns.  Each failure entry carries its writer, so there is at most one  *)
(* per writer.  The attempts a list of recipes counts are the elements of  *)
(* a set of pairs that grows by one with each recording, so a document, or *)
(* a writer's copy of it, never counts more of them than writers have read *)
(* it.                                                                     *)
(*                                                                         *)
(* RepairLoop: for any budget, patches, answers and memory, a constraint   *)
(* is given up as unresolved on evidence only, and a failed attempt that   *)
(* comes to its decision is in the memory.  The plan is a candidate of the *)
(* report and ahead of every other in the order of the ranker, so the loop *)
(* only ever takes routes the planner knows.  That rests on two inductions *)
(* along lists (ListFacts): a list built entry by entry exists and has     *)
(* entries of the kind its steps keep, and of finitely many candidates one *)
(* is ahead.                                                               *)
(***************************************************************************)
EXTENDS RepairLoop, SharedMemory, ListFacts, FiniteSetTheorems,
        SequenceTheorems

----------------------------------------------------------------------------
(* What recording an attempt makes of the two documents *)

Failing(w) == Outcome[w].type # "none"

FailureEntries ==
    [id : {NoId}, task : Writers, type : {Outcome[w].type : w \in Writers},
     recipe : {Outcome[w].plan.recipe : w \in Writers}, cue : {"none"}]

RecipeEntries ==
    [id : {NoId}, recipe : {Outcome[w].plan.recipe : w \in Writers},
     rules : {Outcome[w].plan.rules : w \in Writers},
     prims : {Outcome[w].plan.prims : w \in Writers},
     attempts : Nat, successes : Int, failures : Int]

Tasks(list) == {list[i].task : i \in DOMAIN list}

\* A list of failures that holds each task once.
Once(list) ==
    /\ list \in Seq(FailureEntries)
    /\ \A i, j \in DOMAIN list : list[i].task = list[j].task => i = j

\* The attempts a list of recipes counts, each as a pair of its own.
Units(list) == UNION {{i} \X (1..list[i].attempts) : i \in DOMAIN list}

Countable(list) == list \in Seq(RecipeEntries) /\ IsFiniteSet(Units(list))

LEMMA EmptyLists ==
    /\ Once(<<>>) /\ Tasks(<<>>) = {}
    /\ Countable(<<>>) /\ Counted(<<>>) = 0
<1>1. Units(<<>>) = {}
  BY DEF Units
<1>2. Counted(<<>>) = Cardinality(Units(<<>>))
  BY DEF Counted, Units
<1>3. QED
  BY <1>1, <1>2, FS_EmptySet DEF Once, Tasks, Countable

\* One failure more, of the writer's task.
LEMMA FailureAdded ==
    ASSUME NEW w \in Writers, Failing(w), NEW list, Once(list), w \notin Tasks(list)
    PROVE  /\ Once(Recorded(w, "failures", list))
           /\ Tasks(Recorded(w, "failures", list)) = Tasks(list) \cup {w}
<1> DEFINE e == [id |-> NoId, task |-> w, type |-> Outcome[w].type,
                 recipe |-> Outcome[w].plan.recipe, cue |-> "none"]
           new == Append(list, e)
<1>1. Recorded(w, "failures", list) = new
  BY DEF Recorded, RecordAttempt, Failing, Failure, EmptyMemory
<1>2. e \in FailureEntries /\ e.task = w
  BY DEF FailureEntries
<1> HIDE DEF e
<1>3. /\ new \in Seq(FailureEntries) /\ DOMAIN new = 1..(Len(list) + 1)
      /\ \A i \in 1..Len(list) : new[i] = list[i]
      /\ new[Len(list) + 1] = e
      /\ DOMAIN list = 1..Len(list) /\ Len(list) \in Nat
  BY <1>2 DEF Once
<1> HIDE DEF new
<1>4. \A i \in DOMAIN list : list[i].task # w
  BY DEF Tasks
<1>5. Once(new)
  <2>1. ASSUME NEW i \in DOMAIN new, NEW j \in DOMAIN new, new[i].task = new[j].task
        PROVE  i = j
    BY <1>2, <1>3, <1>4, <2>1 DEF Once
  <2>2. QED
    BY <1>3, <2>1 DEF Once
<1>6. Tasks(new) = Tasks(list) \cup {w}
  <2>1. ASSUME NEW i \in DOMAIN new PROVE new[i].task \in Tasks(list) \cup {w}
    BY <1>2, <1>3 DEF Tasks
  <2>2. ASSUME NEW i \in DOMAIN list PROVE list[i].task \in Tasks(new)
    <3>1. i \in DOMAIN new /\ new[i] = list[i]
      BY <1>3
    <3>2. QED
      BY <3>1 DEF Tasks
  <2>3. w \in Tasks(new)
    <3>1. Len(list) + 1 \in DOMAIN new
      BY <1>3
    <3>2. QED
      BY <1>2, <1>3, <3>1 DEF Tasks
  <2>4. QED
    BY <2>1, <2>2, <2>3 DEF Tasks
<1>7. QED
  BY <1>1, <1>5, <1>6

\* One unit more is one attempt more.
LEMMA UnitAdded ==
    ASSUME NEW list, Countable(list), NEW new \in Seq(RecipeEntries), NEW x,
           x \notin Units(list), Units(new) = Units(list) \cup {x}
    PROVE  Countable(new) /\ Counted(new) = Counted(list) + 1
<1>1. /\ IsFiniteSet(Units(new))
      /\ Cardinality(Units(new)) = Cardinality(Units(list)) + 1
  BY FS_AddElement DEF Countable
<1>2. /\ Counted(new) = Cardinality(Units(new))
      /\ Counted(list) = Cardinality(Units(list))
  BY DEF Counted, Units
<1>3. QED
  BY <1>1, <1>2 DEF Countable

LEMMA UnitsAre ==
    ASSUME NEW list, NEW x
    PROVE  x \in Units(list) <=>
             \E i \in DOMAIN list : \E k \in 1..list[i].attempts : x = <<i, k>>
BY DEF Units

\* Whichever entry it falls to, the recipes count one attempt more.
LEMMA RecipeCounted ==
    ASSUME NEW w \in Writers, NEW list, Countable(list)
    PROVE  /\ Countable(Recorded(w, "recipes", list))
           /\ Counted(Recorded(w, "recipes", list)) = Counted(list) + 1
<1> DEFINE plan == Outcome[w].plan
           success == Outcome[w].success
           same == {i \in DOMAIN list : /\ list[i].recipe = plan.recipe
                                        /\ list[i].rules = plan.rules
                                        /\ list[i].prims = plan.prims}
           first == {i \in same : \A j \in same : i <= j}
           won == IF success THEN 1 ELSE 0
           More(e) == [e EXCEPT !.attempts = @ + 1, !.successes = @ + won,
                                !.failures = @ + 1 - won]
           fresh == [id |-> NoId, recipe |-> plan.recipe, rules |-> plan.rules,
                     prims |-> plan.prims, attempts |-> 0, successes |-> 0, failures |-> 0]
           k == CHOOSE i \in first : TRUE
           new == Recorded(w, "recipes", list)
<1>1. new = IF first = {} THEN Append(list, More(fresh)) ELSE [list EXCEPT ![k] = More(@)]
  BY DEF Recorded, RecordAttempt, CountRecipe, EmptyMemory
<1>2. won \in {0, 1}
  OBVIOUS
<1>3. fresh \in RecipeEntries /\ fresh.attempts = 0
  BY DEF RecipeEntries
<1> HIDE DEF won, fresh, new
<1>4. ASSUME NEW e \in RecipeEntries
      PROVE  More(e) \in RecipeEntries /\ More(e).attempts = e.attempts + 1
  <2>1. e.attempts + 1 \in Nat /\ e.successes + won \in Int /\ e.failures + 1 - won \in Int
    BY <1>2 DEF RecipeEntries
  <2>2. \A x, y, z : (x \in Nat /\ y \in Int /\ z \in Int) =>
           LET f == [e EXCEPT !.attempts = x, !.successes = y, !.failures = z]
           IN  f \in RecipeEntries /\ f.attempts = x
    BY DEF RecipeEntries
  <2>3. QED
    BY <2>1, <2>2
<1>5. list \in Seq(RecipeEntries) /\ \A i \in DOMAIN list : list[i] \in RecipeEntries
  BY DEF Countable
<1>6. \A e \in RecipeEntries : e.attempts \in Nat
  BY DEF RecipeEntries
<1>7. CASE first = {}
  <2> DEFINE n == Len(list) + 1
             e == More(fresh)
  <2>1. e \in RecipeEntries /\ e.attempts = 1 /\ new = Append(list, e)
    <3>1. e \in RecipeEntries /\ e.attempts = 0 + 1
      BY <1>3, <1>4
    <3>2. QED
      BY <1>1, <1>7, <3>1
  <2> HIDE DEF e
  <2>2. /\ new \in Seq(RecipeEntries) /\ DOMAIN new = DOMAIN list \cup {n}
        /\ n \notin DOMAIN list
        /\ new[n] = e /\ \A i \in DOMAIN list : new[i] = list[i]
    BY <1>5, <2>1
  <2> HIDE DEF n
  <2>3. <<n, 1>> \notin Units(list)
    BY <2>2, UnitsAre
  <2>4. Units(new) = Units(list) \cup {<<n, 1>>}
    <3>1. ASSUME NEW x \in Units(new) PROVE x \in Units(list) \cup {<<n, 1>>}
      <4>1. PICK i \in DOMAIN new : \E j \in 1..new[i].attempts : x = <<i, j>>
        BY UnitsAre
      <4>2. CASE i = n
        BY <2>1, <2>2, <4>1, <4>2
      <4>3. CASE i \in DOMAIN list
        BY <2>2, <4>1, <4>3, UnitsAre
      <4>4. QED
        BY <2>2, <4>2, <4>3
    <3>2. ASSUME NEW x \in Units(list) PROVE x \in Units(new)
      BY <2>2, UnitsAre
    <3>3. <<n, 1>> \in Units(new)
      <4>1. 1 \in 1..new[n].attempts
        BY <2>1, <2>2
      <4>2. QED
        BY <2>2, <4>1, UnitsAre
    <3>4. QED
      BY <3>1, <3>2, <3>3
  <2>5. QED
    BY <2>2, <2>3, <2>4, UnitAdded DEF new
<1>8. CASE first # {}
  <2> DEFINE e == More(list[k])
             a == list[k].attempts
  <2>1. k \in DOMAIN list
    BY <1>8
  <2>2. e \in RecipeEntries /\ a \in Nat /\ e.attempts = a + 1
    BY <1>4, <1>5, <1>6, <2>1
  <2>3. new = [list EXCEPT ![k] = e]
    BY <1>1, <1>8
  <2> HIDE DEF e, k
  <2>4. /\ new \in Seq(RecipeEntries) /\ DOMAIN new = DOMAIN list
        /\ new[k] = e /\ \A i \in DOMAIN list \ {k} : new[i] = list[i]
    BY <1>5, <2>1, <2>2, <2>3
  <2>5. <<k, a + 1>> \notin Units(list)
    BY <2>1, <2>2, UnitsAre
  <2>6. Units(new) = Units(list) \cup {<<k, a + 1>>}
    <3>1. ASSUME NEW x \in Units(new) PROVE x \in Units(list) \cup {<<k, a + 1>>}
      <4>1. PICK i \in DOMAIN new : \E j \in 1..new[i].attempts : x = <<i, j>>
        BY UnitsAre
      <4>2. CASE i = k
        <5>1. PICK j \in 1..(a + 1) : x = <<k, j>>
          BY <2>2, <2>4, <4>1, <4>2
        <5>2. j \in 1..a \/ j = a + 1
          BY <2>2
        <5>3. QED
          BY <2>1, <5>1, <5>2, UnitsAre
      <4>3. CASE i # k
        <5>1. i \in DOMAIN list /\ new[i] = list[i]
          BY <2>4, <4>3
        <5>2. QED
          BY <4>1, <5>1, UnitsAre
      <4>4. QED
        BY <4>2, <4>3
    <3>2. ASSUME NEW x \in Units(list) PROVE x \in Units(new)
      <4>1. PICK i \in DOMAIN list : \E j \in 1..list[i].attempts : x = <<i, j>>
        BY UnitsAre
      <4>2. CASE i = k
        <5>1. PICK j \in 1..a : x = <<k, j>>
          BY <4>1, <4>2
        <5>2. j \in 1..new[k].attempts
          BY <2>2, <2>4
        <5>3. QED
          BY <2>1, <2>4, <5>1, <5>2, UnitsAre
      <4>3. CASE i # k
        <5>1. i \in DOMAIN new /\ new[i] = list[i]
          BY <2>4, <4>3
        <5>2. QED
          BY <4>1, <5>1, UnitsAre
      <4>4. QED
        BY <4>2, <4>3
    <3>3. <<k, a + 1>> \in Units(new)
      <4>1. a + 1 \in 1..new[k].attempts
        BY <2>2, <2>4
      <4>2. QED
        BY <2>1, <2>4, <4>1, UnitsAre
    <3>4. QED
      BY <3>1, <3>2, <3>3
  <2>7. QED
    BY SMTT(30), <2>4, <2>5, <2>6, UnitAdded DEF new
<1>9. QED
  BY <1>7, <1>8

----------------------------------------------------------------------------
(* The steps of the writers *)

F == files["failures"].entries
R == files["recipes"].entries

Phases ==
    {"idle", "read failures", "open failures", "write failures",
     "read recipes", "open recipes", "write recipes", "done", "dead"}

SharedTypes ==
    /\ phase \in [Writers -> Phases]
    /\ files \in [Documents -> [entries : Seq(FailureEntries) \cup Seq(RecipeEntries),
                                broken : BOOLEAN]]
    /\ held \in [Writers -> Seq(FailureEntries) \cup Seq(RecipeEntries)]

Moves(w, p) == phase' = [phase EXCEPT ![w] = p]

Begins(w) ==
    /\ phase[w] = "idle" /\ Moves(w, "read failures")
    /\ UNCHANGED <<files, held>>
    /\ ~disturbed' => ~disturbed /\ \A v \in Writers : ~Recording(v)

Skips(w) ==
    /\ phase[w] = "read failures" /\ ~Failing(w) /\ Moves(w, "read recipes")
    /\ UNCHANGED <<files, held, disturbed>>

ReadsFailures(w) ==
    /\ phase[w] = "read failures" /\ Failing(w) /\ Moves(w, "open failures")
    /\ held' = [held EXCEPT ![w] = Recorded(w, "failures", F)]
    /\ UNCHANGED <<files, disturbed>>

ReadsRecipes(w) ==
    /\ phase[w] = "read recipes" /\ Moves(w, "open recipes")
    /\ held' = [held EXCEPT ![w] = Recorded(w, "recipes", R)]
    /\ UNCHANGED <<files, disturbed>>

Stumbles(w) ==
    /\ \E d \in Documents : files[d].broken
    /\ phase[w] \in {"read failures", "read recipes"} /\ Moves(w, "dead")
    /\ UNCHANGED <<files, held, disturbed>>

OpensFailures(w) ==
    /\ phase[w] = "open failures" /\ Moves(w, "write failures")
    /\ files' = [files EXCEPT !["failures"] = Readable(<<>>)]
    /\ UNCHANGED <<held, disturbed>>

OpensRecipes(w) ==
    /\ phase[w] = "open recipes" /\ Moves(w, "write recipes")
    /\ files' = [files EXCEPT !["recipes"] = Readable(<<>>)]
    /\ UNCHANGED <<held, disturbed>>

WritesFailures(w) ==
    /\ phase[w] = "write failures" /\ Moves(w, "read recipes")
    /\ \E tail \in {FALSE, files["failures"] # Readable(<<>>)} :
          files' = [files EXCEPT !["failures"] = [entries |-> held[w], broken |-> tail]]
    /\ UNCHANGED <<held, disturbed>>

WritesRecipes(w) ==
    /\ phase[w] = "write recipes" /\ Moves(w, "done")
    /\ \E tail \in {FALSE, files["recipes"] # Readable(<<>>)} :
          files' = [files EXCEPT !["recipes"] = [entries |-> held[w], broken |-> tail]]
    /\ UNCHANGED <<held, disturbed>>

DiesElsewhere(w) ==
    /\ phase[w] \in {"read failures", "open failures", "read recipes", "open recipes"}
    /\ Moves(w, "dead")
    /\ UNCHANGED <<files, held, disturbed>>

DiesWriting(w) ==
    /\ phase[w] \in {"write failures", "write recipes"}
    /\ Moves(w, "dead")
    /\ \E d \in Documents, cut \in BOOLEAN :
          files' = [files EXCEPT ![d].broken = @ \/ cut]
    /\ disturbed' = TRUE
    /\ UNCHANGED held

SomeStep(w) ==
    \/ Begins(w) \/ Skips(w) \/ ReadsFailures(w) \/ ReadsRecipes(w) \/ Stumbles(w)
    \/ OpensFailures(w) \/ OpensRecipes(w) \/ WritesFailures(w) \/ WritesRecipes(w)
    \/ DiesElsewhere(w) \/ DiesWriting(w)

\* What each action does, with the phases spelled out.
LEMMA StepsAre ==
    ASSUME SharedTypes, SharedNext
    PROVE  \E w \in Writers : SomeStep(w)
<1>0. PICK w \in Writers :
        \/ BeginRecording(w)
        \/ SkipFailures(w)
        \/ Outcome[w].type # "none" /\ ReadEntries(w, "failures", "open failures")
        \/ Outcome[w].type # "none" /\ ReadBroken(w, "failures")
        \/ ReadEntries(w, "recipes", "open recipes")
        \/ ReadBroken(w, "recipes")
        \/ \E d \in Documents : OpenFile(w, d)
        \/ WriteFile(w, "failures", "read recipes")
        \/ WriteFile(w, "recipes", "done")
        \/ DieRecording(w)
  BY DEF SharedNext
<1> USE DEF Moves, SomeStep, Documents
<1>1. CASE BeginRecording(w)
  <2>1. ~disturbed' => ~disturbed /\ \A v \in Writers : ~Recording(v)
    BY <1>1 DEF BeginRecording
  <2>2. QED
    BY <1>1, <2>1 DEF BeginRecording, Begins
<1>2. CASE SkipFailures(w)
  BY <1>2 DEF SkipFailures, Skips, Failing
<1>3. CASE Outcome[w].type # "none" /\ ReadEntries(w, "failures", "open failures")
  BY <1>3 DEF ReadEntries, ReadOf, ReadsFailures, Failing, F
<1>4. CASE Outcome[w].type # "none" /\ ReadBroken(w, "failures")
  BY <1>4 DEF ReadBroken, ReadOf, Stumbles
<1>5. CASE ReadEntries(w, "recipes", "open recipes")
  BY <1>5 DEF ReadEntries, ReadOf, ReadsRecipes, R
<1>6. CASE ReadBroken(w, "recipes")
  BY <1>6 DEF ReadBroken, ReadOf, Stumbles
<1>7. CASE \E d \in Documents : OpenFile(w, d)
  <2>1. CASE OpenFile(w, "failures")
    BY <2>1 DEF OpenFile, OpenOf, WriteOf, OpensFailures
  <2>2. CASE OpenFile(w, "recipes")
    BY <2>2 DEF OpenFile, OpenOf, WriteOf, OpensRecipes
  <2>3. QED
    BY <1>7, <2>1, <2>2
<1>8. CASE WriteFile(w, "failures", "read recipes")
  BY <1>8 DEF WriteFile, WriteOf, WritesFailures
<1>9. CASE WriteFile(w, "recipes", "done")
  BY <1>9 DEF WriteFile, WriteOf, WritesRecipes
<1>10. CASE DieRecording(w)
  <2>1. /\ phase[w] \in Phases \ {"idle", "done", "dead"}
        /\ phase' = [phase EXCEPT ![w] = "dead"] /\ held' = held
    BY <1>10 DEF DieRecording, Recording, SharedTypes
  <2>2. CASE UNCHANGED <<files, disturbed>> /\ \A d \in Documents : phase[w] # WriteOf[d]
    <3>1. phase[w] # WriteOf["failures"] /\ phase[w] # WriteOf["recipes"]
      BY <2>2
    <3>2. phase[w] \notin {"write failures", "write recipes"}
      BY <3>1 DEF WriteOf
    <3>3. QED
      BY <2>1, <2>2, <3>2 DEF DiesElsewhere, Phases
  <2>3. CASE \E d \in Documents, cut \in BOOLEAN :
               /\ phase[w] = WriteOf[d]
               /\ files' = [files EXCEPT ![d].broken = @ \/ cut]
               /\ disturbed' = TRUE
    <3>1. phase[w] \in {"write failures", "write recipes"}
      <4>1. phase[w] = WriteOf["failures"] \/ phase[w] = WriteOf["recipes"]
        BY <2>3
      <4>2. QED
        BY <4>1 DEF WriteOf
    <3>2. QED
      BY <2>1, <2>3, <3>1 DEF DiesWriting
  <2>4. QED
    BY <1>10, <2>2, <2>3 DEF DieRecording
<1>11. QED
  BY <1>0, <1>1, <1>2, <1>3, <1>4, <1>5, <1>6, <1>7, <1>8, <1>9, <1>10

\* What the steps make of the two documents.
LEMMA FilesMade ==
    ASSUME SharedTypes, NEW w \in Writers, SomeStep(w)
    PROVE  /\ OpensFailures(w) =>
                /\ files'["failures"] = Readable(<<>>) /\ files'["recipes"] = files["recipes"]
           /\ OpensRecipes(w) =>
                /\ files'["recipes"] = Readable(<<>>) /\ files'["failures"] = files["failures"]
           /\ WritesFailures(w) =>
                /\ F' = held[w] /\ files'["recipes"] = files["recipes"]
                /\ files["failures"] = Readable(<<>>) => files'["failures"].broken = FALSE
           /\ WritesRecipes(w) =>
                /\ R' = held[w] /\ files'["failures"] = files["failures"]
                /\ files["recipes"] = Readable(<<>>) => files'["recipes"].broken = FALSE
           /\ DiesWriting(w) => F' = F /\ R' = R
           /\ \/ UNCHANGED files
              \/ OpensFailures(w) \/ OpensRecipes(w) \/ WritesFailures(w) \/ WritesRecipes(w)
              \/ DiesWriting(w)
           /\ files' \in [Documents -> [entries : Seq(FailureEntries) \cup Seq(RecipeEntries),
                                        broken : BOOLEAN]]
<1> DEFINE Lists == Seq(FailureEntries) \cup Seq(RecipeEntries)
           Document == [entries : Lists, broken : BOOLEAN]
<1>0. files \in [Documents -> Document] /\ held \in [Writers -> Lists]
  BY DEF SharedTypes
<1>1. <<>> \in Lists
  OBVIOUS
<1> HIDE DEF Lists
<1>2. ASSUME OpensFailures(w)
      PROVE  /\ files'["failures"] = Readable(<<>>) /\ files'["recipes"] = files["recipes"]
             /\ files' \in [Documents -> Document]
  BY <1>0, <1>1, <1>2 DEF OpensFailures, Documents, Readable
<1>3. ASSUME OpensRecipes(w)
      PROVE  /\ files'["recipes"] = Readable(<<>>) /\ files'["failures"] = files["failures"]
             /\ files' \in [Documents -> Document]
  BY <1>0, <1>1, <1>3 DEF OpensRecipes, Documents, Readable
<1>4. ASSUME WritesFailures(w)
      PROVE  /\ F' = held[w] /\ files'["recipes"] = files["recipes"]
             /\ files["failures"] = Readable(<<>>) => files'["failures"].broken = FALSE
             /\ files' \in [Documents -> Document]
  <2>1. PICK tail \in {FALSE, files["failures"] # Readable(<<>>)} :
          files' = [files EXCEPT !["failures"] = [entries |-> held[w], broken |-> tail]]
    BY <1>4 DEF WritesFailures
  <2>2. tail \in BOOLEAN /\ (files["failures"] = Readable(<<>>) => tail = FALSE)
    BY <2>1
  <2>3. [entries |-> held[w], broken |-> tail] \in Document
    BY <1>0, <2>2
  <2>4. files' \in [Documents -> Document]
    BY <1>0, <2>1, <2>3
  <2>5. /\ files'["failures"] = [entries |-> held[w], broken |-> tail]
        /\ files'["recipes"] = files["recipes"]
    BY <1>0, <2>1 DEF Documents
  <2>6. files'["failures"].entries = held[w] /\ files'["failures"].broken = tail
    BY <2>5
  <2>7. QED
    BY <2>2, <2>4, <2>5, <2>6 DEF F
<1>5. ASSUME WritesRecipes(w)
      PROVE  /\ R' = held[w] /\ files'["failures"] = files["failures"]
             /\ files["recipes"] = Readable(<<>>) => files'["recipes"].broken = FALSE
             /\ files' \in [Documents -> Document]
  <2>1. PICK tail \in {FALSE, files["recipes"] # Readable(<<>>)} :
          files' = [files EXCEPT !["recipes"] = [entries |-> held[w], broken |-> tail]]
    BY <1>5 DEF WritesRecipes
  <2>2. tail \in BOOLEAN /\ (files["recipes"] = Readable(<<>>) => tail = FALSE)
    BY <2>1
  <2>3. [entries |-> held[w], broken |-> tail] \in Document
    BY <1>0, <2>2
  <2>4. files' \in [Documents -> Document]
    BY <1>0, <2>1, <2>3
  <2>5. /\ files'["recipes"] = [entries |-> held[w], broken |-> tail]
        /\ files'["failures"] = files["failures"]
    BY <1>0, <2>1 DEF Documents
  <2>6. files'["recipes"].entries = held[w] /\ files'["recipes"].broken = tail
    BY <2>5
  <2>7. QED
    BY <2>2, <2>4, <2>5, <2>6 DEF R
<1>6. ASSUME DiesWriting(w)
      PROVE  F' = F /\ R' = R /\ files' \in [Documents -> Document]
  <2>1. PICK d \in Documents, cut \in BOOLEAN :
          files' = [files EXCEPT ![d].broken = @ \/ cut]
    BY <1>6 DEF DiesWriting
  <2> DEFINE b == files[d].broken \/ cut
  <2>2. files' = [files EXCEPT ![d].broken = b] /\ b \in BOOLEAN
    BY <2>1
  <2> HIDE DEF b
  <2>3. files' \in [Documents -> Document] /\ \A x \in Documents : files'[x].entries = files[x].entries
    BY <1>0, <2>2
  <2>4. QED
    BY <2>3 DEF F, R, Documents
<1>7. \/ UNCHANGED files
      \/ OpensFailures(w) \/ OpensRecipes(w) \/ WritesFailures(w) \/ WritesRecipes(w)
      \/ DiesWriting(w)
  BY DEF SomeStep, Begins, Skips, Stumbles, ReadsFailures, ReadsRecipes, DiesElsewhere
<1>8. files' \in [Documents -> Document]
  BY <1>0, <1>2, <1>3, <1>4, <1>5, <1>6, <1>7
<1>9. QED
  BY <1>2, <1>3, <1>4, <1>5, <1>6, <1>7, <1>8 DEF Lists

----------------------------------------------------------------------------
(* Nothing is counted twice *)

Begun == {w \in Writers : phase[w] # "idle"}

\* The writers that have read the failures, those that have read the recipes
\* or never will.
Past == {w \in Writers : phase[w] \notin {"idle", "read failures"}}
Counting == {"open recipes", "write recipes", "done", "dead"}
Counters == {w \in Writers : phase[w] \in Counting}

HoldsFailures(w) == phase[w] \in {"open failures", "write failures"}
HoldsRecipes(w) == phase[w] \in {"open recipes", "write recipes"}

\* The tasks in the failures, and in what a writer holds of them, have read
\* them before.
FailuresOnce ==
    /\ Once(F) /\ Tasks(F) \subseteq Past
    /\ \A w \in Writers : HoldsFailures(w) => Once(held[w]) /\ Tasks(held[w]) \subseteq Past

RecipesBounded ==
    /\ Countable(R) /\ Counted(R) <= Cardinality(Counters)
    /\ \A w \in Writers :
          HoldsRecipes(w) => Countable(held[w]) /\ Counted(held[w]) <= Cardinality(Counters)

Sound == SharedTypes /\ IsFiniteSet(Begun) /\ FailuresOnce /\ RecipesBounded

LEMMA SoundAtFirst == SharedInit => Sound
<1> SUFFICES ASSUME SharedInit PROVE Sound
  OBVIOUS
<1>1. /\ F = <<>> /\ R = <<>>
      /\ files \in [Documents -> [entries : Seq(FailureEntries) \cup Seq(RecipeEntries),
                                  broken : BOOLEAN]]
  BY DEF SharedInit, F, R, Documents, Readable
<1>2. held \in [Writers -> Seq(FailureEntries) \cup Seq(RecipeEntries)]
  BY DEF SharedInit
<1>3. phase \in [Writers -> Phases] /\ \A w \in Writers : phase[w] = "idle"
  BY DEF SharedInit, Phases
<1>4. Begun = {} /\ Counters = {}
  BY <1>3 DEF Begun, Counters, Counting
<1>5. FailuresOnce
  BY <1>1, <1>3, EmptyLists DEF FailuresOnce, HoldsFailures
<1>6. Cardinality(Counters) = 0
  BY <1>4, FS_EmptySet
<1>7. RecipesBounded
  <2>1. Countable(R) /\ Counted(R) = 0
    BY <1>1, EmptyLists
  <2>2. Counted(R) <= Cardinality(Counters)
    BY <1>6, <2>1
  <2>3. \A w \in Writers : ~HoldsRecipes(w)
    BY <1>3 DEF HoldsRecipes
  <2>4. QED
    BY <2>1, <2>2, <2>3 DEF RecipesBounded
<1>8. IsFiniteSet(Begun)
  BY <1>4, FS_EmptySet
<1>9. QED
  BY <1>1, <1>2, <1>3, <1>5, <1>7, <1>8 DEF Sound, SharedTypes

\* Writers only go on.
LEMMA WritersGoOn ==
    ASSUME Sound, NEW w \in Writers, SomeStep(w)
    PROVE  /\ phase' \in [Writers -> Phases]
           /\ IsFiniteSet(Begun') /\ Past \subseteq Past'
           /\ Counters \subseteq Counters'
           /\ Cardinality(Counters) \in Nat /\ Cardinality(Counters') \in Nat
           /\ Cardinality(Counters) <= Cardinality(Counters')
           /\ \A v \in Writers \ {w} : phase'[v] = phase[v]
<1>1. PICK p \in Phases \ {"idle"} :
        /\ phase' = [phase EXCEPT ![w] = p]
        /\ p = "read failures" => phase[w] = "idle"
        /\ phase[w] \in Counting => p \in Counting
  BY DEF SomeStep, Moves, Phases, Counting, Begins, Skips, ReadsFailures, ReadsRecipes, Stumbles,
         OpensFailures, OpensRecipes, WritesFailures, WritesRecipes, DiesElsewhere, DiesWriting
<1>2. phase \in [Writers -> Phases] /\ IsFiniteSet(Begun)
  BY DEF Sound, SharedTypes
<1>3. Begun' = Begun \cup {w}
  BY <1>1, <1>2 DEF Begun
<1>4. IsFiniteSet(Begun')
  BY <1>2, <1>3, FS_AddElement
<1>5. Past \subseteq Past' /\ Counters \subseteq Counters'
  BY <1>1, <1>2 DEF Past, Counters
<1>6. Counters' \subseteq Begun'
  BY DEF Counters, Begun, Counting
<1>7. IsFiniteSet(Counters') /\ IsFiniteSet(Counters)
  BY <1>4, <1>5, <1>6, FS_Subset
<1>8. QED
  BY <1>1, <1>2, <1>4, <1>5, <1>7, FS_Subset, FS_CardinalityType

\* What the step leaves alone stays within its bounds.
LEMMA FailuresKept ==
    ASSUME Sound, NEW w \in Writers, SomeStep(w)
    PROVE  /\ Tasks(F) \subseteq Past'
           /\ \A v \in Writers : HoldsFailures(v) => Tasks(held[v]) \subseteq Past'
BY WritersGoOn DEF Sound, FailuresOnce

LEMMA CountKnown ==
    ASSUME NEW list, Countable(list)
    PROVE  Counted(list) \in Nat
<1>1. Counted(list) = Cardinality(Units(list))
  BY DEF Counted, Units
<1>2. QED
  BY <1>1, FS_CardinalityType DEF Countable

LEMMA RecipesKept ==
    ASSUME Sound, NEW w \in Writers, SomeStep(w)
    PROVE  /\ Counted(R) <= Cardinality(Counters')
           /\ \A v \in Writers : HoldsRecipes(v) => Counted(held[v]) <= Cardinality(Counters')
BY WritersGoOn, CountKnown DEF Sound, RecipesBounded

\* What a step makes of the failures and of what the writer holds.
LEMMA FailuresMade ==
    ASSUME Sound, NEW w \in Writers, SomeStep(w)
    PROVE  /\ F' = F \/ F' = <<>> \/ (HoldsFailures(w) /\ F' = held[w])
           /\ \A v \in Writers \ {w} : held'[v] = held[v]
           /\ HoldsFailures(w)' => \/ HoldsFailures(w) /\ held'[w] = held[w]
                                   \/ ReadsFailures(w) /\ held'[w] = Recorded(w, "failures", F)
<1>0. /\ SharedTypes /\ held \in [Writers -> Seq(FailureEntries) \cup Seq(RecipeEntries)]
      /\ phase \in [Writers -> Phases]
  BY DEF Sound, SharedTypes
<1>1. CASE Begins(w) \/ Skips(w) \/ Stumbles(w) \/ DiesElsewhere(w)
  BY <1>0, <1>1 DEF Begins, Skips, Stumbles, DiesElsewhere, Moves, HoldsFailures, F
<1>2. CASE ReadsFailures(w) \/ ReadsRecipes(w)
  BY <1>0, <1>2 DEF ReadsFailures, ReadsRecipes, Moves, HoldsFailures, F
<1>3. CASE OpensFailures(w) \/ OpensRecipes(w)
  <2>1. held' = held /\ (HoldsFailures(w)' => HoldsFailures(w))
    BY <1>0, <1>3 DEF OpensFailures, OpensRecipes, Moves, HoldsFailures
  <2>2. CASE OpensFailures(w)
    <3>1. files'["failures"] = Readable(<<>>) /\ files'["recipes"] = files["recipes"]
      BY <1>0, <2>2, FilesMade
    <3>2. QED
      BY <2>1, <3>1 DEF Readable, F
  <2>3. CASE OpensRecipes(w)
    <3>1. files'["recipes"] = Readable(<<>>) /\ files'["failures"] = files["failures"]
      BY <1>0, <2>3, FilesMade
    <3>2. QED
      BY <2>1, <3>1 DEF Readable, F
  <2>4. QED
    BY <1>3, <2>2, <2>3
<1>4. CASE WritesFailures(w) \/ WritesRecipes(w)
  <2>1. held' = held /\ ~HoldsFailures(w)' /\ (WritesFailures(w) => HoldsFailures(w))
    BY <1>0, <1>4 DEF WritesFailures, WritesRecipes, Moves, HoldsFailures
  <2>2. QED
    BY <1>0, <1>4, <2>1, FilesMade DEF F
<1>5. CASE DiesWriting(w)
  <2>1. held' = held /\ ~HoldsFailures(w)'
    BY <1>0, <1>5 DEF DiesWriting, Moves, HoldsFailures
  <2>2. QED
    BY <1>0, <1>5, <2>1, FilesMade
<1>6. QED
  BY <1>1, <1>2, <1>3, <1>4, <1>5 DEF SomeStep

LEMMA FailuresStay ==
    ASSUME Sound, NEW w \in Writers, SomeStep(w)
    PROVE  FailuresOnce'
<1>1. \A v \in Writers \ {w} : phase'[v] = phase[v] /\ held'[v] = held[v]
  BY WritersGoOn, FailuresMade
<1>2. Once(F') /\ Tasks(F') \subseteq Past'
  BY FailuresMade, FailuresKept, EmptyLists DEF Sound, FailuresOnce
<1>3. ASSUME NEW v \in Writers \ {w}, HoldsFailures(v)'
      PROVE  Once(held'[v]) /\ Tasks(held'[v]) \subseteq Past'
  <2>1. HoldsFailures(v) /\ held'[v] = held[v]
    BY <1>1, <1>3 DEF HoldsFailures
  <2>2. QED
    BY <2>1, FailuresKept DEF Sound, FailuresOnce
<1>4. ASSUME HoldsFailures(w)'
      PROVE  Once(held'[w]) /\ Tasks(held'[w]) \subseteq Past'
  <2>1. CASE HoldsFailures(w) /\ held'[w] = held[w]
    BY <2>1, FailuresKept DEF Sound, FailuresOnce
  <2>2. CASE ReadsFailures(w) /\ held'[w] = Recorded(w, "failures", F)
    <3>1. Failing(w) /\ w \notin Past
      BY <2>2 DEF ReadsFailures, Past
    <3>2. Once(F) /\ w \notin Tasks(F)
      BY <3>1 DEF Sound, FailuresOnce
    <3>3. Once(held'[w]) /\ Tasks(held'[w]) = Tasks(F) \cup {w}
      BY <2>2, <3>1, <3>2, FailureAdded
    <3>4. w \in Past'
      BY <1>4 DEF HoldsFailures, Past
    <3>5. QED
      BY <3>3, <3>4, FailuresKept
  <2>3. QED
    BY <1>4, <2>1, <2>2, FailuresMade
<1>5. QED
  BY <1>2, <1>3, <1>4 DEF FailuresOnce

\* What a step makes of the recipes and of what the writer holds.
LEMMA RecipesMade ==
    ASSUME Sound, NEW w \in Writers, SomeStep(w)
    PROVE  /\ R' = R \/ R' = <<>> \/ (HoldsRecipes(w) /\ R' = held[w])
           /\ HoldsRecipes(w)' => \/ HoldsRecipes(w) /\ held'[w] = held[w]
                                  \/ ReadsRecipes(w) /\ held'[w] = Recorded(w, "recipes", R)
<1>0. /\ SharedTypes /\ held \in [Writers -> Seq(FailureEntries) \cup Seq(RecipeEntries)]
      /\ phase \in [Writers -> Phases]
  BY DEF Sound, SharedTypes
<1>1. CASE Begins(w) \/ Skips(w) \/ Stumbles(w) \/ DiesElsewhere(w)
  BY <1>0, <1>1 DEF Begins, Skips, Stumbles, DiesElsewhere, Moves, HoldsRecipes, R
<1>2. CASE ReadsFailures(w) \/ ReadsRecipes(w)
  BY <1>0, <1>2 DEF ReadsFailures, ReadsRecipes, Moves, HoldsRecipes, R
<1>3. CASE OpensFailures(w) \/ OpensRecipes(w)
  <2>1. held' = held /\ (HoldsRecipes(w)' => HoldsRecipes(w))
    BY <1>0, <1>3 DEF OpensFailures, OpensRecipes, Moves, HoldsRecipes
  <2>2. CASE OpensFailures(w)
    <3>1. files'["failures"] = Readable(<<>>) /\ files'["recipes"] = files["recipes"]
      BY <1>0, <2>2, FilesMade
    <3>2. QED
      BY <2>1, <3>1 DEF Readable, R
  <2>3. CASE OpensRecipes(w)
    <3>1. files'["recipes"] = Readable(<<>>) /\ files'["failures"] = files["failures"]
      BY <1>0, <2>3, FilesMade
    <3>2. QED
      BY <2>1, <3>1 DEF Readable, R
  <2>4. QED
    BY <1>3, <2>2, <2>3
<1>4. CASE WritesFailures(w) \/ WritesRecipes(w)
  <2>1. held' = held /\ ~HoldsRecipes(w)' /\ (WritesRecipes(w) => HoldsRecipes(w))
    BY <1>0, <1>4 DEF WritesFailures, WritesRecipes, Moves, HoldsRecipes
  <2>2. QED
    BY <1>0, <1>4, <2>1, FilesMade DEF R
<1>5. CASE DiesWriting(w)
  <2>1. held' = held /\ ~HoldsRecipes(w)'
    BY <1>0, <1>5 DEF DiesWriting, Moves, HoldsRecipes
  <2>2. QED
    BY <1>0, <1>5, <2>1, FilesMade
<1>6. QED
  BY <1>1, <1>2, <1>3, <1>4, <1>5 DEF SomeStep

LEMMA RecipesStay ==
    ASSUME Sound, NEW w \in Writers, SomeStep(w)
    PROVE  RecipesBounded'
<1>1. \A v \in Writers \ {w} : phase'[v] = phase[v] /\ held'[v] = held[v]
  BY WritersGoOn, FailuresMade
<1>2. Cardinality(Counters') \in Nat
  BY WritersGoOn
<1>3. Countable(R') /\ Counted(R') <= Cardinality(Counters')
  <2>1. 0 <= Cardinality(Counters')
    BY <1>2
  <2>2. QED
    BY <2>1, RecipesMade, RecipesKept, EmptyLists DEF Sound, RecipesBounded
<1>4. ASSUME NEW v \in Writers \ {w}, HoldsRecipes(v)'
      PROVE  Countable(held'[v]) /\ Counted(held'[v]) <= Cardinality(Counters')
  <2>1. HoldsRecipes(v) /\ held'[v] = held[v]
    BY <1>1, <1>4 DEF HoldsRecipes
  <2>2. QED
    BY <2>1, RecipesKept DEF Sound, RecipesBounded
<1>5. ASSUME HoldsRecipes(w)'
      PROVE  Countable(held'[w]) /\ Counted(held'[w]) <= Cardinality(Counters')
  <2>1. CASE HoldsRecipes(w) /\ held'[w] = held[w]
    BY <2>1, RecipesKept DEF Sound, RecipesBounded
  <2>2. CASE ReadsRecipes(w) /\ held'[w] = Recorded(w, "recipes", R)
    <3>1. Countable(R) /\ Counted(R) <= Cardinality(Counters)
      BY DEF Sound, RecipesBounded
    <3>2. Countable(held'[w]) /\ Counted(held'[w]) = Counted(R) + 1
      BY <2>2, <3>1, RecipeCounted
    <3>3. w \notin Counters /\ Counters' = Counters \cup {w}
      BY <2>2 DEF ReadsRecipes, Moves, Counters, Counting, Sound, SharedTypes
    <3>4. IsFiniteSet(Counters)
      <4>1. Counters \subseteq Begun
        BY DEF Counters, Counting, Begun
      <4>2. QED
        BY <4>1, FS_Subset DEF Sound
    <3>5. Cardinality(Counters') = Cardinality(Counters) + 1 /\ Cardinality(Counters) \in Nat
      BY <3>3, <3>4, FS_AddElement, FS_CardinalityType
    <3>6. Counted(R) \in Nat
      BY <3>1, CountKnown
    <3>7. QED
      BY <3>1, <3>2, <3>5, <3>6
  <2>3. QED
    BY <1>5, <2>1, <2>2, RecipesMade
<1>6. QED
  BY <1>3, <1>4, <1>5 DEF RecipesBounded

LEMMA HeldTyped ==
    ASSUME Sound, NEW w \in Writers, SomeStep(w)
    PROVE  held' \in [Writers -> Seq(FailureEntries) \cup Seq(RecipeEntries)]
<1>0. held \in [Writers -> Seq(FailureEntries) \cup Seq(RecipeEntries)]
  BY DEF Sound, SharedTypes
<1>1. CASE ReadsFailures(w)
  <2>1. Failing(w) /\ Once(F) /\ w \notin Tasks(F)
    BY <1>1 DEF ReadsFailures, Sound, FailuresOnce, Past
  <2>2. Recorded(w, "failures", F) \in Seq(FailureEntries)
    BY <2>1, FailureAdded DEF Once
  <2>3. QED
    BY <1>0, <1>1, <2>2 DEF ReadsFailures
<1>2. CASE ReadsRecipes(w)
  <2>1. Recorded(w, "recipes", R) \in Seq(RecipeEntries)
    BY RecipeCounted DEF Sound, RecipesBounded, Countable
  <2>2. QED
    BY <1>0, <1>2, <2>1 DEF ReadsRecipes
<1>3. CASE UNCHANGED held
  BY <1>0, <1>3
<1>4. QED
  BY <1>1, <1>2, <1>3 DEF SomeStep, Begins, Skips, Stumbles, OpensFailures, OpensRecipes,
     WritesFailures, WritesRecipes, DiesElsewhere, DiesWriting

LEMMA SoundStays == Sound /\ [SharedNext]_sharedVars => Sound'
<1> SUFFICES ASSUME Sound, [SharedNext]_sharedVars PROVE Sound'
  OBVIOUS
<1>1. CASE SharedNext
  <2>1. PICK w \in Writers : SomeStep(w)
    BY <1>1, StepsAre DEF Sound
  <2>2. SharedTypes'
    BY <2>1, HeldTyped, WritersGoOn, FilesMade DEF Sound, SharedTypes
  <2>3. QED
    BY <2>1, <2>2, WritersGoOn, FailuresStay, RecipesStay DEF Sound
<1>2. CASE UNCHANGED sharedVars
  <2>1. /\ phase' = phase /\ files' = files /\ held' = held
        /\ F' = F /\ R' = R
    BY <1>2 DEF sharedVars, F, R
  <2>2. SharedTypes' /\ IsFiniteSet(Begun')
    BY <2>1 DEF Sound, SharedTypes, Begun
  <2>3. FailuresOnce'
    BY <2>1 DEF Sound, FailuresOnce, HoldsFailures, Past
  <2>4. RecipesBounded'
    BY <2>1 DEF Sound, RecipesBounded, HoldsRecipes, Counters
  <2>5. QED
    BY <2>2, <2>3, <2>4 DEF Sound
<1>3. QED
  BY <1>1, <1>2

\* However many attempts record what they learned at once, in whichever order
\* their reads and writes fall, whatever halves they read and whoever dies, the
\* memory never holds an attempt twice nor counts more attempts than were begun
\* (FailureMemory.record, RecipeMemory.record).
THEOREM OnlyForgets == SharedSpec => []NeverOverstated
<1>1. Sound => NeverOverstated
  <2> SUFFICES ASSUME Sound PROVE NeverOverstated
    OBVIOUS
  <2>1. Counters \subseteq Begun /\ IsFiniteSet(Begun)
    BY DEF Counters, Counting, Begun, Sound
  <2>2. /\ Cardinality(Counters) <= Cardinality(Begun)
        /\ Cardinality(Counters) \in Nat /\ Cardinality(Begun) \in Nat
    BY <2>1, FS_Subset, FS_CardinalityType
  <2>3. Counted(R) <= Cardinality(Counters) /\ Counted(R) \in Nat
    BY CountKnown DEF Sound, RecipesBounded
  <2>4. Counted(R) <= Cardinality(Begun)
    BY <2>2, <2>3
  <2>5. \A i, j \in DOMAIN F : F[i].task = F[j].task => i = j
    BY DEF Sound, FailuresOnce, Once
  <2>6. QED
    BY <2>4, <2>5 DEF NeverOverstated, Begun, F, R
<1>2. QED
  BY <1>1, SoundAtFirst, SoundStays, PTL DEF SharedSpec

----------------------------------------------------------------------------
(* A writer that is alone *)

Done == {w \in Writers : phase[w] = "done"}

\* The writers whose failure is, or is about to be again, in the file.
Stored ==
    {w \in Writers : /\ Failing(w)
                     /\ phase[w] \in {"read recipes", "open recipes", "write recipes", "done"}}

OneRecords == \A v, w \in Writers : Recording(v) /\ Recording(w) => v = w

FailuresWhole ==
    /\ (\A v \in Writers : phase[v] # "write failures") => Stored \subseteq Tasks(F)
    /\ \A w \in Writers :
         /\ HoldsFailures(w) => Stored \cup {w} \subseteq Tasks(held[w])
         /\ phase[w] = "write failures" => files["failures"] = Readable(<<>>)

RecipesWhole ==
    /\ (\A v \in Writers : phase[v] # "write recipes") => Counted(R) = Cardinality(Done)
    /\ \A w \in Writers :
         /\ HoldsRecipes(w) => Counted(held[w]) = Cardinality(Done) + 1
         /\ phase[w] = "write recipes" => files["recipes"] = Readable(<<>>)

AllReadable == \A d \in Documents : files[d].broken = FALSE

Alone == ~disturbed => OneRecords /\ AllReadable /\ FailuresWhole /\ RecipesWhole

LEMMA AloneAtFirst == SharedInit => Alone
<1> SUFFICES ASSUME SharedInit PROVE OneRecords /\ AllReadable /\ FailuresWhole /\ RecipesWhole
  BY DEF Alone
<1>1. /\ F = <<>> /\ R = <<>> /\ AllReadable
      /\ \A w \in Writers : phase[w] = "idle"
  BY DEF SharedInit, F, R, Documents, Readable, AllReadable
<1>2. Done = {} /\ Stored = {}
  BY <1>1 DEF Done, Stored
<1>3. Counted(R) = Cardinality(Done)
  BY <1>1, <1>2, EmptyLists, FS_EmptySet
<1>4. QED
  BY <1>1, <1>2, <1>3
     DEF OneRecords, Recording, FailuresWhole, RecipesWhole, HoldsFailures, HoldsRecipes

\* While nobody else records, nobody else holds or writes anything, and the
\* writer meets readable files.
LEMMA AloneNow ==
    ASSUME Sound, Alone, NEW w \in Writers, SomeStep(w), ~disturbed'
    PROVE  /\ ~disturbed /\ AllReadable /\ FailuresWhole /\ RecipesWhole
           /\ ~Stumbles(w) /\ ~DiesWriting(w)
           /\ \A v \in Writers \ {w} : phase[v] \in {"idle", "done", "dead"} /\ phase'[v] = phase[v]
           /\ OneRecords'
<1>1. ~disturbed /\ ~DiesWriting(w)
  <2>1. ~DiesWriting(w)
    BY Zenon DEF DiesWriting
  <2>2. CASE Begins(w)
    BY <2>1, <2>2, Zenon DEF Begins
  <2>3. CASE ~Begins(w)
    <3>1. disturbed' = disturbed
      BY <2>1, <2>3 DEF SomeStep, Skips, ReadsFailures, ReadsRecipes, Stumbles, OpensFailures,
         OpensRecipes, WritesFailures, WritesRecipes, DiesElsewhere
    <3>2. QED
      BY <2>1, <3>1, Zenon
  <2>4. QED
    BY <2>2, <2>3
<1>2. OneRecords /\ AllReadable /\ FailuresWhole /\ RecipesWhole
  BY <1>1 DEF Alone
<1>3. ~Stumbles(w)
  BY <1>2 DEF Stumbles, AllReadable
<1>4. \A v \in Writers \ {w} : ~Recording(v)
  <2>1. CASE Begins(w)
    BY <2>1 DEF Begins
  <2>2. CASE ~Begins(w)
    <3>1. Recording(w)
      BY <2>2 DEF SomeStep, Recording, Skips, ReadsFailures, ReadsRecipes, Stumbles, OpensFailures,
         OpensRecipes, WritesFailures, WritesRecipes, DiesElsewhere, DiesWriting
    <3>2. QED
      BY <1>2, <3>1 DEF OneRecords
  <2>3. QED
    BY <2>1, <2>2
<1>5. \A v \in Writers \ {w} : phase[v] \in {"idle", "done", "dead"} /\ phase'[v] = phase[v]
  BY <1>4, WritersGoOn DEF Recording
<1>6. OneRecords'
  BY <1>5 DEF OneRecords, Recording
<1>7. QED
  BY <1>1, <1>2, <1>3, <1>5, <1>6

\* The failures after each step of a writer that is alone.
LEMMA WholeFailures ==
    ASSUME Sound, Alone, NEW w \in Writers, SomeStep(w), ~disturbed'
    PROVE  FailuresWhole' /\ files'["failures"].broken = FALSE
<1>0. /\ FailuresWhole /\ files["failures"].broken = FALSE
      /\ ~Stumbles(w) /\ ~DiesWriting(w)
      /\ \A v \in Writers \ {w} : phase[v] \in {"idle", "done", "dead"} /\ phase'[v] = phase[v]
  BY AloneNow DEF AllReadable, Documents
<1>1. SharedTypes /\ phase \in [Writers -> Phases]
  BY DEF Sound, SharedTypes
<1>2. ASSUME files'["failures"] = files["failures"], Stored' \subseteq Stored,
             phase[w] # "write failures", ~HoldsFailures(w)'
      PROVE  FailuresWhole' /\ files'["failures"].broken = FALSE
  <2>1. F' = F /\ \A v \in Writers : phase[v] # "write failures"
    BY <1>0, <1>2 DEF F
  <2>2. \A v \in Writers : ~HoldsFailures(v)' /\ phase'[v] # "write failures"
    BY <1>0, <1>2 DEF HoldsFailures
  <2>3. QED
    BY <1>0, <1>2, <2>1, <2>2 DEF FailuresWhole
<1>3. CASE Begins(w) \/ Skips(w) \/ ReadsRecipes(w) \/ DiesElsewhere(w)
  <2>1. files' = files /\ phase[w] # "write failures" /\ ~HoldsFailures(w)'
    BY <1>1, <1>3 DEF Begins, Skips, ReadsRecipes, DiesElsewhere, Moves, HoldsFailures
  <2>2. Stored' \subseteq Stored
    BY <1>1, <1>3 DEF Begins, Skips, ReadsRecipes, DiesElsewhere, Moves, Stored
  <2>3. QED
    BY <1>2, <2>1, <2>2
<1>4. CASE OpensRecipes(w) \/ WritesRecipes(w)
  <2>1. files'["failures"] = files["failures"]
    BY <1>1, <1>4, FilesMade
  <2>2. phase[w] # "write failures" /\ ~HoldsFailures(w)' /\ Stored' \subseteq Stored
    BY <1>1, <1>4 DEF OpensRecipes, WritesRecipes, Moves, HoldsFailures, Stored
  <2>3. QED
    BY <1>2, <2>1, <2>2
<1>5. CASE ReadsFailures(w)
  <2>1. /\ files' = files /\ phase'[w] = "open failures" /\ phase[w] = "read failures"
        /\ Failing(w) /\ held'[w] = Recorded(w, "failures", F) /\ Stored' = Stored
    BY <1>1, <1>5 DEF ReadsFailures, Moves, Stored, SharedTypes
  <2>2. Once(F) /\ w \notin Tasks(F)
    BY <2>1 DEF Sound, FailuresOnce, Past
  <2>3. Tasks(held'[w]) = Tasks(F) \cup {w}
    BY <2>1, <2>2, FailureAdded
  <2>4. Stored \subseteq Tasks(F)
    BY <1>0, <2>1 DEF FailuresWhole
  <2>5. F' = F
    BY <2>1 DEF F
  <2>6. QED
    BY <1>0, <2>1, <2>3, <2>4, <2>5 DEF FailuresWhole, HoldsFailures
<1>6. CASE OpensFailures(w)
  <2>1. /\ held' = held /\ phase'[w] = "write failures" /\ HoldsFailures(w) /\ Stored' = Stored
    BY <1>1, <1>6 DEF OpensFailures, Moves, Stored, HoldsFailures
  <2>2. files'["failures"] = Readable(<<>>)
    BY <1>1, <1>6, FilesMade
  <2>3. QED
    <3>1. files'["failures"].broken = FALSE
      BY <2>2 DEF Readable
    <3>2. Stored \cup {w} \subseteq Tasks(held[w])
      BY <1>0, <2>1 DEF FailuresWhole
    <3>3. \A v \in Writers \ {w} : ~HoldsFailures(v)' /\ phase'[v] # "write failures"
      BY <1>0 DEF HoldsFailures
    <3>4. QED
      BY <2>1, <2>2, <3>1, <3>2, <3>3 DEF FailuresWhole
<1>7. CASE WritesFailures(w)
  <2>1. /\ phase[w] = "write failures" /\ phase'[w] = "read recipes" /\ HoldsFailures(w)
        /\ Stored' \subseteq Stored \cup {w}
    BY <1>1, <1>7 DEF WritesFailures, Moves, Stored, HoldsFailures
  <2>2. /\ F' = held[w]
        /\ files["failures"] = Readable(<<>>) => files'["failures"].broken = FALSE
    BY <1>1, <1>7, FilesMade
  <2>3. files["failures"] = Readable(<<>>) /\ Stored \cup {w} \subseteq Tasks(held[w])
    BY <1>0, <2>1 DEF FailuresWhole
  <2>4. \A v \in Writers : ~HoldsFailures(v)' /\ phase'[v] # "write failures"
    BY <1>0, <2>1 DEF HoldsFailures
  <2>5. QED
    BY <2>1, <2>2, <2>3, <2>4 DEF FailuresWhole
<1>8. QED
  BY <1>0, <1>3, <1>4, <1>5, <1>6, <1>7 DEF SomeStep

\* The recipes after each step of a writer that is alone.
LEMMA WholeRecipes ==
    ASSUME Sound, Alone, NEW w \in Writers, SomeStep(w), ~disturbed'
    PROVE  RecipesWhole' /\ files'["recipes"].broken = FALSE
<1>0. /\ RecipesWhole /\ files["recipes"].broken = FALSE
      /\ ~Stumbles(w) /\ ~DiesWriting(w)
      /\ \A v \in Writers \ {w} : phase[v] \in {"idle", "done", "dead"} /\ phase'[v] = phase[v]
  BY AloneNow DEF AllReadable, Documents
<1>1. SharedTypes /\ phase \in [Writers -> Phases]
  BY DEF Sound, SharedTypes
<1>2. ASSUME files'["recipes"] = files["recipes"], Done' = Done,
             phase[w] # "write recipes", ~HoldsRecipes(w)'
      PROVE  RecipesWhole' /\ files'["recipes"].broken = FALSE
  <2>1. R' = R /\ \A v \in Writers : phase[v] # "write recipes"
    BY <1>0, <1>2 DEF R
  <2>2. \A v \in Writers : ~HoldsRecipes(v)' /\ phase'[v] # "write recipes"
    BY <1>0, <1>2 DEF HoldsRecipes
  <2>3. Counted(R') = Cardinality(Done')
    BY <1>0, <1>2, <2>1 DEF RecipesWhole
  <2>4. QED
    BY <1>0, <1>2, <2>2, <2>3 DEF RecipesWhole
<1>3. CASE Begins(w) \/ Skips(w) \/ ReadsFailures(w) \/ DiesElsewhere(w)
  <2>1. files' = files /\ phase[w] # "write recipes" /\ ~HoldsRecipes(w)'
    BY <1>1, <1>3 DEF Begins, Skips, ReadsFailures, DiesElsewhere, Moves, HoldsRecipes
  <2>2. Done' = Done
    BY <1>1, <1>3 DEF Begins, Skips, ReadsFailures, DiesElsewhere, Moves, Done
  <2>3. QED
    BY <1>2, <2>1, <2>2
<1>4. CASE OpensFailures(w) \/ WritesFailures(w)
  <2>1. files'["recipes"] = files["recipes"]
    BY <1>1, <1>4, FilesMade
  <2>2. phase[w] # "write recipes" /\ ~HoldsRecipes(w)' /\ Done' = Done
    BY <1>1, <1>4 DEF OpensFailures, WritesFailures, Moves, HoldsRecipes, Done
  <2>3. QED
    BY <1>2, <2>1, <2>2
<1>5. CASE ReadsRecipes(w)
  <2>1. /\ files' = files /\ phase'[w] = "open recipes" /\ phase[w] = "read recipes"
        /\ held'[w] = Recorded(w, "recipes", R) /\ Done' = Done
    BY <1>1, <1>5 DEF ReadsRecipes, Moves, Done, SharedTypes
  <2>2. Counted(held'[w]) = Counted(R) + 1
    BY <2>1, RecipeCounted DEF Sound, RecipesBounded
  <2>3. Counted(R) = Cardinality(Done)
    BY <1>0, <2>1 DEF RecipesWhole
  <2>4. R' = R
    BY <2>1 DEF R
  <2>5. Counted(R') = Cardinality(Done') /\ Counted(held'[w]) = Cardinality(Done') + 1
    BY <2>1, <2>2, <2>3, <2>4
  <2>6. \A v \in Writers \ {w} : ~HoldsRecipes(v)' /\ phase'[v] # "write recipes"
    BY <1>0 DEF HoldsRecipes
  <2>7. QED
    BY <1>0, <2>1, <2>5, <2>6 DEF RecipesWhole
<1>6. CASE OpensRecipes(w)
  <2>1. /\ held' = held /\ phase'[w] = "write recipes" /\ HoldsRecipes(w) /\ Done' = Done
    BY <1>1, <1>6 DEF OpensRecipes, Moves, Done, HoldsRecipes
  <2>2. files'["recipes"] = Readable(<<>>)
    BY <1>1, <1>6, FilesMade
  <2>3. files'["recipes"].broken = FALSE
    BY <2>2 DEF Readable
  <2>4. Counted(held[w]) = Cardinality(Done) + 1
    BY <1>0, <2>1 DEF RecipesWhole
  <2>5. \A v \in Writers \ {w} : ~HoldsRecipes(v)' /\ phase'[v] # "write recipes"
    BY <1>0 DEF HoldsRecipes
  <2>6. QED
    BY <2>1, <2>2, <2>3, <2>4, <2>5 DEF RecipesWhole
<1>7. CASE WritesRecipes(w)
  <2>1. /\ phase[w] = "write recipes" /\ phase'[w] = "done" /\ HoldsRecipes(w)
        /\ w \notin Done /\ Done' = Done \cup {w}
    BY <1>1, <1>7 DEF WritesRecipes, Moves, Done, HoldsRecipes
  <2>2. /\ R' = held[w]
        /\ files["recipes"] = Readable(<<>>) => files'["recipes"].broken = FALSE
    BY <1>1, <1>7, FilesMade
  <2>3. files["recipes"] = Readable(<<>>) /\ Counted(held[w]) = Cardinality(Done) + 1
    BY <1>0, <2>1 DEF RecipesWhole
  <2>4. IsFiniteSet(Done)
    <3>1. Done \subseteq Begun
      BY DEF Done, Begun
    <3>2. QED
      BY <3>1, FS_Subset DEF Sound
  <2>5. Cardinality(Done') = Cardinality(Done) + 1
    BY <2>1, <2>4, FS_AddElement
  <2>6. \A v \in Writers : ~HoldsRecipes(v)' /\ phase'[v] # "write recipes"
    BY <1>0, <2>1 DEF HoldsRecipes
  <2>7. Counted(R') = Cardinality(Done')
    BY <2>2, <2>3, <2>5
  <2>8. QED
    BY <2>2, <2>3, <2>6, <2>7 DEF RecipesWhole
<1>8. QED
  BY <1>0, <1>3, <1>4, <1>5, <1>6, <1>7 DEF SomeStep

LEMMA AloneStays == Sound /\ Alone /\ [SharedNext]_sharedVars => Alone'
<1> SUFFICES ASSUME Sound, Alone, [SharedNext]_sharedVars, ~disturbed'
             PROVE  OneRecords' /\ AllReadable' /\ FailuresWhole' /\ RecipesWhole'
  BY DEF Alone
<1>1. CASE SharedNext
  <2>1. PICK w \in Writers : SomeStep(w)
    BY <1>1, StepsAre DEF Sound
  <2>2. FailuresWhole' /\ files'["failures"].broken = FALSE
    BY <2>1, WholeFailures
  <2>3. RecipesWhole' /\ files'["recipes"].broken = FALSE
    BY <2>1, WholeRecipes
  <2>4. QED
    BY <2>1, <2>2, <2>3, AloneNow DEF AllReadable, Documents
<1>2. CASE UNCHANGED sharedVars
  <2>1. /\ phase' = phase /\ files' = files /\ held' = held /\ disturbed' = disturbed
        /\ F' = F /\ R' = R /\ Stored' = Stored /\ Done' = Done
    BY <1>2 DEF sharedVars, F, R, Stored, Done
  <2>2. OneRecords /\ AllReadable /\ FailuresWhole /\ RecipesWhole
    BY <2>1, Zenon DEF Alone
  <2>3. OneRecords' /\ AllReadable'
    BY <2>1, <2>2 DEF OneRecords, Recording, AllReadable
  <2>4. FailuresWhole'
    BY <2>1, <2>2 DEF FailuresWhole, HoldsFailures
  <2>5. RecipesWhole'
    BY <2>1, <2>2 DEF RecipesWhole, HoldsRecipes
  <2>6. QED
    BY <2>3, <2>4, <2>5
<1>3. QED
  BY <1>1, <1>2

\* As long as no two attempts record at once and nobody dies while writing, the
\* eight steps amount to one: every attempt recorded so far is in both
\* documents, once, and both can be read; for any number of attempts and
\* whatever they record (DualMemory.record_attempt).
THEOREM AloneLosesNothing == SharedSpec => []KeptWhileAlone
<1>1. Sound /\ Alone => KeptWhileAlone
  <2> SUFFICES ASSUME Sound, Alone, ~disturbed
               PROVE  /\ \A d \in Documents : ~files[d].broken
                      /\ \A w \in Writers :
                           (phase[w] = "done" /\ Outcome[w].type # "none") =>
                              \/ \E v \in Writers : phase[v] = "write failures"
                              \/ Cardinality({i \in DOMAIN F : F[i].task = w}) = 1
                      /\ \/ \E v \in Writers : phase[v] = "write recipes"
                         \/ Counted(R) = Cardinality(Done)
    BY DEF KeptWhileAlone, F, R, Done
  <2>1. AllReadable /\ FailuresWhole /\ RecipesWhole
    BY DEF Alone
  <2>2. ASSUME NEW w \in Writers, phase[w] = "done", Outcome[w].type # "none",
               \A v \in Writers : phase[v] # "write failures"
        PROVE  Cardinality({i \in DOMAIN F : F[i].task = w}) = 1
    <3>1. w \in Tasks(F)
      BY <2>1, <2>2 DEF FailuresWhole, Stored, Failing
    <3>2. PICK i \in DOMAIN F : F[i].task = w
      BY <3>1 DEF Tasks
    <3>3. \A j \in DOMAIN F : F[j].task = w => j = i
      BY <3>2 DEF Sound, FailuresOnce, Once
    <3>4. {j \in DOMAIN F : F[j].task = w} = {i}
      BY <3>2, <3>3
    <3>5. QED
      BY <3>4, FS_Singleton
  <2>3. \A d \in Documents : ~files[d].broken
    BY <2>1, Zenon DEF AllReadable
  <2>4. \/ \E v \in Writers : phase[v] = "write recipes"
        \/ Counted(R) = Cardinality(Done)
    BY <2>1 DEF RecipesWhole
  <2>5. QED
    BY <2>2, <2>3, <2>4
<1>2. QED
  BY <1>1, SoundAtFirst, SoundStays, AloneAtFirst, AloneStays, PTL DEF SharedSpec

----------------------------------------------------------------------------
(* What the attempts of one task learn from each other *)

\* A text counts as effective only if it differs from that of the attempt before,
\* where that one left a text.
Compared ==
    \A n \in DOMAIN texts :
        (n - 1 \in DOMAIN texts /\ ~texts[n].ineffective) =>
            ~Alike(texts[n].shape, texts[n - 1].shape)

\* What an attempt has filed by when: its plan, its text and its record, in this
\* order, and only the latest attempt files.
Planned ==
    /\ used \in 0..MaxAttempts
    /\ DOMAIN plans \subseteq 1..used
    /\ DOMAIN texts \subseteq DOMAIN plans
    /\ DOMAIN records \subseteq DOMAIN texts
    /\ at \in {"idle", "seed", "plan", "rewrite", "build", "reflect", "remember", "decide"}
    /\ at = "seed" => used < MaxAttempts
    /\ at = "plan" => used \in 1..MaxAttempts /\ used \notin DOMAIN plans
    /\ at = "rewrite" => used \in DOMAIN plans /\ used \notin DOMAIN texts
    /\ at = "build" => used \in DOMAIN texts /\ used \notin DOMAIN records
    /\ at \in {"reflect", "remember", "decide"} => used \in DOMAIN records
    /\ Compared

LEMMA PlannedStarts == LoopInit => Planned
BY LoopBudget DEF LoopInit, Planned, Compared

\* A new plan, text or record, beside those filed before.
LEMMA PlanFiled ==
    ASSUME Planned, PlanAttempt
    PROVE  /\ used \notin DOMAIN plans /\ DOMAIN plans' = DOMAIN plans \cup {used}
           /\ \A m \in DOMAIN plans : plans'[m] = plans[m]
<1>1. PICK content : plans' = Filed(plans, used, content)
  BY DEF PlanAttempt, FilePlan
<1>2. used \notin DOMAIN plans
  BY DEF Planned, PlanAttempt
<1>3. QED
  BY <1>1, <1>2 DEF Filed

LEMMA TextFiled ==
    ASSUME Planned, RewriteAttempt
    PROVE  /\ used \notin DOMAIN texts /\ DOMAIN texts' = DOMAIN texts \cup {used}
           /\ \A m \in DOMAIN texts : texts'[m] = texts[m]
           /\ (used - 1 \in DOMAIN texts /\ ~texts'[used].ineffective) =>
                 ~Alike(texts'[used].shape, texts[used - 1].shape)
<1>1. PICK shape : shape = Rewritten(plans[used].recipe)
  OBVIOUS
<1>2. PICK content : content = [shape |-> shape, ineffective |-> Ineffective(used, shape)]
  OBVIOUS
<1>3. texts' = Filed(texts, used, content)
  BY <1>1, <1>2 DEF RewriteAttempt, FileText
<1>4. used \notin DOMAIN texts
  BY DEF Planned, RewriteAttempt
<1>5. content.shape = shape /\ (content.ineffective <=> Ineffective(used, shape))
  BY <1>2, Zenon
<1>6. /\ DOMAIN texts' = DOMAIN texts \cup {used} /\ texts'[used] = content
      /\ \A m \in DOMAIN texts : texts'[m] = texts[m]
  BY <1>3, <1>4 DEF Filed
<1>7. ASSUME used - 1 \in DOMAIN texts, ~texts'[used].ineffective
      PROVE  ~Alike(texts'[used].shape, texts[used - 1].shape)
  BY <1>5, <1>6, <1>7 DEF Ineffective
<1>8. QED
  BY <1>4, <1>6, <1>7

LEMMA RecordFiled ==
    ASSUME Planned, BuildAttempt
    PROVE  \E a \in BuildAnswers : \E type :
             /\ type = IF Unresolved(used, a.type, a.sign)
                       THEN "kpatch_constraint_unresolved" ELSE a.type
             /\ DOMAIN records' = DOMAIN records \cup {used} /\ used \notin DOMAIN records
             /\ \A m \in DOMAIN records : records'[m] = records[m]
             /\ records'[used].type = type /\ records'[used].sign = a.sign
             /\ at' \in {"remember", "reflect"}
             /\ UNCHANGED <<memory, used, plans, texts>>
<1>1. used \notin DOMAIN records
  BY DEF Planned, BuildAttempt
<1>2. PICK a \in BuildAnswers :
        LET type == IF Unresolved(used, a.type, a.sign)
                    THEN "kpatch_constraint_unresolved" ELSE a.type
        IN /\ records' = Filed(records, used,
                            [type |-> type, sign |-> a.sign,
                             ineffective |-> texts[used].ineffective])
           /\ at' = IF type = "none" THEN "remember" ELSE "reflect"
  BY DEF BuildAttempt
<1> DEFINE type == IF Unresolved(used, a.type, a.sign)
                   THEN "kpatch_constraint_unresolved" ELSE a.type
           new == [type |-> type, sign |-> a.sign, ineffective |-> texts[used].ineffective]
<1>3. records' = Filed(records, used, new) /\ at' \in {"remember", "reflect"}
  BY <1>2
<1> HIDE DEF type
<1>5. new.type = type /\ new.sign = a.sign
  OBVIOUS
<1> HIDE DEF new
<1>4. /\ DOMAIN records' = DOMAIN records \cup {used} /\ records'[used] = new
      /\ \A m \in DOMAIN records : records'[m] = records[m]
  BY <1>1, <1>3 DEF Filed
<1>6. UNCHANGED <<memory, used, plans, texts>>
  BY DEF BuildAttempt
<1>7. QED
  BY <1>1, <1>3, <1>4, <1>5, <1>6 DEF type

LEMMA PlannedStays == Planned /\ [LoopNext]_loopVars => Planned'
<1> SUFFICES ASSUME Planned, [LoopNext]_loopVars PROVE Planned'
  OBVIOUS
<1>0. /\ used \in Nat /\ MaxAttempts \in Nat \ {0} /\ used <= MaxAttempts
      /\ DOMAIN plans \subseteq 1..used /\ DOMAIN texts \subseteq DOMAIN plans
      /\ DOMAIN records \subseteq DOMAIN texts /\ Compared
  BY LoopBudget DEF Planned
<1>1. CASE SeedAttempt
  <2>1. /\ used < MaxAttempts /\ used' = used + 1 /\ at' = "plan"
        /\ UNCHANGED <<patch, plans, texts, records>>
    BY <1>1 DEF SeedAttempt, Planned
  <2>2. used' \in 1..MaxAttempts /\ used' \notin DOMAIN plans /\ DOMAIN plans \subseteq 1..used'
    BY <1>0, <2>1
  <2>3. Compared'
    BY <1>0, <2>1 DEF Compared, Alike
  <2>4. QED
    BY <1>0, <2>1, <2>2, <2>3 DEF Planned
<1>2. CASE PlanAttempt
  <2>1. DOMAIN plans' = DOMAIN plans \cup {used}
    BY <1>2, PlanFiled
  <2>2. used \in 1..MaxAttempts /\ used \notin DOMAIN texts
    BY <1>0, <1>2 DEF PlanAttempt, Planned
  <2>3. at' = "rewrite" /\ UNCHANGED <<patch, used, texts, records>>
    BY <1>2 DEF PlanAttempt
  <2>4. Compared'
    BY <1>0, <2>3 DEF Compared, Alike
  <2>5. QED
    BY <1>0, <2>1, <2>2, <2>3, <2>4 DEF Planned
<1>3. CASE RewriteAttempt
  <2>1. /\ used \notin DOMAIN texts /\ DOMAIN texts' = DOMAIN texts \cup {used}
        /\ \A m \in DOMAIN texts : texts'[m] = texts[m]
        /\ (used - 1 \in DOMAIN texts /\ ~texts'[used].ineffective) =>
              ~Alike(texts'[used].shape, texts[used - 1].shape)
    BY <1>3, TextFiled
  <2>2. at' = "build" /\ UNCHANGED <<patch, used, plans, records>> /\ used \in DOMAIN plans
    BY <1>3 DEF RewriteAttempt, Planned
  <2>3. \A x, y : Alike(x, y)' <=> Alike(x, y)
    BY <2>2 DEF Alike
  <2>4. ASSUME NEW n \in DOMAIN texts', n - 1 \in DOMAIN texts', ~texts'[n].ineffective
        PROVE  ~Alike(texts'[n].shape, texts'[n - 1].shape)
    <3>1. n - 1 \in DOMAIN texts
      BY <1>0, <2>1, <2>2, <2>4
    <3>2. CASE n = used
      BY <2>1, <2>4, <3>1, <3>2
    <3>3. CASE n # used
      BY <1>0, <2>1, <2>4, <3>1, <3>3 DEF Compared
    <3>4. QED
      BY <3>2, <3>3
  <2>5. Compared'
    BY <2>3, <2>4 DEF Compared
  <2>6. used \notin DOMAIN records
    BY <1>0, <2>1
  <2>7. QED
    BY <1>0, <2>1, <2>2, <2>5, <2>6 DEF Planned
<1>4. CASE BuildAttempt
  <2>1. /\ DOMAIN records' = DOMAIN records \cup {used}
        /\ at' \in {"remember", "reflect"} /\ used' = used /\ plans' = plans /\ texts' = texts
    BY <1>4, RecordFiled
  <2>2. used \in DOMAIN texts /\ patch' = patch
    BY <1>4 DEF BuildAttempt, Planned
  <2>3. Compared'
    BY <1>0, <2>1, <2>2 DEF Compared, Alike
  <2>4. QED
    BY <1>0, <2>1, <2>2, <2>3 DEF Planned
<1>5. CASE StopAgain \/ StartCommand \/ Reflect \/ Remember \/ DecideNext \/ Crash
           \/ UNCHANGED loopVars
  <2>1. /\ UNCHANGED <<used, plans, texts, records, patch>>
        /\ \/ at' = at \/ at' = "idle" \/ (at' = "seed" /\ used < MaxAttempts)
           \/ at' \in {"remember", "decide"} /\ at \in {"reflect", "remember"}
    BY <1>5 DEF StopAgain, StartCommand, Reflect, Remember, DecideNext, Crash, loopVars
  <2>2. Compared'
    BY <1>0, <2>1 DEF Compared, Alike
  <2>3. QED
    BY <2>1, <2>2 DEF Planned
<1>6. QED
  BY <1>1, <1>2, <1>3, <1>4, <1>5 DEF LoopNext

\* What speaks for giving up at attempt n.
Evidence(n) ==
    /\ n = MaxAttempts
    /\ \E m \in DOMAIN records \ {n} : Signature(records[m]) = records[n].sign
    /\ \E m \in DOMAIN plans : plans[m].recipe # plans[n].recipe
    /\ \/ n - 1 \notin DOMAIN texts
       \/ \E m \in DOMAIN texts : ~Alike(texts[m].shape, texts[n].shape)

\* It stays where it is while the attempts file on.
LEMMA EarnedKept ==
    ASSUME Planned, UnresolvedIsEarned,
           NEW n \in DOMAIN records, records[n].type = "kpatch_constraint_unresolved",
           DOMAIN records \subseteq DOMAIN records',
           \A m \in DOMAIN records : records'[m] = records[m],
           DOMAIN plans \subseteq DOMAIN plans',
           \A m \in DOMAIN plans : plans'[m] = plans[m],
           DOMAIN texts \subseteq DOMAIN texts', DOMAIN texts' \subseteq DOMAIN texts \cup {used},
           \A m \in DOMAIN texts : texts'[m] = texts[m],
           patch' = patch
    PROVE  Evidence(n)'
<1>1. n = MaxAttempts
  BY DEF UnresolvedIsEarned
<1>2. PICK m \in DOMAIN records \ {n} : Signature(records[m]) = records[n].sign
  BY DEF UnresolvedIsEarned
<1>3. PICK o \in DOMAIN plans : plans[o].recipe # plans[n].recipe
  BY DEF UnresolvedIsEarned
<1>4. n \in DOMAIN plans /\ n \in DOMAIN texts /\ n \in 1..used
  BY DEF Planned
<1>5. Signature(records[m])' = records'[n].sign /\ m \in DOMAIN records' \ {n}
  BY <1>2 DEF Signature
<1>6. o \in DOMAIN plans' /\ plans'[o].recipe # plans'[n].recipe
  BY <1>3, <1>4
<1>7. \/ n - 1 \notin DOMAIN texts'
      \/ \E k \in DOMAIN texts' : ~Alike(texts[k].shape, texts[n].shape)'
  <2>1. CASE n - 1 \notin DOMAIN texts
    <3>1. used \in Nat /\ n - 1 # used
      BY <1>4 DEF Planned
    <3>2. QED
      BY <2>1, <3>1
  <2>2. CASE \E k \in DOMAIN texts : ~Alike(texts[k].shape, texts[n].shape)
    <3>1. PICK k \in DOMAIN texts : ~Alike(texts[k].shape, texts[n].shape)
      BY <2>2
    <3>2. k \in DOMAIN texts' /\ ~Alike(texts[k].shape, texts[n].shape)'
      BY <1>4, <3>1 DEF Alike
    <3>3. QED
      BY <3>2
  <2>3. QED
    BY <2>1, <2>2 DEF UnresolvedIsEarned
<1>8. QED
  BY <1>1, <1>5, <1>6, <1>7 DEF Evidence

\* The record a build files as unresolved has earned it.
LEMMA EarnedFiled ==
    ASSUME Planned, BuildAttempt, records'[used].type = "kpatch_constraint_unresolved"
    PROVE  Evidence(used)'
<1>0. used \in 1..MaxAttempts /\ MaxAttempts \in Nat \ {0} /\ used \in DOMAIN plans
      /\ used \in DOMAIN texts
  BY LoopBudget DEF Planned, BuildAttempt
<1>1. PICK a \in BuildAnswers : \E type :
        /\ type = IF Unresolved(used, a.type, a.sign)
                  THEN "kpatch_constraint_unresolved" ELSE a.type
        /\ DOMAIN records' = DOMAIN records \cup {used} /\ used \notin DOMAIN records
        /\ \A m \in DOMAIN records : records'[m] = records[m]
        /\ records'[used].type = type /\ records'[used].sign = a.sign
        /\ UNCHANGED <<used, plans, texts>>
  BY RecordFiled
<1>2. a.type # "kpatch_constraint_unresolved"
  BY AnswersAreClassified
<1>3. Unresolved(used, a.type, a.sign)
  BY <1>1, <1>2
<1>4. used = MaxAttempts
  BY <1>0, <1>3 DEF Unresolved
<1>5. PICK m \in DOMAIN records : Signature(records[m]) = a.sign
  BY <1>3 DEF Unresolved
<1>6. m \in DOMAIN records' \ {used} /\ Signature(records[m])' = records'[used].sign
  BY <1>1, <1>5 DEF Signature
<1>7. \E o \in DOMAIN plans : plans[o].recipe # plans[used].recipe
  <2>1. SUFFICES ASSUME \A o \in DOMAIN plans : plans[o].recipe = plans[used].recipe
                 PROVE  FALSE
    OBVIOUS
  <2>2. {plans[k].recipe : k \in DOMAIN plans} = {plans[used].recipe}
    BY <1>0, <2>1
  <2>3. Cardinality({plans[used].recipe}) = 1
    BY FS_Singleton
  <2>4. QED
    BY <1>3, <2>2, <2>3 DEF Unresolved
<1>8. ASSUME used - 1 \in DOMAIN texts
      PROVE  ~Alike(texts[used - 1].shape, texts[used].shape)
  <2>1. ~texts[used].ineffective
    BY <1>3 DEF Unresolved
  <2>2. ~Alike(texts[used].shape, texts[used - 1].shape)
    BY <1>0, <1>8, <2>1 DEF Planned, Compared
  <2>3. \A x, y : {x, y} = {y, x}
    OBVIOUS
  <2>4. QED
    BY <2>2, <2>3, Zenon DEF Alike
<1>9. \/ used' - 1 \notin DOMAIN texts'
      \/ \E k \in DOMAIN texts' : ~Alike(texts[k].shape, texts[used].shape)'
  <2>1. patch' = patch
    BY DEF BuildAttempt
  <2>2. QED
    BY <1>1, <1>8, <2>1 DEF Alike
<1>10. QED
  BY <1>1, <1>4, <1>6, <1>7, <1>9 DEF Evidence

LEMMA EarnedStays ==
    Planned /\ UnresolvedIsEarned /\ [LoopNext]_loopVars => UnresolvedIsEarned'
<1> SUFFICES ASSUME Planned, UnresolvedIsEarned, [LoopNext]_loopVars,
                    NEW n \in DOMAIN records',
                    records'[n].type = "kpatch_constraint_unresolved"
             PROVE  Evidence(n)'
  BY DEF UnresolvedIsEarned, Evidence
<1>1. CASE BuildAttempt
  <2>1. /\ DOMAIN records' = DOMAIN records \cup {used}
        /\ UNCHANGED <<patch, used, plans, texts>>
        /\ \A m \in DOMAIN records : records'[m] = records[m]
    BY <1>1, RecordFiled DEF BuildAttempt
  <2>2. CASE n = used
    <3>1. Evidence(used)'
      BY <1>1, <2>2, EarnedFiled
    <3>2. QED
      BY <2>1, <2>2, <3>1 DEF Evidence
  <2>3. CASE n # used
    BY <2>1, <2>3, EarnedKept
  <2>4. QED
    BY <2>2, <2>3
<1>2. CASE ~BuildAttempt
  <2>1. records' = records /\ patch' = patch
    BY <1>2 DEF LoopNext, SeedAttempt, PlanAttempt, RewriteAttempt, StopAgain, StartCommand,
                Reflect, Remember, DecideNext, Crash, loopVars
  <2>2. DOMAIN plans \subseteq DOMAIN plans' /\ \A m \in DOMAIN plans : plans'[m] = plans[m]
    <3>1. CASE PlanAttempt
      BY <3>1, PlanFiled
    <3>2. CASE plans' = plans
      BY <3>2
    <3>3. QED
      BY <1>2, <3>1, <3>2
      DEF LoopNext, SeedAttempt, RewriteAttempt, StopAgain, StartCommand, Reflect, Remember,
          DecideNext, Crash, loopVars
  <2>3. /\ DOMAIN texts \subseteq DOMAIN texts' /\ DOMAIN texts' \subseteq DOMAIN texts \cup {used}
        /\ \A m \in DOMAIN texts : texts'[m] = texts[m]
    <3>1. CASE RewriteAttempt
      BY <3>1, TextFiled
    <3>2. CASE texts' = texts
      BY <3>2
    <3>3. QED
      BY <1>2, <3>1, <3>2
      DEF LoopNext, SeedAttempt, PlanAttempt, StopAgain, StartCommand, Reflect, Remember,
          DecideNext, Crash, loopVars
  <2>4. QED
    BY <2>1, <2>2, <2>3, EarnedKept
<1>3. QED
  BY <1>1, <1>2

\* A constraint is given up as unresolved only by the last attempt of the
\* budget, when an earlier one met the same constraint, two recipes were planned
\* and two patches differ or the attempt before the last left none, whatever the
\* patch, the memory and the deaths of the process were
\* (_maybe_mark_unresolved_kpatch_constraint).  That a text was compared with the
\* one before it is what needs the invariant: the differing patch is that one's.
THEOREM GivenUpOnEvidence == LoopSpec => []UnresolvedIsEarned
<1>1. LoopInit => UnresolvedIsEarned
  BY DEF LoopInit, UnresolvedIsEarned
<1>2. QED
  BY <1>1, PlannedStarts, PlannedStays, EarnedStays, PTL DEF LoopSpec

----------------------------------------------------------------------------
(* What a failed attempt leaves in the memory *)

Listed == \E T : memory.failures \in Seq(T)

\* An entry put at the end is there, and the list stays one.
LEMMA AtTheEnd ==
    ASSUME NEW list, \E T : list \in Seq(T), NEW e
    PROVE  /\ \E T : Append(list, e) \in Seq(T)
           /\ \E i \in DOMAIN Append(list, e) : Append(list, e)[i] = e
<1>1. PICK T : list \in Seq(T)
  OBVIOUS
<1> DEFINE S == T \cup {e}
<1>2. list \in Seq(S)
  BY <1>1
<1>3. e \in S
  OBVIOUS
<1> HIDE DEF S
<1>4. Append(list, e) \in Seq(S)
  BY <1>2, <1>3
<1>5. /\ Len(list) \in Nat /\ DOMAIN Append(list, e) = 1..(Len(list) + 1)
      /\ Append(list, e)[Len(list) + 1] = e
  BY <1>2, <1>3
<1>6. Len(list) + 1 \in DOMAIN Append(list, e)
  BY <1>5
<1>7. QED
  BY <1>4, <1>5, <1>6

LEMMA ListedStarts == LoopInit => Listed
BY MemoriesAreLists DEF LoopInit, Listed

LEMMA ListedStays == Listed /\ [LoopNext]_loopVars => Listed'
<1> SUFFICES ASSUME Listed, [LoopNext]_loopVars PROVE Listed'
  OBVIOUS
<1>1. CASE Reflect
  <2>1. \/ memory'.failures = memory.failures
        \/ \E e : memory'.failures = Append(memory.failures, e)
    BY <1>1 DEF Reflect, RecordReflection
  <2>2. ASSUME NEW e, memory'.failures = Append(memory.failures, e) PROVE Listed'
    <3>1. \E T : Append(memory.failures, e) \in Seq(T)
      BY AtTheEnd DEF Listed
    <3>2. QED
      BY <2>2, <3>1 DEF Listed
  <2>3. QED
    BY <2>1, <2>2 DEF Listed
<1>2. CASE Remember
  <2>1. \/ memory'.failures = memory.failures
        \/ \E e : memory'.failures = Append(memory.failures, e)
    BY <1>2 DEF Remember, RecordAttempt
  <2>2. ASSUME NEW e, memory'.failures = Append(memory.failures, e) PROVE Listed'
    <3>1. \E T : Append(memory.failures, e) \in Seq(T)
      BY AtTheEnd DEF Listed
    <3>2. QED
      BY <2>2, <3>1 DEF Listed
  <2>3. QED
    BY <2>1, <2>2 DEF Listed
<1>3. CASE StopAgain \/ StartCommand \/ SeedAttempt \/ PlanAttempt \/ RewriteAttempt
           \/ BuildAttempt \/ DecideNext \/ Crash \/ UNCHANGED loopVars
  <2>1. memory' = memory
    BY <1>3 DEF StopAgain, StartCommand, SeedAttempt, PlanAttempt, RewriteAttempt, BuildAttempt,
                DecideNext, Crash, loopVars
  <2>2. QED
    BY <2>1 DEF Listed
<1>4. QED
  BY <1>1, <1>2, <1>3 DEF LoopNext

LEMMA RememberedStays ==
    Listed /\ FailuresRemembered /\ [LoopNext]_loopVars => FailuresRemembered'
<1> SUFFICES ASSUME Listed, FailuresRemembered, [LoopNext]_loopVars,
                    at' = "decide", records'[used'].type # "none"
             PROVE  \E i \in DOMAIN memory'.failures :
                       /\ memory'.failures[i].task = Task
                       /\ memory'.failures[i].type = records'[used'].type
                       /\ memory'.failures[i].recipe = plans'[used'].recipe
  BY DEF FailuresRemembered
<1>1. CASE Remember
  <2> DEFINE e == Failure(NoId, Task, records[used].type, plans[used].recipe, Cue(used))
  <2>1. records' = records /\ plans' = plans /\ used' = used
    BY <1>1 DEF Remember
  <2>2. memory'.failures = Append(memory.failures, e)
    BY <1>1, <2>1 DEF Remember, RecordAttempt
  <2>3. /\ e.task = Task /\ e.type = records[used].type
        /\ e.recipe = plans[used].recipe
    BY DEF Failure
  <2> HIDE DEF e
  <2>4. QED
    BY <2>1, <2>2, <2>3, AtTheEnd DEF Listed
<1>2. CASE UNCHANGED loopVars
  BY <1>2 DEF loopVars, FailuresRemembered
<1>3. CASE StopAgain \/ StartCommand \/ SeedAttempt \/ PlanAttempt \/ RewriteAttempt
           \/ BuildAttempt \/ Reflect \/ DecideNext \/ Crash
  <2>1. at' # "decide"
    <3>1. CASE StopAgain
      BY <3>1 DEF StopAgain
    <3>2. CASE BuildAttempt
      BY <3>2 DEF BuildAttempt
    <3>3. CASE DecideNext
      BY <3>3 DEF DecideNext
    <3>4. CASE StartCommand \/ SeedAttempt \/ PlanAttempt \/ RewriteAttempt \/ Reflect \/ Crash
      BY <3>4 DEF StartCommand, SeedAttempt, PlanAttempt, RewriteAttempt, Reflect, Crash
    <3>5. QED
      BY <1>3, <3>1, <3>2, <3>3, <3>4
  <2>2. QED
    BY <2>1
<1>4. QED
  BY <1>1, <1>2, <1>3 DEF LoopNext

\* A failed attempt that comes to its decision is in the memory under its own
\* task, type and recipe, whatever other tasks left there and whatever ids
\* they took: the reflection may find its id in use and store nothing, the
\* attempt's own entry has no id to collide (DualMemory.record_attempt).
THEOREM FailuresAreFound == LoopSpec => []FailuresRemembered
<1>1. LoopInit => FailuresRemembered
  BY DEF LoopInit, FailuresRemembered
<1>2. QED
  BY <1>1, ListedStarts, ListedStays, RememberedStays, PTL DEF LoopSpec

----------------------------------------------------------------------------
(* The routes the memory adds *)

LEMMA WithoutRepeatsBuilt ==
    ASSUME NEW T, NEW N \in Nat, NEW seq, N = Len(seq), NEW empty \in T, empty = <<>>,
           \A n \in 1..N : \A list \in T : Append(list, seq[n]) \in T
    PROVE  WithoutRepeats(seq) \in T
<1> DEFINE step == [n \in 1..N |-> [list \in T |->
                      IF seq[n] \in Range(list) THEN list ELSE Append(list, seq[n])]]
           Unfolded(g) == [n \in 0..N |->
                             IF n = 0 THEN <<>>
                             ELSE IF seq[n] \in Range(g[n - 1]) THEN g[n - 1]
                                  ELSE Append(g[n - 1], seq[n])]
           kept == CHOOSE g : g = Unfolded(g)
<1>1. ASSUME NEW n \in 1..N, NEW list \in T
      PROVE  step[n][list] = IF seq[n] \in Range(list) THEN list ELSE Append(list, seq[n])
  OBVIOUS
<1>2. step \in [1..N -> [T -> T]]
  BY <1>1
<1> HIDE DEF step
<1>3. PICK f \in [0..N -> T] :
        f[0] = empty /\ \A n \in 1..N : f[n] = step[n][f[n - 1]]
  <2>1. PICK s : s = step
    OBVIOUS
  <2>2. s \in [1..N -> [T -> T]]
    BY <1>2, <2>1
  <2>3. \E f \in [0..N -> T] :
          f[0] = empty /\ \A n \in 1..N : f[n] = s[n][f[n - 1]]
    BY ONLY <2>2, BuiltEntryByEntry
  <2>4. QED
    BY <2>1, <2>3
<1>4. f = Unfolded(f)
  <2>1. ASSUME NEW n \in 1..N
        PROVE  f[n] = IF seq[n] \in Range(f[n - 1]) THEN f[n - 1]
                      ELSE Append(f[n - 1], seq[n])
    <3>1. n - 1 \in 0..N
      OBVIOUS
    <3>2. f[n - 1] \in T
      BY <3>1
    <3>3. QED
      BY <1>1, <1>3, <3>2
  <2>2. \A n \in 0..N : n = 0 \/ n \in 1..N
    OBVIOUS
  <2>3. \A n \in 0..N :
          f[n] = IF n = 0 THEN <<>>
                 ELSE IF seq[n] \in Range(f[n - 1]) THEN f[n - 1]
                      ELSE Append(f[n - 1], seq[n])
    BY <1>3, <2>1, <2>2
  <2>4. QED
    BY <2>3
<1>5. kept = Unfolded(kept)
  BY <1>4
<1> HIDE DEF kept
<1>6. /\ kept[0] = <<>>
      /\ \A n \in 1..N : kept[n] = IF seq[n] \in Range(kept[n - 1]) THEN kept[n - 1]
                                   ELSE Append(kept[n - 1], seq[n])
  <2>1. 0 \in 0..N /\ \A n \in 1..N : n \in 0..N /\ n # 0
    OBVIOUS
  <2>2. kept[0] = <<>>
    BY <1>5, <2>1
  <2>3. ASSUME NEW n \in 1..N
        PROVE  kept[n] = IF seq[n] \in Range(kept[n - 1]) THEN kept[n - 1]
                         ELSE Append(kept[n - 1], seq[n])
    <3>1. kept[n] = Unfolded(kept)[n]
      BY <1>5
    <3>2. QED
      BY <2>1, <3>1
  <2>4. QED
    BY <2>2, <2>3
<1> DEFINE P == {n \in 0..N : kept[n] \in T}
<1>7. 0 \in P
  BY <1>6
<1>8. ASSUME NEW n \in 1..N, n - 1 \in P PROVE n \in P
  <2>1. PICK r : r = kept[n - 1]
    OBVIOUS
  <2>2. r \in T /\ kept[n] = IF seq[n] \in Range(r) THEN r ELSE Append(r, seq[n])
    BY <1>8, <1>6, <2>1
  <2>3. n \in 0..N /\ Append(r, seq[n]) \in T
    BY <2>2
  <2>4. QED
    BY <2>2, <2>3
<1>9. P \in SUBSET (0..N)
  OBVIOUS
<1> HIDE DEF P
<1>10. P = 0..N
  BY <1>7, <1>8, <1>9, UpToN
<1>11. kept[N] \in T
  BY <1>10 DEF P
<1>12. QED
  BY <1>11 DEF WithoutRepeats, kept

\* What is left of a list without repetitions has entries of the same kind.
LEMMA WithoutRepeatsTyped ==
    ASSUME NEW S, NEW seq, seq \in Seq(S)
    PROVE  WithoutRepeats(seq) \in Seq(S)
<1>1. PICK T, N, empty : T = Seq(S) /\ N = Len(seq) /\ empty = <<>>
  OBVIOUS
<1>2. N \in Nat /\ empty \in T
  BY <1>1
<1>3. \A n \in 1..N : \A list \in T : Append(list, seq[n]) \in T
  BY <1>1
<1>4. WithoutRepeats(seq) \in T
  BY ONLY <1>1, <1>2, <1>3, WithoutRepeatsBuilt
<1>5. QED
  BY <1>1, <1>4

LEMMA RoutesAfterBuilt ==
    ASSUME NEW T, NEW N \in Nat, NEW failures, N = Len(failures), NEW task,
           NEW empty \in T, empty = <<>>,
           \A n \in 1..N : \A list \in T :
              list \o (IF failures[n].task = task
                       THEN RetryRoutes(failures[n].type, failures[n].cue)
                       ELSE <<>>) \in T
    PROVE  RoutesAfter(failures, task) \in T
<1>1. PICK more : more = [n \in 1..N |-> IF failures[n].task = task
                                         THEN RetryRoutes(failures[n].type, failures[n].cue)
                                         ELSE <<>>]
  OBVIOUS
<1>2. \A n \in 1..N : more[n] = IF failures[n].task = task
                                THEN RetryRoutes(failures[n].type, failures[n].cue)
                                ELSE <<>>
  BY <1>1
<1>3. \A n \in 1..N : \A list \in T : list \o more[n] \in T
  BY <1>2, Zenon
<1> DEFINE step == [n \in 1..N |-> [list \in T |-> list \o more[n]]]
           Unfolded(g) == [n \in 0..N |->
                             IF n = 0 THEN <<>>
                             ELSE g[n - 1] \o IF failures[n].task = task
                                              THEN RetryRoutes(failures[n].type, failures[n].cue)
                                              ELSE <<>>]
           routes == CHOOSE g : g = Unfolded(g)
<1>4. \A n \in 1..N : \A list \in T : step[n][list] = list \o more[n]
  OBVIOUS
<1>5. step \in [1..N -> [T -> T]]
  BY <1>3
<1> HIDE DEF step
<1>6. PICK f \in [0..N -> T] :
        f[0] = empty /\ \A n \in 1..N : f[n] = step[n][f[n - 1]]
  <2>1. PICK s : s = step
    OBVIOUS
  <2>2. s \in [1..N -> [T -> T]]
    BY <1>5, <2>1
  <2>3. \E f \in [0..N -> T] :
          f[0] = empty /\ \A n \in 1..N : f[n] = s[n][f[n - 1]]
    BY ONLY <2>2, BuiltEntryByEntry
  <2>4. QED
    BY <2>1, <2>3
<1>7. f = Unfolded(f)
  <2>1. ASSUME NEW n \in 1..N
        PROVE  f[n] = f[n - 1] \o more[n]
    <3>1. n - 1 \in 0..N
      OBVIOUS
    <3>2. f[n - 1] \in T
      BY <3>1
    <3>3. QED
      BY <1>4, <1>6, <3>2
  <2>2. \A n \in 0..N : n = 0 \/ n \in 1..N
    OBVIOUS
  <2>3. \A n \in 0..N :
          f[n] = IF n = 0 THEN <<>>
                 ELSE f[n - 1] \o IF failures[n].task = task
                                  THEN RetryRoutes(failures[n].type, failures[n].cue)
                                  ELSE <<>>
    <3>1. TAKE n \in 0..N
    <3>2. CASE n = 0
      BY <1>6, <3>2
    <3>3. CASE n # 0
      <4>1. n \in 1..N
        BY <2>2, <3>3
      <4>2. f[n] = f[n - 1] \o more[n] /\ more[n] = IF failures[n].task = task
                                THEN RetryRoutes(failures[n].type, failures[n].cue)
                                ELSE <<>>
        BY <1>2, <2>1, <4>1
      <4>3. QED
        BY <3>3, <4>2
    <3>4. QED
      BY <3>2, <3>3
  <2>4. QED
    BY <2>3
<1>8. routes = Unfolded(routes)
  BY <1>7
<1> HIDE DEF routes
<1>9. routes[0] = <<>> /\ \A n \in 1..N : routes[n] = routes[n - 1] \o more[n]
  <2>1. 0 \in 0..N /\ \A n \in 1..N : n \in 0..N /\ n # 0
    OBVIOUS
  <2>2. routes[0] = <<>>
    BY <1>8, <2>1
  <2>3. ASSUME NEW n \in 1..N PROVE routes[n] = routes[n - 1] \o more[n]
    <3>1. routes[n] = Unfolded(routes)[n]
      BY <1>8
    <3>2. routes[n] = routes[n - 1] \o IF failures[n].task = task
                                THEN RetryRoutes(failures[n].type, failures[n].cue)
                                ELSE <<>>
      BY <2>1, <3>1
    <3>3. QED
      BY <1>2, <3>2
  <2>4. QED
    BY <2>2, <2>3
<1> DEFINE P == {n \in 0..N : routes[n] \in T}
<1>10. 0 \in P
  BY <1>9
<1>11. ASSUME NEW n \in 1..N, n - 1 \in P PROVE n \in P
  <2>1. PICK r : r = routes[n - 1]
    OBVIOUS
  <2>2. r \in T /\ routes[n] = r \o more[n]
    BY <1>9, <1>11, <2>1
  <2>3. n \in 0..N /\ r \o more[n] \in T
    BY <1>3, <2>2
  <2>4. QED
    BY <2>2, <2>3
<1>12. P \in SUBSET (0..N)
  OBVIOUS
<1> HIDE DEF P
<1>13. P = 0..N
  BY <1>10, <1>11, <1>12, UpToN
<1>14. routes[N] \in T
  BY <1>13 DEF P
<1>15. QED
  BY <1>14 DEF RoutesAfter, routes

LEMMA RetryRoutesTyped ==
    ASSUME NEW type, NEW cue
    PROVE  RetryRoutes(type, cue) \in Seq(Recipes)
<1>1. {"semantic_guard_rewrite", "section_change_avoidance_rewrite", "smpl_primary_rewrite",
       "state_preserving_wrap", "shadow_variable_wrap", "callback_livepatch_wrap",
       "minimal_livepatch_wrap"} \subseteq Recipes
  BY DEF Recipes, Routes
<1> HIDE DEF Recipes
<1>2. QED
  BY <1>1 DEF RetryRoutes

\* The routes the memory asks for are routes the planner knows.
LEMMA RoutesAfterTyped ==
    ASSUME NEW failures, Len(failures) \in Nat, NEW task
    PROVE  RoutesAfter(failures, task) \in Seq(Recipes)
<1>1. PICK T, N, empty : T = Seq(Recipes) /\ N = Len(failures) /\ empty = <<>>
  OBVIOUS
<1>2. N \in Nat /\ empty \in T
  BY <1>1
<1>3. ASSUME NEW n \in 1..N, NEW list \in T
      PROVE  list \o (IF failures[n].task = task
                      THEN RetryRoutes(failures[n].type, failures[n].cue)
                      ELSE <<>>) \in T
  <2>1. RetryRoutes(failures[n].type, failures[n].cue) \in Seq(Recipes)
    BY RetryRoutesTyped
  <2>2. PICK r : r = RetryRoutes(failures[n].type, failures[n].cue)
    OBVIOUS
  <2>3. QED
    BY <1>1, <2>1, <2>2
<1>4. RoutesAfter(failures, task) \in T
  BY ONLY <1>1, <1>2, <1>3, RoutesAfterBuilt
<1>5. QED
  BY <1>1, <1>4

----------------------------------------------------------------------------
(* The best of the candidates *)

Graded(x) == x.score \in Int /\ x.risk \in Int /\ x.drift \in Int /\ x.cost \in Int

\* Who beats one that nobody behind beats, beats those behind as well.
LEMMA BetterCarriesOver ==
    ASSUME NEW a, NEW b, NEW c, Graded(a), Graded(b), Graded(c),
           Better(a, b), Better(b, c) \/ ~Better(c, b)
    PROVE  Better(a, c)
BY DEF Graded, Better

Ahead(ranked, i, j) ==
    Better(ranked[i], ranked[j]) \/ (i < j /\ ~Better(ranked[j], ranked[i]))

\* Of finitely many candidates one is ahead of all others.
LEMMA OneIsAhead ==
    ASSUME NEW N \in Nat, NEW ranked, DOMAIN ranked \subseteq 1..N, DOMAIN ranked # {},
           \A i \in DOMAIN ranked : Graded(ranked[i])
    PROVE  \E i \in DOMAIN ranked : \A j \in DOMAIN ranked \ {i} : Ahead(ranked, i, j)
<1>1. PICK D : D = DOMAIN ranked
  OBVIOUS
<1> DEFINE P == {k \in 0..N : \/ D \cap 1..k = {}
                              \/ \E i \in D \cap 1..k :
                                    \A j \in (D \cap 1..k) \ {i} : Ahead(ranked, i, j)}
<1>2. 0 \in P
  OBVIOUS
<1>3. ASSUME NEW n \in 1..N, n - 1 \in P PROVE n \in P
  <2>1. n \in 0..N /\ 1..n = 1..(n - 1) \cup {n} /\ n \notin 1..(n - 1)
    OBVIOUS
  <2>2. CASE n \notin D
    BY <1>3, <2>1, <2>2
  <2>3. CASE n \in D /\ D \cap 1..(n - 1) = {}
    <3>1. D \cap 1..n = {n}
      BY <2>1, <2>3
    <3>2. QED
      BY <2>1, <3>1
  <2>4. CASE n \in D /\ D \cap 1..(n - 1) # {}
    <3>1. PICK b \in D \cap 1..(n - 1) :
             \A j \in (D \cap 1..(n - 1)) \ {b} : Ahead(ranked, b, j)
      BY <1>3, <2>4
    <3>2. b \in D \cap 1..n /\ n \in D \cap 1..n /\ b < n /\ b \in Int
      BY <2>1, <2>4, <3>1
    <3>3. CASE Better(ranked[n], ranked[b])
      <4>1. ASSUME NEW j \in (D \cap 1..n) \ {n} PROVE Ahead(ranked, n, j)
        <5>1. CASE j = b
          BY <3>3, <5>1 DEF Ahead
        <5>2. CASE j # b
          <6>1. Ahead(ranked, b, j)
            BY <2>1, <3>1, <5>2
          <6>2. Better(ranked[b], ranked[j]) \/ ~Better(ranked[j], ranked[b])
            BY <6>1 DEF Ahead
          <6>3. Graded(ranked[n]) /\ Graded(ranked[b]) /\ Graded(ranked[j])
            BY <1>1, <2>4, <3>1
          <6>4. PICK x, y, z : x = ranked[n] /\ y = ranked[b] /\ z = ranked[j]
            OBVIOUS
          <6>5. Better(x, z)
            BY <3>3, <6>2, <6>3, <6>4, BetterCarriesOver
          <6>6. QED
            BY <6>4, <6>5 DEF Ahead
        <5>3. QED
          BY <5>1, <5>2
      <4>2. QED
        BY <2>1, <3>2, <4>1
    <3>4. CASE ~Better(ranked[n], ranked[b])
      <4>1. Ahead(ranked, b, n)
        BY <3>2, <3>4 DEF Ahead
      <4>2. \A j \in (D \cap 1..n) \ {b} : Ahead(ranked, b, j)
        BY <2>1, <3>1, <4>1
      <4>3. QED
        BY <2>1, <3>2, <4>2
    <3>5. QED
      BY <3>3, <3>4
  <2>5. QED
    BY <2>2, <2>3, <2>4
<1>4. P \in SUBSET (0..N)
  OBVIOUS
<1>5. N \in P
  <2> HIDE DEF P
  <2>1. P = 0..N
    BY <1>2, <1>3, <1>4, UpToN
  <2>2. QED
    BY <2>1
<1>6. D \cap 1..N = D /\ D # {}
  BY <1>1
<1>7. QED
  BY <1>1, <1>5, <1>6

\* The plan is one of the candidates.
LEMMA FirstIsAhead ==
    ASSUME NEW N \in Nat, NEW ranked, DOMAIN ranked \subseteq 1..N, DOMAIN ranked # {},
           \A i \in DOMAIN ranked : Graded(ranked[i])
    PROVE  \E i \in DOMAIN ranked :
             First(ranked) = ranked[i] /\ \A j \in DOMAIN ranked \ {i} : Ahead(ranked, i, j)
BY OneIsAhead, Zenon DEF First, Ahead

----------------------------------------------------------------------------
(* Estimates and scores are numbers *)

LEMMA ExtremesOfTwo ==
    ASSUME NEW a \in Int, NEW b \in Int
    PROVE  Max({a, b}) \in {a, b} /\ Min({a, b}) \in {a, b}
<1>1. \E x \in {a, b} : \A y \in {a, b} : x >= y
  <2>1. a >= b \/ b >= a
    OBVIOUS
  <2>2. QED
    BY <2>1
<1>2. \E x \in {a, b} : \A y \in {a, b} : x <= y
  <2>1. a <= b \/ b <= a
    OBVIOUS
  <2>2. QED
    BY <2>1
<1>3. Max({a, b}) \in {a, b}
  BY <1>1, Zenon DEF Max
<1>4. Min({a, b}) \in {a, b}
  BY <1>2, Zenon DEF Min
<1>5. QED
  BY <1>3, <1>4

LEMMA GreatestValue ==
    ASSUME NEW N \in Nat, NEW S \in SUBSET (1..N), S # {}, NEW f, \A i \in S : f[i] \in Int
    PROVE  \E x \in S : \A y \in S : f[y] <= f[x]
<1> DEFINE P == {k \in 0..N : \/ S \cap 1..k = {}
                              \/ \E x \in S \cap 1..k : \A y \in S \cap 1..k : f[y] <= f[x]}
<1>1. 0 \in P
  OBVIOUS
<1>2. ASSUME NEW n \in 1..N, n - 1 \in P PROVE n \in P
  <2>1. n \in 0..N /\ 1..n = 1..(n - 1) \cup {n}
    OBVIOUS
  <2>2. CASE n \notin S
    <3>1. S \cap 1..n = S \cap 1..(n - 1)
      BY <2>1, <2>2
    <3>2. QED
      BY <1>2, <2>1, <3>1
  <2>3. CASE n \in S /\ S \cap 1..(n - 1) = {}
    <3>1. S \cap 1..n = {n} /\ f[n] <= f[n]
      BY <2>1, <2>3
    <3>2. QED
      BY <2>1, <3>1
  <2>4. CASE n \in S /\ S \cap 1..(n - 1) # {}
    <3>1. PICK b \in S \cap 1..(n - 1) : \A y \in S \cap 1..(n - 1) : f[y] <= f[b]
      BY <1>2, <2>4
    <3>2. S \cap 1..n = (S \cap 1..(n - 1)) \cup {n}
      BY <2>1, <2>4
    <3>3. CASE f[n] <= f[b]
      <4>1. b \in S \cap 1..n /\ \A y \in S \cap 1..n : f[y] <= f[b]
        BY <3>1, <3>2, <3>3
      <4>2. QED
        BY <2>1, <4>1
    <3>4. CASE ~(f[n] <= f[b])
      <4>1. f[b] <= f[n] /\ f[n] <= f[n] /\ f[b] \in Int /\ f[n] \in Int
        BY <2>4, <3>1, <3>4
      <4>2. \A y \in S \cap 1..(n - 1) : f[y] <= f[n]
        BY <3>1, <4>1
      <4>3. n \in S \cap 1..n /\ \A y \in S \cap 1..n : f[y] <= f[n]
        BY <3>2, <4>1, <4>2
      <4>4. QED
        BY <2>1, <4>3
    <3>5. QED
      BY <3>3, <3>4
  <2>5. QED
    BY <2>2, <2>3, <2>4
<1>3. P \in SUBSET (0..N)
  OBVIOUS
<1>4. N \in P
  <2> HIDE DEF P
  <2>1. P = 0..N
    BY <1>1, <1>2, <1>3, UpToN
  <2>2. QED
    BY <2>1
<1>5. S \cap 1..N = S
  OBVIOUS
<1>6. QED
  BY <1>4, <1>5

LEMMA GreatestOfSome ==
    ASSUME NEW N \in Nat, NEW S \in SUBSET (1..N), S # {}
    PROVE  Max(S) \in S
<1>1. PICK f : f = [i \in 1..N |-> i]
  OBVIOUS
<1>2. \A i \in S : f[i] = i /\ f[i] \in Int
  BY <1>1
<1>3. \E x \in S : \A y \in S : f[y] <= f[x]
  BY <1>2, GreatestValue
<1>4. \E x \in S : \A y \in S : x >= y
  BY <1>2, <1>3
<1>5. QED
  BY <1>4, Zenon DEF Max

LEMMA ShareIsNumber ==
    ASSUME NEW w \in Nat, NEW n \in Nat, NEW of \in Nat
    PROVE  Share(w, n, of) \in Int
<1>1. PICK a \in Int : a = 2 * w * n + of
  OBVIOUS
<1>2. CASE of = 0
  BY <1>2 DEF Share
<1>3. CASE of # 0
  <2>1. PICK b \in Int : b = 2 * of /\ b > 0
    BY <1>3
  <2>2. a \div b \in Int
    BY <2>1
  <2>3. QED
    BY <1>1, <1>3, <2>1, <2>2 DEF Share
<1>4. QED
  BY <1>2, <1>3

LEMMA ThreeMore ==
    ASSUME NEW S, IsFiniteSet(S), NEW a, NEW b, NEW c
    PROVE  IsFiniteSet(S \cup {a, b, c})
<1>1. IsFiniteSet(S \cup {a})
  BY FS_AddElement
<1>2. IsFiniteSet((S \cup {a}) \cup {b})
  BY <1>1, FS_AddElement
<1>3. IsFiniteSet(((S \cup {a}) \cup {b}) \cup {c})
  BY <1>2, FS_AddElement
<1>4. ((S \cup {a}) \cup {b}) \cup {c} = S \cup {a, b, c}
  OBVIOUS
<1>5. QED
  BY <1>3, <1>4

KnownRisks(risks) == risks \subseteq DOMAIN RiskRules

LEMMA RisksAreFew ==
    ASSUME NEW risks, KnownRisks(risks)
    PROVE  /\ IsFiniteSet(risks)
           /\ HighRisks(risks) \in Nat
<1>1. DOMAIN RiskRules = {"global_data_change", "header_abi_change", "init_code_change",
        "inline_side_effect", "no_fentry_target", "static_local_change",
        "struct_layout_change", "unsupported_section_change", "unknown_patchability"}
  BY DEF RiskRules
<1>2. IsFiniteSet(DOMAIN RiskRules)
  <2>1. IsFiniteSet({})
    BY FS_EmptySet
  <2>2. IsFiniteSet({"global_data_change", "header_abi_change", "init_code_change"})
    <3>1. IsFiniteSet({} \cup {"global_data_change", "header_abi_change", "init_code_change"})
      BY <2>1, ThreeMore
    <3>2. QED
      BY <3>1
  <2>3. IsFiniteSet({"global_data_change", "header_abi_change", "init_code_change"}
          \cup {"inline_side_effect", "no_fentry_target", "static_local_change"})
    BY <2>2, ThreeMore
  <2>4. IsFiniteSet(({"global_data_change", "header_abi_change", "init_code_change"}
          \cup {"inline_side_effect", "no_fentry_target", "static_local_change"})
          \cup {"struct_layout_change", "unsupported_section_change", "unknown_patchability"})
    BY <2>3, ThreeMore
  <2>5. QED
    BY <1>1, <2>4
<1>3. IsFiniteSet(risks)
  BY <1>2, FS_Subset DEF KnownRisks
<1>4. {t \in risks : RiskRules[t].high} \subseteq risks
  OBVIOUS
<1>5. IsFiniteSet({t \in risks : RiskRules[t].high})
  BY <1>3, <1>4, FS_Subset
<1>6. HighRisks(risks) \in Nat
  BY <1>5, FS_CardinalityType DEF HighRisks
<1>7. QED
  BY <1>3, <1>6

----------------------------------------------------------------------------
(* The candidates *)

Blocks == DOMAIN RiskRules \cup {"kpatch_constraint"}
Primitives == (UNION {Routes[r].needs : r \in Recipes}) \cup Needs(DOMAIN RiskRules)
Inputs == [recipe : Recipes, preferred : BOOLEAN, blocking : SUBSET Blocks,
           prims : SUBSET Primitives]

LEMMA RouteInputTyped ==
    ASSUME NEW recipe \in Recipes, NEW preferred \in BOOLEAN, NEW blocking \in SUBSET Blocks,
           NEW prims \in SUBSET Primitives
    PROVE  RouteInput(recipe, preferred, blocking, prims) \in Inputs
<1>1. Routes[recipe].needs \in SUBSET Primitives
  BY DEF Primitives
<1> HIDE DEF Recipes
<1>2. QED
  BY <1>1 DEF RouteInput, Inputs

LEMMA RecipesKnown ==
    Recipes = {"semantic_guard_rewrite", "direct_apply_patch", "callback_shadow_wrap",
               "callback_livepatch_wrap", "shadow_variable_wrap", "state_preserving_wrap",
               "smpl_primary_rewrite", "section_change_avoidance_rewrite",
               "minimal_livepatch_wrap"}
BY DEF Recipes, Routes

LEMMA NeedsTyped ==
    ASSUME NEW risks, KnownRisks(risks)
    PROVE  Needs(risks) \in SUBSET Primitives
<1>1. Needs(risks) \subseteq Needs(DOMAIN RiskRules)
  BY Zenon DEF Needs, KnownRisks
<1>2. Needs(DOMAIN RiskRules) \subseteq Primitives
  BY Zenon DEF Primitives
<1>3. QED
  BY <1>1, <1>2, Zenon

LEMMA CandidateRoutesTyped ==
    ASSUME NEW risks, NEW viable
    PROVE  /\ CandidateRoutes(risks, viable) \in Seq(Recipes)
           /\ PreferredRoute(risks, viable) \in Recipes
<1> DEFINE callback == "callback" \in Needs(risks)
           shadow   == "shadow_variable" \in Needs(risks)
           first    == IF callback /\ shadow THEN <<"callback_shadow_wrap">>
                       ELSE IF callback THEN <<"callback_livepatch_wrap">> ELSE <<>>
           second   == IF risks \cap {"struct_layout_change", "header_abi_change"} # {}
                       THEN <<"state_preserving_wrap">> ELSE <<>>
           third    == IF shadow THEN <<"shadow_variable_wrap">> ELSE <<>>
           last     == IF viable THEN <<"direct_apply_patch">> ELSE <<>>
           special  == first \o second \o third
<1>1. first \in Seq(Recipes) /\ second \in Seq(Recipes) /\ third \in Seq(Recipes)
      /\ last \in Seq(Recipes) /\ <<"minimal_livepatch_wrap">> \in Seq(Recipes)
      /\ <<"direct_apply_patch">> \in Seq(Recipes)
  <2>1. /\ "callback_shadow_wrap" \in Recipes /\ "callback_livepatch_wrap" \in Recipes
        /\ "state_preserving_wrap" \in Recipes /\ "shadow_variable_wrap" \in Recipes
        /\ "direct_apply_patch" \in Recipes /\ "minimal_livepatch_wrap" \in Recipes
    BY RecipesKnown
  <2> HIDE DEF callback, shadow
  <2>2. first \in Seq(Recipes)
    BY <2>1
  <2>3. second \in Seq(Recipes) /\ third \in Seq(Recipes)
    BY <2>1
  <2>4. last \in Seq(Recipes) /\ <<"minimal_livepatch_wrap">> \in Seq(Recipes)
        /\ <<"direct_apply_patch">> \in Seq(Recipes)
    BY <2>1
  <2>5. QED
    BY <2>2, <2>3, <2>4
<1>2. CandidateRoutes(risks, viable) =
        IF risks = {} THEN <<"direct_apply_patch">>
        ELSE special \o <<"minimal_livepatch_wrap">> \o last
  BY DEF CandidateRoutes
<1> HIDE DEF first, second, third, last
<1>2a. PICK x, y, z : x = first /\ y = second /\ z = third
  OBVIOUS
<1>2b. x \o y \o z \in Seq(Recipes)
  BY <1>1, <1>2a
<1>3. PICK s \in Seq(Recipes) : s = special
  BY <1>2a, <1>2b
<1>4. PICK a \in Seq(Recipes) : a = last
  BY <1>1
<1>5. PICK t : t = s \o <<"minimal_livepatch_wrap">> \o a
  OBVIOUS
<1>6. t \in Seq(Recipes) /\ Len(t) > 0
  BY <1>1, <1>5
<1>7. CandidateRoutes(risks, viable) =
        IF risks = {} THEN <<"direct_apply_patch">> ELSE t
  BY <1>2, <1>3, <1>4, <1>5
<1>8. PICK c : c = CandidateRoutes(risks, viable)
  OBVIOUS
<1>9. c \in Seq(Recipes) /\ Len(c) > 0
  BY <1>1, <1>6, <1>7, <1>8
<1>10. c[1] \in Recipes
  BY <1>9
<1>11. QED
  BY <1>8, <1>9, <1>10 DEF PreferredRoute

LEMMA OneInput ==
    ASSUME NEW x \in Inputs
    PROVE  <<x>> \in Seq(Inputs)
OBVIOUS

\* The hints of the report are candidates, and there is one at least.
LEMMA HintedInputsTyped ==
    ASSUME NEW risks, KnownRisks(risks), NEW viable
    PROVE  HintedInputs(risks, viable) \in Seq(Inputs) /\ Len(HintedInputs(risks, viable)) > 0
<1>1. risks \in SUBSET Blocks /\ {} \in SUBSET Blocks /\ {} \in SUBSET Primitives
  BY DEF KnownRisks, Blocks
<1>2. Needs(risks) \in SUBSET Primitives
  BY NeedsTyped
<1>3. "direct_apply_patch" \in Recipes
  BY RecipesKnown
<1>4. PreferredRoute(risks, viable) \in Recipes
  BY CandidateRoutesTyped
<1>5. RouteInput("direct_apply_patch", TRUE, {}, {}) \in Inputs
  BY <1>1, <1>3, RouteInputTyped
<1>6. RouteInput(PreferredRoute(risks, viable), TRUE, risks, Needs(risks)) \in Inputs
  BY <1>1, <1>2, <1>4, RouteInputTyped
<1>7. RouteInput("direct_apply_patch", FALSE, risks, {}) \in Inputs
  BY <1>1, <1>3, RouteInputTyped
<1>8. PICK x, y, z : /\ x = RouteInput("direct_apply_patch", TRUE, {}, {})
                     /\ y = RouteInput(PreferredRoute(risks, viable), TRUE, risks, Needs(risks))
                     /\ z = RouteInput("direct_apply_patch", FALSE, risks, {})
  OBVIOUS
<1>9. x \in Inputs /\ y \in Inputs /\ z \in Inputs
  BY <1>5, <1>6, <1>7, <1>8
<1>10. HintedInputs(risks, viable) =
         IF risks = {} THEN <<x>> ELSE <<y>> \o (IF viable THEN <<z>> ELSE <<>>)
  BY <1>8, Zenon DEF HintedInputs
<1>11. PICK a : a = IF viable THEN <<z>> ELSE <<>>
  OBVIOUS
<1>12. a \in Seq(Inputs) /\ <<x>> \in Seq(Inputs) /\ <<y>> \in Seq(Inputs)
  BY <1>9, <1>11
<1>13. <<y>> \o a \in Seq(Inputs) /\ Len(<<y>> \o a) > 0
  BY <1>12
<1>14. QED
  BY <1>10, <1>11, <1>12, <1>13

LEMMA NineLists ==
    ASSUME NEW S, NEW a \in Seq(S), NEW b \in Seq(S), NEW c \in Seq(S), NEW d \in Seq(S),
           NEW e \in Seq(S), NEW f \in Seq(S), NEW g \in Seq(S), NEW h \in Seq(S),
           NEW i \in Seq(S)
    PROVE  a \o b \o c \o d \o e \o f \o g \o h \o i \in Seq(S)
<1>1. PICK x : x = a \o b \o c \o d \o e
  OBVIOUS
<1>2. x \in Seq(S)
  BY <1>1
<1>3. x \o f \o g \o h \o i \in Seq(S)
  BY <1>2
<1>4. QED
  BY <1>1, <1>3

LEMMA DerivedRoutesTyped ==
    ASSUME NEW risks, NEW viable, NEW guardIntent
    PROVE  DerivedRoutes(risks, viable, guardIntent) \in Seq(Recipes)
<1>1. CandidateRoutes(risks, viable) \in Seq(Recipes)
  BY CandidateRoutesTyped
<1>2. /\ "semantic_guard_rewrite" \in Recipes /\ "direct_apply_patch" \in Recipes
      /\ "minimal_livepatch_wrap" \in Recipes /\ "callback_livepatch_wrap" \in Recipes
      /\ "shadow_variable_wrap" \in Recipes /\ "smpl_primary_rewrite" \in Recipes
      /\ "section_change_avoidance_rewrite" \in Recipes
  BY RecipesKnown
<1>3. PICK a, b, c, d, e, f, g, h, i :
        /\ a = CandidateRoutes(risks, viable)
        /\ b = IF guardIntent THEN <<"semantic_guard_rewrite">> ELSE <<>>
        /\ c = <<"direct_apply_patch">>
        /\ d = IF viable THEN <<>> ELSE <<"minimal_livepatch_wrap">>
        /\ e = IF "callback" \in Needs(risks) THEN <<"callback_livepatch_wrap">> ELSE <<>>
        /\ f = IF "shadow_variable" \in Needs(risks) THEN <<"shadow_variable_wrap">> ELSE <<>>
        /\ g = IF risks # {} THEN <<"smpl_primary_rewrite">> ELSE <<>>
        /\ h = IF "unsupported_section_change" \in risks
               THEN <<"section_change_avoidance_rewrite">> ELSE <<>>
        /\ i = <<"minimal_livepatch_wrap">>
  OBVIOUS
<1>4. a \in Seq(Recipes) /\ b \in Seq(Recipes) /\ c \in Seq(Recipes)
  BY <1>1, <1>2, <1>3
<1>5. d \in Seq(Recipes) /\ e \in Seq(Recipes) /\ f \in Seq(Recipes)
  BY <1>2, <1>3
<1>6. g \in Seq(Recipes) /\ h \in Seq(Recipes) /\ i \in Seq(Recipes)
  BY <1>2, <1>3
<1>7. DerivedRoutes(risks, viable, guardIntent) = a \o b \o c \o d \o e \o f \o g \o h \o i
  BY <1>3, Zenon DEF DerivedRoutes
<1>8. QED
  BY <1>4, <1>5, <1>6, <1>7, NineLists

LEMMA DerivedInputsTyped ==
    ASSUME NEW risks, KnownRisks(risks), NEW viable, NEW guardIntent
    PROVE  DerivedInputs(risks, viable, guardIntent) \in Seq(Inputs)
<1>1. PICK names : names = DerivedRoutes(risks, viable, guardIntent)
  OBVIOUS
<1>2. names \in Seq(Recipes)
  BY <1>1, DerivedRoutesTyped
<1>3. PICK p : p = [i \in DOMAIN names |->
                     \/ names[i] = PreferredRoute(risks, viable)
                     \/ guardIntent /\ names[i] = "semantic_guard_rewrite"]
  OBVIOUS
<1>4. risks \in SUBSET Blocks /\ {} \in SUBSET Primitives
  BY DEF KnownRisks, Blocks
<1>5. ASSUME NEW i \in DOMAIN names
      PROVE  RouteInput(names[i], p[i], risks, {}) \in Inputs
  <2>1. names[i] \in Recipes
    BY <1>2
  <2>2. p[i] \in BOOLEAN
    BY <1>3
  <2>3. QED
    BY <1>4, <2>1, <2>2, RouteInputTyped
<1>6. DerivedInputs(risks, viable, guardIntent) =
        [i \in DOMAIN names |-> RouteInput(names[i], p[i], risks, {})]
  BY <1>1, <1>3, Zenon DEF DerivedInputs
<1>7. PICK n \in Nat : n = Len(names) /\ DOMAIN names = 1..n
  BY <1>2
<1>8. DerivedInputs(risks, viable, guardIntent) \in [1..n -> Inputs]
  BY <1>5, <1>6, <1>7
<1>9. QED
  BY <1>7, <1>8

LEMMA ExtraInputsTyped ==
    ASSUME NEW risks, KnownRisks(risks), NEW extra, extra \in Seq(Recipes)
    PROVE  ExtraInputs(risks, extra) \in Seq(Inputs)
<1>1. PICK b : b = IF risks = {} THEN {"kpatch_constraint"} ELSE risks
  OBVIOUS
<1>2. b \in SUBSET Blocks /\ {} \in SUBSET Primitives
  BY <1>1 DEF KnownRisks, Blocks
<1>3. ASSUME NEW i \in DOMAIN extra
      PROVE  RouteInput(extra[i], FALSE, b, {}) \in Inputs
  <2>1. extra[i] \in Recipes
    OBVIOUS
  <2>2. QED
    BY <1>2, <2>1, RouteInputTyped
<1>4. ExtraInputs(risks, extra) = [i \in DOMAIN extra |-> RouteInput(extra[i], FALSE, b, {})]
  BY <1>1 DEF ExtraInputs
<1>5. PICK n \in Nat : n = Len(extra) /\ DOMAIN extra = 1..n
  OBVIOUS
<1>6. ExtraInputs(risks, extra) \in [1..n -> Inputs]
  BY <1>3, <1>4, <1>5
<1>7. QED
  BY <1>5, <1>6

\* Every report has a candidate, and the candidates are routes the planner knows.
LEMMA CandidatesTyped ==
    ASSUME NEW risks, KnownRisks(risks), NEW viable, NEW guardIntent, NEW extra,
           extra \in Seq(Recipes)
    PROVE  \E N \in Nat :
             LET list == Candidates(risks, viable, guardIntent, extra)
             IN /\ DOMAIN list \subseteq 1..N
                /\ DOMAIN list # {}
                /\ \A i \in DOMAIN list : list[i] \in Inputs
<1>1. PICK a, b, c : /\ a = HintedInputs(risks, viable)
                     /\ b = DerivedInputs(risks, viable, guardIntent)
                     /\ c = ExtraInputs(risks, extra)
  OBVIOUS
<1>2. a \in Seq(Inputs) /\ Len(a) > 0 /\ b \in Seq(Inputs) /\ c \in Seq(Inputs)
  BY <1>1, HintedInputsTyped, DerivedInputsTyped, ExtraInputsTyped
<1>3. PICK all : all = a \o b \o c
  OBVIOUS
<1>4. all \in Seq(Inputs) /\ Len(all) > 0
  BY <1>2, <1>3
<1>5. PICK N \in Nat : N = Len(all) /\ DOMAIN all = 1..N /\ 1 \in 1..N
                       /\ \A i \in 1..N : all[i] \in Inputs
  BY <1>4
<1>6. PICK D : D = {i \in DOMAIN all : \A j \in 1..(i - 1) : \/ all[j].recipe # all[i].recipe
                                                      \/ all[j].prims # all[i].prims}
  OBVIOUS
<1>7. 1 \in D /\ D \subseteq 1..N
  BY <1>5, <1>6
<1>8. Candidates(risks, viable, guardIntent, extra) = [i \in D |-> all[i]]
  <2>1. Candidates(risks, viable, guardIntent, extra) = Distinct(all)
    BY <1>1, <1>3, Zenon DEF Candidates
  <2>2. Distinct(all) = [i \in D |-> all[i]]
    BY <1>6, Zenon DEF Distinct
  <2>3. QED
    BY <2>1, <2>2
<1>9. QED
  BY <1>5, <1>7, <1>8

LEMMA SpecialIsSmall ==
    ASSUME NEW route \in Recipes
    PROVE  IsFiniteSet(Special(route))
<1> DEFINE names == ({} \cup {"semantic_guard", "callback", "shadow_variable"})
                    \cup {"state_preserving", "smpl", "section_change_avoidance"}
<1>1. IsFiniteSet(names)
  BY FS_EmptySet, ThreeMore
<1>2. Special(route) \subseteq names
  BY RecipesKnown DEF Special, Routes, Route
<1>3. QED
  BY <1>1, <1>2, FS_Subset

LEMMA InputFacts ==
    ASSUME NEW x \in Inputs
    PROVE  /\ x.recipe \in Recipes /\ x.preferred \in BOOLEAN
           /\ IsFiniteSet(x.blocking) /\ Cardinality(x.blocking) \in Nat
<1>1. x.recipe \in Recipes /\ x.preferred \in BOOLEAN /\ x.blocking \in SUBSET Blocks
  BY DEF Inputs
<1>2. IsFiniteSet(DOMAIN RiskRules)
  BY RisksAreFew DEF KnownRisks
<1>3. IsFiniteSet(Blocks)
  BY <1>2, FS_AddElement DEF Blocks
<1>4. IsFiniteSet(x.blocking)
  BY <1>1, <1>3, FS_Subset
<1>5. QED
  BY <1>1, <1>4, FS_CardinalityType

LEMMA BaseEstimateTyped ==
    ASSUME NEW x \in Inputs, NEW high \in Nat
    PROVE  \A k \in 1..3 : BaseEstimate(x, high)[k] \in Int
<1>1. PICK b \in Nat : b = Cardinality(x.blocking)
  BY InputFacts
<1>2. PICK m \in Int : m = Max({high, b})
  <2>1. Max({high, b}) \in {high, b}
    BY ExtremesOfTwo
  <2>2. QED
    BY <2>1
<1>3. CASE x.recipe = "semantic_guard_rewrite"
  <2>1. BaseEstimate(x, high) = IF x.preferred THEN <<30, 40, 60>> ELSE <<120, 80, 120>>
    BY <1>3 DEF BaseEstimate
  <2>2. QED
    BY <2>1
<1>4. CASE x.recipe = "direct_apply_patch"
  <2>1. BaseEstimate(x, high) =
          <<IF x.preferred /\ b = 0 THEN 80 ELSE 320 + 50 * b,
            IF x.preferred THEN 40 ELSE 100, 80>>
    BY <1>1, <1>4 DEF BaseEstimate
  <2>2. QED
    BY <2>1
<1>5. CASE x.recipe \notin {"semantic_guard_rewrite", "direct_apply_patch"}
  <2>1. x.recipe \in Recipes \ {"semantic_guard_rewrite", "direct_apply_patch"}
    BY <1>5, InputFacts
  <2>2. PICK w : w = Wrapping[x.recipe]
    OBVIOUS
  <2>3. w[1] \in Int /\ w[2] \in Int /\ w[3] \in Int /\ w[4] \in Int /\ w[5] \in Int
    BY <2>1, <2>2, RecipesKnown DEF Wrapping
  <2>4. BaseEstimate(x, high) = <<w[1] + w[2] * m, w[3] + w[4] * b, w[5]>>
    BY <1>1, <1>2, <1>5, <2>2 DEF BaseEstimate
  <2>5. w[1] + w[2] * m \in Int /\ w[3] + w[4] * b \in Int
    BY <2>3
  <2>6. QED
    BY <2>3, <2>4, <2>5
<1>6. QED
  BY <1>3, <1>4, <1>5

LEMMA WeightTyped ==
    ASSUME NEW condition, NEW w \in Int
    PROVE  Weight(condition, w) \in Int
BY DEF Weight

LEMMA RoundedTyped ==
    ASSUME NEW x \in Int
    PROVE  Rounded(x) \in Int
BY DEF Rounded

\* What the planner estimates are whole numbers.
LEMMA EstimateTyped ==
    ASSUME NEW x \in Inputs, NEW risks, KnownRisks(risks), NEW viable
    PROVE  LET e == Estimate(x, risks, viable)
           IN e.risk \in Int /\ e.drift \in Int /\ e.cost \in Int
<1> DEFINE base    == BaseEstimate(x, HighRisks(risks))
           direct  == x.recipe = "direct_apply_patch"
           forbids == direct /\ risks \ {"unknown_patchability"} # {}
           route   == PreferredRoute(risks, viable)
           missing == Cardinality(Special(route) \ x.prims)
           matched == IF x.recipe = route THEN Cardinality(Special(route) \cap x.prims)
                      ELSE 0
           cost    == base[3] + Weight("callback" \in x.prims, 40)
                        + Weight("shadow_variable" \in x.prims, 50)
                        + Weight("state_preserving" \in x.prims, 20)
                        + Weight("smpl" \in x.prims, 30)
                        + Weight(Routes[x.recipe].scaffold, 50)
           drift1  == base[2] + Weight("callback" \in x.prims, 20)
                        + Weight("shadow_variable" \in x.prims, 30)
                        + Weight("section_change_avoidance" \in x.prims, 30)
                        + Weight(forbids, 40)
           drift2  == (IF x.preferred /\ ~direct THEN Max({30, drift1 - 10}) ELSE drift1)
                        + 30 * missing
           risk1   == (IF "section_change_avoidance" \in x.prims
                       THEN Max({50, base[1] - 40}) ELSE base[1]) + Weight(forbids, 80)
           risk2   == (IF x.preferred /\ ~direct THEN Max({40, risk1 - 30}) ELSE risk1)
                        + Weight(~x.preferred, 30) + 70 * missing
           risk3   == IF matched > 0 THEN Max({40, risk2 - 50 * matched}) ELSE risk2
           drift3  == IF matched > 0 THEN Max({30, drift2 - 20 * matched}) ELSE drift2
<1>1. base[1] \in Int /\ base[2] \in Int /\ base[3] \in Int
  <2>1. HighRisks(risks) \in Nat
    BY RisksAreFew
  <2>2. QED
    BY <2>1, BaseEstimateTyped
<1>2. missing \in Int /\ matched \in Int
  <2>1. IsFiniteSet(Special(route))
    BY CandidateRoutesTyped, SpecialIsSmall
  <2>2. IsFiniteSet(Special(route) \ x.prims) /\ IsFiniteSet(Special(route) \cap x.prims)
    BY <2>1, FS_Subset
  <2>3. QED
    BY <2>2, FS_CardinalityType
<1>3. Estimate(x, risks, viable) =
        [risk  |-> Min({85, Rounded(risk3)}),
         drift |-> Min({60, Rounded(drift3)}),
         cost  |-> Min({80, Rounded(cost)})]
  BY Zenon DEF Estimate
<1> HIDE DEF base, forbids, missing, matched
<1>4. cost \in Int /\ drift1 \in Int
  BY <1>1, WeightTyped
<1>5. drift2 \in Int
  <2> HIDE DEF drift1
  <2>1. drift1 - 10 \in Int
    BY <1>4
  <2>2. Max({30, drift1 - 10}) \in Int
    BY <2>1, ExtremesOfTwo
  <2>3. QED
    BY <1>2, <1>4, <2>2
<1>6. risk1 \in Int
  <2>1. base[1] - 40 \in Int
    BY <1>1
  <2>2. Max({50, base[1] - 40}) \in Int
    BY <2>1, ExtremesOfTwo
  <2>3. QED
    BY <1>1, <2>2, WeightTyped
<1>7. risk2 \in Int
  <2> HIDE DEF risk1
  <2>1. risk1 - 30 \in Int
    BY <1>6
  <2>2. Max({40, risk1 - 30}) \in Int
    BY <2>1, ExtremesOfTwo
  <2>3. QED
    BY <1>2, <1>6, <2>2, WeightTyped
<1> HIDE DEF cost, drift2, risk2
<1>8. risk3 \in Int
  <2>1. risk2 - 50 * matched \in Int
    BY <1>2, <1>7
  <2>2. Max({40, risk2 - 50 * matched}) \in Int
    BY <2>1, ExtremesOfTwo
  <2>3. QED
    BY <1>7, <2>2
<1>9. drift3 \in Int
  <2>1. drift2 - 20 * matched \in Int
    BY <1>2, <1>5
  <2>2. Max({30, drift2 - 20 * matched}) \in Int
    BY <2>1, ExtremesOfTwo
  <2>3. QED
    BY <1>5, <2>2
<1> HIDE DEF risk3, drift3
<1>10. Rounded(risk3) \in Int /\ Rounded(drift3) \in Int /\ Rounded(cost) \in Int
  BY <1>4, <1>8, <1>9, RoundedTyped
<1>11. PICK r \in Int, d \in Int, c \in Int :
         r = Rounded(risk3) /\ d = Rounded(drift3) /\ c = Rounded(cost)
  BY <1>10
<1>12. Min({85, r}) \in Int /\ Min({60, d}) \in Int /\ Min({80, c}) \in Int
  <2>1. Min({85, r}) \in {85, r}
    BY ExtremesOfTwo
  <2>2. Min({60, d}) \in {60, d}
    BY ExtremesOfTwo
  <2>3. Min({80, c}) \in {80, c}
    BY ExtremesOfTwo
  <2>4. QED
    BY <2>1, <2>2, <2>3
<1>13. QED
  BY <1>3, <1>11, <1>12

----------------------------------------------------------------------------
(* Scores, and the plan *)

\* What the planner needs of its hints: counts by recipe, finitely many failures
\* to be wary of, and routes it knows.
HintsFit(hints) ==
    /\ \A r \in Recipes : /\ hints.stats[r].attempts \in Nat
                          /\ hints.stats[r].successes \in Nat
                          /\ hints.stats[r].failures \in Nat
    /\ IsFiniteSet(DOMAIN hints.pressure)
    /\ hints.extra \in Seq(Recipes)

LEMMA ScoreTyped ==
    ASSUME NEW x \in Inputs, NEW e, e.risk \in Int, e.drift \in Int, e.cost \in Int,
           NEW hints, HintsFit(hints)
    PROVE  Score(x, e, hints) \in Int
<1>1. PICK s : s = hints.stats[x.recipe]
  OBVIOUS
<1>2. s.attempts \in Nat /\ s.successes \in Nat /\ s.failures \in Nat
  BY <1>1, InputFacts DEF HintsFit
<1>3. PICK p : p = Cardinality({i \in DOMAIN hints.pressure : hints.pressure[i] \in RuleHits(x)})
  OBVIOUS
<1>4. p \in Nat
  <2>1. IsFiniteSet({i \in DOMAIN hints.pressure : hints.pressure[i] \in RuleHits(x)})
    BY FS_Subset DEF HintsFit
  <2>2. QED
    BY <1>3, <2>1, FS_CardinalityType
<1>5. Share(2000, s.successes, s.attempts) \in Int /\ Share(1600, s.failures, s.attempts) \in Int
  BY <1>2, ShareIsNumber
<1>6. PICK m \in Int : m = Min({5, p})
  <2>1. Min({5, p}) \in {5, p}
    <3>1. 5 \in Int /\ p \in Int
      BY <1>4
    <3>2. QED
      BY <3>1, ExtremesOfTwo
  <2>2. QED
    BY <1>4, <2>1
<1>7. /\ Weight(x.recipe \in hints.avoid, 3500) \in Int
      /\ Weight(x.recipe \in hints.boost, 2400) \in Int
  BY WeightTyped
<1>8. PICK a \in Int, b \in Int, c \in Int, d \in Int :
        /\ a = Share(2000, s.successes, s.attempts) /\ b = Share(1600, s.failures, s.attempts)
        /\ c = Weight(x.recipe \in hints.avoid, 3500) /\ d = Weight(x.recipe \in hints.boost, 2400)
  BY <1>5, <1>7
<1>9. Score(x, e, hints) = 42 * (100 - e.risk) + 18 * (100 - e.drift) + 14 * (100 - e.cost)
                             + a - b - 120 * m - c + d
  <2>1. Score(x, e, hints) =
          42 * (100 - e.risk) + 18 * (100 - e.drift) + 14 * (100 - e.cost)
            + Share(2000, hints.stats[x.recipe].successes, hints.stats[x.recipe].attempts)
            - Share(1600, hints.stats[x.recipe].failures, hints.stats[x.recipe].attempts)
            - 120 * Min({5, Cardinality({i \in DOMAIN hints.pressure :
                                           hints.pressure[i] \in RuleHits(x)})})
            - Weight(x.recipe \in hints.avoid, 3500)
            + Weight(x.recipe \in hints.boost, 2400)
    BY DEF Score
  <2>2. QED
    BY <1>1, <1>3, <1>6, <1>8, <2>1
<1>10. QED
  BY <1>9

LEMMA RankedTyped ==
    ASSUME NEW x \in Inputs, NEW risks, KnownRisks(risks), NEW viable,
           NEW hints, HintsFit(hints)
    PROVE  LET r == Ranked(x, Estimate(x, risks, viable), hints)
           IN r.recipe = x.recipe /\ Graded(r)
<1>1. PICK e : e = Estimate(x, risks, viable)
  OBVIOUS
<1>2. e.risk \in Int /\ e.drift \in Int /\ e.cost \in Int
  BY <1>1, EstimateTyped
<1>3. Score(x, e, hints) \in Int
  BY <1>2, ScoreTyped
<1>4. QED
  BY <1>1, <1>2, <1>3 DEF Ranked, Graded

\* The plan is a candidate, and ahead of every other: no candidate has a higher
\* score, nor the same one with lower estimates, and of equals it came first.
THEOREM PlanIsBest ==
    ASSUME NEW risks, KnownRisks(risks), NEW viable, NEW guardIntent,
           NEW hints, HintsFit(hints)
    PROVE  LET ranked == RankAll(Candidates(risks, viable, guardIntent, hints.extra),
                                 risks, viable, hints)
           IN \E i \in DOMAIN ranked :
                /\ Plan(risks, viable, guardIntent, hints) = ranked[i]
                /\ ranked[i].recipe \in Recipes
                /\ \A j \in DOMAIN ranked \ {i} : Ahead(ranked, i, j)
<1>1. PICK inputs : inputs = Candidates(risks, viable, guardIntent, hints.extra)
  OBVIOUS
<1>2. PICK ranked : ranked = RankAll(inputs, risks, viable, hints)
  OBVIOUS
<1>3. PICK N \in Nat : /\ DOMAIN inputs \subseteq 1..N /\ DOMAIN inputs # {}
                       /\ \A i \in DOMAIN inputs : inputs[i] \in Inputs
  BY <1>1, CandidatesTyped DEF HintsFit
<1>4. DOMAIN ranked = DOMAIN inputs
  BY <1>2 DEF RankAll
<1>5. ASSUME NEW i \in DOMAIN ranked
      PROVE  ranked[i].recipe \in Recipes /\ Graded(ranked[i])
  <2>1. inputs[i] \in Inputs
    BY <1>3, <1>4
  <2>2. ranked[i] = Ranked(inputs[i], Estimate(inputs[i], risks, viable), hints)
    BY <1>2, <1>4 DEF RankAll
  <2>3. PICK x : x = inputs[i]
    OBVIOUS
  <2>4. QED
    BY <2>1, <2>2, <2>3, RankedTyped, InputFacts
<1>6. \E i \in DOMAIN ranked :
         First(ranked) = ranked[i] /\ \A j \in DOMAIN ranked \ {i} : Ahead(ranked, i, j)
  BY <1>3, <1>4, <1>5, FirstIsAhead
<1>7. Plan(risks, viable, guardIntent, hints) = First(ranked)
  BY <1>1, <1>2, Zenon DEF Plan
<1>8. QED
  BY <1>1, <1>2, <1>5, <1>6, <1>7

----------------------------------------------------------------------------
(* The memory, and the hints it gives *)

Counts == {"attempts", "successes", "failures"}

\* An entry of the recipes counts attempts.
CountingEntry(e) ==
    /\ DOMAIN e = {"id", "recipe", "rules", "prims"} \cup Counts
    /\ e.attempts \in Nat /\ e.successes \in Nat /\ e.failures \in Nat

Fits(list) ==
    /\ Len(list) \in Nat /\ DOMAIN list = 1..Len(list) /\ \E T : list \in Seq(T)

CountingList(list) == Fits(list) /\ \A i \in DOMAIN list : CountingEntry(list[i])

LEMMA StatsTyped ==
    ASSUME NEW recipes, CountingList(recipes), NEW risks, NEW r \in Recipes
    PROVE  LET s == RecipeStats(recipes, risks)[r]
           IN s.attempts \in Nat /\ s.successes \in Nat /\ s.failures \in Nat
<1>1. PICK found : found = {i \in DOMAIN recipes :
                              /\ recipes[i].recipe = r
                              /\ risks = {} \/ recipes[i].rules \cap risks # {}}
  OBVIOUS
<1>2. PICK most : most = {i \in found : \A j \in found :
                             recipes[j].attempts <= recipes[i].attempts}
  OBVIOUS
<1>3. RecipeStats(recipes, risks)[r] =
         IF found = {} THEN NoHints.stats[r]
         ELSE [attempts |-> recipes[Max(most)].attempts,
               successes |-> recipes[Max(most)].successes,
               failures |-> recipes[Max(most)].failures]
  BY <1>1, <1>2 DEF RecipeStats
<1>4. NoHints.stats[r] = [attempts |-> 0, successes |-> 0, failures |-> 0]
  BY DEF NoHints
<1>5. CASE found = {}
  BY <1>3, <1>4, <1>5
<1>6. CASE found # {}
  <2>1. PICK N \in Nat : DOMAIN recipes = 1..N
    BY DEF CountingList, Fits
  <2>2. found \in SUBSET (1..N)
    BY <1>1, <2>1
  <2>3. PICK f : f = [i \in 1..N |-> recipes[i].attempts]
    OBVIOUS
  <2>4. \A i \in found : f[i] = recipes[i].attempts /\ f[i] \in Int
    BY <2>1, <2>2, <2>3 DEF CountingList, CountingEntry
  <2>5. \E x \in found : \A y \in found : f[y] <= f[x]
    BY <1>6, <2>2, <2>4, GreatestValue
  <2>6. most # {} /\ most \in SUBSET (1..N)
    BY <1>2, <2>2, <2>4, <2>5
  <2>7. Max(most) \in most
    BY <2>6, GreatestOfSome
  <2>8. PICK k \in 1..N : k = Max(most)
    BY <2>6, <2>7
  <2>9. recipes[k].attempts \in Nat /\ recipes[k].successes \in Nat /\ recipes[k].failures \in Nat
    BY <2>1, <2>8 DEF CountingList, CountingEntry
  <2>10. QED
    BY SMTT(30), <1>3, <1>6, <2>8, <2>9
<1>7. QED
  BY <1>5, <1>6

LEMMA HintsFitMemory ==
    ASSUME NEW mem, Fits(mem.failures), CountingList(mem.recipes), NEW risks, NEW task
    PROVE  LET h == Hints(mem, risks, task)
           IN /\ HintsFit(h)
              /\ DOMAIN h = {"stats", "pressure", "avoid", "boost", "extra"}
<1>1. PICK own, relevant, extra :
        /\ own = {i \in DOMAIN mem.failures : mem.failures[i].task = task}
        /\ relevant = {i \in DOMAIN mem.failures : risks = {} \/ mem.failures[i].type \in risks}
                      \cup own
        /\ extra = WithoutRepeats(RoutesAfter(mem.failures, task))
  OBVIOUS
<1>2. Hints(mem, risks, task) =
        [stats    |-> RecipeStats(mem.recipes, risks),
         pressure |-> [i \in relevant |-> mem.failures[i].type],
         avoid    |-> {mem.failures[i].recipe : i \in own},
         boost    |-> Range(extra),
         extra    |-> extra]
  BY <1>1 DEF Hints
<1>3. IsFiniteSet(relevant)
  <2>1. PICK N \in Nat : DOMAIN mem.failures = 1..N
    BY DEF Fits
  <2>2. IsFiniteSet(1..N)
    BY FS_Interval
  <2>3. relevant \subseteq 1..N
    BY <1>1, <2>1
  <2>4. QED
    BY <2>2, <2>3, FS_Subset
<1>4. extra \in Seq(Recipes)
  <2>1. RoutesAfter(mem.failures, task) \in Seq(Recipes)
    BY RoutesAfterTyped DEF Fits
  <2>2. QED
    BY <1>1, <2>1, WithoutRepeatsTyped
<1>5. PICK h : h = Hints(mem, risks, task)
  OBVIOUS
<1>6. /\ h.stats = RecipeStats(mem.recipes, risks) /\ DOMAIN h.pressure = relevant
      /\ h.extra = extra /\ DOMAIN h = {"stats", "pressure", "avoid", "boost", "extra"}
  BY <1>2, <1>5
<1>7. HintsFit(h)
  BY <1>3, <1>4, <1>6, StatsTyped DEF HintsFit
<1>8. QED
  BY <1>5, <1>6, <1>7

LEMMA RequiredRoutesTyped ==
    ASSUME NEW needs
    PROVE  RequiredRoutes(needs) \in Seq(Recipes)
<1>1. PICK a, b, c :
        /\ a = IF "section" \in needs THEN <<"section_change_avoidance_rewrite">> ELSE <<>>
        /\ b = IF "guard" \in needs THEN <<"semantic_guard_rewrite">> ELSE <<>>
        /\ c = IF "smpl" \in needs THEN <<"smpl_primary_rewrite">> ELSE <<>>
  OBVIOUS
<1>2. /\ "section_change_avoidance_rewrite" \in Recipes /\ "semantic_guard_rewrite" \in Recipes
      /\ "smpl_primary_rewrite" \in Recipes
  BY RecipesKnown
<1>3. a \in Seq(Recipes) /\ b \in Seq(Recipes) /\ c \in Seq(Recipes)
  BY <1>1, <1>2
<1>4. RequiredRoutes(needs) = a \o b \o c
  BY <1>1 DEF RequiredRoutes
<1>5. QED
  BY <1>3, <1>4

LEMMA MergedFit ==
    ASSUME NEW hints, HintsFit(hints), NEW dec, NEW previous,
           DOMAIN hints = {"stats", "pressure", "avoid", "boost", "extra"}
    PROVE  HintsFit(MergeDecision(hints, dec, previous))
<1>1. CASE dec.terminal
  BY <1>1 DEF MergeDecision
<1>2. CASE ~dec.terminal
  <2>1. PICK more : more = WithoutRepeats(hints.extra \o RequiredRoutes(dec.needs))
    OBVIOUS
  <2>2. more \in Seq(Recipes)
    <3>1. PICK r : r = RequiredRoutes(dec.needs)
      OBVIOUS
    <3>2. r \in Seq(Recipes) /\ hints.extra \in Seq(Recipes)
      BY <3>1, RequiredRoutesTyped DEF HintsFit
    <3>3. hints.extra \o r \in Seq(Recipes)
      BY <3>2
    <3>4. QED
      BY <2>1, <3>1, <3>3, WithoutRepeatsTyped
  <2>3. PICK m : m = MergeDecision(hints, dec, previous)
    OBVIOUS
  <2>4. m.stats = hints.stats /\ m.pressure = hints.pressure /\ m.extra = more
    BY <1>2, <2>1, <2>3 DEF MergeDecision
  <2>5. QED
    BY <2>2, <2>3, <2>4 DEF HintsFit
<1>3. QED
  BY <1>1, <1>2

----------------------------------------------------------------------------
(* RepairLoop: its state has its types *)

LEMMA AppendFits ==
    ASSUME NEW list, Fits(list), NEW x
    PROVE  /\ Fits(Append(list, x)) /\ DOMAIN Append(list, x) = DOMAIN list \cup {Len(list) + 1}
           /\ Append(list, x)[Len(list) + 1] = x
           /\ \A i \in DOMAIN list : Append(list, x)[i] = list[i]
<1>1. PICK T : list \in Seq(T)
  BY DEF Fits
<1>2. PICK U : U = T \cup {x}
  OBVIOUS
<1>3. list \in Seq(U) /\ x \in U
  BY <1>1, <1>2
<1>4. Append(list, x) \in Seq(U)
  BY <1>3
<1>5. /\ Len(Append(list, x)) = Len(list) + 1 /\ Append(list, x)[Len(list) + 1] = x
      /\ \A i \in DOMAIN list : Append(list, x)[i] = list[i]
      /\ DOMAIN Append(list, x) = 1..(Len(list) + 1)
      /\ Len(list) \in Nat /\ DOMAIN list = 1..Len(list)
  BY <1>3
<1>6. 1..(Len(list) + 1) = 1..Len(list) \cup {Len(list) + 1}
  BY <1>5
<1>7. QED
  BY <1>4, <1>5, <1>6 DEF Fits

LEMMA CountingAppended ==
    ASSUME NEW list, CountingList(list), NEW x, CountingEntry(x)
    PROVE  CountingList(Append(list, x))
BY AppendFits DEF CountingList

LEMMA CountRecipeTyped ==
    ASSUME NEW recipes, CountingList(recipes), NEW plan, NEW success \in BOOLEAN
    PROVE  CountingList(CountRecipe(recipes, plan, success))
<1> DEFINE same == {i \in DOMAIN recipes : /\ recipes[i].recipe = plan.recipe
                                           /\ recipes[i].rules = plan.rules
                                           /\ recipes[i].prims = plan.prims}
           first == {i \in same : \A j \in same : i <= j}
           won == IF success THEN 1 ELSE 0
           more(e) == [e EXCEPT !.attempts = @ + 1, !.successes = @ + won,
                                !.failures = @ + 1 - won]
           new == [id |-> NoId, recipe |-> plan.recipe, rules |-> plan.rules,
                   prims |-> plan.prims, attempts |-> 0, successes |-> 0, failures |-> 0]
<1>1. ASSUME NEW e, CountingEntry(e) PROVE CountingEntry(more(e))
  BY <1>1 DEF CountingEntry, Counts
<1>2. CountingEntry(new)
  BY DEF CountingEntry, Counts
<1>3. CASE first = {}
  <2>1. CountRecipe(recipes, plan, success) = Append(recipes, more(new))
    BY <1>3 DEF CountRecipe
  <2>2. PICK m : m = more(new)
    OBVIOUS
  <2>3. CountingEntry(m)
    BY <1>1, <1>2, <2>2
  <2>4. QED
    BY <2>1, <2>2, <2>3, CountingAppended
<1>4. CASE first # {}
  <2>1. PICK k : k = CHOOSE i \in first : TRUE
    OBVIOUS
  <2>2. k \in DOMAIN recipes
    BY SMTT(30), <1>4, <2>1
  <2>3. CountRecipe(recipes, plan, success) = [recipes EXCEPT ![k] = more(recipes[k])]
    BY <1>4, <2>1 DEF CountRecipe
  <2>4. PICK m : m = more(recipes[k])
    OBVIOUS
  <2>5. CountingEntry(m)
    BY <1>1, <2>2, <2>4 DEF CountingList
  <2>6. PICK l : l = [recipes EXCEPT ![k] = m]
    OBVIOUS
  <2>7. Fits(l) /\ DOMAIN l = DOMAIN recipes
    <3>1. PICK T : recipes \in Seq(T)
      BY DEF CountingList, Fits
    <3>2. PICK U : U = T \cup {m}
      OBVIOUS
    <3>3. recipes \in Seq(U) /\ m \in U
      BY <3>1, <3>2
    <3>4. l \in Seq(U) /\ Len(l) = Len(recipes) /\ Len(l) \in Nat /\ DOMAIN l = 1..Len(l)
      BY <2>2, <2>6, <3>3
    <3>5. DOMAIN l = DOMAIN recipes
      BY <2>6
    <3>6. QED
      BY <3>4, <3>5 DEF Fits
  <2>8. \A i \in DOMAIN l : CountingEntry(l[i])
    BY <2>5, <2>6, <2>7 DEF CountingList
  <2>9. QED
    BY <2>3, <2>4, <2>6, <2>7, <2>8 DEF CountingList
<1>5. QED
  BY <1>3, <1>4

\* The memory holds two lists, and the recipes count.
Remembers == Fits(memory.failures) /\ CountingList(memory.recipes)

LEMMA RemembersAtFirst == LoopInit => Remembers
<1> SUFFICES ASSUME LoopInit PROVE Remembers
  OBVIOUS
<1>1. memory \in Memories
  BY DEF LoopInit
<1>2. PICK S, T : memory.failures \in Seq(S) /\ memory.recipes \in Seq(T)
  BY <1>1, MemoriesAreLists
<1>3. Fits(memory.failures) /\ Fits(memory.recipes)
  BY <1>2 DEF Fits
<1>4. ASSUME NEW i \in DOMAIN memory.recipes PROVE CountingEntry(memory.recipes[i])
  <2>1. PICK e : e = memory.recipes[i]
    OBVIOUS
  <2>2. e \in Range(memory.recipes)
    BY <2>1 DEF Range
  <2>3. /\ DOMAIN e = {"id", "recipe", "rules", "prims", "attempts", "successes", "failures"}
        /\ {e.attempts, e.successes, e.failures} \subseteq Nat
    BY <1>1, <2>2, MemoriesAreLists
  <2>4. QED
    BY <2>1, <2>3 DEF CountingEntry, Counts
<1>5. QED
  BY <1>3, <1>4 DEF Remembers, CountingList

LEMMA RemembersStays == Remembers /\ [LoopNext]_loopVars => Remembers'
<1> SUFFICES ASSUME Remembers, [LoopNext]_loopVars PROVE Remembers'
  OBVIOUS
<1>1. CASE Reflect
  <2>1. PICK type, cue, id :
          /\ type = records[used].type /\ cue = Cue(used)
          /\ id = ReflectionId(used, type)
          /\ memory' = RecordReflection(memory, Task, used, type, plans[used].recipe, cue)
    BY <1>1 DEF Reflect
  <2>2. PICK f : f = Failure(id, Task, type, plans[used].recipe, cue)
    OBVIOUS
  <2>3. PICK e : e = [id |-> id, recipe |-> plans[used].recipe, rules |-> {type},
                      prims |-> {}, attempts |-> 1, successes |-> 0, failures |-> 1]
    OBVIOUS
  <2>4. CountingEntry(e)
    BY <2>3 DEF CountingEntry, Counts
  <2>5. /\ memory'.failures = memory.failures \/ memory'.failures = Append(memory.failures, f)
        /\ memory'.recipes \in {memory.recipes, Append(memory.recipes, e)}
    BY <2>1, <2>2, <2>3 DEF RecordReflection
  <2>6. Fits(memory'.failures)
    <3>1. Fits(memory.failures) /\ Fits(Append(memory.failures, f))
      BY AppendFits DEF Remembers
    <3>2. QED
      BY <2>5, <3>1
  <2>7. CountingList(memory'.recipes)
    BY <2>4, <2>5, CountingAppended DEF Remembers
  <2>8. QED
    BY <2>6, <2>7 DEF Remembers
<1>2. CASE Remember
  <2>1. PICK guardFailed \in BOOLEAN :
          memory' = RecordAttempt(memory, Task, plans[used], records[used].type, Cue(used),
                                  rows[used] = "built" /\ ~guardFailed)
    BY <1>2 DEF Remember
  <2>2. PICK success \in BOOLEAN : success <=> (rows[used] = "built" /\ ~guardFailed)
    OBVIOUS
  <2>3. PICK f : f = Failure(NoId, Task, records[used].type, plans[used].recipe, Cue(used))
    OBVIOUS
  <2>4. /\ memory'.failures = memory.failures \/ memory'.failures = Append(memory.failures, f)
        /\ memory'.recipes = CountRecipe(memory.recipes, plans[used], success)
    BY <2>1, <2>2, <2>3 DEF RecordAttempt
  <2>5. Fits(memory'.failures)
    <3>1. Fits(memory.failures) /\ Fits(Append(memory.failures, f))
      BY AppendFits DEF Remembers
    <3>2. QED
      BY <2>4, <3>1
  <2>6. CountingList(memory'.recipes)
    BY <2>4, CountRecipeTyped DEF Remembers
  <2>7. QED
    BY <2>5, <2>6 DEF Remembers
<1>3. CASE StopAgain \/ StartCommand \/ SeedAttempt \/ PlanAttempt \/ RewriteAttempt
           \/ BuildAttempt \/ DecideNext \/ Crash \/ UNCHANGED loopVars
  <2>1. memory' = memory
    BY <1>3 DEF StopAgain, StartCommand, SeedAttempt, PlanAttempt, RewriteAttempt, BuildAttempt,
                DecideNext, Crash, loopVars
  <2>2. QED
    BY <2>1 DEF Remembers
<1>4. QED
  BY <1>1, <1>2, <1>3 DEF LoopNext

LEMMA RewrittenTyped ==
    ASSUME NEW recipe
    PROVE  Rewritten(recipe) \in Shapes
BY DEF Rewritten, Shapes

LEMMA LoopTypedAtFirst == LoopInit => LoopTypeOK
BY LoopBudget, LoopCrashes DEF LoopInit, LoopTypeOK

\* The recipe of the next plan.
LEMMA NextRecipeTyped ==
    ASSUME Remembers, patch \in Patches, NEW n
    PROVE  Plan(patch.risks, patch.viable, patch.guardIntent, PlanningHints(n)).recipe \in Recipes
<1>1. KnownRisks(patch.risks)
  BY PatchesKnown DEF PatchFacts, KnownRisks
<1>2. PICK h : h = Hints(memory, patch.risks, Task)
  OBVIOUS
<1>3. HintsFit(h) /\ DOMAIN h = {"stats", "pressure", "avoid", "boost", "extra"}
  BY <1>2, HintsFitMemory DEF Remembers
<1>4. PICK g : g = MergeDecision(h, decision, PreviousRecipe(n))
  OBVIOUS
<1>5. HintsFit(g)
  BY <1>3, <1>4, MergedFit
<1>6. g = PlanningHints(n)
  BY <1>2, <1>4 DEF PlanningHints
<1>7. Plan(patch.risks, patch.viable, patch.guardIntent, g).recipe \in Recipes
  BY <1>1, <1>5, PlanIsBest
<1>8. QED
  BY <1>6, <1>7

LEMMA LoopTypedStays ==
    LoopTypeOK /\ Planned /\ Remembers /\ [LoopNext]_loopVars => LoopTypeOK'
<1> SUFFICES ASSUME LoopTypeOK, Planned, Remembers, [LoopNext]_loopVars PROVE LoopTypeOK'
  OBVIOUS
<1>0. used \in Nat /\ MaxAttempts \in Nat \ {0} /\ MaxCrashes \in Nat
  BY LoopBudget, LoopCrashes DEF Planned
<1>10. Planned'
  BY PlannedStays
<1>11. /\ used' \in 0..MaxAttempts /\ DOMAIN plans' \subseteq 1..used'
       /\ DOMAIN texts' \subseteq DOMAIN plans' /\ DOMAIN records' \subseteq DOMAIN texts'
       /\ at' \in {"idle", "seed", "plan", "rewrite", "build", "reflect", "remember", "decide"}
  BY <1>10, LoopBudget DEF Planned
<1>12. /\ patch' \in Patches
       /\ crashes' \in 0..MaxCrashes
  <2>1. patch' = patch /\ (crashes' = crashes \/ (crashes' = crashes + 1 /\ crashes < MaxCrashes))
    BY DEF LoopNext, SeedAttempt, PlanAttempt, RewriteAttempt, BuildAttempt, StopAgain,
           StartCommand, Reflect, Remember, DecideNext, Crash, loopVars
  <2>2. QED
    BY <1>0, <2>1 DEF LoopTypeOK
<1>1. CASE SeedAttempt
  <2>1. /\ used' = used + 1 /\ rows' = Append(rows, "running")
        /\ UNCHANGED <<plans, texts, records>>
    BY <1>1 DEF SeedAttempt
  <2>2. rows' \in [1..used' -> AttemptStatus]
    <3>1. rows \in Seq(AttemptStatus) /\ Len(rows) = used
      BY <1>0 DEF LoopTypeOK
    <3>2. "running" \in AttemptStatus
      BY DEF AttemptStatus
    <3>3. Append(rows, "running") \in Seq(AttemptStatus) /\ Len(Append(rows, "running")) = used + 1
      BY <3>1, <3>2
    <3>4. PICK r : r = Append(rows, "running")
      OBVIOUS
    <3>5. r \in [1..(used + 1) -> AttemptStatus]
      <4>1. r \in Seq(AttemptStatus) /\ Len(r) = used + 1
        BY <3>3, <3>4
      <4>2. r \in [1..Len(r) -> AttemptStatus]
        BY <4>1
      <4>3. QED
        BY <4>1, <4>2
    <3>6. rows' = r /\ used' = used + 1
      BY <2>1, <3>4
    <3>7. QED
      BY <3>5, <3>6
  <2>3. QED
    BY <1>11, <1>12, <2>1, <2>2 DEF LoopTypeOK
<1>4. CASE PlanAttempt
  <2>1. PICK p : p = Plan(patch.risks, patch.viable, patch.guardIntent, PlanningHints(used))
    OBVIOUS
  <2>2. p.recipe \in Recipes
    BY <2>1, NextRecipeTyped DEF LoopTypeOK
  <2>3. PICK new : new = [recipe |-> p.recipe, prims |-> p.prims, rules |-> p.rules]
    OBVIOUS
  <2>4. new.recipe \in Recipes
    BY <2>2, <2>3
  <2>5. plans' = Filed(plans, used, new) /\ UNCHANGED <<used, rows, texts, records>>
    BY <1>4, <2>1, <2>3 DEF PlanAttempt, FilePlan
  <2>6. used \notin DOMAIN plans
    BY <1>4 DEF PlanAttempt, Planned
  <2>7. /\ DOMAIN plans' = DOMAIN plans \cup {used} /\ plans'[used] = new
        /\ \A m \in DOMAIN plans : plans'[m] = plans[m]
    BY <2>5, <2>6 DEF Filed
  <2>8. \A n \in DOMAIN plans' : plans'[n].recipe \in Recipes
    BY <2>4, <2>7 DEF LoopTypeOK
  <2>9. QED
    BY <1>11, <1>12, <2>5, <2>8 DEF LoopTypeOK
<1>5. CASE RewriteAttempt
  <2>1. PICK shape : shape = Rewritten(plans[used].recipe)
    OBVIOUS
  <2>2. shape \in Shapes
    BY <2>1, RewrittenTyped
  <2>3. PICK new : new = [shape |-> shape, ineffective |-> Ineffective(used, shape)]
    OBVIOUS
  <2>4. new.shape \in Shapes
    BY <2>2, <2>3
  <2>5. texts' = Filed(texts, used, new) /\ UNCHANGED <<used, rows, plans, records>>
    BY <1>5, <2>1, <2>3 DEF RewriteAttempt, FileText
  <2>6. used \notin DOMAIN texts
    BY <1>5 DEF RewriteAttempt, Planned
  <2>7. /\ DOMAIN texts' = DOMAIN texts \cup {used} /\ texts'[used] = new
        /\ \A m \in DOMAIN texts : texts'[m] = texts[m]
    BY <2>5, <2>6 DEF Filed
  <2>8. \A n \in DOMAIN texts' : texts'[n].shape \in Shapes
    BY <2>4, <2>7 DEF LoopTypeOK
  <2>9. QED
    BY <1>11, <1>12, <2>5, <2>8 DEF LoopTypeOK
<1>2. CASE BuildAttempt
  <2>1. PICK a \in BuildAnswers :
          /\ rows' = [rows EXCEPT ![used] = a.status]
          /\ records' = Filed(records, used,
               [type |-> IF Unresolved(used, a.type, a.sign)
                         THEN "kpatch_constraint_unresolved" ELSE a.type,
                sign |-> a.sign, ineffective |-> texts[used].ineffective])
          /\ at' \in {"remember", "reflect"}
    BY <1>2 DEF BuildAttempt
  <2>2. a.status \in AttemptStatus /\ a.type \in FailureTypes \cup {"none"}
    BY AnswersAreClassified
  <2>3. PICK type : type = IF Unresolved(used, a.type, a.sign)
                           THEN "kpatch_constraint_unresolved" ELSE a.type
    OBVIOUS
  <2>4. type \in FailureTypes \cup {"none"}
    <3>1. "kpatch_constraint_unresolved" \in FailureTypes
      BY DEF FailureTypes, OtherFailures
    <3>2. QED
      BY <2>2, <2>3, <3>1
  <2>5. PICK new : new = [type |-> type, sign |-> a.sign, ineffective |-> texts[used].ineffective]
    OBVIOUS
  <2>6. new.type = type /\ records' = Filed(records, used, new)
    BY <2>1, <2>3, <2>5
  <2>7. UNCHANGED <<used, plans, texts>> /\ used \notin DOMAIN records
    BY <1>2 DEF BuildAttempt, Planned
  <2>8. /\ DOMAIN records' = DOMAIN records \cup {used} /\ records'[used] = new
        /\ \A m \in DOMAIN records : records'[m] = records[m]
    BY <2>6, <2>7 DEF Filed
  <2>10. \A n \in DOMAIN records' : records'[n].type \in FailureTypes \cup {"none"}
    BY <2>4, <2>6, <2>8 DEF LoopTypeOK
  <2>11. rows' \in [1..used' -> AttemptStatus]
    <3>1. rows \in [1..used -> AttemptStatus]
      BY DEF LoopTypeOK
    <3>2. QED
      BY <2>1, <2>2, <2>7, <3>1
  <2>12. QED
    BY <1>11, <1>12, <2>7, <2>10, <2>11 DEF LoopTypeOK
<1>3. CASE StopAgain \/ StartCommand \/ Reflect \/ Remember \/ DecideNext \/ Crash
           \/ UNCHANGED loopVars
  <2>1. UNCHANGED <<used, rows, plans, texts, records>>
    BY <1>3 DEF StopAgain, StartCommand, Reflect, Remember, DecideNext, Crash, loopVars
  <2>2. QED
    BY <1>11, <1>12, <2>1 DEF LoopTypeOK
<1>6. QED
  BY <1>1, <1>2, <1>3, <1>4, <1>5 DEF LoopNext

\* Whatever the memory holds and whatever the builds end in, the loop knows where
\* it stands: attempts are numbered within the budget, a plan names a route the
\* planner knows, and an attempt has a patch only if it has a plan and a record
\* only if it has a patch.
THEOREM LoopTyping == LoopSpec => []LoopTypeOK
<1>1. LoopInit => LoopTypeOK /\ Planned /\ Remembers
  BY LoopTypedAtFirst, PlannedStarts, RemembersAtFirst
<1>2. LoopTypeOK /\ Planned /\ Remembers /\ [LoopNext]_loopVars
        => (LoopTypeOK /\ Planned /\ Remembers)'
  BY LoopTypedStays, PlannedStays, RemembersStays
<1>3. QED
  BY <1>1, <1>2, PTL DEF LoopSpec

=============================================================================
