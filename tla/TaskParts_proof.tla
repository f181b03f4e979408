---------------------------- MODULE TaskParts_proof ---------------------------
(***************************************************************************)
(* Theorems about three parts of a task's life, each with a specification  *)
(* of its own.                                                             *)
(*                                                                         *)
(* Its creation (TaskCreation), for any number of creators and requests.   *)
(*                                                                         *)
(* Its patch (PatchRewrite): what SectionChangeAvoidance leaves of any     *)
(* patch over any identifiers.  The invariant says of every file that its  *)
(* kept hunks hold the first ones and lie within every self-contained set  *)
(* of hunks, and of the files behind the current one that they are         *)
(* self-contained already: a pass adds only what each such set must hold,  *)
(* and a file is left by the pass that finds nothing to add.               *)
(*                                                                         *)
(* The validation of what was built (Validation), for any number of        *)
(* attempts validated side by side, any configurations and any attempts: a *)
(* validation gives only the outcomes that the task pipeline reckons with, *)
(* "passed" stands for tests that ran, and a module left in the kernel     *)
(* shows in the verdict.                                                   *)
(***************************************************************************)
EXTENDS TaskCreation, PatchRewrite, Validation, TLAPS

----------------------------------------------------------------------------
(* The serial that comes next *)

\* While a day has the serials 1..n, the next is n + 1 as long as n fits the
\* padding; beyond it the text order keeps Last at the top.
LEMMA NextSerialAfter ==
    ASSUME NEW d, NEW n \in 0..(Last + 1), Serials(d) = 1..n
    PROVE  NextSerial(d) = IF n = Last + 1 THEN Last + 1 ELSE n + 1
<1> USE PaddedSerials
<1> DEFINE top == IF n = Last + 1 THEN Last ELSE n
<1>1. CASE n = 0
  BY <1>1 DEF NextSerial
<1>2. CASE n # 0
  <2>1. top \in Serials(d) /\ Serials(d) # {} /\ top \in Nat
    BY <1>2
  <2>2. ASSUME NEW t \in Serials(d) \ {top} PROVE TextAfter(top, t)
    <3>1. CASE n # Last + 1
      BY <1>2, <2>2, <3>1 DEF TextAfter
    <3>2. CASE n = Last + 1
      BY <2>2, <3>2 DEF TextAfter
    <3>3. QED
      BY <3>1, <3>2
  <2>3. ASSUME NEW s \in Serials(d), \A t \in Serials(d) \ {s} : TextAfter(s, t), s # top
        PROVE  FALSE
    <3>1. TextAfter(s, top)
      BY <2>1, <2>3
    <3>2. CASE n # Last + 1
      BY <1>2, <2>3, <3>1, <3>2 DEF TextAfter
    <3>3. CASE n = Last + 1
      BY <2>3, <3>1, <3>3 DEF TextAfter
    <3>4. QED
      BY <3>2, <3>3
  <2>4. LatestSerial(d) = top
    BY <2>1, <2>2, <2>3 DEF LatestSerial
  <2>5. QED
    BY <2>1, <2>4 DEF NextSerial
<1>3. QED
  BY <1>1, <1>2

----------------------------------------------------------------------------
(* What a step does to the rows *)

Rows == [id : Ids, scope : Scopes, forced : BOOLEAN]

Inserts(c) ==
    /\ pc[c] = "insert" /\ ~Taken(held[c])
    /\ rows' = Append(rows, Row(c))

LEMMA RowsAre ==
    ASSUME TypeOK
    PROVE  /\ Len(rows) \in Nat
           /\ \A i \in 1..Len(rows) : rows[i] \in Rows
<1>1. rows \in Seq(Rows)
  BY DEF TypeOK, Rows
<1>2. QED
  BY <1>1

LEMMA Appended ==
    ASSUME TypeOK, NEW c \in Creators, rows' = Append(rows, Row(c))
    PROVE  /\ Len(rows') = Len(rows) + 1
           /\ \A i \in 1..Len(rows) : rows'[i] = rows[i]
           /\ rows'[Len(rows) + 1] = Row(c)
BY DEF TypeOK

LEMMA TakenAfter ==
    ASSUME TypeOK, NEW c \in Creators, rows' = Append(rows, Row(c)), NEW id
    PROVE  Taken(id)' <=> Taken(id) \/ id = held[c]
<1>1. Len(rows) \in Nat
  BY RowsAre
<1>2. 1..Len(rows') = 1..Len(rows) \cup {Len(rows) + 1}
  BY <1>1, Appended
<1>3. Row(c).id = held[c]
  BY DEF Row
<1>4. QED
  BY <1>1, <1>2, <1>3, Appended DEF Taken

LEMMA SerialsAfter ==
    ASSUME TypeOK, NEW c \in Creators, rows' = Append(rows, Row(c)), NEW d
    PROVE  Serials(d)' = IF held[c].day = d THEN Serials(d) \cup {held[c].serial}
                         ELSE Serials(d)
<1>1. Len(rows) \in Nat
  BY RowsAre
<1>2. 1..Len(rows') = 1..Len(rows) \cup {Len(rows) + 1}
  BY <1>1, Appended
<1>3. Row(c).id = held[c]
  BY DEF Row
<1>4. \A i \in 1..Len(rows) : rows'[i].id = rows[i].id
  BY Appended
<1>5. rows'[Len(rows) + 1].id = held[c]
  BY <1>3, Appended
<1>6. QED
  BY <1>1, <1>2, <1>4, <1>5 DEF Serials

\* Which steps insert, and what each step leaves alone.
LEMMA RowsKept ==
    ASSUME TypeOK, [Next]_vars
    PROVE  UNCHANGED rows \/ \E c \in Creators : Insert(c) /\ Inserts(c)
<1>1. CASE Next
  BY <1>1 DEF Next, NextDay, Create, Request, TakeSerial, TakeName, Find, Prepare,
     Insert, Answer, Abort, Inserts, At
<1>2. CASE UNCHANGED vars
  BY <1>2 DEF vars
<1>3. QED
  BY <1>1, <1>2

LEMMA TakenStays ==
    ASSUME TypeOK, [Next]_vars, NEW id, Taken(id)
    PROVE  Taken(id)'
<1>1. CASE UNCHANGED rows
  BY <1>1 DEF Taken
<1>2. CASE \E c \in Creators : Inserts(c)
  BY <1>2, TakenAfter DEF Inserts
<1>3. QED
  BY <1>1, <1>2, RowsKept

----------------------------------------------------------------------------
(* Typing, and the order of a day's serials *)

\* The serials of a day are 1..n.
InOrder == \A d \in 1..MaxDay : \E n \in 0..(Last + 1) : Serials(d) = 1..n

\* A serial is the next one of its day until somebody inserts it.
Fresh(c) ==
    pc[c] \in {"find", "prepare", "insert"} =>
        IF want[c].named
        THEN held[c].day = 0
        ELSE /\ held[c].day \in 1..MaxDay
             /\ Taken(held[c]) \/ held[c].serial = NextSerial(held[c].day)

OrderInv == TypeOK /\ InOrder /\ \A c \in Creators : Fresh(c)

LEMMA NextIsNatural ==
    ASSUME InOrder, NEW d \in 1..MaxDay
    PROVE  NextSerial(d) \in Nat
<1>1. PICK n \in 0..(Last + 1) : Serials(d) = 1..n
  BY DEF InOrder
<1>2. QED
  BY <1>1, NextSerialAfter, PaddedSerials

LEMMA TypingStep ==
    ASSUME OrderInv, [Next]_vars
    PROVE  TypeOK'
<1> USE DEF TypeOK
<1>0. TypeOK /\ InOrder
  BY DEF OrderInv
<1>1. CASE UNCHANGED vars
  BY <1>0, <1>1 DEF vars
<1>2. CASE NextDay
  BY <1>0, <1>2, BoundsNatural DEF NextDay
<1>3. ASSUME NEW c \in Creators, Create(c) PROVE TypeOK'
  <2> USE <1>0 DEF GoTo, Locations, At
  <2>1. CASE Request(c)
    BY <2>1, BoundsNatural DEF Request
  <2>2. CASE TakeSerial(c)
    <3>1. NextTaskId \in Ids
      BY NextIsNatural DEF NextTaskId, Ids
    <3>2. QED
      BY <2>2, <3>1 DEF TakeSerial
  <2>3. CASE TakeName(c)
    <3>1. \A n \in Names : [day |-> 0, serial |-> n] \in Ids
      BY NamesNatural DEF Ids
    <3>2. QED
      BY <2>3, <3>1 DEF TakeName
  <2>4. CASE Find(c)
    BY <2>4 DEF Find
  <2>5. CASE Prepare(c)
    BY <2>5 DEF Prepare
  <2>6. CASE Insert(c)
    <3>1. Row(c) \in Rows
      BY DEF Row, Rows, Requests
    <3>2. rows' \in Seq(Rows)
      <4>1. rows \in Seq(Rows)
        BY DEF Rows
      <4>2. rows' = rows \/ rows' = Append(rows, Row(c))
        BY <2>6 DEF Insert
      <4>3. QED
        BY SMTT(30), <3>1, <4>1, <4>2
    <3>3. QED
      BY <2>6, <3>2 DEF Insert, Rows
  <2>7. CASE Answer(c)
    BY <2>7 DEF Answer
  <2>8. CASE Abort(c)
    BY <2>8 DEF Abort
  <2>9. QED
    BY <1>3, <2>1, <2>2, <2>3, <2>4, <2>5, <2>6, <2>7, <2>8 DEF Create
<1>4. QED
  BY <1>1, <1>2, <1>3 DEF Next

\* The one row a step can add is the next of its day, or has no day.
LEMMA InOrderStep ==
    ASSUME OrderInv, [Next]_vars
    PROVE  InOrder'
<1> DEFINE P(d) == \E n \in 0..(Last + 1) : Serials(d) = 1..n
<1>0. TypeOK /\ InOrder
  BY DEF OrderInv
<1>1. CASE UNCHANGED rows
  BY <1>0, <1>1 DEF InOrder, Serials
<1>2. ASSUME NEW c \in Creators, Insert(c), Inserts(c), NEW d \in 1..MaxDay PROVE P(d)'
  <2>1. PICK n \in 0..(Last + 1) : Serials(d) = 1..n
    BY <1>0 DEF InOrder
  <2>2. CASE held[c].day # d
    BY <1>0, <1>2, <2>1, <2>2, SerialsAfter DEF Inserts
  <2>3. CASE held[c].day = d
    <3>1. ~want[c].named /\ held[c].serial = NextSerial(d)
      BY <1>2, <2>3, BoundsNatural DEF Inserts, OrderInv, Fresh
    <3>2. Serials(d)' = 1..n \cup {NextSerial(d)}
      BY <1>0, <1>2, <2>1, <2>3, <3>1, SerialsAfter DEF Inserts
    <3>3. CASE n = Last + 1
      BY <2>1, <3>2, <3>3, NextSerialAfter, PaddedSerials
    <3>4. CASE n # Last + 1
      <4>1. Serials(d)' = 1..(n + 1) /\ n + 1 \in 0..(Last + 1)
        BY <2>1, <3>2, <3>4, NextSerialAfter, PaddedSerials
      <4>2. QED
        BY <4>1
    <3>5. QED
      BY <3>3, <3>4
  <2>4. QED
    BY <2>2, <2>3
<1>3. QED
  BY <1>0, <1>1, <1>2, RowsKept DEF InOrder

\* A creator past its look at the ids keeps the one it took.
LEMMA HeldKept ==
    ASSUME TypeOK, [Next]_vars, NEW c \in Creators, pc'[c] \in {"find", "prepare", "insert", "answer"}
    PROVE  \/ pc[c] = "take" /\ pc'[c] = "find" /\ UNCHANGED rows /\ want'[c] = want[c]
              /\ IF want[c].named THEN held'[c].day = 0 ELSE held'[c] = NextTaskId
           \/ /\ held'[c] = held[c] /\ want'[c] = want[c]
              /\ \/ pc'[c] = pc[c]
                 \/ pc[c] = "find" /\ pc'[c] = "prepare" /\ Find(c)
                 \/ pc[c] = "prepare" /\ pc'[c] = "insert" /\ Prepare(c)
                 \/ pc[c] = "insert" /\ pc'[c] = "answer" /\ Insert(c) /\ Inserts(c)
<1> USE DEF TypeOK, GoTo, At, Locations
<1>1. CASE UNCHANGED vars
  BY <1>1 DEF vars
<1>2. CASE NextDay
  BY <1>2 DEF NextDay
<1>3. ASSUME NEW e \in Creators, Create(e), e # c
      PROVE  held'[c] = held[c] /\ want'[c] = want[c] /\ pc'[c] = pc[c]
  BY <1>3 DEF Create, Request, TakeSerial, TakeName, Find, Prepare, Insert, Answer, Abort
<1>4. CASE Create(c)
  <2>1. CASE TakeSerial(c)
    BY <2>1 DEF TakeSerial
  <2>2. CASE TakeName(c)
    BY <2>2 DEF TakeName
  <2>3. CASE Find(c)
    BY <2>3 DEF Find
  <2>4. CASE Prepare(c)
    BY <2>4 DEF Prepare
  <2>5. CASE Insert(c)
    BY <2>5 DEF Insert, Inserts
  <2>6. CASE Request(c) \/ Answer(c) \/ Abort(c)
    BY <2>6 DEF Request, Answer, Abort
  <2>7. QED
    BY <1>4, <2>1, <2>2, <2>3, <2>4, <2>5, <2>6 DEF Create
<1>5. QED
  BY <1>1, <1>2, <1>3, <1>4 DEF Next

\* The next serial of a day changes only when it is inserted.
LEMMA FreshStep ==
    ASSUME OrderInv, [Next]_vars, NEW c \in Creators
    PROVE  Fresh(c)'
<1> SUFFICES ASSUME pc'[c] \in {"find", "prepare", "insert"}
             PROVE  IF want'[c].named
                    THEN held'[c].day = 0
                    ELSE /\ held'[c].day \in 1..MaxDay
                         /\ Taken(held[c])' \/ held'[c].serial = NextSerial(held[c].day)'
  BY DEF Fresh
<1>0. TypeOK /\ InOrder /\ Fresh(c)
  BY DEF OrderInv
<1>1. CASE /\ UNCHANGED rows /\ want'[c] = want[c]
           /\ IF want[c].named THEN held'[c].day = 0 ELSE held'[c] = NextTaskId
  <2>1. \A d : NextSerial(d)' = NextSerial(d)
    BY <1>1 DEF NextSerial, LatestSerial, Serials
  <2>2. CASE want[c].named
    BY <1>1, <2>2
  <2>3. CASE ~want[c].named
    <3>1. held'[c].day = today /\ held'[c].serial = NextSerial(today)
      BY <1>1, <2>3 DEF NextTaskId
    <3>2. NextSerial(held[c].day)' = NextSerial(today)
      BY <1>1, <3>1 DEF NextSerial, LatestSerial, Serials
    <3>3. QED
      BY <1>0, <1>1, <2>3, <3>1, <3>2 DEF TypeOK
  <2>4. QED
    BY <2>2, <2>3
<1>2. CASE held'[c] = held[c] /\ want'[c] = want[c] /\ pc[c] \in {"find", "prepare", "insert"}
  <2>1. CASE want[c].named
    BY <1>0, <1>2, <2>1 DEF Fresh
  <2>2. CASE ~want[c].named /\ Taken(held[c])
    <3>1. Taken(held[c])'
      <4>1. \A id : Taken(id) => Taken(id)'
        BY <1>0, TakenStays
      <4>2. QED
        BY <1>2, <2>2, <4>1 DEF Taken
    <3>2. QED
      BY <1>0, <1>2, <2>2, <3>1 DEF Fresh
  <2>3. CASE ~want[c].named /\ ~Taken(held[c]) /\ UNCHANGED rows
    <3>1. NextSerial(held[c].day)' = NextSerial(held[c].day)
      BY <1>2, <2>3 DEF NextSerial, LatestSerial, Serials
    <3>2. QED
      BY <1>0, <1>2, <2>3, <3>1 DEF Fresh
  <2>4. ASSUME NEW e \in Creators, Inserts(e), ~want[c].named, ~Taken(held[c]) PROVE
        /\ held'[c].day \in 1..MaxDay
        /\ Taken(held[c])' \/ held'[c].serial = NextSerial(held[c].day)'
    <3>1. held[c].day \in 1..MaxDay /\ held[c].serial = NextSerial(held[c].day)
      BY <1>0, <1>2, <2>4 DEF Fresh
    <3>2. CASE held[e].day # held[c].day
      <4>1. PICK d : d = held[c].day
        OBVIOUS
      <4>2. Serials(d)' = Serials(d)
        BY <1>0, <2>4, <3>2, <4>1, SerialsAfter DEF Inserts
      <4>3. NextSerial(d)' = NextSerial(d)
        BY <4>2 DEF NextSerial, LatestSerial
      <4>4. NextSerial(held[c].day)' = NextSerial(d)'
        BY <1>2, <4>1 DEF NextSerial, LatestSerial, Serials
      <4>5. QED
        BY <1>2, <3>1, <4>1, <4>3, <4>4
    <3>3. CASE held[e].day = held[c].day
      <4>1. ~want[e].named /\ held[e].serial = NextSerial(held[e].day)
        BY <2>4, <3>1, <3>3, BoundsNatural DEF Inserts, OrderInv, Fresh
      <4>2. held[e] = held[c]
        <5>1. held[e].serial = held[c].serial
          BY <3>1, <3>3, <4>1
        <5>2. held[e] \in Ids /\ held[c] \in Ids
          BY <1>0 DEF TypeOK
        <5>3. QED
          BY <3>3, <5>1, <5>2 DEF Ids
      <4>3. \A id : id = held[e] => Taken(id)'
        BY <1>0, <2>4, TakenAfter DEF Inserts
      <4>4. Taken(held[c])'
        BY <1>2, <4>2, <4>3 DEF Taken
      <4>5. QED
        BY <1>2, <3>1, <4>4
    <3>4. QED
      BY <3>2, <3>3
  <2>5. QED
    BY <1>0, <1>2, <2>1, <2>2, <2>3, <2>4, RowsKept
<1>3. QED
  BY <1>0, <1>1, <1>2, HeldKept

LEMMA OrderInvariant == Spec => []OrderInv
<1>1. Init => OrderInv
  <2> SUFFICES ASSUME Init PROVE OrderInv
    OBVIOUS
  <2>1. TypeOK
    BY BoundsNatural DEF Init, TypeOK, Ids, Locations
  <2>2. \A d : Serials(d) = 1..0
    BY DEF Init, Serials
  <2>3. InOrder
    <3>1. 0 \in 0..(Last + 1)
      BY PaddedSerials
    <3>2. QED
      BY <2>2, <3>1 DEF InOrder
  <2>4. \A c \in Creators : Fresh(c)
    BY DEF Init, Fresh
  <2>5. QED
    BY <2>1, <2>3, <2>4 DEF OrderInv
<1>2. OrderInv /\ [Next]_vars => OrderInv'
  BY TypingStep, InOrderStep, FreshStep DEF OrderInv
<1>3. QED
  BY <1>1, <1>2, PTL DEF Spec

\* Every reachable state is well typed; next_task_id in particular always
\* finds a highest number to add one to.
THEOREM Typing == Spec => []TypeOK
<1>1. OrderInv => TypeOK
  BY DEF OrderInv
<1>2. QED
  BY <1>1, OrderInvariant, PTL

----------------------------------------------------------------------------
(* One task per request *)

\* Two creators that may still insert a task of one day hold the same id.
LEMMA SameDaySameId ==
    ASSUME OrderInv, NEW c \in Creators, NEW e \in Creators,
           pc[c] \in {"find", "prepare", "insert"}, ~want[c].named, ~Taken(held[c]),
           pc[e] \in {"find", "prepare", "insert"}, ~Taken(held[e]),
           held[e].day = held[c].day
    PROVE  held[e] = held[c]
<1>1. Fresh(c) /\ Fresh(e) /\ TypeOK
  BY DEF OrderInv
<1>2. held[c].day \in 1..MaxDay /\ held[c].serial = NextSerial(held[c].day)
  BY <1>1 DEF Fresh
<1>3. ~want[e].named /\ held[e].serial = NextSerial(held[e].day)
  BY <1>1, <1>2, BoundsNatural DEF Fresh
<1>4. held[e].serial = held[c].serial
  BY <1>2, <1>3
<1>5. held[e] \in Ids /\ held[c] \in Ids
  BY <1>1 DEF TypeOK
<1>6. QED
  BY <1>4, <1>5 DEF Ids

\* After its search, no task of its day answers the request a creator serves,
\* or somebody was faster and its insertion is going to be refused.
Alone(c) ==
    (pc[c] \in {"prepare", "insert"} /\ ~want[c].named /\ ~want[c].forced) =>
        \/ Taken(held[c])
        \/ \A i \in 1..Len(rows) :
              rows[i].id.day = held[c].day => rows[i].scope # want[c].scope

OneTaskInv == OrderInv /\ OneTaskPerRequest /\ \A c \in Creators : Alone(c)

LEMMA AloneStep ==
    ASSUME OneTaskInv, [Next]_vars, NEW c \in Creators
    PROVE  Alone(c)'
<1> SUFFICES ASSUME pc'[c] \in {"prepare", "insert"}, ~want'[c].named, ~want'[c].forced
             PROVE  \/ Taken(held[c])'
                    \/ \A i \in 1..Len(rows') :
                          rows'[i].id.day = held'[c].day => rows'[i].scope # want'[c].scope
  BY DEF Alone
<1>0. TypeOK /\ OrderInv /\ Alone(c)
  BY DEF OneTaskInv, OrderInv
<1>1. CASE pc[c] = "find" /\ Find(c)
  BY <1>0, <1>1 DEF Find, GoTo, Equivalent, TypeOK
<1>2. CASE /\ held'[c] = held[c] /\ want'[c] = want[c]
           /\ pc[c] \in {"prepare", "insert"}
  <2>1. CASE Taken(held[c])
    <3>1. \A id : Taken(id) => Taken(id)'
      BY <1>0, TakenStays
    <3>2. QED
      BY <1>2, <2>1, <3>1 DEF Taken
  <2>2. CASE ~Taken(held[c]) /\ UNCHANGED rows
    BY <1>0, <1>2, <2>2 DEF Alone
  <2>3. ASSUME NEW e \in Creators, Inserts(e), ~Taken(held[c])
        PROVE  \/ Taken(held[c])'
               \/ \A i \in 1..Len(rows') :
                     rows'[i].id.day = held'[c].day => rows'[i].scope # want'[c].scope
    <3>1. CASE held[e].day = held[c].day
      <4>1. held[e] = held[c]
        BY <1>0, <1>2, <2>3, <3>1, SameDaySameId DEF Inserts
      <4>2. \A id : id = held[e] => Taken(id)'
        BY <1>0, <2>3, TakenAfter DEF Inserts
      <4>3. QED
        BY <1>2, <4>1, <4>2 DEF Taken
    <3>2. CASE held[e].day # held[c].day
      <4>1. Row(e).id = held[e]
        BY DEF Row
      <4>2. /\ Len(rows) \in Nat /\ Len(rows') = Len(rows) + 1
            /\ \A i \in 1..Len(rows) : rows'[i] = rows[i]
            /\ rows'[Len(rows) + 1].id = held[e]
        BY <1>0, <2>3, <4>1, RowsAre, Appended DEF Inserts
      <4>3. \A i \in 1..Len(rows) :
               rows[i].id.day = held[c].day => rows[i].scope # want[c].scope
        BY <1>0, <1>2, <2>3 DEF Alone
      <4>4. QED
        BY <1>2, <3>2, <4>2, <4>3
    <3>3. QED
      BY <3>1, <3>2
  <2>4. QED
    BY <1>0, <2>1, <2>2, <2>3, RowsKept
<1>3. QED
  BY <1>0, <1>1, <1>2, HeldKept

LEMMA OneTaskStep ==
    ASSUME OneTaskInv, [Next]_vars
    PROVE  OneTaskPerRequest'
<1>0. TypeOK /\ OrderInv /\ OneTaskPerRequest
  BY DEF OneTaskInv, OrderInv
<1>1. CASE UNCHANGED rows
  BY <1>0, <1>1 DEF OneTaskPerRequest
<1>2. ASSUME NEW c \in Creators, Inserts(c) PROVE OneTaskPerRequest'
  <2>1. /\ Len(rows) \in Nat /\ Len(rows') = Len(rows) + 1
        /\ \A i \in 1..Len(rows) : rows'[i] = rows[i]
        /\ rows'[Len(rows) + 1] = Row(c)
    BY <1>0, <1>2, RowsAre, Appended DEF Inserts
  <2>2. ASSUME NEW i \in 1..Len(rows), rows[i].scope = want[c].scope,
               rows[i].id.day = held[c].day, held[c].day > 0
        PROVE  want[c].forced
    <3>1. ~want[c].named
      BY <1>2, <2>2 DEF OneTaskInv, OrderInv, Fresh, Inserts
    <3>2. QED
      BY <1>2, <2>2, <3>1 DEF OneTaskInv, Alone, Inserts
  <2>3. QED
    BY <1>0, <2>1, <2>2 DEF OneTaskPerRequest, Row
<1>3. QED
  BY <1>0, <1>1, <1>2, RowsKept

\* Requests that race for one task create it once: of the tasks numbered on a
\* day, a second one for the same request was forced.
THEOREM OneTask == Spec => []OneTaskPerRequest
<1>1. Init => OneTaskPerRequest /\ \A c \in Creators : Alone(c)
  BY DEF Init, OneTaskPerRequest, Alone
<1>2. (OrderInv /\ OneTaskInv) /\ [Next]_vars /\ OrderInv' => OneTaskInv'
  BY AloneStep, OneTaskStep DEF OneTaskInv
<1>3. Init /\ OrderInv => OneTaskInv
  BY <1>1 DEF OneTaskInv
<1>4. OneTaskInv => OneTaskPerRequest
  BY DEF OneTaskInv
<1>5. QED
  BY <1>2, <1>3, <1>4, OrderInvariant, PTL DEF Spec

----------------------------------------------------------------------------
(* The agent of a task *)

\* Who is about to answer created the task, and alone.
Ready(c) ==
    /\ pc[c] = "insert" => held[c] \in workspaces
    /\ pc[c] = "answer" =>
          /\ Taken(held[c])
          /\ held[c] \in workspaces
          /\ \A i \in 1..Len(agents) : agents[i] # held[c]
          /\ \A e \in Creators : pc[e] = "answer" /\ held[e] = held[c] => e = c

AgentInv == TypeOK /\ AgentFindsItsTask /\ \A c \in Creators : Ready(c)

LEMMA AgentsAfter ==
    ASSUME TypeOK, [Next]_vars
    PROVE  /\ workspaces \subseteq workspaces'
           /\ \/ UNCHANGED agents
              \/ \E c \in Creators : Answer(c) /\ agents' = Append(agents, held[c])
<1>1. CASE UNCHANGED vars
  BY <1>1 DEF vars
<1>2. CASE NextDay
  BY <1>2 DEF NextDay
<1>3. ASSUME NEW c \in Creators, Create(c)
      PROVE  /\ workspaces \subseteq workspaces'
             /\ \/ UNCHANGED agents
                \/ Answer(c) /\ agents' = Append(agents, held[c])
  <2>1. CASE Answer(c)
    <3>1. UNCHANGED agents \/ agents' = Append(agents, held[c])
      BY <2>1 DEF Answer
    <3>2. UNCHANGED workspaces
      BY <2>1 DEF Answer
    <3>3. QED
      BY <2>1, <3>1, <3>2
  <2>2. CASE ~Answer(c)
    BY <1>3, <2>2 DEF Create, Request, TakeSerial, TakeName, Find, Prepare, Insert, Abort
  <2>3. QED
    BY <2>1, <2>2
<1>4. QED
  BY <1>1, <1>2, <1>3 DEF Next

LEMMA ReadyStep ==
    ASSUME AgentInv, [Next]_vars, NEW c \in Creators
    PROVE  Ready(c)'
<1>0. TypeOK /\ AgentFindsItsTask /\ Ready(c)
  BY DEF AgentInv
<1>1. workspaces \subseteq workspaces'
  BY <1>0, AgentsAfter
<1>2. ASSUME pc'[c] = "insert" PROVE held'[c] \in workspaces'
  <2>1. CASE pc[c] = "insert" /\ held'[c] = held[c]
    BY <1>0, <1>1, <2>1 DEF Ready
  <2>2. CASE Prepare(c) /\ held'[c] = held[c]
    BY <2>2 DEF Prepare
  <2>3. QED
    BY <1>0, <1>2, <2>1, <2>2, HeldKept
<1>3. ASSUME pc'[c] = "answer" PROVE
      /\ Taken(held[c])'
      /\ held'[c] \in workspaces'
      /\ \A i \in 1..Len(agents') : agents'[i] # held'[c]
      /\ \A e \in Creators : pc'[e] = "answer" /\ held'[e] = held'[c] => e = c
  <2>1. held'[c] = held[c]
    BY <1>0, <1>3, HeldKept
  <2>2. CASE pc[c] = "answer"
    <3>1. Taken(held[c])'
      <4>1. \A id : Taken(id) => Taken(id)'
        BY <1>0, TakenStays
      <4>2. QED
        BY <1>0, <2>1, <2>2, <4>1 DEF Ready, Taken
    <3>2. \A i \in 1..Len(agents') : agents'[i] # held[c]
      <4>1. CASE UNCHANGED agents
        BY <1>0, <2>2, <4>1 DEF Ready
      <4>2. ASSUME NEW e \in Creators, Answer(e), agents' = Append(agents, held[e])
            PROVE  \A i \in 1..Len(agents') : agents'[i] # held[c]
        <5>1. held[e] # held[c]
          BY <1>0, <1>3, <2>2, <4>2 DEF Ready, Answer, At, GoTo, TypeOK
        <5>2. QED
          BY <1>0, <2>2, <4>2, <5>1 DEF Ready, TypeOK
      <4>3. QED
        BY <1>0, <4>1, <4>2, AgentsAfter
    <3>3. ASSUME NEW e \in Creators, pc'[e] = "answer", held'[e] = held[c] PROVE e = c
      <4>1. Taken(held[c])
        BY <1>0, <2>2 DEF Ready
      <4>2. pc[e] = "answer" /\ held[e] = held[c]
        BY <1>0, <3>3, <4>1, HeldKept DEF Inserts
      <4>3. QED
        BY <1>0, <2>2, <4>2 DEF Ready
    <3>4. QED
      BY <1>0, <1>1, <2>1, <2>2, <3>1, <3>2, <3>3 DEF Ready
  <2>3. CASE Insert(c) /\ Inserts(c)
    <3>1. Taken(held[c])'
      <4>1. \A id : id = held[c] => Taken(id)'
        BY <1>0, <2>3, TakenAfter DEF Inserts
      <4>2. QED
        BY <2>1, <4>1 DEF Taken
    <3>2. held[c] \in workspaces'
      BY <1>0, <1>1, <2>3 DEF Ready, Inserts
    <3>3. \A i \in 1..Len(agents') : agents'[i] # held[c]
      BY <1>0, <2>3 DEF AgentFindsItsTask, Insert, Inserts
    <3>4. ASSUME NEW e \in Creators, pc'[e] = "answer", held'[e] = held[c], e # c PROVE FALSE
      <4>1. pc[e] = "answer" /\ held[e] = held[c]
        BY <1>0, <2>3, <3>4 DEF Insert, GoTo, TypeOK
      <4>2. Taken(held[e])
        BY <4>1 DEF AgentInv, Ready
      <4>3. QED
        BY <2>3, <4>1, <4>2 DEF Inserts
    <3>5. QED
      BY <2>1, <3>1, <3>2, <3>3, <3>4
  <2>4. QED
    BY <1>0, <1>3, <2>2, <2>3, HeldKept
<1>4. QED
  BY <1>2, <1>3 DEF Ready

LEMMA AgentsStep ==
    ASSUME AgentInv, [Next]_vars
    PROVE  AgentFindsItsTask'
<1>0. TypeOK /\ AgentFindsItsTask
  BY DEF AgentInv
<1>1. \A id : Taken(id) => Taken(id)'
  BY <1>0, TakenStays
<1>2. workspaces \subseteq workspaces'
  BY <1>0, AgentsAfter
<1>3. CASE UNCHANGED agents
  BY <1>0, <1>1, <1>2, <1>3 DEF AgentFindsItsTask, Taken
<1>4. ASSUME NEW c \in Creators, Answer(c), agents' = Append(agents, held[c])
      PROVE  AgentFindsItsTask'
  <2>1. /\ Len(agents) \in Nat /\ Len(agents') = Len(agents) + 1
        /\ \A i \in 1..Len(agents) : agents'[i] = agents[i]
        /\ agents'[Len(agents) + 1] = held[c]
    BY <1>0, <1>4 DEF TypeOK
  <2>2. /\ Taken(held[c]) /\ held[c] \in workspaces
        /\ \A i \in 1..Len(agents) : agents[i] # held[c]
    BY <1>4 DEF AgentInv, Ready, Answer, At
  <2>3. ASSUME NEW i \in 1..Len(agents') PROVE Taken(agents[i])' /\ agents'[i] \in workspaces'
    <3>1. PICK id : id = agents'[i]
      OBVIOUS
    <3>2. Taken(id) /\ id \in workspaces
      BY <1>0, <2>1, <2>2, <3>1 DEF AgentFindsItsTask
    <3>3. Taken(id)' /\ id \in workspaces'
      BY <1>1, <1>2, <3>2
    <3>4. QED
      BY <3>1, <3>3 DEF Taken
  <2>4. \A i, j \in 1..Len(agents') : agents'[j] = agents'[i] => j = i
    BY <1>0, <2>1, <2>2 DEF AgentFindsItsTask
  <2>5. QED
    BY <2>3, <2>4 DEF AgentFindsItsTask
<1>5. QED
  BY <1>0, <1>3, <1>4, AgentsAfter

\* However requests race, repeat and die, a task gets at most one agent, and
\* the agent finds the row and the workspace.
THEOREM AgentFinds == Spec => []AgentFindsItsTask
<1>1. Init => AgentFindsItsTask /\ \A c \in Creators : Ready(c)
  BY DEF Init, AgentFindsItsTask, Ready
<1>2. AgentInv /\ [Next]_vars /\ TypeOK' => AgentInv'
  BY ReadyStep, AgentsStep DEF AgentInv
<1>3. Init /\ TypeOK => AgentInv
  BY <1>1 DEF AgentInv
<1>4. AgentInv => AgentFindsItsTask
  BY DEF AgentInv
<1>5. QED
  BY <1>2, <1>3, <1>4, Typing, PTL DEF Spec

----------------------------------------------------------------------------
(* The patch *)

Least(f) ==
    /\ FirstKept(f) \subseteq kept[f]
    /\ \A S \in SUBSET HunksOf(f) : SelfContained(f, S) => kept[f] \subseteq S

Behind(f) == f < file

Settled(f) ==
    (recipe = "section_change_avoidance_rewrite" /\ Behind(f))
        => RequiredBy(f, kept[f]) = {}

\* The written patch is the selected one, or the whole one if that is empty.
Selected ==
    \/ \A f \in Files : Least(f)
    \/ report.written /\ ~report.effective

Closed ==
    \A f \in Files :
        \/ Settled(f)
        \/ report.written /\ kept[f] = HunksOf(f)

RewriteInv ==
    /\ RewriteTypeOK
    /\ Selected
    /\ Closed
    /\ report.gap = FALSE
    /\ report.written => file = Len(patch) + 1

LEMMA PatchIsSeq ==
    ASSUME RewriteTypeOK
    PROVE  /\ Len(patch) \in Nat
           /\ Files = 1..Len(patch)
  <1>1. patch \in Seq(Seq(Hunks))
    BY PatchesAreFiles DEF RewriteTypeOK
  <1> QED
    BY <1>1 DEF Files

LEMMA FirstKeptAreHunks ==
    ASSUME NEW f \in Files
    PROVE  FirstKept(f) \subseteq HunksOf(f)
  BY DEF FirstKept

\* A whole file leaves nothing out.
LEMMA WholeNeedsNothing ==
    ASSUME NEW f \in Files
    PROVE  RequiredBy(f, HunksOf(f)) = {}
  BY DEF RequiredBy

LEMMA Initially == ASSUME RewriteInit PROVE RewriteInv
  <1>1. RewriteTypeOK
    <2>1. patch \in Seq(Seq(Hunks))
      BY PatchesAreFiles DEF RewriteInit
    <2>2. Len(patch) \in Nat
      BY <2>1
    <2>3. file \in 1..(Len(patch) + 1)
      BY <2>2 DEF RewriteInit
    <2>4. report \in Reports
      BY DEF RewriteInit, NoReport, Reports
    <2> QED
      BY <2>3, <2>4, FirstKeptAreHunks DEF RewriteTypeOK, RewriteInit
  <1>2. Selected
    BY DEF Selected, Least, SelfContained, RewriteInit
  <1>3. Closed
    <2>1. \A f \in Files : ~Behind(f)
      BY <1>1, PatchIsSeq DEF Behind, RewriteInit
    <2> QED
      BY <2>1 DEF Closed, Settled
  <1> QED
    BY <1>1, <1>2, <1>3 DEF RewriteInv, RewriteInit, NoReport

\* A self-contained set holds whatever a pass takes back.
LEMMA PassStaysLeast ==
    ASSUME NEW f \in Files, NEW K \in SUBSET HunksOf(f), NEW S \in SUBSET HunksOf(f),
           K \subseteq S, SelfContained(f, S)
    PROVE  K \cup RequiredBy(f, K) \subseteq S
  <1> SUFFICES ASSUME NEW i \in RequiredBy(f, K), i \notin S PROVE FALSE
    OBVIOUS
  <1>1. Mentioned(f, K) \subseteq Mentioned(f, S)
    BY DEF Mentioned
  <1>2. i \in RequiredBy(f, S)
    BY <1>1 DEF RequiredBy
  <1> QED
    BY <1>2 DEF SelfContained

LEMMA PassKeepsInv == ASSUME RewriteInv, KeepRequired PROVE RewriteInv'
  <1> USE DEF KeepRequired
  <1>0. /\ kept[file] \subseteq HunksOf(file)
        /\ DOMAIN kept = Files
        /\ file \in Files
        /\ ~report.written
    BY DEF RewriteInv, RewriteTypeOK
  <1>1. kept' = [kept EXCEPT ![file] = kept[file] \cup RequiredBy(file, kept[file])]
    OBVIOUS
  <1>2. RequiredBy(file, kept[file]) \subseteq HunksOf(file)
    BY DEF RequiredBy
  <1>3. RewriteTypeOK'
    BY <1>0, <1>1, <1>2 DEF RewriteInv, RewriteTypeOK, Files, HunksOf
  <1>4. \A f \in Files : Least(f)
    BY <1>0 DEF RewriteInv, Selected
  <1>5. \A f \in Files : Least(f)'
    <2> SUFFICES ASSUME NEW f \in Files PROVE Least(f)'
      OBVIOUS
    <2>1. CASE f # file
      <3>1. kept'[f] = kept[f]
        BY <2>1, <1>0, <1>1
      <3> QED
        BY <3>1, <1>4 DEF Least, FirstKept, SelfContained, RequiredBy, Mentioned, HunksOf
    <2>2. CASE f = file
      <3>1. kept'[f] = kept[f] \cup RequiredBy(f, kept[f])
        BY <2>2, <1>0, <1>1
      <3>2. FirstKept(f) \subseteq kept'[f]
        BY <3>1, <1>4 DEF Least
      <3>3. ASSUME NEW S \in SUBSET HunksOf(f), SelfContained(f, S)
            PROVE  kept'[f] \subseteq S
        <4>1. kept[f] \subseteq S
          BY <3>3, <1>4 DEF Least
        <4> QED
          BY <4>1, <3>1, <3>3, <2>2, <1>0, PassStaysLeast
      <3>4. /\ HunksOf(f)' = HunksOf(f)
            /\ FirstKept(f)' = FirstKept(f)
        BY DEF HunksOf, FirstKept
      <3>5. \A S : SelfContained(f, S)' <=> SelfContained(f, S)
        BY <3>4 DEF SelfContained, RequiredBy, Mentioned, HunksOf
      <3>6. \A S \in SUBSET HunksOf(f) : SelfContained(f, S)' => kept'[f] \subseteq S
        BY <3>3, <3>5
      <3> HIDE DEF KeepRequired
      <3> QED
        BY <3>2, <3>4, <3>6 DEF Least
    <2> QED
      BY <2>1, <2>2
  <1>6. Closed'
    <2> SUFFICES ASSUME NEW f \in Files PROVE Settled(f)'
      BY DEF Closed, Files
    <2>1. CASE f < file
      <3>1. kept'[f] = kept[f]
        BY <2>1, <1>0, <1>1, PatchIsSeq DEF RewriteInv
      <3>2. Settled(f)
        BY <1>0 DEF RewriteInv, Closed
      <3> QED
        BY <3>1, <3>2, <2>1 DEF Settled, Behind, RequiredBy, Mentioned, HunksOf
    <2>2. CASE ~(f < file)
      BY <2>2 DEF Settled, Behind
    <2> QED
      BY <2>1, <2>2
  <1> QED
    BY <1>0, <1>3, <1>5, <1>6 DEF RewriteInv, Selected, Files

LEMMA NextKeepsInv == ASSUME RewriteInv, NextFile PROVE RewriteInv'
  <1> USE DEF NextFile
  <1>0. /\ Len(patch) \in Nat
        /\ Files = 1..Len(patch)
        /\ file \in Files
        /\ ~report.written
    BY PatchIsSeq DEF RewriteInv
  <1>1. RewriteTypeOK'
    BY <1>0 DEF RewriteInv, RewriteTypeOK, Files, HunksOf
  <1>2. Selected'
    <2>1. \A f \in Files : Least(f)
      BY <1>0 DEF RewriteInv, Selected
    <2> QED
      BY <2>1 DEF Selected, Least, FirstKept, SelfContained, RequiredBy, Mentioned,
                  HunksOf, Files
  <1>3. Closed'
    <2> SUFFICES ASSUME NEW f \in Files PROVE Settled(f)'
      BY DEF Closed, Files
    <2>1. CASE f < file
      <3>1. Settled(f)
        BY <1>0 DEF RewriteInv, Closed
      <3> QED
        BY <3>1, <2>1 DEF Settled, Behind, RequiredBy, Mentioned, HunksOf
    <2>2. CASE f = file
      BY <2>2 DEF Settled, RequiredBy, Mentioned, HunksOf
    <2>3. CASE f > file
      BY <2>3, <1>0 DEF Settled, Behind
    <2> QED
      BY <2>1, <2>2, <2>3, <1>0
  <1> QED
    BY <1>0, <1>1, <1>2, <1>3 DEF RewriteInv

LEMMA WriteKeepsInv == ASSUME RewriteInv, WritePatch PROVE RewriteInv'
  <1> USE DEF WritePatch
  <1>0. /\ Len(patch) \in Nat
        /\ Files = 1..Len(patch)
        /\ file = Len(patch) + 1
        /\ ~report.written
    BY PatchIsSeq DEF RewriteInv, RewriteTypeOK
  <1>1. RewriteTypeOK'
    <2>1. report' \in Reports
      BY DEF Reports, Effective, Altered, Whole, Unresolved
    <2>2. DOMAIN kept' = Files /\ \A f \in Files : kept'[f] \subseteq HunksOf(f)
      BY DEF RewriteInv, RewriteTypeOK
    <2> QED
      BY <2>1, <2>2 DEF RewriteInv, RewriteTypeOK, Files, HunksOf
  <1>2. \A f \in Files : Least(f)
    BY <1>0 DEF RewriteInv, Selected
  <1>3. Selected'
    <2>1. CASE NothingKept
      BY <2>1 DEF Selected, Effective
    <2>2. CASE ~NothingKept
      BY <2>2, <1>2 DEF Selected, Least, FirstKept, SelfContained, RequiredBy, Mentioned,
                        HunksOf, Files
    <2> QED
      BY <2>1, <2>2
  <1>4. \A f \in Files : Settled(f)
    BY <1>0 DEF RewriteInv, Closed
  <1>5. Closed'
    <2>1. CASE NothingKept
      BY <2>1 DEF Closed, Files, HunksOf
    <2>2. CASE ~NothingKept
      BY <2>2, <1>4 DEF Closed, Settled, Behind, RequiredBy, Mentioned, HunksOf, Files
    <2> QED
      BY <2>1, <2>2
  <1>6. report'.gap = FALSE
    <2>1. \A f \in Files : Behind(f)
      BY <1>0 DEF Behind
    <2> QED
      BY <2>1, <1>4 DEF Unresolved, Settled
  <1> QED
    BY <1>0, <1>1, <1>3, <1>5, <1>6 DEF RewriteInv

LEMMA StutterKeepsInv == ASSUME RewriteInv, UNCHANGED rewriteVars PROVE RewriteInv'
  BY DEF RewriteInv, RewriteTypeOK, Selected, Closed, Least, Settled, Behind, FirstKept,
         SelfContained, RequiredBy, Mentioned, HunksOf, Files, rewriteVars

\* The invariant behind the three theorems.
THEOREM RewriteInvariant == RewriteSpec => []RewriteInv
  <1>1. RewriteInv /\ [RewriteNext]_rewriteVars => RewriteInv'
    BY PassKeepsInv, NextKeepsInv, WriteKeepsInv, StutterKeepsInv DEF RewriteNext
  <1> QED
    BY Initially, <1>1, PTL DEF RewriteSpec

\* Type correctness, for any patches (RewriteExecutor.execute).
THEOREM RewriteTyping == RewriteSpec => []RewriteTypeOK
  <1>1. RewriteInv => RewriteTypeOK
    BY DEF RewriteInv
  <1> QED
    BY RewriteInvariant, <1>1, PTL

\* The shrunk patch is the least self-contained one, whatever its hunks define
\* and mention and however many passes that took
\* (_preserve_required_dependencies).
THEOREM ShrunkPatchIsLeast == RewriteSpec => []ShrunkToLeast
  <1>1. RewriteInv => ShrunkToLeast
    <2> SUFFICES ASSUME RewriteInv, Shrunk, report.effective, NEW f \in Files
                 PROVE  /\ SelfContained(f, kept[f])
                        /\ \A S \in SUBSET HunksOf(f) :
                              SelfContained(f, S) => kept[f] \subseteq S
      BY DEF ShrunkToLeast
    <2>1. Least(f)
      BY DEF RewriteInv, Selected
    <2>2. RequiredBy(f, kept[f]) = {}
      <3>1. Behind(f)
        BY PatchIsSeq DEF RewriteInv, Shrunk, Behind
      <3> QED
        BY <3>1, WholeNeedsNothing DEF RewriteInv, Closed, Settled, Shrunk
    <2> QED
      BY <2>1, <2>2 DEF Least, SelfContained
  <1> QED
    BY RewriteInvariant, <1>1, PTL

\* No report of a rewrite shows a dependency gap (_unresolved_dependencies).
THEOREM NoGapIsReported == RewriteSpec => []GapNeverReported
  <1>1. RewriteInv => GapNeverReported
    BY DEF RewriteInv, GapNeverReported
  <1> QED
    BY RewriteInvariant, <1>1, PTL

----------------------------------------------------------------------------
(* Types *)

LEMMA SetupTypes ==
    ASSUME ValidationTypeOK
    PROVE  /\ setup \in SetupSpace
           /\ case \in [Subjects -> CaseSpace]
BY SetupsKnown, CasesKnown DEF ValidationTypeOK

\* What a single result leaves of the others, and of the other subjects.
LEMMA ResultIs ==
    ASSUME ValidationTypeOK, NEW a \in Subjects, NEW part \in Parts, NEW r \in Results,
           Result(a, part, r)
    PROVE  /\ items' \in [Subjects -> [Parts -> Results]]
           /\ items'[a][part] = r
           /\ \A p \in Parts \ {part} : items'[a][p] = items[a][p]
           /\ \A b \in Subjects \ {a} : items'[b] = items[b]
BY DEF ValidationTypeOK, Result

LEMMA GoIs ==
    ASSUME ValidationTypeOK, NEW a \in Subjects, NEW s \in Stages, Go(a, s)
    PROVE  /\ stage' \in [Subjects -> Stages]
           /\ stage'[a] = s
           /\ \A b \in Subjects \ {a} : stage'[b] = stage[b]
BY DEF ValidationTypeOK, Go

\* What the guard finds, by what it looks at.
LEMMA GuardIs ==
    ASSUME NEW a \in Subjects
    PROVE  /\ ~On(a, "guard") => Guard(a) = "skipped"
           /\ On(a, "guard") /\ ~case[a].precheck => Guard(a) = "failed"
           /\ On(a, "guard") /\ case[a].precheck /\ case[a].status # "built" =>
                 Guard(a) = "pending"
           /\ On(a, "guard") /\ case[a].precheck /\ case[a].status = "built" =>
                 Guard(a) = IF \/ ~case[a].module \/ ~case[a].changes
                               \/ "failed" \in {items[a]["load"], items[a]["smoke"]}
                            THEN "failed" ELSE "passed"
BY DEF Guard

\* The last results and the verdict stay in their types.
LEMMA VerdictTypes ==
    ASSUME NEW a \in Subjects, NEW i
    PROVE  /\ Guard(a) \in {"skipped", "pending", "passed", "failed"}
           /\ Regression(a, Guard(a)) \in {"skipped", "passed", "failed"}
           /\ OverallStatus(i) \in {"failed", "passed", "partial", "pending"}
<1>1. Guard(a) \in {"skipped", "pending", "passed", "failed"}
  BY GuardIs
<1>2. QED
  BY <1>1 DEF Regression, OverallStatus

LEMMA TypesStep ==
    ASSUME ValidationTypeOK, [ValidationNext]_validationVars
    PROVE  ValidationTypeOK'
<1>1. CASE UNCHANGED validationVars
  BY <1>1 DEF validationVars, ValidationTypeOK
<1>2. ASSUME NEW a \in Subjects,
             \/ SkipTests(a) \/ Selftest(a) \/ Load(a) \/ Unload(a) \/ Smoke(a)
             \/ Conclude(a) \/ Die(a)
      PROVE  ValidationTypeOK'
  <2>1. UNCHANGED <<setup, case>> /\ kernel' \subseteq Subjects
    BY <1>2
    DEF ValidationTypeOK, SkipTests, Selftest, Load, Unload, Smoke, Conclude, Die
  <2>2. \E s \in Stages : Go(a, s)
    BY <1>2 DEF SkipTests, Selftest, Load, Unload, Smoke, Conclude, Die, Stages
  <2>3. stage' \in [Subjects -> Stages]
    BY <2>2, GoIs
  <2>4. items' \in [Subjects -> [Parts -> Results]] /\ verdict' \in [Subjects -> ValidationStatus]
    <3>1. CASE SkipTests(a)
      BY <3>1 DEF SkipTests, Nothing, Results, ValidationTypeOK
    <3>2. CASE Selftest(a) \/ Load(a) \/ Unload(a) \/ Smoke(a)
      <4>1. \/ UNCHANGED items
            \/ \E part \in Parts, r \in Results : Result(a, part, r)
        BY <3>2 DEF Selftest, Load, Unload, Smoke, Parts, Tests, Results
      <4>2. UNCHANGED verdict
        BY <3>2 DEF Selftest, Load, Unload, Smoke
      <4>3. QED
        BY <4>1, <4>2, ResultIs DEF ValidationTypeOK
    <3>3. CASE Conclude(a)
      <4>1. /\ Guard(a) \in Results /\ Regression(a, Guard(a)) \in Results
        BY VerdictTypes DEF Results
      <4>2. \A i : OverallStatus(i) \in ValidationStatus
        BY VerdictTypes DEF ValidationStatus
      <4>3. QED
        BY <3>3, <4>1, <4>2 DEF Conclude, ValidationTypeOK, Parts, Tests
    <3>4. CASE Die(a)
      BY <3>4 DEF Die, ValidationTypeOK
    <3>5. QED
      BY <1>2, <3>1, <3>2, <3>3, <3>4
  <2>5. QED
    BY <2>1, <2>3, <2>4 DEF ValidationTypeOK
<1>3. QED
  BY <1>1, <1>2 DEF ValidationNext

\* Every result, verdict and stage stays in its type.
THEOREM ValidationTyping == ValidationSpec => []ValidationTypeOK
<1>1. ValidationInit => ValidationTypeOK
  BY DEF ValidationInit, ValidationTypeOK, Nothing, Results, ValidationStatus, Stages
<1>2. QED
  BY <1>1, TypesStep, PTL DEF ValidationSpec

----------------------------------------------------------------------------
(* The inductive invariant *)

\* What the tests have left of a subject, by the stage it is at.
Tested(a) ==
    /\ stage[a] = "idle" => items[a] = Nothing
    /\ stage[a] \in {"load", "unload", "smoke"} => Dynamic(a)
    /\ stage[a] = "load" => items[a]["load"] = "pending"
    /\ stage[a] \in {"load", "unload", "smoke", "conclude", "done"} /\ Dynamic(a) =>
          items[a]["selftest"] \in {"passed", "failed"}
    /\ stage[a] = "conclude" /\ case[a].status # "built" =>
          \A p \in Parts : items[a][p] # "passed"

\* What the kernel and the loads say of one another.
Kernel(a) ==
    /\ a \in kernel => items[a]["load"] = "passed"
    /\ items[a]["load"] = "passed" => Dynamic(a) /\ case[a].module
    /\ stage[a] \in {"smoke", "conclude", "done"} /\ items[a]["load"] = "passed"
       /\ On(a, "unload") =>
          \/ items[a]["unload"] = "passed" /\ a \notin kernel
          \/ items[a]["unload"] = "failed"
    /\ stage[a] \in {"conclude", "done"} /\ items[a]["load"] = "passed"
       /\ On(a, "smoke") /\ setup.script =>
          items[a]["smoke"] \in {"passed", "failed"}

\* What a concluded validation is folded from.
Concludes(a) ==
    stage[a] = "done" =>
        /\ verdict[a] = OverallStatus(items[a])
        /\ items[a]["guard"] = Guard(a)
        /\ case[a].status # "built" => \A p \in Parts : items[a][p] # "passed"

ValidationInv == \A a \in Subjects : Tested(a) /\ Kernel(a) /\ Concludes(a)

\* A step of one subject touches nothing of another.
LEMMA OthersUntouched ==
    ASSUME ValidationTypeOK, ValidationInv, NEW a \in Subjects, NEW b \in Subjects \ {a},
           \/ SkipTests(a) \/ Selftest(a) \/ Load(a) \/ Unload(a) \/ Smoke(a)
           \/ Conclude(a) \/ Die(a)
    PROVE  Tested(b)' /\ Kernel(b)' /\ Concludes(b)'
<1>1. /\ UNCHANGED <<setup, case>> /\ verdict'[b] = verdict[b]
      /\ items'[b] = items[b] /\ stage'[b] = stage[b]
      /\ b \in kernel' <=> b \in kernel
  BY DEF ValidationTypeOK, SkipTests, Selftest, Load, Unload, Smoke, Conclude, Die, Go, Result
<1>2. /\ \A t : On(b, t)' = On(b, t)
      /\ Dynamic(b)' = Dynamic(b) /\ Guard(b)' = Guard(b)
  BY <1>1 DEF On, Dynamic, Guard
<1>3. Tested(b) /\ Kernel(b) /\ Concludes(b)
  BY DEF ValidationInv
<1>4. Tested(b)' = Tested(b) /\ Kernel(b)' = Kernel(b)
  BY <1>1, <1>2 DEF Tested, Kernel
<1>5. OverallStatus(items[b])' = OverallStatus(items[b])
  BY <1>1 DEF OverallStatus
<1>6. Concludes(b)'
  BY <1>1, <1>2, <1>3, <1>5 DEF Concludes
<1>7. QED
  BY <1>3, <1>4, <1>6

\* The configuration and the attempts stay as they are.
LEMMA SettingsStay ==
    ASSUME NEW a \in Subjects, UNCHANGED <<setup, case>>
    PROVE  /\ \A t : On(a, t)' = On(a, t)
           /\ Dynamic(a)' = Dynamic(a)
BY DEF On, Dynamic

\* Single tests come between the start and the conclusion.
LEMMA TestsStep ==
    ASSUME ValidationTypeOK, NEW a \in Subjects, Tested(a), Kernel(a),
           Selftest(a) \/ Load(a) \/ Unload(a) \/ Smoke(a)
    PROVE  Tested(a)' /\ Kernel(a)' /\ Concludes(a)'
<1>0. /\ UNCHANGED <<setup, case>> /\ \A t : On(a, t)' = On(a, t)
      /\ Dynamic(a)' = Dynamic(a)
  BY SettingsStay DEF Selftest, Load, Unload, Smoke
<1>1. CASE Selftest(a)
  <2>1. /\ stage[a] = "idle" /\ stage'[a] = "load" /\ Dynamic(a) /\ UNCHANGED kernel
    BY <1>1, GoIs DEF Selftest, Stages
  <2>2. items[a]["load"] = "pending"
    BY <2>1 DEF Tested, Nothing, Parts, Tests
  <2>3. /\ items'[a]["selftest"] \in {"passed", "failed"}
        /\ items'[a]["load"] = "pending"
    BY <1>1, <2>2, ResultIs DEF Selftest, Parts, Tests, Results
  <2>4. a \notin kernel
    BY <2>2 DEF Kernel
  <2>5. QED
    BY <1>0, <2>1, <2>3, <2>4 DEF Tested, Kernel, Concludes
<1>2. CASE Load(a)
  <2>1. /\ stage[a] = "load" /\ stage'[a] = "unload" /\ Dynamic(a)
        /\ items[a]["load"] = "pending" /\ a \notin kernel
    BY <1>2, GoIs DEF Load, Stages, Tested, Kernel
  <2>2. items'[a]["selftest"] = items[a]["selftest"]
    BY <1>2, ResultIs DEF Load, Parts, Tests, Results
  <2>3. \/ items'[a]["load"] = "passed" /\ case[a].module
        \/ items'[a]["load"] # "passed" /\ a \notin kernel'
    BY <1>2, <2>1, ResultIs DEF Load, Parts, Tests, Results
  <2>4. QED
    BY <1>0, <2>1, <2>2, <2>3 DEF Tested, Kernel, Concludes
<1>3. CASE Unload(a)
  <2>1. stage[a] = "unload" /\ stage'[a] = "smoke" /\ Dynamic(a)
    BY <1>3, GoIs DEF Unload, Stages, Tested
  <2>2. /\ items'[a]["selftest"] = items[a]["selftest"]
        /\ items'[a]["load"] = items[a]["load"]
        /\ kernel' \subseteq kernel
    BY <1>3, ResultIs DEF Unload, Parts, Tests, Results
  <2>3. On(a, "unload") /\ Loaded(a) =>
            \/ items'[a]["unload"] = "passed" /\ a \notin kernel'
            \/ items'[a]["unload"] = "failed"
    BY <1>3, ResultIs DEF Unload, Parts, Tests, Results
  <2>4. QED
    BY <1>0, <2>1, <2>2, <2>3 DEF Tested, Kernel, Concludes, Loaded
<1>4. CASE Smoke(a)
  <2>1. stage[a] = "smoke" /\ stage'[a] = "conclude" /\ Dynamic(a) /\ UNCHANGED kernel
    BY <1>4, GoIs DEF Smoke, Stages, Tested
  <2>2. /\ items'[a]["selftest"] = items[a]["selftest"]
        /\ items'[a]["load"] = items[a]["load"]
        /\ items'[a]["unload"] = items[a]["unload"]
    BY <1>4, ResultIs DEF Smoke, Parts, Tests, Results
  <2>3. On(a, "smoke") /\ Loaded(a) /\ setup.script => items'[a]["smoke"] \in {"passed", "failed"}
    BY <1>4, ResultIs DEF Smoke, Parts, Tests, Results
  <2>4. case[a].status = "built"
    BY <2>1 DEF Dynamic
  <2>5. QED
    BY <1>0, <2>1, <2>2, <2>3, <2>4 DEF Tested, Kernel, Concludes, Loaded
<1>5. QED
  BY <1>1, <1>2, <1>3, <1>4

\* So do the end of a validation and its death, and the skipping of all tests.
LEMMA EndsStep ==
    ASSUME ValidationTypeOK, NEW a \in Subjects, Tested(a), Kernel(a), Concludes(a),
           SkipTests(a) \/ Conclude(a) \/ Die(a)
    PROVE  Tested(a)' /\ Kernel(a)' /\ Concludes(a)'
<1>0. /\ UNCHANGED <<setup, case, kernel>> /\ \A t : On(a, t)' = On(a, t)
      /\ Dynamic(a)' = Dynamic(a)
  BY SettingsStay DEF SkipTests, Conclude, Die
<1>1. CASE SkipTests(a)
  <2>1. stage[a] = "idle" /\ stage'[a] = "conclude" /\ ~Dynamic(a)
    BY <1>1, GoIs DEF SkipTests, Stages
  <2>2. \A p \in Parts : items'[a][p] \in {"skipped", "pending"}
    BY <1>1 DEF SkipTests, Nothing, ValidationTypeOK
  <2>3. items[a]["load"] = "pending" /\ "load" \in Parts
    BY <2>1 DEF Tested, Nothing, Parts, Tests
  <2>4. a \notin kernel
    BY <2>3 DEF Kernel
  <2>5. items'[a]["load"] # "passed"
    BY <2>2, <2>3
  <2>6. QED
    BY <1>0, <2>1, <2>2, <2>4, <2>5 DEF Tested, Kernel, Concludes
<1>2. CASE Conclude(a)
  <2> DEFINE i == [items[a] EXCEPT !["guard"] = Guard(a),
                                   !["regression"] = Regression(a, Guard(a))]
  <2>1. stage[a] = "conclude" /\ stage'[a] = "done"
    BY <1>2, GoIs DEF Conclude, Stages
  <2>2. items'[a] = i /\ verdict'[a] = OverallStatus(i)
    BY <1>2 DEF Conclude, ValidationTypeOK
  <2>3. /\ \A p \in Parts \ {"guard", "regression"} : i[p] = items[a][p]
        /\ i["guard"] = Guard(a) /\ i["regression"] = Regression(a, Guard(a))
        /\ {"guard", "regression", "load", "unload", "smoke", "selftest"} \subseteq Parts
    BY DEF ValidationTypeOK, Parts, Tests
  <2> HIDE DEF i
  <2>4. /\ items'[a]["load"] = items[a]["load"] /\ items'[a]["smoke"] = items[a]["smoke"]
        /\ items'[a]["unload"] = items[a]["unload"]
        /\ items'[a]["selftest"] = items[a]["selftest"]
        /\ items'[a]["guard"] = Guard(a)
    BY <2>2, <2>3
  <2>5. Guard(a)' = Guard(a)
    BY <1>0, <2>4 DEF Guard
  <2>6. OverallStatus(items[a])' = OverallStatus(i)
    BY <2>2 DEF OverallStatus
  <2>7. case[a].status # "built" => \A p \in Parts : items'[a][p] # "passed"
    <3>1. ASSUME case[a].status # "built"
          PROVE  Guard(a) # "passed" /\ Regression(a, Guard(a)) # "passed"
      BY <3>1, GuardIs, SetupTypes DEF Regression, CaseSpace
    <3>2. QED
      BY <2>1, <2>2, <2>3, <3>1 DEF Tested
  <2>8. Concludes(a)'
    BY <1>0, <2>2, <2>4, <2>5, <2>6, <2>7 DEF Concludes
  <2>9. QED
    BY <1>0, <2>1, <2>4, <2>8 DEF Tested, Kernel
<1>3. CASE Die(a)
  <2>1. stage'[a] = "dead" /\ UNCHANGED <<items, verdict>>
    BY <1>3, GoIs DEF Die, Stages
  <2>2. QED
    BY <1>0, <2>1 DEF Tested, Kernel, Concludes
<1>4. QED
  BY <1>1, <1>2, <1>3

LEMMA ValidationInvariant == ValidationSpec => [](ValidationTypeOK /\ ValidationInv)
<1>1. ValidationInit => ValidationInv
  BY DEF ValidationInit, ValidationInv, Tested, Kernel, Concludes, Nothing, Parts, Tests
<1>2. ValidationTypeOK /\ ValidationInv /\ [ValidationNext]_validationVars => ValidationInv'
  <2> SUFFICES ASSUME ValidationTypeOK, ValidationInv, [ValidationNext]_validationVars
               PROVE  ValidationInv'
    OBVIOUS
  <2>1. CASE UNCHANGED validationVars
    <3>1. UNCHANGED <<setup, case, kernel, items, verdict, stage>>
      BY <2>1 DEF validationVars
    <3>2. QED
      BY <3>1 DEF ValidationInv, Tested, Kernel, Concludes, Dynamic, On, Guard, OverallStatus
  <2>2. ASSUME NEW a \in Subjects,
               \/ SkipTests(a) \/ Selftest(a) \/ Load(a) \/ Unload(a) \/ Smoke(a)
               \/ Conclude(a) \/ Die(a)
        PROVE  ValidationInv'
    <3>1. Tested(a)' /\ Kernel(a)' /\ Concludes(a)'
      BY <2>2, TestsStep, EndsStep DEF ValidationInv
    <3>2. \A b \in Subjects \ {a} : Tested(b)' /\ Kernel(b)' /\ Concludes(b)'
      BY <2>2, OthersUntouched
    <3>3. QED
      BY <3>1, <3>2 DEF ValidationInv
  <2>3. QED
    BY <2>1, <2>2 DEF ValidationNext
<1>3. QED
  BY <1>1, <1>2, ValidationTyping, PTL DEF ValidationSpec

----------------------------------------------------------------------------
(* The theorems *)

\* A part that failed fails the whole, and one that passed leaves it no
\* longer pending.
LEMMA StatusOf ==
    ASSUME NEW i
    PROVE  /\ (\E p \in Parts : i[p] = "failed") => OverallStatus(i) = "failed"
           /\ (\E p \in Parts : i[p] = "passed") => OverallStatus(i) # "pending"
           /\ (\A p \in Parts : i[p] # "passed") => OverallStatus(i) \in {"failed", "pending"}
           /\ OverallStatus(i) = "passed" => i["load"] = "passed"
BY DEF OverallStatus, Parts, Tests

\* The validator gives the pipeline only the outcomes that the pipeline is
\* modelled with: whatever the configuration, the built attempt's report is
\* never left pending, and no attempt without a module is ever reported as
\* passed or as tested in part.
THEOREM PromisedOutcomes == ValidationSpec => []OutcomesAsPromised
<1>1. ValidationTypeOK /\ ValidationInv => OutcomesAsPromised
  <2> SUFFICES ASSUME ValidationTypeOK, ValidationInv, NEW a \in Subjects, stage[a] = "done"
               PROVE  verdict[a] \in ValidationOutcomes(case[a].status)
    BY DEF OutcomesAsPromised
  <2>1. verdict[a] = OverallStatus(items[a]) /\ items[a]["guard"] = Guard(a)
    BY DEF ValidationInv, Concludes
  <2>2. verdict[a] \in {"failed", "passed", "partial", "pending"}
    BY <2>1, VerdictTypes
  <2>3. CASE case[a].status = "built"
    <3>1. CASE setup.present
      <4>1. items[a]["selftest"] \in {"passed", "failed"}
        BY <2>3, <3>1 DEF ValidationInv, Tested, Dynamic
      <4>2. QED
        BY <2>1, <2>2, <2>3, <4>1, StatusOf DEF ValidationOutcomes, Parts
    <3>2. CASE ~setup.present
      <4>1. On(a, "guard")
        BY <3>2 DEF On
      <4>2. items[a]["guard"] \in {"passed", "failed"}
        BY <2>1, <2>3, <4>1, GuardIs
      <4>3. QED
        BY <2>1, <2>2, <2>3, <4>2, StatusOf DEF ValidationOutcomes, Parts, Tests
    <3>3. QED
      BY <3>1, <3>2
  <2>4. CASE case[a].status # "built"
    BY <2>1, <2>4, StatusOf DEF ValidationInv, Concludes, ValidationOutcomes
  <2>5. QED
    BY <2>3, <2>4
<1>2. QED
  BY <1>1, ValidationInvariant, PTL

\* "passed" is said only of a built attempt whose module exists, was loaded
\* and taken out again, whose smoke test ran if it could, and whose patch
\* passed the precheck if the guard was on, by whichever of the two ways the
\* status was reached.
THEOREM PassedTested == ValidationSpec => []PassedMeansTested
<1>1. ValidationTypeOK /\ ValidationInv => PassedMeansTested
  <2> SUFFICES ASSUME ValidationTypeOK, ValidationInv, NEW a \in Subjects,
                      stage[a] = "done", verdict[a] = "passed"
               PROVE  /\ case[a].status = "built" /\ case[a].module
                      /\ items[a]["load"] = "passed"
                      /\ On(a, "unload") => items[a]["unload"] = "passed" /\ a \notin kernel
                      /\ (On(a, "smoke") /\ setup.script) => items[a]["smoke"] = "passed"
                      /\ On(a, "guard") => case[a].precheck /\ case[a].changes
    BY DEF PassedMeansTested
  <2>1. Tested(a) /\ Kernel(a) /\ Concludes(a)
    BY DEF ValidationInv
  <2>2. OverallStatus(items[a]) = "passed" /\ items[a]["guard"] = Guard(a)
    BY <2>1 DEF Concludes
  <2>3. items[a]["load"] = "passed" /\ \A p \in Parts : items[a][p] # "failed"
    BY <2>2, StatusOf
  <2>4. Dynamic(a) /\ case[a].module
    BY <2>1, <2>3 DEF Kernel
  <2>5. On(a, "unload") => items[a]["unload"] = "passed" /\ a \notin kernel
    BY <2>1, <2>3 DEF Kernel, Parts, Tests
  <2>6. (On(a, "smoke") /\ setup.script) => items[a]["smoke"] = "passed"
    BY <2>1, <2>3 DEF Kernel, Parts, Tests
  <2>7. ASSUME On(a, "guard") PROVE case[a].precheck /\ case[a].changes
    <3>1. Guard(a) # "failed"
      BY <2>2, <2>3 DEF Parts, Tests
    <3>2. case[a].precheck
      BY <2>7, <3>1, GuardIs
    <3>3. case[a].changes
      BY <2>4, <2>7, <3>1, <3>2, GuardIs DEF Dynamic
    <3>4. QED
      BY <3>2, <3>3
  <2>8. case[a].status = "built"
    BY <2>4 DEF Dynamic
  <2>9. QED
    BY <2>3, <2>4, <2>5, <2>6, <2>7, <2>8
<1>2. QED
  BY <1>1, ValidationInvariant, PTL

\* A validation that came to its end and left its module in the kernel failed,
\* unless the unload test is switched off; other validations, and processes
\* that die beside it, change nothing about that.
THEOREM LeftoversShown == ValidationSpec => []LeftoversShow
<1>1. ValidationTypeOK /\ ValidationInv => LeftoversShow
  <2> SUFFICES ASSUME ValidationTypeOK, ValidationInv, NEW a \in kernel, stage[a] = "done",
                      On(a, "unload")
               PROVE  verdict[a] = "failed"
    BY DEF LeftoversShow
  <2>1. a \in Subjects
    BY DEF ValidationTypeOK
  <2>2. Kernel(a) /\ Concludes(a)
    BY <2>1 DEF ValidationInv
  <2>3. items[a]["unload"] = "failed"
    BY <2>2 DEF Kernel
  <2>4. verdict[a] = OverallStatus(items[a])
    BY <2>2 DEF Concludes
  <2>5. QED
    BY <2>3, <2>4, StatusOf DEF Parts, Tests
<1>2. QED
  BY <1>1, ValidationInvariant, PTL

===============================================================================
