-------------------------- MODULE BuildTargets_proof --------------------------
(***************************************************************************)
(* What a build of a patch has to build, for any kernel trees, any files   *)
(* and any depth modinfo is followed to.                                   *)
(*                                                                         *)
(* Giving up: a gate is off only when all its lines are (OffMeansAll), so  *)
(* a disabled file is left out (LeftOut) by options that are off           *)
(* (OptionsAreOff), which the fragment would have turned on (Mended).      *)
(*                                                                         *)
(* Going on: a file that is left in ends up in vmlinux or in the module it *)
(* is filed under (DetailIs), and that stays in the list when what it      *)
(* depends on is put before it.  The order, as far as modinfo always       *)
(* answers (Heard), rests on the search from a module.  Its list is always *)
(* in order, and holds the place of every module it has come by but those  *)
(* it is still at, or has no place of (Sound): a list may be added to only *)
(* when all that is known to be needed is there.  A module it              *)
(* meets while still at it would need itself, and then a chain of any      *)
(* length starts from it; so below a module with no chain that is too long *)
(* (Longer) nothing that is needed is still open.  That a search is sound  *)
(* at every level is shown by induction on the levels that are left        *)
(* (FindsFurther), and within a level along the names a module needs       *)
(* (FoundInOrder).                                                         *)
(*                                                                         *)
(* Lists are built entry by entry in six places (JoinedAll, Through,       *)
(* DependencyTargets, Expand, Modules, Tall).  In each, the list exists    *)
(* and its entries keep the kind the steps keep; XStay names what the      *)
(* steps keep and XSteps what the list then is.                            *)
(***************************************************************************)
EXTENDS BuildTargets, ListFacts

----------------------------------------------------------------------------
(* The lists that are built entry by entry *)

\* Targets joined to a list, one after the other.
JoinStay(T, more, N) ==
    \A n \in 1..N : \A u \in T : Joined(u, more[n]) \in T

JoinSteps(f, T, more, N, base) ==
    /\ f \in [0..N -> T] /\ f[0] = base
    /\ \A n \in 1..N : f[n] = Joined(f[n - 1], more[n])

LEMMA JoinedAllBuilt ==
    ASSUME NEW T, NEW more, NEW N \in Nat, N = Len(more), NEW base \in T,
           JoinStay(T, more, N)
    PROVE  \E f : /\ JoinSteps(f, T, more, N, base)
                  /\ JoinedAll(base, more) = f[N]
<1> DEFINE step == [n \in 1..N |-> [u \in T |-> Joined(u, more[n])]]
           Unfolded(g) == [n \in 0..N |->
                             IF n = 0 THEN base ELSE Joined(g[n - 1], more[n])]
           kept == CHOOSE g : g = Unfolded(g)
<1>1. ASSUME NEW n \in 1..N, NEW u \in T
      PROVE  /\ step[n][u] = Joined(u, more[n])
             /\ Joined(u, more[n]) \in T
  BY DEF JoinStay
<1>2. step \in [1..N -> [T -> T]]
  BY <1>1
<1> HIDE DEF step
<1>3. PICK f \in [0..N -> T] :
        f[0] = base /\ \A n \in 1..N : f[n] = step[n][f[n - 1]]
  <2>1. PICK s : s = step
    OBVIOUS
  <2>2. s \in [1..N -> [T -> T]]
    BY <1>2, <2>1
  <2>3. \E f \in [0..N -> T] :
          f[0] = base /\ \A n \in 1..N : f[n] = s[n][f[n - 1]]
    BY ONLY N \in Nat, base \in T, <2>2, BuiltEntryByEntry
  <2>4. QED
    BY <2>1, <2>3
<1>4. f = Unfolded(f)
  <2>1. ASSUME NEW n \in 1..N
        PROVE  f[n] = Joined(f[n - 1], more[n])
    <3>1. n - 1 \in 0..N
      OBVIOUS
    <3>2. f[n - 1] \in T
      BY <3>1
    <3>3. QED
      BY <1>1, <1>3, <3>2
  <2>2. \A n \in 0..N : n = 0 \/ n \in 1..N
    OBVIOUS
  <2>3. \A n \in 0..N :
          f[n] = IF n = 0 THEN base ELSE Joined(f[n - 1], more[n])
    BY <1>3, <2>1, <2>2
  <2>4. QED
    BY <2>3
<1>5. kept = Unfolded(kept)
  BY <1>4
<1>6. JoinedAll(base, more) = kept[N]
  BY DEF JoinedAll
<1> HIDE DEF kept
<1>7. /\ kept[0] = base
      /\ \A n \in 1..N : kept[n] = Joined(kept[n - 1], more[n])
  <2>1. 0 \in 0..N /\ \A n \in 1..N : n \in 0..N /\ n # 0
    OBVIOUS
  <2>2. kept[0] = base
    BY <1>5, <2>1
  <2>3. ASSUME NEW n \in 1..N
        PROVE  kept[n] = Joined(kept[n - 1], more[n])
    <3>1. kept[n] = Unfolded(kept)[n]
      BY <1>5
    <3>2. QED
      BY <2>1, <3>1
  <2>4. QED
    BY <2>2, <2>3
<1> DEFINE P == {n \in 0..N : kept[n] \in T}
<1>8. 0 \in P /\ P \in SUBSET (0..N)
  BY <1>7
<1>9. ASSUME NEW n \in 1..N, n - 1 \in P PROVE n \in P
  BY <1>1, <1>7, <1>9
<1>10. P = 0..N
  <2> HIDE DEF P
  <2>1. QED
    BY <1>8, <1>9, UpToN
<1>11. kept \in [0..N -> T]
  <2>1. kept = [n \in 0..N |-> kept[n]]
    BY <1>5
  <2>2. QED
    BY <1>10, <2>1
<1>12. QED
  BY <1>6, <1>7, <1>11 DEF JoinSteps

\* The names a module needs, one after the other.
WalkStay(T, names, below, root, N) ==
    \A n \in 1..N : \A u \in T : Visited(u, names[n], below, root) \in T

WalkSteps(f, T, names, below, root, N, base) ==
    /\ f \in [0..N -> T] /\ f[0] = base
    /\ \A n \in 1..N : f[n] = Visited(f[n - 1], names[n], below, root)

LEMMA ThroughBuilt ==
    ASSUME NEW T, NEW names, NEW below, NEW root, NEW N \in Nat, N = Len(names),
           NEW base \in T,
           WalkStay(T, names, below, root, N)
    PROVE  \E f : /\ WalkSteps(f, T, names, below, root, N, base)
                  /\ Through(names, base, below, root) = f[N]
<1> DEFINE step == [n \in 1..N |-> [u \in T |-> Visited(u, names[n], below, root)]]
           Unfolded(g) == [n \in 0..N |->
                             IF n = 0 THEN base ELSE Visited(g[n - 1], names[n], below, root)]
           kept == CHOOSE g : g = Unfolded(g)
<1>1. ASSUME NEW n \in 1..N, NEW u \in T
      PROVE  /\ step[n][u] = Visited(u, names[n], below, root)
             /\ Visited(u, names[n], below, root) \in T
  BY DEF WalkStay
<1>2. step \in [1..N -> [T -> T]]
  BY <1>1
<1> HIDE DEF step
<1>3. PICK f \in [0..N -> T] :
        f[0] = base /\ \A n \in 1..N : f[n] = step[n][f[n - 1]]
  <2>1. PICK s : s = step
    OBVIOUS
  <2>2. s \in [1..N -> [T -> T]]
    BY <1>2, <2>1
  <2>3. \E f \in [0..N -> T] :
          f[0] = base /\ \A n \in 1..N : f[n] = s[n][f[n - 1]]
    BY ONLY N \in Nat, base \in T, <2>2, BuiltEntryByEntry
  <2>4. QED
    BY <2>1, <2>3
<1>4. f = Unfolded(f)
  <2>1. ASSUME NEW n \in 1..N
        PROVE  f[n] = Visited(f[n - 1], names[n], below, root)
    <3>1. n - 1 \in 0..N
      OBVIOUS
    <3>2. f[n - 1] \in T
      BY <3>1
    <3>3. QED
      BY <1>1, <1>3, <3>2
  <2>2. \A n \in 0..N : n = 0 \/ n \in 1..N
    OBVIOUS
  <2>3. \A n \in 0..N :
          f[n] = IF n = 0 THEN base ELSE Visited(f[n - 1], names[n], below, root)
    BY <1>3, <2>1, <2>2
  <2>4. QED
    BY <2>3
<1>5. kept = Unfolded(kept)
  BY <1>4
<1>6. Through(names, base, below, root) = kept[N]
  BY DEF Through
<1> HIDE DEF kept
<1>7. /\ kept[0] = base
      /\ \A n \in 1..N : kept[n] = Visited(kept[n - 1], names[n], below, root)
  <2>1. 0 \in 0..N /\ \A n \in 1..N : n \in 0..N /\ n # 0
    OBVIOUS
  <2>2. kept[0] = base
    BY <1>5, <2>1
  <2>3. ASSUME NEW n \in 1..N
        PROVE  kept[n] = Visited(kept[n - 1], names[n], below, root)
    <3>1. kept[n] = Unfolded(kept)[n]
      BY <1>5
    <3>2. QED
      BY <2>1, <3>1
  <2>4. QED
    BY <2>2, <2>3
<1> DEFINE P == {n \in 0..N : kept[n] \in T}
<1>8. 0 \in P /\ P \in SUBSET (0..N)
  BY <1>7
<1>9. ASSUME NEW n \in 1..N, n - 1 \in P PROVE n \in P
  BY <1>1, <1>7, <1>9
<1>10. P = 0..N
  <2> HIDE DEF P
  <2>1. QED
    BY <1>8, <1>9, UpToN
<1>11. kept \in [0..N -> T]
  <2>1. kept = [n \in 0..N |-> kept[n]]
    BY <1>5
  <2>2. QED
    BY <1>10, <2>1
<1>12. QED
  BY <1>6, <1>7, <1>11 DEF WalkSteps

\* The search from each name, level by level.
VisitStay(T, target, N) ==
    \A n \in 1..N : \A u \in T : OneFurther(u, target) \in T

VisitSteps(f, T, target, N, base) ==
    /\ f \in [0..N -> T] /\ f[0] = base
    /\ \A n \in 1..N : f[n] = OneFurther(f[n - 1], target)

LEMMA DependencyTargetsBuilt ==
    ASSUME NEW T, NEW target, NEW N \in Nat, N = MaxDepth + 1,
           NEW base \in T, base = NotFurther,
           VisitStay(T, target, N)
    PROVE  \E f : /\ VisitSteps(f, T, target, N, base)
                  /\ DependencyTargets(target) =
                     f[N][Last(target)][[seen |-> {Last(target)}, list |-> <<>>]].list
<1> DEFINE step == [n \in 1..N |-> [u \in T |-> OneFurther(u, target)]]
           Unfolded(g) == [n \in 0..N |->
                             IF n = 0 THEN NotFurther ELSE OneFurther(g[n - 1], target)]
           kept == CHOOSE g : g = Unfolded(g)
<1>1. ASSUME NEW n \in 1..N, NEW u \in T
      PROVE  /\ step[n][u] = OneFurther(u, target)
             /\ OneFurther(u, target) \in T
  BY DEF VisitStay
<1>2. step \in [1..N -> [T -> T]]
  BY <1>1
<1> HIDE DEF step
<1>3. PICK f \in [0..N -> T] :
        f[0] = base /\ \A n \in 1..N : f[n] = step[n][f[n - 1]]
  <2>1. PICK s : s = step
    OBVIOUS
  <2>2. s \in [1..N -> [T -> T]]
    BY <1>2, <2>1
  <2>3. \E f \in [0..N -> T] :
          f[0] = base /\ \A n \in 1..N : f[n] = s[n][f[n - 1]]
    BY ONLY N \in Nat, base \in T, <2>2, BuiltEntryByEntry
  <2>4. QED
    BY <2>1, <2>3
<1>4. f = Unfolded(f)
  <2>1. ASSUME NEW n \in 1..N
        PROVE  f[n] = OneFurther(f[n - 1], target)
    <3>1. n - 1 \in 0..N
      OBVIOUS
    <3>2. f[n - 1] \in T
      BY <3>1
    <3>3. QED
      BY <1>1, <1>3, <3>2
  <2>2. \A n \in 0..N : n = 0 \/ n \in 1..N
    OBVIOUS
  <2>3. \A n \in 0..N :
          f[n] = IF n = 0 THEN NotFurther ELSE OneFurther(f[n - 1], target)
    BY <1>3, <2>1, <2>2
  <2>4. QED
    BY <2>3
<1>5. kept = Unfolded(kept)
  BY <1>4
<1>6. DependencyTargets(target) =
        kept[N][Last(target)][[seen |-> {Last(target)}, list |-> <<>>]].list
  BY DEF DependencyTargets
<1> HIDE DEF kept
<1>7. /\ kept[0] = base
      /\ \A n \in 1..N : kept[n] = OneFurther(kept[n - 1], target)
  <2>1. 0 \in 0..N /\ \A n \in 1..N : n \in 0..N /\ n # 0
    OBVIOUS
  <2>2. kept[0] = base
    BY <1>5, <2>1
  <2>3. ASSUME NEW n \in 1..N
        PROVE  kept[n] = OneFurther(kept[n - 1], target)
    <3>1. kept[n] = Unfolded(kept)[n]
      BY <1>5
    <3>2. QED
      BY <2>1, <3>1
  <2>4. QED
    BY <2>2, <2>3
<1> DEFINE P == {n \in 0..N : kept[n] \in T}
<1>8. 0 \in P /\ P \in SUBSET (0..N)
  BY <1>7
<1>9. ASSUME NEW n \in 1..N, n - 1 \in P PROVE n \in P
  BY <1>1, <1>7, <1>9
<1>10. P = 0..N
  <2> HIDE DEF P
  <2>1. QED
    BY <1>8, <1>9, UpToN
<1>11. kept \in [0..N -> T]
  <2>1. kept = [n \in 0..N |-> kept[n]]
    BY <1>5
  <2>2. QED
    BY <1>10, <2>1
<1>12. QED
  BY <1>6, <1>7, <1>11 DEF VisitSteps

\* The targets, each after those it depends on.
ExpansionStay(T, targets, N) ==
    \A n \in 1..N : \A u \in T : AfterNeeded(u, targets[n]) \in T

ExpansionSteps(f, T, targets, N, base) ==
    /\ f \in [0..N -> T] /\ f[0] = base
    /\ \A n \in 1..N : f[n] = AfterNeeded(f[n - 1], targets[n])

LEMMA ExpandBuilt ==
    ASSUME NEW T, NEW targets, NEW N \in Nat, N = Len(targets), NEW base \in T, base = <<>>,
           ExpansionStay(T, targets, N)
    PROVE  \E f : /\ ExpansionSteps(f, T, targets, N, base)
                  /\ Expand(targets) = f[N]
<1> DEFINE step == [n \in 1..N |-> [u \in T |-> AfterNeeded(u, targets[n])]]
           Unfolded(g) == [n \in 0..N |->
                             IF n = 0 THEN <<>> ELSE AfterNeeded(g[n - 1], targets[n])]
           kept == CHOOSE g : g = Unfolded(g)
<1>1. ASSUME NEW n \in 1..N, NEW u \in T
      PROVE  /\ step[n][u] = AfterNeeded(u, targets[n])
             /\ AfterNeeded(u, targets[n]) \in T
  BY DEF ExpansionStay
<1>2. step \in [1..N -> [T -> T]]
  BY <1>1
<1> HIDE DEF step
<1>3. PICK f \in [0..N -> T] :
        f[0] = base /\ \A n \in 1..N : f[n] = step[n][f[n - 1]]
  <2>1. PICK s : s = step
    OBVIOUS
  <2>2. s \in [1..N -> [T -> T]]
    BY <1>2, <2>1
  <2>3. \E f \in [0..N -> T] :
          f[0] = base /\ \A n \in 1..N : f[n] = s[n][f[n - 1]]
    BY ONLY N \in Nat, base \in T, <2>2, BuiltEntryByEntry
  <2>4. QED
    BY <2>1, <2>3
<1>4. f = Unfolded(f)
  <2>1. ASSUME NEW n \in 1..N
        PROVE  f[n] = AfterNeeded(f[n - 1], targets[n])
    <3>1. n - 1 \in 0..N
      OBVIOUS
    <3>2. f[n - 1] \in T
      BY <3>1
    <3>3. QED
      BY <1>1, <1>3, <3>2
  <2>2. \A n \in 0..N : n = 0 \/ n \in 1..N
    OBVIOUS
  <2>3. \A n \in 0..N :
          f[n] = IF n = 0 THEN <<>> ELSE AfterNeeded(f[n - 1], targets[n])
    BY <1>3, <2>1, <2>2
  <2>4. QED
    BY <2>3
<1>5. kept = Unfolded(kept)
  BY <1>4
<1>6. Expand(targets) = kept[N]
  BY DEF Expand
<1> HIDE DEF kept
<1>7. /\ kept[0] = base
      /\ \A n \in 1..N : kept[n] = AfterNeeded(kept[n - 1], targets[n])
  <2>1. 0 \in 0..N /\ \A n \in 1..N : n \in 0..N /\ n # 0
    OBVIOUS
  <2>2. kept[0] = base
    BY <1>5, <2>1
  <2>3. ASSUME NEW n \in 1..N
        PROVE  kept[n] = AfterNeeded(kept[n - 1], targets[n])
    <3>1. kept[n] = Unfolded(kept)[n]
      BY <1>5
    <3>2. QED
      BY <2>1, <3>1
  <2>4. QED
    BY <2>2, <2>3
<1> DEFINE P == {n \in 0..N : kept[n] \in T}
<1>8. 0 \in P /\ P \in SUBSET (0..N)
  BY <1>7
<1>9. ASSUME NEW n \in 1..N, n - 1 \in P PROVE n \in P
  BY <1>1, <1>7, <1>9
<1>10. P = 0..N
  <2> HIDE DEF P
  <2>1. QED
    BY <1>8, <1>9, UpToN
<1>11. kept \in [0..N -> T]
  <2>1. kept = [n \in 0..N |-> kept[n]]
    BY <1>5
  <2>2. QED
    BY <1>10, <2>1
<1>12. QED
  BY <1>6, <1>7, <1>11 DEF ExpansionSteps

\* The modules of the files.
NamingStay(T, details, N) ==
    \A n \in 1..N : \A u \in T : WithModule(u, details[n]) \in T

NamingSteps(f, T, details, N, base) ==
    /\ f \in [0..N -> T] /\ f[0] = base
    /\ \A n \in 1..N : f[n] = WithModule(f[n - 1], details[n])

LEMMA ModulesBuilt ==
    ASSUME NEW T, NEW details, NEW N \in Nat, N = Len(details), NEW base \in T, base = <<>>,
           NamingStay(T, details, N)
    PROVE  \E f : /\ NamingSteps(f, T, details, N, base)
                  /\ Modules(details) = f[N]
<1> DEFINE step == [n \in 1..N |-> [u \in T |-> WithModule(u, details[n])]]
           Unfolded(g) == [n \in 0..N |->
                             IF n = 0 THEN <<>> ELSE WithModule(g[n - 1], details[n])]
           kept == CHOOSE g : g = Unfolded(g)
<1>1. ASSUME NEW n \in 1..N, NEW u \in T
      PROVE  /\ step[n][u] = WithModule(u, details[n])
             /\ WithModule(u, details[n]) \in T
  BY DEF NamingStay
<1>2. step \in [1..N -> [T -> T]]
  BY <1>1
<1> HIDE DEF step
<1>3. PICK f \in [0..N -> T] :
        f[0] = base /\ \A n \in 1..N : f[n] = step[n][f[n - 1]]
  <2>1. PICK s : s = step
    OBVIOUS
  <2>2. s \in [1..N -> [T -> T]]
    BY <1>2, <2>1
  <2>3. \E f \in [0..N -> T] :
          f[0] = base /\ \A n \in 1..N : f[n] = s[n][f[n - 1]]
    BY ONLY N \in Nat, base \in T, <2>2, BuiltEntryByEntry
  <2>4. QED
    BY <2>1, <2>3
<1>4. f = Unfolded(f)
  <2>1. ASSUME NEW n \in 1..N
        PROVE  f[n] = WithModule(f[n - 1], details[n])
    <3>1. n - 1 \in 0..N
      OBVIOUS
    <3>2. f[n - 1] \in T
      BY <3>1
    <3>3. QED
      BY <1>1, <1>3, <3>2
  <2>2. \A n \in 0..N : n = 0 \/ n \in 1..N
    OBVIOUS
  <2>3. \A n \in 0..N :
          f[n] = IF n = 0 THEN <<>> ELSE WithModule(f[n - 1], details[n])
    BY <1>3, <2>1, <2>2
  <2>4. QED
    BY <2>3
<1>5. kept = Unfolded(kept)
  BY <1>4
<1>6. Modules(details) = kept[N]
  BY DEF Modules
<1> HIDE DEF kept
<1>7. /\ kept[0] = base
      /\ \A n \in 1..N : kept[n] = WithModule(kept[n - 1], details[n])
  <2>1. 0 \in 0..N /\ \A n \in 1..N : n \in 0..N /\ n # 0
    OBVIOUS
  <2>2. kept[0] = base
    BY <1>5, <2>1
  <2>3. ASSUME NEW n \in 1..N
        PROVE  kept[n] = WithModule(kept[n - 1], details[n])
    <3>1. kept[n] = Unfolded(kept)[n]
      BY <1>5
    <3>2. QED
      BY <2>1, <3>1
  <2>4. QED
    BY <2>2, <2>3
<1> DEFINE P == {n \in 0..N : kept[n] \in T}
<1>8. 0 \in P /\ P \in SUBSET (0..N)
  BY <1>7
<1>9. ASSUME NEW n \in 1..N, n - 1 \in P PROVE n \in P
  BY <1>1, <1>7, <1>9
<1>10. P = 0..N
  <2> HIDE DEF P
  <2>1. QED
    BY <1>8, <1>9, UpToN
<1>11. kept \in [0..N -> T]
  <2>1. kept = [n \in 0..N |-> kept[n]]
    BY <1>5
  <2>2. QED
    BY <1>10, <2>1
<1>12. QED
  BY <1>6, <1>7, <1>11 DEF NamingSteps

\* The modules that start a chain of each length.
ChainStay(T, N) ==
    \A n \in 1..N : \A u \in T : NeedOneOf(u) \in T

ChainSteps(f, T, N, base) ==
    /\ f \in [0..N -> T] /\ f[0] = base
    /\ \A n \in 1..N : f[n] = NeedOneOf(f[n - 1])

LEMMA TallBuilt ==
    ASSUME NEW T, NEW N \in Nat, N = MaxDepth + 2, NEW base \in T, base = DOMAIN tree.depends,
           ChainStay(T, N)
    PROVE  \E f : /\ ChainSteps(f, T, N, base)
                  /\ Tall = f
<1> DEFINE step == [n \in 1..N |-> [u \in T |-> NeedOneOf(u)]]
           Unfolded(g) == [n \in 0..N |->
                             IF n = 0 THEN DOMAIN tree.depends ELSE NeedOneOf(g[n - 1])]
           kept == CHOOSE g : g = Unfolded(g)
<1>1. ASSUME NEW n \in 1..N, NEW u \in T
      PROVE  /\ step[n][u] = NeedOneOf(u)
             /\ NeedOneOf(u) \in T
  BY DEF ChainStay
<1>2. step \in [1..N -> [T -> T]]
  BY <1>1
<1> HIDE DEF step
<1>3. PICK f \in [0..N -> T] :
        f[0] = base /\ \A n \in 1..N : f[n] = step[n][f[n - 1]]
  <2>1. PICK s : s = step
    OBVIOUS
  <2>2. s \in [1..N -> [T -> T]]
    BY <1>2, <2>1
  <2>3. \E f \in [0..N -> T] :
          f[0] = base /\ \A n \in 1..N : f[n] = s[n][f[n - 1]]
    BY ONLY N \in Nat, base \in T, <2>2, BuiltEntryByEntry
  <2>4. QED
    BY <2>1, <2>3
<1>4. f = Unfolded(f)
  <2>1. ASSUME NEW n \in 1..N
        PROVE  f[n] = NeedOneOf(f[n - 1])
    <3>1. n - 1 \in 0..N
      OBVIOUS
    <3>2. f[n - 1] \in T
      BY <3>1
    <3>3. QED
      BY <1>1, <1>3, <3>2
  <2>2. \A n \in 0..N : n = 0 \/ n \in 1..N
    OBVIOUS
  <2>3. \A n \in 0..N :
          f[n] = IF n = 0 THEN DOMAIN tree.depends ELSE NeedOneOf(f[n - 1])
    BY <1>3, <2>1, <2>2
  <2>4. QED
    BY <2>3
<1>5. kept = Unfolded(kept)
  BY <1>4
<1>6. Tall = kept
  BY DEF Tall
<1> HIDE DEF kept
<1>7. /\ kept[0] = base
      /\ \A n \in 1..N : kept[n] = NeedOneOf(kept[n - 1])
  <2>1. 0 \in 0..N /\ \A n \in 1..N : n \in 0..N /\ n # 0
    OBVIOUS
  <2>2. kept[0] = base
    BY <1>5, <2>1
  <2>3. ASSUME NEW n \in 1..N
        PROVE  kept[n] = NeedOneOf(kept[n - 1])
    <3>1. kept[n] = Unfolded(kept)[n]
      BY <1>5
    <3>2. QED
      BY <2>1, <3>1
  <2>4. QED
    BY <2>2, <2>3
<1> DEFINE P == {n \in 0..N : kept[n] \in T}
<1>8. 0 \in P /\ P \in SUBSET (0..N)
  BY <1>7
<1>9. ASSUME NEW n \in 1..N, n - 1 \in P PROVE n \in P
  BY <1>1, <1>7, <1>9
<1>10. P = 0..N
  <2> HIDE DEF P
  <2>1. QED
    BY <1>8, <1>9, UpToN
<1>11. kept \in [0..N -> T]
  <2>1. kept = [n \in 0..N |-> kept[n]]
    BY <1>5
  <2>2. QED
    BY <1>10, <2>1
<1>12. QED
  BY <1>6, <1>7, <1>11 DEF ChainSteps

----------------------------------------------------------------------------
(* Lists of targets in which each stands once, after those it needs *)

Needed(m) == ToSet(DependsOn(m))

\* The same, if modinfo says so whenever it is asked.
Heard(m) == IF Answers("depends", m) THEN Needed(m) ELSE {}

\* What has to be made before a target, as far as modinfo says where that is.
Before(t) == {tree.home[b] : b \in {n \in Heard(Last(t)) : Answers("path", n)}} \ {NoTarget}

InOrder(list) ==
    /\ \A i, j \in DOMAIN list : list[i] = list[j] => i = j
    /\ \A j \in DOMAIN list : \A e \in Before(list[j]) :
          \E i \in DOMAIN list : i < j /\ list[i] = e

\* A target is joined to what is there, unless it is there.
LEMMA JoinedEntries ==
    ASSUME NEW S, NEW list, list \in Seq(S), NEW t \in S
    PROVE  /\ Joined(list, t) \in Seq(S)
           /\ ToSet(Joined(list, t)) = ToSet(list) \cup {t}
           /\ t \in ToSet(list) => Joined(list, t) = list
           /\ t \notin ToSet(list) => Joined(list, t) = Append(list, t)
<1>1. DOMAIN list = 1..Len(list) /\ Len(list) \in Nat
  OBVIOUS
<1>2. Contains(list, t) <=> t \in ToSet(list)
  BY <1>1 DEF Contains, ToSet
<1>3. CASE t \in ToSet(list)
  BY <1>2, <1>3 DEF Joined
<1>4. CASE t \notin ToSet(list)
  <2>1. PICK new : new = Append(list, t)
    OBVIOUS
  <2>2. /\ new \in Seq(S) /\ DOMAIN new = 1..(Len(list) + 1)
        /\ new[Len(list) + 1] = t /\ \A i \in 1..Len(list) : new[i] = list[i]
    BY <2>1
  <2>3. ToSet(new) = ToSet(list) \cup {t}
    <3>1. ASSUME NEW i \in DOMAIN new PROVE new[i] \in ToSet(list) \cup {t}
      BY <1>1, <2>2 DEF ToSet
    <3>2. ASSUME NEW i \in DOMAIN list PROVE list[i] \in ToSet(new)
      <4>1. i \in DOMAIN new /\ new[i] = list[i]
        BY <1>1, <2>2
      <4>2. QED
        BY <4>1 DEF ToSet
    <3>3. t \in ToSet(new)
      <4>1. Len(list) + 1 \in DOMAIN new
        BY <1>1, <2>2
      <4>2. QED
        BY <2>2, <4>1 DEF ToSet
    <3>4. QED
      BY <3>1, <3>2, <3>3 DEF ToSet
  <2>4. QED
    BY <1>2, <1>4, <2>1, <2>2, <2>3 DEF Joined
<1>5. QED
  BY <1>3, <1>4

\* That keeps the order, if what the target needs is there.
LEMMA JoinedInOrder ==
    ASSUME NEW S, NEW list, list \in Seq(S), NEW t \in S,
           InOrder(list), Before(t) \subseteq ToSet(list)
    PROVE  InOrder(Joined(list, t))
<1>1. DOMAIN list = 1..Len(list) /\ Len(list) \in Nat
  OBVIOUS
<1>2. CASE t \in ToSet(list)
  BY <1>2, JoinedEntries
<1>3. CASE t \notin ToSet(list)
  <2>1. PICK new : new = Append(list, t)
    OBVIOUS
  <2>2. /\ new \in Seq(S) /\ DOMAIN new = 1..(Len(list) + 1)
        /\ new[Len(list) + 1] = t /\ \A i \in 1..Len(list) : new[i] = list[i]
    BY <2>1
  <2>3. \A i \in 1..Len(list) : new[i] # t
    BY <1>1, <1>3, <2>2 DEF ToSet
  <2>4. ASSUME NEW i \in DOMAIN new, NEW j \in DOMAIN new, new[i] = new[j] PROVE i = j
    <3>1. CASE i \in 1..Len(list) /\ j \in 1..Len(list)
      BY <1>1, <2>2, <2>4, <3>1 DEF InOrder
    <3>2. CASE i = Len(list) + 1 \/ j = Len(list) + 1
      BY <1>1, <2>2, <2>3, <2>4, <3>2
    <3>3. QED
      BY <1>1, <2>2, <3>1, <3>2
  <2>5. ASSUME NEW j \in DOMAIN new, NEW e \in Before(new[j])
        PROVE  \E i \in DOMAIN new : i < j /\ new[i] = e
    <3>1. CASE j \in 1..Len(list)
      <4>1. e \in Before(list[j])
        BY <2>2, <3>1
      <4>2. PICK i \in DOMAIN list : i < j /\ list[i] = e
        BY <1>1, <3>1, <4>1 DEF InOrder
      <4>3. i \in DOMAIN new /\ new[i] = e
        BY <1>1, <2>2, <4>2
      <4>4. QED
        BY <4>2, <4>3
    <3>2. CASE j = Len(list) + 1
      <4>1. e \in ToSet(list)
        BY <2>2, <3>2
      <4>2. PICK i \in DOMAIN list : list[i] = e
        BY <4>1 DEF ToSet
      <4>3. i \in DOMAIN new /\ new[i] = e /\ i < j
        BY <1>1, <2>2, <4>2, <3>2
      <4>4. QED
        BY <4>3
    <3>3. QED
      BY <1>1, <2>2, <3>1, <3>2
  <2>6. InOrder(new)
    BY <2>4, <2>5 DEF InOrder
  <2>7. QED
    BY <1>3, <2>1, <2>6, JoinedEntries
<1>4. QED
  BY <1>2, <1>3

\* And so does joining a list that is in order itself.
LEMMA JoinedAllInOrder ==
    ASSUME NEW S, NEW list, list \in Seq(S), NEW more, more \in Seq(S)
    PROVE  /\ JoinedAll(list, more) \in Seq(S)
           /\ InOrder(list) /\ InOrder(more) => InOrder(JoinedAll(list, more))
           /\ ToSet(JoinedAll(list, more)) = ToSet(list) \cup ToSet(more)
<1>1. PICK T, N, base : T = Seq(S) /\ N = Len(more) /\ base = list
  OBVIOUS
<1>2. N \in Nat /\ base \in T /\ DOMAIN more = 1..N /\ \A n \in 1..N : more[n] \in S
  BY <1>1
<1>3. JoinStay(T, more, N)
  BY <1>1, <1>2, JoinedEntries DEF JoinStay
<1>4. PICK f : JoinSteps(f, T, more, N, base) /\ JoinedAll(base, more) = f[N]
  <2>1. N \in Nat /\ base \in T /\ N = Len(more)
    BY <1>1, <1>2
  <2>2. QED
    BY ONLY <2>1, <1>3, JoinedAllBuilt
<1>13. /\ f \in [0..N -> T] /\ f[0] = base
       /\ \A n \in 1..N : f[n] = Joined(f[n - 1], more[n])
  BY <1>4 DEF JoinSteps
<1> DEFINE P == {n \in 0..N : (InOrder(list) /\ InOrder(more) => InOrder(f[n]))
                              /\ ToSet(f[n]) = ToSet(list) \cup {more[i] : i \in 1..n}}
<1>5. 0 \in P
  BY <1>1, <1>2, <1>13
<1>6. ASSUME NEW n \in 1..N, n - 1 \in P PROVE n \in P
  <2>1. n - 1 \in 0..N /\ n \in 0..N /\ 1..n = (1..(n - 1)) \cup {n}
    BY <1>2
  <2>2. PICK r : r = f[n - 1]
    OBVIOUS
  <2>3. /\ r \in Seq(S) /\ (InOrder(list) /\ InOrder(more) => InOrder(r))
        /\ ToSet(r) = ToSet(list) \cup {more[i] : i \in 1..(n - 1)}
        /\ f[n] = Joined(r, more[n]) /\ more[n] \in S
    BY <1>1, <1>2, <1>13, <1>6, <2>1, <2>2
  <2>4. InOrder(more) => Before(more[n]) \subseteq ToSet(r)
    <3>1. SUFFICES ASSUME InOrder(more), NEW e \in Before(more[n]) PROVE e \in ToSet(r)
      OBVIOUS
    <3>2. PICK i \in 1..N : i < n /\ more[i] = e
      BY <1>2, <3>1 DEF InOrder
    <3>3. i \in 1..(n - 1)
      BY <3>2
    <3>4. QED
      BY <2>3, <3>2, <3>3
  <2>5. /\ ToSet(f[n]) = ToSet(r) \cup {more[n]}
        /\ InOrder(list) /\ InOrder(more) => InOrder(f[n])
    <3>1. PICK t \in S : t = more[n]
      BY <2>3
    <3>2. ToSet(Joined(r, t)) = ToSet(r) \cup {t}
      BY ONLY <2>3, <3>1, JoinedEntries
    <3>3. ASSUME InOrder(list), InOrder(more) PROVE InOrder(Joined(r, t))
      <4>1. r \in Seq(S) /\ InOrder(r) /\ Before(t) \subseteq ToSet(r)
        BY <2>3, <2>4, <3>1, <3>3
      <4>2. QED
        BY ONLY <3>1, <4>1, JoinedInOrder
    <3>4. QED
      BY <2>3, <3>1, <3>2, <3>3
  <2>6. ToSet(f[n]) = ToSet(list) \cup {more[i] : i \in 1..n}
    BY <2>1, <2>3, <2>5
  <2>7. QED
    BY <2>1, <2>5, <2>6
<1>7. P \in SUBSET (0..N)
  OBVIOUS
<1> HIDE DEF P
<1>8. P = 0..N
  BY <1>2, <1>5, <1>6, <1>7, UpToN
<1>9. /\ InOrder(list) /\ InOrder(more) => InOrder(f[N])
      /\ ToSet(f[N]) = ToSet(list) \cup {more[i] : i \in 1..N} /\ f[N] \in T
  <2>1. N \in P
    BY <1>2, <1>8
  <2>2. QED
    BY <1>2, <1>13, <2>1 DEF P
<1>10. ToSet(more) = {more[i] : i \in 1..N}
  BY <1>2 DEF ToSet
<1>11. JoinedAll(list, more) = f[N]
  BY <1>1, <1>4
<1>12. QED
  BY <1>1, <1>9, <1>10, <1>11

----------------------------------------------------------------------------
(* Types *)

Names == STRING
Installed == DOMAIN tree.depends
Searches == [Names -> [Walks -> Walks]]

\* What a tree says of its modules.
LEMMA TreeTyped ==
    ASSUME KernelType(tree)
    PROVE  /\ Installed \subseteq Names
           /\ \A m : DependsOn(m) \in Seq(Installed) /\ Needed(m) \subseteq Installed
           /\ \A m : m \notin Installed => Needed(m) = {}
           /\ \A m \in Installed : tree.home[m] \in Seq(Names)
<1>1. Installed \subseteq Names
  BY Zenon DEF KernelType, Installed, Names
<1>2. \A m \in Installed : tree.home[m] \in Seq(Names)
  <2>1. PICK S : S = Seq(STRING)
    OBVIOUS
  <2>2. tree.home \in [Installed -> S]
    BY <2>1, Zenon DEF KernelType, Installed
  <2>3. \A m \in Installed : tree.home[m] \in S
    BY <2>2
  <2>4. QED
    BY <2>1, <2>3, Zenon DEF Names
<1>3. ASSUME NEW m PROVE DependsOn(m) \in Seq(Installed)
  <2>1. CASE m \in Installed
    <3>1. tree.depends[m] \in Seq(Installed)
      BY <2>1, Zenon DEF KernelType, Installed
    <3>2. QED
      BY <2>1, <3>1, Zenon DEF DependsOn, Installed
  <2>2. CASE m \notin Installed
    <3>1. DependsOn(m) = <<>>
      BY <2>2, Zenon DEF DependsOn, Installed
    <3>2. <<>> \in Seq(Installed)
      OBVIOUS
    <3>3. QED
      BY <3>1, <3>2
  <2>3. QED
    BY <2>1, <2>2
<1>4. \A m : Needed(m) \subseteq Installed
  <2>1. SUFFICES ASSUME NEW m, NEW s \in Seq(Installed), s = DependsOn(m)
                 PROVE  Needed(m) \subseteq Installed
    BY <1>3
  <2>2. QED
    BY <2>1 DEF Needed, ToSet
<1>5. ASSUME NEW m, m \notin Installed PROVE Needed(m) = {}
  <2>1. DependsOn(m) = <<>>
    BY <1>5, Zenon DEF DependsOn, Installed
  <2>2. QED
    BY <2>1 DEF Needed, ToSet
<1>6. QED
  BY <1>1, <1>2, <1>3, <1>4, <1>5

\* What modinfo gives is what there is, if it gives anything.
LEMMA AnswersAre ==
    ASSUME NEW m, NEW target
    PROVE  /\ NamesGiven(m, target) \in {<<>>, DependsOn(m)}
           /\ PlaceGiven(m, target) \in {NoTarget, tree.home[m]}
           /\ Answers("depends", m) => NamesGiven(m, target) = DependsOn(m)
           /\ Answers("path", m) => PlaceGiven(m, target) = tree.home[m]
<1>1. \A what : Answers(what, m) => ~Silent(what, m, target)
  BY DEF Answers, Silent
<1>2. QED
  BY <1>1 DEF NamesGiven, PlaceGiven

\* The names that are given are some of those that are needed.
LEMMA GivenNames ==
    ASSUME KernelType(tree), NEW m, NEW target
    PROVE  /\ NamesGiven(m, target) \in Seq(Installed)
           /\ ToSet(NamesGiven(m, target)) \subseteq Needed(m)
           /\ Heard(m) \subseteq ToSet(NamesGiven(m, target))
<1>1. <<>> \in Seq(Installed) /\ ToSet(<<>>) = {}
  BY DEF ToSet
<1>2. DependsOn(m) \in Seq(Installed) /\ ToSet(DependsOn(m)) = Needed(m)
  BY TreeTyped DEF Needed
<1>3. QED
  BY <1>1, <1>2, AnswersAre DEF Heard

LEMMA PairsAre ==
    ASSUME NEW A, NEW B, NEW w
    PROVE  w \in [seen : A, list : B]
           <=> w = [seen |-> w.seen, list |-> w.list] /\ w.seen \in A /\ w.list \in B
OBVIOUS

\* A search by its two parts.
LEMMA WalksAre ==
    ASSUME NEW w
    PROVE  w \in Walks <=> /\ w = [seen |-> w.seen, list |-> w.list]
                           /\ w.seen \subseteq Names /\ w.list \in Seq(Seq(Names))
<1>1. PICK A, B : A = SUBSET STRING /\ B = Seq(Seq(STRING))
  OBVIOUS
<1>2. Walks = [seen : A, list : B]
  <2>1. A = SUBSET STRING /\ B = Seq(Seq(STRING)) => Walks = [seen : A, list : B]
    BY DEF Walks
  <2>2. QED
    BY <1>1, <2>1, Zenon
<1>3. w.seen \in A <=> w.seen \subseteq Names
  BY <1>1, Zenon DEF Names
<1>4. w.list \in B <=> w.list \in Seq(Seq(Names))
  BY <1>1, Zenon DEF Names
<1>5. QED
  BY <1>2, <1>3, <1>4, PairsAre

\* A name more that the search has come by.
Marked(u, n) == [u EXCEPT !.seen = @ \cup {n}]

LEMMA MarkedIs ==
    ASSUME NEW u \in Walks, NEW n \in Names
    PROVE  /\ Marked(u, n) \in Walks
           /\ Marked(u, n).seen = u.seen \cup {n} /\ Marked(u, n).list = u.list
<1>1. u = [seen |-> u.seen, list |-> u.list] /\ u.seen \subseteq Names
      /\ u.list \in Seq(Seq(Names))
  BY WalksAre
<1>2. PICK v : v = [seen |-> u.seen \cup {n}, list |-> u.list]
  OBVIOUS
<1>3. Marked(u, n) = v
  <2>1. PICK seen, list : seen = u.seen /\ list = u.list
    OBVIOUS
  <2>2. u = [seen |-> seen, list |-> list] /\ v = [seen |-> seen \cup {n}, list |-> list]
    BY <1>1, <1>2, <2>1
  <2>3. [[seen |-> seen, list |-> list] EXCEPT !.seen = @ \cup {n}]
        = [seen |-> seen \cup {n}, list |-> list]
    OBVIOUS
  <2>4. QED
    BY <2>2, <2>3 DEF Marked
<1>4. v.seen = u.seen \cup {n} /\ v.list = u.list /\ v = [seen |-> v.seen, list |-> v.list]
  BY <1>2
<1>5. v \in Walks
  BY <1>1, <1>4, WalksAre
<1>6. QED
  BY <1>3, <1>4, <1>5

\* What finding a module adds.
LEMMA FoundIs ==
    ASSUME KernelType(tree), NEW v \in Walks, NEW n \in Installed, NEW target
    PROVE  /\ Found(v, n, target) \in Walks
           /\ Found(v, n, target).seen = v.seen
           /\ PlaceGiven(n, target) \in {NoTarget, target} => Found(v, n, target) = v
           /\ PlaceGiven(n, target) \notin {NoTarget, target} =>
                 Found(v, n, target).list = Joined(v.list, PlaceGiven(n, target))
<1>1. v = [seen |-> v.seen, list |-> v.list] /\ v.seen \subseteq Names
      /\ v.list \in Seq(Seq(Names))
  BY WalksAre
<1>2. CASE PlaceGiven(n, target) \in {NoTarget, target}
  BY <1>2 DEF Found
<1>3. CASE PlaceGiven(n, target) \notin {NoTarget, target}
  <2>1. PICK more : more = Joined(v.list, PlaceGiven(n, target))
    OBVIOUS
  <2>8. PlaceGiven(n, target) \in Seq(Names)
    <3>1. NoTarget \in Seq(Names)
      BY DEF NoTarget
    <3>2. QED
      BY <3>1, TreeTyped, AnswersAre
  <2>2. more \in Seq(Seq(Names))
    BY <1>1, <2>1, <2>8, JoinedEntries
  <2>3. PICK x : x = [seen |-> v.seen, list |-> more]
    OBVIOUS
  <2>4. Found(v, n, target) = x
    BY <1>1, <1>3, <2>1, <2>3 DEF Found
  <2>5. x.seen = v.seen /\ x.list = more /\ x = [seen |-> x.seen, list |-> x.list]
    BY <2>3
  <2>6. x \in Walks
    BY <1>1, <2>2, <2>5, WalksAre
  <2>7. QED
    BY <1>3, <2>1, <2>4, <2>5, <2>6
<1>4. QED
  BY <1>2, <1>3

\* Searches stay searches: at one name,
LEMMA VisitedTyped ==
    ASSUME KernelType(tree), NEW below \in Searches, NEW u \in Walks, NEW n \in Installed,
           NEW target
    PROVE  /\ Visited(u, n, below, target) \in Walks
           /\ n \notin u.seen => /\ below[n][Marked(u, n)] \in Walks
                                 /\ Visited(u, n, below, target)
                                    = Found(below[n][Marked(u, n)], n, target)
<1>1. n \in Names /\ Marked(u, n) \in Walks
  BY TreeTyped, MarkedIs
<1>2. below[n][Marked(u, n)] \in Walks
  BY <1>1 DEF Searches
<1>3. n \notin u.seen => Visited(u, n, below, target) = Found(below[n][Marked(u, n)], n, target)
  BY DEF Visited, Marked
<1>4. QED
  BY <1>2, <1>3, FoundIs DEF Visited

\* along some names,
LEMMA ThroughTyped ==
    ASSUME KernelType(tree), NEW below \in Searches, NEW m, NEW w \in Walks, NEW target
    PROVE  /\ Through(NamesGiven(m, target), w, below, target) \in Walks
           /\ \E f : /\ WalkSteps(f, Walks, NamesGiven(m, target), below, target, Len(NamesGiven(m, target)), w)
                     /\ Through(NamesGiven(m, target), w, below, target) = f[Len(NamesGiven(m, target))]
<1>1. PICK names, N : names = NamesGiven(m, target) /\ N = Len(names)
  OBVIOUS
<1>2. N \in Nat /\ \A n \in 1..N : names[n] \in Installed
  BY <1>1, GivenNames
<1>3. WalkStay(Walks, names, below, target, N)
  BY <1>2, VisitedTyped DEF WalkStay
<1>4. PICK f : /\ WalkSteps(f, Walks, names, below, target, N, w)
               /\ Through(names, w, below, target) = f[N]
  <2>1. N \in Nat /\ N = Len(names)
    BY <1>1, <1>2
  <2>2. QED
    BY ONLY <2>1, <1>3, w \in Walks, ThroughBuilt
<1>5. f[N] \in Walks
  BY <1>2, <1>4 DEF WalkSteps
<1>6. QED
  BY <1>1, <1>4, <1>5

\* and from each name, a level further.
LEMMA SearchesTyped ==
    ASSUME KernelType(tree), NEW target
    PROVE  /\ NotFurther \in Searches
           /\ \A m \in Names : \A w \in Walks : NotFurther[m][w] = w
           /\ \A below \in Searches : OneFurther(below, target) \in Searches
           /\ \A below \in Searches : \A m \in Names : \A w \in Walks :
                 OneFurther(below, target)[m][w] = Through(NamesGiven(m, target), w, below, target)
<1>1. NotFurther = [m \in Names |-> [w \in Walks |-> w]]
  BY Zenon DEF NotFurther, Names
<1>2. NotFurther \in Searches /\ \A m \in Names : \A w \in Walks : NotFurther[m][w] = w
  BY <1>1 DEF Searches
<1>3. ASSUME NEW below \in Searches
      PROVE  /\ OneFurther(below, target) \in Searches
             /\ \A m \in Names : \A w \in Walks :
                   OneFurther(below, target)[m][w] = Through(NamesGiven(m, target), w, below, target)
  <2>1. OneFurther(below, target)
        = [m \in Names |-> [w \in Walks |-> Through(NamesGiven(m, target), w, below, target)]]
    BY Zenon DEF OneFurther, Names
  <2>2. \A m \in Names : \A w \in Walks : Through(NamesGiven(m, target), w, below, target) \in Walks
    BY <1>3, ThroughTyped
  <2>3. QED
    BY <2>1, <2>2 DEF Searches
<1>4. QED
  BY <1>2, <1>3

----------------------------------------------------------------------------
(* How far down a module stands *)

LEMMA TallIs ==
    ASSUME KernelType(tree)
    PROVE  /\ Tall[0] = Installed
           /\ \A n \in 1..(MaxDepth + 2) : Tall[n] = NeedOneOf(Tall[n - 1])
           /\ \A n \in 0..(MaxDepth + 2) : Tall[n] \subseteq Installed
<1>1. PICK T, N, base : T = SUBSET Installed /\ N = MaxDepth + 2 /\ base = Installed
  OBVIOUS
<1>2. N \in Nat /\ base \in T /\ base = DOMAIN tree.depends
  BY <1>1, DepthBounded DEF Installed
<1>3. ChainStay(T, N)
  BY <1>1 DEF ChainStay, NeedOneOf, Installed
<1>4. PICK f : ChainSteps(f, T, N, base) /\ Tall = f
  BY ONLY <1>1, <1>2, <1>3, TallBuilt
<1>5. QED
  BY <1>1, <1>4 DEF ChainSteps

\* A chain is one longer than a chain from a module that is needed.
LEMMA NeedsOne ==
    ASSUME KernelType(tree), NEW m, NEW b \in Needed(m), NEW ms, b \in ms
    PROVE  m \in NeedOneOf(ms)
<1>1. m \in Installed
  BY TreeTyped
<1>2. DependsOn(m) = tree.depends[m]
  BY <1>1 DEF DependsOn, Installed
<1>3. QED
  BY <1>1, <1>2 DEF NeedOneOf, Needed, Installed

\* What starts a chain starts the shorter ones.
LEMMA TallLess ==
    ASSUME KernelType(tree)
    PROVE  \A n \in 1..(MaxDepth + 2) : Tall[n] \subseteq Tall[n - 1]
<1> DEFINE P == {n \in 0..(MaxDepth + 1) : Tall[n + 1] \subseteq Tall[n]}
<1>1. 0 \in P
  BY TallIs, DepthBounded
<1>2. ASSUME NEW n \in 1..(MaxDepth + 1), n - 1 \in P PROVE n \in P
  <2>1. n \in Nat /\ n \in 1..(MaxDepth + 2) /\ n + 1 \in 1..(MaxDepth + 2)
        /\ (n - 1) + 1 = n /\ (n + 1) - 1 = n /\ n \in 0..(MaxDepth + 1)
    BY DepthBounded
  <2>2. Tall[n] \subseteq Tall[n - 1]
    BY <1>2, <2>1
  <2>3. Tall[n] = NeedOneOf(Tall[n - 1]) /\ Tall[n + 1] = NeedOneOf(Tall[n])
    BY <2>1, TallIs
  <2>4. Tall[n + 1] \subseteq Tall[n]
    BY <2>2, <2>3 DEF NeedOneOf
  <2>5. QED
    BY <2>1, <2>4
<1>3. P \in SUBSET (0..(MaxDepth + 1)) /\ MaxDepth + 1 \in Nat
  BY DepthBounded
<1>4. P = 0..(MaxDepth + 1)
  <2> HIDE DEF P
  <2>1. QED
    BY <1>1, <1>2, <1>3, UpToN
<1>5. ASSUME NEW n \in 1..(MaxDepth + 2) PROVE Tall[n] \subseteq Tall[n - 1]
  <2>1. n - 1 \in 0..(MaxDepth + 1) /\ (n - 1) + 1 = n
    BY DepthBounded
  <2>2. QED
    BY <1>4, <2>1
<1>6. QED
  BY <1>5

\* A longer chain of dependencies starts from p than from m.
Longer(p, m) == \E j \in 0..(MaxDepth + 2) : p \in Tall[j] /\ m \notin Tall[j]

LEMMA NotLongerThanItself == \A p : ~Longer(p, p)
BY DEF Longer

\* A module starts a longer chain than those it needs, unless its own is too long,
LEMMA LongerThanNeeded ==
    ASSUME KernelType(tree), NEW m, NEW k \in 0..(MaxDepth + 1), m \notin Tall[k + 1],
           NEW b \in Needed(m)
    PROVE  b \notin Tall[k] /\ Longer(m, b)
<1>1. k + 1 \in 1..(MaxDepth + 2) /\ (k + 1) - 1 = k
  BY DepthBounded
<1>2. b \notin Tall[k]
  BY <1>1, TallIs, NeedsOne
<1> DEFINE short == {j \in 0..(MaxDepth + 2) : m \notin Tall[j]}
<1>3. short \in SUBSET Nat /\ short # {}
  BY <1>1
<1>4. PICK j \in short : \A i \in short : j <= i
  <2> HIDE DEF short
  <2>1. QED
    BY <1>3, LeastNumber
<1>5. m \in Tall[0]
  BY TreeTyped, TallIs
<1>6. j \in 1..(MaxDepth + 2) /\ m \notin Tall[j]
  BY <1>4, <1>5, DepthBounded
<1>7. j - 1 \in 0..(MaxDepth + 2) /\ j - 1 < j
  BY <1>6, DepthBounded
<1>8. m \in Tall[j - 1]
  BY <1>4, <1>6, <1>7
<1>9. b \notin Tall[j - 1]
  BY <1>6, TallIs, NeedsOne
<1>10. QED
  BY <1>2, <1>7, <1>8, <1>9 DEF Longer

\* and so does whatever needs it in turn.
LEMMA LongerStill ==
    ASSUME KernelType(tree), NEW p, NEW m, Longer(p, m), NEW b \in Needed(m)
    PROVE  Longer(p, b)
<1>1. PICK j \in 0..(MaxDepth + 2) : p \in Tall[j] /\ m \notin Tall[j]
  BY DEF Longer
<1>2. m \in Tall[0]
  BY TreeTyped, TallIs
<1>3. j \in 1..(MaxDepth + 2)
  BY <1>1, <1>2, DepthBounded
<1>4. b \notin Tall[j - 1]
  BY <1>1, <1>3, TallIs, NeedsOne
<1>5. b \notin Tall[j]
  BY <1>3, <1>4, TallLess
<1>6. QED
  BY <1>1, <1>5 DEF Longer

----------------------------------------------------------------------------
(* The search finds what is needed, in order *)

\* What the list of a search holds: places of modules, in order, and that of every
\* module the search has come by and was told the place of, but those whose own
\* dependencies it is still at.
Sound(w, open) ==
    /\ InOrder(w.list)
    /\ \A t \in ToSet(w.list) : t # NoTarget /\ \E n \in Installed : t = tree.home[n]
    /\ \A n \in w.seen \ open :
          /\ n \in Installed
          /\ Answers("path", n) => tree.home[n] \in ToSet(w.list) \cup {NoTarget}

\* m stands below whatever the search is at, and no chain from m is too long.
Below(open, m, k) == m \notin Tall[k + 1] /\ \A p \in open : p = m \/ Longer(p, m)

Finds(search, k, target) ==
    \A m \in Names : \A w \in Walks : \A open :
       Below(open, m, k) /\ Sound(w, open) /\ Last(target) \in w.seen =>
          Sound(search[m][w], open) /\ w.seen \cup Heard(m) \subseteq search[m][w].seen

\* A search along the names a module needs, when the searches below find theirs.
LEMMA FoundInOrder ==
    ASSUME KernelType(tree), HomesMade(tree), NEW target, NEW k \in 1..(MaxDepth + 1),
           NEW below \in Searches, Finds(below, k - 1, target),
           NEW m, NEW open, Below(open, m, k), NEW n \in Needed(m),
           NEW u \in Walks, Sound(u, open), Last(target) \in u.seen
    PROVE  /\ Sound(Visited(u, n, below, target), open)
           /\ u.seen \cup {n} \subseteq Visited(u, n, below, target).seen
<1>1. CASE n \in u.seen
  BY <1>1 DEF Visited
<1>2. CASE n \notin u.seen
  <2>1. n \in Installed /\ n \in Names
    BY TreeTyped
  <2>2. PICK w : w = Marked(u, n)
    OBVIOUS
  <2>3. w \in Walks /\ w.seen = u.seen \cup {n} /\ w.list = u.list
    BY <2>1, <2>2, MarkedIs
  <2>4. PICK v : v = below[n][w]
    OBVIOUS
  <2>5. v \in Walks /\ Visited(u, n, below, target) = Found(v, n, target)
    BY <1>2, <2>1, <2>2, <2>4, VisitedTyped
  <2>6. k \in 0..(MaxDepth + 1) /\ (k - 1) + 1 = k /\ m \notin Tall[k + 1]
    BY DepthBounded DEF Below
  <2>7. n \notin Tall[k] /\ Longer(m, n)
    BY <2>6, LongerThanNeeded
  <2>8. \A p \in open : Longer(p, n)
    BY <2>7, LongerStill DEF Below
  <2>9. Below(open \cup {n}, n, k - 1)
    BY <2>6, <2>7, <2>8 DEF Below
  <2>10. Sound(w, open \cup {n})
    BY <2>3 DEF Sound
  <2>11. Sound(v, open \cup {n}) /\ w.seen \cup Heard(n) \subseteq v.seen
    <3>1. Last(target) \in w.seen
      BY <2>3
    <3>2. QED
      BY <2>1, <2>3, <2>4, <2>9, <2>10, <3>1 DEF Finds
  <2>12. PICK x : x = Found(v, n, target)
    OBVIOUS
  <2>13. PICK home : home = PlaceGiven(n, target)
    OBVIOUS
  <2>18. /\ home \in {NoTarget, tree.home[n]}
         /\ Answers("path", n) => home = tree.home[n]
    BY <2>13, AnswersAre
  <2>14. home = NoTarget \/ home # target
    <3>1. home # NoTarget => Last(home) = n
      BY <2>1, <2>18 DEF HomesMade, KernelType, Installed
    <3>2. n # Last(target)
      BY <1>2
    <3>3. QED
      BY <3>1, <3>2
  <2>15. CASE home = NoTarget
    <3>1. x = v
      BY <2>1, <2>5, <2>12, <2>13, <2>15, FoundIs
    <3>2. Sound(v, open)
      BY <2>1, <2>11, <2>15, <2>18 DEF Sound
    <3>3. QED
      BY <2>3, <2>5, <2>11, <2>12, <3>1, <3>2
  <2>16. CASE home # NoTarget
    <3>1. x.seen = v.seen /\ x.list = Joined(v.list, home)
      BY <2>1, <2>5, <2>12, <2>13, <2>14, <2>16, FoundIs
    <3>2. PICK list, S : list = v.list /\ S = Seq(Names)
      OBVIOUS
    <3>3. list \in Seq(S) /\ home \in S
      BY <2>1, <2>5, <2>16, <2>18, <3>2, WalksAre, TreeTyped
    <3>4. Last(home) = n
      BY <2>1, <2>16, <2>18 DEF HomesMade, KernelType, Installed
    <3>5. Before(home) \subseteq ToSet(list)
      <4>1. SUFFICES ASSUME NEW b \in Heard(n), Answers("path", b), tree.home[b] # NoTarget
                     PROVE  tree.home[b] \in ToSet(list)
        BY <3>4 DEF Before
      <4>6. b \in Needed(n)
        BY DEF Heard
      <4>2. b \in v.seen
        BY <2>11
      <4>3. b # n
        BY <2>6, <2>9, <4>6, LongerThanNeeded, NotLongerThanItself, DepthBounded DEF Below
      <4>4. b \notin open
        BY <2>8, <4>6, LongerStill, NotLongerThanItself
      <4>5. QED
        BY <2>11, <3>2, <4>1, <4>2, <4>3, <4>4 DEF Sound
    <3>6. PICK new : new = Joined(list, home)
      OBVIOUS
    <3>7. InOrder(new) /\ ToSet(new) = ToSet(list) \cup {home}
      <4>1. InOrder(list)
        BY <2>11, <3>2 DEF Sound
      <4>2. InOrder(Joined(list, home))
        BY ONLY <3>3, <3>5, <4>1, JoinedInOrder
      <4>3. ToSet(Joined(list, home)) = ToSet(list) \cup {home}
        BY ONLY <3>3, JoinedEntries
      <4>4. QED
        BY <3>6, <4>2, <4>3
    <3>8. x.list = new
      BY <3>1, <3>2, <3>6
    <3>9. Sound(x, open)
      <4>1. \A t \in ToSet(new) : t # NoTarget /\ \E o \in Installed : t = tree.home[o]
        BY <2>1, <2>11, <2>16, <2>18, <3>2, <3>7 DEF Sound
      <4>2. \A o \in x.seen \ open :
              /\ o \in Installed
              /\ Answers("path", o) => tree.home[o] \in ToSet(new) \cup {NoTarget}
        BY <2>1, <2>11, <2>18, <3>1, <3>2, <3>7 DEF Sound
      <4>3. QED
        BY <3>7, <3>8, <4>1, <4>2 DEF Sound
    <3>10. QED
      BY <2>3, <2>5, <2>11, <2>12, <3>1, <3>9
  <2>17. QED
    BY <2>15, <2>16
<1>3. QED
  BY <1>1, <1>2

\* So the searches a level up find theirs.
LEMMA FindsFurther ==
    ASSUME KernelType(tree), HomesMade(tree), NEW target, NEW k \in 1..(MaxDepth + 1),
           NEW below \in Searches, Finds(below, k - 1, target)
    PROVE  Finds(OneFurther(below, target), k, target)
<1>1. SUFFICES ASSUME NEW m \in Names, NEW w \in Walks, NEW open,
                      Below(open, m, k), Sound(w, open), Last(target) \in w.seen
               PROVE  /\ Sound(OneFurther(below, target)[m][w], open)
                      /\ w.seen \cup Heard(m) \subseteq OneFurther(below, target)[m][w].seen
  BY DEF Finds
<1>14. PICK f :
        /\ WalkSteps(f, Walks, NamesGiven(m, target), below, target, Len(NamesGiven(m, target)), w)
        /\ Through(NamesGiven(m, target), w, below, target) = f[Len(NamesGiven(m, target))]
  BY ThroughTyped
<1>3. PICK names, N : names = NamesGiven(m, target) /\ N = Len(names)
  OBVIOUS
<1>2. /\ N \in Nat /\ WalkSteps(f, Walks, names, below, target, N, w)
      /\ Through(NamesGiven(m, target), w, below, target) = f[N]
  BY <1>3, <1>14, GivenNames
<1>4. /\ f \in [0..N -> Walks] /\ f[0] = w
      /\ \A n \in 1..N : f[n] = Visited(f[n - 1], names[n], below, target)
  BY <1>2, <1>3 DEF WalkSteps
<1>5. /\ DOMAIN names = 1..N /\ \A n \in 1..N : names[n] \in Needed(m)
      /\ \A b \in Heard(m) : \E n \in 1..N : b = names[n]
  BY <1>2, <1>3, GivenNames DEF ToSet
<1> DEFINE P == {n \in 0..N : /\ Sound(f[n], open) /\ w.seen \subseteq f[n].seen
                              /\ \A i \in 1..n : names[i] \in f[n].seen}
<1>6. 0 \in P
  BY <1>1, <1>2, <1>4
<1>7. ASSUME NEW n \in 1..N, n - 1 \in P PROVE n \in P
  <2>1. n - 1 \in 0..N /\ n \in 0..N /\ \A i \in 1..n : i = n \/ i \in 1..(n - 1)
    BY <1>2
  <2>2. PICK u : u = f[n - 1]
    OBVIOUS
  <2>3. /\ u \in Walks /\ Sound(u, open) /\ w.seen \subseteq u.seen
        /\ \A i \in 1..(n - 1) : names[i] \in u.seen
    BY <1>4, <1>7, <2>1, <2>2
  <2>4. PICK o \in Needed(m) : o = names[n]
    BY <1>5
  <2>5. /\ Sound(Visited(u, o, below, target), open)
        /\ u.seen \cup {o} \subseteq Visited(u, o, below, target).seen
    BY <1>1, <2>3, FoundInOrder
  <2>6. f[n] = Visited(u, o, below, target)
    BY <1>4, <2>2, <2>4
  <2>7. \A i \in 1..n : names[i] \in f[n].seen
    BY <2>1, <2>3, <2>4, <2>5, <2>6
  <2>8. QED
    BY <2>1, <2>3, <2>5, <2>6, <2>7
<1>8. P \in SUBSET (0..N)
  OBVIOUS
<1>9. P = 0..N
  <2> HIDE DEF P
  <2>1. QED
    BY <1>2, <1>6, <1>7, <1>8, UpToN
<1>10. /\ Sound(f[N], open) /\ w.seen \subseteq f[N].seen
       /\ \A i \in 1..N : names[i] \in f[N].seen
  <2>1. N \in P
    BY <1>2, <1>9
  <2>2. QED
    BY <2>1
<1>11. Heard(m) \subseteq f[N].seen
  BY <1>5, <1>10
<1>12. OneFurther(below, target)[m][w] = f[N]
  BY <1>1, <1>2, SearchesTyped
<1>13. QED
  BY <1>10, <1>11, <1>12

\* Where modinfo is followed no further, no module is left that needs another.
LEMMA FindsAtOnce ==
    ASSUME KernelType(tree), NEW target
    PROVE  Finds(NotFurther, 0, target)
<1>1. SUFFICES ASSUME NEW m \in Names, NEW w \in Walks, NEW open,
                      Below(open, m, 0), Sound(w, open)
               PROVE  /\ Sound(NotFurther[m][w], open)
                      /\ w.seen \cup Heard(m) \subseteq NotFurther[m][w].seen
  BY DEF Finds
<1>2. NotFurther[m][w] = w
  BY <1>1, SearchesTyped
<1>3. Needed(m) = {}
  <2>1. SUFFICES ASSUME NEW b \in Needed(m) PROVE FALSE
    OBVIOUS
  <2>2. b \in Tall[0]
    BY TreeTyped, TallIs
  <2>3. 0 \in 0..(MaxDepth + 1) /\ m \notin Tall[0 + 1]
    BY <1>1, DepthBounded DEF Below
  <2>4. QED
    BY <2>2, <2>3, LongerThanNeeded
<1>4. QED
  BY <1>1, <1>2, <1>3 DEF Heard

\* The dependencies of a target, in order, and all that it is known to need.
LEMMA DependenciesFound ==
    ASSUME KernelType(tree), HomesMade(tree), NEW target, Last(target) \in Names
    PROVE  /\ DependencyTargets(target) \in Seq(Seq(Names))
           /\ Last(target) \notin Tall[MaxDepth + 2] =>
                 /\ InOrder(DependencyTargets(target))
                 /\ Before(target) \subseteq ToSet(DependencyTargets(target))
                 /\ \A t \in ToSet(DependencyTargets(target)) :
                       t # NoTarget /\ \E n \in Installed : t = tree.home[n]
<1>1. PICK T, N, base, r :
        T = Searches /\ N = MaxDepth + 1 /\ base = NotFurther /\ r = Last(target)
  OBVIOUS
<1>2. N \in Nat /\ base \in T /\ r \in Names
  BY <1>1, DepthBounded, SearchesTyped
<1>3. VisitStay(T, target, N)
  BY <1>1, SearchesTyped DEF VisitStay
<1>4. PICK f : /\ VisitSteps(f, T, target, N, base)
               /\ DependencyTargets(target)
                  = f[N][Last(target)][[seen |-> {Last(target)}, list |-> <<>>]].list
  <2>1. N \in Nat /\ base \in T /\ N = MaxDepth + 1 /\ base = NotFurther
    BY <1>1, <1>2
  <2>2. QED
    BY ONLY <2>1, <1>3, DependencyTargetsBuilt
<1>5. /\ f \in [0..N -> Searches] /\ f[0] = NotFurther
      /\ \A n \in 1..N : f[n] = OneFurther(f[n - 1], target)
  BY <1>1, <1>4 DEF VisitSteps
<1>6. \A n \in 0..N : f[n] \in Searches /\ Finds(f[n], n, target)
  <2> DEFINE P == {n \in 0..N : Finds(f[n], n, target)}
  <2>1. 0 \in P
    BY <1>2, <1>5, FindsAtOnce
  <2>2. ASSUME NEW n \in 1..N, n - 1 \in P PROVE n \in P
    <3>1. n \in 1..(MaxDepth + 1) /\ n \in 0..N /\ n - 1 \in 0..N
      BY <1>1, <1>2
    <3>2. PICK below : below = f[n - 1]
      OBVIOUS
    <3>3. below \in Searches /\ Finds(below, n - 1, target)
      BY <1>5, <2>2, <3>1, <3>2
    <3>4. Finds(OneFurther(below, target), n, target)
      BY <3>1, <3>3, FindsFurther
    <3>5. f[n] = OneFurther(below, target)
      BY <1>5, <3>2
    <3>6. QED
      BY <3>1, <3>4, <3>5
  <2>3. P \in SUBSET (0..N)
    OBVIOUS
  <2>4. P = 0..N
    <3> HIDE DEF P
    <3>1. QED
      BY <1>2, <2>1, <2>2, <2>3, UpToN
  <2>5. QED
    BY <1>5, <2>4
<1>7. PICK w : w = [seen |-> {r}, list |-> <<>>]
  OBVIOUS
<1>8. w = [seen |-> w.seen, list |-> w.list] /\ w.seen = {r} /\ w.list = <<>>
  BY <1>7
<1>9. w \in Walks
  <2>1. <<>> \in Seq(Seq(Names)) /\ {r} \subseteq Names
    BY <1>2
  <2>2. w.list \in Seq(Seq(Names)) /\ w.seen \subseteq Names
    BY <1>8, <2>1
  <2>3. QED
    BY <1>8, <2>2, WalksAre
<1>10. PICK search : search = f[N]
  OBVIOUS
<1>11. search \in Searches /\ Finds(search, N, target)
  BY <1>2, <1>6, <1>10
<1>12. PICK v : v = search[r][w]
  OBVIOUS
<1>13. v \in Walks
  BY <1>2, <1>9, <1>11, <1>12 DEF Searches
<1>14. DependencyTargets(target) = v.list
  BY <1>1, <1>4, <1>7, <1>10, <1>12
<1>15. v.list \in Seq(Seq(Names))
  BY <1>13, WalksAre
<1>16. ASSUME r \notin Tall[MaxDepth + 2]
       PROVE  /\ InOrder(v.list) /\ Before(target) \subseteq ToSet(v.list)
              /\ \A t \in ToSet(v.list) : t # NoTarget /\ \E n \in Installed : t = tree.home[n]
  <2>1. N + 1 = MaxDepth + 2 /\ N \in 0..(MaxDepth + 1)
    BY <1>1, <1>2, DepthBounded
  <2>2. Below({r}, r, N)
    BY <1>16, <2>1 DEF Below
  <2>3. Sound(w, {r})
    BY <1>8 DEF Sound, InOrder, ToSet
  <2>4. Sound(v, {r}) /\ w.seen \cup Heard(r) \subseteq v.seen
    BY <1>1, <1>2, <1>8, <1>9, <1>11, <1>12, <2>2, <2>3 DEF Finds
  <2>5. ASSUME NEW b \in Heard(r), Answers("path", b), tree.home[b] # NoTarget
        PROVE  tree.home[b] \in ToSet(v.list)
    <3>3. b \in Needed(r)
      BY DEF Heard
    <3>1. b # r
      BY <1>16, <2>1, <3>3, LongerThanNeeded, NotLongerThanItself
    <3>2. QED
      BY <2>4, <2>5, <3>1 DEF Sound
  <2>6. Before(target) \subseteq ToSet(v.list)
    BY <1>1, <2>5 DEF Before
  <2>7. QED
    BY <2>4, <2>6 DEF Sound
<1>17. QED
  BY <1>1, <1>14, <1>15, <1>16

LEMMA LastIs ==
    ASSUME NEW S, NEW s \in Seq(S), s # <<>>
    PROVE  Last(s) \in S
BY DEF Last

\* The targets with what they depend on: in order, and none is lost.
LEMMA ExpandedInOrder ==
    ASSUME KernelType(tree), HomesMade(tree), NEW targets, targets \in Seq(Seq(Names)),
           \A t \in ToSet(targets) : t # NoTarget
    PROVE  /\ Expand(targets) \in Seq(Seq(Names))
           /\ ToSet(targets) \subseteq ToSet(Expand(targets))
           /\ (\A t \in ToSet(targets) : Last(t) \notin Tall[MaxDepth + 2]) =>
                 /\ InOrder(Expand(targets))
                 /\ \A t \in ToSet(Expand(targets)) \ ToSet(targets) :
                       t # NoTarget /\ \E n \in Installed : t = tree.home[n]
<1>1. PICK S : S = Seq(Names)
  OBVIOUS
<1>2. PICK T, N, base : T = Seq(S) /\ N = Len(targets) /\ base = <<>>
  OBVIOUS
<1>3. /\ N \in Nat /\ base \in T /\ DOMAIN targets = 1..N
      /\ \A n \in 1..N : targets[n] \in S /\ targets[n] \in ToSet(targets)
  BY SMTT(30), <1>1, <1>2 DEF ToSet
<1>4. ASSUME NEW n \in 1..N
      PROVE  /\ DependencyTargets(targets[n]) \in Seq(S)
             /\ Last(targets[n]) \notin Tall[MaxDepth + 2] =>
                   /\ InOrder(DependencyTargets(targets[n]))
                   /\ Before(targets[n]) \subseteq ToSet(DependencyTargets(targets[n]))
                   /\ \A t \in ToSet(DependencyTargets(targets[n])) :
                         t # NoTarget /\ \E m \in Installed : t = tree.home[m]
  <2>1. PICK t : t = targets[n]
    OBVIOUS
  <2>2. t \in Seq(Names) /\ t # <<>>
    BY <1>1, <1>3, <2>1 DEF NoTarget
  <2>3. Last(t) \in Names
    BY <2>2, LastIs
  <2>4. QED
    BY <1>1, <2>1, <2>3, DependenciesFound
<1>5. ASSUME NEW n \in 1..N, NEW u \in T
      PROVE  /\ Joined(JoinedAll(u, DependencyTargets(targets[n])), targets[n]) \in T
             /\ ToSet(Joined(JoinedAll(u, DependencyTargets(targets[n])), targets[n]))
                = (ToSet(u) \cup ToSet(DependencyTargets(targets[n]))) \cup {targets[n]}
             /\ InOrder(u) /\ Last(targets[n]) \notin Tall[MaxDepth + 2] =>
                   InOrder(Joined(JoinedAll(u, DependencyTargets(targets[n])), targets[n]))
  <2>1. PICK more, t : more = DependencyTargets(targets[n]) /\ t = targets[n]
    OBVIOUS
  <2>2. u \in Seq(S) /\ more \in Seq(S) /\ t \in S
    BY <1>2, <1>3, <1>4, <2>1
  <2>3. PICK all : all = JoinedAll(u, more)
    OBVIOUS
  <2>4. /\ all \in Seq(S) /\ ToSet(all) = ToSet(u) \cup ToSet(more)
        /\ InOrder(u) /\ InOrder(more) => InOrder(all)
    BY ONLY <2>2, <2>3, JoinedAllInOrder
  <2>5. Joined(all, t) \in Seq(S) /\ ToSet(Joined(all, t)) = ToSet(all) \cup {t}
    BY ONLY <2>2, <2>4, JoinedEntries
  <2>6. ASSUME InOrder(u), Last(t) \notin Tall[MaxDepth + 2] PROVE InOrder(Joined(all, t))
    <3>1. InOrder(all) /\ Before(t) \subseteq ToSet(all)
      BY <1>4, <2>1, <2>4, <2>6
    <3>2. QED
      BY ONLY <2>2, <2>4, <3>1, JoinedInOrder
  <2>7. QED
    BY <1>2, <2>1, <2>3, <2>4, <2>5, <2>6
<1>6. ExpansionStay(T, targets, N)
  BY <1>5 DEF ExpansionStay, AfterNeeded
<1>7. PICK f : ExpansionSteps(f, T, targets, N, base) /\ Expand(targets) = f[N]
  <2>1. N \in Nat /\ base \in T /\ N = Len(targets) /\ base = <<>>
    BY <1>2, <1>3
  <2>2. QED
    BY ONLY <2>1, <1>6, ExpandBuilt
<1>8. /\ f \in [0..N -> T] /\ f[0] = <<>>
      /\ \A n \in 1..N :
           f[n] = Joined(JoinedAll(f[n - 1], DependencyTargets(targets[n])), targets[n])
  BY <1>2, <1>7 DEF ExpansionSteps, AfterNeeded
<1> DEFINE fit == \A t \in ToSet(targets) : Last(t) \notin Tall[MaxDepth + 2]
           Homely(list) == \A t \in ToSet(list) \ ToSet(targets) :
                              t # NoTarget /\ \E m \in Installed : t = tree.home[m]
           P == {n \in 0..N : /\ \A i \in 1..n : targets[i] \in ToSet(f[n])
                              /\ fit => InOrder(f[n]) /\ Homely(f[n])}
<1>9. 0 \in P
  <2>1. ToSet(f[0]) = {} /\ InOrder(f[0])
    BY <1>8 DEF ToSet, InOrder
  <2>2. QED
    BY <1>3, <2>1
<1>10. ASSUME NEW n \in 1..N, n - 1 \in P PROVE n \in P
  <2>1. n - 1 \in 0..N /\ n \in 0..N /\ \A i \in 1..n : i = n \/ i \in 1..(n - 1)
    BY <1>3
  <2>2. PICK u : u = f[n - 1]
    OBVIOUS
  <2>3. u \in T /\ (\A i \in 1..(n - 1) : targets[i] \in ToSet(u))
    BY <1>8, <1>10, <2>1, <2>2
  <2>4. f[n] = Joined(JoinedAll(u, DependencyTargets(targets[n])), targets[n])
    BY <1>8, <2>2
  <2>5. /\ ToSet(f[n]) = (ToSet(u) \cup ToSet(DependencyTargets(targets[n]))) \cup {targets[n]}
        /\ InOrder(u) /\ Last(targets[n]) \notin Tall[MaxDepth + 2] => InOrder(f[n])
    BY <1>5, <2>3, <2>4
  <2>6. \A i \in 1..n : targets[i] \in ToSet(f[n])
    BY <2>1, <2>3, <2>5
  <2>7. ASSUME fit PROVE InOrder(f[n]) /\ Homely(f[n])
    <3>1. InOrder(u) /\ Homely(u)
      BY <1>10, <2>2, <2>7
    <3>2. Last(targets[n]) \notin Tall[MaxDepth + 2] /\ targets[n] \in ToSet(targets)
      BY <1>3, <2>7
    <3>3. QED
      BY <1>4, <2>5, <3>1, <3>2
  <2>8. QED
    BY <2>1, <2>6, <2>7
<1>11. P \in SUBSET (0..N)
  OBVIOUS
<1>12. N \in P
  <2> HIDE DEF P
  <2>1. QED
    BY <1>3, <1>9, <1>10, <1>11, UpToN
<1>13. /\ \A i \in 1..N : targets[i] \in ToSet(f[N])
       /\ fit => InOrder(f[N]) /\ Homely(f[N])
  BY <1>12
<1>14. ToSet(targets) \subseteq ToSet(f[N])
  BY <1>3, <1>13 DEF ToSet
<1>15. f[N] \in Seq(Seq(Names))
  BY <1>1, <1>2, <1>3, <1>8
<1>16. QED
  BY <1>7, <1>13, <1>14, <1>15

----------------------------------------------------------------------------
(* Reading the Makefiles *)

\* The lines of a directory, and their gates.
LEMMA LinesTyped ==
    ASSUME KernelType(tree), NEW dir
    PROVE  Lines(dir) \in Seq(LineType(DOMAIN tree.config))
<1>1. <<>> \in Seq(LineType(DOMAIN tree.config))
  OBVIOUS
<1>2. QED
  BY <1>1 DEF Lines, KernelType

LEMMA GatesKnown ==
    ASSUME KernelType(tree), NEW dir, NEW l \in ToSet(Lines(dir))
    PROVE  /\ l.gate \in {"y", "m"} \cup DOMAIN tree.config
           /\ GateValue(l.gate) \in {"y", "m", "n"}
<1>1. l \in LineType(DOMAIN tree.config)
  BY LinesTyped DEF ToSet
<1>2. l.gate \in {"y", "m"} \cup DOMAIN tree.config
  BY <1>1 DEF LineType
<1>3. QED
  BY <1>2 DEF GateValue, KernelType

\* The earliest of some lines is one of them.
LEMMA EarliestIsOne ==
    ASSUME KernelType(tree), NEW dir, NEW lines \in SUBSET ToSet(Lines(dir)), lines # {}
    PROVE  EarliestOf(dir, lines) \in lines
<1> DEFINE at == {i \in DOMAIN Lines(dir) : Lines(dir)[i] \in lines}
<1>1. DOMAIN Lines(dir) \subseteq Nat
  BY LinesTyped
<1>2. at \in SUBSET Nat /\ at # {}
  BY <1>1 DEF ToSet
<1>3. \E n \in at : \A k \in at : n <= k
  <2> HIDE DEF at
  <2>1. QED
    BY <1>2, LeastNumber
<1>4. Min(at) \in at
  BY <1>3 DEF Min
<1>5. QED
  BY <1>4 DEF EarliestOf

\* A gate that is off has lines, and all of them are off.
LEMMA OffMeansAll ==
    ASSUME KernelType(tree), NEW dir, NEW item, FirstOn(dir, item) = "off"
    PROVE  /\ ObjLines(dir, item) # {}
           /\ \A l \in ObjLines(dir, item) : GateValue(l.gate) = "n"
<1> DEFINE lines == ObjLines(dir, item)
           on == {l \in lines : IsOn(l)}
<1>1. lines # {}
  BY DEF FirstOn
<1>2. on \in SUBSET ToSet(Lines(dir))
  BY DEF ObjLines
<1>3. ASSUME on # {} PROVE FALSE
  <2>1. EarliestOf(dir, on) \in on
    BY <1>2, <1>3, EarliestIsOne
  <2>2. GateValue(EarliestOf(dir, on).gate) \in {"y", "m", "n"}
    <3> HIDE DEF on
    <3>1. QED
      BY <2>1, <1>2, GatesKnown
  <2>3. FirstOn(dir, item) = GateValue(EarliestOf(dir, on).gate)
    BY <1>1, <1>3 DEF FirstOn
  <2>4. QED
    BY <2>2, <2>3
<1>4. QED
  BY <1>1, <1>3 DEF IsOn

\* The object of a file is the file's own, in no composite, or a composite's that
\* takes it.
LEMMA FinalObjectIs ==
    ASSUME KernelType(tree), NEW f
    PROVE  \/ /\ FinalObject(f) = f.name
              /\ \A l \in ToSet(Lines(f.dirs)) : f.name \in l.items => l.of = "obj"
           \/ \E l \in ToSet(Lines(f.dirs)) :
                 l.of # "obj" /\ f.name \in l.items /\ FinalObject(f) = l.of
<1> DEFINE lines == {l \in ToSet(Lines(f.dirs)) : l.of # "obj" /\ f.name \in l.items}
<1>1. CASE lines = {}
  BY <1>1 DEF FinalObject
<1>2. CASE lines # {}
  <2>1. lines \in SUBSET ToSet(Lines(f.dirs))
    OBVIOUS
  <2>2. EarliestOf(f.dirs, lines) \in lines
    <3> HIDE DEF lines
    <3>1. QED
      BY <1>2, <2>1, EarliestIsOne
  <2>3. FinalObject(f) = EarliestOf(f.dirs, lines).of
    BY <1>2 DEF FinalObject
  <2>4. QED
    BY <2>2, <2>3
<1>3. QED
  BY <1>1, <1>2

----------------------------------------------------------------------------
(* A disabled file *)

LEMMA AppendIsSome ==
    ASSUME NEW S, NEW s \in Seq(S), NEW e
    PROVE  Append(s, e) # <<>>
<1>1. s \in Seq(S \cup {e}) /\ e \in S \cup {e}
  OBVIOUS
<1>2. Len(Append(s, e)) = Len(s) + 1 /\ Len(s) \in Nat
  BY <1>1
<1>3. QED
  BY <1>2

\* The gate of a directory on the way to it, or its own, is off.
LEMMA DisabledByGate ==
    ASSUME NEW f, FileType(f), Detail(f) = NoTarget
    PROVE  \/ \E n \in 1..Len(f.dirs) : FirstOn(SubSeq(f.dirs, 1, n - 1), f.dirs[n]) = "off"
           \/ FirstOn(f.dirs, FinalObject(f)) = "off"
<1>1. Append(f.dirs, FinalObject(f)) # NoTarget
  <2>1. \E S : f.dirs \in Seq(S)
    BY Zenon DEF FileType
  <2>2. QED
    BY <2>1, AppendIsSome DEF NoTarget
<1>2. f.c \in BOOLEAN
  BY Zenon DEF FileType
<1>3. Vmlinux # NoTarget
  BY DEF Vmlinux, NoTarget
<1>4. DirectoryOff(f.dirs) \/ FirstOn(f.dirs, FinalObject(f)) = "off"
  BY <1>1, <1>2, <1>3 DEF Detail
<1>5. QED
  BY <1>4 DEF DirectoryOff

\* An object that one composite takes, or none, has one home.
LEMMA OneHome ==
    ASSUME KernelType(tree), NEW f, Plainly(f), NEW o \in Homes(f)
    PROVE  o = FinalObject(f)
<1>1. /\ o # "obj" /\ ObjLines(f.dirs, o) # {}
      /\ \/ o = f.name
         \/ \E l \in ToSet(Lines(f.dirs)) : l.of = o /\ f.name \in l.items
  BY DEF Homes
<1>2. \A k, l \in ToSet(Lines(f.dirs)) : f.name \in k.items /\ f.name \in l.items => k.of = l.of
  BY DEF Plainly
<1>3. PICK k \in ToSet(Lines(f.dirs)) : k.of = "obj" /\ o \in k.items
  BY <1>1 DEF ObjLines
<1>4. QED
  BY <1>1, <1>2, <1>3, FinalObjectIs

\* So kbuild leaves it out, if it has one home.
LEMMA LeftOut ==
    ASSUME KernelType(tree), NEW f, FileType(f), Detail(f) = NoTarget, Plainly(f)
    PROVE  ~Compiled(f)
<1>1. CASE \E n \in 1..Len(f.dirs) : FirstOn(SubSeq(f.dirs, 1, n - 1), f.dirs[n]) = "off"
  <2>1. PICK n \in 1..Len(f.dirs) : FirstOn(SubSeq(f.dirs, 1, n - 1), f.dirs[n]) = "off"
    BY <1>1
  <2> DEFINE lines == ObjLines(SubSeq(f.dirs, 1, n - 1), f.dirs[n])
  <2>2. lines # {} /\ \A l \in lines : GateValue(l.gate) = "n"
    BY <2>1, OffMeansAll
  <2>3. ~Reached(f)
    BY <2>2 DEF Reached, IsOn
  <2>4. QED
    BY <2>3 DEF Compiled
<1>2. CASE FirstOn(f.dirs, FinalObject(f)) = "off"
  <2>1. /\ ObjLines(f.dirs, FinalObject(f)) # {}
        /\ \A l \in ObjLines(f.dirs, FinalObject(f)) : GateValue(l.gate) = "n"
    BY <1>2, OffMeansAll
  <2>2. \A o \in Homes(f) : o = FinalObject(f)
    BY OneHome
  <2>3. \A o \in Homes(f) : HomeState(f, o) = "n"
    BY <2>1, <2>2 DEF HomeState
  <2>4. QED
    BY <2>3 DEF Compiled
<1>3. QED
  BY <1>1, <1>2, DisabledByGate

\* And the options of some gate on the way to it are off.
LEMMA OptionsAreOff ==
    ASSUME KernelType(tree), NEW f, FileType(f), Detail(f) = NoTarget
    PROVE  \E keys \in GateKeys(f) : keys # {} /\ \A o \in keys : tree.config[o] = "n"
<1>1. ASSUME NEW dir, NEW item, FirstOn(dir, item) = "off"
      PROVE  /\ OptionsOf(ObjLines(dir, item)) # {}
             /\ \A o \in OptionsOf(ObjLines(dir, item)) : tree.config[o] = "n"
  <2>1. ASSUME NEW l \in ObjLines(dir, item)
        PROVE  l.gate \in DOMAIN tree.config /\ tree.config[l.gate] = "n"
    <3>1. GateValue(l.gate) = "n"
      BY <1>1, OffMeansAll
    <3>2. l.gate \in {"y", "m"} \cup DOMAIN tree.config
      BY GatesKnown DEF ObjLines
    <3>3. QED
      BY <3>1, <3>2 DEF GateValue
  <2>2. ObjLines(dir, item) # {}
    BY <1>1, OffMeansAll
  <2>3. QED
    BY <2>1, <2>2 DEF OptionsOf
<1>2. CASE \E n \in 1..Len(f.dirs) : FirstOn(SubSeq(f.dirs, 1, n - 1), f.dirs[n]) = "off"
  <2>1. PICK n \in 1..Len(f.dirs) : FirstOn(SubSeq(f.dirs, 1, n - 1), f.dirs[n]) = "off"
    BY <1>2
  <2> DEFINE keys == OptionsOf(ObjLines(SubSeq(f.dirs, 1, n - 1), f.dirs[n]))
  <2>2. keys # {} /\ \A o \in keys : tree.config[o] = "n"
    BY <1>1, <2>1
  <2>3. keys \in GateKeys(f)
    BY DEF GateKeys
  <2>4. QED
    BY <2>2, <2>3
<1>3. CASE FirstOn(f.dirs, FinalObject(f)) = "off"
  BY <1>1, <1>3 DEF GateKeys
<1>4. QED
  BY <1>2, <1>3, DisabledByGate

----------------------------------------------------------------------------
(* What is inferred covers the patch *)

\* The object of a file has a name of its own.
LEMMA ObjectNamed ==
    ASSUME KernelType(tree), NEW f, FileType(f)
    PROVE  f.dirs \in Seq(Names) /\ FinalObject(f) \in Names
<1>1. f.name \in Names /\ f.dirs \in Seq(Names)
  BY Zenon DEF FileType, Names
<1>2. ASSUME NEW l \in ToSet(Lines(f.dirs)) PROVE l.of \in Names
  <2>1. l \in LineType(DOMAIN tree.config)
    BY LinesTyped DEF ToSet
  <2>2. PICK S, G, I : S = STRING /\ G = {"y", "m"} \cup DOMAIN tree.config /\ I = SUBSET STRING
    OBVIOUS
  <2>3. LineType(DOMAIN tree.config) = [of : S, gate : G, items : I]
    BY <2>2, Zenon DEF LineType
  <2>4. l.of \in S
    <3>1. l \in [of : S, gate : G, items : I]
      BY <2>1, <2>3
    <3>2. QED
      BY ONLY <3>1
  <2>5. QED
    BY <2>2, <2>4, Zenon DEF Names
<1>3. QED
  BY <1>1, <1>2, FinalObjectIs

\* What a file that is not left out ends up in.
LEMMA DetailIs ==
    ASSUME NEW f, Detail(f) # NoTarget
    PROVE  \/ Detail(f) = Vmlinux
           \/ /\ Detail(f) = Append(f.dirs, FinalObject(f))
              /\ FirstOn(f.dirs, FinalObject(f)) = "m"
BY DEF Detail

LEMMA AppendEnds ==
    ASSUME NEW S, NEW s \in Seq(S), NEW e \in S
    PROVE  Append(s, e) \in Seq(S) /\ Append(s, e) # <<>> /\ Last(Append(s, e)) = e
<1>1. PICK t : t = Append(s, e)
  OBVIOUS
<1>2. t \in Seq(S) /\ Len(t) = Len(s) + 1 /\ t[Len(s) + 1] = e /\ Len(s) \in Nat
  BY <1>1
<1>3. t # <<>>
  BY <1>2
<1>4. QED
  BY <1>1, <1>2, <1>3 DEF Last

\* A module that obj- makes is installed from there, if it is.
LEMMA ListedIsHome ==
    ASSUME KernelType(tree), HomesMade(tree), NEW dir, NEW o \in Installed,
           FirstOn(dir, o) = "m"
    PROVE  tree.home[o] = Append(dir, o)
<1> DEFINE on == {l \in ObjLines(dir, o) : IsOn(l)}
<1>1. on # {} /\ GateValue(EarliestOf(dir, on).gate) = "m"
  BY DEF FirstOn
<1>2. PICK l : l = EarliestOf(dir, on)
  OBVIOUS
<1>3. l \in on
  <2>1. on \in SUBSET ToSet(Lines(dir))
    BY DEF ObjLines
  <2> HIDE DEF on
  <2>2. QED
    BY <1>1, <1>2, <2>1, EarliestIsOne
<1>4. l \in ToSet(Lines(dir)) /\ l.of = "obj" /\ o \in l.items /\ l.gate # "y"
  BY <1>1, <1>2, <1>3 DEF ObjLines, GateValue
<1>5. dir \in DOMAIN tree.make /\ Lines(dir) = tree.make[dir]
  BY <1>4 DEF Lines, ToSet
<1>6. DOMAIN tree.home = Installed
  BY Zenon DEF KernelType, Installed
<1>7. QED
  BY <1>4, <1>5, <1>6 DEF HomesMade

\* The entries of a list are all there is in it.
LEMMA KindOfEntries ==
    ASSUME NEW S, NEW T, NEW s, s \in Seq(S), \A i \in 1..Len(s) : s[i] \in T
    PROVE  s \in Seq(T)
OBVIOUS

\* The modules of the files are what the files are filed under.
LEMMA ModulesAre ==
    ASSUME NEW S, NEW details, details \in Seq(S)
    PROVE  /\ Modules(details) \in Seq(S)
           /\ ToSet(Modules(details)) = ToSet(details) \ {Vmlinux, NoTarget}
<1>1. PICK T, N, base : T = Seq(S) /\ N = Len(details) /\ base = <<>>
  OBVIOUS
<1>2. N \in Nat /\ base \in T /\ DOMAIN details = 1..N /\ \A n \in 1..N : details[n] \in S
  BY <1>1
<1>3. NamingStay(T, details, N)
  BY <1>1, <1>2, JoinedEntries DEF NamingStay, WithModule
<1>4. PICK f : NamingSteps(f, T, details, N, base) /\ Modules(details) = f[N]
  <2>1. N \in Nat /\ base \in T /\ N = Len(details) /\ base = <<>>
    BY <1>1, <1>2
  <2>2. QED
    BY ONLY <2>1, <1>3, ModulesBuilt
<1>5. /\ f \in [0..N -> T] /\ f[0] = <<>>
      /\ \A n \in 1..N : f[n] = IF details[n] \in {Vmlinux, NoTarget} THEN f[n - 1]
                                ELSE Joined(f[n - 1], details[n])
  BY <1>1, <1>4 DEF NamingSteps, WithModule
<1> DEFINE P == {n \in 0..N :
                   ToSet(f[n]) = {details[i] : i \in 1..n} \ {Vmlinux, NoTarget}}
<1>6. 0 \in P
  <2>1. ToSet(f[0]) = {}
    BY <1>5 DEF ToSet
  <2>2. QED
    BY <1>2, <2>1
<1>7. ASSUME NEW n \in 1..N, n - 1 \in P PROVE n \in P
  <2>1. n - 1 \in 0..N /\ n \in 0..N /\ 1..n = (1..(n - 1)) \cup {n}
    BY <1>2
  <2>2. PICK r, t : r = f[n - 1] /\ t = details[n]
    OBVIOUS
  <2>3. /\ r \in Seq(S) /\ t \in S
        /\ ToSet(r) = {details[i] : i \in 1..(n - 1)} \ {Vmlinux, NoTarget}
    BY <1>1, <1>2, <1>5, <1>7, <2>1, <2>2
  <2>4. ToSet(Joined(r, t)) = ToSet(r) \cup {t}
    BY ONLY <2>3, JoinedEntries
  <2>5. f[n] = IF t \in {Vmlinux, NoTarget} THEN r ELSE Joined(r, t)
    BY <1>5, <2>2
  <2>6. ToSet(f[n]) = (ToSet(r) \cup {t}) \ {Vmlinux, NoTarget}
    BY <2>3, <2>4, <2>5
  <2>7. ToSet(f[n]) = {details[i] : i \in 1..n} \ {Vmlinux, NoTarget}
    BY <2>1, <2>2, <2>3, <2>6
  <2>8. QED
    BY <2>1, <2>7
<1>8. P \in SUBSET (0..N)
  OBVIOUS
<1>9. N \in P
  <2> HIDE DEF P
  <2>1. QED
    BY <1>2, <1>6, <1>7, <1>8, UpToN
<1>10. ToSet(f[N]) = {details[i] : i \in 1..N} \ {Vmlinux, NoTarget} /\ f[N] \in Seq(S)
  BY <1>1, <1>2, <1>5, <1>9
<1>11. ToSet(details) = {details[i] : i \in 1..N}
  BY <1>2 DEF ToSet
<1>12. QED
  BY <1>4, <1>10, <1>11

\* The first line that is on speaks for all, if they agree.
LEMMA FirstSpeaksForAll ==
    ASSUME KernelType(tree), NEW f, Plainly(f), NEW o, o = FinalObject(f),
           ObjLines(f.dirs, o) # {}
    PROVE  FirstOn(f.dirs, o) = IF HomeState(f, o) = "n" THEN "off" ELSE HomeState(f, o)
<1> DEFINE lines == ObjLines(f.dirs, o)
           on == {l \in lines : IsOn(l)}
           states == {GateValue(l.gate) : l \in lines}
<1>1. HomeState(f, o) = IF "y" \in states THEN "y" ELSE IF "m" \in states THEN "m" ELSE "n"
  BY DEF HomeState
<1>2. \A l \in lines : GateValue(l.gate) \in {"y", "m", "n"}
  BY GatesKnown DEF ObjLines
<1>3. CASE on = {}
  <2>1. FirstOn(f.dirs, o) = "off"
    BY <1>3 DEF FirstOn
  <2>2. \A l \in lines : GateValue(l.gate) = "n"
    BY <1>3 DEF IsOn
  <2>3. QED
    BY <1>1, <2>1, <2>2
<1>4. CASE on # {}
  <2>1. on \in SUBSET ToSet(Lines(f.dirs))
    BY DEF ObjLines
  <2>2. PICK e : e = EarliestOf(f.dirs, on)
    OBVIOUS
  <2>3. e \in on
    <3> HIDE DEF on
    <3>1. QED
      BY <1>4, <2>1, <2>2, EarliestIsOne
  <2>4. FirstOn(f.dirs, o) = GateValue(e.gate)
    BY <1>4, <2>2 DEF FirstOn
  <2>5. GateValue(e.gate) \in {"y", "m"}
    BY <1>2, <2>3 DEF IsOn
  <2>6. \A l \in lines : GateValue(l.gate) \in {GateValue(e.gate), "n"}
    BY <2>3 DEF Plainly, IsOn
  <2>7. GateValue(e.gate) \in states
    BY <2>3
  <2>8. QED
    BY <1>1, <2>4, <2>5, <2>6, <2>7
<1>5. QED
  BY <1>3, <1>4

\* TargetsCoverThePatch, of some targets.
Covers(targets) ==
    /\ survey.auto =>
          \A f \in ToSet(touched) : \A o \in Homes(f) :
             (f.c /\ Plainly(f) /\ Reached(f)) =>
                CASE HomeState(f, o) = "y" -> Vmlinux \in ToSet(targets)
                  [] HomeState(f, o) = "m" -> Append(f.dirs, o) \in ToSet(targets)
                  [] OTHER -> FALSE
    /\ (survey.expand /\ \A t \in ToSet(targets) : Last(t) \notin Tall[MaxDepth + 2]) =>
          \A i, j \in DOMAIN targets :
             (/\ Last(targets[j]) \in DOMAIN tree.depends
              /\ Last(targets[i]) \in ToSet(tree.depends[Last(targets[j])])
              /\ Answers("depends", Last(targets[j]))
              /\ Answers("path", Last(targets[i])))
                => i < j

\* What is inferred covers the patch.
LEMMA InferredCovers ==
    ASSUME KernelType(tree), HomesMade(tree), touched \in TouchedSets, Disabled = {}
    PROVE  Covers(InferTargets)
<1>1. PICK N : N = Len(touched)
  OBVIOUS
<1>2. /\ N \in Nat /\ DOMAIN touched = 1..N
      /\ \A i \in 1..N : FileType(touched[i]) /\ Detail(touched[i]) # NoTarget
  <2>1. PICK T : T = ToSet(touched)
    OBVIOUS
  <2>2. touched \in Seq(T) /\ \A i \in DOMAIN touched : FileType(touched[i])
    BY <2>1, FilesTyped
  <2>3. QED
    BY <1>1, <2>2 DEF Disabled
<1>3. PICK details : details = [i \in 1..N |-> Detail(touched[i])]
  OBVIOUS
<1>4. \A i \in 1..N :
        /\ details[i] = Detail(touched[i]) /\ details[i] # NoTarget
        /\ \/ details[i] = Vmlinux
           \/ /\ details[i] = Append(touched[i].dirs, FinalObject(touched[i]))
              /\ FirstOn(touched[i].dirs, FinalObject(touched[i])) = "m"
  BY <1>2, <1>3, DetailIs
<1>5. PICK S : S = Seq(Names) \cup {Vmlinux}
  OBVIOUS
<1>7. ASSUME NEW i \in 1..N PROVE details[i] \in S
  <2>1. PICK f, o : f = touched[i] /\ o = FinalObject(f)
    OBVIOUS
  <2>2. f.dirs \in Seq(Names) /\ o \in Names
    BY <1>2, <2>1, ObjectNamed
  <2>3. Append(f.dirs, o) \in Seq(Names)
    BY <2>2, AppendEnds
  <2>4. QED
    BY <1>4, <1>5, <2>1, <2>3
<1>8. details \in Seq(S) /\ DOMAIN details = 1..N
  BY <1>2, <1>3, <1>7
<1>9. PICK modules : modules = Modules(details)
  OBVIOUS
<1>10. modules \in Seq(S) /\ ToSet(modules) = ToSet(details) \ {Vmlinux, NoTarget}
  BY ONLY <1>8, <1>9, ModulesAre
<1>6. modules \in Seq(Seq(Names))
  <2>1. \A i \in 1..Len(modules) : modules[i] \in ToSet(modules) /\ modules[i] \in S
    BY <1>10 DEF ToSet
  <2>2. \A i \in 1..Len(modules) : modules[i] \in Seq(Names)
    BY <1>5, <1>10, <2>1
  <2>3. QED
    BY <1>10, <2>2, KindOfEntries
<1>11. ASSUME NEW t \in ToSet(modules)
       PROVE  /\ t # NoTarget
              /\ Last(t) \in Installed => t = tree.home[Last(t)]
  <2>1. PICK i \in 1..N : t = details[i] /\ t # Vmlinux /\ t # NoTarget
    BY <1>8, <1>10 DEF ToSet
  <2>2. PICK f, o : f = touched[i] /\ o = FinalObject(f)
    OBVIOUS
  <2>3. t = Append(f.dirs, o) /\ FirstOn(f.dirs, o) = "m" /\ FileType(f)
    BY <1>2, <1>4, <2>1, <2>2
  <2>4. Last(t) = o
    BY <2>2, <2>3, ObjectNamed, AppendEnds
  <2>5. QED
    BY <2>1, <2>3, <2>4, ListedIsHome
<1>27. CASE ~survey.auto
  <2>1. InferTargets = <<>>
    BY <1>27 DEF InferTargets
  <2>2. QED
    BY <1>27, <2>1 DEF Covers
<1> SUFFICES ASSUME survey.auto PROVE Covers(InferTargets)
  BY <1>27
<1>12. PICK rest : rest = Expanded(modules)
  OBVIOUS
<1>13. /\ rest \in Seq(Seq(Names)) /\ ToSet(modules) \subseteq ToSet(rest)
       /\ (survey.expand /\ \A t \in ToSet(modules) : Last(t) \notin Tall[MaxDepth + 2]) =>
             /\ InOrder(rest)
             /\ \A t \in ToSet(rest) \ ToSet(modules) :
                   t # NoTarget /\ \E n \in Installed : t = tree.home[n]
  BY <1>6, <1>11, <1>12, ExpandedInOrder DEF Expanded
<1>25. rest \in Seq(S)
  <2>1. Len(rest) \in Nat /\ \A i \in 1..Len(rest) : rest[i] \in S
    BY <1>5, <1>13
  <2>2. QED
    BY <1>13, <2>1, KindOfEntries
<1>14. PICK first :
         first = IF Vmlinux \in ToSet(details) \/ modules = <<>> THEN <<Vmlinux>> ELSE <<>>
  OBVIOUS
<1>15. /\ first \in Seq(S) /\ Len(first) \in {0, 1}
       /\ \A i \in 1..Len(first) : first[i] = Vmlinux
       /\ Vmlinux \in ToSet(details) => Len(first) = 1
  <2>1. PICK v \in S : v = Vmlinux
    BY <1>5
  <2>2. CASE first = <<v>>
    <3>1. <<v>> \in Seq(S) /\ Len(<<v>>) = 1 /\ \A i \in 1..1 : <<v>>[i] = v
      OBVIOUS
    <3>2. QED
      BY <2>1, <2>2, <3>1
  <2>3. CASE first = <<>> /\ Vmlinux \notin ToSet(details)
    <3>1. <<>> \in Seq(S) /\ Len(<<>>) = 0
      OBVIOUS
    <3>2. QED
      BY <2>3, <3>1
  <2>4. QED
    BY <1>14, <2>1, <2>2, <2>3
<1>16. PICK targets : targets = first \o rest
  OBVIOUS
<1>17. InferTargets = targets
  BY <1>1, <1>3, <1>9, <1>12, <1>14, <1>16 DEF InferTargets
<1>18. /\ targets \in Seq(S) /\ DOMAIN targets = 1..(Len(first) + Len(rest))
       /\ Len(rest) \in Nat /\ DOMAIN rest = 1..Len(rest)
       /\ \A i \in 1..Len(first) : targets[i] = Vmlinux
       /\ \A i \in 1..Len(rest) : targets[Len(first) + i] = rest[i]
  BY <1>15, <1>16, <1>25, OneAfterTheOther
<1>19. ToSet(rest) \subseteq ToSet(targets)
  <2>1. SUFFICES ASSUME NEW i \in 1..Len(rest) PROVE rest[i] \in ToSet(targets)
    BY <1>18 DEF ToSet
  <2>2. Len(first) + i \in DOMAIN targets /\ targets[Len(first) + i] = rest[i]
    BY <1>15, <1>18
  <2>3. QED
    BY <2>2 DEF ToSet
<1>20. Vmlinux \in ToSet(details) => Vmlinux \in ToSet(targets)
  <2>1. SUFFICES ASSUME Vmlinux \in ToSet(details) PROVE Vmlinux \in ToSet(targets)
    OBVIOUS
  <2>4. Len(first) = 1
    BY <1>15, <2>1
  <2>2. 1 \in DOMAIN targets /\ targets[1] = Vmlinux
    BY <1>18, <2>4
  <2>3. QED
    BY <2>2 DEF ToSet
<1>21. ASSUME NEW f \in ToSet(touched), NEW o \in Homes(f), f.c, Plainly(f)
       PROVE  CASE HomeState(f, o) = "y" -> Vmlinux \in ToSet(targets)
                [] HomeState(f, o) = "m" -> Append(f.dirs, o) \in ToSet(targets)
                [] OTHER -> FALSE
  <2>1. PICK i \in 1..N : f = touched[i]
    BY <1>2 DEF ToSet
  <2>2. PICK d : d = details[i]
    OBVIOUS
  <2>3. d = Detail(f) /\ d # NoTarget /\ d \in ToSet(details)
    BY <1>4, <1>8, <2>1, <2>2 DEF ToSet
  <2>4. o = FinalObject(f) /\ ObjLines(f.dirs, o) # {}
    BY <1>21, OneHome DEF Homes
  <2>5. FirstOn(f.dirs, o) = IF HomeState(f, o) = "n" THEN "off" ELSE HomeState(f, o)
    BY <1>21, <2>4, FirstSpeaksForAll
  <2>6. HomeState(f, o) \in {"y", "m", "n"}
    BY DEF HomeState
  <2>7. ~DirectoryOff(f.dirs) /\ FirstOn(f.dirs, o) # "off"
    BY <1>21, <2>3, <2>4 DEF Detail
  <2>8. HomeState(f, o) \in {"y", "m"} /\ FirstOn(f.dirs, o) = HomeState(f, o)
    BY <2>5, <2>6, <2>7
  <2>9. CASE HomeState(f, o) = "y"
    <3>1. d = Vmlinux
      BY <1>21, <2>3, <2>4, <2>7, <2>8, <2>9 DEF Detail
    <3>2. QED
      BY <1>20, <2>3, <2>9, <3>1
  <2>10. CASE HomeState(f, o) = "m"
    <3>1. d = Append(f.dirs, o)
      BY <1>21, <2>3, <2>4, <2>7, <2>8, <2>10 DEF Detail
    <3>2. d \in ToSet(targets)
      BY <1>10, <1>13, <1>19, <1>20, <2>3
    <3>3. QED
      BY <2>10, <3>1, <3>2
  <2>11. QED
    BY <2>8, <2>9, <2>10
<1>22. ASSUME survey.expand, \A t \in ToSet(targets) : Last(t) \notin Tall[MaxDepth + 2],
              NEW i \in DOMAIN targets, NEW j \in DOMAIN targets,
              Last(targets[j]) \in DOMAIN tree.depends,
              Last(targets[i]) \in ToSet(tree.depends[Last(targets[j])]),
              Answers("depends", Last(targets[j])), Answers("path", Last(targets[i]))
       PROVE  i < j
  <2>1. /\ InOrder(rest)
        /\ \A t \in ToSet(rest) \ ToSet(modules) :
              t # NoTarget /\ \E n \in Installed : t = tree.home[n]
    BY <1>13, <1>19, <1>22
  <2>2. ASSUME NEW t \in ToSet(rest), Last(t) \in Installed
        PROVE  t # NoTarget /\ t = tree.home[Last(t)]
    <3>1. CASE t \in ToSet(modules)
      BY <1>11, <2>2, <3>1
    <3>2. CASE t \notin ToSet(modules)
      <4>1. PICK n \in Installed : t = tree.home[n] /\ t # NoTarget
        BY <2>1, <3>2
      <4>2. DOMAIN tree.home = Installed
        BY Zenon DEF KernelType, Installed
      <4>3. Last(t) = n
        BY <4>1, <4>2 DEF HomesMade
      <4>4. QED
        BY <4>1, <4>3
    <3>3. QED
      BY <3>1, <3>2
  <2>3. PICK b, m : b = Last(targets[i]) /\ m = Last(targets[j])
    OBVIOUS
  <2>4. m \in Installed /\ b \in Needed(m)
    BY <1>22, <2>3 DEF Installed, Needed, DependsOn
  <2>5. b \in Installed
    BY <2>4, TreeTyped
  <2>6. Last(Vmlinux) = "vmlinux" /\ "vmlinux" \notin Installed
    BY DEF Last, Vmlinux, HomesMade, Installed
  <2>7. ASSUME NEW k \in DOMAIN targets, Last(targets[k]) \in Installed
        PROVE  \E l \in 1..Len(rest) : k = Len(first) + l /\ targets[k] = rest[l]
    <3>1. k \notin 1..Len(first)
      BY <1>18, <2>6, <2>7
    <3>2. k - Len(first) \in 1..Len(rest) /\ k = Len(first) + (k - Len(first))
      BY <1>15, <1>18, <3>1
    <3>3. QED
      BY <1>18, <3>2
  <2>8. PICK x \in 1..Len(rest) : i = Len(first) + x /\ targets[i] = rest[x]
    BY <2>3, <2>5, <2>7
  <2>9. PICK y \in 1..Len(rest) : j = Len(first) + y /\ targets[j] = rest[y]
    BY <2>3, <2>4, <2>7
  <2>10. rest[x] \in ToSet(rest)
    BY <1>18 DEF ToSet
  <2>11. rest[x] = tree.home[b] /\ rest[x] # NoTarget
    BY <2>2, <2>3, <2>5, <2>8, <2>10
  <2>12. rest[x] \in Before(rest[y])
    <3>1. b \in Heard(m) /\ Answers("path", b)
      BY <1>22, <2>3, <2>4 DEF Heard
    <3>2. QED
      BY <2>3, <2>9, <2>11, <3>1 DEF Before
  <2>13. PICK z \in DOMAIN rest : z < y /\ rest[z] = rest[x]
    BY <1>18, <2>1, <2>12 DEF InOrder
  <2>14. z = x
    BY <1>18, <2>1, <2>13 DEF InOrder
  <2>15. QED
    BY <1>15, <1>18, <2>8, <2>9, <2>13, <2>14
<1>23. Covers(targets)
  BY <1>21, <1>22 DEF Covers
<1>24. QED
  BY <1>17, <1>23

----------------------------------------------------------------------------
(* A build is given up for an option *)

\* Once the fragment has been merged, an option it names is on or cannot be "m".
Mended ==
    goal.mended =>
        \A f \in ToSet(touched) : \A o \in ConfigKeys(f) \ tree.bools : tree.config[o] = "m"

\* And nothing a build goes on with is left out.
TargetsOK ==
    /\ KernelType(tree) /\ HomesMade(tree) /\ touched \in TouchedSets
    /\ DOMAIN goal = {"pc", "targets", "mended"}
    /\ Mended
    /\ goal.pc \in {"infer", "inferred"} => Disabled = {}
    /\ goal.pc = "inferred" => Covers(goal.targets)

\* Merging it changes no Makefile, nor which options there are.
LEMMA SameKeys ==
    ASSUME tree'.make = tree.make, DOMAIN tree'.config = DOMAIN tree.config, NEW f
    PROVE  ConfigKeys(f)' = ConfigKeys(f)
<1>1. \A dir : Lines(dir)' = Lines(dir)
  BY DEF Lines
<1>2. \A dir, item : ObjLines(dir, item)' = ObjLines(dir, item)
  BY <1>1 DEF ObjLines
<1>3. \A dir, lines : EarliestOf(dir, lines)' = EarliestOf(dir, lines)
  BY <1>1 DEF EarliestOf
<1>4. FinalObject(f)' = FinalObject(f)
  BY <1>1, <1>3 DEF FinalObject
<1>5. \A lines : OptionsOf(lines)' = OptionsOf(lines)
  BY DEF OptionsOf
<1>6. QED
  BY <1>2, <1>4, <1>5 DEF ConfigKeys, GateKeys

\* Where tree and patch are the same, so is what is read from them.
LEMMA SameReading ==
    ASSUME UNCHANGED <<tree, touched, survey>>
    PROVE  Disabled' = Disabled /\ \A targets : Covers(targets)' = Covers(targets)
<1>1. \A dir, item : ObjLines(dir, item)' = ObjLines(dir, item)
  BY DEF ObjLines, Lines
<1>2. \A dir : Lines(dir)' = Lines(dir)
  BY DEF Lines
<1>3. \A gate : GateValue(gate)' = GateValue(gate)
  BY DEF GateValue
<1>4. \A l : IsOn(l)' = IsOn(l)
  BY <1>3 DEF IsOn
<1>5. \A dir, lines : EarliestOf(dir, lines)' = EarliestOf(dir, lines)
  BY <1>2 DEF EarliestOf
<1>6. \A dir, item : FirstOn(dir, item)' = FirstOn(dir, item)
  BY <1>1, <1>3, <1>4, <1>5 DEF FirstOn
<1>7. \A f : FinalObject(f)' = FinalObject(f)
  BY <1>2, <1>5 DEF FinalObject
<1>8. \A dirs : DirectoryOff(dirs)' = DirectoryOff(dirs)
  BY <1>6 DEF DirectoryOff
<1>9. \A f : Detail(f)' = Detail(f)
  BY <1>6, <1>7, <1>8 DEF Detail
<1>10. Disabled' = Disabled
  BY <1>9 DEF Disabled
<1>11. \A f : Homes(f)' = Homes(f)
  BY <1>1, <1>2, <1>4 DEF Homes
<1>12. \A f, o : HomeState(f, o)' = HomeState(f, o)
  BY <1>1, <1>3 DEF HomeState
<1>13. \A f : Reached(f)' = Reached(f)
  BY <1>1, <1>4 DEF Reached
<1>14. \A f : Plainly(f)' = Plainly(f)
  BY <1>1, <1>2, <1>3, <1>4, <1>7 DEF Plainly
<1>15. Tall' = Tall
  BY Zenon DEF Tall, NeedOneOf
<1>18. \A what, m : Answers(what, m)' = Answers(what, m)
  BY DEF Answers
<1>16. \A targets : Covers(targets)' = Covers(targets)
  BY <1>11, <1>12, <1>13, <1>14, <1>15, <1>18 DEF Covers
<1>17. QED
  BY <1>10, <1>16

LEMMA FragmentMends == TargetsOK /\ MergeFragment => TargetsOK'
<1> SUFFICES ASSUME TargetsOK, MergeFragment PROVE TargetsOK'
  OBVIOUS
<1> DEFINE keys == UNION {ConfigKeys(f) : f \in ToSet(touched)}
           merged == [o \in DOMAIN tree.config |->
                        IF o \in keys \ tree.bools THEN "m" ELSE tree.config[o]]
<1>1. tree' = [tree EXCEPT !.config = merged] /\ touched' = touched
  BY DEF MergeFragment
<1>2. /\ DOMAIN tree' = DOMAIN tree /\ tree'.config = merged /\ tree'.make = tree.make
      /\ tree'.bools = tree.bools /\ tree'.depends = tree.depends /\ tree'.home = tree.home
  <2> HIDE DEF merged
  <2>1. QED
    BY <1>1 DEF TargetsOK, KernelType
<1>3. DOMAIN tree'.config = DOMAIN tree.config
  BY <1>2
<1>4. \A o \in DOMAIN tree.config : tree'.config[o] \in {"y", "m", "n"}
  BY <1>2 DEF TargetsOK, KernelType
<1>5. KernelType(tree)'
  <2> HIDE DEF merged
  <2>1. QED
    BY <1>2, <1>3, <1>4 DEF TargetsOK, KernelType
<1>6. ASSUME NEW f \in ToSet(touched), NEW o \in ConfigKeys(f)', o \notin tree.bools
      PROVE  tree'.config[o] = "m"
  <2>1. o \in ConfigKeys(f)
    BY <1>2, <1>3, SameKeys
  <2>2. o \in DOMAIN tree.config
    BY <2>1 DEF ConfigKeys, GateKeys, OptionsOf
  <2>3. o \in keys
    BY <2>1
  <2>4. QED
    BY <1>2, <1>6, <2>2, <2>3
<1>7. Mended'
  BY <1>1, <1>2, <1>6 DEF Mended
<1>8. HomesMade(tree)'
  BY <1>2 DEF TargetsOK, HomesMade
<1>9. QED
  BY <1>1, <1>5, <1>7, <1>8 DEF TargetsOK, MergeFragment

LEMMA TargetsStay == TargetsOK /\ [TargetsNext]_targetVars => TargetsOK'
<1> SUFFICES ASSUME TargetsOK, [TargetsNext]_targetVars PROVE TargetsOK'
  OBVIOUS
<1>1. ASSUME UNCHANGED <<tree, touched, survey>>,
             goal'.mended = goal.mended, DOMAIN goal' = DOMAIN goal,
             goal'.pc \in {"infer", "inferred"} => Disabled = {},
             goal'.pc = "inferred" => Covers(goal'.targets)
      PROVE  TargetsOK'
  <2>1. \A f : ConfigKeys(f)' = ConfigKeys(f)
    BY <1>1, SameKeys
  <2>2. KernelType(tree)' /\ HomesMade(tree)' /\ Mended'
    BY <1>1, <2>1 DEF TargetsOK, Mended
  <2>3. PICK targets : targets = goal'.targets
    OBVIOUS
  <2>4. Disabled' = Disabled /\ (Covers(targets) => Covers(goal.targets)')
    BY <1>1, <2>3, SameReading
  <2>5. QED
    BY <1>1, <2>2, <2>3, <2>4 DEF TargetsOK
<1>2. CASE CheckArch
  <2>1. goal'.pc \notin {"infer", "inferred"}
    BY <1>2 DEF CheckArch, TargetsOK
  <2>2. QED
    BY <1>1, <1>2, <2>1 DEF CheckArch, TargetsOK
<1>3. CASE CheckEnabled
  <2>1. goal'.pc # "inferred" /\ (goal'.pc = "infer" => Disabled = {})
    BY <1>3 DEF CheckEnabled, TargetsOK
  <2>2. QED
    BY <1>1, <1>3, <2>1 DEF CheckEnabled, TargetsOK
<1>4. CASE Infer
  <2>1. goal'.targets = InferTargets /\ Disabled = {}
    BY <1>4 DEF Infer, TargetsOK
  <2>2. Covers(InferTargets)
    BY <2>1, InferredCovers DEF TargetsOK
  <2>3. QED
    BY <1>1, <1>4, <2>1, <2>2 DEF Infer, TargetsOK
<1>5. CASE MergeFragment
  BY <1>5, FragmentMends
<1>6. CASE UNCHANGED targetVars
  BY <1>1, <1>6 DEF targetVars, TargetsOK
<1>7. QED
  BY <1>2, <1>3, <1>4, <1>5, <1>6 DEF TargetsNext

LEMMA GivenUpThen == TargetsOK => GivenUpForAnOption
<1> SUFFICES ASSUME TargetsOK, NEW i \in Disabled
             PROVE  /\ Plainly(touched[i]) => ~Compiled(touched[i])
                    /\ goal.mended => \E keys \in GateKeys(touched[i]) :
                                        keys # {} /\ keys \subseteq tree.bools
  BY DEF GivenUpForAnOption
<1> DEFINE f == touched[i]
<1>1. i \in DOMAIN touched /\ Detail(f) = NoTarget
  BY DEF Disabled
<1>2. FileType(f) /\ KernelType(tree) /\ f \in ToSet(touched)
  BY <1>1, FilesTyped DEF TargetsOK, ToSet
<1> HIDE DEF f
<1>3. Plainly(f) => ~Compiled(f)
  BY <1>1, <1>2, LeftOut
<1>4. PICK keys \in GateKeys(f) : keys # {} /\ \A o \in keys : tree.config[o] = "n"
  BY <1>1, <1>2, OptionsAreOff
<1>5. goal.mended => keys \subseteq tree.bools
  BY <1>2, <1>4 DEF TargetsOK, Mended, ConfigKeys
<1>6. QED
  BY <1>3, <1>4, <1>5 DEF f

LEMMA TargetsInitOK == TargetsInit => TargetsOK
BY KernelsTyped, KernelsInstalled DEF TargetsInit, TargetsOK, FirstGoal, Mended

\* A build is given up for want of an option only where kbuild leaves a file out;
\* and never once the options the screening names are on, except where none
\* of some gate can be "m" (_collect_disabled_patch_target_files).
THEOREM NeverForNothing == TargetsSpec => []GivenUpForAnOption
<1>1. QED
  BY TargetsInitOK, TargetsStay, GivenUpThen, PTL DEF TargetsSpec

\* A build that works out its targets makes what kbuild puts the touched files
\* into, however the Makefiles gate them; and where they are expanded, it makes
\* every module after the modules it depends on, whatever depends on what, as far
\* as modinfo is followed and whatever query it leaves unanswered, but for a
\* module whose needs, or a needed one whose place, it did not always tell
\* (_infer_build_targets, _expand_module_dependency_targets, _run_modinfo).
THEOREM PatchCovered == TargetsSpec => []TargetsCoverThePatch
<1>1. TargetsOK => TargetsCoverThePatch
  BY DEF TargetsOK, TargetsCoverThePatch, Covers
<1>2. QED
  BY <1>1, TargetsInitOK, TargetsStay, PTL DEF TargetsSpec

===============================================================================
