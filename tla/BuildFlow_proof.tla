--------------------------- MODULE BuildFlow_proof ----------------------------
(***************************************************************************)
(* Theorems about BuildFlow, for any list of slots and whatever is in the  *)
(* trees: the build reads no tree that is not there (BuildTyping), removes *)
(* the trees it made (TreesCleaned), reports a target patched already only *)
(* where one is (VerdictEarned), and is overruled by the classifier only   *)
(* with what git said (OverruledByGit).                                    *)
(*                                                                         *)
(* A step is one of three kinds: a refusal ends the build before it is     *)
(* run, an end ends it after, a walk ends nothing.  What a refusal and an  *)
(* end have in common, that they return, is shown once; each invariant is  *)
(* then shown per kind.  The lists of text rules are read once as well: a  *)
(* lemma says which rule of a concatenated list comes first.               *)
(***************************************************************************)
EXTENDS BuildFlow, SequenceTheorems, TLAPS

----------------------------------------------------------------------------
(* The first one of a list *)

\* The type of the first rule whose sign occurs, if there is one.
LEMMA FirstRule ==
    ASSUME NEW rules, NEW signs, NEW default, DOMAIN rules \subseteq Nat
    PROVE  /\ (\A j \in DOMAIN rules : rules[j][1] \notin signs) =>
                 FirstMatch(rules, signs, default) = default
           /\ \A i \in DOMAIN rules :
                 (/\ rules[i][1] \in signs
                  /\ \A j \in DOMAIN rules : j < i => rules[j][1] \notin signs) =>
                    FirstMatch(rules, signs, default) = rules[i][2]
<1> DEFINE hits == {i \in DOMAIN rules : rules[i][1] \in signs}
<1>1. ASSUME \A j \in DOMAIN rules : rules[j][1] \notin signs
      PROVE  FirstMatch(rules, signs, default) = default
  BY <1>1 DEF FirstMatch, Earliest
<1>2. ASSUME NEW i \in DOMAIN rules, rules[i][1] \in signs,
             \A j \in DOMAIN rules : j < i => rules[j][1] \notin signs
      PROVE  FirstMatch(rules, signs, default) = rules[i][2]
  <2>1. Earliest(hits) = {i}
    BY <1>2 DEF Earliest
  <2>2. QED
    BY <2>1 DEF FirstMatch
<1>3. QED
  BY <1>1, <1>2

Names == {"clean_kernel_src_dir", "vendor_kernel_src_dir", "stable_kernel_src_dir",
          "prepared_kernel_src_dir", "kernel_src_dir", "kernel_devel_dir",
          "patched_kernel_src_dir"}

LEMMA SlotNames == SlotSet \subseteq Names /\ NoName \notin SlotSet /\ SlotSet \cap Own = {}
BY SlotsKnown DEF SlotSet, ToSet, Names, NoName, Own

\* A selected source is one of the configured trees, and exists.
LEMMA SourceIsConfigured ==
    ASSUME NEW exclude, NEW states, SelectSource(exclude, states) # NoName
    PROVE  /\ SelectSource(exclude, states) \in SlotSet
           /\ trees[SelectSource(exclude, states)] # NoTree
           /\ SelectSource(exclude, states) \notin exclude
BY SlotsKnown DEF SelectSource, Earliest, SlotSet, ToSet

\* A list of n elements.
List(p, n) == p = [i \in 1..n |-> p[i]]

\* A list made of two others.
Joins(x, p, m, q, n) ==
    /\ List(x, m + n)
    /\ \A i \in 1..m : x[i] = p[i]
    /\ \A i \in 1..n : x[m + i] = q[i]

\* Two lists one after the other.
LEMMA Joined ==
    ASSUME NEW m \in Nat, NEW n \in Nat, NEW p, NEW q,
           List(p, m), List(q, n)
    PROVE  Joins(p \o q, p, m, q, n)
<1> DEFINE T == {p[i] : i \in 1..m} \cup {q[i] : i \in 1..n}
           x == p \o q
<1>1. p \in Seq(T) /\ Len(p) = m
  BY DEF List
<1>2. q \in Seq(T) /\ Len(q) = n
  BY DEF List
<1> HIDE DEF T
<1>3. /\ p \o q \in Seq(T) /\ Len(p \o q) = Len(p) + Len(q)
      /\ \A i \in 1..Len(p) + Len(q) :
            (p \o q)[i] = IF i <= Len(p) THEN p[i] ELSE q[i - Len(p)]
  BY <1>1, <1>2, ConcatProperties, Zenon
<1>4. /\ x \in Seq(T) /\ Len(x) = m + n
      /\ \A i \in 1..(m + n) : x[i] = IF i <= m THEN p[i] ELSE q[i - m]
  BY <1>1, <1>2, <1>3
<1> HIDE DEF x
<1>5. List(x, m + n)
  BY <1>4 DEF List
<1>6. ASSUME NEW i \in 1..m PROVE x[i] = p[i]
  <2>1. i \in 1..(m + n) /\ i <= m
    OBVIOUS
  <2>2. QED
    BY <2>1, <1>4
<1>7. ASSUME NEW i \in 1..n PROVE x[m + i] = q[i]
  <2>1. m + i \in 1..(m + n) /\ ~(m + i <= m) /\ (m + i) - m = i
    OBVIOUS
  <2>2. QED
    BY <2>1, <1>4
<1>8. QED
  BY <1>5, <1>6, <1>7 DEF x, Joins

\* The rules for a log without a command, in the order they are looked at.
RefusalRules == ProbeRules \o NotExecutedRules \o OutputRules

LEMMA RefusalRulesAre ==
    /\ DOMAIN RefusalRules = 1..16
    /\ RefusalRules[1][1] = "no builder"  /\ RefusalRules[1][2] = "build_env_missing"
    /\ RefusalRules[2][1] = "no tree"     /\ RefusalRules[2][2] = "kernel_src_missing"
    /\ RefusalRules[3][1] = "no config"   /\ RefusalRules[3][2] = "kernel_config_missing"
    /\ RefusalRules[4][1] = "no vmlinux"  /\ RefusalRules[4][2] = "vmlinux_missing"
    /\ RefusalRules[5][1] = "patched"     /\ RefusalRules[5][2] = "target_already_patched"
    /\ RefusalRules[6][1] = "disabled"    /\ RefusalRules[6][2] = "feature_not_enabled"
    /\ RefusalRules[7][1] = "wrong arch"  /\ RefusalRules[7][2] = "target_arch_mismatch"
    /\ RefusalRules[8][1] = "no cache"    /\ RefusalRules[8][2] = "build_cache_incomplete"
    /\ RefusalRules[9][1] = "not applied" /\ RefusalRules[9][2] = "patch_apply_failed"
    /\ \A i \in 10..16 : RefusalRules[i][1] \in OutputSigns
<1> DEFINE early == ProbeRules \o NotExecutedRules
<1>1. List(ProbeRules, 4)
  BY DEF List, ProbeRules
<1>2. List(NotExecutedRules, 5)
  BY DEF List, NotExecutedRules
<1>3. List(OutputRules, 7)
  BY DEF List, OutputRules
<1>4. Joins(early, ProbeRules, 4, NotExecutedRules, 5)
  <2>1. 4 \in Nat /\ 5 \in Nat
    OBVIOUS
  <2>2. QED
    BY <2>1, <1>1, <1>2, Joined, Zenon
<1> HIDE DEF early
<1>5. List(early, 9)
  BY <1>4 DEF Joins
<1>6. Joins(early \o OutputRules, early, 9, OutputRules, 7)
  <2>1. 9 \in Nat /\ 7 \in Nat
    OBVIOUS
  <2>2. QED
    BY <2>1, <1>3, <1>5, Joined, Zenon
<1>7. RefusalRules = early \o OutputRules
  BY DEF RefusalRules, early
<1>8. DOMAIN RefusalRules = 1..16
  BY <1>6, <1>7 DEF List, Joins
<1>9. \A i \in 1..9 : RefusalRules[i] = early[i]
  BY <1>6, <1>7 DEF Joins
<1>10. /\ \A i \in 1..4 : early[i] = ProbeRules[i]
       /\ \A i \in 1..5 : early[4 + i] = NotExecutedRules[i]
  BY <1>4 DEF Joins
<1>11. \A i \in 1..7 : OutputRules[i][1] \in OutputSigns
  BY DEF OutputRules, OutputSigns
<1>12. ASSUME NEW i \in 10..16 PROVE RefusalRules[i][1] \in OutputSigns
  <2>1. i - 9 \in 1..7 /\ 9 + (i - 9) = i
    OBVIOUS
  <2>2. QED
    BY <2>1, <1>6, <1>7, <1>11 DEF Joins
<1>13. /\ ProbeRules[1][1] = "no builder"  /\ ProbeRules[1][2] = "build_env_missing"
       /\ ProbeRules[2][1] = "no tree"     /\ ProbeRules[2][2] = "kernel_src_missing"
       /\ ProbeRules[3][1] = "no config"   /\ ProbeRules[3][2] = "kernel_config_missing"
       /\ ProbeRules[4][1] = "no vmlinux"  /\ ProbeRules[4][2] = "vmlinux_missing"
  BY DEF ProbeRules
<1>14. /\ NotExecutedRules[1][1] = "patched"
       /\ NotExecutedRules[1][2] = "target_already_patched"
       /\ NotExecutedRules[2][1] = "disabled"
       /\ NotExecutedRules[2][2] = "feature_not_enabled"
       /\ NotExecutedRules[3][1] = "wrong arch"
       /\ NotExecutedRules[3][2] = "target_arch_mismatch"
       /\ NotExecutedRules[4][1] = "no cache"
       /\ NotExecutedRules[4][2] = "build_cache_incomplete"
       /\ NotExecutedRules[5][1] = "not applied"
       /\ NotExecutedRules[5][2] = "patch_apply_failed"
  BY DEF NotExecutedRules
<1>15. /\ early[1] = ProbeRules[1] /\ early[2] = ProbeRules[2]
       /\ early[3] = ProbeRules[3] /\ early[4] = ProbeRules[4]
       /\ early[5] = NotExecutedRules[1] /\ early[6] = NotExecutedRules[2]
       /\ early[7] = NotExecutedRules[3] /\ early[8] = NotExecutedRules[4]
       /\ early[9] = NotExecutedRules[5]
  BY <1>10
<1>16. /\ RefusalRules[1] = early[1] /\ RefusalRules[2] = early[2]
       /\ RefusalRules[3] = early[3] /\ RefusalRules[4] = early[4]
       /\ RefusalRules[5] = early[5] /\ RefusalRules[6] = early[6]
       /\ RefusalRules[7] = early[7] /\ RefusalRules[8] = early[8]
       /\ RefusalRules[9] = early[9]
  BY <1>9
<1>17. /\ RefusalRules[1] = ProbeRules[1] /\ RefusalRules[2] = ProbeRules[2]
       /\ RefusalRules[3] = ProbeRules[3] /\ RefusalRules[4] = ProbeRules[4]
       /\ RefusalRules[5] = NotExecutedRules[1] /\ RefusalRules[6] = NotExecutedRules[2]
       /\ RefusalRules[7] = NotExecutedRules[3] /\ RefusalRules[8] = NotExecutedRules[4]
       /\ RefusalRules[9] = NotExecutedRules[5]
  BY <1>15, <1>16, Zenon
<1>18. QED
  BY <1>8, <1>12, <1>13, <1>14, <1>17, ZenonT(60)

\* What the classifier makes of the log of a build that was refused: what the
\* probe missed, the tree that has the patch, the other checks in the order the
\* builder makes them, what git said last, and the builder's own type if the
\* log says nothing.
LEMMA RefusalType ==
    ASSUME NEW hint, NEW signs, signs \subseteq FlowSigns
    PROVE  LET type == ClassifyBuildLog(hint, FALSE, signs) IN
           /\ signs = {"no builder"} => type = "build_env_missing"
           /\ signs = {"no tree"} => type = "kernel_src_missing"
           /\ signs = {"no config"} => type = "kernel_config_missing"
           /\ signs = {"no vmlinux"} => type = "vmlinux_missing"
           /\ signs \cap {"no builder", "no tree", "no config", "no vmlinux"} = {} =>
                type = IF "patched" \in signs THEN "target_already_patched"
                       ELSE IF "disabled" \in signs THEN "feature_not_enabled"
                       ELSE IF "wrong arch" \in signs THEN "target_arch_mismatch"
                       ELSE IF "no cache" \in signs THEN "build_cache_incomplete"
                       ELSE IF "not applied" \in signs THEN "patch_apply_failed"
                       ELSE hint
<1> DEFINE rules == RefusalRules
           type == ClassifyBuildLog(hint, FALSE, signs)
<1>1. type = FirstMatch(rules, signs, hint)
  BY DEF ClassifyBuildLog, RefusalRules
<1>2. DOMAIN rules = 1..16 /\ DOMAIN rules \subseteq Nat
  <2>1. DOMAIN rules = 1..16
    BY RefusalRulesAre, Zenon
  <2>2. QED
    BY <2>1
<1> DEFINE Before(i) == \A j \in DOMAIN rules : j < i => rules[j][1] \notin signs
           First(i) == rules[i][1] \in signs /\ Before(i) => type = rules[i][2]
<1>3. \A i \in DOMAIN rules : First(i)
  BY <1>1, <1>2, FirstRule, Zenon
<1>4. (\A j \in DOMAIN rules : rules[j][1] \notin signs) => type = hint
  BY <1>1, <1>2, FirstRule, Zenon
<1>5. /\ First(1) /\ First(2) /\ First(3) /\ First(4) /\ First(5)
      /\ First(6) /\ First(7) /\ First(8) /\ First(9)
  <2> HIDE DEF First
  <2>1. 1..9 \subseteq DOMAIN rules
    BY <1>2
  <2>2. \A i \in 1..9 : First(i)
    BY <2>1, <1>3, Zenon
  <2>3. QED
    BY <2>2
<1>6. /\ Before(1)
      /\ Before(2) <=> rules[1][1] \notin signs
      /\ Before(3) <=> Before(2) /\ rules[2][1] \notin signs
      /\ Before(4) <=> Before(3) /\ rules[3][1] \notin signs
      /\ Before(5) <=> Before(4) /\ rules[4][1] \notin signs
      /\ Before(6) <=> Before(5) /\ rules[5][1] \notin signs
      /\ Before(7) <=> Before(6) /\ rules[6][1] \notin signs
      /\ Before(8) <=> Before(7) /\ rules[7][1] \notin signs
      /\ Before(9) <=> Before(8) /\ rules[8][1] \notin signs
  BY <1>2
<1>7. Before(9) /\ rules[9][1] \notin signs => type = hint
  <2>1. \A i \in 10..16 : rules[i][1] \notin signs
    BY RefusalRulesAre DEF FlowSigns, OutputSigns
  <2>2. \A i \in 1..16 : i < 9 \/ i = 9 \/ i \in 10..16
    OBVIOUS
  <2>3. QED
    BY <2>1, <2>2, <1>2, <1>4
<1> HIDE DEF Before, rules, type
<1>8. /\ rules[1][1] = "no builder"  /\ rules[1][2] = "build_env_missing"
      /\ rules[2][1] = "no tree"     /\ rules[2][2] = "kernel_src_missing"
      /\ rules[3][1] = "no config"   /\ rules[3][2] = "kernel_config_missing"
      /\ rules[4][1] = "no vmlinux"  /\ rules[4][2] = "vmlinux_missing"
      /\ rules[5][1] = "patched"     /\ rules[5][2] = "target_already_patched"
      /\ rules[6][1] = "disabled"    /\ rules[6][2] = "feature_not_enabled"
      /\ rules[7][1] = "wrong arch"  /\ rules[7][2] = "target_arch_mismatch"
      /\ rules[8][1] = "no cache"    /\ rules[8][2] = "build_cache_incomplete"
      /\ rules[9][1] = "not applied" /\ rules[9][2] = "patch_apply_failed"
  BY RefusalRulesAre DEF rules
<1>9. /\ signs = {"no builder"} => type = "build_env_missing"
      /\ signs = {"no tree"} => type = "kernel_src_missing"
      /\ signs = {"no config"} => type = "kernel_config_missing"
      /\ signs = {"no vmlinux"} => type = "vmlinux_missing"
  BY <1>5, <1>6, <1>8
<1>10. ASSUME signs \cap {"no builder", "no tree", "no config", "no vmlinux"} = {}
       PROVE  type = IF "patched" \in signs THEN "target_already_patched"
                     ELSE IF "disabled" \in signs THEN "feature_not_enabled"
                     ELSE IF "wrong arch" \in signs THEN "target_arch_mismatch"
                     ELSE IF "no cache" \in signs THEN "build_cache_incomplete"
                     ELSE IF "not applied" \in signs THEN "patch_apply_failed"
                     ELSE hint
  <2>1. Before(5)
    BY <1>6, <1>8, <1>10
  <2>2. QED
    BY <2>1, <1>5, <1>6, <1>7, <1>8
<1>11. QED
  BY <1>9, <1>10 DEF type

\* What a list of rules can answer.
LEMMA AnswersKnown ==
    ASSUME NEW rules, NEW signs, NEW default, NEW T, default \in T,
           \A i \in DOMAIN rules : rules[i][2] \in T
    PROVE  FirstMatch(rules, signs, default) \in T
BY DEF FirstMatch, Earliest

\* The types the output of the command can earn a build: never that of a tree
\* that has the patch.
CommandTypes ==
    {"compile_failed", "patch_apply_failed", "build_env_missing", "dependency_gap",
     "kpatch_constraint", "kpatch_symbol_bundle_constraint"}

LEMMA CommandType ==
    \A signs : ClassifyCommandFailure(signs) \in CommandTypes
<1>1. /\ DOMAIN CommandRules = 1..7
      /\ CommandRules[1][2] = "patch_apply_failed"
      /\ CommandRules[2][2] = "build_env_missing"
      /\ CommandRules[3][2] = "dependency_gap"
      /\ CommandRules[4][2] = "kpatch_constraint"
      /\ CommandRules[5][2] = "kpatch_symbol_bundle_constraint"
      /\ CommandRules[6][2] = "kpatch_constraint"
      /\ CommandRules[7][2] = "kpatch_constraint"
  BY DEF CommandRules
<1>2. \A i \in DOMAIN CommandRules : CommandRules[i][2] \in CommandTypes
  BY <1>1 DEF CommandTypes
<1>3. QED
  BY <1>2, AnswersKnown DEF ClassifyCommandFailure, CommandTypes

----------------------------------------------------------------------------
(* Types, and where the call may be *)

\* Before the patch is settled: the trees tried are configured ones.
Prechecked == {"patched?", "conflicts?", "reverse?"}
Walking == {"coverage", "precheck"} \cup Prechecked

\* After that: the tree may be one the call made.
Ending == {"verdict", "writable?", "cache", "run"}

Prechecks ==
    [ok : BOOLEAN, failure : {"none", "target_already_patched", "patch_apply_failed"},
     source : TreeNames \cup {NoName}]

Flows ==
    [pc : {"idle", "probe"} \cup Walking \cup Ending \cup {"returned"},
     selected : TreeNames \cup {NoName}, direct : BOOLEAN, generated : Own \cup {NoName},
     primary : Prechecks, precheck : Prechecks,
     signs : SUBSET {"patched", "not applied", "switched"},
     first : SlotSet \cup {NoName}, base : SlotSet \cup {NoName},
     filed : KnownFailureTypes \cup {"none"}, record : Records]

\* The trees the call reads are there.
Places ==
    /\ flow.pc \in Walking => flow.selected \in SlotSet /\ trees[flow.selected] \in Trees
    /\ flow.pc \in Prechecked =>
         flow.precheck.source \in SlotSet /\ trees[flow.precheck.source] \in Trees
    /\ flow.primary # NoPrecheck =>
         flow.primary.source \in SlotSet /\ trees[flow.primary.source] \in Trees
    /\ flow.pc \in Ending => flow.selected \in TreeNames /\ Tree(flow.selected) \in Trees

FlowOK == BuildTypeOK /\ flow \in Flows /\ Places

LEMMA IdleTyped == Idle \in Flows /\ Idle.record \in Records /\ Idle.primary = NoPrecheck
BY DEF Idle, Flows, Records, Prechecks, NoPrecheck, KnownFailureTypes

\* A precheck of a tree that is there: what it says of the tree.
LEMMA PrecheckIs ==
    ASSUME NEW name \in TreeNames, Tree(name) \in Trees
    PROVE  /\ PrecheckPatch(name) \in Prechecks
           /\ PrecheckPatch(name).source = name
           /\ PrecheckPatch(name).failure = "target_already_patched" <=>
                Tree(name).patch = "contained"
           /\ PrecheckPatch(name).ok <=> PrecheckPatch(name).failure = "none"
           /\ PrecheckPatch(name) # NoPrecheck
BY SlotNames DEF PrecheckPatch, Prechecks, Trees, NoPrecheck, TreeNames, Own, NoName, Names

LEMMA PrecheckSignsKnown ==
    \A pre : PrecheckSigns(pre) \in SUBSET {"patched", "not applied", "switched"}
BY DEF PrecheckSigns

LEMMA SlotTree ==
    ASSUME NEW s \in SlotSet
    PROVE  s \in TreeNames /\ Tree(s) = trees[s] /\ s # NoName
BY SlotNames DEF TreeNames, Tree

LEMMA OwnTree ==
    ASSUME NEW n \in Own
    PROVE  n \in TreeNames /\ Tree(n) = made[n] /\ n \notin SlotSet /\ n # NoName
BY SlotNames DEF TreeNames, Tree, Own, NoName

\* A selected source is there.
LEMMA SourceIsThere ==
    ASSUME FlowOK, NEW exclude, NEW states, SelectSource(exclude, states) # NoName
    PROVE  /\ SelectSource(exclude, states) \in SlotSet
           /\ trees[SelectSource(exclude, states)] \in Trees
BY SourceIsConfigured DEF FlowOK, BuildTypeOK

\* What a return, a jump and a move to another tree leave.
LEMMA ReturnIs ==
    ASSUME FlowOK, NEW status \in {"built", "failed", "target_state"},
           NEW failure \in KnownFailureTypes \cup {"none"}, NEW executed \in BOOLEAN,
           NEW signs \in SUBSET (OutputSigns \cup FlowSigns),
           Return(status, failure, executed, signs)
    PROVE  /\ flow' \in Flows
           /\ flow'.pc = "returned"
           /\ flow'.record = [status |-> status, failure |-> failure, executed |-> executed,
                              signs |-> flow.signs \cup signs]
           /\ flow'.primary = flow.primary /\ flow'.precheck = flow.precheck
           /\ flow'.generated = flow.generated /\ flow'.direct = flow.direct
<1>1. flow.signs \cup signs \in SUBSET (OutputSigns \cup FlowSigns)
  BY DEF FlowOK, Flows, FlowSigns
<1>2. [status |-> status, failure |-> failure, executed |-> executed,
       signs |-> flow.signs \cup signs] \in Records
  BY <1>1 DEF Records
<1>3. QED
  BY <1>2 DEF Return, FlowOK, Flows

LEMMA ReturnedRecord ==
    ASSUME FlowOK, NEW status, NEW failure, NEW executed, NEW signs,
           Return(status, failure, executed, signs)
    PROVE  /\ flow'.record = [status |-> status, failure |-> failure, executed |-> executed,
                              signs |-> flow.signs \cup signs]
           /\ flow'.record.status = status /\ flow'.record.failure = failure
           /\ flow'.record.signs = flow.signs \cup signs
BY DEF Return, FlowOK, Flows

LEMMA GotoIs ==
    ASSUME FlowOK, NEW next \in Walking \cup Ending, Goto(next)
    PROVE  /\ flow' \in Flows
           /\ flow'.pc = next
           /\ flow'.record = flow.record /\ flow'.selected = flow.selected
           /\ flow'.primary = flow.primary /\ flow'.precheck = flow.precheck
           /\ flow'.generated = flow.generated /\ flow'.direct = flow.direct
           /\ flow'.signs = flow.signs
BY DEF Goto, FlowOK, Flows

LEMMA MoveToIs ==
    ASSUME FlowOK, NEW name \in SlotSet, trees[name] \in Trees, NEW next \in Prechecked,
           MoveTo(name, next, {})
    PROVE  /\ flow' \in Flows
           /\ flow'.pc = next
           /\ flow'.record = flow.record /\ flow'.selected = name
           /\ flow'.primary = flow.primary /\ flow'.precheck = PrecheckPatch(name)
           /\ flow'.generated = flow.generated /\ flow'.direct = flow.direct
<1>1. PrecheckPatch(name) \in Prechecks /\ name \in TreeNames
  BY PrecheckIs, SlotTree
<1>2. flow.signs \cup {} \cup PrecheckSigns(PrecheckPatch(name))
        \in SUBSET {"patched", "not applied", "switched"}
  BY PrecheckSignsKnown DEF FlowOK, Flows
<1>3. QED
  BY <1>1, <1>2 DEF MoveTo, FlowOK, Flows, Walking

LEMMA CleanupIs ==
    ASSUME FlowOK, Cleanup(flow.generated)
    PROVE  /\ made' \in [Own -> Trees \cup {NoTree}]
           /\ \/ made' = made /\ (flow.generated = NoName \/ "cleanup" \notin conf)
              \/ /\ flow.generated \in Own
                 /\ made' = [made EXCEPT ![flow.generated] = NoTree]
BY DEF Cleanup, FlowOK, Flows, BuildTypeOK

\* Lists of rules whose answers are known, one after the other.
LEMMA JoinedAnswers ==
    ASSUME NEW m \in Nat, NEW n \in Nat, NEW p, NEW q, NEW T,
           List(p, m), List(q, n),
           \A i \in 1..m : p[i][2] \in T, \A i \in 1..n : q[i][2] \in T
    PROVE  /\ List(p \o q, m + n)
           /\ \A i \in 1..(m + n) : (p \o q)[i][2] \in T
<1> DEFINE x == p \o q
<1>1. Joins(x, p, m, q, n)
  BY Joined, Zenon
<1> HIDE DEF x
<1>2. ASSUME NEW i \in 1..(m + n) PROVE x[i][2] \in T
  <2>1. CASE i \in 1..m
    BY <1>1, <2>1 DEF Joins
  <2>2. CASE i \notin 1..m
    <3>1. i - m \in 1..n /\ m + (i - m) = i
      BY <2>2
    <3>2. QED
      BY <1>1, <3>1 DEF Joins
  <2>3. QED
    BY <2>1, <2>2
<1>3. QED
  BY <1>1, <1>2 DEF x, Joins

LEMMA RuleTypeKnown ==
    ASSUME NEW r \in Records
    PROVE  RuleType(r) \in KnownFailureTypes \cup {"none"}
<1> DEFINE T == KnownFailureTypes \cup {"none"}
           middle == IF r.executed THEN <<>> ELSE NotExecutedRules
           n == IF r.executed THEN 0 ELSE 5
<1>1. List(ProbeRules, 4) /\ \A i \in 1..4 : ProbeRules[i][2] \in T
  BY DEF List, ProbeRules, KnownFailureTypes
<1>2. List(middle, n) /\ \A i \in 1..n : middle[i][2] \in T
  <2>1. List(<<>>, 0) /\ \A i \in 1..0 : <<>>[i][2] \in T
    BY DEF List
  <2>2. /\ List(NotExecutedRules, 5)
        /\ \A i \in 1..5 : NotExecutedRules[i][2] \in T
    BY DEF List, NotExecutedRules, KnownFailureTypes
  <2>3. CASE r.executed
    BY <2>1, <2>3, Zenon
  <2>4. CASE ~r.executed
    BY <2>2, <2>4, Zenon
  <2>5. QED
    BY <2>3, <2>4
<1>3. List(OutputRules, 7) /\ \A i \in 1..7 : OutputRules[i][2] \in T
  BY DEF List, OutputRules, KnownFailureTypes
<1>4. n \in Nat /\ 4 \in Nat /\ 7 \in Nat
  OBVIOUS
<1>5. r.failure \in T
  BY DEF Records
<1>6. ClassifyBuildLog(r.failure, r.executed, r.signs) =
        FirstMatch((ProbeRules \o middle) \o OutputRules, r.signs, r.failure)
  BY DEF ClassifyBuildLog
<1> HIDE DEF T, middle, n
<1> DEFINE early == ProbeRules \o middle
<1>7. List(early, 4 + n) /\ \A i \in 1..(4 + n) : early[i][2] \in T
  BY <1>1, <1>2, <1>4, JoinedAnswers
<1> HIDE DEF early
<1>8. 4 + n \in Nat
  BY <1>4
<1> DEFINE all == early \o OutputRules
           k == (4 + n) + 7
<1>9. List(all, k) /\ \A i \in 1..k : all[i][2] \in T
  BY <1>3, <1>4, <1>7, <1>8, JoinedAnswers
<1> HIDE DEF all, k
<1>10. \A i \in DOMAIN all : all[i][2] \in T
  BY <1>9 DEF List
<1>11. FirstMatch(all, r.signs, r.failure) \in T
  BY <1>5, <1>10, AnswersKnown
<1>12. QED
  BY <1>6, <1>11 DEF RuleType, T, all, early

LEMMA PlacesReturned ==
    ASSUME FlowOK, flow' \in Flows, flow'.pc = "returned", flow'.primary = flow.primary,
           \A s \in SlotSet : trees[s] \in Trees => trees'[s] \in Trees
    PROVE  Places'
BY DEF FlowOK, Places, Walking, Prechecked, Ending

\* The ways a build can end before it is run.
Refusals ==
    \/ ProbeFails \/ PrecheckWithoutGit \/ RefusePatch \/ NoWritableTree \/ MissingCache
    \/ CheckCoverage /\ flow'.pc = "returned"
    \/ RecheckCoverage /\ flow'.pc = "returned"

LEMMA RefusalIs ==
    ASSUME FlowOK, Refusals
    PROVE  \E status \in {"failed", "target_state"},
              failure \in KnownFailureTypes \cup {"none"}, signs \in SUBSET FlowSigns :
                 Return(status, failure, FALSE, signs)
<1> USE DEF FlowSigns, KnownFailureTypes
<1>1. CASE ProbeFails
  BY <1>1 DEF ProbeFails
<1>2. CASE PrecheckWithoutGit \/ NoWritableTree \/ MissingCache
  BY <1>2 DEF PrecheckWithoutGit, NoWritableTree, MissingCache
<1>3. CASE RefusePatch
  <2>1. flow.precheck.failure \in KnownFailureTypes \cup {"none"}
    BY DEF FlowOK, Flows, Prechecks
  <2>2. QED
    BY <1>3, <2>1 DEF RefusePatch
<1>4. CASE CheckCoverage /\ flow'.pc = "returned"
  <2>1. ~Goto("precheck")
    BY <1>4, GotoIs DEF Walking, Prechecked
  <2>2. QED
    BY <1>4, <2>1 DEF CheckCoverage
<1>5. CASE RecheckCoverage /\ flow'.pc = "returned"
  <2>1. ~Goto("writable?")
    BY <1>5, GotoIs DEF Ending
  <2>2. QED
    BY <1>5, <2>1 DEF RecheckCoverage
<1>6. QED
  BY <1>1, <1>2, <1>3, <1>4, <1>5 DEF Refusals
LEMMA TypesRefused ==
    ASSUME FlowOK, Refusals
    PROVE  FlowOK'
<1>1. /\ UNCHANGED <<conf, trees, damaged>>
      /\ made' = made \/ Cleanup(flow.generated)
  BY DEF Refusals, ProbeFails, PrecheckWithoutGit, RefusePatch, NoWritableTree, MissingCache,
         CheckCoverage, RecheckCoverage
<1>2. made' \in [Own -> Trees \cup {NoTree}]
  BY <1>1, CleanupIs DEF FlowOK, BuildTypeOK
<1>3. flow' \in Flows /\ flow'.pc = "returned" /\ flow'.primary = flow.primary
  BY RefusalIs, ReturnIs
<1>4. BuildTypeOK'
  BY <1>1, <1>2, <1>3 DEF FlowOK, BuildTypeOK, Flows
<1>5. QED
  BY <1>1, <1>3, <1>4, PlacesReturned DEF FlowOK

LEMMA LogTypes ==
    \A out \in Outputs, log \in HomeLogs :
        /\ out \in SUBSET (OutputSigns \cup FlowSigns)
        /\ log \in SUBSET (OutputSigns \cup FlowSigns)
        /\ FailureOf(out, log) \in CommandTypes
<1>1. \A log \in HomeLogs : log \in SUBSET OutputSigns
  BY DEF HomeLogs
<1>2. \A out \in Outputs : out \in SUBSET OutputSigns
  BY <1>1 DEF Outputs, OutputSigns
<1>3. \A out, log : FailureOf(out, log) \in CommandTypes
  BY CommandType DEF FailureOf
<1>4. QED
  BY <1>1, <1>2, <1>3

\* The ways a build can end that was run.
Ends == BuildSucceeds \/ BuildLeavesNoModule \/ BuildFails \/ BuildTimesOut

LEMMA EndIs ==
    ASSUME FlowOK, Ends
    PROVE  /\ flow.pc = "run"
           /\ \E status \in {"built", "failed"}, failure \in CommandTypes \cup {"none"},
                 signs \in SUBSET (OutputSigns \cup FlowSigns) :
                    Return(status, failure, TRUE, signs)
           /\ Cleanup(flow.generated)
           /\ UNCHANGED conf
           /\ \/ UNCHANGED <<trees, damaged>>
              \/ /\ flow.selected \in SlotSet
                 /\ trees' = [trees EXCEPT ![flow.selected].patch = "contained"]
                 /\ damaged' = damaged \cup {flow.selected}
<1> USE DEF CommandTypes
<1>0. flow.pc = "run"
  BY DEF Ends, BuildSucceeds, BuildLeavesNoModule, BuildFails, BuildTimesOut
<1>1. CASE BuildSucceeds
  BY <1>0, <1>1 DEF BuildSucceeds
<1>2. CASE BuildLeavesNoModule
  BY <1>0, <1>2, LogTypes DEF BuildLeavesNoModule, HomeLogs
<1>3. CASE BuildFails
  <2>1. PICK out \in Outputs, log \in HomeLogs :
           Return("failed", FailureOf(out, log), TRUE, out \cup log)
    BY <1>3 DEF BuildFails
  <2>2. out \cup log \in SUBSET (OutputSigns \cup FlowSigns) /\ FailureOf(out, log) \in CommandTypes
    BY LogTypes
  <2>3. QED
    BY <1>0, <1>3, <2>1, <2>2 DEF BuildFails
<1>4. CASE BuildTimesOut
  <2>1. PICK out \in Outputs, log \in HomeLogs, quoted \in BOOLEAN :
           Return("failed", IF quoted THEN ClassifyCommandFailure(out \cup log)
                            ELSE "compile_failed", TRUE, out \cup log)
    BY <1>4 DEF BuildTimesOut
  <2>2. /\ out \cup log \in SUBSET (OutputSigns \cup FlowSigns)
        /\ (IF quoted THEN ClassifyCommandFailure(out \cup log) ELSE "compile_failed")
              \in CommandTypes
    BY LogTypes, CommandType
  <2>3. QED
    BY <1>0, <1>4, <2>1, <2>2 DEF BuildTimesOut
<1>5. QED
  BY <1>1, <1>2, <1>3, <1>4 DEF Ends

LEMMA EndReturns ==
    ASSUME FlowOK, Ends
    PROVE  /\ flow' \in Flows
           /\ flow'.pc = "returned"
           /\ flow'.primary = flow.primary /\ flow'.precheck = flow.precheck
           /\ flow'.direct = flow.direct
           /\ flow'.record.failure \in CommandTypes \cup {"none"}
           /\ flow'.record.executed = TRUE
<1>1. PICK status \in {"built", "failed"}, failure \in CommandTypes \cup {"none"},
           signs \in SUBSET (OutputSigns \cup FlowSigns) :
              Return(status, failure, TRUE, signs)
  BY EndIs
<1>2. failure \in KnownFailureTypes \cup {"none"}
  BY DEF CommandTypes, KnownFailureTypes
<1>3. /\ flow' \in Flows
      /\ flow'.pc = "returned"
      /\ flow'.primary = flow.primary /\ flow'.precheck = flow.precheck
      /\ flow'.direct = flow.direct
  BY <1>1, <1>2, ReturnIs
<1>4. flow'.record = [status |-> status, failure |-> failure, executed |-> TRUE,
                      signs |-> flow.signs \cup signs]
  BY <1>1 DEF Return, FlowOK, Flows
<1>5. flow'.record.failure = failure /\ flow'.record.executed = TRUE
  BY <1>4
<1>6. QED
  BY <1>3, <1>5

LEMMA TypesEnd ==
    ASSUME FlowOK, Ends
    PROVE  FlowOK'
<1>1. flow' \in Flows /\ flow'.pc = "returned" /\ flow'.primary = flow.primary
  BY EndReturns
<1>2. made' \in [Own -> Trees \cup {NoTree}]
  BY EndIs, CleanupIs
<1>3. /\ trees' \in [SlotSet -> Trees \cup {NoTree}]
      /\ damaged' \subseteq SlotSet
      /\ \A s \in SlotSet : trees[s] \in Trees => trees'[s] \in Trees
  <2>1. trees \in [SlotSet -> Trees \cup {NoTree}] /\ damaged \subseteq SlotSet
    BY DEF FlowOK, BuildTypeOK
  <2>2. flow.selected \in SlotSet => trees[flow.selected] \in Trees
    BY EndIs DEF FlowOK, Places, Ending, Tree
  <2>3. \A t \in Trees : [t EXCEPT !.patch = "contained"] \in Trees
    BY DEF Trees
  <2>4. QED
    BY <2>1, <2>2, <2>3, EndIs
<1>4. BuildTypeOK'
  BY <1>1, <1>2, <1>3, EndIs DEF FlowOK, BuildTypeOK, Flows
<1>5. QED
  BY <1>1, <1>3, <1>4, PlacesReturned DEF FlowOK

\* The steps that end no build.
Walks ==
    \/ StartBuild \/ Probe \/ Precheck \/ SwitchPatchedTree \/ SwitchConflictingTree
    \/ ReverseTree \/ NoReverseTree \/ WritableTree \/ BuildDirectly \/ CacheReady
    \/ FileFailure
    \/ CheckCoverage /\ flow'.pc # "returned"
    \/ RecheckCoverage /\ flow'.pc # "returned"

LEMMA TypesWalk ==
    ASSUME FlowOK, Walks
    PROVE  FlowOK'
<1>0. /\ conf' = conf /\ trees' = trees /\ damaged' = damaged
      /\ conf \subseteq Switches /\ trees \in [SlotSet -> Trees \cup {NoTree}]
      /\ damaged \subseteq SlotSet /\ made \in [Own -> Trees \cup {NoTree}]
      /\ flow \in Flows
  BY DEF Walks, StartBuild, Probe, Precheck, SwitchPatchedTree, SwitchConflictingTree,
         ReverseTree, NoReverseTree, WritableTree, BuildDirectly, CacheReady, FileFailure,
         CheckCoverage, RecheckCoverage, FlowOK, BuildTypeOK
<1> SUFFICES /\ flow' \in Flows
             /\ made' \in [Own -> Trees \cup {NoTree}]
             /\ Places'
  BY <1>0 DEF FlowOK, BuildTypeOK, Flows
<1>1. CASE StartBuild
  <2>1. flow' \in Flows /\ flow'.pc = "probe" /\ flow'.primary = NoPrecheck
    BY <1>1, IdleTyped DEF StartBuild, Flows, Idle
  <2>2. made' \in [Own -> Trees \cup {NoTree}]
    BY <1>1 DEF StartBuild
  <2>3. QED
    BY <2>1, <2>2 DEF Places, Walking, Prechecked, Ending
<1>2. CASE Probe
  <2> DEFINE s == SelectSource({}, AnyState)
  <2>1. s \in SlotSet /\ trees[s] \in Trees
    BY <1>2, SourceIsThere DEF Probe
  <2>2. trees[s].writable \in BOOLEAN /\ s \in TreeNames
    BY <2>1, SlotTree DEF Trees
  <2> HIDE DEF s
  <2>3. flow' = [flow EXCEPT !.pc = "coverage", !.selected = s, !.first = s,
                             !.direct = trees[s].writable]
    BY <1>2 DEF Probe, s
  <2>4. /\ flow' \in Flows /\ flow'.pc = "coverage" /\ flow'.selected = s
        /\ flow'.primary = flow.primary
    BY <2>1, <2>2, <2>3, <1>0 DEF Flows, Walking
  <2>5. made' = made
    BY <1>2 DEF Probe
  <2>6. QED
    BY <2>1, <2>4, <2>5, <1>0 DEF FlowOK, Places, Walking, Prechecked, Ending
<1>3. CASE CheckCoverage /\ flow'.pc # "returned"
  <2>1. Goto("precheck") /\ flow.pc = "coverage" /\ made' = made
    <3>1. /\ ~Return("failed", "target_arch_mismatch", FALSE, {"wrong arch"})
          /\ ~Return("failed", "feature_not_enabled", FALSE, {"disabled"})
      BY <1>3, <1>0 DEF Return, Flows
    <3>2. QED
      BY <1>3, <3>1 DEF CheckCoverage
  <2>2. /\ flow' \in Flows /\ flow'.pc = "precheck" /\ flow'.selected = flow.selected
        /\ flow'.primary = flow.primary
    BY <2>1, GotoIs DEF Walking
  <2>3. QED
    BY <2>1, <2>2, <1>0 DEF FlowOK, Places, Walking, Prechecked, Ending
<1>4. CASE Precheck
  <2>1. flow.selected \in SlotSet /\ trees[flow.selected] \in Trees
    BY <1>4 DEF Precheck, FlowOK, Places, Walking
  <2>2. /\ flow' \in Flows /\ flow'.pc = "patched?" /\ flow'.selected = flow.selected
        /\ flow'.primary = flow.primary /\ flow'.precheck = PrecheckPatch(flow.selected)
    BY <1>4, <2>1, MoveToIs DEF Precheck, Prechecked
  <2>3. PrecheckPatch(flow.selected).source = flow.selected
    BY <2>1, PrecheckIs, SlotTree
  <2>4. made' = made
    BY <1>4 DEF Precheck
  <2>5. QED
    BY <2>1, <2>2, <2>3, <2>4, <1>0 DEF FlowOK, Places, Walking, Prechecked, Ending
<1>5. CASE SwitchPatchedTree
  <2> DEFINE s == FallbackSource
             pre == PrecheckPatch(s)
  <2>0. flow.pc = "patched?" /\ made' = made
    BY <1>5 DEF SwitchPatchedTree
  <2>1. /\ flow.selected \in SlotSet /\ trees[flow.selected] \in Trees
        /\ flow.precheck.source \in SlotSet /\ trees[flow.precheck.source] \in Trees
    BY <2>0 DEF FlowOK, Places, Walking, Prechecked
  <2>2. CASE Goto("conflicts?")
    BY <2>0, <2>1, <2>2, GotoIs, <1>0 DEF FlowOK, Places, Walking, Prechecked, Ending
  <2>3. CASE s = NoName /\ flow' = [flow EXCEPT !.pc = "conflicts?", !.primary = flow.precheck]
    <3>1. /\ flow' \in Flows /\ flow'.pc = "conflicts?" /\ flow'.primary = flow.precheck
          /\ flow'.selected = flow.selected /\ flow'.precheck = flow.precheck
      BY <2>3, <1>0 DEF Flows, Walking, Prechecked
    <3>2. QED
      BY <2>0, <2>1, <3>1, <1>0 DEF Places, Walking, Prechecked, Ending
  <2>4. CASE /\ s # NoName
             /\ flow' = [flow EXCEPT !.pc = "conflicts?", !.primary = flow.precheck,
                                     !.selected = s, !.base = s, !.precheck = pre,
                                     !.signs = @ \cup {"switched"} \cup PrecheckSigns(pre)]
    <3>1. s \in SlotSet /\ trees[s] \in Trees
      BY <2>4, SourceIsThere DEF FallbackSource
    <3>2. pre \in Prechecks /\ pre.source = s /\ s \in TreeNames
      BY <3>1, PrecheckIs, SlotTree
    <3>3. flow.signs \cup {"switched"} \cup PrecheckSigns(pre)
            \in SUBSET {"patched", "not applied", "switched"}
      BY <1>0, PrecheckSignsKnown DEF Flows
    <3> HIDE DEF s, pre
    <3>4. /\ flow' \in Flows /\ flow'.pc = "conflicts?" /\ flow'.primary = flow.precheck
          /\ flow'.selected = s /\ flow'.precheck = pre
      BY ZenonT(40), <2>4, <3>1, <3>2, <3>3, <1>0 DEF Flows, Walking, Prechecked
    <3>5. QED
      BY <2>0, <2>1, <3>1, <3>2, <3>4, <1>0 DEF Places, Walking, Prechecked, Ending
  <2>5. QED
    BY <1>5, <2>2, <2>3, <2>4 DEF SwitchPatchedTree
<1>6. CASE SwitchConflictingTree
  <2> DEFINE s == SelectSource({flow.selected}, {"unpatched"})
  <2>0. flow.pc = "conflicts?" /\ made' = made
    BY <1>6 DEF SwitchConflictingTree
  <2>1. CASE Goto("reverse?")
    BY <2>0, <2>1, GotoIs, <1>0 DEF FlowOK, Places, Walking, Prechecked, Ending
  <2>2. CASE s # NoName /\ MoveTo(s, "reverse?", {})
    <3>1. s \in SlotSet /\ trees[s] \in Trees
      BY <2>2, SourceIsThere
    <3>2. PrecheckPatch(s).source = s
      BY <3>1, PrecheckIs, SlotTree
    <3> HIDE DEF s
    <3>3. /\ flow' \in Flows /\ flow'.pc = "reverse?" /\ flow'.selected = s
          /\ flow'.primary = flow.primary /\ flow'.precheck = PrecheckPatch(s)
      BY <2>2, <3>1, MoveToIs DEF Prechecked
    <3>4. QED
      BY <2>0, <3>1, <3>2, <3>3, <1>0 DEF FlowOK, Places, Walking, Prechecked, Ending
  <2>3. QED
    BY <1>6, <2>1, <2>2 DEF SwitchConflictingTree
<1>7. CASE NoReverseTree
  <2>1. flow.pc = "reverse?" /\ Goto("verdict") /\ made' = made
    BY <1>7 DEF NoReverseTree
  <2>2. flow.selected \in SlotSet /\ trees[flow.selected] \in Trees
    BY <2>1 DEF FlowOK, Places, Walking, Prechecked
  <2>3. /\ flow' \in Flows /\ flow'.pc = "verdict" /\ flow'.selected = flow.selected
        /\ flow'.primary = flow.primary
    BY <2>1, GotoIs DEF Ending
  <2>4. QED
    BY <2>1, <2>2, <2>3, <1>0, SlotTree
    DEF FlowOK, Places, Walking, Prechecked, Ending, Tree
<1>8. CASE ReverseTree
  <2>0. flow.pc = "reverse?" /\ TriesReverse
    BY <1>8 DEF ReverseTree
  <2>1. /\ flow.selected \in SlotSet /\ trees[flow.selected] \in Trees
        /\ ReverseCandidate.source \in SlotSet
        /\ trees[ReverseCandidate.source] \in Trees
    BY <2>0 DEF FlowOK, Places, Walking, Prechecked, ReverseCandidate
  <2>2. CASE \E t \in Remains :
                made' = [made EXCEPT !["reverse_unpatched"] = t] /\ Goto("verdict")
    <3>1. PICK t \in Remains :
             made' = [made EXCEPT !["reverse_unpatched"] = t] /\ Goto("verdict")
      BY <2>2
    <3>2. t \in Trees \cup {NoTree}
      BY ZenonT(40), <2>1, SlotTree DEF Remains, Trees
    <3>3. made' \in [Own -> Trees \cup {NoTree}]
      BY <3>1, <3>2, <1>0
    <3>4. /\ flow' \in Flows /\ flow'.pc = "verdict" /\ flow'.selected = flow.selected
          /\ flow'.primary = flow.primary
      BY <3>1, GotoIs DEF Ending
    <3>5. QED
      BY <2>1, <3>3, <3>4, <1>0, SlotTree
      DEF FlowOK, Places, Walking, Prechecked, Ending, Tree
  <2>3. CASE \E t \in ReversedTrees :
               LET pre == [ok      |-> t.patch = "applies",
                           failure |-> IF t.patch = "applies" THEN "none"
                                       ELSE "patch_apply_failed",
                           source  |-> "reverse_unpatched"]
               IN /\ made' = [made EXCEPT !["reverse_unpatched"] = t]
                  /\ flow' = [flow EXCEPT !.pc = "verdict",
                                          !.selected = "reverse_unpatched",
                                          !.generated = "reverse_unpatched",
                                          !.base = ReverseCandidate.source,
                                          !.precheck = pre,
                                          !.signs = @ \cup PrecheckSigns(pre)]
    <3>1. PICK t \in ReversedTrees :
               LET pre == [ok      |-> t.patch = "applies",
                           failure |-> IF t.patch = "applies" THEN "none"
                                       ELSE "patch_apply_failed",
                           source  |-> "reverse_unpatched"]
               IN /\ made' = [made EXCEPT !["reverse_unpatched"] = t]
                  /\ flow' = [flow EXCEPT !.pc = "verdict",
                                          !.selected = "reverse_unpatched",
                                          !.generated = "reverse_unpatched",
                                          !.base = ReverseCandidate.source,
                                          !.precheck = pre,
                                          !.signs = @ \cup PrecheckSigns(pre)]
      BY <2>3
    <3> DEFINE pre == [ok      |-> t.patch = "applies",
                       failure |-> IF t.patch = "applies" THEN "none"
                                   ELSE "patch_apply_failed",
                       source  |-> "reverse_unpatched"]
               n == "reverse_unpatched"
    <3>2. n \in Own /\ n \in TreeNames
      BY DEF Own, TreeNames
    <3>3. t \in Trees
      BY DEF ReversedTrees, Trees
    <3>4. pre \in Prechecks
      BY <3>2 DEF Prechecks
    <3>5. flow.signs \cup PrecheckSigns(pre) \in SUBSET {"patched", "not applied", "switched"}
      BY <1>0, PrecheckSignsKnown DEF Flows
    <3>6. /\ made' = [made EXCEPT ![n] = t]
          /\ flow' = [flow EXCEPT !.pc = "verdict", !.selected = n, !.generated = n,
                                  !.base = ReverseCandidate.source, !.precheck = pre,
                                  !.signs = @ \cup PrecheckSigns(pre)]
      BY <3>1
    <3> HIDE DEF pre, n
    <3>7. /\ flow' \in Flows /\ flow'.pc = "verdict" /\ flow'.selected = n
          /\ flow'.primary = flow.primary
      BY <3>2, <3>4, <3>5, <3>6, <2>1, <1>0 DEF Flows, Ending
    <3>8. made' \in [Own -> Trees \cup {NoTree}] /\ made'[n] = t
      BY <3>2, <3>3, <3>6, <1>0
    <3>9. n \notin SlotSet
      BY <3>2, OwnTree
    <3>10. Tree(flow.selected)' \in Trees
      BY <3>3, <3>7, <3>8, <3>9, <1>0 DEF Tree
    <3>11. QED
      BY <3>2, <3>7, <3>8, <3>10, <1>0
      DEF FlowOK, Places, Walking, Prechecked, Ending
  <2>4. QED
    BY <1>8, <2>2, <2>3 DEF ReverseTree
<1>9. CASE RecheckCoverage /\ flow'.pc # "returned"
  <2>1. Goto("writable?") /\ flow.pc = "verdict" /\ made' = made
    <3>1. ~Return("failed", "feature_not_enabled", FALSE, {"disabled"})
      BY <1>9, <1>0 DEF Return, Flows
    <3>2. QED
      BY <1>9, <3>1 DEF RecheckCoverage
  <2>2. /\ flow' \in Flows /\ flow'.pc = "writable?" /\ flow'.selected = flow.selected
        /\ flow'.primary = flow.primary
    BY <2>1, GotoIs DEF Ending
  <2>3. QED
    BY <2>1, <2>2, <1>0 DEF FlowOK, Places, Walking, Prechecked, Ending, Tree
<1>10. CASE BuildDirectly
  <2>1. Goto("cache") /\ flow.pc = "writable?" /\ made' = made
    BY <1>10 DEF BuildDirectly
  <2>2. /\ flow' \in Flows /\ flow'.pc = "cache" /\ flow'.selected = flow.selected
        /\ flow'.primary = flow.primary
    BY <2>1, GotoIs DEF Ending
  <2>3. QED
    BY <2>1, <2>2, <1>0 DEF FlowOK, Places, Walking, Prechecked, Ending, Tree
<1>11. CASE CacheReady
  <2>1. Goto("run") /\ flow.pc = "cache" /\ made' = made
    BY <1>11 DEF CacheReady
  <2>2. /\ flow' \in Flows /\ flow'.pc = "run" /\ flow'.selected = flow.selected
        /\ flow'.primary = flow.primary
    BY <2>1, GotoIs DEF Ending
  <2>3. QED
    BY <2>1, <2>2, <1>0 DEF FlowOK, Places, Walking, Prechecked, Ending, Tree
<1>12. CASE WritableTree
  <2> DEFINE t == [Tree(flow.selected) EXCEPT !.writable = TRUE]
             n == "writable_build"
  <2>1. /\ made' = [made EXCEPT ![n] = t]
        /\ flow' = [flow EXCEPT !.pc = "cache", !.selected = n, !.generated = n]
        /\ flow.pc = "writable?"
    BY <1>12 DEF WritableTree
  <2>2. t \in Trees
    BY <2>1 DEF FlowOK, Places, Ending, Trees
  <2>3. n \in Own /\ n \in TreeNames /\ n \notin SlotSet
    BY OwnTree DEF Own, TreeNames
  <2> HIDE DEF t, n
  <2>4. /\ flow' \in Flows /\ flow'.pc = "cache" /\ flow'.selected = n
        /\ flow'.primary = flow.primary
    BY <2>1, <2>3, <1>0 DEF Flows, Ending
  <2>5. made' \in [Own -> Trees \cup {NoTree}] /\ made'[n] = t
    BY <2>1, <2>2, <2>3, <1>0
  <2>6. Tree(flow.selected)' \in Trees
    BY <2>2, <2>3, <2>4, <2>5, <1>0 DEF Tree
  <2>7. QED
    BY <2>3, <2>4, <2>5, <2>6, <1>0 DEF FlowOK, Places, Walking, Prechecked, Ending
<1>13. CASE FileFailure
  <2>1. PICK type \in Classifications(TRUE, ModelAnswers, RuleType(flow.record)) :
            flow' = [flow EXCEPT !.filed = type]
    BY <1>13 DEF FileFailure
  <2>2. flow.pc = "returned" /\ made' = made
    BY <1>13 DEF FileFailure
  <2>3. type \in KnownFailureTypes \cup {"none"}
    <3>1. RuleType(flow.record) \in KnownFailureTypes \cup {"none"}
      BY <1>0, RuleTypeKnown DEF Flows
    <3>2. QED
      BY <3>1 DEF Classifications, FromModel, KnownFailureTypes
  <2>4. /\ flow' \in Flows /\ flow'.pc = "returned" /\ flow'.primary = flow.primary
    BY <2>1, <2>2, <2>3, <1>0 DEF Flows
  <2>5. QED
    BY <2>2, <2>4, <1>0, PlacesReturned
<1>14. QED
  BY <1>1, <1>2, <1>3, <1>4, <1>5, <1>6, <1>7, <1>8, <1>9, <1>10, <1>11, <1>12, <1>13
  DEF Walks

LEMMA KindsOfSteps == BuildNext => Refusals \/ Walks \/ Ends
BY DEF BuildNext, BuildStep, Refusals, Walks, Ends

LEMMA FlowStays == FlowOK /\ [BuildNext]_buildVars => FlowOK'
<1> SUFFICES ASSUME FlowOK, [BuildNext]_buildVars PROVE FlowOK'
  OBVIOUS
<1>1. CASE Refusals
  BY <1>1, TypesRefused
<1>2. CASE Walks
  BY <1>2, TypesWalk
<1>3. CASE Ends
  BY <1>3, TypesEnd
<1>4. CASE UNCHANGED buildVars
  BY <1>4 DEF buildVars, FlowOK, BuildTypeOK, Places, Tree
<1>5. QED
  BY <1>1, <1>2, <1>3, <1>4, KindsOfSteps

LEMMA FlowStarts == BuildInit => FlowOK
<1> SUFFICES ASSUME BuildInit PROVE FlowOK
  OBVIOUS
<1>1. conf \subseteq Switches
  BY DEF BuildInit
<1>2. flow = Idle /\ flow.pc = "idle"
  BY DEF BuildInit, Idle
<1>3. QED
  BY <1>1, <1>2, IdleTyped DEF BuildInit, FlowOK, BuildTypeOK, Flows, Places, Walking,
     Prechecked, Ending

\* The builder keeps its types, and reads no tree that is not there: the tree
\* it prechecks, reverses, copies or builds in exists whenever it does so
\* (_execute_local_build).
THEOREM BuildTyping == BuildSpec => [](BuildTypeOK /\ Places)
<1>1. FlowOK => BuildTypeOK /\ Places
  BY DEF FlowOK
<1>2. QED
  BY <1>1, FlowStarts, FlowStays, PTL DEF BuildSpec

----------------------------------------------------------------------------
(* The trees a build made *)

\* A tree of its own the call may still leave is the one it remembers, while
\* the first tree was writable: then no writable copy is made beside a
\* reversed one.
Left ==
    /\ flow.pc \in {"idle", "probe"} => \A n \in Own : made[n] = NoTree
    /\ flow.pc \notin Ending \cup {"returned"} => flow.generated = NoName
    /\ ("cleanup" \in conf /\ flow.direct) =>
         \A n \in Own : made[n] # NoTree => flow.generated = n
    /\ GeneratedTreesCleaned

LEMMA CleanupLeavesNone ==
    ASSUME FlowOK, Left, Cleanup(flow.generated), "cleanup" \in conf, flow.direct
    PROVE  \A n \in Own : made'[n] = NoTree
<1>1. \A n \in Own : made[n] # NoTree => flow.generated = n
  BY DEF Left
<1>2. made \in [Own -> Trees \cup {NoTree}]
  BY DEF FlowOK, BuildTypeOK
<1>3. NoName \notin Own
  BY DEF NoName, Own
<1>4. QED
  BY <1>1, <1>2, <1>3, CleanupIs

LEMMA LeftWhenReturned ==
    ASSUME flow'.pc = "returned", conf' = conf, flow'.direct = flow.direct,
           "cleanup" \in conf /\ flow.direct => \A n \in Own : made'[n] = NoTree
    PROVE  Left'
BY DEF Left, Ending, GeneratedTreesCleaned, Returned

LEMMA LeftRefused ==
    ASSUME FlowOK, Left, Refusals
    PROVE  Left'
<1>1. flow'.pc = "returned" /\ flow'.direct = flow.direct
  BY RefusalIs, ReturnIs
<1>2. conf' = conf
  BY DEF Refusals, ProbeFails, PrecheckWithoutGit, RefusePatch, NoWritableTree, MissingCache,
         CheckCoverage, RecheckCoverage
<1>3. ASSUME "cleanup" \in conf, flow.direct PROVE \A n \in Own : made'[n] = NoTree
  <2>1. CASE ProbeFails \/ PrecheckWithoutGit \/ CheckCoverage
    <3>1. made' = made /\ flow.pc \in {"probe", "coverage", "precheck"}
      BY <2>1 DEF ProbeFails, PrecheckWithoutGit, CheckCoverage
    <3>2. \A n \in Own : made[n] # NoTree => flow.generated = n
      BY <1>3 DEF Left
    <3>3. flow.generated = NoName
      BY <3>1 DEF Left, Ending
    <3>4. QED
      BY <3>1, <3>2, <3>3 DEF NoName, Own
  <2>2. CASE RefusePatch \/ MissingCache \/ (RecheckCoverage /\ flow'.pc = "returned")
    <3>1. Cleanup(flow.generated)
      <4>1. ~Goto("writable?")
        BY <1>1, GotoIs DEF Ending
      <4>2. QED
        BY <2>2, <4>1 DEF RefusePatch, MissingCache, RecheckCoverage
    <3>2. QED
      BY <1>3, <3>1, CleanupLeavesNone
  <2>3. CASE NoWritableTree
    BY <1>3, <2>3 DEF NoWritableTree, NeedsWritableTree
  <2>4. QED
    BY <2>1, <2>2, <2>3 DEF Refusals
<1>4. QED
  BY <1>1, <1>2, <1>3, LeftWhenReturned

LEMMA LeftEnd ==
    ASSUME FlowOK, Left, Ends
    PROVE  Left'
<1>1. flow'.pc = "returned" /\ flow'.direct = flow.direct
  BY EndReturns
<1>2. conf' = conf /\ Cleanup(flow.generated)
  BY EndIs
<1>3. QED
  BY <1>1, <1>2, CleanupLeavesNone, LeftWhenReturned

LEMMA LeftWalk ==
    ASSUME FlowOK, Left, Walks
    PROVE  Left'
<1>1. conf' = conf /\ made \in [Own -> Trees \cup {NoTree}] /\ flow \in Flows
  BY DEF Walks, StartBuild, Probe, Precheck, SwitchPatchedTree, SwitchConflictingTree,
         ReverseTree, NoReverseTree, WritableTree, BuildDirectly, CacheReady, FileFailure,
         CheckCoverage, RecheckCoverage, FlowOK, BuildTypeOK
<1>2. CASE StartBuild
  BY <1>2 DEF StartBuild, Left, Idle, Ending, GeneratedTreesCleaned, Returned
<1>3. CASE Probe
  <2>1. /\ made' = made /\ flow.pc = "probe" /\ flow'.pc = "coverage"
        /\ flow'.generated = flow.generated
    BY <1>1, <1>3 DEF Probe, Flows
  <2>2. QED
    BY <2>1, <1>1 DEF Left, Ending, GeneratedTreesCleaned, Returned
<1>4. CASE FileFailure
  <2>1. /\ made' = made /\ flow.pc = "returned" /\ flow'.pc = "returned"
        /\ flow'.direct = flow.direct
    BY <1>1, <1>4 DEF FileFailure, Flows
  <2>2. QED
    BY <2>1, <1>1 DEF Left, GeneratedTreesCleaned, Returned, LeftWhenReturned
<1>5. CASE CheckCoverage /\ flow'.pc # "returned"
  <2>1. Goto("precheck") /\ flow.pc = "coverage" /\ made' = made
    <3>1. /\ ~Return("failed", "target_arch_mismatch", FALSE, {"wrong arch"})
          /\ ~Return("failed", "feature_not_enabled", FALSE, {"disabled"})
      BY <1>5, <1>1 DEF Return, Flows
    <3>2. QED
      BY <1>5, <3>1 DEF CheckCoverage
  <2>2. /\ flow'.pc = "precheck" /\ flow'.direct = flow.direct
        /\ flow'.generated = flow.generated
    BY <2>1, GotoIs DEF Walking
  <2>3. QED
    BY <2>1, <2>2, <1>1 DEF Left, Ending, GeneratedTreesCleaned, Returned
<1>6. CASE Precheck \/ SwitchPatchedTree \/ SwitchConflictingTree
  <2>1. /\ made' = made /\ flow.pc \in {"precheck", "patched?", "conflicts?"}
    BY <1>6 DEF Precheck, SwitchPatchedTree, SwitchConflictingTree
  <2>2. /\ flow'.pc \in Prechecked
        /\ flow'.direct = flow.direct /\ flow'.generated = flow.generated
    <3>1. CASE Precheck
      BY <3>1, <1>1 DEF Precheck, MoveTo, Flows, Prechecked
    <3>2. CASE SwitchPatchedTree
      BY ZenonT(40), <3>2, <1>1 DEF SwitchPatchedTree, Goto, Flows, Prechecked
    <3>3. CASE SwitchConflictingTree
      BY ZenonT(40), <3>3, <1>1 DEF SwitchConflictingTree, MoveTo, Goto, Flows, Prechecked
    <3>4. QED
      BY <1>6, <3>1, <3>2, <3>3
  <2>3. QED
    BY <2>1, <2>2, <1>1 DEF Left, Prechecked, Ending, GeneratedTreesCleaned, Returned
<1>7. CASE NoReverseTree \/ BuildDirectly \/ CacheReady
           \/ (RecheckCoverage /\ flow'.pc # "returned")
  <2>1. /\ made' = made /\ flow.pc \in {"reverse?"} \cup Ending
        /\ flow'.pc \in Ending
        /\ flow'.direct = flow.direct /\ flow'.generated = flow.generated
    BY <1>7, <1>1 DEF NoReverseTree, BuildDirectly, CacheReady, RecheckCoverage, Goto,
       Return, Flows, Ending
  <2>2. QED
    BY <2>1, <1>1 DEF Left, Ending, GeneratedTreesCleaned, Returned
<1>8. CASE ReverseTree
  <2>1. /\ flow.pc = "reverse?" /\ flow.generated = NoName
        /\ ("cleanup" \in conf /\ flow.direct) => \A n \in Own : made[n] = NoTree
    BY <1>8 DEF ReverseTree, Left, Ending, NoName, Own
  <2>2. PICK t : /\ made' = [made EXCEPT !["reverse_unpatched"] = t]
                 /\ flow'.pc = "verdict" /\ flow'.direct = flow.direct
                 /\ \/ flow'.generated = "reverse_unpatched"
                    \/ t \in Remains
    BY <1>8, <1>1 DEF ReverseTree, Goto, Flows
  <2>3. "cleanup" \in conf /\ t \in Remains => t = NoTree
    BY DEF Remains
  <2>4. QED
    BY <2>1, <2>2, <2>3, <1>1 DEF Left, Ending, GeneratedTreesCleaned, Returned, Own
<1>9. CASE WritableTree
  <2>1. ~flow.direct /\ flow'.direct = flow.direct /\ flow'.pc = "cache"
    BY <1>9, <1>1 DEF WritableTree, NeedsWritableTree, Flows
  <2>2. QED
    BY <2>1, <1>1 DEF Left, Ending, GeneratedTreesCleaned, Returned
<1>10. QED
  BY <1>2, <1>3, <1>4, <1>5, <1>6, <1>7, <1>8, <1>9 DEF Walks

LEMMA LeftStays == FlowOK /\ Left /\ [BuildNext]_buildVars => Left'
<1> SUFFICES ASSUME FlowOK, Left, [BuildNext]_buildVars PROVE Left'
  OBVIOUS
<1>1. CASE UNCHANGED buildVars
  BY <1>1 DEF buildVars, Left, GeneratedTreesCleaned, Returned
<1>2. QED
  BY <1>1, KindsOfSteps, LeftRefused, LeftWalk, LeftEnd

\* Whichever way a build ends, the trees it made are gone, if the configuration
\* says so and the first tree was writable: for any list of slots and whatever
\* is in the trees (_cleanup_generated_source_tree).
THEOREM TreesCleaned == BuildSpec => []GeneratedTreesCleaned
<1>1. BuildInit => Left
  BY DEF BuildInit, Idle, Left, Ending, NoName, GeneratedTreesCleaned, Returned
<1>2. Left => GeneratedTreesCleaned
  BY DEF Left
<1>3. QED
  BY <1>1, <1>2, LeftStays, FlowStarts, FlowStays, PTL DEF BuildSpec

----------------------------------------------------------------------------
(* The verdict that the target is patched already *)

Contained == \E s \in SlotSet : trees[s].patch = "contained"

\* The prechecks that say so, and the record, speak of a configured tree.
Blame ==
    /\ flow.precheck.failure = "target_already_patched" => Contained
    /\ flow.primary # NoPrecheck => Contained
    /\ VerdictBlamesTree

\* A tree that contains the patch goes on containing it.
LEMMA ContainedStays ==
    ASSUME FlowOK, BuildNext, Contained
    PROVE  Contained'
<1>1. PICK s \in SlotSet : trees[s].patch = "contained"
  BY DEF Contained
<1>2. trees'[s].patch = "contained"
  <2>1. CASE Refusals \/ Walks
    BY <2>1, <1>1 DEF Refusals, ProbeFails, PrecheckWithoutGit, RefusePatch, NoWritableTree,
       MissingCache, CheckCoverage, RecheckCoverage, Walks, StartBuild, Probe, Precheck,
       SwitchPatchedTree, SwitchConflictingTree, ReverseTree, NoReverseTree, WritableTree,
       BuildDirectly, CacheReady, FileFailure
  <2>2. CASE Ends
    <3>1. trees \in [SlotSet -> Trees \cup {NoTree}]
      BY DEF FlowOK, BuildTypeOK
    <3>2. \A t \in Trees \cup {NoTree} :
             [t EXCEPT !.patch = "contained"].patch = "contained"
      BY DEF Trees, NoTree
    <3>3. \/ trees' = trees
          \/ /\ flow.selected \in SlotSet
             /\ trees' = [trees EXCEPT ![flow.selected].patch = "contained"]
      BY <2>2, EndIs
    <3>4. CASE trees' = [trees EXCEPT ![flow.selected].patch = "contained"]
      <4>1. trees'[s] = IF s = flow.selected THEN [trees[s] EXCEPT !.patch = "contained"]
                        ELSE trees[s]
        BY <3>1, <3>4
      <4>2. trees[s] \in Trees \cup {NoTree}
        BY <3>1
      <4>3. QED
        BY <1>1, <3>2, <4>1, <4>2
    <3>5. QED
      BY <1>1, <3>3, <3>4
  <2>3. QED
    BY <2>1, <2>2, KindsOfSteps
<1>3. QED
  BY <1>2 DEF Contained

LEMMA BlameRefused ==
    ASSUME FlowOK, Blame, Refusals
    PROVE  Blame'
<1>1. /\ flow'.pc = "returned" /\ trees' = trees
      /\ flow'.primary = flow.primary /\ flow'.precheck = flow.precheck
  BY RefusalIs, ReturnIs DEF Refusals, ProbeFails, PrecheckWithoutGit, RefusePatch,
     NoWritableTree, MissingCache, CheckCoverage, RecheckCoverage
<1>2. ASSUME flow'.record.failure = "target_already_patched" PROVE Contained
  <2>1. CASE RefusePatch
    <3>1. CASE Collapses \/ flow.precheck.failure = "target_already_patched"
      BY <3>1 DEF Collapses, Blame
    <3>2. CASE ~(Collapses \/ flow.precheck.failure = "target_already_patched")
      <4>1. Return("failed", flow.precheck.failure, FALSE, {"not applied"})
        BY <2>1, <3>2 DEF RefusePatch
      <4>2. flow'.record.failure = flow.precheck.failure
        BY <4>1, ReturnedRecord, Zenon
      <4>3. QED
        BY <1>2, <3>2, <4>2
    <3>3. QED
      BY <3>1, <3>2
  <2>2. CASE ProbeFails \/ PrecheckWithoutGit \/ NoWritableTree \/ MissingCache
    <3>1. \E f \in {"build_env_missing", "kernel_src_missing", "kernel_config_missing",
                    "vmlinux_missing", "build_cache_incomplete"} :
             \E signs : Return("failed", f, FALSE, signs)
      BY <2>2 DEF ProbeFails, PrecheckWithoutGit, NoWritableTree, MissingCache
    <3>2. flow'.record.failure # "target_already_patched"
      BY <3>1, ReturnedRecord
    <3>3. QED
      BY <1>2, <3>2
  <2>3. CASE CheckCoverage
    <3>1. ~Goto("precheck")
      BY <1>1, GotoIs DEF Walking
    <3>2. \/ Return("failed", "target_arch_mismatch", FALSE, {"wrong arch"})
          \/ Return("failed", "feature_not_enabled", FALSE, {"disabled"})
      BY <2>3, <3>1 DEF CheckCoverage
    <3>3. flow'.record.failure \in {"target_arch_mismatch", "feature_not_enabled"}
      BY <3>2, ReturnedRecord, Zenon
    <3>4. QED
      BY <1>2, <3>3
  <2>4. CASE RecheckCoverage
    <3>1. ~Goto("writable?")
      BY <1>1, GotoIs DEF Ending
    <3>2. Return("failed", "feature_not_enabled", FALSE, {"disabled"})
      BY <2>4, <3>1 DEF RecheckCoverage
    <3>3. flow'.record.failure = "feature_not_enabled"
      BY <3>2, ReturnedRecord, Zenon
    <3>4. QED
      BY <1>2, <3>3
  <2>5. QED
    BY <2>1, <2>2, <2>3, <2>4 DEF Refusals
<1>3. QED
  BY <1>1, <1>2 DEF Blame, Contained, VerdictBlamesTree

LEMMA BlameEnd ==
    ASSUME FlowOK, Blame, Ends, BuildNext
    PROVE  Blame'
<1>1. /\ flow'.primary = flow.primary /\ flow'.precheck = flow.precheck
      /\ flow'.record.failure # "target_already_patched"
  BY EndReturns DEF CommandTypes
<1>2. QED
  BY <1>1, ContainedStays DEF Blame, VerdictBlamesTree

LEMMA BlameWalk ==
    ASSUME FlowOK, Blame, Walks
    PROVE  Blame'
<1>0. /\ trees' = trees /\ Contained' = Contained /\ flow \in Flows
  BY DEF Walks, StartBuild, Probe, Precheck, SwitchPatchedTree, SwitchConflictingTree,
         ReverseTree, NoReverseTree, WritableTree, BuildDirectly, CacheReady, FileFailure,
         CheckCoverage, RecheckCoverage, FlowOK, Contained
<1>1. CASE StartBuild
  BY <1>1 DEF StartBuild, Idle, NoPrecheck, Blame, VerdictBlamesTree, Returned
<1>2. CASE Precheck
  <2>1. flow.selected \in SlotSet /\ trees[flow.selected] \in Trees
    BY <1>2 DEF Precheck, FlowOK, Places, Walking
  <2>2. /\ flow'.pc = "patched?" /\ flow'.primary = flow.primary
        /\ flow'.precheck = PrecheckPatch(flow.selected)
    BY <1>2, <2>1, MoveToIs DEF Precheck, Prechecked
  <2>3. PrecheckPatch(flow.selected).failure = "target_already_patched" => Contained
    BY <2>1, PrecheckIs, SlotTree DEF Contained
  <2>4. QED
    BY <2>2, <2>3, <1>0 DEF Blame, VerdictBlamesTree, Returned
<1>3. CASE SwitchPatchedTree
  <2> DEFINE s == FallbackSource
  <2>1. CASE Goto("conflicts?")
    BY <2>1, <1>0, GotoIs DEF Blame, VerdictBlamesTree, Returned, Walking, Prechecked
  <2>2. CASE /\ flow.precheck.failure = "target_already_patched"
             /\ flow' = IF s = NoName
                  THEN [flow EXCEPT !.pc = "conflicts?", !.primary = flow.precheck]
                  ELSE [flow EXCEPT !.pc = "conflicts?", !.primary = flow.precheck,
                                    !.selected = s, !.base = s,
                                    !.precheck = PrecheckPatch(s),
                                    !.signs = @ \cup {"switched"}
                                                \cup PrecheckSigns(PrecheckPatch(s))]
    <3>1. Contained
      BY <2>2 DEF Blame
    <3>2. flow'.pc = "conflicts?"
      BY <2>2, <1>0 DEF Flows
    <3>3. QED
      BY <3>1, <3>2, <1>0 DEF Blame, VerdictBlamesTree, Returned
  <2>3. QED
    BY <1>3, <2>1, <2>2 DEF SwitchPatchedTree
<1>4. CASE SwitchConflictingTree
  <2> DEFINE s == SelectSource({flow.selected}, {"unpatched"})
  <2>1. CASE Goto("reverse?")
    BY <2>1, <1>0, GotoIs DEF Blame, VerdictBlamesTree, Returned, Walking, Prechecked
  <2>2. CASE s # NoName /\ MoveTo(s, "reverse?", {})
    <3>1. s \in SlotSet /\ trees[s] \in Trees
      BY <2>2, SourceIsThere
    <3>2. PrecheckPatch(s).failure = "target_already_patched" => Contained
      BY <3>1, PrecheckIs, SlotTree DEF Contained
    <3> HIDE DEF s
    <3>3. /\ flow'.pc = "reverse?" /\ flow'.primary = flow.primary
          /\ flow'.precheck = PrecheckPatch(s)
      BY <2>2, <3>1, MoveToIs DEF Prechecked
    <3>4. QED
      BY <3>2, <3>3, <1>0 DEF Blame, VerdictBlamesTree, Returned
  <2>3. QED
    BY <1>4, <2>1, <2>2 DEF SwitchConflictingTree
<1>5. CASE ReverseTree
  <2>1. /\ flow'.pc = "verdict" /\ flow'.primary = flow.primary
        /\ \/ flow'.precheck = flow.precheck
           \/ flow'.precheck.failure # "target_already_patched"
    <3>1. CASE Goto("verdict")
      BY <3>1, GotoIs DEF Ending
    <3>2. ASSUME NEW t \in ReversedTrees,
                 flow' = [flow EXCEPT !.pc = "verdict",
                            !.selected = "reverse_unpatched",
                            !.generated = "reverse_unpatched",
                            !.base = ReverseCandidate.source,
                            !.precheck = [ok      |-> t.patch = "applies",
                                          failure |-> IF t.patch = "applies" THEN "none"
                                                      ELSE "patch_apply_failed",
                                          source  |-> "reverse_unpatched"],
                            !.signs = @ \cup PrecheckSigns(
                                         [ok      |-> t.patch = "applies",
                                          failure |-> IF t.patch = "applies" THEN "none"
                                                      ELSE "patch_apply_failed",
                                          source  |-> "reverse_unpatched"])]
          PROVE  /\ flow'.pc = "verdict" /\ flow'.primary = flow.primary
                 /\ flow'.precheck.failure # "target_already_patched"
      BY <3>2, <1>0 DEF Flows
    <3>3. QED
      BY <1>5, <3>1, <3>2 DEF ReverseTree
  <2>2. QED
    BY <2>1, <1>0 DEF Blame, VerdictBlamesTree, Returned
<1>6. CASE FileFailure
  <2>1. /\ flow'.precheck = flow.precheck /\ flow'.primary = flow.primary
        /\ flow'.record = flow.record /\ flow.pc = "returned"
    BY <1>6, <1>0 DEF FileFailure, Flows
  <2>2. QED
    BY <2>1, <1>0 DEF Blame, VerdictBlamesTree, Returned, Contained
<1>7. CASE \/ Probe \/ NoReverseTree \/ BuildDirectly \/ CacheReady \/ WritableTree
           \/ CheckCoverage /\ flow'.pc # "returned"
           \/ RecheckCoverage /\ flow'.pc # "returned"
  <2>1. /\ flow'.precheck = flow.precheck /\ flow'.primary = flow.primary
        /\ flow'.pc # "returned"
    BY <1>7, <1>0 DEF Probe, NoReverseTree, BuildDirectly, CacheReady, WritableTree,
       CheckCoverage, RecheckCoverage, Goto, Return, Flows
  <2>2. QED
    BY <2>1, <1>0 DEF Blame, VerdictBlamesTree, Returned
<1>8. QED
  BY <1>1, <1>2, <1>3, <1>4, <1>5, <1>6, <1>7 DEF Walks

\* A build ends with the verdict that the target is patched already only if a
\* configured tree is: no conflict, no failed reversal and no tree of the
\* builder's own earns it, for any slots and trees.
THEOREM VerdictEarned == BuildSpec => []VerdictBlamesTree
<1>1. BuildInit => Blame
  BY DEF BuildInit, Idle, NoPrecheck, Blame, VerdictBlamesTree, Returned
<1>2. FlowOK /\ Blame /\ [BuildNext]_buildVars => Blame'
  <2> SUFFICES ASSUME FlowOK, Blame, [BuildNext]_buildVars PROVE Blame'
    OBVIOUS
  <2>1. CASE UNCHANGED buildVars
    BY <2>1 DEF buildVars, Blame, VerdictBlamesTree, Returned, Contained
  <2>2. QED
    BY <2>1, KindsOfSteps, BlameRefused, BlameEnd, BlameWalk
<1>3. Blame => VerdictBlamesTree
  BY DEF Blame
<1>4. QED
  BY <1>1, <1>2, <1>3, FlowStarts, FlowStays, PTL DEF BuildSpec

----------------------------------------------------------------------------
(* The type of a refused build, read out of its log again *)

\* What a check writes into the log when it ends a build: a sign of its own.
Signed(f, s) ==
    \/ s = {"no builder"} /\ f = "build_env_missing"
    \/ s = {"no tree"} /\ f = "kernel_src_missing"
    \/ s = {"no config"} /\ f = "kernel_config_missing"
    \/ s = {"no vmlinux"} /\ f = "vmlinux_missing"
    \/ s = {"wrong arch"} /\ f = "target_arch_mismatch"
    \/ s \subseteq {"patched", "not applied", "switched", "disabled"}
       /\ ("disabled" \in s => f = "feature_not_enabled")
    \/ s \subseteq {"patched", "not applied", "switched", "no cache"}
       /\ ("no cache" \in s => f = "build_cache_incomplete")

LEMMA SignedType ==
    ASSUME NEW f, NEW s, s \subseteq FlowSigns, Signed(f, s)
    PROVE  LET type == ClassifyBuildLog(f, FALSE, s) IN
           type # f =>
              \/ "patched" \in s /\ type = "target_already_patched"
              \/ "not applied" \in s /\ type = "patch_apply_failed"
<1> DEFINE type == ClassifyBuildLog(f, FALSE, s)
<1> HIDE DEF type
<1>1. /\ s = {"no builder"} => type = "build_env_missing"
      /\ s = {"no tree"} => type = "kernel_src_missing"
      /\ s = {"no config"} => type = "kernel_config_missing"
      /\ s = {"no vmlinux"} => type = "vmlinux_missing"
      /\ s \cap {"no builder", "no tree", "no config", "no vmlinux"} = {} =>
           type = IF "patched" \in s THEN "target_already_patched"
                  ELSE IF "disabled" \in s THEN "feature_not_enabled"
                  ELSE IF "wrong arch" \in s THEN "target_arch_mismatch"
                  ELSE IF "no cache" \in s THEN "build_cache_incomplete"
                  ELSE IF "not applied" \in s THEN "patch_apply_failed"
                  ELSE f
  BY RefusalType DEF type
<1>2. QED
  BY <1>1 DEF Signed, type

\* Nothing is in the log before git is asked.
Unread == flow.pc \in {"idle", "probe", "coverage", "precheck"} => flow.signs = {}

\* Every refusal returns "target_state", or is signed.
LEMMA RefusalSigned ==
    ASSUME FlowOK, Unread, Refusals
    PROVE  \E status \in {"failed", "target_state"} : \E f, s :
             /\ Return(status, f, FALSE, s)
             /\ flow.signs \cup s \subseteq FlowSigns
             /\ status = "failed" => \/ Signed(f, flow.signs \cup s)
                                     \/ "not applied" \in s /\ s \subseteq {"not applied"}
<1>1. flow.signs \subseteq {"patched", "not applied", "switched"}
  BY DEF FlowOK, Flows
<1>2. flow.pc \in {"probe", "coverage", "precheck"} => flow.signs = {}
  BY DEF Unread
<1>3. flow'.pc = "returned"
  BY RefusalIs, ReturnIs
<1>4. CASE ProbeFails
  <2>1. flow.signs = {}
    BY <1>2, <1>4 DEF ProbeFails
  <2>2. \E f, s : /\ Return("failed", f, FALSE, s)
                  /\ s \subseteq FlowSigns /\ Signed(f, s)
    BY <1>4 DEF ProbeFails, Signed, FlowSigns
  <2>3. QED
    BY <2>1, <2>2
<1>5. CASE CheckCoverage
  <2>1. flow.signs = {}
    BY <1>2, <1>5 DEF CheckCoverage
  <2>2. ~Goto("precheck")
    BY <1>3, GotoIs DEF Walking
  <2>3. \/ Return("failed", "target_arch_mismatch", FALSE, {"wrong arch"})
        \/ Return("failed", "feature_not_enabled", FALSE, {"disabled"})
    BY <1>5, <2>2 DEF CheckCoverage
  <2>4. QED
    BY ZenonT(40), <2>1, <2>3 DEF Signed, FlowSigns
<1>6. CASE PrecheckWithoutGit
  BY <1>1, <1>6 DEF PrecheckWithoutGit, FlowSigns
<1>7. CASE RefusePatch
  BY <1>1, <1>7 DEF RefusePatch, FlowSigns
<1>8. CASE NoWritableTree
  <2>1. flow.signs \cup {} \subseteq FlowSigns /\ Signed("build_env_missing", flow.signs \cup {})
    BY <1>1 DEF Signed, FlowSigns
  <2>2. QED
    BY <1>8, <2>1 DEF NoWritableTree
<1>9. CASE RecheckCoverage
  <2>1. ~Goto("writable?")
    BY <1>3, GotoIs DEF Ending
  <2>2. Return("failed", "feature_not_enabled", FALSE, {"disabled"})
    BY <1>9, <2>1 DEF RecheckCoverage
  <2>3. /\ flow.signs \cup {"disabled"} \subseteq FlowSigns
        /\ Signed("feature_not_enabled", flow.signs \cup {"disabled"})
    BY <1>1 DEF Signed, FlowSigns
  <2>4. QED
    BY <2>2, <2>3
<1>10. CASE MissingCache
  <2>1. /\ flow.signs \cup {"no cache"} \subseteq FlowSigns
        /\ Signed("build_cache_incomplete", flow.signs \cup {"no cache"})
    BY <1>1 DEF Signed, FlowSigns
  <2>2. QED
    BY <1>10, <2>1 DEF MissingCache
<1>11. QED
  BY <1>4, <1>5, <1>6, <1>7, <1>8, <1>9, <1>10 DEF Refusals

\* What the classifier makes of a refusal.
LEMMA OverruledRefused ==
    ASSUME FlowOK, Unread, Refusals
    PROVE  OverruledOnlyByApply'
<1>1. PICK status \in {"failed", "target_state"} : \E f, s :
             /\ Return(status, f, FALSE, s)
             /\ flow.signs \cup s \subseteq FlowSigns
             /\ status = "failed" => \/ Signed(f, flow.signs \cup s)
                                     \/ "not applied" \in s /\ s \subseteq {"not applied"}
  BY RefusalSigned
<1>2. PICK f, s :
             /\ Return(status, f, FALSE, s)
             /\ flow.signs \cup s \subseteq FlowSigns
             /\ status = "failed" => \/ Signed(f, flow.signs \cup s)
                                     \/ "not applied" \in s /\ s \subseteq {"not applied"}
  BY <1>1
<1> DEFINE all == flow.signs \cup s
           type == ClassifyBuildLog(f, FALSE, all)
<1>3. /\ flow'.record.status = status /\ flow'.record.failure = f
      /\ flow'.record.signs = all
  BY <1>2, ReturnedRecord
<1>4. flow'.record.executed = FALSE
  <2>1. flow'.record = [status |-> status, failure |-> f, executed |-> FALSE, signs |-> all]
    BY <1>2, ReturnedRecord
  <2>2. QED
    BY <2>1
<1>5. RuleType(flow'.record) = type
  BY <1>3, <1>4, Zenon DEF RuleType
<1> HIDE DEF type
<1>6. ASSUME status = "failed", type # f
      PROVE  \/ "patched" \in all /\ type = "target_already_patched"
             \/ "not applied" \in all /\ type = "patch_apply_failed"
  <2>1. CASE Signed(f, all)
    BY <1>2, <1>6, <2>1, SignedType DEF type
  <2>2. CASE "not applied" \in s /\ s \subseteq {"not applied"}
    <3>1. all \subseteq {"patched", "not applied", "switched"} /\ "not applied" \in all
      BY <2>2 DEF FlowOK, Flows
    <3>2. type = IF "patched" \in all THEN "target_already_patched" ELSE "patch_apply_failed"
      <4>1. all \subseteq FlowSigns
        BY <1>2
      <4> HIDE DEF all
      <4>2. all \cap {"no builder", "no tree", "no config", "no vmlinux"} = {} =>
              type = IF "patched" \in all THEN "target_already_patched"
                     ELSE IF "disabled" \in all THEN "feature_not_enabled"
                     ELSE IF "wrong arch" \in all THEN "target_arch_mismatch"
                     ELSE IF "no cache" \in all THEN "build_cache_incomplete"
                     ELSE IF "not applied" \in all THEN "patch_apply_failed"
                     ELSE f
        BY <4>1, RefusalType DEF type
      <4>3. QED
        BY <3>1, <4>2
    <3>3. QED
      BY <3>1, <3>2
  <2>3. QED
    BY <1>2, <1>6, <2>1, <2>2
<1> HIDE DEF all
<1>7. QED
  BY <1>3, <1>5, <1>6 DEF OverruledOnlyByApply

\* The record of a build under way is not looked at.
LEMMA OverruledWalk ==
    ASSUME FlowOK, OverruledOnlyByApply, Walks
    PROVE  OverruledOnlyByApply'
<1>1. \/ flow'.pc # "returned"
      \/ flow.pc = "returned" /\ flow'.record = flow.record
  <2>0. flow \in Flows
    BY DEF FlowOK
  <2>1. CASE FileFailure
    BY <2>0, <2>1 DEF FileFailure, Flows
  <2>2. CASE StartBuild
    BY <2>2 DEF StartBuild, Idle
  <2>3. CASE Probe \/ Precheck \/ WritableTree
    BY <2>0, <2>3 DEF Probe, Precheck, WritableTree, MoveTo, Flows
  <2>4. CASE NoReverseTree \/ BuildDirectly \/ CacheReady
    BY <2>0, <2>4 DEF NoReverseTree, BuildDirectly, CacheReady, Goto, Flows
  <2>5. CASE SwitchPatchedTree
    BY <2>0, <2>5 DEF SwitchPatchedTree, Goto, Flows
  <2>6. CASE SwitchConflictingTree
    BY <2>0, <2>6 DEF SwitchConflictingTree, MoveTo, Goto, Flows
  <2>7. CASE ReverseTree
    BY <2>0, <2>7 DEF ReverseTree, Goto, Flows
  <2>8. QED
    BY <2>1, <2>2, <2>3, <2>4, <2>5, <2>6, <2>7 DEF Walks
<1>2. QED
  BY <1>1, Zenon DEF OverruledOnlyByApply, Returned

\* Until git is asked the log says nothing of it.
LEMMA UnreadStays ==
    ASSUME FlowOK, Unread, [BuildNext]_buildVars
    PROVE  Unread'
<1>0. flow \in Flows
  BY DEF FlowOK
<1>1. CASE Refusals
  <2>1. flow'.pc = "returned"
    BY <1>1, RefusalIs, ReturnIs
  <2>2. QED
    BY <2>1 DEF Unread
<1>2. CASE Ends
  BY <1>2, EndReturns DEF Unread
<1>3. CASE StartBuild
  BY <1>3 DEF StartBuild, Idle, Unread
<1>4. CASE Probe
  BY <1>0, <1>4 DEF Probe, Flows, Unread
<1>5. CASE CheckCoverage /\ flow'.pc # "returned"
  <2>1. Goto("precheck") /\ flow.pc = "coverage"
    BY <1>0, <1>5 DEF CheckCoverage, Return, Flows
  <2>2. QED
    BY <1>0, <2>1 DEF Goto, Flows, Unread
<1>6. CASE Precheck \/ SwitchPatchedTree \/ SwitchConflictingTree \/ WritableTree
  <2>1. flow'.pc \in Prechecked \cup {"cache"}
    BY ZenonT(40), <1>0, <1>6
    DEF Precheck, SwitchPatchedTree, SwitchConflictingTree, WritableTree, MoveTo, Goto, Flows,
        Prechecked
  <2>2. QED
    BY <2>1 DEF Unread, Prechecked
<1>7. CASE ReverseTree \/ NoReverseTree \/ BuildDirectly \/ CacheReady
           \/ (RecheckCoverage /\ flow'.pc # "returned")
  <2>1. flow'.pc \in Ending
    BY <1>0, <1>7 DEF ReverseTree, NoReverseTree, BuildDirectly, CacheReady, RecheckCoverage,
       Goto, Return, Flows, Ending
  <2>2. QED
    BY <2>1 DEF Unread, Ending
<1>8. CASE FileFailure \/ UNCHANGED buildVars
  <2>1. flow'.pc = flow.pc /\ flow'.signs = flow.signs
    BY <1>0, <1>8 DEF FileFailure, buildVars, Flows
  <2>2. QED
    BY <2>1 DEF Unread
<1>9. QED
  BY <1>1, <1>2, <1>3, <1>4, <1>5, <1>6, <1>7, <1>8, KindsOfSteps DEF Walks

\* Whatever trees a refused build tried and left, the classifier, which reads
\* its type out of the log again, overrules the builder only with what git said
\* of one of them: no other check that ends a build is ever taken for another
\* one (classify_build_log).
THEOREM OverruledByGit == BuildSpec => []OverruledOnlyByApply
<1>1. BuildInit => Unread /\ OverruledOnlyByApply
  BY DEF BuildInit, Idle, Unread, OverruledOnlyByApply, Returned
<1>2. FlowOK /\ Unread /\ OverruledOnlyByApply /\ [BuildNext]_buildVars
        => Unread' /\ OverruledOnlyByApply'
  <2> SUFFICES ASSUME FlowOK, Unread, OverruledOnlyByApply, [BuildNext]_buildVars
               PROVE  OverruledOnlyByApply'
    BY UnreadStays
  <2>1. CASE Ends
    <3>1. flow'.record.executed = TRUE
      BY <2>1, EndReturns
    <3>2. QED
      BY <3>1, Zenon DEF OverruledOnlyByApply
  <2>2. CASE UNCHANGED buildVars
    BY <2>2, Zenon DEF buildVars, OverruledOnlyByApply, Returned
  <2>3. QED
    BY <2>1, <2>2, KindsOfSteps, OverruledRefused, OverruledWalk
<1>3. QED
  BY <1>1, <1>2, FlowStarts, FlowStays, PTL DEF BuildSpec

=============================================================================
