------------------------------ MODULE FixSources ------------------------------
(***************************************************************************)
(* RepairChainResolver.resolve: where the fix of a CVE comes from.         *)
(*                                                                         *)
(* Two records name commits, NVD's and CVE list's; commits of the stable   *)
(* tree are ranked by the kernel series they belong to and tried before    *)
(* the upstream ones, each from the local mirror and from the addresses    *)
(* its reference gives.  Every request goes through a cache of files that  *)
(* outlives the process, is tried again a few times, and falls back on an  *)
(* old cached answer.                                                      *)
(*                                                                         *)
(* An address is what is asked for and who is asked; texts are whole, torn *)
(* (a write that broke off) or other (an answer that is not what was asked *)
(* for, as a mirror's error page).                                         *)
(***************************************************************************)
EXTENDS Naturals, Sequences, SequencesExt, FiniteSets

CONSTANTS
    Commits,
    MaxTries,      \* max_request_retries
    MaxFaults,     \* bound: writes of the cache that fail
    Worlds         \* what the records, the trees and the cache hold, see WorldType

Ages == {"none", "fresh", "stale", "old"}

NoCommit == "none"
NoRef == [source |-> "none", commit |-> NoCommit, file |-> "none"]

\* A reference names a commit's page or, with a link that ends in .patch, the file
\* a server has of it: file is that server.
Refs == [source : {"linux-stable", "upstream"}, commit : Commits,
         file : {"none", "kernel.org", "github"}]

StableRef(c) == [source |-> "linux-stable", commit |-> c, file |-> "none"]
UpstreamRef(c) == [source |-> "upstream", commit |-> c, file |-> "none"]

\* nvd, cvelist: the commits each record names; text: one its description names;
\* series: that of each commit in the stable tree; targeted: whether the task
\* names a kernel; mirror: the commits in the local stable mirror, if any; left:
\* what earlier resolutions of the CVE left in the cache.  One that was asked for
\* nothing new wrote nothing, and one that died writing left a torn text.
WorldType(w) ==
    /\ {w.nvd, w.cvelist} \subseteq Seq(Refs)
    /\ w.text \in Commits \cup {NoCommit}
    /\ w.series \in [Commits -> {"target", "other"}]
    /\ w.targeted \in BOOLEAN
    /\ w.mirror \subseteq Commits
    /\ w.left \in [text : {"none", "torn", "other", "whole"}, age : Ages]

ASSUME WorldsTyped == \A w \in Worlds : WorldType(w)
ASSUME TriesPositive == MaxTries \in Nat \ {0}
ASSUME FaultsBounded == MaxFaults \in Nat

VARIABLES
    world,     \* what there is to be found
    cache,     \* data/cache: a text and the age its metadata gives it, by name
    look,      \* the resolution at work
    faults     \* writes that failed so far (bounded)

sourceVars == <<world, cache, look, faults>>

----------------------------------------------------------------------------
(* Addresses *)

NvdUrl == [kind |-> "nvd", host |-> "nvd", ref |-> NoRef]
CdnUrl == [kind |-> "cvelist", host |-> "cdn", ref |-> NoRef]
RawUrl == [kind |-> "cvelist", host |-> "github", ref |-> NoRef]
MakefileUrl(c) == [kind |-> "makefile", host |-> "kernel.org", ref |-> StableRef(c)]
PatchUrl(host, ref) == [kind |-> "patch", host |-> host, ref |-> ref]

\* A page is expanded to an address at each server; a file is its own address.
PatchUrls(ref) ==
    IF ref.file # "none" THEN <<PatchUrl(ref.file, ref)>>
    ELSE <<PatchUrl("kernel.org", ref), PatchUrl("github", ref)>>

Urls ==
    {NvdUrl, CdnUrl, RawUrl} \cup {MakefileUrl(c) : c \in Commits}
    \cup UNION {ToSet(PatchUrls(r)) : r \in Refs}

\* The name of an answer in the cache: the two mirrors of CVE list share one.
CacheKey(url) == IF url.kind = "cvelist" THEN CdnUrl ELSE url

Keys == {CacheKey(u) : u \in Urls}

Uncached == [text |-> "none", age |-> "none"]

Cached(url, ages) ==
    LET c == cache[CacheKey(url)] IN c.text # "none" /\ c.age \in ages

----------------------------------------------------------------------------
(* The commits to try *)

\* What s has at these places, in their order.
Picked(s, places) ==
    [k \in 1..Cardinality(places) |->
       s[CHOOSE i \in places : Cardinality({j \in places : j <= i}) = k]]

Named(got) ==
    (IF "nvd" \in got THEN world.nvd ELSE <<>>)
    \o (IF "cvelist" \in got THEN world.cvelist ELSE <<>>)

\* Each commit once, by the reference that names it first.
CommitReferences(got, source) ==
    LET named == Named(got)
    IN Picked(named, {i \in DOMAIN named : named[i].source = source
                                           /\ \A j \in 1..(i - 1) :
                                                named[j].source = source =>
                                                   named[j].commit # named[i].commit})

\* A commit only the description names is one of the upstream tree.
UpstreamRefs(got) ==
    LET refs == CommitReferences(got, "upstream")
    IN IF refs = <<>> /\ world.text # NoCommit /\ got # {}
       THEN <<UpstreamRef(world.text)>> ELSE refs

\* Without a stable commit, the upstream ones are looked for in the stable tree.
StableRefs(got) ==
    LET refs == CommitReferences(got, "linux-stable")
        up == UpstreamRefs(got)
    IN IF refs = <<>> THEN [i \in DOMAIN up |-> StableRef(up[i].commit)] ELSE refs

OfSeries(refs, known, series) ==
    Picked(refs, {i \in DOMAIN refs : known[refs[i].commit] = series})

\* Mutant: a match makes the unknown ones superfluous.
SelectableStableMatching(refs, known) ==
    IF ~world.targeted THEN refs
    ELSE IF OfSeries(refs, known, "target") # <<>>
         THEN OfSeries(refs, known, "target")
         ELSE OfSeries(refs, known, "unknown")

\* Stable commits of the target's series first, then those of a series nobody
\* could tell; never those of another one.
SelectableStable(refs, known) ==
    IF ~world.targeted THEN refs
    ELSE OfSeries(refs, known, "target") \o OfSeries(refs, known, "unknown")

----------------------------------------------------------------------------
(* What follows an answer, and what follows none *)

\* resolve starts with the NVD record.
FirstLook ==
    [pc |-> "cache", url |-> NvdUrl, try |-> 0, text |-> "none",
     got |-> {}, stable |-> <<>>, upstream |-> <<>>,
     known |-> [c \in Commits |-> "unknown"],
     cands |-> <<>>, next |-> 1, mirrored |-> {}, spent |-> {},
     out |-> "none", ref |-> NoRef]

TurnTo(l, url) == [l EXCEPT !.pc = "cache", !.url = url, !.try = 0, !.text = "none"]

EndLook(l, out, ref, text) ==
    [l EXCEPT !.pc = "done", !.out = out, !.ref = ref, !.text = text]

\* A text has come, from wherever: a record that does not parse counts as none.
Delivered(l, text) ==
    CASE l.url.kind = "nvd" ->
           TurnTo(IF text = "whole" THEN [l EXCEPT !.got = @ \cup {"nvd"}] ELSE l, CdnUrl)
      [] l.url.kind = "cvelist" ->
           IF text = "whole" THEN [l EXCEPT !.got = @ \cup {"cvelist"}, !.pc = "collect"]
           ELSE IF l.url = CdnUrl THEN TurnTo(l, RawUrl) ELSE [l EXCEPT !.pc = "collect"]
      [] l.url.kind = "makefile" ->
           [l EXCEPT !.pc = "series", !.next = @ + 1,
                     !.known[l.url.ref.commit] =
                        IF text = "whole" THEN world.series[l.url.ref.commit] ELSE "unknown"]
      [] l.url.kind = "patch" -> EndLook(l, "passed", l.url.ref, text)

\* A ValueError has: the next address, the next commit or, for a record, none.
Missed(l, refused) ==
    CASE l.url.kind = "nvd" -> TurnTo(l, CdnUrl)
      [] l.url = CdnUrl -> TurnTo(l, RawUrl)
      [] l.url = RawUrl -> [l EXCEPT !.pc = "collect"]
      [] l.url.kind = "makefile" -> [l EXCEPT !.pc = "series", !.next = @ + 1]
      [] l.url.kind = "patch" ->
           LET spent == IF refused \/ l.try = MaxTries
                        THEN [l EXCEPT !.spent = @ \cup {l.url}] ELSE l
               last == Last(PatchUrls(l.url.ref))
           IN IF l.url # last THEN TurnTo(spent, last)
              ELSE [spent EXCEPT !.pc = "git", !.next = @ + 1]

----------------------------------------------------------------------------
(* The steps *)

ReadFresh ==
    /\ look.pc = "cache"
    /\ look' = IF Cached(look.url, {"fresh"})
               THEN Delivered(look, cache[CacheKey(look.url)].text)
               ELSE [look EXCEPT !.pc = "ask", !.try = 1]
    /\ UNCHANGED <<world, cache, faults>>

\* No answer, or one that asks for patience (429, 5xx).
Again(l) ==
    IF l.try < MaxTries THEN [l EXCEPT !.pc = "ask", !.try = @ + 1, !.text = "none"]
    ELSE [l EXCEPT !.pc = "stale", !.text = "none"]

NoAnswer ==
    /\ look.pc = "ask"
    /\ look' = Again(look)
    /\ UNCHANGED <<world, cache, faults>>

\* Any other HTTP error is final: no further try, no old answer.
Refused ==
    /\ look.pc = "ask"
    /\ look' = Missed(look, TRUE)
    /\ UNCHANGED <<world, cache, faults>>

\* A body that ends early (IncompleteRead) is no ValueError: resolve gives up.
CutOff ==
    /\ look.pc = "ask"
    /\ look' = EndLook(look, "broken", NoRef, "none")
    /\ UNCHANGED <<world, cache, faults>>

Answered ==
    /\ look.pc = "ask"
    /\ \E text \in {"whole", "other"} :
         look' = [look EXCEPT !.pc = "fill", !.text = text]
    /\ cache' = [cache EXCEPT ![CacheKey(look.url)].text = "torn"]
    /\ UNCHANGED <<world, faults>>

\* _write_cache: the text, which opening the file has emptied, then its date.
FillCache ==
    /\ look.pc = "fill"
    /\ cache' = [cache EXCEPT ![CacheKey(look.url)].text = look.text]
    /\ look' = [look EXCEPT !.pc = "date"]
    /\ UNCHANGED <<world, faults>>

DateCache ==
    /\ look.pc = "date"
    /\ cache' = [cache EXCEPT ![CacheKey(look.url)].age = "fresh"]
    /\ look' = Delivered(look, look.text)
    /\ UNCHANGED <<world, faults>>

\* A write that fails is taken for the request: the answer in hand is dropped.
CacheFails ==
    /\ look.pc \in {"fill", "date"}
    /\ faults < MaxFaults
    /\ faults' = faults + 1
    /\ look' = Again(look)
    /\ cache' = IF look.pc = "fill" THEN cache
                ELSE [cache EXCEPT ![CacheKey(look.url)].age = "none"]
    /\ UNCHANGED world

ReadStale ==
    /\ look.pc = "stale"
    /\ look' = IF Cached(look.url, {"fresh", "stale"})
               THEN Delivered(look, cache[CacheKey(look.url)].text)
               ELSE Missed(look, FALSE)
    /\ UNCHANGED <<world, cache, faults>>

\* _collect_references to _derive_stable_probe_refs, on whatever records came.
Collect ==
    /\ look.pc = "collect"
    /\ look' = [look EXCEPT !.pc = "series", !.next = 1,
                            !.stable = StableRefs(look.got),
                            !.upstream = UpstreamRefs(look.got)]
    /\ UNCHANGED <<world, cache, faults>>

\* _prioritize_stable_refs_for_target: the series of each stable commit, from
\* the mirror if that answers, else from the server.
LookUpSeries ==
    /\ look.pc = "series" /\ world.targeted /\ look.next <= Len(look.stable)
    /\ LET c == look.stable[look.next].commit IN
       \/ /\ c \in world.mirror
          /\ look' = [look EXCEPT !.known[c] = world.series[c], !.next = @ + 1]
       \/ look' = TurnTo(look, MakefileUrl(c))
    /\ UNCHANGED <<world, cache, faults>>

RankCandidates ==
    /\ look.pc = "series" /\ (world.targeted => look.next > Len(look.stable))
    /\ look' = [look EXCEPT !.pc = "git", !.next = 1,
                            !.cands = SelectableStable(look.stable, look.known)
                                      \o look.upstream]
    /\ UNCHANGED <<world, cache, faults>>

\* _fetch_patch_text: a stable commit from the mirror first, which may fail.
TryMirror ==
    /\ look.pc = "git" /\ look.next <= Len(look.cands)
    /\ LET ref == look.cands[look.next] IN
       /\ ref.source = "linux-stable" /\ ref.commit \in world.mirror
       /\ \/ look' = EndLook(look, "passed", ref, "whole")
          \/ look' = TurnTo([look EXCEPT !.mirrored = @ \cup {ref}],
                            PatchUrls(ref)[1])
    /\ UNCHANGED <<world, cache, faults>>

TryServers ==
    /\ look.pc = "git" /\ look.next <= Len(look.cands)
    /\ LET ref == look.cands[look.next] IN
       /\ ~(ref.source = "linux-stable" /\ ref.commit \in world.mirror)
       /\ look' = TurnTo(look, PatchUrls(ref)[1])
    /\ UNCHANGED <<world, cache, faults>>

GiveUp ==
    /\ look.pc = "git" /\ look.next > Len(look.cands)
    /\ look' = EndLook(look, IF look.cands = <<>> THEN "sourceless" ELSE "failed",
                       NoRef, "none")
    /\ UNCHANGED <<world, cache, faults>>

SourcesInit ==
    /\ world \in Worlds
    /\ cache = [k \in Keys |-> world.left]
    /\ look = FirstLook
    /\ faults = 0

SourcesNext ==
    \/ ReadFresh \/ NoAnswer \/ Refused \/ CutOff \/ Answered
    \/ FillCache \/ DateCache \/ CacheFails \/ ReadStale
    \/ Collect \/ LookUpSeries \/ RankCandidates
    \/ TryMirror \/ TryServers \/ GiveUp

SourcesSpec == SourcesInit /\ [][SourcesNext]_sourceVars

----------------------------------------------------------------------------
(* Properties *)

SourcesTypeOK ==
    /\ world \in Worlds
    /\ cache \in [Keys -> [text : {"none", "torn", "other", "whole"},
                           age : Ages]]
    /\ look.url \in Urls /\ look.try \in 0..MaxTries
    /\ look.got \subseteq {"nvd", "cvelist"}
    /\ {look.stable, look.upstream, look.cands} \subseteq Seq(Refs)
    /\ look.ref \in Refs \cup {NoRef}

\* Everything that may hold this commit was asked for it, and in vain: the
\* mirror, and each address its reference gives, until it refused or the tries
\* ran out.  A reference to a .patch file gives no other server's.
Exhausted(ref) ==
    /\ (ref.source = "linux-stable" /\ ref.commit \in world.mirror) => ref \in look.mirrored
    /\ ToSet(PatchUrls(ref)) \subseteq look.spent

Fits(ref) == world.targeted => look.known[ref.commit] # "other"

\* A commit is only fallen back on when all the better ones are exhausted, and
\* the resolution only fails when all are; a stable commit known to be of
\* another series is never taken (_fetch_patch_from_reference_candidates).
TakenInOrder ==
    LET stable == ToSet(look.stable) IN
    /\ look.out = "failed" =>
         \A r \in {s \in stable : Fits(s)} \cup ToSet(look.upstream) : Exhausted(r)
    /\ look.out = "passed" =>
         /\ look.ref.source = "upstream" =>
              \A r \in {s \in stable : Fits(s)} : Exhausted(r)
         /\ look.ref.source = "linux-stable" =>
              /\ Fits(look.ref)
              /\ (world.targeted /\ look.known[look.ref.commit] = "unknown") =>
                    \A r \in stable : look.known[r.commit] = "target" => Exhausted(r)

=============================================================================
