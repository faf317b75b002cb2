---------------------------- MODULE SpecRelease ----------------------------
(***************************************************************************)
(* How a spec CCP publishes becomes a release: fetch_spec of               *)
(* src/xtask/src/main.rs, the spec-check workflow that runs it, compares   *)
(* what it got with the committed spec and opens a PR with a bump marker,  *)
(* and the publish-on-merge workflow.  People merge when they like, CCP    *)
(* publishes when it likes, and a run reads main when it starts, not when  *)
(* it was queued.  A commit is [spec, marker, declared]: the committed     *)
(* spec, the bump marker in its message and the version in Cargo.toml.     *)
(* One tick is an hour.                                                    *)
(***************************************************************************)
EXTENDS Program, SequencesExt

CONSTANTS
  Docs,          \* the documents CCP may publish ...
  Document,      \* ... and what is in them, but for the version
  FirstDoc,
  Markers,       \* the markers people put on the merges of their own
  Prepared,      \* the versions they may declare in Cargo.toml by hand
  Dispatches,    \* the levels they may dispatch a release with
  Failures,      \* a publish run may fail
  Checkers,      \* runs of spec-check that may be on at one time
  FirstHour,     \* UTC hours since some midnight
  MaxHour,       \* bound: the clock stops here
  MaxPublished,  \* bound: specs CCP publishes
  MaxCommits,    \* bound: commits on main
  MaxReleases    \* bound: nobody dispatches a release beyond it

FirstVersion == <<0, 1, 0>>

ASSUME DocsAssumption == FirstDoc \in Docs
\* (The first document is dated 0, and out everywhere for an hour.)
ASSUME HoursAssumption == FirstHour \in Nat /\ 12 <= FirstHour /\ MaxHour \in Nat
ASSUME MergesAssumption ==
  /\ Markers \subseteq {"none", "patch", "minor", "major", "skip"}
  /\ Dispatches \subseteq {"patch", "minor", "major", "skip"}
  /\ Prepared \subseteq Nat \X Nat \X Nat
  /\ Failures \in BOOLEAN
  /\ None \notin {"patch", "minor", "major", "skip"}

VARIABLES
  hour,       \* UTC
  published,  \* CCP: the specs it has published, [date, doc, hour]
  check,      \* runs of spec-check: None, or [base, got], the spec each has
              \* checked out, and got (None before)
  pr,         \* the open spec-update PR: [base, spec, marker]
  main,       \* the commits of the main branch
  jobs,       \* publish-on-merge runs that wait or run
  releases,   \* on crates.io: [version, head], and the level if given by hand
  settled,    \* history: the last commit whose run is over
  lost        \* history: commits whose run ended without a release

vars == <<hour, published, check, pr, main, jobs, releases, settled, lost>>

checking == <<check, pr>>
publishing == <<jobs, releases, settled, lost>>

Init ==
  /\ hour = FirstHour
  /\ published = <<[date |-> 0, doc |-> FirstDoc, hour |-> 0]>>
  /\ check = [c \in Checkers |-> None]
  /\ pr = None
  /\ main = <<[spec |-> [date |-> 0, doc |-> FirstDoc], marker |-> "none",
               declared |-> FirstVersion]>>
  /\ jobs = {}
  /\ releases = <<[version |-> FirstVersion, head |-> 1, given |-> None]>>
  /\ settled = 1
  /\ lost = {}

(***************************************************************************)
(* CCP: its calendar is UTC-11.  A request names a date; one after CCP's   *)
(* own is rejected, any other gets the newest spec dated no later.         *)
(***************************************************************************)
EsiDate == (hour - 11) \div 24

Publish(doc) ==
  /\ Len(published) < MaxPublished
  /\ published' = Append(published, [date |-> EsiDate, doc |-> doc, hour |-> hour])
  /\ UNCHANGED <<hour, checking, main, publishing>>

Resolve(date) ==
  IF date > EsiDate THEN 0
  ELSE Max({i \in DOMAIN published : published[i].date <= date})

(***************************************************************************)
(* fetch_spec: today in UTC-12.                                            *)
(***************************************************************************)
\* Mutant of FetchDate: today in UTC.
FetchDateUtc == hour \div 24

FetchDate == (hour - 12) \div 24

\* The spec it gets; 0, if it is rejected.
Fetched == Resolve(FetchDate)

(***************************************************************************)
(* spec-check.yml.  A run checks out main, fetches the live spec and, if   *)
(* it is another, builds and tests the crate with it, compares the two and *)
(* opens the PR, or puts it in the place of the one that is open.  Nothing *)
(* serializes the runs, and main may move on meanwhile.                    *)
(***************************************************************************)
SpecAt(i) == [date |-> published[i].date, doc |-> published[i].doc]

\* (A constant, so that TLC evaluates it once; the version is worth an Info.)
Verdicts ==
  [old \in Docs |-> [new \in Docs |-> Verdict(Document[old], Document[new])]]

Marker(old, new) ==
  IF Verdicts[old.doc][new.doc] = Breaking THEN "minor" ELSE "patch"

CheckOut(c) ==
  /\ check[c] = None
  /\ check' = [check EXCEPT ![c] = [base |-> Last(main).spec, got |-> None]]
  /\ UNCHANGED <<hour, published, pr, main, publishing>>

Fetching(c) == check[c] # None /\ check[c].got = None

Fetch(c) ==
  /\ Fetching(c) /\ Fetched # 0 /\ SpecAt(Fetched) # check[c].base
  /\ check' = [check EXCEPT ![c].got = SpecAt(Fetched)]
  /\ UNCHANGED <<hour, published, pr, main, publishing>>

Building(c) == check[c] # None /\ check[c].got # None

PrOf(run) == [base |-> run.base, spec |-> run.got, marker |-> Marker(run.base, run.got)]

OpenPr(c) ==
  /\ Building(c)
  /\ pr' = PrOf(check[c])
  /\ check' = [check EXCEPT ![c] = None]
  /\ UNCHANGED <<hour, published, main, publishing>>

\* Rejected, unchanged, or the new spec breaks the build or a test; the PR that
\* may be open stays as it is.
EndCheck(c) ==
  /\ \/ Fetching(c) /\ (Fetched = 0 \/ SpecAt(Fetched) = check[c].base)
     \/ Building(c)
  /\ check' = [check EXCEPT ![c] = None]
  /\ UNCHANGED <<hour, published, pr, main, publishing>>

(***************************************************************************)
(* A push to main queues a run.  One run of the concurrency group is on,   *)
(* and GitHub keeps one waiting: a newer one takes its place.              *)
(***************************************************************************)
Pending == {j \in jobs : j.stage = "pending"}
Active == jobs \ Pending

NewJob(before, given) ==
  [before |-> before, stage |-> "pending", head |-> 0, given |-> given,
   level |-> None, next |-> None]

Admitted(job) == [job EXCEPT !.stage = "queued"]

\* Mutant of Queue: a push while a run is on starts none.
QueueIfIdle(job) == IF jobs = {} THEN {Admitted(job)} ELSE jobs

\* Mutant of Queue: runs are not serialized.
QueueUnserialized(job) == jobs \cup {Admitted(job)}

Queue(job) == IF jobs = {} THEN {Admitted(job)} ELSE Active \cup {job}

Cancelled == UNION {j.before + 1 .. Len(main) : j \in Pending}

Push(commits) ==
  /\ Len(main) + Len(commits) <= MaxCommits
  /\ main' = main \o commits
  /\ jobs' = Queue(NewJob(Len(main), None))
  /\ lost' = lost \cup Cancelled
  /\ UNCHANGED <<hour, published, check, releases, settled>>

Commit(spec, marker) ==
  [spec |-> spec, marker |-> marker, declared |-> Last(main).declared]

\* Squashed or rebased, or with a merge commit of its own message.  A PR that
\* another has overtaken is in conflict (both change the date in the document),
\* until a later check puts a new one in its place.
MergePr ==
  /\ pr # None /\ pr.base = Last(main).spec
  /\ \/ Push(<<Commit(pr.spec, pr.marker)>>)
     \/ Push(<<Commit(pr.spec, pr.marker), Commit(pr.spec, "none")>>)
  /\ pr' = None

MergeOwn ==
  /\ \/ \E marker \in Markers : Push(<<Commit(Last(main).spec, marker)>>)
     \/ \E version \in Prepared :
          Push(<<[Commit(Last(main).spec, "minor") EXCEPT !.declared = version]>>)
  /\ UNCHANGED pr

\* workflow_dispatch, with an explicit level.
Dispatch ==
  /\ Len(releases) + Cardinality(jobs) < MaxReleases
  /\ \E level \in Dispatches : jobs' = Queue(NewJob(Len(main), level))
  /\ lost' = lost \cup Cancelled
  /\ UNCHANGED <<hour, published, checking, main, releases, settled>>

(***************************************************************************)
(* publish-on-merge.yml: a run checks out main as it is when it starts.    *)
(***************************************************************************)
Step(j, k) == jobs' = (jobs \ {j}) \cup {k}

End(j, head) ==
  /\ jobs' = (Active \ {j}) \cup {Admitted(k) : k \in Pending}
  /\ settled' = Max({settled, head})

Unreleased(j) == lost' = lost \cup (j.before + 1 .. Len(main))

Messages(j) == {main[i].marker : i \in j.before + 1 .. Len(main)}

\* Mutant of Level: the head commit alone is read.
LevelOfHead(j) == IF Last(main).marker = "none" THEN "patch" ELSE Last(main).marker

Level(j) ==
  IF j.given # None THEN j.given
  ELSE IF Last(main).marker = "skip" THEN "skip"
  ELSE IF "major" \in Messages(j) THEN "major"
  ELSE IF "minor" \in Messages(j) THEN "minor"
  ELSE "patch"

Skip(j) ==
  /\ j.stage = "queued" /\ Level(j) = "skip"
  /\ End(j, Len(main)) /\ Unreleased(j)
  /\ UNCHANGED <<hour, published, checking, main, releases>>

Start(j) ==
  /\ j.stage = "queued" /\ Level(j) # "skip"
  /\ Step(j, [j EXCEPT !.stage = "started", !.head = Len(main),
                       !.level = Level(j)])
  /\ UNCHANGED <<hour, published, checking, main, releases, settled, lost>>

Bump(version, level) ==
  CASE level = "major" -> <<version[1] + 1, 0, 0>>
    [] level = "minor" -> <<version[1], version[2] + 1, 0>>
    [] level = "patch" -> <<version[1], version[2], version[3] + 1>>

\* sort -V
Exceeds(a, b) ==
  \E i \in 1 .. 3 : a[i] > b[i] /\ \A k \in 1 .. i - 1 : a[k] = b[k]

NextVersion(j) ==
  LET current == Last(releases).version
      next == Bump(current, j.level)
      declared == main[j.head].declared
  IN  IF ~Exceeds(next, declared) /\ declared # current THEN declared ELSE next

Compute(j) ==
  /\ j.stage = "started"
  /\ Step(j, [j EXCEPT !.stage = "versioned", !.next = NextVersion(j)])
  /\ UNCHANGED <<hour, published, checking, main, releases, settled, lost>>

Release(j) ==
  /\ j.stage = "versioned"
  /\ releases' = Append(releases, [version |-> j.next, head |-> j.head, given |-> j.given])
  /\ Step(j, [j EXCEPT !.stage = "published"])
  /\ UNCHANGED <<hour, published, checking, main, settled, lost>>

\* The bump is committed, unless main declares it, or has moved on meanwhile,
\* or the push fails; the version is out all the same.
PushBump(j) ==
  /\ j.stage = "published"
  /\ \/ /\ Len(main) = j.head /\ Last(main).declared # j.next
        /\ main' = Append(main, [Commit(Last(main).spec, "none") EXCEPT !.declared = j.next])
        /\ End(j, j.head + 1)
     \/ /\ Failures \/ Len(main) # j.head \/ Last(main).declared = j.next
        /\ End(j, j.head)
        /\ UNCHANGED main
  /\ UNCHANGED <<hour, published, checking, releases, lost>>

\* crates.io does not answer, the build or a test fails, or the upload does.
Fail(j) ==
  /\ Failures
  /\ j.stage \in {"started", "versioned"}
  /\ End(j, j.head)
  /\ lost' = lost \cup (j.before + 1 .. j.head)
  /\ UNCHANGED <<hour, published, checking, main, releases>>

Tick ==
  /\ hour < MaxHour
  /\ hour' = hour + 1
  /\ UNCHANGED <<published, checking, main, publishing>>

Advance == \E j \in jobs :
  Skip(j) \/ Start(j) \/ Compute(j) \/ Release(j) \/ PushBump(j) \/ Fail(j)

Next ==
  \/ Tick
  \/ \E doc \in Docs : Publish(doc)
  \/ \E c \in Checkers : CheckOut(c) \/ Fetch(c) \/ OpenPr(c) \/ EndCheck(c)
  \/ MergePr \/ MergeOwn \/ Dispatch
  \/ Advance

Spec == Init /\ [][Next]_vars

\* GitHub runs what is queued.
FairSpec == Spec /\ WF_vars(Advance)

-----------------------------------------------------------------------------
(***************************************************************************)
(* Every variable has its type, and one publish run is on at a time        *)
(* ("Serialize releases so two quick merges can't grab the same version    *)
(* number").                                                               *)
(***************************************************************************)
SpecType == [date : Int, doc : Docs]
Levels == {"patch", "minor", "major", "skip"}
Version == Nat \X Nat \X Nat
CommitType == [spec : SpecType, marker : Levels \cup {"none"}, declared : Version]
Job ==
  [before : Nat, stage : {"pending", "queued", "started", "versioned", "published"},
   head : Nat, given : Levels \cup {None}, level : Levels \cup {None},
   next : Version \cup {None}]

TypeOK ==
  /\ hour \in Nat
  /\ published \in Seq([date : Int, doc : Docs, hour : Nat])
  /\ check \in [Checkers -> {None} \cup [base : SpecType, got : {None} \cup SpecType]]
  /\ pr = None \/ pr \in [base : SpecType, spec : SpecType, marker : {"patch", "minor"}]
  /\ main \in Seq(CommitType)
  /\ jobs \subseteq Job
  /\ releases \in Seq([version : Version, head : Nat, given : Levels \cup {None}])
  /\ settled \in DOMAIN main
  /\ lost \subseteq Nat
  /\ \A j, k \in jobs : (j \in Pending <=> k \in Pending) => j = k

(***************************************************************************)
(* "Taking today in UTC-12 ... can never be ahead of ESI's clock; at worst *)
(* a spec CCP published in the last hour is picked up by the next run"     *)
(* (fetch_spec): no fetch is rejected, whatever the hour, and none misses a *)
(* spec that was out an hour before.                                       *)
(***************************************************************************)
FetchCurrent ==
  /\ Fetched # 0
  /\ \A i \in DOMAIN published : published[i].hour < hour => i <= Fetched

(***************************************************************************)
(* spec_diff is "classifying each change as additive or breaking to guide  *)
(* the reviewer's semver decision": a document that breaks a program built *)
(* on another one is reported as breaking, or the reviewer is told of the  *)
(* change -- but for what the report leaves out (Omits).                   *)
(***************************************************************************)
Reported(old, new) ==
  Breaks(old, new) /\ ~ Omits(old, new) =>
    \/ Verdict(old, new) = Breaking
    \/ Verdict(old, new) = Review /\ LeavesToReview(old, new)

ReportedOf == [old \in Docs |-> [new \in Docs |-> Reported(Document[old], Document[new])]]

BreaksReported ==
  \A i, k \in DOMAIN published : ReportedOf[published[i].doc][published[k].doc]

(***************************************************************************)
(* A default release is "a compatible release that downstream `cargo       *)
(* update` picks up" (publish-on-merge.yml): between two releases that     *)
(* cargo takes for compatible, no commit was merged as breaking, and none  *)
(* has a spec that breaks a program built on the one before -- however     *)
(* checks, merges and runs interleave, unless a run for it ended without a *)
(* release (lost), somebody chose the level by hand, or the break is one   *)
(* that spec_diff does not call so (Omits, LeavesToReview).                *)
(***************************************************************************)
CargoCompatible(a, b) ==
  IF a[1] = 0 /\ b[1] = 0 THEN a[2] = b[2] ELSE a[1] = b[1]

Broken == [old \in Docs |-> [new \in Docs |-> Breaks(Document[old], Document[new])]]

Unflagged ==
  [old \in Docs |-> [new \in Docs |->
     Omits(Document[old], Document[new]) \/ LeavesToReview(Document[old], Document[new])]]

BreaksProgram(i) == Broken[main[i - 1].spec.doc][main[i].spec.doc]

BreakingCommit(i) ==
  \/ main[i].marker \in {"minor", "major"}
  \/ BreaksProgram(i) /\ ~ Unflagged[main[i - 1].spec.doc][main[i].spec.doc]

BreaksIn(k) ==
  {i \in releases[k - 1].head + 1 .. releases[k].head : BreakingCommit(i)}

Compatible(k) ==
  releases[k].given = None /\ CargoCompatible(releases[k - 1].version, releases[k].version)

CompatibleReleases ==
  \A k \in 2 .. Len(releases) : Compatible(k) => BreaksIn(k) \subseteq lost

(***************************************************************************)
(* "A failed publish leaves main untouched; the next merge retries         *)
(* cleanly": the same, with no exception for what a failed run left.       *)
(***************************************************************************)
RetriedCleanly == \A k \in 2 .. Len(releases) : Compatible(k) => BreaksIn(k) = {}

(***************************************************************************)
(* "A breaking spec change -> minor bump" (spec-check.yml), and a default  *)
(* release is "compatible": the same, with no exception for breaks that    *)
(* spec_diff does not call so.                                             *)
(***************************************************************************)
UpdatesBreakNobody ==
  \A k \in 2 .. Len(releases) : Compatible(k) =>
    {i \in releases[k - 1].head + 1 .. releases[k].head : BreaksProgram(i)} \subseteq lost

(***************************************************************************)
(* Every release has a version of its own, higher than all before it,      *)
(* though merges are quick, versions are prepared by hand, and a bump may  *)
(* not make it back to main.                                               *)
(***************************************************************************)
VersionsIncrease ==
  [][\A j \in jobs : Release(j) => Exceeds(j.next, Last(releases).version)]_vars

(***************************************************************************)
(* "Every merge that touches the library publishes a new version           *)
(* automatically": no merge is forgotten, whichever runs were put in the   *)
(* place of others; a run that included it ends.                           *)
(***************************************************************************)
EveryMergeRuns ==
  \A n \in 2 .. MaxCommits : Len(main) >= n ~> settled >= n

(***************************************************************************)
(* The generated client means what the document says.  Normalizing changes *)
(* no meaning: an error of a published operation is decoded as the         *)
(* document has it, a success too unless it is a bodiless secondary code   *)
(* beside a 200, and progenitor takes the result.  And the rate-limit gate *)
(* engages where the document declares a limit that fits the types, and    *)
(* nowhere else: the table has the group, the tokens and the seconds       *)
(* declared under the operation's id at run time.                          *)
(***************************************************************************)
ResponsesKept(responses) ==
  LET normal == NormalizeResponses(responses)
      successes == DOMAIN responses \cap SuccessCodes
  IN  "200" \in successes \/ Cardinality(successes) = 1 =>
        /\ GeneratorAccepts(normal)
        /\ \A status \in {"403", "404", "500"} \cup (successes \cap DOMAIN normal) :
             Decoded(normal, status) = Decoded(responses, status)
        /\ \E status \in successes : status \in DOMAIN normal

SecondsOf(window) == window.count * SecondsPer[window.unit]

Readable(op) ==
  /\ op.limit # None /\ op.limit.group # None
  /\ op.limit.max_tokens # None /\ op.limit.max_tokens <= MaxU32
  /\ op.limit.window # None /\ op.limit.window.count # None
  /\ op.limit.window.unit \in DOMAIN SecondsPer
  /\ SecondsOf(op.limit.window) \in 1 .. MaxU64

LimitKnown(doc, op) ==
  SpecRateLimit(doc, SnakeCase[op.id]) =
    IF Readable(op) THEN [group |-> op.limit.group, max_tokens |-> op.limit.max_tokens,
                          window |-> SecondsOf(op.limit.window)]
    ELSE None

MeaningsKept ==
  [doc \in Docs |-> \A op \in Operations(Document[doc]) :
                     ResponsesKept(op.responses) /\ LimitKnown(Document[doc], op)]

MeaningKept == \A i \in DOMAIN published : MeaningsKept[published[i].doc]

(***************************************************************************)
(* No value is mis-parsed in silence: unless a branch of a union was       *)
(* reported, every object ESI sends for one of its branches is decoded as  *)
(* that branch and not as an earlier one (of branches that share no        *)
(* property).                                                              *)
(***************************************************************************)
DiscriminatedIn(schemas, union) ==
  LET branch(i) == Resolved(schemas, union[i])
  IN  /\ Unresolved(schemas, union) = {}
      /\ \A i, j \in DOMAIN union : i # j => branch(i).props \cap branch(j).props = {}
      => \A i \in DOMAIN union : \A object \in ObjectsOf(branch(i)) :
           DecodedAs(schemas, Discriminate(union), object) = i

UnionsKept ==
  [doc \in Docs |->
     LET schemas == Document[doc].schemas
     IN  \A s \in DOMAIN schemas : DiscriminatedIn(schemas, schemas[s].union)]

UnionsDiscriminated == \A i \in DOMAIN published : UnionsKept[published[i].doc]
=============================================================================
