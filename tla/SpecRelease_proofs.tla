-------------------------- MODULE SpecRelease_proofs --------------------------
(***************************************************************************)
(* Theorems about SpecRelease for any documents, any number of merges, of  *)
(* runs and of releases, and about the operators of SpecDiff, Codegen and  *)
(* Program for any document.                                               *)
(***************************************************************************)
EXTENDS SpecRelease, FiniteSetTheorems, SequenceTheorems, TLAPS

-----------------------------------------------------------------------------
(* The hypotheses. *)

\* "Pre-1.0, the minor is the breaking slot" (publish-on-merge.yml), and the
\* crate stays there.
PreOne ==
  /\ "major" \notin Markers \cup Dispatches
  /\ Prepared \subseteq {0} \X Nat \X Nat

\* A flag of a parameter is a flag.
Typed(doc) ==
  \A r \in DOMAIN doc.paths : \A m \in DOMAIN doc.paths[r] :
    \A p \in doc.paths[r][m].params : p.required \in BOOLEAN /\ p.ref \in BOOLEAN

AllTyped == \A doc \in Docs : Typed(Document[doc])

\* A declared limit has its types, where it has a part at all, and operations
\* are known by their ids.
MayBe(x, S) == x = None \/ x \in S

LimitTyped(op) ==
  op.limit # None =>
    /\ op.id # None
    /\ MayBe(op.limit.group, STRING) /\ MayBe(op.limit.max_tokens, Nat)
    /\ op.limit.window = None \/ MayBe(op.limit.window.count, Nat)

LimitsTyped(doc) ==
  /\ \A op \in Operations(doc) : LimitTyped(op)
  /\ \A o, p \in Operations(doc) : SnakeCase[o.id] = SnakeCase[p.id] => o = p

\* A branch requires only what it has.
Shaped(schemas, union) ==
  /\ DOMAIN union \subseteq Nat
  /\ \A i \in DOMAIN union :
       LET own == union[i]
           branch == Resolved(schemas, own)
       IN  /\ own = [ref |-> own.ref, props |-> own.props, required |-> own.required]
           /\ IsFiniteSet(branch.props) /\ branch.required \subseteq branch.props

UnionsShaped(schemas) == \A s \in DOMAIN schemas : Shaped(schemas, schemas[s].union)

-----------------------------------------------------------------------------
(***************************************************************************)
(* The inductive invariant, but for what CCP published.                    *)
(***************************************************************************)
Latest == releases[Len(releases)]

Begun == {"started", "versioned", "published"}

\* A commit that says that it breaks.
Flagged(i) == main[i].marker \in {"minor", "major"}

Bears(j) == j.given = None /\ \E i \in j.before + 1 .. j.head : Flagged(i)

JobGood(j) ==
  /\ j.before <= Len(main)
  /\ j.stage \in Begun =>
       j.head \in 1 .. Len(main) /\ j.level \in {"patch", "minor", "major"}
  /\ j.stage = "started" /\ Bears(j) => j.level \in {"minor", "major"}
  /\ j.stage = "versioned" =>
       /\ j.next \in Version /\ Exceeds(j.next, Latest.version)
       /\ PreOne /\ Bears(j) => ~ CargoCompatible(Latest.version, j.next)
  /\ j.stage = "published" => j.next \in Version /\ Latest.head = j.head

JobState ==
  /\ \A j \in jobs : JobGood(j)
  /\ \A j \in Active, k \in Pending : j.before <= k.before

ReleaseState ==
  /\ Len(releases) > 0
  /\ \A k \in 1 .. Len(releases) : releases[k].head \in 1 .. Len(main)

\* Nothing reaches 1.0.
CommitBelow(commit) == commit.marker # "major" /\ commit.declared[1] = 0

JobBelow(j) ==
  /\ j.given # "major"
  /\ j.stage \in Begun => j.level # "major"
  /\ j.stage \in {"versioned", "published"} => j.next[1] = 0

BelowOne ==
  /\ \A k \in 1 .. Len(releases) : releases[k].version[1] = 0
  /\ \A i \in 1 .. Len(main) : CommitBelow(main[i])
  /\ \A j \in jobs : JobBelow(j)

\* The marker of the open PR is the verdict on what it changes.
RunType == [base : SpecType, got : {None} \cup SpecType]
PrType == [base : SpecType, spec : SpecType, marker : {"patch", "minor"}]

CheckState ==
  /\ check \in [Checkers -> {None} \cup RunType]
  /\ pr = None \/ pr \in PrType
  /\ pr # None => pr.marker = Marker(pr.base, pr.spec)

\* Breaks that spec_diff calls so are flagged.
MarkersTell == \A i \in 2 .. Len(main) : BreakingCommit(i) => Flagged(i)

\* A flagged commit that no release has is lost, or some run is for it ...
Awaited(i) == \E j \in jobs : j.before < i /\ j.stage # "published"

\* ... and one after the commit a run has checked out awaits another run.
AwaitedAfter(i) == \E k \in Pending : k.before < i

CoverState ==
  /\ \A i \in Latest.head + 1 .. Len(main) : Flagged(i) => i \in lost \/ Awaited(i)
  /\ \A j \in jobs : j.stage \in Begun =>
       \A i \in j.head + 1 .. Len(main) : Flagged(i) => i \in lost \/ AwaitedAfter(i)

FlaggedIn(k) == {i \in releases[k - 1].head + 1 .. releases[k].head : Flagged(i)}

FlagsKept == \A k \in 2 .. Len(releases) : Compatible(k) => FlaggedIn(k) \subseteq lost

ReleaseInv ==
  /\ TypeOK /\ ReleaseState /\ JobState /\ CoverState
  /\ PreOne => BelowOne /\ FlagsKept
  /\ CheckState
  /\ AllTyped => MarkersTell

\* What CCP has published was dated by its own calendar.
PublishedState ==
  /\ hour \in Nat /\ 12 <= hour
  /\ published \in Seq([date : Int, doc : Docs, hour : Nat]) /\ Len(published) > 0
  /\ published[1].date <= 0
  /\ \A i \in 1 .. Len(published) :
       /\ published[i].hour <= hour
       /\ published[i].date <= 0 \/ published[i].date <= (published[i].hour - 11) \div 24

-----------------------------------------------------------------------------
(* spec_diff: what breaks a program is reported as breaking, or for review, *)
(* but for what the report leaves out.                                      *)

\* No change that is reported breaks.
Harmless(changes) == \A c \in changes : c.kind # Breaking

LEMMA KindsOfChanges ==
  ASSUME NEW old, NEW new, NEW c \in Report(old, new)
  PROVE  c.kind \in Info .. Breaking
<1> USE DEF Change, Info, Additive, Review, Breaking
<1>1. \A a, b, what : \A d \in Gained(a, b, what) \cup Lost(a, b, what) : d.kind \in Info .. Breaking
  BY DEF Gained, Lost
<1>2. \A a, b : \A d \in DiffOperation(a, b) : d.kind \in Info .. Breaking
  BY DEF DiffOperation
<1>3. \A a, b : \A d \in DiffRoute(a, b) : d.kind \in Info .. Breaking
  BY <1>1, <1>2 DEF DiffRoute
<1>4. \A a, b : \A d \in DiffPaths(a, b) : d.kind \in Info .. Breaking
  BY <1>1, <1>3 DEF DiffPaths
<1>5. \A a, b : \A d \in DiffFields(a, b) : d.kind \in Info .. Breaking
  BY <1>1 DEF DiffFields
<1>6. \A a, b : \A d \in DiffSchema(a, b) : d.kind \in Info .. Breaking
  <2> TAKE a, b
  <2> TAKE d \in DiffSchema(a, b)
  <2>1. d \in DiffFields(a, b) \/ d = Change(Review, <<"not at field level">>)
    BY DEF DiffSchema
  <2>2. CASE d \in DiffFields(a, b)
    BY <1>5, <2>2
  <2>3. CASE d = Change(Review, <<"not at field level">>)
    <3>1. d.kind = Review
      BY <2>3
    <3> QED  BY <3>1
  <2> QED  BY <2>1, <2>2, <2>3
<1>7. \A a, b : \A d \in DiffSchemas(a, b) : d.kind \in Info .. Breaking
  BY <1>1, <1>6 DEF DiffSchemas
<1>8. \A d \in DiffVersions(old, new) : d.kind \in Info .. Breaking
  BY DEF DiffVersions
<1>9. \/ c \in DiffVersions(old, new)
      \/ c \in DiffPaths(old.paths, new.paths)
      \/ c \in DiffSchemas(old.schemas, new.schemas)
  BY DEF Report
<1> QED  BY ONLY <1>4, <1>7, <1>8, <1>9, Zenon

LEMMA VerdictIsHighest ==
  ASSUME NEW old, NEW new, NEW c \in Report(old, new),
         \A d \in Report(old, new) : d.kind <= c.kind
  PROVE  Verdict(old, new) = c.kind
<1> DEFINE kinds == {d.kind : d \in Report(old, new)} \cup {Info}
           k == c.kind
<1>1. k \in kinds /\ k \in Int /\ \A l \in kinds : l \in Int /\ k >= l
  BY KindsOfChanges DEF Info, Breaking
<1>2. \A l \in kinds : (\A n \in kinds : l >= n) <=> l = k
  <2> HIDE DEF kinds, k
  <2> QED  BY <1>1
<1> HIDE DEF kinds, k
<1>3. Max(kinds) = k
  BY <1>1, <1>2, Zenon DEF Max
<1> QED  BY <1>3 DEF Verdict, kinds, k

LEMMA VerdictBreaking ==
  ASSUME NEW old, NEW new, ~ Harmless(Report(old, new))
  PROVE  Verdict(old, new) = Breaking
<1>1. PICK c \in Report(old, new) : c.kind = Breaking
  BY DEF Harmless
<1>2. \A d \in Report(old, new) : d.kind <= c.kind
  BY <1>1, KindsOfChanges DEF Info, Breaking
<1> QED  BY <1>1, <1>2, VerdictIsHighest

LEMMA VerdictReview ==
  ASSUME NEW old, NEW new, Harmless(Report(old, new)),
         NEW c \in Report(old, new), c.kind = Review
  PROVE  Verdict(old, new) = Review
<1>1. \A d \in Report(old, new) : d.kind <= c.kind
  BY KindsOfChanges DEF Harmless, Info, Review, Breaking
<1> QED  BY <1>1, VerdictIsHighest

LEMMA NothingLost ==
  ASSUME NEW old, NEW new, NEW what, Harmless(Lost(old, new, what))
  PROVE  DOMAIN old \subseteq DOMAIN new
<1> SUFFICES ASSUME NEW key \in DOMAIN old, key \notin DOMAIN new  PROVE FALSE
  OBVIOUS
<1>1. Change(Breaking, <<what, key>>) \in Lost(old, new, what)
  BY DEF Lost
<1> QED  BY <1>1 DEF Harmless, Change

\* A flag of a parameter is a flag.
Flags(op) == \A p \in op.params : p.required \in BOOLEAN /\ p.ref \in BOOLEAN

LEMMA OperationKept ==
  ASSUME NEW old, NEW new, Flags(old), Flags(new), Harmless(DiffOperation(old, new))
  PROVE  /\ \A p \in old.params : \E q \in new.params : Same(p, q)
         /\ \A q \in new.params :
              q.required /\ ~ q.ref => \E p \in old.params : Same(p, q)
<1>1. ASSUME NEW p \in old.params  PROVE \E q \in new.params : Same(p, q)
  <2>1. <<p.name, p.ref>> \in NamesOf(Params(old))
    <3> DEFINE here == [name |-> <<p.name, p.ref>>, required |-> p.required /\ ~ p.ref]
    <3>1. here \in Params(old) /\ here.name = <<p.name, p.ref>>
      BY <1>1 DEF Params
    <3> HIDE DEF here
    <3> QED  BY <3>1 DEF NamesOf
  <2>2. <<p.name, p.ref>> \in NamesOf(Params(new))
    <3> SUFFICES ASSUME <<p.name, p.ref>> \notin NamesOf(Params(new))  PROVE FALSE
      OBVIOUS
    <3>1. Change(Breaking, <<"parameter", <<p.name, p.ref>>>>) \in DiffOperation(old, new)
      BY <2>1 DEF DiffOperation
    <3> QED  BY <3>1 DEF Harmless, Change
  <2>3. PICK q \in new.params : <<q.name, q.ref>> = <<p.name, p.ref>>
    BY <2>2 DEF NamesOf, Params
  <2> QED  BY <2>3 DEF Same
<1>2. ASSUME NEW q \in new.params, q.required, ~ q.ref
      PROVE  \E p \in old.params : Same(p, q)
  <2> DEFINE n == <<q.name, q.ref>>
             here == [name |-> n, required |-> q.required /\ ~ q.ref]
  <2>1. here \in Params(new)
    BY DEF Params
  <2>2. here.name = n /\ here.required = TRUE
    BY <1>2 DEF Flags
  <2>3. n \in NamesOf(Params(old))
    <3> SUFFICES ASSUME n \notin NamesOf(Params(old))  PROVE FALSE
      OBVIOUS
    <3> HIDE DEF here, n
    <3>1. Change(IF here.required THEN Breaking ELSE Additive, <<"parameter", here.name>>)
            \in DiffOperation(old, new)
      BY <2>1, <2>2 DEF DiffOperation
    <3>2. Change(Breaking, <<"parameter", here.name>>) \in DiffOperation(old, new)
      BY <2>2, <3>1
    <3> QED  BY <3>2 DEF Harmless, Change
  <2>4. PICK p \in old.params : <<p.name, p.ref>> = n
    BY <2>3 DEF NamesOf, Params
  <2> QED  BY <2>4 DEF Same
<1> QED  BY <1>1, <1>2

LEMMA CallKept ==
  ASSUME NEW a, NEW b, Flags(a), Flags(b), a = b \/ Harmless(DiffOperation(a, b)),
         ~ Retypes(<<a, b>>), ~ TurnsRequired(<<a, b>>),
         NEW given \in Given(Named(Arguments(a)), Named(MustBeGiven(a)))
  PROVE  given \in Given(Named(Arguments(b)), Named(MustBeGiven(b)))
<1>1. CASE a = b
  BY <1>1
<1>2. CASE Harmless(DiffOperation(a, b))
  <2>1. \A p \in Arguments(a), q \in Arguments(b) : Same(p, q) => p.type = q.type
    BY DEF Retypes
  <2>2. \A p, q : Same(p, q) => p.name = q.name /\ p.ref = q.ref
    BY DEF Same
  <2>3. ASSUME NEW p \in Arguments(a)  PROVE <<p.name, p.type>> \in Named(Arguments(b))
    <3>1. PICK q \in b.params : Same(p, q)
      BY <1>2, OperationKept DEF Arguments
    <3>2. q \in Arguments(b)
      BY <2>2, <3>1 DEF Arguments
    <3>3. p.name = q.name /\ p.type = q.type
      BY <2>1, <2>2, <3>1, <3>2
    <3> QED  BY <3>2, <3>3 DEF Named
  <2>4. ASSUME NEW q \in MustBeGiven(b)  PROVE <<q.name, q.type>> \in given
    <3>1. q \in Arguments(b) /\ q \in b.params /\ q.required
      BY DEF MustBeGiven, Arguments
    <3>2. PICK p \in a.params : Same(p, q) /\ p.required
      <4>1. q.ref \/ \E p \in a.params : Same(p, q)
        BY <1>2, <3>1, OperationKept
      <4>2. \/ ~ (q.ref \/ \E p \in a.params : Same(p, q))
            \/ \E p \in a.params : Same(p, q) /\ p.required
        BY DEF TurnsRequired
      <4> QED  BY <4>1, <4>2
    <3>3. p \in Arguments(a)
      BY <2>2, <3>1, <3>2 DEF Arguments
    <3>4. <<p.name, p.type>> \in Named(MustBeGiven(a))
      BY <3>2, <3>3 DEF Named, MustBeGiven
    <3>5. p.name = q.name /\ p.type = q.type
      BY <2>1, <2>2, <3>1, <3>2, <3>3
    <3> QED  BY <3>4, <3>5 DEF Given
  <2>5. given \subseteq Named(Arguments(b))
    BY <2>3 DEF Given, Named
  <2>6. Named(MustBeGiven(b)) \subseteq given
    BY <2>4 DEF Named
  <2> QED  BY <2>5, <2>6 DEF Given
<1> QED  BY <1>1, <1>2

\* An operation is still there, and was looked at.
LEMMA OperationsLast ==
  ASSUME NEW old, NEW new, Harmless(DiffPaths(old.paths, new.paths)), NEW op \in Operations(old)
  PROVE  \E after \in Operations(new) :
           /\ <<op, after>> \in OperationPairs(old.paths, new.paths)
           /\ op = after \/ Harmless(DiffOperation(op, after))
<1>1. PICK r \in DOMAIN old.paths : \E m \in DOMAIN old.paths[r] : op = old.paths[r][m]
  BY DEF Operations
<1>2. PICK m \in DOMAIN old.paths[r] : op = old.paths[r][m]
  BY <1>1
<1> DEFINE after == new.paths[r][m]
<1>3. r \in DOMAIN new.paths
  BY NothingLost DEF Harmless, DiffPaths
<1>4. r \in Common(old.paths, new.paths)
  BY <1>3 DEF Common
<1>5. Harmless(DiffRoute(old.paths[r], new.paths[r]))
  BY <1>4 DEF Harmless, DiffPaths
<1>6. m \in DOMAIN new.paths[r]
  BY <1>5, NothingLost DEF Harmless, DiffRoute
<1>7. m \in Common(old.paths[r], new.paths[r])
  BY <1>6 DEF Common
<1>8. after \in Operations(new)
  BY <1>3, <1>6 DEF Operations
<1>9. <<op, after>> \in OperationPairs(old.paths, new.paths)
  BY <1>2, <1>4, <1>7 DEF OperationPairs
<1>10. op = after \/ Harmless(DiffOperation(op, after))
  BY <1>2, <1>5, <1>7 DEF Harmless, DiffRoute
<1> HIDE DEF after
<1> QED  BY <1>8, <1>9, <1>10

LEMMA TypedFlags ==
  ASSUME NEW doc, Typed(doc), NEW op \in Operations(doc)
  PROVE  Flags(op)
BY DEF Typed, Operations, Flags

\* As far as an operation goes, nothing is omitted or left to review.
Unchanged(pair) ==
  ~ Renames(pair) /\ ~ Retypes(pair) /\ ~ TurnsRequired(pair) /\ ~ Redefines(pair)

LEMMA CallsKept ==
  ASSUME NEW old, NEW new, Typed(old), Typed(new), Harmless(DiffPaths(old.paths, new.paths)),
         \A pair \in OperationPairs(old.paths, new.paths) : Unchanged(pair)
  PROVE  CallsOf(old) \subseteq CallsOf(new)
<1> DEFINE may(op) == Given(Named(Arguments(op)), Named(MustBeGiven(op)))
           call(op, given) == [method |-> SnakeCase[op.id], given |-> given, body |-> op.body]
           calls(op) == {call(op, given) : given \in may(op)}
<1>1. /\ CallsOf(old) = UNION {calls(op) : op \in Operations(old)}
      /\ CallsOf(new) = UNION {calls(op) : op \in Operations(new)}
  BY DEF CallsOf
<1>2. ASSUME NEW op \in Operations(old), NEW given \in may(op)
      PROVE  \E after \in Operations(new) : given \in may(after) /\ call(op, given) = call(after, given)
  <2>1. PICK after \in Operations(new) :
          /\ <<op, after>> \in OperationPairs(old.paths, new.paths)
          /\ op = after \/ Harmless(DiffOperation(op, after))
    BY OperationsLast
  <2>2. Unchanged(<<op, after>>)
    BY <2>1
  <2>3. given \in may(after)
    BY <2>1, <2>2, TypedFlags, CallKept DEF Unchanged
  <2>4. SnakeCase[op.id] = SnakeCase[after.id] /\ op.body = after.body
    BY <2>2 DEF Unchanged, Renames, Redefines
  <2>5. call(op, given) = call(after, given)
    BY <2>4
  <2> QED  BY <2>3, <2>5
<1> HIDE DEF may, call
<1>3. ASSUME NEW c \in CallsOf(old)  PROVE c \in CallsOf(new)
  <2>1. PICK op \in Operations(old) : c \in calls(op)
    BY <1>1
  <2>2. PICK given \in may(op) : c = call(op, given)
    BY <2>1
  <2>3. PICK after \in Operations(new) : given \in may(after) /\ call(op, given) = call(after, given)
    BY <1>2
  <2>4. c \in calls(after)
    BY <2>2, <2>3
  <2> HIDE DEF calls
  <2> QED  BY <1>1, <2>4
<1> QED  BY <1>3

LEMMA AnswersKept ==
  ASSUME NEW old, NEW new, Harmless(DiffPaths(old.paths, new.paths)),
         \A pair \in OperationPairs(old.paths, new.paths) : Unchanged(pair)
  PROVE  AnswersOf(old) \subseteq AnswersOf(new)
<1> SUFFICES ASSUME NEW op \in Operations(old)
             PROVE  [method |-> SnakeCase[op.id], answers |-> Answers(op)] \in AnswersOf(new)
  BY DEF AnswersOf
<1>1. PICK after \in Operations(new) : <<op, after>> \in OperationPairs(old.paths, new.paths)
  BY OperationsLast
<1>2. SnakeCase[op.id] = SnakeCase[after.id] /\ op.responses = after.responses
  BY <1>1 DEF Unchanged, Renames, Redefines
<1>3. Answers(op) = Answers(after)
  BY <1>2 DEF Answers
<1> QED  BY <1>2, <1>3 DEF AnswersOf

\* A schema is still there, and was looked at.
LEMMA SchemasLast ==
  ASSUME NEW a, NEW b, Harmless(DiffSchemas(a, b)), NEW s \in DOMAIN a
  PROVE  /\ s \in DOMAIN b
         /\ <<a[s], b[s]>> \in SchemaPairs(a, b)
         /\ a[s] = b[s] \/ Harmless(DiffFields(a[s], b[s]))
<1>1. s \in DOMAIN b
  BY NothingLost DEF Harmless, DiffSchemas
<1>2. s \in Common(a, b)
  BY <1>1 DEF Common
<1>3. Harmless(DiffSchema(a[s], b[s]))
  BY <1>2 DEF Harmless, DiffSchemas
<1>4. a[s] = b[s] \/ Harmless(DiffFields(a[s], b[s]))
  BY <1>3 DEF Harmless, DiffSchema
<1> QED  BY <1>1, <1>2, <1>4 DEF SchemaPairs

LEMMA FieldsKept ==
  ASSUME NEW x, NEW y, x = y \/ Harmless(DiffFields(x, y)), ~ Reshapes(<<x, y>>)
  PROVE  /\ x.union = y.union
         /\ Fields(x) \subseteq Fields(y)
         /\ DOMAIN x.fields \subseteq DOMAIN y.fields
         /\ DOMAIN y.fields \cap y.required \subseteq DOMAIN x.fields \cap x.required
<1>1. CASE x = y
  BY <1>1
<1>2. CASE Harmless(DiffFields(x, y))
  <2>1. /\ x.union = y.union
        /\ \A f \in Common(x.fields, y.fields) : f \in x.required <=> f \in y.required
    BY DEF Reshapes, Reorders
  <2>2. DOMAIN x.fields \subseteq DOMAIN y.fields
    BY <1>2, NothingLost DEF Harmless, DiffFields
  <2>3. ASSUME NEW f \in DOMAIN x.fields
        PROVE  x.fields[f] = y.fields[f] /\ (f \in x.required <=> f \in y.required)
    <3>1. f \in Common(x.fields, y.fields)
      BY <2>2 DEF Common
    <3>2. x.fields[f] = y.fields[f]
      <4> SUFFICES ASSUME x.fields[f] # y.fields[f]  PROVE FALSE
        OBVIOUS
      <4>1. x.fields[f].type # y.fields[f].type
        BY <3>1 DEF Reshapes
      <4>2. Change(IF x.fields[f].type = y.fields[f].type THEN Review ELSE Breaking, <<"field", f>>)
              \in DiffFields(x, y)
        BY <3>1 DEF DiffFields
      <4>3. Change(Breaking, <<"field", f>>) \in DiffFields(x, y)
        BY <4>1, <4>2
      <4> QED  BY <1>2, <4>3 DEF Harmless, Change
    <3> QED  BY <2>1, <3>1, <3>2
  <2>4. Fields(x) \subseteq Fields(y)
    <3> SUFFICES ASSUME NEW f \in DOMAIN x.fields
                 PROVE  [field |-> f, is |-> x.fields[f], required |-> f \in x.required] \in Fields(y)
      BY DEF Fields
    <3>1. [field |-> f, is |-> y.fields[f], required |-> f \in y.required] \in Fields(y)
      BY <2>2 DEF Fields
    <3>2. (f \in x.required) = (f \in y.required)
      BY <2>3
    <3> QED  BY <2>3, <3>1, <3>2
  <2>5. ASSUME NEW f \in DOMAIN y.fields, f \in y.required
        PROVE  f \in DOMAIN x.fields /\ f \in x.required
    <3>1. f \in DOMAIN x.fields
      BY <2>5 DEF Reshapes
    <3> QED  BY <2>3, <2>5, <3>1
  <2> QED  BY <2>1, <2>2, <2>4, <2>5
<1> QED  BY <1>1, <1>2

LEMMA SchemasKept ==
  ASSUME NEW a, NEW b, Harmless(DiffSchemas(a, b)),
         \A pair \in SchemaPairs(a, b) : ~ Reshapes(pair)
  PROVE  /\ TypesOf(a) \subseteq TypesOf(b)
         /\ FieldsOf(a) \subseteq FieldsOf(b)
         /\ ValuesOf(a) \subseteq ValuesOf(b)
<1>1. ASSUME NEW s \in DOMAIN a
      PROVE  /\ s \in DOMAIN b
             /\ a[s].union = b[s].union
             /\ Fields(a[s]) \subseteq Fields(b[s])
             /\ DOMAIN a[s].fields \subseteq DOMAIN b[s].fields
             /\ DOMAIN b[s].fields \cap b[s].required \subseteq DOMAIN a[s].fields \cap a[s].required
  <2>1. /\ s \in DOMAIN b /\ ~ Reshapes(<<a[s], b[s]>>)
        /\ a[s] = b[s] \/ Harmless(DiffFields(a[s], b[s]))
    BY SchemasLast
  <2> QED  BY <2>1, FieldsKept
<1>2. TypesOf(a) \subseteq TypesOf(b)
  BY <1>1 DEF TypesOf
<1>3. FieldsOf(a) \subseteq FieldsOf(b)
  <2> DEFINE reads(schemas, s) == {[type |-> s, reads |-> field] : field \in Fields(schemas[s])}
  <2>1. \A s \in DOMAIN a : reads(a, s) \subseteq reads(b, s)
    BY <1>1
  <2>2. /\ FieldsOf(a) = UNION {reads(a, s) : s \in DOMAIN a}
        /\ FieldsOf(b) = UNION {reads(b, s) : s \in DOMAIN b}
    BY DEF FieldsOf
  <2> HIDE DEF reads
  <2> QED  BY <1>1, <2>1, <2>2
<1>4. ValuesOf(a) \subseteq ValuesOf(b)
  <2> DEFINE may(schemas, s) == Given(DOMAIN schemas[s].fields,
                                      DOMAIN schemas[s].fields \cap schemas[s].required)
             values(schemas, s) == {[type |-> s, given |-> given] : given \in may(schemas, s)}
  <2>1. \A s \in DOMAIN a : may(a, s) \subseteq may(b, s)
    BY <1>1 DEF Given
  <2>2. \A s \in DOMAIN a : values(a, s) \subseteq values(b, s)
    <3> HIDE DEF may
    <3> QED  BY <2>1
  <2>3. /\ ValuesOf(a) = UNION {values(a, s) : s \in DOMAIN a}
        /\ ValuesOf(b) = UNION {values(b, s) : s \in DOMAIN b}
    BY DEF ValuesOf
  <2> HIDE DEF values
  <2> QED  BY <1>1, <2>2, <2>3
<1> QED  BY <1>2, <1>3, <1>4

LEMMA BreaksReportedAs ==
  ASSUME NEW old, NEW new, Typed(old), Typed(new),
         Breaks(old, new), ~ Omits(old, new), ~ LeavesToReview(old, new)
  PROVE  Verdict(old, new) = Breaking
<1> SUFFICES ASSUME Harmless(Report(old, new))  PROVE FALSE
  BY VerdictBreaking
<1>1. Harmless(DiffPaths(old.paths, new.paths)) /\ Harmless(DiffSchemas(old.schemas, new.schemas))
  BY DEF Harmless, Report
<1>2. \A pair \in OperationPairs(old.paths, new.paths) : Unchanged(pair)
  BY DEF Omits, LeavesToReview, Unchanged
<1>3. \A pair \in SchemaPairs(old.schemas, new.schemas) : ~ Reshapes(pair)
  BY DEF LeavesToReview
<1> QED  BY <1>1, <1>2, <1>3, CallsKept, AnswersKept, SchemasKept DEF Breaks

\* What is left to review is shown for review, if nothing is masked.
LEMMA RedefinitionShown ==
  ASSUME NEW old, NEW new, NEW pair \in OperationPairs(old, new), Redefines(pair)
  PROVE  Change(Review, <<"definition">>) \in DiffPaths(old, new)
<1>1. PICK r \in Common(old, new) :
        \E m \in Common(old[r], new[r]) : pair = <<old[r][m], new[r][m]>>
  BY DEF OperationPairs
<1>2. PICK m \in Common(old[r], new[r]) : pair = <<old[r][m], new[r][m]>>
  BY <1>1
<1> DEFINE a == old[r][m]
           b == new[r][m]
<1>3. a # b /\ ~ (a.responses = b.responses /\ a.body = b.body)
  BY <1>2 DEF Redefines
<1>4. Change(Review, <<"definition">>) \in DiffOperation(a, b)
  BY <1>3 DEF DiffOperation
<1>5. Change(Review, <<"definition">>) \in DiffRoute(old[r], new[r])
  BY <1>3, <1>4 DEF DiffRoute
<1> QED  BY <1>5 DEF DiffPaths

LEMMA ReshapingShown ==
  ASSUME NEW x, NEW y, Reshapes(<<x, y>>), ~ Masks(<<x, y>>), Harmless(DiffSchema(x, y))
  PROVE  \E c \in DiffSchema(x, y) : c.kind = Review
<1>1. x # y
  BY DEF Reshapes, Reorders, Common
<1>2. ASSUME NEW f \in Common(x.fields, y.fields),
             x.fields[f] # y.fields[f], x.fields[f].type = y.fields[f].type
      PROVE  Change(Review, <<"field", f>>) \in DiffFields(x, y)
  BY <1>2 DEF DiffFields
<1>3. ASSUME NEW f \in DOMAIN y.fields \ DOMAIN x.fields, f \in y.required
      PROVE  Change(Review, <<"field", f>>) \in DiffFields(x, y)
  BY <1>3 DEF DiffFields
<1>4. ASSUME NEW c \in DiffFields(x, y)  PROVE c \in DiffSchema(x, y)
  BY <1>1, <1>4 DEF DiffSchema
<1>5. \A f : Change(Review, <<"field", f>>).kind = Review
  BY DEF Change
<1>6. CASE Reorders(<<x, y>>)
  <2>1. DOMAIN y.fields \ DOMAIN x.fields = {}
    BY <1>6 DEF Masks
  <2>2. CASE DiffFields(x, y) = {}
    <3>1. Change(Review, <<"not at field level">>) \in DiffSchema(x, y)
      BY <1>1, <2>2 DEF DiffSchema
    <3>2. Change(Review, <<"not at field level">>).kind = Review
      BY DEF Change
    <3> QED  BY <3>1, <3>2
  <2>3. CASE DiffFields(x, y) # {}
    <3>1. PICK c : c \in DiffFields(x, y)
      BY <2>3
    <3>2. c.kind # Breaking
      BY <1>4, <3>1 DEF Harmless
    <3>3. \/ c \in Lost(x.fields, y.fields, "field")
          \/ \E f \in Common(x.fields, y.fields) :
               c = Change(IF x.fields[f].type = y.fields[f].type THEN Review ELSE Breaking,
                          <<"field", f>>)
      BY <2>1, <3>1 DEF DiffFields
    <3>4. c.kind = Breaking \/ c.kind = Review
      BY <3>3 DEF Lost, Change
    <3> QED  BY <1>4, <3>1, <3>2, <3>4
  <2> QED  BY <2>2, <2>3
<1>7. CASE ~ Reorders(<<x, y>>)
  <2>1. PICK f : Change(Review, <<"field", f>>) \in DiffFields(x, y)
    BY <1>2, <1>3, <1>7 DEF Reshapes
  <2> QED  BY <1>4, <1>5, <2>1
<1> QED  BY <1>6, <1>7

LEMMA LeftToReviewShown ==
  ASSUME NEW old, NEW new, ~ Omits(old, new), LeavesToReview(old, new),
         Harmless(Report(old, new))
  PROVE  Verdict(old, new) = Review
<1> DEFINE a == old.schemas
           b == new.schemas
<1>1. CASE \E pair \in OperationPairs(old.paths, new.paths) : Redefines(pair)
  <2>1. Change(Review, <<"definition">>) \in Report(old, new)
    BY <1>1, RedefinitionShown DEF Report
  <2>2. Change(Review, <<"definition">>).kind = Review
    BY DEF Change
  <2> QED  BY <2>1, <2>2, VerdictReview
<1>2. CASE \E pair \in SchemaPairs(a, b) : Reshapes(pair)
  <2>1. PICK s \in Common(a, b) : Reshapes(<<a[s], b[s]>>)
    BY <1>2 DEF SchemaPairs
  <2>2. ~ Masks(<<a[s], b[s]>>)
    BY DEF Omits, SchemaPairs
  <2>3. \A c \in DiffSchema(a[s], b[s]) : c \in Report(old, new)
    BY DEF Report, DiffSchemas
  <2>4. PICK c \in DiffSchema(a[s], b[s]) : c.kind = Review
    BY <2>1, <2>2, <2>3, ReshapingShown DEF Harmless
  <2> QED  BY <2>3, <2>4, VerdictReview
<1> QED  BY <1>1, <1>2 DEF LeavesToReview

LEMMA DocumentsReported ==
  ASSUME NEW old, NEW new, Typed(old), Typed(new)
  PROVE  Reported(old, new)
<1> SUFFICES ASSUME Breaks(old, new), ~ Omits(old, new)
             PROVE  \/ Verdict(old, new) = Breaking
                    \/ Verdict(old, new) = Review /\ LeavesToReview(old, new)
  BY DEF Reported
<1>1. CASE ~ Harmless(Report(old, new))
  BY <1>1, VerdictBreaking
<1>2. CASE ~ LeavesToReview(old, new)
  BY <1>2, BreaksReportedAs
<1>3. CASE Harmless(Report(old, new)) /\ LeavesToReview(old, new)
  BY <1>3, LeftToReviewShown
<1> QED  BY <1>1, <1>2, <1>3

-----------------------------------------------------------------------------
(* build.rs: what is generated from a document means what it says. *)

LEMMA OneElement ==
  ASSUME NEW S, NEW x, S \subseteq {x}
  PROVE  IsFiniteSet(S) /\ Cardinality(S) <= 1
<1>1. S = {} \/ S = {x}
  OBVIOUS
<1>2. CASE S = {}
  BY <1>2, FS_EmptySet
<1>3. CASE S = {x}
  <2>1. IsFiniteSet({x}) /\ Cardinality({x}) = 1
    BY FS_Singleton, Zenon
  <2> QED  BY <1>3, <2>1
<1> QED  BY <1>1, <1>2, <1>3

\* normalize_responses
LEMMA NormalizingKeeps ==
  ASSUME NEW responses
  PROVE  ResponsesKept(responses)
<1> DEFINE normal == NormalizeResponses(responses)
           successes == DOMAIN responses \cap SuccessCodes
           kept == Kept(responses)
<1> SUFFICES ASSUME "200" \in successes \/ Cardinality(successes) = 1
             PROVE  /\ GeneratorAccepts(normal)
                    /\ \A status \in {"403", "404", "500"} \cup (successes \cap DOMAIN normal) :
                         Decoded(normal, status) = Decoded(responses, status)
                    /\ \E status \in successes : status \in DOMAIN normal
  <2> HIDE DEF normal
  <2> QED  BY DEF ResponsesKept, normal
<1>1. \E status \in successes : kept \cap SuccessCodes = {status}
  <2>0. IsFiniteSet(successes)
    <3>1. /\ {"200", "201"} = {"200"} \cup {"201"}
          /\ SuccessCodes = {"200", "201"} \cup {"204"}
      BY DEF SuccessCodes
    <3>2. IsFiniteSet({"200"} \cup {"201"})
      BY FS_Singleton, FS_AddElement, Zenon
    <3>3. IsFiniteSet(SuccessCodes)
      BY <3>1, <3>2, FS_AddElement
    <3> QED  BY <3>3, FS_Subset
  <2>1. CASE Cardinality(successes) > 1
    <3>1. "200" \in successes
      BY <2>1
    <3>2. kept = DOMAIN responses \ (successes \ {"200"})
      BY <2>1 DEF Kept
    <3> QED  BY <3>1, <3>2
  <2>2. CASE ~ (Cardinality(successes) > 1)
    <3>1. kept = DOMAIN responses
      BY <2>2 DEF Kept
    <3>2. Cardinality(successes) = 1
      <4>1. CASE "200" \in successes
        <5>1. Cardinality(successes) # 0
          BY <2>0, <4>1, FS_EmptySet
        <5>2. Cardinality(successes) \in Nat
          BY <2>0, FS_CardinalityType
        <5> QED  BY <2>2, <5>1, <5>2
      <4> QED  BY <4>1
    <3>3. PICK status : successes = {status}
      BY <2>0, <3>2, FS_Singleton
    <3> QED  BY <3>1, <3>3
  <2> QED  BY <2>1, <2>2
<1>2. kept \subseteq DOMAIN responses /\ DOMAIN responses \ SuccessCodes \subseteq kept
  BY DEF Kept
<1>3. "default" \notin SuccessCodes /\ "4XX" \notin SuccessCodes /\ "5XX" \notin SuccessCodes
  BY DEF SuccessCodes
<1>4. /\ DOMAIN normal = IF "default" \in kept THEN (kept \ {"default"}) \cup {"4XX", "5XX"}
                         ELSE kept
      /\ \A c \in DOMAIN normal : normal[c] = IF c \in kept THEN responses[c] ELSE responses["default"]
  <2>1. successes # {}
    BY <1>1
  <2>2. CASE "default" \in kept
    BY <2>1, <2>2 DEF NormalizeResponses
  <2>3. CASE "default" \notin kept
    BY <2>1, <2>3 DEF NormalizeResponses
  <2> QED  BY <2>2, <2>3
<1> HIDE DEF normal, kept, successes
<1>5. PICK one \in successes : kept \cap SuccessCodes = {one}
  BY <1>1
<1>6. one \in DOMAIN normal
  BY <1>3, <1>4, <1>5
<1>7. GeneratorAccepts(normal)
  <2>1. {normal[c] : c \in DOMAIN normal \cap (SuccessCodes \cup {"default"})} \subseteq {normal[one]}
    BY <1>3, <1>4, <1>5
  <2> QED  BY <2>1, OneElement DEF GeneratorAccepts
<1>8. ASSUME NEW status \in {"403", "404", "500"}
      PROVE  Decoded(normal, status) = Decoded(responses, status)
  <2>1. status \notin SuccessCodes /\ status # "default" /\ status \notin {"4XX", "5XX"}
        /\ RangeOf(status) \in {"4XX", "5XX"} /\ RangeOf(status) # "default"
    BY DEF SuccessCodes, RangeOf
  <2> DEFINE range == RangeOf(status)
  <2> HIDE DEF range
  <2>2. range \in {"4XX", "5XX"} /\ range # "default" /\ range \notin SuccessCodes
    BY <2>1, <1>3 DEF range
  <2>3. status \in DOMAIN normal <=> status \in DOMAIN responses
    BY <1>2, <1>4, <2>1
  <2>4. range \in DOMAIN responses => range \in DOMAIN normal /\ normal[range] = responses[range]
    BY <1>2, <1>4, <2>2
  <2>5. range \notin DOMAIN responses /\ "default" \in DOMAIN responses =>
          range \in DOMAIN normal /\ normal[range] = responses["default"]
    BY <1>2, <1>3, <1>4, <2>2
  <2>6. range \notin DOMAIN responses /\ "default" \notin DOMAIN responses =>
          range \notin DOMAIN normal /\ "default" \notin DOMAIN normal
    BY <1>2, <1>3, <1>4, <2>2
  <2>7. status \in DOMAIN responses => normal[status] = responses[status]
    BY <1>2, <1>4, <2>1
  <2> QED  BY <2>3, <2>4, <2>5, <2>6, <2>7 DEF Decoded, range
<1>9. ASSUME NEW status \in successes \cap DOMAIN normal
      PROVE  Decoded(normal, status) = Decoded(responses, status)
  <2>1. status \in DOMAIN responses /\ status \in SuccessCodes
    BY DEF successes
  <2>2. normal[status] = responses[status]
    BY <1>3, <1>4, <2>1
  <2> QED  BY <2>1, <2>2 DEF Decoded
<1> QED  BY <1>6, <1>7, <1>8, <1>9

\* parse_window_size: a window of no more seconds than fit is read, no other.
LEMMA WindowRead ==
  ASSUME NEW w, w # None, w.unit \in DOMAIN SecondsPer, w.count \in Nat
  PROVE  /\ SecondsOf(w) \in Nat /\ SecondsOf(w) # None
         /\ ParseWindow(w) = IF SecondsOf(w) \in 1 .. MaxU64 THEN SecondsOf(w) ELSE None
<1> DEFINE each == SecondsPer[w.unit]
           count == w.count
           secs == count * each
<1>1. each \in {1, 60, 3600} /\ count \in Nat /\ count # None
  BY NoneAssumption DEF SecondsPer
<1>2. ParseWindow(w) = IF count > MaxU64 \/ secs \notin 1 .. MaxU64 THEN None ELSE secs
  <2> HIDE DEF secs
  <2> QED  BY <1>1 DEF ParseWindow, secs
<1>3. SecondsOf(w) = secs
  BY DEF SecondsOf
<1> HIDE DEF each, count
<1>4. secs \in Nat /\ count <= secs
  <2>1. CASE each = 1
    BY <1>1, <2>1
  <2>2. CASE each = 60
    BY <1>1, <2>2
  <2>3. CASE each = 3600
    BY <1>1, <2>3
  <2> QED  BY <1>1, <2>1, <2>2, <2>3
<1> HIDE DEF secs
<1>5. secs # None
  BY <1>4, NoneAssumption
<1>6. secs \in 1 .. MaxU64 => ~ count > MaxU64
  BY <1>1, <1>4, WidthsAssumption
<1> QED  BY <1>2, <1>3, <1>4, <1>5, <1>6

LEMMA LimitedIsReadable ==
  ASSUME NEW op, LimitTyped(op)
  PROVE  /\ Limited(op) <=> Readable(op)
         /\ Readable(op) => ParseWindow(op.limit.window) = SecondsOf(op.limit.window)
<1> DEFINE w == op.limit.window
           parses == w # None /\ w.count # None /\ w.unit \in DOMAIN SecondsPer
                       /\ SecondsOf(w) \in 1 .. MaxU64
<1>1. CASE op.limit = None
  BY <1>1 DEF Limited, Readable
<1>2. CASE op.limit # None
  <2>1. /\ ParseWindow(w) # None <=> parses
        /\ parses => ParseWindow(w) = SecondsOf(w)
    <3>1. CASE w = None \/ w.count = None \/ w.unit \notin DOMAIN SecondsPer
      BY <3>1 DEF ParseWindow
    <3>2. CASE ~ (w = None \/ w.count = None \/ w.unit \notin DOMAIN SecondsPer)
      <4>1. w # None /\ w.unit \in DOMAIN SecondsPer /\ w.count \in Nat
        BY <1>2, <3>2 DEF LimitTyped, MayBe
      <4> HIDE DEF w
      <4> QED  BY <3>2, <4>1, WindowRead
    <3> QED  BY <3>1, <3>2
  <2>2. op.id # None
    BY <1>2 DEF LimitTyped
  <2> HIDE DEF parses
  <2>3. Readable(op) <=> /\ op.limit.group # None /\ op.limit.max_tokens # None
                         /\ op.limit.max_tokens <= MaxU32 /\ parses
    BY <1>2 DEF Readable, parses
  <2> QED  BY <1>2, <2>1, <2>2, <2>3 DEF Limited
<1> QED  BY <1>1, <1>2

\* rate_limit_table and the match generated from it.
LEMMA TableTells ==
  ASSUME NEW doc, LimitsTyped(doc), NEW op \in Operations(doc), Limited(op)
  PROVE  SpecRateLimit(doc, SnakeCase[op.id])
           = [group |-> op.limit.group, max_tokens |-> op.limit.max_tokens,
              window |-> ParseWindow(op.limit.window)]
<1> DEFINE entry(o) == [operation_id |-> SnakeCase[o.id], group |-> o.limit.group,
                        max_tokens |-> o.limit.max_tokens,
                        window |-> ParseWindow(o.limit.window)]
           id == SnakeCase[op.id]
           entries == {e \in RateLimitTable(doc) : e.operation_id = id}
<1>1. RateLimitTable(doc) = {entry(o) : o \in {p \in Operations(doc) : Limited(p)}}
  BY DEF RateLimitTable
<1>2. entry(op) \in entries
  BY <1>1
<1>3. ASSUME NEW e \in entries  PROVE e = entry(op)
  <2>1. PICK o \in Operations(doc) : Limited(o) /\ e = entry(o)
    BY <1>1
  <2>2. SnakeCase[o.id] = id
    BY <2>1
  <2>3. o = op
    BY <2>1, <2>2 DEF LimitsTyped
  <2> QED  BY <2>1, <2>3
<1>4. (CHOOSE e \in entries : TRUE) = entry(op)
  <2> HIDE DEF entries, entry
  <2> QED  BY <1>2, <1>3
<1>5. entries # {}
  BY <1>2
<1>6. SpecRateLimit(doc, id)
        = [group |-> entry(op).group, max_tokens |-> entry(op).max_tokens,
           window |-> entry(op).window]
  <2> HIDE DEF entry
  <2> QED  BY <1>4, <1>5 DEF SpecRateLimit
<1> QED  BY <1>6

LEMMA LimitsKnown ==
  ASSUME NEW doc, LimitsTyped(doc), NEW op \in Operations(doc)
  PROVE  LimitKnown(doc, op)
<1>1. /\ Limited(op) <=> Readable(op)
      /\ Readable(op) => ParseWindow(op.limit.window) = SecondsOf(op.limit.window)
  BY LimitedIsReadable DEF LimitsTyped
<1>2. CASE Readable(op)
  BY <1>1, <1>2, TableTells DEF LimitKnown
<1>3. CASE ~ Readable(op)
  <2> DEFINE id == SnakeCase[op.id]
             entries == {e \in RateLimitTable(doc) : e.operation_id = id}
  <2>1. ASSUME NEW e \in entries  PROVE FALSE
    <3>1. PICK o \in Operations(doc) : Limited(o) /\ e.operation_id = SnakeCase[o.id]
      BY DEF RateLimitTable
    <3>2. o = op
      BY <3>1 DEF LimitsTyped
    <3> QED  BY <1>1, <1>3, <3>1, <3>2
  <2>2. entries = {}
    BY <2>1
  <2>3. SpecRateLimit(doc, id) = None
    BY <2>2 DEF SpecRateLimit
  <2> QED  BY <1>3, <2>3 DEF LimitKnown
<1> QED  BY <1>2, <1>3

\* require_union_discriminants: after it, a branch that nothing was reported
\* of requires something, and still no more than its objects have.
LEMMA BranchRequires ==
  ASSUME NEW schemas, NEW union, Shaped(schemas, union),
         Unresolved(schemas, union) = {}, NEW i \in DOMAIN union
  PROVE  LET was == Resolved(schemas, union[i])
             is == Resolved(schemas, Discriminate(union)[i])
         IN  /\ is.props = was.props
             /\ is.props # {} => is.required # {}
             /\ is.required \subseteq is.props
             /\ \A object \in ObjectsOf(was) : is.required \subseteq object /\ is.props # {}
<1> DEFINE own == union[i]
           was == Resolved(schemas, own)
           now_own == Discriminate(union)[i]
           is == Resolved(schemas, now_own)
           sole == own.ref = None /\ Underconstrained(own) /\ Cardinality(own.props) = 1
<1>1. now_own = IF sole THEN [own EXCEPT !.required = own.props] ELSE own
  BY DEF Discriminate
<1>2. /\ own = [ref |-> own.ref, props |-> own.props, required |-> own.required]
      /\ IsFiniteSet(was.props) /\ was.required \subseteq was.props
  BY DEF Shaped
<1>3. ~ (Underconstrained(was) /\ (own.ref # None \/ Cardinality(own.props) > 1))
  BY DEF Unresolved
<1>4. CASE sole
  <2> DEFINE more == [own EXCEPT !.required = own.props]
  <2>1. now_own = more
    BY <1>1, <1>4
  <2> HIDE DEF now_own, own
  <2>2. was = own
    BY <1>4 DEF Resolved
  <2>3. more.ref = own.ref /\ more.props = own.props /\ more.required = own.props
    BY <1>2
  <2>4. is = more
    BY <1>4, <2>1, <2>3 DEF Resolved
  <2> HIDE DEF was, is, more
  <2>5. PICK x : own.props = {x}
    BY <1>2, <1>4, <2>2, FS_Singleton
  <2>6. ASSUME NEW object \in ObjectsOf(was)  PROVE object = own.props
    BY <2>2, <2>5 DEF ObjectsOf
  <2> QED  BY <2>2, <2>3, <2>4, <2>5, <2>6 DEF is, was, own, now_own
<1>5. CASE ~ sole
  <2>1. now_own = own
    BY <1>1, <1>5
  <2> HIDE DEF now_own, own
  <2>2. is = was
    BY <2>1
  <2>3. ~ Underconstrained(was)
    <3>1. CASE own.ref = None
      <4>1. was = own
        BY <3>1 DEF Resolved
      <4> SUFFICES ASSUME Underconstrained(own), Cardinality(own.props) # 1,
                          ~ (Cardinality(own.props) > 1)
                   PROVE  FALSE
        BY <1>3, <1>5, <3>1, <4>1
      <4>2. IsFiniteSet(own.props) /\ own.props # {}
        BY <1>2, <4>1 DEF Underconstrained
      <4>3. Cardinality(own.props) \in Nat /\ Cardinality(own.props) # 0
        BY <4>2, FS_CardinalityType, FS_EmptySet
      <4> QED  BY <4>3
    <3>2. CASE own.ref # None
      BY <1>3, <3>2
    <3> QED  BY <3>1, <3>2
  <2>4. was.props # {} => was.required # {}
    BY <2>3 DEF Underconstrained
  <2>5. ASSUME NEW object \in ObjectsOf(was)
        PROVE  was.required \subseteq object /\ was.props # {}
    <3> HIDE DEF was
    <3> QED  BY DEF ObjectsOf
  <2> HIDE DEF was, is
  <2> QED  BY <1>2, <2>2, <2>4, <2>5 DEF is, was, own, now_own
<1> QED  BY <1>4, <1>5

LEMMA UnionDiscriminated ==
  ASSUME NEW schemas, NEW union, Shaped(schemas, union)
  PROVE  DiscriminatedIn(schemas, union)
<1> DEFINE branch(i) == Resolved(schemas, union[i])
           is(i) == Resolved(schemas, Discriminate(union)[i])
<1> SUFFICES ASSUME Unresolved(schemas, union) = {},
                    \A i, j \in DOMAIN union : i # j => branch(i).props \cap branch(j).props = {},
                    NEW i \in DOMAIN union, NEW object \in ObjectsOf(branch(i))
             PROVE  DecodedAs(schemas, Discriminate(union), object) = i
  BY DEF DiscriminatedIn
<1> DEFINE takers == {j \in DOMAIN union : is(j).props # {} /\ is(j).required \subseteq object}
<1>1. DOMAIN Discriminate(union) = DOMAIN union
  BY DEF Discriminate
<1>2. \A j \in DOMAIN union :
        /\ is(j).props = branch(j).props
        /\ is(j).props # {} => is(j).required # {}
        /\ is(j).required \subseteq is(j).props
        /\ \A o \in ObjectsOf(branch(j)) : is(j).required \subseteq o /\ is(j).props # {}
  BY BranchRequires
<1>3. object \subseteq branch(i).props
  <2> HIDE DEF branch
  <2> QED  BY DEF ObjectsOf
<1> HIDE DEF is, branch
<1>4. takers = {i}
  <2>1. i \in takers
    BY <1>2
  <2>2. ASSUME NEW j \in takers, j # i  PROVE FALSE
    <3>1. PICK x : x \in is(j).required
      BY <1>2
    <3>2. x \in branch(j).props /\ x \in branch(i).props
      BY <1>2, <1>3, <3>1
    <3> QED  BY <2>2, <3>2
  <2> QED  BY <2>1, <2>2
<1>5. DecodedAs(schemas, Discriminate(union), object)
        = IF takers = {} THEN 0 ELSE CHOOSE k \in takers : \A j \in takers : k <= j
  BY <1>1 DEF DecodedAs, is
<1> HIDE DEF takers
<1>6. i \in Nat
  BY DEF Shaped
<1> QED  BY <1>4, <1>5, <1>6

-----------------------------------------------------------------------------
(* Versions. *)

Above(a, b) ==
  \/ a[1] > b[1]
  \/ a[1] = b[1] /\ a[2] > b[2]
  \/ a[1] = b[1] /\ a[2] = b[2] /\ a[3] > b[3]

LEMMA ExceedsLex ==
  ASSUME NEW a \in Version, NEW b \in Version
  PROVE  Exceeds(a, b) <=> Above(a, b)
<1> DEFINE higher(i) == a[i] > b[i] /\ \A k \in 1 .. i - 1 : a[k] = b[k]
<1>1. higher(1) <=> a[1] > b[1]
  OBVIOUS
<1>2. higher(2) <=> a[1] = b[1] /\ a[2] > b[2]
  <2>1. \A k : k \in 1 .. 2 - 1 <=> k = 1
    OBVIOUS
  <2> QED  BY <2>1
<1>3. higher(3) <=> a[1] = b[1] /\ a[2] = b[2] /\ a[3] > b[3]
  <2>1. \A k : k \in 1 .. 3 - 1 <=> k = 1 \/ k = 2
    OBVIOUS
  <2> QED  BY <2>1
<1>4. Exceeds(a, b) <=> \E i \in 1 .. 3 : higher(i)
  BY DEF Exceeds
<1>5. \A i : i \in 1 .. 3 <=> i = 1 \/ i = 2 \/ i = 3
  OBVIOUS
<1> HIDE DEF higher
<1>6. (\E i \in 1 .. 3 : higher(i)) <=> higher(1) \/ higher(2) \/ higher(3)
  BY <1>5
<1> QED  BY <1>1, <1>2, <1>3, <1>4, <1>6 DEF Above

LEMMA VersionParts ==
  ASSUME NEW v \in Version
  PROVE  v = <<v[1], v[2], v[3]>> /\ v[1] \in Nat /\ v[2] \in Nat /\ v[3] \in Nat
BY DEF Version

LEMMA AboveGoesOn ==
  ASSUME NEW a \in Version, NEW b \in Version, NEW c \in Version,
         ~ Above(a, b), Above(a, c)
  PROVE  Above(b, c)
<1> DEFINE a1 == a[1]  a2 == a[2]  a3 == a[3]
           b1 == b[1]  b2 == b[2]  b3 == b[3]
           c1 == c[1]  c2 == c[2]  c3 == c[3]
<1>1. /\ a1 \in Nat /\ a2 \in Nat /\ a3 \in Nat
      /\ b1 \in Nat /\ b2 \in Nat /\ b3 \in Nat
      /\ c1 \in Nat /\ c2 \in Nat /\ c3 \in Nat
  BY VersionParts
<1>2. ~ (a1 > b1) /\ ~ (a1 = b1 /\ a2 > b2) /\ ~ (a1 = b1 /\ a2 = b2 /\ a3 > b3)
  BY DEF Above
<1>3. a1 > c1 \/ (a1 = c1 /\ a2 > c2) \/ (a1 = c1 /\ a2 = c2 /\ a3 > c3)
  BY DEF Above
<1>4. b1 > c1 \/ (b1 = c1 /\ b2 > c2) \/ (b1 = c1 /\ b2 = c2 /\ b3 > c3)
  <2> HIDE DEF a1, a2, a3, b1, b2, b3, c1, c2, c3
  <2> QED  BY <1>1, <1>2, <1>3
<1> QED  BY <1>4 DEF Above

LEMMA BumpGoesOn ==
  ASSUME NEW v \in Version, NEW level \in {"patch", "minor", "major"}
  PROVE  /\ Bump(v, level) \in Version /\ Exceeds(Bump(v, level), v)
         /\ level # "major" => Bump(v, level)[1] = v[1]
         /\ level = "minor" => Bump(v, level)[2] = v[2] + 1
<1>1. v[1] \in Nat /\ v[2] \in Nat /\ v[3] \in Nat
  BY VersionParts
<1>2. CASE level = "major"
  <2>1. Bump(v, level) = <<v[1] + 1, 0, 0>>
    BY <1>2 DEF Bump
  <2>2. Bump(v, level) \in Version
    BY <1>1, <2>1 DEF Version
  <2> QED  BY <1>1, <1>2, <2>1, <2>2, ExceedsLex DEF Above
<1>3. CASE level = "minor"
  <2>1. Bump(v, level) = <<v[1], v[2] + 1, 0>>
    BY <1>3 DEF Bump
  <2>2. Bump(v, level) \in Version
    BY <1>1, <2>1 DEF Version
  <2> QED  BY <1>1, <1>3, <2>1, <2>2, ExceedsLex DEF Above
<1>4. CASE level = "patch"
  <2>1. Bump(v, level) = <<v[1], v[2], v[3] + 1>>
    BY <1>4 DEF Bump
  <2>2. Bump(v, level) \in Version
    BY <1>1, <2>1 DEF Version
  <2> QED  BY <1>1, <1>4, <2>1, <2>2, ExceedsLex DEF Above
<1> QED  BY <1>2, <1>3, <1>4

\* The version a run computes is higher than the last, and a breaking one of a
\* crate below 1.0 if its level says so.
LEMMA VersionGoesOn ==
  ASSUME TypeOK, NEW j, j.level \in {"patch", "minor", "major"},
         j.head \in 1 .. Len(main), Len(releases) > 0
  PROVE  LET next == NextVersion(j)
             current == Latest.version
         IN  /\ next \in Version /\ Exceeds(next, current)
             /\ current[1] = 0 /\ main[j.head].declared[1] = 0 /\ j.level # "major"
                  => /\ next[1] = 0
                     /\ j.level = "minor" => ~ CargoCompatible(current, next)
<1> DEFINE current == Latest.version
           declared == main[j.head].declared
           bumped == Bump(current, j.level)
           next == NextVersion(j)
<1>1. current \in Version /\ declared \in Version
  <2>1. main \in Seq(CommitType) /\ releases \in Seq([version : Version, head : Nat, given : Levels \cup {None}])
    BY DEF TypeOK
  <2>2. main[j.head] \in CommitType
    BY <2>1
  <2>3. Len(releases) \in Nat
    BY <2>1
  <2>4. Latest \in [version : Version, head : Nat, given : Levels \cup {None}]
    <3> DEFINE R == [version : Version, head : Nat, given : Levels \cup {None}]
               n == Len(releases)
    <3> HIDE DEF R
    <3>1. releases \in Seq(R)
      BY <2>1 DEF R
    <3>2. n \in 1 .. n
      BY <2>3
    <3>3. releases[n] \in R
      BY <3>1, <3>2
    <3> QED  BY <3>3 DEF Latest, R
  <2> QED  BY <2>2, <2>4 DEF CommitType
<1>2. /\ bumped \in Version /\ Exceeds(bumped, current)
      /\ j.level # "major" => bumped[1] = current[1]
      /\ j.level = "minor" => bumped[2] = current[2] + 1
  BY <1>1, BumpGoesOn
<1>3. next = IF ~ Exceeds(bumped, declared) /\ declared # current THEN declared ELSE bumped
  BY DEF NextVersion, Last, Latest
<1> HIDE DEF current, declared, bumped, next
<1>4. next = bumped \/ (next = declared /\ ~ Exceeds(bumped, declared))
  BY <1>3
<1>5. /\ current[1] \in Nat /\ current[2] \in Nat /\ current[3] \in Nat
      /\ declared[1] \in Nat /\ declared[2] \in Nat /\ declared[3] \in Nat
      /\ bumped[1] \in Nat /\ bumped[2] \in Nat /\ bumped[3] \in Nat
  BY <1>1, <1>2, VersionParts
<1>6. CASE next = bumped
  BY <1>2, <1>5, <1>6 DEF CargoCompatible, current, declared, next
<1>7. CASE next = declared /\ ~ Exceeds(bumped, declared)
  <2>1. Exceeds(declared, current)
    <3>1. ~ Above(bumped, declared) /\ Above(bumped, current)
      BY <1>1, <1>2, <1>7, ExceedsLex
    <3>2. Above(declared, current)
      BY <1>1, <1>2, <3>1, AboveGoesOn
    <3> QED  BY <1>1, <3>2, ExceedsLex
  <2>2. ASSUME current[1] = 0, declared[1] = 0, j.level = "minor"
        PROVE  ~ CargoCompatible(current, next)
    <3>1. bumped[1] = 0 /\ bumped[2] = current[2] + 1
      BY <1>2, <2>2
    <3>2. ~ (bumped[1] = declared[1] /\ bumped[2] > declared[2])
      BY <1>1, <1>2, <1>7, ExceedsLex DEF Above
    <3>3. declared[2] # current[2]
      BY <1>5, <2>2, <3>1, <3>2
    <3> QED  BY <1>7, <2>2, <3>3 DEF CargoCompatible
  <2> QED  BY <1>1, <1>7, <2>1, <2>2 DEF current, declared, next
<1> QED  BY <1>4, <1>6, <1>7

-----------------------------------------------------------------------------
(* Runs: one is on, one waits. *)

OneOfEach == \A j, k \in jobs : (j \in Pending <=> k \in Pending) => j = k

\* What a new run is.
Queued(n, before, given) ==
  /\ n \in Job /\ n.stage \in {"pending", "queued"}
  /\ n.before = before /\ n.given = given /\ n.level = None

LEMMA QueueAdds ==
  ASSUME jobs \subseteq Job, OneOfEach, NEW before \in Nat, NEW given \in Levels \cup {None},
         jobs' = Queue(NewJob(before, given))
  PROVE  /\ jobs' \subseteq Job /\ OneOfEach' /\ Active \subseteq Active'
         /\ \E n \in jobs' : /\ Queued(n, before, given) /\ jobs' = Active \cup {n}
                             /\ jobs # {} => n \in Pending'
<1> DEFINE job == NewJob(before, given)
           first == Admitted(job)
<1>1. /\ job = [before |-> before, stage |-> "pending", head |-> 0, given |-> given,
                level |-> None, next |-> None]
      /\ first = [before |-> before, stage |-> "queued", head |-> 0, given |-> given,
                  level |-> None, next |-> None]
  BY DEF NewJob, Admitted
<1>2. /\ Queued(job, before, given) /\ job.stage = "pending"
      /\ Queued(first, before, given) /\ first.stage = "queued"
  BY <1>1 DEF Queued, Job
<1> HIDE DEF job, first
<1>3. CASE jobs = {}
  <2>1. jobs' = {first} /\ Active = {} /\ Pending = {}
    BY <1>3 DEF Queue, Active, Pending, job, first
  <2> QED  BY <1>2, <1>3, <2>1 DEF OneOfEach, Active, Pending, Queued
<1>4. CASE jobs # {}
  <2>1. jobs' = Active \cup {job}
    BY <1>4 DEF Queue, job
  <2>2. \A j \in Active : j \in jobs /\ j \in Job /\ j.stage # "pending"
    BY DEF Active, Pending
  <2>3. Pending' = {job} /\ Active' = Active
    BY <1>2, <2>1, <2>2 DEF Active, Pending
  <2>4. \A j, k \in Active : j = k
    BY <2>2 DEF OneOfEach, Pending
  <2>5. OneOfEach'
    BY <2>1, <2>3, <2>4 DEF OneOfEach, Active
  <2>6. jobs' \subseteq Job
    BY <1>2, <2>1, <2>2 DEF Queued
  <2> QED  BY <1>2, <2>1, <2>3, <2>5, <2>6
<1> QED  BY <1>3, <1>4

\* The run that waits is the next.
LEMMA EndAdmits ==
  ASSUME jobs \subseteq Job, OneOfEach, NEW j \in Active,
         jobs' = (Active \ {j}) \cup {Admitted(k) : k \in Pending}
  PROVE  /\ jobs' \subseteq Job /\ OneOfEach' /\ Pending' = {} /\ Active = {j}
         /\ \A n \in jobs' : \E k \in Pending :
              n.stage = "queued" /\ n.before = k.before /\ n.given = k.given
                /\ n.level = k.level
         /\ \A k \in Pending : \E n \in jobs' : n.before = k.before /\ n.stage = "queued"
<1>1. j \in jobs /\ j \notin Pending /\ \A k \in Active : k = j
  BY DEF OneOfEach, Active
<1>2. Active = {j}
  BY <1>1
<1>3. jobs' = {Admitted(k) : k \in Pending}
  BY <1>2
<1>4. ASSUME NEW k \in Pending
      PROVE  /\ Admitted(k) \in Job /\ Admitted(k).stage = "queued"
             /\ Admitted(k).before = k.before /\ Admitted(k).given = k.given
             /\ Admitted(k).level = k.level
  <2>1. k \in Job
    BY DEF Pending
  <2> QED  BY <2>1 DEF Job, Admitted
<1>5. \A k, n \in Pending : k = n
  BY DEF OneOfEach, Pending
<1>6. \A k, n \in jobs' : k = n
  BY <1>3, <1>5
<1>7. jobs' \subseteq Job /\ Pending' = {}
  BY <1>3, <1>4 DEF Pending
<1>8. OneOfEach'
  BY <1>6 DEF OneOfEach
<1> QED  BY <1>2, <1>3, <1>4, <1>7, <1>8

LEMMA StepGoesOn ==
  ASSUME jobs \subseteq Job, OneOfEach, NEW j \in Active, NEW k \in Job,
         k.stage # "pending", Step(j, k)
  PROVE  /\ jobs' \subseteq Job /\ OneOfEach' /\ jobs' = Pending \cup {k}
         /\ Pending' = Pending /\ Active' = {k} /\ Active = {j}
<1>1. j \in jobs /\ j \notin Pending /\ \A n \in Active : n = j
  BY DEF OneOfEach, Active
<1>2. jobs \ {j} = Pending
  BY <1>1 DEF Active, Pending
<1>3. jobs' = Pending \cup {k}
  BY <1>2 DEF Step
<1>4. \A n \in Pending : n \in Job /\ n.stage = "pending"
  BY DEF Pending
<1>5. Pending' = Pending
  BY <1>3, <1>4 DEF Pending
<1>6. Active' = {k} /\ k \notin Pending
  BY <1>3, <1>4, <1>5 DEF Active
<1>7. \A n, m \in Pending : n = m
  BY DEF OneOfEach, Pending
<1>8. OneOfEach'
  BY <1>3, <1>5, <1>6, <1>7 DEF OneOfEach
<1>9. jobs' \subseteq Job
  BY <1>3, <1>4
<1>10. Active = {j}
  BY <1>1
<1> QED  BY <1>3, <1>5, <1>6, <1>8, <1>9, <1>10

LEMMA MaxOfTwo ==
  ASSUME NEW a \in Nat, NEW b \in Nat
  PROVE  Max({a, b}) = IF a <= b THEN b ELSE a
<1>1. \A x \in {a, b} : (\A y \in {a, b} : x >= y) <=> x = IF a <= b THEN b ELSE a
  OBVIOUS
<1> QED  BY <1>1 DEF Max

-----------------------------------------------------------------------------
(* Commits are only added. *)

LEMMA MainGrows ==
  ASSUME main \in Seq(CommitType), NEW commits \in Seq(CommitType), main' = main \o commits
  PROVE  /\ main' \in Seq(CommitType)
         /\ Len(main) \in Nat /\ Len(commits) \in Nat
         /\ Len(main') = Len(main) + Len(commits)
         /\ \A i \in 1 .. Len(main) : main'[i] = main[i]
         /\ \A i \in 1 .. Len(commits) : main'[Len(main) + i] = commits[i]
         /\ \A i \in Len(main) + 1 .. Len(main') :
              i - Len(main) \in 1 .. Len(commits) /\ main'[i] = commits[i - Len(main)]
<1>1. Len(main) \in Nat /\ Len(commits) \in Nat /\ main' \in Seq(CommitType)
  OBVIOUS
<1>2. Len(main') = Len(main) + Len(commits)
  OBVIOUS
<1>3. /\ \A i \in 1 .. Len(main) : main'[i] = main[i]
      /\ \A i \in 1 .. Len(commits) : main'[Len(main) + i] = commits[i]
  BY <1>1
<1>4. ASSUME NEW i \in Len(main) + 1 .. Len(main')
      PROVE  i - Len(main) \in 1 .. Len(commits) /\ main'[i] = commits[i - Len(main)]
  <2>1. i - Len(main) \in 1 .. Len(commits) /\ Len(main) + (i - Len(main)) = i
    BY <1>1, <1>2
  <2> QED  BY <1>3, <2>1
<1> QED  BY <1>1, <1>2, <1>3, <1>4

LEMMA FlagsStay ==
  ASSUME main \in Seq(CommitType), NEW commits \in Seq(CommitType), main' = main \o commits,
         NEW i \in 1 .. Len(main)
  PROVE  Flagged(i)' <=> Flagged(i)
BY MainGrows DEF Flagged

\* What was released is as it was.
LEMMA ReleasesStay ==
  ASSUME ReleaseState, main \in Seq(CommitType), NEW commits \in Seq(CommitType),
         main' = main \o commits, releases' = releases, lost \subseteq lost',
         releases \in Seq([version : Version, head : Nat, given : Levels \cup {None}])
  PROVE  /\ ReleaseState' /\ Latest' = Latest /\ Latest.head \in 1 .. Len(main)
         /\ FlagsKept => FlagsKept'
<1>1. Len(main) \in Nat /\ Len(main') \in Nat /\ Len(main) <= Len(main')
  BY MainGrows
<1>2. ReleaseState' /\ Latest' = Latest
  BY <1>1 DEF ReleaseState, Latest
<1>3. Len(releases) \in 1 .. Len(releases)
  BY DEF ReleaseState
<1>4. Latest.head \in 1 .. Len(main)
  BY <1>3 DEF ReleaseState, Latest
<1>5. ASSUME FlagsKept  PROVE FlagsKept'
  <2>0. \A k : Compatible(k)' <=> Compatible(k)
    BY DEF Compatible
  <2> SUFFICES ASSUME NEW k \in 2 .. Len(releases), Compatible(k), NEW i \in FlaggedIn(k)'
               PROVE  i \in lost'
    BY <2>0, Zenon DEF FlagsKept
  <2>1. k \in 1 .. Len(releases) /\ k - 1 \in 1 .. Len(releases)
    BY <1>3
  <2>2. i \in releases[k - 1].head + 1 .. releases[k].head /\ Flagged(i)'
    BY DEF FlaggedIn
  <2>3. i \in 1 .. Len(main)
    <3> DEFINE a == releases[k - 1].head
               b == releases[k].head
    <3>1. a \in 1 .. Len(main) /\ b \in 1 .. Len(main)
      BY <2>1 DEF ReleaseState
    <3>2. i \in a + 1 .. b
      BY <2>2
    <3> HIDE DEF a, b
    <3> QED  BY <1>1, <3>1, <3>2
  <2>4. i \in FlaggedIn(k)
    BY <2>2, <2>3, FlagsStay DEF FlaggedIn
  <2> QED  BY <1>5, <2>4 DEF FlagsKept
<1> QED  BY <1>2, <1>4, <1>5

LEMMA JobsStay ==
  ASSUME ReleaseState, main \in Seq(CommitType), NEW commits \in Seq(CommitType),
         main' = main \o commits, releases' = releases,
         releases \in Seq([version : Version, head : Nat, given : Levels \cup {None}]),
         NEW j \in Job, JobGood(j)
  PROVE  JobGood(j)'
<1>1. Len(main) \in Nat /\ Len(main') \in Nat /\ Len(main) <= Len(main')
  BY MainGrows
<1>2. Latest' = Latest
  BY DEF Latest
<1>3. ASSUME j.stage \in Begun, Bears(j)'  PROVE Bears(j)
  <2>1. PICK i \in j.before + 1 .. j.head : Flagged(i)'
    BY <1>3 DEF Bears
  <2>2. j.head \in 1 .. Len(main) /\ j.before \in Nat
    BY <1>3 DEF JobGood, Job
  <2>3. i \in 1 .. Len(main)
    BY <1>1, <2>2
  <2> QED  BY <1>3, <2>1, <2>3, FlagsStay DEF Bears
<1>4. j.before \in Nat /\ j.head \in Nat
  BY DEF Job
<1>5. j.stage \in {"started", "versioned", "published"} <=> j.stage \in Begun
  BY DEF Begun
<1> QED  BY <1>1, <1>2, <1>3, <1>4, <1>5 DEF JobGood

LEMMA InvTypes ==
  ASSUME ReleaseInv
  PROVE  /\ hour \in Nat /\ published \in Seq([date : Int, doc : Docs, hour : Nat])
         /\ CheckState
         /\ main \in Seq(CommitType) /\ jobs \subseteq Job /\ OneOfEach
         /\ releases \in Seq([version : Version, head : Nat, given : Levels \cup {None}])
         /\ settled \in 1 .. Len(main) /\ lost \subseteq Nat
         /\ Len(main) \in Nat
BY DEF ReleaseInv, TypeOK, OneOfEach

\* From the parts to the whole.
LEMMA TypesGiveTypeOK ==
  ASSUME hour' \in Nat, published' \in Seq([date : Int, doc : Docs, hour : Nat]),
         CheckState',
         main' \in Seq(CommitType), jobs' \subseteq Job, OneOfEach',
         releases' \in Seq([version : Version, head : Nat, given : Levels \cup {None}]),
         (settled \in 1 .. Len(main))', lost' \subseteq Nat
  PROVE  TypeOK'
BY DEF TypeOK, OneOfEach, CheckState, RunType, PrType

-----------------------------------------------------------------------------
(* Push and Dispatch: a run is queued for what is added. *)

LEMMA Queues ==
  ASSUME ReleaseInv, NEW commits \in Seq(CommitType), NEW given \in Levels \cup {None},
         main' = main \o commits, jobs' = Queue(NewJob(Len(main), given)),
         lost' = lost \cup Cancelled, UNCHANGED <<hour, published, releases, settled>>,
         CheckState', AllTyped => MarkersTell',
         PreOne => /\ given # "major"
                   /\ \A i \in 1 .. Len(commits) : CommitBelow(commits[i])
  PROVE  ReleaseInv'
<1>1. /\ main \in Seq(CommitType) /\ jobs \subseteq Job /\ OneOfEach
      /\ releases \in Seq([version : Version, head : Nat, given : Levels \cup {None}])
      /\ settled \in 1 .. Len(main) /\ lost \subseteq Nat /\ Len(main) \in Nat
      /\ hour \in Nat /\ published \in Seq([date : Int, doc : Docs, hour : Nat])
  BY InvTypes
<1>2. /\ main' \in Seq(CommitType) /\ Len(main') \in Nat /\ Len(main) <= Len(main')
      /\ \A i \in 1 .. Len(main) : main'[i] = main[i]
      /\ \A i \in Len(main) + 1 .. Len(main') :
           i - Len(main) \in 1 .. Len(commits) /\ main'[i] = commits[i - Len(main)]
  BY <1>1, MainGrows
<1>3. /\ jobs' \subseteq Job /\ OneOfEach' /\ Active \subseteq Active'
      /\ \E n \in jobs' : /\ Queued(n, Len(main), given) /\ jobs' = Active \cup {n}
                          /\ jobs # {} => n \in Pending'
  BY <1>1, QueueAdds
<1>4. PICK n \in jobs' : /\ Queued(n, Len(main), given) /\ jobs' = Active \cup {n}
                         /\ jobs # {} => n \in Pending'
  BY <1>3
<1>5. lost \subseteq lost' /\ lost' \subseteq Nat
  <2>1. \A j \in Pending : j.before \in Nat
    BY <1>1 DEF Pending, Job
  <2>2. \A j \in Pending : j.before + 1 .. Len(main) \subseteq Nat
    BY <1>1, <2>1
  <2>3. Cancelled \subseteq Nat
    BY <2>2, Zenon DEF Cancelled
  <2> QED  BY <1>1, <2>3
<1>6. /\ ReleaseState' /\ Latest' = Latest /\ Latest.head \in 1 .. Len(main)
      /\ FlagsKept => FlagsKept'
  BY <1>1, <1>5, ReleasesStay DEF ReleaseInv
<1>7. TypeOK'
  <2>1. (settled \in 1 .. Len(main))'
    BY <1>1, <1>2
  <2> QED  BY <1>1, <1>2, <1>3, <1>5, <2>1, TypesGiveTypeOK
<1>8. /\ n.before = Len(main) /\ n.given = given /\ n.level = None
      /\ n.stage \in {"pending", "queued"} /\ n.stage \notin Begun /\ n \in Job
      /\ n.stage # "published" /\ n.stage # "versioned" /\ n.stage # "started"
  BY <1>4 DEF Queued, Begun
<1>9. \A j \in Active : j \in jobs /\ j.stage # "pending" /\ j \in Job
  BY <1>1 DEF Active, Pending
<1>10. JobState'
  <2>1. ASSUME NEW j \in jobs'  PROVE JobGood(j)'
    <3>1. CASE j = n
      BY <1>2, <1>8, <3>1 DEF JobGood, Bears
    <3>2. CASE j \in Active
      <4>1. j \in Job /\ JobGood(j)
        BY <1>9, <3>2 DEF ReleaseInv, JobState
      <4> QED  BY <1>1, <4>1, JobsStay DEF ReleaseInv
    <3> QED  BY <1>4, <3>1, <3>2
  <2>2. ASSUME NEW j \in Active', NEW k \in Pending'  PROVE j.before <= k.before
    <3>1. k = n
      BY <1>4, <1>9 DEF Pending
    <3>2. CASE j = n
      BY <1>1, <1>8, <3>1, <3>2
    <3>3. CASE j \in Active
      BY <1>8, <1>9, <3>1, <3>3 DEF ReleaseInv, JobState, JobGood
    <3> QED  BY <1>4, <3>2, <3>3 DEF Active
  <2> QED  BY <2>1, <2>2 DEF JobState
<1>11. ASSUME NEW k \in Pending, NEW i \in 1 .. Len(main), k.before < i  PROVE i \in lost'
  <2>1. k.before \in Nat
    BY <1>1 DEF Pending, Job
  <2>2. i \in k.before + 1 .. Len(main)
    BY <1>1, <1>11, <2>1
  <2> QED  BY <2>2 DEF Cancelled
<1>12. ASSUME NEW i \in Latest.head + 1 .. Len(main'), Flagged(i)'
       PROVE  i \in lost' \/ Awaited(i)'
  <2>1. CASE i > Len(main)
    BY <1>4, <1>8, <2>1 DEF Awaited
  <2>2. CASE ~ (i > Len(main))
    <3>1. i \in 1 .. Len(main) /\ i \in Latest.head + 1 .. Len(main)
      BY <1>1, <1>2, <1>6, <2>2
    <3>2. i \in lost \/ Awaited(i)
      BY <1>1, <1>12, <3>1, FlagsStay DEF ReleaseInv, CoverState
    <3>3. CASE Awaited(i)
      <4>1. PICK j \in jobs : j.before < i /\ j.stage # "published"
        BY <3>3 DEF Awaited
      <4>2. CASE j \in Pending
        BY <1>11, <3>1, <4>1, <4>2
      <4>3. CASE j \in Active
        BY <1>4, <4>1, <4>3 DEF Awaited
      <4> QED  BY <4>2, <4>3 DEF Active
    <3> QED  BY <1>5, <3>2, <3>3
  <2> QED  BY <2>1, <2>2
<1>13. ASSUME NEW j \in jobs', j.stage \in Begun, NEW i \in j.head + 1 .. Len(main'), Flagged(i)'
       PROVE  i \in lost' \/ AwaitedAfter(i)'
  <2>1. j \in Active /\ n \in Pending' /\ j.head \in 1 .. Len(main)
    BY <1>4, <1>8, <1>9, <1>13 DEF ReleaseInv, JobState, JobGood
  <2>2. CASE i > Len(main)
    BY <1>8, <2>1, <2>2 DEF AwaitedAfter
  <2>3. CASE ~ (i > Len(main))
    <3>1. i \in 1 .. Len(main) /\ i \in j.head + 1 .. Len(main)
      BY <1>1, <1>2, <2>1, <2>3
    <3>2. i \in lost \/ AwaitedAfter(i)
      BY <1>1, <1>9, <1>13, <2>1, <3>1, FlagsStay DEF ReleaseInv, CoverState
    <3> QED  BY <1>5, <1>11, <3>1, <3>2 DEF AwaitedAfter
  <2> QED  BY <2>2, <2>3
<1>14. CoverState'
  BY <1>6, <1>12, <1>13 DEF CoverState
<1>15. ASSUME PreOne  PROVE BelowOne' /\ FlagsKept'
  <2>1. BelowOne /\ FlagsKept
    BY <1>15 DEF ReleaseInv
  <2>2. \A i \in 1 .. Len(main') : CommitBelow(main'[i])
    <3> SUFFICES ASSUME NEW i \in 1 .. Len(main')  PROVE CommitBelow(main'[i])
      OBVIOUS
    <3>1. CASE i \in 1 .. Len(main)
      BY <1>2, <2>1, <3>1 DEF BelowOne
    <3>2. CASE i \in Len(main) + 1 .. Len(main')
      BY <1>2, <1>15, <3>2
    <3> QED  BY <1>1, <1>2, <3>1, <3>2
  <2>3. JobBelow(n)
    BY <1>8, <1>15 DEF JobBelow
  <2>4. \A j \in jobs' : JobBelow(j)
    BY <1>4, <1>9, <2>1, <2>3 DEF BelowOne
  <2>5. \A k \in 1 .. Len(releases') : releases'[k].version[1] = 0
    BY <2>1 DEF BelowOne
  <2> QED  BY <1>6, <2>1, <2>2, <2>4, <2>5 DEF BelowOne
<1> QED  BY <1>6, <1>7, <1>10, <1>14, <1>15 DEF ReleaseInv

-----------------------------------------------------------------------------
(* The clock, CCP and spec-check. *)

LEMMA Outside ==
  ASSUME ReleaseInv, UNCHANGED <<main, publishing>>,
         hour' \in Nat, published' \in Seq([date : Int, doc : Docs, hour : Nat]),
         CheckState'
  PROVE  ReleaseInv'
<1>1. main' = main /\ jobs' = jobs /\ releases' = releases /\ settled' = settled /\ lost' = lost
  BY DEF publishing
<1>2. TypeOK'
  BY <1>1, InvTypes, TypesGiveTypeOK DEF OneOfEach, Pending
<1>3. ReleaseState'
  BY <1>1 DEF ReleaseInv, ReleaseState
<1>4. Latest' = Latest /\ Pending' = Pending /\ Active' = Active
  BY <1>1 DEF Latest, Active, Pending
<1>5. JobState'
  BY <1>1, <1>4 DEF ReleaseInv, JobState, JobGood, Bears, Flagged
<1>6. CoverState'
  BY <1>1, <1>4 DEF ReleaseInv, CoverState, Flagged, Awaited, AwaitedAfter
<1>7. BelowOne' <=> BelowOne
  BY <1>1 DEF BelowOne, JobBelow
<1>8. FlagsKept' <=> FlagsKept
  BY <1>1 DEF FlagsKept, FlaggedIn, Flagged, Compatible
<1>9. MarkersTell' <=> MarkersTell
  BY <1>1 DEF MarkersTell, BreakingCommit, BreaksProgram, Flagged
<1> QED  BY <1>2, <1>3, <1>5, <1>6, <1>7, <1>8, <1>9 DEF ReleaseInv

LEMMA CheckStays ==
  ASSUME ReleaseInv, UNCHANGED checking
  PROVE  CheckState'
BY DEF ReleaseInv, CheckState, checking, Marker, Verdicts

LEMMA TickStep ==
  ASSUME ReleaseInv, Tick  PROVE ReleaseInv'
<1>1. UNCHANGED <<published, checking, main, publishing>> /\ hour' = hour + 1
  BY DEF Tick
<1>2. hour' \in Nat /\ published' \in Seq([date : Int, doc : Docs, hour : Nat])
  BY <1>1, InvTypes
<1> QED  BY <1>1, <1>2, CheckStays, Outside

LEMMA PublishStep ==
  ASSUME ReleaseInv, NEW doc \in Docs, Publish(doc)  PROVE ReleaseInv'
<1>1. /\ UNCHANGED <<hour, checking, main, publishing>>
      /\ published' = Append(published, [date |-> EsiDate, doc |-> doc, hour |-> hour])
  BY DEF Publish
<1>2. hour' \in Nat /\ EsiDate \in Int
  BY <1>1, InvTypes DEF EsiDate
<1>3. published' \in Seq([date : Int, doc : Docs, hour : Nat])
  <2> DEFINE P == [date : Int, doc : Docs, hour : Nat]
             new == [date |-> EsiDate, doc |-> doc, hour |-> hour]
  <2>1. new \in P /\ published \in Seq(P) /\ published' = Append(published, new)
    BY <1>1, <1>2, InvTypes
  <2> HIDE DEF P, new
  <2>2. published' \in Seq(P)
    BY <2>1
  <2> QED  BY <2>2 DEF P
<1> QED  BY <1>1, <1>2, <1>3, CheckStays, Outside

-----------------------------------------------------------------------------
(* fetch_spec: what it gets. *)

\* A nonempty set of naturals has a least element, one below a bound a greatest.
LEMMA LeastNatural ==
  ASSUME NEW S, S \subseteq Nat, S # {}
  PROVE  \E x \in S : \A y \in S : x <= y
<1> DEFINE R == OpToRel(<, Nat)
<1>1. IsWellFoundedOn(R, Nat)
  BY NatLessThanWellFounded
<1>2. PICK x \in S : \A y \in S : ~ (<<y, x>> \in R)
  <2> HIDE DEF R
  <2> QED  BY <1>1, WFMin
<1>3. \A y \in S : ~ (y < x)
  BY <1>2 DEF OpToRel
<1> QED  BY <1>3

LEMMA Greatest ==
  ASSUME NEW n \in Nat, NEW S, S \subseteq 1 .. n, S # {}
  PROVE  Max(S) \in S /\ \A y \in S : y <= Max(S)
<1> DEFINE T == {k \in Nat : n - k \in S}
<1>1. T \subseteq Nat /\ T # {}
  <2>1. PICK x \in S : TRUE
    OBVIOUS
  <2>2. n - x \in Nat /\ n - (n - x) = x
    BY <2>1
  <2> QED  BY <2>1, <2>2
<1>2. PICK k \in T : \A y \in T : k <= y
  <2> HIDE DEF T
  <2> QED  BY <1>1, LeastNatural
<1>3. n - k \in S /\ k \in Nat
  BY <1>2
<1>4. ASSUME NEW y \in S  PROVE y <= n - k
  <2>1. n - y \in Nat /\ n - (n - y) = y
    OBVIOUS
  <2>2. k <= n - y
    BY <1>2, <2>1
  <2> QED  BY <1>3, <2>2
<1>5. \E x \in S : \A y \in S : x >= y
  BY <1>3, <1>4
<1> QED  BY <1>5 DEF Max

LEMMA PublishedTypes ==
  ASSUME PublishedState, NEW i \in 1 .. Len(published)
  PROVE  published[i].date \in Int /\ published[i].hour \in Nat
<1> DEFINE P == [date : Int, doc : Docs, hour : Nat]
<1>1. published \in Seq(P)
  BY DEF PublishedState
<1>2. published[i] \in P
  <2> HIDE DEF P
  <2> QED  BY <1>1
<1> QED  BY <1>2

\* The date in UTC-12 is not ahead of the one in UTC-11.
LEMMA DatesAgree ==
  ASSUME hour \in Nat, 12 <= hour
  PROVE  /\ FetchDate \in Nat /\ EsiDate \in Int /\ FetchDate <= EsiDate
         /\ \A h \in Nat : h < hour => (h - 11) \div 24 <= FetchDate
BY DEF FetchDate, EsiDate

LEMMA FetchedIsNewest ==
  ASSUME PublishedState
  PROVE  /\ Fetched \in 1 .. Len(published)
         /\ \A i \in 1 .. Len(published) : published[i].date <= FetchDate => i <= Fetched
<1> DEFINE n == Len(published)
           S == {i \in 1 .. n : published[i].date <= FetchDate}
<1>1. hour \in Nat /\ 12 <= hour /\ n \in Nat /\ n > 0 /\ published[1].date <= 0
  BY DEF PublishedState
<1>2. published[1].date \in Int /\ FetchDate \in Nat /\ ~ FetchDate > EsiDate
  <2>1. 1 \in 1 .. Len(published)
    BY <1>1
  <2> QED  BY <1>1, <2>1, DatesAgree, PublishedTypes
<1>3. DOMAIN published = 1 .. n
  BY DEF PublishedState
<1>4. Fetched = Max(S)
  BY <1>2, <1>3 DEF Fetched, Resolve
<1>5. 1 \in S
  BY <1>1, <1>2
<1>6. S \subseteq 1 .. n
  OBVIOUS
<1>7. Max(S) \in S /\ \A y \in S : y <= Max(S)
  <2> HIDE DEF S, n
  <2> QED  BY <1>1, <1>5, <1>6, Greatest
<1> QED  BY <1>4, <1>7

LEMMA PublishedStays ==
  ASSUME PublishedState, [Next]_vars
  PROVE  PublishedState'
<1>1. hour \in Nat /\ 12 <= hour /\ published \in Seq([date : Int, doc : Docs, hour : Nat])
  BY DEF PublishedState
<1>2. CASE Tick
  <2>1. hour' = hour + 1 /\ published' = published
    BY <1>2 DEF Tick
  <2>2. \A i \in 1 .. Len(published) : published[i].hour <= hour + 1
    BY <1>1, PublishedTypes DEF PublishedState
  <2> QED  BY <1>1, <2>1, <2>2 DEF PublishedState
<1>3. ASSUME NEW doc \in Docs, Publish(doc)  PROVE PublishedState'
  <2> DEFINE P == [date : Int, doc : Docs, hour : Nat]
             new == [date |-> EsiDate, doc |-> doc, hour |-> hour]
  <2>1. /\ new \in P /\ published \in Seq(P) /\ published' = Append(published, new)
        /\ hour' = hour /\ new.hour = hour /\ new.date = (hour - 11) \div 24
    BY <1>1, <1>3 DEF EsiDate, Publish
  <2> HIDE DEF P, new
  <2>2. /\ published' \in Seq(P) /\ Len(published') = Len(published) + 1
        /\ \A i \in 1 .. Len(published) : published'[i] = published[i]
        /\ published'[Len(published) + 1] = new
    BY <2>1
  <2>3. Len(published) \in Nat /\ Len(published) > 0
    BY <1>1 DEF PublishedState
  <2>4. published'[1] = published[1]
    BY <2>2, <2>3
  <2>5. ASSUME NEW i \in 1 .. Len(published')
        PROVE  /\ published'[i].hour <= hour
               /\ published'[i].date <= 0
                    \/ published'[i].date <= (published'[i].hour - 11) \div 24
    <3>1. CASE i \in 1 .. Len(published)
      BY <2>2, <3>1 DEF PublishedState
    <3>2. CASE i = Len(published) + 1
      <4>1. published'[i].hour = hour /\ published'[i].date = (hour - 11) \div 24
        BY <2>1, <2>2, <3>2
      <4>2. hour <= hour
        BY <1>1
      <4>3. published'[i].date <= (published'[i].hour - 11) \div 24
        <5> DEFINE d == (hour - 11) \div 24
        <5>1. d \in Int
          BY <1>1
        <5> HIDE DEF d
        <5>2. d <= d
          BY <5>1
        <5> QED  BY <4>1, <5>2 DEF d
      <4> QED  BY <4>1, <4>2, <4>3
    <3> QED  BY <2>2, <2>3, <3>1, <3>2
  <2> QED  BY <1>1, <2>1, <2>2, <2>3, <2>4, <2>5 DEF PublishedState, P
<1>4. CASE UNCHANGED <<hour, published>>
  BY <1>4 DEF PublishedState
<1>5. (\E c \in Checkers : CheckOut(c) \/ Fetch(c) \/ OpenPr(c) \/ EndCheck(c))
        => UNCHANGED <<hour, published>>
  BY DEF CheckOut, Fetch, OpenPr, EndCheck
<1>6. MergePr \/ MergeOwn \/ Dispatch \/ Advance \/ UNCHANGED vars
        => UNCHANGED <<hour, published>>
  BY DEF MergePr, MergeOwn, Push, Dispatch, Advance, Skip, Start, Compute, Release,
         PushBump, Fail, vars
<1> QED  BY <1>2, <1>3, <1>4, <1>5, <1>6 DEF Next

LEMMA PublishedAlways == Spec => []PublishedState
<1>1. Init => PublishedState
  BY HoursAssumption, DocsAssumption DEF Init, PublishedState
<1> QED  BY <1>1, PublishedStays, PTL DEF Spec

(***************************************************************************)
(* Today in UTC-12 is never ahead of CCP's calendar: whatever the hour and *)
(* whatever CCP has published, a fetch is accepted, and it gets everything *)
(* that was out an hour before.                                            *)
(***************************************************************************)
THEOREM FetchIsCurrent == Spec => []FetchCurrent
<1>1. PublishedState => FetchCurrent
  <2> SUFFICES ASSUME PublishedState  PROVE FetchCurrent
    OBVIOUS
  <2>1. Fetched \in 1 .. Len(published) /\ DOMAIN published = 1 .. Len(published)
    BY FetchedIsNewest DEF PublishedState
  <2>2. ASSUME NEW i \in 1 .. Len(published), published[i].hour < hour
        PROVE  published[i].date <= FetchDate
    <3>1. /\ published[i].date \in Int /\ published[i].hour \in Nat /\ hour \in Nat /\ 12 <= hour
          /\ published[i].date <= 0 \/ published[i].date <= (published[i].hour - 11) \div 24
      BY PublishedTypes DEF PublishedState
    <3> QED  BY <2>2, <3>1 DEF FetchDate
  <2> QED  BY <2>1, <2>2, FetchedIsNewest DEF FetchCurrent
<1> QED  BY <1>1, PublishedAlways, PTL

-----------------------------------------------------------------------------
(* spec-check, and the merges. *)

\* The latest commit, and what is committed on top of it.
LEMMA LastIsCommit ==
  ASSUME ReleaseInv
  PROVE  /\ Last(main) = main[Len(main)] /\ Last(main) \in CommitType
         /\ PreOne => Last(main).declared[1] = 0
<1>1. main \in Seq(CommitType) /\ Len(main) \in 1 .. Len(main)
  BY InvTypes
<1> QED  BY <1>1 DEF Last, ReleaseInv, BelowOne, CommitBelow

LEMMA SpecsAre ==
  ASSUME PublishedState
  PROVE  SpecAt(Fetched) \in SpecType
<1> DEFINE P == [date : Int, doc : Docs, hour : Nat]
<1>1. published \in Seq(P) /\ Fetched \in 1 .. Len(published)
  BY FetchedIsNewest DEF PublishedState
<1>2. published[Fetched] \in P
  <2> HIDE DEF P
  <2> QED  BY <1>1
<1> QED  BY <1>2 DEF SpecAt, SpecType

\* A run of spec-check takes a step.
LEMMA CheckGoesOn ==
  ASSUME ReleaseInv, NEW c \in Checkers, NEW run \in {None} \cup RunType,
         check' = [check EXCEPT ![c] = run],
         UNCHANGED <<hour, published, main, publishing>>,
         pr' = pr \/ (pr' \in PrType /\ pr'.marker = Marker(pr'.base, pr'.spec))
  PROVE  ReleaseInv'
<1>1. CheckState
  BY DEF ReleaseInv
<1>2. (check \in [Checkers -> {None} \cup RunType])'
  BY <1>1 DEF CheckState
<1>3. (pr = None \/ pr \in PrType)'
  BY <1>1 DEF CheckState
<1>4. (pr # None => pr.marker = Marker(pr.base, pr.spec))'
  BY <1>1 DEF CheckState, Marker, Verdicts
<1>5. CheckState'
  BY <1>2, <1>3, <1>4 DEF CheckState
<1>6. hour' \in Nat /\ published' \in Seq([date : Int, doc : Docs, hour : Nat])
  BY InvTypes
<1> QED  BY <1>5, <1>6, Outside

LEMMA CheckOutStep ==
  ASSUME ReleaseInv, NEW c \in Checkers, CheckOut(c)  PROVE ReleaseInv'
<1> DEFINE run == [base |-> Last(main).spec, got |-> None]
<1>1. check' = [check EXCEPT ![c] = run] /\ UNCHANGED <<hour, published, pr, main, publishing>>
  BY DEF CheckOut
<1>2. Last(main).spec \in SpecType
  BY LastIsCommit DEF CommitType
<1>3. run \in RunType
  BY <1>2 DEF RunType
<1> HIDE DEF run
<1> QED  BY <1>1, <1>3, CheckGoesOn

LEMMA FetchStep ==
  ASSUME ReleaseInv, PublishedState, NEW c \in Checkers, Fetch(c)  PROVE ReleaseInv'
<1> DEFINE was == check[c]
           run == [was EXCEPT !.got = SpecAt(Fetched)]
<1>1. check' = [check EXCEPT ![c] = run] /\ UNCHANGED <<hour, published, pr, main, publishing>>
  BY DEF Fetch
<1>2. was \in RunType
  BY DEF Fetch, Fetching, ReleaseInv, CheckState
<1> HIDE DEF was
<1>3. run \in RunType
  BY <1>2, SpecsAre DEF RunType
<1> HIDE DEF run
<1> QED  BY <1>1, <1>3, CheckGoesOn

LEMMA OpenPrStep ==
  ASSUME ReleaseInv, NEW c \in Checkers, OpenPr(c)  PROVE ReleaseInv'
<1> DEFINE run == check[c]
           new == PrOf(run)
<1>1. /\ check' = [check EXCEPT ![c] = None] /\ pr' = new
      /\ UNCHANGED <<hour, published, main, publishing>>
  BY DEF OpenPr
<1>2. run.base \in SpecType /\ run.got \in SpecType
  BY DEF OpenPr, Building, ReleaseInv, CheckState, RunType
<1> HIDE DEF run
<1>3. /\ new = [base |-> run.base, spec |-> run.got, marker |-> Marker(run.base, run.got)]
      /\ Marker(run.base, run.got) \in {"patch", "minor"}
  BY DEF PrOf, Marker
<1> HIDE DEF new
<1>4. new \in PrType /\ new.marker = Marker(new.base, new.spec)
  BY <1>2, <1>3 DEF PrType
<1> QED  BY <1>1, <1>4, CheckGoesOn

LEMMA EndCheckStep ==
  ASSUME ReleaseInv, NEW c \in Checkers, EndCheck(c)  PROVE ReleaseInv'
BY CheckGoesOn DEF EndCheck

\* What breaks, and spec_diff calls so, is marked "minor".
LEMMA MarkerTells ==
  ASSUME AllTyped, NEW old \in SpecType, NEW new \in SpecType,
         Broken[old.doc][new.doc], ~ Unflagged[old.doc][new.doc]
  PROVE  Marker(old, new) = "minor"
<1>1. old.doc \in Docs /\ new.doc \in Docs
  BY DEF SpecType
<1>2. /\ Breaks(Document[old.doc], Document[new.doc])
      /\ ~ Omits(Document[old.doc], Document[new.doc])
      /\ ~ LeavesToReview(Document[old.doc], Document[new.doc])
  BY <1>1 DEF Broken, Unflagged
<1>3. Verdict(Document[old.doc], Document[new.doc]) = Breaking
  BY <1>1, <1>2, BreaksReportedAs DEF AllTyped
<1> QED  BY <1>1, <1>3 DEF Marker, Verdicts

LEMMA BreaksNotItself ==
  ASSUME NEW doc \in Docs
  PROVE  ~ Broken[doc][doc]
BY DEF Broken, Breaks

\* A commit with a break that spec_diff calls so is flagged.
Tells(before, commit) ==
  Broken[before.spec.doc][commit.spec.doc] /\ ~ Unflagged[before.spec.doc][commit.spec.doc]
    => commit.marker \in {"minor", "major"}

LEMMA TellsEach == MarkersTell <=> \A i \in 2 .. Len(main) : Tells(main[i - 1], main[i])
BY DEF MarkersTell, Tells, BreakingCommit, BreaksProgram, Flagged

LEMMA TellsEachPrime ==
  MarkersTell' <=> \A i \in 2 .. Len(main') : Tells(main'[i - 1], main'[i])
BY DEF MarkersTell, Tells, BreakingCommit, BreaksProgram, Flagged, Broken, Unflagged

LEMMA MarkersStay ==
  ASSUME MarkersTell, main \in Seq(CommitType), Len(main) > 0,
         NEW commits \in Seq(CommitType), main' = main \o commits,
         Len(commits) > 0 => Tells(main[Len(main)], commits[1]),
         \A i \in 2 .. Len(commits) : Tells(commits[i - 1], commits[i])
  PROVE  MarkersTell'
<1>1. /\ Len(main) \in Nat /\ Len(commits) \in Nat /\ Len(main') = Len(main) + Len(commits)
      /\ \A i \in 1 .. Len(main) : main'[i] = main[i]
      /\ \A i \in 1 .. Len(commits) : main'[Len(main) + i] = commits[i]
  BY MainGrows
<1> SUFFICES ASSUME NEW i \in 2 .. Len(main')  PROVE Tells(main'[i - 1], main'[i])
  BY TellsEachPrime
<1>2. CASE i <= Len(main)
  <2>1. i \in 2 .. Len(main) /\ i \in 1 .. Len(main) /\ i - 1 \in 1 .. Len(main)
    BY <1>1, <1>2
  <2> QED  BY <1>1, <2>1, TellsEach
<1>3. CASE i = Len(main) + 1
  <2>1. /\ i - 1 = Len(main) /\ Len(main) \in 1 .. Len(main)
        /\ 1 \in 1 .. Len(commits) /\ Len(commits) > 0
    BY <1>1, <1>3
  <2> QED  BY <1>1, <1>3, <2>1
<1>4. CASE i > Len(main) + 1
  <2> DEFINE k == i - Len(main)
  <2>1. /\ k \in 2 .. Len(commits) /\ k \in 1 .. Len(commits) /\ k - 1 \in 1 .. Len(commits)
        /\ Len(main) + k = i /\ Len(main) + (k - 1) = i - 1
    BY <1>1, <1>4
  <2>2. main'[i] = commits[k] /\ main'[i - 1] = commits[k - 1]
    <3> HIDE DEF k
    <3> QED  BY <1>1, <2>1
  <2>3. Tells(commits[k - 1], commits[k])
    <3> HIDE DEF k
    <3> QED  BY <2>1
  <2> QED  BY <2>2, <2>3
<1> QED  BY <1>1, <1>2, <1>3, <1>4

LEMMA PushStep ==
  ASSUME ReleaseInv, NEW commits \in Seq(CommitType), Push(commits), CheckState',
         PreOne => \A i \in 1 .. Len(commits) : CommitBelow(commits[i]),
         AllTyped => /\ Len(commits) > 0 => Tells(main[Len(main)], commits[1])
                     /\ \A i \in 2 .. Len(commits) : Tells(commits[i - 1], commits[i])
  PROVE  ReleaseInv'
<1>1. /\ main' = main \o commits /\ jobs' = Queue(NewJob(Len(main), None))
      /\ lost' = lost \cup Cancelled /\ UNCHANGED <<hour, published, releases, settled>>
  BY DEF Push
<1>2. main \in Seq(CommitType) /\ Len(main) > 0
  BY InvTypes
<1>3. AllTyped => MarkersTell'
  BY <1>1, <1>2, MarkersStay DEF ReleaseInv
<1>4. None \in Levels \cup {None} /\ None # "major"
  BY MergesAssumption
<1> QED  BY <1>1, <1>3, <1>4, Queues

LEMMA CommitIs ==
  ASSUME ReleaseInv, NEW spec \in SpecType, NEW marker \in Levels \cup {"none"}
  PROVE  /\ Commit(spec, marker) \in CommitType
         /\ Commit(spec, marker).spec = spec /\ Commit(spec, marker).marker = marker
         /\ Commit(spec, marker).declared = Last(main).declared
         /\ PreOne /\ marker # "major" => CommitBelow(Commit(spec, marker))
BY LastIsCommit DEF Commit, CommitType, CommitBelow

LEMMA OneCommit ==
  ASSUME NEW c \in CommitType
  PROVE  <<c>> \in Seq(CommitType) /\ Len(<<c>>) = 1 /\ <<c>>[1] = c
OBVIOUS

LEMMA SameSpecTells ==
  ASSUME NEW c \in CommitType, NEW d \in CommitType, c.spec = d.spec
  PROVE  Tells(c, d)
<1>1. c.spec.doc \in Docs
  BY DEF CommitType, SpecType
<1> QED  BY <1>1, BreaksNotItself DEF Tells

LEMMA MergePrStep ==
  ASSUME ReleaseInv, MergePr  PROVE ReleaseInv'
<1> DEFINE c == Commit(pr.spec, pr.marker)
           d == Commit(pr.spec, "none")
<1>1. /\ pr # None /\ pr' = None /\ pr.base = Last(main).spec
      /\ Push(<<c>>) \/ Push(<<c, d>>)
  BY DEF MergePr
<1>2. /\ pr.spec \in SpecType /\ pr.marker \in {"patch", "minor"}
      /\ pr.marker = Marker(pr.base, pr.spec)
  BY <1>1 DEF ReleaseInv, CheckState, PrType
<1>3. /\ c \in CommitType /\ d \in CommitType /\ c.spec = pr.spec /\ d.spec = pr.spec
      /\ c.marker = pr.marker
      /\ PreOne => CommitBelow(c) /\ CommitBelow(d)
  <2>1. pr.marker \in Levels \cup {"none"} /\ pr.marker # "major"
    BY <1>2 DEF Levels
  <2> QED  BY <1>2, <2>1, CommitIs
<1>4. AllTyped => Tells(main[Len(main)], c)
  <2> SUFFICES ASSUME AllTyped, Broken[main[Len(main)].spec.doc][c.spec.doc],
                      ~ Unflagged[main[Len(main)].spec.doc][c.spec.doc]
               PROVE  c.marker \in {"minor", "major"}
    BY DEF Tells
  <2>1. main[Len(main)].spec \in SpecType /\ pr.base = main[Len(main)].spec
    BY <1>1, LastIsCommit DEF CommitType
  <2>2. Marker(main[Len(main)].spec, pr.spec) = "minor"
    BY <1>2, <1>3, <2>1, MarkerTells
  <2> QED  BY <1>2, <1>3, <2>1, <2>2
<1>5. Tells(c, d)
  BY <1>3, SameSpecTells
<1>6. CheckState'
  <2>1. check' = check
    BY <1>1 DEF Push
  <2> QED  BY <1>1, <2>1 DEF ReleaseInv, CheckState
<1> HIDE DEF c, d
<1>7. CASE Push(<<c>>)
  <2>1. \A i : ~ (i \in 1 .. 0) /\ (i \in 1 .. 1 => i = 1) /\ ~ (i \in 2 .. 1)
    OBVIOUS
  <2>2. <<c>> \in Seq(CommitType) /\ Len(<<c>>) = 1 /\ <<c>>[1] = c
    BY <1>3
  <2> DEFINE one == <<c>>
  <2> HIDE DEF one
  <2>3. one \in Seq(CommitType) /\ Len(one) = 1 /\ one[1] = c /\ Push(one)
    BY <1>7, <2>2 DEF one
  <2> QED  BY <1>3, <1>4, <1>6, <2>1, <2>3, PushStep
<1>8. CASE Push(<<c, d>>)
  <2>1. \A i : (i \in 1 .. 2 => i = 1 \/ i = 2) /\ (i \in 2 .. 2 => i = 2 /\ i - 1 = 1)
    OBVIOUS
  <2>2. /\ <<c, d>> \in Seq(CommitType) /\ Len(<<c, d>>) = 2
        /\ <<c, d>>[1] = c /\ <<c, d>>[2] = d
    BY <1>3
  <2> DEFINE two == <<c, d>>
  <2> HIDE DEF two
  <2>3. two \in Seq(CommitType) /\ Len(two) = 2 /\ two[1] = c /\ two[2] = d /\ Push(two)
    BY <1>8, <2>2 DEF two
  <2> QED  BY <1>3, <1>4, <1>5, <1>6, <2>1, <2>3, PushStep
<1> QED  BY <1>1, <1>7, <1>8

\* A commit that leaves the spec as it is.
LEMMA OwnCommit ==
  ASSUME ReleaseInv, NEW c \in CommitType, c.spec = Last(main).spec,
         Push(<<c>>), UNCHANGED pr, PreOne => CommitBelow(c)
  PROVE  ReleaseInv'
<1> DEFINE one == <<c>>
<1>1. one \in Seq(CommitType) /\ Len(one) = 1 /\ one[1] = c
  OBVIOUS
<1>2. main' = main \o one /\ Push(one)
  BY DEF Push
<1> HIDE DEF one
<1>3. main \in Seq(CommitType) /\ Last(main) = main[Len(main)] /\ Last(main) \in CommitType
  BY InvTypes, LastIsCommit
<1>4. CheckState'
  <2>1. UNCHANGED checking
    BY DEF Push, checking
  <2> QED  BY <2>1, CheckStays
<1>6. Tells(main[Len(main)], c)
  BY <1>3, SameSpecTells
<1>7. \A i : (i \in 1 .. 1 => i = 1) /\ ~ (i \in 2 .. 1)
  OBVIOUS
<1> QED  BY <1>1, <1>2, <1>4, <1>6, <1>7, PushStep

LEMMA MergeOwnStep ==
  ASSUME ReleaseInv, MergeOwn  PROVE ReleaseInv'
<1>1. Last(main).spec \in SpecType
  BY LastIsCommit DEF CommitType
<1>2. ASSUME NEW marker \in Markers, Push(<<Commit(Last(main).spec, marker)>>), UNCHANGED pr
      PROVE  ReleaseInv'
  <2>1. marker \in Levels \cup {"none"} /\ (PreOne => marker # "major")
    BY MergesAssumption DEF Levels, PreOne
  <2> DEFINE c == Commit(Last(main).spec, marker)
  <2>2. c \in CommitType /\ c.spec = Last(main).spec /\ (PreOne => CommitBelow(c))
    BY <1>1, <2>1, CommitIs
  <2> HIDE DEF c
  <2>3. Push(<<c>>)
    BY <1>2 DEF c
  <2> QED  BY <1>2, <2>2, <2>3, OwnCommit
<1>3. ASSUME NEW version \in Prepared, UNCHANGED pr,
             Push(<<[Commit(Last(main).spec, "minor") EXCEPT !.declared = version]>>)
      PROVE  ReleaseInv'
  <2>1. version \in Version /\ (PreOne => version[1] = 0)
    BY MergesAssumption DEF Version, PreOne
  <2> DEFINE c == [Commit(Last(main).spec, "minor") EXCEPT !.declared = version]
  <2> DEFINE own == Commit(Last(main).spec, "minor")
  <2>2. own \in CommitType /\ own.spec = Last(main).spec /\ own.marker = "minor"
    BY <1>1, CommitIs DEF Levels
  <2>3. c = [own EXCEPT !.declared = version]
    OBVIOUS
  <2> HIDE DEF c, own
  <2>4. c \in CommitType /\ c.spec = Last(main).spec /\ (PreOne => CommitBelow(c))
    BY <2>1, <2>2, <2>3 DEF CommitType, CommitBelow
  <2>5. Push(<<c>>)
    BY <1>3 DEF c
  <2> QED  BY <1>3, <2>4, <2>5, OwnCommit
<1> QED  BY <1>2, <1>3, Zenon DEF MergeOwn

LEMMA DispatchStep ==
  ASSUME ReleaseInv, Dispatch  PROVE ReleaseInv'
<1>1. PICK level \in Dispatches : jobs' = Queue(NewJob(Len(main), level))
  BY DEF Dispatch
<1>2. UNCHANGED <<hour, published, checking, main, releases, settled>> /\ lost' = lost \cup Cancelled
  BY DEF Dispatch
<1>3. level \in Levels \cup {None} /\ (PreOne => level # "major")
  BY MergesAssumption DEF Levels, PreOne
<1> DEFINE none == << >>
<1>4. none \in Seq(CommitType) /\ Len(none) = 0 /\ main' = main \o none
  BY <1>2, InvTypes
<1> HIDE DEF none
<1>5. CheckState'
  BY <1>2, CheckStays
<1>6. AllTyped => MarkersTell'
  BY <1>2 DEF ReleaseInv, MarkersTell, BreakingCommit, BreaksProgram, Flagged
<1>7. \A i : ~ (i \in 1 .. 0)
  OBVIOUS
<1> QED  BY <1>1, <1>2, <1>3, <1>4, <1>5, <1>6, <1>7, Queues

-----------------------------------------------------------------------------
(* The steps of a run. *)

LEMMA JobTakesStep ==
  ASSUME ReleaseInv, NEW j \in Active, NEW k \in Job, Step(j, k),
         k.stage \in Begun, k.before = j.before,
         UNCHANGED <<hour, published, checking, main, settled, lost>>,
         releases' \in Seq([version : Version, head : Nat, given : Levels \cup {None}]),
         ReleaseState', JobGood(k)',
         PreOne => /\ JobBelow(k) /\ FlagsKept'
                   /\ \A n \in 1 .. Len(releases') : releases'[n].version[1] = 0,
         \A i \in Latest'.head + 1 .. Len(main) : Flagged(i) =>
           i \in lost \/ AwaitedAfter(i) \/ (k.before < i /\ k.stage # "published"),
         \A i \in k.head + 1 .. Len(main) : Flagged(i) => i \in lost \/ AwaitedAfter(i)
  PROVE  ReleaseInv'
<1>1. jobs \subseteq Job /\ OneOfEach /\ k.stage # "pending"
  BY InvTypes DEF Begun
<1>2. /\ jobs' \subseteq Job /\ OneOfEach' /\ jobs' = Pending \cup {k}
      /\ Pending' = Pending /\ Active' = {k}
  BY <1>1, StepGoesOn
<1>3. TypeOK'
  BY <1>2, InvTypes, CheckStays, TypesGiveTypeOK
<1>4. \A n \in Pending : n \in jobs /\ n.stage = "pending"
  BY DEF Pending
<1>5. JobState'
  <2>1. ASSUME NEW n \in Pending  PROVE JobGood(n)'
    <3>1. n.before <= Len(main) /\ n.stage = "pending"
      BY <1>4 DEF ReleaseInv, JobState, JobGood
    <3> QED  BY <3>1 DEF JobGood, Begun
  <2>2. \A n \in Pending : k.before <= n.before
    BY DEF ReleaseInv, JobState
  <2> QED  BY <1>2, <2>1, <2>2 DEF JobState
<1>6. CoverState'
  <2>1. \A i : AwaitedAfter(i)' <=> AwaitedAfter(i)
    BY <1>2 DEF AwaitedAfter
  <2>2. \A i : AwaitedAfter(i) \/ (k.before < i /\ k.stage # "published") => Awaited(i)'
    BY <1>2, <1>4 DEF AwaitedAfter, Awaited
  <2>3. \A i : Flagged(i)' <=> Flagged(i)
    BY DEF Flagged
  <2>4. \A n \in jobs' : n.stage \in Begun => n = k
    BY <1>2, <1>4 DEF Begun
  <2>5. \A i \in Latest'.head + 1 .. Len(main') : Flagged(i)' => i \in lost' \/ Awaited(i)'
    BY <2>2, <2>3
  <2>6. \A i \in k.head + 1 .. Len(main') : Flagged(i)' => i \in lost' \/ AwaitedAfter(i)'
    BY <2>1, <2>3
  <2> QED  BY <2>4, <2>5, <2>6 DEF CoverState
<1>7. ASSUME PreOne  PROVE BelowOne' /\ FlagsKept'
  <2>1. BelowOne
    BY <1>7 DEF ReleaseInv
  <2>2. \A n \in jobs' : JobBelow(n)
    BY <1>2, <1>4, <1>7, <2>1 DEF BelowOne
  <2> QED  BY <1>7, <2>1, <2>2 DEF BelowOne
<1>8. CheckState' /\ (AllTyped => MarkersTell')
  BY CheckStays DEF ReleaseInv, MarkersTell, BreakingCommit, BreaksProgram, Flagged
<1> QED  BY <1>3, <1>5, <1>6, <1>7, <1>8 DEF ReleaseInv

\* The same where no release is made.
LEMMA JobGoesOn ==
  ASSUME ReleaseInv, NEW j \in Active, NEW k \in Job, Step(j, k),
         k.stage \in {"started", "versioned"}, k.before = j.before, j.stage # "published",
         UNCHANGED <<hour, published, checking, main, releases, settled, lost>>,
         JobGood(k), PreOne => JobBelow(k),
         \A i \in k.head + 1 .. Len(main) : Flagged(i) => i \in lost \/ AwaitedAfter(i)
  PROVE  ReleaseInv'
<1>1. /\ releases \in Seq([version : Version, head : Nat, given : Levels \cup {None}])
      /\ k.stage \in Begun /\ k.stage # "published"
  BY InvTypes DEF Begun
<1>2. Latest' = Latest
  BY DEF Latest
<1>3. ReleaseState' /\ JobGood(k)'
  BY <1>2 DEF ReleaseInv, ReleaseState, JobGood, Bears, Flagged
<1>4. ASSUME PreOne
      PROVE  FlagsKept' /\ \A n \in 1 .. Len(releases') : releases'[n].version[1] = 0
  BY <1>4 DEF ReleaseInv, BelowOne, FlagsKept, FlaggedIn, Flagged, Compatible
<1>5. ASSUME NEW i \in Latest.head + 1 .. Len(main), Flagged(i)
      PROVE  i \in lost \/ AwaitedAfter(i) \/ k.before < i
  <2>1. i \in lost \/ Awaited(i)
    BY <1>5 DEF ReleaseInv, CoverState
  <2>2. ASSUME Awaited(i)  PROVE AwaitedAfter(i) \/ k.before < i
    <3>1. PICK n \in jobs : n.before < i /\ n.stage # "published"
      BY <2>2 DEF Awaited
    <3>2. n \in Pending \/ n = j
      BY InvTypes DEF OneOfEach, Active
    <3> QED  BY <3>1, <3>2 DEF AwaitedAfter
  <2> QED  BY <2>1, <2>2
<1> QED  BY <1>1, <1>2, <1>3, <1>4, <1>5, JobTakesStep

\* A run of the list, and what it knows.
LEMMA RunIs ==
  ASSUME ReleaseInv, NEW j \in jobs, j.stage # "pending"
  PROVE  /\ j \in Active /\ j \in Job /\ JobGood(j) /\ (PreOne => JobBelow(j))
<1>1. j \in Job
  BY InvTypes
<1> QED  BY <1>1 DEF Active, Pending, ReleaseInv, JobState, BelowOne

Stages == {"pending", "queued", "started", "versioned", "published"}

LEMMA StageChanges ==
  ASSUME NEW j \in Job, NEW stage \in Stages
  PROVE  LET k == [j EXCEPT !.stage = stage]
         IN  /\ k \in Job /\ k.stage = stage /\ k.before = j.before /\ k.given = j.given
             /\ k.head = j.head /\ k.level = j.level /\ k.next = j.next
BY DEF Job, Stages

LEMMA HeadChanges ==
  ASSUME NEW j \in Job, NEW head \in Nat
  PROVE  LET k == [j EXCEPT !.head = head]
         IN  /\ k \in Job /\ k.stage = j.stage /\ k.before = j.before /\ k.given = j.given
             /\ k.head = head /\ k.level = j.level /\ k.next = j.next
BY DEF Job

LEMMA LevelChanges ==
  ASSUME NEW j \in Job, NEW level \in Levels \cup {None}
  PROVE  LET k == [j EXCEPT !.level = level]
         IN  /\ k \in Job /\ k.stage = j.stage /\ k.before = j.before /\ k.given = j.given
             /\ k.head = j.head /\ k.level = level /\ k.next = j.next
BY DEF Job

LEMMA NextChanges ==
  ASSUME NEW j \in Job, NEW next \in Version \cup {None}
  PROVE  LET k == [j EXCEPT !.next = next]
         IN  /\ k \in Job /\ k.stage = j.stage /\ k.before = j.before /\ k.given = j.given
             /\ k.head = j.head /\ k.level = j.level /\ k.next = next
BY DEF Job

Started(j, head, level) == [j EXCEPT !.stage = "started", !.head = head, !.level = level]

LEMMA RunStarts ==
  ASSUME NEW j \in Job, NEW head \in Nat, NEW level \in Levels \cup {None}
  PROVE  LET k == Started(j, head, level)
         IN  /\ k \in Job /\ k.stage = "started" /\ k.before = j.before /\ k.given = j.given
             /\ k.head = head /\ k.level = level
<1> DEFINE a == [j EXCEPT !.stage = "started"]
           b == [a EXCEPT !.head = head]
           c == [b EXCEPT !.level = level]
<1>1. a \in Job /\ a.stage = "started" /\ a.before = j.before /\ a.given = j.given
  BY StageChanges DEF Stages
<1>2. b \in Job /\ b.stage = a.stage /\ b.before = a.before /\ b.given = a.given /\ b.head = head
  <2> HIDE DEF a
  <2> QED  BY <1>1, HeadChanges
<1>3. /\ c \in Job /\ c.stage = b.stage /\ c.before = b.before /\ c.given = b.given
      /\ c.head = b.head /\ c.level = level
  <2> HIDE DEF b
  <2> QED  BY <1>2, LevelChanges
<1>4. c = Started(j, head, level)
  BY DEF Started
<1> HIDE DEF a, b, c
<1> QED  BY <1>1, <1>2, <1>3, <1>4

LEMMA RunIsVersioned ==
  ASSUME NEW j \in Job, NEW next \in Version \cup {None}
  PROVE  LET k == [j EXCEPT !.stage = "versioned", !.next = next]
         IN  /\ k \in Job /\ k.stage = "versioned" /\ k.before = j.before /\ k.given = j.given
             /\ k.head = j.head /\ k.level = j.level /\ k.next = next
<1> DEFINE a == [j EXCEPT !.stage = "versioned"]
           c == [a EXCEPT !.next = next]
<1>1. /\ a \in Job /\ a.stage = "versioned" /\ a.before = j.before /\ a.given = j.given
      /\ a.head = j.head /\ a.level = j.level
  BY StageChanges DEF Stages
<1>2. /\ c \in Job /\ c.stage = a.stage /\ c.before = a.before /\ c.given = a.given
      /\ c.head = a.head /\ c.level = a.level /\ c.next = next
  <2> HIDE DEF a
  <2> QED  BY <1>1, NextChanges
<1>3. c = [j EXCEPT !.stage = "versioned", !.next = next]
  OBVIOUS
<1> HIDE DEF a, c
<1> QED  BY <1>1, <1>2, <1>3

LEMMA StartStep ==
  ASSUME ReleaseInv, NEW j \in jobs, Start(j)  PROVE ReleaseInv'
<1> DEFINE level == Level(j)
           head == Len(main)
           k == Started(j, head, level)
<1>1. /\ j.stage = "queued" /\ level # "skip"
      /\ UNCHANGED <<hour, published, checking, main, releases, settled, lost>>
      /\ Step(j, k)
  BY DEF Start, Started
<1>2. /\ j \in Active /\ j \in Job /\ JobGood(j) /\ (PreOne => JobBelow(j))
  BY <1>1, RunIs
<1>4. j.given \in Levels \cup {None}
  BY <1>2 DEF Job
<1>5. level \in {"patch", "minor", "major"}
  BY <1>1, <1>4 DEF Level, Levels
<1>6. main \in Seq(CommitType) /\ Len(main) \in Nat /\ Len(main) > 0
  BY InvTypes
<1>7. ASSUME j.given = None, NEW i \in j.before + 1 .. Len(main), Flagged(i)
      PROVE  level \in {"minor", "major"}
  <2>1. main[i].marker \in Messages(j)
    BY DEF Messages
  <2> QED  BY <1>1, <1>7, <2>1 DEF Level, Flagged
<1>8. ASSUME PreOne  PROVE level # "major"
  <2>1. BelowOne /\ j.given # "major" /\ j.before \in Nat
    BY <1>2, <1>8 DEF ReleaseInv, JobBelow, Job
  <2>2. "major" \notin Messages(j)
    <3> SUFFICES ASSUME NEW i \in j.before + 1 .. Len(main), main[i].marker = "major"
                 PROVE  FALSE
      BY DEF Messages
    <3>1. i \in 1 .. Len(main)
      BY <1>6, <2>1
    <3> QED  BY <2>1, <3>1 DEF BelowOne, CommitBelow
  <2> QED  BY <2>1, <2>2 DEF Level
<1> HIDE DEF level
<1>10. /\ k \in Job /\ k.stage = "started" /\ k.before = j.before /\ k.head = Len(main)
       /\ k.given = j.given /\ k.level = level
  <2>1. level \in Levels \cup {None} /\ head \in Nat /\ j \in Job
    BY <1>2, <1>5, <1>6 DEF Levels
  <2> QED  BY <2>1, RunStarts
<1> HIDE DEF k
<1>11. JobGood(k)
  <2>1. Bears(k) => level \in {"minor", "major"}
    BY <1>7, <1>10 DEF Bears
  <2>2. j.before <= Len(main) /\ k.head \in 1 .. Len(main)
    BY <1>2, <1>6, <1>10 DEF JobGood
  <2> QED  BY <1>5, <1>10, <2>1, <2>2 DEF JobGood, Begun
<1>12. PreOne => JobBelow(k)
  BY <1>2, <1>8, <1>10 DEF JobBelow
<1>13. \A i : ~ (i \in k.head + 1 .. Len(main))
  BY <1>6, <1>10
<1> QED  BY <1>1, <1>2, <1>10, <1>11, <1>12, <1>13, JobGoesOn

LEMMA LatestIs ==
  ASSUME ReleaseInv
  PROVE  /\ Last(releases) = Latest /\ Len(releases) \in Nat /\ Len(releases) > 0
         /\ Latest.version \in Version
         /\ PreOne => Latest.version[1] = 0
<1> DEFINE R == [version : Version, head : Nat, given : Levels \cup {None}]
<1>1. releases \in Seq(R) /\ Len(releases) \in 1 .. Len(releases)
  BY InvTypes DEF ReleaseInv, ReleaseState
<1>2. releases[Len(releases)] \in R
  <2> HIDE DEF R
  <2> QED  BY <1>1
<1>3. PreOne => Latest.version[1] = 0
  BY <1>1 DEF ReleaseInv, BelowOne, Latest
<1> QED  BY <1>1, <1>2, <1>3 DEF Last, Latest

LEMMA ComputeStep ==
  ASSUME ReleaseInv, NEW j \in jobs, Compute(j)  PROVE ReleaseInv'
<1> DEFINE next == NextVersion(j)
           k == [j EXCEPT !.stage = "versioned", !.next = next]
<1>1. /\ j.stage = "started"
      /\ UNCHANGED <<hour, published, checking, main, releases, settled, lost>>
      /\ Step(j, k)
  BY DEF Compute
<1>2. /\ j \in Active /\ j \in Job /\ JobGood(j) /\ (PreOne => JobBelow(j))
  BY <1>1, RunIs
<1>4. /\ j.head \in 1 .. Len(main) /\ j.level \in {"patch", "minor", "major"}
      /\ j.before <= Len(main) /\ (Bears(j) => j.level \in {"minor", "major"})
  BY <1>1, <1>2 DEF JobGood, Begun
<1>5. /\ next \in Version /\ Exceeds(next, Latest.version)
      /\ Latest.version[1] = 0 /\ main[j.head].declared[1] = 0 /\ j.level # "major"
           => /\ next[1] = 0
              /\ j.level = "minor" => ~ CargoCompatible(Latest.version, next)
  BY <1>4, LatestIs, VersionGoesOn DEF ReleaseInv
<1>6. ASSUME PreOne
      PROVE  /\ next[1] = 0 /\ j.level # "major" /\ j.given # "major"
             /\ j.level = "minor" => ~ CargoCompatible(Latest.version, next)
  <2>1. j.level # "major" /\ j.given # "major"
    BY <1>1, <1>2, <1>6 DEF JobBelow, Begun
  <2>2. main[j.head].declared[1] = 0
    BY <1>4, <1>6 DEF ReleaseInv, BelowOne, CommitBelow
  <2> QED  BY <1>5, <1>6, <2>1, <2>2, LatestIs
<1> HIDE DEF next
<1>8. /\ k \in Job /\ k.stage = "versioned" /\ k.before = j.before /\ k.head = j.head
      /\ k.given = j.given /\ k.level = j.level /\ k.next = next
  BY <1>2, <1>5, RunIsVersioned
<1> HIDE DEF k
<1>9. Bears(k) <=> Bears(j)
  BY <1>8 DEF Bears
<1>10. JobGood(k)
  <2>1. PreOne /\ Bears(k) => ~ CargoCompatible(Latest.version, k.next)
    BY <1>4, <1>6, <1>8, <1>9
  <2> QED  BY <1>4, <1>5, <1>8, <2>1 DEF JobGood, Begun
<1>11. PreOne => JobBelow(k)
  BY <1>6, <1>8 DEF JobBelow
<1>12. \A i \in k.head + 1 .. Len(main) : Flagged(i) => i \in lost \/ AwaitedAfter(i)
  BY <1>1, <1>8 DEF ReleaseInv, CoverState, Begun
<1> QED  BY <1>1, <1>2, <1>8, <1>10, <1>11, <1>12, JobGoesOn

LEMMA ReleaseStep ==
  ASSUME ReleaseInv, NEW j \in jobs, Release(j)  PROVE ReleaseInv'
<1> DEFINE R == [version : Version, head : Nat, given : Levels \cup {None}]
           new == [version |-> j.next, head |-> j.head, given |-> j.given]
           k == [j EXCEPT !.stage = "published"]
           n == Len(releases)
<1>1. /\ j.stage = "versioned" /\ releases' = Append(releases, new) /\ Step(j, k)
      /\ UNCHANGED <<hour, published, checking, main, settled, lost>>
  BY DEF Release
<1>2. /\ j \in Active /\ j \in Job /\ JobGood(j) /\ (PreOne => JobBelow(j))
  BY <1>1, RunIs
<1>3. /\ k \in Job /\ k.stage = "published" /\ k.before = j.before /\ k.given = j.given
      /\ k.head = j.head /\ k.level = j.level /\ k.next = j.next
  BY <1>2, StageChanges DEF Stages
<1> HIDE DEF k
<1>4. /\ j.next \in Version /\ j.head \in 1 .. Len(main) /\ j.before \in Nat
      /\ j.before <= Len(main)
      /\ PreOne /\ Bears(j) => ~ CargoCompatible(Latest.version, j.next)
  BY <1>1, <1>2 DEF JobGood, Begun, Job
<1>5. j.level \in {"patch", "minor", "major"}
  BY <1>1, <1>2 DEF JobGood, Begun
<1>6. /\ new \in R /\ new.version = j.next /\ new.head = j.head /\ new.given = j.given
      /\ releases \in Seq(R) /\ n \in Nat /\ n > 0 /\ Len(main) \in Nat
  BY <1>2, <1>4, InvTypes DEF Job, ReleaseInv, ReleaseState
<1> HIDE DEF new, R
<1>7. /\ releases' \in Seq(R) /\ Len(releases') = n + 1 /\ releases'[n + 1] = new
      /\ \A m \in 1 .. n : releases'[m] = releases[m]
  BY <1>1, <1>6
<1>8. Latest' = new /\ Latest = releases[n]
  BY <1>7 DEF Latest
<1>9. ReleaseState'
  <2>1. ASSUME NEW m \in 1 .. n + 1  PROVE releases'[m].head \in 1 .. Len(main)
    <3>1. CASE m \in 1 .. n
      BY <1>7, <3>1 DEF ReleaseInv, ReleaseState
    <3>2. CASE m = n + 1
      BY <1>4, <1>6, <1>7, <3>2
    <3> QED  BY <1>6, <3>1, <3>2
  <2> QED  BY <1>1, <1>6, <1>7, <2>1 DEF ReleaseState
<1>10. JobGood(k)'
  <2>1. k.before <= Len(main') /\ k.head \in 1 .. Len(main')
    BY <1>1, <1>3, <1>4
  <2> QED  BY <1>3, <1>4, <1>5, <1>6, <1>8, <2>1 DEF JobGood
<1>11. ASSUME NEW i \in j.head + 1 .. Len(main), Flagged(i)  PROVE i \in lost \/ AwaitedAfter(i)
  BY <1>1, <1>11 DEF ReleaseInv, CoverState, Begun
<1>12. ASSUME NEW i \in Latest.head + 1 .. j.head, Flagged(i), i \notin lost
       PROVE  \E m \in j.before + 1 .. j.head : Flagged(m)
  <2>1. Latest.head \in 1 .. Len(main)
    <3>1. n \in 1 .. n
      BY <1>6
    <3> QED  BY <1>8, <3>1 DEF ReleaseInv, ReleaseState
  <2>2. i \in Latest.head + 1 .. Len(main)
    BY <1>4, <1>6, <2>1
  <2>3. PICK m \in jobs : m.before < i
    BY <1>12, <2>2 DEF ReleaseInv, CoverState, Awaited
  <2>4. j.before <= m.before /\ m.before \in Nat
    <3>1. m \in Pending \/ m = j
      BY <1>2, InvTypes DEF OneOfEach, Active
    <3>2. m.before \in Nat
      BY InvTypes DEF Job
    <3> QED  BY <1>2, <1>4, <3>1, <3>2 DEF ReleaseInv, JobState
  <2>5. i \in j.before + 1 .. j.head
    BY <1>4, <2>1, <2>3, <2>4
  <2> QED  BY <1>12, <2>5
<1>13. ASSUME PreOne
       PROVE  /\ JobBelow(k) /\ FlagsKept'
              /\ \A m \in 1 .. Len(releases') : releases'[m].version[1] = 0
  <2>1. JobBelow(k) /\ j.next[1] = 0
    BY <1>1, <1>2, <1>3, <1>13 DEF JobBelow, Begun
  <2>2. BelowOne /\ FlagsKept
    BY <1>13 DEF ReleaseInv
  <2>3. ASSUME NEW m \in 1 .. n + 1  PROVE releases'[m].version[1] = 0
    <3>1. CASE m \in 1 .. n
      BY <1>7, <2>2, <3>1 DEF BelowOne
    <3>2. CASE m = n + 1
      BY <1>6, <1>7, <2>1, <3>2
    <3> QED  BY <1>6, <3>1, <3>2
  <2>4. ASSUME NEW m \in 2 .. n + 1, Compatible(m)', NEW i \in FlaggedIn(m)'  PROVE i \in lost
    <3>1. /\ releases'[m].given = None
          /\ CargoCompatible(releases'[m - 1].version, releases'[m].version)
          /\ i \in releases'[m - 1].head + 1 .. releases'[m].head /\ Flagged(i)
      BY <1>1, <2>4 DEF Compatible, FlaggedIn, Flagged
    <3>2. CASE m \in 2 .. n
      <4>1. m \in 1 .. n /\ m - 1 \in 1 .. n
        BY <1>6, <3>2
      <4>2. releases'[m] = releases[m] /\ releases'[m - 1] = releases[m - 1]
        BY <1>7, <4>1
      <4>3. Compatible(m) /\ i \in FlaggedIn(m)
        BY <3>1, <4>2 DEF Compatible, FlaggedIn
      <4> QED  BY <2>2, <3>2, <4>3 DEF FlagsKept
    <3>3. CASE m = n + 1
      <4>1. m - 1 = n /\ n \in 1 .. n
        BY <1>6, <3>3
      <4>2. releases'[m] = new /\ releases'[m - 1] = Latest
        BY <1>7, <1>8, <3>3, <4>1
      <4>3. /\ j.given = None /\ CargoCompatible(Latest.version, j.next)
            /\ i \in Latest.head + 1 .. j.head
        BY <1>6, <3>1, <4>2
      <4>4. ~ Bears(j)
        BY <1>4, <1>13, <4>3
      <4> QED  BY <1>12, <3>1, <4>3, <4>4 DEF Bears
    <3> QED  BY <1>6, <3>2, <3>3
  <2>5. FlagsKept'
    BY <1>1, <1>7, <2>4, Zenon DEF FlagsKept
  <2> QED  BY <1>7, <2>1, <2>3, <2>5
<1>14. k.stage \in Begun
  BY <1>3 DEF Begun
<1> QED  BY <1>1, <1>2, <1>3, <1>6, <1>7, <1>8, <1>9, <1>10, <1>11, <1>13, <1>14, JobTakesStep DEF R

-----------------------------------------------------------------------------
(* The ends of a run. *)

LEMMA JobEnds ==
  ASSUME ReleaseInv, NEW j \in Active, NEW head \in 1 .. Len(main'), End(j, head),
         NEW commits \in Seq(CommitType), main' = main \o commits,
         UNCHANGED <<hour, published, checking, releases>>, lost \subseteq lost', lost' \subseteq Nat,
         \A i \in 1 .. Len(commits) : commits[i].marker = "none",
         PreOne => \A i \in 1 .. Len(commits) : CommitBelow(commits[i]),
         AllTyped => MarkersTell',
         \A i \in Latest.head + 1 .. Len(main) : Flagged(i) => i \in lost' \/ AwaitedAfter(i)
  PROVE  ReleaseInv'
<1>1. /\ main \in Seq(CommitType) /\ jobs \subseteq Job /\ OneOfEach
      /\ releases \in Seq([version : Version, head : Nat, given : Levels \cup {None}])
      /\ settled \in 1 .. Len(main) /\ Len(main) \in Nat
  BY InvTypes
<1>2. /\ main' \in Seq(CommitType) /\ Len(main') \in Nat /\ Len(main) <= Len(main')
      /\ \A i \in 1 .. Len(main) : main'[i] = main[i]
      /\ \A i \in Len(main) + 1 .. Len(main') :
           i - Len(main) \in 1 .. Len(commits) /\ main'[i] = commits[i - Len(main)]
  BY <1>1, MainGrows
<1>3. /\ jobs' = (Active \ {j}) \cup {Admitted(k) : k \in Pending}
      /\ settled' = Max({settled, head})
  BY DEF End
<1>4. /\ jobs' \subseteq Job /\ OneOfEach' /\ Pending' = {}
      /\ \A n \in jobs' : \E k \in Pending :
           n.stage = "queued" /\ n.before = k.before /\ n.given = k.given /\ n.level = k.level
      /\ \A k \in Pending : \E n \in jobs' : n.before = k.before /\ n.stage = "queued"
  BY <1>1, <1>3, EndAdmits
<1>5. (settled \in 1 .. Len(main))'
  <2>1. settled \in Nat /\ head \in Nat
    BY <1>1, <1>2
  <2> QED  BY <1>1, <1>2, <1>3, <2>1, MaxOfTwo
<1>6. TypeOK'
  BY <1>1, <1>2, <1>4, <1>5, InvTypes, CheckStays, TypesGiveTypeOK
<1>7. /\ ReleaseState' /\ Latest' = Latest /\ Latest.head \in 1 .. Len(main)
      /\ FlagsKept => FlagsKept'
  BY <1>1, ReleasesStay DEF ReleaseInv
<1>8. \A k \in Pending : k \in jobs /\ k.before <= Len(main)
  BY DEF Pending, ReleaseInv, JobState, JobGood
<1>9. JobState'
  <2>1. ASSUME NEW n \in jobs'  PROVE JobGood(n)'
    <3>1. PICK k \in Pending : n.stage = "queued" /\ n.before = k.before
      BY <1>4
    <3>2. k.before \in Nat /\ k.before <= Len(main')
      BY <1>1, <1>2, <1>8 DEF Job
    <3> QED  BY <3>1, <3>2 DEF JobGood, Begun
  <2> QED  BY <1>4, <2>1 DEF JobState
<1>10. ASSUME NEW i \in Latest.head + 1 .. Len(main'), Flagged(i)'
       PROVE  i \in lost' \/ Awaited(i)'
  <2>1. CASE i > Len(main)
    <3>1. main'[i].marker = "none"
      BY <1>1, <1>2, <1>7, <2>1
    <3> QED  BY <1>10, <3>1 DEF Flagged
  <2>2. CASE ~ (i > Len(main))
    <3>1. i \in 1 .. Len(main) /\ i \in Latest.head + 1 .. Len(main)
      BY <1>1, <1>2, <1>7, <2>2
    <3>2. i \in lost' \/ AwaitedAfter(i)
      BY <1>1, <1>10, <3>1, FlagsStay
    <3> QED  BY <1>4, <3>2 DEF AwaitedAfter, Awaited
  <2> QED  BY <2>1, <2>2
<1>11. CoverState'
  <2>1. \A n \in jobs' : n.stage \notin Begun
    BY <1>4 DEF Begun
  <2> QED  BY <1>7, <1>10, <2>1 DEF CoverState
<1>12. ASSUME PreOne  PROVE BelowOne' /\ FlagsKept'
  <2>1. BelowOne /\ FlagsKept
    BY <1>12 DEF ReleaseInv
  <2>2. ASSUME NEW i \in 1 .. Len(main')  PROVE CommitBelow(main'[i])
    <3>1. CASE i \in 1 .. Len(main)
      BY <1>2, <2>1, <3>1 DEF BelowOne
    <3>2. CASE i \in Len(main) + 1 .. Len(main')
      BY <1>2, <1>12, <3>2
    <3> QED  BY <1>1, <1>2, <3>1, <3>2
  <2>3. ASSUME NEW n \in jobs'  PROVE JobBelow(n)
    <3>1. PICK k \in Pending : n.stage = "queued" /\ n.given = k.given
      BY <1>4
    <3>2. JobBelow(k)
      BY <1>8, <2>1 DEF BelowOne
    <3> QED  BY <3>1, <3>2 DEF JobBelow, Begun
  <2> QED  BY <1>7, <2>1, <2>2, <2>3 DEF BelowOne
<1> QED  BY <1>6, <1>7, <1>9, <1>11, <1>12, CheckStays DEF ReleaseInv

\* A run ends and main stays as it is.
LEMMA JobEndsPlainly ==
  ASSUME ReleaseInv, NEW j \in Active, NEW head \in 1 .. Len(main), End(j, head),
         UNCHANGED <<hour, published, checking, main, releases>>,
         lost \subseteq lost', lost' \subseteq Nat,
         \A i \in Latest.head + 1 .. Len(main) : Flagged(i) => i \in lost' \/ AwaitedAfter(i)
  PROVE  ReleaseInv'
<1> DEFINE none == << >>
<1>1. /\ none \in Seq(CommitType) /\ main' = main \o none
      /\ \A i : ~ (i \in 1 .. Len(none))
  BY InvTypes
<1> HIDE DEF none
<1>2. AllTyped => MarkersTell'
  BY DEF ReleaseInv, MarkersTell, BreakingCommit, BreaksProgram, Flagged
<1>3. head \in 1 .. Len(main')
  OBVIOUS
<1> QED  BY <1>1, <1>2, <1>3, JobEnds

\* What a run was for is lost or awaits the next.
LEMMA AwaitsNext ==
  ASSUME ReleaseInv, NEW j \in Active, NEW i \in Latest.head + 1 .. Len(main), Flagged(i)
  PROVE  i \in lost \/ AwaitedAfter(i) \/ (j.before < i /\ j.stage # "published")
<1>1. i \in lost \/ Awaited(i)
  BY DEF ReleaseInv, CoverState
<1>2. ASSUME Awaited(i)  PROVE AwaitedAfter(i) \/ (j.before < i /\ j.stage # "published")
  <2>1. PICK n \in jobs : n.before < i /\ n.stage # "published"
    BY <1>2 DEF Awaited
  <2>2. n \in Pending \/ n = j
    BY InvTypes DEF OneOfEach, Active
  <2> QED  BY <2>1, <2>2 DEF AwaitedAfter
<1> QED  BY <1>1, <1>2

LEMMA LatestHead == ReleaseInv => Latest.head \in 1 .. Len(main)
<1> SUFFICES ASSUME ReleaseInv  PROVE Latest.head \in 1 .. Len(main)
  OBVIOUS
<1>1. Len(releases) \in 1 .. Len(releases)
  BY InvTypes DEF ReleaseInv, ReleaseState
<1> QED  BY <1>1 DEF ReleaseInv, ReleaseState, Latest

LEMMA SkipStep ==
  ASSUME ReleaseInv, NEW j \in jobs, Skip(j)  PROVE ReleaseInv'
<1>1. /\ j.stage = "queued" /\ End(j, Len(main)) /\ lost' = lost \cup (j.before + 1 .. Len(main))
      /\ UNCHANGED <<hour, published, checking, main, releases>>
  BY DEF Skip, Unreleased
<1>2. j \in Active /\ j.before \in Nat
  BY <1>1, RunIs DEF Job
<1>3. Len(main) \in 1 .. Len(main) /\ lost \subseteq Nat
  BY InvTypes
<1>4. lost \subseteq lost' /\ lost' \subseteq Nat
  <2>1. j.before + 1 .. Len(main) \subseteq Nat
    BY <1>2, <1>3
  <2> QED  BY <1>1, <1>3, <2>1, Zenon
<1>5. ASSUME NEW i \in Latest.head + 1 .. Len(main), Flagged(i)
      PROVE  i \in lost' \/ AwaitedAfter(i)
  <2>1. i \in lost \/ AwaitedAfter(i) \/ j.before < i
    BY <1>2, <1>5, AwaitsNext
  <2>2. Latest.head \in 1 .. Len(main)
    BY LatestHead
  <2>3. j.before < i => i \in j.before + 1 .. Len(main)
    BY <1>2, <1>3, <2>2
  <2> QED  BY <1>1, <2>1, <2>3
<1> QED  BY <1>1, <1>2, <1>3, <1>4, <1>5, JobEndsPlainly

LEMMA FailStep ==
  ASSUME ReleaseInv, NEW j \in jobs, Fail(j)  PROVE ReleaseInv'
<1>1. /\ j.stage \in {"started", "versioned"} /\ End(j, j.head)
      /\ lost' = lost \cup (j.before + 1 .. j.head)
      /\ UNCHANGED <<hour, published, checking, main, releases>>
  BY DEF Fail
<1>2. j \in Active /\ j.before \in Nat /\ j.head \in 1 .. Len(main) /\ j.stage \in Begun
  BY <1>1, RunIs DEF Job, JobGood, Begun
<1>3. Len(main) \in Nat /\ lost \subseteq Nat
  BY InvTypes
<1>4. lost \subseteq lost' /\ lost' \subseteq Nat
  <2>1. j.before + 1 .. j.head \subseteq Nat
    BY <1>2, <1>3
  <2> QED  BY <1>1, <1>3, <2>1, Zenon
<1>5. ASSUME NEW i \in Latest.head + 1 .. Len(main), Flagged(i)
      PROVE  i \in lost' \/ AwaitedAfter(i)
  <2>1. i \in lost \/ AwaitedAfter(i) \/ j.before < i
    BY <1>2, <1>5, AwaitsNext
  <2>2. Latest.head \in 1 .. Len(main)
    BY LatestHead
  <2>3. CASE i > j.head
    <3>1. i \in j.head + 1 .. Len(main)
      BY <1>2, <1>3, <2>2, <2>3
    <3> QED  BY <1>2, <1>4, <1>5, <3>1 DEF ReleaseInv, CoverState
  <2>4. CASE ~ (i > j.head)
    <3>1. j.before < i => i \in j.before + 1 .. j.head
      BY <1>2, <1>3, <2>2, <2>4
    <3> QED  BY <1>1, <2>1, <3>1
  <2> QED  BY <2>3, <2>4
<1> QED  BY <1>1, <1>2, <1>4, <1>5, JobEndsPlainly

LEMMA PushBumpStep ==
  ASSUME ReleaseInv, NEW j \in jobs, PushBump(j)  PROVE ReleaseInv'
<1>1. j.stage = "published" /\ UNCHANGED <<hour, published, checking, releases, lost>>
  BY DEF PushBump
<1>2. /\ j \in Active /\ j.head \in 1 .. Len(main) /\ j.stage \in Begun
      /\ j.next \in Version /\ Latest.head = j.head
      /\ PreOne => j.next[1] = 0
  BY <1>1, RunIs DEF JobGood, JobBelow, Begun
<1>3. Len(main) \in Nat /\ lost \subseteq Nat /\ main \in Seq(CommitType)
  BY InvTypes
<1>4. \A i \in Latest.head + 1 .. Len(main) : Flagged(i) => i \in lost' \/ AwaitedAfter(i)
  BY <1>1, <1>2 DEF ReleaseInv, CoverState
<1>5. lost \subseteq lost' /\ lost' \subseteq Nat
  BY <1>1, <1>3
<1>6. CASE End(j, j.head) /\ UNCHANGED main
  BY <1>1, <1>2, <1>4, <1>5, <1>6, JobEndsPlainly
<1> DEFINE own == Commit(Last(main).spec, "none")
           c == [own EXCEPT !.declared = j.next]
           one == <<c>>
<1>7. CASE Len(main) = j.head /\ main' = Append(main, c) /\ End(j, j.head + 1)
  <2>1. Last(main).spec \in SpecType /\ Last(main) \in CommitType /\ Last(main) = main[Len(main)]
    BY LastIsCommit DEF CommitType
  <2>2. own \in CommitType /\ own.spec = Last(main).spec /\ own.marker = "none"
    BY <2>1, CommitIs
  <2> HIDE DEF own
  <2>3. /\ c \in CommitType /\ c.spec = Last(main).spec /\ c.marker = "none"
        /\ c.declared = j.next
    BY <1>2, <2>2 DEF CommitType
  <2>4. main' = Append(main, c) /\ End(j, j.head + 1) /\ Len(main) = j.head
    BY <1>7 DEF own
  <2> HIDE DEF c
  <2>5. /\ one \in Seq(CommitType) /\ Len(one) = 1 /\ one[1] = c /\ main' = main \o one
    BY <1>3, <2>3, <2>4
  <2> HIDE DEF one
  <2>6. \A i : (i \in 1 .. Len(one) => one[i] = c) /\ ~ (i \in 2 .. Len(one))
    BY <2>5
  <2>7. CommitBelow(c) \/ ~ PreOne
    BY <1>2, <2>3 DEF CommitBelow
  <2>8. /\ Len(main') = Len(main) + 1 /\ main'[Len(main')] = c
    BY <1>3, <2>3, <2>4
  <2>10. AllTyped => MarkersTell'
    <3>1. Tells(main[Len(main)], c)
      BY <2>1, <2>3, SameSpecTells
    <3>2. Len(main) > 0
      BY <1>2, <1>3
    <3> QED  BY <1>3, <2>5, <2>6, <3>1, <3>2, MarkersStay DEF ReleaseInv
  <2>11. j.head + 1 \in 1 .. Len(main')
    BY <1>3, <2>4, <2>8
  <2> QED  BY <1>1, <1>2, <1>4, <1>5, <2>3, <2>4, <2>5, <2>6, <2>7, <2>10, <2>11, JobEnds
<1> QED  BY <1>6, <1>7 DEF PushBump

-----------------------------------------------------------------------------
(* The invariant, and what follows from it. *)

LEMMA InitHolds == Init => ReleaseInv
<1> SUFFICES ASSUME Init  PROVE ReleaseInv
  OBVIOUS
<1> DEFINE spec == [date |-> 0, doc |-> FirstDoc]
           first == [spec |-> spec, marker |-> "none", declared |-> FirstVersion]
           release == [version |-> FirstVersion, head |-> 1, given |-> None]
           out == [date |-> 0, doc |-> FirstDoc, hour |-> 0]
           R == [version : Version, head : Nat, given : Levels \cup {None}]
           P == [date : Int, doc : Docs, hour : Nat]
<1>1. /\ hour = FirstHour /\ published = <<out>> /\ main = <<first>>
      /\ jobs = {} /\ releases = <<release>> /\ settled = 1 /\ lost = {}
      /\ check = [c \in Checkers |-> None] /\ pr = None
  BY DEF Init
<1>2. FirstVersion \in Version /\ FirstVersion[1] = 0
  BY DEF FirstVersion, Version
<1>3. /\ first \in CommitType /\ first.marker = "none" /\ first.declared = FirstVersion
      /\ release \in R /\ release.version = FirstVersion /\ release.head = 1
      /\ out \in P
  BY <1>2, DocsAssumption DEF CommitType, SpecType
<1> HIDE DEF first, release, R, out, P
<1>4. /\ main \in Seq(CommitType) /\ Len(main) = 1 /\ main[1] = first /\ DOMAIN main = 1 .. 1
      /\ releases \in Seq(R) /\ Len(releases) = 1 /\ releases[1] = release
      /\ published \in Seq(P)
  BY <1>1, <1>3
<1>5. \A i : (i \in 1 .. 1 <=> i = 1) /\ ~ (i \in 2 .. 1) /\ ~ (i \in 1 + 1 .. 1)
  OBVIOUS
<1>6. TypeOK
  BY <1>1, <1>4, <1>5, HoursAssumption DEF TypeOK, R, P
<1>7. ReleaseState /\ JobState
  BY <1>1, <1>3, <1>4, <1>5 DEF ReleaseState, JobState, Active, Pending
<1>8. CoverState
  BY <1>1, <1>3, <1>4, <1>5 DEF CoverState, Latest
<1>9. BelowOne
  BY <1>1, <1>2, <1>3, <1>4, <1>5 DEF BelowOne, CommitBelow
<1>10. FlagsKept /\ MarkersTell
  BY <1>1, <1>4, <1>5 DEF FlagsKept, MarkersTell
<1>11. CheckState
  BY <1>1 DEF CheckState
<1> QED  BY <1>6, <1>7, <1>8, <1>9, <1>10, <1>11 DEF ReleaseInv

LEMMA NextHolds ==
  ASSUME ReleaseInv, PublishedState, [Next]_vars
  PROVE  ReleaseInv'
<1>1. CASE Tick
  BY <1>1, TickStep
<1>2. CASE \E doc \in Docs : Publish(doc)
  BY <1>2, PublishStep
<1>3. ASSUME NEW c \in Checkers, CheckOut(c) \/ Fetch(c) \/ OpenPr(c) \/ EndCheck(c)
      PROVE  ReleaseInv'
  BY <1>3, CheckOutStep, FetchStep, OpenPrStep, EndCheckStep
<1>4. CASE MergePr
  BY <1>4, MergePrStep
<1>5. CASE MergeOwn
  BY <1>5, MergeOwnStep
<1>6. CASE Dispatch
  BY <1>6, DispatchStep
<1>7. ASSUME NEW j \in jobs,
             Skip(j) \/ Start(j) \/ Compute(j) \/ Release(j) \/ PushBump(j) \/ Fail(j)
      PROVE  ReleaseInv'
  BY <1>7, SkipStep, StartStep, ComputeStep, ReleaseStep, PushBumpStep, FailStep
<1>8. CASE UNCHANGED vars
  <2>1. UNCHANGED <<main, publishing>> /\ UNCHANGED <<hour, published, checking>>
    BY <1>8 DEF vars, publishing, checking
  <2>2. hour' \in Nat /\ published' \in Seq([date : Int, doc : Docs, hour : Nat])
    BY <2>1, InvTypes
  <2> QED  BY <2>1, <2>2, CheckStays, Outside
<1> QED  BY <1>1, <1>2, <1>3, <1>4, <1>5, <1>6, <1>7, <1>8 DEF Next, Advance

LEMMA InvariantAlways == Spec => []ReleaseInv
BY InitHolds, NextHolds, PublishedAlways, PTL DEF Spec

(***************************************************************************)
(* However merges, checks and runs interleave, every variable keeps its    *)
(* type, and one publish run is on at a time, with one that waits.         *)
(***************************************************************************)
THEOREM TypeCorrect == Spec => []TypeOK
<1>1. ReleaseInv => TypeOK
  BY DEF ReleaseInv
<1> QED  BY <1>1, InvariantAlways, PTL

(***************************************************************************)
(* No release takes a version that was taken: each is higher than the one  *)
(* before, whatever was merged, declared by hand or dispatched since the   *)
(* run for it read main, and whichever runs failed.                        *)
(***************************************************************************)
THEOREM VersionsGoUp == Spec => VersionsIncrease
<1> DEFINE higher == \A j \in jobs : Release(j) => Exceeds(j.next, Last(releases).version)
<1>1. ReleaseInv => higher
  <2> SUFFICES ASSUME ReleaseInv, NEW j \in jobs, Release(j)
               PROVE  Exceeds(j.next, Last(releases).version)
    OBVIOUS
  <2>1. j.stage = "versioned" /\ JobGood(j)
    BY DEF Release, ReleaseInv, JobState
  <2> QED  BY <2>1 DEF JobGood, Latest, Last
<1>2. ReleaseInv => [higher]_vars
  BY <1>1
<1> HIDE DEF higher
<1>3. Spec => [][higher]_vars
  BY <1>2, InvariantAlways, PTL
<1> QED  BY <1>3 DEF VersionsIncrease, higher

(***************************************************************************)
(* However checks, merges and runs interleave: below 1.0, a release that   *)
(* cargo takes for compatible with the one before has no commit merged as  *)
(* breaking among those it is made of, nor one whose spec breaks a program *)
(* built on the one before, but for what a run that ended without a        *)
(* release left, a level chosen by hand, and breaks that spec_diff does    *)
(* not call so.                                                            *)
(***************************************************************************)
THEOREM CompatibleBreaksNothing ==
  ASSUME PreOne, AllTyped
  PROVE  Spec => []CompatibleReleases
<1>1. ReleaseInv => CompatibleReleases
  <2> SUFFICES ASSUME ReleaseInv, NEW k \in 2 .. Len(releases), Compatible(k),
                      NEW i \in BreaksIn(k)
               PROVE  i \in lost
    BY Zenon DEF CompatibleReleases
  <2>1. FlagsKept /\ MarkersTell
    BY PreOne, AllTyped DEF ReleaseInv
  <2>2. /\ i \in releases[k - 1].head + 1 .. releases[k].head /\ BreakingCommit(i)
    BY DEF BreaksIn
  <2>3. k \in 1 .. Len(releases) /\ k - 1 \in 1 .. Len(releases) /\ Len(main) \in Nat
    BY InvTypes
  <2> DEFINE a == releases[k - 1].head
             b == releases[k].head
  <2>4. a \in 1 .. Len(main) /\ b \in 1 .. Len(main)
    BY <2>3 DEF ReleaseInv, ReleaseState
  <2>5. i \in a + 1 .. b
    BY <2>2
  <2> HIDE DEF a, b
  <2>6. i \in 2 .. Len(main)
    BY <2>3, <2>4, <2>5
  <2>7. Flagged(i)
    BY <2>1, <2>2, <2>6 DEF MarkersTell
  <2> QED  BY <2>1, <2>2, <2>7 DEF FlagsKept, FlaggedIn
<1> QED  BY <1>1, InvariantAlways, PTL

\* What CCP publishes is one of its documents.
LEMMA DocsOnly ==
  ASSUME TypeOK, NEW i \in DOMAIN published
  PROVE  published[i].doc \in Docs
<1> DEFINE P == [date : Int, doc : Docs, hour : Nat]
<1>1. published \in Seq(P)
  BY DEF TypeOK
<1>2. published[i] \in P
  <2> HIDE DEF P
  <2> QED  BY <1>1
<1> QED  BY <1>2

(***************************************************************************)
(* Whatever the two documents: if one breaks a program built on the other  *)
(* -- its calls, what their answers are decoded as, its types, the fields  *)
(* it reads or the values it builds -- and the report leaves nothing out   *)
(* (Omits), the verdict is Breaking, or Review and the change is one that  *)
(* is left to the reviewer.                                                *)
(***************************************************************************)
THEOREM BreaksAreReported ==
  ASSUME AllTyped
  PROVE  Spec => []BreaksReported
<1>1. ASSUME NEW old \in Docs, NEW new \in Docs  PROVE ReportedOf[old][new]
  <2>1. Reported(Document[old], Document[new])
    BY DocumentsReported DEF AllTyped
  <2> QED  BY <2>1 DEF ReportedOf
<1>2. TypeOK => BreaksReported
  BY <1>1, DocsOnly, Zenon DEF BreaksReported
<1> QED  BY <1>2, TypeCorrect, PTL

(***************************************************************************)
(* The generated client means what the documents say, whatever their       *)
(* operations, responses and limits: an error and a success are decoded    *)
(* as the document has them, and the rate-limit gate has the group, the    *)
(* tokens and the seconds of every limit that is declared in full and fits *)
(* the types, and no other.                                                *)
(***************************************************************************)
THEOREM MeaningIsKept ==
  ASSUME \A doc \in Docs : LimitsTyped(Document[doc])
  PROVE  Spec => []MeaningKept
<1>1. ASSUME NEW doc \in Docs  PROVE MeaningsKept[doc]
  <2>1. \A op \in Operations(Document[doc]) :
          ResponsesKept(op.responses) /\ LimitKnown(Document[doc], op)
    BY NormalizingKeeps, LimitsKnown
  <2> QED  BY <2>1, Zenon DEF MeaningsKept
<1>2. TypeOK => MeaningKept
  BY <1>1, DocsOnly, Zenon DEF MeaningKept
<1> QED  BY <1>2, TypeCorrect, PTL

(***************************************************************************)
(* No value is mis-parsed in silence: where no branch of a union was       *)
(* reported, every object ESI sends for one of its branches is decoded as  *)
(* that branch, however many the union has.                                *)
(***************************************************************************)
THEOREM UnionsAreDiscriminated ==
  ASSUME \A doc \in Docs : UnionsShaped(Document[doc].schemas)
  PROVE  Spec => []UnionsDiscriminated
<1>1. ASSUME NEW doc \in Docs  PROVE UnionsKept[doc]
  <2> DEFINE schemas == Document[doc].schemas
  <2>1. ASSUME NEW s \in DOMAIN schemas  PROVE DiscriminatedIn(schemas, schemas[s].union)
    BY UnionDiscriminated DEF UnionsShaped
  <2> QED  BY <2>1, Zenon DEF UnionsKept
<1>2. TypeOK => UnionsDiscriminated
  BY <1>1, DocsOnly, Zenon DEF UnionsDiscriminated
<1> QED  BY <1>2, TypeCorrect, PTL
=============================================================================
