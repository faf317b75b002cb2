------------------------------ MODULE Codegen ------------------------------
(***************************************************************************)
(* What build.rs makes of a document (as in SpecDiff) before progenitor    *)
(* sees it: the rate-limit table, and the normalizations of                *)
(* build_support/normalize.rs, as pure operators.                          *)
(*   responses  code -> shape                                              *)
(*   limit      None, or [group, max_tokens, window : [count, unit]], each *)
(*              None where it is missing or of another type                *)
(*   union      the branches of a oneOf or anyOf, in order:                *)
(*              [ref, props, required], where ref is None in an inline     *)
(*              branch; one that is no object has no props                 *)
(***************************************************************************)
EXTENDS Integers, FiniteSets, Sequences

CONSTANTS
  None,        \* an absent Option
  SnakeCase,   \* heck's to_snake_case, on operation ids
  MaxU32,      \* the widths of the integers, scaled down for TLC
  MaxU64

ASSUME WidthsAssumption == MaxU32 \in Nat /\ MaxU64 \in Nat

ASSUME NoneAssumption ==
  /\ None \notin Nat /\ None \notin STRING
  /\ None \notin [group : STRING, max_tokens : 0 .. MaxU32, window : 1 .. MaxU64]

(***************************************************************************)
(* parse_window_size: digits, then a unit.  A count without a unit has no  *)
(* place to split at.                                                      *)
(***************************************************************************)
SecondsPer == [s |-> 1, m |-> 60, h |-> 3600]

\* Mutant of ParseWindow: an empty window is a window.
ParseWindowOfNothing(w) ==
  IF w = None \/ w.count = None \/ w.unit \notin DOMAIN SecondsPer THEN None
  ELSE LET secs == w.count * SecondsPer[w.unit]
       IN  IF w.count > MaxU64 \/ secs > MaxU64 THEN None ELSE secs

ParseWindow(w) ==
  IF w = None \/ w.count = None \/ w.unit \notin DOMAIN SecondsPer THEN None
  ELSE LET secs == w.count * SecondsPer[w.unit]
       IN  IF w.count > MaxU64 \/ secs \notin 1 .. MaxU64 THEN None ELSE secs

(***************************************************************************)
(* rate_limit_table: an entry for each operation whose declaration parses, *)
(* under the id progenitor will give the operation; and spec_rate_limit,   *)
(* the match generated from it (ids are unique in a document).             *)
(***************************************************************************)
Operations(doc) ==
  UNION {{doc.paths[r][m] : m \in DOMAIN doc.paths[r]} : r \in DOMAIN doc.paths}

Limited(op) ==
  /\ op.limit # None /\ op.id # None
  /\ op.limit.group # None
  /\ op.limit.max_tokens # None /\ op.limit.max_tokens <= MaxU32
  /\ ParseWindow(op.limit.window) # None

\* Mutant of RateLimitTable: entries go by the id in the document.
RateLimitTableRaw(doc) ==
  {[operation_id |-> op.id, group |-> op.limit.group,
    max_tokens |-> op.limit.max_tokens, window |-> ParseWindow(op.limit.window)] :
     op \in {o \in Operations(doc) : Limited(o)}}

RateLimitTable(doc) ==
  {[operation_id |-> SnakeCase[op.id], group |-> op.limit.group,
    max_tokens |-> op.limit.max_tokens, window |-> ParseWindow(op.limit.window)] :
     op \in {o \in Operations(doc) : Limited(o)}}

SpecRateLimit(doc, id) ==
  LET entries == {e \in RateLimitTable(doc) : e.operation_id = id}
  IN  IF entries = {} THEN None
      ELSE LET entry == CHOOSE e \in entries : TRUE
           IN  [group |-> entry.group, max_tokens |-> entry.max_tokens,
                window |-> entry.window]

(***************************************************************************)
(* strip_compatibility_date_param: the client sends the date itself, and   *)
(* no method takes it.                                                     *)
(***************************************************************************)
Arguments(op) == {p \in op.params : ~ (p.ref /\ p.name = "CompatibilityDate")}

(***************************************************************************)
(* normalize_responses: at most one success response is kept, and default  *)
(* becomes the error ranges it stands for.  An operation without a success *)
(* code is left as it is.                                                  *)
(***************************************************************************)
SuccessCodes == {"200", "201", "204"}

Kept(responses) ==
  LET two_xx == DOMAIN responses \cap SuccessCodes
  IN  IF Cardinality(two_xx) > 1 THEN DOMAIN responses \ (two_xx \ {"200"})
      ELSE DOMAIN responses

\* Mutant of NormalizeResponses: default overrides the ranges declared.
NormalizeResponsesOver(responses) ==
  LET kept == Kept(responses)
  IN  IF DOMAIN responses \cap SuccessCodes = {} \/ "default" \notin kept
      THEN [c \in kept |-> responses[c]]
      ELSE [c \in (kept \ {"default"}) \cup {"4XX", "5XX"} |->
              IF c \in {"4XX", "5XX"} THEN responses["default"] ELSE responses[c]]

NormalizeResponses(responses) ==
  LET kept == Kept(responses)
  IN  IF DOMAIN responses \cap SuccessCodes = {} \/ "default" \notin kept
      THEN [c \in kept |-> responses[c]]
      ELSE [c \in (kept \ {"default"}) \cup {"4XX", "5XX"} |->
              IF c \in kept THEN responses[c] ELSE responses["default"]]

(***************************************************************************)
(* require_union_discriminants: the lone property of an inline branch that *)
(* requires nothing becomes required; the other branches that require      *)
(* nothing are reported.                                                   *)
(***************************************************************************)
Underconstrained(schema) ==
  schema.props # {} /\ schema.required = {}

\* A $ref branch is the component schema it refers to.
Resolved(schemas, branch) ==
  IF branch.ref = None THEN branch
  ELSE [ref |-> None, props |-> DOMAIN schemas[branch.ref].fields,
        required |-> schemas[branch.ref].required]

\* Mutant of Discriminate: only the first branch is looked at.
DiscriminateFirst(union) ==
  [i \in DOMAIN union |->
     IF /\ i = 1 /\ union[i].ref = None /\ Underconstrained(union[i])
        /\ Cardinality(union[i].props) = 1
     THEN [union[i] EXCEPT !.required = union[i].props] ELSE union[i]]

Discriminate(union) ==
  [i \in DOMAIN union |->
     IF /\ union[i].ref = None /\ Underconstrained(union[i])
        /\ Cardinality(union[i].props) = 1
     THEN [union[i] EXCEPT !.required = union[i].props] ELSE union[i]]

Unresolved(schemas, union) ==
  {i \in DOMAIN union :
     /\ Underconstrained(Resolved(schemas, union[i]))
     /\ union[i].ref # None \/ Cardinality(union[i].props) > 1}

-----------------------------------------------------------------------------
(***************************************************************************)
(* What the code generated from it does (progenitor, typify and serde).    *)
(* A status is decoded by its own code, else by its range, else by         *)
(* default; default counts as a success, and progenitor takes one shape of *)
(* success only.                                                           *)
(***************************************************************************)
RangeOf(status) == CASE status \in SuccessCodes -> "2XX"
                     [] status \in {"403", "404", "420"} -> "4XX"
                     [] status \in {"500", "503"} -> "5XX"

Decoded(responses, status) ==
  IF status \in DOMAIN responses THEN responses[status]
  ELSE IF RangeOf(status) \in DOMAIN responses THEN responses[RangeOf(status)]
  ELSE IF "default" \in DOMAIN responses THEN responses["default"]
  ELSE None

GeneratorAccepts(responses) ==
  Cardinality({responses[c] : c \in DOMAIN responses \cap (SuccessCodes \cup {"default"})})
    <= 1

\* A union is decoded as its first branch that takes a value; one that is an
\* object takes every object with the properties it requires.
DecodedAs(schemas, union, object) ==
  LET takers == {i \in DOMAIN union :
                   LET schema == Resolved(schemas, union[i])
                   IN  schema.props # {} /\ schema.required \subseteq object}
  IN  IF takers = {} THEN 0
      ELSE CHOOSE i \in takers : \A j \in takers : i <= j

\* The objects ESI sends for a branch.
ObjectsOf(schema) ==
  {object \in SUBSET schema.props : object # {} /\ schema.required \subseteq object}
=============================================================================
