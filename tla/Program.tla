------------------------------ MODULE Program ------------------------------
(***************************************************************************)
(* What a program relies on that is built on the client generated from a   *)
(* document, when the client of a newer one breaks it, and what spec_diff  *)
(* (SpecDiff) does not call breaking though it may be.                     *)
(***************************************************************************)
EXTENDS SpecDiff, Codegen

\* What may be given, if some of it must be.
Given(all, needed) == {given \in SUBSET all : needed \subseteq given}

(***************************************************************************)
(* The calls it may make (a builder per method), what each status is       *)
(* decoded as, the types there are and the branches of those that are      *)
(* unions, the fields it reads (an Option where it is not required), and   *)
(* the values it may build (a builder per type).                           *)
(***************************************************************************)
Named(params) == {<<p.name, p.type>> : p \in params}

MustBeGiven(op) == {p \in Arguments(op) : p.required}

CallsOf(doc) ==
  UNION {{[method |-> SnakeCase[op.id], given |-> given, body |-> op.body] :
            given \in Given(Named(Arguments(op)), Named(MustBeGiven(op)))} :
         op \in Operations(doc)}

Statuses == SuccessCodes \cup {"403", "404", "500"}

Answers(op) ==
  [status \in Statuses |-> Decoded(NormalizeResponses(op.responses), status)]

AnswersOf(doc) ==
  {[method |-> SnakeCase[op.id], answers |-> Answers(op)] : op \in Operations(doc)}

TypesOf(schemas) == {[type |-> s, union |-> Discriminate(schemas[s].union)] : s \in DOMAIN schemas}

Fields(schema) ==
  {[field |-> f, is |-> schema.fields[f], required |-> f \in schema.required] :
     f \in DOMAIN schema.fields}

FieldsOf(schemas) ==
  UNION {{[type |-> s, reads |-> field] : field \in Fields(schemas[s])} : s \in DOMAIN schemas}

ValuesOf(schemas) ==
  UNION {{[type |-> s, given |-> given] :
            given \in Given(DOMAIN schemas[s].fields,
                              DOMAIN schemas[s].fields \cap schemas[s].required)} :
         s \in DOMAIN schemas}

Breaks(old, new) ==
  ~ /\ CallsOf(old) \subseteq CallsOf(new)
    /\ AnswersOf(old) \subseteq AnswersOf(new)
    /\ TypesOf(old.schemas) \subseteq TypesOf(new.schemas)
    /\ FieldsOf(old.schemas) \subseteq FieldsOf(new.schemas)
    /\ ValuesOf(old.schemas) \subseteq ValuesOf(new.schemas)

-----------------------------------------------------------------------------
(***************************************************************************)
(* Where spec_diff looks on: pairs of an operation before and after, and   *)
(* of a schema.                                                            *)
(***************************************************************************)
OperationPairs(old, new) ==
  UNION {{<<old[r][m], new[r][m]>> : m \in Common(old[r], new[r])} : r \in Common(old, new)}

SchemaPairs(old, new) == {<<old[s], new[s]>> : s \in Common(old, new)}

\* As spec_diff knows a parameter again.
Same(p, q) == p.name = q.name /\ p.ref = q.ref

(***************************************************************************)
(* Changes that its report leaves out: the method has another name, a      *)
(* parameter another type; a parameter is required now, which is not       *)
(* looked at again, nor ever behind a $ref; or a schema gains a field,     *)
(* which hides what else changes in it.                                    *)
(***************************************************************************)
Renames(pair) == SnakeCase[pair[1].id] # SnakeCase[pair[2].id]

Retypes(pair) ==
  \E p \in Arguments(pair[1]), q \in Arguments(pair[2]) : Same(p, q) /\ p.type # q.type

TurnsRequired(pair) ==
  \E q \in MustBeGiven(pair[2]) :
    /\ q.ref \/ \E p \in pair[1].params : Same(p, q)
    /\ ~ \E p \in pair[1].params : Same(p, q) /\ p.required

\* What a change "not at field level" is: of a union, or of what is required.
Reorders(pair) ==
  \/ pair[1].union # pair[2].union
  \/ \E f \in Common(pair[1].fields, pair[2].fields) :
       ~ (f \in pair[1].required <=> f \in pair[2].required)

Masks(pair) == Reorders(pair) /\ DOMAIN pair[2].fields \ DOMAIN pair[1].fields # {}

Omits(old, new) ==
  \/ \E pair \in OperationPairs(old.paths, new.paths) :
       Renames(pair) \/ Retypes(pair) \/ TurnsRequired(pair)
  \/ \E pair \in SchemaPairs(old.schemas, new.schemas) : Masks(pair)

(***************************************************************************)
(* Changes that it leaves to the reviewer: a body or a response is         *)
(* another, a field of the same type is (what it refers to, or holds), a   *)
(* new field is required, a union or what is required has changed.         *)
(***************************************************************************)
Redefines(pair) == pair[1].body # pair[2].body \/ pair[1].responses # pair[2].responses

Reshapes(pair) ==
  \/ Reorders(pair)
  \/ \E f \in Common(pair[1].fields, pair[2].fields) :
       pair[1].fields[f] # pair[2].fields[f] /\ pair[1].fields[f].type = pair[2].fields[f].type
  \/ \E f \in DOMAIN pair[2].fields \ DOMAIN pair[1].fields : f \in pair[2].required

LeavesToReview(old, new) ==
  \/ \E pair \in OperationPairs(old.paths, new.paths) : Redefines(pair)
  \/ \E pair \in SchemaPairs(old.schemas, new.schemas) : Reshapes(pair)
=============================================================================
