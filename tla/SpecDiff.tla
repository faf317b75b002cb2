------------------------------ MODULE SpecDiff ------------------------------
(***************************************************************************)
(* spec_diff of src/xtask/src/main.rs: what it reports of two OpenAPI      *)
(* documents, as pure operators.  A document is                            *)
(*   [version, paths, schemas]                                             *)
(*   paths    route -> method -> [id, params, responses, body, limit]      *)
(*   params   a set of [name, ref, required, type], where a $ref is        *)
(*            followed                                                     *)
(*   schemas  name -> [fields, required, union]                            *)
(*   fields   name -> [type, rest], the rest being what else there is to   *)
(*            it: what it refers to, its items, the fields in it           *)
(* where -> is a function with its own domain.                             *)
(***************************************************************************)
EXTENDS Integers, FiniteSets, FiniteSetsExt

(***************************************************************************)
(* enum Kind, in its derived order, and struct Change.                     *)
(***************************************************************************)
Info == 0
Additive == 1
Review == 2
Breaking == 3

Change(kind, what) == [kind |-> kind, what |-> what]

Common(old, new) == DOMAIN old \cap DOMAIN new

\* The two loops over keys: what is only in the new one, only in the old one.
Gained(old, new, what) ==
  {Change(Additive, <<what, key>>) : key \in DOMAIN new \ DOMAIN old}

Lost(old, new, what) ==
  {Change(Breaking, <<what, key>>) : key \in DOMAIN old \ DOMAIN new}

DiffVersions(old, new) ==
  IF old.version = new.version THEN {} ELSE {Change(Info, <<"version">>)}

(***************************************************************************)
(* diff_operation.  A parameter is known by its name or by its $ref; one   *)
(* behind a $ref carries no `required` of its own, which reads as false.   *)
(***************************************************************************)
Params(op) ==
  {[name |-> <<p.name, p.ref>>, required |-> p.required /\ ~p.ref] : p \in op.params}

NamesOf(params) == {p.name : p \in params}

\* Mutant of DiffOperation: removed parameters go unnoticed.
DiffOperationNewOnly(old, new) ==
  {Change(IF p.required THEN Breaking ELSE Additive, <<"parameter", p.name>>) :
     p \in {q \in Params(new) : q.name \notin NamesOf(Params(old))}}

DiffOperation(old, new) ==
  {Change(IF p.required THEN Breaking ELSE Additive, <<"parameter", p.name>>) :
     p \in {q \in Params(new) : q.name \notin NamesOf(Params(old))}}
  \cup {Change(Breaking, <<"parameter", name>>) : name \in NamesOf(Params(old)) \ NamesOf(Params(new))}
  \cup IF old.responses = new.responses /\ old.body = new.body THEN {}
       ELSE {Change(Review, <<"definition">>)}

DiffRoute(old, new) ==
  Gained(old, new, "operation") \cup Lost(old, new, "operation")
  \cup UNION {DiffOperation(old[m], new[m]) :
                m \in {n \in Common(old, new) : old[n] # new[n]}}

DiffPaths(old, new) ==
  Gained(old, new, "route") \cup Lost(old, new, "route")
  \cup UNION {DiffRoute(old[r], new[r]) : r \in Common(old, new)}

(***************************************************************************)
(* diff_schemas.  A change of a schema that no field shows is reported as  *)
(* such, but only if no field has changed.                                 *)
(***************************************************************************)
DiffFields(old, new) ==
  {Change(IF f \in new.required THEN Review ELSE Additive, <<"field", f>>) :
     f \in DOMAIN new.fields \ DOMAIN old.fields}
  \cup Lost(old.fields, new.fields, "field")
  \cup {Change(IF old.fields[f].type = new.fields[f].type THEN Review ELSE Breaking, <<"field", f>>) :
          f \in {g \in Common(old.fields, new.fields) : old.fields[g] # new.fields[g]}}

DiffSchema(old, new) ==
  IF old = new THEN {}
  ELSE IF DiffFields(old, new) # {} THEN DiffFields(old, new)
  ELSE {Change(Review, <<"not at field level">>)}

DiffSchemas(old, new) ==
  Gained(old, new, "schema") \cup Lost(old, new, "schema")
  \cup UNION {DiffSchema(old[s], new[s]) : s \in Common(old, new)}

Report(old, new) ==
  DiffVersions(old, new) \cup DiffPaths(old.paths, new.paths)
    \cup DiffSchemas(old.schemas, new.schemas)

Verdict(old, new) == Max({c.kind : c \in Report(old, new)} \cup {Info})
=============================================================================
