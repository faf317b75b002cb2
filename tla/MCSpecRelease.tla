--------------------------- MODULE MCSpecRelease ---------------------------
(***************************************************************************)
(* Small instances of SpecRelease for TLC: a document and what CCP may     *)
(* make of it.                                                             *)
(***************************************************************************)
EXTENDS SpecRelease

MCSnakeCase ==
  "GetAssets" :> "get_assets" @@ "GetStatus" :> "get_status" @@ "GetFleet" :> "get_fleet"
  @@ "ReadStatus" :> "read_status"
  @@ "PutFleet" :> "put_fleet" @@ "HeadStatus" :> "head_status"

Window(count, unit) == [count |-> count, unit |-> unit]

Limit(max_tokens, window) ==
  [group |-> "group", max_tokens |-> max_tokens, window |-> window]

Param(name, required) ==
  [name |-> name, ref |-> FALSE, required |-> required, type |-> "integer"]

\* What every operation takes by $ref.
Date == [name |-> "CompatibilityDate", ref |-> TRUE, required |-> TRUE, type |-> "date"]
Tenant == [name |-> "Tenant", ref |-> TRUE, required |-> FALSE, type |-> "string"]

Op(id, params, responses, limit) ==
  [id |-> id, params |-> params \cup {Date, Tenant}, responses |-> responses, body |-> None,
   limit |-> limit]

\* A success and default; a bodiless second success; a range of its own.
Plain == "200" :> "Assets" @@ "default" :> "Error"
Gone == Plain @@ "204" :> "Empty"
Ranged == Plain @@ "4XX" :> "Denied" @@ "404" :> "Missing"

Inline(props, required) == [ref |-> None, props |-> props, required |-> required]
Ref(schema) == [ref |-> schema, props |-> {}, required |-> {}]

Schema(fields, required) ==
  [fields |-> fields, required |-> required, union |-> << >>]

Union(branches) == [fields |-> << >>, required |-> {}, union |-> branches]

Field(type) == [type |-> type, rest |-> None]

Base ==
  [version |-> 0,
   paths |->
     [assets |-> [get |-> Op("GetAssets", {Param("page", FALSE)}, Plain,
                             Limit(3, Window(15, "m")))],
      status |-> [get |-> Op("GetStatus", {}, Ranged, Limit(3, Window(0, "s")))],
      fleet |-> [get |-> Op("GetFleet", {}, Gone, Limit(3, Window(2, "d"))),
                 put |-> Op("PutFleet", {Param("motd", TRUE)}, "201" :> "Empty", Limit(3, Window(4, "h")))]],
   schemas |->
     [Assets |-> Schema([name |-> Field("string"), id |-> Field("integer")], {"id"}),
      Owner |-> Union(<<Inline({}, {}), Inline({"faction"}, {}), Inline({"alliance"}, {}),
                         Inline({"unclaimed"}, {})>>),
      Target |-> Union(<<Ref("Assets"), Inline({"at", "to"}, {"at"}), Inline({"by"}, {})>>)]]

\* An operation and a field more.
Grown ==
  [Base EXCEPT
     !.paths.status = @ @@ [head |-> Op("HeadStatus", {}, Plain, None)],
     !.schemas.Assets.fields = @ @@ [size |-> Field("integer")]]

\* A parameter has another name besides; back from it, things are lost.
Renamed == [Grown EXCEPT !.paths.assets.get.params = {Param("from", FALSE), Date, Tenant}]

\* What needs review: a field is of another format, and another is an Option;
\* branches of a union cannot be told apart.
Reviewed ==
  [Base EXCEPT
     !.schemas.Assets.fields.id.rest = "int32", !.schemas.Assets.required = {"name"},
     !.schemas.Owner.union = <<Inline({"faction", "since"}, {}), Inline({"alliance"}, {})>>]

\* What is left out: a method has another name, the parameter there is turns
\* required, and that a field is an Option now is masked.
Turned ==
  [Grown EXCEPT
     !.paths.status.get.id = "ReadStatus",
     !.paths.assets.get.params = {Param("page", TRUE), Date, Tenant},
     !.schemas.Assets.required = {}]

MCPrepared == {<<0, 2, 0>>}

MCDocument ==
  "base" :> Base @@ "renamed" :> Renamed @@ "reviewed" :> Reviewed @@ "turned" :> Turned
=============================================================================
