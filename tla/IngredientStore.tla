--------------------------- MODULE IngredientStore ---------------------------
(***************************************************************************)
(* The ingredient API of the backend on one PostgreSQL table: handlers     *)
(* (handlers/ingredient.go), service (services/ingredient.go) and          *)
(* repository (repository/ingredient.go).  Every SQL statement commits on  *)
(* its own, so one statement is one step; PATCH needs up to three of them  *)
(* (SELECT, conditional UPDATE, SELECT EXISTS), and steps of other         *)
(* requests run in between.                                                *)
(*                                                                         *)
(* name is one field of a row; attr stands for the other fields a PATCH    *)
(* can set (description, unit, strength, type).                            *)
(***************************************************************************)
EXTENDS Naturals

CONSTANTS
  Requests,       \* slots of requests in progress
  MaxId,          \* last value of the SERIAL column id
  MaxVersion,     \* last value of the INTEGER column version
  Names, Attrs, Icons,
  LowerName,      \* LOWER(name), what the unique index is built on
  Calls,          \* the calls clients make
  BlindVersions,  \* may a client send a version no response has shown it?
  None,           \* absent row, omitted field, missing icon
  Bad             \* a value validation refuses

Ids == 1..MaxId
Versions == 1..MaxVersion
Row == [name : Names, attr : Attrs, version : Versions, icon : Icons \cup {None}]

\* What a response shows of a row (domain.Ingredient without the icon bytes).
View == [id : Ids, name : Names, attr : Attrs, version : Versions, hasIcon : BOOLEAN]

Ops == {"POST", "PATCH", "DELETE", "PUT_ICON", "GET", "GET_ICON"}

Call == [op       : Ops,
         id       : 0..MaxId,
         name     : Names \cup {None, Bad},
         attr     : Attrs \cup {None, Bad},
         expected : 0..MaxVersion,
         icon     : Icons \cup {None, Bad}]

Codes == {"OK", "VALIDATION_ERROR", "INVALID_ID", "NOT_FOUND",
          "ALREADY_EXISTS", "VERSION_CONFLICT", "SERVER_ERROR"}

Phases == {"idle", "received", "write", "missed", "done"}

ASSUME BoundsAssumption ==
  /\ MaxId \in Nat \ {0}
  /\ MaxVersion \in Nat \ {0}

ASSUME ValuesAssumption ==
  /\ None # Bad
  /\ {None, Bad} \cap (Names \cup Attrs \cup Icons) = {}
  /\ None \notin Row
  /\ None \notin View
  /\ None \notin Codes

ASSUME CallsAssumption ==
  /\ Calls \subseteq Call
  /\ \A c \in Calls : c.op = "POST" => c.name # None /\ c.attr # None
  /\ \A c \in Calls : c.op = "PUT_ICON" => c.icon # None

ASSUME LowerNameAssumption == DOMAIN LowerName = Names

ASSUME BlindVersionsAssumption == BlindVersions \in BOOLEAN

VARIABLES
  rows,        \* table ingredients: rows[id] is a Row or None
  nextId,      \* next value of the sequence behind ingredients.id
  pc,          \* where the handler of each request is
  call,        \* the request it serves
  ingredient,  \* its *domain.Ingredient; once done, the response body
  code         \* once done, what httperr.Map makes of the outcome

vars == <<rows, nextId, pc, call, ingredient, code>>

-----------------------------------------------------------------------------
(* Data *)

ViewOf(id, row) ==
  [id |-> id, name |-> row.name, attr |-> row.attr, version |-> row.version,
   hasIcon |-> row.icon # None]

\* Mutant: the field of the patch is copied without a nil check.
FieldUnchecked(patched, found) == patched

\* The value a patch gives a field: the one it carries, else the one found.
Field(patched, found) == IF patched = None THEN found ELSE patched

\* Mutant: a unique index on name itself.
NameFreeExact(name, id) ==
  \A other \in Ids \ {id} : rows[other] # None => rows[other].name # name

\* No row but id holds the name, up to LOWER (ingredients_name_lower_unique).
NameFree(name, id) ==
  \A other \in Ids \ {id} :
     rows[other] # None => LowerName[rows[other].name] # LowerName[name]

\* The code of a call refused before the first statement, None if accepted.
InputError(c) ==
  IF c.op # "POST" /\ c.id = 0 THEN "INVALID_ID"
  ELSE IF \/ c.op \in {"POST", "PATCH"} /\ c.name = Bad
          \/ c.op = "POST" /\ c.attr = Bad
          \/ c.op = "PATCH" /\ (c.expected = 0 \/ (c.name = None /\ c.attr = None))
          \/ c.op = "PUT_ICON" /\ c.icon = Bad
       THEN "VALIDATION_ERROR"
       ELSE None

\* The versions of an ingredient a response can have shown a client by now.  An
\* ingredient that is not there yet will start at 1; one that is gone stays gone.
ShownVersions(id) ==
  1..(IF id \in Ids /\ rows[id] # None THEN rows[id].version ELSE 1)

-----------------------------------------------------------------------------
(* Steps of a request *)

Init ==
  /\ rows = [id \in Ids |-> None]
  /\ nextId = 1
  /\ pc = [r \in Requests |-> "idle"]
  /\ call = [r \in Requests |-> None]
  /\ ingredient = [r \in Requests |-> None]
  /\ code = [r \in Requests |-> None]

\* A client sends c.  Without BlindVersions its PATCH carries a version the
\* client was shown, as the edit form does with the ingredient it loaded.
Receive(r, c) ==
  /\ pc[r] = "idle"
  /\ c.op = "PATCH" /\ c.expected > 0 /\ ~BlindVersions
        => c.expected \in ShownVersions(c.id)
  /\ pc' = [pc EXCEPT ![r] = "received"]
  /\ call' = [call EXCEPT ![r] = c]
  /\ UNCHANGED <<rows, nextId, ingredient, code>>

\* The handler ends with outcome c and body v.
Answer(r, c, v) ==
  /\ pc' = [pc EXCEPT ![r] = "done"]
  /\ code' = [code EXCEPT ![r] = c]
  /\ ingredient' = [ingredient EXCEPT ![r] = v]
  /\ UNCHANGED call

\* As Answer, for the outcome of a statement: the statement may have committed
\* and its result still not reach the handler.
StatementAnswer(r, c, v) == Answer(r, c, v) \/ Answer(r, "SERVER_ERROR", None)

\* r was accepted by the checks before the first statement and is an op.
Accepted(r, op) ==
  /\ pc[r] = "received"
  /\ call[r].op = op
  /\ InputError(call[r]) = None

Refuse(r) ==
  /\ pc[r] = "received"
  /\ InputError(call[r]) # None
  /\ Answer(r, InputError(call[r]), None)
  /\ UNCHANGED <<rows, nextId>>

\* Mutant: ids are chosen among the free ones instead of drawn from a sequence.
LowestFreeId ==
  IF \E id \in Ids : rows[id] = None
  THEN CHOOSE id \in Ids : rows[id] = None /\ \A i \in 1..(id - 1) : rows[i] # None
  ELSE nextId

\* The id an INSERT draws, DEFAULT nextval(...) of the SERIAL column.
NewId == nextId

\* POST: INSERT ... RETURNING.  The sequence advances even if the name is taken.
Insert(r) ==
  LET c   == call[r]
      row == [name |-> c.name, attr |-> c.attr, version |-> 1, icon |-> None]
  IN /\ Accepted(r, "POST")
     /\ \/ /\ nextId > MaxId
           /\ Answer(r, "SERVER_ERROR", None)
           /\ UNCHANGED <<rows, nextId>>
        \/ /\ nextId <= MaxId
           /\ nextId' = nextId + 1
           /\ \/ /\ NameFree(c.name, NewId)
                 /\ rows' = [rows EXCEPT ![NewId] = row]
                 /\ StatementAnswer(r, "OK", ViewOf(NewId, row))
              \/ /\ ~NameFree(c.name, NewId)
                 /\ Answer(r, "ALREADY_EXISTS", None)
                 /\ UNCHANGED rows

\* PATCH, first statement: load the ingredient and lay the patch over it.  The
\* enum values of the result are validated, and the expected version replaces
\* the one loaded.
Lookup(r) ==
  LET c      == call[r]
      merged == [ViewOf(c.id, rows[c.id]) EXCEPT
                   !.name = Field(c.name, @),
                   !.attr = Field(c.attr, @),
                   !.version = c.expected]
  IN /\ Accepted(r, "PATCH")
     /\ \/ /\ rows[c.id] = None
           /\ Answer(r, "NOT_FOUND", None)
        \/ /\ rows[c.id] # None
           /\ c.attr = Bad
           /\ Answer(r, "VALIDATION_ERROR", None)
        \/ /\ rows[c.id] # None
           /\ c.attr # Bad
           /\ pc' = [pc EXCEPT ![r] = "write"]
           /\ ingredient' = [ingredient EXCEPT ![r] = merged]
           /\ UNCHANGED <<call, code>>
     /\ UNCHANGED <<rows, nextId>>

\* Mutants: the UPDATE does not advance the version; it writes the icon of an
\* ingredient that was loaded without one.
WrittenSameVersion(row, v) ==
  [name |-> v.name, attr |-> v.attr, version |-> row.version, icon |-> row.icon]

WrittenWithoutIcon(row, v) ==
  [name |-> v.name, attr |-> v.attr, version |-> row.version + 1, icon |-> None]

\* The row an UPDATE of the ingredient v would write over row.
Written(row, v) ==
  [name |-> v.name, attr |-> v.attr, version |-> row.version + 1, icon |-> row.icon]

\* Mutants: the version is left out of the WHERE clause; an UPDATE that changes
\* no value counts as one that found no row.
MatchedById(v) == rows[v.id] # None

MatchedIfChanged(v) ==
  /\ rows[v.id] # None
  /\ rows[v.id].version = v.version
  /\ rows[v.id].name # v.name \/ rows[v.id].attr # v.attr

\* The WHERE clause of that UPDATE: id and version.
Matched(v) == rows[v.id] # None /\ rows[v.id].version = v.version

\* PATCH, second statement: UPDATE ... WHERE id AND version RETURNING version.
\* version + 1 is computed before the unique index is consulted.
Write(r) ==
  LET v  == ingredient[r]
      id == v.id
  IN /\ pc[r] = "write"
     /\ \/ /\ Matched(v)
           /\ \/ /\ v.version = MaxVersion
                 /\ Answer(r, "SERVER_ERROR", None)
                 /\ UNCHANGED rows
              \/ /\ v.version < MaxVersion
                 /\ ~NameFree(v.name, id)
                 /\ Answer(r, "ALREADY_EXISTS", None)
                 /\ UNCHANGED rows
              \/ /\ v.version < MaxVersion
                 /\ NameFree(v.name, id)
                 /\ rows' = [rows EXCEPT ![id] = Written(@, v)]
                 /\ StatementAnswer(r, "OK", [v EXCEPT !.version = Written(rows[id], v).version])
        \/ /\ ~Matched(v)
           /\ pc' = [pc EXCEPT ![r] = "missed"]
           /\ UNCHANGED <<rows, call, ingredient, code>>
     /\ UNCHANGED nextId

\* PATCH, third statement, after an UPDATE of no row: SELECT EXISTS.
Exists(r) ==
  /\ pc[r] = "missed"
  /\ Answer(r, IF rows[call[r].id] # None THEN "VERSION_CONFLICT" ELSE "NOT_FOUND", None)
  /\ UNCHANGED <<rows, nextId>>

\* DELETE.
Delete(r) ==
  LET id == call[r].id
  IN /\ Accepted(r, "DELETE")
     /\ rows' = [rows EXCEPT ![id] = None]
     /\ StatementAnswer(r, IF rows[id] # None THEN "OK" ELSE "NOT_FOUND", None)
     /\ UNCHANGED nextId

\* PUT of an icon.  It leaves version alone.
SetIcon(r) ==
  LET c == call[r]
  IN /\ Accepted(r, "PUT_ICON")
     /\ \/ /\ rows[c.id] # None
           /\ rows' = [rows EXCEPT ![c.id] = [@ EXCEPT !.icon = c.icon]]
           /\ StatementAnswer(r, "OK", None)
        \/ /\ rows[c.id] = None
           /\ Answer(r, "NOT_FOUND", None)
           /\ UNCHANGED rows
     /\ UNCHANGED nextId

\* GET of an ingredient.
Get(r) ==
  LET id == call[r].id
  IN /\ Accepted(r, "GET")
     /\ \/ /\ rows[id] # None
           /\ Answer(r, "OK", ViewOf(id, rows[id]))
        \/ /\ rows[id] = None
           /\ Answer(r, "NOT_FOUND", None)
     /\ UNCHANGED <<rows, nextId>>

\* GET of an icon; the bytes are not kept, only whether there were any.
GetIcon(r) ==
  LET id == call[r].id
  IN /\ Accepted(r, "GET_ICON")
     /\ Answer(r, IF rows[id] # None /\ rows[id].icon # None THEN "OK" ELSE "NOT_FOUND", None)
     /\ UNCHANGED <<rows, nextId>>

\* The statement r is about to run fails before any effect (no connection,
\* timeout, deadlock), though an INSERT may have drawn its id already.
DbFault(r) ==
  /\ \/ pc[r] \in {"write", "missed"}
     \/ \E op \in Ops : Accepted(r, op)
  /\ nextId' \in {nextId} \cup
                 IF pc[r] = "received" /\ call[r].op = "POST" /\ nextId <= MaxId
                 THEN {nextId + 1} ELSE {}
  /\ Answer(r, "SERVER_ERROR", None)
  /\ UNCHANGED rows

\* The response reaches the client, or is lost on the way: the server keeps
\* nothing of the request, and the client may send the same call again.
Deliver(r) ==
  /\ pc[r] = "done"
  /\ pc' = [pc EXCEPT ![r] = "idle"]
  /\ call' = [call EXCEPT ![r] = None]
  /\ ingredient' = [ingredient EXCEPT ![r] = None]
  /\ code' = [code EXCEPT ![r] = None]
  /\ UNCHANGED <<rows, nextId>>

\* The process stops; the statements that committed stay.
Crash ==
  /\ \E r \in Requests : pc[r] # "idle"
  /\ pc' = [r \in Requests |-> "idle"]
  /\ call' = [r \in Requests |-> None]
  /\ ingredient' = [r \in Requests |-> None]
  /\ code' = [r \in Requests |-> None]
  /\ UNCHANGED <<rows, nextId>>

\* One step of the handler of r.
Handle(r) ==
  \/ Refuse(r) \/ Insert(r) \/ Lookup(r) \/ Write(r) \/ Exists(r)
  \/ Delete(r) \/ SetIcon(r) \/ Get(r) \/ GetIcon(r) \/ DbFault(r)

Next ==
  \/ \E r \in Requests : (\E c \in Calls : Receive(r, c)) \/ Handle(r) \/ Deliver(r)
  \/ Crash

Spec == Init /\ [][Next]_vars

-----------------------------------------------------------------------------
(* Properties *)

\* Every variable holds what the code can put in it; from the SELECT of a PATCH to
\* its end the handler holds an ingredient with the id and the version of the call.
TypeOK ==
  /\ rows \in [Ids -> Row \cup {None}]
  /\ nextId \in 1..(MaxId + 1)
  /\ pc \in [Requests -> Phases]
  /\ call \in [Requests -> Call \cup {None}]
  /\ ingredient \in [Requests -> View \cup {None}]
  /\ code \in [Requests -> Codes \cup {None}]
  /\ \A r \in Requests :
       /\ pc[r] # "idle" => call[r] \in Calls
       /\ pc[r] \in {"write", "missed"} =>
            /\ call[r].op = "PATCH"
            /\ InputError(call[r]) = None
            /\ ingredient[r] # None
            /\ ingredient[r].id = call[r].id
            /\ ingredient[r].version = call[r].expected

\* r was answered "OK" and its body shows an ingredient.
Shows(r) == pc[r] = "done" /\ ingredient[r] # None

\* r was answered a PATCH with the outcome c.
PatchEnded(r, c) == pc[r] = "done" /\ call[r].op = "PATCH" /\ code[r] = c

\* Optimistic locking lets one of the PATCH requests sent against one version of an
\* ingredient succeed, however their statements interleave (repository Update).
OneWinner ==
  \A r, s \in Requests :
     r # s /\ PatchEnded(r, "OK") /\ PatchEnded(s, "OK") /\ call[r].id = call[s].id
        => call[r].expected # call[s].expected

\* VERSION_CONFLICT is final: the version the client sent is not the version of the
\* ingredient now, and will not be again, although the answer is decided by a SELECT
\* that runs after the UPDATE has missed and other requests have run in between.
ConflictIsFinal ==
  \A r \in Requests :
     PatchEnded(r, "VERSION_CONFLICT") /\ rows[call[r].id] # None
        => call[r].expected < rows[call[r].id].version

\* The version of an ingredient names its contents, and no response is undone: the
\* table has the version a response showed or a later one; two responses, or a
\* response and the table, that agree on id and version agree on the fields a PATCH
\* sets.  The edit form and the query cache of the frontend rely on it.
VersionNamesContent ==
  \A r \in Requests : Shows(r) =>
     LET v   == ingredient[r]
         row == rows[v.id]
     IN /\ row # None => v.version <= row.version
        /\ row # None /\ row.version = v.version => row.name = v.name /\ row.attr = v.attr
        /\ \A s \in Requests :
             Shows(s) /\ ingredient[s].id = v.id /\ ingredient[s].version = v.version
                => ingredient[s].name = v.name /\ ingredient[s].attr = v.attr

\* r's UPDATE changes the table in this step.
Commits(r) == pc[r] = "write" /\ pc'[r] = "done" /\ rows' # rows

\* A PATCH that commits is laid over the row it replaces: fields it leaves out keep
\* the value they have in the table, not the value the handler read before, the icon
\* stays, and the row had the version the client sent.
PatchMeetsCurrentRow ==
  [][\A r \in Requests : Commits(r) =>
       LET c   == call[r]
           old == rows[c.id]
       IN /\ old # None /\ old.version = c.expected
          /\ rows'[c.id] = [name    |-> Field(c.name, old.name),
                            attr    |-> Field(c.attr, old.attr),
                            version |-> old.version + 1,
                            icon    |-> old.icon]]_vars

\* "omitted fields do not change": the part of PatchMeetsCurrentRow the API document
\* promises of every PATCH, whatever version it carries.
OmittedFieldsStay ==
  [][\A r \in Requests : Commits(r) =>
       LET c   == call[r]
           old == rows[c.id]
       IN /\ c.name = None => rows'[c.id].name = old.name
          /\ c.attr = None => rows'[c.id].attr = old.attr]_vars

\* A deleted ingredient, or an id an insertion wasted, never comes back: a handler
\* that still holds the ingredient cannot revive it.
GoneStaysGone ==
  [][\A id \in 1..(nextId - 1) : rows[id] = None => rows'[id] = None]_vars

\* The requests implement the catalog: whatever happens between their statements,
\* the table changes as Catalog says, names unique up to LOWER included.
Abstract == INSTANCE Catalog WITH issued <- 1..(nextId - 1)

ImplementsCatalog == Abstract!Spec

=============================================================================
