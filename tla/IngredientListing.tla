-------------------------- MODULE IngredientListing --------------------------
(***************************************************************************)
(* The list of ingredients: one reader walks its pages, each a COUNT and a *)
(* SELECT after a keyset cursor (ingredient_list.go in handlers, services  *)
(* and repository), while other requests change the table.  The position   *)
(* of the reader is in the page token it sends back                        *)
(* (services/page_token.go).                                               *)
(*                                                                         *)
(* A page is the set of entries the reader gets; its order is that of the  *)
(* sort keys.  A name is the place of LOWER(name) in the collation of the  *)
(* database, which the cursor is taken to repeat exactly.                  *)
(***************************************************************************)
EXTENDS Integers, FiniteSets

CONSTANTS
  Ids,              \* values of ingredients.id
  Names,            \* places of lower-case names in the collation
  CreationTimes,    \* values of ingredients.created_at
  ABVs,             \* values of ingredients.abv, for all the columns filters look at
  Queries,          \* the parameters the reader may send
  DefaultPageSize,  \* defaultPageSize
  MaxPageSize,      \* maxPageSize
  None,             \* row not inserted yet; parameter, token or reply not there
  Deleted,          \* row deleted
  Other             \* a parameter the code does not know

ASSUME IdsAssumption == Ids \subseteq Nat /\ IsFiniteSet(Ids)
ASSUME KeysAssumption == Names \subseteq Nat /\ CreationTimes \subseteq Nat
ASSUME PageSizeAssumption ==
  /\ MaxPageSize \in Nat \ {0}
  /\ DefaultPageSize \in 1..MaxPageSize

Sorts == {"name", "created_at"}
Orders == {"asc", "desc"}

Row == [name : Names, created_at : CreationTimes, abv : ABVs]

\* Filters are the set of values they let through: all of them when there is none.
Query == [sort     : Sorts \cup {None, Other},
          order    : Orders \cup {None, Other},
          pageSize : Nat \cup {None, Other},
          filter   : {Other} \cup SUBSET ABVs]

\* A row as a page shows it: its id and the value it is sorted by.
Entry == [id : Ids, key : Names \cup CreationTimes]

Token == [sort : Sorts, order : Orders, pageSize : 1..MaxPageSize, last : Entry]

Codes == {"OK", "VALIDATION_ERROR", "INVALID_PAGE_TOKEN", "SERVER_ERROR"}

Reply == [code : Codes, items : SUBSET Entry, next : Token \cup {None}, totalSize : Nat]

Phases == {"idle", "received", "counted", "done"}

ASSUME QueriesAssumption == Queries \subseteq Query

ASSUME ValuesAssumption ==
  /\ None # Deleted /\ None # Other /\ None \notin Queries \cup Token \cup Reply
  /\ {None, Deleted} \cap Row = {}
  /\ {None, Other} \cap (Sorts \cup Orders \cup Nat) = {}
  /\ \A filter \in SUBSET ABVs : filter # Other

VARIABLES
  rows,        \* table ingredients
  pc,          \* where the handler is
  query,       \* the parameters last sent
  token,       \* the token the reader holds: the page it asks for next
  totalSize,   \* what the handler has counted
  reply,       \* the response
  shown,       \* history: the entries of the walk so far
  steady       \* history: ids that have matched all along with their key unchanged

vars == <<rows, pc, query, token, totalSize, reply, shown, steady>>

-----------------------------------------------------------------------------
(* Keyset order *)

Present == {id \in Ids : rows[id] \notin {None, Deleted}}

\* The columns of ORDER BY: LOWER(name) or created_at, then id.
EntryOf(id, sort) ==
  [id |-> id, key |-> IF sort = "name" THEN rows[id].name ELSE rows[id].created_at]

Less(e, f) == e.key < f.key \/ (e.key = f.key /\ e.id < f.id)

\* Mutant: the cursor is compared with <= or >=.
FollowsOrEquals(order, e, f) ==
  e = f \/ IF order = "asc" THEN Less(f, e) ELSE Less(e, f)

\* e comes after f
Follows(order, e, f) ==
  IF order = "asc" THEN Less(f, e) ELSE Less(e, f)

Matching(filter) == {id \in Present : rows[id].abv \in filter}

\* Mutant: the cursor is compared as for descending order, whatever the order is.
BeyondBelow(q, t) ==
  {e \in {EntryOf(id, q.sort) : id \in Matching(q.filter)} :
     t # None => Less(e, t.last)}

\* Mutant: WHERE compares the sort column alone.
BeyondByKey(q, t) ==
  {e \in {EntryOf(id, q.sort) : id \in Matching(q.filter)} :
     t # None => Follows(q.order, e, t.last) /\ e.key # t.last.key}

\* The rows after the cursor: WHERE filters AND (key, id) > (..., ...).
Beyond(q, t) ==
  {e \in {EntryOf(id, q.sort) : id \in Matching(q.filter)} :
     t # None => Follows(q.order, e, t.last)}

\* items are what ORDER BY and LIMIT leave of entries.
IsFirst(items, entries, q) ==
  /\ items \subseteq entries
  /\ Cardinality(items) =
       IF Cardinality(entries) > q.pageSize THEN q.pageSize ELSE Cardinality(entries)
  /\ \A e \in items, f \in entries \ items : Follows(q.order, f, e)

-----------------------------------------------------------------------------
(* Parameters *)

\* Defaults for what the reader left out.
Normalized(q) ==
  [sort     |-> IF q.sort = None THEN "created_at" ELSE q.sort,
   order    |-> IF q.order = None THEN "desc" ELSE q.order,
   pageSize |-> IF q.pageSize = None THEN DefaultPageSize ELSE q.pageSize,
   filter   |-> q.filter]

\* Mutant: an unknown sort is let through.
AllowedAnySort(q) ==
  q.order # Other /\ q.pageSize \in 1..MaxPageSize /\ q.filter # Other

Allowed(q) ==
  /\ q.sort # Other
  /\ q.order # Other
  /\ q.pageSize \in 1..MaxPageSize
  /\ q.filter # Other

\* Mutant: the token is checked against the parameters as they were sent.
CompatibleAsSent(t, q) ==
  t # None =>
    t.sort = query.sort /\ t.order = query.order /\ t.pageSize = query.pageSize

\* What DecodePageToken compares; filters are not in the token.
Compatible(t, q) ==
  t # None => t.sort = q.sort /\ t.order = q.order /\ t.pageSize = q.pageSize

-----------------------------------------------------------------------------
(* One page *)

Init ==
  /\ rows = [id \in Ids |-> None]
  /\ pc = "idle"
  /\ query = None
  /\ token = None
  /\ totalSize = 0
  /\ reply = None
  /\ shown = {}
  /\ steady = {}

\* The reader asks for the page of the token it holds, with parameters of its choice.
Ask(q) ==
  /\ pc = "idle"
  /\ pc' = "received"
  /\ query' = q
  /\ shown' = IF token = None THEN {} ELSE shown
  /\ steady' = IF q.filter = Other THEN {}
               ELSE Matching(q.filter) \cap (IF token = None THEN Ids ELSE steady)
  /\ UNCHANGED <<rows, token, totalSize, reply>>

\* The reader drops its token, to begin a new walk.
StartOver ==
  /\ pc = "idle"
  /\ token # None
  /\ token' = None
  /\ shown' = {}
  /\ steady' = {}
  /\ UNCHANGED <<rows, pc, query, totalSize, reply>>

Answer(code, items, next) ==
  /\ pc' = "done"
  /\ reply' = [code |-> code, items |-> items, next |-> next, totalSize |-> totalSize]
  /\ totalSize' = 0
  /\ UNCHANGED <<rows, query, token, shown, steady>>

\* The parameters or the token are refused before the first statement.
Refuse ==
  LET q == Normalized(query)
  IN /\ pc = "received"
     /\ \/ /\ ~Allowed(q)
           /\ Answer("VALIDATION_ERROR", {}, None)
        \/ /\ Allowed(q) /\ ~Compatible(token, q)
           /\ Answer("INVALID_PAGE_TOKEN", {}, None)

\* SELECT COUNT(*), with the filters and without the cursor.
Count ==
  LET q == Normalized(query)
  IN /\ pc = "received"
     /\ Allowed(q) /\ Compatible(token, q)
     /\ pc' = "counted"
     /\ totalSize' = Cardinality(Matching(q.filter))
     /\ UNCHANGED <<rows, query, token, reply, shown, steady>>

TokenAfter(e, q) ==
  [sort |-> q.sort, order |-> q.order, pageSize |-> q.pageSize, last |-> e]

\* The token in the response: one more row than the page has is selected, and if it
\* is there the token names the last row of the page.
NextTokens(items, entries, q) ==
  IF Cardinality(entries) > q.pageSize
  THEN {TokenAfter(e, q) : e \in {f \in items :
          \A g \in items \ {f} : Follows(q.order, f, g)}}
  ELSE {None}

\* SELECT ... ORDER BY ... LIMIT pageSize + 1
Select ==
  LET q == Normalized(query)
      entries == Beyond(q, token)
  IN /\ pc = "counted"
     /\ \E items \in SUBSET entries :
          /\ IsFirst(items, entries, q)
          /\ \E next \in NextTokens(items, entries, q) : Answer("OK", items, next)

\* The statement the handler is about to run fails.
DbFault ==
  /\ \/ pc = "received" /\ Allowed(Normalized(query)) /\ Compatible(token, Normalized(query))
     \/ pc = "counted"
  /\ Answer("SERVER_ERROR", {}, None)

\* The response arrives.  The reader goes on from the token of a page, if there is
\* one, and keeps the token it has after an error.
Deliver ==
  /\ pc = "done"
  /\ pc' = "idle"
  /\ reply' = None
  /\ IF reply.code = "OK"
     THEN /\ token' = reply.next
          /\ shown' = shown \cup reply.items
     ELSE UNCHANGED <<token, shown>>
  /\ UNCHANGED <<rows, query, totalSize, steady>>

\* The response is lost; the reader may ask again.
Lose ==
  /\ pc = "done"
  /\ pc' = "idle"
  /\ reply' = None
  /\ UNCHANGED <<rows, query, token, totalSize, shown, steady>>

-----------------------------------------------------------------------------
(* The other requests: one statement each *)

NameFree(id, name) == \A other \in Present \ {id} : rows[other].name # name

\* Statements commit in any order: a row may become visible after others with later
\* times of creation or larger ids.
Create(id, row) ==
  /\ rows[id] = None
  /\ NameFree(id, row.name)
  /\ rows' = [rows EXCEPT ![id] = row]
  /\ UNCHANGED <<pc, query, token, totalSize, reply, shown, steady>>

\* The column the walk is sorted by.
WalkSort == IF token = None THEN Normalized(query).sort ELSE token.sort

Update(id, name, abv) ==
  /\ id \in Present
  /\ NameFree(id, name)
  /\ rows' = [rows EXCEPT ![id].name = name, ![id].abv = abv]
  /\ steady' = {i \in steady :
                  i = id => /\ abv \in query.filter
                            /\ (WalkSort = "name" => name = rows[id].name)}
  /\ UNCHANGED <<pc, query, token, totalSize, reply, shown>>

Delete(id) ==
  /\ id \in Present
  /\ rows' = [rows EXCEPT ![id] = Deleted]
  /\ steady' = steady \ {id}
  /\ UNCHANGED <<pc, query, token, totalSize, reply, shown>>

Next ==
  \/ \E q \in Queries : Ask(q)
  \/ StartOver
  \/ Refuse \/ Count \/ Select \/ DbFault
  \/ Deliver \/ Lose
  \/ \E id \in Ids :
       \/ \E row \in Row : Create(id, row)
       \/ \E name \in Names, abv \in ABVs : Update(id, name, abv)
       \/ Delete(id)

Spec == Init /\ [][Next]_vars

AskCompatibly ==
  \E q \in Queries :
     Allowed(Normalized(q)) /\ Compatible(token, Normalized(q)) /\ Ask(q)

DeliverPage ==
  /\ pc = "done"
  /\ reply.code = "OK"
  /\ Deliver

\* A reader that goes on with the parameters of its token, a database that answers now
\* and then, and a network that does not lose every page.
FairSpec ==
  /\ Spec
  /\ SF_vars(AskCompatibly)
  /\ WF_vars(Refuse)
  /\ SF_vars(Count)
  /\ SF_vars(Select)
  /\ WF_vars(Deliver)
  /\ SF_vars(DeliverPage)

-----------------------------------------------------------------------------
(* Properties *)

ids(entries) == {e.id : e \in entries}

\* Every variable holds what the code can put in it.
TypeOK ==
  /\ rows \in [Ids -> Row \cup {None, Deleted}]
  /\ pc \in Phases
  /\ query \in Queries \cup {None}
  /\ token \in Token \cup {None}
  /\ totalSize \in 0..Cardinality(Ids)
  /\ reply \in Reply \cup {None}
  /\ shown \subseteq Entry
  /\ steady \subseteq Present
  /\ pc # "idle" => query # None
  /\ pc = "done" <=> reply # None

\* The pages of a walk are in one order: what a page shows comes after all that
\* earlier pages have shown, whatever happens to the table and whichever filters the
\* reader turns on and off between pages.
PagesAscend ==
  pc = "done" /\ reply.code = "OK" =>
    \A e \in reply.items, f \in shown : Follows(Normalized(query).order, e, f)

\* No ingredient is shown twice in a walk, unless the walk is by name and it was renamed.
ShownOnce ==
  pc = "done" /\ reply.code = "OK" =>
    \A e \in reply.items, f \in shown :
       e.id = f.id => Normalized(query).sort = "name" /\ e.key # f.key

\* No ingredient is passed over that was there and matched all along and kept its
\* place: once the reader gets a page without a next token it has been shown all of them.
NothingSkipped ==
  pc = "done" /\ reply.code = "OK" /\ reply.next = None =>
    steady \subseteq ids(shown) \cup ids(reply.items)

\* A reader that goes on gets to the end, or starts over, although the table changes.
WalkEnds == token # None ~> token = None

=============================================================================
