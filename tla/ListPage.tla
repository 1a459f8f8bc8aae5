------------------------------- MODULE ListPage -------------------------------
(***************************************************************************)
(* The list page of the frontend (pages/IngredientsListPage.tsx): the      *)
(* parameters of the list, the index and the stack of page tokens, and the *)
(* query cache in which the pages of earlier parameters stay and into      *)
(* which late answers fall.  The table does not change here, so what a     *)
(* page shows depends on the parameters alone; IngredientListing has the   *)
(* changing table.                                                         *)
(***************************************************************************)
EXTENDS Naturals, Sequences, FiniteSets, FiniteSetsExt

CONSTANTS
  Rows,        \* ids of the ingredients
  Texts,       \* what can be in the search field, "" included
  Trim,        \* String.trim of a text
  Types,       \* values of the filter on the type; the one on the strength is alike
  Matching,    \* Matching[name][type]: the rows a filter admits
  SortModels,  \* sort models of the grid: sequences of [field, sort]
  PageSizes,   \* pageSizeOptions
  Default,     \* what the page opens with
  Searches,    \* bound: the combinations of the four the user tries
  MaxPages,    \* bound on the stack of tokens
  MaxQueries,  \* bound on the queries in the cache
  NoToken,     \* the empty page token
  None

ASSUME TableAssumption ==
  /\ Rows \subseteq Nat \ {0} /\ IsFiniteSet(Rows)
  /\ "" \in Texts
  /\ \A t \in Texts : Trim[t] \in Texts
  /\ \A t \in Texts, ty \in Types : Matching[Trim[t]][ty] \subseteq Rows

ASSUME DefaultAssumption ==
  /\ PageSizes \subseteq Nat \ {0}
  /\ Default[1] \in Texts /\ Default[2] \in Types
  /\ Default[3] \in SortModels /\ Default[4] \in PageSizes

VARIABLES
  nameFilter,     \* the text in the search field
  debouncedName,  \* that text once it has stayed for 300 ms
  typeFilter, sortModel, pageSize,
  pageIndex, pageTokens,
  cache,          \* list query key -> query
  previous        \* keepPreviousData: the last data of its own the page has had

vars == <<nameFilter, debouncedName, typeFilter, sortModel, pageSize,
          pageIndex, pageTokens, cache, previous>>

choices == <<nameFilter, debouncedName, typeFilter, sortModel, pageSize>>

-----------------------------------------------------------------------------
(* Parameters and pages *)

\* Sorting by a column other than name is sorting by time of creation.
dataGridSortToApi(model) ==
  IF model = <<>> THEN [sort |-> "created_at", order |-> "desc"]
  ELSE [sort  |-> IF model[1].field = "name" THEN "name" ELSE "created_at",
        order |-> IF model[1].sort = "asc" THEN "asc" ELSE "desc"]

\* What can be asked for and answered: a token names the order and the size of the page
\* it follows, and the last row on it.
Orders == [sort : {"name", "created_at"}, order : {"asc", "desc"}]

Tokens == {NoToken} \cup [by : Orders, pageSize : PageSizes, after : Nat]

Parameters == [name : {Trim[t] : t \in Texts}, type : Types, by : Orders,
               pageSize : PageSizes, pageToken : Tokens]

Answers == [of : Parameters, ingredients : SUBSET Rows, nextPageToken : Tokens,
            totalSize : Nat]

ASSUME ValuesAssumption == None \notin Parameters /\ None \notin Answers

ListParams(name, type, model, size, token) ==
  [name |-> Trim[name], type |-> type, by |-> dataGridSortToApi(model),
   pageSize |-> size, pageToken |-> token]

TokenAt(index) ==
  IF index < Len(pageTokens) THEN pageTokens[index + 1] ELSE NoToken

listParams == ListParams(debouncedName, typeFilter, sortModel, pageSize, TokenAt(pageIndex))

\* Mutant: the filters are left out of the key.
KeyWithoutFilters(params) == [params EXCEPT !.name = "", !.type = None]

listQueryKey(params) == params

\* Where a row stands in an order.  Rows are created in the order of their ids;
\* by name they stand the other way round.
Place(row, by) ==
  IF (by.sort = "name") = (by.order = "asc") THEN Max(Rows) + 1 - row ELSE row

\* The backend refuses a token of another order or another page size.
Refused(params) ==
  params.pageToken # NoToken
    /\ (params.pageToken.by # params.by \/ params.pageToken.pageSize # params.pageSize)

Rest(params) ==
  {r \in Matching[params.name][params.type] :
     params.pageToken # NoToken => Place(r, params.by) > params.pageToken.after}

\* The answer to a list request.  Its ingredients are those of Rest up to the
\* page size; "of" says which request it answers.
Page(params) ==
  LET rest  == Rest(params)
      shown == {r \in rest :
                  Cardinality({q \in rest : Place(q, params.by) < Place(r, params.by)})
                    < params.pageSize}
  IN [of            |-> params,
      ingredients   |-> shown,
      nextPageToken |-> IF shown = rest THEN NoToken
                        ELSE [by |-> params.by, pageSize |-> params.pageSize,
                              after |-> Max({Place(r, params.by) : r \in shown})],
      totalSize     |-> Cardinality(Matching[params.name][params.type])]

-----------------------------------------------------------------------------
(* The query cache *)

Key == listQueryKey(listParams)

\* A query as it is created: pending, fetching.
Fetching(params) == [data |-> None, status |-> "pending", fetch |-> params]

\* Mutant: a query is fetched only if no other is.
NeededAlone(queries, key) ==
  /\ key \notin DOMAIN queries
  /\ \A other \in DOMAIN queries : queries[other].fetch = None

\* The observer fetches a query it has come to if it has no data and none is on
\* the way, also when it failed before.
Needed(queries, key) ==
  key \notin DOMAIN queries \/ (queries[key].data = None /\ queries[key].fetch = None)

Observed(queries, params) ==
  LET key == listQueryKey(params)
  IN IF Needed(queries, key)
     THEN [k \in DOMAIN queries \cup {key} |->
             IF k = key THEN Fetching(params) ELSE queries[k]]
     ELSE queries

DataIn(queries, key) == IF key \in DOMAIN queries THEN queries[key].data ELSE None

OwnOr(data, fallback) == IF data # None THEN data ELSE fallback

OwnData == DataIn(cache, Key)

Status == IF Key \in DOMAIN cache THEN cache[Key].status ELSE "pending"

\* query.data: the data of the key, or while it is pending those of before.
Data == IF OwnData = None /\ Status = "pending" THEN previous ELSE OwnData

TotalSize == IF Data = None THEN 0 ELSE Data.totalSize

\* The number of pages the grid makes of the total.
PageCount == (TotalSize + pageSize - 1) \div pageSize

-----------------------------------------------------------------------------
(* Steps *)

\* Bound: the fields have one of the combinations, whichever text they are read with.
Tried(text, type, model, size) ==
  {<<text, type, model, size>>, <<debouncedName, type, model, size>>} \subseteq Searches

Init ==
  /\ nameFilter = Default[1] /\ debouncedName = Default[1]
  /\ typeFilter = Default[2] /\ sortModel = Default[3] /\ pageSize = Default[4]
  /\ pageIndex = 0
  /\ pageTokens = <<NoToken>>
  /\ cache = Observed(<<>>, listParams)
  /\ previous = None

\* The page is rendered with another place in the stack of tokens.
Turn(index, tokens) ==
  LET params == ListParams(debouncedName, typeFilter, sortModel, pageSize,
                           IF index < Len(tokens) THEN tokens[index + 1] ELSE NoToken)
  IN /\ pageIndex' = index
     /\ pageTokens' = tokens
     /\ cache' = Observed(cache, params)
     /\ Cardinality(DOMAIN cache') <= MaxQueries
     /\ UNCHANGED choices
     /\ previous' = OwnOr(OwnData', previous)

\* The page is rendered with other parameters.  The effect that resets the index
\* and the stack runs after that rendering, so the new parameters are asked for
\* with the old token first.
ChangeParams(name, type, model, size) ==
  LET stale == ListParams(name, type, model, size, TokenAt(pageIndex))
      fresh == ListParams(name, type, model, size, NoToken)
      once  == Observed(cache, stale)
  IN /\ debouncedName' = name
     /\ typeFilter' = type
     /\ sortModel' = model
     /\ pageSize' = size
     /\ pageIndex' = 0
     /\ pageTokens' = <<NoToken>>
     /\ cache' = Observed(once, fresh)
     /\ Cardinality(DOMAIN cache') <= MaxQueries
     /\ previous' = OwnOr(OwnData', OwnOr(DataIn(once, listQueryKey(stale)), previous))

TypeText(text) ==
  /\ text # nameFilter /\ Tried(text, typeFilter, sortModel, pageSize)
  /\ nameFilter' = text
  /\ UNCHANGED <<debouncedName, typeFilter, sortModel, pageSize,
                 pageIndex, pageTokens, cache, previous>>

\* The timer of useDebouncedValue.
Debounce ==
  /\ nameFilter # debouncedName
  /\ ChangeParams(nameFilter, typeFilter, sortModel, pageSize)
  /\ UNCHANGED nameFilter

PickType(type) ==
  /\ type # typeFilter /\ Tried(nameFilter, type, sortModel, pageSize)
  /\ ChangeParams(debouncedName, type, sortModel, pageSize)
  /\ UNCHANGED nameFilter

handleSortModelChange(model) ==
  /\ Len(model) <= 1
  /\ model # sortModel /\ Tried(nameFilter, typeFilter, model, pageSize)
  /\ ChangeParams(debouncedName, typeFilter, model, pageSize)
  /\ UNCHANGED nameFilter

Resize(size) ==
  /\ size # pageSize /\ Tried(nameFilter, typeFilter, sortModel, size)
  /\ ChangeParams(debouncedName, typeFilter, sortModel, size)
  /\ UNCHANGED nameFilter

\* Mutant: the missing token is not checked for.
HasNextUnchecked == Data # None

\* query.data?.nextPageToken is not empty.
HasNext == Data # None /\ Data.nextPageToken # NoToken

\* Mutant: the stack is cut before the page shown, not after it.
PushedShort(token) == Append(SubSeq(pageTokens, 1, pageIndex), token)

\* The stack of tokens once the token of a next page is put on it: at its end,
\* wherever in the stack the page shown is.
Pushed(token) == Append(pageTokens, token)

\* The button for the next page, enabled by the total of the data shown.
Forward ==
  /\ pageIndex + 1 < PageCount
  /\ HasNext
  /\ Len(pageTokens) < MaxPages
  /\ Turn(pageIndex + 1, Pushed(Data.nextPageToken))

Back ==
  /\ pageIndex > 0
  /\ Turn(pageIndex - 1, pageTokens)

\* The grid goes to the last page there is when its page is beyond it.
Clamp ==
  /\ pageIndex > 0 /\ pageIndex >= PageCount
  /\ Turn(IF PageCount = 0 THEN 0 ELSE PageCount - 1, pageTokens)

\* The page fetches again: the window is focused and the data is older than the
\* staleTime, or the user retries after an error.
Refetch ==
  /\ Key \in DOMAIN cache /\ cache[Key].fetch = None
  /\ cache' = [cache EXCEPT ![Key] =
                  [data   |-> @.data,
                   status |-> IF @.data = None THEN "pending" ELSE @.status,
                   fetch  |-> listParams]]
  /\ UNCHANGED <<choices, pageIndex, pageTokens, previous>>

Arrive(key) ==
  LET params == cache[key].fetch
  IN /\ params # None /\ ~Refused(params)
     /\ cache' = [cache EXCEPT ![key] =
                    [data |-> Page(params), status |-> "success", fetch |-> None]]
     /\ UNCHANGED <<choices, pageIndex, pageTokens>>
     /\ previous' = OwnOr(OwnData', previous)

\* The request has failed and so has its one retry, whatever the error.
Fail(key) ==
  /\ cache[key].fetch # None
  /\ cache' = [cache EXCEPT ![key] = [data |-> @.data, status |-> "error", fetch |-> None]]
  /\ UNCHANGED <<choices, pageIndex, pageTokens, previous>>

\* A query nobody looks at is dropped after a while.
Collect(key) ==
  /\ key # Key /\ cache[key].fetch = None
  /\ cache' = [k \in DOMAIN cache \ {key} |-> cache[k]]
  /\ UNCHANGED <<choices, pageIndex, pageTokens, previous>>

User ==
  \/ \E text \in Texts : TypeText(text)
  \/ \E type \in Types : PickType(type)
  \/ \E model \in SortModels : handleSortModelChange(model)
  \/ \E size \in PageSizes : Resize(size)
  \/ Forward \/ Back \/ Refetch

Next ==
  \/ User \/ Debounce \/ Clamp
  \/ \E key \in DOMAIN cache : Arrive(key) \/ Fail(key) \/ Collect(key)

Spec == Init /\ [][Next]_vars

\* The timer fires, every request ends one way or another, and the cache forgets.
FairSpec ==
  /\ Spec
  /\ WF_vars(Debounce)
  /\ WF_vars(\E key \in DOMAIN cache : Arrive(key) \/ Fail(key))
  /\ WF_vars(\E key \in DOMAIN cache : Collect(key))

-----------------------------------------------------------------------------
(* Properties *)

\* The stack is never empty and holds the empty token first; a query without data
\* is on its way or has failed; data is an answer the backend gives.
TypeOK ==
  /\ nameFilter \in Texts /\ debouncedName \in Texts
  /\ typeFilter \in Types /\ sortModel \in SortModels /\ pageSize \in PageSizes
  /\ pageIndex \in 0..(Len(pageTokens) - 1)
  /\ pageTokens[1] = NoToken
  /\ Key \in DOMAIN cache
  /\ \A key \in DOMAIN cache :
       /\ cache[key].status \in {"pending", "success", "error"}
       /\ cache[key].status = "pending" => cache[key].data = None /\ cache[key].fetch # None
       /\ cache[key].status = "success" => cache[key].data # None
       /\ cache[key].data # None => cache[key].data = Page(cache[key].data.of)

\* A page beyond the first is asked for with a token, so it never shows the first
\* page again, whatever total and whatever data of earlier parameters the button
\* was pressed on.
NeverRestarts == pageIndex > 0 => TokenAt(pageIndex) # NoToken

\* The data the page has of its own answers the request its filters, order, size and
\* token stand for, in whatever order late answers of earlier parameters arrive.
RowsMatchParams == OwnData # None => OwnData.of = listParams

\* What the page shows is what was asked for last, or an error is reported.
Settled ==
  /\ debouncedName = nameFilter
  /\ Status = "error" \/ (Data # None /\ Data.of = listParams)

\* When the user stops, the page comes to show the answer for the text, filter, order
\* and page size in its fields, or an error, and stays there.
SearchTakesEffect == <>[][~User]_vars => <>[]Settled

\* "The token of the next page": the page at an index follows the page at the index
\* before it, for the present parameters.
TokensFollow ==
  \A i \in 1..pageIndex :
    pageTokens[i + 1] = Page([listParams EXCEPT !.pageToken = pageTokens[i]]).nextPageToken

\* The whole stack is right: each token is that of the page its predecessor asks for.
StackFollows ==
  \A i \in 1..(Len(pageTokens) - 1) :
    pageTokens[i + 1] = Page([listParams EXCEPT !.pageToken = pageTokens[i]]).nextPageToken

\* The two things TokensFollow breaks on are the only ones: a step that puts a token on
\* the stack keeps it right if the page shows data of its own, not that of before, and is
\* the last of the stack; and every other step keeps it right in any case.
StackKeptRight ==
  [][StackFollows
       /\ (Len(pageTokens') > Len(pageTokens) =>
             OwnData # None /\ pageIndex + 1 = Len(pageTokens))
     => StackFollows']_vars

=============================================================================
