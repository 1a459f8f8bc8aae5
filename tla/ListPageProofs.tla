---------------------------- MODULE ListPageProofs ----------------------------
(***************************************************************************)
(* Theorems about ListPage: for any table, any parameters, any number of   *)
(* pages and any size of the cache, a page beyond the first never shows    *)
(* the first again, the data it has of its own answers its present         *)
(* parameters, and all data is what the backend answers.                   *)
(***************************************************************************)
EXTENDS ListPage, FiniteSetTheorems, WellFoundedInduction, SequenceTheorems, TLAPS

-----------------------------------------------------------------------------
(* The invariant *)

\* The fields have values the page offers.
ChoicesInv ==
  /\ nameFilter \in Texts /\ debouncedName \in Texts
  /\ typeFilter \in Types /\ sortModel \in SortModels /\ pageSize \in PageSizes

\* A query holds and awaits nothing but the answer to its own key; without data it is
\* on its way or has failed.
QueryInv(q, key) ==
  /\ q = [data |-> q.data, status |-> q.status, fetch |-> q.fetch]
  /\ q.data \in {None, Page(key)}
  /\ q.status \in {"pending", "success", "error"}
  /\ q.fetch \in {None, key}
  /\ q.status = "pending" => q.data = None /\ q.fetch # None
  /\ q.status = "success" => q.data # None

CacheInv(queries) ==
  /\ queries = [k \in DOMAIN queries |-> queries[k]]
  /\ \A key \in DOMAIN queries : key \in Parameters /\ QueryInv(queries[key], key)

\* Every token but the first leads to a page beyond the first.
StackInv(index, tokens) ==
  /\ tokens \in Seq(Tokens)
  /\ index \in 0..(Len(tokens) - 1)
  /\ tokens[1] = NoToken
  /\ \A i \in 2..Len(tokens) : tokens[i] # NoToken

PageInv ==
  /\ ChoicesInv
  /\ CacheInv(cache)
  /\ Key \in DOMAIN cache
  /\ previous \in {None} \cup Answers
  /\ StackInv(pageIndex, pageTokens)

-----------------------------------------------------------------------------
(* Pages *)

\* A finite set of numbers has a greatest and a least element.
LEMMA Extremes ==
  ASSUME NEW S, S \subseteq Nat, IsFiniteSet(S), S # {}
  PROVE  /\ \E x \in S : \A y \in S : y <= x
         /\ \E x \in S : \A y \in S : x <= y
<1> DEFINE Bounded(s) == /\ \E x \in s : \A y \in s : y <= x
                         /\ \E x \in s : \A y \in s : x <= y
           Without == {s \in SUBSET S : s # {} /\ ~Bounded(s)}
<1>1. SUFFICES ASSUME ~Bounded(S)  PROVE FALSE
  OBVIOUS
<1>2. Without \subseteq FiniteSubsetsOf(S) /\ Without # {}
  BY <1>1, FS_FiniteSubsetsOfFinite
<1>3. PICK s \in Without : \A r \in Without : <<r, s>> \notin StrictSubsetOrdering(S)
  <2> HIDE DEF Without
  <2>1. QED
    BY <1>2, FS_StrictSubsetOrderingWellFounded, WFMin
<1>4. PICK x \in s : TRUE
  OBVIOUS
<1>5. <<s \ {x}, s>> \in StrictSubsetOrdering(S)
  BY DEF StrictSubsetOrdering
<1>6. s \ {x} \notin Without
  BY <1>3, <1>5
<1>7. CASE s \ {x} = {}
  <2>1. s = {x} /\ x \in Nat
    BY <1>7
  <2>2. Bounded(s)
    BY <2>1
  <2>3. QED
    BY <2>2
<1>8. CASE s \ {x} # {}
  <2>1. Bounded(s \ {x})
    BY <1>6, <1>8
  <2>2. PICK m \in s \ {x} : \A y \in s \ {x} : y <= m
    BY <2>1
  <2>3. PICK n \in s \ {x} : \A y \in s \ {x} : n <= y
    BY <2>1
  <2>4. s \subseteq Nat
    OBVIOUS
  <2>5. \E z \in s : \A y \in s : y <= z
    <3>1. CASE m <= x
      <4>1. \A y \in s : y <= x
        BY <2>2, <2>4, <3>1
      <4>2. QED
        BY <4>1
    <3>2. CASE ~(m <= x)
      <4>1. \A y \in s : y <= m
        BY <2>2, <2>4, <3>2
      <4>2. QED
        BY <4>1
    <3>3. QED
      BY <3>1, <3>2
  <2>6. \E z \in s : \A y \in s : z <= y
    <3>1. CASE x <= n
      <4>1. \A y \in s : x <= y
        BY <2>3, <2>4, <3>1
      <4>2. QED
        BY <4>1
    <3>2. CASE ~(x <= n)
      <4>1. \A y \in s : n <= y
        BY <2>3, <2>4, <3>2
      <4>2. QED
        BY <4>1
    <3>3. QED
      BY <3>1, <3>2
  <2>7. QED
    BY <2>5, <2>6
<1>9. QED
  BY <1>7, <1>8

LEMMA MaxOf ==
  ASSUME NEW S, S \subseteq Nat, IsFiniteSet(S), S # {}
  PROVE  Max(S) \in S /\ \A y \in S : y <= Max(S)
<1>1. \E x \in S : \A y \in S : x >= y
  <2>1. PICK x \in S : \A y \in S : y <= x
    BY Extremes
  <2>2. QED
    BY <2>1
<1>2. Max(S) \in S /\ \A y \in S : Max(S) >= y
  BY <1>1 DEF Max
<1>3. QED
  BY <1>2

\* Places are numbers below a bound, so that sets of them are finite.
LEMMA PlaceTyped ==
  ASSUME NEW row \in Rows, NEW by
  PROVE  Place(row, by) \in Nat /\ Place(row, by) <= Max(Rows)
<1>1. Rows \subseteq Nat /\ IsFiniteSet(Rows) /\ Rows # {} /\ row \in Nat /\ row >= 1
  <2>1. row \in Nat \ {0} /\ Rows \subseteq Nat \ {0} /\ IsFiniteSet(Rows)
    BY TableAssumption
  <2>2. QED
    BY <2>1
<1>2. Max(Rows) \in Nat /\ row <= Max(Rows)
  BY <1>1, MaxOf
<1>3. QED
  BY <1>1, <1>2 DEF Place

LEMMA PlacesFinite ==
  ASSUME NEW rows \in SUBSET Rows, NEW by, rows # {}
  PROVE  LET places == {Place(r, by) : r \in rows}
         IN  places # {} /\ places \subseteq Nat /\ IsFiniteSet(places)
<1> DEFINE places == {Place(r, by) : r \in rows}
<1>1. places \in SUBSET Nat /\ places # {} /\ \A p \in places : p <= Max(Rows)
  BY PlaceTyped
<1>2. Max(Rows) \in Nat
  <2>1. Rows \subseteq Nat /\ IsFiniteSet(Rows) /\ Rows # {}
    BY TableAssumption
  <2>2. QED
    BY <2>1, MaxOf
<1> HIDE DEF places
<1>3. IsFiniteSet(places)
  BY <1>1, <1>2, FS_BoundedSetOfNaturals
<1>4. QED
  BY <1>1, <1>3 DEF places

LEMMA RestInRows ==
  ASSUME NEW params \in Parameters
  PROVE  /\ Rest(params) \subseteq Rows
         /\ Matching[params.name][params.type] \subseteq Rows
BY TableAssumption DEF Rest, Parameters

\* A page shows something as long as there is something left.
LEMMA PageNotEmpty ==
  ASSUME NEW params \in Parameters, Rest(params) # {}
  PROVE  Page(params).ingredients # {}
<1> DEFINE rest   == Rest(params)
           places == {Place(r, params.by) : r \in rest}
<1>1. places # {} /\ places \subseteq Nat /\ IsFiniteSet(places)
  BY RestInRows, PlacesFinite
<1>2. PICK p \in places : \A q \in places : p <= q
  <2> HIDE DEF places
  <2>1. QED
    BY <1>1, Extremes
<1>3. PICK first \in rest : Place(first, params.by) = p
  OBVIOUS
<1>4. {q \in rest : Place(q, params.by) < Place(first, params.by)} = {}
  <2>1. ASSUME NEW q \in rest, Place(q, params.by) < p
        PROVE  FALSE
    <3>1. Place(q, params.by) \in places
      OBVIOUS
    <3>2. Place(q, params.by) \in Nat /\ p \in Nat
      BY <1>1, <3>1
    <3>3. QED
      BY <1>2, <2>1, <3>1, <3>2
  <2>2. QED
    BY <1>3, <2>1
<1>5. params.pageSize \in Nat \ {0}
  BY DefaultAssumption DEF Parameters
<1>6. Cardinality({q \in rest : Place(q, params.by) < Place(first, params.by)})
        < params.pageSize
  BY <1>4, <1>5, FS_EmptySet
<1>7. first \in Page(params).ingredients
  BY <1>3, <1>6 DEF Page
<1>8. QED
  BY <1>7

LEMMA PageTyped ==
  ASSUME NEW params \in Parameters
  PROVE  Page(params) \in Answers /\ Page(params).of = params /\ Page(params) # None
<1> DEFINE rest  == Rest(params)
           shown == {r \in rest :
                       Cardinality({q \in rest : Place(q, params.by) < Place(r, params.by)})
                         < params.pageSize}
           last  == Max({Place(r, params.by) : r \in shown})
           token == IF shown = rest THEN NoToken
                    ELSE [by |-> params.by, pageSize |-> params.pageSize, after |-> last]
           total == Cardinality(Matching[params.name][params.type])
<1>1. Page(params) = [of |-> params, ingredients |-> shown, nextPageToken |-> token,
                      totalSize |-> total]
  BY DEF Page
<1>2. shown \subseteq Rows /\ rest \subseteq Rows
  BY RestInRows
<1>3. total \in Nat
  BY RestInRows, TableAssumption, FS_Subset, FS_CardinalityType
<1>4. token \in Tokens
  <2>1. SUFFICES ASSUME shown # rest
                 PROVE  [by |-> params.by, pageSize |-> params.pageSize, after |-> last]
                          \in Tokens
    BY DEF Tokens
  <2>2. shown # {}
    <3>1. Page(params).ingredients = shown
      BY <1>1
    <3>2. rest # {}
      BY <2>1
    <3> HIDE DEF shown
    <3>3. QED
      BY <3>1, <3>2, PageNotEmpty
  <2>3. last \in Nat
    BY <1>2, <2>2, PlacesFinite, MaxOf
  <2> HIDE DEF last
  <2>4. QED
    BY <2>3 DEF Tokens, Parameters
<1> HIDE DEF shown, token, total
<1>5. Page(params) \in Answers /\ Page(params).of = params
  BY <1>1, <1>2, <1>3, <1>4 DEF Answers
<1>6. QED
  BY <1>5, ValuesAssumption

-----------------------------------------------------------------------------
(* Queries *)

LEMMA ParamsOfChoices ==
  ASSUME NEW name \in Texts, NEW type \in Types, NEW model, NEW size \in PageSizes,
         NEW token \in Tokens
  PROVE  /\ ListParams(name, type, model, size, token) \in Parameters
         /\ ListParams(name, type, model, size, token).pageToken = token
<1>1. dataGridSortToApi(model) \in Orders
  <2>1. CASE model = <<>>
    BY <2>1 DEF dataGridSortToApi, Orders
  <2>2. CASE model # <<>>
    <3>1. PICK s \in {"name", "created_at"} :
            s = IF model[1].field = "name" THEN "name" ELSE "created_at"
      OBVIOUS
    <3>2. PICK o \in {"asc", "desc"} : o = IF model[1].sort = "asc" THEN "asc" ELSE "desc"
      OBVIOUS
    <3>3. dataGridSortToApi(model) = [sort |-> s, order |-> o]
      BY <2>2, <3>1, <3>2 DEF dataGridSortToApi
    <3>4. QED
      BY <3>3 DEF Orders
  <2>3. QED
    BY <2>1, <2>2
<1>2. ListParams(name, type, model, size, token) =
        [name |-> Trim[name], type |-> type, by |-> dataGridSortToApi(model),
         pageSize |-> size, pageToken |-> token]
  BY DEF ListParams
<1>3. QED
  BY <1>1, <1>2 DEF Parameters

LEMMA TokenTyped ==
  ASSUME NEW index, NEW tokens, StackInv(index, tokens), NEW i \in Nat
  PROVE  (IF i < Len(tokens) THEN tokens[i + 1] ELSE NoToken) \in Tokens
BY DEF StackInv, Tokens

LEMMA ListParamsTyped ==
  ASSUME ChoicesInv, StackInv(pageIndex, pageTokens)
  PROVE  Key \in Parameters /\ Key = listParams
<1>1. pageIndex \in Nat
  BY DEF StackInv
<1>2. TokenAt(pageIndex) \in Tokens
  BY <1>1, TokenTyped DEF TokenAt
<1>3. QED
  BY <1>2, ParamsOfChoices DEF ChoicesInv, Key, listQueryKey, listParams

\* A query that is created is on its way.
LEMMA FetchingInv ==
  ASSUME NEW params \in Parameters
  PROVE  QueryInv(Fetching(params), params)
BY ValuesAssumption DEF QueryInv, Fetching

\* A query that is created, or found, is as good as the others.
LEMMA ObservedInv ==
  ASSUME NEW queries, CacheInv(queries), NEW params \in Parameters
  PROVE  /\ CacheInv(Observed(queries, params))
         /\ params \in DOMAIN Observed(queries, params)
<1>1. CASE ~Needed(queries, params)
  BY <1>1 DEF Observed, Needed, listQueryKey
<1>2. CASE Needed(queries, params)
  <2> DEFINE after == [k \in DOMAIN queries \cup {params} |->
                         IF k = params THEN Fetching(params) ELSE queries[k]]
  <2>1. Observed(queries, params) = after
    BY <1>2 DEF Observed, listQueryKey
  <2>2. ASSUME NEW key \in DOMAIN after
        PROVE  key \in Parameters /\ QueryInv(after[key], key)
    <3>1. CASE key = params
      BY <3>1, FetchingInv
    <3>2. CASE key # params
      BY <3>2 DEF CacheInv
    <3>3. QED
      BY <3>1, <3>2
  <2>3. after = [k \in DOMAIN after |-> after[k]] /\ params \in DOMAIN after
    OBVIOUS
  <2> HIDE DEF after
  <2>4. CacheInv(after)
    BY <2>2, <2>3 DEF CacheInv
  <2>5. QED
    BY <2>1, <2>3, <2>4
<1>3. QED
  BY <1>1, <1>2

LEMMA DataTyped ==
  ASSUME NEW queries, CacheInv(queries), NEW key
  PROVE  DataIn(queries, key) \in {None} \cup Answers
<1>1. CASE key \in DOMAIN queries
  <2>1. key \in Parameters /\ QueryInv(queries[key], key)
    BY <1>1 DEF CacheInv
  <2>2. QED
    BY <1>1, <2>1, PageTyped DEF QueryInv, DataIn
<1>2. CASE key \notin DOMAIN queries
  BY <1>2 DEF DataIn
<1>3. QED
  BY <1>1, <1>2

LEMMA OwnOrTyped ==
  ASSUME NEW data \in {None} \cup Answers, NEW fallback \in {None} \cup Answers
  PROVE  OwnOr(data, fallback) \in {None} \cup Answers
BY DEF OwnOr

\* One query changes and stays true to its key.
LEMMA ChangedInv ==
  ASSUME NEW queries, CacheInv(queries), NEW key \in DOMAIN queries, NEW q, QueryInv(q, key)
  PROVE  /\ CacheInv([queries EXCEPT ![key] = q])
         /\ DOMAIN [queries EXCEPT ![key] = q] = DOMAIN queries
<1> DEFINE after == [queries EXCEPT ![key] = q]
<1>1. DOMAIN after = DOMAIN queries /\ after = [k \in DOMAIN after |-> after[k]]
  BY DEF CacheInv
<1>2. ASSUME NEW k \in DOMAIN queries
      PROVE  k \in Parameters /\ QueryInv(after[k], k)
  BY DEF CacheInv
<1> HIDE DEF after
<1>3. CacheInv(after)
  BY <1>1, <1>2 DEF CacheInv
<1>4. QED
  BY <1>1, <1>3 DEF after

-----------------------------------------------------------------------------
(* The stack *)

\* The number of pages the grid makes of a total.
LEMMA Pages ==
  ASSUME NEW total \in Nat, NEW size \in Nat \ {0}
  PROVE  (total + size - 1) \div size \in Nat
OBVIOUS

LEMMA DataOfPage ==
  ASSUME PageInv
  PROVE  Data \in {None} \cup Answers
<1>1. OwnData \in {None} \cup Answers
  BY DataTyped DEF PageInv, OwnData
<1>2. QED
  BY <1>1 DEF Data, PageInv

LEMMA PageCountNat ==
  ASSUME PageInv
  PROVE  PageCount \in Nat
<1>1. TotalSize \in Nat
  BY DataOfPage DEF TotalSize, Answers
<1>2. pageSize \in Nat \ {0}
  BY DefaultAssumption DEF PageInv, ChoicesInv
<1>3. QED
  BY <1>1, <1>2, Pages DEF PageCount

\* The token of a next page goes on the stack.
LEMMA PushedInv ==
  ASSUME NEW index, NEW tokens, StackInv(index, tokens), NEW token \in Tokens,
         token # NoToken
  PROVE  StackInv(index + 1, Append(tokens, token))
<1> DEFINE after == Append(tokens, token)
<1>1. /\ after \in Seq(Tokens)
      /\ Len(after) = Len(tokens) + 1 /\ Len(tokens) \in Nat
      /\ \A i \in 1..Len(tokens) : after[i] = tokens[i]
      /\ after[Len(tokens) + 1] = token
  BY DEF StackInv
<1> HIDE DEF after
<1>2. index \in 0..(Len(tokens) - 1) /\ 1 \in 1..Len(tokens)
  BY <1>1 DEF StackInv
<1>3. QED
  BY <1>1, <1>2 DEF StackInv, after

\* Another index of the stack.
LEMMA MovedInv ==
  ASSUME NEW index, NEW tokens, StackInv(index, tokens), NEW other \in 0..index
  PROVE  StackInv(other, tokens)
BY DEF StackInv

LEMMA FreshStack == StackInv(0, <<NoToken>>)
<1>1. <<NoToken>> \in Seq(Tokens) /\ Len(<<NoToken>>) = 1 /\ <<NoToken>>[1] = NoToken
  BY DEF Tokens
<1>2. QED
  BY <1>1 DEF StackInv

-----------------------------------------------------------------------------
(* Steps *)

\* The data the page has of its own is remembered.
LEMMA RememberedTyped ==
  ASSUME NEW queries, CacheInv(queries), NEW key, NEW before \in {None} \cup Answers
  PROVE  OwnOr(DataIn(queries, key), before) \in {None} \cup Answers
BY DataTyped, OwnOrTyped

LEMMA InitInv == Init => PageInv
<1> SUFFICES ASSUME Init  PROVE PageInv
  OBVIOUS
<1>1. ChoicesInv /\ previous \in {None} \cup Answers
  BY TableAssumption, DefaultAssumption DEF Init, ChoicesInv
<1>2. StackInv(pageIndex, pageTokens)
  BY FreshStack DEF Init
<1>3. CacheInv(<<>>)
  BY DEF CacheInv
<1>4. Key \in Parameters /\ Key = listParams
  BY <1>1, <1>2, ListParamsTyped
<1>5. CacheInv(cache) /\ Key \in DOMAIN cache
  BY <1>3, <1>4, ObservedInv DEF Init
<1>6. QED
  BY <1>1, <1>2, <1>5 DEF PageInv

\* Another place in the stack keeps the invariant if it is a place in a stack.
LEMMA TurnInv ==
  ASSUME PageInv, NEW index, NEW tokens, StackInv(index, tokens), Turn(index, tokens)
  PROVE  PageInv'
<1> DEFINE token  == IF index < Len(tokens) THEN tokens[index + 1] ELSE NoToken
           params == ListParams(debouncedName, typeFilter, sortModel, pageSize, token)
<1>1. ChoicesInv /\ CacheInv(cache) /\ previous \in {None} \cup Answers
  BY DEF PageInv
<1>2. index \in Nat
  BY DEF StackInv
<1>3. token \in Tokens
  BY <1>2, TokenTyped
<1>4. params \in Parameters
  <2> HIDE DEF token
  <2>1. QED
    BY <1>1, <1>3, ParamsOfChoices DEF ChoicesInv
<1>5. /\ pageIndex' = index /\ pageTokens' = tokens /\ cache' = Observed(cache, params)
      /\ UNCHANGED choices /\ previous' = OwnOr(OwnData', previous)
  BY DEF Turn
<1>6. Key' = params
  BY <1>5 DEF Key, listQueryKey, listParams, TokenAt, choices
<1> HIDE DEF token, params
<1>7. CacheInv(cache') /\ params \in DOMAIN cache'
  BY <1>1, <1>4, <1>5, ObservedInv
<1>8. previous' \in {None} \cup Answers
  <2>1. OwnData' = DataIn(cache', params)
    BY <1>6 DEF OwnData
  <2>2. QED
    BY <1>1, <1>5, <1>7, <2>1, RememberedTyped
<1>9. ChoicesInv'
  BY <1>1, <1>5 DEF ChoicesInv, choices
<1>10. StackInv(pageIndex', pageTokens')
  BY <1>5
<1>11. QED
  BY <1>6, <1>7, <1>8, <1>9, <1>10 DEF PageInv

\* Other parameters keep the invariant, although they are asked for with the old token
\* before the effect that drops it has run.
LEMMA ChangeParamsInv ==
  ASSUME PageInv, NEW name \in Texts, NEW type \in Types, NEW model \in SortModels,
         NEW size \in PageSizes, nameFilter' \in Texts,
         ChangeParams(name, type, model, size)
  PROVE  PageInv'
<1> DEFINE stale == ListParams(name, type, model, size, TokenAt(pageIndex))
           fresh == ListParams(name, type, model, size, NoToken)
           once  == Observed(cache, stale)
<1>1. CacheInv(cache) /\ previous \in {None} \cup Answers /\ StackInv(pageIndex, pageTokens)
  BY DEF PageInv
<1>2. TokenAt(pageIndex) \in Tokens /\ NoToken \in Tokens
  <2>1. pageIndex \in Nat
    BY <1>1 DEF StackInv
  <2>2. QED
    BY <1>1, <2>1, TokenTyped DEF TokenAt, Tokens
<1>3. stale \in Parameters /\ fresh \in Parameters
  BY <1>2, ParamsOfChoices
<1>4. /\ debouncedName' = name /\ typeFilter' = type /\ sortModel' = model
      /\ pageSize' = size /\ pageIndex' = 0 /\ pageTokens' = <<NoToken>>
      /\ cache' = Observed(once, fresh)
      /\ previous' = OwnOr(OwnData', OwnOr(DataIn(once, listQueryKey(stale)), previous))
  BY DEF ChangeParams
<1>5. Key' = fresh
  BY <1>4 DEF Key, listQueryKey, listParams, TokenAt
<1> HIDE DEF stale, fresh
<1>6. CacheInv(once)
  BY <1>1, <1>3, ObservedInv
<1> HIDE DEF once
<1>7. CacheInv(cache') /\ fresh \in DOMAIN cache'
  BY <1>3, <1>4, <1>6, ObservedInv
<1>8. previous' \in {None} \cup Answers
  <2>1. OwnOr(DataIn(once, listQueryKey(stale)), previous) \in {None} \cup Answers
    BY <1>1, <1>6, RememberedTyped
  <2>2. OwnData' = DataIn(cache', fresh)
    BY <1>5 DEF OwnData
  <2>3. QED
    BY <1>4, <1>7, <2>1, <2>2, RememberedTyped
<1>9. ChoicesInv'
  BY <1>4 DEF ChoicesInv
<1>10. StackInv(pageIndex', pageTokens')
  BY <1>4, FreshStack
<1>11. QED
  BY <1>5, <1>7, <1>8, <1>9, <1>10 DEF PageInv

\* A step of the cache alone keeps the invariant if it keeps that of the cache and the
\* query the page looks at.
LEMMA CacheStepInv ==
  ASSUME PageInv, CacheInv(cache'), Key \in DOMAIN cache',
         previous' \in {previous, OwnOr(OwnData', previous)},
         UNCHANGED <<choices, pageIndex, pageTokens>>
  PROVE  PageInv'
<1>1. Key' = Key /\ ChoicesInv' /\ StackInv(pageIndex', pageTokens')
  BY DEF PageInv, Key, listQueryKey, listParams, TokenAt, ChoicesInv, choices
<1>2. previous' \in {None} \cup Answers
  <2>1. OwnOr(DataIn(cache', Key), previous) \in {None} \cup Answers
    BY RememberedTyped DEF PageInv
  <2>2. QED
    BY <1>1, <2>1 DEF PageInv, OwnData
<1>3. QED
  BY <1>1, <1>2 DEF PageInv

\* The query of the page fetches again.
LEMMA RefetchInv ==
  ASSUME PageInv, Refetch
  PROVE  PageInv'
<1>1. PICK key \in DOMAIN cache : key = Key
  BY DEF PageInv
<1> DEFINE q == [data   |-> cache[key].data,
                 status |-> IF cache[key].data = None THEN "pending" ELSE cache[key].status,
                 fetch  |-> key]
<1>2. CacheInv(cache) /\ key \in Parameters /\ QueryInv(cache[key], key) /\ listParams = key
  BY <1>1, ListParamsTyped DEF PageInv, CacheInv
<1>3. QueryInv(q, key)
  <2>1. key # None
    BY <1>2, ValuesAssumption
  <2>2. QED
    BY <1>2, <2>1 DEF QueryInv
<1>4. cache' = [cache EXCEPT ![key] = q]
  BY <1>1, <1>2 DEF Refetch
<1> HIDE DEF q
<1>5. CacheInv(cache') /\ Key \in DOMAIN cache'
  BY <1>1, <1>2, <1>3, <1>4, ChangedInv
<1>6. UNCHANGED <<choices, pageIndex, pageTokens, previous>>
  BY DEF Refetch
<1>7. QED
  BY <1>5, <1>6, CacheStepInv

\* An answer falls into the query that has asked for it.
LEMMA ArriveInv ==
  ASSUME PageInv, NEW key \in DOMAIN cache, Arrive(key)
  PROVE  PageInv'
<1> DEFINE q == [data |-> Page(key), status |-> "success", fetch |-> None]
<1>1. CacheInv(cache) /\ key \in Parameters /\ QueryInv(cache[key], key)
  BY DEF PageInv, CacheInv
<1>2. cache[key].fetch = key
  BY <1>1 DEF Arrive, QueryInv
<1>3. QueryInv(q, key)
  <2>1. Page(key) # None
    BY <1>1, PageTyped
  <2>2. QED
    BY <2>1 DEF QueryInv
<1>4. cache' = [cache EXCEPT ![key] = q]
  BY <1>2 DEF Arrive
<1> HIDE DEF q
<1>5. CacheInv(cache') /\ DOMAIN cache' = DOMAIN cache
  BY <1>1, <1>3, <1>4, ChangedInv
<1>6. UNCHANGED <<choices, pageIndex, pageTokens>> /\ previous' = OwnOr(OwnData', previous)
  BY DEF Arrive
<1>7. QED
  BY <1>5, <1>6, CacheStepInv DEF PageInv

LEMMA FailInv ==
  ASSUME PageInv, NEW key \in DOMAIN cache, Fail(key)
  PROVE  PageInv'
<1> DEFINE q == [data |-> cache[key].data, status |-> "error", fetch |-> None]
<1>1. CacheInv(cache) /\ QueryInv(cache[key], key)
  BY DEF PageInv, CacheInv
<1>2. QueryInv(q, key)
  BY <1>1 DEF QueryInv
<1>3. cache' = [cache EXCEPT ![key] = q]
  BY DEF Fail
<1> HIDE DEF q
<1>4. CacheInv(cache') /\ DOMAIN cache' = DOMAIN cache
  BY <1>1, <1>2, <1>3, ChangedInv
<1>5. UNCHANGED <<choices, pageIndex, pageTokens, previous>>
  BY DEF Fail
<1>6. QED
  BY <1>4, <1>5, CacheStepInv DEF PageInv

LEMMA CollectInv ==
  ASSUME PageInv, NEW key \in DOMAIN cache, Collect(key)
  PROVE  PageInv'
<1> DEFINE after == [k \in DOMAIN cache \ {key} |-> cache[k]]
<1>1. cache' = after /\ key # Key /\ UNCHANGED <<choices, pageIndex, pageTokens, previous>>
  BY DEF Collect
<1>2. CacheInv(after)
  BY DEF PageInv, CacheInv
<1>3. Key \in DOMAIN after
  BY <1>1 DEF PageInv
<1> HIDE DEF after
<1>4. QED
  BY <1>1, <1>2, <1>3, CacheStepInv

LEMMA StepInv == PageInv /\ [Next]_vars => PageInv'
<1> SUFFICES ASSUME PageInv, [Next]_vars  PROVE PageInv'
  OBVIOUS
<1>1. /\ nameFilter \in Texts /\ debouncedName \in Texts /\ typeFilter \in Types
      /\ sortModel \in SortModels /\ pageSize \in PageSizes
  BY DEF PageInv, ChoicesInv
<1>2. StackInv(pageIndex, pageTokens)
  BY DEF PageInv
<1>3. ASSUME NEW text \in Texts, TypeText(text)
      PROVE  PageInv'
  <2>1. /\ nameFilter' = text
        /\ UNCHANGED <<debouncedName, typeFilter, sortModel, pageSize, pageIndex,
                       pageTokens, cache, previous>>
    BY <1>3 DEF TypeText
  <2>2. Key' = Key
    BY <2>1 DEF Key, listQueryKey, listParams, TokenAt
  <2>3. QED
    BY <2>1, <2>2 DEF PageInv, ChoicesInv
<1>4. CASE Debounce
  BY <1>1, <1>4, ChangeParamsInv DEF Debounce
<1>5. ASSUME NEW type \in Types, PickType(type)
      PROVE  PageInv'
  BY <1>1, <1>5, ChangeParamsInv DEF PickType
<1>6. ASSUME NEW model \in SortModels, handleSortModelChange(model)
      PROVE  PageInv'
  BY <1>1, <1>6, ChangeParamsInv DEF handleSortModelChange
<1>7. ASSUME NEW size \in PageSizes, Resize(size)
      PROVE  PageInv'
  BY <1>1, <1>7, ChangeParamsInv DEF Resize
<1>8. CASE Forward
  <2>1. PICK token \in Tokens : token = Data.nextPageToken
    BY <1>8, DataOfPage DEF Forward, HasNext, Answers
  <2>2. token # NoToken /\ Turn(pageIndex + 1, Append(pageTokens, token))
    BY <1>8, <2>1 DEF Forward, HasNext, Pushed
  <2>3. StackInv(pageIndex + 1, Append(pageTokens, token))
    BY <1>2, <2>2, PushedInv
  <2>4. QED
    BY <2>2, <2>3, TurnInv
<1>9. CASE Back
  <2>1. pageIndex - 1 \in 0..pageIndex
    BY <1>2, <1>9 DEF StackInv, Back
  <2>2. StackInv(pageIndex - 1, pageTokens)
    BY <1>2, <2>1, MovedInv
  <2>3. QED
    BY <1>9, <2>2, TurnInv DEF Back
<1>10. CASE Clamp
  <2>1. PICK last \in Nat : last = (IF PageCount = 0 THEN 0 ELSE PageCount - 1)
    BY PageCountNat
  <2>2. last \in 0..pageIndex
    BY <1>2, <1>10, <2>1, PageCountNat DEF Clamp, StackInv
  <2>3. Turn(last, pageTokens)
    BY <1>10, <2>1 DEF Clamp
  <2>4. QED
    BY <1>2, <2>2, <2>3, MovedInv, TurnInv
<1>11. CASE Refetch
  BY <1>11, RefetchInv
<1>12. ASSUME NEW key \in DOMAIN cache, Arrive(key) \/ Fail(key) \/ Collect(key)
       PROVE  PageInv'
  BY <1>12, ArriveInv, FailInv, CollectInv
<1>13. CASE UNCHANGED vars
  <2>1. Key' = Key
    BY <1>13 DEF vars, Key, listQueryKey, listParams, TokenAt
  <2>2. QED
    BY <1>13, <2>1 DEF vars, PageInv, ChoicesInv
<1>14. QED
  BY <1>3, <1>4, <1>5, <1>6, <1>7, <1>8, <1>9, <1>10, <1>11, <1>12, <1>13 DEF Next, User

LEMMA AlwaysInv == Spec => []PageInv
BY InitInv, StepInv, PTL DEF Spec

-----------------------------------------------------------------------------
(* What the tokens lead to *)

\* Parameters with another token are the same whatever token they had.
LEMMA OtherToken ==
  ASSUME NEW name, NEW type, NEW model, NEW size, NEW token, NEW other, NEW third
  PROVE  [ListParams(name, type, model, size, token) EXCEPT !.pageToken = third]
           = [ListParams(name, type, model, size, other) EXCEPT !.pageToken = third]
<1>1. PICK by : by = dataGridSortToApi(model)
  OBVIOUS
<1>2. QED
  BY <1>1 DEF ListParams

\* A rendering of the page with the same choices leaves a right stack right.
LEMMA FollowsKept ==
  ASSUME StackFollows, UNCHANGED <<debouncedName, typeFilter, sortModel, pageSize, pageTokens>>
  PROVE  StackFollows'
<1>1. PICK now : now = listParams
  OBVIOUS
<1>2. PICK then : then = listParams'
  OBVIOUS
<1>3. ASSUME NEW token
      PROVE  [now EXCEPT !.pageToken = token] = [then EXCEPT !.pageToken = token]
  BY <1>1, <1>2, OtherToken DEF listParams
<1>4. \A i \in 1..(Len(pageTokens) - 1) :
        pageTokens[i + 1] = Page([now EXCEPT !.pageToken = pageTokens[i]]).nextPageToken
  BY <1>1 DEF StackFollows
<1>5. QED
  BY <1>2, <1>3, <1>4 DEF StackFollows

\* The token of the page shown is pushed behind the one the page was asked for with.
LEMMA FollowsPushed ==
  ASSUME PageInv, StackFollows, Forward, OwnData # None, pageIndex + 1 = Len(pageTokens)
  PROVE  StackFollows'
<1>1. PICK params \in Parameters : params = listParams /\ params = Key
  BY ListParamsTyped DEF PageInv
<1>2. PICK token : token = Data.nextPageToken
  OBVIOUS
<1>3. PICK last : last = pageTokens[pageIndex + 1]
  OBVIOUS
<1>4. StackInv(pageIndex, pageTokens)
  BY DEF PageInv
<1>5. params.pageToken = last
  <2>1. TokenAt(pageIndex) = last /\ last \in Tokens
    BY <1>3, <1>4 DEF TokenAt, StackInv
  <2>2. params = ListParams(debouncedName, typeFilter, sortModel, pageSize, last)
    BY <1>1, <2>1 DEF listParams
  <2>3. /\ debouncedName \in Texts /\ typeFilter \in Types /\ pageSize \in PageSizes
    BY DEF PageInv, ChoicesInv
  <2>4. QED
    BY <2>1, <2>2, <2>3, ParamsOfChoices
<1>6. token = Page(params).nextPageToken
  <2>1. Data = OwnData
    BY DEF Data
  <2>2. OwnData = Page(Key)
    BY DEF PageInv, CacheInv, QueryInv, OwnData, DataIn
  <2>3. QED
    BY <1>1, <1>2, <2>1, <2>2
<1>7. params = [params EXCEPT !.pageToken = last]
  BY <1>5 DEF Parameters
<1>8. /\ pageTokens' = Append(pageTokens, token)
      /\ UNCHANGED <<debouncedName, typeFilter, sortModel, pageSize>>
  BY <1>2 DEF Forward, Turn, Pushed, choices
<1>9. PICK then : then = listParams'
  OBVIOUS
<1>10. ASSUME NEW t
       PROVE  [params EXCEPT !.pageToken = t] = [then EXCEPT !.pageToken = t]
  <2>1. PICK mine : mine = TokenAt(pageIndex)
    OBVIOUS
  <2>2. PICK next : next = TokenAt(pageIndex)'
    OBVIOUS
  <2>3. params = ListParams(debouncedName, typeFilter, sortModel, pageSize, mine)
    BY <1>1, <2>1 DEF listParams
  <2>4. then = ListParams(debouncedName', typeFilter', sortModel', pageSize', next)
    BY <1>9, <2>2 DEF listParams
  <2>5. then = ListParams(debouncedName, typeFilter, sortModel, pageSize, next)
    BY <1>8, <2>4
  <2>6. PICK by : by = dataGridSortToApi(sortModel)
    OBVIOUS
  <2>7. QED
    BY <2>3, <2>5, <2>6 DEF ListParams
<1>11. PICK tokens \in Seq(Tokens) : tokens = pageTokens
  BY <1>4 DEF StackInv
<1>12. PICK after : after = Append(tokens, token)
  OBVIOUS
<1>13. /\ Len(after) = Len(tokens) + 1 /\ Len(tokens) \in Nat
       /\ \A i \in 1..Len(tokens) : after[i] = tokens[i]
       /\ after[Len(tokens) + 1] = token
  BY <1>11, <1>12
<1>14. ASSUME NEW i \in 1..(Len(after) - 1)
       PROVE  after[i + 1] = Page([params EXCEPT !.pageToken = after[i]]).nextPageToken
  <2>1. CASE i = Len(tokens)
    <3>1. after[i] = last /\ after[i + 1] = token
      BY <1>3, <1>11, <1>13, <2>1
    <3>2. QED
      BY <1>6, <1>7, <3>1
  <2>2. CASE i # Len(tokens)
    <3>1. i \in 1..(Len(tokens) - 1) /\ i \in 1..Len(tokens) /\ i + 1 \in 1..Len(tokens)
      BY <1>13, <2>2
    <3>2. tokens[i + 1] = Page([params EXCEPT !.pageToken = tokens[i]]).nextPageToken
      BY <1>1, <1>11, <3>1 DEF StackFollows
    <3>3. QED
      BY <1>13, <3>1, <3>2
  <2>3. QED
    BY <2>1, <2>2
<1>15. QED
  BY <1>8, <1>9, <1>10, <1>11, <1>12, <1>14 DEF StackFollows

\* Any step but a push keeps a right stack right.
LEMMA FollowsElse ==
  ASSUME PageInv, StackFollows, [Next]_vars, ~Forward
  PROVE  StackFollows'
<1>1. ASSUME NEW name, NEW type, NEW model, NEW size, ChangeParams(name, type, model, size)
      PROVE  StackFollows'
  <2>1. pageTokens' = <<NoToken>>
    BY <1>1 DEF ChangeParams
  <2>2. 1..(Len(pageTokens') - 1) = {}
    BY <2>1
  <2>3. QED
    BY <2>2 DEF StackFollows
<1>2. \/ UNCHANGED <<debouncedName, typeFilter, sortModel, pageSize, pageTokens>>
      \/ \E name, type, model, size : ChangeParams(name, type, model, size)
  <2>1. CASE User
    BY <2>1 DEF User, TypeText, PickType, handleSortModelChange, Resize, Back, Turn,
                Refetch, choices
  <2>2. CASE Debounce \/ Clamp
    BY <2>2 DEF Debounce, Clamp, Turn, choices
  <2>3. CASE \E key \in DOMAIN cache : Arrive(key) \/ Fail(key) \/ Collect(key)
    BY <2>3 DEF Arrive, Fail, Collect, choices
  <2>4. CASE UNCHANGED vars
    BY <2>4 DEF vars
  <2>5. QED
    BY <2>1, <2>2, <2>3, <2>4 DEF Next
<1>3. QED
  BY <1>1, <1>2, FollowsKept

-----------------------------------------------------------------------------
(* Theorems *)

\* TypeOK: the fields have values the page offers, the index stays within the stack of
\* tokens, the query of the present parameters is in the cache, a query without data is
\* on its way or has failed, and data is an answer the backend gives.
THEOREM ListTypeCorrect == Spec => []TypeOK
<1>1. PageInv => TypeOK
  <2> SUFFICES ASSUME PageInv  PROVE TypeOK
    OBVIOUS
  <2>1. ASSUME NEW key \in DOMAIN cache
        PROVE  /\ cache[key].status \in {"pending", "success", "error"}
               /\ cache[key].status = "pending" =>
                    cache[key].data = None /\ cache[key].fetch # None
               /\ cache[key].status = "success" => cache[key].data # None
               /\ cache[key].data # None => cache[key].data = Page(cache[key].data.of)
    <3>1. key \in Parameters /\ QueryInv(cache[key], key)
      BY DEF PageInv, CacheInv
    <3>2. Page(key).of = key
      BY <3>1, PageTyped
    <3>3. QED
      BY <3>1, <3>2 DEF QueryInv
  <2>2. QED
    BY <2>1 DEF PageInv, ChoicesInv, StackInv, TypeOK
<1>2. QED
  BY AlwaysInv, <1>1, PTL

\* NeverRestarts: a page beyond the first is asked for with a token, so it never shows the
\* first page again.
THEOREM NoRestart == Spec => []NeverRestarts
<1>1. PageInv => NeverRestarts
  <2> SUFFICES ASSUME PageInv, pageIndex > 0  PROVE TokenAt(pageIndex) # NoToken
    BY DEF NeverRestarts
  <2>1. /\ pageTokens \in Seq(Tokens) /\ pageIndex \in 0..(Len(pageTokens) - 1)
        /\ \A i \in 2..Len(pageTokens) : pageTokens[i] # NoToken
    BY DEF PageInv, StackInv
  <2>2. pageIndex + 1 \in 2..Len(pageTokens) /\ pageIndex < Len(pageTokens)
    BY <2>1
  <2>3. QED
    BY <2>1, <2>2 DEF TokenAt
<1>2. QED
  BY AlwaysInv, <1>1, PTL

\* RowsMatchParams: the data the page has of its own answers the request its filters,
\* order, size and token stand for, in whatever order late answers arrive.
THEOREM RowsAnswerParams == Spec => []RowsMatchParams
<1>1. PageInv => RowsMatchParams
  <2> SUFFICES ASSUME PageInv, OwnData # None  PROVE OwnData.of = listParams
    BY DEF RowsMatchParams
  <2>1. Key \in Parameters /\ Key = listParams
    BY ListParamsTyped DEF PageInv
  <2>2. OwnData = cache[Key].data /\ QueryInv(cache[Key], Key)
    BY DEF PageInv, CacheInv, OwnData, DataIn
  <2>3. OwnData = Page(Key)
    BY <2>2 DEF QueryInv
  <2>4. QED
    BY <2>1, <2>3, PageTyped
<1>2. QED
  BY AlwaysInv, <1>1, PTL

\* StackKeptRight: only a button pressed while the data shown is that of before, or not on
\* the last page of the stack, puts a wrong token on a right stack.
THEOREM PushesKeepStack == Spec => StackKeptRight
<1>1. PageInv /\ [Next]_vars =>
        (StackFollows
           /\ (Len(pageTokens') > Len(pageTokens) =>
                 OwnData # None /\ pageIndex + 1 = Len(pageTokens))
         => StackFollows')
  <2> SUFFICES ASSUME PageInv, [Next]_vars, StackFollows,
                      Len(pageTokens') > Len(pageTokens) =>
                        OwnData # None /\ pageIndex + 1 = Len(pageTokens)
               PROVE  StackFollows'
    OBVIOUS
  <2>1. CASE Forward
    <3>1. pageTokens \in Seq(Tokens)
      BY DEF PageInv, StackInv
    <3>2. PICK token \in Tokens : token = Data.nextPageToken
      BY <2>1, DataOfPage DEF Forward, HasNext, Answers
    <3>3. pageTokens' = Append(pageTokens, token)
      BY <2>1, <3>2 DEF Forward, Turn, Pushed
    <3>4. Len(pageTokens') > Len(pageTokens)
      BY <3>1, <3>3
    <3>5. QED
      BY <2>1, <3>4, FollowsPushed
  <2>2. CASE ~Forward
    BY <2>2, FollowsElse
  <2>3. QED
    BY <2>1, <2>2
<1>2. QED
  BY <1>1, AlwaysInv, PTL DEF Spec, StackKeptRight

\* For any table the token of a page leads to what the page has left over: the rows
\* of the next page and those after it are the rows of this one and after it without those
\* shown, so that nothing is shown twice and nothing skipped.
THEOREM PagesPartition ==
  ASSUME NEW params \in Parameters, Page(params).nextPageToken # NoToken
  PROVE  LET next == [params EXCEPT !.pageToken = Page(params).nextPageToken]
         IN  /\ next \in Parameters /\ ~Refused(next)
             /\ Rest(next) = Rest(params) \ Page(params).ingredients
             /\ Page(next).ingredients \cap Page(params).ingredients = {}
<1> DEFINE before(r) == {q \in Rest(params) : Place(q, params.by) < Place(r, params.by)}
           shown == {r \in Rest(params) : Cardinality(before(r)) < params.pageSize}
           places == {Place(r, params.by) : r \in shown}
           token == [by |-> params.by, pageSize |-> params.pageSize, after |-> Max(places)]
<1>1. /\ Page(params).ingredients = shown
      /\ Page(params).nextPageToken = IF shown = Rest(params) THEN NoToken ELSE token
  BY DEF Page
<1>2. Page(params).nextPageToken = token /\ token # NoToken /\ shown # Rest(params)
  BY <1>1
<1>3. shown # {} /\ shown \in SUBSET Rows /\ Rest(params) \in SUBSET Rows
  BY <1>1, <1>2, PageNotEmpty, RestInRows
<1>4. places # {} /\ places \subseteq Nat /\ IsFiniteSet(places)
  <2> HIDE DEF shown
  <2>1. QED
    BY <1>3, PlacesFinite
<1>5. Max(places) \in places /\ \A p \in places : p <= Max(places)
  <2> HIDE DEF places
  <2>1. QED
    BY <1>4, MaxOf
<1>6. PICK last \in shown : Place(last, params.by) = Max(places)
  BY <1>5
<1>7. \A r \in Rest(params) : Place(r, params.by) \in Nat
  BY <1>3, PlaceTyped
<1>8. ASSUME NEW r \in Rest(params), Place(r, params.by) <= Max(places)
      PROVE  r \in shown
  <2>1. before(r) \subseteq before(last)
    <3>1. SUFFICES ASSUME NEW q \in Rest(params), Place(q, params.by) < Place(r, params.by)
                   PROVE  Place(q, params.by) < Place(last, params.by)
      OBVIOUS
    <3>2. last \in Rest(params)
      OBVIOUS
    <3>3. /\ Place(q, params.by) \in Nat /\ Place(r, params.by) \in Nat
          /\ Place(last, params.by) \in Nat
          /\ Place(r, params.by) <= Place(last, params.by)
      BY <1>6, <1>7, <1>8, <3>2
    <3> HIDE DEF before, shown, places
    <3>4. QED
      BY <3>1, <3>3
  <2>2. IsFiniteSet(before(last))
    <3>1. IsFiniteSet(Rows)
      BY TableAssumption
    <3>2. before(last) \in SUBSET Rows
      BY <1>3
    <3> HIDE DEF before
    <3>3. QED
      BY <3>1, <3>2, FS_Subset
  <2>3. /\ Cardinality(before(r)) <= Cardinality(before(last))
        /\ Cardinality(before(r)) \in Nat /\ Cardinality(before(last)) \in Nat
    <3> HIDE DEF before
    <3>1. QED
      BY <2>1, <2>2, FS_Subset, FS_CardinalityType
  <2>4. Cardinality(before(last)) < params.pageSize /\ params.pageSize \in Nat
    BY <1>6, DefaultAssumption DEF Parameters
  <2>5. Cardinality(before(r)) < params.pageSize
    <3> HIDE DEF before
    <3>1. QED
      BY <2>3, <2>4
  <2>6. QED
    BY <2>5
<1>9. ASSUME NEW r \in shown
      PROVE  Place(r, params.by) <= Max(places)
  BY <1>5
<1>10. Page(params).nextPageToken \in Tokens
  BY PageTyped DEF Answers
<1> DEFINE next == [params EXCEPT !.pageToken = Page(params).nextPageToken]
<1> HIDE DEF places, shown
<1>11. /\ next \in Parameters /\ next.by = params.by /\ next.name = params.name
       /\ next.type = params.type /\ next.pageSize = params.pageSize
       /\ next.pageToken = token
  BY <1>2, <1>10 DEF Parameters
<1>12. ~Refused(next)
  BY <1>11 DEF Refused
<1> HIDE DEF next
<1>13. Rest(next) = {r \in Matching[params.name][params.type] :
                       Place(r, params.by) > Max(places)}
  BY <1>2, <1>11 DEF Rest
<1>14. \A r \in Matching[params.name][params.type] : Place(r, params.by) \in Nat
  BY RestInRows, PlaceTyped
<1>15. Max(places) \in Nat
  BY <1>4, <1>5
<1>16. Rest(next) \subseteq Rest(params)
  <2>1. CASE params.pageToken = NoToken
    BY <1>13, <2>1 DEF Rest
  <2>2. CASE params.pageToken # NoToken
    <3>1. params.pageToken.after \in Nat
      BY <2>2 DEF Parameters, Tokens
    <3>2. Place(last, params.by) > params.pageToken.after
      BY <1>6, <2>2 DEF shown, Rest
    <3>3. QED
      BY <1>6, <1>13, <1>14, <1>15, <3>1, <3>2 DEF Rest
  <2>3. QED
    BY <2>1, <2>2
<1>17. Rest(next) = Rest(params) \ shown
  <2>1. Rest(params) \subseteq Matching[params.name][params.type]
    BY DEF Rest
  <2>2. ASSUME NEW r \in Rest(params)
        PROVE  r \in Rest(next) <=> r \notin shown
    BY <1>7, <1>8, <1>9, <1>13, <1>15, <2>1
  <2>3. QED
    BY <1>16, <2>2
<1>18. Page(next).ingredients \subseteq Rest(next)
  BY DEF Page
<1>19. QED
  BY <1>1, <1>11, <1>12, <1>17, <1>18 DEF next

=============================================================================
