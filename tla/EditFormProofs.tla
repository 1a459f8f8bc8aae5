---------------------------- MODULE EditFormProofs ----------------------------
(***************************************************************************)
(* Theorems about EditForm: for any fields and any number of versions, the *)
(* data a page shows is a state the ingredient was in, and a save writes   *)
(* what the user saw over what the form showed changes of, whatever was    *)
(* refetched, paused, lost or changed by others in between.                *)
(***************************************************************************)
EXTENDS EditForm, TLAPS

-----------------------------------------------------------------------------
(* The invariant *)

\* An ingredient somebody was shown: an older state of the row, or the present one if
\* the versions agree.
Real(i) ==
  /\ i \in Ingredient
  /\ row # Absent
  /\ row \in Ingredient =>
       /\ i.version <= row.version
       /\ i.version = row.version => i.fields = row.fields

QueryOK(q) ==
  /\ q \in Queries
  /\ q.data # None => Real(q.data)
  /\ q.answer \in Ingredient => Real(q.answer)
  /\ q.status = "success" => q.data # None
  /\ q.status = "pending" => q.data = None

FormInv ==
  /\ (form # None) <=> HasForm(page, query)
  /\ form # None => form \in Values

\* A save that was sent carries the difference to the data the user saw, and its
\* version.
SaveOK(s) ==
  /\ s \in Saves /\ Valid(s.values)
  /\ s.saw # None => Real(s.saw)
  /\ s.phase # "paused" /\ ~s.create =>
       /\ s.saw # None
       /\ s.version = s.saw.version
       /\ s.patch = Patch(s.values, s.saw)
       /\ \E f \in DOMAIN s.patch : s.patch[f] # None
  /\ s.phase = "OK" => Real(s.reply)

\* One that waits does so because there is no connection.
SaveInv ==
  save # None =>
    /\ SaveOK(save)
    /\ save.phase = "paused" => ~online

IInv ==
  /\ row \in {Absent, Gone} \cup Ingredient
  /\ online \in BOOLEAN /\ conflict \in BOOLEAN
  /\ page \in Pages /\ removal \in {"none", "asked", "OK"}
  /\ QueryOK(query) /\ FormInv /\ SaveInv

-----------------------------------------------------------------------------
(* Data *)

LEMMA IngredientParts ==
  ASSUME NEW i \in Ingredient
  PROVE  /\ i.version \in 1..MaxVersion /\ i.version \in Nat
         /\ i.fields \in Values
         /\ i = [version |-> i.version, fields |-> i.fields]
<1>1. i.version \in 1..MaxVersion /\ i.fields \in {v \in Values : v.name # ""}
  BY DEF Ingredient
<1>2. i = [version |-> i.version, fields |-> i.fields]
  BY DEF Ingredient
<1>3. i.version \in Nat
  <2>1. PICK n \in 1..MaxVersion : n = i.version
    BY <1>1
  <2>2. MaxVersion \in Nat
    BY VersionAssumption
  <2>3. n \in Nat
    BY <2>1, <2>2
  <2>4. QED
    BY <2>1, <2>3
<1>4. QED
  BY <1>1, <1>2, <1>3

LEMMA IngredientOf ==
  ASSUME NEW n \in 1..MaxVersion, NEW v \in Values, Valid(v)
  PROVE  [version |-> n, fields |-> v] \in Ingredient
BY DEF Ingredient, Valid

\* A form, the difference to the data and what is made of it.
LEMMA PatchTyped ==
  ASSUME NEW v \in Values, NEW i \in Ingredient
  PROVE  /\ Patch(v, i) \in Patches
         /\ DOMAIN Patch(v, i) = {"name", "description"}
BY DEF Values, Ingredient, Patch, Patches

\* A difference laid over the data it was taken to gives the values of the form.
LEMMA PatchMakesValues ==
  ASSUME NEW v \in Values, NEW i \in Ingredient
  PROVE  Patched(i, Patch(v, i)).fields = v
<1>1. v.name # None /\ v.description # None
  BY ValuesAssumption DEF Values
<1>2. QED
  BY <1>1 DEF Values, Ingredient, Patch, Patched

\* No difference is no change.
LEMMA NoPatchNoChange ==
  ASSUME NEW v \in Values, NEW i \in Ingredient,
         \A f \in DOMAIN Patch(v, i) : Patch(v, i)[f] = None
  PROVE  v = i.fields
<1>1. v["name"] # None /\ v["description"] # None /\ DOMAIN v = {"name", "description"}
  BY ValuesAssumption DEF Values
<1>2. i.fields \in Values
  BY IngredientParts
<1>3. v["name"] = i.fields["name"] /\ v["description"] = i.fields["description"]
  <2>1. Patch(v, i)["name"] = None /\ Patch(v, i)["description"] = None
    BY PatchTyped
  <2>2. QED
    BY <1>1, <2>1 DEF Patch
<1>4. QED
  BY <1>2, <1>3 DEF Values

\* What any step may do to the row: nothing, or what makes the ingredient, the next
\* version of it, or an end of it.
RowStep ==
  \/ row' = row
  \/ row = Absent /\ row' \in Ingredient
  \/ row \in Ingredient /\ row' = Gone
  \/ row \in Ingredient /\ row' \in Ingredient /\ row'.version = row.version + 1

LEMMA RealStays ==
  ASSUME row \in {Absent, Gone} \cup Ingredient, RowStep, NEW i, Real(i)
  PROVE  Real(i)'
<1>1. i \in Ingredient /\ row # Absent
  BY DEF Real
<1>2. CASE row' = row
  BY <1>2 DEF Real
<1>3. CASE row \in Ingredient /\ row' = Gone
  BY <1>1, <1>3, ValuesAssumption DEF Real
<1>4. CASE row \in Ingredient /\ row' \in Ingredient /\ row'.version = row.version + 1
  <2>1. i.version \in Nat /\ row.version \in Nat
    BY <1>1, <1>4, IngredientParts
  <2>2. i.version <= row.version
    BY <1>4 DEF Real
  <2>3. i.version <= row'.version /\ i.version # row'.version
    BY <1>4, <2>1, <2>2
  <2>4. QED
    BY <1>1, <1>4, <2>3, ValuesAssumption DEF Real
<1>5. QED
  BY <1>1, <1>2, <1>3, <1>4 DEF RowStep

LEMMA RealNow ==
  ASSUME row \in Ingredient
  PROVE  Real(row)
<1>1. row.version \in Nat
  BY IngredientParts
<1>2. row # Absent /\ row.version <= row.version
  BY <1>1, ValuesAssumption
<1>3. QED
  BY <1>2 DEF Real

LEMMA QueryStays ==
  ASSUME row \in {Absent, Gone} \cup Ingredient, RowStep, NEW q, QueryOK(q)
  PROVE  QueryOK(q)'
BY RealStays DEF QueryOK

LEMMA SaveStays ==
  ASSUME row \in {Absent, Gone} \cup Ingredient, RowStep, NEW s, SaveOK(s)
  PROVE  SaveOK(s)'
BY RealStays DEF SaveOK

-----------------------------------------------------------------------------
(* The query and the form *)

LEMMA NoDataOK == QueryOK(NoData)
BY ValuesAssumption DEF QueryOK, NoData, Queries

LEMMA FetchOK ==
  ASSUME NEW q, QueryOK(q)
  PROVE  QueryOK(Fetch(q)) /\ Fetch(q).data = q.data
BY ValuesAssumption DEF QueryOK, Fetch, Queries

LEMMA FailedOK ==
  ASSUME NEW q, QueryOK(q), NEW outcome
  PROVE  QueryOK(Failed(q, outcome)) /\ Failed(q, outcome).data = q.data
BY ValuesAssumption DEF QueryOK, Failed, Queries

LEMMA SetOK ==
  ASSUME QueryOK(query), NEW i, Real(i)
  PROVE  QueryOK(Set(i)) /\ Set(i).data = i
BY ValuesAssumption DEF QueryOK, Set, Queries, Real

\* Whatever is rendered, there is a form where the page shows one, with values in it.
LEMMA RenderOK ==
  ASSUME FormInv, query' \in Queries, NEW changed, Render(changed)
  PROVE  FormInv'
<1>1. DefaultValues(page', query') \in Values
  BY ValuesAssumption DEF DefaultValues, Queries, Ingredient
<1>2. None \notin Values
  BY ValuesAssumption
<1>3. CASE ~HasForm(page', query')
  BY <1>3 DEF Render, FormInv
<1>4. CASE HasForm(page', query')
  <2>1. form' \in Values
    BY <1>1, <1>2, <1>4 DEF Render, FormInv
  <2>2. QED
    BY <1>2, <1>4, <2>1 DEF FormInv
<1>5. QED
  BY <1>3, <1>4

\* A save under way stays what it is.
LEMMA SaveKept ==
  ASSUME row \in {Absent, Gone} \cup Ingredient, RowStep, SaveInv,
         \/ save' = save
         \/ save' = IF save # None THEN [save EXCEPT !.left = TRUE] ELSE None,
         save # None /\ save.phase = "paused" => ~online'
  PROVE  SaveInv'
<1>1. CASE save = None
  BY <1>1 DEF SaveInv
<1>2. CASE save # None
  <2>1. SaveOK(save) /\ (save.phase = "paused" => ~online)
    BY <1>2 DEF SaveInv
  <2>2. PICK s : s = save'
    OBVIOUS
  <2>3. /\ s \in Saves /\ s.phase = save.phase /\ s.create = save.create
        /\ s.values = save.values /\ s.saw = save.saw /\ s.version = save.version
        /\ s.patch = save.patch /\ s.reply = save.reply
    BY <1>2, <2>1, <2>2 DEF SaveOK, Saves
  <2>4. SaveOK(s)
    BY <2>1, <2>3 DEF SaveOK
  <2>5. SaveOK(s)'
    BY <2>4, SaveStays
  <2>6. QED
    BY <1>2, <2>1, <2>2, <2>3, <2>5 DEF SaveInv
<1>3. QED
  BY <1>1, <1>2

-----------------------------------------------------------------------------
(* Steps of the query *)

LEMMA QueryStepInv ==
  ASSUME IInv, NEW q, QueryOK(q), NEW changed, QueryStep(q, changed)
  PROVE  IInv'
<1>1. query' = q /\ Render(changed) /\ UNCHANGED <<row, online, page, save, conflict, removal>>
  BY DEF QueryStep
<1>2. RowStep /\ row \in {Absent, Gone} \cup Ingredient
  BY <1>1 DEF RowStep, IInv
<1>3. QueryOK(query)'
  <2>1. PICK p : p = q
    OBVIOUS
  <2>2. QueryOK(p)'
    BY <1>2, <2>1, QueryStays
  <2>3. QED
    BY <1>1, <2>1, <2>2 DEF QueryOK, Real
<1>4. FormInv'
  BY <1>1, RenderOK DEF IInv, QueryOK
<1>5. SaveInv'
  <2>1. save # None /\ save.phase = "paused" => ~online
    BY DEF IInv, SaveInv
  <2>2. QED
    BY <1>1, <1>2, <2>1, SaveKept DEF IInv
<1>6. QED
  BY <1>1, <1>3, <1>4, <1>5 DEF IInv

LEMMA ServeFetchInv == ASSUME IInv, ServeFetch  PROVE IInv'
<1> DEFINE q == [query EXCEPT !.fetch = "answered", !.answer = row]
<1>1. QueryStep(q, FALSE) /\ online
  BY DEF ServeFetch
<1>2. QueryOK(query) /\ (row \in Ingredient => Real(row)) /\ row \in {Absent, Gone} \cup Ingredient
  BY RealNow DEF IInv
<1>3. QueryOK(q)
  BY <1>2 DEF QueryOK, Queries
<1> HIDE DEF q
<1>4. QED
  BY <1>1, <1>3, QueryStepInv

LEMMA ArriveInv == ASSUME IInv, Arrive  PROVE IInv'
<1> DEFINE q == [data |-> query.answer, status |-> "success", stale |-> FALSE,
                 fetch |-> "idle", answer |-> None]
<1>1. online /\ query.answer \in Ingredient /\ \E changed \in BOOLEAN : QueryStep(q, changed)
  BY DEF Arrive
<1>2. QueryOK(q)
  BY <1>1, ValuesAssumption DEF IInv, QueryOK, Queries
<1> HIDE DEF q
<1>3. QED
  BY <1>1, <1>2, QueryStepInv

LEMMA FetchFailsInv == ASSUME IInv, FetchFails  PROVE IInv'
BY FailedOK, QueryStepInv DEF FetchFails, IInv

LEMMA AgeInv == ASSUME IInv, Age  PROVE IInv'
<1> DEFINE q == [query EXCEPT !.stale = TRUE]
<1>1. QueryStep(q, FALSE)
  BY DEF Age
<1>2. QueryOK(q) /\ q.data = query.data
  BY DEF IInv, QueryOK, Queries
<1> HIDE DEF q
<1>3. QED
  BY <1>1, <1>2, QueryStepInv

\* Focus, Retry and Continue only fetch.
LEMMA FetchInv ==
  ASSUME IInv, Focus \/ Retry \/ Continue
  PROVE  IInv'
BY FetchOK, QueryStepInv DEF Focus, Retry, Continue, IInv

LEMMA IconUploadedInv == ASSUME IInv, IconUploaded  PROVE IInv'
<1> DEFINE q == [query EXCEPT !.stale = TRUE]
<1>1. QueryStep(Fetch(q), FALSE)
  BY DEF IconUploaded
<1>2. QueryOK(q) /\ q.data = query.data
  BY DEF IInv, QueryOK, Queries
<1> HIDE DEF q
<1>3. QED
  BY <1>1, <1>2, FetchOK, QueryStepInv

LEMMA CollectInv == ASSUME IInv, Collect  PROVE IInv'
<1>1. NoData.data = None
  BY DEF NoData
<1>2. QED
  BY <1>1, NoDataOK, QueryStepInv DEF Collect

-----------------------------------------------------------------------------
(* Steps of the save *)

\* The ingredient goes into the query, and the save is over.
LEMMA FinishOK ==
  ASSUME IInv, NEW i, Real(i), Finish(i), UNCHANGED row
  PROVE  /\ QueryOK(query)' /\ SaveInv' /\ page' \in Pages /\ conflict' \in BOOLEAN
<1>1. query' = Set(i) /\ page' = "detail" /\ conflict' = FALSE /\ save' = None
  BY DEF Finish
<1>2. QueryOK(Set(i))
  BY SetOK DEF IInv
<1>3. QueryOK(query)'
  <2>1. PICK p : p = Set(i)
    OBVIOUS
  <2>2. RowStep /\ row \in {Absent, Gone} \cup Ingredient
    BY DEF RowStep, IInv
  <2>3. QueryOK(p)'
    BY <1>2, <2>1, <2>2, QueryStays
  <2>4. QED
    BY <1>1, <2>1, <2>3 DEF QueryOK, Real
<1>4. QED
  BY <1>1, <1>3 DEF SaveInv, Pages

\* Nothing happens to the query and the page.
LEMMA StayOK ==
  ASSUME IInv, Stay, RowStep
  PROVE  QueryOK(query)' /\ page' \in Pages /\ conflict' \in BOOLEAN
<1>1. QueryOK(query)'
  <2>1. PICK p : p = query
    OBVIOUS
  <2>2. QueryOK(p)'
    BY <2>1, QueryStays DEF IInv
  <2>3. QED
    BY <2>1, <2>2 DEF Stay, QueryOK, Real
<1>2. QED
  BY <1>1 DEF Stay, IInv

\* mutationFn, of a save with the data the user saw.
LEMMA MutateOK ==
  ASSUME IInv, NEW asked, SaveOK(asked), asked.phase = "paused",
         Mutate(asked), UNCHANGED row
  PROVE  QueryOK(query)' /\ SaveInv' /\ page' \in Pages /\ conflict' \in BOOLEAN
<1>1. RowStep /\ row \in {Absent, Gone} \cup Ingredient
  BY DEF RowStep, IInv
<1>2. asked \in Saves /\ Valid(asked.values) /\ asked.values \in Values
  BY DEF SaveOK, Saves
<1>3. CASE asked.create /\ save' = [asked EXCEPT !.phase = "sent"] /\ Stay
  <2>1. PICK s : s = [asked EXCEPT !.phase = "sent"]
    OBVIOUS
  <2>2. /\ s \in Saves /\ s.phase = "sent" /\ s.create /\ s.values = asked.values
        /\ s.saw = asked.saw
    BY <1>2, <1>3, <2>1 DEF Saves
  <2>3. SaveOK(s)
    BY <1>3, <2>2 DEF SaveOK
  <2>4. SaveOK(s)'
    BY <1>1, <2>3, SaveStays
  <2>5. SaveInv'
    BY <1>3, <2>1, <2>2, <2>4 DEF SaveInv
  <2>6. QED
    BY <1>1, <1>3, <2>5, StayOK
<1>4. CASE save' = None /\ Stay
  BY <1>1, <1>4, StayOK DEF SaveInv
<1>5. CASE ~asked.create /\ asked.saw # None
  <2> DEFINE patch == Patch(asked.values, asked.saw)
  <2>1. Real(asked.saw) /\ asked.saw \in Ingredient
    BY <1>5 DEF SaveOK, Real
  <2>2. patch \in Patches
    BY <1>2, <2>1, PatchTyped
  <2>3. CASE \A f \in DOMAIN patch : patch[f] = None
    <3>1. Finish(asked.saw)
      BY <1>5, <2>3 DEF Mutate
    <3>2. QED
      BY <2>1, <3>1, FinishOK
  <2>4. CASE ~(\A f \in DOMAIN patch : patch[f] = None)
    <3>1. /\ save' = [asked EXCEPT !.phase = "sent", !.patch = patch,
                                   !.version = asked.saw.version]
          /\ Stay
      BY <1>5, <2>4 DEF Mutate
    <3>2. PICK s : s = save'
      OBVIOUS
    <3>3. PICK version \in 1..MaxVersion : version = asked.saw.version
      BY <2>1, IngredientParts
    <3>4. version \in 0..MaxVersion
      BY VersionAssumption
    <3>5. PICK difference \in Patches : difference = patch
      BY <2>2
    <3> HIDE DEF patch
    <3>6. s = [asked EXCEPT !.phase = "sent", !.patch = difference, !.version = version]
      BY <3>1, <3>2, <3>3, <3>5
    <3>7. /\ s \in Saves /\ s.phase = "sent" /\ s.create = asked.create
          /\ s.values = asked.values /\ s.saw = asked.saw
          /\ s.version = version /\ s.patch = difference
      BY <1>2, <3>4, <3>6 DEF Saves
    <3>8. s.saw # None
      BY <1>5, <2>1, <3>7
    <3>9. s.patch = Patch(s.values, s.saw) /\ s.version = s.saw.version
      BY <2>1, <3>3, <3>5, <3>7 DEF patch
    <3>10. \E f \in DOMAIN s.patch : s.patch[f] # None
      BY <2>4, <3>5, <3>7
    <3>11. SaveOK(s)
      BY <1>2, <2>1, <3>7, <3>8, <3>9, <3>10 DEF SaveOK
    <3>12. SaveOK(s)'
      BY <1>1, <3>11, SaveStays
    <3>13. SaveInv'
      BY <3>2, <3>7, <3>12 DEF SaveInv
    <3>14. QED
      BY <1>1, <3>1, <3>13, StayOK
  <2>5. QED
    BY <2>3, <2>4
<1>6. QED
  BY <1>3, <1>4, <1>5 DEF Mutate

\* What the button of the form asks for.
LEMMA AskedOK ==
  ASSUME IInv, form # None, Valid(form),
         NEW asked, asked = [phase |-> "paused", create |-> page = "new", values |-> form,
                             saw |-> query.data, version |-> 0, patch |-> None,
                             reply |-> None, left |-> FALSE]
  PROVE  SaveOK(asked) /\ asked.phase = "paused" /\ asked.saw = query.data
<1>1. query.data # None => Real(query.data)
  BY DEF IInv, QueryOK
<1>2. query.data \in {None} \cup Ingredient /\ form \in Values
  BY DEF IInv, QueryOK, Queries, FormInv
<1>3. 0 \in 0..MaxVersion
  BY VersionAssumption
<1>4. asked \in Saves
  BY <1>2, <1>3 DEF Saves
<1>5. QED
  BY <1>1, <1>4 DEF SaveOK

LEMMA SubmitInv == ASSUME IInv, Submit  PROVE IInv'
<1> DEFINE ask == [phase |-> "paused", create |-> page = "new", values |-> form,
                   saw |-> query.data, version |-> 0, patch |-> None, reply |-> None,
                   left |-> FALSE]
<1>1. /\ form # None /\ Valid(form)
      /\ IF online THEN Mutate(ask) ELSE save' = ask /\ Stay
      /\ Render(FALSE)
      /\ UNCHANGED <<row, online, removal>>
  BY DEF Submit
<1>2. PICK asked : asked = ask
  OBVIOUS
<1> HIDE DEF ask
<1>3. SaveOK(asked) /\ asked.phase = "paused" /\ asked.saw = query.data
  BY <1>1, <1>2, AskedOK DEF ask
<1>4. RowStep /\ row \in {Absent, Gone} \cup Ingredient
  BY <1>1 DEF RowStep, IInv
<1>5. QueryOK(query)' /\ SaveInv' /\ page' \in Pages /\ conflict' \in BOOLEAN
  <2>1. CASE online
    BY <1>1, <1>2, <1>3, <2>1, MutateOK
  <2>2. CASE ~online
    <3>1. save' = asked /\ Stay
      BY <1>1, <1>2, <2>2
    <3>2. SaveOK(asked)'
      BY <1>3, <1>4, SaveStays
    <3>3. SaveInv'
      BY <1>1, <1>3, <2>2, <3>1, <3>2 DEF SaveInv, Stay
    <3>4. QED
      BY <1>4, <3>1, <3>3, StayOK
  <2>3. QED
    BY <2>1, <2>2
<1>6. FormInv'
  BY <1>1, <1>5, RenderOK DEF IInv, QueryOK
<1>7. QED
  BY <1>1, <1>5, <1>6 DEF IInv

LEMMA ReconnectInv == ASSUME IInv, Reconnect  PROVE IInv'
<1>1. /\ ~online /\ online' = TRUE
      /\ IF save # None /\ save.phase = "paused" THEN Mutate(save) ELSE save' = save /\ Stay
      /\ Render(FALSE) /\ UNCHANGED <<row, removal>>
  BY DEF Reconnect
<1>2. RowStep /\ row \in {Absent, Gone} \cup Ingredient
  BY <1>1 DEF RowStep, IInv
<1>3. QueryOK(query)' /\ SaveInv' /\ page' \in Pages /\ conflict' \in BOOLEAN
  <2>1. CASE save # None /\ save.phase = "paused"
    <3>1. SaveOK(save) /\ Mutate(save)
      BY <1>1, <2>1 DEF IInv, SaveInv
    <3>2. QED
      BY <1>1, <2>1, <3>1, MutateOK
  <2>2. CASE ~(save # None /\ save.phase = "paused")
    <3>1. save' = save /\ Stay
      BY <1>1, <2>2
    <3>2. SaveInv'
      BY <1>2, <2>2, <3>1, SaveKept DEF IInv
    <3>3. QED
      BY <1>2, <3>1, <3>2, StayOK
  <2>3. QED
    BY <2>1, <2>2
<1>4. FormInv'
  BY <1>1, <1>3, RenderOK DEF IInv, QueryOK
<1>5. QED
  BY <1>1, <1>3, <1>4 DEF IInv

\* The form and what it depends on are left alone.
LEMMA FormKept ==
  ASSUME FormInv, UNCHANGED <<page, query, form>>
  PROVE  FormInv'
BY DEF FormInv, HasForm, IsError, InFlight

\* What a save makes of the row is the values of the form.
LEMMA PatchedRow ==
  ASSUME IInv, save # None, ~save.create, save.phase = "sent",
         row \in Ingredient, row.version = save.version, row.version < MaxVersion
  PROVE  /\ row = save.saw
         /\ Patched(row, save.patch) \in Ingredient
         /\ Patched(row, save.patch).fields = save.values
         /\ Patched(row, save.patch).version = row.version + 1
<1>1. SaveOK(save) /\ save \in Saves /\ save.values \in Values /\ Valid(save.values)
  BY DEF IInv, SaveInv, SaveOK, Saves
<1>2. Real(save.saw) /\ save.saw \in Ingredient /\ save.version = save.saw.version
      /\ save.patch = Patch(save.values, save.saw)
  BY <1>1 DEF SaveOK, Real
<1>3. row.fields = save.saw.fields /\ row.version = save.saw.version
  BY <1>2 DEF Real
<1>4. row = save.saw
  <2>1. /\ row = [version |-> row.version, fields |-> row.fields]
        /\ save.saw = [version |-> save.saw.version, fields |-> save.saw.fields]
    BY <1>2, IngredientParts
  <2>2. QED
    BY <1>3, <2>1
<1>5. Patched(row, save.patch).fields = save.values
  BY <1>1, <1>2, <1>4, PatchMakesValues
<1>6. Patched(row, save.patch).version = row.version + 1
  BY DEF Patched
<1>7. row.version + 1 \in 1..MaxVersion
  <2>1. PICK n \in Nat : n = row.version
    BY IngredientParts
  <2>2. n >= 1 /\ n < MaxVersion /\ MaxVersion \in Nat
    BY <2>1, IngredientParts, VersionAssumption
  <2>3. QED
    BY <2>1, <2>2
<1>8. Patched(row, save.patch) \in Ingredient
  <2>1. Patched(row, save.patch) =
          [version |-> row.version + 1, fields |-> Patched(row, save.patch).fields]
    BY DEF Patched
  <2>2. Patched(row, save.patch) = [version |-> row.version + 1, fields |-> save.values]
    BY <1>5, <2>1
  <2>3. QED
    BY <1>1, <1>7, <2>2, IngredientOf
<1>9. QED
  BY <1>4, <1>5, <1>6, <1>8

\* The save after its answer.
LEMMA AnsweredOK ==
  ASSUME IInv, save # None, save.phase = "sent", RowStep,
         NEW outcome, NEW reply, Answered(outcome, reply),
         \/ /\ outcome \in {"INTERNAL_ERROR", "ALREADY_EXISTS", "VERSION_CONFLICT",
                             "NOT_FOUND"}
            /\ reply = None
         \/ outcome = "OK" /\ reply \in Ingredient /\ row' = reply
  PROVE  SaveInv'
<1>1. save \in Saves /\ SaveOK(save)
  BY DEF IInv, SaveInv, SaveOK
<1>2. reply \in {None} \cup Ingredient
  OBVIOUS
<1>3. outcome \in updateIngredient /\ outcome # "paused"
  BY DEF updateIngredient, createIngredient, InternalError, Conflict, NotFound
<1>4. PICK s : s = [save EXCEPT !.phase = outcome, !.reply = reply]
  OBVIOUS
<1>5. /\ s \in Saves /\ s.phase = outcome /\ s.reply = reply
      /\ s.create = save.create /\ s.values = save.values /\ s.saw = save.saw
      /\ s.version = save.version /\ s.patch = save.patch
  BY <1>1, <1>2, <1>3, <1>4 DEF Saves
<1>6. PICK old : old = save
  OBVIOUS
<1>7. SaveOK(old)'
  BY <1>1, <1>6, SaveStays DEF IInv
<1>8. SaveOK(s)'
  <2>1. s.phase = "OK" => Real(s.reply)'
    <3>1. SUFFICES ASSUME reply \in Ingredient, row' = reply  PROVE Real(reply)'
      BY <1>5
    <3>2. reply.version \in Nat
      BY <3>1, IngredientParts
    <3>3. QED
      BY <3>1, <3>2, ValuesAssumption DEF Real
  <2>2. old.phase # "paused" /\ s.phase # "paused"
    BY <1>3, <1>5, <1>6
  <2>3. QED
    BY <1>5, <1>6, <1>7, <2>1, <2>2 DEF SaveOK
<1>9. save' = s /\ save'.phase # "paused"
  BY <1>3, <1>4, <1>5 DEF Answered
<1>10. QED
  BY <1>8, <1>9 DEF SaveInv, SaveOK, Real

\* ServeSave, from what it does to the row and what it answers.
LEMMA ServedOK ==
  ASSUME IInv, save # None, save.phase = "sent", RowStep,
         row' \in {Absent, Gone} \cup Ingredient,
         UNCHANGED <<online, page, query, form, conflict, removal>>,
         NEW outcome, NEW reply, Answered(outcome, reply),
         \/ /\ outcome \in {"INTERNAL_ERROR", "ALREADY_EXISTS", "VERSION_CONFLICT",
                             "NOT_FOUND"}
            /\ reply = None
         \/ outcome = "OK" /\ reply \in Ingredient /\ row' = reply
  PROVE  IInv'
<1>1. SaveInv'
  BY AnsweredOK
<1>2. QueryOK(query)'
  <2>1. PICK q : q = query
    OBVIOUS
  <2>2. QueryOK(q)'
    BY <2>1, QueryStays DEF IInv
  <2>3. QED
    BY <2>1, <2>2 DEF QueryOK, Real
<1>3. FormInv'
  BY FormKept DEF IInv
<1>4. QED
  BY <1>1, <1>2, <1>3 DEF IInv

LEMMA ServeSaveInv == ASSUME IInv, ServeSave  PROVE IInv'
<1>1. /\ save # None /\ save.phase = "sent"
      /\ UNCHANGED <<online, page, query, form, conflict, removal>>
  BY DEF ServeSave
<1>2. /\ row \in {Absent, Gone} \cup Ingredient
      /\ save \in Saves /\ save.values \in Values /\ Valid(save.values)
  BY <1>1 DEF IInv, SaveInv, SaveOK, Saves
<1>3. CASE /\ row = Absent
           /\ row' = [version |-> 1, fields |-> save.values]
           /\ Answered("OK", row') \/ Answered("INTERNAL_ERROR", None)
  <2>1. 1 \in 1..MaxVersion
    BY VersionAssumption
  <2>2. PICK new \in Ingredient : new = row'
    BY <1>2, <1>3, <2>1, IngredientOf
  <2>3. RowStep
    BY <1>3, <2>2 DEF RowStep
  <2>4. QED
    BY <1>1, <1>3, <2>2, <2>3, ServedOK
<1>4. CASE /\ ~save.create /\ row \in Ingredient /\ row.version = save.version
           /\ row.version < MaxVersion
           /\ row' = Patched(row, save.patch)
           /\ Answered("OK", row') \/ Answered("INTERNAL_ERROR", None)
  <2>1. /\ Patched(row, save.patch) \in Ingredient
        /\ Patched(row, save.patch).version = row.version + 1
    BY <1>1, <1>4, PatchedRow
  <2>2. PICK new \in Ingredient : new = row'
    BY <1>4, <2>1
  <2>3. RowStep
    BY <1>4, <2>1, <2>2 DEF RowStep
  <2>4. QED
    BY <1>1, <1>4, <2>2, <2>3, ServedOK
<1>5. CASE /\ UNCHANGED row
           /\ \E outcome \in {"ALREADY_EXISTS", "VERSION_CONFLICT", "NOT_FOUND"} :
                Answered(outcome, None)
  <2>1. RowStep
    BY <1>5 DEF RowStep
  <2>2. QED
    BY <1>1, <1>2, <1>5, <2>1, ServedOK
<1>6. QED
  BY <1>2, <1>3, <1>4, <1>5 DEF ServeSave

\* The save is over and nothing else happens to it.
LEMMA SavedInv == ASSUME IInv, Saved  PROVE IInv'
<1>1. save # None /\ online /\ Render(FALSE) /\ UNCHANGED <<row, online, removal>>
  BY DEF Saved
<1>2. RowStep
  BY <1>1 DEF RowStep
<1>3. QueryOK(query)' /\ SaveInv' /\ page' \in Pages /\ conflict' \in BOOLEAN
  <2>1. CASE save.phase = "OK" /\ Finish(save.reply)
    <3>1. Real(save.reply)
      BY <1>1, <2>1 DEF IInv, SaveInv, SaveOK
    <3>2. QED
      BY <1>1, <2>1, <3>1, FinishOK
  <2>2. CASE /\ conflict' = (conflict \/ ~save.left)
             /\ save' = None
             /\ UNCHANGED <<query, page>>
    <3>1. QueryOK(query)'
      BY <1>1, <2>2 DEF IInv, QueryOK, Real
    <3>2. conflict' \in BOOLEAN /\ page' \in Pages
      BY <1>1, <2>2 DEF IInv, SaveInv, SaveOK, Saves
    <3>3. QED
      BY <2>2, <3>1, <3>2 DEF SaveInv
  <2>3. CASE save' = None /\ Stay
    BY <1>2, <2>3, StayOK DEF SaveInv
  <2>4. QED
    BY <2>1, <2>2, <2>3 DEF Saved, Told
<1>4. FormInv'
  BY <1>1, <1>3, RenderOK DEF IInv, QueryOK
<1>5. QED
  BY <1>1, <1>3, <1>4 DEF IInv

LEMMA SaveFailsInv == ASSUME IInv, SaveFails  PROVE IInv'
<1>1. save' = None /\ Stay /\ UNCHANGED <<row, online, form, removal>>
  BY DEF SaveFails, Told
<1>2. QueryOK(query)' /\ page' \in Pages /\ conflict' \in BOOLEAN
  BY <1>1, StayOK DEF RowStep
<1>3. FormInv'
  BY <1>1, FormKept DEF IInv, Stay
<1>4. QED
  BY <1>1, <1>2, <1>3 DEF IInv, SaveInv

-----------------------------------------------------------------------------
(* The other steps *)

\* A step that renders, with a query that is as good as before, and keeps the save.
LEMMA PageStep ==
  ASSUME IInv, UNCHANGED row, NEW q, QueryOK(q), query' = q,
         page' \in Pages, conflict' \in BOOLEAN, online' \in BOOLEAN,
         removal' \in {"none", "asked", "OK"},
         Render(FALSE),
         \/ save' = save
         \/ save' = IF save # None THEN [save EXCEPT !.left = TRUE] ELSE None,
         save # None /\ save.phase = "paused" => ~online'
  PROVE  IInv'
<1>1. RowStep /\ row \in {Absent, Gone} \cup Ingredient
  BY DEF RowStep, IInv
<1>2. QueryOK(query)'
  <2>1. PICK p : p = q
    OBVIOUS
  <2>2. QueryOK(p)'
    BY <1>1, <2>1, QueryStays
  <2>3. QED
    BY <2>1, <2>2 DEF QueryOK, Real
<1>3. FormInv'
  BY <1>2, RenderOK DEF IInv, QueryOK
<1>4. SaveInv'
  BY <1>1, SaveKept DEF IInv
<1>5. QED
  BY <1>2, <1>3, <1>4 DEF IInv

\* A save that waits does so because the browser is offline.
LEMMA PausedOffline ==
  ASSUME IInv, save # None, save.phase = "paused"
  PROVE  ~online
BY DEF IInv, SaveInv

LEMMA OpenInv == ASSUME IInv, NEW p, Open(p)  PROVE IInv'
<1>1. /\ p \in Pages /\ page' = p /\ conflict' = FALSE
      /\ query' = IF p \in {"detail", "edit"} THEN FetchIfDue(query) ELSE query
      /\ save' = IF save # None THEN [save EXCEPT !.left = TRUE] ELSE None
      /\ Render(FALSE) /\ UNCHANGED <<row, online, removal>>
  BY DEF Open, Links, Pages
<1>2. PICK q : q = query'
  OBVIOUS
<1>3. QueryOK(q) /\ q.data = query.data
  BY <1>1, <1>2, FetchOK DEF FetchIfDue, IInv
<1>4. online' \in BOOLEAN /\ removal' \in {"none", "asked", "OK"}
  BY <1>1 DEF IInv
<1>5. QED
  BY <1>1, <1>2, <1>3, <1>4, PausedOffline, PageStep

LEMMA LoadPresentInv == ASSUME IInv, LoadPresent  PROVE IInv'
<1>1. /\ conflict' = FALSE /\ query' = Fetch(query) /\ Render(FALSE)
      /\ UNCHANGED <<row, online, page, save, removal>>
  BY DEF LoadPresent
<1>2. QueryOK(Fetch(query)) /\ Fetch(query).data = query.data
  BY FetchOK DEF IInv
<1>3. /\ online' \in BOOLEAN /\ removal' \in {"none", "asked", "OK"}
      /\ page' \in Pages
  BY <1>1 DEF IInv
<1>4. QED
  BY <1>1, <1>2, <1>3, PausedOffline, PageStep

LEMMA DisconnectInv == ASSUME IInv, Disconnect  PROVE IInv'
<1>1. /\ online' = FALSE
      /\ query' = IF InFlight(query) THEN [query EXCEPT !.fetch = "paused", !.answer = None]
                  ELSE query
      /\ Render(FALSE) /\ UNCHANGED <<row, page, save, conflict, removal>>
  BY DEF Disconnect
<1>2. PICK q : q = query'
  OBVIOUS
<1>3. QueryOK(q) /\ q.data = query.data
  BY <1>1, <1>2, ValuesAssumption DEF IInv, QueryOK, Queries
<1>4. /\ page' \in Pages /\ conflict' \in BOOLEAN /\ removal' \in {"none", "asked", "OK"}
  BY <1>1 DEF IInv
<1>5. QED
  BY <1>1, <1>2, <1>3, <1>4, PageStep

LEMMA RemovedInv == ASSUME IInv, Removed  PROVE IInv'
<1>1. /\ removal' = "none" /\ page' = "list" /\ conflict' = FALSE
      /\ save' = IF save # None THEN [save EXCEPT !.left = TRUE] ELSE None
      /\ online /\ UNCHANGED <<row, online, query>>
      /\ Render(FALSE)
  BY DEF Removed
<1>2. QueryOK(query) /\ online' \in BOOLEAN /\ page' \in Pages
  BY <1>1 DEF IInv, Pages
<1>3. QED
  BY <1>1, <1>2, PausedOffline, PageStep

\* Steps that leave the query, the page and the save alone.
LEMMA RowOnly ==
  ASSUME IInv, RowStep, row' \in {Absent, Gone} \cup Ingredient,
         removal' \in {"none", "asked", "OK"}, conflict' \in BOOLEAN,
         UNCHANGED <<online, page, query, save>>,
         UNCHANGED form \/ (form # None /\ form' \in Values)
  PROVE  IInv'
<1>1. QueryOK(query)'
  <2>1. PICK q : q = query
    OBVIOUS
  <2>2. QueryOK(q)'
    BY <2>1, QueryStays DEF IInv
  <2>3. QED
    BY <2>1, <2>2 DEF QueryOK, Real
<1>2. FormInv'
  <2>1. CASE UNCHANGED form
    BY <2>1, FormKept DEF IInv
  <2>2. CASE form # None /\ form' \in Values
    BY <2>2, ValuesAssumption DEF IInv, FormInv, HasForm, IsError, InFlight
  <2>3. QED
    BY <2>1, <2>2
<1>3. SaveInv'
  BY PausedOffline, SaveKept DEF IInv
<1>4. QED
  BY <1>1, <1>2, <1>3 DEF IInv

LEMMA FillInv ==
  ASSUME IInv, \/ \E name \in Names : Fill("name", name)
               \/ \E text \in Descriptions : Fill("description", text)
  PROVE  IInv'
<1>1. /\ form # None /\ form \in Values
      /\ UNCHANGED <<row, online, page, query, save, conflict, removal>>
  BY DEF Fill, IInv, FormInv
<1>2. form' \in Values
  BY <1>1 DEF Fill, Values
<1>3. QED
  BY <1>1, <1>2, RowOnly DEF RowStep, IInv

LEMMA SmallStepsInv ==
  ASSUME IInv, CloseDialog \/ Remove \/ ServeRemove \/ RemoveFails \/ Others
  PROVE  IInv'
<1>1. /\ RowStep /\ row' \in {Absent, Gone} \cup Ingredient
      /\ UNCHANGED <<online, page, query, form, save>>
  BY DEF CloseDialog, Remove, ServeRemove, RemoveFails, Others, RowStep, IInv
<1>2. conflict' \in BOOLEAN /\ removal' \in {"none", "asked", "OK"}
  BY DEF CloseDialog, Remove, ServeRemove, RemoveFails, Others, IInv
<1>3. QED
  BY <1>1, <1>2, RowOnly

-----------------------------------------------------------------------------
(* The theorems *)

LEMMA InitInv == Init => IInv
<1> SUFFICES ASSUME Init  PROVE IInv
  OBVIOUS
<1> USE DEF Init
<1>1. QueryOK(query)
  BY NoDataOK
<1>2. FormInv
  BY DEF FormInv, HasForm
<1>3. QED
  BY <1>1, <1>2 DEF IInv, SaveInv, Pages

LEMMA StepInv == IInv /\ [Next]_vars => IInv'
<1> SUFFICES ASSUME IInv, [Next]_vars  PROVE IInv'
  OBVIOUS
<1>1. CASE User
  BY <1>1, OpenInv, FillInv, SubmitInv, FetchInv, IconUploadedInv, LoadPresentInv,
     SmallStepsInv DEF User
<1>2. CASE Requests
  BY <1>2, ServeFetchInv, ArriveInv, FetchFailsInv, FetchInv, ServeSaveInv, SavedInv,
     SaveFailsInv, SmallStepsInv, RemovedInv DEF Requests
<1>3. CASE Others \/ Age \/ Focus \/ Collect \/ Disconnect \/ Reconnect
  BY <1>3, SmallStepsInv, AgeInv, FetchInv, CollectInv, DisconnectInv, ReconnectInv
<1>4. CASE UNCHANGED vars
  BY <1>4, RowOnly DEF vars, RowStep, IInv
<1>5. QED
  BY <1>1, <1>2, <1>3, <1>4 DEF Next

LEMMA Invariant == Spec => []IInv
BY InitInv, StepInv, PTL DEF Spec

\* The fields of the form, the query and the save are what the pages make them.
THEOREM EditTypeCorrect == Spec => []TypeOK
<1>1. IInv => TypeOK
  <2> SUFFICES ASSUME IInv  PROVE TypeOK
    OBVIOUS
  <2>1. save # None =>
          /\ save \in Saves /\ Valid(save.values)
          /\ save.phase = "paused" => ~online
          /\ save.phase # "paused" /\ ~save.create =>
               /\ save.version \in 1..MaxVersion
               /\ \E f \in DOMAIN save.patch : save.patch[f] # None
    <3>1. SUFFICES ASSUME save # None, SaveOK(save), save.phase # "paused", ~save.create
                   PROVE  save.version \in 1..MaxVersion
      BY DEF IInv, SaveInv, SaveOK
    <3>2. save.saw \in Ingredient /\ save.version = save.saw.version
      BY <3>1 DEF SaveOK, Real
    <3>3. QED
      BY <3>2, IngredientParts
  <2>2. QED
    BY <2>1 DEF IInv, QueryOK, FormInv, TypeOK
<1>2. QED
  BY <1>1, Invariant, PTL

\* What the page shows is a state the ingredient was in, and the present one if the
\* versions agree.
THEOREM DataIsReal == Spec => []DataWasReal
<1>1. IInv => DataWasReal
  BY DEF IInv, QueryOK, Real, DataWasReal
<1>2. QED
  BY <1>1, Invariant, PTL

\* A PATCH replaces the contents the user saw, and either request writes what the user
\* pressed the button on.
LEMMA CommitsSeen ==
  ASSUME IInv, ServeSave, row' # row
  PROVE  /\ row'.fields = save.values
         /\ ~save.create => row = save.saw
<1>1. CASE save.create /\ row' = [version |-> 1, fields |-> save.values]
  BY <1>1
<1>2. CASE /\ ~save.create /\ row \in Ingredient /\ row.version = save.version
           /\ row.version < MaxVersion
           /\ row' = Patched(row, save.patch)
  BY <1>2, PatchedRow DEF ServeSave
<1>3. QED
  BY <1>1, <1>2 DEF ServeSave

\* The page of the ingredient opens at once only if the form showed the data.
LEMMA NothingSent ==
  ASSUME IInv, Submit, page' = "detail"
  PROVE  query'.data.fields = form
<1> DEFINE ask == [phase |-> "paused", create |-> page = "new", values |-> form,
                   saw |-> query.data, version |-> 0, patch |-> None, reply |-> None,
                   left |-> FALSE]
           patch == Patch(form, query.data)
<1>1. page # "detail" /\ form \in Values
  BY DEF Submit, IInv, FormInv, HasForm
<1>2. IF online THEN Mutate(ask) ELSE Stay
  BY DEF Submit
<1>3. ask.values = form /\ ask.saw = query.data
  OBVIOUS
<1> HIDE DEF ask
<1>4. online /\ Mutate(ask)
  BY <1>1, <1>2 DEF Stay
<1>5. /\ query.data # None /\ Finish(query.data)
      /\ \A f \in DOMAIN patch : patch[f] = None
  BY <1>1, <1>3, <1>4 DEF Mutate, Stay
<1>6. query.data \in Ingredient
  BY <1>5 DEF IInv, QueryOK, Real
<1>7. form = query.data.fields
  BY <1>1, <1>5, <1>6, NoPatchNoChange
<1>8. query'.data = query.data
  BY <1>5, SetOK DEF Finish, IInv, QueryOK
<1>9. QED
  BY <1>7, <1>8

\* Only the request of the save changes the row while the save changes.
LEMMA OnlyServeSave ==
  ASSUME [Next]_vars, Commits
  PROVE  ServeSave
<1>1. CASE User
  BY <1>1 DEF User, Open, Fill, Submit, Retry, IconUploaded, CloseDialog, LoadPresent,
              Remove, QueryStep, Commits
<1>2. CASE Requests
  BY <1>2 DEF Requests, ServeFetch, Arrive, FetchFails, Continue, Saved, SaveFails,
              ServeRemove, RemoveFails, Removed, QueryStep, Commits
<1>3. CASE Others \/ Age \/ Focus \/ Collect \/ Disconnect \/ Reconnect
  BY <1>3 DEF Others, Age, Focus, Collect, Disconnect, Reconnect, QueryStep, Commits
<1>4. CASE UNCHANGED vars
  BY <1>4 DEF vars, Commits
<1>5. QED
  BY <1>1, <1>2, <1>3, <1>4 DEF Next

\* A save writes what was on the screen when the button was pressed, over the very
\* contents the form was showing changes of (SavedIsWhatUserSaw), for any fields, any
\* number of versions and any number of others' changes.
THEOREM SavesAreSeen == Spec => SavedIsWhatUserSaw
<1>1. IInv /\ [Next]_vars =>
        /\ Commits => /\ row'.fields = save.values
                      /\ ~save.create => row = save.saw
        /\ Submit /\ page' = "detail" => query'.data.fields = form
  <2> SUFFICES ASSUME IInv, [Next]_vars
               PROVE  /\ Commits => /\ row'.fields = save.values
                                    /\ ~save.create => row = save.saw
                      /\ Submit /\ page' = "detail" => query'.data.fields = form
    OBVIOUS
  <2>1. Commits => row' # row /\ ServeSave
    BY OnlyServeSave DEF Commits
  <2>2. QED
    BY <2>1, CommitsSeen, NothingSent
<1>2. QED
  BY <1>1, Invariant, PTL DEF Spec, SavedIsWhatUserSaw

\* A page that shows the ingredient and has neither data nor an error is waiting.
Waits(p, q) ==
  p \in {"detail", "edit"} /\ q.data = None /\ ~IsError(q) => q.fetch # "idle"

LEMMA FetchWaits ==
  ASSUME NEW q \in Queries, NEW p
  PROVE  Waits(p, Fetch(q))
BY DEF Waits, Fetch, Queries

LEMMA DataWaits ==
  ASSUME NEW p, NEW q, q.data # None
  PROVE  Waits(p, q)
BY DEF Waits

\* The data of a save that ended well is there.
LEMMA FinishWaits ==
  ASSUME IInv, NEW i, i # None, Finish(i)
  PROVE  Waits(page', query')
<1>1. query'.data = i
  BY DEF Finish, Set, IInv, QueryOK, Queries
<1>2. QED
  BY <1>1, DataWaits

LEMMA MutateWaits ==
  ASSUME IInv, Waits(page, query), NEW asked, Mutate(asked) \/ Stay
  PROVE  Waits(page', query')
<1>1. CASE Stay
  BY <1>1 DEF Stay
<1>2. CASE asked.saw # None /\ Finish(asked.saw)
  BY <1>2, FinishWaits
<1>3. QED
  BY <1>1, <1>2 DEF Mutate

LEMMA OpenWaits ==
  ASSUME IInv, NEW p, Open(p)
  PROVE  Waits(page', query')
<1>1. page' = p /\ query' = IF p \in {"detail", "edit"} THEN FetchIfDue(query) ELSE query
  BY DEF Open
<1>2. query \in Queries
  BY DEF IInv, QueryOK
<1>3. Waits(p, FetchIfDue(query))
  <2>1. CASE Due(query)
    BY <1>2, <2>1, FetchWaits DEF FetchIfDue
  <2>2. CASE ~Due(query)
    BY <2>2 DEF FetchIfDue, Due, Waits
  <2>3. QED
    BY <2>1, <2>2
<1>4. QED
  BY <1>1, <1>3 DEF Waits

\* The steps of the query.
LEMMA QueryWaits ==
  ASSUME IInv, Waits(page, query),
         \/ ServeFetch \/ Arrive \/ FetchFails \/ Age \/ Collect
         \/ Focus \/ Retry \/ Continue \/ IconUploaded \/ LoadPresent \/ Disconnect
  PROVE  Waits(page', query')
<1>1. query \in Queries /\ None \notin Ingredient
  BY ValuesAssumption DEF IInv, QueryOK
<1>2. page' = page
  BY DEF ServeFetch, Arrive, FetchFails, Age, Collect, Focus, Retry, Continue,
         IconUploaded, LoadPresent, Disconnect, QueryStep
<1>3. CASE ServeFetch
  BY <1>1, <1>3 DEF ServeFetch, QueryStep, Waits, Queries
<1>4. CASE Arrive
  <2>1. query'.data = query.answer /\ query.answer \in Ingredient
    BY <1>4 DEF Arrive, QueryStep
  <2>2. QED
    BY <1>1, <2>1, DataWaits
<1>5. CASE FetchFails
  <2>1. PICK outcome : query' = Failed(query, outcome)
    BY <1>5 DEF FetchFails, QueryStep
  <2>2. IsError(query')
    BY <1>1, <2>1 DEF Failed, IsError, Queries
  <2>3. QED
    BY <2>2 DEF Waits
<1>6. CASE Age
  <2>1. query'.data # None
    BY <1>1, <1>6 DEF Age, QueryStep, Queries
  <2>2. QED
    BY <2>1, DataWaits
<1>7. CASE Collect
  BY <1>2, <1>7 DEF Collect, Watched, Waits
<1>8. CASE Focus \/ Retry \/ Continue \/ LoadPresent
  <2>1. query' = Fetch(query)
    BY <1>8 DEF Focus, Retry, Continue, LoadPresent, QueryStep
  <2>2. QED
    BY <1>1, <2>1, FetchWaits
<1>9. CASE IconUploaded
  <2>1. PICK q \in Queries : q = [query EXCEPT !.stale = TRUE]
    BY <1>1 DEF Queries
  <2>2. query' = Fetch(q)
    BY <1>9, <2>1 DEF IconUploaded, QueryStep
  <2>3. QED
    BY <2>2, FetchWaits
<1>10. CASE Disconnect
  <2>1. CASE InFlight(query)
    BY <1>1, <1>10, <2>1 DEF Disconnect, Waits, Queries
  <2>2. CASE ~InFlight(query)
    BY <1>2, <1>10, <2>2 DEF Disconnect, Waits
  <2>3. QED
    BY <2>1, <2>2
<1>11. QED
  BY <1>3, <1>4, <1>5, <1>6, <1>7, <1>8, <1>9, <1>10

LEMMA StepWaits ==
  ASSUME IInv, Waits(page, query), [Next]_vars
  PROVE  Waits(page', query')
<1>1. CASE UNCHANGED <<page, query>>
  BY <1>1
<1>2. CASE User
  BY <1>1, <1>2, OpenWaits, QueryWaits, MutateWaits
     DEF User, Fill, Submit, CloseDialog, Remove
<1>3. CASE Saved
  <2>1. ASSUME save.phase = "OK", Finish(save.reply), save # None
        PROVE  Waits(page', query')
    <3>1. save.reply # None
      BY <2>1, ValuesAssumption DEF IInv, SaveInv, SaveOK, Real
    <3>2. QED
      BY <2>1, <3>1, FinishWaits
  <2>2. QED
    BY <1>1, <1>3, <2>1 DEF Saved, Told, Stay
<1>4. CASE Removed
  BY <1>4 DEF Removed, Waits
<1>5. CASE Requests /\ ~Saved /\ ~Removed
  BY <1>1, <1>5, QueryWaits
     DEF Requests, ServeSave, SaveFails, Told, Stay, ServeRemove, RemoveFails
<1>6. CASE Reconnect
  BY <1>1, <1>6, MutateWaits DEF Reconnect
<1>7. CASE Others \/ Age \/ Focus \/ Collect \/ Disconnect
  BY <1>1, <1>7, QueryWaits DEF Others
<1>8. QED
  BY <1>1, <1>2, <1>3, <1>4, <1>5, <1>6, <1>7 DEF Next, vars

\* The edit page shows a form without data (the finding about FormHasData) only while
\* the first fetch of the data waits for the connection (BlankFormWaits).
THEOREM BlankOnlyOffline == Spec => []BlankFormWaits
<1>1. Init => Waits(page, query)
  BY DEF Init, Waits
<1>2. IInv /\ Waits(page, query) /\ [Next]_vars => Waits(page, query)'
  BY StepWaits DEF Waits, IsError
<1>3. IInv /\ Waits(page, query) => BlankFormWaits
  <2> SUFFICES ASSUME IInv, Waits(page, query), page = "edit", form # None,
                      query.data = None
               PROVE  query.fetch = "paused" /\ query.status = "pending"
    BY DEF BlankFormWaits
  <2>1. query \in Queries /\ query.status # "success" /\ HasForm("edit", query)
    BY DEF IInv, QueryOK, FormInv
  <2>2. ~IsError(query) /\ ~(query.status = "pending" /\ InFlight(query))
    BY <2>1 DEF HasForm
  <2>3. query.status = "pending"
    BY <2>1, <2>2 DEF IsError, Queries
  <2>4. query.fetch \in {"idle", "paused"}
    BY <2>1, <2>2, <2>3 DEF InFlight, Queries
  <2>5. QED
    BY <2>2, <2>3, <2>4 DEF Waits
<1>4. QED
  BY <1>1, <1>2, <1>3, Invariant, PTL DEF Spec

=============================================================================
