------------------------------- MODULE EditForm -------------------------------
(***************************************************************************)
(* One administrator at the pages of one ingredient: the form that creates *)
(* or edits it (pages/IngredientFormPage.tsx, IngredientForm.tsx), its     *)
(* page (IngredientDetailPage.tsx), the query both share and the requests  *)
(* they send, while others change the same ingredient.  A request takes    *)
(* effect in one step, as IngredientStore has been shown to do.            *)
(*                                                                         *)
(* The query cache is modelled as the pages use it: data is fetched when   *)
(* there is none or it is stale, an answer that arrives replaces the data, *)
(* setQueryData leaves a fetch that is in flight alone, and nothing starts *)
(* or arrives while the browser is offline.                                *)
(***************************************************************************)
EXTENDS ApiClient, Naturals

CONSTANTS
  Names, Descriptions,  \* values of two fields of the form, "" included
  MaxVersion,           \* bound on the versions of the row
  Absent, Gone,         \* the ingredient is not there yet, is deleted
  None

ASSUME VersionAssumption == MaxVersion \in Nat \ {0}

VARIABLES
  row,       \* the ingredient in the table
  online,    \* what the browser says of its connection
  page,      \* the page shown
  query,     \* the query ["ingredients", id]
  form,      \* values in the fields of the form, None if there is no form
  save,      \* the save mutation under way, None if there is none
  conflict,  \* versionConflictOpen
  removal    \* the delete mutation

vars == <<row, online, page, query, form, save, conflict, removal>>

Values == [name : Names, description : Descriptions]
Ingredient == [version : 1..MaxVersion, fields : {v \in Values : v.name # ""}]

EMPTY_INGREDIENT_VALUES == [name |-> "", description |-> ""]

\* What a PATCH may carry: None stands for a field left out.
Patches == [name : Names \cup {None}, description : Descriptions \cup {None}]

\* The state of the query, and of the save mutation: when it was asked for, what of,
\* the data behind the form then, and the request with its answer.
Queries == [data   : {None} \cup Ingredient,
            status : {"pending", "success", "ApiError", "Error"},
            stale  : BOOLEAN,
            fetch  : {"idle", "paused", "sent", "answered"},
            answer : {None, Absent, Gone} \cup Ingredient]

Saves == [phase   : {"paused", "sent"} \cup updateIngredient,
          create  : BOOLEAN,
          values  : Values,
          saw     : {None} \cup Ingredient,
          version : 0..MaxVersion,
          patch   : {None} \cup Patches,
          reply   : {None} \cup Ingredient,
          left    : BOOLEAN]

ASSUME ValuesAssumption ==
  /\ EMPTY_INGREDIENT_VALUES \in Values
  /\ None \notin Names \cup Descriptions \cup Values \cup Ingredient \cup Saves
  /\ Absent \notin Ingredient /\ Gone \notin Ingredient
  /\ Absent # Gone /\ None \notin {Absent, Gone}

\* The schema of the form: a name is needed.
Valid(values) == values.name # ""

Pages == {"list", "new", "detail", "edit"}

\* The links and buttons that lead from page to page.
Links == {<<"list", "new">>, <<"list", "detail">>, <<"list", "edit">>, <<"new", "list">>,
          <<"detail", "list">>, <<"detail", "edit">>, <<"edit", "detail">>}

-----------------------------------------------------------------------------
(* The query *)

NoData == [data |-> None, status |-> "pending", stale |-> FALSE,
           fetch |-> "idle", answer |-> None]

InFlight(q) == q.fetch \in {"sent", "answered"}

\* A fetch begins, in place of one that may be in flight.
Fetch(q) ==
  [q EXCEPT !.fetch = IF online THEN "sent" ELSE "paused",
            !.answer = None,
            !.status = IF q.data = None THEN "pending" ELSE @]

\* The query after a fetch that ended with an error, which may be no ApiError.
Failed(q, outcome) ==
  [q EXCEPT !.status = IF IsApiError(outcome) THEN "ApiError" ELSE "Error",
            !.stale = TRUE, !.fetch = "idle", !.answer = None]

IsError(q) == q.status \in {"ApiError", "Error"}

\* Mutant: data is never fetched again.
DueOnce(q) == q.fetch = "idle" /\ q.data = None

\* A page that mounts or gets the focus fetches data that is missing or stale.
Due(q) == q.fetch = "idle" /\ (q.data = None \/ q.stale)

FetchIfDue(q) == IF Due(q) THEN Fetch(q) ELSE q

Watched == page \in {"detail", "edit"}

\* Mutant: the status is left as it was.
SetDataOnly(ingredient) == [query EXCEPT !.data = ingredient, !.stale = FALSE]

\* What setQueryData makes of the query.
Set(ingredient) ==
  [query EXCEPT !.data = ingredient, !.status = "success", !.stale = FALSE]

-----------------------------------------------------------------------------
(* The form *)

\* Mutant: loading is not looked at.
HasFormAtOnce(p, q) == p = "new" \/ (p = "edit" /\ ~IsError(q))

\* Whether the page has the form on it: not while loading, not after an error.
HasForm(p, q) ==
  \/ p = "new"
  \/ p = "edit" /\ ~IsError(q) /\ ~(q.status = "pending" /\ InFlight(q))

DefaultValues(p, q) ==
  IF p = "new" \/ q.data = None THEN EMPTY_INGREDIENT_VALUES ELSE q.data.fields

\* The fields after a rendering: the defaults when the form appears and, by the
\* effect that resets it, when the data has changed; what the user typed else.
Render(changed) ==
  form' = IF ~HasForm(page', query') THEN None
          ELSE IF changed \/ query'.data # query.data \/ page' # page \/ ~HasForm(page, query)
          THEN DefaultValues(page', query')
          ELSE form

\* Mutant: a field is sent if it has a value that differs.
PatchNonEmpty(values, data) ==
  [f \in DOMAIN values |->
     IF values[f] # "" /\ values[f] # data.fields[f] THEN values[f] ELSE None]

\* The PATCH of the form: the fields that differ from the data.
Patch(values, data) ==
  [f \in DOMAIN values |-> IF values[f] # data.fields[f] THEN values[f] ELSE None]

\* Mutant: the version does not move if a field is emptied.
PatchedSilently(old, patch) ==
  [version |-> IF \E f \in DOMAIN patch : patch[f] = "" THEN old.version ELSE old.version + 1,
   fields  |-> [f \in DOMAIN patch |-> IF patch[f] = None THEN old.fields[f] ELSE patch[f]]]

\* The ingredient a PATCH makes of a row.
Patched(old, patch) ==
  [version |-> old.version + 1,
   fields  |-> [f \in DOMAIN patch |-> IF patch[f] = None THEN old.fields[f] ELSE patch[f]]]

-----------------------------------------------------------------------------
(* Saving *)

\* Both mutations ended well: the ingredient goes into the query, and the page of the
\* ingredient opens, wherever the user is by now.
Finish(ingredient) ==
  /\ query' = Set(ingredient)
  /\ page' = "detail"
  /\ conflict' = FALSE
  /\ save' = None

Stay == UNCHANGED <<query, page, conflict>>

\* mutationFn, with the values given and the data of the last rendering of the form,
\* which a save that waits for the connection keeps although the page may be left and
\* the query dropped by then: a request is sent; or nothing has changed, which counts
\* as saved; or there was no data and reading its version throws.
Mutate(asked) ==
  \/ /\ asked.create
     /\ save' = [asked EXCEPT !.phase = "sent"]
     /\ Stay
  \/ /\ ~asked.create /\ asked.saw = None
     /\ save' = None
     /\ Stay
  \/ /\ ~asked.create /\ asked.saw # None
     /\ LET patch == Patch(asked.values, asked.saw)
        IN IF \A f \in DOMAIN patch : patch[f] = None
           THEN Finish(asked.saw)
           ELSE /\ save' = [asked EXCEPT !.phase = "sent", !.patch = patch,
                                         !.version = asked.saw.version]
                /\ Stay

\* The button of the form, disabled while a save is pending.  Bound: that holds of a
\* form opened while the save of an earlier one is pending, too.
Submit ==
  LET asked == [phase |-> "paused", create |-> page = "new", values |-> form,
                saw |-> query.data, version |-> 0, patch |-> None, reply |-> None,
                left |-> FALSE]
  IN /\ form # None /\ Valid(form) /\ save = None
     /\ IF online THEN Mutate(asked) ELSE save' = asked /\ Stay
     /\ Render(FALSE)
     /\ UNCHANGED <<row, online, removal>>

\* The save gets an answer; a row it has changed stays changed if the answer is an
\* error all the same.
Answered(outcome, reply) ==
  save' = [save EXCEPT !.phase = outcome, !.reply = reply]

ServeSave ==
  /\ save # None /\ save.phase = "sent"
  /\ \/ /\ save.create /\ row = Absent
        /\ row' = [version |-> 1, fields |-> save.values]
        /\ Answered("OK", row') \/ Answered("INTERNAL_ERROR", None)
     \/ /\ save.create /\ row # Absent
        /\ Answered("ALREADY_EXISTS", None)
        /\ UNCHANGED row
     \/ /\ ~save.create /\ row \in Ingredient /\ row.version = save.version
        /\ row.version < MaxVersion
        /\ row' = Patched(row, save.patch)
        /\ Answered("OK", row') \/ Answered("INTERNAL_ERROR", None)
     \/ /\ ~save.create /\ row \in Ingredient /\ row.version # save.version
        /\ Answered("VERSION_CONFLICT", None)
        /\ UNCHANGED row
     \/ /\ ~save.create /\ row = Gone
        /\ Answered("NOT_FOUND", None)
        /\ UNCHANGED row
  /\ UNCHANGED <<online, page, query, form, conflict, removal>>

\* A snackbar shows the error.
Told(outcome) == outcome \notin {"OK", "VERSION_CONFLICT"} /\ save' = None /\ Stay

\* submit of the page goes on.  A version conflict opens the dialog of the page that
\* asked, if it is still there.
Saved ==
  /\ save # None /\ online
  /\ \/ save.phase = "OK" /\ Finish(save.reply)
     \/ /\ save.phase = "VERSION_CONFLICT"
        /\ conflict' = (conflict \/ ~save.left)
        /\ save' = None
        /\ UNCHANGED <<query, page>>
     \/ save.phase \in updateIngredient /\ Told(save.phase)
  /\ Render(FALSE)
  /\ UNCHANGED <<row, online, removal>>

\* The request is refused for another reason, does not arrive, or its answer does
\* not.
SaveFails ==
  /\ save # None /\ save.phase # "paused"
  /\ \E outcome \in Failures(IF save.create THEN createIngredient ELSE updateIngredient) :
       Told(outcome)
  /\ UNCHANGED <<row, online, form, removal>>

-----------------------------------------------------------------------------
(* Pages *)

Init ==
  /\ row \in {Absent} \cup Ingredient
  /\ row \in Ingredient => row.version = 1
  /\ online = TRUE
  /\ page = "list"
  /\ query = NoData
  /\ form = None /\ save = None /\ conflict = FALSE
  /\ removal = "none"

\* A link, the button back or the button cancel; the last is disabled while saving.
\* Bound: with one ingredient there is nothing to create once it is there.
Open(p) ==
  /\ <<page, p>> \in Links
  /\ p = "new" => row = Absent
  /\ p \in {"detail", "edit"} => row # Absent
  /\ page' = p
  /\ query' = IF p \in {"detail", "edit"} THEN FetchIfDue(query) ELSE query
  /\ conflict' = FALSE
  /\ save' = IF save # None THEN [save EXCEPT !.left = TRUE] ELSE None
  /\ Render(FALSE)
  /\ UNCHANGED <<row, online, removal>>

Fill(field, text) ==
  /\ form # None
  /\ form' = [form EXCEPT ![field] = text]
  /\ form' # form
  /\ UNCHANGED <<row, online, page, query, save, conflict, removal>>

\* The query changes and nothing else but the rendering of it.  has_icon, which is
\* not modelled, may change the data although its version and fields stay.
QueryStep(q, changed) ==
  /\ query' = q
  /\ UNCHANGED <<row, online, page, save, conflict, removal>>
  /\ Render(changed)

ServeFetch ==
  /\ online /\ query.fetch = "sent"
  /\ QueryStep([query EXCEPT !.fetch = "answered", !.answer = row], FALSE)

Arrive ==
  /\ online /\ query.fetch = "answered" /\ query.answer \in Ingredient
  /\ \E changed \in BOOLEAN :
       QueryStep([data |-> query.answer, status |-> "success", stale |-> FALSE,
                  fetch |-> "idle", answer |-> None], changed)

\* The fetch and its one retry have failed; of a deleted ingredient they always do.
\* The page shows the error in place of data it may have.
FetchFails ==
  /\ online /\ InFlight(query)
  /\ \E outcome \in Failures(getIngredient) \cup
                     (IF query.answer = Gone THEN NotFound ELSE {}) :
       QueryStep(Failed(query, outcome), FALSE)

\* staleTime has passed.
Age ==
  /\ query.data # None /\ ~query.stale
  /\ QueryStep([query EXCEPT !.stale = TRUE], FALSE)

\* The user comes back to the window, or the connection comes back.
Focus ==
  /\ Watched /\ Due(query)
  /\ QueryStep(Fetch(query), FALSE)

\* The button of the error alert, which is there for an ApiError.
Retry ==
  /\ Watched /\ query.status = "ApiError"
  /\ QueryStep(Fetch(query), FALSE)

\* An upload of an icon has ended well: the query is invalidated, which fetches it
\* again, in place of a fetch in flight.
IconUploaded ==
  /\ page = "edit" /\ form # None /\ query.data # None /\ online /\ row \in Ingredient
  /\ QueryStep(Fetch([query EXCEPT !.stale = TRUE]), FALSE)

\* A query no page watches is dropped after a while.
Collect ==
  /\ ~Watched /\ query.fetch = "idle" /\ query # NoData
  /\ QueryStep(NoData, FALSE)

\* The conflict dialog is dismissed, or asked to load the present data.
CloseDialog ==
  /\ conflict /\ form # None
  /\ conflict' = FALSE
  /\ UNCHANGED <<row, online, page, query, form, save, removal>>

LoadPresent ==
  /\ conflict /\ form # None
  /\ conflict' = FALSE
  /\ query' = Fetch(query)
  /\ UNCHANGED <<row, online, page, save, removal>>
  /\ Render(FALSE)

\* The browser loses its connection: a fetch in flight fails and waits for its retry.
Disconnect ==
  /\ online
  /\ online' = FALSE
  /\ query' = IF InFlight(query) THEN [query EXCEPT !.fetch = "paused", !.answer = None]
              ELSE query
  /\ UNCHANGED <<row, page, save, conflict, removal>>
  /\ Render(FALSE)

\* The connection is back: a paused save is taken up before the queries are.
Reconnect ==
  /\ ~online
  /\ online' = TRUE
  /\ IF save # None /\ save.phase = "paused" THEN Mutate(save)
     ELSE save' = save /\ Stay
  /\ Render(FALSE)
  /\ UNCHANGED <<row, removal>>

Continue ==
  /\ online /\ query.fetch = "paused"
  /\ QueryStep(Fetch(query), FALSE)

\* The delete button of the page of the ingredient and its dialog.
Remove ==
  /\ page = "detail" /\ query.status = "success" /\ removal = "none"
  /\ removal' = "asked"
  /\ UNCHANGED <<row, online, page, query, form, save, conflict>>

\* DELETE takes no version: it meets the row as it is.
ServeRemove ==
  /\ removal = "asked" /\ online /\ row \in Ingredient
  /\ row' = Gone
  /\ removal' \in {"OK", "none"}
  /\ UNCHANGED <<online, page, query, form, save, conflict>>

\* The answer NOT_FOUND, any other of Failures(deleteIngredient), or none; it is told
\* in passing.
RemoveFails ==
  /\ removal # "none" /\ online
  /\ removal' = "none"
  /\ UNCHANGED <<row, online, page, query, form, save, conflict>>

\* The list opens, wherever the user is; the query of the ingredient stays.
Removed ==
  /\ removal = "OK" /\ online
  /\ removal' = "none"
  /\ page' = "list"
  /\ conflict' = FALSE
  /\ save' = IF save # None THEN [save EXCEPT !.left = TRUE] ELSE None
  /\ UNCHANGED <<row, online, query>>
  /\ Render(FALSE)

\* Other clients.
Others ==
  /\ \/ row = Absent /\ row' \in {i \in Ingredient : i.version = 1}
     \/ /\ row \in Ingredient
        /\ row' \in {Gone} \cup {i \in Ingredient : i.version = row.version + 1}
  /\ UNCHANGED <<online, page, query, form, save, conflict, removal>>

User ==
  \/ \E p \in Pages : Open(p)
  \/ \E name \in Names : Fill("name", name)
  \/ \E text \in Descriptions : Fill("description", text)
  \/ Submit \/ Retry \/ IconUploaded \/ CloseDialog \/ LoadPresent \/ Remove

Requests ==
  \/ ServeFetch \/ Arrive \/ FetchFails \/ Continue
  \/ ServeSave \/ Saved \/ SaveFails
  \/ ServeRemove \/ RemoveFails \/ Removed

Next == User \/ Requests \/ Others \/ Age \/ Focus \/ Collect \/ Disconnect \/ Reconnect

Spec == Init /\ [][Next]_vars

\* Requests end one way or another, time passes, and the user comes back to the window.
FairSpec ==
  /\ Spec
  /\ WF_vars(ServeFetch) /\ WF_vars(Arrive \/ FetchFails) /\ WF_vars(Continue)
  /\ WF_vars(Age) /\ WF_vars(Focus)

-----------------------------------------------------------------------------
(* Properties *)

\* The fields of the form, the query and the save are what the pages make them: a
\* form lasts as long as its page shows one, and a PATCH changes something.
TypeOK ==
  /\ row \in {Absent, Gone} \cup Ingredient
  /\ online \in BOOLEAN /\ conflict \in BOOLEAN
  /\ page \in Pages /\ removal \in {"none", "asked", "OK"}
  /\ query \in Queries
  /\ query.status = "success" => query.data # None
  /\ query.status = "pending" => query.data = None
  /\ (form # None) <=> HasForm(page, query)
  /\ form # None => form \in Values
  /\ save # None =>
       /\ save \in Saves /\ Valid(save.values)
       /\ save.phase = "paused" => ~online
       /\ save.phase # "paused" /\ ~save.create =>
            /\ save.version \in 1..MaxVersion
            /\ \E f \in DOMAIN save.patch : save.patch[f] # None

\* The save changes the table in this step.
Commits == save # None /\ save' # save /\ row' # row

\* What is saved is what the user saw: the row gets the values that were on the
\* screen when the button was pressed, and a PATCH replaces the very contents the
\* form was showing changes of, whatever has been refetched, lost, tried again or
\* edited by others in between.  Nothing is sent only if nothing was changed.
SavedIsWhatUserSaw ==
  [][/\ Commits => /\ row'.fields = save.values
                   /\ ~save.create => row = save.saw
     /\ Submit /\ page' = "detail" => query'.data.fields = form]_vars

\* The data in the query is a state the row was in: an older one, or the present one
\* if the versions agree.
DataWasReal ==
  query.data # None =>
    /\ row # Absent
    /\ row \in Ingredient =>
         /\ query.data.version <= row.version
         /\ query.data.version = row.version => query.data.fields = row.fields

\* The page shows data that is not in the table any more.
Outdated == Watched /\ query.status = "success" /\ query.data # row

\* When the row and the user's doings have come to rest and the connection holds, the
\* page does not go on showing outdated data, though an answer older than a save may
\* overwrite the data the save has set.
OutdatedDataGoes ==
  <>[][~User /\ ~Others]_vars /\ <>[]online => <>[]~Outdated

\* The form that edits an ingredient it has no data of, which breaks FormHasData, is
\* there only while the first fetch of the data waits for the connection: never while
\* that fetch is under way, after it failed, or before it was asked for.
BlankFormWaits ==
  page = "edit" /\ form # None /\ query.data = None =>
    query.fetch = "paused" /\ query.status = "pending"

\* "query.data!": the form that edits an ingredient has its data.
FormHasData == page = "edit" /\ form # None => query.data # None

=============================================================================
