# Verification of mixologist

mixologist is a catalogue of cocktail ingredients: a Go backend (gin, sqlx,
PostgreSQL) with an HTTP API under `/api/v1`, and a React frontend. This
directory holds TLA+ models of it, the TLC configurations that check them on
small instances, and proofs checked by TLAPS. Paths below are relative to the
root of the repository.

## 1. The system

| part | state it keeps | operations | talks to |
|---|---|---|---|
| ingredient requests: `handlers/ingredient.go`, `services/ingredient.go`, `repository/ingredient.go` | none between requests; during one, the `*domain.Ingredient` a PATCH has loaded | POST, GET, PATCH, DELETE on an ingredient, GET and PUT of its icon | one SQL statement at a time, each its own transaction |
| ingredient listing: `ingredient_list.go` (three layers), `services/page_token.go` | none; the position of a reader is in the page token it sends back | one page: COUNT, then SELECT after a keyset cursor | two SQL statements |
| table `ingredients`: `migrations/000001_*.up.sql` | rows, SERIAL id, `version`, unique index on `LOWER(name)` | the statements | |
| users and sessions: `services/auth.go`, `repository/auth.go`, `middleware/auth.go` | tables `users`, `sessions` | upsert of a user, creation, look-up and revocation of a session; `RequireAuth` makes two queries | cookies of the browser |
| OAuth login: `handlers/auth.go`, `services/auth_google.go` | signed state cookie in the browser | start of a login, callback, logout | Google, users and sessions |
| CSRF tokens: `middleware/csrf.go` | cookie `csrf_token`, computed from the session token and the hour | sign, validate, refresh on every authenticated response | sessions |
| session cleanup: `cmd/api/main.go` | ticker of one hour | delete expired and revoked sessions, at start and on each tick | sessions |
| error mapping: `httperr/`, `repository/errors.go`, `domain/errors.go` | none | database error to domain error to HTTP status and code | |
| router and middleware chain: `router/router.go` | none | order of RequireAuth, RequireRole, RequireCSRF before the handlers | |
| API types: `shared/api/generated.ts`, `client.ts` | none | the answers of each operation; `apiRequest` turns them into results, `ApiError` or other errors | every page |
| list page of the frontend: `pages/IngredientsListPage.tsx`, `listState.ts` | page index, stack of page tokens, filters, sort; query cache | next, previous, sort, filter, debounced search, late answers | listing |
| edit form of the frontend: `pages/IngredientFormPage.tsx`, `IngredientDetailPage.tsx`, `IngredientForm.tsx` | the query of the ingredient, field values, mutations, conflict dialog | load, refetch, submit, icon upload, delete | ingredient requests |
| auth state of the frontend: `features/auth`, `pages/Login*`, `Logout*`, `Auth*` | in each tab the `me` query and the page; the cookies all tabs share | refetch, redirects, logout and its retry | login, logout |

What is hard in it:

* **Concurrency of requests.** There is no lock and no transaction of more than
  one statement. PATCH is SELECT, merge in memory, conditional UPDATE, and
  sometimes SELECT EXISTS; RequireAuth is two SELECTs; a page is COUNT and
  SELECT. Anything may run in between.
* **Failures.** A statement may fail before it has an effect, or commit and its
  result be lost; the response may be lost; the process has no graceful
  shutdown.
* **State that outlives a request in other hands.** Versions, page tokens, CSRF
  tokens and session cookies are kept by clients and come back late.
* **Time.** Session and state-cookie expiry, hour buckets of CSRF tokens, the
  hourly cleanup, the debounce timer and the stale time of queries.
* **A cache between the user and the table.** Answers arrive after the page, the
  filter, the data or the session they were asked for have changed; fetches fail,
  pause without a connection and go on; several tabs share one set of cookies.

What makes each part correct:

* ingredient requests: no update is lost, one PATCH wins per version, a conflict
  is final, a version names one content, nothing deleted comes back, names stay
  unique up to case;
* listing: a walk over an unchanged table shows every ingredient once; over a
  changing one it never shows one twice when the sort key cannot change;
* sessions: nothing is answered for a revoked or expired session beyond requests
  already past the check; the role is that of the last login; dead sessions go
  eventually;
* login: a session is created only for the browser that started the login, at
  most once per state cookie and code;
* CSRF: the token a live session's cookie holds is accepted as long as the
  session lives, and a token of another session never is;
* list page: the data it has of its own answers what was picked last (placeholder rows
  stand in until the answer arrives), and it gets there; a later page never starts
  from the beginning; the token at index *i* is the one that page *i - 1* returned
  for the present parameters (it is not, see `page_stack`);
* edit form: what is saved is what the user saw and changed; what it shows was in
  the table, and what is no longer there goes;
* auth state: each tab comes to agree with the cookies; a logout that reports
  success has ended the session; the user who logged out stays out (not so, see
  `logout_race`).

`PROJECT.json` lists the hazards behind these, each at its line.

## 2. Modules

| module | models | state |
|---|---|---|
| `IngredientStore` | the ingredient requests on the table, statement by statement | done |
| `Catalog` | abstract: a set of uniquely named ingredients changed atomically; `IngredientStore` implements it | done |
| `IngredientStoreMC` | instances of `IngredientStore` for TLC | done |
| `IngredientStoreProofs` | theorems about `IngredientStore` | done |
| `IngredientListing` | one page of the list (COUNT, SELECT, cursor, token) and a reader that walks the pages while the table changes | done |
| `IngredientListingMC` | instances of `IngredientListing` for TLC | done |
| `IngredientListingProofs` | theorems about `IngredientListing` | done |
| `CsrfToken` | CSRF tokens: hours, signing, the window of validity | done |
| `CsrfTokenProofs` | theorems about that window | done |
| `AuthSessions` | users, sessions, the middleware chain, logout, the end of a login, cleanup, restarts, the cookies of a browser; extends `CsrfToken` | done |
| `AuthSessionsMC` | instances of `AuthSessions` for TLC | done |
| `AuthSessionsProofs` | theorems about `AuthSessions` | done |
| `ApiClient` | the answers of each operation and what `apiRequest` makes of them, as sets | done |
| `ListPage` | the list page: parameters, stack of tokens, query cache | done |
| `ListPageMC` | instances of `ListPage` for TLC | done |
| `ListPageProofs` | theorems about `ListPage` | done |
| `EditForm` | form and page of one ingredient, their query, saves and deletion; extends `ApiClient` | done |
| `EditFormProofs` | theorems about `EditForm` | done |
| `Login` | logins and logouts in the tabs of one browser: cookies, callback, `me` query, redirects; extends `ApiClient` | done |
| `LoginProofs` | theorems about `Login` | done |

### IngredientStore

| model | code |
|---|---|
| `rows` | table `ingredients`; a row is `name`, `attr`, `version`, `icon`. `attr` stands for the fields a PATCH treats alike (description, unit, strength, type) |
| `nextId` | the sequence of `ingredients.id`, never rolled back |
| `pc[r]` | where the handler of request `r` is: `received`, `write` (after the SELECT of a PATCH), `missed` (after an UPDATE of no row), `done` (response written), `idle` (no request) |
| `call[r]` | the request as parsed: operation, id, fields, expected version |
| `ingredient[r]` | the `*domain.Ingredient` the handler holds, then the response body |
| `code[r]` | the code of the response (`httperr.Map`), `OK` for a success |
| `Receive` | a client sends a call |
| `Refuse` | `parseIngredientID`, binding, and validation before the first statement |
| `Insert` | `Create` of the repository: INSERT ... RETURNING |
| `Lookup` | `GetByID`, overlay of the patch, `validateIngredient`, replacement of the version (service `Update`) |
| `Write`, `Exists` | `Update` of the repository: conditional UPDATE, then SELECT EXISTS when it matched no row |
| `Delete`, `SetIcon`, `Get`, `GetIcon` | one statement each |
| `DbFault` | the next statement fails before its effect; `StatementAnswer` covers a statement that committed and whose result is lost |
| `Deliver`, `Crash` | the response leaves, reaching the client or not; the process stops |

Two readings of the code worth a comment. A unique violation or a version
overflow surfaces as an error of the UPDATE itself, before `rows.Next()`,
because the driver reads the first message of the result while it sends the
query. The EXISTS query runs when `rows.Next()` has returned false, which has
closed `rows` and released its connection, so it does not wait for a connection
its own request holds. The model assumes that the driver does not run a
statement a second time on its own; the ingredient handlers pass
`*gin.Context` as the context, which is never cancelled, so no statement is
interrupted by a client that goes away.

`BlindVersions` says whether a PATCH may carry a version that no response can
have shown. The edit form always sends the version it loaded
(`BlindVersions = FALSE`); the API accepts any positive number.

### IngredientListing

| model | code |
|---|---|
| `rows` | table `ingredients`, of a row what the list sorts and filters by. A name stands for the place of `LOWER(name)` in the collation; `abv` for all the columns the filters look at; `Deleted` keeps ids from coming back |
| `token`, `query` | the page token the reader holds and the parameters of its last request |
| `pc`, `totalSize`, `reply` | the handler: `received`, `counted` (after COUNT), `done` |
| `shown`, `steady` | history: the entries the walk has shown; the ids that have matched all along with their sort key unchanged |
| `Ask`, `StartOver` | the reader asks for the page of its token, with parameters of its choice, or begins again |
| `Refuse` | `normalizeListParams`, `validateListParams`, `DecodePageToken` |
| `Count`, `Select` | the two statements of `List` of the repository; `Select` also makes the token (service `List`, `EncodePageToken`) |
| `DbFault`, `Deliver`, `Lose` | a statement fails; the response arrives or not |
| `Create`, `Update`, `Delete` | statements of other requests |

A filter is the set of values it admits. A page is a set of entries, its order
being that of the keys. Statements of other requests commit in any order, so a
row may appear with an earlier time of creation or a smaller id than others.
The cursor of a walk by name is `strings.ToLower` of the last name and is
compared with `LOWER(name)` of the database: the model takes the two to agree,
which they do for the letters of the locales the project is used in. Tokens
made by somebody else than the server are left out, the tests of
`page_token_test.go` cover their decoding.

### CsrfToken and AuthSessions

| model | code |
|---|---|
| `users`, `sessions` | the tables; a user is known by its Google account, a session by its raw token |
| `admins`, `adminsSince` | `AUTH_ADMIN_EMAILS` of the running process; history: when it last changed |
| `now` | the clock, in units of which `HourSeconds` make an hour |
| `jar` | the cookies `session` and `csrf_token` of one browser, with the time at which it drops them |
| `pc[r]` | `received`, `session` (after the first query of RequireAuth), `authenticated`, `checked` (after RequireRole and RequireCSRF), `upserted` (after the first statement of a callback), `done` |
| `call[r]`, `auth[r]`, `reply[r]` | the cookies and the header a request was sent with; what RequireAuth has put in the context and in the response; the response |
| `Receive` | a request of the browser, with the CSRF header copied from the cookie (`apiRequest`), or the callback of a login with the identity Google vouches for |
| `GetActiveSession`, `GetUser` | the two queries of RequireAuth, and the CSRF cookie it sets |
| `Check` | RequireRole, then RequireCSRF |
| `GetCurrentUser`, `Mutate`, `Logout` | the handlers; what those of ingredients do is `IngredientStore` |
| `UpsertGoogleUser`, `CreateSession` | the two statements of the callback, and the cookies it sets |
| `DbFault`, `Lose` | a statement fails, because of the database or because the client went away (these handlers use the context of the request); a response is lost. A statement that commits and whose result is lost is in the actions of the statements |
| `Cleanup` | the cleanup of `runSessionCleanup`, at any time |
| `Restart` | the process stops at any time and is started, perhaps with other administrators |

`deadOnArrival` is history: whether the session of a request was active when the
request came in. The HMAC of a CSRF token is modelled by what it is taken over:
a token is valid for the session it was signed for and the hour it shows.

### ApiClient

One set per operation with the codes the generated types list for it, and
`Failures`, what a caller can be told beyond the answers about its data: the
errors that any request may get, `UNKNOWN` for an error whose body is not JSON,
and `NETWORK`, which is no `ApiError` and is told apart by the pages
(`IsApiError`).

### ListPage

| model | code |
|---|---|
| `nameFilter`, `debouncedName` | the text in the field and what `useDebouncedValue` has let through |
| `typeFilter`, `sortModel`, `pageSize`, `pageIndex`, `pageTokens` | the state hooks of the page; the filter on the strength is like the one on the type |
| `cache` | the queries under `listQueryKey`: data, status, and the parameters of a fetch in flight |
| `previous` | what `keepPreviousData` shows while the page's own query is pending |
| `ChangeParams` | a rendering with other parameters: they are asked for with the old token, then the effect resets the index and they are asked for again |
| `Forward`, `Back`, `Resize` | the branches of `handlePaginationModelChange` |
| `Clamp` | the grid itself goes back when its page is beyond the row count |
| `Arrive`, `Fail`, `Collect` | an answer falls under its own key, or the request and its retry fail; an unobserved query is dropped |

The table does not change (that is `IngredientListing`), so an answer is a
function of its parameters and `RowsMatchParams` can compare the two.

### EditForm

| model | code |
|---|---|
| `row` | the ingredient in the table, not there yet, or deleted |
| `query` | the query `ingredientKeys.detail(id)`: data, status, whether it is stale, the fetch and the answer it carries |
| `form` | the values in the fields, when there is a form |
| `save`, `removal` | the two mutations: paused, sent, answered; `saw` is the data of the rendering whose button was pressed, which `mutationFn` keeps |
| `conflict` | `versionConflictOpen` |
| `Render` | every step ends with a rendering: the form is there or not, and is reset when its defaults have changed |
| `Mutate`, `Patch` | `mutationFn`: the fields that differ from `saw`, or nothing to save. A save that waited for the connection is sent from the data it kept, though the page was left and the query dropped |
| `ServeSave`, `ServeFetch`, `ServeRemove` | the backend, one step each; an error may be reported although the row has changed |
| `Saved`, `Finish`, `Told` | `submit` after the answer: `setQueryData` and navigation, the dialog, a snackbar |
| `Others` | other clients create, change and delete |

A request takes effect in one step because `IngredientStore` implements
`Catalog` (`StoreImplementsCatalog`). One ingredient and one save at a time; two
of the five fields, one of which is required; `has_icon` is left out, but a
refetch may bring "other" data with the same version because of it. Trimming of
names is left out. A fetch or a save that the page was told has failed is not
processed later. The browser sends and applies nothing while offline; when it is
back, a paused save is sent before fetches go on.

### Login

| model | code |
|---|---|
| `login[l]` | login number `l`: whether its code was exchanged, its session |
| `cookie` | state cookie and session cookie of the browser |
| `tab[t]` | page; `request`, the way through Google and back: whether the user agreed, whether the ten minutes are over, the state cookie the callback was sent with, where the answer leads; `me`, the query, with a fetch that was sent with a session or answered; `logouts`, those on their way with the session they were sent with; `out`, what the last one left on the screen |
| `Begin`, `Approve`, `Decline`, `Expire` | `StartGoogleLogin` and Google; the ten minutes of `oauthStateTTL` are over |
| `HandleGoogleCallback`, `Redirected` | the handler; its redirect arrives and sets or clears cookies by name |
| `CallbackLost`, `CallAgain` | no answer; the user reloads, with the cookies of then |
| `GetCurrentUser` | the backend serves a `me` fetch, any time after it was sent; one without a session cookie has its answer at once, since it does not depend on the time |
| `Arrive`, `FetchFails`, `Focus`, `Retry` | the `me` query: 401 is an answer (nobody), other errors are errors |
| `Render`, `Redirect` | what the routes and the effect of `LogoutPage` do when the page or the query changes: the effect sends a logout each time the page comes up (`OneMore`), and a logout whose page is gone goes on, its error shown to nobody (`Left`, `Fails`) |
| `Logout`, `LoggedOut`, `LogoutLost`, `LogoutAgain` | the handler behind RequireAuth and RequireCSRF; `logout()` of `AuthProvider` and the page go on |
| `Open`, `Go`, `BackToLogin` | an address opened or reloaded, with a new query; links, which keep the query |
| `SessionEnds` | expiry, cleanup or a logout elsewhere |

A number stands for everything that belongs to one login: state, nonce, code,
account, session. The check of the state and that of the nonce are therefore one
(`StateHolds`). That a query must be stale for 30 seconds before its window
fetches it is the choice of `Focus`. The page `error` shows nothing of the query,
which is fetched there all the same. `SignIn` and `SignOut` are the tabs in which the
user does so. A logout request that was given up and is served later is covered by
`SessionEnds`. The double effects of React's StrictMode exist in development only and
are left out. CSRF cookies are in `AuthSessions`.

## 3. Runs

| run | instance | question |
|---|---|---|
| `store` | two requests, two ids, three versions, names `gin`, `Gin`, `rum`; every operation, refused calls | does optimistic locking work: one winner per version (`OneWinner`), final conflicts (`ConflictIsFinal`), versions that name contents (`VersionNamesContent`), a PATCH that commits is laid over the row it replaces (`PatchMeetsCurrentRow`); do the requests implement `Catalog`, names unique up to case included (`ImplementsCatalog`); does a deleted or wasted id stay gone (`GoneStaysGone`) |
| `sessions` | two requests of one browser, two sessions, one account, lifetime of an hour in half hours | does a dead session stay dead for every request that comes in after its end (`DeadStaysDead`), is an answered logout final (`LogoutIsFinal`), is the CSRF cookie the browser holds accepted as long as the session lives (`HeldTokenAccepted`), does a response mend a CSRF cookie that an older session left (`ReplyHeals`) |
| `ageing` | one request of every kind, two accounts and addresses, a list of administrators that changes at restarts; fair cleanup | how long does an outdated role last (`StaleAdminsExpire`); do dead sessions go (`DeadSessionsGo`) |
| `listing` | two rows, three names, two times of creation (ties), pages of one; a filter turned on and off, both orders, both sort fields, defaults said and unsaid, unknown parameters; fair reader and server | do the pages of a walk ascend (`PagesAscend`), is nothing shown twice (`ShownOnce`), is nothing left out that was there all along (`NothingSkipped`), does a reader that goes on get to the end (`WalkEnds`) |
| `list_page` | two rows, one of each parameter changed at a time, three queries in the cache, two pages | does a later page never start over (`NeverRestarts`), does the data the page has of its own answer its present parameters, whatever arrives late; placeholder rows of earlier ones stand under the new ones until the answer is there (`RowsMatchParams`), does what the user picks take effect (`SearchTakesEffect`), what spoils the stack of tokens (`StackKeptRight`) |
| `edit_form` | one ingredient, three versions, two values of each field | is what is saved what the user saw (`SavedIsWhatUserSaw`), was cached data once in the table (`DataWasReal`), does outdated data go (`OutdatedDataGoes`), when is there a form without data (`BlankFormWaits`) |
| `login` | two tabs in which the user signs in and one in which it signs out, two logins, one logout on its way; fair fetches | is a session made only of a login the browser holds the state of, in time and once (`SessionsAreEarned`), has a logout that reports success ended its session (`SignedOutIsRevoked`), does every tab catch up (`TabsCatchUp`) |
| `blind_patch` | three requests on one ingredient, with `BlindVersions` | violated: `OmittedFieldsStay`, see below |
| `logout_fault` | one request | violated: `ClearedCookieIsDead`, see below |
| `page_stack` | three rows, four pages | violated: `TokensFollow`, see below |
| `blank_form` | as `edit_form`, two versions | violated: `FormHasData`, see below |
| `logout_race` | one tab, one login, two logouts on their way | violated: `LoggedOutStaysOut`, see below |

Bounds. Two requests and two ids are enough for every race of two statements and
for a race for one name; the theorems of section 4 cover any number. `MaxVersion`
is the last value of the column, so that the overflow of `version + 1` is
reached; `MaxId` likewise for the sequence. Between deliveries requests are
reused, so runs of any length are covered. Requests are symmetric in `store` and
`sessions`; runs with liveness and violation runs have no symmetry.

For the listing, two rows with pages of one give walks of two pages with room
for a change before, at and after the cursor; page sizes only shift the
boundaries, and the theorems cover longer walks. For sessions, two requests of
one browser are the least with which a late response of one session meets a newer
session, and two sessions suffice for that; `MaxTime` lets a session expire while
a request is in progress, and lets an hour begin within a session. A lifetime
below one second, which `config.go` admits, is not modelled.

In `ListPage`, `Searches` holds the default and each parameter changed alone, so
that every kind of change meets answers of every other; `MaxQueries` keeps three
keys in the cache, the page's own, one that is late and one that is left over;
`MaxPages` bounds the stack. In `EditForm`, `MaxVersion = 3` gives a save between
two changes by others. In `Login`, two tabs and two logins are the least with
which cookies of one login meet the answers of another, and the user signs out in
one of the two tabs, so that the other has to find out. `MaxLogouts` bounds the
logouts of a tab that are on their way: with one, a second takes the place of the
first, which then gets no answer; the theorems about `Login` hold for any number,
answered in any order. An address is not
opened while the page that is there waits for its first answer.

Fairness. `ageing` assumes `WF(Cleanup)`: the ticker of `runSessionCleanup` never
stops, and a cleanup that failed is tried again an hour later, so one gets
through unless the database fails for ever; nothing is assumed of requests.
`listing` assumes of the server that a statement which is tried again and again
does not fail every time, of the network that it does not lose every page, and
of the reader that it goes on with the parameters of its token. `list_page`
assumes that the debounce timer fires, that a request ends one way or another
(answer or failure, not which), and that the cache drops what nobody observes,
which `gcTime` does. `edit_form` assumes that a fetch is served and ends, that
time passes (`staleTime`), and that the user comes back to the window
(`refetchOnWindowFocus`); its property speaks of behaviours in which the user and
others come to rest and the connection holds. `login` assumes, for each tab, that
a `me` fetch is served and ends or, if there is none, the user comes back to the
window; nothing is assumed of logins, logouts and sessions. Everything else is safety and assumes
nothing: a request may stop at any step.

Findings:

* `blind_patch`: `Update` of the service replaces the version it has loaded by
  the one of the request without comparing them. A PATCH that carries N+1 while
  the table is at N reads the contents of N, and commits over N+1 if another
  PATCH gets there in between: fields it left out go back to their old values,
  against ARCH.md:298. With versions a response has shown this cannot happen
  (`NoLostUpdate`).
* `logout_fault`: a logout whose UPDATE fails clears the cookie of a session that
  stays active until it expires, although the comment at
  backend/internal/handlers/auth.go:319-320 calls that session known to be
  invalid.
* `page_stack`: while the next page loads, the list page shows the data and the
  token of the page before (`placeholderData`), and
  `handlePaginationModelChange` appends that token to the end of the stack again
  when the button is pressed a second time: page 2 repeats page 1, and the last
  page cannot be reached. Going back and forward appends behind tokens that are
  already there, with a like result. Changing a filter mends it.
* `blank_form`: a query without data that is paused because the browser is offline
  is not `isLoading`, so the edit page shows a form of empty fields; pressing save
  throws on `query.data!.version` (IngredientFormPage.tsx:89) and a snackbar shows
  the message of a TypeError.
* `logout_race`: `logout` sets the `me` query to null without cancelling a fetch in
  flight. Its answer, given before the session was revoked, arrives later, and the
  tab shows the user and the pages inside until it asks again (`TabsCatchUp` says
  that it does so in the end). The test AuthProvider.test.tsx:124 has no fetch in
  flight.

Met while modelling and stated as no property: the response of a PATCH takes
`has_icon` from the ingredient read before the UPDATE, and may miss an icon that
was set in between (`repository/ingredient.go:148`); COUNT and SELECT of a page
are two statements, so `totalSize` may disagree with the page
(`repository/ingredient.go:203`); a request that gets no answer leaves the list
empty without an alert (`IngredientsListPage.tsx:200`); sorting the grid by type,
unit or strength sorts by time of creation (`listState.ts:29`); a refetch with
other data, and an icon upload, reset what was typed (`IngredientForm.tsx:60`).

## 4. Proofs

`IngredientStoreProofs` proves, for any number of requests and any values of
the constants that satisfy the named assumptions of `IngredientStore`:

| theorem | states |
|---|---|
| `TypeCorrect` | `Spec => []TypeOK` |
| `AtMostOneWinner` | `Spec => []OneWinner` |
| `VersionsNameContent` | `Spec => []VersionNamesContent` |
| `DeletedForGood` | `Spec => GoneStaysGone` |
| `StoreImplementsCatalog` | `Spec => Abstract!Spec` |
| `ConflictsAreFinal` | `~BlindVersions /\ Spec => []ConflictIsFinal` |
| `NoLostUpdate` | `~BlindVersions /\ Spec => PatchMeetsCurrentRow` |

The argument. `IInv` adds to `TypeOK` that ids at or above `nextId` are absent
(`FreshIds`), that names are unique, and for each request what its answer says
of the table (`SlotInv`): a PATCH answered OK has moved the row beyond the
version it was sent for, and a body agrees with the row as long as the version
is the same. `TableEvolves` says that in one step a row keeps its id, that its
version never goes back and that its fields stay while the version does; so a
slot that does not act keeps `SlotInv` (`SlotStable`), and the one that acts
pays for itself (`ActorStep`). `OneWinner` and `VersionNamesContent`, which
relate two requests, are not inductive alone: they follow from what the acting
request owes (`PairStep`). `HonestInv` adds, for clients that send versions they
were shown, that between the SELECT and the UPDATE a PATCH holds the contents of
the row whenever the row still has the version it expects; the UPDATE then
writes exactly the patch laid over the row.

`IngredientListingProofs` proves, for any finite table, any parameters and any
reader:

| theorem | states |
|---|---|
| `ListingTypeCorrect` | `Spec => []TypeOK` |
| `WalksAscend` | `Spec => []PagesAscend` |
| `NoDuplicates` | `Spec => []ShownOnce` |
| `NoOmissions` | `Spec => []NothingSkipped` |

The invariant says that a token divides the keyset order: what the walk has
shown is at or before its last entry, and a steady id was shown or is after it
(`TokenInv`); and that a page lies between the token it was asked for with and
the one it comes with (`ReplyInv`). A token from the wrong order would break
it, which is why `Compatible` matters. Times of creation never change
(`Created`), from which it follows that a walk by time repeats nothing. Changes
of the table are one lemma (`InvTable`): steady ids keep their entries.

`CsrfTokenProofs` proves `WindowCoversLifetime`: for lifetimes of at most an
hour or of whole hours (`WholeHours`), whatever the length of the hour, a token
is valid for its session from its signing to the last moment the session can
live to. `WindowFallsShort` proves the converse: for a lifetime of whole hours and
a remainder (ninety minutes, say) there is a moment of signing and a later one at
which the session and the cookie still live and the token is refused, because
`csrfMaxHourDelta` rounds down (`csrf.go:101`), although api/openapi.yaml:552-553
promises the lifetime of the session. The next authenticated response mends it
(`ReplyHeals`). The default of `SESSION_TTL` is whole hours, where it cannot
happen.

`AuthSessionsProofs` proves, for any number of requests, sessions and accounts, any
clock and any allowlists:

| theorem | states |
|---|---|
| `AuthTypeCorrect` | `Spec => []TypeOK` |
| `DeadSessionsStayDead` | `Spec => []DeadStaysDead` |
| `LogoutsAreFinal` | `Spec => []LogoutIsFinal` |
| `RolesGoStale` | `Spec => []StaleAdminsExpire` |
| `CookiesAccepted` | `WholeHours` implies `Spec => []HeldTokenAccepted` |
| `RepliesHeal` | `WholeHours` implies `Spec => ReplyHeals` |

The invariant has three parts. The tables (`TableInv`): a session belongs to an
account that exists, expires no later than a lifetime from now, and, if its account
is an administrator the allowlist does not name, no later than a lifetime after the
allowlist changed. The requests (`SlotInv`): what RequireAuth has let through was
active when it came in; the role a request carries and the CSRF token it was given
belong to its session; a login between its two statements has just given its account
the role of the present allowlist (`UpsertedInv`), without which `CreateSession`
would break `RowInv` after a restart. The browser (`JarInv`): every CSRF token, in a
cookie or in a response under way, was signed no earlier than its session was
created and no later than now (`Issued`); by `WindowCoversLifetime` such a token is
valid as long as the session lives (`IssuedIsValid`). That a dead session stays dead
is one lemma (`DeadStays`), about any step of any other actor. The last two theorems
need `WholeHours`: `WindowFallsShort` is their counterexample. The default of
`SESSION_TTL` satisfies it.

`EditFormProofs` proves, for any fields and any number of versions:

| theorem | states |
|---|---|
| `EditTypeCorrect` | `Spec => []TypeOK` |
| `DataIsReal` | `Spec => []DataWasReal` |
| `SavesAreSeen` | `Spec => SavedIsWhatUserSaw` |
| `BlankOnlyOffline` | `Spec => []BlankFormWaits` |

The invariant says of the cached data, of the answer under way and of what the user
saw when the button was pressed that they are `Real`: an older state of the row, or
the present one if the versions agree. A change of the row keeps that
(`RealStays`), because it raises the version. A save that was sent carries the
version of what the user saw and the difference to it (`SaveOK`); one that waits for
the connection has kept the data it will be computed from, which stays `Real` however
long it waits and whatever becomes of the query (`SaveInv`). A PATCH that commits has found its version in the table, so the
row is what the user saw, and the difference laid over it gives what was on the
screen (`PatchMakesValues`). `BlankOnlyOffline` delimits the finding `blank_form`: a
page of the ingredient that has neither data nor an error is never idle (`Waits`), so
the form without data needs a fetch that is paused.

`LoginProofs` proves, for any number of tabs and logins:

| theorem | states |
|---|---|
| `LoginTypeCorrect` | `Spec => []TypeOK` |
| `SessionsEarned` | `Spec => SessionsAreEarned` |
| `SignedOutRevoked` | `Spec => SignedOutIsRevoked` |

The invariant says that a login with a session has a spent code (`LoginInv`), which
is why a repeated callback makes no second one; that the browser's cookie, the
cookie a logout was sent with and the redirect of a callback all name sessions that
were created (`Created`), so that a refusal by RequireAuth means the session is
over (`LogoutOK`): 401 for a cookie of a session not yet created would count as a
logout and revoke nothing. `ShownOK` says which pages may be on the screen for what
the query says; every rendering establishes it (`RenderOK`). Logins only grow older,
so the tabs that do not act keep their part (`TabsStay`).

`ListPageProofs` proves, for any table, parameters, number of pages and size of
the cache:

| theorem | states |
|---|---|
| `ListTypeCorrect` | `Spec => []TypeOK` |
| `NoRestart` | `Spec => []NeverRestarts` |
| `RowsAnswerParams` | `Spec => []RowsMatchParams` |
| `PushesKeepStack` | `Spec => StackKeptRight` |
| `PagesPartition` | the token of a page leads to exactly the rows the page has left over |

The invariant says that a query holds nothing but the page of its own key and awaits
nothing else (`QueryInv`, which leaving a filter out of the key would break), and
that every token of the stack but the first is a real one (`StackInv`). That the
stack holds tokens at all rests on `PageTyped`: a page that is not the last shows
something, so that there is a last row for the token to name (`PageNotEmpty`). Both
need the greatest and the least of a finite set of numbers (`Extremes`); the
induction theorem for finite sets cannot be cited, so a smallest counterexample is
taken by the well-founded order of strict subsets instead. The stack also moves by
the grid's own doing (`Clamp`), to the last page of the total on screen, which is a
number whatever the data on screen belongs to (`PageCountNat`).

`PushesKeepStack` is the other side of the finding `page_stack`: if the button for the
next page were disabled while the data shown is that of before, and the stack cut
after the present page before a token is pushed, the stack would be right at all
times. `PagesPartition` says what a right stack is worth: the page a token leads to
and those after it are what the page it came with has left over.

Assumptions. Each proof uses the assumptions its module names: bounds that are
numbers, fields and defaults the code has, and that the values which stand for
"nothing" (`None`, `Anonymous`, `Absent`, `Gone`, `Cleared`) are none of the values
they are told apart from (`ValuesAssumption`). TLC evaluates them in every run. Each
inductive invariant was checked by TLC on the instance of its component's run
before it was proved.

Only model-checked: liveness (`DeadSessionsGo`, `WalkEnds`, `SearchTakesEffect`,
`OutdatedDataGoes`, `TabsCatchUp`), which rests on fairness and is out of the
prover's reach; the five violations; and the mutants of section 5. Every invariant
and every action property of a passing run is proved. No module declares a
recursive operator.

## 5. Mutants

Each property of a passing run has a mutant in `PROJECT.json`: a version of one
definition with a plausible bug (the version left out of the WHERE clause, an
UPDATE that does not advance it, an index on `name` instead of `LOWER(name)`,
ids reused, a nil check dropped, filters left out of a query key, a state cookie
without its expiry, a PATCH that leaves out emptied fields), with which TLC finds
the property violated.

## 6. Plan

Models that are left:

1. A composition of `AuthSessions` with `IngredientStore`: every change of the
   table was made for an administrator whose session was active when the request
   came in.
2. `ErrorMapping` as operators against a reference table.

Proofs that are left:

1. For the composition: that what `AuthSessions` lets through is the only thing
   that changes the rows of `IngredientStore`.
2. For `Login`, the other side of `logout_race`: who is shown again after a logout
   was the user of a session that was live when the answer was given.
3. An abstract life of a session (not yet, live, dead) that `AuthSessions` and `Login`
   both implement.

## 7. Not modelled

Configuration parsing, health endpoint, logging, layout and widgets, build and
deployment keep no state the properties above speak of. The choice and the
preview of an icon file are local to one page. What PostgreSQL and the driver do
is modelled as the statements of `src` use them; TanStack Query, the DataGrid,
the browser and Google are external and modelled as the pages use them, and their
definitions are marked so in the map. Failures of `StartGoogleLogin` itself (no
random bytes, no OAuth configuration) leave the browser where it was.
`RequireAdmin` of the frontend hides pages by the role the `me` query names; what
is allowed is decided by the backend.
