----------------------- MODULE IngredientListingProofs -----------------------
(***************************************************************************)
(* Proofs about IngredientListing, for every table and every reader.       *)
(***************************************************************************)
EXTENDS IngredientListing, FiniteSetTheorems, TLAPS

-----------------------------------------------------------------------------
(* The inductive invariant *)

\* What the handler goes by.
Params == Normalized(query)

AtOrBefore(order, e, last) == e = last \/ Follows(order, last, e)

\* The entry of a row that is there, or was: a time of creation does not change.
Created(e) ==
  /\ rows[e.id] # None
  /\ e.id \in Present => e.key = rows[e.id].created_at

\* The token divides the order: what was shown is on this side of it, and what has
\* been there all along was shown or is on the other.
TokenInv ==
  token # None =>
    /\ \A e \in shown : AtOrBefore(token.order, e, token.last)
    /\ \A i \in steady : i \in ids(shown) \/ Follows(token.order, EntryOf(i, token.sort), token.last)
    /\ token.sort = "created_at" => \A e \in shown : Created(e)

\* A walk that has no token yet has shown nothing.
FirstPageInv == pc # "idle" /\ token = None => shown = {}

\* The steady ids match the filters last sent.
SteadyInv ==
  steady # {} =>
    /\ query # None
    /\ query.filter # Other
    /\ steady \subseteq Matching(query.filter)

\* A statement runs for parameters that were let through.
HandlerInv == pc = "counted" => Allowed(Params) /\ Compatible(token, Params)

\* A page is between the token it was asked for with and the one it comes with.
ReplyInv ==
  pc = "done" /\ reply.code = "OK" =>
    /\ Allowed(Params) /\ Compatible(token, Params)
    /\ token # None => \A e \in reply.items : Follows(Params.order, e, token.last)
    /\ Params.sort = "created_at" => \A e \in reply.items : Created(e)
    /\ \A i \in steady :
         \/ i \in ids(shown) \cup ids(reply.items)
         \/ reply.next # None /\ Follows(Params.order, EntryOf(i, Params.sort), reply.next.last)
    /\ reply.next # None =>
         /\ reply.next.order = Params.order /\ reply.next.sort = Params.sort
         /\ reply.next.last \in reply.items
         /\ \A e \in reply.items : AtOrBefore(Params.order, e, reply.next.last)

IInv ==
  /\ TypeOK
  /\ TokenInv
  /\ FirstPageInv
  /\ SteadyInv
  /\ HandlerInv
  /\ ReplyInv
  /\ ShownOnce

-----------------------------------------------------------------------------
(* Data *)

\* Parameters that are let through are complete.
LEMMA NormalForm ==
  ASSUME NEW x \in Query, Allowed(Normalized(x))
  PROVE  /\ Normalized(x).sort \in Sorts
         /\ Normalized(x).order \in Orders
         /\ Normalized(x).pageSize \in 1..MaxPageSize
         /\ Normalized(x).filter = x.filter
         /\ x.filter \in SUBSET ABVs
BY DEF Query, Allowed, Normalized, Sorts, Orders

\* A row that is there gives an entry, under its own id.
LEMMA EntryOfType ==
  ASSUME TypeOK, NEW i \in Present, NEW sort
  PROVE  EntryOf(i, sort) \in Entry /\ EntryOf(i, sort).id = i
<1>1. i \in Ids /\ rows[i] \in Row
  BY DEF TypeOK, Present
<1>2. QED
  BY <1>1 DEF EntryOf, Entry, Row

\* An entry is its id and its key, both numbers.
LEMMA EntryFields ==
  ASSUME NEW e \in Entry
  PROVE  e.id \in Nat /\ e.key \in Nat /\ e = [id |-> e.id, key |-> e.key]
BY IdsAssumption, KeysAssumption DEF Entry

\* The keyset order is transitive ...
LEMMA FollowsTransitive ==
  ASSUME NEW order, NEW e \in Entry, NEW f \in Entry, NEW g \in Entry,
         Follows(order, e, f), Follows(order, f, g)
  PROVE  Follows(order, e, g)
BY EntryFields DEF Follows, Less

\* ... and tells entries of one id apart by their keys.
LEMMA FollowsDiffers ==
  ASSUME NEW order, NEW e \in Entry, NEW f \in Entry, Follows(order, e, f), e.id = f.id
  PROVE  e.key # f.key
BY EntryFields DEF Follows, Less

\* What is after the last entry is after all up to it.
LEMMA FollowsAtOrBefore ==
  ASSUME NEW order, NEW e \in Entry, NEW last \in Entry, NEW f \in Entry,
         Follows(order, e, last), AtOrBefore(order, f, last)
  PROVE  Follows(order, e, f)
BY FollowsTransitive DEF AtOrBefore

\* The rows after a cursor are finitely many entries.
LEMMA BeyondFinite ==
  ASSUME TypeOK, NEW x, NEW t
  PROVE  /\ Beyond(x, t) \subseteq Entry
         /\ IsFiniteSet(Beyond(x, t))
         /\ Cardinality(Beyond(x, t)) \in Nat
<1> DEFINE all == {EntryOf(id, x.sort) : id \in Matching(x.filter)}
<1>1. Matching(x.filter) \subseteq Present /\ Present \subseteq Ids
  BY DEF Matching, Present
<1>2. IsFiniteSet(Matching(x.filter))
  BY <1>1, IdsAssumption, FS_Subset
<1> DEFINE f == [id \in Matching(x.filter) |-> EntryOf(id, x.sort)]
<1>3. IsFiniteSet(all)
  <2>1. f \in Surjection(Matching(x.filter), all)
    BY DEF Surjection, Range
  <2>2. QED
    BY <1>2, <2>1, FS_Surjection
<1>4. Beyond(x, t) \subseteq all
  BY DEF Beyond
<1>5. all \subseteq Entry
  BY <1>1, EntryOfType
<1>6. IsFiniteSet(Beyond(x, t))
  BY <1>3, <1>4, FS_Subset
<1>7. QED
  BY <1>4, <1>5, <1>6, FS_CardinalityType

\* The table is finite.
LEMMA TableFinite == Cardinality(Ids) \in Nat
BY IdsAssumption, FS_CardinalityType

\* A page without a next token holds all the entries there are.
LEMMA LastPage ==
  ASSUME NEW x, NEW entries, IsFiniteSet(entries), NEW items,
         IsFirst(items, entries, x), ~(Cardinality(entries) > x.pageSize)
  PROVE  items = entries
BY FS_Subset DEF IsFirst

-----------------------------------------------------------------------------
(* Steps of the reader and the handler *)

\* In the beginning nothing was asked for.
LEMMA InvInit == Init => IInv
<1> SUFFICES ASSUME Init  PROVE IInv
  OBVIOUS
<1>1. Cardinality(Ids) \in Nat
  BY IdsAssumption, FS_CardinalityType
<1>2. TypeOK
  BY <1>1 DEF Init, TypeOK, Phases
<1>3. QED
  BY <1>2 DEF Init, IInv, TokenInv, FirstPageInv, SteadyInv, HandlerInv, ReplyInv, ShownOnce

\* Asking for a page.
LEMMA InvAsk ==
  ASSUME IInv, NEW x \in Queries, Ask(x)
  PROVE  IInv'
<1> USE DEF IInv
<1>1. rows' = rows /\ token' = token /\ totalSize' = totalSize /\ reply' = reply
  BY DEF Ask
<1>2. /\ pc = "idle" /\ pc' = "received" /\ query' = x
      /\ shown' \subseteq shown
  BY DEF Ask
<1>3. /\ steady' \subseteq Matching(x.filter)
      /\ steady' # {} => x.filter # Other
      /\ token # None => steady' \subseteq steady /\ shown' = shown
  BY DEF Ask
<1>4. Matching(x.filter) \subseteq Present
  BY DEF Matching
<1>5. x # None
  BY ValuesAssumption
<1>6. Present' = Present
  BY <1>1 DEF Present
<1>7. TypeOK'
  BY <1>1, <1>2, <1>3, <1>4, <1>5, <1>6 DEF TypeOK, Phases
<1>8. TokenInv'
  BY <1>1, <1>2, <1>3, <1>6 DEF TokenInv, EntryOf, Created
<1>9. FirstPageInv'
  BY <1>1 DEF FirstPageInv, Ask
<1>10. SteadyInv'
  BY <1>1, <1>2, <1>3, <1>5, <1>6 DEF SteadyInv, Matching
<1>11. QED
  BY <1>2, <1>7, <1>8, <1>9, <1>10 DEF HandlerInv, ReplyInv, ShownOnce

\* The parameters, the token and the history stay as they are, and no page is answered.
LEMMA InvQuiet ==
  ASSUME IInv, TypeOK', HandlerInv',
         UNCHANGED <<rows, query, token, shown, steady>>,
         pc # "idle",
         ~(pc' = "done" /\ reply'.code = "OK")
  PROVE  IInv'
<1> USE DEF IInv
<1>1. Present' = Present
  BY DEF Present
<1>2. TokenInv'
  BY <1>1 DEF TokenInv, EntryOf, Created
<1>3. FirstPageInv'
  BY DEF FirstPageInv
<1>4. SteadyInv'
  BY <1>1 DEF SteadyInv, Matching
<1>5. QED
  BY <1>2, <1>3, <1>4 DEF ReplyInv, ShownOnce

\* Parameters refused.
LEMMA InvRefuse == ASSUME IInv, Refuse  PROVE IInv'
<1>1. \E code \in {"VALIDATION_ERROR", "INVALID_PAGE_TOKEN"} : Answer(code, {}, None)
  BY DEF Refuse
<1>2. PICK code \in {"VALIDATION_ERROR", "INVALID_PAGE_TOKEN"} : Answer(code, {}, None)
  BY <1>1
<1>3. pc = "received"
  BY DEF Refuse
<1>4. reply' \in Reply /\ reply'.code = code
  BY <1>2 DEF Answer, Reply, Codes, IInv, TypeOK
<1>5. TypeOK'
  BY <1>2, <1>3, <1>4, ValuesAssumption, TableFinite DEF IInv, TypeOK, Answer, Phases, Present
<1>6. QED
  BY <1>2, <1>3, <1>4, <1>5, InvQuiet DEF Answer, HandlerInv

\* A statement that fails.
LEMMA InvDbFault == ASSUME IInv, DbFault  PROVE IInv'
<1>1. Answer("SERVER_ERROR", {}, None) /\ pc \in {"received", "counted"}
  BY DEF DbFault
<1>2. reply' \in Reply /\ reply'.code = "SERVER_ERROR"
  BY <1>1 DEF Answer, Reply, Codes, IInv, TypeOK
<1>3. TypeOK'
  BY <1>1, <1>2, ValuesAssumption, TableFinite DEF IInv, TypeOK, Answer, Phases, Present
<1>4. QED
  BY <1>1, <1>2, <1>3, InvQuiet DEF Answer, HandlerInv

\* The COUNT.
LEMMA InvCount == ASSUME IInv, Count  PROVE IInv'
<1>1. /\ pc = "received" /\ pc' = "counted"
      /\ UNCHANGED <<rows, query, token, reply, shown, steady>>
      /\ totalSize' = Cardinality(Matching(Params.filter))
      /\ Allowed(Params) /\ Compatible(token, Params)
  BY DEF Count, Params
<1>2. Cardinality(Matching(Params.filter)) \in 0..Cardinality(Ids)
  <2>1. Matching(Params.filter) \subseteq Ids
    BY DEF Matching, Present
  <2>2. QED
    BY <2>1, IdsAssumption, FS_Subset, FS_CardinalityType
<1>3. TypeOK'
  BY <1>1, <1>2 DEF IInv, TypeOK, Phases, Present
<1>4. HandlerInv'
  BY <1>1 DEF HandlerInv, Params, Compatible, Allowed, Normalized
<1>5. QED
  BY <1>1, <1>3, <1>4, InvQuiet

\* The response is lost.
LEMMA InvLose == ASSUME IInv, Lose  PROVE IInv'
<1>1. /\ pc = "done" /\ pc' = "idle" /\ reply' = None
      /\ UNCHANGED <<rows, query, token, totalSize, shown, steady>>
  BY DEF Lose
<1>2. TypeOK'
  BY <1>1 DEF IInv, TypeOK, Phases, Present
<1>3. QED
  BY <1>1, <1>2, InvQuiet DEF HandlerInv

\* A new walk.
LEMMA InvStartOver == ASSUME IInv, StartOver  PROVE IInv'
<1>1. /\ pc = "idle" /\ pc' = "idle" /\ token' = None /\ shown' = {} /\ steady' = {}
      /\ UNCHANGED <<rows, query, totalSize, reply>>
  BY DEF StartOver
<1>2. TypeOK'
  BY <1>1 DEF IInv, TypeOK, Present
<1>3. QED
  BY <1>1, <1>2 DEF IInv, TokenInv, FirstPageInv, SteadyInv, HandlerInv, ReplyInv, ShownOnce

\* The SELECT: what it answers is between two tokens, and leaves out nothing steady.
LEMMA InvSelect == ASSUME IInv, Select  PROVE IInv'
<1> USE DEF IInv
<1> DEFINE entries == Beyond(Params, token)
<1>1. PICK items \in SUBSET entries :
        /\ IsFirst(items, entries, Params)
        /\ \E next \in NextTokens(items, entries, Params) : Answer("OK", items, next)
  BY DEF Select, Params
<1>2. PICK next \in NextTokens(items, entries, Params) : Answer("OK", items, next)
  BY <1>1
<1>3. pc = "counted" /\ Allowed(Params) /\ Compatible(token, Params) /\ query \in Query
  BY QueriesAssumption DEF Select, HandlerInv, TypeOK
<1>4. /\ Params.sort \in Sorts /\ Params.order \in Orders /\ Params.pageSize \in 1..MaxPageSize
      /\ Params.filter = query.filter
  BY <1>3, NormalForm DEF Params
<1>5. entries \subseteq Entry /\ IsFiniteSet(entries) /\ Cardinality(entries) \in Nat
  BY BeyondFinite
<1>6. \A e \in entries :
        /\ e.id \in Matching(Params.filter) /\ e.id \in Present
        /\ e = EntryOf(e.id, Params.sort)
        /\ token # None => Follows(Params.order, e, token.last)
  <2> SUFFICES ASSUME NEW e \in entries
               PROVE  /\ e.id \in Matching(Params.filter) /\ e.id \in Present
                      /\ e = EntryOf(e.id, Params.sort)
                      /\ token # None => Follows(Params.order, e, token.last)
    OBVIOUS
  <2>1. PICK id \in Matching(Params.filter) : e = EntryOf(id, Params.sort)
    BY DEF Beyond
  <2>2. e.id = id
    BY <2>1 DEF EntryOf
  <2>3. QED
    BY <2>1, <2>2 DEF Beyond, Matching
<1>7. ASSUME Cardinality(entries) > Params.pageSize
      PROVE  /\ next \in Token
             /\ next.order = Params.order /\ next.sort = Params.sort
             /\ next.last \in items
             /\ \A e \in items : AtOrBefore(Params.order, e, next.last)
  <2>1. PICK last \in items :
          /\ \A g \in items \ {last} : Follows(Params.order, last, g)
          /\ next = TokenAfter(last, Params)
    BY <1>2, <1>7 DEF NextTokens
  <2>2. next \in Token
    BY <2>1, <1>4, <1>5 DEF TokenAfter, Token
  <2>3. QED
    BY <2>1, <2>2 DEF TokenAfter, AtOrBefore
<1>8. ASSUME ~(Cardinality(entries) > Params.pageSize)
      PROVE  next = None /\ items = entries
  BY <1>1, <1>2, <1>5, <1>8, LastPage DEF NextTokens
<1> HIDE DEF entries
<1>9. /\ UNCHANGED <<rows, query, token, shown, steady>> /\ pc' = "done" /\ totalSize' = 0
      /\ reply' = [code |-> "OK", items |-> items, next |-> next, totalSize |-> totalSize]
  BY <1>2 DEF Answer
<1>10. Params' = Params /\ Present' = Present
  BY <1>9 DEF Params, Normalized, Present
<1>11. reply' \in Reply /\ reply'.code = "OK" /\ reply'.items = items /\ reply'.next = next
  BY <1>5, <1>7, <1>8, <1>9 DEF TypeOK, Reply, Codes
<1>12. TypeOK'
  BY <1>3, <1>9, <1>10, <1>11, ValuesAssumption, TableFinite DEF TypeOK, Phases
<1>13. \A i \in steady :
         \/ i \in ids(shown) \cup ids(items)
         \/ next # None /\ Follows(Params.order, EntryOf(i, Params.sort), next.last)
  <2> SUFFICES ASSUME NEW i \in steady, i \notin ids(shown), i \notin ids(items)
               PROVE  next # None /\ Follows(Params.order, EntryOf(i, Params.sort), next.last)
    OBVIOUS
  <2>1. i \in Matching(Params.filter) /\ i \in Present
    BY <1>4 DEF SteadyInv, Matching
  <2>2. token # None => Follows(Params.order, EntryOf(i, Params.sort), token.last)
    BY <1>3 DEF TokenInv, Compatible
  <2>3. EntryOf(i, Params.sort) \in entries
    BY <2>1, <2>2 DEF Beyond, entries
  <2>4. EntryOf(i, Params.sort) \notin items
    BY <2>1, EntryOfType DEF ids
  <2>5. Cardinality(entries) > Params.pageSize
    BY <2>3, <2>4, <1>8
  <2>6. QED
    BY <2>3, <2>4, <2>5, <1>1, <1>7, ValuesAssumption DEF IsFirst
<1>14. ASSUME Params.sort = "created_at", NEW e \in items
       PROVE  Created(e) /\ e.key = rows[e.id].created_at
  BY <1>1, <1>6, <1>14 DEF Created, EntryOf, Present
<1>15. ReplyInv'
  <2>1. (Allowed(Params) /\ Compatible(token, Params))'
    BY <1>3, <1>9, <1>10 DEF Allowed, Compatible
  <2>2. (token # None => \A e \in reply.items : Follows(Params.order, e, token.last))'
    BY <1>1, <1>6, <1>9, <1>10, <1>11
  <2>3. (Params.sort = "created_at" => \A e \in reply.items : Created(e))'
    BY <1>9, <1>10, <1>11, <1>14 DEF Created
  <2>4. (\A i \in steady :
           \/ i \in ids(shown) \cup ids(reply.items)
           \/ reply.next # None
                 /\ Follows(Params.order, EntryOf(i, Params.sort), reply.next.last))'
    BY <1>9, <1>10, <1>11, <1>13 DEF EntryOf
  <2>5. (reply.next # None =>
           /\ reply.next.order = Params.order /\ reply.next.sort = Params.sort
           /\ reply.next.last \in reply.items
           /\ \A e \in reply.items : AtOrBefore(Params.order, e, reply.next.last))'
    BY <1>7, <1>8, <1>10, <1>11
  <2>6. QED
    BY <2>1, <2>2, <2>3, <2>4, <2>5 DEF ReplyInv
<1>16. ShownOnce'
  <2> SUFFICES ASSUME NEW e \in items, NEW f \in shown, e.id = f.id
               PROVE  Params.sort = "name" /\ e.key # f.key
    BY <1>9, <1>10, <1>11 DEF ShownOnce, Params
  <2>1. token # None /\ token \in Token
    BY <1>3 DEF FirstPageInv, TypeOK
  <2>2. e \in Entry /\ f \in Entry /\ token.last \in Entry
    BY <1>1, <1>5, <2>1 DEF TypeOK, Token
  <2>3. Follows(Params.order, e, token.last) /\ AtOrBefore(Params.order, f, token.last)
    BY <1>1, <1>3, <1>6, <2>1 DEF TokenInv, Compatible
  <2>4. e.key # f.key
    BY <2>2, <2>3, FollowsAtOrBefore, FollowsDiffers
  <2>5. ASSUME Params.sort = "created_at"  PROVE FALSE
    <3>1. Created(f)
      BY <1>3, <2>1, <2>5 DEF TokenInv, Compatible
    <3>2. e.id \in Present /\ e.key = rows[e.id].created_at
      BY <1>1, <1>6, <1>14, <2>5
    <3>3. QED
      BY <2>4, <3>1, <3>2 DEF Created
  <2>6. QED
    BY <1>4, <2>4, <2>5 DEF Sorts
<1>17. TokenInv' /\ FirstPageInv' /\ SteadyInv' /\ HandlerInv'
  BY <1>3, <1>9, <1>10
     DEF TokenInv, FirstPageInv, SteadyInv, HandlerInv, EntryOf, Created, Matching
<1>18. QED
  BY <1>12, <1>15, <1>16, <1>17

\* The response arrives: the next token takes the place of the last.
LEMMA InvDeliver == ASSUME IInv, Deliver  PROVE IInv'
<1> USE DEF IInv
<1>1. /\ pc = "done" /\ pc' = "idle" /\ reply' = None
      /\ UNCHANGED <<rows, query, totalSize, steady>>
  BY DEF Deliver
<1>2. Params' = Params /\ Present' = Present
  BY <1>1 DEF Params, Normalized, Present
<1>3. CASE reply.code # "OK"
  <2>1. UNCHANGED <<token, shown>>
    BY <1>3 DEF Deliver
  <2>2. TypeOK'
    BY <1>1, <1>2, <2>1 DEF TypeOK, Phases
  <2>3. QED
    BY <1>1, <2>1, <2>2, InvQuiet DEF HandlerInv
<1>4. CASE reply.code = "OK"
  <2>1. token' = reply.next /\ shown' = shown \cup reply.items
    BY <1>4 DEF Deliver
  <2>2. reply \in Reply /\ shown \subseteq Entry
    BY <1>1 DEF TypeOK
  <2>3. TypeOK'
    BY <1>1, <1>2, <2>1, <2>2 DEF TypeOK, Phases, Reply
  <2>4. /\ Compatible(token, Params)
        /\ token # None => \A e \in reply.items : Follows(Params.order, e, token.last)
        /\ Params.sort = "created_at" => \A e \in reply.items : Created(e)
        /\ \A i \in steady :
             \/ i \in ids(shown) \cup ids(reply.items)
             \/ reply.next # None
                   /\ Follows(Params.order, EntryOf(i, Params.sort), reply.next.last)
        /\ reply.next # None =>
             /\ reply.next.order = Params.order /\ reply.next.sort = Params.sort
             /\ reply.next.last \in reply.items
             /\ \A e \in reply.items : AtOrBefore(Params.order, e, reply.next.last)
    BY <1>1, <1>4 DEF ReplyInv
  <2>5. ASSUME reply.next # None
        PROVE  /\ \A e \in shown' : AtOrBefore(Params.order, e, reply.next.last)
               /\ Params.sort = "created_at" => \A e \in shown' : Created(e)
    <3>1. reply.next.last \in Entry /\ reply.next.last \in reply.items
      BY <2>2, <2>4, <2>5 DEF Reply
    <3>2. ASSUME NEW e \in shown
          PROVE  /\ AtOrBefore(Params.order, e, reply.next.last)
                 /\ Params.sort = "created_at" => Created(e)
      <4>1. token # None /\ token.last \in Entry
        BY <1>1 DEF FirstPageInv, TypeOK, Token
      <4>2. token.order = Params.order /\ token.sort = Params.sort
        BY <2>4, <4>1 DEF Compatible
      <4>3. AtOrBefore(Params.order, e, token.last)
        BY <4>1, <4>2 DEF TokenInv
      <4>4. Follows(Params.order, reply.next.last, token.last)
        BY <2>4, <3>1, <4>1
      <4>5. QED
        BY <2>2, <3>1, <4>1, <4>2, <4>3, <4>4, FollowsAtOrBefore DEF TokenInv, AtOrBefore
    <3>3. QED
      BY <2>1, <2>4, <2>5, <3>2
  <2>6. TokenInv'
    <3> SUFFICES ASSUME reply.next # None
                 PROVE  /\ \A e \in shown' : AtOrBefore(Params.order, e, reply.next.last)
                        /\ \A i \in steady :
                             \/ i \in ids(shown')
                             \/ Follows(Params.order, EntryOf(i, Params.sort), reply.next.last)
                        /\ Params.sort = "created_at" => \A e \in shown' : Created(e)
      BY <1>1, <1>2, <2>1, <2>4 DEF TokenInv, EntryOf, Created
    <3>1. ids(shown') = ids(shown) \cup ids(reply.items)
      BY <2>1 DEF ids
    <3>2. QED
      BY <2>4, <2>5, <3>1
  <2>7. SteadyInv'
    BY <1>1, <1>2 DEF SteadyInv, Matching
  <2>8. QED
    BY <1>1, <2>3, <2>6, <2>7 DEF FirstPageInv, HandlerInv, ReplyInv, ShownOnce
<1>5. QED
  BY <1>3, <1>4

-----------------------------------------------------------------------------
(* Steps of other requests *)

\* A change of the table that leaves the entries of the steady ids where they are, and
\* gives no row another time of creation.
LEMMA InvTable ==
  ASSUME IInv,
         UNCHANGED <<pc, query, token, totalSize, reply, shown>>,
         rows' \in [Ids -> Row \cup {None, Deleted}],
         steady' \subseteq steady,
         \A i \in steady' :
           /\ i \in Matching(query.filter)'
           /\ EntryOf(i, WalkSort)' = EntryOf(i, WalkSort),
         \A e \in Entry : Created(e) => Created(e)'
  PROVE  IInv'
<1> USE DEF IInv
<1>1. WalkSort' = WalkSort /\ Params' = Params
  BY DEF WalkSort, Params, Normalized
<1>2. Matching(query.filter)' \subseteq Present'
  BY DEF Matching
<1>3. TypeOK'
  BY <1>2 DEF TypeOK
<1>4. shown \subseteq Entry /\ (reply # None => reply.items \subseteq Entry)
  BY DEF TypeOK, Reply
<1>5. TokenInv'
  BY <1>1, <1>4 DEF TokenInv, WalkSort
<1>6. SteadyInv'
  BY DEF SteadyInv
<1>7. ReplyInv'
  <2> SUFFICES ASSUME pc = "done", reply.code = "OK"
               PROVE  ReplyInv'
    BY DEF ReplyInv
  <2>1. Compatible(token, Params)
    BY DEF ReplyInv
  <2>2. WalkSort = Params.sort
    BY <2>1 DEF WalkSort, Compatible, Params
  <2>3. \A i \in steady' : EntryOf(i, Params.sort)' = EntryOf(i, Params.sort)
    BY <1>1, <2>2
  <2>4. \A e \in reply.items : Created(e) => Created(e)'
    BY <1>4, ValuesAssumption DEF TypeOK
  <2>5. QED
    BY <1>1, <2>3, <2>4 DEF ReplyInv, Allowed, Compatible
<1>8. QED
  BY <1>1, <1>3, <1>5, <1>6, <1>7 DEF FirstPageInv, HandlerInv, ShownOnce, Allowed, Compatible

\* A new row was in no walk.
LEMMA InvCreate ==
  ASSUME IInv, NEW id \in Ids, NEW row \in Row, Create(id, row)
  PROVE  IInv'
<1>1. /\ rows[id] = None
      /\ rows' = [rows EXCEPT ![id] = row]
      /\ UNCHANGED <<pc, query, token, totalSize, reply, shown, steady>>
  BY DEF Create
<1>2. rows \in [Ids -> Row \cup {None, Deleted}]
  BY DEF IInv, TypeOK
<1>3. rows' \in [Ids -> Row \cup {None, Deleted}] /\ id \notin Present
  BY <1>1, <1>2 DEF Present
<1>4. \A i \in Ids \ {id} : rows'[i] = rows[i] /\ (i \in Present' <=> i \in Present)
  BY <1>1, <1>2 DEF Present
<1>5. ASSUME NEW i \in steady
      PROVE  i \in Matching(query.filter)' /\ EntryOf(i, WalkSort)' = EntryOf(i, WalkSort)
  <2>1. i \in Matching(query.filter) /\ i \in Ids \ {id}
    BY <1>3 DEF IInv, SteadyInv, Matching, Present
  <2>2. WalkSort' = WalkSort
    BY <1>1 DEF WalkSort, Normalized
  <2>3. QED
    BY <1>1, <1>4, <2>1, <2>2 DEF Matching, EntryOf
<1>6. ASSUME NEW e \in Entry, Created(e)  PROVE Created(e)'
  <2>1. e.id \in Ids \ {id}
    BY <1>1, <1>6 DEF Created, Entry
  <2>2. QED
    BY <1>4, <1>6, <2>1 DEF Created
<1>7. QED
  BY <1>1, <1>3, <1>5, <1>6, InvTable

\* A changed row stays steady only if it still matches, at the same place.
LEMMA InvUpdate ==
  ASSUME IInv, NEW id \in Ids, NEW name \in Names, NEW abv \in ABVs, Update(id, name, abv)
  PROVE  IInv'
<1>1. /\ id \in Present
      /\ rows' = [rows EXCEPT ![id].name = name, ![id].abv = abv]
      /\ steady' = {i \in steady :
                      i = id => /\ abv \in query.filter
                                /\ (WalkSort = "name" => name = rows[id].name)}
      /\ UNCHANGED <<pc, query, token, totalSize, reply, shown>>
  BY DEF Update
<1>2. rows \in [Ids -> Row \cup {None, Deleted}] /\ rows[id] \in Row
  BY <1>1 DEF IInv, TypeOK, Present
<1>3. /\ rows'[id] \in Row
      /\ rows'[id].name = name /\ rows'[id].abv = abv
      /\ rows'[id].created_at = rows[id].created_at
      /\ \A i \in Ids \ {id} : rows'[i] = rows[i]
      /\ rows' \in [Ids -> Row \cup {None, Deleted}]
  BY <1>1, <1>2 DEF Row
<1>4. Present' = Present
  <2>1. rows'[id] \notin {None, Deleted}
    BY <1>3, ValuesAssumption
  <2>2. QED
    BY <1>1, <1>3, <2>1 DEF Present
<1>5. ASSUME NEW i \in steady'
      PROVE  i \in Matching(query.filter)' /\ EntryOf(i, WalkSort)' = EntryOf(i, WalkSort)
  <2>1. i \in Matching(query.filter) /\ i \in Ids
    BY <1>1 DEF IInv, SteadyInv, Matching, Present
  <2>2. WalkSort' = WalkSort
    BY <1>1 DEF WalkSort, Normalized
  <2>3. CASE i # id
    BY <1>1, <1>3, <1>4, <2>1, <2>2, <2>3 DEF Matching, EntryOf
  <2>4. CASE i = id
    BY <1>1, <1>3, <1>4, <2>1, <2>2, <2>4 DEF Matching, EntryOf
  <2>5. QED
    BY <2>3, <2>4
<1>6. ASSUME NEW e \in Entry, Created(e)  PROVE Created(e)'
  <2>1. e.id \in Ids
    BY DEF Entry
  <2>2. CASE e.id = id
    BY <1>3, <1>4, <1>6, <2>2, ValuesAssumption DEF Created
  <2>3. CASE e.id # id
    BY <1>3, <1>4, <1>6, <2>1, <2>3 DEF Created
  <2>4. QED
    BY <2>2, <2>3
<1>7. steady' \subseteq steady
  BY <1>1
<1>8. QED
  BY <1>1, <1>3, <1>5, <1>6, <1>7, InvTable

\* A deleted row is steady no more.
LEMMA InvDelete ==
  ASSUME IInv, NEW id \in Ids, Delete(id)
  PROVE  IInv'
<1>1. /\ rows' = [rows EXCEPT ![id] = Deleted]
      /\ steady' = steady \ {id}
      /\ UNCHANGED <<pc, query, token, totalSize, reply, shown>>
  BY DEF Delete
<1>2. rows \in [Ids -> Row \cup {None, Deleted}]
  BY DEF IInv, TypeOK
<1>3. /\ rows' \in [Ids -> Row \cup {None, Deleted}]
      /\ rows'[id] = Deleted /\ id \notin Present'
      /\ \A i \in Ids \ {id} : rows'[i] = rows[i] /\ (i \in Present' <=> i \in Present)
  BY <1>1, <1>2 DEF Present
<1>4. ASSUME NEW i \in steady'
      PROVE  i \in Matching(query.filter)' /\ EntryOf(i, WalkSort)' = EntryOf(i, WalkSort)
  <2>1. i \in Matching(query.filter) /\ i \in Ids \ {id}
    BY <1>1 DEF IInv, SteadyInv, Matching, Present
  <2>2. WalkSort' = WalkSort
    BY <1>1 DEF WalkSort, Normalized
  <2>3. QED
    BY <1>1, <1>3, <2>1, <2>2 DEF Matching, EntryOf
<1>5. ASSUME NEW e \in Entry, Created(e)  PROVE Created(e)'
  <2>1. e.id \in Ids
    BY DEF Entry
  <2>2. QED
    BY <1>3, <1>5, <2>1, ValuesAssumption DEF Created
<1>6. steady' \subseteq steady
  BY <1>1
<1>7. QED
  BY <1>1, <1>3, <1>4, <1>5, <1>6, InvTable

-----------------------------------------------------------------------------
(* Theorems *)

\* Every step keeps the invariant.
LEMMA InvStep == IInv /\ [Next]_vars => IInv'
<1> SUFFICES ASSUME IInv, [Next]_vars  PROVE IInv'
  OBVIOUS
<1>1. CASE \E x \in Queries : Ask(x)
  BY <1>1, InvAsk
<1>2. CASE StartOver
  BY <1>2, InvStartOver
<1>3. CASE Refuse
  BY <1>3, InvRefuse
<1>4. CASE Count
  BY <1>4, InvCount
<1>5. CASE Select
  BY <1>5, InvSelect
<1>6. CASE DbFault
  BY <1>6, InvDbFault
<1>7. CASE Deliver
  BY <1>7, InvDeliver
<1>8. CASE Lose
  BY <1>8, InvLose
<1>9. CASE \E id \in Ids, row \in Row : Create(id, row)
  BY <1>9, InvCreate
<1>10. CASE \E id \in Ids, name \in Names, abv \in ABVs : Update(id, name, abv)
  BY <1>10, InvUpdate
<1>11. CASE \E id \in Ids : Delete(id)
  BY <1>11, InvDelete
<1>12. CASE UNCHANGED vars
  <2>1. /\ Params' = Params /\ Present' = Present
        /\ UNCHANGED <<rows, pc, query, token, totalSize, reply, shown, steady>>
    BY <1>12 DEF vars, Params, Normalized, Present
  <2>2. TypeOK'
    BY <2>1 DEF IInv, TypeOK
  <2>3. TokenInv' /\ FirstPageInv' /\ SteadyInv' /\ HandlerInv'
    BY <2>1 DEF IInv, TokenInv, FirstPageInv, SteadyInv, HandlerInv,
                EntryOf, Created, Matching, Allowed, Compatible
  <2>4. ReplyInv' /\ ShownOnce'
    BY <2>1 DEF IInv, ReplyInv, ShownOnce, EntryOf, Created, Allowed, Compatible, Params
  <2>5. QED
    BY <2>2, <2>3, <2>4 DEF IInv
<1>13. QED
  BY <1>1, <1>2, <1>3, <1>4, <1>5, <1>6, <1>7, <1>8, <1>9, <1>10, <1>11, <1>12 DEF Next

\* The invariant holds in every reachable state.
LEMMA Invariance == Spec => []IInv
BY InvInit, InvStep, PTL DEF Spec

\* Every reachable state is typed; counts stay within the table, and what is steady is
\* in it.
THEOREM ListingTypeCorrect == Spec => []TypeOK
<1>1. IInv => TypeOK
  BY DEF IInv
<1>2. QED
  BY <1>1, Invariance, PTL

\* The pages of a walk follow each other in one order, whatever other requests do and
\* whichever filters the reader changes.
THEOREM WalksAscend == Spec => []PagesAscend
<1>1. IInv => PagesAscend
  <2> SUFFICES ASSUME IInv, pc = "done", reply.code = "OK",
                      NEW e \in reply.items, NEW f \in shown
               PROVE  Follows(Params.order, e, f)
    BY DEF PagesAscend, Params
  <2>1. token # None /\ reply # None
    BY DEF IInv, FirstPageInv, TypeOK
  <2>2. e \in Entry /\ f \in Entry /\ token.last \in Entry
    BY <2>1 DEF IInv, TypeOK, Reply, Token
  <2>3. Follows(Params.order, e, token.last) /\ AtOrBefore(Params.order, f, token.last)
    BY <2>1 DEF IInv, ReplyInv, TokenInv, Compatible
  <2>4. QED
    BY <2>2, <2>3, FollowsAtOrBefore
<1>2. QED
  BY <1>1, Invariance, PTL

\* A walk shows no ingredient twice, but one that is renamed in a walk by name.
THEOREM NoDuplicates == Spec => []ShownOnce
<1>1. IInv => ShownOnce
  BY DEF IInv
<1>2. QED
  BY <1>1, Invariance, PTL

\* A walk that has come to its end has shown every ingredient that was there, matched
\* and kept its place all along.
THEOREM NoOmissions == Spec => []NothingSkipped
<1>1. IInv => NothingSkipped
  BY DEF IInv, ReplyInv, NothingSkipped
<1>2. QED
  BY <1>1, Invariance, PTL

=============================================================================
