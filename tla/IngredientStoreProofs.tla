------------------------ MODULE IngredientStoreProofs ------------------------
(***************************************************************************)
(* Proofs about IngredientStore, for every value of its constants.         *)
(***************************************************************************)
EXTENDS IngredientStore, TLAPS

-----------------------------------------------------------------------------
(* The data *)

\* A response shows of a row what the row holds.
LEMMA ViewOfType ==
  ASSUME NEW id \in Ids, NEW row \in Row
  PROVE  ViewOf(id, row) \in View
BY DEF ViewOf, View, Row

\* An UPDATE below the last version writes a row, one version on, icon kept.
LEMMA WrittenType ==
  ASSUME NEW row \in Row, NEW v \in View, row.version < MaxVersion
  PROVE  Written(row, v) \in Row
BY BoundsAssumption DEF Written, View, Row, Versions

\* A patch without refused values, laid over a view, gives a view.
LEMMA MergedType ==
  ASSUME NEW v \in View,
         NEW name \in Names \cup {None}, NEW attr \in Attrs \cup {None},
         NEW version \in Versions
  PROVE  [v EXCEPT !.name = Field(name, @), !.attr = Field(attr, @), !.version = version]
           \in View
BY DEF View, Field

-----------------------------------------------------------------------------
(* Type correctness *)

\* An outcome and a body of the right kind end a request in a typed slot.
LEMMA AnswerType ==
  ASSUME TypeOK, NEW r \in Requests, pc[r] # "idle",
         NEW c \in Codes, NEW v \in View \cup {None},
         Answer(r, c, v) \/ StatementAnswer(r, c, v)
  PROVE  /\ pc' \in [Requests -> Phases]
         /\ call' \in [Requests -> Call \cup {None}]
         /\ ingredient' \in [Requests -> View \cup {None}]
         /\ code' \in [Requests -> Codes \cup {None}]
         /\ \A s \in Requests :
              /\ pc'[s] # "idle" => call'[s] \in Calls
              /\ pc'[s] \in {"write", "missed"} =>
                   /\ call'[s].op = "PATCH"
                   /\ InputError(call'[s]) = None
                   /\ ingredient'[s] # None
                   /\ ingredient'[s].id = call'[s].id
                   /\ ingredient'[s].version = call'[s].expected
<1>1. "SERVER_ERROR" \in Codes /\ "done" \in Phases
  BY DEF Codes, Phases
<1>2. QED
  BY <1>1 DEF TypeOK, Answer, StatementAnswer

\* A refused call has the code of its error.
LEMMA InputErrorType ==
  ASSUME NEW c, InputError(c) # None
  PROVE  InputError(c) \in Codes
BY DEF InputError, Codes

\* What the checks before the first statement leave of a call.
LEMMA AcceptedCall ==
  ASSUME NEW c, InputError(c) = None
  PROVE  /\ c.op # "POST" => c.id # 0
         /\ c.op \in {"POST", "PATCH"} => c.name # Bad
         /\ c.op = "POST" => c.attr # Bad
         /\ c.op = "PATCH" => c.expected # 0 /\ (c.name # None \/ c.attr # None)
         /\ c.op = "PUT_ICON" => c.icon # Bad
<1>1. None # "INVALID_ID" /\ None # "VALIDATION_ERROR"
  BY ValuesAssumption DEF Codes
<1>2. QED
  BY <1>1 DEF InputError

\* A POST that is accepted carries a name and a value of attr.
LEMMA PostType ==
  ASSUME NEW c \in Calls, c.op = "POST", InputError(c) = None
  PROVE  c.name \in Names /\ c.attr \in Attrs
BY CallsAssumption, AcceptedCall DEF Call

\* An accepted call on an ingredient names one.
LEMMA CallIdType ==
  ASSUME NEW c \in Calls, c.op # "POST", InputError(c) = None
  PROVE  c.id \in Ids
<1>1. c.id \in 0..MaxId /\ c.id # 0
  BY CallsAssumption, AcceptedCall DEF Call
<1>2. QED
  BY <1>1, BoundsAssumption DEF Ids

\* An accepted PATCH carries a version and a field; its name is not refused.
LEMMA PatchType ==
  ASSUME NEW c \in Calls, c.op = "PATCH", InputError(c) = None
  PROVE  /\ c.expected \in Versions
         /\ c.name \in Names \cup {None}
         /\ c.attr \in Attrs \cup {None, Bad}
         /\ c.name # None \/ c.attr # None
<1>1. c.expected \in 0..MaxVersion /\ c.expected # 0
  BY CallsAssumption, AcceptedCall DEF Call
<1>2. c.expected \in Versions
  BY <1>1, BoundsAssumption DEF Versions
<1>3. QED
  BY <1>2, CallsAssumption, AcceptedCall DEF Call

\* Every step keeps the types.
LEMMA TypeStep ==
  ASSUME TypeOK, [Next]_vars
  PROVE  TypeOK'
<1>1. ASSUME NEW r \in Requests, NEW c \in Calls, Receive(r, c)  PROVE TypeOK'
  BY <1>1, CallsAssumption DEF TypeOK, Receive, Phases
<1>2. ASSUME NEW r \in Requests, Refuse(r)  PROVE TypeOK'
  <2>1. InputError(call[r]) \in Codes
    BY <1>2, InputErrorType DEF Refuse
  <2>2. QED
    BY <1>2, <2>1, AnswerType DEF Refuse, TypeOK
<1>3. ASSUME NEW r \in Requests, Insert(r)  PROVE TypeOK'
  <2> DEFINE row == [name |-> call[r].name, attr |-> call[r].attr,
                     version |-> 1, icon |-> None]
  <2>1. row \in Row /\ pc[r] # "idle"
    BY <1>3, PostType, BoundsAssumption DEF Insert, Accepted, Row, Versions, TypeOK
  <2>2. CASE nextId > MaxId
    <3>1. Answer(r, "SERVER_ERROR", None) /\ UNCHANGED <<rows, nextId>>
      BY <1>3, <2>2, BoundsAssumption DEF Insert, TypeOK
    <3>2. QED
      BY <3>1, <2>1, AnswerType DEF Codes, TypeOK
  <2>3. CASE nextId <= MaxId
    <3>1. nextId \in Ids /\ nextId + 1 \in 1..(MaxId + 1)
      BY <2>3, BoundsAssumption DEF Ids, TypeOK
    <3>2. nextId' = nextId + 1
      BY <1>3, <2>3, BoundsAssumption DEF Insert, TypeOK
    <3>3. CASE NameFree(call[r].name, nextId)
      <4>1. /\ rows' = [rows EXCEPT ![nextId] = row]
            /\ StatementAnswer(r, "OK", ViewOf(nextId, row))
        BY <1>3, <2>3, <3>1, <3>3, BoundsAssumption DEF Insert, NewId, Ids
      <4>2. ViewOf(nextId, row) \in View
        BY <2>1, <3>1, ViewOfType
      <4>3. rows' \in [Ids -> Row \cup {None}]
        BY <4>1, <2>1, <3>1 DEF TypeOK
      <4>4. QED
        BY <4>1, <4>2, <4>3, <3>1, <3>2, <2>1, AnswerType DEF Codes, TypeOK
    <3>4. CASE ~NameFree(call[r].name, nextId)
      <4>1. Answer(r, "ALREADY_EXISTS", None) /\ UNCHANGED rows
        BY <1>3, <2>3, <3>1, <3>4, BoundsAssumption DEF Insert, NewId, Ids
      <4>2. QED
        BY <4>1, <3>1, <3>2, <2>1, AnswerType DEF Codes, TypeOK
    <3>5. QED
      BY <3>3, <3>4
  <2>4. QED
    BY <2>2, <2>3, BoundsAssumption DEF TypeOK
<1>4. ASSUME NEW r \in Requests, Lookup(r)  PROVE TypeOK'
  <2> DEFINE c == call[r]
             v == ViewOf(c.id, rows[c.id])
             merged == [v EXCEPT !.name = Field(c.name, @), !.attr = Field(c.attr, @),
                                 !.version = c.expected]
  <2>1. /\ c \in Calls /\ c.op = "PATCH" /\ InputError(c) = None
        /\ pc[r] # "idle" /\ c.id \in Ids
    BY <1>4, CallIdType DEF Lookup, Accepted, TypeOK
  <2>2. CASE rows[c.id] = None \/ c.attr = Bad
    BY <1>4, <2>1, <2>2, AnswerType DEF Lookup, Codes, TypeOK
  <2>3. CASE rows[c.id] # None /\ c.attr # Bad
    <3>1. v \in View /\ v.id = c.id
      BY <2>1, <2>3, ViewOfType DEF TypeOK, ViewOf
    <3>2. /\ merged \in View
          /\ merged.id = c.id /\ merged.version = c.expected
      <4>1. /\ c.name \in Names \cup {None} /\ c.attr \in Attrs \cup {None}
            /\ c.expected \in Versions
        BY <2>1, <2>3, PatchType
      <4>2. merged \in View
        BY <3>1, <4>1, MergedType
      <4>3. QED
        BY <3>1, <4>2 DEF View
    <3>3. /\ pc' = [pc EXCEPT ![r] = "write"]
          /\ ingredient' = [ingredient EXCEPT ![r] = merged]
          /\ UNCHANGED <<call, code, rows, nextId>>
      BY <1>4, <2>3 DEF Lookup
    <3>4. merged # None
      BY <3>2, ValuesAssumption
    <3>5. QED
      BY <2>1, <3>2, <3>3, <3>4 DEF TypeOK, Phases
  <2>4. QED
    BY <2>2, <2>3
<1>5. ASSUME NEW r \in Requests, Write(r)  PROVE TypeOK'
  <2> DEFINE v == ingredient[r]
  <2>1. v \in View /\ v # None /\ v.id \in Ids /\ v.version \in Versions /\ pc[r] = "write"
    BY <1>5 DEF Write, TypeOK, View
  <2>2. CASE ~Matched(v)
    BY <1>5, <2>1, <2>2 DEF Write, TypeOK, Phases
  <2>3. CASE Matched(v)
    <3>1. rows[v.id] \in Row /\ rows[v.id].version = v.version /\ UNCHANGED nextId
      BY <1>5, <2>1, <2>3 DEF Matched, Write, TypeOK
    <3>2. CASE v.version = MaxVersion \/ ~NameFree(v.name, v.id)
      BY <1>5, <2>1, <2>3, <3>1, <3>2, AnswerType, BoundsAssumption
         DEF Write, Codes, TypeOK, Versions
    <3>3. CASE v.version < MaxVersion /\ NameFree(v.name, v.id)
      <4>1. /\ rows' = [rows EXCEPT ![v.id] = Written(@, v)]
            /\ StatementAnswer(r, "OK", [v EXCEPT !.version = Written(rows[v.id], v).version])
        BY <1>5, <2>3, <3>3, BoundsAssumption DEF Write
      <4>2. Written(rows[v.id], v) \in Row
        BY <2>1, <3>1, <3>3, WrittenType
      <4>3. [v EXCEPT !.version = Written(rows[v.id], v).version] \in View
        BY <2>1, <4>2 DEF View, Row
      <4>4. rows' \in [Ids -> Row \cup {None}]
        BY <4>1, <4>2, <2>1 DEF TypeOK
      <4>5. QED
        BY <4>1, <4>3, <4>4, <3>1, <2>1, AnswerType DEF Codes, TypeOK
    <3>4. QED
      BY <2>1, <3>2, <3>3, BoundsAssumption DEF Versions
  <2>4. QED
    BY <2>2, <2>3
<1>6. ASSUME NEW r \in Requests, Exists(r)  PROVE TypeOK'
  BY <1>6, AnswerType DEF Exists, Codes, TypeOK
<1>7. ASSUME NEW r \in Requests, Delete(r)  PROVE TypeOK'
  BY <1>7, AnswerType DEF Delete, Accepted, Codes, TypeOK
<1>8. ASSUME NEW r \in Requests, SetIcon(r)  PROVE TypeOK'
  <2> DEFINE c == call[r]
  <2>1. c \in Calls /\ c.op = "PUT_ICON" /\ InputError(c) = None /\ pc[r] # "idle"
    BY <1>8 DEF SetIcon, Accepted, TypeOK
  <2>2. c.id \in Ids /\ c.icon \in Icons
    BY <2>1, CallIdType, AcceptedCall, CallsAssumption DEF Call
  <2>3. rows' \in [Ids -> Row \cup {None}]
    BY <1>8, <2>2 DEF SetIcon, TypeOK, Row
  <2>4. QED
    BY <1>8, <2>1, <2>3, AnswerType DEF SetIcon, Codes, TypeOK
<1>9. ASSUME NEW r \in Requests, Get(r)  PROVE TypeOK'
  <2>1. call[r].id \in Ids /\ pc[r] # "idle"
    BY <1>9, CallIdType DEF Get, Accepted, TypeOK
  <2>2. rows[call[r].id] # None => ViewOf(call[r].id, rows[call[r].id]) \in View
    BY <2>1, ViewOfType DEF TypeOK
  <2>3. QED
    BY <1>9, <2>1, <2>2, AnswerType DEF Get, Codes, TypeOK
<1>10. ASSUME NEW r \in Requests, GetIcon(r)  PROVE TypeOK'
  BY <1>10, AnswerType DEF GetIcon, Accepted, Codes, TypeOK
<1>11. ASSUME NEW r \in Requests, DbFault(r)  PROVE TypeOK'
  <2>1. pc[r] # "idle"
    BY <1>11 DEF DbFault, Accepted
  <2>2. nextId' \in 1..(MaxId + 1)
    BY <1>11, BoundsAssumption DEF DbFault, TypeOK
  <2>3. QED
    BY <1>11, <2>1, <2>2, AnswerType DEF DbFault, Codes, TypeOK
<1>12. ASSUME NEW r \in Requests, Deliver(r)  PROVE TypeOK'
  BY <1>12 DEF TypeOK, Deliver, Phases
<1>13. CASE Crash
  BY <1>13 DEF TypeOK, Crash, Phases
<1>14. CASE UNCHANGED vars
  BY <1>14 DEF TypeOK, vars
<1>15. QED
  BY <1>1, <1>2, <1>3, <1>4, <1>5, <1>6, <1>7, <1>8, <1>9, <1>10, <1>11,
     <1>12, <1>13, <1>14 DEF Next, Handle

\* Every reachable state is typed: TypeOK is inductive by itself.
THEOREM TypeCorrect == Spec => []TypeOK
<1>1. Init => TypeOK
  BY BoundsAssumption DEF Init, TypeOK, Phases
<1>2. TypeOK /\ [Next]_vars => TypeOK'
  BY TypeStep
<1>3. QED
  BY <1>1, <1>2, PTL DEF Spec

-----------------------------------------------------------------------------
(* How the table evolves *)

\* The sequence is ahead of every id in the table.
FreshIds == \A id \in Ids : id >= nextId => rows[id] = None

\* What a step can do to the row at id: leave or make it absent, keep or change it
\* with a version that grows whenever name or attr changes, or insert it.
RowEvolves(id) ==
  \/ rows'[id] = None
  \/ /\ rows[id] # None /\ rows'[id] # None
     /\ rows[id].version <= rows'[id].version
     /\ rows[id].version = rows'[id].version
          => rows[id].name = rows'[id].name /\ rows[id].attr = rows'[id].attr
  \/ /\ id = nextId /\ nextId' = nextId + 1
     /\ rows'[id] # None /\ rows'[id].version = 1

\* An INSERT that is not refused puts a first version at the next id.
LEMMA InsertRows ==
  ASSUME TypeOK, FreshIds, NEW r \in Requests, Insert(r)
  PROVE  \/ /\ rows' = rows /\ nextId' \in {nextId, nextId + 1}
            /\ \E c \in Codes \ {"OK"} : Answer(r, c, None)
         \/ /\ nextId \in Ids /\ nextId' = nextId + 1
            /\ NameFree(call[r].name, nextId)
            /\ rows' = [rows EXCEPT ![nextId] =
                          [name |-> call[r].name, attr |-> call[r].attr,
                           version |-> 1, icon |-> None]]
            /\ StatementAnswer(r, "OK", ViewOf(nextId, rows'[nextId]))
<1> DEFINE row == [name |-> call[r].name, attr |-> call[r].attr,
                   version |-> 1, icon |-> None]
<1>1. CASE nextId > MaxId
  <2>1. Answer(r, "SERVER_ERROR", None) /\ UNCHANGED <<rows, nextId>>
    BY <1>1, BoundsAssumption DEF Insert, TypeOK
  <2>2. QED
    BY <2>1 DEF Codes
<1>2. CASE nextId <= MaxId /\ ~NameFree(call[r].name, nextId)
  <2>1. Answer(r, "ALREADY_EXISTS", None) /\ rows' = rows /\ nextId' = nextId + 1
    BY <1>2, BoundsAssumption DEF Insert, NewId, TypeOK
  <2>2. QED
    BY <2>1 DEF Codes
<1>3. CASE nextId <= MaxId /\ NameFree(call[r].name, nextId)
  <2>1. nextId \in Ids
    BY <1>3, BoundsAssumption DEF Ids, TypeOK
  <2>2. /\ nextId' = nextId + 1
        /\ rows' = [rows EXCEPT ![nextId] = row]
        /\ StatementAnswer(r, "OK", ViewOf(nextId, row))
    BY <1>3, <2>1, BoundsAssumption DEF Insert, NewId, Ids
  <2>3. rows'[nextId] = row
    BY <2>1, <2>2 DEF TypeOK
  <2>4. QED
    BY <1>3, <2>1, <2>2, <2>3
<1>4. QED
  BY <1>1, <1>2, <1>3, BoundsAssumption DEF TypeOK

\* An UPDATE either leaves the table alone or replaces the row it matched.
LEMMA WriteRows ==
  ASSUME TypeOK, NEW r \in Requests, Write(r)
  PROVE  LET v == ingredient[r] IN
         /\ v \in View /\ nextId' = nextId
         /\ \/ /\ rows' = rows
               /\ \E c \in Codes \ {"OK", "VERSION_CONFLICT"} : Answer(r, c, None)
            \/ /\ rows' = rows /\ ~Matched(v)
               /\ pc' = [pc EXCEPT ![r] = "missed"]
               /\ UNCHANGED <<call, ingredient, code>>
            \/ /\ Matched(v) /\ v.version < MaxVersion
               /\ NameFree(v.name, v.id)
               /\ rows[v.id] \in Row
               /\ rows' = [rows EXCEPT ![v.id] = Written(rows[v.id], v)]
               /\ StatementAnswer(r, "OK", [v EXCEPT !.version = v.version + 1])
<1> DEFINE v == ingredient[r]
<1>1. v \in View /\ v.id \in Ids /\ nextId' = nextId
  BY DEF Write, TypeOK, View
<1>2. CASE ~Matched(v)
  BY <1>1, <1>2 DEF Write
<1>3. CASE Matched(v) /\ (v.version = MaxVersion \/ ~NameFree(v.name, v.id))
  <2>1. rows' = rows /\ (Answer(r, "SERVER_ERROR", None) \/ Answer(r, "ALREADY_EXISTS", None))
    BY <1>3, BoundsAssumption DEF Write
  <2>2. QED
    BY <1>1, <2>1 DEF Codes
<1>4. CASE Matched(v) /\ v.version < MaxVersion /\ NameFree(v.name, v.id)
  <2>1. /\ rows' = [rows EXCEPT ![v.id] = Written(@, v)]
        /\ StatementAnswer(r, "OK", [v EXCEPT !.version = Written(rows[v.id], v).version])
    BY <1>4, BoundsAssumption DEF Write
  <2>2. rows[v.id] \in Row /\ Written(rows[v.id], v).version = v.version + 1
    BY <1>1, <1>4 DEF Matched, Written, TypeOK
  <2>3. QED
    BY <1>1, <1>4, <2>1, <2>2
<1>5. QED
  BY <1>1, <1>2, <1>3, <1>4, BoundsAssumption DEF View, Versions

\* In one step a row keeps its place: ids are only drawn upwards, and the version
\* of a row that stays only grows, with its fields unchanged while it does not.
LEMMA TableEvolves ==
  ASSUME TypeOK, FreshIds, [Next]_vars
  PROVE  /\ nextId' \in {nextId, nextId + 1}
         /\ \A id \in Ids : RowEvolves(id)
<1> DEFINE Goal == nextId' \in {nextId, nextId + 1} /\ \A id \in Ids : RowEvolves(id)
<1>0. \A id \in Ids : rows'[id] = rows[id] => RowEvolves(id)
  <2>1. \A id \in Ids : rows[id] # None => rows[id].version <= rows[id].version
    BY DEF TypeOK, Row, Versions
  <2>2. QED
    BY <2>1 DEF RowEvolves
<1>1. ASSUME rows' = rows, nextId' \in {nextId, nextId + 1}  PROVE Goal
  BY <1>0, <1>1
<1>2. ASSUME NEW r \in Requests, Insert(r)  PROVE Goal
  <2>1. CASE rows' = rows
    BY <1>1, <1>2, <2>1, InsertRows
  <2>2. CASE rows' # rows
    <3> DEFINE row == [name |-> call[r].name, attr |-> call[r].attr,
                       version |-> 1, icon |-> None]
    <3>1. /\ nextId \in Ids /\ nextId' = nextId + 1
          /\ rows' = [rows EXCEPT ![nextId] = row]
      BY <1>2, <2>2, InsertRows
    <3>2. row \in Row
      BY <1>2, PostType, BoundsAssumption DEF Insert, Accepted, Row, Versions, TypeOK
    <3>3. rows'[nextId] # None /\ rows'[nextId].version = 1
      BY <3>1, <3>2, ValuesAssumption DEF TypeOK
    <3>4. \A id \in Ids \ {nextId} : rows'[id] = rows[id]
      BY <3>1 DEF TypeOK
    <3>5. QED
      BY <1>0, <3>1, <3>3, <3>4 DEF RowEvolves
  <2>3. QED
    BY <2>1, <2>2
<1>3. ASSUME NEW r \in Requests, Write(r)  PROVE Goal
  <2> DEFINE v == ingredient[r]
  <2>1. nextId' = nextId /\ v \in View
    BY <1>3, WriteRows
  <2>2. CASE rows' = rows
    BY <1>1, <2>1, <2>2
  <2>3. CASE rows' # rows
    <3>1. /\ Matched(v) /\ rows[v.id] \in Row /\ v.version < MaxVersion
          /\ rows' = [rows EXCEPT ![v.id] = Written(rows[v.id], v)]
      BY <1>3, <2>3, WriteRows
    <3>2. /\ rows'[v.id] = Written(rows[v.id], v)
          /\ \A id \in Ids \ {v.id} : rows'[id] = rows[id]
      BY <2>1, <3>1 DEF TypeOK, View
    <3>3. /\ Written(rows[v.id], v).version = rows[v.id].version + 1
          /\ Written(rows[v.id], v) \in Row
      BY <2>1, <3>1, WrittenType DEF Written, Matched
    <3>4. RowEvolves(v.id)
      BY <3>1, <3>2, <3>3, ValuesAssumption DEF RowEvolves, Matched, Row, Versions
    <3>5. QED
      BY <1>0, <2>1, <3>2, <3>4
  <2>4. QED
    BY <2>2, <2>3
<1>4. ASSUME NEW r \in Requests, Delete(r)  PROVE Goal
  <2>1. nextId' = nextId /\ \A id \in Ids : rows'[id] = None \/ rows'[id] = rows[id]
    BY <1>4 DEF Delete, TypeOK
  <2>2. QED
    BY <1>0, <2>1 DEF RowEvolves
<1>5. ASSUME NEW r \in Requests, SetIcon(r)  PROVE Goal
  <2> DEFINE id == call[r].id
             row == [rows[id] EXCEPT !.icon = call[r].icon]
  <2>1. CASE rows' = rows
    BY <1>1, <1>5, <2>1 DEF SetIcon
  <2>2. CASE rows' # rows
    <3>1. rows[id] # None /\ rows' = [rows EXCEPT ![id] = row] /\ nextId' = nextId
      BY <1>5, <2>2 DEF SetIcon
    <3>2. id \in Ids /\ rows[id] \in Row
      BY <1>5, <3>1, CallIdType DEF SetIcon, Accepted, TypeOK
    <3>3. /\ row # None
          /\ row.version = rows[id].version
          /\ row.name = rows[id].name /\ row.attr = rows[id].attr
      <4>1. call[r].icon \in Icons
        BY <1>5, AcceptedCall, CallsAssumption DEF SetIcon, Accepted, TypeOK, Call
      <4>2. row \in Row
        BY <3>2, <4>1 DEF Row
      <4>3. QED
        BY <3>2, <4>2, ValuesAssumption DEF Row
    <3>4. rows'[id] = row /\ \A i \in Ids \ {id} : rows'[i] = rows[i]
      BY <3>1, <3>2 DEF TypeOK
    <3>5. RowEvolves(id)
      BY <3>1, <3>2, <3>3, <3>4 DEF RowEvolves, Row, Versions
    <3>6. QED
      BY <1>0, <3>1, <3>4, <3>5
  <2>3. QED
    BY <2>1, <2>2
<1>6. ASSUME NEW r \in Requests, DbFault(r)  PROVE Goal
  BY <1>1, <1>6 DEF DbFault
<1>7. ASSUME \/ \E r \in Requests : \/ \E c \in Calls : Receive(r, c)
                                    \/ Refuse(r) \/ Lookup(r) \/ Exists(r)
                                    \/ Get(r) \/ GetIcon(r) \/ Deliver(r)
             \/ Crash
             \/ UNCHANGED vars
      PROVE  Goal
  BY <1>1, <1>7 DEF Receive, Refuse, Lookup, Exists, Get, GetIcon, Deliver, Crash, vars
<1>8. QED
  BY <1>2, <1>3, <1>4, <1>5, <1>6, <1>7 DEF Next, Handle

-----------------------------------------------------------------------------
(* The inductive invariant *)

\* The row of id is gone or has a version after v.
Superseded(id, v) == rows[id] # None => v < rows[id].version

\* The row at v's id has v's version and contents.
Current(v) ==
  LET row == rows[v.id]
  IN /\ row # None /\ row.version = v.version
     /\ row.name = v.name /\ row.attr = v.attr

\* One slot against the table: a PATCH under way is for an id of the past and holds
\* the values it will write; the version a successful PATCH replaced is no more; a
\* view that was answered is the row's or an older one.
SlotInv(r) ==
  /\ pc[r] \in {"write", "missed"} =>
       LET c == call[r]
           v == ingredient[r]
       IN /\ c.id < nextId
          /\ c.name # None => v.name = c.name
          /\ c.attr # None => v.attr = c.attr
  /\ PatchEnded(r, "OK") =>
       /\ InputError(call[r]) = None
       /\ call[r].id < nextId
       /\ Superseded(call[r].id, call[r].expected)
  /\ Shows(r) =>
       LET v == ingredient[r]
       IN /\ v.id < nextId
          /\ Superseded(v.id, v.version) \/ Current(v)

IInv ==
  /\ TypeOK
  /\ FreshIds
  /\ Abstract!UniqueNames
  /\ \A r \in Requests : SlotInv(r)
  /\ OneWinner
  /\ VersionNamesContent

SameSlot(s) ==
  pc'[s] = pc[s] /\ call'[s] = call[s] /\ ingredient'[s] = ingredient[s] /\ code'[s] = code[s]

\* A slot no step of its own has touched keeps its invariant.
LEMMA SlotStable ==
  ASSUME TypeOK, TypeOK', NEW s \in Requests, SlotInv(s), SameSlot(s),
         nextId' \in {nextId, nextId + 1}, \A id \in Ids : RowEvolves(id)
  PROVE  SlotInv(s)'
<1>1. nextId \in Nat /\ nextId' \in Nat /\ nextId <= nextId'
  BY BoundsAssumption DEF TypeOK
<1>2. ASSUME NEW id \in Ids, NEW v \in Versions, id < nextId, Superseded(id, v)
      PROVE  Superseded(id, v)'
  BY <1>1, <1>2 DEF Superseded, RowEvolves, TypeOK, Row, Versions, Ids
<1>3. ASSUME NEW v \in View, v.id < nextId, Current(v)
      PROVE  Superseded(v.id, v.version)' \/ Current(v)'
  <2> DEFINE old == rows[v.id]
             new == rows'[v.id]
  <2>1. /\ v.id \in Ids /\ v.version \in Versions /\ v.id # nextId
        /\ old \in Row /\ old.version = v.version /\ old.name = v.name /\ old.attr = v.attr
    BY <1>3 DEF View, Current, TypeOK, Ids
  <2>2. CASE new = None
    BY <2>2 DEF Superseded
  <2>3. CASE new # None
    <3>1. new \in Row /\ old.version <= new.version
      BY <2>1, <2>3 DEF RowEvolves, TypeOK
    <3>2. old.version = new.version => new.name = old.name /\ new.attr = old.attr
      BY <2>1, <2>3 DEF RowEvolves
    <3>3. new.version \in Nat /\ old.version \in Nat
      BY <2>1, <3>1 DEF Row, Versions
    <3>4. QED
      BY <2>1, <2>3, <3>1, <3>2, <3>3 DEF Superseded, Current
  <2>4. QED
    BY <2>2, <2>3
<1>4. ASSUME PatchEnded(s, "OK")'
      PROVE  (/\ InputError(call[s]) = None
              /\ call[s].id < nextId
              /\ Superseded(call[s].id, call[s].expected))'
  <2> DEFINE c == call[s]
  <2>1. /\ c \in Calls /\ c.op = "PATCH" /\ InputError(c) = None /\ call'[s] = c
        /\ c.id < nextId /\ Superseded(c.id, c.expected)
    BY <1>4 DEF PatchEnded, SameSlot, SlotInv, TypeOK
  <2>2. c.id \in Ids /\ c.expected \in Versions
    BY <2>1, CallIdType, PatchType
  <2>3. c.id < nextId'
    BY <1>1, <2>1, <2>2 DEF Ids
  <2>4. rows'[c.id] # None => c.expected < rows'[c.id].version
    BY <1>2, <2>1, <2>2 DEF Superseded
  <2>5. QED
    BY <2>1, <2>3, <2>4 DEF Superseded
<1>5. ASSUME Shows(s)'
      PROVE  (/\ ingredient[s].id < nextId
              /\ \/ Superseded(ingredient[s].id, ingredient[s].version)
                 \/ Current(ingredient[s]))'
  <2> DEFINE v == ingredient[s]
  <2>1. /\ v \in View /\ ingredient'[s] = v /\ v.id < nextId
        /\ Superseded(v.id, v.version) \/ Current(v)
    BY <1>5 DEF Shows, SameSlot, SlotInv, TypeOK
  <2>2. v.id \in Ids /\ v.version \in Versions
    BY <2>1 DEF View
  <2>3. v.id < nextId'
    BY <1>1, <2>1, <2>2 DEF Ids
  <2>4. \/ rows'[v.id] # None => v.version < rows'[v.id].version
        \/ /\ rows'[v.id] # None /\ rows'[v.id].version = v.version
           /\ rows'[v.id].name = v.name /\ rows'[v.id].attr = v.attr
    BY <1>2, <1>3, <2>1, <2>2 DEF Superseded, Current
  <2>5. QED
    BY <2>1, <2>3, <2>4 DEF Superseded, Current
<1>6. ASSUME pc'[s] \in {"write", "missed"}
      PROVE  /\ call'[s].id < nextId'
             /\ call'[s].name # None => ingredient'[s].name = call'[s].name
             /\ call'[s].attr # None => ingredient'[s].attr = call'[s].attr
  BY <1>1, <1>6, CallIdType DEF SlotInv, SameSlot, TypeOK, Ids
<1>7. QED
  BY <1>4, <1>5, <1>6 DEF SlotInv

\* What an outcome does to the slots.
LEMMA AnswerSlots ==
  ASSUME TypeOK, NEW r \in Requests, NEW c, NEW v,
         Answer(r, c, v) \/ StatementAnswer(r, c, v)
  PROVE  /\ \A s \in Requests \ {r} : SameSlot(s)
         /\ pc'[r] = "done" /\ call'[r] = call[r]
         /\ \/ code'[r] = c /\ ingredient'[r] = v
            \/ code'[r] = "SERVER_ERROR" /\ ingredient'[r] = None
BY DEF Answer, StatementAnswer, SameSlot, TypeOK

\* What the step of r owes the invariant: its own slot, and, if it answers a view or
\* commits a PATCH, that it did so on the row of this very moment.
Owes(r) ==
  /\ \A s \in Requests \ {r} : SameSlot(s)
  /\ SlotInv(r)'
  /\ Shows(r)' => Current(ingredient[r])'
  /\ PatchEnded(r, "OK")' =>
       rows[call'[r].id] # None /\ rows[call'[r].id].version = call'[r].expected

\* An answer without a body owes little.
LEMMA NoBody ==
  ASSUME TypeOK, NEW r \in Requests, NEW c,
         Answer(r, c, None) \/ StatementAnswer(r, c, None),
         c = "OK" => call[r].op # "PATCH"
  PROVE  Owes(r)
<1>1. /\ \A s \in Requests \ {r} : SameSlot(s)
      /\ pc'[r] = "done" /\ call'[r] = call[r] /\ ingredient'[r] = None
      /\ code'[r] = c \/ code'[r] = "SERVER_ERROR"
  BY AnswerSlots
<1>2. ~Shows(r)' /\ ~PatchEnded(r, "OK")'
  BY <1>1 DEF Shows, PatchEnded
<1>3. SlotInv(r)'
  BY <1>1, <1>2 DEF SlotInv
<1>4. QED
  BY <1>1, <1>2, <1>3 DEF Owes

\* v is what the table shows after this step.
Afterwards(v) ==
  LET row == rows'[v.id]
  IN /\ row # None /\ row.version = v.version
     /\ row.name = v.name /\ row.attr = v.attr

\* An answer that may have a body owes that the body is the row it was taken from,
\* and for a PATCH that the row it replaced had the version it was sent for.
LEMMA WithBody ==
  ASSUME TypeOK, NEW r \in Requests, NEW v \in View,
         StatementAnswer(r, "OK", v) \/ Answer(r, "OK", v),
         v.id < nextId', Afterwards(v),
         call[r].op = "PATCH" =>
           /\ InputError(call[r]) = None
           /\ call[r].id = v.id
           /\ rows[v.id] # None /\ rows[v.id].version = call[r].expected
           /\ call[r].expected < v.version
  PROVE  Owes(r)
<1>1. /\ \A s \in Requests \ {r} : SameSlot(s)
      /\ pc'[r] = "done" /\ call'[r] = call[r]
      /\ \/ ingredient'[r] = v
         \/ code'[r] = "SERVER_ERROR" /\ ingredient'[r] = None
  BY AnswerSlots
<1>2. Shows(r)' => Current(ingredient[r])' /\ ingredient'[r].id < nextId'
  BY <1>1, ValuesAssumption DEF Shows, Current, Afterwards
<1>3. PatchEnded(r, "OK")' =>
        /\ InputError(call'[r]) = None
        /\ call'[r].id < nextId'
        /\ rows[call'[r].id] # None /\ rows[call'[r].id].version = call'[r].expected
        /\ Superseded(call[r].id, call[r].expected)'
  BY <1>1 DEF PatchEnded, Superseded, Afterwards
<1>4. SlotInv(r)'
  BY <1>1, <1>2, <1>3 DEF SlotInv
<1>5. QED
  BY <1>1, <1>2, <1>3, <1>4 DEF Owes

\* Every step of a request pays.
LEMMA ActorStep ==
  ASSUME TypeOK, TypeOK', FreshIds, NEW r \in Requests, SlotInv(r),
         (\E c \in Calls : Receive(r, c)) \/ Handle(r) \/ Deliver(r)
  PROVE  Owes(r)
<1>1. ASSUME NEW c \in Calls, Receive(r, c)  PROVE Owes(r)
  <2>1. pc'[r] = "received" /\ \A s \in Requests \ {r} : SameSlot(s)
    BY <1>1 DEF Receive, SameSlot, TypeOK
  <2>2. QED
    BY <2>1 DEF Owes, SlotInv, Shows, PatchEnded
<1>2. CASE Deliver(r)
  <2>1. pc'[r] = "idle" /\ \A s \in Requests \ {r} : SameSlot(s)
    BY <1>2 DEF Deliver, SameSlot, TypeOK
  <2>2. QED
    BY <2>1 DEF Owes, SlotInv, Shows, PatchEnded
<1>3. CASE Refuse(r)
  <2>1. InputError(call[r]) # "OK"
    BY <1>3 DEF InputError, Refuse
  <2>2. QED
    BY <1>3, <2>1, NoBody DEF Refuse
<1>4. CASE Insert(r)
  <2>1. call[r].op = "POST"
    BY <1>4 DEF Insert, Accepted
  <2>2. CASE \E c \in Codes \ {"OK"} : Answer(r, c, None)
    BY <2>2, NoBody
  <2>3. CASE /\ nextId \in Ids /\ nextId' = nextId + 1
             /\ rows' = [rows EXCEPT ![nextId] =
                           [name |-> call[r].name, attr |-> call[r].attr,
                            version |-> 1, icon |-> None]]
             /\ StatementAnswer(r, "OK", ViewOf(nextId, rows'[nextId]))
    <3> DEFINE row == rows'[nextId]
               v   == ViewOf(nextId, row)
    <3>1. row \in Row
      <4>1. row = [name |-> call[r].name, attr |-> call[r].attr, version |-> 1, icon |-> None]
        BY <2>3 DEF TypeOK
      <4>2. QED
        BY <1>4, <4>1, PostType, BoundsAssumption DEF Insert, Accepted, Row, Versions, TypeOK
    <3>2. v \in View /\ v.id = nextId /\ v.id < nextId'
      BY <2>3, <3>1, ViewOfType DEF ViewOf, Ids
    <3>3. Afterwards(v)
      BY <3>1, <2>3, ValuesAssumption DEF Afterwards, ViewOf
    <3>4. QED
      BY <2>1, <2>3, <3>2, <3>3, WithBody
  <2>4. QED
    BY <1>4, <2>2, <2>3, InsertRows
<1>5. CASE Lookup(r)
  <2> DEFINE c == call[r]
             v == ViewOf(c.id, rows[c.id])
             merged == [v EXCEPT !.name = Field(c.name, @), !.attr = Field(c.attr, @),
                                 !.version = c.expected]
  <2>1. c \in Calls /\ c.op = "PATCH" /\ InputError(c) = None /\ c.id \in Ids
    BY <1>5, CallIdType DEF Lookup, Accepted, TypeOK
  <2>2. CASE Answer(r, "NOT_FOUND", None) \/ Answer(r, "VALIDATION_ERROR", None)
    BY <2>2, NoBody
  <2>3. CASE /\ rows[c.id] # None /\ c.attr # Bad
             /\ pc' = [pc EXCEPT ![r] = "write"]
             /\ ingredient' = [ingredient EXCEPT ![r] = merged]
             /\ UNCHANGED <<call, code, rows, nextId>>
    <3>1. /\ \A s \in Requests \ {r} : SameSlot(s)
          /\ pc'[r] = "write" /\ call'[r] = c /\ ingredient'[r] = merged
      BY <2>3 DEF SameSlot, TypeOK
    <3>2. v \in View
      BY <2>1, <2>3, ViewOfType DEF TypeOK
    <3>3. merged.name = Field(c.name, v.name) /\ merged.attr = Field(c.attr, v.attr)
      BY <3>2 DEF View
    <3>4. c.id < nextId'
      BY <2>1, <2>3, BoundsAssumption DEF FreshIds, TypeOK, Ids
    <3>5. SlotInv(r)'
      BY <3>1, <3>3, <3>4 DEF SlotInv, Field, PatchEnded, Shows
    <3>6. QED
      BY <3>1, <3>5 DEF Owes, PatchEnded, Shows
  <2>4. QED
    BY <1>5, <2>2, <2>3 DEF Lookup
<1>6. CASE Write(r)
  <2> DEFINE v == ingredient[r]
             w == [v EXCEPT !.version = v.version + 1]
  <2>1. /\ v \in View /\ v # None /\ nextId' = nextId /\ pc[r] = "write"
        /\ call[r].op = "PATCH" /\ InputError(call[r]) = None
        /\ v.id = call[r].id /\ v.version = call[r].expected
    BY <1>6, WriteRows DEF Write, TypeOK
  <2>2. CASE \E c \in Codes \ {"OK"} : Answer(r, c, None)
    BY <2>2, NoBody
  <2>3. CASE pc' = [pc EXCEPT ![r] = "missed"] /\ UNCHANGED <<call, ingredient, code>>
    <3>1. pc'[r] = "missed" /\ \A s \in Requests \ {r} : SameSlot(s)
      BY <2>3 DEF SameSlot, TypeOK
    <3>2. QED
      BY <2>1, <2>3, <3>1 DEF Owes, SlotInv, PatchEnded, Shows
  <2>4. CASE /\ Matched(v) /\ v.version < MaxVersion /\ rows[v.id] \in Row
             /\ rows' = [rows EXCEPT ![v.id] = Written(rows[v.id], v)]
             /\ StatementAnswer(r, "OK", w)
    <3>1. v.id \in Ids /\ v.version \in Nat /\ v.id < nextId'
      BY <2>1 DEF SlotInv, View, Versions
    <3>2. w \in View /\ w.id = v.id /\ w.version = v.version + 1
          /\ w.name = v.name /\ w.attr = v.attr
      BY <2>1, <2>4, BoundsAssumption DEF View, Versions
    <3>3. rows'[v.id] = Written(rows[v.id], v) /\ rows'[v.id] # None
      BY <2>1, <2>4, <3>1, WrittenType, ValuesAssumption DEF TypeOK, Matched
    <3>4. Afterwards(w)
      BY <2>4, <3>2, <3>3 DEF Afterwards, Written, Matched
    <3>5. /\ call[r].id = w.id /\ rows[w.id] # None
          /\ rows[w.id].version = call[r].expected
          /\ call[r].expected < w.version /\ w.id < nextId'
      BY <2>1, <2>4, <3>1, <3>2 DEF Matched
    <3> HIDE DEF w
    <3>6. QED
      BY <2>1, <2>4, <3>2, <3>4, <3>5, WithBody
  <2>5. QED
    BY <1>6, <2>2, <2>3, <2>4, WriteRows
<1>7. CASE Exists(r)
  BY <1>7, NoBody DEF Exists
<1>8. CASE Delete(r)
  BY <1>8, NoBody DEF Delete, Accepted
<1>9. CASE SetIcon(r)
  BY <1>9, NoBody DEF SetIcon, Accepted
<1>10. CASE Get(r)
  <2> DEFINE id == call[r].id
             v  == ViewOf(id, rows[id])
  <2>1. id \in Ids /\ call[r].op = "GET" /\ UNCHANGED <<rows, nextId>>
    BY <1>10, CallIdType DEF Get, Accepted, TypeOK
  <2>2. CASE Answer(r, "NOT_FOUND", None)
    BY <2>2, NoBody
  <2>3. CASE rows[id] # None /\ Answer(r, "OK", v)
    <3>1. v \in View /\ v.id = id
      BY <2>1, <2>3, ViewOfType DEF TypeOK, ViewOf
    <3>2. v.id < nextId'
      BY <2>1, <2>3, <3>1, BoundsAssumption DEF FreshIds, TypeOK, Ids
    <3>3. Afterwards(v)
      BY <2>1, <2>3 DEF Afterwards, ViewOf
    <3>4. QED
      BY <2>1, <2>3, <3>1, <3>2, <3>3, WithBody
  <2>4. QED
    BY <1>10, <2>2, <2>3 DEF Get
<1>11. CASE GetIcon(r)
  BY <1>11, NoBody DEF GetIcon, Accepted
<1>12. CASE DbFault(r)
  BY <1>12, NoBody DEF DbFault
<1>13. QED
  BY <1>1, <1>2, <1>3, <1>4, <1>5, <1>6, <1>7, <1>8, <1>9, <1>10, <1>11, <1>12 DEF Handle

\* The steps that change no name but by deleting a row.
LEMMA NamesKept ==
  ASSUME Abstract!UniqueNames,
         \A id \in Ids : rows'[id] # None =>
            rows[id] # None /\ rows'[id].name = rows[id].name
  PROVE  Abstract!UniqueNames'
BY DEF Abstract!UniqueNames

\* A step that gives id a name that is free keeps names unique.
LEMMA NameGiven ==
  ASSUME Abstract!UniqueNames, NEW id \in Ids, NEW name, NameFree(name, id),
         rows'[id].name = name,
         \A i \in Ids \ {id} : rows'[i] = rows[i]
  PROVE  Abstract!UniqueNames'
BY DEF Abstract!UniqueNames, NameFree

\* Every step keeps names unique up to LOWER.
LEMMA NamesStep ==
  ASSUME TypeOK, FreshIds, Abstract!UniqueNames, [Next]_vars
  PROVE  Abstract!UniqueNames'
<1>1. CASE rows' = rows
  BY <1>1, NamesKept
<1>2. ASSUME NEW r \in Requests, Insert(r), rows' # rows  PROVE Abstract!UniqueNames'
  <2> DEFINE row == [name |-> call[r].name, attr |-> call[r].attr,
                     version |-> 1, icon |-> None]
  <2>1. /\ nextId \in Ids /\ NameFree(call[r].name, nextId)
        /\ rows' = [rows EXCEPT ![nextId] = row]
    BY <1>2, InsertRows
  <2>2. rows'[nextId].name = call[r].name /\ \A i \in Ids \ {nextId} : rows'[i] = rows[i]
    BY <2>1 DEF TypeOK
  <2>3. QED
    BY <2>1, <2>2, NameGiven
<1>3. ASSUME NEW r \in Requests, Write(r), rows' # rows  PROVE Abstract!UniqueNames'
  <2> DEFINE v == ingredient[r]
  <2>1. /\ v.id \in Ids /\ NameFree(v.name, v.id)
        /\ rows' = [rows EXCEPT ![v.id] = Written(rows[v.id], v)]
    BY <1>3, WriteRows DEF View
  <2>2. rows'[v.id].name = v.name /\ \A i \in Ids \ {v.id} : rows'[i] = rows[i]
    BY <2>1 DEF TypeOK, Written
  <2>3. QED
    BY <2>1, <2>2, NameGiven
<1>4. ASSUME NEW r \in Requests, Delete(r)  PROVE Abstract!UniqueNames'
  <2>1. \A id \in Ids : rows'[id] = None \/ rows'[id] = rows[id]
    BY <1>4 DEF Delete, TypeOK
  <2>2. QED
    BY <2>1, NamesKept
<1>5. ASSUME NEW r \in Requests, SetIcon(r), rows' # rows  PROVE Abstract!UniqueNames'
  <2> DEFINE id == call[r].id
  <2>1. /\ rows[id] # None
        /\ rows' = [rows EXCEPT ![id] = [rows[id] EXCEPT !.icon = call[r].icon]]
    BY <1>5 DEF SetIcon
  <2>2. id \in Ids /\ rows[id] \in Row
    BY <1>5, <2>1, CallIdType DEF SetIcon, Accepted, TypeOK
  <2>3. \A i \in Ids : rows'[i] # None => rows[i] # None /\ rows'[i].name = rows[i].name
    BY <2>1, <2>2 DEF TypeOK, Row
  <2>4. QED
    BY <2>3, NamesKept
<1>6. QED
  BY <1>1, <1>2, <1>3, <1>4, <1>5
     DEF Next, Handle, Receive, Refuse, Lookup, Exists, Get, GetIcon, DbFault,
         Deliver, Crash, vars

\* The sequence stays ahead of the table.
LEMMA FreshStep ==
  ASSUME TypeOK, TypeOK', FreshIds, [Next]_vars
  PROVE  FreshIds'
<1>1. nextId' \in {nextId, nextId + 1} /\ \A id \in Ids : RowEvolves(id)
  BY TableEvolves
<1>2. nextId \in Nat /\ Ids \subseteq Nat
  BY BoundsAssumption DEF TypeOK, Ids
<1>3. QED
  BY <1>1, <1>2 DEF FreshIds, RowEvolves

\* OneWinner and VersionNamesContent, which speak of two slots, follow from what
\* the acting slot owes and from what the others have.
LEMMA PairStep ==
  ASSUME IInv, TypeOK', NEW r \in Requests, Owes(r), \A s \in Requests : SlotInv(s)'
  PROVE  OneWinner' /\ VersionNamesContent'
<1>1. \A s \in Requests \ {r} : SameSlot(s)
  BY DEF Owes
<1>2. OneWinner'
  <2>1. ASSUME NEW s \in Requests, s # r,
               PatchEnded(r, "OK")', PatchEnded(s, "OK")', call'[r].id = call'[s].id
        PROVE  call'[r].expected # call'[s].expected
    <3>1. PatchEnded(s, "OK") /\ call'[s] = call[s]
      BY <1>1, <2>1 DEF SameSlot, PatchEnded
    <3>2. Superseded(call[s].id, call[s].expected)
      BY <3>1 DEF IInv, SlotInv
    <3>3. /\ rows[call[s].id] # None
          /\ rows[call[s].id].version = call'[r].expected
      BY <2>1, <3>1 DEF Owes
    <3>4. call[s].id \in Ids
      BY <3>1, CallIdType DEF IInv, SlotInv, PatchEnded, TypeOK
    <3>5. rows[call[s].id].version \in Nat
      BY <3>3, <3>4 DEF IInv, TypeOK, Row, Versions
    <3>6. call[s].expected \in Nat
      BY <3>1, PatchType DEF IInv, SlotInv, PatchEnded, TypeOK, Versions
    <3>7. QED
      BY <3>1, <3>2, <3>3, <3>5, <3>6 DEF Superseded
  <2>2. ASSUME NEW s \in Requests, NEW t \in Requests, s # t, s # r, t # r,
               PatchEnded(s, "OK")', PatchEnded(t, "OK")', call'[s].id = call'[t].id
        PROVE  call'[s].expected # call'[t].expected
    BY <1>1, <2>2 DEF SameSlot, PatchEnded, IInv, OneWinner
  <2>3. QED
    BY <2>1, <2>2 DEF OneWinner
<1>3. VersionNamesContent'
  <2>1. ASSUME NEW s \in Requests, Shows(s)', rows'[ingredient'[s].id] # None
        PROVE  LET v   == ingredient'[s]
                   row == rows'[v.id]
               IN /\ v.version <= row.version
                  /\ row.version = v.version => row.name = v.name /\ row.attr = v.attr
    <3> DEFINE v   == ingredient'[s]
               row == rows'[v.id]
    <3>1. v \in View /\ row \in Row
      BY <2>1 DEF Shows, TypeOK, View
    <3>2. v.version \in Nat /\ row.version \in Nat
      BY <3>1 DEF View, Row, Versions
    <3>3. \/ v.version < row.version
          \/ row.version = v.version /\ row.name = v.name /\ row.attr = v.attr
      BY <2>1 DEF SlotInv, Superseded, Current
    <3>4. QED
      BY <3>2, <3>3
  <2>2. ASSUME NEW s \in Requests, s # r, Shows(r)', Shows(s)',
               ingredient'[s].id = ingredient'[r].id,
               ingredient'[s].version = ingredient'[r].version
        PROVE  /\ ingredient'[s].name = ingredient'[r].name
               /\ ingredient'[s].attr = ingredient'[r].attr
    <3>1. Current(ingredient[r])'
      BY <2>2 DEF Owes
    <3>2. QED
      BY <2>1, <2>2, <3>1 DEF Current
  <2>3. ASSUME NEW s \in Requests, NEW t \in Requests, s # r, t # r, Shows(s)', Shows(t)',
               ingredient'[s].id = ingredient'[t].id,
               ingredient'[s].version = ingredient'[t].version
        PROVE  /\ ingredient'[s].name = ingredient'[t].name
               /\ ingredient'[s].attr = ingredient'[t].attr
    <3>1. /\ Shows(s) /\ Shows(t)
          /\ ingredient'[s] = ingredient[s] /\ ingredient'[t] = ingredient[t]
      BY <1>1, <2>3 DEF SameSlot, Shows
    <3>2. QED
      BY <2>3, <3>1 DEF IInv, VersionNamesContent
  <2>4. ASSUME NEW s \in Requests, NEW t \in Requests, Shows(s)', Shows(t)',
               ingredient'[t].id = ingredient'[s].id,
               ingredient'[t].version = ingredient'[s].version
        PROVE  /\ ingredient'[t].name = ingredient'[s].name
               /\ ingredient'[t].attr = ingredient'[s].attr
    BY <2>2, <2>3, <2>4
  <2>5. QED
    BY <2>1, <2>4 DEF VersionNamesContent
<1>4. QED
  BY <1>2, <1>3

\* The invariant holds of an empty table with no requests.
LEMMA IInvInit ==
  ASSUME Init
  PROVE  IInv
<1>1. TypeOK
  BY BoundsAssumption DEF Init, TypeOK, Phases
<1>2. FreshIds /\ Abstract!UniqueNames
  BY DEF Init, FreshIds, Abstract!UniqueNames
<1>3. QED
  BY <1>1, <1>2 DEF Init, IInv, SlotInv, PatchEnded, Shows, OneWinner, VersionNamesContent

\* The invariant is inductive.
LEMMA IInvStep ==
  ASSUME IInv, [Next]_vars
  PROVE  IInv'
<1>1. TypeOK'
  BY TypeStep DEF IInv
<1>2. FreshIds'
  BY <1>1, FreshStep DEF IInv
<1>3. Abstract!UniqueNames'
  BY NamesStep DEF IInv
<1>4. nextId' \in {nextId, nextId + 1} /\ \A id \in Ids : RowEvolves(id)
  BY TableEvolves DEF IInv
<1>5. ASSUME NEW r \in Requests,
             (\E c \in Calls : Receive(r, c)) \/ Handle(r) \/ Deliver(r)
      PROVE  IInv'
  <2>1. Owes(r)
    BY <1>1, <1>5, ActorStep DEF IInv
  <2>2. \A s \in Requests : SlotInv(s)'
    BY <1>1, <1>4, <2>1, SlotStable DEF IInv, Owes
  <2>3. OneWinner' /\ VersionNamesContent'
    BY <1>1, <2>1, <2>2, PairStep
  <2>4. QED
    BY <1>1, <1>2, <1>3, <2>2, <2>3 DEF IInv
<1>6. CASE Crash
  <2>1. \A s \in Requests : pc'[s] = "idle"
    BY <1>6 DEF Crash
  <2>2. QED
    BY <1>1, <1>2, <1>3, <2>1
       DEF IInv, SlotInv, PatchEnded, Shows, OneWinner, VersionNamesContent
<1>7. CASE UNCHANGED vars
  BY <1>7, <1>1, <1>2, <1>3
     DEF IInv, vars, SlotInv, PatchEnded, Shows, OneWinner, VersionNamesContent,
         Superseded, Current
<1>8. QED
  BY <1>5, <1>6, <1>7 DEF Next

-----------------------------------------------------------------------------
(* Theorems that hold whatever versions clients send *)

\* The invariant holds in every reachable state.
LEMMA Invariance == Spec => []IInv
<1>1. Init => IInv
  BY IInvInit
<1>2. IInv /\ [Next]_vars => IInv'
  BY IInvStep
<1>3. QED
  BY <1>1, <1>2, PTL DEF Spec

\* Two PATCH requests sent against one version of an ingredient never both succeed.
THEOREM AtMostOneWinner == Spec => []OneWinner
<1>1. IInv => OneWinner
  BY DEF IInv
<1>2. QED
  BY <1>1, Invariance, PTL

\* A version names one content of an ingredient, and no response is undone.
THEOREM VersionsNameContent == Spec => []VersionNamesContent
<1>1. IInv => VersionNamesContent
  BY DEF IInv
<1>2. QED
  BY <1>1, Invariance, PTL

\* A deleted or wasted id is never in the table again.
THEOREM DeletedForGood == Spec => GoneStaysGone
<1>1. IInv /\ [Next]_vars => [\A id \in 1..(nextId - 1) : rows[id] = None => rows'[id] = None]_vars
  <2> SUFFICES ASSUME IInv, [Next]_vars, NEW id \in 1..(nextId - 1), rows[id] = None
               PROVE  rows'[id] = None
    OBVIOUS
  <2>1. \A i \in Ids : RowEvolves(i)
    BY TableEvolves DEF IInv
  <2>2. id \in Ids /\ id # nextId
    BY BoundsAssumption DEF IInv, TypeOK, Ids
  <2>3. QED
    BY <2>1, <2>2 DEF RowEvolves
<1>2. QED
  BY <1>1, Invariance, PTL DEF Spec, GoneStaysGone

-----------------------------------------------------------------------------
(* The requests implement Catalog *)

\* Drawing the next id adds it to the ids given out.
LEMMA IssuedGrows ==
  ASSUME TypeOK, TypeOK', nextId' = nextId + 1
  PROVE  /\ nextId \in Ids /\ nextId \notin 1..(nextId - 1)
         /\ 1..(nextId' - 1) = (1..(nextId - 1)) \cup {nextId}
BY BoundsAssumption DEF TypeOK, Ids

\* Every step is a step of Catalog on the table and the ids given out, or leaves
\* both alone.
LEMMA CatalogStep ==
  ASSUME IInv, IInv', [Next]_vars
  PROVE  [Abstract!Next]_(Abstract!vars)
<1> DEFINE Goal == [Abstract!Next]_(Abstract!vars)
<1>1. TypeOK /\ TypeOK' /\ FreshIds /\ Abstract!UniqueNames'
  BY DEF IInv
<1>2. ASSUME rows' = rows, nextId' = nextId  PROVE Goal
  BY <1>2 DEF Abstract!vars
<1>3. ASSUME rows' = rows, nextId' = nextId + 1  PROVE Goal
  <2>1. Abstract!Waste(nextId) /\ nextId \in Ids
    BY <1>1, <1>3, IssuedGrows DEF Abstract!Waste
  <2>2. QED
    BY <1>1, <2>1 DEF Abstract!Next
<1>4. ASSUME NEW r \in Requests, Insert(r)  PROVE Goal
  <2>1. CASE rows' = rows /\ nextId' \in {nextId, nextId + 1}
    BY <1>2, <1>3, <2>1
  <2>2. CASE /\ nextId' = nextId + 1
             /\ rows' = [rows EXCEPT ![nextId] =
                           [name |-> call[r].name, attr |-> call[r].attr,
                            version |-> 1, icon |-> None]]
    <3>1. call[r].name \in Names /\ call[r].attr \in Attrs
      BY <1>1, <1>4, PostType DEF Insert, Accepted, TypeOK
    <3>2. Abstract!Add(nextId, call[r].name, call[r].attr) /\ nextId \in Ids
      BY <1>1, <2>2, IssuedGrows DEF Abstract!Add
    <3>3. QED
      BY <1>1, <3>1, <3>2 DEF Abstract!Next
  <2>3. QED
    BY <1>1, <1>4, <2>1, <2>2, InsertRows
<1>5. ASSUME NEW r \in Requests, Write(r)  PROVE Goal
  <2> DEFINE v == ingredient[r]
  <2>1. CASE rows' = rows
    BY <1>1, <1>2, <1>5, <2>1, WriteRows
  <2>2. CASE rows' # rows
    <3>1. /\ Matched(v) /\ v \in View /\ nextId' = nextId
          /\ rows' = [rows EXCEPT ![v.id] = Written(rows[v.id], v)]
      BY <1>1, <1>5, <2>2, WriteRows
    <3>2. v.id \in Ids /\ v.name \in Names /\ v.attr \in Attrs
      BY <3>1 DEF View
    <3>3. v.name # None /\ v.attr # None
      BY <3>2, ValuesAssumption
    <3>4. Abstract!Patch(v.id, v.name, v.attr)
      BY <3>1, <3>3 DEF Abstract!Patch, Written, Matched
    <3>5. QED
      BY <1>1, <3>2, <3>4 DEF Abstract!Next
  <2>3. QED
    BY <2>1, <2>2
<1>6. ASSUME NEW r \in Requests, Delete(r)  PROVE Goal
  <2> DEFINE id == call[r].id
  <2>1. id \in Ids /\ nextId' = nextId /\ rows' = [rows EXCEPT ![id] = None]
    BY <1>1, <1>6, CallIdType DEF Delete, Accepted, TypeOK
  <2>2. CASE rows[id] = None
    <3>1. rows' = rows
      BY <1>1, <2>1, <2>2 DEF TypeOK
    <3>2. QED
      BY <1>2, <2>1, <3>1
  <2>3. CASE rows[id] # None
    BY <1>1, <2>1, <2>3 DEF Abstract!Next, Abstract!Remove
  <2>4. QED
    BY <2>2, <2>3
<1>7. ASSUME NEW r \in Requests, SetIcon(r)  PROVE Goal
  <2> DEFINE id == call[r].id
             icon == call[r].icon
  <2>1. id \in Ids /\ icon \in Icons /\ nextId' = nextId
    BY <1>1, <1>7, CallIdType, AcceptedCall, CallsAssumption
       DEF SetIcon, Accepted, TypeOK, Call
  <2>2. CASE rows' = rows
    BY <1>2, <2>1, <2>2
  <2>3. CASE rows[id] # None /\ rows' = [rows EXCEPT ![id] = [@ EXCEPT !.icon = icon]]
    <3>1. Abstract!SetIcon(id, icon)
      BY <2>1, <2>3 DEF Abstract!SetIcon
    <3>2. QED
      BY <1>1, <2>1, <3>1 DEF Abstract!Next
  <2>4. QED
    BY <1>7, <2>2, <2>3 DEF SetIcon
<1>8. ASSUME NEW r \in Requests, DbFault(r)  PROVE Goal
  BY <1>2, <1>3, <1>8 DEF DbFault
<1>9. QED
  BY <1>2, <1>4, <1>5, <1>6, <1>7, <1>8
     DEF Next, Handle, Receive, Refuse, Lookup, Exists, Get, GetIcon, Deliver, Crash, vars

\* The requests implement Catalog: their statements, faults and crashes included,
\* change the table only as Catalog allows.
THEOREM StoreImplementsCatalog == Spec => ImplementsCatalog
<1>1. Init => Abstract!Init
  BY DEF Init, Abstract!Init
<1>2. IInv /\ IInv' /\ [Next]_vars => [Abstract!Next]_(Abstract!vars)
  BY CatalogStep
<1>3. QED
  BY <1>1, <1>2, Invariance, PTL DEF Spec, ImplementsCatalog, Abstract!Spec

-----------------------------------------------------------------------------
(* Theorems about clients that send only versions they were shown *)

\* One slot against the table when versions are not guessed: the version a PATCH
\* expects has existed, and if it still is the row's then what the handler merged
\* keeps the row's values where the patch has none.
HonestSlot(r) ==
  LET c   == call[r]
      v   == ingredient[r]
      row == rows[c.id]
  IN /\ pc[r] = "received" /\ c.op = "PATCH" /\ InputError(c) = None =>
          /\ c.id >= nextId => c.expected = 1
          /\ row # None => c.expected <= row.version
     /\ pc[r] = "write" /\ row # None =>
          /\ c.expected <= row.version
          /\ c.expected = row.version =>
               /\ v.name = Field(c.name, row.name)
               /\ v.attr = Field(c.attr, row.attr)
     /\ pc[r] = "missed" => Superseded(c.id, c.expected)
     /\ PatchEnded(r, "VERSION_CONFLICT") =>
          InputError(c) = None /\ c.id < nextId /\ Superseded(c.id, c.expected)

HonestInv == ~BlindVersions /\ IInv /\ \A r \in Requests : HonestSlot(r)

\* A slot no step of its own has touched keeps that too: the versions of a row only
\* grow, and with the version unchanged so are the contents.
LEMMA HonestStable ==
  ASSUME IInv, IInv', NEW s \in Requests, HonestSlot(s), SameSlot(s),
         nextId' \in {nextId, nextId + 1}, \A id \in Ids : RowEvolves(id)
  PROVE  HonestSlot(s)'
<1> DEFINE c == call[s]
           v == ingredient[s]
           old == rows[c.id]
           new == rows'[c.id]
<1>1. TypeOK /\ TypeOK' /\ SlotInv(s) /\ FreshIds
  BY DEF IInv
<1>2. nextId \in Nat /\ nextId' \in Nat /\ nextId <= nextId'
  BY <1>1, BoundsAssumption DEF TypeOK
<1>3. ASSUME pc[s] # "idle", c.op = "PATCH", InputError(c) = None
      PROVE  /\ c.id \in Ids /\ c.id \in Nat /\ c.expected \in Nat
             /\ old \in Row \cup {None} /\ new \in Row \cup {None}
             /\ old # None => old.version \in Nat
             /\ new # None => new.version \in Nat
             /\ RowEvolves(c.id)
  <2>1. c \in Calls
    BY <1>1, <1>3 DEF TypeOK
  <2>2. c.id \in Ids /\ c.id \in Nat /\ c.expected \in Nat
    BY <1>3, <2>1, CallIdType, PatchType DEF Ids, Versions
  <2>3. old \in Row \cup {None} /\ new \in Row \cup {None}
    BY <1>1, <2>2 DEF TypeOK
  <2>4. QED
    BY <2>2, <2>3 DEF Row, Versions
<1>4. CASE pc[s] = "received" /\ c.op = "PATCH" /\ InputError(c) = None
  <2>1. /\ c.id >= nextId' => c.expected = 1
        /\ new # None => c.expected <= new.version
    BY <1>2, <1>3, <1>4 DEF HonestSlot, RowEvolves
  <2>2. QED
    BY <1>4, <2>1 DEF HonestSlot, SameSlot, PatchEnded
<1>5. CASE pc[s] = "write"
  <2>1. c.op = "PATCH" /\ InputError(c) = None /\ c.id < nextId
    BY <1>1, <1>5 DEF TypeOK, SlotInv
  <2>2. new # None => /\ c.expected <= new.version
                      /\ c.expected = new.version =>
                           /\ v.name = Field(c.name, new.name)
                           /\ v.attr = Field(c.attr, new.attr)
    BY <1>2, <1>3, <1>5, <2>1 DEF HonestSlot, RowEvolves
  <2>3. QED
    BY <1>5, <2>2 DEF HonestSlot, SameSlot, PatchEnded
<1>6. CASE pc[s] = "missed" \/ PatchEnded(s, "VERSION_CONFLICT")
  <2>1. c.op = "PATCH" /\ InputError(c) = None /\ c.id < nextId /\ pc[s] # "idle"
    BY <1>1, <1>6 DEF TypeOK, SlotInv, HonestSlot, PatchEnded
  <2>2. Superseded(c.id, c.expected)
    BY <1>6 DEF HonestSlot
  <2>3. new # None => c.expected < new.version
    BY <1>2, <1>3, <2>1, <2>2 DEF Superseded, RowEvolves
  <2>4. c.id < nextId'
    BY <1>2, <1>3, <2>1
  <2>5. QED
    BY <1>6, <2>1, <2>3, <2>4 DEF HonestSlot, SameSlot, PatchEnded, Superseded
<1>7. CASE /\ ~(pc[s] = "received" /\ c.op = "PATCH" /\ InputError(c) = None)
           /\ pc[s] # "write" /\ pc[s] # "missed" /\ ~PatchEnded(s, "VERSION_CONFLICT")
  BY <1>7 DEF HonestSlot, SameSlot, PatchEnded
<1>8. QED
  BY <1>4, <1>5, <1>6, <1>7

\* The step of a request keeps what HonestSlot says of its own slot.
LEMMA HonestActor ==
  ASSUME IInv, IInv', ~BlindVersions, NEW r \in Requests, HonestSlot(r),
         (\E c \in Calls : Receive(r, c)) \/ Handle(r) \/ Deliver(r)
  PROVE  HonestSlot(r)'
<1>1. TypeOK /\ TypeOK' /\ SlotInv(r) /\ FreshIds
  BY DEF IInv
<1>2. ASSUME NEW c \in Calls, Receive(r, c)  PROVE HonestSlot(r)'
  <2>1. /\ pc'[r] = "received" /\ call'[r] = c /\ rows' = rows /\ nextId' = nextId
        /\ c.op = "PATCH" /\ c.expected > 0 => c.expected \in ShownVersions(c.id)
    BY <1>1, <1>2 DEF Receive, TypeOK
  <2>2. ASSUME c.op = "PATCH", InputError(c) = None
        PROVE  /\ c.id >= nextId => c.expected = 1
               /\ rows[c.id] # None => c.expected <= rows[c.id].version
    <3>1. c.id \in Ids /\ c.expected \in Versions
      BY <2>2, CallIdType, PatchType
    <3>2. c.expected \in ShownVersions(c.id)
      BY <2>1, <2>2, <3>1 DEF Versions
    <3>3. c.id >= nextId => rows[c.id] = None
      BY <1>1, <3>1 DEF FreshIds
    <3>4. rows[c.id] # None => rows[c.id].version \in Nat
      BY <1>1, <3>1 DEF TypeOK, Row, Versions
    <3>5. QED
      BY <3>1, <3>2, <3>3, <3>4 DEF ShownVersions
  <2>3. QED
    BY <2>1, <2>2 DEF HonestSlot, PatchEnded
<1>3. ASSUME \/ pc'[r] = "idle"
             \/ pc'[r] = "done" /\ ~PatchEnded(r, "VERSION_CONFLICT")'
      PROVE  HonestSlot(r)'
  BY <1>3 DEF HonestSlot, PatchEnded
<1>4. CASE Deliver(r)
  BY <1>1, <1>3, <1>4 DEF Deliver, TypeOK
<1>5. ASSUME NEW c, NEW v, c # "VERSION_CONFLICT" \/ call[r].op # "PATCH",
             Answer(r, c, v) \/ StatementAnswer(r, c, v)
      PROVE  HonestSlot(r)'
  BY <1>1, <1>3, <1>5, AnswerSlots DEF PatchEnded
<1>6. CASE Refuse(r)
  <2>1. InputError(call[r]) # "VERSION_CONFLICT"
    BY <1>6 DEF InputError, Refuse
  <2>2. QED
    BY <1>5, <1>6, <2>1 DEF Refuse
<1>7. CASE Insert(r)
  BY <1>5, <1>7 DEF Insert, Accepted
<1>8. CASE Lookup(r)
  <2> DEFINE c == call[r]
             row == rows[c.id]
             v == ViewOf(c.id, row)
             merged == [v EXCEPT !.name = Field(c.name, @), !.attr = Field(c.attr, @),
                                 !.version = c.expected]
  <2>1. c \in Calls /\ c.op = "PATCH" /\ InputError(c) = None /\ c.id \in Ids
        /\ pc[r] = "received"
    BY <1>1, <1>8, CallIdType DEF Lookup, Accepted, TypeOK
  <2>2. CASE Answer(r, "NOT_FOUND", None) \/ Answer(r, "VALIDATION_ERROR", None)
    BY <1>5, <2>2
  <2>3. CASE /\ row # None
             /\ pc' = [pc EXCEPT ![r] = "write"]
             /\ ingredient' = [ingredient EXCEPT ![r] = merged]
             /\ UNCHANGED <<call, code, rows, nextId>>
    <3>1. pc'[r] = "write" /\ call'[r] = c /\ ingredient'[r] = merged
      BY <1>1, <2>3 DEF TypeOK
    <3>2. v \in View /\ v.name = row.name /\ v.attr = row.attr
      BY <1>1, <2>1, <2>3, ViewOfType DEF TypeOK, ViewOf
    <3>3. merged.name = Field(c.name, row.name) /\ merged.attr = Field(c.attr, row.attr)
      BY <3>2 DEF View
    <3>4. c.expected <= row.version
      BY <2>1, <2>3 DEF HonestSlot
    <3> HIDE DEF merged
    <3>5. QED
      BY <2>3, <3>1, <3>3, <3>4 DEF HonestSlot, PatchEnded
  <2>4. QED
    BY <1>8, <2>2, <2>3 DEF Lookup
<1>9. CASE Write(r)
  <2> DEFINE v == ingredient[r]
             c == call[r]
  <2>1. CASE \/ \E d \in Codes \ {"OK", "VERSION_CONFLICT"} : Answer(r, d, None)
             \/ StatementAnswer(r, "OK", [v EXCEPT !.version = v.version + 1])
    BY <1>5, <2>1
  <2>2. CASE /\ rows' = rows /\ ~Matched(v)
             /\ pc' = [pc EXCEPT ![r] = "missed"]
             /\ UNCHANGED <<call, ingredient, code>>
    <3>1. /\ c \in Calls /\ c.op = "PATCH" /\ InputError(c) = None
          /\ v.id = c.id /\ v.version = c.expected
      BY <1>1, <1>9 DEF Write, TypeOK
    <3>2. c.id \in Ids /\ c.expected \in Nat
      BY <3>1, CallIdType, PatchType DEF Versions
    <3>3. rows[c.id] # None => c.expected < rows[c.id].version
      <4>1. rows[c.id] # None => c.expected <= rows[c.id].version
        BY <1>9 DEF HonestSlot, Write
      <4>2. rows[c.id] # None => rows[c.id].version \in Nat
        BY <1>1, <3>2 DEF TypeOK, Row, Versions
      <4>3. QED
        BY <2>2, <3>1, <3>2, <4>1, <4>2 DEF Matched
    <3>4. pc'[r] = "missed" /\ call'[r] = c
      BY <1>1, <2>2 DEF TypeOK
    <3>5. QED
      BY <2>2, <3>3, <3>4 DEF HonestSlot, Superseded, PatchEnded
  <2>3. QED
    BY <1>1, <1>9, <2>1, <2>2, WriteRows
<1>10. CASE Exists(r)
  <2> DEFINE c == call[r]
  <2>1. /\ pc'[r] = "done" /\ call'[r] = c /\ rows' = rows /\ nextId' = nextId
        /\ c.op = "PATCH" /\ InputError(c) = None /\ c.id < nextId
        /\ Superseded(c.id, c.expected)
    BY <1>1, <1>10 DEF Exists, Answer, TypeOK, SlotInv, HonestSlot
  <2>2. QED
    BY <2>1 DEF HonestSlot, Superseded, PatchEnded
<1>11. CASE Delete(r)
  BY <1>5, <1>11 DEF Delete, Accepted
<1>12. CASE SetIcon(r)
  BY <1>5, <1>12 DEF SetIcon, Accepted
<1>13. CASE Get(r)
  BY <1>5, <1>13 DEF Get, Accepted
<1>14. CASE GetIcon(r)
  BY <1>5, <1>14 DEF GetIcon, Accepted
<1>15. CASE DbFault(r)
  BY <1>5, <1>15 DEF DbFault
<1>16. QED
  BY <1>2, <1>4, <1>6, <1>7, <1>8, <1>9, <1>10, <1>11, <1>12, <1>13, <1>14, <1>15 DEF Handle

\* With clients that send versions they were shown, HonestInv always holds.
LEMMA HonestInvariance == ~BlindVersions /\ Spec => []HonestInv
<1>1. ~BlindVersions /\ Init => HonestInv
  BY IInvInit DEF Init, HonestInv, HonestSlot, PatchEnded
<1>2. HonestInv /\ [Next]_vars => HonestInv'
  <2> SUFFICES ASSUME HonestInv, [Next]_vars PROVE HonestInv'
    OBVIOUS
  <2>1. IInv /\ IInv'
    BY IInvStep DEF HonestInv
  <2>2. nextId' \in {nextId, nextId + 1} /\ \A id \in Ids : RowEvolves(id)
    BY <2>1, TableEvolves DEF IInv
  <2>3. ASSUME NEW r \in Requests,
               (\E c \in Calls : Receive(r, c)) \/ Handle(r) \/ Deliver(r)
        PROVE  \A s \in Requests : HonestSlot(s)'
    <3>1. Owes(r)
      BY <2>1, <2>3, ActorStep DEF IInv
    <3>2. HonestSlot(r)'
      BY <2>1, <2>3, HonestActor DEF HonestInv
    <3>3. ASSUME NEW s \in Requests \ {r}  PROVE HonestSlot(s)'
      BY <2>1, <2>2, <3>1, HonestStable DEF HonestInv, Owes
    <3>4. QED
      BY <3>2, <3>3
  <2>4. ASSUME Crash  PROVE \A s \in Requests : HonestSlot(s)'
    BY <2>4 DEF Crash, HonestSlot, PatchEnded
  <2>5. ASSUME UNCHANGED vars  PROVE \A s \in Requests : HonestSlot(s)'
    BY <2>2, <2>5, <2>1, HonestStable DEF vars, SameSlot, HonestInv
  <2>6. QED
    BY <2>1, <2>3, <2>4, <2>5 DEF Next, HonestInv
<1>3. QED
  BY <1>1, <1>2, PTL DEF Spec

\* VERSION_CONFLICT is final for a client that was shown the version it sent.
THEOREM ConflictsAreFinal == ~BlindVersions /\ Spec => []ConflictIsFinal
<1>1. HonestInv => ConflictIsFinal
  BY DEF HonestInv, HonestSlot, Superseded, ConflictIsFinal
<1>2. QED
  BY <1>1, HonestInvariance, PTL

\* A PATCH that commits is laid over the row it replaces: although the handler merged
\* the patch with a row it read earlier, no value another request wrote is lost.
THEOREM NoLostUpdate == ~BlindVersions /\ Spec => PatchMeetsCurrentRow
<1> DEFINE Meets(r) ==
      LET c   == call[r]
          old == rows[c.id]
      IN /\ old # None /\ old.version = c.expected
         /\ rows'[c.id] = [name    |-> Field(c.name, old.name),
                           attr    |-> Field(c.attr, old.attr),
                           version |-> old.version + 1,
                           icon    |-> old.icon]
<1>1. HonestInv /\ [Next]_vars => [\A r \in Requests : Commits(r) => Meets(r)]_vars
  <2> SUFFICES ASSUME HonestInv, [Next]_vars, NEW r \in Requests, Commits(r)
               PROVE  Meets(r)
    OBVIOUS
  <2> DEFINE c   == call[r]
             v   == ingredient[r]
             old == rows[c.id]
  <2>1. pc[r] = "write" /\ pc'[r] = "done" /\ rows' # rows
    BY DEF Commits
  <2>2. IInv /\ TypeOK /\ TypeOK' /\ HonestSlot(r)
    BY IInvStep DEF HonestInv, IInv
  <2>3. ASSUME NEW s \in Requests, s # r,
               (\E d \in Calls : Receive(s, d)) \/ Handle(s) \/ Deliver(s)
        PROVE  FALSE
    <3>1. Owes(s)
      BY <2>2, <2>3, ActorStep DEF IInv
    <3>2. QED
      BY <2>1, <2>3, <3>1 DEF Owes, SameSlot
  <2>4. (\E d \in Calls : Receive(r, d)) \/ Handle(r) \/ Deliver(r)
    <3>1. CASE Crash
      BY <2>1, <3>1 DEF Crash
    <3>2. CASE UNCHANGED vars
      BY <2>1, <3>2 DEF vars
    <3>3. QED
      BY <2>3, <3>1, <3>2 DEF Next
  <2>5. Write(r)
    <3>1. ~(\E d \in Calls : Receive(r, d)) /\ ~Deliver(r) /\ ~Refuse(r)
      BY <2>1 DEF Receive, Deliver, Refuse
    <3>2. /\ ~Insert(r) /\ ~Lookup(r) /\ ~Exists(r) /\ ~Delete(r) /\ ~SetIcon(r)
          /\ ~Get(r) /\ ~GetIcon(r)
      BY <2>1 DEF Insert, Lookup, Exists, Delete, SetIcon, Get, GetIcon, Accepted
    <3>3. ~DbFault(r)
      BY <2>1 DEF DbFault
    <3>4. QED
      BY <2>4, <3>1, <3>2, <3>3 DEF Handle
  <2>6. /\ Matched(v)
        /\ rows' = [rows EXCEPT ![v.id] = Written(rows[v.id], v)]
    BY <2>1, <2>2, <2>5, WriteRows
  <2>7. v.id = c.id /\ v.version = c.expected /\ c.id \in Ids
    BY <2>1, <2>2 DEF TypeOK, View
  <2>8. old # None /\ old.version = c.expected
    BY <2>6, <2>7 DEF Matched
  <2>9. v.name = Field(c.name, old.name) /\ v.attr = Field(c.attr, old.attr)
    BY <2>1, <2>2, <2>8 DEF HonestSlot
  <2>10. rows'[c.id] = Written(old, v)
    BY <2>2, <2>6, <2>7 DEF TypeOK
  <2>11. QED
    BY <2>8, <2>9, <2>10 DEF Written
<1>2. QED
  BY <1>1, HonestInvariance, PTL DEF Spec, PatchMeetsCurrentRow
=============================================================================
