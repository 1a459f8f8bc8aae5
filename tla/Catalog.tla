------------------------------- MODULE Catalog -------------------------------
(***************************************************************************)
(* What the ingredient API promises of the table ingredients, with no      *)
(* requests, statements or failures in sight: a set of uniquely named      *)
(* ingredients, each change of which takes effect at once.  A patch is     *)
(* laid over the ingredient as it is when the patch takes effect, leaves   *)
(* the icon alone and moves the version by one; an id that was given out,  *)
(* even to an insertion that failed, is not given again.  Which call a     *)
(* change answers is not said here: PatchMeetsCurrentRow in                *)
(* IngredientStore says it.                                                *)
(***************************************************************************)
EXTENDS Naturals

CONSTANTS Ids, Names, Attrs, Icons, LowerName, None

VARIABLES
  rows,    \* the ingredient at each id, None where there is none
  issued   \* the ids given out so far

vars == <<rows, issued>>

UniqueNames ==
  \A i, j \in Ids :
     i # j /\ rows[i] # None /\ rows[j] # None
        => LowerName[rows[i].name] # LowerName[rows[j].name]

Init ==
  /\ rows = [id \in Ids |-> None]
  /\ issued = {}

Add(id, name, attr) ==
  /\ id \notin issued
  /\ rows' = [rows EXCEPT ![id] =
                [name |-> name, attr |-> attr, version |-> 1, icon |-> None]]
  /\ issued' = issued \cup {id}

\* An insertion that fails after it drew its id.
Waste(id) ==
  /\ id \notin issued
  /\ issued' = issued \cup {id}
  /\ UNCHANGED rows

\* name and attr are the values the patch carries, None if it carries none.
Patch(id, name, attr) ==
  /\ rows[id] # None
  /\ name # None \/ attr # None
  /\ rows' = [rows EXCEPT ![id] =
                [name    |-> IF name = None THEN @.name ELSE name,
                 attr    |-> IF attr = None THEN @.attr ELSE attr,
                 version |-> @.version + 1,
                 icon    |-> @.icon]]
  /\ UNCHANGED issued

SetIcon(id, icon) ==
  /\ rows[id] # None
  /\ rows' = [rows EXCEPT ![id] = [@ EXCEPT !.icon = icon]]
  /\ UNCHANGED issued

Remove(id) ==
  /\ rows[id] # None
  /\ rows' = [rows EXCEPT ![id] = None]
  /\ UNCHANGED issued

Next ==
  /\ \E id \in Ids :
       \/ \E name \in Names, attr \in Attrs : Add(id, name, attr)
       \/ Waste(id)
       \/ \E name \in Names \cup {None}, attr \in Attrs \cup {None} : Patch(id, name, attr)
       \/ \E icon \in Icons : SetIcon(id, icon)
       \/ Remove(id)
  /\ UniqueNames'

Spec == Init /\ [][Next]_vars

=============================================================================
