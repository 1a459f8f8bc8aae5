-------------------------- MODULE IngredientStoreMC --------------------------
(***************************************************************************)
(* Small instances of IngredientStore for TLC.                             *)
(***************************************************************************)
EXTENDS IngredientStore, TLC

\* "gin" and "Gin" are one name to the unique index, "rum" is another.
MCNames == {"gin", "Gin", "rum"}
MCLowerName == [n \in MCNames |-> IF n = "rum" THEN "rum" ELSE "gin"]

Blank == [op |-> "GET", id |-> 0, name |-> None, attr |-> None, expected |-> 0, icon |-> None]

Post(name) == [Blank EXCEPT !.op = "POST", !.name = name, !.attr = "mild"]
Patch(id, expected, name, attr) ==
  [Blank EXCEPT !.op = "PATCH", !.id = id, !.expected = expected, !.name = name, !.attr = attr]
Plain(op, id) == [Blank EXCEPT !.op = op, !.id = id]
PutIcon(id, icon) == [Blank EXCEPT !.op = "PUT_ICON", !.id = id, !.icon = icon]

\* Calls on one ingredient: each field patched alone, reads, an icon, a deletion.
OneIngredientCalls ==
  {Post("gin")} \cup
  {Patch(1, v, "rum", None) : v \in 1..MaxVersion} \cup
  {Patch(1, v, None, "strong") : v \in 1..MaxVersion} \cup
  {Plain(op, 1) : op \in {"GET", "DELETE"}} \cup
  {PutIcon(1, "png")}

RefusedCalls ==
  {Plain("GET", 0), Post(Bad), Patch(1, 1, None, Bad), Patch(1, 0, "gin", None), PutIcon(1, Bad)}

\* Creations and renames that compete for a name.
NameCalls ==
  {Post(n) : n \in MCNames} \cup
  {Patch(id, v, n, None) : id \in Ids, v \in 1..MaxVersion, n \in {"Gin", "rum"}} \cup
  {Plain(op, 1) : op \in {"DELETE", "GET_ICON"}} \cup {PutIcon(1, "png")} \cup RefusedCalls

AllCalls == OneIngredientCalls \cup NameCalls

RequestSymmetry == Permutations(Requests)

=============================================================================
