------------------------- MODULE IngredientListingMC -------------------------
(***************************************************************************)
(* Small instances of IngredientListing for TLC.                           *)
(***************************************************************************)
EXTENDS IngredientListing

Any == ABVs

Asked(sort, order, pageSize, filter) ==
  [sort |-> sort, order |-> order, pageSize |-> pageSize, filter |-> filter]

\* By time of creation with the defaults, with the same said explicitly and a filter, in
\* the other order; by name with the defaults; and what is refused.
Mixed ==
  {Asked(None, None, None, Any),
   Asked("created_at", "desc", 1, {"soft"}),
   Asked("created_at", "asc", 1, Any),
   Asked("name", "asc", None, Any),
   Asked(Other, None, None, Any)}

=============================================================================
