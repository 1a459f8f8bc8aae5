------------------------------ MODULE ApiClient ------------------------------
(***************************************************************************)
(* What a page of the frontend can be told about a request: the answers    *)
(* the generated API types give each operation (shared/api/generated.ts),  *)
(* and what apiRequest (shared/api/client.ts) makes of them.  An answer is *)
(* "OK" for the success of the operation or the code of the error body.    *)
(***************************************************************************)

\* The error responses of the document: the codes each of them is for.
BadRequest         == {"VALIDATION_ERROR", "INVALID_ID", "INVALID_PAGE_TOKEN"}
Unauthorized       == {"UNAUTHORIZED"}
Forbidden          == {"FORBIDDEN", "CSRF_TOKEN_INVALID"}
NotFound           == {"NOT_FOUND"}
Conflict           == {"ALREADY_EXISTS", "VERSION_CONFLICT", "RESOURCE_IN_USE"}
InternalError      == {"INTERNAL_ERROR"}
ServiceUnavailable == {"SERVICE_UNAVAILABLE"}

\* The answers of each operation.
handleGoogleCallback ==
  {"OK", "OAUTH_STATE_INVALID", "OAUTH_CALLBACK_FAILED"}
    \cup Unauthorized \cup InternalError \cup ServiceUnavailable
getCurrentUser   == {"OK"} \cup Unauthorized \cup InternalError \cup ServiceUnavailable
logout           == {"OK"} \cup Unauthorized \cup Forbidden
                           \cup InternalError \cup ServiceUnavailable
listIngredients  == {"OK"} \cup BadRequest \cup InternalError \cup ServiceUnavailable
createIngredient == {"OK"} \cup BadRequest \cup Unauthorized \cup Forbidden
                           \cup Conflict \cup InternalError \cup ServiceUnavailable
getIngredient    == {"OK"} \cup BadRequest \cup NotFound
                           \cup InternalError \cup ServiceUnavailable
deleteIngredient == createIngredient \cup NotFound
updateIngredient == createIngredient \cup NotFound
putIngredientIcon ==
  {"OK"} \cup BadRequest \cup Unauthorized \cup Forbidden \cup NotFound
         \cup InternalError \cup ServiceUnavailable

\* Errors that say nothing of the data an operation is about.
Anytime == Unauthorized \cup Forbidden \cup InternalError \cup ServiceUnavailable

\* How a request that was answered none of the outcomes of its data can end for
\* the caller of apiRequest: with an error of the document; with one whose body
\* is not JSON, from something in front of the backend ("UNKNOWN"); or with no
\* answer it can read, which is not an ApiError ("NETWORK").
Failures(operation) == (operation \cap Anytime) \cup {"UNKNOWN", "NETWORK"}

\* error instanceof ApiError.
IsApiError(outcome) == outcome # "NETWORK"

=============================================================================
