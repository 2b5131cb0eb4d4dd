--------------------------- MODULE ErrorTaxonomy ---------------------------
(***************************************************************************)
(* The error classes of @ecorpin/core, how the server puts an error on the *)
(* wire and how the client takes it off again.  A class is its name        *)
(* without the "Error" suffix and stands for the wire code too: the code   *)
(* registry pairs them one to one.  Messages and details are left out.     *)
(***************************************************************************)
EXTENDS Integers

RetryableClasses == {"RateLimit", "ServiceUnavailable", "Timeout", "Network", "Discovery"}

(* ERROR_CODE_REGISTRY: what a client of this build can reconstruct.       *)
RegisteredClasses ==
    RetryableClasses \cup
    {"Validation", "Authentication", "Authorization", "NotFound", "Conflict",
     "InternalService", "Metadata", "FeatureNotSupported", "Plugin"}

(* A code this build does not know becomes an UnknownEcorpinError.         *)
ErrorClasses == RegisteredClasses \cup {"UnknownEcorpin"}

IsRetryableClass(class) == class \in RetryableClasses

HttpStatus(class) ==
    CASE class = "Validation" -> 400
      [] class = "Authentication" -> 401
      [] class = "Authorization" -> 403
      [] class = "NotFound" -> 404
      [] class = "Conflict" -> 409
      [] class = "RateLimit" -> 429
      [] class = "InternalService" -> 500
      [] class = "ServiceUnavailable" -> 503
      [] class = "Timeout" -> 504
      [] OTHER -> 0

-----------------------------------------------------------------------------
(* The server: mapThrownError.  What a handler throws is                   *)
(*   [kind |-> "ecorpin", class |-> c], [kind |-> "zod"],                  *)
(*   [kind |-> "legacy", status |-> n] or [kind |-> "other"];              *)
(* what goes on the wire is the HTTP status and the code of the envelope.  *)
(* Nothing checks a legacy status: it need not be that of an error.        *)

Throwables ==
    [kind : {"ecorpin"}, class : ErrorClasses] \cup [kind : {"legacy"}, status : Int]
        \cup [kind : {"zod", "other"}]

LegacyClass(status) ==
    CASE status = 400 -> "Validation"
      [] status = 401 -> "Authentication"
      [] status = 403 -> "Authorization"
      [] status = 404 -> "NotFound"
      [] status = 409 -> "Conflict"
      [] status = 429 -> "RateLimit"
      [] status = 503 -> "ServiceUnavailable"
      [] OTHER -> "InternalService"

MapThrownErrorMutant(thrown) ==
    CASE thrown.kind = "ecorpin" -> [status |-> HttpStatus(thrown.class), code |-> thrown.class]
      [] OTHER -> [status |-> 500, code |-> "InternalService"]
MapThrownError(thrown) ==
    CASE thrown.kind = "ecorpin" ->
           [status |-> IF HttpStatus(thrown.class) = 0 THEN 500 ELSE HttpStatus(thrown.class),
            code |-> thrown.class]
      [] thrown.kind = "zod" -> [status |-> 400, code |-> "Validation"]
      [] thrown.kind = "legacy" ->
           [status |-> thrown.status, code |-> LegacyClass(thrown.status)]
      [] OTHER -> [status |-> 500, code |-> "InternalService"]

(* A status that ends a response: node refuses one that has not three      *)
(* digits, and a 1xx is followed by nothing.                               *)
IsFinalStatus(status) == status \in 200 .. 999

-----------------------------------------------------------------------------
(* The client: errorFromEnvelope, and performRequest on the status.        *)

ErrorFromEnvelope(code) == IF code \in RegisteredClasses THEN code ELSE "UnknownEcorpin"

IsOkStatusMutant(status) == status >= 200
IsOkStatus(status) == status \in 200 .. 299
=============================================================================
