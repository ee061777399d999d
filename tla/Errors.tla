------------------------------- MODULE Errors -------------------------------
(***************************************************************************)
(* The error model (errors.py): which class is a subclass of which, as far *)
(* as an `except` clause of the library asks, and the code each reports.   *)
(* An exception is named by its class.  The foreign ones stand for those   *)
(* of other libraries and of Python that pass through this one:            *)
(* AttributeError also for a TypeError, OSError also for an OverflowError, *)
(* JoseError for what import_key_set raises.                               *)
(***************************************************************************)
ProvenanceTokenErrors ==
    {"MalformedProvenanceTokenError", "InvalidProvenanceTokenError",
     "ProvenanceAudienceError", "ProvenanceValidationError"}

JwtTokenErrors ==
    {"MalformedJwtTokenError", "InvalidJwtTokenError", "TokenRevokedError"}
    \cup ProvenanceTokenErrors

(* No subclass of JwtTokenError: an expired token is well formed. *)
PermissionsDenied == JwtTokenErrors \cup {"AuthentikateTokenExpired"}

AuthentikateErrors == {"JwksError"}

ForeignErrors == {"RuntimeError", "OSError", "AttributeError", "JoseError"}

(* What the client does about it: UNAUTHENTICATED asks for other credentials. *)
Code(e) ==
    CASE e \in ProvenanceTokenErrors -> "PERMISSION_DENIED"
      [] e \in PermissionsDenied \ ProvenanceTokenErrors -> "UNAUTHENTICATED"
      [] e \in AuthentikateErrors -> "INTERNAL_ERROR"
      [] OTHER -> "NONE"
=============================================================================
