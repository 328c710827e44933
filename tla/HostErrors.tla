------------------------------ MODULE HostErrors ------------------------------
(***************************************************************************)
(* mapHostError: what the datasource client makes of an error of a call on *)
(* the host, in every operation of the client. An error is told by its     *)
(* code (with the structured reason that refines it) and by whether it was *)
(* decoded off the wire or inferred by Connect from the HTTP status.       *)
(***************************************************************************)

Codes == {"PermissionDenied", "NotFound", "InvalidArgument", "RateLimited",
          "OutcomeUnknown", "Removed", "ProviderRefused", "EffectReused",
          "Precondition", "Unavailable", "DeadlineExceeded", "Internal",
          "UnsupportedEncoding"}

\* The outcomes that say this request had no effect.
Definite == {"ErrNotPermitted", "ErrUnknownOperation", "InputError", "RateLimited",
             "ProviderRefused", "ErrEffectReused", "OperationRefused"}

\* (Slip: that it was an effect makes no difference.)
SettledAnyway(effectOutcome, otherwise) == otherwise

\* For the codes that leave open whether the host acted.
Unsettled(effectOutcome, otherwise) ==
  IF effectOutcome THEN "OutcomeUnknown" ELSE otherwise

\* (Slip: an error without a meaning is a refusal.)
MeaningOfAll(code, effectOutcome) ==
  CASE code = "PermissionDenied" -> "ErrNotPermitted"
    [] code = "InvalidArgument"  -> "InputError"
    [] OTHER                     -> "OperationRefused"

\* The meaning of a code; one without a meaning is returned as it is.
Meaning(code, effectOutcome) ==
  CASE code = "PermissionDenied"    -> "ErrNotPermitted"
    [] code = "NotFound"            -> "ErrUnknownOperation"
    [] code = "InvalidArgument"     -> "InputError"
    [] code = "RateLimited"         -> "RateLimited"
    [] code = "OutcomeUnknown"      -> Unsettled(effectOutcome, "OperationRefused")
    [] code = "Removed"             -> "OperationDeclarationRemoved"
    [] code = "ProviderRefused"     -> "ProviderRefused"
    [] code = "EffectReused"        -> "ErrEffectReused"
    [] code = "Precondition"        -> "OperationRefused"
    [] code = "UnsupportedEncoding" -> "DatasourceError"
    [] code \in {"Unavailable", "DeadlineExceeded"}
                                    -> Unsettled(effectOutcome, "error")
    [] OTHER                        -> "error"

\* (Slip: an effect's error is judged by its code even when only inferred.)
MapInferredError(wire, code, effectOutcome) == Meaning(code, effectOutcome)

\* For an effect, only what was decoded has a meaning.
MapHostError(wire, code, effectOutcome) ==
  IF effectOutcome /\ ~wire THEN "OutcomeUnknown" ELSE Meaning(code, effectOutcome)

=============================================================================
