----------------------------- MODULE CorrelationIds -----------------------------
(***************************************************************************)
(* What knowhub/observability/correlation.py accepts as an identifier.     *)
(*                                                                         *)
(* An inbound value is described by what the checks tell apart: whether it *)
(* is a string, the canonical UUIDv4 it starts with (or NoId), what comes  *)
(* after that, and how many characters it has in all.                      *)
(***************************************************************************)
EXTENDS Integers

CONSTANTS CanonicalIds, \* canonical UUIDv4 texts, callers' and generated ones
          NoId,         \* no identifier: Python's None
          Tainted       \* a text that is not a canonical identifier

ASSUME CorrelationAssumption == /\ NoId \notin CanonicalIds
                                /\ Tainted \notin CanonicalIds
                                /\ NoId # Tainted

CanonicalLength == 36                 \* characters of a canonical UUID
MaxLength       == 36                 \* CORRELATION_ID_MAX_LENGTH
Tails           == {"nothing", "newline", "text"}

Inbound == [isString : BOOLEAN, lead : CanonicalIds \cup {NoId}, tail : Tails,
            length : Nat]

\* The lengths a value can have that starts with lead and goes on with tail.
WellFormed(v) ==
  v.lead # NoId => /\ v.tail = "nothing" => v.length = CanonicalLength
                   /\ v.tail = "newline" => v.length = CanonicalLength + 1
                   /\ v.tail = "text"    => v.length > CanonicalLength

-----------------------------------------------------------------------------
\* _UUID_PATTERN.match: "^" and the match anchor the start, and Python's "$"
\* matches at the end and before one newline at the end.
MatchesPattern(v) == v.lead # NoId /\ v.tail \in {"nothing", "newline"}

\* Mutant: the length bound is left to the pattern.
IsValidUnbounded(v) == v.isString /\ MatchesPattern(v)

\* is_valid_correlation_id
IsValid(v) == v.isString /\ v.length <= MaxLength /\ MatchesPattern(v)

\* Mutant: the value is passed on as it came.
WrittenRaw(v) == v

\* str(value), as an identifier.
Written(v) == IF v.lead # NoId /\ v.tail = "nothing" THEN v.lead ELSE Tainted

\* The text an identifier is.
TextOf(i) == [isString |-> TRUE, lead |-> i, tail |-> "nothing",
              length |-> CanonicalLength]

\* coerce_correlation_id, when generate_correlation_id would return fresh.
Coerce(v, fresh) == IF IsValid(v) THEN Written(v) ELSE fresh
=============================================================================
