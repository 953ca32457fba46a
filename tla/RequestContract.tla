---------------------------- MODULE RequestContract ----------------------------
(***************************************************************************)
(* What the API promises about one request, and no more: it is given one   *)
(* identifier when it is admitted; every record made for it and the        *)
(* response carry that identifier; the response is labelled once; and a    *)
(* failure is recorded once, before the caller hears of it.  Nothing is    *)
(* said about contexts, scopes and spans: that is module RequestServing.   *)
(***************************************************************************)
EXTENDS Sequences, Naturals

CONSTANTS Requests, Identifiers, NoId

VARIABLES stage,   \* waiting -> open -> (failing ->) closed
          id,      \* the identifier of an admitted request
          records, \* the log records made for it: <<identifier, level>>
          told     \* the responses begun: <<status, identifier>>

contractVars == <<stage, id, records, told>>

Init ==
  /\ stage = [r \in Requests |-> "waiting"]
  /\ id = [r \in Requests |-> NoId]
  /\ records = [r \in Requests |-> <<>>]
  /\ told = [r \in Requests |-> <<>>]

Admit(r, i) ==
  /\ stage[r] = "waiting"
  /\ stage' = [stage EXCEPT ![r] = "open"]
  /\ id' = [id EXCEPT ![r] = i]
  /\ UNCHANGED <<records, told>>

Record(r) ==
  /\ stage[r] = "open"
  /\ records' = [records EXCEPT ![r] = Append(@, <<id[r], "info">>)]
  /\ UNCHANGED <<stage, id, told>>

Answer(r) ==
  /\ stage[r] = "open" /\ told[r] = <<>>
  /\ told' = [told EXCEPT ![r] = <<<<"answer", id[r]>>>>]
  /\ UNCHANGED <<stage, id, records>>

\* Work on the request fails; the caller is told only if nothing was said yet.
Fail(r) ==
  /\ stage[r] = "open"
  /\ records' = [records EXCEPT ![r] = Append(@, <<id[r], "error">>)]
  /\ stage' = [stage EXCEPT ![r] = IF told[r] = <<>> THEN "failing" ELSE "closed"]
  /\ UNCHANGED <<id, told>>

Report(r) ==
  /\ stage[r] = "failing" /\ told[r] = <<>>
  /\ told' = [told EXCEPT ![r] = <<<<"error", id[r]>>>>]
  /\ UNCHANGED <<stage, id, records>>

\* Answered in full, reported, or given up.
Close(r) ==
  /\ stage[r] \in {"open", "failing"}
  /\ stage' = [stage EXCEPT ![r] = "closed"]
  /\ UNCHANGED <<id, records, told>>

Next == \E r \in Requests :
          \/ \E i \in Identifiers : Admit(r, i)
          \/ Record(r) \/ Answer(r) \/ Fail(r) \/ Report(r) \/ Close(r)

Spec == Init /\ [][Next]_contractVars
=============================================================================
