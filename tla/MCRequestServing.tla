---------------------------- MODULE MCRequestServing ----------------------------
(* Values for the constants of RequestServing. *)
EXTENDS RequestServing

CONSTANTS r1, r2,   \* the requests
          caller,   \* an identifier callers send, both requests the same one
          enter1, enter2, error1, error2  \* generated identifiers

MCRequests == {r1, r2}
Callers    == {caller}
MCFresh    == [r \in MCRequests |->
                 IF r = r1 THEN [entry |-> enter1, error |-> error1]
                           ELSE [entry |-> enter2, error |-> error2]]
MCCanonicalIds == {caller, enter1, enter2, error1, error2}

Value(str, lead, tail, length) ==
  [isString |-> str, lead |-> lead, tail |-> tail, length |-> length]

\* No header; a canonical identifier, alone, before a newline and before more
\* text; text that is no identifier, within the length bound.
MCInboundValues ==
  {Value(FALSE, NoId, "nothing", 0), Value(TRUE, NoId, "text", 36)} \cup
  UNION {{Value(TRUE, c, "nothing", 36), Value(TRUE, c, "newline", 37),
          Value(TRUE, c, "text", 4000)} : c \in Callers}
=============================================================================
