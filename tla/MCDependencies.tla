----------------------------- MODULE MCDependencies -----------------------------
(* Databases and secrets for Dependencies: those whose texts have no reserved
   character, or one that does no harm where it is, and those that have. *)
EXTENDS Dependencies

Plain(v)     == [value |-> v, mark |-> "none"]
Marked(v, m) == [value |-> v, mark |-> m]

Base == [ref |-> "env", user |-> Plain("knowhub"), host |-> Plain("127.0.0.1"),
         name |-> Plain("knowhub"), blob |-> TRUE]

HarmlessDatabases ==
  {[Base EXCEPT !.ref = form] : form \in RefForms}
  \cup {[Base EXCEPT !.user = Marked("me", "at")], [Base EXCEPT !.name = Marked("kh", "slash")],
        [Base EXCEPT !.blob = FALSE]}
HarmlessSecrets == {Plain("old"), Marked("new", "slash")}

MarkedDatabases == {Base} \cup {[Base EXCEPT !.name = Marked("kh", m)] : m \in Reserved}
                          \cup {[Base EXCEPT !.host = Marked("/var/run/postgresql", "slash")]}
\* One secret, so that the server takes it whenever it is set.
MarkedSecrets   == {Marked("new", "at")}
=============================================================================
