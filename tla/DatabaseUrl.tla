------------------------------ MODULE DatabaseUrl ------------------------------
(***************************************************************************)
(* From a secret reference to a database: what knowhub/config/secrets.py   *)
(* accepts and resolves, what DatabaseSettings.dsn composes, and what      *)
(* SQLAlchemy reads out of the URL.                                        *)
(*                                                                         *)
(* A text is a record: the value it stands for, and the one reserved       *)
(* character in it, if any.  The URL is composed without quoting, so it is *)
(* the reserved characters that decide what is read.                       *)
(***************************************************************************)

CONSTANT Unset  \* an environment variable that is not set

Parts    == {"user", "password", "host", "name"}
Reserved == {"none", "colon", "slash", "at", "percent", "question"}
Text     == [value : STRING, mark : Reserved]

\* What somebody may put into password_ref: a reference to a variable, the same
\* with a newline at its end, one with a scheme nothing resolves, a plain value,
\* nothing.
RefForms == {"env", "env_newline", "vault", "inline", "absent"}

\* _validate: Python's "$" matches before a newline at the end.
Accepted(form) == form \in {"env", "env_newline"}

\* EnvSecretResolver.resolve: the variable as it is now, empty or not; Unset
\* stands for SecretResolutionError.
Resolve(environ) == environ

\* The configured database, and the text of the reference to its password.
Configured(db, password) == [user |-> db.user, password |-> password, host |-> db.host, name |-> db.name]
ReferenceText            == [value |-> "env:NAME", mark |-> "colon"]

\* Mutant: the reference is put into the URL, not the secret.
DsnUnresolved(db, password) == [Configured(db, password) EXCEPT !["password"] = ReferenceText]

\* DatabaseSettings.dsn: the texts between the separators of the URL.
Dsn(db, password) == Configured(db, password)

\* sqlalchemy.engine.make_url: a reserved character in one part of the URL
\* changes what is read for some parts.  A user ends at ":" or "/", and without
\* "@" after it there is none; a password ends at "@"; a host at ":", "/" or "?";
\* a name at "?".  "%" in user and password is decoded.
Misreads ==
  {<<"user", "slash", p>> : p \in Parts}
  \cup {<<"user", "colon", p>> : p \in {"user", "password"}}
  \cup {<<"password", "at", p>> : p \in {"password", "host"}}
  \cup {<<p, "percent", p>> : p \in {"user", "password"}}
  \cup {<<"host", m, p>> : m \in {"slash", "question"}, p \in {"host", "name"}}
  \cup {<<"host", "colon", "host">>, <<"name", "question", "name">>}

\* The parts an engine made from the URL has as they were composed.
ReadBack(url) == {p \in Parts : \A q \in Parts : <<q, url[q].mark, p>> \notin Misreads}
=============================================================================
