-------------------------------- MODULE Settings --------------------------------
(***************************************************************************)
(* One load of knowhub/config/settings.py: the model validator that guards *)
(* the namespace, the sources pydantic-settings consults, the sections,    *)
(* the mandatory floors.                                                   *)
(*                                                                         *)
(* A leaf is <<section, field>>; the leaves of the root model are in       *)
(* section "root".  A variable is told apart by where its name lies:       *)
(*   the KNOWHUB_ name of a leaf;                                          *)
(*   "unknown"   - KNOWHUB_ and no leaf;                                   *)
(*   "lookalike" - the same, beginning with the name of a section, as in   *)
(*                 KNOWHUB_DATABASE_HOST;                                  *)
(*   "feature"   - KNOWHUB_FEATURE_;                                       *)
(*   "foreign"   - outside the namespace;                                  *)
(*   the bare name of a field - outside the namespace too (PORT, USER).    *)
(* A section may also be supplied whole, as a JSON object in the variable  *)
(* that has its name (KNOWHUB_DATABASE); another JSON value is left out.   *)
(***************************************************************************)
EXTENDS Naturals, Sequences, FiniteSetsExt

CONSTANTS Leaves,     \* the leaves of Settings
          Required,   \* those without a default
          Default,    \* Default[l]: the platform default of the others
          Floors,     \* Floors[l]: the mandatory floor of a leaf, or Unset
          Values,     \* what a variable may hold, and Unset
          Unset

CONSTANTS Overrides, Environs, Dotenvs, \* the values each source may supply
          EnvWholes, DotenvWholes,      \* what it may supply in whole sections
          Malformed,                    \* a section that is not JSON
          Bares,                        \* the bare names the environment may hold
          EnvStrays, DotenvStrays       \* the other names it and .env may hold

Fields   == {l[2] : l \in Leaves}
Strays   == {"unknown", "lookalike", "feature", "foreign"}
Owned    == {"unknown", "lookalike"}

ASSUME SettingsAssumption ==
  /\ Required \subseteq Leaves
  /\ Unset \in Values /\ "bad" \in Values
  /\ Default \in [Leaves -> Values \ {"bad"}]
  /\ \A l \in Leaves : Default[l] = Unset <=> l \in Required
  /\ Floors \in [Leaves -> Values]
  /\ Overrides \cup Environs \cup Dotenvs \subseteq [Leaves -> Values]
  /\ (EnvWholes \cup DotenvWholes) \ {Malformed} \subseteq [Leaves -> Values]
  /\ Bares \subseteq [Fields -> Values]
  /\ EnvStrays \cup DotenvStrays \subseteq SUBSET Strays

VARIABLES
  init,         \* keyword arguments of Settings()
  env,          \* KNOWHUB_ variables of the process that name leaves
  bare,         \* variables of the process that have the bare name of a field
  envStrays,    \* the other variables of the process
  dotenv,       \* lines of .env that name leaves
  envWhole,     \* variables of the process that name sections
  dotenvWhole,  \* lines of .env that name sections
  dotenvStrays, \* the other lines of .env
  outcome       \* Unread; what went wrong; or the settings

inputVars    == <<init, env, envWhole, bare, envStrays, dotenv, dotenvWhole, dotenvStrays>>
settingsVars == <<inputVars, outcome>>

Unread               == [kind |-> "unread"]
Failed(stage, names) == [kind |-> "error", at |-> stage, offenders |-> names]
Raised               == [kind |-> "raised"]  \* another exception
Loaded(vals)         == [kind |-> "settings", values |-> vals]

SettingsInit ==
  /\ init \in Overrides /\ env \in Environs /\ dotenv \in Dotenvs
  /\ envWhole \in EnvWholes /\ dotenvWhole \in DotenvWholes
  /\ bare \in Bares
  /\ envStrays \in EnvStrays /\ dotenvStrays \in DotenvStrays
  /\ outcome = Unread

-----------------------------------------------------------------------------
\* _reject_unknown_namespace_keys reads the process environment only.
UnknownInEnviron == envStrays \cap Owned

\* What the dotenv source hands on although no field takes it; extra="forbid"
\* turns each into an error.  A name that begins with a section's counts as taken.
ForbiddenInDotenv == dotenvStrays \ {"lookalike"}

First(a, b) == IF a # Unset THEN a ELSE b

\* Mutant: .env overrides the process environment.
GivenDotenvFirst(l) ==
  First(init[l], First(First(dotenv[l], dotenvWhole[l]), First(env[l], envWhole[l])))

\* settings_customise_sources, the first to supply a leaf wins.  Sources are
\* merged leaf by leaf, not section by section; in a source, a leaf's own
\* variable goes before the section's.
Given(l) == First(init[l], First(First(env[l], envWhole[l]), First(dotenv[l], dotenvWhole[l])))

\* A section is a BaseSettings of its own, without a prefix: what it is not given
\* it looks up in the environment by the bare name of the field.
OwnLookup(l) == IF l[1] = "root" THEN Unset ELSE bare[l[2]]

Effective(l) == First(Given(l), First(OwnLookup(l), Default[l]))

\* Mutant: the floors of the root model only.
WeakerRootOnly(l, v) == l[1] = "root" /\ Floors[l] = "high" /\ v = "low"

\* enforce_mandatory_floors: a value below the floor; where Python cannot order
\* the two, any other value.
Weaker(l, v) ==
  /\ Floors[l] # Unset
  /\ IF {v, Floors[l]} \subseteq {"low", "high"} THEN v = "low" /\ Floors[l] = "high"
                                                  ELSE v # Floors[l]

\* Mutant: the unparsable values are reported, the absent ones forgotten.
FieldErrorsUnparsable == {l \in Leaves : Effective(l) = "bad"}

\* What validation of the fields reports, and when that is nothing, the floors.
FieldErrors == {l \in Leaves : Effective(l) \in {"bad", Unset}}
FloorErrors == {l \in Leaves : Weaker(l, Effective(l))}

\* A section's variable is decoded while the sources are read.
Undecodable == Malformed \in {envWhole, dotenvWhole}

In(source, strays) == {<<source, k>> : k \in strays}

\* Mutant: extra="forbid" is trusted to find the misspelled variables.
OutcomesUnguarded ==
  IF Undecodable THEN {Raised}
  ELSE IF FieldErrors # {} \/ ForbiddenInDotenv # {}
  THEN {Failed("fields", FieldErrors \cup In(".env", ForbiddenInDotenv))}
  ELSE IF FloorErrors # {} THEN {Failed("floors", {l}) : l \in FloorErrors}
  ELSE {Loaded([l \in Leaves |-> Effective(l)])}

\* _load: the sources are read first, and what they raise (pydantic-settings'
\* SettingsError) is no ValidationError and passes through; the namespace is
\* checked before the fields, the floors after them, and the first leaf below its
\* floor ends the search.
Outcomes ==
  IF Undecodable THEN {Raised}
  ELSE IF UnknownInEnviron # {} THEN {Failed("namespace", In("environ", UnknownInEnviron))}
  ELSE IF FieldErrors # {} \/ ForbiddenInDotenv # {}
  THEN {Failed("fields", FieldErrors \cup In(".env", ForbiddenInDotenv))}
  ELSE IF FloorErrors # {} THEN {Failed("floors", {l}) : l \in FloorErrors}
  ELSE {Loaded([l \in Leaves |-> Effective(l)])}

Load ==
  /\ outcome = Unread
  /\ outcome' \in Outcomes
  /\ UNCHANGED inputVars

SettingsSpec == SettingsInit /\ [][Load]_settingsVars

-----------------------------------------------------------------------------
(***************************************************************************)
(* The reference: what the module's documentation says of a load.          *)
(***************************************************************************)

\* "Each overriding the one above", read from the narrowest.
Layers == <<init, env, envWhole, dotenv, dotenvWhole, Default>>

Documented(l) ==
  LET supplying == {k \in 1 .. Len(Layers) : Layers[k][l] # Unset}
  IN  IF supplying = {} THEN Unset ELSE Layers[Min(supplying)][l]

Misspelled == (envStrays \cup dotenvStrays) \cap Owned

\* A control is as strict as its floor: the floor itself, or above it.
StrictEnough(l, v) == Floors[l] \in {Unset, v} \/ (Floors[l] = "low" /\ v = "high")

Acceptable ==
  /\ Malformed \notin {envWhole, dotenvWhole}
  /\ \A l \in Leaves : /\ Documented(l) \notin {"bad", Unset}
                       /\ StrictEnough(l, Documented(l))

\* Every outcome has one of the four shapes.
SettingsTypeOK ==
  \/ outcome \in {Unread, Raised}
  \/ outcome.kind = "settings" /\ outcome.values \in [Leaves -> Values \ {Unset, "bad"}]
  \/ outcome.kind = "error" /\ outcome.at \in {"namespace", "fields", "floors"}
                            /\ outcome.offenders # {}

\* What an error has to name: every misspelled variable, or every leaf without a
\* value it can take and every misspelled line of .env, or a leaf below its floor.
NamesEach(stage, names) ==
  \/ stage = "namespace" /\ names = In("environ", envStrays \cap Owned)
  \/ /\ stage = "fields"
     /\ names = {l \in Leaves : Documented(l) \in {"bad", Unset}}
                \cup In(".env", dotenvStrays \cap Owned)
  \/ /\ stage = "floors"
     /\ \E l \in Leaves : ~StrictEnough(l, Documented(l)) /\ names = {l}

\* A load that ends succeeds exactly when no name is misspelled and every leaf
\* has an acceptable value, and then every leaf has the value of the narrowest
\* source that supplies it: also when two sources supply parts of one section.
\* One that fails is a ConfigurationError that "names each offending setting", of
\* the first stage that found any; only a section that is not JSON raises
\* something else.
LoadsAsDocumented ==
  outcome # Unread =>
    IF Misspelled = {} /\ Acceptable
    THEN outcome = Loaded([l \in Leaves |-> Documented(l)])
    ELSE \/ outcome = Raised /\ Malformed \in {envWhole, dotenvWhole}
         \/ outcome.kind = "error" /\ NamesEach(outcome.at, outcome.offenders)

\* "Everything outside the namespace is ignored, never rejected": what the
\* namespace says and nothing else decides a load.
OutsideIgnored ==
  outcome # Unread /\ Misspelled = {} /\ Acceptable =>
    outcome = Loaded([l \in Leaves |-> Documented(l)])

\* "A misspelled KnowHub setting must not be silently ignored."
MisspelledNeverIgnored == Misspelled # {} => outcome.kind # "settings"

\* "Raises ConfigurationError if configuration is missing or invalid": no load
\* ends in another exception, whatever the environment and .env hold.
FailsAsConfigurationError == outcome.kind # "raised"
=============================================================================
