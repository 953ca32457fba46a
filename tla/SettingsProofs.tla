----------------------------- MODULE SettingsProofs -----------------------------
(***************************************************************************)
(* Theorems about module Settings, for every set of leaves, every default  *)
(* and floor, and whatever the sources may supply.                         *)
(***************************************************************************)
EXTENDS Settings, TLAPS

USE SettingsAssumption DEF SettingsAssumption

-----------------------------------------------------------------------------
\* The inputs of a load never change, and it ends in one of its outcomes.
Inputs ==
  /\ init \in Overrides /\ env \in Environs /\ dotenv \in Dotenvs
  /\ envWhole \in EnvWholes /\ dotenvWhole \in DotenvWholes
  /\ bare \in Bares
  /\ envStrays \in EnvStrays /\ dotenvStrays \in DotenvStrays

SettingsInv == Inputs /\ outcome \in {Unread} \cup Outcomes

LEMMA SettingsInvariant == SettingsSpec => []SettingsInv
<1>1. SettingsInit => SettingsInv
  BY DEF SettingsInit, SettingsInv, Inputs
<1>2. SettingsInv /\ [Load]_settingsVars => SettingsInv'
  <2> SUFFICES ASSUME SettingsInv, [Load]_settingsVars PROVE SettingsInv'
    OBVIOUS
  <2>1. UNCHANGED inputVars
    BY DEF Load, settingsVars
  <2>2. Outcomes' = Outcomes /\ Inputs'
    <3>1. \A l \in Leaves : Effective(l)' = Effective(l)
      BY <2>1 DEF inputVars, Effective, Given, OwnLookup
    <3>2. FieldErrors' = FieldErrors /\ FloorErrors' = FloorErrors
      BY <3>1 DEF FieldErrors, FloorErrors
    <3>3. [l \in Leaves |-> Effective(l)]' = [l \in Leaves |-> Effective(l)]
      BY <3>1
    <3>4. /\ Undecodable' = Undecodable /\ UnknownInEnviron' = UnknownInEnviron
          /\ ForbiddenInDotenv' = ForbiddenInDotenv
      BY <2>1 DEF inputVars, Undecodable, UnknownInEnviron, ForbiddenInDotenv
    <3>5. Inputs'
      BY <2>1 DEF inputVars, SettingsInv, Inputs
    <3> QED BY <3>2, <3>3, <3>4, <3>5 DEF Outcomes
  <2>3. outcome' \in {Unread} \cup Outcomes
    BY DEF SettingsInv, Load, settingsVars
  <2> QED BY <2>2, <2>3 DEF SettingsInv
<1> QED BY <1>1, <1>2, PTL DEF SettingsSpec

-----------------------------------------------------------------------------
\* What the sources supply for a leaf is a value, once the sections are decoded.
LEMMA EffectiveType ==
  ASSUME Inputs, ~Undecodable, NEW l \in Leaves
  PROVE  Effective(l) \in Values
<1>1. /\ init[l] \in Values /\ env[l] \in Values /\ dotenv[l] \in Values
      /\ envWhole[l] \in Values /\ dotenvWhole[l] \in Values
  <2>1. {init, env, dotenv, envWhole, dotenvWhole} \subseteq [Leaves -> Values]
    BY DEF Inputs, Undecodable
  <2> QED BY <2>1
<1>2. bare[l[2]] \in Values
  BY DEF Inputs, Fields
<1>3. Default[l] \in Values
  OBVIOUS
<1> QED BY <1>1, <1>2, <1>3 DEF Effective, Given, OwnLookup, First

\* A name found in a source is reported for it.
LEMMA InNonempty ==
  ASSUME NEW source, NEW strays, strays # {}
  PROVE  In(source, strays) # {}
<1>1. PICK k : k \in strays
  OBVIOUS
<1>2. <<source, k>> \in In(source, strays)
  BY <1>1 DEF In
<1> QED BY <1>2

\* Type correctness: a failure names what is wrong, and settings that load have a
\* parsed value for every leaf.
THEOREM SettingsTypeCorrect == SettingsSpec => []SettingsTypeOK
<1>1. SettingsInv => SettingsTypeOK
  <2> SUFFICES ASSUME Inputs, outcome \in Outcomes PROVE SettingsTypeOK
    BY DEF SettingsInv, SettingsTypeOK
  <2>1. CASE Undecodable
    BY <2>1 DEF Outcomes, SettingsTypeOK
  <2>2. CASE ~Undecodable /\ UnknownInEnviron # {}
    <3>1. outcome = Failed("namespace", In("environ", UnknownInEnviron))
      BY <2>2 DEF Outcomes
    <3>2. In("environ", UnknownInEnviron) # {}
      BY <2>2, InNonempty
    <3> QED BY <3>1, <3>2 DEF Failed, SettingsTypeOK
  <2>3. CASE /\ ~Undecodable /\ UnknownInEnviron = {}
             /\ FieldErrors # {} \/ ForbiddenInDotenv # {}
    <3>1. outcome = Failed("fields", FieldErrors \cup In(".env", ForbiddenInDotenv))
      BY <2>3 DEF Outcomes
    <3>2. FieldErrors \cup In(".env", ForbiddenInDotenv) # {}
      BY <2>3, InNonempty
    <3> QED BY <3>1, <3>2 DEF Failed, SettingsTypeOK
  <2>4. CASE /\ ~Undecodable /\ UnknownInEnviron = {}
             /\ FieldErrors = {} /\ ForbiddenInDotenv = {} /\ FloorErrors # {}
    <3>1. \E l \in FloorErrors : outcome = Failed("floors", {l})
      <4>1. outcome \in {Failed("floors", {l}) : l \in FloorErrors}
        BY <2>4, Zenon DEF Outcomes
      <4> QED BY <4>1
    <3> QED BY <3>1 DEF Failed, SettingsTypeOK
  <2>5. CASE /\ ~Undecodable /\ UnknownInEnviron = {}
             /\ FieldErrors = {} /\ ForbiddenInDotenv = {} /\ FloorErrors = {}
    <3>1. outcome = Loaded([l \in Leaves |-> Effective(l)])
      BY <2>5 DEF Outcomes
    <3>2. \A l \in Leaves : Effective(l) \in Values \ {Unset, "bad"}
      BY <2>5, EffectiveType DEF FieldErrors
    <3>3. [l \in Leaves |-> Effective(l)] \in [Leaves -> Values \ {Unset, "bad"}]
      BY <3>2
    <3> QED BY <3>1, <3>3 DEF Loaded, SettingsTypeOK
  <2> QED BY <2>1, <2>2, <2>3, <2>4, <2>5
<1> QED BY <1>1, SettingsInvariant, PTL

-----------------------------------------------------------------------------
(***************************************************************************)
(* The load against what the module documents.                             *)
(***************************************************************************)
\* The least element of a set of layers.
LEMMA MinIs ==
  ASSUME NEW S \in SUBSET Nat, NEW k \in S, \A j \in S : k <= j
  PROVE  Min(S) = k
<1>1. \E x \in S : \A y \in S : x <= y
  OBVIOUS
<1>2. Min(S) \in S /\ \A y \in S : Min(S) <= y
  BY <1>1, Zenon DEF Min
<1>3. Min(S) \in Nat /\ k \in Nat /\ Min(S) <= k /\ k <= Min(S)
  BY <1>2
<1> QED BY <1>3

\* Where no bare name of a field is set, settings_customise_sources gives a leaf
\* the value of the narrowest layer that supplies it.
LEMMA EffectiveIsDocumented ==
  ASSUME NEW l \in Leaves, OwnLookup(l) = Unset
  PROVE  Effective(l) = Documented(l)
<1> DEFINE supplying == {k \in 1 .. Len(Layers) : Layers[k][l] # Unset}
           Leads(k) == k \in supplying /\ \A j \in 1 .. (k - 1) : Layers[j][l] = Unset
<1>1. /\ Len(Layers) = 6
      /\ Layers[1] = init /\ Layers[2] = env /\ Layers[3] = envWhole
      /\ Layers[4] = dotenv /\ Layers[5] = dotenvWhole /\ Layers[6] = Default
  BY DEF Layers
<1>2. ASSUME NEW k \in 1 .. 6, Leads(k) PROVE Documented(l) = Layers[k][l]
  <2>1. supplying \in SUBSET Nat /\ k \in supplying
    BY <1>1, <1>2
  <2>2. \A j \in supplying : k <= j
    BY <1>1, <1>2
  <2>3. Min(supplying) = k
    BY <2>1, <2>2, MinIs
  <2> QED BY <2>1, <2>3 DEF Documented
<1>3. CASE init[l] # Unset
  <2>1. Leads(1)
    BY <1>1, <1>3
  <2> QED BY <1>1, <1>2, <1>3, <2>1 DEF Effective, Given, First
<1>4. CASE init[l] = Unset /\ env[l] # Unset
  <2>1. Leads(2)
    BY <1>1, <1>4
  <2> QED BY <1>1, <1>2, <1>4, <2>1 DEF Effective, Given, First
<1>5. CASE init[l] = Unset /\ env[l] = Unset /\ envWhole[l] # Unset
  <2>1. Leads(3)
    BY <1>1, <1>5
  <2> QED BY <1>1, <1>2, <1>5, <2>1 DEF Effective, Given, First
<1>6. CASE init[l] = Unset /\ env[l] = Unset /\ envWhole[l] = Unset /\ dotenv[l] # Unset
  <2>1. Leads(4)
    BY <1>1, <1>6
  <2> QED BY <1>1, <1>2, <1>6, <2>1 DEF Effective, Given, First
<1>7. CASE /\ init[l] = Unset /\ env[l] = Unset /\ envWhole[l] = Unset
           /\ dotenv[l] = Unset /\ dotenvWhole[l] # Unset
  <2>1. Leads(5)
    BY <1>1, <1>7
  <2> QED BY <1>1, <1>2, <1>7, <2>1 DEF Effective, Given, First
<1>8. CASE /\ init[l] = Unset /\ env[l] = Unset /\ envWhole[l] = Unset
           /\ dotenv[l] = Unset /\ dotenvWhole[l] = Unset
  <2>1. Effective(l) = Default[l]
    BY <1>8 DEF Effective, Given, First
  <2>2. CASE Default[l] # Unset
    <3>1. Leads(6)
      BY <1>1, <1>8, <2>2
    <3> QED BY <1>1, <1>2, <2>1, <3>1
  <2>3. CASE Default[l] = Unset
    <3>1. supplying = {}
      BY <1>1, <1>8, <2>3
    <3> QED BY <2>1, <2>3, <3>1 DEF Documented
  <2> QED BY <2>2, <2>3
<1> QED BY <1>3, <1>4, <1>5, <1>6, <1>7, <1>8

\* A value passes enforce_mandatory_floors exactly when it is as strict as the
\* floor of its leaf.
LEMMA FloorIsStrictness ==
  ASSUME NEW l \in Leaves, NEW v
  PROVE  ~Weaker(l, v) <=> StrictEnough(l, v)
  BY DEF Weaker, StrictEnough

\* A load succeeds exactly when no name is misspelled and every leaf has an
\* acceptable value, and then every leaf has the value of the narrowest source;
\* when it fails, it names each setting that its first failing stage rejects.
\* Two things must be left out, and the runs show what each does: the bare name
\* of a field in the environment, and lines of .env outside the namespace or
\* beginning with the name of a section.
THEOREM LoadsAsDocumentedHolds ==
  ASSUME \A b \in Bares : \A f \in Fields : b[f] = Unset,
         \A d \in DotenvStrays : d \subseteq {"unknown"}
  PROVE  SettingsSpec => []LoadsAsDocumented
<1>1. SettingsInv => LoadsAsDocumented
  <2> SUFFICES ASSUME Inputs, outcome \in Outcomes PROVE LoadsAsDocumented
    BY DEF SettingsInv, LoadsAsDocumented
  <2>1. \A l \in Leaves : Effective(l) = Documented(l)
    <3>1. \A l \in Leaves : OwnLookup(l) = Unset
      BY DEF Inputs, OwnLookup, Fields
    <3> QED BY <3>1, EffectiveIsDocumented
  <2>2. Misspelled = {} <=> UnknownInEnviron = {} /\ ForbiddenInDotenv = {}
    BY DEF Inputs, Misspelled, UnknownInEnviron, ForbiddenInDotenv, Owned
  <2>3. Acceptable <=> ~Undecodable /\ FieldErrors = {} /\ FloorErrors = {}
    BY <2>1, FloorIsStrictness DEF Acceptable, Undecodable, FieldErrors, FloorErrors
  <2>4. CASE Misspelled = {} /\ Acceptable
    <3>1. outcome = Loaded([l \in Leaves |-> Effective(l)])
      BY <2>2, <2>3, <2>4 DEF Outcomes
    <3>2. [l \in Leaves |-> Effective(l)] = [l \in Leaves |-> Documented(l)]
      BY <2>1
    <3> QED BY <2>4, <3>1, <3>2 DEF LoadsAsDocumented
  <2>5. CASE ~(Misspelled = {} /\ Acceptable)
    <3>1. CASE Undecodable
      BY <2>5, <3>1 DEF Outcomes, Undecodable, LoadsAsDocumented
    <3>2. ASSUME NEW stage, NEW names, outcome = Failed(stage, names),
                 NamesEach(stage, names)
          PROVE  LoadsAsDocumented
      BY <2>5, <3>2 DEF Failed, LoadsAsDocumented
    <3>3. CASE ~Undecodable /\ UnknownInEnviron # {}
      <4>1. outcome = Failed("namespace", In("environ", UnknownInEnviron))
        BY <3>3 DEF Outcomes
      <4> QED BY <3>2, <4>1 DEF NamesEach, UnknownInEnviron
    <3>4. CASE /\ ~Undecodable /\ UnknownInEnviron = {}
               /\ FieldErrors # {} \/ ForbiddenInDotenv # {}
      <4>1. outcome = Failed("fields", FieldErrors \cup In(".env", ForbiddenInDotenv))
        BY <3>4 DEF Outcomes
      <4>2. FieldErrors = {l \in Leaves : Documented(l) \in {"bad", Unset}}
        BY <2>1 DEF FieldErrors
      <4>3. ForbiddenInDotenv = dotenvStrays \cap Owned
        BY DEF Inputs, ForbiddenInDotenv, Owned
      <4> QED BY <3>2, <4>1, <4>2, <4>3 DEF NamesEach
    <3>5. CASE /\ ~Undecodable /\ UnknownInEnviron = {}
               /\ FieldErrors = {} /\ ForbiddenInDotenv = {}
      <4>1. FloorErrors # {}
        BY <2>2, <2>3, <2>5, <3>5
      <4>2. outcome \in {Failed("floors", {l}) : l \in FloorErrors}
        BY <3>5, <4>1, Zenon DEF Outcomes
      <4>3. PICK l \in FloorErrors : outcome = Failed("floors", {l})
        BY <4>2
      <4>4. l \in Leaves /\ ~StrictEnough(l, Documented(l))
        BY <2>1, FloorIsStrictness DEF FloorErrors
      <4>5. NamesEach("floors", {l})
        BY <4>4 DEF NamesEach
      <4> QED BY <3>2, <4>3, <4>5
    <3> QED BY <3>1, <3>3, <3>4, <3>5
  <2> QED BY <2>4, <2>5
<1> QED BY <1>1, SettingsInvariant, PTL

-----------------------------------------------------------------------------
\* "A misspelled KnowHub setting must not be silently ignored": the only one that
\* is, is a line of .env whose name begins with the name of a section.
THEOREM MisspelledOtherwiseNeverIgnored ==
  ASSUME \A d \in DotenvStrays : "lookalike" \notin d
  PROVE  SettingsSpec => []MisspelledNeverIgnored
<1>1. SettingsInv => MisspelledNeverIgnored
  <2> SUFFICES ASSUME SettingsInv, outcome.kind = "settings" PROVE Misspelled = {}
    BY DEF MisspelledNeverIgnored
  <2>1. outcome \in Outcomes
    BY DEF SettingsInv, Unread
  <2>2. UnknownInEnviron = {} /\ ForbiddenInDotenv = {}
    <3>1. Raised.kind # "settings" /\ \A at, names : Failed(at, names).kind # "settings"
      BY DEF Raised, Failed
    <3> QED BY <2>1, <3>1 DEF Outcomes
  <2>3. "lookalike" \notin dotenvStrays
    BY DEF SettingsInv, Inputs
  <2> QED BY <2>2, <2>3 DEF Misspelled, UnknownInEnviron, ForbiddenInDotenv, Owned
<1> QED BY <1>1, SettingsInvariant, PTL

\* "Raises ConfigurationError if configuration is missing or invalid": the only
\* other exception is that of a section written as something that is not JSON.
THEOREM FailsAsConfigurationErrorOtherwise ==
  ASSUME Malformed \notin EnvWholes \cup DotenvWholes
  PROVE  SettingsSpec => []FailsAsConfigurationError
<1>1. SettingsInv => FailsAsConfigurationError
  <2> SUFFICES ASSUME SettingsInv PROVE outcome.kind # "raised"
    BY DEF FailsAsConfigurationError
  <2>1. ~Undecodable
    BY DEF SettingsInv, Inputs, Undecodable
  <2>2. CASE outcome = Unread
    BY <2>2 DEF Unread
  <2>3. CASE outcome \in Outcomes
    <3>1. /\ \A at, names : Failed(at, names).kind # "raised"
          /\ \A vals : Loaded(vals).kind # "raised"
      BY DEF Failed, Loaded
    <3> QED BY <2>1, <2>3, <3>1 DEF Outcomes
  <2> QED BY <2>2, <2>3 DEF SettingsInv
<1> QED BY <1>1, SettingsInvariant, PTL

\* "Everything outside the namespace is ignored, never rejected": it is, but for
\* two things, the bare name of a field and a line of .env that is not KnowHub's.
THEOREM OutsideIgnoredOtherwise ==
  ASSUME \A b \in Bares : \A f \in Fields : b[f] = Unset,
         \A d \in DotenvStrays : d \subseteq Owned
  PROVE  SettingsSpec => []OutsideIgnored
<1>1. SettingsInv => OutsideIgnored
  <2> SUFFICES ASSUME SettingsInv, outcome # Unread, Misspelled = {}, Acceptable
               PROVE  outcome = Loaded([l \in Leaves |-> Documented(l)])
    BY DEF OutsideIgnored
  <2>1. \A l \in Leaves : Effective(l) = Documented(l)
    <3>1. \A l \in Leaves : OwnLookup(l) = Unset
      BY DEF SettingsInv, Inputs, OwnLookup, Fields
    <3> QED BY <3>1, EffectiveIsDocumented
  <2>2. UnknownInEnviron = {} /\ ForbiddenInDotenv = {}
    BY DEF SettingsInv, Inputs, Misspelled, UnknownInEnviron, ForbiddenInDotenv, Owned
  <2>3. ~Undecodable /\ FieldErrors = {} /\ FloorErrors = {}
    BY <2>1, FloorIsStrictness DEF Acceptable, Undecodable, FieldErrors, FloorErrors
  <2>4. outcome = Loaded([l \in Leaves |-> Effective(l)])
    BY <2>2, <2>3 DEF SettingsInv, Outcomes
  <2>5. [l \in Leaves |-> Effective(l)] = [l \in Leaves |-> Documented(l)]
    BY <2>1
  <2> QED BY <2>4, <2>5
<1> QED BY <1>1, SettingsInvariant, PTL
=============================================================================
