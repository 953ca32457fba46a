------------------------------- MODULE MCSettings -------------------------------
(* Values for the constants of Settings.  The leaves are a required one without
   an order, two that share the bare name PORT, and one of the root model. *)
EXTENDS Settings

Password  == <<"database", "password_ref">>
DbPort    == <<"database", "port">>
RedisPort == <<"redis", "port">>
Service   == <<"root", "service_name">>

MCLeaves   == {Password, DbPort, RedisPort, Service}
MCRequired == {Password}
MCDefault  == [l \in MCLeaves |-> IF l = Password THEN Unset ELSE "low"]
MCValues   == {"low", "high", "other", "bad", Unset}

NoValue  == [l \in MCLeaves |-> Unset]
NoFloors == NoValue
WithFloors == [NoValue EXCEPT ![RedisPort] = "high", ![Service] = "other"]

\* One source may hold any value of the ports and the password, the other two
\* values of every leaf.
AllEnvirons == {[NoValue EXCEPT ![Password] = p, ![DbPort] = d, ![RedisPort] = r, ![Service] = s] :
                  p \in {"other", "bad", Unset}, d \in {"high", "bad", Unset},
                  r \in {"low", "high", Unset}, s \in {"other", Unset}}
AllDotenvs  == {[NoValue EXCEPT ![Password] = p, ![DbPort] = d, ![RedisPort] = r] :
                  p \in {"other", Unset}, d \in {"low", "bad", Unset},
                  r \in {"high", "other", Unset}}
AllOverrides == {NoValue, [NoValue EXCEPT ![DbPort] = "other"]}

\* Sections written whole, over and under the leaves' own variables.
NoWholes     == {NoValue}
AllEnvWholes == {NoValue, [NoValue EXCEPT ![Password] = "high", ![DbPort] = "other"], Malformed}
AllDotenvWholes == {NoValue, [NoValue EXCEPT ![DbPort] = "high", ![RedisPort] = "low"], Malformed}

NoBares  == {[f \in Fields |-> Unset]}
\* A host's PORT that is no port number.
PortBare == {[f \in Fields |-> IF f = "port" THEN v ELSE Unset] : v \in {"bad", Unset}}

NoStrays     == {{}}
EnvironOnly  == SUBSET Strays
UnknownOnly  == {{}, {"unknown"}}
ForeignOnly  == {{}, {"foreign"}}
LookalikeOnly == {{}, {"lookalike"}}
=============================================================================
