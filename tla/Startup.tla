------------------------------ MODULE Startup ------------------------------
(***************************************************************************)
(* How the commands run, benchmark and serve come by their settings:       *)
(* state.New, then the config file field by field, then the flags, then    *)
(* the MQTT default that --edm brings; and what the domain list and the    *)
(* key directory are taken from.  A value is named by where it came from.  *)
(***************************************************************************)
EXTENDS Naturals, FiniteSets, Sequences, SequencesExt

CONSTANTS MaxFlags     \* bound on the flags given on one command line

ASSUME StartupAssumption == MaxFlags \in Nat

Commands == {"run", "benchmark", "serve"}

\* The settings of State.  "mix" stands for the nine weights, "domains" for the
\* path of the domain list and "patterns" for the rest of the nine sections of
\* the generators, which have no flags.
Settings == {"target", "metrics", "interval", "qps", "mix",
             "listen", "keysDir", "nodeName", "domains", "patterns"}
FlagsOf(cmd) ==
    Settings \ (CASE cmd = "run" -> {"patterns"}
                  [] cmd = "benchmark" -> {"interval", "qps", "patterns"}
                  [] cmd = "serve" -> {"mix", "patterns"})

\* The fields the config file has, in the order of Apply.
ApplyOrder == <<"target", "metrics", "interval", "qps", "mix", "domains", "patterns">>

\* Where a duration, or the name of a query type, may not parse.
Fallible == {"interval", "patterns"}

Values == {"", "builtin", "default", "config", "flag", "edm"}

\* state.New; State.MQTT and DomainsPath are left at their zero values.
Builtin(s) == IF s \in {"listen", "keysDir", "nodeName", "domains"} THEN "" ELSE "builtin"

VARIABLES
    cmd, flags, noListen, edm, env,  \* the command line and the environment
    given, config, bad,              \* the config file and what is bad in it
    pc, next, st,                    \* the step, the field it is at, the State
    domains                          \* what LoadDomains was called with

input == <<cmd, flags, noListen, edm, env, given, config, bad>>
vars  == <<input, pc, next, st, domains>>

\* The default of a flag; --report-interval has one of its own in serve, and
\* EDM_INPUT and EDM_METRICS_URL change the first two.
FlagDefault(s) ==
    IF s \in {"keysDir", "nodeName"} \/ (s = "interval" /\ cmd = "serve")
                                    \/ (s \in {"target", "metrics"} /\ env)
      THEN "default" ELSE Builtin(s)

\* The value a flag has after fs.Parse; --mqtt-listen may be given as empty.
FlagValue(s) ==
    IF s \notin flags THEN FlagDefault(s)
    ELSE IF s = "listen" /\ noListen THEN "" ELSE "flag"

Init ==
    /\ cmd \in Commands
    /\ flags \in {f \in SUBSET FlagsOf(cmd) : Cardinality(f) <= MaxFlags}
    /\ noListen \in BOOLEAN /\ (noListen => "listen" \in flags)
    /\ edm \in BOOLEAN /\ env \in BOOLEAN
    /\ given \in BOOLEAN
    /\ config \in IF given THEN SUBSET ToSet(ApplyOrder) ELSE {{}}
    /\ bad \in SUBSET (config \cap Fallible)
    /\ pc = "load" /\ next = 1 /\ st = [s \in Settings |-> Builtin(s)] /\ domains = ""

-----------------------------------------------------------------------------
(* Mutants, for the properties to catch; no part of Spec.                  *)

\* the flag's default is taken for a value given
OverlayAll ==
    /\ pc = "overlay"
    /\ st' = [s \in Settings |->
                IF s \in FlagsOf(cmd) \ {"domains"} THEN FlagValue(s) ELSE st[s]]
    /\ pc' = "mqtt"
    /\ UNCHANGED <<input, next, domains>>

\* an empty --mqtt-listen is taken for none
MqttDefaultAlways ==
    /\ pc = "mqtt"
    /\ st' = IF edm /\ st["listen"] = "" THEN [st EXCEPT !["listen"] = "edm"] ELSE st
    /\ pc' = "domains"
    /\ UNCHANGED <<input, next, domains>>

\* Apply runs past the last field
ApplyPastEnd ==
    /\ pc = "apply" /\ next > Len(ApplyOrder)
    /\ next' = next + 1 /\ pc' = "overlay"
    /\ UNCHANGED <<input, st, domains>>

-----------------------------------------------------------------------------
(* The steps.                                                              *)

LoadConfigFile ==
    /\ pc = "load"
    /\ pc' = IF given THEN "apply" ELSE "overlay"
    /\ UNCHANGED <<input, next, st, domains>>

\* No such file, no JSON or an unknown field: die.
LoadConfigFails ==
    /\ pc = "load" /\ given /\ pc' = "died"
    /\ UNCHANGED <<input, next, st, domains>>

\* Apply: what the file does not mention stays as it is; an entry that does not
\* parse ends it there, with what came before already stored.
Apply ==
    /\ pc = "apply" /\ next <= Len(ApplyOrder)
    /\ LET s == ApplyOrder[next] IN
         IF s \in bad
           THEN pc' = "died" /\ UNCHANGED <<next, st>>
           ELSE /\ st' = IF s \in config THEN [st EXCEPT ![s] = "config"] ELSE st
                /\ next' = next + 1
                /\ UNCHANGED pc
    /\ UNCHANGED <<input, domains>>

Applied ==
    /\ pc = "apply" /\ next > Len(ApplyOrder)
    /\ pc' = "overlay"
    /\ UNCHANGED <<input, next, st, domains>>

\* if set[name] || *configPath == "" { ... }, overlayMix among them.  The
\* domain list has no such line.
Overlay ==
    /\ pc = "overlay"
    /\ st' = [s \in Settings |->
                IF s \in FlagsOf(cmd) \ {"domains"} /\ (s \in flags \/ ~given)
                  THEN FlagValue(s) ELSE st[s]]
    /\ pc' = "mqtt"
    /\ UNCHANGED <<input, next, domains>>

\* defaultMQTTListen: --edm turns the broker on unless the flag was given.
MqttDefault ==
    /\ pc = "mqtt"
    /\ st' = IF edm /\ "listen" \notin flags /\ st["listen"] = ""
               THEN [st EXCEPT !["listen"] = "edm"] ELSE st
    /\ pc' = "domains"
    /\ UNCHANGED <<input, next, domains>>

\* pattern.LoadDomains(*domains)
LoadDomains ==
    /\ pc = "domains"
    /\ domains' = FlagValue("domains")
    /\ pc' = "startMQTT"
    /\ UNCHANGED <<input, next, st>>

LoadDomainsFails ==
    /\ pc = "domains" /\ FlagValue("domains") # "" /\ pc' = "died"
    /\ UNCHANGED <<input, next, st, domains>>

\* startMQTT: the broker is wanted, and there must be a directory for its keys:
\* os.MkdirAll of an empty path fails.
StartMQTT ==
    /\ pc = "startMQTT"
    /\ pc' = IF st["listen"] # "" /\ st["keysDir"] = "" THEN "died" ELSE "ready"
    /\ UNCHANGED <<input, next, st, domains>>

Next == \/ LoadConfigFile \/ LoadConfigFails \/ Apply \/ Applied \/ Overlay
        \/ MqttDefault \/ LoadDomains \/ LoadDomainsFails \/ StartMQTT

Spec == Init /\ [][Next]_vars

-----------------------------------------------------------------------------
(* Properties.                                                             *)

TypeOK ==
    /\ cmd \in Commands /\ flags \subseteq FlagsOf(cmd) /\ noListen \in BOOLEAN
    /\ edm \in BOOLEAN /\ env \in BOOLEAN /\ given \in BOOLEAN
    /\ config \subseteq ToSet(ApplyOrder) /\ bad \subseteq Fallible
    /\ pc \in {"load", "apply", "overlay", "mqtt", "domains", "startMQTT", "ready", "died"}
    /\ next \in 1 .. Len(ApplyOrder) + 1
    /\ st \in [Settings -> Values] /\ domains \in Values

\* Where the broker's address comes from is settled before; --edm is a default.
Settled == pc \in {"startMQTT", "ready"}

\* A flag on the command line is never overridden: not by the config file and
\* not by what --edm brings, `--mqtt-listen=` included (README.md:51-52).
FlagsWin ==
    Settled => \A s \in flags \ {"domains"} : st[s] = FlagValue(s)

\* What the config file says and no flag contradicts is what is used; a file with
\* an entry that does not parse never gets the program past Apply.
ConfigHolds ==
    Settled => /\ \A s \in config \ (flags \cup {"domains"}) : st[s] = "config"
               /\ bad = {}

\* README.md:226: "flag defaults < config file < explicit flags": what neither
\* the file nor the command line mentions has the flag's default.
DefaultsHold ==
    Settled => \A s \in FlagsOf(cmd) \ (flags \cup config \cup {"listen"}) :
                 st[s] = FlagDefault(s)

\* README.md:279-281: the DAWG is "consumed by ... the load-gen
\* (--well-known-source flag, or background.domains_path in JSON config)".
DomainsPathHolds ==
    pc = "ready" /\ "domains" \in config \ flags => domains = st["domains"]
=============================================================================
