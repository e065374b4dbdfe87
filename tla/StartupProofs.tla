--------------------------- MODULE StartupProofs ---------------------------
(***************************************************************************)
(* Theorems about Startup, for every command line, with any number of      *)
(* flags, and every config file.                                           *)
(***************************************************************************)
EXTENDS Startup, TLAPS

\* The inputs are those of Init all along.
InputTyped ==
    /\ cmd \in Commands /\ flags \subseteq FlagsOf(cmd) /\ noListen \in BOOLEAN
    /\ edm \in BOOLEAN /\ env \in BOOLEAN /\ given \in BOOLEAN
    /\ config \subseteq ToSet(ApplyOrder) /\ bad \subseteq config \cap Fallible
    /\ ~given => config = {}

StateTyped ==
    /\ pc \in {"load", "apply", "overlay", "mqtt", "domains", "startMQTT", "ready", "died"}
    /\ next \in 1 .. Len(ApplyOrder) + 1
    /\ st \in [Settings -> Values] /\ domains \in Values

\* Apply is done with the fields before the next one.
Applying ==
    /\ pc = "load" => next = 1
    /\ pc \in {"load", "apply"} =>
         \A j \in 1 .. Len(ApplyOrder) :
            j < next => /\ ApplyOrder[j] \in config => st[ApplyOrder[j]] = "config"
                        /\ ApplyOrder[j] \notin bad

\* What is left of the file, and what the flags have done, from Overlay on.
Overlaid == {"mqtt", "domains", "startMQTT", "ready"}
Kept ==
    /\ pc = "overlay" => bad = {} /\ \A s \in config : st[s] = "config"
    /\ pc \in Overlaid => /\ bad = {}
                          /\ \A s \in config \ (flags \cup {"domains"}) : st[s] = "config"
                          /\ \A s \in flags \ {"domains"} : st[s] = FlagValue(s)

StartupInv == InputTyped /\ StateTyped /\ Applying /\ Kept

-----------------------------------------------------------------------------
\* The fields of the file, by their place in Apply.
LEMMA Fields ==
    /\ Len(ApplyOrder) = 7
    /\ ToSet(ApplyOrder) = {"target", "metrics", "interval", "qps", "mix", "domains", "patterns"}
    /\ \A s \in ToSet(ApplyOrder) : s \in Settings /\ \E j \in 1 .. 7 : s = ApplyOrder[j]
    /\ \A j \in 1 .. 7 : ApplyOrder[j] \in ToSet(ApplyOrder)
    /\ "listen" \notin ToSet(ApplyOrder)
<1>1. Len(ApplyOrder) = 7 /\ DOMAIN ApplyOrder = 1 .. 7
  BY DEF ApplyOrder
<1>2. ToSet(ApplyOrder) = {ApplyOrder[j] : j \in 1 .. 7}
  BY <1>1 DEF ToSet
<1>3. /\ ApplyOrder[1] = "target" /\ ApplyOrder[2] = "metrics" /\ ApplyOrder[3] = "interval"
      /\ ApplyOrder[4] = "qps" /\ ApplyOrder[5] = "mix" /\ ApplyOrder[6] = "domains"
      /\ ApplyOrder[7] = "patterns"
  BY DEF ApplyOrder
<1>4. ToSet(ApplyOrder) = {"target", "metrics", "interval", "qps", "mix", "domains", "patterns"}
  BY <1>2, <1>3
<1> QED
  BY <1>1, <1>2, <1>4 DEF Settings

\* The values a flag and a setting can have.
LEMMA FlagValues == ASSUME NEW s \in Settings PROVE Builtin(s) \in Values /\ FlagValue(s) \in Values
BY DEF Builtin, FlagValue, FlagDefault, Values

LEMMA StartupInit == Init => StartupInv
<1> SUFFICES ASSUME Init PROVE StartupInv
  OBVIOUS
<1>1. InputTyped
  BY DEF Init, InputTyped
<1>2. pc = "load" /\ next = 1 /\ st = [s \in Settings |-> Builtin(s)] /\ domains = ""
  BY DEF Init
<1>3. StateTyped
  <2>1. st \in [Settings -> Values]
    BY <1>2, FlagValues
  <2>2. Len(ApplyOrder) = 7
    BY Fields
  <2>3. next \in 1 .. Len(ApplyOrder) + 1
    <3>1. next = 1
      BY <1>2
    <3> QED
      BY <2>2, <3>1
  <2>4. domains \in Values
    BY <1>2 DEF Values
  <2> QED
    BY <1>2, <2>1, <2>3, <2>4 DEF StateTyped
<1>4. Applying
  <2>1. next = 1
    BY <1>2
  <2>2. \A j \in 1 .. Len(ApplyOrder) : ~(j < next)
    BY <2>1
  <2> QED
    BY <2>1, <2>2 DEF Applying
<1>5. Kept
  BY <1>2 DEF Kept, Overlaid
<1> QED
  BY <1>1, <1>3, <1>4, <1>5 DEF StartupInv

\* One field of the file.
LEMMA ApplyKeeps == ASSUME StartupInv, Apply PROVE StartupInv'
<1> DEFINE s == ApplyOrder[next]
<1>1. /\ UNCHANGED <<input, domains>> /\ pc = "apply" /\ next \in 1 .. 7 /\ s \in Settings
  BY Fields DEF Apply, StartupInv, StateTyped
<1>2. InputTyped'
  BY <1>1 DEF StartupInv, InputTyped, input, FlagsOf
<1>3. CASE s \in bad
  <2>1. pc' = "died" /\ next' = next /\ st' = st
    BY <1>3 DEF Apply
  <2> QED
    BY <1>1, <1>2, <2>1 DEF StartupInv, StateTyped, Applying, Kept, Overlaid
<1>4. CASE s \notin bad
  <2>1. /\ pc' = "apply" /\ next' = next + 1
        /\ st' = IF s \in config THEN [st EXCEPT ![s] = "config"] ELSE st
    BY <1>1, <1>4 DEF Apply
  <2>2. /\ st' \in [Settings -> Values]
        /\ s \in config => st'[s] = "config"
        /\ \A q \in Settings : st'[q] = st[q] \/ st'[q] = "config"
    BY <1>1, <2>1 DEF StartupInv, StateTyped, Values
  <2>3. StateTyped'
    BY <1>1, <2>1, <2>2, Fields DEF StartupInv, StateTyped
  <2>4. Applying'
    <3> SUFFICES ASSUME NEW j \in 1 .. 7, j < next + 1
                 PROVE  /\ ApplyOrder[j] \in config => st'[ApplyOrder[j]] = "config"
                        /\ ApplyOrder[j] \notin bad
      BY <1>1, <2>1, Fields DEF Applying, input
    <3>1. CASE j = next
      BY <1>4, <2>2, <3>1
    <3>2. CASE j < next
      BY <1>1, <2>2, <3>2, Fields DEF StartupInv, Applying
    <3> QED
      BY <1>1, <3>1, <3>2
  <2>5. Kept'
    BY <2>1 DEF Kept, Overlaid
  <2> QED
    BY <1>2, <2>3, <2>4, <2>5 DEF StartupInv
<1> QED
  BY <1>3, <1>4

\* The end of Apply: every field was looked at.
LEMMA AppliedKeeps == ASSUME StartupInv, Applied PROVE StartupInv'
<1>1. UNCHANGED <<input, next, st, domains>> /\ pc = "apply" /\ pc' = "overlay" /\ next > 7
  BY Fields DEF Applied
<1>2. \A s \in ToSet(ApplyOrder) : (s \in config => st[s] = "config") /\ s \notin bad
  BY <1>1, Fields DEF StartupInv, Applying, StateTyped
<1>3. bad = {} /\ \A s \in config : st[s] = "config"
  BY <1>2 DEF StartupInv, InputTyped
<1>4. InputTyped' /\ StateTyped' /\ Applying'
  BY <1>1 DEF StartupInv, InputTyped, StateTyped, Applying, input, FlagsOf
<1>5. Kept'
  BY <1>1, <1>3 DEF Kept, Overlaid, input
<1> QED
  BY <1>4, <1>5 DEF StartupInv

\* The flags.
LEMMA OverlayKeeps == ASSUME StartupInv, Overlay PROVE StartupInv'
<1>1. UNCHANGED <<input, next, domains>> /\ pc = "overlay" /\ pc' = "mqtt"
  BY DEF Overlay
<1>2. \A s \in Settings :
         st'[s] = IF s \in FlagsOf(cmd) \ {"domains"} /\ (s \in flags \/ ~given)
                    THEN FlagValue(s) ELSE st[s]
  BY DEF Overlay
<1>3. st' \in [Settings -> Values]
  BY FlagValues DEF Overlay, StartupInv, StateTyped
<1>4. InputTyped' /\ StateTyped' /\ Applying'
  BY <1>1, <1>3 DEF StartupInv, InputTyped, StateTyped, Applying, input, FlagsOf
<1>5. \A s \in Settings : FlagValue(s)' = FlagValue(s)
  BY <1>1 DEF FlagValue, FlagDefault, input
<1>6. flags \subseteq Settings /\ flags \subseteq FlagsOf(cmd)
  BY DEF StartupInv, InputTyped, FlagsOf
<1>7. bad = {} /\ \A s \in config : st[s] = "config" /\ s \in Settings /\ given
  BY <1>1, Fields DEF StartupInv, Kept, InputTyped
<1>8. Kept'
  BY <1>1, <1>2, <1>5, <1>6, <1>7 DEF Kept, Overlaid, input
<1> QED
  BY <1>4, <1>8 DEF StartupInv

\* The default that --edm brings is for a listener nobody asked for.
LEMMA MqttKeeps == ASSUME StartupInv, MqttDefault PROVE StartupInv'
<1>1. UNCHANGED <<input, next, domains>> /\ pc = "mqtt" /\ pc' = "domains"
  BY DEF MqttDefault
<1>2. /\ st' \in [Settings -> Values]
      /\ \A s \in Settings : s # "listen" \/ "listen" \in flags => st'[s] = st[s]
  BY DEF MqttDefault, StartupInv, StateTyped, Values, Settings
<1>3. InputTyped' /\ StateTyped' /\ Applying'
  BY <1>1, <1>2 DEF StartupInv, InputTyped, StateTyped, Applying, input, FlagsOf
<1>4. \A s \in Settings : FlagValue(s)' = FlagValue(s)
  BY <1>1 DEF FlagValue, FlagDefault, input
<1>5. flags \subseteq Settings /\ config \subseteq Settings /\ "listen" \notin config
  BY Fields DEF StartupInv, InputTyped, FlagsOf
<1>6. Kept'
  BY <1>1, <1>2, <1>4, <1>5 DEF StartupInv, Kept, Overlaid, input
<1> QED
  BY <1>3, <1>6 DEF StartupInv

\* The rest changes no setting.
LEMMA RestKeeps ==
    ASSUME StartupInv, LoadConfigFile \/ LoadConfigFails \/ LoadDomains \/ LoadDomainsFails \/ StartMQTT
    PROVE  StartupInv'
<1>1. UNCHANGED <<input, next, st>>
  BY DEF LoadConfigFile, LoadConfigFails, LoadDomains, LoadDomainsFails, StartMQTT
<1>2. domains' \in Values
  BY FlagValues DEF LoadConfigFile, LoadConfigFails, LoadDomains, LoadDomainsFails, StartMQTT,
                    StartupInv, StateTyped, Settings
<1>3. \/ pc = "load" /\ pc' = "apply"
      \/ pc = "load" /\ pc' = "overlay" /\ ~given
      \/ pc' = "died"
      \/ pc \in Overlaid /\ pc' \in Overlaid
  BY DEF LoadConfigFile, LoadConfigFails, LoadDomains, LoadDomainsFails, StartMQTT, Overlaid
<1>4. InputTyped'
  BY <1>1 DEF StartupInv, InputTyped, input, FlagsOf
<1>5. StateTyped'
  BY <1>1, <1>2, <1>3 DEF StartupInv, StateTyped, Overlaid
<1>6. Applying'
  BY <1>1, <1>3 DEF StartupInv, Applying, input, Overlaid
<1>7. \A s \in Settings : FlagValue(s)' = FlagValue(s)
  BY <1>1 DEF FlagValue, FlagDefault, input
<1>8. flags \subseteq Settings /\ (~given => config = {} /\ bad = {})
  BY DEF StartupInv, InputTyped, FlagsOf
<1>9. Kept'
  BY <1>1, <1>3, <1>7, <1>8 DEF StartupInv, Kept, Overlaid, input
<1> QED
  BY <1>4, <1>5, <1>6, <1>9 DEF StartupInv

-----------------------------------------------------------------------------
LEMMA StartupKept == StartupInv /\ [Next]_vars => StartupInv'
<1> SUFFICES ASSUME StartupInv, [Next]_vars PROVE StartupInv'
  OBVIOUS
<1>1. CASE UNCHANGED vars
  BY <1>1 DEF vars, input, StartupInv, InputTyped, StateTyped, Applying, Kept,
              FlagsOf, FlagValue, FlagDefault
<1>2. CASE Next
  BY <1>2, ApplyKeeps, AppliedKeeps, OverlayKeeps, MqttKeeps, RestKeeps DEF Next
<1> QED
  BY <1>1, <1>2

LEMMA StartupInvariant == Spec => []StartupInv
BY StartupInit, StartupKept, PTL DEF Spec

\* The settings and what they are made from keep their types.
THEOREM TypeCorrect == Spec => []TypeOK
<1>1. StartupInv => TypeOK
  BY DEF StartupInv, InputTyped, StateTyped, TypeOK
<1> QED
  BY <1>1, StartupInvariant, PTL

\* No flag that was given is overridden, by the file or by what --edm brings.
THEOREM GivenFlagsWin == Spec => []FlagsWin
<1>1. StartupInv => FlagsWin
  BY DEF StartupInv, Kept, Overlaid, FlagsWin, Settled
<1> QED
  BY <1>1, StartupInvariant, PTL

\* What the file says and no flag contradicts is used, and a file with an entry
\* that does not parse never gets the program past Apply.
THEOREM FileHolds == Spec => []ConfigHolds
<1>1. StartupInv => ConfigHolds
  BY DEF StartupInv, Kept, Overlaid, ConfigHolds, Settled
<1> QED
  BY <1>1, StartupInvariant, PTL
=============================================================================
