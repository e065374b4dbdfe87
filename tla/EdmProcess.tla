----------------------------- MODULE EdmProcess -----------------------------
(***************************************************************************)
(* cmd/edm-loadgen: the EDM that --edm launches beside the load generator. *)
(* Its files are bootstrapped, its process group is started, awaited until *)
(* /metrics answers, and stopped with SIGTERM, SIGKILL and a drain of the  *)
(* group.  With a source checkout the group has two processes: `go run`,   *)
(* whose exit cmd.Wait sees, and EDM itself, which may outlive it.         *)
(* Timeouts may fire whenever the code waits for them.                     *)
(***************************************************************************)
EXTENDS Naturals

CONSTANTS
    Commands,      \* the commands that take --edm
    Checkout,      \* --edm names a source checkout, not a binary
    Stabilise,     \* EDM_STABILISE_SECONDS > 0
    MaxCrashes,    \* bound on the kills of the load generator in bootstrap
    MaxPolls       \* bound on the pauses between polls; 0 is EDM_READY_TIMEOUT=0

ASSUME EdmAssumption ==
    /\ Commands \subseteq {"run", "benchmark", "serve"}
    /\ Checkout \in BOOLEAN /\ Stabilise \in BOOLEAN
    /\ MaxCrashes \in Nat /\ MaxPolls \in Nat

Group == IF Checkout THEN {"leader", "edm"} ELSE {"leader"}
Edm   == IF Checkout THEN "edm" ELSE "leader"

VARIABLES
    command,     \* which one it is
    requested,   \* it has --edm
    foreign,     \* another EDM has the ports: it answers, and ours cannot listen
    pc,          \* the load generator's main goroutine
    config,      \* edm.toml:    "absent", "torn" or "whole"
    dawg, tmp,   \* well-known-domains.dawg and its .tmp file, likewise
    crashes,     \* kills so far in the bootstrap
    alive,       \* the processes of the group that run
    waited,      \* cmd.Wait has reaped the leader
    channel,     \* proc.done: "empty", "value", "taken" or "closed"
    serving,     \* EDM answers on /metrics
    termed,      \* the processes that were sent SIGTERM
    killed,      \* the processes that were sent SIGKILL
    polls,       \* pauses so far between polls of /metrics, in waitForEDMReady
    ctxDone,     \* rootCtx is cancelled
    startedWith  \* history: the DAWG when EDM was started

fileVars == <<config, dawg, tmp, crashes>>
procVars == <<alive, waited, channel, serving>>
sigVars  == <<termed, killed>>
origin   == <<command, requested, foreign, startedWith>>
vars == <<pc, fileVars, procVars, sigVars, polls, ctxDone, origin>>

FileStates == {"absent", "torn", "whole"}

Init ==
    /\ command \in Commands /\ requested \in BOOLEAN /\ foreign \in {FALSE, requested}
    /\ pc = "start" /\ config = "absent" /\ dawg = "absent" /\ tmp = "absent"
    /\ crashes = 0
    /\ alive = {} /\ waited = FALSE /\ channel = "empty" /\ serving = FALSE
    /\ termed = {} /\ killed = {} /\ polls = 0 /\ ctxDone = FALSE
    /\ startedWith = "none"

\* kill(-pgid, 0): a process that nobody has reaped still counts.
GroupExists == alive # {} \/ ~waited

-----------------------------------------------------------------------------
(* Mutants, for the properties to catch; no part of Spec.                  *)

\* the download goes to its final name
FetchOpensTarget ==
    /\ pc = "fetch" /\ pc' = "fetching" /\ dawg' = "torn"
    /\ UNCHANGED <<config, tmp, crashes, procVars, sigVars, polls, ctxDone, origin>>

\* one try too many
PollAgainOnce ==
    /\ pc = "poll" /\ channel = "empty" /\ polls <= MaxPolls
    /\ pc' = "pause" /\ polls' = polls + 1
    /\ UNCHANGED <<fileVars, procVars, sigVars, ctxDone, origin>>

\* Stop is done when the leader is
StopLeaderOnly ==
    /\ pc = "term" /\ channel # "empty"
    /\ pc' = "stopped"
    /\ UNCHANGED <<fileVars, procVars, sigVars, polls, ctxDone, origin>>

\* the goroutine that waits does not close the channel
CloseDoneForgotten ==
    /\ channel = "taken" /\ channel' = "taken"
    /\ UNCHANGED <<pc, fileVars, alive, waited, serving, sigVars, polls, ctxDone,
                   origin>>

-----------------------------------------------------------------------------
(* bootstrapEDMFiles and fetchWellKnownDomains.                            *)

Elsewhere == <<procVars, sigVars, polls, ctxDone, origin>>

\* startEDMIfRequested
StartIfRequested ==
    /\ pc = "start" /\ pc' = IF requested THEN "config" ELSE "work"
    /\ UNCHANGED <<fileVars, Elsewhere>>

\* regularFileExists: whatever the file holds.
ConfigThere ==
    /\ pc = "config" /\ config # "absent" /\ pc' = "dawg"
    /\ UNCHANGED <<fileVars, Elsewhere>>

ConfigOpen ==
    /\ pc = "config" /\ config = "absent"
    /\ config' = "torn" /\ pc' = "configFill"
    /\ UNCHANGED <<dawg, tmp, crashes, Elsewhere>>

ConfigFill ==
    /\ pc = "configFill" /\ config' = "whole" /\ pc' = "dawg"
    /\ UNCHANGED <<dawg, tmp, crashes, Elsewhere>>

DawgThere ==
    /\ pc = "dawg" /\ dawg # "absent" /\ pc' = "launch"
    /\ UNCHANGED <<fileVars, Elsewhere>>

DawgMissing ==
    /\ pc = "dawg" /\ dawg = "absent" /\ pc' = "fetch"
    /\ UNCHANGED <<fileVars, Elsewhere>>

\* The body arrived; os.WriteFile creates or truncates the .tmp file...
FetchOpen ==
    /\ pc = "fetch" /\ pc' = "fetching" /\ tmp' = "torn"
    /\ UNCHANGED <<config, dawg, crashes, Elsewhere>>

\* ...fills it...
FetchFill ==
    /\ pc = "fetching" /\ tmp' = "whole" /\ pc' = "rename"
    /\ UNCHANGED <<config, dawg, crashes, Elsewhere>>

\* ...and the rename puts it into place at once.
Rename ==
    /\ pc = "rename" /\ dawg' = tmp /\ tmp' = "absent" /\ pc' = "launch"
    /\ UNCHANGED <<config, crashes, Elsewhere>>

RenameFails ==
    /\ pc = "rename" /\ tmp' = "absent" /\ pc' = "died"
    /\ UNCHANGED <<config, dawg, crashes, Elsewhere>>

\* Any other I/O or HTTP error: die, with nothing started.
BootFails ==
    /\ pc \in {"config", "configFill", "dawg", "fetch", "fetching", "launch"}
    /\ pc' = "died"
    /\ UNCHANGED <<fileVars, Elsewhere>>

\* The load generator is killed and started again.
Crash ==
    /\ pc \in {"config", "configFill", "dawg", "fetch", "fetching", "rename", "launch"}
    /\ crashes < MaxCrashes /\ crashes' = crashes + 1
    /\ pc' = "config"
    /\ UNCHANGED <<config, dawg, tmp, Elsewhere>>

-----------------------------------------------------------------------------
(* startEDM and waitForEDMReady.                                           *)

Launch ==
    /\ pc = "launch"
    /\ alive' = Group /\ startedWith' = dawg /\ crashes' = 0
    /\ pc' = IF Stabilise THEN "stabilise" ELSE "poll"
    /\ UNCHANGED <<command, requested, foreign, config, dawg, tmp, waited, channel, serving, sigVars, polls, ctxDone>>

Stable ==
    /\ pc = "stabilise" /\ pc' = "poll"
    /\ UNCHANGED <<fileVars, procVars, sigVars, polls, ctxDone, origin>>

\* The process ended, or the user interrupted: startEDM stops the group and
\* returns the error.
NotReady ==
    /\ pc \in {"stabilise", "poll", "pause"}
    /\ \/ channel = "value" /\ channel' = "taken"
       \/ pc \in {"stabilise", "pause"} /\ ctxDone /\ UNCHANGED channel
    /\ pc' = "signal" /\ polls' = 0
    /\ UNCHANGED <<fileVars, alive, waited, serving, sigVars, ctxDone, origin>>

\* processDone found nothing, and an EDM answers; a cancelled ctx fails the
\* request.
Ready ==
    /\ pc = "poll" /\ channel = "empty"
    /\ serving \/ foreign
    /\ ~ctxDone
    /\ pc' = "work" /\ polls' = 0
    /\ UNCHANGED <<fileVars, procVars, sigVars, ctxDone, origin>>

\* The deadline has passed, or was zero from the start.
GiveUp ==
    /\ pc = "poll" /\ channel = "empty"
    /\ pc' = "signal" /\ polls' = 0
    /\ UNCHANGED <<fileVars, procVars, sigVars, ctxDone, origin>>

PollAgain ==
    /\ pc = "poll" /\ channel = "empty" /\ polls < MaxPolls
    /\ pc' = "pause" /\ polls' = polls + 1
    /\ UNCHANGED <<fileVars, procVars, sigVars, ctxDone, origin>>

Paused ==
    /\ pc = "pause" /\ pc' = "poll"
    /\ UNCHANGED <<fileVars, procVars, sigVars, polls, ctxDone, origin>>

-----------------------------------------------------------------------------
(* The rest of the command, seen from here (Command has the details): it   *)
(* returns, and the deferred Stop runs; or it calls die, and os.Exit runs  *)
(* no deferred function; or another goroutine panics.                      *)

WorkDone ==
    /\ pc = "work" /\ pc' = IF requested THEN "signal" ELSE "stopped"
    /\ UNCHANGED <<fileVars, procVars, sigVars, polls, ctxDone, origin>>

\* benchmark: no first frame before the producer stops or ctx is done, or the
\* producer fails later.  serve: the web server fails.  run has no such call.
WorkDies ==
    /\ pc = "work" /\ command # "run" /\ pc' = "died"
    /\ UNCHANGED <<fileVars, procVars, sigVars, polls, ctxDone, origin>>

WorkPanics ==
    /\ pc \in {"work", "signal", "term", "killed", "drain1", "drain2"}
    /\ pc' = "panicked"
    /\ UNCHANGED <<fileVars, procVars, sigVars, polls, ctxDone, origin>>

-----------------------------------------------------------------------------
(* edmProcess.Stop and drainProcessGroup.                                  *)

\* After a failed start as after a good one; what the command does when Stop
\* has returned, die or return, makes no difference here.
Signal ==
    /\ pc = "signal"
    /\ termed' = termed \cup alive
    /\ pc' = "term"
    /\ UNCHANGED <<fileVars, procVars, killed, polls, ctxDone, origin>>

\* <-p.done: the value, or the zero value of the closed channel.
DoneIn(p, next) ==
    /\ pc = p
    /\ \/ channel = "value" /\ channel' = "taken"
       \/ channel = "closed" /\ UNCHANGED channel
    /\ pc' = next
    /\ UNCHANGED <<fileVars, alive, waited, serving, sigVars, polls, ctxDone, origin>>

TermDone == DoneIn("term", "drain1")
KillDone == DoneIn("killed", "drain1")

TermTimeout ==
    /\ pc = "term" /\ killed' = killed \cup alive /\ pc' = "killed"
    /\ UNCHANGED <<fileVars, procVars, termed, polls, ctxDone, origin>>

Drained ==
    /\ pc = "drain1" /\ ~GroupExists /\ pc' = "drain2"
    /\ UNCHANGED <<fileVars, procVars, sigVars, polls, ctxDone, origin>>

DrainTimeout ==
    /\ pc = "drain1" /\ GroupExists
    /\ killed' = killed \cup alive /\ pc' = "drain2"
    /\ UNCHANGED <<fileVars, procVars, termed, polls, ctxDone, origin>>

\* The second wait ends with the group or with its own timeout.
Stopped ==
    /\ pc = "drain2" /\ pc' = "stopped"
    /\ UNCHANGED <<fileVars, procVars, sigVars, polls, ctxDone, origin>>

-----------------------------------------------------------------------------
(* The processes, cmd.Wait and the user.                                   *)

Listen ==
    /\ Edm \in alive /\ ~serving /\ ~foreign /\ serving' = TRUE
    /\ UNCHANGED <<pc, fileVars, alive, waited, channel, sigVars, polls, ctxDone, origin>>

\* A process may end at any time; it has to after SIGKILL, not after SIGTERM.
Exit(p) ==
    /\ p \in alive /\ alive' = alive \ {p}
    /\ serving' = (serving /\ p # Edm)
    /\ UNCHANGED <<pc, fileVars, waited, channel, sigVars, polls, ctxDone, origin>>

\* proc.done <- cmd.Wait()
Reap ==
    /\ startedWith # "none" /\ "leader" \notin alive /\ ~waited
    /\ waited' = TRUE /\ channel' = "value"
    /\ UNCHANGED <<pc, fileVars, alive, serving, sigVars, polls, ctxDone, origin>>

\* close(proc.done): a value that is still there stays to be received first.
CloseDone ==
    /\ channel = "taken" /\ channel' = "closed"
    /\ UNCHANGED <<pc, fileVars, alive, waited, serving, sigVars, polls, ctxDone, origin>>

Interrupt ==
    /\ ~ctxDone /\ ctxDone' = TRUE
    /\ UNCHANGED <<pc, fileVars, procVars, sigVars, polls, origin>>

BootStep  == \/ StartIfRequested \/ ConfigThere \/ ConfigOpen \/ ConfigFill \/ DawgThere \/ DawgMissing
             \/ FetchOpen \/ FetchFill \/ Rename \/ RenameFails \/ BootFails
StartStep == Launch \/ Stable \/ NotReady \/ Ready \/ GiveUp \/ PollAgain \/ Paused
StopStep  == \/ Signal \/ TermDone \/ TermTimeout \/ KillDone
             \/ Drained \/ DrainTimeout \/ Stopped
Next == \/ BootStep \/ Crash \/ StartStep \/ StopStep
        \/ WorkDone \/ WorkDies \/ WorkPanics
        \/ Listen \/ \E p \in Group : Exit(p)
        \/ Reap \/ CloseDone \/ Interrupt

Spec == Init /\ [][Next]_vars

-----------------------------------------------------------------------------
(* Properties.                                                             *)

TypeOK ==
    /\ command \in Commands /\ requested \in BOOLEAN /\ foreign \in BOOLEAN
    /\ pc \in {"start", "config", "configFill", "dawg", "fetch", "fetching", "rename",
               "launch", "stabilise", "poll", "pause", "work", "signal", "term",
               "killed", "drain1", "drain2", "stopped", "died", "panicked"}
    /\ config \in FileStates /\ dawg \in FileStates /\ tmp \in FileStates
    /\ crashes \in 0 .. MaxCrashes
    /\ alive \subseteq Group /\ waited \in BOOLEAN /\ serving \in BOOLEAN
    /\ channel \in {"empty", "value", "taken", "closed"}
    /\ termed \subseteq Group /\ killed \subseteq termed
    /\ polls \in 0 .. MaxPolls /\ ctxDone \in BOOLEAN
    /\ startedWith \in {"none"} \cup FileStates

\* When the load generator is gone, so is every process it started, or it has
\* been sent SIGKILL: with `run`, however EDM ends, ignores SIGTERM, leaves a
\* child behind or fails to start; with the others, unless they call die once
\* EDM is up.  A panic is the exception for all three.
NoOrphan ==
    pc = "stopped" \/ (pc = "died" /\ command = "run") => alive \subseteq killed

\* The comment on runServe: it "is identical to runHeadless except it also
\* starts the JaWS web UI and skips the recurring text status line"; so no EDM
\* is left behind either when the load generator has exited.
ServeLikeRun == pc = "died" /\ command = "serve" => alive \subseteq killed

\* EDM is never started on a half-written DAWG, wherever earlier starts were
\* killed: fetchWellKnownDomains writes a .tmp file and renames it.
WholeDawg == startedWith \in {"none", "whole"}

\* Stop returns: its timeouts bound every wait but the two for cmd.Wait, whose
\* result may have been taken by waitForEDMReady before; then the close of the
\* channel releases it.  Only a panic elsewhere cuts it short.
StopReturns == (pc = "signal") ~> (pc \in {"stopped", "panicked"})
=============================================================================
