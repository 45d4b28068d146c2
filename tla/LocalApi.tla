------------------------------ MODULE LocalApi ------------------------------
(***************************************************************************)
(* Large files through Telegram: telegram_routes.py installs a local Bot   *)
(* API server as a systemd service and has the bot use it.                 *)
(*                                                                         *)
(* A job fetches a released binary or builds one, which takes up to an     *)
(* hour, starts the service and restarts the bot in local mode. Jobs are   *)
(* one at a time, can be cancelled between steps, and die with the server; *)
(* the binary, the service and the configuration outlive it. The bot is    *)
(* stopped and started by whoever changes the configuration, several at a  *)
(* time, and started by a supervisor that finds it down.                   *)
(*                                                                         *)
(* The bot is the application that telegram_bot holds; one that a second   *)
(* start has put out of its place is not looked at.                        *)
(***************************************************************************)
EXTENDS Focus, Integers, Sequences

CONSTANTS
    Setups,         \* setup jobs that may be asked for
    Changes,        \* bound: requests that change the configuration
    Nobody

BuildSteps == <<"deps", "clone", "configure", "compile", "install">>

\* Jobs and requests are numbered as they come.
ASSUME LocalApiAssumption == Setups \cup Changes \subseteq Nat /\ Nobody \notin Setups

VARIABLES
    setup,      \* job -> where it is
    building,   \* holder of _build_lock
    cancelled,  \* _setup_cancels
    binary,     \* what is at _BINARY_PATH: "none", "whole", "bad"
    service,    \* the systemd service: "off", or active and "silent" or "answers"
    enabled,    \* local_api_enabled, in kv.json and in the settings, which are set together
    bot,        \* "off", "cloud", "local"
    change,     \* request -> what it changes and where it is
    crossed,    \* history: local mode was being turned off while a job was about to turn it
                \* on, or was turned on by saving it
    taken       \* history: a job took a service that does not answer, because it was active

vars_local == <<setup, building, cancelled, binary, service, enabled, bot, change, crossed, taken>>

Unasked == [kind |-> "none", at |-> "none"]
Over == [kind |-> "none", at |-> "done"]

LocalApiInit ==
    /\ setup = [j \in Setups |-> "none"]
    /\ building = Nobody
    /\ cancelled = {}
    /\ binary = "none"
    /\ service = "off" /\ enabled = FALSE
    /\ bot = "cloud"
    /\ change = [c \in Changes |-> Unasked]
    /\ crossed = FALSE /\ taken = FALSE

------------------------------------------------------------------------------
\* Wrong versions of definitions below; the runs' mutants put them in place.

TrustsDownload == {"good", "corrupt"}
StaysLocked(j) == building
StartedWillDo == {"silent", "answers"}
OnlySaved(kind) == kind = "force" \/ enabled

------------------------------------------------------------------------------
\* The job.

Going(j, from) == setup[j] = from
Goes(j, to) == setup' = [setup EXCEPT ![j] = to]

AskSetup(j) ==
    /\ Going(j, "none") /\ Goes(j, "asked")
    /\ \A i \in Setups : i < j => ~Going(i, "none")
    /\ UNCHANGED <<building, cancelled, binary, service, enabled, bot, change, crossed, taken>>

\* The name of a job that is over may be added too; nobody asks for it again.
CancelSetup(j) ==
    /\ setup[j] \notin {"none", "completed", "failed"} /\ j \notin cancelled
    /\ cancelled' = cancelled \cup {j}
    /\ UNCHANGED <<setup, building, binary, service, enabled, bot, change, crossed, taken>>

\* A second job is refused; nothing suspends between the question and the lock.
BeginSetup(j) ==
    /\ Going(j, "asked")
    /\ IF building # Nobody THEN Goes(j, "failed") /\ UNCHANGED building
                            ELSE Goes(j, "check") /\ building' = j
    /\ UNCHANGED <<cancelled, binary, service, enabled, bot, change, crossed, taken>>

\* The finally of the job.
Unlocked(j) == Nobody
Ends(j, how) == Goes(j, how) /\ building' = Unlocked(j)

\* _check_cancelled, before each of these steps; and the steps that may fail.
Checked == {"fetch", "got", "clone", "configure", "compile", "install"}
Failing == {"deps", "clone", "configure", "compile", "install", "unit", "health", "activate"}

Cancelled(j) ==
    /\ setup[j] \in Checked /\ j \in cancelled
    /\ cancelled' = cancelled \ {j}
    /\ Ends(j, "failed")
    /\ UNCHANGED <<binary, service, enabled, bot, change, crossed, taken>>

Proceeds(j, at) == Going(j, at) /\ ~(at \in Checked /\ j \in cancelled)

\* A start that is reported as failed, or takes too long, may leave the service active.
SetupFails(j) ==
    /\ trouble = "fail" /\ setup[j] \in Failing /\ Proceeds(j, setup[j])
    /\ Ends(j, "failed")
    /\ service' \in {service} \cup (IF setup[j] = "unit" THEN {"silent"} ELSE {})
    /\ UNCHANGED <<cancelled, binary, enabled, bot, change, crossed, taken>>

\* Whoever turns local mode off goes on to stop the service; a job that has seen the service
\* is about to turn it on.
TurningOff(cs) == \E c \in Changes : cs[c].kind = "disable"
Crosses(jobs, cs) == crossed' = (crossed \/ (TurningOff(cs) /\ \E j \in Setups : jobs[j] = "activate"))

\* A service that is active is taken as it is: nobody asks whether it answers.
CheckService(j) ==
    /\ Going(j, "check")
    /\ Goes(j, IF service # "off" THEN "activate" ELSE "fetch")
    /\ taken' = (taken \/ service = "silent")
    /\ Crosses(setup', change)
    /\ UNCHANGED <<building, cancelled, binary, service, enabled, bot, change>>

\* _try_download_prebuilt: the digest published with the release decides; without it, or
\* with another one, the server is built here.
Accepted == {"good"}
FetchBinary(j) ==
    /\ Proceeds(j, "fetch")
    /\ \E got \in {"good", "corrupt", "nothing"} :
          binary' = IF binary = "none" /\ got \in Accepted
                    THEN (IF got = "good" THEN "whole" ELSE "bad") ELSE binary
    /\ Goes(j, "got")
    /\ UNCHANGED <<building, cancelled, service, enabled, bot, change, crossed, taken>>

BuildOrNot(j) ==
    /\ Proceeds(j, "got")
    /\ Goes(j, IF binary = "none" THEN "deps" ELSE "unit")
    /\ UNCHANGED <<building, cancelled, binary, service, enabled, bot, change, crossed, taken>>

BuildStep(j) ==
    /\ \E i \in 1..(Len(BuildSteps) - 1) :
          Proceeds(j, BuildSteps[i]) /\ Goes(j, BuildSteps[i + 1])
    /\ UNCHANGED <<building, cancelled, binary, service, enabled, bot, change, crossed, taken>>

\* Copied beside the path and renamed onto it.
InstallBinary(j) ==
    /\ Proceeds(j, "install") /\ Goes(j, "unit")
    /\ binary' = "whole"
    /\ UNCHANGED <<building, cancelled, service, enabled, bot, change, crossed, taken>>

\* The unit is installed, enabled and started; what it runs may die at once.
StartService(j) ==
    /\ Going(j, "unit") /\ Goes(j, "health")
    /\ service' \in {"answers"} \cup (IF trouble = "fail" THEN {"silent"} ELSE {})
    /\ UNCHANGED <<building, cancelled, binary, enabled, bot, change, crossed, taken>>

Answering == {"answers"}
AwaitHealth(j) ==
    /\ Going(j, "health")
    /\ IF service \in Answering THEN Goes(j, "activate") /\ UNCHANGED building ELSE Ends(j, "failed")
    /\ Crosses(setup', change)
    /\ UNCHANGED <<cancelled, binary, service, enabled, bot, change, taken>>

\* _activate_local_api: the configuration, then stop_bot, then start_bot. Nothing suspends
\* between reading the configuration and writing it (store.py:659-682: nobody suspends while
\* they have the lock of the store, so nobody waits for it).
Activate(j) ==
    /\ Going(j, "activate") /\ Goes(j, "stop")
    /\ enabled' = TRUE
    /\ UNCHANGED <<building, cancelled, binary, service, bot, change, crossed, taken>>

StopForSetup(j) ==
    /\ Going(j, "stop") /\ Goes(j, "restart")
    /\ bot' = "off"
    /\ UNCHANGED <<building, cancelled, binary, service, enabled, change, crossed, taken>>

\* start_bot builds for what the settings say by now; it may fail, and the job does not ask.
Started == {IF enabled THEN "local" ELSE "cloud"} \cup (IF trouble = "fail" THEN {"off"} ELSE {})
CompleteSetup(j) ==
    /\ Going(j, "restart") /\ Ends(j, "completed")
    /\ bot' \in Started
    /\ UNCHANGED <<cancelled, binary, service, enabled, change, crossed, taken>>

------------------------------------------------------------------------------
\* disable_local_api, and save_config with a new token ("save") or with local_api_enabled
\* set ("force"), which asks for no service. They come while others are under way. Each
\* writes the configuration as it has just read it, then stops the bot, then starts it.

Step(c, at) == change[c].at = at
Moves(c, to) == change' = [change EXCEPT ![c].at = to]
Leaves(c) == change' = [change EXCEPT ![c] = Over]

Becomes(kind) == kind = "force" \/ (enabled /\ kind # "disable")
ChangeConfig(c, kind) ==
    /\ Step(c, "none") /\ \A d \in Changes : d < c => ~Step(d, "none")
    /\ change' = [change EXCEPT ![c] = [kind |-> kind, at |-> "stopping"]]
    /\ enabled' = Becomes(kind)
    /\ IF kind = "force" THEN crossed' = TRUE ELSE Crosses(setup, change')
    /\ UNCHANGED <<setup, building, cancelled, binary, service, bot, taken>>

StopForChange(c) ==
    /\ Step(c, "stopping") /\ Moves(c, "starting")
    /\ bot' = "off"
    /\ UNCHANGED <<setup, building, cancelled, binary, service, enabled, crossed, taken>>

StartForChange(c) ==
    /\ Step(c, "starting")
    /\ IF change[c].kind = "disable" THEN Moves(c, "service") ELSE Leaves(c)
    /\ bot' \in Started
    /\ UNCHANGED <<setup, building, cancelled, binary, service, enabled, crossed, taken>>

\* systemctl stop may fail; the request does not mind.
StopService(c) ==
    /\ Step(c, "service") /\ Leaves(c)
    /\ service' \in {"off"} \cup (IF trouble = "fail" THEN {service} ELSE {})
    /\ UNCHANGED <<setup, building, cancelled, binary, enabled, bot, crossed, taken>>

\* The supervisor of the bot finds none, and after a while starts one, whoever stopped it.
Supervise ==
    /\ bot = "off"
    /\ bot' \in Started
    /\ UNCHANGED <<setup, building, cancelled, binary, service, enabled, change, crossed, taken>>

\* The server dies and starts; the service is systemd's.
ServerRestarts ==
    /\ trouble = "crash"
    /\ setup' = [j \in Setups |-> IF setup[j] = "none" THEN "none" ELSE "failed"]
    /\ building' = Nobody /\ cancelled' = {}
    /\ change' = [c \in Changes |-> IF Step(c, "none") THEN Unasked ELSE Over]
    /\ bot' \in Started
    /\ UNCHANGED <<binary, service, enabled, crossed, taken>>

SetupStep(j) ==
    \/ BeginSetup(j) \/ Cancelled(j) \/ SetupFails(j) \/ CheckService(j) \/ FetchBinary(j)
    \/ BuildOrNot(j) \/ BuildStep(j) \/ InstallBinary(j) \/ StartService(j) \/ AwaitHealth(j)
    \/ Activate(j) \/ StopForSetup(j) \/ CompleteSetup(j)

LocalApiNext ==
    \/ Supervise \/ ServerRestarts
    \/ \E c \in Changes : \/ \E kind \in {"disable", "save", "force"} : ChangeConfig(c, kind)
                           \/ StopForChange(c) \/ StartForChange(c) \/ StopService(c)
    \/ \E j \in Setups : AskSetup(j) \/ CancelSetup(j) \/ SetupStep(j)

------------------------------------------------------------------------------
\* Properties.

\* The bot speaks to the local server only while its service is active, and has answered
\* unless a job took it because it was active, running a binary that is whole and was checked
\* or built here: through cancelled, failed and repeated jobs, restarts, and requests to turn
\* it off or save other settings that overlap each other and the job
\* (telegram_routes.py:114-225, 492-815). Left out: local mode turned off while a job that has
\* seen the service is about to turn it on (telegram_routes.py:205), and settings saved with
\* local mode on, which ask for no service (telegram_routes.py:146).
LocalIsServed ==
    /\ binary # "bad"
    /\ bot = "local" => crossed \/ service = "answers" \/ (service = "silent" /\ taken)

\* A job holds up later ones only while it lasts: however it ends, the lock is free again
\* (telegram_routes.py:498-503, 763-768).
NextSetupMayBegin == [](building # Nobody => <>(building = Nobody))
=============================================================================
