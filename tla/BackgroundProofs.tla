---------------------------- MODULE BackgroundProofs ----------------------------
(***************************************************************************)
(* The theorems of module Background, for every value of its constants.    *)
(***************************************************************************)
EXTENDS Background, WellFoundedInduction, SequenceTheorems, FiniteSetTheorems, TLAPS

------------------------------------------------------------------------------
\* The local server. A job that has the lock is the only one that does anything; while it
\* fetches or builds, no service is active, so that a start that fails takes nothing away;
\* who has local mode on, or is about to turn it on, has the service, unless a request that
\* turns it off came across. Such a request turns local mode off, then the bot, then the
\* service, and whatever else restarts the bot meanwhile does so without local mode.

Preparing == {"fetch", "got", "deps", "clone", "configure", "compile", "install", "unit"}
Relying == {"activate", "stop", "restart"}
Working == {"check", "health"} \cup Preparing \cup Relying
Stages == {"none", "asked", "completed", "failed"} \cup Working

LocalTypeOK ==
    /\ setup \in [Setups -> Stages]
    /\ change \in [Changes -> [kind : {"none", "disable", "save", "force"},
                               at : {"none", "stopping", "starting", "service", "done"}]]
    /\ service \in {"off", "silent", "answers"}
    /\ enabled \in BOOLEAN /\ crossed \in BOOLEAN /\ taken \in BOOLEAN
    /\ binary \in {"none", "whole"}

Served == service = "answers" \/ (service = "silent" /\ taken)
WorkerHasLock == \A j \in Setups : setup[j] \in Working => building = j
NoServiceYet == \A j \in Setups : setup[j] \in Preparing => service = "off"
OnlyDisableStops == \A c \in Changes : change[c].at = "service" => change[c].kind = "disable"
ServedOrCrossed ==
    /\ \A j \in Setups : setup[j] = "activate" => Served
    /\ enabled => Served
    /\ bot = "local" => Served
    /\ TurningOff(change) => ~enabled /\ \A j \in Setups : setup[j] # "activate"
    /\ \A c \in Changes : change[c].kind = "disable" /\ change[c].at \in {"starting", "service"}
                              => bot # "local"

LocalInv ==
    LocalTypeOK /\ WorkerHasLock /\ NoServiceYet /\ OnlyDisableStops /\ (crossed \/ ServedOrCrossed)

USE LocalApiAssumption

LEMMA LocalInitInv == LocalApiInit => LocalInv
<1> SUFFICES ASSUME LocalApiInit PROVE LocalInv
  OBVIOUS
<1> USE DEF LocalApiInit, Unasked, Stages, Working, Preparing, Relying
<1>1. LocalTypeOK
  BY DEF LocalTypeOK
<1>2. WorkerHasLock /\ NoServiceYet /\ OnlyDisableStops
  BY DEF WorkerHasLock, NoServiceYet, OnlyDisableStops
<1>3. ServedOrCrossed
  BY DEF ServedOrCrossed, TurningOff
<1> QED BY <1>1, <1>2, <1>3 DEF LocalInv

\* The server of the bot, when it is started, is what the settings say.
LEMMA StartedServed ==
  ASSUME NEW how \in Started
  PROVE  how = "local" => enabled
BY DEF Started

\* A job asks for the lock, and has it while it prepares.
LEMMA PreparesInv ==
  ASSUME LocalInv, NEW j \in Setups,
         \/ AskSetup(j) \/ CancelSetup(j) \/ BeginSetup(j) \/ FetchBinary(j) \/ BuildOrNot(j)
         \/ BuildStep(j) \/ InstallBinary(j)
  PROVE  LocalInv'
<1> USE DEF Going, Goes, Proceeds, Checked, Accepted, Stages, Working, Preparing, Relying
<1>0. UNCHANGED <<service, enabled, bot, change, crossed, taken>>
  BY DEF AskSetup, CancelSetup, BeginSetup, FetchBinary, BuildOrNot, BuildStep, InstallBinary
<1>1. LocalTypeOK'
  BY DEF AskSetup, CancelSetup, BeginSetup, FetchBinary, BuildOrNot, BuildStep, BuildSteps,
         InstallBinary, LocalInv, LocalTypeOK
<1>2. WorkerHasLock'
  BY DEF AskSetup, CancelSetup, BeginSetup, FetchBinary, BuildOrNot, BuildStep, BuildSteps,
         InstallBinary, LocalInv, LocalTypeOK, WorkerHasLock
<1>3. NoServiceYet'
  BY DEF AskSetup, CancelSetup, BeginSetup, FetchBinary, BuildOrNot, BuildStep, BuildSteps,
         InstallBinary, LocalInv, LocalTypeOK, NoServiceYet
<1>4. \A i \in Setups : setup'[i] = "activate" => setup[i] = "activate"
  BY DEF AskSetup, CancelSetup, BeginSetup, FetchBinary, BuildOrNot, BuildStep, BuildSteps,
         InstallBinary, LocalInv, LocalTypeOK
<1>5. crossed' \/ ServedOrCrossed'
  BY <1>0, <1>4 DEF LocalInv, ServedOrCrossed, Served, TurningOff
<1> QED BY <1>0, <1>1, <1>2, <1>3, <1>5 DEF LocalInv, OnlyDisableStops

LEMMA EndsInv ==
  ASSUME LocalInv, NEW j \in Setups, Cancelled(j) \/ SetupFails(j)
  PROVE  LocalInv'
<1> USE DEF Ends, Goes, Unlocked, Checked, Failing, Stages, Working, Preparing, Relying
<1>1. /\ setup' = [setup EXCEPT ![j] = "failed"] /\ building = j /\ building' = Nobody
      /\ UNCHANGED <<binary, enabled, bot, change, crossed, taken>>
  BY DEF Cancelled, SetupFails, LocalInv, WorkerHasLock
<1>2. service' = service \/ (setup[j] = "unit" /\ service' = "silent")
  BY DEF Cancelled, SetupFails
<1>3. LocalTypeOK' /\ WorkerHasLock' /\ NoServiceYet' /\ OnlyDisableStops'
  BY <1>1, <1>2 DEF LocalInv, LocalTypeOK, WorkerHasLock, NoServiceYet, OnlyDisableStops
<1>4. Served => Served'
  BY <1>1, <1>2 DEF LocalInv, NoServiceYet, Served
<1>5. \A i \in Setups : setup'[i] = "activate" => setup[i] = "activate"
  BY <1>1 DEF LocalInv, LocalTypeOK
<1>6. crossed' \/ ServedOrCrossed'
  BY <1>1, <1>4, <1>5 DEF LocalInv, ServedOrCrossed, TurningOff
<1> QED BY <1>3, <1>6 DEF LocalInv

LEMMA ServesInv ==
  ASSUME LocalInv, NEW j \in Setups,
         \/ CheckService(j) \/ StartService(j) \/ AwaitHealth(j) \/ Activate(j) \/ StopForSetup(j)
         \/ CompleteSetup(j)
  PROVE  LocalInv'
<1> USE DEF Going, Goes, Ends, Unlocked, Crosses, Answering, Stages, Working, Preparing, Relying
<1>0. setup[j] \in Working /\ building = j /\ \A i \in Setups \ {j} : setup[i] \notin Working
  BY DEF CheckService, StartService, AwaitHealth, Activate, StopForSetup, CompleteSetup, LocalInv,
         WorkerHasLock
<1>a. change' = change
  BY DEF CheckService, StartService, AwaitHealth, Activate, StopForSetup, CompleteSetup
<1>1. LocalTypeOK' /\ OnlyDisableStops'
  BY <1>a DEF CheckService, StartService, AwaitHealth, Activate, StopForSetup, CompleteSetup,
              LocalInv, LocalTypeOK, OnlyDisableStops
<1>2. WorkerHasLock' /\ NoServiceYet'
  <2>1. CASE CheckService(j)
    <3>1. \/ service # "off" /\ setup' = [setup EXCEPT ![j] = "activate"]
          \/ service = "off" /\ setup' = [setup EXCEPT ![j] = "fetch"]
      BY <2>1 DEF CheckService
    <3>2. building' = building /\ service' = service
      BY <2>1 DEF CheckService
    <3> QED BY <1>0, <3>1, <3>2 DEF LocalInv, LocalTypeOK, WorkerHasLock, NoServiceYet
  <2>2. CASE AwaitHealth(j)
    <3>1. /\ \E to \in {"activate", "failed"} :
                /\ setup' = [setup EXCEPT ![j] = to]
                /\ to = "activate" => building' = building
          /\ service' = service
      BY <2>2 DEF AwaitHealth
    <3> QED BY <1>0, <3>1 DEF LocalInv, LocalTypeOK, WorkerHasLock, NoServiceYet
  <2>3. CASE StartService(j)
    BY <1>0, <2>3 DEF StartService, LocalInv, LocalTypeOK, WorkerHasLock, NoServiceYet
  <2>4. CASE Activate(j) \/ StopForSetup(j) \/ CompleteSetup(j)
    BY <1>0, <2>4
    DEF Activate, StopForSetup, CompleteSetup, LocalInv, LocalTypeOK, WorkerHasLock, NoServiceYet
  <2> QED BY <2>1, <2>2, <2>3, <2>4
<1>3. CASE CheckService(j)
  <2>1. UNCHANGED <<service, enabled, bot, change>> /\ (taken => taken')
    BY <1>3 DEF CheckService, LocalInv, LocalTypeOK
  <2>2. \A i \in Setups : setup'[i] = "activate" =>
             setup[i] = "activate" \/ (service # "off" /\ (service = "silent" => taken'))
    BY <1>3 DEF CheckService, LocalInv, LocalTypeOK
  <2>3. crossed' \/ ~TurningOff(change) \/ \A i \in Setups : setup'[i] # "activate"
    BY <1>3 DEF CheckService
  <2>4. crossed => crossed'
    BY <1>3 DEF CheckService
  <2>5. crossed' \/ ServedOrCrossed'
    BY <2>1, <2>2, <2>3, <2>4 DEF LocalInv, LocalTypeOK, ServedOrCrossed, Served, TurningOff
  <2> QED BY <1>1, <1>2, <2>5 DEF LocalInv
<1>4. CASE StartService(j)
  <2>1. ~Served
    BY <1>4 DEF StartService, LocalInv, NoServiceYet, Served
  <2>2. UNCHANGED <<enabled, bot, change, crossed>>
    BY <1>4 DEF StartService
  <2>3. \A i \in Setups : setup'[i] = "activate" => setup[i] = "activate"
    BY <1>4 DEF StartService, LocalInv, LocalTypeOK
  <2>4. crossed' \/ ServedOrCrossed'
    BY <2>1, <2>2, <2>3 DEF LocalInv, ServedOrCrossed, TurningOff
  <2> QED BY <1>1, <1>2, <2>4 DEF LocalInv
<1>5. CASE AwaitHealth(j)
  <2>1. UNCHANGED <<service, enabled, bot, change, taken>>
    BY <1>5 DEF AwaitHealth
  <2>2. \A i \in Setups : setup'[i] = "activate" => setup[i] = "activate" \/ service = "answers"
    BY <1>5 DEF AwaitHealth, LocalInv, LocalTypeOK
  <2>3. crossed' \/ ~TurningOff(change) \/ \A i \in Setups : setup'[i] # "activate"
    BY <1>5 DEF AwaitHealth
  <2>4. crossed => crossed'
    BY <1>5 DEF AwaitHealth
  <2>5. crossed' \/ ServedOrCrossed'
    BY <2>1, <2>2, <2>3, <2>4 DEF LocalInv, ServedOrCrossed, Served, TurningOff
  <2> QED BY <1>1, <1>2, <2>5 DEF LocalInv
<1>6. CASE Activate(j)
  <2>1. UNCHANGED <<service, bot, change, crossed, taken>> /\ setup[j] = "activate"
    BY <1>6 DEF Activate
  <2>2. \A i \in Setups : setup'[i] = "activate" => setup[i] = "activate"
    BY <1>6 DEF Activate, LocalInv, LocalTypeOK
  <2>3. crossed' \/ ServedOrCrossed'
    BY <2>1, <2>2 DEF LocalInv, ServedOrCrossed, Served, TurningOff
  <2> QED BY <1>1, <1>2, <2>3 DEF LocalInv
<1>7. CASE StopForSetup(j) \/ CompleteSetup(j)
  <2>1. UNCHANGED <<service, enabled, change, crossed, taken>>
    BY <1>7 DEF StopForSetup, CompleteSetup
  <2>2. bot' = "local" => enabled
    BY <1>7, StartedServed DEF StopForSetup, CompleteSetup
  <2>3. \A i \in Setups : setup'[i] = "activate" => setup[i] = "activate"
    BY <1>7 DEF StopForSetup, CompleteSetup, LocalInv, LocalTypeOK
  <2>4. crossed' \/ ServedOrCrossed'
    BY <2>1, <2>2, <2>3 DEF LocalInv, ServedOrCrossed, Served, TurningOff
  <2> QED BY <1>1, <1>2, <2>4 DEF LocalInv
<1> QED BY <1>3, <1>4, <1>5, <1>6, <1>7

\* A request that changes the configuration, at any time.
LEMMA ChangesInv ==
  ASSUME LocalInv, NEW c \in Changes,
         \/ \E kind \in {"disable", "save", "force"} : ChangeConfig(c, kind)
         \/ StopForChange(c) \/ StartForChange(c) \/ StopService(c)
  PROVE  LocalInv'
<1> USE DEF Step, Moves, Leaves, Over, Stages, Working, Preparing, Relying
<1>0. UNCHANGED <<setup, building, binary, taken>>
  BY DEF ChangeConfig, StopForChange, StartForChange, StopService
<1>1. ASSUME NEW kind \in {"disable", "save", "force"}, ChangeConfig(c, kind)
      PROVE  LocalInv'
  <2>1. change' = [change EXCEPT ![c] = [kind |-> kind, at |-> "stopping"]]
    BY <1>1 DEF ChangeConfig
  <2>2. UNCHANGED <<service, bot>> /\ enabled' = (kind = "force" \/ (enabled /\ kind # "disable"))
    BY <1>1 DEF ChangeConfig, Becomes
  <2>3. LocalTypeOK' /\ WorkerHasLock' /\ NoServiceYet' /\ OnlyDisableStops'
    <3>1. crossed' \in BOOLEAN
      BY <1>1 DEF ChangeConfig, Crosses, LocalInv, LocalTypeOK
    <3>2. enabled' \in BOOLEAN
      BY <2>2
    <3>3. [kind |-> kind, at |-> "stopping"] \in
              [kind : {"none", "disable", "save", "force"},
               at : {"none", "stopping", "starting", "service", "done"}]
      OBVIOUS
    <3>4. LocalTypeOK'
      BY <1>0, <2>1, <2>2, <3>1, <3>2, <3>3 DEF LocalInv, LocalTypeOK
    <3> QED
      BY <1>0, <2>1, <2>2, <3>4
      DEF LocalInv, LocalTypeOK, WorkerHasLock, NoServiceYet, OnlyDisableStops
  <2>4. CASE crossed'
    BY <2>3, <2>4 DEF LocalInv
  <2>5. CASE ~crossed'
    <3>1. kind # "force" /\ ~crossed
      BY <1>1, <2>5 DEF ChangeConfig, Crosses
    <3>2. ~TurningOff(change') \/ \A i \in Setups : setup[i] # "activate"
      BY <1>1, <2>5, <3>1 DEF ChangeConfig, Crosses
    <3>3. ServedOrCrossed
      BY <3>1 DEF LocalInv
    <3>4. TurningOff(change') => kind = "disable" \/ TurningOff(change)
      BY <2>1 DEF LocalInv, LocalTypeOK, TurningOff
    <3>5. Served' = Served
      BY <1>0, <2>2 DEF Served
    <3>6. TurningOff(change)' => ~enabled' /\ \A i \in Setups : setup'[i] # "activate"
      BY <1>0, <2>2, <3>1, <3>2, <3>3, <3>4 DEF ServedOrCrossed, TurningOff
    <3>7. \A d \in Changes : change'[d].kind = "disable" /\ change'[d].at \in {"starting", "service"}
                                 => bot' # "local"
      BY <2>1, <2>2, <3>3 DEF ServedOrCrossed, LocalInv, LocalTypeOK
    <3>8. (enabled' => Served') /\ (bot' = "local" => Served')
      BY <2>2, <3>1, <3>3, <3>5 DEF ServedOrCrossed
    <3>9. \A i \in Setups : setup'[i] = "activate" => Served'
      BY <1>0, <3>3, <3>5 DEF ServedOrCrossed
    <3> QED BY <2>3, <3>6, <3>7, <3>8, <3>9 DEF LocalInv, ServedOrCrossed
  <2> QED BY <2>4, <2>5
<1>2. CASE StopForChange(c) \/ StartForChange(c)
  <2>1. UNCHANGED <<service, enabled, crossed>>
    BY <1>2 DEF StopForChange, StartForChange
  <2>2. bot' = "local" => enabled
    BY <1>2, StartedServed DEF StopForChange, StartForChange
  <2>3. \E to \in {[kind |-> change[c].kind, at |-> "starting"], [kind |-> "disable", at |-> "service"],
                   [kind |-> "none", at |-> "done"]} :
            /\ change' = [change EXCEPT ![c] = to]
            /\ to.kind = "disable" => change[c].kind = "disable"
    BY <1>2 DEF StopForChange, StartForChange, LocalInv, LocalTypeOK
  <2>4. LocalTypeOK' /\ OnlyDisableStops'
    BY <1>0, <2>1, <2>3 DEF LocalInv, LocalTypeOK, OnlyDisableStops
  <2>5. WorkerHasLock' /\ NoServiceYet'
    BY <1>0, <2>1 DEF LocalInv, WorkerHasLock, NoServiceYet
  <2>6. \A d \in Changes : change'[d].kind = "disable" => change[d].kind = "disable"
    BY <2>3 DEF LocalInv, LocalTypeOK
  <2>7. TurningOff(change)' => TurningOff(change)
    BY <2>6 DEF TurningOff
  <2>8. ServedOrCrossed => ServedOrCrossed'
    BY <1>0, <2>1, <2>2, <2>6, <2>7 DEF ServedOrCrossed, Served, TurningOff
  <2> QED BY <2>1, <2>4, <2>5, <2>8 DEF LocalInv
<1>3. CASE StopService(c)
  <2>1. UNCHANGED <<enabled, bot, crossed>> /\ service' \in {service, "off"}
    BY <1>3 DEF StopService
  <2>2. change' = [change EXCEPT ![c] = [kind |-> "none", at |-> "done"]]
    BY <1>3 DEF StopService
  <2>3. change[c].kind = "disable" /\ change[c].at = "service"
    BY <1>3 DEF StopService, LocalInv, OnlyDisableStops
  <2>4. LocalTypeOK' /\ OnlyDisableStops'
    BY <1>0, <2>1, <2>2 DEF LocalInv, LocalTypeOK, OnlyDisableStops
  <2>5. WorkerHasLock' /\ NoServiceYet'
    BY <1>0, <2>1 DEF LocalInv, WorkerHasLock, NoServiceYet
  <2>6. \A d \in Changes : change'[d].kind = "disable" =>
                               change[d].kind = "disable" /\ change'[d] = change[d]
    BY <2>2 DEF LocalInv, LocalTypeOK
  <2>7. TurningOff(change)
    BY <2>3 DEF TurningOff
  <2>8. ServedOrCrossed => ServedOrCrossed'
    BY <1>0, <2>1, <2>3, <2>6, <2>7 DEF ServedOrCrossed, TurningOff
  <2> QED BY <2>1, <2>4, <2>5, <2>8 DEF LocalInv
<1> QED BY <1>1, <1>2, <1>3

LEMMA RestartsInv ==
  ASSUME LocalInv, Supervise \/ ServerRestarts
  PROVE  LocalInv'
<1> USE DEF Stages, Working, Preparing, Relying
<1>1. UNCHANGED <<binary, service, enabled, crossed, taken>>
  BY DEF Supervise, ServerRestarts
<1>2. bot' = "local" => enabled
  BY StartedServed DEF Supervise, ServerRestarts
<1>3. \A c \in Changes : change'[c] = change[c] \/ change'[c] \in {Unasked, Over}
  BY DEF Supervise, ServerRestarts
<1>4. LocalTypeOK'
  BY <1>1 DEF Supervise, ServerRestarts, LocalInv, LocalTypeOK, Unasked, Over
<1>5. OnlyDisableStops'
  BY <1>3 DEF LocalInv, OnlyDisableStops, Unasked, Over
<1>6. WorkerHasLock' /\ NoServiceYet'
  BY DEF Supervise, ServerRestarts, LocalInv, LocalTypeOK, WorkerHasLock, NoServiceYet
<1>7. \A i \in Setups : setup'[i] = "activate" => setup[i] = "activate"
  BY DEF Supervise, ServerRestarts, LocalInv, LocalTypeOK
<1>8. \A c \in Changes : change'[c].kind = "disable" => change'[c] = change[c]
  BY <1>3 DEF Unasked, Over
<1>9. TurningOff(change)' => TurningOff(change)
  BY <1>8 DEF TurningOff
<1>10. ServedOrCrossed => ServedOrCrossed'
  BY <1>1, <1>2, <1>7, <1>8, <1>9 DEF ServedOrCrossed, Served, TurningOff
<1> QED BY <1>1, <1>4, <1>5, <1>6, <1>10 DEF LocalInv

LEMMA LocalStep == LocalInv /\ [LocalApiNext]_vars_local => LocalInv'
<1> SUFFICES ASSUME LocalInv, [LocalApiNext]_vars_local
             PROVE  LocalInv'
  OBVIOUS
<1>1. CASE UNCHANGED vars_local
  BY <1>1 DEF vars_local, LocalInv, LocalTypeOK, WorkerHasLock, NoServiceYet, OnlyDisableStops,
              ServedOrCrossed, Served, TurningOff
<1>2. CASE LocalApiNext
  BY <1>2, PreparesInv, EndsInv, ServesInv, ChangesInv, RestartsInv DEF LocalApiNext, SetupStep
<1> QED BY <1>1, <1>2

------------------------------------------------------------------------------
\* Wi-Fi. A file that is staged has its request, at the step that takes the file away, or is
\* left over; what makes this inductive is the type of the requests.

WifiCalls == [kind : {"none", "on", "off", "connect", "hotspot"},
              ssid : Networks \cup {NoNetwork},
              stage : {"done", "radio", "install", "up", "start"}]
WifiTypeOK ==
    /\ call \in [WifiRequests -> WifiCalls]
    /\ staged \in [StagingFiles -> Networks \cup {NoNetwork}]
WifiInv == WifiTypeOK /\ PasswordsUnstaged

USE WifiAssumption

LEMMA WifiInitInv == WifiInit => WifiInv
  BY DEF WifiInit, WifiInv, WifiTypeOK, WifiCalls, NoCall, PasswordsUnstaged

\* Who waits for a file that is staged.
Takes(c, f) == /\ \/ c.kind = "connect" /\ c.stage = "install"
                  \/ c.kind = "hotspot" /\ c.stage = "start"
               /\ FileFor(c.kind, c.ssid) = f

\* A file that is there is one's own, is left over, or was there and belongs to somebody else.
Accounted(c, r, f) ==
    \/ Takes(c, f) \/ f \in leftover'
    \/ staged[f] # NoNetwork /\ ~Takes(call[r], f) /\ f \notin leftover

\* One request moves; what it took is no longer staged, and what it staged it takes.
LEMMA OneCallMoves ==
  ASSUME WifiInv, NEW r \in WifiRequests, NEW c \in WifiCalls, call' = [call EXCEPT ![r] = c],
         staged' \in [StagingFiles -> Networks \cup {NoNetwork}],
         \A f \in StagingFiles : staged'[f] # NoNetwork => Accounted(c, r, f)
  PROVE  WifiInv'
<1>1. WifiTypeOK'
  BY DEF WifiInv, WifiTypeOK
<1>2. PasswordsUnstaged'
  <2> SUFFICES ASSUME NEW f \in StagingFiles, staged'[f] # NoNetwork
               PROVE  (\E q \in WifiRequests : Takes(call'[q], f)) \/ f \in leftover'
    BY DEF PasswordsUnstaged, Takes, HasStaged, At, FileOf
  <2>1. CASE Takes(c, f)
    BY <2>1 DEF WifiInv, WifiTypeOK
  <2>2. CASE staged[f] # NoNetwork /\ ~Takes(call[r], f) /\ f \notin leftover
    <3>1. \E q \in WifiRequests : Takes(call[q], f)
      BY <2>2 DEF WifiInv, PasswordsUnstaged, Takes, HasStaged, At, FileOf
    <3>2. \A q \in WifiRequests : q # r => call'[q] = call[q]
      BY DEF WifiInv, WifiTypeOK
    <3> QED BY <2>2, <3>1, <3>2
  <2> QED BY <2>1, <2>2 DEF Accounted
<1> QED BY <1>1, <1>2 DEF WifiInv

\* What a request may do to the files: nothing, while it has none staged; take its own away;
\* stage one, or fail to.
LEMMA LeavesFiles ==
  ASSUME WifiInv, NEW r \in WifiRequests, NEW c \in WifiCalls, call' = [call EXCEPT ![r] = c],
         UNCHANGED <<staged, leftover>>, \A f \in StagingFiles : ~Takes(call[r], f)
  PROVE  WifiInv'
<1>1. staged' \in [StagingFiles -> Networks \cup {NoNetwork}]
  BY DEF WifiInv, WifiTypeOK
<1>2. \A f \in StagingFiles : staged'[f] # NoNetwork => Accounted(c, r, f)
  BY DEF Accounted
<1> QED BY <1>1, <1>2, OneCallMoves

LEMMA TakesFile ==
  ASSUME WifiInv, NEW r \in WifiRequests, NEW c \in WifiCalls, call' = [call EXCEPT ![r] = c],
         Take(FileOf(r))
  PROVE  WifiInv'
<1> DEFINE k == FileOf(r)
<1>1. staged' = [staged EXCEPT ![k] = NoNetwork] /\ leftover' = leftover \ {k}
  BY DEF Take, Unstage
<1>2. \A f : Takes(call[r], f) => f = k
  BY DEF Takes, FileOf
<1> HIDE DEF k
<1>3. staged' \in [StagingFiles -> Networks \cup {NoNetwork}]
  BY <1>1 DEF WifiInv, WifiTypeOK
<1>4. \A f \in StagingFiles : staged'[f] # NoNetwork => f # k /\ staged[f] # NoNetwork
  BY <1>1 DEF WifiInv, WifiTypeOK
<1>5. \A f \in StagingFiles : staged'[f] # NoNetwork => Accounted(c, r, f)
  BY <1>1, <1>2, <1>4 DEF Accounted
<1> QED BY <1>3, <1>5, OneCallMoves

LEMMA StagesFile ==
  ASSUME WifiInv, NEW r \in WifiRequests, NEW c \in WifiCalls, call' = [call EXCEPT ![r] = c],
         NEW k, NEW s \in Networks \cup {NoNetwork}, \A f \in StagingFiles : ~Takes(call[r], f),
         (Stage(k, s) /\ Takes(c, k)) \/ StageFails(k, s)
  PROVE  WifiInv'
<1>1. CASE UNCHANGED <<staged, leftover>>
  BY <1>1, LeavesFiles
<1>2. CASE /\ staged' = [staged EXCEPT ![k] = s]
           /\ (Takes(c, k) /\ leftover' = leftover \ {k}) \/ leftover' = leftover \cup {k}
  <2>1. staged' \in [StagingFiles -> Networks \cup {NoNetwork}]
    BY <1>2 DEF WifiInv, WifiTypeOK
  <2>2. \A f \in StagingFiles : staged'[f] # NoNetwork => f = k \/ staged[f] # NoNetwork
    BY <1>2 DEF WifiInv, WifiTypeOK
  <2>3. \A f \in StagingFiles : staged'[f] # NoNetwork => Accounted(c, r, f)
    BY <1>2, <2>2 DEF Accounted
  <2> QED BY <2>1, <2>3, OneCallMoves
<1> QED BY <1>1, <1>2 DEF Stage, StageFails

LEMMA CallsInv ==
  ASSUME WifiInv, NEW r \in WifiRequests,
         \/ \E on \in BOOLEAN : Toggle(r, on)
         \/ \E s \in Networks : Connect(r, s) \/ StartHotspot(r, s)
  PROVE  WifiInv'
<1>0. \A f \in StagingFiles : ~Takes(call[r], f)
  BY DEF Toggle, Connect, StartHotspot, Begin, Takes
<1>1. ASSUME NEW s \in Networks, StartHotspot(r, s) PROVE WifiInv'
  <2>1. [kind |-> "hotspot", ssid |-> s, stage |-> "radio"] \in WifiCalls
    BY DEF WifiCalls
  <2> QED BY <1>0, <1>1, <2>1, LeavesFiles DEF StartHotspot, Begin
<1>2. ASSUME NEW on \in BOOLEAN, Toggle(r, on) PROVE WifiInv'
  <2>1. PICK kind \in {"on", "off"} :
          call' = [call EXCEPT ![r] = [kind |-> kind, ssid |-> NoNetwork, stage |-> "radio"]]
    BY <1>2 DEF Toggle, Begin
  <2>2. [kind |-> kind, ssid |-> NoNetwork, stage |-> "radio"] \in WifiCalls
    BY DEF WifiCalls
  <2> QED BY <1>0, <1>2, <2>1, <2>2, LeavesFiles DEF Toggle
<1>3. ASSUME NEW s \in Networks, Connect(r, s) PROVE WifiInv'
  <2> DEFINE c == [kind |-> "connect", ssid |-> s, stage |-> "install"]
  <2>1. c \in WifiCalls /\ Takes(c, FileFor("connect", s))
    BY DEF WifiCalls, Takes
  <2>2. call' = [call EXCEPT ![r] = c] /\ Stage(FileFor("connect", s), s)
    BY <1>3 DEF Connect, Begin
  <2> HIDE DEF c
  <2> QED BY <1>0, <2>1, <2>2, StagesFile
<1> QED BY <1>1, <1>2, <1>3

LEMMA RequestsInv ==
  ASSUME WifiInv, NEW r \in WifiRequests,
         \/ ToggleRadio(r) \/ InstallProfile(r) \/ RadioForCall(r) \/ BringUp(r)
         \/ StageHotspot(r) \/ HotspotUp(r)
  PROVE  WifiInv'
<1>0. /\ call[r] \in WifiCalls /\ NoCall \in WifiCalls
      /\ \A stage \in {"radio", "up", "start"} : [call[r] EXCEPT !.stage = stage] \in WifiCalls
  BY DEF WifiInv, WifiTypeOK, WifiCalls, NoCall
<1>1. PICK c \in WifiCalls : /\ call' = [call EXCEPT ![r] = c]
                             /\ Goto(r, "start") => c = [call[r] EXCEPT !.stage = "start"]
  <2>1. ASSUME NEW stage \in {"radio", "up", "start"}, Goto(r, stage)
        PROVE  call' = [call EXCEPT ![r] = [call[r] EXCEPT !.stage = stage]]
    BY <2>1 DEF Goto
  <2>2. Finish(r) => call' = [call EXCEPT ![r] = NoCall]
    BY DEF Finish
  <2>3. \/ Finish(r) \/ Goto(r, "radio") \/ Goto(r, "up") \/ Goto(r, "start")
    BY DEF ToggleRadio, InstallProfile, RadioForCall, BringUp, StageHotspot, HotspotUp
  <2>4. CASE Goto(r, "start")
    BY <1>0, <2>1, <2>4
  <2>5. CASE ~Goto(r, "start")
    BY <1>0, <2>1, <2>2, <2>3, <2>5
  <2> QED BY <2>4, <2>5
<1>2. CASE ToggleRadio(r) \/ RadioForCall(r) \/ BringUp(r)
  <2>1. UNCHANGED <<staged, leftover>> /\ \A f \in StagingFiles : ~Takes(call[r], f)
    BY <1>2 DEF ToggleRadio, RadioForCall, BringUp, At, Takes
  <2> QED BY <1>1, <2>1, LeavesFiles
<1>3. CASE HotspotUp(r) \/ InstallProfile(r)
  <2>1. Take(FileOf(r))
    BY <1>3 DEF HotspotUp, InstallProfile
  <2> QED BY <1>1, <2>1, TakesFile
<1>4. CASE StageHotspot(r)
  <2>1. At(r, "hotspot", "up") /\ \A f \in StagingFiles : ~Takes(call[r], f)
    BY <1>4 DEF StageHotspot, At, Takes
  <2>2. call[r].ssid \in Networks \cup {NoNetwork}
    BY <1>0 DEF WifiCalls
  <2>3. CASE Stage(FileOf(r), call[r].ssid) /\ Goto(r, "start")
    <3>1. Takes(c, FileOf(r))
      BY <1>0, <1>1, <2>1, <2>3 DEF WifiCalls, Takes, FileOf, At
    <3> QED BY <1>1, <2>1, <2>2, <2>3, <3>1, StagesFile
  <2>4. CASE StageFails(FileOf(r), call[r].ssid)
    BY <1>1, <2>1, <2>2, <2>4, StagesFile
  <2>5. CASE UNCHANGED <<staged, leftover>>
    BY <1>1, <2>1, <2>5, LeavesFiles
  <2> QED BY <1>4, <2>3, <2>4, <2>5 DEF StageHotspot
<1> QED BY <1>2, <1>3, <1>4

\* A connection whose profile could not be staged: nobody has the file, and it is left over.
LEMMA UnstagedInv ==
  ASSUME WifiInv, NEW s \in Networks, ConnectUnstaged(s)
  PROVE  WifiInv'
<1> DEFINE k == FileFor("connect", s)
<1>1. UNCHANGED call /\ StageFails(k, s)
  BY DEF ConnectUnstaged
<1> HIDE DEF k
<1>2. CASE UNCHANGED <<staged, leftover>>
  BY <1>1, <1>2 DEF WifiInv, WifiTypeOK, PasswordsUnstaged, HasStaged, At, FileOf
<1>3. CASE staged' = [staged EXCEPT ![k] = s] /\ leftover' = leftover \cup {k}
  <2>1. WifiTypeOK'
    BY <1>1, <1>3 DEF WifiInv, WifiTypeOK
  <2>2. \A f \in StagingFiles : staged'[f] # NoNetwork => f = k \/ staged[f] # NoNetwork
    BY <1>3 DEF WifiInv, WifiTypeOK
  <2>3. PasswordsUnstaged'
    BY <1>1, <1>3, <2>2 DEF WifiInv, PasswordsUnstaged, HasStaged, At, FileOf
  <2> QED BY <2>1, <2>3 DEF WifiInv
<1> QED BY <1>1, <1>2, <1>3 DEF StageFails

LEMMA WifiStepInv ==
  ASSUME WifiInv, [WifiNext]_vars_wifi
  PROVE  WifiInv'
<1>1. CASE UNCHANGED <<call, staged, leftover>>
  BY <1>1 DEF WifiInv, WifiTypeOK, PasswordsUnstaged, HasStaged, At, FileOf
<1>2. CASE \/ MonitorReads \/ MonitorCompares \/ MonitorSets \/ StopHotspot \/ RadioKnocked
           \/ \E s \in Networks : Forget(s)
           \/ \E on \in BOOLEAN : ToggleUnsaved(on)
  BY <1>1, <1>2
  DEF MonitorReads, MonitorCompares, MonitorSets, StopHotspot, RadioKnocked, Forget, ToggleUnsaved
<1>3. CASE WifiReboot
  BY <1>3 DEF WifiReboot, NoCall, WifiInv, WifiTypeOK, WifiCalls, PasswordsUnstaged
<1> QED BY <1>1, <1>2, <1>3, CallsInv, RequestsInv, UnstagedInv DEF WifiNext, WifiStep, vars_wifi

HIDE LocalApiAssumption
HIDE WifiAssumption

------------------------------------------------------------------------------
\* Induction over the places of a sequence: a set of naturals with 0 and with every successor
\* has them all. It is stated of a set and not of a predicate, so that it can be cited.

LEMMA NatSets ==
  ASSUME NEW S, 0 \in S, \A n \in Nat : n \in S => n + 1 \in S
  PROVE  Nat \subseteq S
<1> DEFINE T == Nat \ S
           R == OpToRel(<, Nat)
<1>1. SUFFICES ASSUME T # {} PROVE FALSE
  OBVIOUS
<1>2. IsWellFoundedOn(R, Nat)
  BY NatLessThanWellFounded
<1>3. PICK x \in T : \A y \in T : ~(<<y, x>> \in R)
  <2> HIDE DEF R
  <2> QED BY <1>1, <1>2, WFMin
<1>4. x \in Nat \ {0}
  OBVIOUS
<1>5. x - 1 \in Nat /\ x - 1 < x /\ (x - 1) + 1 = x
  BY <1>4
<1>6. x - 1 \in T
  BY <1>5
<1>7. <<x - 1, x>> \in R
  BY <1>4, <1>5 DEF OpToRel
<1> QED BY <1>3, <1>6, <1>7

\* The values of k.
IsPick(s, I, n, k) ==
    /\ k[0] = << >>
    /\ \A i \in 1..n : k[i] = IF i \in I THEN Append(k[i - 1], s[i]) ELSE k[i - 1]

LEMMA PickExists ==
  ASSUME NEW s, NEW I
  PROVE  \A n \in Nat : \E k : DOMAIN k = 0..n /\ IsPick(s, I, n, k)
<1> DEFINE S == {n \in Nat : \E k : DOMAIN k = 0..n /\ IsPick(s, I, n, k)}
<1>1. 0 \in S
  <2> DEFINE k == [i \in 0..0 |-> << >>]
  <2>1. DOMAIN k = 0..0 /\ IsPick(s, I, 0, k)
    BY DEF IsPick
  <2> HIDE DEF k
  <2> QED BY <2>1
<1>2. ASSUME NEW n \in Nat, n \in S PROVE n + 1 \in S
  <2>1. PICK k : DOMAIN k = 0..n /\ IsPick(s, I, n, k)
    BY <1>2
  <2> DEFINE h == [i \in 0..(n + 1) |-> IF i = n + 1 THEN (IF i \in I THEN Append(k[n], s[i]) ELSE k[n]) ELSE k[i]]
  <2>2. DOMAIN h = 0..(n + 1) /\ \A i \in 0..n : h[i] = k[i]
    OBVIOUS
  <2>3. h[n + 1] = IF n + 1 \in I THEN Append(h[n], s[n + 1]) ELSE h[n]
    OBVIOUS
  <2>4. \A i \in 1..(n + 1) : i = n + 1 \/ (i \in 1..n /\ i - 1 \in 0..n)
    OBVIOUS
  <2>5. (n + 1) - 1 = n /\ 0 \in 0..n
    OBVIOUS
  <2> HIDE DEF h
  <2>6. IsPick(s, I, n + 1, h)
    BY <2>1, <2>2, <2>3, <2>4, <2>5 DEF IsPick
  <2> QED BY <2>2, <2>6
<1> HIDE DEF S
<1>3. Nat \subseteq S
  BY <1>1, <1>2, NatSets
<1> QED BY <1>3 DEF S

LEMMA PickedIs ==
  ASSUME NEW s, NEW I, Len(s) \in Nat
  PROVE  \E k : IsPick(s, I, Len(s), k) /\ Picked(s, I) = k[Len(s)]
<1> DEFINE n == Len(s)
           Eq(k) == k = [i \in 0..n |-> IF i = 0 THEN << >> ELSE IF i \in I THEN Append(k[i - 1], s[i]) ELSE k[i - 1]]
           G == CHOOSE k : Eq(k)
<1>1. PICK k : DOMAIN k = 0..n /\ IsPick(s, I, n, k)
  BY PickExists
<1>2. \E h : Eq(h)
  <2> DEFINE h == [i \in 0..n |-> k[i]]
  <2>1. \A i \in 0..n : h[i] = k[i]
    OBVIOUS
  <2>2. \A i \in 0..n : i = 0 \/ (i \in 1..n /\ i - 1 \in 0..n)
    OBVIOUS
  <2>3. \A i \in 0..n : h[i] = IF i = 0 THEN << >> ELSE IF i \in I THEN Append(h[i - 1], s[i]) ELSE h[i - 1]
    BY <1>1, <2>1, <2>2 DEF IsPick
  <2>4. h = [i \in 0..n |-> h[i]]
    OBVIOUS
  <2> HIDE DEF h
  <2>5. Eq(h)
    BY <2>3, <2>4
  <2> QED BY <2>5
<1>3. Eq(G)
  <2> HIDE DEF Eq
  <2> QED BY <1>2
<1>4. Picked(s, I) = G[n]
  BY DEF Picked
<1>5. IsPick(s, I, n, G)
  <2> HIDE DEF G
  <2>1. \A i \in 1..n : i \in 0..n /\ i # 0
    OBVIOUS
  <2>2. 0 \in 0..n
    OBVIOUS
  <2> QED BY <1>3, <2>1, <2>2 DEF IsPick
<1> HIDE DEF G
<1> QED BY <1>4, <1>5

\* What is picked from a sequence.
PicksOf(s, I, t) ==
    /\ \A j \in DOMAIN t : \E i \in DOMAIN s : i \in I /\ t[j] = s[i]
    /\ \A i \in DOMAIN s : i \in I => \E j \in DOMAIN t : t[j] = s[i]

LEMMA PickedIn ==
  ASSUME NEW X, NEW s \in Seq(X), NEW I
  PROVE  /\ Picked(s, I) \in Seq(X) /\ Len(Picked(s, I)) <= Len(s)
         /\ PicksOf(s, I, Picked(s, I))
<1> DEFINE n == Len(s)
<1>1. n \in Nat /\ DOMAIN s = 1..n /\ \A i \in 1..n : s[i] \in X
  OBVIOUS
<1>2. PICK k : IsPick(s, I, n, k) /\ Picked(s, I) = k[n]
  BY <1>1, PickedIs
<1> DEFINE Good(m) ==
             /\ k[m] \in Seq(X) /\ Len(k[m]) <= m
             /\ \A j \in DOMAIN k[m] : \E i \in 1..m : i \in I /\ k[m][j] = s[i]
             /\ \A i \in 1..m : i \in I => \E j \in DOMAIN k[m] : k[m][j] = s[i]
           S == {m \in Nat : m <= n => Good(m)}
<1>3. 0 \in S
  <2>1. k[0] = << >> /\ 1..0 = {}
    BY <1>2 DEF IsPick
  <2>2. << >> \in Seq(X) /\ Len(<< >>) = 0 /\ DOMAIN << >> = {}
    OBVIOUS
  <2>3. Good(0)
    BY <2>1, <2>2
  <2> QED BY <2>3
<1>4. ASSUME NEW m \in Nat, m \in S PROVE m + 1 \in S
  <2> SUFFICES ASSUME m + 1 <= n PROVE Good(m + 1)
    OBVIOUS
  <2>1. Good(m) /\ m + 1 \in 1..n /\ s[m + 1] \in X
    BY <1>1, <1>4
  <2>2. (m + 1) - 1 = m /\ 1..(m + 1) = (1..m) \cup {m + 1} /\ m <= m + 1
    OBVIOUS
  <2>3. k[m + 1] = IF m + 1 \in I THEN Append(k[m], s[m + 1]) ELSE k[m]
    BY <1>2, <2>1, <2>2 DEF IsPick
  <2>4. CASE m + 1 \in I
    <3> DEFINE t == Append(k[m], s[m + 1])
    <3>1. /\ t \in Seq(X) /\ Len(t) = Len(k[m]) + 1 /\ Len(k[m]) \in Nat
          /\ DOMAIN k[m] = 1..Len(k[m]) /\ DOMAIN t = 1..(Len(k[m]) + 1)
          /\ \A j \in 1..Len(k[m]) : t[j] = k[m][j]
          /\ t[Len(k[m]) + 1] = s[m + 1]
      BY <2>1
    <3>2. Len(t) <= m + 1
      BY <2>1, <3>1
    <3>3. \A j \in DOMAIN t : \E i \in 1..(m + 1) : i \in I /\ t[j] = s[i]
      <4> SUFFICES ASSUME NEW j \in DOMAIN t PROVE \E i \in 1..(m + 1) : i \in I /\ t[j] = s[i]
        OBVIOUS
      <4>1. j \in DOMAIN k[m] \/ j = Len(k[m]) + 1
        BY <3>1
      <4>2. CASE j \in DOMAIN k[m]
        <5>1. PICK i \in 1..m : i \in I /\ k[m][j] = s[i]
          BY <2>1, <4>2
        <5> QED BY <2>2, <3>1, <4>2, <5>1
      <4>3. CASE j = Len(k[m]) + 1
        BY <2>2, <2>4, <3>1, <4>3
      <4> QED BY <4>1, <4>2, <4>3
    <3>4. \A i \in 1..(m + 1) : i \in I => \E j \in DOMAIN t : t[j] = s[i]
      <4> SUFFICES ASSUME NEW i \in 1..(m + 1), i \in I PROVE \E j \in DOMAIN t : t[j] = s[i]
        OBVIOUS
      <4>1. CASE i \in 1..m
        <5>1. PICK j \in DOMAIN k[m] : k[m][j] = s[i]
          BY <2>1, <4>1
        <5>2. j \in DOMAIN t /\ t[j] = s[i]
          BY <3>1, <5>1
        <5> QED BY <5>2
      <4>2. CASE i = m + 1
        <5>1. Len(k[m]) + 1 \in DOMAIN t
          BY <3>1
        <5> QED BY <3>1, <4>2, <5>1
      <4> QED BY <2>2, <4>1, <4>2
    <3>5. k[m + 1] = t
      BY <2>3, <2>4
    <3> HIDE DEF t
    <3> QED BY <3>1, <3>2, <3>3, <3>4, <3>5
  <2>5. CASE m + 1 \notin I
    <3>1. k[m + 1] = k[m]
      BY <2>3, <2>5
    <3>2. Len(k[m]) \in Nat
      BY <2>1
    <3> QED BY <2>1, <2>2, <2>5, <3>1, <3>2
  <2> QED BY <2>4, <2>5
<1> HIDE DEF S
<1>5. Nat \subseteq S
  BY <1>3, <1>4, NatSets
<1>6. Good(n)
  BY <1>1, <1>5 DEF S
<1> QED BY <1>1, <1>2, <1>6 DEF PicksOf

LEMMA PickedHas ==
  ASSUME NEW X, NEW s \in Seq(X), NEW I, NEW i \in DOMAIN s, i \in I
  PROVE  \E j \in DOMAIN Picked(s, I) : Picked(s, I)[j] = s[i]
<1>1. PicksOf(s, I, Picked(s, I))
  BY PickedIn
<1> QED BY <1>1 DEF PicksOf

LEMMA PickedFrom ==
  ASSUME NEW X, NEW s \in Seq(X), NEW I, NEW j \in DOMAIN Picked(s, I)
  PROVE  \E i \in DOMAIN s : i \in I /\ Picked(s, I)[j] = s[i]
<1>1. PicksOf(s, I, Picked(s, I))
  BY PickedIn
<1> QED BY <1>1 DEF PicksOf

LEMMA PickedSame ==
  ASSUME NEW X, NEW s \in Seq(X), NEW t \in Seq(X), NEW I, NEW J, Len(s) = Len(t),
         \A i \in DOMAIN s : (i \in I <=> i \in J) /\ (i \in I => s[i] = t[i])
  PROVE  Picked(s, I) = Picked(t, J)
<1> DEFINE n == Len(s)
<1>1. n \in Nat /\ DOMAIN s = 1..n
  OBVIOUS
<1>2. PICK k : IsPick(s, I, n, k) /\ Picked(s, I) = k[n]
  BY <1>1, PickedIs
<1>3. PICK h : IsPick(t, J, n, h) /\ Picked(t, J) = h[n]
  BY <1>1, PickedIs
<1> DEFINE S == {m \in Nat : m <= n => k[m] = h[m]}
<1>4. 0 \in S
  BY <1>2, <1>3 DEF IsPick
<1>5. ASSUME NEW m \in Nat, m \in S PROVE m + 1 \in S
  <2> SUFFICES ASSUME m + 1 <= n PROVE k[m + 1] = h[m + 1]
    OBVIOUS
  <2>1. k[m] = h[m] /\ m + 1 \in 1..n /\ (m + 1) - 1 = m
    BY <1>1, <1>5
  <2>2. k[m + 1] = IF m + 1 \in I THEN Append(k[m], s[m + 1]) ELSE k[m]
    BY <1>2, <2>1 DEF IsPick
  <2>3. h[m + 1] = IF m + 1 \in J THEN Append(h[m], t[m + 1]) ELSE h[m]
    BY <1>3, <2>1 DEF IsPick
  <2> QED BY <1>1, <2>1, <2>2, <2>3
<1> HIDE DEF S
<1>6. Nat \subseteq S
  BY <1>4, <1>5, NatSets
<1> QED BY <1>1, <1>2, <1>3, <1>6 DEF S

LEMMA PickedAppend ==
  ASSUME NEW X, NEW s \in Seq(X), NEW x \in X, NEW I
  PROVE  Picked(Append(s, x), I) =
            IF Len(s) + 1 \in I THEN Append(Picked(s, I), x) ELSE Picked(s, I)
<1> DEFINE n == Len(s)
           t == Append(s, x)
<1>1. n \in Nat /\ DOMAIN s = 1..n /\ Len(t) = n + 1 /\ n + 1 \in Nat
      /\ t[n + 1] = x /\ \A i \in 1..n : t[i] = s[i]
  OBVIOUS
<1>2. PICK k : IsPick(s, I, n, k) /\ Picked(s, I) = k[n]
  BY <1>1, PickedIs
<1>3. PICK h : IsPick(t, I, n + 1, h) /\ Picked(t, I) = h[n + 1]
  BY <1>1, PickedIs
<1> DEFINE S == {m \in Nat : m <= n => k[m] = h[m]}
<1> HIDE DEF t
<1>4. 0 \in S
  BY <1>2, <1>3 DEF IsPick
<1>5. ASSUME NEW m \in Nat, m \in S PROVE m + 1 \in S
  <2> SUFFICES ASSUME m + 1 <= n PROVE k[m + 1] = h[m + 1]
    OBVIOUS
  <2>1. k[m] = h[m] /\ m + 1 \in 1..n /\ m + 1 \in 1..(n + 1) /\ (m + 1) - 1 = m
    BY <1>1, <1>5
  <2>2. k[m + 1] = IF m + 1 \in I THEN Append(k[m], s[m + 1]) ELSE k[m]
    BY <1>2, <2>1 DEF IsPick
  <2>3. h[m + 1] = IF m + 1 \in I THEN Append(h[m], t[m + 1]) ELSE h[m]
    BY <1>3, <2>1 DEF IsPick
  <2> QED BY <1>1, <2>1, <2>2, <2>3
<1> HIDE DEF S
<1>6. Nat \subseteq S
  BY <1>4, <1>5, NatSets
<1>7. k[n] = h[n]
  BY <1>1, <1>6 DEF S
<1>8. n + 1 \in 1..(n + 1) /\ (n + 1) - 1 = n
  BY <1>1
<1>9. h[n + 1] = IF n + 1 \in I THEN Append(h[n], t[n + 1]) ELSE h[n]
  BY <1>3, <1>8 DEF IsPick
<1> QED BY <1>1, <1>2, <1>3, <1>7, <1>9 DEF t

LEMMA PickedAll ==
  ASSUME NEW X, NEW s \in Seq(X), NEW I, DOMAIN s \subseteq I
  PROVE  Picked(s, I) = s
<1> DEFINE n == Len(s)
<1>1. n \in Nat /\ DOMAIN s = 1..n /\ s \in [1..n -> X]
  OBVIOUS
<1>2. PICK k : IsPick(s, I, n, k) /\ Picked(s, I) = k[n]
  BY <1>1, PickedIs
<1> DEFINE Good(m) == k[m] \in Seq(X) /\ Len(k[m]) = m /\ \A i \in 1..m : k[m][i] = s[i]
           S == {m \in Nat : m <= n => Good(m)}
<1>3. 0 \in S
  <2>1. k[0] = << >> /\ 1..0 = {} /\ << >> \in Seq(X) /\ Len(<< >>) = 0
    BY <1>2 DEF IsPick
  <2> QED BY <2>1
<1>4. ASSUME NEW m \in Nat, m \in S PROVE m + 1 \in S
  <2> SUFFICES ASSUME m + 1 <= n PROVE Good(m + 1)
    OBVIOUS
  <2>1. Good(m) /\ m + 1 \in 1..n /\ (m + 1) - 1 = m /\ s[m + 1] \in X
    BY <1>1, <1>4
  <2>2. k[m + 1] = Append(k[m], s[m + 1])
    BY <1>1, <1>2, <2>1 DEF IsPick
  <2>3. \A i \in 1..(m + 1) : i \in 1..m \/ i = m + 1
    OBVIOUS
  <2> QED BY <2>1, <2>2, <2>3
<1> HIDE DEF S
<1>5. Nat \subseteq S
  BY <1>3, <1>4, NatSets
<1>6. Good(n)
  BY <1>1, <1>5 DEF S
<1> QED BY <1>1, <1>2, <1>6

------------------------------------------------------------------------------
\* The inductive invariant of the semantic index.

ContentType == [entry : Nat, text : Nat, known : Nat]
RowType == [path : Files, model : Models, key : Nat, of : ContentType]
Entries == [shard : Shards, model : Models, rows : Seq(RowType), raced : BOOLEAN]
Loads == [shard : Shards, model : Models, rows : Seq(RowType)]
SemanticStages == {"down", "idle", "look", "keys", "embed", "gate", "ann", "names", "images"}

SemanticTypes ==
    /\ disk \in [Files -> Nat] /\ hash \in [Files -> Nat] /\ owed \in [Files -> Nat]
    /\ live \subseteq Files /\ words \in [Files -> Nat]
    /\ table \in [Shards -> Seq(RowType)]
    /\ ann \in [Shards -> [rows : Seq(Files), names : Seq(Files)]]
    /\ resident \in Seq(Entries)
    /\ load # Idle => load \in Loads
    /\ legacy \in Seq(RowType)

RunTypes ==
    /\ run = [stage |-> run.stage, back |-> run.back, shards |-> run.shards, todo |-> run.todo,
              keys |-> run.keys, known |-> run.known, of |-> run.of, job |-> run.job, late |-> run.late]
    /\ run.stage \in SemanticStages
    /\ run.shards \subseteq Shards /\ run.todo \subseteq Files
    /\ run.late \in BOOLEAN

\* What the databases know is not newer than what the disk has, and what a run has read not
\* newer than either, as long as there is text at all.
Honest(key, of) == key <= of.entry /\ (of.text = 0 \/ of.text >= of.known)
HashOld == \A p \in Files : disk[p] # 0 => hash[p] <= disk[p] /\ words[p] <= disk[p]
KeysOld ==
    /\ \A p \in DOMAIN run.keys : p \in Files /\ run.keys[p] \in Nat /\ run.keys[p] <= hash[p]
    /\ run.stage \in {"embed", "images", "gate"} => run.todo \subseteq DOMAIN run.keys
    /\ \A p \in DOMAIN run.of : /\ p \in DOMAIN run.keys /\ run.of[p] \in ContentType
                                /\ Honest(run.keys[p], run.of[p])
    /\ run.stage \notin {"embed", "images"} => DOMAIN run.of = {}
    /\ run.stage = "gate" => run.back \in {"embed", "images"}
    /\ run.stage = "ann" => run.todo = {}
Embedding == run.stage = "embed" \/ (run.stage = "gate" /\ run.back = "embed")
KnownOld ==
    /\ \A p \in DOMAIN run.known : /\ p \in Files /\ run.known[p] \in Nat
                                   /\ disk[p] # 0 => run.known[p] <= disk[p]
                                   /\ words[p] # 0 => run.known[p] <= words[p]
    /\ Embedding => run.todo \subseteq DOMAIN run.known
LegacyOld == \A i \in DOMAIN legacy : Honest(legacy[i].key, legacy[i].of)
RowsOld == \A s \in Shards : \A i \in DOMAIN table[s] : Honest(table[s][i].key, table[s][i].of)
DownIsEmpty == run.stage = "down" => resident = << >> /\ load = Idle

VectorsInv ==
    /\ SemanticTypes /\ RunTypes /\ HashOld /\ KeysOld /\ KnownOld /\ LegacyOld /\ DownIsEmpty
    /\ ResidentFresh /\ RowsOld

\* What a look has seen to, and what the approximate index has.
OwedIsLive == \A p \in Files : owed[p] # 0 => p \in live /\ owed[p] <= hash[p]
RunEnded == run.job = "completed" => run.stage = "idle"

HasRow(p) ==
    \E i \in DOMAIN table[ShardOf[p]] :
        /\ table[ShardOf[p]][i].path = p /\ table[ShardOf[p]][i].model = "text"
        /\ table[ShardOf[p]][i].key >= owed[p]
NamedIn(s, p) ==
    \/ ann[s].names = << >>
    \/ \E i \in DOMAIN ann[s].rows : i \in DOMAIN ann[s].names /\ ann[s].names[i] = p
    \/ Len(RowsOf(s, "text")) < IvfMinItems

AfterImages == run.stage = "images" \/ (run.stage = "gate" /\ run.back = "images") \/ run.job = "completed"
LookDone(s) == \/ AfterImages \/ run.stage \in {"ann", "names"}
               \/ run.stage = "look" /\ run.todo = {} /\ s \notin run.shards
AnnDone(s) == AfterImages \/ (run.stage \in {"ann", "names"} /\ s \notin run.shards)

Looked == \A p \in Files : owed[p] # 0 /\ LookDone(ShardOf[p]) => HasRow(p)
Named == \A p \in Files : owed[p] # 0 /\ AnnDone(ShardOf[p]) => NamedIn(ShardOf[p], p)
Building ==
    run.stage = "names" => \E s \in run.shards : /\ run.todo = Mine(s, Files)
                                                 /\ ann[s].rows = Paths(RowsOf(s, "text"))

FoundInv == OwedIsLive /\ RunEnded /\ Building /\ (~run.late => Looked /\ Named)

LEMMA SeqSets ==
  ASSUME NEW X, NEW S, << >> \in S,
         \A s \in Seq(X), x \in X : s \in S => Append(s, x) \in S
  PROVE  Seq(X) \subseteq S
<1> DEFINE T == {n \in Nat : \A s \in Seq(X) : Len(s) = n => s \in S}
<1>1. 0 \in T
  <2>1. \A s \in Seq(X) : Len(s) = 0 => s = << >>
    OBVIOUS
  <2> QED BY <2>1
<1>2. ASSUME NEW n \in Nat, n \in T PROVE n + 1 \in T
  <2> SUFFICES ASSUME NEW s \in Seq(X), Len(s) = n + 1 PROVE s \in S
    BY <1>2
  <2>1. s # << >>
    OBVIOUS
  <2>2. PICK r \in Seq(X), x \in X : s = Append(r, x)
    BY <2>1, SequenceEmptyOrAppend
  <2>3. Len(r) = n
    BY <2>2
  <2> QED BY <1>2, <2>2, <2>3
<1> HIDE DEF T
<1>3. Nat \subseteq T
  BY <1>1, <1>2, NatSets
<1> QED BY <1>3 DEF T

\* Rows of a model.
LEMMA RowsIn ==
  ASSUME NEW rows \in Seq(RowType), NEW m
  PROVE  Rows(rows, m) \in Seq(RowType) /\ Len(Rows(rows, m)) <= Len(rows)
<1> DEFINE I == {i \in DOMAIN rows : rows[i].model = m}
<1>1. Rows(rows, m) = Picked(rows, I)
  BY DEF Rows
<1> HIDE DEF I
<1> QED BY <1>1, PickedIn

LEMMA RowsHave ==
  ASSUME NEW rows \in Seq(RowType), NEW m, NEW i \in DOMAIN rows, rows[i].model = m
  PROVE  \E j \in DOMAIN Rows(rows, m) : Rows(rows, m)[j] = rows[i]
<1> DEFINE I == {j \in DOMAIN rows : rows[j].model = m}
<1>1. Rows(rows, m) = Picked(rows, I) /\ i \in I
  BY DEF Rows
<1> HIDE DEF I
<1> QED BY <1>1, PickedHas

LEMMA RowsAppend ==
  ASSUME NEW rows \in Seq(RowType), NEW row \in RowType, NEW m
  PROVE  Rows(Append(rows, row), m) =
             IF row.model = m THEN Append(Rows(rows, m), row) ELSE Rows(rows, m)
<1> DEFINE t == Append(rows, row)
           I == {i \in DOMAIN rows : rows[i].model = m}
           J == {i \in DOMAIN t : t[i].model = m}
<1>1. /\ DOMAIN rows = 1..Len(rows) /\ Len(rows) \in Nat /\ DOMAIN t = 1..(Len(rows) + 1)
      /\ t[Len(rows) + 1] = row /\ \A i \in 1..Len(rows) : t[i] = rows[i]
  OBVIOUS
<1>2. Rows(t, m) = IF Len(rows) + 1 \in J THEN Append(Picked(rows, J), row) ELSE Picked(rows, J)
  <2>1. Rows(t, m) = Picked(t, J)
    BY DEF Rows
  <2> HIDE DEF J
  <2> QED BY <2>1, PickedAppend
<1>3. Len(rows) + 1 \in J <=> row.model = m
  BY <1>1
<1>4. \A i \in DOMAIN rows : i \in J <=> i \in I
  BY <1>1
<1>5. Picked(rows, J) = Picked(rows, I)
  <2> HIDE DEF I, J
  <2> QED BY <1>4, PickedSame
<1> QED BY <1>2, <1>3, <1>5 DEF Rows

\* What is dropped makes no model have more rows.
LEMMA RowsFewer ==
  ASSUME NEW I, NEW m
  PROVE  \A rows \in Seq(RowType) : Len(Rows(Picked(rows, I), m)) <= Len(Rows(rows, m))
<1> DEFINE S == {rows \in Seq(RowType) : Len(Rows(Picked(rows, I), m)) <= Len(Rows(rows, m))}
<1>1. << >> \in S
  <2>1. << >> \in Seq(RowType) /\ Len(<< >>) = 0
    OBVIOUS
  <2>2. Picked(<< >>, I) = << >>
    <3>1. Picked(<< >>, I) \in Seq(RowType) /\ Len(Picked(<< >>, I)) <= 0
      BY <2>1, PickedIn
    <3> QED BY <3>1
  <2>3. Len(Rows(<< >>, m)) \in Nat
    BY <2>1, RowsIn
  <2> QED BY <2>1, <2>2, <2>3
<1>2. ASSUME NEW rows \in Seq(RowType), NEW row \in RowType, rows \in S
      PROVE  Append(rows, row) \in S
  <2> DEFINE p == Picked(rows, I)
             t == Append(rows, row)
  <2>1. p \in Seq(RowType) /\ t \in Seq(RowType)
    BY PickedIn
  <2>2. Picked(t, I) = IF Len(rows) + 1 \in I THEN Append(p, row) ELSE p
    BY PickedAppend
  <2>3. Rows(t, m) = IF row.model = m THEN Append(Rows(rows, m), row) ELSE Rows(rows, m)
    BY RowsAppend
  <2>4. Rows(Append(p, row), m) = IF row.model = m THEN Append(Rows(p, m), row) ELSE Rows(p, m)
    BY <2>1, RowsAppend
  <2>5. Rows(rows, m) \in Seq(RowType) /\ Rows(p, m) \in Seq(RowType)
    BY <2>1, RowsIn
  <2>6. Len(Rows(p, m)) <= Len(Rows(rows, m))
    BY <1>2
  <2>7. /\ Len(Append(Rows(rows, m), row)) = Len(Rows(rows, m)) + 1
        /\ Len(Append(Rows(p, m), row)) = Len(Rows(p, m)) + 1
        /\ Len(Rows(rows, m)) \in Nat /\ Len(Rows(p, m)) \in Nat
    BY <2>5
  <2> HIDE DEF p
  <2>8. Len(Rows(Picked(t, I), m)) <= Len(Rows(t, m))
    BY <2>2, <2>3, <2>4, <2>6, <2>7
  <2> QED BY <2>1, <2>8
<1> HIDE DEF S
<1>3. Seq(RowType) \subseteq S
  BY <1>1, <1>2, SeqSets
<1> QED BY <1>3 DEF S

\* An upsert.
LEMMA UpsertedIs ==
  ASSUME NEW rows \in Seq(RowType), NEW row \in RowType
  PROVE  /\ Upserted(rows, row) \in Seq(RowType)
         /\ \E j \in DOMAIN Upserted(rows, row) : Upserted(rows, row)[j] = row
         /\ \A j \in DOMAIN Upserted(rows, row) :
               Upserted(rows, row)[j] = row \/ \E i \in DOMAIN rows : Upserted(rows, row)[j] = rows[i]
         /\ \A i \in DOMAIN rows : rows[i].path # row.path \/ rows[i].model # row.model =>
               \E j \in DOMAIN Upserted(rows, row) : Upserted(rows, row)[j] = rows[i]
<1> DEFINE same == {i \in DOMAIN rows : rows[i].path = row.path /\ rows[i].model = row.model}
           u == [i \in DOMAIN rows |-> IF i \in same THEN row ELSE rows[i]]
           t == Append(rows, row)
<1>1. DOMAIN rows = 1..Len(rows) /\ Len(rows) \in Nat /\ \A i \in DOMAIN rows : rows[i] \in RowType
  OBVIOUS
<1>2. CASE same = {}
  <2>1. Upserted(rows, row) = t
    BY <1>2 DEF Upserted
  <2>2. /\ t \in Seq(RowType) /\ DOMAIN t = 1..(Len(rows) + 1)
        /\ t[Len(rows) + 1] = row /\ \A i \in 1..Len(rows) : t[i] = rows[i]
    OBVIOUS
  <2> HIDE DEF t
  <2>3. \A j \in DOMAIN t : j = Len(rows) + 1 \/ j \in DOMAIN rows
    BY <1>1, <2>2
  <2>4. Len(rows) + 1 \in DOMAIN t /\ \A i \in DOMAIN rows : i \in DOMAIN t
    BY <1>1, <2>2
  <2>5. \A j \in DOMAIN t : t[j] = row \/ \E i \in DOMAIN rows : t[j] = rows[i]
    BY <1>1, <2>2, <2>3
  <2>6. \A i \in DOMAIN rows : \E j \in DOMAIN t : t[j] = rows[i]
    BY <1>1, <2>2, <2>4
  <2> QED BY <2>1, <2>2, <2>4, <2>5, <2>6
<1>3. CASE same # {}
  <2>1. Upserted(rows, row) = u
    BY <1>3 DEF Upserted
  <2>2. u \in Seq(RowType) /\ DOMAIN u = DOMAIN rows
    BY <1>1
  <2>3. \A i \in DOMAIN u : u[i] = IF i \in same THEN row ELSE rows[i]
    OBVIOUS
  <2> HIDE DEF u
  <2> QED BY <1>3, <2>1, <2>2, <2>3
<1> QED BY <1>2, <1>3

LEMMA UpsertedOther ==
  ASSUME NEW rows \in Seq(RowType), NEW row \in RowType, NEW m, m # row.model
  PROVE  Rows(Upserted(rows, row), m) = Rows(rows, m)
<1> DEFINE same == {i \in DOMAIN rows : rows[i].path = row.path /\ rows[i].model = row.model}
           u == [i \in DOMAIN rows |-> IF i \in same THEN row ELSE rows[i]]
           I == {i \in DOMAIN rows : rows[i].model = m}
           J == {i \in DOMAIN u : u[i].model = m}
<1>1. CASE same = {}
  BY <1>1, RowsAppend DEF Upserted
<1>2. CASE same # {}
  <2>1. Upserted(rows, row) = u
    BY <1>2 DEF Upserted
  <2>2. DOMAIN rows = 1..Len(rows) /\ Len(rows) \in Nat /\ \A i \in DOMAIN rows : rows[i] \in RowType
    OBVIOUS
  <2>3. u \in Seq(RowType) /\ DOMAIN u = DOMAIN rows /\ Len(u) = Len(rows)
    BY <2>2
  <2>4. \A i \in DOMAIN u : u[i] = IF i \in same THEN row ELSE rows[i]
    OBVIOUS
  <2>5. \A i \in DOMAIN u : (i \in J <=> i \in I) /\ (i \in J => u[i] = rows[i])
    BY <2>3, <2>4
  <2>6. Picked(u, J) = Picked(rows, I)
    <3> HIDE DEF u, I, J
    <3> QED BY <2>3, <2>5, PickedSame
  <2> QED BY <2>1, <2>6 DEF Rows
<1> QED BY <1>1, <1>2

LEMMA SemanticInitInv == SemanticInit => VectorsInv
<1> SUFFICES ASSUME SemanticInit PROVE VectorsInv
  OBVIOUS
<1> USE DEF SemanticInit
<1>1. << >> \in Seq(RowType) /\ << >> \in Seq(Files) /\ << >> \in Seq(Entries) /\ DOMAIN << >> = {}
  OBVIOUS
<1>2. legacy = << >> \/ \E p \in Files : legacy = <<Row(p, "text", 1, Content(1, 0, 0))>>
  OBVIOUS
<1>3. \A p \in Files : Row(p, "text", 1, Content(1, 0, 0)) \in RowType /\ Row(p, "text", 1, Content(1, 0, 0)).key = 1
                       /\ Row(p, "text", 1, Content(1, 0, 0)).of = Content(1, 0, 0)
  BY DEF Row, RowType, Models, Content, ContentType
<1>4. legacy \in Seq(RowType) /\ LegacyOld
  <2>1. CASE legacy = << >>
    BY <1>1, <2>1 DEF LegacyOld
  <2>2. CASE legacy # << >>
    <3>1. PICK p \in Files : legacy = <<Row(p, "text", 1, Content(1, 0, 0))>>
      BY <1>2, <2>2
    <3> DEFINE r == Row(p, "text", 1, Content(1, 0, 0))
    <3>2. r \in RowType /\ r.key = 1 /\ r.of = Content(1, 0, 0)
      BY <1>3
    <3> HIDE DEF r
    <3>3. <<r>> \in Seq(RowType) /\ DOMAIN <<r>> = {1} /\ <<r>>[1] = r
      BY <3>2
    <3>4. legacy = <<r>>
      BY <3>1 DEF r
    <3>5. legacy \in Seq(RowType) /\ DOMAIN legacy = {1} /\ legacy[1] = r
      BY <3>3, <3>4
    <3> QED BY <3>2, <3>5 DEF LegacyOld, Honest, Content
  <2> QED BY <2>1, <2>2
<1>5. SemanticTypes
  BY <1>1, <1>4 DEF SemanticTypes, NoIndex
<1>6. /\ run.stage = "down" /\ run.back = "idle" /\ run.shards = {} /\ run.todo = {} /\ run.keys = << >>
      /\ run.of = << >> /\ run.known = << >> /\ run.job = "none" /\ run.late = FALSE
  BY DEF NoRun
<1>7. RunTypes
  BY DEF RunTypes, NoRun, SemanticStages
<1>8. HashOld /\ KeysOld /\ KnownOld /\ DownIsEmpty
  BY <1>1, <1>6 DEF HashOld, KeysOld, KnownOld, Embedding, DownIsEmpty
<1>9. ResidentFresh /\ RowsOld
  BY <1>1 DEF ResidentFresh, RowsOld
<1> QED BY <1>4, <1>5, <1>7, <1>8, <1>9 DEF VectorsInv

\* What a part of the invariant depends on.
LEMMA LibraryKept ==
  ASSUME VectorsInv, UNCHANGED <<table, resident>>
  PROVE  ResidentFresh' /\ RowsOld'
BY DEF VectorsInv, ResidentFresh, RowsOld, RowsOf

\* A step that reads no text, and after which no batch is to be embedded that was not before.
LEMMA KnownKept ==
  ASSUME KnownOld, UNCHANGED <<disk, words>>, run'.known = run.known \/ run'.known = << >>,
         Embedding' => Embedding /\ run'.todo \subseteq run.todo /\ run'.known = run.known
  PROVE  KnownOld'
BY DEF KnownOld

LEMMA KeptFresh ==
  ASSUME ResidentFresh,
         \A j \in DOMAIN resident' : \E i \in DOMAIN resident :
             /\ resident'[j] = resident[i]
             /\ Rows(table'[resident[i].shard], resident[i].model)
                    = Rows(table[resident[i].shard], resident[i].model)
  PROVE  ResidentFresh'
BY DEF ResidentFresh, RowsOf

LEMMA InvalidatedIs ==
  ASSUME resident \in Seq(Entries), NEW s, NEW models
  PROVE  /\ Invalidated(s, models) \in Seq(Entries)
         /\ \A j \in DOMAIN Invalidated(s, models) : \E i \in DOMAIN resident :
               /\ Invalidated(s, models)[j] = resident[i]
               /\ resident[i].shard # s \/ resident[i].model \notin models
<1> DEFINE I == {i \in DOMAIN resident : resident[i].shard # s \/ resident[i].model \notin models}
<1>1. Invalidated(s, models) = Picked(resident, I)
  BY DEF Invalidated
<1>2. \A i \in I : resident[i].shard # s \/ resident[i].model \notin models
  OBVIOUS
<1> HIDE DEF I
<1>3. Picked(resident, I) \in Seq(Entries)
  BY PickedIn
<1>4. \A j \in DOMAIN Picked(resident, I) : \E i \in DOMAIN resident : i \in I /\ Picked(resident, I)[j] = resident[i]
  BY PickedFrom
<1> QED BY <1>1, <1>2, <1>3, <1>4

\* The steps that leave the library alone.
LEMMA RunMoves ==
  ASSUME VectorsInv, UNCHANGED <<disk, hash, live, words, table, ann, resident, load, legacy>>,
         owed' \in [Files -> Nat], RunTypes', KeysOld', KnownOld', run'.stage = "down" => run.stage = "down"
  PROVE  VectorsInv'
<1>1. SemanticTypes' /\ HashOld' /\ LegacyOld' /\ DownIsEmpty'
  BY DEF VectorsInv, SemanticTypes, HashOld, LegacyOld, DownIsEmpty
<1> QED BY <1>1, LibraryKept DEF VectorsInv

LEMMA EnumeratedIn ==
  ASSUME NEW shards \in Enumerated
  PROVE  shards \subseteq Shards
BY SemanticAssumption DEF Enumerated, KnownShards

\* What a vector is made of is not older than its key.
LEMMA MadeIs ==
  ASSUME VectorsInv, NEW p \in Files, Embed(p), NEW made \in Made(p)
  PROVE  p \in DOMAIN run.keys /\ made \in ContentType /\ Honest(run.keys[p], made)
<1>1. /\ run.stage \in {"embed", "images"} /\ p \in DOMAIN run.keys /\ run.keys[p] \in Nat
      /\ run.keys[p] <= hash[p] /\ hash[p] \in Nat /\ disk[p] \in Nat /\ words[p] \in Nat
      /\ disk[p] # 0 => hash[p] <= disk[p]
  BY DEF Embed, VectorsInv, KeysOld, HashOld, SemanticTypes
<1>2. CASE RunAt("embed")
  <2>1. run.known[p] \in Nat /\ (words[p] # 0 => run.known[p] <= words[p])
    BY <1>2 DEF RunAt, Embed, VectorsInv, KnownOld, Embedding
  <2>2. PICK text \in {words[p], 0} : made = Content(hash[p], text, run.known[p])
    BY <1>2 DEF Made
  <2> QED BY <1>1, <2>1, <2>2 DEF Content, ContentType, Honest
<1>3. CASE ~RunAt("embed")
  <2>1. disk[p] # 0 /\ made = Content(disk[p], 0, 0)
    BY <1>3 DEF Made
  <2> QED BY <1>1, <2>1 DEF Content, ContentType, Honest
<1> QED BY <1>2, <1>3

LEMMA WorksInv ==
  ASSUME VectorsInv,
         \/ ReadKeys \/ LookAgain \/ Gate \/ GateTimesOut \/ ToImages \/ ImagesFail \/ FinishRun \/ RunFails
         \/ \E p \in Files : Embed(p) \/ EmbedFails(p)
  PROVE  VectorsInv'
<1>0. /\ RunTypes /\ KeysOld /\ KnownOld /\ hash \in [Files -> Nat] /\ disk \in [Files -> Nat]
      /\ words \in [Files -> Nat] /\ HashOld /\ owed \in [Files -> Nat] /\ DOMAIN << >> = {}
  BY DEF VectorsInv, SemanticTypes
<1> USE DEF UNCHANGED_Library, UNCHANGED_Outside
<1>1. CASE ReadKeys
  <2>1. /\ RunTypes' /\ run'.stage = "embed" /\ run'.keys = [p \in run.todo |-> hash[p]]
        /\ run'.known = [p \in run.todo |-> words[p]]
        /\ run'.todo = run.todo /\ run'.of = run.of /\ run.stage = "keys"
    BY <1>0, <1>1 DEF ReadKeys, RunAt, RunTypes, SemanticStages
  <2>2. KeysOld'
    BY <1>0, <1>1, <2>1 DEF ReadKeys, KeysOld, RunTypes
  <2>3. UNCHANGED <<disk, words>> /\ run.todo \subseteq Files
    BY <1>0, <1>1 DEF ReadKeys, RunTypes
  <2>4. KnownOld'
    BY <1>0, <2>1, <2>3 DEF KnownOld, HashOld
  <2> QED BY <1>0, <1>1, <2>1, <2>2, <2>4, RunMoves DEF ReadKeys
<1>2. CASE LookAgain
  <2>0. PICK shards \in Enumerated : /\ run' = [run EXCEPT !.stage = "look", !.shards = shards, !.late = FALSE]
                                     /\ owed' = PassesOver(shards)
    BY <1>2 DEF LookAgain
  <2>1. /\ RunTypes' /\ run'.stage = "look" /\ run'.keys = run.keys /\ run'.known = run.known
        /\ run'.todo = run.todo /\ run'.of = run.of
    BY <1>0, <2>0, EnumeratedIn DEF RunTypes, SemanticStages
  <2>2. UNCHANGED <<disk, hash, live, words, table, ann, resident, load, legacy>>
    BY <1>2 DEF LookAgain
  <2>3. KeysOld'
    BY <1>0, <1>2, <2>1, <2>2 DEF LookAgain, RunAt, KeysOld, RunTypes
  <2>4. KnownOld'
    BY <1>0, <2>1, <2>2, KnownKept DEF Embedding
  <2>5. owed' \in [Files -> Nat]
    BY <1>0, <2>0 DEF PassesOver
  <2> QED BY <2>1, <2>2, <2>3, <2>4, <2>5, RunMoves
<1>3. CASE Gate \/ GateTimesOut
  <2>1. /\ RunTypes' /\ run'.stage = run.back /\ run.back \in {"embed", "images"} /\ run'.keys = run.keys
        /\ run'.known = run.known
        /\ run'.todo = run.todo /\ run'.of = run.of /\ run.stage = "gate"
    BY <1>0, <1>3 DEF Gate, GateTimesOut, RunAt, RunTypes, SemanticStages, KeysOld
  <2>2. UNCHANGED <<disk, hash, words>>
    BY <1>3 DEF Gate, GateTimesOut
  <2>3. KeysOld'
    BY <1>0, <2>1, <2>2 DEF KeysOld, RunTypes
  <2>4. KnownOld'
    BY <1>0, <2>1, <2>2, KnownKept DEF Embedding
  <2> QED BY <1>0, <1>3, <2>1, <2>3, <2>4, RunMoves DEF Gate, GateTimesOut
<1>4. CASE ToImages
  <2>0. PICK shards \in Enumerated : run' = [run EXCEPT !.stage = "images", !.shards = shards]
    BY <1>4 DEF ToImages
  <2>1. /\ RunTypes' /\ run'.stage = "images" /\ run'.keys = run.keys /\ run'.known = run.known
        /\ run'.todo = run.todo /\ run'.of = run.of /\ run.stage = "ann"
    BY <1>0, <1>4, <2>0, EnumeratedIn DEF ToImages, RunAt, RunTypes, SemanticStages
  <2>2. KeysOld'
    BY <1>0, <1>4, <2>1 DEF ToImages, KeysOld, RunTypes
  <2>3. KnownOld'
    BY <1>0, <1>4, <2>1, KnownKept DEF ToImages, Embedding
  <2> QED BY <1>0, <1>4, <2>1, <2>2, <2>3, RunMoves DEF ToImages
<1>5. CASE FinishRun \/ RunFails
  <2>1. /\ RunTypes' /\ run'.stage = "idle" /\ run'.keys = << >> /\ run'.known = << >>
        /\ run'.todo = {} /\ run'.of = << >>
    BY <1>0, <1>5 DEF FinishRun, RunFails, RunAt, RunTypes, SemanticStages, NoRun
  <2>2. KeysOld' /\ KnownOld'
    BY <1>0, <2>1 DEF KeysOld, KnownOld, Embedding
  <2> QED BY <1>0, <1>5, <2>1, <2>2, RunMoves DEF FinishRun, RunFails
<1>6. ASSUME NEW p \in Files, Embed(p) PROVE VectorsInv'
  <2>0. UNCHANGED <<disk, hash, live, words, table, ann, resident, load, legacy, owed>>
    BY <1>6 DEF Embed
  <2>1. run.stage \in {"embed", "images"} /\ DOMAIN run.of = {}
    BY <1>0, <1>6 DEF Embed
  <2>2. \/ run' = [run EXCEPT !.todo = @ \ {p}]
        \/ \E made \in Made(p) : run' = [run EXCEPT !.todo = @ \ {p}, !.of = [q \in {p} |-> made]]
    BY <1>6 DEF Embed
  <2>3. CASE run' = [run EXCEPT !.todo = @ \ {p}]
    <3>1. /\ RunTypes' /\ run'.stage = run.stage /\ run'.keys = run.keys /\ run'.back = run.back
          /\ run'.known = run.known /\ run'.todo = run.todo \ {p} /\ run'.of = run.of
      BY <1>0, <2>3 DEF RunTypes
    <3>2. KeysOld'
      BY <1>0, <2>0, <2>1, <3>1 DEF KeysOld
    <3>3. KnownOld'
      BY <1>0, <2>0, <3>1, KnownKept DEF Embedding
    <3> QED BY <1>0, <2>0, <3>1, <3>2, <3>3, RunMoves
  <2>4. ASSUME NEW made \in Made(p), run' = [run EXCEPT !.todo = @ \ {p}, !.of = [q \in {p} |-> made]]
        PROVE  VectorsInv'
    <3>1. /\ RunTypes' /\ run'.stage = run.stage /\ run'.keys = run.keys /\ run'.back = run.back
          /\ run'.known = run.known /\ run'.todo = run.todo \ {p} /\ run'.of = [q \in {p} |-> made]
      BY <1>0, <2>4 DEF RunTypes
    <3>2. p \in DOMAIN run.keys /\ made \in ContentType /\ Honest(run.keys[p], made)
      BY <1>6, MadeIs
    <3>3. KeysOld'
      BY <1>0, <2>0, <2>1, <3>1, <3>2 DEF KeysOld
    <3>4. KnownOld'
      BY <1>0, <2>0, <3>1, KnownKept DEF Embedding
    <3> QED BY <1>0, <2>0, <3>1, <3>3, <3>4, RunMoves
  <2> QED BY <2>2, <2>3, <2>4
<1>7. ASSUME NEW p \in Files, EmbedFails(p) PROVE VectorsInv'
  <2>1. /\ RunTypes' /\ run'.stage = run.stage /\ run'.keys = run.keys /\ run'.back = run.back
        /\ run'.known = run.known
        /\ run'.todo = run.todo /\ run'.of = << >> /\ UNCHANGED <<disk, hash, words>>
    BY <1>0, <1>7 DEF EmbedFails, RunTypes
  <2>2. KeysOld'
    BY <1>0, <2>1 DEF KeysOld
  <2>3. KnownOld'
    BY <1>0, <2>1, KnownKept DEF Embedding
  <2> QED BY <1>0, <1>7, <2>1, <2>2, <2>3, RunMoves DEF EmbedFails
<1>8. CASE ImagesFail
  <2>1. /\ RunTypes' /\ run'.stage = "images" /\ run'.keys = run.keys /\ run'.known = run.known
        /\ run'.todo = {} /\ run'.of = << >> /\ run.stage = "images"
    BY <1>0, <1>8 DEF ImagesFail, RunAt, RunTypes
  <2>2. KeysOld'
    BY <1>0, <1>8, <2>1 DEF ImagesFail, KeysOld
  <2>3. KnownOld'
    BY <1>0, <1>8, <2>1, KnownKept DEF ImagesFail, Embedding
  <2> QED BY <1>0, <1>8, <2>1, <2>2, <2>3, RunMoves DEF ImagesFail
<1> QED BY <1>1, <1>2, <1>3, <1>4, <1>5, <1>6, <1>7, <1>8

LEMMA RequestInv ==
  ASSUME VectorsInv, RequestIndex
  PROVE  VectorsInv'
<1>0. /\ RunTypes /\ KeysOld /\ KnownOld /\ hash \in [Files -> Nat] /\ DOMAIN << >> = {}
  BY DEF VectorsInv, SemanticTypes
<1>1. owed' \in [Files -> Nat] /\ UNCHANGED <<disk, words>>
  BY <1>0 DEF RequestIndex
<1>2. CASE run.stage = "idle"
  <2>0. PICK shards \in Enumerated :
            run' = [NoRun EXCEPT !.stage = "look", !.shards = shards, !.job = "running"]
    BY <1>2 DEF RequestIndex
  <2>1. /\ RunTypes' /\ run'.stage = "look" /\ run'.keys = << >> /\ run'.of = << >>
        /\ run'.known = << >>
    BY <2>0, EnumeratedIn DEF RunTypes, SemanticStages, NoRun
  <2>2. KeysOld' /\ KnownOld'
    BY <1>0, <2>1 DEF KeysOld, KnownOld, Embedding
  <2> QED BY <1>1, <1>2, <2>1, <2>2, RunMoves DEF RequestIndex
<1>3. CASE run.stage # "idle"
  <2>0. run' = [run EXCEPT !.late = @ \/ ~LooksAgain]
    BY <1>3 DEF RequestIndex
  <2>1. /\ RunTypes' /\ run'.stage = run.stage /\ run'.keys = run.keys /\ run'.back = run.back
        /\ run'.known = run.known
        /\ run'.todo = run.todo /\ run'.of = run.of /\ UNCHANGED hash
    BY <1>0, <2>0 DEF RequestIndex, RunTypes, LooksAgain
  <2>2. KeysOld' /\ KnownOld'
    BY <1>0, <1>1, <2>1 DEF KeysOld, KnownOld, Embedding
  <2> QED BY <1>1, <1>3, <2>1, <2>2, RunMoves DEF RequestIndex
<1> QED BY <1>2, <1>3

\* The steps that write a table.
LEMMA DropsRows ==
  ASSUME SemanticTypes, ResidentFresh, RowsOld, NEW s \in Shards, NEW files, DropRows(s, files)
  PROVE  /\ table' \in [Shards -> Seq(RowType)] /\ resident' \in Seq(Entries)
         /\ ResidentFresh' /\ RowsOld'
<1> DEFINE rows == table[s]
           I == {i \in DOMAIN rows : rows[i].path \notin files}
<1>1. rows \in Seq(RowType) /\ table \in [Shards -> Seq(RowType)] /\ resident \in Seq(Entries)
  BY DEF SemanticTypes
<1>2. table' = [table EXCEPT ![s] = Picked(rows, I)]
  BY DEF DropRows
<1>3. Picked(rows, I) \in Seq(RowType)
  <2> HIDE DEF I
  <2> QED BY <1>1, PickedIn
<1>4. RowsOld'
  <2> HIDE DEF I
  <2>1. \A j \in DOMAIN Picked(rows, I) : \E i \in DOMAIN rows : Picked(rows, I)[j] = rows[i]
    BY <1>1, PickedFrom
  <2>2. \A i \in DOMAIN rows : Honest(rows[i].key, rows[i].of)
    BY DEF RowsOld
  <2>3. \A j \in DOMAIN Picked(rows, I) : Honest(Picked(rows, I)[j].key, Picked(rows, I)[j].of)
    BY <2>1, <2>2
  <2>4. \A q \in Shards : table'[q] = IF q = s THEN Picked(rows, I) ELSE table[q]
    BY <1>1, <1>2
  <2> HIDE DEF rows
  <2> QED BY <2>3, <2>4 DEF RowsOld
<1>5. CASE files = {}
  <2>1. DOMAIN rows \subseteq I
    BY <1>5
  <2>2. Picked(rows, I) = rows
    <3> HIDE DEF I
    <3> QED BY <1>1, <2>1, PickedAll
  <2>3. table' = table /\ resident' = resident
    BY <1>1, <1>2, <1>5, <2>2 DEF DropRows
  <2> QED BY <1>1, <1>4, <2>3 DEF ResidentFresh, RowsOf
<1>6. CASE files # {}
  <2>1. resident' = Invalidated(s, Models)
    BY <1>6 DEF DropRows
  <2>2. \A i \in DOMAIN resident : resident[i] \in Entries
    BY <1>1
  <2>3. resident' \in Seq(Entries)
    BY <1>1, <2>1, InvalidatedIs
  <2>4. \A j \in DOMAIN resident' : \E i \in DOMAIN resident :
           resident'[j] = resident[i] /\ (resident[i].shard # s \/ resident[i].model \notin Models)
    BY <1>1, <2>1, InvalidatedIs
  <2>5. \A j \in DOMAIN resident' : \E i \in DOMAIN resident :
           resident'[j] = resident[i] /\ resident[i].shard # s /\ resident[i].shard \in Shards
    BY <2>2, <2>4 DEF Entries
  <2>6. \A q \in Shards : q # s => table'[q] = table[q]
    BY <1>1, <1>2
  <2>7. ResidentFresh'
    BY <2>5, <2>6, KeptFresh
  <2> QED BY <1>1, <1>2, <1>3, <1>4, <2>3, <2>7
<1> QED BY <1>5, <1>6

LEMMA StoresRow ==
  ASSUME SemanticTypes, ResidentFresh, RowsOld,
         NEW p \in Files, NEW model \in Models, NEW key \in Nat, NEW of \in ContentType, Honest(key, of),
         Store(p, model, key, of)
  PROVE  /\ table' \in [Shards -> Seq(RowType)] /\ resident' \in Seq(Entries)
         /\ ResidentFresh' /\ RowsOld'
<1> DEFINE s == ShardOf[p]
           rows == table[s]
           row == Row(p, model, key, of)
<1>1. s \in Shards /\ table \in [Shards -> Seq(RowType)] /\ resident \in Seq(Entries)
  BY SemanticAssumption DEF SemanticTypes
<1>2. rows \in Seq(RowType) /\ row \in RowType /\ row.model = model /\ row.key = key /\ row.of = of
  BY <1>1 DEF Row, RowType
<1>3. table' = [table EXCEPT ![s] = Upserted(rows, row)] /\ resident' = Invalidated(s, {model})
  BY DEF Store
<1> HIDE DEF row
<1>4. Upserted(rows, row) \in Seq(RowType)
  BY <1>2, UpsertedIs
<1>5. \A q \in Shards : table'[q] = IF q = s THEN Upserted(rows, row) ELSE table[q]
  BY <1>1, <1>3
<1>6. RowsOld'
  <2>1. \A j \in DOMAIN Upserted(rows, row) :
           Upserted(rows, row)[j] = row \/ \E i \in DOMAIN rows : Upserted(rows, row)[j] = rows[i]
    BY <1>2, UpsertedIs
  <2>2. \A i \in DOMAIN rows : Honest(rows[i].key, rows[i].of)
    BY <1>1 DEF RowsOld
  <2>3. \A j \in DOMAIN Upserted(rows, row) :
           Honest(Upserted(rows, row)[j].key, Upserted(rows, row)[j].of)
    BY <1>2, <2>1, <2>2
  <2> HIDE DEF rows, s
  <2> QED BY <1>5, <2>3 DEF RowsOld
<1>7. /\ resident' \in Seq(Entries)
      /\ \A j \in DOMAIN resident' : \E i \in DOMAIN resident :
            resident'[j] = resident[i] /\ (resident[i].shard # s \/ resident[i].model \notin {model})
  <2> DEFINE models == {model}
  <2>1. resident \in Seq(Entries) /\ resident' = Invalidated(s, models)
    BY <1>1, <1>3
  <2> HIDE DEF s, rows, models
  <2>2. /\ Invalidated(s, models) \in Seq(Entries)
        /\ \A j \in DOMAIN Invalidated(s, models) : \E i \in DOMAIN resident :
              /\ Invalidated(s, models)[j] = resident[i]
              /\ resident[i].shard # s \/ resident[i].model \notin models
    BY <2>1, InvalidatedIs
  <2>3. /\ resident' \in Seq(Entries)
        /\ \A j \in DOMAIN resident' : \E i \in DOMAIN resident :
              resident'[j] = resident[i] /\ (resident[i].shard # s \/ resident[i].model \notin models)
    BY <2>1, <2>2
  <2> QED BY <2>3 DEF models
<1>9. \A i \in DOMAIN resident : resident[i] \in Entries
  BY <1>1
<1>10. \A m : m # model => Rows(Upserted(rows, row), m) = Rows(rows, m)
  BY <1>2, UpsertedOther
<1>11. \A i \in DOMAIN resident : resident[i].shard # s \/ resident[i].model # model =>
          Rows(table'[resident[i].shard], resident[i].model)
              = Rows(table[resident[i].shard], resident[i].model)
  BY <1>5, <1>9, <1>10 DEF Entries
<1>12. ResidentFresh'
  <2> HIDE DEF s
  <2> QED BY <1>7, <1>11, KeptFresh
<1> QED BY <1>1, <1>3, <1>4, <1>6, <1>7, <1>12

\* What the run becomes when a shard has been looked at.
LEMMA LooksInv ==
  ASSUME VectorsInv, NEW s \in Shards, Look(s) \/ LookImages(s)
  PROVE  VectorsInv'
<1>0. /\ RunTypes /\ KeysOld /\ KnownOld /\ hash \in [Files -> Nat] /\ owed \in [Files -> Nat]
      /\ live \subseteq Files
      /\ SemanticTypes /\ ResidentFresh /\ RowsOld /\ DOMAIN << >> = {} /\ 0 \in Nat
  BY DEF VectorsInv, SemanticTypes
<1>1. /\ table' \in [Shards -> Seq(RowType)] /\ resident' \in Seq(Entries)
      /\ ResidentFresh' /\ RowsOld'
  <2>1. \E files : DropRows(s, files)
    BY DEF Look, LookImages
  <2> QED BY <1>0, <2>1, DropsRows
<1>2. UNCHANGED <<disk, hash, live, words, legacy, load, ann>>
  BY DEF Look, LookImages, UNCHANGED_Library, UNCHANGED_Outside
<1>3. owed' \in [Files -> Nat]
  <2>1. CASE Look(s)
    BY <1>0, <2>1 DEF Look
  <2>2. CASE LookImages(s)
    BY <1>0, <2>2 DEF LookImages, UNCHANGED_Library, UNCHANGED_Outside
  <2> QED BY <2>1, <2>2
<1>4. RunTypes' /\ KeysOld' /\ KnownOld' /\ run'.stage # "down" /\ run.stage # "down"
  <2>1. CASE Look(s)
    <3>1. run.stage = "look"
      BY <2>1 DEF Look, RunAt
    <3> DEFINE todo == run.todo \cup Mine(s, First(Due(s, "text"), Slice))
               more == run.shards \ {s}
    <3>3. todo \subseteq Files
      BY <1>0 DEF Mine, First, Due, RunTypes
    <3>4. PICK shards \in Enumerated :
             run' = IF more # {} THEN [run EXCEPT !.shards = more, !.todo = todo]
                    ELSE IF todo = {} THEN [run EXCEPT !.stage = "ann", !.shards = shards]
                    ELSE [run EXCEPT !.stage = "keys", !.shards = {}, !.todo = todo]
      BY <2>1 DEF Look
    <3>2. shards \subseteq Shards
      BY EnumeratedIn
    <3>5. run.todo \subseteq todo
      OBVIOUS
    <3> HIDE DEF todo, more
    <3>6. more \subseteq Shards
      BY <1>0 DEF more, RunTypes
    <3>7. CASE more # {}
      <4>1. RunTypes' /\ run'.stage = "look" /\ run'.keys = run.keys /\ run'.of = run.of
            /\ run'.known = run.known
        BY <1>0, <3>1, <3>3, <3>4, <3>6, <3>7 DEF RunTypes, SemanticStages
      <4>2. KnownOld'
        BY <1>0, <1>2, <4>1, KnownKept DEF Embedding
      <4> QED BY <1>0, <1>2, <3>1, <4>1, <4>2 DEF KeysOld
    <3>8. CASE more = {} /\ todo = {}
      <4>1. RunTypes' /\ run'.stage = "ann" /\ run'.keys = run.keys /\ run'.of = run.of
            /\ run'.known = run.known
            /\ run'.todo = {}
        BY <1>0, <3>2, <3>4, <3>5, <3>8 DEF RunTypes, SemanticStages
      <4>2. KnownOld'
        BY <1>0, <1>2, <4>1, KnownKept DEF Embedding
      <4> QED BY <1>0, <1>2, <3>1, <4>1, <4>2 DEF KeysOld
    <3>9. CASE more = {} /\ todo # {}
      <4>1. RunTypes' /\ run'.stage = "keys" /\ run'.keys = run.keys /\ run'.of = run.of
            /\ run'.known = run.known
        BY <1>0, <3>3, <3>4, <3>9 DEF RunTypes, SemanticStages
      <4>2. KnownOld'
        BY <1>0, <1>2, <4>1, KnownKept DEF Embedding
      <4> QED BY <1>0, <1>2, <3>1, <4>1, <4>2 DEF KeysOld
    <3> QED BY <3>7, <3>8, <3>9
  <2>2. CASE LookImages(s)
    <3> DEFINE todo == Mine(s, Due(s, "image")) \cap Images
    <3>1. run.stage = "images" /\ run.of = << >>
      BY <2>2 DEF LookImages, RunAt
    <3>2. todo \subseteq Files
      BY <1>0 DEF Mine, Due
    <3>3. run' = [run EXCEPT !.shards = @ \ {s}, !.todo = todo, !.keys = [p \in todo |-> hash[p]]]
      BY <2>2 DEF LookImages
    <3> HIDE DEF todo
    <3>4. /\ RunTypes' /\ run'.stage = "images" /\ run'.of = << >> /\ run'.todo = todo
          /\ run'.keys = [p \in todo |-> hash[p]] /\ run'.known = run.known
      BY <1>0, <3>1, <3>2, <3>3 DEF RunTypes
    <3>5. \A p \in todo : hash[p] \in Nat /\ hash[p] <= hash[p]
      BY <1>0, <3>2
    <3>6. KnownOld'
      BY <1>0, <1>2, <3>4, KnownKept DEF Embedding
    <3> QED BY <1>0, <1>2, <3>1, <3>2, <3>4, <3>5, <3>6 DEF KeysOld
  <2> QED BY <2>1, <2>2
<1>5. SemanticTypes'
  BY <1>0, <1>1, <1>2, <1>3 DEF SemanticTypes
<1>6. HashOld' /\ LegacyOld' /\ DownIsEmpty'
  BY <1>2, <1>4 DEF VectorsInv, HashOld, LegacyOld, DownIsEmpty
<1> QED BY <1>1, <1>4, <1>5, <1>6 DEF VectorsInv

LEMMA UpsertInv ==
  ASSUME VectorsInv, NEW p \in Files, Upsert(p)
  PROVE  VectorsInv'
<1>0. /\ RunTypes /\ KeysOld /\ KnownOld /\ owed \in [Files -> Nat] /\ SemanticTypes /\ ResidentFresh /\ RowsOld
      /\ DOMAIN << >> = {}
  BY DEF VectorsInv, SemanticTypes
<1>1. /\ run.stage \in {"embed", "images"} /\ run.keys[p] \in Nat /\ run.of[p] \in ContentType
      /\ Honest(run.keys[p], run.of[p])
  BY <1>0 DEF Upsert, KeysOld
<1>2. /\ table' \in [Shards -> Seq(RowType)] /\ resident' \in Seq(Entries)
      /\ ResidentFresh' /\ RowsOld'
  <2> DEFINE model == IF RunAt("embed") THEN "text" ELSE "image"
  <2>1. model \in Models
    BY DEF Models
  <2>2. Store(p, model, run.keys[p], run.of[p])
    BY DEF Upsert, StoredKey
  <2> HIDE DEF model
  <2> QED BY <1>0, <1>1, <2>1, <2>2, StoresRow
<1>3. UNCHANGED <<disk, hash, live, words, legacy, load, ann, owed>>
  BY DEF Upsert, UNCHANGED_Library, UNCHANGED_Outside
<1>4. run' = [run EXCEPT !.of = << >>, !.stage = "gate", !.back = run.stage]
  BY DEF Upsert
<1>5. /\ RunTypes' /\ run'.stage = "gate" /\ run'.back = run.stage /\ run'.of = << >>
      /\ run'.todo = run.todo /\ run'.keys = run.keys /\ run'.known = run.known
  BY <1>0, <1>4 DEF RunTypes, SemanticStages
<1>6. KeysOld' /\ KnownOld'
  <2>1. KeysOld'
    BY <1>0, <1>1, <1>3, <1>5 DEF KeysOld
  <2>2. KnownOld'
    BY <1>0, <1>3, <1>5, KnownKept DEF Embedding
  <2> QED BY <2>1, <2>2
<1>7. SemanticTypes'
  BY <1>0, <1>2, <1>3 DEF SemanticTypes
<1>8. HashOld' /\ LegacyOld' /\ DownIsEmpty'
  BY <1>3, <1>5 DEF VectorsInv, HashOld, LegacyOld, DownIsEmpty
<1> QED BY <1>2, <1>5, <1>6, <1>7, <1>8 DEF VectorsInv

\* The move of the old database, at a start.
LEMMA BootInv ==
  ASSUME VectorsInv, SemanticBoot
  PROVE  VectorsInv'
<1>0. /\ RunTypes /\ SemanticTypes /\ RowsOld /\ LegacyOld /\ DOMAIN << >> = {}
      /\ resident = << >> /\ legacy \in Seq(RowType) /\ table \in [Shards -> Seq(RowType)] /\ load = Idle
  BY DEF VectorsInv, SemanticTypes, DownIsEmpty, SemanticBoot
<1> DEFINE moved(s) == Picked(legacy, {i \in DOMAIN legacy : ShardOf[legacy[i].path] = s})
           kept(s) == Picked(table[s], {i \in DOMAIN table[s] : \A j \in DOMAIN moved(s) :
                          moved(s)[j].path # table[s][i].path \/ moved(s)[j].model # table[s][i].model})
<1>1. table' = [s \in Shards |-> kept(s) \o moved(s)]
  BY DEF SemanticBoot, Replaced
<1>2. ASSUME NEW s \in Shards
      PROVE  /\ table'[s] \in Seq(RowType)
             /\ \A i \in DOMAIN table'[s] : Honest(table'[s][i].key, table'[s][i].of)
  <2>0. table[s] \in Seq(RowType)
    BY <1>0
  <2>1. moved(s) \in Seq(RowType)
    BY <1>0, PickedIn
  <2>2. kept(s) \in Seq(RowType)
    <3> DEFINE I == {i \in DOMAIN table[s] : \A j \in DOMAIN moved(s) :
                          moved(s)[j].path # table[s][i].path \/ moved(s)[j].model # table[s][i].model}
    <3>1. kept(s) = Picked(table[s], I)
      OBVIOUS
    <3> HIDE DEF I, moved, kept
    <3> QED BY <2>0, <3>1, PickedIn
  <2>3. \A j \in DOMAIN moved(s) : Honest(moved(s)[j].key, moved(s)[j].of)
    <3> DEFINE I == {i \in DOMAIN legacy : ShardOf[legacy[i].path] = s}
    <3>1. moved(s) = Picked(legacy, I)
      OBVIOUS
    <3> HIDE DEF I, moved
    <3>2. \A j \in DOMAIN moved(s) : \E i \in DOMAIN legacy : moved(s)[j] = legacy[i]
      BY <1>0, <3>1, PickedFrom
    <3> QED BY <1>0, <3>2 DEF LegacyOld
  <2>4. \A j \in DOMAIN kept(s) : Honest(kept(s)[j].key, kept(s)[j].of)
    <3> DEFINE I == {i \in DOMAIN table[s] : \A j \in DOMAIN moved(s) :
                          moved(s)[j].path # table[s][i].path \/ moved(s)[j].model # table[s][i].model}
    <3>1. kept(s) = Picked(table[s], I)
      OBVIOUS
    <3> HIDE DEF I, moved, kept
    <3>2. \A j \in DOMAIN kept(s) : \E i \in DOMAIN table[s] : kept(s)[j] = table[s][i]
      BY <2>0, <3>1, PickedFrom
    <3> QED BY <1>0, <3>2 DEF RowsOld
  <2>5. table'[s] = kept(s) \o moved(s)
    BY <1>1
  <2> HIDE DEF kept, moved
  <2>6. /\ kept(s) \o moved(s) \in Seq(RowType)
        /\ \A i \in DOMAIN (kept(s) \o moved(s)) :
              \/ i \in DOMAIN kept(s) /\ (kept(s) \o moved(s))[i] = kept(s)[i]
              \/ i - Len(kept(s)) \in DOMAIN moved(s) /\ (kept(s) \o moved(s))[i] = moved(s)[i - Len(kept(s))]
    BY <2>1, <2>2
  <2> QED BY <2>3, <2>4, <2>5, <2>6
<1> HIDE DEF kept, moved
<1>3. table' \in [Shards -> Seq(RowType)] /\ RowsOld'
  BY <1>1, <1>2 DEF RowsOld
<1>4. /\ legacy' \in Seq(RowType) /\ LegacyOld'
      /\ UNCHANGED <<disk, hash, live, words, ann, resident, load, owed>>
  <2>1. legacy' = << >> \/ legacy' = legacy
    BY DEF SemanticBoot
  <2>2. << >> \in Seq(RowType)
    OBVIOUS
  <2> QED BY <1>0, <2>1, <2>2 DEF LegacyOld, SemanticBoot
<1>5. RunTypes' /\ run'.stage = "idle" /\ run'.of = << >> /\ run'.keys = << >> /\ run'.known = << >>
  BY DEF SemanticBoot, NoRun, RunTypes, SemanticStages
<1>6. KeysOld' /\ KnownOld'
  BY <1>0, <1>5 DEF KeysOld, KnownOld, Embedding
<1>7. ResidentFresh'
  BY <1>0, <1>4 DEF ResidentFresh
<1>8. SemanticTypes' /\ HashOld' /\ DownIsEmpty'
  BY <1>0, <1>3, <1>4, <1>5 DEF SemanticTypes, VectorsInv, HashOld, DownIsEmpty
<1> QED BY <1>3, <1>4, <1>5, <1>6, <1>7, <1>8 DEF VectorsInv

LEMMA CrashInv ==
  ASSUME VectorsInv, SemanticCrash
  PROVE  VectorsInv'
<1>0. DOMAIN << >> = {} /\ << >> \in Seq(Entries)
  OBVIOUS
<1>1. /\ UNCHANGED <<disk, hash, live, words, table, ann, legacy, owed>>
      /\ resident' = << >> /\ load' = Idle
  BY DEF SemanticCrash
<1>2. RunTypes' /\ run'.stage = "down" /\ run'.of = << >> /\ run'.keys = << >> /\ run'.known = << >>
  BY DEF SemanticCrash, NoRun, RunTypes, SemanticStages
<1>3. KeysOld' /\ KnownOld' /\ ResidentFresh'
  BY <1>0, <1>1, <1>2 DEF KeysOld, KnownOld, Embedding, ResidentFresh
<1>4. SemanticTypes'
  BY <1>0, <1>1 DEF VectorsInv, SemanticTypes
<1> QED BY <1>1, <1>2, <1>3, <1>4 DEF VectorsInv, HashOld, LegacyOld, DownIsEmpty, RowsOld

\* The approximate index.
LEMMA PathsAre ==
  ASSUME SemanticTypes, NEW s \in Shards
  PROVE  Paths(RowsOf(s, "text")) \in Seq(Files)
<1>1. RowsOf(s, "text") \in Seq(RowType)
  BY RowsIn DEF SemanticTypes, RowsOf
<1>2. \A rows \in Seq(RowType) : Paths(rows) \in Seq(Files)
  <2> SUFFICES ASSUME NEW rows \in Seq(RowType) PROVE Paths(rows) \in Seq(Files)
    OBVIOUS
  <2>1. DOMAIN rows = 1..Len(rows) /\ Len(rows) \in Nat /\ \A i \in 1..Len(rows) : rows[i] \in RowType
    OBVIOUS
  <2>2. \A i \in 1..Len(rows) : rows[i].path \in Files
    BY <2>1 DEF RowType
  <2>3. Paths(rows) = [i \in 1..Len(rows) |-> rows[i].path]
    BY <2>1 DEF Paths
  <2> QED BY <2>1, <2>2, <2>3
<1> QED BY <1>1, <1>2

LEMMA BuildsInv ==
  ASSUME VectorsInv, NEW s \in Shards, BuildRows(s) \/ WriteNames(s) \/ BuildFails(s)
  PROVE  VectorsInv'
<1>0. /\ RunTypes /\ KeysOld /\ KnownOld /\ SemanticTypes /\ ResidentFresh /\ resident \in Seq(Entries)
      /\ owed \in [Files -> Nat] /\ << >> \in Seq(Files)
      /\ ann \in [Shards -> [rows : Seq(Files), names : Seq(Files)]]
      /\ Paths(RowsOf(s, "text")) \in Seq(Files) /\ DOMAIN << >> = {}
  BY PathsAre DEF VectorsInv, SemanticTypes
<1>1. UNCHANGED <<disk, hash, live, words, legacy, load, table>>
  BY DEF BuildRows, WriteNames, BuildFails, UNCHANGED_Library, UNCHANGED_Outside
<1>8. owed' \in [Files -> Nat]
  <2>1. owed' = owed \/ owed' = PassesOver(Shards \ {s})
    BY DEF BuildRows, WriteNames, BuildFails, UNCHANGED_Library
  <2>2. owed \in [Files -> Nat]
    BY <1>0
  <2>3. PassesOver(Shards \ {s}) \in [Files -> Nat]
    BY <2>2 DEF PassesOver
  <2> QED BY <2>1, <2>2, <2>3
<1>2. ann' \in [Shards -> [rows : Seq(Files), names : Seq(Files)]]
  <2>1. CASE ann' = ann
    BY <1>0, <2>1
  <2>2. CASE ann' = [ann EXCEPT ![s].rows = Paths(RowsOf(s, "text"))]
    BY <1>0, <2>2
  <2>3. CASE ann' = [ann EXCEPT ![s].names = Paths(RowsOf(s, "text"))]
    BY <1>0, <2>3
  <2>4. CASE BuildFails(s)
    <3>1. PICK names \in {ann[s].names, << >>} : ann' = ann \/ ann' = [ann EXCEPT ![s].names = names]
      BY <2>4 DEF BuildFails
    <3>2. names \in Seq(Files)
      BY <1>0
    <3> QED BY <1>0, <3>1, <3>2
  <2> QED BY <2>1, <2>2, <2>3, <2>4 DEF BuildRows, WriteNames, Indexed
<1>3. resident' \in Seq(Entries) /\ ResidentFresh'
  <2>1. CASE BuildRows(s) \/ BuildFails(s)
    BY <1>0, <1>1, <2>1 DEF BuildRows, BuildFails, ResidentFresh, RowsOf
  <2>2. CASE WriteNames(s)
    <3>1. resident' = Invalidated(s, {"text"})
      BY <2>2 DEF WriteNames
    <3>2. resident' \in Seq(Entries) /\ \A j \in DOMAIN resident' : \E i \in DOMAIN resident : resident'[j] = resident[i]
      BY <1>0, <3>1, InvalidatedIs
    <3>3. ResidentFresh'
      BY <1>0, <1>1, <3>2, KeptFresh
    <3> QED BY <3>2, <3>3
  <2> QED BY <2>1, <2>2
<1>4. /\ RunTypes' /\ run'.keys = run.keys /\ run'.known = run.known /\ run'.of = run.of
      /\ run.stage \in {"ann", "names"}
      /\ run'.stage = "names" \/ (run'.stage = "ann" /\ run'.todo = {})
  <2>1. CASE BuildRows(s)
    <3>1. Mine(s, Files) \subseteq Files
      BY DEF Mine
    <3>2. CASE run' = [run EXCEPT !.shards = @ \ {s}]
      BY <1>0, <2>1, <3>2 DEF BuildRows, RunAt, RunTypes, KeysOld
    <3>3. CASE run' = [run EXCEPT !.stage = "names", !.shards = {s} \cup @, !.todo = Mine(s, Files)]
      BY <1>0, <2>1, <3>1, <3>3 DEF BuildRows, RunAt, RunTypes, SemanticStages
    <3> QED BY <2>1, <3>2, <3>3 DEF BuildRows
  <2>2. CASE WriteNames(s)
    BY <1>0, <2>2 DEF WriteNames, RunAt, RunTypes, SemanticStages
  <2>3. CASE BuildFails(s)
    BY <1>0, <2>3 DEF BuildFails, RunAt, RunTypes, SemanticStages
  <2> QED BY <2>1, <2>2, <2>3
<1>5. KeysOld' /\ KnownOld'
  <2>1. KeysOld'
    BY <1>0, <1>1, <1>4 DEF KeysOld
  <2>2. KnownOld'
    BY <1>0, <1>1, <1>4, KnownKept DEF Embedding
  <2> QED BY <2>1, <2>2
<1>6. SemanticTypes'
  BY <1>0, <1>1, <1>2, <1>3, <1>8 DEF SemanticTypes
<1>7. HashOld' /\ LegacyOld' /\ DownIsEmpty' /\ RowsOld'
  BY <1>1, <1>4 DEF VectorsInv, HashOld, LegacyOld, DownIsEmpty, RowsOld
<1> QED BY <1>3, <1>4, <1>5, <1>6, <1>7 DEF VectorsInv

\* Searches.
LEMMA KeptResidentIs ==
  ASSUME NEW entries \in Seq(Entries)
  PROVE  /\ KeptResident(entries) \in Seq(Entries)
         /\ \A j \in DOMAIN KeptResident(entries) : \E i \in DOMAIN entries : KeptResident(entries)[j] = entries[i]
<1> DEFINE n == Len(entries)
           a == n - MaxResidentShards + 2
           t == SubSeq(entries, a, n)
<1>0. /\ n \in Nat /\ DOMAIN entries = 1..n /\ \A i \in 1..n : entries[i] \in Entries
      /\ MaxResidentShards \in Nat \ {0}
  BY SemanticAssumption
<1>1. CASE n < MaxResidentShards
  BY <1>1 DEF KeptResident
<1>2. CASE ~(n < MaxResidentShards)
  <2>1. a \in Int /\ n \in Int /\ 2 <= a /\ \A i \in a..n : entries[i] \in Entries
    BY <1>0, <1>2
  <2> HIDE DEF a
  <2>2. /\ t \in Seq(Entries) /\ Len(t) = IF a <= n THEN n - a + 1 ELSE 0
        /\ \A i \in 1..(n - a + 1) : t[i] = entries[a + i - 1]
    BY <2>1, SubSeqProperties
  <2>3. KeptResident(entries) = t
    BY <1>2 DEF KeptResident, a
  <2> HIDE DEF t
  <2>4. DOMAIN t = 1..Len(t)
    BY <2>2
  <2>5. \A j \in DOMAIN t : j \in 1..(n - a + 1) /\ a + j - 1 \in 1..n
    BY <1>0, <2>1, <2>2, <2>4
  <2>6. \A j \in DOMAIN t : \E i \in DOMAIN entries : t[j] = entries[i]
    BY <1>0, <2>2, <2>5
  <2> QED BY <2>2, <2>3, <2>6
<1> QED BY <1>1, <1>2

LEMMA SearchesInv ==
  ASSUME VectorsInv, KeepRows \/ \E s \in Shards, model \in Models : LoadRows(s, model)
  PROVE  VectorsInv'
<1>0. /\ SemanticTypes /\ ResidentFresh /\ resident \in Seq(Entries) /\ RunTypes /\ KeysOld /\ DownIsEmpty
      /\ table \in [Shards -> Seq(RowType)]
  BY DEF VectorsInv, SemanticTypes
<1>1. CASE KeepRows
  <2> DEFINE e == [shard |-> load.shard, model |-> load.model, rows |-> load.rows,
                   raced |-> load.rows # RowsOf(load.shard, load.model)]
             old == KeptResident(resident)
  <2>1. load \in Loads /\ load # Idle
    BY <1>0, <1>1 DEF KeepRows, SemanticTypes
  <2>2. resident' = Append(old, e) /\ load' = Idle
        /\ UNCHANGED <<disk, hash, live, words, table, ann, legacy, run, owed>>
    BY <1>1 DEF KeepRows
  <2>3. e \in Entries /\ (e.raced \/ e.rows = Rows(table[e.shard], e.model))
    BY <2>1 DEF Loads, Entries, RowsOf
  <2>4. old \in Seq(Entries) /\ \A j \in DOMAIN old : \E i \in DOMAIN resident : old[j] = resident[i]
    BY <1>0, KeptResidentIs
  <2> HIDE DEF e, old
  <2>5. /\ resident' \in Seq(Entries)
        /\ \A j \in DOMAIN resident' : \/ j \in DOMAIN old /\ resident'[j] = old[j]
                                       \/ resident'[j] = e
    BY <2>2, <2>3, <2>4
  <2>6. \A j \in DOMAIN old : old[j].raced \/ old[j].rows = Rows(table[old[j].shard], old[j].model)
    BY <1>0, <2>4 DEF ResidentFresh, RowsOf
  <2>7. ResidentFresh'
    BY <2>2, <2>3, <2>5, <2>6 DEF ResidentFresh, RowsOf
  <2>8. SemanticTypes'
    BY <1>0, <2>2, <2>5 DEF SemanticTypes
  <2>9. run.stage # "down"
    BY <1>0, <2>1 DEF DownIsEmpty
  <2> QED BY <2>2, <2>7, <2>8, <2>9
          DEF VectorsInv, HashOld, LegacyOld, DownIsEmpty, RowsOld, RunTypes, KeysOld, KnownOld, Embedding
<1>2. ASSUME NEW s \in Shards, NEW model \in Models, LoadRows(s, model)
      PROVE  VectorsInv'
  <2>1. load' = [shard |-> s, model |-> model, rows |-> RowsOf(s, model)]
    BY <1>2 DEF LoadRows
  <2>2. RowsOf(s, model) \in Seq(RowType)
    BY <1>0, RowsIn DEF RowsOf
  <2>3. load' \in Loads
    BY <2>1, <2>2 DEF Loads
  <2>4. UNCHANGED <<disk, hash, live, words, table, ann, resident, legacy, run, owed>> /\ run.stage # "down"
    BY <1>2 DEF LoadRows
  <2>5. SemanticTypes'
    BY <1>0, <2>3, <2>4 DEF SemanticTypes
  <2> QED BY <2>4, <2>5 DEF VectorsInv, HashOld, LegacyOld, DownIsEmpty, RowsOld, RunTypes,
             KeysOld, KnownOld, Embedding, ResidentFresh, RowsOf
<1> QED BY <1>1, <1>2

\* The family. A text that is read is the text of what is on the disk.
LEMMA FilesInv ==
  ASSUME VectorsInv,
         UseServer \/ \E p \in Files : EditFile(p) \/ IndexFile(p) \/ IndexText(p) \/ RemoveFile(p)
  PROVE  VectorsInv'
<1> DEFINE Grows == /\ \A q \in Files : hash[q] <= hash'[q]
                    /\ \A q \in Files : disk'[q] # 0 => disk[q] # 0 /\ disk[q] <= disk'[q]
                    /\ \A q \in Files : words'[q] # 0 => words'[q] = words[q] \/ (words'[q] = disk[q])
                    /\ \A q \in Files : words'[q] # words[q] => disk[q] # 0
<1>0. /\ UNCHANGED <<table, ann, resident, load, legacy, run>>
      /\ disk \in [Files -> Nat] /\ hash \in [Files -> Nat] /\ words \in [Files -> Nat]
      /\ owed \in [Files -> Nat] /\ live \subseteq Files /\ HashOld /\ KeysOld /\ KnownOld
  BY DEF UseServer, EditFile, IndexFile, IndexText, RemoveFile, VectorsInv, SemanticTypes
<1>1. SemanticTypes' /\ HashOld' /\ Grows
  <2>1. CASE UseServer
    BY <1>0, <2>1 DEF UseServer, VectorsInv, SemanticTypes, HashOld
  <2>2. ASSUME NEW p \in Files, EditFile(p)
        PROVE  SemanticTypes' /\ HashOld' /\ Grows
    <3>1. disk' = [disk EXCEPT ![p] = disk[p] + 1] /\ UNCHANGED <<hash, owed, live, words>>
      BY <2>2 DEF EditFile
    <3>2. disk[p] # 0
      BY <2>2 DEF EditFile
    <3>4. disk' \in [Files -> Nat] /\ \A q \in Files : disk'[q] # 0 => disk[q] # 0 /\ disk[q] <= disk'[q]
      BY <1>0, <3>1, <3>2
    <3>5. HashOld'
      BY <1>0, <3>1, <3>4 DEF HashOld
    <3>6. Grows
      BY <1>0, <3>1, <3>4
    <3>7. SemanticTypes'
      BY <1>0, <3>1, <3>4 DEF VectorsInv, SemanticTypes
    <3> QED BY <3>5, <3>6, <3>7
  <2>3. ASSUME NEW p \in Files, IndexFile(p)
        PROVE  SemanticTypes' /\ HashOld' /\ Grows
    <3>1. hash' = [hash EXCEPT ![p] = disk[p]] /\ live' = live \cup {p} /\ UNCHANGED <<disk, owed, words>>
          /\ disk[p] # 0
      BY <2>3 DEF IndexFile
    <3>2. HashOld' /\ Grows
      BY <1>0, <3>1 DEF HashOld
    <3>3. SemanticTypes'
      BY <1>0, <3>1 DEF VectorsInv, SemanticTypes
    <3> QED BY <3>2, <3>3
  <2>4. ASSUME NEW p \in Files, RemoveFile(p)
        PROVE  SemanticTypes' /\ HashOld' /\ Grows
    <3>1. /\ disk' = [disk EXCEPT ![p] = 0] /\ live' = live \ {p} /\ owed' = [owed EXCEPT ![p] = 0]
          /\ UNCHANGED <<hash, words>>
      BY <2>4 DEF RemoveFile
    <3>2. HashOld' /\ Grows
      BY <1>0, <3>1 DEF HashOld
    <3>3. SemanticTypes'
      BY <1>0, <3>1 DEF VectorsInv, SemanticTypes
    <3> QED BY <3>2, <3>3
  <2>5. ASSUME NEW p \in Files, IndexText(p)
        PROVE  SemanticTypes' /\ HashOld' /\ Grows
    <3>1. PICK text \in {0, disk[p]} : words' = [words EXCEPT ![p] = text]
      BY <2>5 DEF IndexText
    <3>2. UNCHANGED <<disk, hash, owed, live>> /\ disk[p] # 0
      BY <2>5 DEF IndexText
    <3>3. HashOld' /\ Grows
      BY <1>0, <3>1, <3>2 DEF HashOld
    <3>4. SemanticTypes'
      BY <1>0, <3>1, <3>2 DEF VectorsInv, SemanticTypes
    <3> QED BY <3>3, <3>4
  <2> QED BY <2>1, <2>2, <2>3, <2>4, <2>5
<1>2. KeysOld'
  <2>1. hash' \in [Files -> Nat]
    BY <1>1 DEF SemanticTypes
  <2> QED BY <1>0, <1>1, <2>1 DEF KeysOld
<1>3. KnownOld'
  <2>1. disk' \in [Files -> Nat] /\ words' \in [Files -> Nat]
    BY <1>1 DEF SemanticTypes
  <2> QED BY <1>0, <1>1, <2>1 DEF KnownOld, Embedding
<1> HIDE DEF Grows
<1> QED BY <1>0, <1>1, <1>2, <1>3 DEF VectorsInv, LegacyOld, DownIsEmpty, RowsOld, RunTypes,
           ResidentFresh, RowsOf

LEMMA VectorsStep ==
  ASSUME VectorsInv, [SemanticNext]_vars_semantic
  PROVE  VectorsInv'
<1>1. CASE UNCHANGED vars_semantic
  BY <1>1 DEF vars_semantic, VectorsInv, SemanticTypes, RunTypes, HashOld, KeysOld, KnownOld, Embedding, LegacyOld,
              DownIsEmpty, ResidentFresh, RowsOld, RowsOf
<1>2. CASE WorkerStep
  BY <1>2, WorksInv, LooksInv, BuildsInv, UpsertInv DEF WorkerStep
<1>3. CASE SemanticNext
  BY <1>2, <1>3, BootInv, CrashInv, RequestInv, SearchesInv, FilesInv DEF SemanticNext
<1> QED BY <1>1, <1>3

LEMMA VectorsTrue == VectorsInv => VectorsAgree
<1> SUFFICES ASSUME VectorsInv PROVE VectorsAgree
  OBVIOUS
<1>1. \A s \in Shards : \A i \in DOMAIN table[s] : Honest(table[s][i].key, table[s][i].of)
  BY DEF VectorsInv, RowsOld
<1> QED BY <1>1 DEF VectorsInv, VectorsAgree, KeysNotAhead, TextNotBehind, Honest

------------------------------------------------------------------------------
\* What was asked for can be found.

LEMMA FoundInitInv == SemanticInit => FoundInv
<1> SUFFICES ASSUME SemanticInit PROVE FoundInv
  OBVIOUS
<1>1. run.stage = "down" /\ run.job = "none" /\ \A p \in Files : owed[p] = 0
  BY DEF SemanticInit, NoRun
<1> QED BY <1>1 DEF FoundInv, OwedIsLive, RunEnded, Building, Looked, Named

\* A step that does not touch what has been seen to.
LEMMA FoundMoves ==
  ASSUME FoundInv, UNCHANGED <<table, ann>>, OwedIsLive', RunEnded', Building',
         \A p \in Files : owed'[p] # 0 => owed'[p] = owed[p],
         run.late => run'.late,
         \A p \in Files : /\ LookDone(ShardOf[p])' => LookDone(ShardOf[p])
                          /\ AnnDone(ShardOf[p])' => AnnDone(ShardOf[p])
  PROVE  FoundInv'
<1> SUFFICES ASSUME ~run'.late PROVE Looked' /\ Named'
  BY DEF FoundInv
<1>1. Looked /\ Named
  BY DEF FoundInv
<1>2. \A p \in Files : owed'[p] # 0 /\ HasRow(p) => HasRow(p)'
  BY DEF HasRow
<1>3. \A p \in Files : NamedIn(ShardOf[p], p) => NamedIn(ShardOf[p], p)'
  BY DEF NamedIn, RowsOf
<1>4. Looked'
  BY <1>1, <1>2 DEF Looked
<1>5. Named'
  BY <1>1, <1>3 DEF Named
<1> QED BY <1>4, <1>5

\* A step after which nothing that is owed counts as seen to.
LEMMA FoundAnew ==
  ASSUME OwedIsLive', RunEnded', Building',
         run'.late \/ \A p \in Files : owed'[p] # 0 => ~LookDone(ShardOf[p])'
  PROVE  FoundInv'
<1>1. \A p \in Files : AnnDone(ShardOf[p])' => LookDone(ShardOf[p])'
  BY DEF AnnDone, LookDone
<1> QED BY <1>1 DEF FoundInv, Looked, Named

LEMMA FoundWorks ==
  ASSUME VectorsInv, FoundInv,
         \/ ReadKeys \/ LookAgain \/ Gate \/ GateTimesOut \/ ToImages \/ ImagesFail \/ FinishRun \/ RunFails
         \/ \E p \in Files : Embed(p) \/ EmbedFails(p)
  PROVE  FoundInv'
<1>0. RunTypes /\ KeysOld /\ OwedIsLive /\ RunEnded /\ (run.stage = "gate" => run.back \in {"embed", "images"})
  BY DEF VectorsInv, FoundInv, KeysOld
<1>1. UNCHANGED <<table, ann, live, hash>> /\ (~LookAgain => UNCHANGED owed)
  BY DEF ReadKeys, LookAgain, Gate, GateTimesOut, ToImages, ImagesFail, FinishRun, RunFails, Embed, EmbedFails,
         UNCHANGED_Library, UNCHANGED_Outside
<1>2. ~LookAgain => OwedIsLive'
  BY <1>0, <1>1 DEF OwedIsLive
<1>3. CASE LookAgain
  <2>0. PICK shards \in Enumerated : /\ run' = [run EXCEPT !.stage = "look", !.shards = shards, !.late = FALSE]
                                     /\ owed' = PassesOver(shards)
    BY <1>3 DEF LookAgain
  <2>1. /\ run.stage = "embed" /\ run'.stage = "look" /\ run'.shards = shards /\ run'.job = run.job
    BY <1>0, <1>3, <2>0 DEF LookAgain, RunAt, RunTypes
  <2>2. RunEnded' /\ Building' /\ run'.job # "completed"
    BY <1>0, <2>1 DEF RunEnded, Building
  <2>3. \A p \in Files : owed'[p] # 0 => owed'[p] = owed[p] /\ ShardOf[p] \in shards
    BY <2>0 DEF PassesOver
  <2>4. OwedIsLive'
    BY <1>0, <1>1, <2>3 DEF OwedIsLive
  <2>5. \A p \in Files : owed'[p] # 0 => ~LookDone(ShardOf[p])'
    BY <2>1, <2>2, <2>3 DEF LookDone, AfterImages
  <2> QED BY <2>2, <2>4, <2>5, FoundAnew
<1>4. CASE ReadKeys
  <2>1. run.stage = "keys" /\ run'.stage = "embed" /\ run'.job = run.job /\ run'.late = run.late
    BY <1>0, <1>4 DEF ReadKeys, RunAt, RunTypes
  <2>2. RunEnded' /\ Building' /\ run'.job # "completed"
    BY <1>0, <2>1 DEF RunEnded, Building
  <2>3. \A p \in Files : ~LookDone(ShardOf[p])'
    BY <2>1, <2>2 DEF LookDone, AfterImages
  <2>4. ~LookAgain
    BY <2>1 DEF LookAgain, RunAt
  <2> QED BY <1>2, <2>2, <2>3, <2>4, FoundAnew
<1>5. CASE Gate \/ GateTimesOut
  <2>1. /\ run.stage = "gate" /\ run'.stage = run.back /\ run'.back = run.back /\ run'.shards = run.shards
        /\ run'.todo = run.todo /\ run'.job = run.job /\ run'.late = run.late /\ run.back \in {"embed", "images"}
    BY <1>0, <1>5 DEF Gate, GateTimesOut, RunAt, RunTypes
  <2>2. RunEnded' /\ Building' /\ run'.job # "completed"
    BY <1>0, <2>1 DEF RunEnded, Building
  <2>3. \A p \in Files : /\ LookDone(ShardOf[p])' => LookDone(ShardOf[p])
                         /\ AnnDone(ShardOf[p])' => AnnDone(ShardOf[p])
    BY <2>1, <2>2 DEF LookDone, AnnDone, AfterImages
  <2>9. ~LookAgain
    BY <2>1 DEF LookAgain, RunAt
  <2> QED BY <1>1, <1>2, <2>1, <2>2, <2>3, <2>9, FoundMoves
<1>6. CASE ToImages
  <2>1. /\ run.stage = "ann" /\ run'.stage = "images" /\ run.shards = {}
        /\ run'.job = run.job /\ run'.late = run.late
    <3>1. PICK shards \in Enumerated : run' = [run EXCEPT !.stage = "images", !.shards = shards]
      BY <1>6 DEF ToImages
    <3> QED BY <1>0, <1>6, <3>1 DEF ToImages, RunAt, RunTypes
  <2>2. RunEnded' /\ Building' /\ run'.job # "completed"
    BY <1>0, <2>1 DEF RunEnded, Building
  <2>3. \A p \in Files : /\ LookDone(ShardOf[p])' => LookDone(ShardOf[p])
                         /\ AnnDone(ShardOf[p])' => AnnDone(ShardOf[p])
    BY <2>1, <2>2 DEF LookDone, AnnDone, AfterImages
  <2>9. ~LookAgain
    BY <2>1 DEF LookAgain, RunAt
  <2> QED BY <1>1, <1>2, <2>1, <2>2, <2>3, <2>9, FoundMoves
<1>7. CASE FinishRun
  <2>1. run.stage = "images" /\ run'.stage = "idle" /\ run'.late = run.late
    BY <1>7 DEF FinishRun, RunAt, NoRun
  <2>2. RunEnded' /\ Building'
    BY <2>1 DEF RunEnded, Building
  <2>3. \A p \in Files : /\ LookDone(ShardOf[p])' => LookDone(ShardOf[p])
                         /\ AnnDone(ShardOf[p])' => AnnDone(ShardOf[p])
    BY <2>1 DEF LookDone, AnnDone, AfterImages
  <2>9. ~LookAgain
    BY <2>1 DEF LookAgain, RunAt
  <2> QED BY <1>1, <1>2, <2>1, <2>2, <2>3, <2>9, FoundMoves
<1>8. CASE RunFails
  <2>1. run'.stage = "idle" /\ run'.job = "failed" /\ ~LookAgain
    BY <1>8 DEF RunFails, NoRun, LookAgain, RunAt
  <2>2. RunEnded' /\ Building' /\ \A p \in Files : ~LookDone(ShardOf[p])'
    BY <2>1 DEF RunEnded, Building, LookDone, AfterImages
  <2> QED BY <1>2, <2>1, <2>2, FoundAnew
<1>9. ASSUME NEW p \in Files, Embed(p) \/ EmbedFails(p) PROVE FoundInv'
  <2>1. /\ run.stage \in {"embed", "images"} /\ run'.stage = run.stage /\ run'.job = run.job
        /\ run'.late = run.late
    <3>1. CASE EmbedFails(p)
      BY <1>0, <3>1 DEF EmbedFails, RunAt, RunTypes
    <3>2. CASE Embed(p)
      <4>1. \/ run' = [run EXCEPT !.todo = @ \ {p}]
            \/ \E made \in Made(p) : run' = [run EXCEPT !.todo = @ \ {p}, !.of = [q \in {p} |-> made]]
        BY <3>2 DEF Embed
      <4>2. CASE run' = [run EXCEPT !.todo = @ \ {p}]
        BY <1>0, <3>2, <4>2 DEF Embed, RunTypes
      <4>3. ASSUME NEW made, run' = [run EXCEPT !.todo = @ \ {p}, !.of = [q \in {p} |-> made]]
            PROVE  /\ run.stage \in {"embed", "images"} /\ run'.stage = run.stage /\ run'.job = run.job
                   /\ run'.late = run.late
        BY <1>0, <3>2, <4>3 DEF Embed, RunTypes
      <4> QED BY <4>1, <4>2, <4>3
    <3> QED BY <1>9, <3>1, <3>2
  <2>2. RunEnded' /\ Building' /\ run'.job # "completed"
    BY <1>0, <2>1 DEF RunEnded, Building
  <2>3. \A q \in Files : /\ LookDone(ShardOf[q])' => LookDone(ShardOf[q])
                         /\ AnnDone(ShardOf[q])' => AnnDone(ShardOf[q])
    BY <2>1, <2>2 DEF LookDone, AnnDone, AfterImages
  <2>4. UNCHANGED owed
    BY <1>9 DEF Embed, EmbedFails, UNCHANGED_Library
  <2>5. OwedIsLive'
    BY <1>0, <1>1, <2>4 DEF OwedIsLive
  <2> QED BY <1>1, <2>1, <2>2, <2>3, <2>4, <2>5, FoundMoves
<1>10. CASE ImagesFail
  <2>1. /\ run.stage = "images" /\ run'.stage = "images" /\ run'.job = run.job /\ run'.late = run.late
        /\ ~LookAgain
    BY <1>0, <1>10 DEF ImagesFail, LookAgain, RunAt, RunTypes
  <2>2. RunEnded' /\ Building' /\ run'.job # "completed"
    BY <1>0, <2>1 DEF RunEnded, Building
  <2>3. \A p \in Files : /\ LookDone(ShardOf[p])' => LookDone(ShardOf[p])
                         /\ AnnDone(ShardOf[p])' => AnnDone(ShardOf[p])
    BY <2>1, <2>2 DEF LookDone, AnnDone, AfterImages
  <2> QED BY <1>1, <1>2, <2>1, <2>2, <2>3, FoundMoves
<1> QED BY <1>3, <1>4, <1>5, <1>6, <1>7, <1>8, <1>9, <1>10

LEMMA FoundRequest ==
  ASSUME VectorsInv, FoundInv, RequestIndex
  PROVE  FoundInv'
<1>0. RunTypes /\ RunEnded /\ Building /\ hash \in [Files -> Nat]
  BY DEF VectorsInv, FoundInv, SemanticTypes
<1>1. /\ UNCHANGED <<table, ann, live, hash>>
      /\ \A p \in Files : owed'[p] # 0 => owed'[p] = hash[p] /\ p \in live
  BY DEF RequestIndex
<1>2. OwedIsLive'
  BY <1>0, <1>1 DEF OwedIsLive
<1>3. CASE run.stage = "idle"
  <2>0. PICK shards \in Enumerated :
           /\ run' = [NoRun EXCEPT !.stage = "look", !.shards = shards, !.job = "running"]
           /\ owed' = [p \in Files |-> IF p \in live /\ (run.stage = "idle" => ShardOf[p] \in shards)
                                       THEN hash[p] ELSE 0]
    BY <1>3 DEF RequestIndex
  <2>1. run'.stage = "look" /\ run'.shards = shards /\ run'.job = "running"
    BY <2>0 DEF NoRun
  <2>2. RunEnded' /\ Building'
    BY <2>1 DEF RunEnded, Building
  <2>3. \A p \in Files : owed'[p] # 0 => ~LookDone(ShardOf[p])'
    BY <1>3, <2>0, <2>1 DEF LookDone, AfterImages
  <2> QED BY <1>2, <2>2, <2>3, FoundAnew
<1>4. CASE run.stage # "idle"
  <2>0. run' = [run EXCEPT !.late = @ \/ ~LooksAgain]
    BY <1>4 DEF RequestIndex
  <2>1. /\ run'.stage = run.stage /\ run'.job = run.job /\ run'.shards = run.shards
        /\ run'.todo = run.todo /\ run'.back = run.back
        /\ ~LooksAgain => run'.late
    BY <1>0, <2>0 DEF RunTypes, LooksAgain
  <2>2. RunEnded' /\ run'.job # "completed"
    BY <1>0, <1>4, <2>1 DEF RunEnded
  <2>3. Building'
    BY <1>0, <1>1, <2>1 DEF Building, RowsOf
  <2>4. run'.late \/ \A p \in Files : ~LookDone(ShardOf[p])'
    BY <2>1, <2>2 DEF LookDone, AfterImages, LooksAgain
  <2> QED BY <1>2, <2>2, <2>3, <2>4, FoundAnew
<1> QED BY <1>3, <1>4

LEMMA FoundRestarts ==
  ASSUME VectorsInv, FoundInv, SemanticBoot \/ SemanticCrash
  PROVE  FoundInv'
<1>1. run'.stage \in {"idle", "down"} /\ run'.job = "none" /\ UNCHANGED <<owed, live, hash>>
  BY DEF SemanticBoot, SemanticCrash, NoRun
<1>2. OwedIsLive' /\ RunEnded' /\ Building' /\ \A p \in Files : ~LookDone(ShardOf[p])'
  BY <1>1 DEF FoundInv, OwedIsLive, RunEnded, Building, LookDone, AfterImages
<1> QED BY <1>2, FoundAnew

LEMMA FoundElsewhere ==
  ASSUME VectorsInv, FoundInv,
         \/ KeepRows \/ UseServer \/ UNCHANGED vars_semantic
         \/ \E s \in Shards, model \in Models : LoadRows(s, model)
         \/ \E p \in Files : EditFile(p) \/ IndexFile(p) \/ IndexText(p) \/ RemoveFile(p)
  PROVE  FoundInv'
<1>0. /\ owed \in [Files -> Nat] /\ disk \in [Files -> Nat] /\ hash \in [Files -> Nat] /\ HashOld /\ OwedIsLive
      /\ RunEnded /\ Building
  BY DEF VectorsInv, SemanticTypes, FoundInv
<1>1. UNCHANGED <<table, ann, run>>
  BY DEF KeepRows, UseServer, LoadRows, EditFile, IndexFile, IndexText, RemoveFile, vars_semantic
<1>2. OwedIsLive' /\ \A p \in Files : owed'[p] # 0 => owed'[p] = owed[p]
  <2>1. CASE UNCHANGED <<owed, live, hash>>
    BY <1>0, <2>1 DEF OwedIsLive
  <2>2. ASSUME NEW p \in Files, IndexFile(p)
        PROVE  OwedIsLive' /\ \A q \in Files : owed'[q] # 0 => owed'[q] = owed[q]
    BY <1>0, <2>2 DEF IndexFile, OwedIsLive, HashOld
  <2>3. ASSUME NEW p \in Files, RemoveFile(p)
        PROVE  OwedIsLive' /\ \A q \in Files : owed'[q] # 0 => owed'[q] = owed[q]
    BY <1>0, <2>3 DEF RemoveFile, OwedIsLive
  <2> QED BY <2>1, <2>2, <2>3 DEF KeepRows, UseServer, LoadRows, EditFile, IndexText, vars_semantic
<1>3. RunEnded' /\ Building'
  BY <1>0, <1>1 DEF RunEnded, Building, RowsOf
<1>4. \A p \in Files : /\ LookDone(ShardOf[p])' => LookDone(ShardOf[p])
                       /\ AnnDone(ShardOf[p])' => AnnDone(ShardOf[p])
  BY <1>1 DEF LookDone, AnnDone, AfterImages
<1> QED BY <1>1, <1>2, <1>3, <1>4, FoundMoves

\* What the steps that write a table leave to the text rows.
LEMMA DropsKeep ==
  ASSUME SemanticTypes, NEW s \in Shards, NEW files, DropRows(s, files)
  PROVE  /\ \A p \in Files : p \notin files /\ owed'[p] = owed[p] /\ HasRow(p) => HasRow(p)'
         /\ \A q \in Shards : Len(Rows(table'[q], "text")) <= Len(Rows(table[q], "text"))
<1> DEFINE rows == table[s]
           I == {i \in DOMAIN rows : rows[i].path \notin files}
<1>1. rows \in Seq(RowType) /\ table \in [Shards -> Seq(RowType)]
  BY DEF SemanticTypes
<1>2. table' = [table EXCEPT ![s] = Picked(rows, I)]
  BY DEF DropRows
<1>3. \A q \in Shards : table'[q] = IF q = s THEN Picked(rows, I) ELSE table[q]
  BY <1>1, <1>2
<1>4. \A i \in DOMAIN rows : rows[i].path \notin files =>
         \E j \in DOMAIN Picked(rows, I) : Picked(rows, I)[j] = rows[i]
  <2>1. \A i \in DOMAIN rows : rows[i].path \notin files => i \in I
    OBVIOUS
  <2> HIDE DEF I
  <2>2. \A i \in DOMAIN rows : i \in I => \E j \in DOMAIN Picked(rows, I) : Picked(rows, I)[j] = rows[i]
    BY <1>1, PickedHas
  <2> QED BY <2>1, <2>2
<1> HIDE DEF I
<1>5. ASSUME NEW p \in Files, p \notin files, owed'[p] = owed[p], HasRow(p)
      PROVE  HasRow(p)'
  <2>1. ShardOf[p] \in Shards
    BY SemanticAssumption
  <2>2. PICK i \in DOMAIN table[ShardOf[p]] :
            /\ table[ShardOf[p]][i].path = p /\ table[ShardOf[p]][i].model = "text"
            /\ table[ShardOf[p]][i].key >= owed[p]
    BY <1>5 DEF HasRow
  <2>3. CASE ShardOf[p] = s
    <3>1. PICK j \in DOMAIN Picked(rows, I) : Picked(rows, I)[j] = rows[i]
      BY <1>4, <1>5, <2>2, <2>3
    <3>2. j \in DOMAIN table'[ShardOf[p]] /\ table'[ShardOf[p]][j] = table[ShardOf[p]][i]
      BY <1>3, <2>1, <2>3, <3>1
    <3> QED BY <1>5, <2>2, <3>2 DEF HasRow
  <2>4. CASE ShardOf[p] # s
    <3>1. table'[ShardOf[p]] = table[ShardOf[p]]
      BY <1>3, <2>1, <2>4
    <3> QED BY <1>5, <2>2, <3>1 DEF HasRow
  <2> QED BY <2>3, <2>4
<1>6. ASSUME NEW q \in Shards
      PROVE  Len(Rows(table'[q], "text")) <= Len(Rows(table[q], "text"))
  <2>1. CASE q = s
    <3>1. Len(Rows(Picked(rows, I), "text")) <= Len(Rows(rows, "text"))
      BY <1>1, RowsFewer
    <3> QED BY <1>3, <2>1, <3>1
  <2>2. CASE q # s
    <3>1. Rows(table[q], "text") \in Seq(RowType)
      BY <1>1, RowsIn
    <3>2. Len(Rows(table[q], "text")) \in Nat
      BY <3>1
    <3> QED BY <1>3, <2>2, <3>2
  <2> QED BY <2>1, <2>2
<1> QED BY <1>5, <1>6

LEMMA ImagesKeep ==
  ASSUME SemanticTypes, NEW q \in Files, NEW key \in Nat, NEW of \in ContentType, Store(q, "image", key, of)
  PROVE  /\ \A p \in Files : owed'[p] = owed[p] /\ HasRow(p) => HasRow(p)'
         /\ \A s \in Shards : Rows(table'[s], "text") = Rows(table[s], "text")
<1> DEFINE s == ShardOf[q]
           rows == table[s]
           row == Row(q, "image", key, of)
           u == Upserted(rows, row)
<1>1. s \in Shards /\ table \in [Shards -> Seq(RowType)] /\ rows \in Seq(RowType)
  BY SemanticAssumption DEF SemanticTypes
<1>2. row \in RowType /\ row.model = "image"
  BY DEF Row, RowType, Models
<1>3. table' = [table EXCEPT ![s] = u]
  BY DEF Store
<1>4. \A r \in Shards : table'[r] = IF r = s THEN u ELSE table[r]
  BY <1>1, <1>3
<1> HIDE DEF row
<1>5. \A i \in DOMAIN rows : rows[i].path # row.path \/ rows[i].model # row.model =>
         \E j \in DOMAIN u : u[j] = rows[i]
  BY <1>1, <1>2, UpsertedIs
<1>6. Rows(u, "text") = Rows(rows, "text")
  BY <1>1, <1>2, UpsertedOther
<1> HIDE DEF u
<1>7. ASSUME NEW p \in Files, owed'[p] = owed[p], HasRow(p)
      PROVE  HasRow(p)'
  <2>1. ShardOf[p] \in Shards
    BY SemanticAssumption
  <2>2. PICK i \in DOMAIN table[ShardOf[p]] :
            /\ table[ShardOf[p]][i].path = p /\ table[ShardOf[p]][i].model = "text"
            /\ table[ShardOf[p]][i].key >= owed[p]
    BY <1>7 DEF HasRow
  <2>3. \E j \in DOMAIN table'[ShardOf[p]] : table'[ShardOf[p]][j] = table[ShardOf[p]][i]
    <3>1. CASE ShardOf[p] = s
      <4>1. PICK j \in DOMAIN u : u[j] = rows[i]
        BY <1>2, <1>5, <2>2, <3>1
      <4> QED BY <1>4, <2>1, <3>1, <4>1
    <3>2. CASE ShardOf[p] # s
      BY <1>4, <2>1, <2>2, <3>2
    <3> QED BY <3>1, <3>2
  <2> QED BY <1>7, <2>2, <2>3 DEF HasRow
<1>8. \A r \in Shards : Rows(table'[r], "text") = Rows(table[r], "text")
  BY <1>4, <1>6
<1> QED BY <1>7, <1>8

\* A look that finds nothing to do. If a file of the shard were due, the first of them in the
\* order of the database would have a slice of files of other shards before it, and so has
\* every later one.
LEMMA NothingDue ==
  ASSUME SemanticTypes, NEW s \in Shards, NEW p \in Due(s, "text"), ShardOf[p] = s,
         Mine(s, First(Due(s, "text"), Slice)) = {}
  PROVE  Starved(p)
<1> DEFINE D == Due(s, "text")
           M == {q \in D : ShardOf[q] = s}
           N == {BlobId[q] : q \in M}
           R == OpToRel(<, Nat)
<1>0. /\ D \subseteq live /\ live \subseteq Files /\ IsFiniteSet(Files) /\ BlobId \in [Files -> Nat]
      /\ Slice \in Nat
  BY SemanticAssumption DEF SemanticTypes, Due
<1> HIDE DEF D
<1>1. p \in M /\ p \in D
  BY DEF D
<1>2. N \subseteq Nat /\ N # {}
  BY <1>0, <1>1
<1>3. IsWellFoundedOn(R, Nat)
  BY NatLessThanWellFounded
<1>4. PICK n \in N : \A m \in N : ~(<<m, n>> \in R)
  <2> HIDE DEF R, N
  <2> QED BY <1>2, <1>3, WFMin
<1>5. \A m \in N : ~(m < n)
  BY <1>2, <1>4 DEF OpToRel
<1>6. PICK first \in M : BlobId[first] = n
  OBVIOUS
<1> HIDE DEF R, N
<1>7. \A q \in M : BlobId[q] \in N /\ BlobId[q] \in Nat
  BY <1>0 DEF N
<1> DEFINE A == {q \in D : BlobId[q] < BlobId[first]}
           B == {q \in live : ShardOf[q] # ShardOf[p] /\ BlobId[q] < BlobId[p]}
<1>8. ~(Cardinality(A) < Slice)
  <2>1. first \in D /\ first \in Files /\ ShardOf[first] = s
    BY <1>0, <1>6
  <2>2. first \notin First(D, Slice)
    BY <1>0, <2>1 DEF Mine, First, D
  <2> QED BY <2>1, <2>2 DEF First
<1>9. A \subseteq B
  <2> SUFFICES ASSUME NEW q \in A PROVE q \in B
    OBVIOUS
  <2>1. q \in D /\ q \in live /\ BlobId[q] \in Nat /\ BlobId[first] \in Nat /\ BlobId[p] \in Nat
        /\ BlobId[q] < BlobId[first] /\ q \in Files
    BY <1>0, <1>1, <1>6, <1>7
  <2>2. ~(BlobId[p] < BlobId[first])
    BY <1>1, <1>5, <1>6, <1>7
  <2>3. q \notin M
    BY <1>5, <1>6, <1>7, <2>1
  <2> QED BY <2>1, <2>2, <2>3
<1>10. IsFiniteSet(B) /\ Cardinality(B) \in Nat /\ Cardinality(A) \in Nat /\ Cardinality(A) <= Cardinality(B)
  <2>1. IsFiniteSet(B)
    BY <1>0, FS_Subset
  <2>2. IsFiniteSet(A) /\ Cardinality(A) <= Cardinality(B)
    <3> HIDE DEF A, B
    <3> QED BY <1>9, <2>1, FS_Subset
  <2> HIDE DEF A, B
  <2> QED BY <2>1, <2>2, FS_CardinalityType
<1>11. Cardinality(B) >= Slice
  <2> HIDE DEF A, B
  <2> QED BY <1>0, <1>8, <1>10
<1> QED BY <1>11 DEF Starved

\* What a look leaves owed, and what the run becomes.
LookLeaves(s, shards, todo) ==
    LET more == run.shards \ {s}
    IN  /\ run' = IF more # {} THEN [run EXCEPT !.shards = more, !.todo = todo]
                  ELSE IF todo = {} THEN [run EXCEPT !.stage = "ann", !.shards = shards]
                  ELSE [run EXCEPT !.stage = "keys", !.shards = {}, !.todo = todo]
        /\ \A p \in Files : owed'[p] # 0 => more # {} \/ todo # {} \/ ShardOf[p] \in shards

LEMMA LookOwes ==
  ASSUME NEW s \in Shards, Look(s)
  PROVE  /\ \A p \in Files : owed'[p] = 0 \/ (owed'[p] = owed[p] /\ ~(ShardOf[p] = s /\ Starved(p)))
         /\ \E shards \in Enumerated :
               LookLeaves(s, shards, run.todo \cup Mine(s, First(Due(s, "text"), Slice)))
<1> DEFINE todo == run.todo \cup Mine(s, First(Due(s, "text"), Slice))
           more == run.shards \ {s}
<1>1. PICK shards \in Enumerated :
        /\ run' = IF more # {} THEN [run EXCEPT !.shards = more, !.todo = todo]
                  ELSE IF todo = {} THEN [run EXCEPT !.stage = "ann", !.shards = shards]
                  ELSE [run EXCEPT !.stage = "keys", !.shards = {}, !.todo = todo]
        /\ owed' = [p \in Files |->
                       IF \/ ShardOf[p] = s /\ Starved(p)
                          \/ more = {} /\ todo = {} /\ ShardOf[p] \notin shards
                       THEN 0 ELSE owed[p]]
  BY DEF Look
<1> HIDE DEF todo
<1>2. \A p \in Files : owed'[p] = 0 \/ (owed'[p] = owed[p] /\ ~(ShardOf[p] = s /\ Starved(p)))
  BY <1>1
<1>3. LookLeaves(s, shards, todo)
  BY <1>1 DEF LookLeaves
<1> QED BY <1>2, <1>3 DEF todo

LEMMA LookSees ==
  ASSUME VectorsInv, FoundInv, ~run.late, NEW s \in Shards, Look(s), run.todo = {},
         Mine(s, First(Due(s, "text"), Slice)) = {},
         NEW p \in Files, owed'[p] # 0, ShardOf[p] \notin run.shards \ {s}
  PROVE  HasRow(p)'
<1>0. SemanticTypes /\ OwedIsLive /\ Looked /\ run.stage = "look" /\ owed \in [Files -> Nat]
  BY DEF VectorsInv, FoundInv, Look, RunAt, SemanticTypes
<1>2. owed'[p] = owed[p] /\ owed[p] # 0 /\ ~(ShardOf[p] = s /\ Starved(p))
  BY LookOwes
<1>3. p \in live /\ owed[p] <= hash[p]
  BY <1>0, <1>2 DEF OwedIsLive
<1>4. HasRow(p)
  <2>1. CASE ShardOf[p] = s
    <3>1. p \notin Due(s, "text")
      BY <1>0, <1>2, <2>1, NothingDue
    <3>2. PICK i \in DOMAIN table[s] :
             table[s][i].path = p /\ table[s][i].model = "text" /\ table[s][i].key = hash[p]
      BY <1>3, <3>1 DEF Due
    <3>3. hash[p] \in Nat /\ owed[p] \in Nat
      BY <1>0 DEF SemanticTypes
    <3> QED BY <1>3, <2>1, <3>2, <3>3 DEF HasRow
  <2>2. CASE ShardOf[p] # s
    <3>1. LookDone(ShardOf[p])
      BY <1>0, <2>2 DEF LookDone
    <3> QED BY <1>0, <1>2, <3>1 DEF Looked
  <2> QED BY <2>1, <2>2
<1>5. p \notin Orphans(s, "text")
  BY <1>3 DEF Orphans
<1>6. DropRows(s, Orphans(s, "text"))
  BY DEF Look
<1> QED BY <1>0, <1>2, <1>4, <1>5, <1>6, DropsKeep

LEMMA FoundLook ==
  ASSUME VectorsInv, FoundInv, NEW s \in Shards, Look(s)
  PROVE  FoundInv'
<1> DEFINE found == Mine(s, First(Due(s, "text"), Slice))
           todo == run.todo \cup found
           more == run.shards \ {s}
<1>0. /\ RunTypes /\ RunEnded /\ OwedIsLive /\ run.stage = "look" /\ run.job # "completed"
      /\ UNCHANGED <<live, hash, ann>> /\ owed \in [Files -> Nat]
  BY DEF VectorsInv, FoundInv, Look, UNCHANGED_Outside, RunAt, SemanticTypes, RunEnded
<1>1. PICK shards \in Enumerated : LookLeaves(s, shards, todo)
  BY LookOwes
<1>2. \A p \in Files : owed'[p] = 0 \/ owed'[p] = owed[p]
  BY LookOwes
<1>3. OwedIsLive'
  BY <1>0, <1>2 DEF OwedIsLive
<1>4. run.todo = {} /\ found = {} <=> todo = {}
  OBVIOUS
<1>5. /\ run'.job = run.job /\ run'.late = run.late
      /\ \/ run'.stage = "look" /\ run'.shards = more /\ run'.todo = todo
         \/ /\ run'.stage = "ann" /\ run'.shards = shards /\ todo = {} /\ more = {}
            /\ \A p \in Files : owed'[p] # 0 => ShardOf[p] \in shards
         \/ run'.stage = "keys"
  <2>0. /\ run' = IF more # {} THEN [run EXCEPT !.shards = more, !.todo = todo]
                  ELSE IF todo = {} THEN [run EXCEPT !.stage = "ann", !.shards = shards]
                  ELSE [run EXCEPT !.stage = "keys", !.shards = {}, !.todo = todo]
        /\ \A p \in Files : owed'[p] # 0 => more # {} \/ todo # {} \/ ShardOf[p] \in shards
    <3> HIDE DEF todo
    <3> QED BY <1>1 DEF LookLeaves
  <2> HIDE DEF todo, more
  <2>1. CASE more # {}
    BY <1>0, <2>0, <2>1 DEF RunTypes
  <2>2. CASE more = {} /\ todo = {}
    BY <1>0, <2>0, <2>2 DEF RunTypes
  <2>3. CASE more = {} /\ todo # {}
    BY <1>0, <2>0, <2>3 DEF RunTypes
  <2> QED BY <2>1, <2>2, <2>3
<1>6. RunEnded' /\ Building'
  BY <1>0, <1>5 DEF RunEnded, Building
<1>7. ASSUME ~run'.late, NEW p \in Files, owed'[p] # 0, LookDone(ShardOf[p])'
      PROVE  HasRow(p)'
  <2>1. todo = {} /\ ShardOf[p] \notin more
    BY <1>0, <1>5, <1>7 DEF LookDone, AfterImages
  <2> HIDE DEF found, todo
  <2> QED BY <1>4, <1>5, <1>7, <2>1, LookSees DEF found
<1>8. \A p \in Files : owed'[p] # 0 => ~AnnDone(ShardOf[p])'
  BY <1>0, <1>5 DEF AnnDone, AfterImages
<1>9. ~run'.late => Looked' /\ Named'
  BY <1>7, <1>8 DEF Looked, Named
<1> QED BY <1>3, <1>6, <1>9 DEF FoundInv

LEMMA FoundLookImages ==
  ASSUME VectorsInv, FoundInv, NEW s \in Shards, LookImages(s)
  PROVE  FoundInv'
<1>0. /\ RunTypes /\ RunEnded /\ OwedIsLive /\ SemanticTypes /\ run.stage = "images"
      /\ UNCHANGED <<live, hash, ann, owed>> /\ run.job # "completed"
  BY DEF VectorsInv, FoundInv, LookImages, RunAt, UNCHANGED_Library, UNCHANGED_Outside, RunEnded
<1>1. run'.stage = "images" /\ run'.job = run.job /\ run'.late = run.late
  BY <1>0 DEF LookImages, RunTypes
<1>2. OwedIsLive' /\ RunEnded' /\ Building'
  BY <1>0, <1>1 DEF OwedIsLive, RunEnded, Building
<1>3. DropRows(s, Orphans(s, "image"))
  BY DEF LookImages
<1>4. ASSUME ~run'.late PROVE Looked' /\ Named'
  <2>1. \A p \in Files : owed[p] # 0 => HasRow(p) /\ NamedIn(ShardOf[p], p)
    BY <1>0, <1>1, <1>4 DEF FoundInv, Looked, Named, LookDone, AnnDone, AfterImages
  <2>2. \A p \in Files : owed[p] # 0 => p \notin Orphans(s, "image")
    BY <1>0 DEF OwedIsLive, Orphans
  <2>3. \A p \in Files : owed[p] # 0 => HasRow(p)'
    BY <1>0, <1>3, <2>1, <2>2, DropsKeep
  <2>4. \A q \in Shards : /\ Len(Rows(table'[q], "text")) <= Len(Rows(table[q], "text"))
                          /\ Len(Rows(table'[q], "text")) \in Nat /\ Len(Rows(table[q], "text")) \in Nat
    <3>1. VectorsInv'
      BY LooksInv
    <3>2. table \in [Shards -> Seq(RowType)] /\ table' \in [Shards -> Seq(RowType)]
      BY <1>0, <3>1 DEF VectorsInv, SemanticTypes
    <3>3. \A q \in Shards : Rows(table'[q], "text") \in Seq(RowType) /\ Rows(table[q], "text") \in Seq(RowType)
      BY <3>2, RowsIn
    <3>4. \A q \in Shards : Len(Rows(table'[q], "text")) \in Nat /\ Len(Rows(table[q], "text")) \in Nat
      BY <3>3
    <3> QED BY <1>0, <1>3, <3>4, DropsKeep
  <2>5. \A p \in Files : ShardOf[p] \in Shards /\ IvfMinItems \in Nat
    BY SemanticAssumption
  <2>6. \A p \in Files : NamedIn(ShardOf[p], p) => NamedIn(ShardOf[p], p)'
    BY <1>0, <2>4, <2>5 DEF NamedIn, RowsOf
  <2> QED BY <1>0, <2>1, <2>3, <2>6 DEF Looked, Named
<1> QED BY <1>2, <1>4 DEF FoundInv

LEMMA FoundUpsert ==
  ASSUME VectorsInv, FoundInv, NEW p \in Files, Upsert(p)
  PROVE  FoundInv'
<1>0. /\ RunTypes /\ RunEnded /\ OwedIsLive /\ SemanticTypes /\ KeysOld
      /\ UNCHANGED <<live, hash, ann, owed>>
  BY DEF VectorsInv, FoundInv, Upsert, UNCHANGED_Library, UNCHANGED_Outside
<1>1. /\ run.stage \in {"embed", "images"} /\ run.job # "completed"
      /\ run.keys[p] \in Nat /\ run.of[p] \in ContentType
  BY <1>0 DEF Upsert, KeysOld, RunEnded
<1>2. /\ run'.stage = "gate" /\ run'.back = run.stage /\ run'.job = run.job /\ run'.late = run.late
  BY <1>0 DEF Upsert, RunTypes
<1>3. OwedIsLive' /\ RunEnded' /\ Building'
  BY <1>0, <1>1, <1>2 DEF OwedIsLive, RunEnded, Building
<1>4. CASE run.stage = "embed"
  <2>1. \A q \in Files : ~LookDone(ShardOf[q])'
    BY <1>1, <1>2, <1>4 DEF LookDone, AfterImages
  <2> QED BY <1>3, <2>1, FoundAnew
<1>5. CASE run.stage = "images"
  <2>1. Store(p, "image", run.keys[p], run.of[p])
    BY <1>5 DEF Upsert, RunAt, StoredKey
  <2>2. ASSUME ~run'.late PROVE Looked' /\ Named'
    <3>1. \A q \in Files : owed[q] # 0 => HasRow(q) /\ NamedIn(ShardOf[q], q)
      BY <1>2, <1>5, <2>2 DEF FoundInv, Looked, Named, LookDone, AnnDone, AfterImages
    <3>2. \A q \in Files : owed'[q] = owed[q] /\ HasRow(q) => HasRow(q)'
      BY <1>0, <1>1, <2>1, ImagesKeep
    <3>3. \A s \in Shards : Rows(table'[s], "text") = Rows(table[s], "text")
      BY <1>0, <1>1, <2>1, ImagesKeep
    <3>4. \A q \in Files : ShardOf[q] \in Shards
      BY SemanticAssumption
    <3>5. \A q \in Files : NamedIn(ShardOf[q], q) => NamedIn(ShardOf[q], q)'
      BY <1>0, <3>3, <3>4 DEF NamedIn, RowsOf
    <3> QED BY <1>0, <3>1, <3>2, <3>5 DEF Looked, Named
  <2> QED BY <1>3, <2>2 DEF FoundInv
<1> QED BY <1>1, <1>4, <1>5

\* A file that can be found has its name among those of the index being built.
LEMMA NamesHave ==
  ASSUME SemanticTypes, NEW p \in Files, HasRow(p)
  PROVE  LET names == Paths(RowsOf(ShardOf[p], "text"))
         IN  \E j \in DOMAIN names : names[j] = p
<1> DEFINE rows == table[ShardOf[p]]
           text == Rows(rows, "text")
<1>1. rows \in Seq(RowType)
  BY SemanticAssumption DEF SemanticTypes
<1>2. PICK i \in DOMAIN rows : rows[i].path = p /\ rows[i].model = "text"
  BY DEF HasRow
<1>3. \E j \in DOMAIN text : text[j] = rows[i]
  <2> HIDE DEF rows
  <2> QED BY <1>1, <1>2, RowsHave
<1> HIDE DEF rows
<1> QED BY <1>2, <1>3 DEF Paths, RowsOf, rows

LEMMA FoundBuilds ==
  ASSUME VectorsInv, FoundInv, NEW s \in Shards, BuildRows(s)
  PROVE  FoundInv'
<1>0. /\ RunTypes /\ RunEnded /\ OwedIsLive /\ run.stage = "ann" /\ run.job # "completed"
      /\ UNCHANGED <<live, hash, owed, table>> /\ s \in run.shards
      /\ ann \in [Shards -> [rows : Seq(Files), names : Seq(Files)]]
  BY DEF VectorsInv, SemanticTypes, FoundInv, BuildRows, RunAt, UNCHANGED_Library, UNCHANGED_Outside, RunEnded
<1>1. \A p \in Files : HasRow(p) => HasRow(p)'
  BY <1>0 DEF HasRow
<1>2. OwedIsLive'
  BY <1>0 DEF OwedIsLive
<1>3. /\ run'.job = run.job /\ run'.late = run.late /\ run'.stage \in {"ann", "names"}
      /\ \A q \in Shards : q \notin run'.shards => q \notin run.shards \/ (q = s /\ run'.stage = "ann")
  <2>1. CASE run' = [run EXCEPT !.shards = @ \ {s}]
    BY <1>0, <2>1 DEF RunTypes
  <2>2. CASE run' = [run EXCEPT !.stage = "names", !.shards = {s} \cup @, !.todo = Mine(s, Files)]
    BY <1>0, <2>2 DEF RunTypes
  <2> QED BY <2>1, <2>2 DEF BuildRows
<1>4. \/ Len(RowsOf(s, "text")) < IvfMinItems /\ UNCHANGED ann /\ run'.stage = "ann"
      \/ /\ run'.stage = "names" /\ s \in run'.shards /\ run'.todo = Mine(s, Files)
         /\ ann' = [ann EXCEPT ![s].rows = Paths(RowsOf(s, "text"))]
  BY <1>0 DEF BuildRows, RunTypes
<1>5. RunEnded' /\ Building'
  <2>1. RunEnded'
    BY <1>0, <1>3 DEF RunEnded
  <2>2. run'.stage = "names" => ann'[s].rows = Paths(RowsOf(s, "text"))
    BY <1>0, <1>4
  <2>3. Building'
    BY <1>0, <1>4, <2>2 DEF Building, RowsOf
  <2> QED BY <2>1, <2>3
<1>6. ASSUME ~run'.late PROVE Looked' /\ Named'
  <2>1. \A p \in Files : owed[p] # 0 => HasRow(p)
    BY <1>0, <1>3, <1>6 DEF FoundInv, Looked, LookDone
  <2>2. Looked'
    BY <1>0, <1>1, <2>1 DEF Looked
  <2>3. ASSUME NEW p \in Files, owed[p] # 0, AnnDone(ShardOf[p])'
        PROVE  NamedIn(ShardOf[p], p)'
    <3>1. ShardOf[p] \in Shards /\ ShardOf[p] \notin run'.shards
      BY <1>0, <1>3, <2>3, SemanticAssumption DEF AnnDone, AfterImages
    <3>2. CASE ShardOf[p] \notin run.shards
      <4>1. NamedIn(ShardOf[p], p)
        BY <1>0, <1>3, <1>6, <2>3, <3>2 DEF FoundInv, Named, AnnDone
      <4>2. ShardOf[p] # s
        BY <1>0, <3>2
      <4>3. ann'[ShardOf[p]] = ann[ShardOf[p]]
        BY <1>0, <1>4, <3>1, <4>2
      <4> QED BY <1>0, <4>1, <4>3 DEF NamedIn, RowsOf
    <3>3. CASE ShardOf[p] = s /\ run'.stage = "ann"
      BY <1>0, <1>4, <3>3 DEF NamedIn, RowsOf
    <3> QED BY <1>3, <3>1, <3>2, <3>3
  <2>4. Named'
    BY <1>0, <2>3 DEF Named
  <2> QED BY <2>2, <2>4
<1> QED BY <1>2, <1>5, <1>6 DEF FoundInv

LEMMA FoundNames ==
  ASSUME VectorsInv, FoundInv, NEW s \in Shards, WriteNames(s)
  PROVE  FoundInv'
<1>0. /\ RunTypes /\ SemanticTypes /\ RunEnded /\ OwedIsLive /\ Building /\ run.stage = "names"
      /\ run.job # "completed" /\ UNCHANGED <<live, hash, owed, table>> /\ s \in run.shards
      /\ ann \in [Shards -> [rows : Seq(Files), names : Seq(Files)]]
      /\ run.todo = Mine(s, Files)
      /\ ann' = [ann EXCEPT ![s].names = Paths(RowsOf(s, "text"))]
  BY DEF VectorsInv, SemanticTypes, FoundInv, WriteNames, Indexed, RunAt, UNCHANGED_Library, UNCHANGED_Outside, RunEnded
<1>1. \A p \in Files : HasRow(p) => HasRow(p)'
  BY <1>0 DEF HasRow
<1>2. run'.job = run.job /\ run'.late = run.late /\ run'.stage = "ann" /\ run'.shards = run.shards \ {s}
  BY <1>0 DEF WriteNames, RunTypes
<1>3. OwedIsLive' /\ RunEnded' /\ Building'
  BY <1>0, <1>2 DEF OwedIsLive, RunEnded, Building
<1>4. ASSUME ~run'.late PROVE Looked' /\ Named'
  <2>1. \A p \in Files : owed[p] # 0 => HasRow(p)
    BY <1>0, <1>2, <1>4 DEF FoundInv, Looked, LookDone
  <2>2. Looked'
    BY <1>0, <1>1, <2>1 DEF Looked
  <2>3. ASSUME NEW p \in Files, owed[p] # 0, AnnDone(ShardOf[p])'
        PROVE  NamedIn(ShardOf[p], p)'
    <3>1. ShardOf[p] \in Shards /\ ShardOf[p] \notin run.shards \ {s}
      BY <1>0, <1>2, <2>3, SemanticAssumption DEF AnnDone, AfterImages
    <3>2. CASE ShardOf[p] = s
      <4> DEFINE names == Paths(RowsOf(s, "text"))
      <4>1. \E j \in DOMAIN names : names[j] = p
        BY <1>0, <2>1, <2>3, <3>2, NamesHave
      <4>2. ann[s].rows = names
        <5>1. PICK q \in run.shards : run.todo = Mine(q, Files) /\ ann[q].rows = Paths(RowsOf(q, "text"))
          BY <1>0 DEF Building
        <5>2. q = s
          BY <1>0, <3>2, <5>1 DEF Mine
        <5> QED BY <5>1, <5>2
      <4>3. ann'[s].rows = names /\ ann'[s].names = names
        <5> HIDE DEF names
        <5>1. ann' = [ann EXCEPT ![s].names = names]
          BY <1>0 DEF names
        <5> QED BY <1>0, <4>2, <5>1
      <4> HIDE DEF names
      <4> QED BY <3>2, <4>1, <4>3 DEF NamedIn
    <3>3. CASE ShardOf[p] # s
      <4>1. NamedIn(ShardOf[p], p)
        BY <1>0, <1>2, <1>4, <2>3, <3>1, <3>3 DEF FoundInv, Named, AnnDone
      <4>2. ann'[ShardOf[p]] = ann[ShardOf[p]]
        BY <1>0, <3>1, <3>3
      <4> QED BY <1>0, <4>1, <4>2 DEF NamedIn, RowsOf
    <3> QED BY <3>2, <3>3
  <2>4. Named'
    BY <1>0, <2>3 DEF Named
  <2> QED BY <2>2, <2>4
<1> QED BY <1>3, <1>4 DEF FoundInv

\* A shard whose index could not be built is owed nothing any more.
LEMMA FoundBuildFails ==
  ASSUME VectorsInv, FoundInv, NEW s \in Shards, BuildFails(s)
  PROVE  FoundInv'
<1>0. /\ RunTypes /\ RunEnded /\ OwedIsLive /\ run.stage \in {"ann", "names"} /\ run.job # "completed"
      /\ UNCHANGED <<live, hash, table>> /\ s \in run.shards /\ owed' = PassesOver(Shards \ {s})
      /\ ann \in [Shards -> [rows : Seq(Files), names : Seq(Files)]]
      /\ run' = [run EXCEPT !.stage = "ann", !.shards = @ \ {s}, !.todo = {}]
  BY DEF VectorsInv, SemanticTypes, FoundInv, BuildFails, RunAt, UNCHANGED_Outside, RunEnded
<1>1. run'.job = run.job /\ run'.late = run.late /\ run'.stage = "ann" /\ run'.shards = run.shards \ {s}
  BY <1>0 DEF RunTypes
<1>2. \A p \in Files : owed'[p] # 0 => owed'[p] = owed[p] /\ ShardOf[p] # s
  BY <1>0 DEF PassesOver
<1>3. \A q \in Shards : q # s => ann'[q] = ann[q]
  BY <1>0 DEF BuildFails
<1>4. OwedIsLive' /\ RunEnded' /\ Building'
  BY <1>0, <1>1, <1>2 DEF OwedIsLive, RunEnded, Building
<1>5. ASSUME ~run'.late, NEW p \in Files, owed'[p] # 0
      PROVE  HasRow(p)' /\ (AnnDone(ShardOf[p])' => NamedIn(ShardOf[p], p)')
  <2>1. HasRow(p)
    BY <1>0, <1>1, <1>2, <1>5 DEF FoundInv, Looked, LookDone
  <2>2. HasRow(p)'
    BY <1>0, <1>2, <1>5, <2>1 DEF HasRow
  <2>3. ASSUME AnnDone(ShardOf[p])' PROVE NamedIn(ShardOf[p], p)'
    <3>1. ShardOf[p] \in Shards /\ ShardOf[p] # s /\ ShardOf[p] \notin run.shards
      BY <1>0, <1>1, <1>2, <1>5, <2>3, SemanticAssumption DEF AnnDone, AfterImages
    <3>2. NamedIn(ShardOf[p], p)
      BY <1>0, <1>1, <1>2, <1>5, <3>1 DEF FoundInv, Named, AnnDone
    <3> QED BY <1>0, <1>3, <3>1, <3>2 DEF NamedIn, RowsOf
  <2> QED BY <2>2, <2>3
<1>6. ~run'.late => Looked' /\ Named'
  BY <1>5 DEF Looked, Named
<1> QED BY <1>4, <1>6 DEF FoundInv

LEMMA FoundStep ==
  ASSUME VectorsInv, FoundInv, [SemanticNext]_vars_semantic
  PROVE  FoundInv'
<1>1. CASE UNCHANGED vars_semantic
  BY <1>1, FoundElsewhere
<1>2. CASE WorkerStep
  BY <1>2, FoundWorks, FoundLook, FoundLookImages, FoundBuilds, FoundNames, FoundBuildFails, FoundUpsert DEF WorkerStep
<1>3. CASE SemanticNext
  BY <1>2, <1>3, FoundRestarts, FoundRequest, FoundElsewhere DEF SemanticNext
<1> QED BY <1>1, <1>3

LEMMA FoundIsFound == VectorsInv /\ FoundInv => AskedIsFound
<1> SUFFICES ASSUME VectorsInv, FoundInv, run.job = "completed", ~run.late,
                    NEW p \in Files, owed[p] # 0
             PROVE  Searchable(p)
  BY DEF AskedIsFound
<1>1. HasRow(p) /\ NamedIn(ShardOf[p], p)
  BY DEF FoundInv, Looked, Named, LookDone, AnnDone, AfterImages
<1> QED BY <1>1 DEF HasRow, NamedIn, Searchable

------------------------------------------------------------------------------
\* The theorems. A step of the whole is one of a part, or none of it.

LEMMA BackgroundStep ==
  ASSUME [Next]_vars
  PROVE  /\ [LocalApiNext]_vars_local /\ [WifiNext]_vars_wifi /\ trouble' = trouble
         /\ [SemanticNext]_vars_semantic
BY DEF Next, vars, InSemantic, InWifi, InLocalApi

\* The bot speaks to the local server only while its service is active, and has answered
\* unless a job took it because it was active, running a binary that was checked or built
\* here, for any number of jobs and of overlapping requests that turn local mode off or save
\* other settings: telegram_routes.py:114-225 and 492-815, and the supervisor of the bot.
THEOREM LocalServerAnswers == Spec => []LocalIsServed
<1>1. Init => LocalInv
  BY LocalInitInv DEF Init
<1>2. LocalInv /\ [Next]_vars => LocalInv'
  BY BackgroundStep, LocalStep
<1>3. LocalInv => LocalIsServed
  BY DEF LocalInv, LocalTypeOK, ServedOrCrossed, Served, LocalIsServed
<1> QED BY <1>1, <1>2, <1>3, PTL DEF Spec

\* A file with the password of a network in it stays no longer than a request that has it
\* staged, unless writing it failed or the server died: wifi_manager.py:383-425 and 585-609.
THEOREM NoPasswordStays == Spec => []PasswordsUnstaged
<1>1. Init => WifiInv
  BY WifiInitInv DEF Init
<1>2. WifiInv /\ [Next]_vars => WifiInv'
  BY BackgroundStep, WifiStepInv
<1>3. WifiInv => PasswordsUnstaged
  BY DEF WifiInv
<1> QED BY <1>1, <1>2, <1>3, PTL DEF Spec

\* A search reads vectors that agree with their table, and no vector is taken for newer than
\* what it was made of: vector_store.py:409-528, semantic_indexer.py:354-377.
THEOREM VectorsStayTrue == Spec => []VectorsAgree
<1>1. Init => VectorsInv
  BY SemanticInitInv DEF Init
<1>2. VectorsInv /\ [Next]_vars => VectorsInv'
  BY BackgroundStep, VectorsStep
<1>3. VectorsInv => VectorsAgree
  BY VectorsTrue
<1> QED BY <1>1, <1>2, <1>3, PTL DEF Spec

\* When a run has completed, what was there at the last request and still is can be found by
\* its text: semantic_indexer.py:179-206 and 299-423, vector_store.py:592-623.
THEOREM AskedCanBeFound == Spec => []AskedIsFound
<1>1. Init => VectorsInv /\ FoundInv
  BY SemanticInitInv, FoundInitInv DEF Init
<1>2. VectorsInv /\ FoundInv /\ [Next]_vars => (VectorsInv /\ FoundInv)'
  BY BackgroundStep, VectorsStep, FoundStep
<1> QED BY <1>1, <1>2, FoundIsFound, PTL DEF Spec
=============================================================================
