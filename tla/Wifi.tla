-------------------------------- MODULE Wifi --------------------------------
(***************************************************************************)
(* The Wi-Fi radio, the networks the box joins and its hotspot:            *)
(* wifi_manager.py and the routes of network_routes.py.                    *)
(*                                                                         *)
(* NetworkManager holds the truth and is asked through commands that take  *)
(* their time and may fail. What the user wants is kept in memory and in   *)
(* kv.json; a monitor puts the radio back when it disagrees. A profile is  *)
(* staged in a file, with the password in it, for a helper that runs as    *)
(* root and installs it.                                                   *)
(***************************************************************************)
EXTENDS Focus, Integers

CONSTANTS
    Networks,       \* SSIDs
    SafeName,       \* SSID -> the name of its profile
    WifiRequests,
    MaxWifiCalls,   \* bound: requests begun
    MaxUpsets,      \* bound: commands that fail and outside changes of the radio
    NoNetwork

Hotspot == "hotspot"
SafeNames == {SafeName[s] : s \in Networks}
StagingFiles == {"connect", "hotspot"} \X SafeNames     \* the directory, the name

ASSUME WifiAssumption ==
    /\ NoNetwork \notin Networks \cup {Hotspot} /\ Hotspot \notin Networks
    /\ MaxWifiCalls \in Nat /\ MaxUpsets \in Nat

VARIABLES
    radio,      \* nmcli radio wifi
    wanted,     \* _user_wifi_override
    savedWanted, \* wifi_user_override
    device,     \* what the Wi-Fi device is connected to
    profiles,   \* profile name -> SSID, as installed
    staged,     \* file of a staging directory -> the SSID whose password is in it
    call,       \* request -> [kind, ssid, stage]
    monitor,    \* [stage, saw, do]
    wifiCalls, upsets,
    \* History.
    leftover    \* staged files of writes that failed, and of before the last start

vars_wifi == <<radio, wanted, savedWanted, device, profiles, staged, call, monitor, wifiCalls, upsets, leftover>>

NoCall == [kind |-> "none", ssid |-> NoNetwork, stage |-> "done"]
Asleep == [stage |-> "asleep", saw |-> FALSE, do |-> FALSE]

\* A box nobody has set up: Wi-Fi is on and no network is known.
WifiInit ==
    /\ radio = TRUE /\ wanted = TRUE /\ savedWanted = TRUE
    /\ device = NoNetwork
    /\ profiles = [n \in SafeNames |-> NoNetwork]
    /\ staged = [f \in StagingFiles |-> NoNetwork]
    /\ call = [r \in WifiRequests |-> NoCall]
    /\ monitor = Asleep
    /\ wifiCalls = 0 /\ upsets = 0
    /\ leftover = {}

------------------------------------------------------------------------------
\* Wrong versions of definitions below; the runs' mutants put them in place.

TurnsOnOnly(saw) == IF wanted /\ ~saw THEN {TRUE} ELSE {}
LeaveStaged(f) == staged

------------------------------------------------------------------------------

\* A command: it works, or fails and changes nothing.
Works == UNCHANGED upsets
Fails == trouble = "nmcli" /\ upsets < MaxUpsets /\ upsets' = upsets + 1

TurnRadio(on) == /\ radio' = on
                 /\ device' = IF on THEN device ELSE NoNetwork
TryRadio(on) == \/ Works /\ TurnRadio(on)
                \/ Fails /\ UNCHANGED <<radio, device>>

Want(on) == wanted' = on /\ savedWanted' = on
\* A wish that cannot be saved stays in memory, and its request goes no further.
Wish(on) == wanted' = on /\ UNCHANGED savedWanted
DiskFails == trouble = "disk" /\ upsets < MaxUpsets /\ upsets' = upsets + 1

Begin(r, kind, s, stage) ==
    /\ call[r].stage = "done" /\ wifiCalls < MaxWifiCalls
    /\ wifiCalls' = wifiCalls + 1
    /\ call' = [call EXCEPT ![r] = [kind |-> kind, ssid |-> s, stage |-> stage]]
At(r, kind, stage) == call[r].kind = kind /\ call[r].stage = stage
Goto(r, stage) == call' = [call EXCEPT ![r].stage = stage]
Finish(r) == call' = [call EXCEPT ![r] = NoCall]

\* set_user_wifi_override: the wish first, then the radio.
Toggle(r, on) ==
    /\ Begin(r, IF on THEN "on" ELSE "off", NoNetwork, "radio")
    /\ Want(on)
    /\ UNCHANGED <<radio, device, profiles, staged, monitor, upsets, leftover>>

ToggleUnsaved(on) ==
    /\ DiskFails /\ wifiCalls < MaxWifiCalls /\ wifiCalls' = wifiCalls + 1
    /\ Wish(on)
    /\ UNCHANGED <<radio, device, profiles, staged, call, monitor, leftover>>

ToggleRadio(r) ==
    /\ call[r].kind \in {"on", "off"} /\ call[r].stage = "radio"
    /\ TryRadio(call[r].kind = "on")
    /\ Finish(r)
    /\ UNCHANGED <<wanted, savedWanted, profiles, staged, monitor, wifiCalls, leftover>>

\* A profile is written to its file, over what is there. When that fails, or the change of its
\* mode does, what has been written stays; when it is the directory, there is nothing.
FileFor(kind, s) == <<kind, SafeName[s]>>
FileOf(r) == FileFor(call[r].kind, call[r].ssid)
Stage(f, s) == staged' = [staged EXCEPT ![f] = s] /\ leftover' = leftover \ {f}
StageFails(f, s) ==
    /\ DiskFails
    /\ \/ UNCHANGED <<staged, leftover>>
       \/ staged' = [staged EXCEPT ![f] = s] /\ leftover' = leftover \cup {f}

\* The helper takes the staged file away; when it fails the file is removed here.
Unstage(f) == [staged EXCEPT ![f] = NoNetwork]
Take(f) == staged' = Unstage(f) /\ leftover' = leftover \ {f}

\* connect_to_network: stage the profile, have it installed, want Wi-Fi, radio on, connect.
Connect(r, s) ==
    /\ Begin(r, "connect", s, "install")
    /\ Stage(FileFor("connect", s), s)
    /\ UNCHANGED <<radio, wanted, savedWanted, device, profiles, monitor, upsets>>

ConnectUnstaged(s) ==
    /\ wifiCalls < MaxWifiCalls /\ wifiCalls' = wifiCalls + 1
    /\ StageFails(FileFor("connect", s), s)
    /\ UNCHANGED <<radio, wanted, savedWanted, device, profiles, call, monitor>>

\* The helper installs the profile and has it loaded; it may fail at either, or find that the
\* helper of a name like this one has taken the file.
InstallProfile(r) ==
    /\ At(r, "connect", "install")
    /\ Take(FileOf(r))
    /\ LET found == staged[FileOf(r)]
           installed == [profiles EXCEPT ![SafeName[call[r].ssid]] = found]
       IN  \/ /\ found # NoNetwork /\ profiles' = installed
              /\ \/ Works /\ Want(TRUE) /\ Goto(r, "radio")
                 \/ DiskFails /\ Wish(TRUE) /\ Finish(r)
           \/ /\ IF found = NoNetwork THEN Works /\ UNCHANGED profiles
                 ELSE Fails /\ profiles' \in {profiles, installed}
              /\ Finish(r)
              /\ UNCHANGED <<wanted, savedWanted>>
    /\ UNCHANGED <<radio, device, monitor, wifiCalls>>

RadioForCall(r) ==
    /\ call[r].kind \in {"connect", "hotspot"} /\ call[r].stage = "radio"
    /\ TryRadio(TRUE)
    /\ Goto(r, "up")
    /\ UNCHANGED <<wanted, savedWanted, profiles, staged, monitor, wifiCalls, leftover>>

BringUp(r) ==
    /\ At(r, "connect", "up")
    /\ \/ Works /\ device' = IF radio THEN profiles[SafeName[call[r].ssid]] ELSE device
       \/ Fails /\ UNCHANGED device
    /\ Finish(r)
    /\ UNCHANGED <<radio, wanted, savedWanted, profiles, staged, monitor, wifiCalls, leftover>>

Forget(s) ==
    /\ profiles[SafeName[s]] # NoNetwork
    /\ profiles' = [profiles EXCEPT ![SafeName[s]] = NoNetwork]
    /\ device' = IF device = profiles[SafeName[s]] THEN NoNetwork ELSE device
    /\ UNCHANGED <<radio, wanted, savedWanted, staged, call, monitor, wifiCalls, upsets, leftover>>

\* enable_hotspot: want Wi-Fi and turn it on first, or the monitor would take it down; wait
\* for the device, stage, and have the helper start it.
StartHotspot(r, s) ==
    /\ Begin(r, "hotspot", s, "radio")
    /\ Want(TRUE)
    /\ UNCHANGED <<radio, device, profiles, staged, monitor, upsets, leftover>>

StageHotspot(r) ==
    /\ At(r, "hotspot", "up")
    /\ \/ radio /\ Stage(FileOf(r), call[r].ssid) /\ Goto(r, "start") /\ UNCHANGED upsets
       \/ radio /\ StageFails(FileOf(r), call[r].ssid) /\ Finish(r)
       \/ ~radio /\ Finish(r) /\ UNCHANGED <<staged, leftover, upsets>>      \* not ready in time
    /\ UNCHANGED <<radio, wanted, savedWanted, device, profiles, monitor, wifiCalls>>

HotspotUp(r) ==
    /\ At(r, "hotspot", "start")
    /\ Take(FileOf(r))
    /\ \/ Works /\ device' = IF radio /\ staged[FileOf(r)] # NoNetwork THEN Hotspot ELSE device
       \/ Fails /\ UNCHANGED device
    /\ Finish(r)
    /\ UNCHANGED <<radio, wanted, savedWanted, profiles, monitor, wifiCalls>>

StopHotspot ==
    /\ device = Hotspot
    /\ device' = NoNetwork
    /\ UNCHANGED <<radio, wanted, savedWanted, profiles, staged, call, monitor, wifiCalls, upsets, leftover>>

------------------------------------------------------------------------------
\* The monitor: the radio is asked for, then compared with what is wanted by then, then set.

Correction(saw) == IF wanted # saw THEN {wanted} ELSE {}

MonitorReads ==
    /\ monitor.stage = "asleep"
    /\ \/ Works /\ monitor' = [monitor EXCEPT !.stage = "compare", !.saw = radio]
       \/ Fails /\ UNCHANGED monitor
    /\ UNCHANGED <<radio, wanted, savedWanted, device, profiles, staged, call, wifiCalls, leftover>>

MonitorCompares ==
    /\ monitor.stage = "compare"
    /\ monitor' = IF Correction(monitor.saw) = {} THEN Asleep
                  ELSE [Asleep EXCEPT !.stage = "set", !.do = CHOOSE on \in Correction(monitor.saw) : TRUE]
    /\ UNCHANGED <<radio, wanted, savedWanted, device, profiles, staged, call, wifiCalls, upsets, leftover>>

MonitorSets ==
    /\ monitor.stage = "set"
    /\ TryRadio(monitor.do)
    /\ monitor' = Asleep
    /\ UNCHANGED <<wanted, savedWanted, profiles, staged, call, wifiCalls, leftover>>

\* A driver, rfkill, a person at the box.
RadioKnocked ==
    /\ trouble = "nmcli" /\ upsets < MaxUpsets /\ upsets' = upsets + 1
    /\ TurnRadio(~radio)
    /\ UNCHANGED <<wanted, savedWanted, profiles, staged, call, monitor, wifiCalls, leftover>>

\* ensure_wifi_on_startup
WifiReboot ==
    /\ trouble = "disk" /\ upsets < MaxUpsets /\ upsets' = upsets + 1
    /\ wanted' = savedWanted
    /\ TurnRadio(savedWanted)
    /\ call' = [r \in WifiRequests |-> NoCall]
    /\ monitor' = Asleep
    /\ leftover' = {f \in StagingFiles : staged[f] # NoNetwork}
    /\ UNCHANGED <<savedWanted, profiles, staged, wifiCalls>>

WifiStep == \/ MonitorReads \/ MonitorCompares \/ MonitorSets
            \/ \E r \in WifiRequests : \/ ToggleRadio(r) \/ InstallProfile(r) \/ RadioForCall(r)
                                       \/ BringUp(r) \/ StageHotspot(r) \/ HotspotUp(r)
WifiNext ==
    \/ WifiStep \/ StopHotspot \/ RadioKnocked \/ WifiReboot
    \/ \E s \in Networks : Forget(s) \/ ConnectUnstaged(s)
    \/ \E on \in BOOLEAN : ToggleUnsaved(on)
    \/ \E r \in WifiRequests :
          \/ \E on \in BOOLEAN : Toggle(r, on)
          \/ \E s \in Networks : Connect(r, s) \/ StartHotspot(r, s)

------------------------------------------------------------------------------
\* Properties.

\* The radio ends up as the user last wanted it, whichever of two requests and the monitor's
\* own command reaches NetworkManager last, and after failed commands and outside changes
\* (wifi_manager.py:113-169): the monitor's next look puts it right.
WifiSettles == <>[](part = "wifi" => radio = wanted)

\* A file with a network's password in it stays no longer than a request that has it staged,
\* however two requests write, take and remove the file of one name (wifi_manager.py:383-425,
\* 585-609). Left out: the file of a write that failed half way, which is not removed (386-389,
\* 588-591), and of a server that died, until the next request of that name takes it away.
HasStaged(r) == (At(r, "connect", "install") \/ At(r, "hotspot", "start"))
PasswordsUnstaged ==
    \A f \in StagingFiles :
        staged[f] # NoNetwork => f \in leftover \/ \E r \in WifiRequests : HasStaged(r) /\ FileOf(r) = f
=============================================================================
