------------------------------ MODULE Positions ------------------------------
(***************************************************************************)
(* Where each member got to in each film: the table playback_positions of  *)
(* media_index.py and the routes of media_routes.py that write and list it.*)
(*                                                                         *)
(* The devices of a member report positions, some after days without a     *)
(* network and some twice, so that the time of the device decides which    *)
(* report is the newest. A report is decided in a thread, which reads the  *)
(* row and then replaces it; no transaction spans the two. A row belongs   *)
(* to a name, not to a member.                                             *)
(***************************************************************************)
EXTENDS Focus, Integers, FiniteSets

CONSTANTS
    Viewers,        \* members, of now and later
    ViewerNames,
    FirstViewer,    \* the member of the start, and its name: [who, name]
    Titles,         \* entries of the index
    Reports,        \* bound: what devices report, a repetition included, numbered as it comes
    MovingReports,  \* bound: those of them while members come and go
    MaxClientTime,  \* bound: the clocks of the devices
    Unnamed,        \* the name of somebody who is not in the house
    NoReport        \* not sent yet

\* A position under 30 s, one on the way, and one past 95 % of a known length.
Spots == {"opening", "half", "credits"}
ResumeAt(at) == IF at = "half" THEN at ELSE "nowhere"

\* No row is as good as a row of the time 0, as reports have later times.
NeverPlayed == [at |-> "nowhere", version |-> 0, ts |-> 0]
PositionRows == [at : {"nowhere", "half"}, version : Nat, ts : Nat]
Sayings == [who : Viewers, name : ViewerNames, title : Titles, at : Spots, ts : 1..MaxClientTime]

ASSUME PositionsAssumption ==
    /\ Reports \subseteq Nat /\ MaxClientTime \in Nat
    /\ FirstViewer \in [who : Viewers, name : ViewerNames]
    /\ Unnamed \notin ViewerNames /\ NoReport \notin Sayings

VARIABLES
    viewerName,   \* member -> name, or Unnamed
    live,         \* the titles that are not deleted
    position,     \* name -> title -> row
    report,       \* report -> what it says, or NoReport
    stage,        \* report -> "unsent", "asked", "read", "decided", "lost"
    readVersion,  \* report -> the version of the row it has read
    overlapped,   \* <<name, title>> for which two reports were decided at once
    handed        \* names that somebody has given up

vars_positions == <<viewerName, live, position, report, stage, readVersion, overlapped, handed>>

PositionsInit ==
    /\ viewerName = [m \in Viewers |-> IF m = FirstViewer.who THEN FirstViewer.name ELSE Unnamed]
    /\ live = Titles
    /\ position = [n \in ViewerNames |-> [i \in Titles |-> NeverPlayed]]
    /\ report = [r \in Reports |-> NoReport]
    /\ stage = [r \in Reports |-> "unsent"]
    /\ readVersion = [r \in Reports |-> 0]
    /\ overlapped = {} /\ handed = {}

RowOf(r) == position[report[r].name][report[r].title]
Key(r) == <<report[r].name, report[r].title>>
InStage(s) == {r \in Reports : stage[r] = s}
Decided(n, i) == {r \in InStage("decided") : Key(r) = <<n, i>>}

------------------------------------------------------------------------------
\* Wrong versions of definitions below; the runs' mutants put them in place.

ClearedRow(r) == IF ResumeAt(report[r].at) = "nowhere" THEN NeverPlayed
                 ELSE [at |-> "half", version |-> readVersion[r] + 1, ts |-> report[r].ts]
AnyIsNewer(r) == TRUE

------------------------------------------------------------------------------
\* PUT /media/{id}/position: the caller's name, then the entry. The phone's clock is not
\* the board's, and nothing orders what two devices say. A retry is a report that says the same.
ReportPosition(r, m, i, at, ts) ==
    /\ trouble = "family" => r \in MovingReports
    /\ stage[r] = "unsent" /\ \A q \in Reports : q < r => stage[q] # "unsent"
    /\ viewerName[m] # Unnamed /\ i \in live
    /\ report' = [report EXCEPT ![r] = [who |-> m, name |-> viewerName[m], title |-> i,
                                        at |-> at, ts |-> ts]]
    /\ stage' = [stage EXCEPT ![r] = "asked"]
    /\ UNCHANGED <<viewerName, live, position, readVersion, overlapped, handed>>

\* Equal is not newer: the same report again changes nothing.
IsNewer(r) == report[r].ts > RowOf(r).ts

\* The SELECT of _set_position_sync. A report that is not newer has its answer.
LookAtRow(r) ==
    /\ stage[r] = "asked"
    /\ IF IsNewer(r)
       THEN /\ stage' = [stage EXCEPT ![r] = "read"]
            /\ readVersion' = [readVersion EXCEPT ![r] = RowOf(r).version]
            /\ overlapped' = overlapped \cup
                  IF \E q \in InStage("read") : Key(q) = Key(r) THEN {Key(r)} ELSE {}
       ELSE /\ stage' = [stage EXCEPT ![r] = "decided"]
            /\ UNCHANGED <<readVersion, overlapped>>
    /\ UNCHANGED <<viewerName, live, position, report, handed>>

\* What is finished or hardly begun leaves a row without a position: its time goes on
\* turning older reports away.
NewRow(r) == [at |-> ResumeAt(report[r].at), version |-> readVersion[r] + 1, ts |-> report[r].ts]

\* The INSERT and its commit, whatever the row is by now.
ReplaceRow(r) ==
    /\ stage[r] = "read"
    /\ position' = [position EXCEPT ![report[r].name][report[r].title] = NewRow(r)]
    /\ stage' = [stage EXCEPT ![r] = "decided"]
    /\ UNCHANGED <<viewerName, live, report, readVersion, overlapped, handed>>

\* media.db is locked for too long, or the process dies: nothing was written.
LoseReport(r) ==
    /\ trouble = "lost" /\ stage[r] \in {"asked", "read"}
    /\ stage' = [stage EXCEPT ![r] = "lost"]
    /\ UNCHANGED <<viewerName, live, position, report, readVersion, overlapped, handed>>

\* The index marks entries deleted, and records them again at the same path.
HideTitle(i) ==
    /\ trouble = "library"
    /\ live' = IF i \in live THEN live \ {i} ELSE live \cup {i}
    /\ UNCHANGED <<viewerName, position, report, stage, readVersion, overlapped, handed>>

\* Members come, go and change their names; nobody tells the table.
NameFree(n) == \A m \in Viewers : viewerName[m] # n
GiveUp(m) == handed' = handed \cup ({viewerName[m]} \ {Unnamed})

RenameViewer(m, n) ==
    /\ trouble = "family" /\ NameFree(n)
    /\ viewerName' = [viewerName EXCEPT ![m] = n]
    /\ GiveUp(m)
    /\ UNCHANGED <<live, position, report, stage, readVersion, overlapped>>

LeaveHouse(m) ==
    /\ trouble = "family" /\ viewerName[m] # Unnamed
    /\ viewerName' = [viewerName EXCEPT ![m] = Unnamed]
    /\ GiveUp(m)
    /\ UNCHANGED <<live, position, report, stage, readVersion, overlapped>>

PositionsNext ==
    \/ \E r \in Reports : \/ LookAtRow(r) \/ ReplaceRow(r) \/ LoseReport(r)
                          \/ \E m \in Viewers, i \in Titles, at \in Spots, ts \in 1..MaxClientTime :
                                ReportPosition(r, m, i, at, ts)
    \/ \E i \in Titles : HideTitle(i)
    \/ \E m \in Viewers : LeaveHouse(m) \/ \E n \in ViewerNames : RenameViewer(m, n)

------------------------------------------------------------------------------
\* Properties.

\* GET /media/positions: what a member is offered to resume.
Offered(m) == {i \in live : position[viewerName[m]][i].at # "nowhere"}

\* The row is what the newest of the decided reports says, whatever order they came in.
NewestStands(n, i) ==
    \/ Decided(n, i) = {} /\ position[n][i] = NeverPlayed
    \/ \E r \in Decided(n, i) :
          /\ position[n][i].ts = report[r].ts /\ position[n][i].at = ResumeAt(report[r].at)
          /\ \A q \in Decided(n, i) : report[q].ts <= report[r].ts

\* "A stale device cannot clobber a newer one no matter how the client behaves", and a
\* finished film does not come back (media_index.py:937-954); and nobody is offered what another
\* member watched (media_routes.py:281-287). Left out: two reports for one film that are
\* decided at once, of which the older may be written last, and names that changed hands, which
\* take the rows of their last owner with them.
PositionsHold ==
    /\ \A n \in ViewerNames, i \in Titles : <<n, i>> \notin overlapped => NewestStands(n, i)
    /\ \A m \in Viewers : viewerName[m] \notin handed \cup {Unnamed} =>
          \A i \in Offered(m) : \E r \in Decided(viewerName[m], i) :
              report[r].who = m /\ report[r].at = position[viewerName[m]][i].at
=============================================================================
