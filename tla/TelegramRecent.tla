--------------------------- MODULE TelegramRecent ---------------------------
(***************************************************************************)
(* The bot's list of files sent last, and the buttons that delete them:    *)
(* _record_recent_file of telegram/bot_core.py, /recent and its buttons in *)
(* telegram/upload_handlers.py.                                            *)
(*                                                                         *)
(* One list serves all chats. A button carries the place of a file among   *)
(* those of its chat, counted from the oldest; a press looks up who is at  *)
(* that place by then, and removes his file for good. A button may be      *)
(* pressed twice before its message is replaced.                           *)
(***************************************************************************)
EXTENDS Focus, Integers, FiniteSets

CONSTANTS
    RecentChats,
    RecentPaths,    \* where files of the bot and of others end up
    MaxRecent,      \* 5 in the code
    MaxSent,        \* bound: files sent
    MaxShown,       \* bound: how often a list is shown
    House, Vacant   \* whoever stores files without the bot; no file

RecentEntries == [chat : RecentChats, path : RecentPaths, nr : Nat]
Buttons == [place : Nat, entry : RecentEntries, firm : BOOLEAN]

ASSUME RecentAssumption ==
    /\ MaxRecent \in Nat \ {0} /\ MaxSent \in Nat /\ MaxShown \in Nat
    /\ House \notin RecentChats /\ Vacant \notin RecentChats \cup {House}

VARIABLES
    recent,     \* telegram_recent_files; nr tells their order
    onDisk,     \* path -> who stored what is there, or Vacant
    buttons,    \* buttons shown so far: "firm" until a file of the chat leaves the list
    removals,   \* what presses have removed
    sent, shown,
    takenOver   \* paths in the list at which somebody else has stored a file since

vars_recent == <<recent, onDisk, buttons, removals, sent, shown, takenOver>>

RecentInit ==
    /\ recent = {} /\ onDisk = [p \in RecentPaths |-> Vacant]
    /\ buttons = {} /\ removals = {} /\ sent = 0 /\ shown = 0 /\ takenOver = {}

\* Its place among the files of its chat, the oldest first.
Older(e, S) == {d \in S : d.chat = e.chat /\ d.nr < e.nr}
Place(e) == Cardinality(Older(e, recent))

------------------------------------------------------------------------------
\* Wrong versions of definitions below; the runs' mutants put them in place.

AmongAll(b) == {e \in recent : Cardinality({d \in recent : d.nr < e.nr}) = b.place}

------------------------------------------------------------------------------

Loosen(left) == {IF \E e \in left : e.chat = b.entry.chat THEN [b EXCEPT !.firm = FALSE] ELSE b :
                    b \in buttons}
Oldest(S) == {e \in S : \A d \in S : e.nr <= d.nr}
Overlong(S) == IF Cardinality(S) > MaxRecent THEN Oldest(S) ELSE {}
Strangers(p, by) == IF \E e \in recent : e.path = p /\ e.chat # by THEN {p} ELSE {}

\* A file is stored under a name that is free, and put at the head of the list, which is cut.
SendRecent(c, p) ==
    /\ sent < MaxSent /\ onDisk[p] = Vacant
    /\ sent' = sent + 1
    /\ onDisk' = [onDisk EXCEPT ![p] = c]
    /\ LET more == recent \cup {[chat |-> c, path |-> p, nr |-> sent']}
       IN  /\ recent' = more \ Overlong(more)
           /\ buttons' = Loosen(Overlong(more))
    /\ takenOver' = takenOver \cup Strangers(p, c)
    /\ UNCHANGED <<removals, shown>>

\* Files are stored, moved and deleted without the bot as well.
StoreElsehow(p) ==
    /\ trouble = "house" /\ onDisk[p] = Vacant
    /\ onDisk' = [onDisk EXCEPT ![p] = House]
    /\ takenOver' = takenOver \cup Strangers(p, House)
    /\ UNCHANGED <<recent, buttons, removals, sent, shown>>

TakeElsehow(p) ==
    /\ trouble = "house" /\ onDisk[p] # Vacant
    /\ onDisk' = [onDisk EXCEPT ![p] = Vacant]
    /\ UNCHANGED <<recent, buttons, removals, sent, shown, takenOver>>

\* /recent. Older lists stay where they are in the chat, with their buttons.
ShowRecent(c) ==
    /\ shown < MaxShown
    /\ \E e \in recent : e.chat = c
    /\ shown' = shown + 1
    /\ buttons' = buttons \cup {[place |-> Place(e), entry |-> e, firm |-> TRUE] :
                                  e \in {d \in recent : d.chat = c}}
    /\ UNCHANGED <<recent, onDisk, removals, sent, takenOver>>

\* Who is at the place that a button names, by now.
Found(b) == {e \in recent : e.chat = b.entry.chat /\ Place(e) = b.place}

\* The file goes, if there is one, then all entries of its path; the process may die in between.
PressDelete(b) ==
    \E e \in Found(b) :
        /\ onDisk' = [onDisk EXCEPT ![e.path] = Vacant]
        /\ removals' = IF onDisk[e.path] = Vacant THEN removals
                       ELSE removals \cup {[button |-> b, path |-> e.path, sender |-> onDisk[e.path]]}
        /\ LET left == {d \in recent : d.path = e.path}
           IN \/ recent' = recent \ left /\ buttons' = Loosen(left)
              \/ trouble = "crash" /\ UNCHANGED <<recent, buttons>>
        /\ UNCHANGED <<sent, shown, takenOver>>

RecentNext ==
    \/ \E c \in RecentChats : ShowRecent(c) \/ \E p \in RecentPaths : SendRecent(c, p)
    \/ \E p \in RecentPaths : StoreElsehow(p) \/ TakeElsehow(p)
    \/ \E b \in buttons : PressDelete(b)

------------------------------------------------------------------------------
\* Properties.

\* A button deletes the file whose name it bears, however many files were sent meanwhile: places
\* count from the oldest, so that a new file moves none. Left out: a press after another file of
\* the chat has left the list, by a press (the second tap on one button, for instance) or because
\* the list was full, which deletes the next file instead. And it deletes a file that its own
\* chat has sent, unless the path went to somebody else meanwhile (upload_handlers.py:443-497).
RecentDeletes ==
    \A x \in removals :
        /\ x.button.firm => x.path = x.button.entry.path
        /\ x.path \notin takenOver => x.sender = x.button.entry.chat
=============================================================================
