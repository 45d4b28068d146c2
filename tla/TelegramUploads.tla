--------------------------- MODULE TelegramUploads ---------------------------
(***************************************************************************)
(* Files sent to the Telegram bot: telegram/upload_handlers.py and the     *)
(* storing half of telegram/bot_core.py.                                   *)
(*                                                                         *)
(* A chat sends a file, chooses where it goes, and the bot downloads it to *)
(* a place in that folder: in an inbox one that is free, in the            *)
(* entertainment folder one fixed by the file's name. Bytes the library    *)
(* has already stay at that place until the chat says /keep or /skip. The  *)
(* bot handles one message or press after another (telegram_bot.py:94),    *)
(* downloads included; the inbox watcher of file_sorter.py runs beside it. *)
(***************************************************************************)
EXTENDS Focus, Integers, FiniteSets

CONSTANTS
    Senders,        \* chats
    Sendable,       \* files that may be sent: [name, content]
    MaxCopies,      \* bound: files of one name in an inbox
    NoFile          \* no file; nothing pending

UploadFolders == {"inbox", "direct"}      \* personal and family folders; entertainment
FileNames == {u.name : u \in Sendable}
Contents == {u.content : u \in Sendable}
Slots == {[folder |-> "direct", name |-> n, copy |-> 1] : n \in FileNames}
         \cup {[folder |-> "inbox", name |-> n, copy |-> k] :
                  n \in FileNames, k \in 1..MaxCopies}

\* What a chat may be asked about: the hash of a file, and the place it waits at.
Questions == [hash : Contents, at : Slots, folder : UploadFolders, lost : BOOLEAN]

ASSUME TelegramUploadsAssumption ==
    /\ IsFiniteSet(Senders) /\ Senders # {}
    /\ MaxCopies \in Nat \ {0}
    /\ NoFile \notin Sendable /\ NoFile \notin Contents /\ NoFile \notin Questions

VARIABLES
    asked,      \* _pending_uploads: chat -> the file it has to choose a folder for
    answering,  \* _pending_duplicates: chat -> [hash, at, folder, lost], or NoFile
    temp,       \* slot -> the bytes there, or NoFile
    fetching,   \* the upload under way: [chat, folder, file, at], or NoFile
    recorded    \* media_index: [folder, hash, content]

vars_uploads == <<asked, answering, temp, fetching, recorded>>

UploadsInit ==
    /\ asked = [c \in Senders |-> NoFile]
    /\ answering = [c \in Senders |-> NoFile]
    /\ temp = [s \in Slots |-> NoFile]
    /\ fetching = NoFile
    /\ recorded = {}

------------------------------------------------------------------------------
\* Wrong versions of definitions below; the runs' mutants put them in place.

SameSlot(folder, name) == [folder |-> folder, name |-> name, copy |-> 1]

------------------------------------------------------------------------------

AskedAbout(c, s) == answering[c] # NoFile /\ answering[c].at = s

\* _unique_dest in an inbox; the fixed "<name>.uploading" of the entertainment folder.
SlotFor(folder, name) ==
    CHOOSE s \in Slots :
        /\ s.folder = folder /\ s.name = name
        /\ folder = "inbox" =>
              /\ temp[s] = NoFile
              /\ \A k \in 1..(s.copy - 1) : temp[[s EXCEPT !.copy = k]] # NoFile

\* Someone waits for an answer about a file that is no longer at its place.
Disturb(s) == [c \in Senders |-> IF AskedAbout(c, s) THEN [answering[c] EXCEPT !.lost = TRUE]
                                 ELSE answering[c]]

\* _handle_media_message: one file per chat, and those of others that have expired go.
SendFile(c, u, expired) ==
    /\ fetching = NoFile
    /\ asked' = [d \in Senders |-> IF d = c THEN u ELSE IF d \in expired THEN NoFile ELSE asked[d]]
    /\ UNCHANGED <<answering, temp, fetching, recorded>>

CancelUpload(c) ==
    /\ fetching = NoFile /\ asked[c] # NoFile
    /\ asked' = [asked EXCEPT ![c] = NoFile]
    /\ UNCHANGED <<answering, temp, fetching, recorded>>

\* A press on any keyboard of the chat is about the file it sent last. The folders share
\* nothing but the chat's one question: beside the watcher only inboxes matter.
Choose(c, folder) ==
    /\ trouble = "sorter" => folder = "inbox"
    /\ fetching = NoFile /\ asked[c] # NoFile
    /\ \E s \in Slots : s.folder = "inbox" /\ s.name = asked[c].name /\ temp[s] = NoFile
    /\ fetching' = [chat |-> c, folder |-> folder, file |-> asked[c], at |-> SlotFor(folder, asked[c].name)]
    /\ UNCHANGED <<asked, answering, temp, recorded>>

\* The rename takes the place of what is there. The file is hashed, looked up, and filed.
Entry(folder, hash, content) == [folder |-> folder, hash |-> hash, content |-> content]
Existing(folder, content) == {r \in recorded : r.folder = folder /\ r.hash = content}

Fetched ==
    /\ fetching # NoFile
    /\ LET c == fetching.chat  s == fetching.at  content == fetching.file.content
           others == IF s.folder = "direct" THEN Disturb(s) ELSE answering
           named == \E d \in Senders \ {c} : AskedAbout(d, s)
       IN  IF Existing(fetching.folder, content) # {}
           THEN /\ temp' = [temp EXCEPT ![s] = content]
                /\ answering' = [others EXCEPT ![c] = [hash |-> content, at |-> s,
                                                      folder |-> fetching.folder, lost |-> named]]
                /\ UNCHANGED <<asked, recorded>>
           ELSE /\ temp' = [temp EXCEPT ![s] = NoFile]
                /\ answering' = others
                /\ asked' = [asked EXCEPT ![c] = NoFile]
                /\ recorded' = recorded \cup {Entry(fetching.folder, content, content)}
    /\ fetching' = NoFile

\* A stall or a full disk: what is at the place is removed, whoever put it there.
LeftBehind == NoFile

FetchFails ==
    /\ fetching # NoFile
    /\ temp' = [temp EXCEPT ![fetching.at] = LeftBehind]
    /\ answering' = IF fetching.folder = "direct" THEN Disturb(fetching.at) ELSE answering
    /\ fetching' = NoFile
    /\ UNCHANGED <<asked, recorded>>

\* /keep files what is at the place now, under the hash of then.
Keep(c) ==
    /\ fetching = NoFile /\ answering[c] # NoFile
    /\ LET a == answering[c]
       IN  /\ recorded' = IF temp[a.at] = NoFile THEN recorded     \* "Save failed"
                          ELSE recorded \cup {Entry(a.folder, a.hash, temp[a.at])}
           /\ temp' = [temp EXCEPT ![a.at] = NoFile]
    /\ answering' = [answering EXCEPT ![c] = NoFile]
    /\ UNCHANGED <<asked, fetching>>

Skip(c) ==
    /\ fetching = NoFile /\ answering[c] # NoFile
    /\ temp' = [temp EXCEPT ![answering[c].at] = NoFile]
    /\ answering' = [answering EXCEPT ![c] = NoFile]
    /\ UNCHANGED <<asked, fetching, recorded>>

\* The inbox watcher files whatever has been in an inbox for a while, also a file that a
\* chat is being asked about; the reconciler then records it.
SortWaiting(s) ==
    /\ trouble = "sorter" /\ s.folder = "inbox" /\ temp[s] # NoFile
    /\ recorded' = recorded \cup {Entry("inbox", temp[s], temp[s])}
    /\ temp' = [temp EXCEPT ![s] = NoFile]
    /\ answering' = Disturb(s)
    /\ UNCHANGED <<asked, fetching>>

\* stop_bot and start_bot, when the settings change: what waits for /keep is not forgotten.
RestartBot ==
    /\ fetching = NoFile
    /\ asked' = [c \in Senders |-> NoFile]
    /\ UNCHANGED <<answering, temp, fetching, recorded>>

UploadsCrash ==
    /\ trouble = "crash"
    /\ asked' = [c \in Senders |-> NoFile] /\ answering' = [c \in Senders |-> NoFile]
    /\ fetching' = NoFile
    /\ UNCHANGED <<temp, recorded>>

UploadsNext ==
    \/ Fetched \/ FetchFails \/ RestartBot \/ UploadsCrash
    \/ \E c \in Senders :
          \/ CancelUpload(c) \/ Keep(c) \/ Skip(c)
          \/ \E folder \in UploadFolders : Choose(c, folder)
          \/ \E u \in Sendable, expired \in {{}, Senders \ {c}} : SendFile(c, u, expired)
    \/ \E s \in Slots : SortWaiting(s)

------------------------------------------------------------------------------
\* Properties.

\* A file the chat is asked about stays where it is until the chat answers, through the
\* uploads, answers and failed downloads of other chats, a restart of the bot, and files of
\* the same name; so that /keep files the bytes that were hashed (bot_core.py:498-638,
\* upload_handlers.py:271-438). Left out: the fixed places of the entertainment folder once
\* another chat sends a file of the same name, and an inbox file the watcher files meanwhile.
AskedIsThere ==
    \A c \in Senders :
        answering[c] # NoFile /\ ~answering[c].lost => temp[answering[c].at] = answering[c].hash
=============================================================================
