------------------------------ MODULE Household ------------------------------
(***************************************************************************)
(* The parts of the server that the family and its admins work with, in    *)
(* one model: profiles and sessions, the second drive, the text of         *)
(* documents, the review of duplicates, three parts of the Telegram bot,   *)
(* and where everybody got to in each film. They are tasks of one process  *)
(* and touch different files, so that a behaviour runs one of them under   *)
(* one kind of trouble.                                                    *)
(***************************************************************************)
EXTENDS Accounts, LocalBackup, Documents, Duplicates, TelegramChats, TelegramUploads, TelegramRecent,
        Positions

vars == <<part, trouble, vars_accounts, vars_backup, vars_documents, vars_duplicates, vars_chats,
          vars_uploads, vars_recent, vars_positions>>

\* A board that an earlier version set up makes a difference to the profiles only.
Init == /\ Chosen
        /\ AccountsInit /\ (part = "accounts" \/ users = NewBoard)
        /\ BackupInit /\ DocumentsInit /\ DuplicatesInit
        /\ ChatsInit /\ UploadsInit /\ RecentInit /\ PositionsInit

NextAccounts == /\ part = "accounts" /\ AccountsNext
                /\ UNCHANGED <<part, trouble, vars_backup, vars_documents, vars_duplicates,
                               vars_chats, vars_uploads, vars_recent, vars_positions>>
NextBackup == /\ part = "backup" /\ BackupNext
              /\ UNCHANGED <<part, trouble, vars_accounts, vars_documents, vars_duplicates,
                             vars_chats, vars_uploads, vars_recent, vars_positions>>
NextDocuments == /\ part = "documents" /\ DocumentsNext
                 /\ UNCHANGED <<part, trouble, vars_accounts, vars_backup, vars_duplicates,
                                vars_chats, vars_uploads, vars_recent, vars_positions>>
NextDuplicates == /\ part = "duplicates" /\ DuplicatesNext
                  /\ UNCHANGED <<part, trouble, vars_accounts, vars_backup, vars_documents,
                                 vars_chats, vars_uploads, vars_recent, vars_positions>>
NextChats == /\ part = "chats" /\ ChatsNext
             /\ UNCHANGED <<part, trouble, vars_accounts, vars_backup, vars_documents,
                            vars_duplicates, vars_uploads, vars_recent, vars_positions>>
NextUploads == /\ part = "uploads" /\ UploadsNext
               /\ UNCHANGED <<part, trouble, vars_accounts, vars_backup, vars_documents,
                              vars_duplicates, vars_chats, vars_recent, vars_positions>>
NextRecent == /\ part = "recent" /\ RecentNext
              /\ UNCHANGED <<part, trouble, vars_accounts, vars_backup, vars_documents,
                             vars_duplicates, vars_chats, vars_uploads, vars_positions>>
NextPositions == /\ part = "positions" /\ PositionsNext
                 /\ UNCHANGED <<part, trouble, vars_accounts, vars_backup, vars_documents,
                                vars_duplicates, vars_chats, vars_uploads, vars_recent>>

Next == \/ NextAccounts \/ NextBackup \/ NextDocuments \/ NextDuplicates
        \/ NextChats \/ NextUploads \/ NextRecent \/ NextPositions

Spec == Init /\ [][Next]_vars
=============================================================================
