----------------------------- MODULE OpenCodeSync -----------------------------
(***************************************************************************)
(* OpenCodeModelSync (nvidia_nim_proxy/opencode_sync.py): one call of sync *)
(* merges a list of models into OpenCode's configuration file, which its   *)
(* user may save, remove or create at any moment.                          *)
(*                                                                         *)
(* The content of the file is who saved it (edit), what merge_models makes *)
(* of it (config), and whether it can be read at all: a strict JSON object *)
(* in a file that is no link and not too large.                            *)
(***************************************************************************)
EXTENDS MergeModels

CONSTANTS
    Listing,      \* NVIDIA's lists of models, one after the other
    UserConfigs,  \* what the user may write into the file
    LastEdit      \* bound: the user saves the file this often

NoConfig == <<>>

NoFile == [edit |-> -1, config |-> NoConfig, readable |-> TRUE]

Readable(e, configs) == [edit : {e}, config : configs, readable : {TRUE}]

\* No strict JSON, or one that sync refuses for good after the merge: its result is
\* too large, or has a NaN.
Unreadable(e) == [edit |-> e, config |-> NoConfig, readable |-> FALSE]

NoListing == 0

ASSUME SyncAssumption ==
    /\ LastEdit \in Nat
    /\ \A n \in DOMAIN Listing : n \in Nat \ {NoListing} /\ Listing[n] \subseteq Models

VARIABLES
    file,      \* the configuration file
    backups,   \* contents of the backup files
    phase,     \* where sync is
    original,  \* the content it has read
    list,      \* its argument
    edits,     \* number of times the user has saved the file
    raced      \* history: the user saved it between the last look and the replacement

syncVars == <<file, backups, phase, original, list, edits, raced>>

SyncInit ==
    /\ file \in {NoFile, Unreadable(0)} \cup Readable(0, UserConfigs)
    /\ backups = {}
    /\ phase = "idle"
    /\ original = NoFile
    /\ list = NoListing
    /\ edits = 0
    /\ raced = FALSE

-----------------------------------------------------------------------------
\* sync

\* What sync writes; a file that it creates is nobody's edit.
Updated(content, n) ==
    [edit |-> IF content = NoFile THEN 0 ELSE content.edit,
     config |-> Merge(content.config, Listing[n]),
     readable |-> TRUE]

NothingToDo(content, n) ==
    \/ ~content.readable
    \/ Refuses(content.config, Listing[n])
    \/ ChangesNothing(content.config, Listing[n])

\* The file is read and merged; it may be refused, or need no change.
ReadConfig(n) ==
    /\ phase = "idle"
    /\ original' = file
    /\ list' = n
    /\ phase' = IF NothingToDo(file, n) THEN "done"
                ELSE IF file = NoFile THEN "link" ELSE "backup"
    /\ UNCHANGED <<file, backups, edits, raced>>

\* An OSError in the first read.
ReadFails ==
    /\ phase = "idle"
    /\ phase' = "done"
    /\ UNCHANGED <<file, backups, original, list, edits, raced>>

\* os.link publishes a new file and fails when there is one by now.
LinkConfig ==
    /\ phase = "link"
    /\ file' = IF file = NoFile THEN Updated(original, list) ELSE file
    /\ phase' = "done"
    /\ UNCHANGED <<backups, original, list, edits, raced>>

WriteBackup ==
    /\ phase = "backup"
    /\ backups' = backups \cup {original}
    /\ phase' = "look"
    /\ UNCHANGED <<file, original, list, edits, raced>>

\* Seeded fault: the file is not read again.
DoNotLook ==
    /\ phase = "look"
    /\ phase' = "replace"
    /\ UNCHANGED <<file, backups, original, list, edits, raced>>

\* The file is read again: has it changed?
LookAgain ==
    /\ phase = "look"
    /\ phase' = IF file = original THEN "replace" ELSE "done"
    /\ UNCHANGED <<file, backups, original, list, edits, raced>>

ReplaceConfig ==
    /\ phase = "replace"
    /\ file' = Updated(original, list)
    /\ phase' = "done"
    /\ raced' = FALSE
    /\ UNCHANGED <<backups, original, list, edits>>

\* An OSError in a later step.
SyncFails ==
    /\ phase \in {"link", "backup", "look", "replace"}
    /\ phase' = "done"
    /\ raced' = FALSE
    /\ UNCHANGED <<file, backups, original, list, edits>>

SyncStep ==
    LinkConfig \/ WriteBackup \/ LookAgain \/ ReplaceConfig \/ SyncFails

\* The call is over, or the process that made it; its locals end with it.
ForgetCall ==
    /\ phase' = "idle"
    /\ original' = NoFile
    /\ list' = NoListing
    /\ raced' = FALSE
    /\ UNCHANGED <<file, backups, edits>>

-----------------------------------------------------------------------------
\* The user

\* The user's program writes the file anew or with the models that are in it
\* now; the result may be one that sync cannot read.
SaveFile ==
    /\ edits < LastEdit
    /\ edits' = edits + 1
    /\ file' \in Readable(edits', UserConfigs \cup {file.config})
                  \cup {Unreadable(edits')}

RemoveFile ==
    /\ edits < LastEdit
    /\ file # NoFile
    /\ edits' = edits + 1
    /\ file' = NoFile

Edit ==
    /\ SaveFile \/ RemoveFile
    /\ raced' = (phase = "replace")
    /\ UNCHANGED <<backups, phase, original, list>>

-----------------------------------------------------------------------------
\* Properties

\* Every variable of the sync has its type.
SyncTypeOK ==
    /\ {file.edit, original.edit} \subseteq -1 .. LastEdit
    /\ phase \in {"idle", "link", "backup", "look", "replace", "done"}
    /\ list \in DOMAIN Listing \cup {NoListing}
    /\ edits \in 0 .. LastEdit
    /\ raced \in BOOLEAN

\* The file changes, and not by its user.
SyncWrites == file' # file /\ edits' = edits

\* What sync overwrites is in a backup, and is what the user saved last, but
\* for an edit that lands between its last look and os.replace: not one made
\* after the first look, not a file created meanwhile, and not when the
\* process has ended in the middle of an earlier call.
EditsKept ==
    [][SyncWrites /\ file # NoFile => file \in backups \/ raced]_syncVars

\* When sync has written the file, the same list changes nothing any more: it
\* does not write the file, and one more backup, at every refresh.
SyncSettles == [][SyncWrites => ChangesNothing(file'.config, Listing[list])]_syncVars

\* Sync leaves the user's own providers, models, limits and settings alone.
UserEntriesKept ==
    [][SyncWrites => KeepsTheUsers(original.config, file'.config, Listing[list])]_syncVars
=============================================================================
