--------------------------------- MODULE Auth ---------------------------------
(***************************************************************************)
(* Authenticator (internal/api/auth.go): the table of tokens, the goroutine *)
(* watchFile that reloads it when the auth file changes, and ValidateRole. *)
(*                                                                         *)
(* The file system is external: somebody saves the auth file, by renaming  *)
(* a new one into place or by truncating and writing it again, and         *)
(* fsnotify queues an event for every change of what it watches.           *)
(*                                                                         *)
(* A definition named after another with a suffix is a wrong variant of    *)
(* it, which Next does not use.                                            *)
(***************************************************************************)
EXTENDS Naturals, FiniteSets

CONSTANTS
    Tokens,
    Versions,        \* contents of the auth file: the role of each token
    NoRole,          \* the role of a token that is not in the table
    Unreadable,      \* a file that is missing or does not parse
    MaxSaves         \* bound: times the file is saved

Roles == {"admin", "producer", "consumer", "monitoring"}

\* A truncated file parses as a document without tokens.
EmptyTable == [t \in Tokens |-> NoRole]

ASSUME AuthAssumption ==
    /\ NoRole \notin Roles
    /\ Versions \subseteq [Tokens -> Roles \union {NoRole}]
    /\ Unreadable \notin [Tokens -> Roles \union {NoRole}]
    /\ MaxSaves \in Nat

VARIABLES
    file,            \* external: what a read of the auth file gives
    saving,          \* external: the file is truncated, its contents not yet written
    saves,           \* external: times the file was saved
    missed,          \* external: the last change was not seen by any watch
    events,          \* fsnotify events not yet read
    watch,           \* external: "file", or "dir" for both, while changes are seen
    watcher,         \* what watchFile is doing
    loaded,          \* newTokens, until loadTokens has installed it
    tokens           \* Authenticator.tokens

fileVars == <<file, saving, saves, missed, events, watch>>
watchVars == <<watcher, loaded, tokens>>
authVars == <<fileVars, watchVars>>

\* NewAuthenticator has loaded the file; otherwise RunProxy fails.
AuthInit ==
    /\ file \in Versions
    /\ saving = FALSE
    /\ saves = 0
    /\ missed = FALSE
    /\ events = 0
    /\ watch = "none"
    /\ watcher = "starting"
    /\ loaded = EmptyTable
    /\ tokens = file

-----------------------------------------------------------------------------
(* The file system (external)                                              *)

Change(contents) ==
    /\ file' = contents
    /\ missed' = (watch = "none")
    /\ events' = IF watch = "none" THEN events ELSE events + 1
    /\ UNCHANGED watchVars

\* Another file takes the name: a watch of the old one reports it and is gone.
Rename(contents) ==
    /\ saves < MaxSaves
    /\ ~saving
    /\ saves' = saves + 1
    /\ Change(contents)
    /\ watch' = IF watch = "file" THEN "none" ELSE watch
    /\ UNCHANGED saving

Truncate ==
    /\ saves < MaxSaves
    /\ ~saving
    /\ file # Unreadable
    /\ saves' = saves + 1
    /\ saving' = TRUE
    /\ Change(EmptyTable)
    /\ UNCHANGED watch

WriteOut(contents) ==
    /\ saving
    /\ saving' = FALSE
    /\ Change(contents)
    /\ UNCHANGED <<saves, watch>>

FileSystem ==
    \/ \E contents \in Versions \union {Unreadable} : Rename(contents) \/ WriteOut(contents)
    \/ Truncate

-----------------------------------------------------------------------------
(* watchFile                                                               *)

\* No watcher, or no file to watch (it may be gone already), and the goroutine ends; a
\* directory that cannot be watched is only logged.
StartWatching ==
    /\ watcher = "starting"
    /\ \/ watcher' = "dead" /\ watch' = watch
       \/ watcher' = "waiting" /\ watch' \in {"file", "dir"}
    /\ UNCHANGED <<file, saving, saves, missed, events, loaded, tokens>>

TakeEvent ==
    /\ watcher = "waiting"
    /\ events > 0
    /\ events' = events - 1
    /\ watcher' = "debouncing"
    /\ UNCHANGED <<file, saving, saves, missed, watch, loaded, tokens>>

\* loadTokens up to the lock. An error leaves the table as it is.
Load ==
    /\ watcher = "debouncing"
    /\ IF file = Unreadable
       THEN watcher' = "waiting" /\ UNCHANGED loaded
       ELSE watcher' = "loaded" /\ loaded' = file
    /\ UNCHANGED <<fileVars, tokens>>

AfterInstall_DropsEvents == 0
AfterInstall == events

Install ==
    /\ watcher = "loaded"
    /\ tokens' = loaded
    /\ events' = AfterInstall
    /\ watcher' = "waiting"
    /\ loaded' = EmptyTable
    /\ UNCHANGED <<file, saving, saves, missed, watch>>

WatchFile == StartWatching \/ TakeEvent \/ Load \/ Install

\* ValidateRole: "Admin has access to everything".
ValidateRole_Known(token, required) == tokens[token] # NoRole
ValidateRole(token, required) == tokens[token] \in {"admin", required}

AuthNext == FileSystem \/ WatchFile

\* The goroutine runs; nobody has to save the file, but a save is finished.
AuthFairness ==
    /\ WF_authVars(WatchFile)
    /\ WF_authVars(\E contents \in Versions \union {Unreadable} : WriteOut(contents))

-----------------------------------------------------------------------------
(* Properties                                                              *)

AuthTypeOK ==
    /\ file \in Versions \union {EmptyTable, Unreadable}
    /\ saving \in BOOLEAN
    /\ saves \in 0..MaxSaves
    /\ missed \in BOOLEAN
    /\ events \in 0..2 * MaxSaves
    /\ watch \in {"none", "file", "dir"}
    /\ watcher \in {"starting", "waiting", "debouncing", "loaded", "dead"}
    /\ loaded \in Versions \union {EmptyTable}
    /\ tokens \in Versions \union {EmptyTable}

ReloadDue == events > 0 \/ watcher \in {"debouncing", "loaded"}

\* "automatic reloading": whenever the table is not what the file says, a reload is
\* still to come, unless the last change came at a time when nothing watched the file.
\* In particular a file that changes between the read and the installing of loadTokens,
\* or that is read half-written, leaves an event behind.
StaleMeansReloadDue ==
    tokens # file /\ file # Unreadable => ReloadDue \/ missed

\* The table ends up as the file is, through truncated and unreadable versions too.
TableCatchesUp == <>[](tokens = file \/ file = Unreadable \/ missed)

=============================================================================
