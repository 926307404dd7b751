----------------------------- MODULE AdminAccess -----------------------------
(***************************************************************************)
(* The administrator's way into the hub: first-run setup and database      *)
(* import behind a setup token, sessions, password change, reset, export,  *)
(* and the database file that an import swaps (service/setup.go, auth.go,  *)
(* settings.go; repo/backup.go, setup.go, hubconfig.go; api/http/handlers, *)
(* api/http/auth).                                                         *)
(*                                                                         *)
(* Setup, import and reset hold controlMu; logins and password changes do  *)
(* not.  An import holds the store's lease while it moves files, every     *)
(* other store operation holds it shared and is one step.  The token is    *)
(* kept twice, by App and by the HTTP server.                              *)
(*                                                                         *)
(* Of a database only the administrator is kept; the settings row comes    *)
(* and goes in the same transactions.  There is one user name.  Passwords  *)
(* in a request are inputs that are used once, and chosen where they are   *)
(* used: the one presented is right or wrong there.                        *)
(***************************************************************************)
EXTENDS Integers

CONSTANTS
    Callers,        \* requests under way at a time
    Passwords,
    MaxTokens,      \* bound on setup tokens generated
    MaxAdmins,      \* bound on setups
    MaxVersion,     \* bound on password changes of one administrator
    MaxLines,       \* bound on database files: the first, imported and fresh ones
    NoAdmin,
    Absent          \* no file

VARIABLES
    live,           \* the database file: Absent or [admin, seq, line]
    backup,         \* <db>.import-backup
    export,         \* the last exported file
    opened,         \* Store.db is an open handle
    born,           \* ghost: administrators set up so far
    lines,          \* ghost: database files so far
    appToken, serverToken,  \* the two copies of the setup token, 0 for ""
    tokens,         \* tokens that were put to use so far; the last is the newest
    known,          \* tokens that were logged or returned to a client
    mu,             \* caller that holds controlMu, or 0
    sessions,       \* JWTs issued: [id, ver] and, as ghosts, whose, with which password
    req             \* the callers' requests

files == <<live, backup, export, opened, born, lines>>
tokenVars == <<appToken, serverToken, tokens, known>>
vars == <<files, tokenVars, mu, sessions, req>>

Admins == [id : 1 .. MaxAdmins, ver : 0 .. MaxVersion, pw : Passwords, born : 1 .. MaxAdmins]
Databases == [admin : Admins \cup {NoAdmin}, seq : 0 .. MaxAdmins, line : 1 .. MaxLines]

ASSUME AdminAssumption ==
    /\ 0 \notin Callers
    /\ {MaxAdmins, MaxVersion} \subseteq Nat /\ {MaxTokens, MaxLines} \subseteq Nat \ {0}
    /\ NoAdmin \notin Admins /\ Absent \notin Databases

Fresh(line) == [admin |-> NoAdmin, seq |-> 0, line |-> line]
HasAdmin(db) == db # Absent /\ db.admin # NoAdmin

\* isConfiguredDB on the open database.
IsConfigured == opened /\ HasAdmin(live)

Ready == [pc |-> "idle"]

Init ==
    /\ live = Fresh(1) /\ backup = Absent /\ export = Absent /\ opened = TRUE
    /\ born = 0 /\ lines = 1
    /\ appToken = 1 /\ serverToken = 1 /\ tokens = 1 /\ known = {1}
    /\ mu = 0 /\ sessions = {} /\ req = [r \in Callers |-> Ready]

Swapping == {"clear", "move", "install", "open", "tidy", "undo", "putback", "swapped"}

\* No import holds the lease.
LeaseFree == \A r \in Callers : req[r].pc \notin Swapping

\* What a request does next, after a step that reads or writes the open database.
At(r, pc) == req[r].pc = pc
Then(r, new) == req' = [req EXCEPT ![r] = new]
Answer(r) == Then(r, Ready)

\* Store.Setup: the tables are AUTOINCREMENT, so an id is not used again.
NewAdmin(pw) == [live EXCEPT !.seq = @ + 1,
                    !.admin = [id |-> live.seq + 1, ver |-> 0, pw |-> pw, born |-> born + 1]]

-----------------------------------------------------------------------------
(* Setup and import: the gate of the HTTP layer, then App under controlMu. *)

\* requireSetupToken: the HTTP server's copy, and only while unconfigured.
Gate(t) == IsConfigured \/ (opened /\ t = serverToken)

RequestSetup(r, t) ==
    /\ At(r, "idle") /\ LeaseFree /\ Gate(t)
    /\ Then(r, [pc |-> "setup", token |-> t])
    /\ UNCHANGED <<files, tokenVars, mu, sessions>>

\* Mutant: App relies on the gate.
BugTokenValid(t) == TRUE

setupTokenValid(t) == t # 0 /\ t = appToken

\* App.setup; the transaction may fail.  The runtime's start, which may fail after
\* the commit and then skips the login, is in ControlPlane.
SetupWithToken(r) ==
    /\ At(r, "setup") /\ mu = 0 /\ LeaseFree
    /\ \/ Answer(r) /\ UNCHANGED <<live, born>>
       \/ /\ opened /\ ~IsConfigured /\ setupTokenValid(req[r].token) /\ born < MaxAdmins
          /\ \E pw \in Passwords : live' = NewAdmin(pw)
          /\ born' = born + 1
          /\ Then(r, [pc |-> "auth"]) \/ Answer(r)
    /\ UNCHANGED <<backup, export, opened, lines, tokenVars, mu, sessions>>

RequestImport(r, t) ==
    /\ At(r, "idle") /\ LeaseFree /\ Gate(t)
    /\ export # Absent
    /\ Then(r, [pc |-> "import", token |-> t, file |-> export])
    /\ UNCHANGED <<files, tokenVars, mu, sessions>>

\* Mutant: the state is not checked again under controlMu.
BugMayImport(r) == opened /\ setupTokenValid(req[r].token)

\* App.importDatabase rechecks under controlMu.
MayImport(r) == opened /\ ~IsConfigured /\ setupTokenValid(req[r].token)

\* prepareImportDatabase copies, migrates and validates the upload; then the lease.
ImportDatabase(r) ==
    /\ At(r, "import") /\ mu = 0 /\ LeaseFree
    /\ \/ Answer(r) /\ UNCHANGED mu
       \/ /\ MayImport(r) /\ HasAdmin(req[r].file) /\ lines < MaxLines
          /\ mu' = r
          /\ Then(r, [pc |-> "clear", token |-> req[r].token, file |-> req[r].file,
                      before |-> live, moved |-> FALSE, faults |-> 0])
    /\ UNCHANGED <<files, tokenVars, sessions>>

\* swapDatabaseLocked, step by step.  A step goes on to pc, or fails and goes to bad.
Step(r, pc) == req' = [req EXCEPT ![r].pc = pc]
Fault(r, bad) == req' = [req EXCEPT ![r].pc = bad, ![r].faults = @ + 1]

\* Mutant: the live database stays open.
BugClearBackup(r) ==
    /\ At(r, "clear")
    /\ backup' = Absent /\ UNCHANGED opened /\ Step(r, "move")
    /\ UNCHANGED <<live, export, born, lines, tokenVars, mu, sessions>>

\* The old backup is removed and the live database closed.
ClearBackup(r) ==
    /\ At(r, "clear")
    /\ \/ backup' = Absent /\ opened' = FALSE /\ Step(r, "move")
       \/ UNCHANGED <<backup, opened>> /\ Fault(r, "swapped")
       \/ backup' = Absent /\ UNCHANGED opened /\ Fault(r, "swapped")   \* close failed, reopened
       \/ /\ backup' = Absent /\ opened' = FALSE                        \* ... or not even that
          /\ req' = [req EXCEPT ![r].pc = "swapped", ![r].faults = @ + 2]
    /\ UNCHANGED <<live, export, born, lines, tokenVars, mu, sessions>>

\* The file, then its sidecars; a failure of the latter finds the file moved.
MoveLive(r) ==
    /\ At(r, "move")
    /\ \/ /\ backup' = live /\ live' = Absent
          /\ \/ req' = [req EXCEPT ![r].pc = "install", ![r].moved = TRUE]
             \/ req' = [req EXCEPT ![r].pc = "undo", ![r].moved = TRUE, ![r].faults = @ + 1]
       \/ UNCHANGED <<live, backup>> /\ Fault(r, "undo")
    /\ UNCHANGED <<export, opened, born, lines, tokenVars, mu, sessions>>

Install(r) ==
    /\ At(r, "install")
    /\ \/ /\ live' = [req[r].file EXCEPT !.line = lines + 1] /\ lines' = lines + 1
          /\ Step(r, "open")
       \/ UNCHANGED <<live, lines>> /\ Fault(r, "undo")
    /\ UNCHANGED <<backup, export, opened, born, tokenVars, mu, sessions>>

\* openDB and isConfiguredDB.
OpenImported(r) ==
    /\ At(r, "open")
    /\ \/ opened' = TRUE /\ Step(r, "tidy")
       \/ UNCHANGED opened /\ Fault(r, "undo")
    /\ UNCHANGED <<live, backup, export, born, lines, tokenVars, mu, sessions>>

\* The backup is removed; a failure is an answer, and the import stands.
Tidy(r) ==
    /\ At(r, "tidy")
    /\ \/ backup' = Absent /\ Step(r, "swapped")
       \/ UNCHANGED backup /\ Fault(r, "swapped")
    /\ UNCHANGED <<live, export, opened, born, lines, tokenVars, mu, sessions>>

\* Mutant: the backup stays where it is.
BugToRestore(r) == FALSE

ToRestore(r) == req[r].moved

\* restoreDatabaseLocked: what was installed is removed, unless that fails, ...
Undo(r) ==
    /\ At(r, "undo")
    /\ opened' = FALSE
    /\ \/ live' = (IF ToRestore(r) THEN Absent ELSE live) /\ Step(r, "putback")
       \/ ToRestore(r) /\ UNCHANGED live /\ Fault(r, "putback")
    /\ UNCHANGED <<backup, export, born, lines, tokenVars, mu, sessions>>

\* ... the backup is moved back, and the database opened, which creates it where
\* there is none.
PutBack(r) ==
    /\ At(r, "putback")
    /\ \E back \in BOOLEAN, open \in BOOLEAN :
        /\ LET file == IF ToRestore(r) /\ back THEN backup ELSE live
           IN  /\ backup' = IF ToRestore(r) /\ back THEN Absent ELSE backup
               /\ file = Absent => lines < MaxLines
               /\ live' = IF file = Absent THEN Fresh(lines + 1) ELSE file
               /\ lines' = IF file = Absent THEN lines + 1 ELSE lines
        /\ opened' = open
        /\ req' = [req EXCEPT ![r].pc = "swapped",
                              ![r].faults = IF back /\ open THEN @ ELSE @ + 1]
    /\ UNCHANGED <<export, born, tokenVars, mu, sessions>>

\* The deferred unlocks.  In between the runtime is started from the new database, as
\* it is after a setup (SetupCall of ControlPlane).
Unlock(r) ==
    /\ At(r, "swapped")
    /\ mu' = 0
    /\ Answer(r)
    /\ UNCHANGED <<files, tokenVars, sessions>>

-----------------------------------------------------------------------------
(* Login and sessions.                                                     *)

\* The hub is configured, and the rate limit lets the attempt through.
RequestLogin(r) ==
    /\ At(r, "idle") /\ LeaseFree /\ IsConfigured
    /\ Then(r, [pc |-> "auth"])
    /\ UNCHANGED <<files, tokenVars, mu, sessions>>

\* AuthenticateAdmin: one read of the row, then the comparison.
AuthenticateAdmin(r) ==
    /\ At(r, "auth") /\ LeaseFree
    /\ \/ Answer(r)
       \/ /\ IsConfigured
          /\ Then(r, [pc |-> "issue", row |-> live.admin, line |-> live.line])
    /\ UNCHANGED <<files, tokenVars, mu, sessions>>

\* Mutant: the version is read again when the token is written.
BugSessionOf(r) ==
    [id |-> req[r].row.id, ver |-> IF IsConfigured THEN live.admin.ver ELSE req[r].row.ver,
     pw |-> req[r].row.pw, born |-> req[r].row.born, line |-> req[r].line]

\* The claims of the token.
SessionOf(r) ==
    [id |-> req[r].row.id, ver |-> req[r].row.ver,
     pw |-> req[r].row.pw, born |-> req[r].row.born, line |-> req[r].line]

issueToken(r) ==
    /\ At(r, "issue")
    /\ sessions' = sessions \cup {SessionOf(r)}
    /\ Answer(r)
    /\ UNCHANGED <<files, tokenVars, mu>>

\* ValidateAdminSession.
Valid(s) == IsConfigured /\ live.admin.id = s.id /\ live.admin.ver = s.ver

\* The middleware lets the request through to its handler.
Authorized(r) == At(r, "idle") /\ LeaseFree /\ \E s \in sessions : Valid(s)

RequestPassword(r) ==
    /\ Authorized(r)
    /\ Then(r, [pc |-> "verify"])
    /\ UNCHANGED <<files, tokenVars, mu, sessions>>

VerifyCurrent(r) ==
    /\ At(r, "verify") /\ LeaseFree
    /\ \/ Answer(r)
       \/ IsConfigured /\ Then(r, [pc |-> "update", row |-> live.admin, line |-> live.line])
    /\ UNCHANGED <<files, tokenVars, mu, sessions>>

\* Mutant: whoever has the user name.
BugUpdates(r) == IsConfigured

\* WHERE id = ?
Updates(r) == IsConfigured /\ live.admin.id = req[r].row.id

\* One UPDATE of the hash and the version; no row is no error.
UpdateAdminPassword(r) ==
    /\ At(r, "update") /\ LeaseFree
    /\ Updates(r) => live.admin.ver < MaxVersion
    /\ \E new \in Passwords :
        live' = IF Updates(r) THEN [live EXCEPT !.admin.pw = new, !.admin.ver = @ + 1] ELSE live
    /\ Answer(r)
    /\ UNCHANGED <<backup, export, opened, born, lines, tokenVars, mu, sessions>>

\* VACUUM INTO under the shared lease, for a session; what a hub holds that was reset
\* after the session was checked would be refused by an import.
ExportDatabase ==
    /\ LeaseFree /\ \E s \in sessions : Valid(s)
    /\ export' = live
    /\ UNCHANGED <<live, backup, opened, born, lines, tokenVars, mu, sessions, req>>

-----------------------------------------------------------------------------
(* Reset, and the process.                                                 *)

RequestReset(r) ==
    /\ Authorized(r)
    /\ Then(r, [pc |-> "reset"])
    /\ UNCHANGED <<files, tokenVars, mu, sessions>>

\* Verification, stop of the stack and ResetAll under one lock; then App's token.
ResetWithAdminPassword(r) ==
    /\ At(r, "reset") /\ mu = 0 /\ LeaseFree
    /\ \/ Answer(r) /\ UNCHANGED <<live, tokens, appToken>>
       \/ /\ IsConfigured /\ tokens < MaxTokens
          /\ live' = [live EXCEPT !.admin = NoAdmin]
          /\ tokens' = tokens + 1 /\ appToken' = tokens + 1
          /\ Then(r, [pc |-> "publish", token |-> tokens + 1])
    /\ UNCHANGED <<backup, export, opened, born, lines, serverToken, known, mu, sessions>>

\* After the lock: the HTTP server's copy, App's once more, and the answer.
setSetupToken(r) ==
    /\ At(r, "publish")
    /\ serverToken' = req[r].token /\ appToken' = req[r].token
    /\ known' = known \cup {req[r].token}
    /\ Answer(r)
    /\ UNCHANGED <<files, tokens, mu, sessions>>

\* The process ends at any point and starts again (Run): the database is opened, or
\* created, and an unconfigured hub logs a new token.
Restart ==
    /\ live = Absent => lines < MaxLines
    /\ live' = IF live = Absent THEN Fresh(lines + 1) ELSE live
    /\ lines' = IF live = Absent THEN lines + 1 ELSE lines
    /\ opened' = TRUE
    /\ IF HasAdmin(live)
       THEN /\ appToken' = 0 /\ serverToken' = 0
            /\ UNCHANGED <<tokens, known>>
       ELSE /\ tokens < MaxTokens
            /\ tokens' = tokens + 1 /\ known' = known \cup {tokens + 1}
            /\ appToken' = tokens + 1 /\ serverToken' = tokens + 1
    /\ mu' = 0 /\ req' = [r \in Callers |-> Ready]
    /\ UNCHANGED <<backup, export, born, sessions>>

-----------------------------------------------------------------------------
Requests(r) ==
    \/ \E t \in known \cup {0} : RequestSetup(r, t) \/ RequestImport(r, t)
    \/ RequestLogin(r) \/ RequestPassword(r) \/ RequestReset(r)

Serve(r) ==
    \/ SetupWithToken(r) \/ ImportDatabase(r)
    \/ ClearBackup(r) \/ MoveLive(r) \/ Install(r) \/ OpenImported(r) \/ Tidy(r)
    \/ Undo(r) \/ PutBack(r) \/ Unlock(r)
    \/ AuthenticateAdmin(r) \/ issueToken(r)
    \/ VerifyCurrent(r) \/ UpdateAdminPassword(r)
    \/ ResetWithAdminPassword(r) \/ setSetupToken(r)

Next == (\E r \in Callers : Requests(r) \/ Serve(r)) \/ ExportDatabase \/ Restart

Spec == Init /\ [][Next]_vars

-----------------------------------------------------------------------------
(* Properties.                                                             *)

TypeOK ==
    /\ {live, backup, export} \subseteq Databases \cup {Absent}
    /\ opened \in BOOLEAN /\ born \in 0 .. MaxAdmins /\ lines \in 1 .. MaxLines
    /\ tokens \in 1 .. MaxTokens /\ known \subseteq 1 .. tokens
    /\ {appToken, serverToken} \subseteq 0 .. tokens
    /\ mu \in Callers \cup {0}
    /\ \A r \in Callers : req[r].pc \in Swapping \cup {"idle", "setup", "import", "auth", "issue",
                                "verify", "update", "reset", "publish"}
    /\ opened => live # Absent

\* "All setup endpoints require this token" (README.md:100): whatever makes an
\* unconfigured hub a configured one was given the newest token, in spite of the two
\* copies, one of them written after the lock, the empty token of a hub that booted
\* configured, and tokens from before a reset or restart.
NewestToken ==
    [][~HasAdmin(live) /\ HasAdmin(live') =>
        \E r \in Callers : req[r].pc \in {"setup", "install"} /\ req[r].token = tokens]_vars

\* Nothing but a reset unconfigures a hub: no import that lost a race, failed at any
\* of its steps or was cut off by a crash (service/setup.go:131-138, repo/backup.go:220-280).
OnlyResetClears ==
    [][HasAdmin(live) /\ ~HasAdmin(live') =>
        \E r \in Callers : \/ At(r, "reset")
                           \/ /\ req[r].pc \in {"undo", "putback"}
                              /\ ~HasAdmin(req[r].before)]_vars

\* When an import ends with at most one fault, the hub has an open database, the one
\* it had or the imported one, sequence numbers and all (repo/backup.go:220-280).
ImportAtomic ==
    \A r \in Callers : At(r, "swapped") /\ req[r].faults <= 1 =>
        /\ opened
        /\ \/ live = req[r].before
           \/ live = [req[r].file EXCEPT !.line = live.line]

\* A session that is accepted belongs to the administrator it was issued to, who has
\* not changed the password since, also when login, change, reset and setup overlap.
\* Sessions from before a database was imported or created afresh are not meant: ids
\* and versions start again there (api/http/auth/auth.go:60-81, service/auth.go:31-41).
SessionsCurrent ==
    \A s \in sessions : Valid(s) /\ s.line = live.line =>
        s.born = live.admin.born /\ s.pw = live.admin.pw

\* A password change reaches the administrator it was verified for and no other, even
\* where a reset and a setup came in between (service/settings.go:101-110,
\* repo/hubconfig.go:57-68); an import in between is not meant, as above.
ChangeHitsVerified ==
    [][HasAdmin(live) /\ HasAdmin(live') /\ live'.line = live.line /\ live'.admin # live.admin =>
        \E r \in Callers : At(r, "update") /\ (req[r].line = live.line =>
                                                    req[r].row.born = live.admin.born)]_vars
=============================================================================
