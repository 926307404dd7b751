------------------------- MODULE AdminAccessProofs -------------------------
(***************************************************************************)
(* Proofs about AdminAccess: an import leaves the old database or the new  *)
(* one, a session means the administrator it was issued to, and what may   *)
(* configure, unconfigure and change a hub.                                *)
(***************************************************************************)
EXTENDS AdminAccess, TLAPS

Points == Swapping \cup {"idle", "setup", "import", "auth", "issue", "verify", "update", "reset", "publish"}
Swaps == [pc : Swapping, token : Nat, file : Databases, before : Databases, moved : BOOLEAN, faults : Nat]
JWTs == [id : 1 .. MaxAdmins, ver : 0 .. MaxVersion, pw : Passwords, born : 1 .. MaxAdmins, line : 1 .. MaxLines]

\* A database whose administrator came from its own sequence; the ghosts bound both.
Good(db) ==
    /\ db \in Databases /\ db.line <= lines /\ db.seq <= born
    /\ db.admin # NoAdmin => db.admin.id <= db.seq

FilesInv ==
    /\ \A db \in {live, backup, export} : db # Absent => Good(db)
    /\ live # Absent /\ backup # Absent => live.line # backup.line
    /\ opened \in BOOLEAN /\ born \in 0 .. MaxAdmins /\ lines \in 1 .. MaxLines
    /\ opened => live # Absent

\* What a request carries.
RequestInv(q) ==
    /\ q.pc \in Points
    /\ q.pc \in Swapping => q \in Swaps /\ Good(q.file) /\ q.token = tokens /\ q.before.admin = NoAdmin
    /\ q.pc \in {"setup", "import"} => q.token \in known \cup {0}
    /\ q.pc = "import" => Good(q.file)
    /\ q.pc \in {"issue", "update"} => q.row \in Admins /\ q.line \in 1 .. lines

\* Where an import stands: which file holds the old database, and how much went wrong.
SwapInv(q) ==
    /\ q.pc = "clear" => live = q.before /\ opened /\ ~q.moved /\ q.faults = 0 /\ lines < MaxLines
    /\ q.pc = "move" => live = q.before /\ ~opened /\ ~q.moved /\ q.faults = 0 /\ lines < MaxLines
    /\ q.pc = "install" => /\ live = Absent /\ backup = q.before /\ ~opened /\ q.moved /\ q.faults = 0
                           /\ lines < MaxLines
    /\ q.pc \in {"open", "tidy"} => /\ live = [q.file EXCEPT !.line = lines] /\ q.moved /\ q.faults = 0
                                    /\ backup = q.before /\ (q.pc = "open" => ~opened) /\ (q.pc = "tidy" => opened)
    /\ q.pc \in {"undo", "putback"} => /\ q.faults > 0
                                       /\ q.moved => backup = q.before
                                       /\ ~q.moved => live = q.before
    /\ q.pc = "swapped" /\ q.faults <= 1 => opened /\ (live = q.before \/ live = [q.file EXCEPT !.line = live.line])

\* Only the caller that holds controlMu swaps files.
LockInv ==
    /\ mu \in Callers \cup {0}
    /\ \A r \in Callers : req[r].pc \in Swapping => mu = r

\* App's token is the newest or none; while a reset has not published its token nobody
\* knows it, so the hub stays unconfigured.
TokenInv ==
    /\ tokens \in 1 .. MaxTokens /\ known \subseteq 1 .. tokens
    /\ appToken \in {0, tokens} /\ serverToken \in 0 .. tokens
    /\ \A r \in Callers : At(r, "publish") =>
            /\ req[r].token = tokens /\ tokens \notin known /\ appToken = tokens
            /\ ~HasAdmin(live) /\ LeaseFree
            /\ \A q \in Callers : At(q, "publish") => q = r

\* A row that was read from a line of databases, against the database of that line now.
Agrees(db, row, line) ==
    line = db.line =>
        /\ row.id <= db.seq
        /\ db.admin # NoAdmin /\ db.admin.id = row.id =>
                /\ row.born = db.admin.born /\ row.ver <= db.admin.ver
                /\ row.ver = db.admin.ver => row.pw = db.admin.pw

\* Whatever was read once, for a session or a password change, agrees with both files.
Held == {db \in {live, backup} : db # Absent}
SeenInv ==
    /\ sessions \subseteq JWTs /\ \A s \in sessions : s.line <= lines
    /\ \A db \in Held : /\ \A s \in sessions : Agrees(db, s, s.line)
                        /\ \A r \in Callers : req[r].pc \in {"issue", "update"} =>
                                                    Agrees(db, req[r].row, req[r].line)

AdminInv ==
    /\ FilesInv
    /\ DOMAIN req = Callers /\ req = [r \in Callers |-> req[r]]
    /\ \A r \in Callers : RequestInv(req[r]) /\ SwapInv(req[r])
    /\ LockInv /\ TokenInv /\ SeenInv

-----------------------------------------------------------------------------
(* The frames of the steps. *)

LEMMA InitAdmin == Init => AdminInv
  <1> SUFFICES ASSUME Init PROVE AdminInv
    OBVIOUS
  <1>1. Fresh(1) \in Databases /\ Fresh(1).line = 1 /\ Fresh(1).seq = 0 /\ Fresh(1).admin = NoAdmin
    BY AdminAssumption DEF Fresh, Databases
  <1>2. FilesInv
    BY <1>1, AdminAssumption DEF Init, FilesInv, Good
  <1>3. DOMAIN req = Callers /\ \A r \in Callers : req[r] = Ready
    BY DEF Init
  <1>4. Ready.pc = "idle"
    BY DEF Ready
  <1>5. \A r \in Callers : RequestInv(req[r]) /\ SwapInv(req[r])
    BY <1>3, <1>4 DEF RequestInv, SwapInv, Points, Swapping
  <1>6. LockInv
    BY <1>3, <1>4 DEF Init, LockInv, Swapping
  <1>7. TokenInv
    BY <1>3, <1>4, AdminAssumption DEF Init, TokenInv, At
  <1>8. SeenInv
    BY <1>3, <1>4 DEF Init, SeenInv
  <1> QED
    BY <1>2, <1>3, <1>5, <1>6, <1>7, <1>8 DEF AdminInv, Init

\* Only one request moves on.
Moves(r, new) == req' = [req EXCEPT ![r] = new]

LEMMA MovesOne ==
  ASSUME DOMAIN req = Callers, NEW r \in Callers, NEW new, Moves(r, new)
  PROVE  /\ DOMAIN req' = Callers /\ req' = [q \in Callers |-> req'[q]]
         /\ req'[r] = new /\ \A q \in Callers \ {r} : req'[q] = req[q]
  BY DEF Moves

\* A step that leaves files and tokens alone, of a request that holds no lease then.
LEMMA QuietStep ==
  ASSUME AdminInv, NEW r \in Callers, NEW new, Moves(r, new),
         new.pc \notin Swapping, new.pc # "publish", RequestInv(new),
         UNCHANGED <<files, tokenVars>>,
         \/ mu' = mu /\ req[r].pc \notin Swapping
         \/ mu' = 0 /\ req[r].pc \in Swapping,
         SeenInv'
  PROVE  AdminInv'
  <1>1. /\ DOMAIN req' = Callers /\ req' = [q \in Callers |-> req'[q]]
        /\ req'[r] = new /\ \A q \in Callers \ {r} : req'[q] = req[q]
    BY MovesOne DEF AdminInv
  <1>2. FilesInv'
    BY DEF AdminInv, FilesInv, Good, files
  <1>3. \A q \in Callers : RequestInv(req[q])'
    BY <1>1 DEF AdminInv, RequestInv, Good, files, tokenVars
  <1>4. \A q \in Callers : SwapInv(req[q])'
    BY <1>1 DEF AdminInv, SwapInv, Swapping, files
  <1>5. LockInv'
    BY <1>1, AdminAssumption DEF AdminInv, LockInv
  <1>6. LeaseFree => LeaseFree'
    BY <1>1 DEF LeaseFree
  <1>7. TokenInv'
    BY <1>1, <1>6 DEF AdminInv, TokenInv, At, HasAdmin, files, tokenVars
  <1> QED
    BY <1>1, <1>2, <1>3, <1>4, <1>5, <1>7 DEF AdminInv

\* Nothing new was read, or what was read agrees with the files.
LEMMA NothingSeen ==
  ASSUME AdminInv, NEW r \in Callers, NEW new, Moves(r, new), UNCHANGED <<files, sessions>>,
         new.pc \in {"issue", "update"} => \A db \in Held : Agrees(db, new.row, new.line)
  PROVE  SeenInv'
  <1>1. \A q \in Callers \ {r} : req'[q] = req[q]
    BY MovesOne DEF AdminInv
  <1>2. req'[r] = new
    BY MovesOne DEF AdminInv
  <1> QED
    BY <1>1, <1>2 DEF AdminInv, SeenInv, Held, files, Agrees

-----------------------------------------------------------------------------
(* Requests, logins and checks change no file and no token. *)

\* The answer ends a request that holds no lease.
LEMMA AnswerStep ==
  ASSUME AdminInv, NEW r \in Callers, Answer(r), req[r].pc \notin Swapping,
         UNCHANGED <<files, tokenVars, mu, sessions>>
  PROVE  AdminInv'
  <1>1. Moves(r, Ready)
    BY DEF Answer, Then, Moves
  <1>2. Ready.pc = "idle"
    BY DEF Ready
  <1>3. RequestInv(Ready)
    BY <1>2 DEF RequestInv, Points, Swapping
  <1>4. SeenInv'
    BY <1>1, <1>2, NothingSeen
  <1> QED
    BY <1>1, <1>2, <1>3, <1>4, QuietStep DEF Swapping

\* A request that carries nothing but a token or a file that was exported.
LEMMA CarriesNothing ==
  ASSUME AdminInv, NEW r \in Callers, NEW new, Moves(r, new), req[r].pc \notin Swapping,
         UNCHANGED <<files, tokenVars, mu, sessions>>,
         new.pc \in {"setup", "import", "auth", "verify", "reset"},
         new.pc \in {"setup", "import"} => new.token \in known \cup {0},
         new.pc = "import" => Good(new.file)
  PROVE  AdminInv'
  <1>1. RequestInv(new)
    BY DEF RequestInv, Points, Swapping
  <1>2. SeenInv'
    BY NothingSeen
  <1> QED
    BY <1>1, <1>2, QuietStep DEF Swapping

\* A row that was just read from the open database.
LEMMA ReadsRow ==
  ASSUME AdminInv, NEW r \in Callers, NEW new, Moves(r, new), req[r].pc \notin Swapping,
         UNCHANGED <<files, tokenVars, mu, sessions>>, IsConfigured,
         new.pc \in {"issue", "update"}, new.row = live.admin, new.line = live.line
  PROVE  AdminInv'
  <1>1. live \in Databases /\ live.admin \in Admins /\ live.line \in 1 .. lines /\ live.admin.id <= live.seq
    BY AdminAssumption DEF IsConfigured, HasAdmin, AdminInv, FilesInv, Good, Databases
  <1>2. RequestInv(new)
    BY <1>1 DEF RequestInv, Points, Swapping
  <1>3. live.admin.ver \in Nat
    BY <1>1, AdminAssumption DEF Admins
  <1>4. Agrees(live, new.row, new.line)
    BY <1>1, <1>3 DEF Agrees
  <1>5. backup # Absent => backup.line # live.line
    BY DEF AdminInv, FilesInv, IsConfigured, HasAdmin
  <1>6. backup # Absent => Agrees(backup, new.row, new.line)
    BY <1>5 DEF Agrees
  <1>7. SeenInv'
    BY <1>4, <1>6, NothingSeen DEF Held
  <1> QED
    BY <1>2, <1>7, QuietStep DEF Swapping

LEMMA RequestStep ==
  ASSUME AdminInv, NEW r \in Callers, Requests(r)
  PROVE  AdminInv'
  <1>1. ASSUME NEW t \in known \cup {0}, RequestSetup(r, t) PROVE AdminInv'
    <2> DEFINE new == [pc |-> "setup", token |-> t]
    <2>1. new.pc = "setup" /\ new.token = t
      OBVIOUS
    <2>2. Moves(r, new)
      BY <1>1 DEF RequestSetup, Then, Moves
    <2> HIDE DEF new
    <2> QED
      BY <1>1, <2>1, <2>2, CarriesNothing DEF RequestSetup, At, Swapping
  <1>2. ASSUME NEW t \in known \cup {0}, RequestImport(r, t) PROVE AdminInv'
    <2> DEFINE new == [pc |-> "import", token |-> t, file |-> export]
    <2>1. new.pc = "import" /\ new.token = t /\ new.file = export
      OBVIOUS
    <2>2. Moves(r, new)
      BY <1>2 DEF RequestImport, Then, Moves
    <2>3. Good(export)
      BY <1>2 DEF RequestImport, AdminInv, FilesInv
    <2> HIDE DEF new
    <2> QED
      BY <1>2, <2>1, <2>2, <2>3, CarriesNothing DEF RequestImport, At, Swapping
  <1>3. ASSUME NEW pc \in {"auth", "verify", "reset"}, At(r, "idle"), Then(r, [pc |-> pc]),
               UNCHANGED <<files, tokenVars, mu, sessions>>
        PROVE  AdminInv'
    BY <1>3, CarriesNothing DEF Then, Moves, At, Swapping
  <1> QED
    BY <1>1, <1>2, <1>3 DEF Requests, RequestLogin, RequestPassword, RequestReset, Authorized

LEMMA ReadStep ==
  ASSUME AdminInv, NEW r \in Callers, AuthenticateAdmin(r) \/ VerifyCurrent(r)
  PROVE  AdminInv'
  <1>1. req[r].pc \notin Swapping /\ UNCHANGED <<files, tokenVars, mu, sessions>>
    BY DEF AuthenticateAdmin, VerifyCurrent, At, Swapping
  <1>2. CASE Answer(r)
    BY <1>1, <1>2, AnswerStep
  <1>3. ASSUME NEW pc \in {"issue", "update"}, IsConfigured,
               Then(r, [pc |-> pc, row |-> live.admin, line |-> live.line])
        PROVE  AdminInv'
    BY <1>1, <1>3, ReadsRow DEF Then, Moves
  <1> QED
    BY <1>2, <1>3 DEF AuthenticateAdmin, VerifyCurrent

\* The claims of a token are what was read with the row.
LEMMA IssueStep ==
  ASSUME AdminInv, NEW r \in Callers, issueToken(r)
  PROVE  AdminInv'
  <1> DEFINE s == SessionOf(r)
  <1>1. req[r].row \in Admins /\ req[r].line \in 1 .. lines /\ lines \in 1 .. MaxLines
    BY DEF issueToken, At, AdminInv, RequestInv, FilesInv
  <1>2. /\ s \in JWTs /\ s.line = req[r].line /\ s.id = req[r].row.id /\ s.ver = req[r].row.ver
        /\ s.pw = req[r].row.pw /\ s.born = req[r].row.born
    BY <1>1, AdminAssumption DEF SessionOf, JWTs, Admins
  <1>3. sessions' = sessions \cup {s}
    BY DEF issueToken
  <1> HIDE DEF s
  <1>4. \A db \in Held : Agrees(db, s, s.line)
    <2>1. \A db \in Held : Agrees(db, req[r].row, req[r].line)
      BY DEF issueToken, At, AdminInv, SeenInv
    <2> QED
      BY <1>2, <2>1 DEF Agrees
  <1>5. Moves(r, Ready) /\ Ready.pc = "idle"
    BY DEF issueToken, Answer, Then, Moves, Ready
  <1>6. RequestInv(Ready)
    BY <1>5 DEF RequestInv, Points, Swapping
  <1>7. Held' = Held /\ lines' = lines
    BY DEF issueToken, files, Held
  <1>8. req'[r].pc = "idle" /\ \A q \in Callers \ {r} : req'[q] = req[q]
    BY <1>5, MovesOne DEF AdminInv
  <1>9. SeenInv'
    BY <1>1, <1>2, <1>3, <1>4, <1>7, <1>8 DEF AdminInv, SeenInv, Agrees
  <1> QED
    BY <1>5, <1>6, <1>9, QuietStep DEF issueToken, At, Swapping

LEMMA ExportStep ==
  ASSUME AdminInv, ExportDatabase
  PROVE  AdminInv'
  <1>1. FilesInv'
    BY DEF ExportDatabase, AdminInv, FilesInv, Good, Valid, IsConfigured, HasAdmin
  <1>2. \A q \in Callers : RequestInv(req[q])'
    BY DEF ExportDatabase, AdminInv, RequestInv, Good, tokenVars
  <1>3. \A q \in Callers : SwapInv(req[q])'
    BY DEF ExportDatabase, AdminInv, SwapInv
  <1>4. LockInv' /\ TokenInv'
    BY DEF ExportDatabase, AdminInv, LockInv, TokenInv, At, HasAdmin, LeaseFree, tokenVars
  <1>5. SeenInv'
    BY DEF ExportDatabase, AdminInv, SeenInv, Held, Agrees
  <1> QED
    BY <1>1, <1>2, <1>3, <1>4, <1>5 DEF AdminInv, ExportDatabase

-----------------------------------------------------------------------------
(* The import: while one caller moves files nobody else does anything but *)
(* answer, issue a token or queue up.                                      *)

\* A file that is held after a step is one that was held, or of a line that nobody read.
LEMMA FilesSeen ==
  ASSUME AdminInv, UNCHANGED sessions, lines' \in Nat, lines <= lines',
         \A db \in Held' : db \in Held \/ db.line > lines,
         \A q \in Callers : req'[q].pc \in {"issue", "update"} => req'[q] = req[q]
  PROVE  SeenInv'
  <1>1. lines \in Nat /\ \A s \in sessions : s.line \in Nat /\ s.line <= lines
    BY AdminAssumption DEF AdminInv, FilesInv, SeenInv, JWTs
  <1>2. \A q \in Callers : req[q].pc \in {"issue", "update"} => req[q].line \in 1 .. lines
    BY DEF AdminInv, RequestInv
  <1>3. sessions' \subseteq JWTs /\ \A s \in sessions' : s.line <= lines'
    BY <1>1 DEF AdminInv, SeenInv
  <1>4. ASSUME NEW db \in Held', NEW s \in sessions' PROVE Agrees(db, s, s.line)
    BY <1>1, <1>4 DEF AdminInv, SeenInv, Agrees
  <1>5. ASSUME NEW db \in Held', NEW q \in Callers, req'[q].pc \in {"issue", "update"}
        PROVE  Agrees(db, req'[q].row, req'[q].line)
    <2>1. req'[q] = req[q]
      BY <1>5
    <2>2. CASE db \in Held
      BY <1>5, <2>1, <2>2 DEF AdminInv, SeenInv
    <2>3. CASE db.line > lines
      BY <1>1, <1>2, <1>5, <2>1, <2>3 DEF Agrees
    <2> QED
      BY <1>5, <2>2, <2>3
  <1> QED
    BY <1>3, <1>4, <1>5 DEF SeenInv, Agrees

\* What one step of the import has to keep.
LEMMA SwapStep ==
  ASSUME AdminInv, NEW r \in Callers, NEW new, Moves(r, new), req[r].pc \in Swapping,
         new \in Swaps, new.token = req[r].token, new.file = req[r].file, new.before = req[r].before,
         UNCHANGED <<export, born, tokenVars, mu, sessions>>,
         lines' \in Nat, lines <= lines', FilesInv',
         \A db \in Held' : db \in Held \/ db.line > lines,
         req'[r] = new => SwapInv(req[r])'
  PROVE  AdminInv'
  <1>1. /\ DOMAIN req' = Callers /\ req' = [q \in Callers |-> req'[q]]
        /\ req'[r] = new /\ \A q \in Callers \ {r} : req'[q] = req[q]
    BY MovesOne DEF AdminInv
  <1>2. new.pc \in Swapping
    BY DEF Swaps
  <1>3. \A q \in Callers : q # r => req[q].pc \notin Swapping
    BY DEF AdminInv, LockInv
  <1>4. \A q \in Callers : req[q].pc # "publish"
    BY DEF AdminInv, TokenInv, At, LeaseFree
  <1>5. lines \in Nat /\ born \in Nat
    BY AdminAssumption DEF AdminInv, FilesInv
  <1>6. ASSUME NEW q \in Callers PROVE RequestInv(req[q])'
    <2>1. \A db : Good(db) => Good(db)'
      <3> SUFFICES ASSUME NEW db, Good(db) PROVE Good(db)'
        OBVIOUS
      <3>1. db.line \in Nat
        BY AdminAssumption DEF Good, Databases
      <3> QED
        BY <1>5, <3>1 DEF Good
    <2>2. RequestInv(req[q])
      BY DEF AdminInv
    <2>3. CASE q = r
      <3>1. Good(req[q].file) /\ req[q].token = tokens /\ req[q].before.admin = NoAdmin
        BY <2>2, <2>3 DEF RequestInv
      <3>2. Good(new.file)'
        BY <2>1, <2>3, <3>1
      <3> QED
        BY <1>1, <1>2, <2>3, <3>1, <3>2 DEF RequestInv, Points, Swapping, tokenVars, Good
    <2>4. CASE q # r
      <3>1. req'[q] = req[q] /\ req[q].pc \notin Swapping
        BY <1>1, <1>3, <2>4
      <3> QED
        BY <1>5, <2>1, <2>2, <3>1 DEF RequestInv, tokenVars, Good
    <2> QED
      BY <2>3, <2>4
  <1>7. ASSUME NEW q \in Callers PROVE SwapInv(req[q])'
    <2>1. CASE q = r
      BY <1>1, <2>1
    <2>2. CASE q # r
      BY <1>1, <1>3, <2>2 DEF SwapInv, Swapping
    <2> QED
      BY <2>1, <2>2
  <1>8. LockInv'
    BY <1>1, <1>2 DEF AdminInv, LockInv
  <1>9. TokenInv'
    <2>1. \A q \in Callers : req'[q].pc # "publish"
      BY <1>1, <1>2, <1>4 DEF Swapping
    <2> QED
      BY <2>1 DEF AdminInv, TokenInv, At, tokenVars
  <1>10. SeenInv'
    <2>1. \A q \in Callers : req'[q].pc \in {"issue", "update"} => req'[q] = req[q]
      BY <1>1, <1>2 DEF Swapping
    <2> QED
      BY <2>1, FilesSeen
  <1> QED
    BY <1>1, <1>6, <1>7, <1>8, <1>9, <1>10 DEF AdminInv

\* The import goes on to pc; what it carries stays.
Carried(r, new, pc, moved, faults) ==
    /\ new \in Swaps /\ Moves(r, new)
    /\ new.pc = pc /\ new.moved = moved /\ new.faults = faults
    /\ new.token = req[r].token /\ new.file = req[r].file /\ new.before = req[r].before

LEMMA CarriedOn ==
  ASSUME AdminInv, NEW r \in Callers, req[r].pc \in Swapping, NEW pc \in Swapping
  PROVE  /\ Step(r, pc) => \E new : Carried(r, new, pc, req[r].moved, req[r].faults)
         /\ Fault(r, pc) => \E new : Carried(r, new, pc, req[r].moved, req[r].faults + 1)
         /\ req' = [req EXCEPT ![r].pc = pc, ![r].moved = TRUE] =>
                \E new : Carried(r, new, pc, TRUE, req[r].faults)
         /\ req' = [req EXCEPT ![r].pc = pc, ![r].moved = TRUE, ![r].faults = @ + 1] =>
                \E new : Carried(r, new, pc, TRUE, req[r].faults + 1)
         /\ \A f \in Nat : req' = [req EXCEPT ![r].pc = pc, ![r].faults = f] =>
                \E new : Carried(r, new, pc, req[r].moved, f)
  <1>1. req[r] \in Swaps
    BY DEF AdminInv, RequestInv
  <1>2. ASSUME NEW moved \in BOOLEAN, NEW faults \in Nat,
               Moves(r, [pc |-> pc, token |-> req[r].token, file |-> req[r].file,
                         before |-> req[r].before, moved |-> moved, faults |-> faults])
        PROVE  \E new : Carried(r, new, pc, moved, faults)
    BY <1>1, <1>2 DEF Carried, Swaps
  <1>3. /\ req[r] = [pc |-> req[r].pc, token |-> req[r].token, file |-> req[r].file,
                     before |-> req[r].before, moved |-> req[r].moved, faults |-> req[r].faults]
        /\ req[r].moved \in BOOLEAN /\ req[r].faults \in Nat
    BY <1>1 DEF Swaps
  <1>4. DOMAIN req = Callers
    BY DEF AdminInv
  <1>5. Step(r, pc) => \E new : Carried(r, new, pc, req[r].moved, req[r].faults)
    BY <1>2, <1>3, <1>4 DEF Step, Moves
  <1>6. Fault(r, pc) => \E new : Carried(r, new, pc, req[r].moved, req[r].faults + 1)
    BY <1>2, <1>3, <1>4 DEF Fault, Moves
  <1>7. req' = [req EXCEPT ![r].pc = pc, ![r].moved = TRUE] =>
                \E new : Carried(r, new, pc, TRUE, req[r].faults)
    BY <1>2, <1>3, <1>4, ZenonT(60) DEF Moves
  <1>8. req' = [req EXCEPT ![r].pc = pc, ![r].moved = TRUE, ![r].faults = @ + 1] =>
                \E new : Carried(r, new, pc, TRUE, req[r].faults + 1)
    BY <1>2, <1>3, <1>4 DEF Moves
  <1>9. \A f \in Nat : req' = [req EXCEPT ![r].pc = pc, ![r].faults = f] =>
                \E new : Carried(r, new, pc, req[r].moved, f)
    BY <1>2, <1>3, <1>4 DEF Moves
  <1> QED
    BY <1>5, <1>6, <1>7, <1>8, <1>9

LEMMA ClearStep ==
  ASSUME AdminInv, NEW r \in Callers, ClearBackup(r)
  PROVE  AdminInv'
  <1>1. req[r].pc = "clear" /\ req[r].pc \in Swapping
    BY DEF ClearBackup, At, Swapping
  <1>2. live = req[r].before /\ opened /\ ~req[r].moved /\ req[r].faults = 0 /\ lines < MaxLines
    BY <1>1 DEF AdminInv, SwapInv
  <1>3. FilesInv' /\ lines' \in Nat /\ lines <= lines'
    <2>1. lines \in Nat /\ lines' = lines
      BY AdminAssumption DEF ClearBackup, AdminInv, FilesInv
    <2>2. FilesInv'
      BY <1>2 DEF ClearBackup, AdminInv, FilesInv, Good
    <2> QED
      BY <2>1, <2>2
  <1>4. \A db \in Held' : db \in Held
    BY DEF ClearBackup, Held
  <1>5. CASE opened' = FALSE /\ Step(r, "move")
    <2>1. PICK new : Carried(r, new, "move", req[r].moved, req[r].faults)
      BY <1>1, <1>5, CarriedOn DEF Swapping
    <2>2. req'[r] = new => SwapInv(req[r])'
      BY <1>2, <1>5, <2>1 DEF SwapInv, Carried, ClearBackup
    <2> QED
      BY <1>1, <1>3, <1>4, <2>1, <2>2, SwapStep DEF ClearBackup, Carried
  <1>6. CASE opened' = opened /\ Fault(r, "swapped")
    <2>1. PICK new : Carried(r, new, "swapped", req[r].moved, req[r].faults + 1)
      BY <1>1, <1>6, CarriedOn DEF Swapping
    <2>2. req'[r] = new => SwapInv(req[r])'
      BY <1>2, <1>6, <2>1 DEF SwapInv, Carried, ClearBackup
    <2> QED
      BY <1>1, <1>3, <1>4, <2>1, <2>2, SwapStep DEF ClearBackup, Carried
  <1>7. CASE opened' = FALSE /\ req' = [req EXCEPT ![r].pc = "swapped", ![r].faults = @ + 2]
    <2>0. req' = [req EXCEPT ![r].pc = "swapped", ![r].faults = 2]
      BY <1>2, <1>7
    <2>1. PICK new : Carried(r, new, "swapped", req[r].moved, 2)
      BY <1>1, <2>0, CarriedOn DEF Swapping
    <2>2. req'[r] = new => SwapInv(req[r])'
      BY <2>1 DEF SwapInv, Carried
    <2> QED
      BY <1>1, <1>3, <1>4, <2>1, <2>2, SwapStep DEF ClearBackup, Carried
  <1> QED
    BY <1>5, <1>6, <1>7 DEF ClearBackup

LEMMA MoveStep ==
  ASSUME AdminInv, NEW r \in Callers, MoveLive(r)
  PROVE  AdminInv'
  <1>1. req[r].pc = "move" /\ req[r].pc \in Swapping
    BY DEF MoveLive, At, Swapping
  <1>2. live = req[r].before /\ ~opened /\ ~req[r].moved /\ req[r].faults = 0 /\ lines < MaxLines
    BY <1>1 DEF AdminInv, SwapInv
  <1>3. FilesInv' /\ lines' \in Nat /\ lines <= lines'
    BY <1>2, AdminAssumption DEF MoveLive, AdminInv, FilesInv, Good
  <1>4. \A db \in Held' : db \in Held
    BY DEF MoveLive, Held
  <1>5. CASE backup' = live /\ live' = Absent /\ req' = [req EXCEPT ![r].pc = "install", ![r].moved = TRUE]
    <2>1. PICK new : Carried(r, new, "install", TRUE, req[r].faults)
      BY <1>1, <1>5, CarriedOn DEF Swapping
    <2>2. req'[r] = new => SwapInv(req[r])'
      BY <1>2, <1>5, <2>1 DEF SwapInv, Carried, MoveLive
    <2> QED
      BY <1>1, <1>3, <1>4, <2>1, <2>2, SwapStep DEF MoveLive, Carried
  <1>6. CASE /\ backup' = live /\ live' = Absent
             /\ req' = [req EXCEPT ![r].pc = "undo", ![r].moved = TRUE, ![r].faults = @ + 1]
    <2>1. PICK new : Carried(r, new, "undo", TRUE, req[r].faults + 1)
      BY <1>1, <1>6, CarriedOn DEF Swapping
    <2>2. req'[r] = new => SwapInv(req[r])'
      BY <1>2, <1>6, <2>1 DEF SwapInv, Carried, MoveLive
    <2> QED
      BY <1>1, <1>3, <1>4, <2>1, <2>2, SwapStep DEF MoveLive, Carried
  <1>7. CASE UNCHANGED <<live, backup>> /\ Fault(r, "undo")
    <2>1. PICK new : Carried(r, new, "undo", req[r].moved, req[r].faults + 1)
      BY <1>1, <1>7, CarriedOn DEF Swapping
    <2>2. req'[r] = new => SwapInv(req[r])'
      BY <1>2, <1>7, <2>1 DEF SwapInv, Carried, MoveLive
    <2> QED
      BY <1>1, <1>3, <1>4, <2>1, <2>2, SwapStep DEF MoveLive, Carried
  <1> QED
    BY <1>5, <1>6, <1>7 DEF MoveLive

\* The new file begins a line of its own.
LEMMA InstallStep ==
  ASSUME AdminInv, NEW r \in Callers, Install(r)
  PROVE  AdminInv'
  <1>1. req[r].pc = "install" /\ req[r].pc \in Swapping
    BY DEF Install, At, Swapping
  <1>2. /\ live = Absent /\ backup = req[r].before /\ ~opened /\ req[r].moved /\ req[r].faults = 0
        /\ lines < MaxLines /\ Good(req[r].file)
    BY <1>1 DEF AdminInv, SwapInv, RequestInv
  <1>3. lines \in Nat /\ lines + 1 \in 1 .. MaxLines /\ MaxLines \in Nat
    BY <1>2, AdminAssumption DEF AdminInv, FilesInv
  <1>4. CASE /\ live' = [req[r].file EXCEPT !.line = lines + 1] /\ lines' = lines + 1
             /\ Step(r, "open")
    <2>1. /\ live' \in Databases /\ live'.line = lines + 1 /\ live'.seq = req[r].file.seq
          /\ live'.admin = req[r].file.admin
      BY <1>2, <1>3, <1>4 DEF Good, Databases
    <2>2. Good(live)'
      BY <1>2, <1>3, <1>4, <2>1 DEF Install, Good
    <2>3. \A db \in Databases : db.line <= lines => db.line < lines' /\ db.line <= lines'
      BY <1>3, <1>4, AdminAssumption DEF Databases
    <2>4. \A db \in {backup', export'} : db # Absent => Good(db)' /\ db.line < lines'
      BY <2>3 DEF Install, AdminInv, FilesInv, Good
    <2>5. FilesInv'
      <3>1. \A db \in {live', backup', export'} : db # Absent => Good(db)'
        BY <2>2, <2>4 DEF Good
      <3>2. live'.line # backup'.line \/ backup' = Absent
        BY <1>3, <1>4, <2>1, <2>4, AdminAssumption DEF Good, Databases
      <3> QED
        BY <1>2, <1>3, <1>4, <3>1, <3>2 DEF Install, AdminInv, FilesInv, Good
    <2>6. \A db \in Held' : db \in Held \/ db.line > lines
      BY <1>3, <2>1 DEF Held, Install
    <2>7. PICK new : Carried(r, new, "open", req[r].moved, req[r].faults)
      BY <1>1, <1>4, CarriedOn DEF Swapping
    <2>8. req'[r] = new => SwapInv(req[r])'
      BY <1>2, <1>4, <2>7 DEF SwapInv, Carried, Install
    <2> QED
      BY <1>1, <1>3, <1>4, <2>5, <2>6, <2>7, <2>8, SwapStep DEF Install, Carried
  <1>5. CASE UNCHANGED <<live, lines>> /\ Fault(r, "undo")
    <2>1. FilesInv'
      BY <1>5 DEF Install, AdminInv, FilesInv, Good
    <2>2. \A db \in Held' : db \in Held
      BY <1>5 DEF Held, Install
    <2>3. PICK new : Carried(r, new, "undo", req[r].moved, req[r].faults + 1)
      BY <1>1, <1>5, CarriedOn DEF Swapping
    <2>4. req'[r] = new => SwapInv(req[r])'
      <3>1. /\ new.pc = "undo" /\ new.moved /\ new.faults = 1 /\ new.before = req[r].before
            /\ backup' = req[r].before
        BY <1>2, <2>3 DEF Carried, Install
      <3> QED
        BY <3>1 DEF SwapInv
    <2> QED
      BY <1>1, <1>3, <1>5, <2>1, <2>2, <2>3, <2>4, SwapStep DEF Install, Carried
  <1> QED
    BY <1>4, <1>5 DEF Install

LEMMA OpenStep ==
  ASSUME AdminInv, NEW r \in Callers, OpenImported(r)
  PROVE  AdminInv'
  <1>1. req[r].pc = "open" /\ req[r].pc \in Swapping
    BY DEF OpenImported, At, Swapping
  <1>2. /\ live = [req[r].file EXCEPT !.line = lines] /\ req[r].moved /\ req[r].faults = 0
        /\ backup = req[r].before /\ ~opened /\ req[r].file \in Databases
    BY <1>1 DEF AdminInv, SwapInv, RequestInv, Good
  <1>3. lines \in Nat /\ lines' = lines /\ lines \in 1 .. MaxLines
    BY AdminAssumption DEF AdminInv, FilesInv, OpenImported
  <1>4. live # Absent
    BY <1>2, <1>3, AdminAssumption DEF Databases
  <1>5. FilesInv'
    BY <1>4 DEF OpenImported, AdminInv, FilesInv, Good
  <1>6. \A db \in Held' : db \in Held
    BY DEF OpenImported, Held
  <1>7. CASE opened' = TRUE /\ Step(r, "tidy")
    <2>1. PICK new : Carried(r, new, "tidy", req[r].moved, req[r].faults)
      BY <1>1, <1>7, CarriedOn DEF Swapping
    <2>2. req'[r] = new => SwapInv(req[r])'
      BY <1>2, <1>7, <2>1 DEF SwapInv, Carried, OpenImported
    <2> QED
      BY <1>1, <1>3, <1>5, <1>6, <2>1, <2>2, SwapStep DEF OpenImported, Carried
  <1>8. CASE Fault(r, "undo")
    <2>1. PICK new : Carried(r, new, "undo", req[r].moved, req[r].faults + 1)
      BY <1>1, <1>8, CarriedOn DEF Swapping
    <2>2. req'[r] = new => SwapInv(req[r])'
      <3>1. /\ new.pc = "undo" /\ new.moved /\ new.faults = 1 /\ new.before = req[r].before
            /\ backup' = req[r].before
        BY <1>2, <2>1 DEF Carried, OpenImported
      <3> QED
        BY <3>1 DEF SwapInv
    <2> QED
      BY <1>1, <1>3, <1>5, <1>6, <2>1, <2>2, SwapStep DEF OpenImported, Carried
  <1> QED
    BY <1>7, <1>8 DEF OpenImported

LEMMA TidyStep ==
  ASSUME AdminInv, NEW r \in Callers, Tidy(r)
  PROVE  AdminInv'
  <1>1. req[r].pc = "tidy" /\ req[r].pc \in Swapping
    BY DEF Tidy, At, Swapping
  <1>2. /\ live = [req[r].file EXCEPT !.line = lines] /\ req[r].moved /\ req[r].faults = 0
        /\ opened /\ req[r].file \in Databases
    BY <1>1 DEF AdminInv, SwapInv, RequestInv, Good
  <1>3. lines \in Nat /\ lines' = lines
    BY AdminAssumption DEF AdminInv, FilesInv, Tidy
  <1>4. live = [req[r].file EXCEPT !.line = live.line]
    BY <1>2 DEF Databases
  <1>5. FilesInv'
    BY DEF Tidy, AdminInv, FilesInv, Good
  <1>6. \A db \in Held' : db \in Held
    BY DEF Tidy, Held
  <1>7. ASSUME NEW faults, \E new : Carried(r, new, "swapped", req[r].moved, faults) PROVE AdminInv'
    <2>1. PICK new : Carried(r, new, "swapped", req[r].moved, faults)
      BY <1>7
    <2>2. req'[r] = new => SwapInv(req[r])'
      BY <1>2, <1>4, <2>1 DEF SwapInv, Carried, Tidy
    <2> QED
      BY <1>1, <1>3, <1>5, <1>6, <2>1, <2>2, SwapStep DEF Tidy, Carried
  <1>8. "swapped" \in Swapping
    BY DEF Swapping
  <1> QED
    BY <1>1, <1>7, <1>8, CarriedOn DEF Tidy

LEMMA UndoStep ==
  ASSUME AdminInv, NEW r \in Callers, Undo(r)
  PROVE  AdminInv'
  <1>1. req[r].pc = "undo" /\ req[r].pc \in Swapping /\ "putback" \in Swapping
    BY DEF Undo, At, Swapping
  <1>2. /\ req[r].faults > 0 /\ (req[r].moved => backup = req[r].before)
        /\ (~req[r].moved => live = req[r].before) /\ req[r].faults \in Nat
    BY <1>1 DEF AdminInv, SwapInv, RequestInv, Swaps
  <1>3. lines \in Nat /\ lines' = lines
    BY AdminAssumption DEF AdminInv, FilesInv, Undo
  <1>4. live' \in {live, Absent} /\ (~req[r].moved => live' = live)
    BY DEF Undo, ToRestore
  <1>5. FilesInv'
    BY <1>4 DEF Undo, AdminInv, FilesInv, Good
  <1>6. \A db \in Held' : db \in Held
    BY <1>4 DEF Undo, Held
  <1>7. ASSUME NEW faults \in Nat, faults > 0, \E new : Carried(r, new, "putback", req[r].moved, faults)
        PROVE AdminInv'
    <2>1. PICK new : Carried(r, new, "putback", req[r].moved, faults)
      BY <1>7
    <2>2. req'[r] = new => SwapInv(req[r])'
      BY <1>2, <1>4, <1>7, <2>1 DEF SwapInv, Carried, Undo
    <2> QED
      BY <1>1, <1>3, <1>5, <1>6, <2>1, <2>2, SwapStep DEF Undo, Carried
  <1>8. req[r].faults + 1 \in Nat /\ req[r].faults + 1 > 0
    BY <1>2
  <1>9. Step(r, "putback") \/ Fault(r, "putback")
    BY DEF Undo
  <1> QED
    BY <1>1, <1>2, <1>7, <1>8, <1>9, CarriedOn

\* The old database comes back from the backup, or was never moved; a fresh one is
\* created only after a second fault.
LEMMA PutBackStep ==
  ASSUME AdminInv, NEW r \in Callers, PutBack(r)
  PROVE  AdminInv'
  <1>1. req[r].pc = "putback" /\ req[r].pc \in Swapping
    BY DEF PutBack, At, Swapping
  <1>2. /\ req[r].faults > 0 /\ (req[r].moved => backup = req[r].before)
        /\ (~req[r].moved => live = req[r].before)
        /\ req[r] \in Swaps /\ req[r].before \in Databases /\ req[r].before # Absent
    BY <1>1, AdminAssumption DEF AdminInv, SwapInv, RequestInv, Swaps
  <1>3. lines \in Nat /\ lines \in 1 .. MaxLines /\ MaxLines \in Nat /\ req[r].faults \in Nat
    BY <1>2, AdminAssumption DEF AdminInv, FilesInv, Swaps
  <1>4. PICK back \in BOOLEAN, open \in BOOLEAN :
            /\ LET file == IF ToRestore(r) /\ back THEN backup ELSE live
               IN  /\ backup' = IF ToRestore(r) /\ back THEN Absent ELSE backup
                   /\ file = Absent => lines < MaxLines
                   /\ live' = IF file = Absent THEN Fresh(lines + 1) ELSE file
                   /\ lines' = IF file = Absent THEN lines + 1 ELSE lines
            /\ opened' = open
            /\ req' = [req EXCEPT ![r].pc = "swapped",
                                  ![r].faults = IF back /\ open THEN @ ELSE @ + 1]
    BY DEF PutBack
  <1> DEFINE faults == IF back /\ open THEN req[r].faults ELSE req[r].faults + 1
  <1>5. faults \in Nat
    BY <1>3
  <1>6. PICK new : Carried(r, new, "swapped", req[r].moved, faults)
    <2>1. req' = [req EXCEPT ![r].pc = "swapped", ![r].faults = faults]
      BY <1>4
    <2>2. "swapped" \in Swapping
      BY DEF Swapping
    <2> HIDE DEF faults
    <2> QED
      BY <1>1, <1>5, <2>1, <2>2, CarriedOn
  <1>7. /\ new.pc = "swapped" /\ new.faults = faults /\ new.token = req[r].token /\ new \in Swaps
        /\ new.file = req[r].file /\ new.before = req[r].before /\ Moves(r, new)
    BY <1>6 DEF Carried
  <1>8. UNCHANGED <<export, born, tokenVars, mu, sessions>>
    BY DEF PutBack
  <1>9. CASE live' = Fresh(lines + 1) /\ lines' = lines + 1 /\ lines < MaxLines /\ backup' = backup
             /\ ~(back /\ open)
    <2>1. /\ live' \in Databases /\ live'.line = lines + 1 /\ live'.seq = 0 /\ live'.admin = NoAdmin
          /\ lines + 1 \in 1 .. MaxLines /\ live' # Absent
      BY <1>3, <1>9, AdminAssumption DEF Fresh, Databases
    <2>2. \A db \in Databases : db.line <= lines => db.line < lines' /\ db.line <= lines'
      BY <1>3, <1>9, AdminAssumption DEF Databases
    <2>3. \A db \in {backup', export'} : db # Absent => Good(db)' /\ db.line < lines'
      BY <1>9, <2>2 DEF PutBack, AdminInv, FilesInv, Good
    <2>4. Good(live)'
      BY <1>3, <1>9, <2>1, AdminAssumption DEF Good, AdminInv, FilesInv, PutBack
    <2>5. live'.line # backup'.line \/ backup' = Absent
      BY <1>3, <1>9, <2>1, <2>3, AdminAssumption DEF Good, Databases
    <2>6. \A db \in {live', backup', export'} : db # Absent => Good(db)'
      BY <2>3, <2>4 DEF Good
    <2>7. FilesInv'
      BY <1>4, <1>9, <2>1, <2>5, <2>6 DEF PutBack, AdminInv, FilesInv, Good
    <2>8. \A db \in Held' : db \in Held \/ db.line > lines
      BY <1>3, <1>9, <2>1 DEF Held
    <2>9. faults > 1
      BY <1>2, <1>3, <1>9
    <2>10. req'[r] = new => SwapInv(req[r])'
      BY <1>5, <1>7, <2>9 DEF SwapInv
    <2> QED
      <3>1. lines' \in Nat /\ lines <= lines'
        BY <1>3, <1>9
      <3> QED
        BY <1>1, <1>7, <1>8, <2>7, <2>8, <2>10, <3>1, SwapStep
  <1>10. CASE /\ lines' = lines /\ live' # Absent
              /\ \/ live' = backup /\ backup' = Absent /\ req[r].moved
                 \/ live' = live /\ backup' = backup /\ (~req[r].moved \/ ~back)
    <2>1. FilesInv'
      BY <1>4, <1>10 DEF PutBack, AdminInv, FilesInv, Good
    <2>2. \A db \in Held' : db \in Held \/ db.line > lines
      BY <1>10 DEF Held
    <2>3. faults <= 1 => opened' /\ live' = req[r].before
      BY <1>2, <1>3, <1>4, <1>10
    <2>4. req'[r] = new => SwapInv(req[r])'
      BY <1>7, <2>3 DEF SwapInv
    <2> QED
      <3>1. lines' \in Nat /\ lines <= lines'
        BY <1>3, <1>10
      <3> QED
        BY <1>1, <1>7, <1>8, <2>1, <2>2, <2>4, <3>1, SwapStep
  <1>11. req[r].moved \in BOOLEAN
    BY <1>2 DEF Swaps
  <1> QED
    BY <1>2, <1>4, <1>9, <1>10, <1>11 DEF ToRestore, Fresh

LEMMA UnlockStep ==
  ASSUME AdminInv, NEW r \in Callers, Unlock(r)
  PROVE  AdminInv'
  <1>1. Moves(r, Ready) /\ Ready.pc = "idle"
    BY DEF Unlock, Answer, Then, Moves, Ready
  <1>2. RequestInv(Ready)
    BY <1>1 DEF RequestInv, Points, Swapping
  <1>3. SeenInv'
    BY <1>1, NothingSeen DEF Unlock
  <1> QED
    BY <1>1, <1>2, <1>3, QuietStep DEF Unlock, At, Swapping

-----------------------------------------------------------------------------
(* The steps under the shared lease that write the database or a token. *)

LEMMA CalmStep ==
  ASSUME AdminInv, NEW r \in Callers, NEW new, Moves(r, new), LeaseFree, new.pc \notin Swapping,
         UNCHANGED <<lines, mu>>, born' \in Nat, born <= born', known \subseteq known',
         FilesInv', TokenInv', SeenInv', req'[r] = new => RequestInv(req[r])'
  PROVE  AdminInv'
  <1>1. /\ DOMAIN req' = Callers /\ req' = [q \in Callers |-> req'[q]]
        /\ req'[r] = new /\ \A q \in Callers \ {r} : req'[q] = req[q]
    BY MovesOne DEF AdminInv
  <1>2. \A q \in Callers : req'[q].pc \notin Swapping
    BY <1>1 DEF LeaseFree
  <1>3. \A db : Good(db) => Good(db)'
    <2> SUFFICES ASSUME NEW db, Good(db) PROVE Good(db)'
      OBVIOUS
    <2>1. db.seq \in Nat /\ born \in Nat
      BY AdminAssumption DEF Good, Databases, AdminInv, FilesInv
    <2> QED
      BY <2>1 DEF Good
  <1>4. ASSUME NEW q \in Callers PROVE RequestInv(req[q])'
    <2>1. CASE q = r
      BY <1>1, <2>1
    <2>2. CASE q # r
      <3>1. RequestInv(req[q]) /\ req'[q] = req[q] /\ req[q].pc \notin Swapping
        BY <1>1, <2>2 DEF AdminInv, LeaseFree
      <3> QED
        BY <1>3, <3>1 DEF RequestInv, Good
    <2> QED
      BY <2>1, <2>2
  <1>5. \A q \in Callers : SwapInv(req[q])'
    BY <1>2 DEF SwapInv, Swapping
  <1>6. LockInv'
    BY <1>2 DEF AdminInv, LockInv
  <1> QED
    BY <1>1, <1>4, <1>5, <1>6 DEF AdminInv

\* The live database is written and its line stays: what was read agrees with the new
\* content if it agreed with the old one.
LEMMA LiveSeen ==
  ASSUME AdminInv, NEW r \in Callers, NEW new, Moves(r, new), new.pc \notin {"issue", "update"},
         UNCHANGED <<backup, lines, sessions>>, live # Absent, live' # Absent, live'.line = live.line,
         \A row \in Admins \cup JWTs : \A line : Agrees(live, row, line) => Agrees(live', row, line)
  PROVE  SeenInv'
  <1>1. req'[r] = new /\ \A q \in Callers \ {r} : req'[q] = req[q]
    BY MovesOne DEF AdminInv
  <1>2. live \in Held
    BY DEF Held
  <1>3. \A db \in Held' : db = live' \/ db \in Held
    BY DEF Held
  <1>4. sessions' \subseteq JWTs /\ \A s \in sessions' : s.line <= lines'
    BY DEF AdminInv, SeenInv
  <1>5. \A db \in Held', s \in sessions' : Agrees(db, s, s.line)
    BY <1>2, <1>3 DEF AdminInv, SeenInv
  <1>6. ASSUME NEW db \in Held', NEW q \in Callers, req'[q].pc \in {"issue", "update"}
        PROVE  Agrees(db, req'[q].row, req'[q].line)
    <2>1. req'[q] = req[q] /\ req[q].row \in Admins
      BY <1>1, <1>6 DEF AdminInv, RequestInv
    <2> QED
      BY <1>2, <1>3, <1>6, <2>1 DEF AdminInv, SeenInv
  <1> QED
    BY <1>4, <1>5, <1>6 DEF SeenInv, Agrees

\* A token that App accepts is the newest, and no reset has a newer one to publish.
LEMMA AcceptedToken ==
  ASSUME AdminInv, NEW r \in Callers, req[r].pc \in {"setup", "import"}, setupTokenValid(req[r].token)
  PROVE  req[r].token = tokens /\ \A q \in Callers : req[q].pc # "publish"
  <1>1. req[r].token \in known
    BY DEF AdminInv, RequestInv, setupTokenValid
  <1>2. req[r].token = tokens
    BY DEF AdminInv, TokenInv, setupTokenValid
  <1> QED
    BY <1>1, <1>2 DEF AdminInv, TokenInv, At

\* The new administrator's id is one that no row of this line ever had.
LEMMA SetupStep ==
  ASSUME AdminInv, NEW r \in Callers, SetupWithToken(r)
  PROVE  AdminInv'
  <1>1. req[r].pc = "setup" /\ req[r].pc \notin Swapping /\ LeaseFree
    BY DEF SetupWithToken, At, Swapping
  <1>2. CASE Answer(r) /\ UNCHANGED <<live, born>>
    BY <1>1, <1>2, AnswerStep DEF SetupWithToken, files
  <1>3. ASSUME opened, ~IsConfigured, setupTokenValid(req[r].token), born < MaxAdmins,
               NEW pw \in Passwords, live' = NewAdmin(pw), born' = born + 1,
               Then(r, [pc |-> "auth"]) \/ Answer(r)
        PROVE  AdminInv'
    <2>1. /\ live # Absent /\ Good(live) /\ live.admin = NoAdmin
          /\ live.seq \in Nat /\ born \in Nat /\ live.seq <= born /\ MaxAdmins \in Nat
      BY <1>3, AdminAssumption DEF AdminInv, FilesInv, Good, Databases, IsConfigured, HasAdmin
    <2> DEFINE a == [id |-> live.seq + 1, ver |-> 0, pw |-> pw, born |-> born + 1]
    <2>2. a \in Admins /\ a.id = live.seq + 1
      BY <1>3, <2>1, AdminAssumption DEF Admins
    <2>3. live \in Databases /\ live.line <= lines
      BY <2>1 DEF Good
    <2>4. live' = [live EXCEPT !.seq = live.seq + 1, !.admin = a]
      BY <1>3 DEF NewAdmin
    <2> HIDE DEF a
    <2>5. /\ live' \in Databases /\ live'.line = live.line /\ live'.seq = live.seq + 1 /\ live'.admin = a
          /\ live' # Absent
      <3>1. live.seq + 1 \in 0 .. MaxAdmins
        BY <1>3, <2>1
      <3>2. PICK db \in Databases, n \in 0 .. MaxAdmins : db = live /\ n = live.seq + 1
        BY <2>3, <3>1
      <3>3. live' = [db EXCEPT !.seq = n, !.admin = a]
        BY <2>4, <3>2
      <3>4. live' \in Databases /\ live'.line = db.line /\ live'.seq = n /\ live'.admin = a
        BY <2>2, <3>3 DEF Databases
      <3> QED
        BY <3>2, <3>4, AdminAssumption
    <2>6. Good(live)'
      BY <1>3, <2>1, <2>2, <2>3, <2>5 DEF Good, SetupWithToken
    <2>7. \A db \in {backup', export'} : db # Absent => Good(db)'
      BY <1>3, <2>1, AdminAssumption DEF AdminInv, FilesInv, Good, Databases, SetupWithToken
    <2>8. FilesInv'
      <3>1. \A db \in {live', backup', export'} : db # Absent => Good(db)'
        BY <2>6, <2>7 DEF Good
      <3> QED
        BY <1>3, <2>1, <2>5, <3>1 DEF AdminInv, FilesInv, Good, SetupWithToken
    <2>9. PICK new : Moves(r, new) /\ new.pc \in {"auth", "idle"}
      <3>1. Moves(r, [pc |-> "auth"]) \/ Moves(r, Ready)
        BY <1>3 DEF Then, Moves, Answer
      <3>2. [pc |-> "auth"].pc = "auth" /\ Ready.pc = "idle"
        BY DEF Ready
      <3> QED
        BY <3>1, <3>2
    <2>10. req'[r] = new /\ \A q \in Callers \ {r} : req'[q] = req[q]
      BY <2>9, MovesOne DEF AdminInv
    <2>11. \A q \in Callers : req'[q].pc # "publish"
      BY <1>1, <1>3, <2>9, <2>10, AcceptedToken
    <2>12. TokenInv'
      BY <2>11 DEF AdminInv, TokenInv, At, SetupWithToken, tokenVars
    <2>13. ASSUME NEW row \in Admins \cup JWTs, NEW line, Agrees(live, row, line)
           PROVE  Agrees(live', row, line)
      <3>1. row.id \in Nat
        BY AdminAssumption DEF Admins, JWTs
      <3> QED
        BY <2>1, <2>2, <2>5, <2>13, <3>1 DEF Agrees
    <2>14. SeenInv'
      BY <2>1, <2>5, <2>9, <2>13, LiveSeen DEF SetupWithToken
    <2>15. req'[r] = new => RequestInv(req[r])'
      BY <2>9 DEF RequestInv, Points, Swapping
    <2>16. born' \in Nat /\ born <= born' /\ known' = known /\ UNCHANGED <<lines, mu>>
      BY <1>3, <2>1 DEF SetupWithToken, tokenVars
    <2> QED
      BY <1>1, <2>8, <2>9, <2>12, <2>14, <2>15, <2>16, CalmStep DEF Swapping
  <1> QED
    BY <1>2, <1>3 DEF SetupWithToken

\* A higher version; the administrator stays the one that rows of the line mean.
LEMMA UpdateStep ==
  ASSUME AdminInv, NEW r \in Callers, UpdateAdminPassword(r)
  PROVE  AdminInv'
  <1>1. req[r].pc = "update" /\ req[r].pc \notin Swapping /\ LeaseFree
    BY DEF UpdateAdminPassword, At, Swapping
  <1>2. CASE live' = live
    BY <1>1, <1>2, AnswerStep DEF UpdateAdminPassword, files
  <1>3. ASSUME Updates(r), NEW pw \in Passwords,
               live' = [live EXCEPT !.admin.pw = pw, !.admin.ver = @ + 1]
        PROVE  AdminInv'
    <2>1. /\ live # Absent /\ Good(live) /\ live \in Databases /\ live.admin \in Admins
          /\ live.admin.ver < MaxVersion
      BY <1>3, AdminAssumption
         DEF UpdateAdminPassword, Updates, AdminInv, FilesInv, Good, Databases, IsConfigured, HasAdmin
    <2> DEFINE a == [live.admin EXCEPT !.pw = pw, !.ver = @ + 1]
    <2>2. /\ a \in Admins /\ a.id = live.admin.id /\ a.born = live.admin.born
          /\ a.ver = live.admin.ver + 1 /\ live.admin.ver \in Nat
      <3>1. live.admin.ver \in Nat /\ live.admin.ver + 1 \in 0 .. MaxVersion
        BY <2>1, AdminAssumption DEF Admins
      <3>2. PICK x \in Admins, n \in 0 .. MaxVersion : x = live.admin /\ n = live.admin.ver + 1
        BY <2>1, <3>1
      <3>3. a = [x EXCEPT !.pw = pw, !.ver = n]
        BY <3>2 DEF Admins
      <3> HIDE DEF a
      <3>4. a \in Admins /\ a.id = x.id /\ a.born = x.born /\ a.ver = n
        BY <1>3, <3>3 DEF Admins
      <3> QED
        BY <3>1, <3>2, <3>4
    <2>3. live' = [live EXCEPT !.admin = a]
      BY <1>3, <2>1 DEF Databases
    <2> HIDE DEF a
    <2>4. /\ live' \in Databases /\ live'.line = live.line /\ live'.seq = live.seq /\ live'.admin = a
          /\ live' # Absent /\ a # NoAdmin /\ live.admin # NoAdmin
      BY <2>1, <2>2, <2>3, AdminAssumption DEF Databases
    <2>5. Good(live)'
      BY <2>1, <2>2, <2>4 DEF Good, UpdateAdminPassword
    <2>6. FilesInv'
      <3>1. \A db \in {live', backup', export'} : db # Absent => Good(db)'
        BY <2>5 DEF AdminInv, FilesInv, Good, UpdateAdminPassword
      <3> QED
        BY <2>1, <2>4, <3>1 DEF AdminInv, FilesInv, Good, UpdateAdminPassword
    <2>7. Moves(r, Ready) /\ Ready.pc = "idle"
      BY DEF UpdateAdminPassword, Answer, Then, Moves, Ready
    <2>8. req'[r] = Ready /\ \A q \in Callers \ {r} : req'[q] = req[q]
      BY <2>7, MovesOne DEF AdminInv
    <2>9. \A q \in Callers : req'[q].pc # "publish"
      BY <2>1, <2>4, <2>7, <2>8 DEF AdminInv, TokenInv, At, HasAdmin
    <2>10. TokenInv'
      BY <2>9 DEF AdminInv, TokenInv, At, UpdateAdminPassword, tokenVars
    <2>11. ASSUME NEW row \in Admins \cup JWTs, NEW line, Agrees(live, row, line)
           PROVE  Agrees(live', row, line)
      <3>1. row.ver \in Nat
        BY AdminAssumption DEF Admins, JWTs
      <3> QED
        BY <2>2, <2>4, <2>11, <3>1 DEF Agrees
    <2>12. SeenInv'
      BY <2>1, <2>4, <2>7, <2>11, LiveSeen DEF UpdateAdminPassword
    <2>13. req'[r] = Ready => RequestInv(req[r])'
      BY <2>7 DEF RequestInv, Points, Swapping
    <2>14. born' \in Nat /\ born <= born' /\ known' = known /\ UNCHANGED <<lines, mu>>
      BY AdminAssumption DEF UpdateAdminPassword, tokenVars, AdminInv, FilesInv
    <2> QED
      BY <1>1, <2>6, <2>7, <2>10, <2>12, <2>13, <2>14, CalmStep DEF Swapping
  <1> QED
    BY <1>2, <1>3 DEF UpdateAdminPassword

\* App holds controlMu and the lease; the hub is unconfigured and the token the newest.
LEMMA ImportStep ==
  ASSUME AdminInv, NEW r \in Callers, ImportDatabase(r)
  PROVE  AdminInv'
  <1>1. req[r].pc = "import" /\ req[r].pc \notin Swapping /\ LeaseFree /\ mu = 0
    BY DEF ImportDatabase, At, Swapping
  <1>2. UNCHANGED <<files, tokenVars, sessions>>
    BY DEF ImportDatabase
  <1>3. CASE Answer(r) /\ UNCHANGED mu
    BY <1>1, <1>2, <1>3, AnswerStep
  <1> DEFINE new == [pc |-> "clear", token |-> req[r].token, file |-> req[r].file,
                     before |-> live, moved |-> FALSE, faults |-> 0]
  <1>4. CASE MayImport(r) /\ lines < MaxLines /\ mu' = r /\ Then(r, new)
    <2>1. Good(req[r].file) /\ req[r].token \in Nat
      BY <1>1 DEF AdminInv, RequestInv, TokenInv
    <2>2. live \in Databases /\ live.admin = NoAdmin /\ opened
      BY <1>4, AdminAssumption DEF MayImport, IsConfigured, HasAdmin, AdminInv, FilesInv, Good
    <2>3. req[r].token = tokens /\ \A q \in Callers : req[q].pc # "publish"
      BY <1>1, <1>4, AcceptedToken DEF MayImport
    <2>4. /\ new \in Swaps /\ new.pc = "clear" /\ new.token = req[r].token /\ new.file = req[r].file
          /\ new.before = live /\ ~new.moved /\ new.faults = 0
      BY <2>1, <2>2 DEF Swaps, Swapping, Good
    <2>5. Moves(r, new)
      BY <1>4 DEF Then, Moves
    <2> HIDE DEF new
    <2>6. /\ DOMAIN req' = Callers /\ req' = [q \in Callers |-> req'[q]]
          /\ req'[r] = new /\ \A q \in Callers \ {r} : req'[q] = req[q]
      BY <2>5, MovesOne DEF AdminInv
    <2>7. FilesInv'
      BY <1>2 DEF AdminInv, FilesInv, Good, files
    <2>8. \A q \in Callers : RequestInv(req[q])'
      BY <1>2, <2>1, <2>2, <2>3, <2>4, <2>6
         DEF AdminInv, RequestInv, Good, Points, Swapping, files, tokenVars
    <2>9. \A q \in Callers \ {r} : req[q].pc \notin Swapping
      BY <1>1 DEF LeaseFree
    <2>10. \A q \in Callers : SwapInv(req[q])'
      <3>1. SwapInv(req[r])'
        BY <1>2, <1>4, <2>2, <2>4, <2>6 DEF SwapInv, files
      <3>2. \A q \in Callers \ {r} : SwapInv(req[q])'
        BY <2>6, <2>9 DEF SwapInv, Swapping
      <3> QED
        BY <3>1, <3>2
    <2>11. LockInv'
      BY <1>4, <2>6, <2>9 DEF LockInv
    <2>12. \A q \in Callers : req'[q].pc # "publish"
      BY <2>3, <2>4, <2>6
    <2>13. TokenInv'
      BY <1>2, <2>12 DEF AdminInv, TokenInv, At, tokenVars
    <2>14. SeenInv'
      BY <1>2, <2>4, <2>5, NothingSeen
    <2> QED
      BY <2>6, <2>7, <2>8, <2>10, <2>11, <2>13, <2>14 DEF AdminInv
  <1> QED
    BY <1>3, <1>4 DEF ImportDatabase

\* The new token is nobody's until it is published.
LEMMA ResetStep ==
  ASSUME AdminInv, NEW r \in Callers, ResetWithAdminPassword(r)
  PROVE  AdminInv'
  <1>1. req[r].pc = "reset" /\ req[r].pc \notin Swapping /\ LeaseFree
    BY DEF ResetWithAdminPassword, At, Swapping
  <1>2. CASE Answer(r) /\ UNCHANGED <<live, tokens, appToken>>
    BY <1>1, <1>2, AnswerStep DEF ResetWithAdminPassword, files, tokenVars
  <1> DEFINE new == [pc |-> "publish", token |-> tokens + 1]
  <1>3. CASE /\ IsConfigured /\ tokens < MaxTokens /\ live' = [live EXCEPT !.admin = NoAdmin]
             /\ tokens' = tokens + 1 /\ appToken' = tokens + 1 /\ Then(r, new)
    <2>1. /\ live # Absent /\ Good(live) /\ live \in Databases /\ HasAdmin(live)
          /\ tokens \in Nat /\ MaxTokens \in Nat /\ born \in Nat
      BY <1>3, AdminAssumption DEF AdminInv, FilesInv, TokenInv, Good, IsConfigured, HasAdmin
    <2>2. /\ live' \in Databases /\ live'.line = live.line /\ live'.seq = live.seq
          /\ live'.admin = NoAdmin /\ live' # Absent
      BY <1>3, <2>1, AdminAssumption DEF Databases
    <2>3. FilesInv'
      <3>1. \A db \in {live', backup', export'} : db # Absent => Good(db)'
        BY <2>1, <2>2 DEF AdminInv, FilesInv, Good, ResetWithAdminPassword
      <3> QED
        BY <2>1, <2>2, <3>1 DEF AdminInv, FilesInv, Good, ResetWithAdminPassword
    <2>4. Moves(r, new) /\ new.pc = "publish" /\ new.token = tokens + 1
      BY <1>3 DEF Then, Moves
    <2> HIDE DEF new
    <2>5. req'[r] = new /\ \A q \in Callers \ {r} : req'[q] = req[q]
      BY <2>4, MovesOne DEF AdminInv
    <2>6. \A q \in Callers \ {r} : req'[q].pc # "publish"
      BY <2>1, <2>5 DEF AdminInv, TokenInv, At
    <2>7. LeaseFree'
      BY <1>1, <2>4, <2>5 DEF LeaseFree, Swapping
    <2>8. ~HasAdmin(live)'
      BY <2>2 DEF HasAdmin
    <2>9. /\ tokens' \in 1 .. MaxTokens /\ known' \subseteq 1 .. tokens' /\ tokens' \notin known'
          /\ serverToken' \in 0 .. tokens'
      BY <1>3, <2>1 DEF AdminInv, TokenInv, ResetWithAdminPassword
    <2>10. TokenInv'
      BY <1>3, <2>4, <2>5, <2>6, <2>7, <2>8, <2>9 DEF TokenInv, At
    <2>11. \A row \in Admins \cup JWTs : \A line : Agrees(live, row, line) => Agrees(live', row, line)
      BY <2>2 DEF Agrees
    <2>12. SeenInv'
      BY <2>1, <2>2, <2>4, <2>11, LiveSeen DEF ResetWithAdminPassword
    <2>13. req'[r] = new => RequestInv(req[r])'
      BY <2>4 DEF RequestInv, Points, Swapping
    <2> QED
      BY <1>1, <2>1, <2>3, <2>4, <2>10, <2>12, <2>13, CalmStep DEF Swapping, ResetWithAdminPassword
  <1> QED
    BY <1>2, <1>3 DEF ResetWithAdminPassword

LEMMA PublishStep ==
  ASSUME AdminInv, NEW r \in Callers, setSetupToken(r)
  PROVE  AdminInv'
  <1>1. /\ req[r].pc = "publish" /\ req[r].token = tokens /\ LeaseFree
        /\ \A q \in Callers : req[q].pc = "publish" => q = r
    BY DEF setSetupToken, At, AdminInv, TokenInv
  <1>2. Moves(r, Ready) /\ Ready.pc = "idle"
    BY DEF setSetupToken, Answer, Then, Moves, Ready
  <1>3. req'[r] = Ready /\ \A q \in Callers \ {r} : req'[q] = req[q]
    BY <1>2, MovesOne DEF AdminInv
  <1>4. FilesInv'
    BY DEF setSetupToken, AdminInv, FilesInv, Good, files
  <1>5. \A q \in Callers : req'[q].pc # "publish"
    BY <1>1, <1>2, <1>3
  <1>6. TokenInv'
    BY <1>1, <1>5 DEF setSetupToken, AdminInv, TokenInv, At
  <1>7. SeenInv'
    BY <1>2, NothingSeen DEF setSetupToken
  <1>8. req'[r] = Ready => RequestInv(req[r])'
    BY <1>2 DEF RequestInv, Points, Swapping
  <1>9. born' \in Nat /\ born <= born' /\ known \subseteq known' /\ UNCHANGED <<lines, mu>>
    BY AdminAssumption DEF setSetupToken, AdminInv, FilesInv, files
  <1> QED
    BY <1>1, <1>2, <1>4, <1>6, <1>7, <1>8, <1>9, CalmStep DEF Swapping

\* A process that starts again has no requests; sessions outlive it.
LEMMA RestartStep ==
  ASSUME AdminInv, Restart
  PROVE  AdminInv'
  <1>1. Ready.pc = "idle"
    BY DEF Ready
  <1>2. DOMAIN req' = Callers /\ req' = [q \in Callers |-> req'[q]] /\ \A q \in Callers : req'[q].pc = "idle"
    BY <1>1 DEF Restart
  <1>3. lines \in Nat /\ MaxLines \in Nat /\ lines \in 1 .. MaxLines /\ born \in Nat
    BY AdminAssumption DEF AdminInv, FilesInv
  <1>4. FilesInv' /\ lines' \in Nat /\ lines <= lines' /\ \A db \in Held' : db \in Held \/ db.line > lines
    <2>1. CASE live = Absent
      <3>1. /\ live' = Fresh(lines + 1) /\ lines' = lines + 1 /\ lines + 1 \in 1 .. MaxLines
        BY <1>3, <2>1 DEF Restart
      <3>2. /\ live' \in Databases /\ live'.line = lines + 1 /\ live'.seq = 0
            /\ live'.admin = NoAdmin /\ live' # Absent
        BY <3>1, AdminAssumption DEF Fresh, Databases
      <3>3. \A db \in Databases : db.line <= lines => db.line < lines' /\ db.line <= lines'
        BY <1>3, <3>1, AdminAssumption DEF Databases
      <3>4. \A db \in {backup', export'} : db # Absent => Good(db)' /\ db.line < lines'
        BY <3>3 DEF Restart, AdminInv, FilesInv, Good
      <3>5. Good(live)'
        BY <1>3, <3>1, <3>2 DEF Good, Restart
      <3>6. \A db \in {live', backup', export'} : db # Absent => Good(db)'
        BY <3>4, <3>5 DEF Good
      <3>7. live'.line # backup'.line \/ backup' = Absent
        BY <1>3, <3>1, <3>2, <3>4, AdminAssumption DEF Good, Databases
      <3>8. FilesInv'
        BY <3>1, <3>2, <3>6, <3>7 DEF Restart, AdminInv, FilesInv, Good
      <3>9. \A db \in Held' : db \in Held \/ db.line > lines
        BY <1>3, <3>2 DEF Held, Restart
      <3> QED
        BY <1>3, <3>1, <3>8, <3>9
    <2>2. CASE live # Absent
      <3>1. UNCHANGED <<live, lines, backup, export, born>> /\ opened'
        BY <2>2 DEF Restart
      <3>2. FilesInv'
        BY <2>2, <3>1 DEF AdminInv, FilesInv, Good, Restart
      <3>3. \A db \in Held' : db \in Held
        BY <3>1 DEF Held
      <3> QED
        BY <1>3, <3>1, <3>2, <3>3
    <2> QED
      BY <2>1, <2>2
  <1>5. \A q \in Callers : RequestInv(req[q])' /\ SwapInv(req[q])'
    BY <1>2 DEF RequestInv, SwapInv, Points, Swapping
  <1>6. LockInv'
    BY <1>2 DEF LockInv, Swapping, Restart
  <1>7. TokenInv'
    <2>1. tokens \in 1 .. MaxTokens /\ known \subseteq 1 .. tokens /\ MaxTokens \in Nat
      BY AdminAssumption DEF AdminInv, TokenInv
    <2>2. CASE HasAdmin(live)
      <3>1. appToken' = 0 /\ serverToken' = 0 /\ tokens' = tokens /\ known' = known
        BY <2>2 DEF Restart
      <3>2. 0 \in 0 .. tokens
        BY <2>1
      <3> QED
        BY <1>2, <2>1, <3>1, <3>2 DEF TokenInv, At
    <2>3. CASE ~HasAdmin(live)
      <3>1. /\ tokens' = tokens + 1 /\ tokens' \in 1 .. MaxTokens /\ known' = known \cup {tokens'}
            /\ appToken' = tokens' /\ serverToken' = tokens'
        BY <2>1, <2>3 DEF Restart
      <3>2. known' \subseteq 1 .. tokens'
        BY <2>1, <3>1
      <3> QED
        BY <1>2, <3>1, <3>2 DEF TokenInv, At
    <2> QED
      BY <2>2, <2>3
  <1>8. SeenInv'
    <2>1. UNCHANGED sessions
      BY DEF Restart
    <2>2. \A q \in Callers : req'[q].pc \in {"issue", "update"} => req'[q] = req[q]
      BY <1>2
    <2> QED
      BY <1>4, <2>1, <2>2, FilesSeen
  <1> QED
    BY <1>2, <1>4, <1>5, <1>6, <1>7, <1>8 DEF AdminInv

-----------------------------------------------------------------------------

LEMMA AdminStep == AdminInv /\ [Next]_vars => AdminInv'
  <1> SUFFICES ASSUME AdminInv, [Next]_vars PROVE AdminInv'
    OBVIOUS
  <1>1. ASSUME NEW r \in Callers, Requests(r) PROVE AdminInv'
    BY <1>1, RequestStep
  <1>2. ASSUME NEW r \in Callers, Serve(r) PROVE AdminInv'
    BY <1>2, SetupStep, ImportStep, ClearStep, MoveStep, InstallStep, OpenStep, TidyStep, UndoStep,
       PutBackStep, UnlockStep, ReadStep, IssueStep, UpdateStep, ResetStep, PublishStep DEF Serve
  <1>3. CASE UNCHANGED vars
    BY <1>3 DEF vars, files, tokenVars, AdminInv, FilesInv, RequestInv, SwapInv, LockInv, TokenInv,
                SeenInv, Good, Held, Agrees, At, HasAdmin, LeaseFree
  <1> QED
    BY <1>1, <1>2, <1>3, ExportStep, RestartStep DEF Next

\* The parts of AdminInv hold together in every reachable state, for any number of
\* concurrent requests, tokens, administrators and database files.
THEOREM AdminInvariant == Spec => []AdminInv
  BY InitAdmin, AdminStep, PTL DEF Spec

\* The types of the files, the tokens and the requests; an open handle has its file.
THEOREM AdminTypes == Spec => []TypeOK
  <1>1. AdminInv => TypeOK
    <2> SUFFICES ASSUME AdminInv PROVE TypeOK
      OBVIOUS
    <2>1. {live, backup, export} \subseteq Databases \cup {Absent}
      BY DEF AdminInv, FilesInv, Good
    <2>2. \A r \in Callers : req[r].pc \in Points
      BY DEF AdminInv, RequestInv
    <2>3. appToken \in 0 .. tokens
      BY AdminAssumption DEF AdminInv, TokenInv
    <2> QED
      BY <2>1, <2>2, <2>3 DEF AdminInv, FilesInv, LockInv, TokenInv, TypeOK, Points
  <1> QED
    BY <1>1, AdminInvariant, PTL

\* An import that met at most one fault leaves the old database or the imported one, open
\* (swapDatabaseLocked and restoreDatabaseLocked).
THEOREM ImportTheorem == Spec => []ImportAtomic
  <1>1. AdminInv => ImportAtomic
    BY DEF AdminInv, SwapInv, ImportAtomic, At
  <1> QED
    BY <1>1, AdminInvariant, PTL

\* A session that ValidateAdminSession accepts is of the administrator and the password
\* it was issued for, however logins, changes, resets and setups overlap.
THEOREM SessionsTheorem == Spec => []SessionsCurrent
  <1>1. AdminInv => SessionsCurrent
    BY DEF AdminInv, SeenInv, Held, Agrees, SessionsCurrent, Valid, IsConfigured, HasAdmin
  <1> QED
    BY <1>1, AdminInvariant, PTL

-----------------------------------------------------------------------------
(* What a step may do to the administrator. *)

\* The steps that change whether the hub has an administrator, or which one.
LEMMA AdminChanges ==
  ASSUME AdminInv, [Next]_vars, live' # live
  PROVE  \/ \E r \in Callers : SetupWithToken(r) \/ Install(r) \/ UpdateAdminPassword(r)
                               \/ ResetWithAdminPassword(r)
         \/ /\ ~HasAdmin(live')
            /\ \/ ~HasAdmin(live)
               \/ \E r \in Callers : req[r].pc \in {"undo", "putback"} /\ ~HasAdmin(req[r].before)
  <1>1. CASE Restart
    BY <1>1 DEF Restart, HasAdmin, Fresh
  <1>2. ASSUME NEW r \in Callers, MoveLive(r) PROVE ~HasAdmin(live') /\ ~HasAdmin(live)
    <2>1. live' = Absent /\ live = req[r].before /\ req[r].before.admin = NoAdmin
      BY <1>2 DEF MoveLive, At, AdminInv, SwapInv, RequestInv, Swapping
    <2> QED
      BY <2>1 DEF HasAdmin
  <1>3. ASSUME NEW r \in Callers, Undo(r)
        PROVE  ~HasAdmin(live') /\ req[r].pc \in {"undo", "putback"} /\ ~HasAdmin(req[r].before)
    <2>1. live' = Absent
      BY <1>3 DEF Undo
    <2>2. req[r].pc = "undo" /\ req[r].before.admin = NoAdmin
      BY <1>3 DEF Undo, At, AdminInv, RequestInv, Swapping
    <2> QED
      BY <2>1, <2>2 DEF HasAdmin
  <1>4. ASSUME NEW r \in Callers, PutBack(r)
        PROVE  ~HasAdmin(live') /\ req[r].pc \in {"undo", "putback"} /\ ~HasAdmin(req[r].before)
    <2>1. req[r].pc = "putback" /\ req[r].before.admin = NoAdmin /\ (req[r].moved => backup = req[r].before)
      BY <1>4 DEF PutBack, At, AdminInv, RequestInv, SwapInv, Swapping
    <2>2. live' = Fresh(lines + 1) \/ (live' = backup /\ req[r].moved)
      BY <1>4 DEF PutBack, ToRestore
    <2>3. Fresh(lines + 1).admin = NoAdmin
      BY DEF Fresh
    <2> QED
      BY <2>1, <2>2, <2>3 DEF HasAdmin
  <1>5. ASSUME NEW r \in Callers,
               \/ Requests(r) \/ ImportDatabase(r) \/ ClearBackup(r) \/ OpenImported(r) \/ Tidy(r)
               \/ Unlock(r) \/ AuthenticateAdmin(r) \/ issueToken(r) \/ VerifyCurrent(r) \/ setSetupToken(r)
        PROVE  FALSE
    BY <1>5 DEF Requests, RequestSetup, RequestImport, RequestLogin, RequestPassword, RequestReset,
                ImportDatabase, ClearBackup, OpenImported, Tidy, Unlock, AuthenticateAdmin, issueToken,
                VerifyCurrent, setSetupToken, files
  <1>6. ExportDatabase \/ UNCHANGED vars => FALSE
    BY DEF ExportDatabase, vars, files
  <1> QED
    BY <1>1, <1>2, <1>3, <1>4, <1>5, <1>6 DEF Next, Serve

\* What a password change writes.
LEMMA UpdateKeepsAdmin ==
  ASSUME AdminInv, NEW r \in Callers, UpdateAdminPassword(r), live' # live
  PROVE  HasAdmin(live') /\ Updates(r)
  <1>1. PICK pw \in Passwords : Updates(r) /\ live' = [live EXCEPT !.admin.pw = pw, !.admin.ver = @ + 1]
    BY DEF UpdateAdminPassword
  <1>2. /\ live \in Databases /\ live.admin \in Admins /\ live.admin.ver + 1 \in 0 .. MaxVersion
    BY <1>1, AdminAssumption
       DEF UpdateAdminPassword, Updates, AdminInv, FilesInv, Good, IsConfigured, HasAdmin, Databases, Admins
  <1>3. PICK x \in Admins, n \in 0 .. MaxVersion : x = live.admin /\ n = live.admin.ver + 1
    BY <1>2
  <1>4. PICK a : a = [x EXCEPT !.pw = pw, !.ver = n]
    OBVIOUS
  <1>5. a \in Admins
    BY <1>4 DEF Admins
  <1>6. live' = [live EXCEPT !.admin = a]
    BY <1>1, <1>2, <1>3, <1>4 DEF Databases, Admins
  <1>7. live' \in Databases /\ live'.admin = a
    BY <1>2, <1>5, <1>6 DEF Databases
  <1> QED
    BY <1>1, <1>5, <1>7, AdminAssumption DEF HasAdmin

\* Whoever configures an unconfigured hub presented the newest setup token: App's copy is
\* the newest or none, and a token that a reset has not published yet is nobody's.
THEOREM NewestTokenTheorem == Spec => NewestToken
  <1>1. AdminInv /\ [Next]_vars =>
            [~HasAdmin(live) /\ HasAdmin(live') =>
                \E r \in Callers : req[r].pc \in {"setup", "install"} /\ req[r].token = tokens]_vars
    <2> SUFFICES ASSUME AdminInv, [Next]_vars, ~HasAdmin(live), HasAdmin(live')
                 PROVE  \E r \in Callers : req[r].pc \in {"setup", "install"} /\ req[r].token = tokens
      OBVIOUS
    <2>1. live' # live
      BY DEF HasAdmin
    <2>2. ASSUME NEW r \in Callers, SetupWithToken(r) PROVE req[r].pc = "setup" /\ req[r].token = tokens
      BY <2>1, <2>2, AcceptedToken DEF SetupWithToken, At
    <2>3. ASSUME NEW r \in Callers, Install(r) PROVE req[r].pc = "install" /\ req[r].token = tokens
      BY <2>3 DEF Install, At, AdminInv, RequestInv, Swapping
    <2>4. ASSUME NEW r \in Callers, UpdateAdminPassword(r) \/ ResetWithAdminPassword(r) PROVE FALSE
      BY <2>1, <2>4 DEF UpdateAdminPassword, Updates, ResetWithAdminPassword, IsConfigured
    <2> QED
      BY <2>1, <2>2, <2>3, <2>4, AdminChanges
  <1> QED
    BY <1>1, AdminInvariant, PTL DEF Spec, NewestToken

\* Only a reset unconfigures a hub; an import that undoes its work had found no
\* administrator to begin with.
THEOREM OnlyResetTheorem == Spec => OnlyResetClears
  <1>1. AdminInv /\ [Next]_vars =>
            [HasAdmin(live) /\ ~HasAdmin(live') =>
                \E r \in Callers : \/ At(r, "reset")
                                   \/ /\ req[r].pc \in {"undo", "putback"}
                                      /\ ~HasAdmin(req[r].before)]_vars
    <2> SUFFICES ASSUME AdminInv, [Next]_vars, HasAdmin(live), ~HasAdmin(live')
                 PROVE  \E r \in Callers : \/ At(r, "reset")
                                           \/ req[r].pc \in {"undo", "putback"} /\ ~HasAdmin(req[r].before)
      OBVIOUS
    <2>1. live' # live
      BY DEF HasAdmin
    <2>2. ASSUME NEW r \in Callers, SetupWithToken(r) \/ Install(r) PROVE FALSE
      BY <2>1, <2>2 DEF SetupWithToken, IsConfigured, Install, At, AdminInv, SwapInv, HasAdmin
    <2>3. ASSUME NEW r \in Callers, UpdateAdminPassword(r) PROVE FALSE
      BY <2>1, <2>3, UpdateKeepsAdmin
    <2>4. ASSUME NEW r \in Callers, ResetWithAdminPassword(r) PROVE At(r, "reset")
      BY <2>4 DEF ResetWithAdminPassword
    <2> QED
      BY <2>1, <2>2, <2>3, <2>4, AdminChanges
  <1> QED
    BY <1>1, AdminInvariant, PTL DEF Spec, OnlyResetClears

\* A password change that was verified for a row writes to the administrator of that row:
\* ids are not used again within a line of databases, so the id decides.
THEOREM ChangeTheorem == Spec => ChangeHitsVerified
  <1>1. AdminInv /\ [Next]_vars =>
            [HasAdmin(live) /\ HasAdmin(live') /\ live'.line = live.line /\ live'.admin # live.admin =>
                \E r \in Callers : At(r, "update") /\ (req[r].line = live.line =>
                                                            req[r].row.born = live.admin.born)]_vars
    <2> SUFFICES ASSUME AdminInv, [Next]_vars, HasAdmin(live), HasAdmin(live'), live'.admin # live.admin
                 PROVE  \E r \in Callers : At(r, "update") /\ (req[r].line = live.line =>
                                                                    req[r].row.born = live.admin.born)
      OBVIOUS
    <2>1. live' # live
      OBVIOUS
    <2>2. ASSUME NEW r \in Callers, SetupWithToken(r) \/ Install(r) PROVE FALSE
      BY <2>1, <2>2 DEF SetupWithToken, IsConfigured, Install, At, AdminInv, SwapInv, HasAdmin
    <2>3. ASSUME NEW r \in Callers, ResetWithAdminPassword(r) PROVE FALSE
      <3>1. live' = [live EXCEPT !.admin = NoAdmin] /\ live \in Databases
        BY <2>1, <2>3 DEF ResetWithAdminPassword, AdminInv, FilesInv, Good, HasAdmin
      <3> QED
        BY <3>1 DEF HasAdmin, Databases
    <2>4. ASSUME NEW r \in Callers, UpdateAdminPassword(r)
          PROVE  At(r, "update") /\ (req[r].line = live.line => req[r].row.born = live.admin.born)
      <3>1. At(r, "update") /\ live.admin.id = req[r].row.id
        BY <2>1, <2>4, UpdateKeepsAdmin DEF UpdateAdminPassword, Updates
      <3>2. Agrees(live, req[r].row, req[r].line)
        BY <3>1 DEF At, AdminInv, SeenInv, Held, HasAdmin
      <3> QED
        BY <3>1, <3>2 DEF Agrees, HasAdmin
    <2> QED
      BY <2>1, <2>2, <2>3, <2>4, AdminChanges
  <1> QED
    BY <1>1, AdminInvariant, PTL DEF Spec, ChangeHitsVerified
=============================================================================
