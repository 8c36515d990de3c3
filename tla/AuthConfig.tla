------------------------------ MODULE AuthConfig ------------------------------
(***************************************************************************)
(* How the console ports authenticate (auth configure and sync, keys add   *)
(* and delete, factory reset of usr/local/sbin/consolepi-control; backup   *)
(* create and restore of consolepi-maintenance; the web pages in front).   *)
(*                                                                         *)
(* One of three methods opens the console ports: a key of authorized_keys, *)
(* the password of the account console, or RADIUS.  Which one is written   *)
(* down four times - in auth.conf, in the drop-in of sshd, in PAM and in   *)
(* the running sshd - and RADIUS needs two files of its own.  Each request *)
(* is a process of its own that changes these files one by one; there is   *)
(* no lock, the web waits 15 s only, a step may fail, the power too.  Any  *)
(* requests may run side by side; that two which may spoil one another's   *)
(* files did so is remembered in clash, and in since as "overlap".         *)
(* MaxRequests, MaxFailures and MaxCrashes bound what is asked and fails.  *)
(***************************************************************************)
EXTENDS Naturals

CONSTANTS Worker,       \* requests served at the same time
          Key,          \* key pairs
          Server,       \* RADIUS servers, each with its secret
          NoServer,     \* no RADIUS server
          MaxRequests,  \* bound on requests
          MaxFailures,  \* bound on failing steps
          MaxCrashes    \* bound on power failures

ASSUME ServerAssumption == NoServer \notin Server
ASSUME KeyAssumption    == Key # {}
ASSUME BoundsAssumption ==
  MaxRequests \in Nat /\ MaxFailures \in Nat /\ MaxCrashes \in Nat

VARIABLES
  \* on the card
  keys,       \* authorized_keys of the account console
  password,   \* that account has a password
  pamRadius,  \* the server in pam_radius_auth.conf
  checked,    \* radius.json: the last check succeeded
  dropin,     \* the mode the drop-in of sshd was written for
  pam,        \* /etc/pam.d/sshd asks RADIUS
  authMode,   \* AUTH_MODE in auth.conf
  \* running
  sshd,       \* the mode of the drop-in sshd has loaded
  job,        \* the process of each worker
  \* of the administrators
  told,       \* the last answer each worker gave
  backup,     \* the last backup downloaded
  \* history and bounds
  verified,   \* servers that have answered a check
  since,      \* what went wrong since the last saved configuration
  requests, failures, crashes

radius == <<pamRadius, checked>>
ssh    == <<dropin, pam, sshd>>
files  == <<keys, password, radius, ssh, authMode>>
past   == <<backup, verified, since>>
bounds == <<requests, failures, crashes>>
vars   == <<files, job, told, past, bounds>>

-----------------------------------------------------------------------------
Modes == {"local_key", "local_password", "radius"}
Servers == Server \cup {NoServer}
Operations == {"configure", "sync", "add", "delete", "reset", "backup",
               "restore"}

\* What a refused or failed configuration must leave alone.
Applied  == <<dropin, pam, sshd, authMode>>
Settings == <<radius, Applied>>

\* A process: its step, its request, what it has read and what it found; clash
\* is history: a request that conflicts with it has run beside it.
NoJob == [at |-> "idle", op |-> "none", clash |-> FALSE, mode |-> "local_key",
          server |-> NoServer, password |-> FALSE, key |-> CHOOSE k \in Key : TRUE,
          lines |-> {}, ssh |-> "local_key", pam |-> FALSE,
          found |-> <<>>]

NoBackup == [mode |-> "none", checked |-> FALSE, keys |-> {}]

At(w, step) == job[w].at = step
Goto(w, step) == job' = [job EXCEPT ![w].at = step]
Idle(w) == At(w, "idle")

\* Two requests that may spoil one another's work: two that write the mode, and
\* one that does beside the deletion of a key.
ModeWriters == {"configure", "sync", "reset", "restore"}
Conflict(p, q) == \/ {p, q} \subseteq ModeWriters
                  \/ "delete" \in {p, q} /\ {p, q} \cap ModeWriters # {}

\* The web answers unless it has given the request up.
Answer(w, result) ==
  told' = IF told[w] = "unknown" THEN told ELSE [told EXCEPT ![w] = result]

Ends(w, result) == job' = [job EXCEPT ![w] = NoJob] /\ Answer(w, result)

Unknowing == UNCHANGED <<told, past, bounds>>

Init == /\ keys \in (SUBSET Key) \ {{}} /\ password = FALSE
        /\ pamRadius = NoServer /\ checked = FALSE
        /\ dropin = "local_key" /\ pam = FALSE /\ sshd = "local_key"
        /\ authMode = "local_key"
        /\ job = [w \in Worker |-> NoJob]
        /\ told = [w \in Worker |-> "nothing"]
        /\ backup = NoBackup /\ verified = {} /\ since = {}
        /\ requests = 0 /\ failures = 0 /\ crashes = 0

\* A request reaches a worker; r holds what was asked for.
Request(w, op, step, r) ==
  LET rivals == {v \in Worker : Conflict(job[v].op, op)} IN
  /\ Idle(w) /\ requests < MaxRequests
  /\ requests' = requests + 1
  /\ job' = [v \in Worker |->
               IF v = w THEN [r EXCEPT !.at = step, !.op = op,
                                       !.clash = rivals # {}, !.found = Settings]
                        ELSE [job[v] EXCEPT !.clash = @ \/ v \in rivals]]
  /\ since' = IF rivals = {} THEN since ELSE since \cup {"overlap"}
  /\ told' = [told EXCEPT ![w] = "nothing"]
  /\ UNCHANGED <<files, backup, verified, failures, crashes>>

-----------------------------------------------------------------------------
(* auth configure.  Steps "password", "check", "radtest", "radius",        *)
(* "meta", then apply, then "store".                                       *)

authentication_page(w) ==
  \E mode \in Modes, server \in Servers, pass \in BOOLEAN :
    Request(w, "configure", "password",
            [NoJob EXCEPT !.mode = mode, !.server = server,
                          !.password = pass])

\* A password in the form is set before anything else is looked at.
SetPassword(w) ==
  /\ At(w, "password") /\ Goto(w, "check")
  /\ password' = (password \/ job[w].password)
  /\ UNCHANGED <<keys, radius, ssh, authMode>> /\ Unknowing

console_password_set == password
read_key_lines == keys

\* Mutant: RADIUS without a server is let through.
AcceptableNoServer(w) ==
  CASE job[w].mode = "local_key"      -> read_key_lines # {}
    [] job[w].mode = "local_password" -> console_password_set
    [] job[w].mode = "radius"         -> TRUE

\* The mode asked for can let somebody in.
Acceptable(w) ==
  CASE job[w].mode = "local_key"      -> read_key_lines # {}
    [] job[w].mode = "local_password" -> console_password_set
    [] job[w].mode = "radius"         -> job[w].server # NoServer

CheckForm(w) ==
  /\ At(w, "check")
  /\ \/ /\ Acceptable(w)
        /\ Goto(w, IF job[w].mode = "radius" THEN "radtest" ELSE "radius")
        /\ UNCHANGED told
     \/ ~Acceptable(w) /\ Ends(w, "refused")
  /\ UNCHANGED <<files, past, bounds>>

\* Access-Reject proves server and secret; anything else refuses the request.
radius_server_check(w) ==
  /\ At(w, "radtest")
  /\ \/ /\ Goto(w, "radius") /\ UNCHANGED told
        /\ verified' = verified \cup {job[w].server}
     \/ Ends(w, "refused") /\ UNCHANGED verified
  /\ UNCHANGED <<files, backup, since, bounds>>

\* The check takes longer than the web waits.  The command may be killed with
\* the request or go on.
GiveUp(w) ==
  /\ At(w, "radtest") /\ told[w] # "unknown"
  /\ told' = [told EXCEPT ![w] = "unknown"]
  /\ job' = job \/ job' = [job EXCEPT ![w] = NoJob]
  /\ UNCHANGED <<files, past, bounds>>

\* radius-secrets.json, pam_radius_auth.conf and the PAM profile.
WriteRadius(w) ==
  /\ At(w, "radius") /\ Goto(w, "meta")
  /\ pamRadius' = job[w].server
  /\ UNCHANGED <<keys, password, checked, ssh, authMode>> /\ Unknowing

\* Mutant: the result of the last check stays when it is not repeated.
WriteMetaChecked(w) ==
  /\ At(w, "meta") /\ Goto(w, "apply")
  /\ checked' = (checked \/ job[w].mode = "radius")
  /\ UNCHANGED <<keys, password, pamRadius, ssh, authMode>> /\ Unknowing

WriteMeta(w) ==
  /\ At(w, "meta") /\ Goto(w, "apply")
  /\ checked' = (job[w].mode = "radius")
  /\ UNCHANGED <<keys, password, pamRadius, ssh, authMode>> /\ Unknowing

-----------------------------------------------------------------------------
(* apply_authentication_files.  Steps "apply", "dropin", "pam", "reload";  *)
(* after a failure "undoDropin", "undoPam", "undoReload".                  *)

ApplyRead(w) ==
  /\ At(w, "apply")
  /\ job' = [job EXCEPT ![w].at = "dropin", ![w].ssh = dropin, ![w].pam = pam]
  /\ UNCHANGED files /\ Unknowing

\* render_ssh_dropin
WriteDropin(w, step, next, mode) ==
  /\ At(w, step) /\ Goto(w, next)
  /\ dropin' = mode
  /\ UNCHANGED <<keys, password, radius, pam, sshd, authMode>> /\ Unknowing

\* render_pam_sshd
WritePam(w, step, next, asks) ==
  /\ At(w, step) /\ Goto(w, next)
  /\ pam' = asks
  /\ UNCHANGED <<keys, password, radius, dropin, sshd, authMode>> /\ Unknowing

\* Mutant: a reset leaves auth.conf as it is.
StoresConfigured(w) == job[w].op = "configure"

\* What follows a successful apply: auth.conf is written by the operations
\* that choose a mode.
Stores(w) == job[w].op \in {"configure", "reset"}

\* sshd -t and the reload.
Reload(w) ==
  /\ At(w, "reload")
  /\ sshd' = dropin
  /\ IF Stores(w) THEN Goto(w, "store") /\ UNCHANGED told
                  ELSE Ends(w, "done")
  /\ UNCHANGED <<keys, password, radius, dropin, pam, authMode, past, bounds>>

ApplyStep(w) == \/ ApplyRead(w)
                \/ WriteDropin(w, "dropin", "pam", job[w].mode)
                \/ WritePam(w, "pam", "reload", job[w].mode = "radius")
                \/ Reload(w)

\* A file cannot be rendered, sshd refuses it, or cannot be reloaded.
ApplyFails(w) ==
  /\ failures < MaxFailures /\ failures' = failures + 1
  /\ At(w, "dropin") \/ At(w, "pam") \/ At(w, "reload")
  /\ Goto(w, "undoDropin")
  /\ since' = since \cup {"failure"}
  /\ UNCHANGED <<files, told, backup, verified, requests, crashes>>

\* The restore's own reload may fail too.
UndoReload(w) ==
  /\ At(w, "undoReload")
  /\ sshd' \in {sshd, dropin}
  /\ Ends(w, IF job[w].op = "restore" THEN "done" ELSE "failed")
  /\ UNCHANGED <<keys, password, radius, dropin, pam, authMode, past, bounds>>

\* Mutant: the files are read after they were written.
UndoNothing(w) == \/ WriteDropin(w, "undoDropin", "undoPam", dropin)
                  \/ WritePam(w, "undoPam", "undoReload", pam)
                  \/ UndoReload(w)

Undo(w) == \/ WriteDropin(w, "undoDropin", "undoPam", job[w].ssh)
           \/ WritePam(w, "undoPam", "undoReload", job[w].pam)
           \/ UndoReload(w)

\* auth.conf comes last.
StoreMode(w) ==
  /\ At(w, "store")
  /\ authMode' = job[w].mode
  /\ since' = IF job[w].clash THEN since ELSE {}
  /\ Ends(w, "done") \/ (job[w].clash /\ Ends(w, "failed"))
  /\ UNCHANGED <<keys, password, radius, ssh, backup, verified, bounds>>

\* Two requests write a file by way of one temporary name: the first rename
\* takes it away, and the other one's text with it, whose rename then fails.
Collides(w) ==
  /\ job[w].clash
  /\ \/ job[w].at \in {"pam", "reload"} /\ Goto(w, "undoDropin") /\ UNCHANGED told
     \/ job[w].at \in {"undoPam", "undoReload"} /\ Ends(w, "failed")
     \/ /\ job[w].op \in {"configure", "reset"}
        /\ job[w].at \in {"meta", "choose", "apply"} /\ Ends(w, "failed")
  /\ UNCHANGED <<files, past, bounds>>

\* auth sync: what install.sh, the first start and a restore end with.
auth_sync(w) == Request(w, "sync", "apply", [NoJob EXCEPT !.mode = authMode])

-----------------------------------------------------------------------------
(* keys add and keys delete: the file is read, then written as a whole.    *)

\* A new key pair, whose private half the web sends with its answer.
key_create(w) ==
  \E k \in Key \ keys :
    /\ \A v \in Worker : job[v].op = "add" => job[v].key # k
    /\ Request(w, "add", "readKeys", [NoJob EXCEPT !.key = k])

key_delete(w) ==
  \E k \in Key : Request(w, "delete", "readKeys", [NoJob EXCEPT !.key = k])

\* Mutant: the mode is not asked.
DeletableInAnyMode(w) == job[w].key \in keys

\* keys delete: the last key stays while the mode needs it.
Deletable(w) == /\ job[w].key \in keys
                /\ authMode = "local_key" => keys # {job[w].key}

ReadKeys(w) ==
  /\ At(w, "readKeys")
  /\ \/ /\ job[w].op = "delete" => Deletable(w)
        /\ job' = [job EXCEPT ![w].at = "writeKeys", ![w].lines = keys]
        /\ UNCHANGED told
     \/ job[w].op = "delete" /\ ~Deletable(w) /\ Ends(w, "refused")
  /\ UNCHANGED <<files, past, bounds>>

\* One rename; the answer follows.
write_key_lines(w) ==
  /\ At(w, "writeKeys") /\ Ends(w, "done")
  /\ keys' = IF job[w].op = "add" THEN job[w].lines \cup {job[w].key}
                                  ELSE job[w].lines \ {job[w].key}
  /\ UNCHANGED <<password, radius, ssh, authMode, past, bounds>>

-----------------------------------------------------------------------------
(* Factory reset, as far as authentication goes: steps "wipe", "choose",   *)
(* then apply and "store".                                                 *)

system_factory_reset(w) == Request(w, "reset", "wipe", NoJob)

Wipe(w) == /\ At(w, "wipe") /\ Goto(w, "choose")
           /\ pamRadius' = NoServer /\ checked' = FALSE
           /\ UNCHANGED <<keys, password, ssh, authMode>> /\ Unknowing

\* The password if there is one, else the keys, else the reset is refused -
\* with the RADIUS files gone.
ChooseDefault(w) ==
  /\ At(w, "choose")
  /\ IF console_password_set \/ read_key_lines # {}
     THEN /\ job' = [job EXCEPT ![w].at = "apply", ![w].mode =
                       IF console_password_set THEN "local_password"
                                               ELSE "local_key"]
          /\ UNCHANGED <<told, since>>
     ELSE Ends(w, "failed") /\ since' = since \cup {"failure"}
  /\ UNCHANGED <<files, backup, verified, bounds>>

\* One of the reset's other steps, outside authentication, fails.
ResetFails(w) ==
  /\ failures < MaxFailures /\ failures' = failures + 1
  /\ At(w, "choose") /\ Ends(w, "failed")
  /\ since' = since \cup {"failure"}
  /\ UNCHANGED <<files, backup, verified, requests, crashes>>

-----------------------------------------------------------------------------
(* Backup and restore.  The files of a backup are auth.conf, radius.json   *)
(* and, with the secrets, the keys; pam_radius_auth.conf is not among them. *)

system_backup(w) == \E secrets \in BOOLEAN :
  Request(w, "backup", "create", [NoJob EXCEPT !.password = secrets])

backup_create(w) ==
  /\ At(w, "create") /\ Ends(w, "done")
  /\ backup' = [mode |-> authMode, checked |-> checked,
                keys |-> IF job[w].password THEN keys ELSE {}]
  /\ UNCHANGED <<files, verified, since, bounds>>

system_restore(w) ==
  backup # NoBackup /\ Request(w, "restore", "install", NoJob)

\* Keys that are no part of the backup stay as they are.
backup_restore(w) ==
  /\ At(w, "install")
  /\ authMode' = backup.mode /\ checked' = backup.checked
  /\ keys' = IF backup.keys = {} THEN keys ELSE backup.keys
  /\ since' = since \cup {"restore"}
  /\ job' = [job EXCEPT ![w].at = "apply", ![w].mode = backup.mode]
  /\ UNCHANGED <<password, pamRadius, ssh, told, backup, verified, bounds>>

-----------------------------------------------------------------------------
\* The power fails; at the next start sshd loads the drop-in there is.
Crash ==
  /\ crashes < MaxCrashes /\ crashes' = crashes + 1
  /\ since' = since \cup {"crash"}
  /\ job' = [w \in Worker |-> NoJob]
  /\ told' = [w \in Worker |-> IF Idle(w) THEN told[w] ELSE "unknown"]
  /\ sshd' = dropin
  /\ UNCHANGED <<keys, password, radius, dropin, pam, authMode, backup,
                 verified, requests, failures>>

Ask(w) == \/ authentication_page(w) \/ auth_sync(w) \/ key_create(w)
          \/ key_delete(w) \/ system_factory_reset(w) \/ system_backup(w)
          \/ system_restore(w)

Serve(w) == \/ SetPassword(w) \/ CheckForm(w) \/ radius_server_check(w)
            \/ WriteRadius(w) \/ WriteMeta(w)
            \/ ApplyStep(w) \/ Undo(w) \/ StoreMode(w)
            \/ ReadKeys(w) \/ write_key_lines(w)
            \/ Wipe(w) \/ ChooseDefault(w)
            \/ backup_create(w) \/ backup_restore(w)

Next == \/ \E w \in Worker : Ask(w) \/ Serve(w) \/ GiveUp(w)
                           \/ ApplyFails(w) \/ ResetFails(w) \/ Collides(w)
        \/ Crash

Spec == Init /\ [][Next]_vars

-----------------------------------------------------------------------------
(* Properties.                                                             *)

Jobs == [at : {"idle", "password", "check", "radtest", "radius", "meta",
               "apply", "dropin", "pam", "reload", "undoDropin", "undoPam",
               "undoReload", "store", "readKeys", "writeKeys", "wipe",
               "choose", "create", "install"},
         op : Operations \cup {"none"}, clash : BOOLEAN, mode : Modes,
         server : Servers,
         password : BOOLEAN, key : Key, lines : SUBSET Key, ssh : Modes,
         pam : BOOLEAN, found : {<<>>} \cup
           ((Servers \X BOOLEAN) \X (Modes \X BOOLEAN \X Modes \X Modes))]

TypeOK ==
  /\ keys \subseteq Key /\ password \in BOOLEAN
  /\ pamRadius \in Servers /\ checked \in BOOLEAN
  /\ dropin \in Modes /\ pam \in BOOLEAN /\ sshd \in Modes
  /\ authMode \in Modes
  /\ job \in [Worker -> Jobs]
  /\ told \in [Worker -> {"nothing", "done", "refused", "failed", "unknown"}]
  /\ backup \in [mode : Modes, checked : BOOLEAN, keys : SUBSET Key]
       \cup {NoBackup}
  /\ verified \subseteq Server
  /\ since \subseteq {"failure", "crash", "restore", "overlap"}
  /\ requests \in 0..MaxRequests /\ failures \in 0..MaxFailures
  /\ crashes \in 0..MaxCrashes

Quiet == \A w \in Worker : Idle(w)

\* Somebody is let in under a mode that needs no server.
Opens(mode) == /\ mode = "local_key" => keys # {}
               /\ mode = "local_password" => password

\* Somebody can get in: keys delete and auth configure check the mode and the
\* keys against one another's file.  This holds of auth.conf across refused,
\* failing and cut-off requests, and of the mode sshd runs on across refused
\* and failing ones; not after a restore, which checks nothing, nor once
\* conflicting requests have overlapped, until the next configuration is saved.
\* RADIUS has a server, when nothing at all went wrong since then.
DoorOpen ==
  /\ since \cap {"restore", "overlap"} = {} => Opens(authMode)
  /\ since \cap {"restore", "overlap", "crash"} = {} => Opens(sshd)
  /\ authMode = "radius" /\ since = {} /\ Quiet => pamRadius # NoServer

\* consolepi-control:589-590, the refusal of keys delete: the last key stays
\* while authentication by key is active, that is while sshd runs on it.
LastKeyStays == sshd = "local_key" => keys # {}

\* consolepi-control:1448, the refusal of auth configure: the mode of the SSH key
\* requires at least one authorized key.
KeyModeHasKey == authMode = "local_key" => keys # {}

\* The answer to a configuration that no conflicting request ran beside is true.
\* "Saved": sshd, PAM, auth.conf and RADIUS are what was asked for.  An error of
\* sshd or PAM: these are as they were before.  A refusal: nothing but the
\* password may have changed.  (A configuration that fails restores the files it
\* found, on which sshd need not have run if earlier requests overlapped.)
AnswersAreTrue ==
  [][\A w \in Worker :
       job[w].op = "configure" /\ ~job[w].clash /\ told'[w] # told[w] =>
         /\ told'[w] = "done" =>
              /\ job[w].mode = dropin' /\ job[w].mode = sshd'
              /\ job[w].mode = authMode' /\ pam' = (job[w].mode = "radius")
              /\ pamRadius' = job[w].server
         /\ told'[w] = "failed" /\ "overlap" \notin since =>
              Applied' = job[w].found[2]
         /\ told'[w] = "refused" => Settings' = job[w].found]_vars

\* The four places say the same whenever nobody is at work, unless something
\* failed or was cut off, a backup was restored or conflicting requests
\* overlapped since the last configuration that was saved: sshd, its drop-in,
\* PAM and auth.conf.
PlacesAgree ==
  Quiet /\ since = {} =>
    /\ authMode = sshd /\ dropin = sshd /\ pam = (authMode = "radius")

\* What opt/consolepi-web/templates/authentication.html:40 shows.
PageSaysVerified == authMode = "radius" /\ checked

\* While the page says that the communication with RADIUS is verified, the
\* server PAM asks has answered a check, also after a configuration that failed,
\* was refused or given up; but for a power failure between the two RADIUS
\* files, a restore and an overlap, until the next configuration is saved.
ShownIsVerified ==
  Quiet /\ since \cap {"crash", "restore", "overlap"} = {} =>
    (PageSaysVerified => pamRadius \in verified)

\* opt/consolepi-web/templates/authentication.html:40, for every server that was
\* configured and none that was restored: what is called verified has answered.
VerifiedMeansAnswered ==
  Quiet /\ "restore" \notin since => (PageSaysVerified => pamRadius \in verified)

\* opt/consolepi-web/templates/authentication.html:40: while the page says that
\* the communication with RADIUS is verified, PAM has a server to ask.
ShownIsConfigured ==
  Quiet /\ PageSaysVerified => pamRadius # NoServer
-----------------------------------------------------------------------------
(* The inductive invariant behind these.                                   *)

FormSteps  == {"password", "check", "radtest"}
ApplySteps == {"apply", "dropin", "pam", "reload"}
UndoSteps  == {"undoDropin", "undoPam", "undoReload"}

\* A process follows the steps of its operation.
ShapeInv ==
  \A w \in Worker :
    /\ Idle(w) <=> job[w].op = "none"
    /\ job[w].at \in FormSteps \cup {"radius", "meta"} => job[w].op = "configure"
    /\ job[w].at \in {"wipe", "choose"} => job[w].op = "reset"
    /\ job[w].at \in ApplySteps \cup UndoSteps =>
         job[w].op \in {"configure", "sync", "reset", "restore"}
    /\ At(w, "store") => job[w].op \in {"configure", "reset"}
    /\ job[w].at \in {"readKeys", "writeKeys"} => job[w].op \in {"add", "delete"}
    /\ At(w, "create") => job[w].op = "backup"
    /\ At(w, "install") => job[w].op = "restore" /\ backup # NoBackup
    /\ At(w, "radtest") => job[w].mode = "radius" /\ job[w].server # NoServer
    /\ job[w].clash => job[w].op \in ModeWriters \cup {"delete"}

\* Conflicting requests know of one another, and of an overlap there is a trace.
ExclusiveInv ==
  /\ \A v, w \in Worker :
       v # w /\ Conflict(job[v].op, job[w].op) => job[v].clash /\ job[w].clash
  /\ (\E w \in Worker : job[w].clash) => "overlap" \in since

\* What a configuration has written so far, and that it can still say what
\* there was before.
ConfigureInv(w) ==
  job[w].op = "configure" =>
    /\ job[w].at \in FormSteps => job[w].found = Settings
    /\ job[w].at \in {"radius", "meta", "apply", "dropin"} =>
         job[w].found[2] = Applied
    /\ job[w].at \in {"pam", "reload"} \cup UndoSteps =>
         job[w].found[2] = <<job[w].ssh, job[w].pam, sshd, authMode>>
    /\ job[w].at \notin {"password", "check"} => Acceptable(w)
    /\ job[w].at \notin FormSteps /\ job[w].mode = "radius" =>
         job[w].server \in verified
    /\ job[w].at \in {"meta", "store"} \cup ApplySteps \cup UndoSteps =>
         pamRadius = job[w].server
    /\ job[w].at \in {"store"} \cup ApplySteps \cup UndoSteps =>
         checked = (job[w].mode = "radius")

\* A reset has taken RADIUS away and chosen a mode that lets somebody in.
ResetInv(w) ==
  job[w].op = "reset" =>
    /\ job[w].at \in {"choose", "store"} \cup ApplySteps \cup UndoSteps => ~checked
    /\ job[w].at \in {"store"} \cup ApplySteps \cup UndoSteps =>
         \/ job[w].mode = "local_key" /\ keys # {}
         \/ job[w].mode = "local_password" /\ password

\* sshd runs on the old drop-in until the reload, and the drop-in and the PAM
\* file of that time are kept for the undo.
ApplyInv(w) ==
  /\ "overlap" \notin since =>
       (job[w].at \in {"dropin", "pam", "reload"} \cup UndoSteps => sshd = job[w].ssh)
  /\ job[w].at \in {"dropin", "undoPam", "undoReload"} => dropin = job[w].ssh
  /\ job[w].at \in {"dropin", "pam", "undoReload"} => pam = job[w].pam
  /\ job[w].at \in {"pam", "reload", "store"} => dropin = job[w].mode
  /\ job[w].at \in {"reload", "store"} => pam = (job[w].mode = "radius")
  /\ job[w].at = "store" => sshd = dropin
  /\ job[w].at \in UndoSteps => "failure" \in since

\* What a deletion is about to write back opens the door still.
DeleteInv(w) ==
  job[w].op = "delete" /\ At(w, "writeKeys") =>
    (authMode = "local_key" => job[w].lines \ {job[w].key} # {})

\* A synchronisation writes the mode in force, and a restore counts as one from
\* the moment it has replaced a file.
SourceInv(w) ==
  /\ job[w].op = "sync" => job[w].mode = authMode
  /\ job[w].op = "restore" /\ ~At(w, "install") => "restore" \in since

JobInv(w) == /\ ConfigureInv(w) /\ ResetInv(w) /\ ApplyInv(w)
             /\ DeleteInv(w) /\ SourceInv(w)

\* Only while its files are replaced, the drop-in is not the one sshd runs on.
SshdInv ==
  /\ "overlap" \notin since
  /\ \A w \in Worker : job[w].at \notin {"pam", "reload", "undoDropin"}
  => dropin = sshd

\* RADIUS without a server is what somebody is about to leave.
Leaving(w) ==
  \/ job[w].op = "configure" /\ job[w].at \in {"meta", "store"} \cup ApplySteps
  \/ job[w].op = "reset" /\ job[w].at \in {"choose", "store"} \cup ApplySteps

DoorInv ==
  /\ since \cap {"restore", "overlap"} = {} => Opens(authMode)
  /\ authMode = "radius" /\ since = {} /\ pamRadius = NoServer =>
       \E w \in Worker : Leaving(w)

\* The result of a check belongs to the server there is, but for the moment
\* between the two files.
ShownInv ==
  since \cap {"crash", "restore", "overlap"} = {} /\ checked =>
    pamRadius \in verified \/ \E w \in Worker : At(w, "meta")

\* A process that no conflicting request ran beside finds what it left, and so
\* do the files since the last configuration saved without an overlap.
SerialInv ==
  /\ ExclusiveInv /\ \A w \in Worker : ~job[w].clash => JobInv(w)
  /\ SshdInv /\ DoorInv /\ ShownInv

InductiveInv == TypeOK /\ ShapeInv /\ SerialInv

\* Between the drop-in and auth.conf the places differ; never else.
AgreeInv ==
  since = {} /\ (\A w \in Worker : job[w].at \notin {"pam", "reload", "store"}) =>
    /\ authMode = sshd /\ dropin = sshd /\ pam = (authMode = "radius")

\* sshd runs on the mode in force, but between its reload and auth.conf.
ReloadedInv ==
  since \cap {"crash", "restore", "overlap"} = {} =>
    sshd = authMode \/ \E w \in Worker : At(w, "store")

PlacesInv == AgreeInv /\ ReloadedInv
=============================================================================
