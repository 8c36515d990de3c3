--------------------------- MODULE AuthConfigProofs ---------------------------
(***************************************************************************)
(* Proofs about AuthConfig, for any number of workers, keys, servers,      *)
(* requests, failing steps and power failures, whichever requests overlap: *)
(* types and the steps of a process; and, as long as no conflicting        *)
(* requests overlap and again from the next configuration saved without    *)
(* one, that somebody can get in, that the page shows a server as verified *)
(* only if it is, that the answers to a configuration are true and that    *)
(* the places that hold the method agree when nobody is at work.           *)
(***************************************************************************)
EXTENDS AuthConfig, TLAPS

-----------------------------------------------------------------------------
(* What happens to a process.                                              *)

Steps == {"idle", "password", "check", "radtest", "radius", "meta",
          "apply", "dropin", "pam", "reload", "undoDropin", "undoPam",
          "undoReload", "store", "readKeys", "writeKeys", "wipe",
          "choose", "create", "install"}

Found == {<<>>} \cup ((Servers \X BOOLEAN) \X (Modes \X BOOLEAN \X Modes \X Modes))

LEMMA JobsFields ==
  Jobs = [at : Steps, op : Operations \cup {"none"}, clash : BOOLEAN, mode : Modes,
          server : Servers, password : BOOLEAN, key : Key, lines : SUBSET Key, ssh : Modes,
          pam : BOOLEAN, found : Found]
BY DEF Jobs, Steps, Found

LEMMA NoJobType ==
  /\ NoJob \in Jobs /\ NoJob.at = "idle" /\ NoJob.op = "none" /\ NoJob.clash = FALSE
  /\ NoJob.mode = "local_key" /\ NoJob.server = NoServer
<1>1. (CHOOSE k \in Key : TRUE) \in Key
  BY KeyAssumption
<1>2. "local_key" \in Modes /\ NoServer \in Servers /\ <<>> \in Found
  BY DEF Modes, Servers, Found
<1>. QED BY <1>1, <1>2, JobsFields DEF NoJob, Steps

\* The settings of a moment, as a refused or failed request has to leave them.
LEMMA SettingsType == TypeOK => Settings \in Found /\ Settings[2] = Applied
BY DEF TypeOK, Settings, Applied, radius, Found

\* A process goes on with its next step; nothing else of it changes.
LEMMA GotoJob ==
    ASSUME TypeOK, NEW w \in Worker, NEW step \in Steps, Goto(w, step)
    PROVE  /\ job' \in [Worker -> Jobs]
           /\ job'[w].at = step /\ job'[w].op = job[w].op /\ job'[w].mode = job[w].mode
           /\ job'[w].server = job[w].server /\ job'[w].key = job[w].key
           /\ job'[w].lines = job[w].lines /\ job'[w].ssh = job[w].ssh
           /\ job'[w].pam = job[w].pam /\ job'[w].found = job[w].found
           /\ job'[w].password = job[w].password /\ job'[w].clash = job[w].clash
           /\ \A v \in Worker \ {w} : job'[v] = job[v]
<1>1. job \in [Worker -> Jobs]
  BY DEF TypeOK
<1>2. job[w] \in Jobs
  BY <1>1
<1>3. job' = [job EXCEPT ![w] = [job[w] EXCEPT !.at = step]]
  BY DEF Goto
<1>. QED BY <1>1, <1>2, <1>3, JobsFields

\* A process ends, with an answer that the web may not wait for any more.
LEMMA EndsJob ==
    ASSUME TypeOK, NEW w \in Worker, NEW result \in {"done", "refused", "failed"},
           Ends(w, result)
    PROVE  /\ job' \in [Worker -> Jobs] /\ job'[w] = NoJob
           /\ \A v \in Worker \ {w} : job'[v] = job[v]
           /\ told' \in [Worker -> {"nothing", "done", "refused", "failed", "unknown"}]
           /\ told'[w] = told[w] \/ told'[w] = result
           /\ \A v \in Worker \ {w} : told'[v] = told[v]
BY NoJobType DEF TypeOK, Ends, Answer

\* The requests that conflict with a new one.
Rivals(op) == {v \in Worker : Conflict(job[v].op, op)}

\* A request reaches an idle worker; those it conflicts with are marked.
LEMMA RequestJob ==
    ASSUME TypeOK, NEW w \in Worker, NEW op \in Operations,
           NEW step \in Steps, NEW r \in Jobs, Request(w, op, step, r)
    PROVE  /\ job' \in [Worker -> Jobs]
           /\ job'[w].at = step /\ job'[w].op = op /\ job'[w].mode = r.mode
           /\ job'[w].server = r.server /\ job'[w].found = Settings
           /\ job'[w].clash = (Rivals(op) # {})
           /\ \A v \in Worker \ {w} :
                job'[v] = [job[v] EXCEPT !.clash = job[v].clash \/ v \in Rivals(op)]
           /\ told' \in [Worker -> {"nothing", "done", "refused", "failed", "unknown"}]
           /\ \A v \in Worker \ {w} : told'[v] = told[v]
<1>1. job' = [v \in Worker |->
                IF v = w THEN [r EXCEPT !.at = step, !.op = op,
                                        !.clash = Rivals(op) # {}, !.found = Settings]
                ELSE [job[v] EXCEPT !.clash = job[v].clash \/ v \in Rivals(op)]]
  BY DEF Request, Rivals
<1>2. Settings \in Found
  BY SettingsType
<1>3. job \in [Worker -> Jobs]
  BY DEF TypeOK
<1>4. DEFINE new == [r EXCEPT !.at = step, !.op = op, !.clash = Rivals(op) # {},
                              !.found = Settings]
<1>5. /\ new \in Jobs /\ new.at = step /\ new.op = op /\ new.mode = r.mode
      /\ new.server = r.server /\ new.found = Settings
      /\ new.clash = (Rivals(op) # {})
  BY <1>2, JobsFields
<1>6. ASSUME NEW v \in Worker
      PROVE  [job[v] EXCEPT !.clash = job[v].clash \/ v \in Rivals(op)] \in Jobs
  <2>1. job[v] \in Jobs /\ (job[v].clash \/ v \in Rivals(op)) \in BOOLEAN
    BY <1>3, JobsFields
  <2>. QED BY <2>1, JobsFields
<1>7. told' = [told EXCEPT ![w] = "nothing"]
  BY DEF Request
<1>8. job' \in [Worker -> Jobs]
  BY <1>1, <1>5, <1>6
<1>9. job'[w] = new
  BY <1>1
<1>10. \A v \in Worker \ {w} :
         job'[v] = [job[v] EXCEPT !.clash = job[v].clash \/ v \in Rivals(op)]
  BY <1>1
<1>. QED BY <1>5, <1>7, <1>8, <1>9, <1>10 DEF TypeOK

\* Of the others nothing else changes.
LEMMA RequestOthers ==
    ASSUME TypeOK, NEW w \in Worker, NEW op \in Operations,
           NEW step \in Steps, NEW r \in Jobs, Request(w, op, step, r),
           NEW v \in Worker \ {w}
    PROVE  /\ job'[v].clash = (job[v].clash \/ Conflict(job[v].op, op))
           /\ job'[v].at = job[v].at /\ job'[v].op = job[v].op
           /\ job'[v].mode = job[v].mode /\ job'[v].server = job[v].server
           /\ job'[v].key = job[v].key /\ job'[v].lines = job[v].lines
           /\ job'[v].ssh = job[v].ssh /\ job'[v].pam = job[v].pam
           /\ job'[v].found = job[v].found
<1>1. job'[v] = [job[v] EXCEPT !.clash = job[v].clash \/ v \in Rivals(op)]
  BY RequestJob
<1>2. job[v] \in Jobs
  BY DEF TypeOK
<1>. QED BY <1>1, <1>2, JobsFields DEF Rivals

\* The requests there are.
LEMMA RequestTypes ==
    ASSUME TypeOK, NEW w \in Worker
    PROVE  /\ \A mode \in Modes, server \in Servers, pass \in BOOLEAN :
                [NoJob EXCEPT !.mode = mode, !.server = server, !.password = pass] \in Jobs
           /\ [NoJob EXCEPT !.mode = authMode] \in Jobs
           /\ \A k \in Key : [NoJob EXCEPT !.key = k] \in Jobs
           /\ \A secrets \in BOOLEAN : [NoJob EXCEPT !.password = secrets] \in Jobs
BY NoJobType, JobsFields DEF TypeOK

-----------------------------------------------------------------------------
(* Types.                                                                  *)

FileTypes ==
  /\ keys \subseteq Key /\ password \in BOOLEAN
  /\ pamRadius \in Servers /\ checked \in BOOLEAN
  /\ dropin \in Modes /\ pam \in BOOLEAN /\ sshd \in Modes
  /\ authMode \in Modes

JobTypes ==
  /\ job \in [Worker -> Jobs]
  /\ told \in [Worker -> {"nothing", "done", "refused", "failed", "unknown"}]

PastTypes ==
  /\ backup \in [mode : Modes, checked : BOOLEAN, keys : SUBSET Key] \cup {NoBackup}
  /\ verified \subseteq Server
  /\ since \subseteq {"failure", "crash", "restore", "overlap"}

BoundTypes ==
  /\ requests \in 0..MaxRequests /\ failures \in 0..MaxFailures
  /\ crashes \in 0..MaxCrashes

LEMMA TypeParts == TypeOK <=> FileTypes /\ JobTypes /\ PastTypes /\ BoundTypes
BY DEF TypeOK, FileTypes, JobTypes, PastTypes, BoundTypes

LEMMA NextParts == TypeOK' <=> FileTypes' /\ JobTypes' /\ PastTypes' /\ BoundTypes'
BY DEF TypeOK, FileTypes, JobTypes, PastTypes, BoundTypes

LEMMA SameTypes ==
  ASSUME TypeOK
  PROVE  /\ UNCHANGED files => FileTypes'
         /\ UNCHANGED <<job, told>> => JobTypes'
         /\ UNCHANGED past => PastTypes'
         /\ UNCHANGED bounds => BoundTypes'
<1>1. UNCHANGED files => FileTypes'
  BY TypeParts DEF files, radius, ssh, FileTypes
<1>2. UNCHANGED <<job, told>> => JobTypes'
  BY TypeParts DEF JobTypes
<1>3. UNCHANGED past => PastTypes'
  BY TypeParts DEF past, PastTypes
<1>4. UNCHANGED bounds => BoundTypes'
  BY TypeParts DEF bounds, BoundTypes
<1>. QED BY <1>1, <1>2, <1>3, <1>4

LEMMA TypeInit == Init => TypeOK
<1> SUFFICES ASSUME Init PROVE TypeOK
  OBVIOUS
<1>1. password \in BOOLEAN /\ checked \in BOOLEAN /\ pam \in BOOLEAN
  BY DEF Init
<1>2. FileTypes
  BY <1>1 DEF Init, FileTypes, Modes, Servers
<1>3. JobTypes
  BY NoJobType DEF Init, JobTypes
<1>4. PastTypes
  BY DEF Init, PastTypes
<1>5. BoundTypes
  BY BoundsAssumption DEF Init, BoundTypes
<1>. QED BY <1>2, <1>3, <1>4, <1>5, TypeParts

LEMMA RequestTypeStep ==
    ASSUME TypeOK, NEW w \in Worker, NEW op \in Operations, NEW step \in Steps,
           NEW r \in Jobs, Request(w, op, step, r)
    PROVE  TypeOK'
<1>1. JobTypes'
  BY RequestJob DEF JobTypes
<1>2. BoundTypes'
  <2>1. /\ requests < MaxRequests /\ requests' = requests + 1
        /\ UNCHANGED <<failures, crashes>>
    BY DEF Request
  <2>. QED BY <2>1, BoundsAssumption, TypeParts DEF BoundTypes
<1>3. PastTypes'
  BY TypeParts DEF Request, PastTypes
<1>. QED BY <1>1, <1>2, <1>3, SameTypes, NextParts DEF Request

LEMMA AskTypes ==
    ASSUME TypeOK, NEW w \in Worker, Ask(w)
    PROVE  TypeOK'
<1> USE RequestTypes, RequestTypeStep DEF Operations, Steps
<1>1. CASE authentication_page(w)
  BY <1>1 DEF authentication_page
<1>2. CASE auth_sync(w)
  BY <1>2 DEF auth_sync
<1>3. CASE key_create(w)
  BY <1>3 DEF key_create
<1>4. CASE key_delete(w)
  BY <1>4 DEF key_delete
<1>5. CASE system_factory_reset(w)
  BY <1>5, NoJobType DEF system_factory_reset
<1>6. CASE system_backup(w)
  BY <1>6 DEF system_backup
<1>7. CASE system_restore(w)
  BY <1>7, NoJobType DEF system_restore
<1>. QED BY <1>1, <1>2, <1>3, <1>4, <1>5, <1>6, <1>7 DEF Ask

\* The types of a process that goes on or ends.
LEMMA GotoTypes ==
    ASSUME TypeOK, NEW w \in Worker, NEW step \in Steps, Goto(w, step), UNCHANGED told
    PROVE  JobTypes'
BY GotoJob, TypeParts DEF JobTypes

LEMMA EndsTypes ==
    ASSUME TypeOK, NEW w \in Worker, NEW result \in {"done", "refused", "failed"},
           Ends(w, result)
    PROVE  JobTypes'
BY EndsJob DEF JobTypes

LEMMA ConfigureTypes ==
    ASSUME TypeOK, ShapeInv, NEW w \in Worker,
           \/ SetPassword(w) \/ CheckForm(w) \/ radius_server_check(w) \/ GiveUp(w)
           \/ WriteRadius(w) \/ WriteMeta(w) \/ StoreMode(w)
    PROVE  TypeOK'
<1>0. FileTypes /\ JobTypes /\ PastTypes /\ job[w] \in Jobs
  BY TypeParts DEF JobTypes
<1> USE DEF Steps
<1>1. CASE SetPassword(w)
  <2>1. JobTypes'
    BY <1>1, GotoTypes DEF SetPassword, Unknowing
  <2>2. FileTypes'
    BY <1>0, <1>1, JobsFields DEF SetPassword, FileTypes, radius, ssh
  <2>. QED BY <1>1, <2>1, <2>2, SameTypes, NextParts DEF SetPassword, Unknowing
<1>2. CASE CheckForm(w)
  <2>1. JobTypes'
    BY <1>2, GotoTypes, EndsTypes DEF CheckForm
  <2>. QED BY <1>2, <2>1, SameTypes, NextParts DEF CheckForm
<1>3. CASE radius_server_check(w)
  <2>1. JobTypes'
    BY <1>3, GotoTypes, EndsTypes DEF radius_server_check
  <2>2. job[w].server \in Server
    BY <1>0, <1>3, JobsFields DEF radius_server_check, ShapeInv, At, Servers
  <2>3. PastTypes'
    BY <1>0, <1>3, <2>2 DEF radius_server_check, PastTypes
  <2>. QED BY <1>3, <2>1, <2>3, SameTypes, NextParts DEF radius_server_check
<1>4. CASE GiveUp(w)
  <2>1. JobTypes'
    BY <1>0, <1>4, NoJobType DEF GiveUp, JobTypes
  <2>. QED BY <1>4, <2>1, SameTypes, NextParts DEF GiveUp
<1>5. CASE WriteRadius(w)
  <2>1. JobTypes'
    BY <1>5, GotoTypes DEF WriteRadius, Unknowing
  <2>2. FileTypes'
    BY <1>0, <1>5, JobsFields DEF WriteRadius, FileTypes, ssh
  <2>. QED BY <1>5, <2>1, <2>2, SameTypes, NextParts DEF WriteRadius, Unknowing
<1>6. CASE WriteMeta(w)
  <2>1. JobTypes'
    BY <1>6, GotoTypes DEF WriteMeta, Unknowing
  <2>2. checked' \in BOOLEAN
    BY <1>6 DEF WriteMeta
  <2>3. FileTypes'
    BY <1>0, <1>6, <2>2 DEF WriteMeta, FileTypes, ssh
  <2>. QED BY <1>6, <2>1, <2>3, SameTypes, NextParts DEF WriteMeta, Unknowing
<1>7. CASE StoreMode(w)
  <2>1. JobTypes'
    BY <1>7, EndsTypes DEF StoreMode
  <2>2. FileTypes'
    BY <1>0, <1>7, JobsFields DEF StoreMode, FileTypes, radius, ssh
  <2>3. PastTypes'
    BY <1>0, <1>7 DEF StoreMode, PastTypes
  <2>. QED BY <1>7, <2>1, <2>2, <2>3, SameTypes, NextParts DEF StoreMode
<1>. QED BY <1>1, <1>2, <1>3, <1>4, <1>5, <1>6, <1>7

LEMMA ApplyTypes ==
    ASSUME TypeOK, NEW w \in Worker, ApplyStep(w) \/ ApplyFails(w) \/ Undo(w)
    PROVE  TypeOK'
<1>0. FileTypes /\ JobTypes /\ PastTypes /\ BoundTypes /\ job[w] \in Jobs
  BY TypeParts DEF JobTypes
<1> USE DEF Steps
<1>1. CASE ApplyRead(w)
  <2>1. job' = [job EXCEPT ![w] = [job[w] EXCEPT !.at = "dropin", !.ssh = dropin, !.pam = pam]]
    BY <1>1 DEF ApplyRead
  <2>2. [job[w] EXCEPT !.at = "dropin", !.ssh = dropin, !.pam = pam] \in Jobs
    BY <1>0, JobsFields DEF FileTypes
  <2>3. JobTypes'
    BY <1>0, <1>1, <2>1, <2>2 DEF ApplyRead, Unknowing, JobTypes
  <2>. QED BY <1>1, <2>3, SameTypes, NextParts DEF ApplyRead, Unknowing
<1>2. ASSUME NEW step, NEW next \in Steps, NEW mode \in Modes, WriteDropin(w, step, next, mode)
      PROVE  TypeOK'
  <2>1. JobTypes'
    BY <1>2, GotoTypes DEF WriteDropin, Unknowing
  <2>2. FileTypes'
    BY <1>0, <1>2 DEF WriteDropin, FileTypes, radius
  <2>. QED BY <1>2, <2>1, <2>2, SameTypes, NextParts DEF WriteDropin, Unknowing
<1>3. ASSUME NEW step, NEW next \in Steps, NEW asks \in BOOLEAN, WritePam(w, step, next, asks)
      PROVE  TypeOK'
  <2>1. JobTypes'
    BY <1>3, GotoTypes DEF WritePam, Unknowing
  <2>2. FileTypes'
    BY <1>0, <1>3 DEF WritePam, FileTypes, radius
  <2>. QED BY <1>3, <2>1, <2>2, SameTypes, NextParts DEF WritePam, Unknowing
<1>4. CASE Reload(w)
  <2>1. JobTypes'
    BY <1>4, GotoTypes, EndsTypes DEF Reload
  <2>2. FileTypes'
    BY <1>0, <1>4 DEF Reload, FileTypes, radius
  <2>. QED BY <1>4, <2>1, <2>2, SameTypes, NextParts DEF Reload
<1>5. CASE ApplyFails(w)
  <2>1. JobTypes'
    BY <1>5, GotoTypes DEF ApplyFails
  <2>2. PastTypes'
    BY <1>0, <1>5 DEF ApplyFails, PastTypes
  <2>3. BoundTypes'
    BY <1>0, <1>5, BoundsAssumption DEF ApplyFails, BoundTypes
  <2>. QED BY <1>5, <2>1, <2>2, <2>3, SameTypes, NextParts DEF ApplyFails
<1>6. CASE UndoReload(w)
  <2>1. JobTypes'
    BY <1>6, EndsTypes DEF UndoReload
  <2>2. FileTypes'
    BY <1>0, <1>6 DEF UndoReload, FileTypes, radius
  <2>. QED BY <1>6, <2>1, <2>2, SameTypes, NextParts DEF UndoReload
<1>7. job[w].mode \in Modes /\ job[w].ssh \in Modes /\ job[w].pam \in BOOLEAN
      /\ (job[w].mode = "radius") \in BOOLEAN
  BY <1>0, JobsFields
<1>. QED BY <1>1, <1>2, <1>3, <1>4, <1>5, <1>6, <1>7 DEF ApplyStep, Undo

LEMMA OtherTypes ==
    ASSUME TypeOK, ShapeInv, NEW w \in Worker,
           \/ ReadKeys(w) \/ write_key_lines(w) \/ Wipe(w) \/ ChooseDefault(w)
           \/ ResetFails(w) \/ backup_create(w) \/ backup_restore(w)
    PROVE  TypeOK'
<1>0. FileTypes /\ JobTypes /\ PastTypes /\ BoundTypes /\ job[w] \in Jobs
  BY TypeParts DEF JobTypes
<1> USE DEF Steps
<1>1. CASE ReadKeys(w)
  <2>1. CASE job' = [job EXCEPT ![w].at = "writeKeys", ![w].lines = keys] /\ UNCHANGED told
    <3>1. job' = [job EXCEPT ![w] = [job[w] EXCEPT !.at = "writeKeys", !.lines = keys]]
      BY <2>1
    <3>2. [job[w] EXCEPT !.at = "writeKeys", !.lines = keys] \in Jobs
      BY <1>0, JobsFields DEF FileTypes
    <3>3. JobTypes'
      BY <1>0, <2>1, <3>1, <3>2 DEF JobTypes
    <3>. QED BY <1>1, <3>3, SameTypes, NextParts DEF ReadKeys
  <2>2. CASE Ends(w, "refused")
    BY <1>1, <2>2, EndsTypes, SameTypes, NextParts DEF ReadKeys
  <2>. QED BY <1>1, <2>1, <2>2 DEF ReadKeys
<1>2. CASE write_key_lines(w)
  <2>1. JobTypes'
    BY <1>2, EndsTypes DEF write_key_lines
  <2>2. FileTypes'
    BY <1>0, <1>2, JobsFields DEF write_key_lines, FileTypes, radius, ssh
  <2>. QED BY <1>2, <2>1, <2>2, SameTypes, NextParts DEF write_key_lines
<1>3. CASE Wipe(w)
  <2>1. JobTypes'
    BY <1>3, GotoTypes DEF Wipe, Unknowing
  <2>2. checked' \in BOOLEAN /\ pamRadius' \in Servers
    BY <1>3 DEF Wipe, Servers
  <2>3. FileTypes'
    BY <1>0, <1>3, <2>2 DEF Wipe, FileTypes, ssh
  <2>. QED BY <1>3, <2>1, <2>3, SameTypes, NextParts DEF Wipe, Unknowing
<1>4. CASE ChooseDefault(w)
  <2>1. CASE console_password_set \/ read_key_lines # {}
    <3>1. PICK mode \in Modes :
            job' = [job EXCEPT ![w] = [job[w] EXCEPT !.at = "apply", !.mode = mode]]
      BY <1>4, <2>1 DEF ChooseDefault, Modes
    <3>2. [job[w] EXCEPT !.at = "apply", !.mode = mode] \in Jobs
      BY <1>0, JobsFields
    <3>3. UNCHANGED <<told, since>>
      BY <1>4, <2>1 DEF ChooseDefault
    <3>4. JobTypes'
      BY <1>0, <3>1, <3>2, <3>3 DEF JobTypes
    <3>5. PastTypes'
      BY <1>0, <1>4, <3>3 DEF ChooseDefault, PastTypes
    <3>. QED BY <1>4, <3>4, <3>5, SameTypes, NextParts DEF ChooseDefault
  <2>2. CASE ~(console_password_set \/ read_key_lines # {})
    <3>1. JobTypes'
      BY <1>4, <2>2, EndsTypes DEF ChooseDefault
    <3>2. PastTypes'
      BY <1>0, <1>4, <2>2 DEF ChooseDefault, PastTypes
    <3>. QED BY <1>4, <3>1, <3>2, SameTypes, NextParts DEF ChooseDefault
  <2>. QED BY <2>1, <2>2
<1>5. CASE ResetFails(w)
  <2>1. JobTypes'
    BY <1>5, EndsTypes DEF ResetFails
  <2>2. PastTypes'
    BY <1>0, <1>5 DEF ResetFails, PastTypes
  <2>3. BoundTypes'
    BY <1>0, <1>5, BoundsAssumption DEF ResetFails, BoundTypes
  <2>. QED BY <1>5, <2>1, <2>2, <2>3, SameTypes, NextParts DEF ResetFails
<1>6. CASE backup_create(w)
  <2>1. JobTypes'
    BY <1>6, EndsTypes DEF backup_create
  <2>2. backup' \in [mode : Modes, checked : BOOLEAN, keys : SUBSET Key]
    BY <1>0, <1>6 DEF backup_create, FileTypes
  <2>3. PastTypes'
    BY <1>0, <1>6, <2>2 DEF backup_create, PastTypes
  <2>. QED BY <1>6, <2>1, <2>3, SameTypes, NextParts DEF backup_create
<1>7. CASE backup_restore(w)
  <2>1. backup \in [mode : Modes, checked : BOOLEAN, keys : SUBSET Key]
    BY <1>0, <1>7 DEF backup_restore, ShapeInv, PastTypes, At
  <2>2. job' = [job EXCEPT ![w] = [job[w] EXCEPT !.at = "apply", !.mode = backup.mode]]
    BY <1>7 DEF backup_restore
  <2>3. [job[w] EXCEPT !.at = "apply", !.mode = backup.mode] \in Jobs
    BY <1>0, <2>1, JobsFields
  <2>4. JobTypes'
    BY <1>0, <1>7, <2>2, <2>3 DEF backup_restore, JobTypes
  <2>5. FileTypes'
    BY <1>0, <1>7, <2>1 DEF backup_restore, FileTypes, ssh
  <2>6. PastTypes'
    BY <1>0, <1>7 DEF backup_restore, PastTypes
  <2>. QED BY <1>7, <2>4, <2>5, <2>6, SameTypes, NextParts DEF backup_restore
<1>. QED BY <1>1, <1>2, <1>3, <1>4, <1>5, <1>6, <1>7

LEMMA CollidesTypes ==
    ASSUME TypeOK, NEW w \in Worker, Collides(w)
    PROVE  TypeOK'
<1>1. JobTypes'
  BY GotoTypes, EndsTypes DEF Collides, Steps
<1>. QED BY <1>1, SameTypes, NextParts DEF Collides

LEMMA TypeStep == TypeOK /\ ShapeInv /\ [Next]_vars => TypeOK'
<1> SUFFICES ASSUME TypeOK, ShapeInv, [Next]_vars PROVE TypeOK'
  OBVIOUS
<1>1. CASE Crash
  <2>1. FileTypes'
    BY <1>1, TypeParts DEF Crash, FileTypes, radius
  <2>2. JobTypes'
    BY <1>1, TypeParts, NoJobType DEF Crash, JobTypes
  <2>3. PastTypes'
    BY <1>1, TypeParts DEF Crash, PastTypes
  <2>4. BoundTypes'
    BY <1>1, TypeParts, BoundsAssumption DEF Crash, BoundTypes
  <2>. QED BY <2>1, <2>2, <2>3, <2>4, NextParts
<1>2. CASE UNCHANGED vars
  BY <1>2, SameTypes, NextParts DEF vars
<1>. QED BY <1>1, <1>2, AskTypes, ConfigureTypes, ApplyTypes, OtherTypes, CollidesTypes
         DEF Next, Serve

-----------------------------------------------------------------------------
(* A process follows the steps of its operation.                           *)

OneShape(w) ==
  /\ Idle(w) <=> job[w].op = "none"
  /\ job[w].at \in FormSteps \cup {"radius", "meta"} => job[w].op = "configure"
  /\ job[w].at \in {"wipe", "choose"} => job[w].op = "reset"
  /\ job[w].at \in ApplySteps \cup UndoSteps =>
       job[w].op \in {"configure", "sync", "reset", "restore"}
  /\ At(w, "store") => job[w].op \in {"configure", "reset"}
  /\ job[w].at \in {"readKeys", "writeKeys"} => job[w].op \in {"add", "delete"}
  /\ At(w, "create") => job[w].op = "backup"
  /\ At(w, "install") => job[w].op = "restore" /\ backup # NoBackup
  /\ At(w, "radtest") => job[w].mode = "radius" /\ job[w].server # NoServer
  /\ job[w].clash => job[w].op \in ModeWriters \cup {"delete"}

LEMMA ShapeParts == ShapeInv <=> \A w \in Worker : OneShape(w)
BY DEF ShapeInv, OneShape

\* A backup, once there, is only replaced by another.
BackupKept == backup' = backup \/ backup' # NoBackup

LEMMA ShapeFrame ==
    ASSUME ShapeInv, NEW w \in Worker, \A v \in Worker \ {w} : job'[v] = job[v],
           BackupKept, OneShape(w)'
    PROVE  ShapeInv'
<1>1. ASSUME NEW v \in Worker PROVE OneShape(v)'
  <2>1. CASE v # w
    BY <2>1, ShapeParts DEF OneShape, BackupKept, At, Idle
  <2>. QED BY <2>1
<1>. QED BY <1>1 DEF ShapeInv, OneShape

LEMMA IdleShape == \A w \in Worker : job'[w] = NoJob => OneShape(w)'
BY NoJobType DEF OneShape, At, Idle, FormSteps, ApplySteps, UndoSteps

LEMMA EndsShape ==
    ASSUME TypeOK, ShapeInv, NEW w \in Worker, BackupKept,
           NEW result \in {"done", "refused", "failed"}, Ends(w, result)
    PROVE  ShapeInv'
BY EndsJob, IdleShape, ShapeFrame

LEMMA GotoShape ==
    ASSUME TypeOK, ShapeInv, NEW w \in Worker, BackupKept,
           NEW step \in Steps, Goto(w, step),
           step \notin {"idle", "readKeys", "writeKeys", "create", "install", "wipe"},
           step \in FormSteps \cup {"radius", "meta"} => job[w].op = "configure",
           step = "choose" => job[w].op = "reset",
           step \in ApplySteps \cup UndoSteps =>
             job[w].op \in {"configure", "sync", "reset", "restore"},
           step = "store" => job[w].op \in {"configure", "reset"},
           step = "radtest" => job[w].mode = "radius" /\ job[w].server # NoServer,
           ~Idle(w)
    PROVE  ShapeInv'
<1>1. OneShape(w)
  BY ShapeParts
<1>2. OneShape(w)'
  BY <1>1, GotoJob DEF OneShape, At, Idle
<1>. QED BY <1>2, GotoJob, ShapeFrame

LEMMA RequestShape ==
    ASSUME TypeOK, ShapeInv, NEW w \in Worker, NEW op \in Operations, NEW step \in Steps,
           NEW r \in Jobs, Request(w, op, step, r),
           \/ op = "configure" /\ step = "password"
           \/ op = "sync" /\ step = "apply"
           \/ op \in {"add", "delete"} /\ step = "readKeys"
           \/ op = "reset" /\ step = "wipe"
           \/ op = "backup" /\ step = "create"
           \/ op = "restore" /\ step = "install" /\ backup # NoBackup
    PROVE  ShapeInv'
<1>1. backup' = backup
  BY DEF Request
<1>2. /\ job'[w].at = step /\ job'[w].op = op /\ job'[w].clash = (Rivals(op) # {})
  BY RequestJob
<1>3. Rivals(op) # {} => op \in ModeWriters \cup {"delete"}
  BY DEF Rivals, Conflict, ModeWriters
<1>4. OneShape(w)'
  BY <1>1, <1>2, <1>3 DEF OneShape, At, Idle, FormSteps, ApplySteps, UndoSteps
<1>5. ASSUME NEW v \in Worker \ {w} PROVE OneShape(v)'
  <2>1. OneShape(v)
    BY ShapeParts
  <2>2. Conflict(job[v].op, op) => job[v].op \in ModeWriters \cup {"delete"}
    BY DEF Conflict, ModeWriters
  <2>. QED BY <1>1, <2>1, <2>2, RequestOthers DEF OneShape, At, Idle
<1>. QED BY <1>4, <1>5 DEF ShapeInv, OneShape

LEMMA AskShape ==
    ASSUME TypeOK, ShapeInv, NEW w \in Worker, Ask(w)
    PROVE  ShapeInv'
<1> USE RequestTypes, RequestShape DEF Operations, Steps
<1>1. CASE authentication_page(w)
  BY <1>1 DEF authentication_page
<1>2. CASE auth_sync(w)
  BY <1>2 DEF auth_sync
<1>3. CASE key_create(w)
  BY <1>3 DEF key_create
<1>4. CASE key_delete(w)
  BY <1>4 DEF key_delete
<1>5. CASE system_factory_reset(w)
  BY <1>5, NoJobType DEF system_factory_reset
<1>6. CASE system_backup(w)
  BY <1>6 DEF system_backup
<1>7. CASE system_restore(w)
  BY <1>7, NoJobType DEF system_restore
<1>. QED BY <1>1, <1>2, <1>3, <1>4, <1>5, <1>6, <1>7 DEF Ask

LEMMA ConfigureShape ==
    ASSUME TypeOK, ShapeInv, NEW w \in Worker,
           \/ SetPassword(w) \/ CheckForm(w) \/ radius_server_check(w) \/ GiveUp(w)
           \/ WriteRadius(w) \/ WriteMeta(w) \/ StoreMode(w)
    PROVE  ShapeInv'
<1>0. OneShape(w) /\ job \in [Worker -> Jobs]
  BY ShapeParts DEF TypeOK
<1>1. BackupKept
  BY DEF SetPassword, CheckForm, radius_server_check, GiveUp, WriteRadius, WriteMeta,
         StoreMode, Unknowing, past, BackupKept
<1> USE DEF Steps, FormSteps, ApplySteps, UndoSteps
<1>2. CASE SetPassword(w)
  BY <1>0, <1>1, <1>2, GotoShape DEF SetPassword, OneShape, At, Idle
<1>3. CASE CheckForm(w)
  <2>1. CASE Ends(w, "refused")
    BY <1>1, <2>1, EndsShape
  <2>2. CASE Acceptable(w) /\ Goto(w, "radtest") /\ job[w].mode = "radius"
    BY <1>0, <1>1, <1>3, <2>2, GotoShape DEF CheckForm, Acceptable, OneShape, At, Idle
  <2>3. CASE Goto(w, "radius")
    BY <1>0, <1>1, <1>3, <2>3, GotoShape DEF CheckForm, OneShape, At, Idle
  <2>. QED BY <1>3, <2>1, <2>2, <2>3 DEF CheckForm
<1>4. CASE radius_server_check(w)
  BY <1>0, <1>1, <1>4, GotoShape, EndsShape DEF radius_server_check, OneShape, At, Idle
<1>5. CASE GiveUp(w)
  <2>1. CASE job' = job
    BY <1>0, <1>1, <2>1, ShapeFrame DEF OneShape, At, Idle, BackupKept
  <2>2. CASE job' = [job EXCEPT ![w] = NoJob]
    BY <1>0, <1>1, <2>2, IdleShape, ShapeFrame
  <2>. QED BY <1>5, <2>1, <2>2 DEF GiveUp
<1>6. CASE WriteRadius(w)
  BY <1>0, <1>1, <1>6, GotoShape DEF WriteRadius, OneShape, At, Idle
<1>7. CASE WriteMeta(w)
  BY <1>0, <1>1, <1>7, GotoShape DEF WriteMeta, OneShape, At, Idle
<1>8. CASE StoreMode(w)
  BY <1>1, <1>8, EndsShape DEF StoreMode
<1>. QED BY <1>2, <1>3, <1>4, <1>5, <1>6, <1>7, <1>8

LEMMA ApplyShape ==
    ASSUME TypeOK, ShapeInv, NEW w \in Worker, ApplyStep(w) \/ ApplyFails(w) \/ Undo(w)
    PROVE  ShapeInv'
<1>0. OneShape(w) /\ job \in [Worker -> Jobs] /\ job[w] \in Jobs
  BY ShapeParts DEF TypeOK
<1>1. BackupKept
  BY DEF ApplyStep, ApplyRead, WriteDropin, WritePam, Reload, ApplyFails, Undo, UndoReload,
         Unknowing, past, BackupKept
<1> USE DEF Steps, FormSteps, ApplySteps, UndoSteps
<1>2. CASE ApplyRead(w)
  <2>1. job' = [job EXCEPT ![w] = [job[w] EXCEPT !.at = "dropin", !.ssh = dropin, !.pam = pam]]
    BY <1>2 DEF ApplyRead
  <2>2. job'[w].at = "dropin" /\ job'[w].op = job[w].op
    BY <1>0, <2>1, JobsFields
  <2>3. OneShape(w)'
    BY <1>0, <1>2, <2>2 DEF ApplyRead, OneShape, At, Idle
  <2>. QED BY <1>0, <1>1, <2>1, <2>3, ShapeFrame
<1>3. ASSUME NEW step, NEW next \in Steps, NEW mode,
             \/ step = "dropin" /\ next = "pam"
             \/ step = "undoDropin" /\ next = "undoPam",
             WriteDropin(w, step, next, mode)
      PROVE  ShapeInv'
  BY <1>0, <1>1, <1>3, GotoShape DEF WriteDropin, OneShape, At, Idle
<1>4. ASSUME NEW step, NEW next \in Steps, NEW asks,
             \/ step = "pam" /\ next = "reload"
             \/ step = "undoPam" /\ next = "undoReload",
             WritePam(w, step, next, asks)
      PROVE  ShapeInv'
  BY <1>0, <1>1, <1>4, GotoShape DEF WritePam, OneShape, At, Idle
<1>5. CASE Reload(w)
  BY <1>0, <1>1, <1>5, GotoShape, EndsShape DEF Reload, Stores, OneShape, At, Idle
<1>6. CASE ApplyFails(w)
  BY <1>0, <1>1, <1>6, GotoShape DEF ApplyFails, OneShape, At, Idle
<1>7. CASE UndoReload(w)
  BY <1>1, <1>7, EndsShape DEF UndoReload
<1>. QED BY <1>2, <1>3, <1>4, <1>5, <1>6, <1>7 DEF ApplyStep, Undo

LEMMA OtherShape ==
    ASSUME TypeOK, ShapeInv, NEW w \in Worker,
           \/ ReadKeys(w) \/ write_key_lines(w) \/ Wipe(w) \/ ChooseDefault(w)
           \/ ResetFails(w) \/ backup_create(w) \/ backup_restore(w)
    PROVE  ShapeInv'
<1>0. OneShape(w) /\ job \in [Worker -> Jobs] /\ job[w] \in Jobs
  BY ShapeParts DEF TypeOK
<1>1. BackupKept
  <2>1. authMode # "none"
    BY DEF TypeOK, Modes
  <2>2. CASE backup_create(w)
    BY <2>1, <2>2 DEF backup_create, NoBackup, BackupKept
  <2>. QED BY <2>2 DEF ReadKeys, write_key_lines, Wipe, ChooseDefault, ResetFails,
                       backup_restore, Unknowing, past, BackupKept
<1> USE DEF Steps, FormSteps, ApplySteps, UndoSteps
<1>2. CASE ReadKeys(w)
  <2>1. CASE job' = [job EXCEPT ![w].at = "writeKeys", ![w].lines = keys]
    <3>1. job' = [job EXCEPT ![w] = [job[w] EXCEPT !.at = "writeKeys", !.lines = keys]]
      BY <2>1
    <3>2. job'[w].at = "writeKeys" /\ job'[w].op = job[w].op /\ job'[w].clash = job[w].clash
      BY <1>0, <3>1, JobsFields
    <3>3. OneShape(w)'
      BY <1>0, <1>2, <3>2 DEF ReadKeys, OneShape, At, Idle
    <3>. QED BY <1>0, <1>1, <3>1, <3>3, ShapeFrame
  <2>. QED BY <1>1, <1>2, <2>1, EndsShape DEF ReadKeys
<1>3. CASE Wipe(w)
  BY <1>0, <1>1, <1>3, GotoShape DEF Wipe, OneShape, At, Idle
<1>4. CASE ChooseDefault(w)
  <2>1. CASE console_password_set \/ read_key_lines # {}
    <3>1. PICK mode \in Modes :
            job' = [job EXCEPT ![w] = [job[w] EXCEPT !.at = "apply", !.mode = mode]]
      BY <1>4, <2>1 DEF ChooseDefault, Modes
    <3>2. job'[w].at = "apply" /\ job'[w].op = job[w].op /\ job'[w].clash = job[w].clash
      BY <1>0, <3>1, JobsFields
    <3>3. OneShape(w)'
      BY <1>0, <1>4, <3>2 DEF ChooseDefault, OneShape, At, Idle
    <3>. QED BY <1>0, <1>1, <3>1, <3>3, ShapeFrame
  <2>. QED BY <1>1, <1>4, <2>1, EndsShape DEF ChooseDefault
<1>5. CASE backup_restore(w)
  <2>1. job' = [job EXCEPT ![w] = [job[w] EXCEPT !.at = "apply", !.mode = backup.mode]]
    BY <1>5 DEF backup_restore
  <2>2. job'[w].at = "apply" /\ job'[w].op = job[w].op
    BY <1>0, <2>1, JobsFields
  <2>3. OneShape(w)'
    BY <1>0, <1>5, <2>2 DEF backup_restore, OneShape, At, Idle
  <2>. QED BY <1>0, <1>1, <2>1, <2>3, ShapeFrame
<1>. QED BY <1>1, <1>2, <1>3, <1>4, <1>5, EndsShape
         DEF write_key_lines, ResetFails, backup_create

LEMMA CollidesShape ==
    ASSUME TypeOK, ShapeInv, NEW w \in Worker, Collides(w)
    PROVE  ShapeInv'
<1>1. OneShape(w) /\ BackupKept
  BY ShapeParts DEF Collides, past, BackupKept
<1> USE DEF Steps, FormSteps, ApplySteps, UndoSteps
<1>2. CASE Goto(w, "undoDropin")
  <2>1. job[w].clash /\ job[w].op # "none" /\ ~Idle(w)
    BY <1>1 DEF Collides, OneShape, ModeWriters
  <2>2. job[w].at \in {"pam", "reload"} \/ \E result \in {"failed"} : Ends(w, result)
    BY DEF Collides
  <2>. QED BY <1>1, <1>2, <2>1, <2>2, GotoShape, EndsShape DEF OneShape
<1>3. CASE Ends(w, "failed")
  BY <1>1, <1>3, EndsShape
<1>. QED BY <1>2, <1>3 DEF Collides

LEMMA ShapeStep == TypeOK /\ ShapeInv /\ [Next]_vars => ShapeInv'
<1> SUFFICES ASSUME TypeOK, ShapeInv, [Next]_vars PROVE ShapeInv'
  OBVIOUS
<1>1. CASE Crash
  BY <1>1, IdleShape DEF Crash, ShapeInv, OneShape
<1>2. CASE UNCHANGED vars
  BY <1>2 DEF vars, past, ShapeInv, At, Idle
<1>. QED BY <1>1, <1>2, AskShape, ConfigureShape, ApplyShape, OtherShape, CollidesShape
         DEF Next, Serve

LEMMA ShapeInit == Init => ShapeInv
BY NoJobType DEF Init, ShapeInv, At, Idle, FormSteps, ApplySteps, UndoSteps

\* For any number of workers, keys, servers and requests, also overlapping
\* ones, every process keeps to the steps of its operation and every file and
\* answer is one of those there are.
THEOREM TypeCorrect == Spec => []TypeOK
<1>1. Init => TypeOK /\ ShapeInv
  BY TypeInit, ShapeInit
<1>2. TypeOK /\ ShapeInv /\ [Next]_vars => (TypeOK /\ ShapeInv)'
  BY TypeStep, ShapeStep
<1>. QED BY <1>1, <1>2, PTL DEF Spec

-----------------------------------------------------------------------------
(* Who works beside whom.                                                  *)

LEMMA ConflictSymmetric == \A p, q : Conflict(p, q) <=> Conflict(q, p)
BY DEF Conflict

\* No process but that of w does more than create a key or a backup.
Alone(w) ==
  \A v \in Worker \ {w} : job[v].op \in {"none", "add", "backup"} /\ ~job[v].clash

LEMMA OthersAside ==
    ASSUME TypeOK, ShapeInv, ExclusiveInv, NEW w \in Worker,
           job[w].op \in ModeWriters, ~job[w].clash
    PROVE  Alone(w)
<1> SUFFICES ASSUME NEW v \in Worker \ {w}
             PROVE  job[v].op \in {"none", "add", "backup"} /\ ~job[v].clash
  BY DEF Alone
<1>1. job[v] \in Jobs
  BY DEF TypeOK
<1>2. job[v].op \in Operations \cup {"none"}
  BY <1>1, JobsFields
<1>3. ~Conflict(job[v].op, job[w].op)
  BY DEF ExclusiveInv
<1>4. job[v].op \notin ModeWriters \cup {"delete"}
  BY <1>3 DEF Conflict
<1>5. OneShape(v)
  BY ShapeParts
<1>. QED BY <1>2, <1>4, <1>5 DEF Operations, ModeWriters, OneShape

LEMMA AloneSteps ==
    ASSUME TypeOK, ShapeInv, NEW v \in Worker, job[v].op \in {"none", "add", "backup"}
    PROVE  job[v].at \in {"idle", "readKeys", "writeKeys", "create"}
<1>1. job[v] \in Jobs
  BY DEF TypeOK
<1>2. OneShape(v)
  BY ShapeParts
<1>. QED BY <1>1, <1>2, JobsFields
         DEF Steps, OneShape, At, Idle, FormSteps, ApplySteps, UndoSteps

\* A process that has nothing to keep.
LEMMA IdleJob == \A w \in Worker : job'[w] = NoJob => JobInv(w)'
<1> SUFFICES ASSUME NEW w \in Worker, job'[w] = NoJob PROVE JobInv(w)'
  OBVIOUS
<1>1. job'[w].at = "idle" /\ job'[w].op = "none"
  BY NoJobType
<1>. QED BY <1>1 DEF JobInv, ConfigureInv, ResetInv, ApplyInv, DeleteInv, SourceInv, UndoSteps,
                     ApplySteps

\* A process that is where it was.
SameJob(v) ==
  /\ job'[v].at = job[v].at /\ job'[v].op = job[v].op /\ job'[v].mode = job[v].mode
  /\ job'[v].server = job[v].server /\ job'[v].key = job[v].key
  /\ job'[v].lines = job[v].lines /\ job'[v].ssh = job[v].ssh /\ job'[v].pam = job[v].pam
  /\ job'[v].found = job[v].found

\* What a process has kept holds while keys are added beside it.
LEMMA JobFrame ==
    ASSUME TypeOK, NEW v \in Worker, JobInv(v), SameJob(v),
           UNCHANGED <<password, radius, ssh, authMode, verified>>, since \subseteq since',
           keys # {} => keys' # {}
    PROVE  JobInv(v)'
<1> USE DEF radius, ssh, SameJob
<1>1. Acceptable(v) => Acceptable(v)'
  <2>1. job[v].mode \in Modes
    BY JobsFields DEF TypeOK
  <2>. QED BY <2>1 DEF Acceptable, Modes, read_key_lines, console_password_set
<1>2. UNCHANGED <<Applied, Settings>>
  BY DEF Applied, Settings
<1>3. ConfigureInv(v)'
  BY <1>1, <1>2 DEF JobInv, ConfigureInv
<1>4. ResetInv(v)'
  BY DEF JobInv, ResetInv
<1>5. ApplyInv(v)'
  BY DEF JobInv, ApplyInv
<1>6. DeleteInv(v)' /\ SourceInv(v)'
  BY DEF JobInv, DeleteInv, SourceInv, At
<1>. QED BY <1>3, <1>4, <1>5, <1>6 DEF JobInv

\* A process that changes keys or makes a backup keeps the door open only.
LEMMA KeyJob ==
    ASSUME TypeOK, ShapeInv, NEW v \in Worker, JobInv(v), SameJob(v),
           job[v].op \notin ModeWriters,
           job[v].op # "delete" \/ authMode' = authMode
    PROVE  JobInv(v)'
<1>1. job[v] \in Jobs /\ OneShape(v)
  BY ShapeParts DEF TypeOK
<1>2. job[v].at \in {"idle", "readKeys", "writeKeys", "create"}
  BY <1>1, JobsFields
     DEF Steps, OneShape, At, Idle, FormSteps, ApplySteps, UndoSteps, ModeWriters
<1>3. job'[v].op \notin ModeWriters /\ job'[v].at = job[v].at
  BY DEF SameJob
<1>4. DeleteInv(v)'
  BY DEF JobInv, DeleteInv, At, SameJob
<1>. QED BY <1>2, <1>3, <1>4
         DEF JobInv, ConfigureInv, ResetInv, ApplyInv, SourceInv, UndoSteps, ApplySteps,
             ModeWriters

\* No process begins or changes its operation.
LEMMA ExclusiveFrame ==
    ASSUME ExclusiveInv,
           \A v \in Worker : \/ job'[v] = NoJob
                             \/ job'[v].op = job[v].op /\ job'[v].clash = job[v].clash,
           "overlap" \in since => "overlap" \in since' \/ \A v \in Worker : ~job'[v].clash
    PROVE  ExclusiveInv'
<1>1. \A p : ~Conflict("none", p) /\ ~Conflict(p, "none")
  BY DEF Conflict, ModeWriters
<1>. QED BY <1>1, NoJobType DEF ExclusiveInv

\* What the files owe one another.
FilesInv == SshdInv /\ DoorInv /\ ShownInv

LEMMA Overlapped == "overlap" \in since' => FilesInv'
BY DEF FilesInv, SshdInv, DoorInv, ShownInv

\* The steps at which a process answers for files that do not fit.
InBetween == {"pam", "reload", "undoDropin", "meta"}

\* It holds while a process elsewhere changes keys, sets the password, has a
\* server verified.
LEMMA FilesFrame ==
    ASSUME FilesInv, NEW w \in Worker,
           \A v \in Worker \ {w} : job'[v].at = job[v].at /\ job'[v].op = job[v].op,
           UNCHANGED <<radius, ssh, authMode>>, since \subseteq since',
           verified \subseteq verified', password => password',
           authMode = "local_key" /\ keys # {} => keys' # {},
           ~Leaving(w), job[w].at \notin InBetween
    PROVE  FilesInv'
<1> USE DEF radius, ssh
<1>1. SshdInv'
  <2>1. \A v \in Worker : job'[v].at \notin {"pam", "reload", "undoDropin"} =>
          job[v].at \notin {"pam", "reload", "undoDropin"}
    BY DEF InBetween
  <2>. QED BY <2>1 DEF FilesInv, SshdInv
<1>2. DoorInv'
  <2>1. \A v \in Worker : Leaving(v) => Leaving(v)'
    BY DEF Leaving
  <2>2. since' \cap {"restore", "overlap"} = {} => Opens(authMode)'
    BY DEF FilesInv, DoorInv, Opens
  <2>3. since' = {} => since = {}
    OBVIOUS
  <2>. QED BY <2>1, <2>2, <2>3 DEF FilesInv, DoorInv
<1>3. ShownInv'
  <2>1. \A v \in Worker : At(v, "meta") => At(v, "meta")'
    BY DEF At, InBetween
  <2>2. since' \cap {"crash", "restore", "overlap"} = {} =>
          since \cap {"crash", "restore", "overlap"} = {}
    OBVIOUS
  <2>. QED BY <2>1, <2>2 DEF FilesInv, ShownInv
<1>. QED BY <1>1, <1>2, <1>3 DEF FilesInv

\* The same, of a process that is alone with the files.
MyFilesInv(w) ==
  /\ "overlap" \notin since /\ job[w].at \notin {"pam", "reload", "undoDropin"} =>
       dropin = sshd
  /\ since \cap {"restore", "overlap"} = {} =>
       /\ authMode = "local_key" => keys # {}
       /\ authMode = "local_password" => password
  /\ authMode = "radius" /\ since = {} /\ pamRadius = NoServer => Leaving(w)
  /\ since \cap {"crash", "restore", "overlap"} = {} /\ checked =>
       pamRadius \in verified \/ job[w].at = "meta"

LEMMA MyFiles ==
    ASSUME TypeOK, ShapeInv, FilesInv, NEW w \in Worker, Alone(w)
    PROVE  MyFilesInv(w)
<1>1. \A v \in Worker \ {w} : job[v].at \in {"idle", "readKeys", "writeKeys", "create"}
  BY AloneSteps DEF Alone
<1>2. \A v \in Worker \ {w} : ~Leaving(v)
  BY <1>1 DEF Leaving, ApplySteps
<1>. QED BY <1>1, <1>2 DEF MyFilesInv, FilesInv, SshdInv, DoorInv, ShownInv, Opens, At

LEMMA TheirFiles ==
    ASSUME NEW w \in Worker, MyFilesInv(w)'
    PROVE  FilesInv'
BY DEF MyFilesInv, FilesInv, SshdInv, DoorInv, ShownInv, Opens, At

-----------------------------------------------------------------------------
(* The steps of a process that is alone with the files.                    *)

\* What such a step owes: its own part, and the files.
Keeps(w) == /\ JobInv(w)' /\ FilesInv'
            /\ \/ job'[w] = NoJob
               \/ job'[w].op = job[w].op /\ job'[w].clash = job[w].clash
            /\ \A v \in Worker \ {w} : job'[v] = job[v]

LEMMA SerialFrame ==
    ASSUME TypeOK, ShapeInv, SerialInv, NEW w \in Worker,
           job[w].op \in ModeWriters, ~job[w].clash, Keeps(w)
    PROVE  SerialInv'
<1>1. Alone(w)
  BY OthersAside DEF SerialInv
<1>2. \A v \in Worker : ~job'[v].clash
  BY <1>1, NoJobType DEF Keeps, Alone
<1>3. ExclusiveInv'
  BY <1>2, ExclusiveFrame DEF SerialInv, Keeps
<1>4. ASSUME NEW v \in Worker PROVE JobInv(v)'
  <2>1. CASE v # w
    <3>1. SameJob(v) /\ JobInv(v) /\ job[v].op \notin ModeWriters \cup {"delete"}
      BY <1>1, <2>1 DEF Alone, Keeps, SameJob, SerialInv, ModeWriters
    <3>. QED BY <3>1, KeyJob
  <2>. QED BY <2>1 DEF Keeps
<1>. QED BY <1>3, <1>4 DEF SerialInv, Keeps, FilesInv

LEMMA EndsKeeps ==
    ASSUME TypeOK, NEW w \in Worker, NEW result \in {"done", "refused", "failed"},
           Ends(w, result), FilesInv'
    PROVE  Keeps(w)
BY EndsJob, IdleJob DEF Keeps

LEMMA GotoKeeps ==
    ASSUME TypeOK, NEW w \in Worker, NEW step \in Steps, Goto(w, step), JobInv(w)', FilesInv'
    PROVE  Keeps(w)
BY GotoJob DEF Keeps

\* What such a process knows.
LEMMA Knows ==
    ASSUME TypeOK, ShapeInv, SerialInv, NEW w \in Worker,
           job[w].op \in ModeWriters, ~job[w].clash
    PROVE  OneShape(w) /\ JobInv(w) /\ FilesInv /\ MyFilesInv(w)
<1>1. Alone(w) /\ FilesInv
  BY OthersAside DEF SerialInv, FilesInv
<1>. QED BY <1>1, MyFiles, ShapeParts DEF SerialInv

\* A process before its first change of the files.
LEMMA FormKeeps ==
    ASSUME TypeOK, ShapeInv, SerialInv, NEW w \in Worker, ~job[w].clash,
           SetPassword(w) \/ CheckForm(w) \/ radius_server_check(w) \/ GiveUp(w)
    PROVE  Keeps(w)
<1>1. OneShape(w) /\ JobInv(w) /\ FilesInv /\ job[w] \in Jobs
  BY ShapeParts DEF SerialInv, FilesInv, TypeOK
<1>2. job[w].op = "configure" /\ job[w].at \in FormSteps /\ job[w].mode \in Modes
  BY <1>1, JobsFields DEF SetPassword, CheckForm, radius_server_check, GiveUp, OneShape, At,
                          FormSteps
<1>3. ~Leaving(w) /\ job[w].at \notin InBetween
  BY <1>2 DEF Leaving, InBetween, FormSteps, ApplySteps
<1>4. job[w].found = Settings
  BY <1>1, <1>2 DEF JobInv, ConfigureInv
<1>5. UNCHANGED <<radius, ssh, authMode>>
  BY DEF SetPassword, CheckForm, radius_server_check, GiveUp, files
<1>6. UNCHANGED <<Settings, Applied>>
  BY <1>5 DEF Settings, Applied, radius, ssh
<1> USE DEF Steps
<1>7. CASE SetPassword(w)
  <2>1. job'[w].at = "check" /\ job'[w].op = "configure" /\ job'[w].found = job[w].found
        /\ \A v \in Worker \ {w} : job'[v] = job[v]
    BY <1>2, <1>7, GotoJob DEF SetPassword
  <2>2. JobInv(w)'
    BY <1>4, <1>6, <2>1 DEF JobInv, ConfigureInv, ResetInv, ApplyInv, DeleteInv, SourceInv, FormSteps,
                            ApplySteps, UndoSteps
  <2>3. FilesInv'
    BY <1>1, <1>3, <1>5, <1>7, <2>1, FilesFrame DEF SetPassword, Unknowing, past
  <2>. QED BY <1>7, <2>2, <2>3, GotoKeeps DEF SetPassword
<1>8. CASE CheckForm(w)
  <2>1. \A v \in Worker \ {w} : job'[v] = job[v]
    BY <1>8, GotoJob, EndsJob DEF CheckForm
  <2>2. FilesInv'
    BY <1>1, <1>3, <1>8, <2>1, FilesFrame DEF CheckForm, files, past
  <2>3. ASSUME NEW step \in {"radtest", "radius"}, Goto(w, step), Acceptable(w),
               step = "radius" => job[w].mode # "radius"
        PROVE  Keeps(w)
    <3>1. job'[w].at = step /\ job'[w].op = "configure" /\ job'[w].found = job[w].found
          /\ job'[w].mode = job[w].mode /\ job'[w].server = job[w].server
      BY <1>2, <2>3, GotoJob
    <3>2. Acceptable(w)'
      BY <1>2, <1>8, <2>3, <3>1
         DEF CheckForm, files, Acceptable, Modes, read_key_lines, console_password_set
    <3>3. job'[w].found = Settings' /\ job'[w].found[2] = Applied'
      BY <1>4, <1>6, <3>1, SettingsType
    <3>4. JobInv(w)'
      BY <2>3, <3>1, <3>2, <3>3
         DEF JobInv, ConfigureInv, ResetInv, ApplyInv, DeleteInv, SourceInv, FormSteps, ApplySteps,
             UndoSteps
    <3>. QED BY <2>2, <2>3, <3>4, GotoKeeps
  <2>. QED BY <1>8, <2>2, <2>3, EndsKeeps DEF CheckForm
<1>9. CASE radius_server_check(w)
  <2>1. \A v \in Worker \ {w} : job'[v] = job[v]
    BY <1>9, GotoJob, EndsJob DEF radius_server_check
  <2>2. FilesInv'
    BY <1>1, <1>3, <1>9, <2>1, FilesFrame DEF radius_server_check, files
  <2>3. CASE Goto(w, "radius") /\ verified' = verified \cup {job[w].server}
    <3>1. job'[w].at = "radius" /\ job'[w].op = "configure" /\ job'[w].found = job[w].found
          /\ job'[w].mode = job[w].mode /\ job'[w].server = job[w].server
      BY <1>2, <2>3, GotoJob
    <3>2. Acceptable(w)
      BY <1>1, <1>2, <1>9 DEF radius_server_check, At, JobInv, ConfigureInv
    <3>3. Acceptable(w)'
      BY <1>2, <1>9, <3>1, <3>2
         DEF radius_server_check, files, Acceptable, Modes, read_key_lines, console_password_set
    <3>4. job'[w].found[2] = Applied'
      BY <1>4, <1>6, <3>1, SettingsType
    <3>5. JobInv(w)'
      BY <2>3, <3>1, <3>3, <3>4
         DEF JobInv, ConfigureInv, ResetInv, ApplyInv, DeleteInv, SourceInv, FormSteps, ApplySteps,
             UndoSteps
    <3>. QED BY <2>2, <2>3, <3>5, GotoKeeps
  <2>. QED BY <1>9, <2>2, <2>3, EndsKeeps DEF radius_server_check
<1>10. CASE GiveUp(w)
  <2>0. job \in [Worker -> Jobs]
    BY DEF TypeOK
  <2>1. (job' = job \/ job'[w] = NoJob) /\ \A v \in Worker \ {w} : job'[v] = job[v]
    BY <1>10, <2>0 DEF GiveUp
  <2>2. FilesInv'
    BY <1>1, <1>3, <1>10, <2>1, FilesFrame DEF GiveUp, files, past
  <2>3. JobInv(w)'
    <3>1. job' = job => SameJob(w)
      BY DEF SameJob
    <3>2. UNCHANGED <<keys, password, radius, ssh, authMode, verified, since>>
      BY <1>10 DEF GiveUp, files, past
    <3>. QED BY <1>1, <1>10, <2>1, <3>1, <3>2, JobFrame, IdleJob DEF GiveUp
  <2>. QED BY <2>1, <2>2, <2>3, NoJobType DEF Keeps
<1>. QED BY <1>7, <1>8, <1>9, <1>10

LEMMA RadiusKeeps ==
    ASSUME TypeOK, ShapeInv, SerialInv, NEW w \in Worker, ~job[w].clash, WriteRadius(w) \/ WriteMeta(w)
    PROVE  Keeps(w)
<1>1. OneShape(w) /\ JobInv(w) /\ FilesInv /\ job[w] \in Jobs
  BY ShapeParts DEF SerialInv, FilesInv, TypeOK
<1>2. job[w].op = "configure" /\ job[w].at \in {"radius", "meta"} /\ job[w].mode \in Modes
  BY <1>1, JobsFields DEF WriteRadius, WriteMeta, OneShape, At
<1>3. MyFilesInv(w)
  BY <1>2, Knows DEF ModeWriters
<1>4. UNCHANGED <<keys, password, dropin, pam, sshd, authMode, verified, since>>
  BY DEF WriteRadius, WriteMeta, ssh, Unknowing, past
<1>5. UNCHANGED Applied
  BY <1>4 DEF Applied
<1>6. /\ Acceptable(w) /\ job[w].found[2] = Applied
      /\ job[w].mode = "radius" => job[w].server \in verified
  BY <1>1, <1>2 DEF JobInv, ConfigureInv, FormSteps
<1>7. ASSUME NEW step \in Steps, Goto(w, step)
      PROVE  /\ job'[w].at = step /\ job'[w].op = "configure" /\ job'[w].found = job[w].found
             /\ job'[w].mode = job[w].mode /\ job'[w].server = job[w].server
             /\ Acceptable(w)'
  <2>1. /\ job'[w].at = step /\ job'[w].op = "configure" /\ job'[w].found = job[w].found
        /\ job'[w].mode = job[w].mode /\ job'[w].server = job[w].server
    BY <1>2, <1>7, GotoJob
  <2>2. Acceptable(w)'
    BY <1>2, <1>4, <1>6, <2>1 DEF Acceptable, Modes, read_key_lines, console_password_set
  <2>. QED BY <2>1, <2>2
<1>8. CASE WriteRadius(w)
  <2>1. Goto(w, "meta") /\ job[w].at = "radius"
    BY <1>8 DEF WriteRadius, At
  <2>2. pamRadius' = job[w].server /\ checked' = checked
    BY <1>8 DEF WriteRadius
  <2>3. JobInv(w)'
    BY <1>4, <1>5, <1>6, <1>7, <2>1, <2>2
       DEF Steps, JobInv, ConfigureInv, ResetInv, ApplyInv, DeleteInv, SourceInv, FormSteps, ApplySteps,
           UndoSteps
  <2>4. job'[w].at = "meta" /\ Leaving(w)'
    BY <1>7, <2>1 DEF Steps, Leaving
  <2>5. MyFilesInv(w)'
    BY <1>3, <1>4, <2>1, <2>2, <2>4 DEF MyFilesInv
  <2>. QED BY <2>1, <2>3, <2>5, TheirFiles, GotoKeeps DEF Steps
<1>9. CASE WriteMeta(w)
  <2>1. Goto(w, "apply") /\ job[w].at = "meta"
    BY <1>9 DEF WriteMeta, At
  <2>2. pamRadius' = pamRadius /\ checked' = (job[w].mode = "radius")
        /\ pamRadius = job[w].server
    BY <1>1, <1>2, <1>9, <2>1 DEF WriteMeta, JobInv, ConfigureInv
  <2>3. JobInv(w)'
    BY <1>4, <1>5, <1>6, <1>7, <2>1, <2>2
       DEF Steps, JobInv, ConfigureInv, ResetInv, ApplyInv, DeleteInv, SourceInv, FormSteps, ApplySteps,
           UndoSteps
  <2>4. job'[w].at = "apply" /\ Leaving(w)'
    BY <1>7, <2>1 DEF Steps, Leaving, ApplySteps
  <2>5. MyFilesInv(w)'
    BY <1>3, <1>4, <1>6, <2>1, <2>2, <2>4 DEF MyFilesInv
  <2>. QED BY <2>1, <2>3, <2>5, TheirFiles, GotoKeeps DEF Steps
<1>. QED BY <1>8, <1>9

\* auth.conf is what the other files are by now.
LEMMA StoreKeeps ==
    ASSUME TypeOK, ShapeInv, SerialInv, NEW w \in Worker, ~job[w].clash, StoreMode(w)
    PROVE  Keeps(w)
<1>1. OneShape(w) /\ JobInv(w) /\ FilesInv /\ job[w] \in Jobs
  BY ShapeParts DEF SerialInv, FilesInv, TypeOK
<1>2. job[w].at = "store" /\ job[w].op \in {"configure", "reset"} /\ job[w].mode \in Modes
  BY <1>1, JobsFields DEF StoreMode, OneShape, At
<1>3. MyFilesInv(w)
  BY <1>2, Knows DEF ModeWriters
<1>4. UNCHANGED <<keys, password, dropin, sshd, pamRadius, checked, verified>>
      /\ authMode' = job[w].mode /\ since' = {}
  BY DEF StoreMode, ssh, radius
<1>5. /\ job[w].mode = "local_key" => keys # {}
      /\ job[w].mode = "local_password" => password
      /\ job[w].mode = "radius" => pamRadius # NoServer
      /\ checked => pamRadius \in verified
  <2>1. CASE job[w].op = "configure"
    <3>1. /\ Acceptable(w) /\ pamRadius = job[w].server /\ checked = (job[w].mode = "radius")
          /\ job[w].mode = "radius" => job[w].server \in verified
      BY <1>1, <1>2, <2>1 DEF JobInv, ConfigureInv, FormSteps
    <3>. QED BY <1>2, <3>1 DEF Acceptable, Modes, read_key_lines, console_password_set
  <2>2. CASE job[w].op = "reset"
    BY <1>1, <1>2, <2>2 DEF JobInv, ResetInv
  <2>. QED BY <1>2, <2>1, <2>2
<1>6. MyFilesInv(w)'
  <2>1. dropin' = sshd'
    BY <1>1, <1>2, <1>4 DEF JobInv, ApplyInv
  <2>. QED BY <1>4, <1>5, <2>1 DEF MyFilesInv
<1>. QED BY <1>6, TheirFiles, EndsKeeps DEF StoreMode

-----------------------------------------------------------------------------
(* apply_authentication_files.                                             *)

LEMMA ApplyReadKeeps ==
    ASSUME TypeOK, ShapeInv, SerialInv, NEW w \in Worker, ~job[w].clash, ApplyRead(w)
    PROVE  Keeps(w)
<1>1. OneShape(w) /\ JobInv(w) /\ FilesInv /\ job[w] \in Jobs /\ job \in [Worker -> Jobs]
  BY ShapeParts DEF SerialInv, FilesInv, TypeOK
<1>2. job[w].at = "apply" /\ job[w].op \in {"configure", "sync", "reset", "restore"}
      /\ job[w].mode \in Modes
  BY <1>1, JobsFields DEF ApplyRead, OneShape, At, ApplySteps
<1>3. MyFilesInv(w)
  BY <1>2, Knows DEF ModeWriters
<1>4. UNCHANGED <<keys, password, dropin, pam, sshd, pamRadius, checked, authMode, verified,
                  since>>
  BY DEF ApplyRead, files, ssh, radius, Unknowing, past
<1>5. job' = [job EXCEPT ![w] = [job[w] EXCEPT !.at = "dropin", !.ssh = dropin, !.pam = pam]]
  BY DEF ApplyRead
<1>6. /\ job'[w].at = "dropin" /\ job'[w].op = job[w].op /\ job'[w].found = job[w].found
      /\ job'[w].clash = job[w].clash
      /\ job'[w].mode = job[w].mode /\ job'[w].server = job[w].server
      /\ job'[w].ssh = dropin /\ job'[w].pam = pam
      /\ \A v \in Worker \ {w} : job'[v] = job[v]
  BY <1>1, <1>5, JobsFields
<1>7. "overlap" \notin since => dropin = sshd
  BY <1>2, <1>3 DEF MyFilesInv
<1>8. ConfigureInv(w)'
  <2>1. UNCHANGED Applied
    BY <1>4 DEF Applied
  <2>2. Acceptable(w) => Acceptable(w)'
    BY <1>2, <1>4, <1>6 DEF Acceptable, Modes, read_key_lines, console_password_set
  <2>. QED BY <1>1, <1>2, <1>4, <1>6, <2>1, <2>2
           DEF JobInv, ConfigureInv, FormSteps, ApplySteps, UndoSteps
<1>9. ResetInv(w)'
  BY <1>1, <1>2, <1>4, <1>6 DEF JobInv, ResetInv, ApplySteps
<1>10. ApplyInv(w)' /\ DeleteInv(w)'
  BY <1>2, <1>4, <1>6, <1>7 DEF ApplyInv, DeleteInv, UndoSteps
<1>12. SourceInv(w)'
  BY <1>1, <1>2, <1>4, <1>6 DEF JobInv, SourceInv, At
<1>11. MyFilesInv(w)'
  <2>1. Leaving(w) => Leaving(w)'
    BY <1>2, <1>6 DEF Leaving, ApplySteps
  <2>. QED BY <1>2, <1>3, <1>4, <1>6, <1>7, <2>1 DEF MyFilesInv
<1>. QED BY <1>6, <1>8, <1>9, <1>10, <1>11, <1>12, TheirFiles DEF Keeps, JobInv

\* What was there before, and the RADIUS files, stay known through the steps.
LEMMA ApplyGoto ==
    ASSUME TypeOK, ShapeInv, SerialInv, NEW w \in Worker, ~job[w].clash, NEW step \in Steps,
           job[w].at \in {"dropin", "pam", "reload"} \cup UndoSteps, Goto(w, step),
           step \in {"pam", "reload", "store"} \cup UndoSteps,
           UNCHANGED <<keys, password, pamRadius, checked, verified, authMode>>,
           since \subseteq since', step # "store" => sshd' = sshd
    PROVE  /\ ConfigureInv(w)' /\ ResetInv(w)' /\ DeleteInv(w)' /\ SourceInv(w)'
           /\ job'[w].at = step /\ job'[w].mode = job[w].mode
           /\ job'[w].ssh = job[w].ssh /\ job'[w].pam = job[w].pam
           /\ step \in {"pam", "reload", "store"} /\ Leaving(w) => Leaving(w)'
           /\ MyFilesInv(w) /\ job[w].mode \in Modes
<1>1. OneShape(w) /\ JobInv(w) /\ FilesInv /\ job[w] \in Jobs
  BY ShapeParts DEF SerialInv, FilesInv, TypeOK
<1>2. job[w].op \in {"configure", "sync", "reset", "restore"} /\ job[w].mode \in Modes
  BY <1>1, JobsFields DEF OneShape, ApplySteps
<1>3. MyFilesInv(w)
  BY <1>2, Knows DEF ModeWriters
<1>4. /\ job'[w].at = step /\ job'[w].op = job[w].op /\ job'[w].found = job[w].found
      /\ job'[w].mode = job[w].mode /\ job'[w].server = job[w].server
      /\ job'[w].ssh = job[w].ssh /\ job'[w].pam = job[w].pam
  BY GotoJob
<1>5. ConfigureInv(w)'
  <2>1. Acceptable(w) => Acceptable(w)'
    BY <1>2, <1>4 DEF Acceptable, Modes, read_key_lines, console_password_set
  <2>2. job[w].op = "configure" =>
          job[w].found[2] = <<job[w].ssh, job[w].pam, sshd, authMode>>
    BY <1>1 DEF JobInv, ConfigureInv, ApplyInv, Applied
  <2>. QED BY <1>1, <1>2, <1>4, <2>1, <2>2
           DEF JobInv, ConfigureInv, FormSteps, ApplySteps, UndoSteps
<1>6. ResetInv(w)'
  BY <1>1, <1>2, <1>4 DEF JobInv, ResetInv, ApplySteps, UndoSteps
<1>7. DeleteInv(w)' /\ SourceInv(w)'
  BY <1>1, <1>2, <1>4 DEF JobInv, DeleteInv, SourceInv, At, UndoSteps
<1>8. step \in {"pam", "reload", "store"} /\ Leaving(w) => Leaving(w)'
  BY <1>4 DEF Leaving, ApplySteps
<1>. QED BY <1>2, <1>3, <1>4, <1>5, <1>6, <1>7, <1>8

LEMMA WriteKeeps ==
    ASSUME TypeOK, ShapeInv, SerialInv, NEW w \in Worker, ~job[w].clash,
           \/ WriteDropin(w, "dropin", "pam", job[w].mode)
           \/ WritePam(w, "pam", "reload", job[w].mode = "radius")
    PROVE  Keeps(w)
<1>1. ApplyInv(w)
  BY DEF SerialInv, JobInv
<1>2. UNCHANGED <<keys, password, pamRadius, checked, sshd, authMode, verified, since>>
  BY DEF WriteDropin, WritePam, radius, Unknowing, past
<1>3. CASE WriteDropin(w, "dropin", "pam", job[w].mode)
  <2>1. job[w].at = "dropin" /\ Goto(w, "pam") /\ dropin' = job[w].mode /\ pam' = pam
    BY <1>3 DEF WriteDropin, At
  <2>2. /\ ConfigureInv(w)' /\ ResetInv(w)' /\ DeleteInv(w)' /\ SourceInv(w)'
        /\ job'[w].at = "pam" /\ job'[w].mode = job[w].mode
        /\ job'[w].ssh = job[w].ssh /\ job'[w].pam = job[w].pam
        /\ Leaving(w) => Leaving(w)'
        /\ MyFilesInv(w)
    BY <1>2, <2>1, ApplyGoto DEF Steps
  <2>3. ApplyInv(w)'
    BY <1>1, <1>2, <2>1, <2>2 DEF ApplyInv, UndoSteps
  <2>4. MyFilesInv(w)'
    BY <1>2, <2>1, <2>2 DEF MyFilesInv
  <2>. QED BY <2>1, <2>2, <2>3, <2>4, TheirFiles, GotoKeeps DEF JobInv, Steps
<1>4. CASE WritePam(w, "pam", "reload", job[w].mode = "radius")
  <2>1. job[w].at = "pam" /\ Goto(w, "reload") /\ pam' = (job[w].mode = "radius")
        /\ dropin' = dropin
    BY <1>4 DEF WritePam, At
  <2>2. /\ ConfigureInv(w)' /\ ResetInv(w)' /\ DeleteInv(w)' /\ SourceInv(w)'
        /\ job'[w].at = "reload" /\ job'[w].mode = job[w].mode
        /\ job'[w].ssh = job[w].ssh /\ job'[w].pam = job[w].pam
        /\ Leaving(w) => Leaving(w)'
        /\ MyFilesInv(w)
    BY <1>2, <2>1, ApplyGoto DEF Steps
  <2>3. ApplyInv(w)'
    BY <1>1, <1>2, <2>1, <2>2 DEF ApplyInv, UndoSteps
  <2>4. MyFilesInv(w)'
    BY <1>2, <2>1, <2>2 DEF MyFilesInv
  <2>. QED BY <2>1, <2>2, <2>3, <2>4, TheirFiles, GotoKeeps DEF JobInv, Steps
<1>. QED BY <1>3, <1>4

LEMMA ReloadKeeps ==
    ASSUME TypeOK, ShapeInv, SerialInv, NEW w \in Worker, ~job[w].clash, Reload(w)
    PROVE  Keeps(w)
<1>1. ApplyInv(w) /\ OneShape(w)
  BY ShapeParts DEF SerialInv, JobInv
<1>2. UNCHANGED <<keys, password, pamRadius, checked, dropin, pam, authMode, verified, since>>
      /\ sshd' = dropin /\ job[w].at = "reload"
  BY DEF Reload, radius, past, At
<1>3. CASE Stores(w) /\ Goto(w, "store")
  <2>1. /\ ConfigureInv(w)' /\ ResetInv(w)' /\ DeleteInv(w)' /\ SourceInv(w)'
        /\ job'[w].at = "store" /\ job'[w].mode = job[w].mode
        /\ Leaving(w) => Leaving(w)'
        /\ MyFilesInv(w)
    BY <1>2, <1>3, ApplyGoto DEF Steps
  <2>2. ApplyInv(w)'
    BY <1>1, <1>2, <2>1 DEF ApplyInv, UndoSteps
  <2>3. MyFilesInv(w)'
    BY <1>2, <2>1 DEF MyFilesInv
  <2>. QED BY <1>3, <2>1, <2>2, <2>3, TheirFiles, GotoKeeps DEF JobInv, Steps
<1>4. CASE ~Stores(w) /\ Ends(w, "done")
  <2>1. ~Leaving(w) /\ job[w].op \in {"sync", "restore"}
    BY <1>1, <1>2, <1>4 DEF Stores, Leaving, OneShape, ApplySteps
  <2>2. MyFilesInv(w)
    BY <2>1, Knows DEF ModeWriters
  <2>3. MyFilesInv(w)'
    BY <1>2, <2>1, <2>2 DEF MyFilesInv
  <2>. QED BY <1>4, <2>3, TheirFiles, EndsKeeps
<1>. QED BY <1>3, <1>4 DEF Reload

\* A failure is remembered until a configuration is saved.
LEMMA ApplyFailsKeeps ==
    ASSUME TypeOK, ShapeInv, SerialInv, NEW w \in Worker, ~job[w].clash, ApplyFails(w)
    PROVE  Keeps(w)
<1>1. ApplyInv(w)
  BY DEF SerialInv, JobInv
<1>2. UNCHANGED <<keys, password, pamRadius, checked, dropin, pam, sshd, authMode, verified>>
      /\ since' = since \cup {"failure"} /\ job[w].at \in {"dropin", "pam", "reload"}
      /\ Goto(w, "undoDropin")
  BY DEF ApplyFails, files, radius, ssh, At
<1>3. /\ ConfigureInv(w)' /\ ResetInv(w)' /\ DeleteInv(w)' /\ SourceInv(w)'
      /\ job'[w].at = "undoDropin"
      /\ job'[w].ssh = job[w].ssh /\ job'[w].pam = job[w].pam
      /\ MyFilesInv(w)
  BY <1>2, ApplyGoto DEF Steps, UndoSteps
<1>4. ApplyInv(w)'
  BY <1>1, <1>2, <1>3 DEF ApplyInv, UndoSteps
<1>5. MyFilesInv(w)'
  BY <1>2, <1>3 DEF MyFilesInv
<1>. QED BY <1>2, <1>3, <1>4, <1>5, TheirFiles, GotoKeeps DEF JobInv, Steps

LEMMA UndoKeeps ==
    ASSUME TypeOK, ShapeInv, SerialInv, NEW w \in Worker, ~job[w].clash, Undo(w)
    PROVE  Keeps(w)
<1>1. ApplyInv(w)
  BY DEF SerialInv, JobInv
<1>2. UNCHANGED <<keys, password, pamRadius, checked, authMode, verified, since>>
  BY DEF Undo, WriteDropin, WritePam, UndoReload, radius, Unknowing, past
<1>3. job[w].at \in UndoSteps /\ "failure" \in since
  BY <1>1 DEF Undo, WriteDropin, WritePam, UndoReload, At, UndoSteps, ApplyInv
<1>4. CASE WriteDropin(w, "undoDropin", "undoPam", job[w].ssh)
  <2>1. job[w].at = "undoDropin" /\ Goto(w, "undoPam") /\ dropin' = job[w].ssh
        /\ pam' = pam /\ sshd' = sshd
    BY <1>4 DEF WriteDropin, At
  <2>2. /\ ConfigureInv(w)' /\ ResetInv(w)' /\ DeleteInv(w)' /\ SourceInv(w)'
        /\ job'[w].at = "undoPam"
        /\ job'[w].ssh = job[w].ssh /\ job'[w].pam = job[w].pam
        /\ MyFilesInv(w)
    BY <1>2, <2>1, ApplyGoto DEF Steps, UndoSteps
  <2>3. ApplyInv(w)'
    BY <1>1, <1>2, <1>3, <2>1, <2>2 DEF ApplyInv, UndoSteps
  <2>4. MyFilesInv(w)'
    BY <1>1, <1>2, <1>3, <2>1, <2>2 DEF MyFilesInv, ApplyInv, UndoSteps
  <2>. QED BY <2>1, <2>2, <2>3, <2>4, TheirFiles, GotoKeeps DEF JobInv, Steps
<1>5. CASE WritePam(w, "undoPam", "undoReload", job[w].pam)
  <2>1. job[w].at = "undoPam" /\ Goto(w, "undoReload") /\ pam' = job[w].pam
        /\ dropin' = dropin /\ sshd' = sshd
    BY <1>5 DEF WritePam, At
  <2>2. /\ ConfigureInv(w)' /\ ResetInv(w)' /\ DeleteInv(w)' /\ SourceInv(w)'
        /\ job'[w].at = "undoReload"
        /\ job'[w].ssh = job[w].ssh /\ job'[w].pam = job[w].pam
        /\ MyFilesInv(w)
    BY <1>2, <2>1, ApplyGoto DEF Steps, UndoSteps
  <2>3. ApplyInv(w)'
    BY <1>1, <1>2, <1>3, <2>1, <2>2 DEF ApplyInv, UndoSteps
  <2>4. MyFilesInv(w)'
    BY <1>1, <1>2, <1>3, <2>1, <2>2 DEF MyFilesInv
  <2>. QED BY <2>1, <2>2, <2>3, <2>4, TheirFiles, GotoKeeps DEF JobInv, Steps
<1>6. CASE UndoReload(w)
  <2>1. job[w].op \in {"configure", "sync", "reset", "restore"} /\ job[w].at = "undoReload"
    BY <1>6, ShapeParts DEF UndoReload, At, OneShape, UndoSteps
  <2>2. MyFilesInv(w)
    BY <2>1, Knows DEF ModeWriters
  <2>3. dropin' = dropin /\ ("overlap" \notin since => sshd' = sshd /\ sshd = dropin)
    BY <1>1, <1>6, <2>1 DEF UndoReload, ApplyInv, UndoSteps
  <2>4. MyFilesInv(w)'
    BY <1>2, <1>3, <2>1, <2>2, <2>3 DEF MyFilesInv
  <2>. QED BY <1>6, <2>4, TheirFiles, EndsKeeps DEF UndoReload
<1>. QED BY <1>4, <1>5, <1>6 DEF Undo

-----------------------------------------------------------------------------
(* Reset and restore.                                                      *)

LEMMA ResetKeeps ==
    ASSUME TypeOK, ShapeInv, SerialInv, NEW w \in Worker, ~job[w].clash,
           Wipe(w) \/ ChooseDefault(w) \/ ResetFails(w)
    PROVE  Keeps(w)
<1>1. JobInv(w) /\ FilesInv /\ job[w] \in Jobs /\ job \in [Worker -> Jobs] /\ OneShape(w)
  BY ShapeParts DEF SerialInv, FilesInv, TypeOK
<1>2. job[w].op = "reset" /\ job[w].at \in {"wipe", "choose"}
  BY <1>1 DEF Wipe, ChooseDefault, ResetFails, At, OneShape
<1>3. MyFilesInv(w)
  BY <1>2, Knows DEF ModeWriters
<1>4. UNCHANGED <<keys, password, dropin, pam, sshd, authMode, verified>>
  BY DEF Wipe, ChooseDefault, ResetFails, files, ssh, Unknowing, past
<1>5. CASE Wipe(w)
  <2>1. Goto(w, "choose") /\ pamRadius' = NoServer /\ checked' = FALSE /\ since' = since
    BY <1>5 DEF Wipe, Unknowing, past
  <2>2. job'[w].at = "choose" /\ job'[w].op = "reset"
    BY <1>2, <2>1, GotoJob DEF Steps
  <2>3. JobInv(w)'
    BY <2>1, <2>2 DEF JobInv, ConfigureInv, ResetInv, ApplyInv, DeleteInv, SourceInv, ApplySteps, UndoSteps
  <2>4. Leaving(w)'
    BY <2>2 DEF Leaving
  <2>5. MyFilesInv(w)'
    BY <1>2, <1>3, <1>4, <2>1, <2>2, <2>4 DEF MyFilesInv
  <2>. QED BY <2>1, <2>3, <2>5, TheirFiles, GotoKeeps DEF Steps
<1>6. CASE ~Wipe(w)
  <2>1. job[w].at = "choose" /\ ~checked /\ UNCHANGED <<pamRadius, checked>>
    BY <1>1, <1>2, <1>6 DEF ChooseDefault, ResetFails, files, radius, At, JobInv, ResetInv
  <2>2. CASE /\ ChooseDefault(w)
             /\ console_password_set \/ read_key_lines # {}
    <3>1. DEFINE mode == IF console_password_set THEN "local_password" ELSE "local_key"
    <3>2. job' = [job EXCEPT ![w] = [job[w] EXCEPT !.at = "apply", !.mode = mode]]
          /\ since' = since
      BY <2>2 DEF ChooseDefault
    <3>3. /\ job'[w].at = "apply" /\ job'[w].op = "reset" /\ job'[w].mode = mode
          /\ job'[w].clash = job[w].clash
          /\ \A v \in Worker \ {w} : job'[v] = job[v]
      BY <1>1, <1>2, <3>2, JobsFields
    <3>4. \/ job'[w].mode = "local_key" /\ keys' # {}
          \/ job'[w].mode = "local_password" /\ password'
      BY <1>4, <2>2, <3>3 DEF console_password_set, read_key_lines
    <3>5. JobInv(w)'
      BY <2>1, <3>3, <3>4
         DEF JobInv, ConfigureInv, ResetInv, ApplyInv, DeleteInv, SourceInv, ApplySteps, UndoSteps
    <3>6. Leaving(w)'
      BY <3>3 DEF Leaving, ApplySteps
    <3>7. MyFilesInv(w)'
      BY <1>3, <1>4, <2>1, <3>2, <3>3, <3>6 DEF MyFilesInv
    <3>. QED BY <1>2, <3>3, <3>5, <3>7, TheirFiles DEF Keeps
  <2>3. CASE Ends(w, "failed") /\ since' = since \cup {"failure"}
    <3>1. job'[w].at = "idle"
      BY <2>3, EndsJob, NoJobType
    <3>2. MyFilesInv(w)'
      BY <1>3, <1>4, <2>1, <2>3, <3>1 DEF MyFilesInv
    <3>. QED BY <2>3, <3>2, TheirFiles, EndsKeeps
  <2>. QED BY <1>6, <2>2, <2>3 DEF ChooseDefault, ResetFails
<1>. QED BY <1>5, <1>6

LEMMA RestoreKeeps ==
    ASSUME TypeOK, ShapeInv, SerialInv, NEW w \in Worker, ~job[w].clash, backup_restore(w)
    PROVE  Keeps(w)
<1>1. job[w] \in Jobs /\ job \in [Worker -> Jobs] /\ OneShape(w)
  BY ShapeParts DEF TypeOK
<1>2. job[w].at = "install" /\ job[w].op = "restore"
  BY <1>1 DEF backup_restore, OneShape, At
<1>3. job' = [job EXCEPT ![w] = [job[w] EXCEPT !.at = "apply", !.mode = backup.mode]]
  BY DEF backup_restore
<1>4. /\ job'[w].at = "apply" /\ job'[w].op = "restore" /\ job'[w].clash = job[w].clash
      /\ \A v \in Worker \ {w} : job'[v] = job[v]
  BY <1>1, <1>2, <1>3, JobsFields
<1>5. MyFilesInv(w)
  BY <1>2, Knows DEF ModeWriters
<1>6. since' = since \cup {"restore"} /\ dropin' = dropin /\ sshd' = sshd
  BY DEF backup_restore, ssh
<1>7. MyFilesInv(w)'
  BY <1>2, <1>4, <1>5, <1>6 DEF MyFilesInv
<1>8. JobInv(w)'
  BY <1>4, <1>6 DEF JobInv, ConfigureInv, ResetInv, ApplyInv, DeleteInv, SourceInv, UndoSteps
<1>. QED BY <1>2, <1>4, <1>7, <1>8, TheirFiles DEF Keeps

-----------------------------------------------------------------------------
(* The other steps: of a key or a backup, and of overlapping requests.     *)

\* A step of w moves it on or ends it.
Moves(w) == /\ \A v \in Worker \ {w} : job'[v] = job[v]
            /\ \/ job'[w] = NoJob
               \/ job'[w].op = job[w].op /\ job'[w].clash = job[w].clash

Works(w) == Serve(w) \/ GiveUp(w) \/ ApplyFails(w) \/ ResetFails(w) \/ Collides(w)

LEMMA WorksMoves ==
    ASSUME TypeOK, NEW w \in Worker, Works(w)
    PROVE  Moves(w)
<1>1. job \in [Worker -> Jobs] /\ job[w] \in Jobs
  BY DEF TypeOK
<1>2. CASE \E step \in Steps : Goto(w, step)
  BY <1>2, GotoJob DEF Moves
<1>3. CASE \E result \in {"done", "refused", "failed"} : Ends(w, result)
  BY <1>3, EndsJob DEF Moves
<1>4. CASE \E r \in Jobs : /\ job' = [job EXCEPT ![w] = r]
                           /\ r.op = job[w].op /\ r.clash = job[w].clash
  BY <1>1, <1>4 DEF Moves
<1>5. CASE GiveUp(w)
  BY <1>1, <1>5 DEF GiveUp, Moves
<1>6. CASE ApplyRead(w)
  <2>1. job' = [job EXCEPT ![w] = [job[w] EXCEPT !.at = "dropin", !.ssh = dropin, !.pam = pam]]
    BY <1>6 DEF ApplyRead
  <2>. QED BY <1>1, <2>1, JobsFields DEF Moves
<1>7. CASE job' = [job EXCEPT ![w].at = "writeKeys", ![w].lines = keys]
  <2>1. job' = [job EXCEPT ![w] = [job[w] EXCEPT !.at = "writeKeys", !.lines = keys]]
    BY <1>7
  <2>. QED BY <1>1, <2>1, JobsFields DEF Moves
<1>8. CASE \E mode \in {"local_password", "local_key", backup.mode} :
             job' = [job EXCEPT ![w].at = "apply", ![w].mode = mode]
  <2>1. PICK mode : job' = [job EXCEPT ![w] = [job[w] EXCEPT !.at = "apply", !.mode = mode]]
    BY <1>8
  <2>. QED BY <1>1, <2>1, JobsFields DEF Moves
<1>9. CASE ReadKeys(w)
  BY <1>3, <1>7, <1>9 DEF ReadKeys
<1>10. CASE ChooseDefault(w)
  BY <1>3, <1>8, <1>10 DEF ChooseDefault
<1>11. CASE backup_restore(w)
  BY <1>8, <1>11 DEF backup_restore
<1>12. CASE SetPassword(w) \/ CheckForm(w) \/ radius_server_check(w) \/ WriteRadius(w)
            \/ WriteMeta(w) \/ StoreMode(w) \/ Wipe(w)
  BY <1>2, <1>3, <1>12 DEF SetPassword, CheckForm, radius_server_check, WriteRadius,
                           WriteMeta, StoreMode, Wipe, Steps
<1>13. CASE ApplyStep(w) \/ Undo(w) \/ ApplyFails(w)
  BY <1>2, <1>3, <1>6, <1>13 DEF ApplyStep, WriteDropin, WritePam, Reload, Undo, UndoReload,
                                 ApplyFails, Steps
<1>14. CASE write_key_lines(w) \/ backup_create(w) \/ ResetFails(w) \/ Collides(w)
  BY <1>2, <1>3, <1>14 DEF write_key_lines, backup_create, ResetFails, Collides, Steps
<1>. QED BY <1>5, <1>9, <1>10, <1>11, <1>12, <1>13, <1>14 DEF Works, Serve

\* What went wrong is forgotten by a configuration that nobody disturbed only.
LEMMA SinceGrows ==
    ASSUME NEW w \in Worker, Works(w), job[w].clash \/ ~StoreMode(w)
    PROVE  since \subseteq since'
<1>1. CASE ApplyStep(w) \/ Undo(w) \/ ApplyFails(w) \/ Collides(w) \/ ResetFails(w)
  BY <1>1 DEF ApplyStep, ApplyRead, WriteDropin, WritePam, Reload, Undo, UndoReload,
              ApplyFails, Collides, ResetFails, Unknowing, past
<1>2. CASE SetPassword(w) \/ CheckForm(w) \/ radius_server_check(w) \/ WriteRadius(w)
           \/ WriteMeta(w) \/ StoreMode(w) \/ GiveUp(w)
  BY <1>2 DEF SetPassword, CheckForm, radius_server_check, WriteRadius, WriteMeta,
              StoreMode, GiveUp, Unknowing, past
<1>3. CASE ReadKeys(w) \/ write_key_lines(w) \/ Wipe(w) \/ ChooseDefault(w)
           \/ backup_create(w) \/ backup_restore(w)
  BY <1>3 DEF ReadKeys, write_key_lines, Wipe, ChooseDefault, backup_create,
              backup_restore, Unknowing, past
<1>. QED BY <1>1, <1>2, <1>3 DEF Works, Serve

\* auth.conf is written by those two steps.
LEMMA StoreOnly ==
    ASSUME NEW w \in Worker, Works(w), ~StoreMode(w), ~backup_restore(w)
    PROVE  authMode' = authMode
<1>1. CASE ApplyStep(w) \/ Undo(w) \/ ApplyFails(w) \/ Collides(w) \/ ResetFails(w)
  BY <1>1 DEF ApplyStep, ApplyRead, WriteDropin, WritePam, Reload, Undo, UndoReload,
              ApplyFails, Collides, ResetFails, files
<1>2. CASE SetPassword(w) \/ CheckForm(w) \/ radius_server_check(w) \/ WriteRadius(w)
           \/ WriteMeta(w) \/ GiveUp(w)
  BY <1>2 DEF SetPassword, CheckForm, radius_server_check, WriteRadius, WriteMeta,
              GiveUp, files
<1>3. CASE ReadKeys(w) \/ write_key_lines(w) \/ Wipe(w) \/ ChooseDefault(w)
           \/ backup_create(w)
  BY <1>3 DEF ReadKeys, write_key_lines, Wipe, ChooseDefault, backup_create, files
<1>. QED BY <1>1, <1>2, <1>3 DEF Works, Serve

\* A request that overlaps a conflicting one leaves a trace, and those it does
\* not conflict with do not depend on what it writes.
LEMMA ClashSerial ==
    ASSUME TypeOK, ShapeInv, SerialInv, NEW w \in Worker, job[w].clash, Works(w)
    PROVE  SerialInv'
<1>1. "overlap" \in since' /\ Moves(w) /\ job[w].op \in ModeWriters \cup {"delete"}
  BY SinceGrows, WorksMoves, ShapeParts DEF SerialInv, ExclusiveInv, OneShape
<1>2. ExclusiveInv'
  BY <1>1, ExclusiveFrame DEF SerialInv, Moves
<1>3. ASSUME NEW v \in Worker, ~job'[v].clash PROVE JobInv(v)'
  <2>1. CASE v = w
    BY <1>1, <1>3, <2>1, IdleJob DEF Moves
  <2>2. CASE v # w
    <3>1. job'[v] = job[v] /\ JobInv(v) /\ ~Conflict(job[v].op, job[w].op)
      BY <1>1, <1>3, <2>2 DEF Moves, SerialInv, ExclusiveInv
    <3>2. job[v].op \notin ModeWriters /\ (job[v].op = "delete" => job[w].op = "delete")
      BY <1>1, <3>1 DEF Conflict
    <3>3. job[w].op = "delete" => authMode' = authMode
      <4>1. SUFFICES ASSUME job[w].op = "delete" PROVE authMode' = authMode
        OBVIOUS
      <4>2. ~StoreMode(w) /\ ~backup_restore(w)
        BY <4>1, ShapeParts DEF StoreMode, backup_restore, OneShape, At
      <4>. QED BY <4>2, StoreOnly
    <3>. QED BY <3>1, <3>2, <3>3, KeyJob DEF SameJob
  <2>. QED BY <2>1, <2>2
<1>. QED BY <1>1, <1>2, <1>3, Overlapped DEF SerialInv, FilesInv

\* The creation and the deletion of a key, and of a backup.
LEMMA BesideSerial ==
    ASSUME TypeOK, ShapeInv, SerialInv, NEW w \in Worker, ~job[w].clash,
           ReadKeys(w) \/ write_key_lines(w) \/ backup_create(w)
    PROVE  SerialInv'
<1>1. /\ job[w] \in Jobs /\ job \in [Worker -> Jobs] /\ JobInv(w) /\ FilesInv
      /\ job[w].op \in {"add", "delete", "backup"}
  BY ShapeParts DEF TypeOK, SerialInv, FilesInv, ReadKeys, write_key_lines, backup_create,
                    OneShape, At
<1>2. Moves(w)
  BY WorksMoves DEF Works, Serve
<1>3. ~Leaving(w) /\ job[w].at \notin InBetween
  BY DEF ReadKeys, write_key_lines, backup_create, At, Leaving, InBetween, ApplySteps
<1>4. UNCHANGED <<password, radius, ssh, authMode, verified, since>>
  BY DEF ReadKeys, write_key_lines, backup_create, files, past
<1>5. /\ job[w].op # "delete" /\ keys # {} => keys' # {}
      /\ authMode = "local_key" /\ keys # {} => keys' # {}
  <2>1. CASE keys' = keys
    BY <2>1
  <2>2. CASE write_key_lines(w) /\ job[w].op # "delete"
    <3>1. keys' = job[w].lines \cup {job[w].key}
      BY <1>1, <2>2, ShapeParts DEF write_key_lines, OneShape, At
    <3>. QED BY <2>2, <3>1
  <2>3. CASE write_key_lines(w) /\ job[w].op = "delete"
    <3>1. keys' = job[w].lines \ {job[w].key}
      BY <2>3 DEF write_key_lines
    <3>. QED BY <1>1, <2>3, <3>1 DEF write_key_lines, JobInv, DeleteInv
  <2>. QED BY <2>1, <2>2, <2>3 DEF ReadKeys, backup_create, files
<1>6. FilesInv'
  BY <1>1, <1>2, <1>3, <1>4, <1>5, FilesFrame DEF Moves
<1>7. ExclusiveInv'
  BY <1>2, <1>4, ExclusiveFrame DEF SerialInv, Moves
<1>8. ASSUME NEW v \in Worker, ~job'[v].clash PROVE JobInv(v)'
  <2>1. CASE v # w
    <3>1. SameJob(v) /\ JobInv(v) /\ ~Conflict(job[v].op, job[w].op)
      BY <1>2, <1>8, <2>1 DEF Moves, SameJob, SerialInv, ExclusiveInv
    <3>2. job[v].op \in ModeWriters => job[w].op # "delete"
      BY <3>1 DEF Conflict
    <3>. QED BY <1>4, <1>5, <3>1, <3>2, JobFrame, KeyJob
  <2>2. CASE v = w /\ job' = [job EXCEPT ![w].at = "writeKeys", ![w].lines = keys]
    <3>1. job' = [job EXCEPT ![w] = [job[w] EXCEPT !.at = "writeKeys", !.lines = keys]]
      BY <2>2
    <3>2. /\ job'[w].at = "writeKeys" /\ job'[w].op = job[w].op /\ job'[w].lines = keys
          /\ job'[w].key = job[w].key
      BY <1>1, <3>1, JobsFields
    <3>3. ReadKeys(w)
      BY <1>1, <3>2, NoJobType, EndsJob DEF write_key_lines, backup_create
    <3>4. job[w].op = "delete" /\ authMode = "local_key" => keys \ {job[w].key} # {}
      BY <3>2, <3>3, NoJobType, EndsJob DEF ReadKeys, Deletable
    <3>. QED BY <1>1, <1>4, <2>2, <3>2, <3>4
             DEF JobInv, ConfigureInv, ResetInv, ApplyInv, DeleteInv, SourceInv, UndoSteps
  <2>3. CASE v = w /\ job'[w] = NoJob
    BY <2>3, IdleJob
  <2>4. \/ job' = [job EXCEPT ![w].at = "writeKeys", ![w].lines = keys]
        \/ job'[w] = NoJob
    BY EndsJob DEF ReadKeys, write_key_lines, backup_create
  <2>. QED BY <2>1, <2>2, <2>3, <2>4
<1>. QED BY <1>6, <1>7, <1>8 DEF SerialInv, FilesInv

\* A request marks those it conflicts with, and itself.
LEMMA RequestSerial ==
    ASSUME TypeOK, ShapeInv, SerialInv, NEW w \in Worker,
           NEW op \in Operations, NEW step \in Steps, NEW r \in Jobs,
           Request(w, op, step, r),
           step \in {"password", "apply", "readKeys", "wipe", "create", "install"},
           step = "apply" => op = "sync", op = "configure" => step = "password",
           op = "sync" => r.mode = authMode, op = "restore" => step = "install"
    PROVE  SerialInv'
<1>1. /\ job'[w].at = step /\ job'[w].op = op /\ job'[w].found = Settings
      /\ job'[w].clash = (Rivals(op) # {}) /\ job'[w].mode = r.mode
  BY RequestJob
<1>2. UNCHANGED <<keys, password, radius, ssh, authMode, verified>>
  BY DEF Request, files
<1>3. /\ since' = IF Rivals(op) = {} THEN since ELSE since \cup {"overlap"}
      /\ since \subseteq since' /\ (Rivals(op) # {} => "overlap" \in since')
  BY DEF Request, Rivals
<1>4. ~Leaving(w) /\ job[w].at \notin InBetween
  BY DEF Request, Idle, At, Leaving, InBetween, ApplySteps
<1>5. FilesInv'
  BY <1>2, <1>3, <1>4, RequestOthers, FilesFrame DEF SerialInv, FilesInv
<1>6. ASSUME NEW v \in Worker, ~job'[v].clash PROVE JobInv(v)'
  <2>1. CASE v # w
    <3>1. SameJob(v)
      BY <2>1, RequestOthers DEF SameJob
    <3>2. JobInv(v)
      <4>1. ~job[v].clash
        BY <1>6, <2>1, RequestOthers
      <4>. QED BY <4>1 DEF SerialInv
    <3>. QED BY <1>2, <1>3, <3>1, <3>2, JobFrame
  <2>2. CASE v = w
    <3>1. UNCHANGED Settings
      BY <1>2 DEF Settings, Applied, radius, ssh
    <3>2. job'[v].found = Settings'
      BY <1>1, <2>2, <3>1
    <3>. QED BY <1>1, <1>2, <2>2, <3>2
             DEF JobInv, ConfigureInv, ResetInv, ApplyInv, DeleteInv, SourceInv, FormSteps,
                 ApplySteps, UndoSteps, At
  <2>. QED BY <2>1, <2>2
<1>7. ExclusiveInv'
  <2>1. ASSUME NEW v \in Worker \ {w}, Conflict(job'[v].op, op)
        PROVE  job'[v].clash /\ job'[w].clash
    BY <1>1, <2>1, RequestOthers DEF Rivals
  <2>2. ASSUME NEW v \in Worker \ {w}, NEW u \in Worker \ {w}, v # u,
               Conflict(job'[v].op, job'[u].op)
        PROVE  job'[v].clash /\ job'[u].clash
    <3>1. job'[v].op = job[v].op /\ job'[u].op = job[u].op
      BY RequestOthers
    <3>2. job[v].clash /\ job[u].clash
      BY <2>2, <3>1 DEF SerialInv, ExclusiveInv
    <3>. QED BY <3>2, RequestOthers
  <2>3. ASSUME NEW v \in Worker, job'[v].clash PROVE "overlap" \in since'
    <3>1. CASE v # w /\ job[v].clash
      BY <1>3, <3>1 DEF SerialInv, ExclusiveInv
    <3>2. CASE v # w /\ Conflict(job[v].op, op)
      BY <1>3, <3>2 DEF Rivals
    <3>3. CASE v = w
      BY <1>1, <1>3, <2>3, <3>3
    <3>. QED BY <2>3, <3>1, <3>2, <3>3, RequestOthers
  <2>. QED BY <1>1, <2>1, <2>2, <2>3, ConflictSymmetric DEF ExclusiveInv
<1>. QED BY <1>5, <1>6, <1>7 DEF SerialInv, FilesInv

LEMMA AskSerial ==
    ASSUME TypeOK, ShapeInv, SerialInv, NEW w \in Worker, Ask(w)
    PROVE  SerialInv'
<1> USE RequestTypes, RequestSerial DEF Operations, Steps
<1>1. CASE authentication_page(w)
  BY <1>1 DEF authentication_page
<1>2. CASE auth_sync(w)
  <2>1. [NoJob EXCEPT !.mode = authMode].mode = authMode
    BY DEF NoJob
  <2>. QED BY <1>2, <2>1 DEF auth_sync
<1>3. CASE key_create(w)
  BY <1>3 DEF key_create
<1>4. CASE key_delete(w)
  BY <1>4 DEF key_delete
<1>5. CASE system_factory_reset(w)
  BY <1>5, NoJobType DEF system_factory_reset
<1>6. CASE system_backup(w)
  BY <1>6 DEF system_backup
<1>7. CASE system_restore(w)
  BY <1>7, NoJobType DEF system_restore
<1>. QED BY <1>1, <1>2, <1>3, <1>4, <1>5, <1>6, <1>7 DEF Ask

\* After a power failure sshd runs on the drop-in there is, and nobody works.
LEMMA CrashSerial ==
    ASSUME SerialInv, Crash
    PROVE  SerialInv'
<1>1. \A v \in Worker : job'[v] = NoJob
  BY DEF Crash
<1>2. /\ dropin' = sshd' /\ since' = since \cup {"crash"}
      /\ UNCHANGED <<keys, password, authMode>>
  BY DEF Crash
<1>3. SshdInv' /\ ShownInv'
  BY <1>2 DEF SshdInv, ShownInv
<1>4. DoorInv'
  BY <1>2 DEF SerialInv, DoorInv, Opens
<1>5. ExclusiveInv'
  BY <1>1, NoJobType DEF ExclusiveInv, Conflict, ModeWriters
<1>. QED BY <1>1, <1>3, <1>4, <1>5, IdleJob DEF SerialInv

LEMMA StutterSerial == SerialInv /\ UNCHANGED vars => SerialInv'
<1> SUFFICES ASSUME SerialInv, UNCHANGED vars PROVE SerialInv'
  OBVIOUS
<1> USE DEF vars, files, past, radius, ssh
<1>1. ExclusiveInv'
  BY DEF SerialInv, ExclusiveInv
<1>2. SshdInv' /\ DoorInv' /\ ShownInv'
  BY DEF SerialInv, SshdInv, DoorInv, ShownInv, Opens, Leaving, At
<1>3. ASSUME NEW v \in Worker, ~job'[v].clash PROVE JobInv(v)'
  BY <1>3 DEF SerialInv, JobInv, ConfigureInv, ResetInv, ApplyInv, DeleteInv, SourceInv,
              Acceptable, Settings, Applied, read_key_lines, console_password_set, At
<1>. QED BY <1>1, <1>2, <1>3 DEF SerialInv

-----------------------------------------------------------------------------
(* The inductive invariant, and what follows from it.                      *)

LEMMA SerialInit == Init => SerialInv
<1> SUFFICES ASSUME Init PROVE SerialInv
  OBVIOUS
<1>1. \A w \in Worker : job[w].at = "idle" /\ job[w].op = "none" /\ ~job[w].clash
  BY NoJobType DEF Init
<1>2. \A w \in Worker : JobInv(w)
  BY <1>1 DEF JobInv, ConfigureInv, ResetInv, ApplyInv, DeleteInv, SourceInv, ApplySteps,
              UndoSteps
<1>3. ExclusiveInv
  BY <1>1 DEF ExclusiveInv, Conflict, ModeWriters
<1>4. dropin = sshd /\ authMode = "local_key" /\ keys # {}
  BY DEF Init
<1>5. ~checked
  BY DEF Init
<1>6. SshdInv /\ DoorInv /\ ShownInv
  BY <1>4, <1>5 DEF SshdInv, DoorInv, ShownInv, Opens
<1>. QED BY <1>2, <1>3, <1>6 DEF SerialInv

LEMMA WriterSteps ==
    ASSUME TypeOK, ShapeInv, NEW w \in Worker,
           job[w].at \notin {"idle", "readKeys", "writeKeys", "create"}
    PROVE  job[w].op \in ModeWriters
<1>1. job[w] \in Jobs /\ OneShape(w)
  BY ShapeParts DEF TypeOK
<1>. QED BY <1>1, JobsFields
         DEF Steps, OneShape, At, FormSteps, ApplySteps, UndoSteps, ModeWriters

LEMMA WorksSerial ==
    ASSUME TypeOK, ShapeInv, SerialInv, NEW w \in Worker, Works(w)
    PROVE  SerialInv'
<1>1. CASE job[w].clash
  BY <1>1, ClashSerial
<1>2. CASE ~job[w].clash /\ (ReadKeys(w) \/ write_key_lines(w) \/ backup_create(w))
  BY <1>2, BesideSerial
<1>3. CASE ~job[w].clash /\ ~(ReadKeys(w) \/ write_key_lines(w) \/ backup_create(w))
  <2>1. Keeps(w)
    BY <1>3, FormKeeps, RadiusKeeps, StoreKeeps, ApplyReadKeeps, WriteKeeps, ReloadKeeps,
       ApplyFailsKeeps, UndoKeeps, ResetKeeps, RestoreKeeps
       DEF Works, Serve, ApplyStep, Collides
  <2>2. job[w].at \notin {"idle", "readKeys", "writeKeys", "create"}
    BY <1>3 DEF Works, Collides, Serve, SetPassword, CheckForm, radius_server_check, GiveUp,
                WriteRadius, WriteMeta, ApplyStep, ApplyRead, WriteDropin, WritePam, Reload,
                ApplyFails, Undo, UndoReload, StoreMode, Wipe, ChooseDefault, ResetFails,
                backup_restore, At
  <2>3. job[w].op \in ModeWriters
    BY <2>2, WriterSteps
  <2>. QED BY <1>3, <2>1, <2>3, SerialFrame
<1>. QED BY <1>1, <1>2, <1>3

\* The settings and the processes fit together at every moment, whichever
\* requests overlap: a process that no conflicting request ran beside knows what
\* it found and has written, and so do the files since a configuration was saved.
THEOREM InductiveInvCorrect == Spec => []InductiveInv
<1>1. Init => InductiveInv
  BY TypeInit, ShapeInit, SerialInit DEF InductiveInv
<1>2. InductiveInv /\ [Next]_vars => InductiveInv'
  <2> SUFFICES ASSUME InductiveInv, [Next]_vars PROVE InductiveInv'
    OBVIOUS
  <2>1. TypeOK' /\ ShapeInv'
    BY TypeStep, ShapeStep DEF InductiveInv
  <2>2. TypeOK /\ ShapeInv /\ SerialInv
    BY DEF InductiveInv
  <2>3. CASE \E w \in Worker : Ask(w)
    BY <2>1, <2>2, <2>3, AskSerial DEF InductiveInv
  <2>4. CASE \E w \in Worker : Works(w)
    BY <2>1, <2>2, <2>4, WorksSerial DEF InductiveInv
  <2>5. CASE Crash \/ UNCHANGED vars
    BY <2>1, <2>2, <2>5, CrashSerial, StutterSerial DEF InductiveInv
  <2>. QED BY <2>3, <2>4, <2>5 DEF Next, Works
<1>. QED BY <1>1, <1>2, PTL DEF Spec

LEMMA NobodyLeaves == Quiet => \A w \in Worker : ~Leaving(w) /\ ~At(w, "meta")
BY DEF Quiet, Idle, At, Leaving, ApplySteps

\* The page shows RADIUS as verified only for a server that answered a check,
\* also after a configuration that failed, was refused, or was given up - until
\* the power fails, a backup is restored or conflicting requests overlap, and
\* again from the next configuration saved.
THEOREM ShownIsVerifiedCorrect == Spec => []ShownIsVerified
<1>1. InductiveInv => ShownIsVerified
  BY NobodyLeaves DEF InductiveInv, SerialInv, ShownInv, ShownIsVerified, PageSaysVerified
<1>. QED BY <1>1, InductiveInvCorrect, PTL

LEMMA AnswerStep ==
    ASSUME InductiveInv, Next, NEW w \in Worker,
           job[w].op = "configure", ~job[w].clash, told'[w] # told[w]
    PROVE  /\ told'[w] = "done" =>
                /\ job[w].mode = dropin' /\ job[w].mode = sshd'
                /\ job[w].mode = authMode' /\ pam' = (job[w].mode = "radius")
                /\ pamRadius' = job[w].server
           /\ told'[w] = "failed" /\ "overlap" \notin since =>
                Applied' = job[w].found[2]
           /\ told'[w] = "refused" => Settings' = job[w].found
<1>0. TypeOK /\ OneShape(w) /\ JobInv(w)
  BY ShapeParts DEF InductiveInv, SerialInv
<1>1. /\ TypeOK /\ OneShape(w) /\ JobInv(w)
      /\ told \in [Worker -> {"nothing", "done", "refused", "failed", "unknown"}]
  BY <1>0, TypeParts DEF JobTypes
<1>2. CASE CheckForm(w) \/ radius_server_check(w)
  <2>1. told'[w] = "refused"
    BY <1>1, <1>2, EndsJob DEF CheckForm, radius_server_check
  <2>2. job[w].found = Settings
    BY <1>1, <1>2 DEF CheckForm, radius_server_check, At, JobInv, ConfigureInv, FormSteps
  <2>3. UNCHANGED Settings
    BY <1>2 DEF CheckForm, radius_server_check, files, ssh, Settings, Applied, radius
  <2>. QED BY <2>1, <2>2, <2>3
<1>3. CASE UndoReload(w)
  <2>1. told'[w] = "failed"
    BY <1>1, <1>3, EndsJob DEF UndoReload
  <2>2. job[w].found[2] = <<job[w].ssh, job[w].pam, sshd, authMode>>
    BY <1>1, <1>3 DEF UndoReload, At, JobInv, ConfigureInv, UndoSteps
  <2>3. "overlap" \notin since =>
          sshd' = sshd /\ dropin' = job[w].ssh /\ pam' = job[w].pam /\ authMode' = authMode
    BY <1>1, <1>3 DEF UndoReload, At, JobInv, ApplyInv, UndoSteps
  <2>. QED BY <2>1, <2>2, <2>3 DEF Applied
<1>4. CASE StoreMode(w)
  <2>1. told'[w] = "done"
    BY <1>1, <1>4, EndsJob DEF StoreMode
  <2>2. /\ dropin = job[w].mode /\ sshd = dropin /\ pam = (job[w].mode = "radius")
        /\ pamRadius = job[w].server
    BY <1>1, <1>4 DEF StoreMode, At, JobInv, ConfigureInv, ApplyInv, UndoSteps
  <2>. QED BY <1>4, <2>1, <2>2 DEF StoreMode, ssh, radius
<1>5. CASE GiveUp(w) \/ Crash
  <2>1. told'[w] = "unknown"
    BY <1>1, <1>5 DEF GiveUp, Crash
  <2>. QED BY <2>1
<1>6. CASE \E v \in Worker \ {w} : \/ Ask(v) \/ Serve(v) \/ GiveUp(v)
                                   \/ ApplyFails(v) \/ ResetFails(v) \/ Collides(v)
  <2>1. PICK v \in Worker \ {w} :
          Ask(v) \/ Serve(v) \/ GiveUp(v) \/ ApplyFails(v) \/ ResetFails(v) \/ Collides(v)
    BY <1>6
  <2>2. told'[w] = told[w]
    BY <1>1, <2>1
       DEF Ask, authentication_page, auth_sync, key_create, key_delete, system_factory_reset,
           system_backup, system_restore, Request, Serve, SetPassword, CheckForm,
           radius_server_check, GiveUp, WriteRadius, WriteMeta, ApplyStep, ApplyRead,
           WriteDropin, WritePam, Reload, ApplyFails, Undo, UndoReload, StoreMode, ReadKeys,
           write_key_lines, Wipe, ChooseDefault, ResetFails, backup_create, backup_restore,
           Collides, Unknowing, Ends, Answer
  <2>. QED BY <2>2
<1>7. ~Ask(w)
  BY <1>1 DEF Ask, authentication_page, auth_sync, key_create, key_delete,
              system_factory_reset, system_backup, system_restore, Request, OneShape
<1>8. ~(ReadKeys(w) \/ write_key_lines(w) \/ Wipe(w) \/ ChooseDefault(w) \/ ResetFails(w)
        \/ backup_create(w) \/ backup_restore(w))
  BY <1>1 DEF ReadKeys, write_key_lines, Wipe, ChooseDefault, ResetFails, backup_create,
              backup_restore, OneShape, At
<1>9. ~(SetPassword(w) \/ WriteRadius(w) \/ WriteMeta(w) \/ ApplyStep(w) \/ ApplyFails(w)
        \/ WriteDropin(w, "undoDropin", "undoPam", job[w].ssh)
        \/ WritePam(w, "undoPam", "undoReload", job[w].pam))
  BY DEF SetPassword, WriteRadius, WriteMeta, ApplyStep, ApplyRead, WriteDropin, WritePam,
         Reload, Stores, ApplyFails, Unknowing
<1>10. CASE Ask(w) \/ Serve(w) \/ GiveUp(w) \/ ApplyFails(w) \/ ResetFails(w) \/ Collides(w)
  BY <1>2, <1>3, <1>4, <1>5, <1>7, <1>8, <1>9, <1>10 DEF Serve, Undo, Collides
<1>. QED BY <1>5, <1>6, <1>10 DEF Next

\* What a configuration answers that no conflicting request ran beside is true
\* of sshd, PAM, auth.conf and RADIUS, whichever step of it fails and whoever
\* changes a key meanwhile.
THEOREM AnswersAreTrueCorrect == Spec => AnswersAreTrue
<1>1. InductiveInv /\ [Next]_vars =>
        [\A w \in Worker :
           job[w].op = "configure" /\ ~job[w].clash /\ told'[w] # told[w] =>
             /\ told'[w] = "done" =>
                  /\ job[w].mode = dropin' /\ job[w].mode = sshd'
                  /\ job[w].mode = authMode' /\ pam' = (job[w].mode = "radius")
                  /\ pamRadius' = job[w].server
             /\ told'[w] = "failed" /\ "overlap" \notin since =>
                  Applied' = job[w].found[2]
             /\ told'[w] = "refused" => Settings' = job[w].found]_vars
  BY AnswerStep
<1>. QED BY <1>1, InductiveInvCorrect, PTL DEF Spec, AnswersAreTrue
-----------------------------------------------------------------------------
(* The four places of the method in force.                                 *)

Places == <<dropin, pam, sshd, authMode>>

\* The steps between which the places differ.
Apart == {"pam", "reload", "store"}

LEMMA PlacesInit == Init => PlacesInv
BY DEF Init, PlacesInv, AgreeInv, ReloadedInv

\* Nothing is owed while requests overlap.
LEMMA OverlappedPlaces == "overlap" \in since' => PlacesInv'
BY DEF PlacesInv, AgreeInv, ReloadedInv

\* A step that leaves the places alone, of a process that is not between two
\* of them.
LEMMA PlacesFrame ==
    ASSUME PlacesInv, NEW w \in Worker, \A v \in Worker \ {w} : job'[v].at = job[v].at,
           UNCHANGED Places, since \subseteq since', job[w].at \notin Apart
    PROVE  PlacesInv'
<1>1. UNCHANGED <<dropin, pam, sshd, authMode>>
  BY DEF Places
<1>2. AgreeInv'
  <2>1. since' = {} => since = {}
    OBVIOUS
  <2>2. \A v \in Worker : job'[v].at \notin Apart => job[v].at \notin Apart
    OBVIOUS
  <2>. QED BY <1>1, <2>1, <2>2 DEF PlacesInv, AgreeInv, Apart
<1>3. ReloadedInv'
  <2>1. since' \cap {"crash", "restore", "overlap"} = {} =>
          since \cap {"crash", "restore", "overlap"} = {}
    OBVIOUS
  <2>2. \A v \in Worker : At(v, "store") => At(v, "store")'
    BY DEF At, Apart
  <2>. QED BY <1>1, <2>1, <2>2 DEF PlacesInv, ReloadedInv
<1>. QED BY <1>2, <1>3 DEF PlacesInv

\* What a process owes that is alone with the places.
MyPlacesInv(w) ==
  /\ since = {} /\ job[w].at \notin Apart =>
       /\ authMode = sshd /\ dropin = sshd /\ pam = (authMode = "radius")
  /\ since \cap {"crash", "restore", "overlap"} = {} =>
       sshd = authMode \/ job[w].at = "store"

LEMMA MyPlaces ==
    ASSUME TypeOK, ShapeInv, PlacesInv, NEW w \in Worker, Alone(w)
    PROVE  MyPlacesInv(w)
<1>1. \A v \in Worker \ {w} : job[v].at \notin Apart
  BY AloneSteps DEF Alone, Apart
<1>. QED BY <1>1 DEF MyPlacesInv, PlacesInv, AgreeInv, ReloadedInv, Apart, At

LEMMA TheirPlaces ==
    ASSUME NEW w \in Worker, MyPlacesInv(w)'
    PROVE  PlacesInv'
BY DEF MyPlacesInv, PlacesInv, AgreeInv, ReloadedInv, Apart, At

LEMMA RequestPlaces ==
    ASSUME TypeOK, PlacesInv, NEW w \in Worker, NEW op \in Operations, NEW step \in Steps,
           NEW r \in Jobs, Request(w, op, step, r)
    PROVE  PlacesInv'
<1>1. \A v \in Worker \ {w} : job'[v].at = job[v].at
  BY RequestOthers
<1>2. UNCHANGED Places /\ since \subseteq since' /\ job[w].at \notin Apart
  BY DEF Request, files, ssh, Places, Idle, At, Apart
<1>. QED BY <1>1, <1>2, PlacesFrame

LEMMA AskPlaces ==
    ASSUME TypeOK, PlacesInv, NEW w \in Worker, Ask(w)
    PROVE  PlacesInv'
<1> USE RequestTypes, RequestPlaces DEF Operations, Steps
<1>1. CASE authentication_page(w)
  BY <1>1 DEF authentication_page
<1>2. CASE auth_sync(w)
  BY <1>2 DEF auth_sync
<1>3. CASE key_create(w)
  BY <1>3 DEF key_create
<1>4. CASE key_delete(w)
  BY <1>4 DEF key_delete
<1>5. CASE system_factory_reset(w)
  BY <1>5, NoJobType DEF system_factory_reset
<1>6. CASE system_backup(w)
  BY <1>6 DEF system_backup
<1>7. CASE system_restore(w)
  BY <1>7, NoJobType DEF system_restore
<1>. QED BY <1>1, <1>2, <1>3, <1>4, <1>5, <1>6, <1>7 DEF Ask

\* The steps that change none of the places.
Aside(w) ==
  \/ SetPassword(w) \/ CheckForm(w) \/ radius_server_check(w) \/ GiveUp(w)
  \/ WriteRadius(w) \/ WriteMeta(w) \/ ApplyRead(w) \/ ReadKeys(w)
  \/ write_key_lines(w) \/ Wipe(w) \/ ChooseDefault(w) \/ ResetFails(w)
  \/ backup_create(w)

LEMMA AsidePlaces ==
    ASSUME TypeOK, PlacesInv, NEW w \in Worker, Aside(w)
    PROVE  PlacesInv'
<1>1. Works(w) /\ ~StoreMode(w)
  BY DEF Aside, Works, Serve, ApplyStep, StoreMode, At, SetPassword, CheckForm,
         radius_server_check, GiveUp, WriteRadius, WriteMeta, ApplyRead, ReadKeys,
         write_key_lines, Wipe, ChooseDefault, ResetFails, backup_create
<1>2. since \subseteq since' /\ \A v \in Worker \ {w} : job'[v] = job[v]
  BY <1>1, SinceGrows, WorksMoves DEF Moves
<1>3. UNCHANGED Places /\ job[w].at \notin Apart
  BY DEF Aside, SetPassword, CheckForm, radius_server_check, GiveUp, WriteRadius, WriteMeta,
         ApplyRead, ReadKeys, write_key_lines, Wipe, ChooseDefault, ResetFails,
         backup_create, files, ssh, Places, Apart, At
<1>. QED BY <1>2, <1>3, PlacesFrame

\* The steps of an apply, of its undo, and what replaces auth.conf.
LEMMA ApplyPlaces ==
    ASSUME TypeOK, ShapeInv, SerialInv, PlacesInv, NEW w \in Worker, ~job[w].clash,
           \/ WriteDropin(w, "dropin", "pam", job[w].mode)
           \/ WritePam(w, "pam", "reload", job[w].mode = "radius")
           \/ Reload(w) \/ ApplyFails(w) \/ Undo(w) \/ StoreMode(w) \/ backup_restore(w)
    PROVE  PlacesInv'
<1>1. job[w].at \notin {"idle", "readKeys", "writeKeys", "create"}
  BY DEF WriteDropin, WritePam, Reload, ApplyFails, Undo, UndoReload, StoreMode,
         backup_restore, At
<1>2. OneShape(w) /\ ApplyInv(w) /\ SourceInv(w) /\ job[w].op \in ModeWriters
  BY <1>1, WriterSteps, Knows DEF JobInv
<1>3. MyPlacesInv(w)
  BY <1>2, OthersAside, MyPlaces DEF SerialInv
<1> SUFFICES MyPlacesInv(w)'
  BY TheirPlaces
<1> USE DEF Steps
<1>4. CASE \/ WriteDropin(w, "dropin", "pam", job[w].mode)
           \/ WritePam(w, "pam", "reload", job[w].mode = "radius")
  <2>1. /\ sshd' = sshd /\ authMode' = authMode /\ since' = since
        /\ job[w].at \in {"dropin", "pam"} /\ \E step \in {"pam", "reload"} : Goto(w, step)
    BY <1>4 DEF WriteDropin, WritePam, At, Unknowing, past
  <2>2. job'[w].at \in {"pam", "reload"}
    BY <2>1, GotoJob
  <2>. QED BY <1>3, <2>1, <2>2 DEF MyPlacesInv, Apart
<1>5. CASE Reload(w) /\ Goto(w, "store")
  <2>1. job'[w].at = "store"
    BY <1>5, GotoJob
  <2>. QED BY <2>1 DEF MyPlacesInv, Apart
<1>6. CASE Reload(w) /\ ~Stores(w)
  <2>1. /\ sshd' = dropin /\ dropin' = dropin /\ pam' = pam /\ authMode' = authMode
        /\ since' = since /\ job[w].at = "reload"
    BY <1>6 DEF Reload, past, At
  <2>2. dropin = job[w].mode /\ pam = (job[w].mode = "radius")
    BY <1>2, <2>1 DEF ApplyInv
  <2>3. job[w].mode = authMode \/ "restore" \in since
    BY <1>2, <1>6, <2>1 DEF Stores, SourceInv, At, ModeWriters
  <2>. QED BY <2>1, <2>2, <2>3 DEF MyPlacesInv
<1>7. CASE ApplyFails(w)
  <2>1. /\ sshd' = sshd /\ authMode' = authMode /\ since' = since \cup {"failure"}
        /\ job[w].at # "store"
    BY <1>7 DEF ApplyFails, At, files, ssh
  <2>. QED BY <1>3, <2>1 DEF MyPlacesInv
<1>8. CASE Undo(w)
  <2>1. /\ authMode' = authMode /\ since' = since /\ job[w].at \in UndoSteps
    BY <1>8 DEF Undo, WriteDropin, WritePam, UndoReload, Unknowing, past, At, UndoSteps
  <2>2. "failure" \in since /\ job[w].at # "store"
    BY <1>2, <2>1 DEF UndoSteps, ApplyInv
  <2>3. "overlap" \notin since => sshd' = sshd
    BY <1>2, <1>8 DEF Undo, WriteDropin, WritePam, UndoReload, At, ApplyInv, UndoSteps
  <2>. QED BY <1>3, <2>1, <2>2, <2>3 DEF MyPlacesInv
<1>9. CASE StoreMode(w)
  <2>1. /\ authMode' = job[w].mode /\ dropin' = dropin /\ pam' = pam /\ sshd' = sshd
        /\ job[w].at = "store"
    BY <1>9 DEF StoreMode, ssh, At
  <2>2. dropin = job[w].mode /\ pam = (job[w].mode = "radius") /\ sshd = dropin
    BY <1>2, <2>1 DEF ApplyInv
  <2>. QED BY <2>1, <2>2 DEF MyPlacesInv
<1>10. CASE backup_restore(w)
  BY <1>10 DEF backup_restore, MyPlacesInv
<1>. QED BY <1>4, <1>5, <1>6, <1>7, <1>8, <1>9, <1>10 DEF Reload

LEMMA PlacesStep == InductiveInv /\ PlacesInv /\ [Next]_vars => PlacesInv'
<1> SUFFICES ASSUME InductiveInv, PlacesInv, [Next]_vars PROVE PlacesInv'
  OBVIOUS
<1>1. TypeOK /\ ShapeInv /\ SerialInv
  BY DEF InductiveInv
<1>2. CASE \E w \in Worker : Ask(w)
  BY <1>1, <1>2, AskPlaces
<1>3. ASSUME NEW w \in Worker, Works(w) PROVE PlacesInv'
  <2>1. CASE job[w].clash
    BY <1>1, <1>3, <2>1, SinceGrows, OverlappedPlaces DEF SerialInv, ExclusiveInv
  <2>2. CASE ~job[w].clash /\ ~Aside(w)
    BY <1>1, <1>3, <2>2, ApplyPlaces DEF Works, Serve, ApplyStep, Aside, Collides
  <2>. QED BY <1>1, <2>1, <2>2, AsidePlaces
<1>4. CASE Crash
  BY <1>4 DEF Crash, PlacesInv, AgreeInv, ReloadedInv
<1>5. CASE UNCHANGED vars
  BY <1>5 DEF vars, files, past, ssh, PlacesInv, AgreeInv, ReloadedInv, At
<1>. QED BY <1>2, <1>3, <1>4, <1>5 DEF Next, Works

LEMMA PlacesInvCorrect == Spec => []PlacesInv
BY PlacesInit, PlacesStep, InductiveInvCorrect, PTL DEF Spec

\* The drop-in, PAM, the running sshd and auth.conf name one method whenever
\* nobody is at work, unless something failed or was cut off, a backup was
\* restored or conflicting requests overlapped since the last configuration
\* that was saved.
THEOREM PlacesAgreeCorrect == Spec => []PlacesAgree
<1>1. PlacesInv => PlacesAgree
  BY DEF PlacesInv, AgreeInv, PlacesAgree, Quiet, Idle, At
<1>. QED BY <1>1, PlacesInvCorrect, PTL

\* Somebody can get in: under the mode of auth.conf whatever is refused, fails
\* or is cut off by a power failure, and under the mode sshd runs on whatever is
\* refused or fails - unless a backup was restored or conflicting requests
\* overlapped since the last configuration that was saved.
THEOREM DoorOpenCorrect == Spec => []DoorOpen
<1>1. InductiveInv /\ PlacesInv => DoorOpen
  <2> SUFFICES ASSUME InductiveInv, PlacesInv PROVE DoorOpen
    OBVIOUS
  <2>1. TypeOK /\ ShapeInv /\ ExclusiveInv /\ DoorInv /\ ReloadedInv
    BY DEF InductiveInv, SerialInv, PlacesInv
  <2>2. ASSUME NEW w \in Worker, At(w, "store"), "overlap" \notin since PROVE Opens(sshd)
    <3>1. OneShape(w) /\ JobInv(w) /\ job[w] \in Jobs
      BY <2>1, <2>2, ShapeParts DEF ExclusiveInv, InductiveInv, SerialInv, TypeOK
    <3>2. sshd = job[w].mode /\ job[w].op \in {"configure", "reset"}
      BY <2>2, <3>1 DEF OneShape, At, JobInv, ApplyInv
    <3>3. CASE job[w].op = "configure"
      <4>1. Acceptable(w)
        BY <2>2, <3>1, <3>3 DEF At, JobInv, ConfigureInv
      <4>. QED BY <3>2, <4>1 DEF Acceptable, Opens, read_key_lines, console_password_set
    <3>4. CASE job[w].op = "reset"
      BY <2>2, <3>1, <3>2, <3>4 DEF At, JobInv, ResetInv, Opens
    <3>. QED BY <3>2, <3>3, <3>4
  <2>3. since \cap {"restore", "overlap"} = {} => Opens(authMode)
    BY <2>1 DEF DoorInv
  <2>4. since \cap {"restore", "overlap", "crash"} = {} => Opens(sshd)
    BY <2>1, <2>2, <2>3 DEF ReloadedInv
  <2>5. authMode = "radius" /\ since = {} /\ Quiet => pamRadius # NoServer
    BY <2>1, NobodyLeaves DEF DoorInv
  <2>. QED BY <2>3, <2>4, <2>5 DEF DoorOpen
<1>. QED BY <1>1, InductiveInvCorrect, PlacesInvCorrect, PTL
===============================================================================
