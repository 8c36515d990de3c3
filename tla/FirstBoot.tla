------------------------------ MODULE FirstBoot ------------------------------
(***************************************************************************)
(* From the first start of a generic image to the end of the web wizard.   *)
(*                                                                         *)
(* Three programs share two state files, the device's identity and the     *)
(* firewall with its one candidate file:                                   *)
(*   usr/local/sbin/consolepi-generic-image-firstboot  once per start,     *)
(*     before SSH and the web, which require it;                           *)
(*   firstboot_configure of consolepi-maintenance      once per submitted  *)
(*     wizard, from either of the two web workers, under no lock;          *)
(*   access_migrate of consolepi-control               at every DHCP event.*)
(*                                                                         *)
(* firstboot.json says whether the wizard is still to be shown,            *)
(* generic-image.json how far the image is: "pending" until the service    *)
(* has made the card its own, "claim_pending" until the wizard is done,    *)
(* "complete".  Both are replaced atomically, but one after the other; so  *)
(* are the host keys, which are moved away before the new ones come, and   *)
(* certificate and key.  What Imager did is the verdict of module          *)
(* ImagerPromise, which ImagerGuard is checked to keep.                    *)
(*                                                                         *)
(* The power may fail between any two steps; DHCP may be late at a start   *)
(* and a step of the wizard may fail.  MaxFaults bounds these together,    *)
(* MaxEvents the DHCP events.  Two histories, broken and stale, say what   *)
(* the programs do not exclude.                                            *)
(***************************************************************************)
EXTENDS Naturals

CONSTANTS Admin,      \* administrators who submit the wizard, one per worker
          Nobody,     \* no administrator
          MaxFaults,  \* bound on crashes, late leases and failing steps
          MaxEvents   \* bound on DHCP events

ASSUME AdminAssumption  == Nobody \notin Admin
ASSUME BoundsAssumption == MaxFaults \in Nat /\ MaxEvents \in Nat

VARIABLES
  \* on the card
  report,      \* the report of the preparation says PASS
  imager,      \* verdict on the customisation: "open" "failed" "imported"
  firstboot,   \* state in firstboot.json: "pending" | "complete"
  generic,     \* state in generic-image.json
  consoleKey,  \* the account console has the administrator's key
  hostKeys,    \* /etc/ssh/ssh_host_* are a whole set
  tls,         \* certificate and key belong together, and web.secret exists
  password,    \* whose password web.auth holds
  sources,     \* management networks in access-sources.json: see Forms
  open,        \* the firewall lets everybody reach the setup transports
  candidate,   \* nftables.candidate exists
  \* of the running start
  svc,         \* step of the first-boot service
  web,         \* nginx runs: it was started on a TLS pair it accepts
  step,        \* step of each administrator's wizard
  form,        \* management networks he asked for
  spare,       \* wizards whose copy of what they replace is whole
  mig,         \* step of the dispatcher's migration: "idle" "read" "apply"
  wasPending,  \* what that migration read
  \* of the environment, and history
  told,        \* what each administrator was told: "nothing" "done" "failed"
  mixed,       \* a renewal of the identity under way has run beside another
  broken,      \* one was cut off, mixed up or failed where nothing undoes it,
               \* and none has succeeded since
  stale,       \* a migration read the pending claim before the access was
               \* closed, or before that was recorded, and has not been redone
  faults, events

image    == <<report, imager>>
claim    == <<firstboot, generic>>
identity == <<consoleKey, hostKeys, tls>>
access   == <<password, sources>>
firewall == <<open, candidate>>
history  == <<broken, stale>>
card     == <<image, claim, identity, access, firewall, history>>
vars == <<card, svc, web, step, form, spare, mig, wasPending, told, mixed,
          faults, events>>

-----------------------------------------------------------------------------
(* The state files.                                                        *)

KNOWN_GENERIC_STATES == {"pending", "claim_pending", "complete"}

\* The networks of a wizard: "none"; those that let the administrator who
\* submits it in; "cut off" for those that do not, that allow everybody or
\* that come from an address the web cannot tell.
Forms == {"reaching", "cut off"}

parse_management_networks(networks) == networks = "reaching"

\* A new file replaces the old one: after a crash there is one or the other.
atomic_write(file, value) == file' = value

write_generic_state(state) ==
  state \in KNOWN_GENERIC_STATES /\ atomic_write(generic, state)

\* What consolepi-generic-image-firstboot reads; a corrupt file is a claim
\* that nothing can satisfy.
generic_state ==
  IF generic \in KNOWN_GENERIC_STATES THEN generic ELSE "claim_required"

validate_generic_image_report == report

\* firstboot_pending: the wizard is shown.
firstboot_pending == firstboot = "pending"

\* Mutant: firstboot.json is not asked.
GenericOnly == generic \in {"pending", "claim_pending"}

\* Both files together allow the temporary access.
generic_web_setup_pending ==
  firstboot = "pending" /\ generic \in {"pending", "claim_pending"}

Init == /\ report \in BOOLEAN
        /\ imager = "open" /\ firstboot = "pending"
        /\ generic \in {"pending", "corrupt"}
        /\ consoleKey = FALSE /\ hostKeys = FALSE /\ tls = FALSE
        /\ password = Nobody /\ sources = "none"
        /\ open = FALSE /\ candidate = FALSE
        /\ svc = "off" /\ web = FALSE /\ step = [a \in Admin |-> "idle"]
        /\ form = [a \in Admin |-> "none"] /\ spare = {}
        /\ mig = "idle" /\ wasPending = FALSE
        /\ told = [a \in Admin |-> "nothing"]
        /\ mixed = FALSE /\ broken = FALSE /\ stale = FALSE
        /\ faults = 0 /\ events = 0

Wizard == <<step, form, spare, told, mixed>>
Migration == <<mig, wasPending, events>>

\* What the programs cannot prevent: a step fails by itself.
Fault == faults < MaxFaults /\ faults' = faults + 1

\* update_firewall writes the candidate, the same file for every caller, ...
RenderCandidate == candidate' = TRUE

\* ... has nft check it, installs the rules it rendered, and removes the file.
InstallRules(everybody) ==
  candidate /\ candidate' = FALSE /\ open' = everybody

\* The check fails when another caller has removed the file.
CandidateLost == ~candidate /\ UNCHANGED firewall

-----------------------------------------------------------------------------
(* The first-boot service.  svc: "off", "report", "validate", "markers",   *)
(* "consoleKey", "hostKeys", "tls", "lease", "open", "claim"; at a restart *)
(* of a claim "again", "openAgain"; at the end "released" (SSH and the web *)
(* start) or "stopped" (they do not).                                      *)

Service(from, to) ==
  /\ svc = from /\ svc' = to
  /\ web' = (to = "released" /\ tls)
  /\ UNCHANGED <<Wizard, Migration>>

Boot == Service("off", "report") /\ UNCHANGED <<card, faults>>

CheckReport ==
  /\ Service("report",
       CASE generic_state = "claim_required" -> "stopped"
         [] generic_state = "pending"        ->
              IF validate_generic_image_report THEN "validate" ELSE "stopped"
         [] OTHER                            -> "markers")
  /\ UNCHANGED <<card, faults>>

\* Mutant: a customisation that failed is validated once more.
ImportAgain ==
  /\ \/ imager # "imported" /\ imager' \in {"imported", "failed"}
     \/ imager = "imported" /\ UNCHANGED imager
  /\ Service("validate", "markers")
  /\ UNCHANGED <<report, claim, identity, access, firewall, history, faults>>

\* consolepi-imager-postvalidate, unless a success marker exists.
ImportOrFail ==
  /\ \/ imager = "open" /\ imager' \in {"imported", "failed"}
     \/ imager # "open" /\ UNCHANGED imager
  /\ Service("validate", "markers")
  /\ UNCHANGED <<report, claim, identity, access, firewall, history, faults>>

\* Mutant: a claimable image is provisioned again.
ProvisionAgain ==
  /\ IF imager # "imported" THEN Service("markers", "stopped")
     ELSE Service("markers", IF generic = "complete" THEN "released"
                                                     ELSE "consoleKey")
  /\ UNCHANGED <<card, faults>>

\* The identity is not looked at: what an earlier wizard left of it is used.
CheckMarkers ==
  /\ IF imager # "imported" THEN Service("markers", "stopped")
     ELSE Service("markers", CASE generic = "pending"       -> "consoleKey"
                               [] generic = "claim_pending" -> "again"
                               [] generic = "complete"      -> "released")
  /\ UNCHANGED <<card, faults>>

CopyConsoleKey ==
  /\ Service("consoleKey", "hostKeys")
  /\ consoleKey' = TRUE
  /\ UNCHANGED <<image, claim, hostKeys, tls, access, firewall, history, faults>>

\* require_no_host_keys: host keys of an earlier attempt are an error too.
provision_host_keys ==
  /\ IF hostKeys THEN Service("hostKeys", "stopped") /\ UNCHANGED hostKeys
                 ELSE Service("hostKeys", "tls") /\ hostKeys' = TRUE
  /\ UNCHANGED <<image, claim, consoleKey, tls, access, firewall, history, faults>>

CreateTls ==
  /\ Service("tls", "lease")
  /\ tls' = TRUE
  /\ UNCHANGED <<image, claim, consoleKey, hostKeys, access, firewall, history,
                 faults>>

\* access generic-bootstrap once eth0 has an address: the check ...
access_generic_bootstrap(from, to) ==
  /\ IF generic_web_setup_pending
     THEN Service(from, to) /\ RenderCandidate /\ UNCHANGED open
     ELSE Service(from, "stopped") /\ UNCHANGED firewall
  /\ UNCHANGED <<image, claim, identity, access, history, faults>>

\* ... and the firewall; its error stops the service.
OpenSetup(from, to) ==
  /\ \/ InstallRules(TRUE) /\ Service(from, to)
     \/ CandidateLost /\ Service(from, "stopped")
  /\ UNCHANGED <<image, claim, identity, access, history, faults>>

Bootstrap == \/ access_generic_bootstrap("lease", "open")
             \/ OpenSetup("open", "claim")

BootstrapAgain == \/ access_generic_bootstrap("again", "openAgain")
                  \/ OpenSetup("openAgain", "released")

\* No address in 31 seconds, for either wait; auth sync may fail before one;
\* nft may not accept the rules.
LateLease == /\ Fault
             /\ \E at \in {"lease", "again", "open", "openAgain"} :
                  Service(at, "stopped")
             /\ UNCHANGED card

\* Mutant: a state the other programs do not know.
BecomeClaimed ==
  /\ Service("claim", "released")
  /\ generic' = "claimed"
  /\ UNCHANGED <<image, firstboot, identity, access, firewall, history, faults>>

BecomeClaimable ==
  /\ Service("claim", "released")
  /\ write_generic_state("claim_pending")
  /\ UNCHANGED <<image, firstboot, identity, access, firewall, history, faults>>

-----------------------------------------------------------------------------
(* The wizard.  step: "idle", "check", "password"; renewing the identity,  *)
(* "keys", "install", "cert", "key", "nginx", "undo"; then "gate",         *)
(* "sources", "close", "shut", "firstboot", "generic".                     *)

Renewing == {a \in Admin : step[a] \in
               {"keys", "install", "cert", "key", "nginx", "undo"}}

Overlap == \E a, b \in Renewing : a # b

Serve(a, from, to) ==
  /\ step[a] = from
  /\ step' = [step EXCEPT ![a] = to]
  /\ mixed' = (Renewing' # {} /\ (mixed \/ Overlap'))
  /\ UNCHANGED <<svc, web, Migration>>

\* The same, and the form stays.
Run(a, from, to) == Serve(a, from, to) /\ UNCHANGED form

Tell(a, result) == told' = [told EXCEPT ![a] = result]

\* A step that ends the wizard with an error.
Fails(a, from) ==
  Run(a, from, "idle") /\ Tell(a, "failed") /\ spare' = spare \ {a}

\* A step that fails by itself, or because another wizard is at the same file
\* under the same temporary name.
Disturbed(a, at) == \/ Fault
                    \/ (\E b \in Admin \ {a} : step[b] = at) /\ UNCHANGED faults

\* The web accepts the form while the wizard is pending; firstboot_gate sends
\* every other page there.
setup(a) == /\ svc = "released" /\ web /\ firstboot_pending
            /\ Serve(a, "idle", "check")
            /\ \E networks \in Forms : form' = [form EXCEPT ![a] = networks]
            /\ Tell(a, "nothing")
            /\ UNCHANGED <<card, spare, faults>>

\* firstboot_configure refuses unless the image is claim_pending and the
\* networks are acceptable.
CheckClaim(a) ==
  /\ IF generic_state = "claim_pending" /\ parse_management_networks(form[a])
     THEN Run(a, "check", "password") /\ UNCHANGED <<told, spare>>
     ELSE Fails(a, "check")
  /\ UNCHANGED <<card, faults>>

WritePassword(a) ==
  /\ Run(a, "password", "keys")
  /\ atomic_write(password, a)
  /\ broken' = (broken \/ Overlap')
  /\ UNCHANGED <<image, claim, identity, sources, firewall, stale, spare, told,
                 faults>>

\* The name, the hosts file and web.auth are written through temporary files
\* with fixed names; the password may be in place all the same.
WritePasswordFails(a) ==
  /\ Disturbed(a, "password") /\ Fails(a, "password")
  /\ password' \in {password, a}
  /\ UNCHANGED <<image, claim, identity, sources, firewall, history>>

-----------------------------------------------------------------------------
(* The renewal of the identity.  Nothing keeps two wizards apart: whatever *)
(* their steps leave of each other's files is possible then.               *)

Outcome(whole) == IF mixed THEN BOOLEAN ELSE {whole}

Trouble == Fault \/ (mixed /\ UNCHANGED faults)

\* A copy of what is replaced is set aside, whole or not.
SetAside(a, whole) == spare' = IF whole THEN spare \cup {a} ELSE spare \ {a}

\* regenerate_ssh_host_keys: the old keys are moved away one by one ...
MoveKeys(a) ==
  /\ Run(a, "keys", "install")
  /\ \E whole \in Outcome(hostKeys) : SetAside(a, whole)
  /\ hostKeys' = FALSE
  /\ UNCHANGED <<image, claim, consoleKey, tls, access, firewall, history, told,
                 faults>>

\* ... and when one cannot be, the copy of the others is removed.
MoveFails(a) ==
  /\ Trouble /\ Fails(a, "keys")
  /\ hostKeys' = FALSE /\ broken' = TRUE
  /\ UNCHANGED <<image, claim, consoleKey, tls, access, firewall, stale>>

InstallKeys(a) ==
  /\ Run(a, "install", "cert")
  /\ hostKeys' \in Outcome(TRUE)
  /\ spare' = spare \ {a}
  /\ UNCHANGED <<image, claim, consoleKey, tls, access, firewall, history, told,
                 faults>>

\* Mutant: the copy is removed, not put back.
KeysNotRestored(a) ==
  /\ Trouble /\ Fails(a, "install")
  /\ hostKeys' = FALSE
  /\ UNCHANGED <<image, claim, consoleKey, tls, access, firewall, history>>

\* The new keys cannot be put in place or sshd -t refuses them.
InstallFails(a) ==
  /\ Trouble /\ Fails(a, "install")
  /\ hostKeys' \in Outcome(a \in spare)
  /\ UNCHANGED <<image, claim, consoleKey, tls, access, firewall, history>>

\* tls_generate: the certificate is replaced first, ...
WriteCert(a) ==
  /\ Run(a, "cert", "key")
  /\ \E whole \in Outcome(tls) : SetAside(a, whole)
  /\ tls' = FALSE
  /\ UNCHANGED <<image, claim, consoleKey, hostKeys, access, firewall, history,
                 told, faults>>

\* ... then the key, ...
WriteKey(a) ==
  /\ Run(a, "key", "nginx")
  /\ tls' \in Outcome(TRUE)
  /\ UNCHANGED <<image, claim, consoleKey, hostKeys, access, firewall, history,
                 spare, told, faults>>

\* ... and if that cannot be, the new certificate stays.  The restoration
\* below may fail in the same place.
WriteKeyFails(a) ==
  /\ Trouble /\ (Fails(a, "key") \/ Fails(a, "undo"))
  /\ broken' = TRUE
  /\ UNCHANGED <<image, claim, identity, access, firewall, stale>>

\* nginx -t refuses a pair that does not belong together.
CheckTls(a) ==
  /\ tls /\ Run(a, "nginx", "gate")
  /\ broken' = (broken /\ mixed) /\ spare' = spare \ {a}
  /\ UNCHANGED <<image, claim, identity, access, firewall, stale, told, faults>>

\* The old certificate is put back, ...
CheckTlsFails(a) ==
  /\ Fault \/ (~tls /\ UNCHANGED faults)
  /\ Run(a, "nginx", "undo")
  /\ tls' = FALSE
  /\ UNCHANGED <<image, claim, consoleKey, hostKeys, access, firewall, history,
                 spare, told>>

\* ... then the old key.
RestoreTls(a) ==
  /\ Fails(a, "undo")
  /\ tls' \in Outcome(a \in spare)
  /\ UNCHANGED <<image, claim, consoleKey, hostKeys, access, firewall, history,
                 faults>>

Renew(a) == \/ MoveKeys(a) \/ InstallKeys(a) \/ WriteCert(a) \/ WriteKey(a)
            \/ CheckTls(a) \/ RestoreTls(a)

-----------------------------------------------------------------------------
(* The end of the wizard.                                                  *)

\* Mutant: the allow-list is left out.
FinalizeStateOnly(a) ==
  /\ IF generic_web_setup_pending
     THEN Run(a, "gate", "firstboot") /\ UNCHANGED <<told, spare>>
     ELSE Fails(a, "gate")
  /\ UNCHANGED <<card, faults>>

\* access firstboot-finalize: refused once another wizard has finished.
access_firstboot_finalize(a) ==
  /\ IF generic_web_setup_pending /\ parse_management_networks(form[a])
     THEN Run(a, "gate", "sources") /\ UNCHANGED <<told, spare>>
     ELSE Fails(a, "gate")
  /\ UNCHANGED <<card, faults>>

WriteSources(a) ==
  /\ Run(a, "sources", "close")
  /\ sources' = form[a]
  /\ UNCHANGED <<image, claim, identity, password, firewall, history, spare,
                 told, faults>>

\* The firewall is rendered without the temporary access ...
RenderClosed(a) ==
  /\ Run(a, "close", "shut")
  /\ RenderCandidate
  /\ UNCHANGED <<image, claim, identity, access, open, history, spare, told,
                 faults>>

\* ... and installed.  A migration may still hold what it read before.
CloseSetup(a) ==
  /\ InstallRules(FALSE) /\ Run(a, "shut", "firstboot")
  /\ stale' = (mig # "idle" /\ wasPending)
  /\ UNCHANGED <<image, claim, identity, access, broken, spare, told, faults>>

CloseFails(a) ==
  /\ CandidateLost /\ Fails(a, "shut")
  /\ UNCHANGED <<image, claim, identity, access, history, faults>>

\* Mutant: success is reported before the second file is written.
ReportEarly(a) ==
  /\ Run(a, "firstboot", "generic")
  /\ firstboot' = "complete" /\ Tell(a, "done")
  /\ UNCHANGED <<image, generic, identity, access, firewall, history, spare,
                 faults>>

WriteFirstboot(a) ==
  /\ Run(a, "firstboot", "generic")
  /\ atomic_write(firstboot, "complete")
  /\ UNCHANGED <<image, generic, identity, access, firewall, history, spare,
                 told, faults>>

\* firstboot.json is written through one temporary name too.
WriteFirstbootFails(a) ==
  /\ Disturbed(a, "firstboot") /\ Fails(a, "firstboot")
  /\ firstboot' \in {firstboot, "complete"}
  /\ UNCHANGED <<image, generic, identity, access, firewall, history>>

WriteGeneric(a) ==
  /\ Run(a, "generic", "idle")
  /\ write_generic_state("complete") /\ Tell(a, "done")
  /\ UNCHANGED <<image, firstboot, identity, access, firewall, history, spare,
                 faults>>

\* New keys or a certificate cannot be made or written, the networks cannot be
\* saved, the firewall is not accepted, the last file cannot be written.
WizardError(a) ==
  /\ \/ Trouble /\ \E at \in {"keys", "cert"} : Fails(a, at)
     \/ Fault /\ \E at \in {"sources", "close", "shut", "generic"} : Fails(a, at)
  /\ UNCHANGED card

-----------------------------------------------------------------------------
(* The migration of the dispatcher.                                        *)

\* A DHCP event: the state files are read and the network is looked up.
access_migrate ==
  /\ svc # "off" /\ mig = "idle" /\ events < MaxEvents
  /\ mig' = "read" /\ events' = events + 1
  /\ wasPending' = generic_web_setup_pending
  /\ stale' = (stale \/ (wasPending' /\ \E a \in Admin : step[a] = "firstboot"))
  /\ UNCHANGED <<image, claim, identity, access, firewall, broken, svc, web,
                 Wizard, faults>>

\* The firewall is rendered for what was read ...
RenderMigration ==
  /\ mig = "read" /\ mig' = "apply" /\ RenderCandidate
  /\ UNCHANGED <<image, claim, identity, access, open, history, wasPending,
                 events, svc, web, Wizard, faults>>

\* ... and installed, unless it fails as the others do.
ApplyMigration ==
  /\ mig = "apply" /\ mig' = "idle"
  /\ \/ InstallRules(wasPending) /\ stale' = (stale /\ wasPending)
        /\ UNCHANGED faults
     \/ CandidateLost /\ UNCHANGED <<stale, faults>>
     \/ Fault /\ UNCHANGED <<firewall, stale>>
  /\ UNCHANGED <<image, claim, identity, access, broken, wasPending, events,
                 svc, web, Wizard>>

-----------------------------------------------------------------------------
\* The power is cut or switched off, also under a running wizard: between the
\* old and the new host keys, or between certificate and key.
TurnOff == /\ svc' = "off" /\ web' = FALSE /\ mig' = "idle" /\ wasPending' = FALSE
           /\ step' = [a \in Admin |-> "idle"]
           /\ form' = [a \in Admin |-> "none"]
           /\ spare' = {} /\ mixed' = FALSE
           /\ broken' = (broken \/ \E a \in Admin :
                                     step[a] \in {"install", "key", "undo"})
           /\ UNCHANGED <<image, claim, identity, access, firewall, stale, told,
                          events>>

Crash == svc # "off" /\ Fault /\ TurnOff

\* The user restarts the device, as often as he likes.
Restart(where) == svc = where /\ UNCHANGED faults /\ TurnOff

FirstBootService ==
  \/ Boot \/ CheckReport \/ ImportOrFail \/ CheckMarkers \/ CopyConsoleKey
  \/ provision_host_keys \/ CreateTls \/ Bootstrap \/ BootstrapAgain
  \/ BecomeClaimable

Configure(a) == \/ CheckClaim(a) \/ WritePassword(a) \/ Renew(a)
                \/ access_firstboot_finalize(a) \/ WriteSources(a)
                \/ RenderClosed(a) \/ CloseSetup(a) \/ CloseFails(a)
                \/ WriteFirstboot(a) \/ WriteGeneric(a)

ConfigureFails(a) == \/ WritePasswordFails(a) \/ MoveFails(a) \/ InstallFails(a)
                     \/ WriteKeyFails(a) \/ CheckTlsFails(a)
                     \/ WriteFirstbootFails(a) \/ WizardError(a)

Next == \/ FirstBootService \/ LateLease
        \/ \E a \in Admin : setup(a) \/ Configure(a) \/ ConfigureFails(a)
        \/ access_migrate \/ RenderMigration \/ ApplyMigration
        \/ Crash \/ Restart("stopped") \/ Restart("released")

Spec == Init /\ [][Next]_vars

\* systemd runs the service to its end, a request that was accepted is served,
\* a migration that was started ends, a stopped device is started again.
FairSpec == /\ Spec
            /\ WF_vars(FirstBootService)
            /\ WF_vars(RenderMigration \/ ApplyMigration)
            /\ WF_vars(Restart("stopped"))
            /\ \A a \in Admin : WF_vars(Configure(a) \/ CheckTlsFails(a))

-----------------------------------------------------------------------------
(* Properties.                                                             *)

TypeOK ==
  /\ report \in BOOLEAN /\ imager \in {"open", "failed", "imported"}
  /\ firstboot \in {"pending", "complete"}
  /\ generic \in KNOWN_GENERIC_STATES \cup {"corrupt"}
  /\ consoleKey \in BOOLEAN /\ hostKeys \in BOOLEAN /\ tls \in BOOLEAN
  /\ password \in Admin \cup {Nobody} /\ sources \in Forms \cup {"none"}
  /\ open \in BOOLEAN /\ candidate \in BOOLEAN
  /\ svc \in {"off", "report", "validate", "markers", "consoleKey",
              "hostKeys", "tls", "lease", "open", "again", "openAgain",
              "claim", "released", "stopped"}
  /\ web \in BOOLEAN
  /\ step \in [Admin -> {"idle", "check", "password", "keys", "install",
                         "cert", "key", "nginx", "undo", "gate", "sources",
                         "close", "shut", "firstboot", "generic"}]
  /\ form \in [Admin -> Forms \cup {"none"}] /\ spare \subseteq Admin
  /\ mig \in {"idle", "read", "apply"} /\ wasPending \in BOOLEAN
  /\ told \in [Admin -> {"nothing", "done", "failed"}]
  /\ mixed \in BOOLEAN /\ broken \in BOOLEAN /\ stale \in BOOLEAN
  /\ faults \in 0..MaxFaults /\ events \in 0..MaxEvents

\* SSH and the web never start on an image that is not this device's own:
\* whichever steps earlier starts were cut off at, when they run the master
\* was validated, the customisation imported and the console key is there; and
\* so is a whole set of host keys and a TLS pair, unless a renewal is at work
\* or one was cut off, mixed up with another or failed where nothing undoes it.
ReleasedIsOwn ==
  svc = "released" =>
    /\ report /\ imager = "imported" /\ consoleKey
    /\ ~broken /\ Renewing = {} => hostKeys /\ tls

\* docs/INSTALACE-IMAGE-RPI-IMAGER.txt:204-207: when the regeneration of the SSH
\* or TLS identity fails, the active keys are restored from a local copy.  The
\* code does not do that for keys it had not begun to install, nor for a
\* certificate whose key cannot be written.
IdentityRestored == svc = "released" /\ Renewing = {} => hostKeys /\ tls

\* A wizard that is over leaves a device with an owner: no power failure and
\* no second wizard ends it without a password, or with an allow-list that
\* keeps the administrator who wrote it out.
CompleteIsClaimed ==
  firstboot = "complete" \/ generic = "complete" =>
    password # Nobody /\ sources = "reaching"

\* Nobody is told that the wizard is done before both files say so, and no
\* later wizard or restart takes it back.
DoneIsDurable ==
  (\E a \in Admin : told[a] = "done") =>
    firstboot = "complete" /\ generic = "complete"

\* docs/INSTALACE-IMAGE-RPI-IMAGER.txt:78-80: the allow-list is activated and
\* the temporary global access removed first, only then is the state complete,
\* and nothing opens it again ...
CompleteStaysClosed == generic = "complete" => ~open

\* ... which the code keeps but for a migration that read the pending claim and
\* renders the open firewall later, until the next one.
CompleteIsClosed == generic = "complete" /\ ~stale => ~open

\* The wizard can be repeated: while it is still to be shown and the image is
\* claimable, every restart leads back to a running web, unless a renewal that
\* was cut off left a TLS pair nginx refuses.
WizardCanBeRepeated ==
  firstboot = "pending" /\ generic = "claim_pending"
    ~> svc = "released" /\ (web \/ (broken /\ ~tls))

\* docs/INSTALACE-IMAGE-RPI-IMAGER.txt:197: when the first boot is interrupted
\* before the wizard is completed, the device is started again and the service
\* continues from the stored state.
InterruptedBootContinues ==
  report /\ imager = "imported" ~> svc = "released"

\* A device that has been claimed starts: the same sentence, for a power failure
\* in the wizard.  Between the two files it does not hold.
ClaimedStarts == svc = "off" /\ firstboot = "complete" ~> svc = "released"

\* A claim only goes forward, a step at a time, whatever wizards, migrations and
\* crashes come in between: a claimed device is never set up again, and no
\* wizard completes an image that was not made claimable first.
ClaimGoesForward ==
  [][/\ generic' # generic =>
          <<generic, generic'>> \in {<<"pending", "claim_pending">>,
                                     <<"claim_pending", "complete">>}
     /\ firstboot = "complete" => firstboot' = "complete"]_vars

\* From then on only three things keep SSH and the web from being started: a
\* lease or a firewall that fails, a migration that removes the candidate under
\* the service, and a wizard that ended between its two files.
ClaimableStarts ==
  [][svc # "stopped" /\ svc' = "stopped" /\ generic \in {"claim_pending", "complete"}
       => \/ faults' > faults
          \/ svc \in {"open", "openAgain"} /\ ~candidate
          \/ firstboot = "complete" /\ generic = "claim_pending"]_vars

\* What ImagerGuard promises, the first boot keeps: the verdict is final, and
\* SSH and the web start on an imported customisation only.
Promise == INSTANCE ImagerPromise
  WITH Keys <- {"key"}, NoKey <- "none", verdict <- imager,
       key <- IF imager = "imported" THEN "key" ELSE "none",
       up <- svc = "released"

VerdictKept == Promise!Spec
-----------------------------------------------------------------------------
(* The inductive invariant behind these: what every step of the service    *)
(* and of a wizard may rely on, which the properties do not say.           *)

Own == report /\ imager = "imported" /\ consoleKey

\* Each step of the service stands on what the earlier ones left on the card;
\* an image that is not "pending" any more is this device's own for ever.
ServiceInv ==
  /\ svc \in {"validate", "consoleKey", "hostKeys", "tls", "lease", "open",
              "claim"} => generic = "pending" /\ report
  /\ svc = "markers" => generic # "corrupt" /\ report
  /\ svc \in {"consoleKey", "hostKeys", "tls", "lease", "open", "claim"} =>
       imager = "imported"
  /\ svc \in {"hostKeys", "tls", "lease", "open", "claim"} => consoleKey
  /\ svc \in {"tls", "lease", "open", "claim"} => hostKeys
  /\ svc \in {"lease", "open", "claim"} => tls
  /\ svc \in {"again", "openAgain"} => generic = "claim_pending"
  /\ svc \in {"open", "openAgain"} => firstboot = "pending"
  /\ svc = "released" => generic \in {"claim_pending", "complete"}
  /\ generic \in {"claim_pending", "complete"} => Own

\* Each step of a wizard stands on what it, or another wizard, wrote before.
WizardInv ==
  /\ \A a \in Admin :
       /\ step[a] # "idle" => svc = "released"
       /\ step[a] \notin {"idle", "check"} => form[a] = "reaching"
       /\ step[a] \notin {"idle", "check", "password"} => password # Nobody
       /\ step[a] \in {"close", "shut", "firstboot", "generic"} =>
            sources = "reaching"
       /\ step[a] = "generic" => firstboot = "complete"
       /\ told[a] = "done" => generic = "complete"
  /\ firstboot = "complete" => password # Nobody /\ sources = "reaching"
  /\ generic = "complete" => firstboot = "complete"

\* What is on the card at each step of a renewal that runs alone, and between
\* two renewals; one that does not run alone leaves it broken.
IdentityInv ==
  /\ mixed => Renewing # {} /\ broken
  /\ Overlap => mixed
  /\ generic \in {"claim_pending", "complete"} /\ Renewing = {} /\ ~broken =>
       hostKeys /\ tls
  /\ \A a \in Renewing : ~mixed =>
       /\ step[a] \in {"cert", "key", "nginx", "undo"} => hostKeys
       /\ step[a] = "nginx" => tls
       /\ ~broken =>
            /\ step[a] = "keys" => hostKeys /\ tls
            /\ step[a] \in {"install", "cert"} => tls
            /\ step[a] \in {"install", "key", "nginx", "undo"} => a \in spare

\* A migration that is under way when a wizard ends has read that it ended.
ClosedInv ==
  ~stale => \/ firstboot = "pending" /\ \A a \in Admin : step[a] # "firstboot"
            \/ ~open /\ (mig # "idle" => ~wasPending)

InductiveInv == TypeOK /\ ServiceInv /\ WizardInv /\ IdentityInv /\ ClosedInv
=============================================================================
