---------------------------- MODULE ConsolePorts ----------------------------
(***************************************************************************)
(* Console sessions and the configuration they run with.                   *)
(*                                                                         *)
(* Each SSH port of the device is a serial console.  A session on it       *)
(* (consolepi-session) reads the port's cable from ports.conf and its line *)
(* parameters from serial.conf, takes the port's lock and runs picocom on  *)
(* the cable.  The administrator assigns cables to ports, sets line        *)
(* parameters and labels the ports (consolepi-control), each a             *)
(* read-modify-write of one whole file: the first two under the lock of    *)
(* the one port they are about, the label under none.  The new file is     *)
(* written beside the old one under a name all processes share, and        *)
(* renamed over it.                                                        *)
(***************************************************************************)
EXTENDS Naturals

CONSTANTS
    Port,           \* the SSH ports of ports.conf; a port's lock is named for it
    Cable,          \* USB serial adapters, by their /dev/serial/by-id path
    Unassigned,     \* any /dev/consolepi/unassigned-N path: never present
    Setting,        \* line parameters: speed, data bits, parity, ...
    Default,        \* 9600 8N1
    Label, NoLabel,
    Session,        \* SSH connections to a console port
    Editor,         \* consolepi-control processes: web requests, terminal menu
    Nobody,
    Inode, NoInode, \* files of one directory, and none
    MaxEdits, MaxKills   \* bounds, see README

ASSUME PortAssumption == Port # {}
ASSUME EntryAssumption == Unassigned \notin Cable /\ Default \in Setting /\ NoLabel \notin Label
ASSUME ProcessAssumption == Nobody \notin Session \union Editor /\ Session \intersect Editor = {}
ASSUME InodeAssumption == Inode # {} /\ NoInode \notin Inode
ASSUME EditBoundAssumption == MaxEdits \in Nat /\ MaxKills \in Nat

File == {"ports", "serial", "labels"}
Entry(f) == CASE f = "ports" -> Cable \union {Unassigned}
              [] f = "serial" -> Setting
              [] f = "labels" -> Label \union {NoLabel}
AnyEntry == Cable \union {Unassigned} \union Setting \union Label \union {NoLabel}

\* What a file holds: a line for every port or, just after it was opened for
\* writing, none.
NoLines == [p \in {} |-> Unassigned]
Text(f) == [Port -> Entry(f)] \union {NoLines}

VARIABLES
    conf,       \* the inode named ports.conf, serial.conf or labels.json
    temp,       \* the inode named .ports.conf.new, ... if there is one
    content,    \* what each inode holds
    lock,       \* who has the flock on a port's lock file
    plugged,    \* the cables that are present
    session,    \* consolepi-session of each SSH connection
    edit,       \* what each editor is executing
    edits, kills,   \* counters of the bounds
    overlapped  \* history: two edits have run at the same time

files == <<conf, temp, content>>
counters == <<edits, kills, overlapped>>
vars == <<files, lock, plugged, session, edit, counters>>

Offline == [pc |-> "idle", port |-> Nobody, cable |-> Unassigned, setting |-> Default]
Idle == [pc |-> "idle", file |-> "ports", port |-> Nobody, entry |-> Unassigned,
         text |-> NoLines, inode |-> NoInode]

SessionPc == {"idle", "serial", "device", "lock", "start", "open", "ended"}
EditPc == {"idle", "lock", "read", "open", "write", "replace"}

FilesOK ==
    /\ conf \in [File -> Inode]
    /\ temp \in [File -> Inode \union {NoInode}]
    /\ content \in [File -> [Inode -> [Port -> AnyEntry] \union {NoLines}]]
    /\ \A f \in File, i \in Inode : content[f][i] \in Text(f)

SessionsOK ==
    /\ session \in [Session -> [pc: SessionPc, port: Port \union {Nobody},
                                cable: Cable \union {Unassigned}, setting: Setting]]
    /\ \A s \in Session : session[s].pc # "idle" => session[s].port \in Port

\* An editor that writes has its text, one that holds an inode knows it.
EditsOK ==
    /\ edit \in [Editor -> [pc: EditPc, file: File, port: Port \union {Nobody},
                            entry: AnyEntry, text: [Port -> AnyEntry] \union {NoLines},
                            inode: Inode \union {NoInode}]]
    /\ \A e \in Editor :
        /\ edit[e].pc # "idle" => edit[e].port \in Port /\ edit[e].entry \in Entry(edit[e].file)
        /\ edit[e].pc \in {"open", "write", "replace"} => edit[e].text \in [Port -> Entry(edit[e].file)]
        /\ edit[e].pc \in {"write", "replace"} => edit[e].inode \in Inode

TypeOK ==
    /\ FilesOK /\ SessionsOK /\ EditsOK
    /\ lock \in [Port -> Session \union Editor \union {Nobody}]
    /\ plugged \in SUBSET Cable
    /\ edits \in Nat /\ kills \in Nat /\ overlapped \in BOOLEAN

\* No two ports of a map have one cable.
OneToOne(text) ==
    \A p, q \in DOMAIN text : p # q /\ text[p] \in Cable => text[p] # text[q]

\* A device in service: cables assigned, default parameters, no label.
Installed(cables) == [f \in File |->
    IF f = "ports" THEN cables
    ELSE [p \in Port |-> IF f = "serial" THEN Default ELSE NoLabel]]
Init ==
    /\ conf = [f \in File |-> CHOOSE i \in Inode : TRUE]
    /\ temp = [f \in File |-> NoInode]
    /\ \E cables \in [Port -> Entry("ports")] :
        /\ OneToOne(cables)
        /\ content = [f \in File |-> [i \in Inode |-> Installed(cables)[f]]]
    /\ lock = [p \in Port |-> Nobody]
    /\ plugged \in SUBSET Cable
    /\ session = [s \in Session |-> Offline]
    /\ edit = [e \in Editor |-> Idle]
    /\ edits = 0 /\ kills = 0 /\ overlapped = FALSE

\* A reader opens the file by its name.
Read(f) == content[f][conf[f]]

-----------------------------------------------------------------------------
(* Sessions: consolepi-session.                                            *)

\* ports.conf names the cable of the SSH port the connection came to.
SessionStart(s) ==
    /\ session[s].pc = "idle"
    /\ \E p \in Port :
        /\ p \in DOMAIN Read("ports")
        /\ session' = [session EXCEPT ![s] = [Offline EXCEPT !.pc = "serial", !.port = p,
                                                             !.cable = Read("ports")[p]]]
    /\ UNCHANGED <<files, lock, plugged, edit, counters>>

SessionReadSerial(s) ==
    /\ session[s].pc = "serial"
    /\ IF session[s].port \in DOMAIN Read("serial")
       THEN session' = [session EXCEPT ![s].pc = "device",
                                       ![s].setting = Read("serial")[session[s].port]]
       ELSE session' = [session EXCEPT ![s] = Offline]
    /\ UNCHANGED <<files, lock, plugged, edit, counters>>

\* "[ -e $SERIAL_DEVICE ] || deny"
SessionCheckDevice(s) ==
    /\ session[s].pc = "device"
    /\ IF session[s].cable \in plugged
       THEN session' = [session EXCEPT ![s].pc = "lock"]
       ELSE session' = [session EXCEPT ![s] = Offline]
    /\ UNCHANGED <<files, lock, plugged, edit, counters>>

SessionLock(s) ==
    LET p == session[s].port IN
    /\ session[s].pc = "lock"
    /\ IF lock[p] = Nobody
       THEN lock' = [lock EXCEPT ![p] = s] /\ session' = [session EXCEPT ![s].pc = "start"]
       ELSE UNCHANGED lock /\ session' = [session EXCEPT ![s] = Offline]
    /\ UNCHANGED <<files, plugged, edit, counters>>

\* picocom --nolock opens the cable the session found at its first read.
SessionOpen(s) ==
    /\ session[s].pc = "start"
    /\ session' = [session EXCEPT ![s].pc = IF session[s].cable \in plugged THEN "open" ELSE "ended"]
    /\ UNCHANGED <<files, lock, plugged, edit, counters>>

\* The operator leaves, the connection drops, picocom has lost its cable or
\* the process is killed: descriptor 9 is closed and the lock with it.
SessionClose(s) ==
    /\ session[s].pc \in {"start", "open", "ended"}
    /\ lock' = [lock EXCEPT ![session[s].port] = Nobody]
    /\ session' = [session EXCEPT ![s] = Offline]
    /\ UNCHANGED <<files, plugged, edit, counters>>

\* A hang-up before the lock is taken.
SessionHangup(s) ==
    /\ session[s].pc \in {"serial", "device", "lock"}
    /\ session' = [session EXCEPT ![s] = Offline]
    /\ UNCHANGED <<files, lock, plugged, edit, counters>>

-----------------------------------------------------------------------------
(* Edits: consolepi-control ports, serial and label.                       *)

Busy(e) == edit[e].pc # "idle"

\* Common to the three: ports.conf must name the port (port_name).
EditBegin(e, f, p, entry, pc) ==
    /\ edits < MaxEdits /\ ~Busy(e)
    /\ p \in DOMAIN Read("ports")
    /\ edit' = [edit EXCEPT ![e] = [Idle EXCEPT !.pc = pc, !.file = f, !.port = p, !.entry = entry]]
    /\ edits' = edits + 1
    /\ overlapped' = (overlapped \/ \E d \in Editor : Busy(d))
    /\ UNCHANGED <<files, lock, plugged, session, kills>>

\* ports_assign: the cable must be present.
AssignStart(e) == \E p \in Port, c \in plugged : EditBegin(e, "ports", p, c, "lock")
UnassignStart(e) == \E p \in Port : EditBegin(e, "ports", p, Unassigned, "lock")
\* serial_set and serial_reset, which sets the default.
SerialStart(e) == \E p \in Port, v \in Setting : EditBegin(e, "serial", p, v, "lock")
\* label_set takes no lock.
LabelStart(e) == \E p \in Port, v \in Label \union {NoLabel} : EditBegin(e, "labels", p, v, "read")

\* Mutant: the edit goes on although a session has the console.
EditLockIgnored(e) ==
    /\ edit[e].pc = "lock"
    /\ edit' = [edit EXCEPT ![e].pc = "read"]
    /\ lock' = IF lock[edit[e].port] = Nobody THEN [lock EXCEPT ![edit[e].port] = e] ELSE lock
    /\ UNCHANGED <<files, plugged, session, counters>>

\* ensure_console_free: LOCK_NB, "the console is busy".
EditLock(e) ==
    LET p == edit[e].port IN
    /\ edit[e].pc = "lock"
    /\ IF lock[p] = Nobody
       THEN lock' = [lock EXCEPT ![p] = e] /\ edit' = [edit EXCEPT ![e].pc = "read"]
       ELSE UNCHANGED lock /\ edit' = [edit EXCEPT ![e] = Idle]
    /\ UNCHANGED <<files, plugged, session, counters>>

\* The process ends, by return or exception: "finally: lock.close()".
EditEnds(e) ==
    /\ lock' = [p \in Port |-> IF lock[p] = e THEN Nobody ELSE lock[p]]
    /\ edit' = [edit EXCEPT ![e] = Idle]

\* An empty labels.json reads as "{}"; an empty ports.conf or serial.conf is refused.
Lines(f) == IF f = "labels" /\ Read(f) = NoLines THEN [p \in Port |-> NoLabel] ELSE Read(f)

\* Mutant: the cable is not looked for on the other ports.
AcceptableUnchecked(r) == Lines(r.file) # NoLines
\* No other port may have the cable already.
Acceptable(r) ==
    /\ Lines(r.file) # NoLines
    /\ r.entry \in Cable => \A q \in Port \ {r.port} : Lines(r.file)[q] # r.entry

EditRead(e) ==
    /\ edit[e].pc = "read"
    /\ IF Acceptable(edit[e])
       THEN /\ edit' = [edit EXCEPT ![e].pc = "open",
                   ![e].text = [Lines(edit[e].file) EXCEPT ![edit[e].port] = edit[e].entry]]
            /\ UNCHANGED lock
       ELSE EditEnds(e)
    /\ UNCHANGED <<files, plugged, session, counters>>

\* Path.write_text on the shared temporary name: open truncates ...
InUse(f, i) ==
    i \in {conf[f], temp[f]} \/ \E e \in Editor : edit[e].file = f /\ edit[e].inode = i
EditOpen(e) ==
    LET f == edit[e].file
        i == IF temp[f] # NoInode THEN temp[f] ELSE CHOOSE j \in Inode : ~InUse(f, j)
    IN
    /\ edit[e].pc = "open"
    /\ temp[f] # NoInode \/ \E j \in Inode : ~InUse(f, j)
    /\ temp' = [temp EXCEPT ![f] = i]
    /\ content' = [content EXCEPT ![f][i] = NoLines]
    /\ edit' = [edit EXCEPT ![e].pc = "write", ![e].inode = i]
    /\ UNCHANGED <<conf, lock, plugged, session, counters>>

\* ... and one write fills the inode that was opened, whatever its name is now.
EditWrite(e) ==
    /\ edit[e].pc = "write"
    /\ content' = [content EXCEPT ![edit[e].file][edit[e].inode] = edit[e].text]
    /\ edit' = [edit EXCEPT ![e].pc = "replace"]
    /\ UNCHANGED <<conf, temp, lock, plugged, session, counters>>

\* Mutant: the new file is renamed before it is written.
EditReplaceEarly(e) ==
    LET f == edit[e].file IN
    /\ edit[e].pc \in {"write", "replace"}
    /\ temp[f] # NoInode
    /\ conf' = [conf EXCEPT ![f] = temp[f]] /\ temp' = [temp EXCEPT ![f] = NoInode]
    /\ EditEnds(e)
    /\ UNCHANGED <<content, plugged, session, counters>>

\* Mutant: the new file is renamed even if another process has done so.
EditReplaceAgain(e) ==
    LET f == edit[e].file IN
    /\ edit[e].pc = "replace"
    /\ conf' = [conf EXCEPT ![f] = temp[f]] /\ temp' = [temp EXCEPT ![f] = NoInode]
    /\ EditEnds(e)
    /\ UNCHANGED <<content, plugged, session, counters>>

\* os.chmod and os.replace find the temporary name, or fail if another
\* process has renamed it; the lock is released either way.
EditReplace(e) ==
    LET f == edit[e].file IN
    /\ edit[e].pc = "replace"
    /\ IF temp[f] # NoInode
       THEN conf' = [conf EXCEPT ![f] = temp[f]] /\ temp' = [temp EXCEPT ![f] = NoInode]
       ELSE UNCHANGED <<conf, temp>>
    /\ EditEnds(e)
    /\ UNCHANGED <<content, plugged, session, counters>>

-----------------------------------------------------------------------------
(* The environment.                                                        *)

\* The process is killed or the power fails: the kernel drops its lock, its
\* files stay as they are.  A power failure is a kill of every process.
EditKilled(e) ==
    /\ kills < MaxKills /\ Busy(e)
    /\ kills' = kills + 1
    /\ EditEnds(e)
    /\ UNCHANGED <<files, plugged, session, edits, overlapped>>

PlugIn == \E c \in Cable \ plugged :
    /\ plugged' = plugged \union {c}
    /\ UNCHANGED <<files, lock, session, edit, counters>>

\* picocom's read on a cable that is gone fails, and picocom ends.
Unplug == \E c \in plugged :
    /\ plugged' = plugged \ {c}
    /\ session' = [s \in Session |->
          IF session[s].pc = "open" /\ session[s].cable = c
          THEN [session[s] EXCEPT !.pc = "ended"] ELSE session[s]]
    /\ UNCHANGED <<files, lock, edit, counters>>

-----------------------------------------------------------------------------
SessionNext(s) ==
    SessionStart(s) \/ SessionReadSerial(s) \/ SessionCheckDevice(s) \/ SessionLock(s)
        \/ SessionOpen(s) \/ SessionClose(s) \/ SessionHangup(s)
EditStart(e) == AssignStart(e) \/ UnassignStart(e) \/ SerialStart(e) \/ LabelStart(e)
EditNext(e) ==
    EditStart(e) \/ EditLock(e) \/ EditRead(e) \/ EditOpen(e) \/ EditWrite(e)
        \/ EditReplace(e) \/ EditKilled(e)
Next ==
    \/ \E s \in Session : SessionNext(s)
    \/ \E e \in Editor : EditNext(e)
    \/ PlugIn \/ Unplug

Spec == Init /\ [][Next]_vars

-----------------------------------------------------------------------------
(* Safety.                                                                 *)

\* ports.conf gives no cable to two ports, whatever edits run together and
\* wherever they are killed: each writes a map in which it has seen the cable
\* is free, even when it overwrites what another has just stored.
AssignedOnce == OneToOne(Read("ports"))

\* A configuration file without its lines is about to be written, unless an
\* editor was killed: no interleaving of edits leaves one empty for good,
\* with every console denied and no port left to assign.
Writing(f, i) == \E e \in Editor : edit[e].pc = "write" /\ edit[e].file = f /\ edit[e].inode = i
TornIsWritten == kills = 0 => \A f \in File : Read(f) = NoLines => Writing(f, conf[f])

\* Edits one at a time never show an incomplete file, killed or not.
CompleteAlone == ~overlapped => \A f \in File : Read(f) # NoLines

-----------------------------------------------------------------------------
(* The inductive invariant behind them.                                    *)

\* Who works under a port's lock has it.
LocksHeld ==
    /\ \A s \in Session : session[s].pc \in {"start", "open", "ended"} =>
          lock[session[s].port] = s
    /\ \A e \in Editor :
          edit[e].pc \in {"read", "open", "write", "replace"} /\ edit[e].file # "labels" =>
              lock[edit[e].port] = e

\* No inode, whatever its name, and no text about to be written breaks the rule.
TextsOneToOne ==
    /\ \A i \in Inode : OneToOne(content["ports"][i])
    /\ \A e \in Editor :
          edit[e].file = "ports" /\ edit[e].pc \in {"open", "write", "replace"} =>
              OneToOne(edit[e].text)

\* The temporary file is the next configuration file.
TornInodesWritten ==
    kills = 0 => \A f \in File : \A i \in Inode \intersect {conf[f], temp[f]} :
        content[f][i] = NoLines => Writing(f, i)

\* The only edit works on what it has read, and its inode is the temporary one.
EditAlone ==
    ~overlapped =>
        /\ \A d, e \in Editor : Busy(d) /\ Busy(e) => d = e
        /\ \A f \in File : Read(f) # NoLines /\ conf[f] # temp[f]
        /\ \A e \in Editor :
            /\ edit[e].pc \in {"open", "write", "replace"} =>
                  edit[e].text = [Read(edit[e].file) EXCEPT ![edit[e].port] = edit[e].entry]
            /\ edit[e].pc \in {"write", "replace"} => edit[e].inode = temp[edit[e].file]
            /\ edit[e].pc = "replace" => content[edit[e].file][edit[e].inode] = edit[e].text

InductiveInv == TypeOK /\ LocksHeld /\ TextsOneToOne /\ TornInodesWritten /\ EditAlone

-----------------------------------------------------------------------------
(* The abstract specification.                                             *)

Promise == INSTANCE PortsPromise
    WITH entries <- [f \in File |-> Read(f)],
         inUse <- {p \in Port : lock[p] \in Session}

\* Until two edits first overlap, each step is one of the promise's or leaves
\* entries and consoles as they are: no edit is lost, undone or half done, and
\* none reaches a console that is in use.
PromiseKept ==
    [][overlapped' \/ Promise!Next \/ UNCHANGED <<[f \in File |-> Read(f)], {p \in Port : lock[p] \in Session}>>]_vars

-----------------------------------------------------------------------------
(* What the program's texts say, and the code does not do.                 *)

\* "The console is busy; its settings cannot be changed" (consolepi-control,
\* ensure_console_free): while a session has the lock, the entries of its
\* port stay.
BusySettingsKept ==
    [][\A p \in Port, f \in {"ports", "serial"} :
        lock[p] \in Session /\ Read(f) # NoLines /\ Read(f)' # NoLines =>
            Read(f)'[p] = Read(f)[p]]_vars

\* "Console is busy: another user is connected to the same cable"
\* (templates/help.html:271): two sessions never have one cable open.
CableExclusive ==
    \A s, t \in Session :
        s # t /\ session[s].pc = "open" /\ session[t].pc = "open" =>
            session[s].cable # session[t].cable
=============================================================================
