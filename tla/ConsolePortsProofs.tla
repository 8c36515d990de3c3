------------------------- MODULE ConsolePortsProofs -------------------------
(***************************************************************************)
(* Theorems about ConsolePorts for every set of ports, cables, settings,   *)
(* labels, sessions, editors and inodes and every bound.                   *)
(***************************************************************************)
EXTENDS ConsolePorts, TLAPS

USE PortAssumption, EntryAssumption, ProcessAssumption, InodeAssumption, EditBoundAssumption

LEMMA EntryIsAny ==
    ASSUME NEW f \in File
    PROVE  Entry(f) \subseteq AnyEntry
  BY DEF File, Entry, AnyEntry

\* A text with its lines is a function on the ports; one without is not.
LEMMA LinesAreFunctions ==
    ASSUME NEW f \in File, NEW t \in Text(f)
    PROVE  /\ t # NoLines => t \in [Port -> Entry(f)]
           /\ t \in [Port -> Entry(f)] => t # NoLines /\ DOMAIN t = Port
           /\ DOMAIN NoLines = {}
  BY DEF Text, NoLines

LEMMA ReadType ==
    ASSUME TypeOK, NEW f \in File
    PROVE  Read(f) \in Text(f)
  BY DEF TypeOK, FilesOK, Read

\* What EditRead would write has a line for every port.
LEMMA NewTextType ==
    ASSUME TypeOK, NEW r, r.file \in File, r.port \in Port, r.entry \in Entry(r.file), Acceptable(r)
    PROVE  /\ Lines(r.file) \in [Port -> Entry(r.file)]
           /\ [Lines(r.file) EXCEPT ![r.port] = r.entry] \in [Port -> Entry(r.file)]
<1>1. Read(r.file) \in Text(r.file)
  BY ReadType
<1>2. CASE r.file = "labels" /\ Read(r.file) = NoLines
  <2>1. Lines(r.file) = [p \in Port |-> NoLabel] /\ NoLabel \in Entry(r.file)
    BY <1>2 DEF Lines, Entry
  <2>. QED BY <2>1
<1>3. CASE ~(r.file = "labels" /\ Read(r.file) = NoLines)
  <2>1. Lines(r.file) = Read(r.file) /\ Read(r.file) # NoLines
    BY <1>3 DEF Lines, Acceptable
  <2>2. Read(r.file) \in [Port -> Entry(r.file)]
    BY <1>1, <2>1, LinesAreFunctions
  <2>. QED BY <2>1, <2>2
<1>. QED BY <1>2, <1>3

-----------------------------------------------------------------------------
(* Types.                                                                  *)

LEMMA InitType == Init => TypeOK
<1> SUFFICES ASSUME Init PROVE TypeOK
  OBVIOUS
<1>1. FilesOK
  <2>1. (CHOOSE i \in Inode : TRUE) \in Inode
    OBVIOUS
  <2>2. conf \in [File -> Inode] /\ temp \in [File -> Inode \union {NoInode}]
    BY <2>1 DEF Init
  <2>3. PICK cables \in [Port -> Entry("ports")] :
            content = [f \in File |-> [i \in Inode |-> Installed(cables)[f]]]
    BY DEF Init
  <2>4. \A f \in File : Installed(cables)[f] \in [Port -> Entry(f)]
    BY DEF Installed, Entry, File
  <2>5. \A f \in File, i \in Inode : content[f][i] \in [Port -> Entry(f)]
    BY <2>3, <2>4
  <2>6. content \in [File -> [Inode -> [Port -> AnyEntry] \union {NoLines}]]
    <3>1. \A f \in File : Installed(cables)[f] \in [Port -> AnyEntry]
      BY <2>4, EntryIsAny
    <3>. QED BY <2>3, <3>1
  <2>. QED BY <2>2, <2>5, <2>6 DEF FilesOK, Text
<1>2. SessionsOK
  BY DEF Init, SessionsOK, Offline, SessionPc
<1>3. EditsOK
  BY DEF Init, EditsOK, Idle, EditPc, File, AnyEntry
<1>4. QED
  BY <1>1, <1>2, <1>3 DEF Init, TypeOK

LEMMA EditEndsType ==
    ASSUME TypeOK, NEW e \in Editor, EditEnds(e)
    PROVE  EditsOK' /\ lock' \in [Port -> Session \union Editor \union {Nobody}]
  BY DEF TypeOK, EditsOK, EditEnds, Idle, EditPc, File, AnyEntry

\* The type of the editors, one by one.
EditorType == [pc: EditPc, file: File, port: Port \union {Nobody}, entry: AnyEntry,
               text: [Port -> AnyEntry] \union {NoLines}, inode: Inode \union {NoInode}]
EditorOK(r) ==
    /\ r.pc # "idle" => r.port \in Port /\ r.entry \in Entry(r.file)
    /\ r.pc \in {"open", "write", "replace"} => r.text \in [Port -> Entry(r.file)]
    /\ r.pc \in {"write", "replace"} => r.inode \in Inode

LEMMA EditorsOK ==
    EditsOK <=> edit \in [Editor -> EditorType] /\ \A e \in Editor : EditorOK(edit[e])
  BY DEF EditsOK, EditorType, EditorOK

\* Moving one editor on keeps the types of all of them.
LEMMA EditorMoves ==
    ASSUME EditsOK, NEW e \in Editor, NEW r, r \in EditorType, EditorOK(r),
           edit' = [edit EXCEPT ![e] = r]
    PROVE  EditsOK'
<1>1. edit \in [Editor -> EditorType] /\ \A d \in Editor : EditorOK(edit[d])
  BY EditorsOK
<1>2. edit' \in [Editor -> EditorType] /\ \A d \in Editor : EditorOK(edit'[d])
  BY <1>1
<1>. QED BY <1>2 DEF EditsOK, EditorType, EditorOK

LEMMA SessionType ==
    ASSUME TypeOK, NEW s \in Session, SessionNext(s)
    PROVE  TypeOK'
<1>1. SessionsOK' /\ lock' \in [Port -> Session \union Editor \union {Nobody}]
  <2>1. CASE SessionStart(s)
    <3>1. PICK p \in Port : p \in DOMAIN Read("ports") /\
              session' = [session EXCEPT ![s] = [Offline EXCEPT !.pc = "serial", !.port = p,
                                                               !.cable = Read("ports")[p]]]
      BY <2>1 DEF SessionStart
    <3>2. Read("ports")[p] \in Cable \union {Unassigned}
      BY <3>1, ReadType, LinesAreFunctions DEF File, Entry
    <3>. QED BY <2>1, <3>1, <3>2 DEF SessionStart, TypeOK, SessionsOK, Offline, SessionPc
  <2>2. CASE SessionReadSerial(s)
    <3>1. session[s].port \in DOMAIN Read("serial") =>
              Read("serial")[session[s].port] \in Setting
      BY ReadType, LinesAreFunctions DEF File, Entry
    <3>. QED BY <2>2, <3>1 DEF SessionReadSerial, TypeOK, SessionsOK, Offline, SessionPc
  <2>3. CASE SessionCheckDevice(s)
    BY <2>3 DEF SessionCheckDevice, TypeOK, SessionsOK, Offline, SessionPc
  <2>4. CASE SessionLock(s)
    BY <2>4 DEF SessionLock, TypeOK, SessionsOK, Offline, SessionPc
  <2>5. CASE SessionOpen(s)
    BY <2>5 DEF SessionOpen, TypeOK, SessionsOK, Offline, SessionPc
  <2>6. CASE SessionClose(s)
    BY <2>6 DEF SessionClose, TypeOK, SessionsOK, Offline, SessionPc
  <2>7. CASE SessionHangup(s)
    BY <2>7 DEF SessionHangup, TypeOK, SessionsOK, Offline, SessionPc
  <2>. QED BY <2>1, <2>2, <2>3, <2>4, <2>5, <2>6, <2>7 DEF SessionNext
<1>2. UNCHANGED <<files, plugged, edit, counters>>
  BY DEF SessionNext, SessionStart, SessionReadSerial, SessionCheckDevice, SessionLock,
         SessionOpen, SessionClose, SessionHangup
<1>3. QED
  BY <1>1, <1>2 DEF TypeOK, FilesOK, EditsOK, files, counters

LEMMA EditBeginType ==
    ASSUME TypeOK, NEW e \in Editor, NEW f \in File, NEW p \in Port, NEW entry \in Entry(f),
           NEW pc \in {"lock", "read"}, EditBegin(e, f, p, entry, pc)
    PROVE  TypeOK'
<1>1. EditsOK'
  BY EntryIsAny DEF EditBegin, TypeOK, EditsOK, Idle, EditPc, File
<1>2. FilesOK' /\ SessionsOK' /\ UNCHANGED <<lock, plugged, kills>>
  BY DEF EditBegin, TypeOK, FilesOK, SessionsOK, files
<1>3. edits' \in Nat /\ overlapped' \in BOOLEAN
  BY DEF EditBegin, TypeOK
<1>. QED BY <1>1, <1>2, <1>3 DEF TypeOK

LEMMA EditStartType ==
    ASSUME TypeOK, NEW e \in Editor, EditStart(e)
    PROVE  TypeOK'
<1>1. CASE AssignStart(e)
  BY <1>1, EditBeginType DEF AssignStart, TypeOK, File, Entry
<1>2. CASE UnassignStart(e)
  BY <1>2, EditBeginType DEF UnassignStart, File, Entry
<1>3. CASE SerialStart(e)
  BY <1>3, EditBeginType DEF SerialStart, File, Entry
<1>4. CASE LabelStart(e)
  BY <1>4, EditBeginType DEF LabelStart, File, Entry
<1>. QED BY <1>1, <1>2, <1>3, <1>4 DEF EditStart

LEMMA EditType ==
    ASSUME TypeOK, NEW e \in Editor, EditNext(e)
    PROVE  TypeOK'
<1>1. CASE EditStart(e)
  BY <1>1, EditStartType
<1>2. CASE EditLock(e)
  <2>1. EditsOK' /\ lock' \in [Port -> Session \union Editor \union {Nobody}]
    BY <1>2 DEF EditLock, TypeOK, EditsOK, Idle, EditPc, File, AnyEntry
  <2>. QED BY <1>2, <2>1 DEF EditLock, TypeOK, FilesOK, SessionsOK, files, counters
<1>3. CASE EditRead(e)
  <2>1. FilesOK' /\ SessionsOK' /\ UNCHANGED <<plugged, counters>>
    BY <1>3 DEF EditRead, TypeOK, FilesOK, SessionsOK, files
  <2>2. CASE Acceptable(edit[e])
    <3>1. edit[e].file \in File /\ edit[e].port \in Port /\ edit[e].entry \in Entry(edit[e].file)
      BY <1>3 DEF EditRead, TypeOK, EditsOK
    <3> DEFINE t == [Lines(edit[e].file) EXCEPT ![edit[e].port] = edit[e].entry]
    <3>2. t \in [Port -> Entry(edit[e].file)] /\ t \in [Port -> AnyEntry]
      BY <3>1, <2>2, NewTextType, EntryIsAny
    <3>3. edit' = [edit EXCEPT ![e].pc = "open", ![e].text = t] /\ UNCHANGED lock
      BY <1>3, <2>2 DEF EditRead
    <3> DEFINE r == [edit[e] EXCEPT !.pc = "open", !.text = t]
    <3> HIDE DEF t
    <3>4. edit[e] \in EditorType /\ EditsOK
      BY DEF TypeOK, EditsOK, EditorType
    <3>5. r \in EditorType /\ EditorOK(r)
      BY <3>1, <3>2, <3>4 DEF EditorType, EditorOK, EditPc
    <3>6. edit' = [edit EXCEPT ![e] = r]
      BY <3>3, <3>4 DEF EditsOK
    <3> HIDE DEF r
    <3>7. EditsOK'
      BY <3>4, <3>5, <3>6, EditorMoves
    <3>. QED BY <2>1, <3>3, <3>7 DEF TypeOK, counters
  <2>3. CASE ~Acceptable(edit[e])
    <3>1. EditEnds(e)
      BY <1>3, <2>3 DEF EditRead
    <3>. QED BY <2>1, <3>1, EditEndsType DEF TypeOK, counters
  <2>. QED BY <2>2, <2>3
<1>4. CASE EditOpen(e)
  <2> DEFINE f == edit[e].file
             i == IF temp[f] # NoInode THEN temp[f] ELSE CHOOSE j \in Inode : ~InUse(f, j)
  <2>1. f \in File /\ i \in Inode
    BY <1>4 DEF EditOpen, TypeOK, FilesOK, EditsOK
  <2>2. /\ temp' = [temp EXCEPT ![f] = i]
        /\ content' = [content EXCEPT ![f][i] = NoLines]
        /\ edit' = [edit EXCEPT ![e].pc = "write", ![e].inode = i]
        /\ edit[e].pc = "open"
        /\ UNCHANGED <<conf, lock, plugged, session, counters>>
    BY <1>4 DEF EditOpen
  <2> HIDE DEF f, i
  <2>3. FilesOK'
    BY <2>1, <2>2 DEF TypeOK, FilesOK, Text
  <2>4. EditsOK'
    <3> DEFINE r == [edit[e] EXCEPT !.pc = "write", !.inode = i]
    <3>1. edit[e] \in EditorType /\ EditorOK(edit[e]) /\ EditsOK
      BY EditorsOK DEF TypeOK
    <3>2. r \in EditorType /\ EditorOK(r)
      BY <2>1, <2>2, <3>1 DEF EditorType, EditorOK, EditPc
    <3>3. edit' = [edit EXCEPT ![e] = r]
      BY <2>2, <3>1 DEF EditsOK
    <3> HIDE DEF r
    <3>. QED BY <3>1, <3>2, <3>3, EditorMoves
  <2>. QED BY <2>2, <2>3, <2>4 DEF TypeOK, SessionsOK, counters
<1>5. CASE EditWrite(e)
  <2>1. edit[e].text \in [Port -> Entry(edit[e].file)] /\ edit[e].inode \in Inode
        /\ edit[e].file \in File /\ edit[e].text \in [Port -> AnyEntry] \union {NoLines}
    BY <1>5 DEF EditWrite, TypeOK, EditsOK
  <2>2. FilesOK'
    BY <1>5, <2>1 DEF EditWrite, TypeOK, FilesOK, Text
  <2>3. EditsOK'
    BY <1>5, <2>1 DEF EditWrite, TypeOK, EditsOK, EditPc
  <2>. QED BY <1>5, <2>2, <2>3 DEF EditWrite, TypeOK, SessionsOK, counters
<1>6. CASE EditReplace(e)
  <2>1. edit[e].file \in File
    BY DEF TypeOK, EditsOK
  <2>2. FilesOK'
    BY <1>6, <2>1 DEF EditReplace, TypeOK, FilesOK
  <2>3. EditEnds(e) /\ UNCHANGED <<plugged, session, counters>>
    BY <1>6 DEF EditReplace
  <2>. QED BY <2>2, <2>3, EditEndsType DEF TypeOK, SessionsOK, counters
<1>7. CASE EditKilled(e)
  <2>1. EditEnds(e) /\ UNCHANGED <<files, plugged, session, edits, overlapped>> /\ kills' \in Nat
    BY <1>7 DEF EditKilled, TypeOK
  <2>. QED BY <2>1, EditEndsType DEF TypeOK, FilesOK, SessionsOK, files
<1>. QED BY <1>1, <1>2, <1>3, <1>4, <1>5, <1>6, <1>7 DEF EditNext

LEMMA PlugType ==
    ASSUME TypeOK, PlugIn \/ Unplug
    PROVE  TypeOK'
<1>1. SessionsOK' /\ plugged' \in SUBSET Cable
  BY DEF PlugIn, Unplug, TypeOK, SessionsOK, SessionPc
<1>2. UNCHANGED <<files, lock, edit, counters>>
  BY DEF PlugIn, Unplug
<1>. QED BY <1>1, <1>2 DEF TypeOK, FilesOK, EditsOK, files, counters

LEMMA NextType == TypeOK /\ [Next]_vars => TypeOK'
<1> SUFFICES ASSUME TypeOK, [Next]_vars PROVE TypeOK'
  OBVIOUS
<1>1. CASE UNCHANGED vars
  BY <1>1 DEF vars, files, counters, TypeOK, FilesOK, SessionsOK, EditsOK
<1>. QED BY <1>1, SessionType, EditType, PlugType DEF Next

\* Every variable and every local of sessions and editors keeps its type; in
\* particular an editor that writes holds a line for every port.
THEOREM TypeCorrect == Spec => []TypeOK
  BY InitType, NextType, PTL DEF Spec

-----------------------------------------------------------------------------
(* The inductive invariant.                                                *)

LEMMA InitInv == Init => InductiveInv
<1> SUFFICES ASSUME Init PROVE InductiveInv
  OBVIOUS
<1>1. TypeOK
  BY InitType
<1>2. \A e \in Editor : edit[e].pc = "idle"
  BY DEF Init, Idle
<1>3. LocksHeld
  BY <1>2 DEF Init, LocksHeld, Offline
<1>4. PICK cables \in [Port -> Entry("ports")] :
          OneToOne(cables) /\ content = [f \in File |-> [i \in Inode |-> Installed(cables)[f]]]
  BY DEF Init
<1>5. \A f \in File, i \in Inode : content[f][i] # NoLines
  <2>1. \A f \in File : Installed(cables)[f] \in [Port -> Entry(f)]
    BY DEF Installed, Entry, File
  <2>2. \A f \in File : Installed(cables)[f] # NoLines
    BY <2>1, LinesAreFunctions DEF Text
  <2>. QED BY <1>4, <2>2
<1>6. TextsOneToOne
  <2>1. \A i \in Inode : content["ports"][i] = cables
    BY <1>4 DEF Installed, File
  <2>. QED BY <1>2, <1>4, <2>1 DEF TextsOneToOne
<1>7. TornInodesWritten
  BY <1>5 DEF TornInodesWritten
<1>8. EditAlone
  <2>1. \A f \in File : conf[f] \in Inode /\ temp[f] = NoInode
    BY <1>1 DEF Init, TypeOK, FilesOK
  <2>. QED BY <1>2, <1>5, <2>1 DEF EditAlone, Busy, Read
<1>. QED BY <1>1, <1>3, <1>6, <1>7, <1>8 DEF InductiveInv

\* Sessions and cables touch no file and no editor, and only their own locks.
LEMMA BystandersKeep ==
    ASSUME InductiveInv, UNCHANGED <<files, edit, counters>>
    PROVE  TextsOneToOne' /\ TornInodesWritten' /\ EditAlone'
<1>1. TextsOneToOne'
  BY DEF InductiveInv, TextsOneToOne, files
<1>2. TornInodesWritten'
  BY DEF InductiveInv, TornInodesWritten, Writing, files, counters
<1>3. EditAlone'
  BY DEF InductiveInv, EditAlone, Busy, Read, files, counters
<1>. QED BY <1>1, <1>2, <1>3

LEMMA SessionInv ==
    ASSUME InductiveInv, NEW s \in Session, SessionNext(s)
    PROVE  InductiveInv'
<1>1. TypeOK' /\ TypeOK
  BY SessionType DEF InductiveInv
<1>2. UNCHANGED <<files, edit, counters>>
  BY DEF SessionNext, SessionStart, SessionReadSerial, SessionCheckDevice, SessionLock,
         SessionOpen, SessionClose, SessionHangup
<1>3. LocksHeld'
  <2> USE <1>1, <1>2 DEF InductiveInv, LocksHeld, TypeOK, SessionsOK, EditsOK, Offline
  <2>1. CASE SessionStart(s)
    BY <2>1 DEF SessionStart
  <2>2. CASE SessionReadSerial(s)
    BY <2>2 DEF SessionReadSerial
  <2>3. CASE SessionCheckDevice(s)
    BY <2>3 DEF SessionCheckDevice
  <2>4. CASE SessionLock(s)
    BY <2>4 DEF SessionLock
  <2>5. CASE SessionOpen(s)
    BY <2>5 DEF SessionOpen
  <2>6. CASE SessionClose(s)
    BY <2>6 DEF SessionClose
  <2>7. CASE SessionHangup(s)
    BY <2>7 DEF SessionHangup
  <2>. QED BY <2>1, <2>2, <2>3, <2>4, <2>5, <2>6, <2>7 DEF SessionNext
<1>. QED BY <1>1, <1>2, <1>3, BystandersKeep DEF InductiveInv

LEMMA PlugInv ==
    ASSUME InductiveInv, PlugIn \/ Unplug
    PROVE  InductiveInv'
<1>1. TypeOK'
  BY PlugType DEF InductiveInv
<1>2. UNCHANGED <<files, lock, edit, counters>>
  BY DEF PlugIn, Unplug
<1>3. \A s \in Session : session'[s].port = session[s].port
          /\ (session'[s].pc \in {"start", "open", "ended"} => session[s].pc \in {"start", "open", "ended"})
  BY DEF PlugIn, Unplug, InductiveInv, TypeOK, SessionsOK
<1>4. LocksHeld'
  BY <1>2, <1>3 DEF InductiveInv, LocksHeld
<1>. QED BY <1>1, <1>2, <1>4, BystandersKeep DEF InductiveInv

-----------------------------------------------------------------------------
(* The steps of an edit.                                                   *)

\* An editor that ends gives up its own lock and nobody else's.
LEMMA EndsKeepLocks ==
    ASSUME InductiveInv, NEW e \in Editor, EditEnds(e), UNCHANGED session
    PROVE  LocksHeld'
  BY DEF InductiveInv, LocksHeld, EditEnds, TypeOK, SessionsOK, EditsOK, Idle

\* Every edit begins alike; only a label's goes on without a lock.
LEMMA EditBegins ==
    ASSUME InductiveInv, NEW e \in Editor, EditStart(e)
    PROVE  \E f \in File, p \in Port, v \in AnyEntry, pc \in {"lock", "read"} :
               EditBegin(e, f, p, v, pc) /\ (pc = "read" => f = "labels")
<1>1. CASE AssignStart(e)
  BY <1>1 DEF AssignStart, File, AnyEntry, InductiveInv, TypeOK
<1>2. CASE UnassignStart(e)
  BY <1>2 DEF UnassignStart, File, AnyEntry
<1>3. CASE SerialStart(e)
  BY <1>3 DEF SerialStart, File, AnyEntry
<1>4. CASE LabelStart(e)
  BY <1>4 DEF LabelStart, File, AnyEntry
<1>. QED BY <1>1, <1>2, <1>3, <1>4 DEF EditStart

LEMMA EditLocks ==
    ASSUME InductiveInv, NEW e \in Editor, EditNext(e)
    PROVE  LocksHeld'
<1> USE DEF InductiveInv, LocksHeld, TypeOK, SessionsOK, EditsOK
<1>1. CASE EditStart(e)
  <2>1. /\ UNCHANGED <<lock, session>>
        /\ \E f \in File, p \in Port, v \in AnyEntry, pc \in {"lock", "read"} :
              /\ pc = "read" => f = "labels"
              /\ edit' = [edit EXCEPT ![e] = [Idle EXCEPT !.pc = pc, !.file = f, !.port = p, !.entry = v]]
    <3>1. PICK f \in File, p \in Port, v \in AnyEntry, pc \in {"lock", "read"} :
              EditBegin(e, f, p, v, pc) /\ (pc = "read" => f = "labels")
      BY <1>1, EditBegins
    <3>. QED BY <3>1 DEF EditBegin
  <2>. QED BY <2>1 DEF Idle
<1>2. CASE EditLock(e)
  BY <1>2 DEF EditLock, Idle
<1>3. CASE EditRead(e)
  <2>1. UNCHANGED session
    BY <1>3 DEF EditRead
  <2>2. CASE Acceptable(edit[e])
    BY <1>3, <2>2 DEF EditRead
  <2>3. CASE ~Acceptable(edit[e])
    BY <1>3, <2>1, <2>3, EndsKeepLocks DEF EditRead
  <2>. QED BY <2>2, <2>3
<1>4. CASE EditOpen(e)
  BY <1>4 DEF EditOpen
<1>5. CASE EditWrite(e)
  BY <1>5 DEF EditWrite
<1>6. CASE EditReplace(e)
  BY <1>6, EndsKeepLocks DEF EditReplace
<1>7. CASE EditKilled(e)
  BY <1>7, EndsKeepLocks DEF EditKilled
<1>. QED BY <1>1, <1>2, <1>3, <1>4, <1>5, <1>6, <1>7 DEF EditNext

\* A step of an edit that only changes its own locals, or ends.
EditQuiet(e) == EditStart(e) \/ EditLock(e) \/ EditKilled(e) \/ (EditRead(e) /\ ~Acceptable(edit[e]))

LEMMA QuietStep ==
    ASSUME InductiveInv, NEW e \in Editor, EditQuiet(e)
    PROVE  /\ UNCHANGED files
           /\ \A d \in Editor \ {e} : edit'[d] = edit[d]
           /\ edit'[e].pc \in {"idle", "lock", "read"}
           /\ edit[e].pc = "idle" \/ kills' # 0 \/ edit[e].pc \in {"lock", "read"}
           /\ kills' = 0 => kills = 0
           /\ overlapped => overlapped'
           /\ edit[e].pc = "idle" => overlapped' = (overlapped \/ \E d \in Editor : Busy(d))
<1> USE DEF InductiveInv, TypeOK, EditsOK, files, counters
<1>1. CASE EditStart(e)
  <2>1. PICK f \in File, p \in Port, v \in AnyEntry, pc \in {"lock", "read"} :
            EditBegin(e, f, p, v, pc)
    BY <1>1, EditBegins
  <2>2. edit' = [edit EXCEPT ![e] = [Idle EXCEPT !.pc = pc, !.file = f, !.port = p, !.entry = v]]
    BY <2>1 DEF EditBegin
  <2>3. edit'[e].pc = pc /\ \A d \in Editor \ {e} : edit'[d] = edit[d]
    BY <2>2 DEF Idle
  <2>. QED BY <2>1, <2>3 DEF EditBegin, Busy
<1>2. CASE EditLock(e)
  BY <1>2 DEF EditLock, Idle
<1>3. CASE EditKilled(e)
  BY <1>3 DEF EditKilled, EditEnds, Idle, Busy
<1>4. CASE EditRead(e) /\ ~Acceptable(edit[e])
  BY <1>4 DEF EditRead, EditEnds, Idle
<1>. QED BY <1>1, <1>2, <1>3, <1>4 DEF EditQuiet

LEMMA EditSteps ==
    ASSUME NEW e \in Editor, EditNext(e)
    PROVE  \/ EditQuiet(e)
           \/ EditRead(e) /\ Acceptable(edit[e])
           \/ EditOpen(e) \/ EditWrite(e) \/ EditReplace(e)
  BY DEF EditNext, EditQuiet

\* Assigning a cable no other port has keeps a map one-to-one.
LEMMA AssignKeeps ==
    ASSUME NEW t \in [Port -> Entry("ports")], OneToOne(t), NEW p \in Port, NEW c \in Entry("ports"),
           c \in Cable => \A q \in Port \ {p} : t[q] # c
    PROVE  OneToOne([t EXCEPT ![p] = c])
  BY DEF OneToOne

LEMMA EditTexts ==
    ASSUME InductiveInv, NEW e \in Editor, EditNext(e)
    PROVE  TextsOneToOne'
<1>0. TypeOK /\ edit[e].file \in File /\ edit \in [Editor -> EditorType] /\ EditorOK(edit[e])
  BY EditorsOK DEF InductiveInv, TypeOK, EditsOK
<1> DEFINE Holds(r) == r.file = "ports" /\ r.pc \in {"open", "write", "replace"} => OneToOne(r.text)
<1>a. \A i \in Inode : OneToOne(content["ports"][i])
  BY DEF InductiveInv, TextsOneToOne
<1>b. \A d \in Editor : Holds(edit[d])
  BY DEF InductiveInv, TextsOneToOne
\* It is enough to look at the editor that moved and the inode it may have written.
<1>c. SUFFICES (\A i \in Inode : OneToOne(content'["ports"][i])) /\ \A d \in Editor : Holds(edit'[d])
  BY <1>c DEF TextsOneToOne
<1>d. ASSUME \A d \in Editor \ {e} : edit'[d] = edit[d], Holds(edit'[e])
      PROVE  \A d \in Editor : Holds(edit'[d])
  <2>1. \A d \in Editor \ {e} : Holds(edit'[d])
    BY <1>b, <1>d
  <2>. QED BY <1>d, <2>1
<1> HIDE DEF Holds
<1>1. CASE EditQuiet(e)
  <2>1. content' = content
    BY <1>1, QuietStep DEF files
  <2>2. Holds(edit'[e])
    BY <1>1, QuietStep DEF Holds
  <2>. QED BY <1>1, <1>a, <1>d, <2>1, <2>2, QuietStep
<1>2. CASE EditRead(e) /\ Acceptable(edit[e])
  <2> DEFINE t == [Lines(edit[e].file) EXCEPT ![edit[e].port] = edit[e].entry]
  <2>1. edit' = [edit EXCEPT ![e].pc = "open", ![e].text = t] /\ content' = content
    BY <1>2 DEF EditRead, files
  <2>2. edit[e].port \in Port /\ edit[e].entry \in Entry(edit[e].file)
    BY <1>0, <1>2 DEF EditRead, EditorOK
  <2>3. ASSUME edit[e].file = "ports" PROVE OneToOne(t)
    <3>1. Lines("ports") \in [Port -> Entry("ports")]
      BY <1>0, <1>2, <2>2, <2>3, NewTextType
    <3>2. Lines("ports") = content["ports"][conf["ports"]] /\ conf["ports"] \in Inode
      BY <1>0 DEF Lines, Read, TypeOK, FilesOK, File
    <3>3. OneToOne(Lines("ports"))
      BY <1>a, <3>2
    <3>4. edit[e].entry \in Cable => \A q \in Port \ {edit[e].port} : Lines("ports")[q] # edit[e].entry
      BY <1>2, <2>3 DEF Acceptable
    <3>. QED BY <2>2, <2>3, <3>1, <3>3, <3>4, AssignKeeps
  <2> HIDE DEF t
  <2>4. edit'[e].text = t /\ edit'[e].file = edit[e].file /\ \A d \in Editor \ {e} : edit'[d] = edit[d]
    BY <1>0, <2>1 DEF EditorType
  <2>5. Holds(edit'[e])
    BY <2>3, <2>4 DEF Holds
  <2>. QED BY <1>a, <1>d, <2>1, <2>4, <2>5
<1>3. CASE EditOpen(e)
  <2>1. \A i \in Inode : content'["ports"][i] = content["ports"][i] \/ content'["ports"][i] = NoLines
    BY <1>0, <1>3 DEF EditOpen, TypeOK, FilesOK, File
  <2>2. OneToOne(NoLines)
    BY LinesAreFunctions DEF OneToOne, NoLines
  <2>3. \A i \in Inode : OneToOne(content'["ports"][i])
    BY <1>a, <2>1, <2>2
  <2>4. /\ \A d \in Editor \ {e} : edit'[d] = edit[d]
        /\ edit[e].pc = "open" /\ edit'[e].file = edit[e].file /\ edit'[e].text = edit[e].text
    BY <1>0, <1>3 DEF EditOpen, EditorType
  <2>5. Holds(edit'[e])
    BY <1>b, <2>4 DEF Holds
  <2>. QED BY <1>d, <2>3, <2>4, <2>5
<1>4. CASE EditWrite(e)
  <2> DEFINE f == edit[e].file
             t == edit[e].text
             j == edit[e].inode
  <2>1. /\ content' = [content EXCEPT ![f][j] = t] /\ edit' = [edit EXCEPT ![e].pc = "replace"]
        /\ edit[e].pc = "write" /\ f \in File /\ j \in Inode
    BY <1>0, <1>4 DEF EditWrite, EditorOK
  <2>2. content \in [File -> [Inode -> [Port -> AnyEntry] \union {NoLines}]] /\ "ports" \in File
    BY <1>0 DEF TypeOK, FilesOK, File
  <2>3. Holds(edit[e])
    BY <1>b
  <2>4. f = "ports" => OneToOne(t)
    BY <2>1, <2>3 DEF Holds
  <2>5. /\ \A d \in Editor \ {e} : edit'[d] = edit[d]
        /\ edit'[e].file = f /\ edit'[e].text = t
    BY <1>0, <2>1 DEF EditorType
  <2>6. Holds(edit'[e])
    BY <2>4, <2>5 DEF Holds
  <2> HIDE DEF f, t, j
  <2>7. \A i \in Inode : content'["ports"][i] = content["ports"][i]
                         \/ (f = "ports" /\ content'["ports"][i] = t)
    BY <2>1, <2>2
  <2>8. \A i \in Inode : OneToOne(content'["ports"][i])
    BY <1>a, <2>4, <2>7
  <2>. QED BY <1>d, <2>5, <2>6, <2>8
<1>5. CASE EditReplace(e)
  <2>1. content' = content /\ edit' = [edit EXCEPT ![e] = Idle]
    BY <1>5 DEF EditReplace, EditEnds
  <2>2. edit'[e] = Idle /\ \A d \in Editor \ {e} : edit'[d] = edit[d]
    BY <1>0, <2>1
  <2>3. Holds(edit'[e])
    BY <2>2 DEF Holds, Idle
  <2>. QED BY <1>a, <1>d, <2>1, <2>2, <2>3
<1>. QED BY <1>1, <1>2, <1>3, <1>4, <1>5, EditSteps

\* An inode that is or becomes the configuration, and holds nothing, has its writer.
LEMMA EditTorn ==
    ASSUME InductiveInv, NEW e \in Editor, EditNext(e)
    PROVE  TornInodesWritten'
<1> SUFFICES ASSUME kills' = 0, NEW f \in File, NEW i \in Inode, i \in {conf'[f], temp'[f]},
                    content'[f][i] = NoLines
             PROVE  Writing(f, i)'
  BY DEF TornInodesWritten
<1>0. /\ TypeOK /\ edit[e].file \in File /\ edit \in [Editor -> EditorType] /\ EditorOK(edit[e])
      /\ conf \in [File -> Inode] /\ temp \in [File -> Inode \union {NoInode}]
      /\ content \in [File -> [Inode -> [Port -> AnyEntry] \union {NoLines}]]
  BY EditorsOK DEF InductiveInv, TypeOK, EditsOK, FilesOK
<1>1. ASSUME kills = 0, i \in {conf[f], temp[f]}, content[f][i] = NoLines
      PROVE  Writing(f, i)
  BY <1>1 DEF InductiveInv, TornInodesWritten
<1>2. CASE EditQuiet(e)
  <2>1. Writing(f, i)
    BY <1>1, <1>2, QuietStep DEF files
  <2>. QED BY <1>2, <2>1, QuietStep DEF Writing
<1>3. CASE EditRead(e) /\ Acceptable(edit[e])
  <2>1. Writing(f, i)
    BY <1>1, <1>3 DEF EditRead, files, counters
  <2>. QED BY <1>0, <1>3, <2>1 DEF EditRead, Writing, EditorType
<1>4. CASE EditOpen(e)
  <2> DEFINE g == edit[e].file
             j == IF temp[g] # NoInode THEN temp[g] ELSE CHOOSE k \in Inode : ~InUse(g, k)
  <2>1. /\ temp' = [temp EXCEPT ![g] = j] /\ conf' = conf
        /\ content' = [content EXCEPT ![g][j] = NoLines]
        /\ edit' = [edit EXCEPT ![e].pc = "write", ![e].inode = j]
        /\ edit[e].pc = "open" /\ kills' = kills
    BY <1>4 DEF EditOpen, counters
  <2>2. edit'[e].pc = "write" /\ edit'[e].file = g /\ edit'[e].inode = j
        /\ \A d \in Editor \ {e} : edit'[d] = edit[d]
    BY <1>0, <2>1 DEF EditorType
  <2> HIDE DEF j
  <2>3. CASE f = g /\ i = j
    BY <2>2, <2>3 DEF Writing
  <2>4. CASE ~(f = g /\ i = j)
    <3>1. content[f][i] = NoLines /\ i \in {conf[f], temp[f]}
      BY <1>0, <2>1, <2>4
    <3>2. Writing(f, i)
      BY <1>1, <2>1, <3>1
    <3>. QED BY <2>1, <2>2, <3>2 DEF Writing
  <2>. QED BY <2>3, <2>4
<1>5. CASE EditWrite(e)
  <2>1. edit[e].text # NoLines /\ edit[e].inode \in Inode
    <3>1. edit[e].text \in [Port -> Entry(edit[e].file)] /\ edit[e].inode \in Inode
      BY <1>0, <1>5 DEF EditWrite, EditorOK
    <3>. QED BY <1>0, <3>1, LinesAreFunctions DEF Text
  <2>2. ~(f = edit[e].file /\ i = edit[e].inode)
    BY <1>0, <1>5, <2>1 DEF EditWrite
  <2>3. content[f][i] = NoLines /\ i \in {conf[f], temp[f]} /\ kills = 0
    BY <1>0, <1>5, <2>1, <2>2 DEF EditWrite, counters
  <2>4. Writing(f, i)
    BY <1>1, <2>3
  <2>5. \A d \in Editor \ {e} : edit'[d] = edit[d]
    BY <1>0, <1>5 DEF EditWrite
  <2>. QED BY <2>2, <2>4, <2>5 DEF Writing
<1>6. CASE EditReplace(e)
  <2>1. content[f][i] = NoLines /\ i \in {conf[f], temp[f]} /\ kills = 0
    BY <1>0, <1>6 DEF EditReplace, counters
  <2>2. Writing(f, i)
    BY <1>1, <2>1
  <2>3. \A d \in Editor \ {e} : edit'[d] = edit[d]
    BY <1>0, <1>6 DEF EditReplace, EditEnds
  <2>. QED BY <1>6, <2>2, <2>3 DEF Writing, EditReplace
<1>. QED BY <1>2, <1>3, <1>4, <1>5, <1>6, EditSteps

\* Before two edits overlap the one that runs is alone.
LEMMA OthersIdle ==
    ASSUME InductiveInv, NEW e \in Editor, EditNext(e), ~overlapped'
    PROVE  /\ ~overlapped
           /\ \A d \in Editor \ {e} : edit[d].pc = "idle" /\ edit'[d] = edit[d]
<1>0. edit \in [Editor -> EditorType]
  BY DEF InductiveInv, TypeOK, EditsOK, EditorType
<1>1. CASE EditQuiet(e)
  <2>1. ~overlapped /\ \A d \in Editor \ {e} : edit'[d] = edit[d]
    BY <1>1, QuietStep DEF InductiveInv, TypeOK
  <2>2. CASE edit[e].pc = "idle"
    BY <1>1, <2>1, <2>2, QuietStep DEF Busy, InductiveInv, TypeOK
  <2>3. CASE edit[e].pc # "idle"
    BY <2>1, <2>3 DEF InductiveInv, EditAlone, Busy
  <2>. QED BY <2>2, <2>3
<1>2. CASE ~EditQuiet(e)
  <2>1. (EditRead(e) /\ Acceptable(edit[e])) \/ EditOpen(e) \/ EditWrite(e) \/ EditReplace(e)
    BY <1>2, EditSteps
  <2>2. edit[e].pc # "idle" /\ overlapped' = overlapped
    BY <2>1 DEF EditRead, EditOpen, EditWrite, EditReplace, counters
  <2>3. \A d \in Editor \ {e} : edit'[d] = edit[d]
    BY <1>0, <2>1 DEF EditRead, EditOpen, EditWrite, EditReplace, EditEnds
  <2>. QED BY <2>2, <2>3 DEF InductiveInv, EditAlone, Busy
<1>. QED BY <1>1, <1>2

\* An editor that is alone reads a whole file, fills an inode that is not the
\* configuration, and makes it the configuration.
LEMMA EditAloneKept ==
    ASSUME InductiveInv, NEW e \in Editor, EditNext(e)
    PROVE  EditAlone'
<1> SUFFICES ASSUME ~overlapped' PROVE EditAlone'
  BY DEF EditAlone
<1>0. /\ TypeOK /\ edit[e].file \in File /\ edit \in [Editor -> EditorType] /\ EditorOK(edit[e])
      /\ conf \in [File -> Inode] /\ temp \in [File -> Inode \union {NoInode}]
      /\ content \in [File -> [Inode -> [Port -> AnyEntry] \union {NoLines}]]
      /\ edit[e].pc # "idle" => edit[e].port \in Port /\ edit[e].entry \in Entry(edit[e].file)
  BY EditorsOK DEF InductiveInv, TypeOK, EditsOK, FilesOK
<1>1. ~overlapped /\ \A d \in Editor \ {e} : edit[d].pc = "idle" /\ edit'[d] = edit[d]
  BY OthersIdle
<1>2. /\ \A f \in File : Read(f) # NoLines /\ conf[f] # temp[f]
      /\ edit[e].pc \in {"open", "write", "replace"} =>
            edit[e].text = [Read(edit[e].file) EXCEPT ![edit[e].port] = edit[e].entry]
      /\ edit[e].pc \in {"write", "replace"} => edit[e].inode = temp[edit[e].file]
      /\ edit[e].pc = "replace" => content[edit[e].file][edit[e].inode] = edit[e].text
  BY <1>1 DEF InductiveInv, EditAlone
<1>3. SUFFICES /\ \A f \in File : Read(f)' # NoLines /\ conf'[f] # temp'[f]
               /\ edit'[e].pc \in {"open", "write", "replace"} =>
                     edit'[e].text = [content'[edit'[e].file][conf'[edit'[e].file]]
                                         EXCEPT ![edit'[e].port] = edit'[e].entry]
               /\ edit'[e].pc \in {"write", "replace"} => edit'[e].inode = temp'[edit'[e].file]
               /\ edit'[e].pc = "replace" => content'[edit'[e].file][edit'[e].inode] = edit'[e].text
  <2>1. \A d \in Editor \ {e} : edit'[d].pc = "idle"
    BY <1>1
  <2>2. \A c, d \in Editor : Busy(c)' /\ Busy(d)' => c = d
    BY <2>1 DEF Busy
  <2>. QED BY <1>3, <2>1, <2>2 DEF EditAlone, Read
<1>4. CASE EditQuiet(e)
  BY <1>2, <1>4, QuietStep DEF files, Read
<1>5. CASE EditRead(e) /\ Acceptable(edit[e])
  <2>1. Lines(edit[e].file) = content[edit[e].file][conf[edit[e].file]]
    BY <1>0, <1>2 DEF Lines, Read
  <2> DEFINE t == [Lines(edit[e].file) EXCEPT ![edit[e].port] = edit[e].entry]
  <2>2. edit' = [edit EXCEPT ![e].pc = "open", ![e].text = t] /\ UNCHANGED files
    BY <1>5 DEF EditRead
  <2>3. t = [content[edit[e].file][conf[edit[e].file]] EXCEPT ![edit[e].port] = edit[e].entry]
    BY <2>1
  <2> HIDE DEF t
  <2>4. /\ edit'[e].pc = "open" /\ edit'[e].text = t /\ edit'[e].file = edit[e].file
        /\ edit'[e].port = edit[e].port /\ edit'[e].entry = edit[e].entry
    BY <1>0, <2>2 DEF EditorType
  <2>. QED BY <1>2, <2>2, <2>3, <2>4 DEF files, Read
<1>6. CASE EditOpen(e)
  <2> DEFINE g == edit[e].file
             j == IF temp[g] # NoInode THEN temp[g] ELSE CHOOSE k \in Inode : ~InUse(g, k)
  <2>1. /\ temp' = [temp EXCEPT ![g] = j] /\ conf' = conf
        /\ content' = [content EXCEPT ![g][j] = NoLines]
        /\ edit' = [edit EXCEPT ![e].pc = "write", ![e].inode = j]
        /\ edit[e].pc = "open"
    BY <1>6 DEF EditOpen
  <2>2. j \in Inode /\ j # conf[g]
    <3>1. CASE temp[g] # NoInode
      BY <1>0, <1>2, <3>1
    <3>2. CASE temp[g] = NoInode
      <4>1. \E k \in Inode : ~InUse(g, k)
        BY <1>6, <3>2 DEF EditOpen
      <4>2. j \in Inode /\ ~InUse(g, j)
        BY <3>2, <4>1
      <4>. QED BY <4>2 DEF InUse
    <3>. QED BY <3>1, <3>2
  <2>3. /\ edit'[e].pc = "write" /\ edit'[e].inode = j /\ edit'[e].text = edit[e].text
        /\ edit'[e].file = g /\ edit'[e].port = edit[e].port /\ edit'[e].entry = edit[e].entry
    BY <1>0, <2>1 DEF EditorType
  <2>4. g \in File
    BY <1>0
  <2> HIDE DEF j, g
  <2>5. \A f \in File : content'[f][conf'[f]] = content[f][conf[f]]
    BY <1>0, <2>1, <2>2, <2>4
  <2>6. \A f \in File : conf'[f] # temp'[f]
    BY <1>0, <1>2, <2>1, <2>2, <2>4
  <2>7. temp'[g] = j
    BY <1>0, <2>1, <2>4
  <2>8. /\ \A f \in File : Read(f)' # NoLines
        /\ edit[e].text = [content[g][conf[g]] EXCEPT ![edit[e].port] = edit[e].entry]
    BY <1>2, <2>1, <2>5 DEF Read, g
  <2>9. edit'[e].text = [content'[g][conf'[g]] EXCEPT ![edit'[e].port] = edit'[e].entry]
    BY <2>3, <2>4, <2>5, <2>8
  <2>. QED BY <2>3, <2>6, <2>7, <2>8, <2>9
<1>7. CASE EditWrite(e)
  <2> DEFINE g == edit[e].file
             j == edit[e].inode
             t == edit[e].text
  <2>1. /\ content' = [content EXCEPT ![g][j] = t] /\ temp' = temp /\ conf' = conf
        /\ edit' = [edit EXCEPT ![e].pc = "replace"] /\ edit[e].pc = "write"
    BY <1>7 DEF EditWrite
  <2>2. j \in Inode /\ j = temp[g] /\ g \in File /\ j # conf[g]
        /\ t = [content[g][conf[g]] EXCEPT ![edit[e].port] = edit[e].entry]
    BY <1>0, <1>2, <2>1 DEF EditorOK, Read
  <2>3. /\ edit'[e].pc = "replace" /\ edit'[e].inode = j /\ edit'[e].text = t
        /\ edit'[e].file = g /\ edit'[e].port = edit[e].port /\ edit'[e].entry = edit[e].entry
    BY <1>0, <2>1 DEF EditorType
  <2> HIDE DEF g, j, t
  <2>4. \A f \in File : content'[f][conf'[f]] = content[f][conf[f]]
    BY <1>0, <2>1, <2>2
  <2>5. content'[g][j] = t
    BY <1>0, <2>1, <2>2
  <2>6. \A f \in File : Read(f)' # NoLines /\ conf'[f] # temp'[f]
    BY <1>2, <2>1, <2>4 DEF Read
  <2>7. t = [content'[g][conf'[g]] EXCEPT ![edit[e].port] = edit[e].entry]
    BY <2>2, <2>4
  <2>8. j = temp'[g]
    BY <2>1, <2>2
  <2>. QED BY <2>3, <2>5, <2>6, <2>7, <2>8
<1>8. CASE EditReplace(e)
  <2> DEFINE g == edit[e].file
  <2>1. /\ edit[e].pc = "replace" /\ content' = content /\ edit' = [edit EXCEPT ![e] = Idle]
    BY <1>8 DEF EditReplace, EditEnds
  <2>2. edit[e].inode = temp[g] /\ edit[e].inode \in Inode /\ g \in File /\ content[g][temp[g]] # NoLines
    <3>1. edit[e].inode = temp[g] /\ content[g][edit[e].inode] = edit[e].text
      BY <1>2, <2>1
    <3>2. edit[e].text \in [Port -> Entry(g)] /\ edit[e].inode \in Inode
      BY <1>0, <2>1 DEF EditorOK
    <3>3. edit[e].text # NoLines
      BY <1>0, <3>2, LinesAreFunctions DEF Text
    <3>. QED BY <1>0, <3>1, <3>2, <3>3
  <2>3. conf' = [conf EXCEPT ![g] = temp[g]] /\ temp' = [temp EXCEPT ![g] = NoInode]
    BY <1>8, <2>2 DEF EditReplace
  <2>4. edit'[e].pc = "idle"
    BY <1>0, <2>1 DEF Idle
  <2> HIDE DEF g
  <2>5. \A f \in File : content'[f][conf'[f]] # NoLines /\ conf'[f] # temp'[f]
    BY <1>0, <1>2, <2>1, <2>2, <2>3 DEF Read
  <2>. QED BY <2>4, <2>5 DEF Read
<1>. QED BY <1>4, <1>5, <1>6, <1>7, <1>8, EditSteps

LEMMA NextInv == InductiveInv /\ [Next]_vars => InductiveInv'
<1> SUFFICES ASSUME InductiveInv, [Next]_vars PROVE InductiveInv'
  OBVIOUS
<1>1. CASE UNCHANGED vars
  <2>1. TypeOK' /\ LocksHeld'
    BY <1>1, NextType DEF vars, InductiveInv, LocksHeld
  <2>. QED BY <1>1, <2>1, BystandersKeep DEF vars, InductiveInv
<1>2. CASE \E s \in Session : SessionNext(s)
  BY <1>2, SessionInv
<1>3. CASE \E e \in Editor : EditNext(e)
  BY <1>3, EditType, EditLocks, EditTexts, EditTorn, EditAloneKept DEF InductiveInv
<1>4. CASE PlugIn \/ Unplug
  BY <1>4, PlugInv
<1>. QED BY <1>1, <1>2, <1>3, <1>4 DEF Next

-----------------------------------------------------------------------------
(* What follows.                                                           *)

\* Types, locks held by whoever works under them, one-to-one texts on every
\* inode, torn inodes with their writers, and an undisturbed lone edit.
THEOREM InductiveInvCorrect == Spec => []InductiveInv
  BY InitInv, NextInv, PTL DEF Spec

\* ports_assign: no interleaving or kill of any number of edits gives one
\* cable to two ports.
THEOREM AssignedOnceCorrect == Spec => []AssignedOnce
<1>1. InductiveInv => AssignedOnce
  BY DEF InductiveInv, TypeOK, FilesOK, TextsOneToOne, AssignedOnce, Read, File
<1>. QED BY <1>1, InductiveInvCorrect, PTL

\* write_text and os.replace on a shared temporary name: without a kill, a
\* configuration file that is empty has an editor about to fill it.
THEOREM TornIsWrittenCorrect == Spec => []TornIsWritten
<1>1. InductiveInv => TornIsWritten
  BY DEF InductiveInv, TypeOK, FilesOK, TornInodesWritten, TornIsWritten, Read
<1>. QED BY <1>1, InductiveInvCorrect, PTL

\* write_text and os.replace by one editor at a time: the file is whole at
\* every moment, even when the editor is killed.
THEOREM CompleteAloneCorrect == Spec => []CompleteAlone
<1>1. InductiveInv => CompleteAlone
  BY DEF InductiveInv, EditAlone, CompleteAlone
<1>. QED BY <1>1, InductiveInvCorrect, PTL

-----------------------------------------------------------------------------
(* The promise.                                                            *)

Entries == [f \in File |-> Read(f)]
InUsePorts == {p \in Port : lock[p] \in Session}

LEMMA SessionKeepsPromise ==
    ASSUME InductiveInv, NEW s \in Session, SessionNext(s)
    PROVE  Promise!Next \/ UNCHANGED <<Entries, InUsePorts>>
<1>0. lock \in [Port -> Session \union Editor \union {Nobody}]
      /\ (session[s].pc # "idle" => session[s].port \in Port)
  BY DEF InductiveInv, TypeOK, SessionsOK
<1>1. UNCHANGED Entries
  BY DEF SessionNext, SessionStart, SessionReadSerial, SessionCheckDevice, SessionLock,
         SessionOpen, SessionClose, SessionHangup, Entries, Read, files
<1>2. CASE SessionLock(s) /\ lock[session[s].port] = Nobody
  <2>1. session[s].port \in Port /\ lock' = [lock EXCEPT ![session[s].port] = s]
    BY <1>0, <1>2 DEF SessionLock
  <2>2. session[s].port \notin InUsePorts /\ InUsePorts' = InUsePorts \union {session[s].port}
    BY <1>0, <1>2, <2>1 DEF InUsePorts
  <2>. QED BY <1>1, <2>1, <2>2 DEF Promise!Next, Promise!Use, Entries, InUsePorts
<1>3. CASE SessionClose(s)
  <2>1. session[s].port \in Port /\ lock' = [lock EXCEPT ![session[s].port] = Nobody]
        /\ lock[session[s].port] = s
    BY <1>0, <1>3 DEF SessionClose, InductiveInv, LocksHeld
  <2>2. session[s].port \in InUsePorts /\ InUsePorts' = InUsePorts \ {session[s].port}
    BY <1>0, <2>1 DEF InUsePorts
  <2>. QED BY <1>1, <2>1, <2>2 DEF Promise!Next, Promise!Leave, Entries, InUsePorts
<1>4. CASE ~(SessionLock(s) /\ lock[session[s].port] = Nobody) /\ ~SessionClose(s)
  <2>1. UNCHANGED lock
    BY <1>4 DEF SessionNext, SessionStart, SessionReadSerial, SessionCheckDevice, SessionLock,
           SessionOpen, SessionHangup
  <2>. QED BY <1>1, <2>1 DEF InUsePorts
<1>. QED BY <1>2, <1>3, <1>4

\* Editors come and go at locks without a session in them.
LEMMA EditLeavesConsoles ==
    ASSUME InductiveInv, NEW e \in Editor, EditNext(e)
    PROVE  UNCHANGED InUsePorts
<1>0. lock \in [Port -> Session \union Editor \union {Nobody}]
      /\ (edit[e].pc # "idle" => edit[e].port \in Port)
  BY DEF InductiveInv, TypeOK, EditsOK
<1>1. ASSUME EditEnds(e) PROVE UNCHANGED InUsePorts
  BY <1>0, <1>1 DEF EditEnds, InUsePorts
<1>2. CASE EditStart(e)
  BY <1>2 DEF EditStart, AssignStart, UnassignStart, SerialStart, LabelStart, EditBegin, InUsePorts
<1>3. CASE EditLock(e)
  BY <1>0, <1>3 DEF EditLock, InUsePorts
<1>4. CASE EditRead(e)
  BY <1>1, <1>4 DEF EditRead, InUsePorts
<1>5. CASE EditOpen(e) \/ EditWrite(e)
  BY <1>5 DEF EditOpen, EditWrite, InUsePorts
<1>6. CASE EditReplace(e) \/ EditKilled(e)
  BY <1>1, <1>6 DEF EditReplace, EditKilled
<1>. QED BY <1>2, <1>3, <1>4, <1>5, <1>6 DEF EditNext

\* The rename of a lone edit is the promise's change; its other steps are silent.
LEMMA EditKeepsPromise ==
    ASSUME InductiveInv, NEW e \in Editor, EditNext(e), ~overlapped'
    PROVE  Promise!Next \/ UNCHANGED <<Entries, InUsePorts>>
<1>0. /\ TypeOK /\ edit[e].file \in File /\ EditorOK(edit[e])
      /\ conf \in [File -> Inode] /\ temp \in [File -> Inode \union {NoInode}]
      /\ content \in [File -> [Inode -> [Port -> AnyEntry] \union {NoLines}]]
  BY EditorsOK DEF InductiveInv, TypeOK, EditsOK, FilesOK
<1>1. UNCHANGED InUsePorts
  BY EditLeavesConsoles
<1>2. ~overlapped /\ EditAlone
  BY OthersIdle DEF InductiveInv
<1>3. CASE EditQuiet(e)
  BY <1>1, <1>3, QuietStep DEF files, Entries, Read
<1>4. CASE EditRead(e) /\ Acceptable(edit[e])
  BY <1>1, <1>4 DEF EditRead, files, Entries, Read
<1>5. CASE EditOpen(e) \/ EditWrite(e)
  <2> DEFINE g == edit[e].file
  <2>1. PICK j \in Inode, t \in [Port -> AnyEntry] \union {NoLines} :
            content' = [content EXCEPT ![g][j] = t] /\ conf' = conf /\ j # conf[g]
    <3>1. CASE EditOpen(e)
      <4> DEFINE j == IF temp[g] # NoInode THEN temp[g] ELSE CHOOSE k \in Inode : ~InUse(g, k)
      <4>1. content' = [content EXCEPT ![g][j] = NoLines] /\ conf' = conf
        BY <3>1 DEF EditOpen
      <4>2. j \in Inode /\ j # conf[g]
        <5>1. CASE temp[g] # NoInode
          BY <1>0, <1>2, <5>1 DEF EditAlone
        <5>2. CASE temp[g] = NoInode
          <6>1. \E k \in Inode : ~InUse(g, k)
            BY <3>1, <5>2 DEF EditOpen
          <6>2. j \in Inode /\ ~InUse(g, j)
            BY <5>2, <6>1
          <6>. QED BY <6>2 DEF InUse
        <5>. QED BY <5>1, <5>2
      <4>. QED BY <4>1, <4>2
    <3>2. CASE EditWrite(e)
      <4>1. content' = [content EXCEPT ![g][edit[e].inode] = edit[e].text] /\ conf' = conf
        BY <3>2 DEF EditWrite
      <4>2. edit[e].inode \in Inode /\ edit[e].inode = temp[g] /\ edit[e].inode # conf[g]
        BY <1>0, <1>2, <3>2 DEF EditWrite, EditAlone, EditorOK
      <4>3. edit[e].text \in [Port -> AnyEntry] \union {NoLines}
        BY <1>0 DEF TypeOK, EditsOK
      <4>. QED BY <4>1, <4>2, <4>3
    <3>. QED BY <1>5, <3>1, <3>2
  <2>2. \A f \in File : content'[f][conf'[f]] = content[f][conf[f]]
    BY <1>0, <2>1
  <2>. QED BY <1>1, <2>2 DEF Entries, Read
<1>6. CASE EditReplace(e)
  <2> DEFINE g == edit[e].file
             p == edit[e].port
             v == edit[e].entry
  <2>1. edit[e].pc = "replace" /\ g \in File /\ p \in Port /\ v \in Entry(g) /\ content' = content
    BY <1>0, <1>6 DEF EditReplace, EditorOK
  <2>2. /\ edit[e].inode = temp[g] /\ edit[e].inode \in Inode
        /\ content[g][temp[g]] = edit[e].text
        /\ edit[e].text = [Read(g) EXCEPT ![p] = v]
    BY <1>0, <1>2, <2>1 DEF EditAlone, EditorOK
  <2>3. conf' = [conf EXCEPT ![g] = temp[g]]
    BY <1>0, <1>6, <2>2 DEF EditReplace
  <2>4. Read(g) \in [Port -> Entry(g)]
    <3>1. Read(g) \in Text(g) /\ Read(g) # NoLines
      BY <1>0, <1>2, ReadType DEF EditAlone
    <3>. QED BY <1>0, <3>1, LinesAreFunctions
  <2>5. Entries' = [Entries EXCEPT ![g][p] = v]
    <3>1. \A f \in File : Entries'[f] = IF f = g THEN [Read(g) EXCEPT ![p] = v] ELSE Read(f)
      BY <1>0, <2>1, <2>2, <2>3 DEF Entries, Read
    <3>2. DOMAIN Entries' = File /\ Entries' = [f \in File |-> Entries'[f]]
      BY DEF Entries
    <3>3. Entries' = [f \in File |-> IF f = g THEN [Read(g) EXCEPT ![p] = v] ELSE Read(f)]
      BY <3>1, <3>2
    <3>4. [Entries EXCEPT ![g][p] = v] =
              [f \in File |-> IF f = g THEN [Read(g) EXCEPT ![p] = v] ELSE Read(f)]
      BY <2>1 DEF Entries
    <3>. QED BY <3>3, <3>4
  <2>6. Entries'[g][p] = v
    BY <2>1, <2>4, <2>5 DEF Entries
  <2>7. g \in {"ports", "serial"} => p \notin InUsePorts
    <3>1. g # "labels" => lock[p] = e
      BY <2>1 DEF InductiveInv, LocksHeld
    <3>. QED BY <3>1 DEF InUsePorts
  <2>8. g = "ports" /\ v \in Cable => \A q \in Port \ {p} : Entries[g][q] # v
    <3> SUFFICES ASSUME g = "ports", v \in Cable, NEW q \in Port \ {p} PROVE Read(g)[q] # v
      BY <2>1 DEF Entries
    <3>1. OneToOne(edit[e].text)
      BY <2>1 DEF InductiveInv, TextsOneToOne
    <3>2. edit[e].text[p] = v /\ edit[e].text[q] = Read(g)[q] /\ DOMAIN edit[e].text = Port
      BY <2>1, <2>2, <2>4
    <3>. QED BY <2>1, <3>1, <3>2 DEF OneToOne
  <2>9. Promise!Change(g, p, Entries'[g][p])
    BY <1>1, <2>5, <2>6, <2>7, <2>8 DEF Promise!Change, Entries, InUsePorts
  <2>. QED BY <2>1, <2>9 DEF Promise!Next, Entries
<1>. QED BY <1>3, <1>4, <1>5, <1>6, EditSteps

\* consolepi-control ports, serial and label beside consolepi-session: as long
\* as edits do not overlap each is atomic, changes one entry, leaves a console
\* in use alone and never gives a cable away twice.
THEOREM PromiseKeptCorrect == Spec => PromiseKept
<1>1. InductiveInv /\ [Next]_vars =>
          [overlapped' \/ Promise!Next \/ UNCHANGED <<Entries, InUsePorts>>]_vars
  <2> SUFFICES ASSUME InductiveInv, Next
               PROVE  overlapped' \/ Promise!Next \/ UNCHANGED <<Entries, InUsePorts>>
    OBVIOUS
  <2>1. CASE \E s \in Session : SessionNext(s)
    BY <2>1, SessionKeepsPromise
  <2>2. CASE \E e \in Editor : EditNext(e)
    BY <2>2, EditKeepsPromise
  <2>3. CASE PlugIn \/ Unplug
    BY <2>3 DEF PlugIn, Unplug, Entries, InUsePorts, Read, files
  <2>. QED BY <2>1, <2>2, <2>3 DEF Next
<1>2. InductiveInv /\ [Next]_vars =>
          [overlapped' \/ Promise!Next
             \/ UNCHANGED <<[f \in File |-> Read(f)], {p \in Port : lock[p] \in Session}>>]_vars
  BY <1>1 DEF Entries, InUsePorts
<1>. QED BY <1>2, InductiveInvCorrect, PTL DEF Spec, PromiseKept
=============================================================================
