------------------------------ MODULE Transcripts ------------------------------
(***************************************************************************)
(* The transcripts of console sessions (usr/local/sbin/                    *)
(* consolepi-log-maintain, the recording part of consolepi-session, logs   *)
(* configure and logs clear of consolepi-control).                         *)
(*                                                                         *)
(* A session records into a file .active and renames it to .log when it    *)
(* ends.  Maintenance removes what is too old, compresses what is a day    *)
(* old into .log.gz, and removes the oldest while too much space is used.  *)
(* It is run by the port monitor every five minutes, by every session that *)
(* asks whether it may record, and when the settings are saved - at the    *)
(* same time, over the same files, without a lock.  A session that loses   *)
(* its terminal, a full disk and a power failure may cut it off anywhere;  *)
(* MaxFaults bounds these, MaxFills what other files do to the free space. *)
(***************************************************************************)
EXTENDS Naturals, Sequences, FiniteSetsExt

CONSTANTS Session,     \* console sessions at the same time
          Root,        \* what runs as root: the port monitor, web requests
          Transcript,  \* names of transcripts, each used once
          MaxSize,     \* bound on the size of a transcript
          Totals,      \* values of TRANSCRIPT_MAX_TOTAL_MB
          Retention,   \* TRANSCRIPT_RETENTION_DAYS
          MaxFaults,   \* bound on kills, failing writes and power failures
          MaxFills     \* bound on changes of the space others leave

Proc == Session \cup Root

ASSUME NamesAssumption  == Session \cap Root = {}
ASSUME BoundsAssumption == /\ MaxSize \in Nat /\ Retention \in Nat \ {0}
                           /\ MaxFaults \in Nat /\ MaxFills \in Nat
                           /\ Totals \subseteq Nat /\ Totals # {}
ASSUME NoneAssumption   == "none" \notin Proc /\ "complete" \notin Proc

VARIABLES
  active,     \* transcripts that have a file .active
  log,        \* a file .log
  gz,         \* the file .log.gz of each: "none", "complete", or whose
              \* turn it is to complete it
  size,       \* bytes in .active or .log
  age,        \* days since the last write to .active or .log
  gzAge,      \* and to .log.gz
  rootOwned,  \* transcripts whose .log.gz belongs to root
  maxTotal,   \* TRANSCRIPT_MAX_TOTAL_MB in consolepi.conf
  reserve,    \* other files leave the free space that is to be kept
  job,        \* the process of each session, request and the monitor
  used,       \* names given out
  closed,     \* history: transcripts that have been .log
  dropped,    \* history: those of which a file was removed on purpose
  shared,     \* history: those a second process compressed or removed while
              \* a first one compressed them
  faults, fills

files   == <<active, log, gz, size, age, gzAge, rootOwned>>
history == <<used, closed, dropped, shared>>
vars    == <<files, maxTotal, reserve, job, history, faults, fills>>

-----------------------------------------------------------------------------
(* Files.                                                                  *)

Kinds == {"active", "log", "gz"}
Files == Transcript \X Kinds

\* transcript_files: what a listing of the directories shows.
transcript_files(includeActive) ==
  (log \X {"log"}) \cup ({t \in Transcript : gz[t] # "none"} \X {"gz"})
    \cup (IF includeActive THEN active \X {"active"} ELSE {})

Exists(f) == f \in transcript_files(TRUE)

Closed == transcript_files(FALSE)

mtime(f) == IF f[2] = "gz" THEN gzAge[f[1]] ELSE age[f[1]]

\* A compressed file is taken to be one unit long.
SizeOf(f) == IF f[2] = "gz" THEN 1 ELSE size[f[1]]

usage_bytes == MapThenSumSet(SizeOf, transcript_files(TRUE))

Old(f)     == mtime(f) >= 1
Expired(f) == mtime(f) > Retention

\* A file that is not there has neither size nor age.
Forget(t) == /\ log' = log \ {t}
             /\ size' = [size EXCEPT ![t] = 0] /\ age' = [age EXCEPT ![t] = 0]

Readable(t) == t \in log \/ gz[t] = "complete"

ReadableWithout(f) == \/ f[2] # "log" /\ f[1] \in log
                      \/ f[2] # "gz" /\ gz[f[1]] = "complete"

\* Another process is compressing the same file.
Sharing(p, f) == \E q \in Proc \ {p} :
  job[q].file = f /\ job[q].at \in {"truncate", "copy", "unlink"}

\* A file goes by the retention, the quota or at the user's wish, and with it
\* the transcript, unless the other file can still be read.  One who compresses
\* what has gone may be about to overwrite that other file.
Remove(p, f) ==
  /\ \/ f[2] = "log" /\ Forget(f[1]) /\ UNCHANGED <<gz, gzAge, rootOwned>>
     \/ /\ f[2] = "gz" /\ UNCHANGED <<log, size, age>>
        /\ gz' = [gz EXCEPT ![f[1]] = "none"]
        /\ gzAge' = [gzAge EXCEPT ![f[1]] = 0]
        /\ rootOwned' = rootOwned \ {f[1]}
  /\ dropped' = IF Exists(f) /\ ~ReadableWithout(f) THEN dropped \cup {f[1]}
                                                    ELSE dropped
  /\ shared' = IF ReadableWithout(f) /\ Sharing(p, f) THEN shared \cup {f[1]}
                                                      ELSE shared
  /\ UNCHANGED <<active, used, closed>>

-----------------------------------------------------------------------------
(* Processes.  What a job has read: the limit of can_record (own) and of   *)
(* maintain (limit), the files it has still to look at (todo), the one it  *)
(* works on (file), those it may remove for space, oldest first (oldest).  *)

NoFile == <<>>
NoJob == [at |-> "idle", own |-> 0, limit |-> 0, todo |-> {}, file |-> NoFile,
          oldest |-> <<>>]

At(p, step) == job[p].at = step
Goto(p, step) == job' = [job EXCEPT ![p].at = step]
Ends(p) == job' = [job EXCEPT ![p] = NoJob]

Environment == <<maxTotal, reserve, faults, fills>>

\* A listing is taken and every name in it looked up.  Another process may
\* remove one in between, which is an exception.
Vanishing(p) == \E q \in Proc \ {p} :
  \/ job[q].at \in {"expire", "unlink", "drop"}
  \/ job[q].at = "clear" /\ job[q].todo # {}

\* The same with the files .active, which the end of a session renames.
ActiveVanishing(p) ==
  Vanishing(p) \/ \E q \in Session \ {p} : job[q].at = "recording"

\* An exception ends the maintenance: the monitor logs it and tries again,
\* can_record answers no, the request fails.
Raise(p) == Ends(p)

Init == /\ active = {} /\ log = {} /\ closed = {} /\ used = {}
        /\ gz = [t \in Transcript |-> "none"]
        /\ size = [t \in Transcript |-> 0]
        /\ age = [t \in Transcript |-> 0] /\ gzAge = [t \in Transcript |-> 0]
        /\ rootOwned = {} /\ dropped = {} /\ shared = {}
        /\ maxTotal \in Totals /\ reserve = TRUE
        /\ job = [p \in Proc |-> NoJob]
        /\ faults = 0 /\ fills = 0

-----------------------------------------------------------------------------
(* maintain.  Steps "settings", "look", "expire", "truncate", "copy",      *)
(* "unlink", "check", "drop".                                              *)

\* The settings are read and the finished transcripts listed.
ReadAndList(p, from) ==
  /\ At(p, from)
  /\ job' = [job EXCEPT ![p].limit = maxTotal, ![p].todo = Closed,
                        ![p].at = "look"]
  /\ UNCHANGED <<files, history, Environment>>

\* Mutant: only files .log are too old one day.
VerdictLogOnly(f) == IF f[2] # "log" THEN "look"
                     ELSE CASE Expired(f) -> "expire"
                            [] Old(f) /\ ~Expired(f) -> "truncate"
                            [] OTHER -> "look"

\* What becomes of a finished transcript: too old, to be compressed, neither.
Verdict(f) == CASE Expired(f) -> "expire"
                [] f[2] = "log" /\ Old(f) /\ ~Expired(f) -> "truncate"
                [] OTHER -> "look"

\* The next file of the listing.  To compress it its contents are opened.
Look(p) ==
  \E f \in job[p].todo :
    /\ At(p, "look")
    /\ \/ ~Exists(f) /\ Raise(p) /\ UNCHANGED shared
       \/ /\ Exists(f)
          /\ job' = [job EXCEPT ![p].todo = @ \ {f}, ![p].at = Verdict(f),
                        ![p].file = IF Verdict(f) = "look" THEN NoFile ELSE f]
          /\ shared' = IF Verdict(f) = "truncate" /\ Sharing(p, f)
                       THEN shared \cup {f[1]} ELSE shared
    /\ UNCHANGED <<files, used, closed, dropped, Environment>>

Expire(p) ==
  /\ At(p, "expire")
  /\ Remove(p, job[p].file)
  /\ job' = [job EXCEPT ![p].file = NoFile, ![p].at = "look"]
  /\ UNCHANGED Environment

Name(p) == job[p].file[1]

\* Mutant: the original is removed before it has been compressed.
TruncateUnlinked(p) ==
  /\ At(p, "truncate") /\ Goto(p, "copy")
  /\ Forget(Name(p))
  /\ gz' = [gz EXCEPT ![Name(p)] = p]
  /\ gzAge' = [gzAge EXCEPT ![Name(p)] = 0]
  /\ UNCHANGED <<active, rootOwned, history, Environment>>

\* gzip.open(..., "wb"): whatever the compressed file held is gone.  A session
\* may not open one that belongs to root.
Truncate(p) ==
  /\ At(p, "truncate")
  /\ LET t == Name(p) IN
     IF gz[t] # "none" /\ t \in rootOwned /\ p \notin Root
     THEN Raise(p) /\ UNCHANGED <<gz, gzAge, rootOwned>>
     ELSE /\ Goto(p, "copy")
          /\ gz' = [gz EXCEPT ![t] = p] /\ gzAge' = [gzAge EXCEPT ![t] = 0]
          /\ rootOwned' = IF gz[t] # "none" THEN rootOwned
                          ELSE IF p \in Root THEN rootOwned \cup {t}
                                             ELSE rootOwned \ {t}
  /\ UNCHANGED <<active, log, size, age, history, Environment>>

\* The contents are written and both files closed.  What another process has
\* truncated since is complete when that one is done.
Copy(p) ==
  /\ At(p, "copy") /\ Goto(p, "unlink")
  /\ LET t == Name(p) IN
     /\ gz' = IF gz[t] = p THEN [gz EXCEPT ![t] = "complete"] ELSE gz
     /\ gzAge' = [gzAge EXCEPT ![t] = 0]
  /\ UNCHANGED <<active, log, size, age, rootOwned, history, Environment>>

\* chmod of the compressed file, chown to the owner of the other one, whose
\* name is then removed, without missing_ok.
Unlink(p) ==
  /\ At(p, "unlink")
  /\ LET t == Name(p) IN
     IF /\ gz[t] # "none" /\ (t \in rootOwned => p \in Root)
        /\ t \in log
     THEN /\ Forget(t) /\ rootOwned' = rootOwned \ {t}
          /\ job' = [job EXCEPT ![p].file = NoFile, ![p].at = "look"]
     ELSE Raise(p) /\ UNCHANGED <<log, size, age, rootOwned>>
  /\ UNCHANGED <<active, gz, gzAge, history, Environment>>

\* The orders of a set of files by their last write, the oldest first.
ByAge(S) == {s \in [1..Cardinality(S) -> S] :
               \A i, j \in DOMAIN s : i < j =>
                 s[i] # s[j] /\ mtime(s[i]) >= mtime(s[j])}

Sort(p) ==
  /\ At(p, "look") /\ job[p].todo = {}
  /\ \/ \E s \in ByAge(Closed) :
          job' = [job EXCEPT ![p].oldest = s, ![p].at = "check"]
     \/ Vanishing(p) /\ Raise(p)
  /\ UNCHANGED <<files, history, Environment>>

\* What follows maintain: can_record's own question, or the end.
Maintained(p) == IF p \in Session
                 THEN job' = [job EXCEPT ![p] = [NoJob EXCEPT !.at = "ask",
                                                   !.own = job[p].own]]
                 ELSE Ends(p)

\* Mutant: the limit is not asked, only the free space.
TooMuchSpace(p) == ~reserve

\* The quota or the reserve is not kept.
TooMuch(p) == usage_bytes > job[p].limit \/ ~reserve

Check(p) ==
  /\ At(p, "check")
  /\ \/ IF job[p].oldest # <<>> /\ TooMuch(p) THEN Goto(p, "drop")
                                                ELSE Maintained(p)
     \/ job[p].oldest # <<>> /\ ActiveVanishing(p) /\ Raise(p)
  /\ UNCHANGED <<files, history, Environment>>

Drop(p) ==
  /\ At(p, "drop")
  /\ Remove(p, Head(job[p].oldest))
  /\ job' = [job EXCEPT ![p].oldest = Tail(@), ![p].at = "check"]
  /\ UNCHANGED Environment

maintain(p) ==
  \/ ReadAndList(p, "settings") \/ Look(p) \/ Expire(p) \/ Truncate(p) \/ Copy(p)
  \/ Unlink(p) \/ Sort(p) \/ Check(p) \/ Drop(p)

-----------------------------------------------------------------------------
(* The port monitor, every five minutes or two seconds after an exception, *)
(* and logs configure, when it has saved the settings.                     *)

monitor(r) == ReadAndList(r, "idle")

logs_configure == /\ maxTotal' \in Totals \ {maxTotal}
                  /\ UNCHANGED <<files, history, job, reserve, faults, fills>>

-----------------------------------------------------------------------------
(* A session: can_record, then the recording.  Steps "settings" ...,       *)
(* "ask", "recording".  Whether recording is on is left open: a session    *)
(* need not ask, and may be told no.                                       *)

can_record(s) ==
  /\ At(s, "idle")
  /\ job' = [job EXCEPT ![s].own = maxTotal, ![s].at = "settings"]
  /\ UNCHANGED <<files, history, Environment>>

\* The answer is yes, and a file .active is created.
CreateActive(s) ==
  /\ At(s, "ask") /\ usage_bytes < job[s].own /\ reserve
  /\ \E t \in Transcript \ used :
       /\ active' = active \cup {t} /\ used' = used \cup {t}
       /\ job' = [job EXCEPT ![s] = [NoJob EXCEPT !.file = <<t, "active">>,
                                                  !.at = "recording"]]
  /\ UNCHANGED <<log, gz, size, age, gzAge, rootOwned, closed, dropped, shared,
                 Environment>>

\* The answer is no, because recording is off, too much space is used or a
\* file has vanished.
DoNotRecord(s) == /\ At(s, "ask") /\ Ends(s)
                  /\ UNCHANGED <<files, history, Environment>>

\* picocom --logfile appends what the device says.
Record(s) ==
  /\ At(s, "recording") /\ size[Name(s)] < MaxSize
  /\ size' = [size EXCEPT ![Name(s)] = @ + 1]
  /\ age' = [age EXCEPT ![Name(s)] = 0]
  /\ UNCHANGED <<active, log, gz, gzAge, rootOwned, job, history, Environment>>

\* Mutant: the file is copied, not renamed.
finalize_by_copy(s) ==
  /\ At(s, "recording") /\ Ends(s)
  /\ LET t == Name(s) IN
     /\ size[t] > 0
     /\ log' = log \cup {t} /\ closed' = closed \cup {t}
  /\ UNCHANGED <<active, gz, size, age, gzAge, rootOwned, used, dropped, shared,
                 Environment>>

\* At the end of a session, also when it loses its terminal.
finalize_picocom_transcript(s) ==
  /\ At(s, "recording") /\ Ends(s)
  /\ LET t == Name(s) IN
     /\ active' = active \ {t}
     /\ IF size[t] > 0
        THEN log' = log \cup {t} /\ closed' = closed \cup {t}
             /\ UNCHANGED age
        ELSE age' = [age EXCEPT ![t] = 0] /\ UNCHANGED <<log, closed>>
  /\ UNCHANGED <<gz, size, gzAge, rootOwned, used, dropped, shared,
                 Environment>>

-----------------------------------------------------------------------------
(* logs clear removes everything but files .active.  Step "clear".         *)

logs_clear(r) ==
  /\ At(r, "idle") /\ Closed # {}
  /\ job' = [job EXCEPT ![r].todo = Closed, ![r].at = "clear"]
  /\ UNCHANGED <<files, history, Environment>>

\* One file after the other; one that is gone is not a file.
Clear(r) ==
  /\ At(r, "clear")
  /\ \/ \E f \in job[r].todo :
          Remove(r, f) /\ job' = [job EXCEPT ![r].todo = @ \ {f}]
     \/ job[r].todo = {} /\ Ends(r) /\ UNCHANGED <<files, history>>
  /\ UNCHANGED Environment

-----------------------------------------------------------------------------
(* The environment.                                                        *)

Saturate(n) == IF n > Retention THEN n ELSE n + 1

\* A day goes by.  Ages stop at one that is too old.
Day == /\ age' = [t \in Transcript |-> IF t \in active \cup log
                                         THEN Saturate(age[t]) ELSE 0]
       /\ gzAge' = [t \in Transcript |-> IF gz[t] # "none"
                                           THEN Saturate(gzAge[t]) ELSE 0]
       /\ UNCHANGED <<active, log, gz, size, rootOwned, job, history,
                      Environment>>

OtherFiles == /\ fills < MaxFills /\ fills' = fills + 1
              /\ reserve' = ~reserve
              /\ UNCHANGED <<files, history, job, maxTotal, faults>>

Fault == faults < MaxFaults /\ faults' = faults + 1

\* The maintenance of a session that loses its terminal is killed; the disk
\* is full while a process compresses.
CutOff(p) ==
  /\ Fault
  /\ \/ p \in Session /\ job[p].at \notin {"idle", "recording"}
     \/ At(p, "copy")
  /\ Ends(p)
  /\ UNCHANGED <<files, history, maxTotal, reserve, fills>>

\* Files .active stay behind.
PowerFailure ==
  /\ Fault
  /\ job' = [p \in Proc |-> NoJob]
  /\ UNCHANGED <<files, history, maxTotal, reserve, fills>>

Run(p) == \/ maintain(p)
          \/ p \in Session /\ (CreateActive(p) \/ DoNotRecord(p))
          \/ p \in Root /\ Clear(p)

Next == \/ \E p \in Proc : Run(p) \/ CutOff(p)
        \/ \E r \in Root : monitor(r) \/ logs_clear(r)
        \/ \E s \in Session : \/ can_record(s) \/ Record(s)
                              \/ finalize_picocom_transcript(s)
        \/ logs_configure \/ Day \/ OtherFiles \/ PowerFailure

Spec == Init /\ [][Next]_vars

\* A program that was started runs on, the monitor is restarted and comes back
\* every five minutes.  Nobody has to end a session.
FairSpec == /\ Spec
            /\ \A p \in Proc : WF_vars(Run(p))
            /\ WF_vars(\E r \in Root : monitor(r))

-----------------------------------------------------------------------------
(* Properties.                                                             *)

Jobs == [at : {"idle", "settings", "look", "expire", "truncate", "copy",
               "unlink", "check", "drop", "ask", "recording", "clear"},
         own : Totals \cup {0}, limit : Totals \cup {0},
         todo : SUBSET Files, file : Files \cup {NoFile}, oldest : Seq(Files)]

TypeOK ==
  /\ active \subseteq used /\ log \subseteq closed /\ active \cap log = {}
  /\ gz \in [Transcript -> {"none", "complete"} \cup Proc]
  /\ size \in [Transcript -> 0..MaxSize]
  /\ age \in [Transcript -> 0..(Retention + 1)]
  /\ gzAge \in [Transcript -> 0..(Retention + 1)]
  /\ rootOwned \subseteq {t \in Transcript : gz[t] # "none"}
  /\ maxTotal \in Totals /\ reserve \in BOOLEAN /\ job \in [Proc -> Jobs]
  /\ used \subseteq Transcript /\ closed \subseteq used
  /\ dropped \subseteq closed /\ shared \subseteq Transcript
  /\ faults \in 0..MaxFaults /\ fills \in 0..MaxFills

\* A process is writing the whole of t.
Rewritten(t) == \E p \in Proc : gz[t] = p /\ At(p, "copy") /\ Name(p) = t

\* A finished transcript can be read, is being written anew, or went by the
\* retention, the quota or at the user's wish: no order of two maintenances
\* over the same files loses it, and no kill of one.  What the code does not
\* exclude is both at once: a second process truncates the compressed file of
\* a first one that has removed the original, and is killed; or the compressed
\* file that an earlier kill left beside an original since removed.
NothingLost ==
  \A t \in closed :
    \/ Readable(t) \/ Rewritten(t) \/ t \in dropped
    \/ t \in shared /\ faults > 0

\* The quota is kept in the end: whatever exceptions, kills and settings come
\* in between, when too much is used, the usage comes down or nothing finished
\* is left to remove - without waiting for the retention, no day need go by.
QuotaReached ==
  (usage_bytes > maxTotal) ~> (usage_bytes <= maxTotal \/ Closed = {})

\* No finished transcript stays for good: compressing one starts its retention
\* anew, but not for ever.  The days go by.
ClosedAreForgotten ==
  WF_vars(Day) => \A t \in Transcript :
    <<t, "log">> \in Closed \/ <<t, "gz">> \in Closed
      ~> <<t, "log">> \notin Closed /\ <<t, "gz">> \notin Closed

-----------------------------------------------------------------------------
(* The inductive invariant behind these.                                   *)

CompressSteps == {"truncate", "copy", "unlink"}

\* A process that compresses the file .log of t.
Compresses(p, t) == job[p].at \in CompressSteps /\ job[p].file = <<t, "log">>

\* What a process has listed, and what it works on.
Finished == closed \X {"log", "gz"}

JobInv(p) ==
  /\ job[p].todo \subseteq Finished
  /\ \A i \in DOMAIN job[p].oldest : job[p].oldest[i] \in Finished
  /\ At(p, "drop") => job[p].oldest # <<>>
  /\ At(p, "expire") => job[p].file \in Finished
  /\ job[p].at \in CompressSteps => job[p].file \in closed \X {"log"}
  /\ At(p, "recording") => p \in Session /\ job[p].file \in active \X {"active"}

\* Each session records into a file of its own.
RecordingInv ==
  \A p, q \in Proc :
    p # q /\ At(p, "recording") /\ At(q, "recording") => Name(p) # Name(q)

\* Two processes over the same file are remembered.
SharedInv ==
  \A p, q \in Proc, t \in Transcript :
    p # q /\ Compresses(p, t) /\ Compresses(q, t) => t \in shared

\* A compressed file that is not complete is being written, or its process was
\* cut off.
PartialInv ==
  \A t \in Transcript : gz[t] \in Proc => Rewritten(t) \/ faults > 0

\* The compressed file that a process has opened is its own or complete, and
\* the original is there, unless somebody else came by.
CompressInv ==
  \A p \in Proc, t \in Transcript :
    Compresses(p, t) =>
      /\ At(p, "copy") => gz[t] \notin Proc \ {p} \/ t \in shared
      /\ At(p, "unlink") => gz[t] \notin Proc \/ t \in shared
      /\ t \in log \/ t \in shared \/ t \in dropped

InductiveInv ==
  /\ TypeOK /\ IsFiniteSet(used) /\ active \cap closed = {}
  /\ \A t \in Transcript : gz[t] # "none" => t \in closed
  /\ \A p \in Proc : JobInv(p)
  /\ RecordingInv /\ SharedInv /\ PartialInv /\ CompressInv /\ NothingLost
=============================================================================
