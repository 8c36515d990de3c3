--------------------------- MODULE TranscriptsProofs ---------------------------
(***************************************************************************)
(* Proofs about Transcripts, for any number of sessions, of processes of   *)
(* root, of names, kills and failing writes: types, and that no finished   *)
(* transcript is lost whichever maintenances overlap.                      *)
(***************************************************************************)
EXTENDS Transcripts, FiniteSetTheorems, TLAPS

-----------------------------------------------------------------------------
(* What happens to a process.                                              *)

Steps == {"idle", "settings", "look", "expire", "truncate", "copy",
          "unlink", "check", "drop", "ask", "recording", "clear"}

LEMMA JobsFields ==
  Jobs = [at : Steps, own : Totals \cup {0}, limit : Totals \cup {0},
          todo : SUBSET Files, file : Files \cup {NoFile}, oldest : Seq(Files)]
BY DEF Jobs, Steps

LEMMA NoJobType ==
  /\ NoJob \in Jobs /\ NoJob.at = "idle" /\ NoJob.todo = {}
  /\ NoJob.oldest = <<>> /\ NoJob.file = NoFile
<1>1. <<>> \in Seq(Files)
  OBVIOUS
<1>. QED BY <1>1, JobsFields DEF NoJob, Steps

\* A process changes nothing of the others.
LEMMA SetJob ==
    ASSUME job \in [Proc -> Jobs], NEW p \in Proc, NEW j \in Jobs,
           job' = [job EXCEPT ![p] = j]
    PROVE  /\ job' \in [Proc -> Jobs] /\ job'[p] = j
           /\ \A q \in Proc \ {p} : job'[q] = job[q]
OBVIOUS

\* It goes on with its next step.
LEMMA GotoJob ==
    ASSUME job \in [Proc -> Jobs], NEW p \in Proc, NEW step \in Steps, Goto(p, step)
    PROVE  /\ job' \in [Proc -> Jobs]
           /\ job'[p].at = step /\ job'[p].own = job[p].own /\ job'[p].limit = job[p].limit
           /\ job'[p].todo = job[p].todo /\ job'[p].file = job[p].file
           /\ job'[p].oldest = job[p].oldest
           /\ \A q \in Proc \ {p} : job'[q] = job[q]
<1>1. job[p] \in Jobs
  OBVIOUS
<1>2. job' = [job EXCEPT ![p] = [job[p] EXCEPT !.at = step]]
  BY DEF Goto
<1>3. [job[p] EXCEPT !.at = step] \in Jobs
  BY <1>1, JobsFields
<1>. QED BY <1>1, <1>2, <1>3, JobsFields

LEMMA EndsJob ==
    ASSUME job \in [Proc -> Jobs], NEW p \in Proc, Ends(p)
    PROVE  /\ job' \in [Proc -> Jobs] /\ job'[p] = NoJob
           /\ \A q \in Proc \ {p} : job'[q] = job[q]
BY NoJobType DEF Ends

-----------------------------------------------------------------------------
(* Files.                                                                  *)

LEMMA FileFields ==
  /\ \A t \in Transcript, k \in Kinds : <<t, k>> \in Files
  /\ \A f \in Files : f[1] \in Transcript /\ f[2] \in Kinds /\ f = <<f[1], f[2]>>
BY DEF Files

LEMMA ClosedFiles ==
    ASSUME TypeOK
    PROVE  Closed = (log \X {"log"}) \cup ({t \in Transcript : gz[t] # "none"} \X {"gz"})
BY DEF Closed, transcript_files

\* Every order of the finished transcripts is a sequence of them.
LEMMA ByAgeSeq ==
    ASSUME NEW S, IsFiniteSet(S), NEW s \in ByAge(S)
    PROVE  s \in Seq(S)
<1>1. Cardinality(S) \in Nat
  BY FS_CardinalityType
<1>2. s \in [1..Cardinality(S) -> S]
  BY DEF ByAge
<1>. QED BY <1>1, <1>2

-----------------------------------------------------------------------------
(* Types.                                                                  *)

NameTypes ==
  /\ used \subseteq Transcript /\ IsFiniteSet(used)
  /\ active \subseteq used /\ closed \subseteq used /\ active \cap closed = {}
  /\ log \subseteq closed /\ dropped \subseteq closed /\ shared \subseteq Transcript

GzTypes ==
  /\ gz \in [Transcript -> {"none", "complete"} \cup Proc]
  /\ gzAge \in [Transcript -> 0..(Retention + 1)]
  /\ rootOwned \subseteq {t \in Transcript : gz[t] # "none"}
  /\ \A t \in Transcript : gz[t] # "none" => t \in closed

SizeTypes ==
  /\ size \in [Transcript -> 0..MaxSize]
  /\ age \in [Transcript -> 0..(Retention + 1)]

BoundTypes ==
  /\ maxTotal \in Totals /\ reserve \in BOOLEAN
  /\ faults \in 0..MaxFaults /\ fills \in 0..MaxFills

\* Everything there is.
TypeInv == /\ NameTypes /\ GzTypes /\ SizeTypes /\ BoundTypes
           /\ job \in [Proc -> Jobs] /\ \A p \in Proc : JobInv(p)

LEMMA TypeParts ==
  TypeInv <=> /\ TypeOK /\ IsFiniteSet(used) /\ active \cap closed = {}
              /\ \A t \in Transcript : gz[t] # "none" => t \in closed
              /\ \A p \in Proc : JobInv(p)
<1>1. ASSUME log \subseteq closed, active \cap closed = {} PROVE active \cap log = {}
  BY <1>1
<1>. QED BY <1>1 DEF TypeInv, TypeOK, NameTypes, GzTypes, SizeTypes, BoundTypes

LEMMA NextParts ==
  TypeInv' <=> /\ TypeOK' /\ IsFiniteSet(used)' /\ (active \cap closed = {})'
               /\ (\A t \in Transcript : gz[t] # "none" => t \in closed)'
               /\ (\A p \in Proc : JobInv(p))'
<1>1. ASSUME log' \subseteq closed', active' \cap closed' = {} PROVE active' \cap log' = {}
  BY <1>1
<1>. QED BY <1>1 DEF TypeInv, TypeOK, NameTypes, GzTypes, SizeTypes, BoundTypes

\* A listing holds finished transcripts, and finitely many.
LEMMA ClosedFinished ==
    ASSUME NameTypes, GzTypes
    PROVE  Closed \subseteq Finished /\ Closed \subseteq Files /\ IsFiniteSet(Closed)
<1>1. Closed \subseteq closed \X {"log", "gz"}
  BY DEF Closed, transcript_files, NameTypes, GzTypes
<1>2. IsFiniteSet({"log", "gz"})
  <2>1. IsFiniteSet({"log"})
    BY FS_Singleton
  <2>2. IsFiniteSet({"log"} \cup {"gz"})
    BY <2>1, FS_AddElement
  <2>3. {"log", "gz"} = {"log"} \cup {"gz"}
    OBVIOUS
  <2>. QED BY <2>2, <2>3
<1>3. IsFiniteSet(closed)
  BY FS_Subset DEF NameTypes
<1>4. IsFiniteSet(closed \X {"log", "gz"})
  BY <1>2, <1>3, FS_Product
<1>5. closed \X {"log", "gz"} \subseteq Files
  BY DEF NameTypes, Files, Kinds
<1>. QED BY <1>1, <1>4, <1>5, FS_Subset DEF Finished

\* What a process holds stays right for another one's step.
LEMMA JobFrame ==
    ASSUME NEW q \in Proc, JobInv(q), job'[q] = job[q], closed \subseteq closed',
           At(q, "recording") => job[q].file \in active' \X {"active"}
    PROVE  JobInv(q)'
BY DEF JobInv, Finished, At

LEMMA NoJobInv == \A q \in Proc : job'[q] = NoJob => JobInv(q)'
<1> SUFFICES ASSUME NEW q \in Proc, job'[q] = NoJob PROVE JobInv(q)'
  OBVIOUS
<1>. QED BY NoJobType DEF JobInv, At, CompressSteps

\* A step of p that opens, closes or renames no transcript.
LEMMA JobTypes ==
    ASSUME TypeInv, NEW p \in Proc, NEW j \in Jobs, job' = [job EXCEPT ![p] = j],
           UNCHANGED <<active, closed>>, JobInv(p)'
    PROVE  job' \in [Proc -> Jobs] /\ (\A q \in Proc : JobInv(q))'
<1>1. job' \in [Proc -> Jobs] /\ \A q \in Proc \ {p} : job'[q] = job[q]
  BY SetJob DEF TypeInv
<1>2. ASSUME NEW q \in Proc, q # p PROVE JobInv(q)'
  <2>1. JobInv(q) /\ job'[q] = job[q]
    BY <1>1, <1>2 DEF TypeInv
  <2>2. At(q, "recording") => job[q].file \in active' \X {"active"}
    BY <2>1 DEF JobInv
  <2>. QED BY <2>1, <2>2, JobFrame
<1>. QED BY <1>1, <1>2

LEMMA EndsTypes ==
    ASSUME TypeInv, NEW p \in Proc, Ends(p), UNCHANGED <<active, closed>>
    PROVE  job' \in [Proc -> Jobs] /\ (\A q \in Proc : JobInv(q))'
BY JobTypes, EndsJob, NoJobType, NoJobInv DEF Ends, TypeInv

LEMMA SameTypes ==
    ASSUME TypeInv
    PROVE  /\ UNCHANGED <<active, log, used, closed, dropped, shared>> => NameTypes'
           /\ UNCHANGED <<gz, gzAge, rootOwned>> /\ closed' = closed => GzTypes'
           /\ UNCHANGED <<size, age>> => SizeTypes'
           /\ UNCHANGED Environment => BoundTypes'
<1>1. UNCHANGED <<active, log, used, closed, dropped, shared>> => NameTypes'
  BY DEF TypeInv, NameTypes
<1>2. UNCHANGED <<gz, gzAge, rootOwned>> /\ closed' = closed => GzTypes'
  BY DEF TypeInv, GzTypes
<1>3. UNCHANGED <<size, age>> => SizeTypes'
  BY DEF TypeInv, SizeTypes
<1>4. UNCHANGED Environment => BoundTypes'
  BY DEF TypeInv, BoundTypes, Environment
<1>. QED BY <1>1, <1>2, <1>3, <1>4

\* Forgetting a file leaves its transcript without size and age.
LEMMA ForgetTypes ==
    ASSUME TypeInv, NEW t \in Transcript, Forget(t)
    PROVE  SizeTypes' /\ log' = log \ {t}
<1>1. 0 \in 0..MaxSize /\ 0 \in 0..(Retention + 1)
  BY BoundsAssumption
<1>. QED BY <1>1 DEF Forget, TypeInv, SizeTypes

\* A removal takes finished transcripts only.
LEMMA RemoveTypes ==
    ASSUME TypeInv, NEW p \in Proc, NEW f \in Finished, Remove(p, f)
    PROVE  NameTypes' /\ GzTypes' /\ SizeTypes' /\ UNCHANGED <<active, closed>>
<1>1. f[1] \in closed /\ f[1] \in Transcript /\ f[2] \in {"log", "gz"}
  BY DEF Finished, TypeInv, NameTypes
<1>2. UNCHANGED <<active, used, closed>>
  BY DEF Remove
<1>3. dropped' \subseteq closed /\ shared' \subseteq Transcript
  BY <1>1 DEF Remove, TypeInv, NameTypes
<1>4. CASE f[2] = "log" /\ Forget(f[1]) /\ UNCHANGED <<gz, gzAge, rootOwned>>
  <2>1. SizeTypes' /\ log' = log \ {f[1]}
    BY <1>1, <1>4, ForgetTypes
  <2>2. NameTypes'
    BY <1>2, <1>3, <2>1 DEF TypeInv, NameTypes
  <2>. QED BY <1>2, <1>4, <2>1, <2>2, SameTypes
<1>5. CASE /\ f[2] = "gz" /\ UNCHANGED <<log, size, age>>
           /\ gz' = [gz EXCEPT ![f[1]] = "none"]
           /\ gzAge' = [gzAge EXCEPT ![f[1]] = 0]
           /\ rootOwned' = rootOwned \ {f[1]}
  <2>1. NameTypes'
    BY <1>2, <1>3, <1>5 DEF TypeInv, NameTypes
  <2>2. 0 \in 0..(Retention + 1)
    BY BoundsAssumption
  <2>3. GzTypes'
    BY <1>1, <1>2, <1>5, <2>2 DEF TypeInv, GzTypes
  <2>. QED BY <1>2, <1>5, <2>1, <2>3, SameTypes
<1>. QED BY <1>4, <1>5 DEF Remove

-----------------------------------------------------------------------------
(* Maintenance keeps the types.                                            *)

LEMMA MaintainTypes ==
    ASSUME TypeInv, NEW p \in Proc,
           \/ ReadAndList(p, "settings") \/ ReadAndList(p, "idle") \/ Look(p)
           \/ Sort(p) \/ Check(p)
    PROVE  TypeInv'
<1>1. job[p] \in Jobs /\ JobInv(p) /\ job \in [Proc -> Jobs] /\ maxTotal \in Totals
  BY DEF TypeInv, BoundTypes
<1>2. Closed \subseteq Finished /\ Closed \subseteq Files /\ IsFiniteSet(Closed)
  BY ClosedFinished DEF TypeInv
<1>3. UNCHANGED <<files, used, closed, dropped, Environment>>
  BY DEF ReadAndList, Look, Sort, Check, history
<1>4. shared' \subseteq Transcript
  <2>1. CASE Look(p)
    <3>1. PICK f \in job[p].todo : shared' \in {shared, shared \cup {f[1]}}
      BY <2>1 DEF Look
    <3>2. f[1] \in Transcript
      BY <1>1, <3>1, JobsFields, FileFields
    <3>. QED BY <3>1, <3>2 DEF TypeInv, NameTypes
  <2>. QED BY <2>1 DEF ReadAndList, Sort, Check, history, TypeInv, NameTypes
<1>5. NameTypes' /\ GzTypes' /\ SizeTypes' /\ BoundTypes'
  BY <1>3, <1>4, SameTypes DEF files, TypeInv, NameTypes
<1>6. ASSUME NEW j \in Jobs, job' = [job EXCEPT ![p] = j], JobInv(p)'
      PROVE  TypeInv'
  BY <1>3, <1>5, <1>6, JobTypes DEF files, TypeInv
<1>7. ASSUME Ends(p) PROVE TypeInv'
  BY <1>3, <1>5, <1>7, EndsTypes DEF files, TypeInv
<1>8. ASSUME NEW from, ReadAndList(p, from) PROVE TypeInv'
  <2>1. job' = [job EXCEPT ![p] = [job[p] EXCEPT !.limit = maxTotal, !.todo = Closed,
                                                 !.at = "look"]]
    BY <1>8 DEF ReadAndList
  <2>2. [job[p] EXCEPT !.limit = maxTotal, !.todo = Closed, !.at = "look"] \in Jobs
    BY <1>1, <1>2, JobsFields DEF Steps
  <2>3. job'[p].at = "look" /\ job'[p].todo = Closed /\ job'[p].oldest = job[p].oldest
    BY <1>1, <2>1, JobsFields
  <2>4. JobInv(p)'
    BY <1>1, <1>2, <1>3, <2>3 DEF JobInv, At, CompressSteps, Finished
  <2>. QED BY <1>6, <2>1, <2>2, <2>4
<1>9. CASE Look(p)
  <2>1. PICK f \in job[p].todo :
          /\ At(p, "look")
          /\ \/ Raise(p)
             \/ /\ Exists(f)
                /\ job' = [job EXCEPT ![p].todo = @ \ {f}, ![p].at = Verdict(f),
                              ![p].file = IF Verdict(f) = "look" THEN NoFile ELSE f]
    BY <1>9 DEF Look
  <2>2. f \in Finished /\ f \in Files
    BY <1>1, <2>1, JobsFields DEF JobInv
  <2>3. CASE job' = [job EXCEPT ![p].todo = @ \ {f}, ![p].at = Verdict(f),
                       ![p].file = IF Verdict(f) = "look" THEN NoFile ELSE f]
    <3>1. /\ Verdict(f) \in {"expire", "truncate", "look"}
          /\ Verdict(f) = "truncate" => f[2] = "log"
      BY DEF Verdict
    <3>2. PICK verdict, file : verdict = Verdict(f)
                               /\ file = IF Verdict(f) = "look" THEN NoFile ELSE f
      OBVIOUS
    <3>3. job' = [job EXCEPT ![p] = [job[p] EXCEPT !.todo = job[p].todo \ {f},
                                                   !.at = verdict, !.file = file]]
      BY <2>3, <3>2
    <3>4. file \in Files \cup {NoFile}
      BY <2>2, <3>2
    <3>5. [job[p] EXCEPT !.todo = job[p].todo \ {f}, !.at = verdict, !.file = file] \in Jobs
      BY <1>1, <3>1, <3>2, <3>4, JobsFields DEF Steps
    <3>6. /\ job'[p].at = verdict /\ job'[p].todo = job[p].todo \ {f}
          /\ job'[p].oldest = job[p].oldest /\ job'[p].file = file
      BY <1>1, <3>3, JobsFields
    <3>7. verdict # "look" => file = f
      BY <3>2
    <3>8. JobInv(p)'
      BY <1>1, <1>3, <2>2, <3>1, <3>2, <3>6, <3>7 DEF JobInv, At, CompressSteps, Finished
    <3>. QED BY <1>6, <3>3, <3>5, <3>8
  <2>. QED BY <1>7, <2>1, <2>3 DEF Raise
<1>10. CASE Sort(p)
  <2>1. CASE \E s \in ByAge(Closed) : job' = [job EXCEPT ![p].oldest = s, ![p].at = "check"]
    <3>1. PICK s \in ByAge(Closed) :
            job' = [job EXCEPT ![p] = [job[p] EXCEPT !.oldest = s, !.at = "check"]]
      BY <2>1
    <3>2. s \in Seq(Closed)
      BY <1>2, ByAgeSeq
    <3>3. s \in Seq(Files) /\ \A i \in DOMAIN s : s[i] \in Finished
      BY <1>2, <3>2
    <3>4. [job[p] EXCEPT !.oldest = s, !.at = "check"] \in Jobs
      BY <1>1, <3>3, JobsFields DEF Steps
    <3>5. /\ job'[p].at = "check" /\ job'[p].todo = job[p].todo /\ job'[p].oldest = s
          /\ job'[p].file = job[p].file
      BY <1>1, <3>1, JobsFields
    <3>6. JobInv(p)'
      BY <1>1, <1>3, <3>3, <3>5 DEF JobInv, At, CompressSteps, Finished
    <3>. QED BY <1>6, <3>1, <3>4, <3>6
  <2>. QED BY <1>7, <1>10, <2>1 DEF Sort, Raise
<1>11. CASE Check(p)
  <2>1. CASE job[p].oldest # <<>> /\ Goto(p, "drop")
    <3>1. /\ job'[p].at = "drop" /\ job'[p].todo = job[p].todo
          /\ job'[p].oldest = job[p].oldest
      BY <1>1, <2>1, GotoJob DEF Steps
    <3>2. JobInv(p)'
      BY <1>1, <1>3, <2>1, <3>1 DEF JobInv, At, CompressSteps, Finished
    <3>3. job' = [job EXCEPT ![p] = [job[p] EXCEPT !.at = "drop"]]
      BY <2>1 DEF Goto
    <3>4. [job[p] EXCEPT !.at = "drop"] \in Jobs
      BY <1>1, JobsFields DEF Steps
    <3>. QED BY <1>6, <3>2, <3>3, <3>4
  <2>2. CASE job' = [job EXCEPT ![p] = [NoJob EXCEPT !.at = "ask", !.own = job[p].own]]
    <3>1. [NoJob EXCEPT !.at = "ask", !.own = job[p].own] \in Jobs
      BY <1>1, NoJobType, JobsFields DEF Steps
    <3>2. job'[p].at = "ask" /\ job'[p].todo = {} /\ job'[p].oldest = <<>>
      BY <1>1, <2>2, <3>1, NoJobType, JobsFields
    <3>3. JobInv(p)'
      BY <3>2 DEF JobInv, At, CompressSteps
    <3>. QED BY <1>6, <2>2, <3>1, <3>3
  <2>. QED BY <1>7, <1>11, <2>1, <2>2 DEF Check, Maintained, Raise
<1>. QED BY <1>8, <1>9, <1>10, <1>11

\* The file that a process compresses.
LEMMA NameType ==
    ASSUME TypeInv, NEW p \in Proc, job[p].at \in CompressSteps
    PROVE  /\ Name(p) \in closed /\ Name(p) \in Transcript
           /\ job[p].file = <<Name(p), "log">>
           /\ Compresses(p, Name(p))
<1>1. job[p].file \in closed \X {"log"}
  BY DEF TypeInv, JobInv
<1>. QED BY <1>1 DEF Name, Compresses, TypeInv, NameTypes

LEMMA CompressTypes ==
    ASSUME TypeInv, NEW p \in Proc, Truncate(p) \/ Copy(p) \/ Unlink(p)
    PROVE  TypeInv'
<1>1. job[p] \in Jobs /\ JobInv(p) /\ job \in [Proc -> Jobs]
  BY DEF TypeInv
<1>2. job[p].at \in CompressSteps
  BY DEF Truncate, Copy, Unlink, At, CompressSteps
<1>3. Name(p) \in closed /\ Name(p) \in Transcript /\ job[p].file \in closed \X {"log"}
  BY <1>1, <1>2, NameType DEF JobInv
<1>4. UNCHANGED <<active, used, closed, dropped, shared, Environment>>
  BY DEF Truncate, Copy, Unlink, history
<1>5. BoundTypes'
  BY <1>4, SameTypes
<1>6. ASSUME NEW step \in CompressSteps, Goto(p, step)
      PROVE  job' \in [Proc -> Jobs] /\ (\A q \in Proc : JobInv(q))'
  <2>1. /\ job'[p].at = step /\ job'[p].todo = job[p].todo
        /\ job'[p].oldest = job[p].oldest /\ job'[p].file = job[p].file
    BY <1>1, <1>6, GotoJob DEF Steps, CompressSteps
  <2>2. JobInv(p)'
    BY <1>1, <1>3, <1>4, <2>1 DEF JobInv, At, CompressSteps, Finished
  <2>3. job' = [job EXCEPT ![p] = [job[p] EXCEPT !.at = step]]
    BY <1>6 DEF Goto
  <2>4. [job[p] EXCEPT !.at = step] \in Jobs
    BY <1>1, JobsFields DEF Steps, CompressSteps
  <2>. QED BY <1>4, <2>2, <2>3, <2>4, JobTypes
<1>7. 0 \in 0..(Retention + 1)
  BY BoundsAssumption
<1>8. CASE Truncate(p)
  <2>0. PICK t \in Transcript : t = Name(p) /\ t \in closed
    BY <1>3
  <2>1. NameTypes' /\ SizeTypes'
    BY <1>4, <1>8, SameTypes DEF Truncate
  <2>2. CASE /\ Goto(p, "copy")
             /\ gz' = [gz EXCEPT ![t] = p] /\ gzAge' = [gzAge EXCEPT ![t] = 0]
             /\ rootOwned' \subseteq rootOwned \cup {t}
    <3>1. p # "none"
      BY NoneAssumption
    <3>2. GzTypes'
      BY <1>4, <1>7, <2>0, <2>2, <3>1 DEF TypeInv, GzTypes
    <3>. QED BY <1>5, <1>6, <2>1, <2>2, <3>2 DEF TypeInv, CompressSteps
  <2>3. CASE Raise(p) /\ UNCHANGED <<gz, gzAge, rootOwned>>
    BY <1>4, <1>5, <2>1, <2>3, SameTypes, EndsTypes DEF Raise, TypeInv
  <2>4. rootOwned' \subseteq rootOwned \cup {t} \/ rootOwned' = rootOwned
    BY <1>8, <2>0 DEF Truncate
  <2>. QED BY <1>8, <2>0, <2>2, <2>3, <2>4 DEF Truncate
<1>9. CASE Copy(p)
  <2>0. PICK t \in Transcript : t = Name(p) /\ t \in closed
    BY <1>3
  <2>1. NameTypes' /\ SizeTypes'
    BY <1>4, <1>9, SameTypes DEF Copy
  <2>2. /\ gz' = (IF gz[t] = p THEN [gz EXCEPT ![t] = "complete"] ELSE gz)
        /\ gzAge' = [gzAge EXCEPT ![t] = 0] /\ rootOwned' = rootOwned
    BY <1>9, <2>0 DEF Copy
  <2>3. GzTypes'
    BY <1>4, <1>7, <2>0, <2>2, NoneAssumption DEF TypeInv, GzTypes
  <2>. QED BY <1>5, <1>6, <1>9, <2>1, <2>3 DEF Copy, TypeInv, CompressSteps
<1>10. CASE Unlink(p)
  <2>1. CASE /\ Forget(Name(p)) /\ rootOwned' = rootOwned \ {Name(p)}
             /\ job' = [job EXCEPT ![p].file = NoFile, ![p].at = "look"]
    <3>1. SizeTypes' /\ log' = log \ {Name(p)}
      BY <1>3, <2>1, ForgetTypes
    <3>2. NameTypes'
      BY <1>4, <3>1 DEF TypeInv, NameTypes
    <3>3. GzTypes'
      BY <1>4, <1>10, <2>1 DEF Unlink, TypeInv, GzTypes
    <3>4. job' = [job EXCEPT ![p] = [job[p] EXCEPT !.file = NoFile, !.at = "look"]]
      BY <2>1
    <3>5. [job[p] EXCEPT !.file = NoFile, !.at = "look"] \in Jobs
      BY <1>1, JobsFields DEF Steps
    <3>6. /\ job'[p].at = "look" /\ job'[p].todo = job[p].todo
          /\ job'[p].oldest = job[p].oldest
      BY <1>1, <3>4, JobsFields
    <3>7. JobInv(p)'
      BY <1>1, <1>4, <3>6 DEF JobInv, At, CompressSteps, Finished
    <3>. QED BY <1>4, <1>5, <3>2, <3>1, <3>3, <3>4, <3>5, <3>7, JobTypes DEF TypeInv
  <2>2. CASE Raise(p) /\ UNCHANGED <<log, size, age, rootOwned>>
    BY <1>4, <1>5, <1>10, <2>2, SameTypes, EndsTypes DEF Unlink, Raise, TypeInv
  <2>. QED BY <1>10, <2>1, <2>2 DEF Unlink
<1>. QED BY <1>8, <1>9, <1>10

LEMMA HeadTail ==
    ASSUME NEW S, NEW s \in Seq(S), s # <<>>
    PROVE  /\ Head(s) = s[1] /\ 1 \in DOMAIN s /\ Tail(s) \in Seq(S)
           /\ \A i \in DOMAIN Tail(s) : i + 1 \in DOMAIN s /\ Tail(s)[i] = s[i + 1]
OBVIOUS

\* A removal takes a finished transcript: expired, the oldest, or at the user's
\* wish.
LEMMA RemovesFinished ==
    ASSUME TypeInv, NEW p \in Proc,
           \/ Expire(p) \/ Drop(p)
           \/ At(p, "clear") /\ \E f \in job[p].todo :
                Remove(p, f) /\ job' = [job EXCEPT ![p].todo = @ \ {f}]
    PROVE  \E f \in Finished, j \in Jobs :
             /\ Remove(p, f) /\ job' = [job EXCEPT ![p] = j]
             /\ j.at \in {"look", "check", "clear"} /\ j.todo \subseteq Finished
             /\ \A i \in DOMAIN j.oldest : j.oldest[i] \in Finished
<1>1. job[p] \in Jobs /\ JobInv(p) /\ job \in [Proc -> Jobs]
  BY DEF TypeInv
<1>2. CASE Expire(p)
  <2>1. job' = [job EXCEPT ![p] = [job[p] EXCEPT !.file = NoFile, !.at = "look"]]
    BY <1>2 DEF Expire
  <2>2. PICK j \in Jobs : j = [job[p] EXCEPT !.file = NoFile, !.at = "look"]
    BY <1>1, JobsFields DEF Steps
  <2>3. j.at = "look" /\ j.todo = job[p].todo /\ j.oldest = job[p].oldest
    BY <1>1, <2>2, JobsFields
  <2>4. job[p].file \in Finished /\ Remove(p, job[p].file)
    BY <1>1, <1>2 DEF Expire, JobInv
  <2>. QED BY <1>1, <2>1, <2>2, <2>3, <2>4 DEF JobInv
<1>3. CASE Drop(p)
  <2>1. job' = [job EXCEPT ![p] = [job[p] EXCEPT !.oldest = Tail(job[p].oldest), !.at = "check"]]
    BY <1>3 DEF Drop
  <2>2. job[p].oldest \in Seq(Files) /\ job[p].oldest # <<>>
    BY <1>1, <1>3, JobsFields DEF Drop, JobInv
  <2>3. /\ Tail(job[p].oldest) \in Seq(Files)
        /\ \A i \in DOMAIN Tail(job[p].oldest) : Tail(job[p].oldest)[i] \in Finished
        /\ Head(job[p].oldest) \in Finished
    BY <1>1, <2>2, HeadTail DEF JobInv
  <2>4. PICK j \in Jobs : j = [job[p] EXCEPT !.oldest = Tail(job[p].oldest), !.at = "check"]
    BY <1>1, <2>3, JobsFields DEF Steps
  <2>5. j.at = "check" /\ j.todo = job[p].todo /\ j.oldest = Tail(job[p].oldest)
    BY <1>1, <2>4, JobsFields
  <2>. QED BY <1>1, <1>3, <2>1, <2>3, <2>4, <2>5 DEF Drop, JobInv
<1>4. CASE At(p, "clear") /\ \E f \in job[p].todo :
             Remove(p, f) /\ job' = [job EXCEPT ![p].todo = @ \ {f}]
  <2>1. PICK f \in job[p].todo : Remove(p, f) /\ job' = [job EXCEPT ![p].todo = @ \ {f}]
    BY <1>4
  <2>2. job' = [job EXCEPT ![p] = [job[p] EXCEPT !.todo = job[p].todo \ {f}]]
    BY <2>1
  <2>3. PICK j \in Jobs : j = [job[p] EXCEPT !.todo = job[p].todo \ {f}]
    BY <1>1, JobsFields
  <2>4. j.at = "clear" /\ j.todo = job[p].todo \ {f} /\ j.oldest = job[p].oldest
    BY <1>1, <1>4, <2>3, JobsFields DEF At
  <2>. QED BY <1>1, <2>1, <2>2, <2>3, <2>4 DEF JobInv
<1>. QED BY <1>2, <1>3, <1>4

LEMMA RemoveStepTypes ==
    ASSUME TypeInv, NEW p \in Proc, NEW f \in Finished, NEW j \in Jobs,
           Remove(p, f), job' = [job EXCEPT ![p] = j],
           j.at \in {"look", "check", "clear"}, j.todo \subseteq Finished,
           \A i \in DOMAIN j.oldest : j.oldest[i] \in Finished,
           UNCHANGED Environment
    PROVE  TypeInv'
<1>1. NameTypes' /\ GzTypes' /\ SizeTypes' /\ UNCHANGED <<active, closed>>
  BY RemoveTypes
<1>2. job'[p] = j
  BY DEF TypeInv
<1>3. JobInv(p)'
  BY <1>1, <1>2 DEF JobInv, At, CompressSteps, Finished
<1>. QED BY <1>1, <1>3, SameTypes, JobTypes DEF TypeInv

-----------------------------------------------------------------------------
(* Sessions, requests and the environment keep the types.                  *)

LEMMA SessionTypes ==
    ASSUME TypeInv, RecordingInv, NEW s \in Session,
           \/ can_record(s) \/ DoNotRecord(s) \/ CreateActive(s) \/ Record(s)
           \/ finalize_picocom_transcript(s)
    PROVE  TypeInv'
<1>1. s \in Proc /\ job[s] \in Jobs /\ JobInv(s) /\ job \in [Proc -> Jobs]
  BY DEF TypeInv, Proc
<1>2. BoundTypes'
  BY SameTypes DEF can_record, DoNotRecord, CreateActive, Record, finalize_picocom_transcript
<1>3. CASE can_record(s)
  <2>1. maxTotal \in Totals
    BY DEF TypeInv, BoundTypes
  <2>2. job' = [job EXCEPT ![s] = [job[s] EXCEPT !.own = maxTotal, !.at = "settings"]]
    BY <1>3 DEF can_record
  <2>3. [job[s] EXCEPT !.own = maxTotal, !.at = "settings"] \in Jobs
    BY <1>1, <2>1, JobsFields DEF Steps
  <2>4. job'[s].at = "settings" /\ job'[s].todo = job[s].todo /\ job'[s].oldest = job[s].oldest
    BY <1>1, <2>2, JobsFields
  <2>5. JobInv(s)'
    BY <1>1, <1>3, <2>4 DEF can_record, history, JobInv, At, CompressSteps, Finished
  <2>. QED BY <1>1, <1>2, <1>3, <2>2, <2>3, <2>5, JobTypes, SameTypes
           DEF can_record, files, history, TypeInv
<1>4. CASE DoNotRecord(s)
  BY <1>1, <1>2, <1>4, EndsTypes, SameTypes DEF DoNotRecord, files, history, TypeInv
<1>5. CASE CreateActive(s)
  <2>1. PICK t \in Transcript \ used :
          /\ active' = active \cup {t} /\ used' = used \cup {t}
          /\ job' = [job EXCEPT ![s] = [NoJob EXCEPT !.file = <<t, "active">>,
                                                     !.at = "recording"]]
    BY <1>5 DEF CreateActive
  <2>2. UNCHANGED <<log, gz, size, age, gzAge, rootOwned, closed, dropped, shared>>
    BY <1>5 DEF CreateActive
  <2>3. IsFiniteSet(used')
    BY <2>1, FS_AddElement DEF TypeInv, NameTypes
  <2>4. NameTypes'
    BY <2>1, <2>2, <2>3 DEF TypeInv, NameTypes
  <2>5. <<t, "active">> \in Files
    BY FileFields DEF Kinds
  <2>6. [NoJob EXCEPT !.file = <<t, "active">>, !.at = "recording"] \in Jobs
    BY <2>5, NoJobType, JobsFields DEF Steps
  <2>7. /\ job' \in [Proc -> Jobs]
        /\ job'[s].at = "recording" /\ job'[s].todo = {} /\ job'[s].oldest = <<>>
        /\ job'[s].file = <<t, "active">>
        /\ \A q \in Proc \ {s} : job'[q] = job[q]
    BY <1>1, <2>1, <2>6, NoJobType, JobsFields
  <2>8. JobInv(s)'
    BY <2>1, <2>7 DEF JobInv, At, CompressSteps
  <2>9. ASSUME NEW q \in Proc, q # s PROVE JobInv(q)'
    <3>1. JobInv(q) /\ job'[q] = job[q]
      BY <2>7, <2>9 DEF TypeInv
    <3>2. At(q, "recording") => job[q].file \in active' \X {"active"}
      BY <2>1, <3>1 DEF JobInv
    <3>. QED BY <2>2, <3>1, <3>2, JobFrame
  <2>. QED BY <1>2, <2>2, <2>4, <2>7, <2>8, <2>9, SameTypes DEF TypeInv
<1>6. CASE Record(s)
  <2>1. Name(s) \in Transcript
    BY <1>1, <1>6 DEF Record, JobInv, Name, TypeInv, NameTypes
  <2>2. size[Name(s)] < MaxSize /\ size[Name(s)] \in 0..MaxSize /\ MaxSize \in Nat
    BY <1>6, <2>1, BoundsAssumption DEF Record, TypeInv, SizeTypes
  <2>3. size[Name(s)] + 1 \in 0..MaxSize /\ 0 \in 0..(Retention + 1)
    BY <2>2, BoundsAssumption
  <2>4. SizeTypes'
    BY <1>6, <2>1, <2>3 DEF Record, TypeInv, SizeTypes
  <2>5. \A q \in Proc : JobInv(q)'
    BY <1>6 DEF Record, history, TypeInv, JobInv, Finished, At
  <2>. QED BY <1>2, <1>6, <2>4, <2>5, SameTypes DEF Record, history, TypeInv
<1>7. CASE finalize_picocom_transcript(s)
  <2>1. PICK t \in active : t = Name(s)
    BY <1>1, <1>7 DEF finalize_picocom_transcript, JobInv, Name
  <2>2. /\ active' = active \ {t}
        /\ \/ log' = log \cup {t} /\ closed' = closed \cup {t} /\ age' = age
           \/ age' = [age EXCEPT ![t] = 0] /\ UNCHANGED <<log, closed>>
        /\ UNCHANGED <<gz, size, gzAge, rootOwned, used, dropped, shared>>
        /\ Ends(s) /\ At(s, "recording")
    BY <1>7, <2>1 DEF finalize_picocom_transcript
  <2>3. NameTypes'
    BY <2>2 DEF TypeInv, NameTypes
  <2>4. GzTypes'
    BY <2>2 DEF TypeInv, GzTypes
  <2>5. 0 \in 0..(Retention + 1)
    BY BoundsAssumption
  <2>6. SizeTypes'
    BY <2>2, <2>5 DEF TypeInv, SizeTypes
  <2>7. /\ job' \in [Proc -> Jobs] /\ job'[s] = NoJob
        /\ \A q \in Proc \ {s} : job'[q] = job[q]
    BY <1>1, <2>2, EndsJob
  <2>8. ASSUME NEW q \in Proc, q # s PROVE JobInv(q)'
    <3>1. JobInv(q) /\ job'[q] = job[q]
      BY <2>7, <2>8 DEF TypeInv
    <3>2. At(q, "recording") => Name(q) # t
      BY <1>1, <2>1, <2>2, <2>8 DEF RecordingInv
    <3>3. At(q, "recording") => job[q].file \in active' \X {"active"}
      BY <2>2, <3>1, <3>2 DEF JobInv, Name
    <3>. QED BY <2>2, <3>1, <3>3, JobFrame
  <2>. QED BY <1>1, <1>2, <2>3, <2>4, <2>6, <2>7, <2>8, NoJobInv DEF TypeInv
<1>. QED BY <1>3, <1>4, <1>5, <1>6, <1>7

LEMMA ClearTypes ==
    ASSUME TypeInv, NEW r \in Root, logs_clear(r) \/ Clear(r)
    PROVE  TypeInv'
<1>1. r \in Proc /\ job[r] \in Jobs /\ JobInv(r) /\ job \in [Proc -> Jobs]
  BY DEF TypeInv, Proc
<1>2. CASE logs_clear(r)
  <2>1. Closed \subseteq Finished /\ Closed \subseteq Files
    BY ClosedFinished DEF TypeInv
  <2>2. job' = [job EXCEPT ![r] = [job[r] EXCEPT !.todo = Closed, !.at = "clear"]]
    BY <1>2 DEF logs_clear
  <2>3. [job[r] EXCEPT !.todo = Closed, !.at = "clear"] \in Jobs
    BY <1>1, <2>1, JobsFields DEF Steps
  <2>4. job'[r].at = "clear" /\ job'[r].todo = Closed /\ job'[r].oldest = job[r].oldest
    BY <1>1, <2>2, JobsFields
  <2>5. JobInv(r)'
    BY <1>1, <1>2, <2>1, <2>4 DEF logs_clear, history, JobInv, At, CompressSteps, Finished
  <2>. QED BY <1>1, <1>2, <2>2, <2>3, <2>5, JobTypes, SameTypes
           DEF logs_clear, files, history, TypeInv
<1>3. CASE Clear(r)
  <2>1. CASE Ends(r) /\ UNCHANGED <<files, history>>
    BY <1>1, <1>3, <2>1, EndsTypes, SameTypes DEF Clear, files, history, TypeInv
  <2>2. CASE \E f \in job[r].todo :
               Remove(r, f) /\ job' = [job EXCEPT ![r].todo = @ \ {f}]
    BY <1>1, <1>3, <2>2, RemovesFinished, RemoveStepTypes DEF Clear
  <2>. QED BY <1>3, <2>1, <2>2 DEF Clear
<1>. QED BY <1>2, <1>3

LEMMA EnvironmentTypes ==
    ASSUME TypeInv,
           \/ logs_configure \/ Day \/ OtherFiles \/ PowerFailure
           \/ \E p \in Proc : CutOff(p)
    PROVE  TypeInv'
<1>1. UNCHANGED <<active, log, gz, size, rootOwned, used, closed, dropped, shared>>
  BY DEF logs_configure, Day, OtherFiles, PowerFailure, CutOff, files, history
<1>2. NameTypes'
  BY <1>1, SameTypes
<1>3. CASE Day
  <2>1. \A n \in 0..(Retention + 1) : Saturate(n) \in 0..(Retention + 1)
    BY BoundsAssumption DEF Saturate
  <2>2. 0 \in 0..(Retention + 1)
    BY BoundsAssumption
  <2>3. SizeTypes'
    <3>1. \A t \in Transcript : age[t] \in 0..(Retention + 1)
      BY DEF TypeInv, SizeTypes
    <3>2. age' = [t \in Transcript |-> IF t \in active \cup log THEN Saturate(age[t]) ELSE 0]
      BY <1>3 DEF Day
    <3>3. age' \in [Transcript -> 0..(Retention + 1)]
      BY <2>1, <2>2, <3>1, <3>2
    <3>. QED BY <1>1, <3>3 DEF TypeInv, SizeTypes
  <2>4. GzTypes'
    <3>1. \A t \in Transcript : gzAge[t] \in 0..(Retention + 1)
      BY DEF TypeInv, GzTypes
    <3>2. gzAge' = [t \in Transcript |-> IF gz[t] # "none" THEN Saturate(gzAge[t]) ELSE 0]
      BY <1>3 DEF Day
    <3>3. gzAge' \in [Transcript -> 0..(Retention + 1)]
      BY <2>1, <2>2, <3>1, <3>2
    <3>. QED BY <1>1, <3>3 DEF TypeInv, GzTypes
  <2>5. \A q \in Proc : JobInv(q)'
    BY <1>1, <1>3 DEF Day, TypeInv, JobInv, Finished, At
  <2>. QED BY <1>2, <1>3, <2>3, <2>4, <2>5, SameTypes DEF Day, TypeInv
<1>4. CASE ~Day
  <2>1. GzTypes' /\ SizeTypes'
    BY <1>1, <1>4, SameTypes DEF logs_configure, OtherFiles, PowerFailure, CutOff, files
  <2>2. BoundTypes'
    <3>1. faults' \in 0..MaxFaults
      BY <1>4, BoundsAssumption
         DEF logs_configure, OtherFiles, PowerFailure, CutOff, Fault, TypeInv, BoundTypes
    <3>2. fills' \in 0..MaxFills
      BY <1>4, BoundsAssumption
         DEF logs_configure, OtherFiles, PowerFailure, CutOff, TypeInv, BoundTypes
    <3>3. maxTotal' \in Totals
      BY <1>4 DEF logs_configure, OtherFiles, PowerFailure, CutOff, TypeInv, BoundTypes
    <3>4. reserve' \in BOOLEAN
      BY <1>4 DEF logs_configure, OtherFiles, PowerFailure, CutOff, TypeInv, BoundTypes
    <3>. QED BY <3>1, <3>2, <3>3, <3>4 DEF BoundTypes
  <2>3. job' \in [Proc -> Jobs] /\ \A q \in Proc : JobInv(q)'
    <3>1. CASE job' = job
      BY <1>1, <3>1 DEF TypeInv, JobInv, Finished, At
    <3>2. CASE PowerFailure
      BY <3>2, NoJobType, NoJobInv DEF PowerFailure
    <3>3. CASE \E p \in Proc : Ends(p)
      BY <1>1, <3>3, EndsTypes
    <3>. QED BY <1>4, <3>1, <3>2, <3>3 DEF logs_configure, OtherFiles, CutOff
  <2>. QED BY <1>2, <2>1, <2>2, <2>3 DEF TypeInv
<1>. QED BY <1>3, <1>4

LEMMA TypeStep == TypeInv /\ RecordingInv /\ [Next]_vars => TypeInv'
<1> SUFFICES ASSUME TypeInv, RecordingInv, [Next]_vars PROVE TypeInv'
  OBVIOUS
<1>1. CASE UNCHANGED vars
  BY <1>1 DEF vars, files, history, TypeInv, NameTypes, GzTypes, SizeTypes, BoundTypes, JobInv,
              Finished, At
<1>2. ASSUME NEW p \in Proc, maintain(p) PROVE TypeInv'
  <2>1. CASE Expire(p) \/ Drop(p)
    BY <1>2, <2>1, RemovesFinished, RemoveStepTypes DEF Expire, Drop
  <2>. QED BY <1>2, <2>1, MaintainTypes, CompressTypes DEF maintain
<1>3. ASSUME NEW r \in Root, monitor(r) PROVE TypeInv'
  BY <1>3, MaintainTypes DEF monitor, Proc
<1>. QED BY <1>1, <1>2, <1>3, SessionTypes, ClearTypes, EnvironmentTypes DEF Next, Run

LEMMA TypeInit == Init => TypeInv
<1> SUFFICES ASSUME Init PROVE TypeInv
  OBVIOUS
<1>1. NameTypes
  BY FS_EmptySet DEF Init, NameTypes
<1>2. GzTypes
  BY BoundsAssumption DEF Init, GzTypes
<1>3. SizeTypes
  BY BoundsAssumption DEF Init, SizeTypes
<1>4. BoundTypes
  <2>1. reserve \in BOOLEAN
    BY DEF Init
  <2>2. maxTotal \in Totals /\ faults \in 0..MaxFaults /\ fills \in 0..MaxFills
    BY BoundsAssumption DEF Init
  <2>. QED BY <2>1, <2>2 DEF BoundTypes
<1>5. job \in [Proc -> Jobs] /\ \A p \in Proc : job[p] = NoJob
  BY NoJobType DEF Init
<1>6. \A p \in Proc : JobInv(p)
  BY <1>5, NoJobType DEF JobInv, At, CompressSteps
<1>. QED BY <1>1, <1>2, <1>3, <1>4, <1>5, <1>6 DEF TypeInv

-----------------------------------------------------------------------------
(* What two processes over the same file may do to one another.            *)

\* What NothingLost says of one transcript.
Kept(t) == \/ Readable(t) \/ Rewritten(t) \/ t \in dropped
           \/ t \in shared /\ faults > 0

LEMMA KeptAll == NothingLost <=> \A t \in closed : Kept(t)
BY DEF NothingLost, Kept

OverlapInv == RecordingInv /\ SharedInv /\ PartialInv /\ CompressInv /\ NothingLost

\* What a process that compresses t can rely on.
CompressHolds(p, t) ==
  /\ At(p, "copy") => gz[t] \notin Proc \ {p} \/ t \in shared
  /\ At(p, "unlink") => gz[t] \notin Proc \/ t \in shared
  /\ t \in log \/ t \in shared \/ t \in dropped

LEMMA CompressParts ==
  CompressInv <=> \A p \in Proc, t \in Transcript : Compresses(p, t) => CompressHolds(p, t)
BY DEF CompressInv, CompressHolds

\* A step of p keeps all this if what p holds afterwards is right, if it leaves
\* files to those who compress them or is remembered, and if it ends the
\* writing of a compressed file only when that is complete or at a fault.
LEMMA OverlapFrame ==
    ASSUME TypeInv, TypeInv', OverlapInv, NEW p \in Proc,
           \A q \in Proc \ {p} : job'[q] = job[q],
           shared \subseteq shared', dropped \subseteq dropped', faults' >= faults,
           \A q \in Proc \ {p} :
             At(p, "recording")' /\ At(q, "recording") => Name(p)' # Name(q),
           \A t \in Transcript : Compresses(p, t)' =>
             /\ CompressHolds(p, t)'
             /\ \/ Compresses(p, t)
                \/ \A q \in Proc \ {p} : Compresses(q, t) => t \in shared',
           \A t \in Transcript :
             \/ gz'[t] = gz[t] \/ gz'[t] \notin Proc
             \/ gz'[t] = p /\ Compresses(p, t) /\ At(p, "copy")' /\ Name(p)' = t,
           \A q \in Proc \ {p}, t \in log \ log' :
             Compresses(q, t) => t \in shared' \/ t \in dropped',
           At(p, "copy") => faults' > 0 \/ gz'[Name(p)] # p,
           NothingLost'
    PROVE  OverlapInv'
<1>0. faults \in Nat /\ faults' \in Nat
  BY BoundsAssumption DEF TypeInv, BoundTypes
<1>1. RecordingInv'
  BY DEF OverlapInv, RecordingInv, Name, At
<1>2. SharedInv'
  <2>1. \A q \in Proc \ {p}, t \in Transcript : Compresses(q, t)' <=> Compresses(q, t)
    BY DEF Compresses
  <2>. QED BY <2>1 DEF OverlapInv, SharedInv
<1>3. CompressInv'
  <2>1. ASSUME NEW q \in Proc, NEW t \in Transcript, Compresses(q, t)', q # p
        PROVE  CompressHolds(q, t)'
    <3>1. Compresses(q, t) /\ job'[q] = job[q]
      BY <2>1 DEF Compresses
    <3>2. CompressHolds(q, t)
      BY <3>1, CompressParts DEF OverlapInv
    <3>3. Compresses(p, t) => t \in shared'
      BY <2>1, <3>1 DEF OverlapInv, SharedInv
    <3>4. gz'[t] = gz[t] \/ gz'[t] \notin Proc \/ t \in shared'
      BY <3>3
    <3>5. t \in log' \/ t \in shared' \/ t \in dropped'
      BY <2>1, <3>1, <3>2 DEF CompressHolds
    <3>. QED BY <3>1, <3>2, <3>4, <3>5 DEF CompressHolds, At
  <2>. QED BY <2>1 DEF CompressInv, CompressHolds
<1>4. PartialInv'
  <2>1. ASSUME NEW t \in Transcript, gz'[t] \in Proc PROVE Rewritten(t)' \/ faults' > 0
    <3>1. CASE gz'[t] = gz[t]
      <4>1. Rewritten(t) \/ faults > 0
        BY <2>1, <3>1 DEF OverlapInv, PartialInv
      <4>2. CASE Rewritten(t)
        <5>1. PICK q \in Proc : gz[t] = q /\ At(q, "copy") /\ Name(q) = t
          BY <4>2 DEF Rewritten
        <5>2. CASE q = p
          BY <3>1, <5>1, <5>2
        <5>3. CASE q # p
          BY <3>1, <5>1, <5>3 DEF Rewritten, At, Name
        <5>. QED BY <5>2, <5>3
      <4>. QED BY <1>0, <4>1, <4>2
    <3>2. CASE gz'[t] = p /\ At(p, "copy")' /\ Name(p)' = t
      BY <3>2 DEF Rewritten
    <3>. QED BY <2>1, <3>1, <3>2
  <2>. QED BY <2>1 DEF PartialInv
<1>. QED BY <1>1, <1>2, <1>3, <1>4 DEF OverlapInv

\* What a step of p does not touch stays where it is.
LEMMA LostFrame ==
    ASSUME TypeInv, TypeInv', OverlapInv, NEW p \in Proc,
           \A q \in Proc \ {p} : job'[q] = job[q],
           shared \subseteq shared', dropped \subseteq dropped', faults' >= faults,
           \A t \in closed' \ closed : t \in log',
           \A t \in closed : \/ gz'[t] # gz[t]
                             \/ t \in log \ log'
                             \/ At(p, "copy") /\ Name(p) = t
                             => Kept(t)'
    PROVE  NothingLost'
<1>0. faults \in Nat /\ faults' \in Nat
  BY BoundsAssumption DEF TypeInv, BoundTypes
<1>1. ASSUME NEW t \in closed' PROVE Kept(t)'
  <2>1. CASE t \notin closed
    BY <2>1 DEF Kept, Readable
  <2>2. CASE /\ t \in closed /\ gz'[t] = gz[t] /\ t \notin log \ log'
             /\ ~(At(p, "copy") /\ Name(p) = t)
    <3>1. Kept(t)
      BY <2>2, KeptAll DEF OverlapInv
    <3>2. CASE Readable(t)
      BY <2>2, <3>2 DEF Kept, Readable
    <3>3. CASE Rewritten(t)
      <4>1. PICK q \in Proc : gz[t] = q /\ At(q, "copy") /\ Name(q) = t
        BY <3>3 DEF Rewritten
      <4>2. q # p
        BY <2>2, <4>1
      <4>. QED BY <2>2, <4>1, <4>2 DEF Kept, Rewritten, At, Name
    <3>4. CASE t \in dropped
      BY <3>4 DEF Kept
    <3>5. CASE t \in shared /\ faults > 0
      BY <1>0, <3>5 DEF Kept
    <3>. QED BY <3>1, <3>2, <3>3, <3>4, <3>5 DEF Kept
  <2>. QED BY <2>1, <2>2
<1>. QED BY <1>1 DEF NothingLost, Kept

\* A fault: the transcript whose compressed file stays incomplete still has its
\* original, unless that is gone on purpose or by an overlap.
LEMMA FaultKeeps ==
    ASSUME TypeInv, OverlapInv, NEW t \in closed, Kept(t),
           UNCHANGED <<log, gz, dropped, shared>>, faults' > 0
    PROVE  Kept(t)'
<1>1. CASE Rewritten(t)
  <2>1. PICK q \in Proc : At(q, "copy") /\ Name(q) = t
    BY <1>1 DEF Rewritten
  <2>2. Compresses(q, t) /\ t \in Transcript
    BY <2>1, NameType DEF At, CompressSteps
  <2>3. t \in log \/ t \in shared \/ t \in dropped
    BY <2>2 DEF OverlapInv, CompressInv
  <2>. QED BY <2>3 DEF Kept, Readable
<1>. QED BY <1>1 DEF Kept, Readable

\* A step that changes no file and begins at most to compress one.
LEMMA QuietStep ==
    ASSUME TypeInv, TypeInv', OverlapInv, NEW p \in Proc,
           \A q \in Proc \ {p} : job'[q] = job[q],
           UNCHANGED <<log, gz, closed, dropped>>,
           shared \subseteq shared', faults' >= faults,
           job'[p].at # "recording",
           \A t \in Transcript : Compresses(p, t)' =>
             /\ job'[p].at = "truncate" /\ t \in log
             /\ \A q \in Proc \ {p} : Compresses(q, t) => t \in shared',
           At(p, "copy") => faults' > 0
    PROVE  OverlapInv'
<1>1. \A t \in Transcript : Compresses(p, t)' => CompressHolds(p, t)'
  BY DEF CompressHolds, At
<1>2. ASSUME NEW t \in closed, At(p, "copy"), Name(p) = t PROVE Kept(t)'
  <2>1. Compresses(p, t) /\ t \in Transcript
    BY <1>2, NameType DEF At, CompressSteps
  <2>2. t \in log \/ t \in shared \/ t \in dropped
    BY <2>1 DEF OverlapInv, CompressInv
  <2>. QED BY <1>2, <2>2 DEF Kept, Readable
<1>3. NothingLost'
  BY <1>2, LostFrame
<1>. QED BY <1>1, <1>3, OverlapFrame DEF At

\* A process that ends or goes on, without a file, is at none of the steps that
\* matter to others.
LEMMA EndsQuiet ==
    ASSUME TypeInv, TypeInv', OverlapInv, NEW p \in Proc, Ends(p),
           UNCHANGED <<log, gz, closed, dropped, shared>>, faults' >= faults,
           At(p, "copy") => faults' > 0
    PROVE  OverlapInv'
<1>1. job'[p] = NoJob /\ \A q \in Proc \ {p} : job'[q] = job[q]
  BY EndsJob DEF TypeInv
<1>2. job'[p].at = "idle" /\ \A t \in Transcript : ~Compresses(p, t)'
  BY <1>1, NoJobType DEF Compresses, CompressSteps
<1>. QED BY <1>1, <1>2, QuietStep

LEMMA GoesOnQuiet ==
    ASSUME TypeInv, TypeInv', OverlapInv, NEW p \in Proc, NEW j \in Jobs,
           job' = [job EXCEPT ![p] = j], ~At(p, "copy"),
           j.at \notin CompressSteps \cup {"recording"},
           UNCHANGED <<log, gz, closed, dropped, shared, faults>>
    PROVE  OverlapInv'
<1>1. job'[p] = j /\ \A q \in Proc \ {p} : job'[q] = job[q]
  BY SetJob DEF TypeInv
<1>2. \A t \in Transcript : ~Compresses(p, t)'
  BY <1>1 DEF Compresses
<1>3. faults' >= faults
  BY BoundsAssumption DEF TypeInv, BoundTypes
<1>. QED BY <1>1, <1>2, <1>3, QuietStep

LEMMA LookOverlap ==
    ASSUME TypeInv, TypeInv', OverlapInv, NEW p \in Proc, Look(p)
    PROVE  OverlapInv'
<1>1. PICK f \in job[p].todo :
        /\ At(p, "look")
        /\ \/ Raise(p) /\ UNCHANGED shared
           \/ /\ Exists(f)
              /\ job' = [job EXCEPT ![p].todo = @ \ {f}, ![p].at = Verdict(f),
                            ![p].file = IF Verdict(f) = "look" THEN NoFile ELSE f]
              /\ shared' = IF Verdict(f) = "truncate" /\ Sharing(p, f)
                           THEN shared \cup {f[1]} ELSE shared
  BY DEF Look
<1>2. UNCHANGED <<log, gz, closed, dropped, faults>> /\ faults' >= faults
  <2>1. UNCHANGED <<log, gz, closed, dropped, faults>>
    BY DEF Look, files, Environment
  <2>. QED BY <2>1, BoundsAssumption DEF TypeInv, BoundTypes
<1>3. job \in [Proc -> Jobs] /\ job[p] \in Jobs /\ f \in Finished
  BY <1>1 DEF TypeInv, JobInv
<1>4. CASE Raise(p) /\ UNCHANGED shared
  BY <1>1, <1>2, <1>4, EndsQuiet DEF Raise, At
<1>5. CASE /\ Exists(f)
           /\ job' = [job EXCEPT ![p].todo = @ \ {f}, ![p].at = Verdict(f),
                         ![p].file = IF Verdict(f) = "look" THEN NoFile ELSE f]
           /\ shared' = IF Verdict(f) = "truncate" /\ Sharing(p, f)
                        THEN shared \cup {f[1]} ELSE shared
  <2>1. /\ Verdict(f) \in {"expire", "truncate", "look"}
        /\ Verdict(f) = "truncate" => f[2] = "log"
    BY DEF Verdict
  <2>2. PICK verdict, file : /\ verdict = Verdict(f)
                             /\ file = IF Verdict(f) = "look" THEN NoFile ELSE f
    OBVIOUS
  <2>3. job' = [job EXCEPT ![p] = [job[p] EXCEPT !.todo = job[p].todo \ {f},
                                                 !.at = verdict, !.file = file]]
    BY <1>5, <2>2
  <2>4. /\ job'[p].at = verdict /\ job'[p].file = file
        /\ \A q \in Proc \ {p} : job'[q] = job[q]
    BY <1>3, <2>3, JobsFields
  <2>5. ASSUME NEW t \in Transcript, Compresses(p, t)'
        PROVE  /\ job'[p].at = "truncate" /\ t \in log
               /\ \A q \in Proc \ {p} : Compresses(q, t) => t \in shared'
    <3>1. verdict = "truncate" /\ f = <<t, "log">>
      BY <2>1, <2>2, <2>4, <2>5 DEF Compresses, CompressSteps
    <3>2. t \in log
      BY <1>5, <3>1 DEF Exists, transcript_files
    <3>3. \A q \in Proc \ {p} : Compresses(q, t) => Sharing(p, f)
      BY <3>1 DEF Compresses, CompressSteps, Sharing
    <3>. QED BY <1>5, <2>2, <2>4, <3>1, <3>2, <3>3
  <2>6. job'[p].at # "recording" /\ ~At(p, "copy") /\ shared \subseteq shared'
    BY <1>1, <1>5, <2>1, <2>2, <2>4 DEF At
  <2>. QED BY <1>2, <2>4, <2>5, <2>6, QuietStep
<1>. QED BY <1>1, <1>4, <1>5

\* The other steps that leave the files alone.
LEMMA QuietOverlap ==
    ASSUME TypeInv, TypeInv', OverlapInv, NEW p \in Proc,
           \/ ReadAndList(p, "settings") \/ ReadAndList(p, "idle") \/ Sort(p) \/ Check(p)
           \/ can_record(p) \/ DoNotRecord(p) \/ logs_clear(p)
           \/ At(p, "clear") /\ Ends(p) /\ UNCHANGED <<files, history, Environment>>
    PROVE  OverlapInv'
<1>1. UNCHANGED <<files, history, Environment>>
  BY DEF ReadAndList, Sort, Check, can_record, DoNotRecord, logs_clear
<1>2. UNCHANGED <<log, gz, closed, dropped, shared, faults>> /\ faults' >= faults
  <2>1. UNCHANGED <<log, gz, closed, dropped, shared, faults>>
    BY <1>1 DEF files, history, Environment
  <2>. QED BY <2>1, BoundsAssumption DEF TypeInv, BoundTypes
<1>3. ~At(p, "copy")
  BY DEF ReadAndList, Sort, Check, can_record, DoNotRecord, logs_clear, At
<1>4. CASE Ends(p)
  BY <1>2, <1>3, <1>4, EndsQuiet
<1>5. CASE ~Ends(p)
  <2>1. job[p] \in Jobs /\ job \in [Proc -> Jobs] /\ job' \in [Proc -> Jobs]
    BY DEF TypeInv
  <2>2. job' = [job EXCEPT ![p] = job'[p]] /\ job'[p] \in Jobs
        /\ job'[p].at \in {"look", "check", "drop", "ask", "settings", "clear"}
    <3>1. CASE ReadAndList(p, "settings") \/ ReadAndList(p, "idle")
      <4>1. job' = [job EXCEPT ![p] = [job[p] EXCEPT !.limit = maxTotal, !.todo = Closed,
                                                     !.at = "look"]]
        BY <3>1 DEF ReadAndList
      <4>. QED BY <2>1, <4>1, JobsFields
    <3>2. CASE Sort(p)
      <4>1. PICK s : job' = [job EXCEPT ![p] = [job[p] EXCEPT !.oldest = s, !.at = "check"]]
        BY <1>5, <3>2 DEF Sort, Raise
      <4>. QED BY <2>1, <4>1, JobsFields
    <3>3. CASE Check(p)
      <4>1. \/ job' = [job EXCEPT ![p] = [job[p] EXCEPT !.at = "drop"]]
            \/ job' = [job EXCEPT ![p] = [NoJob EXCEPT !.at = "ask", !.own = job[p].own]]
        BY <1>5, <3>3 DEF Check, Goto, Maintained, Raise
      <4>2. [job[p] EXCEPT !.at = "drop"] \in Jobs
        BY <2>1, JobsFields DEF Steps
      <4>3. [NoJob EXCEPT !.at = "ask", !.own = job[p].own] \in Jobs
        BY <2>1, NoJobType, JobsFields DEF Steps
      <4>4. PICK j \in Jobs : job' = [job EXCEPT ![p] = j] /\ j.at \in {"drop", "ask"}
        BY <2>1, <4>1, <4>2, <4>3, NoJobType, JobsFields
      <4>. QED BY <2>1, <4>4
    <3>4. CASE can_record(p)
      <4>1. job' = [job EXCEPT ![p] = [job[p] EXCEPT !.own = maxTotal, !.at = "settings"]]
        BY <3>4 DEF can_record
      <4>. QED BY <2>1, <4>1, JobsFields
    <3>5. CASE logs_clear(p)
      <4>1. job' = [job EXCEPT ![p] = [job[p] EXCEPT !.todo = Closed, !.at = "clear"]]
        BY <3>5 DEF logs_clear
      <4>. QED BY <2>1, <4>1, JobsFields
    <3>. QED BY <1>5, <3>1, <3>2, <3>3, <3>4, <3>5 DEF DoNotRecord
  <2>. QED BY <1>2, <1>3, <2>2, GoesOnQuiet DEF CompressSteps
<1>. QED BY <1>4, <1>5

\* A kill, a full disk or a power failure counts as a fault.
LEMMA FaultOverlap ==
    ASSUME TypeInv, TypeInv', OverlapInv, PowerFailure \/ \E p \in Proc : CutOff(p)
    PROVE  OverlapInv'
<1>1. UNCHANGED <<log, gz, closed, dropped, shared>>
  BY DEF PowerFailure, CutOff, files, history
<1>2. faults' >= faults /\ faults' > 0
  BY BoundsAssumption DEF PowerFailure, CutOff, Fault, TypeInv, BoundTypes
<1>3. CASE \E p \in Proc : CutOff(p)
  BY <1>1, <1>2, <1>3, EndsQuiet DEF CutOff
<1>4. CASE PowerFailure
  <2>1. \A p \in Proc : job'[p] = NoJob /\ job'[p].at = "idle"
    BY <1>4, NoJobType DEF PowerFailure
  <2>2. RecordingInv' /\ SharedInv' /\ CompressInv'
    BY <2>1 DEF RecordingInv, SharedInv, CompressInv, Compresses, CompressSteps, At
  <2>3. PartialInv'
    BY <1>2 DEF PartialInv
  <2>4. \A t \in closed : Kept(t)'
    BY <1>1, <1>2, FaultKeeps, KeptAll DEF OverlapInv
  <2>5. NothingLost'
    BY <1>1, <2>4 DEF NothingLost, Kept
  <2>. QED BY <2>2, <2>3, <2>5 DEF OverlapInv
<1>. QED BY <1>3, <1>4

\* Settings, days, other files, and what a device says.
LEMMA StillOverlap ==
    ASSUME OverlapInv, UNCHANGED <<job, log, gz, closed, dropped, shared, faults>>
    PROVE  OverlapInv'
BY DEF OverlapInv, RecordingInv, SharedInv, PartialInv, CompressInv, NothingLost, Compresses,
       Rewritten, Readable, Name, At

\* A session begins to record under a new name, or ends.
LEMMA RecordOverlap ==
    ASSUME TypeInv, TypeInv', OverlapInv, NEW s \in Session,
           CreateActive(s) \/ finalize_picocom_transcript(s)
    PROVE  OverlapInv'
<1>1. s \in Proc /\ job \in [Proc -> Jobs] /\ ~At(s, "copy")
  BY DEF TypeInv, Proc, CreateActive, finalize_picocom_transcript, At
<1>2. UNCHANGED <<gz, dropped, shared, faults>> /\ log \subseteq log'
  BY DEF CreateActive, finalize_picocom_transcript, Environment
<1>3. faults' >= faults
  BY <1>2, BoundsAssumption DEF TypeInv, BoundTypes
<1>4. closed' \ closed \subseteq log'
  BY DEF CreateActive, finalize_picocom_transcript
<1>5. /\ \A q \in Proc \ {s} : job'[q] = job[q]
      /\ job'[s].at \in {"idle", "recording"}
      /\ \A q \in Proc \ {s} :
           At(s, "recording")' /\ At(q, "recording") => Name(s)' # Name(q)
  <2>1. CASE CreateActive(s)
    <3>1. PICK t \in Transcript \ used :
            job' = [job EXCEPT ![s] = [NoJob EXCEPT !.file = <<t, "active">>,
                                                    !.at = "recording"]]
      BY <2>1 DEF CreateActive
    <3>2. <<t, "active">> \in Files
      BY FileFields DEF Kinds
    <3>3. [NoJob EXCEPT !.file = <<t, "active">>, !.at = "recording"] \in Jobs
      BY <3>2, NoJobType, JobsFields DEF Steps
    <3>4. /\ job'[s].at = "recording" /\ job'[s].file = <<t, "active">>
          /\ \A q \in Proc \ {s} : job'[q] = job[q]
      BY <1>1, <3>1, <3>3, NoJobType, JobsFields
    <3>5. \A q \in Proc : At(q, "recording") => Name(q) \in used
      BY DEF TypeInv, JobInv, Name, NameTypes
    <3>6. Name(s)' = t
      BY <3>4 DEF Name
    <3>. QED BY <3>4, <3>5, <3>6
  <2>2. CASE finalize_picocom_transcript(s)
    BY <1>1, <2>2, EndsJob, NoJobType DEF finalize_picocom_transcript, At
  <2>. QED BY <2>1, <2>2
<1>6. \A t \in Transcript : ~Compresses(s, t)'
  BY <1>5 DEF Compresses, CompressSteps
<1>7. NothingLost'
  BY <1>1, <1>2, <1>3, <1>4, <1>5, LostFrame
<1>. QED BY <1>1, <1>2, <1>3, <1>5, <1>6, <1>7, OverlapFrame

\* A removal leaves another file that can be read, or notes that the transcript
\* is gone on purpose, or that somebody was compressing it.
LEMMA RemoveOverlap ==
    ASSUME TypeInv, TypeInv', OverlapInv, NEW p \in Proc, NEW f \in Finished, NEW j \in Jobs,
           Remove(p, f), job' = [job EXCEPT ![p] = j],
           j.at \in {"look", "check", "clear"}, ~At(p, "copy"), UNCHANGED faults
    PROVE  OverlapInv'
<1>1. job'[p] = j /\ \A q \in Proc \ {p} : job'[q] = job[q]
  BY SetJob DEF TypeInv
<1>2. PICK t \in closed, k \in {"log", "gz"} : f = <<t, k>>
  BY DEF Finished
<1>3. t \in Transcript
  BY DEF TypeInv, NameTypes
<1>4. faults' >= faults
  BY BoundsAssumption DEF TypeInv, BoundTypes
<1>5. /\ closed' = closed /\ dropped \subseteq dropped' /\ shared \subseteq shared'
      /\ Exists(f) /\ ~ReadableWithout(f) => t \in dropped'
      /\ ReadableWithout(f) /\ Sharing(p, f) => t \in shared'
  BY <1>2 DEF Remove
<1>6. \/ k = "log" /\ log' = log \ {t} /\ gz' = gz
      \/ k = "gz" /\ log' = log /\ gz' = [gz EXCEPT ![t] = "none"]
  BY <1>2 DEF Remove, Forget
<1>7. gz \in [Transcript -> {"none", "complete"} \cup Proc]
  BY DEF TypeInv, GzTypes
<1>8. \A u \in Transcript : gz'[u] = gz[u] \/ (u = t /\ k = "gz" /\ gz'[u] = "none")
  <2>1. CASE k = "log"
    BY <1>6, <2>1
  <2>2. CASE k = "gz"
    BY <1>3, <1>6, <1>7, <2>2
  <2>. QED BY <2>1, <2>2
<1>9. ~Compresses(p, t)' /\ \A u \in Transcript : ~Compresses(p, u)'
  BY <1>1 DEF Compresses, CompressSteps
<1>10. \A q \in Proc \ {p}, u \in log \ log' :
         Compresses(q, u) => u \in shared' \/ u \in dropped'
  <2>1. ASSUME NEW q \in Proc \ {p}, NEW u \in log \ log', Compresses(q, u)
        PROVE  u \in shared' \/ u \in dropped'
    <3>1. u = t /\ k = "log" /\ t \in log
      BY <1>6, <2>1
    <3>2. Exists(f)
      BY <1>2, <3>1 DEF Exists, transcript_files
    <3>3. Sharing(p, f)
      BY <1>2, <2>1, <3>1 DEF Sharing, Compresses, CompressSteps
    <3>. QED BY <1>5, <3>1, <3>2, <3>3
  <2>. QED BY <2>1
<1>11. ASSUME NEW u \in closed, gz'[u] # gz[u] \/ u \in log \ log' PROVE Kept(u)'
  <2>1. u = t
    BY <1>6, <1>8, <1>11 DEF TypeInv, NameTypes
  <2>2. Exists(f)
    BY <1>2, <1>3, <1>6, <1>8, <1>11, <2>1 DEF Exists, transcript_files
  <2>3. CASE ReadableWithout(f)
    BY <1>2, <1>3, <1>6, <1>8, <2>1, <2>3, NoneAssumption
       DEF ReadableWithout, Kept, Readable
  <2>. QED BY <1>5, <2>1, <2>2, <2>3 DEF Kept
<1>12. NothingLost'
  BY <1>1, <1>4, <1>5, <1>11, LostFrame
<1>13. "none" \notin Proc
  BY NoneAssumption
<1>. QED BY <1>1, <1>4, <1>5, <1>8, <1>9, <1>10, <1>12, <1>13, OverlapFrame DEF At

\* A process opens the compressed file: it writes the whole of it now.
LEMMA TruncateOverlap ==
    ASSUME TypeInv, TypeInv', OverlapInv, NEW p \in Proc, Truncate(p)
    PROVE  OverlapInv'
<1>1. job[p].at = "truncate" /\ job \in [Proc -> Jobs] /\ job[p] \in Jobs
  BY DEF Truncate, At, TypeInv
<1>2. PICK t \in closed : /\ t = Name(p) /\ t \in Transcript /\ Compresses(p, t)
                          /\ job[p].file = <<t, "log">>
  BY <1>1, NameType DEF CompressSteps
<1>3. UNCHANGED <<log, closed, dropped, shared, faults>> /\ faults' >= faults
  <2>1. UNCHANGED <<log, closed, dropped, shared, faults>>
    BY DEF Truncate, history, Environment
  <2>. QED BY <2>1, BoundsAssumption DEF TypeInv, BoundTypes
<1>4. CASE Raise(p) /\ UNCHANGED gz
  BY <1>1, <1>3, <1>4, EndsQuiet DEF Raise, At
<1>5. CASE Goto(p, "copy") /\ gz' = [gz EXCEPT ![t] = p]
  <2>1. /\ job'[p].at = "copy" /\ job'[p].file = <<t, "log">>
        /\ \A q \in Proc \ {p} : job'[q] = job[q]
    BY <1>1, <1>2, <1>5, GotoJob DEF Steps
  <2>2. gz'[t] = p /\ \A u \in Transcript \ {t} : gz'[u] = gz[u]
    BY <1>2, <1>5 DEF TypeInv, GzTypes
  <2>3. At(p, "copy")' /\ Name(p)' = t
    BY <2>1 DEF At, Name
  <2>4. \A u \in Transcript : Compresses(p, u)' => u = t
    BY <2>1 DEF Compresses
  <2>5. t \in log \/ t \in shared \/ t \in dropped
    BY <1>2 DEF OverlapInv, CompressInv
  <2>6. CompressHolds(p, t)'
    BY <1>3, <2>1, <2>2, <2>5 DEF CompressHolds, At
  <2>7. Kept(t)'
    BY <2>2, <2>3 DEF Kept, Rewritten
  <2>8. closed \subseteq Transcript /\ ~At(p, "copy")
    BY <1>1 DEF TypeInv, NameTypes, At
  <2>9. NothingLost'
    BY <1>3, <2>1, <2>2, <2>7, <2>8, LostFrame
  <2>10. \A u \in Transcript : Compresses(p, u)' => CompressHolds(p, u)' /\ Compresses(p, u)
    BY <1>2, <2>4, <2>6
  <2>11. \A u \in Transcript :
           \/ gz'[u] = gz[u]
           \/ gz'[u] = p /\ Compresses(p, u) /\ At(p, "copy")' /\ Name(p)' = u
    BY <1>2, <2>2, <2>3 DEF Compresses
  <2>12. ~At(p, "recording")'
    BY <2>1 DEF At
  <2>. QED BY <1>3, <2>1, <2>8, <2>9, <2>10, <2>11, <2>12, OverlapFrame
<1>. QED BY <1>2, <1>4, <1>5 DEF Truncate

\* It has written and closed the file: it is complete, unless another process
\* has truncated it since.
LEMMA CopyOverlap ==
    ASSUME TypeInv, TypeInv', OverlapInv, NEW p \in Proc, Copy(p)
    PROVE  OverlapInv'
<1>1. job[p].at = "copy" /\ job \in [Proc -> Jobs] /\ job[p] \in Jobs
  BY DEF Copy, At, TypeInv
<1>2. PICK t \in closed : /\ t = Name(p) /\ t \in Transcript /\ Compresses(p, t)
                          /\ job[p].file = <<t, "log">>
  BY <1>1, NameType DEF CompressSteps
<1>3. UNCHANGED <<log, closed, dropped, shared, faults>> /\ faults' >= faults
  <2>1. UNCHANGED <<log, closed, dropped, shared, faults>>
    BY DEF Copy, history, Environment
  <2>. QED BY <2>1, BoundsAssumption DEF TypeInv, BoundTypes
<1>4. /\ job'[p].at = "unlink" /\ job'[p].file = <<t, "log">>
      /\ \A q \in Proc \ {p} : job'[q] = job[q]
  BY <1>1, <1>2, GotoJob DEF Copy, Steps
<1>5. /\ gz[t] = p => gz'[t] = "complete"
      /\ gz[t] # p => gz'[t] = gz[t]
      /\ \A u \in Transcript \ {t} : gz'[u] = gz[u]
  BY <1>2 DEF Copy, TypeInv, GzTypes
<1>6. "complete" \notin Proc /\ p # "complete"
  BY NoneAssumption
<1>7. CompressHolds(p, t)
  BY <1>2, CompressParts DEF OverlapInv
<1>8. \A u \in Transcript : Compresses(p, u)' => u = t
  BY <1>4 DEF Compresses
<1>9. CompressHolds(p, t)'
  BY <1>1, <1>3, <1>4, <1>5, <1>6, <1>7 DEF CompressHolds, At
<1>10. Kept(t)'
  <2>1. CASE gz[t] = p
    BY <1>5, <2>1 DEF Kept, Readable
  <2>2. CASE gz[t] # p
    <3>1. Kept(t)
      BY KeptAll DEF OverlapInv
    <3>2. CASE Rewritten(t)
      <4>1. PICK q \in Proc : gz[t] = q /\ At(q, "copy") /\ Name(q) = t
        BY <3>2 DEF Rewritten
      <4>2. q # p
        BY <2>2, <4>1
      <4>. QED BY <1>4, <1>5, <2>2, <4>1, <4>2 DEF Kept, Rewritten, At, Name
    <3>. QED BY <1>3, <1>5, <2>2, <3>1, <3>2 DEF Kept, Readable
  <2>. QED BY <2>1, <2>2
<1>11. closed \subseteq Transcript
  BY DEF TypeInv, NameTypes
<1>12. NothingLost'
  BY <1>2, <1>3, <1>4, <1>5, <1>10, <1>11, LostFrame
<1>13. \A u \in Transcript : Compresses(p, u)' => CompressHolds(p, u)' /\ Compresses(p, u)
  BY <1>2, <1>8, <1>9
<1>14. \A u \in Transcript : gz'[u] = gz[u] \/ gz'[u] \notin Proc
  BY <1>5, <1>6
<1>15. gz'[Name(p)] # p
  BY <1>2, <1>5, <1>6
<1>16. ~At(p, "recording")'
  BY <1>4 DEF At
<1>. QED BY <1>3, <1>4, <1>12, <1>13, <1>14, <1>15, <1>16, OverlapFrame

\* The original goes: the compressed file is complete, or another process that
\* has come by is noted.
LEMMA UnlinkOverlap ==
    ASSUME TypeInv, TypeInv', OverlapInv, NEW p \in Proc, Unlink(p)
    PROVE  OverlapInv'
<1>1. job[p].at = "unlink" /\ job \in [Proc -> Jobs] /\ job[p] \in Jobs
  BY DEF Unlink, At, TypeInv
<1>2. PICK t \in closed : /\ t = Name(p) /\ t \in Transcript /\ Compresses(p, t)
                          /\ job[p].file = <<t, "log">>
  BY <1>1, NameType DEF CompressSteps
<1>3. UNCHANGED <<gz, closed, dropped, shared, faults>> /\ faults' >= faults
  <2>1. UNCHANGED <<gz, closed, dropped, shared, faults>>
    BY DEF Unlink, history, Environment
  <2>. QED BY <2>1, BoundsAssumption DEF TypeInv, BoundTypes
<1>4. ~At(p, "copy")
  BY <1>1 DEF At
<1>5. CASE Raise(p) /\ UNCHANGED log
  BY <1>3, <1>4, <1>5, EndsQuiet DEF Raise
<1>6. CASE /\ gz[t] # "none" /\ Forget(t)
           /\ job' = [job EXCEPT ![p].file = NoFile, ![p].at = "look"]
  <2>1. job' = [job EXCEPT ![p] = [job[p] EXCEPT !.file = NoFile, !.at = "look"]]
    BY <1>6
  <2>2. job'[p].at = "look" /\ \A q \in Proc \ {p} : job'[q] = job[q]
    BY <1>1, <2>1, JobsFields
  <2>3. log' = log \ {t}
    BY <1>6 DEF Forget
  <2>4. \A u \in Transcript : ~Compresses(p, u)'
    BY <2>2 DEF Compresses, CompressSteps
  <2>5. \A q \in Proc \ {p}, u \in log \ log' : Compresses(q, u) => u \in shared'
    <3>1. ASSUME NEW q \in Proc \ {p}, Compresses(q, t) PROVE t \in shared'
      BY <1>2, <1>3, <3>1 DEF OverlapInv, SharedInv
    <3>2. \A u \in log \ log' : u = t
      BY <2>3
    <3>. QED BY <3>1, <3>2
  <2>6. Kept(t)'
    <3>1. gz[t] = "complete" \/ gz[t] \in Proc
      BY <1>2, <1>6 DEF TypeInv, GzTypes
    <3>2. CASE gz[t] = "complete"
      BY <1>3, <3>2 DEF Kept, Readable
    <3>3. CASE gz[t] \in Proc
      <4>1. t \in shared
        BY <1>1, <1>2, <3>3 DEF OverlapInv, CompressInv, At
      <4>2. Rewritten(t) \/ faults > 0
        BY <1>2, <3>3 DEF OverlapInv, PartialInv
      <4>3. CASE Rewritten(t)
        <5>1. PICK q \in Proc : gz[t] = q /\ At(q, "copy") /\ Name(q) = t
          BY <4>3 DEF Rewritten
        <5>2. q # p
          BY <1>4, <5>1
        <5>. QED BY <1>3, <2>2, <5>1, <5>2 DEF Kept, Rewritten, At, Name
      <4>. QED BY <1>3, <4>1, <4>2, <4>3 DEF Kept
    <3>. QED BY <3>1, <3>2, <3>3
  <2>7. NothingLost'
    BY <1>3, <1>4, <2>2, <2>3, <2>6, LostFrame
  <2>8. ~At(p, "recording")'
    BY <2>2 DEF At
  <2>. QED BY <1>3, <1>4, <2>2, <2>4, <2>5, <2>7, <2>8, OverlapFrame
<1>. QED BY <1>2, <1>5, <1>6 DEF Unlink

-----------------------------------------------------------------------------
(* The invariant.                                                          *)

LEMMA OverlapInit == Init => OverlapInv
<1> SUFFICES ASSUME Init PROVE OverlapInv
  OBVIOUS
<1>1. \A p \in Proc : job[p].at = "idle"
  BY NoJobType DEF Init
<1>2. RecordingInv /\ SharedInv /\ CompressInv
  BY <1>1 DEF RecordingInv, SharedInv, CompressInv, Compresses, CompressSteps, At
<1>3. PartialInv
  BY NoneAssumption DEF Init, PartialInv
<1>4. NothingLost
  BY DEF Init, NothingLost
<1>. QED BY <1>2, <1>3, <1>4 DEF OverlapInv

LEMMA OverlapStep == TypeInv /\ OverlapInv /\ [Next]_vars => OverlapInv'
<1> SUFFICES ASSUME TypeInv, OverlapInv, [Next]_vars PROVE OverlapInv'
  OBVIOUS
<1>0. TypeInv'
  BY TypeStep DEF OverlapInv
<1>1. CASE UNCHANGED vars \/ logs_configure \/ Day \/ OtherFiles
           \/ \E s \in Session : Record(s)
  BY <1>1, StillOverlap
     DEF vars, files, history, logs_configure, Day, OtherFiles, Record, Environment
<1>2. ASSUME NEW p \in Proc, maintain(p) PROVE OverlapInv'
  <2>1. CASE Expire(p) \/ Drop(p)
    <3>1. UNCHANGED faults /\ ~At(p, "copy")
      BY <2>1 DEF Expire, Drop, Environment, At
    <3>. QED BY <1>0, <2>1, <3>1, RemovesFinished, RemoveOverlap
  <2>. QED BY <1>0, <1>2, <2>1, QuietOverlap, LookOverlap, TruncateOverlap, CopyOverlap,
              UnlinkOverlap DEF maintain
<1>3. ASSUME NEW s \in Session,
             \/ can_record(s) \/ DoNotRecord(s) \/ CreateActive(s)
             \/ finalize_picocom_transcript(s)
      PROVE  OverlapInv'
  BY <1>0, <1>3, QuietOverlap, RecordOverlap DEF Proc
<1>4. ASSUME NEW r \in Root, monitor(r) \/ logs_clear(r) \/ Clear(r) PROVE OverlapInv'
  <2>1. r \in Proc
    BY DEF Proc
  <2>2. CASE Clear(r)
    <3>1. CASE \E f \in job[r].todo : Remove(r, f) /\ job' = [job EXCEPT ![r].todo = @ \ {f}]
      <4>1. UNCHANGED faults /\ ~At(r, "copy") /\ At(r, "clear")
        BY <2>2 DEF Clear, Environment, At
      <4>. QED BY <1>0, <2>1, <3>1, <4>1, RemovesFinished, RemoveOverlap
    <3>. QED BY <1>0, <2>1, <2>2, <3>1, QuietOverlap DEF Clear
  <2>. QED BY <1>0, <1>4, <2>1, <2>2, QuietOverlap DEF monitor
<1>5. CASE PowerFailure \/ \E p \in Proc : CutOff(p)
  BY <1>0, <1>5, FaultOverlap
<1>. QED BY <1>1, <1>2, <1>3, <1>4, <1>5 DEF Next, Run

\* Who writes, who has removed and who was cut off is known of every file, for
\* any number of processes over it.
THEOREM InductiveInvCorrect == Spec => []InductiveInv
<1>1. InductiveInv <=> TypeInv /\ OverlapInv
  BY TypeParts DEF InductiveInv, OverlapInv
<1>2. Init => TypeInv /\ OverlapInv
  BY TypeInit, OverlapInit
<1>3. TypeInv /\ OverlapInv /\ [Next]_vars => (TypeInv /\ OverlapInv)'
  BY TypeStep, OverlapStep DEF OverlapInv
<1>. QED BY <1>1, <1>2, <1>3, PTL DEF Spec

\* Every file, name and process is one of those there are, and finitely many
\* transcripts exist at any time.
THEOREM TypeCorrect == Spec => []TypeOK
BY InductiveInvCorrect, PTL DEF InductiveInv

\* No finished transcript is lost by maintenances that overlap, whatever their
\* number and order, nor by kills, full disks and power failures, but for both
\* over the same transcript.
THEOREM NothingLostCorrect == Spec => []NothingLost
BY InductiveInvCorrect, PTL DEF InductiveInv
===============================================================================
