------------------------------ MODULE Jobs_proofs ------------------------------
EXTENDS Jobs, TLAPS

Unraced == "job.json" \notin raced

Open(p) == stage[p] \in {"fill", "move"}

AtWork(p) == stage[p] \notin {"new", "done"}

(* A request that has loaded the job to change it. *)
Holding(p) == ChangesJob(p) /\ stage[p] \in {"check", "create", "fill", "move"}

SavesJob(p) == p \in Writing("job.json")

(* Who writes what; the answer is the end; the dead do nothing. *)
StageOK ==
    \A p \in Requests :
        /\ ~AtWork(p) => target[p] = "job.json" /\ fd[p] = 0
        /\ stage[p] = "new" => kind[p] = "none"
        /\ stage[p] # "done" => result[p] = "none"
        /\ stage[p] \in {"run", "reload", "check"} => ChangesJob(p)
        /\ p \in Writing("job.json") \cup Writing("findings.json") => ChangesJob(p)
        /\ p \in Writing("run.json") => kind[p] = "run_status"
        /\ stage[p] \in {"delete", "unlink"} => kind[p] = "delete"
        /\ stage[p] = "unlink" => doomed
        /\ AtWork(p) => up

(* A name has a file of its own, and what a request has open is none of    *)
(* those under the names it does not write.                                *)
InodesOK ==
    /\ \A a, b \in Paths :
        /\ (a # b /\ file[a] # 0) => file[a] # file[b]
        /\ (a # b /\ tmp[a] # 0) => tmp[a] # tmp[b]
        /\ file[a] # 0 => file[a] # tmp[b]
    /\ \A p \in Requests : Open(p) =>
        /\ fd[p] # 0
        /\ \A a \in Paths : a # target[p] => fd[p] # file[a] /\ fd[p] # tmp[a]
    /\ \A p, q \in Requests :
        (Open(p) /\ Open(q) /\ target[p] # target[q]) => fd[p] # fd[q]

(* No two requests were past the check of job.json at once. *)
LoneOK ==
    Unraced =>
        /\ \A p, q \in Requests : (SavesJob(p) /\ SavesJob(q)) => p = q
        /\ \A p \in Requests : (SavesJob(p) /\ Open(p)) =>
            tmp["job.json"] \in {fd[p], 0} /\ file["job.json"] # fd[p]
        /\ \A p \in Requests : (SavesJob(p) /\ stage[p] = "fill") => content[fd[p]].state = "empty"
        /\ \A p \in Requests : (SavesJob(p) /\ stage[p] = "move") => content[fd[p]] = Payload(p)

(* Nothing of job.json, and nobody who is about to make it. *)
DeletedOK ==
    (Deleted /\ ~late) =>
        /\ file["job.json"] = 0
        /\ tmp["job.json"] = 0
        /\ \A p \in Requests : SavesJob(p) => stage[p] # "create"

(* A revision is the number of a request that has been answered. *)
RevisionsOK ==
    Unraced =>
        /\ Readable("job.json") \/ doomed
        /\ Readable("job.json") =>
            /\ \A q \in Requests : At("job.json").rev = q => stage[q] = "done"
            /\ \A q \in At("job.json").has : result[q] = "ok"
            /\ \A p \in Requests : (ChangesJob(p) /\ result[p] = "ok") => p \in At("job.json").has

(* What a request has loaded was on disk, and still is if the revision is; *)
(* past the check, it has all that was answered with success.              *)
Loaded(p) ==
    /\ \A q \in Requests : base[p].rev = q => stage[q] = "done"
    /\ \A q \in base[p].has : result[q] = "ok"
    /\ Readable("job.json") =>
        /\ base[p].rev # 0 => At("job.json").rev # 0
        /\ At("job.json").rev = base[p].rev => At("job.json").has = base[p].has
    /\ expected[p] \in {base[p].rev, 0}
    /\ SavesJob(p) => \A q \in Requests : (ChangesJob(q) /\ result[q] = "ok") => q \in base[p].has

LoadedOK == Unraced => \A p \in Requests : Holding(p) => Loaded(p)

(* A document that says running says so since the last start. *)
Current(document) ==
    (document.state = "whole" /\ document.status = "RUNNING") => document.life = life

RunsOK ==
    /\ (up /\ faults = 0 /\ file["run.json"] # 0) => Current(At("run.json"))
    /\ \A p \in Requests : p \in Writing("run.json") =>
        /\ base[p].status = "RUNNING" => base[p].life = life
        /\ Open(p) => Current(content[fd[p]])
        /\ (Open(p) /\ tmp["run.json"] # 0) => Current(content[tmp["run.json"]])

IInv ==
    /\ TypeOK /\ StageOK /\ InodesOK /\ LoneOK /\ DeletedOK
    /\ RevisionsOK /\ LoadedOK /\ RunsOK
------------------------------------------------------------------------------
(* Types *)

Positions ==
    {"new", "load", "run", "reload", "check", "create", "fill", "move", "delete",
     "unlink", "done"}

LEMMA Counted ==
    ASSUME NEW n \in Nat, NEW i \in Nat, i < n
    PROVE  i + 1 \in 0..n
  OBVIOUS

LEMMA Numbers ==
    /\ NumRequests \in Nat /\ MaxCrashes \in Nat /\ MaxFaults \in Nat
    /\ Inodes \subseteq Nat /\ Requests \subseteq Nat
    /\ 0 \notin Inodes /\ 0 \notin Requests
    /\ \A p \in Requests : p \in 0..NumRequests
    /\ 1 \in Inodes /\ 2 \in Inodes
  BY JobsAssumption DEF Inodes, Requests

LEMMA BlankTyped == Blank \in Documents /\ [Blank EXCEPT !.state = "whole"] \in Documents
                    /\ [Blank EXCEPT !.state = "torn"] \in Documents
  BY Numbers DEF Blank, Documents, Statuses

(* A document stays one when a field of it changes. *)
LEMMA Changed ==
    ASSUME NEW d \in Documents, NEW p \in Requests
    PROVE  /\ [d EXCEPT !.findings = p] \in Documents
           /\ [d EXCEPT !.run = p] \in Documents
           /\ \A s \in Statuses, l \in 1..(MaxCrashes + 1) :
                [d EXCEPT !.status = s, !.life = l] \in Documents
           /\ [d EXCEPT !.state = "whole", !.rev = p, !.has = @ \cup {p}] \in Documents
           /\ [d EXCEPT !.state = "whole", !.rev = p] \in Documents
           /\ d.rev \in 0..NumRequests /\ d.has \subseteq Requests /\ d.life \in 1..(MaxCrashes + 1)
<1>1. p \in 0..NumRequests
  BY Numbers
<1> QED BY <1>1 DEF Documents, Statuses

LEMMA FailedTyped ==
    ASSUME NEW d \in Documents
    PROVE  [d EXCEPT !.status = "FAILED"] \in Documents
  BY DEF Documents, Statuses

LEMMA AtTyped ==
    ASSUME TypeOK, NEW path \in Paths, Readable(path)
    PROVE  At(path) \in Documents /\ file[path] \in Inodes
  BY DEF TypeOK, Readable, At

LEMMA PayloadTyped ==
    ASSUME TypeOK, NEW p \in Requests
    PROVE  Payload(p) \in Documents
<1>1. base[p] \in Documents
  BY DEF TypeOK
<1> QED BY <1>1, Changed DEF Payload

LEMMA Initially == Init => IInv
<1> SUFFICES ASSUME Init PROVE IInv
  OBVIOUS
<1>1. "job.json" \in Paths /\ "run.json" \in Paths /\ "findings.json" \in Paths
  BY DEF Paths
<1>2. /\ file["job.json"] = 1 /\ file["run.json"] = 2 /\ file["findings.json"] = 0
      /\ file \in [Paths -> Inodes \cup {0}]
      /\ \A a, b \in Paths : (a # b /\ file[a] # 0) => file[a] # file[b]
  <2>1. file = [path \in Paths |-> CASE path = "job.json" -> 1
                                     [] path = "run.json" -> 2
                                     [] OTHER -> 0]
    BY DEF Init
  <2>2. file["job.json"] = 1 /\ file["run.json"] = 2 /\ file["findings.json"] = 0
    BY <1>1, <2>1
  <2>3. file \in [Paths -> Inodes \cup {0}]
    BY <2>1, <2>2, Numbers DEF Paths
  <2> QED BY <2>2, <2>3 DEF Paths
<1>3. /\ content \in [Inodes -> Documents]
      /\ content[1] = [Blank EXCEPT !.state = "whole"]
      /\ content[2] = [Blank EXCEPT !.state = "whole"]
  BY Numbers, BlankTyped DEF Init
<1>4. TypeOK
  <2>1. life \in 1..(MaxCrashes + 1) /\ faults \in 0..MaxFaults
    BY Numbers DEF Init
  <2>2. target \in [Requests -> Paths] /\ tmp \in [Paths -> Inodes \cup {0}]
    BY <1>1 DEF Init
  <2>3. base \in [Requests -> Documents]
    BY BlankTyped DEF Init
  <2>4. stage \in [Requests -> Positions] /\ kind \in [Requests -> Kinds \cup {"none"}]
    BY DEF Init, Positions
  <2>5. /\ expected \in [Requests -> 0..NumRequests] /\ fd \in [Requests -> Inodes \cup {0}]
        /\ result \in [Requests -> {"none", "ok", "conflict", "error"}]
    BY Numbers DEF Init
  <2>6. /\ runs \subseteq Requests /\ crossed \subseteq Requests /\ raced \subseteq Paths
        /\ dir \in BOOLEAN /\ up \in BOOLEAN /\ doomed \in BOOLEAN /\ late \in BOOLEAN
    BY DEF Init
  <2> QED BY <1>2, <1>3, <2>1, <2>2, <2>3, <2>4, <2>5, <2>6 DEF TypeOK, Positions
<1>5. \A p \in Requests : /\ ~AtWork(p) /\ ~Open(p) /\ ~Holding(p)
                          /\ \A path \in Paths : p \notin Writing(path)
  BY DEF Init, AtWork, Open, Holding, Writing
<1>6. ~Deleted /\ \A p \in Requests : result[p] = "none" /\ kind[p] = "none"
  BY DEF Init, Deleted
<1>7. At("job.json").state = "whole" /\ At("job.json").rev = 0 /\ At("job.json").has = {}
  BY <1>2, <1>3 DEF At, Blank
<1>8. StageOK
  BY <1>1, <1>5, <1>6 DEF Init, StageOK, SavesJob
<1>9. InodesOK
  BY <1>2, <1>5 DEF Init, InodesOK
<1>10. LoneOK
  BY <1>1, <1>5, <1>6 DEF LoneOK, SavesJob
<1>11. RevisionsOK
  BY <1>2, <1>6, <1>7, Numbers DEF RevisionsOK, Readable
<1>12. LoadedOK /\ DeletedOK
  BY <1>5, <1>6 DEF LoadedOK, DeletedOK
<1>13. RunsOK
  <2>1. At("run.json").status = "QUEUED"
    BY <1>2, <1>3 DEF At, Blank
  <2> QED BY <1>1, <1>5, <2>1 DEF RunsOK, Current
<1> QED BY <1>4, <1>8, <1>9, <1>10, <1>11, <1>12, <1>13 DEF IInv

LEMMA AnswerTyped ==
    ASSUME TypeOK, NEW p \in Requests, NEW answer \in {"ok", "conflict", "error"}, Answer(p, answer)
    PROVE  /\ stage' \in [Requests -> Positions] /\ result' \in [Requests -> {"none", "ok", "conflict", "error"}]
           /\ base' \in [Requests -> Documents] /\ expected' \in [Requests -> 0..NumRequests]
           /\ fd' \in [Requests -> Inodes \cup {0}] /\ target' \in [Requests -> Paths]
           /\ kind' \in [Requests -> Kinds \cup {"none"}]
<1>1. 0 \in 0..NumRequests /\ "job.json" \in Paths
  BY Numbers DEF Paths
<1> QED BY <1>1, BlankTyped DEF TypeOK, Answer, GoTo, Positions

LEMMA LoadsTyped ==
    ASSUME TypeOK, NEW p \in Requests,
           \/ Receive(p) \/ LoadForPatch(p) \/ LoadForFindings(p) \/ LoadForRun(p)
           \/ WriteRun(p) \/ LoadAgain(p) \/ LoadRun(p) \/ CheckRevision(p)
           \/ BeginDelete(p)
    PROVE  TypeOK'
<1> USE DEF disk, request, server, deletion
<1>1. "job.json" \in Paths /\ "run.json" \in Paths /\ "findings.json" \in Paths
  BY DEF Paths
<1>2. 0 \in 0..NumRequests
  BY Numbers
<1>3. CASE Receive(p)
  <2>1. PICK k \in May[p] : /\ kind' = [kind EXCEPT ![p] = k]
                            /\ GoTo(p, IF k = "delete" THEN "delete" ELSE "load")
    BY <1>3 DEF Receive
  <2>2. k \in Kinds
    BY JobsAssumption
  <2> QED BY <1>3, <2>1, <2>2 DEF TypeOK, Receive, GoTo
<1>4. CASE LoadForPatch(p)
  <2>1. At("job.json") \in Documents
    BY <1>1, <1>4, AtTyped DEF LoadForPatch
  <2>2. base' \in [Requests -> Documents]
    BY <1>4, <2>1 DEF TypeOK, LoadForPatch
  <2>3. expected' \in [Requests -> 0..NumRequests]
    BY <1>2, <1>4, <2>1, Changed DEF TypeOK, LoadForPatch
  <2> QED BY <1>4, <2>2, <2>3 DEF TypeOK, LoadForPatch, GoTo
<1>5. CASE LoadForFindings(p)
  <2>1. At("job.json") \in Documents
    BY <1>1, <1>5, AtTyped DEF LoadForFindings
  <2>2. base' \in [Requests -> Documents] /\ expected' \in [Requests -> 0..NumRequests]
    BY <1>5, <2>1, Changed DEF TypeOK, LoadForFindings
  <2> QED BY <1>1, <1>5, <2>2 DEF TypeOK, LoadForFindings, AboutToWrite
<1>6. CASE LoadForRun(p)
  BY <1>6 DEF TypeOK, LoadForRun, GoTo
<1>7. CASE WriteRun(p)
  BY <1>7 DEF TypeOK, WriteRun, GoTo, Cross, Deleting
<1>8. CASE LoadAgain(p)
  <2>1. At("job.json") \in Documents
    BY <1>1, <1>8, AtTyped DEF LoadAgain
  <2>2. base' \in [Requests -> Documents] /\ expected' \in [Requests -> 0..NumRequests]
    BY <1>8, <2>1, Changed DEF TypeOK, LoadAgain
  <2> QED BY <1>8, <2>2 DEF TypeOK, LoadAgain, GoTo
<1>9. CASE LoadRun(p)
  <2>1. At("run.json") \in Documents
    BY <1>1, <1>9, AtTyped DEF LoadRun
  <2>2. PICK s \in Statuses : base' = [base EXCEPT ![p] = [At("run.json") EXCEPT !.status = s, !.life = life]]
    BY <1>9 DEF LoadRun
  <2>3. [At("run.json") EXCEPT !.status = s, !.life = life] \in Documents
    BY <2>1, Changed DEF TypeOK
  <2>4. base' \in [Requests -> Documents]
    BY <2>2, <2>3 DEF TypeOK
  <2> QED BY <1>1, <1>9, <2>4 DEF TypeOK, LoadRun, AboutToWrite
<1>10. CASE CheckRevision(p)
  BY <1>1, <1>10 DEF TypeOK, CheckRevision, AboutToWrite
<1>11. CASE BeginDelete(p)
  BY <1>11 DEF TypeOK, BeginDelete, GoTo
<1> QED BY <1>3, <1>4, <1>5, <1>6, <1>7, <1>8, <1>9, <1>10, <1>11

(* The request loads, is received, or begins to delete. *)
Advances(p) ==
    \/ Receive(p) \/ LoadForPatch(p) \/ LoadForFindings(p) \/ LoadForRun(p)
    \/ WriteRun(p) \/ LoadAgain(p) \/ LoadRun(p) \/ BeginDelete(p)

Ends(p) ==
    \/ NotFound(p) \/ Conflict(p) \/ MoveFails(p) \/ WriteFails(p) \/ NothingToDelete(p)
    \/ DirectoryGone(p) \/ DeleteFails(p)

LEMMA EndsTyped ==
    ASSUME TypeOK, NEW p \in Requests, Ends(p) \/ RemoveDirectory(p) \/ Unlink(p)
    PROVE  TypeOK'
<1> USE DEF disk, server, deletion
<1>1. CASE NotFound(p) \/ Conflict(p) \/ MoveFails(p) \/ NothingToDelete(p)
  <2>1. UNCHANGED <<disk, server, deletion, raced, faults>> /\ (Answer(p, "error") \/ Answer(p, "conflict"))
    BY <1>1 DEF NotFound, Conflict, MoveFails, NothingToDelete
  <2> QED BY <2>1, AnswerTyped DEF TypeOK, Positions
<1>2. CASE WriteFails(p) \/ DirectoryGone(p) \/ DeleteFails(p)
  <2>1. faults' \in 0..MaxFaults
    BY <1>2, Numbers, Counted DEF WriteFails, DirectoryGone, DeleteFails, TypeOK
  <2>2. UNCHANGED <<disk, server, doomed, late, raced>> /\ Answer(p, "error")
    BY <1>2 DEF WriteFails, DirectoryGone, DeleteFails
  <2>3. crossed' \subseteq Requests
    BY <1>2 DEF WriteFails, DirectoryGone, DeleteFails, Cross, Deleting, TypeOK
  <2> QED BY <2>1, <2>2, <2>3, AnswerTyped DEF TypeOK, Positions
<1>3. CASE RemoveDirectory(p)
  <2>1. Answer(p, "ok")
    BY <1>3 DEF RemoveDirectory
  <2>2. late' \in BOOLEAN /\ crossed' \subseteq Requests /\ dir' \in BOOLEAN
    BY <1>3 DEF RemoveDirectory, TypeOK
  <2> QED BY <1>3, <2>1, <2>2, AnswerTyped DEF TypeOK, Positions, RemoveDirectory
<1>4. CASE Unlink(p)
  <2>1. file' \in [Paths -> Inodes \cup {0}] /\ tmp' \in [Paths -> Inodes \cup {0}]
        /\ runs' \subseteq Requests
    BY <1>4 DEF TypeOK, Unlink
  <2> QED BY <1>4, <2>1 DEF TypeOK, Unlink, request
<1> QED BY <1>1, <1>2, <1>3, <1>4 DEF Ends

LEMMA WritesTyped ==
    ASSUME TypeOK, InodesOK, NEW p \in Requests, CreateTmp(p) \/ FillTmp(p) \/ MoveTmp(p)
    PROVE  TypeOK'
<1> USE DEF server, deletion
<1>1. target[p] \in Paths /\ fd[p] \in Inodes \cup {0}
  BY DEF TypeOK
<1>2. CASE CreateTmp(p)
  <2>1. PICK i \in Inodes : /\ tmp' = [tmp EXCEPT ![target[p]] = i]
                            /\ content' = [content EXCEPT ![i] = Blank]
                            /\ fd' = [fd EXCEPT ![p] = i]
    BY <1>2 DEF CreateTmp
  <2> QED BY <1>1, <1>2, <2>1, BlankTyped DEF TypeOK, CreateTmp, GoTo, Cross, Deleting
<1>3. CASE FillTmp(p)
  <2>1. content' \in [Inodes -> Documents]
    BY <1>3, PayloadTyped, BlankTyped DEF TypeOK, FillTmp
  <2> QED BY <1>3, <2>1 DEF TypeOK, FillTmp, GoTo
<1>4. CASE MoveTmp(p)
  <2>1. file' \in [Paths -> Inodes \cup {0}] /\ tmp' \in [Paths -> Inodes \cup {0}]
    BY <1>1, <1>4 DEF TypeOK, MoveTmp
  <2>2. CASE Answer(p, "ok")
    BY <1>4, <2>1, <2>2, AnswerTyped DEF TypeOK, MoveTmp, Positions, Cross, Deleting
  <2>3. CASE GoTo(p, "check") /\ fd' = [fd EXCEPT ![p] = 0] /\ UNCHANGED <<kind, target, base, expected, result>>
    BY <1>4, <2>1, <2>3 DEF TypeOK, MoveTmp, GoTo, Cross, Deleting
  <2> QED BY <1>4, <2>2, <2>3 DEF MoveTmp
<1> QED BY <1>2, <1>3, <1>4

LEMMA ServerTyped ==
    ASSUME TypeOK, Crash \/ Recover \/ RecoverFails
    PROVE  TypeOK'
<1> USE DEF disk, request, server, deletion
<1>1. CASE Crash
  <2>1. life' \in 1..(MaxCrashes + 1)
    BY <1>1, Numbers DEF TypeOK, Crash
  <2>2. /\ base' \in [Requests -> Documents] /\ expected' \in [Requests -> 0..NumRequests]
        /\ target' \in [Requests -> Paths] /\ fd' \in [Requests -> Inodes \cup {0}]
        /\ stage' \in [Requests -> Positions]
    BY <1>1, BlankTyped, Numbers DEF Crash, Paths, Positions
  <2> QED BY <1>1, <2>1, <2>2 DEF TypeOK, Crash, Positions
<1>2. CASE Recover
  <2>1. CASE Readable("run.json") /\ At("run.json").status = "RUNNING"
    <3>1. "run.json" \in Paths
      BY DEF Paths
    <3>2. file["run.json"] \in Inodes /\ content[file["run.json"]] \in Documents
      BY <2>1, <3>1, AtTyped DEF At
    <3>3. [content[file["run.json"]] EXCEPT !.status = "FAILED"] \in Documents
      BY <3>2, FailedTyped
    <3>4. /\ content' = [content EXCEPT ![file["run.json"]].status = "FAILED"]
          /\ tmp' = [tmp EXCEPT !["run.json"] = 0]
      BY <1>2, <2>1 DEF Recover
    <3>5. content' = [content EXCEPT ![file["run.json"]] = [content[file["run.json"]] EXCEPT !.status = "FAILED"]]
      BY <3>4
    <3>6. content' \in [Inodes -> Documents]
      BY <3>2, <3>3, <3>5 DEF TypeOK
    <3>7. tmp' \in [Paths -> Inodes \cup {0}]
      BY <3>1, <3>4 DEF TypeOK
    <3> QED BY <1>2, <3>6, <3>7 DEF TypeOK, Recover
  <2>2. CASE ~(Readable("run.json") /\ At("run.json").status = "RUNNING")
    BY <1>2, <2>2 DEF TypeOK, Recover
  <2> QED BY <2>1, <2>2
<1>3. CASE RecoverFails
  <2>1. faults' \in 0..MaxFaults
    BY <1>3, Numbers, Counted DEF RecoverFails, TypeOK
  <2> QED BY <1>3, <2>1 DEF TypeOK, RecoverFails
<1> QED BY <1>1, <1>2, <1>3
------------------------------------------------------------------------------
(* What a request's step does to the others, and to itself *)

Others(p) ==
    \A q \in Requests \ {p} :
        /\ stage'[q] = stage[q] /\ kind'[q] = kind[q] /\ target'[q] = target[q]
        /\ base'[q] = base[q] /\ expected'[q] = expected[q] /\ fd'[q] = fd[q]
        /\ result'[q] = result[q]

LEMMA AnswerDoes ==
    ASSUME TypeOK, NEW p \in Requests, NEW answer, Answer(p, answer)
    PROVE  /\ Others(p)
           /\ stage'[p] = "done" /\ kind'[p] = kind[p] /\ target'[p] = "job.json" /\ fd'[p] = 0
           /\ result'[p] = answer
  BY DEF TypeOK, Answer, GoTo, Others

LEMMA GoToDoes ==
    ASSUME TypeOK, NEW p \in Requests, NEW position, GoTo(p, position)
    PROVE  /\ stage'[p] = position
           /\ \A q \in Requests \ {p} : stage'[q] = stage[q]
  BY DEF TypeOK, GoTo

LEMMA AboutToWriteDoes ==
    ASSUME TypeOK, NEW p \in Requests, NEW path \in Paths, AboutToWrite(p, path)
    PROVE  /\ stage'[p] = "create" /\ target'[p] = path
           /\ \A q \in Requests \ {p} : stage'[q] = stage[q] /\ target'[q] = target[q]
           /\ raced \subseteq raced'
           /\ path \in raced' \/ Writing(path) = {}
  BY DEF TypeOK, AboutToWrite

LEMMA EndsDoes ==
    ASSUME TypeOK, NEW p \in Requests, Ends(p)
    PROVE  /\ UNCHANGED <<disk, server, doomed, late, raced>>
           /\ Others(p)
           /\ stage'[p] = "done" /\ kind'[p] = kind[p] /\ target'[p] = "job.json" /\ fd'[p] = 0
           /\ result'[p] \in {"conflict", "error"}
           /\ AtWork(p)
           /\ faults \in Nat /\ (faults' = 0 => faults = 0)
<1>1. faults \in Nat
  BY JobsAssumption DEF TypeOK
<1>2. Answer(p, "error") \/ Answer(p, "conflict")
  BY DEF deletion, Ends, NotFound, Conflict, MoveFails, WriteFails, NothingToDelete, DirectoryGone, DeleteFails
<1>3. UNCHANGED <<disk, server, doomed, late, raced>> /\ AtWork(p)
  BY DEF deletion, Ends, NotFound, Conflict, MoveFails, WriteFails, NothingToDelete, DirectoryGone, DeleteFails, AtWork
<1>4. faults' = faults \/ faults' = faults + 1
  BY DEF deletion, Ends, NotFound, Conflict, MoveFails, WriteFails, NothingToDelete, DirectoryGone, DeleteFails
<1> QED BY <1>1, <1>2, <1>3, <1>4, AnswerDoes

LEMMA AdvancesDoes ==
    ASSUME TypeOK, NEW p \in Requests, Advances(p)
    PROVE  /\ UNCHANGED <<file, tmp, content, server, late, faults>> /\ raced \subseteq raced'
           /\ Others(p)
           /\ ~Open(p)' /\ AtWork(p)' /\ fd'[p] = fd[p] /\ result'[p] = result[p]
           /\ ~SavesJob(p)'
           /\ doomed => doomed'
           /\ ~BeginDelete(p) => doomed' = doomed
           /\ (AtWork(p) \/ stage[p] = "new")
<1> USE DEF disk, server, deletion
<1>1. "run.json" \in Paths /\ "findings.json" \in Paths
  BY DEF Paths
<1>2. CASE Receive(p)
  <2>1. PICK k \in May[p] : /\ kind' = [kind EXCEPT ![p] = k]
                            /\ GoTo(p, IF k = "delete" THEN "delete" ELSE "load")
    BY <1>2 DEF Receive
  <2>2. stage'[p] \in {"load", "delete"}
    BY <2>1, GoToDoes
  <2> QED BY <1>2, <2>1, <2>2, GoToDoes DEF TypeOK, Receive, Others, Open, AtWork, SavesJob, Writing
<1>3. CASE LoadForPatch(p)
  BY <1>3, GoToDoes DEF TypeOK, LoadForPatch, Others, Open, AtWork, SavesJob, Writing
<1>4. CASE LoadForFindings(p)
  BY <1>1, <1>4, AboutToWriteDoes DEF TypeOK, LoadForFindings, Others, Open, AtWork, SavesJob, Writing
<1>5. CASE LoadForRun(p)
  BY <1>5, GoToDoes DEF TypeOK, LoadForRun, Others, Open, AtWork, SavesJob, Writing
<1>6. CASE WriteRun(p)
  BY <1>6, GoToDoes DEF TypeOK, WriteRun, Others, Open, AtWork, SavesJob, Writing
<1>7. CASE LoadAgain(p)
  BY <1>7, GoToDoes DEF TypeOK, LoadAgain, Others, Open, AtWork, SavesJob, Writing
<1>8. CASE LoadRun(p)
  BY <1>1, <1>8, AboutToWriteDoes DEF TypeOK, LoadRun, Others, Open, AtWork, SavesJob, Writing
<1>9. CASE BeginDelete(p)
  <2>1. stage[p] = "delete" /\ stage'[p] = "unlink" /\ \A q \in Requests \ {p} : stage'[q] = stage[q]
    BY <1>9, GoToDoes DEF BeginDelete
  <2>2. /\ UNCHANGED <<file, tmp, content, server, late, raced, faults>> /\ doomed'
        /\ UNCHANGED <<kind, target, base, expected, fd, result>>
    BY <1>9 DEF BeginDelete
  <2> QED BY <1>9, <2>1, <2>2 DEF Others, Open, AtWork, SavesJob, Writing
<1> QED BY <1>2, <1>3, <1>4, <1>5, <1>6, <1>7, <1>8, <1>9 DEF Advances

LEMMA CheckDoes ==
    ASSUME TypeOK, NEW p \in Requests, CheckRevision(p)
    PROVE  /\ UNCHANGED <<file, tmp, content, server, doomed, late, faults>> /\ raced \subseteq raced'
           /\ Others(p)
           /\ stage[p] = "check" /\ stage'[p] = "create" /\ target'[p] = "job.json"
           /\ kind'[p] = kind[p] /\ base'[p] = base[p] /\ expected'[p] = expected[p]
           /\ fd'[p] = fd[p] /\ result'[p] = result[p]
           /\ "job.json" \in raced' \/ Writing("job.json") = {}
           /\ Readable("job.json") /\ At("job.json").rev = expected[p]
<1>1. "job.json" \in Paths
  BY DEF Paths
<1>2. AboutToWrite(p, "job.json") /\ stage[p] = "check"
  BY DEF CheckRevision
<1> QED BY <1>1, <1>2, AboutToWriteDoes DEF CheckRevision, Others, disk, server, deletion

LEMMA CreateDoes ==
    ASSUME TypeOK, NEW p \in Requests, CreateTmp(p)
    PROVE  /\ UNCHANGED <<file, server, doomed, late, raced, faults>>
           /\ Others(p)
           /\ stage[p] = "create" /\ stage'[p] = "fill" /\ target'[p] = target[p]
           /\ kind'[p] = kind[p] /\ base'[p] = base[p] /\ expected'[p] = expected[p]
           /\ result'[p] = result[p]
           /\ \E i \in Inodes :
                /\ IF tmp[target[p]] = 0 THEN i \notin Used ELSE i = tmp[target[p]]
                /\ fd'[p] = i /\ tmp'[target[p]] = i
                /\ \A a \in Paths : a # target[p] => tmp'[a] = tmp[a]
                /\ content'[i] = Blank
                /\ \A j \in Inodes : j # i => content'[j] = content[j]
<1>1. PICK i \in Inodes : /\ IF tmp[target[p]] = 0 THEN IsFresh(i) ELSE i = tmp[target[p]]
                          /\ tmp' = [tmp EXCEPT ![target[p]] = i]
                          /\ content' = [content EXCEPT ![i] = Blank]
                          /\ fd' = [fd EXCEPT ![p] = i]
  BY DEF CreateTmp
<1>2. target[p] \in Paths
  BY DEF TypeOK
<1>3. IF tmp[target[p]] = 0 THEN i \notin Used ELSE i = tmp[target[p]]
  BY <1>1 DEF IsFresh
<1>4. /\ fd'[p] = i /\ tmp'[target[p]] = i
      /\ \A a \in Paths : a # target[p] => tmp'[a] = tmp[a]
      /\ content'[i] = Blank
      /\ \A j \in Inodes : j # i => content'[j] = content[j]
  BY <1>1, <1>2 DEF TypeOK
<1>5. Others(p) /\ stage[p] = "create" /\ stage'[p] = "fill"
  BY <1>1, GoToDoes DEF TypeOK, CreateTmp, Others
<1> QED BY <1>3, <1>4, <1>5 DEF CreateTmp, server

LEMMA FillDoes ==
    ASSUME TypeOK, InodesOK, NEW p \in Requests, FillTmp(p)
    PROVE  /\ UNCHANGED <<file, tmp, server, doomed, late, raced, faults>>
           /\ Others(p)
           /\ stage[p] = "fill" /\ stage'[p] = "move" /\ target'[p] = target[p]
           /\ kind'[p] = kind[p] /\ base'[p] = base[p] /\ expected'[p] = expected[p]
           /\ fd'[p] = fd[p] /\ result'[p] = result[p] /\ fd[p] \in Inodes
           /\ \/ content'[fd[p]] = Payload(p)
              \/ content[fd[p]].state # "empty" /\ content'[fd[p]] = [Blank EXCEPT !.state = "torn"]
           /\ \A j \in Inodes : j # fd[p] => content'[j] = content[j]
<1>1. fd[p] \in Inodes
  BY DEF TypeOK, InodesOK, Open, FillTmp
<1> QED BY <1>1, GoToDoes DEF TypeOK, FillTmp, Others, server, deletion

LEMMA MoveDoes ==
    ASSUME TypeOK, NEW p \in Requests, MoveTmp(p)
    PROVE  /\ UNCHANGED <<content, server, doomed, late, raced, faults>>
           /\ Others(p)
           /\ stage[p] = "move" /\ tmp[target[p]] # 0 /\ kind'[p] = kind[p] /\ fd'[p] = 0
           /\ file'[target[p]] = tmp[target[p]] /\ tmp'[target[p]] = 0
           /\ \A a \in Paths : a # target[p] => file'[a] = file[a] /\ tmp'[a] = tmp[a]
           /\ IF target[p] = "findings.json"
              THEN /\ stage'[p] = "check" /\ base'[p] = base[p] /\ expected'[p] = expected[p]
                   /\ result'[p] = result[p] /\ target'[p] = target[p]
              ELSE stage'[p] = "done" /\ target'[p] = "job.json" /\ result'[p] = "ok"
<1>1. target[p] \in Paths
  BY DEF TypeOK
<1>2. /\ file'[target[p]] = tmp[target[p]] /\ tmp'[target[p]] = 0
      /\ \A a \in Paths : a # target[p] => file'[a] = file[a] /\ tmp'[a] = tmp[a]
  BY <1>1 DEF TypeOK, MoveTmp
<1>3. CASE target[p] = "findings.json"
  BY <1>2, <1>3, GoToDoes DEF TypeOK, MoveTmp, Others, server
<1>4. CASE target[p] # "findings.json"
  BY <1>2, <1>4, AnswerDoes DEF MoveTmp, server
<1> QED BY <1>3, <1>4

LEMMA UnlinkDoes ==
    ASSUME TypeOK, NEW p \in Requests, Unlink(p)
    PROVE  /\ UNCHANGED <<content, request, server, doomed, late, raced, faults>>
           /\ Others(p)
           /\ stage[p] = "unlink"
           /\ \A a \in Paths : file'[a] \in {file[a], 0} /\ tmp'[a] \in {tmp[a], 0}
<1>1. UNCHANGED <<content, request, server, doomed, late, raced, faults>> /\ stage[p] = "unlink"
  BY DEF Unlink, deletion
<1>2. \A a \in Paths : file'[a] \in {file[a], 0} /\ tmp'[a] \in {tmp[a], 0}
  BY DEF TypeOK, Unlink
<1> QED BY <1>1, <1>2 DEF Others, request

LEMMA RemoveDoes ==
    ASSUME TypeOK, NEW p \in Requests, RemoveDirectory(p)
    PROVE  /\ UNCHANGED <<file, tmp, content, server, doomed, raced, faults>>
           /\ Others(p)
           /\ stage[p] = "unlink" /\ stage'[p] = "done" /\ kind'[p] = kind[p]
           /\ target'[p] = "job.json" /\ fd'[p] = 0 /\ result'[p] = "ok"
           /\ \A a \in Paths : file[a] = 0 /\ tmp[a] = 0
           /\ late => late'
           /\ late' \/ \A q \in Writing("job.json") : stage[q] # "create"
<1>1. Answer(p, "ok") /\ stage[p] = "unlink"
  BY DEF RemoveDirectory
<1> QED BY <1>1, AnswerDoes DEF RemoveDirectory, server

LEMMA OthersSame ==
    ASSUME TypeOK, NEW p \in Requests, Others(p), NEW q \in Requests, q # p
    PROVE  /\ AtWork(q)' <=> AtWork(q)
           /\ Open(q)' <=> Open(q)
           /\ ChangesJob(q)' <=> ChangesJob(q)
           /\ Holding(q)' <=> Holding(q)
           /\ SavesJob(q)' <=> SavesJob(q)
           /\ \A path \in Paths : (q \in Writing(path))' <=> q \in Writing(path)
           /\ Payload(q)' = Payload(q)
<1>1. /\ stage'[q] = stage[q] /\ kind'[q] = kind[q] /\ target'[q] = target[q] /\ base'[q] = base[q]
  BY DEF Others
<1>2. \A path \in Paths : (q \in Writing(path))' <=> q \in Writing(path)
  BY <1>1 DEF Writing
<1>3. SavesJob(q)' <=> SavesJob(q)
  BY <1>1 DEF SavesJob, Writing
<1>4. ChangesJob(q)' <=> ChangesJob(q)
  BY <1>1 DEF ChangesJob
<1> QED BY <1>1, <1>2, <1>3, <1>4 DEF AtWork, Open, Holding, Payload

Handles(p) ==
    \/ Advances(p) \/ Ends(p) \/ CheckRevision(p)
    \/ CreateTmp(p) \/ FillTmp(p) \/ MoveTmp(p) \/ Unlink(p) \/ RemoveDirectory(p)

LEMMA HandleParts == \A p \in Requests : Handle(p) => Handles(p)
  BY DEF Handle, Handles, Advances, Ends
------------------------------------------------------------------------------
(* What lasts: an answer, an end, a meeting of writers, a deletion *)

LEMMA StageParts ==
    ASSUME StageOK, NEW p \in Requests
    PROVE  /\ ~AtWork(p) => target[p] = "job.json" /\ fd[p] = 0
           /\ stage[p] # "done" => result[p] = "none"
           /\ stage[p] \in {"create", "fill", "move"} =>
                /\ target[p] \in {"job.json", "findings.json"} => ChangesJob(p)
                /\ target[p] = "run.json" => kind[p] = "run_status"
           /\ stage[p] \in {"delete", "unlink"} => kind[p] = "delete"
           /\ stage[p] = "unlink" => doomed
           /\ AtWork(p) => up
<1>1. stage[p] \in {"create", "fill", "move"} => p \in Writing(target[p])
  BY DEF Writing
<1> QED BY <1>1 DEF StageOK

LEMMA Persist ==
    ASSUME TypeOK, StageOK, NEW p \in Requests, Handles(p)
    PROVE  /\ stage[p] # "done" /\ result[p] = "none"
           /\ \A q \in Requests : stage[q] = "done" => stage'[q] = "done"
           /\ \A q \in Requests : result[q] = "ok" => result'[q] = "ok"
           /\ raced \subseteq raced'
           /\ doomed => doomed'
           /\ late => late'
           /\ ~doomed => ~Unlink(p) /\ ~RemoveDirectory(p)
           /\ UNCHANGED server
           /\ Others(p)
           /\ Deleted => Deleted'
           /\ Deleted' => Deleted \/ RemoveDirectory(p)
<1>1. /\ Others(p) /\ UNCHANGED server /\ raced \subseteq raced' /\ stage[p] # "done"
      /\ doomed => doomed'
      /\ late => late'
  <2>1. CASE Advances(p)
    BY <2>1, AdvancesDoes DEF AtWork
  <2>2. CASE Ends(p)
    BY <2>2, EndsDoes DEF AtWork
  <2>3. CASE CheckRevision(p)
    BY <2>3, CheckDoes
  <2>4. CASE CreateTmp(p)
    BY <2>4, CreateDoes
  <2>5. CASE FillTmp(p)
    BY <2>5, GoToDoes DEF TypeOK, FillTmp, Others, deletion
  <2>6. CASE MoveTmp(p)
    BY <2>6, MoveDoes
  <2>7. CASE Unlink(p) \/ RemoveDirectory(p)
    BY <2>7, UnlinkDoes, RemoveDoes
  <2> QED BY <2>1, <2>2, <2>3, <2>4, <2>5, <2>6, <2>7 DEF Handles
<1>2. result[p] = "none"
  BY <1>1, StageParts
<1>3. /\ \A q \in Requests : stage[q] = "done" => stage'[q] = "done"
      /\ \A q \in Requests : result[q] = "ok" => result'[q] = "ok"
  BY <1>1, <1>2 DEF Others
<1>4. Deleted => Deleted'
  BY <1>1, <1>2 DEF Others, Deleted
<1>5. (kind'[p] = "delete" /\ result'[p] = "ok") => RemoveDirectory(p)
  <2>1. CASE Advances(p)
    BY <2>1, <1>2, AdvancesDoes
  <2>2. CASE Ends(p)
    BY <2>2, EndsDoes
  <2>3. CASE CheckRevision(p)
    BY <2>3, <1>2, CheckDoes
  <2>4. CASE CreateTmp(p)
    BY <2>4, <1>2, CreateDoes
  <2>5. CASE FillTmp(p)
    BY <2>5, <1>2 DEF FillTmp
  <2>6. CASE MoveTmp(p)
    <3>1. target[p] \in Paths /\ stage[p] = "move" /\ kind'[p] = kind[p]
      BY <2>6, MoveDoes DEF TypeOK
    <3> QED BY <3>1, StageParts DEF Paths, ChangesJob
  <2>7. CASE Unlink(p)
    BY <2>7, <1>2, UnlinkDoes DEF request
  <2> QED BY <2>1, <2>2, <2>3, <2>4, <2>5, <2>6, <2>7 DEF Handles
<1>6. Deleted' => Deleted \/ RemoveDirectory(p)
  BY <1>1, <1>5 DEF Others, Deleted
<1>7. ~doomed => ~Unlink(p) /\ ~RemoveDirectory(p)
  BY StageParts DEF Unlink, RemoveDirectory
<1> QED BY <1>1, <1>2, <1>3, <1>4, <1>6, <1>7

(* Before central serves nobody is at work. *)
LEMMA Idle ==
    ASSUME StageOK, ~up, NEW p \in Requests
    PROVE  /\ ~Open(p) /\ ~Holding(p) /\ ~SavesJob(p)
           /\ \A path \in Paths : p \notin Writing(path)
<1>1. stage[p] \in {"new", "done"}
  BY StageParts DEF AtWork
<1> QED BY <1>1 DEF Open, Holding, SavesJob, Writing

LEMMA Crashed ==
    ASSUME TypeOK, Crash, NEW p \in Requests
    PROVE  /\ ~Open(p)' /\ ~Holding(p)' /\ ~SavesJob(p)' /\ ~AtWork(p)'
           /\ \A path \in Paths : (p \notin Writing(path))'
<1>1. stage'[p] \in {"new", "done"}
  BY DEF TypeOK, Crash
<1> QED BY <1>1 DEF Open, Holding, SavesJob, Writing, AtWork
------------------------------------------------------------------------------
(* Who writes what *)

StageFits(p) ==
    /\ ~AtWork(p) => target[p] = "job.json" /\ fd[p] = 0
    /\ stage[p] = "new" => kind[p] = "none"
    /\ stage[p] # "done" => result[p] = "none"
    /\ stage[p] \in {"run", "reload", "check"} => ChangesJob(p)
    /\ stage[p] \in {"create", "fill", "move"} =>
        /\ target[p] \in {"job.json", "findings.json"} => ChangesJob(p)
        /\ target[p] = "run.json" => kind[p] = "run_status"
    /\ stage[p] \in {"delete", "unlink"} => kind[p] = "delete"
    /\ stage[p] = "unlink" => doomed
    /\ AtWork(p) => up

LEMMA StageIsFits == StageOK <=> \A p \in Requests : StageFits(p)
<1> USE DEF Writing, StageFits
<1> QED BY DEF StageOK

LEMMA StageKept ==
    ASSUME TypeOK, StageOK, NEW p \in Requests, Others(p), UNCHANGED server, doomed => doomed',
           StageFits(p)'
    PROVE  StageOK'
<1>1. \A q \in Requests \ {p} : StageFits(q)'
  <2> TAKE q \in Requests \ {p}
  <2>1. StageFits(q)
    BY StageIsFits
  <2> QED BY <2>1 DEF Others, StageFits, AtWork, ChangesJob, server
<1> QED BY <1>1 DEF StageOK, StageFits, Writing

LEMMA AdvancesFits ==
    ASSUME TypeOK, StageOK, NEW p \in Requests, Advances(p)
    PROVE  StageFits(p)'
<1>1. StageFits(p)
  BY StageIsFits
<1>2. "run.json" \in Paths /\ "findings.json" \in Paths /\ stage'[p] \notin {"new", "done"}
      /\ result'[p] = result[p] /\ up' = up
  BY AdvancesDoes DEF Paths, AtWork, server
<1>3. stage[p] # "done" /\ (AtWork(p) => up)
  BY <1>1, AdvancesDoes DEF AtWork, StageFits
<1>4. CASE Receive(p)
  <2>1. PICK k \in May[p] : /\ kind' = [kind EXCEPT ![p] = k]
                            /\ GoTo(p, IF k = "delete" THEN "delete" ELSE "load")
    BY <1>4 DEF Receive
  <2>2. kind'[p] = k /\ stage'[p] = IF k = "delete" THEN "delete" ELSE "load"
    BY <2>1, GoToDoes DEF TypeOK
  <2> QED BY <1>1, <1>2, <1>3, <1>4, <2>2 DEF StageFits, AtWork, ChangesJob, Receive
<1>5. CASE LoadForPatch(p)
  BY <1>1, <1>2, <1>3, <1>5, GoToDoes DEF LoadForPatch, StageFits, AtWork, ChangesJob
<1>6. CASE LoadForFindings(p)
  BY <1>1, <1>2, <1>3, <1>6, AboutToWriteDoes DEF LoadForFindings, StageFits, AtWork, ChangesJob
<1>7. CASE LoadForRun(p)
  BY <1>1, <1>2, <1>3, <1>7, GoToDoes DEF LoadForRun, StageFits, AtWork, ChangesJob
<1>8. CASE WriteRun(p)
  BY <1>1, <1>2, <1>3, <1>8, GoToDoes DEF WriteRun, StageFits, AtWork, ChangesJob
<1>9. CASE LoadAgain(p)
  BY <1>1, <1>2, <1>3, <1>9, GoToDoes DEF LoadAgain, StageFits, AtWork, ChangesJob
<1>10. CASE LoadRun(p)
  BY <1>1, <1>2, <1>3, <1>10, AboutToWriteDoes DEF LoadRun, StageFits, AtWork, ChangesJob
<1>11. CASE BeginDelete(p)
  BY <1>1, <1>2, <1>3, <1>11, GoToDoes DEF BeginDelete, StageFits, AtWork, ChangesJob
<1> QED BY <1>4, <1>5, <1>6, <1>7, <1>8, <1>9, <1>10, <1>11 DEF Advances

LEMMA StageStep ==
    ASSUME TypeOK, StageOK, NEW p \in Requests, Handles(p)
    PROVE  StageOK'
<1>1. StageFits(p) /\ result[p] = "none" /\ Others(p) /\ UNCHANGED server
      /\ (doomed => doomed')
  BY Persist, StageIsFits
<1>2. CASE Advances(p)
  BY <1>1, <1>2, AdvancesFits, StageKept
<1>3. CASE Ends(p)
  <2>1. StageFits(p)'
    BY <1>1, <1>3, EndsDoes DEF StageFits, AtWork
  <2> QED BY <1>1, <2>1, StageKept
<1>4. CASE CheckRevision(p)
  <2>1. StageFits(p)'
    BY <1>1, <1>4, CheckDoes DEF StageFits, AtWork, ChangesJob, server
  <2> QED BY <1>1, <2>1, StageKept
<1>5. CASE CreateTmp(p)
  <2>1. StageFits(p)'
    BY <1>1, <1>5, CreateDoes DEF StageFits, AtWork, ChangesJob, server
  <2> QED BY <1>1, <2>1, StageKept
<1>6. CASE FillTmp(p)
  <2>1. /\ stage[p] = "fill" /\ stage'[p] = "move"
        /\ UNCHANGED <<kind, target, fd, result, up>>
    BY <1>6, GoToDoes DEF FillTmp, server
  <2>2. StageFits(p)'
    BY <1>1, <2>1 DEF StageFits, AtWork, ChangesJob
  <2> QED BY <1>1, <2>2, StageKept
<1>7. CASE MoveTmp(p)
  <2>1. StageFits(p)'
    BY <1>1, <1>7, MoveDoes DEF StageFits, AtWork, ChangesJob, server
  <2> QED BY <1>1, <2>1, StageKept
<1>8. CASE RemoveDirectory(p)
  <2>1. StageFits(p)'
    BY <1>1, <1>8, RemoveDoes DEF StageFits, AtWork
  <2> QED BY <1>1, <2>1, StageKept
<1>9. CASE Unlink(p)
  <2>1. StageFits(p)'
    BY <1>1, <1>9, UnlinkDoes DEF StageFits, AtWork, ChangesJob, request, server
  <2> QED BY <1>1, <2>1, StageKept
<1> QED BY <1>2, <1>3, <1>4, <1>5, <1>6, <1>7, <1>8, <1>9 DEF Handles

LEMMA StageCrash ==
    ASSUME TypeOK, StageOK, Crash
    PROVE  StageOK'
<1>1. \A p \in Requests : StageFits(p)'
  <2> TAKE p \in Requests
  <2>1. stage'[p] = (IF stage[p] = "new" THEN "new" ELSE "done") /\ target'[p] = "job.json"
        /\ fd'[p] = 0 /\ kind'[p] = kind[p] /\ result'[p] = result[p]
    BY DEF Crash, TypeOK
  <2>2. StageFits(p)
    BY StageIsFits
  <2> QED BY <2>1, <2>2 DEF StageFits, AtWork
<1> QED BY <1>1 DEF StageOK, StageFits, Writing

LEMMA StageRestart ==
    ASSUME TypeOK, StageOK, Recover \/ RecoverFails
    PROVE  StageOK'
<1>1. UNCHANGED <<request, doomed>> /\ up'
  BY DEF Recover, RecoverFails, deletion
<1>2. \A p \in Requests : StageFits(p)'
  <2> TAKE p \in Requests
  <2>1. StageFits(p)
    BY StageIsFits
  <2> QED BY <1>1, <2>1 DEF StageFits, AtWork, ChangesJob, request
<1> QED BY <1>2 DEF StageOK, StageFits, Writing
------------------------------------------------------------------------------
(* Files of their own *)

LEMMA InodesKept ==
    ASSUME TypeOK, InodesOK, UNCHANGED <<file, tmp>>,
           NEW p \in Requests, Others(p), ~Open(p)'
    PROVE  InodesOK'
<1>1. \A q \in Requests : Open(q)' =>
        Open(q) /\ fd'[q] = fd[q] /\ target'[q] = target[q]
  BY DEF Others, Open
<1> QED BY <1>1 DEF InodesOK

LEMMA InodesCreate ==
    ASSUME TypeOK, InodesOK, NEW p \in Requests, CreateTmp(p)
    PROVE  InodesOK'
<1> DEFINE t == target[p]
<1>1. t \in Paths
  BY DEF TypeOK
<1>2. PICK i \in Inodes :
        /\ IF tmp[t] = 0 THEN i \notin Used ELSE i = tmp[t]
        /\ fd'[p] = i /\ tmp'[t] = i
        /\ \A a \in Paths : a # t => tmp'[a] = tmp[a]
  BY CreateDoes
<1>3. i # 0
  BY DEF Inodes
<1>4. \A a \in Paths : i # file[a] /\ (a # t => i # tmp[a])
  BY <1>1, <1>2, <1>3 DEF InodesOK, Used
<1>5. \A q \in Requests : (Open(q) /\ target[q] # t) => i # fd[q]
  BY <1>1, <1>2 DEF InodesOK, Used
<1>6. UNCHANGED file /\ target'[p] = t /\ Open(p)'
  BY CreateDoes DEF Open
<1>7. \A q \in Requests \ {p} :
        (Open(q)' <=> Open(q)) /\ fd'[q] = fd[q] /\ target'[q] = target[q]
  BY CreateDoes DEF Others, Open
<1> HIDE DEF t
<1>8. (\A a, b \in Paths :
        /\ (a # b /\ file[a] # 0) => file[a] # file[b]
        /\ (a # b /\ tmp[a] # 0) => tmp[a] # tmp[b]
        /\ file[a] # 0 => file[a] # tmp[b])'
  BY <1>2, <1>4, <1>6 DEF InodesOK
<1>9. (\A q \in Requests : Open(q) =>
        /\ fd[q] # 0
        /\ \A a \in Paths : a # target[q] => fd[q] # file[a] /\ fd[q] # tmp[a])'
  BY <1>1, <1>2, <1>3, <1>4, <1>5, <1>6, <1>7 DEF InodesOK
<1>10. (\A q, r \in Requests :
        (Open(q) /\ Open(r) /\ target[q] # target[r]) => fd[q] # fd[r])'
  BY <1>2, <1>5, <1>6, <1>7 DEF InodesOK
<1> QED BY <1>8, <1>9, <1>10 DEF InodesOK

LEMMA InodesFill ==
    ASSUME TypeOK, InodesOK, NEW p \in Requests, FillTmp(p)
    PROVE  InodesOK'
<1>1. UNCHANGED <<file, tmp>>
  BY FillDoes
<1>2. \A q \in Requests : (Open(q)' <=> Open(q)) /\ fd'[q] = fd[q] /\ target'[q] = target[q]
  BY FillDoes DEF Open, Others
<1> QED BY <1>1, <1>2 DEF InodesOK

LEMMA InodesMove ==
    ASSUME TypeOK, InodesOK, NEW p \in Requests, MoveTmp(p)
    PROVE  InodesOK'
<1> DEFINE t == target[p]
<1>1. t \in Paths
  BY DEF TypeOK
<1>2. /\ tmp[t] # 0 /\ file'[t] = tmp[t] /\ tmp'[t] = 0
      /\ \A a \in Paths : a # t => file'[a] = file[a] /\ tmp'[a] = tmp[a]
      /\ ~Open(p)'
  BY MoveDoes DEF Open
<1>3. \A q \in Requests \ {p} :
        (Open(q)' <=> Open(q)) /\ fd'[q] = fd[q] /\ target'[q] = target[q]
  BY MoveDoes DEF Others, Open
<1> HIDE DEF t
<1>4. (\A a, b \in Paths :
        /\ (a # b /\ file[a] # 0) => file[a] # file[b]
        /\ (a # b /\ tmp[a] # 0) => tmp[a] # tmp[b]
        /\ file[a] # 0 => file[a] # tmp[b])'
  BY <1>1, <1>2 DEF InodesOK
<1>5. (\A q \in Requests : Open(q) =>
        /\ fd[q] # 0
        /\ \A a \in Paths : a # target[q] => fd[q] # file[a] /\ fd[q] # tmp[a])'
  BY <1>1, <1>2, <1>3 DEF InodesOK
<1>6. (\A q, r \in Requests :
        (Open(q) /\ Open(r) /\ target[q] # target[r]) => fd[q] # fd[r])'
  BY <1>2, <1>3 DEF InodesOK
<1> QED BY <1>4, <1>5, <1>6 DEF InodesOK

LEMMA InodesUnlink ==
    ASSUME TypeOK, InodesOK, NEW p \in Requests, Unlink(p)
    PROVE  InodesOK'
<1>1. UNCHANGED <<stage, target, fd>>
      /\ \A a \in Paths : file'[a] \in {file[a], 0} /\ tmp'[a] \in {tmp[a], 0}
  BY UnlinkDoes DEF request
<1>2. \A q \in Requests : (Open(q)' <=> Open(q)) /\ fd'[q] = fd[q] /\ target'[q] = target[q]
  BY <1>1 DEF Open
<1>3. (\A a, b \in Paths :
        /\ (a # b /\ file[a] # 0) => file[a] # file[b]
        /\ (a # b /\ tmp[a] # 0) => tmp[a] # tmp[b]
        /\ file[a] # 0 => file[a] # tmp[b])'
  BY <1>1 DEF InodesOK
<1>4. (\A q \in Requests : Open(q) =>
        /\ fd[q] # 0
        /\ \A a \in Paths : a # target[q] => fd[q] # file[a] /\ fd[q] # tmp[a])'
  BY <1>1, <1>2 DEF InodesOK
<1> QED BY <1>2, <1>3, <1>4 DEF InodesOK

LEMMA InodesStep ==
    ASSUME TypeOK, InodesOK, NEW p \in Requests, Handles(p)
    PROVE  InodesOK'
<1>1. CASE Advances(p)
  BY <1>1, AdvancesDoes, InodesKept
<1>2. CASE Ends(p)
  BY <1>2, EndsDoes, InodesKept DEF Open, disk
<1>3. CASE CheckRevision(p)
  BY <1>3, CheckDoes, InodesKept DEF Open
<1>4. CASE RemoveDirectory(p)
  BY <1>4, RemoveDoes, InodesKept DEF Open
<1> QED BY <1>1, <1>2, <1>3, <1>4, InodesCreate, InodesFill, InodesMove, InodesUnlink DEF Handles

(* Nobody at work, and no name but perhaps the temporary one of the run is *)
(* taken away.                                                             *)
LEMMA InodesIdle ==
    ASSUME TypeOK, InodesOK, UNCHANGED file, tmp' \in {tmp, [tmp EXCEPT !["run.json"] = 0]},
           \A p \in Requests : ~Open(p)'
    PROVE  InodesOK'
<1>1. \A a \in Paths : tmp'[a] \in {tmp[a], 0}
  BY DEF TypeOK
<1> QED BY <1>1 DEF InodesOK
------------------------------------------------------------------------------
(* One at a time past the check of job.json *)

(* Neither the open file of a writer of job.json nor what it holds is      *)
(* touched by a request that writes another path.                          *)
LEMMA LoneKept ==
    ASSUME TypeOK, InodesOK, LoneOK, NEW p \in Requests, Others(p), raced \subseteq raced',
           ~SavesJob(p)', file'["job.json"] \in {file["job.json"], 0},
           tmp'["job.json"] \in {tmp["job.json"], 0},
           \A q \in Requests \ {p} :
                (SavesJob(q) /\ Open(q)) => content'[fd[q]] = content[fd[q]]
    PROVE  LoneOK'
<1> SUFFICES ASSUME Unraced' PROVE LoneOK'
  BY DEF LoneOK
<1>1. Unraced
  BY DEF Unraced
<1>2. \A q \in Requests \ {p} :
        /\ stage'[q] = stage[q] /\ fd'[q] = fd[q] /\ Payload(q)' = Payload(q)
        /\ (SavesJob(q)' <=> SavesJob(q)) /\ (Open(q)' <=> Open(q))
  BY OthersSame DEF Others
<1>3. (\A q, r \in Requests : (SavesJob(q) /\ SavesJob(r)) => q = r)'
  BY <1>1, <1>2 DEF LoneOK
<1>4. (\A q \in Requests : (SavesJob(q) /\ Open(q)) =>
            tmp["job.json"] \in {fd[q], 0} /\ file["job.json"] # fd[q])'
  BY <1>1, <1>2 DEF LoneOK, InodesOK
<1>5. (\A q \in Requests : (SavesJob(q) /\ stage[q] = "fill") => content[fd[q]].state = "empty")'
  <2> SUFFICES ASSUME NEW q \in Requests, SavesJob(q)', stage'[q] = "fill"
               PROVE  content'[fd'[q]].state = "empty"
    OBVIOUS
  <2>1. q # p /\ SavesJob(q) /\ stage[q] = "fill"
    BY <1>2
  <2>2. content[fd[q]].state = "empty"
    BY <1>1, <2>1 DEF LoneOK
  <2> QED BY <1>2, <2>1, <2>2 DEF Open
<1>6. (\A q \in Requests : (SavesJob(q) /\ stage[q] = "move") => content[fd[q]] = Payload(q))'
  <2> SUFFICES ASSUME NEW q \in Requests, SavesJob(q)', stage'[q] = "move"
               PROVE  content'[fd'[q]] = Payload(q)'
    OBVIOUS
  <2>1. q # p /\ SavesJob(q) /\ stage[q] = "move"
    BY <1>2
  <2>2. content[fd[q]] = Payload(q)
    BY <1>1, <2>1 DEF LoneOK
  <2> QED BY <1>2, <2>1, <2>2 DEF Open
<1> QED BY <1>3, <1>4, <1>5, <1>6 DEF LoneOK

LEMMA LoneCheck ==
    ASSUME TypeOK, LoneOK, NEW p \in Requests, CheckRevision(p)
    PROVE  LoneOK'
<1> SUFFICES ASSUME Unraced' PROVE LoneOK'
  BY DEF LoneOK
<1>1. Unraced /\ Readable("job.json") /\ UNCHANGED <<file, tmp, content>> /\ Others(p)
      /\ stage'[p] = "create" /\ Writing("job.json") = {}
  BY CheckDoes DEF Unraced
<1>2. \A q \in Requests : SavesJob(q)' => q = p
  BY <1>1, OthersSame DEF SavesJob
<1> QED BY <1>1, <1>2 DEF LoneOK, Open

LEMMA LoneCreate ==
    ASSUME TypeOK, InodesOK, LoneOK, NEW p \in Requests, CreateTmp(p)
    PROVE  LoneOK'
<1> DEFINE t == target[p]
<1>1. t \in Paths /\ "job.json" \in Paths
  BY DEF TypeOK, Paths
<1>2. PICK i \in Inodes :
        /\ IF tmp[t] = 0 THEN i \notin Used ELSE i = tmp[t]
        /\ fd'[p] = i /\ tmp'[t] = i
        /\ \A a \in Paths : a # t => tmp'[a] = tmp[a]
        /\ content'[i] = Blank
        /\ \A j \in Inodes : j # i => content'[j] = content[j]
  BY CreateDoes
<1>3. /\ UNCHANGED <<file, raced>> /\ Others(p) /\ stage[p] = "create" /\ stage'[p] = "fill"
      /\ target'[p] = t
  BY CreateDoes
<1>4. CASE t = "job.json"
  <2> SUFFICES ASSUME Unraced' PROVE LoneOK'
    BY DEF LoneOK
  <2>1. Unraced
    BY <1>3 DEF Unraced
  <2>2. SavesJob(p)
    BY <1>3, <1>4 DEF SavesJob, Writing
  <2>3. \A q \in Requests : SavesJob(q)' => q = p
    BY <1>3, <2>1, <2>2, OthersSame DEF LoneOK
  <2>5. fd'[p] = tmp'["job.json"] /\ content'[fd'[p]].state = "empty"
    BY <1>2, <1>4 DEF Blank
  <2>6. i # 0
    BY DEF Inodes
  <2>7. file["job.json"] # i
    BY <1>1, <1>2, <1>4, <2>6 DEF InodesOK, Used
  <2> QED BY <1>2, <1>3, <2>3, <2>5, <2>7 DEF LoneOK
<1>5. CASE t # "job.json"
  <2>1. ~SavesJob(p)'
    BY <1>3, <1>5 DEF SavesJob, Writing
  <2>2. \A q \in Requests \ {p} : (SavesJob(q) /\ Open(q)) => fd[q] # i /\ fd[q] \in Inodes
    BY <1>1, <1>2, <1>5 DEF InodesOK, Used, SavesJob, Writing, TypeOK
  <2> QED BY <1>1, <1>2, <1>3, <1>5, <2>1, <2>2, LoneKept
<1> QED BY <1>4, <1>5

LEMMA LoneFill ==
    ASSUME TypeOK, InodesOK, LoneOK, NEW p \in Requests, FillTmp(p)
    PROVE  LoneOK'
<1>1. /\ UNCHANGED <<file, tmp, raced>> /\ Others(p) /\ stage[p] = "fill" /\ stage'[p] = "move"
      /\ target'[p] = target[p] /\ base'[p] = base[p] /\ fd'[p] = fd[p] /\ fd[p] \in Inodes
  BY FillDoes
<1>2. CASE target[p] = "job.json"
  <2> SUFFICES ASSUME Unraced' PROVE LoneOK'
    BY DEF LoneOK
  <2>1. Unraced
    BY <1>1 DEF Unraced
  <2>2. SavesJob(p) /\ Open(p)
    BY <1>1, <1>2 DEF SavesJob, Writing, Open
  <2>3. \A q \in Requests : SavesJob(q)' => q = p
    BY <1>1, <2>1, <2>2, OthersSame DEF LoneOK
  <2>5. tmp'["job.json"] \in {fd'[p], 0} /\ file'["job.json"] # fd'[p]
    BY <1>1, <2>1, <2>2 DEF LoneOK
  <2>6. content[fd[p]].state = "empty"
    BY <1>1, <2>1, <2>2 DEF LoneOK
  <2>7. Payload(p)' = Payload(p)
    BY <1>1 DEF Payload
  <2>8. content'[fd'[p]] = Payload(p)'
    BY <1>1, <2>6, <2>7, FillDoes
  <2> QED BY <1>1, <2>3, <2>5, <2>8 DEF LoneOK
<1>3. CASE target[p] # "job.json"
  <2>1. ~SavesJob(p)'
    BY <1>1, <1>3 DEF SavesJob, Writing
  <2>2. \A q \in Requests \ {p} : (SavesJob(q) /\ Open(q)) => fd[q] # fd[p] /\ fd[q] \in Inodes
    BY <1>1, <1>3 DEF InodesOK, SavesJob, Writing, TypeOK, Open
  <2>3. \A j \in Inodes : j # fd[p] => content'[j] = content[j]
    BY FillDoes
  <2> QED BY <1>1, <2>1, <2>2, <2>3, LoneKept
<1> QED BY <1>2, <1>3

LEMMA LoneMove ==
    ASSUME TypeOK, InodesOK, LoneOK, NEW p \in Requests, MoveTmp(p)
    PROVE  LoneOK'
<1>1. target[p] \in Paths /\ "job.json" \in Paths
  BY DEF TypeOK, Paths
<1>2. /\ UNCHANGED <<content, raced>> /\ Others(p) /\ stage[p] = "move" /\ ~SavesJob(p)'
      /\ \A a \in Paths : a # target[p] => file'[a] = file[a] /\ tmp'[a] = tmp[a]
  BY MoveDoes DEF SavesJob, Writing
<1>3. CASE target[p] = "job.json"
  <2> SUFFICES ASSUME Unraced' PROVE LoneOK'
    BY DEF LoneOK
  <2>1. Unraced
    BY <1>2 DEF Unraced
  <2>2. SavesJob(p)
    BY <1>2, <1>3 DEF SavesJob, Writing
  <2>3. \A q \in Requests : ~SavesJob(q)'
    BY <1>2, <2>1, <2>2, OthersSame DEF LoneOK
  <2> QED BY <2>3 DEF LoneOK
<1>4. CASE target[p] # "job.json"
  BY <1>1, <1>2, <1>4, LoneKept
<1> QED BY <1>3, <1>4



LEMMA LoneStep ==
    ASSUME TypeOK, StageOK, InodesOK, LoneOK, NEW p \in Requests, Handles(p)
    PROVE  LoneOK'
<1>1. CASE Advances(p)
  BY <1>1, AdvancesDoes, LoneKept
<1>2. CASE Ends(p)
  BY <1>2, EndsDoes, LoneKept DEF disk, SavesJob, Writing
<1>3. CASE Unlink(p)
  <2>1. ~SavesJob(p)'
    BY <1>3, UnlinkDoes DEF request, SavesJob, Writing
  <2>2. /\ file'["job.json"] \in {file["job.json"], 0} /\ tmp'["job.json"] \in {tmp["job.json"], 0}
        /\ UNCHANGED <<content, raced>> /\ Others(p)
    BY <1>3, UnlinkDoes DEF Paths
  <2> QED BY <2>1, <2>2, LoneKept
<1>4. CASE RemoveDirectory(p)
  BY <1>4, RemoveDoes, LoneKept DEF SavesJob, Writing
<1> QED BY <1>1, <1>2, <1>3, <1>4, LoneCheck, LoneCreate, LoneFill, LoneMove DEF Handles

LEMMA LoneIdle ==
    ASSUME LoneOK, UNCHANGED raced, \A p \in Requests : ~SavesJob(p)'
    PROVE  LoneOK'
  BY DEF LoneOK

------------------------------------------------------------------------------
(* After the deletion *)

LEMMA DeletedStep ==
    ASSUME TypeOK, StageOK, InodesOK, DeletedOK, NEW p \in Requests, Handles(p)
    PROVE  DeletedOK'
<1> SUFFICES ASSUME Deleted', ~late'
             PROVE  (/\ file["job.json"] = 0
                     /\ tmp["job.json"] = 0
                     /\ \A q \in Requests : SavesJob(q) => stage[q] # "create")'
  BY DEF DeletedOK
<1>1. Others(p) /\ ~late /\ "job.json" \in Paths /\ target[p] \in Paths
  BY Persist DEF Paths, TypeOK
<1>2. \A q \in Requests \ {p} : (SavesJob(q)' <=> SavesJob(q)) /\ stage'[q] = stage[q]
  BY <1>1, OthersSame DEF Others
<1>3. CASE RemoveDirectory(p)
  <2>1. \A q \in Requests : SavesJob(q) => stage[q] # "create"
    BY <1>3, RemoveDoes DEF SavesJob
  <2> QED BY <1>1, <1>2, <1>3, <2>1, RemoveDoes
<1>4. CASE ~RemoveDirectory(p)
  <2>1. /\ file["job.json"] = 0 /\ tmp["job.json"] = 0
        /\ \A q \in Requests : SavesJob(q) => stage[q] # "create"
    BY <1>1, <1>4, Persist DEF DeletedOK
  <2>2. ~CheckRevision(p)
    BY <2>1 DEF CheckRevision, Readable
  <2>3. CASE Advances(p)
    BY <1>2, <2>1, <2>3, AdvancesDoes
  <2>4. CASE Ends(p)
    BY <1>2, <2>1, <2>4, EndsDoes DEF disk
  <2>5. CASE CreateTmp(p)
    <3>1. target[p] # "job.json"
      BY <2>1, <2>5, CreateDoes DEF SavesJob, Writing
    <3> QED BY <1>1, <1>2, <2>1, <2>5, <3>1, CreateDoes
  <2>6. CASE FillTmp(p)
    BY <1>2, <2>1, <2>6, FillDoes
  <2>7. CASE MoveTmp(p)
    <3>1. target[p] # "job.json"
      BY <2>1, <2>7, MoveDoes
    <3> QED BY <1>1, <1>2, <2>1, <2>7, <3>1, MoveDoes
  <2>8. CASE Unlink(p)
    <3>1. stage'[p] # "create"
      BY <2>8, UnlinkDoes DEF request
    <3> QED BY <1>1, <1>2, <2>1, <2>8, <3>1, UnlinkDoes
  <2> QED BY <1>4, <2>2, <2>3, <2>4, <2>5, <2>6, <2>7, <2>8 DEF Handles
<1> QED BY <1>3, <1>4

LEMMA DeletedIdle ==
    ASSUME DeletedOK, UNCHANGED <<file, kind, result, late>>, tmp'["job.json"] = tmp["job.json"],
           \A p \in Requests : ~SavesJob(p)'
    PROVE  DeletedOK'
<1>1. Deleted' <=> Deleted
  BY DEF Deleted
<1> QED BY <1>1 DEF DeletedOK
------------------------------------------------------------------------------
(* Revisions, and what requests have loaded *)

JobSame == file'["job.json"] = file["job.json"] /\ At("job.json")' = At("job.json")

(* Only the rename of job.json changes what is read, and a deletion takes  *)
(* it away.                                                                *)
LEMMA JobSameStep ==
    ASSUME TypeOK, InodesOK, LoneOK, Unraced, file["job.json"] # 0,
           NEW p \in Requests, Handles(p), ~(MoveTmp(p) /\ target[p] = "job.json")
    PROVE  JobSame \/ (Unlink(p) /\ file'["job.json"] = 0)
<1> DEFINE f == file["job.json"]
<1>1. "job.json" \in Paths /\ target[p] \in Paths /\ f \in Inodes
  BY DEF TypeOK, Paths
<1>2. CASE Advances(p) \/ Ends(p) \/ CheckRevision(p)
  BY <1>2, AdvancesDoes, EndsDoes, CheckDoes DEF JobSame, At, disk
<1>3. CASE CreateTmp(p)
  <2>1. PICK i \in Inodes :
          /\ IF tmp[target[p]] = 0 THEN i \notin Used ELSE i = tmp[target[p]]
          /\ \A j \in Inodes : j # i => content'[j] = content[j]
    BY <1>3, CreateDoes
  <2>2. f # i
    BY <1>1, <2>1 DEF InodesOK, Used
  <2> QED BY <1>1, <1>3, <2>1, <2>2, CreateDoes DEF JobSame, At
<1>4. CASE FillTmp(p)
  <2>1. /\ stage[p] = "fill" /\ UNCHANGED file
        /\ \A j \in Inodes : j # fd[p] => content'[j] = content[j]
    BY <1>4, FillDoes
  <2>2. CASE target[p] = "job.json"
    <3>1. SavesJob(p) /\ Open(p)
      BY <2>1, <2>2 DEF SavesJob, Writing, Open
    <3>3. f # fd[p]
      BY <3>1 DEF LoneOK
    <3> QED BY <1>1, <2>1, <3>3 DEF JobSame, At
  <2>3. CASE target[p] # "job.json"
    <3>1. f # fd[p]
      BY <1>1, <2>1, <2>3 DEF InodesOK, Open
    <3> QED BY <1>1, <2>1, <3>1 DEF JobSame, At
  <2> QED BY <2>2, <2>3
<1>5. CASE MoveTmp(p)
  BY <1>1, <1>5, MoveDoes DEF JobSame, At
<1>6. CASE Unlink(p)
  BY <1>1, <1>6, UnlinkDoes DEF JobSame, At
<1>7. CASE RemoveDirectory(p)
  BY <1>7, RemoveDoes DEF JobSame, At
<1> QED BY <1>2, <1>3, <1>4, <1>5, <1>6, <1>7 DEF Handles

LEMMA StaysStep ==
    ASSUME TypeOK, InodesOK, LoneOK, Unraced, NEW p \in Requests, Handles(p),
           ~(MoveTmp(p) /\ target[p] = "job.json")
    PROVE  Readable("job.json")' => Readable("job.json") /\ JobSame
<1>1. "job.json" \in Paths /\ target[p] \in Paths
  BY DEF Paths, TypeOK
<1>2. CASE file["job.json"] # 0
  BY <1>2, JobSameStep DEF JobSame, Readable
<1>3. CASE file["job.json"] = 0
  <2>1. CASE MoveTmp(p)
    BY <1>1, <1>3, <2>1, MoveDoes DEF Readable
  <2>2. CASE ~MoveTmp(p)
    <3>1. file'["job.json"] = 0
      BY <1>1, <1>3, <2>2, AdvancesDoes, EndsDoes, CheckDoes, CreateDoes, FillDoes, UnlinkDoes, RemoveDoes
         DEF Handles, disk
    <3> QED BY <3>1 DEF Readable
  <2> QED BY <2>1, <2>2
<1> QED BY <1>2, <1>3

(* The rename of job.json, by the only one past the check. *)
LEMMA RenameDoes ==
    ASSUME TypeOK, StageOK, LoneOK, LoadedOK, Unraced,
           NEW p \in Requests, MoveTmp(p), target[p] = "job.json"
    PROVE  /\ Readable("job.json")'
           /\ At("job.json")' = Payload(p)
           /\ Payload(p).rev = p /\ Payload(p).has = base[p].has \cup {p}
           /\ Payload(p).state = "whole"
           /\ SavesJob(p) /\ Holding(p) /\ Loaded(p)
           /\ stage'[p] = "done" /\ result'[p] = "ok"
           /\ \A q \in Requests \ {p} : ~SavesJob(q)
<1>1. /\ UNCHANGED content /\ stage[p] = "move" /\ tmp["job.json"] # 0
      /\ file'["job.json"] = tmp["job.json"]
      /\ stage'[p] = "done" /\ result'[p] = "ok"
  BY MoveDoes
<1>2. SavesJob(p) /\ Open(p) /\ ChangesJob(p)
  BY <1>1, StageParts DEF SavesJob, Writing, Open
<1>3. Holding(p)
  BY <1>1, <1>2 DEF Holding
<1>4. Loaded(p)
  BY <1>3 DEF LoadedOK
<1>5. fd[p] = tmp["job.json"]
  BY <1>1, <1>2 DEF LoneOK
<1>6. content[fd[p]] = Payload(p)
  BY <1>1, <1>2 DEF LoneOK
<1>7. At("job.json")' = Payload(p)
  BY <1>1, <1>5, <1>6 DEF At
<1>8. Payload(p).rev = p /\ Payload(p).has = base[p].has \cup {p} /\ Payload(p).state = "whole"
  <2>1. base[p] \in Documents
    BY DEF TypeOK
  <2> QED BY <2>1 DEF Payload, Documents
<1>9. Readable("job.json")'
  BY <1>1, <1>7, <1>8 DEF Readable
<1>10. \A q \in Requests \ {p} : ~SavesJob(q)
  BY <1>2 DEF LoneOK
<1> QED BY <1>1, <1>2, <1>3, <1>4, <1>7, <1>8, <1>9, <1>10

(* Only the rename answers a change of the job with success. *)
LEMMA OnlyRenameSucceeds ==
    ASSUME TypeOK, StageOK, NEW p \in Requests, Handles(p), ChangesJob(p)', result'[p] = "ok"
    PROVE  MoveTmp(p) /\ target[p] = "job.json"
<1>1. result[p] = "none"
  BY Persist
<1>2. CASE Advances(p) \/ Ends(p) \/ CheckRevision(p) \/ CreateTmp(p)
  BY <1>1, <1>2, AdvancesDoes, EndsDoes, CheckDoes, CreateDoes
<1>3. CASE FillTmp(p)
  BY <1>1, <1>3 DEF FillTmp
<1>4. CASE MoveTmp(p)
  <2>1. /\ stage[p] = "move" /\ kind'[p] = kind[p]
        /\ target[p] = "findings.json" => result'[p] = result[p]
        /\ target[p] \in Paths
    BY <1>4, MoveDoes DEF TypeOK
  <2>2. target[p] # "run.json"
    BY <2>1, StageParts DEF ChangesJob
  <2> QED BY <1>1, <1>4, <2>1, <2>2 DEF Paths
<1>5. CASE RemoveDirectory(p)
  BY <1>5, RemoveDoes, StageParts DEF ChangesJob
<1>6. CASE Unlink(p)
  BY <1>1, <1>6, UnlinkDoes DEF request
<1> QED BY <1>2, <1>3, <1>4, <1>5, <1>6 DEF Handles

(* Whoever is newly answered with success has renamed job.json. *)
LEMMA NoNewSuccess ==
    ASSUME TypeOK, StageOK, NEW p \in Requests, Handles(p), ~(MoveTmp(p) /\ target[p] = "job.json"),
           NEW q \in Requests, ChangesJob(q)', result'[q] = "ok"
    PROVE  ChangesJob(q) /\ result[q] = "ok"
<1>1. q # p
  BY OnlyRenameSucceeds
<1> QED BY <1>1, Persist, OthersSame DEF Others

LEMMA RevisionsStep ==
    ASSUME TypeOK, StageOK, InodesOK, LoneOK, RevisionsOK, LoadedOK,
           NEW p \in Requests, Handles(p)
    PROVE  RevisionsOK'
<1> SUFFICES ASSUME Unraced' PROVE RevisionsOK'
  BY DEF RevisionsOK
<1>1. Unraced /\ Others(p)
  BY Persist DEF Unraced
<1>2. (Readable("job.json") \/ doomed)'
  <2>1. CASE doomed
    BY <2>1, Persist
  <2>2. CASE ~doomed
    <3>1. Readable("job.json") /\ ~Unlink(p)
      BY <1>1, <2>2, Persist DEF RevisionsOK
    <3>2. CASE MoveTmp(p) /\ target[p] = "job.json"
      BY <1>1, <3>2, RenameDoes
    <3>3. CASE ~(MoveTmp(p) /\ target[p] = "job.json")
      <4>1. JobSame
        BY <1>1, <3>1, <3>3, JobSameStep DEF Readable
      <4> QED BY <3>1, <4>1 DEF JobSame, Readable
    <3> QED BY <3>2, <3>3
  <2> QED BY <2>1, <2>2
<1>3. ASSUME Readable("job.json")'
      PROVE  (/\ \A q \in Requests : At("job.json").rev = q => stage[q] = "done"
              /\ \A q \in At("job.json").has : result[q] = "ok"
              /\ \A q \in Requests : (ChangesJob(q) /\ result[q] = "ok") => q \in At("job.json").has)'
  <2>1. CASE MoveTmp(p) /\ target[p] = "job.json"
    <3>1. /\ At("job.json")' = Payload(p)
          /\ Payload(p).rev = p /\ Payload(p).has = base[p].has \cup {p}
          /\ SavesJob(p) /\ Loaded(p) /\ stage'[p] = "done" /\ result'[p] = "ok"
      BY <1>1, <2>1, RenameDoes
    <3>2. base[p].has \subseteq Requests
      BY DEF TypeOK, Documents
    <3>3. (\A q \in At("job.json").has : result[q] = "ok")'
      BY <3>1, <3>2, Persist DEF Loaded
    <3>4. \A q \in Requests \ {p} : (ChangesJob(q)' <=> ChangesJob(q)) /\ result'[q] = result[q]
      BY <1>1, OthersSame DEF Others
    <3>5. (\A q \in Requests : (ChangesJob(q) /\ result[q] = "ok") => q \in At("job.json").has)'
      BY <3>1, <3>4 DEF Loaded
    <3> QED BY <3>1, <3>3, <3>5
  <2>2. CASE ~(MoveTmp(p) /\ target[p] = "job.json")
    <3>1. Readable("job.json") /\ JobSame
      BY <1>1, <1>3, <2>2, StaysStep
    <3>2. /\ \A q \in Requests : At("job.json").rev = q => stage[q] = "done"
          /\ \A q \in At("job.json").has : result[q] = "ok"
          /\ \A q \in Requests : (ChangesJob(q) /\ result[q] = "ok") => q \in At("job.json").has
      BY <1>1, <3>1 DEF RevisionsOK
    <3>3. At("job.json").has \subseteq Requests
      <4>1. At("job.json") \in Documents
        BY <3>1, AtTyped DEF Paths
      <4> QED BY <4>1 DEF Documents
    <3>4. (\A q \in Requests : At("job.json").rev = q => stage[q] = "done")'
      BY <3>1, <3>2, Persist DEF JobSame
    <3>5. (\A q \in At("job.json").has : result[q] = "ok")'
      BY <3>1, <3>2, <3>3, Persist DEF JobSame
    <3>6. (\A q \in Requests : (ChangesJob(q) /\ result[q] = "ok") => q \in At("job.json").has)'
      BY <2>2, <3>1, <3>2, NoNewSuccess DEF JobSame
    <3> QED BY <3>4, <3>5, <3>6
  <2> QED BY <2>1, <2>2
<1> QED BY <1>2, <1>3 DEF RevisionsOK

LEMMA RevisionsIdle ==
    ASSUME RevisionsOK, UNCHANGED <<file, kind, result, raced, doomed>>,
           file["job.json"] # 0 => JobSame,
           \A q \in Requests : stage[q] = "done" => stage'[q] = "done"
    PROVE  RevisionsOK'
<1>1. Unraced' <=> Unraced
  BY DEF Unraced
<1> SUFFICES ASSUME Unraced PROVE RevisionsOK'
  BY <1>1 DEF RevisionsOK
<1>2. Readable("job.json")' <=> Readable("job.json")
  BY DEF Readable, JobSame
<1>3. Readable("job.json") => JobSame
  BY DEF Readable
<1> QED BY <1>2, <1>3 DEF RevisionsOK, JobSame, ChangesJob

(* What another request has loaded, if job.json stays the same. *)
LEMMA LoadedKept ==
    ASSUME TypeOK, NEW p \in Requests, Others(p),
           Readable("job.json")' => Readable("job.json") /\ JobSame,
           \A q \in Requests : stage[q] = "done" => stage'[q] = "done",
           \A q \in Requests : result[q] = "ok" => result'[q] = "ok",
           \A q \in Requests : (ChangesJob(q)' /\ result'[q] = "ok") => (ChangesJob(q) /\ result[q] = "ok"),
           NEW q \in Requests, Loaded(q), base'[q] = base[q], expected'[q] = expected[q],
           SavesJob(q)' => SavesJob(q)
    PROVE  Loaded(q)'
<1>1. base[q].has \subseteq Requests
  BY DEF TypeOK, Documents
<1> QED BY <1>1 DEF Loaded, JobSame

(* A load gives what is on disk. *)
LEMMA LoadsLoaded ==
    ASSUME TypeOK, RevisionsOK, Unraced, NEW p \in Requests, Advances(p), Holding(p)',
           \A q \in Requests : stage[q] = "done" => stage'[q] = "done",
           \A q \in Requests : result[q] = "ok" => result'[q] = "ok"
    PROVE  Loaded(p)'
<1> DEFINE d == At("job.json")
<1>1. /\ Readable("job.json")
      /\ \A q \in Requests : d.rev = q => stage[q] = "done"
      /\ \A q \in d.has : result[q] = "ok"
  <2>1. Readable("job.json")
    <3>1. CASE Receive(p)
      <4>1. stage'[p] \in {"load", "delete"}
        BY <3>1, GoToDoes DEF Receive
      <4> QED BY <4>1 DEF Holding
    <3>2. CASE LoadForRun(p) \/ WriteRun(p) \/ BeginDelete(p)
      BY <3>2, GoToDoes DEF LoadForRun, WriteRun, BeginDelete, Holding
    <3>3. CASE LoadRun(p)
      BY <3>3 DEF LoadRun, Holding, ChangesJob
    <3> QED BY <3>1, <3>2, <3>3 DEF Advances, LoadForPatch, LoadForFindings, LoadAgain
  <2> QED BY <2>1 DEF RevisionsOK
<1>2. d \in Documents
  BY <1>1, AtTyped DEF Paths
<1>3. d.has \subseteq Requests
  BY <1>2 DEF Documents
<1>4. base'[p].rev = d.rev /\ base'[p].has = d.has /\ expected'[p] \in {d.rev, 0}
  <2>1. CASE Receive(p)
    <3>1. stage'[p] \in {"load", "delete"}
      BY <2>1, GoToDoes DEF Receive
    <3> QED BY <3>1 DEF Holding
  <2>2. CASE LoadForPatch(p)
    BY <2>2 DEF LoadForPatch, TypeOK
  <2>3. CASE LoadForFindings(p)
    BY <1>2, <2>3 DEF LoadForFindings, TypeOK, Documents
  <2>4. CASE LoadForRun(p)
    BY <2>4, GoToDoes DEF LoadForRun, Holding
  <2>5. CASE WriteRun(p)
    BY <2>5, GoToDoes DEF WriteRun, Holding
  <2>6. CASE LoadAgain(p)
    BY <1>2, <2>6 DEF LoadAgain, TypeOK, Documents
  <2>7. CASE LoadRun(p)
    BY <2>7 DEF LoadRun, Holding, ChangesJob
  <2>8. CASE BeginDelete(p)
    BY <2>8, GoToDoes DEF BeginDelete, Holding
  <2> QED BY <2>1, <2>2, <2>3, <2>4, <2>5, <2>6, <2>7, <2>8 DEF Advances
<1>5. ~SavesJob(p)' /\ At("job.json")' = d
  BY AdvancesDoes DEF At
<1> HIDE DEF d
<1> QED BY <1>1, <1>3, <1>4, <1>5 DEF Loaded

LEMMA LoadedStep ==
    ASSUME TypeOK, StageOK, InodesOK, LoneOK, RevisionsOK, LoadedOK,
           NEW p \in Requests, Handles(p)
    PROVE  LoadedOK'
<1> SUFFICES ASSUME Unraced', NEW q \in Requests, Holding(q)' PROVE Loaded(q)'
  BY DEF LoadedOK
<1>1. /\ Unraced /\ Others(p)
      /\ \A r \in Requests : stage[r] = "done" => stage'[r] = "done"
      /\ \A r \in Requests : result[r] = "ok" => result'[r] = "ok"
  BY Persist DEF Unraced
<1>2. CASE MoveTmp(p) /\ target[p] = "job.json"
  <2>1. /\ At("job.json")' = Payload(p) /\ Payload(p).rev = p
        /\ stage'[p] = "done" /\ (q # p => ~SavesJob(q))
    BY <1>1, <1>2, RenameDoes
  <2>2. q # p
    BY <1>1, <1>2, RenameDoes DEF Holding
  <2>3. Holding(q) /\ ~SavesJob(q)' /\ base'[q] = base[q] /\ expected'[q] = expected[q]
    BY <1>1, <2>1, <2>2, OthersSame DEF Others
  <2>4. Loaded(q) /\ base[q].has \subseteq Requests
    BY <1>1, <2>3 DEF LoadedOK, TypeOK, Documents
  <2>5. base[q].rev # p
    BY <1>2, <2>4 DEF Loaded, MoveTmp
  <2>6. p # 0
    BY Numbers
  <2> QED BY <1>1, <2>1, <2>3, <2>4, <2>5, <2>6 DEF Loaded
<1>3. CASE ~(MoveTmp(p) /\ target[p] = "job.json")
  <2>1. Readable("job.json")' => Readable("job.json") /\ JobSame
    BY <1>1, <1>3, StaysStep
  <2>2. \A r \in Requests : (ChangesJob(r)' /\ result'[r] = "ok") => (ChangesJob(r) /\ result[r] = "ok")
    BY <1>3, NoNewSuccess
  <2>3. CASE q # p
    <3>1. Holding(q) /\ (SavesJob(q)' <=> SavesJob(q)) /\ base'[q] = base[q]
          /\ expected'[q] = expected[q]
      BY <1>1, <2>3, OthersSame DEF Others
    <3> QED BY <1>1, <2>1, <2>2, <3>1, LoadedKept DEF LoadedOK
  <2>4. CASE q = p
    <3>1. CASE Advances(p)
      BY <1>1, <2>4, <3>1, LoadsLoaded
    <3>2. CASE Ends(p)
      BY <2>4, <3>2, EndsDoes DEF Holding
    <3>3. CASE CheckRevision(p)
      <4>1. /\ base'[p] = base[p] /\ expected'[p] = expected[p] /\ At("job.json").rev = expected[p]
            /\ stage[p] = "check" /\ kind'[p] = kind[p] /\ Readable("job.json")
        BY <3>3, CheckDoes
      <4>2. At("job.json")' = At("job.json")
        BY <3>3, CheckDoes DEF At
      <4>3. Loaded(p)
        BY <1>1, <2>4, <4>1 DEF LoadedOK, Holding, ChangesJob
      <4>4. At("job.json").has = base[p].has
        BY <4>1, <4>3 DEF Loaded
      <4>5. base[p].has \subseteq Requests
        BY DEF TypeOK, Documents
      <4>6. \A r \in Requests : (ChangesJob(r) /\ result[r] = "ok") => r \in base[p].has
        BY <1>1, <4>1, <4>4 DEF RevisionsOK
      <4> QED BY <1>1, <2>2, <2>4, <4>1, <4>2, <4>3, <4>4, <4>5, <4>6 DEF Loaded
    <3>4. CASE CreateTmp(p) \/ FillTmp(p)
      <4>1. /\ base'[p] = base[p] /\ expected'[p] = expected[p] /\ kind'[p] = kind[p]
            /\ target'[p] = target[p] /\ stage[p] \in {"create", "fill"}
        BY <3>4, CreateDoes, FillDoes
      <4>2. Holding(p) /\ (SavesJob(p)' => SavesJob(p))
        BY <2>4, <4>1 DEF Holding, ChangesJob, SavesJob, Writing
      <4> QED BY <1>1, <2>1, <2>2, <2>4, <4>1, <4>2, LoadedKept DEF LoadedOK
    <3>5. CASE MoveTmp(p)
      <4>1. /\ base'[p] = base[p] /\ expected'[p] = expected[p] /\ kind'[p] = kind[p]
            /\ stage[p] = "move" /\ stage'[p] = "check"
        BY <2>4, <3>5, MoveDoes DEF Holding
      <4>2. Holding(p) /\ ~SavesJob(p)'
        BY <2>4, <4>1 DEF Holding, ChangesJob, SavesJob, Writing
      <4> QED BY <1>1, <2>1, <2>2, <2>4, <4>1, <4>2, LoadedKept DEF LoadedOK
    <3>6. CASE Unlink(p)
      <4>1. stage[p] = "unlink" /\ UNCHANGED stage
        BY <3>6, UnlinkDoes DEF request
      <4> QED BY <2>4, <4>1 DEF Holding
    <3>7. CASE RemoveDirectory(p)
      BY <2>4, <3>7, RemoveDoes DEF Holding
    <3> QED BY <3>1, <3>2, <3>3, <3>4, <3>5, <3>6, <3>7 DEF Handles
  <2> QED BY <2>3, <2>4
<1> QED BY <1>2, <1>3

------------------------------------------------------------------------------
(* Runs that show as running *)

(* The files that a writer of run.json, or a reader, may come to. *)
RunFiles ==
    {j \in Inodes : \/ j = file["run.json"] \/ j = tmp["run.json"]
                    \/ \E q \in Requests : q \in Writing("run.json") /\ Open(q) /\ j = fd[q]}

LEMMA RunsKept ==
    ASSUME TypeOK, InodesOK, RunsOK, NEW p \in Requests, Others(p), UNCHANGED server,
           faults' = 0 => faults = 0,
           \A j \in RunFiles : content'[j] = content[j] \/ Current(content'[j]),
           file'["run.json"] \in {file["run.json"], 0} \/ Current(content'[file'["run.json"]]),
           tmp'["run.json"] \in {tmp["run.json"], 0} \/ Current(content'[tmp'["run.json"]]),
           (p \in Writing("run.json"))' =>
                /\ base'[p].status = "RUNNING" => base'[p].life = life
                /\ Open(p)' => Current(content'[fd'[p]])
                /\ (Open(p)' /\ tmp'["run.json"] # 0) => Current(content'[tmp'["run.json"]])
    PROVE  RunsOK'
<1>1. "run.json" \in Paths /\ file["run.json"] \in Inodes \cup {0}
      /\ tmp["run.json"] \in Inodes \cup {0} /\ life' = life /\ up' = up
  BY DEF Paths, TypeOK, server
<1>2. \A d : Current(d)' <=> Current(d)
  BY <1>1 DEF Current
<1>3. (up' /\ faults' = 0 /\ file'["run.json"] # 0) => Current(content'[file'["run.json"]])
  BY <1>1 DEF RunsOK, At, RunFiles
<1>4. (up /\ faults = 0 /\ file["run.json"] # 0)' => Current(At("run.json"))'
  BY <1>1, <1>3 DEF At, Current
<1>5. ASSUME NEW q \in Requests, (q \in Writing("run.json"))'
      PROVE  /\ base'[q].status = "RUNNING" => base'[q].life = life'
             /\ Open(q)' => Current(content[fd[q]])'
             /\ (Open(q)' /\ tmp'["run.json"] # 0) => Current(content[tmp["run.json"]])'
  <2>1. CASE q # p
    <3>1. /\ q \in Writing("run.json") /\ (Open(q)' <=> Open(q)) /\ fd'[q] = fd[q] /\ base'[q] = base[q]
      BY <1>1, <1>5, <2>1, OthersSame DEF Others
    <3>2. Open(q) => fd[q] \in Inodes
      BY DEF InodesOK, TypeOK
    <3>3. Open(q) => Current(content'[fd[q]])
      BY <3>1, <3>2 DEF RunsOK, RunFiles
    <3>4. (Open(q) /\ tmp'["run.json"] # 0) => Current(content'[tmp'["run.json"]])
      BY <1>1, <3>1 DEF RunsOK, RunFiles
    <3>5. base[q].status = "RUNNING" => base[q].life = life
      BY <3>1 DEF RunsOK
    <3> QED BY <1>1, <3>1, <3>3, <3>4, <3>5 DEF Current
  <2>2. CASE q = p
    <3>1. Open(p)' => Current(content'[fd'[p]])
      BY <1>5, <2>2
    <3>2. (Open(p)' /\ tmp'["run.json"] # 0) => Current(content'[tmp'["run.json"]])
      BY <1>5, <2>2
    <3> QED BY <1>1, <1>5, <2>2, <3>1, <3>2 DEF Current
  <2> QED BY <2>1, <2>2
<1> QED BY <1>4, <1>5 DEF RunsOK

LEMMA BlankCurrent == Current(Blank) /\ Current([Blank EXCEPT !.state = "torn"])
  BY DEF Current, Blank

LEMMA RunsLoad ==
    ASSUME TypeOK, InodesOK, RunsOK, NEW p \in Requests, Advances(p)
    PROVE  RunsOK'
<1>1. UNCHANGED <<file, tmp, content, server, faults>> /\ Others(p) /\ ~Open(p)'
  BY AdvancesDoes
<1>2. (p \in Writing("run.json"))' => (base'[p].status = "RUNNING" => base'[p].life = life)
  <2>1. CASE LoadRun(p)
    <3>1. At("run.json") \in Documents
      BY <2>1, AtTyped DEF LoadRun, Paths
    <3>2. PICK s \in Statuses :
            base' = [base EXCEPT ![p] = [At("run.json") EXCEPT !.status = s, !.life = life]]
      BY <2>1 DEF LoadRun
    <3> QED BY <3>1, <3>2 DEF TypeOK, Documents
  <2>2. CASE LoadForFindings(p)
    <3>1. target'[p] = "findings.json"
      BY <2>2, AboutToWriteDoes DEF LoadForFindings, Paths
    <3> QED BY <3>1 DEF Writing
  <2>3. CASE Receive(p)
    <3>1. stage'[p] \in {"load", "delete"}
      BY <2>3, GoToDoes DEF Receive
    <3> QED BY <3>1 DEF Writing
  <2>4. CASE LoadForPatch(p) \/ LoadForRun(p) \/ WriteRun(p) \/ LoadAgain(p) \/ BeginDelete(p)
    <3>1. stage'[p] \in {"check", "run", "reload", "unlink"}
      BY <2>4, GoToDoes DEF LoadForPatch, LoadForRun, WriteRun, LoadAgain, BeginDelete
    <3> QED BY <3>1 DEF Writing
  <2> QED BY <2>1, <2>2, <2>3, <2>4 DEF Advances
<1> QED BY <1>1, <1>2, RunsKept

LEMMA RunsCreate ==
    ASSUME TypeOK, InodesOK, RunsOK, NEW p \in Requests, CreateTmp(p)
    PROVE  RunsOK'
<1>1. PICK i \in Inodes :
        /\ fd'[p] = i /\ tmp'[target[p]] = i
        /\ \A a \in Paths : a # target[p] => tmp'[a] = tmp[a]
        /\ content'[i] = Blank
        /\ \A j \in Inodes : j # i => content'[j] = content[j]
  BY CreateDoes
<1>2. /\ UNCHANGED <<file, server, faults>> /\ Others(p)
      /\ stage[p] = "create" /\ stage'[p] = "fill" /\ target'[p] = target[p] /\ base'[p] = base[p]
  BY CreateDoes
<1>3. "run.json" \in Paths
  BY DEF Paths
<1>4. \A j \in Inodes : content'[j] = content[j] \/ Current(content'[j])
  BY <1>1, BlankCurrent
<1>5. \A j \in RunFiles : content'[j] = content[j] \/ Current(content'[j])
  BY <1>4 DEF RunFiles
<1>6. CASE target[p] = "run.json"
  <2>1. Current(content'[fd'[p]]) /\ Current(content'[tmp'["run.json"]])
    BY <1>1, <1>6, BlankCurrent
  <2>2. base'[p].status = "RUNNING" => base'[p].life = life
    BY <1>2, <1>6 DEF RunsOK, Writing
  <2> QED BY <1>2, <1>5, <2>1, <2>2, RunsKept
<1>7. CASE target[p] # "run.json"
  <2>1. ~(p \in Writing("run.json"))' /\ tmp'["run.json"] = tmp["run.json"]
    BY <1>1, <1>2, <1>3, <1>7 DEF Writing
  <2> QED BY <1>2, <1>5, <2>1, RunsKept
<1> QED BY <1>6, <1>7

LEMMA RunsFill ==
    ASSUME TypeOK, InodesOK, RunsOK, NEW p \in Requests, FillTmp(p)
    PROVE  RunsOK'
<1>1. /\ UNCHANGED <<file, tmp, server, faults>> /\ Others(p)
      /\ stage[p] = "fill" /\ target'[p] = target[p] /\ base'[p] = base[p]
      /\ fd'[p] = fd[p] /\ fd[p] \in Inodes
      /\ content'[fd[p]] \in {Payload(p), [Blank EXCEPT !.state = "torn"]}
      /\ \A j \in Inodes : j # fd[p] => content'[j] = content[j]
  BY FillDoes
<1>2. "run.json" \in Paths /\ Open(p)
  BY <1>1 DEF Paths, Open
<1>3. CASE target[p] = "run.json"
  <2>1. /\ base[p].status = "RUNNING" => base[p].life = life
        /\ tmp["run.json"] # 0 => Current(content[tmp["run.json"]])
    BY <1>1, <1>2, <1>3 DEF RunsOK, Writing
  <2>2. base[p] \in Documents
    BY DEF TypeOK
  <2>3. Current(Payload(p))
    BY <1>3, <2>1, <2>2 DEF Payload, Current, Documents
  <2>4. Current(content'[fd[p]])
    BY <1>1, <2>3, BlankCurrent
  <2>5. \A j \in Inodes : content'[j] = content[j] \/ Current(content'[j])
    BY <1>1, <2>4
  <2>6. tmp'["run.json"] # 0 => Current(content'[tmp'["run.json"]])
    BY <1>1, <1>2, <2>1, <2>5 DEF TypeOK
  <2> QED BY <1>1, <2>1, <2>4, <2>5, <2>6, RunsKept DEF RunFiles
<1>4. CASE target[p] # "run.json"
  <2>1. ~(p \in Writing("run.json"))'
    BY <1>1, <1>4 DEF Writing
  <2>2. fd[p] \notin RunFiles
    BY <1>2, <1>4 DEF InodesOK, RunFiles, Writing
  <2>3. \A j \in RunFiles : content'[j] = content[j]
    BY <1>1, <2>2 DEF RunFiles
  <2> QED BY <1>1, <2>1, <2>3, RunsKept
<1> QED BY <1>3, <1>4

LEMMA RunsMove ==
    ASSUME TypeOK, InodesOK, RunsOK, NEW p \in Requests, MoveTmp(p)
    PROVE  RunsOK'
<1>1. /\ UNCHANGED <<content, server, faults>> /\ Others(p) /\ stage[p] = "move"
      /\ tmp[target[p]] # 0 /\ file'[target[p]] = tmp[target[p]] /\ tmp'[target[p]] = 0
      /\ \A a \in Paths : a # target[p] => file'[a] = file[a] /\ tmp'[a] = tmp[a]
      /\ stage'[p] \in {"check", "done"}
  BY MoveDoes
<1>2. "run.json" \in Paths /\ ~(p \in Writing("run.json"))'
  BY <1>1 DEF Paths, Writing
<1>3. CASE target[p] = "run.json"
  <2>1. Current(content[tmp["run.json"]])
    BY <1>1, <1>3 DEF RunsOK, Writing, Open
  <2> QED BY <1>1, <1>2, <1>3, <2>1, RunsKept
<1>4. CASE target[p] # "run.json"
  BY <1>1, <1>2, <1>4, RunsKept
<1> QED BY <1>3, <1>4

LEMMA RunsStep ==
    ASSUME TypeOK, InodesOK, RunsOK, NEW p \in Requests, Handles(p)
    PROVE  RunsOK'
<1>1. "run.json" \in Paths
  BY DEF Paths
<1>2. CASE Ends(p)
  <2>1. ~(p \in Writing("run.json"))'
    BY <1>2, EndsDoes DEF Writing
  <2> QED BY <1>2, <2>1, EndsDoes, RunsKept DEF disk
<1>3. CASE CheckRevision(p)
  <2>1. ~(p \in Writing("run.json"))'
    BY <1>3, CheckDoes DEF Writing
  <2> QED BY <1>3, <2>1, CheckDoes, RunsKept
<1>4. CASE RemoveDirectory(p)
  <2>1. ~(p \in Writing("run.json"))'
    BY <1>4, RemoveDoes DEF Writing
  <2> QED BY <1>1, <1>4, <2>1, RemoveDoes, RunsKept
<1>5. CASE Unlink(p)
  <2>1. ~(p \in Writing("run.json"))'
    BY <1>5, UnlinkDoes DEF Writing, request
  <2> QED BY <1>1, <1>5, <2>1, UnlinkDoes, RunsKept
<1> QED BY <1>2, <1>3, <1>4, <1>5, RunsLoad, RunsCreate, RunsFill, RunsMove DEF Handles

LEMMA RunsCrash ==
    ASSUME TypeOK, Crash
    PROVE  RunsOK'
<1>1. \A p \in Requests : (p \notin Writing("run.json"))'
  BY Crashed DEF Paths
<1> QED BY <1>1 DEF RunsOK, Crash

(* After the recovery no run shows as running, unless it has failed. *)
LEMMA RunsRestart ==
    ASSUME TypeOK, StageOK, Recover \/ RecoverFails
    PROVE  RunsOK'
<1>1. \A p \in Requests : (p \notin Writing("run.json"))'
  <2> TAKE p \in Requests
  <2>1. p \notin Writing("run.json")
    BY Idle DEF Recover, RecoverFails, Paths
  <2>2. UNCHANGED <<stage, target>>
    BY DEF Recover, RecoverFails, request
  <2> QED BY <2>1, <2>2 DEF Writing
<1>2. CASE Recover
  <2>1. file["run.json"] \in Inodes \cup {0} /\ UNCHANGED file
    BY <1>2 DEF TypeOK, Paths, Recover
  <2>2. CASE Readable("run.json") /\ At("run.json").status = "RUNNING"
    <3>1. content' = [content EXCEPT ![file["run.json"]].status = "FAILED"]
      BY <1>2, <2>2 DEF Recover
    <3>2. file["run.json"] \in Inodes /\ content[file["run.json"]] \in Documents
      BY <2>1, <2>2 DEF Readable, TypeOK
    <3>3. content'[file["run.json"]].status = "FAILED"
      BY <3>1, <3>2 DEF TypeOK, Documents
    <3> QED BY <1>1, <2>1, <3>3 DEF RunsOK, At, Current
  <2>3. CASE ~(Readable("run.json") /\ At("run.json").status = "RUNNING")
    <3>1. UNCHANGED content
      BY <1>2, <2>3 DEF Recover
    <3> QED BY <1>1, <2>1, <2>3, <3>1 DEF RunsOK, At, Current, Readable
  <2> QED BY <2>2, <2>3
<1>3. CASE RecoverFails
  <2>1. faults' # 0
    BY <1>3, Numbers DEF RecoverFails, TypeOK
  <2> QED BY <1>1, <2>1 DEF RunsOK
<1> QED BY <1>2, <1>3
------------------------------------------------------------------------------
(* The invariant *)

LEMMA HandleInductive ==
    ASSUME IInv, NEW p \in Requests, Handle(p)
    PROVE  IInv'
<1> USE DEF IInv
<1>1. Handles(p)
  BY HandleParts
<1>2. TypeOK'
  <2>1. CASE Advances(p) \/ CheckRevision(p)
    BY <2>1, LoadsTyped DEF Advances
  <2>2. CASE Ends(p) \/ RemoveDirectory(p) \/ Unlink(p)
    BY <2>2, EndsTyped
  <2> QED BY <1>1, <2>1, <2>2, WritesTyped DEF Handles
<1> QED BY <1>1, <1>2, StageStep, InodesStep, LoneStep, DeletedStep, RevisionsStep, LoadedStep, RunsStep

LEMMA CrashInductive ==
    ASSUME IInv, Crash
    PROVE  IInv'
<1> USE DEF IInv
<1>1. \A p \in Requests : ~Open(p)' /\ ~Holding(p)' /\ ~SavesJob(p)'
  BY Crashed
<1>2. UNCHANGED <<file, tmp, content, kind, result, doomed, late, raced>>
  BY DEF Crash, disk
<1>3. \A p \in Requests : stage[p] = "done" => stage'[p] = "done"
  BY DEF Crash, TypeOK
<1>4. tmp' \in {tmp, [tmp EXCEPT !["run.json"] = 0]}
  BY <1>2
<1>5. InodesOK'
  BY <1>1, <1>2, <1>4, InodesIdle
<1>6. LoneOK'
  BY <1>1, <1>2, LoneIdle
<1>7. RevisionsOK'
  BY <1>2, <1>3, RevisionsIdle DEF JobSame, At
<1>9. DeletedOK'
  BY <1>1, <1>2, DeletedIdle
<1>8. LoadedOK'
  BY <1>1 DEF LoadedOK
<1> QED BY <1>5, <1>6, <1>7, <1>8, <1>9, ServerTyped, StageCrash, RunsCrash

LEMMA RestartInductive ==
    ASSUME IInv, Recover \/ RecoverFails
    PROVE  IInv'
<1> USE DEF IInv
<1>1. UNCHANGED <<file, stage, kind, target, result, doomed, late, raced>> /\ ~up
  BY DEF Recover, RecoverFails, disk, request, deletion
<1>2. \A p \in Requests : ~Open(p)' /\ ~Holding(p)' /\ ~SavesJob(p)'
  BY <1>1, Idle DEF Open, Holding, ChangesJob, SavesJob, Writing
<1>3. tmp' \in {tmp, [tmp EXCEPT !["run.json"] = 0]}
  BY DEF Recover, RecoverFails, disk
<1>4. file["job.json"] # 0 => JobSame
  <2>1. CASE UNCHANGED content
    BY <1>1, <2>1 DEF JobSame, At
  <2>2. CASE Recover /\ content' = [content EXCEPT ![file["run.json"]].status = "FAILED"]
    <3>1. file["job.json"] # 0 => file["job.json"] # file["run.json"] /\ file["job.json"] \in Inodes
      BY DEF InodesOK, TypeOK, Paths
    <3> QED BY <1>1, <2>2, <3>1 DEF JobSame, At, Readable, TypeOK
  <2> QED BY <2>1, <2>2 DEF Recover, RecoverFails, disk
<1>5. InodesOK'
  BY <1>1, <1>2, <1>3, InodesIdle
<1>6. LoneOK'
  BY <1>1, <1>2, LoneIdle
<1>7. RevisionsOK'
  BY <1>1, <1>4, RevisionsIdle
<1>9. DeletedOK'
  <2>1. tmp'["job.json"] = tmp["job.json"]
    BY <1>3 DEF TypeOK, Paths
  <2> QED BY <1>1, <1>2, <2>1, DeletedIdle
<1>8. LoadedOK'
  BY <1>2 DEF LoadedOK
<1> QED BY <1>5, <1>6, <1>7, <1>8, <1>9, ServerTyped, StageRestart, RunsRestart

LEMMA Unchanged ==
    ASSUME IInv, UNCHANGED vars
    PROVE  IInv'
<1> USE DEF vars, disk, request, server, deletion
<1>1. \A p \in Requests :
        /\ (AtWork(p)' <=> AtWork(p)) /\ (Open(p)' <=> Open(p)) /\ (ChangesJob(p)' <=> ChangesJob(p))
        /\ (Holding(p)' <=> Holding(p)) /\ (SavesJob(p)' <=> SavesJob(p))
        /\ Payload(p)' = Payload(p) /\ (Loaded(p)' <=> Loaded(p))
  BY DEF AtWork, Open, ChangesJob, Holding, SavesJob, Writing, Payload, Loaded, At, Readable
<1>2. Writing("job.json")' = Writing("job.json") /\ Writing("run.json")' = Writing("run.json")
      /\ Writing("findings.json")' = Writing("findings.json")
  BY DEF Writing
<1>3. (Unraced' <=> Unraced) /\ (Deleted' <=> Deleted)
  BY DEF Unraced, Deleted
<1>4. TypeOK' /\ StageOK' /\ InodesOK'
  BY <1>1, <1>2 DEF IInv, TypeOK, StageOK, InodesOK
<1>5. LoneOK' /\ DeletedOK'
  BY <1>1, <1>3 DEF IInv, LoneOK, DeletedOK
<1>6. RevisionsOK' /\ LoadedOK'
  BY <1>1, <1>3 DEF IInv, RevisionsOK, LoadedOK, Readable, At
<1>7. RunsOK'
  BY <1>1, <1>2 DEF IInv, RunsOK, Current, At
<1> QED BY <1>4, <1>5, <1>6, <1>7 DEF IInv

LEMMA Inductive == IInv /\ [Next]_vars => IInv'
  BY HandleInductive, CrashInductive, RestartInductive, Unchanged DEF Next

LEMMA Invariant == Spec => []IInv
  BY Initially, Inductive, PTL DEF Spec
------------------------------------------------------------------------------
(* What job.json says of the other files. *)

WritesF(p) == p \in Writing("findings.json")

(* A request for findings that is past the rename of findings.json. *)
Past(p) == kind[p] = "findings" /\ (stage[p] = "check" \/ SavesJob(p))

(* The request whose findings findings.json has. *)
Writer == IF file["findings.json"] = 0 THEN 0 ELSE At("findings.json").rev

KindOK ==
    \A p \in Requests :
        /\ stage[p] \in {"run", "reload"} => kind[p] = "create_run"
        /\ WritesF(p) => kind[p] = "findings"

(* No two requests wrote findings.json at once. *)
FindingsLoneOK ==
    (raced = {} /\ ~doomed) =>
        /\ \A p, q \in Requests : (WritesF(p) /\ WritesF(q)) => p = q
        /\ \A p \in Requests : (WritesF(p) /\ Open(p)) => fd[p] = tmp["findings.json"]
        /\ \A p \in Requests : (WritesF(p) /\ stage[p] = "fill") => content[fd[p]].state = "empty"
        /\ \A p \in Requests : (WritesF(p) /\ stage[p] = "move") => content[fd[p]] = Payload(p)

(* The runs that are named, or are about to be, are there. *)
RunRefsOK ==
    (Unraced /\ ~doomed) =>
        /\ At("job.json").run \in runs \cup {0}
        /\ \A p \in Requests : Holding(p) => base[p].run \in runs \cup {0}
        /\ \A p \in Requests : stage[p] = "reload" => p \in runs

(* What a request is to write into job.json of the findings: its own, or   *)
(* what is there.                                                          *)
Carries(p) ==
    /\ kind[p] = "findings" => base[p].findings = p
    /\ kind[p] # "findings" =>
        /\ base[p].rev = At("job.json").rev => base[p].findings = At("job.json").findings
        /\ SavesJob(p) => base[p].findings = At("job.json").findings

(* The writer of findings.json has not been answered with success; or      *)
(* job.json names it, and those that wrote before it will find another     *)
(* revision.                                                               *)
WriterOK ==
    \/ \E w \in Requests : w = Writer /\ kind[w] = "findings" /\ result[w] # "ok"
    \/ /\ At("job.json").findings = Writer
       /\ \A q \in Requests : Past(q) => stage[q] = "check" /\ expected[q] # At("job.json").rev

FindingsOK ==
    (raced = {} /\ ~doomed) =>
        /\ \A p \in Requests : Holding(p) => Carries(p)
        /\ WriterOK

SideInv == KindOK /\ FindingsLoneOK /\ RunRefsOK /\ FindingsOK

LEMMA KindStep ==
    ASSUME TypeOK, StageOK, KindOK, NEW p \in Requests, Handles(p)
    PROVE  KindOK'
<1>0. "findings.json" \in Paths /\ Others(p)
  BY Persist DEF Paths
<1> SUFFICES /\ stage'[p] \in {"run", "reload"} => kind'[p] = "create_run"
             /\ WritesF(p)' => kind'[p] = "findings"
  <2>1. \A q \in Requests \ {p} : (WritesF(q)' <=> WritesF(q)) /\ stage'[q] = stage[q] /\ kind'[q] = kind[q]
    BY <1>0, OthersSame DEF WritesF, Others
  <2> QED BY <2>1 DEF KindOK
<1>1. CASE Receive(p)
  <2>1. stage'[p] \in {"load", "delete"}
    BY <1>1, GoToDoes DEF Receive
  <2> QED BY <2>1 DEF WritesF, Writing
<1>2. CASE LoadForPatch(p) \/ LoadAgain(p)
  <2>1. stage'[p] = "check"
    BY <1>2, GoToDoes DEF LoadForPatch, LoadAgain
  <2> QED BY <2>1 DEF WritesF, Writing
<1>3. CASE LoadForFindings(p)
  <2>1. stage'[p] = "create" /\ kind'[p] = "findings"
    BY <1>0, <1>3, AboutToWriteDoes DEF LoadForFindings
  <2> QED BY <2>1
<1>9. CASE BeginDelete(p) \/ Unlink(p)
  <2>1. stage'[p] = "unlink"
    BY <1>9, GoToDoes, UnlinkDoes DEF BeginDelete, request
  <2> QED BY <2>1 DEF WritesF, Writing
<1>4. CASE LoadForRun(p) \/ WriteRun(p)
  <2>1. stage'[p] \in {"run", "reload"} /\ kind'[p] = "create_run"
    BY <1>4, GoToDoes DEF LoadForRun, WriteRun, KindOK
  <2> QED BY <2>1 DEF WritesF, Writing
<1>5. CASE LoadRun(p)
  <2>1. stage'[p] = "create" /\ target'[p] = "run.json"
    BY <1>5, AboutToWriteDoes DEF LoadRun, Paths
  <2> QED BY <2>1 DEF WritesF, Writing
<1>6. CASE Ends(p) \/ CheckRevision(p) \/ RemoveDirectory(p) \/ MoveTmp(p)
  <2>1. stage'[p] \in {"create", "done", "check"} /\ (stage'[p] = "create" => target'[p] = "job.json")
    BY <1>6, EndsDoes, CheckDoes, RemoveDoes, MoveDoes
  <2> QED BY <2>1 DEF WritesF, Writing
<1>7. CASE CreateTmp(p)
  <2>1. stage[p] = "create" /\ stage'[p] = "fill" /\ target'[p] = target[p] /\ kind'[p] = kind[p]
    BY <1>7, CreateDoes
  <2> QED BY <2>1 DEF KindOK, WritesF, Writing
<1>8. CASE FillTmp(p)
  <2>1. stage[p] = "fill" /\ stage'[p] = "move" /\ target'[p] = target[p] /\ kind'[p] = kind[p]
    BY <1>8, GoToDoes DEF FillTmp
  <2> QED BY <2>1 DEF KindOK, WritesF, Writing
<1> QED BY <1>1, <1>2, <1>3, <1>4, <1>5, <1>6, <1>7, <1>8, <1>9 DEF Handles, Advances

------------------------------------------------------------------------------
(* One writer of findings.json *)

LEMMA FindingsLoneKept ==
    ASSUME TypeOK, FindingsLoneOK, NEW p \in Requests, Others(p), raced \subseteq raced', doomed => doomed',
           ~WritesF(p)', tmp'["findings.json"] = tmp["findings.json"] \/ Writing("findings.json") \subseteq {p},
           \A q \in Requests \ {p} :
                (WritesF(q) /\ Open(q)) => content'[fd[q]] = content[fd[q]]
    PROVE  FindingsLoneOK'
<1> SUFFICES ASSUME raced' = {}, ~doomed' PROVE FindingsLoneOK'
  BY DEF FindingsLoneOK
<1>1. raced = {} /\ ~doomed
  OBVIOUS
<1>2. \A q \in Requests \ {p} :
        /\ stage'[q] = stage[q] /\ fd'[q] = fd[q] /\ Payload(q)' = Payload(q)
        /\ (WritesF(q)' <=> WritesF(q)) /\ (Open(q)' <=> Open(q))
  BY OthersSame DEF Others, WritesF, Paths
<1>3. (\A q, r \in Requests : (WritesF(q) /\ WritesF(r)) => q = r)'
  BY <1>1, <1>2 DEF FindingsLoneOK
<1>4. (\A q \in Requests : (WritesF(q) /\ Open(q)) => fd[q] = tmp["findings.json"])'
  BY <1>1, <1>2 DEF FindingsLoneOK, WritesF
<1>5. (\A q \in Requests : (WritesF(q) /\ stage[q] = "fill") => content[fd[q]].state = "empty")'
  <2> SUFFICES ASSUME NEW q \in Requests, WritesF(q)', stage'[q] = "fill"
               PROVE  content'[fd'[q]].state = "empty"
    OBVIOUS
  <2>1. q # p /\ WritesF(q) /\ stage[q] = "fill"
    BY <1>2
  <2>2. content[fd[q]].state = "empty"
    BY <1>1, <2>1 DEF FindingsLoneOK
  <2> QED BY <1>2, <2>1, <2>2 DEF Open
<1>6. (\A q \in Requests : (WritesF(q) /\ stage[q] = "move") => content[fd[q]] = Payload(q))'
  <2> SUFFICES ASSUME NEW q \in Requests, WritesF(q)', stage'[q] = "move"
               PROVE  content'[fd'[q]] = Payload(q)'
    OBVIOUS
  <2>1. q # p /\ WritesF(q) /\ stage[q] = "move"
    BY <1>2
  <2>2. content[fd[q]] = Payload(q)
    BY <1>1, <2>1 DEF FindingsLoneOK
  <2> QED BY <1>2, <2>1, <2>2 DEF Open
<1> QED BY <1>3, <1>4, <1>5, <1>6 DEF FindingsLoneOK

LEMMA FindingsLoneStep ==
    ASSUME TypeOK, StageOK, InodesOK, FindingsLoneOK, NEW p \in Requests, Handles(p)
    PROVE  FindingsLoneOK'
<1>0. "findings.json" \in Paths /\ Others(p) /\ raced \subseteq raced' /\ (doomed => doomed')
  BY Persist DEF Paths
<1>1. CASE LoadForFindings(p)
  <2> SUFFICES ASSUME raced' = {}, ~doomed' PROVE FindingsLoneOK'
    BY DEF FindingsLoneOK
  <2>1. stage'[p] = "create" /\ Writing("findings.json") = {}
    BY <1>0, <1>1, AboutToWriteDoes DEF LoadForFindings
  <2>2. \A q \in Requests : WritesF(q)' => q = p
    BY <1>0, <2>1, OthersSame DEF WritesF
  <2> QED BY <2>1, <2>2 DEF FindingsLoneOK, Open
<1>2. CASE Advances(p) /\ ~LoadForFindings(p)
  <2>1. UNCHANGED <<file, tmp, content>>
    BY <1>2, AdvancesDoes
  <2>2. ~WritesF(p)'
    <3>1. CASE Receive(p)
      <4>1. stage'[p] \in {"load", "delete"}
        BY <3>1, GoToDoes DEF Receive
      <4> QED BY <4>1 DEF WritesF, Writing
    <3>2. CASE LoadForPatch(p) \/ LoadForRun(p) \/ WriteRun(p) \/ LoadAgain(p) \/ BeginDelete(p)
      <4>1. stage'[p] \in {"check", "run", "reload", "unlink"}
        BY <3>2, GoToDoes DEF LoadForPatch, LoadForRun, WriteRun, LoadAgain, BeginDelete
      <4> QED BY <4>1 DEF WritesF, Writing
    <3>3. CASE LoadRun(p)
      <4>1. target'[p] = "run.json"
        BY <3>3, AboutToWriteDoes DEF LoadRun, Paths
      <4> QED BY <4>1 DEF WritesF, Writing
    <3> QED BY <1>2, <3>1, <3>2, <3>3 DEF Advances
  <2> QED BY <1>0, <2>1, <2>2, FindingsLoneKept
<1>3. CASE Ends(p)
  BY <1>0, <1>3, EndsDoes, FindingsLoneKept DEF disk, WritesF, Writing
<1>4. CASE CheckRevision(p)
  BY <1>0, <1>4, CheckDoes, FindingsLoneKept DEF WritesF, Writing
<1>5. CASE CreateTmp(p)
  <2> DEFINE t == target[p]
  <2>1. t \in Paths
    BY DEF TypeOK
  <2>2. PICK i \in Inodes :
          /\ IF tmp[t] = 0 THEN i \notin Used ELSE i = tmp[t]
          /\ fd'[p] = i /\ tmp'[t] = i
          /\ \A a \in Paths : a # t => tmp'[a] = tmp[a]
          /\ content'[i] = Blank
          /\ \A j \in Inodes : j # i => content'[j] = content[j]
    BY <1>5, CreateDoes
  <2>3. UNCHANGED raced /\ stage[p] = "create" /\ stage'[p] = "fill" /\ target'[p] = t
    BY <1>5, CreateDoes
  <2>4. CASE t = "findings.json"
    <3> SUFFICES ASSUME raced' = {}, ~doomed' PROVE FindingsLoneOK'
      BY DEF FindingsLoneOK
    <3>1. WritesF(p) /\ raced = {} /\ ~doomed
      BY <1>0, <2>3, <2>4 DEF WritesF, Writing
    <3>2. \A q \in Requests : WritesF(q)' => q = p
      BY <1>0, <3>1, OthersSame DEF FindingsLoneOK, WritesF
    <3>3. fd'[p] = tmp'["findings.json"] /\ content'[fd'[p]].state = "empty"
      BY <2>2, <2>4 DEF Blank
    <3> QED BY <2>3, <3>2, <3>3 DEF FindingsLoneOK
  <2>5. CASE t # "findings.json"
    <3>1. ~WritesF(p)'
      BY <2>3, <2>5 DEF WritesF, Writing
    <3>2. \A q \in Requests \ {p} : (WritesF(q) /\ Open(q)) => fd[q] # i /\ fd[q] \in Inodes
      BY <2>1, <2>2, <2>5 DEF InodesOK, Used, WritesF, Writing, TypeOK
    <3> QED BY <1>0, <2>2, <2>5, <3>1, <3>2, FindingsLoneKept
  <2> QED BY <2>4, <2>5
<1>6. CASE FillTmp(p)
  <2>1. /\ UNCHANGED <<file, tmp, raced>> /\ stage[p] = "fill" /\ stage'[p] = "move"
        /\ target'[p] = target[p] /\ base'[p] = base[p] /\ fd'[p] = fd[p] /\ fd[p] \in Inodes
    BY <1>6, FillDoes
  <2>2. CASE target[p] = "findings.json"
    <3> SUFFICES ASSUME raced' = {}, ~doomed' PROVE FindingsLoneOK'
      BY DEF FindingsLoneOK
    <3>1. WritesF(p) /\ Open(p) /\ raced = {} /\ ~doomed
      BY <1>0, <2>1, <2>2 DEF WritesF, Writing, Open
    <3>2. \A q \in Requests : WritesF(q)' => q = p
      BY <1>0, <3>1, OthersSame DEF FindingsLoneOK, WritesF
    <3>3. fd'[p] = tmp'["findings.json"] /\ content[fd[p]].state = "empty"
      BY <2>1, <3>1 DEF FindingsLoneOK
    <3>4. Payload(p)' = Payload(p)
      BY <2>1 DEF Payload
    <3>5. content'[fd'[p]] = Payload(p)'
      BY <1>6, <2>1, <3>3, <3>4, FillDoes
    <3> QED BY <2>1, <3>2, <3>3, <3>5 DEF FindingsLoneOK
  <2>3. CASE target[p] # "findings.json"
    <3>1. ~WritesF(p)'
      BY <2>1, <2>3 DEF WritesF, Writing
    <3>2. \A q \in Requests \ {p} : (WritesF(q) /\ Open(q)) => fd[q] # fd[p] /\ fd[q] \in Inodes
      BY <2>1, <2>3 DEF InodesOK, WritesF, Writing, TypeOK, Open
    <3>3. \A j \in Inodes : j # fd[p] => content'[j] = content[j]
      BY <1>6, FillDoes
    <3> QED BY <1>0, <2>1, <3>1, <3>2, <3>3, FindingsLoneKept
  <2> QED BY <2>2, <2>3
<1>7. CASE MoveTmp(p)
  <2>1. /\ UNCHANGED content /\ stage[p] = "move" /\ ~WritesF(p)'
        /\ \A a \in Paths : a # target[p] => tmp'[a] = tmp[a]
    BY <1>7, MoveDoes DEF WritesF, Writing
  <2>2. CASE target[p] = "findings.json"
    <3> SUFFICES ASSUME raced' = {}, ~doomed' PROVE FindingsLoneOK'
      BY DEF FindingsLoneOK
    <3>1. Writing("findings.json") \subseteq {p}
      BY <1>0, <2>1, <2>2 DEF FindingsLoneOK, WritesF, Writing
    <3> QED BY <1>0, <2>1, <3>1, FindingsLoneKept
  <2>3. CASE target[p] # "findings.json"
    BY <1>0, <2>1, <2>3, FindingsLoneKept
  <2> QED BY <2>2, <2>3
<1>8. CASE Unlink(p) \/ RemoveDirectory(p)
  BY <1>0, <1>8, Persist DEF FindingsLoneOK
<1> QED BY <1>1, <1>2, <1>3, <1>4, <1>5, <1>6, <1>7, <1>8 DEF Handles
------------------------------------------------------------------------------
(* What a request has loaded, and what its step keeps *)

LEMMA LoadsCopy ==
    ASSUME TypeOK, KindOK, NEW p \in Requests, Advances(p), Holding(p)'
    PROVE  /\ base'[p].rev = At("job.json").rev
           /\ \/ base'[p].run = At("job.json").run
              \/ base'[p].run = p /\ stage[p] = "reload"
           /\ kind'[p] = "findings" => base'[p].findings = p
           /\ kind'[p] # "findings" => base'[p].findings = At("job.json").findings
           /\ stage'[p] = "check" => kind'[p] # "findings"
<1> DEFINE d == At("job.json")
<1>1. CASE Receive(p)
  <2>1. stage'[p] \in {"load", "delete"}
    BY <1>1, GoToDoes DEF Receive
  <2> QED BY <2>1 DEF Holding
<1>2. CASE LoadForPatch(p)
  <2>1. base'[p] = d /\ kind'[p] = "patch"
    BY <1>2 DEF LoadForPatch, TypeOK
  <2> QED BY <2>1
<1>3. CASE LoadForFindings(p)
  <2>1. d \in Documents
    BY <1>3, AtTyped DEF LoadForFindings, Paths
  <2>2. base'[p] = [d EXCEPT !.findings = p] /\ kind'[p] = "findings" /\ stage'[p] = "create"
    BY <1>3, AboutToWriteDoes DEF LoadForFindings, TypeOK, Paths
  <2> QED BY <2>1, <2>2 DEF Documents
<1>4. CASE LoadForRun(p) \/ WriteRun(p) \/ BeginDelete(p)
  BY <1>4, GoToDoes DEF LoadForRun, WriteRun, BeginDelete, Holding
<1>5. CASE LoadAgain(p)
  <2>1. d \in Documents
    BY <1>5, AtTyped DEF LoadAgain, Paths
  <2>2. base'[p] = [d EXCEPT !.run = p] /\ stage[p] = "reload" /\ kind'[p] = "create_run"
    BY <1>5 DEF LoadAgain, TypeOK, KindOK
  <2> QED BY <2>1, <2>2 DEF Documents
<1>6. CASE LoadRun(p)
  BY <1>6 DEF LoadRun, Holding, ChangesJob
<1> QED BY <1>1, <1>2, <1>3, <1>4, <1>5, <1>6 DEF Advances

LEMMA HeldBefore ==
    ASSUME TypeOK, InodesOK, NEW p \in Requests, Handles(p), ~Advances(p), Holding(p)'
    PROVE  /\ Holding(p)
           /\ base'[p] = base[p] /\ expected'[p] = expected[p] /\ kind'[p] = kind[p]
           /\ SavesJob(p)' => SavesJob(p) \/ CheckRevision(p)
<1>1. CASE Ends(p) \/ RemoveDirectory(p)
  BY <1>1, EndsDoes, RemoveDoes DEF Holding
<1>2. CASE CheckRevision(p)
  <2>1. /\ stage[p] = "check" /\ base'[p] = base[p] /\ expected'[p] = expected[p]
        /\ kind'[p] = kind[p]
    BY <1>2, CheckDoes
  <2> QED BY <1>2, <2>1 DEF Holding, ChangesJob
<1>3. CASE CreateTmp(p) \/ FillTmp(p)
  <2>1. /\ base'[p] = base[p] /\ expected'[p] = expected[p] /\ kind'[p] = kind[p]
        /\ target'[p] = target[p] /\ stage[p] \in {"create", "fill"}
    BY <1>3, CreateDoes, FillDoes
  <2> QED BY <2>1 DEF Holding, ChangesJob, SavesJob, Writing
<1>4. CASE MoveTmp(p)
  <2>1. /\ base'[p] = base[p] /\ expected'[p] = expected[p] /\ kind'[p] = kind[p]
        /\ stage[p] = "move" /\ stage'[p] = "check"
    BY <1>4, MoveDoes DEF Holding
  <2> QED BY <2>1 DEF Holding, ChangesJob, SavesJob, Writing
<1>5. CASE Unlink(p)
  <2>1. stage[p] = "unlink" /\ UNCHANGED stage
    BY <1>5, UnlinkDoes DEF request
  <2> QED BY <2>1 DEF Holding
<1> QED BY <1>1, <1>2, <1>3, <1>4, <1>5 DEF Handles

(* A request for findings comes past the rename of findings.json by it.    *)
LEMMA PastStep ==
    ASSUME TypeOK, StageOK, InodesOK, KindOK, NEW p \in Requests, Handles(p), ~MoveTmp(p)
    PROVE  Past(p)' => (stage[p] = "check" /\ CheckRevision(p) /\ Past(p)) \/ (SavesJob(p) /\ Past(p))
<1>1. CASE Advances(p)
  <2>1. ~SavesJob(p)'
    BY <1>1, AdvancesDoes
  <2>2. ~(stage'[p] = "check" /\ kind'[p] = "findings")
    <3> SUFFICES ASSUME stage'[p] = "check", kind'[p] = "findings" PROVE FALSE
      OBVIOUS
    <3>1. Holding(p)'
      BY DEF Holding, ChangesJob
    <3> QED BY <1>1, <3>1, LoadsCopy
  <2> QED BY <2>1, <2>2 DEF Past
<1>2. CASE Ends(p)
  <2>1. stage'[p] = "done"
    BY <1>2, EndsDoes
  <2> QED BY <2>1 DEF Past, SavesJob, Writing
<1>3. CASE CheckRevision(p)
  <2>1. stage[p] = "check" /\ stage'[p] = "create" /\ target'[p] = "job.json" /\ kind'[p] = kind[p]
    BY <1>3, CheckDoes
  <2> QED BY <1>3, <2>1 DEF Past, SavesJob, Writing
<1>4. CASE CreateTmp(p) \/ FillTmp(p)
  <2>1. /\ kind'[p] = kind[p] /\ target'[p] = target[p] /\ stage[p] \in {"create", "fill"}
        /\ stage'[p] \in {"fill", "move"}
    BY <1>4, CreateDoes, FillDoes
  <2> QED BY <2>1 DEF Past, SavesJob, Writing
<1>5. CASE Unlink(p) \/ RemoveDirectory(p)
  <2>1. stage'[p] \in {"unlink", "done"}
    BY <1>5, UnlinkDoes, RemoveDoes DEF request
  <2> QED BY <2>1 DEF Past, SavesJob, Writing
<1> QED BY <1>1, <1>2, <1>3, <1>4, <1>5 DEF Handles

------------------------------------------------------------------------------
(* The runs that are named *)

LEMMA RunsGrow ==
    ASSUME TypeOK, NEW p \in Requests, Handles(p), ~Unlink(p)
    PROVE  runs \subseteq runs' /\ (WriteRun(p) => p \in runs')
<1>1. CASE Advances(p)
  BY <1>1 DEF Advances, Receive, LoadForPatch, LoadForFindings, LoadForRun, WriteRun, LoadAgain,
              LoadRun, BeginDelete, disk
<1>2. CASE ~Advances(p)
  <2>1. UNCHANGED runs
    BY <1>2 DEF Handles, Ends, NotFound, Conflict, MoveFails, WriteFails, NothingToDelete,
                DirectoryGone, DeleteFails, CheckRevision, CreateTmp, FillTmp, MoveTmp,
                RemoveDirectory, disk
  <2>2. ~WriteRun(p)
    BY <1>2 DEF Advances
  <2> QED BY <2>1, <2>2
<1> QED BY <1>1, <1>2

LEMMA ReloadStep ==
    ASSUME TypeOK, NEW p \in Requests, Handles(p), stage'[p] = "reload"
    PROVE  WriteRun(p)
<1>1. CASE Receive(p)
  <2>1. stage'[p] \in {"load", "delete"}
    BY <1>1, GoToDoes DEF Receive
  <2> QED BY <2>1
<1>2. CASE LoadForPatch(p) \/ LoadForRun(p) \/ LoadAgain(p)
  <2>1. stage'[p] \in {"check", "run"}
    BY <1>2, GoToDoes DEF LoadForPatch, LoadForRun, LoadAgain
  <2> QED BY <2>1
<1>3. CASE LoadForFindings(p) \/ LoadRun(p)
  <2>1. stage'[p] = "create"
    BY <1>3, AboutToWriteDoes DEF LoadForFindings, LoadRun, Paths
  <2> QED BY <2>1
<1>4. CASE Ends(p) \/ CheckRevision(p) \/ CreateTmp(p) \/ MoveTmp(p)
  <2>1. stage'[p] \in {"done", "create", "fill", "check"}
    BY <1>4, EndsDoes, CheckDoes, CreateDoes, MoveDoes
  <2> QED BY <2>1
<1>6. CASE BeginDelete(p) \/ Unlink(p) \/ RemoveDirectory(p)
  <2>1. stage'[p] \in {"unlink", "done"}
    BY <1>6, GoToDoes, UnlinkDoes, RemoveDoes DEF BeginDelete, request
  <2> QED BY <2>1
<1>5. CASE FillTmp(p)
  <2>1. stage'[p] = "move"
    BY <1>5, GoToDoes DEF FillTmp
  <2> QED BY <2>1
<1> QED BY <1>1, <1>2, <1>3, <1>4, <1>5, <1>6 DEF Handles, Advances

LEMMA RunRefsStep ==
    ASSUME IInv, KindOK, RunRefsOK, NEW p \in Requests, Handles(p)
    PROVE  RunRefsOK'
<1> USE DEF IInv
<1> SUFFICES ASSUME Unraced', ~doomed' PROVE RunRefsOK'
  BY DEF RunRefsOK
<1>1. Unraced /\ ~doomed /\ Others(p) /\ ~Unlink(p)
  BY Persist DEF Unraced
<1>2. /\ At("job.json").run \in runs \cup {0}
      /\ \A q \in Requests : Holding(q) => base[q].run \in runs \cup {0}
      /\ \A q \in Requests : stage[q] = "reload" => q \in runs
  BY <1>1 DEF RunRefsOK
<1>3. runs \subseteq runs' /\ (WriteRun(p) => p \in runs')
  BY <1>1, RunsGrow
<1>4. Readable("job.json")
  BY <1>1 DEF RevisionsOK
<1>5. (\A q \in Requests : stage[q] = "reload" => q \in runs)'
  BY <1>1, <1>2, <1>3, ReloadStep DEF Others
<1>6. (\A q \in Requests : Holding(q) => base[q].run \in runs \cup {0})'
  <2> SUFFICES ASSUME NEW q \in Requests, Holding(q)' PROVE base'[q].run \in runs' \cup {0}
    OBVIOUS
  <2>1. CASE q # p
    BY <1>1, <1>2, <1>3, <2>1, OthersSame DEF Others
  <2>2. CASE q = p /\ Advances(p)
    BY <1>2, <1>3, <2>2, LoadsCopy
  <2>3. CASE q = p /\ ~Advances(p)
    BY <1>2, <1>3, <2>3, HeldBefore
  <2> QED BY <2>1, <2>2, <2>3
<1>7. At("job.json")'.run \in runs' \cup {0}
  <2>1. CASE MoveTmp(p) /\ target[p] = "job.json"
    <3>1. At("job.json")' = Payload(p) /\ Holding(p)
      BY <1>1, <2>1, RenameDoes
    <3>2. Payload(p).run = base[p].run
      <4>1. base[p] \in Documents
        BY DEF TypeOK
      <4> QED BY <4>1 DEF Payload, Documents
    <3> QED BY <1>2, <1>3, <3>1, <3>2
  <2>2. CASE ~(MoveTmp(p) /\ target[p] = "job.json")
    <3>1. JobSame
      BY <1>1, <1>4, <2>2, JobSameStep DEF Readable
    <3> QED BY <1>2, <1>3, <3>1 DEF JobSame
  <2> QED BY <2>1, <2>2
<1> QED BY <1>5, <1>6, <1>7 DEF RunRefsOK
------------------------------------------------------------------------------
(* The findings that are named *)

(* Only the rename of findings.json, and the deletion, change its writer. *)
LEMMA WriterSame ==
    ASSUME TypeOK, InodesOK, FindingsLoneOK, raced = {}, ~doomed, NEW p \in Requests, Handles(p),
           ~Unlink(p), ~(MoveTmp(p) /\ target[p] = "findings.json")
    PROVE  Writer' = Writer
<1> DEFINE f == file["findings.json"]
<1>1. "findings.json" \in Paths /\ target[p] \in Paths /\ f \in Inodes \cup {0}
  BY DEF TypeOK, Paths
<1>2. CASE Advances(p) \/ Ends(p) \/ CheckRevision(p)
  BY <1>2, AdvancesDoes, EndsDoes, CheckDoes DEF Writer, At, disk
<1>3. CASE CreateTmp(p)
  <2>1. PICK i \in Inodes :
          /\ IF tmp[target[p]] = 0 THEN i \notin Used ELSE i = tmp[target[p]]
          /\ \A j \in Inodes : j # i => content'[j] = content[j]
    BY <1>3, CreateDoes
  <2>2. f # 0 => f # i
    BY <1>1, <2>1 DEF InodesOK, Used
  <2> QED BY <1>1, <1>3, <2>1, <2>2, CreateDoes DEF Writer, At
<1>4. CASE FillTmp(p)
  <2>1. /\ stage[p] = "fill" /\ UNCHANGED file
        /\ \A j \in Inodes : j # fd[p] => content'[j] = content[j]
    BY <1>4, FillDoes
  <2>2. f # 0 => f # fd[p]
    <3>1. CASE target[p] = "findings.json"
      <4>1. WritesF(p) /\ Open(p)
        BY <2>1, <3>1 DEF WritesF, Writing, Open
      <4>2. fd[p] = tmp["findings.json"]
        BY <4>1 DEF FindingsLoneOK
      <4> QED BY <1>1, <4>2 DEF InodesOK
    <3>2. CASE target[p] # "findings.json"
      BY <1>1, <2>1, <3>2 DEF InodesOK, Open
    <3> QED BY <3>1, <3>2
  <2> QED BY <1>1, <2>1, <2>2 DEF Writer, At
<1>5. CASE MoveTmp(p)
  BY <1>1, <1>5, MoveDoes DEF Writer, At
<1>6. CASE RemoveDirectory(p)
  BY <1>6, RemoveDoes DEF Writer, At
<1> QED BY <1>2, <1>3, <1>4, <1>5, <1>6 DEF Handles

LEMMA FindingsRename ==
    ASSUME TypeOK, StageOK, KindOK, FindingsLoneOK, raced = {}, ~doomed, NEW p \in Requests,
           MoveTmp(p), target[p] = "findings.json"
    PROVE  Writer' = p /\ kind'[p] = "findings" /\ result'[p] # "ok"
<1>1. /\ UNCHANGED content /\ stage[p] = "move" /\ tmp["findings.json"] # 0
      /\ file'["findings.json"] = tmp["findings.json"]
      /\ kind'[p] = kind[p] /\ result'[p] = result[p]
  BY MoveDoes
<1>5. result[p] = "none"
  BY <1>1, StageParts
<1>2. WritesF(p) /\ Open(p)
  BY <1>1 DEF WritesF, Writing, Open
<1>3. content[tmp["findings.json"]] = Payload(p) /\ kind[p] = "findings"
  BY <1>1, <1>2 DEF FindingsLoneOK, KindOK
<1>4. Payload(p).rev = p
  <2>1. base[p] \in Documents
    BY DEF TypeOK
  <2> QED BY <2>1 DEF Payload, Documents
<1> QED BY <1>1, <1>3, <1>4, <1>5 DEF Writer, At

(* The rename of job.json: the findings it names are the request's own, or *)
(* those that were named; whoever is past the rename of findings.json and  *)
(* is not the only one past the check will find this revision instead of   *)
(* the one it expects.                                                     *)
LEMMA FindingsSave ==
    ASSUME IInv, KindOK, FindingsLoneOK, raced = {}, ~doomed, NEW p \in Requests,
           MoveTmp(p), target[p] = "job.json", Others(p),
           \A q \in Requests : Holding(q) => Carries(q), WriterOK
    PROVE  (\A q \in Requests : Holding(q) => Carries(q))' /\ WriterOK'
<1> USE DEF IInv
<1>1. Handles(p) /\ ~Unlink(p) /\ Unraced
  BY DEF Handles, MoveTmp, Unlink, Unraced
<1>2. /\ At("job.json")' = Payload(p) /\ Payload(p).rev = p
      /\ SavesJob(p) /\ Holding(p) /\ stage'[p] = "done"
      /\ \A q \in Requests \ {p} : ~SavesJob(q)
  BY <1>1, RenameDoes
<1>3. Payload(p).findings = base[p].findings
  <2>1. base[p] \in Documents
    BY DEF TypeOK
  <2> QED BY <2>1 DEF Payload, Documents
<1>4. Writer' = Writer /\ stage[p] = "move" /\ p # 0
  BY <1>1, WriterSame, MoveDoes, Numbers
<1>5. ASSUME NEW q \in Requests, q # p, Holding(q)
      PROVE  /\ base[q].rev # p /\ expected[q] # p
             /\ Carries(q)
  <2>1. Loaded(q) /\ Carries(q)
    BY <1>1, <1>5 DEF LoadedOK
  <2>2. base[q].rev # p
    BY <1>4, <2>1 DEF Loaded
  <2> QED BY <1>4, <2>1, <2>2 DEF Loaded
<1>6. (\A q \in Requests : Holding(q) => Carries(q))'
  <2> SUFFICES ASSUME NEW q \in Requests, Holding(q)' PROVE Carries(q)'
    OBVIOUS
  <2>1. q # p
    BY <1>2 DEF Holding
  <2>2. Holding(q) /\ ~SavesJob(q)' /\ base'[q] = base[q] /\ kind'[q] = kind[q]
    BY <1>2, <2>1, OthersSame DEF Others
  <2> QED BY <1>2, <1>5, <2>1, <2>2 DEF Carries
<1>7. ASSUME NEW q \in Requests, Past(q)'
      PROVE  stage'[q] = "check" /\ expected'[q] # p
  <2>1. q # p
    BY <1>2, <1>7 DEF Past, SavesJob, Writing
  <2>2. /\ stage'[q] = stage[q] /\ expected'[q] = expected[q] /\ kind'[q] = kind[q]
        /\ ~SavesJob(q) /\ (SavesJob(q)' <=> SavesJob(q))
    BY <1>2, <2>1, OthersSame DEF Others
  <2>3. stage[q] = "check" /\ kind[q] = "findings"
    BY <1>7, <2>2 DEF Past
  <2>4. Holding(q)
    BY <2>3 DEF Holding, ChangesJob
  <2> QED BY <1>5, <2>1, <2>2, <2>3, <2>4
<1>8. Carries(p)
  BY <1>2
<1>9. CASE \E w \in Requests : w = Writer /\ kind[w] = "findings" /\ result[w] # "ok"
  <2>1. PICK w \in Requests : w = Writer /\ kind[w] = "findings" /\ result[w] # "ok"
    BY <1>9
  <2>2. CASE w = p
    <3>1. base[p].findings = p
      BY <1>8, <2>1, <2>2 DEF Carries
    <3> QED BY <1>2, <1>3, <1>4, <1>6, <1>7, <2>1, <2>2, <3>1 DEF WriterOK
  <2>3. CASE w # p
    <3>1. kind'[w] = "findings" /\ result'[w] # "ok"
      BY <2>1, <2>3 DEF Others
    <3> QED BY <1>4, <1>6, <2>1, <3>1 DEF WriterOK
  <2> QED BY <2>2, <2>3
<1>10. CASE /\ At("job.json").findings = Writer
            /\ \A q \in Requests : Past(q) => stage[q] = "check" /\ expected[q] # At("job.json").rev
  <2>1. kind[p] # "findings"
    <3>1. ~Past(p)
      BY <1>4, <1>10
    <3> QED BY <1>2, <3>1 DEF Past
  <2>2. base[p].findings = At("job.json").findings
    BY <1>2, <1>8, <2>1 DEF Carries
  <2> QED BY <1>2, <1>3, <1>4, <1>6, <1>7, <1>10, <2>2 DEF WriterOK
<1> QED BY <1>9, <1>10 DEF WriterOK

(* A step that renames neither. *)
LEMMA FindingsHeld ==
    ASSUME IInv, KindOK, raced = {}, NEW p \in Requests, Handles(p), Others(p), JobSame,
           \A q \in Requests : Holding(q) => Carries(q)
    PROVE  (\A q \in Requests : Holding(q) => Carries(q))'
<1> USE DEF IInv
<1> SUFFICES ASSUME NEW q \in Requests, Holding(q)' PROVE Carries(q)'
  OBVIOUS
<1>1. At("job.json")' = At("job.json") /\ Unraced
  BY DEF JobSame, Unraced
<1>2. CASE q # p
  <2>1. Holding(q) /\ (SavesJob(q)' <=> SavesJob(q)) /\ base'[q] = base[q] /\ kind'[q] = kind[q]
    BY <1>2, OthersSame DEF Others
  <2>2. Carries(q)
    BY <2>1
  <2> QED BY <1>1, <2>1, <2>2 DEF Carries
<1>3. CASE q = p /\ Advances(p)
  <2>1. ~SavesJob(p)'
    BY <1>3, AdvancesDoes
  <2>2. /\ kind'[p] = "findings" => base'[p].findings = p
        /\ kind'[p] # "findings" => base'[p].findings = At("job.json").findings
    BY <1>3, LoadsCopy
  <2> QED BY <1>1, <1>3, <2>1, <2>2 DEF Carries
<1>4. CASE q = p /\ ~Advances(p)
  <2>1. /\ Holding(p) /\ base'[p] = base[p] /\ kind'[p] = kind[p]
        /\ SavesJob(p)' => SavesJob(p) \/ CheckRevision(p)
    BY <1>4, HeldBefore
  <2>2. Carries(p) /\ Loaded(p)
    BY <1>1, <2>1 DEF LoadedOK
  <2>3. CheckRevision(p) => At("job.json").rev = base[p].rev
    <3> SUFFICES ASSUME CheckRevision(p) PROVE At("job.json").rev = base[p].rev
      OBVIOUS
    <3>1. Readable("job.json") /\ At("job.json").rev = expected[p]
      BY CheckDoes
    <3> QED BY <2>2, <3>1 DEF Loaded
  <2> QED BY <1>1, <1>4, <2>1, <2>2, <2>3 DEF Carries
<1> QED BY <1>2, <1>3, <1>4

LEMMA KindLasts ==
    ASSUME TypeOK, StageOK, InodesOK, NEW p \in Requests, Handles(p),
           NEW q \in Requests, kind[q] = "findings"
    PROVE  kind'[q] = "findings"
<1>1. CASE q # p
  BY <1>1, Persist DEF Others
<1>2. CASE q = p /\ Advances(p)
  <2>1. stage[p] # "new"
    BY <1>2 DEF StageOK
  <2> QED BY <1>2, <2>1 DEF Advances, Receive, LoadForPatch, LoadForFindings, LoadForRun, WriteRun,
                            LoadAgain, LoadRun, BeginDelete
<1>3. CASE q = p /\ ~Advances(p)
  BY <1>3, EndsDoes, CheckDoes, CreateDoes, FillDoes, MoveDoes, UnlinkDoes, RemoveDoes DEF Handles, request
<1> QED BY <1>1, <1>2, <1>3

LEMMA FindingsKept ==
    ASSUME IInv, KindOK, FindingsLoneOK, raced = {}, ~doomed, NEW p \in Requests, Handles(p), Others(p),
           ~Unlink(p), ~MoveTmp(p) \/ target[p] = "run.json", JobSame, WriterOK
    PROVE  WriterOK'
<1> USE DEF IInv
<1>1. Writer' = Writer /\ At("job.json")' = At("job.json")
  BY WriterSame DEF JobSame
<1>2. \A q \in Requests \ {p} :
        /\ Past(q)' <=> Past(q)
        /\ stage'[q] = stage[q] /\ expected'[q] = expected[q]
  BY OthersSame DEF Past, Others
<1>3. Past(p)' => (stage[p] = "check" /\ CheckRevision(p) /\ Past(p)) \/ (SavesJob(p) /\ Past(p))
  <2>1. CASE MoveTmp(p)
    <3>1. stage[p] = "move" /\ target[p] = "run.json" /\ stage'[p] = "done"
      BY <2>1, MoveDoes
    <3> QED BY <3>1 DEF Past, SavesJob, Writing
  <2>2. CASE ~MoveTmp(p)
    BY <2>2, PastStep
  <2> QED BY <2>1, <2>2
<1>4. CASE \E w \in Requests : w = Writer /\ kind[w] = "findings" /\ result[w] # "ok"
  <2>1. PICK w \in Requests : w = Writer /\ kind[w] = "findings" /\ result[w] # "ok"
    BY <1>4
  <2>2. kind'[w] = "findings"
    BY <2>1, KindLasts
  <2>3. ~(MoveTmp(p) /\ target[p] = "job.json")
    OBVIOUS
  <2>4. result'[w] # "ok"
    BY <2>1, <2>2, <2>3, NoNewSuccess DEF ChangesJob
  <2> QED BY <1>1, <2>1, <2>2, <2>4 DEF WriterOK
<1>5. CASE /\ At("job.json").findings = Writer
           /\ \A q \in Requests : Past(q) => stage[q] = "check" /\ expected[q] # At("job.json").rev
  <2>1. ~Past(p)'
    <3>1. CheckRevision(p) => At("job.json").rev = expected[p]
      BY CheckDoes
    <3>2. ~(SavesJob(p) /\ stage[p] = "check")
      BY DEF SavesJob, Writing
    <3> QED BY <1>3, <1>5, <3>1, <3>2
  <2> QED BY <1>1, <1>2, <1>5, <2>1 DEF WriterOK
<1> QED BY <1>4, <1>5 DEF WriterOK

LEMMA FindingsStep ==
    ASSUME IInv, KindOK, FindingsLoneOK, FindingsOK, NEW p \in Requests, Handles(p)
    PROVE  FindingsOK'
<1> USE DEF IInv
<1> SUFFICES ASSUME raced' = {}, ~doomed'
             PROVE  (\A q \in Requests : Holding(q) => Carries(q))' /\ WriterOK'
  BY DEF FindingsOK
<1>1. raced = {} /\ ~doomed /\ ~Unlink(p) /\ Others(p) /\ Unraced
  BY Persist DEF Unraced
<1>3. (\A q \in Requests : Holding(q) => Carries(q)) /\ WriterOK
  BY <1>1 DEF FindingsOK
<1>4. Readable("job.json") /\ target[p] \in Paths
  BY <1>1 DEF RevisionsOK, TypeOK
<1>5. CASE MoveTmp(p) /\ target[p] = "job.json"
  BY <1>1, <1>3, <1>5, FindingsSave
<1>6. CASE ~(MoveTmp(p) /\ target[p] = "job.json")
  <2>1. JobSame
    BY <1>1, <1>4, <1>6, JobSameStep DEF Readable
  <2>2. (\A q \in Requests : Holding(q) => Carries(q))'
    BY <1>1, <1>3, <2>1, FindingsHeld
  <2>3. CASE MoveTmp(p) /\ target[p] = "findings.json"
    <3>1. Writer' = p /\ kind'[p] = "findings" /\ result'[p] # "ok"
      BY <1>1, <2>3, FindingsRename
    <3> QED BY <2>2, <3>1 DEF WriterOK
  <2>4. CASE ~MoveTmp(p) \/ target[p] = "run.json"
    BY <1>1, <1>3, <2>1, <2>2, <2>4, FindingsKept
  <2> QED BY <1>4, <1>6, <2>2, <2>3, <2>4 DEF Paths
<1> QED BY <1>5, <1>6

------------------------------------------------------------------------------
(* The invariant of the side files *)

LEMMA SideInitially == Init => SideInv
<1> SUFFICES ASSUME Init PROVE SideInv
  OBVIOUS
<1>1. \A p \in Requests : ~Holding(p) /\ ~WritesF(p) /\ ~Past(p) /\ stage[p] = "new"
  BY DEF Init, Holding, WritesF, Writing, Past, SavesJob
<1>2. file["findings.json"] = 0 /\ file["job.json"] = 1
  <2>1. "job.json" \in Paths /\ "findings.json" \in Paths
    BY DEF Paths
  <2>2. file = [path \in Paths |-> CASE path = "job.json" -> 1
                                     [] path = "run.json" -> 2
                                     [] OTHER -> 0]
    BY DEF Init
  <2> QED BY <2>1, <2>2
<1>3. At("job.json").run = 0 /\ At("job.json").findings = 0
  <2>1. content[1] = [Blank EXCEPT !.state = "whole"]
    BY Numbers DEF Init
  <2> QED BY <1>2, <2>1 DEF At, Blank
<1> QED BY <1>1, <1>2, <1>3 DEF SideInv, KindOK, FindingsLoneOK, RunRefsOK, FindingsOK, WriterOK, Writer

LEMMA SideHandle ==
    ASSUME IInv, SideInv, NEW p \in Requests, Handle(p)
    PROVE  SideInv'
<1>1. Handles(p)
  BY HandleParts
<1> QED BY <1>1, KindStep, FindingsLoneStep, RunRefsStep, FindingsStep DEF SideInv, IInv

(* Central stops or starts: nobody is at work, the documents of the job    *)
(* stay what they are.                                                     *)
LEMMA SideIdle ==
    ASSUME SideInv, UNCHANGED <<runs, raced, doomed, kind, result>>,
           Readable("job.json") => JobSame, Writer' = Writer,
           \A p \in Requests : stage'[p] \in {"new", "done"},
           RevisionsOK
    PROVE  SideInv'
<1>1. \A p \in Requests : ~Holding(p)' /\ ~WritesF(p)' /\ ~Past(p)'
  BY DEF Holding, WritesF, Writing, Past, SavesJob
<1>2. Unraced' <=> Unraced
  BY DEF Unraced
<1>3. (Unraced /\ ~doomed) => At("job.json")' = At("job.json")
  BY DEF RevisionsOK, JobSame
<1>4. KindOK' /\ FindingsLoneOK'
  BY <1>1 DEF KindOK, FindingsLoneOK
<1>5. RunRefsOK'
  BY <1>1, <1>2, <1>3 DEF SideInv, RunRefsOK
<1>6. FindingsOK'
  <2> SUFFICES ASSUME raced' = {}, ~doomed' PROVE WriterOK'
    BY <1>1 DEF FindingsOK
  <2>1. WriterOK
    BY DEF SideInv, FindingsOK
  <2>2. At("job.json")' = At("job.json")
    BY <1>3 DEF Unraced
  <2> QED BY <1>1, <2>1, <2>2 DEF WriterOK
<1> QED BY <1>4, <1>5, <1>6 DEF SideInv

LEMMA SideCrash ==
    ASSUME IInv, SideInv, Crash
    PROVE  SideInv'
<1> USE DEF IInv
<1>1. UNCHANGED <<file, content, runs, kind, result, doomed, raced>>
  BY DEF Crash, disk
<1>2. \A p \in Requests : stage'[p] \in {"new", "done"}
  BY DEF Crash
<1> QED BY <1>1, <1>2, SideIdle DEF JobSame, Writer, At

LEMMA SideRestart ==
    ASSUME IInv, SideInv, Recover \/ RecoverFails
    PROVE  SideInv'
<1> USE DEF IInv
<1>1. UNCHANGED <<file, runs, stage, kind, result, doomed, raced>> /\ ~up
  BY DEF Recover, RecoverFails, disk, request, deletion
<1>2. \A p \in Requests : stage[p] \in {"new", "done"}
  BY <1>1, StageParts DEF AtWork
<1>3. ASSUME NEW path \in {"job.json", "findings.json"}, file[path] # 0
      PROVE  At(path)' = At(path)
  <2>1. CASE UNCHANGED content
    BY <1>1, <2>1 DEF At
  <2>2. CASE content' = [content EXCEPT ![file["run.json"]].status = "FAILED"]
    <3>1. file[path] # file["run.json"] /\ file[path] \in Inodes
      BY <1>3 DEF InodesOK, TypeOK, Paths
    <3> QED BY <1>1, <2>2, <3>1 DEF At, TypeOK
  <2> QED BY <2>1, <2>2 DEF Recover, RecoverFails, disk
<1>4. (Readable("job.json") => JobSame) /\ Writer' = Writer
  BY <1>1, <1>3 DEF Readable, JobSame, Writer
<1> QED BY <1>1, <1>2, <1>4, SideIdle

LEMMA SideUnchanged ==
    ASSUME SideInv, UNCHANGED vars
    PROVE  SideInv'
<1> USE DEF vars, disk, request, server, deletion
<1>1. \A p \in Requests :
        /\ (Open(p)' <=> Open(p)) /\ (Holding(p)' <=> Holding(p)) /\ (SavesJob(p)' <=> SavesJob(p))
        /\ (WritesF(p)' <=> WritesF(p)) /\ Payload(p)' = Payload(p)
  BY DEF Open, ChangesJob, Holding, SavesJob, WritesF, Writing, Payload
<1>2. At("job.json")' = At("job.json") /\ Writer' = Writer /\ (Unraced' <=> Unraced)
  BY DEF At, Writer, Unraced
<1>3. \A p \in Requests : (Past(p)' <=> Past(p)) /\ (Carries(p)' <=> Carries(p))
  BY <1>1, <1>2 DEF Past, Carries
<1>4. KindOK' /\ FindingsLoneOK'
  BY <1>1 DEF SideInv, KindOK, FindingsLoneOK
<1>5. RunRefsOK'
  BY <1>1, <1>2 DEF SideInv, RunRefsOK
<1>6. FindingsOK'
  BY <1>1, <1>2, <1>3 DEF SideInv, FindingsOK, WriterOK
<1> QED BY <1>4, <1>5, <1>6 DEF SideInv

LEMMA SideInductive == IInv /\ SideInv /\ [Next]_vars => SideInv'
  BY SideHandle, SideCrash, SideRestart, SideUnchanged DEF Next

LEMMA SideInvariant == Spec => []SideInv
  BY SideInitially, SideInductive, Invariant, PTL DEF Spec
------------------------------------------------------------------------------
(* Theorems                                                                *)

(* The state of the job's workspace has its type: a document that is       *)
(* written is a document, and a request that writes has a file open.       *)
THEOREM TypeCorrect == Spec => []TypeOK
<1>1. IInv => TypeOK
  BY DEF IInv
<1> QED BY <1>1, Invariant, PTL

(* save_job: as long as no two requests were past its check at once,       *)
(* job.json is readable until a deletion begins, and whenever it is        *)
(* readable, also while a deletion removes names or after one has stopped  *)
(* half-way, it has each change that was answered with success and none    *)
(* that was answered with a conflict or an error.                          *)
THEOREM SavesSafe == Spec => []SavesAreExact
<1>1. IInv => SavesAreExact
  <2> SUFFICES ASSUME IInv, Unraced
               PROVE  /\ Readable("job.json") \/ doomed
                      /\ Readable("job.json") => \A p \in Requests : ChangesJob(p) =>
                          /\ result[p] = "ok" => p \in At("job.json").has
                          /\ result[p] \in {"conflict", "error"} => p \notin At("job.json").has
    BY DEF SavesAreExact, Unraced
  <2> QED BY DEF IInv, RevisionsOK
<1> QED BY <1>1, Invariant, PTL

(* jobs_delete: once the directory was removed name by name and the client *)
(* told so, job.json does not come back, wherever other requests were,     *)
(* unless one of them was past the check of save_job and had not yet made  *)
(* its temporary file when the directory went.                             *)
THEOREM DeletedSafe == Spec => []DeletedStaysDeleted
<1>1. IInv => DeletedStaysDeleted
  BY DEF IInv, DeletedOK, DeletedStaysDeleted
<1> QED BY <1>1, Invariant, PTL

(* recover_interrupted_runs and update_run_status: with no failing write,  *)
(* a run that shows as running was set running by this life of central,    *)
(* however its writers and a deletion interleave.                          *)
THEOREM RunningSafe == Spec => []RunningIsCurrent
<1>1. IInv => RunningIsCurrent
  BY DEF IInv, RunsOK, Current, RunningIsCurrent, Readable
<1> QED BY <1>1, Invariant, PTL

(* save_findings and jobs_create_run: until a deletion begins and while no *)
(* two writers met, job.json names no run that has not its file; and with  *)
(* nobody at work, what it says of the findings is what findings.json      *)
(* holds, or the writer of findings.json was not answered with success,    *)
(* whichever requests ran together and wherever they failed.               *)
THEOREM SideFilesSafe == Spec => []SideFilesMatch
<1>1. IInv /\ SideInv => SideFilesMatch
  <2> SUFFICES ASSUME IInv, SideInv, ~doomed PROVE SideFilesMatch
    BY DEF SideFilesMatch
  <2>1. Unraced => At("job.json").run \in runs \cup {0}
    BY DEF SideInv, RunRefsOK
  <2>2. ASSUME raced = {}, \A p \in Requests : stage[p] \in {"new", "done"}
        PROVE  \/ At("job.json").findings = Writer
               \/ Writer \in Requests /\ result[Writer] # "ok"
    BY <2>2 DEF SideInv, FindingsOK, WriterOK
  <2>3. file["findings.json"] = 0 => Writer = 0
    BY DEF Writer
  <2>4. file["findings.json"] # 0 => Writer = At("findings.json").rev
    BY DEF Writer
  <2> QED BY <2>1, <2>2, <2>3, <2>4, Numbers DEF SideFilesMatch, Unraced
<1> QED BY <1>1, Invariant, SideInvariant, PTL
=============================================================================
