--------------------------------- MODULE Jobs ---------------------------------
(***************************************************************************)
(* One job's workspace on disk (services/central/src/jobs.rs and the jobs  *)
(* handlers of routes.rs).                                                 *)
(*                                                                         *)
(* Handlers run on the threads of the runtime with no lock between them.   *)
(* A change of job.json loads it, changes a field, loads it again to       *)
(* compare revisions, and writes the whole of it; findings and new runs    *)
(* write their own file first.  A file is written through one temporary    *)
(* name next to it, the same for every writer, so that two writers have    *)
(* one file under their hands.  A deletion removes the directory name by   *)
(* name, under the hands of the writers.  A restart fails the runs left    *)
(* running.                                                                *)
(***************************************************************************)
EXTENDS Naturals, FiniteSets

CONSTANTS
    NumRequests,    \* requests, numbered in the order of their arrival
    May,            \* May[p]: what request p may ask for
    MaxFaults,      \* bound: failing file operations
    MaxCrashes      \* bound: crashes of central

Requests == 1..NumRequests

Kinds == {"patch", "findings", "create_run", "run_status", "delete"}

ASSUME JobsAssumption ==
    /\ NumRequests \in Nat
    /\ May \in [Requests -> SUBSET Kinds]
    /\ MaxFaults \in Nat
    /\ MaxCrashes \in Nat

Paths == {"job.json", "findings.json", "run.json"}

(* Files by number; 0 is none. *)
Inodes == 1..(2 * NumRequests + 3)

(* SUCCEEDED, CANCELLED and STALE are treated as FAILED is. *)
Statuses == {"QUEUED", "RUNNING", "FAILED"}

VARIABLES
    file,       \* file[path]: the file under its name
    tmp,        \* tmp[path]: the file under the temporary name beside it
    content,    \* content[i]: what file i holds
    dir,        \* whether the job's directory is there
    runs,       \* requests whose new run has its run.json
    stage,      \* what comes next in each request
    kind,       \* what it asks for
    target,     \* the path it writes
    base,       \* what it loaded, with its own change
    expected,   \* the revision it must find
    fd,         \* the file it has open
    result,     \* what its client was told
    up,         \* whether central serves requests
    life,       \* starts of central
    crossed,    \* deletions under way that others have made names under
    raced,      \* paths two requests were about to write at once
    doomed,     \* whether a deletion has ever begun
    late,       \* whether one was past its check, with nothing of job.json
                \* on disk, when a deletion ended
    faults

disk == <<file, tmp, content, dir, runs>>
request == <<stage, kind, target, base, expected, fd, result>>
server == <<up, life>>
deletion == <<crossed, doomed, late>>
vars == <<disk, request, server, deletion, raced, faults>>

(* A document: job.json as the revision (the request that wrote it), the   *)
(* changes it has, and what it says of findings and of the latest run;     *)
(* findings.json as its writer; run.json as its status, and the start of   *)
(* central that the status was set in.                                     *)
Documents ==
    [state : {"empty", "torn", "whole"}, rev : 0..NumRequests, has : SUBSET Requests,
     findings : 0..NumRequests, run : 0..NumRequests, status : Statuses,
     life : 1..(MaxCrashes + 1)]

Blank ==
    [state |-> "empty", rev |-> 0, has |-> {}, findings |-> 0, run |-> 0,
     status |-> "QUEUED", life |-> 1]

TypeOK ==
    /\ file \in [Paths -> Inodes \cup {0}]
    /\ tmp \in [Paths -> Inodes \cup {0}]
    /\ content \in [Inodes -> Documents]
    /\ dir \in BOOLEAN
    /\ runs \subseteq Requests
    /\ stage \in [Requests -> {"new", "load", "run", "reload", "check", "create",
                               "fill", "move", "delete", "unlink", "done"}]
    /\ kind \in [Requests -> Kinds \cup {"none"}]
    /\ target \in [Requests -> Paths]
    /\ base \in [Requests -> Documents]
    /\ expected \in [Requests -> 0..NumRequests]
    /\ fd \in [Requests -> Inodes \cup {0}]
    /\ result \in [Requests -> {"none", "ok", "conflict", "error"}]
    /\ up \in BOOLEAN
    /\ life \in 1..(MaxCrashes + 1)
    /\ crossed \subseteq Requests
    /\ raced \subseteq Paths
    /\ doomed \in BOOLEAN
    /\ late \in BOOLEAN
    /\ faults \in 0..MaxFaults

(* A job with one run, just created. *)
Init ==
    /\ file = [path \in Paths |-> CASE path = "job.json" -> 1
                                    [] path = "run.json" -> 2
                                    [] OTHER -> 0]
    /\ tmp = [path \in Paths |-> 0]
    /\ content = [i \in Inodes |-> IF i <= 2 THEN [Blank EXCEPT !.state = "whole"] ELSE Blank]
    /\ dir = TRUE
    /\ runs = {}
    /\ stage = [p \in Requests |-> "new"]
    /\ kind = [p \in Requests |-> "none"]
    /\ target = [p \in Requests |-> "job.json"]
    /\ base = [p \in Requests |-> Blank]
    /\ expected = [p \in Requests |-> 0]
    /\ fd = [p \in Requests |-> 0]
    /\ result = [p \in Requests |-> "none"]
    /\ up = TRUE
    /\ life = 1
    /\ crossed = {}
    /\ raced = {}
    /\ doomed = FALSE
    /\ late = FALSE
    /\ faults = 0

------------------------------------------------------------------------------
At(path) == content[file[path]]

(* The file is there and can be parsed. *)
Readable(path) == file[path] # 0 /\ At(path).state = "whole"

Used == {file[path] : path \in Paths} \cup {tmp[path] : path \in Paths}
            \cup {fd[p] : p \in Requests}

IsFresh(i) == i \notin Used /\ \A j \in Inodes \ Used : i <= j

(* Requests that are about to write a path. *)
Writing(path) == {p \in Requests : stage[p] \in {"create", "fill", "move"} /\ target[p] = path}

Deleting == {p \in Requests : stage[p] = "unlink"}

(* A name, or a directory, is made that a deletion may have missed. *)
Cross == crossed' = crossed \cup Deleting

(* Request p goes on to write a path, perhaps while others do. *)
AboutToWrite(p, path) ==
    /\ target' = [target EXCEPT ![p] = path]
    /\ stage' = [stage EXCEPT ![p] = "create"]
    /\ raced' = IF Writing(path) = {} THEN raced ELSE raced \cup {path}

GoTo(p, position) == stage' = [stage EXCEPT ![p] = position]

(* Request p is answered, and what it knew is gone. *)
Answer(p, answer) ==
    /\ GoTo(p, "done")
    /\ result' = [result EXCEPT ![p] = answer]
    /\ base' = [base EXCEPT ![p] = Blank]
    /\ expected' = [expected EXCEPT ![p] = 0]
    /\ fd' = [fd EXCEPT ![p] = 0]
    /\ target' = [target EXCEPT ![p] = "job.json"]
    /\ UNCHANGED kind

------------------------------------------------------------------------------
Receive(p) ==
    /\ up
    /\ stage[p] = "new"
    /\ \A q \in 1..(p - 1) : stage[q] # "new"
    /\ \E k \in May[p] :
        /\ kind' = [kind EXCEPT ![p] = k]
        /\ GoTo(p, IF k = "delete" THEN "delete" ELSE "load")
    /\ UNCHANGED <<disk, target, base, expected, fd, result, server, deletion, raced, faults>>

NotFound(p) ==
    /\ stage[p] \in {"load", "reload", "check"}
    /\ ~Readable(IF kind[p] = "run_status" THEN "run.json" ELSE "job.json")
    /\ Answer(p, "error")
    /\ UNCHANGED <<disk, server, deletion, raced, faults>>

(* jobs_patch: the client may name the revision it has seen, which may be  *)
(* the first one; if not, the one just loaded is expected.                 *)
LoadForPatch(p) ==
    /\ stage[p] = "load"
    /\ kind[p] = "patch"
    /\ Readable("job.json")
    /\ base' = [base EXCEPT ![p] = At("job.json")]
    /\ \E r \in {At("job.json").rev, 0} : expected' = [expected EXCEPT ![p] = r]
    /\ GoTo(p, "check")
    /\ UNCHANGED <<disk, kind, target, fd, result, server, deletion, raced, faults>>

(* save_findings: findings.json is written before the revision is looked   *)
(* at.                                                                     *)
LoadForFindings(p) ==
    /\ stage[p] = "load"
    /\ kind[p] = "findings"
    /\ Readable("job.json")
    /\ base' = [base EXCEPT ![p] = [At("job.json") EXCEPT !.findings = p]]
    /\ expected' = [expected EXCEPT ![p] = At("job.json").rev]
    /\ AboutToWrite(p, "findings.json")
    /\ UNCHANGED <<disk, kind, fd, result, server, deletion, faults>>

(* create_run: the job is there, the run gets its file, and the job is     *)
(* loaded again to be changed.                                             *)
LoadForRun(p) ==
    /\ stage[p] = "load"
    /\ kind[p] = "create_run"
    /\ Readable("job.json")
    /\ GoTo(p, "run")
    /\ UNCHANGED <<disk, kind, target, base, expected, fd, result, server, deletion, raced, faults>>

(* The directory of the new run, and its file, which no one else knows. *)
WriteRun(p) ==
    /\ stage[p] = "run"
    /\ runs' = runs \cup {p}
    /\ dir' = TRUE
    /\ GoTo(p, "reload")
    /\ Cross
    /\ UNCHANGED <<file, tmp, content, kind, target, base, expected, fd, result,
                   server, doomed, late, raced, faults>>

LoadAgain(p) ==
    /\ stage[p] = "reload"
    /\ Readable("job.json")
    /\ base' = [base EXCEPT ![p] = [At("job.json") EXCEPT !.run = p]]
    /\ expected' = [expected EXCEPT ![p] = At("job.json").rev]
    /\ GoTo(p, "check")
    /\ UNCHANGED <<disk, kind, target, fd, result, server, deletion, raced, faults>>

(* update_run_status: any status may follow any other. *)
LoadRun(p) ==
    /\ stage[p] = "load"
    /\ kind[p] = "run_status"
    /\ Readable("run.json")
    /\ \E s \in Statuses :
        base' = [base EXCEPT ![p] = [At("run.json") EXCEPT !.status = s, !.life = life]]
    /\ AboutToWrite(p, "run.json")
    /\ UNCHANGED <<disk, kind, expected, fd, result, server, deletion, faults>>

(* Mutant of CheckRevision: the revision is not compared. *)
CheckNothing(p) ==
    /\ stage[p] = "check"
    /\ Readable("job.json")
    /\ AboutToWrite(p, "job.json")
    /\ UNCHANGED <<disk, kind, base, expected, fd, result, server, deletion, faults>>

(* Mutant of CheckRevision: a job.json that is not there is no conflict. *)
CheckIfThere(p) ==
    /\ stage[p] = "check"
    /\ Readable("job.json") => At("job.json").rev = expected[p]
    /\ AboutToWrite(p, "job.json")
    /\ UNCHANGED <<disk, kind, base, expected, fd, result, server, deletion, faults>>

(* save_job: the revision on disk is still the expected one. *)
CheckRevision(p) ==
    /\ stage[p] = "check"
    /\ Readable("job.json")
    /\ At("job.json").rev = expected[p]
    /\ AboutToWrite(p, "job.json")
    /\ UNCHANGED <<disk, kind, base, expected, fd, result, server, deletion, faults>>

(* Mutant of Conflict: save_findings does not look at what save_job says. *)
FindingsIgnoreConflict(p) ==
    /\ stage[p] = "check"
    /\ Readable("job.json")
    /\ At("job.json").rev # expected[p]
    /\ Answer(p, IF kind[p] = "findings" THEN "ok" ELSE "conflict")
    /\ UNCHANGED <<disk, server, deletion, raced, faults>>

Conflict(p) ==
    /\ stage[p] = "check"
    /\ Readable("job.json")
    /\ At("job.json").rev # expected[p]
    /\ Answer(p, "conflict")
    /\ UNCHANGED <<disk, server, deletion, raced, faults>>

(* atomic_write_json, first step: missing directories are made, and the    *)
(* temporary file is made, or emptied if it is there already.              *)
CreateTmp(p) ==
    /\ stage[p] = "create"
    /\ \E i \in Inodes :
        /\ IF tmp[target[p]] = 0 THEN IsFresh(i) ELSE i = tmp[target[p]]
        /\ tmp' = [tmp EXCEPT ![target[p]] = i]
        /\ content' = [content EXCEPT ![i] = Blank]
        /\ fd' = [fd EXCEPT ![p] = i]
    /\ dir' = TRUE
    /\ GoTo(p, "fill")
    /\ Cross
    /\ UNCHANGED <<file, runs, kind, target, base, expected, result, server,
                   doomed, late, raced, faults>>

(* A directory it has just made, or found, is removed before the file is   *)
(* made in it.                                                             *)
DirectoryGone(p) ==
    /\ stage[p] \in {"run", "create"}
    /\ Deleting # {}
    /\ Cross
    /\ Answer(p, "error")
    /\ UNCHANGED <<disk, server, doomed, late, raced, faults>>

Payload(p) ==
    IF target[p] = "job.json"
    THEN [base[p] EXCEPT !.state = "whole", !.rev = p, !.has = @ \cup {p}]
    ELSE [base[p] EXCEPT !.state = "whole", !.rev = p]

(* The text is written from the start of the open file, over whatever      *)
(* another writer has put there, whose longer text would show at the end.  *)
FillTmp(p) ==
    /\ stage[p] = "fill"
    /\ \/ content' = [content EXCEPT ![fd[p]] = Payload(p)]
       \/ /\ content[fd[p]].state # "empty"
          /\ content' = [content EXCEPT ![fd[p]] = [Blank EXCEPT !.state = "torn"]]
    /\ GoTo(p, "move")
    /\ UNCHANGED <<file, tmp, dir, runs, kind, target, base, expected, fd, result,
                   server, deletion, raced, faults>>

(* Whatever has the temporary name by now takes the name of the document.  *)
MoveTmp(p) ==
    /\ stage[p] = "move"
    /\ tmp[target[p]] # 0
    /\ file' = [file EXCEPT ![target[p]] = tmp[target[p]]]
    /\ tmp' = [tmp EXCEPT ![target[p]] = 0]
    /\ IF target[p] = "findings.json"
       THEN /\ GoTo(p, "check")
            /\ fd' = [fd EXCEPT ![p] = 0]
            /\ UNCHANGED <<kind, target, base, expected, result>>
       ELSE Answer(p, "ok")
    /\ Cross
    /\ UNCHANGED <<content, dir, runs, server, doomed, late, raced, faults>>

(* Another writer, or a deletion, has taken the temporary name away. *)
MoveFails(p) ==
    /\ stage[p] = "move"
    /\ tmp[target[p]] = 0
    /\ Answer(p, "error")
    /\ UNCHANGED <<disk, server, deletion, raced, faults>>

(* A file operation fails; what is there of the temporary file stays. *)
WriteFails(p) ==
    /\ stage[p] \in {"run", "create", "fill", "move"}
    /\ faults < MaxFaults
    /\ faults' = faults + 1
    /\ Cross
    /\ Answer(p, "error")
    /\ UNCHANGED <<disk, server, doomed, late, raced>>

(* delete_job: the directory is there; from here on it is removed name by  *)
(* name, in any order and under the hands of the others.                   *)
BeginDelete(p) ==
    /\ stage[p] = "delete"
    /\ dir
    /\ GoTo(p, "unlink")
    /\ doomed' = TRUE
    /\ UNCHANGED <<disk, kind, target, base, expected, fd, result, server,
                   crossed, late, raced, faults>>

Unlink(p) ==
    /\ stage[p] = "unlink"
    /\ \/ \E path \in Paths :
            /\ file[path] # 0
            /\ file' = [file EXCEPT ![path] = 0]
            /\ UNCHANGED <<tmp, runs>>
       \/ \E path \in Paths :
            /\ tmp[path] # 0
            /\ tmp' = [tmp EXCEPT ![path] = 0]
            /\ UNCHANGED <<file, runs>>
       \/ \E r \in runs :
            /\ runs' = runs \ {r}
            /\ UNCHANGED <<file, tmp>>
    /\ UNCHANGED <<content, dir, request, server, deletion, raced, faults>>

(* The directory is empty and goes, or has gone with another deletion. *)
RemoveDirectory(p) ==
    /\ stage[p] = "unlink"
    /\ \A path \in Paths : file[path] = 0 /\ tmp[path] = 0
    /\ runs = {}
    /\ dir' = FALSE
    /\ crossed' = crossed \ {p}
    /\ late' = (late \/ \E q \in Writing("job.json") : stage[q] = "create")
    /\ Answer(p, "ok")
    /\ UNCHANGED <<file, tmp, content, runs, server, doomed, raced, faults>>

(* A name that was made meanwhile keeps a directory from going, another    *)
(* deletion has taken the directory before it was opened, or an operation  *)
(* fails; what has not been removed stays.                                 *)
DeleteFails(p) ==
    /\ stage[p] = "unlink"
    /\ \/ p \in crossed \/ ~dir
       \/ faults < MaxFaults
    /\ faults' = IF p \in crossed \/ ~dir THEN faults ELSE faults + 1
    /\ crossed' = crossed \ {p}
    /\ Answer(p, "error")
    /\ UNCHANGED <<disk, server, doomed, late, raced>>

NothingToDelete(p) ==
    /\ stage[p] = "delete"
    /\ ~dir
    /\ Answer(p, "error")
    /\ UNCHANGED <<disk, server, deletion, raced, faults>>

(* Central dies with the requests it is handling. *)
Crash ==
    /\ life <= MaxCrashes
    /\ up' = FALSE
    /\ life' = life + 1
    /\ stage' = [p \in Requests |-> IF stage[p] = "new" THEN "new" ELSE "done"]
    /\ base' = [p \in Requests |-> Blank]
    /\ expected' = [p \in Requests |-> 0]
    /\ fd' = [p \in Requests |-> 0]
    /\ target' = [p \in Requests |-> "job.json"]
    /\ crossed' = {}
    /\ UNCHANGED <<disk, kind, result, doomed, late, raced, faults>>

(* Mutant of Recover: runs are recovered when they are queued. *)
RecoverQueued ==
    /\ ~up
    /\ up' = TRUE
    /\ IF Readable("run.json") /\ At("run.json").status = "QUEUED"
       THEN content' = [content EXCEPT ![file["run.json"]].status = "FAILED"]
       ELSE UNCHANGED content
    /\ UNCHANGED <<file, tmp, dir, runs, request, life, deletion, raced, faults>>

(* recover_interrupted_runs, before central serves; it writes the run as   *)
(* any other writer does, only with nobody else about.                     *)
Recover ==
    /\ ~up
    /\ up' = TRUE
    /\ IF Readable("run.json") /\ At("run.json").status = "RUNNING"
       THEN /\ content' = [content EXCEPT ![file["run.json"]].status = "FAILED"]
            /\ tmp' = [tmp EXCEPT !["run.json"] = 0]
       ELSE UNCHANGED <<content, tmp>>
    /\ UNCHANGED <<file, dir, runs, request, life, deletion, raced, faults>>

(* A run that cannot be written is left as it is. *)
RecoverFails ==
    /\ ~up
    /\ faults < MaxFaults
    /\ faults' = faults + 1
    /\ up' = TRUE
    /\ UNCHANGED <<disk, request, life, deletion, raced>>

Handle(p) ==
    \/ Receive(p) \/ NotFound(p)
    \/ LoadForPatch(p) \/ LoadForFindings(p) \/ LoadForRun(p) \/ WriteRun(p)
    \/ LoadAgain(p) \/ LoadRun(p)
    \/ CheckRevision(p) \/ Conflict(p)
    \/ CreateTmp(p) \/ DirectoryGone(p) \/ FillTmp(p) \/ MoveTmp(p) \/ MoveFails(p)
    \/ WriteFails(p)
    \/ BeginDelete(p) \/ NothingToDelete(p) \/ Unlink(p) \/ RemoveDirectory(p)
    \/ DeleteFails(p)

Next == (\E p \in Requests : Handle(p)) \/ Crash \/ Recover \/ RecoverFails

Spec == Init /\ [][Next]_vars
------------------------------------------------------------------------------
(* Properties                                                              *)

ChangesJob(p) == kind[p] \in {"patch", "findings", "create_run"}

Deleted == \E p \in Requests : kind[p] = "delete" /\ result[p] = "ok"

(* As long as no two requests are between the revision check and the       *)
(* rename at once, the check does its work: job.json is readable until a   *)
(* deletion begins, and whenever it is readable, it has every change that  *)
(* was answered with success and none that was answered with a conflict or *)
(* an error.  Loads, side files, deletions that end or stop anywhere,      *)
(* failures and crashes may fall anywhere.                                 *)
SavesAreExact ==
    "job.json" \notin raced =>
        /\ Readable("job.json") \/ doomed
        /\ Readable("job.json") => \A p \in Requests : ChangesJob(p) =>
            /\ result[p] = "ok" => p \in At("job.json").has
            /\ result[p] \in {"conflict", "error"} => p \notin At("job.json").has

(* Until a deletion begins, and as long as no two writers met: the run     *)
(* that job.json names as the latest is there.  And once nobody is at      *)
(* work, what it says of the findings is what findings.json holds, or else *)
(* the request that wrote findings.json was not answered with success.     *)
SideFilesMatch ==
    ~doomed =>
        /\ ("job.json" \notin raced /\ Readable("job.json")) =>
                At("job.json").run \in runs \cup {0}
        /\ (raced = {} /\ \A p \in Requests : stage[p] \in {"new", "done"}) =>
            /\ file["findings.json"] = 0 => At("job.json").findings = 0
            /\ file["findings.json"] # 0 =>
                \/ At("job.json").findings = At("findings.json").rev
                \/ result[At("findings.json").rev] # "ok"

(* Once a deletion was answered with success, nothing brings job.json      *)
(* back: no change that was loading, writing its side file, checking or    *)
(* renaming when the directory went, and none that comes later.  Only one  *)
(* that was past its check and had not yet made the temporary file does.   *)
DeletedStaysDeleted == (Deleted /\ ~late) => file["job.json"] = 0

(* A run that shows as running was set running since central last started, *)
(* unless its recovery failed.                                             *)
RunningIsCurrent ==
    (up /\ faults = 0 /\ Readable("run.json") /\ At("run.json").status = "RUNNING") =>
        At("run.json").life = life

(* "stale writes raise revision_conflict": of two changes that were both   *)
(* answered with success, neither is overwritten by one that did not know  *)
(* it.                                                                     *)
UpdatesKept ==
    \A p, q \in Requests :
        (/\ p # q
         /\ ChangesJob(p) /\ ChangesJob(q)
         /\ result[p] = "ok" /\ result[q] = "ok"
         /\ Readable("job.json")) => {p, q} \subseteq At("job.json").has
=============================================================================
