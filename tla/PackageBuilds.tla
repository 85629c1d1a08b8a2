----------------------------- MODULE PackageBuilds -----------------------------
(***************************************************************************)
(* Builds of repair packages (packaging/storage.py, packaging/builder.py,  *)
(* the request and download endpoints). One index.json holds the records   *)
(* of all candidates: every request loads all of it, works on its copy and *)
(* writes the whole copy back at each change, through a temporary file all *)
(* processes share; build numbers come from the copy.                      *)
(*                                                                         *)
(* A build never suspends, so builds of one API process follow each other; *)
(* but the container starts several worker processes on one store, and a   *)
(* process may die during a build. A step ends at each file written or     *)
(* renamed; a file is written at once.                                     *)
(***************************************************************************)
EXTENDS Naturals, FiniteSets

CONSTANTS Builder,    \* requests that may build, each in a process of its own
          NoBuilder,
          Candidate,  \* repair candidates
          MaxDeaths   \* bound: how many processes die

ASSUME PackagesAssumption ==
  IsFiniteSet(Builder) /\ NoBuilder \notin Builder /\ MaxDeaths \in Nat

VARIABLES target,     \* the candidate each request is about
          disk,       \* index.json
          tmp,        \* the temporary index file, {} when there is none
          copy,       \* the index each request has loaded
          archive,    \* who wrote the archive of each build number of a candidate
          work,       \* where each request is
          number,     \* the build number its record was given
          overlapped, \* history: was a build begun while another was under way?
          deaths      \* how many processes have died

packageVars == <<target, disk, tmp, copy, archive, work, number, overlapped, deaths>>

Build  == 1 .. Cardinality(Builder)
Built  == {"none", "QUEUED", "BUILDING", "READY", "FAILED", "STALE"}
Bucket == [status : [Build -> Built], sealed : [Build -> Builder \cup {NoBuilder}],
           latest : {0} \cup Build]
Index  == [Candidate -> Bucket]
Empty  == [c \in Candidate |->
  [status |-> [n \in Build |-> "none"], sealed |-> [n \in Build |-> NoBuilder], latest |-> 0]]
Saving   == {"creating", "marking", "sealing", "failing"}
Building == {"loaded", "queued", "building", "written"} \cup Saving

PackagesInit ==
  /\ target \in [Builder -> Candidate]
  /\ disk = Empty /\ tmp = {} /\ copy = [p \in Builder |-> disk]
  /\ archive = [c \in Candidate |-> [n \in Build |-> NoBuilder]]
  /\ work = [p \in Builder |-> "idle"] /\ number = [p \in Builder |-> 0]
  /\ overlapped = FALSE /\ deaths = 0

-----------------------------------------------------------------------------
LatestIs(b, st) == b.latest # 0 /\ b.status[b.latest] = st

At(p, l) == work' = [work EXCEPT ![p] = l]

(* A request that builds is over, and its copy of the index with it.       *)
Quit(p, l) == At(p, l) /\ copy' = [copy EXCEPT ![p] = Empty]

(* _save_index, first half: the copy of request p, with its own candidate's *)
(* bucket now b, goes to the temporary file.                               *)
SaveIndex(p, b) ==
  /\ copy' = [copy EXCEPT ![p][target[p]] = b]
  /\ tmp' = {copy'[p]}

(* A request loads the index it will build with.                           *)
Load(p) ==
  /\ At(p, "loaded") /\ copy' = [copy EXCEPT ![p] = disk]
  /\ overlapped' = (overlapped \/ \E q \in Builder : work[q] \in Building)

(* request_repair_package: refused while the candidate's latest build is   *)
(* BUILDING; otherwise the builder opens a store of its own.               *)
RequestPackage(p) ==
  /\ work[p] = "idle"
  /\ At(p, IF LatestIs(disk[target[p]], "BUILDING") THEN "refused" ELSE "asked")
  /\ UNCHANGED <<target, disk, tmp, copy, archive, number, overlapped, deaths>>
OpenStore(p) ==
  work[p] = "asked" /\ Load(p) /\ UNCHANGED <<target, disk, tmp, archive, number, deaths>>

(* download_patch_package: an archive when there is one, else a build with *)
(* the index that was looked at.                                           *)
Download(p) ==
  /\ work[p] = "idle"
  /\ \/ LatestIs(disk[target[p]], "READY") /\ At(p, "served") /\ UNCHANGED <<copy, overlapped>>
     \/ ~LatestIs(disk[target[p]], "READY") /\ Load(p)
  /\ UNCHANGED <<target, disk, tmp, archive, number, deaths>>

(* create_record: the next number of the copy; READY builds become STALE.  *)
Used(b) == {n \in Build : b.status[n] # "none"}
NextNumber(b) == Cardinality(Used(b)) + 1
Superseded(st) == IF st = "READY" THEN "STALE" ELSE st
CreateBesideReady(p) ==
  LET b == copy[p][target[p]]
      n == NextNumber(b) IN
  /\ work[p] = "loaded" /\ At(p, "creating")
  /\ SaveIndex(p, [b EXCEPT !.latest = n, !.sealed[n] = NoBuilder, !.status[n] = "QUEUED"])
  /\ UNCHANGED <<target, disk, archive, number, overlapped, deaths>>
CreateRecord(p) ==
  LET b == copy[p][target[p]]
      n == NextNumber(b) IN
  /\ work[p] = "loaded" /\ At(p, "creating")
  /\ SaveIndex(p, [b EXCEPT !.latest = n, !.sealed[n] = NoBuilder,
         !.status = [m \in Build |-> IF m = n THEN "QUEUED" ELSE Superseded(@[m])]])
  /\ UNCHANGED <<target, disk, archive, number, overlapped, deaths>>

(* set_status of the request's own build; READY comes with the checksum.   *)
SetStatus(p, st) ==
  LET b == copy[p][target[p]]
      n == number[p] IN
  SaveIndex(p, [b EXCEPT !.latest = n, !.status[n] = st,
                         !.sealed[n] = IF st = "READY" THEN p ELSE @])

(* _save_index, second half: whatever the temporary file holds becomes the *)
(* index. create_record then returns the record.                           *)
After(l) == IF l = "creating" THEN "queued" ELSE "building"
Rename(p) ==
  /\ \/ work[p] \in {"creating", "marking"} /\ At(p, After(work[p])) /\ UNCHANGED copy
     \/ work[p] \in {"sealing", "failing"} /\ Quit(p, "done")
  /\ disk' \in tmp /\ tmp' = {}
  /\ number' = IF work[p] = "creating"
               THEN [number EXCEPT ![p] = copy[p][target[p]].latest] ELSE number
  /\ UNCHANGED <<target, archive, overlapped, deaths>>

Begin(p) ==
  /\ work[p] = "queued" /\ At(p, "marking") /\ SetStatus(p, "BUILDING")
  /\ UNCHANGED <<target, disk, archive, number, overlapped, deaths>>

(* The validated zip is renamed over the build's archive path. The builder *)
(* does so twice, the second time with the final manifest and the checksum *)
(* that is recorded; nothing looks in between, and one step stands for both.*)
WriteArchive(p) ==
  /\ work[p] = "building" /\ At(p, "written")
  /\ archive' = [archive EXCEPT ![target[p]][number[p]] = p]
  /\ UNCHANGED <<target, disk, tmp, copy, number, overlapped, deaths>>

Finish(p) ==
  /\ work[p] = "written" /\ At(p, "sealing") /\ SetStatus(p, "READY")
  /\ UNCHANGED <<target, disk, archive, number, overlapped, deaths>>

(* Inside the try: assembly, validation or a write raises, or another      *)
(* process has renamed the temporary file away.                            *)
Failing(p) == work[p] \in {"building", "written"} \/ (work[p] = "sealing" /\ tmp = {})
FailQuietly(p) ==
  /\ Failing(p) /\ Quit(p, "done")
  /\ UNCHANGED <<target, disk, tmp, archive, number, overlapped, deaths>>
Fail(p) ==
  /\ Failing(p) /\ At(p, "failing") /\ SetStatus(p, "FAILED")
  /\ UNCHANGED <<target, disk, archive, number, overlapped, deaths>>

(* Outside of it: a gate refuses the candidate, the staging directory      *)
(* cannot be made, or the temporary file is gone. Nothing is recorded.     *)
Raise(p) ==
  /\ \/ work[p] \in {"loaded", "queued"}
     \/ work[p] \in {"creating", "marking", "failing"} /\ tmp = {}
  /\ Quit(p, "done")
  /\ UNCHANGED <<target, disk, tmp, archive, number, overlapped, deaths>>

Die(p) ==
  /\ deaths < MaxDeaths /\ deaths' = deaths + 1
  /\ work[p] \in Building /\ Quit(p, "dead")
  /\ UNCHANGED <<target, disk, tmp, archive, number, overlapped>>

PackagesNext ==
  \E p \in Builder :
    \/ RequestPackage(p) \/ OpenStore(p) \/ Download(p)
    \/ CreateRecord(p) \/ Begin(p) \/ WriteArchive(p) \/ Finish(p) \/ Fail(p)
    \/ Rename(p) \/ Raise(p) \/ Die(p)

PackagesSpec == PackagesInit /\ [][PackagesNext]_packageVars

-----------------------------------------------------------------------------
(* Types; a bucket numbers its builds without a gap, so the next number is *)
(* one past the greatest, however the copies of the index are mixed.       *)
PackagesTypeOK ==
  /\ target \in [Builder -> Candidate]
  /\ disk \in Index /\ tmp \subseteq Index /\ copy \in [Builder -> Index]
  /\ archive \in [Candidate -> [Build -> Builder \cup {NoBuilder}]]
  /\ work \in [Builder -> {"idle", "asked", "refused", "served", "done", "dead"} \cup Building]
  /\ number \in [Builder -> {0} \cup Build]
  /\ overlapped \in BOOLEAN /\ deaths \in 0 .. MaxDeaths
  /\ \A i \in {disk} \cup tmp \cup {copy[p] : p \in Builder}, c \in Candidate :
       Used(i[c]) = 1 .. Cardinality(Used(i[c]))

(* What the store calls READY has an archive, in whatever order processes  *)
(* overwrite the index. While builds follow each other, also those of      *)
(* other candidates, at most one build of a candidate is READY, it is its  *)
(* last, and its archive is the one whose checksum it records: a download  *)
(* is neither stale nor reported as tampered with.                         *)
ReadyTrue ==
  \A c \in Candidate, n \in Build : disk[c].status[n] = "READY" =>
    /\ archive[c][n] # NoBuilder
    /\ overlapped \/ /\ archive[c][n] = disk[c].sealed[n]
                     /\ \A m \in Build : m > n => disk[c].status[m] = "none"

(* While builds follow each other, a candidate's latest build says         *)
(* BUILDING, and so every request is refused, only while a process is at   *)
(* that build or has died there: a failure of any step ends it. When       *)
(* builds overlap, also those of two candidates, an old copy of the index  *)
(* may put BUILDING back for good.                                         *)
BuildingForCause ==
  overlapped \/ \A c \in Candidate : LatestIs(disk[c], "BUILDING") =>
    \E p \in Builder : /\ work[p] \in {"building", "written", "sealing", "failing", "dead"}
                       /\ target[p] = c /\ number[p] = disk[c].latest
=============================================================================
