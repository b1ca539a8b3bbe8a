------------------------------ MODULE Registry ------------------------------
(***************************************************************************)
(* The deployed scripts and cron jobs of scripts_registry.py: one R2       *)
(* object per script (scripts/<id>.json), the list of their ids            *)
(* (scripts/_index.json) and the explicit jobs (config/cron_jobs.json).    *)
(* The handlers of /scripts and /cron/jobs, and the scheduler when it      *)
(* loads its jobs, interleave at every R2 call, each of which is atomic.   *)
(***************************************************************************)
EXTENDS Integers, FiniteSets

CONSTANTS
  Clients,     \* requests that may be under way together
  Scripts,     \* script ids
  Contents,    \* what is deployed under an id: source and settings
  Enabled,     \* the contents whose "enabled" is true
  None,        \* no object
  Stub,        \* the object put in place of one that cannot be deleted
  MaxCalls,    \* bound: requests of a behaviour
  MaxFailures  \* bound: failed R2 calls and requests cut off

ASSUME ContentsAssumption ==
  /\ Enabled \subseteq Contents
  /\ None \notin Contents \union Scripts
  /\ Stub \notin Contents \union {None}
ASSUME BoundsAssumption == MaxCalls \in Nat /\ MaxFailures \in Nat

VARIABLES
  record,     \* the object of each script
  index,      \* the ids of scripts/_index.json
  jobsFile,   \* config/cron_jobs.json: whether it is there, and its scripts
  client,     \* what each request is doing
  steady,     \* history: the entries that have not changed during a listing
  overlapped, \* history: two requests that change the registry have overlapped
  deleted,    \* history: the scripts deleted, and put by no one since
  calls,      \* requests so far
  failures    \* failures so far

bucket == << record, index >>
history == << steady, overlapped, deleted >>
bounds == << calls, failures >>
vars == << bucket, jobsFile, client, history, bounds >>

----------------------------------------------------------------------------
Values == Contents \union {None}

(* A request that writes: it puts content under a script id, or deletes    *)
(* the id (None); ids is what it has read of the index.                    *)
(* A request that reads: ids are those it still has to look up, answer is  *)
(* what it lists.                                                          *)
Writing == {"record", "lookup", "delete", "stub", "getIndex", "saveIndex", "written"}
Reading == {"listIndex", "listRecord", "listed"}

NoEntries == [s \in Scripts |-> None]
Idle == [pc |-> "idle", derive |-> FALSE, script |-> None, content |-> None,
         ids |-> {}, answer |-> NoEntries]
Request == [pc: {"idle"} \union Writing \union Reading, derive: BOOLEAN,
            script: Scripts \union {None}, content: Values, ids: SUBSET Scripts,
            answer: [Scripts -> Values]]

(* A put has a content, a delete has none.                                 *)
IsWhole(r) ==
  /\ r.pc \in Writing => r.script \in Scripts
  /\ r.pc = "record" => r.content \in Contents
  /\ r.pc \in {"lookup", "delete", "stub"} => r.content = None

JobsFile == [exists: BOOLEAN, jobs: SUBSET Scripts]

TypeOK ==
  /\ record \in [Scripts -> Values \union {Stub}]
  /\ index \subseteq Scripts
  /\ jobsFile \in JobsFile
  /\ client \in [Clients -> Request]
  /\ \A c \in Clients : IsWhole(client[c])
  /\ steady \in [Clients -> SUBSET Scripts]
  /\ overlapped \in BOOLEAN
  /\ deleted \subseteq Scripts
  /\ calls \in 0..MaxCalls
  /\ failures \in 0..MaxFailures

Init ==
  /\ record = NoEntries
  /\ index = {}
  /\ jobsFile = [exists |-> FALSE, jobs |-> {}]
  /\ client = [c \in Clients |-> Idle]
  /\ steady = [c \in Clients |-> {}]
  /\ overlapped = FALSE
  /\ deleted = {}
  /\ calls = 0 /\ failures = 0

MayFail == failures < MaxFailures /\ failures' = failures + 1

(* What GET /scripts/{id} finds of an object, and what a list shows.       *)
LiveOrStub(object) == object
Live(object) == IF object \in Contents THEN object ELSE None
Entries(rec, ids) == [s \in Scripts |-> IF s \in ids THEN Live(rec[s]) ELSE None]

(* The registry changes: a listing has to reckon with the changed entries. *)
Change(rec, ids) ==
  /\ record' = rec /\ index' = ids
  /\ steady' = [c \in Clients |->
                  {s \in steady[c] : Entries(rec, ids)[s] = Entries(record, index)[s]}]

At(c, pc) == client[c].pc = pc
Becomes(c, r) == client' = [client EXCEPT ![c] = r]
Goes(c, pc) == Becomes(c, [client[c] EXCEPT !.pc = pc])

IsFree(c) == At(c, "idle") /\ calls < MaxCalls /\ calls' = calls + 1

StartsWriting == overlapped' = (overlapped \/ \E d \in Clients : client[d].pc \in Writing)

----------------------------------------------------------------------------
(* put_script.                                                             *)

(* The record is valid; nothing has been read or written.                  *)
StartPut(c, s, v) ==
  /\ IsFree(c)
  /\ StartsWriting
  /\ deleted' = deleted \ {s}
  /\ Becomes(c, [Idle EXCEPT !.pc = "record", !.script = s, !.content = v])
  /\ UNCHANGED << bucket, jobsFile, steady, failures >>

RegistersOnlyNew(c) ==
  /\ At(c, "record")
  /\ Change([record EXCEPT ![client[c].script] = client[c].content], index)
  /\ Goes(c, IF record[client[c].script] = None THEN "getIndex" ELSE "written")
  /\ UNCHANGED << jobsFile, overlapped, deleted, bounds >>
PutRecord(c) ==
  /\ At(c, "record")
  /\ Change([record EXCEPT ![client[c].script] = client[c].content], index)
  /\ Goes(c, "getIndex")
  /\ UNCHANGED << jobsFile, overlapped, deleted, bounds >>

(* load_index; an update of a listed script is done.                       *)
PutGetIndex(c) ==
  /\ At(c, "getIndex") /\ client[c].content \in Contents
  /\ IF client[c].script \in index THEN Goes(c, "written")
     ELSE Becomes(c, [client[c] EXCEPT !.pc = "saveIndex", !.ids = index])
  /\ UNCHANGED << bucket, jobsFile, history, bounds >>

PutSaveIndex(c) ==
  /\ At(c, "saveIndex") /\ client[c].content \in Contents
  /\ Change(record, client[c].ids \union {client[c].script})
  /\ Goes(c, "written")
  /\ UNCHANGED << jobsFile, overlapped, deleted, bounds >>

----------------------------------------------------------------------------
(* delete_script.                                                          *)

StartDelete(c, s) ==
  /\ IsFree(c)
  /\ StartsWriting
  /\ Becomes(c, [Idle EXCEPT !.pc = "lookup", !.script = s])
  /\ UNCHANGED << bucket, jobsFile, steady, deleted, failures >>

(* A script there is no object of: 404.                                    *)
DeleteLookup(c) ==
  /\ At(c, "lookup")
  /\ Goes(c, IF record[client[c].script] = None THEN "written" ELSE "delete")
  /\ UNCHANGED << bucket, jobsFile, history, bounds >>

(* The object of a script goes; a put that is about to write it is later.  *)
IsDeleted(s) ==
  deleted' = IF \E d \in Clients : At(d, "record") /\ client[d].script = s
             THEN deleted ELSE deleted \union {s}

DeleteRecord(c) ==
  LET s == client[c].script
  IN  /\ At(c, "delete")
      /\ Change([record EXCEPT ![s] = None], index)
      /\ IsDeleted(s)
      /\ Goes(c, "getIndex")
      /\ UNCHANGED << jobsFile, overlapped, bounds >>

(* bucket.delete raises, whether it has deleted the object or not.         *)
DeleteRefused(c) ==
  LET s == client[c].script
  IN  /\ At(c, "delete")
      /\ MayFail
      /\ \E object \in {None, record[s]} :
           Change([record EXCEPT ![s] = object], index)
      /\ Goes(c, "stub")
      /\ UNCHANGED << jobsFile, overlapped, deleted, calls >>

StubKeepsScript(c) ==
  /\ At(c, "stub")
  /\ UNCHANGED << bucket, steady >>
  /\ IsDeleted(client[c].script)
  /\ Goes(c, "getIndex")
  /\ UNCHANGED << jobsFile, overlapped, bounds >>
PutStub(c) ==
  LET s == client[c].script
  IN  /\ At(c, "stub")
      /\ Change([record EXCEPT ![s] = Stub], index)
      /\ IsDeleted(s)
      /\ Goes(c, "getIndex")
      /\ UNCHANGED << jobsFile, overlapped, bounds >>

DeleteGetIndex(c) ==
  /\ At(c, "getIndex") /\ client[c].content = None
  /\ Becomes(c, [client[c] EXCEPT !.pc = "saveIndex", !.ids = index])
  /\ UNCHANGED << bucket, jobsFile, history, bounds >>

DeleteSaveIndex(c) ==
  /\ At(c, "saveIndex") /\ client[c].content = None
  /\ Change(record, client[c].ids \ {client[c].script})
  /\ Goes(c, "written")
  /\ UNCHANGED << jobsFile, overlapped, deleted, bounds >>

----------------------------------------------------------------------------
(* list_scripts, load_cron_jobs, put_cron_jobs.                            *)

StartList(c) ==
  /\ IsFree(c)
  /\ Becomes(c, [Idle EXCEPT !.pc = "listIndex"])
  /\ UNCHANGED << bucket, jobsFile, history, failures >>

(* Explicit jobs are answered at once; without them every enabled script   *)
(* of the registry is a job.                                               *)
LoadJobs(c) ==
  /\ IsFree(c)
  /\ IF jobsFile.exists THEN UNCHANGED client
     ELSE Becomes(c, [Idle EXCEPT !.pc = "listIndex", !.derive = TRUE])
  /\ UNCHANGED << bucket, jobsFile, history, failures >>

StopsAtHole(c, s, object) ==
  IF Live(object) = None THEN [client[c] EXCEPT !.ids = {}]
  ELSE [client[c] EXCEPT !.ids = @ \ {s}, !.answer[s] = object]
Lists(c, s, object) ==
  LET r == client[c]
      v == Live(object)
  IN  [r EXCEPT !.ids = @ \ {s},
                !.answer[s] = IF r.derive /\ v \notin Enabled THEN None ELSE v]

ListIndex(c) ==
  /\ At(c, "listIndex")
  /\ Becomes(c, [client[c] EXCEPT !.pc = "listRecord", !.ids = index])
  /\ steady' = [steady EXCEPT ![c] = Scripts]
  /\ UNCHANGED << bucket, jobsFile, overlapped, deleted, bounds >>

ListRecord(c, s) ==
  /\ At(c, "listRecord") /\ s \in client[c].ids
  /\ Becomes(c, Lists(c, s, record[s]))
  /\ UNCHANGED << bucket, jobsFile, history, bounds >>

EndList(c) ==
  /\ At(c, "listRecord") /\ client[c].ids = {}
  /\ Goes(c, "listed")
  /\ UNCHANGED << bucket, jobsFile, history, bounds >>

PutJobs(c, jobs) ==
  /\ IsFree(c)
  /\ jobsFile' = [exists |-> TRUE, jobs |-> jobs]
  /\ UNCHANGED << bucket, client, history, failures >>

(* The answer goes out.                                                    *)
Return(c) ==
  /\ client[c].pc \in {"written", "listed"}
  /\ Becomes(c, Idle)
  /\ steady' = [steady EXCEPT ![c] = {}]
  /\ UNCHANGED << bucket, jobsFile, overlapped, deleted, bounds >>

(* An R2 call fails, or the isolate is evicted: 500, or no answer.         *)
Fail(c) ==
  /\ ~At(c, "idle")
  /\ MayFail
  /\ Becomes(c, Idle)
  /\ steady' = [steady EXCEPT ![c] = {}]
  /\ UNCHANGED << bucket, jobsFile, overlapped, deleted, calls >>

Write(c) ==
  \/ PutRecord(c) \/ PutGetIndex(c) \/ PutSaveIndex(c)
  \/ DeleteLookup(c) \/ DeleteRecord(c) \/ DeleteRefused(c) \/ PutStub(c)
  \/ DeleteGetIndex(c) \/ DeleteSaveIndex(c)

Next ==
  \E c \in Clients :
    \/ \E s \in Scripts : StartDelete(c, s) \/ ListRecord(c, s)
    \/ \E s \in Scripts, v \in Contents : StartPut(c, s, v)
    \/ \E jobs \in SUBSET Scripts : PutJobs(c, jobs)
    \/ Write(c)
    \/ StartList(c) \/ LoadJobs(c) \/ ListIndex(c) \/ EndList(c)
    \/ Return(c) \/ Fail(c)

Spec == Init /\ [][Next]_vars

----------------------------------------------------------------------------
(* Properties.                                                             *)

(* A write has taken effect when its script is listed, or not, as it wants *)
(* (rec and ids are the objects and the index of the bucket).              *)
Applied(r, rec, ids) ==
  \/ r.pc = "written"
  \/ r.pc = "getIndex" /\ (r.content # None => r.script \in ids)
  \/ r.pc = "saveIndex" /\ r.content = None
  \/ r.pc = "stub" /\ Live(rec[r.script]) = None

CallOf(r, rec, ids) ==
  IF r.pc \in Writing
  THEN [script |-> r.script, content |-> r.content, applied |-> Applied(r, rec, ids)]
  ELSE [script |-> None, content |-> None, applied |-> FALSE]

Listed == Entries(record, index)
Waiting == [c \in Clients |-> CallOf(client[c], record, index)]

Map == INSTANCE ScriptMap WITH map <- Listed, call <- Waiting

(* As long as no two writes overlap, the registry is a map to those who    *)
(* list it, though a put writes two objects and a delete up to three, and  *)
(* any of them may be the last a request writes: a write shows at once or  *)
(* not at all, before it is answered, and never later.                     *)
ImplementsMap == Map!Init /\ [][overlapped' \/ Map!Next]_(Map!vars)

(* A listing is complete, whatever else goes on: every script that was     *)
(* listed all along is in it as it was all along, and, when jobs are       *)
(* derived, has a job if and only if it is enabled.                        *)
ListComplete ==
  \A c \in Clients : At(c, "listed") =>
    \A s \in steady[c] : Listed[s] # None =>
      client[c].answer[s] =
        IF client[c].derive /\ Listed[s] \notin Enabled THEN None ELSE Listed[s]

(* A deleted script stays deleted until someone puts it again, whichever   *)
(* puts and deletes of other scripts write back an index they read before: *)
(* neither a list nor a job that names it finds it.                        *)
DeletedStaysDeleted == \A s \in deleted : Live(record[s]) = None

=============================================================================
