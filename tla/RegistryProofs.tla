--------------------------- MODULE RegistryProofs ---------------------------
(***************************************************************************)
(* What holds of Registry for any requests, scripts, contents and bounds.  *)
(***************************************************************************)
EXTENDS Registry, TLAPS

----------------------------------------------------------------------------
(* Types.                                                                  *)

LEMMA IdleType == Idle \in Request /\ IsWhole(Idle) /\ NoEntries \in [Scripts -> Values]
BY DEF Idle, Request, IsWhole, Writing, Reading, NoEntries, Values

(* A request becomes another well-formed one.                              *)
LEMMA BecomesType ==
  ASSUME TypeOK, NEW c \in Clients, NEW r \in Request, IsWhole(r), Becomes(c, r)
  PROVE  client' \in [Clients -> Request] /\ \A d \in Clients : IsWhole(client'[d])
BY DEF TypeOK, Becomes

(* So does one that moves on within its own call.                          *)
LEMMA GoesType ==
  ASSUME TypeOK, NEW c \in Clients, NEW pc \in {"idle"} \union Writing \union Reading,
         pc \in Writing => client[c].pc \in Writing,
         pc # "record",
         pc \in {"lookup", "delete", "stub"} => client[c].content = None
  PROVE  /\ [client[c] EXCEPT !.pc = pc] \in Request
         /\ IsWhole([client[c] EXCEPT !.pc = pc])
<1> DEFINE r == client[c]
<1>1. r \in Request /\ IsWhole(r)
  BY DEF TypeOK
<1>2. [r EXCEPT !.pc = pc] \in Request
  BY <1>1 DEF Request
<1>3. /\ [r EXCEPT !.pc = pc].pc = pc
      /\ [r EXCEPT !.pc = pc].script = r.script
      /\ [r EXCEPT !.pc = pc].content = r.content
  BY <1>1 DEF Request
<1>4. IsWhole([r EXCEPT !.pc = pc])
  BY <1>1, <1>3 DEF IsWhole
<1> QED
  BY <1>2, <1>4

(* What the bucket and the histories become is well formed.                *)
LEMMA ChangeType ==
  ASSUME TypeOK, NEW rec \in [Scripts -> Values \union {Stub}],
         NEW ids \in SUBSET Scripts, Change(rec, ids)
  PROVE  /\ record' \in [Scripts -> Values \union {Stub}]
         /\ index' \in SUBSET Scripts
         /\ steady' \in [Clients -> SUBSET Scripts]
BY DEF Change, TypeOK

(* A new request is counted within the bound, and a failure too.           *)
LEMMA BoundTypes ==
  /\ TypeOK /\ (\E c \in Clients : IsFree(c)) => calls' \in 0..MaxCalls
  /\ TypeOK /\ MayFail => failures' \in 0..MaxFailures
  /\ TypeOK /\ StartsWriting => overlapped' \in BOOLEAN
<1>1. TypeOK /\ (\E c \in Clients : IsFree(c)) => calls' \in 0..MaxCalls
  BY BoundsAssumption DEF TypeOK, IsFree
<1>2. TypeOK /\ MayFail => failures' \in 0..MaxFailures
  BY BoundsAssumption DEF TypeOK, MayFail
<1>3. TypeOK /\ StartsWriting => overlapped' \in BOOLEAN
  BY DEF StartsWriting
<1> QED
  BY <1>1, <1>2, <1>3

LEMMA InitTypeOK == Init => TypeOK
<1> SUFFICES ASSUME Init PROVE TypeOK
  OBVIOUS
<1>1. record \in [Scripts -> Values \union {Stub}]
  BY DEF Init, NoEntries, Values
<1>2. client \in [Clients -> Request] /\ \A c \in Clients : IsWhole(client[c])
  BY IdleType DEF Init
<1>3. jobsFile \in JobsFile
  BY DEF Init, JobsFile
<1>4. steady \in [Clients -> SUBSET Scripts] /\ index \subseteq Scripts
      /\ overlapped \in BOOLEAN /\ deleted \subseteq Scripts
  BY DEF Init
<1>5. calls \in 0..MaxCalls /\ failures \in 0..MaxFailures
  BY BoundsAssumption DEF Init
<1> QED
  BY <1>1, <1>2, <1>3, <1>4, <1>5 DEF TypeOK

(* The steps of a put.                                                     *)
LEMMA PutType ==
  ASSUME TypeOK, NEW c \in Clients,
         \/ \E s \in Scripts, v \in Contents : StartPut(c, s, v)
         \/ PutRecord(c) \/ PutGetIndex(c) \/ PutSaveIndex(c)
  PROVE  TypeOK'
<1> DEFINE r == client[c]
<1>0. r \in Request /\ IsWhole(r)
  BY DEF TypeOK
<1>1. CASE \E s \in Scripts, v \in Contents : StartPut(c, s, v)
  <2>1. PICK s \in Scripts, v \in Contents : StartPut(c, s, v)
    BY <1>1
  <2> DEFINE q == [Idle EXCEPT !.pc = "record", !.script = s, !.content = v]
  <2>2. q \in Request /\ IsWhole(q)
    BY IdleType DEF Idle, Request, IsWhole, Writing, Values
  <2>3. client' \in [Clients -> Request] /\ \A d \in Clients : IsWhole(client'[d])
    BY <2>1, <2>2, BecomesType DEF StartPut
  <2>4. calls' \in 0..MaxCalls /\ overlapped' \in BOOLEAN
    BY <2>1, BoundTypes DEF StartPut
  <2> QED
    BY <2>1, <2>3, <2>4 DEF StartPut, TypeOK, bucket
<1>2. CASE PutRecord(c)
  <2> DEFINE rec == [record EXCEPT ![r.script] = r.content]
  <2>1. rec \in [Scripts -> Values \union {Stub}] /\ index \in SUBSET Scripts
    BY <1>0 DEF TypeOK, Request
  <2>2. Change(rec, index) /\ At(c, "record")
    BY <1>2 DEF PutRecord
  <2>3. [r EXCEPT !.pc = "getIndex"] \in Request /\ IsWhole([r EXCEPT !.pc = "getIndex"])
    BY <2>2, GoesType DEF At, Writing
  <2>4. client' \in [Clients -> Request] /\ \A d \in Clients : IsWhole(client'[d])
    BY <1>2, <2>3, BecomesType DEF PutRecord, Goes
  <2>5. /\ record' \in [Scripts -> Values \union {Stub}]
        /\ index' \in SUBSET Scripts /\ steady' \in [Clients -> SUBSET Scripts]
    BY <2>1, <2>2, ChangeType
  <2> QED
    BY <1>2, <2>4, <2>5 DEF PutRecord, TypeOK, bounds
<1>3. CASE PutGetIndex(c)
  <2>1. At(c, "getIndex") /\ index \in SUBSET Scripts
    BY <1>3 DEF PutGetIndex, TypeOK
  <2>2. /\ [r EXCEPT !.pc = "written"] \in Request
        /\ IsWhole([r EXCEPT !.pc = "written"])
    BY <2>1, GoesType DEF At, Writing
  <2> DEFINE q == [r EXCEPT !.pc = "saveIndex", !.ids = index]
  <2>3. q \in Request /\ q.pc = "saveIndex" /\ q.script = r.script
    BY <1>0, <2>1 DEF Request, Writing
  <2>4. IsWhole(q)
    BY <1>0, <2>1, <2>3 DEF IsWhole, At, Writing
  <2>5. client' \in [Clients -> Request] /\ \A d \in Clients : IsWhole(client'[d])
    BY <1>3, <2>2, <2>3, <2>4, BecomesType DEF PutGetIndex, Goes
  <2> QED
    BY <1>3, <2>5 DEF PutGetIndex, TypeOK, bucket, history, bounds
<1>4. CASE PutSaveIndex(c)
  <2> DEFINE ids == r.ids \union {r.script}
  <2>1. At(c, "saveIndex") /\ Change(record, ids)
    BY <1>4 DEF PutSaveIndex
  <2>2. ids \in SUBSET Scripts
    BY <1>0, <2>1 DEF At, IsWhole, Writing, Request
  <2>3. /\ [r EXCEPT !.pc = "written"] \in Request
        /\ IsWhole([r EXCEPT !.pc = "written"])
    BY <2>1, GoesType DEF At, Writing
  <2>4. client' \in [Clients -> Request] /\ \A d \in Clients : IsWhole(client'[d])
    BY <1>4, <2>3, BecomesType DEF PutSaveIndex, Goes
  <2>5. record \in [Scripts -> Values \union {Stub}]
    BY DEF TypeOK
  <2>6. /\ record' \in [Scripts -> Values \union {Stub}]
        /\ index' \in SUBSET Scripts /\ steady' \in [Clients -> SUBSET Scripts]
    BY <2>1, <2>2, <2>5, ChangeType
  <2> QED
    BY <1>4, <2>4, <2>6 DEF PutSaveIndex, TypeOK, bounds
<1> QED
  BY <1>1, <1>2, <1>3, <1>4
(* The steps of a delete.                                                  *)
LEMMA DeleteType ==
  ASSUME TypeOK, NEW c \in Clients,
         \/ \E s \in Scripts : StartDelete(c, s)
         \/ DeleteLookup(c) \/ DeleteRecord(c) \/ DeleteRefused(c) \/ PutStub(c)
         \/ DeleteGetIndex(c) \/ DeleteSaveIndex(c)
  PROVE  TypeOK'
<1> DEFINE r == client[c]
<1>0. r \in Request /\ IsWhole(r)
  BY DEF TypeOK
<1>1. CASE \E s \in Scripts : StartDelete(c, s)
  <2>1. PICK s \in Scripts : StartDelete(c, s)
    BY <1>1
  <2> DEFINE q == [Idle EXCEPT !.pc = "lookup", !.script = s]
  <2>2. q \in Request /\ IsWhole(q)
    BY IdleType DEF Idle, Request, IsWhole, Writing, Values
  <2>3. client' \in [Clients -> Request] /\ \A d \in Clients : IsWhole(client'[d])
    BY <2>1, <2>2, BecomesType DEF StartDelete
  <2>4. calls' \in 0..MaxCalls /\ overlapped' \in BOOLEAN
    BY <2>1, BoundTypes DEF StartDelete
  <2> QED
    BY <2>1, <2>3, <2>4 DEF StartDelete, TypeOK, bucket
<1>2. CASE DeleteLookup(c)
  <2> DEFINE pc == IF record[r.script] = None THEN "written" ELSE "delete"
  <2>1. At(c, "lookup") /\ r.content = None
    BY <1>0, <1>2 DEF DeleteLookup, IsWhole, At
  <2>2. [r EXCEPT !.pc = pc] \in Request /\ IsWhole([r EXCEPT !.pc = pc])
    BY <2>1, GoesType DEF At, Writing
  <2>3. client' \in [Clients -> Request] /\ \A d \in Clients : IsWhole(client'[d])
    BY <1>2, <2>2, BecomesType DEF DeleteLookup, Goes
  <2> QED
    BY <1>2, <2>3 DEF DeleteLookup, TypeOK, bucket, history, bounds
<1>3. CASE DeleteRecord(c) \/ DeleteRefused(c) \/ PutStub(c)
  <2>1. PICK object \in Values \union {Stub} :
          Change([record EXCEPT ![r.script] = object], index)
    <3>1. None \in Values /\ record[r.script] \in Values \union {Stub}
      BY <1>0, <1>3 DEF TypeOK, IsWhole, Writing, At, DeleteRecord, DeleteRefused,
                        PutStub, Values
    <3> QED
      BY <1>3, <3>1 DEF DeleteRecord, DeleteRefused, PutStub
  <2>2. At(c, "delete") \/ At(c, "stub")
    BY <1>3 DEF DeleteRecord, DeleteRefused, PutStub
  <2>3. r.content = None /\ r.script \in Scripts
    BY <1>0, <2>2 DEF At, IsWhole, Writing
  <2>4. PICK pc \in {"getIndex", "stub"} : Goes(c, pc)
    BY <1>3 DEF DeleteRecord, DeleteRefused, PutStub
  <2>5. [r EXCEPT !.pc = pc] \in Request /\ IsWhole([r EXCEPT !.pc = pc])
    BY <2>2, <2>3, GoesType DEF At, Writing
  <2>6. client' \in [Clients -> Request] /\ \A d \in Clients : IsWhole(client'[d])
    BY <2>4, <2>5, BecomesType DEF Goes
  <2>7. /\ [record EXCEPT ![r.script] = object] \in [Scripts -> Values \union {Stub}]
        /\ index \in SUBSET Scripts
    BY DEF TypeOK
  <2>8. /\ record' \in [Scripts -> Values \union {Stub}]
        /\ index' \in SUBSET Scripts /\ steady' \in [Clients -> SUBSET Scripts]
    BY <2>1, <2>7, ChangeType
  <2>9. deleted' \subseteq Scripts
    BY <1>3, <2>3 DEF DeleteRecord, DeleteRefused, PutStub, IsDeleted, TypeOK
  <2>10. calls' \in 0..MaxCalls /\ failures' \in 0..MaxFailures
    BY <1>3, BoundTypes DEF DeleteRecord, DeleteRefused, PutStub, bounds, TypeOK
  <2>11. jobsFile' \in JobsFile /\ overlapped' \in BOOLEAN
    BY <1>3 DEF DeleteRecord, DeleteRefused, PutStub, TypeOK
  <2> QED
    BY <2>6, <2>8, <2>9, <2>10, <2>11 DEF TypeOK
<1>4. CASE DeleteGetIndex(c)
  <2> DEFINE q == [r EXCEPT !.pc = "saveIndex", !.ids = index]
  <2>1. At(c, "getIndex") /\ index \in SUBSET Scripts
    BY <1>4 DEF DeleteGetIndex, TypeOK
  <2>2. q \in Request /\ q.pc = "saveIndex" /\ q.script = r.script
    BY <1>0, <2>1 DEF Request, Writing
  <2>3. IsWhole(q)
    BY <1>0, <2>1, <2>2 DEF IsWhole, At, Writing
  <2>4. client' \in [Clients -> Request] /\ \A d \in Clients : IsWhole(client'[d])
    BY <1>4, <2>2, <2>3, BecomesType DEF DeleteGetIndex
  <2> QED
    BY <1>4, <2>4 DEF DeleteGetIndex, TypeOK, bucket, history, bounds
<1>5. CASE DeleteSaveIndex(c)
  <2> DEFINE ids == r.ids \ {r.script}
  <2>1. At(c, "saveIndex") /\ Change(record, ids)
    BY <1>5 DEF DeleteSaveIndex
  <2>2. ids \in SUBSET Scripts /\ record \in [Scripts -> Values \union {Stub}]
    BY <1>0 DEF Request, TypeOK
  <2>3. /\ [r EXCEPT !.pc = "written"] \in Request
        /\ IsWhole([r EXCEPT !.pc = "written"])
    BY <2>1, GoesType DEF At, Writing
  <2>4. client' \in [Clients -> Request] /\ \A d \in Clients : IsWhole(client'[d])
    BY <1>5, <2>3, BecomesType DEF DeleteSaveIndex, Goes
  <2>5. /\ record' \in [Scripts -> Values \union {Stub}]
        /\ index' \in SUBSET Scripts /\ steady' \in [Clients -> SUBSET Scripts]
    BY <2>1, <2>2, ChangeType
  <2> QED
    BY <1>5, <2>4, <2>5 DEF DeleteSaveIndex, TypeOK, bounds
<1> QED
  BY <1>1, <1>2, <1>3, <1>4, <1>5

(* The steps of the others, the answers and the failures.                  *)
LEMMA OtherType ==
  ASSUME TypeOK, NEW c \in Clients,
         \/ \E s \in Scripts : ListRecord(c, s)
         \/ \E jobs \in SUBSET Scripts : PutJobs(c, jobs)
         \/ StartList(c) \/ LoadJobs(c) \/ ListIndex(c) \/ EndList(c)
         \/ Return(c) \/ Fail(c)
  PROVE  TypeOK'
<1> DEFINE r == client[c]
<1>0. r \in Request /\ IsWhole(r)
  BY DEF TypeOK
<1>1. CASE \E s \in Scripts : ListRecord(c, s)
  <2>1. PICK s \in Scripts : ListRecord(c, s)
    BY <1>1
  <2> DEFINE v == Live(record[s])
             w == IF r.derive /\ v \notin Enabled THEN None ELSE v
             q == [r EXCEPT !.ids = @ \ {s}, !.answer[s] = w]
  <2>2. w \in Values
    BY DEF Live, Values
  <2>3. q \in Request /\ q.pc = r.pc /\ r.pc = "listRecord"
    BY <1>0, <2>1, <2>2 DEF Request, ListRecord, At
  <2>4. IsWhole(q)
    BY <2>3 DEF IsWhole, Writing
  <2>5. Becomes(c, q)
    BY <2>1 DEF ListRecord, Lists
  <2>6. client' \in [Clients -> Request] /\ \A d \in Clients : IsWhole(client'[d])
    BY <2>3, <2>4, <2>5, BecomesType
  <2> QED
    BY <2>1, <2>6 DEF ListRecord, TypeOK, bucket, history, bounds
<1>2. CASE \E jobs \in SUBSET Scripts : PutJobs(c, jobs)
  <2>1. PICK jobs \in SUBSET Scripts : PutJobs(c, jobs)
    BY <1>2
  <2>2. jobsFile' \in JobsFile
    BY <2>1 DEF PutJobs, JobsFile
  <2>3. calls' \in 0..MaxCalls
    BY <2>1, BoundTypes DEF PutJobs
  <2> QED
    BY <2>1, <2>2, <2>3 DEF PutJobs, TypeOK, bucket, history
<1>3. CASE StartList(c) \/ LoadJobs(c)
  <2>1. /\ [Idle EXCEPT !.pc = "listIndex"] \in Request
        /\ IsWhole([Idle EXCEPT !.pc = "listIndex"])
        /\ [Idle EXCEPT !.pc = "listIndex", !.derive = TRUE] \in Request
        /\ IsWhole([Idle EXCEPT !.pc = "listIndex", !.derive = TRUE])
    BY IdleType DEF Idle, Request, IsWhole, Writing, Reading
  <2>2. client' \in [Clients -> Request] /\ \A d \in Clients : IsWhole(client'[d])
    BY <1>3, <2>1, BecomesType DEF StartList, LoadJobs, TypeOK
  <2>3. calls' \in 0..MaxCalls
    BY <1>3, BoundTypes DEF StartList, LoadJobs
  <2> QED
    BY <1>3, <2>2, <2>3 DEF StartList, LoadJobs, TypeOK, bucket, history
<1>4. CASE ListIndex(c)
  <2> DEFINE q == [r EXCEPT !.pc = "listRecord", !.ids = index]
  <2>1. q \in Request /\ q.pc = "listRecord"
    BY <1>0 DEF Request, Reading, TypeOK
  <2>2. IsWhole(q)
    BY <2>1 DEF IsWhole, Writing
  <2>3. client' \in [Clients -> Request] /\ \A d \in Clients : IsWhole(client'[d])
    BY <1>4, <2>1, <2>2, BecomesType DEF ListIndex
  <2> QED
    BY <1>4, <2>3 DEF ListIndex, TypeOK, bucket, bounds
<1>5. CASE EndList(c)
  <2>1. [r EXCEPT !.pc = "listed"] \in Request /\ IsWhole([r EXCEPT !.pc = "listed"])
    BY GoesType DEF Writing, Reading
  <2>2. client' \in [Clients -> Request] /\ \A d \in Clients : IsWhole(client'[d])
    BY <1>5, <2>1, BecomesType DEF EndList, Goes
  <2> QED
    BY <1>5, <2>2 DEF EndList, TypeOK, bucket, history, bounds
<1>6. CASE Return(c) \/ Fail(c)
  <2>1. client' \in [Clients -> Request] /\ \A d \in Clients : IsWhole(client'[d])
    BY <1>6, IdleType, BecomesType DEF Return, Fail
  <2>2. steady' \in [Clients -> SUBSET Scripts]
    BY <1>6 DEF Return, Fail, TypeOK
  <2>3. calls' \in 0..MaxCalls /\ failures' \in 0..MaxFailures
    BY <1>6, BoundTypes DEF Return, Fail, TypeOK, bounds
  <2> QED
    BY <1>6, <2>1, <2>2, <2>3 DEF Return, Fail, TypeOK, bucket
<1> QED
  BY <1>1, <1>2, <1>3, <1>4, <1>5, <1>6

LEMMA NextTypeOK == TypeOK /\ [Next]_vars => TypeOK'
<1> SUFFICES ASSUME TypeOK, [Next]_vars PROVE TypeOK'
  OBVIOUS
<1>1. CASE Next
  <2>1. PICK c \in Clients :
          \/ \E s \in Scripts : StartDelete(c, s) \/ ListRecord(c, s)
          \/ \E s \in Scripts, v \in Contents : StartPut(c, s, v)
          \/ \E jobs \in SUBSET Scripts : PutJobs(c, jobs)
          \/ Write(c)
          \/ StartList(c) \/ LoadJobs(c) \/ ListIndex(c) \/ EndList(c)
          \/ Return(c) \/ Fail(c)
    BY <1>1 DEF Next
  <2> QED
    BY <2>1, PutType, DeleteType, OtherType DEF Write
<1>2. CASE UNCHANGED vars
  BY <1>2 DEF vars, bucket, history, bounds, TypeOK
<1> QED
  BY <1>1, <1>2

(* The bucket holds only well-formed objects, and every request is in a    *)
(* state of its own handler, whatever fails.                               *)
THEOREM RegistryTypeCorrect == Spec => []TypeOK
BY InitTypeOK, NextTypeOK, PTL DEF Spec

----------------------------------------------------------------------------
(* The refinement.                                                         *)

(* What a request that writes relies on while it is the only one: it has   *)
(* left its script as it wants it, and the index it has read is the one in *)
(* the bucket.                                                             *)
KnowsBucket(r, rec, ids) ==
  /\ r.pc \in {"getIndex", "saveIndex"} => Live(rec[r.script]) = r.content
  /\ r.pc = "saveIndex" => r.ids = ids
  /\ r.pc = "saveIndex" /\ r.content # None => r.script \notin ids

Alone == \A c, d \in Clients :
           client[c].pc \in Writing /\ client[d].pc \in Writing => c = d

SequentialOK ==
  ~overlapped => Alone /\ \A c \in Clients : KnowsBucket(client[c], record, index)

(* What is listed after one object or the index has changed.               *)
LEMMA ListedFacts ==
  ASSUME TypeOK, NEW s \in Scripts, NEW object,
         record' = [record EXCEPT ![s] = object], index' = index
  PROVE  Listed' = [Listed EXCEPT ![s] = IF s \in index THEN Live(object) ELSE None]
<1>1. Listed' = [x \in Scripts |-> IF x \in index THEN Live(record'[x]) ELSE None]
  BY DEF Listed, Entries
<1>2. \A x \in Scripts : record'[x] = IF x = s THEN object ELSE record[x]
  BY DEF TypeOK
<1> DEFINE new(x) == IF x = s THEN (IF s \in index THEN Live(object) ELSE None)
                     ELSE Listed[x]
<1>3. \A x \in Scripts : (IF x \in index THEN Live(record'[x]) ELSE None) = new(x)
  BY <1>2 DEF Listed, Entries
<1>4. Listed' = [x \in Scripts |-> new(x)]
  BY <1>1, <1>3
<1>5. [Listed EXCEPT ![s] = IF s \in index THEN Live(object) ELSE None]
        = [x \in Scripts |-> new(x)]
  BY DEF Listed, Entries
<1> QED
  BY <1>4, <1>5

LEMMA ListedWith ==
  ASSUME NEW s \in Scripts, record' = record, index' = index \union {s}
  PROVE  Listed' = [Listed EXCEPT ![s] = Live(record[s])]
BY DEF Listed, Entries

LEMMA ListedWithout ==
  ASSUME NEW s \in Scripts, record' = record, index' = index \ {s}
  PROVE  Listed' = [Listed EXCEPT ![s] = None]
BY DEF Listed, Entries

LEMMA ListedSame ==
  ASSUME NEW s \in Scripts, NEW v, Listed[s] = v
  PROVE  [Listed EXCEPT ![s] = v] = Listed
BY DEF Listed, Entries

LEMMA ListedNone ==
  ASSUME NEW s \in Scripts, s \notin index \/ Live(record[s]) = None
  PROVE  Listed[s] = None
BY DEF Listed, Entries

LEMMA LiveFacts ==
  /\ \A v \in Contents : Live(v) = v
  /\ Live(None) = None /\ Live(Stub) = None
BY ContentsAssumption DEF Live

(* A request that moves on changes its own pending call only: the others   *)
(* are not writing, or nothing is written.                                 *)
LEMMA WaitingStep ==
  ASSUME TypeOK, NEW c \in Clients, NEW q \in Request, Becomes(c, q),
         \/ UNCHANGED << record, index >>
         \/ \A d \in Clients \ {c} : client[d].pc \notin Writing
  PROVE  Waiting' = [Waiting EXCEPT ![c] = CallOf(q, record', index')]
<1>1. \A d \in Clients \ {c} :
        CallOf(client[d], record', index') = CallOf(client[d], record, index)
  BY DEF CallOf
<1>2. \A d \in Clients : client'[d] = IF d = c THEN q ELSE client[d]
  BY DEF Becomes, TypeOK
<1>3. Waiting' = [d \in Clients |-> CallOf(client'[d], record', index')]
  BY DEF Waiting
<1>4. [Waiting EXCEPT ![c] = CallOf(q, record', index')]
        = [d \in Clients |-> IF d = c THEN CallOf(q, record', index')
                             ELSE CallOf(client[d], record, index)]
  BY DEF Waiting
<1> QED
  BY <1>1, <1>2, <1>3, <1>4

(* It stays alone, and the others keep what they rely on.                  *)
LEMMA AloneStep ==
  ASSUME TypeOK, SequentialOK, ~overlapped, NEW c \in Clients, NEW q \in Request,
         Becomes(c, q), KnowsBucket(q, record', index'),
         \/ UNCHANGED << record, index >>
         \/ client[c].pc \in Writing,
         \/ client[c].pc \in Writing
         \/ q.pc \notin Writing
         \/ \A d \in Clients : client[d].pc \notin Writing
  PROVE  SequentialOK'
<1>1. \A d \in Clients : client'[d] = IF d = c THEN q ELSE client[d]
  BY DEF Becomes, TypeOK
<1>2. Alone /\ \A d \in Clients : KnowsBucket(client[d], record, index)
  BY DEF SequentialOK
<1>3. Alone'
  BY <1>1, <1>2 DEF Alone
<1>4. \A d \in Clients \ {c} : KnowsBucket(client[d], record', index')
  BY <1>2 DEF Alone, KnowsBucket, Writing
<1>5. \A d \in Clients : KnowsBucket(client'[d], record', index')
  BY <1>1, <1>4
<1>6. (\A d \in Clients : KnowsBucket(client[d], record, index))'
  BY <1>5
<1> QED
  BY <1>3, <1>6 DEF SequentialOK
(* A step by which a pending call takes effect, and one without effect.    *)
LEMMA AppliesStep ==
  ASSUME NEW c \in Clients, NEW s \in Scripts, NEW v,
         Waiting[c] = [script |-> s, content |-> v, applied |-> FALSE],
         Waiting' = [Waiting EXCEPT ![c] = [script |-> s, content |-> v, applied |-> TRUE]],
         Listed' = [Listed EXCEPT ![s] = v]
  PROVE  Map!Next
<1>1. Waiting[c] # Map!NoCall /\ ~Waiting[c].applied
  BY ContentsAssumption DEF Map!NoCall, Map!Pending
<1>3. Waiting[c].script = s /\ Waiting[c].content = v
  OBVIOUS
<1>4. Map!Apply(c)
  BY <1>1, <1>3 DEF Map!Apply, Map!Pending
<1> QED
  BY <1>4 DEF Map!Next

(* What a request that writes shows of itself.                             *)
LEMMA CallFacts ==
  ASSUME NEW r, NEW rec, NEW ids, r.pc \in Writing
  PROVE  /\ Applied(r, rec, ids) => CallOf(r, rec, ids)
                = [script |-> r.script, content |-> r.content, applied |-> TRUE]
         /\ ~Applied(r, rec, ids) => CallOf(r, rec, ids)
                = [script |-> r.script, content |-> r.content, applied |-> FALSE]
<1>1. Applied(r, rec, ids) \in BOOLEAN
  BY DEF Applied
<1>2. CallOf(r, rec, ids) = [script |-> r.script, content |-> r.content,
                             applied |-> Applied(r, rec, ids)]
  BY DEF CallOf
<1>3. Applied(r, rec, ids) => Applied(r, rec, ids) = TRUE
  BY <1>1
<1>4. ~Applied(r, rec, ids) => Applied(r, rec, ids) = FALSE
  BY <1>1
<1> QED
  BY <1>2, <1>3, <1>4

LEMMA StuttersStep ==
  ASSUME NEW c \in Clients, NEW call, Waiting[c] = call,
         Waiting' = [Waiting EXCEPT ![c] = call], Listed' = Listed
  PROVE  UNCHANGED Map!vars
BY DEF Map!vars, Waiting

(* The others are not writing while a request writes alone.                *)
LEMMA OthersWait ==
  ASSUME SequentialOK, ~overlapped, NEW c \in Clients, client[c].pc \in Writing
  PROVE  \A d \in Clients \ {c} : client[d].pc \notin Writing
BY DEF SequentialOK, Alone

(* A request that moves from one of its awaits to the next.                *)
LEMMA MovedOn ==
  ASSUME TypeOK, NEW c \in Clients, NEW pc \in {"idle"} \union Writing \union Reading,
         Goes(c, pc)
  PROVE  \E q \in Request : /\ Becomes(c, q) /\ q.pc = pc /\ q.ids = client[c].ids
                            /\ q.script = client[c].script
                            /\ q.content = client[c].content
<1> DEFINE q == [client[c] EXCEPT !.pc = pc]
<1>1. client[c] \in Request
  BY DEF TypeOK
<1>2. q \in Request /\ q.pc = pc /\ q.ids = client[c].ids
      /\ q.script = client[c].script /\ q.content = client[c].content
  BY <1>1 DEF Request
<1> QED
  BY <1>2 DEF Goes

(* Each step of a put, while puts and deletes are sequential.              *)
LEMMA StartPutStep ==
  ASSUME TypeOK, SequentialOK, ~overlapped', NEW c \in Clients, NEW s \in Scripts,
         NEW v \in Contents, StartPut(c, s, v)
  PROVE  SequentialOK' /\ Map!Next
<1>1. /\ ~overlapped /\ \A d \in Clients : client[d].pc \notin Writing
      /\ client[c].pc = "idle"
  BY DEF StartPut, StartsWriting, IsFree, At, TypeOK
<1>2. PICK q \in Request : /\ Becomes(c, q) /\ q.pc = "record" /\ q.script = s
                           /\ q.content = v
  <2> DEFINE p == [Idle EXCEPT !.pc = "record", !.script = s, !.content = v]
  <2>1. p \in Request /\ p.pc = "record" /\ p.script = s /\ p.content = v
    BY IdleType DEF Idle, Request, Writing, Values
  <2> QED
    BY <2>1 DEF StartPut
<1>3. UNCHANGED << record, index >>
  BY DEF StartPut, bucket
<1>4. SequentialOK'
  BY <1>1, <1>2, <1>3, AloneStep DEF KnowsBucket
<1>5. Waiting' = [Waiting EXCEPT ![c] = CallOf(q, record', index')]
  BY <1>2, <1>3, WaitingStep
<1>6. CallOf(q, record', index') = [script |-> s, content |-> v, applied |-> FALSE]
  BY <1>2 DEF CallOf, Applied, Writing
<1>7. Waiting[c] = Map!NoCall
  BY <1>1 DEF Waiting, CallOf, Map!NoCall, Map!Pending
<1>8. Listed' = Listed
  BY <1>3 DEF Listed, Entries
<1>9. Map!Begin(c, s, v)
  BY <1>5, <1>6, <1>7, <1>8 DEF Map!Begin, Map!Pending
<1> QED
  BY <1>4, <1>9 DEF Map!Next, Map!Values

LEMMA PutRecordStep ==
  ASSUME TypeOK, SequentialOK, ~overlapped, NEW c \in Clients, PutRecord(c)
  PROVE  SequentialOK' /\ (Map!Next \/ UNCHANGED Map!vars)
<1> DEFINE r == client[c]
<1>1. r.pc = "record" /\ r.pc \in Writing /\ r.script \in Scripts /\ r.content \in Contents
  BY DEF PutRecord, At, TypeOK, IsWhole, Writing
<1>2. PICK s \in Scripts, v \in Contents : s = r.script /\ v = r.content
  BY <1>1
<1>3. PICK q \in Request : /\ Becomes(c, q) /\ q.pc = "getIndex"
                           /\ q.script = s /\ q.content = v
  BY <1>2, MovedOn DEF PutRecord, Writing
<1>4. record' = [record EXCEPT ![s] = v] /\ index' = index
  BY <1>2 DEF PutRecord, Change
<1>5. v # None /\ Live(v) = v /\ record'[s] = v
  BY <1>4, LiveFacts, ContentsAssumption DEF TypeOK
<1>6. KnowsBucket(q, record', index')
  BY <1>3, <1>5 DEF KnowsBucket
<1>7. SequentialOK'
  BY <1>1, <1>3, <1>6, AloneStep
<1>8. Waiting' = [Waiting EXCEPT ![c] = CallOf(q, record', index')]
  BY <1>1, <1>3, OthersWait, WaitingStep
<1>9. Waiting[c] = [script |-> s, content |-> v, applied |-> FALSE]
  BY <1>1, <1>2, CallFacts DEF Waiting, Applied
<1>10. q.pc \in Writing /\ (Applied(q, record', index') <=> s \in index)
  BY <1>3, <1>4, <1>5 DEF Applied, Writing
<1>11. Listed' = [Listed EXCEPT ![s] = IF s \in index THEN v ELSE None]
  BY <1>4, <1>5, ListedFacts
<1>12. CASE s \in index
  <2>1. CallOf(q, record', index') = [script |-> s, content |-> v, applied |-> TRUE]
    BY <1>3, <1>10, <1>12, CallFacts
  <2> QED
    BY <1>7, <1>8, <1>9, <1>11, <1>12, <2>1, AppliesStep
<1>13. CASE s \notin index
  <2>1. CallOf(q, record', index') = Waiting[c]
    BY <1>3, <1>9, <1>10, <1>13, CallFacts
  <2>2. Listed[s] = None
    BY <1>13, ListedNone
  <2>3. Listed' = Listed
    BY <1>11, <1>13, <2>2, ListedSame
  <2> QED
    BY <1>7, <1>8, <2>1, <2>3, StuttersStep
<1> QED
  BY <1>12, <1>13
LEMMA PutGetIndexStep ==
  ASSUME TypeOK, SequentialOK, ~overlapped, NEW c \in Clients, PutGetIndex(c)
  PROVE  SequentialOK' /\ UNCHANGED Map!vars
<1> DEFINE r == client[c]
<1>1. r \in Request /\ r.pc = "getIndex" /\ r.content \in Contents /\ r.content # None
  BY ContentsAssumption DEF PutGetIndex, At, TypeOK
<1>2. KnowsBucket(r, record, index)
  BY DEF SequentialOK
<1>3. UNCHANGED << record, index >>
  BY DEF PutGetIndex, bucket
<1>4. PICK q \in Request :
        /\ Becomes(c, q) /\ q.script = r.script /\ q.content = r.content
        /\ IF r.script \in index THEN q.pc = "written"
           ELSE q.pc = "saveIndex" /\ q.ids = index
  <2>1. CASE r.script \in index
    <3>1. Goes(c, "written")
      BY <2>1 DEF PutGetIndex
    <3> QED
      BY <2>1, <3>1, MovedOn DEF Writing
  <2>2. CASE r.script \notin index
    <3> DEFINE q == [r EXCEPT !.pc = "saveIndex", !.ids = index]
    <3>1. q \in Request /\ q.script = r.script /\ q.content = r.content
          /\ q.pc = "saveIndex" /\ q.ids = index
      BY <1>1 DEF Request, Writing, TypeOK
    <3> QED
      BY <2>2, <3>1 DEF PutGetIndex
  <2> QED
    BY <2>1, <2>2
<1>5. KnowsBucket(q, record', index')
  BY <1>1, <1>2, <1>3, <1>4 DEF KnowsBucket
<1>6. SequentialOK'
  BY <1>1, <1>3, <1>4, <1>5, AloneStep DEF Writing
<1>7. Waiting' = [Waiting EXCEPT ![c] = CallOf(q, record', index')]
  BY <1>3, <1>4, WaitingStep
<1>8. CallOf(q, record', index') = Waiting[c]
  <2>1. r.pc \in Writing /\ q.pc \in Writing
    BY <1>1, <1>4 DEF Writing
  <2>2. Applied(r, record, index) <=> r.script \in index
    BY <1>1 DEF Applied
  <2>3. Applied(q, record', index') <=> r.script \in index
    BY <1>1, <1>4 DEF Applied
  <2>4. Waiting[c] = CallOf(r, record, index)
    BY DEF Waiting
  <2> QED
    <3>1. CASE r.script \in index
      <4> DEFINE call == [script |-> r.script, content |-> r.content, applied |-> TRUE]
      <4>1. CallOf(r, record, index) = call
        BY <2>1, <2>2, <3>1, CallFacts
      <4>2. CallOf(q, record', index') = call
        BY <1>4, <2>1, <2>3, <3>1, CallFacts
      <4> QED
        BY <2>4, <4>1, <4>2
    <3>2. CASE r.script \notin index
      <4> DEFINE call == [script |-> r.script, content |-> r.content, applied |-> FALSE]
      <4>1. CallOf(r, record, index) = call
        BY <2>1, <2>2, <3>2, CallFacts
      <4>2. CallOf(q, record', index') = call
        BY <1>4, <2>1, <2>3, <3>2, CallFacts
      <4> QED
        BY <2>4, <4>1, <4>2
    <3> QED
      BY <3>1, <3>2
<1>9. Listed' = Listed
  BY <1>3 DEF Listed, Entries
<1> QED
  BY <1>6, <1>7, <1>8, <1>9, StuttersStep

LEMMA SaveIndexStep ==
  ASSUME TypeOK, SequentialOK, ~overlapped, NEW c \in Clients,
         PutSaveIndex(c) \/ DeleteSaveIndex(c)
  PROVE  SequentialOK' /\ (Map!Next \/ UNCHANGED Map!vars)
<1> DEFINE r == client[c]
<1>1. r.pc = "saveIndex" /\ r.pc \in Writing /\ r.script \in Scripts
  BY DEF PutSaveIndex, DeleteSaveIndex, At, TypeOK, IsWhole, Writing
<1>2. PICK s \in Scripts, v \in Values : s = r.script /\ v = r.content
  BY <1>1 DEF TypeOK, Request
<1>3. /\ Live(record[s]) = v /\ r.ids = index
      /\ v # None => s \notin index
  BY <1>1, <1>2 DEF SequentialOK, KnowsBucket
<1>4. PICK q \in Request : /\ Becomes(c, q) /\ q.pc = "written"
                           /\ q.script = s /\ q.content = v
  BY <1>2, MovedOn DEF PutSaveIndex, DeleteSaveIndex, Writing
<1>5. SequentialOK'
  <2>1. KnowsBucket(q, record', index')
    BY <1>4 DEF KnowsBucket
  <2> QED
    BY <1>1, <1>4, <2>1, AloneStep
<1>6. Waiting' = [Waiting EXCEPT ![c] = CallOf(q, record', index')]
  BY <1>1, <1>4, OthersWait, WaitingStep
<1>7. CallOf(q, record', index') = [script |-> s, content |-> v, applied |-> TRUE]
  BY <1>4, CallFacts DEF Applied, Writing
<1>8. Waiting[c] = CallOf(r, record, index)
  BY DEF Waiting
<1>9. CASE PutSaveIndex(c)
  <2>1. v # None
    BY <1>2, <1>9, ContentsAssumption DEF PutSaveIndex
  <2>2. Waiting[c] = [script |-> s, content |-> v, applied |-> FALSE]
    <3>1. ~Applied(r, record, index)
      BY <1>1, <1>2, <2>1 DEF Applied
    <3>2. CallOf(r, record, index)
            = [script |-> r.script, content |-> r.content, applied |-> FALSE]
      BY <1>1, <3>1, CallFacts
    <3> QED
      BY <1>2, <1>8, <3>2
  <2>3. record' = record /\ index' = index \union {s}
    BY <1>2, <1>3, <1>9 DEF PutSaveIndex, Change
  <2>4. Listed' = [Listed EXCEPT ![s] = v]
    BY <1>3, <2>3, ListedWith
  <2> QED
    BY <1>5, <1>6, <1>7, <2>2, <2>4, AppliesStep
<1>10. CASE DeleteSaveIndex(c)
  <2>1. v = None
    BY <1>2, <1>10 DEF DeleteSaveIndex
  <2>2. Waiting[c] = [script |-> s, content |-> v, applied |-> TRUE]
    BY <1>1, <1>2, <1>8, <2>1, CallFacts DEF Applied
  <2>3. record' = record /\ index' = index \ {s}
    BY <1>2, <1>3, <1>10 DEF DeleteSaveIndex, Change
  <2>4. Listed' = [Listed EXCEPT ![s] = None] /\ Listed[s] = None
    BY <1>3, <2>1, <2>3, ListedWithout, ListedNone
  <2>5. Listed' = Listed
    BY <2>4, ListedSame
  <2> QED
    BY <1>5, <1>6, <1>7, <2>2, <2>5, StuttersStep
<1> QED
  BY <1>9, <1>10

(* Each step of a delete.                                                  *)
LEMMA StartDeleteStep ==
  ASSUME TypeOK, SequentialOK, ~overlapped', NEW c \in Clients, NEW s \in Scripts,
         StartDelete(c, s)
  PROVE  SequentialOK' /\ Map!Next
<1>1. /\ ~overlapped /\ \A d \in Clients : client[d].pc \notin Writing
      /\ client[c].pc = "idle"
  BY DEF StartDelete, StartsWriting, IsFree, At, TypeOK
<1>2. PICK q \in Request : /\ Becomes(c, q) /\ q.pc = "lookup" /\ q.script = s
                           /\ q.content = None
  <2> DEFINE p == [Idle EXCEPT !.pc = "lookup", !.script = s]
  <2>1. p \in Request /\ p.pc = "lookup" /\ p.script = s /\ p.content = None
    BY IdleType DEF Idle, Request, Writing, Values
  <2> QED
    BY <2>1 DEF StartDelete
<1>3. UNCHANGED << record, index >>
  BY DEF StartDelete, bucket
<1>4. SequentialOK'
  BY <1>1, <1>2, <1>3, AloneStep DEF KnowsBucket
<1>5. Waiting' = [Waiting EXCEPT ![c] = CallOf(q, record', index')]
  BY <1>2, <1>3, WaitingStep
<1>6. CallOf(q, record', index') = [script |-> s, content |-> None, applied |-> FALSE]
  BY <1>2, CallFacts DEF Applied, Writing
<1>7. Waiting[c] = Map!NoCall
  BY <1>1 DEF Waiting, CallOf, Map!NoCall, Map!Pending, Writing
<1>8. Listed' = Listed
  BY <1>3 DEF Listed, Entries
<1>9. Map!Begin(c, s, None)
  BY <1>5, <1>6, <1>7, <1>8 DEF Map!Begin, Map!Pending
<1> QED
  BY <1>4, <1>9 DEF Map!Next, Map!Values

LEMMA DeleteLookupStep ==
  ASSUME TypeOK, SequentialOK, ~overlapped, NEW c \in Clients, DeleteLookup(c)
  PROVE  SequentialOK' /\ (Map!Next \/ UNCHANGED Map!vars)
<1> DEFINE r == client[c]
           pc == IF record[r.script] = None THEN "written" ELSE "delete"
<1>1. r.pc = "lookup" /\ r.pc \in Writing /\ r.script \in Scripts /\ r.content = None
  BY DEF DeleteLookup, At, TypeOK, IsWhole, Writing
<1>2. PICK s \in Scripts : s = r.script
  BY <1>1
<1>3. PICK q \in Request : /\ Becomes(c, q) /\ q.pc = pc
                           /\ q.script = s /\ q.content = None
  BY <1>1, <1>2, MovedOn DEF DeleteLookup, Writing
<1>4. UNCHANGED << record, index >>
  BY DEF DeleteLookup, bucket
<1>5. SequentialOK'
  <2>1. KnowsBucket(q, record', index')
    BY <1>3 DEF KnowsBucket
  <2> QED
    BY <1>1, <1>3, <2>1, AloneStep
<1>6. Waiting' = [Waiting EXCEPT ![c] = CallOf(q, record', index')]
  BY <1>3, <1>4, WaitingStep
<1>7. Waiting[c] = [script |-> s, content |-> None, applied |-> FALSE]
  BY <1>1, <1>2, CallFacts DEF Waiting, Applied
<1>8. Listed' = Listed
  BY <1>4 DEF Listed, Entries
<1>9. CASE record[s] = None
  <2>1. CallOf(q, record', index') = [script |-> s, content |-> None, applied |-> TRUE]
    BY <1>2, <1>3, <1>9, CallFacts DEF Applied, Writing
  <2>2. Listed[s] = None
    BY <1>9, ListedNone, LiveFacts
  <2>3. Listed' = [Listed EXCEPT ![s] = None]
    BY <1>8, <2>2, ListedSame
  <2> QED
    BY <1>5, <1>6, <1>7, <2>1, <2>3, AppliesStep
<1>10. CASE record[s] # None
  <2>1. CallOf(q, record', index') = Waiting[c]
    BY <1>2, <1>3, <1>7, <1>10, CallFacts DEF Applied, Writing
  <2> QED
    BY <1>5, <1>6, <1>8, <2>1, StuttersStep
<1> QED
  BY <1>9, <1>10

(* The object goes, becomes a stub, or stays as the deletion is refused.   *)
LEMMA DeleteObjectStep ==
  ASSUME TypeOK, SequentialOK, ~overlapped, NEW c \in Clients,
         DeleteRecord(c) \/ DeleteRefused(c) \/ PutStub(c)
  PROVE  SequentialOK' /\ (Map!Next \/ UNCHANGED Map!vars)
<1> DEFINE r == client[c]
<1>1. r.pc \in {"delete", "stub"} /\ r.pc \in Writing
      /\ r.script \in Scripts /\ r.content = None
  BY DEF DeleteRecord, DeleteRefused, PutStub, At, TypeOK, IsWhole, Writing
<1>2. PICK s \in Scripts : s = r.script
  BY <1>1
<1>3. PICK object \in Values \union {Stub}, pc \in {"getIndex", "stub"} :
        /\ Change([record EXCEPT ![s] = object], index) /\ Goes(c, pc)
        /\ \/ Live(object) = None
           \/ pc = "stub" /\ r.pc = "delete" /\ object = record[s]
  <2>1. None \in Values /\ record[s] \in Values \union {Stub}
    BY DEF TypeOK, Values
  <2>2. CASE DeleteRecord(c) \/ PutStub(c)
    BY <1>2, <2>1, <2>2, LiveFacts DEF DeleteRecord, PutStub
  <2>3. CASE DeleteRefused(c)
    BY <1>2, <2>1, <2>3, LiveFacts DEF DeleteRefused, At
  <2> QED
    BY <2>2, <2>3
<1>4. PICK q \in Request : /\ Becomes(c, q) /\ q.pc = pc
                           /\ q.script = s /\ q.content = None
  BY <1>1, <1>2, <1>3, MovedOn DEF Writing
<1>5. record' = [record EXCEPT ![s] = object] /\ index' = index /\ record'[s] = object
  BY <1>3 DEF Change, TypeOK
<1>6. SequentialOK'
  <2>1. KnowsBucket(q, record', index')
    BY <1>3, <1>4, <1>5 DEF KnowsBucket
  <2> QED
    BY <1>1, <1>4, <2>1, AloneStep
<1>7. Waiting' = [Waiting EXCEPT ![c] = CallOf(q, record', index')]
  BY <1>1, <1>4, OthersWait, WaitingStep
<1>8. Waiting[c] = CallOf(r, record, index)
  BY DEF Waiting
<1>9. CASE Live(object) = None
  <2>1. CallOf(q, record', index') = [script |-> s, content |-> None, applied |-> TRUE]
    <3>1. q.pc \in Writing /\ Applied(q, record', index')
      BY <1>4, <1>5, <1>9 DEF Applied, Writing
    <3> QED
      BY <1>4, <3>1, CallFacts
  <2>2. Listed' = [Listed EXCEPT ![s] = None]
    BY <1>5, <1>9, ListedFacts
  <2>3. CASE Applied(r, record, index)
    <3>1. Waiting[c] = [script |-> s, content |-> None, applied |-> TRUE]
      BY <1>1, <1>2, <1>8, <2>3, CallFacts
    <3>2. Live(record[s]) = None
      BY <1>1, <1>2, <2>3 DEF Applied
    <3>3. Listed' = Listed
      BY <2>2, <3>2, ListedNone, ListedSame
    <3> QED
      BY <1>6, <1>7, <2>1, <3>1, <3>3, StuttersStep
  <2>4. CASE ~Applied(r, record, index)
    <3>1. Waiting[c] = [script |-> s, content |-> None, applied |-> FALSE]
      BY <1>1, <1>2, <1>8, <2>4, CallFacts
    <3> QED
      BY <1>6, <1>7, <2>1, <2>2, <3>1, AppliesStep
  <2> QED
    BY <2>3, <2>4
<1>10. CASE Live(object) # None
  <2>1. object = record[s] /\ pc = "stub" /\ r.pc = "delete"
    BY <1>3, <1>10
  <2>2. Waiting[c] = [script |-> s, content |-> None, applied |-> FALSE]
    <3>1. ~Applied(r, record, index)
      BY <2>1 DEF Applied
    <3> QED
      BY <1>1, <1>2, <1>8, <3>1, CallFacts
  <2>3. CallOf(q, record', index') = [script |-> s, content |-> None, applied |-> FALSE]
    <3>1. q.pc \in Writing /\ ~Applied(q, record', index')
      BY <1>4, <1>5, <1>10, <2>1 DEF Applied, Writing
    <3> QED
      BY <1>4, <3>1, CallFacts
  <2>4. record' = record
    BY <1>5, <2>1 DEF TypeOK
  <2>5. Listed' = Listed
    BY <1>5, <2>4 DEF Listed, Entries
  <2> QED
    BY <1>6, <1>7, <2>2, <2>3, <2>5, StuttersStep
<1> QED
  BY <1>9, <1>10
LEMMA DeleteGetIndexStep ==
  ASSUME TypeOK, SequentialOK, ~overlapped, NEW c \in Clients, DeleteGetIndex(c)
  PROVE  SequentialOK' /\ UNCHANGED Map!vars
<1> DEFINE r == client[c]
           q == [r EXCEPT !.pc = "saveIndex", !.ids = index]
<1>1. r \in Request /\ r.pc = "getIndex" /\ r.pc \in Writing /\ r.content = None
  BY DEF DeleteGetIndex, At, TypeOK, Writing
<1>2. PICK p \in Request : /\ Becomes(c, p) /\ p.script = r.script /\ p.content = None
                           /\ p.pc = "saveIndex" /\ p.ids = index
  <2>1. q \in Request /\ q.script = r.script /\ q.content = None
        /\ q.pc = "saveIndex" /\ q.ids = index
    BY <1>1 DEF Request, Writing, TypeOK
  <2> QED
    BY <2>1 DEF DeleteGetIndex
<1>3. UNCHANGED << record, index >>
  BY DEF DeleteGetIndex, bucket
<1>4. SequentialOK'
  <2>1. Live(record[r.script]) = None
    BY <1>1 DEF SequentialOK, KnowsBucket
  <2>2. KnowsBucket(p, record', index')
    BY <1>2, <1>3, <2>1 DEF KnowsBucket
  <2> QED
    BY <1>1, <1>2, <2>2, AloneStep
<1>5. Waiting' = [Waiting EXCEPT ![c] = CallOf(p, record', index')]
  BY <1>2, <1>3, WaitingStep
<1>6. Waiting[c] = [script |-> r.script, content |-> None, applied |-> TRUE]
  <2>1. Applied(r, record, index)
    BY <1>1 DEF Applied
  <2> QED
    BY <1>1, <2>1, CallFacts DEF Waiting
<1>7. CallOf(p, record', index')
        = [script |-> r.script, content |-> None, applied |-> TRUE]
  <2>1. p.pc \in Writing /\ Applied(p, record', index')
    BY <1>2 DEF Applied, Writing
  <2> QED
    BY <1>2, <2>1, CallFacts
<1>8. Listed' = Listed
  BY <1>3 DEF Listed, Entries
<1> QED
  BY <1>4, <1>5, <1>6, <1>7, <1>8, StuttersStep

(* The answers and the failures.                                           *)
LEMMA EndStep ==
  ASSUME TypeOK, SequentialOK, ~overlapped, NEW c \in Clients, Return(c) \/ Fail(c)
  PROVE  SequentialOK' /\ (Map!Next \/ UNCHANGED Map!vars)
<1>1. PICK q \in Request : Becomes(c, q) /\ q.pc = "idle"
  BY IdleType DEF Return, Fail, Idle
<1>2. UNCHANGED << record, index >>
  BY DEF Return, Fail, bucket
<1>3. SequentialOK'
  <2>1. KnowsBucket(q, record', index')
    BY <1>1 DEF KnowsBucket
  <2>2. q.pc \notin Writing
    BY <1>1 DEF Writing
  <2> QED
    BY <1>1, <1>2, <2>1, <2>2, AloneStep
<1>4. Waiting' = [Waiting EXCEPT ![c] = Map!NoCall]
  <2>1. CallOf(q, record', index') = Map!NoCall
    BY <1>1 DEF CallOf, Writing, Map!NoCall, Map!Pending
  <2> QED
    BY <1>1, <1>2, <2>1, WaitingStep
<1>5. Listed' = Listed
  BY <1>2 DEF Listed, Entries
<1>6. CASE Waiting[c] = Map!NoCall
  BY <1>3, <1>4, <1>5, <1>6, StuttersStep
<1>7. CASE Waiting[c] # Map!NoCall /\ Fail(c)
  <2>1. Map!Fail(c)
    BY <1>4, <1>5, <1>7 DEF Map!Fail
  <2> QED
    BY <1>3, <2>1 DEF Map!Next
<1>8. CASE Waiting[c] # Map!NoCall /\ Return(c)
  <2>1. client[c].pc \in Writing
    BY <1>8 DEF Waiting, CallOf, Map!NoCall, Map!Pending
  <2>2. client[c].pc = "written"
    BY <1>8, <2>1 DEF Return, Writing
  <2>3. Applied(client[c], record, index)
    BY <2>2 DEF Applied
  <2>4. Waiting[c].applied
    BY <2>1, <2>3, CallFacts DEF Waiting
  <2>5. Map!End(c)
    BY <1>4, <1>5, <2>4 DEF Map!End
  <2> QED
    BY <1>3, <2>5 DEF Map!Next
<1> QED
  BY <1>6, <1>7, <1>8

(* A listing, and a request on the jobs, changes nothing a client sees of  *)
(* the map.                                                                *)
LEMMA ReadStep ==
  ASSUME TypeOK, SequentialOK, ~overlapped, NEW c \in Clients,
         \/ \E s \in Scripts : ListRecord(c, s)
         \/ \E jobs \in SUBSET Scripts : PutJobs(c, jobs)
         \/ StartList(c) \/ LoadJobs(c) \/ ListIndex(c) \/ EndList(c)
  PROVE  SequentialOK' /\ UNCHANGED Map!vars
<1> DEFINE r == client[c]
<1>0. r \in Request
  BY DEF TypeOK
<1>1. UNCHANGED << record, index, overlapped >> /\ r.pc \notin Writing
  BY DEF ListRecord, PutJobs, StartList, LoadJobs, ListIndex, EndList, IsFree, At,
         bucket, history, Writing
<1>2. Listed' = Listed
  BY <1>1 DEF Listed, Entries
<1>3. CASE UNCHANGED client
  <2>1. Waiting' = Waiting
    BY <1>1, <1>3 DEF Waiting
  <2>2. SequentialOK'
    BY <1>1, <1>3 DEF SequentialOK, Alone
  <2> QED
    BY <1>2, <2>1, <2>2 DEF Map!vars
<1>4. CASE \E q \in Request : Becomes(c, q) /\ q.pc \notin Writing
  <2>1. PICK q \in Request : Becomes(c, q) /\ q.pc \notin Writing
    BY <1>4
  <2>2. SequentialOK'
    <3>1. KnowsBucket(q, record', index')
      BY <2>1 DEF KnowsBucket, Writing
    <3> QED
      BY <1>1, <2>1, <3>1, AloneStep
  <2>3. Waiting' = [Waiting EXCEPT ![c] = Map!NoCall]
    <3>1. CallOf(q, record', index') = Map!NoCall
      BY <2>1 DEF CallOf, Map!NoCall, Map!Pending
    <3> QED
      BY <1>1, <2>1, <3>1, WaitingStep
  <2>4. Waiting[c] = Map!NoCall
    BY <1>1 DEF Waiting, CallOf, Map!NoCall, Map!Pending
  <2> QED
    BY <1>2, <2>2, <2>3, <2>4, StuttersStep
<1>5. \/ UNCHANGED client
      \/ \E q \in Request : Becomes(c, q) /\ q.pc \notin Writing
  <2>1. CASE \E s \in Scripts : ListRecord(c, s)
    <3>1. PICK s \in Scripts : ListRecord(c, s)
      BY <2>1
    <3>2. client' \in [Clients -> Request] /\ client'[c] = Lists(c, s, record[s])
      BY <3>1, OtherType DEF ListRecord, Becomes, TypeOK
    <3>3. client'[c] \in Request /\ client'[c].pc = "listRecord"
      BY <1>0, <3>1, <3>2 DEF ListRecord, Lists, At, Request
    <3>4. Becomes(c, client'[c])
      BY <3>1, <3>2 DEF ListRecord, Becomes
    <3>5. PICK q \in Request : q = client'[c]
      BY <3>3
    <3> QED
      BY <3>3, <3>4, <3>5 DEF Writing
  <2>2. CASE \E jobs \in SUBSET Scripts : PutJobs(c, jobs)
    BY <2>2 DEF PutJobs
  <2>3. CASE StartList(c) \/ LoadJobs(c)
    <3> DEFINE p == [Idle EXCEPT !.pc = "listIndex"]
               q == [Idle EXCEPT !.pc = "listIndex", !.derive = TRUE]
    <3>1. /\ p \in Request /\ p.pc \notin Writing
          /\ q \in Request /\ q.pc \notin Writing
      BY IdleType DEF Idle, Request, Writing, Reading
    <3> QED
      BY <2>3, <3>1 DEF StartList, LoadJobs
  <2>4. CASE ListIndex(c)
    <3> DEFINE q == [r EXCEPT !.pc = "listRecord", !.ids = index]
    <3>1. q \in Request /\ q.pc \notin Writing
      BY <1>0 DEF Request, Reading, Writing, TypeOK
    <3> QED
      BY <2>4, <3>1 DEF ListIndex
  <2>5. CASE EndList(c)
    <3>1. Goes(c, "listed") /\ "listed" \in Reading /\ "listed" \notin Writing
      BY <2>5 DEF EndList, Writing, Reading
    <3> QED
      BY <3>1, MovedOn
  <2> QED
    BY <2>1, <2>2, <2>3, <2>4, <2>5
<1> QED
  BY <1>3, <1>4, <1>5

(* An overlap is never forgotten, and every step of sequential requests is *)
(* one of the map's, or none.                                              *)
LEMMA NextSequential ==
  TypeOK /\ SequentialOK /\ [Next]_vars =>
    SequentialOK' /\ [overlapped' \/ Map!Next]_(Map!vars)
<1> SUFFICES ASSUME TypeOK, SequentialOK, [Next]_vars
             PROVE  SequentialOK' /\ [overlapped' \/ Map!Next]_(Map!vars)
  OBVIOUS
<1>1. CASE UNCHANGED vars
  <2>1. UNCHANGED << record, index, client, overlapped >>
    BY <1>1 DEF vars, bucket, history
  <2>2. SequentialOK'
    BY <2>1 DEF SequentialOK, Alone
  <2>3. UNCHANGED Map!vars
    BY <2>1 DEF Map!vars, Listed, Entries, Waiting
  <2> QED
    BY <2>2, <2>3
<1>2. CASE Next /\ overlapped'
  BY <1>2 DEF SequentialOK
<1>3. CASE Next /\ ~overlapped'
  <2>1. PICK c \in Clients :
          \/ \E s \in Scripts : StartDelete(c, s) \/ ListRecord(c, s)
          \/ \E s \in Scripts, v \in Contents : StartPut(c, s, v)
          \/ \E jobs \in SUBSET Scripts : PutJobs(c, jobs)
          \/ Write(c)
          \/ StartList(c) \/ LoadJobs(c) \/ ListIndex(c) \/ EndList(c)
          \/ Return(c) \/ Fail(c)
    BY <1>3 DEF Next
  <2>2. CASE \E s \in Scripts : StartDelete(c, s)
    BY <1>3, <2>2, StartDeleteStep
  <2>3. CASE \E s \in Scripts, v \in Contents : StartPut(c, s, v)
    BY <1>3, <2>3, StartPutStep
  <2>4. CASE Write(c)
    <3>1. ~overlapped
      BY <1>3, <2>4 DEF Write, PutRecord, PutGetIndex, PutSaveIndex, DeleteLookup,
            DeleteRecord, DeleteRefused, PutStub, DeleteGetIndex, DeleteSaveIndex,
            history
    <3> QED
      BY <2>4, <3>1, PutRecordStep, PutGetIndexStep, SaveIndexStep, DeleteLookupStep,
         DeleteObjectStep, DeleteGetIndexStep DEF Write
  <2>5. CASE Return(c) \/ Fail(c)
    <3>1. ~overlapped
      BY <1>3, <2>5 DEF Return, Fail
    <3> QED
      BY <2>5, <3>1, EndStep
  <2>6. CASE \/ \E s \in Scripts : ListRecord(c, s)
             \/ \E jobs \in SUBSET Scripts : PutJobs(c, jobs)
             \/ StartList(c) \/ LoadJobs(c) \/ ListIndex(c) \/ EndList(c)
    <3>1. ~overlapped
      BY <1>3, <2>6 DEF ListRecord, PutJobs, StartList, LoadJobs, ListIndex, EndList,
                        history
    <3> QED
      BY <2>6, <3>1, ReadStep
  <2> QED
    BY <2>1, <2>2, <2>3, <2>4, <2>5, <2>6
<1> QED
  BY <1>1, <1>2, <1>3

LEMMA InitSequential == Init => SequentialOK /\ Map!Init
<1> SUFFICES ASSUME Init PROVE SequentialOK /\ Map!Init
  OBVIOUS
<1>1. \A c \in Clients : client[c].pc = "idle"
  BY DEF Init, Idle
<1>2. SequentialOK
  BY <1>1 DEF SequentialOK, Alone, KnowsBucket, Writing
<1>3. Waiting = [c \in Clients |-> Map!NoCall]
  BY <1>1 DEF Waiting, CallOf, Writing, Map!NoCall, Map!Pending
<1>4. Listed = [s \in Scripts |-> None]
  BY DEF Init, Listed, Entries
<1> QED
  BY <1>2, <1>3, <1>4 DEF Map!Init

(* Puts and deletes that do not overlap are atomic to everyone who lists   *)
(* the registry, wherever a failure cuts them off.                         *)
THEOREM RegistryImplementsMap == Spec => ImplementsMap
BY InitSequential, NextSequential, RegistryTypeCorrect, PTL DEF Spec, ImplementsMap

----------------------------------------------------------------------------
(* Deletions.                                                              *)

(* No put of a deleted script is about to write it.                        *)
DeletedOK ==
  \A s \in deleted : /\ Live(record[s]) = None
                     /\ \A c \in Clients : client[c].pc = "record" => client[c].script # s

LEMMA NextDeleted == TypeOK /\ DeletedOK /\ [Next]_vars => DeletedOK'
<1> SUFFICES ASSUME TypeOK, DeletedOK, [Next]_vars PROVE DeletedOK'
  OBVIOUS
<1> USE DEF DeletedOK
<1>1. ASSUME NEW c \in Clients, NEW s \in Scripts, NEW v \in Contents, StartPut(c, s, v)
      PROVE  DeletedOK'
  <2>1. /\ record' = record /\ deleted' = deleted \ {s}
        /\ client'[c].script = s
        /\ \A d \in Clients \ {c} : client'[d] = client[d]
    BY <1>1, IdleType DEF StartPut, bucket, Becomes, TypeOK, Request
  <2> QED
    BY <2>1
<1>2. ASSUME NEW c \in Clients, PutRecord(c) PROVE DeletedOK'
  <2>1. /\ client[c].pc = "record" /\ client[c].script \notin deleted
        /\ deleted' = deleted
        /\ record' = [record EXCEPT ![client[c].script] = client[c].content]
    BY <1>2 DEF PutRecord, At, Change
  <2>2. client'[c].pc = "getIndex" /\ \A d \in Clients \ {c} : client'[d] = client[d]
    BY <1>2 DEF PutRecord, Goes, Becomes, TypeOK, Request
  <2>3. \A s \in deleted : record'[s] = record[s]
    BY <2>1 DEF TypeOK
  <2> QED
    BY <2>1, <2>2, <2>3
<1>3. ASSUME NEW c \in Clients, DeleteRecord(c) \/ DeleteRefused(c) \/ PutStub(c)
      PROVE  DeletedOK'
  <2> DEFINE s == client[c].script
  <2>1. /\ client'[c].pc # "record" /\ \A d \in Clients \ {c} : client'[d] = client[d]
        /\ s \in Scripts
    BY <1>3 DEF DeleteRecord, DeleteRefused, PutStub, Goes, Becomes, TypeOK, Request,
                IsWhole, Writing, At
  <2>2. /\ \A t \in Scripts \ {s} : record'[t] = record[t]
        /\ Live(record'[s]) = None \/ record'[s] = record[s]
        /\ DeleteRecord(c) \/ PutStub(c) => Live(record'[s]) = None
    BY <1>3, <2>1, LiveFacts DEF DeleteRecord, DeleteRefused, PutStub, Change, TypeOK
  <2>3. CASE deleted' = deleted
    BY <2>1, <2>2, <2>3 DEF TypeOK
  <2>4. CASE deleted' # deleted
    <3>1. DeleteRecord(c) \/ PutStub(c)
      BY <1>3, <2>4 DEF DeleteRefused
    <3>2. /\ deleted' = deleted \union {s}
          /\ \A d \in Clients : client[d].pc = "record" => client[d].script # s
      BY <2>4, <3>1 DEF DeleteRecord, PutStub, IsDeleted, At
    <3> QED
      BY <2>1, <2>2, <3>1, <3>2 DEF TypeOK
  <2> QED
    BY <2>3, <2>4
<1>4. ASSUME NEW c \in Clients,
             UNCHANGED deleted,
             client' = client \/ \E q \in Request : Becomes(c, q) /\ q.pc # "record",
             record' = record
      PROVE  DeletedOK'
  <2>1. \A d \in Clients : client'[d].pc = "record" => client'[d] = client[d]
    BY <1>4 DEF Becomes, TypeOK
  <2> QED
    BY <1>4, <2>1
<1>5. ASSUME NEW c \in Clients,
             \/ PutGetIndex(c) \/ PutSaveIndex(c) \/ DeleteLookup(c)
             \/ DeleteGetIndex(c) \/ DeleteSaveIndex(c) \/ EndList(c) \/ ListIndex(c)
      PROVE  DeletedOK'
  <2> DEFINE r == client[c]
  <2>1. UNCHANGED << record, deleted >>
    BY <1>5 DEF PutGetIndex, PutSaveIndex, DeleteLookup, DeleteGetIndex,
                DeleteSaveIndex, EndList, ListIndex, Change, bucket, history
  <2>2. \/ \E pc \in {"written", "delete", "listed"} : Goes(c, pc)
        \/ Becomes(c, [r EXCEPT !.pc = "saveIndex", !.ids = index])
        \/ Becomes(c, [r EXCEPT !.pc = "listRecord", !.ids = index])
    BY <1>5 DEF PutGetIndex, PutSaveIndex, DeleteLookup, DeleteGetIndex,
                DeleteSaveIndex, EndList, ListIndex
  <2>3. \E q \in Request : Becomes(c, q) /\ q.pc # "record"
    <3>1. \A pc \in {"written", "delete", "listed"} :
            /\ [r EXCEPT !.pc = pc] \in Request /\ [r EXCEPT !.pc = pc].pc # "record"
      BY DEF TypeOK, Request, Writing, Reading
    <3>2. \A pc \in {"saveIndex", "listRecord"} :
            /\ [r EXCEPT !.pc = pc, !.ids = index] \in Request
            /\ [r EXCEPT !.pc = pc, !.ids = index].pc # "record"
      <4>1. r \in Request /\ index \in SUBSET Scripts
        BY DEF TypeOK
      <4>2. {"saveIndex", "listRecord"} \subseteq {"idle"} \union Writing \union Reading
        BY DEF Writing, Reading
      <4>3. ASSUME NEW pc \in {"saveIndex", "listRecord"}
            PROVE  /\ [r EXCEPT !.pc = pc, !.ids = index] \in Request
                   /\ [r EXCEPT !.pc = pc, !.ids = index].pc # "record"
        <5> HIDE DEF r
        <5> QED
          BY <4>1, <4>2 DEF Request
      <4> QED
        BY <4>3
    <3> QED
      BY <2>2, <3>1, <3>2 DEF Goes
  <2> QED
    BY <1>4, <2>1, <2>3
<1>6. ASSUME NEW c \in Clients,
             \/ \E s \in Scripts : StartDelete(c, s) \/ ListRecord(c, s)
             \/ \E jobs \in SUBSET Scripts : PutJobs(c, jobs)
             \/ StartList(c) \/ LoadJobs(c) \/ Return(c) \/ Fail(c)
      PROVE  DeletedOK'
  <2>1. UNCHANGED << record, deleted >>
    BY <1>6 DEF StartDelete, ListRecord, PutJobs, StartList, LoadJobs, Return, Fail,
                bucket, history
  <2>2. \A d \in Clients \ {c} : client'[d] = client[d]
    BY <1>6 DEF StartDelete, ListRecord, PutJobs, StartList, LoadJobs, Return, Fail,
                Becomes, TypeOK
  <2>3. client'[c] = client[c] \/ client'[c].pc # "record"
    <3>1. CASE \E s \in Scripts : ListRecord(c, s)
      BY <3>1 DEF ListRecord, Lists, Becomes, TypeOK, Request, At
    <3>2. CASE \E s \in Scripts : StartDelete(c, s)
      BY <3>2, IdleType DEF StartDelete, Becomes, TypeOK, Request
    <3>3. CASE \/ \E jobs \in SUBSET Scripts : PutJobs(c, jobs)
               \/ StartList(c) \/ LoadJobs(c) \/ Return(c) \/ Fail(c)
      <4>1. /\ [Idle EXCEPT !.pc = "listIndex"].pc # "record" /\ Idle.pc # "record"
            /\ [Idle EXCEPT !.pc = "listIndex", !.derive = TRUE].pc # "record"
        BY DEF Idle
      <4>2. \A r : Becomes(c, r) => client'[c] = r
        BY DEF Becomes, TypeOK
      <4>3. CASE \E jobs \in SUBSET Scripts : PutJobs(c, jobs)
        BY <4>3 DEF PutJobs
      <4>4. CASE StartList(c)
        BY <4>1, <4>2, <4>4 DEF StartList
      <4>5. CASE LoadJobs(c)
        BY <4>1, <4>2, <4>5 DEF LoadJobs
      <4>6. CASE Return(c) \/ Fail(c)
        BY <4>1, <4>2, <4>6 DEF Return, Fail
      <4> QED
        BY <3>3, <4>3, <4>4, <4>5, <4>6
    <3> QED
      BY <1>6, <3>1, <3>2, <3>3
  <2> QED
    BY <2>1, <2>2, <2>3
<1>7. CASE UNCHANGED vars
  BY <1>7 DEF vars, bucket, history
<1> QED
  BY <1>1, <1>2, <1>3, <1>5, <1>6, <1>7 DEF Next, Write

(* A deleted script stays deleted until it is put again, whatever the      *)
(* requests on other scripts write back.                                   *)
THEOREM DeletionsLast == Spec => []DeletedStaysDeleted
<1>1. Init => DeletedOK
  BY DEF Init, DeletedOK
<1>2. DeletedOK => DeletedStaysDeleted
  BY DEF DeletedOK, DeletedStaysDeleted
<1> QED
  BY <1>1, <1>2, NextDeleted, RegistryTypeCorrect, PTL DEF Spec

----------------------------------------------------------------------------
(* Listings.                                                               *)

(* What a listing has of the scripts that have not changed since it began. *)
ListingOK(r, known, listed) ==
  r.pc \in {"listRecord", "listed"} =>
    \A s \in known : listed[s] # None =>
      \/ r.pc = "listRecord" /\ s \in r.ids
      \/ r.answer[s] = IF r.derive /\ listed[s] \notin Enabled THEN None ELSE listed[s]

ListingsOK == \A c \in Clients : ListingOK(client[c], steady[c], Listed)

(* Entries that change are no longer known.                                *)
LEMMA ChangeSteady ==
  ASSUME TypeOK, NEW rec, NEW ids, Change(rec, ids), NEW c \in Clients
  PROVE  steady'[c] \subseteq steady[c] /\ \A s \in steady'[c] : Listed'[s] = Listed[s]
BY DEF Change, Listed, TypeOK

(* A request that does not list, or that keeps what it knows.              *)
LEMMA ListingsStep ==
  ASSUME TypeOK, ListingsOK, NEW c \in Clients,
         \A d \in Clients \ {c} : client'[d] = client[d],
         client'[c].pc \in {"listRecord", "listed"} => client'[c] = client[c],
         \A d \in Clients : client'[d].pc \in {"listRecord", "listed"} =>
           steady'[d] \subseteq steady[d] /\ \A s \in steady'[d] : Listed'[s] = Listed[s]
  PROVE  ListingsOK'
<1> SUFFICES ASSUME NEW d \in Clients
             PROVE  ListingOK(client'[d], steady'[d], Listed')
  BY DEF ListingsOK
<1>1. CASE client'[d].pc \in {"listRecord", "listed"}
  <2>1. client'[d] = client[d] /\ ListingOK(client[d], steady[d], Listed)
    BY <1>1 DEF ListingsOK
  <2> QED
    BY <1>1, <2>1 DEF ListingOK
<1>2. CASE client'[d].pc \notin {"listRecord", "listed"}
  BY <1>2 DEF ListingOK
<1> QED
  BY <1>1, <1>2

LEMMA WriteListings ==
  ASSUME TypeOK, ListingsOK, NEW c \in Clients, Write(c)
  PROVE  ListingsOK'
<1> DEFINE r == client[c]
<1>1. \A d \in Clients : steady'[d] \subseteq steady[d]
                         /\ \A s \in steady'[d] : Listed'[s] = Listed[s]
  <2>1. CASE PutGetIndex(c) \/ DeleteLookup(c) \/ DeleteGetIndex(c)
    BY <2>1 DEF PutGetIndex, DeleteLookup, DeleteGetIndex, bucket, history, Listed,
                Entries
  <2>2. CASE \/ PutRecord(c) \/ PutSaveIndex(c) \/ DeleteRecord(c) \/ DeleteRefused(c)
             \/ PutStub(c) \/ DeleteSaveIndex(c)
    <3>1. \E rec, ids : Change(rec, ids)
      BY <2>2 DEF PutRecord, PutSaveIndex, DeleteRecord, DeleteRefused, PutStub,
                  DeleteSaveIndex
    <3> QED
      BY <3>1, ChangeSteady
  <2> QED
    BY <2>1, <2>2 DEF Write
<1>2. \E pc \in {"getIndex", "written", "delete", "stub", "saveIndex"} :
        \/ Goes(c, pc)
        \/ Becomes(c, [r EXCEPT !.pc = pc, !.ids = index])
  BY DEF Write, PutRecord, PutGetIndex, PutSaveIndex, DeleteLookup, DeleteRecord,
         DeleteRefused, PutStub, DeleteGetIndex, DeleteSaveIndex
<1>3. /\ client'[c].pc \notin {"listRecord", "listed"}
      /\ \A d \in Clients \ {c} : client'[d] = client[d]
  <2>1. PICK pc \in {"getIndex", "written", "delete", "stub", "saveIndex"} :
          \/ Goes(c, pc)
          \/ Becomes(c, [r EXCEPT !.pc = pc, !.ids = index])
    BY <1>2
  <2>2. r \in Request
    BY DEF TypeOK
  <2>3. /\ [r EXCEPT !.pc = pc].pc = pc
        /\ [r EXCEPT !.pc = pc, !.ids = index].pc = pc
    BY <2>2 DEF Request
  <2>4. client'[c].pc = pc /\ \A d \in Clients \ {c} : client'[d] = client[d]
    BY <2>1, <2>3 DEF Goes, Becomes, TypeOK
  <2> QED
    BY <2>4
<1> QED
  BY <1>1, <1>3, ListingsStep

LEMMA OtherListings ==
  ASSUME TypeOK, ListingsOK, NEW c \in Clients,
         \/ \E s \in Scripts : StartDelete(c, s)
         \/ \E s \in Scripts, v \in Contents : StartPut(c, s, v)
         \/ \E jobs \in SUBSET Scripts : PutJobs(c, jobs)
         \/ StartList(c) \/ LoadJobs(c) \/ Return(c) \/ Fail(c)
  PROVE  ListingsOK'
<1>1. Listed' = Listed
  <2>1. UNCHANGED << record, index >>
    BY DEF StartDelete, StartPut, PutJobs, StartList, LoadJobs, Return, Fail, bucket
  <2> QED
    BY <2>1 DEF Listed, Entries
<1>2. \A d \in Clients : steady'[d] \subseteq steady[d]
  BY DEF StartDelete, StartPut, PutJobs, StartList, LoadJobs, Return, Fail, history,
         TypeOK
<1>3. /\ \A r : Becomes(c, r) => client'[c] = r
      /\ \A d \in Clients \ {c} : client'[d] = client[d]
  BY DEF StartDelete, StartPut, PutJobs, StartList, LoadJobs, Return, Fail, Becomes,
         TypeOK
<1>4. client'[c] = client[c] \/ client'[c].pc \notin {"listRecord", "listed"}
  <2>1. CASE \E s \in Scripts : StartDelete(c, s)
    <3>1. PICK s \in Scripts : StartDelete(c, s)
      BY <2>1
    <3>2. [Idle EXCEPT !.pc = "lookup", !.script = s].pc = "lookup"
      BY DEF Idle
    <3> QED
      BY <1>3, <3>1, <3>2 DEF StartDelete
  <2>2. CASE \E s \in Scripts, v \in Contents : StartPut(c, s, v)
    <3>1. PICK s \in Scripts, v \in Contents : StartPut(c, s, v)
      BY <2>2
    <3>2. [Idle EXCEPT !.pc = "record", !.script = s, !.content = v].pc = "record"
      BY DEF Idle
    <3> QED
      BY <1>3, <3>1, <3>2 DEF StartPut
  <2>3. CASE \E jobs \in SUBSET Scripts : PutJobs(c, jobs)
    BY <2>3 DEF PutJobs
  <2>4. CASE StartList(c) \/ LoadJobs(c)
    <3>1. /\ [Idle EXCEPT !.pc = "listIndex"].pc = "listIndex"
          /\ [Idle EXCEPT !.pc = "listIndex", !.derive = TRUE].pc = "listIndex"
      BY DEF Idle
    <3> QED
      BY <1>3, <2>4, <3>1 DEF StartList, LoadJobs
  <2>5. CASE Return(c) \/ Fail(c)
    BY <1>3, <2>5 DEF Return, Fail, Idle
  <2> QED
    BY <2>1, <2>2, <2>3, <2>4, <2>5
<1> QED
  BY <1>1, <1>2, <1>3, <1>4, ListingsStep

LEMMA ReadListings ==
  ASSUME TypeOK, ListingsOK, NEW c \in Clients,
         ListIndex(c) \/ EndList(c) \/ \E s \in Scripts : ListRecord(c, s)
  PROVE  ListingsOK'
<1> DEFINE r == client[c]
<1>0. r \in Request /\ ListingOK(r, steady[c], Listed)
  BY DEF TypeOK, ListingsOK
<1>1. Listed' = Listed
  <2>1. UNCHANGED << record, index >>
    BY DEF ListIndex, EndList, ListRecord, bucket
  <2> QED
    BY <2>1 DEF Listed, Entries
<1>2. \A d \in Clients \ {c} : client'[d] = client[d] /\ steady'[d] = steady[d]
  BY DEF ListIndex, EndList, ListRecord, Lists, Goes, Becomes, history, TypeOK
<1>3. ListingOK(client'[c], steady'[c], Listed)
  <2>1. CASE ListIndex(c)
    <3>1. client'[c].pc = "listRecord" /\ client'[c].ids = index
      BY <1>0, <2>1 DEF ListIndex, Becomes, TypeOK, Request
    <3>2. \A s \in Scripts : Listed[s] # None => s \in index
      BY ListedNone
    <3>3. steady'[c] \subseteq Scripts
      BY <2>1, OtherType DEF TypeOK
    <3> QED
      BY <3>1, <3>2, <3>3 DEF ListingOK
  <2>2. CASE EndList(c)
    <3>1. /\ r.pc = "listRecord" /\ r.ids = {} /\ steady' = steady
          /\ client'[c].derive = r.derive /\ client'[c].answer = r.answer
      BY <1>0, <2>2 DEF EndList, At, Goes, Becomes, TypeOK, Request, history
    <3> QED
      BY <1>0, <3>1 DEF ListingOK
  <2>3. CASE \E s \in Scripts : ListRecord(c, s)
    <3>1. PICK s \in Scripts : ListRecord(c, s)
      BY <2>3
    <3> DEFINE w == IF r.derive /\ Live(record[s]) \notin Enabled THEN None
                    ELSE Live(record[s])
    <3>2. /\ r.pc = "listRecord" /\ s \in r.ids /\ steady' = steady
          /\ client'[c] = Lists(c, s, record[s])
      BY <3>1 DEF ListRecord, At, Becomes, TypeOK, history
    <3>3. /\ client'[c].pc = "listRecord" /\ client'[c].derive = r.derive
          /\ client'[c].ids = r.ids \ {s}
          /\ client'[c].answer = [r.answer EXCEPT ![s] = w]
      BY <1>0, <3>2 DEF Lists, Request
    <3>4. Listed[s] # None => Listed[s] = Live(record[s])
      BY DEF Listed, Entries
    <3>5. client'[c].answer[s] = w
          /\ \A x \in Scripts \ {s} : client'[c].answer[x] = r.answer[x]
      BY <1>0, <3>3 DEF Request
    <3>6. \A x \in steady[c] : Listed[x] # None =>
            \/ x \in client'[c].ids
            \/ client'[c].answer[x]
                 = IF r.derive /\ Listed[x] \notin Enabled THEN None ELSE Listed[x]
      <4>1. steady[c] \subseteq Scripts
        BY DEF TypeOK
      <4>2. \A x \in steady[c] : Listed[x] # None =>
              \/ x \in r.ids
              \/ r.answer[x]
                   = IF r.derive /\ Listed[x] \notin Enabled THEN None ELSE Listed[x]
        BY <1>0, <3>2 DEF ListingOK
      <4> QED
        BY <3>3, <3>4, <3>5, <4>1, <4>2
    <3> QED
      BY <3>2, <3>3, <3>6 DEF ListingOK
  <2> QED
    BY <2>1, <2>2, <2>3
<1>4. \A d \in Clients : ListingOK(client'[d], steady'[d], Listed')
  BY <1>1, <1>2, <1>3 DEF ListingsOK
<1> QED
  BY <1>4 DEF ListingsOK

LEMMA NextListings == TypeOK /\ ListingsOK /\ [Next]_vars => ListingsOK'
<1> SUFFICES ASSUME TypeOK, ListingsOK, [Next]_vars PROVE ListingsOK'
  OBVIOUS
<1>1. CASE Next
  <2>1. PICK c \in Clients :
          \/ \E s \in Scripts : StartDelete(c, s) \/ ListRecord(c, s)
          \/ \E s \in Scripts, v \in Contents : StartPut(c, s, v)
          \/ \E jobs \in SUBSET Scripts : PutJobs(c, jobs)
          \/ Write(c)
          \/ StartList(c) \/ LoadJobs(c) \/ ListIndex(c) \/ EndList(c)
          \/ Return(c) \/ Fail(c)
    BY <1>1 DEF Next
  <2> QED
    BY <2>1, WriteListings, OtherListings, ReadListings
<1>2. CASE UNCHANGED vars
  BY <1>2 DEF vars, bucket, history, ListingsOK, Listed, Entries
<1> QED
  BY <1>1, <1>2

(* A list, and the jobs derived from it, leave out no script that was      *)
(* there all along, whatever is put and deleted meanwhile.                 *)
THEOREM ListingsAreComplete == Spec => []ListComplete
<1>1. Init => ListingsOK
  BY DEF Init, Idle, ListingsOK, ListingOK
<1>2. ListingsOK => ListComplete
  BY DEF ListingsOK, ListingOK, ListComplete, At
<1> QED
  BY <1>1, <1>2, NextListings, RegistryTypeCorrect, PTL DEF Spec

=============================================================================
