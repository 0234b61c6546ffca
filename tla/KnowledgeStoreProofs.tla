-------------------------- MODULE KnowledgeStoreProofs --------------------------
(***************************************************************************)
(* Proofs about KnowledgeStore, for any documents, contents, requests and  *)
(* deaths.  The inductive invariant has two halves.  Rows: a version that  *)
(* exists has retired every older one (Chain), a request under way finds   *)
(* the version it replaces, and alone if it holds the lock (Underway,      *)
(* Exclusive).  Blobs: a request that stored or deletes one finds it       *)
(* there, shares it with nobody and knows its own row, unless a cleanup    *)
(* task names the key, two requests crossed on it or the document is gone  *)
(* for good (Held); under the lock nobody crosses (Alone).  The last part  *)
(* is about the prompt of KnowledgeContext.                                *)
(***************************************************************************)
EXTENDS KnowledgeContext, TLAPS

(* A request works on a key.                                               *)
Working == \A r \in Requests : pc[r] # "idle" => job[r] \in Keys

(* A version that exists has retired every older one, and its row names a  *)
(* content; drafts are first versions, and personal documents have no more.*)
Chain ==
  /\ \A d \in Documents, v, w \in Versions :
       w < v /\ status[d][v] # "NONE" => status[d][w] = "SUPERSEDED" /\ d \notin Personal
  /\ \A d \in Documents, v \in Versions :
       /\ status[d][v] = "NONE" <=> content[d][v] = None
       /\ status[d][v] = "NONE" => writer[d][v] = None
       /\ status[d][v] = "DRAFT" => v = 1
       /\ status[d][v] = "REVOKED" => d \notin Personal
       /\ status[d][v] # "NONE" => d \in minted

Writing(r) == pc[r] \in {"read", "looked", "stored"}

(* What a request under way may still find: its own version not written by *)
(* it, a first version not at all, and the version it replaces there.      *)
Underway ==
  /\ \A r \in Requests : Writing(r) =>
       /\ job[r][1] \in minted
       /\ writer[job[r][1]][job[r][2]] # r
       /\ job[r][2] = 1 => status[job[r][1]][1] = "NONE"
       /\ job[r][2] > 1 =>
            /\ status[job[r][1]][job[r][2] - 1] \in {"ACTIVE", "SUPERSEDED", "REVOKED"}
            /\ job[r][1] \notin Personal
  /\ \A q, r \in Requests :
       Writing(q) /\ Writing(r) /\ job[q][1] = job[r][1] /\ job[q][2] = 1 /\ job[r][2] = 1
         => q = r

(* The lock: the version that is being replaced stays active.              *)
Exclusive ==
  ~pipeline =>
    /\ \A r \in Requests :
         Writing(r) /\ job[r][2] > 1 => status[job[r][1]][job[r][2] - 1] = "ACTIVE"
    /\ \A q, r \in Requests :
         Writing(q) /\ Writing(r) /\ job[q][1] = job[r][1] /\ job[q][2] = job[r][2] => q = r

RowInv ==
  /\ TypeOK
  /\ Working
  /\ Chain
  /\ Underway
  /\ Exclusive

Holds(r) == pc[r] \in {"stored", "raised", "deleting"}

(* A document whose first version is gone for good.                        *)
Dead(d) ==
  /\ d \in minted /\ status[d][1] = "NONE"
  /\ \A r \in Requests : Writing(r) => job[r][1] # d

(* A cleanup task names the key, or two requests crossed on it.            *)
Spoiled(k) == task[k] # "NONE" \/ k \in crossed

Excused(k) == Spoiled(k) \/ Dead(k[1])

(* Blobs of requests: there, of one request only, and of no row but their  *)
(* own, unless the key is spoiled or the document is dead.                 *)
Held ==
  \A k \in Keys :
    /\ \A r \in Requests : Holds(r) /\ job[r] = k /\ k \notin blobs => Excused(k)
    /\ \A q, r \in Requests : Holds(q) /\ Holds(r) /\ job[q] = k /\ job[r] = k /\ q # r => Excused(k)
    /\ \A r \in Requests :
         /\ pc[r] \in {"stored", "deleting"} /\ job[r] = k /\ Referenced(k) => Spoiled(k)
         /\ pc[r] = "raised" /\ job[r] = k /\ Referenced(k) => Spoiled(k) \/ Persisted(r)
         /\ pc[r] = "raised" /\ job[r] = k /\ Persisted(r) => Referenced(k)

(* A row misses its blob only if the key is spoiled.                       *)
Missing == \A k \in Keys : Referenced(k) /\ k \notin blobs => Spoiled(k)

(* Under the lock, what a request looked for and did not find is still     *)
(* not there, so that nobody crosses it.                                   *)
Alone ==
  ~pipeline => crossed = {} /\ \A r \in Requests : pc[r] = "looked" => job[r] \notin blobs

(* Steps of a request that still answers for a blob.                       *)
Answering == {"stored", "raised", "deleting", "orphaned", "inserting", "renewing", "reopening"}

(* What answers for a blob.                                                *)
Answerable ==
  \A k \in blobs \ (leaked \cup overtaken) :
    \/ Referenced(k)
    \/ task[k] = "PENDING" /\ k \notin swept
    \/ \E r \in Requests : job[r] = k /\ pc[r] \in Answering

BlobInv ==
  /\ \A k \in sweep : task[k] = "PENDING"
  /\ Held
  /\ Missing
  /\ Alone
  /\ Answerable

IInv == RowInv /\ BlobInv
--------------------------------------------------------------------------------
(* Init establishes the invariant.                                         *)
LEMMA InitEstablishes == Init => IInv
<1> SUFFICES ASSUME Init PROVE IInv
  OBVIOUS
<1> USE StoreConstants DEF StoreConstants, Init
<1>1. TypeOK
  BY DEF TypeOK, Statuses, Steps, Keys, Versions
<1>2. Working /\ Underway /\ Exclusive /\ Held /\ Alone /\ Answerable
  BY DEF Working, Underway, Exclusive, Held, Alone, Answerable, Writing, Holds
<1>3. Chain
  BY DEF Chain
<1>4. Missing
  <2>1. \A k \in Keys : ~Referenced(k)
    BY DEF Keys, Referenced, Versions
  <2>2. QED
    BY <2>1 DEF Missing
<1>5. QED
  BY <1>1, <1>2, <1>3, <1>4 DEF IInv, RowInv, BlobInv

(* A key is a document, a version and a content.                           *)
LEMMA KeyParts ==
  ASSUME NEW k \in Keys
  PROVE  /\ k[1] \in Documents /\ k[2] \in Versions /\ k[3] \in Digests
         /\ k = <<k[1], k[2], k[3]>> /\ k # None
BY StoreConstants DEF StoreConstants, Keys, Versions

(***************************************************************************)
(* Rows                                                                    *)
(***************************************************************************)

(* A request that moves on without starting to write disturbs no row.      *)
LEMMA MoveKeepsRows ==
  ASSUME NEW r \in Requests, RowInv, NEW to \in Steps,
         UNCHANGED <<pipeline, rowVars>>,
         pc' = [pc EXCEPT ![r] = to],
         \/ to = "idle" /\ job' = [job EXCEPT ![r] = None]
         \/ pc[r] # "idle" /\ job' = job,
         to \in {"read", "looked", "stored"} => Writing(r)
  PROVE  Working' /\ Chain' /\ Underway' /\ Exclusive'
<1> USE DEF RowInv, rowVars
<1>1. \A q \in Requests : pc'[q] # "idle" => pc[q] # "idle" /\ job'[q] = job[q]
  BY DEF TypeOK
<1>2. \A q \in Requests : Writing(q)' => Writing(q)
  BY DEF TypeOK, Writing
<1>3. \A q \in Requests : Writing(q)' => job'[q] = job[q]
  BY <1>1 DEF Writing
<1>4. Working' /\ Chain'
  BY <1>1 DEF Working, Chain
<1>5. Underway'
  BY <1>2, <1>3 DEF Underway
<1>6. Exclusive'
  BY <1>2, <1>3 DEF Exclusive
<1>7. QED
  BY <1>4, <1>5, <1>6

(* A fresh identifier has no row and no writer.                            *)
LEMMA StartUploadKeepsRows ==
  ASSUME NEW r \in Requests, NEW d \in Documents, NEW c \in Digests, RowInv, StartUpload(r, d, c)
  PROVE  RowInv'
<1> USE StoreConstants DEF StoreConstants, RowInv, StartUpload, Goto, sweepVars, lostVars
<1>1. <<d, 1, c>> \in Keys
  BY DEF Keys, Versions
<1>2. TypeOK'
  BY <1>1 DEF TypeOK, Steps
<1>3. Working' /\ Chain'
  BY <1>1 DEF TypeOK, Working, Chain
<1>4. \A q \in Requests : q # r => pc'[q] = pc[q] /\ job'[q] = job[q]
  BY DEF TypeOK
<1>5. job'[r] = <<d, 1, c>>
  BY DEF TypeOK
<1>6. \A q \in Requests : q # r /\ Writing(q) => job[q][1] # d
  BY DEF Underway
<1>7. status[d][1] = "NONE" /\ writer[d][1] # r
  BY DEF Chain, Versions
<1>8. Underway'
  BY <1>4, <1>5, <1>6, <1>7 DEF Underway, Writing
<1>9. Exclusive'
  BY <1>4, <1>5, <1>6 DEF Exclusive, Writing
<1>10. QED
  BY <1>2, <1>3, <1>8, <1>9

(* The next version of an active one does not exist yet.                   *)
LEMMA StartSupersedeKeepsRows ==
  ASSUME NEW r \in Requests, NEW d \in Documents, NEW v \in Versions, NEW c \in Digests,
         RowInv, StartSupersede(r, d, v, c)
  PROVE  RowInv'
<1> USE StoreConstants DEF StoreConstants, RowInv, StartSupersede, Goto, rowVars, sweepVars, lostVars
<1>1. v + 1 \in Versions /\ v \in Nat /\ v >= 1 /\ <<d, v + 1, c>> \in Keys
  BY DEF Keys, Versions
<1>2. TypeOK'
  BY <1>1 DEF TypeOK, Steps
<1>3. Working' /\ Chain'
  BY <1>1 DEF TypeOK, Working, Chain
<1>4. \A q \in Requests : q # r => pc'[q] = pc[q] /\ job'[q] = job[q]
  BY DEF TypeOK
<1>5. job'[r] = <<d, v + 1, c>> /\ job'[r][1] = d /\ job'[r][2] = v + 1
  BY DEF TypeOK
<1>6. status[d][v + 1] = "NONE" /\ d \in minted
  BY <1>1 DEF Chain
<1>7. writer[d][v + 1] # r
  BY <1>1, <1>6 DEF Chain
<1>8. Underway'
  BY <1>1, <1>4, <1>5, <1>6, <1>7 DEF Underway, Writing
<1>9. ~pipeline => \A q \in Requests : q # r /\ Writing(q) => ~(job[q][1] = d /\ job[q][2] = v + 1)
  BY DEF Locked, Writing
<1>10. Exclusive'
  BY <1>1, <1>4, <1>5, <1>9 DEF Exclusive, Writing
<1>11. QED
  BY <1>2, <1>3, <1>8, <1>10

(* What a write finds and what it leaves.                                  *)
LEMMA WriteEffect ==
  ASSUME NEW r \in Requests, RowInv, Writing(r), Write(r)
  PROVE  /\ job[r][1] \in Documents /\ job[r][2] \in Versions /\ job[r][3] \in Digests
         /\ status[job[r][1]][job[r][2]] = "NONE"
         /\ \A w \in Versions : w > job[r][2] => status[job[r][1]][w] = "NONE"
         /\ \A w \in Versions : w + 1 < job[r][2] => status[job[r][1]][w] = "SUPERSEDED"
         /\ \A d \in Documents, w \in Versions :
              status'[d][w] =
                IF d # job[r][1] THEN status[d][w]
                ELSE IF w = job[r][2]
                  THEN (IF w = 1 /\ d \notin Personal THEN "DRAFT" ELSE "ACTIVE")
                ELSE IF w + 1 = job[r][2] THEN "SUPERSEDED" ELSE status[d][w]
         /\ \A d \in Documents, w \in Versions :
              /\ content'[d][w] =
                   IF d = job[r][1] /\ w = job[r][2] THEN job[r][3] ELSE content[d][w]
              /\ writer'[d][w] = IF d = job[r][1] /\ w = job[r][2] THEN r ELSE writer[d][w]
         /\ status' \in [Documents -> [Versions -> Statuses \cup {"NONE"}]]
         /\ content' \in [Documents -> [Versions -> Digests \cup {None}]]
         /\ writer' \in [Documents -> [Versions -> Requests \cup {None}]]
<1> USE StoreConstants DEF StoreConstants, RowInv, TypeOK
<1>1. job[r] \in Keys
  BY DEF Working, Writing
<1>2. PICK d \in Documents, v \in Versions, c \in Digests :
        /\ d = job[r][1] /\ v = job[r][2] /\ c = job[r][3]
        /\ v \in Nat /\ v >= 1
  BY <1>1, KeyParts DEF Versions
<1>3. status[d][v] = "NONE"
  BY <1>2 DEF Write
<1>4. \A w \in Versions : w > v => status[d][w] = "NONE"
  <2>1. CASE v = 1
    <3>1. status[d][1] = "NONE" /\ 1 \in Versions
      BY <1>2, <2>1 DEF Underway
    <3>2. QED
      BY <2>1, <3>1 DEF Chain, Versions
  <2>2. CASE v # 1
    BY <1>2, <1>3 DEF Chain, Versions
  <2>3. QED
    BY <2>1, <2>2
<1>5. \A w \in Versions : w + 1 < v => status[d][w] = "SUPERSEDED"
  <2>1. SUFFICES ASSUME NEW w \in Versions, w + 1 < v PROVE status[d][w] = "SUPERSEDED"
    OBVIOUS
  <2>2. v - 1 \in Versions /\ w < v - 1 /\ v > 1
    BY <1>2, <2>1 DEF Versions
  <2>3. status[d][v - 1] # "NONE"
    BY <1>2, <2>2 DEF Underway
  <2>4. QED
    BY <2>2, <2>3 DEF Chain
<1>6. \A e \in Documents, w \in Versions :
        status'[e][w] =
          IF e # d THEN status[e][w]
          ELSE IF w = v THEN (IF w = 1 /\ e \notin Personal THEN "DRAFT" ELSE "ACTIVE")
          ELSE IF w + 1 = v THEN "SUPERSEDED" ELSE status[e][w]
  BY <1>2 DEF Write
<1>7. status' \in [Documents -> [Versions -> Statuses \cup {"NONE"}]]
  BY <1>2 DEF Write, Statuses
<1>8. /\ content' = [content EXCEPT ![d][v] = c]
      /\ writer' = [writer EXCEPT ![d][v] = r]
  BY <1>2 DEF Write
<1>9. QED
  BY <1>2, <1>3, <1>4, <1>5, <1>6, <1>7, <1>8

(* The first version of a fresh document, or the successor of the newest   *)
(* one; whoever else is at work on the document finds what it expects.     *)
LEMMA WriteKeepsRows ==
  ASSUME NEW r \in Requests, RowInv, pc[r] = "stored", Write(r), UNCHANGED <<pipeline, minted>>,
         NEW to \in {"idle", "raised"}, pc' = [pc EXCEPT ![r] = to],
         \/ to = "idle" /\ job' = [job EXCEPT ![r] = None]
         \/ to = "raised" /\ job' = job
  PROVE  Working' /\ Chain' /\ Underway' /\ Exclusive'
<1> USE StoreConstants DEF StoreConstants, RowInv
<1>0. Writing(r)
  BY DEF Writing
<1> DEFINE d == job[r][1]
           v == job[r][2]
<1>1. /\ d \in Documents /\ v \in Versions /\ job[r][3] \in Digests
      /\ status[d][v] = "NONE"
      /\ \A w \in Versions : w > v => status[d][w] = "NONE"
      /\ \A w \in Versions : w + 1 < v => status[d][w] = "SUPERSEDED"
  BY <1>0, WriteEffect
<1>2. \A e \in Documents, w \in Versions :
        status'[e][w] =
          IF e # d THEN status[e][w]
          ELSE IF w = v THEN (IF w = 1 /\ e \notin Personal THEN "DRAFT" ELSE "ACTIVE")
          ELSE IF w + 1 = v THEN "SUPERSEDED" ELSE status[e][w]
  BY <1>0, WriteEffect
<1>3. \A e \in Documents, w \in Versions :
        /\ content'[e][w] = IF e = d /\ w = v THEN job[r][3] ELSE content[e][w]
        /\ writer'[e][w] = IF e = d /\ w = v THEN r ELSE writer[e][w]
  BY <1>0, WriteEffect
<1>4. /\ d \in minted
      /\ v = 1 => status[d][1] = "NONE"
      /\ v > 1 => status[d][v - 1] \in {"ACTIVE", "SUPERSEDED", "REVOKED"} /\ d \notin Personal
  BY <1>0 DEF Underway
<1>5. v \in Nat /\ v >= 1 /\ Versions \subseteq Nat /\ 1 \in Versions /\ v <= MaxVersion
  BY <1>1 DEF Versions
<1>6. v > 1 => v - 1 \in Versions
  BY <1>5 DEF Versions
<1>7. \A q \in Requests : Writing(q)' => Writing(q) /\ job'[q] = job[q] /\ q # r
  BY DEF TypeOK, Writing
<1> HIDE DEF d, v
<1>8. Working'
  BY DEF Working, TypeOK
<1>9. Chain'
  <2>1. ASSUME NEW e \in Documents, NEW x \in Versions, NEW w \in Versions,
               w < x, status'[e][x] # "NONE"
        PROVE  status'[e][w] = "SUPERSEDED" /\ e \notin Personal
    <3>1. CASE e # d
      BY <1>2, <2>1, <3>1 DEF Chain
    <3>2. CASE e = d /\ x = v
      <4>1. v > 1 /\ w # v /\ w \in Nat
        BY <1>5, <2>1, <3>2 DEF Versions
      <4>2. w + 1 = v \/ w + 1 < v
        BY <1>5, <2>1, <3>2, <4>1
      <4>3. status'[d][w] = "SUPERSEDED"
        BY <1>1, <1>2, <4>1, <4>2
      <4>4. QED
        BY <1>4, <3>2, <4>1, <4>3
    <3>3. CASE e = d /\ x # v
      <4>1. x < v
        BY <1>1, <1>2, <1>5, <2>1, <3>3
      <4>2. w + 1 < v /\ v > 1
        BY <1>5, <2>1, <4>1
      <4>3. QED
        BY <1>1, <1>2, <1>4, <1>5, <3>3, <4>2
    <3>4. QED
      BY <3>1, <3>2, <3>3
  <2>2. ASSUME NEW e \in Documents, NEW x \in Versions
        PROVE  /\ status'[e][x] = "NONE" <=> content'[e][x] = None
               /\ status'[e][x] = "NONE" => writer'[e][x] = None
               /\ status'[e][x] = "DRAFT" => x = 1
               /\ status'[e][x] = "REVOKED" => e \notin Personal
               /\ status'[e][x] # "NONE" => e \in minted'
    <3>1. CASE e # d
      BY <1>2, <1>3, <3>1 DEF Chain
    <3>2. CASE e = d /\ x = v
      BY <1>1, <1>2, <1>3, <1>4, <3>2
    <3>3. CASE e = d /\ x + 1 = v
      <4>1. v - 1 = x /\ v > 1 /\ x # v
        BY <1>5, <2>2, <3>3 DEF Versions
      <4>2. status[d][x] # "NONE"
        BY <1>4, <4>1
      <4>3. content[d][x] # None
        BY <1>1, <4>2 DEF Chain
      <4>4. QED
        BY <1>2, <1>3, <1>4, <3>3, <4>1, <4>3
    <3>4. CASE e = d /\ x # v /\ x + 1 # v
      BY <1>1, <1>2, <1>3, <1>4, <3>4 DEF Chain
    <3>5. QED
      BY <3>1, <3>2, <3>3, <3>4
  <2>3. QED
    BY <2>1, <2>2 DEF Chain
<1>10. ASSUME NEW q \in Requests, Writing(q), q # r, job[q][1] = d
       PROVE  job[q][2] > 1 /\ v > 1 /\ job[q][2] \in Versions
  <2>1. job[q][2] \in Versions
    BY <1>10, KeyParts DEF Working, Writing
  <2>2. CASE v = 1
    <3>1. job[q][2] # 1
      BY <1>0, <1>10, <2>2 DEF Underway, d, v
    <3>2. job[q][2] > 1 /\ job[q][2] - 1 \in Versions
      BY <2>1, <3>1 DEF Versions
    <3>3. status[d][job[q][2] - 1] # "NONE"
      BY <1>10, <3>2 DEF Underway
    <3>4. job[q][2] - 1 = v \/ job[q][2] - 1 > v
      BY <1>5, <2>1, <2>2, <3>2 DEF Versions
    <3>5. QED
      BY <1>1, <3>2, <3>3, <3>4
  <2>3. CASE v > 1
    <3>1. status[d][1] # "NONE"
      BY <1>1, <1>4, <1>5, <2>3
    <3>2. job[q][2] # 1
      BY <1>10, <3>1 DEF Underway
    <3>3. QED
      BY <2>1, <2>3, <3>2 DEF Versions
  <2>4. QED
    BY <1>5, <2>2, <2>3
<1>11. Underway'
  <2>1. ASSUME NEW q \in Requests, Writing(q)'
        PROVE  /\ job'[q][1] \in minted'
               /\ writer'[job'[q][1]][job'[q][2]] # q
               /\ job'[q][2] = 1 => status'[job'[q][1]][1] = "NONE"
               /\ job'[q][2] > 1 =>
                    /\ status'[job'[q][1]][job'[q][2] - 1] \in {"ACTIVE", "SUPERSEDED", "REVOKED"}
                    /\ job'[q][1] \notin Personal
    <3>1. Writing(q) /\ job'[q] = job[q] /\ q # r
      BY <1>7, <2>1
    <3>2. job[q][1] \in Documents /\ job[q][2] \in Versions
      BY <3>1, KeyParts DEF Working, Writing
    <3>3. /\ job[q][1] \in minted
          /\ writer[job[q][1]][job[q][2]] # q
          /\ job[q][2] = 1 => status[job[q][1]][1] = "NONE"
          /\ job[q][2] > 1 =>
               /\ status[job[q][1]][job[q][2] - 1] \in {"ACTIVE", "SUPERSEDED", "REVOKED"}
               /\ job[q][1] \notin Personal
      BY <3>1 DEF Underway
    <3>4. writer'[job[q][1]][job[q][2]] # q
      BY <1>3, <3>1, <3>2, <3>3
    <3>5. CASE job[q][1] # d
      BY <1>2, <1>5, <3>1, <3>2, <3>3, <3>4, <3>5 DEF Versions
    <3>6. CASE job[q][1] = d
      <4>1. job[q][2] > 1 /\ job[q][2] - 1 \in Versions
        BY <1>10, <3>1, <3>6 DEF Versions
      <4>2. job[q][2] - 1 # v
        BY <1>1, <3>3, <3>6, <4>1
      <4>3. status'[d][job[q][2] - 1] \in {"SUPERSEDED", status[d][job[q][2] - 1]}
        BY <1>1, <1>2, <4>1, <4>2
      <4>4. job[q][2] # 1
        BY <3>2, <4>1 DEF Versions
      <4>5. QED
        BY <3>1, <3>3, <3>4, <3>6, <4>1, <4>3, <4>4
    <3>7. QED
      BY <3>5, <3>6
  <2>2. QED
    BY <1>7, <2>1 DEF Underway
<1>12. Exclusive'
  <2>1. ASSUME ~pipeline, NEW q \in Requests, Writing(q)', job'[q][2] > 1
        PROVE  status'[job'[q][1]][job'[q][2] - 1] = "ACTIVE"
    <3>1. Writing(q) /\ job'[q] = job[q] /\ q # r
      BY <1>7, <2>1
    <3>2. job[q][1] \in Documents /\ job[q][2] \in Versions /\ job[q][2] - 1 \in Versions
      BY <2>1, <3>1, KeyParts DEF Working, Writing, Versions
    <3>3. status[job[q][1]][job[q][2] - 1] = "ACTIVE"
      BY <2>1, <3>1 DEF Exclusive
    <3>4. CASE job[q][1] # d
      BY <1>2, <3>1, <3>2, <3>3, <3>4
    <3>5. CASE job[q][1] = d
      <4>1. v > 1
        BY <1>10, <3>1, <3>5
      <4>2. status[d][v - 1] = "ACTIVE"
        BY <1>0, <2>1, <4>1 DEF Exclusive, d, v
      <4>3. job[q][2] - 1 = v - 1
        BY <1>6, <3>2, <3>3, <3>5, <4>1, <4>2 DEF Chain, Versions
      <4>4. job[q][2] = v
        BY <1>5, <3>2, <4>3 DEF Versions
      <4>5. q = r
        BY <1>0, <2>1, <3>1, <3>5, <4>4 DEF Exclusive, d, v
      <4>6. QED
        BY <3>1, <4>5
    <3>6. QED
      BY <3>4, <3>5
  <2>2. QED
    BY <1>7, <2>1 DEF Exclusive
<1>13. QED
  BY <1>8, <1>9, <1>11, <1>12

(* Publishing makes the first and only version active; a revocation waits  *)
(* for whoever holds the lock.                                             *)
LEMMA OneRowKeepsRows ==
  ASSUME NEW d \in Documents, NEW v \in Versions, RowInv, Publish(d, v) \/ Revoke(d, v)
  PROVE  RowInv'
<1> USE StoreConstants DEF StoreConstants, RowInv, sweepVars, lostVars
<1> DEFINE s == IF status[d][v] = "DRAFT" THEN "ACTIVE" ELSE "REVOKED"
<1>1. /\ status' = [status EXCEPT ![d][v] = s]
      /\ status[d][v] \in {"DRAFT", "ACTIVE"} /\ ~Locked(d, v) /\ d \notin Personal
      /\ UNCHANGED <<pipeline, content, writer, minted, blobs, task, pc, job, sweepVars, lostVars, crashes>>
  BY DEF Publish, Revoke
<1>2. s \in {"ACTIVE", "REVOKED"} /\ (status[d][v] = "DRAFT" => s = "ACTIVE")
  OBVIOUS
<1> HIDE DEF s
<1>3. TypeOK'
  BY <1>1, <1>2 DEF TypeOK, Statuses
<1>4. \A e \in Documents, w \in Versions :
        status'[e][w] = IF e = d /\ w = v THEN s ELSE status[e][w]
  BY <1>1 DEF TypeOK
<1>5. Working'
  BY <1>1 DEF Working
<1>6. Chain'
  BY <1>1, <1>2, <1>4 DEF Chain, Versions
<1>7. \A q \in Requests : Writing(q)' = Writing(q)
  BY <1>1 DEF Writing
<1>8. \A q \in Requests : Writing(q) => job[q][1] \in Documents /\ job[q][2] \in Versions
  BY KeyParts DEF Working, Writing
<1>9. Underway'
  BY <1>1, <1>2, <1>4, <1>7, <1>8 DEF Underway, Versions
<1>10. ~pipeline => \A q \in Requests : Writing(q) /\ job[q][1] = d => job[q][2] # v + 1
  BY <1>1 DEF Locked, Writing
<1>11. Exclusive'
  BY <1>1, <1>4, <1>7, <1>8, <1>10 DEF Exclusive, Versions
<1>12. QED
  BY <1>3, <1>5, <1>6, <1>9, <1>11

(* Only the sole version of a document is deleted, with nobody at work.    *)
LEMMA DeletableIsSole ==
  ASSUME RowInv, NEW d \in Documents, NEW v \in Versions, Deletable(d, v)
  PROVE  /\ v = 1 /\ d \in minted
         /\ \A w \in Versions : w # v => status[d][w] = "NONE"
         /\ \A q \in Requests : Writing(q) => job[q][1] # d
         /\ content[d][v] \in Digests /\ <<d, v, content[d][v]>> \in Keys
<1> USE StoreConstants DEF StoreConstants, RowInv, Deletable
<1>1. v = 1
  BY DEF Chain, Versions
<1>2. \A w \in Versions : w # v => status[d][w] = "NONE"
  BY <1>1 DEF Chain, Versions
<1>3. \A q \in Requests : Writing(q) => job[q][1] # d
  <2>1. SUFFICES ASSUME NEW q \in Requests, Writing(q), job[q][1] = d PROVE FALSE
    OBVIOUS
  <2>2. job[q][2] \in Versions
    BY <2>1, KeyParts DEF Working, Writing
  <2>3. job[q][2] > 1 /\ job[q][2] - 1 \in Versions
    BY <1>1, <2>1, <2>2 DEF Underway, Versions
  <2>4. status[d][job[q][2] - 1] \in {"ACTIVE", "SUPERSEDED", "REVOKED"} /\ d \notin Personal
    BY <2>1, <2>3 DEF Underway
  <2>5. QED
    BY <1>1, <1>2, <2>3, <2>4
<1>4. d \in minted /\ content[d][v] \in Digests
  BY DEF Chain, TypeOK
<1>5. QED
  BY <1>1, <1>2, <1>3, <1>4 DEF Keys

(* A deletion leaves a document without a row.                             *)
LEMMA DeleteKeepsRows ==
  ASSUME NEW d \in Documents, NEW v \in Versions, RowInv, Deletable(d, v),
         Row(d, v, None, "NONE", None), UNCHANGED <<pipeline, minted>>,
         \A q \in Requests : Writing(q)' => Writing(q) /\ job'[q] = job[q], Working'
  PROVE  Chain' /\ Underway' /\ Exclusive'
<1>1. /\ v = 1 /\ d \in minted
      /\ \A w \in Versions : w # v => status[d][w] = "NONE"
      /\ \A q \in Requests : Writing(q) => job[q][1] # d
  BY DeletableIsSole
<1> USE StoreConstants DEF StoreConstants, RowInv
<1>2. \A e \in Documents, w \in Versions :
        /\ status'[e][w] = IF e = d /\ w = v THEN "NONE" ELSE status[e][w]
        /\ content'[e][w] = IF e = d /\ w = v THEN None ELSE content[e][w]
        /\ writer'[e][w] = IF e = d /\ w = v THEN None ELSE writer[e][w]
  BY DEF Row, TypeOK
<1>3. \A q \in Requests : Writing(q) => job[q][1] \in Documents /\ job[q][2] \in Versions
  BY KeyParts DEF Working, Writing
<1>4. Chain'
  BY <1>1, <1>2 DEF Chain
<1>5. Underway'
  BY <1>1, <1>2, <1>3 DEF Underway, Versions
<1>6. Exclusive'
  BY <1>1, <1>2, <1>3 DEF Exclusive, Versions
<1>7. QED
  BY <1>4, <1>5, <1>6

(***************************************************************************)
(* Blobs                                                                   *)
(***************************************************************************)

(* A dead document has no row that names a content.                        *)
LEMMA DeadHasNoRow ==
  ASSUME RowInv, NEW k \in Keys, Dead(k[1])
  PROVE  ~Referenced(k)
<1>1. k[1] \in Documents /\ k[2] \in Versions /\ k[3] # None
  BY KeyParts, StoreConstants DEF StoreConstants
<1>2. status[k[1]][k[2]] = "NONE"
  <2>1. 1 \in Versions /\ (k[2] = 1 \/ 1 < k[2])
    BY <1>1, StoreConstants DEF StoreConstants, Versions
  <2>2. status[k[1]][1] = "NONE"
    BY DEF Dead
  <2>3. QED
    BY <1>1, <2>1, <2>2 DEF RowInv, Chain
<1>3. QED
  BY <1>1, <1>2 DEF RowInv, Chain, Referenced

(* What a request keeps that goes on, or ends, without touching a row: a   *)
(* blob goes only while it is being deleted, and a deletion is for a row   *)
(* that is not there.                                                      *)
LEMMA MoveKeepsHeld ==
  ASSUME NEW r \in Requests, IInv, NEW to \in Steps, UNCHANGED rowVars,
         pc' = [pc EXCEPT ![r] = to],
         \/ to = "idle" /\ job' = [job EXCEPT ![r] = None]
         \/ pc[r] # "idle" /\ job' = job,
         to \in {"idle", "looked", "raised", "deleting"} \cup Queueing,
         to = "looked" => pc[r] = "read",
         to = "raised" => pc[r] = "stored",
         to = "deleting" => pc[r] = "raised" /\ ~Persisted(r),
         \A k \in Keys : Spoiled(k) => Spoiled(k)',
         \A k \in blobs : k \in blobs' \/ (k = job[r] /\ pc[r] = "deleting")
  PROVE  Held' /\ Missing'
<1>1. \A k \in Keys : Dead(k[1]) => ~Referenced(k)
  BY DeadHasNoRow DEF IInv
<1> USE StoreConstants DEF StoreConstants, IInv, BlobInv, rowVars, Queueing
<1>2. \A q \in Requests : pc'[q] # "idle" => pc[q] # "idle" /\ job'[q] = job[q] /\ job[q] \in Keys
  BY DEF RowInv, TypeOK, Working
<1>3. \A q \in Requests : Writing(q)' => Writing(q)
  BY DEF RowInv, TypeOK, Writing
<1>4. \A q \in Requests : Writing(q)' => job'[q] = job[q]
  BY <1>2 DEF Writing
<1>5. \A k \in Keys : Excused(k) => Excused(k)'
  BY <1>3, <1>4 DEF Excused, Dead
<1>6. \A q \in Requests : Holds(q)' => Holds(q)
  BY DEF RowInv, TypeOK, Holds
<1>7. \A k \in Keys : Referenced(k)' = Referenced(k)
  BY DEF Referenced
<1>8. \A q \in Requests : q # r => pc'[q] = pc[q] /\ job'[q] = job[q]
  BY DEF RowInv, TypeOK
<1>9. pc'[r] = to
  BY DEF RowInv, TypeOK
<1>10. ASSUME NEW k \in Keys, NEW q \in Requests, Holds(q)', job'[q] = k, k \notin blobs'
       PROVE  Excused(k)
  <2>1. Holds(q) /\ job[q] = k
    BY <1>2, <1>6, <1>10 DEF Holds
  <2>2. CASE k \notin blobs
    BY <2>1, <2>2 DEF Held
  <2>3. CASE k \in blobs
    <3>1. k = job[r] /\ pc[r] = "deleting" /\ q # r
      BY <1>9, <1>10, <2>3 DEF Holds
    <3>2. QED
      BY <2>1, <3>1 DEF Held, Holds
  <2>4. QED
    BY <2>2, <2>3
<1>11. Held'
  <2>1. ASSUME NEW k \in Keys, NEW p \in Requests, NEW q \in Requests, Holds(p)', Holds(q)',
               job'[p] = k, job'[q] = k, p # q
        PROVE  Excused(k)
    <3>1. Holds(p) /\ Holds(q) /\ job[p] = k /\ job[q] = k
      BY <1>2, <1>6, <2>1 DEF Holds
    <3>2. QED
      BY <2>1, <3>1 DEF Held
  <2>2. ASSUME NEW k \in Keys, NEW q \in Requests, job'[q] = k,
               pc'[q] \in {"stored", "deleting"}, Referenced(k)'
        PROVE  Spoiled(k)'
    BY <1>2, <1>7, <1>8, <1>9, <2>2 DEF Held
  <2>3. pc[r] = "stored" => ~Persisted(r)
    BY DEF RowInv, Underway, Writing, Persisted
  <2>4. \A q \in Requests : job'[q] = job[q] => Persisted(q)' = Persisted(q)
    BY DEF Persisted
  <2>5. ASSUME NEW k \in Keys, NEW q \in Requests, job'[q] = k, pc'[q] = "raised"
        PROVE  /\ Referenced(k)' => Spoiled(k)' \/ Persisted(q)'
               /\ Persisted(q)' => Referenced(k)'
    <3>1. job[q] = k /\ Persisted(q)' = Persisted(q)
      BY <1>2, <2>4, <2>5
    <3>2. CASE q = r
      BY <1>7, <1>9, <2>3, <2>5, <3>1, <3>2 DEF Held
    <3>3. CASE q # r
      BY <1>7, <1>8, <2>5, <3>1, <3>3 DEF Held
    <3>4. QED
      BY <3>2, <3>3
  <2>6. QED
    BY <1>5, <1>10, <2>1, <2>2, <2>5 DEF Held
<1>12. Missing'
  <2>1. SUFFICES ASSUME NEW k \in Keys, Referenced(k)', k \notin blobs' PROVE Spoiled(k)'
    BY DEF Missing
  <2>2. Referenced(k)
    BY <1>7, <2>1
  <2>3. CASE k \notin blobs
    BY <2>2, <2>3 DEF Missing
  <2>4. CASE k \in blobs
    BY <2>1, <2>2, <2>4 DEF Held
  <2>5. QED
    BY <2>3, <2>4
<1>13. QED
  BY <1>11, <1>12

(* Who has looked for a key under the lock finds it absent until it writes.*)
LEMMA AloneStays ==
  ASSUME IInv, pipeline' = pipeline, ~pipeline => crossed' = crossed,
         \A q \in Requests : pc'[q] = "looked" =>
           /\ job'[q] = job[q]
           /\ pc[q] = "looked" \/ job[q] \notin blobs
           /\ ~pipeline => job[q] \notin blobs' \ blobs
  PROVE  Alone'
BY DEF IInv, BlobInv, Alone

(* A request that begins works on a document that is not dead, and holds   *)
(* nothing yet.                                                            *)
LEMMA StartKeepsBlobs ==
  ASSUME NEW r \in Requests, IInv, RowInv', NEW d \in Documents, NEW v \in Versions,
         NEW c \in Digests, ~Dead(d), pc[r] = "idle",
         pc' = [pc EXCEPT ![r] = "read"], job' = [job EXCEPT ![r] = <<d, v, c>>],
         minted \subseteq minted',
         UNCHANGED <<pipeline, status, content, writer, blobs, task, sweepVars, lostVars>>
  PROVE  BlobInv'
<1> USE StoreConstants DEF StoreConstants, IInv, BlobInv, sweepVars, lostVars
<1>1. \A q \in Requests : q # r => pc'[q] = pc[q] /\ job'[q] = job[q]
  BY DEF RowInv, TypeOK
<1>2. pc'[r] = "read" /\ job'[r] = <<d, v, c>> /\ job'[r][1] = d
  BY DEF RowInv, TypeOK
<1>3. \A k \in Keys : Excused(k) => Excused(k)'
  BY <1>1, <1>2 DEF Excused, Spoiled, Dead, Writing
<1>4. \A k \in Keys : Referenced(k)' = Referenced(k)
  BY DEF Referenced
<1>5. \A q \in Requests : pc'[q] # "idle" /\ q # r => job[q] \in Keys
  BY <1>1 DEF RowInv, Working
<1>6. \A q \in Requests : Holds(q)' => Holds(q) /\ q # r /\ job'[q] = job[q] /\ job[q] \in Keys
  BY <1>1, <1>2, <1>5 DEF Holds
<1>7. Held'
  <2>1. \A q \in Requests : q # r => Persisted(q)' = Persisted(q)
    BY <1>1 DEF Persisted
  <2>2. ASSUME NEW k \in Keys, NEW q \in Requests, Holds(q)', job'[q] = k
        PROVE  /\ k \notin blobs' => Excused(k)'
               /\ \A p \in Requests : Holds(p)' /\ job'[p] = k /\ p # q => Excused(k)'
               /\ pc'[q] \in {"stored", "deleting"} /\ Referenced(k)' => Spoiled(k)'
               /\ pc'[q] = "raised" /\ Referenced(k)' => Spoiled(k)' \/ Persisted(q)'
               /\ pc'[q] = "raised" /\ Persisted(q)' => Referenced(k)'
    <3>1. Holds(q) /\ q # r /\ job[q] = k /\ pc'[q] = pc[q] /\ Persisted(q)' = Persisted(q)
      BY <1>1, <1>6, <2>1, <2>2
    <3>2. \A p \in Requests : Holds(p)' /\ job'[p] = k => Holds(p) /\ job[p] = k
      BY <1>6
    <3>3. /\ k \notin blobs' => Excused(k)'
          /\ \A p \in Requests : Holds(p)' /\ job'[p] = k /\ p # q => Excused(k)'
      BY <1>3, <3>1, <3>2 DEF Held
    <3>4. QED
      BY <1>4, <3>1, <3>3 DEF Held, Spoiled
  <2>3. QED
    BY <2>2 DEF Held, Holds
<1>8. Missing'
  BY <1>4 DEF Missing, Spoiled
<1>9. Answerable'
  <2>1. ASSUME NEW k \in blobs \ (leaked \cup overtaken), ~Referenced(k), ~(task[k] = "PENDING" /\ k \notin swept)
        PROVE  \E q \in Requests : job'[q] = k /\ pc'[q] \in Answering
    BY <1>1, <2>1 DEF Answerable, Answering
  <2>2. blobs \subseteq Keys
    BY DEF RowInv, TypeOK
  <2>3. QED
    BY <1>4, <2>1, <2>2 DEF Answerable
<1>10. Alone'
  BY <1>1, <1>2, AloneStays
<1>11. QED
  BY <1>7, <1>8, <1>9, <1>10

(* A blob that is stored over another spoils its key; one that was missing *)
(* was held by nobody and named by no row, unless its key is spoiled.      *)
LEMMA PutKeepsBlobs ==
  ASSUME NEW r \in Requests, IInv, Put(r)
  PROVE  BlobInv'
<1> USE StoreConstants DEF StoreConstants, IInv, BlobInv, Put, Goto, rowVars, sweepVars
<1>1. \A q \in Requests : q # r => pc'[q] = pc[q]
  BY DEF RowInv, TypeOK
<1>2. pc'[r] = "stored" /\ job' = job /\ pc[r] = "looked" /\ job[r] \in Keys
  BY DEF RowInv, TypeOK, Working
<1>3. \A q \in Requests : Writing(q)' = Writing(q)
  BY <1>1, <1>2 DEF Writing
<1>4. \A k \in Keys : (Spoiled(k) => Spoiled(k)') /\ (Excused(k) => Excused(k)')
  BY <1>2, <1>3 DEF Excused, Spoiled, Dead
<1>5. \A k \in Keys : Referenced(k)' = Referenced(k)
  BY DEF Referenced
<1>6. \A q \in Requests : pc'[q] # "idle" => pc[q] # "idle" /\ job[q] \in Keys
  BY <1>1, <1>2 DEF RowInv, Working
<1>7. \A q \in Requests : Holds(q)' => (Holds(q) \/ q = r) /\ job[q] \in Keys
  BY <1>1, <1>6 DEF Holds
<1>8. \A q \in Requests : Holds(q) /\ job[q] = job[r] => Excused(job[r])'
  BY <1>2, <1>4 DEF Held, Excused, Spoiled
<1>9. Referenced(job[r]) => Spoiled(job[r])'
  BY <1>2, <1>4 DEF Missing, Spoiled
<1>10. Held'
  <2>1. \A q \in Requests : Persisted(q)' = Persisted(q)
    BY <1>2 DEF Persisted
  <2>2. ASSUME NEW k \in Keys, NEW q \in Requests, Holds(q)', job'[q] = k
        PROVE  /\ k \notin blobs' => Excused(k)'
               /\ \A p \in Requests : Holds(p)' /\ job'[p] = k /\ p # q => Excused(k)'
               /\ pc'[q] \in {"stored", "deleting"} /\ Referenced(k)' => Spoiled(k)'
               /\ pc'[q] = "raised" /\ Referenced(k)' => Spoiled(k)' \/ Persisted(q)'
               /\ pc'[q] = "raised" /\ Persisted(q)' => Referenced(k)'
    <3>1. job[q] = k /\ (Holds(q) \/ q = r)
      BY <1>2, <1>7, <2>2
    <3>2. k \notin blobs' => Excused(k)'
      BY <1>2, <1>4, <3>1 DEF Held
    <3>3. ASSUME NEW p \in Requests, Holds(p)', job'[p] = k, p # q
          PROVE  Excused(k)'
      <4>1. job[p] = k /\ (Holds(p) \/ p = r)
        BY <1>2, <1>7, <3>3
      <4>2. CASE p = r \/ q = r
        BY <1>8, <3>1, <3>3, <4>1, <4>2
      <4>3. CASE p # r /\ q # r
        BY <1>4, <3>1, <3>3, <4>1, <4>3 DEF Held
      <4>4. QED
        BY <4>2, <4>3
    <3>4. CASE q = r
      BY <1>2, <1>5, <1>9, <3>1, <3>2, <3>3, <3>4
    <3>5. CASE q # r
      BY <1>1, <1>4, <1>5, <2>1, <3>1, <3>2, <3>3, <3>5 DEF Held
    <3>6. QED
      BY <3>4, <3>5
  <2>3. QED
    BY <2>2 DEF Held, Holds
<1>11. Missing'
  BY <1>4, <1>5 DEF Missing
<1>12. Answerable'
  <2>1. ASSUME NEW k \in blobs \ (leaked \cup overtaken), ~Referenced(k), ~(task[k] = "PENDING" /\ k \notin swept)
        PROVE  \E q \in Requests : job'[q] = k /\ pc'[q] \in Answering
    BY <1>1, <1>2, <2>1 DEF Answerable, Answering
  <2>2. blobs \subseteq Keys
    BY DEF RowInv, TypeOK
  <2>3. QED
    BY <1>2, <1>5, <2>1, <2>2 DEF Answerable, Answering
<1>13. Alone'
  <2>1. ASSUME ~pipeline PROVE crossed' = crossed
    BY <1>2, <2>1 DEF Alone
  <2>2. ASSUME ~pipeline, NEW q \in Requests, pc'[q] = "looked" PROVE job[q] \notin blobs' \ blobs
    <3>1. q # r /\ pc[q] = "looked" /\ Writing(q) /\ Writing(r)
      BY <1>1, <1>2, <2>2 DEF Writing
    <3>2. job[q] # job[r]
      BY <2>2, <3>1 DEF RowInv, Exclusive
    <3>3. QED
      BY <3>2
  <2>3. QED
    BY <1>1, <1>2, <2>1, <2>2, AloneStays
<1>14. QED
  BY <1>10, <1>11, <1>12, <1>13

(* A row is written for the blob its request stored; whoever shares that   *)
(* blob, or misses it, has a cleanup task to show.                         *)
LEMMA WriteKeepsBlobs ==
  ASSUME NEW r \in Requests, IInv, pc[r] = "stored", Write(r),
         UNCHANGED <<pipeline, minted, blobs, task, sweepVars, lostVars>>,
         NEW to \in {"idle", "raised"}, pc' = [pc EXCEPT ![r] = to],
         \/ to = "idle" /\ job' = [job EXCEPT ![r] = None]
         \/ to = "raised" /\ job' = job
  PROVE  BlobInv'
<1>0. Writing(r) /\ RowInv
  BY DEF Writing, IInv
<1>1. job[r] \in Keys
  BY <1>0 DEF RowInv, Working, Writing
<1>2. PICK d \in Documents, v \in Versions, c \in Digests :
        job[r] = <<d, v, c>> /\ d = job[r][1] /\ v = job[r][2] /\ c = job[r][3]
  BY <1>1, KeyParts
<1>3. /\ status[d][v] = "NONE"
      /\ \A e \in Documents, w \in Versions :
           /\ content'[e][w] = IF e = d /\ w = v THEN c ELSE content[e][w]
           /\ writer'[e][w] = IF e = d /\ w = v THEN r ELSE writer[e][w]
      /\ \A e \in Documents, w \in Versions : e # d => status'[e][w] = status[e][w]
  BY <1>0, <1>2, WriteEffect
<1>4. content[d][v] = None /\ writer[d][v] = None
  BY <1>0, <1>3 DEF RowInv, Chain
<1>5. \A k \in Keys : Dead(k[1]) => k[1] # d
  BY <1>0, <1>2 DEF Dead
<1> USE StoreConstants DEF StoreConstants, IInv, BlobInv, sweepVars, lostVars
<1>6. \A q \in Requests : q # r => pc'[q] = pc[q] /\ job'[q] = job[q]
  BY DEF RowInv, TypeOK
<1>7. pc'[r] = to /\ (to = "raised" => job'[r] = job[r])
  BY DEF RowInv, TypeOK
<1>8. \A k \in Keys : Dead(k[1]) => Dead(k[1])'
  <2>1. SUFFICES ASSUME NEW k \in Keys, Dead(k[1]) PROVE Dead(k[1])'
    OBVIOUS
  <2>2. k[1] \in Documents /\ k[1] # d /\ 1 \in Versions
    BY <1>2, <1>5, <2>1, KeyParts DEF Versions
  <2>3. status'[k[1]][1] = "NONE" /\ k[1] \in minted
    BY <1>3, <2>1, <2>2 DEF Dead
  <2>4. \A q \in Requests : Writing(q)' => Writing(q) /\ job'[q] = job[q]
    BY <1>6, <1>7 DEF Writing
  <2>5. QED
    BY <2>1, <2>3, <2>4 DEF Dead
<1>9. \A k \in Keys : Excused(k) => Excused(k)'
  BY <1>8 DEF Excused, Spoiled
<1>10. \A k \in Keys : Referenced(k)' <=> Referenced(k) \/ k = job[r]
  BY <1>2, <1>3, <1>4, KeyParts DEF Referenced
<1>11. ~Referenced(job[r])
  BY <1>1, <1>2, <1>4 DEF Referenced
<1>12. Excused(job[r]) => Spoiled(job[r])
  BY <1>1, <1>5, <1>2 DEF Excused
<1>13. \A q \in Requests : q # r /\ pc[q] # "idle" => Persisted(q)' = Persisted(q)
  <2>1. SUFFICES ASSUME NEW q \in Requests, q # r, pc[q] # "idle" PROVE Persisted(q)' = Persisted(q)
    OBVIOUS
  <2>2. job[q][1] \in Documents /\ job[q][2] \in Versions
    BY <2>1, KeyParts DEF RowInv, Working
  <2>3. QED
    BY <1>3, <1>4, <1>6, <2>1, <2>2 DEF Persisted
<1>14. to = "raised" => Persisted(r)'
  BY <1>2, <1>3, <1>7 DEF Persisted
<1>15. Held'
  <2>1. ASSUME NEW k \in Keys, NEW q \in Requests, Holds(q)', job'[q] = k
        PROVE  /\ k \notin blobs' => Excused(k)'
               /\ \A p \in Requests : Holds(p)' /\ job'[p] = k /\ p # q => Excused(k)'
               /\ pc'[q] \in {"stored", "deleting"} /\ Referenced(k)' => Spoiled(k)'
               /\ pc'[q] = "raised" /\ Referenced(k)' => Spoiled(k)' \/ Persisted(q)'
               /\ pc'[q] = "raised" /\ Persisted(q)' => Referenced(k)'
    <3>1. \A p \in Requests : Holds(p)' => Holds(p) /\ job'[p] = job[p]
      BY <1>6, <1>7 DEF Holds
    <3>2. Holds(q) /\ job[q] = k
      BY <2>1, <3>1
    <3>3. k \notin blobs' => Excused(k)'
      BY <1>9, <3>2 DEF Held
    <3>4. \A p \in Requests : Holds(p)' /\ job'[p] = k /\ p # q => Excused(k)'
      BY <1>9, <3>1, <3>2 DEF Held
    <3>5. CASE q = r
      <4>1. k = job[r] /\ to = "raised"
        BY <1>7, <2>1, <3>2, <3>5 DEF Holds
      <4>2. QED
        BY <1>7, <1>10, <1>14, <3>3, <3>4, <3>5, <4>1 DEF Spoiled
    <3>6. CASE q # r
      <4>1. pc'[q] = pc[q] /\ pc[q] # "idle" /\ Persisted(q)' = Persisted(q)
        BY <1>6, <1>13, <3>2, <3>6 DEF Holds
      <4>2. k = job[r] => Spoiled(k)
        <5>1. SUFFICES ASSUME k = job[r] PROVE Excused(k)
          BY <1>12
        <5>2. Holds(r)
          BY DEF Holds
        <5>3. QED
          BY <3>2, <3>6, <5>1, <5>2 DEF Held
      <4>3. Referenced(k) =>
              /\ pc[q] \in {"stored", "deleting"} => Spoiled(k)
              /\ pc[q] = "raised" => Spoiled(k) \/ Persisted(q)
        BY <3>2 DEF Held
      <4>4. pc[q] = "raised" /\ Persisted(q) => Referenced(k)
        BY <3>2 DEF Held
      <4>5. QED
        BY <1>10, <3>3, <3>4, <4>1, <4>2, <4>3, <4>4 DEF Spoiled
    <3>7. QED
      BY <3>5, <3>6
  <2>2. QED
    BY <2>1 DEF Held, Holds
<1>16. Missing'
  <2>1. job[r] \notin blobs => Spoiled(job[r])
    BY <1>1, <1>12 DEF Held, Holds
  <2>2. QED
    BY <1>10, <2>1 DEF Missing, Spoiled
<1>17. Answerable'
  <2>1. ASSUME NEW k \in blobs \ (leaked \cup overtaken), ~Referenced(k), k # job[r],
               ~(task[k] = "PENDING" /\ k \notin swept)
        PROVE  \E q \in Requests : job'[q] = k /\ pc'[q] \in Answering
    BY <1>6, <2>1 DEF Answerable
  <2>2. blobs \subseteq Keys
    BY DEF RowInv, TypeOK
  <2>3. QED
    BY <1>10, <2>1, <2>2 DEF Answerable
<1>18. Alone'
  BY <1>6, <1>7, AloneStays
<1>19. QED
  BY <1>15, <1>16, <1>17, <1>18

(* A status that changes from one to another names the same contents.      *)
LEMMA OneRowKeepsBlobs ==
  ASSUME NEW d \in Documents, NEW v \in Versions, IInv, Publish(d, v) \/ Revoke(d, v)
  PROVE  BlobInv'
<1> USE DEF IInv, BlobInv, sweepVars, lostVars
<1>1. UNCHANGED <<pipeline, content, writer, minted, blobs, task, pc, job, sweep, swept, leaked,
                  crossed, overtaken>>
  BY DEF Publish, Revoke
<1>2. \A e \in Documents, w \in Versions : status[e][w] = "NONE" => status'[e][w] = "NONE"
  <2>1. status[d][v] # "NONE"
    BY DEF Publish, Revoke
  <2>2. status' \in {[status EXCEPT ![d][v] = "ACTIVE"], [status EXCEPT ![d][v] = "REVOKED"]}
    BY DEF Publish, Revoke
  <2>3. \A e \in Documents, w \in Versions : e # d \/ w # v => status'[e][w] = status[e][w]
    BY <2>2 DEF RowInv, TypeOK
  <2>4. QED
    BY <2>1, <2>3
<1>3. \A k \in Keys : Dead(k[1]) => Dead(k[1])'
  <2>1. SUFFICES ASSUME NEW k \in Keys, Dead(k[1]) PROVE Dead(k[1])'
    OBVIOUS
  <2>2. k[1] \in Documents /\ 1 \in Versions
    BY StoreConstants, KeyParts DEF StoreConstants, Versions
  <2>3. QED
    BY <1>1, <1>2, <2>1, <2>2 DEF Dead, Writing
<1>4. \A k \in Keys : Excused(k) => Excused(k)'
  BY <1>1, <1>3 DEF Excused, Spoiled
<1>5. \A k \in Keys : Referenced(k)' = Referenced(k)
  BY <1>1 DEF Referenced
<1>6. \A q \in Requests : Persisted(q)' = Persisted(q)
  BY <1>1 DEF Persisted
<1>7. Held'
  BY <1>1, <1>4, <1>5, <1>6 DEF Held, Holds, Spoiled
<1>8. Missing'
  BY <1>1, <1>5 DEF Missing, Spoiled
<1>9. Answerable'
  BY <1>1, <1>5 DEF Answerable, RowInv, TypeOK
<1>10. Alone'
  BY <1>1 DEF Alone
<1>11. QED
  BY <1>1, <1>7, <1>8, <1>9, <1>10

(* A document that loses its row is dead, and with that excused.           *)
LEMMA DeleteKeepsHeld ==
  ASSUME NEW d \in Documents, NEW v \in Versions, IInv, Deletable(d, v),
         Row(d, v, None, "NONE", None), UNCHANGED <<minted, blobs, task, crossed>>,
         \A q \in Requests :
           \/ pc'[q] = pc[q] /\ job'[q] = job[q]
           \/ pc'[q] = "deleting" /\ job'[q] = <<d, v, content[d][v]>>
  PROVE  /\ Held' /\ Missing'
         /\ \A k \in Keys : Referenced(k)' <=> Referenced(k) /\ k # <<d, v, content[d][v]>>
<1>0. RowInv
  BY DEF IInv
<1>1. /\ v = 1 /\ d \in minted
      /\ \A w \in Versions : w # v => status[d][w] = "NONE"
      /\ \A q \in Requests : Writing(q) => job[q][1] # d
      /\ content[d][v] \in Digests /\ <<d, v, content[d][v]>> \in Keys
  BY <1>0, DeletableIsSole
<1> USE StoreConstants DEF StoreConstants, IInv, BlobInv
<1>2. \A e \in Documents, w \in Versions :
        /\ status'[e][w] = IF e = d /\ w = v THEN "NONE" ELSE status[e][w]
        /\ content'[e][w] = IF e = d /\ w = v THEN None ELSE content[e][w]
        /\ writer'[e][w] = IF e = d /\ w = v THEN None ELSE writer[e][w]
  BY DEF Row, RowInv, TypeOK
<1>3. \A q \in Requests : Writing(q)' => Writing(q) /\ job'[q] = job[q]
  BY DEF Writing
<1>4. \A k \in Keys : k[1] = d => Dead(k[1])'
  BY <1>1, <1>2, <1>3 DEF Dead
<1>5. \A k \in Keys : Dead(k[1]) => Dead(k[1])'
  <2>1. SUFFICES ASSUME NEW k \in Keys, Dead(k[1]) PROVE Dead(k[1])'
    OBVIOUS
  <2>2. k[1] \in Documents /\ 1 \in Versions
    BY KeyParts DEF Versions
  <2>3. QED
    BY <1>2, <1>3, <2>1, <2>2 DEF Dead
<1>6. \A k \in Keys : Excused(k) \/ k[1] = d => Excused(k)'
  BY <1>4, <1>5 DEF Excused, Spoiled
<1>7. \A w \in Versions : content'[d][w] = None /\ writer'[d][w] = None
  BY <1>1, <1>2 DEF RowInv, Chain
<1>8. \A k \in Keys : k[1] = d => ~Referenced(k)'
  BY <1>7, KeyParts DEF Referenced
<1>9. \A k \in Keys : k[1] # d => Referenced(k)' = Referenced(k)
  BY <1>2, KeyParts DEF Referenced
<1>10. \A k \in Keys : Referenced(k)' <=> Referenced(k) /\ k # <<d, v, content[d][v]>>
  <2>1. SUFFICES ASSUME NEW k \in Keys, k[1] = d
                 PROVE  ~(Referenced(k) /\ k # <<d, v, content[d][v]>>)
    BY <1>8, <1>9
  <2>2. \A w \in Versions : w # v => content[d][w] = None
    BY <1>1 DEF RowInv, Chain
  <2>3. QED
    BY <2>1, <2>2, KeyParts DEF Referenced
<1>11. ASSUME NEW k \in Keys, NEW q \in Requests, Holds(q)', job'[q] = k
       PROVE  /\ k \notin blobs' => Excused(k)'
              /\ \A p \in Requests : Holds(p)' /\ job'[p] = k /\ p # q => Excused(k)'
              /\ pc'[q] \in {"stored", "deleting"} /\ Referenced(k)' => Spoiled(k)'
              /\ pc'[q] = "raised" /\ Referenced(k)' => Spoiled(k)' \/ Persisted(q)'
              /\ pc'[q] = "raised" /\ Persisted(q)' => Referenced(k)'
  <2>1. CASE k[1] = d
    <3>1. Excused(k)' /\ ~Referenced(k)'
      BY <1>6, <1>8, <2>1
    <3>2. ~Persisted(q)'
      BY <1>7, <1>11, <2>1, KeyParts DEF Persisted
    <3>3. QED
      BY <3>1, <3>2
  <2>2. CASE k[1] # d
    <3>1. \A p \in Requests : job'[p] = k => pc'[p] = pc[p] /\ job[p] = k
      BY <2>2
    <3>2. Holds(q) /\ job[q] = k /\ pc'[q] = pc[q]
      BY <1>11, <3>1 DEF Holds
    <3>3. Persisted(q)' = Persisted(q)
      BY <1>2, <1>11, <2>2, <3>2, KeyParts DEF Persisted
    <3>4. k \notin blobs' => Excused(k)'
      BY <1>6, <3>2 DEF Held
    <3>5. \A p \in Requests : Holds(p)' /\ job'[p] = k /\ p # q => Excused(k)'
      BY <1>6, <3>1, <3>2 DEF Held, Holds
    <3>6. QED
      BY <1>9, <2>2, <3>2, <3>3, <3>4, <3>5 DEF Held, Spoiled
  <2>3. QED
    BY <2>1, <2>2
<1>12. Held'
  BY <1>11 DEF Held, Holds
<1>13. Missing'
  BY <1>10 DEF Missing, Spoiled
<1>14. QED
  BY <1>10, <1>12, <1>13

(* The cleanup job deletes only what a task names.                         *)
LEMMA SweepKeeps ==
  ASSUME IInv, Sweep
  PROVE  IInv'
<1> USE StoreConstants DEF StoreConstants, IInv, RowInv, BlobInv, rowVars, lostVars
<1>1. UNCHANGED <<pipeline, status, content, writer, minted, pc, job, leaked, crossed, overtaken>>
  BY DEF Sweep, SweepStart, SweepDelete, SweepCommit, SweepCrash
<1>2. blobs' \subseteq blobs /\ (\A k \in blobs : k \in blobs' \/ k \in sweep)
  BY DEF Sweep, SweepStart, SweepDelete, SweepCommit, SweepCrash
<1>3. \A k \in Keys : /\ Spoiled(k) => Spoiled(k)'
                      /\ k \notin swept => task'[k] = task[k]
  BY <1>1 DEF Sweep, SweepStart, SweepDelete, SweepCommit, SweepCrash, Spoiled
<1>4. TypeOK'
  BY DEF TypeOK, Sweep, SweepStart, SweepDelete, SweepCommit, SweepCrash
<1>5. Working' /\ Chain' /\ Underway' /\ Exclusive'
  BY <1>1 DEF Working, Chain, Underway, Exclusive, Writing
<1>6. \A k \in sweep' : task'[k] = "PENDING"
  BY DEF Sweep, SweepStart, SweepDelete, SweepCommit, SweepCrash, TypeOK
<1>7. \A k \in Keys : Excused(k) => Excused(k)'
  BY <1>1, <1>3 DEF Excused, Dead, Writing
<1>8. \A k \in Keys : Referenced(k)' = Referenced(k)
  BY <1>1 DEF Referenced
<1>9. \A q \in Requests : Persisted(q)' = Persisted(q)
  BY <1>1 DEF Persisted
<1>10. \A k \in Keys : k \in blobs /\ k \notin blobs' => Spoiled(k)
  BY <1>2 DEF Spoiled
<1>11. \A k \in Keys : k \in blobs /\ k \notin blobs' => Excused(k)'
  BY <1>3, <1>10 DEF Excused
<1>12. Held'
  BY <1>1, <1>3, <1>7, <1>8, <1>9, <1>11 DEF Held, Holds
<1>13. Missing'
  BY <1>3, <1>8, <1>10 DEF Missing
<1>14. Answerable'
  <2>1. \A k \in Keys : task[k] = "PENDING" /\ k \notin swept =>
          k \notin blobs' \/ (task'[k] = "PENDING" /\ k \notin swept')
    <3>1. CASE SweepStart \/ SweepCrash
      BY <3>1 DEF SweepStart, SweepCrash
    <3>2. CASE SweepCommit
      BY <3>2 DEF SweepCommit
    <3>3. ASSUME NEW j \in Keys, SweepDelete(j)
          PROVE  \A k \in Keys : task[k] = "PENDING" /\ k \notin swept =>
                   k \notin blobs' \/ (task'[k] = "PENDING" /\ k \notin swept')
      <4>1. blobs' = blobs \ {j} /\ swept' = swept \cup {j} /\ task' = task
        BY <3>3 DEF SweepDelete
      <4>2. QED
        BY <4>1
    <3>4. QED
      BY <3>1, <3>2, <3>3 DEF Sweep
  <2>2. blobs \subseteq Keys
    BY DEF TypeOK
  <2>3. QED
    BY <1>1, <1>2, <1>8, <2>1, <2>2 DEF Answerable
<1>15. Alone'
  BY <1>1, <1>2 DEF Alone
<1>16. QED
  BY <1>4, <1>5, <1>6, <1>12, <1>13, <1>14, <1>15

(***************************************************************************)
(* Every step                                                              *)
(***************************************************************************)

(* A step that only moves one request keeps every other answer for a blob. *)
LEMMA MoveKeepsAnswers ==
  ASSUME NEW r \in Requests, IInv, UNCHANGED <<content, swept>>,
         \A q \in Requests : q # r => pc'[q] = pc[q] /\ job'[q] = job[q],
         \A k \in Keys : k # job[r] => task'[k] = task[k],
         leaked \subseteq leaked', overtaken \subseteq overtaken',
         blobs' \subseteq blobs \cup leaked',
         task[job[r]] = "PENDING" => task'[job[r]] = "PENDING",
         \/ job[r] \in leaked' \cup overtaken' \/ job[r] \notin blobs' \/ Referenced(job[r])
         \/ pc[r] \notin Answering
         \/ job'[r] = job[r] /\ pc'[r] \in Answering
         \/ task'[job[r]] = "PENDING" /\ job[r] \notin swept
  PROVE  Answerable'
<1> USE DEF IInv, BlobInv
<1>1. \A k \in Keys : Referenced(k)' = Referenced(k)
  BY DEF Referenced
<1>2. blobs \subseteq Keys
  BY DEF RowInv, TypeOK
<1>3. ASSUME NEW k \in blobs' \ (leaked' \cup overtaken')
      PROVE  \/ Referenced(k)'
             \/ task'[k] = "PENDING" /\ k \notin swept'
             \/ \E q \in Requests : job'[q] = k /\ pc'[q] \in Answering
  <2>1. k \in blobs \ (leaked \cup overtaken) /\ k \in Keys
    BY <1>2, <1>3
  <2>2. CASE Referenced(k)
    BY <1>1, <2>1, <2>2
  <2>3. CASE task[k] = "PENDING" /\ k \notin swept
    BY <2>1, <2>3
  <2>4. ASSUME NEW q \in Requests, q # r, job[q] = k,
               pc[q] \in Answering
        PROVE  job'[q] = k /\ pc'[q] \in Answering
    BY <2>4
  <2>5. CASE job[r] = k /\ pc[r] \in Answering
    BY <1>1, <1>3, <2>1, <2>5
  <2>6. QED
    BY <2>1, <2>2, <2>3, <2>4, <2>5 DEF Answerable
<1>4. QED
  BY <1>3 DEF Answerable

(* Every step of a request that touches no row.                            *)
Moving(r) ==
  \/ Look(r) \/ PutConflict(r) \/ PutFails(r)
  \/ OutcomeUnknown(r) \/ OutcomePersisted(r) \/ OutcomeAbsent(r)
  \/ DeleteBlob(r) \/ DeleteBlobFails(r) \/ Queue(r) \/ Crash(r)
  \/ CommitRaises(r) /\ UNCHANGED <<status, content, writer>>

LEMMA MoveKeeps ==
  ASSUME NEW r \in Requests, IInv, Moving(r)
  PROVE  IInv'
<1> USE DEF Moving, Queue, lostVars
<1>0. RowInv
  BY DEF IInv
<1>1. /\ UNCHANGED <<pipeline, status, content, writer, minted, sweep, swept, crossed>>
      /\ pc[r] # "idle"
  BY DEF Look, PutConflict, PutFails, OutcomeUnknown, OutcomePersisted, OutcomeAbsent, DeleteBlob,
         DeleteBlobFails, QueueRead, QueueInsert, QueueRenew, QueueReopen, QueueFails, Queueing, Crash,
         CommitRaises, End, Goto, rowVars, sweepVars
<1>2. job[r] \in Keys
  BY <1>0, <1>1 DEF RowInv, Working
<1>3. PICK to \in Steps :
        /\ pc' = [pc EXCEPT ![r] = to]
        /\ \/ to = "idle" /\ job' = [job EXCEPT ![r] = None]
           \/ to \in {"looked", "raised", "deleting"} \cup Queueing /\ job' = job
        /\ to = "looked" => Look(r) /\ pc[r] = "read" /\ job[r] \notin blobs
        /\ to = "raised" => pc[r] = "stored"
        /\ to = "deleting" => pc[r] = "raised" /\ ~Persisted(r)
  <2>1. CASE QueueRead(r)
    <3>1. task[job[r]] \in {"NONE", "PENDING", "DONE"}
      BY <1>0, <1>2 DEF RowInv, TypeOK
    <3>2. QueueStep[task[job[r]]] \in {"inserting", "renewing", "reopening"}
      BY <3>1 DEF QueueStep
    <3>3. pc' = [pc EXCEPT ![r] = QueueStep[task[job[r]]]] /\ job' = job
      BY <2>1 DEF QueueRead, Goto
    <3>4. QED
      BY <3>2, <3>3 DEF Steps, Queueing
  <2>2. CASE ~QueueRead(r)
    BY <2>2 DEF Look, PutConflict, PutFails, OutcomeUnknown, OutcomePersisted, OutcomeAbsent,
                DeleteBlob, DeleteBlobFails, QueueInsert, QueueRenew, QueueReopen, QueueFails, Crash,
                CommitRaises, End, Goto, Steps, Queueing
  <2>3. QED
    BY <2>1, <2>2
<1>4. /\ task' \in {task, [task EXCEPT ![job[r]] = "PENDING"]}
      /\ leaked' \in {leaked, leaked \cup {job[r]}, leaked \cup ({job[r]} \cap blobs),
                     leaked \cup ({job[r]} \ blobs)}
      /\ overtaken' \in {overtaken, overtaken \cup ({job[r]} \cap blobs)}
      /\ blobs' \in {blobs, blobs \cup {job[r]}, blobs \ {job[r]}}
      /\ crashes' \in 0 .. MaxCrashes
  BY <1>0, StoreConstants
     DEF StoreConstants, RowInv, TypeOK, Look, PutConflict, PutFails, OutcomeUnknown, OutcomePersisted,
         OutcomeAbsent, DeleteBlob, DeleteBlobFails, QueueRead, QueueInsert, QueueRenew, QueueReopen,
         QueueFails, Crash, CommitRaises
<1>5. /\ blobs' \subseteq blobs \cup leaked'
      /\ \A k \in blobs : k \in blobs' \/ (k = job[r] /\ pc[r] = "deleting")
      /\ blobs' \subseteq blobs \/ (pc[r] = "looked" /\ blobs' = blobs \cup {job[r]})
  <2>1. CASE PutFails(r)
    <3>1. \/ blobs' = blobs
          \/ /\ pc[r] = "looked" /\ blobs' = blobs \cup {job[r]}
             /\ leaked' = leaked \cup ({job[r]} \ blobs)
      BY <2>1 DEF PutFails, End, Goto
    <3>2. QED
      BY <3>1
  <2>2. CASE DeleteBlob(r) \/ DeleteBlobFails(r)
    <3>1. pc[r] = "deleting" /\ blobs' \in {blobs, blobs \ {job[r]}}
      BY <2>2 DEF DeleteBlob, DeleteBlobFails, End, Goto
    <3>2. QED
      BY <3>1
  <2>3. CASE ~(PutFails(r) \/ DeleteBlob(r) \/ DeleteBlobFails(r))
    <3>1. blobs' = blobs
      BY <2>3 DEF Look, PutConflict, OutcomeUnknown, OutcomePersisted, OutcomeAbsent, QueueRead,
                  QueueInsert, QueueRenew, QueueReopen, QueueFails, Crash, CommitRaises
    <3>2. QED
      BY <3>1
  <2>4. QED
    BY <2>1, <2>2, <2>3
<1>6. TypeOK'
  BY <1>0, <1>1, <1>2, <1>3, <1>4, StoreConstants DEF StoreConstants, RowInv, TypeOK
<1>7. Working' /\ Chain' /\ Underway' /\ Exclusive'
  <2>1. to \in {"read", "looked", "stored"} => Writing(r)
    BY <1>3 DEF Writing, Queueing
  <2>2. QED
    BY <1>0, <1>1, <1>3, <2>1, MoveKeepsRows DEF rowVars
<1>8. \A k \in Keys : Spoiled(k) => Spoiled(k)'
  BY <1>0, <1>1, <1>2, <1>4 DEF RowInv, TypeOK, Spoiled
<1>9. Held' /\ Missing'
  BY <1>1, <1>3, <1>5, <1>8, MoveKeepsHeld DEF rowVars
<1>10. \A k \in sweep' : task'[k] = "PENDING"
  BY <1>0, <1>1, <1>2, <1>4 DEF IInv, BlobInv, RowInv, TypeOK
<1>11. /\ \A q \in Requests : q # r => pc'[q] = pc[q] /\ job'[q] = job[q]
       /\ pc'[r] = to
       /\ \A k \in Keys : k # job[r] => task'[k] = task[k]
       /\ task[job[r]] = "PENDING" => task'[job[r]] = "PENDING"
       /\ leaked \subseteq leaked' /\ overtaken \subseteq overtaken'
  BY <1>0, <1>2, <1>3, <1>4 DEF RowInv, TypeOK
<1>12. pc[r] = "raised" /\ Persisted(r) => Referenced(job[r])
  BY <1>2 DEF IInv, BlobInv, Held
<1>13. \/ job[r] \in leaked' \cup overtaken' \/ job[r] \notin blobs' \/ Referenced(job[r])
       \/ pc[r] \notin Answering
       \/ job' = job /\ to \in Answering
       \/ task'[job[r]] = "PENDING" /\ job[r] \notin swept
  <2>1. CASE Look(r) \/ PutConflict(r) \/ PutFails(r)
    BY <2>1 DEF Look, PutConflict, PutFails, End, Goto, Answering
  <2>2. CASE OutcomeUnknown(r) \/ QueueFails(r) \/ DeleteBlob(r) \/ Crash(r)
    BY <2>2 DEF OutcomeUnknown, QueueFails, DeleteBlob, Crash
  <2>3. CASE OutcomePersisted(r)
    BY <1>12, <2>3 DEF OutcomePersisted, End, Goto
  <2>4. CASE OutcomeAbsent(r) \/ DeleteBlobFails(r) \/ CommitRaises(r)
    BY <1>3, <1>11, <2>4 DEF OutcomeAbsent, DeleteBlobFails, CommitRaises, Goto, IInv, RowInv, TypeOK,
                             Answering
  <2>5. CASE QueueRead(r)
    <3>1. task[job[r]] \in {"NONE", "PENDING", "DONE"} /\ job' = job
      BY <1>0, <1>2, <2>5 DEF QueueRead, RowInv, TypeOK
    <3>2. pc'[r] \in Answering
      BY <1>0, <2>5, <3>1 DEF QueueRead, QueueStep, Goto, RowInv, TypeOK, Answering
    <3>3. QED
      BY <1>11, <3>1, <3>2
  <2>6. CASE QueueInsert(r) \/ QueueReopen(r)
    <3>1. task' = [task EXCEPT ![job[r]] = "PENDING"]
      BY <2>6 DEF QueueInsert, QueueReopen
    <3>2. job[r] \notin swept
      <4>1. CASE QueueInsert(r)
        BY <1>0, <4>1 DEF QueueInsert, IInv, BlobInv, RowInv, TypeOK
      <4>2. CASE QueueReopen(r)
        BY <1>0, <4>2 DEF QueueReopen, RowInv, TypeOK
      <4>3. QED
        BY <2>6, <4>1, <4>2
    <3>3. QED
      BY <1>0, <1>2, <3>1, <3>2 DEF RowInv, TypeOK
  <2>7. CASE QueueRenew(r)
    <3>1. job[r] \notin swept /\ task' = task
      BY <1>0, <2>7 DEF QueueRenew, RowInv, TypeOK
    <3>2. CASE task[job[r]] # "PENDING"
      <4>1. blobs' = blobs /\ overtaken' = overtaken \cup ({job[r]} \cap blobs)
        BY <2>7, <3>2 DEF QueueRenew
      <4>2. QED
        BY <4>1
    <3>3. CASE task[job[r]] = "PENDING"
      BY <3>1, <3>3
    <3>4. QED
      BY <3>2, <3>3
  <2>8. QED
    BY <2>1, <2>2, <2>3, <2>4, <2>5, <2>6, <2>7
<1>14. Answerable'
  BY <1>1, <1>5, <1>11, <1>13, MoveKeepsAnswers
<1>15. Alone'
  <2>1. ASSUME ~pipeline, NEW q \in Requests, pc'[q] = "looked" PROVE job[q] \notin blobs' \ blobs
    <3>1. CASE blobs' \subseteq blobs
      BY <3>1
    <3>2. CASE pc[r] = "looked" /\ blobs' = blobs \cup {job[r]}
      <4>1. q # r /\ pc[q] = "looked"
        BY <1>3, <1>11, <2>1, <3>2
      <4>2. job[q] # job[r]
        BY <1>0, <2>1, <3>2, <4>1 DEF RowInv, Exclusive, Writing
      <4>3. QED
        BY <3>2, <4>2
    <3>3. QED
      BY <1>5, <3>1, <3>2
  <2>2. ASSUME NEW q \in Requests, pc'[q] = "looked"
        PROVE  job'[q] = job[q] /\ (pc[q] = "looked" \/ job[q] \notin blobs)
    BY <1>3, <1>11, <2>2
  <2>3. QED
    BY <1>1, <2>1, <2>2, AloneStays
<1>16. QED
  BY <1>6, <1>7, <1>9, <1>10, <1>14, <1>15 DEF IInv, RowInv, BlobInv

(* A commit, and one that raises although the database took it.            *)
LEMMA CommitKeeps ==
  ASSUME NEW r \in Requests, IInv, Commit(r) \/ (CommitRaises(r) /\ Write(r))
  PROVE  IInv'
<1>1. RowInv /\ Write(r) /\ pc[r] = "stored"
      /\ UNCHANGED <<pipeline, minted, blobs, task, sweepVars, lostVars, crashes>>
  BY DEF IInv, Commit, CommitRaises, End, Goto
<1>2. PICK to \in {"idle", "raised"} :
        /\ pc' = [pc EXCEPT ![r] = to]
        /\ \/ to = "idle" /\ job' = [job EXCEPT ![r] = None]
           \/ to = "raised" /\ job' = job
  BY DEF Commit, CommitRaises, End, Goto
<1>3. Working' /\ Chain' /\ Underway' /\ Exclusive'
  BY <1>1, <1>2, WriteKeepsRows
<1>4. BlobInv'
  BY <1>1, <1>2, WriteKeepsBlobs
<1>5. /\ status' \in [Documents -> [Versions -> Statuses \cup {"NONE"}]]
      /\ content' \in [Documents -> [Versions -> Digests \cup {None}]]
      /\ writer' \in [Documents -> [Versions -> Requests \cup {None}]]
  BY <1>1, WriteEffect DEF Writing
<1>6. TypeOK'
  BY <1>1, <1>2, <1>5 DEF RowInv, TypeOK, Steps, sweepVars, lostVars
<1>7. QED
  BY <1>3, <1>4, <1>6 DEF IInv, RowInv

(* A deletion, whether its commit is confirmed or not.                     *)
LEMMA DeleteKeeps ==
  ASSUME NEW d \in Documents, NEW v \in Versions, IInv,
         (\E r \in Requests : DeleteRow(r, d, v)) \/ DeleteRowRaises(d, v)
  PROVE  IInv'
<1> DEFINE k == <<d, v, content[d][v]>>
<1>1. /\ RowInv /\ Deletable(d, v) /\ Row(d, v, None, "NONE", None)
      /\ UNCHANGED <<pipeline, minted, blobs, task, sweep, swept, crossed, overtaken, crashes>>
  BY DEF IInv, DeleteRow, DeleteRowRaises, sweepVars, lostVars
<1>2. k \in Keys
  BY <1>1, DeletableIsSole
<1>3. \/ UNCHANGED <<pc, job>> /\ leaked' = leaked \cup {k}
      \/ /\ leaked' = leaked
         /\ \E r \in Requests : /\ pc[r] = "idle"
                                /\ pc' = [pc EXCEPT ![r] = "deleting"]
                                /\ job' = [job EXCEPT ![r] = k]
  BY DEF DeleteRow, DeleteRowRaises, Goto, lostVars
<1> HIDE DEF k
<1>4. \A q \in Requests :
        \/ pc'[q] = pc[q] /\ job'[q] = job[q]
        \/ pc[q] = "idle" /\ pc'[q] = "deleting" /\ job'[q] = k
  BY <1>1, <1>3 DEF RowInv, TypeOK
<1>5. TypeOK'
  <2>1. /\ status' \in [Documents -> [Versions -> Statuses \cup {"NONE"}]]
        /\ content' \in [Documents -> [Versions -> Digests \cup {None}]]
        /\ writer' \in [Documents -> [Versions -> Requests \cup {None}]]
    BY <1>1 DEF RowInv, TypeOK, Row
  <2>2. /\ pc' \in [Requests -> Steps] /\ job' \in [Requests -> Keys \cup {None}]
        /\ leaked' \subseteq Keys
    BY <1>1, <1>2, <1>3 DEF RowInv, TypeOK, Steps
  <2>3. QED
    BY <1>1, <2>1, <2>2 DEF RowInv, TypeOK
<1>6. Working'
  BY <1>1, <1>2, <1>4 DEF RowInv, Working
<1>7. \A q \in Requests : Writing(q)' => Writing(q) /\ job'[q] = job[q]
  BY <1>4 DEF Writing
<1>8. Chain' /\ Underway' /\ Exclusive'
  BY <1>1, <1>6, <1>7, DeleteKeepsRows
<1>9. /\ Held' /\ Missing'
      /\ \A j \in Keys : Referenced(j)' <=> Referenced(j) /\ j # k
  BY <1>1, <1>4, DeleteKeepsHeld DEF k
<1>10. Answerable'
  <2>1. k \in leaked' \/ \E r \in Requests : job'[r] = k /\ pc'[r] = "deleting"
    BY <1>1, <1>3 DEF RowInv, TypeOK
  <2>2. blobs \subseteq Keys
    BY <1>1 DEF RowInv, TypeOK
  <2>3. ASSUME NEW j \in blobs' \ (leaked' \cup overtaken'), j # k
        PROVE  \/ Referenced(j)'
               \/ task'[j] = "PENDING" /\ j \notin swept'
               \/ \E q \in Requests : job'[q] = j /\ pc'[q] \in Answering
    <3>1. j \in blobs \ (leaked \cup overtaken) /\ j \in Keys
      BY <1>1, <1>3, <2>2, <2>3
    <3>2. \A q \in Requests : pc[q] # "idle" => pc'[q] = pc[q] /\ job'[q] = job[q]
      BY <1>4
    <3>3. QED
      BY <1>1, <1>9, <2>3, <3>1, <3>2 DEF IInv, BlobInv, Answerable, Answering
  <2>4. QED
    BY <2>1, <2>3 DEF Answerable, Answering
<1>11. Alone'
  BY <1>1, <1>4 DEF IInv, BlobInv, Alone
<1>12. QED
  BY <1>1, <1>5, <1>6, <1>8, <1>9, <1>10, <1>11 DEF IInv, RowInv, BlobInv

(* Every step keeps the invariant.                                         *)
LEMMA StepKeeps == IInv /\ [Next]_vars => IInv'
<1> SUFFICES ASSUME IInv, [Next]_vars PROVE IInv'
  OBVIOUS
<1>0. RowInv
  BY DEF IInv
<1>1. ASSUME NEW r \in Requests, Request(r) PROVE IInv'
  <2>1. ASSUME NEW d \in Documents, NEW c \in Digests, StartUpload(r, d, c) PROVE IInv'
    <3>1. RowInv'
      BY <1>0, <2>1, StartUploadKeepsRows
    <3>2. 1 \in Versions /\ ~Dead(d)
      BY <2>1, StoreConstants DEF StoreConstants, Versions, Dead, StartUpload
    <3>3. /\ pc[r] = "idle" /\ pc' = [pc EXCEPT ![r] = "read"]
          /\ job' = [job EXCEPT ![r] = <<d, 1, c>>] /\ minted \subseteq minted'
          /\ UNCHANGED <<pipeline, status, content, writer, blobs, task, sweepVars, lostVars>>
      BY <2>1 DEF StartUpload, Goto
    <3>4. BlobInv'
      BY <3>1, <3>2, <3>3, StartKeepsBlobs
    <3>5. QED
      BY <3>1, <3>4 DEF IInv
  <2>2. ASSUME NEW d \in Documents, NEW v \in Versions, NEW c \in Digests,
               StartSupersede(r, d, v, c)
        PROVE  IInv'
    <3>1. RowInv'
      BY <1>0, <2>2, StartSupersedeKeepsRows
    <3>2. 1 \in Versions /\ v + 1 \in Versions /\ (v = 1 \/ 1 < v)
      BY <2>2, StoreConstants DEF StoreConstants, Versions, StartSupersede
    <3>3. ~Dead(d)
      BY <1>0, <2>2, <3>2 DEF Dead, StartSupersede, RowInv, Chain
    <3>4. /\ pc[r] = "idle" /\ pc' = [pc EXCEPT ![r] = "read"]
          /\ job' = [job EXCEPT ![r] = <<d, v + 1, c>>] /\ minted \subseteq minted'
          /\ UNCHANGED <<pipeline, status, content, writer, blobs, task, sweepVars, lostVars>>
      BY <2>2 DEF StartSupersede, Goto, rowVars
    <3>5. BlobInv'
      BY <3>1, <3>2, <3>3, <3>4, StartKeepsBlobs
    <3>6. QED
      BY <3>1, <3>5 DEF IInv
  <2>3. CASE Put(r)
    <3>1. BlobInv'
      BY <2>3, PutKeepsBlobs
    <3>2. job[r] \in Keys /\ pc[r] = "looked" /\ pc' = [pc EXCEPT ![r] = "stored"]
      BY <1>0, <2>3 DEF Put, Goto, RowInv, Working
    <3>3. TypeOK'
      BY <1>0, <2>3, <3>2 DEF Put, RowInv, TypeOK, Steps, rowVars, sweepVars
    <3>4. UNCHANGED <<pipeline, rowVars>> /\ job' = job /\ "stored" \in Steps /\ Writing(r)
      BY <2>3, <3>2 DEF Put, Steps, Writing
    <3>5. Working' /\ Chain' /\ Underway' /\ Exclusive'
      BY <1>0, <3>2, <3>4, MoveKeepsRows
    <3>6. QED
      BY <3>1, <3>3, <3>5 DEF IInv, RowInv
  <2>4. CASE CommitRaises(r)
    <3>1. Write(r) \/ UNCHANGED <<status, content, writer>>
      BY <2>4 DEF CommitRaises
    <3>2. QED
      BY <2>4, <3>1, CommitKeeps, MoveKeeps DEF Moving
  <2>5. ASSUME NEW d \in Documents, NEW v \in Versions, DeleteRow(r, d, v) PROVE IInv'
    BY <2>5, DeleteKeeps
  <2>6. CASE Commit(r)
    BY <2>6, CommitKeeps
  <2>7. CASE \/ Look(r) \/ PutConflict(r) \/ PutFails(r) \/ OutcomeUnknown(r) \/ OutcomePersisted(r)
            \/ OutcomeAbsent(r) \/ DeleteBlob(r) \/ DeleteBlobFails(r) \/ Queue(r) \/ Crash(r)
    BY <2>7, MoveKeeps DEF Moving
  <2>8. QED
    BY <1>1, <2>1, <2>2, <2>3, <2>4, <2>5, <2>6, <2>7 DEF Request
<1>2. ASSUME NEW d \in Documents, NEW v \in Versions, OneRow(d, v) PROVE IInv'
  <2>1. CASE Publish(d, v) \/ Revoke(d, v)
    BY <1>0, <2>1, OneRowKeepsRows, OneRowKeepsBlobs DEF IInv
  <2>2. CASE DeleteRowRaises(d, v)
    BY <2>2, DeleteKeeps
  <2>3. QED
    BY <1>2, <2>1, <2>2 DEF OneRow
<1>3. CASE Sweep
  BY <1>3, SweepKeeps
<1>4. CASE UNCHANGED vars
  <2>1. UNCHANGED <<pipeline, status, content, writer, minted, blobs, task, pc, job, sweep, swept,
                    leaked, crossed, overtaken, crashes>>
    BY <1>4 DEF vars, rowVars, sweepVars, lostVars
  <2>2. TypeOK' /\ Working' /\ Chain'
    BY <1>0, <2>1 DEF RowInv, TypeOK, Working, Chain
  <2>3. Underway' /\ Exclusive'
    BY <1>0, <2>1 DEF RowInv, Underway, Exclusive, Writing
  <2>4. Held'
    BY <2>1 DEF IInv, BlobInv, Held, Holds, Excused, Spoiled, Dead, Writing, Referenced, Persisted
  <2>5. Missing' /\ Alone' /\ Answerable' /\ \A k \in sweep' : task'[k] = "PENDING"
    BY <2>1 DEF IInv, BlobInv, Missing, Alone, Spoiled, Answerable, Referenced
  <2>6. QED
    BY <2>2, <2>3, <2>4, <2>5 DEF IInv, RowInv, BlobInv
<1>5. QED
  BY <1>1, <1>2, <1>3, <1>4 DEF Next

(* The invariant holds in every reachable state.                           *)
THEOREM InvariantHolds == Spec => []IInv
BY InitEstablishes, StepKeeps, PTL DEF Spec

(* Every variable keeps its type.                                          *)
THEOREM TypeCorrect == Spec => []TypeOK
<1>1. IInv => TypeOK
  BY DEF IInv, RowInv
<1>2. QED
  BY <1>1, InvariantHolds, PTL

(* At most one version of a document is active, whatever supersedes,       *)
(* publishes or revokes it and whether or not the old version was locked.  *)
THEOREM OneIsActive == Spec => []OneActive
<1>1. IInv => OneActive
  <2>1. SUFFICES ASSUME IInv, NEW d \in Documents, NEW v \in Versions, NEW w \in Versions,
                        status[d][v] = "ACTIVE", status[d][w] = "ACTIVE", v # w
                 PROVE  FALSE
    BY DEF OneActive
  <2>2. v < w \/ w < v
    BY <2>1 DEF Versions
  <2>3. QED
    BY <2>1, <2>2 DEF IInv, RowInv, Chain
<1>2. QED
  BY <1>1, InvariantHolds, PTL

(* A spoiled key is lost: under the lock nobody crosses.                   *)
LEMMA SpoiledIsLost ==
  ASSUME IInv, NEW k \in Keys, Spoiled(k)
  PROVE  Lost(k)
BY DEF IInv, BlobInv, RowInv, TypeOK, Alone, Spoiled, Lost

(* A durable row misses its blob only after a cleanup task named it or,    *)
(* when replacements take no lock, after two of them crossed on its key.   *)
THEOREM MissingIsQueued == Spec => []MissingWasQueued
<1>1. IInv => MissingWasQueued
  BY SpoiledIsLost DEF IInv, BlobInv, Missing, MissingWasQueued
<1>2. QED
  BY <1>1, InvariantHolds, PTL

(* No path of failures loses track of a blob; except those of a death, of  *)
(* an unknown outcome and of a task that ended while it was renewed.       *)
THEOREM BlobsAreAccounted == Spec => []BlobsAccounted
<1>1. IInv => BlobsAccounted
  BY DEF IInv, BlobInv, Answerable, BlobsAccounted
<1>2. QED
  BY <1>1, InvariantHolds, PTL

(* A write under the lock finds its old version active, so no step touches *)
(* a document that was revoked.                                            *)
LEMMA RevocationStepHolds == IInv /\ [Next]_vars => RevocationStep
<1> SUFFICES ASSUME IInv, [Next]_vars, NEW d \in Documents, NEW v \in Versions,
                    ~pipeline, status[d][v] = "REVOKED"
             PROVE  /\ status'[d][v] = "REVOKED"
                    /\ \A w \in Versions : status'[d][w] # "ACTIVE"
  BY DEF RevocationStep
<1>0. RowInv
  BY DEF IInv
<1>1. d \notin Personal /\ \A w \in Versions : w # v => status[d][w] \in {"NONE", "SUPERSEDED"}
  <2>1. d \notin Personal
    BY <1>0 DEF RowInv, Chain
  <2>2. ASSUME NEW w \in Versions, w # v PROVE status[d][w] \in {"NONE", "SUPERSEDED"}
    <3>1. w < v \/ v < w
      BY <2>2 DEF Versions
    <3>2. QED
      BY <1>0, <2>2, <3>1 DEF RowInv, Chain
  <2>3. QED
    BY <2>1, <2>2
<1>2. \A w \in Versions : status[d][w] \notin {"ACTIVE", "DRAFT"}
  BY <1>1
<1>3. CASE status' = status
  BY <1>2, <1>3
<1>4. ASSUME NEW e \in Documents, NEW x \in Versions, status[e][x] \in {"ACTIVE", "DRAFT"} \/ e \in Personal,
             NEW s, status' = [status EXCEPT ![e][x] = s]
      PROVE  status'[d] = status[d]
  BY <1>0, <1>1, <1>2, <1>4 DEF RowInv, TypeOK
<1>5. CASE \E e \in Documents, x \in Versions : OneRow(e, x) \/ (\E r \in Requests : DeleteRow(r, e, x))
  <2>1. PICK e \in Documents, x \in Versions : OneRow(e, x) \/ (\E r \in Requests : DeleteRow(r, e, x))
    BY <1>5
  <2>2. status[e][x] \in {"ACTIVE", "DRAFT"} \/ e \in Personal
    BY <2>1 DEF OneRow, Publish, Revoke, DeleteRowRaises, DeleteRow, Deletable
  <2>3. PICK s \in {"ACTIVE", "REVOKED", "NONE"} : status' = [status EXCEPT ![e][x] = s]
    BY <2>1 DEF OneRow, Publish, Revoke, DeleteRowRaises, DeleteRow, Row
  <2>4. QED
    BY <1>2, <1>4, <2>2, <2>3
<1>6. ASSUME NEW r \in Requests, pc[r] = "stored", Write(r) PROVE status'[d] = status[d]
  <2>1. Writing(r)
    BY <1>6 DEF Writing
  <2>2. /\ job[r][1] \in Documents /\ job[r][2] \in Versions
        /\ \A w \in Versions : w > job[r][2] => status[job[r][1]][w] = "NONE"
        /\ status[job[r][1]][job[r][2]] = "NONE"
    BY <1>0, <1>6, <2>1, WriteEffect
  <2>3. job[r][1] # d
    <3>1. SUFFICES ASSUME job[r][1] = d PROVE FALSE
      OBVIOUS
    <3>2. CASE job[r][2] = 1
      <4>1. v = 1 \/ v > 1
        BY DEF Versions
      <4>2. status[d][v] = "NONE"
        BY <2>2, <3>1, <3>2, <4>1
      <4>3. QED
        BY <4>2
    <3>3. CASE job[r][2] # 1
      <4>1. job[r][2] > 1 /\ job[r][2] - 1 \in Versions
        <5>1. \A x \in Versions : x # 1 => x > 1 /\ x - 1 \in Versions
          BY StoreConstants DEF StoreConstants, Versions
        <5>2. QED
          BY <2>2, <3>3, <5>1
      <4>2. status[d][job[r][2] - 1] = "ACTIVE"
        BY <1>0, <2>1, <3>1, <4>1 DEF RowInv, Exclusive
      <4>3. QED
        BY <1>2, <4>1, <4>2
    <3>4. QED
      BY <3>2, <3>3
  <2>4. QED
    BY <1>0, <1>6, <2>2, <2>3 DEF Write, RowInv, TypeOK
<1>7. \/ status' = status
      \/ \E e \in Documents, x \in Versions : OneRow(e, x) \/ (\E r \in Requests : DeleteRow(r, e, x))
      \/ \E r \in Requests : pc[r] = "stored" /\ Write(r)
  <2>1. CASE Sweep \/ UNCHANGED vars
    BY <2>1 DEF Sweep, SweepStart, SweepDelete, SweepCommit, SweepCrash, vars, rowVars
  <2>2. ASSUME NEW r \in Requests, Request(r)
        PROVE  \/ status' = status
               \/ \E e \in Documents, x \in Versions : DeleteRow(r, e, x)
               \/ pc[r] = "stored" /\ Write(r)
    BY <2>2 DEF Request, StartUpload, StartSupersede, Look, Put, PutConflict, PutFails, Commit, CommitRaises,
                OutcomeUnknown, OutcomePersisted, OutcomeAbsent, DeleteBlob, DeleteBlobFails, Queue, QueueRead, QueueInsert,
              QueueRenew, QueueReopen, QueueFails, Queueing, Crash, End, Goto, rowVars
  <2>3. QED
    BY <2>1, <2>2 DEF Next
<1>8. QED
  BY <1>2, <1>3, <1>5, <1>6, <1>7

(* With the locking variant, no replacement overwrites a revocation and no *)
(* version of the document becomes active after it.                        *)
THEOREM RevocationHolds == Spec => RevocationStands
BY InvariantHolds, RevocationStepHolds, PTL DEF Spec, RevocationStands
--------------------------------------------------------------------------------
(***************************************************************************)
(* The prompt that is built meanwhile.  A listed document either keeps its *)
(* row, in a state in which nobody deletes it, or it was its owner's and   *)
(* is gone for good (Listed).                                              *)
(***************************************************************************)
LEMMA ContextStepsStore == [ContextNext]_<<vars, readerVars>> => [Next]_vars
BY DEF ContextNext, ReaderNext

(* The knowledge plane behaves as KnowledgeStore says while prompts read   *)
(* it: build_knowledge_context writes nothing there.                       *)
THEOREM ContextKeepsStore == ContextSpec => Spec
BY ContextStepsStore, PTL DEF ContextSpec, Spec

(* Which steps change a row.                                               *)
LEMMA RowSteps ==
  ASSUME [Next]_vars
  PROVE  \/ UNCHANGED <<status, content, writer>>
         \/ \E d \in Documents, v \in Versions : Publish(d, v) \/ Revoke(d, v)
         \/ \E d \in Documents, v \in Versions : Deletable(d, v) /\ Row(d, v, None, "NONE", None)
         \/ \E r \in Requests : pc[r] = "stored" /\ Write(r)
<1>1. CASE Sweep \/ UNCHANGED vars
  BY <1>1 DEF Sweep, SweepStart, SweepDelete, SweepCommit, SweepCrash, vars, rowVars
<1>2. ASSUME NEW d \in Documents, NEW v \in Versions, OneRow(d, v)
      PROVE  Publish(d, v) \/ Revoke(d, v) \/ (Deletable(d, v) /\ Row(d, v, None, "NONE", None))
  BY <1>2 DEF OneRow, DeleteRowRaises
<1>3. ASSUME NEW r \in Requests, Request(r)
      PROVE  \/ UNCHANGED <<status, content, writer>>
             \/ \E d \in Documents, v \in Versions : Deletable(d, v) /\ Row(d, v, None, "NONE", None)
             \/ pc[r] = "stored" /\ Write(r)
  BY <1>3 DEF Request, StartUpload, StartSupersede, Look, Put, PutConflict, PutFails, Commit, CommitRaises,
              OutcomeUnknown, OutcomePersisted, OutcomeAbsent, DeleteBlob, DeleteBlobFails, Queue, QueueRead, QueueInsert,
              QueueRenew, QueueReopen, QueueFails, Queueing, DeleteRow, Crash, End, Goto, rowVars
<1> QED
  BY <1>1, <1>2, <1>3 DEF Next

(* Who is writing after a step was writing the same before it, or starts.  *)
LEMMA WritersStart ==
  ASSUME RowInv, [Next]_vars, NEW r \in Requests, Writing(r)'
  PROVE  \/ Writing(r) /\ job'[r] = job[r]
         \/ \E d \in Documents, c \in Digests : StartUpload(r, d, c)
         \/ \E d \in Documents, v \in Versions, c \in Digests : StartSupersede(r, d, v, c)
<1> USE DEF RowInv, TypeOK
<1>1. CASE Sweep \/ UNCHANGED vars
  BY <1>1 DEF Sweep, SweepStart, SweepDelete, SweepCommit, SweepCrash, vars, Writing
<1>2. ASSUME NEW d \in Documents, NEW v \in Versions, OneRow(d, v)
      PROVE  Writing(r) /\ job'[r] = job[r]
  BY <1>2 DEF OneRow, Publish, Revoke, DeleteRowRaises, Writing
<1>3. ASSUME NEW q \in Requests, Request(q), q # r
      PROVE  Writing(r) /\ job'[r] = job[r]
  <2>1. pc'[r] = pc[r] /\ job'[r] = job[r]
    BY <1>3 DEF Request, StartUpload, StartSupersede, Look, Put, PutConflict, PutFails, Commit, CommitRaises,
                OutcomeUnknown, OutcomePersisted, OutcomeAbsent, DeleteBlob, DeleteBlobFails, Queue, QueueRead, QueueInsert,
              QueueRenew, QueueReopen, QueueFails, Queueing, DeleteRow, Crash, End, Goto
  <2> QED
    BY <2>1 DEF Writing
<1>4. CASE Request(r)
  <2>1. CASE QueueRead(r)
    <3>1. job[r] \in Keys /\ pc[r] = "orphaned"
      BY <2>1 DEF QueueRead, Goto, Working
    <3>2. pc'[r] \in {"inserting", "renewing", "reopening"}
      BY <2>1, <3>1 DEF QueueRead, QueueStep, Goto
    <3> QED
      BY <3>2 DEF Writing
  <2>2. CASE ~QueueRead(r)
    BY <1>4, <2>2 DEF Request, Look, Put, PutConflict, PutFails, Commit, CommitRaises, OutcomeUnknown,
          OutcomePersisted, OutcomeAbsent, DeleteBlob, DeleteBlobFails, Queue, QueueInsert, QueueRenew,
          QueueReopen, QueueFails, DeleteRow, Crash, End, Goto, Writing
  <2> QED
    BY <2>1, <2>2
<1> QED
  BY <1>1, <1>2, <1>3, <1>4 DEF Next

LEMMA MintedGrows == [Next]_vars => minted \subseteq minted'
<1> SUFFICES ASSUME [Next]_vars PROVE minted \subseteq minted'
  OBVIOUS
<1>1. CASE Sweep \/ UNCHANGED vars
  BY <1>1 DEF Sweep, SweepStart, SweepDelete, SweepCommit, SweepCrash, vars, rowVars
<1>2. ASSUME NEW d \in Documents, NEW v \in Versions, OneRow(d, v) PROVE minted' = minted
  BY <1>2 DEF OneRow, Publish, Revoke, DeleteRowRaises
<1>3. ASSUME NEW r \in Requests, Request(r) PROVE minted \subseteq minted'
  BY <1>3 DEF Request, StartUpload, StartSupersede, Look, Put, PutConflict, PutFails, Commit, CommitRaises,
              OutcomeUnknown, OutcomePersisted, OutcomeAbsent, DeleteBlob, DeleteBlobFails, Queue, QueueRead, QueueInsert,
              QueueRenew, QueueReopen, QueueFails, Queueing, DeleteRow, Crash, rowVars
<1> QED
  BY <1>1, <1>2, <1>3 DEF Next

LEMMA SpoiledStays ==
  ASSUME RowInv, [Next]_vars, NEW k \in Keys, Spoiled(k)
  PROVE  Spoiled(k)'
<1> USE DEF RowInv, TypeOK, Spoiled, lostVars
<1>1. CASE Sweep \/ UNCHANGED vars
  BY <1>1 DEF Sweep, SweepStart, SweepDelete, SweepCommit, SweepCrash, vars
<1>2. ASSUME NEW d \in Documents, NEW v \in Versions, OneRow(d, v) PROVE task' = task /\ crossed' = crossed
  BY <1>2 DEF OneRow, Publish, Revoke, DeleteRowRaises
<1>3. ASSUME NEW r \in Requests, Request(r)
      PROVE  /\ task' = task \/ task' = [task EXCEPT ![job[r]] = "PENDING"]
             /\ crossed \subseteq crossed'
  BY <1>3 DEF Request, StartUpload, StartSupersede, Look, Put, PutConflict, PutFails, Commit, CommitRaises,
              OutcomeUnknown, OutcomePersisted, OutcomeAbsent, DeleteBlob, DeleteBlobFails, Queue, QueueRead,
              QueueInsert, QueueRenew, QueueReopen, QueueFails, DeleteRow, Crash
<1> QED
  BY <1>1, <1>2, <1>3 DEF Next

(* What an action finds of a document with a row.                          *)
LEMMA StartsAlive ==
  ASSUME RowInv, NEW r \in Requests, NEW d \in Documents, NEW c \in Digests,
         \/ StartUpload(r, d, c)
         \/ \E v \in Versions : StartSupersede(r, d, v, c)
  PROVE  /\ job'[r][1] = d
         /\ d \notin minted \/ (d \notin Personal /\ status[d][1] # "NONE")
<1> USE DEF RowInv, TypeOK
<1>1. CASE StartUpload(r, d, c)
  BY <1>1 DEF StartUpload
<1>2. ASSUME NEW v \in Versions, StartSupersede(r, d, v, c)
      PROVE  job'[r][1] = d /\ d \notin Personal /\ status[d][1] # "NONE"
  <2>1. 1 \in Versions /\ (v = 1 \/ 1 < v)
    BY StoreConstants DEF StoreConstants, Versions
  <2> QED
    BY <1>2, <2>1 DEF StartSupersede, Chain
<1> QED
  BY <1>1, <1>2

LEMMA DeadStays ==
  ASSUME RowInv, [Next]_vars, NEW d \in Documents, Dead(d)
  PROVE  Dead(d)'
<1>1. d \in minted'
  BY MintedGrows DEF Dead
<1>2. status'[d][1] = "NONE"
  <2>1. status[d][1] = "NONE" /\ 1 \in Versions
    BY StoreConstants DEF Dead, StoreConstants, Versions
  <2>2. ASSUME NEW e \in Documents, NEW v \in Versions, Publish(e, v) \/ Revoke(e, v)
        PROVE  status'[d][1] = "NONE"
    <3>1. PICK s \in {"ACTIVE", "REVOKED"} : status' = [status EXCEPT ![e][v] = s] /\ status[e][v] # "NONE"
      BY <2>2 DEF Publish, Revoke
    <3> QED
      BY <2>1, <3>1 DEF RowInv, TypeOK
  <2>3. ASSUME NEW e \in Documents, NEW v \in Versions, Row(e, v, None, "NONE", None)
        PROVE  status'[d][1] = "NONE"
    BY <2>1, <2>3 DEF Row, RowInv, TypeOK
  <2>4. ASSUME NEW r \in Requests, pc[r] = "stored", Write(r)
        PROVE  status'[d][1] = "NONE"
    <3>1. Writing(r) /\ job[r][1] # d
      BY <2>4 DEF Writing, Dead
    <3> QED
      BY <2>1, <2>4, <3>1, WriteEffect
  <2> QED
    BY <2>1, <2>2, <2>3, <2>4, RowSteps
<1>3. ASSUME NEW r \in Requests, Writing(r)', job'[r][1] = d PROVE FALSE
  BY <1>3, WritersStart, StartsAlive DEF Dead
<1> QED
  BY <1>1, <1>2, <1>3 DEF Dead

Kept == {"ACTIVE", "SUPERSEDED", "REVOKED"}

GoneForGood(k) == k[1] \in Personal /\ Dead(k[1])

(* What became of a key that was listed while its document was active.     *)
Listed(k) == GoneForGood(k) \/ (Referenced(k) /\ status[k[1]][k[2]] \in Kept)

LEMMA ListedStays ==
  ASSUME RowInv, [Next]_vars, NEW k \in Keys, Listed(k)
  PROVE  Listed(k)'
<1> DEFINE d == k[1]  v == k[2]
<1>1. d \in Documents /\ v \in Versions
  BY KeyParts
<1>2. CASE GoneForGood(k)
  BY <1>1, <1>2, DeadStays DEF Listed, GoneForGood
<1>3. CASE Referenced(k) /\ status[d][v] \in Kept
  <2>1. CASE UNCHANGED <<status, content, writer>>
    BY <1>3, <2>1 DEF Listed, Referenced
  <2>2. ASSUME NEW e \in Documents, NEW w \in Versions, Publish(e, w) \/ Revoke(e, w)
        PROVE  Listed(k)'
    <3>1. status'[d][v] \in Kept
      <4>1. PICK s \in Kept : status' = [status EXCEPT ![e][w] = s]
        BY <2>2 DEF Publish, Revoke, Kept
      <4> QED
        BY <1>1, <1>3, <4>1 DEF RowInv, TypeOK
    <3> QED
      BY <1>3, <2>2, <3>1 DEF Listed, Referenced, Publish, Revoke
  <2>3. ASSUME NEW e \in Documents, NEW w \in Versions, Deletable(e, w), Row(e, w, None, "NONE", None)
        PROVE  Listed(k)'
    <3>1. CASE e = d /\ w = v
      <4>1. d \in Personal
        BY <1>3, <2>3, <3>1 DEF Deletable, Kept
      <4>2. v = 1 /\ d \in minted /\ \A q \in Requests : Writing(q) => job[q][1] # d
        BY <2>3, <3>1, DeletableIsSole
      <4>3. d \in minted' /\ status'[d][1] = "NONE"
        BY <1>1, <2>3, <3>1, <4>2, MintedGrows DEF Row, RowInv, TypeOK
      <4>4. ASSUME NEW r \in Requests, Writing(r)', job'[r][1] = d PROVE FALSE
        BY <4>1, <4>2, <4>4, WritersStart, StartsAlive
      <4> QED
        BY <4>1, <4>3, <4>4 DEF Listed, GoneForGood, Dead
    <3>2. CASE e # d \/ w # v
      <4>1. status'[d][v] = status[d][v] /\ content'[d][v] = content[d][v]
        BY <1>1, <2>3, <3>2 DEF Row, RowInv, TypeOK
      <4> QED
        BY <1>3, <4>1 DEF Listed, Referenced
    <3> QED
      BY <3>1, <3>2
  <2>4. ASSUME NEW r \in Requests, pc[r] = "stored", Write(r)
        PROVE  Listed(k)'
    <3>1. Writing(r)
      BY <2>4 DEF Writing
    <3>2. d # job[r][1] \/ v # job[r][2]
      BY <1>3, <2>4, <3>1, WriteEffect DEF Kept
    <3>3. content'[d][v] = content[d][v] /\ status'[d][v] \in {status[d][v], "SUPERSEDED"}
      BY <1>1, <2>4, <3>1, <3>2, WriteEffect
    <3> QED
      BY <1>3, <3>3 DEF Listed, Referenced, Kept
  <2> QED
    BY <2>1, <2>2, <2>3, <2>4, RowSteps
<1> QED
  BY <1>2, <1>3 DEF Listed

OneOfEach(S) == \A k, l \in S : k[1] = l[1] => k = l

ReaderInv ==
  /\ reading = "list" => used = {}
  /\ reading = "given" => used \subseteq recorded
  /\ candidates \subseteq Keys /\ absent \subseteq Keys
  /\ OneOfEach(candidates \cup used)
  /\ \A k \in candidates : Listed(k)
  /\ \A k \in absent : Spoiled(k) \/ GoneForGood(k)

LEMMA ReaderInitEstablishes == ReaderInit => ReaderInv
BY DEF ReaderInit, ReaderInv, OneOfEach

(* What is listed is in force: its document has no other active version.   *)
LEMMA ActiveIsSole ==
  ASSUME RowInv, NEW S \in SUBSET {k \in Keys : Referenced(k) /\ status[k[1]][k[2]] = "ACTIVE"}
  PROVE  OneOfEach(S) /\ \A k \in S : k \in Keys /\ Listed(k)
<1>1. ASSUME NEW k \in S, NEW l \in S, k[1] = l[1] PROVE k = l
  <2>1. /\ k[1] \in Documents /\ k[2] \in Versions /\ l[2] \in Versions
        /\ k = <<k[1], k[2], k[3]>> /\ l = <<l[1], l[2], l[3]>>
    BY KeyParts
  <2>2. k[2] = l[2]
    <3>1. k[2] < l[2] \/ l[2] < k[2] \/ k[2] = l[2]
      BY <2>1 DEF Versions
    <3> QED
      BY <1>1, <2>1, <3>1 DEF RowInv, Chain
  <2>3. k[3] = l[3]
    BY <1>1, <2>2 DEF Referenced
  <2> QED
    BY <1>1, <2>1, <2>2, <2>3
<1> QED
  BY <1>1 DEF OneOfEach, Listed, Kept

LEMMA ReaderKeeps ==
  ASSUME IInv, ReaderInv, [ContextNext]_<<vars, readerVars>>
  PROVE  ReaderInv'
<1>0. RowInv /\ Missing
  BY DEF IInv, BlobInv
<1>1. CASE [Next]_vars /\ UNCHANGED readerVars
  <2>1. \A k \in candidates : Listed(k)'
    BY <1>0, <1>1, ListedStays DEF ReaderInv
  <2>2. \A k \in absent : Spoiled(k)' \/ GoneForGood(k)'
    BY <1>0, <1>1, SpoiledStays, DeadStays, KeyParts DEF ReaderInv, GoneForGood
  <2> QED
    BY <1>1, <2>1, <2>2 DEF ReaderInv, readerVars
<1>2. ASSUME UNCHANGED vars, ListCandidates PROVE ReaderInv'
  <2>1. PICK S \in SUBSET {k \in Keys : Referenced(k) /\ status[k[1]][k[2]] = "ACTIVE"} :
          candidates' = S /\ reading' = IF S = {} THEN "nothing" ELSE "read"
    BY <1>2 DEF ListCandidates
  <2>2. OneOfEach(S) /\ \A k \in S : k \in Keys /\ Listed(k)
    BY <1>0, <2>1, ActiveIsSole
  <2>3. used' = {} /\ absent' = absent
    BY <1>2 DEF ListCandidates, ReaderInv
  <2>4. \A k : Listed(k)' = Listed(k) /\ GoneForGood(k)' = GoneForGood(k) /\ Spoiled(k)' = Spoiled(k)
    BY <1>2 DEF vars, rowVars, lostVars, Listed, GoneForGood, Spoiled, Dead, Referenced, Writing
  <2> QED
    BY <1>2, <2>1, <2>2, <2>3, <2>4 DEF ReaderInv, vars
<1>3. ASSUME UNCHANGED vars, NEW k \in candidates, ReadDocument(k) PROVE ReaderInv'
  <2>1. \A l : Listed(l)' = Listed(l) /\ GoneForGood(l)' = GoneForGood(l) /\ Spoiled(l)' = Spoiled(l)
    BY <1>3 DEF vars, rowVars, lostVars, Listed, GoneForGood, Spoiled, Dead, Referenced, Writing
  <2>2. /\ candidates' \subseteq candidates /\ used' \subseteq candidates \cup used
        /\ reading' = "read" /\ absent' \subseteq absent \cup {k}
        /\ k \notin blobs \/ absent' = absent
    BY <1>3 DEF ReadDocument, TakeCanonical, TakeSource, SourceMissing, SkipText, vars
  <2>3. k \in Keys /\ Listed(k)
    BY DEF ReaderInv
  <2>4. k \notin blobs => Spoiled(k) \/ GoneForGood(k)
    BY <1>0, <2>3 DEF Listed, Missing
  <2>5. OneOfEach(candidates' \cup used')
    BY <2>2 DEF ReaderInv, OneOfEach
  <2> QED
    BY <2>1, <2>2, <2>3, <2>4, <2>5 DEF ReaderInv
<1>4. ASSUME UNCHANGED vars, EndReading \/ RecordUse \/ RecordUseFails PROVE ReaderInv'
  <2>1. \A l : Listed(l)' = Listed(l) /\ GoneForGood(l)' = GoneForGood(l) /\ Spoiled(l)' = Spoiled(l)
    BY <1>4 DEF vars, rowVars, lostVars, Listed, GoneForGood, Spoiled, Dead, Referenced, Writing
  <2>2. /\ UNCHANGED <<candidates, used, absent>> /\ reading' # "list"
        /\ reading' = "given" => used' \subseteq recorded'
    BY <1>4 DEF EndReading, RecordUse, RecordUseFails, vars
  <2> QED
    BY <2>1, <2>2 DEF ReaderInv
<1> QED
  BY <1>1, <1>2, <1>3, <1>4 DEF ContextNext, ReaderNext

(* A prompt never holds two versions of a document or text whose use is    *)
(* not on record, and a document whose source it misses was deleted by its *)
(* owner, queued for deletion, or crossed by two unlocked replacements,    *)
(* for any requests, deaths and cleanup jobs meanwhile                     *)
(* (build_knowledge_context).                                              *)
THEOREM ContextGoverned == ContextSpec => []ContextIsGoverned
<1>1. Init /\ ReaderInit => IInv /\ ReaderInv
  BY InitEstablishes, ReaderInitEstablishes
<1>2. IInv /\ ReaderInv /\ [ContextNext]_<<vars, readerVars>> => (IInv /\ ReaderInv)'
  BY ContextStepsStore, StepKeeps, ReaderKeeps
<1>3. IInv /\ ReaderInv => ContextIsGoverned
  <2>1. SUFFICES ASSUME IInv, ReaderInv PROVE ContextIsGoverned
    OBVIOUS
  <2>2. \A k \in absent : GoneForGood(k) => k[1] \in Personal /\ ~Referenced(k)
    BY <2>1, DeadHasNoRow DEF IInv, ReaderInv, GoneForGood
  <2>3. \A k \in absent : Spoiled(k) => Lost(k)
    BY <2>1, SpoiledIsLost DEF ReaderInv
  <2> QED
    BY <2>1, <2>2, <2>3 DEF ReaderInv, OneOfEach, ContextIsGoverned
<1> QED
  BY <1>1, <1>2, <1>3, PTL DEF ContextSpec
================================================================================
