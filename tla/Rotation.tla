------------------------------ MODULE Rotation ------------------------------
(***************************************************************************)
(* Encrypted dongle tokens and the job that moves them to a new master key *)
(* (jobs/rotate-dongle-keys.ts, services/dongle-tokens.ts,                 *)
(* crypto/dongle-token.ts and config/keys.ts of the API), while users pair *)
(* and unpair dongles.                                                     *)
(*                                                                         *)
(* A ciphertext is what it opens with and what it holds: the key version,  *)
(* the owner and the time of creation that it is bound to, and the token.  *)
(* The dongle it is bound to as well never differs from its row's.  Times  *)
(* and tokens are those of the pairing that made them, which is also the   *)
(* id of the row it inserts.  Keys have versions 1 and 2; the API that     *)
(* runs has read its keyring when it started, the job knows both.          *)
(***************************************************************************)
EXTENDS Integers, FiniteSets

CONSTANTS
  Paired,         \* dongles
  Owners,         \* users
  MaxPairings,    \* number of times that a dongle is paired
  MaxJobs         \* number of times that the job is run

Nobody == "nobody"

ASSUME RotationAssumption ==
  Nobody \notin Owners /\ MaxPairings \in Nat /\ MaxJobs \in Nat

NoRow == [id |-> 0, version |-> 0, token |-> 0, boundTo |-> Nobody,
          boundAt |-> 0, createdAt |-> 0]
OldKey == 1
Target == 2

VARIABLES
  owner,      \* the dongles' owners
  stored,     \* the dongles' rows of dongle_tokens
  pairing,    \* the pairings whose token is not stored yet, by their number
  pairings,   \* number of pairings so far
  keyring,    \* the highest key version that the API knows
  job,        \* the job's program
  meddled     \* dongles whose token was stored or removed while the job had
              \* it on its list or another pairing stored one, or that a
              \* user has claimed from another

kVars == <<owner, stored, pairing, pairings, keyring, job, meddled>>

\* due, for the model alone: what the job is to rotate
NoJob == [phase |-> "idle", list |-> {}, due |-> {}, runs |-> 0]

KInit ==
  /\ owner = [d \in Paired |-> Nobody]
  /\ stored = [d \in Paired |-> NoRow]
  /\ pairing = <<>>
  /\ pairings = 0
  /\ keyring = OldKey
  /\ job = NoJob
  /\ meddled = {}

\* encryptDongleToken with the API's default version, bound to now
Sealed(n, u) == [version |-> keyring, token |-> n, boundTo |-> u, boundAt |-> n]

\* decryptDongleToken: the key must be there, and what it is bound to match.
Opens(row, known, u) ==
  /\ row.version <= known
  /\ row.boundTo = u
  /\ row.boundAt = row.createdAt

Listed(d) == \E r \in job.list : r.dongle = d
StoringFor(d) == {n \in DOMAIN pairing : pairing[n].dongle = d}

(***************************************************************************)
(* The end of a pairing that has succeeded: one transaction makes the user *)
(* the owner, whoever was that before, and then the token is sealed and    *)
(* upserted.                                                               *)
(***************************************************************************)
Claim(d, u) ==
  /\ pairings < MaxPairings
  /\ owner' = [owner EXCEPT ![d] = u]
  /\ pairings' = pairings + 1
  /\ pairing' = [n \in DOMAIN pairing \cup {pairings'} |->
       IF n = pairings' THEN [dongle |-> d, sealed |-> Sealed(n, u)] ELSE pairing[n]]
  /\ meddled' = IF StoringFor(d) # {} \/ owner[d] \notin {Nobody, u}
                THEN meddled \cup {d} ELSE meddled
  /\ UNCHANGED <<stored, keyring, job>>

\* createEncryptedDongleToken's upsert: an existing row keeps its id.
StoreToken(n) ==
  LET d == pairing[n].dongle
      s == pairing[n].sealed
  IN /\ stored' = [stored EXCEPT ![d] =
          [id |-> IF stored[d] = NoRow THEN n ELSE stored[d].id,
           version |-> s.version, token |-> s.token, boundTo |-> s.boundTo,
           boundAt |-> s.boundAt, createdAt |-> n]]
     /\ meddled' = IF Listed(d) THEN meddled \cup {d} ELSE meddled
     /\ job' = [job EXCEPT !.due = @ \ {d}]
     /\ pairing' = [m \in DOMAIN pairing \ {n} |-> pairing[m]]
     /\ UNCHANGED <<owner, pairings, keyring>>

\* The upsert fails, and with it the request; the owner stays.
FailToStore(n) ==
  /\ pairing' = [m \in DOMAIN pairing \ {n} |-> pairing[m]]
  /\ UNCHANGED <<owner, stored, pairings, keyring, job, meddled>>

\* unpairDongle, by the owner or by an administrator
Unpair(d) ==
  /\ owner[d] # Nobody
  /\ owner' = [owner EXCEPT ![d] = Nobody]
  /\ stored' = [stored EXCEPT ![d] = NoRow]
  /\ job' = [job EXCEPT !.due = @ \ {d}]
  /\ meddled' = IF StoringFor(d) # {} THEN meddled \cup {d} ELSE meddled
  /\ UNCHANGED <<pairing, pairings, keyring>>

\* The API is started again, with both keys.
RestartWithKeys ==
  /\ keyring = OldKey
  /\ keyring' = Target
  /\ UNCHANGED <<owner, stored, pairing, pairings, job, meddled>>

(***************************************************************************)
(* The job.  It reads, once, all rows that have another version, with      *)
(* their owners, and goes through them in the order they come.             *)
(***************************************************************************)
Old == {d \in Paired : stored[d] # NoRow /\ stored[d].version # Target}

StartJob ==
  /\ job.phase = "idle" /\ job.runs < MaxJobs
  /\ job' = [NoJob EXCEPT
       !.phase = "running", !.runs = job.runs + 1,
       !.list = {[dongle |-> d, row |-> stored[d], owner |-> owner[d]] : d \in Old},
       !.due = {d \in Old : owner[d] # Nobody}]
  /\ UNCHANGED <<owner, stored, pairing, pairings, keyring, meddled>>

\* mutant: a record without an owner ends the loop
SkipAndReturn(r) ==
  /\ r.owner = Nobody
  /\ job' = [job EXCEPT !.list = {}]
  /\ UNCHANGED <<owner, stored, pairing, pairings, keyring, meddled>>

Skip(r) ==
  /\ r.owner = Nobody
  /\ job' = [job EXCEPT !.list = @ \ {r}]
  /\ UNCHANGED <<owner, stored, pairing, pairings, keyring, meddled>>

CanRotate(r) ==
  /\ r.owner # Nobody
  /\ Opens(r.row, Target, r.owner)
  /\ stored[r.dongle].id = r.row.id

\* The update: the token is sealed again, and id and createdAt stay.
Resealed(row, r, at) ==
  [id |-> row.id, version |-> Target, token |-> r.row.token, boundTo |-> r.owner,
   boundAt |-> at, createdAt |-> row.createdAt]

\* mutant: the ciphertext is bound to the time of the rotation
RotateRebound(r) ==
  /\ CanRotate(r)
  /\ stored' = [stored EXCEPT ![r.dongle] = Resealed(@, r, 0)]
  /\ job' = [job EXCEPT !.list = @ \ {r}]
  /\ UNCHANGED <<owner, pairing, pairings, keyring, meddled>>

\* The row is found by its id.
Rotate(r) ==
  /\ CanRotate(r)
  /\ stored' = [stored EXCEPT ![r.dongle] = Resealed(@, r, r.row.createdAt)]
  /\ job' = [job EXCEPT !.list = @ \ {r}]
  /\ UNCHANGED <<owner, pairing, pairings, keyring, meddled>>

\* mutant: the record is put back, to be tried again
AbortRetried(r) ==
  /\ r.owner # Nobody
  /\ ~CanRotate(r)
  /\ job' = [job EXCEPT !.list = (@ \ {r}) \cup {r}]
  /\ UNCHANGED <<owner, stored, pairing, pairings, keyring, meddled>>

\* The token does not open, or its row is gone: the process exits.
Abort(r) ==
  /\ r.owner # Nobody
  /\ ~CanRotate(r)
  /\ job' = [NoJob EXCEPT !.runs = job.runs]
  /\ UNCHANGED <<owner, stored, pairing, pairings, keyring, meddled>>

KillJob ==
  /\ job.phase = "running"
  /\ job' = [NoJob EXCEPT !.runs = job.runs]
  /\ UNCHANGED <<owner, stored, pairing, pairings, keyring, meddled>>

\* The audit entry is written; what it counts is left out.
FinishJob ==
  /\ job.phase = "running" /\ job.list = {}
  /\ job' = [NoJob EXCEPT !.runs = job.runs]
  /\ UNCHANGED <<owner, stored, pairing, pairings, keyring, meddled>>

JobStep == FinishJob \/ \E r \in job.list : Skip(r) \/ Rotate(r) \/ Abort(r)

KNext ==
  \/ \E d \in Paired : Unpair(d) \/ \E u \in Owners : Claim(d, u)
  \/ \E n \in DOMAIN pairing : StoreToken(n) \/ FailToStore(n)
  \/ RestartWithKeys \/ StartJob \/ JobStep \/ KillJob

KFair == WF_kVars(JobStep)

KSpec == KInit /\ [][KNext]_kVars /\ KFair
-----------------------------------------------------------------------------
RotationTypeOK ==
  /\ \A d \in Paired : owner[d] \in Owners \cup {Nobody}
                       /\ stored[d].version \in 0..Target
                       /\ stored[d].id \in 0..pairings
  /\ keyring \in {OldKey, Target}
  /\ job.due \cup {r.dongle : r \in job.list} \subseteq Paired

(***************************************************************************)
(* Wherever the job is killed and however often it is run again, the token *)
(* of an owned dongle opens with its owner, and is the one of the last     *)
(* pairing that stored one, unless a user stored it while the job had the  *)
(* old one in hand, two pairings overlapped, or a user has claimed the     *)
(* dongle from another.  (jobs/rotate-dongle-keys.ts:25-62)                *)
(***************************************************************************)
TokenSurvives ==
  \A d \in Paired \ meddled :
    owner[d] # Nobody /\ stored[d] # NoRow /\ StoringFor(d) = {} =>
      /\ Opens(stored[d], Target, owner[d])
      /\ stored[d].token = stored[d].createdAt

(***************************************************************************)
(* A job that gets to the end of its list has moved every token that had   *)
(* an owner when it began to the new key, but for those that were paired   *)
(* or unpaired since.  (jobs/rotate-dongle-keys.ts:17-64)                  *)
(***************************************************************************)
JobIsComplete ==
  job.phase = "running" /\ job.list = {} =>
    \A d \in job.due : stored[d].version = Target

(***************************************************************************)
(* Rotation loses no token that it is not raced for, and forgets none.     *)
(* (jobs/rotate-dongle-keys.ts)                                            *)
(***************************************************************************)
RotationSound ==
  RotationTypeOK /\ TokenSurvives /\ JobIsComplete

(***************************************************************************)
(* The job ends, whatever it meets.                                        *)
(***************************************************************************)
JobEnds == job.phase = "running" ~> job.phase = "idle"

(***************************************************************************)
(* The plan says that rotation loses no record.  A token stored while the  *)
(* job has the old row in hand is written over with the old one, which     *)
(* does not open any more.                                                 *)
(***************************************************************************)
NoTokenLost ==
  \A d \in Paired :
    owner[d] # Nobody /\ stored[d] # NoRow /\ StoringFor(d) = {} =>
      Opens(stored[d], Target, owner[d])
=============================================================================
