------------------------------- MODULE Resets -------------------------------
(***************************************************************************)
(* Resetting the password of one account: the requests that create a       *)
(* token, each in a transaction that first marks the user's unused tokens  *)
(* as used, and those that confirm one, which read it, hash the new        *)
(* password, and then take the token and set the password in another       *)
(* transaction (services/password-reset.ts and routes/auth.ts of the API). *)
(*                                                                         *)
(* The database reads what is committed.  An UPDATE looks for its rows     *)
(* once, holds those it changes until its transaction ends, and waits for  *)
(* those that another transaction holds, to see then whether they still    *)
(* are to be changed.                                                      *)
(***************************************************************************)
EXTENDS Integers, Sequences, FiniteSets

CONSTANTS
  Requests,       \* requests for a token
  Confirmations,  \* requests that bring one back
  MaxFailures     \* number of transactions that fail

ASSUME ResetsAssumption == IsFiniteSet(Requests) /\ MaxFailures \in Nat

VARIABLES
  issued,      \* the committed rows of password_reset_tokens, oldest first
  request,     \* the requests for a token
  confirm,     \* the confirmations
  account      \* the user's row, and the failures so far

rVars == <<issued, request, confirm, account>>

Rows == 1..Len(issued)
Unused == {k \in Rows : ~issued[k].used}

RInit ==
  /\ issued = <<>>
  /\ request = [q \in Requests |-> [phase |-> "none", older |-> {}, found |-> {},
                                    holds |-> {}]]
  /\ confirm = [c \in Confirmations |-> [phase |-> "none", row |-> 0, answer |-> "none"]]
  /\ account = [active |-> TRUE, password |-> 0, failures |-> 0]

\* Whether another transaction than this request's has changed the row.
Held(k, others) == \E q \in others : k \in request[q].holds

(***************************************************************************)
(* The route finds the user and does nothing more unless the account is    *)
(* active.  updateMany then finds the unused rows, and holds those of them *)
(* that no one else does.  older is what had been handed out by then: the  *)
(* model alone looks at it.                                                *)
(***************************************************************************)
Marking(found) == [phase |-> "marking", older |-> Rows, found |-> found,
                   holds |-> {k \in found : ~Held(k, Requests)}]

\* mutant: only the latest token is marked
MarkUnusedLatest(q) ==
  /\ request[q].phase = "none" /\ account.active
  /\ request' = [request EXCEPT
       ![q] = Marking({k \in Unused : \A j \in Unused : j <= k})]
  /\ UNCHANGED <<issued, confirm, account>>

MarkUnused(q) ==
  /\ request[q].phase = "none" /\ account.active
  /\ request' = [request EXCEPT ![q] = Marking(Unused)]
  /\ UNCHANGED <<issued, confirm, account>>

\* A disabled account gets no token, and the answer does not say so.
GiveNoToken(q) ==
  /\ request[q].phase = "none" /\ ~account.active
  /\ request' = [request EXCEPT ![q].phase = "done"]
  /\ UNCHANGED <<issued, confirm, account>>

Over(r) ==
  [r EXCEPT !.phase = "done", !.older = {}, !.found = {}, !.holds = {}]

\* mutant: the new row is there before the unused ones are marked
CreateTokenFirst(q) ==
  /\ request[q].phase = "marking"
  /\ \A k \in request[q].found : ~Held(k, Requests \ {q})
  /\ issued' = [k \in 1..(Len(issued) + 1) |->
       IF k \in Rows /\ k \notin request[q].found THEN issued[k]
       ELSE IF k \in Rows THEN [issued[k] EXCEPT !.used = TRUE]
       ELSE [used |-> TRUE, expired |-> FALSE, changes |-> 0, marked |-> FALSE,
             older |-> request[q].older]]
  /\ request' = [request EXCEPT ![q] = Over(@)]
  /\ UNCHANGED <<confirm, account>>

\* The rows that were waited for are marked, the token is inserted, and the
\* transaction commits.
CreateToken(q) ==
  /\ request[q].phase = "marking"
  /\ \A k \in request[q].found : ~Held(k, Requests \ {q})
  /\ issued' = Append(
       [k \in Rows |-> IF k \in request[q].found /\ ~issued[k].used
                       THEN [issued[k] EXCEPT !.used = TRUE, !.marked = TRUE]
                       ELSE issued[k]],
       [used |-> FALSE, expired |-> FALSE, changes |-> 0, marked |-> FALSE,
        older |-> request[q].older])
  /\ request' = [request EXCEPT ![q] = Over(@)]
  /\ UNCHANGED <<confirm, account>>

\* The transaction fails, and with it the request.
FailToCreate(q) ==
  /\ request[q].phase = "marking"
  /\ account.failures < MaxFailures
  /\ account' = [account EXCEPT !.failures = @ + 1]
  /\ request' = [request EXCEPT ![q] = Over(@)]
  /\ UNCHANGED <<issued, confirm>>

Told(c, answer) == [c EXCEPT !.phase = "done", !.answer = answer]

\* A row of the table that is used now, and with which a password was set.
Spent(t) == [t EXCEPT !.used = TRUE, !.changes = t.changes + 1]

(***************************************************************************)
(* consumePasswordResetToken only looks; the user's row is read next, and  *)
(* hashing takes its time.                                                 *)
(***************************************************************************)
Consume(c, k) ==
  /\ confirm[c].phase = "none"
  /\ k \in Rows
  /\ confirm' = [confirm EXCEPT ![c] =
       IF issued[k].used THEN [phase |-> "done", row |-> k, answer |-> "invalid"]
       ELSE IF issued[k].expired THEN [phase |-> "done", row |-> k, answer |-> "expired"]
       ELSE [phase |-> "read", row |-> k, answer |-> "none"]]
  /\ UNCHANGED <<issued, request, account>>

CheckUser(c) ==
  /\ confirm[c].phase = "read"
  /\ confirm' = [confirm EXCEPT ![c] =
       [@ EXCEPT !.phase = IF account.active THEN "hashing" ELSE "done",
                 !.answer = IF account.active THEN "none" ELSE "disabled"]]
  /\ UNCHANGED <<issued, request, account>>

\* mutant: the row is taken by its id alone
SetPasswordUnguarded(c) ==
  /\ confirm[c].phase = "hashing"
  /\ ~Held(confirm[c].row, Requests)
  /\ issued' = [issued EXCEPT ![confirm[c].row] = Spent(@)]
  /\ account' = [account EXCEPT !.password = confirm[c].row]
  /\ confirm' = [confirm EXCEPT ![c] = Told(@, "ok")]
  /\ UNCHANGED request

\* The second transaction: the token is taken if it is unused still, or else
\* nothing happens.
SetPassword(c) ==
  /\ confirm[c].phase = "hashing"
  /\ ~Held(confirm[c].row, Requests)
  /\ ~issued[confirm[c].row].used
  /\ issued' = [issued EXCEPT ![confirm[c].row] = Spent(@)]
  /\ account' = [account EXCEPT !.password = confirm[c].row]
  /\ confirm' = [confirm EXCEPT ![c] = Told(@, "ok")]
  /\ UNCHANGED request

AlreadyUsed(c) ==
  /\ confirm[c].phase = "hashing"
  /\ ~Held(confirm[c].row, Requests)
  /\ issued[confirm[c].row].used
  /\ confirm' = [confirm EXCEPT ![c] = Told(@, "invalid")]
  /\ UNCHANGED <<issued, request, account>>

FailToSet(c) ==
  /\ confirm[c].phase = "hashing"
  /\ account.failures < MaxFailures
  /\ account' = [account EXCEPT !.failures = @ + 1]
  /\ confirm' = [confirm EXCEPT ![c] = Told(@, "failed")]
  /\ UNCHANGED <<issued, request>>

\* An hour goes by; someone disables the account.
TokenExpires(k) ==
  /\ k \in Rows
  /\ ~issued[k].expired
  /\ issued' = [issued EXCEPT ![k].expired = TRUE]
  /\ UNCHANGED <<request, confirm, account>>

DisableAccount ==
  /\ account.active
  /\ account' = [account EXCEPT !.active = FALSE]
  /\ UNCHANGED <<issued, request, confirm>>

RNext ==
  \/ \E q \in Requests :
       MarkUnused(q) \/ GiveNoToken(q) \/ CreateToken(q) \/ FailToCreate(q)
  \/ \E c \in Confirmations :
       \/ \E k \in Rows : Consume(c, k)
       \/ CheckUser(c) \/ SetPassword(c) \/ AlreadyUsed(c) \/ FailToSet(c)
  \/ \E k \in Rows : TokenExpires(k)
  \/ DisableAccount

RSpec == RInit /\ [][RNext]_rVars
-----------------------------------------------------------------------------
ResetsTypeOK ==
  /\ Len(issued) <= Cardinality(Requests)
  /\ account.password \in Rows \cup {0}
  /\ \A q \in Requests : request[q].holds \subseteq request[q].found
                         /\ request[q].found \subseteq Rows
  /\ \A c \in Confirmations : confirm[c].row \in Rows \cup {0}

(***************************************************************************)
(* A token is good for one change of the password, however many            *)
(* confirmations bring it at the same time, and who is told that it        *)
(* worked has made that change.  (routes/auth.ts:228-240)                  *)
(***************************************************************************)
OncePerToken ==
  \A k \in Rows :
    /\ issued[k].changes <= 1
    /\ issued[k].changes =
         Cardinality({c \in Confirmations : confirm[c].row = k
                                            /\ confirm[c].answer = "ok"})

(***************************************************************************)
(* Once a token has been handed out, those handed out before it was asked  *)
(* for are dead, those that a slow confirmation has already looked at      *)
(* included.  Two requests at the same time may leave a token each.        *)
(* (services/password-reset.ts:16-28)                                      *)
(***************************************************************************)
OlderAreDead == \A k \in Rows : \A j \in issued[k].older : issued[j].used

(***************************************************************************)
(* A token works until it is used, or a later request has marked it: a     *)
(* request that fails, or a confirmation that does, costs no one a token.  *)
(* (services/password-reset.ts:16-28, routes/auth.ts:228-240)              *)
(***************************************************************************)
DeadForAReason ==
  \A k \in Rows : issued[k].used <=> issued[k].changes = 1 \/ issued[k].marked

(***************************************************************************)
(* A token is good once, dies with the next one, and of nothing else.      *)
(* (services/password-reset.ts, routes/auth.ts)                            *)
(***************************************************************************)
ResetsSound ==
  ResetsTypeOK /\ OncePerToken /\ OlderAreDead /\ DeadForAReason

(***************************************************************************)
(* The plan says that a request marks any previous unused token as used:   *)
(* there is at most one that works.  Two at the same time leave two.       *)
(***************************************************************************)
OneToken == Cardinality(Unused) <= 1
=============================================================================
