---------------------------- MODULE DashboardProofs ----------------------------
(*****************************************************************************)
(* The invariants of the smaller parts of the dashboard, which share no      *)
(* state: password resets, key rotation, signing in and out, the benchmark   *)
(* and the console page, each for all values of its constants, and then that *)
(* they hold of the parts put together.                                      *)
(*****************************************************************************)
EXTENDS MCDashboard, FiniteSetTheorems, SequenceTheorems, WellFoundedInduction, TLAPS

-----------------------------------------------------------------------------
(*****************************************************************************)
(* Password resets: a token is good for one change, is dead once a later one *)
(* is handed out, and dies of nothing else.                                  *)
(*                                                                           *)
(* The properties are about committed rows.  What carries them over a step is*)
(* what the transactions and confirmations that are under way remember: a    *)
(* request that is marking has found every row that is neither used nor newer*)
(* than its look (RequestOK), and a confirmation that is hashing holds the   *)
(* number of a row (ConfirmOK).                                              *)
(*****************************************************************************)
Tokens == [used : BOOLEAN, expired : BOOLEAN, changes : Nat, marked : BOOLEAN,
           older : SUBSET Nat]
Asking == [phase : {"none", "marking", "done"}, older : SUBSET Nat,
           found : SUBSET Nat, holds : SUBSET Nat]
Confirming == [phase : {"none", "read", "hashing", "done"}, row : Nat,
               answer : {"none", "ok", "invalid", "expired", "disabled", "failed"}]
Accounts == [active : BOOLEAN, password : Nat, failures : Nat]

ResetsTypes ==
  /\ issued \in Seq(Tokens)
  /\ request \in [Requests -> Asking]
  /\ confirm \in [Confirmations -> Confirming]
  /\ account \in Accounts
  /\ account.password \in Rows \cup {0}

TokenRowOK(k) ==
  /\ issued[k].used <=> issued[k].changes = 1 \/ issued[k].marked
  /\ issued[k].changes <= 1
  /\ \A j \in issued[k].older : j \in Rows /\ issued[j].used

\* The confirmations that were told that the token of the row has worked.
Winners(k) == {c \in Confirmations : confirm[c].row = k /\ confirm[c].answer = "ok"}
WonOnce(k) ==
  \/ issued[k].changes = 0 /\ Winners(k) = {}
  \/ issued[k].changes = 1 /\ \E c \in Confirmations : Winners(k) = {c}

\* What a request under way has seen of the rows.
RequestOK(r) ==
  /\ r.holds \subseteq r.found /\ r.found \subseteq Rows
  /\ r.phase = "marking" =>
       r.older \subseteq Rows /\ \A j \in r.older : j \in r.found \/ issued[j].used

ConfirmOK(c) ==
  /\ c.row \in Rows \cup {0}
  /\ c.phase \in {"read", "hashing"} => c.row \in Rows
  /\ c.answer = "ok" => c.phase = "done"

Finished == {q \in Requests : request[q].phase = "done"}

ResetsInv ==
  /\ ResetsTypes
  /\ \A k \in Rows : TokenRowOK(k) /\ WonOnce(k)
  /\ \A q \in Requests : RequestOK(request[q])
  /\ \A c \in Confirmations : ConfirmOK(confirm[c])
  /\ Len(issued) <= Cardinality(Finished)
-----------------------------------------------------------------------------
LEMMA InitResetsInv == RInit => ResetsInv
<1> SUFFICES ASSUME RInit PROVE ResetsInv
  OBVIOUS
<1>1. Rows = {} /\ Len(issued) = 0
  BY DEF RInit, Rows
<1>2. ResetsTypes
  BY <1>1 DEF RInit, ResetsTypes, Tokens, Asking, Confirming, Accounts
<1>3. \A q \in Requests : RequestOK(request[q])
  BY DEF RInit, RequestOK
<1>4. \A c \in Confirmations : ConfirmOK(confirm[c])
  BY DEF RInit, ConfirmOK
<1>5. Len(issued) <= Cardinality(Finished)
  <2>1. Finished = {}
    BY DEF RInit, Finished
  <2> QED
    BY <1>1, <2>1, FS_EmptySet
<1> QED
  BY <1>1, <1>2, <1>3, <1>4, <1>5 DEF ResetsInv

LEMMA FinishedFinite == IsFiniteSet(Finished) /\ Cardinality(Finished) \in Nat
<1>1. IsFiniteSet(Finished)
  BY ResetsAssumption, FS_Subset DEF Finished
<1> QED
  BY <1>1, FS_CardinalityType

\* The type of one row.
LEMMA OfRow ==
  ASSUME ResetsInv, NEW k \in Rows
  PROVE  /\ issued[k] \in Tokens /\ k \in Nat \ {0}
         /\ TokenRowOK(k) /\ WonOnce(k)
BY DEF ResetsInv, ResetsTypes, Rows

\* Rows are never taken back and, once used, stay used.
Grows ==
  /\ Rows \subseteq Rows'
  /\ \A k \in Rows : issued[k].used => issued'[k].used

\* What is remembered of the rows stays true while they grow.
LEMMA KeepsRequest ==
  ASSUME NEW r, RequestOK(r), Grows
  PROVE  RequestOK(r)'
BY DEF RequestOK, Grows

LEMMA KeepsConfirm ==
  ASSUME NEW c, ConfirmOK(c), Rows \subseteq Rows'
  PROVE  ConfirmOK(c)'
BY DEF ConfirmOK

\* Rows that no one changes but for their expiry.
Untouched ==
  /\ Rows' = Rows /\ Len(issued') = Len(issued)
  /\ \A k \in Rows : /\ issued'[k].used = issued[k].used
                     /\ issued'[k].changes = issued[k].changes
                     /\ issued'[k].marked = issued[k].marked
                     /\ issued'[k].older = issued[k].older

\* A step that gives or uses no token keeps the invariant if what it writes of
\* a request or a confirmation is right.
LEMMA UntouchedKeeps ==
  ASSUME ResetsInv, ResetsTypes', Untouched,
         \A q \in Requests : request'[q] = request[q] \/ RequestOK(request'[q]),
         \A q \in Requests : request[q].phase = "done" => request'[q].phase = "done",
         \A c \in Confirmations :
            \/ confirm'[c] = confirm[c]
            \/ ConfirmOK(confirm'[c]) /\ confirm'[c].answer # "ok" /\ confirm[c].answer # "ok"
  PROVE  ResetsInv'
<1>1. Grows
  BY DEF Untouched, Grows
<1>2. \A k \in Rows' : TokenRowOK(k)' /\ WonOnce(k)'
  <2> TAKE k \in Rows'
  <2>1. Winners(k)' = Winners(k)
    BY DEF Winners
  <2> QED
    BY <2>1 DEF ResetsInv, Untouched, TokenRowOK, WonOnce
<1>3. \A q \in Requests : RequestOK(request[q])'
  <2> TAKE q \in Requests
  <2>1. RequestOK(request'[q])
    BY DEF ResetsInv
  <2> QED
    BY <2>1 DEF RequestOK, Untouched
<1>4. \A c \in Confirmations : ConfirmOK(confirm[c])'
  BY DEF ResetsInv, ConfirmOK, Untouched
<1>5. Len(issued') <= Cardinality(Finished')
  <2>1. Finished \subseteq Finished' /\ IsFiniteSet(Finished')
    BY ResetsAssumption, FS_Subset DEF Finished
  <2>2. Cardinality(Finished) <= Cardinality(Finished') /\ Cardinality(Finished') \in Nat
    BY <2>1, FS_Subset, FS_CardinalityType
  <2>3. Len(issued) \in Nat
    BY DEF ResetsInv, ResetsTypes
  <2> QED
    BY <2>2, <2>3, FinishedFinite DEF ResetsInv, Untouched
<1> QED
  BY <1>2, <1>3, <1>4, <1>5 DEF ResetsInv
-----------------------------------------------------------------------------
\* A request begins: it finds the unused rows, or gets nothing.
LEMMA MarkUnusedKeeps ==
  ASSUME ResetsInv, NEW q \in Requests, MarkUnused(q)
  PROVE  ResetsInv'
<1> DEFINE r == Marking(Unused)
<1>1. request' = [request EXCEPT ![q] = r] /\ UNCHANGED <<issued, confirm, account>>
  BY DEF MarkUnused
<1>2. r \in Asking /\ RequestOK(r)
  BY DEF Marking, Asking, Unused, Rows, ResetsInv, ResetsTypes, RequestOK
<1>3. request[q].phase # "done"
  BY DEF MarkUnused
<1> HIDE DEF r
<1>4. ResetsTypes'
  BY <1>1, <1>2 DEF ResetsInv, ResetsTypes, Rows
<1>5. Untouched
  BY <1>1 DEF Untouched, Rows
<1> QED
  BY <1>1, <1>2, <1>3, <1>4, <1>5, UntouchedKeeps DEF ResetsInv, ResetsTypes

\* A request ends without a token.
LEMMA NoTokenKeeps ==
  ASSUME ResetsInv, NEW q \in Requests, GiveNoToken(q) \/ FailToCreate(q)
  PROVE  ResetsInv'
<1>1. PICK r \in Asking : /\ request' = [request EXCEPT ![q] = r]
                          /\ r.phase = "done" /\ RequestOK(r)
  <2>1. request[q] \in Asking /\ RequestOK(request[q])
    BY DEF ResetsInv, ResetsTypes
  <2>2. CASE GiveNoToken(q)
    <3> DEFINE r == [request[q] EXCEPT !.phase = "done"]
    <3>1. r \in Asking /\ r.phase = "done" /\ RequestOK(r)
      BY <2>1 DEF Asking, RequestOK
    <3>2. request' = [request EXCEPT ![q] = r]
      BY <2>2 DEF GiveNoToken
    <3> QED
      BY <3>1, <3>2
  <2>3. CASE FailToCreate(q)
    <3> DEFINE r == Over(request[q])
    <3>1. r \in Asking /\ r.phase = "done" /\ RequestOK(r)
      BY <2>1 DEF Asking, RequestOK, Over
    <3>2. request' = [request EXCEPT ![q] = r]
      BY <2>3 DEF FailToCreate
    <3> QED
      BY <3>1, <3>2
  <2> QED
    BY <2>2, <2>3
<1>2. UNCHANGED <<issued, confirm>> /\ account' \in Accounts
      /\ account'.password = account.password
  BY DEF GiveNoToken, FailToCreate, ResetsInv, ResetsTypes, Accounts
<1>3. ResetsTypes'
  BY <1>1, <1>2 DEF ResetsInv, ResetsTypes, Rows
<1>4. Untouched
  BY <1>2 DEF Untouched, Rows
<1> QED
  BY <1>1, <1>2, <1>3, <1>4, UntouchedKeeps DEF ResetsInv, ResetsTypes

\* A confirmation that sets no password.
LEMMA ConfirmKeeps ==
  ASSUME ResetsInv, NEW c \in Confirmations,
         \/ \E k \in Rows : Consume(c, k)
         \/ CheckUser(c) \/ AlreadyUsed(c) \/ FailToSet(c)
  PROVE  ResetsInv'
<1>0. confirm[c] \in Confirming /\ ConfirmOK(confirm[c]) /\ Rows \subseteq Nat
  BY DEF ResetsInv, ResetsTypes, Rows
<1>1. confirm[c].answer # "ok"
  BY <1>0 DEF Consume, CheckUser, AlreadyUsed, FailToSet, ConfirmOK
<1>2. PICK n \in Confirming : /\ confirm' = [confirm EXCEPT ![c] = n]
                              /\ ConfirmOK(n) /\ n.answer # "ok"
  <2>1. ASSUME NEW k \in Rows, Consume(c, k)
        PROVE  \E n \in Confirming : /\ confirm' = [confirm EXCEPT ![c] = n]
                                     /\ ConfirmOK(n) /\ n.answer # "ok"
    <3> DEFINE n == IF issued[k].used THEN [phase |-> "done", row |-> k, answer |-> "invalid"]
                    ELSE IF issued[k].expired
                    THEN [phase |-> "done", row |-> k, answer |-> "expired"]
                    ELSE [phase |-> "read", row |-> k, answer |-> "none"]
    <3>1. n \in Confirming /\ ConfirmOK(n) /\ n.answer # "ok"
      BY <1>0 DEF Confirming, ConfirmOK
    <3> QED
      BY <2>1, <3>1 DEF Consume
  <2>2. CASE CheckUser(c)
    <3> DEFINE n == [confirm[c] EXCEPT
                       !.phase = IF account.active THEN "hashing" ELSE "done",
                       !.answer = IF account.active THEN "none" ELSE "disabled"]
    <3>1. n \in Confirming /\ ConfirmOK(n) /\ n.answer # "ok"
      BY <1>0, <2>2 DEF Confirming, ConfirmOK, CheckUser
    <3>2. confirm' = [confirm EXCEPT ![c] = n]
      BY <2>2 DEF CheckUser
    <3> QED
      BY <3>1, <3>2
  <2>3. CASE AlreadyUsed(c)
    <3> DEFINE n == Told(confirm[c], "invalid")
    <3>1. n \in Confirming /\ ConfirmOK(n) /\ n.answer # "ok"
      BY <1>0 DEF Confirming, ConfirmOK, Told
    <3>2. confirm' = [confirm EXCEPT ![c] = n]
      BY <2>3 DEF AlreadyUsed
    <3> QED
      BY <3>1, <3>2
  <2>4. CASE FailToSet(c)
    <3> DEFINE n == Told(confirm[c], "failed")
    <3>1. n \in Confirming /\ ConfirmOK(n) /\ n.answer # "ok"
      BY <1>0 DEF Confirming, ConfirmOK, Told
    <3>2. confirm' = [confirm EXCEPT ![c] = n]
      BY <2>4 DEF FailToSet
    <3> QED
      BY <3>1, <3>2
  <2> QED
    BY <2>1, <2>2, <2>3, <2>4
<1>3. UNCHANGED <<issued, request>> /\ account' \in Accounts
      /\ account'.password = account.password
  BY DEF Consume, CheckUser, AlreadyUsed, FailToSet, ResetsInv, ResetsTypes, Accounts
<1>4. ResetsTypes'
  BY <1>2, <1>3 DEF ResetsInv, ResetsTypes, Rows
<1>5. Untouched
  BY <1>3 DEF Untouched, Rows
<1> QED
  BY <1>1, <1>2, <1>3, <1>4, <1>5, UntouchedKeeps DEF ResetsInv, ResetsTypes

\* An hour goes by; someone disables the account.
LEMMA WorldKeeps ==
  ASSUME ResetsInv, DisableAccount \/ \E k \in Rows : TokenExpires(k)
  PROVE  ResetsInv'
<1>1. CASE DisableAccount
  <2>1. account' \in Accounts /\ account'.password = account.password
        /\ UNCHANGED <<issued, request, confirm>>
    BY <1>1 DEF DisableAccount, ResetsInv, ResetsTypes, Accounts
  <2>2. ResetsTypes' /\ Untouched
    BY <2>1 DEF ResetsInv, ResetsTypes, Rows, Untouched
  <2> QED
    BY <2>1, <2>2, UntouchedKeeps
<1>2. ASSUME NEW k \in Rows, TokenExpires(k) PROVE ResetsInv'
  <2> DEFINE t == [issued[k] EXCEPT !.expired = TRUE]
  <2>1. issued[k] \in Tokens
    BY OfRow
  <2>2. /\ t \in Tokens /\ t.used = issued[k].used /\ t.changes = issued[k].changes
        /\ t.marked = issued[k].marked /\ t.older = issued[k].older
    BY <2>1 DEF Tokens
  <2>3. issued' = [issued EXCEPT ![k] = t] /\ UNCHANGED <<request, confirm, account>>
    BY <1>2 DEF TokenExpires
  <2> HIDE DEF t
  <2>4. /\ issued' \in Seq(Tokens) /\ Len(issued') = Len(issued)
        /\ issued'[k] = t /\ \A j \in Rows : j # k => issued'[j] = issued[j]
    BY <2>2, <2>3 DEF ResetsInv, ResetsTypes, Rows
  <2>5. ResetsTypes' /\ Untouched
    BY <2>2, <2>3, <2>4 DEF ResetsInv, ResetsTypes, Rows, Untouched
  <2> QED
    BY <2>3, <2>5, UntouchedKeeps
<1> QED
  BY <1>1, <1>2
-----------------------------------------------------------------------------
\* The password is set: the row's token was unused, so that no one has won it
\* before, and this confirmation has.
LEMMA SetPasswordKeeps ==
  ASSUME ResetsInv, NEW c \in Confirmations, SetPassword(c)
  PROVE  ResetsInv'
<1>1. PICK k \in Rows : k = confirm[c].row
  BY DEF SetPassword, ResetsInv, ConfirmOK
<1>2. issued[k] \in Tokens /\ TokenRowOK(k) /\ WonOnce(k) /\ k \in Nat \ {0}
  BY OfRow
<1>3. issued[k].changes = 0 /\ ~issued[k].marked /\ Winners(k) = {}
  BY <1>1, <1>2 DEF SetPassword, TokenRowOK, WonOnce, Tokens
<1>4. PICK t \in Tokens :
        /\ issued' = [issued EXCEPT ![k] = t]
        /\ t.used = TRUE /\ t.changes = 1
        /\ t.marked = issued[k].marked /\ t.older = issued[k].older
  <2> DEFINE t == Spent(issued[k])
  <2>1. t \in Tokens /\ t.used = TRUE /\ t.changes = 1
        /\ t.marked = issued[k].marked /\ t.older = issued[k].older
    <3>1. PICK i : i = issued[k]
      OBVIOUS
    <3>2. i \in Tokens /\ i.changes = 0
      BY <1>2, <1>3, <3>1
    <3>3. Spent(i) = [used |-> TRUE, expired |-> i.expired, changes |-> 1,
                      marked |-> i.marked, older |-> i.older]
      <4>1. i.changes + 1 = 1
        BY <3>2
      <4>2. Spent(i) = [i EXCEPT !.used = TRUE, !.changes = 1]
        BY <4>1, Zenon DEF Spent
      <4> QED
        BY <3>2, <4>2 DEF Tokens
    <3>4. Spent(i) \in Tokens
      BY <3>2, <3>3 DEF Tokens
    <3>5. /\ Spent(i).used = TRUE /\ Spent(i).changes = 1
          /\ Spent(i).marked = i.marked /\ Spent(i).older = i.older
      BY <3>3
    <3> QED
      BY <3>1, <3>4, <3>5
  <2>2. issued' = [issued EXCEPT ![k] = t]
    BY <1>1 DEF SetPassword
  <2> QED
    BY <2>1, <2>2
<1>5. PICK n \in Confirming :
        /\ confirm' = [confirm EXCEPT ![c] = n]
        /\ n.row = k /\ n.answer = "ok" /\ n.phase = "done"
  <2> DEFINE n == Told(confirm[c], "ok")
  <2>1. confirm[c] \in Confirming
    BY DEF ResetsInv, ResetsTypes
  <2>2. confirm' = [confirm EXCEPT ![c] = n]
    BY DEF SetPassword
  <2>3. n \in Confirming /\ n.row = k /\ n.answer = "ok" /\ n.phase = "done"
    BY <1>1, <2>1 DEF Confirming, Told
  <2> QED
    BY <2>2, <2>3
<1>6. /\ account' = [account EXCEPT !.password = k]
      /\ UNCHANGED request /\ confirm[c].answer # "ok"
  BY <1>1 DEF SetPassword, ResetsInv, ConfirmOK
<1>7. /\ issued' \in Seq(Tokens) /\ Len(issued') = Len(issued) /\ Rows' = Rows
      /\ issued'[k] = t /\ \A j \in Rows : j # k => issued'[j] = issued[j]
  BY <1>4 DEF ResetsInv, ResetsTypes, Rows
<1>8. /\ confirm' \in [Confirmations -> Confirming] /\ confirm'[c] = n
      /\ \A d \in Confirmations : d # c => confirm'[d] = confirm[d]
  BY <1>5 DEF ResetsInv, ResetsTypes
<1>9. ResetsTypes'
  BY <1>2, <1>6, <1>7, <1>8 DEF ResetsInv, ResetsTypes, Accounts
<1>10. Grows
  BY <1>4, <1>7 DEF Grows
<1>11. ASSUME NEW j \in Rows' PROVE TokenRowOK(j)' /\ WonOnce(j)'
  <2>1. TokenRowOK(j) /\ WonOnce(j) /\ j \in Rows
    BY <1>7 DEF ResetsInv
  <2>2. CASE j = k
    <3>1. TokenRowOK(j)'
      <4>1. \A i \in issued[k].older : i \in Rows' /\ issued'[i].used
        BY <1>2, <1>7, <1>10 DEF TokenRowOK, Grows
      <4> QED
        BY <1>4, <1>7, <2>2, <4>1 DEF TokenRowOK
    <3>2. Winners(k)' = {c}
      BY <1>3, <1>5, <1>8 DEF Winners
    <3> QED
      BY <1>4, <1>7, <2>2, <3>1, <3>2 DEF WonOnce
  <2>3. CASE j # k
    <3>1. issued'[j] = issued[j]
      BY <1>7, <2>1, <2>3
    <3>2. TokenRowOK(j)'
      BY <1>7, <1>10, <2>1, <3>1 DEF TokenRowOK, Grows
    <3>3. Winners(j)' = Winners(j)
      BY <1>5, <1>6, <1>8, <2>3 DEF Winners
    <3> QED
      BY <2>1, <3>1, <3>2, <3>3 DEF WonOnce
  <2> QED
    BY <2>2, <2>3
<1>12. \A q \in Requests : RequestOK(request[q])'
  BY <1>6, <1>10, KeepsRequest DEF ResetsInv
<1>13. \A d \in Confirmations : ConfirmOK(confirm[d])'
  <2>1. ConfirmOK(n)'
    BY <1>5, <1>7 DEF ConfirmOK
  <2> QED
    BY <1>7, <1>8, <2>1, KeepsConfirm DEF ResetsInv
<1>14. Finished' = Finished
  BY <1>6 DEF Finished
<1> QED
  BY <1>7, <1>9, <1>11, <1>12, <1>13, <1>14 DEF ResetsInv

\* The token is inserted: all that was older is used by then.
LEMMA CreateTokenKeeps ==
  ASSUME ResetsInv, NEW q \in Requests, CreateToken(q)
  PROVE  ResetsInv'
<1> DEFINE mark(k) == IF k \in request[q].found /\ ~issued[k].used
                      THEN [issued[k] EXCEPT !.used = TRUE, !.marked = TRUE]
                      ELSE issued[k]
           marked == [k \in Rows |-> mark(k)]
           new == [used |-> FALSE, expired |-> FALSE, changes |-> 0, marked |-> FALSE,
                   older |-> request[q].older]
<1> PICK r : r = Over(request[q])
  OBVIOUS
<1>1. /\ request[q] \in Asking /\ RequestOK(request[q]) /\ request[q].phase = "marking"
  BY DEF CreateToken, ResetsInv, ResetsTypes
<1>2. Rows = 1..Len(issued) /\ Len(issued) \in Nat
  BY DEF Rows, ResetsInv, ResetsTypes
<1>3. new \in Tokens /\ new.older = request[q].older /\ ~new.used /\ ~new.marked
      /\ new.changes = 0
  BY <1>1 DEF Tokens, Asking
<1>4. r \in Asking /\ r.phase = "done" /\ RequestOK(r)'
  BY <1>1 DEF Asking, RequestOK, Over
<1>5. issued' = Append(marked, new) /\ UNCHANGED <<confirm, account>>
      /\ request' = [request EXCEPT ![q] = r]
  BY DEF CreateToken
<1>6. ASSUME NEW k \in Rows
      PROVE  /\ mark(k) \in Tokens
             /\ mark(k).used = (issued[k].used \/ k \in request[q].found)
             /\ mark(k).marked = (issued[k].marked \/ (k \in request[q].found /\ ~issued[k].used))
             /\ mark(k).changes = issued[k].changes /\ mark(k).older = issued[k].older
  <2>1. issued[k] \in Tokens
    BY OfRow
  <2> QED
    BY <2>1 DEF Tokens
<1> HIDE DEF mark, new
<1>7. marked \in Seq(Tokens) /\ Len(marked) = Len(issued)
  BY <1>2, <1>6
<1>8. /\ issued' \in Seq(Tokens) /\ Len(issued') = Len(issued) + 1
      /\ issued'[Len(issued) + 1] = new
      /\ \A k \in Rows : issued'[k] = mark(k)
  BY <1>2, <1>3, <1>5, <1>7
<1>9. Rows' = Rows \cup {Len(issued) + 1}
  BY <1>2, <1>8 DEF Rows
<1>10. ResetsTypes'
  BY <1>4, <1>5, <1>8, <1>9 DEF ResetsInv, ResetsTypes
<1>11. Grows
  BY <1>6, <1>8, <1>9 DEF Grows
<1>12. ASSUME NEW k \in Rows PROVE TokenRowOK(k)' /\ WonOnce(k)'
  <2>1. TokenRowOK(k) /\ WonOnce(k) /\ issued[k] \in Tokens
    BY OfRow
  <2>2. issued'[k] = mark(k)
    BY <1>8
  <2>3. TokenRowOK(k)'
    BY <1>6, <1>11, <2>1, <2>2 DEF TokenRowOK, Grows, Tokens
  <2>4. Winners(k)' = Winners(k)
    BY <1>5 DEF Winners
  <2> QED
    BY <1>6, <2>1, <2>2, <2>3, <2>4 DEF WonOnce
<1>13. ASSUME NEW k, k = Len(issued) + 1 PROVE TokenRowOK(k)' /\ WonOnce(k)'
  <2>1. issued'[k] = new
    BY <1>8, <1>13
  <2>2. \A j \in request[q].older : j \in Rows /\ issued'[j].used
    BY <1>1, <1>6, <1>8 DEF RequestOK
  <2>3. TokenRowOK(k)'
    BY <1>3, <1>9, <2>1, <2>2 DEF TokenRowOK
  <2>4. ASSUME NEW c \in Confirmations PROVE confirm[c].row # k
    <3>1. confirm[c].row \in Rows \cup {0}
      BY DEF ResetsInv, ConfirmOK
    <3> QED
      BY <1>2, <1>13, <3>1
  <2>5. Winners(k)' = {}
    BY <1>5, <2>4 DEF Winners
  <2> QED
    BY <1>3, <2>1, <2>3, <2>5 DEF WonOnce
<1>14. ASSUME NEW p \in Requests PROVE RequestOK(request[p])'
  <2>1. CASE p = q
    BY <1>4, <1>5, <2>1 DEF ResetsInv, ResetsTypes
  <2>2. CASE p # q
    <3>1. request'[p] = request[p] /\ RequestOK(request[p])
      BY <1>5, <2>2 DEF ResetsInv, ResetsTypes
    <3> QED
      BY <1>11, <3>1, KeepsRequest
  <2> QED
    BY <2>1, <2>2
<1>15. \A c \in Confirmations : ConfirmOK(confirm[c])'
  BY <1>5, <1>9, KeepsConfirm DEF ResetsInv
<1>16. Len(issued') <= Cardinality(Finished')
  <2>1. Finished' = Finished \cup {q} /\ q \notin Finished
    BY <1>1, <1>4, <1>5 DEF Finished, ResetsInv, ResetsTypes
  <2>2. Cardinality(Finished') = Cardinality(Finished) + 1
    BY <2>1, FinishedFinite, FS_AddElement
  <2> QED
    BY <1>2, <1>8, <2>2, FinishedFinite DEF ResetsInv
<1> QED
  BY <1>9, <1>10, <1>12, <1>13, <1>14, <1>15, <1>16 DEF ResetsInv
-----------------------------------------------------------------------------
LEMMA NextResetsInv == ResetsInv /\ [RNext]_rVars => ResetsInv'
<1> SUFFICES ASSUME ResetsInv, [RNext]_rVars PROVE ResetsInv'
  OBVIOUS
<1>1. CASE UNCHANGED rVars
  <2>1. ResetsTypes' /\ Untouched
    BY <1>1 DEF rVars, ResetsInv, ResetsTypes, Rows, Untouched
  <2> QED
    BY <1>1, <2>1, UntouchedKeeps DEF rVars
<1> QED
  BY <1>1, MarkUnusedKeeps, NoTokenKeeps, CreateTokenKeeps, ConfirmKeeps, SetPasswordKeeps,
     WorldKeeps DEF RNext

\* Numbers of rows, of requests and of confirmations stay within their ranges.
LEMMA ResetsInvTypes == ResetsInv => ResetsTypeOK
<1> SUFFICES ASSUME ResetsInv PROVE ResetsTypeOK
  OBVIOUS
<1>1. Len(issued) <= Cardinality(Requests)
  <2>1. Cardinality(Finished) <= Cardinality(Requests) /\ Cardinality(Requests) \in Nat
    BY ResetsAssumption, FS_Subset, FS_CardinalityType DEF Finished
  <2>2. Len(issued) \in Nat
    BY DEF ResetsInv, ResetsTypes
  <2> QED
    BY <2>1, <2>2, FinishedFinite DEF ResetsInv
<1> QED
  BY <1>1 DEF ResetsInv, ResetsTypes, RequestOK, ConfirmOK, ResetsTypeOK

LEMMA ResetsInvSound == ResetsInv => ResetsSound
<1> SUFFICES ASSUME ResetsInv PROVE ResetsSound
  OBVIOUS
<1>1. OncePerToken
  <2> SUFFICES ASSUME NEW k \in Rows
               PROVE  /\ issued[k].changes <= 1
                      /\ issued[k].changes = Cardinality(Winners(k))
    BY DEF OncePerToken, Winners
  <2>1. TokenRowOK(k) /\ WonOnce(k)
    BY OfRow
  <2>2. CASE Winners(k) = {}
    BY <2>1, <2>2, FS_EmptySet DEF TokenRowOK, WonOnce
  <2>3. CASE \E c \in Confirmations : Winners(k) = {c}
    BY <2>1, <2>3, FS_Singleton DEF TokenRowOK, WonOnce
  <2> QED
    BY <2>1, <2>2, <2>3 DEF WonOnce
<1>2. OlderAreDead /\ DeadForAReason
  BY DEF ResetsInv, TokenRowOK, OlderAreDead, DeadForAReason
<1> QED
  BY <1>1, <1>2, ResetsInvTypes DEF ResetsSound

THEOREM ResetsInductive == RSpec => []ResetsInv
BY InitResetsInv, NextResetsInv, PTL DEF RSpec

\* A token changes the password once, however many confirmations bring it at
\* the same time; once a token is handed out, those from before it was asked
\* for are dead; and a token dies of nothing else (services/password-reset.ts,
\* routes/auth.ts), for any number of requests, confirmations and failures.
THEOREM ResetsAreSound == RSpec => []ResetsSound
BY ResetsInductive, ResetsInvSound, PTL

-----------------------------------------------------------------------------
(*****************************************************************************)
(* Key rotation: it loses no token that it is not raced for, and forgets none.*)
(*                                                                           *)
(* Steady says of a dongle that nobody meddled with what the job relies on: at*)
(* most one pairing is under way, it is the owner's, and so is the stored    *)
(* token; and an entry of the job's list whose row is still the stored one has*)
(* the same token in it.  Pending says of a token that is due that the job has*)
(* moved it or has it on its list still.                                     *)
(*****************************************************************************)
Users == Owners \cup {Nobody}
RowType == [id : Nat, version : 0..Target, token : Nat, boundTo : Users,
            boundAt : Nat, createdAt : Nat]
SealType == [version : {OldKey, Target}, token : Nat, boundTo : Owners, boundAt : Nat]
Entries == [dongle : Paired, row : RowType, owner : Users]

RotationTypes ==
  /\ owner \in [Paired -> Users]
  /\ stored \in [Paired -> RowType]
  /\ pairings \in Nat
  /\ DOMAIN pairing \subseteq 1..pairings
  /\ \A n \in DOMAIN pairing : pairing[n] \in [dongle : Paired, sealed : SealType]
  /\ keyring \in {OldKey, Target}
  /\ job \in [phase : {"idle", "running"}, list : SUBSET Entries,
              due : SUBSET Paired, runs : Nat]

\* Row ids: those of pairings so far, and 0 without a row.
KeyRowOK(row) ==
  /\ row.id \in 0..pairings
  /\ row.id = 0 <=> row = NoRow

ListOK == \A r \in job.list : r.row.id # 0

Steady(d) ==
  /\ \A m, n \in StoringFor(d) : m = n
  /\ \A n \in StoringFor(d) : /\ pairing[n].sealed.boundTo = owner[d]
                              /\ pairing[n].sealed.token = n
                              /\ pairing[n].sealed.boundAt = n
  /\ stored[d].id # 0 => /\ owner[d] # Nobody /\ stored[d].boundTo = owner[d]
                         /\ stored[d].boundAt = stored[d].createdAt
                         /\ stored[d].token = stored[d].createdAt
  /\ \A r \in job.list : r.dongle = d /\ stored[d].id = r.row.id =>
       /\ r.owner = owner[d]
       /\ r.row.token = stored[d].token /\ r.row.createdAt = stored[d].createdAt

Pending(d) ==
  \/ stored[d].version = Target
  \/ \E r \in job.list : r.dongle = d /\ r.owner # Nobody

RotationInv ==
  /\ RotationTypes
  /\ \A d \in Paired : KeyRowOK(stored[d])
  /\ ListOK
  /\ \A d \in Paired \ meddled : Steady(d)
  /\ \A d \in job.due : Pending(d)
-----------------------------------------------------------------------------
LEMMA InitRotationInv == KInit => RotationInv
<1> SUFFICES ASSUME KInit PROVE RotationInv
  OBVIOUS
<1> USE DEF KInit, NoJob
<1>1. DOMAIN pairing = {}
  OBVIOUS
<1>2. RotationTypes
  BY <1>1 DEF RotationTypes, Users, RowType, NoRow, OldKey, Target
<1>3. (\A d \in Paired : KeyRowOK(stored[d])) /\ ListOK /\ \A d \in job.due : Pending(d)
  BY DEF KeyRowOK, ListOK, NoRow
<1>4. \A d \in Paired : Steady(d)
  BY <1>1 DEF Steady, StoringFor, NoRow
<1> QED
  BY <1>2, <1>3, <1>4 DEF RotationInv

\* A dongle that a step has nothing to do with.
Aside(d) ==
  /\ owner'[d] = owner[d] /\ stored'[d] = stored[d]
  /\ StoringFor(d)' = StoringFor(d)
  /\ \A n \in StoringFor(d) : pairing'[n] = pairing[n]
  /\ \A r \in job'.list : r.dongle = d => r \in job.list

LEMMA AsideKeeps ==
  ASSUME NEW d, Steady(d), Aside(d)
  PROVE  Steady(d)'
BY DEF Steady, Aside

\* An entry of the list, and its dongle.
LEMMA OfEntry ==
  ASSUME RotationInv, NEW r \in job.list
  PROVE  /\ r \in Entries /\ r.dongle \in Paired /\ r.row \in RowType /\ r.row.id # 0
         /\ job.phase \in {"idle", "running"} /\ job.list \subseteq Entries
         /\ job.due \subseteq Paired /\ job.runs \in Nat
BY DEF RotationInv, RotationTypes, ListOK, Entries

LEMMA OfDongle ==
  ASSUME RotationInv, NEW d \in Paired
  PROVE  /\ stored[d] \in RowType /\ owner[d] \in Users /\ KeyRowOK(stored[d])
         /\ d \notin meddled => Steady(d)
BY DEF RotationInv, RotationTypes
-----------------------------------------------------------------------------
\* A pairing makes its user the owner.  A row that is there is already the
\* user's, or the dongle is meddled with.
LEMMA ClaimKeeps ==
  ASSUME RotationInv, NEW d \in Paired, NEW u \in Owners, Claim(d, u)
  PROVE  RotationInv'
<1>1. pairings \in Nat /\ pairings' = pairings + 1
  BY DEF Claim, RotationInv, RotationTypes
<1>2. PICK k : k = pairings + 1
  OBVIOUS
<1>3. k \in Nat /\ k \notin DOMAIN pairing /\ pairings' = k
  BY <1>1, <1>2 DEF RotationInv, RotationTypes
<1>4. PICK e \in [dongle : Paired, sealed : SealType] :
        /\ e.dongle = d /\ e.sealed.boundTo = u
        /\ e.sealed.token = k /\ e.sealed.boundAt = k
        /\ pairing' = [n \in DOMAIN pairing \cup {k} |-> IF n = k THEN e ELSE pairing[n]]
  <2> DEFINE e == [dongle |-> d, sealed |-> Sealed(k, u)]
  <2>1. e \in [dongle : Paired, sealed : SealType] /\ e.dongle = d /\ e.sealed.boundTo = u
        /\ e.sealed.token = k /\ e.sealed.boundAt = k
    BY <1>3 DEF Sealed, SealType, RotationInv, RotationTypes
  <2>2. pairing' = [n \in DOMAIN pairing \cup {k} |-> IF n = k THEN e ELSE pairing[n]]
    BY <1>3 DEF Claim
  <2> QED
    BY <2>1, <2>2
<1>5. /\ DOMAIN pairing' = DOMAIN pairing \cup {k} /\ pairing'[k] = e
      /\ \A n \in DOMAIN pairing : pairing'[n] = pairing[n]
  BY <1>3, <1>4
<1>6. /\ owner' = [owner EXCEPT ![d] = u]
      /\ UNCHANGED <<stored, keyring, job>> /\ meddled \subseteq meddled'
      /\ d \notin meddled' => StoringFor(d) = {} /\ owner[d] \in {Nobody, u}
  BY DEF Claim
<1>7. RotationTypes'
  <2>1. owner' \in [Paired -> Users]
    BY <1>6 DEF RotationInv, RotationTypes, Users
  <2>2. DOMAIN pairing' \subseteq 1..pairings'
    BY <1>1, <1>2, <1>3, <1>5 DEF RotationInv, RotationTypes
  <2>3. \A n \in DOMAIN pairing' : pairing'[n] \in [dongle : Paired, sealed : SealType]
    BY <1>4, <1>5 DEF RotationInv, RotationTypes
  <2> QED
    BY <1>3, <1>6, <2>1, <2>2, <2>3 DEF RotationInv, RotationTypes
<1>8. (\A c \in Paired : KeyRowOK(stored[c])') /\ ListOK'
  BY <1>1, <1>6 DEF RotationInv, KeyRowOK, ListOK
<1>9. ASSUME NEW c \in Paired \ meddled' PROVE Steady(c)'
  <2>1. Steady(c)
    BY <1>6 DEF RotationInv
  <2>2. CASE c # d
    <3>1. StoringFor(c)' = StoringFor(c)
      BY <1>3, <1>4, <1>5, <2>2 DEF StoringFor
    <3>2. \A n \in StoringFor(c) : pairing'[n] = pairing[n]
      BY <1>5 DEF StoringFor
    <3> QED
      BY <1>6, <2>1, <2>2, <3>1, <3>2, AsideKeeps DEF Aside, RotationInv, RotationTypes
  <2>3. CASE c = d
    <3>1. StoringFor(c)' = {k}
      BY <1>3, <1>4, <1>5, <1>6, <2>3 DEF StoringFor
    <3>2. owner'[c] = u /\ u # Nobody
      BY <1>6, <2>3, RotationAssumption DEF RotationInv, RotationTypes
    <3>3. stored[c].id # 0 => owner[c] = u
      BY <1>6, <2>1, <2>3 DEF Steady
    <3>4. \A r \in job.list : stored[c].id = r.row.id => stored[c].id # 0
      BY DEF RotationInv, ListOK
    <3> QED
      BY <1>4, <1>5, <1>6, <2>1, <3>1, <3>2, <3>3, <3>4 DEF Steady
  <2> QED
    BY <2>2, <2>3
<1>10. \A c \in job'.due : Pending(c)'
  BY <1>6 DEF RotationInv, Pending
<1> QED
  BY <1>6, <1>7, <1>8, <1>9, <1>10 DEF RotationInv

\* The row that the pairing writes is the owner's, and the only one under way.
\* The job has it not on its list, or the dongle is meddled with.
LEMMA StoreTokenKeeps ==
  ASSUME RotationInv, NEW k \in DOMAIN pairing, StoreToken(k)
  PROVE  RotationInv'
<1>1. PICK d \in Paired : d = pairing[k].dongle
  BY DEF RotationInv, RotationTypes
<1>2. PICK s \in SealType : s = pairing[k].sealed
  BY DEF RotationInv, RotationTypes
<1>3. k \in Nat \ {0} /\ k <= pairings /\ pairings \in Nat
  BY DEF RotationInv, RotationTypes
<1>4. stored[d] \in RowType /\ KeyRowOK(stored[d]) /\ s.boundTo # Nobody
  BY <1>2, RotationAssumption, OfDongle DEF SealType
<1>5. PICK w \in RowType :
        /\ stored' = [stored EXCEPT ![d] = w] /\ w.id # 0 /\ w.id <= pairings
        /\ w.token = s.token /\ w.boundTo = s.boundTo /\ w.boundAt = s.boundAt
        /\ w.createdAt = k
  <2> DEFINE w == [id |-> IF stored[d] = NoRow THEN k ELSE stored[d].id,
                   version |-> s.version, token |-> s.token, boundTo |-> s.boundTo,
                   boundAt |-> s.boundAt, createdAt |-> k]
  <2>1. w \in RowType /\ w.id # 0 /\ w.id <= pairings
    BY <1>2, <1>3, <1>4 DEF RowType, SealType, KeyRowOK, Users, OldKey, Target
  <2>2. stored' = [stored EXCEPT ![d] = w]
    BY <1>1, <1>2 DEF StoreToken
  <2> QED
    BY <2>1, <2>2
<1>6. /\ meddled \subseteq meddled' /\ (d \notin meddled' => ~Listed(d))
      /\ job' = [job EXCEPT !.due = @ \ {d}]
      /\ pairing' = [m \in DOMAIN pairing \ {k} |-> pairing[m]]
      /\ UNCHANGED <<owner, pairings, keyring>>
  BY <1>1 DEF StoreToken
<1>7. job'.list = job.list /\ job'.due = job.due \ {d}
      /\ job' \in [phase : {"idle", "running"}, list : SUBSET Entries,
                   due : SUBSET Paired, runs : Nat]
  BY <1>6 DEF RotationInv, RotationTypes
<1>8. /\ stored'[d] = w /\ \A c \in Paired : c # d => stored'[c] = stored[c]
      /\ stored' \in [Paired -> RowType]
  BY <1>5 DEF RotationInv, RotationTypes
<1>9. RotationTypes'
  BY <1>6, <1>7, <1>8 DEF RotationInv, RotationTypes
<1>10. \A c \in Paired : KeyRowOK(stored[c])'
  <2>1. w # NoRow
    BY <1>5 DEF NoRow
  <2> QED
    BY <1>3, <1>5, <1>6, <1>8, <2>1 DEF RotationInv, KeyRowOK, RowType
<1>11. ListOK'
  BY <1>7 DEF RotationInv, ListOK
<1>12. ASSUME NEW c \in Paired \ meddled' PROVE Steady(c)'
  <2>1. Steady(c)
    BY <1>6 DEF RotationInv
  <2>2. CASE c # d
    <3>1. StoringFor(c)' = StoringFor(c)
      BY <1>1, <1>6, <2>2 DEF StoringFor
    <3>2. \A n \in StoringFor(c) : pairing'[n] = pairing[n]
      BY <1>1, <1>6, <2>2 DEF StoringFor
    <3> QED
      BY <1>6, <1>7, <1>8, <2>1, <2>2, <3>1, <3>2, AsideKeeps DEF Aside
  <2>3. CASE c = d
    <3>1. k \in StoringFor(c) /\ StoringFor(c)' = StoringFor(c) \ {k}
      BY <1>1, <1>6, <2>3 DEF StoringFor
    <3>2. StoringFor(c)' = {}
      BY <2>1, <3>1 DEF Steady
    <3>3. s.boundTo = owner[c] /\ s.token = k /\ s.boundAt = k
      BY <1>2, <2>1, <3>1 DEF Steady
    <3>4. \A r \in job'.list : r.dongle # c
      BY <1>6, <1>7, <2>3 DEF Listed
    <3> QED
      BY <1>4, <1>5, <1>6, <1>8, <2>3, <3>2, <3>3, <3>4 DEF Steady
  <2> QED
    BY <2>2, <2>3
<1>13. \A c \in job'.due : Pending(c)'
  BY <1>7, <1>8 DEF RotationInv, Pending, RotationTypes
<1> QED
  BY <1>9, <1>10, <1>11, <1>12, <1>13 DEF RotationInv

\* The row is not written: the pairing is under way no more.
LEMMA FailToStoreKeeps ==
  ASSUME RotationInv, NEW k \in DOMAIN pairing, FailToStore(k)
  PROVE  RotationInv'
<1>1. /\ pairing' = [m \in DOMAIN pairing \ {k} |-> pairing[m]]
      /\ UNCHANGED <<owner, stored, pairings, keyring, job, meddled>>
  BY DEF FailToStore
<1>2. /\ DOMAIN pairing' = DOMAIN pairing \ {k}
      /\ \A m \in DOMAIN pairing' : pairing'[m] = pairing[m]
  BY <1>1
<1>3. RotationTypes'
  BY <1>1, <1>2 DEF RotationInv, RotationTypes
<1>4. (\A d \in Paired : KeyRowOK(stored[d])') /\ ListOK'
  BY <1>1 DEF RotationInv, KeyRowOK, ListOK
<1>5. ASSUME NEW d \in Paired \ meddled' PROVE Steady(d)'
  <2>1. Steady(d)
    BY <1>1 DEF RotationInv
  <2>2. StoringFor(d)' \subseteq StoringFor(d)
    BY <1>2 DEF StoringFor
  <2>3. \A n \in StoringFor(d)' : pairing'[n] = pairing[n]
    BY <1>2 DEF StoringFor
  <2> QED
    BY <1>1, <2>1, <2>2, <2>3 DEF Steady
<1>6. \A d \in job'.due : Pending(d)'
  BY <1>1 DEF RotationInv, Pending
<1> QED
  BY <1>3, <1>4, <1>5, <1>6 DEF RotationInv

\* The row is gone, and with it what is due.
LEMMA UnpairKeeps ==
  ASSUME RotationInv, NEW d \in Paired, Unpair(d)
  PROVE  RotationInv'
<1>1. /\ meddled \subseteq meddled' /\ (d \notin meddled' => StoringFor(d) = {})
      /\ owner' = [owner EXCEPT ![d] = Nobody] /\ stored' = [stored EXCEPT ![d] = NoRow]
      /\ job' = [job EXCEPT !.due = @ \ {d}]
      /\ UNCHANGED <<pairing, pairings, keyring>>
  BY DEF Unpair
<1>2. job'.list = job.list /\ job'.due = job.due \ {d}
      /\ job' \in [phase : {"idle", "running"}, list : SUBSET Entries,
                   due : SUBSET Paired, runs : Nat]
  BY <1>1 DEF RotationInv, RotationTypes
<1>3. NoRow \in RowType /\ NoRow.id = 0
  BY DEF NoRow, RowType, Users, Target
<1>4. /\ stored'[d] = NoRow /\ \A c \in Paired : c # d => stored'[c] = stored[c]
      /\ stored' \in [Paired -> RowType]
  BY <1>1, <1>3 DEF RotationInv, RotationTypes
<1>5. /\ owner'[d] = Nobody /\ \A c \in Paired : c # d => owner'[c] = owner[c]
      /\ owner' \in [Paired -> Users]
  BY <1>1 DEF RotationInv, RotationTypes, Users
<1>6. RotationTypes'
  BY <1>1, <1>2, <1>4, <1>5 DEF RotationInv, RotationTypes
<1>7. (\A c \in Paired : KeyRowOK(stored[c])') /\ ListOK'
  BY <1>1, <1>2, <1>3, <1>4 DEF RotationInv, KeyRowOK, ListOK, RotationTypes
<1>8. ASSUME NEW c \in Paired \ meddled' PROVE Steady(c)'
  <2>1. Steady(c)
    BY <1>1 DEF RotationInv
  <2>2. CASE c # d
    BY <1>1, <1>2, <1>4, <1>5, <2>1, <2>2, AsideKeeps DEF Aside, StoringFor
  <2>3. CASE c = d
    <3>1. StoringFor(c)' = {}
      BY <1>1, <2>3 DEF StoringFor
    <3>2. stored'[c].id = 0 /\ \A r \in job'.list : r.row.id # 0
      BY <1>2, <1>3, <1>4, <2>3 DEF RotationInv, ListOK
    <3> QED
      BY <3>1, <3>2 DEF Steady
  <2> QED
    BY <2>2, <2>3
<1>9. \A c \in job'.due : Pending(c)'
  BY <1>2, <1>4 DEF RotationInv, Pending, RotationTypes
<1> QED
  BY <1>6, <1>7, <1>8, <1>9 DEF RotationInv
-----------------------------------------------------------------------------
\* The job reads the rows: an entry is what is stored, and what is due is on
\* the list.
LEMMA StartJobKeeps ==
  ASSUME RotationInv, StartJob
  PROVE  RotationInv'
<1> DEFINE entry(d) == [dongle |-> d, row |-> stored[d], owner |-> owner[d]]
<1>1. /\ job' = [NoJob EXCEPT !.phase = "running", !.runs = job.runs + 1,
                              !.list = {entry(d) : d \in Old},
                              !.due = {d \in Old : owner[d] # Nobody}]
      /\ UNCHANGED <<owner, stored, pairing, pairings, keyring, meddled>>
  BY DEF StartJob
<1>2. job'.list = {entry(d) : d \in Old} /\ job'.due = {d \in Old : owner[d] # Nobody}
  BY <1>1 DEF NoJob
<1>3. \A d \in Old : d \in Paired /\ entry(d) \in Entries
  BY DEF Old, Entries, RotationInv, RotationTypes
<1>4. job' \in [phase : {"idle", "running"}, list : SUBSET Entries,
                due : SUBSET Paired, runs : Nat]
  <2>1. {entry(d) : d \in Old} \in SUBSET Entries
    BY <1>3
  <2>2. {d \in Old : owner[d] # Nobody} \in SUBSET Paired
    BY <1>3
  <2>3. job.runs + 1 \in Nat
    BY DEF RotationInv, RotationTypes
  <2> HIDE DEF entry
  <2> QED
    BY <1>1, <2>1, <2>2, <2>3 DEF NoJob
<1>5. RotationTypes'
  BY <1>1, <1>4 DEF RotationInv, RotationTypes
<1>6. \A r \in job'.list : \E d \in Old : r.dongle = d /\ r.row = stored[d] /\ r.owner = owner[d]
  BY <1>2
<1>7. ListOK'
  <2>1. \A d \in Old : stored[d].id # 0
    BY DEF Old, RotationInv, KeyRowOK
  <2> QED
    BY <1>6, <2>1 DEF ListOK
<1>8. \A d \in Paired \ meddled' : Steady(d)'
  BY <1>1, <1>6 DEF RotationInv, Steady, StoringFor
<1>9. \A d \in job'.due : Pending(d)'
  <2> TAKE d \in job'.due
  <2>1. d \in Old /\ owner[d] # Nobody /\ entry(d) \in job'.list
    BY <1>2
  <2>2. entry(d).dongle = d /\ entry(d).owner = owner[d]
    OBVIOUS
  <2> HIDE DEF entry
  <2> QED
    BY <2>1, <2>2 DEF Pending
<1>10. \A d \in Paired : KeyRowOK(stored[d])'
  BY <1>1 DEF RotationInv, KeyRowOK
<1> QED
  BY <1>5, <1>7, <1>8, <1>9, <1>10 DEF RotationInv

\* A step that only takes entries off the list, none of them one that is due,
\* or ends the job.
LEMMA ShorterKeeps ==
  ASSUME RotationInv, UNCHANGED <<owner, stored, pairing, pairings, keyring, meddled>>,
         job' \in [phase : {"idle", "running"}, list : SUBSET Entries,
                   due : SUBSET Paired, runs : Nat],
         job'.list \subseteq job.list, job'.due \subseteq job.due,
         \A r \in job.list : r.owner # Nobody /\ r.dongle \in job'.due => r \in job'.list
  PROVE  RotationInv'
<1>1. RotationTypes'
  BY DEF RotationInv, RotationTypes
<1>2. (\A d \in Paired : KeyRowOK(stored[d])') /\ ListOK'
  BY DEF RotationInv, KeyRowOK, ListOK
<1>3. \A d \in Paired \ meddled' : Steady(d)'
  BY DEF RotationInv, Steady, StoringFor
<1>4. \A d \in job'.due : Pending(d)'
  BY DEF RotationInv, Pending
<1> QED
  BY <1>1, <1>2, <1>3, <1>4 DEF RotationInv

LEMMA SkipKeeps ==
  ASSUME RotationInv, NEW r \in job.list, Skip(r)
  PROVE  RotationInv'
<1>1. job'.list = job.list \ {r} /\ job'.due = job.due /\ r.owner = Nobody
      /\ job' \in [phase : {"idle", "running"}, list : SUBSET Entries,
                   due : SUBSET Paired, runs : Nat]
      /\ UNCHANGED <<owner, stored, pairing, pairings, keyring, meddled>>
  BY DEF Skip, RotationInv, RotationTypes
<1> QED
  BY <1>1, ShorterKeeps

LEMMA StopKeeps ==
  ASSUME RotationInv, KillJob \/ FinishJob \/ \E r \in job.list : Abort(r)
  PROVE  RotationInv'
<1>1. /\ job' = [NoJob EXCEPT !.runs = job.runs] /\ job.runs \in Nat
      /\ UNCHANGED <<owner, stored, pairing, pairings, keyring, meddled>>
  BY DEF KillJob, FinishJob, Abort, RotationInv, RotationTypes
<1>2. job'.list = {} /\ job'.due = {}
      /\ job' \in [phase : {"idle", "running"}, list : SUBSET Entries,
                   due : SUBSET Paired, runs : Nat]
  BY <1>1 DEF NoJob
<1> QED
  BY <1>1, <1>2, ShorterKeeps

\* The row that is written is the one that was read, so that its token is still
\* the stored one, and the owner its owner.
LEMMA RotateKeeps ==
  ASSUME RotationInv, NEW r \in job.list, Rotate(r)
  PROVE  RotationInv'
<1>1. PICK d \in Paired : d = r.dongle
  BY OfEntry
<1>2. r.row \in RowType /\ r.row.id # 0 /\ r.owner \in Owners /\ r.owner # Nobody
      /\ stored[d].id = r.row.id
  BY <1>1, OfEntry DEF Rotate, CanRotate, Entries, Users
<1>3. stored[d] \in RowType /\ KeyRowOK(stored[d])
  BY OfDongle
<1>4. PICK w \in RowType :
        /\ stored' = [stored EXCEPT ![d] = w]
        /\ w.id = stored[d].id /\ w.createdAt = stored[d].createdAt
        /\ w.version = Target /\ w.token = r.row.token /\ w.boundTo = r.owner
        /\ w.boundAt = r.row.createdAt
  <2> DEFINE w == Resealed(stored[d], r, r.row.createdAt)
  <2>1. w \in RowType
    BY <1>2, <1>3 DEF Resealed, RowType, Users, Target
  <2>2. stored' = [stored EXCEPT ![d] = w]
    BY <1>1 DEF Rotate
  <2>3. /\ w.id = stored[d].id /\ w.createdAt = stored[d].createdAt
        /\ w.version = Target /\ w.token = r.row.token /\ w.boundTo = r.owner
        /\ w.boundAt = r.row.createdAt
    BY DEF Resealed
  <2> HIDE DEF w
  <2> QED
    BY <2>1, <2>2, <2>3
<1>5. /\ stored'[d] = w /\ \A c \in Paired : c # d => stored'[c] = stored[c]
      /\ stored' \in [Paired -> RowType]
  BY <1>4 DEF RotationInv, RotationTypes
<1>6. job'.list = job.list \ {r} /\ job'.due = job.due
      /\ job' \in [phase : {"idle", "running"}, list : SUBSET Entries,
                   due : SUBSET Paired, runs : Nat]
      /\ UNCHANGED <<owner, pairing, pairings, keyring, meddled>>
  BY DEF Rotate, RotationInv, RotationTypes
<1>7. RotationTypes'
  BY <1>5, <1>6 DEF RotationInv, RotationTypes
<1>8. \A c \in Paired : KeyRowOK(stored[c])'
  <2>1. w.id # 0 /\ w # NoRow
    BY <1>2, <1>4 DEF NoRow
  <2> QED
    BY <1>3, <1>4, <1>5, <1>6, <2>1 DEF RotationInv, KeyRowOK
<1>9. ListOK'
  BY <1>6 DEF RotationInv, ListOK
<1>10. ASSUME NEW c \in Paired \ meddled' PROVE Steady(c)'
  <2>1. Steady(c)
    BY <1>6 DEF RotationInv
  <2>2. CASE c # d
    BY <1>5, <1>6, <2>1, <2>2, AsideKeeps DEF Aside, StoringFor
  <2>3. CASE c = d
    <3>1. r.owner = owner[c] /\ r.row.token = stored[c].token
          /\ r.row.createdAt = stored[c].createdAt
      BY <1>1, <1>2, <2>1, <2>3 DEF Steady
    <3>2. StoringFor(c)' = StoringFor(c)
      BY <1>6 DEF StoringFor
    <3> QED
      BY <1>2, <1>4, <1>5, <1>6, <2>1, <2>3, <3>1, <3>2 DEF Steady
  <2> QED
    BY <2>2, <2>3
<1>11. \A c \in job'.due : Pending(c)'
  BY <1>1, <1>4, <1>5, <1>6 DEF RotationInv, Pending, RotationTypes
<1> QED
  BY <1>7, <1>8, <1>9, <1>10, <1>11 DEF RotationInv
-----------------------------------------------------------------------------
LEMMA NextRotationInv == RotationInv /\ [KNext]_kVars => RotationInv'
<1> SUFFICES ASSUME RotationInv, [KNext]_kVars PROVE RotationInv'
  OBVIOUS
<1>1. CASE UNCHANGED kVars
  <2>1. UNCHANGED <<owner, stored, pairing, pairings, keyring, meddled, job>>
    BY <1>1 DEF kVars
  <2> QED
    BY <2>1, ShorterKeeps DEF RotationInv, RotationTypes
<1>2. CASE RestartWithKeys
  <2>1. keyring' = Target /\ UNCHANGED <<owner, stored, pairing, pairings, job, meddled>>
    BY <1>2 DEF RestartWithKeys
  <2>2. RotationTypes'
    BY <2>1 DEF RotationInv, RotationTypes
  <2> QED
    BY <2>1, <2>2 DEF RotationInv, KeyRowOK, ListOK, Steady, StoringFor, Pending
<1> QED
  BY <1>1, <1>2, ClaimKeeps, UnpairKeeps, StoreTokenKeeps, FailToStoreKeeps, StartJobKeeps,
     SkipKeeps, StopKeeps, RotateKeeps DEF KNext, JobStep

LEMMA RotationInvSound == RotationInv => RotationSound
<1> SUFFICES ASSUME RotationInv PROVE RotationSound
  OBVIOUS
<1>1. RotationTypeOK
  BY DEF RotationInv, RotationTypes, KeyRowOK, RowType, Users, Entries, RotationTypeOK
<1>2. TokenSurvives
  <2> SUFFICES ASSUME NEW d \in Paired \ meddled, owner[d] # Nobody, stored[d] # NoRow
               PROVE  Opens(stored[d], Target, owner[d])
                      /\ stored[d].token = stored[d].createdAt
    BY DEF TokenSurvives
  <2>1. Steady(d) /\ stored[d].id # 0 /\ stored[d].version \in 0..Target
    BY OfDongle DEF KeyRowOK, RowType
  <2> QED
    BY <2>1 DEF Steady, Opens, Target
<1>3. JobIsComplete
  BY DEF RotationInv, Pending, JobIsComplete
<1> QED
  BY <1>1, <1>2, <1>3 DEF RotationSound

THEOREM RotationInductive == KSpec => []RotationInv
BY InitRotationInv, NextRotationInv, PTL DEF KSpec

\* Wherever the job is killed and however often it is run again, a token that
\* no user stored meanwhile still opens with its owner and is the one of the
\* last pairing, and a job that gets to its end has forgotten none
\* (jobs/rotate-dongle-keys.ts, services/dongle-tokens.ts), for any number of
\* dongles, users, pairings and jobs.
THEOREM RotationIsSound == KSpec => []RotationSound
BY RotationInductive, RotationInvSound, PTL

-----------------------------------------------------------------------------
(***************************************************************************)
(* The console page: frames go to the dongle that is chosen, and the       *)
(* details it shows in the end are those asked for last.                   *)
(***************************************************************************)
Ids == Members("dongle") \cup Members("group") \cup {NoTarget}

ConsoleTypes ==
  /\ view \in [type : Types, id : Ids, ref : Ids, atFirst : Ids, typeAtFirst : Types]
  /\ lists \in {"loading", "loaded", "failed"}
  /\ details \subseteq [id : Ids \ {NoTarget}, cancelled : BOOLEAN]
  /\ shown \subseteq Ids \ {NoTarget}
  /\ timer \in BOOLEAN /\ hasty \in BOOLEAN
  /\ lastSent \in [to : Ids, type : Types, id : Ids]

\* What a late answer, or the timer's function of an earlier render, relies on: a
\* request for details that is not cancelled is for the target, the ref is the target,
\* and the timer runs for a dongle only.
Followed ==
  /\ view.ref = view.id
  /\ timer => view.type = "dongle"
  /\ \A r \in details : ~r.cancelled => r.id = view.id

\* load() chooses a member of the type that the page was opened with.
Fits ==
  /\ view.atFirst \in Members(view.typeAtFirst) \cup {NoTarget}
  /\ ~hasty /\ lists = "loading" => view.type = view.typeAtFirst

ConsoleInv == ConsoleTypes /\ Followed /\ Fits /\ SentToChosen /\ DetailsSettle /\ TargetFits

LEMMA FirstFits ==
  ASSUME NEW type \in Types
  PROVE  First(type) \in Members(type) \cup {NoTarget}
<1>1. List(type) \in Seq(Members(type))  BY ConsoleAssumption
<1>2. CASE List(type) = <<>>  BY <1>2 DEF First
<1>3. CASE List(type) # <<>>
  <2>1. 1 \in 1..Len(List(type))  BY <1>1, <1>3, EmptySeq, LenProperties
  <2> QED  BY <1>3, <2>1 DEF First, Members
<1> QED  BY <1>2, <1>3

LEMMA MembersAreIds ==
  ASSUME NEW type \in Types
  PROVE  Members(type) \cup {NoTarget} \subseteq Ids
BY DEF Types, Ids

LEMMA InitConsoleInv == CInit => ConsoleInv
<1> SUFFICES ASSUME CInit PROVE ConsoleInv  OBVIOUS
<1>0. PICK type \in Types : \E id \in Members(type) \cup {NoTarget} :
        /\ view = [type |-> type, id |-> id, ref |-> id, atFirst |-> id,
                   typeAtFirst |-> type]
        /\ details = IF type = "dongle" /\ id # NoTarget
                     THEN {[id |-> id, cancelled |-> FALSE]} ELSE {}
  BY DEF CInit
<1>1. PICK id \in Members(type) \cup {NoTarget} :
        /\ view = [type |-> type, id |-> id, ref |-> id, atFirst |-> id,
                   typeAtFirst |-> type]
        /\ details = IF type = "dongle" /\ id # NoTarget
                     THEN {[id |-> id, cancelled |-> FALSE]} ELSE {}
  BY <1>0
<1>2. id \in Ids  BY MembersAreIds
<1>3. NothingSent \in [to : Ids, type : Types, id : Ids]  BY DEF NothingSent, Ids, Types
<1>4. ConsoleTypes
  <2>1. view \in [type : Types, id : Ids, ref : Ids, atFirst : Ids, typeAtFirst : Types]
    BY <1>1, <1>2
  <2>2. details \subseteq [id : Ids \ {NoTarget}, cancelled : BOOLEAN]
    <3>1. CASE type = "dongle" /\ id # NoTarget
      <4>1. [id |-> id, cancelled |-> FALSE] \in [id : Ids \ {NoTarget}, cancelled : BOOLEAN]
        BY <1>2, <3>1
      <4> QED  BY <1>1, <3>1, <4>1
    <3>2. CASE ~(type = "dongle" /\ id # NoTarget)  BY <1>1, <3>2
    <3> QED  BY <3>1, <3>2
  <2> QED  BY <1>3, <2>1, <2>2 DEF CInit, ConsoleTypes
<1>5. Followed /\ Fits  BY <1>1 DEF CInit, Followed, Fits
<1>6. SentToChosen  BY DEF CInit, SentToChosen
<1>7. DetailsSettle  BY DEF CInit, DetailsSettle
<1>8. TargetFits  BY <1>1 DEF TargetFits
<1> QED  BY <1>4, <1>5, <1>6, <1>7, <1>8 DEF ConsoleInv

\* Choosing a target, by hand or when the lists come.
LEMMA SetTargetKeeps ==
  ASSUME ConsoleInv, NEW type \in Types, NEW id \in Ids, SetTarget(type, id),
         lists' \in {"loading", "loaded", "failed"}, hasty' \in BOOLEAN,
         UNCHANGED <<lastSent, shown>>,
         ~hasty' => ~hasty /\ id \in Members(type) \cup {NoTarget},
         ~hasty' /\ lists' = "loading" => type = view.typeAtFirst
  PROVE  ConsoleInv'
<1> USE DEF ConsoleInv, ConsoleTypes
<1>1. view' = [type |-> type, id |-> id, ref |-> id, atFirst |-> view.atFirst,
               typeAtFirst |-> view.typeAtFirst]
  BY DEF SetTarget
<1>2. CASE type = view.type /\ id = view.id
  <2>1. UNCHANGED <<timer, details, selected>>  BY <1>2 DEF SetTarget
  <2>2. ConsoleTypes'  BY <1>1, <2>1
  <2>3. Followed' /\ DetailsSettle'  BY <1>1, <1>2, <2>1 DEF Followed, DetailsSettle
  <2>4. Fits' /\ TargetFits'  BY <1>1 DEF Fits, TargetFits
  <2>5. SentToChosen'  BY DEF SentToChosen
  <2> QED  BY <2>2, <2>3, <2>4, <2>5
<1>3. CASE ~(type = view.type /\ id = view.id)
  <2>1. /\ timer' = TimerAfter(type, id)
        /\ details' = CancelAll(details) \cup
                        (IF Asks(type, id) THEN {[id |-> id, cancelled |-> FALSE]} ELSE {})
        /\ selected' = IF Asks(type, id) THEN selected ELSE NoTarget
    BY <1>3 DEF SetTarget
  <2>2. \A r \in details :
          /\ [r EXCEPT !.cancelled = TRUE] \in [id : Ids \ {NoTarget}, cancelled : BOOLEAN]
          /\ [r EXCEPT !.cancelled = TRUE].cancelled
    OBVIOUS
  <2>3. details' \subseteq [id : Ids \ {NoTarget}, cancelled : BOOLEAN]
    <3>1. CancelAll(details) \subseteq [id : Ids \ {NoTarget}, cancelled : BOOLEAN]
      BY <2>2 DEF CancelAll
    <3>2. Asks(type, id) =>
            [id |-> id, cancelled |-> FALSE] \in [id : Ids \ {NoTarget}, cancelled : BOOLEAN]
      BY DEF Asks
    <3> QED  BY <2>1, <3>1, <3>2
  <2>4. \A r \in details' : ~r.cancelled => r = [id |-> id, cancelled |-> FALSE]
    BY <2>1, <2>2 DEF CancelAll
  <2>5. timer' \in BOOLEAN /\ (timer' => type = "dongle")
    BY <2>1 DEF TimerAfter
  <2>6. ConsoleTypes'  BY <1>1, <2>3, <2>5
  <2>7. Followed'  BY <1>1, <2>4, <2>5 DEF Followed
  <2>8. DetailsSettle'
    <3>1. CASE Asks(type, id)
      <4>1. [id |-> id, cancelled |-> FALSE] \in details'  BY <2>1, <3>1
      <4>2. ~[id |-> id, cancelled |-> FALSE].cancelled  OBVIOUS
      <4> QED  BY <4>1, <4>2 DEF DetailsSettle
    <3>2. CASE ~Asks(type, id)  BY <2>1, <3>2 DEF DetailsSettle
    <3> QED  BY <3>1, <3>2
  <2>9. Fits' /\ TargetFits'  BY <1>1 DEF Fits, TargetFits
  <2>10. SentToChosen'  BY DEF SentToChosen
  <2> QED  BY <2>6, <2>7, <2>8, <2>9, <2>10
<1> QED  BY <1>2, <1>3

\* Sending, by a click or by the timer: from there it is the dongle that is chosen.
LEMMA SendCanKeeps ==
  ASSUME ConsoleInv, NEW type \in Types, SendCan(type), type = "dongle" => view.type = "dongle",
         timer' \in BOOLEAN, timer' => view.type = "dongle",
         UNCHANGED <<view, lists, details, selected, shown, hasty>>
  PROVE  ConsoleInv'
<1> USE DEF ConsoleInv, ConsoleTypes
<1>1. CASE lastSent' = lastSent
  BY <1>1 DEF Followed, Fits, SentToChosen, DetailsSettle, TargetFits
<1>2. CASE lastSent' # lastSent
  <2>1. /\ view.type = "dongle" /\ view.ref # NoTarget
        /\ lastSent' = [to |-> view.ref, type |-> view.type, id |-> view.id]
    BY <1>2 DEF SendCan
  <2>2. SentToChosen'  BY <2>1 DEF SentToChosen, Followed, TargetFits
  <2> QED  BY <2>1, <2>2 DEF Followed, Fits, DetailsSettle, TargetFits
<1> QED  BY <1>1, <1>2

LEMMA NextConsoleInv == ConsoleInv /\ [CNext]_cVars => ConsoleInv'
<1> SUFFICES ASSUME ConsoleInv, [CNext]_cVars PROVE ConsoleInv'  OBVIOUS
<1> USE DEF ConsoleInv, ConsoleTypes
<1>1. CASE ListsLoaded
  <2>1. First(view.typeAtFirst) \in Members(view.typeAtFirst) \cup {NoTarget}
    BY FirstFits
  <2>2. First(view.typeAtFirst) \in Ids  BY <2>1, MembersAreIds
  <2>3. CASE view.atFirst = NoTarget
    BY <1>1, <2>1, <2>2, <2>3, SetTargetKeeps DEF ListsLoaded, Fits
  <2>4. CASE view.atFirst # NoTarget
    BY <1>1, <2>4 DEF ListsLoaded, Followed, Fits, SentToChosen, DetailsSettle, TargetFits
  <2> QED  BY <2>3, <2>4
<1>2. CASE ListsFailed
  BY <1>2 DEF ListsFailed, Followed, Fits, SentToChosen, DetailsSettle, TargetFits
<1>3. ASSUME NEW type \in Types, ChooseType(type)  PROVE ConsoleInv'
  <2>1. Fallback(type) \in Members(type) \cup {NoTarget}  BY FirstFits DEF Fallback
  <2>2. Fallback(type) \in Ids  BY <2>1, MembersAreIds
  <2>3. hasty' = (hasty \/ lists = "loading") /\ SetTarget(type, Fallback(type))
        /\ UNCHANGED <<lists, lastSent, shown>>
    BY <1>3 DEF ChooseType
  <2> QED  BY <2>1, <2>2, <2>3, SetTargetKeeps
<1>4. ASSUME NEW id \in Members(view.type), ChooseTarget(id)  PROVE ConsoleInv'
  <2>1. id \in Ids  BY MembersAreIds
  <2> QED  BY <1>4, <2>1, SetTargetKeeps DEF ChooseTarget
<1>5. ASSUME NEW r \in details, NEW ok \in BOOLEAN, DetailsCome(r, ok)  PROVE ConsoleInv'
  <2>1. DetailsSettle'
    <3>1. CASE r.cancelled  BY <1>5, <3>1 DEF DetailsCome, DetailsSettle
    <3>2. CASE ~r.cancelled  BY <1>5, <3>2 DEF DetailsCome, DetailsSettle, Followed
    <3> QED  BY <3>1, <3>2
  <2> QED  BY <1>5, <2>1 DEF DetailsCome, Followed, Fits, SentToChosen, TargetFits
<1>6. CASE SendClicked  BY <1>6, SendCanKeeps DEF SendClicked, Followed
<1>7. CASE TogglePeriodic
  <2>1. CASE timer \/ ~(view.type = "dongle" /\ view.ref # NoTarget)
    BY <1>7, <2>1 DEF TogglePeriodic, Followed, Fits, SentToChosen, DetailsSettle, TargetFits
  <2>2. CASE ~timer /\ view.type = "dongle" /\ view.ref # NoTarget
    BY <1>7, <2>2, SendCanKeeps DEF TogglePeriodic
  <2> QED  BY <2>1, <2>2
<1>8. CASE TimerFires
  BY <1>8, SendCanKeeps DEF TimerFires, Followed, Types
<1>9. CASE EventComes \/ ClearEvents
  BY <1>9 DEF EventComes, ClearEvents, Followed, Fits, SentToChosen, DetailsSettle, TargetFits
<1>10. CASE UNCHANGED cVars
  BY <1>10 DEF cVars, Followed, Fits, SentToChosen, DetailsSettle, TargetFits
<1> QED  BY <1>1, <1>2, <1>3, <1>4, <1>5, <1>6, <1>7, <1>8, <1>9, <1>10 DEF CNext

LEMMA ConsoleInvSays ==
  ConsoleInv => ConsoleTypeOK /\ SentToChosen /\ DetailsSettle /\ TargetFits
BY DEF ConsoleInv, ConsoleTypes, ConsoleTypeOK, Ids, Types

(***************************************************************************)
(* What the console page shows and does is true of its target, whichever   *)
(* target is chosen while lists and details come or a timer sends.         *)
(* (ConsolePage.tsx:236-293, 338-373)                                      *)
(***************************************************************************)
THEOREM ConsoleIsTrue == CSpec => [](ConsoleTypeOK /\ SentToChosen /\ DetailsSettle /\ TargetFits)
BY InitConsoleInv, NextConsoleInv, ConsoleInvSays, PTL DEF CSpec

-----------------------------------------------------------------------------
(*****************************************************************************)
(* Signing in and out: the pages are told what became of their requests, and *)
(* show a user only where there is one.                                      *)
(*                                                                           *)
(* SessionBase ties a tab's program to the stage of its request (InStep).  The*)
(* other three say what the session's row, the copies of it that requests    *)
(* work on and the tabs' tokens have to do with one another: a request that is*)
(* tried again has the row's token (RetryInv), requests that do not overlap  *)
(* have the row as it is (OrderInv), and a copy that would write a user back *)
(* belongs to a row that has one (CopyInv).                                  *)
(*****************************************************************************)
SessionType == [user : BOOLEAN, csrf : Nat]
TabType == [token : Nat, shown : BOOLEAN, do : Doings \cup {"none"},
            stage : {"first", "second", "after"}, ran : Nat, alone : BOOLEAN]
CallType == [phase : {"none", "sent", "loaded", "answered"},
             kind : {"none", "csrf", "me", "login", "logout", "act"},
             sid : Nat, header : Nat, session : SessionType, known : BOOLEAN,
             answer : {"none", "ok", "csrf", "anonymous", "lost"}, value : Nat]
UpsetType == [calls : Nat, losses : Nat, mixed : BOOLEAN]

SessionTypes ==
  /\ cookie \in Nat
  /\ IsFiniteSet(DOMAIN rows) /\ DOMAIN rows \subseteq Nat \ {0}
  /\ rows \in [DOMAIN rows -> SessionType]
  /\ tab \in [Tabs -> TabType]
  /\ call \in [Tabs -> CallType]
  /\ upsets \in UpsetType

\* What a tab's program p and its request c say of one another.
InStep(p, c) ==
  /\ p.do = "none" => c.phase = "none" /\ ~p.alone
  /\ c.phase # "none" => c.kind \in {"csrf", Main[p.do]}
  /\ c.phase # "none" /\ c.kind = "csrf" => p.token = 0
  /\ c.phase = "sent" => c.session = NoSession /\ ~c.known
  /\ c.phase = "loaded" => c.kind \in {"csrf", "login"}
  /\ c.phase = "loaded" => c.sid # 0
  /\ c.phase = "answered" => c.answer # "none"
  /\ c.phase = "answered" /\ c.kind = "csrf" => c.answer \in {"ok", "lost"}
  /\ c.phase = "answered" /\ c.kind = "me" => c.answer # "csrf"
  /\ c.phase # "none" /\ c.kind = "logout" =>
       c.header = 0 /\ (c.phase = "answered" => c.answer \in {"csrf", "lost"})
  /\ p.stage = "after" =>
       p.do = "login" /\ p.token = 0 /\ (c.phase # "none" => c.kind = "csrf")
  /\ p.stage # "first" => p.do \in {"login", "logout", "act"}
  /\ p.ran # 0 => /\ p.ran = 1 /\ p.do = "act" /\ c.phase = "answered"
                  /\ c.kind = "act" /\ c.answer \in {"ok", "lost"}

SessionBase == SessionTypes /\ \A t \in Tabs : InStep(tab[t], call[t])

-----------------------------------------------------------------------------
LEMMA FiniteRange ==
  ASSUME NEW S, IsFiniteSet(S), NEW f
  PROVE  IsFiniteSet({f[x] : x \in S})
<1> DEFINE T == {f[x] : x \in S}
           g == [x \in S |-> f[x]]
<1>1. g \in Surjection(S, T)
  BY DEF Surjection
<1> QED
  BY <1>1, FS_Surjection

\* There is a number that is none of finitely many.
LEMMA NotTakenIsNew ==
  ASSUME NEW S, IsFiniteSet(S)
  PROVE  NotTaken(S) \in Nat \ {0} /\ NotTaken(S) \notin S
<1> DEFINE k == Cardinality(S)
<1>1. k \in Nat
  BY FS_CardinalityType
<1>2. ~ (1..(k + 1)) \subseteq S
  <2> SUFFICES ASSUME (1..(k + 1)) \subseteq S PROVE FALSE
    OBVIOUS
  <2>1. Cardinality(1..(k + 1)) <= k
    BY FS_Subset
  <2>2. Cardinality(1..(k + 1)) = k + 1
    BY <1>1, FS_Interval
  <2> QED
    BY <1>1, <2>1, <2>2
<1>3. PICK n \in 1..(k + 1) : n \notin S
  BY <1>2
<1> QED
  BY <1>1, <1>3 DEF NotTaken

LEMMA NewSidIsNew ==
  ASSUME SessionTypes
  PROVE  /\ NewSid \in Nat \ {0} /\ NewSid \notin DOMAIN rows /\ NewSid # cookie
         /\ \A t \in Tabs : call[t].sid # NewSid
<1> DEFINE Sids == {call[t].sid : t \in Tabs}
           f == [t \in Tabs |-> call[t].sid]
<1>1. Sids = {f[t] : t \in Tabs}
  OBVIOUS
<1> HIDE DEF f
<1>0. IsFiniteSet({f[t] : t \in Tabs})
  BY FiniteRange, SessionsAssumption DEF SessionsAssumption
<1>2. IsFiniteSet(Sids)
  BY <1>0, <1>1
<1>3. IsFiniteSet((DOMAIN rows \cup {cookie}) \cup Sids)
  BY <1>2, FS_Union, FS_Singleton DEF SessionTypes
<1> DEFINE H == (DOMAIN rows \cup {cookie}) \cup Sids
<1>4. NewSid = NotTaken(H)
  BY DEF NewSid
<1>5. /\ DOMAIN rows \subseteq H /\ cookie \in H
      /\ \A t \in Tabs : call[t].sid \in H
  OBVIOUS
<1> HIDE DEF H
<1>6. NewSid \in Nat \ {0} /\ NewSid \notin H
  BY <1>3, <1>4, NotTakenIsNew DEF H
<1> QED
  BY <1>5, <1>6

LEMMA NewTokenIsNew ==
  ASSUME SessionTypes
  PROVE  NewToken \in Nat \ {0}
<1> DEFINE A == {rows[s].csrf : s \in DOMAIN rows}
           B == {tab[t].token : t \in Tabs}
           C == {call[t].header : t \in Tabs}
           D == {call[t].value : t \in Tabs}
           F == {call[t].session.csrf : t \in Tabs}
           a == [s \in DOMAIN rows |-> rows[s].csrf]
           b == [t \in Tabs |-> tab[t].token]
           c == [t \in Tabs |-> call[t].header]
           d == [t \in Tabs |-> call[t].value]
           f == [t \in Tabs |-> call[t].session.csrf]
<1>1. /\ A = {a[s] : s \in DOMAIN rows} /\ B = {b[t] : t \in Tabs}
      /\ C = {c[t] : t \in Tabs} /\ D = {d[t] : t \in Tabs} /\ F = {f[t] : t \in Tabs}
  OBVIOUS
<1> HIDE DEF a, b, c, d, f
<1>0. /\ IsFiniteSet({a[s] : s \in DOMAIN rows}) /\ IsFiniteSet({b[t] : t \in Tabs})
      /\ IsFiniteSet({c[t] : t \in Tabs}) /\ IsFiniteSet({d[t] : t \in Tabs})
      /\ IsFiniteSet({f[t] : t \in Tabs})
  BY FiniteRange, SessionsAssumption DEF SessionsAssumption, SessionTypes
<1>2. /\ IsFiniteSet(A) /\ IsFiniteSet(B) /\ IsFiniteSet(C)
      /\ IsFiniteSet(D) /\ IsFiniteSet(F)
  BY <1>0, <1>1
<1> HIDE DEF A, B, C, D, F
<1>3. IsFiniteSet(((((A \cup B) \cup C) \cup D) \cup F))
  BY <1>2, FS_Union
<1>4. NewToken = NotTaken(((((A \cup B) \cup C) \cup D) \cup F))
  BY DEF NewToken, A, B, C, D, F
<1> QED
  BY <1>3, <1>4, NotTakenIsNew

-----------------------------------------------------------------------------
\* The copy of the session that request t gets.
LEMMA CopyGets ==
  ASSUME SessionTypes, NEW t \in Tabs
  PROVE  /\ Copy(t) \in CallType /\ Copy(t).sid # 0
         /\ Copy(t).phase = call[t].phase /\ Copy(t).kind = call[t].kind
         /\ Copy(t).header = call[t].header /\ Copy(t).answer = call[t].answer
         /\ IF call[t].sid \in DOMAIN rows
            THEN /\ Copy(t).sid = call[t].sid /\ Copy(t).known
                 /\ Copy(t).session = rows[call[t].sid]
            ELSE /\ Copy(t).sid = NewSid /\ Copy(t).known = call[t].known
                 /\ Copy(t).session = call[t].session
<1>1. call[t] \in CallType /\ NewSid \in Nat \ {0}
  BY NewSidIsNew DEF SessionTypes
<1>2. CASE call[t].sid \in DOMAIN rows
  <2>1. rows[call[t].sid] \in SessionType /\ call[t].sid # 0
    BY <1>2 DEF SessionTypes
  <2>2. Copy(t) = [call[t] EXCEPT !.known = TRUE, !.session = rows[call[t].sid]]
    BY <1>2 DEF Copy
  <2> QED
    BY <1>1, <1>2, <2>1, <2>2 DEF CallType
<1>3. CASE call[t].sid \notin DOMAIN rows
  <2>1. Copy(t) = [call[t] EXCEPT !.sid = NewSid]
    BY <1>3 DEF Copy
  <2> QED
    BY <1>1, <1>3, <2>1 DEF CallType
<1> QED
  BY <1>2, <1>3

LEMMA AnswerTypes ==
  ASSUME NEW c \in CallType, NEW a \in {"ok", "csrf", "anonymous", "lost"}, NEW v \in Nat
  PROVE  /\ Answer(c, a, v) \in CallType
         /\ Answer(c, a, v).phase = "answered" /\ Answer(c, a, v).kind = c.kind
         /\ Answer(c, a, v).answer = a /\ Answer(c, a, v).sid = c.sid
         /\ Answer(c, a, v).value = v /\ Answer(c, a, v).header = 0
<1>1. NoSession \in SessionType
  BY DEF NoSession, SessionType
<1> QED
  BY <1>1 DEF Answer, CallType

LEMMA InitBase == SInit => SessionBase
<1> SUFFICES ASSUME SInit PROVE SessionBase
  OBVIOUS
<1>1. Idle \in CallType /\ Idle.phase = "none"
  BY DEF Idle, CallType, SessionType, NoSession
<1>2. PICK in \in BOOLEAN :
        /\ rows = [s \in {1} |-> [user |-> in, csrf |-> 1]]
        /\ tab = [t \in Tabs |-> [NewTab(in) EXCEPT
                                    !.token = IF t = (CHOOSE o \in Tabs : TRUE)
                                              THEN 1 ELSE 2]]
  BY DEF SInit
<1>3. DOMAIN rows = {1} /\ rows \in [DOMAIN rows -> SessionType] /\ IsFiniteSet(DOMAIN rows)
  BY <1>2, FS_Singleton DEF SessionType
<1>4. tab \in [Tabs -> TabType]
      /\ \A t \in Tabs : tab[t].do = "none" /\ tab[t].stage = "first" /\ tab[t].ran = 0
                          /\ ~tab[t].alone
  BY <1>2 DEF NewTab, TabType
<1>5. upsets \in UpsetType /\ cookie \in Nat
  BY DEF SInit, UpsetType
<1>6. call \in [Tabs -> CallType] /\ \A t \in Tabs : call[t].phase = "none"
  BY <1>1 DEF SInit
<1>7. SessionTypes
  BY <1>3, <1>4, <1>5, <1>6 DEF SessionTypes
<1>8. \A t \in Tabs : InStep(tab[t], call[t])
  BY <1>4, <1>6 DEF InStep
<1> QED
  BY <1>7, <1>8 DEF SessionBase

\* The tab's program has come to its end and shows a user or not.
Ends(q, signedIn) ==
  /\ q.do = "none" /\ q.shown = signedIn /\ q.stage = "first" /\ q.ran = 0 /\ ~q.alone

\* The program goes on, one stage further or with another token.
GoesOn(p, q, token, stage) ==
  /\ q.token = token /\ q.stage = stage
  /\ q.do = p.do /\ q.shown = p.shown /\ q.ran = p.ran /\ q.alone = p.alone

\* What becomes of a tab's program when its answer comes.
LEMMA AfterIs ==
  ASSUME NEW p \in TabType, NEW c \in CallType, InStep(p, c), c.phase = "answered"
  PROVE  /\ After(p, c) \in TabType
         /\ \/ c.answer = "csrf" /\ p.stage = "first" /\ GoesOn(p, After(p, c), 0, "second")
            \/ /\ c.answer = "ok" /\ c.kind = "csrf" /\ p.stage # "after"
               /\ GoesOn(p, After(p, c), c.value, p.stage)
            \/ /\ c.answer = "ok" /\ c.kind = "csrf" /\ p.stage = "after"
               /\ Ends(After(p, c), TRUE)
            \/ c.answer = "ok" /\ c.kind = "login" /\ GoesOn(p, After(p, c), 0, "after")
            \/ c.answer = "ok" /\ c.kind \in {"act", "me"} /\ Ends(After(p, c), TRUE)
            \/ /\ c.answer # "ok" /\ (c.answer = "csrf" => p.stage # "first")
               /\ Ends(After(p, c), p.do = "act")
<1>1. c.answer \in {"ok", "csrf", "anonymous", "lost"} /\ c.kind \in {"csrf", "me", "login", "logout", "act"}
      /\ (c.kind = "logout" => c.answer # "ok")
  BY DEF CallType, InStep, Main, TabType, Doings
<1>2. ASSUME NEW q \in TabType, NEW b \in BOOLEAN
      PROVE  Ended(q, b) \in TabType /\ Ends(Ended(q, b), b)
  BY <1>2 DEF Ended, Ends, NewTab, TabType
<1>0. ASSUME NEW s \in {"second", "after"}
      PROVE  LET r == [p EXCEPT !.token = 0, !.stage = s]
             IN  r \in TabType /\ GoesOn(p, r, 0, s)
  <2>1. PICK q : q = [p EXCEPT !.token = 0]
    OBVIOUS
  <2>2. q \in TabType /\ GoesOn(p, q, 0, p.stage)
    BY <2>1 DEF TabType, GoesOn
  <2>3. [p EXCEPT !.token = 0, !.stage = s] = [q EXCEPT !.stage = s]
    BY <2>1
  <2>4. [q EXCEPT !.stage = s] \in TabType /\ GoesOn(p, [q EXCEPT !.stage = s], 0, s)
    BY <2>2 DEF TabType, GoesOn
  <2> QED
    BY <2>3, <2>4
<1>3. CASE Retries(p, c)
  <2>1. After(p, c) = Again(p)
    BY <1>3 DEF After, Retries
  <2> QED
    BY <1>0, <1>3, <2>1 DEF Again, Retries
<1>4. CASE c.answer = "ok" /\ c.kind = "csrf" /\ p.stage # "after"
  <2>1. After(p, c) = [p EXCEPT !.token = c.value]
    BY <1>4 DEF After, Retries
  <2> QED
    BY <1>4, <2>1 DEF GoesOn, TabType, CallType
<1>5. CASE c.answer = "ok" /\ c.kind = "csrf" /\ p.stage = "after"
  <2>1. After(p, c) = Ended([p EXCEPT !.token = c.value], TRUE)
    BY <1>5 DEF After, Retries
  <2>2. [p EXCEPT !.token = c.value] \in TabType
    BY DEF TabType, CallType
  <2> QED
    BY <1>2, <1>5, <2>1, <2>2
<1>6. CASE c.answer = "ok" /\ c.kind = "login"
  <2>1. After(p, c) = [p EXCEPT !.token = 0, !.stage = "after"]
    BY <1>6 DEF After, Retries
  <2> QED
    BY <1>0, <1>6, <2>1
<1>7. CASE c.answer = "ok" /\ c.kind \in {"act", "me"}
  <2>1. After(p, c) = Ended(p, TRUE)
    BY <1>7 DEF After, Retries
  <2> QED
    BY <1>2, <1>7, <2>1
<1>8. CASE ~Retries(p, c) /\ c.answer # "ok"
  <2>1. After(p, c) = Ended(p, p.do = "act")
    BY <1>8 DEF After
  <2>2. After(p, c) \in TabType /\ Ends(After(p, c), p.do = "act")
    BY <1>2, <2>1
  <2> QED
    BY <1>8, <2>2 DEF Retries
<1> QED
  BY <1>1, <1>3, <1>4, <1>5, <1>6, <1>7, <1>8

-----------------------------------------------------------------------------
RowsOK(r) ==
  /\ IsFiniteSet(DOMAIN r) /\ DOMAIN r \subseteq Nat \ {0}
  /\ r \in [DOMAIN r -> SessionType]

\* A step of one request keeps the others as they are.
LEMMA CallKeepsBase ==
  ASSUME SessionBase, NEW t \in Tabs, NEW c \in CallType, call' = [call EXCEPT ![t] = c],
         tab' = tab, cookie' = cookie, RowsOK(rows'), upsets' \in UpsetType,
         InStep(tab[t], c)
  PROVE  SessionBase'
<1>1. SessionTypes'
  BY DEF SessionBase, SessionTypes, RowsOK
<1>2. ASSUME NEW u \in Tabs PROVE InStep(tab'[u], call'[u])
  BY DEF SessionBase, SessionTypes
<1> QED
  BY <1>1, <1>2 DEF SessionBase

\* The rows when one is stored, or replaces another.
LEMMA RowsWith ==
  ASSUME RowsOK(rows), NEW s \in Nat \ {0}, NEW old, NEW row \in SessionType
  PROVE  /\ RowsOK(WithRow(s, row))
         /\ RowsOK([x \in (DOMAIN rows \ {old}) \cup {s} |-> IF x = s THEN row ELSE rows[x]])
         /\ RowsOK(WithoutRow(old))
<1>1. /\ IsFiniteSet(DOMAIN rows \cup {s}) /\ IsFiniteSet((DOMAIN rows \ {old}) \cup {s})
      /\ IsFiniteSet(DOMAIN rows \ {old})
  BY FS_AddElement, FS_RemoveElement DEF RowsOK
<1> QED
  BY <1>1 DEF RowsOK, WithRow, WithoutRow

\* The budget that a call or a loss uses.
LEMMA UpsetsCount ==
  ASSUME upsets \in UpsetType, NEW m \in BOOLEAN
  PROVE  /\ [upsets EXCEPT !.calls = @ + 1, !.mixed = m] \in UpsetType
         /\ [upsets EXCEPT !.losses = @ + 1, !.mixed = m] \in UpsetType
         /\ [upsets EXCEPT !.calls = @ + 1, !.mixed = m].mixed = m
         /\ [upsets EXCEPT !.losses = @ + 1, !.mixed = m].mixed = m
<1>1. PICK v : v = [upsets EXCEPT !.calls = @ + 1]
  OBVIOUS
<1>2. PICK w : w = [upsets EXCEPT !.losses = @ + 1]
  OBVIOUS
<1>3. v \in UpsetType /\ w \in UpsetType
  BY <1>1, <1>2 DEF UpsetType
<1>4. /\ [upsets EXCEPT !.calls = @ + 1, !.mixed = m] = [v EXCEPT !.mixed = m]
      /\ [upsets EXCEPT !.losses = @ + 1, !.mixed = m] = [w EXCEPT !.mixed = m]
  BY <1>1, <1>2
<1>5. /\ [v EXCEPT !.mixed = m] \in UpsetType /\ [v EXCEPT !.mixed = m].mixed = m
      /\ [w EXCEPT !.mixed = m] \in UpsetType /\ [w EXCEPT !.mixed = m].mixed = m
  BY <1>3 DEF UpsetType
<1> QED
  BY <1>4, <1>5

LEMMA BeginKeepsBase ==
  ASSUME SessionBase, NEW t \in Tabs, NEW what \in Doings, Begin(t, what)
  PROVE  SessionBase'
<1>1. PICK q : q = [NewTab(what # "boot" /\ tab[t].shown) EXCEPT
                      !.token = IF what \in {"boot", "logout"} THEN 0 ELSE tab[t].token,
                      !.do = what, !.alone = Quiet(t)]
  OBVIOUS
<1>2. /\ tab[t] \in TabType /\ tab \in [Tabs -> TabType] /\ Quiet(t) \in BOOLEAN
      /\ InStep(tab[t], call[t]) /\ upsets \in UpsetType
  BY DEF SessionBase, SessionTypes, Quiet
<1>3. q = [token |-> IF what \in {"boot", "logout"} THEN 0 ELSE tab[t].token,
           shown |-> (what # "boot" /\ tab[t].shown), do |-> what, stage |-> "first",
           ran |-> 0, alone |-> Quiet(t)]
  BY <1>1 DEF NewTab
<1>4. q \in TabType /\ q.do = what /\ q.stage = "first" /\ q.ran = 0
  BY <1>2, <1>3 DEF TabType
<1>5. tab' = [o \in Tabs |-> IF o = t THEN q ELSE [tab[o] EXCEPT !.alone = FALSE]]
  BY <1>1 DEF Begin
<1>6. ASSUME NEW o \in Tabs, o # t
      PROVE  tab'[o] \in TabType /\ InStep(tab'[o], call[o])
  <2>1. tab'[o] = [tab[o] EXCEPT !.alone = FALSE] /\ tab[o] \in TabType
    BY <1>2, <1>5, <1>6
  <2>2. InStep(tab[o], call[o])
    BY DEF SessionBase
  <2> QED
    BY <2>1, <2>2 DEF TabType, InStep
<1>7. tab'[t] = q /\ call[t].phase = "none"
  BY <1>2, <1>5 DEF Begin, InStep
<1>8. InStep(q, call[t])
  BY <1>4, <1>7 DEF InStep, Doings
<1>9. tab' \in [Tabs -> TabType]
  <2>1. \A o \in Tabs : tab'[o] \in TabType
    BY <1>4, <1>6, <1>7
  <2> QED
    BY <1>5, <2>1
<1>10. upsets' \in UpsetType
  <2>1. PICK m \in BOOLEAN : m = (upsets.mixed \/ ~Quiet(t))
    OBVIOUS
  <2>2. upsets' = [upsets EXCEPT !.calls = @ + 1, !.mixed = m]
    BY <2>1 DEF Begin
  <2> QED
    BY <1>2, <2>2, UpsetsCount
<1>11. SessionTypes'
  BY <1>9, <1>10 DEF Begin, SessionBase, SessionTypes
<1> QED
  BY <1>6, <1>7, <1>8, <1>11 DEF Begin, SessionBase

LEMMA SendKeepsBase ==
  ASSUME SessionBase, NEW t \in Tabs, Send(t)
  PROVE  SessionBase'
<1>1. PICK c : c = [Idle EXCEPT !.phase = "sent", !.sid = cookie,
                      !.kind = IF NeedsToken(t) THEN "csrf" ELSE Main[tab[t].do],
                      !.header = IF NeedsToken(t) \/ tab[t].do \in {"boot", "logout"}
                                 THEN 0 ELSE tab[t].token]
  OBVIOUS
<1>2. /\ tab[t] \in TabType /\ InStep(tab[t], call[t]) /\ cookie \in Nat
      /\ RowsOK(rows) /\ upsets \in UpsetType
  BY DEF SessionBase, SessionTypes, RowsOK
<1>3. c = [phase |-> "sent", kind |-> IF NeedsToken(t) THEN "csrf" ELSE Main[tab[t].do],
           sid |-> cookie,
           header |-> IF NeedsToken(t) \/ tab[t].do \in {"boot", "logout"}
                      THEN 0 ELSE tab[t].token,
           session |-> NoSession, known |-> FALSE, answer |-> "none", value |-> 0]
  BY <1>1 DEF Idle
<1>4. tab[t].do \in Doings /\ Main[tab[t].do] \in {"me", "login", "logout", "act"}
      /\ (Main[tab[t].do] = "logout" => tab[t].do = "logout")
  BY <1>2 DEF Send, TabType, Doings, Main
<1>5. c \in CallType
  BY <1>2, <1>3, <1>4 DEF CallType, SessionType, NoSession, TabType
<1>6. call' = [call EXCEPT ![t] = c]
  BY <1>1 DEF Send
<1>7. InStep(tab[t], c)
  BY <1>2, <1>3, <1>4 DEF Send, InStep, NeedsToken, TabType
<1> QED
  BY <1>2, <1>5, <1>6, <1>7, CallKeepsBase DEF Send

LEMMA OfTab ==
  ASSUME SessionBase, NEW t \in Tabs
  PROVE  /\ SessionTypes /\ tab[t] \in TabType /\ call[t] \in CallType
         /\ InStep(tab[t], call[t]) /\ RowsOK(rows) /\ upsets \in UpsetType
         /\ cookie \in Nat /\ tab \in [Tabs -> TabType] /\ call \in [Tabs -> CallType]
BY DEF SessionBase, SessionTypes, RowsOK

\* What is loaded, for the token or for the login.
LEMMA LoadIs ==
  ASSUME SessionBase, NEW t \in Tabs, Load(t)
  PROVE  \E c \in CallType :
           /\ call' = [call EXCEPT ![t] = c] /\ c.phase = "loaded" /\ c.header = 0
           /\ c.kind = call[t].kind /\ c.kind \in {"csrf", "login"}
           /\ c.sid = Copy(t).sid /\ c.session = Copy(t).session /\ c.known = Copy(t).known
           /\ c.answer = call[t].answer
<1>1. Copy(t) \in CallType /\ Copy(t).kind = call[t].kind /\ Copy(t).answer = call[t].answer
  BY OfTab, CopyGets
<1>2. PICK q : q = [Copy(t) EXCEPT !.phase = "loaded"]
  OBVIOUS
<1>3. q \in CallType /\ q.phase = "loaded" /\ q.kind = call[t].kind /\ q.sid = Copy(t).sid
      /\ q.session = Copy(t).session /\ q.known = Copy(t).known /\ q.answer = call[t].answer
  BY <1>1, <1>2 DEF CallType
<1>4. PICK c : c = [q EXCEPT !.header = 0]
  OBVIOUS
<1>5. c \in CallType /\ c.phase = "loaded" /\ c.kind = call[t].kind /\ c.sid = Copy(t).sid
      /\ c.session = Copy(t).session /\ c.known = Copy(t).known /\ c.answer = call[t].answer
      /\ c.header = 0
  BY <1>3, <1>4 DEF CallType
<1>6. call' = [call EXCEPT ![t] = c]
  BY <1>2, <1>4 DEF Load
<1>7. call[t].kind \in {"csrf", "login"}
  BY DEF Load, Allowed
<1> QED
  BY <1>5, <1>6, <1>7

\* A refusal says why, and names the session if it is stored.
LEMMA RefuseIs ==
  ASSUME SessionBase, NEW t \in Tabs, Refuse(t)
  PROVE  \E c \in CallType :
           /\ call' = [call EXCEPT ![t] = c] /\ c.phase = "answered" /\ c.header = 0
           /\ c.kind = call[t].kind /\ c.answer = Refusal(Copy(t))
           /\ c.answer \in {"csrf", "anonymous"}
           /\ c.sid = IF Copy(t).known THEN Copy(t).sid ELSE 0
<1>1. Copy(t) \in CallType /\ Copy(t).kind = call[t].kind
  BY OfTab, CopyGets
<1>2. Refusal(Copy(t)) \in {"csrf", "anonymous"}
  BY DEF Refuse, Refusal
<1>3. PICK q : q = Answer(Copy(t), Refusal(Copy(t)), 0)
  OBVIOUS
<1>4. /\ q \in CallType /\ q.phase = "answered" /\ q.header = 0 /\ q.kind = call[t].kind
      /\ q.answer = Refusal(Copy(t)) /\ q.sid = Copy(t).sid
  BY <1>1, <1>2, <1>3, AnswerTypes, SMTT(30)
<1>5. PICK c : c = [q EXCEPT !.sid = IF Copy(t).known THEN @ ELSE 0]
  OBVIOUS
<1>6. /\ c \in CallType /\ c.phase = "answered" /\ c.header = 0 /\ c.kind = call[t].kind
      /\ c.answer = Refusal(Copy(t)) /\ c.sid = IF Copy(t).known THEN Copy(t).sid ELSE 0
  BY <1>4, <1>5 DEF CallType
<1>7. call' = [call EXCEPT ![t] = c]
  BY <1>3, <1>5 DEF Refuse
<1> QED
  BY <1>2, <1>6, <1>7

LEMMA LoadKeepsBase ==
  ASSUME SessionBase, NEW t \in Tabs, Load(t)
  PROVE  SessionBase'
<1>1. PICK c \in CallType :
           /\ call' = [call EXCEPT ![t] = c] /\ c.phase = "loaded" /\ c.header = 0
           /\ c.kind = call[t].kind /\ c.kind \in {"csrf", "login"}
           /\ c.sid = Copy(t).sid
  BY LoadIs
<1>2. InStep(tab[t], c)
  BY <1>1, OfTab, CopyGets DEF InStep, Load, Allowed
<1> QED
  BY <1>1, <1>2, OfTab, CallKeepsBase DEF Load

LEMMA RefuseKeepsBase ==
  ASSUME SessionBase, NEW t \in Tabs, Refuse(t)
  PROVE  SessionBase'
<1>1. PICK c \in CallType :
           /\ call' = [call EXCEPT ![t] = c] /\ c.phase = "answered" /\ c.header = 0
           /\ c.kind = call[t].kind /\ c.answer = Refusal(Copy(t))
           /\ c.answer \in {"csrf", "anonymous"}
  BY RefuseIs
<1>2. Copy(t).kind = call[t].kind /\ Copy(t).header = call[t].header
  BY OfTab, CopyGets
<1>3. InStep(tab[t], c)
  BY <1>1, <1>2, OfTab DEF InStep, Refuse, Refusal, CsrfValid
<1> QED
  BY <1>1, <1>3, OfTab, CallKeepsBase DEF Refuse

\* The token is stored with the copy of the session, and answered.
LEMMA GetCsrfIs ==
  ASSUME SessionBase, NEW t \in Tabs, GetCsrf(t), call[t].sid # 0
  PROVE  /\ RowsOK(rows')
         /\ \E row \in SessionType :
              /\ rows' = WithRow(call[t].sid, row) /\ row.user = call[t].session.user
              /\ row.csrf = NewToken
         /\ \E c \in CallType :
              /\ call' = [call EXCEPT ![t] = c] /\ c.phase = "answered" /\ c.header = 0
              /\ c.kind = "csrf" /\ c.answer = "ok" /\ c.sid = call[t].sid
              /\ c.value = NewToken
<1>1. NewToken \in Nat \ {0} /\ call[t].session \in SessionType /\ call[t].sid \in Nat \ {0}
  BY OfTab, NewTokenIsNew DEF CallType
<1>2. PICK row : row = [call[t].session EXCEPT !.csrf = NewToken]
  OBVIOUS
<1>3. row \in SessionType /\ row.user = call[t].session.user /\ row.csrf = NewToken
  BY <1>1, <1>2 DEF SessionType
<1>4. rows' = WithRow(call[t].sid, row)
  BY <1>2 DEF GetCsrf
<1>5. RowsOK(rows')
  BY <1>1, <1>3, <1>4, RowsWith, OfTab
<1>6. PICK c : c = Answer(call[t], "ok", NewToken)
  OBVIOUS
<1>7. call[t].kind = "csrf"
  BY DEF GetCsrf, Loaded
<1>8. /\ c \in CallType /\ c.phase = "answered" /\ c.header = 0 /\ c.kind = "csrf"
      /\ c.answer = "ok" /\ c.sid = call[t].sid /\ c.value = NewToken
  <2>1. call[t] \in CallType /\ NewToken \in Nat
    BY <1>1, OfTab
  <2>2. /\ Answer(call[t], "ok", NewToken) \in CallType
        /\ Answer(call[t], "ok", NewToken).phase = "answered"
        /\ Answer(call[t], "ok", NewToken).kind = call[t].kind
        /\ Answer(call[t], "ok", NewToken).answer = "ok"
        /\ Answer(call[t], "ok", NewToken).sid = call[t].sid
        /\ Answer(call[t], "ok", NewToken).value = NewToken
        /\ Answer(call[t], "ok", NewToken).header = 0
    BY <2>1 DEF Answer, CallType, SessionType, NoSession
  <2> QED
    BY <1>6, <1>7, <2>2
<1>9. call' = [call EXCEPT ![t] = c]
  BY <1>6 DEF GetCsrf
<1> QED
  BY <1>3, <1>4, <1>5, <1>8, <1>9

LEMMA LogInIs ==
  ASSUME SessionBase, NEW t \in Tabs, LogIn(t)
  PROVE  /\ RowsOK(rows')
         /\ rows' = [s \in (DOMAIN rows \ {call[t].sid}) \cup {NewSid} |->
                      IF s = NewSid THEN [user |-> TRUE, csrf |-> 0] ELSE rows[s]]
         /\ \E c \in CallType :
              /\ call' = [call EXCEPT ![t] = c] /\ c.phase = "answered" /\ c.header = 0
              /\ c.kind = "login" /\ c.answer = "ok" /\ c.sid = NewSid
<1>1. NewSid \in Nat \ {0} /\ [user |-> TRUE, csrf |-> 0] \in SessionType
  BY OfTab, NewSidIsNew DEF SessionType
<1>2. rows' = [s \in (DOMAIN rows \ {call[t].sid}) \cup {NewSid} |->
                      IF s = NewSid THEN [user |-> TRUE, csrf |-> 0] ELSE rows[s]]
  BY DEF LogIn
<1>3. RowsOK(rows')
  BY <1>1, <1>2, RowsWith, OfTab
<1>4. PICK q : q = Answer(call[t], "ok", 0)
  OBVIOUS
<1>5. /\ q \in CallType /\ q.phase = "answered" /\ q.header = 0 /\ q.kind = "login"
      /\ q.answer = "ok"
  <2>1. call[t] \in CallType /\ call[t].kind = "login"
    BY OfTab DEF LogIn, Loaded
  <2>2. /\ Answer(call[t], "ok", 0) \in CallType
        /\ Answer(call[t], "ok", 0).phase = "answered"
        /\ Answer(call[t], "ok", 0).kind = call[t].kind
        /\ Answer(call[t], "ok", 0).answer = "ok"
        /\ Answer(call[t], "ok", 0).header = 0
    BY <2>1 DEF Answer, CallType, SessionType, NoSession
  <2> QED
    BY <1>4, <2>1, <2>2
<1>6. PICK c : c = [q EXCEPT !.sid = NewSid]
  OBVIOUS
<1>7. /\ c \in CallType /\ c.phase = "answered" /\ c.header = 0 /\ c.kind = "login"
      /\ c.answer = "ok" /\ c.sid = NewSid
  BY <1>1, <1>5, <1>6 DEF CallType
<1>8. call' = [call EXCEPT ![t] = c]
  BY <1>4, <1>6 DEF LogIn
<1> QED
  BY <1>2, <1>3, <1>7, <1>8

LEMMA GetCsrfKeepsBase ==
  ASSUME SessionBase, NEW t \in Tabs, GetCsrf(t)
  PROVE  SessionBase'
<1>1. call[t].sid # 0
  BY OfTab DEF GetCsrf, Loaded, InStep
<1>2. PICK c \in CallType :
              /\ call' = [call EXCEPT ![t] = c] /\ c.phase = "answered" /\ c.header = 0
              /\ c.kind = "csrf" /\ c.answer = "ok" /\ c.sid = call[t].sid
              /\ c.value = NewToken
  BY <1>1, GetCsrfIs
<1>3. RowsOK(rows')
  BY <1>1, GetCsrfIs
<1>4. InStep(tab[t], c)
  BY <1>2, OfTab DEF InStep, GetCsrf, Loaded
<1> QED
  BY <1>2, <1>3, <1>4, OfTab, CallKeepsBase DEF GetCsrf

LEMMA LogInKeepsBase ==
  ASSUME SessionBase, NEW t \in Tabs, LogIn(t)
  PROVE  SessionBase'
<1>1. PICK c \in CallType :
              /\ call' = [call EXCEPT ![t] = c] /\ c.phase = "answered" /\ c.header = 0
              /\ c.kind = "login" /\ c.answer = "ok" /\ c.sid = NewSid
  BY LogInIs
<1>2. RowsOK(rows')
  BY LogInIs
<1>3. InStep(tab[t], c)
  BY <1>1, OfTab DEF InStep, LogIn, Loaded
<1> QED
  BY <1>1, <1>2, <1>3, OfTab, CallKeepsBase DEF LogIn

\* An answer without a token.
LEMMA PlainAnswer ==
  ASSUME NEW c \in CallType, NEW a \in {"ok", "anonymous"}
  PROVE  \E q \in CallType :
           /\ q = Answer(c, a, 0) /\ q.phase = "answered" /\ q.header = 0
           /\ q.kind = c.kind /\ q.answer = a /\ q.sid = c.sid
<1>1. PICK q : q = Answer(c, a, 0)
  OBVIOUS
<1>2. /\ Answer(c, a, 0) \in CallType /\ Answer(c, a, 0).phase = "answered"
      /\ Answer(c, a, 0).kind = c.kind /\ Answer(c, a, 0).answer = a
      /\ Answer(c, a, 0).sid = c.sid /\ Answer(c, a, 0).header = 0
  BY DEF Answer, CallType, SessionType, NoSession
<1> QED
  BY <1>1, <1>2

LEMMA AnswersKeepBase ==
  ASSUME SessionBase, NEW t \in Tabs, WrongPassword(t) \/ Me(t)
  PROVE  SessionBase'
<1>1. Copy(t) \in CallType /\ Copy(t).kind = call[t].kind /\ call[t] \in CallType
  BY OfTab, CopyGets
<1>2. CASE WrongPassword(t)
  <2>1. PICK q \in CallType :
           /\ q = Answer(call[t], "anonymous", 0) /\ q.phase = "answered" /\ q.header = 0
           /\ q.kind = call[t].kind /\ q.answer = "anonymous" /\ q.sid = call[t].sid
    BY <1>1, PlainAnswer
  <2>2. InStep(tab[t], q)
    BY <1>2, <2>1, OfTab DEF InStep, WrongPassword, Loaded
  <2> QED
    BY <1>2, <2>1, <2>2, OfTab, CallKeepsBase DEF WrongPassword
<1>3. CASE Me(t)
  <2>1. PICK q \in CallType :
           /\ q = Answer(Copy(t), "ok", 0) /\ q.phase = "answered" /\ q.header = 0
           /\ q.kind = Copy(t).kind /\ q.answer = "ok" /\ q.sid = Copy(t).sid
    BY <1>1, PlainAnswer
  <2>2. InStep(tab[t], q)
    BY <1>1, <1>3, <2>1, OfTab DEF InStep, Me, Allowed
  <2> QED
    BY <1>3, <2>1, <2>2, OfTab, CallKeepsBase DEF Me
<1> QED
  BY <1>2, <1>3

LEMMA ActKeepsBase ==
  ASSUME SessionBase, NEW t \in Tabs, Act(t)
  PROVE  SessionBase'
<1>1. Copy(t) \in CallType /\ Copy(t).kind = call[t].kind
  BY OfTab, CopyGets
<1>2. PICK q \in CallType :
           /\ q = Answer(Copy(t), "ok", 0) /\ q.phase = "answered" /\ q.header = 0
           /\ q.kind = Copy(t).kind /\ q.answer = "ok" /\ q.sid = Copy(t).sid
  BY <1>1, PlainAnswer
<1>3. PICK p : p = [tab[t] EXCEPT !.ran = @ + 1]
  OBVIOUS
<1>4. tab[t].ran = 0 /\ tab[t].do = "act" /\ call[t].kind = "act" /\ call[t].phase = "sent"
  BY OfTab DEF InStep, Act, Allowed, Main, TabType, Doings
<1>5. /\ p \in TabType /\ p.do = "act" /\ p.ran = 1 /\ p.stage = tab[t].stage
      /\ p.token = tab[t].token /\ p.alone = tab[t].alone
  BY <1>3, <1>4, OfTab DEF TabType
<1>6. tab' = [tab EXCEPT ![t] = p] /\ call' = [call EXCEPT ![t] = q]
  BY <1>2, <1>3 DEF Act
<1>7. InStep(p, q)
  BY <1>1, <1>2, <1>4, <1>5, OfTab DEF InStep
<1>8. tab' \in [Tabs -> TabType] /\ call' \in [Tabs -> CallType]
  BY <1>2, <1>5, <1>6, OfTab
<1>9. SessionTypes'
  BY <1>8, OfTab DEF Act, SessionTypes, RowsOK
<1>10. ASSUME NEW u \in Tabs PROVE InStep(tab'[u], call'[u])
  BY <1>6, <1>7, OfTab DEF SessionBase
<1> QED
  BY <1>9, <1>10 DEF SessionBase

LEMMA LoseKeepsBase ==
  ASSUME SessionBase, NEW t \in Tabs, Lose(t)
  PROVE  SessionBase'
<1>1. PICK c : c = [Idle EXCEPT !.phase = "answered", !.kind = call[t].kind, !.answer = "lost"]
  OBVIOUS
<1>2. c = [phase |-> "answered", kind |-> call[t].kind, sid |-> 0, header |-> 0,
           session |-> NoSession, known |-> FALSE, answer |-> "lost", value |-> 0]
  BY <1>1 DEF Idle
<1>3. c \in CallType
  BY <1>2, OfTab DEF CallType, SessionType, NoSession
<1>4. InStep(tab[t], c)
  BY <1>2, OfTab DEF InStep, Lose
<1>5. upsets' \in UpsetType
  BY OfTab, UpsetsCount DEF Lose
<1>6. call' = [call EXCEPT ![t] = c]
  BY <1>1 DEF Lose
<1> QED
  BY <1>3, <1>4, <1>5, <1>6, OfTab, CallKeepsBase DEF Lose

LEMMA ExpireKeepsBase ==
  ASSUME SessionBase, NEW s \in DOMAIN rows, Expire(s)
  PROVE  SessionBase'
<1>1. RowsOK(rows) /\ upsets \in UpsetType /\ tab \in [Tabs -> TabType]
      /\ [user |-> TRUE, csrf |-> 0] \in SessionType /\ s \in Nat \ {0}
  BY DEF SessionBase, SessionTypes, RowsOK, SessionType
<1>2. RowsOK(rows')
  BY <1>1, RowsWith DEF Expire
<1>3. upsets' \in UpsetType
  BY <1>1, UpsetsCount DEF Expire
<1>4. ASSUME NEW t \in Tabs PROVE tab'[t] \in TabType /\ InStep(tab'[t], call[t])
  <2>1. tab'[t] = [tab[t] EXCEPT !.alone = FALSE] /\ tab[t] \in TabType
    BY <1>1 DEF Expire
  <2>2. InStep(tab[t], call[t])
    BY DEF SessionBase
  <2> QED
    BY <2>1, <2>2 DEF TabType, InStep
<1>5. tab' \in [Tabs -> TabType]
  BY <1>4 DEF Expire
<1>6. SessionTypes'
  BY <1>2, <1>3, <1>5 DEF Expire, SessionBase, SessionTypes, RowsOK
<1> QED
  BY <1>4, <1>6 DEF Expire, SessionBase

LEMMA AfterInStep ==
  ASSUME NEW p \in TabType, NEW c \in CallType, InStep(p, c), c.phase = "answered"
  PROVE  After(p, c) \in TabType /\ InStep(After(p, c), Idle)
<1>1. PICK q : q = After(p, c)
  OBVIOUS
<1>2. /\ q \in TabType
      /\ \/ c.answer = "csrf" /\ p.stage = "first" /\ GoesOn(p, q, 0, "second")
         \/ /\ c.answer = "ok" /\ c.kind = "csrf" /\ p.stage # "after"
            /\ GoesOn(p, q, c.value, p.stage)
         \/ c.answer = "ok" /\ c.kind = "login" /\ GoesOn(p, q, 0, "after")
         \/ Ends(q, TRUE) \/ Ends(q, p.do = "act")
  BY <1>1, AfterIs
<1> SUFFICES InStep(q, Idle)
  BY <1>1, <1>2
<1>3. Idle.phase = "none"
  BY DEF Idle
<1>4. p.do # "none" /\ c.kind \in {"csrf", Main[p.do]} /\ p.do \in Doings
  BY DEF InStep, TabType
<1>5. CASE Ends(q, TRUE) \/ Ends(q, p.do = "act")
  BY <1>3, <1>5 DEF Ends, InStep
<1>6. CASE c.answer = "csrf" /\ p.stage = "first" /\ GoesOn(p, q, 0, "second")
  <2>1. p.do \in {"login", "logout", "act"} /\ p.ran = 0
    BY <1>4, <1>6 DEF InStep, Main, Doings
  <2> QED
    BY <1>3, <1>6, <2>1 DEF GoesOn, InStep
<1>7. CASE /\ c.answer = "ok" /\ c.kind = "csrf" /\ p.stage # "after"
           /\ GoesOn(p, q, c.value, p.stage)
  BY <1>3, <1>4, <1>7 DEF GoesOn, InStep
<1>8. CASE c.answer = "ok" /\ c.kind = "login" /\ GoesOn(p, q, 0, "after")
  <2>1. p.do = "login" /\ p.ran = 0
    BY <1>4, <1>8 DEF InStep, Main, Doings
  <2> QED
    BY <1>3, <1>8, <2>1 DEF GoesOn, InStep
<1> QED
  BY <1>2, <1>5, <1>6, <1>7, <1>8

LEMMA ReceiveKeepsBase ==
  ASSUME SessionBase, NEW t \in Tabs, Receive(t)
  PROVE  SessionBase'
<1>1. PICK p : p = After(tab[t], call[t])
  OBVIOUS
<1>2. call[t].phase = "answered"
  BY DEF Receive
<1>3. Idle \in CallType
  BY DEF Idle, CallType, SessionType, NoSession
<1>5. p \in TabType /\ InStep(p, Idle)
  BY <1>1, <1>2, AfterInStep, OfTab
<1>6. tab' = [tab EXCEPT ![t] = p] /\ call' = [call EXCEPT ![t] = Idle]
  BY <1>1 DEF Receive
<1>7. tab' \in [Tabs -> TabType] /\ call' \in [Tabs -> CallType] /\ cookie' \in Nat
  BY <1>3, <1>5, <1>6, OfTab DEF Receive, SetCookie, CallType
<1>8. SessionTypes'
  BY <1>7, OfTab DEF Receive, SessionTypes
<1>9. ASSUME NEW u \in Tabs PROVE InStep(tab'[u], call'[u])
  BY <1>5, <1>6, OfTab DEF SessionBase
<1> QED
  BY <1>8, <1>9 DEF SessionBase

LEMMA NextBase == SessionBase /\ [SNext]_sVars => SessionBase'
<1> SUFFICES ASSUME SessionBase, [SNext]_sVars PROVE SessionBase'
  OBVIOUS
<1>1. CASE UNCHANGED sVars
  BY <1>1 DEF sVars, SessionBase, SessionTypes
<1>2. ASSUME NEW t \in Tabs,
             (\E what \in Doings : Begin(t, what)) \/ Send(t) \/ Serve(t) \/ Lose(t) \/ Receive(t)
      PROVE  SessionBase'
  BY <1>2, BeginKeepsBase, SendKeepsBase, LoadKeepsBase, RefuseKeepsBase, GetCsrfKeepsBase,
     LogInKeepsBase, AnswersKeepBase, ActKeepsBase, LoseKeepsBase, ReceiveKeepsBase DEF Serve
<1> QED
  BY <1>1, <1>2, ExpireKeepsBase DEF SNext

-----------------------------------------------------------------------------
\* A tab that is at its second try, and has not been disturbed.
Retrying(t) ==
  tab[t].alone /\ tab[t].stage = "second" /\ tab[t].do \in {"login", "act"}

\* Its token, once it has got one, is that of the session it names.
Renewed(t) ==
  /\ tab[t].token # 0 /\ call[t].phase \in {"none", "sent"} =>
       cookie \in DOMAIN rows /\ rows[cookie].csrf = tab[t].token
  /\ call[t].phase = "sent" /\ call[t].kind # "csrf" =>
       tab[t].token # 0 /\ call[t].header = tab[t].token /\ call[t].sid = cookie
  /\ call[t].phase = "answered" /\ call[t].kind = "csrf" /\ call[t].answer = "ok" =>
       /\ call[t].sid \in DOMAIN rows /\ rows[call[t].sid].csrf = call[t].value
       /\ call[t].value # 0
  /\ call[t].phase = "answered" /\ call[t].kind # "csrf" => call[t].answer # "csrf"

RetryInv ==
  \A t \in Tabs : (tab[t].alone => Quiet(t)) /\ (Retrying(t) => Renewed(t))

\* A tab at work is the only one that can be undisturbed.
LEMMA WorkDisturbs ==
  ASSUME SessionBase, RetryInv, NEW t \in Tabs, tab[t].do # "none"
  PROVE  \A u \in Tabs \ {t} : ~tab[u].alone
BY DEF RetryInv, Quiet

\* A step of the tab's request, or of its program.
LEMMA WorkKeepsRetry ==
  ASSUME SessionBase, RetryInv, NEW t \in Tabs, tab[t].do # "none",
         \A u \in Tabs \ {t} : tab'[u] = tab[u], tab'[t].alone => tab[t].alone,
         Retrying(t)' => Renewed(t)'
  PROVE  RetryInv'
<1>1. ASSUME NEW u \in Tabs, u # t PROVE ~tab'[u].alone
  BY <1>1, WorkDisturbs
<1>2. tab'[t].alone => Quiet(t)'
  BY DEF RetryInv, Quiet
<1> QED
  BY <1>1, <1>2 DEF RetryInv, Retrying

LEMMA InitRetry == SInit => RetryInv
BY InitBase DEF SessionBase, InStep, SInit, NewTab, RetryInv, Retrying

LEMMA BeginKeepsRetry ==
  ASSUME SessionBase, RetryInv, NEW t \in Tabs, NEW what \in Doings, Begin(t, what)
  PROVE  RetryInv'
<1>1. tab \in [Tabs -> TabType]
  BY DEF SessionBase, SessionTypes
<1>2. ASSUME NEW u \in Tabs, u # t PROVE ~tab'[u].alone /\ tab'[u].do = tab[u].do
  BY <1>1, <1>2 DEF Begin, TabType
<1>3. tab'[t].alone = Quiet(t) /\ tab'[t].stage = "first"
  BY <1>1 DEF Begin, NewTab
<1> QED
  BY <1>2, <1>3 DEF RetryInv, Retrying, Quiet

LEMMA SendKeepsRetry ==
  ASSUME SessionBase, RetryInv, NEW t \in Tabs, Send(t)
  PROVE  RetryInv'
<1>1. /\ call'[t].phase = "sent" /\ call'[t].sid = cookie
      /\ call'[t].kind = (IF NeedsToken(t) THEN "csrf" ELSE Main[tab[t].do])
      /\ call'[t].header = (IF NeedsToken(t) \/ tab[t].do \in {"boot", "logout"}
                            THEN 0 ELSE tab[t].token)
  BY OfTab DEF Send, Idle
<1>2. ASSUME Retrying(t) PROVE Renewed(t)'
  <2>1. Renewed(t) /\ call[t].phase = "none"
    BY <1>2 DEF RetryInv, Send
  <2>2. call'[t].kind # "csrf" => tab[t].token # 0
    BY <1>1, <1>2 DEF NeedsToken, Retrying
  <2> QED
    BY <1>1, <1>2, <2>1, <2>2 DEF Send, Renewed, Retrying
<1> QED
  BY <1>2, WorkKeepsRetry DEF Send, Retrying

LEMMA AtWork ==
  ASSUME SessionBase, NEW t \in Tabs, call[t].phase # "none"
  PROVE  tab[t].do # "none"
BY OfTab DEF InStep

LEMMA ServeKeepsRetry ==
  ASSUME SessionBase, RetryInv, NEW t \in Tabs, Serve(t)
  PROVE  RetryInv'
<1>1. /\ tab[t].do # "none" /\ call[t].phase \in {"sent", "loaded"}
      /\ \A u \in Tabs \ {t} : tab'[u] = tab[u]
      /\ tab'[t].alone = tab[t].alone /\ tab'[t].stage = tab[t].stage
      /\ tab'[t].do = tab[t].do /\ tab'[t].token = tab[t].token
  BY OfTab, AtWork DEF Serve, Load, Refuse, GetCsrf, LogIn, WrongPassword, Me, Act,
     Allowed, Loaded, TabType
<1>2. ASSUME Retrying(t) PROVE Renewed(t)'
  <2>1. Renewed(t)
    BY <1>2 DEF RetryInv
  <2>2. CASE Load(t)
    <3>1. call'[t].phase = "loaded"
      BY <2>2, LoadIs, OfTab
    <3> QED
      BY <3>1 DEF Renewed
  <2>3. CASE Refuse(t)
    <3>1. PICK c \in CallType :
           /\ call' = [call EXCEPT ![t] = c] /\ c.phase = "answered"
           /\ c.kind = call[t].kind /\ c.answer = Refusal(Copy(t))
      BY <2>3, RefuseIs
    <3>2. c.kind # "csrf" /\ call[t].phase = "sent"
      BY <2>3, <3>1, OfTab, CopyGets DEF Refuse, Refusal
    <3>3. cookie \in DOMAIN rows /\ rows[cookie].csrf = tab[t].token
          /\ tab[t].token # 0 /\ call[t].header = tab[t].token /\ call[t].sid = cookie
      BY <2>1, <3>1, <3>2 DEF Renewed
    <3>4. CsrfValid(Copy(t))
      BY <3>3, OfTab, CopyGets DEF CsrfValid
    <3>5. call'[t].answer # "csrf" /\ call'[t].kind # "csrf" /\ call'[t].phase = "answered"
      BY <3>1, <3>2, <3>4, OfTab DEF Refusal
    <3> QED
      BY <3>5 DEF Renewed
  <2>4. CASE GetCsrf(t)
    <3>1. call[t].sid # 0
      BY <2>4, OfTab DEF GetCsrf, Loaded, InStep
    <3>2. PICK row \in SessionType : /\ rows' = WithRow(call[t].sid, row) /\ row.csrf = NewToken
      BY <2>4, <3>1, GetCsrfIs
    <3>3. /\ call'[t].phase = "answered" /\ call'[t].kind = "csrf"
          /\ call'[t].sid = call[t].sid /\ call'[t].value = NewToken
      BY <2>4, <3>1, GetCsrfIs, OfTab
    <3>4. NewToken # 0
      BY NewTokenIsNew, OfTab
    <3> QED
      BY <3>2, <3>3, <3>4 DEF Renewed, WithRow
  <2>5. CASE LogIn(t)
    <3>1. call'[t].phase = "answered" /\ call'[t].kind = "login" /\ call'[t].answer = "ok"
      BY <2>5, LogInIs, OfTab
    <3> QED
      BY <3>1 DEF Renewed
  <2>6. CASE WrongPassword(t) \/ Me(t) \/ Act(t)
    <3>1. call'[t].phase = "answered" /\ call'[t].kind # "csrf" /\ call'[t].answer # "csrf"
      BY <2>6, OfTab, CopyGets DEF WrongPassword, Me, Act, Answer, Allowed, Loaded
    <3> QED
      BY <3>1 DEF Renewed
  <2> QED
    BY <2>2, <2>3, <2>4, <2>5, <2>6 DEF Serve
<1> QED
  BY <1>1, <1>2, WorkKeepsRetry DEF Retrying

LEMMA LoseKeepsRetry ==
  ASSUME SessionBase, RetryInv, NEW t \in Tabs, Lose(t)
  PROVE  RetryInv'
<1>1. call'[t].phase = "answered" /\ call'[t].answer = "lost"
  BY OfTab DEF Lose, Idle
<1>2. Renewed(t)' /\ tab[t].do # "none"
  BY <1>1, AtWork DEF Renewed, Lose
<1> QED
  BY <1>2, WorkKeepsRetry DEF Lose

LEMMA ReceiveKeepsRetry ==
  ASSUME SessionBase, RetryInv, NEW t \in Tabs, Receive(t)
  PROVE  RetryInv'
<1>1. PICK q : q = After(tab[t], call[t])
  OBVIOUS
<1>2. /\ tab' = [tab EXCEPT ![t] = q] /\ call' = [call EXCEPT ![t] = Idle]
      /\ call[t].phase = "answered" /\ tab[t].do # "none" /\ rows' = rows
      /\ cookie' = SetCookie(call[t].sid) /\ Idle.phase = "none"
  BY <1>1, AtWork DEF Receive, Idle
<1>3. /\ \/ call[t].answer = "csrf" /\ tab[t].stage = "first" /\ GoesOn(tab[t], q, 0, "second")
         \/ /\ call[t].answer = "ok" /\ call[t].kind = "csrf" /\ tab[t].stage # "after"
            /\ GoesOn(tab[t], q, call[t].value, tab[t].stage)
         \/ call[t].answer = "ok" /\ call[t].kind = "login" /\ GoesOn(tab[t], q, 0, "after")
         \/ Ends(q, TRUE) \/ Ends(q, tab[t].do = "act")
  <2>1. /\ tab[t] \in TabType /\ call[t] \in CallType /\ InStep(tab[t], call[t])
    BY OfTab
  <2> QED
    BY <1>1, <1>2, <2>1, AfterIs
<1>4. q.alone => tab[t].alone
  BY <1>3 DEF GoesOn, Ends
<1>5. call'[t].phase = "none" /\ tab'[t] = q /\ \A u \in Tabs \ {t} : tab'[u] = tab[u]
  BY <1>2, OfTab
<1>6. ASSUME q.alone, q.stage = "second", q.do \in {"login", "act"}
      PROVE  Renewed(t)'
  <2>1. CASE q.token = 0
    BY <1>5, <2>1 DEF Renewed
  <2>2. CASE q.token # 0
    <3>1. call[t].answer = "ok" /\ call[t].kind = "csrf" /\ q.token = call[t].value
          /\ Retrying(t)
      BY <1>3, <1>6, <2>2 DEF GoesOn, Ends, Retrying
    <3>2. call[t].sid \in DOMAIN rows /\ rows[call[t].sid].csrf = q.token
      BY <1>2, <3>1 DEF RetryInv, Renewed
    <3>3. cookie' = call[t].sid
      BY <1>2, <3>2 DEF SetCookie, SessionBase, SessionTypes
    <3> QED
      BY <1>2, <1>5, <3>2, <3>3 DEF Renewed
  <2> QED
    BY <2>1, <2>2
<1> QED
  BY <1>2, <1>4, <1>5, <1>6, WorkKeepsRetry DEF Retrying

LEMMA NextRetry == SessionBase /\ RetryInv /\ [SNext]_sVars => RetryInv'
<1> SUFFICES ASSUME SessionBase, RetryInv, [SNext]_sVars PROVE RetryInv'
  OBVIOUS
<1>1. CASE UNCHANGED sVars
  BY <1>1 DEF sVars, RetryInv, Retrying, Renewed, Quiet
<1>2. ASSUME NEW t \in Tabs,
             (\E what \in Doings : Begin(t, what)) \/ Send(t) \/ Serve(t) \/ Lose(t) \/ Receive(t)
      PROVE  RetryInv'
  BY <1>2, BeginKeepsRetry, SendKeepsRetry, ServeKeepsRetry, LoseKeepsRetry, ReceiveKeepsRetry
<1>3. ASSUME NEW s \in DOMAIN rows, Expire(s) PROVE RetryInv'
  <2>1. \A t \in Tabs : ~tab'[t].alone
    BY <1>3 DEF Expire, SessionBase, SessionTypes, TabType
  <2> QED
    BY <2>1 DEF RetryInv, Retrying
<1> QED
  BY <1>1, <1>2, <1>3 DEF SNext
-----------------------------------------------------------------------------
\* The tab has an answer that signs the user in.
Entering(t) ==
  call[t].phase = "answered" /\ call[t].kind = "login" /\ call[t].answer = "ok"

SignsIn(t) == LoggedIn \/ Entering(t)

\* The request of a tab that is the only one at work, before anything has got
\* lost, is about the session that the browser has.
Orderly(t) ==
  /\ call[t].phase = "sent" => call[t].sid = cookie
  /\ call[t].phase = "loaded" =>
       IF call[t].known
       THEN /\ call[t].sid = cookie /\ cookie \in DOMAIN rows
            /\ call[t].session.user = rows[cookie].user
       ELSE call[t].kind = "csrf" /\ cookie \notin DOMAIN rows /\ ~call[t].session.user
  /\ Entering(t) => call[t].sid \in DOMAIN rows /\ rows[call[t].sid].user
  /\ call[t].phase = "answered" /\ call[t].kind = "csrf" =>
       call[t].sid = cookie \/ cookie \notin DOMAIN rows
  /\ call[t].phase = "answered" /\ call[t].kind # "csrf" /\ ~Entering(t) =>
       /\ call[t].sid \in {0, cookie}
       /\ call[t].answer = "ok" => LoggedIn
  /\ call[t].phase = "answered" => call[t].answer # "lost"
  /\ tab[t].stage = "after" => LoggedIn
  /\ tab[t].do = "act" => tab[t].shown

OneAtWork ==
  \A t, u \in Tabs : tab[t].do # "none" /\ tab[u].do # "none" => t = u

OrderInv ==
  ~upsets.mixed =>
    /\ OneAtWork
    /\ \A t \in Tabs : Orderly(t)
    /\ \A t \in Tabs : tab[t].shown => \E u \in Tabs : SignsIn(u)

\* The copies that requests have of a session agree with it and one another
\* on whether it has a user.
CopyInv ==
  /\ \A t \in Tabs : call[t].phase = "loaded" /\ call[t].sid \in DOMAIN rows =>
       call[t].session.user = rows[call[t].sid].user
  /\ \A t, u \in Tabs :
       call[t].phase = "loaded" /\ call[u].phase = "loaded" /\ call[t].sid = call[u].sid =>
         call[t].session.user = call[u].session.user

\* A tab that does nothing is in order.
LEMMA RestIsOrderly ==
  ASSUME SessionBase, NEW t \in Tabs, tab[t].do = "none"
  PROVE  Orderly(t) /\ ~Entering(t)
BY OfTab DEF InStep, Orderly, Entering

LEMMA RestStaysOrderly ==
  ASSUME SessionBase', NEW t \in Tabs, tab'[t].do = "none"
  PROVE  Orderly(t)'
BY DEF SessionBase, InStep, Orderly, Entering

\* A step of the only tab at work.
LEMMA WorkKeepsOrder ==
  ASSUME SessionBase, SessionBase', OrderInv, NEW t \in Tabs, tab[t].do # "none",
         \A u \in Tabs \ {t} : tab'[u] = tab[u],
         ~upsets'.mixed => /\ ~upsets.mixed /\ Orderly(t)'
                           /\ SignsIn(t) => SignsIn(t)'
                           /\ tab'[t].shown => tab[t].shown \/ SignsIn(t)'
  PROVE  OrderInv'
<1> SUFFICES ASSUME ~upsets'.mixed
             PROVE  /\ OneAtWork' /\ \A u \in Tabs : Orderly(u)'
                    /\ \A u \in Tabs : tab'[u].shown => \E v \in Tabs : SignsIn(v)'
  BY DEF OrderInv
<1>1. \A u \in Tabs : u # t => tab[u].do = "none" /\ tab'[u].do = "none"
  BY DEF OrderInv, OneAtWork
<1>2. OneAtWork'
  BY <1>1 DEF OneAtWork
<1>3. \A u \in Tabs : Orderly(u)'
  <2>1. \A u \in Tabs : u # t => Orderly(u)'
    BY <1>1, RestStaysOrderly
  <2> QED
    BY <2>1
<1>4. ASSUME NEW u \in Tabs, tab'[u].shown PROVE SignsIn(t)'
  <2>1. CASE tab[u].shown
    <3>1. PICK v \in Tabs : SignsIn(v)
      BY <2>1 DEF OrderInv
    <3>2. SignsIn(t)
      BY <1>1, <3>1, RestIsOrderly DEF SignsIn
    <3> QED
      BY <3>2
  <2>2. CASE ~tab[u].shown
    BY <1>4, <2>2
  <2> QED
    BY <2>1, <2>2
<1> QED
  BY <1>2, <1>3, <1>4

LEMMA InitOrder == SInit => OrderInv
<1> SUFFICES ASSUME SInit PROVE OrderInv
  OBVIOUS
<1>1. PICK in \in BOOLEAN :
        /\ rows = [s \in {1} |-> [user |-> in, csrf |-> 1]]
        /\ tab = [t \in Tabs |-> [NewTab(in) EXCEPT
                                    !.token = IF t = (CHOOSE o \in Tabs : TRUE)
                                              THEN 1 ELSE 2]]
  BY DEF SInit
<1>2. \A t \in Tabs : tab[t].do = "none" /\ tab[t].shown = in
  BY <1>1 DEF NewTab
<1>3. in => LoggedIn
  BY <1>1 DEF LoggedIn, SInit
<1> QED
  BY <1>2, <1>3, InitBase, RestIsOrderly DEF OrderInv, OneAtWork, SignsIn

LEMMA BeginKeepsOrder ==
  ASSUME SessionBase, SessionBase', OrderInv, NEW t \in Tabs, NEW what \in Doings,
         Begin(t, what)
  PROVE  OrderInv'
<1> SUFFICES ASSUME ~upsets'.mixed
             PROVE  /\ OneAtWork' /\ \A u \in Tabs : Orderly(u)'
                    /\ \A u \in Tabs : tab'[u].shown => \E v \in Tabs : SignsIn(v)'
  BY DEF OrderInv
<1>1. ~upsets.mixed /\ Quiet(t) /\ tab[t].do = "none"
  <2>1. PICK m \in BOOLEAN : m = (upsets.mixed \/ ~Quiet(t))
    OBVIOUS
  <2>2. upsets' = [upsets EXCEPT !.calls = @ + 1, !.mixed = m]
    BY <2>1 DEF Begin
  <2>3. upsets'.mixed = m
    BY <2>2, OfTab, UpsetsCount
  <2> QED
    BY <2>1, <2>3 DEF Begin
<1>2. \A u \in Tabs : tab[u].do = "none" /\ call[u].phase = "none"
  BY <1>1, OfTab DEF Quiet, InStep
<1>3. /\ \A u \in Tabs \ {t} : tab'[u].do = "none" /\ tab'[u].shown = tab[u].shown
      /\ tab'[t].do = what /\ tab'[t].stage = "first"
      /\ tab'[t].shown = (what # "boot" /\ tab[t].shown)
      /\ what = "act" => tab[t].shown
  BY <1>2, OfTab DEF Begin, NewTab, TabType
<1>4. rows' = rows /\ cookie' = cookie /\ call' = call
  BY DEF Begin
<1>5. OneAtWork'
  BY <1>3 DEF OneAtWork
<1>6. Orderly(t)'
  BY <1>2, <1>3, <1>4 DEF Orderly, Entering
<1>7. \A u \in Tabs : Orderly(u)'
  <2>1. \A u \in Tabs : u # t => Orderly(u)'
    BY <1>3, RestStaysOrderly
  <2> QED
    BY <1>6, <2>1
<1>8. \A u \in Tabs : tab'[u].shown => LoggedIn'
  <2>1. \A u \in Tabs : tab[u].shown => LoggedIn
    BY <1>1, <1>2 DEF OrderInv, SignsIn, Entering
  <2> QED
    BY <1>3, <1>4, <2>1 DEF LoggedIn
<1> QED
  BY <1>5, <1>7, <1>8 DEF SignsIn

LEMMA SendKeepsOrder ==
  ASSUME SessionBase, SessionBase', OrderInv, NEW t \in Tabs, Send(t)
  PROVE  OrderInv'
<1>1. /\ call'[t].phase = "sent" /\ call'[t].sid = cookie
      /\ rows' = rows /\ cookie' = cookie /\ tab' = tab /\ upsets' = upsets
      /\ call[t].phase = "none" /\ tab[t].do # "none"
  BY OfTab DEF Send, Idle
<1>2. ASSUME ~upsets'.mixed
      PROVE  /\ ~upsets.mixed /\ Orderly(t)'
             /\ SignsIn(t) => SignsIn(t)'
             /\ tab'[t].shown => tab[t].shown \/ SignsIn(t)'
  <2>1. ~upsets.mixed /\ Orderly(t)
    BY <1>1, <1>2 DEF OrderInv
  <2>2. LoggedIn' = LoggedIn /\ ~Entering(t)
    BY <1>1 DEF LoggedIn, Entering
  <2> QED
    BY <1>1, <2>1, <2>2 DEF Orderly, Entering, SignsIn
<1> QED
  BY <1>1, <1>2, WorkKeepsOrder

LEMMA ServeKeepsOrder ==
  ASSUME SessionBase, SessionBase', OrderInv, NEW t \in Tabs, Serve(t)
  PROVE  OrderInv'
<1>1. /\ tab[t].do # "none" /\ call[t].phase \in {"sent", "loaded"}
      /\ \A u \in Tabs \ {t} : tab'[u] = tab[u]
      /\ tab'[t].shown = tab[t].shown /\ tab'[t].stage = tab[t].stage
      /\ tab'[t].do = tab[t].do /\ upsets' = upsets /\ cookie' = cookie
  BY OfTab, AtWork DEF Serve, Load, Refuse, GetCsrf, LogIn, WrongPassword, Me, Act,
     Allowed, Loaded, TabType
<1>2. ASSUME ~upsets.mixed PROVE Orderly(t)' /\ (SignsIn(t) => SignsIn(t)')
  <2>1. Orderly(t) /\ ~Entering(t)
    BY <1>1, <1>2 DEF OrderInv, Entering
  <2>2. CASE Load(t)
    <3>1. PICK c \in CallType :
           /\ call' = [call EXCEPT ![t] = c] /\ c.phase = "loaded"
           /\ c.kind = call[t].kind /\ c.kind \in {"csrf", "login"}
           /\ c.sid = Copy(t).sid /\ c.session = Copy(t).session /\ c.known = Copy(t).known
      BY <2>2, LoadIs
    <3>2. call[t].phase = "sent" /\ call[t].sid = cookie /\ rows' = rows
          /\ call[t].session.user = FALSE /\ ~call[t].known /\ call[t].session.csrf = 0
      BY <2>1, <2>2, OfTab DEF Load, Allowed, Orderly, InStep, NoSession
    <3>3. c.kind = "login" => Copy(t).known
      BY <2>2, <3>1, <3>2, OfTab, CopyGets DEF Load, Allowed, Refusal, CsrfValid
    <3>4. call'[t] = c
      BY <3>1, OfTab
    <3>5. IF c.known
          THEN /\ c.sid = cookie /\ cookie \in DOMAIN rows
               /\ c.session.user = rows[cookie].user
          ELSE c.kind = "csrf" /\ cookie \notin DOMAIN rows /\ ~c.session.user
      BY <3>1, <3>2, <3>3, OfTab, CopyGets
    <3> QED
      BY <1>1, <2>1, <3>1, <3>2, <3>4, <3>5 DEF Orderly, Entering, SignsIn, LoggedIn
  <2>3. CASE Refuse(t)
    <3>1. PICK c \in CallType :
           /\ call' = [call EXCEPT ![t] = c] /\ c.phase = "answered"
           /\ c.kind = call[t].kind /\ c.answer = Refusal(Copy(t))
           /\ c.answer \in {"csrf", "anonymous"}
           /\ c.sid = IF Copy(t).known THEN Copy(t).sid ELSE 0
      BY <2>3, RefuseIs
    <3>2. call[t].phase = "sent" /\ call[t].sid = cookie /\ ~call[t].known /\ rows' = rows
      BY <2>1, <2>3, OfTab DEF Refuse, Orderly, InStep
    <3>3. c.kind # "csrf"
      BY <3>1, OfTab, CopyGets DEF Refusal
    <3>4. c.sid \in {0, cookie}
      BY <3>1, <3>2, OfTab, CopyGets
    <3>5. call'[t] = c
      BY <3>1, OfTab
    <3> QED
      BY <1>1, <2>1, <3>1, <3>2, <3>3, <3>4, <3>5 DEF Orderly, Entering, SignsIn, LoggedIn
  <2>4. CASE GetCsrf(t)
    <3>1. call[t].sid # 0 /\ call[t].phase = "loaded" /\ call[t].kind = "csrf"
      BY <2>4, OfTab DEF GetCsrf, Loaded, InStep
    <3>2. PICK row \in SessionType :
            rows' = WithRow(call[t].sid, row) /\ row.user = call[t].session.user
      BY <2>4, <3>1, GetCsrfIs
    <3>3. /\ call'[t].phase = "answered" /\ call'[t].kind = "csrf" /\ call'[t].answer = "ok"
          /\ call'[t].sid = call[t].sid
      BY <2>4, <3>1, GetCsrfIs, OfTab
    <3>4. LoggedIn' = LoggedIn
      BY <1>1, <2>1, <3>1, <3>2 DEF Orderly, LoggedIn, WithRow
    <3>5. call[t].sid = cookie \/ cookie \notin DOMAIN rows'
      BY <2>1, <3>1, <3>2 DEF Orderly, WithRow
    <3> QED
      BY <1>1, <2>1, <3>3, <3>4, <3>5 DEF Orderly, Entering, SignsIn
  <2>5. CASE LogIn(t)
    <3>1. /\ call'[t].phase = "answered" /\ call'[t].kind = "login" /\ call'[t].answer = "ok"
          /\ call'[t].sid = NewSid
          /\ rows' = [s \in (DOMAIN rows \ {call[t].sid}) \cup {NewSid} |->
                      IF s = NewSid THEN [user |-> TRUE, csrf |-> 0] ELSE rows[s]]
      BY <2>5, LogInIs, OfTab
    <3>2. NewSid \in DOMAIN rows' /\ rows'[NewSid].user
      BY <3>1
    <3>3. tab[t].stage # "after"
      BY <2>5, OfTab DEF LogIn, Loaded, InStep
    <3> QED
      BY <1>1, <2>1, <3>1, <3>2, <3>3 DEF Orderly, Entering, SignsIn
  <2>6. CASE WrongPassword(t)
    <3>1. call[t].phase = "loaded" /\ call[t].kind = "login" /\ call[t] \in CallType
          /\ call' = [call EXCEPT ![t] = Answer(call[t], "anonymous", 0)] /\ rows' = rows
      BY <2>6, OfTab DEF WrongPassword, Loaded
    <3>2. PICK q \in CallType :
           /\ q = Answer(call[t], "anonymous", 0) /\ q.phase = "answered"
           /\ q.kind = call[t].kind /\ q.answer = "anonymous" /\ q.sid = call[t].sid
      BY <3>1, PlainAnswer
    <3>3. call'[t] = q /\ q.sid = cookie
      BY <2>1, <3>1, <3>2, OfTab DEF Orderly
    <3> QED
      BY <1>1, <2>1, <3>1, <3>2, <3>3 DEF Orderly, Entering, SignsIn, LoggedIn
  <2>7. CASE Me(t) \/ Act(t)
    <3>1. /\ call' = [call EXCEPT ![t] = Answer(Copy(t), "ok", 0)] /\ rows' = rows
          /\ call[t].phase = "sent" /\ call[t].kind \in {"me", "act"}
          /\ Refusal(Copy(t)) = "none" /\ Copy(t) \in CallType /\ Copy(t).kind = call[t].kind
      BY <2>7, OfTab, CopyGets DEF Me, Act, Allowed
    <3>2. call[t].sid = cookie /\ ~call[t].session.user
      BY <2>1, <3>1, OfTab DEF Orderly, InStep, NoSession
    <3>3. Copy(t).session.user
      BY <3>1 DEF Refusal
    <3>4. LoggedIn /\ Copy(t).sid = cookie
      BY <3>2, <3>3, OfTab, CopyGets DEF LoggedIn
    <3>5. PICK q \in CallType :
           /\ q = Answer(Copy(t), "ok", 0) /\ q.phase = "answered"
           /\ q.kind = Copy(t).kind /\ q.answer = "ok" /\ q.sid = Copy(t).sid
      BY <3>1, PlainAnswer
    <3>6. call'[t] = q
      BY <3>1, <3>5, OfTab
    <3> QED
      BY <1>1, <2>1, <3>1, <3>4, <3>5, <3>6 DEF Orderly, Entering, SignsIn, LoggedIn
  <2> QED
    BY <2>2, <2>3, <2>4, <2>5, <2>6, <2>7 DEF Serve
<1> QED
  BY <1>1, <1>2, WorkKeepsOrder

LEMMA ReceiveKeepsOrder ==
  ASSUME SessionBase, SessionBase', OrderInv, NEW t \in Tabs, Receive(t)
  PROVE  OrderInv'
<1>1. PICK q : q = After(tab[t], call[t])
  OBVIOUS
<1>2. /\ tab' = [tab EXCEPT ![t] = q] /\ call' = [call EXCEPT ![t] = Idle]
      /\ call[t].phase = "answered" /\ tab[t].do # "none" /\ rows' = rows
      /\ cookie' = SetCookie(call[t].sid) /\ Idle.phase = "none" /\ upsets' = upsets
  BY <1>1, AtWork DEF Receive, Idle
<1>3. /\ \/ call[t].answer = "csrf" /\ tab[t].stage = "first" /\ GoesOn(tab[t], q, 0, "second")
         \/ /\ call[t].answer = "ok" /\ call[t].kind = "csrf" /\ tab[t].stage # "after"
            /\ GoesOn(tab[t], q, call[t].value, tab[t].stage)
         \/ /\ call[t].answer = "ok" /\ call[t].kind = "csrf" /\ tab[t].stage = "after"
            /\ Ends(q, TRUE)
         \/ call[t].answer = "ok" /\ call[t].kind = "login" /\ GoesOn(tab[t], q, 0, "after")
         \/ call[t].answer = "ok" /\ call[t].kind \in {"act", "me"} /\ Ends(q, TRUE)
         \/ call[t].answer # "ok" /\ Ends(q, tab[t].do = "act")
  <2>1. /\ tab[t] \in TabType /\ call[t] \in CallType /\ InStep(tab[t], call[t])
    BY OfTab
  <2> QED
    BY <1>1, <1>2, <2>1, AfterIs
<1>4. call'[t].phase = "none" /\ tab'[t] = q /\ \A u \in Tabs \ {t} : tab'[u] = tab[u]
  BY <1>2, OfTab
<1>5. ASSUME ~upsets.mixed
      PROVE  /\ Orderly(t)'
             /\ SignsIn(t) => SignsIn(t)'
             /\ q.shown => tab[t].shown \/ SignsIn(t)'
  <2>1. Orderly(t)
    BY <1>5 DEF OrderInv
  <2>2. CASE Entering(t)
    <3>1. LoggedIn'
      BY <1>2, <2>1, <2>2, OfTab DEF Orderly, LoggedIn, SetCookie, SessionTypes
    <3>2. GoesOn(tab[t], q, 0, "after")
      BY <1>3, <2>2 DEF Entering
    <3> QED
      BY <1>4, <2>1, <3>1, <3>2 DEF SignsIn, Orderly, GoesOn, Entering
  <2>3. CASE ~Entering(t)
    <3>1. LoggedIn => LoggedIn'
      BY <1>2, <2>1, <2>3 DEF Orderly, LoggedIn, SetCookie
    <3>2. SignsIn(t) => LoggedIn'
      BY <2>3, <3>1 DEF SignsIn
    <3>3. (q.shown => tab[t].shown \/ LoggedIn') /\ (q.stage = "after" => LoggedIn')
          /\ (q.do = "act" => q.shown)
      BY <1>2, <1>3, <2>1, <2>3, <3>1 DEF Orderly, GoesOn, Ends, Entering
    <3> QED
      BY <1>4, <3>2, <3>3 DEF SignsIn, Orderly, Entering
  <2> QED
    BY <2>2, <2>3
<1> QED
  BY <1>2, <1>4, <1>5, WorkKeepsOrder

LEMMA NextOrder ==
  SessionBase /\ SessionBase' /\ OrderInv /\ [SNext]_sVars => OrderInv'
<1> SUFFICES ASSUME SessionBase, SessionBase', OrderInv, [SNext]_sVars PROVE OrderInv'
  OBVIOUS
<1>1. CASE UNCHANGED sVars
  BY <1>1 DEF sVars, OrderInv, OneAtWork, Orderly, SignsIn, Entering, LoggedIn
<1>2. upsets'.mixed => OrderInv'
  BY DEF OrderInv
<1>3. ASSUME NEW t \in Tabs,
             (\E what \in Doings : Begin(t, what)) \/ Send(t) \/ Serve(t) \/ Receive(t)
      PROVE  OrderInv'
  BY <1>3, BeginKeepsOrder, SendKeepsOrder, ServeKeepsOrder, ReceiveKeepsOrder
<1>4. ASSUME (\E t \in Tabs : Lose(t)) \/ (\E s \in DOMAIN rows : Expire(s))
      PROVE  upsets'.mixed
  <2>1. upsets' = [upsets EXCEPT !.losses = @ + 1, !.mixed = TRUE] /\ upsets \in UpsetType
    BY <1>4 DEF Lose, Expire, SessionBase, SessionTypes
  <2> QED
    BY <2>1, UpsetsCount
<1> QED
  BY <1>1, <1>2, <1>3, <1>4 DEF SNext

-----------------------------------------------------------------------------
\* A step that loads nothing and stores nothing.
LEMMA PlainKeepsCopies ==
  ASSUME CopyInv, DOMAIN rows' \subseteq DOMAIN rows,
         \A s \in DOMAIN rows' : rows'[s].user = rows[s].user,
         \A t \in Tabs : call'[t].phase = "loaded" => call'[t] = call[t]
  PROVE  CopyInv'
BY DEF CopyInv

LEMMA LoadKeepsCopies ==
  ASSUME SessionBase, CopyInv, NEW t \in Tabs, Load(t)
  PROVE  CopyInv'
<1>1. PICK c \in CallType :
           /\ call' = [call EXCEPT ![t] = c] /\ c.phase = "loaded"
           /\ c.sid = Copy(t).sid /\ c.session = Copy(t).session
  BY LoadIs
<1>2. rows' = rows /\ call'[t] = c /\ \A u \in Tabs \ {t} : call'[u] = call[u]
  BY <1>1, OfTab DEF Load
<1>3. c.sid \in DOMAIN rows => c.session.user = rows[c.sid].user
  BY <1>1, OfTab, CopyGets, NewSidIsNew
<1>4. ASSUME NEW u \in Tabs, u # t, call[u].phase = "loaded", call[u].sid = c.sid
      PROVE  call[u].session.user = c.session.user
  <2>1. c.sid # NewSid
    BY <1>4, OfTab, NewSidIsNew
  <2>2. c.sid \in DOMAIN rows
    BY <1>1, <2>1, OfTab, CopyGets
  <2> QED
    BY <1>3, <1>4, <2>2 DEF CopyInv
<1> QED
  BY <1>1, <1>2, <1>3, <1>4 DEF CopyInv

\* The session keeps the user it has when its token is stored.
LEMMA GetCsrfKeepsCopies ==
  ASSUME SessionBase, CopyInv, NEW t \in Tabs, GetCsrf(t)
  PROVE  /\ CopyInv'
         /\ \A s \in DOMAIN rows \cap DOMAIN rows' : rows'[s].user => rows[s].user
<1>1. call[t].sid # 0 /\ call[t].phase = "loaded"
  BY OfTab DEF GetCsrf, Loaded, InStep
<1>2. PICK row \in SessionType :
            rows' = WithRow(call[t].sid, row) /\ row.user = call[t].session.user
  BY <1>1, GetCsrfIs
<1>3. call'[t].phase = "answered" /\ \A u \in Tabs \ {t} : call'[u] = call[u]
  BY <1>1, GetCsrfIs, OfTab
<1>4. /\ DOMAIN rows' = DOMAIN rows \cup {call[t].sid}
      /\ \A s \in DOMAIN rows' :
           rows'[s].user = IF s = call[t].sid THEN call[t].session.user ELSE rows[s].user
  BY <1>2 DEF WithRow
<1>5. CopyInv'
  BY <1>1, <1>3, <1>4 DEF CopyInv
<1>6. call[t].sid \in DOMAIN rows => call[t].session.user = rows[call[t].sid].user
  BY <1>1 DEF CopyInv
<1> QED
  BY <1>4, <1>5, <1>6

\* The session that gets the user is new, and no request has a copy of it.
LEMMA LogInKeepsCopies ==
  ASSUME SessionBase, CopyInv, NEW t \in Tabs, LogIn(t)
  PROVE  /\ CopyInv'
         /\ \A s \in DOMAIN rows \cap DOMAIN rows' : rows'[s].user => rows[s].user
<1>1. /\ call'[t].phase = "answered" /\ \A u \in Tabs \ {t} : call'[u] = call[u]
      /\ rows' = [s \in (DOMAIN rows \ {call[t].sid}) \cup {NewSid} |->
                      IF s = NewSid THEN [user |-> TRUE, csrf |-> 0] ELSE rows[s]]
  BY LogInIs, OfTab
<1>2. NewSid \notin DOMAIN rows /\ \A u \in Tabs : call[u].sid # NewSid
  BY OfTab, NewSidIsNew
<1>3. \A s \in DOMAIN rows' : s # NewSid => s \in DOMAIN rows /\ rows'[s] = rows[s]
  BY <1>1
<1>4. \A u \in Tabs : call'[u].phase = "loaded" => call'[u] = call[u]
  BY <1>1
<1>5. \A s \in DOMAIN rows' : s # NewSid => s \in DOMAIN rows /\ rows'[s].user = rows[s].user
  BY <1>3
<1> HIDE DEF NewSid
<1> QED
  BY <1>2, <1>4, <1>5 DEF CopyInv

LEMMA NextCopies ==
  ASSUME SessionBase, CopyInv, [SNext]_sVars
  PROVE  /\ CopyInv'
         /\ \A s \in DOMAIN rows \cap DOMAIN rows' : rows'[s].user => rows[s].user
<1>1. CASE UNCHANGED sVars
  BY <1>1 DEF sVars, CopyInv
<1>2. ASSUME NEW t \in Tabs,
             \/ \E what \in Doings : Begin(t, what)
             \/ Send(t) \/ Refuse(t) \/ WrongPassword(t) \/ Me(t) \/ Act(t)
             \/ Lose(t) \/ Receive(t)
      PROVE  rows' = rows /\ \A u \in Tabs : call'[u].phase = "loaded" => call'[u] = call[u]
  <2>1. CASE \E what \in Doings : Begin(t, what)
    BY <2>1 DEF Begin
  <2>4. CASE Send(t) \/ Lose(t) \/ Receive(t)
    <3>1. /\ \A u \in Tabs \ {t} : call'[u] = call[u]
          /\ rows' = rows /\ call'[t].phase # "loaded"
      <4>1. CASE Send(t)
        BY <4>1, OfTab DEF Send, Idle
      <4>2. CASE Lose(t)
        BY <4>2, OfTab DEF Lose, Idle
      <4>3. CASE Receive(t)
        BY <4>3, OfTab DEF Receive, Idle
      <4> QED
        BY <2>4, <4>1, <4>2, <4>3
    <3> QED
      BY <3>1
  <2>2. CASE Refuse(t)
    <3>1. PICK c \in CallType : call' = [call EXCEPT ![t] = c] /\ c.phase = "answered"
      BY <2>2, RefuseIs
    <3> QED
      BY <2>2, <3>1, OfTab DEF Refuse
  <2>3. CASE WrongPassword(t) \/ Me(t) \/ Act(t)
    BY <2>3, OfTab DEF WrongPassword, Me, Act, Answer
  <2> QED
    BY <1>2, <2>1, <2>2, <2>3, <2>4
<1>3. ASSUME NEW s \in DOMAIN rows, Expire(s)
      PROVE  /\ DOMAIN rows' \subseteq DOMAIN rows /\ call' = call
             /\ \A x \in DOMAIN rows' : rows'[x].user = rows[x].user
  BY <1>3 DEF Expire, WithoutRow
<1>4. CASE \E t \in Tabs : \/ \E what \in Doings : Begin(t, what)
                           \/ Send(t) \/ Refuse(t) \/ WrongPassword(t) \/ Me(t) \/ Act(t)
                           \/ Lose(t) \/ Receive(t)
  BY <1>2, <1>4, PlainKeepsCopies
<1>5. CASE \E s \in DOMAIN rows : Expire(s)
  BY <1>3, <1>5, PlainKeepsCopies
<1>6. CASE \E t \in Tabs : Load(t)
  BY <1>6, LoadKeepsCopies DEF Load
<1>7. CASE \E t \in Tabs : GetCsrf(t) \/ LogIn(t)
  BY <1>7, GetCsrfKeepsCopies, LogInKeepsCopies
<1> QED
  BY <1>1, <1>4, <1>5, <1>6, <1>7 DEF SNext, Serve

-----------------------------------------------------------------------------
SessionsInv == SessionBase /\ RetryInv /\ OrderInv /\ CopyInv

LEMMA SessionsInvHolds ==
  /\ SInit => SessionsInv
  /\ SessionsInv /\ [SNext]_sVars => SessionsInv'
<1>1. SInit => CopyInv
  BY DEF SInit, CopyInv, Idle
<1> QED
  BY <1>1, InitBase, InitRetry, InitOrder, NextBase, NextRetry, NextOrder, NextCopies
     DEF SessionsInv

SessionsTrue == SessionsTypeOK /\ AnsweredTruly /\ CsrfRecovers /\ ShownIsTrue

LEMMA SessionsInvSays == SessionsInv => SessionsTrue
<1> SUFFICES ASSUME SessionsInv PROVE SessionsTrue
  OBVIOUS
<1>1. SessionsTypeOK
  BY DEF SessionsInv, SessionBase, SessionTypes, SessionType, TabType, CallType,
     InStep, SessionsTypeOK
<1>2. AnsweredTruly
  BY OfTab DEF SessionsInv, InStep, AnsweredTruly, TabType
<1>3. CsrfRecovers
  <2> SUFFICES ASSUME NEW t \in Tabs, tab[t].alone, tab[t].do \in {"boot", "login", "act"},
                      tab[t].stage = "second", call[t].phase = "answered",
                      call[t].answer = "csrf"
               PROVE  FALSE
    BY DEF CsrfRecovers
  <2>1. InStep(tab[t], call[t])
    BY DEF SessionsInv, SessionBase
  <2>2. tab[t].do # "boot" /\ call[t].kind # "csrf"
    BY <2>1 DEF InStep
  <2> QED
    BY <2>2 DEF SessionsInv, RetryInv, Retrying, Renewed
<1>4. ShownIsTrue
  <2> SUFFICES ASSUME ~upsets.mixed, \A t \in Tabs : tab[t].do = "none",
                      NEW t \in Tabs, tab[t].shown
               PROVE  LoggedIn
    BY DEF ShownIsTrue
  <2>1. PICK u \in Tabs : SignsIn(u)
    BY DEF SessionsInv, OrderInv
  <2> QED
    BY <2>1, RestIsOrderly DEF SessionsInv, SignsIn
<1> QED
  BY <1>1, <1>2, <1>3, <1>4 DEF SessionsTrue

THEOREM SessionsInductive == SSpec => []SessionsInv
BY SessionsInvHolds, PTL DEF SSpec

(***************************************************************************)
(* What the user does is done once at most, and not at all when it was     *)
(* refused; a tab that is left alone gets over a stale CSRF token by one   *)
(* retry; and in order, a user is shown only where the session has one     *)
(* (client.ts:75-115, AuthContext.tsx, routes/auth.ts:93-131), for any     *)
(* number of tabs, calls and losses.                                       *)
(***************************************************************************)
THEOREM SessionsAreTrue == SSpec => []SessionsTrue
BY SessionsInductive, SessionsInvSays, PTL

(***************************************************************************)
(* No session that was there before its user signed in is given the user:  *)
(* a copy of it that a slower request saves writes none into it            *)
(* (routes/auth.ts:121-131).                                               *)
(***************************************************************************)
THEOREM SignInRenews == SSpec => FreshSession
<1>1. SessionsInv /\ [SNext]_sVars =>
        [\A s \in DOMAIN rows \cap DOMAIN rows' : rows'[s].user => rows[s].user]_sVars
  BY NextCopies DEF SessionsInv
<1> QED
  BY <1>1, SessionsInductive, PTL DEF SSpec, FreshSession

-----------------------------------------------------------------------------
(*****************************************************************************)
(* The benchmark: the page goes through each event once and gives the alerts *)
(* that it should.                                                           *)
(*                                                                           *)
(* EventsOK says which part of the stream the page's list is, and where in it*)
(* the effect is; CountOK that the alerts given, and those for the events    *)
(* still waiting, are the breaks there were; OrderlyBench that the frames of *)
(* a dongle, from the one the page has seen to the API's counter, make one   *)
(* chain (ChainOK).                                                          *)
(*****************************************************************************)
Payload == {NoPayload} \cup [1..Dlc -> 0..(ByteValues - 1)]
EventType == [id : Nat \ {0}, at : Nat \ {0}, direction : {"tx", "rx"}, payload : Payload]
PageType == [target : Targets, events : Seq(EventType), due : BOOLEAN,
             lastProcessed : [id : Nat, at : Nat], ordering : Payload, alerts : Nat]
NotesType == [serial : Nat, handled : Nat, wrong : BOOLEAN, full : BOOLEAN,
              restarted : BOOLEAN, seen : Payload, breaks : Nat]
OddsType == [notes : NotesType, sends : Nat, upsets : Nat, unruly : BOOLEAN]

BenchTypes ==
  /\ orderedState \in [Targets -> Payload]
  /\ sending \in Seq([dongle : Targets, payload : Payload])
  /\ bus \in [Targets -> Seq(Payload)]
  /\ nextId \in [Targets -> Nat \ {0}]
  /\ page \in PageType /\ odds \in OddsType

\* How many events the effect has not gone through.
Behind(n) == n.serial - n.handled

\* The list is the latest part of the stream, and the place in it that the
\* effect has come to is known by the event's time and by its id.
EventsOK(p, n, next) ==
  LET L == Len(p.events)
  IN /\ L <= BufferSize /\ L <= n.serial /\ n.handled <= n.serial
     /\ n.serial # 0 => L # 0
     /\ \A i \in 1..L : p.events[i].at = n.serial - L + i
     /\ p.lastProcessed.at = n.handled
     /\ n.handled = 0 <=> p.lastProcessed = NoEvent
     /\ ~n.full => IF n.handled = 0 THEN L = n.serial ELSE Behind(n) < L
     /\ ~n.restarted =>
          /\ \A i \in 1..L : p.events[i].id = next - 1 - L + i
          /\ n.handled # 0 => p.lastProcessed.id = next - 1 - Behind(n)

\* The events that the effect has still to go through.
Waiting(p, n) == SubSeq(p.events, Len(p.events) - Behind(n) + 1, Len(p.events))

\* What the effect has counted, with what it has still to count, is what has
\* happened.
CountOK(p, n) ==
  ~n.full /\ ~n.restarted =>
    /\ ~n.wrong
    /\ n.seen = Checked(Waiting(p, n), Behind(n), p.ordering)
    /\ n.breaks = p.alerts + Cardinality(Mismatches(Waiting(p, n), p.ordering))

Follows(p, q) == p = NoPayload \/ q = Increment(p)

\* The last frame that has got past the API, as far as the page is to know.
LastOut(d) ==
  IF bus[d] # <<>> THEN bus[d][Len(bus[d])]
  ELSE IF page.target = d THEN odds.notes.seen ELSE NoPayload

\* The frames of a dongle, from the one that the page has seen to the one that
\* the API is to count on from, follow on one another.
ChainOK(d) ==
  /\ \A k \in 1..Len(bus[d]) - 1 : Follows(bus[d][k], bus[d][k + 1])
  /\ page.target = d /\ bus[d] # <<>> => Follows(odds.notes.seen, bus[d][1])
  /\ \A i \in 1..Len(sending) : sending[i].dongle = d =>
       Follows(LastOut(d), sending[i].payload) /\ orderedState[d] = sending[i].payload
  /\ (\A i \in 1..Len(sending) : sending[i].dongle # d) =>
       LastOut(d) \in {NoPayload, orderedState[d]}

OneSending ==
  \A i, j \in 1..Len(sending) : sending[i].dongle = sending[j].dongle => i = j

OrderlyBench ==
  ~odds.unruly =>
    /\ ~odds.notes.restarted /\ odds.notes.breaks = 0
    /\ OneSending
    /\ \A d \in Targets : ChainOK(d)

BenchInv ==
  /\ BenchTypes
  /\ EventsOK(page, odds.notes, nextId[page.target])
  /\ CountOK(page, odds.notes)
  /\ OrderlyBench

-----------------------------------------------------------------------------
\* A set of numbers has a smallest one, and, when they are bounded, a largest.
LEMMA NoneBelow ==
  ASSUME NEW T, T \subseteq Nat, T # {}
  PROVE  \E x \in T : \A y \in T : ~ (y < x)
<1>1. PICK x \in T : \A y \in T : ~ (<<y, x>> \in OpToRel(<, Nat))
  BY NatLessThanWellFounded, WFMin
<1>2. ASSUME NEW y \in T, y < x PROVE <<y, x>> \in OpToRel(<, Nat)
  <2>1. <<y, x>> \in Nat \X Nat
    OBVIOUS
  <2> QED
    BY <1>2, <2>1 DEF OpToRel
<1> QED
  BY <1>1, <1>2, Zenon

LEMMA SmallestOf ==
  ASSUME NEW T, T \subseteq Nat, T # {}
  PROVE  \E x \in T : \A y \in T : x <= y
<1>1. PICK x \in T : \A y \in T : ~ (y < x)
  BY NoneBelow
<1>2. \A y \in T : x <= y
  BY <1>1
<1> QED
  BY <1>2

LEMMA LargestOf ==
  ASSUME NEW k \in Nat, NEW T, T \subseteq 1..k, T # {}
  PROVE  Latest(T) \in T /\ \A y \in T : y <= Latest(T)
<1> DEFINE D == {k - i : i \in T}
<1>1. D \subseteq Nat
  OBVIOUS
<1>2. D # {}
  OBVIOUS
<1>3. PICK d \in D : \A e \in D : d <= e
  BY <1>1, <1>2, SmallestOf
<1>4. PICK x \in T : d = k - x
  OBVIOUS
<1>5. \A y \in T : k - x <= k - y
  BY <1>3, <1>4
<1>6. \A y \in T : y <= x
  BY <1>5
<1> HIDE DEF D
<1> QED
  BY <1>6 DEF Latest

-----------------------------------------------------------------------------
\* Counting up gives a payload again.
LEMMA IncrementIsPayload ==
  ASSUME NEW p \in [1..Dlc -> 0..(ByteValues - 1)]
  PROVE  Increment(p) \in [1..Dlc -> 0..(ByteValues - 1)]
<1>1. Dlc \in Nat /\ ByteValues \in Nat \ {0}
  BY BenchmarkAssumption DEF BenchmarkAssumption
<1>2. Len(p) = Dlc
  BY <1>1
<1>3. ASSUME NEW i \in 1..Dlc PROVE (p[i] + 1) % ByteValues \in 0..(ByteValues - 1)
  BY <1>1
<1>4. Increment(p) = [i \in 1..Dlc |->
        IF \A j \in 1..(i - 1) : p[j] = ByteValues - 1
        THEN (p[i] + 1) % ByteValues ELSE p[i]]
  BY <1>2 DEF Increment
<1> QED
  BY <1>3, <1>4

LEMMA NextIsPayload ==
  ASSUME BenchTypes, NEW d \in Targets
  PROVE  NextPayload(d) \in Payload /\ Follows(orderedState[d], NextPayload(d))
<1>1. orderedState[d] \in Payload /\ Dlc \in Nat /\ ByteValues \in Nat \ {0}
  BY BenchmarkAssumption DEF BenchTypes, BenchmarkAssumption
<1>2. CASE orderedState[d] = NoPayload
  BY <1>1, <1>2 DEF NextPayload, Zero, Payload, Follows
<1>3. CASE orderedState[d] # NoPayload
  BY <1>1, <1>3, IncrementIsPayload DEF NextPayload, Payload, Follows
<1> QED
  BY <1>2, <1>3

-----------------------------------------------------------------------------
\* What the effect has at hand after some of the events, and which of them it
\* gives an alert for, when there is one event more.
LEMMA CheckedIs ==
  ASSUME NEW s \in Seq(EventType), NEW o \in Payload, NEW k \in 0..Len(s)
  PROVE  /\ Checked(s, k, o) \in Payload
         /\ k = 0 => Checked(s, k, o) = o
         /\ k # 0 => Checked(s, k, o) =
              IF RxLike(s[k]) THEN s[k].payload ELSE Checked(s, k - 1, o)
<1>1. Arrived(s, k) \subseteq 1..k /\ k \in Nat
  BY DEF Arrived
<1>2. CASE Arrived(s, k) = {}
  <2>1. k # 0 => ~RxLike(s[k]) /\ Arrived(s, k - 1) = {}
    BY <1>2 DEF Arrived
  <2> QED
    BY <1>2, <2>1 DEF Checked
<1>3. CASE Arrived(s, k) # {}
  <2>1. PICK m : m = Latest(Arrived(s, k))
    OBVIOUS
  <2>2. m \in Arrived(s, k) /\ \A i \in Arrived(s, k) : i <= m
    BY <1>1, <1>3, <2>1, LargestOf
  <2>3. Checked(s, k, o) = s[m].payload
    BY <1>3, <2>1 DEF Checked
  <2>4. m \in 1..k /\ s[m] \in EventType
    BY <1>1, <2>2
  <2>5. RxLike(s[k]) => m = k
    BY <1>1, <2>2, <2>4 DEF Arrived
  <2>6. ~RxLike(s[k]) => Arrived(s, k - 1) = Arrived(s, k)
    BY DEF Arrived
  <2>7. ~RxLike(s[k]) => Checked(s, k - 1, o) = s[m].payload
    BY <1>3, <2>1, <2>6 DEF Checked
  <2> QED
    BY <2>3, <2>4, <2>5, <2>7 DEF EventType
<1> QED
  BY <1>2, <1>3

LEMMA CheckedAlike ==
  ASSUME NEW s \in Seq(EventType), NEW e \in EventType, NEW o \in Payload,
         NEW k \in 0..Len(s)
  PROVE  Checked(Append(s, e), k, o) = Checked(s, k, o)
<1>1. \A i \in 1..k : Append(s, e)[i] = s[i]
  OBVIOUS
<1>2. Arrived(Append(s, e), k) = Arrived(s, k) /\ Arrived(s, k) \subseteq 1..k /\ k \in Nat
  BY <1>1 DEF Arrived
<1>3. Arrived(s, k) # {} => Latest(Arrived(s, k)) \in 1..k
  BY <1>2, LargestOf
<1> QED
  BY <1>1, <1>2, <1>3 DEF Checked

\* The event does not follow on the payload that was checked last.
Breaks(e, last) ==
  RxLike(e) /\ last # NoPayload /\ e.payload # Increment(last)

LEMMA OneMore ==
  ASSUME NEW s \in Seq(EventType), NEW e \in EventType, NEW o \in Payload
  PROVE  /\ Checked(Append(s, e), Len(s) + 1, o) =
              IF RxLike(e) THEN e.payload ELSE Checked(s, Len(s), o)
         /\ Cardinality(Mismatches(s, o)) \in Nat
         /\ Cardinality(Mismatches(Append(s, e), o)) = Cardinality(Mismatches(s, o)) +
              IF Breaks(e, Checked(s, Len(s), o)) THEN 1 ELSE 0
<1> DEFINE now == Checked(s, Len(s), o)
           with == Append(s, e)
           k == Len(s) + 1
           breaks == Breaks(e, now)
<1>1. with \in Seq(EventType) /\ Len(with) = k /\ with[k] = e /\ k \in Nat \ {0}
      /\ \A i \in 1..Len(s) : with[i] = s[i]
  OBVIOUS
<1>2. \A i \in 0..Len(s) : Checked(with, i, o) = Checked(s, i, o)
  BY CheckedAlike
<1>3. Checked(with, k, o) = IF RxLike(e) THEN e.payload ELSE Checked(with, k - 1, o)
  <2>1. k \in 0..Len(with) /\ k # 0
    BY <1>1
  <2> HIDE DEF with, k
  <2> QED
    BY <1>1, <2>1, CheckedIs
<1>4. Checked(with, k - 1, o) = now
  BY <1>2
<1>5. Mismatches(with, o) = Mismatches(s, o) \cup IF breaks THEN {k} ELSE {}
  <2>1. \A i \in 1..k : i \in Mismatches(with, o) <=>
          /\ RxLike(with[i]) /\ Checked(with, i - 1, o) # NoPayload
          /\ with[i].payload # Increment(Checked(with, i - 1, o))
    BY <1>1 DEF Mismatches
  <2>2. \A i \in 1..Len(s) : i \in Mismatches(with, o) <=> i \in Mismatches(s, o)
    BY <1>1, <1>2, <2>1 DEF Mismatches
  <2>3. k \in Mismatches(with, o) <=> breaks
    BY <1>1, <1>4, <2>1 DEF Breaks
  <2>4. Mismatches(with, o) \subseteq 1..k /\ Mismatches(s, o) \subseteq 1..Len(s)
    BY <1>1 DEF Mismatches
  <2>5. 1..k = (1..Len(s)) \cup {k} /\ k \notin 1..Len(s)
    OBVIOUS
  <2> HIDE DEF k, breaks, with
  <2> QED
    BY <2>2, <2>3, <2>4, <2>5
<1>6. IsFiniteSet(Mismatches(s, o)) /\ k \notin Mismatches(s, o)
      /\ Cardinality(Mismatches(s, o)) \in Nat
  <2>1. Mismatches(s, o) \subseteq 1..Len(s) /\ IsFiniteSet(1..Len(s))
    BY FS_Interval DEF Mismatches
  <2> QED
    BY <2>1, FS_Subset, FS_CardinalityType
<1>7. Cardinality(Mismatches(s, o) \cup {k}) = Cardinality(Mismatches(s, o)) + 1
  BY <1>6, FS_AddElement
<1>8. Cardinality(Mismatches(with, o)) =
        Cardinality(Mismatches(s, o)) + IF breaks THEN 1 ELSE 0
  <2> HIDE DEF breaks, k, with
  <2>1. CASE breaks
    BY <1>5, <1>7, <2>1
  <2>2. CASE ~breaks
    BY <1>5, <1>6, <2>2
  <2> QED
    BY <2>1, <2>2
<1>9. Checked(with, k, o) = IF RxLike(e) THEN e.payload ELSE now
  BY <1>3, <1>4
<1> QED
  BY <1>6, <1>8, <1>9

LEMMA NoMore ==
  ASSUME NEW o \in Payload
  PROVE  Checked(<<>>, 0, o) = o /\ Cardinality(Mismatches(<<>>, o)) = 0
<1>1. Arrived(<<>>, 0) = {} /\ Mismatches(<<>>, o) = {}
  BY DEF Arrived, Mismatches
<1> QED
  BY <1>1, FS_EmptySet DEF Checked

-----------------------------------------------------------------------------
\* The list without its oldest event, if there is one too many.
LEMMA KeptIs ==
  ASSUME NEW all \in Seq(EventType)
  PROVE  LET drop == IF Len(all) > BufferSize THEN 1 ELSE 0
             kept == SubSeq(all, IF Len(all) > BufferSize THEN 2 ELSE 1, Len(all))
         IN  /\ kept \in Seq(EventType) /\ Len(kept) = Len(all) - drop
             /\ \A i \in 1..Len(kept) : kept[i] = all[i + drop]
<1> DEFINE drop == IF Len(all) > BufferSize THEN 1 ELSE 0
           kept == SubSeq(all, 1 + drop, Len(all))
<1>1. drop \in {0, 1} /\ drop <= Len(all) /\ Len(all) \in Nat
  BY BenchmarkAssumption DEF BenchmarkAssumption
<1> HIDE DEF drop
<1>2. /\ kept \in Seq(EventType) /\ Len(kept) = Len(all) - drop
      /\ \A i \in 1..Len(kept) : kept[i] = all[i + drop]
  BY <1>1
<1>3. (IF Len(all) > BufferSize THEN 2 ELSE 1) = 1 + drop
  BY DEF drop
<1> QED
  BY <1>2, <1>3 DEF drop

LEMMA SuffixIs ==
  ASSUME NEW s \in Seq(EventType), NEW k \in Nat, k <= Len(s)
  PROVE  LET b == SubSeq(s, Len(s) - k + 1, Len(s))
         IN  /\ b \in Seq(EventType) /\ Len(b) = k
             /\ \A i \in 1..k : b[i] = s[Len(s) - k + i]
<1>1. Len(s) \in Nat
  OBVIOUS
<1> QED
  BY <1>1

\* The end of the list, with the event that has come in.
LEMMA WaitingGrows ==
  ASSUME NEW events \in Seq(EventType), NEW e \in EventType, NEW kept \in Seq(EventType),
         NEW drop \in {0, 1}, Len(kept) = Len(events) + 1 - drop,
         \A i \in 1..Len(kept) : kept[i] = Append(events, e)[i + drop],
         NEW k \in Nat, k <= Len(events), k + 1 <= Len(kept)
  PROVE  SubSeq(kept, Len(kept) - (k + 1) + 1, Len(kept)) =
           Append(SubSeq(events, Len(events) - k + 1, Len(events)), e)
<1> DEFINE a == SubSeq(kept, Len(kept) - (k + 1) + 1, Len(kept))
           b == SubSeq(events, Len(events) - k + 1, Len(events))
<1>1. Len(kept) \in Nat /\ Len(events) \in Nat /\ Append(events, e) \in Seq(EventType)
      /\ Append(events, e)[Len(events) + 1] = e
      /\ \A i \in 1..Len(events) : Append(events, e)[i] = events[i]
  OBVIOUS
<1>2. a \in Seq(EventType) /\ Len(a) = k + 1
      /\ \A i \in 1..(k + 1) : a[i] = kept[Len(kept) - (k + 1) + i]
  BY <1>1
<1>3. b \in Seq(EventType) /\ Len(b) = k
      /\ \A i \in 1..k : b[i] = events[Len(events) - k + i]
  BY <1>1
<1>4. Append(b, e) \in Seq(EventType) /\ Len(Append(b, e)) = k + 1 /\ Append(b, e)[k + 1] = e
      /\ \A i \in 1..k : Append(b, e)[i] = b[i]
  BY <1>3
<1> HIDE DEF a, b
<1>5. ASSUME NEW i \in 1..(k + 1) PROVE a[i] = Append(b, e)[i]
  <2>1. PICK all : all = Append(events, e)
    OBVIOUS
  <2>2. PICK j \in Int : j = Len(kept) - (k + 1) + i
    BY <1>1
  <2>3. j \in 1..Len(kept) /\ j + drop = Len(events) - k + i
    BY <1>1, <2>2
  <2>4. a[i] = all[Len(events) - k + i]
    BY <1>2, <2>1, <2>2, <2>3
  <2>5. CASE i = k + 1
    <3>1. a[i] = e
      BY <1>1, <2>1, <2>4, <2>5
    <3> QED
      BY <1>4, <2>5, <3>1
  <2>6. CASE i \in 1..k
    <3>1. Len(events) - k + i \in 1..Len(events)
      BY <1>1, <2>6
    <3> QED
      BY <1>1, <1>3, <1>4, <2>1, <2>4, <2>6, <3>1
  <2>7. i = k + 1 \/ i \in 1..k
    OBVIOUS
  <2> QED
    BY <2>5, <2>6, <2>7
<1>6. \A i \in 1..Len(a) : a[i] = Append(b, e)[i]
  BY <1>2, <1>5
<1>7. a = Append(b, e)
  BY <1>2, <1>4, <1>6, SeqEqual
<1> QED
  BY <1>7 DEF a, b

-----------------------------------------------------------------------------
\* A record's fields, one after the other.
LEMMA PageOf ==
  ASSUME NEW p \in PageType, NEW b, NEW l, NEW o, NEW a
  PROVE  [p EXCEPT !.due = b, !.lastProcessed = l, !.ordering = o, !.alerts = a] =
         [target |-> p.target, events |-> p.events, due |-> b, lastProcessed |-> l,
          ordering |-> o, alerts |-> a]
<1>1. PICK q : q = [p EXCEPT !.due = b]
  OBVIOUS
<1>2. PICK r : r = [q EXCEPT !.lastProcessed = l]
  OBVIOUS
<1>3. PICK s : s = [r EXCEPT !.ordering = o]
  OBVIOUS
<1>4. PICK t : t = [s EXCEPT !.alerts = a]
  OBVIOUS
<1>5. q = [target |-> p.target, events |-> p.events, due |-> b,
           lastProcessed |-> p.lastProcessed, ordering |-> p.ordering, alerts |-> p.alerts]
  BY <1>1 DEF PageType
<1>6. r = [target |-> p.target, events |-> p.events, due |-> b,
           lastProcessed |-> l, ordering |-> p.ordering, alerts |-> p.alerts]
  BY <1>2, <1>5
<1>7. s = [target |-> p.target, events |-> p.events, due |-> b,
           lastProcessed |-> l, ordering |-> o, alerts |-> p.alerts]
  BY <1>3, <1>6
<1>8. t = [target |-> p.target, events |-> p.events, due |-> b,
           lastProcessed |-> l, ordering |-> o, alerts |-> a]
  BY <1>4, <1>7
<1>9. t = [p EXCEPT !.due = b, !.lastProcessed = l, !.ordering = o, !.alerts = a]
  BY <1>1, <1>2, <1>3, <1>4
<1> QED
  BY <1>8, <1>9

LEMMA NotesOf ==
  ASSUME NEW n \in NotesType, NEW a, NEW b, NEW c, NEW d
  PROVE  [n EXCEPT !.serial = a, !.full = b, !.seen = c, !.breaks = d] =
         [serial |-> a, handled |-> n.handled, wrong |-> n.wrong, full |-> b,
          restarted |-> n.restarted, seen |-> c, breaks |-> d]
<1>1. PICK q : q = [n EXCEPT !.serial = a]
  OBVIOUS
<1>2. PICK r : r = [q EXCEPT !.full = b]
  OBVIOUS
<1>3. PICK s : s = [r EXCEPT !.seen = c]
  OBVIOUS
<1>4. PICK t : t = [s EXCEPT !.breaks = d]
  OBVIOUS
<1>5. q = [serial |-> a, handled |-> n.handled, wrong |-> n.wrong, full |-> n.full,
           restarted |-> n.restarted, seen |-> n.seen, breaks |-> n.breaks]
  BY <1>1 DEF NotesType
<1>6. r = [serial |-> a, handled |-> n.handled, wrong |-> n.wrong, full |-> b,
           restarted |-> n.restarted, seen |-> n.seen, breaks |-> n.breaks]
  BY <1>2, <1>5
<1>7. s = [serial |-> a, handled |-> n.handled, wrong |-> n.wrong, full |-> b,
           restarted |-> n.restarted, seen |-> c, breaks |-> n.breaks]
  BY <1>3, <1>6
<1>8. t = [serial |-> a, handled |-> n.handled, wrong |-> n.wrong, full |-> b,
           restarted |-> n.restarted, seen |-> c, breaks |-> d]
  BY <1>4, <1>7
<1>9. t = [n EXCEPT !.serial = a, !.full = b, !.seen = c, !.breaks = d]
  BY <1>1, <1>2, <1>3, <1>4
<1> QED
  BY <1>8, <1>9

LEMMA OddsOf ==
  ASSUME NEW o \in OddsType, NEW h, NEW w
  PROVE  [o EXCEPT !.notes = [@ EXCEPT !.handled = h, !.wrong = w]] =
              [notes |-> [serial |-> o.notes.serial, handled |-> h, wrong |-> w,
                          full |-> o.notes.full, restarted |-> o.notes.restarted,
                          seen |-> o.notes.seen, breaks |-> o.notes.breaks],
               sends |-> o.sends, upsets |-> o.upsets, unruly |-> o.unruly]
<1>0. o.notes \in NotesType
  BY DEF OddsType
<1>1. PICK q : q = [o.notes EXCEPT !.handled = h]
  OBVIOUS
<1>2. q = [serial |-> o.notes.serial, handled |-> h, wrong |-> o.notes.wrong,
       full |-> o.notes.full, restarted |-> o.notes.restarted,
       seen |-> o.notes.seen, breaks |-> o.notes.breaks]
  BY <1>0, <1>1 DEF NotesType
<1>3. [q EXCEPT !.wrong = w] = [serial |-> o.notes.serial, handled |-> h, wrong |-> w,
       full |-> o.notes.full, restarted |-> o.notes.restarted,
       seen |-> o.notes.seen, breaks |-> o.notes.breaks]
  BY <1>2
<1>4. PICK m : m = [q EXCEPT !.wrong = w]
  OBVIOUS
<1>5. [o EXCEPT !.notes = [@ EXCEPT !.handled = h, !.wrong = w]] = [o EXCEPT !.notes = m]
  BY <1>1, <1>4, Zenon
<1>6. [o EXCEPT !.notes = m] =
         [notes |-> m, sends |-> o.sends, upsets |-> o.upsets, unruly |-> o.unruly]
  BY DEF OddsType
<1> QED
  BY <1>3, <1>4, <1>5, <1>6

\* The budget, and that frames may be out of order from now on.
LEMMA BudgetOf ==
  ASSUME NEW o \in OddsType, NEW c, NEW b
  PROVE  /\ [o EXCEPT !.sends = c, !.unruly = b] =
              [notes |-> o.notes, sends |-> c, upsets |-> o.upsets, unruly |-> b]
         /\ [o EXCEPT !.upsets = c, !.unruly = b] =
              [notes |-> o.notes, sends |-> o.sends, upsets |-> c, unruly |-> b]
<1>1. PICK q : q = [o EXCEPT !.sends = c]
  OBVIOUS
<1>2. q = [notes |-> o.notes, sends |-> c, upsets |-> o.upsets, unruly |-> o.unruly]
  BY <1>1 DEF OddsType
<1>3. [q EXCEPT !.unruly = b] =
        [notes |-> o.notes, sends |-> c, upsets |-> o.upsets, unruly |-> b]
  BY <1>2
<1>4. PICK r : r = [o EXCEPT !.upsets = c]
  OBVIOUS
<1>5. r = [notes |-> o.notes, sends |-> o.sends, upsets |-> c, unruly |-> o.unruly]
  BY <1>4 DEF OddsType
<1>6. [r EXCEPT !.unruly = b] =
        [notes |-> o.notes, sends |-> o.sends, upsets |-> c, unruly |-> b]
  BY <1>5
<1> QED
  BY <1>1, <1>3, <1>4, <1>6

LEMMA RestartOf ==
  ASSUME NEW o \in OddsType, NEW c, NEW b, NEW w
  PROVE  [o EXCEPT !.upsets = c, !.unruly = b, !.notes.restarted = w] =
              [notes |-> [serial |-> o.notes.serial, handled |-> o.notes.handled,
                          wrong |-> o.notes.wrong, full |-> o.notes.full, restarted |-> w,
                          seen |-> o.notes.seen, breaks |-> o.notes.breaks],
               sends |-> o.sends, upsets |-> c, unruly |-> b]
<1>1. PICK s : s = [o EXCEPT !.upsets = c, !.unruly = b]
  OBVIOUS
<1>2. s = [notes |-> o.notes, sends |-> o.sends, upsets |-> c, unruly |-> b]
  BY <1>1, BudgetOf
<1>3. [o.notes EXCEPT !.restarted = w] =
         [serial |-> o.notes.serial, handled |-> o.notes.handled,
          wrong |-> o.notes.wrong, full |-> o.notes.full, restarted |-> w,
          seen |-> o.notes.seen, breaks |-> o.notes.breaks]
  <2>1. o.notes \in NotesType
    BY DEF OddsType
  <2> QED
    BY <2>1 DEF NotesType
<1>4. [s EXCEPT !.notes.restarted = w] =
         [notes |-> [o.notes EXCEPT !.restarted = w], sends |-> o.sends, upsets |-> c, unruly |-> b]
  BY <1>2
<1>5. [o EXCEPT !.upsets = c, !.unruly = b, !.notes.restarted = w] = [s EXCEPT !.notes.restarted = w]
  BY <1>1
<1> QED
  BY <1>3, <1>4, <1>5

-----------------------------------------------------------------------------
\* What is published to the page's list, and what is noted of it.
PublishedTo(p, q, n, m, e) ==
  LET all  == Append(p.events, e)
      drop == IF Len(all) > BufferSize THEN 1 ELSE 0
  IN /\ q.target = p.target /\ q.lastProcessed = p.lastProcessed
     /\ q.ordering = p.ordering /\ q.alerts = p.alerts
     /\ Len(q.events) = Len(p.events) + 1 - drop
     /\ \A i \in 1..Len(q.events) : q.events[i] = all[i + drop]
     /\ e.at = n.serial + 1
     /\ m.serial = n.serial + 1 /\ m.handled = n.handled /\ m.wrong = n.wrong
     /\ m.restarted = n.restarted
     /\ m.full = (n.full \/ (all[1].at >= n.handled /\ drop = 1))
     /\ m.seen = IF RxLike(e) THEN e.payload ELSE n.seen
     /\ m.breaks = n.breaks + IF Breaks(e, n.seen) THEN 1 ELSE 0

LEMMA PublishedIs ==
  ASSUME BenchTypes, NEW d \in Targets, NEW dir \in {"tx", "rx"}, NEW payload \in Payload,
         Published(d, dir, payload), page.target = d
  PROVE  /\ page' \in PageType /\ odds' \in OddsType /\ odds'.unruly = odds.unruly
         /\ \E e \in EventType :
              /\ e.id = nextId[d] /\ e.payload = payload /\ (RxLike(e) <=> dir = "rx")
              /\ PublishedTo(page, page', odds.notes, odds'.notes, e)
<1> DEFINE n == odds.notes
           e == [id |-> nextId[d], at |-> n.serial + 1, direction |-> dir, payload |-> payload]
           all == Append(page.events, e)
           kept == SubSeq(all, IF Len(all) > BufferSize THEN 2 ELSE 1, Len(all))
           full == n.full \/ (all[1].at >= n.handled /\ Len(all) > BufferSize)
           seen == IF dir = "rx" THEN payload ELSE n.seen
           breaks == IF dir = "rx" /\ n.seen # NoPayload /\ payload # Increment(n.seen)
                     THEN n.breaks + 1 ELSE n.breaks
<1>1. /\ page \in PageType /\ odds \in OddsType /\ n \in NotesType
      /\ nextId[d] \in Nat \ {0} /\ page.events \in Seq(EventType)
      /\ n.serial \in Nat
  BY DEF BenchTypes, OddsType, PageType, NotesType
<1>2. e \in EventType
  BY <1>1 DEF EventType
<1> HIDE DEF e
<1>3. all \in Seq(EventType) /\ Len(all) = Len(page.events) + 1
  BY <1>1, <1>2
<1>4. /\ page' = [page EXCEPT !.events = kept, !.due = TRUE]
      /\ odds' = [odds EXCEPT !.notes = [n EXCEPT !.serial = n.serial + 1, !.full = full,
                                           !.seen = seen, !.breaks = breaks]]
  BY DEF Published, e
<1> HIDE DEF all
<1>5. /\ kept \in Seq(EventType)
      /\ Len(kept) = Len(all) - (IF Len(all) > BufferSize THEN 1 ELSE 0)
      /\ \A i \in 1..Len(kept) : kept[i] = all[i + (IF Len(all) > BufferSize THEN 1 ELSE 0)]
  BY <1>3, KeptIs
<1> HIDE DEF kept
<1>6. PICK q : q = [page EXCEPT !.events = kept]
  OBVIOUS
<1>7. q = [target |-> page.target, events |-> kept, due |-> page.due,
           lastProcessed |-> page.lastProcessed, ordering |-> page.ordering,
           alerts |-> page.alerts]
  BY <1>1, <1>6 DEF PageType
<1>8. page' = [q EXCEPT !.due = TRUE]
  BY <1>4, <1>6
<1>9. page' = [target |-> page.target, events |-> kept, due |-> TRUE,
           lastProcessed |-> page.lastProcessed, ordering |-> page.ordering,
           alerts |-> page.alerts]
  BY <1>7, <1>8
<1>10. page' \in PageType
  BY <1>1, <1>5, <1>9 DEF PageType
<1> DEFINE m == [serial |-> n.serial + 1, handled |-> n.handled, wrong |-> n.wrong,
                 full |-> full, restarted |-> n.restarted, seen |-> seen, breaks |-> breaks]
<1>11. full \in BOOLEAN /\ seen \in Payload /\ breaks \in Nat
  BY <1>1 DEF NotesType
<1> HIDE DEF full, seen, breaks
<1>12. [n EXCEPT !.serial = n.serial + 1, !.full = full, !.seen = seen, !.breaks = breaks] = m
  BY <1>1, NotesOf
<1>13. m \in NotesType
  BY <1>1, <1>11 DEF NotesType
<1>14. odds' = [odds EXCEPT !.notes = m]
  BY <1>4, <1>12
<1>15. /\ odds'.notes = m /\ odds'.unruly = odds.unruly /\ odds' \in OddsType
  BY <1>1, <1>13, <1>14 DEF OddsType
<1>16. e.id = nextId[d] /\ e.payload = payload /\ (RxLike(e) <=> dir = "rx")
       /\ e.at = n.serial + 1
  BY DEF e, RxLike
<1>17. PublishedTo(page, page', n, odds'.notes, e)
  <2>1. breaks = n.breaks + IF Breaks(e, n.seen) THEN 1 ELSE 0
    BY <1>1, <1>16 DEF breaks, Breaks, NotesType
  <2>2. seen = IF RxLike(e) THEN e.payload ELSE n.seen
    BY <1>16 DEF seen
  <2>3. full = (n.full \/ (all[1].at >= n.handled /\ (IF Len(all) > BufferSize THEN 1 ELSE 0) = 1))
    BY DEF full
  <2>4. /\ page'.target = page.target /\ page'.lastProcessed = page.lastProcessed
        /\ page'.ordering = page.ordering /\ page'.alerts = page.alerts /\ page'.events = kept
    BY <1>9
  <2>5. /\ odds'.notes.serial = n.serial + 1 /\ odds'.notes.handled = n.handled
        /\ odds'.notes.wrong = n.wrong /\ odds'.notes.full = full
        /\ odds'.notes.restarted = n.restarted
        /\ odds'.notes.seen = seen /\ odds'.notes.breaks = breaks
    BY <1>15
  <2> HIDE DEF n
  <2> QED
    BY <1>3, <1>5, <1>16, <2>1, <2>2, <2>3, <2>4, <2>5 DEF PublishedTo, all
<1> QED
  BY <1>2, <1>10, <1>15, <1>16, <1>17

LEMMA ListGrows ==
  ASSUME NEW p \in PageType, NEW q \in PageType, NEW n \in NotesType, NEW m \in NotesType,
         NEW e \in EventType, NEW next \in Nat \ {0}, e.id = next,
         PublishedTo(p, q, n, m, e), EventsOK(p, n, next)
  PROVE  EventsOK(q, m, next + 1)
<1> DEFINE L == Len(p.events)
           all == Append(p.events, e)
           drop == IF Len(all) > BufferSize THEN 1 ELSE 0
<1>1. /\ BufferSize \in Nat \ {0} /\ L \in Nat /\ n.serial \in Nat /\ n.handled \in Nat
      /\ n.full \in BOOLEAN /\ n.restarted \in BOOLEAN
      /\ p.events \in Seq(EventType) /\ q.events \in Seq(EventType)
  BY BenchmarkAssumption DEF BenchmarkAssumption, PageType, NotesType
<1>2. all \in Seq(EventType) /\ Len(all) = L + 1 /\ all[L + 1] = e
      /\ \A i \in 1..L : all[i] = p.events[i]
  BY <1>1
<1>3. \A i \in 1..L : p.events[i].at = n.serial - L + i
  BY DEF EventsOK
<1>4. e.at = n.serial + 1
  BY DEF PublishedTo
<1> HIDE DEF all, L
<1>5. \A i \in 1..(L + 1) : all[i].at = n.serial - L + i
  BY <1>1, <1>2, <1>3, <1>4, SMTT(30)
<1>6. ~n.restarted => \A i \in 1..(L + 1) : all[i].id = next - L - 1 + i
  <2> SUFFICES ASSUME ~n.restarted, NEW i \in 1..(L + 1) PROVE all[i].id = next - L - 1 + i
    OBVIOUS
  <2>1. \A j \in 1..L : p.events[j].id = next - 1 - L + j
    BY DEF EventsOK, L
  <2>2. CASE i = L + 1
    BY <1>1, <1>2, <2>2
  <2>3. CASE i \in 1..L
    BY <1>1, <1>2, <2>1, <2>3
  <2>4. i = L + 1 \/ i \in 1..L
    BY <1>1
  <2> QED
    BY <2>2, <2>3, <2>4
<1>7. /\ L <= BufferSize /\ L <= n.serial /\ n.handled <= n.serial
      /\ p.lastProcessed.at = n.handled
      /\ n.handled = 0 <=> p.lastProcessed = NoEvent
      /\ ~n.full => IF n.handled = 0 THEN L = n.serial ELSE n.serial - n.handled < L
      /\ ~n.restarted /\ n.handled # 0 => p.lastProcessed.id = next - 1 - (n.serial - n.handled)
  BY DEF EventsOK, Behind, L
<1>8. drop \in {0, 1} /\ (drop = 1 <=> L = BufferSize)
  BY <1>1, <1>2, <1>7
<1>9. /\ q.lastProcessed = p.lastProcessed
      /\ Len(q.events) = L + 1 - drop
      /\ \A i \in 1..Len(q.events) : q.events[i] = all[i + drop]
      /\ m.serial = n.serial + 1 /\ m.handled = n.handled
      /\ m.restarted = n.restarted
      /\ m.full = (n.full \/ (all[1].at >= n.handled /\ drop = 1))
  BY DEF PublishedTo, all, L
<1> HIDE DEF drop
<1>10. Len(q.events) <= BufferSize /\ Len(q.events) <= m.serial /\ Len(q.events) # 0
       /\ m.handled <= m.serial
  BY <1>1, <1>7, <1>8, <1>9
<1>11. \A i \in 1..Len(q.events) : i + drop \in 1..(L + 1)
  BY <1>1, <1>8, <1>9
<1>12. \A i \in 1..Len(q.events) : q.events[i].at = m.serial - Len(q.events) + i
  <2> TAKE i \in 1..Len(q.events)
  <2>1. PICK j \in 1..(L + 1) : j = i + drop
    BY <1>11
  <2>2. q.events[i].at = n.serial - L + j
    BY <1>5, <1>9, <2>1
  <2>3. i \in Int /\ j \in Int /\ m.serial = n.serial + 1 /\ Len(q.events) = L + 1 - drop
    BY <1>1, <1>9
  <2> QED
    BY <1>1, <1>8, <2>1, <2>2, <2>3
<1>13. ~m.full => IF m.handled = 0 THEN Len(q.events) = m.serial
                  ELSE m.serial - m.handled < Len(q.events)
  <2> SUFFICES ASSUME ~m.full PROVE IF m.handled = 0 THEN Len(q.events) = m.serial
                  ELSE m.serial - m.handled < Len(q.events)
    OBVIOUS
  <2>1. all[1].at = n.serial - L + 1
    BY <1>1, <1>5
  <2>2. m.full = (n.full \/ (all[1].at >= n.handled /\ drop = 1))
    BY <1>9
  <2>3. ~n.full /\ (drop = 1 => n.serial - L + 1 < n.handled)
    <3>1. ~n.full /\ ~(all[1].at >= n.handled /\ drop = 1)
      BY <2>2, Zenon
    <3> QED
      BY <1>1, <2>1, <3>1
  <2>4. IF n.handled = 0 THEN L = n.serial ELSE n.serial - n.handled < L
    BY <1>7, <2>3
  <2>5. m.serial = n.serial + 1 /\ m.handled = n.handled /\ Len(q.events) = L + 1 - drop
        /\ L <= n.serial
    BY <1>7, <1>9
  <2> QED
    <3>1. CASE drop = 0
      BY <1>1, <2>4, <2>5, <3>1
    <3>2. CASE drop = 1
      BY <1>1, <2>3, <2>4, <2>5, <3>2
    <3> QED
      BY <1>8, <3>1, <3>2
<1>14. ~m.restarted =>
         /\ \A i \in 1..Len(q.events) : q.events[i].id = (next + 1) - 1 - Len(q.events) + i
         /\ m.handled # 0 => q.lastProcessed.id = (next + 1) - 1 - (m.serial - m.handled)
  <2> SUFFICES ASSUME ~m.restarted
               PROVE  /\ \A i \in 1..Len(q.events) :
                           q.events[i].id = (next + 1) - 1 - Len(q.events) + i
                      /\ m.handled # 0 =>
                           q.lastProcessed.id = (next + 1) - 1 - (m.serial - m.handled)
    OBVIOUS
  <2>1. \A i \in 1..Len(q.events) : q.events[i].id = next - L - 1 + (i + drop)
    BY <1>6, <1>9, <1>11
  <2> QED
    BY <1>1, <1>7, <1>8, <1>9, <2>1
<1> QED
  BY <1>7, <1>9, <1>10, <1>12, <1>13, <1>14 DEF EventsOK, Behind

LEMMA CountGrows ==
  ASSUME NEW p \in PageType, NEW q \in PageType, NEW n \in NotesType, NEW m \in NotesType,
         NEW e \in EventType, NEW next \in Nat \ {0},
         PublishedTo(p, q, n, m, e), EventsOK(p, n, next), EventsOK(q, m, next + 1), CountOK(p, n)
  PROVE  CountOK(q, m)
<1> SUFFICES ASSUME ~m.full, ~m.restarted
             PROVE  /\ ~m.wrong
                    /\ m.seen = Checked(Waiting(q, m), Behind(m), q.ordering)
                    /\ m.breaks = q.alerts + Cardinality(Mismatches(Waiting(q, m), q.ordering))
  BY DEF CountOK
<1> DEFINE W == Waiting(p, n)
           drop == IF Len(Append(p.events, e)) > BufferSize THEN 1 ELSE 0
<1>1. /\ n.serial \in Nat /\ n.handled \in Nat /\ n.full \in BOOLEAN /\ m.full \in BOOLEAN
      /\ p.events \in Seq(EventType) /\ q.events \in Seq(EventType)
      /\ p.ordering \in Payload /\ p.alerts \in Nat
      /\ Len(p.events) \in Nat /\ Len(q.events) \in Nat
  BY SMTT(30) DEF PageType, NotesType
<1>2. /\ m.serial = n.serial + 1 /\ m.handled = n.handled /\ m.wrong = n.wrong
      /\ m.restarted = n.restarted /\ ~n.full
      /\ m.seen = IF RxLike(e) THEN e.payload ELSE n.seen
      /\ m.breaks = n.breaks + IF Breaks(e, n.seen) THEN 1 ELSE 0
      /\ q.ordering = p.ordering /\ q.alerts = p.alerts
      /\ Len(q.events) = Len(p.events) + 1 - drop
      /\ \A i \in 1..Len(q.events) : q.events[i] = Append(p.events, e)[i + drop]
  BY <1>1 DEF PublishedTo
<1>3. drop \in {0, 1}
  OBVIOUS
<1> HIDE DEF drop
<1>4. PICK k \in Nat : k = Behind(n)
  BY <1>1 DEF EventsOK, Behind
<1>5. Behind(m) = k + 1 /\ k <= Len(p.events) /\ k + 1 <= Len(q.events)
  <2>1. n.handled <= n.serial /\ Len(p.events) <= n.serial
        /\ (IF n.handled = 0 THEN Len(p.events) = n.serial ELSE Behind(n) < Len(p.events))
    BY <1>2 DEF EventsOK
  <2>2. IF m.handled = 0 THEN Len(q.events) = m.serial ELSE Behind(m) < Len(q.events)
    BY DEF EventsOK
  <2>3. Behind(m) = k + 1 /\ k = n.serial - n.handled
    BY <1>1, <1>2, <1>4 DEF Behind
  <2> QED
    BY <1>1, <1>2, <1>4, <2>1, <2>2, <2>3
<1>6. Waiting(q, m) = Append(W, e)
  <2>1. SubSeq(q.events, Len(q.events) - (k + 1) + 1, Len(q.events)) =
           Append(SubSeq(p.events, Len(p.events) - k + 1, Len(p.events)), e)
    <3>1. /\ p.events \in Seq(EventType) /\ q.events \in Seq(EventType) /\ drop \in {0, 1}
          /\ k <= Len(p.events) /\ k + 1 <= Len(q.events)
      BY <1>1, <1>3, <1>5
    <3>2. /\ Len(q.events) = Len(p.events) + 1 - drop
          /\ \A i \in 1..Len(q.events) : q.events[i] = Append(p.events, e)[i + drop]
      BY <1>2
    <3> QED
      BY <3>1, <3>2, WaitingGrows, ZenonT(30)
  <2> QED
    BY <1>4, <1>5, <2>1 DEF Waiting, W
<1>7. W \in Seq(EventType) /\ Len(W) = k
  BY <1>1, <1>4, <1>5, SMTT(30) DEF Waiting
<1>8. /\ ~n.wrong /\ n.seen = Checked(W, k, p.ordering)
      /\ n.breaks = p.alerts + Cardinality(Mismatches(W, p.ordering))
  BY <1>2, <1>4 DEF CountOK
<1> HIDE DEF W
<1>9. /\ Checked(Append(W, e), k + 1, p.ordering) = m.seen
      /\ Cardinality(Mismatches(W, p.ordering)) \in Nat
      /\ Cardinality(Mismatches(Append(W, e), p.ordering)) =
           Cardinality(Mismatches(W, p.ordering)) + IF Breaks(e, n.seen) THEN 1 ELSE 0
  BY <1>1, <1>2, <1>7, <1>8, OneMore
<1>10. m.seen = Checked(Waiting(q, m), Behind(m), q.ordering)
  BY <1>2, <1>5, <1>6, <1>9
<1>11. Cardinality(Mismatches(Waiting(q, m), q.ordering)) =
           Cardinality(Mismatches(W, p.ordering)) + IF Breaks(e, n.seen) THEN 1 ELSE 0
  BY <1>2, <1>6, <1>9
<1> QED
  BY <1>1, <1>2, <1>8, <1>9, <1>10, <1>11

-----------------------------------------------------------------------------
\* Where the effect finds its place: somewhere in the list, and, as long as the
\* ids go on and the list has not been full, right after what it came to last.
LEMMA PlaceType ==
  ASSUME NEW p \in PageType
  PROVE  Place(p.events, p.lastProcessed) \in Nat
<1>1. p.events \in Seq(EventType) /\ Len(p.events) \in Nat
  BY DEF PageType
<1>2. PICK same : same = {i \in 1..Len(p.events) : p.events[i].id = p.lastProcessed.id}
  OBVIOUS
<1>3. PICK past : past = {i \in 1..Len(p.events) : p.events[i].at <= p.lastProcessed.at}
  OBVIOUS
<1>4. Place(p.events, p.lastProcessed) =
        IF p.lastProcessed = NoEvent THEN 0
        ELSE IF same # {} THEN CHOOSE i \in same : \A j \in same : i <= j
        ELSE Cardinality(past)
  BY <1>2, <1>3 DEF Place
<1>5. Cardinality(past) \in Nat
  <2>1. past \subseteq 1..Len(p.events) /\ IsFiniteSet(1..Len(p.events))
    BY <1>1, <1>3, FS_Interval
  <2> QED
    BY <2>1, FS_Subset, FS_CardinalityType
<1>6. same # {} => (CHOOSE i \in same : \A j \in same : i <= j) \in Nat
  <2> SUFFICES ASSUME same # {} PROVE (CHOOSE i \in same : \A j \in same : i <= j) \in Nat
    OBVIOUS
  <2>1. same \subseteq Nat
    BY <1>1, <1>2
  <2>2. PICK i \in same : \A j \in same : i <= j
    BY <2>1, SmallestOf
  <2> QED
    BY <2>1, <2>2
<1> QED
  BY <1>4, <1>5, <1>6

LEMMA PlaceIs ==
  ASSUME NEW p \in PageType, NEW n \in NotesType, NEW next \in Nat \ {0},
         EventsOK(p, n, next), ~n.full, ~n.restarted
  PROVE  /\ Behind(n) \in 0..Len(p.events)
         /\ Place(p.events, p.lastProcessed) = Len(p.events) - Behind(n)
         /\ Unprocessed(p.events, p.lastProcessed) = Waiting(p, n)
<1> DEFINE L == Len(p.events)
           k == Behind(n)
<1>1. /\ p.events \in Seq(EventType) /\ L \in Nat /\ n.serial \in Nat /\ n.handled \in Nat
      /\ k = n.serial - n.handled
  BY DEF PageType, NotesType, Behind
<1>2. /\ L <= n.serial /\ n.handled <= n.serial
      /\ n.handled = 0 <=> p.lastProcessed = NoEvent
      /\ IF n.handled = 0 THEN L = n.serial ELSE k < L
      /\ \A i \in 1..L : p.events[i].id = next - 1 - L + i
      /\ n.handled # 0 => p.lastProcessed.id = next - 1 - k
  BY DEF EventsOK
<1>3. k \in 0..L
  BY <1>1, <1>2
<1>4. Place(p.events, p.lastProcessed) = L - k
  <2>1. CASE n.handled = 0
    <3>1. Place(p.events, p.lastProcessed) = 0
      BY <1>2, <2>1 DEF Place
    <3> QED
      BY <1>1, <1>2, <2>1, <3>1
  <2>2. CASE n.handled # 0
    <3>1. PICK same : same = {i \in 1..Len(p.events) : p.events[i].id = p.lastProcessed.id}
      OBVIOUS
    <3>2. L - k \in 1..L
      BY <1>1, <1>2, <1>3, <2>2
    <3> HIDE DEF L, k
    <3>3. \A i \in 1..L : p.events[i].id = p.lastProcessed.id <=> i = L - k
      <4> TAKE i \in 1..L
      <4>1. p.events[i].id = next - 1 - L + i /\ p.lastProcessed.id = next - 1 - k
        BY <1>2, <2>2 DEF L
      <4>2. L \in Int /\ k \in Int /\ i \in Int /\ next \in Int
        BY <1>1, <1>3
      <4> QED
        BY <4>1, <4>2
    <3>4. same = {L - k}
      BY <3>1, <3>2, <3>3 DEF L
    <3>5. Place(p.events, p.lastProcessed) = CHOOSE i \in same : \A j \in same : i <= j
      BY <1>2, <2>2, <3>1, <3>4 DEF Place
    <3>6. \A i \in same : i = L - k
      BY <3>4
    <3>7. L - k \in same /\ \A j \in same : L - k <= j
      BY <3>2, <3>4
    <3> QED
      BY <3>5, <3>6, <3>7
  <2> QED
    BY <2>1, <2>2
<1> QED
  BY <1>3, <1>4 DEF Unprocessed, Waiting

\* A run of the effect.
ProcessedTo(p, q, n, m) ==
  LET L   == Len(p.events)
      new == Unprocessed(p.events, p.lastProcessed)
  IN /\ L # 0 /\ p.due
     /\ q.target = p.target /\ q.events = p.events /\ ~q.due
     /\ q.lastProcessed.id = p.events[L].id /\ q.lastProcessed.at = p.events[L].at
     /\ q.ordering = Checked(new, Len(new), p.ordering)
     /\ q.alerts = p.alerts + Cardinality(Mismatches(new, p.ordering))
     /\ m.handled = p.events[L].at
     /\ m.wrong = (n.wrong \/ (\E i \in 1..Len(new) : new[i].at # n.handled + i))
     /\ m.serial = n.serial /\ m.full = n.full /\ m.restarted = n.restarted
     /\ m.seen = n.seen /\ m.breaks = n.breaks

LEMMA MismatchesType ==
  ASSUME NEW s \in Seq(EventType), NEW o
  PROVE  Cardinality(Mismatches(s, o)) \in Nat
<1>1. Mismatches(s, o) \subseteq 1..Len(s) /\ IsFiniteSet(1..Len(s))
  BY FS_Interval DEF Mismatches
<1> QED
  BY <1>1, FS_Subset, FS_CardinalityType

LEMMA ProcessIs ==
  ASSUME BenchTypes, ProcessEvents
  PROVE  /\ page' \in PageType /\ odds' \in OddsType /\ odds'.unruly = odds.unruly
         /\ ProcessedTo(page, page', odds.notes, odds'.notes)
<1> DEFINE n == odds.notes
           L == Len(page.events)
           k == Place(page.events, page.lastProcessed)
           new == Unprocessed(page.events, page.lastProcessed)
           latest == new[Len(new)]
           c == Checked(new, Len(new), page.ordering)
           a == page.alerts + Cardinality(Mismatches(new, page.ordering))
           w == n.wrong \/ (\E i \in 1..Len(new) : new[i].at # n.handled + i)
           l == [id |-> latest.id, at |-> latest.at]
<1>1. /\ page \in PageType /\ odds \in OddsType /\ n \in NotesType
      /\ page.events \in Seq(EventType) /\ L \in Nat /\ page.ordering \in Payload
      /\ page.alerts \in Nat
  BY DEF BenchTypes, OddsType, PageType
<1>2. k \in Nat
  BY <1>1, PlaceType
<1>3. new = SubSeq(page.events, k + 1, L)
  BY DEF Unprocessed
<1>4. new # <<>> /\ page.due
  BY DEF ProcessEvents
<1> HIDE DEF k
<1>5. k + 1 <= L /\ Len(new) = L - k /\ new \in Seq(EventType) /\ latest = page.events[L]
  <2> HIDE DEF new
  <2>1. k + 1 <= L
    BY <1>1, <1>2, <1>3, <1>4
  <2>2. Len(new) = L - k /\ new \in Seq(EventType) /\ \A i \in 1..(L - k) : new[i] = page.events[k + i]
    BY <1>1, <1>2, <1>3, <2>1
  <2>3. L - k \in 1..(L - k) /\ k + (L - k) = L
    BY <1>1, <1>2, <2>1
  <2>4. new[L - k] = page.events[L]
    BY <2>2, <2>3
  <2> QED
    BY <2>1, <2>2, <2>4
<1>6. /\ page' = [page EXCEPT !.due = FALSE, !.lastProcessed = l, !.ordering = c, !.alerts = a]
      /\ odds' = [odds EXCEPT !.notes = [@ EXCEPT !.handled = latest.at, !.wrong = w]]
  BY DEF ProcessEvents
<1> HIDE DEF new
<1>7. latest \in EventType /\ L # 0
  BY <1>1, <1>2, <1>5
<1>8. c \in Payload
  <2>1. Len(new) \in 0..Len(new)
    BY <1>5
  <2> QED
    BY <1>1, <1>5, <2>1, CheckedIs
<1>9. a \in Nat
  BY <1>1, <1>5, MismatchesType
<1>10. l \in [id : Nat, at : Nat] /\ latest.at \in Nat /\ l.id = latest.id /\ l.at = latest.at
  BY <1>7 DEF EventType
<1>11. w \in BOOLEAN
  BY <1>1 DEF NotesType
<1> HIDE DEF latest, c, a, w, l
<1>12. page' = [target |-> page.target, events |-> page.events, due |-> FALSE,
                lastProcessed |-> l, ordering |-> c, alerts |-> a]
  BY <1>1, <1>6, PageOf, ZenonT(30)
<1>13. odds' = [notes |-> [serial |-> n.serial, handled |-> latest.at, wrong |-> w,
                          full |-> n.full, restarted |-> n.restarted,
                          seen |-> n.seen, breaks |-> n.breaks],
               sends |-> odds.sends, upsets |-> odds.upsets, unruly |-> odds.unruly]
  BY <1>1, <1>6, OddsOf
<1>14. page' \in PageType
  BY <1>1, <1>8, <1>9, <1>10, <1>12 DEF PageType
<1>15. odds' \in OddsType
  BY <1>1, <1>10, <1>11, <1>13 DEF OddsType, NotesType
<1>16. /\ page'.target = page.target /\ page'.events = page.events /\ ~page'.due
       /\ page'.lastProcessed = l /\ page'.ordering = c /\ page'.alerts = a
  BY <1>12
<1>17. /\ odds'.notes.handled = latest.at /\ odds'.notes.wrong = w
       /\ odds'.notes.serial = n.serial /\ odds'.notes.full = n.full
       /\ odds'.notes.restarted = n.restarted /\ odds'.notes.seen = n.seen
       /\ odds'.notes.breaks = n.breaks /\ odds'.unruly = odds.unruly
  BY <1>13
<1> HIDE DEF n, L
<1>18. ProcessedTo(page, page', n, odds'.notes)
  BY <1>4, <1>5, <1>7, <1>10, <1>16, <1>17 DEF ProcessedTo, new, c, a, w, L
<1> QED
  BY <1>14, <1>15, <1>17, <1>18 DEF n

LEMMA ListProcessed ==
  ASSUME NEW p \in PageType, NEW q \in PageType, NEW n \in NotesType, NEW m \in NotesType,
         NEW next \in Nat \ {0}, ProcessedTo(p, q, n, m), EventsOK(p, n, next)
  PROVE  EventsOK(q, m, next) /\ Behind(m) = 0
<1> DEFINE L == Len(p.events)
<1>1. L \in Nat /\ n.serial \in Nat
  BY DEF PageType, NotesType
<1>2. /\ L <= BufferSize /\ L <= n.serial
      /\ \A i \in 1..L : p.events[i].at = n.serial - L + i
      /\ ~n.restarted => \A i \in 1..L : p.events[i].id = next - 1 - L + i
  BY DEF EventsOK
<1>3. /\ L # 0 /\ q.events = p.events /\ q.lastProcessed.id = p.events[L].id
      /\ q.lastProcessed.at = p.events[L].at /\ m.handled = p.events[L].at
      /\ m.serial = n.serial /\ m.full = n.full /\ m.restarted = n.restarted
  BY DEF ProcessedTo
<1> HIDE DEF L
<1>4. L \in 1..L
  BY <1>1, <1>3
<1>5. m.handled = n.serial /\ q.lastProcessed.at = n.serial /\ m.serial = n.serial
  BY <1>1, <1>2, <1>3, <1>4
<1>6. ~n.restarted => q.lastProcessed.id = next - 1
  BY <1>1, <1>2, <1>3, <1>4
<1>7. n.serial # 0
  BY <1>1, <1>2, <1>3
<1>8. q.lastProcessed # NoEvent
  BY <1>5, <1>7 DEF NoEvent
<1>9. Behind(m) = 0
  BY <1>1, <1>5 DEF Behind
<1>10. Len(q.events) = L
  BY <1>3 DEF L
<1>11. ~m.restarted => /\ \A i \in 1..L : q.events[i].id = next - 1 - L + i
                       /\ q.lastProcessed.id = next - 1 - Behind(m)
  BY <1>2, <1>3, <1>6, <1>9
<1>12. L <= m.serial /\ m.handled <= m.serial /\ Behind(m) < L /\ m.handled # 0
  BY <1>1, <1>2, <1>3, <1>5, <1>7, <1>9
<1>13. \A i \in 1..L : q.events[i].at = m.serial - L + i
  BY <1>2, <1>3
<1> QED
  BY <1>2, <1>3, <1>5, <1>8, <1>9, <1>10, <1>11, <1>12, <1>13 DEF EventsOK

LEMMA CountProcessed ==
  ASSUME NEW p \in PageType, NEW q \in PageType, NEW n \in NotesType, NEW m \in NotesType,
         NEW next \in Nat \ {0}, ProcessedTo(p, q, n, m), EventsOK(p, n, next), CountOK(p, n)
  PROVE  CountOK(q, m)
<1> SUFFICES ASSUME ~m.full, ~m.restarted
             PROVE  /\ ~m.wrong
                    /\ m.seen = Checked(Waiting(q, m), Behind(m), q.ordering)
                    /\ m.breaks = q.alerts + Cardinality(Mismatches(Waiting(q, m), q.ordering))
  BY DEF CountOK
<1> DEFINE W == Waiting(p, n)
           k == Behind(n)
           L == Len(p.events)
<1>1. /\ m.full = n.full /\ m.restarted = n.restarted /\ q.events = p.events
      /\ m.seen = n.seen /\ m.breaks = n.breaks
  BY DEF ProcessedTo
<1>2. k \in 0..L /\ Unprocessed(p.events, p.lastProcessed) = W
  BY <1>1, PlaceIs
<1>3. /\ p.events \in Seq(EventType) /\ L \in Nat /\ n.serial \in Nat /\ n.handled \in Nat
      /\ q.ordering \in Payload /\ q.alerts \in Nat /\ k = n.serial - n.handled
  BY DEF PageType, NotesType, Behind
<1> HIDE DEF k
<1>4. /\ W \in Seq(EventType) /\ Len(W) = k
      /\ \A i \in 1..k : W[i] = p.events[L - k + i]
  <2>1. W = SubSeq(p.events, Len(p.events) - k + 1, Len(p.events))
    BY DEF Waiting, k
  <2>2. k \in Nat /\ k <= Len(p.events)
    BY <1>2, <1>3
  <2> HIDE DEF W
  <2> QED
    BY <1>3, <2>1, <2>2, SuffixIs
<1> HIDE DEF W
<1>5. /\ q.ordering = Checked(W, k, p.ordering)
      /\ q.alerts = p.alerts + Cardinality(Mismatches(W, p.ordering))
      /\ m.wrong = (n.wrong \/ (\E i \in 1..k : W[i].at # n.handled + i))
  BY <1>2, <1>4 DEF ProcessedTo
<1>6. /\ ~n.wrong /\ n.seen = Checked(W, k, p.ordering)
      /\ n.breaks = p.alerts + Cardinality(Mismatches(W, p.ordering))
  BY <1>1 DEF CountOK, W, k
<1>7. \A i \in 1..k : W[i].at = n.handled + i
  <2> TAKE i \in 1..k
  <2>1. L - k + i \in 1..L
    BY <1>2, <1>3
  <2>2. p.events[L - k + i].at = n.serial - L + (L - k + i)
    BY <2>1 DEF EventsOK
  <2>3. n.serial - L + (L - k + i) = n.handled + i
    BY <1>2, <1>3
  <2> QED
    BY <1>4, <2>2, <2>3
<1>8. ~m.wrong
  <2>1. ~(n.wrong \/ (\E i \in 1..k : W[i].at # n.handled + i))
    BY <1>6, <1>7, Zenon
  <2> QED
    BY <1>5, <2>1, Zenon
<1>9. Behind(m) = 0
  BY ListProcessed
<1>10. Waiting(q, m) = <<>>
  <2>1. Waiting(q, m) = SubSeq(p.events, L - 0 + 1, L)
    BY <1>1, <1>9 DEF Waiting
  <2> QED
    BY <1>3, <2>1
<1>11. /\ Checked(Waiting(q, m), Behind(m), q.ordering) = q.ordering
       /\ Cardinality(Mismatches(Waiting(q, m), q.ordering)) = 0
  BY <1>3, <1>9, <1>10, NoMore
<1> QED
  BY <1>1, <1>3, <1>5, <1>6, <1>8, <1>11

-----------------------------------------------------------------------------
\* The page when it is reset.
LEMMA ResetIs ==
  ASSUME NEW d \in Targets, NEW next \in Nat \ {0}
  PROVE  /\ NewPage(d) \in PageType /\ NewNotes \in NotesType
         /\ EventsOK(NewPage(d), NewNotes, next) /\ CountOK(NewPage(d), NewNotes)
<1>1. NoPayload \in Payload /\ NoEvent \in [id : Nat, at : Nat] /\ <<>> \in Seq(EventType)
  BY DEF Payload, NoEvent
<1>2. NewPage(d) \in PageType /\ NewNotes \in NotesType
  BY <1>1 DEF NewPage, NewNotes, PageType, NotesType
<1>3. BufferSize \in Nat \ {0}
  BY BenchmarkAssumption DEF BenchmarkAssumption
<1>4. EventsOK(NewPage(d), NewNotes, next)
  BY <1>3 DEF EventsOK, NewPage, NewNotes, NoEvent, Behind
<1>5. /\ NewPage(d).events = <<>> /\ NewPage(d).ordering = NoPayload /\ NewPage(d).alerts = 0
      /\ NewNotes.serial = 0 /\ NewNotes.handled = 0 /\ ~NewNotes.wrong
      /\ NewNotes.seen = NoPayload /\ NewNotes.breaks = 0
  BY DEF NewPage, NewNotes
<1>6. Behind(NewNotes) = 0 /\ Waiting(NewPage(d), NewNotes) = <<>>
  BY <1>5 DEF Behind, Waiting
<1>7. CountOK(NewPage(d), NewNotes)
  BY <1>1, <1>5, <1>6, NoMore DEF CountOK
<1> QED
  BY <1>2, <1>4, <1>7

\* A restart of the API takes the ids away, and with them what is said of them.
LEMMA RestartKeeps ==
  ASSUME NEW p, NEW n, NEW m, NEW next, NEW other, m.restarted,
         m.serial = n.serial, m.handled = n.handled, m.full = n.full, EventsOK(p, n, next)
  PROVE  EventsOK(p, m, other) /\ CountOK(p, m)
BY DEF EventsOK, CountOK, Behind

\* The effect finds nothing new.
LEMMA DueKeeps ==
  ASSUME NEW p, NEW q, NEW n, NEW next, q.events = p.events, q.ordering = p.ordering,
         q.lastProcessed = p.lastProcessed, q.alerts = p.alerts,
         EventsOK(p, n, next), CountOK(p, n)
  PROVE  EventsOK(q, n, next) /\ CountOK(q, n)
BY DEF EventsOK, CountOK, Behind, Waiting

-----------------------------------------------------------------------------
\* What an event does to the page, be it the target's or not.
LEMMA PublishKeeps ==
  ASSUME BenchTypes, EventsOK(page, odds.notes, nextId[page.target]), CountOK(page, odds.notes),
         NEW d \in Targets, NEW dir \in {"tx", "rx"}, NEW payload \in Payload,
         Published(d, dir, payload)
  PROVE  /\ nextId' \in [Targets -> Nat \ {0}] /\ page' \in PageType /\ odds' \in OddsType
         /\ page'.target = page.target /\ odds'.unruly = odds.unruly
         /\ EventsOK(page', odds'.notes, nextId'[page'.target])
         /\ CountOK(page', odds'.notes)
         /\ odds'.notes.restarted = odds.notes.restarted
         /\ odds'.notes.seen =
              IF page.target = d /\ dir = "rx" THEN payload ELSE odds.notes.seen
         /\ ~(page.target = d /\ dir = "rx" /\ ~Follows(odds.notes.seen, payload)) =>
              odds'.notes.breaks = odds.notes.breaks
<1>1. /\ page \in PageType /\ odds \in OddsType /\ odds.notes \in NotesType
      /\ nextId \in [Targets -> Nat \ {0}] /\ page.target \in Targets
  BY DEF BenchTypes, OddsType, PageType
<1>2. nextId' = [nextId EXCEPT ![d] = nextId[d] + 1]
  BY DEF Published
<1>3. nextId' \in [Targets -> Nat \ {0}] /\ nextId'[d] = nextId[d] + 1
      /\ (page.target # d => nextId'[page.target] = nextId[page.target])
  BY <1>1, <1>2
<1>4. CASE page.target # d
  <2>1. page' = page /\ odds' = odds
    BY <1>4 DEF Published
  <2> QED
    BY <1>1, <1>3, <1>4, <2>1
<1>5. CASE page.target = d
  <2>1. /\ page' \in PageType /\ odds' \in OddsType /\ odds'.unruly = odds.unruly
        /\ \E e \in EventType :
             /\ e.id = nextId[d] /\ e.payload = payload /\ (RxLike(e) <=> dir = "rx")
             /\ PublishedTo(page, page', odds.notes, odds'.notes, e)
    BY <1>5, PublishedIs
  <2>2. PICK e \in EventType :
             /\ e.id = nextId[d] /\ e.payload = payload /\ (RxLike(e) <=> dir = "rx")
             /\ PublishedTo(page, page', odds.notes, odds'.notes, e)
    BY <2>1
  <2>3. PICK next \in Nat \ {0} : next = nextId[d]
    BY <1>1
  <2>4. EventsOK(page, odds.notes, next)
    BY <1>5, <2>3
  <2>5. odds'.notes \in NotesType
    BY <2>1 DEF OddsType
  <2>6. EventsOK(page', odds'.notes, next + 1)
    BY <1>1, <2>1, <2>2, <2>3, <2>4, <2>5, ListGrows
  <2>7. CountOK(page', odds'.notes)
    BY <1>1, <2>1, <2>2, <2>4, <2>5, <2>6, CountGrows
  <2>8. /\ page'.target = page.target /\ odds'.notes.restarted = odds.notes.restarted
        /\ odds'.notes.seen = IF dir = "rx" THEN payload ELSE odds.notes.seen
        /\ odds'.notes.breaks = odds.notes.breaks + IF Breaks(e, odds.notes.seen) THEN 1 ELSE 0
    BY <2>2 DEF PublishedTo
  <2>9. Breaks(e, odds.notes.seen) => dir = "rx" /\ ~Follows(odds.notes.seen, payload)
    BY <2>2 DEF Breaks, Follows
  <2>10. odds.notes.breaks \in Nat
    BY <1>1 DEF NotesType
  <2>11. ~(dir = "rx" /\ ~Follows(odds.notes.seen, payload)) =>
              odds'.notes.breaks = odds.notes.breaks
    BY <2>8, <2>9, <2>10
  <2> QED
    BY <1>3, <1>5, <2>1, <2>3, <2>6, <2>7, <2>8, <2>11
<1> QED
  BY <1>4, <1>5

\* The requests, when one of them is through.
LEMMA WithoutIs ==
  ASSUME NEW T, NEW s \in Seq(T), NEW i \in 1..Len(s)
  PROVE  /\ Without(s, i) \in Seq(T) /\ Len(Without(s, i)) = Len(s) - 1
         /\ \A k \in 1..(Len(s) - 1) : Without(s, i)[k] = s[IF k < i THEN k ELSE k + 1]
<1>1. Len(s) \in Nat /\ i \in Nat /\ 1 <= i /\ i <= Len(s)
  OBVIOUS
<1>2. PICK a : a = SubSeq(s, 1, i - 1)
  OBVIOUS
<1>3. PICK b : b = SubSeq(s, i + 1, Len(s))
  OBVIOUS
<1>4. a \in Seq(T) /\ Len(a) = i - 1 /\ \A k \in 1..(i - 1) : a[k] = s[k]
  BY <1>1, <1>2
<1>5. b \in Seq(T) /\ Len(b) = Len(s) - i /\ \A k \in 1..(Len(s) - i) : b[k] = s[i + k]
  BY <1>1, <1>3
<1>6. Without(s, i) = a \o b
  BY <1>2, <1>3 DEF Without
<1>7. /\ a \o b \in Seq(T) /\ Len(a \o b) = Len(a) + Len(b)
      /\ \A k \in 1..(Len(a) + Len(b)) :
           (a \o b)[k] = IF k <= Len(a) THEN a[k] ELSE b[k - Len(a)]
  BY <1>4, <1>5, ConcatProperties
<1>8. /\ Len(a \o b) = Len(s) - 1
      /\ \A k \in 1..(Len(s) - 1) : (a \o b)[k] = IF k < i THEN a[k] ELSE b[k - (i - 1)]
  BY <1>1, <1>4, <1>5, <1>7
<1>9. \A k \in 1..(Len(s) - 1) : (a \o b)[k] = s[IF k < i THEN k ELSE k + 1]
  <2> TAKE k \in 1..(Len(s) - 1)
  <2>1. CASE k < i
    BY <1>1, <1>4, <1>8, <2>1
  <2>2. CASE ~(k < i)
    <3>1. k - (i - 1) \in 1..(Len(s) - i) /\ i + (k - (i - 1)) = k + 1
      BY <1>1, <2>2
    <3> QED
      BY <1>5, <1>8, <2>2, <3>1
  <2> QED
    BY <2>1, <2>2
<1> QED
  BY <1>6, <1>7, <1>8, <1>9

\* Requests and counters stay, and what got past the API either stays what it
\* was or is not known any more.
LEMMA RequestsKeep ==
  ASSUME NEW d \in Targets, ChainOK(d), UNCHANGED <<orderedState, sending>>,
         LastOut(d)' \in {NoPayload, LastOut(d)}
  PROVE  /\ \A i \in 1..Len(sending') : sending'[i].dongle = d =>
              Follows(LastOut(d)', sending'[i].payload) /\ orderedState'[d] = sending'[i].payload
         /\ (\A i \in 1..Len(sending') : sending'[i].dongle # d) =>
              LastOut(d)' \in {NoPayload, orderedState'[d]}
<1> DEFINE last == LastOut(d)
<1>1. /\ \A i \in 1..Len(sending) : sending[i].dongle = d =>
           Follows(last, sending[i].payload) /\ orderedState[d] = sending[i].payload
      /\ (\A i \in 1..Len(sending) : sending[i].dongle # d) => last \in {NoPayload, orderedState[d]}
  BY DEF ChainOK
<1>2. PICK now : now = LastOut(d)'
  OBVIOUS
<1>3. now \in {NoPayload, last} /\ sending' = sending /\ orderedState' = orderedState
  BY <1>2
<1> HIDE DEF last
<1>4. \A p : Follows(last, p) => Follows(now, p)
  BY <1>3 DEF Follows
<1> QED
  BY <1>1, <1>2, <1>3, <1>4

-----------------------------------------------------------------------------
\* A frame is asked for: it follows on what has got past the API, unless
\* another one for the same dongle is on its way.
LEMMA SendKeeps ==
  ASSUME BenchInv, SendOnce
  PROVE  BenchInv'
<1>0. PICK d \in Targets : d = page.target
  BY DEF BenchInv, BenchTypes, PageType
<1> DEFINE s == [dongle |-> d, payload |-> NextPayload(d)]
           b == odds.unruly \/ (\E i \in 1..Len(sending) : sending[i].dongle = d)
<1>1. /\ BenchTypes /\ page \in PageType /\ odds \in OddsType
      /\ orderedState \in [Targets -> Payload]
      /\ sending \in Seq([dongle : Targets, payload : Payload])
      /\ bus \in [Targets -> Seq(Payload)]
  BY DEF BenchInv, BenchTypes, PageType
<1>2. /\ orderedState' = [orderedState EXCEPT ![d] = NextPayload(d)]
      /\ sending' = Append(sending, s)
      /\ odds' = [odds EXCEPT !.sends = odds.sends + 1, !.unruly = b]
      /\ bus' = bus /\ nextId' = nextId /\ page' = page
  BY <1>0 DEF SendOnce
<1>3. NextPayload(d) \in Payload /\ Follows(orderedState[d], NextPayload(d))
  BY <1>1, NextIsPayload
<1>4. odds' = [notes |-> odds.notes, sends |-> odds.sends + 1, upsets |-> odds.upsets, unruly |-> b]
  <2> HIDE DEF b
  <2> QED
    BY <1>1, <1>2, BudgetOf
<1>5. odds'.notes = odds.notes /\ odds'.unruly = b /\ odds' \in OddsType
  <2>1. b \in BOOLEAN /\ odds.sends + 1 \in Nat
    BY <1>1 DEF OddsType
  <2> HIDE DEF b
  <2> QED
    BY <1>1, <1>4, <2>1 DEF OddsType
<1>6. s \in [dongle : Targets, payload : Payload] /\ s.dongle = d /\ s.payload = NextPayload(d)
  BY <1>1, <1>3
<1> HIDE DEF s
<1>7. BenchTypes'
  BY <1>1, <1>2, <1>3, <1>5, <1>6 DEF BenchTypes, BenchInv
<1>8. EventsOK(page, odds.notes, nextId[page.target])' /\ CountOK(page, odds.notes)'
  BY <1>2, <1>5 DEF BenchInv
<1>9. ASSUME ~odds'.unruly
      PROVE  /\ ~odds'.notes.restarted /\ odds'.notes.breaks = 0
             /\ OneSending' /\ \A c \in Targets : ChainOK(c)'
  <2>1. ~odds.unruly /\ ~(\E i \in 1..Len(sending) : sending[i].dongle = d)
    <3>1. ~b
      BY <1>5, <1>9, Zenon
    <3> QED
      BY <3>1
  <2>2. /\ ~odds.notes.restarted /\ odds.notes.breaks = 0
        /\ OneSending /\ \A c \in Targets : ChainOK(c)
    BY <2>1 DEF BenchInv, OrderlyBench
  <2>3. /\ Len(sending') = Len(sending) + 1 /\ sending'[Len(sending) + 1] = s
        /\ \A i \in 1..Len(sending) : sending'[i] = sending[i]
        /\ Len(sending) \in Nat
    BY <1>1, <1>2, <1>6
  <2>4. \A i \in 1..Len(sending') : i \in 1..Len(sending) \/ i = Len(sending) + 1
    BY <2>3
  <2>5. OneSending'
    BY <1>6, <2>1, <2>2, <2>3, <2>4 DEF OneSending
  <2>6. \A c \in Targets : LastOut(c)' = LastOut(c)
    BY <1>2, <1>5 DEF LastOut
  <2>7. ASSUME NEW c \in Targets PROVE ChainOK(c)'
    <3>1. ChainOK(c)
      BY <2>2
    <3>2. /\ \A k \in 1..Len(bus'[c]) - 1 : Follows(bus'[c][k], bus'[c][k + 1])
          /\ page'.target = c /\ bus'[c] # <<>> => Follows(odds'.notes.seen, bus'[c][1])
      BY <1>2, <1>5, <3>1 DEF ChainOK
    <3>3. CASE c = d
      <4>1. LastOut(d) \in {NoPayload, orderedState[d]}
        BY <2>1, <3>1, <3>3 DEF ChainOK
      <4>2. Follows(LastOut(d), NextPayload(d))
        BY <1>3, <4>1 DEF Follows
      <4>3. orderedState'[d] = NextPayload(d)
        BY <1>1, <1>2
      <4>4. \A i \in 1..Len(sending') : sending'[i].dongle = d => sending'[i] = s
        BY <2>1, <2>3, <2>4
      <4>5. sending'[Len(sending')].dongle = d /\ Len(sending') \in 1..Len(sending')
        BY <1>6, <2>3
      <4>6. \A i \in 1..Len(sending') : sending'[i].dongle = d =>
               Follows(LastOut(d)', sending'[i].payload) /\ orderedState'[d] = sending'[i].payload
        BY <1>6, <2>6, <3>3, <4>2, <4>3, <4>4
      <4> QED
        BY <3>2, <3>3, <4>5, <4>6 DEF ChainOK
    <3>4. CASE c # d
      <4>1. orderedState'[c] = orderedState[c]
        BY <1>1, <1>2, <3>4
      <4>2. \A i \in 1..Len(sending') : sending'[i].dongle = c => i \in 1..Len(sending)
        BY <1>6, <2>3, <2>4, <3>4
      <4>3. \A i \in 1..Len(sending') : sending'[i].dongle = c =>
               Follows(LastOut(c)', sending'[i].payload) /\ orderedState'[c] = sending'[i].payload
        BY <2>3, <2>6, <3>1, <4>1, <4>2 DEF ChainOK
      <4>4. (\A i \in 1..Len(sending') : sending'[i].dongle # c) =>
               LastOut(c)' \in {NoPayload, orderedState'[c]}
        <5>1. \A i \in 1..Len(sending) : i \in 1..Len(sending')
          BY <2>3
        <5> QED
          BY <2>3, <2>6, <3>1, <4>1, <5>1 DEF ChainOK
      <4> QED
        BY <3>2, <4>3, <4>4 DEF ChainOK
    <3> QED
      BY <3>3, <3>4
  <2> QED
    BY <1>5, <2>2, <2>5, <2>7
<1>10. OrderlyBench'
  BY <1>9 DEF OrderlyBench
<1> QED
  BY <1>7, <1>8, <1>10 DEF BenchInv

\* A request is through: what it sent comes after what was sent before it.
LEMMA SentKeeps ==
  ASSUME BenchInv, NEW i \in 1..Len(sending), FrameSent(i)
  PROVE  BenchInv'
<1>1. /\ BenchTypes /\ EventsOK(page, odds.notes, nextId[page.target])
      /\ CountOK(page, odds.notes)
      /\ sending \in Seq([dongle : Targets, payload : Payload])
      /\ bus \in [Targets -> Seq(Payload)] /\ orderedState \in [Targets -> Payload]
  BY DEF BenchInv, BenchTypes
<1>11. PICK T : T = [dongle : Targets, payload : Payload]
  OBVIOUS
<1>12. sending \in Seq(T) /\ i \in 1..Len(sending)
  BY <1>1, <1>11
<1>0. PICK s \in T : s = sending[i]
  BY <1>12
<1>2. PICK d \in Targets : d = s.dongle
  BY <1>11
<1>10. s.payload \in Payload
  BY <1>11
<1>3. /\ sending' = Without(sending, i) /\ orderedState' = orderedState
      /\ bus' = [bus EXCEPT ![d] = Append(bus[d], s.payload)]
      /\ Published(d, "tx", s.payload)
  BY <1>0, <1>2 DEF FrameSent
<1>4. /\ sending' \in Seq(T)
      /\ Len(sending') = Len(sending) - 1 /\ Len(sending) \in Nat
      /\ \A k \in 1..(Len(sending) - 1) : sending'[k] = sending[IF k < i THEN k ELSE k + 1]
  <2>1. sending' = Without(sending, i)
    BY <1>3
  <2>2. /\ Without(sending, i) \in Seq(T) /\ Len(Without(sending, i)) = Len(sending) - 1
        /\ \A k \in 1..(Len(sending) - 1) :
             Without(sending, i)[k] = sending[IF k < i THEN k ELSE k + 1]
    BY <1>12, WithoutIs
  <2>3. Len(sending) \in Nat
    BY <1>12
  <2> QED
    BY <2>1, <2>2, <2>3
<1>5. /\ nextId' \in [Targets -> Nat \ {0}] /\ page' \in PageType /\ odds' \in OddsType
      /\ page'.target = page.target /\ odds'.unruly = odds.unruly
      /\ EventsOK(page', odds'.notes, nextId'[page'.target]) /\ CountOK(page', odds'.notes)
      /\ odds'.notes.restarted = odds.notes.restarted
      /\ odds'.notes.seen = odds.notes.seen /\ odds'.notes.breaks = odds.notes.breaks
  BY <1>1, <1>3, <1>10, PublishKeeps
<1>6. bus' \in [Targets -> Seq(Payload)] /\ bus'[d] = Append(bus[d], s.payload)
      /\ \A c \in Targets : c # d => bus'[c] = bus[c]
  BY <1>1, <1>3, <1>10
<1>7. BenchTypes'
  BY <1>1, <1>3, <1>4, <1>5, <1>6, <1>11 DEF BenchTypes
<1>8. ASSUME ~odds'.unruly
      PROVE  /\ ~odds'.notes.restarted /\ odds'.notes.breaks = 0
             /\ OneSending' /\ \A c \in Targets : ChainOK(c)'
  <2>1. /\ ~odds.notes.restarted /\ odds.notes.breaks = 0
        /\ OneSending /\ \A c \in Targets : ChainOK(c)
    BY <1>5, <1>8 DEF BenchInv, OrderlyBench
  <2>2. \A k \in 1..Len(sending') : \E j \in 1..Len(sending) :
          sending'[k] = sending[j] /\ j # i /\ j = IF k < i THEN k ELSE k + 1
    <3> TAKE k \in 1..Len(sending')
    <3>1. PICK j \in Int : j = IF k < i THEN k ELSE k + 1
      OBVIOUS
    <3>2. j \in 1..Len(sending) /\ j # i
      BY <1>4, <3>1
    <3> QED
      BY <1>4, <3>1, <3>2
  <2>3. \A j \in 1..Len(sending) : j # i =>
          \E k \in 1..Len(sending') : sending'[k] = sending[j]
    <3> TAKE j \in 1..Len(sending)
    <3> HAVE j # i
    <3>1. PICK k \in Int : k = IF j < i THEN j ELSE j - 1
      OBVIOUS
    <3>2. k \in 1..(Len(sending) - 1) /\ j = IF k < i THEN k ELSE k + 1
      BY <1>4, <3>1
    <3> QED
      BY <1>4, <3>2
  <2>4. OneSending'
    <3> SUFFICES ASSUME NEW k \in 1..Len(sending'), NEW l \in 1..Len(sending'),
                        sending'[k].dongle = sending'[l].dongle
                 PROVE  k = l
      BY DEF OneSending
    <3>1. PICK j \in 1..Len(sending) : sending'[k] = sending[j] /\ j = IF k < i THEN k ELSE k + 1
      BY <2>2
    <3>2. PICK m \in 1..Len(sending) : sending'[l] = sending[m] /\ m = IF l < i THEN l ELSE l + 1
      BY <2>2
    <3>3. j = m
      BY <2>1, <3>1, <3>2 DEF OneSending
    <3> QED
      BY <1>4, <3>1, <3>2, <3>3
  <2>5. \A k \in 1..Len(sending') : sending'[k].dongle # d
    BY <1>0, <1>2, <2>1, <2>2 DEF OneSending
  <2>6. /\ Len(bus'[d]) = Len(bus[d]) + 1 /\ Len(bus[d]) \in Nat
        /\ bus'[d][Len(bus[d]) + 1] = s.payload
        /\ \A k \in 1..Len(bus[d]) : bus'[d][k] = bus[d][k]
    BY <1>1, <1>6, <1>10
  <2>7. Follows(LastOut(d), s.payload) /\ orderedState[d] = s.payload
    BY <1>0, <1>2, <2>1 DEF ChainOK
  <2>8. ChainOK(d)'
    <3>1. bus'[d] # <<>>
      BY <2>6
    <3>2. LastOut(d)' = s.payload
      BY <2>6, <3>1 DEF LastOut
    <3>3. ChainOK(d)
      BY <1>2, <2>1
    <3>4. ASSUME NEW k \in 1..Len(bus'[d]) - 1 PROVE Follows(bus'[d][k], bus'[d][k + 1])
      <4>1. CASE k = Len(bus[d])
        <5>1. bus[d] # <<>>
          BY <1>1, <1>2, <2>6, <4>1
        <5>2. LastOut(d) = bus[d][k]
          BY <4>1, <5>1 DEF LastOut
        <5> QED
          BY <2>6, <2>7, <4>1, <5>2
      <4>2. CASE k \in 1..Len(bus[d]) - 1
        <5>1. Follows(bus[d][k], bus[d][k + 1])
          BY <3>3, <4>2 DEF ChainOK
        <5> QED
          BY <2>6, <4>2, <5>1
      <4>3. k = Len(bus[d]) \/ k \in 1..Len(bus[d]) - 1
        BY <2>6
      <4> QED
        BY <4>1, <4>2, <4>3
    <3>5. ASSUME page'.target = d PROVE Follows(odds'.notes.seen, bus'[d][1])
      <4>1. CASE bus[d] = <<>>
        <5>1. LastOut(d) = odds.notes.seen
          BY <1>5, <3>5, <4>1 DEF LastOut
        <5>2. bus'[d][1] = s.payload
          BY <2>6, <4>1
        <5> QED
          BY <1>5, <2>7, <5>1, <5>2
      <4>2. CASE bus[d] # <<>>
        <5>1. 1 \in 1..Len(bus[d])
          BY <1>1, <1>2, <4>2
        <5> QED
          BY <1>5, <2>6, <3>3, <3>5, <4>2, <5>1 DEF ChainOK
      <4> QED
        BY <4>1, <4>2
    <3>6. LastOut(d)' \in {NoPayload, orderedState'[d]}
      BY <1>3, <2>7, <3>2
    <3> QED
      BY <2>5, <3>4, <3>5, <3>6 DEF ChainOK
  <2>9. ASSUME NEW c \in Targets, c # d PROVE ChainOK(c)'
    <3>1. ChainOK(c) /\ bus'[c] = bus[c]
      BY <1>6, <2>1, <2>9
    <3>2. LastOut(c)' = LastOut(c)
      BY <1>5, <3>1 DEF LastOut
    <3>3. \A k \in 1..Len(sending') : sending'[k].dongle = c =>
            Follows(LastOut(c)', sending'[k].payload) /\ orderedState'[c] = sending'[k].payload
      BY <1>3, <2>2, <3>1, <3>2 DEF ChainOK
    <3>4. (\A k \in 1..Len(sending') : sending'[k].dongle # c) =>
            LastOut(c)' \in {NoPayload, orderedState'[c]}
      <4> SUFFICES ASSUME \A k \in 1..Len(sending') : sending'[k].dongle # c
                   PROVE  LastOut(c)' \in {NoPayload, orderedState'[c]}
        OBVIOUS
      <4>1. \A j \in 1..Len(sending) : sending[j].dongle # c
        <5> TAKE j \in 1..Len(sending)
        <5>1. CASE j = i
          BY <1>0, <1>2, <2>9, <5>1
        <5>2. CASE j # i
          BY <2>3, <5>2
        <5> QED
          BY <5>1, <5>2
      <4> QED
        BY <1>3, <3>1, <3>2, <4>1 DEF ChainOK
    <3>5. /\ \A k \in 1..Len(bus'[c]) - 1 : Follows(bus'[c][k], bus'[c][k + 1])
          /\ page'.target = c /\ bus'[c] # <<>> => Follows(odds'.notes.seen, bus'[c][1])
      BY <1>5, <3>1 DEF ChainOK
    <3> QED
      BY <3>3, <3>4, <3>5 DEF ChainOK
  <2> QED
    BY <1>5, <2>1, <2>4, <2>8, <2>9
<1>9. OrderlyBench'
  BY <1>8 DEF OrderlyBench
<1> QED
  BY <1>5, <1>7, <1>9 DEF BenchInv

\* A frame comes in.  It follows on the one that the page saw before it.
LEMMA ReturnKeeps ==
  ASSUME BenchInv, NEW d \in Targets, FrameReturns(d)
  PROVE  BenchInv'
<1>1. /\ BenchTypes /\ EventsOK(page, odds.notes, nextId[page.target])
      /\ CountOK(page, odds.notes)
      /\ bus \in [Targets -> Seq(Payload)]
  BY DEF BenchInv, BenchTypes
<1>2. PICK b \in Seq(Payload) : b = bus[d]
  BY <1>1
<1>3. b # <<>> /\ bus' = [bus EXCEPT ![d] = Tail(b)] /\ Published(d, "rx", Head(b))
      /\ orderedState' = orderedState /\ sending' = sending
  BY <1>2 DEF FrameReturns
<1>4. PICK h \in Payload : h = Head(b) /\ h = b[1]
  BY <1>3
<1>12. Tail(b) \in Seq(Payload)
  <2>1. b # <<>>
    BY <1>3
  <2> QED
    BY <2>1, HeadTailProperties
<1>5. PICK t \in Seq(Payload) : t = Tail(b)
  BY <1>12
<1>6. Len(t) = Len(b) - 1 /\ Len(b) \in Nat \ {0} /\ \A k \in 1..Len(t) : t[k] = b[k + 1]
  BY <1>3, <1>5
<1>7. bus' \in [Targets -> Seq(Payload)] /\ bus'[d] = t
      /\ \A c \in Targets : c # d => bus'[c] = bus[c]
  BY <1>1, <1>3, <1>5
<1>8. /\ nextId' \in [Targets -> Nat \ {0}] /\ page' \in PageType /\ odds' \in OddsType
      /\ page'.target = page.target /\ odds'.unruly = odds.unruly
      /\ EventsOK(page', odds'.notes, nextId'[page'.target]) /\ CountOK(page', odds'.notes)
      /\ odds'.notes.restarted = odds.notes.restarted
      /\ odds'.notes.seen = (IF page.target = d THEN h ELSE odds.notes.seen)
      /\ ~(page.target = d /\ ~Follows(odds.notes.seen, h)) =>
           odds'.notes.breaks = odds.notes.breaks
  <2>1. Published(d, "rx", h)
    BY <1>3, <1>4
  <2> QED
    BY <1>1, <2>1, PublishKeeps
<1>9. BenchTypes'
  BY <1>1, <1>3, <1>7, <1>8 DEF BenchTypes
<1>10. ASSUME ~odds'.unruly
       PROVE  /\ ~odds'.notes.restarted /\ odds'.notes.breaks = 0
              /\ OneSending' /\ \A c \in Targets : ChainOK(c)'
  <2>1. /\ ~odds.notes.restarted /\ odds.notes.breaks = 0
        /\ OneSending /\ \A c \in Targets : ChainOK(c)
    BY <1>8, <1>10 DEF BenchInv, OrderlyBench
  <2>2. page.target = d => Follows(odds.notes.seen, h)
    BY <1>2, <1>3, <1>4, <2>1 DEF ChainOK
  <2>3. \A k \in 1..Len(b) - 1 : Follows(b[k], b[k + 1])
    BY <1>2, <2>1 DEF ChainOK
  <2>4. ChainOK(d)'
    <3>1. LastOut(d)' \in {NoPayload, LastOut(d)}
      <4>1. LastOut(d) = b[Len(b)]
        BY <1>2, <1>3 DEF LastOut
      <4>2. CASE t = <<>>
        <5>1. b[Len(b)] = h
          <6>1. Len(t) = 0
            BY <4>2
          <6>2. Len(b) = 1
            BY <1>6, <6>1
          <6> QED
            BY <1>4, <6>2
        <5>2. LastOut(d)' = IF page.target = d THEN h ELSE NoPayload
          BY <1>7, <1>8, <4>2 DEF LastOut
        <5> QED
          BY <4>1, <5>1, <5>2
      <4>3. CASE t # <<>>
        <5>1. LastOut(d)' = t[Len(t)]
          BY <1>7, <4>3 DEF LastOut
        <5>2. Len(t) \in 1..Len(t) /\ Len(t) + 1 = Len(b)
          BY <1>6, <4>3
        <5>3. t[Len(t)] = b[Len(b)]
          BY <1>6, <5>2
        <5> QED
          BY <4>1, <5>1, <5>3
      <4> QED
        BY <4>2, <4>3
    <3>2. /\ \A i \in 1..Len(sending') : sending'[i].dongle = d =>
               Follows(LastOut(d)', sending'[i].payload) /\ orderedState'[d] = sending'[i].payload
          /\ (\A i \in 1..Len(sending') : sending'[i].dongle # d) =>
               LastOut(d)' \in {NoPayload, orderedState'[d]}
      BY <1>3, <2>1, <3>1, RequestsKeep
    <3>3. ASSUME NEW k \in 1..Len(t) - 1 PROVE Follows(t[k], t[k + 1])
      <4>1. k + 1 \in 1..Len(b) - 1 /\ k \in 1..Len(t) /\ k + 1 \in 1..Len(t)
        BY <1>6
      <4> QED
        BY <1>6, <2>3, <4>1
    <3>4. ASSUME page.target = d, t # <<>> PROVE Follows(h, t[1])
      <4>1. 1 \in 1..Len(t) /\ 1 \in 1..Len(b) - 1
        BY <1>6, <3>4
      <4> QED
        BY <1>4, <1>6, <2>3, <4>1
    <3> QED
      BY <1>7, <1>8, <3>2, <3>3, <3>4 DEF ChainOK
  <2>5. ASSUME NEW c \in Targets, c # d PROVE ChainOK(c)'
    <3>1. ChainOK(c) /\ bus'[c] = bus[c] /\ (page.target = c => odds'.notes.seen = odds.notes.seen)
      BY <1>7, <1>8, <2>1, <2>5
    <3>2. LastOut(c)' = LastOut(c)
      BY <1>8, <3>1 DEF LastOut
    <3>3. /\ \A i \in 1..Len(sending') : sending'[i].dongle = c =>
               Follows(LastOut(c)', sending'[i].payload) /\ orderedState'[c] = sending'[i].payload
          /\ (\A i \in 1..Len(sending') : sending'[i].dongle # c) =>
               LastOut(c)' \in {NoPayload, orderedState'[c]}
      BY <1>3, <3>1, <3>2, RequestsKeep
    <3> QED
      BY <1>8, <3>1, <3>3 DEF ChainOK
  <2>6. OneSending'
    BY <1>3, <2>1 DEF OneSending
  <2> QED
    BY <1>8, <2>1, <2>2, <2>4, <2>5, <2>6
<1>11. OrderlyBench'
  BY <1>10 DEF OrderlyBench
<1> QED
  BY <1>8, <1>9, <1>11 DEF BenchInv

\* No frame moves, and the page has seen what it had seen, or starts afresh.
LEMMA StillOrderly ==
  ASSUME OrderlyBench, UNCHANGED <<orderedState, sending, bus>>,
         odds'.unruly = odds.unruly,
         \/ /\ page'.target = page.target /\ odds'.notes.seen = odds.notes.seen
            /\ odds'.notes.breaks = odds.notes.breaks
            /\ odds'.notes.restarted = odds.notes.restarted
         \/ odds'.notes = NewNotes
  PROVE  OrderlyBench'
<1>1. /\ orderedState' = orderedState /\ sending' = sending /\ bus' = bus
  OBVIOUS
<1>2. odds'.notes = NewNotes =>
        odds'.notes.seen = NoPayload /\ odds'.notes.breaks = 0 /\ odds'.notes.restarted = FALSE
  BY DEF NewNotes
<1>3. \/ /\ page'.target = page.target /\ odds'.notes.seen = odds.notes.seen
         /\ odds'.notes.breaks = odds.notes.breaks
         /\ odds'.notes.restarted = odds.notes.restarted
      \/ odds'.notes.seen = NoPayload /\ odds'.notes.breaks = 0 /\ odds'.notes.restarted = FALSE
  BY <1>2
<1>4. ASSUME ~odds'.unruly
      PROVE  /\ ~odds'.notes.restarted /\ odds'.notes.breaks = 0
             /\ OneSending' /\ \A c \in Targets : ChainOK(c)'
  <2>1. /\ ~odds.notes.restarted /\ odds.notes.breaks = 0
        /\ OneSending /\ \A c \in Targets : ChainOK(c)
    BY <1>4 DEF OrderlyBench
  <2>2. ~odds'.notes.restarted /\ odds'.notes.breaks = 0
    BY <1>3, <2>1
  <2>3. ASSUME NEW c \in Targets PROVE ChainOK(c)'
    <3>1. LastOut(c)' \in {NoPayload, LastOut(c)}
      BY <1>1, <1>3 DEF LastOut
    <3>2. /\ \A i \in 1..Len(sending') : sending'[i].dongle = c =>
               Follows(LastOut(c)', sending'[i].payload) /\ orderedState'[c] = sending'[i].payload
          /\ (\A i \in 1..Len(sending') : sending'[i].dongle # c) =>
               LastOut(c)' \in {NoPayload, orderedState'[c]}
      BY <1>1, <2>1, <3>1, RequestsKeep
    <3>3. page'.target = c /\ bus'[c] # <<>> => Follows(odds'.notes.seen, bus'[c][1])
      BY <1>1, <1>3, <2>1 DEF ChainOK, Follows
    <3> QED
      BY <1>1, <2>1, <3>2, <3>3 DEF ChainOK
  <2>4. OneSending'
    BY <1>1, <2>1 DEF OneSending
  <2> QED
    BY <2>2, <2>3, <2>4
<1> QED
  BY <1>4 DEF OrderlyBench

-----------------------------------------------------------------------------
\* What loses frames, or the API's counters, says nothing of the order any more.
LEMMA LostKeeps ==
  ASSUME BenchInv, NEW i \in 1..Len(sending), FrameLost(i)
  PROVE  BenchInv'
<1>1. BenchTypes /\ odds \in OddsType /\ sending \in Seq([dongle : Targets, payload : Payload])
      /\ odds.upsets + 1 \in Nat /\ TRUE \in BOOLEAN
  BY DEF BenchInv, BenchTypes, OddsType
<1>2. /\ sending' = Without(sending, i)
      /\ odds' = [odds EXCEPT !.upsets = odds.upsets + 1, !.unruly = TRUE]
      /\ orderedState' = orderedState /\ bus' = bus /\ nextId' = nextId /\ page' = page
  BY DEF FrameLost
<1>3. sending' \in Seq([dongle : Targets, payload : Payload])
  <2>1. Without(sending, i) \in Seq([dongle : Targets, payload : Payload])
    BY <1>1, WithoutIs
  <2> QED
    BY <1>2, <2>1
<1>4. odds' = [notes |-> odds.notes, sends |-> odds.sends, upsets |-> odds.upsets + 1,
              unruly |-> TRUE]
  BY <1>1, <1>2, BudgetOf
<1>5. odds'.notes = odds.notes /\ odds'.unruly /\ odds' \in OddsType
  BY <1>1, <1>4 DEF OddsType
<1> QED
  BY <1>1, <1>2, <1>3, <1>5 DEF BenchInv, BenchTypes, OrderlyBench

LEMMA RestartBench ==
  ASSUME BenchInv, RestartApi
  PROVE  BenchInv'
<1>1. BenchTypes /\ odds \in OddsType /\ odds.notes \in NotesType
      /\ odds.upsets + 1 \in Nat /\ TRUE \in BOOLEAN
      /\ EventsOK(page, odds.notes, nextId[page.target]) /\ page.target \in Targets
  BY DEF BenchInv, BenchTypes, OddsType, PageType
<1>2. /\ odds' = [odds EXCEPT !.upsets = odds.upsets + 1, !.unruly = TRUE,
                              !.notes.restarted = TRUE]
      /\ orderedState' = [d \in Targets |-> NoPayload] /\ sending' = <<>>
      /\ nextId' = [d \in Targets |-> 1] /\ bus' = bus /\ page' = page
  BY DEF RestartApi
<1>3. odds' = [notes |-> [serial |-> odds.notes.serial, handled |-> odds.notes.handled,
                          wrong |-> odds.notes.wrong, full |-> odds.notes.full,
                          restarted |-> TRUE,
                          seen |-> odds.notes.seen, breaks |-> odds.notes.breaks],
               sends |-> odds.sends, upsets |-> odds.upsets + 1, unruly |-> TRUE]
  BY <1>1, <1>2, RestartOf
<1>4. /\ odds'.notes.restarted /\ odds'.notes.serial = odds.notes.serial
      /\ odds'.notes.handled = odds.notes.handled /\ odds'.notes.full = odds.notes.full
      /\ odds'.unruly /\ odds' \in OddsType
  BY <1>1, <1>3 DEF OddsType, NotesType
<1>5. EventsOK(page, odds'.notes, nextId'[page.target]) /\ CountOK(page, odds'.notes)
  BY <1>1, <1>4, RestartKeeps
<1>6. NoPayload \in Payload
  BY DEF Payload
<1>7. BenchTypes'
  BY <1>1, <1>2, <1>4, <1>6 DEF BenchTypes
<1> QED
  BY <1>2, <1>4, <1>5, <1>7 DEF BenchInv, OrderlyBench

\* The page's own steps.
LEMMA NothingKeeps ==
  ASSUME BenchInv, FindNothing
  PROVE  BenchInv'
<1>1. BenchTypes /\ page \in PageType /\ OrderlyBench
      /\ EventsOK(page, odds.notes, nextId[page.target]) /\ CountOK(page, odds.notes)
  BY DEF BenchInv, BenchTypes
<1>2. /\ page' = [page EXCEPT !.due = FALSE] /\ odds' = odds /\ nextId' = nextId
      /\ orderedState' = orderedState /\ sending' = sending /\ bus' = bus
  BY DEF FindNothing
<1>3. /\ page' \in PageType /\ page'.target = page.target /\ page'.events = page.events
      /\ page'.ordering = page.ordering /\ page'.lastProcessed = page.lastProcessed
      /\ page'.alerts = page.alerts
  BY <1>1, <1>2 DEF PageType
<1>4. EventsOK(page', odds.notes, nextId[page.target]) /\ CountOK(page', odds.notes)
  BY <1>1, <1>3, DueKeeps
<1>5. OrderlyBench'
  BY <1>1, <1>2, <1>3, StillOrderly
<1>6. BenchTypes'
  BY <1>1, <1>2, <1>3 DEF BenchTypes
<1> QED
  BY <1>2, <1>3, <1>4, <1>5, <1>6 DEF BenchInv

LEMMA ProcessKeeps ==
  ASSUME BenchInv, ProcessEvents
  PROVE  BenchInv'
<1>1. BenchTypes /\ page \in PageType /\ OrderlyBench /\ odds.notes \in NotesType
      /\ EventsOK(page, odds.notes, nextId[page.target]) /\ CountOK(page, odds.notes)
  BY DEF BenchInv, BenchTypes, OddsType
<1>2. /\ nextId' = nextId /\ orderedState' = orderedState /\ sending' = sending /\ bus' = bus
  BY DEF ProcessEvents
<1>3. /\ page' \in PageType /\ odds' \in OddsType /\ odds'.unruly = odds.unruly
      /\ ProcessedTo(page, page', odds.notes, odds'.notes)
  BY <1>1, ProcessIs
<1>4. PICK next \in Nat \ {0} : next = nextId[page.target]
  BY <1>1 DEF BenchTypes, PageType
<1>5. odds'.notes \in NotesType
  BY <1>3 DEF OddsType
<1>6. EventsOK(page', odds'.notes, next)
  BY <1>1, <1>3, <1>4, <1>5, ListProcessed
<1>7. CountOK(page', odds'.notes)
  BY <1>1, <1>3, <1>4, <1>5, CountProcessed
<1>8. /\ page'.target = page.target /\ odds'.notes.seen = odds.notes.seen
      /\ odds'.notes.breaks = odds.notes.breaks
      /\ odds'.notes.restarted = odds.notes.restarted
  BY <1>3 DEF ProcessedTo
<1>9. OrderlyBench'
  BY <1>1, <1>2, <1>3, <1>8, StillOrderly
<1>10. BenchTypes'
  BY <1>1, <1>2, <1>3 DEF BenchTypes
<1> QED
  BY <1>2, <1>4, <1>6, <1>7, <1>8, <1>9, <1>10 DEF BenchInv

LEMMA ResetKeeps ==
  ASSUME BenchInv, NEW d \in Targets, ResetState(d)
  PROVE  BenchInv'
<1>1. BenchTypes /\ odds \in OddsType /\ OrderlyBench /\ nextId[d] \in Nat \ {0}
  BY DEF BenchInv, BenchTypes
<1>2. /\ page' = NewPage(d) /\ odds' = [odds EXCEPT !.notes = NewNotes]
      /\ nextId' = nextId /\ orderedState' = orderedState /\ sending' = sending /\ bus' = bus
  BY DEF ResetState, ResetTo
<1>3. /\ NewPage(d) \in PageType /\ NewNotes \in NotesType
      /\ EventsOK(NewPage(d), NewNotes, nextId[d]) /\ CountOK(NewPage(d), NewNotes)
  BY <1>1, ResetIs
<1>4. odds'.notes = NewNotes /\ odds'.unruly = odds.unruly /\ odds' \in OddsType
  BY <1>1, <1>2, <1>3 DEF OddsType
<1>5. page'.target = d
  BY <1>2 DEF NewPage
<1>6. OrderlyBench'
  BY <1>1, <1>2, <1>4, StillOrderly
<1>7. BenchTypes'
  BY <1>1, <1>2, <1>3, <1>4 DEF BenchTypes
<1> QED
  BY <1>2, <1>3, <1>4, <1>5, <1>6, <1>7 DEF BenchInv

-----------------------------------------------------------------------------
LEMMA InitBench == BInit => BenchInv
<1> SUFFICES ASSUME BInit PROVE BenchInv
  OBVIOUS
<1>1. PICK d \in Targets : page = NewPage(d)
  BY DEF BInit
<1>2. /\ orderedState = [c \in Targets |-> NoPayload] /\ sending = <<>>
      /\ bus = [c \in Targets |-> <<>>] /\ nextId = [c \in Targets |-> 1]
      /\ odds = [notes |-> NewNotes, sends |-> 0, upsets |-> 0, unruly |-> FALSE]
  BY DEF BInit
<1>3. /\ NewPage(d) \in PageType /\ NewNotes \in NotesType
      /\ EventsOK(NewPage(d), NewNotes, 1) /\ CountOK(NewPage(d), NewNotes)
  BY ResetIs
<1>4. page.target = d /\ odds.notes = NewNotes /\ odds \in OddsType
  BY <1>1, <1>2, <1>3 DEF NewPage, OddsType
<1>5. NoPayload \in Payload /\ <<>> \in Seq(Payload)
      /\ <<>> \in Seq([dongle : Targets, payload : Payload])
  BY DEF Payload
<1>6. BenchTypes
  BY <1>1, <1>2, <1>3, <1>4, <1>5 DEF BenchTypes
<1>7. NewNotes.seen = NoPayload /\ NewNotes.breaks = 0 /\ NewNotes.restarted = FALSE
  BY DEF NewNotes
<1>8. \A c \in Targets : LastOut(c) = NoPayload
  BY <1>2, <1>4, <1>7 DEF LastOut
<1>9. \A c \in Targets : ChainOK(c)
  BY <1>2, <1>4, <1>8 DEF ChainOK
<1>10. OneSending
  BY <1>2 DEF OneSending
<1>11. OrderlyBench
  BY <1>4, <1>7, <1>9, <1>10 DEF OrderlyBench
<1> QED
  BY <1>1, <1>2, <1>3, <1>4, <1>6, <1>11 DEF BenchInv

LEMMA NextBench == BenchInv /\ BNext => BenchInv'
<1> SUFFICES ASSUME BenchInv, BNext PROVE BenchInv'
  OBVIOUS
<1>1. CASE SendOnce
  BY <1>1, SendKeeps
<1>2. CASE ProcessEvents
  BY <1>2, ProcessKeeps
<1>3. CASE FindNothing
  BY <1>3, NothingKeeps
<1>4. CASE RestartApi
  BY <1>4, RestartBench
<1>5. ASSUME NEW i \in 1..Len(sending), FrameSent(i) PROVE BenchInv'
  BY <1>5, SentKeeps
<1>6. ASSUME NEW i \in 1..Len(sending), FrameLost(i) PROVE BenchInv'
  BY <1>6, LostKeeps
<1>7. ASSUME NEW d \in Targets, FrameReturns(d) PROVE BenchInv'
  BY <1>7, ReturnKeeps
<1>8. ASSUME NEW d \in Targets, ResetState(d) PROVE BenchInv'
  BY <1>8, ResetKeeps
<1> QED
  BY <1>1, <1>2, <1>3, <1>4, <1>5, <1>6, <1>7, <1>8 DEF BNext

\* What the page shows, then, is true.
BenchTrue == BenchmarkTypeOK /\ EventsOnce /\ AlertsAreTrue /\ QuietInOrder

LEMMA BenchInvSays == BenchInv => BenchTrue
<1> SUFFICES ASSUME BenchInv PROVE BenchTrue
  OBVIOUS
<1> DEFINE n == odds.notes
<1>1. /\ BenchTypes /\ page \in PageType /\ n \in NotesType /\ page.ordering \in Payload
      /\ orderedState \in [Targets -> Payload] /\ page.events \in Seq(EventType)
      /\ EventsOK(page, n, nextId[page.target]) /\ CountOK(page, n) /\ OrderlyBench
  BY DEF BenchInv, BenchTypes, OddsType, PageType
<1>2. Len(page.events) <= BufferSize /\ n.handled <= n.serial
  BY <1>1 DEF EventsOK
<1>3. BenchmarkTypeOK
  BY <1>1, <1>2 DEF BenchmarkTypeOK, Payload
<1>4. EventsOnce
  BY <1>1 DEF EventsOnce, CountOK
<1>5. ~n.full /\ ~n.restarted =>
        n.breaks = page.alerts + Cardinality(Mismatches(Waiting(page, n), page.ordering))
  BY <1>1 DEF CountOK
<1>6. page.alerts \in Nat /\ n.breaks \in Nat /\ n.serial \in Nat /\ n.handled \in Nat
  BY <1>1 DEF PageType, NotesType
<1>7. AlertsAreTrue
  <2> SUFFICES ASSUME n.handled = n.serial, ~n.full, ~n.restarted
               PROVE  page.alerts = n.breaks
    BY DEF AlertsAreTrue
  <2>1. Behind(n) = 0
    BY <1>6 DEF Behind
  <2>2. Waiting(page, n) = SubSeq(page.events, Len(page.events) - 0 + 1, Len(page.events))
    BY <2>1 DEF Waiting
  <2>3. Waiting(page, n) = <<>>
    BY <1>1, <2>2
  <2>4. Cardinality(Mismatches(Waiting(page, n), page.ordering)) = 0
    BY <1>1, <2>3, NoMore
  <2> HIDE DEF n
  <2> QED
    BY <1>5, <1>6, <2>4
<1>8. QuietInOrder
  <2> SUFFICES ASSUME ~odds.unruly, ~n.full PROVE page.alerts = 0
    BY DEF QuietInOrder
  <2>1. ~n.restarted /\ n.breaks = 0
    BY <1>1 DEF OrderlyBench
  <2>2. PICK next \in Nat \ {0} : next = nextId[page.target]
    BY <1>1 DEF BenchTypes, PageType
  <2>3. Behind(n) \in 0..Len(page.events)
    BY <1>1, <2>1, <2>2, PlaceIs
  <2>4. Waiting(page, n) \in Seq(EventType)
    BY <1>1, <2>3 DEF Waiting
  <2>5. Cardinality(Mismatches(Waiting(page, n), page.ordering)) \in Nat
    BY <2>4, MismatchesType
  <2> HIDE DEF n
  <2> QED
    BY <1>5, <1>6, <2>1, <2>5
<1> QED
  BY <1>3, <1>4, <1>7, <1>8 DEF BenchTrue

LEMMA StillBench == BenchInv /\ UNCHANGED bVars => BenchInv'
BY DEF bVars, BenchInv, BenchTypes, OrderlyBench, OneSending, ChainOK, LastOut

(***************************************************************************)
(* The effect goes through every event once, the alerts are those for the  *)
(* frames that did not follow on the one before, and frames that are sent  *)
(* one after the other give none (BenchmarkPage.tsx:163-280,               *)
(* routes/benchmark.ts:78-124), for any number of dongles, bytes and values*)
(* of a byte, any size of the list and any number of frames and restarts.  *)
(***************************************************************************)
THEOREM BenchIsTrue == BSpec => []BenchTrue
BY InitBench, NextBench, StillBench, BenchInvSays, PTL DEF BSpec

-----------------------------------------------------------------------------
(*****************************************************************************)
(* The parts put together: a step of one leaves the others as they are.      *)
(*****************************************************************************)
DashInv == ResetsInv /\ RotationInv /\ SessionsInv /\ BenchInv /\ ConsoleInv

LEMMA InitDashInv == Init => DashInv
BY InitResetsInv, InitRotationInv, SessionsInvHolds, InitBench, InitConsoleInv
   DEF Init, DashInv

LEMMA NextDashInv == DashInv /\ [Next]_vars => DashInv'
<1>1. [Next]_vars => /\ [RNext]_rVars /\ [KNext]_kVars /\ [SNext]_sVars /\ [BNext]_bVars
                     /\ [CNext]_cVars
  <2>1. CASE Next
    BY <2>1 DEF Next, SessionsRun, ResetsRun, RotationRuns, BenchmarkRuns, ConsoleRuns
  <2>2. CASE UNCHANGED vars
    BY <2>2 DEF vars
  <2> QED
    BY <2>1, <2>2
<1>2. BenchInv /\ [BNext]_bVars => BenchInv'
  BY NextBench, StillBench
<1> QED
  BY <1>1, <1>2, NextResetsInv, NextRotationInv, SessionsInvHolds, NextConsoleInv DEF DashInv

THEOREM DashInductive == Spec => []DashInv
BY InitDashInv, NextDashInv, PTL DEF Spec

(***************************************************************************)
(* What the pages show and do is true of the session, of the stream and of *)
(* the target (AuthContext.tsx, client.ts, BenchmarkPage.tsx,              *)
(* ConsolePage.tsx), for all values of the constants.                      *)
(***************************************************************************)
THEOREM PagesHold == Spec => []PagesAreTrue
<1>1. DashInv => PagesAreTrue
  BY SessionsInvSays, BenchInvSays, ConsoleInvSays
     DEF DashInv, SessionsTrue, BenchTrue, PagesAreTrue
<1> QED
  BY <1>1, DashInductive, PTL

(***************************************************************************)
(* Beside them, and with the same steps, the tokens of password resets and *)
(* of dongles stay sound (services/password-reset.ts,                      *)
(* jobs/rotate-dongle-keys.ts).                                            *)
(***************************************************************************)
THEOREM TokensHold == Spec => [](ResetsSound /\ RotationSound)
<1>1. DashInv => ResetsSound /\ RotationSound
  BY ResetsInvSound, RotationInvSound DEF DashInv
<1> QED
  BY <1>1, DashInductive, PTL
=============================================================================
