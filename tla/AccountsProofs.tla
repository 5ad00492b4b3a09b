--------------------------- MODULE AccountsProofs ---------------------------
(* Theorems about Accounts, for every number of registrations, requests and *)
(* attempts, and with every call to a store failing at will.                *)
EXTENDS Accounts, TLAPS

(***************************************************************************)
(* The inductive invariant.                                                *)
(***************************************************************************)

\* A job is enqueued for a row.
SavedHasRow == \A r \in Registrations : registering[r] = "saved" => r \in rows

\* An attempt draws a code that was never mailed, stores it, and mails it.
CodesInOrder ==
    \A r \in Registrations :
        /\ job[r] \in {"store", "mail", "done"} => attempts[r] # 0
        /\ \A c \in mailed[r] : c <= attempts[r]
        /\ job[r] = "store" => \A c \in mailed[r] : c < attempts[r]
        /\ job[r] = "mail" => otp[r] \in {0, attempts[r]}

\* What a request presents was mailed, and what it has behind it.
Presented ==
    \A q \in Requests :
        /\ step[q] = "compare" =>
               user[q] \in Registrations /\ code[q] \in mailed[user[q]] \cup {Wrong}
        /\ q \in accepted => user[q] \in Registrations /\ code[q] \in mailed[user[q]]
        /\ q \in accepted \cup tokens => step[q] \notin {"new", "compare"}
        /\ step[q] \in {"delete", "activate"} => q \in accepted
        /\ step[q] = "issue" => user[q] \in active

\* A code that was spent is not stored any more.
SpentIsGone ==
    \A q \in accepted :
        step[q] # "delete" /\ user[q] \notin raced => otp[user[q]] # code[q]

Inv ==
    /\ TypeOK /\ SavedHasRow /\ CodesInOrder /\ MailedCodeIsValid
    /\ Presented /\ AccessWasVerified /\ SpentCodeActivates
    /\ SpentIsGone /\ CodeSpentOnce

(***************************************************************************)
(* Registration.                                                           *)
(***************************************************************************)

(* The two unique columns keep the credentials of all rows apart, however   *)
(* long before the insert they were counted.                                *)
LEMMA RegistrationStep ==
    ASSUME Inv, NEW r \in Registrations, Registration(r)
    PROVE  Inv'
<1>1. TypeOK /\ SavedHasRow
  BY DEF Inv
<1>2. UNCHANGED <<asked, active, attempts, mailed, otp, step, user, code, tokens, accepted, raced>>
  BY DEF Registration, CountUser, SaveUser, Enqueue, mailing, request, history
<1>3. \/ CountUser(r) /\ UNCHANGED <<rows, job, troubled>>
      \/ SaveUser(r) /\ UNCHANGED job
      \/ Enqueue(r) /\ UNCHANGED rows
  BY DEF Registration, CountUser, SaveUser, Enqueue, mailing, history
<1>4. /\ rows' \in {rows, rows \cup {r}}
      /\ \A s \in rows' \ rows : \A t \in rows :
             \A field \in DOMAIN asked[s] : asked[t][field] # asked[s][field]
  BY <1>3 DEF SaveUser
<1>5. /\ registering' \in [Registrations ->
            {"new", "insert", "saved", "done", "conflict", "error"}]
      /\ \A s \in Registrations : registering'[s] = "saved" => s \in rows'
  <2>1. CASE CountUser(r)
    BY <1>1, <1>4, <2>1 DEF CountUser, Registering, TypeOK, SavedHasRow
  <2>2. CASE SaveUser(r)
    BY <1>1, <1>4, <2>2 DEF SaveUser, Registering, TypeOK, SavedHasRow
  <2>3. CASE Enqueue(r)
    BY <1>1, <1>4, <2>3 DEF Enqueue, Registering, TypeOK, SavedHasRow
  <2>4. QED
    BY <1>3, <2>1, <2>2, <2>3
<1>6. job' = job \/ (r \in rows /\ job' = [job EXCEPT ![r] = "queued"])
  BY <1>1, <1>3 DEF Enqueue, Registering, SavedHasRow
<1>7. troubled' \subseteq Registrations
  BY <1>1, <1>3 DEF SaveUser, Enqueue, TypeOK
<1>8. TypeOK'
  <2>1. \A s, t \in rows' : s # t =>
           \A field \in DOMAIN asked[s] : asked[s][field] # asked[t][field]
    <3>1. \A s \in rows' : DOMAIN asked[s] = {"username", "email"}
      BY <1>1, <1>4, CredentialsAssumption DEF TypeOK
    <3>2. QED
      BY <1>1, <1>4, <3>1 DEF TypeOK
  <2>2. /\ job' \in [Registrations -> {"none", "queued", "store", "mail", "done", "lost"}]
        /\ \A s \in Registrations : job'[s] # "none" => s \in rows'
    BY <1>1, <1>4, <1>6 DEF TypeOK
  <2>3. QED
    BY <1>1, <1>2, <1>4, <1>5, <1>7, <2>1, <2>2 DEF TypeOK
<1>9. SavedHasRow'
  BY <1>5 DEF SavedHasRow
<1>10. CodesInOrder' /\ MailedCodeIsValid'
  BY <1>1, <1>2, <1>6 DEF Inv, CodesInOrder, MailedCodeIsValid, TypeOK
<1>11. /\ Presented' /\ AccessWasVerified' /\ SpentCodeActivates'
       /\ SpentIsGone' /\ CodeSpentOnce'
  BY <1>2 DEF Inv, Presented, AccessWasVerified, SpentCodeActivates, SpentIsGone, CodeSpentOnce
<1>12. QED
  BY <1>8, <1>9, <1>10, <1>11 DEF Inv

(***************************************************************************)
(* The job that makes and mails a code, and the life of the code.          *)
(***************************************************************************)

(* Only the job of r and what it writes change.                             *)
LEMMA AttemptFrame ==
    ASSUME Inv, NEW r \in Registrations,
           Attempt(r) \/ Lose(r) \/ ExpireCode(r)
    PROVE  /\ UNCHANGED <<asked, registering, rows, active, step, user, code,
                          tokens, accepted, raced>>
           /\ troubled' \subseteq Registrations
           /\ \A s \in Registrations \ {r} :
                  /\ job'[s] = job[s] /\ attempts'[s] = attempts[s]
                  /\ otp'[s] = otp[s] /\ mailed'[s] = mailed[s]
BY DEF Inv, TypeOK, Attempt, Take, Store, SendMailTrapOTP, Lose, ExpireCode, Working,
       account, mailing, request, history

(* What each of these steps does to the job of r.                           *)
LEMMA AttemptTypes ==
    ASSUME Inv, NEW r \in Registrations,
           Attempt(r) \/ Lose(r) \/ ExpireCode(r)
    PROVE  /\ job' \in [Registrations -> {"none", "queued", "store", "mail", "done", "lost"}]
           /\ job'[r] # "none" => job[r] # "none"
           /\ attempts' \in [Registrations -> 0..MaxAttempts]
           /\ otp' \in [Registrations -> 0..MaxAttempts]
           /\ mailed' \in [Registrations -> SUBSET Codes]
           /\ mailed[r] \subseteq mailed'[r]
<1>1. TypeOK /\ CodesInOrder /\ MaxAttempts \in Nat \ {0}
  BY BoundAssumption DEF Inv
<1>2. CASE Take(r)
  BY <1>1, <1>2 DEF Take, Working, TypeOK
<1>3. CASE Store(r)
  BY <1>1, <1>3 DEF Store, Working, TypeOK
<1>4. CASE SendMailTrapOTP(r)
  <2>1. attempts[r] \in Codes
    BY <1>1, <1>4 DEF SendMailTrapOTP, Working, TypeOK, CodesInOrder, Codes
  <2>2. QED
    BY <1>1, <1>4, <2>1 DEF SendMailTrapOTP, Working, TypeOK
<1>5. CASE Lose(r)
  BY <1>1, <1>5 DEF Lose, TypeOK
<1>6. CASE ExpireCode(r)
  BY <1>1, <1>6 DEF ExpireCode, mailing, TypeOK
<1>7. QED
  BY <1>2, <1>3, <1>4, <1>5, <1>6 DEF Attempt

(* Codes are numbered by the attempts that drew them, so a code that is     *)
(* stored is later than any that was mailed, and equal to none that was     *)
(* spent.                                                                   *)
LEMMA AttemptOrder ==
    ASSUME Inv, NEW r \in Registrations,
           Attempt(r) \/ Lose(r) \/ ExpireCode(r)
    PROVE  /\ job'[r] \in {"store", "mail", "done"} => attempts'[r] # 0
           /\ \A c \in mailed'[r] : c <= attempts'[r]
           /\ job'[r] = "store" => \A c \in mailed'[r] : c < attempts'[r]
           /\ job'[r] = "mail" => otp'[r] \in {0, attempts'[r]}
           /\ job'[r] = "done" => otp'[r] \in {0, attempts'[r]} /\ attempts'[r] \in mailed'[r]
           /\ otp'[r] # 0 => \A c \in mailed'[r] : c <= otp'[r]
           /\ otp'[r] \notin {0, otp[r]} => \A c \in mailed[r] : c < otp'[r]
<1>1. TypeOK /\ CodesInOrder /\ MailedCodeIsValid /\ MaxAttempts \in Nat \ {0}
  BY BoundAssumption DEF Inv
<1>2. /\ attempts[r] \in 0..MaxAttempts /\ otp[r] \in 0..MaxAttempts
      /\ mailed[r] \subseteq Codes
      /\ job[r] \in {"store", "mail", "done"} => attempts[r] # 0
      /\ \A c \in mailed[r] : c <= attempts[r]
      /\ job[r] = "store" => \A c \in mailed[r] : c < attempts[r]
      /\ job[r] = "mail" => otp[r] \in {0, attempts[r]}
      /\ job[r] = "done" => otp[r] \in {0, attempts[r]} /\ attempts[r] \in mailed[r]
      /\ otp[r] # 0 => \A c \in mailed[r] : c <= otp[r]
  BY <1>1 DEF TypeOK, CodesInOrder, MailedCodeIsValid
<1>3. CASE Take(r)
  <2>1. /\ job'[r] = "store" /\ attempts'[r] = attempts[r] + 1
        /\ otp' = otp /\ mailed' = mailed
    BY <1>1, <1>3 DEF Take, Working, TypeOK
  <2>2. QED
    BY <1>1, <1>2, <2>1 DEF Codes
<1>4. CASE Store(r)
  <2>1. /\ job[r] = "store" /\ attempts' = attempts /\ mailed' = mailed
        /\ \/ job'[r] = "mail" /\ otp'[r] = attempts[r]
           \/ job'[r] = "queued" /\ otp'[r] \in {otp[r], attempts[r]}
    BY <1>1, <1>4 DEF Store, Working, TypeOK
  <2>2. QED
    BY <1>1, <1>2, <2>1 DEF Codes
<1>5. CASE SendMailTrapOTP(r)
  <2>1. /\ job[r] = "mail" /\ attempts' = attempts /\ otp' = otp
        /\ \/ job'[r] = "done" /\ mailed'[r] = mailed[r] \cup {attempts[r]}
           \/ job'[r] = "queued" /\ mailed'[r] \in {mailed[r], mailed[r] \cup {attempts[r]}}
    BY <1>1, <1>5 DEF SendMailTrapOTP, Working, TypeOK
  <2>2. QED
    BY <1>1, <1>2, <2>1 DEF Codes
<1>6. CASE Lose(r)
  <2>1. job'[r] = "lost" /\ UNCHANGED <<attempts, otp, mailed>>
    BY <1>1, <1>6 DEF Lose, TypeOK
  <2>2. QED
    BY <1>1, <1>2, <2>1
<1>7. CASE ExpireCode(r)
  <2>1. otp'[r] = 0 /\ UNCHANGED <<job, attempts, mailed>>
    BY <1>1, <1>7 DEF ExpireCode, TypeOK, mailing
  <2>2. QED
    BY <1>1, <1>2, <2>1
<1>8. QED
  BY <1>3, <1>4, <1>5, <1>6, <1>7 DEF Attempt

(* An attempt, whole or failed, the loss of the job and the expiry of the   *)
(* code leave every account and every request as they were.                 *)
LEMMA AttemptStep ==
    ASSUME Inv, NEW r \in Registrations,
           Attempt(r) \/ Lose(r) \/ ExpireCode(r)
    PROVE  Inv'
<1>1. TypeOK /\ SavedHasRow /\ CodesInOrder /\ MailedCodeIsValid /\ Presented /\ SpentIsGone
  BY DEF Inv
<1>2. \A s \in Registrations \ {r} :
          /\ job'[s] = job[s] /\ attempts'[s] = attempts[s]
          /\ otp'[s] = otp[s] /\ mailed'[s] = mailed[s]
  BY AttemptFrame
<1>3. UNCHANGED <<asked, registering, rows, active, step, user, code, tokens, accepted, raced>>
  BY AttemptFrame
<1>4. \A s \in Registrations : mailed[s] \subseteq mailed'[s]
  BY <1>2, AttemptTypes
<1>5. TypeOK'
  <2>1. \A s \in Registrations : job'[s] # "none" => s \in rows
    BY <1>1, <1>2, AttemptTypes DEF TypeOK
  <2>2. QED
    BY <1>1, <1>3, <2>1, AttemptFrame, AttemptTypes DEF TypeOK
<1>6. CodesInOrder' /\ MailedCodeIsValid'
  BY <1>1, <1>2, AttemptOrder DEF CodesInOrder, MailedCodeIsValid
<1>7. Presented' /\ AccessWasVerified'
  BY <1>1, <1>3, <1>4 DEF Inv, Presented, AccessWasVerified, TypeOK
<1>8. SpentIsGone'
  <2>1. SUFFICES ASSUME NEW q \in accepted, step[q] # "delete", user[q] \notin raced
                 PROVE  otp'[user[q]] # code[q]
    BY <1>3 DEF SpentIsGone
  <2>2. user[q] \in Registrations /\ code[q] \in mailed[user[q]] /\ otp[user[q]] # code[q]
    BY <1>1, <2>1 DEF Presented, SpentIsGone, TypeOK
  <2>3. code[q] \in 1..MaxAttempts
    BY <1>1, <2>2 DEF TypeOK, Codes
  <2>4. CASE user[q] = r
    BY <2>2, <2>3, <2>4, AttemptOrder, BoundAssumption
  <2>5. QED
    BY <1>2, <2>2, <2>4
<1>9. SavedHasRow' /\ SpentCodeActivates' /\ CodeSpentOnce'
  BY <1>3 DEF Inv, SavedHasRow, SpentCodeActivates, CodeSpentOnce
<1>10. QED
  BY <1>5, <1>6, <1>7, <1>8, <1>9 DEF Inv

(***************************************************************************)
(* The requests.                                                           *)
(***************************************************************************)

Steps == {"new", "compare", "delete", "activate", "issue", "answered", "refused", "error"}

(* A step of a handler leaves registrations and jobs alone.                 *)
LEMMA RequestFrame ==
    ASSUME Inv, UNCHANGED <<account, mailing, troubled>>,
           step' \in [Requests -> Steps],
           user' \in [Requests -> Registrations \cup {NoOne}],
           code' \in [Requests -> 0..MaxAttempts],
           tokens' \cup accepted' \subseteq Requests, raced' \subseteq Registrations,
           active \subseteq active', active' \subseteq rows,
           otp' = otp \/ \E r \in Registrations : otp' = [otp EXCEPT ![r] = 0],
           Presented', AccessWasVerified', SpentCodeActivates', SpentIsGone', CodeSpentOnce'
    PROVE  Inv'
<1>1. TypeOK /\ SavedHasRow /\ CodesInOrder /\ MailedCodeIsValid /\ MaxAttempts \in Nat \ {0}
  BY BoundAssumption DEF Inv
<1>2. UNCHANGED <<asked, registering, rows, job, attempts, mailed, troubled>>
  BY DEF account, mailing
<1>3. /\ otp' \in [Registrations -> 0..MaxAttempts]
      /\ \A r \in Registrations : otp'[r] \in {0, otp[r]}
  BY <1>1 DEF TypeOK
<1>4. TypeOK'
  BY <1>1, <1>2, <1>3 DEF TypeOK, Steps
<1>5. SavedHasRow' /\ CodesInOrder' /\ MailedCodeIsValid'
  BY <1>1, <1>2, <1>3 DEF SavedHasRow, CodesInOrder, MailedCodeIsValid
<1>6. QED
  BY <1>4, <1>5 DEF Inv

(* A request for a new verification or login.                               *)
LEMMA ArrivalStep ==
    ASSUME Inv, NEW q \in Requests, NEW r \in Registrations,
           Login(q, r) \/ \E c \in Codes \cup {Wrong} : Verify(q, r, c)
    PROVE  Inv'
<1>1. /\ TypeOK /\ Presented /\ AccessWasVerified /\ SpentCodeActivates
      /\ SpentIsGone /\ CodeSpentOnce /\ MaxAttempts \in Nat \ {0}
  BY BoundAssumption DEF Inv
<1>2. /\ UNCHANGED <<account, mailing, troubled, active, otp, tokens, accepted, raced>>
      /\ step[q] = "new"
      /\ user' = [user EXCEPT ![q] = r]
      /\ \/ step' = [step EXCEPT ![q] = "issue"] /\ r \in active /\ code' = code
         \/ step' = [step EXCEPT ![q] = "refused"] /\ code' = code
         \/ /\ step' = [step EXCEPT ![q] = "compare"]
            /\ \E c \in mailed[r] \cup {Wrong} : code' = [code EXCEPT ![q] = c]
  BY DEF Login, Verify, Handling, history
<1>3. q \notin accepted \cup tokens
  BY <1>1, <1>2 DEF Presented
<1>4. /\ step' \in [Requests -> Steps] /\ user' \in [Requests -> Registrations \cup {NoOne}]
      /\ code' \in [Requests -> 0..MaxAttempts]
  <2>1. mailed[r] \cup {Wrong} \subseteq 0..MaxAttempts
    BY <1>1 DEF TypeOK, Codes, Wrong
  <2>2. QED
    BY <1>1, <1>2, <2>1 DEF TypeOK, Steps
<1>5. \A p \in Requests \ {q} : step'[p] = step[p] /\ user'[p] = user[p] /\ code'[p] = code[p]
  BY <1>1, <1>2 DEF TypeOK
<1>6. Presented'
  <2>1. /\ step'[q] = "compare" => user'[q] \in Registrations /\ code'[q] \in mailed[user'[q]] \cup {Wrong}
        /\ step'[q] \notin {"delete", "activate"}
        /\ step'[q] = "issue" => user'[q] \in active
    BY <1>1, <1>2 DEF TypeOK
  <2>2. mailed' = mailed
    BY <1>2 DEF mailing
  <2>3. QED
    BY <1>1, <1>2, <1>3, <1>5, <2>1, <2>2 DEF Presented
<1>7. AccessWasVerified' /\ SpentCodeActivates' /\ SpentIsGone' /\ CodeSpentOnce'
  <2>1. mailed' = mailed
    BY <1>2 DEF mailing
  <2>2. \A p \in accepted \cup tokens : step'[p] = step[p] /\ user'[p] = user[p] /\ code'[p] = code[p]
    BY <1>1, <1>3, <1>5 DEF TypeOK
  <2>3. QED
    BY <1>1, <1>2, <2>1, <2>2
       DEF AccessWasVerified, SpentCodeActivates, SpentIsGone, CodeSpentOnce
<1>8. QED
  BY <1>1, <1>2, <1>4, <1>6, <1>7, RequestFrame DEF TypeOK

(* A code that is right: it was mailed, and nobody else has it unless the   *)
(* requests overlapped.                                                     *)
LEMMA CompareStep ==
    ASSUME Inv, NEW q \in Requests, Compare(q)
    PROVE  Inv'
<1>1. /\ TypeOK /\ Presented /\ AccessWasVerified /\ SpentCodeActivates
      /\ SpentIsGone /\ CodeSpentOnce
  BY DEF Inv
<1>2. /\ UNCHANGED <<account, mailing, troubled, active, otp, tokens, user, code>>
      /\ step[q] = "compare"
      /\ \/ /\ step' = [step EXCEPT ![q] = "delete"]
            /\ otp[user[q]] # 0 /\ otp[user[q]] = code[q]
            /\ accepted' = accepted \cup {q}
            /\ raced' = IF Deleting(user[q]) # {} THEN raced \cup {user[q]} ELSE raced
         \/ /\ step' \in {[step EXCEPT ![q] = "refused"], [step EXCEPT ![q] = "error"]}
            /\ UNCHANGED <<accepted, raced>>
  BY DEF Compare, Handling, request
<1>3. /\ user[q] \in Registrations /\ code[q] \in mailed[user[q]] \cup {Wrong}
      /\ q \notin accepted \cup tokens
  BY <1>1, <1>2 DEF Presented
<1>4. mailed' = mailed
  BY <1>2 DEF mailing
<1>5. /\ step' \in [Requests -> Steps]
      /\ \A p \in Requests \ {q} : step'[p] = step[p]
      /\ step'[q] \in {"delete", "refused", "error"}
      /\ step'[q] = "delete" => code[q] \in mailed[user[q]] /\ q \in accepted'
      /\ raced \subseteq raced' /\ raced' \subseteq Registrations
      /\ accepted \subseteq accepted' /\ accepted' \subseteq accepted \cup {q}
      /\ q \in accepted' => step'[q] = "delete"
  BY <1>1, <1>2, <1>3 DEF TypeOK, Steps, Wrong
<1>6. Presented'
  BY <1>1, <1>2, <1>3, <1>4, <1>5 DEF Presented
<1>7. AccessWasVerified'
  BY <1>1, <1>2, <1>4, <1>5 DEF AccessWasVerified
<1>8. SpentCodeActivates' /\ SpentIsGone'
  BY <1>1, <1>2, <1>5 DEF SpentCodeActivates, SpentIsGone, TypeOK
<1>9. CodeSpentOnce'
  <2>1. SUFFICES ASSUME NEW p \in accepted, q \in accepted',
                        user[p] = user[q], code[p] = code[q]
                 PROVE  user[q] \in raced'
    BY <1>1, <1>2, <1>5 DEF CodeSpentOnce
  <2>2. /\ otp[user[q]] = code[q]
        /\ raced' = IF Deleting(user[q]) # {} THEN raced \cup {user[q]} ELSE raced
    BY <1>2, <1>3, <2>1
  <2>3. CASE step[p] = "delete"
    BY <1>1, <2>1, <2>2, <2>3 DEF Deleting, TypeOK
  <2>4. CASE step[p] # "delete"
    BY <1>1, <1>5, <2>1, <2>2, <2>4 DEF SpentIsGone
  <2>5. QED
    BY <2>3, <2>4
<1>10. QED
  BY <1>1, <1>2, <1>5, <1>6, <1>7, <1>8, <1>9, RequestFrame DEF TypeOK

(* The code is deleted, or its account counts as raced: either way a code   *)
(* that was accepted cannot be accepted a second time by a request alone.   *)
LEMMA DeleteStep ==
    ASSUME Inv, NEW q \in Requests, Delete(q)
    PROVE  Inv'
<1>1. /\ TypeOK /\ Presented /\ AccessWasVerified /\ SpentCodeActivates
      /\ SpentIsGone /\ CodeSpentOnce /\ MaxAttempts \in Nat \ {0}
  BY BoundAssumption DEF Inv
<1>2. /\ UNCHANGED <<account, mailing, troubled, active, tokens, user, code, accepted>>
      /\ step[q] = "delete" /\ step' = [step EXCEPT ![q] = "activate"]
      /\ \/ otp' = [otp EXCEPT ![user[q]] = 0] /\ raced' = raced
         \/ otp' = otp /\ raced' = raced \cup {user[q]}
  BY DEF Delete, Handling, request
<1>3. q \in accepted /\ user[q] \in Registrations /\ code[q] \in mailed[user[q]]
  BY <1>1, <1>2 DEF Presented
<1>4. mailed' = mailed
  BY <1>2 DEF mailing
<1>5. /\ step' \in [Requests -> Steps] /\ step'[q] = "activate"
      /\ \A p \in Requests \ {q} : step'[p] = step[p]
      /\ raced \subseteq raced' /\ raced' \subseteq Registrations
  BY <1>1, <1>2, <1>3 DEF TypeOK, Steps
<1>6. Presented'
  BY <1>1, <1>2, <1>3, <1>4, <1>5 DEF Presented
<1>7. AccessWasVerified' /\ SpentCodeActivates'
  BY <1>1, <1>2, <1>4, <1>5 DEF AccessWasVerified, SpentCodeActivates, TypeOK
<1>8. CodeSpentOnce'
  BY <1>1, <1>2, <1>5 DEF CodeSpentOnce
<1>9. SpentIsGone'
  <2>1. SUFFICES ASSUME NEW p \in accepted, step'[p] # "delete", user[p] \notin raced'
                 PROVE  otp'[user[p]] # code[p]
    BY <1>2 DEF SpentIsGone
  <2>2. user[p] \in Registrations /\ code[p] \in 1..MaxAttempts
    BY <1>1, <2>1 DEF Presented, TypeOK, Codes
  <2>3. CASE user[p] = user[q]
    BY <1>1, <1>2, <2>1, <2>2, <2>3 DEF TypeOK
  <2>4. CASE user[p] # user[q]
    <3>1. otp'[user[p]] = otp[user[p]] /\ step[p] # "delete"
      BY <1>1, <1>2, <1>5, <2>1, <2>2, <2>4 DEF TypeOK
    <3>2. QED
      BY <1>1, <1>5, <2>1, <3>1 DEF SpentIsGone
  <2>5. QED
    BY <2>3, <2>4
<1>10. QED
  BY <1>1, <1>2, <1>3, <1>5, <1>6, <1>7, <1>8, <1>9, RequestFrame DEF TypeOK

(* Only a request whose code was right activates an account.                *)
LEMMA VerifyUserStep ==
    ASSUME Inv, NEW q \in Requests, VerifyUser(q)
    PROVE  Inv'
<1>1. /\ TypeOK /\ Presented /\ AccessWasVerified /\ SpentCodeActivates
      /\ SpentIsGone /\ CodeSpentOnce
  BY DEF Inv
<1>2. /\ UNCHANGED <<account, mailing, troubled, otp, tokens, user, code, accepted, raced>>
      /\ step[q] = "activate"
      /\ \/ /\ step' = [step EXCEPT ![q] = "issue"]
            /\ user[q] \in rows /\ active' = active \cup {user[q]}
         \/ /\ step' = [step EXCEPT ![q] = "error"]
            /\ active' \in {active, active \cup ({user[q]} \cap rows)}
  BY DEF VerifyUser, Handling, request, history
<1>3. q \in accepted /\ code[q] \in mailed[user[q]]
  BY <1>1, <1>2 DEF Presented
<1>4. mailed' = mailed
  BY <1>2 DEF mailing
<1>5. /\ step' \in [Requests -> Steps] /\ step'[q] \in {"issue", "error"}
      /\ \A p \in Requests \ {q} : step'[p] = step[p]
      /\ active \subseteq active' /\ active' \subseteq active \cup {user[q]}
      /\ active' \subseteq rows
      /\ step'[q] = "issue" => user[q] \in active'
  BY <1>1, <1>2 DEF TypeOK, Steps
<1>6. Presented'
  BY <1>1, <1>2, <1>3, <1>4, <1>5 DEF Presented
<1>7. AccessWasVerified'
  BY <1>1, <1>2, <1>3, <1>4, <1>5 DEF AccessWasVerified
<1>8. SpentCodeActivates' /\ SpentIsGone' /\ CodeSpentOnce'
  BY <1>1, <1>2, <1>5 DEF SpentCodeActivates, SpentIsGone, CodeSpentOnce, TypeOK
<1>9. QED
  BY <1>1, <1>2, <1>5, <1>6, <1>7, <1>8, RequestFrame DEF TypeOK

(* Tokens are issued from the row that was read: the account was active     *)
(* then, and nothing deactivates it.                                        *)
LEMMA IssueStep ==
    ASSUME Inv, NEW q \in Requests, IssueNewTokens(q)
    PROVE  Inv'
<1>1. /\ TypeOK /\ Presented /\ AccessWasVerified /\ SpentCodeActivates
      /\ SpentIsGone /\ CodeSpentOnce
  BY DEF Inv
<1>2. /\ UNCHANGED <<account, mailing, troubled, active, otp, user, code, accepted, raced>>
      /\ step[q] = "issue" /\ user[q] \in active
      /\ \/ step' = [step EXCEPT ![q] = "answered"] /\ tokens' = tokens \cup {q}
         \/ step' = [step EXCEPT ![q] = "error"] /\ tokens' = tokens
  BY <1>1 DEF IssueNewTokens, Handling, request, history, Presented
<1>3. mailed' = mailed
  BY <1>2 DEF mailing
<1>4. /\ step' \in [Requests -> Steps] /\ step'[q] \in {"answered", "error"}
      /\ \A p \in Requests \ {q} : step'[p] = step[p]
      /\ tokens \subseteq tokens' /\ tokens' \subseteq tokens \cup {q}
  BY <1>1, <1>2 DEF TypeOK, Steps
<1>5. Presented' /\ AccessWasVerified'
  BY <1>1, <1>2, <1>3, <1>4 DEF Presented, AccessWasVerified
<1>6. SpentCodeActivates' /\ SpentIsGone' /\ CodeSpentOnce'
  BY <1>1, <1>2, <1>4 DEF SpentCodeActivates, SpentIsGone, CodeSpentOnce, TypeOK
<1>7. QED
  BY <1>1, <1>2, <1>4, <1>5, <1>6, RequestFrame DEF TypeOK

(***************************************************************************)
(* The specification.                                                      *)
(***************************************************************************)

(* At the start nobody is registered and no code exists.                    *)
LEMMA InitInv == Init => Inv
<1>1. SUFFICES ASSUME Init PROVE Inv
  OBVIOUS
<1>2. TypeOK
  BY <1>1, BoundAssumption DEF Init, TypeOK, Wrong
<1>3. SavedHasRow /\ CodesInOrder /\ MailedCodeIsValid
  BY <1>1 DEF Init, SavedHasRow, CodesInOrder, MailedCodeIsValid
<1>4. Presented /\ AccessWasVerified /\ SpentCodeActivates /\ SpentIsGone /\ CodeSpentOnce
  BY <1>1 DEF Init, Presented, AccessWasVerified, SpentCodeActivates, SpentIsGone, CodeSpentOnce
<1>5. QED
  BY <1>2, <1>3, <1>4 DEF Inv

(* Every step of a registration, a job or a request keeps the invariant.    *)
LEMMA NextInv == Inv /\ [Next]_vars => Inv'
<1>1. SUFFICES ASSUME Inv, [Next]_vars PROVE Inv'
  OBVIOUS
<1>2. ASSUME NEW r \in Registrations, Registration(r) PROVE Inv'
  BY <1>1, <1>2, RegistrationStep
<1>3. ASSUME NEW r \in Registrations, Attempt(r) \/ Lose(r) \/ ExpireCode(r) PROVE Inv'
  BY <1>1, <1>3, AttemptStep
<1>4. ASSUME NEW q \in Requests, Handler(q) PROVE Inv'
  BY <1>1, <1>4, CompareStep, DeleteStep, VerifyUserStep, IssueStep DEF Handler
<1>5. ASSUME NEW q \in Requests, NEW r \in Registrations,
             Login(q, r) \/ \E c \in Codes \cup {Wrong} : Verify(q, r, c)
      PROVE  Inv'
  BY <1>1, <1>5, ArrivalStep
<1>6. CASE UNCHANGED vars
  BY <1>1, <1>6
     DEF vars, account, mailing, request, history, Inv, TypeOK, SavedHasRow, CodesInOrder,
         MailedCodeIsValid, Presented, AccessWasVerified, SpentCodeActivates, SpentIsGone,
         CodeSpentOnce
<1>7. QED
  BY <1>1, <1>2, <1>3, <1>4, <1>5, <1>6 DEF Next

(* The invariant holds in every state of the specification.                 *)
LEMMA InvAlways == Spec => []Inv
BY InitInv, NextInv, PTL DEF Spec

(* No username and no e-mail ever has two accounts, whatever registrations  *)
(* overlap and whatever replies are lost, and a job exists only for a row   *)
(* (user-service.go:38-61): the type invariant.                             *)
THEOREM TypeCorrect == Spec => []TypeOK
<1>1. Inv => TypeOK
  BY DEF Inv
<1>2. QED
  BY <1>1, InvAlways, PTL

(* However often the job is attempted and wherever an attempt fails, no     *)
(* older code replaces a newer one, and a job that is done mailed the code  *)
(* that is stored (create-otp.go:27-36).                                    *)
THEOREM NoOlderCodeIsStored == Spec => []MailedCodeIsValid
<1>1. Inv => MailedCodeIsValid
  BY DEF Inv
<1>2. QED
  BY <1>1, InvAlways, PTL

(* Nobody is let in whose account was not activated with a code mailed to   *)
(* it, by VerifyRegister or by Login (user-service.go:83-99, 135-147).      *)
THEOREM NoAccessUnverified == Spec => []AccessWasVerified
<1>1. Inv => AccessWasVerified
  BY DEF Inv
<1>2. QED
  BY <1>1, InvAlways, PTL

(* The same code is accepted twice only by requests that overlapped or      *)
(* after Redis failed to delete it (user-service.go:78-89).                 *)
THEOREM NoCodeSpentTwice == Spec => []CodeSpentOnce
<1>1. Inv => CodeSpentOnce
  BY DEF Inv
<1>2. QED
  BY <1>1, InvAlways, PTL

(* A request whose code was right activates its account, unless it ended    *)
(* with an error (user-service.go:87-94).                                   *)
THEOREM NoCodeSpentInVain == Spec => []SpentCodeActivates
<1>1. Inv => SpentCodeActivates
  BY DEF Inv
<1>2. QED
  BY <1>1, InvAlways, PTL

=============================================================================
