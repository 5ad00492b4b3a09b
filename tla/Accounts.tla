------------------------------ MODULE Accounts ------------------------------
(***************************************************************************)
(* Accounts: Register, the job that makes a one-time code and mails it,    *)
(* VerifyRegister and Login, over PostgreSQL (the rows), Redis (the codes) *)
(* and a mail server.                                                      *)
(*                                                                         *)
(* Every call to a store is a step of its own and may fail, applied or     *)
(* not, also because the request's context ended.  The job goes through    *)
(* the queue of WorkerPool and DeadLetter, of which only this is kept: it  *)
(* is attempted, attempted again after a failure, and may be lost.  A code *)
(* is the number of the attempt that generated it: two attempts draw       *)
(* different codes.  Whoever verifies presents a code that was mailed, or  *)
(* a wrong one.                                                            *)
(* An account has the identity of the request that registers it.           *)
(***************************************************************************)
EXTENDS Integers

CONSTANTS
    Registrations,    \* requests to Register
    Credentials,      \* [username, email] they may ask for
    Requests,         \* requests to VerifyRegister or Login
    MaxAttempts,      \* bound on the attempts of a job, replays included
    NoOne             \* no user yet

ASSUME CredentialsAssumption == \A c \in Credentials : DOMAIN c = {"username", "email"}
ASSUME BoundAssumption == MaxAttempts \in Nat \ {0}
ASSUME NoOneAssumption == NoOne \notin Registrations

VARIABLES
    asked,            \* credentials of a registration
    registering,      \* where its handler is
    rows, active,     \* accounts in the table, and those with is_active
    job,              \* where the job of an account is
    attempts,         \* attempts begun
    otp,              \* code under otp:<user>; 0 when there is none
    mailed,           \* codes that reached the mailbox
    step,             \* where the handler of a request is
    user, code,       \* whom it is for, the code it presents
    tokens,           \* requests that were issued tokens
    accepted,         \* history: requests whose code was right
    raced,            \* history: accounts for which two requests overlapped
                      \* or the code could not be deleted
    troubled          \* history: accounts whose row's reply was lost, or whose
                      \* job was not enqueued or was lost

account  == <<asked, registering, rows>>
mailing  == <<job, attempts, mailed>>
request  == <<user, code>>
history  == <<accepted, raced, troubled>>
vars == <<account, active, mailing, otp, step, request, tokens, history>>

Codes == 1..MaxAttempts
Wrong == 0

Init ==
    /\ asked \in [Registrations -> Credentials]
    /\ registering = [r \in Registrations |-> "new"]
    /\ rows = {} /\ active = {}
    /\ job = [r \in Registrations |-> "none"]
    /\ attempts = [r \in Registrations |-> 0]
    /\ otp = [r \in Registrations |-> 0]
    /\ mailed = [r \in Registrations |-> {}]
    /\ step = [q \in Requests |-> "new"]
    /\ user = [q \in Requests |-> NoOne] /\ code = [q \in Requests |-> Wrong]
    /\ tokens = {}
    /\ accepted = {} /\ raced = {} /\ troubled = {}

-----------------------------------------------------------------------------
(* Register and its handler.                                                *)

Registering(r, from, to) ==
    registering[r] = from /\ registering' = [registering EXCEPT ![r] = to]

\* CountUser: rows that have the e-mail and also the username.
CountUser(r) ==
    /\ \/ /\ \E s \in rows : asked[s] = asked[r]
          /\ Registering(r, "new", "conflict")
       \/ /\ ~\E s \in rows : asked[s] = asked[r]
          /\ Registering(r, "new", "insert")
       \/ Registering(r, "new", "error")
    /\ UNCHANGED <<asked, rows, active, mailing, otp, step, request, tokens, history>>

\* Mutant: there is no unique index.
SaveUserUnindexed(r) ==
    /\ \/ rows' = rows \cup {r} /\ Registering(r, "insert", "saved")
       \/ rows' = rows /\ Registering(r, "insert", "error")
    /\ UNCHANGED <<asked, active, mailing, otp, step, request, tokens, history>>

\* SaveUser: each of the two columns has a unique index.  A row whose reply
\* is lost is there, and its registration has failed.
SaveUser(r) ==
    /\ \/ /\ ~\E s \in rows : \E field \in DOMAIN asked[r] : asked[s][field] = asked[r][field]
          /\ rows' = rows \cup {r}
          /\ \/ Registering(r, "insert", "saved") /\ UNCHANGED troubled
             \/ Registering(r, "insert", "error") /\ troubled' = troubled \cup {r}
       \/ Registering(r, "insert", "error") /\ UNCHANGED <<rows, troubled>>
    /\ UNCHANGED <<asked, active, mailing, otp, step, request, tokens, accepted, raced>>

\* The goroutine of CreateUser, after the answer; its error is only logged.
Enqueue(r) ==
    /\ Registering(r, "saved", "done")
    /\ \/ job' = [job EXCEPT ![r] = "queued"] /\ UNCHANGED troubled
       \/ troubled' = troubled \cup {r} /\ UNCHANGED job
    /\ UNCHANGED <<asked, rows, active, attempts, mailed, otp, step, request, tokens,
                   accepted, raced>>

-----------------------------------------------------------------------------
(* HandlerCreateUserOTP, run by the worker pool.                            *)

Working(r, from, to) == job[r] = from /\ job' = [job EXCEPT ![r] = to]

Take(r) ==
    /\ attempts[r] < MaxAttempts
    /\ Working(r, "queued", "store")
    /\ attempts' = [attempts EXCEPT ![r] = @ + 1]
    /\ UNCHANGED <<account, active, mailed, otp, step, request, tokens, history>>

\* Mutant: the error of Set is ignored.
StoreIgnoring(r) ==
    /\ Working(r, "store", "mail")
    /\ otp' \in {otp, [otp EXCEPT ![r] = attempts[r]]}
    /\ UNCHANGED <<account, active, attempts, mailed, step, request, tokens, history>>

Store(r) ==
    /\ \/ /\ Working(r, "store", "mail")
          /\ otp' = [otp EXCEPT ![r] = attempts[r]]
       \/ /\ Working(r, "store", "queued")
          /\ otp' \in {otp, [otp EXCEPT ![r] = attempts[r]]}
    /\ UNCHANGED <<account, active, attempts, mailed, step, request, tokens, history>>

\* Mutant: a job whose mail failed counts as done.
SendMailTrapOTPOnce(r) ==
    /\ Working(r, "mail", "done")
    /\ mailed' \in {mailed, [mailed EXCEPT ![r] = @ \cup {attempts[r]}]}
    /\ UNCHANGED <<account, active, attempts, otp, step, request, tokens, history>>

\* The server may have taken a mail that fails.
SendMailTrapOTP(r) ==
    /\ \/ /\ Working(r, "mail", "done")
          /\ mailed' = [mailed EXCEPT ![r] = @ \cup {attempts[r]}]
       \/ /\ Working(r, "mail", "queued")
          /\ mailed' \in {mailed, [mailed EXCEPT ![r] = @ \cup {attempts[r]}]}
    /\ UNCHANGED <<account, active, attempts, otp, step, request, tokens, history>>

\* It expires, its retries are used up, or the process dies with it.
Lose(r) ==
    /\ job[r] \in {"queued", "store", "mail"}
    /\ job' = [job EXCEPT ![r] = "lost"]
    /\ troubled' = troubled \cup {r}
    /\ UNCHANGED <<account, active, attempts, mailed, otp, step, request, tokens,
                   accepted, raced>>

\* A code lives for five minutes.
ExpireCode(r) ==
    /\ otp[r] # 0
    /\ otp' = [otp EXCEPT ![r] = 0]
    /\ UNCHANGED <<account, active, mailing, step, request, tokens, history>>

-----------------------------------------------------------------------------
(* VerifyRegister.                                                          *)

Handling(q, from, to) == step[q] = from /\ step' = [step EXCEPT ![q] = to]
Deleting(r) == {q \in Requests : step[q] = "delete" /\ user[q] = r}

Verify(q, r, c) ==
    /\ c \in mailed[r] \cup {Wrong}
    /\ Handling(q, "new", "compare")
    /\ user' = [user EXCEPT ![q] = r] /\ code' = [code EXCEPT ![q] = c]
    /\ UNCHANGED <<account, active, mailing, otp, tokens, history>>

\* Mutant: any code will do.
CompareAny(q) ==
    /\ Handling(q, "compare", "delete")
    /\ otp[user[q]] # 0
    /\ accepted' = accepted \cup {q}
    /\ UNCHANGED <<account, active, mailing, otp, request, tokens, raced, troubled>>

\* Without a stored code the handler dereferences nil; chi's Recoverer turns
\* that into an error.
Compare(q) ==
    /\ \/ /\ Handling(q, "compare", "delete")
          /\ otp[user[q]] # 0 /\ otp[user[q]] = code[q]
          /\ accepted' = accepted \cup {q}
          /\ raced' = IF Deleting(user[q]) # {} THEN raced \cup {user[q]} ELSE raced
       \/ /\ Handling(q, "compare", "refused")
          /\ otp[user[q]] # 0 /\ otp[user[q]] # code[q]
          /\ UNCHANGED <<accepted, raced>>
       \/ /\ Handling(q, "compare", "error")
          /\ UNCHANGED <<accepted, raced>>
    /\ UNCHANGED <<account, active, mailing, otp, request, tokens, troubled>>

\* Mutant: the code stays until it expires.
DeleteNever(q) ==
    /\ Handling(q, "delete", "activate")
    /\ UNCHANGED <<account, active, mailing, otp, request, tokens, history>>

\* Del, whatever code is there by now; its error is only logged.
Delete(q) ==
    /\ Handling(q, "delete", "activate")
    /\ \/ otp' = [otp EXCEPT ![user[q]] = 0] /\ UNCHANGED raced
       \/ raced' = raced \cup {user[q]} /\ UNCHANGED otp
    /\ UNCHANGED <<account, active, mailing, request, tokens, accepted, troubled>>

\* Mutant: the row is read and not written.
VerifyUserReadOnly(q) ==
    /\ Handling(q, "activate", "issue") \/ Handling(q, "activate", "error")
    /\ UNCHANGED <<account, active, mailing, otp, request, tokens, history>>

\* VerifyUser: First and Updates.  A row once written is never deleted.
VerifyUser(q) ==
    /\ \/ /\ Handling(q, "activate", "issue")
          /\ user[q] \in rows
          /\ active' = active \cup {user[q]}
       \/ /\ Handling(q, "activate", "error")
          /\ active' \in {active, active \cup ({user[q]} \cap rows)}
    /\ UNCHANGED <<account, mailing, otp, request, tokens, history>>

-----------------------------------------------------------------------------
(* Login, and the tokens both end with.                                     *)

\* FindUserByCredential and the checks of the row it read.
Login(q, r) ==
    /\ \/ /\ r \in rows \cap active
          /\ Handling(q, "new", "issue")
       \/ Handling(q, "new", "refused")
    /\ user' = [user EXCEPT ![q] = r]
    /\ UNCHANGED <<account, active, mailing, otp, code, tokens, history>>

\* The refresh record and the set of the user's sessions are written next,
\* and their errors ignored: nothing reads them, because ParseAndVerifySign
\* never reports jwt.ErrTokenExpired, so they are left out.
IssueNewTokens(q) ==
    /\ \/ Handling(q, "issue", "answered") /\ tokens' = tokens \cup {q}
       \/ Handling(q, "issue", "error") /\ UNCHANGED tokens
    /\ UNCHANGED <<account, active, mailing, otp, request, history>>

-----------------------------------------------------------------------------
Registration(r) == CountUser(r) \/ SaveUser(r) \/ Enqueue(r)
Attempt(r)      == Take(r) \/ Store(r) \/ SendMailTrapOTP(r)
Handler(q)      == \/ Compare(q) \/ Delete(q) \/ VerifyUser(q)
                   \/ IssueNewTokens(q)

Next ==
    \/ \E r \in Registrations : Registration(r) \/ Attempt(r) \/ Lose(r) \/ ExpireCode(r)
    \/ \E q \in Requests : Handler(q)
    \/ \E q \in Requests, r \in Registrations :
          Login(q, r) \/ \E c \in Codes \cup {Wrong} : Verify(q, r, c)

Spec == Init /\ [][Next]_vars

(* Handlers run on, and the pool attempts every job (PoolLiveness); stores  *)
(* and the mail server may go on failing.                                   *)
FairSpec ==
    /\ Spec
    /\ \A r \in Registrations :
          /\ WF_vars(registering[r] # "new" /\ Registration(r)) /\ WF_vars(Attempt(r))
    /\ \A q \in Requests : WF_vars(Handler(q))

-----------------------------------------------------------------------------
(* Type invariant.  A job exists only for an account that was saved, and    *)
(* two registrations that both find their credentials free never both get   *)
(* them: no username and no e-mail has two accounts                         *)
(* (user-service.go:38-61, the unique columns of the migration).            *)
TypeOK ==
    /\ asked \in [Registrations -> Credentials]
    /\ registering \in [Registrations ->
            {"new", "insert", "saved", "done", "conflict", "error"}]
    /\ active \subseteq rows /\ rows \subseteq Registrations
    /\ job \in [Registrations -> {"none", "queued", "store", "mail", "done", "lost"}]
    /\ \A r \in Registrations : job[r] # "none" => r \in rows
    /\ \A r, s \in rows : r # s =>
           \A field \in DOMAIN asked[r] : asked[r][field] # asked[s][field]
    /\ attempts \in [Registrations -> 0..MaxAttempts]
    /\ otp \in [Registrations -> 0..MaxAttempts]
    /\ mailed \in [Registrations -> SUBSET Codes]
    /\ step \in [Requests -> {"new", "compare", "delete", "activate", "issue",
                              "answered", "refused", "error"}]
    /\ user \in [Requests -> Registrations \cup {NoOne}]
    /\ code \in [Requests -> 0..MaxAttempts]
    /\ tokens \cup accepted \subseteq Requests
    /\ raced \cup troubled \subseteq Registrations

(* A job that is done leaves the code it mailed last valid, until it is     *)
(* used or expires; no attempt puts an older code back                      *)
(* (create-otp.go:27-36).                                                   *)
MailedCodeIsValid ==
    \A r \in Registrations :
        /\ job[r] = "done" => otp[r] \in {0, attempts[r]} /\ attempts[r] \in mailed[r]
        /\ otp[r] # 0 => \A c \in mailed[r] : c <= otp[r]

(* An account is active only if someone presented a code mailed for it      *)
(* (user-service.go:83-91), and tokens are issued for active accounts only, *)
(* although nothing is read again between the check and the signature       *)
(* (user-service.go:99, 135-147).                                           *)
AccessWasVerified ==
    /\ \A r \in active : \E q \in accepted : user[q] = r /\ code[q] \in mailed[r]
    /\ \A q \in tokens : user[q] \in active

(* A code is accepted once, unless two requests for the account overlapped  *)
(* or Redis did not delete it (user-service.go:78-89).                      *)
CodeSpentOnce ==
    \A q, p \in accepted :
        q # p /\ user[q] = user[p] /\ code[q] = code[p] => user[q] \in raced

(* A code that was accepted makes its account active, or the request ended  *)
(* with an error after the code was gone (user-service.go:87-94).           *)
SpentCodeActivates ==
    \A q \in accepted :
        user[q] \in active \/ step[q] \in {"delete", "activate", "error"}

(* Whoever registers is mailed a code, unless the row's reply was lost, the *)
(* job was not enqueued or was lost (user-handler.go:65-85), or it used up  *)
(* the attempts of the bound.                                               *)
RegisteredIsMailed ==
    \A r \in Registrations :
        (r \in rows) ~> (mailed[r] # {} \/ r \in troubled \/ attempts[r] = MaxAttempts)
=============================================================================
