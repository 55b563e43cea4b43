------------------------------- MODULE Access -------------------------------
(***************************************************************************)
(* Who gets in and what they may change: the limiter in front of the       *)
(* public endpoints, one-time codes by email, sessions, and the roles of   *)
(* accounts.                                                               *)
(*                                                                         *)
(* A verification is a transaction that locks the code's row between its   *)
(* read and its commit, and several run at once.  A request is             *)
(* authenticated once, by the middleware, and acts later on the role that  *)
(* was read then.  Buckets live in the server's memory and are forgotten   *)
(* by eviction and by a restart; the tables are not.                       *)
(*                                                                         *)
(* Only the newest code of an address can be unused, because issue_code    *)
(* uses up every older one, so one row per address is kept; a code typed   *)
(* from an older mail is a wrong one.  Times are ages that stop growing at *)
(* the last value anybody compares them with.  A bucket's tokens are       *)
(* counted in units of 1 / RefillInterval and refilled as time passes,     *)
(* which gives what the lazy refill gives, because the refill is linear up *)
(* to the capacity.                                                        *)
(***************************************************************************)
EXTENDS Integers, FiniteSets

CONSTANTS
    Emails,          \* normalized addresses, and the accounts they name
    Networks,        \* primary keys of clients
    Attempts,        \* verification requests that may run at once
    Cooldown,        \* CODE_REQUEST_COOLDOWN_SECONDS
    CodeTtl,         \* VERIFICATION_CODE_TTL_SECONDS
    MaxAttempts,     \* VERIFICATION_CODE_MAX_ATTEMPTS
    Capacity,        \* bucket_capacity
    RefillInterval,  \* bucket_refill_interval
    MaxEntries,      \* bucket_max_entries
    MaxRequests,     \* bound: requests to the public endpoints
    MaxTicks,        \* bound: units of time that pass
    MaxAssignments   \* bound: role assignments

ASSUME AccessAssumption ==
    /\ IsFiniteSet(Emails) /\ IsFiniteSet(Networks) /\ "nobody" \notin Emails
    /\ Cooldown \in Nat \ {0} /\ CodeTtl \in Nat \ {0} /\ Cooldown <= CodeTtl
    /\ MaxAttempts \in Nat \ {0} /\ Capacity \in Nat \ {0}
    /\ RefillInterval \in Nat \ {0} /\ MaxEntries \in Nat \ {0}
    /\ MaxRequests \in Nat /\ MaxTicks \in Nat /\ MaxAssignments \in Nat

VARIABLES
    buckets,   \* [Keys -> TokenBucket], the limiter's map
    kept,      \* [Keys -> units]: the tokens of buckets that nobody evicts
    requests,  \* requests to the public endpoints so far
    ticks,     \* units of time that have passed
    admitted,  \* addresses whose request passed the limiter and issues its code next
    code,      \* [Emails -> newest row of verification_codes]
    tried,     \* [Emails -> wrong codes compared with the newest one]
    granted,   \* [Emails -> sessions opened with the newest code]
    tx,        \* [Attempts -> verify_code between its read and its commit]
    role,      \* [Emails -> role of the account, or NoAccount]
    owner,     \* instance_settings.owner_user_id
    session,   \* [Emails -> BOOLEAN]: the account has a valid session
    acting,    \* [Emails -> role the middleware read for the request under way]
    assigned,  \* role assignments so far
    stale      \* an assignment took effect whose actor no longer had the role it was read with

signIn == <<admitted, code, tried, granted, tx>>
accounts == <<role, owner, session, acting, assigned, stale>>
limiter == <<buckets, kept, requests>>
vars == <<limiter, ticks, signIn, accounts>>
-----------------------------------------------------------------------------
\* PublicEndpoint: each endpoint has buckets of its own.
Endpoints == {"RequestCode", "DaemonSetup"}
Keys == Endpoints \X Networks
Full == Capacity * RefillInterval
NoBucket == [present |-> FALSE, tokens |-> 0, idle |-> 0]

Roles == {"Owner", "Admin", "RequirementManager", "Requester"}
NoAccount == "no account"
NoRequest == "no request"
Nobody == "nobody"
NoCode == [exists |-> FALSE, used |-> TRUE, age |-> 0, failed |-> 0]
NoTx == [email |-> Nobody, right |-> FALSE, failed |-> 0]

CanAdminister(r) == r \in {"Owner", "Admin"}
Smaller(a, b) == IF a < b THEN a ELSE b

Init ==
    /\ buckets = [k \in Keys |-> NoBucket]
    /\ kept = [k \in Keys |-> Full]
    /\ requests = 0 /\ ticks = 0
    /\ admitted = {}
    /\ code = [e \in Emails |-> NoCode]
    /\ tried = [e \in Emails |-> 0]
    /\ granted = [e \in Emails |-> 0]
    /\ tx = [a \in Attempts |-> NoTx]
    /\ role = [e \in Emails |-> NoAccount]
    /\ owner = Nobody
    /\ session = [e \in Emails |-> FALSE]
    /\ acting = [e \in Emails |-> NoRequest]
    /\ assigned = 0
    /\ stale = FALSE
-----------------------------------------------------------------------------
(* ClientRateLimiter.                                                      *)

RefillUnbounded(tokens) == tokens + 1  \* mutant: an idle bucket grows past its capacity

\* refill, over one unit of time
Refill(tokens) == Smaller(Full, tokens + 1)

EvictableWhenIdle(b) == b.idle >= RefillInterval  \* mutant: a bucket in use is forgotten

Evictable(b) == b.tokens >= Full /\ b.idle >= RefillInterval

Retained == [k \in Keys |-> IF Evictable(buckets[k]) THEN NoBucket ELSE buckets[k]]

\* A new key finds room only among the buckets of its own endpoint.
HasRoom(k) ==
    Cardinality({j \in Keys : j[1] = k[1] /\ Retained[j].present}) < MaxEntries

\* The bucket the request finds: its own, or a full one.
Found(k) == IF Retained[k].present THEN Retained[k]
            ELSE [present |-> TRUE, tokens |-> Full, idle |-> 0]

\* try_consume: admitted if the bucket holds one token; refused, it counts as used
\* all the same; and a new key that finds no room leaves no bucket.
TryConsume(k, ok) ==
    /\ requests < MaxRequests
    /\ requests' = requests + 1
    /\ IF Retained[k].present \/ HasRoom(k)
       THEN /\ ok = (Found(k).tokens >= RefillInterval)
            /\ buckets' = [Retained EXCEPT ![k] =
                             [Found(k) EXCEPT !.idle = 0, !.tokens = IF ok THEN @ - RefillInterval ELSE @]]
            /\ kept' = [kept EXCEPT ![k] = IF ok THEN @ - RefillInterval ELSE @]
       ELSE /\ ~ok
            /\ buckets' = Retained
            /\ UNCHANGED kept

\* request_setup: what follows is Registry's.
RequestSetup(n) ==
    /\ \E ok \in BOOLEAN : TryConsume(<<"DaemonSetup", n>>, ok)
    /\ UNCHANGED <<ticks, signIn, accounts>>

\* request_code, as far as the limiter.
RequestCode(n, e) ==
    /\ e \notin admitted
    /\ \E ok \in BOOLEAN :
          /\ TryConsume(<<"RequestCode", n>>, ok)
          /\ admitted' = IF ok THEN admitted \cup {e} ELSE admitted
    /\ UNCHANGED <<ticks, code, tried, granted, tx, accounts>>
-----------------------------------------------------------------------------
(* One-time codes.                                                         *)

Locked(e) == \E a \in Attempts : tx[a].email = e

\* issue_code: within the cooldown it changes nothing; otherwise it uses up what
\* is left of earlier codes, for which it waits for a verification that holds
\* the row.
IssueCode(e) ==
    /\ e \in admitted
    /\ admitted' = admitted \ {e}
    /\ IF code[e].exists /\ code[e].age < Cooldown
       THEN UNCHANGED <<code, tried, granted>>
       ELSE /\ ~code[e].used => ~Locked(e)
            /\ code' = [code EXCEPT ![e] = [exists |-> TRUE, used |-> FALSE, age |-> 0, failed |-> 0]]
            /\ tried' = [tried EXCEPT ![e] = 0]
            /\ granted' = [granted EXCEPT ![e] = 0]
    /\ UNCHANGED <<limiter, ticks, tx, accounts>>

ReadsUnlocked(e) == ~code[e].used /\ code[e].age < CodeTtl  \* mutant: FOR UPDATE is gone

\* The row that verify_code selects FOR UPDATE.
Reads(e) == ~code[e].used /\ code[e].age < CodeTtl /\ ~Locked(e)

\* The transaction reads; with no row to read the request is refused.
VerifyBegins(a, e, right) ==
    /\ tx[a] = NoTx
    /\ Reads(e)
    /\ tx' = [tx EXCEPT ![a] = [email |-> e, right |-> right, failed |-> code[e].failed]]
    /\ UNCHANGED <<limiter, ticks, admitted, code, tried, granted, accounts>>

\* The wrong code is counted, and the last allowed one uses the code up.
VerifyRefuses(a) ==
    LET e == tx[a].email
        failed == tx[a].failed + 1
    IN
    /\ e # Nobody /\ ~tx[a].right
    /\ code' = IF code[e].used THEN code
               ELSE [code EXCEPT ![e].failed = failed, ![e].used = failed >= MaxAttempts]
    /\ tried' = [tried EXCEPT ![e] = @ + 1]
    /\ tx' = [tx EXCEPT ![a] = NoTx]
    /\ UNCHANGED <<limiter, ticks, admitted, granted, accounts>>

\* The right one is consumed; the account is created if need be, the first of all
\* takes the ownership, and a session is opened.
VerifyAccepts(a) ==
    LET e == tx[a].email IN
    /\ e # Nobody /\ tx[a].right
    /\ tx' = [tx EXCEPT ![a] = NoTx]
    /\ IF code[e].used
       THEN UNCHANGED <<code, granted, role, owner, session>>
       ELSE /\ code' = [code EXCEPT ![e].used = TRUE]
            /\ granted' = [granted EXCEPT ![e] = @ + 1]
            /\ owner' = IF owner = Nobody THEN e ELSE owner
            /\ role' = [role EXCEPT ![e] = IF owner = Nobody THEN "Owner"
                                           ELSE IF @ = NoAccount THEN "Requester" ELSE @]
            /\ session' = [session EXCEPT ![e] = TRUE]
    /\ UNCHANGED <<limiter, ticks, admitted, tried, acting, assigned, stale>>
-----------------------------------------------------------------------------
(* Sessions and roles.                                                     *)

\* auth_middleware: user_for_session reads the account with the session.
Authenticate(e) ==
    /\ session[e]
    /\ acting[e] = NoRequest
    /\ acting' = [acting EXCEPT ![e] = role[e]]
    /\ UNCHANGED <<limiter, ticks, signIn, role, owner, session, assigned, stale>>

MayAssignAny(r, self, new) == CanAdminister(r) /\ (new = "Owner" => r = "Owner")  \* mutant: also one's own

\* assign_role in role.rs, behind require_admin
MayAssign(r, self, new) ==
    /\ CanAdminister(r)
    /\ ~self
    /\ new = "Owner" => r = "Owner"

\* assign_user_role: decided on the role the middleware read, written at once.
AssignUserRole(e, target, new) ==
    /\ acting[e] # NoRequest
    /\ MayAssign(acting[e], e = target, new)
    /\ role[target] # NoAccount
    /\ assigned < MaxAssignments
    /\ role' = [role EXCEPT ![target] = new]
    /\ acting' = [acting EXCEPT ![e] = NoRequest]
    /\ assigned' = assigned + 1
    /\ stale' = (stale \/ role[e] # acting[e])
    /\ UNCHANGED <<limiter, ticks, signIn, owner, session>>

\* Any other request, one that is refused, and the logout.
OtherRequest(e) ==
    /\ acting[e] # NoRequest
    /\ acting' = [acting EXCEPT ![e] = NoRequest]
    /\ \E ends \in BOOLEAN : session' = [session EXCEPT ![e] = @ /\ ~ends]
    /\ UNCHANGED <<limiter, ticks, signIn, role, owner, assigned, stale>>
-----------------------------------------------------------------------------
\* Time passes; sessions outlive everything here (SESSION_TTL_SECONDS is 30 days)
\* and end by logout or by the step above.
Tick ==
    /\ ticks < MaxTicks
    /\ ticks' = ticks + 1
    /\ buckets' = [k \in Keys |->
                     IF buckets[k].present
                     THEN [buckets[k] EXCEPT !.tokens = Refill(@),
                                             !.idle = Smaller(RefillInterval, @ + 1)]
                     ELSE NoBucket]
    /\ kept' = [k \in Keys |-> Smaller(Full, kept[k] + 1)]
    /\ code' = [e \in Emails |-> [code[e] EXCEPT !.age = IF code[e].exists THEN Smaller(CodeTtl, @ + 1) ELSE 0]]
    /\ UNCHANGED <<requests, admitted, tried, granted, tx, accounts>>

\* The server dies: buckets, requests and open transactions are gone, and every
\* client starts with a full bucket.
Restart ==
    /\ buckets' = [k \in Keys |-> NoBucket]
    /\ kept' = [k \in Keys |-> Full]
    /\ admitted' = {}
    /\ tx' = [a \in Attempts |-> NoTx]
    /\ acting' = [e \in Emails |-> NoRequest]
    /\ UNCHANGED <<requests, ticks, code, tried, granted, role, owner, session, assigned, stale>>

Next ==
    \/ \E n \in Networks : \/ RequestSetup(n)
                           \/ \E e \in Emails : RequestCode(n, e)
    \/ \E e \in Emails :
         \/ IssueCode(e) \/ Authenticate(e) \/ OtherRequest(e)
         \/ \E a \in Attempts, right \in BOOLEAN : VerifyBegins(a, e, right)
         \/ \E target \in Emails, new \in Roles : AssignUserRole(e, target, new)
    \/ \E a \in Attempts : VerifyRefuses(a) \/ VerifyAccepts(a)
    \/ Tick \/ Restart

Spec == Init /\ [][Next]_vars
-----------------------------------------------------------------------------
TypeOK ==
    /\ buckets \in [Keys -> [present : BOOLEAN, tokens : 0..Full, idle : 0..RefillInterval]]
    /\ kept \in [Keys -> Int]
    /\ requests \in 0..MaxRequests /\ ticks \in 0..MaxTicks
    /\ admitted \subseteq Emails
    /\ code \in [Emails -> [exists : BOOLEAN, used : BOOLEAN, age : 0..CodeTtl, failed : 0..MaxAttempts]]
    /\ tried \in [Emails -> Nat] /\ granted \in [Emails -> Nat]
    /\ tx \in [Attempts -> [email : Emails \cup {Nobody}, right : BOOLEAN, failed : 0..MaxAttempts]]
    /\ role \in [Emails -> Roles \cup {NoAccount}]
    /\ owner \in Emails \cup {Nobody}
    /\ session \in [Emails -> BOOLEAN]
    /\ acting \in [Emails -> Roles \cup {NoRequest}]
    /\ assigned \in 0..MaxAssignments
    /\ stale \in BOOLEAN

\* A code is worth one session or MaxAttempts wrong answers (verify_code,
\* issue_code), however many verifications run at once and however they meet
\* expiry, a new code and a restart.
CodeIsSpentOnce ==
    \A e \in Emails :
       /\ tried[e] <= MaxAttempts
       /\ granted[e] <= 1
       /\ granted[e] = 1 \/ tried[e] = MaxAttempts => code[e].used

\* The limiter may forget a client without the client noticing (evict_safe_buckets):
\* what it would find after an eviction is what it would have found without.
EvictionIsFree ==
    \A k \in Keys : (IF buckets[k].present THEN buckets[k].tokens ELSE Full) = kept[k]

\* An instance with an account has somebody to administer it (verify_code,
\* assign_role): the first account becomes Owner, and nobody can take the last
\* administrator's role away, because nobody changes one's own.  The exception is
\* a request that acts on a role its author no longer has.
SomebodyAdministers ==
    \/ \A e \in Emails : role[e] = NoAccount
    \/ \E e \in Emails : CanAdminister(role[e])
    \/ stale
=============================================================================
