--------------------------- MODULE Access_proofs ---------------------------
(***************************************************************************)
(* Proofs about Access, for any number of addresses, clients, concurrent   *)
(* verifications and requests, and any limits.                             *)
(*                                                                         *)
(* The limiter, the one-time codes and the accounts touch each other at    *)
(* few points, so each has an inductive invariant of its own; only the     *)
(* accounts' step uses that of the codes, for the account a code is worth. *)
(***************************************************************************)
EXTENDS Access, TLAPS

-----------------------------------------------------------------------------
(* The limiter.                                                            *)

Bucket == [present : BOOLEAN, tokens : 0..Full, idle : 0..RefillInterval]

LimiterType ==
    /\ buckets \in [Keys -> Bucket]
    /\ kept \in [Keys -> Int]
    /\ requests \in 0..MaxRequests

LimiterInv == LimiterType /\ EvictionIsFree

\* A full bucket holds at least one token.
LEMMA FullHoldsAToken ==
    /\ RefillInterval \in Nat \ {0}
    /\ Full \in Nat
    /\ RefillInterval <= Full
<1>1. /\ Capacity \in Nat \ {0} /\ RefillInterval \in Nat \ {0}
  BY AccessAssumption DEF AccessAssumption
<1>2. ASSUME NEW m \in Nat \ {0}, NEW n \in Nat \ {0}
      PROVE  m * n \in Nat /\ n <= m * n
  <2>1. m * n = (m - 1) * n + n
    BY <1>2
  <2>2. (m - 1) * n \in Nat
    BY <1>2
  <2> QED
    BY <1>2, <2>1, <2>2
<1> QED
  BY <1>1, <1>2 DEF Full

\* One unit of time refills a bucket by one unit at most, and never over.
LEMMA Refilled ==
    ASSUME NEW n \in 0..Full
    PROVE  /\ Refill(n) \in 0..Full
           /\ Refill(n) = Smaller(Full, n + 1)
           /\ Refill(Full) = Full
BY FullHoldsAToken DEF Refill, Smaller

\* What a request finds is a bucket whose tokens are those that nobody evicts.
LEMMA RetainedBuckets ==
    ASSUME LimiterInv, NEW k \in Keys
    PROVE  /\ Retained[k] \in Bucket
           /\ Retained[k].present => Retained[k].tokens = kept[k]
           /\ ~Retained[k].present => kept[k] = Full
           /\ Found(k) \in Bucket /\ Found(k).present
           /\ Found(k).tokens = kept[k]
<1>1. buckets[k] \in Bucket
  BY DEF LimiterInv, LimiterType
<1>2. NoBucket \in Bucket /\ ~NoBucket.present
  BY FullHoldsAToken DEF NoBucket, Bucket
<1>3. Retained[k] = IF Evictable(buckets[k]) THEN NoBucket ELSE buckets[k]
  BY DEF Retained
<1>4. (IF buckets[k].present THEN buckets[k].tokens ELSE Full) = kept[k]
  BY DEF LimiterInv, EvictionIsFree
<1>5. Evictable(buckets[k]) => kept[k] = Full
  BY <1>1, <1>4, FullHoldsAToken DEF Evictable, Bucket
<1>6. /\ Retained[k] \in Bucket
      /\ Retained[k].present => Retained[k].tokens = kept[k]
      /\ ~Retained[k].present => kept[k] = Full
  BY <1>1, <1>2, <1>3, <1>4, <1>5
<1>7. [present |-> TRUE, tokens |-> Full, idle |-> 0] \in Bucket
  BY FullHoldsAToken DEF Bucket
<1> QED
  BY <1>6, <1>7 DEF Found

LEMMA TryConsumeStep ==
    ASSUME LimiterInv, NEW k \in Keys, NEW ok \in BOOLEAN, TryConsume(k, ok)
    PROVE  LimiterInv'
<1>1. requests' \in 0..MaxRequests
  BY AccessAssumption DEF AccessAssumption, TryConsume, LimiterInv, LimiterType
<1>2. CASE ~(Retained[k].present \/ HasRoom(k))
  <2>1. buckets' = Retained /\ kept' = kept
    BY <1>2 DEF TryConsume
  <2>2. buckets' \in [Keys -> Bucket]
    BY <2>1, RetainedBuckets DEF Retained
  <2>3. EvictionIsFree'
    BY <2>1, RetainedBuckets DEF EvictionIsFree
  <2> QED
    BY <1>1, <2>1, <2>2, <2>3 DEF LimiterInv, LimiterType
<1>3. CASE Retained[k].present \/ HasRoom(k)
  <2> DEFINE left == IF ok THEN Found(k).tokens - RefillInterval ELSE Found(k).tokens
             new == [Found(k) EXCEPT !.idle = 0, !.tokens = left]
  <2>1. /\ ok = (Found(k).tokens >= RefillInterval)
        /\ buckets' = [Retained EXCEPT ![k] = new]
        /\ kept' = [kept EXCEPT ![k] = IF ok THEN @ - RefillInterval ELSE @]
    BY <1>3 DEF TryConsume
  <2>2. /\ Found(k) \in Bucket /\ Found(k).present /\ Found(k).tokens = kept[k]
        /\ Found(k).tokens \in 0..Full
    BY RetainedBuckets DEF Bucket
  <2>3. left \in 0..Full
    <3>1. CASE ok
      <4>1. Found(k).tokens >= RefillInterval
        BY <2>1, <3>1, Zenon
      <4> QED
        BY <2>2, <3>1, <4>1, FullHoldsAToken
    <3>2. CASE ~ok
      BY <2>2, <3>2
    <3> QED
      BY <3>1, <3>2
  <2>4. new \in Bucket /\ new.present /\ new.tokens = left
    <3>1. 0 \in 0..RefillInterval
      BY FullHoldsAToken
    <3>2. new = [Found(k) EXCEPT !.idle = 0, !.tokens = left]
      OBVIOUS
    <3> HIDE DEF new, left
    <3>3. new \in Bucket /\ new.present = Found(k).present /\ new.tokens = left
      BY <2>2, <2>3, <3>1, <3>2 DEF Bucket
    <3> QED
      BY <2>2, <3>3
  <2>5. kept'[k] = left /\ kept' \in [Keys -> Int]
    BY <2>1, <2>2, FullHoldsAToken DEF LimiterInv, LimiterType
  <2> HIDE DEF new
  <2>6. Retained \in [Keys -> Bucket]
    BY RetainedBuckets DEF Retained
  <2>7. buckets' \in [Keys -> Bucket] /\ buckets'[k] = new
    BY <2>1, <2>4, <2>6
  <2>8. \A j \in Keys \ {k} : buckets'[j] = Retained[j] /\ kept'[j] = kept[j]
    BY <2>1, <2>6 DEF LimiterInv, LimiterType
  <2>9. EvictionIsFree'
    <3>1. ASSUME NEW j \in Keys
          PROVE  (IF buckets'[j].present THEN buckets'[j].tokens ELSE Full) = kept'[j]
      BY <2>4, <2>5, <2>7, <2>8, RetainedBuckets
    <3> QED
      BY <3>1 DEF EvictionIsFree
  <2> QED
    BY <1>1, <2>5, <2>7, <2>9 DEF LimiterInv, LimiterType
<1> QED
  BY <1>2, <1>3

LEMMA LimiterInit == Init => LimiterInv
<1> SUFFICES ASSUME Init PROVE LimiterInv
  OBVIOUS
<1>1. NoBucket \in Bucket /\ ~NoBucket.present
  BY FullHoldsAToken DEF NoBucket, Bucket
<1> QED
  BY <1>1, FullHoldsAToken, AccessAssumption
  DEF AccessAssumption, Init, LimiterInv, LimiterType, EvictionIsFree

LEMMA LimiterStep == LimiterInv /\ [Next]_vars => LimiterInv'
<1> SUFFICES ASSUME LimiterInv, [Next]_vars PROVE LimiterInv'
  OBVIOUS
<1>1. ASSUME NEW n \in Networks, RequestSetup(n) PROVE LimiterInv'
  <2>1. <<"DaemonSetup", n>> \in Keys
    BY DEF Keys, Endpoints
  <2> QED
    BY <1>1, <2>1, TryConsumeStep DEF RequestSetup
<1>2. ASSUME NEW n \in Networks, NEW e \in Emails, RequestCode(n, e) PROVE LimiterInv'
  <2>1. <<"RequestCode", n>> \in Keys
    BY DEF Keys, Endpoints
  <2> QED
    BY <1>2, <2>1, TryConsumeStep DEF RequestCode
<1>3. CASE Tick
  <2>1. ASSUME NEW k \in Keys
        PROVE  /\ buckets'[k] \in Bucket /\ kept'[k] \in Int
               /\ (IF buckets'[k].present THEN buckets'[k].tokens ELSE Full) = kept'[k]
    <3>1. /\ buckets[k] \in Bucket
          /\ buckets[k].tokens \in 0..Full /\ buckets[k].idle \in 0..RefillInterval
      BY DEF LimiterInv, LimiterType, Bucket
    <3>2. kept'[k] = Smaller(Full, kept[k] + 1) /\ kept[k] \in Int
      BY <1>3 DEF Tick, LimiterInv, LimiterType
    <3>3. (IF buckets[k].present THEN buckets[k].tokens ELSE Full) = kept[k]
      BY DEF LimiterInv, EvictionIsFree
    <3>4. CASE buckets[k].present
      <4> DEFINE idle == Smaller(RefillInterval, buckets[k].idle + 1)
      <4>1. buckets'[k] = [buckets[k] EXCEPT !.tokens = Refill(buckets[k].tokens), !.idle = idle]
        BY <1>3, <3>4 DEF Tick
      <4>2. idle \in 0..RefillInterval
        BY <3>1, FullHoldsAToken DEF Smaller
      <4>3. Refill(buckets[k].tokens) = kept'[k] /\ kept'[k] \in 0..Full
        BY <3>1, <3>2, <3>3, <3>4, Refilled
      <4> HIDE DEF idle
      <4> QED
        <5>1. /\ buckets'[k] \in Bucket
              /\ buckets'[k].present = buckets[k].present
              /\ buckets'[k].tokens = Refill(buckets[k].tokens)
          BY <3>1, <4>1, <4>2, <4>3 DEF Bucket
        <5> QED
          BY <3>4, <4>3, <5>1
    <3>5. CASE ~buckets[k].present
      <4>1. buckets'[k] = NoBucket
        BY <1>3, <3>5 DEF Tick
      <4>2. kept'[k] = Full
        BY <3>2, <3>3, <3>5, FullHoldsAToken DEF Smaller
      <4> QED
        BY <4>1, <4>2, FullHoldsAToken DEF NoBucket, Bucket
    <3> QED
      BY <3>4, <3>5
  <2>2. buckets' \in [Keys -> Bucket] /\ kept' \in [Keys -> Int]
    <3>1. DOMAIN buckets' = Keys /\ DOMAIN kept' = Keys
      BY <1>3 DEF Tick
    <3>2. buckets' = [k \in Keys |-> buckets'[k]] /\ kept' = [k \in Keys |-> kept'[k]]
      BY <1>3, <3>1 DEF Tick
    <3> QED
      BY <2>1, <3>2
  <2> QED
    BY <1>3, <2>1, <2>2 DEF Tick, LimiterInv, LimiterType, EvictionIsFree
<1>4. CASE Restart
  <2>1. NoBucket \in Bucket /\ ~NoBucket.present
    BY FullHoldsAToken DEF NoBucket, Bucket
  <2> QED
    BY <1>4, <2>1, FullHoldsAToken DEF Restart, LimiterInv, LimiterType, EvictionIsFree
<1>5. CASE UNCHANGED limiter
  BY <1>5 DEF limiter, LimiterInv, LimiterType, EvictionIsFree
<1> QED
  BY <1>1, <1>2, <1>3, <1>4, <1>5
  DEF Next, vars, IssueCode, Authenticate, OtherRequest, VerifyBegins, AssignUserRole,
      VerifyRefuses, VerifyAccepts

\* No client can gain or lose by being forgotten: at every moment the limiter
\* gives it what a limiter that never forgets would give.
THEOREM ForgettingIsFree == Spec => []EvictionIsFree
<1>1. Spec => []LimiterInv
  BY LimiterInit, LimiterStep, PTL DEF Spec
<1>2. LimiterInv => EvictionIsFree
  BY DEF LimiterInv
<1> QED
  BY <1>1, <1>2, PTL
-----------------------------------------------------------------------------
(* One-time codes.                                                         *)

Code == [exists : BOOLEAN, used : BOOLEAN, age : 0..CodeTtl, failed : 0..MaxAttempts]
Transaction == [email : Emails \cup {Nobody}, right : BOOLEAN, failed : 0..MaxAttempts]

SignInType ==
    /\ admitted \subseteq Emails
    /\ code \in [Emails -> Code]
    /\ tried \in [Emails -> Nat] /\ granted \in [Emails -> Nat]
    /\ tx \in [Attempts -> Transaction]

\* The row lock: no two transactions hold the same code, what holds one holds it
\* unused, and the number of failures it read is still the number stored.
LocksHold ==
    /\ \A a \in Attempts : tx[a].email # Nobody =>
          /\ ~code[tx[a].email].used
          /\ tx[a].failed = code[tx[a].email].failed
    /\ \A a, b \in Attempts : tx[a].email # Nobody /\ tx[a].email = tx[b].email => a = b

\* The row counts every wrong code, and an unused row has room for one more and
\* has opened nothing.
Counted(c, wrong, opened) ==
    /\ wrong = c.failed
    /\ opened <= 1
    /\ ~c.used => c.failed < MaxAttempts /\ opened = 0

CodesAreCounted == \A e \in Emails : Counted(code[e], tried[e], granted[e])

SignInInv == SignInType /\ LocksHold /\ CodesAreCounted

LEMMA Limits ==
    /\ CodeTtl \in Nat /\ Cooldown \in Nat
    /\ MaxAttempts \in Nat \ {0}
    /\ Nobody \notin Emails
BY AccessAssumption DEF AccessAssumption, Nobody

LEMMA NoTxType == NoTx \in Transaction /\ NoTx.email = Nobody
BY Limits DEF NoTx, Transaction

\* Nobody holds a used code: a step that changes a used code, or one that is not
\* locked, disturbs no transaction.
LEMMA UnlockedStep ==
    ASSUME LocksHold, SignInType, NEW e \in Emails, code[e].used \/ ~Locked(e),
           tx' = tx, NEW c, code' = [code EXCEPT ![e] = c]
    PROVE  LocksHold'
<1>1. \A a \in Attempts : tx[a].email # e
  BY Limits DEF LocksHold, Locked
<1>2. \A a \in Attempts : tx[a].email # Nobody => code'[tx[a].email] = code[tx[a].email]
  BY <1>1 DEF SignInType, Transaction
<1> QED
  BY <1>2 DEF LocksHold

\* A transaction that ends leaves the codes the others hold alone.
LEMMA UnlockStep ==
    ASSUME LocksHold, SignInType, NEW a \in Attempts, tx[a].email # Nobody,
           tx' = [tx EXCEPT ![a] = NoTx],
           \A e \in Emails \ {tx[a].email} : code'[e] = code[e]
    PROVE  LocksHold'
<1>1. \A b \in Attempts : tx'[b].email # Nobody =>
         b # a /\ tx'[b] = tx[b] /\ tx[b].email \in Emails \ {tx[a].email}
  BY NoTxType DEF LocksHold, SignInType, Transaction
<1> QED
  BY <1>1 DEF LocksHold

LEMMA SignInInit == Init => SignInInv
<1> SUFFICES ASSUME Init PROVE SignInInv
  OBVIOUS
<1>1. NoCode \in Code /\ NoCode.used /\ NoCode.failed = 0
  BY Limits DEF NoCode, Code
<1>2. SignInType
  BY <1>1, NoTxType DEF Init, SignInType
<1>3. LocksHold
  BY NoTxType DEF Init, LocksHold
<1>4. CodesAreCounted
  BY <1>1 DEF Init, CodesAreCounted, Counted
<1> QED
  BY <1>2, <1>3, <1>4 DEF SignInInv

LEMMA SignInStep == SignInInv /\ [Next]_vars => SignInInv'
<1> SUFFICES ASSUME SignInInv, [Next]_vars PROVE SignInInv'
  OBVIOUS
<1>a. SignInType /\ LocksHold /\ CodesAreCounted
  BY DEF SignInInv
<1>b. \A e \in Emails :
         /\ code[e] \in Code /\ code[e].failed \in 0..MaxAttempts /\ code[e].age \in 0..CodeTtl
         /\ tried[e] \in Nat /\ granted[e] \in Nat
  BY <1>a DEF SignInType, Code
<1>1. ASSUME NEW n \in Networks, NEW e \in Emails, RequestCode(n, e) PROVE SignInInv'
  BY <1>1, <1>a DEF RequestCode, SignInInv, SignInType, LocksHold, CodesAreCounted, Counted
<1>2. ASSUME NEW e \in Emails, IssueCode(e) PROVE SignInInv'
  <2> DEFINE fresh == [exists |-> TRUE, used |-> FALSE, age |-> 0, failed |-> 0]
  <2>1. admitted' \subseteq Emails /\ tx' = tx
    BY <1>2, <1>a DEF IssueCode, SignInType
  <2>2. CASE code[e].exists /\ code[e].age < Cooldown
    BY <1>2, <1>a, <2>1, <2>2
    DEF IssueCode, SignInInv, SignInType, LocksHold, CodesAreCounted, Counted
  <2>3. CASE ~(code[e].exists /\ code[e].age < Cooldown)
    <3>1. /\ code[e].used \/ ~Locked(e)
          /\ code' = [code EXCEPT ![e] = fresh]
          /\ tried' = [tried EXCEPT ![e] = 0]
          /\ granted' = [granted EXCEPT ![e] = 0]
      BY <1>2, <2>3 DEF IssueCode
    <3>2. LocksHold'
      BY <1>a, <2>1, <3>1, UnlockedStep
    <3>3. fresh \in Code
      BY Limits DEF Code
    <3>4. SignInType'
      BY <1>a, <2>1, <3>1, <3>3 DEF SignInType
    <3>5. Counted(fresh, 0, 0)
      BY Limits DEF Counted
    <3>6. CodesAreCounted'
      <4> SUFFICES ASSUME NEW x \in Emails PROVE Counted(code'[x], tried'[x], granted'[x])
        BY DEF CodesAreCounted
      <4>1. CASE x = e
        BY <1>a, <3>1, <3>5, <4>1 DEF SignInType
      <4>2. CASE x # e
        BY <1>a, <3>1, <4>2 DEF SignInType, CodesAreCounted
      <4> QED
        BY <4>1, <4>2
    <3> QED
      BY <3>2, <3>4, <3>6 DEF SignInInv
  <2> QED
    BY <2>2, <2>3
<1>3. ASSUME NEW a \in Attempts, NEW e \in Emails, NEW right \in BOOLEAN,
             VerifyBegins(a, e, right)
      PROVE  SignInInv'
  <2> DEFINE new == [email |-> e, right |-> right, failed |-> code[e].failed]
  <2>1. /\ tx' = [tx EXCEPT ![a] = new]
        /\ ~code[e].used /\ ~Locked(e)
        /\ UNCHANGED <<admitted, code, tried, granted>>
    BY <1>3 DEF VerifyBegins, Reads
  <2>2. new \in Transaction
    BY <1>b DEF Transaction
  <2>3. SignInType'
    BY <1>a, <2>1, <2>2 DEF SignInType
  <2>4. \A b \in Attempts : tx[b].email # e
    BY <2>1 DEF Locked
  <2>5. LocksHold'
    <3>1. tx'[a] = new /\ \A b \in Attempts \ {a} : tx'[b] = tx[b]
      BY <1>a, <2>1 DEF SignInType
    <3> QED
      BY <1>a, <2>1, <2>4, <3>1 DEF LocksHold
  <2>6. CodesAreCounted'
    BY <1>a, <2>1 DEF CodesAreCounted
  <2> QED
    BY <2>3, <2>5, <2>6 DEF SignInInv
<1>4. ASSUME NEW a \in Attempts, VerifyRefuses(a) PROVE SignInInv'
  <2> DEFINE e == tx[a].email
             failed == tx[a].failed + 1
             new == [code[e] EXCEPT !.failed = failed, !.used = failed >= MaxAttempts]
  <2>1. e \in Emails /\ e # Nobody
    BY <1>4, <1>a DEF VerifyRefuses, SignInType, Transaction
  <2>2. ~code[e].used /\ tx[a].failed = code[e].failed
    BY <1>a, <2>1 DEF LocksHold
  <2>3. /\ code' = [code EXCEPT ![e] = new]
        /\ tried' = [tried EXCEPT ![e] = @ + 1]
        /\ tx' = [tx EXCEPT ![a] = NoTx]
        /\ UNCHANGED <<admitted, granted>>
    BY <1>4, <2>2 DEF VerifyRefuses
  <2>4. Counted(code[e], tried[e], granted[e])
    BY <1>a, <2>1 DEF CodesAreCounted
  <2>5. /\ failed \in 0..MaxAttempts /\ failed = code[e].failed + 1
        /\ failed = tried[e] + 1 /\ granted[e] = 0
    BY <1>b, <2>1, <2>2, <2>4, Limits DEF Counted
  <2>6. (failed >= MaxAttempts) \in BOOLEAN
    OBVIOUS
  <2>7. new \in Code /\ new.failed = failed /\ new.used = (failed >= MaxAttempts)
    <3> HIDE DEF failed
    <3> QED
      BY <1>b, <2>1, <2>5, <2>6 DEF Code
  <2> HIDE DEF new, failed
  <2>8. SignInType'
    BY <1>a, <1>b, <2>1, <2>3, <2>7, NoTxType DEF SignInType
  <2>9. LocksHold'
    BY <1>a, <2>1, <2>3, UnlockStep DEF SignInType
  <2>10. Counted(new, tried[e] + 1, granted[e])
    <3>1. ~new.used => ~(failed >= MaxAttempts)
      BY <2>7, Zenon
    <3> QED
      BY <2>5, <2>7, <3>1, Limits DEF Counted
  <2>11. CodesAreCounted'
    <3> SUFFICES ASSUME NEW x \in Emails PROVE Counted(code'[x], tried'[x], granted'[x])
      BY DEF CodesAreCounted
    <3>1. CASE x = e
      BY <1>a, <2>3, <2>10, <3>1 DEF SignInType
    <3>2. CASE x # e
      BY <1>a, <2>3, <3>2 DEF SignInType, CodesAreCounted
    <3> QED
      BY <3>1, <3>2
  <2> QED
    BY <2>8, <2>9, <2>11 DEF SignInInv
<1>5. ASSUME NEW a \in Attempts, VerifyAccepts(a) PROVE SignInInv'
  <2> DEFINE e == tx[a].email
             new == [code[e] EXCEPT !.used = TRUE]
  <2>1. e \in Emails /\ e # Nobody
    BY <1>5, <1>a DEF VerifyAccepts, SignInType, Transaction
  <2>2. ~code[e].used
    BY <1>a, <2>1 DEF LocksHold
  <2>3. /\ code' = [code EXCEPT ![e] = new]
        /\ granted' = [granted EXCEPT ![e] = @ + 1]
        /\ tx' = [tx EXCEPT ![a] = NoTx]
        /\ UNCHANGED <<admitted, tried>>
    BY <1>5, <2>2 DEF VerifyAccepts
  <2>4. Counted(code[e], tried[e], granted[e])
    BY <1>a, <2>1 DEF CodesAreCounted
  <2>5. new \in Code /\ new.failed = code[e].failed /\ new.used
    BY <1>b, <2>1 DEF Code
  <2> HIDE DEF new
  <2>6. SignInType'
    BY <1>a, <1>b, <2>1, <2>3, <2>5, NoTxType DEF SignInType
  <2>7. LocksHold'
    BY <1>a, <2>1, <2>3, UnlockStep DEF SignInType
  <2>8. Counted(new, tried[e], granted[e] + 1)
    BY <1>b, <2>1, <2>2, <2>4, <2>5 DEF Counted
  <2>9. CodesAreCounted'
    <3> SUFFICES ASSUME NEW x \in Emails PROVE Counted(code'[x], tried'[x], granted'[x])
      BY DEF CodesAreCounted
    <3>1. CASE x = e
      BY <1>a, <2>3, <2>8, <3>1 DEF SignInType
    <3>2. CASE x # e
      BY <1>a, <2>3, <3>2 DEF SignInType, CodesAreCounted
    <3> QED
      BY <3>1, <3>2
  <2> QED
    BY <2>6, <2>7, <2>9 DEF SignInInv
<1>6. CASE Tick
  <2>1. ASSUME NEW e \in Emails
        PROVE  code'[e] \in Code /\ code'[e].used = code[e].used /\ code'[e].failed = code[e].failed
    <3> DEFINE age == IF code[e].exists THEN Smaller(CodeTtl, code[e].age + 1) ELSE 0
    <3>1. code'[e] = [code[e] EXCEPT !.age = age]
      BY <1>6 DEF Tick
    <3>2. age \in 0..CodeTtl
      BY <1>b, Limits DEF Smaller
    <3> HIDE DEF age
    <3> QED
      BY <1>b, <3>1, <3>2 DEF Code
  <2>2. code' \in [Emails -> Code]
    <3>1. code' = [e \in Emails |-> code'[e]]
      BY <1>6 DEF Tick
    <3> QED
      BY <2>1, <3>1
  <2>3. UNCHANGED <<admitted, tried, granted, tx>>
    BY <1>6 DEF Tick
  <2>4. SignInType'
    BY <1>a, <2>2, <2>3 DEF SignInType
  <2>5. LocksHold'
    BY <1>a, <2>1, <2>3 DEF SignInType, Transaction, LocksHold
  <2>6. CodesAreCounted'
    BY <1>a, <2>1, <2>3 DEF CodesAreCounted, Counted
  <2> QED
    BY <2>4, <2>5, <2>6 DEF SignInInv
<1>7. CASE Restart
  BY <1>7, <1>a, NoTxType
  DEF Restart, SignInInv, SignInType, LocksHold, CodesAreCounted, Counted
<1>8. CASE UNCHANGED signIn
  BY <1>8, <1>a DEF signIn, SignInInv, SignInType, LocksHold, CodesAreCounted
<1> QED
  BY <1>1, <1>2, <1>3, <1>4, <1>5, <1>6, <1>7, <1>8
  DEF Next, vars, RequestSetup, Authenticate, OtherRequest, AssignUserRole

LEMMA SignInInvariance == Spec => []SignInInv
BY SignInInit, SignInStep, PTL DEF Spec

\* A code opens one session at most and survives MaxAttempts wrong answers at
\* most, however many verifications run at once.
THEOREM CodesAreSpentOnce == Spec => []CodeIsSpentOnce
<1>1. SignInInv => CodeIsSpentOnce
  <2> SUFFICES ASSUME SignInInv, NEW e \in Emails
               PROVE  /\ tried[e] <= MaxAttempts
                      /\ granted[e] <= 1
                      /\ granted[e] = 1 \/ tried[e] = MaxAttempts => code[e].used
    BY DEF CodeIsSpentOnce
  <2>1. code[e] \in Code /\ Counted(code[e], tried[e], granted[e])
    BY DEF SignInInv, SignInType, CodesAreCounted
  <2>2. code[e].failed \in 0..MaxAttempts
    BY <2>1 DEF Code
  <2> QED
    BY <2>1, <2>2, Limits DEF Counted
<1> QED
  BY <1>1, SignInInvariance, PTL
-----------------------------------------------------------------------------
(* Accounts, sessions and roles.                                           *)

AccountsType ==
    /\ role \in [Emails -> Roles \cup {NoAccount}]
    /\ owner \in Emails \cup {Nobody}
    /\ session \in [Emails -> BOOLEAN]
    /\ acting \in [Emails -> Roles \cup {NoRequest}]
    /\ assigned \in 0..MaxAssignments
    /\ stale \in BOOLEAN

\* Whoever has a session or owns the instance has an account, so the first
\* account is the one that takes the ownership.
HoldersHaveAccounts ==
    /\ \A e \in Emails : session[e] => role[e] # NoAccount
    /\ owner # Nobody => role[owner] # NoAccount

AccountsInv == AccountsType /\ HoldersHaveAccounts /\ SomebodyAdministers

LEMMA AccountsInit == Init => AccountsInv
<1> SUFFICES ASSUME Init PROVE AccountsInv
  OBVIOUS
<1>0. stale \in BOOLEAN
  BY DEF Init
<1>1. assigned \in 0..MaxAssignments
  BY AccessAssumption DEF AccessAssumption, Init
<1>2. session \in [Emails -> BOOLEAN] /\ \A e \in Emails : ~session[e]
  BY DEF Init
<1>3. AccountsType
  BY <1>0, <1>1, <1>2 DEF Init, AccountsType
<1>4. HoldersHaveAccounts /\ SomebodyAdministers
  BY <1>2 DEF Init, HoldersHaveAccounts, SomebodyAdministers
<1> QED
  BY <1>3, <1>4 DEF AccountsInv

LEMMA AccountsStep == SignInInv /\ AccountsInv /\ [Next]_vars => AccountsInv'
<1> SUFFICES ASSUME SignInInv, AccountsInv, [Next]_vars PROVE AccountsInv'
  OBVIOUS
<1>a. AccountsType /\ HoldersHaveAccounts /\ SomebodyAdministers
  BY DEF AccountsInv
<1>1. CASE UNCHANGED <<role, owner, stale>> /\ AccountsType' /\ HoldersHaveAccounts'
  BY <1>1, <1>a DEF AccountsInv, SomebodyAdministers
<1>2. ASSUME NEW a \in Attempts, VerifyAccepts(a) PROVE AccountsInv'
  <2> DEFINE e == tx[a].email
             new == IF owner = Nobody THEN "Owner"
                    ELSE IF role[e] = NoAccount THEN "Requester" ELSE role[e]
  <2>1. e \in Emails /\ e # Nobody
    BY <1>2 DEF VerifyAccepts, SignInInv, SignInType, Transaction
  <2>2. UNCHANGED <<acting, assigned, stale>>
    BY <1>2 DEF VerifyAccepts
  <2>3. CASE code[e].used
    <3>1. UNCHANGED <<role, owner, session>>
      BY <1>2, <2>3 DEF VerifyAccepts
    <3> QED
      BY <1>1, <1>a, <2>2, <3>1 DEF AccountsType, HoldersHaveAccounts
  <2>4. CASE ~code[e].used
    <3>1. /\ owner' = IF owner = Nobody THEN e ELSE owner
          /\ role' = [role EXCEPT ![e] = new]
          /\ session' = [session EXCEPT ![e] = TRUE]
      BY <1>2, <2>4 DEF VerifyAccepts
    <3>2. new \in Roles
      BY <1>a, <2>1 DEF AccountsType, Roles
    <3>3. new # NoAccount
      BY <3>2 DEF Roles, NoAccount
    <3>4. role'[e] = new /\ \A x \in Emails \ {e} : role'[x] = role[x]
      BY <1>a, <2>1, <3>1 DEF AccountsType
    <3>5. role' \in [Emails -> Roles \cup {NoAccount}] /\ owner' \in Emails \cup {Nobody}
      BY <1>a, <2>1, <3>1, <3>2 DEF AccountsType
    <3>6. session' \in [Emails -> BOOLEAN]
      BY <1>a, <2>1, <3>1 DEF AccountsType
    <3>7. HoldersHaveAccounts'
      BY <1>a, <2>1, <3>1, <3>3, <3>4 DEF AccountsType, HoldersHaveAccounts
    <3>8. SomebodyAdministers'
      <4>1. CASE owner = Nobody
        BY <2>1, <3>4, <4>1 DEF SomebodyAdministers, CanAdminister
      <4>2. CASE owner # Nobody
        <5>1. stale \/ \E x \in Emails : CanAdminister(role[x])
          BY <1>a, <4>2 DEF AccountsType, HoldersHaveAccounts, SomebodyAdministers
        <5>2. ASSUME NEW x \in Emails, CanAdminister(role[x]) PROVE CanAdminister(role'[x])
          BY <3>4, <4>2, <5>2 DEF CanAdminister, NoAccount
        <5> QED
          BY <2>2, <5>1, <5>2 DEF SomebodyAdministers
      <4> QED
        BY <4>1, <4>2
    <3> QED
      BY <1>a, <2>2, <3>5, <3>6, <3>7, <3>8 DEF AccountsInv, AccountsType
  <2> QED
    BY <2>3, <2>4
<1>3. ASSUME NEW e \in Emails, Authenticate(e) PROVE AccountsInv'
  <2>1. role[e] \in Roles
    BY <1>3, <1>a DEF Authenticate, AccountsType, HoldersHaveAccounts
  <2>2. acting' \in [Emails -> Roles \cup {NoRequest}]
    BY <1>3, <1>a, <2>1 DEF Authenticate, AccountsType
  <2> QED
    BY <1>1, <1>3, <1>a, <2>2 DEF Authenticate, AccountsType, HoldersHaveAccounts
<1>4. ASSUME NEW e \in Emails, NEW target \in Emails, NEW new \in Roles,
             AssignUserRole(e, target, new)
      PROVE  AccountsInv'
  <2>1. /\ CanAdminister(acting[e]) /\ e # target
        /\ role[target] # NoAccount
        /\ role' = [role EXCEPT ![target] = new]
        /\ acting' = [acting EXCEPT ![e] = NoRequest]
        /\ assigned < MaxAssignments /\ assigned' = assigned + 1
        /\ owner' = owner /\ session' = session
    BY <1>4 DEF AssignUserRole, MayAssign
  <2>2. /\ stale' \in BOOLEAN
        /\ ~stale' => ~stale /\ role[e] = acting[e]
    BY <1>4, <1>a, Zenon DEF AssignUserRole, AccountsType
  <2>3. new # NoAccount
    BY DEF Roles, NoAccount
  <2>4. role'[target] = new /\ \A x \in Emails \ {target} : role'[x] = role[x]
    BY <1>a, <2>1 DEF AccountsType
  <2>5. assigned' \in 0..MaxAssignments
    BY <1>a, <2>1, AccessAssumption DEF AccessAssumption, AccountsType
  <2>6. AccountsType'
    BY <1>a, <2>1, <2>2, <2>5 DEF AccountsType
  <2>7. HoldersHaveAccounts'
    BY <1>a, <2>1, <2>3, <2>4 DEF AccountsType, HoldersHaveAccounts
  <2>8. SomebodyAdministers'
    <3>1. CASE stale'
      BY <3>1 DEF SomebodyAdministers
    <3>2. CASE ~stale'
      <4>1. CanAdminister(role'[e])
        BY <2>1, <2>2, <2>4, <3>2
      <4> QED
        BY <4>1 DEF SomebodyAdministers
    <3> QED
      BY <3>1, <3>2
  <2> QED
    BY <2>6, <2>7, <2>8 DEF AccountsInv
<1>5. ASSUME NEW e \in Emails, OtherRequest(e) PROVE AccountsInv'
  <2>1. PICK ends \in BOOLEAN : session' = [session EXCEPT ![e] = @ /\ ~ends]
    BY <1>5 DEF OtherRequest
  <2>2. session' \in [Emails -> BOOLEAN] /\ \A x \in Emails : session'[x] => session[x]
    <3>1. (session[e] /\ ~ends) \in BOOLEAN
      OBVIOUS
    <3> QED
      BY <1>a, <2>1, <3>1 DEF AccountsType
  <2>3. /\ acting' = [acting EXCEPT ![e] = NoRequest]
        /\ UNCHANGED <<role, owner, assigned, stale>>
    BY <1>5 DEF OtherRequest
  <2>4. AccountsType'
    BY <1>a, <2>2, <2>3 DEF AccountsType
  <2>5. HoldersHaveAccounts'
    BY <1>a, <2>2, <2>3 DEF HoldersHaveAccounts
  <2> QED
    BY <1>1, <2>3, <2>4, <2>5
<1>6. CASE Restart
  <2>1. AccountsType'
    BY <1>6, <1>a DEF Restart, AccountsType
  <2> QED
    BY <1>1, <1>6, <1>a, <2>1 DEF Restart, HoldersHaveAccounts
<1>7. CASE UNCHANGED accounts
  BY <1>7, <1>a
  DEF accounts, AccountsInv, AccountsType, HoldersHaveAccounts, SomebodyAdministers
<1> QED
  BY <1>2, <1>3, <1>4, <1>5, <1>6, <1>7
  DEF Next, vars, RequestSetup, RequestCode, IssueCode, VerifyBegins, VerifyRefuses, Tick

LEMMA AccountsInvariance == Spec => []AccountsInv
BY AccountsInit, AccountsStep, SignInInvariance, PTL DEF Spec

\* Once there is an account there is an administrator, unless somebody acted on
\* a role that had been taken away in the meantime.
THEOREM AdministratorRemains == Spec => []SomebodyAdministers
<1>1. AccountsInv => SomebodyAdministers
  BY DEF AccountsInv
<1> QED
  BY <1>1, AccountsInvariance, PTL

LEMMA TicksStep == ticks \in 0..MaxTicks /\ [Next]_vars => (ticks \in 0..MaxTicks)'
<1> SUFFICES ASSUME ticks \in 0..MaxTicks, [Next]_vars PROVE ticks' \in 0..MaxTicks
  OBVIOUS
<1>1. CASE Tick
  <2>1. ticks < MaxTicks /\ ticks' = ticks + 1 /\ MaxTicks \in Nat
    BY <1>1, AccessAssumption DEF AccessAssumption, Tick
  <2> QED
    BY <2>1
<1>2. CASE UNCHANGED ticks
  BY <1>2
<1> QED
  BY <1>1, <1>2
  DEF Next, vars, RequestSetup, RequestCode, IssueCode, Authenticate, OtherRequest,
      VerifyBegins, AssignUserRole, VerifyRefuses, VerifyAccepts, Restart

\* Buckets stay within their capacity, failure counts within the limit, and every
\* table keeps its type.
THEOREM TypeCorrect == Spec => []TypeOK
<1>1. LimiterInv /\ SignInInv /\ AccountsInv /\ ticks \in 0..MaxTicks => TypeOK
  BY DEF LimiterInv, LimiterType, Bucket, SignInInv, SignInType, Code, Transaction,
         AccountsInv, AccountsType, TypeOK
<1>2. Init => ticks \in 0..MaxTicks
  BY AccessAssumption DEF AccessAssumption, Init
<1>3. Spec => []LimiterInv
  BY LimiterInit, LimiterStep, PTL DEF Spec
<1> QED
  BY <1>1, <1>2, <1>3, TicksStep, SignInInvariance, AccountsInvariance, PTL DEF Spec
=============================================================================
