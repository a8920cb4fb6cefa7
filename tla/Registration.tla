---------------------------- MODULE Registration ----------------------------
(***************************************************************************)
(* Two-phase registration (src/accounts/services/registration.py): a       *)
(* pending payload in Redis, its code sent to the identifier, and the User *)
(* row once the code comes back; a Celery task that replaces the raw       *)
(* password of the payload by its hash, and one that rewards a referrer.   *)
(*                                                                         *)
(* Every operation of the store is one Redis command; nothing is locked    *)
(* between a read and the write that follows it.  Tasks are acknowledged   *)
(* late: one may run again after it did its work.  A code is the number of *)
(* the message that carried it; a password is the number of the code that  *)
(* the same call issued.  The DEV deployment, where one code fits all, is  *)
(* left out.  MaxCodes bounds the codes sent, MaxRegCalls the calls,       *)
(* MaxRewards the rewards that redeliveries repeat.                        *)
(***************************************************************************)
EXTENDS Integers, FiniteSets

CONSTANTS
  Identifiers,     \* email addresses (or phone numbers)
  Usernames,       \* user names asked for
  RegThreads,      \* threads serving registration calls
  OtpMaxAttempts,  \* OTP_MAX_ATTEMPTS
  OtpDailyQuota,   \* OTP_DAILY_QUOTA
  MaxCodes,        \* bound: codes sent
  MaxRewards,      \* bound: rewards paid for one referral
  MaxRegCalls      \* bound: calls served

ASSUME OtpLimits == OtpMaxAttempts \in Nat /\ OtpDailyQuota \in Nat
ASSUME RegBounds == MaxCodes \in Nat /\ MaxRewards \in Nat /\ MaxRegCalls \in Nat

VARIABLES
  pendings,  \* pendings[i]: the payload under the identifier's key
  cooling,   \* identifiers on cooldown
  quota,     \* quota[i]: codes asked for today
  account,   \* account[i]: the User row of the identifier
  referral,  \* identifiers whose Referral row exists
  rewarded,  \* rewarded[i]: PointsRewarding rows for having referred i
  tasks,     \* tasks queued or running
  regcall,   \* regcall[t]: the call thread t serves
  tocall,    \* calls still to come
  sent       \* sent[k]: the code k: to whom, and the attempt it belongs to

regVars == <<pendings, cooling, quota, account, referral, rewarded, tasks, regcall, tocall, sent>>

Codes     == 1 .. MaxCodes
NoPayload == [name |-> "none"]
\* hash: whose password's hash (0: "__PENDING__"); raw: the password (0: None).
Payloads  == [name : Usernames, hash : 0 .. MaxCodes, raw : 0 .. MaxCodes,
              code : Codes, attempts : 0 .. OtpMaxAttempts, invited : BOOLEAN]
NoAccount == [name |-> "none"]
Accounts  == [name : Usernames, password : 0 .. MaxCodes, code : Codes, state : {"inserted", "there"}]
Waiting   == [op |-> "idle"]
RegCalls  == {Waiting}
             \cup [op : {"start"}, i : Identifiers, name : Usernames, invited : BOOLEAN]
             \cup [op : {"resend", "right", "wrong", "spent"}, i : Identifiers, copy : Payloads]
             \cup [op : {"commit", "clean"}, i : Identifiers]
RegTasks  == [task : {"hash"}, i : Identifiers, raw : Codes, copy : Payloads \cup {NoPayload}]
             \cup [task : {"reward"}, i : Identifiers]
NotSent   == [to |-> "nobody"]
Sent      == [to : Identifiers, name : Usernames, late : BOOLEAN]

RegInit ==
  /\ pendings = [i \in Identifiers |-> NoPayload]
  /\ cooling = {} /\ referral = {} /\ tasks = {}
  /\ quota = [i \in Identifiers |-> 0]
  /\ account = [i \in Identifiers |-> NoAccount]
  /\ rewarded = [i \in Identifiers |-> 0]
  /\ regcall = [t \in RegThreads |-> Waiting]
  /\ tocall = MaxRegCalls
  /\ sent = [k \in Codes |-> NotSent]

Exists(i)    == account[i] # NoAccount /\ account[i].state = "there"
Taken(i, n)  == \E j \in Identifiers : Exists(j) /\ (j = i \/ account[j].name = n)
Enter(t, c)  == /\ regcall[t] = Waiting /\ tocall > 0
                /\ tocall' = tocall - 1 /\ regcall' = [regcall EXCEPT ![t] = c]
Goon(t, c)   == regcall' = [regcall EXCEPT ![t] = c] /\ UNCHANGED tocall
Leave(t)     == Goon(t, Waiting)
Put(i, p)    == pendings' = [pendings EXCEPT ![i] = p]

\* hit_quota counts the call before it may refuse it.
Allowed(i) ==
  /\ i \notin cooling
  /\ quota[i] < OtpDailyQuota
  /\ quota' = [quota EXCEPT ![i] = @ + 1]

\* A new code, in a payload that replaces whatever is pending; its cooldown.
Issue(i, k, p) ==
  /\ sent[k] = NotSent /\ \A j \in 1 .. k - 1 : sent[j] # NotSent
  /\ sent' = [sent EXCEPT ![k] = [to |-> i, name |-> p.name, late |-> FALSE]]
  /\ Put(i, [p EXCEPT !.code = k, !.attempts = 0])
  /\ cooling' = cooling \cup {i}

-----------------------------------------------------------------------------
(* start_registration and resend_registration_otp *)

BeginStart(t, i, n, invited) ==
  /\ ~Taken(i, n) /\ Allowed(i)
  /\ Enter(t, [op |-> "start", i |-> i, name |-> n, invited |-> invited])
  /\ UNCHANGED <<pendings, cooling, account, referral, rewarded, tasks, sent>>
CommitStart(t) ==
  /\ regcall[t].op = "start"
  /\ \E k \in Codes :
       LET c == regcall[t]
       IN  /\ Issue(c.i, k, [name |-> c.name, hash |-> 0, raw |-> k, code |-> k,
                             attempts |-> 0, invited |-> c.invited])
           /\ tasks' = tasks \cup {[task |-> "hash", i |-> c.i, raw |-> k, copy |-> NoPayload]}
  /\ Leave(t)
  /\ UNCHANGED <<quota, account, referral, rewarded>>

BeginResend(t, i) ==
  /\ pendings[i] # NoPayload /\ Allowed(i)
  /\ Enter(t, [op |-> "resend", i |-> i, copy |-> pendings[i]])
  /\ UNCHANGED <<pendings, cooling, account, referral, rewarded, tasks, sent>>
CommitResend(t) ==
  /\ regcall[t].op = "resend"
  /\ \E k \in Codes : Issue(regcall[t].i, k, regcall[t].copy)
  /\ Leave(t)
  /\ UNCHANGED <<quota, account, referral, rewarded, tasks>>

-----------------------------------------------------------------------------
(* complete_registration *)

\* k is the code that came with the call, 0 one that was never sent.
Answer(p, k) == IF p.attempts >= OtpMaxAttempts THEN "spent"
                ELSE IF p.code = k THEN "right" ELSE "wrong"
BeginComplete(t, i, k) ==
  /\ pendings[i] # NoPayload
  /\ k \in {0} \cup {j \in Codes : sent[j] # NotSent}
  /\ Enter(t, [op |-> Answer(pendings[i], k), i |-> i, copy |-> pendings[i]])
  /\ UNCHANGED <<pendings, cooling, quota, account, referral, rewarded, tasks, sent>>

\* The copy goes back with one more attempt, unless its time is over.
Bumped(p) == [p EXCEPT !.attempts = @ + 1]
Refuse(t) ==
  LET c == regcall[t]
  IN  /\ \/ c.op = "spent" /\ Put(c.i, NoPayload)
         \/ /\ c.op = "wrong"
            /\ Put(c.i, IF sent[c.copy.code].late THEN NoPayload ELSE Bumped(c.copy))
      /\ Leave(t)
      /\ UNCHANGED <<cooling, quota, account, referral, rewarded, tasks, sent>>

\* _persist_user: the insert, inside its transaction, and the reward task,
\* queued before the commit.  An insert of the same key waits for the first.
Unsettled(i, n) ==
  \E j \in Identifiers : /\ account[j] # NoAccount /\ account[j].state = "inserted"
                         /\ j = i \/ account[j].name = n
PersistUser(t) ==
  LET c == regcall[t]
  IN  /\ c.op = "right" /\ ~Unsettled(c.i, c.copy.name) /\ ~Taken(c.i, c.copy.name)
      /\ account' = [account EXCEPT ![c.i] =
           [name |-> c.copy.name, code |-> c.copy.code, state |-> "inserted",
            password |-> IF c.copy.hash = 0 THEN c.copy.raw ELSE c.copy.hash]]
      /\ tasks' = IF c.copy.invited THEN tasks \cup {[task |-> "reward", i |-> c.i]} ELSE tasks
      /\ Goon(t, [op |-> "commit", i |-> c.i])
      /\ UNCHANGED <<pendings, cooling, quota, referral, rewarded, sent>>
Conflict(t) ==
  LET c == regcall[t]
  IN  /\ c.op = "right" /\ Taken(c.i, c.copy.name)
      /\ Leave(t)
      /\ UNCHANGED <<pendings, cooling, quota, account, referral, rewarded, tasks, sent>>
CommitUser(t) ==
  /\ regcall[t].op = "commit"
  /\ account' = [account EXCEPT ![regcall[t].i].state = "there"]
  /\ Goon(t, [op |-> "clean", i |-> regcall[t].i])
  /\ UNCHANGED <<pendings, cooling, quota, referral, rewarded, tasks, sent>>
CleanPending(t) ==
  /\ regcall[t].op = "clean"
  /\ Put(regcall[t].i, NoPayload)
  /\ Leave(t)
  /\ UNCHANGED <<cooling, quota, account, referral, rewarded, tasks, sent>>

-----------------------------------------------------------------------------
(* Time *)

CooldownEnds(i) ==
  /\ i \in cooling /\ cooling' = cooling \ {i}
  /\ UNCHANGED <<pendings, quota, account, referral, rewarded, tasks, regcall, tocall, sent>>

\* OTP_TTL_SECONDS after a code was issued its payload's key expires.
CodeExpires(k) ==
  /\ sent[k] # NotSent /\ ~sent[k].late
  /\ sent' = [sent EXCEPT ![k].late = TRUE]
  /\ pendings' = [i \in Identifiers |->
       IF pendings[i] # NoPayload /\ pendings[i].code = k THEN NoPayload ELSE pendings[i]]
  /\ UNCHANGED <<cooling, quota, account, referral, rewarded, tasks, regcall, tocall>>

-----------------------------------------------------------------------------
(* Tasks *)

\* hash_pending_password: reads the payload, hashes its own argument, writes
\* the copy back.
ReadPending(j) ==
  /\ j \in tasks /\ j.task = "hash" /\ j.copy = NoPayload
  /\ tasks' = IF pendings[j.i] = NoPayload THEN tasks \ {j}
              ELSE (tasks \ {j}) \cup {[j EXCEPT !.copy = pendings[j.i]]}
  /\ UNCHANGED <<pendings, cooling, quota, account, referral, rewarded, regcall, tocall, sent>>

\* again: the worker is lost before it acknowledges.
HashedOwn(p, raw) == [p EXCEPT !.hash = p.raw, !.raw = 0]
Hashed(p, raw)    == [p EXCEPT !.hash = raw, !.raw = 0]
WriteHash(j, again) ==
  /\ j \in tasks /\ j.task = "hash" /\ j.copy # NoPayload
  /\ IF sent[j.copy.code].late THEN UNCHANGED pendings ELSE Put(j.i, Hashed(j.copy, j.raw))
  /\ tasks' = (tasks \ {j}) \cup (IF again THEN {[j EXCEPT !.copy = NoPayload]} ELSE {})
  /\ UNCHANGED <<cooling, quota, account, referral, rewarded, regcall, tocall, sent>>

\* process_referral_reward: nothing for a user that is not committed yet.
RewardReferrer(j, again) ==
  /\ j \in tasks /\ j.task = "reward"
  /\ IF Exists(j.i)
     THEN /\ rewarded[j.i] < MaxRewards
          /\ rewarded' = [rewarded EXCEPT ![j.i] = @ + 1]
          /\ referral' = referral \cup {j.i}
          /\ tasks' = IF again THEN tasks ELSE tasks \ {j}
     ELSE tasks' = tasks \ {j} /\ UNCHANGED <<referral, rewarded>>
  /\ UNCHANGED <<pendings, cooling, quota, account, regcall, tocall, sent>>

-----------------------------------------------------------------------------
RegCall(t) ==
  \/ \E i \in Identifiers :
       \/ BeginResend(t, i)
       \/ \E n \in Usernames, invited \in BOOLEAN : BeginStart(t, i, n, invited)
       \/ \E k \in 0 .. MaxCodes : BeginComplete(t, i, k)
  \/ CommitStart(t) \/ CommitResend(t) \/ Refuse(t)
  \/ PersistUser(t) \/ Conflict(t) \/ CommitUser(t) \/ CleanPending(t)

RegNext ==
  \/ \E t \in RegThreads : RegCall(t)
  \/ \E i \in Identifiers : CooldownEnds(i)
  \/ \E k \in Codes : CodeExpires(k)
  \/ \E j \in tasks : \/ ReadPending(j)
                      \/ \E again \in BOOLEAN : WriteHash(j, again) \/ RewardReferrer(j, again)

RegSpec == RegInit /\ [][RegNext]_regVars

-----------------------------------------------------------------------------
(* Properties *)

\* Every key, row and task keeps its type.
RegTypeOK ==
  /\ pendings \in [Identifiers -> Payloads \cup {NoPayload}]
  /\ cooling \subseteq Identifiers /\ referral \subseteq Identifiers
  /\ quota \in [Identifiers -> 0 .. OtpDailyQuota]
  /\ account \in [Identifiers -> Accounts \cup {NoAccount}]
  /\ rewarded \in [Identifiers -> 0 .. MaxRewards]
  /\ tasks \subseteq RegTasks
  /\ regcall \in [RegThreads -> RegCalls] /\ tocall \in 0 .. MaxRegCalls
  /\ sent \in [Codes -> Sent \cup {NotSent}]

\* Copies of payloads that calls and tasks still hold, with the stored ones.
CopiesOf(i) ==
  {pendings[i]} \cup {regcall[t].copy : t \in {u \in RegThreads :
                        regcall[u].op \in {"resend", "right", "wrong", "spent"} /\ regcall[u].i = i}}
  \cup {j.copy : j \in {k \in tasks : k.task = "hash" /\ k.i = i}}

\* However copies overwrite each other, a payload pairs a user name with a
\* code that was sent to its own identifier for that very name.
CodesMatchNames ==
  \A i \in Identifiers : \A p \in CopiesOf(i) \ {NoPayload} :
    /\ sent[p.code] # NotSent /\ sent[p.code].to = i
    /\ sent[p.code].name = p.name

\* And never loses its password: it is the raw one until it is a hash, of a
\* password that was given for this identifier (a late task may bring back
\* that of an earlier attempt).
Given(i, w) == w # 0 /\ sent[w] # NotSent /\ sent[w].to = i
PasswordsKept ==
  \A i \in Identifiers : \A p \in CopiesOf(i) \ {NoPayload} :
    Given(i, IF p.hash = 0 THEN p.raw ELSE p.hash)

\* An account belongs to whoever received the code at its identifier, and has
\* the name and a password that were given with it.
AccountsVerified ==
  \A i \in Identifiers : account[i] # NoAccount =>
    /\ sent[account[i].code] # NotSent /\ sent[account[i].code].to = i
    /\ sent[account[i].code].name = account[i].name
    /\ Given(i, account[i].password)
    /\ \A j \in Identifiers \ {i} : account[j] # NoAccount => account[j].name # account[i].name

\* Points are paid for accounts that exist.
RewardsForAccounts ==
  \A i \in Identifiers : (rewarded[i] > 0 => i \in referral) /\ (i \in referral => Exists(i))

\* What these rest on: a wrong answer had an attempt left, a commit has its
\* row, and a task hashes a password that was given.
CallsPrepared ==
  /\ \A t \in RegThreads :
       /\ regcall[t].op = "wrong" => regcall[t].copy.attempts < OtpMaxAttempts
       /\ regcall[t].op = "commit" => account[regcall[t].i] # NoAccount
  /\ \A j \in tasks : j.task = "hash" => Given(j.i, j.raw)

\* Staged registration as a whole: whatever calls and tasks overwrite, a code
\* vouches for the name and address it was sent for, an account for its code.
RegInv == /\ RegTypeOK /\ CodesMatchNames /\ PasswordsKept /\ AccountsVerified
          /\ RewardsForAccounts /\ CallsPrepared
=============================================================================
