--------------------------- MODULE AccountsProofs ---------------------------
(***************************************************************************)
(* Proofs about a user's account, for every number of threads, codes,      *)
(* people and calls: sign-up, password codes, the phone catalog, discovery *)
(* and the pages that are cached of a user.                                *)
(***************************************************************************)
EXTENDS Registration, Credentials, PhoneCatalog, Discovery, UserPages,
        FiniteSetTheorems, TLAPS

-----------------------------------------------------------------------------
(***************************************************************************)
(* Registration: whatever copies of a payload overwrite each other, each   *)
(* was vouched for by the code that was sent. CopiesVouched says so of all *)
(* places a copy lies in at once, and makes the proof one lemma            *)
(* (CopiesStay) for every step.                                            *)
(***************************************************************************)

\* What the invariant says of one copy of a payload.
Vouched(i, p) ==
  /\ sent[p.code] # NotSent /\ sent[p.code].to = i /\ sent[p.code].name = p.name
  /\ Given(i, IF p.hash = 0 THEN p.raw ELSE p.hash)
Holding == {"resend", "right", "wrong", "spent"}
CopiesVouched ==
  /\ \A i \in Identifiers : pendings[i] # NoPayload => Vouched(i, pendings[i])
  /\ \A t \in RegThreads : regcall[t].op \in Holding => Vouched(regcall[t].i, regcall[t].copy)
  /\ \A j \in tasks : j.task = "hash" => /\ j.copy # NoPayload => Vouched(j.i, j.copy)
                                         /\ Given(j.i, j.raw)

\* The beginning fits.
LEMMA RegStart == RegInit => RegInv
<1>. SUFFICES ASSUME RegInit PROVE RegInv
  OBVIOUS
<1>. USE DEF RegInit
<1>1. RegTypeOK
  BY OtpLimits, RegBounds DEF RegTypeOK, RegCalls, RegTasks
<1>2. CodesMatchNames /\ PasswordsKept
  BY DEF CodesMatchNames, PasswordsKept, CopiesOf, Waiting
<1>3. AccountsVerified /\ RewardsForAccounts /\ CallsPrepared
  BY DEF AccountsVerified, RewardsForAccounts, CallsPrepared, Waiting
<1>. QED
  BY <1>1, <1>2, <1>3 DEF RegInv

\* What a call carries.
LEMMA RegCallTypes ==
  ASSUME RegTypeOK, NEW t \in RegThreads
  PROVE  LET c == regcall[t] IN
         /\ c.op = "start" => c.i \in Identifiers /\ c.name \in Usernames /\ c.invited \in BOOLEAN
         /\ c.op \in Holding => c.i \in Identifiers /\ c.copy \in Payloads
         /\ c.op \in {"commit", "clean"} => c.i \in Identifiers
<1>1. regcall[t] \in RegCalls
  BY DEF RegTypeOK
<1>. QED
  BY <1>1 DEF RegCalls, Waiting, Holding

\* What a queued task holds, by its kind.
LEMMA TaskTypes ==
  ASSUME RegTypeOK, NEW j \in tasks
  PROVE  /\ j.i \in Identifiers /\ j.task \in {"hash", "reward"}
         /\ j.task = "hash" => j.raw \in Codes /\ j.copy \in Payloads \cup {NoPayload}
<1>1. j \in RegTasks
  BY DEF RegTypeOK
<1>. QED
  BY <1>1 DEF RegTasks

\* A payload is told from none, and its fields are typed.
LEMMA RealPayloads ==
  ASSUME NEW p \in Payloads
  PROVE  /\ p # NoPayload /\ p.code \in Codes /\ p.name \in Usernames
         /\ p.hash \in 0 .. MaxCodes /\ p.raw \in 0 .. MaxCodes /\ p.attempts \in 0 .. OtpMaxAttempts
         /\ p.invited \in BOOLEAN
BY RegBounds DEF Payloads, NoPayload, Codes

\* CodesMatchNames and PasswordsKept speak of the same copies of payloads:
\* together they are CopiesVouched.
LEMMA CopiesAsOne ==
  ASSUME RegTypeOK
  PROVE  CopiesVouched /\ CallsPrepared <=> CodesMatchNames /\ PasswordsKept /\ CallsPrepared
<1>1. ASSUME CopiesVouched PROVE CodesMatchNames /\ PasswordsKept
  <2>1. ASSUME NEW i \in Identifiers, NEW p \in CopiesOf(i) \ {NoPayload} PROVE Vouched(i, p)
    BY <1>1, <2>1 DEF CopiesVouched, CopiesOf, Holding
  <2>. QED
    BY <2>1 DEF CodesMatchNames, PasswordsKept, Vouched
<1>2. ASSUME CodesMatchNames, PasswordsKept, CallsPrepared PROVE CopiesVouched
  <2>1. ASSUME NEW i \in Identifiers, NEW p \in CopiesOf(i) \ {NoPayload} PROVE Vouched(i, p)
    BY <1>2 DEF CodesMatchNames, PasswordsKept, Vouched
  <2>2. ASSUME NEW i \in Identifiers, pendings[i] # NoPayload PROVE Vouched(i, pendings[i])
    BY <2>1, <2>2 DEF CopiesOf
  <2>3. ASSUME NEW t \in RegThreads, regcall[t].op \in Holding
        PROVE  Vouched(regcall[t].i, regcall[t].copy)
    <3>1. regcall[t].i \in Identifiers /\ regcall[t].copy # NoPayload
      BY <2>3, RegCallTypes, RealPayloads
    <3>2. regcall[t].copy \in CopiesOf(regcall[t].i)
      BY <2>3 DEF CopiesOf, Holding
    <3>. QED
      BY <2>1, <3>1, <3>2
  <2>4. ASSUME NEW j \in tasks, j.task = "hash", j.copy # NoPayload PROVE Vouched(j.i, j.copy)
    <3>1. j.i \in Identifiers /\ j.copy \in CopiesOf(j.i)
      BY <2>4, TaskTypes DEF CopiesOf
    <3>. QED
      BY <2>1, <2>4, <3>1
  <2>. QED
    BY <1>2, <2>2, <2>3, <2>4 DEF CopiesVouched, CallsPrepared
<1>. QED
  BY <1>1, <1>2

\* A code that was sent stays one, to the same address and for the same name.
SentMoves ==
  \A k \in Codes : sent[k] # NotSent =>
    sent'[k] # NotSent /\ sent'[k].to = sent[k].to /\ sent'[k].name = sent[k].name

\* What vouches for a payload, the code that was sent, stays.
LEMMA VouchedStays ==
  ASSUME SentMoves, NEW i \in Identifiers
  PROVE  /\ \A w \in 0 .. MaxCodes : Given(i, w) => Given(i, w)'
         /\ \A p \in Payloads : Vouched(i, p) => Vouched(i, p)'
<1>1. ASSUME NEW w \in 0 .. MaxCodes, Given(i, w) PROVE Given(i, w)'
  <2>1. w \in Codes
    BY <1>1, RegBounds DEF Codes, Given
  <2>. QED
    BY <1>1, <2>1 DEF Given, SentMoves
<1>2. ASSUME NEW p \in Payloads, Vouched(i, p) PROVE Vouched(i, p)'
  <2>1. p.code \in Codes /\ p.raw \in 0 .. MaxCodes /\ p.hash \in 0 .. MaxCodes
    BY RealPayloads
  <2>2. Given(i, IF p.hash = 0 THEN p.raw ELSE p.hash)'
    BY <1>1, <1>2, <2>1 DEF Vouched
  <2>3. sent'[p.code] # NotSent /\ sent'[p.code].to = i /\ sent'[p.code].name = p.name
    BY <1>2, <2>1 DEF Vouched, SentMoves
  <2>. QED
    BY <2>2, <2>3 DEF Vouched
<1>. QED
  BY <1>1, <1>2

\* Every copy after the step was there, or is vouched for.
LEMMA CopiesStay ==
  ASSUME RegTypeOK, CopiesVouched, SentMoves,
         \A i \in Identifiers : pendings'[i] \in {pendings[i], NoPayload} \/ Vouched(i, pendings[i])',
         \A t \in RegThreads : \/ regcall'[t] = regcall[t] \/ regcall'[t].op \notin Holding
                               \/ Vouched(regcall[t].i, regcall[t].copy)',
         \A j \in tasks' : j.task = "hash" =>
           j \in tasks \/ ((j.copy # NoPayload => Vouched(j.i, j.copy)') /\ Given(j.i, j.raw)')
  PROVE  CopiesVouched'
<1>1. ASSUME NEW i \in Identifiers, pendings'[i] # NoPayload PROVE Vouched(i, pendings[i])'
  <2>1. CASE pendings'[i] = pendings[i]
    <3>1. PICK p \in Payloads : p = pendings[i]
      BY <1>1, <2>1 DEF RegTypeOK
    <3>2. Vouched(i, p)
      BY <1>1, <2>1, <3>1 DEF CopiesVouched
    <3>3. Vouched(i, p)'
      BY <3>2, VouchedStays
    <3>. QED
      BY <2>1, <3>1, <3>3 DEF Vouched, Given
  <2>. QED
    BY <1>1, <2>1
<1>2. ASSUME NEW t \in RegThreads, regcall'[t].op \in Holding PROVE Vouched(regcall[t].i, regcall[t].copy)'
  <2>1. CASE regcall'[t] = regcall[t]
    <3>1. PICK i \in Identifiers, p \in Payloads : i = regcall[t].i /\ p = regcall[t].copy
      BY <1>2, <2>1, RegCallTypes
    <3>2. Vouched(i, p)
      BY <1>2, <2>1, <3>1 DEF CopiesVouched
    <3>3. Vouched(i, p)'
      BY <3>2, VouchedStays
    <3>. QED
      BY <2>1, <3>1, <3>3 DEF Vouched, Given
  <2>. QED
    BY <1>2, <2>1
<1>3. ASSUME NEW j \in tasks', j.task = "hash"
      PROVE  (j.copy # NoPayload => Vouched(j.i, j.copy)') /\ Given(j.i, j.raw)'
  <2>1. CASE j \in tasks
    <3>1. j.i \in Identifiers /\ j.raw \in Codes /\ j.copy \in Payloads \cup {NoPayload}
      BY <1>3, <2>1, TaskTypes
    <3>2. j.raw \in 0 .. MaxCodes
      BY <3>1, RegBounds DEF Codes
    <3>3. (j.copy # NoPayload => Vouched(j.i, j.copy)) /\ Given(j.i, j.raw)
      BY <1>3, <2>1 DEF CopiesVouched
    <3>. QED
      BY <3>1, <3>2, <3>3, VouchedStays
  <2>. QED
    BY <1>3, <2>1
<1>. QED
  BY <1>1, <1>2, <1>3 DEF CopiesVouched

\* The accounts and what is paid for them do not move.
LEMMA AccountsStay ==
  ASSUME RegTypeOK, AccountsVerified, RewardsForAccounts, SentMoves, UNCHANGED <<account, referral, rewarded>>
  PROVE  AccountsVerified' /\ RewardsForAccounts'
<1>1. RewardsForAccounts'
  BY DEF RewardsForAccounts, Exists
<1>2. ASSUME NEW i \in Identifiers, account'[i] # NoAccount
      PROVE  /\ sent'[account'[i].code] # NotSent /\ sent'[account'[i].code].to = i
             /\ sent'[account'[i].code].name = account'[i].name
             /\ Given(i, account[i].password)'
             /\ \A j \in Identifiers \ {i} : account'[j] # NoAccount => account'[j].name # account'[i].name
  <2>1. PICK a \in Accounts : a = account[i] /\ account'[i] = a
    BY <1>2 DEF RegTypeOK
  <2>2. a.code \in Codes /\ a.password \in 0 .. MaxCodes
    BY DEF Accounts
  <2>3. sent[a.code] # NotSent /\ sent[a.code].to = i /\ sent[a.code].name = a.name /\ Given(i, a.password)
    BY <1>2, <2>1 DEF AccountsVerified
  <2>4. sent'[a.code] # NotSent /\ sent'[a.code].to = i /\ sent'[a.code].name = a.name
    BY <2>2, <2>3 DEF SentMoves
  <2>5. Given(i, a.password)'
    BY <2>2, <2>3, VouchedStays
  <2>6. \A j \in Identifiers \ {i} : account[j] # NoAccount => account[j].name # a.name
    BY <1>2, <2>1 DEF AccountsVerified
  <2>. QED
    BY <2>1, <2>4, <2>5, <2>6 DEF Given
<1>. QED
  BY <1>1, <1>2 DEF AccountsVerified

\* A step that leaves the accounts alone, in the terms it is looked at below.
LEMMA RegCalm ==
  ASSUME RegInv, RegTypeOK', SentMoves, UNCHANGED <<account, referral, rewarded>>,
         \A i \in Identifiers : pendings'[i] \in {pendings[i], NoPayload} \/ Vouched(i, pendings[i])',
         \A t \in RegThreads : \/ regcall'[t] = regcall[t]
                               \/ regcall'[t].op \notin Holding \cup {"commit"}
                               \/ /\ regcall'[t].op \in Holding /\ Vouched(regcall[t].i, regcall[t].copy)'
                                  /\ regcall'[t].op = "wrong" => regcall'[t].copy.attempts < OtpMaxAttempts,
         \A j \in tasks' : j.task = "hash" =>
           j \in tasks \/ ((j.copy # NoPayload => Vouched(j.i, j.copy)') /\ Given(j.i, j.raw)')
  PROVE  RegInv'
<1>1. RegTypeOK /\ AccountsVerified /\ RewardsForAccounts /\ CallsPrepared
  BY DEF RegInv
<1>2. CopiesVouched
  BY <1>1, CopiesAsOne DEF RegInv
<1>3. CopiesVouched'
  BY <1>1, <1>2, CopiesStay
<1>4. AccountsVerified' /\ RewardsForAccounts'
  BY <1>1, AccountsStay
<1>5. CallsPrepared'
  <2>1. \A j \in tasks' : j.task = "hash" => Given(j.i, j.raw)'
    BY <1>3 DEF CopiesVouched
  <2>2. ASSUME NEW t \in RegThreads
        PROVE  /\ regcall'[t].op = "wrong" => regcall'[t].copy.attempts < OtpMaxAttempts
               /\ regcall'[t].op = "commit" => account'[regcall'[t].i] # NoAccount
    BY <1>1 DEF CallsPrepared, Holding
  <2>. QED
    BY <2>1, <2>2 DEF CallsPrepared
<1>6. CodesMatchNames' /\ PasswordsKept'
  BY <1>3, <1>5, CopiesAsOne, PTL
<1>. QED
  BY <1>4, <1>5, <1>6 DEF RegInv

\* Calls that begin.
LEMMA RegBegins ==
  ASSUME RegInv, NEW t \in RegThreads, NEW i \in Identifiers,
         \/ \E n \in Usernames, invited \in BOOLEAN : BeginStart(t, i, n, invited)
         \/ BeginResend(t, i)
         \/ \E k \in 0 .. MaxCodes : BeginComplete(t, i, k)
  PROVE  RegInv'
<1>1. RegTypeOK
  BY DEF RegInv
<1>2. PICK c \in RegCalls :
        /\ Enter(t, c)
        /\ \/ c.op = "start"
           \/ /\ c.op \in Holding /\ pendings[i] # NoPayload /\ c.i = i /\ c.copy = pendings[i]
              /\ c.op = "wrong" => c.copy.attempts < OtpMaxAttempts
  <2>1. ASSUME NEW n \in Usernames, NEW invited \in BOOLEAN, BeginStart(t, i, n, invited)
        PROVE  \E c \in RegCalls : Enter(t, c) /\ c.op = "start"
    <3>1. [op |-> "start", i |-> i, name |-> n, invited |-> invited] \in RegCalls
      BY DEF RegCalls
    <3>. QED
      BY <2>1, <3>1 DEF BeginStart
  <2>2. ASSUME BeginResend(t, i)
        PROVE  \E c \in RegCalls : /\ Enter(t, c) /\ c.op = "resend" /\ c.i = i /\ c.copy = pendings[i]
                                   /\ pendings[i] # NoPayload
    <3>1. [op |-> "resend", i |-> i, copy |-> pendings[i]] \in RegCalls
      BY <1>1, <2>2 DEF RegCalls, RegTypeOK, BeginResend
    <3>. QED
      BY <2>2, <3>1 DEF BeginResend
  <2>3. ASSUME NEW k \in 0 .. MaxCodes, BeginComplete(t, i, k)
        PROVE  \E c \in RegCalls : /\ Enter(t, c) /\ c.op \in Holding /\ c.i = i /\ c.copy = pendings[i]
                                   /\ pendings[i] # NoPayload
                                   /\ c.op = "wrong" => c.copy.attempts < OtpMaxAttempts
    <3>1. pendings[i] \in Payloads
      BY <1>1, <2>3 DEF RegTypeOK, BeginComplete
    <3>2. Answer(pendings[i], k) \in {"right", "wrong", "spent"}
      BY DEF Answer
    <3>3. Answer(pendings[i], k) = "wrong" => pendings[i].attempts < OtpMaxAttempts
      BY <3>1, RealPayloads, OtpLimits DEF Answer
    <3>4. [op |-> Answer(pendings[i], k), i |-> i, copy |-> pendings[i]] \in RegCalls
      BY <3>1, <3>2 DEF RegCalls
    <3>. QED
      BY <2>3, <3>2, <3>3, <3>4 DEF BeginComplete, Holding
  <2>. QED
    BY <2>1, <2>2, <2>3 DEF Holding
<1>3. /\ UNCHANGED <<pendings, cooling, account, referral, rewarded, tasks, sent>>
      /\ quota' = quota \/ Allowed(i)
  BY DEF BeginStart, BeginResend, BeginComplete
<1>4. quota' \in [Identifiers -> 0 .. OtpDailyQuota]
  BY <1>1, <1>3, OtpLimits DEF Allowed, RegTypeOK
<1>5. RegTypeOK'
  BY <1>1, <1>2, <1>3, <1>4, RegBounds DEF RegTypeOK, Enter
<1>6. SentMoves
  BY <1>3 DEF SentMoves
<1>7. regcall'[t] = c /\ \A u \in RegThreads \ {t} : regcall'[u] = regcall[u]
  BY <1>1, <1>2 DEF Enter, RegTypeOK
<1>8. CopiesVouched
  BY <1>1, CopiesAsOne DEF RegInv
<1>9. c.op \in Holding => Vouched(c.i, c.copy)
  BY <1>2, <1>8 DEF CopiesVouched, Holding
<1>10. c.op \in Holding => Vouched(regcall[t].i, regcall[t].copy)'
  BY <1>3, <1>7, <1>9 DEF Vouched, Given
<1>11. \A u \in RegThreads : \/ regcall'[u] = regcall[u]
                             \/ regcall'[u].op \notin Holding \cup {"commit"}
                             \/ /\ regcall'[u].op \in Holding /\ Vouched(regcall[u].i, regcall[u].copy)'
                                /\ regcall'[u].op = "wrong" => regcall'[u].copy.attempts < OtpMaxAttempts
  BY <1>2, <1>7, <1>10 DEF Holding
<1>. QED
  BY <1>3, <1>5, <1>6, <1>11, RegCalm

\* A new code is sent, for the payload that will hold it.
LEMMA IssueSends ==
  ASSUME RegTypeOK, NEW i \in Identifiers, NEW k \in Codes, NEW p \in Payloads, Issue(i, k, p)
  PROVE  /\ SentMoves
         /\ sent' \in [Codes -> Sent \cup {NotSent}]
         /\ sent'[k] = [to |-> i, name |-> p.name, late |-> FALSE] /\ sent'[k] # NotSent
         /\ pendings' \in [Identifiers -> Payloads \cup {NoPayload}]
         /\ cooling' \subseteq Identifiers
<1>1. [to |-> i, name |-> p.name, late |-> FALSE] \in Sent
  BY RealPayloads DEF Sent
<1>2. [to |-> i, name |-> p.name, late |-> FALSE] # NotSent
  BY DEF NotSent
<1>3. [p EXCEPT !.code = k, !.attempts = 0] \in Payloads
  <2>1. 0 \in 0 .. OtpMaxAttempts
    BY OtpLimits
  <2>. QED
    BY <2>1 DEF Payloads
<1>. QED
  BY <1>1, <1>2, <1>3 DEF Issue, Put, RegTypeOK, SentMoves

\* A sign-up that commits its pending payload keeps the invariant.
LEMMA RegStarts ==
  ASSUME RegInv, NEW t \in RegThreads, CommitStart(t)
  PROVE  RegInv'
<1>1. RegTypeOK /\ regcall[t].op = "start"
  BY DEF RegInv, CommitStart
<1>2. PICK i \in Identifiers, n \in Usernames, invited \in BOOLEAN :
        i = regcall[t].i /\ n = regcall[t].name /\ invited = regcall[t].invited
  BY <1>1, RegCallTypes
<1>3. PICK k \in Codes :
        /\ Issue(i, k, [name |-> n, hash |-> 0, raw |-> k, code |-> k, attempts |-> 0, invited |-> invited])
        /\ tasks' = tasks \cup {[task |-> "hash", i |-> i, raw |-> k, copy |-> NoPayload]}
  BY <1>2 DEF CommitStart
<1>. DEFINE p == [name |-> n, hash |-> 0, raw |-> k, code |-> k, attempts |-> 0, invited |-> invited]
            j == [task |-> "hash", i |-> i, raw |-> k, copy |-> NoPayload]
<1>4. k \in 1 .. MaxCodes /\ p \in Payloads /\ j \in RegTasks
  BY OtpLimits, RegBounds DEF Payloads, Codes, RegTasks
<1>5. /\ SentMoves
      /\ sent' \in [Codes -> Sent \cup {NotSent}]
      /\ sent'[k] = [to |-> i, name |-> n, late |-> FALSE] /\ sent'[k] # NotSent
      /\ pendings' \in [Identifiers -> Payloads \cup {NoPayload}]
      /\ cooling' \subseteq Identifiers
  <2>1. p.name = n /\ Issue(i, k, p)
    BY <1>3
  <2>. HIDE DEF p
  <2>. QED
    BY <1>1, <1>4, <2>1, IssueSends
<1>6. Given(i, k)'
  BY <1>4, <1>5 DEF Given
<1>7. UNCHANGED <<quota, account, referral, rewarded>> /\ Leave(t)
  BY DEF CommitStart
<1>8. RegTypeOK'
  BY <1>1, <1>3, <1>4, <1>5, <1>7 DEF RegTypeOK, Leave, Goon, RegCalls
<1>9. \A u \in RegThreads : regcall'[u] = regcall[u] \/ regcall'[u].op \notin Holding \cup {"commit"}
  BY <1>1, <1>7 DEF Leave, Goon, RegTypeOK, Waiting, Holding
<1>10. ASSUME NEW x \in Identifiers PROVE pendings'[x] \in {pendings[x], NoPayload} \/ Vouched(x, pendings[x])'
  <2>1. CASE x # i
    BY <1>1, <1>3, <2>1 DEF Issue, Put, RegTypeOK
  <2>2. CASE x = i
    <3>1. pendings'[i] = [p EXCEPT !.code = k, !.attempts = 0]
      BY <1>1, <1>3 DEF Issue, Put, RegTypeOK
    <3>2. /\ pendings'[i].code = k /\ pendings'[i].name = n
          /\ pendings'[i].hash = 0 /\ pendings'[i].raw = k
      BY <3>1
    <3>. QED
      BY <1>5, <1>6, <2>2, <3>2 DEF Vouched, Given
  <2>. QED
    BY <2>1, <2>2
<1>11. \A y \in tasks' : y.task = "hash" =>
         y \in tasks \/ ((y.copy # NoPayload => Vouched(y.i, y.copy)') /\ Given(y.i, y.raw)')
  <2>1. (j.copy # NoPayload => Vouched(j.i, j.copy)') /\ Given(j.i, j.raw)'
    BY <1>6 DEF Given
  <2>. HIDE DEF j
  <2>2. tasks' = tasks \cup {j}
    BY <1>3 DEF j
  <2>. QED
    BY <2>1, <2>2
<1>. QED
  BY <1>5, <1>7, <1>8, <1>9, <1>10, <1>11, RegCalm

\* A resend that commits keeps it.
LEMMA RegResends ==
  ASSUME RegInv, NEW t \in RegThreads, CommitResend(t)
  PROVE  RegInv'
<1>1. RegTypeOK /\ regcall[t].op = "resend" /\ CopiesVouched
  BY CopiesAsOne DEF RegInv, CommitResend
<1>2. PICK i \in Identifiers, p \in Payloads : i = regcall[t].i /\ p = regcall[t].copy
  BY <1>1, RegCallTypes DEF Holding
<1>3. PICK k \in Codes : Issue(i, k, p)
  BY <1>2 DEF CommitResend
<1>4. Vouched(i, p)
  BY <1>1, <1>2 DEF CopiesVouched, Holding
<1>5. /\ SentMoves
      /\ sent' \in [Codes -> Sent \cup {NotSent}]
      /\ sent'[k] = [to |-> i, name |-> p.name, late |-> FALSE] /\ sent'[k] # NotSent
      /\ pendings' \in [Identifiers -> Payloads \cup {NoPayload}]
      /\ cooling' \subseteq Identifiers
  BY <1>1, <1>3, IssueSends
<1>6. Given(i, IF p.hash = 0 THEN p.raw ELSE p.hash)'
  BY <1>4, <1>5, RealPayloads, VouchedStays DEF Vouched
<1>7. UNCHANGED <<quota, account, referral, rewarded, tasks>> /\ Leave(t)
  BY DEF CommitResend
<1>8. RegTypeOK'
  BY <1>1, <1>5, <1>7 DEF RegTypeOK, Leave, Goon, RegCalls
<1>9. \A u \in RegThreads : regcall'[u] = regcall[u] \/ regcall'[u].op \notin Holding \cup {"commit"}
  BY <1>1, <1>7 DEF Leave, Goon, RegTypeOK, Waiting, Holding
<1>10. ASSUME NEW x \in Identifiers PROVE pendings'[x] \in {pendings[x], NoPayload} \/ Vouched(x, pendings[x])'
  <2>1. CASE x # i
    BY <1>1, <1>3, <2>1 DEF Issue, Put, RegTypeOK
  <2>2. CASE x = i
    <3>1. pendings'[i] = [p EXCEPT !.code = k, !.attempts = 0]
      BY <1>1, <1>3 DEF Issue, Put, RegTypeOK
    <3>2. /\ pendings'[i].code = k /\ pendings'[i].name = p.name
          /\ pendings'[i].hash = p.hash /\ pendings'[i].raw = p.raw
      BY <3>1 DEF Payloads
    <3>. QED
      BY <1>5, <1>6, <2>2, <3>2 DEF Vouched, Given
  <2>. QED
    BY <2>1, <2>2
<1>. QED
  BY <1>5, <1>7, <1>8, <1>9, <1>10, RegCalm

\* A wrong code keeps it.
LEMMA RegRefuses ==
  ASSUME RegInv, NEW t \in RegThreads, Refuse(t)
  PROVE  RegInv'
<1>1. RegTypeOK /\ regcall[t].op \in {"spent", "wrong"} /\ CopiesVouched
  BY CopiesAsOne DEF RegInv, Refuse
<1>2. PICK i \in Identifiers, p \in Payloads : i = regcall[t].i /\ p = regcall[t].copy
  BY <1>1, RegCallTypes DEF Holding
<1>3. Vouched(i, p)
  BY <1>1, <1>2 DEF CopiesVouched, Holding
<1>4. UNCHANGED <<cooling, quota, account, referral, rewarded, tasks, sent>> /\ Leave(t)
  BY DEF Refuse
<1>5. Put(i, NoPayload) \/ (Put(i, Bumped(p)) /\ p.attempts < OtpMaxAttempts)
  BY <1>1, <1>2 DEF Refuse, RegInv, CallsPrepared
<1>6. /\ pendings' \in [Identifiers -> Payloads \cup {NoPayload}]
      /\ \A x \in Identifiers : pendings'[x] \in {pendings[x], NoPayload} \/ Vouched(x, pendings[x])'
  <2>1. CASE Put(i, NoPayload)
    BY <1>1, <2>1 DEF Put, RegTypeOK
  <2>2. CASE Put(i, Bumped(p)) /\ p.attempts < OtpMaxAttempts
    <3>1. p.attempts + 1 \in 0 .. OtpMaxAttempts
      BY <2>2, RealPayloads, OtpLimits
    <3>2. Bumped(p) \in Payloads
      BY <3>1 DEF Bumped, Payloads
    <3>3. Bumped(p).code = p.code /\ Bumped(p).name = p.name /\ Bumped(p).hash = p.hash /\ Bumped(p).raw = p.raw
      BY DEF Bumped, Payloads
    <3>4. pendings'[i] = Bumped(p) /\ \A x \in Identifiers \ {i} : pendings'[x] = pendings[x]
      BY <1>1, <2>2 DEF Put, RegTypeOK
    <3>5. Vouched(i, pendings[i])'
      BY <1>3, <1>4, <3>3, <3>4 DEF Vouched, Given
    <3>6. pendings' \in [Identifiers -> Payloads \cup {NoPayload}]
      BY <1>1, <2>2, <3>2 DEF Put, RegTypeOK
    <3>. QED
      BY <3>4, <3>5, <3>6
  <2>. QED
    BY <1>5, <2>1, <2>2
<1>7. RegTypeOK'
  BY <1>1, <1>4, <1>6 DEF RegTypeOK, Leave, Goon, RegCalls
<1>8. \A u \in RegThreads : regcall'[u] = regcall[u] \/ regcall'[u].op \notin Holding \cup {"commit"}
  BY <1>1, <1>4 DEF Leave, Goon, RegTypeOK, Waiting, Holding
<1>9. SentMoves
  BY <1>4 DEF SentMoves
<1>. QED
  BY <1>4, <1>6, <1>7, <1>8, <1>9, RegCalm

\* Steps that drop payloads, or end a call, or let time pass.
LEMMA RegDrops ==
  ASSUME RegInv,
         \/ \E t \in RegThreads : Conflict(t) \/ CleanPending(t)
         \/ \E i \in Identifiers : CooldownEnds(i)
         \/ \E k \in Codes : CodeExpires(k)
  PROVE  RegInv'
<1>1. RegTypeOK
  BY DEF RegInv
<1>2. UNCHANGED <<quota, account, referral, rewarded, tasks>>
  BY DEF Conflict, CleanPending, CooldownEnds, CodeExpires
<1>3. /\ pendings' \in [Identifiers -> Payloads \cup {NoPayload}]
      /\ \A i \in Identifiers : pendings'[i] \in {pendings[i], NoPayload}
  BY <1>1 DEF Conflict, CleanPending, Put, CooldownEnds, CodeExpires, RegTypeOK
<1>4. SentMoves /\ sent' \in [Codes -> Sent \cup {NotSent}]
  <2>1. ASSUME NEW k \in Codes, CodeExpires(k) PROVE SentMoves /\ sent' \in [Codes -> Sent \cup {NotSent}]
    <3>1. sent[k] \in Sent
      BY <1>1, <2>1 DEF CodeExpires, RegTypeOK
    <3>2. [sent[k] EXCEPT !.late = TRUE] \in Sent /\ [sent[k] EXCEPT !.late = TRUE] # NotSent
          /\ [sent[k] EXCEPT !.late = TRUE].to = sent[k].to
          /\ [sent[k] EXCEPT !.late = TRUE].name = sent[k].name
      BY <3>1 DEF Sent, NotSent
    <3>. QED
      BY <1>1, <2>1, <3>2 DEF CodeExpires, RegTypeOK, SentMoves
  <2>2. CASE UNCHANGED sent
    BY <1>1, <2>2 DEF RegTypeOK, SentMoves
  <2>. QED
    BY <2>1, <2>2 DEF Conflict, CleanPending, CooldownEnds
<1>5. regcall' = regcall \/ \E t \in RegThreads : Leave(t)
  BY DEF Conflict, CleanPending, CooldownEnds, CodeExpires
<1>6. \A u \in RegThreads : regcall'[u] = regcall[u] \/ regcall'[u].op \notin Holding \cup {"commit"}
  BY <1>1, <1>5 DEF Leave, Goon, RegTypeOK, Waiting, Holding
<1>7. cooling' \subseteq Identifiers /\ tocall' = tocall /\ regcall' \in [RegThreads -> RegCalls]
  BY <1>1 DEF Conflict, CleanPending, Leave, Goon, CooldownEnds, CodeExpires, RegTypeOK, RegCalls
<1>8. RegTypeOK'
  BY <1>1, <1>2, <1>3, <1>4, <1>7 DEF RegTypeOK
<1>. QED
  BY <1>2, <1>3, <1>4, <1>6, <1>8, RegCalm

\* The insert: nobody else has the name or the address, committed or not.
LEMMA RegPersists ==
  ASSUME RegInv, NEW t \in RegThreads, PersistUser(t)
  PROVE  RegInv'
<1>1. RegTypeOK /\ regcall[t].op = "right" /\ CopiesVouched
  BY CopiesAsOne DEF RegInv, PersistUser
<1>2. PICK i \in Identifiers, p \in Payloads : i = regcall[t].i /\ p = regcall[t].copy
  BY <1>1, RegCallTypes DEF Holding
<1>. DEFINE w == IF p.hash = 0 THEN p.raw ELSE p.hash
            new == [name |-> p.name, code |-> p.code, state |-> "inserted", password |-> w]
<1>3. /\ ~Unsettled(i, p.name) /\ ~Taken(i, p.name)
      /\ account' = [account EXCEPT ![i] = new]
      /\ tasks' = IF p.invited THEN tasks \cup {[task |-> "reward", i |-> i]} ELSE tasks
      /\ regcall' = [regcall EXCEPT ![t] = [op |-> "commit", i |-> i]]
      /\ UNCHANGED <<pendings, cooling, quota, referral, rewarded, sent, tocall>>
  BY <1>2 DEF PersistUser, Goon
<1>4. Vouched(i, p)
  BY <1>1, <1>2 DEF CopiesVouched, Holding
<1>5. new \in Accounts /\ new # NoAccount
  BY RealPayloads DEF Accounts, NoAccount
<1>6. RegTypeOK'
  BY <1>1, <1>3, <1>5 DEF RegTypeOK, RegTasks, RegCalls
<1>7. account'[i] = new /\ \A j \in Identifiers \ {i} : account'[j] = account[j]
  BY <1>1, <1>3 DEF RegTypeOK
<1>8. \A j \in Identifiers : account[j] # NoAccount => account[j].name # p.name
  <2>1. \A j \in Identifiers : account[j] # NoAccount => account[j].state \in {"inserted", "there"}
    BY <1>1 DEF RegTypeOK, Accounts
  <2>. QED
    BY <1>3, <2>1 DEF Unsettled, Taken, Exists
<1>9. AccountsVerified'
  <2>1. ASSUME NEW x \in Identifiers, account'[x] # NoAccount
        PROVE  /\ sent'[account'[x].code] # NotSent /\ sent'[account'[x].code].to = x
               /\ sent'[account'[x].code].name = account'[x].name
               /\ Given(x, account[x].password)'
    <3>1. CASE x = i
      BY <1>3, <1>4, <1>7, <3>1 DEF Vouched, Given
    <3>2. CASE x # i
      BY <1>3, <1>7, <2>1, <3>2 DEF RegInv, AccountsVerified, Given
    <3>. QED
      BY <3>1, <3>2
  <2>2. ASSUME NEW x \in Identifiers, account'[x] # NoAccount, NEW y \in Identifiers \ {x},
               account'[y] # NoAccount
        PROVE  account'[y].name # account'[x].name
    <3>1. CASE x = i
      BY <1>7, <1>8, <2>2, <3>1
    <3>2. CASE y = i
      BY <1>7, <1>8, <2>2, <3>2
    <3>3. CASE x # i /\ y # i
      BY <1>7, <2>2, <3>3 DEF RegInv, AccountsVerified
    <3>. QED
      BY <3>1, <3>2, <3>3
  <2>. QED
    BY <2>1, <2>2 DEF AccountsVerified
<1>10. RewardsForAccounts'
  <2>1. ~Exists(i)
    BY <1>3 DEF Taken
  <2>. QED
    BY <1>3, <1>7, <2>1 DEF RegInv, RewardsForAccounts, Exists
<1>11. SentMoves
  BY <1>3 DEF SentMoves
<1>12. CopiesVouched'
  <2>1. \A u \in RegThreads : regcall'[u] = regcall[u] \/ regcall'[u].op \notin Holding
    BY <1>1, <1>3 DEF RegTypeOK, Holding
  <2>2. \A j \in tasks' : j.task = "hash" => j \in tasks
    BY <1>3
  <2>. QED
    BY <1>1, <1>3, <1>11, <2>1, <2>2, CopiesStay
<1>13. CallsPrepared'
  <2>1. \A j \in tasks' : j.task = "hash" => Given(j.i, j.raw)'
    BY <1>12 DEF CopiesVouched
  <2>2. ASSUME NEW u \in RegThreads
        PROVE  /\ regcall'[u].op = "wrong" => regcall'[u].copy.attempts < OtpMaxAttempts
               /\ regcall'[u].op = "commit" => account'[regcall'[u].i] # NoAccount
    <3>1. CASE u = t
      BY <1>1, <1>3, <1>5, <1>7, <3>1 DEF RegTypeOK
    <3>2. CASE u # t
      <4>1. regcall'[u] = regcall[u]
        BY <1>1, <1>3, <3>2 DEF RegTypeOK
      <4>2. regcall[u].op = "commit" => regcall[u].i \in Identifiers
        BY <1>1, RegCallTypes
      <4>. QED
        BY <1>5, <1>7, <4>1, <4>2 DEF RegInv, CallsPrepared
    <3>. QED
      BY <3>1, <3>2
  <2>. QED
    BY <2>1, <2>2 DEF CallsPrepared
<1>14. CodesMatchNames' /\ PasswordsKept'
  BY <1>6, <1>12, <1>13, CopiesAsOne, PTL
<1>. QED
  BY <1>6, <1>9, <1>10, <1>13, <1>14 DEF RegInv

\* The commit of the account keeps it.
LEMMA RegCommits ==
  ASSUME RegInv, NEW t \in RegThreads, CommitUser(t)
  PROVE  RegInv'
<1>1. RegTypeOK /\ regcall[t].op = "commit" /\ CopiesVouched
  BY CopiesAsOne DEF RegInv, CommitUser
<1>2. PICK i \in Identifiers : i = regcall[t].i
  BY <1>1, RegCallTypes
<1>3. account[i] # NoAccount /\ account[i] \in Accounts
  BY <1>1, <1>2 DEF RegInv, CallsPrepared, RegTypeOK
<1>4. /\ account' = [account EXCEPT ![i].state = "there"]
      /\ regcall' = [regcall EXCEPT ![t] = [op |-> "clean", i |-> i]]
      /\ UNCHANGED <<pendings, cooling, quota, referral, rewarded, tasks, sent, tocall>>
  BY <1>2 DEF CommitUser, Goon
<1>5. /\ [account[i] EXCEPT !.state = "there"] \in Accounts
      /\ [account[i] EXCEPT !.state = "there"].state = "there"
      /\ [account[i] EXCEPT !.state = "there"].name = account[i].name
      /\ [account[i] EXCEPT !.state = "there"].code = account[i].code
      /\ [account[i] EXCEPT !.state = "there"].password = account[i].password
  BY <1>3 DEF Accounts
<1>6. account'[i] = [account[i] EXCEPT !.state = "there"]
      /\ \A j \in Identifiers \ {i} : account'[j] = account[j]
  BY <1>1, <1>4 DEF RegTypeOK
<1>7. RegTypeOK'
  BY <1>1, <1>4, <1>5 DEF RegTypeOK, RegCalls
<1>8. account'[i] # NoAccount
  BY <1>5, <1>6 DEF Accounts, NoAccount
<1>9. \A x \in Identifiers :
        /\ account'[x] # NoAccount <=> account[x] # NoAccount
        /\ account[x] # NoAccount => /\ account'[x].name = account[x].name
                                     /\ account'[x].code = account[x].code
                                     /\ account'[x].password = account[x].password
  BY <1>3, <1>5, <1>6, <1>8
<1>10. AccountsVerified'
  BY <1>4, <1>9 DEF RegInv, AccountsVerified, Given
<1>11. RewardsForAccounts'
  BY <1>4, <1>5, <1>6, <1>8 DEF RegInv, RewardsForAccounts, Exists
<1>12. SentMoves
  BY <1>4 DEF SentMoves
<1>13. \A u \in RegThreads : regcall'[u] = regcall[u] \/ regcall'[u].op \notin Holding \cup {"commit"}
  BY <1>1, <1>4 DEF RegTypeOK, Holding
<1>14. CopiesVouched'
  BY <1>1, <1>4, <1>12, <1>13, CopiesStay
<1>15. CallsPrepared'
  <2>1. \A j \in tasks' : j.task = "hash" => Given(j.i, j.raw)'
    BY <1>14 DEF CopiesVouched
  <2>2. ASSUME NEW u \in RegThreads
        PROVE  /\ regcall'[u].op = "wrong" => regcall'[u].copy.attempts < OtpMaxAttempts
               /\ regcall'[u].op = "commit" => account'[regcall'[u].i] # NoAccount
    <3>1. regcall[u].op = "commit" => regcall[u].i \in Identifiers
      BY <1>1, RegCallTypes
    <3>. QED
      BY <1>9, <1>13, <3>1 DEF RegInv, CallsPrepared, Holding
  <2>. QED
    BY <2>1, <2>2 DEF CallsPrepared
<1>16. CodesMatchNames' /\ PasswordsKept'
  BY <1>7, <1>14, <1>15, CopiesAsOne, PTL
<1>. QED
  BY <1>7, <1>10, <1>11, <1>15, <1>16 DEF RegInv

\* Tasks.
LEMMA RegHashes ==
  ASSUME RegInv, NEW j \in tasks, ReadPending(j) \/ \E again \in BOOLEAN : WriteHash(j, again)
  PROVE  RegInv'
<1>1. RegTypeOK /\ CopiesVouched /\ j.task = "hash"
  BY CopiesAsOne DEF RegInv, ReadPending, WriteHash
<1>2. j.i \in Identifiers /\ j.raw \in Codes /\ j.copy \in Payloads \cup {NoPayload} /\ j \in RegTasks
  BY <1>1, TaskTypes DEF RegTypeOK
<1>3. UNCHANGED <<cooling, quota, account, referral, rewarded, regcall, tocall, sent>>
  BY DEF ReadPending, WriteHash
<1>4. SentMoves
  BY <1>3 DEF SentMoves
<1>5. Given(j.i, j.raw) /\ Given(j.i, j.raw)'
  BY <1>1, <1>3 DEF CopiesVouched, Given
<1>6. \A copy \in Payloads \cup {NoPayload} :
        /\ [j EXCEPT !.copy = copy] \in RegTasks
        /\ [j EXCEPT !.copy = copy].i = j.i /\ [j EXCEPT !.copy = copy].raw = j.raw
        /\ [j EXCEPT !.copy = copy].copy = copy
  <2>1. j \in [task : {"hash"}, i : Identifiers, raw : Codes, copy : Payloads \cup {NoPayload}]
    BY <1>1, <1>2 DEF RegTasks
  <2>. QED
    BY <2>1 DEF RegTasks
<1>7. CASE ReadPending(j)
  <2>1. pendings' = pendings /\ pendings[j.i] \in Payloads \cup {NoPayload}
    BY <1>1, <1>2, <1>7 DEF ReadPending, RegTypeOK
  <2>2. pendings[j.i] # NoPayload => Vouched(j.i, pendings[j.i])'
    BY <1>1, <1>2, <1>3, <2>1 DEF CopiesVouched, Vouched, Given
  <2>. DEFINE new == [j EXCEPT !.copy = pendings[j.i]]
  <2>3. tasks' \subseteq tasks \cup {new} /\ (pendings[j.i] = NoPayload => tasks' \subseteq tasks)
    BY <1>7 DEF ReadPending
  <2>4. new \in RegTasks /\ new.i = j.i /\ new.raw = j.raw /\ new.copy = pendings[j.i]
    BY <1>6, <2>1
  <2>. HIDE DEF new
  <2>5. RegTypeOK'
    BY <1>1, <1>3, <2>1, <2>3, <2>4 DEF RegTypeOK
  <2>6. \A y \in tasks' : y.task = "hash" =>
          y \in tasks \/ ((y.copy # NoPayload => Vouched(y.i, y.copy)') /\ Given(y.i, y.raw)')
    <3>1. ASSUME NEW y \in tasks', y \notin tasks
          PROVE  (y.copy # NoPayload => Vouched(y.i, y.copy)') /\ Given(y.i, y.raw)'
      BY <1>3, <1>5, <2>1, <2>2, <2>3, <2>4, <3>1 DEF Vouched, Given
    <3>. QED
      BY <3>1
  <2>. QED
    BY <1>3, <1>4, <2>1, <2>5, <2>6, RegCalm
<1>8. ASSUME NEW again \in BOOLEAN, WriteHash(j, again) PROVE RegInv'
  <2>1. PICK p \in Payloads : p = j.copy
    BY <1>2, <1>8 DEF WriteHash
  <2>2. Vouched(j.i, p)
    BY <1>1, <1>8, <2>1 DEF CopiesVouched, WriteHash
  <2>3. Hashed(p, j.raw) \in Payloads
    <3>1. j.raw \in 0 .. MaxCodes /\ 0 \in 0 .. MaxCodes
      BY <1>2, RegBounds DEF Codes
    <3>. QED
      BY <3>1 DEF Hashed, Payloads
  <2>4. Hashed(p, j.raw).code = p.code /\ Hashed(p, j.raw).name = p.name
        /\ Hashed(p, j.raw).hash = j.raw
    BY DEF Hashed, Payloads
  <2>5. /\ pendings' \in [Identifiers -> Payloads \cup {NoPayload}]
        /\ \A x \in Identifiers : pendings'[x] = pendings[x] \/ (x = j.i /\ pendings'[x] = Hashed(p, j.raw))
    BY <1>1, <1>2, <1>8, <2>1, <2>3 DEF WriteHash, Put, RegTypeOK
  <2>6. \A x \in Identifiers : pendings'[x] \in {pendings[x], NoPayload} \/ Vouched(x, pendings[x])'
    <3>1. ASSUME NEW x \in Identifiers, x = j.i, pendings'[x] = Hashed(p, j.raw) PROVE Vouched(x, pendings[x])'
      <4>1. j.raw # 0
        BY <1>2, RegBounds DEF Codes
      <4>. QED
        BY <1>3, <1>5, <2>2, <2>4, <3>1, <4>1 DEF Vouched, Given
    <3>. QED
      BY <2>5, <3>1
  <2>. DEFINE new == [j EXCEPT !.copy = NoPayload]
  <2>7. tasks' \subseteq tasks \cup {new}
    BY <1>8 DEF WriteHash
  <2>8. new \in RegTasks /\ new.i = j.i /\ new.raw = j.raw /\ new.copy = NoPayload
    BY <1>6
  <2>. HIDE DEF new
  <2>9. RegTypeOK'
    BY <1>1, <1>3, <2>5, <2>7, <2>8 DEF RegTypeOK
  <2>10. \A y \in tasks' : y.task = "hash" =>
           y \in tasks \/ ((y.copy # NoPayload => Vouched(y.i, y.copy)') /\ Given(y.i, y.raw)')
    BY <1>3, <1>5, <2>7, <2>8 DEF Given
  <2>. QED
    BY <1>3, <1>4, <2>6, <2>9, <2>10, RegCalm
<1>. QED
  BY <1>7, <1>8

\* The reward of the referrer keeps it.
LEMMA RegRewards ==
  ASSUME RegInv, NEW j \in tasks, NEW again \in BOOLEAN, RewardReferrer(j, again)
  PROVE  RegInv'
<1>1. RegTypeOK /\ CopiesVouched /\ j.i \in Identifiers
  BY CopiesAsOne, TaskTypes DEF RegInv
<1>2. UNCHANGED <<pendings, cooling, quota, account, regcall, tocall, sent>> /\ tasks' \subseteq tasks
  BY DEF RewardReferrer
<1>3. /\ rewarded' \in [Identifiers -> 0 .. MaxRewards] /\ referral' \subseteq Identifiers
      /\ \A i \in Identifiers : rewarded'[i] = rewarded[i] \/ (i \in referral' /\ i = j.i)
      /\ \A i \in referral' : i \in referral \/ (i = j.i /\ Exists(i))
      /\ referral \subseteq referral'
  <2>1. CASE Exists(j.i)
    BY <1>1, <2>1, RegBounds DEF RewardReferrer, RegTypeOK
  <2>2. CASE ~Exists(j.i)
    BY <1>1, <2>2 DEF RewardReferrer, RegTypeOK
  <2>. QED
    BY <2>1, <2>2
<1>4. RegTypeOK'
  BY <1>1, <1>2, <1>3 DEF RegTypeOK
<1>5. RewardsForAccounts'
  BY <1>2, <1>3 DEF RegInv, RewardsForAccounts, Exists
<1>6. CodesMatchNames' /\ PasswordsKept' /\ CallsPrepared'
  <2>1. SentMoves
    BY <1>2 DEF SentMoves
  <2>2. CopiesVouched'
    BY <1>1, <1>2, <2>1, CopiesStay
  <2>3. CallsPrepared'
    BY <1>2 DEF RegInv, CallsPrepared, Given
  <2>. QED
    BY <1>4, <2>2, <2>3, CopiesAsOne, PTL
<1>7. AccountsVerified'
  BY <1>2 DEF RegInv, AccountsVerified, Given
<1>. QED
  BY <1>4, <1>5, <1>6, <1>7 DEF RegInv

\* However calls, tasks and expiries of staged registrations overwrite each
\* other, an account has the name and a password that were given with a code
\* sent to its own address, no two have one name, and points are paid only for
\* accounts that exist.
THEOREM RegistrationsHold == RegSpec => []RegInv
<1>1. RegInv /\ [RegNext]_regVars => RegInv'
  <2>1. ASSUME RegInv, NEW t \in RegThreads, RegCall(t) PROVE RegInv'
    BY <2>1, RegBegins, RegStarts, RegResends, RegRefuses, RegPersists, RegCommits, RegDrops DEF RegCall
  <2>2. ASSUME RegInv, UNCHANGED regVars PROVE RegInv'
    BY <2>2 DEF regVars, RegInv, RegTypeOK, CodesMatchNames, PasswordsKept, CopiesOf, Given,
       AccountsVerified, RewardsForAccounts, Exists, CallsPrepared
  <2>. QED
    BY <2>1, <2>2, RegDrops, RegHashes, RegRewards DEF RegNext
<1>. QED
  BY <1>1, RegStart, PTL DEF RegSpec

-----------------------------------------------------------------------------
(***************************************************************************)
(* Proof that a code resets the password at most once and is compared at   *)
(* most OTP_MAX_ATTEMPTS times, for every number of threads, codes and     *)
(* sessions, although the Redis lock may expire under a verification and a *)
(* refused reset is rolled back.  FreshCodes makes CredInv inductive.      *)
(***************************************************************************)

AtRow == {"compare", "matched"}

\* The beginning fits.
LEMMA CredStart == CredInit => CredInv
<1>. SUFFICES ASSUME CredInit PROVE CredInv
  OBVIOUS
<1>1. CredTypeOK
  <2>1. NoOtp \in OtpRows /\ NoCredCall \in CredCalls
    BY DEF NoOtp, OtpRows, NoCredCall, CredCalls
  <2>2. otp \in [ResetCodes -> OtpRows] /\ credcall \in [CredThreads -> CredCalls]
    BY <2>1 DEF CredInit
  <2>3. device \in Devices
    BY DEF CredInit, Devices
  <2>4. failures \in 0 .. LoginFailures + 1 /\ credtogo \in 0 .. MaxCredCalls
    BY CredLimits, CredBounds DEF CredInit
  <2>5. /\ guesses \in [ResetCodes -> Nat] /\ tried \in [ResetCodes -> Nat]
        /\ resets \in [ResetCodes -> Nat] /\ rowHolder \in [ResetCodes -> SUBSET CredThreads]
        /\ session \in [Sessions -> {"none", "live", "black"}]
    BY DEF CredInit
  <2>6. resetCool \in BOOLEAN /\ lockedOut \in BOOLEAN /\ verifier = {} /\ password = 0
    BY DEF CredInit
  <2>. QED
    BY <2>2, <2>3, <2>4, <2>5, <2>6 DEF CredTypeOK
<1>2. CodesResetOnce /\ GuessesBounded /\ RowsHeld /\ FreshCodes
  BY CredLimits DEF CredInit, CodesResetOnce, GuessesBounded, RowsHeld, FreshCodes, NoOtp, NoCredCall
<1>. QED
  BY <1>1, <1>2 DEF CredInv

\* What a verification carries.
LEMMA CallAtRow ==
  ASSUME CredTypeOK, NEW t \in CredThreads, credcall[t].op \in AtRow
  PROVE  credcall[t].k \in ResetCodes
<1>. credcall[t] \in CredCalls
  BY DEF CredTypeOK
<1>. QED
  BY DEF CredCalls, NoCredCall, AtRow

\* A step that leaves the codes and the verifications alone.
LEMMA ElsewhereKeeps ==
  ASSUME CredInv, CredTypeOK', UNCHANGED <<otp, guesses, rowHolder, tried, resets>>,
         \A z \in CredThreads : credcall'[z].op \in AtRow => credcall'[z] = credcall[z]
  PROVE  CredInv'
<1>1. CodesResetOnce' /\ GuessesBounded'
  BY DEF CredInv, CodesResetOnce, GuessesBounded
<1>2. RowsHeld' /\ FreshCodes'
  BY DEF CredInv, RowsHeld, FreshCodes, AtRow
<1>. QED
  BY <1>1, <1>2 DEF CredInv

\* The calls that do not verify a code.
LEMMA AcceptedElsewhere ==
  ASSUME CredTypeOK, NEW t \in CredThreads, NEW c \in CredCalls, c.op \notin AtRow,
         Accept(t, c) \/ Proceed(t, c)
  PROVE  /\ credcall' \in [CredThreads -> CredCalls] /\ credtogo' \in 0 .. MaxCredCalls
         /\ \A z \in CredThreads : credcall'[z].op \in AtRow => credcall'[z] = credcall[z]
<1>1. credcall' = [credcall EXCEPT ![t] = c]
  BY DEF Accept, Proceed
<1>2. credtogo' \in 0 .. MaxCredCalls
  BY CredBounds DEF Accept, Proceed, CredTypeOK
<1>. QED
  BY <1>1, <1>2 DEF CredTypeOK

\* Calls that hold nothing are typed.
LEMMA PlainCalls ==
  /\ NoCredCall \in CredCalls /\ NoCredCall.op \notin AtRow
  /\ \A o \in {"request", "invalidated", "login", "change", "revoke", "trust", "push"} :
       [op |-> o] \in CredCalls /\ [op |-> o].op \notin AtRow
  /\ \A g \in 0 .. MaxResetCodes :
       [op |-> "verify", guess |-> g] \in CredCalls /\ [op |-> "verify", guess |-> g].op \notin AtRow
  /\ \A n \in Sessions :
       [op |-> "refresh", n |-> n] \in CredCalls /\ [op |-> "refresh", n |-> n].op \notin AtRow
BY DEF CredCalls, NoCredCall, AtRow

\* Sessions that open or are revoked are typed.
LEMMA SessionsTyped ==
  ASSUME session \in [Sessions -> {"none", "live", "black"}],
         RevokeAll \/ \E from : NewSession(from)
  PROVE  session' \in [Sessions -> {"none", "live", "black"}]
<1>1. CASE RevokeAll
  BY <1>1 DEF RevokeAll
<1>2. CASE \E from : NewSession(from)
  BY <1>2 DEF NewSession
<1>. QED
  BY <1>1, <1>2

\* Devices that are registered or trusted are typed.
LEMMA DevicesTyped ==
  /\ [deleted |-> TRUE, trusted |-> FALSE, push |-> FALSE] \in Devices
  /\ \A d \in Devices, b \in BOOLEAN :
       /\ [d EXCEPT !.deleted = FALSE, !.push = b] \in Devices
       /\ [d EXCEPT !.trusted = TRUE] \in Devices
       /\ [d EXCEPT !.push = TRUE] \in Devices
BY DEF Devices

\* Logins, refreshes, logouts, changes of the password and of a device.
LEMMA AccountCallsKeep ==
  ASSUME CredInv, NEW t \in CredThreads,
         \/ BeginReset(t)
         \/ \E right \in BOOLEAN : BeginLogin(t, right)
         \/ CommitLogin(t) \/ CommitRefresh(t) \/ LogoutEverywhere(t)
         \/ BeginChange(t) \/ CommitChange(t)
         \/ \E n \in Sessions : BeginRefresh(t, n) \/ Logout(t, n)
         \/ \E op \in {"trust", "push", "revoke"} : BeginDevice(t, op)
         \/ CommitDevice(t)
  PROVE  CredInv'
<1>0. CredTypeOK
  BY DEF CredInv
<1>1. \E c \in CredCalls : c.op \notin AtRow /\ (Accept(t, c) \/ Proceed(t, c))
  BY PlainCalls DEF BeginReset, BeginLogin, CommitLogin, CommitRefresh, LogoutEverywhere, BeginChange,
                    CommitChange, BeginRefresh, Logout, BeginDevice, CommitDevice, Done
<1>2. /\ credcall' \in [CredThreads -> CredCalls] /\ credtogo' \in 0 .. MaxCredCalls
      /\ \A z \in CredThreads : credcall'[z].op \in AtRow => credcall'[z] = credcall[z]
  BY <1>0, <1>1, AcceptedElsewhere
<1>3. UNCHANGED otpVars
  BY DEF BeginReset, BeginLogin, CommitLogin, CommitRefresh, LogoutEverywhere, BeginChange,
         CommitChange, BeginRefresh, Logout, BeginDevice, CommitDevice
<1>4. session' \in [Sessions -> {"none", "live", "black"}]
  BY <1>0, SessionsTyped
    DEF BeginReset, BeginLogin, CommitLogin, CommitRefresh, LogoutEverywhere, BeginChange,
        CommitChange, BeginRefresh, Logout, BeginDevice, CommitDevice, CredTypeOK
<1>5. device' \in Devices
  <2>1. device \in Devices
    BY <1>0 DEF CredTypeOK
  <2>2. CASE CommitLogin(t)
    BY <2>1, <2>2, DevicesTyped DEF CommitLogin
  <2>3. CASE CommitDevice(t)
    BY <2>1, <2>3, DevicesTyped DEF CommitDevice
  <2>4. CASE LogoutEverywhere(t)
    BY <2>4, DevicesTyped DEF LogoutEverywhere
  <2>5. CASE device' = device
    BY <2>1, <2>5
  <2>. QED
    BY <2>2, <2>3, <2>4, <2>5 DEF BeginReset, BeginLogin, CommitLogin, CommitRefresh, LogoutEverywhere, BeginChange,
        CommitChange, BeginRefresh, Logout, BeginDevice, CommitDevice, authVars
<1>6. password' \in Nat /\ failures' \in 0 .. LoginFailures + 1 /\ lockedOut' \in BOOLEAN
  <2>1. password \in Nat /\ failures \in 0 .. LoginFailures + 1 /\ lockedOut \in BOOLEAN
    BY <1>0 DEF CredTypeOK
  <2>2. password' \in {password, password + 1}
    BY DEF BeginReset, BeginLogin, CommitLogin, CommitRefresh, LogoutEverywhere, BeginChange,
        CommitChange, BeginRefresh, Logout, BeginDevice, CommitDevice, otpVars, authVars
  <2>3. failures' \in 0 .. LoginFailures + 1 /\ lockedOut' \in BOOLEAN
    <3>1. CASE \E right \in BOOLEAN : BeginLogin(t, right)
      <4>. PICK right \in BOOLEAN : BeginLogin(t, right)
        BY <3>1
      <4>1. CASE right
        BY <2>1, <4>1 DEF BeginLogin
      <4>2. CASE ~right
        <5>1. /\ failures' = IF failures > LoginFailures THEN failures ELSE failures + 1
              /\ lockedOut' = (failures' > LoginFailures)
          BY <4>2 DEF BeginLogin
        <5>2. failures' \in 0 .. LoginFailures + 1
          BY <2>1, <5>1, CredLimits
        <5>3. lockedOut' \in BOOLEAN
          BY <5>1
        <5>. QED
          BY <5>2, <5>3
      <4>. QED
        BY <4>1, <4>2
    <3>2. CASE CommitLogin(t)
      <4>1. failures' = 0 /\ lockedOut' = lockedOut
        BY <3>2 DEF CommitLogin
      <4>. QED
        BY <2>1, <4>1, CredLimits
    <3>3. CASE UNCHANGED <<failures, lockedOut>>
      BY <2>1, <3>3
    <3>4. ASSUME \/ BeginReset(t) \/ CommitRefresh(t) \/ LogoutEverywhere(t)
                 \/ BeginChange(t) \/ CommitChange(t) \/ CommitDevice(t)
          PROVE  UNCHANGED <<failures, lockedOut>>
      BY <3>4 DEF BeginReset, CommitRefresh, LogoutEverywhere, BeginChange, CommitChange,
                  CommitDevice, authVars
    <3>5. ASSUME NEW n \in Sessions, BeginRefresh(t, n) \/ Logout(t, n)
          PROVE  UNCHANGED <<failures, lockedOut>>
      BY <3>5 DEF BeginRefresh, Logout, authVars
    <3>6. ASSUME NEW op \in {"trust", "push", "revoke"}, BeginDevice(t, op)
          PROVE  UNCHANGED <<failures, lockedOut>>
      BY <3>6 DEF BeginDevice, authVars
    <3>. QED
      BY <3>1, <3>2, <3>3, <3>4, <3>5, <3>6
  <2>. QED
    BY <2>1, <2>2, <2>3
<1>7. CredTypeOK'
  BY <1>0, <1>2, <1>3, <1>4, <1>5, <1>6 DEF CredTypeOK, otpVars
<1>. QED
  BY <1>2, <1>3, <1>7, ElsewhereKeeps DEF otpVars

\* A verification that begins or finds nothing, and what time does.
LEMMA OutsideRowKeeps ==
  ASSUME CredInv, NEW t \in CredThreads,
         \/ NoOtpLeft(t)
         \/ \E guess \in 0 .. MaxResetCodes : Confirm(t, guess)
  PROVE  CredInv'
<1>0. CredTypeOK
  BY DEF CredInv
<1>1. \E c \in CredCalls : c.op \notin AtRow /\ (Accept(t, c) \/ Proceed(t, c))
  BY PlainCalls DEF NoOtpLeft, Confirm, Done
<1>2. /\ credcall' \in [CredThreads -> CredCalls] /\ credtogo' \in 0 .. MaxCredCalls
      /\ \A z \in CredThreads : credcall'[z].op \in AtRow => credcall'[z] = credcall[z]
  BY <1>0, <1>1, AcceptedElsewhere
<1>3. CredTypeOK'
  BY <1>0, <1>2 DEF NoOtpLeft, Confirm, CredTypeOK, authVars
<1>. QED
  BY <1>2, <1>3, ElsewhereKeeps DEF NoOtpLeft, Confirm

\* What time takes away keeps the invariant.
LEMMA TimeKeeps ==
  ASSUME CredInv,
         VerifierExpires \/ ResetCoolEnds \/ LockoutEnds \/ \E k \in ResetCodes : OtpExpires(k)
  PROVE  CredInv'
<1>0. CredTypeOK /\ CodesResetOnce /\ GuessesBounded /\ RowsHeld /\ FreshCodes
  BY DEF CredInv
<1>1. CASE VerifierExpires \/ ResetCoolEnds \/ LockoutEnds
  <2>. USE DEF VerifierExpires, ResetCoolEnds, LockoutEnds, otpVars, authVars
  <2>0. /\ verifier \subseteq CredThreads /\ resetCool \in BOOLEAN
        /\ lockedOut \in BOOLEAN /\ failures \in 0 .. LoginFailures + 1
    BY <1>0 DEF CredTypeOK
  <2>1. /\ verifier' \subseteq CredThreads /\ resetCool' \in BOOLEAN
        /\ lockedOut' \in BOOLEAN /\ failures' \in 0 .. LoginFailures + 1
    <3>1. verifier' \in {verifier, {}} /\ resetCool' \in {resetCool, FALSE}
      BY <1>1
    <3>2. lockedOut' \in {lockedOut, FALSE} /\ failures' \in {failures, 0}
      BY <1>1
    <3>3. 0 \in 0 .. LoginFailures + 1
      BY CredLimits
    <3>. QED
      BY <2>0, <3>1, <3>2, <3>3
  <2>2. UNCHANGED <<otp, guesses, rowHolder, tried, resets, password, session, device, credcall, credtogo>>
    BY <1>1
  <2>3. CredTypeOK'
    BY <1>0, <2>1, <2>2 DEF CredTypeOK
  <2>. QED
    BY <2>2, <2>3, ElsewhereKeeps
<1>2. ASSUME NEW k \in ResetCodes, OtpExpires(k) PROVE CredInv'
  <2>1. UNCHANGED <<resetCool, verifier, rowHolder, tried, resets, authVars, password, session,
                    credcall, credtogo>>
    BY <1>2 DEF OtpExpires
  <2>2. /\ otp' \in [ResetCodes -> OtpRows] /\ guesses' \in [ResetCodes -> Nat]
        /\ \A j \in ResetCodes :
             /\ otp'[j].there = otp[j].there /\ otp'[j].used = otp[j].used
             /\ ~otp'[j].late => ~otp[j].late /\ guesses'[j] = guesses[j]
    <3>1. CASE ~otp[k].late /\ otp' = [otp EXCEPT ![k].late = TRUE] /\ UNCHANGED guesses
      BY <1>0, <3>1 DEF CredTypeOK, OtpRows
    <3>2. CASE otp[k].late /\ guesses' = [guesses EXCEPT ![k] = 0] /\ UNCHANGED otp
      BY <1>0, <3>2 DEF CredTypeOK
    <3>. QED
      BY <1>2, <3>1, <3>2 DEF OtpExpires
  <2>3. CredTypeOK'
    BY <1>0, <2>1, <2>2 DEF CredTypeOK, authVars
  <2>4. CodesResetOnce' /\ GuessesBounded'
    BY <1>0, <2>1, <2>2 DEF CodesResetOnce, GuessesBounded
  <2>5. RowsHeld'
    BY <1>0, <2>1 DEF RowsHeld
  <2>6. FreshCodes'
    BY <1>0, <2>1, <2>2, CallAtRow DEF FreshCodes, AtRow
  <2>. QED
    BY <2>3, <2>4, <2>5, <2>6 DEF CredInv
<1>. QED
  BY <1>1, <1>2

\* A new code: the older ones are marked, and the next row is a fresh one.
LEMMA IssueKeeps ==
  ASSUME CredInv, NEW t \in CredThreads, Invalidate(t) \/ CreateOtp(t)
  PROVE  CredInv'
<1>0. CredTypeOK /\ CodesResetOnce /\ GuessesBounded /\ RowsHeld /\ FreshCodes
  BY DEF CredInv
<1>1. \E c \in CredCalls : c.op \notin AtRow /\ (Accept(t, c) \/ Proceed(t, c))
  BY PlainCalls DEF Invalidate, CreateOtp, Done
<1>2. /\ credcall' \in [CredThreads -> CredCalls] /\ credtogo' \in 0 .. MaxCredCalls
      /\ \A z \in CredThreads : credcall'[z].op \in AtRow => credcall'[z] = credcall[z]
  BY <1>0, <1>1, AcceptedElsewhere
<1>3. UNCHANGED <<verifier, rowHolder, tried, resets, authVars, password, session>>
  BY DEF Invalidate, CreateOtp
<1>4. /\ otp' \in [ResetCodes -> OtpRows] /\ guesses' \in [ResetCodes -> Nat]
      /\ resetCool' \in BOOLEAN
      /\ \A k \in ResetCodes :
           \/ /\ otp'[k].there = otp[k].there /\ (otp[k].used => otp'[k].used)
              /\ otp'[k].late = otp[k].late /\ guesses'[k] = guesses[k]
           \/ ~otp[k].there /\ otp'[k].there
  <2>1. CASE Invalidate(t)
    BY <1>0, <2>1 DEF Invalidate, CredTypeOK, OtpRows
  <2>2. CASE CreateOtp(t)
    <3>. PICK k \in ResetCodes :
           /\ ~otp[k].there
           /\ otp' = [otp EXCEPT ![k] = [there |-> TRUE, used |-> FALSE, late |-> FALSE]]
           /\ guesses' = [guesses EXCEPT ![k] = 0]
      BY <2>2 DEF CreateOtp
    <3>1. [there |-> TRUE, used |-> FALSE, late |-> FALSE] \in OtpRows
      BY DEF OtpRows
    <3>. QED
      BY <1>0, <2>2, <3>1 DEF CreateOtp, CredTypeOK
  <2>. QED
    BY <2>1, <2>2
<1>5. CredTypeOK'
  BY <1>0, <1>2, <1>3, <1>4 DEF CredTypeOK, authVars
<1>6. CodesResetOnce'
  BY <1>0, <1>3, <1>4 DEF CodesResetOnce, FreshCodes
<1>7. GuessesBounded'
  BY <1>0, <1>3, <1>4, <1>5 DEF GuessesBounded, FreshCodes, CredTypeOK
<1>8. RowsHeld'
  BY <1>0, <1>2, <1>3 DEF RowsHeld, AtRow
<1>9. FreshCodes'
  BY <1>0, <1>2, <1>3, <1>4, CallAtRow DEF FreshCodes, AtRow
<1>. QED
  BY <1>5, <1>6, <1>7, <1>8, <1>9 DEF CredInv

\* Reading the row of a code keeps it.
LEMMA SelectKeeps ==
  ASSUME CredInv, NEW t \in CredThreads, SelectOtp(t)
  PROVE  CredInv'
<1>0. CredTypeOK /\ CodesResetOnce /\ GuessesBounded /\ RowsHeld /\ FreshCodes
  BY DEF CredInv
<1>. DEFINE g == credcall[t].guess
<1>1. g \in 0 .. MaxResetCodes
  <2>. credcall[t] \in CredCalls /\ credcall[t].op = "verify"
    BY <1>0 DEF CredTypeOK, SelectOtp
  <2>. QED
    BY DEF CredCalls, NoCredCall
<1>2. PICK k \in ResetCodes :
        /\ Latest(k) /\ rowHolder[k] = {}
        /\ rowHolder' = [rowHolder EXCEPT ![k] = {t}]
        /\ Proceed(t, [op |-> "compare", guess |-> g, k |-> k])
  BY DEF SelectOtp
<1>3. UNCHANGED <<otp, guesses, resetCool, verifier, tried, resets, authVars, password, session, credtogo>>
  BY <1>2 DEF SelectOtp, Proceed
<1>4. otp[k].there
  BY <1>0, <1>2 DEF Latest, FreshCodes
<1>. DEFINE c == [op |-> "compare", guess |-> g, k |-> k]
<1>5. c \in CredCalls /\ c.k = k
  BY <1>1 DEF CredCalls
<1>6. credcall' = [credcall EXCEPT ![t] = c]
  BY <1>2 DEF Proceed
<1>. HIDE DEF c, g
<1>7. /\ credcall' \in [CredThreads -> CredCalls]
      /\ \A z \in CredThreads : credcall'[z] = IF z = t THEN c ELSE credcall[z]
  BY <1>0, <1>5, <1>6 DEF CredTypeOK
<1>8. /\ rowHolder' \in [ResetCodes -> SUBSET CredThreads]
      /\ \A j \in ResetCodes : rowHolder'[j] = IF j = k THEN {t} ELSE rowHolder[j]
  BY <1>0, <1>2 DEF CredTypeOK
<1>9. CredTypeOK'
  BY <1>0, <1>3, <1>7, <1>8 DEF CredTypeOK, authVars
<1>10. CodesResetOnce' /\ GuessesBounded'
  BY <1>0, <1>3 DEF CodesResetOnce, GuessesBounded
<1>11. RowsHeld'
  <2>1. ASSUME NEW z \in CredThreads, z # t, credcall[z].op \in AtRow
        PROVE  credcall[z].k # k /\ credcall[z].k \in ResetCodes
    BY <1>0, <1>2, <2>1, CallAtRow DEF RowsHeld, AtRow
  <2>. QED
    BY <1>0, <1>5, <1>7, <1>8, <2>1 DEF RowsHeld, AtRow
<1>12. FreshCodes'
  BY <1>0, <1>3, <1>4, <1>5, <1>7 DEF FreshCodes
<1>. QED
  BY <1>9, <1>10, <1>11, <1>12 DEF CredInv

\* At the row: an attempt is counted before it is compared, and the reset
\* asks again whether the code is unused.
LEMMA RowFreed ==
  ASSUME CredInv, NEW t \in CredThreads, credcall[t].op \in AtRow,
         CredTypeOK', credcall' = [credcall EXCEPT ![t] = NoCredCall],
         rowHolder' = [rowHolder EXCEPT ![credcall[t].k] = {}]
  PROVE  RowsHeld'
<1>0. CredTypeOK /\ RowsHeld
  BY DEF CredInv
<1>1. credcall[t].k \in ResetCodes
  BY <1>0, CallAtRow
<1>2. ASSUME NEW z \in CredThreads, credcall'[z].op \in AtRow
      PROVE  rowHolder'[credcall'[z].k] = {z}
  <2>1. z # t /\ credcall'[z] = credcall[z]
    BY <1>0, <1>2 DEF CredTypeOK, NoCredCall, AtRow
  <2>2. rowHolder[credcall[z].k] = {z} /\ credcall[z].k # credcall[t].k /\ credcall[z].k \in ResetCodes
    BY <1>0, <1>2, <2>1, CallAtRow DEF RowsHeld, AtRow
  <2>. QED
    BY <1>0, <1>1, <2>1, <2>2 DEF CredTypeOK
<1>. QED
  BY <1>2 DEF RowsHeld, AtRow

\* Ending a reset keeps it.
LEMMA ConfirmResetKeeps ==
  ASSUME CredInv, NEW t \in CredThreads, ConfirmReset(t)
  PROVE  CredInv'
<1>0. CredTypeOK /\ CodesResetOnce /\ GuessesBounded /\ RowsHeld /\ FreshCodes
  BY DEF CredInv
<1>. DEFINE k == credcall[t].k
<1>1. k \in ResetCodes /\ credcall[t].op \in AtRow /\ otp[k].there
  BY <1>0, CallAtRow DEF ConfirmReset, AtRow, FreshCodes
<1>2. /\ rowHolder' = [rowHolder EXCEPT ![k] = {}]
      /\ credcall' = [credcall EXCEPT ![t] = NoCredCall] /\ UNCHANGED credtogo
      /\ UNCHANGED <<guesses, resetCool, verifier, tried, authVars>>
  BY DEF ConfirmReset, Done, Proceed
<1>3. \/ otp[k].used /\ UNCHANGED <<otp, resets, password, session>>
      \/ /\ ~otp[k].used /\ otp' = [otp EXCEPT ![k].used = TRUE]
         /\ resets' = [resets EXCEPT ![k] = resets[k] + 1]
         /\ password' = password + 1 /\ RevokeAll
  BY DEF ConfirmReset
<1>. HIDE DEF k
<1>4. NoCredCall \in CredCalls
  BY PlainCalls
<1>5. otp' \in [ResetCodes -> OtpRows] /\ resets' \in [ResetCodes -> Nat] /\ password' \in Nat
  <2>1. [otp[k] EXCEPT !.used = TRUE] \in OtpRows
    BY <1>0, <1>1 DEF CredTypeOK, OtpRows
  <2>2. otp' = otp \/ otp' = [otp EXCEPT ![k] = [otp[k] EXCEPT !.used = TRUE]]
    BY <1>3
  <2>3. otp' \in [ResetCodes -> OtpRows]
    BY <1>0, <2>1, <2>2 DEF CredTypeOK
  <2>4. resets' \in [ResetCodes -> Nat] /\ password' \in Nat
    BY <1>0, <1>1, <1>3 DEF CredTypeOK
  <2>. QED
    BY <2>3, <2>4
<1>6. session' \in [Sessions -> {"none", "live", "black"}]
  BY <1>0, <1>3, SessionsTyped DEF CredTypeOK
<1>7. CredTypeOK'
  BY <1>0, <1>1, <1>2, <1>4, <1>5, <1>6 DEF CredTypeOK, authVars
<1>8. /\ resets[k] = 1 => otp[k].used
      /\ \A j \in ResetCodes : resets[j] \in Nat /\ resets[j] <= 1
  BY <1>0, <1>1 DEF CodesResetOnce, CredTypeOK
<1>9. \A j \in ResetCodes :
        /\ otp'[j].there = otp[j].there /\ otp'[j].late = otp[j].late
        /\ otp[j].used => otp'[j].used
        /\ j # k => resets'[j] = resets[j]
        /\ resets'[j] # resets[j] => resets'[j] = resets[j] + 1 /\ ~otp[j].used /\ otp'[j].used
  BY <1>0, <1>1, <1>3 DEF CredTypeOK, OtpRows
<1>10. CodesResetOnce'
  BY <1>0, <1>8, <1>9 DEF CodesResetOnce
<1>11. GuessesBounded'
  BY <1>0, <1>2, <1>9 DEF GuessesBounded
<1>12. RowsHeld'
  BY <1>1, <1>2, <1>7, RowFreed DEF k
<1>13. FreshCodes'
  <2>1. ASSUME NEW z \in CredThreads, credcall'[z].op \in AtRow
        PROVE  otp'[credcall'[z].k].there
    <3>1. credcall'[z] = credcall[z]
      BY <1>0, <1>2, <2>1 DEF CredTypeOK, NoCredCall, AtRow
    <3>2. credcall[z].k \in ResetCodes /\ otp[credcall[z].k].there
      BY <1>0, <2>1, <3>1, CallAtRow DEF FreshCodes, AtRow
    <3>. QED
      BY <1>9, <3>1, <3>2
  <2>2. ASSUME NEW j \in ResetCodes, ~otp'[j].there
        PROVE  otp'[j].used /\ tried'[j] = 0 /\ resets'[j] = 0
    BY <1>0, <1>2, <1>9, <2>2 DEF FreshCodes
  <2>. QED
    BY <2>1, <2>2 DEF FreshCodes, AtRow
<1>. QED
  BY <1>7, <1>10, <1>11, <1>12, <1>13 DEF CredInv

\* Comparing a code keeps it.
LEMMA CompareKeeps ==
  ASSUME CredInv, NEW t \in CredThreads, CompareCode(t)
  PROVE  CredInv'
<1>0. CredTypeOK /\ CodesResetOnce /\ GuessesBounded /\ RowsHeld /\ FreshCodes
  BY DEF CredInv
<1>. DEFINE k == credcall[t].k
<1>1. k \in ResetCodes /\ credcall[t].op = "compare" /\ otp[k].there
  BY <1>0, CallAtRow DEF CompareCode, AtRow, FreshCodes
<1>2. /\ UNCHANGED <<otp, resetCool, resets, authVars, password, session, credtogo>>
      /\ verifier' = verifier \ {t}
  BY DEF CompareCode, Done, Proceed
<1>3. \/ /\ credcall' = [credcall EXCEPT ![t] = [op |-> "matched", k |-> k]] /\ UNCHANGED rowHolder
      \/ /\ credcall' = [credcall EXCEPT ![t] = NoCredCall]
         /\ rowHolder' = [rowHolder EXCEPT ![k] = {}]
  BY DEF CompareCode, Done, Proceed
<1>4. \/ otp[k].late /\ UNCHANGED <<guesses, tried>>
      \/ /\ ~otp[k].late
         /\ guesses' = [guesses EXCEPT ![k] = guesses[k] + 1]
         /\ tried' = [tried EXCEPT ![k] = IF guesses'[k] <= MaxGuesses THEN tried[k] + 1 ELSE tried[k]]
  BY DEF CompareCode, MayCompare
<1>. HIDE DEF k
<1>5. /\ guesses' \in [ResetCodes -> Nat] /\ tried' \in [ResetCodes -> Nat]
      /\ \A j \in ResetCodes \ {k} : guesses'[j] = guesses[j] /\ tried'[j] = tried[j]
      /\ ~otp[k].late => /\ guesses'[k] = guesses[k] + 1
                         /\ \/ tried'[k] = tried[k]
                            \/ guesses'[k] <= MaxGuesses /\ tried'[k] = tried[k] + 1
      /\ otp[k].late => tried'[k] = tried[k]
  BY <1>0, <1>1, <1>4 DEF CredTypeOK
<1>6. [op |-> "matched", k |-> k] \in CredCalls /\ NoCredCall \in CredCalls
  BY <1>1 DEF CredCalls
<1>7. credcall' \in [CredThreads -> CredCalls] /\ rowHolder' \in [ResetCodes -> SUBSET CredThreads]
  BY <1>0, <1>1, <1>3, <1>6 DEF CredTypeOK
<1>8. CredTypeOK'
  BY <1>0, <1>2, <1>5, <1>7 DEF CredTypeOK, authVars
<1>9. CodesResetOnce'
  BY <1>0, <1>2 DEF CodesResetOnce
<1>10. GuessesBounded'
  <2>1. /\ guesses[k] \in Nat /\ tried[k] \in Nat /\ MaxGuesses \in Nat
        /\ tried[k] <= MaxGuesses /\ (~otp[k].late => tried[k] <= guesses[k])
    BY <1>0, <1>1, CredLimits DEF GuessesBounded, CredTypeOK
  <2>2. tried'[k] <= MaxGuesses /\ (~otp[k].late => tried'[k] <= guesses'[k])
    BY <1>5, <2>1
  <2>. QED
    BY <1>0, <1>2, <1>5, <2>2 DEF GuessesBounded
<1>11. \A z \in CredThreads : credcall'[z].op \in AtRow =>
         credcall[z].op \in AtRow /\ credcall'[z].k = credcall[z].k
  BY <1>0, <1>1, <1>3 DEF CredTypeOK, NoCredCall, AtRow, k
<1>12. RowsHeld'
  <2>1. CASE UNCHANGED rowHolder
    BY <1>0, <1>11, <2>1 DEF RowsHeld, AtRow
  <2>2. CASE /\ credcall' = [credcall EXCEPT ![t] = NoCredCall]
             /\ rowHolder' = [rowHolder EXCEPT ![k] = {}]
    BY <1>1, <1>8, <2>2, RowFreed DEF k, AtRow
  <2>. QED
    BY <1>3, <2>1, <2>2
<1>13. FreshCodes'
  <2>1. \A j \in ResetCodes : ~otp[j].there => j # k
    BY <1>1
  <2>. QED
    BY <1>0, <1>2, <1>5, <1>11, <2>1 DEF FreshCodes, AtRow
<1>. QED
  BY <1>8, <1>9, <1>10, <1>12, <1>13 DEF CredInv

\* Every step keeps it.
LEMMA CredStepKeeps == CredInv /\ [CredNext]_credVars => CredInv'
<1>. SUFFICES ASSUME CredInv, [CredNext]_credVars PROVE CredInv'
  OBVIOUS
<1>1. ASSUME NEW t \in CredThreads, CredCall(t) PROVE CredInv'
  BY <1>1, AccountCallsKeep, OutsideRowKeeps, IssueKeeps, SelectKeeps, CompareKeeps, ConfirmResetKeeps
    DEF CredCall
<1>2. CASE \/ \E k \in ResetCodes : OtpExpires(k)
           \/ VerifierExpires \/ ResetCoolEnds \/ LockoutEnds
  BY <1>2, TimeKeeps
<1>3. CASE UNCHANGED credVars
  BY <1>3 DEF credVars, otpVars, authVars, CredInv, CredTypeOK, CodesResetOnce, GuessesBounded,
              RowsHeld, FreshCodes
<1>. QED
  BY <1>1, <1>2, <1>3 DEF CredNext

\* However requests, verifications and expiries overlap, a code resets the
\* password at most once and is compared at most OTP_MAX_ATTEMPTS times.
THEOREM CodesAreSingleUse == CredSpec => []CredInv
BY CredStart, CredStepKeeps, PTL DEF CredSpec

-----------------------------------------------------------------------------
(***************************************************************************)
(* Proof that a phone catalog outgrows its limit by revived entries alone, *)
(* for every number of entries, threads and calls.  CatInv is inductive as *)
(* it stands: InsertsAlone carries what a creation knows from its count to *)
(* its insert, because the lock keeps every other creation out, deletions  *)
(* only make room and what an update brings back counts as revived; and    *)
(* RowsApart tells a revived entry from one whose update changed nothing.  *)
(***************************************************************************)

\* The entries of a catalog, or of a list of it, can be counted.
LEMMA CatalogFinite ==
  ASSUME NEW S, S \subseteq Entries
  PROVE  IsFiniteSet(S) /\ Cardinality(S) \in Nat
BY EntriesFinite, FS_Subset, FS_CardinalityType

\* What one more entry does to the number of entries.
LEMMA CatalogAdd ==
  ASSUME NEW S, S \subseteq Entries, NEW e \in Entries \ S
  PROVE  Cardinality(S \cup {e}) = Cardinality(S) + 1
BY CatalogFinite, FS_AddElement
\* Fewer entries are counted as fewer.
LEMMA CatalogRemove ==
  ASSUME NEW S, S \subseteq Entries, NEW R, R \subseteq S
  PROVE  Cardinality(R) <= Cardinality(S)
BY CatalogFinite, FS_Subset

\* The beginning fits.
LEMMA CatalogInit == CatInit => CatInv
<1>. SUFFICES ASSUME CatInit PROVE CatInv
  OBVIOUS
<1>. USE CatalogNats DEF CatInit, NoList, CatIdle
<1>1. CatTypeOK
  BY DEF CatTypeOK, CatCalls
<1>2. CatalogLimited
  <2>1. Cardinality({} \ {}) = 0
    BY FS_EmptySet
  <2>. QED
    BY <2>1 DEF CatalogLimited, Counted
<1>3. InsertsAlone /\ RowsApart
  BY DEF InsertsAlone, RowsApart
<1>. QED
  BY <1>1, <1>2, <1>3 DEF CatInv

\* The types are kept.
LEMMA CatalogTypeNext == CatTypeOK /\ [CatNext]_catVars => CatTypeOK'
<1>. SUFFICES ASSUME CatTypeOK, [CatNext]_catVars PROVE CatTypeOK'
  OBVIOUS
<1>. USE CatalogNats DEF CatTypeOK, CatCalls, CatIdle, StartCat, MoveCat, catRows
<1>1. CASE \E t \in CatalogThreads : LockUser(t) \/ CountEntries(t)
  BY <1>1 DEF LockUser, CountEntries
<1>2. CASE \E t \in CatalogThreads : InsertEntry(t) \/ InvalidateList(t)
  BY <1>2 DEF InsertEntry, InvalidateList
<1>3. CASE \E t \in CatalogThreads : LoseCall(t)
  BY <1>3 DEF LoseCall
<1>4. CASE \E t \in CatalogThreads : ListMiss(t)
  BY <1>4 DEF ListMiss
<1>5. CASE \E t \in CatalogThreads : SetList(t)
  BY <1>5 DEF SetList
<1>6. CASE ListExpires
  BY <1>6 DEF ListExpires, NoList
<1>7. CASE UNCHANGED catVars
  BY <1>7 DEF catVars
<1>8. CASE \E t \in CatalogThreads, e \in Entries, op \in {"update", "delete"} : ReadEntry(t, op, e)
  BY <1>8 DEF ReadEntry
<1>9. CASE \E t \in CatalogThreads : DeleteEntry(t) \/ UpdateEntry(t)
  BY <1>9 DEF DeleteEntry, UpdateEntry
<1>. QED
  BY <1>1, <1>2, <1>3, <1>4, <1>5, <1>6, <1>7, <1>8, <1>9 DEF CatNext

\* A step that leaves no more entries, of rows and lists, than there were
\* keeps them within the limit.
LEMMA CatalogShrinks ==
  ASSUME NEW S, S \subseteq Entries, NEW R, R \subseteq S, Cardinality(S) <= EntryLimit
  PROVE  /\ Cardinality(R) <= EntryLimit
         /\ Cardinality(S) < EntryLimit => Cardinality(R) < EntryLimit
<1>1. Cardinality(R) \in Nat /\ Cardinality(S) \in Nat /\ Cardinality(R) <= Cardinality(S)
  BY CatalogFinite, CatalogRemove
<1>. QED
  BY <1>1, CatalogNats

\* A step that moves the cached list alone.
LEMMA CatalogSame ==
  ASSUME CatInv, entries' = entries, undeleted' = undeleted, locked' = locked,
         catcall' = catcall, Cardinality(cached'.entries \ undeleted') <= EntryLimit
  PROVE  CatalogLimited' /\ InsertsAlone'
<1>1. Counted(entries)' /\ InsertsAlone'
  BY DEF CatInv, CatalogLimited, Counted, InsertsAlone
<1>2. \A S : Counted(S) => Cardinality(S \ undeleted') <= EntryLimit
  BY DEF Counted
<1>3. \A t \in CatalogThreads :
        catcall'[t].op = "list" => Cardinality(catcall'[t].seen \ undeleted') <= EntryLimit
  BY <1>2 DEF CatInv, CatalogLimited
<1>. QED
  BY <1>1, <1>3 DEF CatalogLimited, Counted

\* The rows a step leaves, or brings back as revived, count no more than before.
LEMMA CatalogRows ==
  ASSUME CatInv, CatTypeOK', entries' \ undeleted' \subseteq entries \ undeleted,
         undeleted \subseteq undeleted',
         NEW t \in CatalogThreads, NEW c, catcall' = [catcall EXCEPT ![t] = c],
         c.op \notin {"create", "insert", "list"}, locked' \in {locked, locked \ {t}},
         cached' = cached
  PROVE  CatalogLimited' /\ InsertsAlone'
<1>. USE DEF CatInv, CatTypeOK
<1>1. Counted(entries)' /\ (Cardinality(entries \ undeleted) < EntryLimit
                            => Cardinality(entries' \ undeleted') < EntryLimit)
  <2>1. entries \ undeleted \subseteq Entries
    OBVIOUS
  <2>. QED
    BY <2>1, CatalogShrinks DEF CatalogLimited, Counted
<1>2. ASSUME NEW S, S \subseteq Entries, Counted(S)
      PROVE  Cardinality(S \ undeleted') <= EntryLimit
  <2>1. S \ undeleted \subseteq Entries /\ S \ undeleted' \subseteq S \ undeleted
    BY <1>2
  <2>. QED
    BY <1>2, <2>1, CatalogShrinks DEF Counted
<1>3. \A u \in CatalogThreads : catcall'[u].op \in {"create", "insert", "list"} =>
        u # t /\ catcall'[u] = catcall[u]
  OBVIOUS
<1>4. \A u \in CatalogThreads : catcall[u].op = "list" => catcall[u].seen \subseteq Entries
  BY DEF CatCalls, CatIdle
<1>5. CatalogLimited'
  <2>1. Cardinality(cached.entries \ undeleted') <= EntryLimit
    BY <1>2 DEF CatalogLimited
  <2>2. \A u \in CatalogThreads : catcall'[u].op = "list" =>
          Cardinality(catcall'[u].seen \ undeleted') <= EntryLimit
    BY <1>2, <1>3, <1>4 DEF CatalogLimited
  <2>. QED
    BY <1>1, <2>1, <2>2 DEF CatalogLimited, Counted
<1>6. InsertsAlone'
  BY <1>1, <1>3 DEF InsertsAlone
<1>. QED
  BY <1>5, <1>6

\* A reader and its list: what was counted stays counted.
LEMMA CatalogReads ==
  ASSUME CatInv, CatTypeOK', UNCHANGED catRows,
         \E t \in CatalogThreads : LockUser(t) \/ CountEntries(t) \/ ListMiss(t) \/ SetList(t)
  PROVE  CatalogLimited' /\ InsertsAlone'
<1>. USE DEF CatInv, CatTypeOK, catRows, CatalogLimited, InsertsAlone, StartCat, MoveCat,
            CatIdle, Counted
<1>4. \A S : Counted(S) => Cardinality(S \ undeleted') <= EntryLimit
  OBVIOUS
<1>1. ASSUME NEW t \in CatalogThreads, LockUser(t)
      PROVE  CatalogLimited' /\ InsertsAlone'
  BY <1>1 DEF LockUser
<1>2. ASSUME NEW t \in CatalogThreads, CountEntries(t)
      PROVE  CatalogLimited' /\ InsertsAlone'
  <2>1. CASE MayInsert
    <3>1. Cardinality(entries \ undeleted) < EntryLimit
      <4>1. Cardinality(entries \ undeleted) <= Cardinality(entries)
        BY CatalogRemove
      <4>2. Cardinality(entries \ undeleted) \in Nat /\ Cardinality(entries) \in Nat
        BY CatalogFinite
      <4>. QED
        BY <2>1, <4>1, <4>2, CatalogNats DEF MayInsert
    <3>2. locked = {t} /\ locked' = locked /\ UNCHANGED cached
          /\ catcall' = [catcall EXCEPT ![t] = [op |-> "insert"]]
      BY <1>2, <2>1 DEF CountEntries
    <3>3. \A u \in CatalogThreads : catcall'[u] = IF u = t THEN [op |-> "insert"] ELSE catcall[u]
      BY <3>2
    <3>4. CatalogLimited'
      BY <3>2, <3>3
    <3>5. InsertsAlone'
      BY <3>1, <3>2, <3>3
    <3>. QED
      BY <3>4, <3>5
  <2>2. CASE ~MayInsert
    BY <1>2, <2>2 DEF CountEntries
  <2>. QED
    BY <2>1, <2>2
<1>3. ASSUME NEW t \in CatalogThreads, ListMiss(t) \/ SetList(t)
      PROVE  CatalogLimited' /\ InsertsAlone'
  <2>1. CASE ListMiss(t)
    <3>1. \A u \in CatalogThreads :
            catcall'[u] = IF u = t THEN [op |-> "list", seen |-> entries] ELSE catcall[u]
      BY <2>1 DEF ListMiss
    <3>2. locked' = locked /\ cached' = cached
      BY <2>1 DEF ListMiss
    <3>3. \A u \in CatalogThreads : catcall'[u].op = "list" =>
            \/ catcall'[u].seen = entries
            \/ catcall[u].op = "list" /\ catcall'[u].seen = catcall[u].seen
      BY <3>1
    <3>4. CatalogLimited'
      BY <1>4, <3>2, <3>3
    <3>5. InsertsAlone'
      <4>1. \A u \in CatalogThreads : catcall'[u].op \in {"create", "insert"} =>
              catcall'[u] = catcall[u]
        BY <3>1
      <4>2. entries' = entries /\ undeleted' = undeleted
        OBVIOUS
      <4>. QED
        BY <3>2, <4>1, <4>2
    <3>. QED
      BY <3>4, <3>5
  <2>2. CASE SetList(t)
    <3>1. \A u \in CatalogThreads : catcall'[u] = IF u = t THEN [op |-> "idle"] ELSE catcall[u]
      BY <2>2 DEF SetList
    <3>2. locked' = locked /\ catcall[t].op = "list" /\ cached'.entries = catcall[t].seen
      BY <2>2 DEF SetList
    <3>3. \A u \in CatalogThreads : catcall'[u].op = "list" =>
            catcall[u].op = "list" /\ catcall'[u].seen = catcall[u].seen
      BY <3>1
    <3>4. CatalogLimited'
      BY <1>4, <3>2, <3>3
    <3>5. InsertsAlone'
      <4>1. \A u \in CatalogThreads : catcall'[u].op \in {"create", "insert"} =>
              catcall'[u] = catcall[u]
        BY <3>1
      <4>2. entries' = entries /\ undeleted' = undeleted
        OBVIOUS
      <4>. QED
        BY <3>2, <4>1, <4>2
    <3>. QED
      BY <3>4, <3>5
  <2>. QED
    BY <1>3, <2>1, <2>2
<1>. QED
  BY <1>1, <1>2, <1>3

\* The insert, for which InsertsAlone kept room.
LEMMA CatalogInserts ==
  ASSUME CatInv, NEW t \in CatalogThreads, InsertEntry(t)
  PROVE  CatalogLimited' /\ InsertsAlone' /\ RowsApart'
<1>. USE DEF CatInv, CatTypeOK
<1>. PICK e \in Entries \ (entries \cup gone) : entries' = entries \cup {e}
  BY DEF InsertEntry
<1>1. entries' \ undeleted' = (entries \ undeleted) \cup {e} /\ e \notin entries \ undeleted
  BY DEF InsertEntry, RowsApart
<1>2. Cardinality(entries' \ undeleted') = Cardinality(entries \ undeleted) + 1
  <2>1. entries \ undeleted \subseteq Entries /\ e \in Entries \ (entries \ undeleted)
    BY <1>1
  <2>. QED
    BY <1>1, <2>1, CatalogAdd
<1>3. Cardinality(entries \ undeleted) < EntryLimit /\ Cardinality(entries \ undeleted) \in Nat
  BY CatalogFinite DEF InsertEntry, InsertsAlone
<1>4. Cardinality(entries' \ undeleted') <= EntryLimit
  BY <1>2, <1>3, CatalogNats
<1>5. CatalogLimited' /\ InsertsAlone'
  BY <1>4 DEF InsertEntry, CatalogLimited, InsertsAlone, Counted, MoveCat
<1>6. RowsApart'
  BY DEF InsertEntry, RowsApart, MoveCat
<1>. QED
  BY <1>5, <1>6

\* Rows come and go, and none is there and deleted.
LEMMA CatalogApart ==
  ASSUME CatInv, CatTypeOK', [CatNext]_catVars
  PROVE  RowsApart'
<1>. USE DEF CatInv, CatTypeOK, RowsApart, StartCat, MoveCat, CatIdle, catRows
<1>1. ASSUME NEW t \in CatalogThreads, InsertEntry(t)
      PROVE  RowsApart'
  BY <1>1, CatalogInserts
<1>2. ASSUME NEW t \in CatalogThreads, DeleteEntry(t) \/ UpdateEntry(t)
      PROVE  RowsApart'
  BY <1>2 DEF DeleteEntry, UpdateEntry
<1>3. ASSUME NEW t \in CatalogThreads, NEW e \in Entries, NEW op \in {"update", "delete"},
             ReadEntry(t, op, e)
      PROVE  RowsApart'
  BY <1>3 DEF ReadEntry
<1>4. ASSUME NEW t \in CatalogThreads,
             \/ LockUser(t) \/ CountEntries(t) \/ InvalidateList(t)
             \/ ListMiss(t) \/ SetList(t) \/ LoseCall(t)
      PROVE  RowsApart'
  BY <1>4 DEF LockUser, CountEntries, InvalidateList, ListMiss, SetList, LoseCall
<1>5. CASE ListExpires \/ UNCHANGED catVars
  BY <1>5 DEF ListExpires, catVars
<1>. QED
  BY <1>1, <1>2, <1>3, <1>4, <1>5 DEF CatNext

\* The counts under the limit, and the one creation that counts on them.
LEMMA CatalogNext == CatInv /\ [CatNext]_catVars => CatInv'
<1>. SUFFICES ASSUME CatInv, [CatNext]_catVars PROVE CatInv'
  OBVIOUS
<1>1. CatTypeOK /\ CatTypeOK' /\ RowsApart'
  BY CatalogTypeNext, CatalogApart DEF CatInv
<1>2. ASSUME NEW t \in CatalogThreads,
             LockUser(t) \/ CountEntries(t) \/ ListMiss(t) \/ SetList(t)
      PROVE  CatalogLimited' /\ InsertsAlone'
  BY <1>1, <1>2, CatalogReads DEF LockUser, CountEntries, ListMiss, SetList, catRows
<1>3. ASSUME NEW t \in CatalogThreads, InsertEntry(t)
      PROVE  CatalogLimited' /\ InsertsAlone'
  BY <1>3, CatalogInserts
<1>4. ASSUME NEW t \in CatalogThreads, NEW e \in Entries, NEW op \in {"update", "delete"},
             ReadEntry(t, op, e)
      PROVE  CatalogLimited' /\ InsertsAlone'
  BY <1>1, <1>4, CatalogRows DEF ReadEntry, StartCat, catRows
<1>5. ASSUME NEW t \in CatalogThreads, DeleteEntry(t)
      PROVE  CatalogLimited' /\ InsertsAlone'
  BY <1>1, <1>5, CatalogRows DEF DeleteEntry, MoveCat
<1>6. ASSUME NEW t \in CatalogThreads, UpdateEntry(t)
      PROVE  CatalogLimited' /\ InsertsAlone'
  <2>1. catcall[t].entry \in entries \cup gone
    BY <1>6 DEF UpdateEntry, CatInv, RowsApart
  <2>2. entries' \ undeleted' \subseteq entries \ undeleted /\ undeleted \subseteq undeleted'
    BY <1>6, <2>1 DEF UpdateEntry
  <2>. QED
    BY <1>1, <1>6, <2>2, CatalogRows DEF UpdateEntry, MoveCat
<1>7. ASSUME NEW t \in CatalogThreads, InvalidateList(t)
      PROVE  CatalogLimited' /\ InsertsAlone'
  BY <1>1, <1>7, CatalogRows DEF InvalidateList, MoveCat, CatIdle, catRows
<1>8. ASSUME NEW t \in CatalogThreads, LoseCall(t)
      PROVE  CatalogLimited' /\ InsertsAlone'
  BY <1>1, <1>8, CatalogRows DEF LoseCall, MoveCat, CatIdle, catRows
<1>9. ASSUME ListExpires
      PROVE  CatalogLimited' /\ InsertsAlone'
  <2>1. Cardinality(cached'.entries \ undeleted') = 0
    <3>1. cached'.entries \ undeleted' = {}
      BY <1>9 DEF ListExpires, NoList
    <3>. QED
      BY <3>1, FS_EmptySet
  <2>2. Cardinality(cached'.entries \ undeleted') <= EntryLimit
    BY <2>1, CatalogNats
  <2>3. /\ entries' = entries /\ undeleted' = undeleted /\ locked' = locked
        /\ catcall' = catcall
    BY <1>9 DEF ListExpires, catRows
  <2>. QED
    BY <2>2, <2>3, CatalogSame
<1>10. ASSUME UNCHANGED catVars
       PROVE  CatalogLimited' /\ InsertsAlone'
  <2>1. /\ entries' = entries /\ undeleted' = undeleted /\ locked' = locked
        /\ catcall' = catcall /\ cached' = cached
    BY <1>10 DEF catVars
  <2>2. Cardinality(cached'.entries \ undeleted') <= EntryLimit
    BY <2>1 DEF CatInv, CatalogLimited, Counted
  <2>. QED
    BY <2>1, <2>2, CatalogSame
<1>. QED
  BY <1>1, <1>2, <1>3, <1>4, <1>5, <1>6, <1>7, <1>8, <1>9, <1>10 DEF CatNext, CatInv

\* A catalog holds no more entries than its limit, nor does a list of it, but for
\* those an update in flight revived, however many calls overlap.
THEOREM CatalogNeverOutgrows == CatSpec => []CatInv
BY CatalogInit, CatalogNext, PTL DEF CatSpec

-----------------------------------------------------------------------------
(***************************************************************************)
(* Discovery: Redis never runs ahead of the tables.                        *)
(*                                                                         *)
(* A set is written by a task that wrote the row first, and rows stay; a   *)
(* location by a task or a request of somebody who reported one.           *)
(* TasksFounded carries this across the steps of a task, a worker that is  *)
(* lost and a command that fails included.                                 *)
(***************************************************************************)

\* The beginning fits.
LEMMA DiscStart == DiscInit => DiscInv
<1>. SUFFICES ASSUME DiscInit PROVE DiscInv
  OBVIOUS
<1>1. DiscTypeOK
  <2>1. [u \in People |-> [v \in People |-> "none"]] \in [People -> [People -> Statuses]]
    BY DEF Statuses
  <2>2. place \in [People -> SUBSET Spots] /\ geo \in [People -> SUBSET Spots]
        /\ meta \in [People -> SUBSET Spots]
    BY DEF DiscInit, Nowhere
  <2>3. budget \in 0 .. MaxTasks
    BY TasksNat DEF DiscInit
  <2>. QED
    BY <2>1, <2>2, <2>3 DEF DiscInit, DiscTypeOK
<1>2. HiddenWereAsked /\ ShownReported /\ TasksFounded
  BY DEF DiscInit, HiddenWereAsked, ShownReported, TasksFounded
<1>3. PlacesOnce
  BY FS_EmptySet DEF DiscInit, PlacesOnce, Nowhere
<1>. QED
  BY <1>1, <1>2, <1>3 DEF DiscInv

\* A task carries the users or the place it is about, and its steps are these.
LEMMA WorkTypes ==
  ASSUME DiscTypeOK, NEW w \in work
  PROVE  /\ w.task \in {"request", "accept", "reject", "locate", "report"} /\ w.u \in People
         /\ w.task = "report" => w.p \in Spots /\ w.at \in Commands
         /\ w.task = "locate" => w.p \in Spots /\ w.at \in {"row", "geo", "meta"}
         /\ w.task = "request" => w.v \in People /\ w.at \in {"row", "mine", "theirs"}
         /\ w.task \in {"accept", "reject"} =>
              w.v \in People /\ w.at \in {"read", "mine", "theirs", "save"}
<1>1. w \in Work
  BY DEF DiscTypeOK
<1>2. CASE w \in [task : {"request"}, u : People, v : People, at : {"row", "mine", "theirs"}]
  BY <1>2
<1>3. CASE w \in [task : {"accept", "reject"}, u : People, v : People,
                  at : {"read", "mine", "theirs", "save"}]
  BY <1>3
<1>4. CASE w \in [task : {"locate"}, u : People, p : Spots, at : {"row", "geo", "meta"}]
  BY <1>4
<1>5. CASE w \in [task : {"report"}, u : People, p : Spots, at : Commands]
  BY <1>5
<1>. QED
  BY <1>1, <1>2, <1>3, <1>4, <1>5 DEF Work

\* A task that goes to another of its steps is a task.
LEMMA StepTypes ==
  ASSUME DiscTypeOK, NEW w \in work, NEW a,
         w.task = "request" => a \in {"row", "mine", "theirs"},
         w.task \in {"accept", "reject"} => a \in {"read", "mine", "theirs", "save"},
         w.task = "locate" => a \in {"row", "geo", "meta"},
         w.task = "report" => a \in Commands
  PROVE  /\ [w EXCEPT !.at = a] \in Work
         /\ [w EXCEPT !.at = a].at = a /\ [w EXCEPT !.at = a].task = w.task
         /\ [w EXCEPT !.at = a].u = w.u
         /\ w.task \notin {"locate", "report"} => [w EXCEPT !.at = a].v = w.v
<1>1. w \in Work
  BY DEF DiscTypeOK
<1>2. CASE w \in [task : {"request"}, u : People, v : People, at : {"row", "mine", "theirs"}]
  <2>1. [w EXCEPT !.at = a] \in [task : {"request"}, u : People, v : People, at : {"row", "mine", "theirs"}]
    BY <1>2
  <2>. QED
    BY <1>2, <2>1 DEF Work
<1>3. CASE w \in [task : {"accept", "reject"}, u : People, v : People,
                  at : {"read", "mine", "theirs", "save"}]
  <2>1. [w EXCEPT !.at = a] \in [task : {"accept", "reject"}, u : People, v : People,
                  at : {"read", "mine", "theirs", "save"}]
    BY <1>3
  <2>. QED
    BY <1>3, <2>1 DEF Work
<1>4. CASE w \in [task : {"locate"}, u : People, p : Spots, at : {"row", "geo", "meta"}]
  <2>1. [w EXCEPT !.at = a] \in [task : {"locate"}, u : People, p : Spots, at : {"row", "geo", "meta"}]
    BY <1>4
  <2>. QED
    BY <1>4, <2>1 DEF Work
<1>5. CASE w \in [task : {"report"}, u : People, p : Spots, at : Commands]
  <2>1. [w EXCEPT !.at = a] \in [task : {"report"}, u : People, p : Spots, at : Commands]
    BY <1>5
  <2>. QED
    BY <1>5, <2>1 DEF Work
<1>. QED
  BY <1>1, <1>2, <1>3, <1>4, <1>5 DEF Work

\* A discovery adds one answer, of one of the three sources.
LEMMA AnswerKinds ==
  ASSUME DiscTypeOK, NEW q \in Queries, Discover(q)
  PROVE  /\ \A a \in asks' : a \in asks \/ \E shown \in SUBSET People, source \in Sources :
              /\ a = <<q, shown, source>>
              /\ \/ source = "redis" /\ shown = NearRedis(q)
                 \/ source = "rows" /\ shown = NearRows(q)
                 \/ source = "everyone" /\ shown \subseteq Unlinked(q[1])
         /\ asks' \subseteq Queries \X (SUBSET People) \X Sources
<1>1. NearRedis(q) \in SUBSET People /\ NearRows(q) \in SUBSET People /\ Unlinked(q[1]) \in SUBSET People
  BY DEF NearRedis, NearRows, Unlinked
<1>2. ASSUME NEW shown \in SUBSET People, NEW source \in Sources,
             \/ source = "redis" /\ shown = NearRedis(q)
             \/ source = "rows" /\ shown = NearRows(q)
             \/ source = "everyone" /\ shown \subseteq Unlinked(q[1]),
             asks' = asks \cup {<<q, shown, source>>}
      PROVE  /\ \A a \in asks' : a \in asks \/ \E s \in SUBSET People, o \in Sources :
                  /\ a = <<q, s, o>>
                  /\ \/ o = "redis" /\ s = NearRedis(q)
                     \/ o = "rows" /\ s = NearRows(q)
                     \/ o = "everyone" /\ s \subseteq Unlinked(q[1])
             /\ asks' \subseteq Queries \X (SUBSET People) \X Sources
  <2>1. \A a \in asks' : a \in asks \/ a = <<q, shown, source>>
    BY <1>2, Zenon
  <2>2. <<q, shown, source>> \in Queries \X (SUBSET People) \X Sources
    BY <1>2
  <2>. QED
    BY <1>2, <2>1, <2>2 DEF DiscTypeOK
<1>3. \E shown \in SUBSET People, source \in Sources :
        /\ \/ source = "redis" /\ shown = NearRedis(q)
           \/ source = "rows" /\ shown = NearRows(q)
           \/ source = "everyone" /\ shown \subseteq Unlinked(q[1])
        /\ asks' = asks \cup {<<q, shown, source>>}
  <2>1. CASE asks' = asks \cup {<<q, NearRedis(q), "redis">>}
    BY <1>1, <2>1 DEF Sources
  <2>2. CASE asks' = asks \cup {<<q, NearRows(q), "rows">>}
    BY <1>1, <2>2 DEF Sources
  <2>3. CASE asks' = asks \cup {<<q, IF q[2] = "anywhere" THEN Unlinked(q[1]) ELSE {}, "everyone">>}
    <3>1. \E shown \in SUBSET People : shown \subseteq Unlinked(q[1])
            /\ asks' = asks \cup {<<q, shown, "everyone">>}
      BY <1>1, <2>3
    <3>. QED
      BY <3>1 DEF Sources
  <2>. QED
    BY <2>1, <2>2, <2>3 DEF Discover, DiscoverFrom
<1>. QED
  BY <1>2, <1>3

\* The types are kept.
LEMMA DiscTypeNext == DiscInv /\ [DiscNext]_discVars => DiscTypeOK'
<1>. SUFFICES ASSUME DiscInv, [DiscNext]_discVars PROVE DiscTypeOK'
  OBVIOUS
<1>0. DiscTypeOK
  BY DEF DiscInv
<1>. USE <1>0, TasksNat DEF DiscTypeOK
<1>1. ASSUME NEW k \in Work, Queue(k)
      PROVE  work' \subseteq Work /\ budget' \in 0 .. MaxTasks
  BY <1>1 DEF Queue
<1>2. ASSUME NEW w \in work, NEW a, Step(w, a),
             w.task = "request" => a \in {"row", "mine", "theirs"},
             w.task \in {"accept", "reject"} => a \in {"read", "mine", "theirs", "save"},
             w.task = "locate" => a \in {"row", "geo", "meta"},
             w.task = "report" => a \in Commands
      PROVE  work' \subseteq Work
  BY <1>2, StepTypes DEF Step
<1>3. ASSUME NEW w \in work, Finish(w) PROVE work' \subseteq Work
  BY <1>3 DEF Finish
<1>4. ASSUME NEW u \in People, NEW v \in People, AskConnect(u, v), UNCHANGED told PROVE DiscTypeOK'
  <2>1. [task |-> "request", u |-> u, v |-> v, at |-> "row"] \in Work
    BY DEF Work
  <2>. QED
    BY <1>1, <1>4, <2>1 DEF AskConnect
<1>5. ASSUME NEW u \in People, NEW v \in People, NEW action \in {"accept", "reject"}, Respond(u, v, action),
             UNCHANGED told
      PROVE  DiscTypeOK'
  <2>1. [task |-> action, u |-> u, v |-> v, at |-> "read"] \in Work
    BY DEF Work
  <2>. QED
    BY <1>1, <1>5, <2>1 DEF Respond
<1>6. ASSUME NEW u \in People, NEW p \in Spots, ReportLocation(u, p) PROVE DiscTypeOK'
  <2>1. [task |-> "report", u |-> u, p |-> p, at |-> "set"] \in Work
    BY DEF Work, Commands
  <2>. QED
    BY <1>1, <1>6, <2>1 DEF ReportLocation
<1>7. ASSUME NEW w \in work, WorkerLost(w), UNCHANGED told PROVE DiscTypeOK'
  <2>1. work' \subseteq Work
    BY <1>2, <1>3, <1>7, WorkTypes DEF WorkerLost, First
  <2>. QED
    BY <1>7, <2>1 DEF WorkerLost
<1>8. ASSUME NEW w \in work, RequestRow(w), UNCHANGED told PROVE DiscTypeOK'
  <2>1. work' \subseteq Work
    BY <1>2, <1>3, <1>8 DEF RequestRow
  <2>2. link' \in [People -> [People -> Statuses]]
    <3>1. "pending" \in Statuses
      BY DEF Statuses
    <3>2. w.u \in People /\ w.v \in People
      BY <1>8, WorkTypes DEF RequestRow
    <3>3. CASE link' = link
      BY <3>3
    <3>4. CASE link' = [link EXCEPT ![w.u][w.v] = IF @ = "none" THEN "pending" ELSE @]
      BY <3>1, <3>2, <3>4
    <3>. QED
      BY <1>8, <3>3, <3>4 DEF RequestRow
  <2>. QED
    BY <1>8, <2>1, <2>2 DEF RequestRow
<1>9. ASSUME NEW w \in work, ReadRequest(w), UNCHANGED told PROVE DiscTypeOK'
  <2>1. work' \subseteq Work
    BY <1>2, <1>3, <1>9 DEF ReadRequest
  <2>. QED
    BY <1>9, <2>1 DEF ReadRequest
<1>10. ASSUME NEW w \in work, WriteSets(w), UNCHANGED told PROVE DiscTypeOK'
  <2>0. w.task \in {"request", "accept", "reject"} /\ w.u \in People /\ w.v \in People
    BY <1>10, WorkTypes DEF WriteSets
  <2>1. work' \subseteq Work
    BY <1>2, <1>3, <1>10, <2>0 DEF WriteSets
  <2>2. met' \subseteq People \X People
    BY <1>10, <2>0 DEF WriteSets
  <2>. QED
    BY <1>10, <2>1, <2>2 DEF WriteSets
<1>11. ASSUME NEW w \in work, SaveStatus(w), UNCHANGED told PROVE DiscTypeOK'
  <2>1. work' \subseteq Work
    BY <1>3, <1>11 DEF SaveStatus
  <2>2. link' \in [People -> [People -> Statuses]]
    <3>1. {"accepted", "rejected"} \subseteq Statuses
      BY DEF Statuses
    <3>. QED
      BY <1>11, <3>1, WorkTypes DEF SaveStatus
  <2>. QED
    BY <1>11, <2>1, <2>2 DEF SaveStatus
<1>12. ASSUME NEW w \in work, Locate(w), UNCHANGED told PROVE DiscTypeOK'
  <2>0. w.task = "locate" /\ w.u \in People /\ w.p \in Spots /\ w.at \in {"row", "geo", "meta"}
        /\ UNCHANGED <<link, met, results, asks, budget>>
    BY <1>12, WorkTypes DEF Locate
  <2>1. CASE w.at = "row"
    <3>1. place' = [place EXCEPT ![w.u] = {w.p}] /\ Step(w, "geo") /\ UNCHANGED <<geo, meta>>
      BY <1>12, <2>1 DEF Locate
    <3>2. place' \in [People -> SUBSET Spots]
      BY <2>0, <3>1
    <3>3. work' \subseteq Work
      BY <1>2, <2>0, <3>1
    <3>. QED
      BY <1>12, <2>0, <3>1, <3>2, <3>3
  <2>2. CASE w.at = "geo"
    BY <1>2, <1>12, <2>0, <2>2 DEF Locate, Known
  <2>3. CASE w.at = "meta"
    BY <1>3, <1>12, <2>0, <2>3 DEF Locate
  <2>. QED
    BY <2>0, <2>1, <2>2, <2>3
<1>17. ASSUME NEW w \in work, Report(w), UNCHANGED told PROVE DiscTypeOK'
  <2>0. w.task = "report" /\ w.u \in People /\ w.p \in Spots /\ w.at \in Commands
        /\ UNCHANGED <<link, met, place, asks, budget>>
    BY <1>17, WorkTypes DEF Report
  <2>1. geo' \in [People -> SUBSET Spots] /\ meta' \in [People -> SUBSET Spots]
    <3>1. geo' \in {Known(w), Unknown(w), geo}
      BY <1>17, <2>0 DEF Report, Commands
    <3>2. meta' \in {[meta EXCEPT ![w.u] = {w.p}], [meta EXCEPT ![w.u] = Nowhere], meta}
      BY <1>17, <2>0 DEF Report, Commands
    <3>3. Nowhere \in SUBSET Spots /\ {w.p} \in SUBSET Spots
      BY <2>0 DEF Nowhere
    <3>. QED
      BY <3>1, <3>2, <3>3 DEF Known, Unknown
  <2>2. \A q \in Queries : results'[q] = NoAnswer \/ results'[q] \subseteq People
    <3>1. CASE w.at = "clear"
      <4>1. \A q \in Queries : results'[q] \in {NoAnswer, results[q]}
        BY <1>17, <3>1 DEF Report
      <4>. QED
        BY <4>1
    <3>2. CASE w.at # "clear"
      BY <1>17, <2>0, <3>2 DEF Report, Commands
    <3>. QED
      BY <3>1, <3>2
  <2>3. work' \subseteq Work
    <3>1. CASE w.at = "queue"
      <4>1. [task |-> "locate", u |-> w.u, p |-> w.p, at |-> "row"] \in Work
        BY <2>0 DEF Work
      <4>. QED
        BY <1>17, <3>1, <4>1 DEF Report
    <3>2. CASE w.at # "queue"
      <4>1. \E a \in Commands : Step(w, a)
        BY <1>17, <2>0, <3>2 DEF Report, Commands
      <4>. QED
        BY <1>2, <2>0, <4>1
    <3>. QED
      BY <3>1, <3>2
  <2>. QED
    BY <1>17, <2>0, <2>1, <2>2, <2>3
<1>13. ASSUME NEW q \in Queries, Discover(q), UNCHANGED told PROVE DiscTypeOK'
  <2>1. asks' \subseteq Queries \X (SUBSET People) \X Sources
    BY <1>13, AnswerKinds
  <2>. QED
    BY <1>13, <2>1 DEF Discover
<1>14. ASSUME NEW a \in asks, GiveAnswer(a), UNCHANGED told PROVE DiscTypeOK'
  <2>1. a[1] \in Queries /\ a[2] \in SUBSET People
    OBVIOUS
  <2>2. \A q \in Queries : results'[q] = NoAnswer \/ results'[q] \subseteq People
    <3>1. \A q \in Queries : results'[q] \in {a[2], results[q]}
      BY <1>14 DEF GiveAnswer
    <3>. QED
      BY <2>1, <3>1
  <2>. QED
    BY <1>14, <2>2 DEF GiveAnswer
<1>15. ASSUME NEW q \in Queries, AnswerExpires(q), UNCHANGED told PROVE DiscTypeOK'
  <2>2. \A p \in Queries : results'[p] = NoAnswer \/ results'[p] \subseteq People
    <3>1. \A p \in Queries : results'[p] \in {NoAnswer, results[p]}
      BY <1>15 DEF AnswerExpires
    <3>. QED
      BY <3>1
  <2>. QED
    BY <1>15, <2>2 DEF AnswerExpires
<1>16. CASE UNCHANGED discVars
  BY <1>16 DEF discVars
<1>. QED
  BY <1>4, <1>5, <1>6, <1>7, <1>8, <1>9, <1>10, <1>11, <1>12, <1>13, <1>14, <1>15, <1>16, <1>17
     DEF DiscNext, DiscStep

\* A row that is there stays, whatever its status.
LEMMA RowsRemain ==
  ASSUME DiscInv, [DiscNext]_discVars
  PROVE  /\ \A u, v \in People : link[u][v] # "none" => link'[u][v] # "none"
         /\ told \subseteq told'
<1>0. DiscTypeOK
  BY DEF DiscInv
<1>1. link \in [People -> [People -> Statuses]]
  BY <1>0 DEF DiscTypeOK
<1>2. ASSUME NEW w \in work, RequestRow(w) \/ SaveStatus(w)
      PROVE  \A u, v \in People : link[u][v] # "none" => link'[u][v] # "none"
  <2>1. CASE link' = link
    BY <2>1
  <2>2. CASE link' = [link EXCEPT ![w.u][w.v] = IF @ = "none" THEN "pending" ELSE @]
    BY <1>1, <2>2
  <2>3. CASE link' = [link EXCEPT ![w.u][w.v] = IF w.task = "accept" THEN "accepted" ELSE "rejected"]
    BY <1>1, <2>3
  <2>. QED
    BY <1>2, <2>1, <2>2, <2>3 DEF RequestRow, SaveStatus
<1>3. (\E w \in work : RequestRow(w) \/ SaveStatus(w)) \/ UNCHANGED link
  BY DEF DiscNext, DiscStep, discVars, AskConnect, Respond, ReportLocation, Discover, AnswerExpires,
     ReadRequest, WriteSets, Locate, Report, WorkerLost, GiveAnswer
<1>4. told \subseteq told'
  BY DEF DiscNext, discVars, ReportLocation
<1>. QED
  BY <1>2, <1>3, <1>4

\* A task that goes on still has the row it wrote.
LEMMA FoundedNext == DiscInv /\ [DiscNext]_discVars => TasksFounded'
<1>. SUFFICES ASSUME DiscInv, [DiscNext]_discVars PROVE TasksFounded'
  OBVIOUS
<1>0. DiscTypeOK /\ TasksFounded /\ DiscTypeOK'
  BY DiscTypeNext DEF DiscInv
<1>1. link \in [People -> [People -> Statuses]]
  BY <1>0 DEF DiscTypeOK
<1>2. \A u, v \in People : link[u][v] # "none" => link'[u][v] # "none"
  BY RowsRemain
<1>3. told \subseteq told'
  BY RowsRemain
\* Nobody is linked with themselves.
<1>4. \A u \in People : link'[u][u] = "none"
  <2>1. ASSUME NEW w \in work, RequestRow(w) PROVE \A u \in People : link'[u][u] = "none"
    <3>1. CASE w.u = w.v
      BY <1>0, <2>1, <3>1 DEF RequestRow, TasksFounded
    <3>2. CASE w.u # w.v
      <4>1. link' = [link EXCEPT ![w.u][w.v] = IF @ = "none" THEN "pending" ELSE @]
        BY <2>1, <3>2 DEF RequestRow
      <4>. QED
        BY <1>0, <1>1, <3>2, <4>1 DEF TasksFounded
    <3>. QED
      BY <3>1, <3>2
  <2>2. ASSUME NEW w \in work, SaveStatus(w) PROVE \A u \in People : link'[u][u] = "none"
    <3>1. w.u \in People /\ link[w.u][w.v] # "none" /\ w.v \in People
      BY <1>0, <2>2, WorkTypes DEF SaveStatus, TasksFounded
    <3>2. w.u # w.v
      BY <1>0, <3>1 DEF TasksFounded
    <3>. QED
      BY <1>0, <1>1, <2>2, <3>2 DEF SaveStatus, TasksFounded
  <2>3. ASSUME UNCHANGED link PROVE \A u \in People : link'[u][u] = "none"
    BY <1>0, <2>3 DEF TasksFounded
  <2>. QED
    BY <2>1, <2>2, <2>3 DEF DiscNext, DiscStep, discVars, AskConnect, Respond, ReportLocation,
       Discover, AnswerExpires, ReadRequest, WriteSets, Locate, Report, WorkerLost, GiveAnswer
<1>. DEFINE Stands(x) == IF x.task \in {"locate", "report"} THEN x.u \in told'
                         ELSE x.at # "row" => link'[x.u][x.v] # "none"
\* The tasks there are.
<1>5. ASSUME NEW x \in work PROVE Stands(x)
  BY <1>0, <1>2, <1>3, WorkTypes DEF TasksFounded
\* The task that a step adds or moves.
<1>6. ASSUME NEW k, work' = work \cup {k}, Stands(k) PROVE TasksFounded'
  BY <1>4, <1>5, <1>6 DEF TasksFounded
<1>7. ASSUME work' \subseteq work PROVE TasksFounded'
  BY <1>4, <1>5, <1>7 DEF TasksFounded
<1>8. ASSUME NEW w \in work, NEW k, work' = (work \ {w}) \cup {k}, Stands(k) PROVE TasksFounded'
  BY <1>4, <1>5, <1>8 DEF TasksFounded
<1>9. ASSUME NEW u \in People, NEW v \in People, AskConnect(u, v) PROVE TasksFounded'
  BY <1>6, <1>9 DEF AskConnect, Queue
<1>10. ASSUME NEW u \in People, NEW v \in People, NEW action \in {"accept", "reject"}, Respond(u, v, action)
       PROVE  TasksFounded'
  BY <1>2, <1>6, <1>10 DEF Respond, Queue
<1>11. ASSUME NEW u \in People, NEW p \in Spots, ReportLocation(u, p) PROVE TasksFounded'
  BY <1>6, <1>11 DEF ReportLocation, Queue
<1>12. ASSUME NEW w \in work, RequestRow(w) PROVE TasksFounded'
  <2>1. CASE w.u = w.v
    BY <1>7, <1>12, <2>1 DEF RequestRow, Finish
  <2>2. CASE w.u # w.v
    <3>1. /\ link' = [link EXCEPT ![w.u][w.v] = IF @ = "none" THEN "pending" ELSE @]
          /\ Step(w, "mine") /\ w.task = "request" /\ w.u \in People /\ w.v \in People
      BY <1>0, <1>12, <2>2, WorkTypes DEF RequestRow
    <3>2. link'[w.u][w.v] # "none"
      BY <1>1, <3>1
    <3>3. Stands([w EXCEPT !.at = "mine"])
      BY <1>0, <3>1, <3>2, StepTypes
    <3>. QED
      BY <1>8, <3>1, <3>3 DEF Step
  <2>. QED
    BY <2>1, <2>2
\* A task of a row goes on.
<1>13. ASSUME NEW w \in work, NEW a, Step(w, a),
              w.task = "request" => a \in {"mine", "theirs"},
              w.task \in {"accept", "reject"} => a \in {"read", "mine", "theirs", "save"},
              w.task = "locate" => a \in {"row", "geo", "meta"},
              w.task = "report" => a \in Commands,
              w.task \notin {"locate", "report"} => w.at # "row"
       PROVE  TasksFounded'
  <2>1. Stands([w EXCEPT !.at = a])
    BY <1>0, <1>5, <1>13, StepTypes
  <2>. QED
    BY <1>8, <1>13, <2>1 DEF Step
<1>14. ASSUME NEW w \in work, ReadRequest(w) PROVE TasksFounded'
  BY <1>7, <1>13, <1>14 DEF ReadRequest, Finish
<1>15. ASSUME NEW w \in work, WriteSets(w) PROVE TasksFounded'
  <2>0. w.task \in {"request", "accept", "reject"}
    BY <1>0, <1>15, WorkTypes DEF WriteSets
  <2>. QED
    BY <1>7, <1>13, <1>15, <2>0 DEF WriteSets, Finish
<1>16. ASSUME NEW w \in work, SaveStatus(w) PROVE TasksFounded'
  BY <1>7, <1>16 DEF SaveStatus, Finish
<1>17. ASSUME NEW w \in work, Locate(w) PROVE TasksFounded'
  <2>0. w.task = "locate" /\ w.at \in {"row", "geo", "meta"}
    BY <1>0, <1>17, WorkTypes DEF Locate
  <2>1. (\E a \in {"geo", "meta"} : Step(w, a)) \/ Finish(w)
    BY <1>17, <2>0 DEF Locate
  <2>. QED
    BY <1>7, <1>13, <2>0, <2>1 DEF Finish
<1>20. ASSUME NEW w \in work, Report(w) PROVE TasksFounded'
  <2>0. w.task = "report" /\ w.at \in Commands /\ w.u \in told'
    BY <1>0, <1>5, <1>20, WorkTypes DEF Report
  <2>1. CASE w.at = "queue"
    BY <1>8, <1>20, <2>0, <2>1 DEF Report
  <2>2. CASE w.at # "queue"
    <3>1. \E a \in Commands : Step(w, a)
      BY <1>20, <2>0, <2>2 DEF Report, Commands
    <3>. QED
      BY <1>13, <2>0, <3>1
  <2>. QED
    BY <2>1, <2>2
<1>18. ASSUME NEW w \in work, WorkerLost(w) PROVE TasksFounded'
  <2>1. CASE w.task \in {"accept", "reject"}
    <3>1. Step(w, "read") /\ w.at # "row"
      BY <1>0, <1>18, <2>1, WorkTypes DEF WorkerLost, First
    <3>. QED
      BY <1>13, <2>1, <3>1
  <2>2. CASE w.task \in {"request", "locate"}
    <3>1. Step(w, "row")
      BY <1>18, <2>2 DEF WorkerLost, First
    <3>2. Stands([w EXCEPT !.at = "row"])
      BY <1>0, <1>5, <2>2, StepTypes
    <3>. QED
      BY <1>8, <3>1, <3>2 DEF Step
  <2>3. CASE w.task = "report"
    BY <1>7, <1>18, <2>3 DEF WorkerLost, Finish
  <2>. QED
    BY <1>0, <2>1, <2>2, <2>3, WorkTypes
<1>19. ASSUME UNCHANGED work PROVE TasksFounded'
  BY <1>7, <1>19
<1>. QED
  BY <1>9, <1>10, <1>11, <1>12, <1>14, <1>15, <1>16, <1>17, <1>18, <1>19, <1>20
     DEF DiscNext, DiscStep, discVars, Discover, AnswerExpires, GiveAnswer

\* The sets of Redis grow by a task that stands on its row.
LEMMA HiddenNext == DiscInv /\ [DiscNext]_discVars => HiddenWereAsked'
<1>. SUFFICES ASSUME DiscInv, [DiscNext]_discVars, NEW pair \in met'
              PROVE  \E u, v \in People : {u, v} = {pair[1], pair[2]} /\ u # v /\ link'[u][v] # "none"
  BY DEF HiddenWereAsked
<1>0. DiscTypeOK /\ TasksFounded /\ HiddenWereAsked
  BY DEF DiscInv
<1>1. \A u, v \in People : link[u][v] # "none" => link'[u][v] # "none"
  BY RowsRemain
<1>2. CASE pair \in met
  BY <1>0, <1>1, <1>2 DEF HiddenWereAsked
<1>3. CASE pair \notin met
  <2>1. PICK w \in work : WriteSets(w)
    BY <1>3 DEF DiscNext, DiscStep, discVars, AskConnect, Respond, ReportLocation, Discover,
       AnswerExpires, RequestRow, SaveStatus, ReadRequest, WorkerLost, Locate, Report, GiveAnswer
  <2>2. w.u \in People /\ w.v \in People /\ w.at # "row" /\ w.task \notin {"locate", "report"}
    BY <1>0, <2>1, WorkTypes DEF WriteSets
  <2>3. link[w.u][w.v] # "none" /\ w.u # w.v
    BY <1>0, <2>2 DEF TasksFounded
  <2>4. pair = <<w.u, w.v>> \/ pair = <<w.v, w.u>>
    BY <1>3, <2>1 DEF WriteSets
  <2>5. {w.u, w.v} = {pair[1], pair[2]}
    BY <2>4
  <2>. QED
    BY <1>1, <2>2, <2>3, <2>5
<1>. QED
  BY <1>2, <1>3

\* A near answer names people who reported a location.
LEMMA ShownNext == DiscInv /\ [DiscNext]_discVars => ShownReported'
<1>. SUFFICES ASSUME DiscInv, [DiscNext]_discVars PROVE ShownReported'
  OBVIOUS
<1>0. DiscTypeOK /\ ShownReported /\ PlacesOnce
  BY DEF DiscInv
<1>. DEFINE Good(a) == IF a[3] = "everyone" THEN a[1][1] \notin a[2] ELSE Shows(a[1], a[2])
<1>1. told \subseteq told'
  BY RowsRemain
<1>2. ASSUME \A q \in Queries : \/ results'[q] \in {NoAnswer, results[q]}
                                \/ \E a \in asks : a[1] = q /\ a[3] = "redis" /\ results'[q] = a[2],
             \A a \in asks' : a \in asks \/ Good(a)
      PROVE  ShownReported'
  <2>1. ASSUME NEW q \in Queries, results'[q] # NoAnswer
        PROVE  q[1] \notin results'[q] /\ results'[q] \subseteq told'
    BY <1>0, <1>1, <1>2, <2>1 DEF ShownReported, Shows
  <2>2. ASSUME NEW a \in asks'
        PROVE  IF a[3] = "everyone" THEN a[1][1] \notin a[2]
               ELSE a[1][1] \notin a[2] /\ a[2] \subseteq told'
    <3>1. Good(a)
      BY <1>0, <1>2 DEF ShownReported
    <3>. QED
      BY <1>1, <3>1 DEF Shows
  <2>. QED
    BY <2>1, <2>2 DEF ShownReported, Shows
<1>3. ASSUME NEW q \in Queries, Discover(q) PROVE ShownReported'
  <2>1. Shows(q, NearRedis(q)) /\ Shows(q, NearRows(q)) /\ q[1] \notin Unlinked(q[1])
    <3>1. \A v \in NearRedis(q) : geo[v] # {} /\ v \in People /\ v # q[1]
      BY DEF NearRedis
    <3>2. \A v \in NearRows(q) : place[v] # {} /\ v \in People /\ v # q[1]
      BY DEF NearRows, Unlinked, Nowhere
    <3>. QED
      BY <1>0, <3>1, <3>2 DEF Shows, PlacesOnce, Unlinked
  <2>2. ASSUME NEW a \in asks', a \notin asks PROVE Good(a)
    <3>1. PICK shown \in SUBSET People, source \in Sources :
            /\ a = <<q, shown, source>>
            /\ \/ source = "redis" /\ shown = NearRedis(q)
               \/ source = "rows" /\ shown = NearRows(q)
               \/ source = "everyone" /\ shown \subseteq Unlinked(q[1])
      BY <1>0, <1>3, <2>2, AnswerKinds
    <3>2. a[1] = q /\ a[2] = shown /\ a[3] = source
      BY <3>1
    <3>3. CASE source = "everyone"
      BY <2>1, <3>1, <3>2, <3>3
    <3>4. CASE source # "everyone"
      BY <2>1, <3>1, <3>2, <3>4
    <3>. QED
      BY <3>3, <3>4
  <2>3. results' = results
    BY <1>3 DEF Discover
  <2>. QED
    BY <1>2, <2>2, <2>3
<1>4. ASSUME NEW a \in asks, GiveAnswer(a) PROVE ShownReported'
  <2>1. \A q \in Queries : \/ results'[q] = results[q]
                           \/ a[1] = q /\ a[3] = "redis" /\ results'[q] = a[2]
    BY <1>4 DEF GiveAnswer
  <2>2. asks' \subseteq asks
    BY <1>4 DEF GiveAnswer
  <2>. QED
    BY <1>2, <2>1, <2>2
<1>5. ASSUME (\E q \in Queries : AnswerExpires(q)) \/ (\E w \in work : Report(w)) PROVE ShownReported'
  <2>1. \A q \in Queries : results'[q] \in {NoAnswer, results[q]}
    <3>1. ASSUME NEW q \in Queries, AnswerExpires(q)
          PROVE  \A p \in Queries : results'[p] \in {NoAnswer, results[p]}
      BY <3>1 DEF AnswerExpires
    <3>2. ASSUME NEW w \in work, Report(w)
          PROVE  \A p \in Queries : results'[p] \in {NoAnswer, results[p]}
      <4>1. w.at \in Commands
        BY <1>0, <3>2, WorkTypes DEF Report
      <4>. QED
        BY <3>2, <4>1 DEF Report, Commands
    <3>. QED
      BY <1>5, <3>1, <3>2
  <2>2. asks' = asks
    BY <1>5 DEF AnswerExpires, Report
  <2>. QED
    BY <1>2, <2>1, <2>2
<1>6. ASSUME UNCHANGED <<results, asks>> PROVE ShownReported'
  BY <1>2, <1>6
<1>. QED
  BY <1>3, <1>4, <1>5, <1>6 DEF DiscNext, DiscStep, discVars, AskConnect, Respond, ReportLocation,
     RequestRow, SaveStatus, ReadRequest, WriteSets, WorkerLost, Locate

\* A person has one place, and nobody knows of one that was not reported.
LEMMA PlacesNext == DiscInv /\ [DiscNext]_discVars => PlacesOnce'
<1>. SUFFICES ASSUME DiscInv, [DiscNext]_discVars PROVE PlacesOnce'
  OBVIOUS
<1>0. DiscTypeOK /\ PlacesOnce /\ TasksFounded
  BY DEF DiscInv
<1>1. place \in [People -> SUBSET Spots] /\ geo \in [People -> SUBSET Spots]
      /\ meta \in [People -> SUBSET Spots] /\ told \subseteq told'
  BY <1>0, RowsRemain DEF DiscTypeOK
\* What one step may write about one user.
<1>2. ASSUME NEW w \in work, w.u \in told,
             \A u \in People \ {w.u} : place'[u] = place[u] /\ geo'[u] \subseteq geo[u]
                                      /\ meta'[u] \subseteq meta[u],
             place'[w.u] = place[w.u] \/ Cardinality(place'[w.u]) = 1
      PROVE  PlacesOnce'
  <2>1. ASSUME NEW u \in People
        PROVE  Cardinality(place'[u]) <= 1 /\ (place'[u] \cup geo'[u] \cup meta'[u] # {} => u \in told')
    <3>1. Cardinality(place'[u]) <= 1
      BY <1>0, <1>2 DEF PlacesOnce
    <3>2. CASE u = w.u
      BY <1>1, <1>2, <3>1, <3>2
    <3>3. CASE u # w.u
      BY <1>0, <1>1, <1>2, <3>1, <3>3 DEF PlacesOnce
    <3>. QED
      BY <3>2, <3>3
  <2>. QED
    BY <2>1 DEF PlacesOnce
<1>3. ASSUME NEW w \in work, Locate(w) PROVE PlacesOnce'
  <2>0. w.task = "locate" /\ w.u \in People /\ w.at \in {"row", "geo", "meta"} /\ w.u \in told
    BY <1>0, <1>3, WorkTypes DEF Locate, TasksFounded
  <2>1. CASE w.at = "row"
    <3>1. place' = [place EXCEPT ![w.u] = {w.p}] /\ UNCHANGED <<geo, meta>>
      BY <1>3, <2>1 DEF Locate
    <3>2. place'[w.u] = {w.p} /\ \A u \in People \ {w.u} : place'[u] = place[u]
      BY <1>1, <2>0, <3>1
    <3>3. Cardinality({w.p}) = 1
      BY FS_Singleton
    <3>. QED
      BY <1>2, <2>0, <3>1, <3>2, <3>3
  <2>2. CASE w.at \in {"geo", "meta"}
    <3>1. /\ place' = place
          /\ \A u \in People \ {w.u} : geo'[u] = geo[u] /\ meta'[u] = meta[u]
      BY <1>1, <1>3, <2>2 DEF Locate, Known
    <3>. QED
      BY <1>2, <2>0, <3>1
  <2>. QED
    BY <2>0, <2>1, <2>2
<1>4. ASSUME NEW w \in work, Report(w) PROVE PlacesOnce'
  <2>0. w.u \in People /\ w.at \in Commands /\ w.u \in told
    BY <1>0, <1>4, WorkTypes DEF Report, TasksFounded
  <2>1. place' = place
    BY <1>4 DEF Report
  <2>2. \A u \in People \ {w.u} : geo'[u] = geo[u] /\ meta'[u] = meta[u]
    BY <1>1, <1>4, <2>0 DEF Report, Commands, Known, Unknown
  <2>. QED
    BY <1>2, <2>0, <2>1, <2>2
<1>5. ASSUME UNCHANGED <<place, geo, meta>> PROVE PlacesOnce'
  BY <1>0, <1>1, <1>5 DEF PlacesOnce
<1>. QED
  BY <1>3, <1>4, <1>5 DEF DiscNext, DiscStep, discVars, AskConnect, Respond, ReportLocation, Discover,
     AnswerExpires, RequestRow, SaveStatus, ReadRequest, WriteSets, WorkerLost, GiveAnswer

\* Every step keeps the invariant.
LEMMA DiscStepKeeps == DiscInv /\ [DiscNext]_discVars => DiscInv'
BY DiscTypeNext, FoundedNext, HiddenNext, ShownNext, PlacesNext DEF DiscInv

\* Redis hides only people between whom a connection was asked for, shows near
\* only people who reported a location, and nobody to themselves, however often
\* workers are lost, tasks run again and commands fail (ConnectService,
\* DiscoveryCache).
THEOREM DiscoveryHolds == DiscSpec => []DiscInv
BY DiscStart, DiscStepKeeps, PTL DEF DiscSpec

-----------------------------------------------------------------------------
(***************************************************************************)
(* The pages of a user: caches that nobody outran are current, an edit     *)
(* leaves the password alone, and what is deleted stays deleted.           *)
(* ReadersCurrent carries a page from the row to the cache, LocksApart     *)
(* keeps two writers of one row apart.                                     *)
(***************************************************************************)

Pages == Nat \X Nat
ReadOps == {"idle", "first", "me", "storeMe", "detail", "key", "page"}

\* What the call of a thread holds at each of its steps.
LEMMA CallShape ==
  ASSUME pageCall \in [PageThreads -> PageCalls], NEW t \in PageThreads
  PROVE  /\ pageCall[t].op \in ReadOps \cup Writes
         /\ pageCall[t].op \in {"me", "storeMe"} =>
              pageCall[t] \in [op : {"me", "storeMe"}, seen : Nat]
         /\ pageCall[t].op = "detail" => pageCall[t].seen \in Nat \X Nat
         /\ pageCall[t].op \in {"key", "page"} => pageCall[t].v \in Versions
         /\ pageCall[t].op = "page" => pageCall[t].seen \in Nat \X Nat
         /\ pageCall[t].op \in Writes =>
              pageCall[t] \in [op : Writes, kind : Kinds, copy : Nat \ {0}, more : BOOLEAN]
<1>. DEFINE c == pageCall[t]
<1>0. c \in PageCalls
  OBVIOUS
<1>. HIDE DEF c
<1>. DEFINE Shape ==
       /\ c.op \in ReadOps \cup Writes
       /\ c.op \in {"me", "storeMe"} => c \in [op : {"me", "storeMe"}, seen : Nat]
       /\ c.op = "detail" => c.seen \in Nat \X Nat
       /\ c.op \in {"key", "page"} => c.v \in Versions
       /\ c.op = "page" => c.seen \in Nat \X Nat
       /\ c.op \in Writes => c \in [op : Writes, kind : Kinds, copy : Nat \ {0}, more : BOOLEAN]
<1>. USE DEF Writes, ReadOps
<1>1. ASSUME c \in [op : {"idle", "first"}] PROVE Shape
  BY <1>1
<1>2. ASSUME c \in [op : {"me", "storeMe"}, seen : Nat] PROVE Shape
  BY <1>2
<1>3. ASSUME c \in [op : {"detail"}, seen : Nat \X Nat] PROVE Shape
  BY <1>3
<1>4. ASSUME c \in [op : {"key"}, v : Versions] PROVE Shape
  BY <1>4
<1>5. ASSUME c \in [op : {"page"}, v : Versions, seen : Nat \X Nat] PROVE Shape
  BY <1>5
<1>6. ASSUME c \in [op : Writes, kind : Kinds, copy : Nat \ {0}, more : BOOLEAN] PROVE Shape
  BY <1>6
<1>7. Shape
  BY <1>0, <1>1, <1>2, <1>3, <1>4, <1>5, <1>6 DEF PageCalls
<1>. QED
  BY <1>7 DEF c

\* A call moves on, alone.
LEMMA CallGoes ==
  ASSUME pageCall \in [PageThreads -> PageCalls], NEW t \in PageThreads, NEW c \in PageCalls, PageGoes(t, c)
  PROVE  /\ pageCall' \in [PageThreads -> PageCalls]
         /\ pageCall'[t] = c /\ \A z \in PageThreads \ {t} : pageCall'[z] = pageCall[z]
BY DEF PageGoes

\* A call ends, and holds nothing any more.
LEMMA CallEnds ==
  ASSUME pageCall \in [PageThreads -> PageCalls], NEW t \in PageThreads, Ready(t)
  PROVE  /\ pageCall' \in [PageThreads -> PageCalls]
         /\ pageCall'[t] = [op |-> "idle"] /\ \A z \in PageThreads \ {t} : pageCall'[z] = pageCall[z]
<1>1. [op |-> "idle"] \in PageCalls
  BY DEF PageCalls
<1>. QED
  BY <1>1, CallGoes DEF PageGoes, Ready

\* A transaction moves on: its kind and its copy stay.
LEMMA WriteGoes ==
  ASSUME pageCall \in [PageThreads -> PageCalls], NEW t \in PageThreads, pageCall[t].op \in Writes,
         NEW w \in Writes, NEW c, c \in {[pageCall[t] EXCEPT !.op = w], [pageCall[t] EXCEPT !.op = w, !.more = FALSE]},
         PageGoes(t, c)
  PROVE  /\ pageCall' \in [PageThreads -> PageCalls]
         /\ pageCall'[t].op = w /\ pageCall'[t].kind = pageCall[t].kind
         /\ pageCall'[t].more \in {pageCall[t].more, FALSE}
         /\ c = [pageCall[t] EXCEPT !.op = w] => pageCall'[t].more = pageCall[t].more
         /\ \A z \in PageThreads \ {t} : pageCall'[z] = pageCall[z]
<1>1. pageCall[t] \in [op : Writes, kind : Kinds, copy : Nat \ {0}, more : BOOLEAN]
  BY CallShape
<1>2. /\ c \in [op : Writes, kind : Kinds, copy : Nat \ {0}, more : BOOLEAN]
      /\ c.op = w /\ c.kind = pageCall[t].kind /\ c.more \in {pageCall[t].more, FALSE}
      /\ c = [pageCall[t] EXCEPT !.op = w] => c.more = pageCall[t].more
  BY <1>1
<1>3. c \in PageCalls
  BY <1>2 DEF PageCalls
<1>. QED
  BY <1>2, <1>3, CallGoes

\* The beginning fits.
LEMMA PagesStart == UserPagesInit => UserPagesInv
<1>. SUFFICES ASSUME UserPagesInit PROVE UserPagesInv
  OBVIOUS
<1>. USE DEF UserPagesInit
<1>1. \A t \in PageThreads : pageCall[t] = [op |-> "idle"]
  OBVIOUS
<1>2. UserPagesTypeOK
  <2>1. pageCall \in [PageThreads -> PageCalls]
    BY DEF PageCalls
  <2>2. pages = [v \in Versions |-> {}] /\ detail = {} /\ myself = {}
    OBVIOUS
  <2>3. \A c \in {detail} \cup {pages[v] : v \in Versions} : c = {}
    BY <2>2
  <2>4. Cardinality(myself) <= 1 /\ \A c \in {detail} \cup {pages[v] : v \in Versions} : Cardinality(c) <= 1
    BY <2>2, <2>3, FS_EmptySet
  <2>5. pages \in [Versions -> SUBSET (Nat \X Nat)]
    BY <2>2
  <2>6. userRows \in [user : Nat, profile : Nat, secret : Nat \ {0}]
    OBVIOUS
  <2>7. listVersion \in 0 .. MaxVersion /\ pagesLeft \in Nat /\ changes \in Nat
    BY PageBounds
  <2>8. {rewound, reverted, revived} \subseteq BOOLEAN
    OBVIOUS
  <2>. QED
    BY <2>1, <2>2, <2>4, <2>5, <2>6, <2>7, <2>8 DEF UserPagesTypeOK
<1>3. CachesCurrent /\ NoPagesAhead
  BY DEF CachesCurrent, NoPagesAhead
<1>4. ReadersCurrent
  BY <1>1 DEF ReadersCurrent, Serving
<1>5. PasswordStands /\ GoneForGood
  BY <1>1 DEF PasswordStands, GoneForGood, Gone, RowsOf, Writes
<1>6. LocksApart
  BY <1>1 DEF LocksApart, RowsOf, Writes, Serving
<1>. QED
  BY <1>2, <1>3, <1>4, <1>5, <1>6 DEF UserPagesInv

\* A cache holds one answer at most.
LEMMA OneAnswer ==
  ASSUME NEW x PROVE Cardinality({x}) <= 1 /\ Cardinality({}) <= 1
<1>1. Cardinality({x}) = 1
  BY FS_Singleton
<1>2. Cardinality({}) = 0
  BY FS_EmptySet
<1>. QED
  BY <1>1, <1>2

\* The types, of the caches apart from the calls.
CachesTyped ==
  /\ myself \subseteq Nat /\ detail \subseteq Nat \X Nat
  /\ pages \in [Versions -> SUBSET (Nat \X Nat)]
  /\ listVersion \in 0 .. MaxVersion
  /\ Cardinality(myself) <= 1 /\ \A c \in {detail} \cup {pages[v] : v \in Versions} : Cardinality(c) <= 1
RowsTyped ==
  /\ userRows \in [user : Nat, profile : Nat, secret : Nat \ {0}] /\ changes \in Nat
  /\ outrun \subseteq {"myself", "detail", "pages"} /\ {rewound, reverted, revived} \subseteq BOOLEAN
CallsTyped == pageCall \in [PageThreads -> PageCalls] /\ pagesLeft \in Nat

\* The type invariant in three parts.
LEMMA PagesTypes == UserPagesTypeOK <=> CachesTyped /\ RowsTyped /\ CallsTyped
BY DEF UserPagesTypeOK, CachesTyped, RowsTyped, CallsTyped

\* The caches keep their type.
LEMMA CachesTypedNext == UserPagesTypeOK /\ [UserPagesNext]_pageVars => CachesTyped'
<1>. SUFFICES ASSUME CachesTyped, CallsTyped, RowsTyped, [UserPagesNext]_pageVars PROVE CachesTyped'
  BY PagesTypes
<1>1. ASSUME UNCHANGED pageCaches PROVE CachesTyped'
  BY <1>1 DEF CachesTyped, pageCaches
<1>2. ASSUME NEW t \in PageThreads, StoreMe(t) PROVE CachesTyped'
  <2>1. pageCall[t].seen \in Nat
    BY <1>2, CallShape DEF StoreMe, CallsTyped, Serving
  <2>. QED
    BY <1>2, <2>1, OneAnswer DEF StoreMe, CachesTyped
<1>3. ASSUME NEW t \in PageThreads, StoreDetail(t) PROVE CachesTyped'
  <2>1. pageCall[t].seen \in Nat \X Nat
    BY <1>3, CallShape DEF StoreDetail, CallsTyped, Serving
  <2>2. detail' = {pageCall[t].seen} /\ UNCHANGED <<myself, pages, listVersion>>
    BY <1>3 DEF StoreDetail
  <2>3. Cardinality(detail') <= 1
    BY <2>2, OneAnswer
  <2>. QED
    BY <2>1, <2>2, <2>3 DEF CachesTyped
<1>4. ASSUME listVersion' \in 0 .. MaxVersion, UNCHANGED pages, detail' \in {detail, {}}, myself' \in {myself, {}}
      PROVE  CachesTyped'
  <2>1. Cardinality(detail') <= 1 /\ Cardinality(myself') <= 1
    BY <1>4, OneAnswer DEF CachesTyped
  <2>. QED
    BY <1>4, <2>1 DEF CachesTyped
<1>5. ASSUME NEW v \in Versions, NEW b, b \subseteq Nat \X Nat, Cardinality(b) <= 1,
             pages' = [pages EXCEPT ![v] = b], UNCHANGED <<myself, detail, listVersion>>
      PROVE  CachesTyped'
  <2>1. \A z \in Versions : pages'[z] \in {pages[z], b}
    BY <1>5 DEF CachesTyped
  <2>2. \A c \in {detail} \cup {pages'[z] : z \in Versions} : Cardinality(c) <= 1
    BY <1>5, <2>1 DEF CachesTyped
  <2>. QED
    BY <1>5, <2>2 DEF CachesTyped
<1>6. ASSUME NEW t \in PageThreads, SetVersionOne(t) PROVE CachesTyped'
  BY <1>4, <1>6, PageBounds DEF SetVersionOne
<1>7. ASSUME NEW t \in PageThreads, StorePage(t) PROVE CachesTyped'
  <2>1. pageCall[t].seen \in Nat \X Nat /\ pageCall[t].v \in Versions
    BY <1>7, CallShape DEF StorePage, CallsTyped, Serving
  <2>2. {pageCall[t].seen} \subseteq Nat \X Nat /\ Cardinality({pageCall[t].seen}) <= 1
    BY <2>1, OneAnswer
  <2>3. /\ pages' = [pages EXCEPT ![pageCall[t].v] = {pageCall[t].seen}]
        /\ UNCHANGED <<myself, detail, listVersion>>
    BY <1>7 DEF StorePage
  <2>. QED
    BY <1>5, <2>1, <2>2, <2>3
<1>8. ASSUME PageExpires PROVE CachesTyped'
  <2>1. Cardinality({}) <= 1
    BY OneAnswer
  <2>. QED
    BY <1>4, <1>5, <1>8, <2>1 DEF PageExpires, CachesTyped
<1>9. ASSUME NEW t \in PageThreads, BumpVersion(t) \/ SetVersionTwo(t) PROVE CachesTyped'
  BY <1>4, <1>9, PageBounds DEF BumpVersion, SetVersionTwo, DeleteKeys
<1>10. CASE UNCHANGED pageVars
  BY <1>1, <1>10 DEF pageVars
<1>11. CASE UserPagesNext
  BY <1>1, <1>2, <1>3, <1>6, <1>7, <1>8, <1>9, <1>11 DEF UserPagesNext,
     BeginMe, MeCached, MeMissed, ReadDetail, AskVersion, PageCached, ReadPage, BeginWrite, SaveRow,
     VersionMissing, SaveOther, CommitUserEdit, CommitProfile, CommitPassword, CommitDeletion,
     RollBackWrite, UpdateQuietly
<1>. QED
  BY <1>10, <1>11

\* The rows keep their type.
LEMMA RowsTypedNext == UserPagesTypeOK /\ [UserPagesNext]_pageVars => RowsTyped'
<1>. SUFFICES ASSUME CachesTyped, CallsTyped, RowsTyped, [UserPagesNext]_pageVars PROVE RowsTyped'
  BY PagesTypes
<1>. USE DEF RowsTyped
<1>1. ASSUME UNCHANGED <<userRows, changes, rewound, reverted, revived>>, outrun' \subseteq outrun PROVE RowsTyped'
  BY <1>1
<1>2. ASSUME NEW changed \in SUBSET {"myself", "detail", "pages"} PROVE Showing(changed) \subseteq {"myself", "detail", "pages"}
  BY DEF Showing
<1>3. ASSUME NEW t \in PageThreads, CommitUserEdit(t) PROVE RowsTyped'
  <2>1. pageCall[t].copy \in Nat \ {0}
    BY <1>3, CallShape DEF CommitUserEdit, CallsTyped, Serving, Committing, Writes
  <2>2. changes' \in Nat /\ userRows' \in [user : Nat, profile : Nat, secret : Nat \ {0}]
    BY <1>3, <2>1 DEF CommitUserEdit
  <2>3. reverted' \in BOOLEAN /\ revived' \in BOOLEAN /\ rewound' = rewound
    BY <1>3 DEF CommitUserEdit
  <2>. QED
    BY <1>2, <1>3, <2>2, <2>3 DEF CommitUserEdit
<1>4. ASSUME NEW t \in PageThreads, CommitProfile(t) PROVE RowsTyped'
  <2>1. changes' \in Nat /\ userRows' \in [user : Nat, profile : Nat, secret : Nat \ {0}]
    BY <1>4 DEF CommitProfile
  <2>. QED
    BY <1>2, <1>4, <2>1 DEF CommitProfile
<1>5. ASSUME NEW t \in PageThreads, CommitPassword(t) PROVE RowsTyped'
  <2>1. changes' \in Nat \ {0}
    BY <1>5 DEF CommitPassword
  <2>. QED
    BY <1>5, <2>1 DEF CommitPassword
<1>6. ASSUME NEW t \in PageThreads, CommitDeletion(t) PROVE RowsTyped'
  BY <1>2, <1>6 DEF CommitDeletion, Gone
<1>7. ASSUME UpdateQuietly PROVE RowsTyped'
  <2>1. changes' \in Nat /\ userRows' \in [user : Nat, profile : Nat, secret : Nat \ {0}]
    BY <1>7 DEF UpdateQuietly
  <2>. QED
    BY <1>2, <1>7, <2>1 DEF UpdateQuietly
<1>8. ASSUME NEW t \in PageThreads, SetVersionOne(t) \/ SetVersionTwo(t) \/ BumpVersion(t) PROVE RowsTyped'
  <2>1. rewound' \in BOOLEAN /\ UNCHANGED <<userRows, changes, reverted, revived>> /\ outrun' \subseteq outrun
    BY <1>8 DEF SetVersionOne, SetVersionTwo, BumpVersion, DeleteKeys
  <2>. QED
    BY <2>1
<1>9. CASE UNCHANGED pageVars
  BY <1>1, <1>9 DEF pageVars, pageHist
<1>10. CASE UserPagesNext
  BY <1>1, <1>3, <1>4, <1>5, <1>6, <1>7, <1>8, <1>10 DEF UserPagesNext, pageHist,
     BeginMe, MeCached, MeMissed, StoreMe, ReadDetail, StoreDetail, AskVersion, PageCached, ReadPage,
     StorePage, PageExpires, BeginWrite, SaveRow, VersionMissing, SaveOther, RollBackWrite
<1>. QED
  BY <1>9, <1>10

\* The calls keep their type.
LEMMA CallsTypedNext == UserPagesTypeOK /\ [UserPagesNext]_pageVars => CallsTyped'
<1>. SUFFICES ASSUME CachesTyped, CallsTyped, RowsTyped, [UserPagesNext]_pageVars PROVE CallsTyped'
  BY PagesTypes
<1>0. pageCall \in [PageThreads -> PageCalls] /\ pagesLeft \in Nat
  BY DEF CallsTyped
<1>1. ASSUME UNCHANGED <<pageCall, pagesLeft>> PROVE CallsTyped'
  BY <1>0, <1>1 DEF CallsTyped
<1>2. ASSUME NEW t \in PageThreads, NEW c \in PageCalls, PageGoes(t, c), pagesLeft' \in Nat PROVE CallsTyped'
  BY <1>0, <1>2, CallGoes DEF CallsTyped
<1>3. ASSUME NEW t \in PageThreads, Ready(t), UNCHANGED pagesLeft PROVE CallsTyped'
  BY <1>0, <1>3, CallEnds DEF CallsTyped
<1>4. ASSUME NEW t \in PageThreads, TakePage(t) PROVE pagesLeft' \in Nat
  BY <1>0, <1>4 DEF TakePage
<1>5. ASSUME NEW t \in PageThreads, pageCall[t].op \in Writes, UNCHANGED pagesLeft,
             NEW w \in Writes, NEW c, c \in {[pageCall[t] EXCEPT !.op = w], [pageCall[t] EXCEPT !.op = w, !.more = FALSE]},
             PageGoes(t, c)
      PROVE  CallsTyped'
  BY <1>0, <1>5, WriteGoes DEF CallsTyped
<1>6. PageOf(userRows) \in Nat \X Nat /\ userRows.user \in Nat /\ userRows.secret \in Nat \ {0}
  BY DEF RowsTyped, PageOf
<1>7. ASSUME NEW t \in PageThreads, BeginMe(t) PROVE CallsTyped'
  <2>1. [op |-> "me", seen |-> userRows.user] \in PageCalls
    BY <1>6 DEF PageCalls
  <2>. QED
    BY <1>2, <1>4, <1>7, <2>1 DEF BeginMe
<1>8. ASSUME NEW t \in PageThreads, MeMissed(t) PROVE CallsTyped'
  <2>1. pageCall[t] \in [op : {"me", "storeMe"}, seen : Nat]
    BY <1>0, <1>8, CallShape DEF MeMissed, Serving
  <2>2. [pageCall[t] EXCEPT !.op = "storeMe"] \in [op : {"me", "storeMe"}, seen : Nat]
    BY <2>1
  <2>3. [pageCall[t] EXCEPT !.op = "storeMe"] \in PageCalls
    BY <2>2 DEF PageCalls
  <2>. QED
    BY <1>0, <1>2, <1>8, <2>3 DEF MeMissed
<1>9. ASSUME NEW t \in PageThreads, ReadDetail(t) PROVE CallsTyped'
  <2>1. [op |-> "detail", seen |-> PageOf(userRows)] \in PageCalls
    BY <1>6 DEF PageCalls
  <2>. QED
    BY <1>2, <1>4, <1>9, <2>1 DEF ReadDetail
<1>10. ASSUME NEW t \in PageThreads, AskVersion(t) PROVE CallsTyped'
  <2>1. [op |-> "first"] \in PageCalls
    BY DEF PageCalls
  <2>2. listVersion # 0 => [op |-> "key", v |-> listVersion] \in PageCalls
    BY PageBounds DEF PageCalls, CachesTyped, Versions
  <2>3. (IF listVersion = 0 THEN [op |-> "first"] ELSE [op |-> "key", v |-> listVersion]) \in PageCalls
    BY <2>1, <2>2
  <2>. QED
    BY <1>2, <1>4, <1>10, <2>3 DEF AskVersion
<1>11. ASSUME NEW t \in PageThreads, SetVersionOne(t) PROVE CallsTyped'
  <2>1. [op |-> "key", v |-> 1] \in PageCalls
    BY PageBounds DEF PageCalls, Versions
  <2>. QED
    BY <1>0, <1>2, <1>11, <2>1 DEF SetVersionOne
<1>12. ASSUME NEW t \in PageThreads, ReadPage(t) PROVE CallsTyped'
  <2>1. pageCall[t].v \in Versions
    BY <1>0, <1>12, CallShape DEF ReadPage, Serving
  <2>2. [op |-> "page", v |-> pageCall[t].v, seen |-> PageOf(userRows)] \in PageCalls
    BY <1>6, <2>1 DEF PageCalls
  <2>. QED
    BY <1>0, <1>2, <1>12, <2>2 DEF ReadPage
<1>13. ASSUME NEW t \in PageThreads, NEW kind \in Kinds, BeginWrite(t, kind) PROVE CallsTyped'
  <2>1. Twice(kind) \in BOOLEAN /\ "write" \in Writes
    BY DEF Twice, Writes
  <2>2. [op |-> "write", kind |-> kind, copy |-> userRows.secret, more |-> Twice(kind)]
          \in [op : Writes, kind : Kinds, copy : Nat \ {0}, more : BOOLEAN]
    BY <1>6, <2>1
  <2>3. [op |-> "write", kind |-> kind, copy |-> userRows.secret, more |-> Twice(kind)] \in PageCalls
    BY <2>2 DEF PageCalls
  <2>. QED
    BY <1>2, <1>4, <1>13, <2>3 DEF BeginWrite
<1>14. ASSUME NEW t \in PageThreads, SaveRow(t) PROVE CallsTyped'
  <2>1. /\ pageCall[t].op \in Writes /\ "bump" \in Writes /\ UNCHANGED pagesLeft
        /\ Ready(t) \/ PageGoes(t, [pageCall[t] EXCEPT !.op = "bump"])
    BY <1>14 DEF SaveRow, Serving, Writes
  <2>. QED
    BY <1>3, <1>5, <2>1
<1>15. ASSUME NEW t \in PageThreads, VersionMissing(t) PROVE CallsTyped'
  <2>1. /\ pageCall[t].op \in Writes /\ "setTwo" \in Writes /\ UNCHANGED pagesLeft
        /\ PageGoes(t, [pageCall[t] EXCEPT !.op = "setTwo"])
    BY <1>15 DEF VersionMissing, Serving, Writes
  <2>. QED
    BY <1>5, <2>1
<1>16. ASSUME NEW t \in PageThreads, BumpVersion(t) \/ SetVersionTwo(t) PROVE CallsTyped'
  <2>1. /\ pageCall[t].op \in Writes /\ "next" \in Writes /\ "commit" \in Writes /\ UNCHANGED pagesLeft
        /\ \E w \in {"next", "commit"} : PageGoes(t, [pageCall[t] EXCEPT !.op = w])
    BY <1>16 DEF BumpVersion, SetVersionTwo, DeleteKeys, Serving, Writes
  <2>. QED
    BY <1>5, <2>1
<1>17. ASSUME NEW t \in PageThreads, SaveOther(t) PROVE CallsTyped'
  <2>1. /\ pageCall[t].op \in Writes /\ "bump" \in Writes /\ UNCHANGED pagesLeft
        /\ PageGoes(t, [pageCall[t] EXCEPT !.op = "bump", !.more = FALSE])
    BY <1>17 DEF SaveOther, Serving, Writes
  <2>. QED
    BY <1>5, <2>1
<1>18. ASSUME UpdateQuietly PROVE CallsTyped'
  BY <1>0, <1>18 DEF UpdateQuietly, CallsTyped
<1>19. CASE UNCHANGED pageVars
  BY <1>1, <1>19 DEF pageVars
<1>20. CASE UserPagesNext
  BY <1>1, <1>3, <1>7, <1>8, <1>9, <1>10, <1>11, <1>12, <1>13, <1>14, <1>15, <1>16, <1>17, <1>18, <1>20
     DEF UserPagesNext, MeCached, StoreMe, StoreDetail, PageCached, StorePage, PageExpires,
         CommitUserEdit, CommitProfile, CommitPassword, CommitDeletion, RollBackWrite
<1>. QED
  BY <1>19, <1>20

\* The types are kept.
LEMMA UserPagesTypeNext == UserPagesTypeOK /\ [UserPagesNext]_pageVars => UserPagesTypeOK'
<1>1. (CachesTyped' /\ RowsTyped' /\ CallsTyped') => UserPagesTypeOK'
  BY PTL, PagesTypes
<1>. QED
  BY <1>1, CachesTypedNext, RowsTypedNext, CallsTypedNext

-----------------------------------------------------------------------------
(* Locks, deletion and passwords *)

\* Only the step that has locked a row holds it, and both only once both are saved.
LEMMA WritersApart ==
  ASSUME NEW c, NEW d, c.kind = d.kind, c.op \in Writes, d.op \in Writes \ {"write"}
  PROVE  /\ c.op # "write" /\ c.more = d.more => RowsOf(d) = RowsOf(c)
         /\ c.op = "write" /\ d.more = Twice(d.kind) => RowsOf(d) = {FirstRow(c.kind)}
         /\ c.op # "write" => RowsOf(d) \subseteq RowsOf(c) \cup {OtherRow(c.kind)}
         /\ d.op = "commit" /\ Twice(d.kind) /\ ~d.more => RowsOf(d) = {"user", "profile"}
BY DEF RowsOf, Writes, FirstRow, OtherRow, Twice

\* No two transactions hold one row.
LEMMA LocksNext == UserPagesInv /\ [UserPagesNext]_pageVars => LocksApart'
<1>. SUFFICES ASSUME UserPagesInv, [UserPagesNext]_pageVars PROVE LocksApart'
  OBVIOUS
<1>0. pageCall \in [PageThreads -> PageCalls] /\ LocksApart
  BY DEF UserPagesInv, UserPagesTypeOK
<1>1. ASSUME UNCHANGED pageCall PROVE LocksApart'
  BY <1>0, <1>1 DEF LocksApart, Serving
<1>2. ASSUME NEW t \in PageThreads, \A z \in PageThreads \ {t} : pageCall'[z] = pageCall[z],
             \A z \in PageThreads \ {t} : RowsOf(pageCall'[t]) \cap RowsOf(pageCall[z]) = {},
             pageCall'[t].op = "write" => pageCall'[t].more = Twice(pageCall'[t].kind),
             pageCall'[t].op = "commit" => ~pageCall'[t].more
      PROVE  LocksApart'
  <2>1. ASSUME NEW a \in PageThreads, NEW b \in PageThreads, a # b
        PROVE  RowsOf(pageCall'[a]) \cap RowsOf(pageCall'[b]) = {}
    <3>1. CASE a = t
      BY <1>2, <2>1, <3>1
    <3>2. CASE b = t
      BY <1>2, <2>1, <3>2
    <3>3. CASE a # t /\ b # t
      BY <1>0, <1>2, <2>1, <3>3 DEF LocksApart
    <3>. QED
      BY <3>1, <3>2, <3>3
  <2>2. ASSUME NEW a \in PageThreads
        PROVE  /\ pageCall'[a].op = "write" => pageCall'[a].more = Twice(pageCall'[a].kind)
               /\ pageCall'[a].op = "commit" => ~pageCall'[a].more
    BY <1>0, <1>2 DEF LocksApart, Serving
  <2>. QED
    BY <2>1, <2>2 DEF LocksApart, Serving
<1>3. ASSUME NEW t \in PageThreads, NEW c \in PageCalls, PageGoes(t, c), c.op \notin Writes
      PROVE  LocksApart'
  <2>1. pageCall'[t] = c /\ \A z \in PageThreads \ {t} : pageCall'[z] = pageCall[z]
    BY <1>0, <1>3, CallGoes
  <2>2. RowsOf(c) = {} /\ c.op # "write" /\ c.op # "commit"
    BY <1>3 DEF RowsOf, Writes
  <2>. QED
    BY <1>2, <2>1, <2>2
<1>4. ASSUME NEW t \in PageThreads, Ready(t) PROVE LocksApart'
  <2>1. [op |-> "idle"] \in PageCalls /\ "idle" \notin Writes
    BY DEF PageCalls, Writes
  <2>. QED
    BY <1>3, <1>4, <2>1 DEF Ready, PageGoes
<1>5. CallsTyped'
  BY CallsTypedNext DEF UserPagesInv
<1>6. ASSUME NEW t \in PageThreads, NEW c, c.op \in {"me", "storeMe", "detail", "first", "key", "page"}, PageGoes(t, c)
      PROVE  LocksApart'
  <2>1. pageCall'[t] = c /\ pageCall'[t] \in PageCalls
    BY <1>0, <1>5, <1>6 DEF CallsTyped, PageGoes
  <2>2. c.op \notin Writes
    BY <1>6 DEF Writes
  <2>. QED
    BY <1>3, <1>6, <2>1, <2>2
<1>7. ASSUME NEW t \in PageThreads, MeMissed(t) PROVE LocksApart'
  <2>1. pageCall[t] \in [op : {"me", "storeMe"}, seen : Nat]
    BY <1>0, <1>7, CallShape DEF MeMissed, Serving
  <2>. DEFINE c == [pageCall[t] EXCEPT !.op = "storeMe"]
  <2>2. c.op = "storeMe"
    BY <2>1
  <2>3. PageGoes(t, c)
    BY <1>7 DEF MeMissed
  <2>. HIDE DEF c
  <2>. QED
    BY <1>6, <2>2, <2>3
<1>8. ASSUME NEW t \in PageThreads, NEW kind \in Kinds, BeginWrite(t, kind) PROVE LocksApart'
  <2>. DEFINE c == [op |-> "write", kind |-> kind, copy |-> userRows.secret, more |-> Twice(kind)]
  <2>1. PageGoes(t, c)
    BY <1>8 DEF BeginWrite
  <2>2. c.op = "write" /\ c.kind = kind /\ c.more = Twice(kind) /\ RowsOf(c) = {}
    BY DEF RowsOf
  <2>. HIDE DEF c
  <2>3. pageCall'[t] = c /\ \A z \in PageThreads \ {t} : pageCall'[z] = pageCall[z]
    BY <1>0, <2>1 DEF PageGoes
  <2>. QED
    BY <1>2, <2>2, <2>3
<1>9. ASSUME NEW t \in PageThreads, SaveRow(t) PROVE LocksApart'
  <2>1. CASE Ready(t)
    BY <1>4, <2>1
  <2>2. CASE PageGoes(t, [pageCall[t] EXCEPT !.op = "bump"])
    <3>1. pageCall[t].op = "write" /\ pageCall[t].op \in Writes /\ "bump" \in Writes \ {"write"}
      BY <1>9 DEF SaveRow, Serving, Writes
    <3>2. /\ pageCall'[t].op = "bump" /\ pageCall'[t].kind = pageCall[t].kind
          /\ pageCall'[t].more = pageCall[t].more
          /\ \A z \in PageThreads \ {t} : pageCall'[z] = pageCall[z]
      BY <1>0, <2>2, <3>1, WriteGoes
    <3>3. pageCall[t].more = Twice(pageCall[t].kind)
      BY <1>0, <3>1 DEF LocksApart, Serving
    <3>4. RowsOf(pageCall'[t]) = {FirstRow(pageCall[t].kind)}
      BY <3>1, <3>2, <3>3, WritersApart
    <3>5. \A z \in PageThreads \ {t} : FirstRow(pageCall[t].kind) \notin RowsOf(pageCall[z])
      BY <1>9 DEF SaveRow, RowAvailable
    <3>. QED
      BY <1>2, <3>2, <3>4, <3>5
  <2>. QED
    BY <1>9, <2>1, <2>2 DEF SaveRow
<1>10. ASSUME NEW t \in PageThreads, pageCall[t].op \in Writes \ {"write"}, NEW w \in Writes \ {"write"},
              PageGoes(t, [pageCall[t] EXCEPT !.op = w]), w = "commit" => ~pageCall[t].more
       PROVE  LocksApart'
  <2>1. /\ pageCall'[t].op = w /\ pageCall'[t].kind = pageCall[t].kind
        /\ pageCall'[t].more = pageCall[t].more
        /\ \A z \in PageThreads \ {t} : pageCall'[z] = pageCall[z]
    BY <1>0, <1>10, WriteGoes
  <2>2. RowsOf(pageCall'[t]) = RowsOf(pageCall[t])
    BY <1>10, <2>1, WritersApart
  <2>3. \A z \in PageThreads \ {t} : RowsOf(pageCall[t]) \cap RowsOf(pageCall[z]) = {}
    BY <1>0 DEF LocksApart
  <2>. QED
    BY <1>2, <1>10, <2>1, <2>2, <2>3
<1>11. ASSUME NEW t \in PageThreads, VersionMissing(t) \/ BumpVersion(t) \/ SetVersionTwo(t)
       PROVE  LocksApart'
  <2>1. /\ pageCall[t].op \in Writes \ {"write"} /\ {"setTwo", "next", "commit"} \subseteq Writes \ {"write"}
        /\ \E w \in {"setTwo", "next", "commit"} :
             PageGoes(t, [pageCall[t] EXCEPT !.op = w]) /\ (w = "commit" => ~pageCall[t].more)
    BY <1>11 DEF VersionMissing, BumpVersion, SetVersionTwo, DeleteKeys, Serving, Writes
  <2>. QED
    BY <1>10, <2>1
<1>12. ASSUME NEW t \in PageThreads, SaveOther(t) PROVE LocksApart'
  <2>1. pageCall[t].op \in Writes \ {"write"} /\ "bump" \in Writes \ {"write"}
    BY <1>12 DEF SaveOther, Serving, Writes
  <2>2. PageGoes(t, [pageCall[t] EXCEPT !.op = "bump", !.more = FALSE])
    BY <1>12 DEF SaveOther
  <2>3. /\ pageCall'[t].op = "bump" /\ pageCall'[t].kind = pageCall[t].kind
        /\ \A z \in PageThreads \ {t} : pageCall'[z] = pageCall[z]
    BY <1>0, <2>1, <2>2, WriteGoes
  <2>4. RowsOf(pageCall'[t]) \subseteq RowsOf(pageCall[t]) \cup {OtherRow(pageCall[t].kind)}
    BY <2>1, <2>3, WritersApart
  <2>5. \A z \in PageThreads \ {t} : RowsOf(pageCall[t]) \cap RowsOf(pageCall[z]) = {}
    BY <1>0 DEF LocksApart
  <2>6. \A z \in PageThreads \ {t} : OtherRow(pageCall[t].kind) \notin RowsOf(pageCall[z])
    BY <1>12 DEF SaveOther, RowAvailable
  <2>. QED
    BY <1>2, <2>3, <2>4, <2>5, <2>6
<1>13. ASSUME NEW t \in PageThreads, BeginMe(t) \/ ReadDetail(t) \/ AskVersion(t) \/ SetVersionOne(t) \/ ReadPage(t)
       PROVE  LocksApart'
  BY <1>6, <1>13 DEF BeginMe, ReadDetail, AskVersion, SetVersionOne, ReadPage
<1>14. CASE UNCHANGED pageVars
  BY <1>1, <1>14 DEF pageVars
<1>15. CASE UserPagesNext
  BY <1>1, <1>4, <1>7, <1>8, <1>9, <1>11, <1>12, <1>13, <1>15
     DEF UserPagesNext, MeCached, StoreMe, StoreDetail, PageCached, StorePage, PageExpires,
         CommitUserEdit, CommitProfile, CommitPassword, CommitDeletion, RollBackWrite, UpdateQuietly
<1>. QED
  BY <1>14, <1>15

\* The password is the last one set, but for edits that saved an older one.
LEMMA PasswordNext == UserPagesInv /\ [UserPagesNext]_pageVars => PasswordStands'
<1>. SUFFICES ASSUME UserPagesInv, [UserPagesNext]_pageVars PROVE PasswordStands'
  OBVIOUS
<1>0. userRows \in [user : Nat, profile : Nat, secret : Nat \ {0}] /\ PasswordStands
  BY DEF UserPagesInv, UserPagesTypeOK
<1>1. ASSUME userRows'.secret = userRows.secret, UNCHANGED <<newest, reverted>> PROVE PasswordStands'
  BY <1>0, <1>1 DEF PasswordStands
<1>2. ASSUME NEW t \in PageThreads, CommitUserEdit(t) PROVE PasswordStands'
  BY <1>0, <1>2 DEF CommitUserEdit, PasswordStands
<1>3. ASSUME NEW t \in PageThreads, CommitPassword(t) PROVE PasswordStands'
  BY <1>0, <1>3 DEF CommitPassword, PasswordStands
<1>4. ASSUME NEW t \in PageThreads, CommitProfile(t) \/ CommitDeletion(t) PROVE PasswordStands'
  BY <1>0, <1>1, <1>4 DEF CommitProfile, CommitDeletion
<1>5. ASSUME UpdateQuietly PROVE PasswordStands'
  BY <1>0, <1>1, <1>5 DEF UpdateQuietly
<1>6. CASE UNCHANGED pageVars
  BY <1>1, <1>6 DEF pageVars, pageHist
<1>7. CASE UserPagesNext
  BY <1>1, <1>2, <1>3, <1>4, <1>5, <1>7 DEF UserPagesNext, pageHist,
     BeginMe, MeCached, MeMissed, StoreMe, ReadDetail, StoreDetail, AskVersion, SetVersionOne, PageCached,
     ReadPage, StorePage, PageExpires, BeginWrite, SaveRow, BumpVersion, VersionMissing, SetVersionTwo,
     SaveOther, RollBackWrite
<1>. QED
  BY <1>6, <1>7

\* No request still on its way changes an account once it is gone.
LEMMA GoneNext == UserPagesInv /\ [UserPagesNext]_pageVars => GoneForGood'
<1>. SUFFICES ASSUME UserPagesInv, [UserPagesNext]_pageVars PROVE GoneForGood'
  OBVIOUS
<1>0. /\ pageCall \in [PageThreads -> PageCalls] /\ GoneForGood /\ LocksApart
      /\ userRows \in [user : Nat, profile : Nat, secret : Nat \ {0}] /\ changes \in Nat
  BY DEF UserPagesInv, UserPagesTypeOK
<1>1. ASSUME UNCHANGED <<pageCall, userRows>> PROVE GoneForGood'
  BY <1>0, <1>1 DEF GoneForGood
<1>2. ASSUME NEW t \in PageThreads, \A z \in PageThreads \ {t} : pageCall'[z] = pageCall[z], UNCHANGED userRows,
             userRows.user = Gone /\ RowsOf(pageCall'[t]) # {} => Twice(pageCall'[t].kind)
      PROVE  GoneForGood'
  BY <1>0, <1>2 DEF GoneForGood
<1>3. ASSUME NEW t \in PageThreads, Ready(t), UNCHANGED userRows PROVE GoneForGood'
  <2>1. RowsOf([op |-> "idle"]) = {}
    BY DEF RowsOf, Writes
  <2>. QED
    BY <1>0, <1>2, <1>3, <2>1, CallEnds
<1>4. ASSUME NEW t \in PageThreads, NEW c, c.op \notin Writes \ {"write"}, PageGoes(t, c), UNCHANGED userRows
      PROVE  GoneForGood'
  <2>1. RowsOf(c) = {}
    BY <1>4 DEF RowsOf
  <2>2. pageCall'[t] = c /\ \A z \in PageThreads \ {t} : pageCall'[z] = pageCall[z]
    BY <1>0, <1>4 DEF PageGoes
  <2>. QED
    BY <1>2, <1>4, <2>1, <2>2
<1>5. ASSUME NEW t \in PageThreads, pageCall[t].op \in Writes, UNCHANGED userRows, NEW w \in Writes,
             NEW c, c \in {[pageCall[t] EXCEPT !.op = w], [pageCall[t] EXCEPT !.op = w, !.more = FALSE]},
             PageGoes(t, c), userRows.user = Gone => Twice(pageCall[t].kind)
      PROVE  GoneForGood'
  <2>0. pageCall \in [PageThreads -> PageCalls]
    BY <1>0
  <2>1. pageCall'[t].kind = pageCall[t].kind /\ \A z \in PageThreads \ {t} : pageCall'[z] = pageCall[z]
    BY <1>5, <2>0, WriteGoes
  <2>. QED
    BY <1>2, <1>5, <2>1
<1>6. ASSUME NEW t \in PageThreads, pageCall[t].op \in Writes \ {"write"}
      PROVE  FirstRow(pageCall[t].kind) \in RowsOf(pageCall[t]) /\ (userRows.user = Gone => Twice(pageCall[t].kind))
  BY <1>0, <1>6 DEF GoneForGood, RowsOf
<1>7. ASSUME NEW t \in PageThreads, MeMissed(t) PROVE GoneForGood'
  <2>1. pageCall[t] \in [op : {"me", "storeMe"}, seen : Nat]
    BY <1>0, <1>7, CallShape DEF MeMissed, Serving
  <2>2. [pageCall[t] EXCEPT !.op = "storeMe"].op = "storeMe"
    BY <2>1
  <2>3. PageGoes(t, [pageCall[t] EXCEPT !.op = "storeMe"]) /\ UNCHANGED userRows /\ "storeMe" \notin Writes
    BY <1>7 DEF MeMissed, Writes
  <2>. QED
    BY <1>4, <2>2, <2>3
<1>8. ASSUME NEW t \in PageThreads, SaveRow(t) PROVE GoneForGood'
  <2>1. CASE Ready(t)
    BY <1>3, <1>8, <2>1 DEF SaveRow
  <2>2. CASE PageGoes(t, [pageCall[t] EXCEPT !.op = "bump"]) /\ ~(userRows.user = Gone /\ ~Twice(pageCall[t].kind))
    BY <1>5, <1>8, <2>2 DEF SaveRow, Serving, Writes
  <2>. QED
    BY <1>8, <2>1, <2>2 DEF SaveRow
<1>9. ASSUME NEW t \in PageThreads, VersionMissing(t) \/ BumpVersion(t) \/ SetVersionTwo(t) \/ SaveOther(t)
      PROVE  GoneForGood'
  <2>1. /\ pageCall[t].op \in Writes \ {"write"} /\ UNCHANGED userRows
        /\ \E w \in Writes :
             \E c \in {[pageCall[t] EXCEPT !.op = w], [pageCall[t] EXCEPT !.op = w, !.more = FALSE]} : PageGoes(t, c)
    BY <1>9 DEF VersionMissing, BumpVersion, SetVersionTwo, DeleteKeys, SaveOther, Serving, Writes
  <2>. QED
    BY <1>5, <1>6, <2>1
<1>10. ASSUME NEW t \in PageThreads,
              BeginMe(t) \/ ReadDetail(t) \/ AskVersion(t) \/ SetVersionOne(t) \/ ReadPage(t)
                \/ \E kind \in Kinds : BeginWrite(t, kind)
       PROVE  GoneForGood'
  BY <1>4, <1>10 DEF BeginMe, ReadDetail, AskVersion, SetVersionOne, ReadPage, BeginWrite, Writes
<1>11. ASSUME userRows'.user # Gone PROVE GoneForGood'
  BY <1>11 DEF GoneForGood
<1>12. ASSUME NEW t \in PageThreads, CommitUserEdit(t) PROVE GoneForGood'
  BY <1>0, <1>11, <1>12 DEF CommitUserEdit, Gone
<1>13. ASSUME NEW t \in PageThreads, CommitProfile(t) \/ CommitPassword(t) PROVE GoneForGood'
  <2>1. pageCall[t].op \in Writes \ {"write"} /\ ~Twice(pageCall[t].kind)
    BY <1>13 DEF CommitProfile, CommitPassword, Committing, Serving, Writes, Twice
  <2>2. userRows.user # Gone
    BY <1>6, <2>1
  <2>. QED
    BY <1>0, <1>11, <1>13, <2>2 DEF CommitProfile, CommitPassword
<1>14. ASSUME NEW t \in PageThreads, CommitDeletion(t) PROVE GoneForGood'
  <2>1. pageCall[t].op = "commit" /\ pageCall[t].kind = "delete" /\ Ready(t)
    BY <1>14 DEF CommitDeletion, Committing, Serving
  <2>2. RowsOf(pageCall[t]) = {"user", "profile"}
    BY <1>0, <2>1 DEF LocksApart, Serving, RowsOf, Writes, Twice, FirstRow, OtherRow
  <2>3. \A z \in PageThreads : RowsOf(pageCall[z]) \subseteq {"user", "profile"}
    BY DEF RowsOf, FirstRow, OtherRow
  <2>4. \A z \in PageThreads \ {t} : RowsOf(pageCall[z]) = {}
    BY <1>0, <2>2, <2>3 DEF LocksApart
  <2>5. RowsOf([op |-> "idle"]) = {}
    BY DEF RowsOf, Writes
  <2>6. \A z \in PageThreads : RowsOf(pageCall'[z]) = {}
    BY <1>0, <2>1, <2>4, <2>5, CallEnds
  <2>7. userRows'.profile = Gone
    BY <1>0, <1>14 DEF CommitDeletion
  <2>. QED
    BY <2>6, <2>7 DEF GoneForGood
<1>15. ASSUME UpdateQuietly PROVE GoneForGood'
  BY <1>0, <1>11, <1>15 DEF UpdateQuietly
<1>16. CASE UNCHANGED pageVars
  BY <1>1, <1>16 DEF pageVars
<1>17. CASE UserPagesNext
  BY <1>1, <1>3, <1>7, <1>8, <1>9, <1>10, <1>12, <1>13, <1>14, <1>15, <1>17
     DEF UserPagesNext, MeCached, StoreMe, StoreDetail, PageCached, StorePage, PageExpires, RollBackWrite
<1>. QED
  BY <1>16, <1>17

-----------------------------------------------------------------------------
(* The caches *)

\* What is cached, or held by a reader, is current, unless the cache was outrun.
CachesTrue == CachesCurrent /\ NoPagesAhead /\ ReadersCurrent

\* What is cached is current, unless it was outrun.
LEMMA CachesNext == UserPagesInv /\ [UserPagesNext]_pageVars => CachesTrue'
<1>. SUFFICES ASSUME UserPagesInv, [UserPagesNext]_pageVars PROVE CachesTrue'
  OBVIOUS
<1>0. /\ pageCall \in [PageThreads -> PageCalls] /\ CachesCurrent /\ NoPagesAhead /\ ReadersCurrent
      /\ userRows \in [user : Nat, profile : Nat, secret : Nat \ {0}] /\ changes \in Nat
      /\ pages \in [Versions -> SUBSET (Nat \X Nat)] /\ listVersion \in 0 .. MaxVersion
  BY DEF UserPagesInv, UserPagesTypeOK
<1>. DEFINE Holds(c) ==
       /\ c.op \in {"me", "storeMe"} /\ "myself" \notin outrun => c.seen = userRows.user
       /\ c.op = "detail" /\ "detail" \notin outrun => c.seen = PageOf(userRows)
       /\ ~rewound /\ c.op \in {"key", "page"} => c.v <= listVersion
       /\ ~rewound /\ "pages" \notin outrun /\ c.op = "page" /\ c.v = listVersion => c.seen = PageOf(userRows)
<1>1. \A t \in PageThreads : Holds(pageCall[t])
  BY <1>0 DEF ReadersCurrent, Serving
\* A step that changes no cache and no row gives a thread a call that holds.
<1>2. ASSUME NEW t \in PageThreads, \A z \in PageThreads \ {t} : pageCall'[z] = pageCall[z], Holds(pageCall'[t]),
             UNCHANGED <<userRows, outrun, listVersion, rewound>>
      PROVE  ReadersCurrent'
  <2>1. \A z \in PageThreads : Holds(pageCall'[z])
    BY <1>1, <1>2
  <2>. QED
    BY <1>2, <2>1 DEF ReadersCurrent, Serving
<1>3. ASSUME NEW t \in PageThreads, \A z \in PageThreads \ {t} : pageCall'[z] = pageCall[z], Holds(pageCall'[t]),
             UNCHANGED <<userRows, myself, detail, pages, listVersion, outrun, rewound>>
      PROVE  CachesTrue'
  BY <1>0, <1>2, <1>3 DEF CachesTrue, CachesCurrent, NoPagesAhead
<1>4. ASSUME UNCHANGED <<userRows, myself, detail, pages, listVersion, outrun, rewound, pageCall>> PROVE CachesTrue'
  BY <1>0, <1>4 DEF CachesTrue, CachesCurrent, NoPagesAhead, ReadersCurrent, Serving
<1>5. ASSUME NEW t \in PageThreads, NEW c, PageGoes(t, c)
      PROVE  pageCall'[t] = c /\ \A z \in PageThreads \ {t} : pageCall'[z] = pageCall[z]
  BY <1>0, <1>5 DEF PageGoes
<1>6. ASSUME NEW t \in PageThreads, Ready(t)
      PROVE  pageCall'[t].op = "idle" /\ \A z \in PageThreads \ {t} : pageCall'[z] = pageCall[z]
  BY <1>0, <1>6, CallEnds
<1>7. ASSUME NEW t \in PageThreads, pageCall'[t].op \in Writes \cup {"idle", "first"} PROVE Holds(pageCall'[t])
  BY <1>7 DEF Writes
\* Reads.
<1>8. ASSUME NEW t \in PageThreads, BeginMe(t) PROVE CachesTrue'
  <2>1. PageGoes(t, [op |-> "me", seen |-> userRows.user])
    BY <1>8 DEF BeginMe
  <2>2. Holds([op |-> "me", seen |-> userRows.user])
    OBVIOUS
  <2>. QED
    BY <1>3, <1>5, <1>8, <2>1, <2>2 DEF BeginMe, pageCaches, pageHist
<1>9. ASSUME NEW t \in PageThreads, MeMissed(t) PROVE CachesTrue'
  <2>. DEFINE c == [pageCall[t] EXCEPT !.op = "storeMe"]
  <2>1. pageCall[t] \in [op : {"me", "storeMe"}, seen : Nat]
    BY <1>0, <1>9, CallShape DEF MeMissed, Serving
  <2>2. PageGoes(t, c)
    BY <1>9 DEF MeMissed
  <2>3. c.op = "storeMe" /\ c.seen = pageCall[t].seen
    BY <2>1
  <2>. HIDE DEF c
  <2>4. Holds(c)
    BY <1>1, <2>1, <2>3
  <2>. QED
    BY <1>3, <1>5, <1>9, <2>2, <2>4 DEF MeMissed, pageCaches, pageHist
<1>10. ASSUME NEW t \in PageThreads, ReadDetail(t) PROVE CachesTrue'
  <2>1. PageGoes(t, [op |-> "detail", seen |-> PageOf(userRows)])
    BY <1>10 DEF ReadDetail
  <2>2. Holds([op |-> "detail", seen |-> PageOf(userRows)])
    OBVIOUS
  <2>. QED
    BY <1>3, <1>5, <1>10, <2>1, <2>2 DEF ReadDetail, pageCaches, pageHist
<1>11. ASSUME NEW t \in PageThreads, AskVersion(t) PROVE CachesTrue'
  <2>1. \E c \in {[op |-> "first"], [op |-> "key", v |-> listVersion]} : PageGoes(t, c)
    BY <1>11 DEF AskVersion
  <2>2. \A c \in {[op |-> "first"], [op |-> "key", v |-> listVersion]} : Holds(c)
    BY <1>0, PageBounds
  <2>. QED
    BY <1>3, <1>5, <1>11, <2>1, <2>2 DEF AskVersion, pageCaches, pageHist
<1>12. ASSUME NEW t \in PageThreads, ReadPage(t) PROVE CachesTrue'
  <2>1. PageGoes(t, [op |-> "page", v |-> pageCall[t].v, seen |-> PageOf(userRows)])
    BY <1>12 DEF ReadPage
  <2>2. ~rewound => pageCall[t].v <= listVersion
    BY <1>1, <1>12 DEF ReadPage, Serving
  <2>3. Holds([op |-> "page", v |-> pageCall[t].v, seen |-> PageOf(userRows)])
    BY <2>2
  <2>. QED
    BY <1>3, <1>5, <1>12, <2>1, <2>3 DEF ReadPage, pageCaches, pageHist
<1>13. ASSUME NEW t \in PageThreads, MeCached(t) \/ PageCached(t) \/ RollBackWrite(t) PROVE CachesTrue'
  <2>1. Ready(t) /\ UNCHANGED <<userRows, myself, detail, pages, listVersion, outrun, rewound>>
    BY <1>13 DEF MeCached, PageCached, RollBackWrite, pageCaches, pageHist
  <2>. QED
    BY <1>3, <1>6, <1>7, <2>1
\* Stores.
<1>14. ASSUME NEW t \in PageThreads, StoreMe(t) PROVE CachesTrue'
  <2>1. /\ myself' = {pageCall[t].seen} /\ Ready(t)
        /\ UNCHANGED <<userRows, detail, pages, listVersion, outrun, rewound>>
    BY <1>14 DEF StoreMe, pageHist
  <2>2. "myself" \notin outrun => pageCall[t].seen = userRows.user
    BY <1>1, <1>14 DEF StoreMe, Serving
  <2>3. ReadersCurrent'
    BY <1>2, <1>6, <1>7, <2>1
  <2>. QED
    BY <1>0, <2>1, <2>2, <2>3 DEF CachesTrue, CachesCurrent, NoPagesAhead
<1>15. ASSUME NEW t \in PageThreads, StoreDetail(t) PROVE CachesTrue'
  <2>1. /\ detail' = {pageCall[t].seen} /\ Ready(t)
        /\ UNCHANGED <<userRows, myself, pages, listVersion, outrun, rewound>>
    BY <1>15 DEF StoreDetail, pageHist
  <2>2. "detail" \notin outrun => pageCall[t].seen = PageOf(userRows)
    BY <1>1, <1>15 DEF StoreDetail, Serving
  <2>3. ReadersCurrent'
    BY <1>2, <1>6, <1>7, <2>1
  <2>. QED
    BY <1>0, <2>1, <2>2, <2>3 DEF CachesTrue, CachesCurrent, NoPagesAhead
<1>16. ASSUME NEW t \in PageThreads, StorePage(t) PROVE CachesTrue'
  <2>1. /\ pages' = [pages EXCEPT ![pageCall[t].v] = {pageCall[t].seen}] /\ Ready(t)
        /\ UNCHANGED <<userRows, myself, detail, listVersion, outrun, rewound>>
    BY <1>16 DEF StorePage, pageHist
  <2>2. /\ ~rewound => pageCall[t].v <= listVersion
        /\ ~rewound /\ "pages" \notin outrun /\ pageCall[t].v = listVersion => pageCall[t].seen = PageOf(userRows)
    BY <1>1, <1>16 DEF StorePage, Serving
  <2>3. ReadersCurrent'
    BY <1>2, <1>6, <1>7, <2>1
  <2>4. \A v \in Versions : pages'[v] = pages[v] \/ (v = pageCall[t].v /\ pages'[v] = {pageCall[t].seen})
    BY <1>0, <2>1
  <2>5. listVersion > 0 => listVersion \in Versions
    BY <1>0, PageBounds DEF Versions
  <2>6. NoPagesAhead'
    BY <1>0, <2>1, <2>2, <2>4 DEF NoPagesAhead
  <2>7. ~rewound /\ "pages" \notin outrun /\ listVersion > 0 => pages'[listVersion] \subseteq {PageOf(userRows)}
    BY <1>0, <2>2, <2>4, <2>5 DEF CachesCurrent
  <2>. QED
    BY <1>0, <2>1, <2>3, <2>6, <2>7 DEF CachesTrue, CachesCurrent
<1>17. ASSUME PageExpires PROVE CachesTrue'
  <2>1. /\ detail' \subseteq detail /\ \A v \in Versions : pages'[v] \subseteq pages[v]
        /\ UNCHANGED <<userRows, myself, listVersion, outrun, rewound, pageCall>>
    BY <1>0, <1>17 DEF PageExpires, pageHist
  <2>2. listVersion > 0 => listVersion \in Versions
    BY <1>0, PageBounds DEF Versions
  <2>3. ReadersCurrent'
    BY <1>0, <2>1 DEF ReadersCurrent, Serving
  <2>4. CachesCurrent' /\ NoPagesAhead'
    BY <1>0, <2>1, <2>2 DEF CachesCurrent, NoPagesAhead
  <2>. QED
    BY <2>3, <2>4 DEF CachesTrue
\* The version.
<1>18. ASSUME NEW t \in PageThreads, SetVersionOne(t) PROVE CachesTrue'
  <2>. DEFINE c == [op |-> "key", v |-> 1]
  <2>1. /\ listVersion' = 1 /\ rewound' = (rewound \/ listVersion > 1) /\ PageGoes(t, c)
        /\ UNCHANGED <<userRows, myself, detail, pages, outrun>>
    BY <1>18 DEF SetVersionOne
  <2>2. c.op = "key" /\ c.v = 1
    OBVIOUS
  <2>. HIDE DEF c
  <2>3. pageCall'[t] = c /\ \A z \in PageThreads \ {t} : pageCall'[z] = pageCall[z]
    BY <1>5, <2>1
  <2>4. ~rewound' => ~rewound /\ listVersion \in {0, 1}
    <3>1. ~rewound' => ~rewound /\ ~(listVersion > 1)
      BY <2>1, Zenon
    <3>2. listVersion > 1 \/ listVersion \in {0, 1}
      BY <1>0, PageBounds
    <3>. QED
      BY <3>1, <3>2, Zenon
  <2>5. \A z \in PageThreads : pageCall[z].op \in {"key", "page"} => pageCall[z].v \in Versions
    BY <1>0, CallShape
  <2>6. \A v \in Versions : v >= 1 /\ v \in Nat
    BY PageBounds DEF Versions
  <2>7. ~rewound' /\ listVersion = 0 => pages[1] = {} /\ \A z \in PageThreads : pageCall[z].op \notin {"key", "page"}
    <3>1. 1 \in Versions
      BY PageBounds DEF Versions
    <3>2. ASSUME ~rewound, listVersion = 0 PROVE pages[1] = {}
      BY <1>0, <3>1, <3>2 DEF NoPagesAhead
    <3>3. ASSUME ~rewound, listVersion = 0, NEW z \in PageThreads PROVE pageCall[z].op \notin {"key", "page"}
      BY <1>1, <2>5, <2>6, <3>3
    <3>. QED
      BY <2>4, <3>2, <3>3
  <2>8. ReadersCurrent'
    <3>1. ASSUME NEW z \in PageThreads
          PROVE  /\ pageCall'[z].op \in {"me", "storeMe"} /\ "myself" \notin outrun' => pageCall'[z].seen = userRows'.user
                 /\ pageCall'[z].op = "detail" /\ "detail" \notin outrun' => pageCall'[z].seen = PageOf(userRows')
                 /\ ~rewound' /\ pageCall'[z].op \in {"key", "page"} => pageCall'[z].v <= listVersion'
                 /\ ~rewound' /\ "pages" \notin outrun' /\ pageCall'[z].op = "page" /\ pageCall'[z].v = listVersion'
                      => pageCall'[z].seen = PageOf(userRows')
      <4>1. CASE z = t
        BY <2>1, <2>2, <2>3, <4>1
      <4>2. CASE z # t
        BY <1>1, <2>1, <2>3, <2>4, <2>7, <4>2
      <4>. QED
        BY <4>1, <4>2
    <3>. QED
      BY <3>1 DEF ReadersCurrent, Serving
  <2>9. NoPagesAhead'
    BY <1>0, <2>1, <2>4, <2>6 DEF NoPagesAhead
  <2>10. CachesCurrent'
    BY <1>0, <2>1, <2>4, <2>7 DEF CachesCurrent
  <2>. QED
    BY <2>8, <2>9, <2>10 DEF CachesTrue

\* Writes, up to the commit.
<1>19. ASSUME NEW t \in PageThreads, pageCall[t].op \in Writes, NEW w \in Writes,
              NEW c, c \in {[pageCall[t] EXCEPT !.op = w], [pageCall[t] EXCEPT !.op = w, !.more = FALSE]},
              PageGoes(t, c)
       PROVE  pageCall'[t].op = w /\ \A z \in PageThreads \ {t} : pageCall'[z] = pageCall[z]
  <2>0. pageCall \in [PageThreads -> PageCalls]
    BY <1>0
  <2>. QED
    BY <1>19, <2>0, WriteGoes
<1>20. ASSUME NEW t \in PageThreads, NEW kind \in Kinds, BeginWrite(t, kind) PROVE CachesTrue'
  <2>. DEFINE c == [op |-> "write", kind |-> kind, copy |-> userRows.secret, more |-> Twice(kind)]
  <2>1. PageGoes(t, c) /\ UNCHANGED <<userRows, myself, detail, pages, listVersion, outrun, rewound>>
    BY <1>20 DEF BeginWrite, pageCaches, pageHist
  <2>2. c.op \in Writes
    BY DEF Writes
  <2>. HIDE DEF c
  <2>. QED
    BY <1>3, <1>5, <1>7, <2>1, <2>2
<1>21. ASSUME NEW t \in PageThreads, SaveRow(t) \/ VersionMissing(t) \/ SaveOther(t) PROVE CachesTrue'
  <2>1. /\ pageCall[t].op \in Writes /\ UNCHANGED <<userRows, myself, detail, pages, listVersion, outrun, rewound>>
        /\ \/ Ready(t)
           \/ \E w \in Writes :
                \E c \in {[pageCall[t] EXCEPT !.op = w], [pageCall[t] EXCEPT !.op = w, !.more = FALSE]} : PageGoes(t, c)
    BY <1>21 DEF SaveRow, VersionMissing, SaveOther, Serving, Writes, pageCaches, pageHist
  <2>2. pageCall'[t].op \in Writes \cup {"idle", "first"} /\ \A z \in PageThreads \ {t} : pageCall'[z] = pageCall[z]
    <3>1. CASE Ready(t)
      BY <1>6, <3>1
    <3>2. ASSUME NEW w \in Writes, NEW c, PageGoes(t, c),
                 c \in {[pageCall[t] EXCEPT !.op = w], [pageCall[t] EXCEPT !.op = w, !.more = FALSE]}
          PROVE  pageCall'[t].op = w /\ \A z \in PageThreads \ {t} : pageCall'[z] = pageCall[z]
      BY <1>19, <2>1, <3>2
    <3>. QED
      BY <2>1, <3>1, <3>2
  <2>. QED
    BY <1>3, <1>7, <2>1, <2>2
\* A signal forgets the caches; its new version is one nobody has used.
<1>22. ASSUME NEW t \in PageThreads, BumpVersion(t) \/ SetVersionTwo(t) PROVE CachesTrue'
  <2>1. /\ pageCall[t].op \in Writes /\ UNCHANGED <<userRows, pages>>
        /\ myself' = {} /\ detail' = {} /\ outrun' = {c \in outrun : Reading(c)}
        /\ \E w \in Writes : PageGoes(t, [pageCall[t] EXCEPT !.op = w])
    BY <1>22 DEF BumpVersion, SetVersionTwo, DeleteKeys, Serving, Writes
  <2>2. ~rewound' => ~rewound /\ listVersion < listVersion'
    <3>1. CASE BumpVersion(t)
      <4>1. rewound' = rewound
        BY <3>1 DEF BumpVersion
      <4>2. listVersion' = listVersion + 1
        BY <3>1 DEF BumpVersion
      <4>3. listVersion < listVersion'
        BY <1>0, <4>2, PageBounds
      <4>. QED
        BY <4>1, <4>3, Zenon
    <3>2. CASE SetVersionTwo(t)
      <4>1. rewound' = (rewound \/ listVersion > 1)
        BY <3>2 DEF SetVersionTwo
      <4>2. listVersion' = 2
        BY <3>2 DEF SetVersionTwo
      <4>3. listVersion > 1 \/ listVersion < listVersion'
        BY <1>0, <4>2, PageBounds
      <4>. QED
        BY <4>1, <4>3, Zenon
    <3>. QED
      BY <1>22, <3>1, <3>2
  <2>3. listVersion' \in Versions
    BY <1>0, <1>22, PageBounds DEF BumpVersion, SetVersionTwo, Versions
  <2>4. pageCall'[t].op \in Writes /\ \A z \in PageThreads \ {t} : pageCall'[z] = pageCall[z]
    BY <1>19, <2>1
  <2>5. \A z \in PageThreads : pageCall[z].op \in {"key", "page"} => pageCall[z].v \in Nat
    BY <1>0, CallShape, PageBounds DEF Versions
  <2>6. ReadersCurrent'
    <3>1. ASSUME NEW z \in PageThreads, z # t
          PROVE  /\ pageCall[z].op \in {"me", "storeMe"} /\ "myself" \notin outrun' => pageCall[z].seen = userRows'.user
                 /\ pageCall[z].op = "detail" /\ "detail" \notin outrun' => pageCall[z].seen = PageOf(userRows')
                 /\ ~rewound' /\ pageCall[z].op \in {"key", "page"} =>
                      pageCall[z].v <= listVersion' /\ pageCall[z].v # listVersion'
      <4>1. pageCall[z].op \in {"me", "storeMe"} /\ "myself" \notin outrun' => "myself" \notin outrun
        BY <2>1 DEF Reading
      <4>2. pageCall[z].op = "detail" /\ "detail" \notin outrun' => "detail" \notin outrun
        BY <2>1 DEF Reading, Serving
      <4>3. ~rewound' /\ pageCall[z].op \in {"key", "page"} => pageCall[z].v <= listVersion
        BY <1>1, <2>2
      <4>4. listVersion \in Nat /\ listVersion' \in Nat
        BY <1>0, <2>3, PageBounds DEF Versions
      <4>5. ~rewound' /\ pageCall[z].op \in {"key", "page"} =>
               pageCall[z].v <= listVersion' /\ pageCall[z].v # listVersion'
        BY <2>2, <2>5, <4>3, <4>4
      <4>. QED
        BY <1>1, <2>1, <4>1, <4>2, <4>5
    <3>2. pageCall'[t].op \notin {"me", "storeMe", "detail", "key", "page"}
      BY <2>4 DEF Writes
    <3>. QED
      BY <2>4, <3>1, <3>2 DEF ReadersCurrent, Serving
  <2>7. NoPagesAhead'
    <3>1. ASSUME ~rewound', NEW v \in Versions, pages[v] # {} PROVE v <= listVersion'
      <4>1. v <= listVersion
        BY <1>0, <2>2, <3>1 DEF NoPagesAhead
      <4>. QED
        BY <1>0, <2>2, <2>3, <3>1, <4>1, PageBounds DEF Versions
    <3>. QED
      BY <2>1, <3>1 DEF NoPagesAhead
  <2>8. ~rewound' => pages[listVersion'] = {}
    <3>1. ~rewound' => ~(listVersion' <= listVersion)
      BY <1>0, <2>2, <2>3, PageBounds DEF Versions
    <3>. QED
      BY <1>0, <2>2, <2>3, <3>1 DEF NoPagesAhead
  <2>. QED
    BY <2>1, <2>6, <2>7, <2>8 DEF CachesTrue, CachesCurrent
\* Commits: what still shows the old rows is outrun.
<1>23. ASSUME NEW changed, outrun \cup Showing(changed) \subseteq outrun',
              UNCHANGED <<myself, detail, pages, listVersion, rewound>>,
              \A z \in PageThreads : pageCall'[z] = pageCall[z] \/ pageCall'[z].op = "idle",
              "myself" \in changed \/ userRows'.user = userRows.user,
              {"detail", "pages"} \subseteq changed \/ PageOf(userRows') = PageOf(userRows)
       PROVE  CachesTrue'
  <2>1. "myself" \notin outrun' =>
          /\ "myself" \notin outrun
          /\ \/ userRows'.user = userRows.user
             \/ myself = {} /\ \A z \in PageThreads : pageCall[z].op \notin {"me", "storeMe"}
    BY <1>23 DEF Showing
  <2>2. "detail" \notin outrun' =>
          /\ "detail" \notin outrun
          /\ \/ PageOf(userRows') = PageOf(userRows)
             \/ detail = {} /\ \A z \in PageThreads : pageCall[z].op # "detail"
    BY <1>23 DEF Showing, Serving
  <2>3. "pages" \notin outrun' =>
          /\ "pages" \notin outrun
          /\ \/ PageOf(userRows') = PageOf(userRows)
             \/ /\ listVersion > 0 => pages[listVersion] = {}
                /\ \A z \in PageThreads : ~(pageCall[z].op = "page" /\ pageCall[z].v = listVersion)
    BY <1>23 DEF Showing, Serving
  <2>4. CachesCurrent'
    BY <1>0, <1>23, <2>1, <2>2, <2>3 DEF CachesCurrent
  <2>5. NoPagesAhead'
    BY <1>0, <1>23 DEF NoPagesAhead
  <2>6. ReadersCurrent'
    <3>1. ASSUME NEW z \in PageThreads
          PROVE  /\ pageCall'[z].op \in {"me", "storeMe"} /\ "myself" \notin outrun' => pageCall'[z].seen = userRows'.user
                 /\ pageCall'[z].op = "detail" /\ "detail" \notin outrun' => pageCall'[z].seen = PageOf(userRows')
                 /\ ~rewound' /\ pageCall'[z].op \in {"key", "page"} => pageCall'[z].v <= listVersion'
                 /\ ~rewound' /\ "pages" \notin outrun' /\ pageCall'[z].op = "page" /\ pageCall'[z].v = listVersion'
                      => pageCall'[z].seen = PageOf(userRows')
      <4>1. CASE pageCall'[z].op = "idle"
        BY <4>1
      <4>2. CASE pageCall'[z] = pageCall[z]
        BY <1>1, <1>23, <2>1, <2>2, <2>3, <4>2
      <4>. QED
        BY <1>23, <4>1, <4>2
    <3>. QED
      BY <3>1 DEF ReadersCurrent, Serving
  <2>. QED
    BY <2>4, <2>5, <2>6 DEF CachesTrue
<1>24. ASSUME NEW t \in PageThreads, CommitUserEdit(t) \/ CommitDeletion(t) PROVE CachesTrue'
  <2>. DEFINE all == {"myself", "detail", "pages"}
  <2>1. /\ outrun \cup Showing(all) \subseteq outrun' /\ Ready(t)
        /\ UNCHANGED <<myself, detail, pages, listVersion, rewound>>
    BY <1>24 DEF CommitUserEdit, CommitDeletion, pageCaches
  <2>2. \A z \in PageThreads : pageCall'[z] = pageCall[z] \/ pageCall'[z].op = "idle"
    BY <1>6, <2>1
  <2>. QED
    BY <1>23, <2>1, <2>2
<1>25. ASSUME NEW t \in PageThreads, CommitProfile(t) PROVE CachesTrue'
  <2>. DEFINE both == {"detail", "pages"}
  <2>1. /\ outrun \cup Showing(both) \subseteq outrun' /\ Ready(t) /\ userRows'.user = userRows.user
        /\ UNCHANGED <<myself, detail, pages, listVersion, rewound>>
    BY <1>0, <1>25 DEF CommitProfile, pageCaches
  <2>2. \A z \in PageThreads : pageCall'[z] = pageCall[z] \/ pageCall'[z].op = "idle"
    BY <1>6, <2>1
  <2>. QED
    BY <1>23, <2>1, <2>2
<1>26. ASSUME NEW t \in PageThreads, CommitPassword(t) PROVE CachesTrue'
  <2>1. /\ outrun \cup Showing({}) \subseteq outrun' /\ Ready(t) /\ userRows'.user = userRows.user
        /\ PageOf(userRows') = PageOf(userRows)
        /\ UNCHANGED <<myself, detail, pages, listVersion, rewound>>
    BY <1>0, <1>26 DEF CommitPassword, pageCaches, Showing, PageOf
  <2>2. \A z \in PageThreads : pageCall'[z] = pageCall[z] \/ pageCall'[z].op = "idle"
    BY <1>6, <2>1
  <2>. QED
    BY <1>23, <2>1, <2>2
<1>27. ASSUME UpdateQuietly PROVE CachesTrue'
  <2>. DEFINE both == {"detail", "pages"}
  <2>1. /\ outrun \cup Showing(both) \subseteq outrun' /\ UNCHANGED pageCall /\ userRows'.user = userRows.user
        /\ UNCHANGED <<myself, detail, pages, listVersion, rewound>>
    BY <1>0, <1>27 DEF UpdateQuietly, pageCaches
  <2>. QED
    BY <1>23, <2>1
<1>28. CASE UNCHANGED pageVars
  BY <1>4, <1>28 DEF pageVars, pageCaches, pageHist
<1>29. CASE UserPagesNext
  BY <1>8, <1>9, <1>10, <1>11, <1>12, <1>13, <1>14, <1>15, <1>16, <1>17, <1>18, <1>20, <1>21, <1>22,
     <1>24, <1>25, <1>26, <1>27, <1>29 DEF UserPagesNext
<1>. QED
  BY <1>28, <1>29

\* Every step keeps the invariant.
LEMMA UserPagesStepKeeps == UserPagesInv /\ [UserPagesNext]_pageVars => UserPagesInv'
BY UserPagesTypeNext, CachesNext, PasswordNext, GoneNext, LocksNext DEF UserPagesInv, CachesTrue

\* What the cache tells of a user is the row as it is unless the row outran a
\* reader or a cached answer, no list waits under a version still to come, the
\* password is the last one set unless an edit saved an older one, and nobody
\* but an edit or a second deletion still holds an account that is gone.
THEOREM UserPagesHold == UserPagesSpec => []UserPagesInv
BY PagesStart, UserPagesStepKeeps, PTL DEF UserPagesSpec
=============================================================================
