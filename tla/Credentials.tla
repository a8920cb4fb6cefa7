---------------------------- MODULE Credentials ----------------------------
(***************************************************************************)
(* One user's password, the codes that reset it, the sessions and a device *)
(* (src/accounts/services: otp, rate_limiter, password, authentication,    *)
(* tokens, device).                                                        *)
(*                                                                         *)
(* A verification is guarded three times: a Redis lock that expires, the   *)
(* lock of the OTP's row until the reset commits, and an UPDATE that asks  *)
(* again for an unused row.  What a refused reset wrote to the database is *)
(* rolled back; what it counted in Redis is not.  MaxResetCodes,           *)
(* MaxSessions and MaxCredCalls bound a behaviour.                         *)
(***************************************************************************)
EXTENDS Integers, FiniteSets

CONSTANTS
  CredThreads,     \* threads serving the user's calls
  MaxResetCodes,   \* bound: OTP rows, numbered as they are created
  MaxGuesses,      \* OTP_MAX_ATTEMPTS
  LoginFailures,   \* LOGIN_MAX_FAILED_ATTEMPTS
  MaxSessions,     \* bound: refresh tokens
  MaxCredCalls     \* bound: calls served

ASSUME CredLimits == MaxResetCodes \in Nat /\ MaxGuesses \in Nat /\ LoginFailures \in Nat
ASSUME CredBounds == MaxSessions \in Nat /\ MaxCredCalls \in Nat

VARIABLES
  otp,        \* otp[k]: the OTP row: used, late (expires_at has passed)
  guesses,    \* guesses[k]: the attempts counter in Redis, 0 when there is none
  resetCool,  \* whether the reset is on cooldown
  verifier,   \* holder of the Redis lock
  rowHolder,  \* rowHolder[k]: the transaction that locked the OTP's row
  password,   \* how often the password was set
  failures,   \* the login counter in Redis
  lockedOut,  \* whether logins are on cooldown
  session,    \* session[n]: the refresh token n
  device,     \* the UserDevice row: deleted, trusted, push
  credcall,   \* credcall[t]: the call thread t serves
  credtogo,   \* calls still to come
  tried,      \* history, tried[k]: how often a code was compared with k's
  resets      \* history, resets[k]: passwords set with the code k

otpVars  == <<otp, guesses, resetCool, verifier, rowHolder, tried, resets>>
authVars == <<failures, lockedOut, device>>
credVars == <<otpVars, authVars, password, session, credcall, credtogo>>

ResetCodes == 1 .. MaxResetCodes
Sessions   == 1 .. MaxSessions
OtpRows    == [there : BOOLEAN, used : BOOLEAN, late : BOOLEAN]
NoOtp      == [there |-> FALSE, used |-> TRUE, late |-> FALSE]
Devices    == [deleted : BOOLEAN, trusted : BOOLEAN, push : BOOLEAN]
NoCredCall == [op |-> "idle"]
CredCalls  == {NoCredCall}
              \cup [op : {"request", "invalidated", "login", "change", "revoke", "trust", "push"}]
              \cup [op : {"verify"}, guess : 0 .. MaxResetCodes]
              \cup [op : {"compare"}, guess : 0 .. MaxResetCodes, k : ResetCodes]
              \cup [op : {"matched"}, k : ResetCodes]
              \cup [op : {"refresh"}, n : Sessions]

CredInit ==
  /\ otp = [k \in ResetCodes |-> NoOtp]
  /\ guesses = [k \in ResetCodes |-> 0]
  /\ resetCool = FALSE /\ verifier = {}
  /\ rowHolder = [k \in ResetCodes |-> {}]
  /\ password = 0 /\ failures = 0 /\ lockedOut = FALSE
  /\ session = [n \in Sessions |-> "none"]
  /\ device = [deleted |-> FALSE, trusted |-> FALSE, push |-> FALSE]
  /\ credcall = [t \in CredThreads |-> NoCredCall]
  /\ credtogo = MaxCredCalls
  /\ tried = [k \in ResetCodes |-> 0] /\ resets = [k \in ResetCodes |-> 0]

Accept(t, c) ==
  /\ credcall[t] = NoCredCall /\ credtogo > 0
  /\ credtogo' = credtogo - 1
  /\ credcall' = [credcall EXCEPT ![t] = c]
Proceed(t, c) == credcall' = [credcall EXCEPT ![t] = c] /\ UNCHANGED credtogo
Done(t)       == Proceed(t, NoCredCall)

RevokeAll == session' = [n \in Sessions |-> IF session[n] = "live" THEN "black" ELSE session[n]]
NewSession(from) ==
  \E n \in Sessions :
    /\ session[n] = "none"
    /\ session' = [m \in Sessions |-> IF m = n THEN "live"
                                      ELSE IF m \in from THEN "black" ELSE session[m]]

-----------------------------------------------------------------------------
(* OTPService.issue, inside request_reset's transaction *)

BeginReset(t) ==
  /\ ~resetCool /\ Accept(t, [op |-> "request"])
  /\ UNCHANGED <<otpVars, authVars, password, session>>

\* Every unused row is marked used; a row that a verification locked waits.
Invalidate(t) ==
  /\ credcall[t].op = "request"
  /\ \A k \in ResetCodes : rowHolder[k] = {}
  /\ otp' = [k \in ResetCodes |-> [otp[k] EXCEPT !.used = TRUE]]
  /\ Proceed(t, [op |-> "invalidated"])
  /\ UNCHANGED <<guesses, resetCool, verifier, rowHolder, tried, resets, authVars, password, session>>

CreateOtp(t) ==
  /\ credcall[t].op = "invalidated"
  /\ \E k \in ResetCodes :
       /\ ~otp[k].there /\ \A j \in 1 .. k - 1 : otp[j].there
       /\ otp' = [otp EXCEPT ![k] = [there |-> TRUE, used |-> FALSE, late |-> FALSE]]
       /\ guesses' = [guesses EXCEPT ![k] = 0]
  /\ resetCool' = TRUE
  /\ Done(t)
  /\ UNCHANGED <<verifier, rowHolder, tried, resets, authVars, password, session>>

-----------------------------------------------------------------------------
(* OTPService.verify, inside confirm_reset's transaction *)

Confirm(t, guess) ==
  /\ verifier = {} /\ verifier' = {t}
  /\ Accept(t, [op |-> "verify", guess |-> guess])
  /\ UNCHANGED <<otp, guesses, resetCool, rowHolder, tried, resets, authVars, password, session>>

\* The latest unused row, and its lock; a locked row waits.
Latest(k) == ~otp[k].used /\ \A j \in ResetCodes : j > k => otp[j].used
SelectOtp(t) ==
  /\ credcall[t].op = "verify"
  /\ \E k \in ResetCodes :
       /\ Latest(k) /\ rowHolder[k] = {}
       /\ rowHolder' = [rowHolder EXCEPT ![k] = {t}]
       /\ Proceed(t, [op |-> "compare", guess |-> credcall[t].guess, k |-> k])
  /\ UNCHANGED <<otp, guesses, resetCool, verifier, tried, resets, authVars, password, session>>
NoOtpLeft(t) ==
  /\ credcall[t].op = "verify" /\ \A k \in ResetCodes : otp[k].used
  /\ verifier' = verifier \ {t}
  /\ Done(t)
  /\ UNCHANGED <<otp, guesses, resetCool, rowHolder, tried, resets, authVars, password, session>>

\* An attempt is counted before the code is compared.
MayCompareLate(k) == TRUE
MayCompare(k) == ~otp[k].late
CompareCode(t) ==
  LET c == credcall[t]
  IN  /\ c.op = "compare"
      /\ IF MayCompare(c.k)
         THEN /\ guesses' = [guesses EXCEPT ![c.k] = @ + 1]
              /\ tried' = [tried EXCEPT ![c.k] = IF guesses'[c.k] <= MaxGuesses THEN @ + 1 ELSE @]
         ELSE UNCHANGED <<guesses, tried>>
      /\ verifier' = verifier \ {t}
      /\ IF MayCompare(c.k) /\ guesses'[c.k] <= MaxGuesses /\ c.guess = c.k
         THEN Proceed(t, [op |-> "matched", k |-> c.k]) /\ UNCHANGED rowHolder
         ELSE Done(t) /\ rowHolder' = [rowHolder EXCEPT ![c.k] = {}]
      /\ UNCHANGED <<otp, resetCool, resets, authVars, password, session>>

\* The row is marked if it is still unused, the password set, the sessions
\* revoked, all in the commit.
ConfirmReset(t) ==
  LET k == credcall[t].k
  IN  /\ credcall[t].op = "matched"
      /\ rowHolder' = [rowHolder EXCEPT ![k] = {}]
      /\ IF otp[k].used THEN UNCHANGED <<otp, resets, password, session>>
         ELSE /\ otp' = [otp EXCEPT ![k].used = TRUE]
              /\ resets' = [resets EXCEPT ![k] = @ + 1]
              /\ password' = password + 1
              /\ RevokeAll
      /\ Done(t)
      /\ UNCHANGED <<guesses, resetCool, verifier, tried, authVars>>

\* Ten seconds after it was taken the Redis lock is free, held or not.
VerifierExpires ==
  /\ verifier # {} /\ verifier' = {}
  /\ UNCHANGED <<otp, guesses, resetCool, rowHolder, tried, resets, authVars,
                 password, session, credcall, credtogo>>
ResetCoolEnds ==
  /\ resetCool /\ resetCool' = FALSE
  /\ UNCHANGED <<otp, guesses, verifier, rowHolder, tried, resets, authVars,
                 password, session, credcall, credtogo>>

\* A code is late one TTL after its row, its counter one TTL after the first
\* attempt, which is later.
OtpExpires(k) ==
  /\ otp[k].there
  /\ \/ ~otp[k].late /\ otp' = [otp EXCEPT ![k].late = TRUE] /\ UNCHANGED guesses
     \/ otp[k].late /\ guesses' = [guesses EXCEPT ![k] = 0] /\ UNCHANGED otp
  /\ UNCHANGED <<resetCool, verifier, rowHolder, tried, resets, authVars,
                 password, session, credcall, credtogo>>

-----------------------------------------------------------------------------
(* Logins, refreshes, logouts, password changes *)

\* right: the password given is the one stored now.
BeginLogin(t, right) ==
  /\ ~lockedOut
  /\ Accept(t, IF right THEN [op |-> "login"] ELSE NoCredCall)
  /\ IF right THEN UNCHANGED <<failures, lockedOut>>
     ELSE /\ failures' = IF failures > LoginFailures THEN failures ELSE failures + 1
          /\ lockedOut' = (failures' > LoginFailures)
  /\ UNCHANGED <<otpVars, device, password, session>>
CommitLogin(t) ==
  /\ credcall[t].op = "login"
  /\ failures' = 0
  /\ \E push \in BOOLEAN : device' = [device EXCEPT !.deleted = FALSE, !.push = push]
  /\ NewSession({})
  /\ Done(t)
  /\ UNCHANGED <<otpVars, lockedOut, password>>
LockoutEnds ==
  /\ lockedOut /\ lockedOut' = FALSE /\ failures' = 0
  /\ UNCHANGED <<otpVars, device, password, session, credcall, credtogo>>

\* The old token is verified before it is blacklisted.
BeginRefresh(t, n) ==
  /\ session[n] = "live" /\ Accept(t, [op |-> "refresh", n |-> n])
  /\ UNCHANGED <<otpVars, authVars, password, session>>
CommitRefresh(t) ==
  /\ credcall[t].op = "refresh"
  /\ NewSession({credcall[t].n})
  /\ Done(t)
  /\ UNCHANGED <<otpVars, authVars, password>>

Logout(t, n) ==
  /\ session[n] = "live" /\ Accept(t, NoCredCall)
  /\ session' = [session EXCEPT ![n] = "black"]
  /\ UNCHANGED <<otpVars, authVars, password>>
LogoutEverywhere(t) ==
  /\ Accept(t, NoCredCall)
  /\ RevokeAll
  /\ device' = [deleted |-> TRUE, trusted |-> FALSE, push |-> FALSE]
  /\ UNCHANGED <<otpVars, failures, lockedOut, password>>

\* The current password was compared with the user read for the request.
BeginChange(t) ==
  /\ Accept(t, [op |-> "change"])
  /\ UNCHANGED <<otpVars, authVars, password, session>>
CommitChange(t) ==
  /\ credcall[t].op = "change"
  /\ password' = password + 1
  /\ RevokeAll
  /\ Done(t)
  /\ UNCHANGED <<otpVars, authVars>>

\* Device calls read a device that is not deleted, and update it by its key.
BeginDevice(t, op) ==
  /\ ~device.deleted /\ Accept(t, [op |-> op])
  /\ UNCHANGED <<otpVars, authVars, password, session>>
CommitDevice(t) ==
  /\ \/ credcall[t].op = "trust" /\ device' = [device EXCEPT !.trusted = TRUE]
     \/ credcall[t].op = "push" /\ device' = [device EXCEPT !.push = TRUE]
     \/ /\ credcall[t].op = "revoke"
        /\ device' = [deleted |-> TRUE, trusted |-> FALSE, push |-> FALSE]
  /\ Done(t)
  /\ UNCHANGED <<otpVars, failures, lockedOut, password, session>>

-----------------------------------------------------------------------------
CredCall(t) ==
  \/ BeginReset(t) \/ Invalidate(t) \/ CreateOtp(t)
  \/ SelectOtp(t) \/ NoOtpLeft(t) \/ CompareCode(t) \/ ConfirmReset(t)
  \/ \E guess \in 0 .. MaxResetCodes : Confirm(t, guess)
  \/ \E right \in BOOLEAN : BeginLogin(t, right)
  \/ CommitLogin(t) \/ CommitRefresh(t) \/ LogoutEverywhere(t)
  \/ BeginChange(t) \/ CommitChange(t)
  \/ \E n \in Sessions : BeginRefresh(t, n) \/ Logout(t, n)
  \/ \E op \in {"trust", "push", "revoke"} : BeginDevice(t, op)
  \/ CommitDevice(t)

CredNext ==
  \/ \E t \in CredThreads : CredCall(t)
  \/ \E k \in ResetCodes : OtpExpires(k)
  \/ VerifierExpires \/ ResetCoolEnds \/ LockoutEnds

CredSpec == CredInit /\ [][CredNext]_credVars

-----------------------------------------------------------------------------
(* Properties *)

\* Every row, key and call keeps its type.
CredTypeOK ==
  /\ otp \in [ResetCodes -> OtpRows]
  /\ guesses \in [ResetCodes -> Nat] /\ tried \in [ResetCodes -> Nat]
  /\ resets \in [ResetCodes -> Nat]
  /\ resetCool \in BOOLEAN /\ lockedOut \in BOOLEAN
  /\ verifier \subseteq CredThreads /\ rowHolder \in [ResetCodes -> SUBSET CredThreads]
  /\ password \in Nat /\ failures \in 0 .. LoginFailures + 1
  /\ session \in [Sessions -> {"none", "live", "black"}]
  /\ device \in Devices
  /\ credcall \in [CredThreads -> CredCalls] /\ credtogo \in 0 .. MaxCredCalls

\* A code resets the password once, even when the Redis lock expired under a
\* verification that goes on.
CodesResetOnce ==
  \A k \in ResetCodes : resets[k] <= 1 /\ (resets[k] = 1 => otp[k].used)

\* No code is compared more often than OTP_MAX_ATTEMPTS: a refused reset
\* rolls its row back but not its counter, and the counter outlives the code.
GuessesBounded ==
  \A k \in ResetCodes : tried[k] <= MaxGuesses /\ (~otp[k].late => tried[k] <= guesses[k])

\* One transaction at a time is at a row, and it is the one that holds it.
RowsHeld ==
  \A t \in CredThreads : credcall[t].op \in {"compare", "matched"} =>
    rowHolder[credcall[t].k] = {t}

\* What the three rest on: a code that was not sent yet is unusable and never
\* was tried, and a verification is about one that was.
FreshCodes ==
  /\ \A k \in ResetCodes : ~otp[k].there => otp[k].used /\ tried[k] = 0 /\ resets[k] = 0
  /\ \A t \in CredThreads : credcall[t].op \in {"compare", "matched"} => otp[credcall[t].k].there

\* Password reset as a whole: a code is good for one reset and a bounded
\* number of guesses, although the Redis lock may lapse at any time.
CredInv == CredTypeOK /\ CodesResetOnce /\ GuessesBounded /\ RowsHeld /\ FreshCodes
=============================================================================
