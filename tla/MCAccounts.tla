----------------------------- MODULE MCAccounts -----------------------------
(***************************************************************************)
(* Small instances of the components around a user's account for TLC, his  *)
(* notifications among them.  They share the database and hardly any row   *)
(* of it, so one run holds them all: the initial states choose the part    *)
(* that moves, and the others stay as they began.                          *)
(***************************************************************************)
EXTENDS Registration, Credentials, Messaging, PhoneCatalog, Discovery, RuntimeConfig,
        Notices, UserPages, TLC

\* t1 and t2 name the threads of every part, and the happenings of which
\* notifications tell, so that one symmetry serves all parts.
CONSTANTS wa, sms, twilio, termii, s1, t1, t2, u1, u2

\* One provider serves WhatsApp alone, two serve SMS.
Channel  == <<wa, sms>>
Vendors  == (wa :> <<twilio>>) @@ (sms :> <<twilio, termii>>)
\* One spot: no property tells far from near.
Reach    == s1 :> {s1}

VARIABLE part   \* the part that moves

identityVars == <<regVars, credVars, messageVars>>
peopleVars   == <<catVars, discVars, configVars, pageVars>>
accountsVars == <<part, identityVars, peopleVars, noticeVars>>

AccountsInit ==
  /\ part \in {"registration", "credentials", "codes", "catalog", "discovery", "config", "pages", "notices"}
  /\ RegInit /\ CredInit /\ MessagingInit
  /\ CatInit /\ DiscInit /\ ConfigInit /\ UserPagesInit /\ NoticeInit

Moves(p) == part = p /\ UNCHANGED part

NextIdentity ==
  \/ Moves("registration") /\ RegNext       /\ UNCHANGED <<credVars, messageVars>>
  \/ Moves("credentials")  /\ CredNext      /\ UNCHANGED <<regVars, messageVars>>
  \/ Moves("codes")        /\ MessagingNext /\ UNCHANGED <<regVars, credVars>>
NextPeople ==
  \/ Moves("catalog")   /\ CatNext       /\ UNCHANGED <<discVars, configVars, pageVars>>
  \/ Moves("discovery") /\ DiscNext      /\ UNCHANGED <<catVars, configVars, pageVars>>
  \/ Moves("config")    /\ ConfigNext    /\ UNCHANGED <<catVars, discVars, pageVars>>
  \/ Moves("pages")     /\ UserPagesNext /\ UNCHANGED <<catVars, discVars, configVars>>

AccountsNext ==
  \/ NextIdentity                   /\ UNCHANGED <<peopleVars, noticeVars>>
  \/ NextPeople                     /\ UNCHANGED <<identityVars, noticeVars>>
  \/ Moves("notices") /\ NoticeNext /\ UNCHANGED <<identityVars, peopleVars>>

AccountsSpec == AccountsInit /\ [][AccountsNext]_accountsVars

ServerSymmetry == Permutations({t1, t2}) \cup Permutations({u1, u2})
=============================================================================
