--------------------------- MODULE ServiceProofs ---------------------------
(***************************************************************************)
(* Proofs about the services beneath, for every number of processes,       *)
(* providers, events and losses: runtime settings, one-time codes on their *)
(* way, and notifications.                                                 *)
(***************************************************************************)
EXTENDS RuntimeConfig, Messaging, Notices, FiniteSetTheorems,
        SequenceTheorems, WellFoundedInduction, TLAPS

-----------------------------------------------------------------------------
(***************************************************************************)
(* Proof that what get_config serves from its cache was committed, and is  *)
(* what the table holds unless an edit ended next to a reader or a map of  *)
(* another value, for every number of processes, values and edits.         *)
(* ReadersFresh makes ConfigInv inductive.                                 *)
(***************************************************************************)

\* The beginning fits.
LEMMA ConfigStart == ConfigInit => ConfigInv
<1>. SUFFICES ASSUME ConfigInit PROVE ConfigInv
  OBVIOUS
<1>1. Cardinality(cachedMap) = 0
  BY FS_EmptySet DEF ConfigInit
<1>2. ConfigTypeOK
  <2>1. NotReading \in ConfigReaders /\ NoEdit \in Edits /\ Env \in Values
    BY DEF ConfigReaders, Edits, Values
  <2>2. reader \in [Processes -> ConfigReaders]
    BY <2>1 DEF ConfigInit
  <2>3. cachedMap \subseteq Values /\ Cardinality(cachedMap) <= 1
    BY <1>1 DEF ConfigInit
  <2>4. editsLeft \in 0 .. MaxConfigEdits /\ readsLeft \in 0 .. MaxConfigReads
    BY ConfigNats DEF ConfigInit
  <2>. QED
    BY <2>1, <2>2, <2>3, <2>4 DEF ConfigInit, ConfigTypeOK
<1>3. ServedWasCommitted /\ CacheFresh /\ ReadersFresh
  BY DEF ConfigInit, ServedWasCommitted, CacheFresh, ReadersFresh, NotReading
<1>. QED
  BY <1>2, <1>3 DEF ConfigInv

\* What a reader and an edit carry, by their stage.
LEMMA ConfigCarried ==
  ASSUME ConfigTypeOK
  PROVE  /\ \A p \in Processes : reader[p].at = "store" => reader[p].got \in Values
         /\ edit.at \in {"form", "emptied", "action", "written"} => edit.to \in Values
<1>1. ASSUME NEW p \in Processes PROVE reader[p].at = "store" => reader[p].got \in Values
  <2>. reader[p] \in ConfigReaders
    BY DEF ConfigTypeOK
  <2>. QED
    BY DEF ConfigReaders, NotReading
<1>2. edit \in Edits
  BY DEF ConfigTypeOK
<1>. QED
  BY <1>1, <1>2 DEF Edits, NoEdit

\* A read past the cache: it stores what was committed when it read.
LEMMA ReadKeeps ==
  ASSUME ConfigInv, NEW p \in Processes,
         MissCache(p) \/ ReadTable(p) \/ TableFails(p) \/ StoreRead(p) \/ AvoidEnds(p)
  PROVE  ConfigInv'
<1>0. ConfigTypeOK /\ ServedWasCommitted /\ CacheFresh /\ ReadersFresh
  BY DEF ConfigInv
<1>1. CASE MissCache(p)
  <2>1. ConfigTypeOK'
    <3>1. [at |-> "table"] \in ConfigReaders
      BY DEF ConfigReaders
    <3>2. readsLeft' \in 0 .. MaxConfigReads
      BY <1>0, <1>1, ConfigNats DEF MissCache, ConfigTypeOK
    <3>. QED
      BY <1>0, <1>1, <3>1, <3>2 DEF MissCache, ConfigTypeOK
  <2>2. \A q \in Processes : reader'[q].at = "store" => reader'[q] = reader[q]
    BY <1>0, <1>1 DEF MissCache, ConfigTypeOK
  <2>. QED
    BY <1>0, <1>1, <2>1, <2>2 DEF MissCache, ConfigInv, ServedWasCommitted, CacheFresh, ReadersFresh
<1>2. CASE ReadTable(p)
  <2>1. ConfigTypeOK'
    <3>1. [at |-> "store", got |-> override] \in ConfigReaders
      BY <1>0 DEF ConfigReaders, ConfigTypeOK
    <3>. QED
      BY <1>0, <1>2, <3>1 DEF ReadTable, ConfigTypeOK
  <2>2. \A q \in Processes : reader'[q].at = "store" =>
          reader'[q] = reader[q] \/ reader'[q].got = override
    BY <1>0, <1>2 DEF ReadTable, ConfigTypeOK
  <2>. QED
    BY <1>0, <1>2, <2>1, <2>2 DEF ReadTable, ConfigInv, ServedWasCommitted, CacheFresh, ReadersFresh
<1>3. CASE TableFails(p) \/ AvoidEnds(p)
  <2>1. ConfigTypeOK'
    BY <1>0, <1>3 DEF TableFails, AvoidEnds, ConfigTypeOK, ConfigReaders
  <2>2. \A q \in Processes : reader'[q].at = "store" => reader'[q] = reader[q]
    BY <1>0, <1>3 DEF TableFails, AvoidEnds, ConfigTypeOK, NotReading
  <2>. QED
    BY <1>0, <1>3, <2>1, <2>2
      DEF TableFails, AvoidEnds, ConfigInv, ServedWasCommitted, CacheFresh, ReadersFresh
<1>4. CASE StoreRead(p)
  <2>1. reader[p].got \in Values
    BY <1>0, <1>4, ConfigCarried DEF StoreRead
  <2>2. Cardinality({reader[p].got}) = 1
    BY FS_Singleton
  <2>3. cachedMap' \subseteq Values /\ Cardinality(cachedMap') <= 1
    BY <1>0, <1>4, <2>1, <2>2 DEF StoreRead, ConfigTypeOK
  <2>4. ConfigTypeOK'
    BY <1>0, <1>4, <2>3 DEF StoreRead, ConfigTypeOK, ConfigReaders
  <2>5. \A q \in Processes : reader'[q].at = "store" => reader'[q] = reader[q]
    BY <1>0, <1>4 DEF StoreRead, ConfigTypeOK, NotReading
  <2>. QED
    BY <1>0, <1>4, <2>4, <2>5 DEF StoreRead, ConfigInv, ServedWasCommitted, CacheFresh, ReadersFresh
<1>. QED
  BY <1>1, <1>2, <1>3, <1>4

\* A cached map that expires keeps the invariant.
LEMMA ExpiryKeeps ==
  ASSUME ConfigInv, CacheExpires
  PROVE  ConfigInv'
<1>0. ConfigTypeOK /\ ServedWasCommitted /\ CacheFresh /\ ReadersFresh
  BY DEF ConfigInv
<1>1. Cardinality(cachedMap') = 0
  BY FS_EmptySet DEF CacheExpires
<1>2. crossed' \in BOOLEAN
  BY DEF CacheExpires
<1>3. ConfigTypeOK'
  BY <1>0, <1>1, <1>2 DEF CacheExpires, ConfigTypeOK
<1>4. ServedWasCommitted' /\ CacheFresh'
  BY <1>0 DEF CacheExpires, ServedWasCommitted, CacheFresh
<1>5. ReadersFresh'
  BY <1>0 DEF CacheExpires, ReadersFresh
<1>. QED
  BY <1>3, <1>4, <1>5 DEF ConfigInv

\* Steps of an edit that leave the table, the cache and the readers alone.
LEMMA QuietEditKeeps ==
  ASSUME ConfigInv,
         \/ RollBackForm
         \/ \E way \in {"form", "action"}, v \in Values : OpenEdit(way, v)
  PROVE  ConfigInv'
<1>0. ConfigTypeOK /\ ServedWasCommitted /\ CacheFresh /\ ReadersFresh
  BY DEF ConfigInv
<1>1. /\ edit.at # "written" /\ edit'.at # "written" /\ edit' \in Edits
      /\ editsLeft' \in 0 .. MaxConfigEdits
      /\ UNCHANGED <<override, cachedMap, avoid, reader, readsLeft, everOverride, crossed>>
  <2>1. CASE RollBackForm
    BY <1>0, <2>1 DEF RollBackForm, NoEdit, Edits, ConfigTypeOK
  <2>2. CASE \E way \in {"form", "action"}, v \in Values : OpenEdit(way, v)
    <3>. PICK way \in {"form", "action"}, v \in Values : OpenEdit(way, v)
      BY <2>2
    <3>1. edit = NoEdit /\ edit' = [at |-> way, to |-> v]
      BY DEF OpenEdit
    <3>2. editsLeft' \in 0 .. MaxConfigEdits
      BY <1>0, ConfigNats DEF OpenEdit, ConfigTypeOK
    <3>3. edit.at # "written" /\ edit'.at # "written" /\ edit' \in Edits
      BY <3>1 DEF NoEdit, Edits
    <3>. QED
      BY <3>2, <3>3 DEF OpenEdit
  <2>. QED
    BY <2>1, <2>2
<1>2. ConfigTypeOK'
  BY <1>0, <1>1 DEF ConfigTypeOK
<1>. QED
  BY <1>0, <1>1, <1>2 DEF ConfigInv, ServedWasCommitted, CacheFresh, ReadersFresh

\* An edit that empties the cache keeps it.
LEMMA EmptyKeeps ==
  ASSUME ConfigInv, NEW p \in Processes, EmptyInForm(p) \/ EmptyAfterAction(p)
  PROVE  ConfigInv'
<1>0. ConfigTypeOK /\ ServedWasCommitted /\ CacheFresh /\ ReadersFresh
  BY DEF ConfigInv
<1>1. cachedMap' \subseteq cachedMap /\ Cardinality(cachedMap') <= 1
  BY <1>0, FS_EmptySet DEF EmptyInForm, EmptyAfterAction, EmptyCache, ConfigTypeOK
<1>2. edit' \in Edits
  <2>1. CASE EmptyInForm(p)
    <3>1. edit.at = "form" /\ edit' = [edit EXCEPT !.at = "emptied"] /\ edit \in Edits
      BY <1>0, <2>1 DEF EmptyInForm, ConfigTypeOK
    <3>. QED
      BY <3>1 DEF Edits, NoEdit
  <2>2. CASE EmptyAfterAction(p)
    BY <2>2 DEF EmptyAfterAction, Edits
  <2>. QED
    BY <2>1, <2>2
<1>3. crossed' \in BOOLEAN
  BY <1>0 DEF EmptyInForm, EmptyAfterAction, ConfigTypeOK
<1>4. ConfigTypeOK'
  BY <1>0, <1>1, <1>2, <1>3 DEF EmptyInForm, EmptyAfterAction, EmptyCache, ConfigTypeOK
<1>5. ServedWasCommitted'
  BY <1>0, <1>1 DEF EmptyInForm, EmptyAfterAction, EmptyCache, ServedWasCommitted
<1>6. CacheFresh'
  <2>1. CASE EmptyInForm(p)
    <3>1. edit.at # "written"
      BY <2>1 DEF EmptyInForm
    <3>. QED
      BY <1>0, <1>1, <2>1, <3>1 DEF EmptyInForm, EmptyCache, CacheFresh
  <2>2. CASE EmptyAfterAction(p)
    BY <2>2 DEF EmptyAfterAction, EmptyCache, CacheFresh
  <2>. QED
    BY <2>1, <2>2
<1>7. ReadersFresh'
  BY <1>0 DEF EmptyInForm, EmptyAfterAction, EmptyCache, ReadersFresh
<1>. QED
  BY <1>4, <1>5, <1>6, <1>7 DEF ConfigInv

\* An edit that changes the table: a form notes what is held of the old
\* value, an action is not over before it has emptied the cache.
LEMMA WriteKeeps ==
  ASSUME ConfigInv, CommitForm \/ WriteInAction
  PROVE  ConfigInv'
<1>0. ConfigTypeOK /\ ServedWasCommitted /\ CacheFresh /\ ReadersFresh
  BY DEF ConfigInv
<1>1. edit.to \in Values /\ edit \in Edits /\ edit.at \in {"emptied", "action"}
  BY <1>0, ConfigCarried DEF CommitForm, WriteInAction, ConfigTypeOK
<1>2. /\ override' = edit.to /\ everOverride' = everOverride \cup {edit.to}
      /\ UNCHANGED <<cachedMap, avoid, reader, editsLeft, readsLeft>>
  BY DEF CommitForm, WriteInAction
<1>3. edit' \in Edits
  BY <1>1 DEF CommitForm, WriteInAction, Edits, NoEdit
<1>4. crossed' \in BOOLEAN
  BY <1>0 DEF CommitForm, WriteInAction, ConfigTypeOK
<1>5. ConfigTypeOK'
  BY <1>0, <1>1, <1>2, <1>3, <1>4 DEF ConfigTypeOK
<1>6. ServedWasCommitted'
  BY <1>0, <1>2 DEF ServedWasCommitted
<1>7. CASE CommitForm
  <2>1. ~crossed' => cachedMap \subseteq {edit.to}
    BY <1>7 DEF CommitForm, HeldBut
  <2>2. ~crossed' => \A p \in Processes : reader[p].at = "store" => reader[p].got = edit.to
    BY <1>7 DEF CommitForm, HeldBut
  <2>. QED
    BY <1>2, <1>5, <1>6, <2>1, <2>2 DEF ConfigInv, CacheFresh, ReadersFresh
<1>8. CASE WriteInAction
  <2>1. edit'.at = "written"
    BY <1>1, <1>8 DEF WriteInAction, Edits, NoEdit
  <2>. QED
    BY <1>5, <1>6, <2>1 DEF ConfigInv, CacheFresh, ReadersFresh
<1>. QED
  BY <1>7, <1>8

\* Every step keeps it.
LEMMA ConfigStepKeeps == ConfigInv /\ [ConfigNext]_configVars => ConfigInv'
<1>. SUFFICES ASSUME ConfigInv, [ConfigNext]_configVars PROVE ConfigInv'
  OBVIOUS
<1>1. CASE ConfigNext
  BY <1>1, ReadKeeps, EmptyKeeps, ExpiryKeeps, QuietEditKeeps, WriteKeeps DEF ConfigNext
<1>2. CASE UNCHANGED configVars
  BY <1>2 DEF configVars, ConfigInv, ConfigTypeOK, ServedWasCommitted, CacheFresh, ReadersFresh
<1>. QED
  BY <1>1, <1>2

\* get_config never serves what an edit has not committed, whatever the cache
\* refuses to store or to delete, and serves what the table holds except after
\* an edit that left another value in a map or a read.
THEOREM CacheServesCommitted == ConfigSpec => []ConfigInv
BY ConfigStart, ConfigStepKeeps, PTL DEF ConfigSpec

-----------------------------------------------------------------------------
(***************************************************************************)
(* One-time codes on their way. The providers that were asked are a set of *)
(* places on the ladder; the first place not yet asked exists because      *)
(* every set of numbers has a least one.                                   *)
(***************************************************************************)

Below == {pair \in Nat \X Nat : pair[1] < pair[2]}

\* Every set of numbers has a first.
LEMMA FirstExists == ASSUME NEW ks \in SUBSET Nat, ks # {} PROVE \E k \in ks : \A j \in ks : k <= j
<1>1. OpToRel(<, Nat) = Below
  BY Zenon DEF OpToRel, Below
<1>2. IsWellFoundedOn(Below, Nat)
  BY <1>1, NatLessThanWellFounded
<1>3. \E k \in ks : \A j \in ks : <<j, k>> \notin Below
  BY <1>2, WFMin
<1>4. \A j, k \in ks : <<j, k>> \notin Below => k <= j
  BY DEF Below
<1>. QED
  BY <1>3, <1>4

\* The first of a set of places is in it.
LEMMA ForemostIn == ASSUME NEW ks \in SUBSET Nat, ks # {} PROVE Foremost(ks) \in ks
BY FirstExists DEF Foremost

\* A task and the chain of the channel it has come to.
Rungs(s) == DOMAIN Chain[Ladder[s.rung]]
Fit(s) ==
  /\ s \in TextStates
  /\ s.hot \cup s.cold \cup s.asked \subseteq Rungs(s)
  /\ s.at \notin {"hot", "trying"} => s.hot = {} /\ s.cold = {} /\ s.asked = {}
  /\ s.tried = MaxMessageTries => s.at = "dead"
Whole(s, w, rest) ==
  ~w => /\ s.at = "hot" => /\ s.hot = {k \in Rungs(s) : Chain[Ladder[s.rung]][k] \notin rest}
                           /\ s.cold = {} /\ s.asked = {}
        /\ s.at = "trying" => s.hot \cup s.cold \cup s.asked = Rungs(s)

\* The fields of a code on its way are typed.
LEMMA TextFields ==
  ASSUME NEW s \in TextStates
  PROVE  /\ s.at \in SendingStages /\ s.rung \in DOMAIN Ladder /\ s.tried \in 0 .. MaxMessageTries
         /\ s.hot \in SUBSET Nat /\ s.cold \in SUBSET Nat /\ s.asked \in SUBSET Nat
         /\ Ladder[s.rung] \in DOMAIN Chain /\ Rungs(s) \subseteq Nat
<1>1. /\ s.at \in SendingStages /\ s.rung \in DOMAIN Ladder /\ s.tried \in 0 .. MaxMessageTries
      /\ s.hot \in SUBSET Nat /\ s.cold \in SUBSET Nat /\ s.asked \in SUBSET Nat
  BY DEF TextStates
<1>2. Ladder[s.rung] \in DOMAIN Chain
  BY <1>1, LadderChains
<1>3. Rungs(s) \subseteq Nat
  BY <1>2, LadderChains DEF Rungs
<1>. QED
  BY <1>1, <1>2, <1>3

\* A code that is queued fits.
LEMMA QueueFits == ASSUME NEW n \in 0 .. MaxMessageTries, n # MaxMessageTries PROVE Fit(InQueue(n))
<1>1. 1 \in DOMAIN Ladder
  BY LadderChains
<1>2. InQueue(n) \in TextStates
  BY <1>1 DEF InQueue, TextStates, SendingStages
<1>. QED
  BY <1>2 DEF Fit, InQueue

\* The channel or the run is over.
LEMMA RunOver ==
  ASSUME NEW s, Fit(s), s.at # "dead"
  PROVE  /\ Fit(AfterRun(s)) /\ AfterRun(s).at \in {"waiting", "dead"}
         /\ Fit(NextRung(s)) /\ NextRung(s).at \in {"waiting", "dead", "chosen"}
<1>1. s \in TextStates /\ s.tried \in 0 .. MaxMessageTries /\ s.tried # MaxMessageTries /\ s.rung \in DOMAIN Ladder
  BY TextFields DEF Fit
<1>2. s.tried + 1 \in 0 .. MaxMessageTries /\ MaxMessageTries \in Nat
  BY <1>1, MessageNats
<1>3. Fit(AfterRun(s)) /\ AfterRun(s).at \in {"waiting", "dead"}
  <2>1. CASE s.tried + 1 < MaxMessageTries
    <3>1. s.tried + 1 # MaxMessageTries /\ AfterRun(s) = InQueue(s.tried + 1)
      BY <1>2, <2>1 DEF AfterRun
    <3>. QED
      BY <1>2, <3>1, QueueFits DEF InQueue
  <2>2. CASE ~(s.tried + 1 < MaxMessageTries)
    <3>. DEFINE d == [InQueue(s.tried + 1) EXCEPT !.at = "dead"]
    <3>1. AfterRun(s) = d
      BY <2>2 DEF AfterRun
    <3>2. d = [at |-> "dead", rung |-> 1, tried |-> s.tried + 1, hot |-> {}, cold |-> {}, asked |-> {}]
      BY DEF InQueue
    <3>3. 1 \in DOMAIN Ladder
      BY LadderChains
    <3>4. d \in TextStates
      BY <1>2, <3>2, <3>3 DEF TextStates, SendingStages
    <3>. QED
      BY <3>1, <3>2, <3>4 DEF Fit
  <2>. QED
    BY <2>1, <2>2
<1>4. CASE s.rung < Len(Ladder)
  <2>. DEFINE up == s.rung + 1
              tries == s.tried
              n == [InQueue(tries) EXCEPT !.at = "chosen", !.rung = up]
  <2>1. NextRung(s) = n
    BY <1>4 DEF NextRung
  <2>3. up \in DOMAIN Ladder
    BY <1>1, <1>4, LadderChains
  <2>. HIDE DEF up
  <2>2. InQueue(tries) \in TextStates /\ InQueue(tries).hot = {} /\ InQueue(tries).cold = {} /\ InQueue(tries).asked = {}
        /\ InQueue(tries).tried = tries
    BY <1>1, QueueFits DEF Fit, InQueue
  <2>4. /\ n \in TextStates /\ n.at = "chosen" /\ n.tried = tries /\ n.hot = {} /\ n.cold = {} /\ n.asked = {}
    <3>. HIDE DEF tries
    <3>. QED
      BY <2>2, <2>3 DEF TextStates, SendingStages
  <2>5. Fit(n) /\ n.at = "chosen"
    BY <1>1, <2>4 DEF Fit
  <2>. QED
    BY <1>3, <2>1, <2>5
<1>5. CASE ~(s.rung < Len(Ladder))
  BY <1>3, <1>5 DEF NextRung
<1>. QED
  BY <1>4, <1>5

\* The next provider.
LEMMA OneAsked ==
  ASSUME NEW s, Fit(s), s.at = "trying", ~AllAsked(s)
  PROVE  /\ Fit(NextOne(s)) /\ NextOne(s).at = "trying" /\ NextOne(s).rung = s.rung
         /\ NextOne(s).hot \cup NextOne(s).cold \cup NextOne(s).asked = s.hot \cup s.cold \cup s.asked
         /\ Place(s) \in Rungs(s)
<1>. DEFINE p == Place(s)
            n == NextOne(s)
<1>1. s \in TextStates /\ s.hot \in SUBSET Nat /\ s.cold \in SUBSET Nat /\ s.asked \in SUBSET Nat
  BY TextFields DEF Fit
<1>2. p \in s.hot \/ (s.hot = {} /\ p \in s.cold)
  BY <1>1, ForemostIn DEF AllAsked, Place
<1>3. p \in Nat /\ p \in Rungs(s)
  BY <1>1, <1>2 DEF Fit
<1>. HIDE DEF p
<1>4. n = [s EXCEPT !.hot = s.hot \ {p}, !.cold = IF s.hot # {} THEN s.cold ELSE s.cold \ {p}, !.asked = s.asked \cup {p}]
  BY DEF NextOne, p
<1>5. /\ n \in TextStates /\ n.at = s.at /\ n.rung = s.rung /\ n.tried = s.tried
      /\ n.hot = s.hot \ {p} /\ n.cold = (IF s.hot # {} THEN s.cold ELSE s.cold \ {p}) /\ n.asked = s.asked \cup {p}
  <2>. DEFINE h == s.hot \ {p}
              d == IF s.hot # {} THEN s.cold ELSE s.cold \ {p}
              a == s.asked \cup {p}
  <2>1. h \in SUBSET Nat /\ d \in SUBSET Nat /\ a \in SUBSET Nat
    BY <1>1, <1>3
  <2>2. n = [s EXCEPT !.hot = h, !.cold = d, !.asked = a]
    BY <1>4
  <2>. HIDE DEF h, d, a, n
  <2>3. /\ n \in TextStates /\ n.at = s.at /\ n.rung = s.rung /\ n.tried = s.tried
        /\ n.hot = h /\ n.cold = d /\ n.asked = a
    BY <1>1, <2>1, <2>2 DEF TextStates
  <2>. QED
    BY <2>3 DEF h, d, a
<1>. HIDE DEF n
<1>6. n.hot \cup n.cold \cup n.asked = s.hot \cup s.cold \cup s.asked
  BY <1>2, <1>5
<1>7. Fit(n)
  BY <1>5, <1>6 DEF Fit, Rungs
<1>8. Place(s) \in Rungs(s)
  BY <1>3 DEF p
<1>. QED
  BY <1>5, <1>6, <1>7, <1>8 DEF n

\* The type invariant, one code at a time.
LEMMA TextsFit == MessagingTypeOK <=> /\ resting \subseteq Providers
                                      /\ sending \in [TextCodes -> TextStates]
                                      /\ \A c \in TextCodes : Fit(sending[c])
                                      /\ arrived \in [TextCodes -> Nat] /\ excuses \in [TextCodes -> Nat]
                                      /\ wavered \in [TextCodes -> BOOLEAN]
                                      /\ messageLosses \in 0 .. MaxMessageLosses
<1>1. ASSUME NEW c \in TextCodes, sending \in [TextCodes -> TextStates]
      PROVE  Fit(sending[c]) <=>
               /\ sending[c].hot \cup sending[c].cold \cup sending[c].asked \subseteq DOMAIN ChainOf(c)
               /\ sending[c].at \notin {"hot", "trying"} =>
                    sending[c].hot = {} /\ sending[c].cold = {} /\ sending[c].asked = {}
               /\ sending[c].tried = MaxMessageTries => SendingAt(c, "dead")
  <2>1. sending[c] \in TextStates
    BY <1>1
  <2>. QED
    BY <2>1 DEF Fit, Rungs, ChainOf, SendingAt
<1>. QED
  BY <1>1 DEF MessagingTypeOK

\* NobodyDropped, one code at a time.
LEMMA TextsWhole == NobodyDropped <=> \A c \in TextCodes : Whole(sending[c], wavered[c], resting)
BY DEF NobodyDropped, Whole, Rungs, SendingAt, ChainOf, Hot

\* The type invariant of the next state, one code at a time.
LEMMA TextsFitNext ==
  ASSUME resting' \subseteq Providers, sending' \in [TextCodes -> TextStates],
         \A c \in TextCodes : Fit(sending'[c]),
         arrived' \in [TextCodes -> Nat], excuses' \in [TextCodes -> Nat],
         wavered' \in [TextCodes -> BOOLEAN], messageLosses' \in 0 .. MaxMessageLosses
  PROVE  MessagingTypeOK'
<1>1. \A c \in TextCodes :
        /\ sending'[c].hot \cup sending'[c].cold \cup sending'[c].asked \subseteq DOMAIN ChainOf(c)'
        /\ sending'[c].at \notin {"hot", "trying"} =>
             sending'[c].hot = {} /\ sending'[c].cold = {} /\ sending'[c].asked = {}
        /\ sending'[c].tried = MaxMessageTries => SendingAt(c, "dead")'
  BY DEF Fit, Rungs, ChainOf, SendingAt
<1>. QED
  BY <1>1 DEF MessagingTypeOK

\* NobodyDropped of the next state, one code at a time.
LEMMA TextsWholeNext == NobodyDropped' <=> \A c \in TextCodes : Whole(sending'[c], wavered'[c], resting')
BY DEF NobodyDropped, Whole, Rungs, SendingAt, ChainOf, Hot

\* A step of one task that leaves the cooldowns alone, and the wavering of others.
LEMMA TaskSteps ==
  ASSUME MessagingTypeOK, NobodyDropped, NEW c \in TextCodes, NEW s, Advance(c, s), Fit(s),
         NEW w \in BOOLEAN, wavered' = [wavered EXCEPT ![c] = w], Whole(s, w, resting),
         resting' = resting, arrived' \in [TextCodes -> Nat], excuses' \in [TextCodes -> Nat],
         messageLosses' \in 0 .. MaxMessageLosses
  PROVE  MessagingTypeOK' /\ NobodyDropped'
<1>1. sending' = [sending EXCEPT ![c] = s] /\ s \in TextStates
  BY DEF Advance, Fit
<1>2. sending \in [TextCodes -> TextStates] /\ wavered \in [TextCodes -> BOOLEAN] /\ resting \subseteq Providers
      /\ \A o \in TextCodes : Fit(sending[o])
  BY TextsFit
<1>3. /\ sending' \in [TextCodes -> TextStates] /\ sending'[c] = s /\ \A o \in TextCodes \ {c} : sending'[o] = sending[o]
  BY <1>1, <1>2
<1>4. /\ wavered' \in [TextCodes -> BOOLEAN] /\ wavered'[c] = w /\ \A o \in TextCodes \ {c} : wavered'[o] = wavered[o]
  BY <1>2
<1>5. \A o \in TextCodes : Fit(sending'[o])
  BY <1>2, <1>3
<1>6. \A o \in TextCodes : Whole(sending'[o], wavered'[o], resting')
  BY <1>3, <1>4, TextsWhole
<1>. QED
  BY <1>2, <1>3, <1>4, <1>5, <1>6, TextsFitNext, TextsWholeNext

\* A step of one task concerns no other code.
LEMMA TaskStepsAlone ==
  ASSUME MessagingTypeOK, NobodyDropped, NEW c \in TextCodes, NEW s, Advance(c, s), Fit(s),
         Whole(s, wavered[c], resting), UNCHANGED <<wavered, resting>>,
         arrived' \in [TextCodes -> Nat], excuses' \in [TextCodes -> Nat], messageLosses' \in 0 .. MaxMessageLosses
  PROVE  MessagingTypeOK' /\ NobodyDropped'
<1>1. wavered[c] \in BOOLEAN /\ wavered' = [wavered EXCEPT ![c] = wavered[c]]
  BY TextsFit
<1>2. resting' = resting
  OBVIOUS
<1>. QED
  BY <1>1, <1>2, TaskSteps

\* A step under which one provider's cooldown begins or ends.
LEMMA CooldownMoves ==
  ASSUME MessagingTypeOK, NobodyDropped, NEW ps, Waver(ps), resting' \subseteq Providers,
         \A p : p \notin ps => (p \in resting' <=> p \in resting),
         sending' \in [TextCodes -> TextStates], \A o \in TextCodes : Fit(sending'[o]),
         \A o \in TextCodes : sending'[o] # sending[o] =>
            sending[o].at = "trying" /\ Whole(sending'[o], wavered[o], resting) /\ sending'[o].at # "hot",
         arrived' \in [TextCodes -> Nat], excuses' \in [TextCodes -> Nat], messageLosses' \in 0 .. MaxMessageLosses
  PROVE  MessagingTypeOK' /\ NobodyDropped'
<1>0. wavered \in [TextCodes -> BOOLEAN]
  BY TextsFit
<1>1. \A o \in TextCodes : wavered'[o] = (wavered[o] \/
        (sending[o].at = "hot" /\ ps \cap {Chain[Ladder[sending[o].rung]][k] : k \in Rungs(sending[o])} # {}))
  BY DEF Waver, SendingAt, InChain, ChainOf, Rungs
<1>2. wavered' \in [TextCodes -> BOOLEAN]
  <2>1. wavered' = [o \in TextCodes |-> wavered'[o]]
    BY DEF Waver
  <2>2. \A o \in TextCodes : wavered'[o] \in BOOLEAN
    BY <1>1
  <2>. QED
    BY <2>1, <2>2
<1>3. ASSUME NEW o \in TextCodes PROVE Whole(sending'[o], wavered'[o], resting')
  <2>1. CASE sending'[o] = sending[o]
    <3>1. Whole(sending[o], wavered[o], resting)
      BY TextsWhole
    <3>2. wavered[o] \in BOOLEAN /\ wavered'[o] \in BOOLEAN
      BY <1>0, <1>2
    <3>. DEFINE s == sending[o]
                w == wavered[o]
                w1 == wavered'[o]
                rest1 == resting'
    <3>3. w1 = (w \/ (s.at = "hot" /\ ps \cap {Chain[Ladder[s.rung]][k] : k \in Rungs(s)} # {}))
      BY <1>1
    <3>4. \A p : p \notin ps => (p \in rest1 <=> p \in resting)
      OBVIOUS
    <3>8. ~w1 => ~w /\ ~(s.at = "hot" /\ ps \cap {Chain[Ladder[s.rung]][k] : k \in Rungs(s)} # {})
      BY <1>1
    <3>7. w \in BOOLEAN /\ w1 \in BOOLEAN /\ Whole(s, w, resting)
      BY <3>1, <3>2
    <3>. HIDE DEF s, w, w1, rest1
    <3>5. Whole(s, w1, rest1)
      <4>1. CASE s.at = "hot" /\ ~w1
        <5>1. \A k \in Rungs(s) : Chain[Ladder[s.rung]][k] \notin ps
          BY <3>8, <4>1
        <5>2. \A k \in Rungs(s) : Chain[Ladder[s.rung]][k] \notin rest1 <=> Chain[Ladder[s.rung]][k] \notin resting
          BY <3>4, <5>1
        <5>3. ~w
          BY <3>8, <4>1
        <5>. QED
          BY <3>7, <4>1, <5>2, <5>3 DEF Whole
      <4>2. CASE s.at # "hot"
        <5>1. w1 = w
          BY <3>3, <3>7, <4>2
        <5>. QED
          BY <3>7, <4>2, <5>1 DEF Whole
      <4>3. CASE w1
        BY <4>3 DEF Whole
      <4>. QED
        BY <4>1, <4>2, <4>3
    <3>6. Whole(sending[o], wavered'[o], resting')
      BY <3>5 DEF s, w1, rest1
    <3>. QED
      BY <2>1, <3>6
  <2>2. CASE sending'[o] # sending[o]
    <3>1. wavered'[o] = wavered[o]
      BY <1>0, <1>1, <2>2
    <3>. QED
      BY <2>2, <3>1 DEF Whole
  <2>. QED
    BY <2>1, <2>2
<1>. QED
  BY <1>2, <1>3, TextsFitNext, TextsWholeNext

Once(s, a, e) == a <= (IF s.at = "sent" THEN 1 ELSE 0) + e

\* ArrivesOnce, when one code moves.
LEMMA OnceEach ==
  ASSUME MessagingTypeOK, ArrivesOnce, NEW c \in TextCodes, NEW s, Advance(c, s), NEW a \in Nat, NEW e \in Nat,
         arrived' = [arrived EXCEPT ![c] = a], excuses' = [excuses EXCEPT ![c] = e], Once(s, a, e)
  PROVE  ArrivesOnce' /\ arrived' \in [TextCodes -> Nat] /\ excuses' \in [TextCodes -> Nat]
<1>1. arrived \in [TextCodes -> Nat] /\ excuses \in [TextCodes -> Nat] /\ sending \in [TextCodes -> TextStates]
  BY DEF MessagingTypeOK
<1>2. /\ arrived' \in [TextCodes -> Nat] /\ excuses' \in [TextCodes -> Nat]
      /\ sending'[c] = s /\ arrived'[c] = a /\ excuses'[c] = e
      /\ \A o \in TextCodes \ {c} : sending'[o] = sending[o] /\ arrived'[o] = arrived[o] /\ excuses'[o] = excuses[o]
  BY <1>1 DEF Advance
<1>3. \A o \in TextCodes : Once(sending[o], arrived[o], excuses[o])
  BY DEF ArrivesOnce, Once, SendingAt
<1>4. \A o \in TextCodes : Once(sending'[o], arrived'[o], excuses'[o])
  BY <1>2, <1>3
<1>. QED
  BY <1>2, <1>4 DEF ArrivesOnce, Once, SendingAt

\* Steps that deliver nothing.
LEMMA OnceStill ==
  ASSUME MessagingTypeOK, ArrivesOnce, NEW c \in TextCodes, NEW s, Advance(c, s), UNCHANGED <<arrived, excuses>>,
         ~SendingAt(c, "sent")
  PROVE  ArrivesOnce' /\ arrived' \in [TextCodes -> Nat] /\ excuses' \in [TextCodes -> Nat]
<1>1. arrived \in [TextCodes -> Nat] /\ excuses \in [TextCodes -> Nat]
  BY DEF MessagingTypeOK
<1>2. arrived[c] <= 0 + excuses[c]
  BY DEF ArrivesOnce
<1>3. Once(s, arrived[c], excuses[c])
  BY <1>1, <1>2 DEF Once
<1>4. arrived' = [arrived EXCEPT ![c] = arrived[c]] /\ excuses' = [excuses EXCEPT ![c] = excuses[c]]
  BY <1>1
<1>5. arrived[c] \in Nat /\ excuses[c] \in Nat
  BY <1>1
<1>. QED
  BY <1>3, <1>4, <1>5, OnceEach

\* The beginning fits.
LEMMA MessagingStart == MessagingInit => MessagingInv
<1>. SUFFICES ASSUME MessagingInit PROVE MessagingInv
  OBVIOUS
<1>. USE DEF MessagingInit
<1>1. Fit(InQueue(0)) /\ InQueue(0).at = "waiting"
  BY MessageNats, QueueFits DEF InQueue
<1>2. \A c \in TextCodes : Fit(sending[c]) /\ sending[c].at = "waiting"
  BY <1>1
<1>3. sending \in [TextCodes -> TextStates]
  BY <1>1 DEF Fit
<1>4. messageLosses \in 0 .. MaxMessageLosses
  BY MessageNats
<1>5. MessagingTypeOK
  BY <1>2, <1>3, <1>4, TextsFit
<1>6. ArrivesOnce
  BY <1>2 DEF ArrivesOnce, SendingAt
<1>7. NobodyDropped
  BY <1>2, TextsWhole DEF Whole
<1>. QED
  BY <1>5, <1>6, <1>7 DEF MessagingInv

\* A place on the ladder names a provider.
LEMMA ProvidersChained ==
  ASSUME NEW s \in TextStates, NEW k \in Rungs(s) PROVE Chain[Ladder[s.rung]][k] \in Providers
<1>1. Ladder[s.rung] \in DOMAIN Chain
  BY TextFields
<1>. QED
  BY <1>1 DEF Providers, Rungs

\* Every step keeps the invariant.
LEMMA MessagingStep == MessagingInv /\ [MessagingNext]_messageVars => MessagingInv'
<1>. SUFFICES ASSUME MessagingTypeOK, ArrivesOnce, NobodyDropped, [MessagingNext]_messageVars
              PROVE  MessagingTypeOK' /\ ArrivesOnce' /\ NobodyDropped'
  BY DEF MessagingInv
<1>. DEFINE Goal == MessagingTypeOK' /\ ArrivesOnce' /\ NobodyDropped'
<1>0. /\ resting \subseteq Providers /\ sending \in [TextCodes -> TextStates]
      /\ arrived \in [TextCodes -> Nat] /\ excuses \in [TextCodes -> Nat]
      /\ wavered \in [TextCodes -> BOOLEAN] /\ messageLosses \in 0 .. MaxMessageLosses
      /\ \A c \in TextCodes : Fit(sending[c])
  BY TextsFit
<1>. DEFINE Quietly == UNCHANGED <<resting, wavered, messageLosses>>
\* A step of a task that is neither sent nor moves a cooldown.
<1>1. ASSUME NEW c \in TextCodes, NEW s, Advance(c, s), Fit(s), s.at \notin {"hot", "trying"}, ~SendingAt(c, "sent"),
             UNCHANGED <<resting, arrived, excuses, wavered, messageLosses>>
      PROVE  Goal
  <2>1. ArrivesOnce' /\ arrived' \in [TextCodes -> Nat] /\ excuses' \in [TextCodes -> Nat]
    BY <1>1, OnceStill
  <2>2. Whole(s, wavered[c], resting)
    BY <1>1 DEF Whole
  <2>3. messageLosses' \in 0 .. MaxMessageLosses /\ UNCHANGED <<wavered, resting>>
    BY <1>0, <1>1
  <2>. QED
    BY <1>1, <2>1, <2>2, <2>3, TaskStepsAlone
<1>2. ASSUME NEW c \in TextCodes, TakeText(c) PROVE Goal
  <2>. DEFINE s == [sending[c] EXCEPT !.at = "chosen"]
  <2>1. sending[c] \in TextStates /\ sending[c].at = "waiting"
    BY <1>0, <1>2 DEF TakeText, SendingAt
  <2>2. /\ s \in TextStates /\ s.at = "chosen" /\ s.rung = sending[c].rung /\ s.tried = sending[c].tried
        /\ s.hot = sending[c].hot /\ s.cold = sending[c].cold /\ s.asked = sending[c].asked
    BY <2>1 DEF TextStates, SendingStages
  <2>3. Advance(c, s)
    BY <1>2 DEF TakeText
  <2>. HIDE DEF s
  <2>4. Fit(s)
    BY <1>0, <2>1, <2>2 DEF Fit, Rungs
  <2>. QED
    BY <1>1, <1>2, <2>1, <2>2, <2>3, <2>4 DEF TakeText, SendingAt
<1>3. ASSUME NEW c \in TextCodes, ReadHot(c) PROVE Goal
  <2>. DEFINE ks == Hot(ChainOf(c))
              s == [sending[c] EXCEPT !.at = "hot", !.hot = ks]
  <2>1. sending[c] \in TextStates /\ sending[c].at = "chosen"
    BY <1>0, <1>3 DEF ReadHot, SendingAt
  <2>2. ks = {k \in Rungs(sending[c]) : Chain[Ladder[sending[c].rung]][k] \notin resting} /\ ks \in SUBSET Nat
    BY <2>1, TextFields DEF Hot, ChainOf, Rungs
  <2>3. Advance(c, s)
    BY <1>3 DEF ReadHot
  <2>. HIDE DEF ks
  <2>4. /\ s \in TextStates /\ s.at = "hot" /\ s.rung = sending[c].rung /\ s.tried = sending[c].tried
        /\ s.hot = ks /\ s.cold = sending[c].cold /\ s.asked = sending[c].asked
    BY <2>1, <2>2 DEF TextStates, SendingStages
  <2>. HIDE DEF s
  <2>5. Fit(s) /\ Whole(s, FALSE, resting)
    BY <1>0, <2>1, <2>2, <2>4 DEF Fit, Rungs, Whole
  <2>6. ArrivesOnce' /\ arrived' \in [TextCodes -> Nat] /\ excuses' \in [TextCodes -> Nat]
    BY <1>3, <2>1, <2>3, OnceStill DEF ReadHot, SendingAt
  <2>7. messageLosses' \in 0 .. MaxMessageLosses /\ resting' = resting /\ wavered' = [wavered EXCEPT ![c] = FALSE]
    BY <1>0, <1>3 DEF ReadHot
  <2>. QED
    BY <2>3, <2>5, <2>6, <2>7, TaskSteps
<1>4. ASSUME NEW c \in TextCodes, UseOnly(c) \/ ReadCold(c) PROVE Goal
  <2>. DEFINE all == DOMAIN ChainOf(c)
              rests == Cold(ChainOf(c))
              s == IF UseOnly(c) THEN [sending[c] EXCEPT !.at = "trying", !.hot = all]
                   ELSE [sending[c] EXCEPT !.at = "trying", !.cold = rests]
  <2>1. sending[c] \in TextStates /\ sending[c].at \in {"chosen", "hot"}
    BY <1>0, <1>4 DEF UseOnly, ReadCold, SendingAt
  <2>2. /\ all = Rungs(sending[c]) /\ all \in SUBSET Nat /\ rests \in SUBSET Nat
        /\ rests = {k \in Rungs(sending[c]) : Chain[Ladder[sending[c].rung]][k] \in resting}
    BY <2>1, TextFields DEF Cold, ChainOf, Rungs
  <2>3. Advance(c, s) /\ (UseOnly(c) => sending[c].at = "chosen") /\ (~UseOnly(c) => sending[c].at = "hot")
    BY <1>4 DEF UseOnly, ReadCold, SendingAt
  <2>. HIDE DEF all, rests
  <2>4. /\ s \in TextStates /\ s.at = "trying" /\ s.rung = sending[c].rung /\ s.tried = sending[c].tried
        /\ s.hot = (IF UseOnly(c) THEN all ELSE sending[c].hot)
        /\ s.cold = (IF UseOnly(c) THEN sending[c].cold ELSE rests) /\ s.asked = sending[c].asked
    BY <2>1, <2>2 DEF TextStates, SendingStages
  <2>. HIDE DEF s
  <2>5. Fit(s)
    BY <1>0, <2>1, <2>2, <2>4 DEF Fit, Rungs
  <2>6. Whole(s, wavered[c], resting)
    <3>1. CASE UseOnly(c)
      <4>1. s.hot = Rungs(s) /\ s.cold \subseteq Rungs(s) /\ s.asked \subseteq Rungs(s)
        BY <2>2, <2>4, <2>5, <3>1 DEF Fit, Rungs
      <4>. QED
        BY <2>4, <4>1 DEF Whole
    <3>2. CASE ~UseOnly(c) /\ ~wavered[c]
      <4>1. sending[c].hot = {k \in Rungs(sending[c]) : Chain[Ladder[sending[c].rung]][k] \notin resting}
            /\ sending[c].asked = {}
        BY <2>3, <3>2, TextsWhole DEF Whole
      <4>2. s.hot \cup s.cold \cup s.asked = Rungs(s)
        BY <2>2, <2>4, <3>2, <4>1 DEF Rungs
      <4>. QED
        BY <2>4, <4>2 DEF Whole
    <3>3. CASE wavered[c]
      BY <3>3 DEF Whole
    <3>. QED
      BY <3>1, <3>2, <3>3
  <2>7. UNCHANGED <<resting, arrived, excuses, wavered, messageLosses>>
    BY <1>4 DEF UseOnly, ReadCold
  <2>8. ArrivesOnce' /\ arrived' \in [TextCodes -> Nat] /\ excuses' \in [TextCodes -> Nat]
    BY <2>1, <2>3, <2>7, OnceStill DEF SendingAt
  <2>9. messageLosses' \in 0 .. MaxMessageLosses /\ UNCHANGED <<wavered, resting>>
    BY <1>0, <2>7
  <2>. QED
    BY <2>3, <2>5, <2>6, <2>8, <2>9, TaskStepsAlone
<1>5. ASSUME NEW c \in TextCodes, ChannelFails(c) PROVE Goal
  <2>1. Fit(sending[c]) /\ sending[c].at = "trying"
    BY <1>0, <1>5 DEF ChannelFails, SendingAt
  <2>2. Fit(NextRung(sending[c])) /\ NextRung(sending[c]).at \in {"waiting", "dead", "chosen"}
    BY <2>1, RunOver
  <2>3. Advance(c, NextRung(sending[c])) /\ UNCHANGED <<resting, arrived, excuses, wavered, messageLosses>>
    BY <1>5 DEF ChannelFails
  <2>. QED
    BY <1>1, <2>1, <2>2, <2>3 DEF SendingAt
<1>6. ASSUME NEW c \in TextCodes, Delivers(c) PROVE Goal
  <2>. DEFINE tries == sending[c].tried
              s == [InQueue(tries) EXCEPT !.at = "sent"]
  <2>1. Fit(sending[c]) /\ sending[c].at = "trying" /\ sending[c] \in TextStates
    BY <1>0, <1>6 DEF Delivers, Trying, SendingAt
  <2>2. tries \in 0 .. MaxMessageTries /\ tries # MaxMessageTries
    BY <2>1, TextFields DEF Fit
  <2>3. Advance(c, s)
    BY <1>6 DEF Delivers
  <2>. HIDE DEF tries
  <2>4. Fit(InQueue(tries)) /\ InQueue(tries).hot = {} /\ InQueue(tries).cold = {} /\ InQueue(tries).asked = {}
        /\ InQueue(tries).tried = tries
    BY <2>2, QueueFits DEF InQueue
  <2>5. /\ s \in TextStates /\ s.at = "sent" /\ s.tried = tries /\ s.hot = {} /\ s.cold = {} /\ s.asked = {}
    BY <2>4 DEF Fit, TextStates, SendingStages
  <2>. HIDE DEF s
  <2>6. Fit(s) /\ Whole(s, wavered[c], resting)
    BY <2>2, <2>5 DEF Fit, Whole
  <2>7. arrived[c] \in Nat /\ excuses[c] \in Nat /\ arrived[c] <= 0 + excuses[c]
    BY <1>0, <2>1 DEF ArrivesOnce, SendingAt
  <2>8. Once(s, arrived[c] + 1, excuses[c]) /\ arrived[c] + 1 \in Nat
    BY <2>5, <2>7 DEF Once
  <2>9. arrived' = [arrived EXCEPT ![c] = arrived[c] + 1] /\ excuses' = [excuses EXCEPT ![c] = excuses[c]]
    BY <1>0, <1>6 DEF Delivers
  <2>10. ArrivesOnce' /\ arrived' \in [TextCodes -> Nat] /\ excuses' \in [TextCodes -> Nat]
    BY <2>3, <2>7, <2>8, <2>9, OnceEach
  <2>11. messageLosses' \in 0 .. MaxMessageLosses /\ UNCHANGED <<wavered, resting>>
    BY <1>0, <1>6 DEF Delivers
  <2>. QED
    BY <2>3, <2>6, <2>10, <2>11, TaskStepsAlone
\* A failure that may begin a cooldown.
<1>7. ASSUME NEW c \in TextCodes, NEW s, Advance(c, s), Fit(s), Trying(c), Cools(c), s.at # "hot",
             Whole(s, wavered[c], resting), arrived' \in [TextCodes -> Nat], excuses' \in [TextCodes -> Nat],
             UNCHANGED messageLosses
      PROVE  MessagingTypeOK' /\ NobodyDropped'
  <2>1. Fit(sending[c]) /\ sending[c].at = "trying" /\ ~AllAsked(sending[c]) /\ sending[c] \in TextStates
    BY <1>0, <1>7 DEF Trying, SendingAt
  <2>2. Used(c) \in Providers
    BY <2>1, OneAsked, ProvidersChained DEF Used, ChainOf
  <2>3. sending' \in [TextCodes -> TextStates] /\ sending'[c] = s /\ \A o \in TextCodes \ {c} : sending'[o] = sending[o]
    BY <1>0, <1>7 DEF Advance, Fit
  <2>4. \A o \in TextCodes : Fit(sending'[o])
    BY <1>0, <1>7, <2>3
  <2>5. messageLosses' \in 0 .. MaxMessageLosses
    BY <1>0, <1>7
  <2>6. CASE UNCHANGED <<resting, wavered>>
    BY <1>7, <2>5, <2>6, TaskStepsAlone
  <2>7. CASE resting' = resting \cup {Used(c)} /\ Waver({Used(c)} \ resting)
    <3>. DEFINE ps == {Used(c)} \ resting
    <3>1. Waver(ps) /\ resting' \subseteq Providers /\ \A p : p \notin ps => (p \in resting' <=> p \in resting)
      BY <1>0, <2>2, <2>7
    <3>. HIDE DEF ps
    <3>2. \A o \in TextCodes : sending'[o] # sending[o] =>
            sending[o].at = "trying" /\ Whole(sending'[o], wavered[o], resting) /\ sending'[o].at # "hot"
      BY <1>7, <2>1, <2>3
    <3>. QED
      BY <1>7, <2>3, <2>4, <2>5, <3>1, <3>2, CooldownMoves
  <2>. QED
    BY <1>7, <2>6, <2>7 DEF Cools
<1>8. ASSUME NEW c \in TextCodes, FailsOver(c) PROVE Goal
  <2>. DEFINE s == NextOne(sending[c])
  <2>1. Fit(sending[c]) /\ sending[c].at = "trying" /\ ~AllAsked(sending[c])
    BY <1>0, <1>8 DEF FailsOver, Trying, SendingAt
  <2>2. /\ Fit(s) /\ s.at = "trying" /\ s.rung = sending[c].rung
        /\ s.hot \cup s.cold \cup s.asked = sending[c].hot \cup sending[c].cold \cup sending[c].asked
    BY <2>1, OneAsked
  <2>3. Advance(c, s) /\ Trying(c) /\ Cools(c) /\ UNCHANGED messageLosses
    BY <1>8 DEF FailsOver
  <2>. HIDE DEF s
  <2>4. Whole(s, wavered[c], resting)
    BY <2>1, <2>2, TextsWhole DEF Whole, Rungs
  <2>5. arrived[c] \in Nat /\ excuses[c] \in Nat /\ arrived[c] <= 0 + excuses[c]
    BY <1>0, <2>1 DEF ArrivesOnce, SendingAt
  <2>6. ArrivesOnce' /\ arrived' \in [TextCodes -> Nat] /\ excuses' \in [TextCodes -> Nat]
    <3>1. CASE UNCHANGED <<arrived, excuses>>
      BY <2>1, <2>3, <3>1, OnceStill DEF SendingAt
    <3>2. CASE arrived' = [arrived EXCEPT ![c] = @ + 1] /\ excuses' = [excuses EXCEPT ![c] = @ + 1]
      <4>1. arrived' = [arrived EXCEPT ![c] = arrived[c] + 1] /\ excuses' = [excuses EXCEPT ![c] = excuses[c] + 1]
        BY <3>2
      <4>2. Once(s, arrived[c] + 1, excuses[c] + 1) /\ arrived[c] + 1 \in Nat /\ excuses[c] + 1 \in Nat
        BY <2>5 DEF Once
      <4>. QED
        BY <2>3, <4>1, <4>2, OnceEach
    <3>. QED
      BY <1>8, <3>1, <3>2 DEF FailsOver
  <2>. QED
    BY <1>7, <2>2, <2>3, <2>4, <2>6
<1>9. ASSUME NEW c \in TextCodes, FailsForGood(c) PROVE Goal
  <2>. DEFINE s == NextRung(sending[c])
  <2>1. Fit(sending[c]) /\ sending[c].at = "trying"
    BY <1>0, <1>9 DEF FailsForGood, Trying, SendingAt
  <2>2. Fit(s) /\ s.at \in {"waiting", "dead", "chosen"}
    BY <2>1, RunOver
  <2>3. Advance(c, s) /\ Trying(c) /\ Cools(c) /\ UNCHANGED <<arrived, excuses, messageLosses>>
    BY <1>9 DEF FailsForGood
  <2>. HIDE DEF s
  <2>4. Whole(s, wavered[c], resting)
    BY <2>2 DEF Whole
  <2>5. ArrivesOnce' /\ arrived' \in [TextCodes -> Nat] /\ excuses' \in [TextCodes -> Nat]
    BY <2>1, <2>3, OnceStill DEF SendingAt
  <2>. QED
    BY <1>7, <2>2, <2>3, <2>4, <2>5
<1>10. ASSUME NEW c \in TextCodes, Misbehaves(c) PROVE Goal
  <2>1. Fit(sending[c]) /\ sending[c].at = "trying" /\ ~AllAsked(sending[c])
    BY <1>0, <1>10 DEF Misbehaves, Trying, SendingAt
  <2>2. UNCHANGED <<resting, arrived, excuses, wavered, messageLosses>>
    BY <1>10 DEF Misbehaves
  <2>3. CASE Chained(c)
    <3>. DEFINE s == NextOne(sending[c])
    <3>1. /\ Fit(s) /\ s.at = "trying" /\ s.rung = sending[c].rung
          /\ s.hot \cup s.cold \cup s.asked = sending[c].hot \cup sending[c].cold \cup sending[c].asked
      BY <2>1, OneAsked
    <3>2. Advance(c, s)
      BY <1>10, <2>3 DEF Misbehaves
    <3>. HIDE DEF s
    <3>3. Whole(s, wavered[c], resting)
      BY <2>1, <3>1, TextsWhole DEF Whole, Rungs
    <3>4. ArrivesOnce' /\ arrived' \in [TextCodes -> Nat] /\ excuses' \in [TextCodes -> Nat]
      BY <2>1, <2>2, <3>2, OnceStill DEF SendingAt
    <3>5. messageLosses' \in 0 .. MaxMessageLosses /\ UNCHANGED <<wavered, resting>>
      BY <1>0, <2>2
    <3>. QED
      BY <3>1, <3>2, <3>3, <3>4, <3>5, TaskStepsAlone
  <2>4. CASE ~Chained(c)
    <3>1. Fit(AfterRun(sending[c])) /\ AfterRun(sending[c]).at \in {"waiting", "dead"}
      BY <2>1, RunOver
    <3>2. Advance(c, AfterRun(sending[c]))
      BY <1>10, <2>4 DEF Misbehaves
    <3>. QED
      BY <1>1, <2>1, <2>2, <3>1, <3>2 DEF SendingAt
  <2>. QED
    BY <2>3, <2>4
<1>11. ASSUME NEW c \in TextCodes, SenderLost(c) PROVE Goal
  <2>. DEFINE s == InQueue(sending[c].tried)
  <2>1. Fit(sending[c]) /\ sending[c].at \in {"trying", "sent"} /\ sending[c] \in TextStates
    BY <1>0, <1>11 DEF SenderLost
  <2>2. sending[c].tried \in 0 .. MaxMessageTries /\ sending[c].tried # MaxMessageTries
    BY <2>1, TextFields DEF Fit
  <2>3. Fit(s) /\ s.at = "waiting"
    BY <2>2, QueueFits DEF InQueue
  <2>4. Advance(c, s) /\ messageLosses > 0 /\ messageLosses' = messageLosses - 1 /\ UNCHANGED <<resting, arrived, wavered>>
    BY <1>11 DEF SenderLost
  <2>. HIDE DEF s
  <2>5. Whole(s, wavered[c], resting)
    BY <2>3 DEF Whole
  <2>6. arrived[c] \in Nat /\ excuses[c] \in Nat /\ arrived[c] <= 1 + excuses[c]
    BY <1>0, <2>1 DEF ArrivesOnce, SendingAt
  <2>7. Once(s, arrived[c], excuses[c] + 1) /\ excuses[c] + 1 \in Nat
    BY <2>3, <2>6 DEF Once
  <2>8. arrived' = [arrived EXCEPT ![c] = arrived[c]] /\ excuses' = [excuses EXCEPT ![c] = excuses[c] + 1]
    BY <1>0, <1>11 DEF SenderLost
  <2>9. ArrivesOnce' /\ arrived' \in [TextCodes -> Nat] /\ excuses' \in [TextCodes -> Nat]
    BY <2>4, <2>6, <2>7, <2>8, OnceEach
  <2>10. messageLosses' \in 0 .. MaxMessageLosses
    BY <1>0, <2>4, MessageNats
  <2>. QED
    BY <2>3, <2>4, <2>5, <2>9, <2>10, TaskStepsAlone
<1>12. ASSUME NEW p \in Providers, RestEnds(p) PROVE Goal
  <2>1. ArrivesOnce'
    BY <1>12 DEF RestEnds, ArrivesOnce, SendingAt
  <2>2. /\ Waver({p}) /\ resting' = resting \ {p} /\ UNCHANGED <<sending, arrived, excuses, messageLosses>>
    BY <1>12 DEF RestEnds
  <2>3. resting' \subseteq Providers /\ \A q : q \notin {p} => (q \in resting' <=> q \in resting)
    BY <1>0, <2>2
  <2>4. /\ sending' \in [TextCodes -> TextStates] /\ \A o \in TextCodes : Fit(sending'[o])
        /\ \A o \in TextCodes : sending'[o] # sending[o] =>
            sending[o].at = "trying" /\ Whole(sending'[o], wavered[o], resting) /\ sending'[o].at # "hot"
        /\ arrived' \in [TextCodes -> Nat] /\ excuses' \in [TextCodes -> Nat] /\ messageLosses' \in 0 .. MaxMessageLosses
    BY <1>0, <2>2
  <2>. QED
    BY <2>1, <2>2, <2>3, <2>4, CooldownMoves
<1>13. CASE UNCHANGED messageVars
  <2>1. UNCHANGED <<resting, sending, arrived, excuses, wavered, messageLosses>>
    BY <1>13 DEF messageVars
  <2>2. ArrivesOnce'
    BY <2>1 DEF ArrivesOnce, SendingAt
  <2>3. NobodyDropped'
    BY <2>1, TextsWhole, TextsWholeNext
  <2>4. MessagingTypeOK'
    BY <1>0, <2>1, TextsFitNext
  <2>. QED
    BY <2>2, <2>3, <2>4
<1>. QED
  BY <1>2, <1>3, <1>4, <1>5, <1>6, <1>8, <1>9, <1>10, <1>11, <1>12, <1>13 DEF MessagingNext

\* The delivery of one-time codes (src/clients/messaging, src/accounts/tasks.py):
\* each arrives once but for the excuses the history counts, and a cooldown
\* puts a provider last without ever dropping it.
THEOREM CodesArrive == MessagingSpec => []MessagingInv
<1>. QED
  BY MessagingStart, MessagingStep, PTL DEF MessagingSpec

-----------------------------------------------------------------------------
(***************************************************************************)
(* Notifications. What is claimed of one key is a predicate on values,     *)
(* KeyFine; so are the claims about the batch (Honest, Held) and the order *)
(* of a key's life (Ordered). Each action is shown to keep them.           *)
(***************************************************************************)

BusyStages == {"checked", "written", "queued", "committed"}
BusyCalls  == [at : BusyStages, try : 1 .. MaxTries, actor : NoticeActors,
               inside : BOOLEAN, quiet : BOOLEAN, seen : BatchRows \cup {NoBatch}]
RestCalls  == [at : {"new", "done", "failed"}, try : 1 .. MaxTries]
AtRest     == [at : {"none", "queued", "over"}]
OnTheWay   == [at : {"ws", "push"}, stage : {"send", "record"}, flags : SUBSET Channels, on : SUBSET Channels]

\* What a creation holds, by its stage.
LEMMA CreationShape ==
  ASSUME NEW c \in Creations
  PROVE  /\ c.try \in 1 .. MaxTries /\ c.at \in {"new", "done", "failed"} \cup BusyStages
         /\ c.at \in BusyStages => c \in BusyCalls
<1>1. CASE c \in RestCalls
  BY <1>1 DEF RestCalls, BusyStages
<1>2. CASE c \in BusyCalls
  BY <1>2 DEF BusyCalls
<1>. QED
  BY <1>1, <1>2 DEF Creations, RestCalls, BusyCalls, BusyStages

\* A creation under way is typed, and stays so at its next stage.
LEMMA BusyFields ==
  ASSUME NEW c \in BusyCalls
  PROVE  /\ c.at \in BusyStages /\ c.try \in 1 .. MaxTries /\ c.actor \in NoticeActors
         /\ c.inside \in BOOLEAN /\ c.quiet \in BOOLEAN /\ c.seen \in BatchRows \cup {NoBatch}
         /\ c \in Creations
         /\ \A s \in BusyStages : LET d == [c EXCEPT !.at = s] IN
              /\ d \in BusyCalls /\ d \in Creations /\ d.at = s /\ d.try = c.try /\ d.actor = c.actor
              /\ d.inside = c.inside /\ d.quiet = c.quiet /\ d.seen = c.seen
<1>1. \A d \in BusyCalls : d \in Creations
  BY DEF BusyCalls, Creations, BusyStages
<1>2. /\ c.at \in BusyStages /\ c.try \in 1 .. MaxTries /\ c.actor \in NoticeActors
      /\ c.inside \in BOOLEAN /\ c.quiet \in BOOLEAN /\ c.seen \in BatchRows \cup {NoBatch}
  BY DEF BusyCalls
<1>3. ASSUME NEW s \in BusyStages, NEW d, d = [c EXCEPT !.at = s]
      PROVE  /\ d \in BusyCalls /\ d.at = s /\ d.try = c.try /\ d.actor = c.actor
             /\ d.inside = c.inside /\ d.quiet = c.quiet /\ d.seen = c.seen
  BY <1>3 DEF BusyCalls
<1>. QED
  BY <1>1, <1>2, <1>3

\* What a dispatch holds, by its stage.
LEMMA DeliveryShape ==
  ASSUME NEW d \in Deliveries
  PROVE  /\ d.at \in {"none", "queued", "over"} \cup Channels
         /\ d.at \in Channels => d \in OnTheWay
<1>1. CASE d \in AtRest
  BY <1>1 DEF AtRest, Channels
<1>2. CASE d \in OnTheWay
  BY <1>2 DEF OnTheWay, Channels
<1>. QED
  BY <1>1, <1>2 DEF Deliveries, AtRest, OnTheWay

\* The fields of a dispatch on its way are typed.
LEMMA WayFields ==
  ASSUME NEW d \in OnTheWay
  PROVE  /\ d.at \in Channels /\ d.stage \in {"send", "record"} /\ d.flags \in SUBSET Channels /\ d.on \in SUBSET Channels
         /\ d \in Deliveries
BY DEF OnTheWay, Channels, Deliveries

\* Dispatches at rest are typed.
LEMMA RestDeliveries ==
  /\ NotQueued \in Deliveries /\ NotQueued.at = "none"
  /\ [at |-> "queued"] \in Deliveries /\ [at |-> "over"] \in Deliveries
BY DEF NotQueued, Deliveries

\* A creation moves on, alone.
LEMMA GoesNext ==
  ASSUME creating \in [Happenings -> Creations], NEW h \in Happenings, NEW c \in Creations, Goes(h, c)
  PROVE  /\ creating' \in [Happenings -> Creations] /\ creating'[h] = c
         /\ \A o \in Happenings \ {h} : creating'[o] = creating[o]
BY DEF Goes

\* A dispatch moves on, alone.
LEMMA AtNext ==
  ASSUME delivery \in [Keys -> Deliveries], NEW n \in Keys, NEW d \in Deliveries, delivery' = [delivery EXCEPT ![n] = d]
  PROVE  /\ delivery' \in [Keys -> Deliveries] /\ delivery'[n] = d
         /\ \A o \in Keys \ {n} : delivery'[o] = delivery[o]
OBVIOUS

\* Rows and batches are told from none.
LEMMA NothingApart ==
  /\ NoNotice \notin NoticeRows /\ NoBatch \notin BatchRows
<1>1. \A r \in NoticeRows : "actor" \in DOMAIN r
  BY DEF NoticeRows
<1>2. \A b \in BatchRows : "latest" \in DOMAIN b
  BY DEF BatchRows
<1>3. "actor" \notin DOMAIN NoNotice
  BY DEF NoNotice
<1>4. "latest" \notin DOMAIN NoBatch
  BY DEF NoBatch
<1>. QED
  BY <1>1, <1>2, <1>3, <1>4

-----------------------------------------------------------------------------
(* One key: its row, its dispatch and what went out *)

KeyFine(r, d, p, q) ==
  /\ r = NoNotice => d.at \notin Channels /\ \A ch \in Channels : p[ch] = 0
  /\ r # NoNotice => /\ \A ch \in r.flags : p[ch] > 0 \/ r.muted
                     /\ r.muted => r.flags = Channels /\ \A ch \in Channels : p[ch] = 0
  /\ d.at \in Channels => d.flags \subseteq r.flags /\ (r.muted => d.flags = Channels)
  /\ \A ch \in Channels :
       /\ p[ch] <= 1 + q[ch]
       /\ d.at = ch /\ d.stage = "record" => p[ch] > 0
       /\ ((d.at = ch /\ d.stage = "send") \/ (d.at = "ws" /\ ch = "push")) /\ ch \notin d.flags => p[ch] <= q[ch]
       /\ r # NoNotice /\ r.state # "erased" /\ ch \notin r.flags /\ ~(d.at = ch /\ d.stage = "record") => p[ch] <= q[ch]

KeysFine == \A n \in Keys : KeyFine(notice[n], delivery[n], pushed[n], repeats[n])

\* Four of the claims are about one key at a time.
LEMMA KeysAreFine == SentOnce /\ AnnouncedIsCommitted /\ FlagsHonest /\ DispatchInStep => KeysFine
<1>. SUFFICES ASSUME SentOnce, AnnouncedIsCommitted, FlagsHonest, DispatchInStep, NEW n \in Keys
              PROVE  KeyFine(notice[n], delivery[n], pushed[n], repeats[n])
  BY DEF KeysFine
<1>1. notice[n] = NoNotice => delivery[n].at \notin Channels /\ \A ch \in Channels : pushed[n][ch] = 0
  BY DEF AnnouncedIsCommitted
<1>2. notice[n] # NoNotice => /\ \A ch \in notice[n].flags : pushed[n][ch] > 0 \/ notice[n].muted
                              /\ notice[n].muted => notice[n].flags = Channels /\ \A ch \in Channels : pushed[n][ch] = 0
  BY DEF FlagsHonest, SentOnce
<1>3. delivery[n].at \in Channels => /\ delivery[n].flags \subseteq notice[n].flags
                                     /\ notice[n].muted => delivery[n].flags = Channels
  BY DEF DispatchInStep
<1>4. ASSUME NEW ch \in Channels
      PROVE  LET d == delivery[n]  r == notice[n]  p == pushed[n]  q == repeats[n] IN
       /\ p[ch] <= 1 + q[ch]
       /\ d.at = ch /\ d.stage = "record" => p[ch] > 0
       /\ ((d.at = ch /\ d.stage = "send") \/ (d.at = "ws" /\ ch = "push")) /\ ch \notin d.flags => p[ch] <= q[ch]
       /\ r # NoNotice /\ r.state # "erased" /\ ch \notin r.flags /\ ~(d.at = ch /\ d.stage = "record") => p[ch] <= q[ch]
  <2>1. pushed[n][ch] <= 1 + repeats[n][ch]
    BY DEF SentOnce
  <2>2. /\ Recording(n, ch) => pushed[n][ch] > 0
        /\ ToCome(n, ch) /\ ch \notin delivery[n].flags => pushed[n][ch] <= repeats[n][ch]
        /\ WrittenFor(n) /\ ch \notin notice[n].flags /\ ~Recording(n, ch) => pushed[n][ch] <= repeats[n][ch]
    BY DEF DispatchInStep
  <2>. QED
    BY <2>1, <2>2 DEF Recording, ToCome, WrittenFor
<1>. QED
  BY <1>1, <1>2, <1>3, <1>4 DEF KeyFine

\* The same of the next state.
LEMMA FineKeysNext ==
  ASSUME \A n \in Keys : KeyFine(notice'[n], delivery'[n], pushed'[n], repeats'[n])
  PROVE  SentOnce' /\ AnnouncedIsCommitted' /\ FlagsHonest' /\ DispatchInStep'
<1>1. SentOnce'
  BY DEF KeyFine, SentOnce
<1>2. AnnouncedIsCommitted'
  BY DEF KeyFine, AnnouncedIsCommitted
<1>3. FlagsHonest'
  BY DEF KeyFine, FlagsHonest
<1>4. DispatchInStep'
  BY DEF KeyFine, DispatchInStep, Recording, ToCome, WrittenFor
<1>. QED
  BY <1>1, <1>2, <1>3, <1>4

\* One key of all changes.
LEMMA OneKeyFine ==
  ASSUME KeysFine, NEW n \in Keys,
         \A o \in Keys \ {n} : notice'[o] = notice[o] /\ delivery'[o] = delivery[o] /\ pushed'[o] = pushed[o] /\ repeats'[o] = repeats[o],
         KeyFine(notice'[n], delivery'[n], pushed'[n], repeats'[n])
  PROVE  SentOnce' /\ AnnouncedIsCommitted' /\ FlagsHonest' /\ DispatchInStep'
<1>1. \A o \in Keys : KeyFine(notice'[o], delivery'[o], pushed'[o], repeats'[o])
  BY DEF KeysFine
<1>. QED
  BY <1>1, FineKeysNext

\* What a step makes of a dispatch, a count and a row.
Recorded(d)    == [d EXCEPT !.stage = "record"]
NextWay(d)     == IF d.at = "ws" THEN [d EXCEPT !.at = "push", !.stage = "send"] ELSE [at |-> "over"]
OneMore(p, ch) == [p EXCEPT ![ch] = @ + 1]
Flagged(r, ch) == [r EXCEPT !.flags = @ \cup {ch}]
Became(r, state) == [r EXCEPT !.state = state]

\* A dispatch that is not on its way tells nothing of its own.
LEMMA RestFine ==
  ASSUME NEW r, NEW d, NEW e, NEW p \in [Channels -> Nat], NEW q \in [Channels -> Nat], KeyFine(r, d, p, q),
         d.at \notin Channels, e.at \notin Channels
  PROVE  KeyFine(r, e, p, q)
<1>1. e.at # "ws"
  BY DEF Channels
<1>. QED
  BY <1>1 DEF KeyFine

\* A dispatch takes the flags of the row along.
LEMMA LoadFine ==
  ASSUME NEW r \in NoticeRows, NEW d, NEW e, NEW p \in [Channels -> Nat], NEW q \in [Channels -> Nat], NEW on,
         KeyFine(r, d, p, q), d.at \notin Channels, r.state # "erased",
         e = [at |-> "ws", stage |-> "send", flags |-> r.flags, on |-> on]
  PROVE  KeyFine(r, e, p, q)
<1>1. r # NoNotice /\ e.at = "ws" /\ e.stage = "send" /\ e.flags = r.flags
  BY NothingApart
<1>. QED
  BY <1>1 DEF KeyFine

\* What is wanted goes out, once.
LEMMA SendFine ==
  ASSUME NEW r \in NoticeRows \cup {NoNotice}, NEW d \in OnTheWay, NEW e, NEW p \in [Channels -> Nat], NEW s,
         NEW q \in [Channels -> Nat], KeyFine(r, d, p, q), d.stage = "send", d.at \in d.on \ d.flags,
         s = OneMore(p, d.at), e = Recorded(d)
  PROVE  KeyFine(r, e, s, q) /\ e \in Deliveries /\ s \in [Channels -> Nat]
<1>1. d.at \in Channels /\ d.flags \in SUBSET Channels
  BY WayFields
<1>2. e \in OnTheWay /\ e.at = d.at /\ e.stage = "record" /\ e.flags = d.flags /\ e.on = d.on
  BY DEF OnTheWay, Recorded
<1>3. /\ s \in [Channels -> Nat] /\ s[d.at] = p[d.at] + 1 /\ p[d.at] \in Nat
      /\ \A ch \in Channels : ch # d.at => s[ch] = p[ch]
  BY <1>1 DEF OneMore
<1>4. r # NoNotice /\ ~r.muted
  <2>1. r # NoNotice
    BY <1>1 DEF KeyFine
  <2>2. r.muted => d.flags = Channels
    BY <1>1 DEF KeyFine
  <2>. QED
    BY <1>1, <2>1, <2>2
<1>5. p[d.at] <= q[d.at]
  BY <1>1 DEF KeyFine
<1>6. ASSUME NEW ch \in Channels
      PROVE  /\ s[ch] <= 1 + q[ch]
             /\ e.at = ch /\ e.stage = "record" => s[ch] > 0
             /\ ((e.at = ch /\ e.stage = "send") \/ (e.at = "ws" /\ ch = "push")) /\ ch \notin e.flags => s[ch] <= q[ch]
             /\ r # NoNotice /\ r.state # "erased" /\ ch \notin r.flags /\ ~(e.at = ch /\ e.stage = "record") => s[ch] <= q[ch]
             /\ p[ch] > 0 => s[ch] > 0
  <2>0. q[ch] \in Nat /\ p[ch] \in Nat
    OBVIOUS
  <2>1. CASE ch = d.at
    <3>1. s[ch] = p[ch] + 1 /\ p[ch] <= q[ch] /\ s[ch] > 0
      BY <1>3, <1>5, <2>1
    <3>2. ~(e.at = "ws" /\ ch = "push") /\ e.stage # "send"
      BY <1>2, <2>1
    <3>. QED
      BY <1>2, <2>0, <2>1, <3>1, <3>2
  <2>2. CASE ch # d.at
    <3>1. s[ch] = p[ch] /\ e.at # ch
      BY <1>2, <1>3, <2>2
    <3>2. /\ p[ch] <= 1 + q[ch]
          /\ d.at = "ws" /\ ch = "push" /\ ch \notin d.flags => p[ch] <= q[ch]
          /\ r # NoNotice /\ r.state # "erased" /\ ch \notin r.flags => p[ch] <= q[ch]
      BY <2>2 DEF KeyFine
    <3>. QED
      BY <1>2, <3>1, <3>2
  <2>. QED
    BY <2>1, <2>2
<1>7. r # NoNotice => /\ \A ch \in r.flags : s[ch] > 0 \/ r.muted
                      /\ r.muted => r.flags = Channels /\ \A ch \in Channels : s[ch] = 0
  <2>1. r.flags \subseteq Channels
    BY <1>4 DEF NoticeRows
  <2>. QED
    BY <1>4, <1>6, <2>1 DEF KeyFine
<1>8. e.at \in Channels => e.flags \subseteq r.flags /\ (r.muted => e.flags = Channels)
  BY <1>1, <1>2 DEF KeyFine
<1>9. KeyFine(r, e, s, q)
  BY <1>4, <1>6, <1>7, <1>8 DEF KeyFine
<1>. QED
  BY <1>2, <1>3, <1>9, WayFields

\* On to the next channel, or the end.
LEMMA OnwardFine ==
  ASSUME NEW r \in NoticeRows \cup {NoNotice}, NEW d \in OnTheWay, NEW e, NEW p \in [Channels -> Nat],
         NEW q \in [Channels -> Nat], KeyFine(r, d, p, q),
         d.stage = "send" => d.at \notin d.on \/ d.at \in d.flags,
         d.stage = "record" => r.state = "erased" \/ d.at \in r.flags,
         e = NextWay(d)
  PROVE  KeyFine(r, e, p, q) /\ e \in Deliveries
<1>1. d.at \in Channels /\ r # NoNotice /\ d.flags \subseteq r.flags /\ (r.muted => d.flags = Channels)
  BY WayFields DEF KeyFine
<1>2. ASSUME NEW ch \in Channels, r.state # "erased", ch \notin r.flags PROVE p[ch] <= q[ch]
  <2>1. ~(d.at = ch /\ d.stage = "record")
    BY <1>2
  <2>. QED
    BY <1>1, <1>2, <2>1 DEF KeyFine
<1>3. CASE d.at = "ws"
  <2>1. e = [d EXCEPT !.at = "push", !.stage = "send"]
    BY <1>3 DEF NextWay
  <2>2. e \in OnTheWay /\ e.at = "push" /\ e.stage = "send" /\ e.flags = d.flags
    BY <2>1 DEF OnTheWay
  <2>3. "push" \in Channels /\ "ws" # "push"
    BY DEF Channels
  <2>4. "push" \notin e.flags => p["push"] <= q["push"]
    BY <1>3, <2>2, <2>3 DEF KeyFine
  <2>5. ASSUME NEW ch \in Channels
        PROVE  /\ p[ch] <= 1 + q[ch]
               /\ e.at = ch /\ e.stage = "record" => p[ch] > 0
               /\ ((e.at = ch /\ e.stage = "send") \/ (e.at = "ws" /\ ch = "push")) /\ ch \notin e.flags => p[ch] <= q[ch]
               /\ r # NoNotice /\ r.state # "erased" /\ ch \notin r.flags /\ ~(e.at = ch /\ e.stage = "record") => p[ch] <= q[ch]
    BY <1>2, <2>2, <2>4 DEF KeyFine
  <2>6. /\ r # NoNotice => /\ \A ch \in r.flags : p[ch] > 0 \/ r.muted
                           /\ r.muted => r.flags = Channels /\ \A ch \in Channels : p[ch] = 0
        /\ e.at \in Channels => e.flags \subseteq r.flags /\ (r.muted => e.flags = Channels)
    BY <1>1, <2>2 DEF KeyFine
  <2>7. KeyFine(r, e, p, q)
    BY <1>1, <2>5, <2>6 DEF KeyFine
  <2>. QED
    BY <2>2, <2>7, WayFields
<1>4. CASE d.at # "ws"
  <2>1. e = [at |-> "over"] /\ e.at \notin Channels /\ e.at # "ws"
    BY <1>4 DEF Channels, NextWay
  <2>2. KeyFine(r, e, p, q)
    BY <1>1, <1>2, <2>1 DEF KeyFine
  <2>. QED
    BY <2>1, <2>2, RestDeliveries
<1>. QED
  BY <1>3, <1>4

\* The flag of what went out is set.
LEMMA FlagFine ==
  ASSUME NEW r \in NoticeRows, NEW d \in OnTheWay, NEW s, NEW p \in [Channels -> Nat],
         NEW q \in [Channels -> Nat], KeyFine(r, d, p, q), d.stage = "record",
         s = Flagged(r, d.at)
  PROVE  KeyFine(s, d, p, q) /\ s \in NoticeRows /\ d.at \in s.flags /\ s.state = r.state /\ s.muted = r.muted /\ s.actor = r.actor
<1>1. d.at \in Channels /\ r # NoNotice /\ r.flags \in SUBSET Channels
  BY WayFields, NothingApart DEF NoticeRows
<1>2. /\ s \in NoticeRows /\ s.state = r.state /\ s.muted = r.muted /\ s.actor = r.actor /\ s.flags = r.flags \cup {d.at}
  BY <1>1 DEF NoticeRows, Flagged
<1>3. s # NoNotice
  BY <1>2, NothingApart
<1>4. p[d.at] > 0
  BY <1>1 DEF KeyFine
<1>5. s.muted => s.flags = Channels /\ \A ch \in Channels : p[ch] = 0
  BY <1>1, <1>2 DEF KeyFine
<1>6. \A ch \in s.flags : p[ch] > 0 \/ s.muted
  BY <1>1, <1>2, <1>4 DEF KeyFine
<1>7. d.at \in Channels => d.flags \subseteq s.flags /\ (s.muted => d.flags = Channels)
  BY <1>1, <1>2 DEF KeyFine
<1>8. \A ch \in Channels :
       /\ p[ch] <= 1 + q[ch]
       /\ d.at = ch /\ d.stage = "record" => p[ch] > 0
       /\ ((d.at = ch /\ d.stage = "send") \/ (d.at = "ws" /\ ch = "push")) /\ ch \notin d.flags => p[ch] <= q[ch]
       /\ s # NoNotice /\ s.state # "erased" /\ ch \notin s.flags /\ ~(d.at = ch /\ d.stage = "record") => p[ch] <= q[ch]
  BY <1>1, <1>2 DEF KeyFine
<1>. QED
  BY <1>2, <1>3, <1>5, <1>6, <1>7, <1>8 DEF KeyFine

\* A dispatch whose worker is lost begins again.
LEMMA LostFine ==
  ASSUME NEW r \in NoticeRows \cup {NoNotice}, NEW d \in OnTheWay, NEW e, NEW p \in [Channels -> Nat], NEW s,
         NEW q \in [Channels -> Nat], KeyFine(r, d, p, q), e = [at |-> "queued"],
         s = IF d.stage = "record" THEN OneMore(q, d.at) ELSE q
  PROVE  KeyFine(r, e, p, s) /\ s \in [Channels -> Nat]
<1>1. d.at \in Channels /\ d.stage \in {"send", "record"}
  BY WayFields
<1>2. r # NoNotice /\ d.flags \subseteq r.flags
  BY <1>1 DEF KeyFine
<1>3. s \in [Channels -> Nat] /\ \A ch \in Channels : q[ch] <= s[ch] /\ (d.at = ch /\ d.stage = "record" => s[ch] = q[ch] + 1)
  BY <1>1 DEF OneMore
<1>4. e.at \notin Channels /\ e.at # "ws"
  BY DEF Channels
<1>5. ASSUME NEW ch \in Channels
      PROVE  p[ch] <= 1 + s[ch] /\ (r # NoNotice /\ r.state # "erased" /\ ch \notin r.flags => p[ch] <= s[ch])
  <2>1. p[ch] \in Nat /\ q[ch] \in Nat /\ s[ch] \in Nat /\ q[ch] <= s[ch]
    BY <1>3
  <2>2. p[ch] <= 1 + q[ch]
    BY DEF KeyFine
  <2>3. CASE d.at = ch /\ d.stage = "record"
    BY <1>3, <2>1, <2>2, <2>3
  <2>4. CASE ~(d.at = ch /\ d.stage = "record")
    <3>1. r # NoNotice /\ r.state # "erased" /\ ch \notin r.flags => p[ch] <= q[ch]
      BY <2>4 DEF KeyFine
    <3>. QED
      BY <2>1, <2>2, <3>1
  <2>. QED
    BY <2>3, <2>4
<1>6. r # NoNotice => /\ \A ch \in r.flags : p[ch] > 0 \/ r.muted
                      /\ r.muted => r.flags = Channels /\ \A ch \in Channels : p[ch] = 0
  BY DEF KeyFine
<1>7. KeyFine(r, e, p, s)
  BY <1>2, <1>4, <1>5, <1>6 DEF KeyFine
<1>. QED
  BY <1>3, <1>7

\* The recipient hides or erases a row.
LEMMA StateFine ==
  ASSUME NEW r \in NoticeRows, NEW d, NEW s, NEW p \in [Channels -> Nat], NEW q \in [Channels -> Nat],
         KeyFine(r, d, p, q), NEW state \in {"hidden", "erased"}, s = Became(r, state), r.state # "erased"
  PROVE  KeyFine(s, d, p, q) /\ s \in NoticeRows /\ s.state = state /\ s.muted = r.muted /\ s.actor = r.actor
<1>1. s \in NoticeRows /\ s.state = state /\ s.muted = r.muted /\ s.actor = r.actor /\ s.flags = r.flags
  BY DEF NoticeRows, Became
<1>2. s # NoNotice /\ r # NoNotice
  BY <1>1, NothingApart
<1>3. KeyFine(s, d, p, q)
  BY <1>1, <1>2 DEF KeyFine
<1>. QED
  BY <1>1, <1>3

\* A row is committed: nothing has gone out for it.
LEMMA CommitFine ==
  ASSUME NEW r \in NoticeRows, NEW d, NEW p \in [Channels -> Nat], NEW q \in [Channels -> Nat],
         KeyFine(NoNotice, d, p, q), r.flags = (IF r.muted THEN Channels ELSE {})
  PROVE  KeyFine(r, d, p, q)
<1>1. d.at \notin Channels /\ \A ch \in Channels : p[ch] = 0
  BY DEF KeyFine
<1>2. r # NoNotice /\ d.at # "ws"
  BY <1>1, NothingApart DEF Channels
<1>3. (\A ch \in r.flags : p[ch] > 0 \/ r.muted) /\ (r.muted => r.flags = Channels /\ \A ch \in Channels : p[ch] = 0)
  <2>1. CASE r.muted
    BY <1>1, <2>1
  <2>2. CASE ~r.muted
    BY <1>1, <2>2
  <2>. QED
    BY <2>1, <2>2
<1>4. \A ch \in Channels : p[ch] <= 1 + q[ch] /\ p[ch] <= q[ch] /\ d.at # ch
  BY <1>1
<1>. QED
  BY <1>1, <1>2, <1>3, <1>4 DEF KeyFine

-----------------------------------------------------------------------------
(* The batch *)

\* A preview, with an actor put in front.
LEMMA PreviewGrows ==
  ASSUME NEW seen \in Previews, NEW a \in NoticeActors,
         \A i, j \in DOMAIN seen : i # j => seen[i] # seen[j]
  PROVE  /\ Preview(seen, a) \in Previews
         /\ \A i \in DOMAIN Preview(seen, a) : Preview(seen, a)[i] = a \/ \E j \in DOMAIN seen : Preview(seen, a)[i] = seen[j]
         /\ \A i, j \in DOMAIN Preview(seen, a) : i # j => Preview(seen, a)[i] # Preview(seen, a)[j]
<1>1. PICK k \in 0 .. PreviewLimit : seen \in [1 .. k -> NoticeActors]
  BY DEF Previews
<1>2. k \in Nat /\ PreviewLimit \in Nat \ {0} /\ k <= PreviewLimit /\ DOMAIN seen = 1 .. k
  BY <1>1, PreviewNat
<1>3. seen \in Seq(NoticeActors)
  BY <1>1, <1>2, SeqDef
<1>4. Len(seen) = k
  BY <1>2, <1>3, LenProperties
<1>5. CASE \E i \in DOMAIN seen : seen[i] = a
  BY <1>5 DEF Preview
<1>6. CASE ~\E i \in DOMAIN seen : seen[i] = a
  <2>. DEFINE m == IF k < PreviewLimit THEN k + 1 ELSE PreviewLimit
              all == <<a>> \o seen
              pv == SubSeq(all, 1, m)
  <2>1. m \in 1 .. PreviewLimit /\ m <= k + 1 /\ m \in Nat
    BY <1>2
  <2>2. Preview(seen, a) = pv
    BY <1>4, <1>6 DEF Preview
  <2>3. <<a>> \in Seq(NoticeActors) /\ Len(<<a>>) = 1 /\ <<a>>[1] = a
    OBVIOUS
  <2>4. /\ all \in Seq(NoticeActors) /\ Len(all) = 1 + k
        /\ \A i \in 1 .. 1 + k : all[i] = IF i <= 1 THEN <<a>>[i] ELSE seen[i - 1]
    <3>1. /\ all \in Seq(NoticeActors) /\ Len(all) = Len(<<a>>) + Len(seen)
          /\ \A i \in 1 .. Len(<<a>>) + Len(seen) : all[i] = IF i <= Len(<<a>>) THEN <<a>>[i] ELSE seen[i - Len(<<a>>)]
      BY <1>3, <2>3, ConcatProperties
    <3>. QED
      BY <1>4, <2>3, <3>1
  <2>5. \A i \in 1 .. m : all[i] \in NoticeActors /\ all[i] = (IF i = 1 THEN a ELSE seen[i - 1])
    <3>1. ASSUME NEW i \in 1 .. m PROVE all[i] = (IF i = 1 THEN a ELSE seen[i - 1])
      BY <1>2, <2>1, <2>3, <2>4
    <3>2. ASSUME NEW i \in 1 .. m PROVE all[i] \in NoticeActors
      <4>1. i \in 1 .. Len(all)
        BY <1>2, <2>1, <2>4
      <4>. QED
        BY <2>4, <4>1, ElementOfSeq
    <3>. QED
      BY <3>1, <3>2
  <2>. HIDE DEF all, m
  <2>6. pv \in Seq(NoticeActors) /\ Len(pv) = m /\ \A i \in 1 .. m : pv[i] = all[i]
    <3>1. /\ pv \in Seq(NoticeActors) /\ Len(pv) = (IF 1 <= m THEN m - 1 + 1 ELSE 0)
          /\ \A i \in 1 .. m - 1 + 1 : pv[i] = all[1 + i - 1]
      BY <2>1, <2>5, SubSeqProperties
    <3>. QED
      BY <2>1, <3>1
  <2>. HIDE DEF pv
  <2>7. pv \in [1 .. m -> NoticeActors] /\ DOMAIN pv = 1 .. m
    BY <2>6, LenProperties
  <2>8. pv \in Previews
    BY <2>1, <2>7 DEF Previews
  <2>9. ASSUME NEW i \in 1 .. m PROVE pv[i] = (IF i = 1 THEN a ELSE seen[i - 1]) /\ (i # 1 => i - 1 \in DOMAIN seen)
    BY <1>2, <2>1, <2>5, <2>6
  <2>10. \A i, j \in 1 .. m : i # j => pv[i] # pv[j]
    <3>. SUFFICES ASSUME NEW i \in 1 .. m, NEW j \in 1 .. m, i # j PROVE pv[i] # pv[j]
      OBVIOUS
    <3>1. CASE i = 1
      BY <1>6, <2>9, <3>1
    <3>2. CASE j = 1
      BY <1>6, <2>9, <3>2
    <3>3. CASE i # 1 /\ j # 1
      <4>1. i - 1 # j - 1
        BY <2>1
      <4>. QED
        BY <2>9, <3>3, <4>1
    <3>. QED
      BY <3>1, <3>2, <3>3
  <2>11. \A i \in 1 .. m : pv[i] = a \/ \E j \in DOMAIN seen : pv[i] = seen[j]
    BY <2>9
  <2>. QED
    BY <2>2, <2>7, <2>8, <2>10, <2>11
<1>. QED
  BY <1>5, <1>6

\* The batch against the rows, as predicates on values.
GroupOf(rows)      == {n \in Keys : rows[n] # NoNotice /\ ~rows[n].muted}
Pictures(rows, pv) ==
  /\ \A i \in DOMAIN pv : \E n \in GroupOf(rows) : rows[n].actor = pv[i]
  /\ \A i, j \in DOMAIN pv : i # j => pv[i] # pv[j]
Honest(rows, b)    ==
  b # NoBatch => /\ b.total <= Cardinality(GroupOf(rows))
                 /\ b.latest \in GroupOf(rows) /\ rows[b.latest].state # "erased"
                 /\ Pictures(rows, b.preview)
Holds(c)           == c.at \in {"written", "queued"} /\ ~c.quiet
Same(b, seen)      == IF seen = NoBatch \/ b = NoBatch THEN seen = b ELSE seen.born = b.born
Knows(c)           == c.at \in {"checked", "written", "queued"} /\ c.seen # NoBatch
Held(cr, rows, b)  ==
  /\ \A h \in Happenings : Holds(cr[h]) => Same(b, cr[h].seen) /\ \A o \in Happenings : Holds(cr[o]) => o = h
  /\ \A h \in Happenings : Knows(cr[h]) => Pictures(rows, cr[h].seen.preview)
Early(cr, n, stages) == n[2] > cr[n[1]].try \/ (n[2] = cr[n[1]].try /\ cr[n[1]].at \in stages)
Placed(c)          == (c.at = "queued" => c.inside) /\ (c.at = "committed" => ~c.inside)
Ordered(cr, rows, dl) ==
  /\ \A n \in Keys : /\ Early(cr, n, {"new", "checked", "written", "queued"}) => rows[n] = NoNotice
                     /\ Early(cr, n, {"new", "checked", "written", "committed"}) => dl[n] = NotQueued
  /\ \A h \in Happenings : Placed(cr[h])

\* The other claims, as predicates on values.
LEMMA ValuesNow ==
  ASSUME KeysInOrder, BatchHonest, BatchHeld
  PROVE  Ordered(creating, notice, delivery) /\ Honest(notice, batch) /\ Held(creating, notice, batch)
<1>1. Ordered(creating, notice, delivery)
  BY DEF KeysInOrder, Before, Ordered, Early, Placed
<1>2. Honest(notice, batch)
  BY DEF BatchHonest, Honest, Grouped, GroupOf, ShowsGrouped, Pictures, WrittenFor
<1>3. \A h \in Happenings : h \in Holding <=> Holds(creating[h])
  BY DEF Holding, Holds
<1>4. \A s : SameBatch(s) <=> Same(batch, s)
  BY DEF SameBatch, Same
<1>5. \A pv : ShowsGrouped(pv) <=> Pictures(notice, pv)
  BY DEF ShowsGrouped, Pictures, Grouped, GroupOf
<1>6. Held(creating, notice, batch)
  BY <1>3, <1>4, <1>5 DEF BatchHeld, Held, Knows
<1>. QED
  BY <1>1, <1>2, <1>6

\* The same of the next state.
LEMMA ValuesNext ==
  ASSUME Ordered(creating', notice', delivery'), Honest(notice', batch'), Held(creating', notice', batch')
  PROVE  KeysInOrder' /\ BatchHonest' /\ BatchHeld'
<1>1. KeysInOrder'
  BY DEF KeysInOrder, Before, Ordered, Early, Placed
<1>2. BatchHonest'
  BY DEF BatchHonest, Honest, Grouped, GroupOf, ShowsGrouped, Pictures, WrittenFor
<1>3. BatchHeld'
  BY DEF BatchHeld, Held, Holding, Holds, SameBatch, Same, Knows, ShowsGrouped, Pictures, Grouped, GroupOf
<1>. QED
  BY <1>1, <1>2, <1>3

\* Rows that differ in what no batch tells.
Kept(rows, next) ==
  \A n \in Keys : /\ next[n] = NoNotice <=> rows[n] = NoNotice
                  /\ rows[n] # NoNotice => next[n].actor = rows[n].actor /\ next[n].muted = rows[n].muted

\* What a batch shows of its rows stays.
LEMMA KeptShown ==
  ASSUME NEW rows, NEW next, Kept(rows, next)
  PROVE  GroupOf(next) = GroupOf(rows) /\ \A pv : Pictures(rows, pv) => Pictures(next, pv)
<1>1. GroupOf(next) = GroupOf(rows)
  BY DEF Kept, GroupOf
<1>2. \A n \in GroupOf(rows) : next[n].actor = rows[n].actor
  BY DEF Kept, GroupOf
<1>. QED
  BY <1>1, <1>2 DEF Pictures

\* A batch stays honest while its latest row is not erased.
LEMMA HonestKept ==
  ASSUME NEW rows, NEW next, Kept(rows, next), NEW b, Honest(rows, b),
         b # NoBatch /\ rows[b.latest].state # "erased" => next[b.latest].state # "erased"
  PROVE  Honest(next, b)
BY KeptShown DEF Honest

\* One creation moves: who holds the batch, and what was read of it.
LEMMA HeldMoves ==
  ASSUME NEW cr, NEW next, NEW rows, NEW after, NEW b, NEW h \in Happenings, Held(cr, rows, b),
         \A o \in Happenings \ {h} : next[o] = cr[o],
         \A pv : Pictures(rows, pv) => Pictures(after, pv),
         Holds(next[h]) => Same(b, next[h].seen) /\ \A o \in Happenings : Holds(cr[o]) => o = h,
         Knows(next[h]) => Pictures(rows, next[h].seen.preview)
  PROVE  Held(next, after, b)
<1>1. ASSUME NEW o \in Happenings, Holds(next[o])
      PROVE  Same(b, next[o].seen) /\ \A z \in Happenings : Holds(next[z]) => z = o
  <2>1. CASE o = h
    BY <1>1, <2>1
  <2>2. CASE o # h
    <3>1. Holds(cr[o]) /\ next[o] = cr[o]
      BY <1>1, <2>2
    <3>2. Same(b, cr[o].seen) /\ \A z \in Happenings : Holds(cr[z]) => z = o
      BY <3>1 DEF Held
    <3>3. ~Holds(next[h])
      BY <2>2, <3>1
    <3>. QED
      BY <3>1, <3>2, <3>3
  <2>. QED
    BY <2>1, <2>2
<1>2. ASSUME NEW o \in Happenings, Knows(next[o]) PROVE Pictures(after, next[o].seen.preview)
  BY <1>2 DEF Held
<1>. QED
  BY <1>1, <1>2 DEF Held

\* The rows move: what was read of the batch stays true.
LEMMA HeldStays ==
  ASSUME NEW cr, NEW rows, NEW after, NEW b, Held(cr, rows, b), \A pv : Pictures(rows, pv) => Pictures(after, pv)
  PROVE  Held(cr, after, b)
BY DEF Held

\* One creation moves: the order of its keys.
LEMMA OrderMoves ==
  ASSUME NEW cr, NEW next, NEW rows, NEW after, NEW dl, NEW ways, NEW h \in Happenings,
         Ordered(cr, rows, dl), \A o \in Happenings \ {h} : next[o] = cr[o], Placed(next[h]),
         \A n \in Keys : n[1] # h => (rows[n] = NoNotice => after[n] = NoNotice) /\ (dl[n] = NotQueued => ways[n] = NotQueued),
         \A n \in Keys : n[1] = h =>
           /\ Early(next, n, {"new", "checked", "written", "queued"}) => after[n] = NoNotice
           /\ Early(next, n, {"new", "checked", "written", "committed"}) => ways[n] = NotQueued
  PROVE  Ordered(next, after, ways)
<1>1. ASSUME NEW n \in Keys, n[1] # h
      PROVE  /\ Early(next, n, {"new", "checked", "written", "queued"}) => after[n] = NoNotice
             /\ Early(next, n, {"new", "checked", "written", "committed"}) => ways[n] = NotQueued
  <2>1. n[1] \in Happenings \ {h}
    BY <1>1 DEF Keys
  <2>2. next[n[1]] = cr[n[1]]
    BY <2>1
  <2>. QED
    BY <1>1, <2>2 DEF Ordered, Early
<1>. QED
  BY <1>1 DEF Ordered

\* Rows and dispatches move: keys ahead stay untouched.
LEMMA OrderStays ==
  ASSUME NEW cr, NEW rows, NEW after, NEW dl, NEW ways, Ordered(cr, rows, dl),
         \A n \in Keys : (rows[n] = NoNotice => after[n] = NoNotice) /\ (dl[n] = NotQueued => ways[n] = NotQueued)
  PROVE  Ordered(cr, after, ways)
BY DEF Ordered

\* What a state that fits tells, and what has to be shown of the next one.
LEMMA InvNow ==
  ASSUME NoticeInv
  PROVE  /\ NoticeTypeOK /\ KeysFine /\ Ordered(creating, notice, delivery)
         /\ Honest(notice, batch) /\ Held(creating, notice, batch)
BY KeysAreFine, ValuesNow DEF NoticeInv

\* What has to be shown of the next state.
LEMMA InvNext ==
  ASSUME NoticeTypeOK', \A n \in Keys : KeyFine(notice'[n], delivery'[n], pushed'[n], repeats'[n]),
         Ordered(creating', notice', delivery'), Honest(notice', batch'), Held(creating', notice', batch')
  PROVE  NoticeInv'
BY FineKeysNext, ValuesNext DEF NoticeInv

\* The key of an attempt.
LEMMA KeyOf ==
  ASSUME NoticeTypeOK, NEW h \in Happenings
  PROVE  /\ creating[h] \in Creations /\ Key(h) \in Keys /\ Key(h)[1] = h /\ Key(h)[2] = creating[h].try
         /\ creating[h].try \in 1 .. MaxTries
         /\ \A n \in Keys : n[1] = h /\ n[2] = creating[h].try => n = Key(h)
         /\ \A n \in Keys : n[1] \in Happenings /\ n[2] \in 1 .. MaxTries /\ n[2] \in Nat
<1>1. creating[h] \in Creations
  BY DEF NoticeTypeOK
<1>2. creating[h].try \in 1 .. MaxTries
  BY <1>1, CreationShape
<1>. QED
  BY <1>1, <1>2, NoticeBounds DEF Key, Keys

\* The beginning fits.
LEMMA NoticeStart == NoticeInit => NoticeInv
<1>. SUFFICES ASSUME NoticeInit PROVE NoticeInv
  OBVIOUS
<1>1. /\ creating = [h \in Happenings |-> [at |-> "new", try |-> 1]]
      /\ notice = [n \in Keys |-> NoNotice] /\ batch = NoBatch /\ muted = {} /\ channels = Channels
      /\ delivery = [n \in Keys |-> NotQueued]
      /\ pushed = [n \in Keys |-> [ch \in Channels |-> 0]] /\ repeats = [n \in Keys |-> [ch \in Channels |-> 0]]
      /\ noticeLosses = MaxNoticeLosses /\ inboxCalls = MaxInboxCalls
  BY DEF NoticeInit
<1>2. [at |-> "new", try |-> 1] \in Creations
  BY NoticeBounds DEF Creations
<1>3. NoticeTypeOK
  BY <1>1, <1>2, RestDeliveries, NoticeBounds DEF NoticeTypeOK
<1>4. SentOnce /\ AnnouncedIsCommitted /\ FlagsHonest
  BY <1>1, RestDeliveries DEF SentOnce, AnnouncedIsCommitted, FlagsHonest, Channels
<1>5. DispatchInStep
  BY <1>1, RestDeliveries DEF DispatchInStep, Recording, ToCome, WrittenFor, Channels
<1>6. KeysInOrder
  BY <1>1 DEF KeysInOrder
<1>7. BatchHonest /\ BatchHeld
  BY <1>1 DEF BatchHonest, BatchHeld, Holding
<1>. QED
  BY <1>3, <1>4, <1>5, <1>6, <1>7 DEF NoticeInv

\* A step of a creation that writes no row and queues nothing.
LEMMA CreationKeeps ==
  ASSUME NoticeInv, NEW h \in Happenings, NEW c \in Creations, Goes(h, c),
         UNCHANGED <<notice, batch, delivery, pushed, repeats>>, NoticeTypeOK',
         \A n \in Keys : n[1] = h =>
           /\ Early(creating', n, {"new", "checked", "written", "queued"}) => notice[n] = NoNotice
           /\ Early(creating', n, {"new", "checked", "written", "committed"}) => delivery[n] = NotQueued,
         Holds(c) => Same(batch, c.seen) /\ \A o \in Happenings : Holds(creating[o]) => o = h,
         Knows(c) => Pictures(notice, c.seen.preview), Placed(c)
  PROVE  NoticeInv'
<1>1. /\ NoticeTypeOK /\ KeysFine /\ Ordered(creating, notice, delivery)
      /\ Honest(notice, batch) /\ Held(creating, notice, batch)
  BY InvNow
<1>2. creating'[h] = c /\ \A o \in Happenings \ {h} : creating'[o] = creating[o]
  BY <1>1, GoesNext DEF NoticeTypeOK
<1>3. notice' = notice /\ batch' = batch /\ delivery' = delivery /\ pushed' = pushed /\ repeats' = repeats
  OBVIOUS
<1>4. Ordered(creating', notice, delivery)
  BY <1>1, <1>2, OrderMoves
<1>5. Held(creating', notice, batch)
  BY <1>1, <1>2, HeldMoves
<1>. QED
  BY <1>1, <1>3, <1>4, <1>5, InvNext DEF KeysFine

\* A creation that begins keeps the invariant.
LEMMA HappensKeeps == ASSUME NoticeInv, NEW h \in Happenings, Happens(h) PROVE NoticeInv'
<1>1. /\ NoticeTypeOK /\ Ordered(creating, notice, delivery) /\ Honest(notice, batch)
  BY InvNow
<1>2. PICK a \in NoticeActors, inside \in BOOLEAN :
         Goes(h, [at |-> "checked", try |-> creating[h].try, actor |-> a,
                   inside |-> inside, quiet |-> a \in muted, seen |-> batch])
  BY DEF Happens
<1>. DEFINE c == [at |-> "checked", try |-> creating[h].try, actor |-> a,
                   inside |-> inside, quiet |-> a \in muted, seen |-> batch]
<1>3. c \in BusyCalls
  BY <1>1, KeyOf DEF BusyCalls, BusyStages, NoticeTypeOK
<1>4. c \in Creations /\ c.at = "checked" /\ c.seen = batch /\ c.try = creating[h].try
  BY <1>3, BusyFields
<1>. HIDE DEF c
<1>5. /\ creating' \in [Happenings -> Creations] /\ creating'[h] = c
  BY <1>1, <1>2, <1>4, GoesNext DEF NoticeTypeOK, c
<1>6. UNCHANGED <<notice, batch, muted, channels, delivery, pushed, repeats, noticeLosses, inboxCalls>>
  BY DEF Happens
<1>7. NoticeTypeOK'
  BY <1>1, <1>5, <1>6 DEF NoticeTypeOK
<1>8. ASSUME NEW n \in Keys, n[1] = h
      PROVE  /\ Early(creating', n, {"new", "checked", "written", "queued"}) => notice[n] = NoNotice
             /\ Early(creating', n, {"new", "checked", "written", "committed"}) => delivery[n] = NotQueued
  <2>1. creating[h].at = "new"
    BY DEF Happens
  <2>. QED
    BY <1>1, <1>4, <1>5, <1>8, <2>1 DEF Ordered, Early
<1>9. ~Holds(c) /\ (Knows(c) => Pictures(notice, c.seen.preview)) /\ Placed(c)
  BY <1>1, <1>4 DEF Holds, Knows, Honest, Placed
<1>10. Goes(h, c)
  BY <1>2 DEF c
<1>. QED
  BY <1>4, <1>6, <1>7, <1>8, <1>9, <1>10, CreationKeeps

\* A creation that failed is typed.
LEMMA FailedFits ==
  ASSUME NoticeTypeOK, NEW h \in Happenings, NEW c, c = [at |-> "failed", try |-> creating[h].try]
  PROVE  c \in Creations /\ c.at = "failed" /\ c.try = creating[h].try
BY KeyOf DEF Creations

\* A creation that writes its rows keeps it.
LEMMA RowWriteKeeps == ASSUME NoticeInv, NEW h \in Happenings, WriteNotice(h) PROVE NoticeInv'
<1>1. /\ NoticeTypeOK /\ Ordered(creating, notice, delivery) /\ Held(creating, notice, batch)
  BY InvNow
<1>. DEFINE c == creating[h]
<1>2. c \in BusyCalls /\ c.at = "checked"
  BY <1>1, KeyOf, CreationShape DEF WriteNotice, BusyStages
<1>3. UNCHANGED <<notice, batch, delivery, muted, channels, pushed, repeats, noticeLosses, inboxCalls>>
  BY DEF WriteNotice, Fails
<1>4. CASE ~c.quiet /\ ~SameBatch(c.seen)
  <2>. DEFINE d == [at |-> "failed", try |-> creating[h].try]
  <2>1. Goes(h, d)
    BY <1>4 DEF WriteNotice, Fails
  <2>2. d \in Creations /\ d.at = "failed" /\ d.try = c.try
    BY <1>1, FailedFits
  <2>. HIDE DEF d
  <2>3. creating' \in [Happenings -> Creations] /\ creating'[h] = d
    BY <1>1, <2>1, <2>2, GoesNext DEF NoticeTypeOK
  <2>4. NoticeTypeOK'
    BY <1>1, <1>3, <2>3 DEF NoticeTypeOK
  <2>5. ASSUME NEW n \in Keys, n[1] = h
        PROVE  /\ Early(creating', n, {"new", "checked", "written", "queued"}) => notice[n] = NoNotice
               /\ Early(creating', n, {"new", "checked", "written", "committed"}) => delivery[n] = NotQueued
    BY <1>1, <2>2, <2>3, <2>5 DEF Ordered, Early
  <2>6. ~Holds(d) /\ ~Knows(d) /\ Placed(d)
    BY <2>2 DEF Holds, Knows, Placed
  <2>. QED
    BY <1>3, <2>1, <2>2, <2>4, <2>5, <2>6, CreationKeeps
<1>5. CASE c.quiet \/ SameBatch(c.seen)
  <2>. DEFINE d == [creating[h] EXCEPT !.at = "written"]
  <2>1. Goes(h, d)
    BY <1>5 DEF WriteNotice
  <2>2. d \in Creations /\ d.at = "written" /\ d.try = c.try /\ d.quiet = c.quiet /\ d.seen = c.seen
    BY <1>2, BusyFields DEF BusyStages
  <2>. HIDE DEF d
  <2>3. creating' \in [Happenings -> Creations] /\ creating'[h] = d
    BY <1>1, <2>1, <2>2, GoesNext DEF NoticeTypeOK
  <2>4. NoticeTypeOK'
    BY <1>1, <1>3, <2>3 DEF NoticeTypeOK
  <2>5. ASSUME NEW n \in Keys, n[1] = h
        PROVE  /\ Early(creating', n, {"new", "checked", "written", "queued"}) => notice[n] = NoNotice
               /\ Early(creating', n, {"new", "checked", "written", "committed"}) => delivery[n] = NotQueued
    BY <1>1, <1>2, <2>2, <2>3, <2>5 DEF Ordered, Early
  <2>6. Holds(d) => Same(batch, d.seen) /\ \A o \in Happenings : Holds(creating[o]) => o = h
    <3>1. Holds(d) => ~c.quiet
      BY <2>2 DEF Holds
    <3>2. c.quiet \/ Holding = {}
      BY DEF WriteNotice
    <3>. QED
      BY <1>5, <2>2, <3>1, <3>2 DEF Holding, Holds, SameBatch, Same
  <2>7. (Knows(d) => Pictures(notice, d.seen.preview)) /\ Placed(d)
    BY <1>1, <1>2, <2>2 DEF Held, Knows, Placed
  <2>. QED
    BY <1>3, <2>1, <2>2, <2>4, <2>5, <2>6, <2>7, CreationKeeps
<1>. QED
  BY <1>4, <1>5

\* A worker lost while creating keeps it.
LEMMA CreatorLostKeeps == ASSUME NoticeInv, NEW h \in Happenings, CreatorLost(h) PROVE NoticeInv'
<1>1. /\ NoticeTypeOK /\ Ordered(creating, notice, delivery) /\ Held(creating, notice, batch)
  BY InvNow
<1>. DEFINE c == creating[h]
<1>2. c.try \in 1 .. MaxTries /\ \A n \in Keys : n[2] \in Nat
  BY <1>1, KeyOf
<1>3. UNCHANGED <<notice, batch, muted, channels, delivery, pushed, repeats, inboxCalls>>
  BY DEF CreatorLost
<1>4. noticeLosses' \in 0 .. MaxNoticeLosses
  BY <1>1, NoticeBounds DEF CreatorLost, NoticeTypeOK
<1>5. PICK d : /\ Goes(h, d) /\ d \in Creations
               /\ \/ d.at = "failed" /\ d.try = c.try
                  \/ d.at = "new" /\ d.try = c.try + 1
  <2>1. CASE c.inside \/ c.try = MaxTries
    <3>. DEFINE d == [at |-> "failed", try |-> creating[h].try]
    <3>1. Goes(h, d)
      BY <2>1 DEF CreatorLost
    <3>2. d \in Creations /\ d.at = "failed" /\ d.try = c.try
      BY <1>1, FailedFits
    <3>. QED
      BY <3>1, <3>2
  <2>2. CASE ~(c.inside \/ c.try = MaxTries)
    <3>. DEFINE d == [at |-> "new", try |-> c.try + 1]
    <3>1. Goes(h, d)
      BY <2>2 DEF CreatorLost
    <3>2. d \in Creations
      BY <1>2, <2>2, NoticeBounds DEF Creations
    <3>. QED
      BY <3>1, <3>2
  <2>. QED
    BY <2>1, <2>2
<1>6. creating' \in [Happenings -> Creations] /\ creating'[h] = d
  BY <1>1, <1>5, GoesNext DEF NoticeTypeOK
<1>7. NoticeTypeOK'
  BY <1>1, <1>3, <1>4, <1>6 DEF NoticeTypeOK
<1>8. ASSUME NEW n \in Keys, n[1] = h
      PROVE  /\ Early(creating', n, {"new", "checked", "written", "queued"}) => notice[n] = NoNotice
             /\ Early(creating', n, {"new", "checked", "written", "committed"}) => delivery[n] = NotQueued
  <2>1. n[2] \in Nat /\ c.try \in Nat
    BY <1>2
  <2>2. CASE d.at = "failed" /\ d.try = c.try
    BY <1>1, <1>6, <1>8, <2>1, <2>2 DEF Ordered, Early
  <2>3. CASE d.at = "new" /\ d.try = c.try + 1
    <3>1. n[2] > d.try \/ n[2] = d.try => n[2] > c.try
      BY <2>1, <2>3
    <3>. QED
      BY <1>1, <1>6, <1>8, <3>1 DEF Ordered, Early
  <2>. QED
    BY <1>5, <2>2, <2>3
<1>9. ~Holds(d) /\ ~Knows(d) /\ Placed(d)
  BY <1>5 DEF Holds, Knows, Placed
<1>. QED
  BY <1>3, <1>5, <1>7, <1>8, <1>9, CreationKeeps

\* Queueing the dispatch keeps it.
LEMMA EnqueueKeeps == ASSUME NoticeInv, NEW h \in Happenings, Enqueue(h) PROVE NoticeInv'
<1>1. /\ NoticeTypeOK /\ KeysFine /\ Ordered(creating, notice, delivery)
      /\ Honest(notice, batch) /\ Held(creating, notice, batch)
  BY InvNow
<1>. DEFINE c == creating[h]
<1>2. (c.at = "written" /\ c.inside) \/ c.at = "committed"
  BY DEF Enqueue
<1>3. c \in BusyCalls
  BY <1>1, <1>2, KeyOf, CreationShape DEF BusyStages
<1>4. UNCHANGED <<notice, batch, muted, channels, pushed, repeats, noticeLosses, inboxCalls>>
  BY DEF Enqueue
<1>5. PICK d : /\ Goes(h, d) /\ d \in Creations /\ d.try = c.try
               /\ \/ d.at = "queued" /\ d.quiet = c.quiet /\ d.seen = c.seen /\ c.at = "written"
                  \/ d.at = "done"
               /\ c.at = "committed" => d.at = "done"
               /\ Placed(d)
  <2>1. CASE c.inside
    <3>. DEFINE d == [c EXCEPT !.at = "queued"]
    <3>1. Goes(h, d)
      BY <2>1 DEF Enqueue
    <3>2. d \in Creations /\ d.at = "queued" /\ d.try = c.try /\ d.quiet = c.quiet /\ d.seen = c.seen /\ d.inside = c.inside
      BY <1>3, BusyFields DEF BusyStages
    <3>3. c.at = "written"
      BY <1>1, <1>2, <2>1 DEF Ordered, Placed
    <3>4. Placed(d)
      BY <2>1, <3>2 DEF Placed
    <3>. HIDE DEF d
    <3>. QED
      BY <3>1, <3>2, <3>3, <3>4
  <2>2. CASE ~c.inside
    <3>. DEFINE d == [at |-> "done", try |-> c.try]
    <3>1. Goes(h, d)
      BY <2>2 DEF Enqueue
    <3>2. d \in Creations /\ Placed(d)
      BY <1>1, KeyOf DEF Creations, Placed
    <3>. QED
      BY <3>1, <3>2
  <2>. QED
    BY <2>1, <2>2
<1>6. /\ creating' \in [Happenings -> Creations] /\ creating'[h] = d
      /\ \A o \in Happenings \ {h} : creating'[o] = creating[o]
  BY <1>1, <1>5, GoesNext DEF NoticeTypeOK
<1>7. Key(h) \in Keys
  BY <1>1, KeyOf
<1>8. /\ delivery' \in [Keys -> Deliveries] /\ delivery'[Key(h)] = [at |-> "queued"]
      /\ \A n \in Keys \ {Key(h)} : delivery'[n] = delivery[n]
  <2>1. delivery' = [delivery EXCEPT ![Key(h)] = [at |-> "queued"]]
    BY DEF Enqueue
  <2>2. delivery \in [Keys -> Deliveries] /\ [at |-> "queued"] \in Deliveries
    BY <1>1, RestDeliveries DEF NoticeTypeOK
  <2>. QED
    BY <1>7, <2>1, <2>2
<1>9. NoticeTypeOK'
  BY <1>1, <1>4, <1>6, <1>8 DEF NoticeTypeOK
<1>10. delivery[Key(h)] = NotQueued
  <2>1. Early(creating, Key(h), {"new", "checked", "written", "committed"})
    BY <1>1, <1>2, KeyOf DEF Early
  <2>. QED
    BY <1>1, <1>7, <2>1 DEF Ordered
<1>11. \A n \in Keys : KeyFine(notice'[n], delivery'[n], pushed'[n], repeats'[n])
  <2>1. ASSUME NEW n \in Keys PROVE KeyFine(notice[n], delivery'[n], pushed[n], repeats[n])
    <3>1. KeyFine(notice[n], delivery[n], pushed[n], repeats[n])
      BY <1>1 DEF KeysFine
    <3>2. pushed[n] \in [Channels -> Nat] /\ repeats[n] \in [Channels -> Nat]
      BY <1>1 DEF NoticeTypeOK
    <3>3. CASE n = Key(h)
      <4>1. delivery[n].at \notin Channels /\ delivery'[n].at \notin Channels
        BY <1>8, <1>10, <3>3, RestDeliveries DEF Channels
      <4>. QED
        BY <3>1, <3>2, <4>1, RestFine
    <3>4. CASE n # Key(h)
      BY <1>8, <3>1, <3>4
    <3>. QED
      BY <3>3, <3>4
  <2>. QED
    BY <1>4, <2>1
<1>12. Ordered(creating', notice, delivery')
  <2>1. ASSUME NEW n \in Keys, n[1] # h
        PROVE  delivery[n] = NotQueued => delivery'[n] = NotQueued
    BY <1>1, <1>8, <2>1, KeyOf
  <2>2. ASSUME NEW n \in Keys, n[1] = h
        PROVE  /\ Early(creating', n, {"new", "checked", "written", "queued"}) => notice[n] = NoNotice
               /\ Early(creating', n, {"new", "checked", "written", "committed"}) => delivery'[n] = NotQueued
    <3>1. n[2] \in Nat /\ c.try \in 1 .. MaxTries
      BY <1>1, KeyOf
    <3>2. Early(creating', n, {"new", "checked", "written", "queued"}) => Early(creating, n, {"new", "checked", "written", "queued"})
      BY <1>5, <1>6, <2>2 DEF Early
    <3>3. Early(creating', n, {"new", "checked", "written", "committed"}) => n[2] > c.try
      BY <1>5, <1>6, <2>2 DEF Early
    <3>4. n[2] > c.try => n # Key(h) /\ delivery[n] = NotQueued
      <4>1. n[2] > c.try => Early(creating, n, {"new", "checked", "written", "committed"})
        BY <2>2 DEF Early
      <4>2. n[2] > c.try => n[2] # Key(h)[2]
        BY <1>1, <3>1, KeyOf
      <4>. QED
        BY <1>1, <4>1, <4>2 DEF Ordered
    <3>5. n # Key(h) => delivery'[n] = delivery[n]
      BY <1>8
    <3>. QED
      BY <1>1, <3>2, <3>3, <3>4, <3>5 DEF Ordered
  <2>. QED
    BY <1>1, <1>5, <1>6, <2>1, <2>2, OrderMoves
<1>13. Held(creating', notice, batch)
  <2>1. Holds(d) => Holds(c) /\ d.seen = c.seen
    BY <1>5 DEF Holds
  <2>2. Knows(d) => Knows(c) /\ d.seen = c.seen
    BY <1>5 DEF Knows
  <2>3. Holds(d) => Same(batch, d.seen) /\ \A o \in Happenings : Holds(creating[o]) => o = h
    BY <1>1, <2>1 DEF Held
  <2>4. Knows(d) => Pictures(notice, d.seen.preview)
    BY <1>1, <2>2 DEF Held
  <2>. QED
    BY <1>1, <1>6, <2>3, <2>4, HeldMoves
<1>14. notice' = notice /\ batch' = batch
  BY <1>4
<1>. QED
  BY <1>1, <1>9, <1>11, <1>12, <1>13, <1>14, InvNext

-----------------------------------------------------------------------------
(* A commit writes the row and counts it *)

\* The number of keys is finite.
LEMMA KeysFinite == IsFiniteSet(Keys)
<1>1. IsFiniteSet(1 .. MaxTries)
  BY FS_Interval, NoticeBounds
<1>. QED
  BY <1>1, HappeningsFinite, FS_Product DEF Keys

Counted(r, pv, n) == [r EXCEPT !.total = @ + 1, !.preview = pv, !.latest = n]

\* A batch with one more is typed.
LEMMA BatchCounts ==
  ASSUME NEW r \in BatchRows, NEW pv \in Previews, NEW n \in Keys, NEW b, b = Counted(r, pv, n)
  PROVE  b \in BatchRows /\ b.total = r.total + 1 /\ b.preview = pv /\ b.latest = n
<1>1. r.total + 1 \in Nat
  BY DEF BatchRows
<1>. QED
  BY <1>1 DEF BatchRows, Counted

\* The batch of a commit is typed, counts the new row and shows its actor.
LEMMA UpsertFits ==
  ASSUME NoticeTypeOK, NEW c \in BusyCalls, NEW n \in Keys, Honest(notice, batch), Same(batch, c.seen),
         c.seen # NoBatch => Pictures(notice, c.seen.preview), notice[n] = NoNotice,
         NEW next, next[n].actor = c.actor, next[n] # NoNotice, ~next[n].muted, next[n].state = "there",
         \A o \in Keys \ {n} : next[o] = notice[o]
  PROVE  Upsert(c, n) \in BatchRows /\ Honest(next, Upsert(c, n))
<1>1. /\ GroupOf(next) = GroupOf(notice) \cup {n} /\ n \notin GroupOf(notice)
      /\ \A o \in GroupOf(notice) : next[o].actor = notice[o].actor
  BY DEF GroupOf
<1>2. IsFiniteSet(GroupOf(notice))
  BY KeysFinite, FS_Subset DEF GroupOf
<1>3. Cardinality(GroupOf(next)) = Cardinality(GroupOf(notice)) + 1 /\ Cardinality(GroupOf(notice)) \in Nat
  BY <1>1, <1>2, FS_AddElement, FS_CardinalityType
<1>4. c.actor \in NoticeActors /\ c.seen \in BatchRows \cup {NoBatch} /\ batch \in BatchRows \cup {NoBatch}
  BY BusyFields DEF NoticeTypeOK
<1>5. n \in GroupOf(next) /\ next[n].actor = c.actor
  BY <1>1
<1>6. CASE batch = NoBatch
  <2>. DEFINE b == [total |-> 1, preview |-> <<c.actor>>, latest |-> n, born |-> n]
  <2>1. Upsert(c, n) = b
    BY <1>6 DEF Upsert
  <2>2. <<c.actor>> \in Previews
    <3>1. <<c.actor>> \in [1 .. 1 -> NoticeActors]
      BY <1>4
    <3>2. 1 \in 0 .. PreviewLimit
      BY PreviewNat
    <3>. QED
      BY <3>1, <3>2 DEF Previews
  <2>3. b \in BatchRows
    BY <2>2 DEF BatchRows
  <2>4. Pictures(next, <<c.actor>>)
    BY <1>5 DEF Pictures
  <2>5. Honest(next, b)
    BY <1>3, <1>5, <2>4 DEF Honest
  <2>. QED
    BY <2>1, <2>3, <2>5
<1>7. CASE batch # NoBatch
  <2>1. c.seen # NoBatch /\ c.seen \in BatchRows /\ batch \in BatchRows
    BY <1>4, <1>7 DEF Same
  <2>. DEFINE pv == Preview(c.seen.preview, c.actor)
              b  == [batch EXCEPT !.total = @ + 1, !.preview = pv, !.latest = n]
  <2>2. Upsert(c, n) = b
    BY <1>7 DEF Upsert
  <2>3. c.seen.preview \in Previews /\ batch.total \in Nat
    BY <2>1 DEF BatchRows
  <2>4. Pictures(notice, c.seen.preview)
    BY <2>1
  <2>5. /\ pv \in Previews
        /\ \A i \in DOMAIN pv : pv[i] = c.actor \/ \E j \in DOMAIN c.seen.preview : pv[i] = c.seen.preview[j]
        /\ \A i, j \in DOMAIN pv : i # j => pv[i] # pv[j]
    BY <1>4, <2>3, <2>4, PreviewGrows DEF Pictures
  <2>. HIDE DEF pv
  <2>b. b = Counted(batch, pv, n) /\ batch \in BatchRows
    BY <2>1 DEF Counted
  <2>. HIDE DEF b
  <2>6. b \in BatchRows /\ b.total = batch.total + 1 /\ b.preview = pv /\ b.latest = n
    BY <2>5, <2>b, BatchCounts
  <2>7. Pictures(next, pv)
    <3>1. ASSUME NEW i \in DOMAIN pv PROVE \E o \in GroupOf(next) : next[o].actor = pv[i]
      <4>1. CASE pv[i] = c.actor
        BY <1>5, <4>1
      <4>2. CASE \E j \in DOMAIN c.seen.preview : pv[i] = c.seen.preview[j]
        <5>1. PICK o \in GroupOf(notice) : notice[o].actor = pv[i]
          BY <2>4, <4>2 DEF Pictures
        <5>. QED
          BY <1>1, <5>1
      <4>. QED
        BY <2>5, <4>1, <4>2
    <3>. QED
      BY <2>5, <3>1 DEF Pictures
  <2>8. batch.total <= Cardinality(GroupOf(notice))
    BY <1>7 DEF Honest
  <2>9. b.total <= Cardinality(GroupOf(next))
    BY <1>3, <2>3, <2>6, <2>8
  <2>10. Honest(next, b)
    BY <1>5, <2>6, <2>7, <2>9 DEF Honest
  <2>. QED
    BY <2>2, <2>6, <2>10
<1>. QED
  BY <1>6, <1>7

\* A commit keeps the invariant.
LEMMA CommitKeeps == ASSUME NoticeInv, NEW h \in Happenings, Commit(h) PROVE NoticeInv'
<1>1. /\ NoticeTypeOK /\ KeysFine /\ Ordered(creating, notice, delivery)
      /\ Honest(notice, batch) /\ Held(creating, notice, batch)
  BY InvNow
<1>. DEFINE c == creating[h]
            n == Key(h)
            r == [state |-> "there", actor |-> c.actor, muted |-> c.quiet,
                  flags |-> IF c.quiet THEN Channels ELSE {}]
<1>2. (c.at = "written" /\ ~c.inside) \/ c.at = "queued"
  BY DEF Commit
<1>3. c \in BusyCalls
  BY <1>1, <1>2, KeyOf, CreationShape DEF BusyStages
<1>4. UNCHANGED <<muted, channels, delivery, pushed, repeats, noticeLosses, inboxCalls>>
  BY DEF Commit
<1>5. PICK d : /\ Goes(h, d) /\ d \in Creations /\ d.try = c.try
               /\ d.at \in {"done", "committed"} /\ Placed(d)
               /\ d.at = "committed" => c.at = "written"
  <2>1. CASE c.inside
    <3>. DEFINE d == [at |-> "done", try |-> c.try]
    <3>1. Goes(h, d)
      BY <2>1 DEF Commit
    <3>2. d \in Creations /\ Placed(d)
      BY <1>1, KeyOf DEF Creations, Placed
    <3>. QED
      BY <3>1, <3>2
  <2>2. CASE ~c.inside
    <3>. DEFINE d == [c EXCEPT !.at = "committed"]
    <3>1. Goes(h, d)
      BY <2>2 DEF Commit
    <3>2. d \in Creations /\ d.at = "committed" /\ d.try = c.try /\ d.inside = c.inside
      BY <1>3, BusyFields DEF BusyStages
    <3>3. Placed(d)
      BY <2>2, <3>2 DEF Placed
    <3>4. c.at = "written"
      BY <1>1, <1>2, <2>2 DEF Ordered, Placed
    <3>. HIDE DEF d
    <3>. QED
      BY <3>1, <3>2, <3>3, <3>4
  <2>. QED
    BY <2>1, <2>2
<1>6. /\ creating' \in [Happenings -> Creations] /\ creating'[h] = d
      /\ \A o \in Happenings \ {h} : creating'[o] = creating[o]
  BY <1>1, <1>5, GoesNext DEF NoticeTypeOK
<1>7. n \in Keys /\ n[1] = h /\ n[2] = c.try
  BY <1>1, KeyOf
<1>8. notice[n] = NoNotice
  <2>1. Early(creating, n, {"new", "checked", "written", "queued"})
    BY <1>2, <1>7 DEF Early
  <2>. QED
    BY <1>1, <1>7, <2>1 DEF Ordered
<1>9. /\ r \in NoticeRows /\ r.state = "there" /\ r.actor = c.actor /\ r.muted = c.quiet
      /\ r.flags = (IF r.muted THEN Channels ELSE {}) /\ r # NoNotice
  <2>1. r \in NoticeRows
    BY <1>3, BusyFields DEF NoticeRows
  <2>. QED
    BY <2>1, NothingApart
<1>10. notice' = [notice EXCEPT ![n] = r]
  BY DEF Commit
<1>. HIDE DEF r
<1>11. /\ notice' \in [Keys -> NoticeRows \cup {NoNotice}] /\ notice'[n] = r
       /\ \A o \in Keys \ {n} : notice'[o] = notice[o]
  BY <1>1, <1>7, <1>9, <1>10 DEF NoticeTypeOK
<1>12. \A o \in Keys : KeyFine(notice'[o], delivery'[o], pushed'[o], repeats'[o])
  <2>1. ASSUME NEW o \in Keys PROVE KeyFine(notice'[o], delivery[o], pushed[o], repeats[o])
    <3>1. KeyFine(notice[o], delivery[o], pushed[o], repeats[o])
      BY <1>1 DEF KeysFine
    <3>2. pushed[o] \in [Channels -> Nat] /\ repeats[o] \in [Channels -> Nat]
      BY <1>1 DEF NoticeTypeOK
    <3>3. CASE o = n
      <4>1. KeyFine(NoNotice, delivery[o], pushed[o], repeats[o])
        BY <1>8, <3>1, <3>3
      <4>2. KeyFine(r, delivery[o], pushed[o], repeats[o])
        BY <1>9, <3>2, <4>1, CommitFine
      <4>. QED
        BY <1>11, <3>3, <4>2
    <3>4. CASE o # n
      BY <1>11, <3>1, <3>4
    <3>. QED
      BY <3>3, <3>4
  <2>. QED
    BY <1>4, <2>1
<1>13. Ordered(creating', notice', delivery)
  <2>1. ASSUME NEW o \in Keys, o[1] # h PROVE notice[o] = NoNotice => notice'[o] = NoNotice
    BY <1>7, <1>11, <2>1
  <2>2. ASSUME NEW o \in Keys, o[1] = h
        PROVE  /\ Early(creating', o, {"new", "checked", "written", "queued"}) => notice'[o] = NoNotice
               /\ Early(creating', o, {"new", "checked", "written", "committed"}) => delivery[o] = NotQueued
    <3>1. o[2] \in Nat /\ c.try \in 1 .. MaxTries
      BY <1>1, KeyOf
    <3>2. Early(creating', o, {"new", "checked", "written", "queued"}) => o[2] > c.try
      BY <1>5, <1>6, <2>2 DEF Early
    <3>3. o[2] > c.try => o # n /\ notice[o] = NoNotice
      <4>1. o[2] > c.try => Early(creating, o, {"new", "checked", "written", "queued"})
        BY <2>2 DEF Early
      <4>2. o[2] > c.try => o[2] # n[2]
        BY <1>7, <3>1
      <4>. QED
        BY <1>1, <4>1, <4>2 DEF Ordered
    <3>4. Early(creating', o, {"new", "checked", "written", "committed"}) => Early(creating, o, {"new", "checked", "written", "committed"})
      BY <1>5, <1>6, <2>2 DEF Early
    <3>5. o # n => notice'[o] = notice[o]
      BY <1>11
    <3>. QED
      BY <1>1, <3>2, <3>3, <3>4, <3>5 DEF Ordered
  <2>. QED
    BY <1>1, <1>5, <1>6, <2>1, <2>2, OrderMoves
<1>14. batch' = IF c.quiet THEN batch ELSE Upsert(c, n)
  BY DEF Commit
<1>. HIDE DEF n
<1>15. ~Holds(d) /\ ~Knows(d)
  BY <1>5 DEF Holds, Knows
<1>16. CASE c.quiet
  <2>1. GroupOf(notice') = GroupOf(notice)
    BY <1>7, <1>8, <1>9, <1>11, <1>16 DEF GroupOf
  <2>2. \A o \in GroupOf(notice) : notice'[o] = notice[o]
    BY <1>8, <1>11 DEF GroupOf
  <2>3. \A pv : Pictures(notice, pv) => Pictures(notice', pv)
    BY <2>1, <2>2 DEF Pictures
  <2>4. batch' = batch
    BY <1>14, <1>16
  <2>5. Honest(notice', batch)
    BY <1>1, <2>1, <2>2, <2>3 DEF Honest
  <2>6. Held(creating', notice', batch)
    BY <1>1, <1>6, <1>15, <2>3, HeldMoves
  <2>7. NoticeTypeOK'
    BY <1>1, <1>4, <1>6, <1>11, <2>4 DEF NoticeTypeOK
  <2>8. delivery' = delivery
    BY <1>4
  <2>. QED
    BY <1>12, <1>13, <2>4, <2>5, <2>6, <2>7, <2>8, InvNext
<1>17. CASE ~c.quiet
  <2>1. Holds(c)
    BY <1>2, <1>17 DEF Holds
  <2>2. Same(batch, c.seen) /\ \A o \in Happenings : Holds(creating[o]) => o = h
    BY <1>1, <2>1 DEF Held
  <2>3. c.seen # NoBatch => Pictures(notice, c.seen.preview)
    BY <1>1, <1>2 DEF Held, Knows
  <2>4. ~r.muted
    BY <1>9, <1>17
  <2>5. Upsert(c, n) \in BatchRows /\ Honest(notice', Upsert(c, n))
    BY <1>1, <1>3, <1>7, <1>8, <1>9, <1>11, <2>2, <2>3, <2>4, UpsertFits
  <2>6. batch' = Upsert(c, n)
    BY <1>14, <1>17
  <2>7. NoticeTypeOK'
    BY <1>1, <1>4, <1>6, <1>11, <2>5, <2>6 DEF NoticeTypeOK
  <2>8. \A o \in Happenings : ~Holds(creating'[o])
    BY <1>6, <1>15, <2>2
  <2>9. ASSUME NEW o \in Happenings, Knows(creating'[o]) PROVE Pictures(notice', creating'[o].seen.preview)
    <3>1. o # h /\ creating'[o] = creating[o]
      BY <1>6, <1>15, <2>9
    <3>2. Pictures(notice, creating'[o].seen.preview)
      BY <1>1, <2>9, <3>1 DEF Held
    <3>3. \A k \in GroupOf(notice) : k \in GroupOf(notice') /\ notice'[k].actor = notice[k].actor
      BY <1>8, <1>11 DEF GroupOf
    <3>. QED
      BY <3>2, <3>3 DEF Pictures
  <2>10. Held(creating', notice', batch')
    BY <2>8, <2>9 DEF Held
  <2>11. delivery' = delivery
    BY <1>4
  <2>. QED
    BY <1>12, <1>13, <2>5, <2>6, <2>7, <2>10, <2>11, InvNext
<1>. QED
  BY <1>16, <1>17

-----------------------------------------------------------------------------
(* A dispatch, and the recipient *)

\* A step that moves one key's dispatch, and at most flags its row.
LEMMA DispatchKeeps ==
  ASSUME NoticeInv, NEW n \in Keys, UNCHANGED <<creating, batch, muted, channels, inboxCalls>>,
         noticeLosses' \in 0 .. MaxNoticeLosses,
         NEW d \in Deliveries, delivery' = [delivery EXCEPT ![n] = d], delivery[n] # NotQueued,
         notice' \in [Keys -> NoticeRows \cup {NoNotice}],
         pushed' \in [Keys -> [Channels -> Nat]], repeats' \in [Keys -> [Channels -> Nat]],
         \A o \in Keys \ {n} : notice'[o] = notice[o] /\ pushed'[o] = pushed[o] /\ repeats'[o] = repeats[o],
         Kept(notice, notice'), notice[n] # NoNotice => notice'[n].state = notice[n].state,
         KeyFine(notice'[n], d, pushed'[n], repeats'[n])
  PROVE  NoticeInv'
<1>1. /\ NoticeTypeOK /\ KeysFine /\ Ordered(creating, notice, delivery)
      /\ Honest(notice, batch) /\ Held(creating, notice, batch)
  BY InvNow
<1>2. /\ delivery' \in [Keys -> Deliveries] /\ delivery'[n] = d
      /\ \A o \in Keys \ {n} : delivery'[o] = delivery[o]
  BY <1>1, AtNext DEF NoticeTypeOK
<1>3. NoticeTypeOK'
  BY <1>1, <1>2 DEF NoticeTypeOK
<1>4. \A o \in Keys : KeyFine(notice'[o], delivery'[o], pushed'[o], repeats'[o])
  <2>1. ASSUME NEW o \in Keys, o # n PROVE KeyFine(notice'[o], delivery'[o], pushed'[o], repeats'[o])
    <3>1. KeyFine(notice[o], delivery[o], pushed[o], repeats[o])
      BY <1>1 DEF KeysFine
    <3>. QED
      BY <1>2, <2>1, <3>1
  <2>. QED
    BY <1>2, <2>1
<1>5. Ordered(creating, notice', delivery')
  <2>1. \A o \in Keys : (notice[o] = NoNotice => notice'[o] = NoNotice) /\ (delivery[o] = NotQueued => delivery'[o] = NotQueued)
    BY <1>2 DEF Kept
  <2>. QED
    BY <1>1, <2>1 DEF Ordered
<1>6. Honest(notice', batch)
  <2>1. batch # NoBatch => batch.latest \in Keys /\ notice[batch.latest] # NoNotice
    BY <1>1 DEF Honest, GroupOf
  <2>2. batch # NoBatch /\ notice[batch.latest].state # "erased" => notice'[batch.latest].state # "erased"
    BY <2>1
  <2>. QED
    BY <1>1, <2>2, HonestKept
<1>7. Held(creating, notice', batch)
  BY <1>1, KeptShown, HeldStays
<1>8. creating' = creating /\ batch' = batch
  OBVIOUS
<1>. QED
  BY <1>3, <1>4, <1>5, <1>6, <1>7, <1>8, InvNext

\* What a dispatch on its way is known by.
LEMMA KeyNow ==
  ASSUME NoticeInv, NEW n \in Keys
  PROVE  /\ notice[n] \in NoticeRows \cup {NoNotice} /\ delivery[n] \in Deliveries
         /\ pushed[n] \in [Channels -> Nat] /\ repeats[n] \in [Channels -> Nat]
         /\ KeyFine(notice[n], delivery[n], pushed[n], repeats[n])
         /\ delivery[n].at \in Channels => delivery[n] \in OnTheWay /\ delivery[n] # NotQueued /\ notice[n] # NoNotice
         /\ notice \in [Keys -> NoticeRows \cup {NoNotice}]
         /\ pushed \in [Keys -> [Channels -> Nat]] /\ repeats \in [Keys -> [Channels -> Nat]]
         /\ noticeLosses \in 0 .. MaxNoticeLosses /\ Kept(notice, notice)
<1>1. NoticeTypeOK /\ KeysFine
  BY InvNow
<1>2. KeyFine(notice[n], delivery[n], pushed[n], repeats[n])
  BY <1>1 DEF KeysFine
<1>3. delivery[n] \in Deliveries
  BY <1>1 DEF NoticeTypeOK
<1>4. delivery[n].at \in Channels => delivery[n] \in OnTheWay /\ delivery[n] # NotQueued /\ notice[n] # NoNotice
  <2>1. "none" \notin Channels
    BY DEF Channels
  <2>. QED
    BY <1>2, <1>3, <2>1, DeliveryShape, RestDeliveries DEF KeyFine
<1>. QED
  BY <1>1, <1>2, <1>3, <1>4 DEF NoticeTypeOK, Kept

\* A dispatch that reads its row keeps it.
LEMMA LoadKeeps == ASSUME NoticeInv, NEW n \in Keys, Load(n) PROVE NoticeInv'
<1>1. /\ delivery[n] = [at |-> "queued"] /\ UNCHANGED <<notice, pushed, repeats, noticeLosses>>
      /\ UNCHANGED <<creating, batch, muted, channels, inboxCalls>>
  BY DEF Load, Stays
<1>2. /\ notice[n] \in NoticeRows \cup {NoNotice} /\ delivery[n] \in Deliveries
      /\ pushed[n] \in [Channels -> Nat] /\ repeats[n] \in [Channels -> Nat]
      /\ KeyFine(notice[n], delivery[n], pushed[n], repeats[n])
      /\ notice \in [Keys -> NoticeRows \cup {NoNotice}]
      /\ pushed \in [Keys -> [Channels -> Nat]] /\ repeats \in [Keys -> [Channels -> Nat]]
      /\ noticeLosses \in 0 .. MaxNoticeLosses /\ Kept(notice, notice)
  BY KeyNow
<1>3. delivery[n] # NotQueued /\ delivery[n].at \notin Channels
  BY <1>1, RestDeliveries DEF Channels
<1>4. CASE WrittenFor(n)
  <2>. DEFINE d == [at |-> "ws", stage |-> "send", flags |-> notice[n].flags, on |-> channels]
  <2>1. delivery' = [delivery EXCEPT ![n] = d]
    BY <1>4 DEF Load, At
  <2>2. notice[n] \in NoticeRows /\ notice[n].state # "erased"
    BY <1>2, <1>4 DEF WrittenFor
  <2>3. KeyFine(notice[n], d, pushed[n], repeats[n])
    BY <1>2, <1>3, <2>2, LoadFine
  <2>4. d \in Deliveries
    <3>1. channels \in SUBSET Channels
      BY InvNow DEF NoticeTypeOK
    <3>2. notice[n].flags \in SUBSET Channels
      BY <2>2 DEF NoticeRows
    <3>3. d \in OnTheWay
      BY <3>1, <3>2 DEF OnTheWay
    <3>. QED
      BY <3>3, WayFields
  <2>. HIDE DEF d
  <2>5. /\ notice' = notice /\ pushed' = pushed /\ repeats' = repeats /\ noticeLosses' = noticeLosses
    BY <1>1
  <2>. QED
    BY <1>1, <1>2, <1>3, <2>1, <2>3, <2>4, <2>5, DispatchKeeps
<1>5. CASE ~WrittenFor(n)
  <2>. DEFINE d == [at |-> "over"]
  <2>1. delivery' = [delivery EXCEPT ![n] = d]
    BY <1>5 DEF Load, At
  <2>2. d \in Deliveries /\ d.at \notin Channels
    BY RestDeliveries DEF Channels
  <2>3. KeyFine(notice[n], d, pushed[n], repeats[n])
    BY <1>2, <1>3, <2>2, RestFine
  <2>. HIDE DEF d
  <2>4. /\ notice' = notice /\ pushed' = pushed /\ repeats' = repeats /\ noticeLosses' = noticeLosses
    BY <1>1
  <2>. QED
    BY <1>1, <1>2, <1>3, <2>1, <2>2, <2>3, <2>4, DispatchKeeps
<1>. QED
  BY <1>4, <1>5

\* Sending keeps it.
LEMMA SendKeeps == ASSUME NoticeInv, NEW n \in Keys, Send(n) PROVE NoticeInv'
<1>1. /\ delivery[n].at \in Channels /\ delivery[n].stage = "send" /\ UNCHANGED <<notice, repeats, noticeLosses>>
      /\ UNCHANGED <<creating, batch, muted, channels, inboxCalls>>
  BY DEF Send, Stays
<1>2. /\ notice[n] \in NoticeRows \cup {NoNotice} /\ delivery[n] \in OnTheWay /\ delivery[n] # NotQueued
      /\ pushed[n] \in [Channels -> Nat] /\ repeats[n] \in [Channels -> Nat]
      /\ KeyFine(notice[n], delivery[n], pushed[n], repeats[n])
      /\ notice \in [Keys -> NoticeRows \cup {NoNotice}]
      /\ pushed \in [Keys -> [Channels -> Nat]] /\ repeats \in [Keys -> [Channels -> Nat]]
      /\ noticeLosses \in 0 .. MaxNoticeLosses /\ Kept(notice, notice)
  BY <1>1, KeyNow
<1>3. /\ notice' = notice /\ repeats' = repeats /\ noticeLosses' = noticeLosses
  BY <1>1
<1>4. CASE Wanted(n)
  <2>. DEFINE d == Recorded(delivery[n])
              s == OneMore(pushed[n], delivery[n].at)
  <2>1. delivery' = [delivery EXCEPT ![n] = d]
    BY <1>4 DEF Send, At, Recorded
  <2>2. pushed' = [pushed EXCEPT ![n] = s]
    BY <1>2, <1>4 DEF Send, OneMore
  <2>5. d = Recorded(delivery[n]) /\ s = OneMore(pushed[n], delivery[n].at)
    OBVIOUS
  <2>. HIDE DEF d, s
  <2>6. delivery[n].at \in delivery[n].on \ delivery[n].flags
    BY <1>4 DEF Wanted
  <2>3. KeyFine(notice[n], d, s, repeats[n]) /\ d \in Deliveries /\ s \in [Channels -> Nat]
    <3>. DEFINE r == notice[n]
                w == delivery[n]
                p == pushed[n]
                q == repeats[n]
    <3>1. /\ r \in NoticeRows \cup {NoNotice} /\ w \in OnTheWay /\ p \in [Channels -> Nat] /\ q \in [Channels -> Nat]
          /\ KeyFine(r, w, p, q) /\ w.stage = "send" /\ w.at \in w.on \ w.flags
          /\ s = OneMore(p, w.at) /\ d = Recorded(w)
      BY <1>1, <1>2, <2>5, <2>6
    <3>. HIDE DEF r, w, p, q
    <3>2. KeyFine(r, d, s, q) /\ d \in Deliveries /\ s \in [Channels -> Nat]
      BY <3>1, SendFine
    <3>. QED
      BY <3>2 DEF r, q
  <2>4. pushed' \in [Keys -> [Channels -> Nat]] /\ pushed'[n] = s /\ \A o \in Keys \ {n} : pushed'[o] = pushed[o]
    BY <1>2, <2>2, <2>3
  <2>. QED
    BY <1>1, <1>2, <1>3, <2>1, <2>3, <2>4, DispatchKeeps
<1>5. CASE ~Wanted(n)
  <2>. DEFINE d == NextWay(delivery[n])
  <2>1. delivery' = [delivery EXCEPT ![n] = d]
    BY <1>5 DEF Send, At, Onward, NextWay
  <2>2. pushed' = pushed
    BY <1>5 DEF Send
  <2>3. KeyFine(notice[n], d, pushed[n], repeats[n]) /\ d \in Deliveries
    BY <1>1, <1>2, <1>5, OnwardFine DEF Wanted
  <2>. HIDE DEF d
  <2>. QED
    BY <1>1, <1>2, <1>3, <2>1, <2>2, <2>3, DispatchKeeps
<1>. QED
  BY <1>4, <1>5

\* Recording what was sent keeps it.
LEMMA RecordKeeps == ASSUME NoticeInv, NEW n \in Keys, Record(n) PROVE NoticeInv'
<1>1. /\ delivery[n].at \in Channels /\ delivery[n].stage = "record" /\ UNCHANGED <<pushed, repeats, noticeLosses>>
      /\ UNCHANGED <<creating, batch, muted, channels, inboxCalls>>
  BY DEF Record, Stays
<1>2. /\ notice[n] \in NoticeRows \cup {NoNotice} /\ delivery[n] \in OnTheWay /\ delivery[n] # NotQueued
      /\ pushed[n] \in [Channels -> Nat] /\ repeats[n] \in [Channels -> Nat] /\ notice[n] # NoNotice
      /\ KeyFine(notice[n], delivery[n], pushed[n], repeats[n])
      /\ notice \in [Keys -> NoticeRows \cup {NoNotice}]
      /\ pushed \in [Keys -> [Channels -> Nat]] /\ repeats \in [Keys -> [Channels -> Nat]]
      /\ noticeLosses \in 0 .. MaxNoticeLosses /\ Kept(notice, notice)
  BY <1>1, KeyNow
<1>3. /\ pushed' = pushed /\ repeats' = repeats /\ noticeLosses' = noticeLosses
  BY <1>1
<1>. DEFINE d == NextWay(delivery[n])
<1>4. delivery' = [delivery EXCEPT ![n] = d]
  BY DEF Record, At, Onward, NextWay
<1>5. CASE WrittenFor(n)
  <2>. DEFINE r == Flagged(notice[n], delivery[n].at)
  <2>1. notice' = [notice EXCEPT ![n] = r]
    BY <1>2, <1>5 DEF Record, Flagged
  <2>2. notice[n] \in NoticeRows
    BY <1>2
  <2>3. /\ KeyFine(r, delivery[n], pushed[n], repeats[n]) /\ r \in NoticeRows /\ delivery[n].at \in r.flags
        /\ r.state = notice[n].state /\ r.muted = notice[n].muted /\ r.actor = notice[n].actor
    BY <1>1, <1>2, <2>2, FlagFine
  <2>. HIDE DEF r
  <2>4. KeyFine(r, d, pushed[n], repeats[n]) /\ d \in Deliveries
    BY <1>1, <1>2, <2>3, OnwardFine
  <2>. HIDE DEF d
  <2>5. /\ notice' \in [Keys -> NoticeRows \cup {NoNotice}] /\ notice'[n] = r
        /\ \A o \in Keys \ {n} : notice'[o] = notice[o]
    BY <1>2, <2>1, <2>3
  <2>6. Kept(notice, notice')
    BY <1>2, <2>3, <2>5, NothingApart DEF Kept
  <2>. QED
    BY <1>1, <1>2, <1>3, <1>4, <2>3, <2>4, <2>5, <2>6, DispatchKeeps
<1>6. CASE ~WrittenFor(n)
  <2>1. notice' = notice
    BY <1>6 DEF Record
  <2>2. notice[n].state = "erased"
    BY <1>2, <1>6 DEF WrittenFor
  <2>3. KeyFine(notice[n], d, pushed[n], repeats[n]) /\ d \in Deliveries
    BY <1>1, <1>2, <2>2, OnwardFine
  <2>. HIDE DEF d
  <2>. QED
    BY <1>1, <1>2, <1>3, <1>4, <2>1, <2>3, DispatchKeeps
<1>. QED
  BY <1>5, <1>6

\* A worker lost while dispatching keeps it.
LEMMA DispatcherLostKeeps == ASSUME NoticeInv, NEW n \in Keys, DispatcherLost(n) PROVE NoticeInv'
<1>1. /\ delivery[n].at \in Channels /\ UNCHANGED <<notice, pushed>>
      /\ UNCHANGED <<creating, batch, muted, channels, inboxCalls>>
  BY DEF DispatcherLost, Stays
<1>2. /\ notice[n] \in NoticeRows \cup {NoNotice} /\ delivery[n] \in OnTheWay /\ delivery[n] # NotQueued
      /\ pushed[n] \in [Channels -> Nat] /\ repeats[n] \in [Channels -> Nat]
      /\ KeyFine(notice[n], delivery[n], pushed[n], repeats[n])
      /\ notice \in [Keys -> NoticeRows \cup {NoNotice}]
      /\ pushed \in [Keys -> [Channels -> Nat]] /\ repeats \in [Keys -> [Channels -> Nat]]
      /\ noticeLosses \in 0 .. MaxNoticeLosses /\ Kept(notice, notice)
  BY <1>1, KeyNow
<1>3. /\ notice' = notice /\ pushed' = pushed
  BY <1>1
<1>4. noticeLosses' \in 0 .. MaxNoticeLosses
  BY <1>2, NoticeBounds DEF DispatcherLost
<1>. DEFINE d == [at |-> "queued"]
            q == IF delivery[n].stage = "record" THEN OneMore(repeats[n], delivery[n].at) ELSE repeats[n]
<1>5. delivery' = [delivery EXCEPT ![n] = d] /\ d \in Deliveries
  BY RestDeliveries DEF DispatcherLost, At
<1>9. d = [at |-> "queued"] /\ q = IF delivery[n].stage = "record" THEN OneMore(repeats[n], delivery[n].at) ELSE repeats[n]
  OBVIOUS
<1>. HIDE DEF d, q
<1>6. KeyFine(notice[n], d, pushed[n], q) /\ q \in [Channels -> Nat]
  <2>. DEFINE r == notice[n]
              w == delivery[n]
              p == pushed[n]
              z == repeats[n]
  <2>1. /\ r \in NoticeRows \cup {NoNotice} /\ w \in OnTheWay /\ p \in [Channels -> Nat] /\ z \in [Channels -> Nat]
        /\ KeyFine(r, w, p, z) /\ d = [at |-> "queued"] /\ q = IF w.stage = "record" THEN OneMore(z, w.at) ELSE z
    BY <1>2, <1>9
  <2>. HIDE DEF r, w, p, z
  <2>2. KeyFine(r, d, p, q) /\ q \in [Channels -> Nat]
    BY <2>1, LostFine
  <2>. QED
    BY <2>2 DEF r, p
<1>7. repeats' = [repeats EXCEPT ![n] = q]
  <2>. USE DEF q
  <2>1. CASE delivery[n].stage = "record"
    <3>1. repeats' = [repeats EXCEPT ![n][delivery[n].at] = @ + 1]
      BY <2>1 DEF DispatcherLost
    <3>2. q = [repeats[n] EXCEPT ![delivery[n].at] = @ + 1]
      BY <2>1 DEF OneMore
    <3>. QED
      BY <1>2, <3>1, <3>2
  <2>2. CASE delivery[n].stage # "record"
    BY <1>2, <2>2 DEF DispatcherLost
  <2>. QED
    BY <2>1, <2>2
<1>8. repeats' \in [Keys -> [Channels -> Nat]] /\ repeats'[n] = q /\ \A o \in Keys \ {n} : repeats'[o] = repeats[o]
  BY <1>2, <1>6, <1>7
<1>. QED
  BY <1>1, <1>2, <1>3, <1>4, <1>5, <1>6, <1>8, DispatchKeeps

\* A call of the recipient that touches no row.
LEMMA QuietKeeps ==
  ASSUME NoticeInv, UNCHANGED <<notice, batch, creating, delivery, pushed, repeats>>,
         NoticeTypeOK'
  PROVE  NoticeInv'
<1>1. /\ NoticeTypeOK /\ KeysFine /\ Ordered(creating, notice, delivery)
      /\ Honest(notice, batch) /\ Held(creating, notice, batch)
  BY InvNow
<1>2. /\ notice' = notice /\ batch' = batch /\ creating' = creating /\ delivery' = delivery
      /\ pushed' = pushed /\ repeats' = repeats
  OBVIOUS
<1>. QED
  BY <1>1, <1>2, InvNext DEF KeysFine

\* A call of the recipient keeps the types.
LEMMA InboxTyped ==
  ASSUME NoticeTypeOK, Inbox, muted' \subseteq NoticeActors, channels' \subseteq Channels,
         notice' \in [Keys -> NoticeRows \cup {NoNotice}], batch' \in BatchRows \cup {NoBatch}
  PROVE  NoticeTypeOK'
<1>1. inboxCalls' \in 0 .. MaxInboxCalls
  BY NoticeBounds DEF NoticeTypeOK, Inbox
<1>. QED
  BY <1>1 DEF NoticeTypeOK, Inbox

\* Mutes and preferences keep the invariant.
LEMMA PreferKeeps ==
  ASSUME NoticeInv, \/ \E a \in NoticeActors : Mute(a) \/ Unmute(a)
                    \/ \E on \in SUBSET Channels : Prefer(on)
  PROVE  NoticeInv'
<1>1. NoticeTypeOK
  BY InvNow
<1>2. Inbox /\ notice' = notice /\ batch' = batch
  BY DEF Mute, Unmute, Prefer
<1>3. muted' \subseteq NoticeActors /\ channels' \subseteq Channels
  BY <1>1 DEF Mute, Unmute, Prefer, NoticeTypeOK
<1>4. NoticeTypeOK'
  BY <1>1, <1>2, <1>3, InboxTyped DEF NoticeTypeOK
<1>. QED
  BY <1>2, <1>4, QuietKeeps DEF Inbox

\* Rows are hidden or erased.
LEMMA StateKeeps ==
  ASSUME NoticeInv, Inbox, UNCHANGED <<muted, channels>>, NEW gone \in SUBSET Shown, NEW state \in {"hidden", "erased"},
         notice' = [n \in Keys |-> IF n \in gone THEN Became(notice[n], state) ELSE notice[n]],
         batch' = batch \/ batch' = NoBatch,
         state = "erased" /\ batch' = batch => batch = NoBatch \/ batch.latest \notin gone,
         batch' # batch => Holding = {}
  PROVE  NoticeInv'
<1>1. /\ NoticeTypeOK /\ KeysFine /\ Ordered(creating, notice, delivery)
      /\ Honest(notice, batch) /\ Held(creating, notice, batch)
  BY InvNow
<1>2. ASSUME NEW n \in gone
      PROVE  /\ n \in Keys /\ notice[n] \in NoticeRows /\ notice[n] # NoNotice /\ notice[n].state # "erased"
             /\ notice'[n] = Became(notice[n], state)
  BY <1>1, <1>2 DEF Shown, NoticeTypeOK
<1>3. ASSUME NEW n \in Keys
      PROVE  /\ pushed[n] \in [Channels -> Nat] /\ repeats[n] \in [Channels -> Nat]
             /\ KeyFine(notice[n], delivery[n], pushed[n], repeats[n])
  BY <1>1, <1>3 DEF NoticeTypeOK, KeysFine
<1>4. ASSUME NEW n \in gone
      PROVE  /\ KeyFine(notice'[n], delivery[n], pushed[n], repeats[n]) /\ notice'[n] \in NoticeRows /\ notice'[n] # NoNotice
             /\ notice'[n].state = state /\ notice'[n].muted = notice[n].muted /\ notice'[n].actor = notice[n].actor
  <2>. DEFINE r == notice[n]
              s == notice'[n]
  <2>1. r \in NoticeRows /\ r.state # "erased" /\ s = Became(r, state)
    BY <1>2, <1>4
  <2>2. KeyFine(r, delivery[n], pushed[n], repeats[n]) /\ pushed[n] \in [Channels -> Nat] /\ repeats[n] \in [Channels -> Nat]
    BY <1>2, <1>3, <1>4
  <2>. HIDE DEF r, s
  <2>3. /\ KeyFine(s, delivery[n], pushed[n], repeats[n]) /\ s \in NoticeRows
        /\ s.state = state /\ s.muted = r.muted /\ s.actor = r.actor
    BY <2>1, <2>2, StateFine
  <2>. QED
    BY <2>3, NothingApart DEF r, s
<1>5. \A n \in Keys \ gone : notice'[n] = notice[n]
  OBVIOUS
<1>6. /\ notice' \in [Keys -> NoticeRows \cup {NoNotice}] /\ Kept(notice, notice')
  <2>1. \A n \in Keys : notice'[n] \in NoticeRows \cup {NoNotice}
    BY <1>1, <1>4, <1>5 DEF NoticeTypeOK
  <2>2. Kept(notice, notice')
    BY <1>2, <1>4, <1>5 DEF Kept
  <2>. QED
    BY <2>1, <2>2
<1>7. creating' = creating /\ delivery' = delivery /\ pushed' = pushed /\ repeats' = repeats
  BY DEF Inbox
<1>8. NoticeTypeOK'
  BY <1>1, <1>6, InboxTyped DEF NoticeTypeOK
<1>9. \A n \in Keys : KeyFine(notice'[n], delivery'[n], pushed'[n], repeats'[n])
  <2>1. \A n \in Keys : KeyFine(notice'[n], delivery[n], pushed[n], repeats[n])
    BY <1>3, <1>4, <1>5
  <2>. QED
    BY <1>7, <2>1
<1>10. Ordered(creating, notice', delivery)
  BY <1>1, <1>6 DEF Ordered, Kept
<1>11. Honest(notice', batch')
  <2>1. CASE batch' = batch
    <3>1. batch # NoBatch => batch.latest \in Keys
      BY <1>1 DEF Honest, GroupOf
    <3>2. batch # NoBatch /\ notice[batch.latest].state # "erased" => notice'[batch.latest].state # "erased"
      <4>1. CASE batch # NoBatch /\ batch.latest \in gone
        <5>1. state = "hidden"
          BY <2>1, <4>1
        <5>2. notice'[batch.latest].state = "hidden"
          BY <1>4, <4>1, <5>1
        <5>. QED
          BY <5>2
      <4>2. CASE batch # NoBatch /\ batch.latest \notin gone
        BY <1>5, <3>1, <4>2
      <4>. QED
        BY <4>1, <4>2
    <3>3. Honest(notice', batch)
      BY <1>1, <1>6, <3>2, HonestKept
    <3>. QED
      BY <2>1, <3>3
  <2>2. CASE batch' = NoBatch
    BY <2>2 DEF Honest
  <2>. QED
    BY <2>1, <2>2
<1>12. Held(creating, notice', batch')
  <2>1. Held(creating, notice', batch)
    BY <1>1, <1>6, KeptShown, HeldStays
  <2>2. CASE batch' = batch
    BY <2>1, <2>2
  <2>3. CASE batch' # batch
    <3>1. \A h \in Happenings : ~Holds(creating[h])
      BY <2>3 DEF Holding, Holds
    <3>. QED
      BY <2>1, <3>1 DEF Held
  <2>. QED
    BY <2>2, <2>3
<1>. QED
  BY <1>7, <1>8, <1>9, <1>10, <1>11, <1>12, InvNext

\* Hiding a notification keeps it.
LEMMA HideKeeps == ASSUME NoticeInv, NEW n \in Keys, Hide(n) PROVE NoticeInv'
<1>1. notice \in [Keys -> NoticeRows \cup {NoNotice}]
  BY InvNow DEF NoticeTypeOK
<1>2. notice' = [o \in Keys |-> IF o \in {n} THEN Became(notice[o], "hidden") ELSE notice[o]]
  BY <1>1 DEF Hide, Became
<1>3. {n} \in SUBSET Shown
  BY DEF Hide, Shown
<1>4. Inbox /\ UNCHANGED <<muted, channels>> /\ batch' = batch
  BY DEF Hide
<1>. QED
  BY <1>2, <1>3, <1>4, StateKeeps

\* Erasing all keeps it.
LEMMA EraseKeeps == ASSUME NoticeInv, EraseAll PROVE NoticeInv'
<1>1. notice' = [o \in Keys |-> IF o \in Shown THEN Became(notice[o], "erased") ELSE notice[o]]
  BY DEF EraseAll, Became
<1>2. Inbox /\ UNCHANGED <<muted, channels>> /\ Holding = {}
  BY DEF EraseAll
<1>3. /\ batch' = batch \/ batch' = NoBatch
      /\ batch' = batch => batch = NoBatch \/ batch.latest \notin Shown
  BY DEF EraseAll
<1>. QED
  BY <1>1, <1>2, <1>3, StateKeeps

\* Each notification goes out over a channel once, and once more for every
\* worker lost before it recorded so; only committed ones are announced, the
\* flags are true and the batch shows and counts what was written
\* (NotificationService.create, dispatch_notification and the inbox views).
THEOREM NoticesHold == NoticeSpec => []NoticeInv
<1>1. NoticeInv /\ [NoticeNext]_noticeVars => NoticeInv'
  <2>. SUFFICES ASSUME NoticeInv, [NoticeNext]_noticeVars PROVE NoticeInv'
    OBVIOUS
  <2>1. ASSUME NEW h \in Happenings, Happens(h) \/ WriteNotice(h) \/ Commit(h) \/ Enqueue(h) \/ CreatorLost(h)
        PROVE  NoticeInv'
    BY <2>1, HappensKeeps, RowWriteKeeps, CommitKeeps, EnqueueKeeps, CreatorLostKeeps
  <2>2. ASSUME NEW n \in Keys, Load(n) \/ Send(n) \/ Record(n) \/ DispatcherLost(n) \/ Hide(n)
        PROVE  NoticeInv'
    BY <2>2, LoadKeeps, SendKeeps, RecordKeeps, DispatcherLostKeeps, HideKeeps
  <2>3. CASE EraseAll
    BY <2>3, EraseKeeps
  <2>4. CASE \/ \E a \in NoticeActors : Mute(a) \/ Unmute(a)
             \/ \E on \in SUBSET Channels : Prefer(on)
    BY <2>4, PreferKeeps
  <2>5. CASE UNCHANGED noticeVars
    <3>1. NoticeTypeOK'
      BY <2>5, InvNow DEF noticeVars, NoticeTypeOK
    <3>. QED
      BY <2>5, <3>1, QuietKeeps DEF noticeVars
  <2>. QED
    BY <2>1, <2>2, <2>3, <2>4, <2>5 DEF NoticeNext
<1>. QED
  BY <1>1, NoticeStart, PTL DEF NoticeSpec
=============================================================================
