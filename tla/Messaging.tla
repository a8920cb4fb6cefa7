------------------------------ MODULE Messaging ------------------------------
(***************************************************************************)
(* One-time codes on their way to a phone: the task that sends one, the    *)
(* ladder of channels, the chain of providers of a channel and the         *)
(* cooldowns that all workers share in the cache                           *)
(* (src/clients/messaging, src/accounts/tasks.py).                         *)
(*                                                                         *)
(* candidates() asks the cache for the cooldowns twice, for the providers  *)
(* to try first and for those to try last; each pass is one step here.     *)
(* A provider may deliver and yet report a failure.  The task is retried   *)
(* when the whole ladder failed and run again when its worker is lost.     *)
(* MaxMessageTries bounds the runs of a task, MaxMessageLosses the lost    *)
(* workers.                                                                *)
(***************************************************************************)
EXTENDS Integers, Sequences, FiniteSets

CONSTANTS
  TextCodes,             \* messages to be sent, each by a task of its own
  Ladder,            \* the channels, in the order they are tried
  Chain,             \* Chain[ch]: the configured providers of ch, in order
  MaxMessageTries,   \* bound: runs of one task that end without delivery
  MaxMessageLosses   \* bound: workers lost

Providers == UNION {{Chain[ch][k] : k \in DOMAIN Chain[ch]} : ch \in DOMAIN Chain}

ASSUME LadderChains == /\ Ladder \in Seq(DOMAIN Chain) /\ Ladder # <<>>
                       /\ \A ch \in DOMAIN Chain : Chain[ch] \in Seq(Providers) /\ Chain[ch] # <<>>
ASSUME MessageNats  == MaxMessageTries \in Nat \ {0} /\ MaxMessageLosses \in Nat

VARIABLES
  resting,      \* providers with a cooldown key in the cache
  sending,      \* sending[c]: the task of code c
  arrived,      \* arrived[c]: how often c reached the phone
  excuses,      \* history: excuses[c]: lost workers and lost answers of c
  wavered,      \* history: wavered[c]: a cooldown of the channel began or
                \* ended between the two passes of c's last candidates()
  messageLosses \* workers that may still be lost

messageVars == <<resting, sending, arrived, excuses, wavered, messageLosses>>

\* rung: position in the ladder; tried: runs of the task so far; hot and cold:
\* the places of the chain still to be asked, the hot ones first, each in the
\* chain's order; asked (history): those this pass over the channel has asked.
InQueue(n)    == [at |-> "waiting", rung |-> 1, tried |-> n, hot |-> {}, cold |-> {}, asked |-> {}]
SendingStages == {"waiting", "chosen", "hot", "trying", "sent", "dead"}

ChainOf(c)  == Chain[Ladder[sending[c].rung]]
Chained(c)  == Len(ChainOf(c)) > 1
Hot(ps)     == {k \in DOMAIN ps : ps[k] \notin resting}
Cold(ps)    == {k \in DOMAIN ps : ps[k] \in resting}
InChain(s)  == {s[k] : k \in DOMAIN s}
Foremost(ks) == CHOOSE k \in ks : \A j \in ks : k <= j

MessagingInit ==
  /\ resting = {}
  /\ sending = [c \in TextCodes |-> InQueue(0)]
  /\ arrived = [c \in TextCodes |-> 0] /\ excuses = [c \in TextCodes |-> 0]
  /\ wavered = [c \in TextCodes |-> FALSE]
  /\ messageLosses = MaxMessageLosses

SendingAt(c, stage)  == sending[c].at = stage
Advance(c, next) == sending' = [sending EXCEPT ![c] = next]
\* A key that changes under a task between its two passes.
Waver(ps) == wavered' = [c \in TextCodes |->
               wavered[c] \/ (SendingAt(c, "hot") /\ ps \cap InChain(ChainOf(c)) # {})]

\* The worker takes the task; the ladder starts at its first rung.
TakeText(c) ==
  /\ SendingAt(c, "waiting")
  /\ Advance(c, [sending[c] EXCEPT !.at = "chosen"])
  /\ UNCHANGED <<resting, arrived, excuses, wavered, messageLosses>>

\* candidates(): the providers that are not resting, then those that are.
\* A bug the property would find: the second pass is left out.
ReadHotOnly(c) ==
  /\ SendingAt(c, "chosen") /\ Chained(c)
  /\ Advance(c, [sending[c] EXCEPT !.at = "trying", !.hot = Hot(ChainOf(c))])
  /\ wavered' = [wavered EXCEPT ![c] = FALSE]
  /\ UNCHANGED <<resting, arrived, excuses, messageLosses>>
ReadHot(c) ==
  /\ SendingAt(c, "chosen") /\ Chained(c)
  /\ Advance(c, [sending[c] EXCEPT !.at = "hot", !.hot = Hot(ChainOf(c))])
  /\ wavered' = [wavered EXCEPT ![c] = FALSE]
  /\ UNCHANGED <<resting, arrived, excuses, messageLosses>>
\* build_chain gives the one provider of a channel as it is.
UseOnly(c) ==
  /\ SendingAt(c, "chosen") /\ ~Chained(c)
  /\ Advance(c, [sending[c] EXCEPT !.at = "trying", !.hot = DOMAIN ChainOf(c)])
  /\ UNCHANGED <<resting, arrived, excuses, wavered, messageLosses>>
ReadCold(c) ==
  /\ SendingAt(c, "hot")
  /\ Advance(c, [sending[c] EXCEPT !.at = "trying", !.cold = Cold(ChainOf(c))])
  /\ UNCHANGED <<resting, arrived, excuses, wavered, messageLosses>>

\* The run is over without delivery: a retry of the task, or its end.
AfterRun(s) ==
  IF s.tried + 1 < MaxMessageTries THEN InQueue(s.tried + 1)
  ELSE [InQueue(s.tried + 1) EXCEPT !.at = "dead"]
\* The channel is over: the next one of the ladder, if there is one.
NextRung(s) ==
  IF s.rung < Len(Ladder)
  THEN [InQueue(s.tried) EXCEPT !.at = "chosen", !.rung = s.rung + 1]
  ELSE AfterRun(s)
AllAsked(s) == s.hot = {} /\ s.cold = {}
Trying(c)   == SendingAt(c, "trying") /\ ~AllAsked(sending[c])
Place(s)    == IF s.hot # {} THEN Foremost(s.hot) ELSE Foremost(s.cold)
Used(c)     == ChainOf(c)[Place(sending[c])]
\* The list may hold a provider twice, once in each part: it is asked twice.
NextOne(s)  == [s EXCEPT !.hot = @ \ {Place(s)}, !.cold = IF s.hot # {} THEN @ ELSE @ \ {Place(s)},
                         !.asked = @ \cup {Place(s)}]
\* A provider that is alone in its chain gets no cooldown.
Cools(c) ==
  IF Chained(c) THEN resting' = resting \cup {Used(c)} /\ Waver({Used(c)} \ resting)
                ELSE UNCHANGED <<resting, wavered>>

\* Every provider has failed.
ChannelFails(c) ==
  /\ SendingAt(c, "trying") /\ AllAsked(sending[c])
  /\ Advance(c, NextRung(sending[c]))
  /\ UNCHANGED <<resting, arrived, excuses, wavered, messageLosses>>
Delivers(c) ==
  /\ Trying(c)
  /\ arrived' = [arrived EXCEPT ![c] = @ + 1]
  /\ Advance(c, [InQueue(sending[c].tried) EXCEPT !.at = "sent"])
  /\ UNCHANGED <<resting, excuses, wavered, messageLosses>>
\* A retryable error: a cooldown and the next provider.  The message may
\* have arrived all the same.
FailsOver(c) ==
  /\ Trying(c)
  /\ Cools(c)
  /\ Advance(c, NextOne(sending[c]))
  /\ \/ UNCHANGED <<arrived, excuses>>
     \/ /\ excuses[c] < MaxMessageLosses
        /\ arrived' = [arrived EXCEPT ![c] = @ + 1]
        /\ excuses' = [excuses EXCEPT ![c] = @ + 1]
  /\ UNCHANGED messageLosses
\* A permanent error ends the channel; the ladder goes on.
FailsForGood(c) ==
  /\ Trying(c)
  /\ Cools(c)
  /\ Advance(c, NextRung(sending[c]))
  /\ UNCHANGED <<arrived, excuses, messageLosses>>
\* Any other error brings no cooldown; without a chain nothing catches it
\* and the run fails with all its channels.
Misbehaves(c) ==
  /\ Trying(c)
  /\ Advance(c, IF Chained(c) THEN NextOne(sending[c]) ELSE AfterRun(sending[c]))
  /\ UNCHANGED <<resting, arrived, excuses, wavered, messageLosses>>

\* The worker is lost before it has acknowledged the task.
SenderLost(c) ==
  /\ sending[c].at \in {"trying", "sent"} /\ messageLosses > 0
  /\ messageLosses' = messageLosses - 1
  /\ Advance(c, InQueue(sending[c].tried))
  /\ excuses' = [excuses EXCEPT ![c] = @ + 1]
  /\ UNCHANGED <<resting, arrived, wavered>>

RestEnds(p) ==
  /\ p \in resting
  /\ resting' = resting \ {p} /\ Waver({p})
  /\ UNCHANGED <<sending, arrived, excuses, messageLosses>>

MessagingNext ==
  \/ \E c \in TextCodes :
       \/ TakeText(c) \/ ReadHot(c) \/ ReadCold(c) \/ UseOnly(c) \/ ChannelFails(c)
       \/ Delivers(c) \/ FailsOver(c) \/ FailsForGood(c) \/ Misbehaves(c) \/ SenderLost(c)
  \/ \E p \in Providers : RestEnds(p)

MessagingSpec == MessagingInit /\ [][MessagingNext]_messageVars

-----------------------------------------------------------------------------
(* Properties *)

\* Every variable keeps its type, and the places a task asks are its chain's.
TextStates == [at : SendingStages, rung : DOMAIN Ladder, tried : 0 .. MaxMessageTries,
               hot : SUBSET Nat, cold : SUBSET Nat, asked : SUBSET Nat]
MessagingTypeOK ==
  /\ resting \subseteq Providers
  /\ sending \in [TextCodes -> TextStates]
  /\ \A c \in TextCodes :
       /\ sending[c].hot \cup sending[c].cold \cup sending[c].asked \subseteq DOMAIN ChainOf(c)
       /\ sending[c].at \notin {"hot", "trying"} =>
            sending[c].hot = {} /\ sending[c].cold = {} /\ sending[c].asked = {}
       /\ sending[c].tried = MaxMessageTries => SendingAt(c, "dead")
  /\ arrived \in [TextCodes -> Nat] /\ excuses \in [TextCodes -> Nat]
  /\ wavered \in [TextCodes -> BOOLEAN]
  /\ messageLosses \in 0 .. MaxMessageLosses

\* A code arrives once: again only for a worker that was lost or an answer
\* that was, through failovers, channels and retries; and while its task has
\* not sent it, not even once without such an excuse.
ArrivesOnce ==
  \A c \in TextCodes : arrived[c] <= (IF SendingAt(c, "sent") THEN 1 ELSE 0) + excuses[c]

\* A cooldown puts a provider last and never drops it: what was asked and
\* what is left to ask is the whole chain, unless a cooldown moved between
\* the two passes of candidates() over it; until then the first pass stands.
NobodyDropped ==
  \A c \in TextCodes : ~wavered[c] =>
    /\ SendingAt(c, "hot") => sending[c].hot = Hot(ChainOf(c)) /\ sending[c].cold = {} /\ sending[c].asked = {}
    /\ SendingAt(c, "trying") => sending[c].hot \cup sending[c].cold \cup sending[c].asked = DOMAIN ChainOf(c)

\* The delivery of codes as a whole: one message each, and no provider of a
\* chain left out, whatever fails, cools down or is run again.
MessagingInv == MessagingTypeOK /\ ArrivesOnce /\ NobodyDropped
=============================================================================
