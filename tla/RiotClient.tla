----------------------------- MODULE RiotClient -----------------------------
(***************************************************************************)
(* The Riot API client of a region: one call is up to maxRetries requests, *)
(* each let through by two token buckets that all callers share, and a     *)
(* pause after every 429.                                                  *)
(*                                                                         *)
(* Code: internal/riotapi (client.go, limiter.go and the endpoints).  The  *)
(* buckets are golang.org/x/time/rate: Wait reserves the next token, also  *)
(* one that is still to come, and sleeps until it is there.                *)
(*                                                                         *)
(* Callers: phases of the pipeline strategy, or activities of the worker.  *)
(* Time is in ticks; a bucket gains one unit of credit in each, and a      *)
(* token costs Period of them.                                             *)
(***************************************************************************)
EXTENDS Integers, Sequences, FiniteSets, FiniteSetsExt

CONSTANTS
  Caller,
  LongBurst, LongPeriod,    \* 10, and 98 tokens in 120 s
  ShortBurst, ShortPeriod,  \* 5, and 20 tokens in 1 s
  maxRetries,               \* 5
  RetryAfter,               \* pauses a 429 asks for (bound); 0: none
  DefaultPause,             \* 10 s
  Window,                   \* longest stretch of ticks in which requests are counted
  MaxDebt                   \* credit taken ahead by calls that were canceled (bound)

ASSUME BucketAssumption ==
  /\ {LongBurst, LongPeriod, ShortBurst, ShortPeriod, maxRetries, DefaultPause, Window, MaxDebt}
       \subseteq Nat \ {0}
  /\ RetryAfter \subseteq Nat
  /\ IsFiniteSet(Caller)

VARIABLES
  call,     \* per caller: where doRequest is, ticks it still sleeps, attempt
  per2Min,  \* credit; negative for tokens that are reserved ahead
  perSecond,
  sent      \* requests sent in the current tick and the i - 1 before it, per i (history)

vars == <<call, per2Min, perSecond, sent>>

Idle == [pc |-> "idle", sleep |-> 0, attempt |-> 0]

Init ==
  /\ call = [c \in Caller |-> Idle]
  /\ per2Min = LongBurst * LongPeriod /\ perSecond = ShortBurst * ShortPeriod
  /\ sent = [i \in 1 .. Window |-> 0]

\* Ticks until the token that takes the credit to this value is there.
Until(credit) == Max({0, -credit})

At(c, pc) == call[c].pc = pc
Awake(c, pc) == At(c, pc) /\ call[c].sleep = 0

WithoutWait(c, attempt) ==                                           \* mutant
  /\ call' = [call EXCEPT ![c] = [pc |-> "short", sleep |-> 0, attempt |-> attempt]]
  /\ UNCHANGED per2Min

\* limiter.Wait starts with the slow bucket.
Wait(c, attempt) ==
  /\ per2Min' = per2Min - LongPeriod
  /\ call' = [call EXCEPT ![c] = [pc |-> "long", sleep |-> Until(per2Min'), attempt |-> attempt]]

DoRequest(c) ==
  /\ At(c, "idle") /\ per2Min > -MaxDebt
  /\ Wait(c, 1)
  /\ UNCHANGED <<perSecond, sent>>

\* Only with the first token does the caller ask for the second.
WaitPerSecond(c) ==
  /\ Awake(c, "long")
  /\ perSecond' = perSecond - ShortPeriod
  /\ call' = [call EXCEPT ![c].pc = "short", ![c].sleep = Until(perSecond')]
  /\ UNCHANGED <<per2Min, sent>>

Send(c) ==
  /\ Awake(c, "short")
  /\ sent' = [i \in 1 .. Window |-> sent[i] + 1]
  /\ call' = [call EXCEPT ![c].pc = "flight"]
  /\ UNCHANGED <<per2Min, perSecond>>

\* An answer that is not a 429 ends the call, an error too; so does no answer
\* within the timeout of the HTTP client.
Answer(c) ==
  /\ At(c, "flight")
  /\ call' = [call EXCEPT ![c] = Idle]
  /\ UNCHANGED <<per2Min, perSecond, sent>>

TooManyRequests(c) ==
  /\ At(c, "flight")
  /\ \E pause \in RetryAfter :
       call' = [call EXCEPT ![c].pc = "pause", ![c].sleep = IF pause = 0 THEN DefaultPause ELSE pause]
  /\ UNCHANGED <<per2Min, perSecond, sent>>

SameAttempt(c) == call[c].attempt                                    \* mutant
NextAttempt(c) == call[c].attempt + 1

\* The last attempt pauses as well, before the call fails.
Retry(c) ==
  /\ Awake(c, "pause")
  /\ IF NextAttempt(c) <= maxRetries THEN Wait(c, NextAttempt(c))
     ELSE call' = [call EXCEPT ![c] = Idle] /\ UNCHANGED per2Min
  /\ UNCHANGED <<perSecond, sent>>

\* The context of a caller that waits is done: a token reserved ahead goes back to
\* the bucket, unless another one was reserved after it.
GiveBack(c, pc, credit, period) ==
  IF At(c, pc) /\ call[c].sleep > 0 /\ call[c].sleep = Until(credit) THEN credit + period ELSE credit

Cancel(c) ==
  /\ ~At(c, "idle")
  /\ call' = [call EXCEPT ![c] = Idle]
  /\ per2Min' = GiveBack(c, "long", per2Min, LongPeriod)
  /\ perSecond' = GiveBack(c, "short", perSecond, ShortPeriod)
  /\ UNCHANGED sent

Tick ==
  /\ per2Min' = Min({per2Min + 1, LongBurst * LongPeriod})
  /\ perSecond' = Min({perSecond + 1, ShortBurst * ShortPeriod})
  /\ call' = [c \in Caller |-> [call[c] EXCEPT !.sleep = Max({0, @ - 1})]]
  /\ sent' = [i \in 1 .. Window |-> IF i = 1 THEN 0 ELSE sent[i - 1]]

-----------------------------------------------------------------------------
Proceed(c) == WaitPerSecond(c) \/ Send(c) \/ Answer(c) \/ TooManyRequests(c) \/ Retry(c)

Next == Tick \/ \E c \in Caller : DoRequest(c) \/ Proceed(c) \/ Cancel(c)

Spec == Init /\ [][Next]_vars

\* Time passes, timers fire and the HTTP client gives up on an answer after 10 s.
\* No call has to be made and no context has to end.
FairSpec == Spec /\ WF_vars(Tick) /\ \A c \in Caller : WF_vars(Proceed(c))

-----------------------------------------------------------------------------
(* Properties *)

\* In no stretch of i ticks are more requests sent than a bucket and its refill
\* allow, and those that had their token when it began (limiter.go:20-28): retries,
\* calls of others and reservations that are given back included.
Budget(burst, period, i) == burst + i \div period + Cardinality(Caller)

SentWithinBudget ==
  \A i \in 1 .. Window :
    /\ sent[i] <= Budget(LongBurst, LongPeriod, i)
    /\ sent[i] <= Budget(ShortBurst, ShortPeriod, i)

\* Every call comes back, whatever the server answers: doRequest gives up after
\* maxRetries (client.go:35-84), and no caller waits for ever for a token that
\* others take.
CallReturns == \A c \in Caller : ~At(c, "idle") ~> At(c, "idle")
=============================================================================
