--------------------------- MODULE RateScheduler ----------------------------
(***************************************************************************)
(* packages/execution/src/scheduler.ts: a token bucket and a back-off per  *)
(* endpoint category, one back-off level for all, and requests whose       *)
(* answers come back late and in any order.                                *)
(*                                                                         *)
(* One unit of time is the first back-off delay (500 ms).  The time the    *)
(* host passes in does not run backwards: `refill' would credit such a     *)
(* stretch twice.                                                          *)
(***************************************************************************)
EXTENDS Integers, Sequences, FiniteSetsExt

CONSTANTS Categories, Capacity, Refill, MaxDelay,
          MaxNow, MaxSends, MaxHits   \* bounds

VARIABLES tokens, lastRefill,   \* TokenBucket, per category
          backoffUntil, hits,   \* RateScheduler
          time,                 \* the `now' the host passes in
          flying,               \* requests sent and not answered, per category
          sends,                \* history: times of the sends, per category
          demanded              \* history: end of the longest back-off asked for since a success

vars == <<tokens, lastRefill, backoffUntil, hits, time, flying, sends, demanded>>

Lower(a, b) == IF a < b THEN a ELSE b
Higher(a, b) == IF a < b THEN b ELSE a

Refilled(c) == Lower(Capacity, tokens[c] + (time - lastRefill[c]) * Refill)

(* The exponential back-off, with its ceiling. *)
Doubled[n \in Nat] == IF n = 0 THEN 1 ELSE 2 * Doubled[n - 1]

Delay(level) == Lower(MaxDelay, Doubled[level - 1])

BackedOff(c) == time < backoffUntil[c]

Init == /\ tokens = [c \in Categories |-> Capacity]
        /\ lastRefill = [c \in Categories |-> 0]
        /\ backoffUntil = [c \in Categories |-> 0] /\ hits = 0 /\ time = 0
        /\ flying = [c \in Categories |-> 0]
        /\ sends = [c \in Categories |-> <<>>]
        /\ demanded = [c \in Categories |-> 0]

(* canSend and waitMs: a question refills the bucket, unless canSend finds a back-off. *)
Ask(c) ==
  /\ tokens' = [tokens EXCEPT ![c] = Refilled(c)]
  /\ lastRefill' = [lastRefill EXCEPT ![c] = time]
  /\ UNCHANGED <<backoffUntil, hits, time, flying, sends, demanded>>

Take(c) ==
  /\ ~BackedOff(c) /\ Refilled(c) >= 1 /\ Len(sends[c]) < MaxSends
  /\ tokens' = [tokens EXCEPT ![c] = Refilled(c) - 1]
  /\ lastRefill' = [lastRefill EXCEPT ![c] = time]
  /\ flying' = [flying EXCEPT ![c] = @ + 1]
  /\ sends' = [sends EXCEPT ![c] = Append(@, time)]
  /\ UNCHANGED <<backoffUntil, hits, time, demanded>>

(* An answer's headers: the venue's count only ever lowers the estimate.   *)
Synced(c) ==
  \E remaining \in 0 .. Capacity :
     tokens' = [tokens EXCEPT ![c] = Lower(@, remaining)]

ObserveSuccess(c) ==
  /\ flying[c] > 0 /\ flying' = [flying EXCEPT ![c] = @ - 1]
  /\ Synced(c)
  /\ hits' = 0 /\ demanded' = [d \in Categories |-> 0]
  /\ UNCHANGED <<lastRefill, backoffUntil, time, sends>>

(* Mutant of ObserveRejection: the delay does not grow with the level. *)
ObserveRejectionFlat(c) ==
  /\ flying[c] > 0 /\ flying' = [flying EXCEPT ![c] = @ - 1]
  /\ hits < MaxHits /\ hits' = hits + 1
  /\ backoffUntil' = [backoffUntil EXCEPT ![c] = time + 1]
  /\ demanded' = [demanded EXCEPT ![c] = Higher(@, time + Delay(hits + 1))]
  /\ UNCHANGED <<tokens, lastRefill, time, sends>>

ObserveRejection(c) ==
  /\ flying[c] > 0 /\ flying' = [flying EXCEPT ![c] = @ - 1]
  /\ hits < MaxHits /\ hits' = hits + 1
  /\ backoffUntil' = [backoffUntil EXCEPT ![c] = time + Delay(hits + 1)]
  /\ demanded' = [demanded EXCEPT ![c] = Higher(@, time + Delay(hits + 1))]
  /\ UNCHANGED <<tokens, lastRefill, time, sends>>

(* Any other error code, or no answer at all: nothing is observed.         *)
OtherAnswer(c) ==
  /\ flying[c] > 0 /\ flying' = [flying EXCEPT ![c] = @ - 1]
  /\ UNCHANGED <<tokens, lastRefill, backoffUntil, hits, time, sends, demanded>>

TimePasses ==
  /\ time < MaxNow /\ time' = time + 1
  /\ UNCHANGED <<tokens, lastRefill, backoffUntil, hits, flying, sends, demanded>>

Next == \/ TimePasses
        \/ \E c \in Categories : \/ Ask(c) \/ Take(c)
                                 \/ ObserveSuccess(c) \/ ObserveRejection(c) \/ OtherAnswer(c)

Spec == Init /\ [][Next]_vars
-----------------------------------------------------------------------------
TypeOk == /\ tokens \in [Categories -> 0 .. Capacity] /\ lastRefill \in [Categories -> 0 .. MaxNow]
          /\ backoffUntil \in [Categories -> 0 .. MaxNow + MaxDelay] /\ hits \in 0 .. MaxHits
          /\ flying \in [Categories -> 0 .. MaxSends] /\ demanded \in [Categories -> 0 .. MaxNow + MaxDelay]

SentIn(c, from, to) == {k \in DOMAIN sends[c] : sends[c][k] \in from .. to}
Sent(c, from, to)   == Cardinality(SentIn(c, from, to))

(* A full bucket and what flows into it meanwhile. *)
Budget(from, to) == Capacity + (to - from) * Refill

(* No stretch of time sees more sends of a category than a full bucket and *)
(* what flows into it meanwhile, whatever the questions and answers do.    *)
NoBurst ==
  \A c \in Categories : \A from, to \in 0 .. MaxNow :
     from <= to => Sent(c, from, to) <= Budget(from, to)

(* A rejection never shortens a back-off: with several requests answered   *)
(* in any order, a category waits until every back-off asked for since the *)
(* last success is over.  A success of any category resets the level all   *)
(* share (scheduler.ts:146), and a later rejection may then replace a long *)
(* back-off by a short one: nothing is claimed across a success.           *)
ShortensNothing == \A c \in Categories : backoffUntil[c] >= demanded[c]

(* The scheduler paces what it lets through. *)
Paced == NoBurst /\ ShortensNothing
-----------------------------------------------------------------------------
(* The inductive invariant behind Paced, of PartsProofs: since any moment  *)
(* up to now, what was sent and what could be sent at once are together no *)
(* more than a full bucket and what flowed into it; and a back-off that    *)
(* is still counted was asked for at the present level or a lower one.     *)
PaceTypes ==
  /\ tokens \in [Categories -> 0 .. Capacity] /\ time \in Nat /\ hits \in Nat
  /\ lastRefill \in [Categories -> 0 .. time]
  /\ backoffUntil \in [Categories -> Int] /\ demanded \in [Categories -> Int]
  /\ sends \in [Categories -> Seq(0 .. time)]

BucketHolds ==
  \A c \in Categories : \A from \in 0 .. time :
     /\ Sent(c, from, time) + Refilled(c) <= Budget(from, time)
     /\ \A to \in from .. time : Sent(c, from, to) <= Budget(from, to)

BackOffHolds ==
  \A c \in Categories :
     /\ demanded[c] <= (IF hits = 0 THEN 0 ELSE time + Delay(hits))
     /\ demanded[c] <= backoffUntil[c] /\ backoffUntil[c] >= 0

PaceInv == PaceTypes /\ BucketHolds /\ BackOffHolds
=============================================================================
