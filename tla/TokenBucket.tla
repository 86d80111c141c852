------------------------------ MODULE TokenBucket ------------------------------
(***************************************************************************)
(* The RateLimiter of the orchestrator (orchestrator/server.py): a token   *)
(* bucket before every pipeline, refilled from the wall clock, which its   *)
(* host may set forward and back.                                          *)
(*                                                                         *)
(* Times are in milliseconds and tokens in thousandths, so that a          *)
(* millisecond refills Rate of them.                                       *)
(***************************************************************************)
EXTENDS Integers

CONSTANTS Rate,    \* RATE_LIMIT_RPS
          Capacity \* RATE_LIMIT_BURST, in thousandths of a token

\* Both come from the environment unchecked; the theorems suppose naturals.
Configured == Rate \in Nat /\ Capacity \in Nat

VARIABLES
  now,      \* the wall clock
  tokens,   \* _tokens
  last,     \* _last_update
  total,    \* _total_requests
  rejected, \* _rejected_requests
  base,     \* history: the clock of the first request observed, or -1
  peak,     \* history: the latest clock a request was observed at
  admitted  \* history: how many of the requests observed were admitted

historyVars == <<base, peak, admitted>>
vars == <<now, tokens, last, total, rejected, historyVars>>

Init ==
  /\ now \in Nat /\ last = now
  /\ tokens = Capacity
  /\ total = 0 /\ rejected = 0
  /\ base = -1 /\ peak = -1 /\ admitted = 0

Observing == base # -1
LaterOf(s, t) == IF s < t THEN t ELSE s

\* What the bucket holds when a request comes now.
Refilled ==
  LET level == tokens + Rate * (now - last) IN IF level > Capacity THEN Capacity ELSE level

\* acquire: the clock is read and the bucket refilled whatever the answer.
Acquire ==
  /\ last' = now
  /\ total' = total + 1
  /\ base' = IF Observing THEN base ELSE now
  /\ peak' = IF Observing THEN LaterOf(peak, now) ELSE now
  /\ UNCHANGED now

Admit ==
  /\ Refilled >= 1000
  /\ tokens' = Refilled - 1000
  /\ admitted' = admitted + 1
  /\ Acquire
  /\ UNCHANGED rejected

Reject ==
  /\ Refilled < 1000
  /\ tokens' = Refilled
  /\ rejected' = rejected + 1
  /\ Acquire
  /\ UNCHANGED admitted

\* Time passes, or the clock is set.
Clock ==
  /\ now' \in Nat
  /\ UNCHANGED <<tokens, last, total, rejected, historyVars>>

\* The observation starts anew with the next request.
Observe ==
  /\ base' = -1 /\ peak' = -1 /\ admitted' = 0
  /\ UNCHANGED <<now, tokens, last, total, rejected>>

Next == Admit \/ Reject \/ Clock \/ Observe
Spec == Init /\ [][Next]_vars
-----------------------------------------------------------------------------
TypeOK ==
  /\ now \in Nat /\ last \in Nat /\ tokens \in Int
  /\ total \in Nat /\ rejected \in Nat /\ admitted \in Nat
  /\ base \in Nat \cup {-1} /\ peak \in Nat \cup {-1}

\* Whenever one starts to look, no more requests are admitted than the full
\* bucket and the refill up to the latest clock allow, wherever the clock was
\* set in between (RateLimiter: capacity, rate).
BurstBound ==
  IF Observing THEN 1000 * admitted <= Capacity + Rate * (peak - base) ELSE admitted = 0

\* What makes it inductive: the tokens that are left are part of the bound, at
\* the clock of the last request.
Balance ==
  /\ tokens <= Capacity
  /\ Observing => /\ base <= peak /\ last <= peak
                  /\ 1000 * admitted + tokens <= Capacity + Rate * (last - base)

BInv == TypeOK /\ Balance /\ BurstBound

\* A request finds a token if the clock was not set back and enough of it
\* passed for one since the last request (acquire).
Refills == tokens >= 0 /\ Rate * (now - last) >= 1000 /\ Capacity >= 1000

\* After the clock is set back by longer than it takes to fill the bucket and
\* one token more, the next request leaves a debt, and none is admitted until
\* the clock is close to where it was.
SetBack == Rate * (last - now) > Capacity
=============================================================================
