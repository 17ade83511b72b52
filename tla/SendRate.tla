------------------------------ MODULE SendRate ------------------------------
(***************************************************************************)
(* tokenBucket.ts: how fast one WhatsApp session may send.  The script     *)
(* runs in Redis, so a request for a token is one step.  It keeps three    *)
(* keys, all of them written when a token is given and none when it is     *)
(* refused: the tokens left, when that was, and a count of the minute,     *)
(* whose minute begins again with every token.                             *)
(*                                                                         *)
(* Time is in ticks, Grain of which earn a token; tokens are counted in    *)
(* ticks as well, which keeps fractions of a token whole.                  *)
(***************************************************************************)
EXTENDS Integers, FiniteSetsExt

CONSTANTS
  Grain,       \* ticks for a token; ratePerSecond is 1, so a second
  Capacity,    \* burst: 5
  PerMinute,   \* maxPerMinute: 50
  Minute       \* ticks of a minute

Full  == Capacity * Grain
Cost  == Grain          \* consume(1)
Keep  == 2 * Full       \* life of the tokens' key
Later == IF Keep > Minute THEN Keep ELSE Minute   \* bound: an older time is no different

ASSUME RateAssumption ==
  /\ Grain \in Nat \ {0} /\ Capacity \in Nat \ {0} /\ PerMinute \in Nat
  /\ Minute \in Nat \ {0}

VARIABLES
  bucket,   \* the keys: tokens and count as last written, and the ticks since then
  watch     \* somebody counts the tokens given for a time: ticks since, and how many

rateVars == <<bucket, watch>>

Unwatched == [age |-> Later, seen |-> 0]

Older(age) == IF age < Later THEN age + 1 ELSE age

RateTypeOK ==
  /\ bucket \in [tokens : 0..Full, count : 0..PerMinute, age : 0..Later]
  /\ watch \in [age : 0..Later, seen : Nat]

(* Keys that are not there read like keys that were written long ago.      *)
RateInit ==
  /\ bucket = [tokens |-> Full, count |-> 0, age |-> Later]
  /\ watch = Unwatched

-----------------------------------------------------------------------------
(* What the script makes of the keys: refilled, unless they have expired.  *)
TokensNow ==
  IF bucket.age >= Keep \/ bucket.tokens + bucket.age > Full THEN Full ELSE bucket.tokens + bucket.age

CountNow == IF bucket.age >= Minute THEN 0 ELSE bucket.count

Granted == TokensNow >= Cost /\ CountNow + 1 <= PerMinute

Take ==
  /\ Granted
  /\ bucket' = [tokens |-> TokensNow - Cost, count |-> CountNow + 1, age |-> 0]
  /\ watch' = IF watch = Unwatched THEN watch ELSE [watch EXCEPT !.seen = @ + 1]

(* Fault: a refusal writes the keys as well.                               *)
RefuseAndRenew ==
  /\ ~Granted
  /\ bucket' = [tokens |-> TokensNow, count |-> CountNow, age |-> 0]
  /\ UNCHANGED watch

Refuse ==
  /\ ~Granted
  /\ UNCHANGED rateVars

Pass ==
  /\ bucket' = [bucket EXCEPT !.age = Older(@)]
  /\ watch' = IF watch.age + 1 < Later THEN [watch EXCEPT !.age = @ + 1] ELSE Unwatched

Watch ==
  /\ watch' = [age |-> 0, seen |-> 0]
  /\ UNCHANGED bucket

RateNext == Take \/ Refuse \/ Pass \/ Watch

RateSpec == RateInit /\ [][RateNext]_rateVars
-----------------------------------------------------------------------------
(***************************************************************************)
(* Whenever somebody begins to count, and whatever else is going on, no    *)
(* more tokens are given than a full burst and one for every second since; *)
(* and in less than a minute no more than maxPerMinute.                    *)
(***************************************************************************)
GivenWithinLimits ==
  /\ watch.seen * Cost <= Full + watch.age
  /\ watch.age < Minute => watch.seen <= PerMinute
=============================================================================
