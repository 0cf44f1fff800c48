--------------------------------- MODULE RateLimit ---------------------------------
(***************************************************************************)
(* ratelimit.Limiter: one bucket for each caller, an API key behind        *)
(* withAuth or an address behind the public forms, previews and the demo.  *)
(* Time is in milliseconds.  The code counts tokens and seconds in         *)
(* floating point; here a token is 60000 units and Rate units are refilled *)
(* each millisecond, which is Rate tokens a minute, exactly.               *)
(***************************************************************************)
EXTENDS Integers

CONSTANTS
  Callers,   \* key ids or addresses
  Rate,      \* requests per minute; the limiter is not used when it is 0
  Marks,     \* history: the moments from which grants are counted
  Pauses,    \* bound: the time that may pass between two requests
  Horizon    \* bound: the last moment

RateAssumption ==
  /\ Rate \in Nat \ {0}
  /\ Marks \subseteq Nat /\ Pauses \subseteq Nat /\ Horizon \in Nat

Never == -1          \* no moment

VARIABLES
  now,
  seen,      \* the callers that have a bucket
  tokens, last,
  since,     \* history: requests granted at a mark or later
  promised   \* history: when a refused caller was first told to come back
vars == <<now, seen, tokens, last, since, promised>>

Token == 60000
Burst == Rate * Token

Init ==
  /\ now = 0
  /\ seen = {}
  /\ tokens = [c \in Callers |-> 0]
  /\ last = [c \in Callers |-> 0]
  /\ since = [c \in Callers |-> [m \in Marks |-> 0]]
  /\ promised = [c \in Callers |-> Never]

\* Mutant: what a caller does not use is saved up.
RefilledFreely(c) ==
  IF c \notin seen THEN Burst ELSE tokens[c] + Rate * (now - last[c])

\* A new bucket is full, and no bucket is ever fuller.
Refilled(c) ==
  LET sum == tokens[c] + Rate * (now - last[c])
  IN IF c \notin seen \/ sum > Burst THEN Burst ELSE sum

\* int(wait.Seconds()) + 1 of the wait, which is a millisecond longer than what is
\* missing takes to be refilled: the next full second.
RetryAfter(missing, s) ==
  /\ (s - 1) * (1000 * Rate) <= missing + Rate
  /\ missing + Rate < s * (1000 * Rate)

Grant(c) ==
  /\ Refilled(c) >= Token
  /\ tokens' = [tokens EXCEPT ![c] = Refilled(c) - Token]
  /\ since' = [since EXCEPT ![c] = [m \in Marks |-> IF m <= now THEN @[m] + 1 ELSE @[m]]]
  /\ promised' = [promised EXCEPT ![c] = Never]

Refuse(c) ==
  /\ Refilled(c) < Token
  /\ tokens' = [tokens EXCEPT ![c] = Refilled(c)]
  /\ \E s \in 1..62 :
       /\ RetryAfter(Token - Refilled(c), s)
       /\ promised' = [promised EXCEPT ![c] = IF @ = Never THEN now + 1000 * s ELSE @]
  /\ UNCHANGED since

\* Allow, under the limiter's mutex, for a caller that withAuth or a form has named.
Allow(c) ==
  /\ seen' = seen \union {c}
  /\ last' = [last EXCEPT ![c] = now]
  /\ Grant(c) \/ Refuse(c)
  /\ UNCHANGED now

Pass(d) ==
  /\ now + d <= Horizon
  /\ now' = now + d
  /\ UNCHANGED <<seen, tokens, last, since, promised>>

Next == (\E c \in Callers : Allow(c)) \/ (\E d \in Pauses : Pass(d))
Spec == Init /\ [][Next]_vars

(******************************** Properties *********************************)
TypeOK ==
  /\ now \in Nat
  /\ seen \subseteq Callers
  /\ tokens \in [Callers -> Nat]
  /\ last \in [Callers -> Nat]
  /\ since \in [Callers -> [Marks -> Nat]]
  /\ promised \in [Callers -> Nat \union {Never}]

\* "Limiter allows rate requests per minute per key, with burst == rate"
\* (ratelimit.go): from any moment on, however long the caller was silent before, a
\* full bucket and what was refilled since then is all that it gets.
WithinRate ==
  \A c \in Callers, m \in Marks :
    m <= now => Token * since[c][m] <= Burst + Rate * (now - m)

\* A caller that was told when to come back (Retry-After) and has been granted
\* nothing since is not refused then or later.
WaitIsHonest ==
  \A c \in Callers : promised[c] # Never => last[c] < promised[c]

LimiterInv == WithinRate /\ WaitIsHonest

\* The inductive invariant, bucket by bucket: when it was last looked at, what had been
\* granted and what was left came from a full bucket and the refill, and what is missing
\* is refilled at the promised moment.
CountOf(c, m) ==
  IF c \in seen /\ m <= last[c]
  THEN Token * since[c][m] + tokens[c] <= Burst + Rate * (last[c] - m)
  ELSE since[c][m] = 0

PromiseOf(c) ==
  promised[c] # Never =>
    /\ c \in seen
    /\ last[c] < promised[c]
    /\ Token <= tokens[c] + Rate * (promised[c] - last[c])

BucketInv ==
  \A c \in Callers :
    /\ last[c] <= now /\ tokens[c] <= Burst
    /\ PromiseOf(c)
    /\ \A m \in Marks : CountOf(c, m)
====================================================================================
