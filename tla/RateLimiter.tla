---------------------------- MODULE RateLimiter ----------------------------
(***************************************************************************)
(* The sliding-window limiter in front of the auth endpoints.  Keys are    *)
(* independent and a mutex serialises Allow, so one key is modelled; what  *)
(* is hard is the edge of the window.                                      *)
(***************************************************************************)
EXTENDS Naturals, Sequences, FiniteSets

CONSTANTS Limit,    \* requests let through in any window
          Window,   \* its length in clock ticks
          LastTick  \* bound: the clock stops here

ASSUME LimiterAssumption == Limit \in Nat \ {0} /\ Window \in Nat \ {0} /\ LastTick \in Nat

VARIABLES
    clock,     \* time.Now
    hits,      \* Limiter.hits of the key, oldest first
    admitted,  \* history: when each request was let through
    answer     \* the last answer of Allow

limiterVars == <<clock, hits, admitted, answer>>

LimiterTypeOK ==
    /\ clock \in 0..LastTick
    /\ hits \in Seq(0..LastTick) /\ admitted \in Seq(0..LastTick)
    /\ answer \in {"none", "allowed", "refused"}

LimiterInit == clock = 0 /\ hits = <<>> /\ admitted = <<>> /\ answer = "none"

TickClock ==
    /\ clock < LastTick
    /\ clock' = clock + 1
    /\ answer' = "none"
    /\ UNCHANGED <<hits, admitted>>

(* What the loop keeps of the hits, those at the indices I, in their order.*)
HitsAt(I) ==
    [k \in 1..Cardinality(I) |->
        hits[CHOOSE i \in I : Cardinality({j \in I : j <= i}) = k]]

(* Mutant: a hit exactly one window old still counts.                      *)
KeptToTheEdge == HitsAt({i \in DOMAIN hits : hits[i] + Window >= clock})

(* t.After(now.Add(-window)).                                              *)
Kept == HitsAt({i \in DOMAIN hits : hits[i] + Window > clock})

Full(kept) == Len(kept) >= Limit

(* A refused request leaves no hit behind.                                 *)
Allow ==
    /\ IF Full(Kept)
       THEN hits' = Kept /\ answer' = "refused" /\ UNCHANGED admitted
       ELSE /\ hits' = Append(Kept, clock)
            /\ answer' = "allowed"
            /\ admitted' = Append(admitted, clock)
    /\ UNCHANGED clock

LimiterNext == TickClock \/ Allow
LimiterSpec == LimiterInit /\ [][LimiterNext]_limiterVars

-----------------------------------------------------------------------------
(* "at most limit requests in any window" (ratelimit.go:13), wherever the  *)
(* window starts, and no request is refused while the window that ends now *)
(* holds fewer: forgetting old hits loses nothing the limit depends on.    *)
RateIsExact ==
    LET in(from) == {k \in DOMAIN admitted : from <= admitted[k] /\ admitted[k] < from + Window} IN
    /\ \A from \in 0..LastTick : Cardinality(in(from)) <= Limit
    /\ answer = "refused" =>
          Cardinality({k \in DOMAIN admitted : admitted[k] + Window > clock}) = Limit
=============================================================================
