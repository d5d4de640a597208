------------------------------ MODULE Collector ------------------------------
(***************************************************************************)
(* The engine half of the metrics collector: one tick after another scrapes *)
(* /metrics, backs off from a dead engine, turns the token counter into a   *)
(* rate and the cumulative buckets of a histogram into a rolling window.    *)
(*                                                                         *)
(* An observation stands for one token and one entry of the histogram.     *)
(* Times are ages: how long ago, up to just past the horizon.  Of the       *)
(* quantile, the bucket counts it is interpolated from are kept.            *)
(***************************************************************************)
EXTENDS Integers, Sequences, FiniteSetsExt

CONSTANTS
    Horizon,    \* the window's length in ticks (60 s of 2 s ticks in the code)
    MaxGap,     \* the longest time between two ticks
    Buckets,    \* bounds of the histogram, 1..Buckets
    Rest,       \* a dead engine is scraped every Rest-th tick (5 in the code)
    MaxObs,     \* bound: observations in one run of the engine
    MaxRuns     \* bound: runs of the engine

ASSUME HorizonAssumption == Horizon \in Nat \ {0} /\ MaxGap \in Nat \ {0}
ASSUME BucketsAssumption == Buckets \in Nat \ {0} /\ Rest \in Nat \ {0, 1}
ASSUME BoundsAssumption == MaxObs \in Nat /\ MaxRuns \in Nat \ {0}

VARIABLES
    engine,     \* up, run, and the cumulative counts of the run per bucket
    metTick,    \* Collector.metTick, of which only the remainder by Rest matters
    metFail,    \* Collector.metFail, of which only 0..3 matters
    prevEng,    \* Collector.prevEng: seen, and the counter then
    ring,       \* HistState.rings of one family: age, cumulative counts, history: the run
    snap,       \* the latest snapshot: reachable, rate (tokens of the rate's interval), counts
    fresh,      \* history: observations made since the latest tick
    garbled,    \* history: the latest tick could not parse what it read
    opened      \* history: a window has been shown since the last long outage

sampleVars == <<engine, metTick, metFail, prevEng, ring, snap, fresh, garbled, opened>>

Bounds == 1..Buckets
NoObs == [b \in Bounds |-> 0]
Tokens == engine.cum[Buckets]       \* vllm:generation_tokens_total
PerBucket(cum) == [b \in Bounds |-> IF b = 1 THEN cum[b] ELSE cum[b] - cum[b - 1]]

NoCounter == [seen |-> FALSE, tok |-> 0]
NoCounts == [b \in Bounds |-> -1]
Unreachable == [reachable |-> FALSE, rate |-> 0, counts |-> NoCounts]

Entry == [age : 0..(Horizon + 1), cum : [Bounds -> 0..MaxObs], run : 1..MaxRuns]

\* ... and the ring ascends in time and holds one entry from outside the horizon at
\* the most, as of the latest entry.
SampleTypeOK ==
    /\ engine.up \in BOOLEAN /\ engine.run \in 1..MaxRuns /\ engine.cum \in [Bounds -> 0..MaxObs]
    /\ metTick \in 0..(Rest - 1) /\ metFail \in 0..3
    /\ prevEng.seen \in BOOLEAN /\ prevEng.tok \in 0..MaxObs
    /\ \A i \in 1..Len(ring) : ring[i] \in Entry
    /\ snap.reachable \in BOOLEAN /\ snap.rate \in 0..MaxObs
    /\ snap.counts \in [Bounds -> -1..MaxObs]
    /\ fresh \in Nat /\ garbled \in BOOLEAN /\ opened \in BOOLEAN
    /\ \A i \in 2..Len(ring) :
          /\ ring[i].age <= ring[i - 1].age
          /\ ring[i].age - ring[Len(ring)].age <= Horizon

---------------------------------------------------------------------------
(* The window *)

\* rate(), times the interval: a counter that fell has restarted
Increase(cur, prev) == IF cur < prev THEN cur ELSE cur - prev

\* QuantileWindow up to the interpolation: a bound whose count fell starts over,
\* then the cumulative counts are made to ascend, then differenced
WindowCounts(prev, cur) ==
    LET d == [b \in Bounds |-> Increase(cur[b], prev[b])]
        w == [b \in Bounds |-> Max({d[i] : i \in 1..b})]
    IN  PerBucket(w)

FirstInside(r) ==
    CHOOSE i \in 1..Len(r) : r[i].age <= Horizon /\ \A j \in 1..(i - 1) : r[j].age > Horizon

\* mutant: nothing outside the horizon is kept
PruneRingShort(r) == SubSeq(r, FirstInside(r), Len(r))

\* the entries inside the horizon, and one outside it
PruneRing(r) == SubSeq(r, Max({1, FirstInside(r) - 1}), Len(r))

\* quantilesFromRing: from the first entry inside, or the last but one
WindowStart(r) == Min({FirstInside(r), Len(r) - 1})

Shown(r) ==
    IF Len(r) < 2 THEN NoCounts
    ELSE WindowCounts(r[WindowStart(r)].cum, r[Len(r)].cum)

Older(r, d) ==
    [i \in 1..Len(r) |-> [r[i] EXCEPT !.age = Min({@ + d, Horizon + 1})]]

---------------------------------------------------------------------------

SampleInit ==
    /\ engine = [up |-> FALSE, run |-> 1, cum |-> NoObs]
    /\ metTick = 0 /\ metFail = 0 /\ prevEng = NoCounter /\ ring = <<>>
    /\ snap = Unreachable /\ fresh = 0 /\ garbled = FALSE /\ opened = FALSE

\* mutant: only a tick that scrapes advances the clock of the backoff
TickOfScrapes(t) == IF metFail >= 3 THEN t ELSE (t + 1) % Rest

NextTick(t) == (t + 1) % Rest

Resting == metFail >= 3 /\ NextTick(metTick) # 0

\* one call of SampleOnce; d is the time since the one before
Tick(d) ==
    /\ metTick' = NextTick(metTick) /\ fresh' = 0
    /\ UNCHANGED engine

Skip(d) ==
    /\ Resting /\ Tick(d)
    /\ snap' = Unreachable /\ garbled' = FALSE
    /\ ring' = Older(ring, d)
    /\ UNCHANGED <<metFail, prevEng, opened>>

\* mutant: the counters of before are kept
ScrapeFailsKeeps(d) ==
    /\ ~Resting /\ Tick(d)
    /\ metFail' = Min({metFail + 1, 3})
    /\ ring' = IF metFail' = 3 THEN <<>> ELSE Older(ring, d)
    /\ opened' = (opened /\ metFail' # 3)
    /\ snap' = Unreachable /\ garbled' = FALSE
    /\ UNCHANGED prevEng

\* no answer, a refusal, or an answer that takes too long
ScrapeFails(d) ==
    /\ ~Resting /\ Tick(d)
    /\ metFail' = Min({metFail + 1, 3}) /\ prevEng' = NoCounter
    /\ ring' = IF metFail' = 3 THEN <<>> ELSE Older(ring, d)
    /\ opened' = (opened /\ metFail' # 3)
    /\ snap' = Unreachable /\ garbled' = FALSE

\* an answer that ParseMetricsText refuses: the counters of before are kept
ScrapeGarbled(d) ==
    /\ ~Resting /\ engine.up /\ Tick(d)
    /\ metFail' = 0
    /\ snap' = Unreachable /\ garbled' = TRUE
    /\ ring' = Older(ring, d)
    /\ UNCHANGED <<prevEng, opened>>

\* fillEngine
ScrapeRead(d) ==
    /\ ~Resting /\ engine.up /\ Tick(d)
    /\ LET new == [age |-> 0, cum |-> engine.cum, run |-> engine.run]
           r == PruneRing(Append(Older(ring, d), new))
       IN  /\ ring' = r
           /\ prevEng' = [seen |-> TRUE, tok |-> Tokens]
           /\ snap' = [reachable |-> TRUE, counts |-> Shown(r),
                       rate |-> IF prevEng.seen THEN Increase(Tokens, prevEng.tok) ELSE 0]
           /\ opened' = (opened \/ Len(r) >= 2)
    /\ metFail' = 0 /\ garbled' = FALSE

Scrape(d) == ScrapeFails(d) \/ ScrapeGarbled(d) \/ ScrapeRead(d)

---------------------------------------------------------------------------
(* The engine *)

Serve(b) ==
    /\ engine.up /\ Tokens < MaxObs
    /\ engine' = [engine EXCEPT !.cum = [i \in Bounds |-> IF i < b THEN @[i] ELSE @[i] + 1]]
    /\ fresh' = fresh + 1
    /\ UNCHANGED <<metTick, metFail, prevEng, ring, snap, garbled, opened>>

EngineDown ==
    /\ engine.up
    /\ engine' = [engine EXCEPT !.up = FALSE]
    /\ UNCHANGED <<metTick, metFail, prevEng, ring, snap, fresh, garbled, opened>>

EngineUp ==
    /\ ~engine.up /\ engine.run < MaxRuns
    /\ engine' = [up |-> TRUE, run |-> engine.run + 1, cum |-> NoObs]
    /\ UNCHANGED <<metTick, metFail, prevEng, ring, snap, fresh, garbled, opened>>

---------------------------------------------------------------------------

SampleNext ==
    \/ \E d \in 1..MaxGap : Skip(d) \/ Scrape(d)
    \/ (\E b \in Bounds : Serve(b)) \/ EngineDown \/ EngineUp

SampleSpec == SampleInit /\ [][SampleNext]_sampleVars

Sampled == metTick' # metTick

\* The ticker goes on through the ticks that ask nobody, and an engine that is asked
\* again and again while it is up answers one scrape in the end.  The second is
\* SF_sampleVars(\E d \in 1..MaxGap : ScrapeRead(d)) with its enabling condition written
\* out, which TLC evaluates much faster.
FairSample ==
    /\ SampleSpec
    /\ WF_sampleVars(\E d \in 1..MaxGap : Skip(d))
    /\ []<>(engine.up /\ ~Resting) => []<><<Sampled /\ snap'.reachable>>_sampleVars

---------------------------------------------------------------------------
(* Properties *)

\* The tokens of a rate were made in the interval it is divided by, whatever
\* restarted or failed before: a restart does not make them negative or count those
\* of an earlier interval (an answer that could not be parsed aside).
RateHonest == [][Sampled /\ ~garbled => snap'.rate <= fresh]_sampleVars

\* The same without the exception.
RateOfItsInterval == [][Sampled => snap'.rate <= fresh]_sampleVars

\* The window survives single failures (collector.go:366): once it has opened, and
\* until three scrapes in a row fail, every sample has one, and the counts of one
\* run are those of the observations made since it began.
WindowTrue ==
    snap.reachable /\ opened =>
        /\ Len(ring) >= 2
        /\ LET a == ring[WindowStart(ring)]
               z == ring[Len(ring)]
           IN  a.run = z.run => snap.counts = PerBucket([b \in Bounds |-> z.cum[b] - a.cum[b]])

\* Its counts are those of one run, or of the new run alone: "a counter restart in
\* between is handled by QuantileWindow's per-bucket rebaseline" (collector.go:371).
RestartRebaselines ==
    snap.reachable /\ Len(ring) >= 2 =>
        LET a == ring[WindowStart(ring)]
            z == ring[Len(ring)]
        IN  a.run # z.run => snap.counts = PerBucket(z.cum)

\* vllm.go:290: "measuring a full horizon needs a sample at or before now-horizon",
\* which pruneRing keeps for it: where there is one, the window begins there.
WindowIsFull ==
    snap.reachable /\ Len(ring) >= 2 /\ ring[1].age >= Horizon
        => ring[WindowStart(ring)].age >= Horizon

\* However long an engine was dead, one that is up for good is seen: the backoff
\* goes on asking.
UpIsSeen == <>[]engine.up => []<>snap.reachable
=============================================================================
