----------------------------- MODULE SessionLookup -----------------------------
(***************************************************************************)
(* pkg/cass under pkg/ui: V looks up the agent sessions of the selected    *)
(* bead in a goroutine that runs cass, with a cached health probe, a cache *)
(* of results per correlator and cancellation; meanwhile the selection     *)
(* moves, the dataset is reloaded, and cass fails or is too slow.          *)
(***************************************************************************)
EXTENDS Naturals, FiniteSets

CONSTANTS
    Bead,         \* issues that can be selected
    Request,      \* bound: lookups ever started
    MaxData,      \* bound: datasets ever loaded
    MaxExpiries,  \* bound: health results that outlive cacheTTL
    Strategies    \* how many searches Correlate tries

VARIABLES
    dataGeneration, selected, modal,   \* the UI: dataset, focused issue, what is shown
    request,      \* m.cassRequest
    correlator,   \* m.cassCorrelator: the dataset it was made for, 0 for nil
    results,      \* the cache of every correlator
    detector,     \* m.cassDetector
    probes,       \* the detector each correlator searches with
    health,       \* the cached status of each detector
    prober,       \* who holds checkMu of each detector
    startup,      \* the health check started with the program
    lookup,       \* the goroutines
    expiries

uiPart == <<dataGeneration, selected, modal, request, correlator, detector, probes>>
cassPart == <<results, health, prober, expiries>>
lookVars == <<uiPart, cassPart, startup, lookup>>

Detector == {"startup", "own"}
NoRequest == "no request"
Free == "free"
NoBead == "none"

ASSUME LookupAssumption ==
    /\ MaxData \in Nat \ {0} /\ Strategies \in Nat \ {0}
    /\ NoRequest \notin Request /\ Free \notin Request

\* StatusHealthy and StatusNeedsIndex, which are treated alike, or NotInstalled.
Statuses == {"usable", "not installed"}
Usable(status) == status = "usable"

Unused == [at |-> "unused", bead |-> NoBead, data |-> 0, with |-> 0, cancelled |-> FALSE,
           next |-> 0, failed |-> FALSE, found |-> FALSE, from |-> 0, usable |-> FALSE]

LookInit ==
    /\ dataGeneration = 1 /\ selected \in Bead /\ modal = {}
    /\ request = NoRequest /\ correlator = 0
    /\ results = [g \in 1 .. MaxData |-> {}]
    /\ detector = "none" /\ probes = [g \in 1 .. MaxData |-> "none"]
    /\ health = [d \in Detector |-> "unknown"] /\ prober = [d \in Detector |-> Free]
    /\ startup = "probing" /\ lookup = [r \in Request |-> Unused] /\ expiries = 0

-----------------------------------------------------------------------------
cassLookupIsCurrent(r, bead, generation) ==
    lookup[r].data = generation /\ lookup[r].bead = bead

(* The deferred end of every Update: a request that is no longer current,  *)
(* or that the handler replaced, is cancelled.                             *)
AfterUpdate(bead, generation, keep) ==
    IF request = NoRequest \/ (keep /\ cassLookupIsCurrent(request, bead, generation))
    THEN UNCHANGED <<request, lookup>>
    ELSE /\ request' = NoRequest
         /\ lookup' = [lookup EXCEPT ![request].cancelled = TRUE]

showCassSessionModal(r) ==
    /\ request = NoRequest /\ modal = {} /\ lookup[r] = Unused
    /\ detector' = IF detector = "none" THEN "own" ELSE detector
    /\ correlator' = IF correlator = 0 THEN dataGeneration ELSE correlator
    /\ probes' = IF correlator = 0 THEN [probes EXCEPT ![dataGeneration] = detector'] ELSE probes
    /\ request' = r
    /\ lookup' = [lookup EXCEPT ![r] = [Unused EXCEPT !.at = "queued", !.bead = selected,
                     !.data = dataGeneration, !.with = correlator']]
    /\ UNCHANGED <<dataGeneration, selected, modal, cassPart, startup>>

\* V or Esc while a lookup is running.
PressCancel ==
    /\ request # NoRequest
    /\ AfterUpdate(selected, dataGeneration, FALSE)
    /\ UNCHANGED <<dataGeneration, selected, modal, correlator, detector, probes, cassPart, startup>>

SelectionMoves ==
    /\ modal = {}
    /\ \E b \in Bead :
          b # selected /\ selected' = b /\ AfterUpdate(b, dataGeneration, TRUE)
    /\ UNCHANGED <<dataGeneration, modal, correlator, detector, probes, cassPart, startup>>

CloseModal ==
    /\ modal # {} /\ modal' = {}
    /\ UNCHANGED <<dataGeneration, selected, request, correlator, detector, probes,
                   cassPart, startup, lookup>>

\* Fault: the correlator and its cache serve the next dataset too.
KeepsCorrelator(old) == old

DropsCorrelator(old) == 0

beginSemanticDatasetUpdate ==
    /\ dataGeneration < MaxData /\ dataGeneration' = dataGeneration + 1
    /\ correlator' = DropsCorrelator(correlator)
    /\ AfterUpdate(selected, dataGeneration + 1, FALSE)
    /\ UNCHANGED <<selected, modal, detector, probes, cassPart, startup>>

AdoptIfNone(d) == IF d = "none" THEN "startup" ELSE d

CassHealthMsg ==
    /\ startup = "sent" /\ startup' = "done"
    /\ detector' = AdoptIfNone(detector)
    /\ UNCHANGED <<dataGeneration, selected, modal, request, correlator, probes, cassPart, lookup>>

cassSessionsLoadedMsg(r) ==
    LET l == lookup[r]
    IN  /\ l.at = "sent"
        /\ LET answered == [lookup EXCEPT ![r].at = "done"]
           IN  IF request = r /\ cassLookupIsCurrent(r, selected, dataGeneration)
               THEN /\ request' = NoRequest
                    /\ modal' = IF l.usable /\ l.found THEN {[bead |-> l.bead, from |-> l.from]}
                                ELSE {}
                    /\ lookup' = [answered EXCEPT ![r].cancelled = TRUE]
               ELSE lookup' = answered /\ UNCHANGED <<request, modal>>
        /\ UNCHANGED <<dataGeneration, selected, correlator, detector, probes, cassPart, startup>>

-----------------------------------------------------------------------------
Move(r, changed) == lookup' = [lookup EXCEPT ![r] = changed]
Quiet == UNCHANGED <<uiPart, startup, expiries>>

Send(l) == [l EXCEPT !.at = "sent"]

LookupStarts(r) ==
    LET l == lookup[r]
    IN  /\ l.at = "queued"
        /\ Move(r, IF l.cancelled THEN Send(l) ELSE [l EXCEPT !.at = "check"])
        /\ Quiet /\ UNCHANGED <<results, health, prober>>

(* After Detector.Check: in the command itself before the first search,    *)
(* in Search before each of them.                                          *)
Failed(l) ==
    IF l.next < Strategies THEN [l EXCEPT !.failed = TRUE, !.at = "check", !.next = @ + 1]
    ELSE [l EXCEPT !.failed = TRUE, !.at = "finish"]

Checked(l, status) ==
    CASE l.next = 0 /\ (l.cancelled \/ ~Usable(status)) -> [Send(l) EXCEPT !.usable = Usable(status)]
      [] l.next = 0 /\ ~l.cancelled /\ Usable(status) -> [l EXCEPT !.at = "correlate", !.usable = TRUE]
      [] l.next > 0 /\ Usable(status) -> [l EXCEPT !.at = "run"]
      [] l.next > 0 /\ ~Usable(status) -> Failed(l)

Check(r) ==
    LET l == lookup[r]
        d == probes[l.with]
    IN  /\ l.at = "check"
        /\ \/ health[d] # "unknown" /\ Move(r, Checked(l, health[d])) /\ UNCHANGED prober
           \/ /\ health[d] = "unknown" /\ prober[d] = Free
              /\ prober' = [prober EXCEPT ![d] = r]
              /\ Move(r, [l EXCEPT !.at = "probe"])
        /\ Quiet /\ UNCHANGED <<results, health>>

\* Fault: the mutex of the probe is kept.
LeaveLocked(d) == UNCHANGED prober

UnlockProbe(d) == prober' = [prober EXCEPT ![d] = Free]

\* cass health answers, fails, or runs into healthTimeout.
ProbeEnds(r) ==
    LET l == lookup[r]
        d == probes[l.with]
    IN  /\ l.at = "probe"
        /\ \E s \in Statuses : health' = [health EXCEPT ![d] = s] /\ Move(r, Checked(l, s))
        /\ UnlockProbe(d)
        /\ Quiet /\ UNCHANGED results

(* Correlate: the cache first.                                             *)
GetCached(r) ==
    LET l == lookup[r]
        hits == {e \in results[l.with] : e.bead = l.bead}
    IN  /\ l.at = "correlate"
        /\ \/ \E e \in hits : Move(r, [Send(l) EXCEPT !.found = e.found, !.from = e.from])
           \/ hits = {} /\ Move(r, [l EXCEPT !.at = "check", !.next = 1])
        /\ Quiet /\ UNCHANGED <<results, health, prober>>

(* One search under its deadline; a cancelled one is killed.  One that runs*)
(* out of its budget still brings what it has found, and an error with it. *)
SearchEnds(r) ==
    LET l == lookup[r]
    IN  /\ l.at = "run"
        /\ \/ Move(r, Failed(l))
           \/ \E ranOut \in BOOLEAN :
                 ~l.cancelled /\ Move(r, [l EXCEPT !.at = "finish", !.found = TRUE,
                                                  !.failed = @ \/ ranOut])
           \/ ~l.cancelled /\ Move(r, [Failed(l) EXCEPT !.failed = l.failed])
        /\ Quiet /\ UNCHANGED <<results, health, prober>>

Cacheable(l) == ~l.failed

cacheResult(r) ==
    LET l == [lookup[r] EXCEPT !.from = lookup[r].data]
    IN  /\ l.at = "finish"
        /\ results' = IF Cacheable(l)
                      THEN [results EXCEPT ![l.with] = {e \in @ : e.bead # l.bead} \cup
                              {[bead |-> l.bead, found |-> l.found, from |-> l.from,
                                complete |-> ~l.failed]}]
                      ELSE results
        /\ Move(r, Send(l))
        /\ Quiet /\ UNCHANGED <<health, prober>>

StartupProbe ==
    /\ startup = "probing" /\ startup' = "sent"
    /\ \E s \in Statuses : health' = [health EXCEPT !["startup"] = s]
    /\ UNCHANGED <<uiPart, results, prober, expiries, lookup>>

HealthExpires(d) ==
    /\ health[d] # "unknown" /\ expiries < MaxExpiries /\ expiries' = expiries + 1
    /\ health' = [health EXCEPT ![d] = "unknown"]
    /\ UNCHANGED <<uiPart, results, prober, startup, lookup>>

LookupStep(r) ==
    \/ LookupStarts(r) \/ Check(r) \/ ProbeEnds(r) \/ GetCached(r)
    \/ SearchEnds(r) \/ cacheResult(r)

LookNext ==
    \/ PressCancel \/ SelectionMoves \/ CloseModal \/ beginSemanticDatasetUpdate
    \/ CassHealthMsg \/ StartupProbe
    \/ \E r \in Request : showCassSessionModal(r) \/ cassSessionsLoadedMsg(r) \/ LookupStep(r)
    \/ \E d \in Detector : HealthExpires(d)

LookSpec == LookInit /\ [][LookNext]_lookVars

-----------------------------------------------------------------------------
LookPoints == {"unused", "queued", "check", "probe", "correlate", "run", "finish",
               "sent", "done"}

LookTypeOK ==
    /\ dataGeneration \in 1 .. MaxData /\ correlator \in 0 .. dataGeneration
    /\ detector \in Detector \cup {"none"}
    /\ request # NoRequest => ~lookup[request].cancelled /\ lookup[request].at # "done"
    /\ \A r \in Request : lookup[r].at \in LookPoints
    /\ \A d \in Detector : prober[d] # Free => lookup[prober[d]].at = "probe"
    /\ correlator # 0 => probes[correlator] = detector

\* The window opens for the selected bead, with what was found for it in this dataset.
OpensForSelection ==
    modal' # modal => modal' \subseteq {[bead |-> selected, from |-> dataGeneration]}

(* A lookup that was cancelled, timed out or found no cass never answers a *)
(* later one (cacheResult).                                                *)
IncompleteNeverCached ==
    \A g \in 1 .. MaxData : \A e \in results[g] : e.complete /\ e.from = g

(* Whatever was cancelled, moved or reloaded since V, a window of sessions *)
(* shows the bead that is selected as it is in the loaded dataset, and all *)
(* a later lookup may take from the cache was found by a complete one      *)
(* (cassLookupIsCurrent, cacheResult, beginSemanticDatasetUpdate drops the *)
(* correlator).                                                            *)
LookupsAnswerTheirBead == [][OpensForSelection /\ IncompleteNeverCached']_lookVars

=============================================================================
