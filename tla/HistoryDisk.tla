------------------------------ MODULE HistoryDisk ------------------------------
(***************************************************************************)
(* pkg/correlation: GenerateReportCached answers from two cache files that *)
(* all bv processes share, one with assembled reports (keyed by HEAD and   *)
(* the beads), one with the extracted history (keyed by HEAD). Processes   *)
(* lock a file with flock to read it or to rewrite it in place; they die   *)
(* at any step, and git moves HEAD while the history is being extracted.   *)
(***************************************************************************)
EXTENDS Naturals, Sequences, FiniteSets

CONSTANTS
    Caller,        \* bv processes, one call each
    BeadSet,       \* what the issues read by a process may be
    MaxHead,       \* bound: commits HEAD has been at
    MaxMoves,      \* bound: how often HEAD moves
    HeadReturns,   \* whether HEAD may come back to a commit during one call
    MaxEntries     \* correlationDiskCacheMaxEntries, headArtifactCacheMaxEntries

ASSUME HistAssumption ==
    /\ {MaxHead, MaxEntries} \subseteq Nat \ {0} /\ MaxMoves \in Nat
    /\ HeadReturns \in BOOLEAN /\ "nobody" \notin Caller

VARIABLES
    head, moves,   \* git: the commit HEAD names; how often it has moved
    cached,        \* the two files: the entries, oldest first, and if they parse
    holder,        \* who holds the flock of each file
    at, req,       \* where each process is, and its locals
    kept,          \* history: entries stored, not evicted since, nor lost with the file
    seen           \* history: what HEAD was in the course of each call

histVars == <<head, moves, cached, holder, at, req, kept, seen>>

Layers == {"report", "artifact"}
Nobody == "nobody"
Nothing == [events |-> 0, walk |-> 0]
NoReq == [beads |-> {}, key |-> 0, art |-> Nothing, buf |-> <<>>, result |-> <<>>]

HistInit ==
    /\ head = 1 /\ moves = 0
    /\ cached = [f \in Layers |-> [entries |-> <<>>, torn |-> FALSE]]
    /\ holder = [f \in Layers |-> Nobody]
    /\ at = [c \in Caller |-> "start"] /\ req = [c \in Caller |-> NoReq]
    /\ kept = {} /\ seen = [c \in Caller |-> {}]

Go(c, next) == at' = [at EXCEPT ![c] = next]

Key(f, r) == IF f = "report" THEN <<r.key, r.beads>> ELSE <<r.key>>

\* assembleReport is a function of the beads, the options and the history.
Report(r) == [art |-> r.art, beads |-> r.beads]

\* What a process holding the lock reads: a file cut short does not parse.
Entries(f) == IF cached[f].torn THEN <<>> ELSE cached[f].entries
Hits(f, r) == {k \in DOMAIN Entries(f) : Entries(f)[k].key = Key(f, r)}

Returns(c, report) ==
    /\ Go(c, "done")
    /\ req' = [req EXCEPT ![c].result = <<report>>]

-----------------------------------------------------------------------------
GenerateReportCached(c) ==
    /\ at[c] = "start"
    /\ \E b \in BeadSet : req' = [req EXCEPT ![c].beads = b, ![c].key = head]
    /\ seen' = [seen EXCEPT ![c] = {head}]
    /\ Go(c, "report")
    /\ UNCHANGED <<head, moves, cached, holder, kept>>

getCorrelationDiskCachedReport(c) ==
    /\ at[c] = "report" /\ holder["report"] = Nobody
    /\ \/ \E k \in Hits("report", req[c]) : Returns(c, Entries("report")[k].value)
       \/ Hits("report", req[c]) = {} /\ Go(c, "artifact") /\ UNCHANGED req
    /\ UNCHANGED <<head, moves, cached, holder, kept, seen>>

getHeadArtifactCached(c) ==
    /\ at[c] = "artifact" /\ holder["artifact"] = Nobody
    /\ \/ \E k \in Hits("artifact", req[c]) :
             /\ req' = [req EXCEPT ![c].art = Entries("artifact")[k].value]
             /\ Go(c, "put report")
       \/ Hits("artifact", req[c]) = {} /\ Go(c, "events") /\ UNCHANGED req
    /\ UNCHANGED <<head, moves, cached, holder, kept, seen>>

\* extractHistoryArtifact: the git commands of two strategies, each from HEAD.
ExtractEvents(c) ==
    /\ at[c] = "events"
    /\ req' = [req EXCEPT ![c].art.events = head]
    /\ Go(c, "walk")
    /\ UNCHANGED <<head, moves, cached, holder, kept, seen>>

WalkCommits(c) ==
    /\ at[c] = "walk"
    /\ req' = [req EXCEPT ![c].art.walk = head]
    /\ Go(c, "recheck")
    /\ UNCHANGED <<head, moves, cached, holder, kept, seen>>

\* Fault: the caches are written whatever HEAD has become.
HeadNotChecked(r) == TRUE

HeadUnchanged(r) == head = r.key

putExtractedHistoryCachesIfHeadUnchanged(c) ==
    /\ at[c] = "recheck"
    /\ IF HeadUnchanged(req[c])
       THEN Go(c, "put artifact") /\ UNCHANGED req
       ELSE Returns(c, Report(req[c]))
    /\ UNCHANGED <<head, moves, cached, holder, kept, seen>>

-----------------------------------------------------------------------------
Putting(f) == IF f = "report" THEN "put report" ELSE "put artifact"
Writing(f) == IF f = "report" THEN "write report" ELSE "write artifact"

(* Locks the file, reads it and truncates it.                              *)
BeginPut(c, f) ==
    /\ at[c] = Putting(f) /\ holder[f] = Nobody
    /\ holder' = [holder EXCEPT ![f] = c]
    /\ req' = [req EXCEPT ![c].buf = Entries(f)]
    /\ cached' = [cached EXCEPT ![f].torn = TRUE]
    /\ Go(c, Writing(f))
    /\ UNCHANGED <<head, moves, kept, seen>>

\* Fault: the loop that evicts stops one entry early.
EvictOneLate(entries) ==
    IF Len(entries) <= MaxEntries + 1 THEN entries
    ELSE SubSeq(entries, Len(entries) - MaxEntries, Len(entries))

evictLRU(entries) ==
    IF Len(entries) <= MaxEntries THEN entries
    ELSE SubSeq(entries, Len(entries) - MaxEntries + 1, Len(entries))

Value(f, r) == IF f = "report" THEN Report(r) ELSE r.art

\* The file holds a map: an entry of the same key is replaced, and is the youngest.
Without(entries, key) ==
    LET same == {k \in DOMAIN entries : entries[k].key = key}
        old == CHOOSE k \in same : TRUE
    IN  IF same = {} THEN entries
        ELSE SubSeq(entries, 1, old - 1) \o SubSeq(entries, old + 1, Len(entries))

Stored(c, f) ==
    LET r == req[c]
    IN  evictLRU(Append(Without(r.buf, Key(f, r)), [key |-> Key(f, r), value |-> Value(f, r)]))

KeysOf(f, entries) == {<<f, entries[k].key>> : k \in DOMAIN entries}

\* Fault: the file is written and the lock kept.
KeepLock(c, f) == UNCHANGED holder

Unlock(c, f) == holder' = [holder EXCEPT ![f] = Nobody]

\* Whatever became of the write, its error is dropped and the call goes on.
AfterPut(c, f) ==
    /\ Unlock(c, f)
    /\ IF f = "artifact" THEN Go(c, "put report") /\ UNCHANGED req
       ELSE Returns(c, Report(req[c]))
    /\ UNCHANGED <<head, moves, seen>>

EndPut(c, f) ==
    /\ at[c] = Writing(f)
    /\ cached' = [cached EXCEPT ![f] = [entries |-> Stored(c, f), torn |-> FALSE]]
    /\ kept' = (kept \cup {<<f, Key(f, req[c])>>})
               \ (KeysOf(f, req[c].buf) \ KeysOf(f, Stored(c, f)))
    /\ AfterPut(c, f)

\* The marshalling or the write fails after the truncation: the file is left empty
\* or cut short, and everything in it is gone.
PutFails(c, f) ==
    /\ at[c] = Writing(f)
    /\ kept' = {e \in kept : e[1] # f}
    /\ AfterPut(c, f)
    /\ UNCHANGED cached

\* The kernel releases the flocks of a dead process.
CallerDies(c) ==
    /\ at[c] \notin {"start", "done", "dead"}
    /\ Go(c, "dead")
    /\ holder' = [f \in Layers |-> IF holder[f] = c THEN Nobody ELSE holder[f]]
    /\ kept' = {e \in kept : at[c] # Writing(e[1])}
    /\ UNCHANGED <<head, moves, cached, req, seen>>

Calling == {c \in Caller : at[c] \notin {"start", "done", "dead"}}

\* Another process commits or checks out another commit.
HeadMoves ==
    /\ moves < MaxMoves /\ moves' = moves + 1
    /\ \E h \in 1 .. MaxHead :
          /\ h # head
          /\ HeadReturns \/ \A c \in Calling : h \notin seen[c]
          /\ head' = h
          /\ seen' = [c \in Caller |-> IF c \in Calling THEN seen[c] \cup {h} ELSE seen[c]]
    /\ UNCHANGED <<cached, holder, at, req, kept>>

CallStep(c) ==
    \/ GenerateReportCached(c) \/ getCorrelationDiskCachedReport(c) \/ getHeadArtifactCached(c)
    \/ ExtractEvents(c) \/ WalkCommits(c) \/ putExtractedHistoryCachesIfHeadUnchanged(c)
    \/ \E f \in Layers : BeginPut(c, f) \/ EndPut(c, f) \/ PutFails(c, f)

HistNext == HeadMoves \/ \E c \in Caller : CallStep(c) \/ CallerDies(c)

HistSpec == HistInit /\ [][HistNext]_histVars
HistFairSpec == HistSpec /\ \A c \in Caller : WF_histVars(CallStep(c))

-----------------------------------------------------------------------------
Points == {"start", "report", "artifact", "events", "walk", "recheck", "put artifact",
           "write artifact", "put report", "write report", "done", "dead"}

HistTypeOK ==
    /\ head \in 1 .. MaxHead /\ moves \in 0 .. MaxMoves
    /\ at \in [Caller -> Points]
    /\ \A f \in Layers :
          /\ holder[f] # Nobody => at[holder[f]] = Writing(f)
          /\ Len(cached[f].entries) <= MaxEntries
          /\ \A j, k \in DOMAIN cached[f].entries :
                cached[f].entries[j].key = cached[f].entries[k].key => j = k
    /\ \A c \in Caller : at[c] = "done" <=> Len(req[c].result) = 1

(* The history and the beads of the report a call returns are the caller's *)
(* beads and what HEAD was while the call ran, never anything older or     *)
(* mixed in by another process (GenerateReportCached).                     *)
ReportIsOfTheCall ==
    \A c \in Caller : \A k \in DOMAIN req[c].result :
        LET report == req[c].result[k]
        IN  /\ report.beads = req[c].beads
            /\ {report.art.events, report.art.walk} \subseteq seen[c]

(* What one process stored is found by the next unless it was evicted, or a*)
(* process died or failed between truncating that file and writing it: no  *)
(* rewrite that goes through loses an entry of another process             *)
(* (putCorrelationDiskCachedReport reads under the lock it writes under).  *)
StoredEntriesAreKept ==
    \A e \in kept : holder[e[1]] = Nobody => e \in KeysOf(e[1], Entries(e[1]))

(* The cached report of a history is the caller's own, and what one        *)
(* process stored no other one drops, but by a rewrite of the whole file   *)
(* that does not get to its end (GenerateReportCached).                    *)
HistoryIsCachedTruly == ReportIsOfTheCall /\ StoredEntriesAreKept

(* disk_cache.go:448: writing only if HEAD still is what the key says      *)
(* closes the gap to an extraction of several commands.                    *)
CachedHistoryMatchesKey ==
    \A k \in DOMAIN cached["artifact"].entries :
        LET e == cached["artifact"].entries[k]
        IN  e.value = [events |-> e.key[1], walk |-> e.key[1]]

(* flock waits without a timeout, so a call ends only because every other  *)
(* process lets go of the two files, in whatever state it leaves them.     *)
CallsEnd == \A c \in Caller : at[c] = "report" ~> at[c] \in {"done", "dead"}
=============================================================================
