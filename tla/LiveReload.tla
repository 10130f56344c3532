------------------------------- MODULE LiveReload -------------------------------
(***************************************************************************)
(* pkg/export/livereload.go under StartPreviewWithConfig: a hub watches    *)
(* the bundle and tells the handler of every connected page to reload it,  *)
(* while pages load, connect, lose their connection and come back, and the *)
(* owner stops the hub and shuts the server down.                          *)
(***************************************************************************)
EXTENDS Naturals, FiniteSets

CONSTANTS
    Page,         \* browser tabs
    MaxChanges,   \* bound: writes in the bundle
    MaxConnects   \* bound: event streams ever opened

ASSUME LiveReloadAssumption == MaxChanges \in Nat /\ MaxConnects \in Nat \ {0}

VARIABLES
    bundle,       \* the revision of the files in the bundle
    page,         \* the event stream of each tab, and whether it has the page
    stream,       \* the SSE handlers: program counter, context, channel; history:
                  \* the revision of the bundle when the client was added
    hubClients,   \* h.clients
    hubDone,      \* h.done is closed
    fsEvents,     \* events in the watcher's channel
    recentEvent,  \* h.lastEvent is less than the debounce interval ago
    notify,       \* whom notifyClients, holding the read lock, has left; Idle outside
    watchPc,      \* watchLoop
    previewOwner, \* StartPreviewWithConfig
    listening     \* httpServer.Serve accepts connections

hubVars == <<hubClients, hubDone, fsEvents, recentEvent, notify, watchPc>>
liveVars == <<bundle, page, stream, hubVars, previewOwner, listening>>

Connection == 1 .. MaxConnects
NoStream == 0
Idle == {0}

ClosedStream == [pc |-> "none", cancelled |-> FALSE, signal |-> FALSE, closed |-> FALSE,
                 since |-> 0]

LiveInit ==
    /\ bundle = 0 /\ page = [p \in Page |-> [es |-> NoStream, loaded |-> FALSE]]
    /\ stream = [k \in Connection |-> ClosedStream]
    /\ hubClients = {} /\ hubDone = FALSE /\ fsEvents = 0 /\ recentEvent = FALSE
    /\ notify = Idle /\ watchPc = "select"
    /\ previewOwner = "select" /\ listening = TRUE

\* Nobody holds h.mu; the read lock is held across the sends of notifyClients.
Unlocked == notify = Idle

-----------------------------------------------------------------------------
FileChanges ==
    /\ bundle < MaxChanges /\ bundle' = bundle + 1
    /\ fsEvents' = IF hubDone THEN fsEvents ELSE fsEvents + 1
    /\ UNCHANGED <<page, stream, hubClients, hubDone, recentEvent, notify, watchPc,
                   previewOwner, listening>>

DebouncePasses ==
    /\ recentEvent /\ recentEvent' = FALSE
    /\ UNCHANGED <<bundle, page, stream, hubClients, hubDone, fsEvents, notify, watchPc,
                   previewOwner, listening>>

(* An event within the interval after the last one that was passed on is   *)
(* dropped.                                                                *)
WatchEvent ==
    /\ watchPc = "select" /\ Unlocked /\ fsEvents > 0
    /\ fsEvents' = fsEvents - 1
    /\ recentEvent' = TRUE
    /\ notify' = IF recentEvent THEN Idle ELSE hubClients
    /\ watchPc' = IF recentEvent THEN "select" ELSE "notify"
    /\ UNCHANGED <<bundle, page, stream, hubClients, hubDone, previewOwner, listening>>

WatchDone ==
    /\ watchPc = "select" /\ hubDone /\ watchPc' = "returned"
    /\ UNCHANGED <<bundle, page, stream, hubClients, hubDone, fsEvents, recentEvent, notify,
                   previewOwner, listening>>

(* A send to a client that has not taken the last signal is skipped.       *)
notifyClients ==
    /\ watchPc = "notify"
    /\ \/ \E k \in notify :
             /\ notify' = notify \ {k}
             /\ stream' = [stream EXCEPT ![k].signal = TRUE]
             /\ UNCHANGED watchPc
       \/ notify = {} /\ notify' = Idle /\ watchPc' = "select" /\ UNCHANGED stream
    /\ UNCHANGED <<bundle, page, hubClients, hubDone, fsEvents, recentEvent, previewOwner,
                   listening>>

-----------------------------------------------------------------------------
(* The browser: a tab loads the page, the script opens an event stream, and*)
(* a second later another one when it breaks.                              *)
PageLoads(p) ==
    /\ listening /\ ~page[p].loaded
    /\ page' = [page EXCEPT ![p].loaded = TRUE]
    /\ UNCHANGED <<bundle, stream, hubVars, previewOwner, listening>>

Connects(p, k) ==
    /\ listening /\ page[p].loaded /\ page[p].es = NoStream
    /\ stream[k].pc = "none" /\ \A j \in 1 .. k - 1 : stream[j].pc # "none"
    /\ page' = [page EXCEPT ![p].es = k]
    /\ stream' = [stream EXCEPT ![k].pc = "register"]
    /\ UNCHANGED <<bundle, hubVars, previewOwner, listening>>

\* The network, or the read timeout of the server, ends the request's context.
Disconnects(p) ==
    /\ page[p].es # NoStream
    /\ page' = [page EXCEPT ![p].es = NoStream]
    /\ stream' = [stream EXCEPT ![page[p].es].cancelled = TRUE]
    /\ UNCHANGED <<bundle, hubVars, previewOwner, listening>>

-----------------------------------------------------------------------------
addClient(k) ==
    /\ stream[k].pc = "register" /\ Unlocked
    /\ hubClients' = hubClients \cup {k}
    /\ stream' = [stream EXCEPT ![k].pc = "select", ![k].since = bundle]
    /\ UNCHANGED <<bundle, page, hubDone, fsEvents, recentEvent, notify, watchPc,
                   previewOwner, listening>>

\* Fault: the handler relies on its channel being closed.
OnlyChannelEnds(k) == stream[k].closed /\ ~stream[k].signal

Ends(k) == stream[k].cancelled \/ hubDone \/ (stream[k].closed /\ ~stream[k].signal)

SSELeaves(k) ==
    /\ stream[k].pc = "select" /\ Ends(k)
    /\ stream' = [stream EXCEPT ![k].pc = "leaving"]
    /\ page' = [p \in Page |-> IF page[p].es = k THEN [page[p] EXCEPT !.es = NoStream] ELSE page[p]]
    /\ UNCHANGED <<bundle, hubVars, previewOwner, listening>>

(* A reload event makes the tab load the page again, which closes its event*)
(* stream; an event for a stream that was closed goes nowhere.             *)
SSEReloads(k) ==
    /\ stream[k].pc = "select" /\ stream[k].signal
    /\ \/ \E p \in Page :
             /\ page[p].es = k
             /\ page' = [page EXCEPT ![p] = [es |-> NoStream, loaded |-> FALSE]]
             /\ stream' = [stream EXCEPT ![k].signal = FALSE, ![k].cancelled = TRUE]
       \/ /\ \A p \in Page : page[p].es # k
          /\ stream' = [stream EXCEPT ![k].signal = FALSE]
          /\ UNCHANGED page
    /\ UNCHANGED <<bundle, hubVars, previewOwner, listening>>

removeClient(k) ==
    /\ stream[k].pc = "leaving" /\ Unlocked
    /\ hubClients' = hubClients \ {k}
    /\ stream' = [stream EXCEPT ![k].pc = "gone"]
    /\ UNCHANGED <<bundle, page, hubDone, fsEvents, recentEvent, notify, watchPc,
                   previewOwner, listening>>

SSEHandler(k) == addClient(k) \/ SSELeaves(k) \/ SSEReloads(k) \/ removeClient(k)

-----------------------------------------------------------------------------
(* The owner: a signal, or a server that fails, and then LiveReloadHub.Stop*)
(* in two steps: done and the watcher are closed without the lock.         *)
OwnerWakes ==
    /\ previewOwner = "select"
    /\ \/ previewOwner' = "signalled" /\ UNCHANGED listening
       \/ previewOwner' = "failed" /\ listening' = FALSE
    /\ hubDone' = TRUE
    /\ UNCHANGED <<bundle, page, stream, hubClients, fsEvents, recentEvent, notify, watchPc>>

\* Fault: the channels are closed but stay in the map.
KeepsClients == hubClients

DropsClients == {}

HubCloses ==
    /\ previewOwner \in {"signalled", "failed"} /\ Unlocked
    /\ stream' = [k \in Connection |->
                     IF k \in hubClients THEN [stream[k] EXCEPT !.closed = TRUE] ELSE stream[k]]
    /\ hubClients' = DropsClients
    /\ previewOwner' = IF previewOwner = "signalled" THEN "stopped" ELSE "returned"
    /\ UNCHANGED <<bundle, page, hubDone, fsEvents, recentEvent, notify, watchPc, listening>>

Handling == {k \in Connection : stream[k].pc \notin {"none", "gone"}}

\* Shutdown closes the listener and waits for the handlers; its deadline is not
\* needed (ShutdownIsGraceful).
ShutdownBegins ==
    /\ previewOwner = "stopped" /\ previewOwner' = "shutdown" /\ listening' = FALSE
    /\ UNCHANGED <<bundle, page, stream, hubVars>>

ShutdownReturns ==
    /\ previewOwner = "shutdown" /\ Handling = {}
    /\ previewOwner' = "returned"
    /\ UNCHANGED <<bundle, page, stream, hubVars, listening>>

HubStep ==
    \/ WatchEvent \/ WatchDone \/ notifyClients
    \/ HubCloses \/ ShutdownBegins \/ ShutdownReturns

LiveNext ==
    \/ FileChanges \/ DebouncePasses \/ OwnerWakes \/ HubStep
    \/ \E p \in Page : PageLoads(p) \/ Disconnects(p) \/ \E k \in Connection : Connects(p, k)
    \/ \E k \in Connection : SSEHandler(k)

LiveReloadSpec == LiveInit /\ [][LiveNext]_liveVars

\* Goroutines run; the signal, the files and the browser owe nothing.
LiveReloadFairSpec ==
    /\ LiveReloadSpec /\ WF_liveVars(HubStep)
    /\ \A k \in Connection : WF_liveVars(SSEHandler(k))

-----------------------------------------------------------------------------
LiveTypeOK ==
    /\ bundle \in 0 .. MaxChanges /\ fsEvents \in 0 .. MaxChanges
    /\ hubClients \subseteq Connection
    /\ \A k \in Connection : stream[k].pc \in {"none", "register", "select", "leaving", "gone"}
    /\ watchPc = "notify" <=> notify # Idle

(* notifyClients never sends on a channel that Stop has closed, which would*)
(* panic: Stop empties the map under the lock that the sends hold          *)
(* (LiveReloadHub.Stop, notifyClients).                                    *)
NoSendOnClosed == watchPc = "notify" => \A k \in notify : ~stream[k].closed

(* Once the owner is told to stop, every handler ends by itself, one that  *)
(* registers after Stop has closed the channels included, so that Shutdown *)
(* does not have to wait for its deadline.                                 *)
ShutdownIsGraceful == previewOwner # "select" ~> (previewOwner = "returned" /\ Handling = {})

(* "When files change in the bundle directory, connected browsers receive  *)
(* reload events" (livereload.go:4): when every event has been handled and a*)
(* tab is still connected, nothing has changed since it connected.         *)
ConnectedPagesAreCurrent ==
    \A k \in hubClients :
        ~stream[k].cancelled /\ ~hubDone /\ fsEvents = 0 /\ Unlocked /\ ~stream[k].signal =>
            stream[k].since = bundle
=============================================================================
