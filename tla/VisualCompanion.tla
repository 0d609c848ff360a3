-------------------------- MODULE VisualCompanion --------------------------
(***************************************************************************)
(* The visual companion: the designer agent writes screens into a          *)
(* directory, server.cjs watches it and tells the browser tab to reload,   *)
(* helper.js sends the user's clicks back, the server appends them to the  *)
(* events file, and the agent reads it in its next turn.  Agent, watcher,  *)
(* tab and network are four parties; the server may end and be started     *)
(* again between any two of their steps.                                   *)
(***************************************************************************)
EXTENDS Integers, Sequences, FiniteSets, SequencesExt

CONSTANTS
  Screen,       \* the names of the .html files
  MaxPushes, MaxClicks,
  MaxStops,     \* bound: times the server ends
  MaxDrops      \* bound: times the connection drops on its own

ASSUME CompanionAssumption ==
  {MaxPushes, MaxClicks, MaxStops, MaxDrops} \subseteq Nat

VARIABLES
  server,     \* the process: where it listens, and whether it fell back
  markers,    \* of server-info and server-stopped, those that are there
  saved,      \* the address in .last-port and .last-token
  foreign,    \* another session of the project listens at the address
  screens,    \* screens[s]: the stamp of the last write of s, 0 for none
  known,      \* knownFiles
  timers,     \* the files a debounce timer is running for
  events,     \* the lines of state/events
  tab,        \* the open page and its connection
  wire,       \* clicks sent and not yet handled
  reload,     \* the server told the tab to reload
  agent,      \* "ready" once the agent has seen or made the server alive
  fresh,      \* the stamp at which a screen with a new name was last written
  announced,  \* the screens whose arrival has cleared the events
  pushes, clicks, stops, drops

vars == <<server, markers, saved, foreign, screens, known, timers, events,
          tab, wire, reload, agent, fresh, announced, pushes, clicks, stops,
          drops>>

(* A port with its key.  The first start of a project picks `own'; a server *)
(* that finds it taken draws another port and another key.                  *)
Address == {"own", "other"}
Stamp == 0..MaxPushes
Click == [n: 1..MaxClicks, on: Stamp]

TypeOK ==
  /\ server \in [up: BOOLEAN, addr: Address, fell: BOOLEAN]
  /\ markers \subseteq {"server-info", "server-stopped"}
  /\ saved \in Address /\ foreign \in BOOLEAN
  /\ screens \in [Screen -> Stamp] /\ fresh \in Stamp
  /\ known \subseteq Screen /\ timers \subseteq Screen /\ announced \subseteq Screen
  /\ events \in Seq(Click) /\ wire \in Seq(Click)
  /\ tab \in [addr: Address \cup {"none"}, shown: Stamp, linked: BOOLEAN,
              tombstone: BOOLEAN, stale: BOOLEAN, queue: Seq(Click)]
  /\ reload \in BOOLEAN /\ agent \in {"idle", "ready"}

(* getNewestScreen by mtime; 0 is the waiting page. *)
Newest == CHOOSE t \in {screens[s] : s \in Screen} \cup {0} :
            \A s \in Screen : screens[s] <= t

SeenAlive == markers = {"server-info"}
-----------------------------------------------------------------------------
(* server.cjs ends: what it had in memory is gone, and so is what was      *)
(* under way.                                                              *)
Down ==
  /\ known' = {} /\ timers' = {} /\ wire' = <<>> /\ reload' = FALSE
  /\ tab' = [tab EXCEPT !.linked = FALSE]

(* shutdown(): the owner process is gone or nothing happened for hours. *)
Shutdown ==
  /\ server.up /\ stops < MaxStops
  /\ stops' = stops + 1
  /\ server' = [server EXCEPT !.up = FALSE]
  /\ markers' = {"server-stopped"}
  /\ Down
  /\ UNCHANGED <<saved, foreign, screens, events, agent, fresh, announced,
                 pushes, clicks, drops>>

(* The process is killed, by a reboot for one: no marker is written. *)
Killed ==
  /\ server.up /\ stops < MaxStops
  /\ stops' = stops + 1
  /\ server' = [server EXCEPT !.up = FALSE]
  /\ Down
  /\ UNCHANGED <<markers, saved, foreign, screens, events, agent, fresh,
                 announced, pushes, clicks, drops>>

(* Mutant: after EADDRINUSE no other port is drawn. *)
BoundNowhere(taken) == IF taken THEN "none" ELSE saved

(* preferredPort, EADDRINUSE and onListen: what is bound, what is saved.   *)
Bound(taken) == IF taken THEN "other" ELSE saved
(* Mutant: a fallback is saved as well. *)
SavedAlways(taken) == Bound(taken)

Saved(taken) == IF taken THEN saved ELSE Bound(taken)

(* Mutant: a server starts without looking at the directory. *)
KnownNone == {}
KnownAtStart == {s \in Screen : screens[s] # 0}

(* start-server.sh: the old process is killed, not waited for, so that it  *)
(* may still hold the port; server-stopped stays where it is.              *)
Start ==
  /\ agent = "idle" /\ ~SeenAlive
  /\ \E taken \in BOOLEAN :
       /\ foreign => taken
       /\ taken => foreign \/ server.up
       /\ server' = [up |-> TRUE, addr |-> Bound(taken), fell |-> taken]
       /\ saved' = Saved(taken)
  /\ markers' = markers \cup {"server-info"}
  /\ known' = KnownAtStart /\ timers' = {} /\ wire' = <<>> /\ reload' = FALSE
  /\ tab' = [tab EXCEPT !.linked = FALSE]
  /\ agent' = "ready"
  /\ UNCHANGED <<foreign, screens, events, fresh, announced, pushes, clicks,
                 stops, drops>>

(* A session of another feature, which shares the two files. *)
Foreign ==
  /\ foreign \/ ~ (server.up /\ server.addr = "own")
  /\ foreign' = ~foreign
  /\ UNCHANGED <<server, markers, saved, screens, known, timers, events, tab,
                 wire, reload, agent, fresh, announced, pushes, clicks,
                 stops, drops>>
-----------------------------------------------------------------------------
(* The agent: confirm that the server is alive, then write a screen. *)
CheckAlive ==
  /\ agent = "idle" /\ SeenAlive
  /\ agent' = "ready"
  /\ UNCHANGED <<server, markers, saved, foreign, screens, known, timers,
                 events, tab, wire, reload, fresh, announced, pushes, clicks,
                 stops, drops>>

Push(s) ==
  /\ agent = "ready" /\ pushes < MaxPushes
  /\ pushes' = pushes + 1
  /\ screens' = [screens EXCEPT ![s] = pushes']
  /\ fresh' = IF screens[s] = 0 THEN pushes' ELSE fresh
  /\ timers' = IF server.up THEN timers \cup {s} ELSE timers
  /\ agent' = "idle"
  /\ UNCHANGED <<server, markers, saved, foreign, known, events, tab, wire,
                 reload, announced, clicks, stops, drops>>

(* Mutant: only a new screen is announced to the tab. *)
ToldOfNew(s) == reload \/ (tab.linked /\ s \notin known)
Told(s) == reload \/ tab.linked

(* 100 ms after the last write of s. *)
Announce(s) ==
  /\ server.up /\ s \in timers
  /\ timers' = timers \ {s}
  /\ IF s \in known THEN UNCHANGED <<known, events, announced>>
     ELSE /\ known' = known \cup {s}
          /\ events' = <<>>
          /\ announced' = announced \cup {s}
  /\ reload' = Told(s)
  /\ UNCHANGED <<server, markers, saved, foreign, screens, tab, wire, agent,
                 fresh, pushes, clicks, stops, drops>>

(* handleMessage *)
Handle ==
  /\ server.up /\ wire # <<>>
  /\ events' = Append(events, Head(wire))
  /\ wire' = Tail(wire)
  /\ UNCHANGED <<server, markers, saved, foreign, screens, known, timers, tab,
                 reload, agent, fresh, announced, pushes, clicks, stops, drops>>
-----------------------------------------------------------------------------
(* helper.js.  A page that loads starts anew: with it goes its queue. *)
Page(addr) ==
  [addr |-> addr, shown |-> Newest, linked |-> FALSE, tombstone |-> FALSE,
   stale |-> FALSE, queue |-> <<>>]

(* The user opens the URL of the server, or reloads the page. *)
Open ==
  /\ server.up
  /\ IF tab.addr = server.addr
     THEN drops < MaxDrops /\ drops' = drops + 1 ELSE drops' = drops
  /\ tab' = Page(server.addr) /\ reload' = FALSE
  /\ UNCHANGED <<server, markers, saved, foreign, screens, known, timers,
                 events, wire, agent, fresh, announced, pushes, clicks, stops>>

ReceiveReload ==
  /\ reload /\ tab.linked
  /\ tab' = Page(tab.addr) /\ reload' = FALSE
  /\ UNCHANGED <<server, markers, saved, foreign, screens, known, timers,
                 events, wire, agent, fresh, announced, pushes, clicks, stops,
                 drops>>

(* Mutant: what was queued is sent and kept. *)
QueueKept == tab.queue
QueueAfterOpen == <<>>

(* ws.onopen: the queue is sent; only after a tombstone the page is loaded *)
(* again.  tab.stale records a page whose socket opens when the newest     *)
(* screen, which it does not show, has been announced already: one that    *)
(* has just been loaded for the first time, or one that reconnects.        *)
Connect ==
  /\ server.up /\ tab.addr = server.addr /\ ~tab.linked
  /\ wire' = wire \o tab.queue
  /\ tab' = IF tab.tombstone THEN Page(tab.addr)
            ELSE [tab EXCEPT
                    !.linked = TRUE, !.queue = QueueAfterOpen,
                    !.stale = /\ tab.shown # Newest
                              /\ \A s \in timers : screens[s] # Newest]
  /\ UNCHANGED <<server, markers, saved, foreign, screens, known, timers,
                 events, reload, agent, fresh, announced, pushes, clicks,
                 stops, drops>>

(* The connection is lost, and with it the last of what was sent. *)
Drop ==
  /\ tab.linked /\ drops < MaxDrops
  /\ drops' = drops + 1
  /\ tab' = [tab EXCEPT !.linked = FALSE]
  /\ wire' \in Prefixes(wire)
  /\ reload' = FALSE
  /\ UNCHANGED <<server, markers, saved, foreign, screens, known, timers,
                 events, agent, fresh, announced, pushes, clicks, stops>>

(* Fifteen seconds without a connection. *)
Tombstone ==
  /\ tab.addr # "none" /\ ~tab.linked /\ ~tab.tombstone
  /\ tab' = [tab EXCEPT !.tombstone = TRUE]
  /\ UNCHANGED <<server, markers, saved, foreign, screens, known, timers,
                 events, wire, reload, agent, fresh, announced, pushes,
                 clicks, stops, drops>>

ClickChoice ==
  /\ tab.shown # 0 /\ ~tab.tombstone /\ clicks < MaxClicks
  /\ clicks' = clicks + 1
  /\ LET click == [n |-> clicks', on |-> tab.shown] IN
       IF tab.linked
       THEN wire' = Append(wire, click) /\ tab' = tab
       ELSE tab' = [tab EXCEPT !.queue = Append(@, click)] /\ wire' = wire
  /\ UNCHANGED <<server, markers, saved, foreign, screens, known, timers,
                 events, reload, agent, fresh, announced, pushes, stops, drops>>
-----------------------------------------------------------------------------
Init ==
  /\ server = [up |-> FALSE, addr |-> "own", fell |-> FALSE]
  /\ markers = {} /\ saved = "own" /\ foreign = FALSE
  /\ screens = [s \in Screen |-> 0] /\ fresh = 0
  /\ known = {} /\ timers = {} /\ announced = {}
  /\ events = <<>> /\ wire = <<>> /\ reload = FALSE
  /\ tab = [Page("none") EXCEPT !.shown = 0]
  /\ agent = "idle"
  /\ pushes = 0 /\ clicks = 0 /\ stops = 0 /\ drops = 0

Server == (\E s \in Screen : Announce(s)) \/ Handle
Tab == ReceiveReload \/ Connect

Next ==
  \/ Shutdown \/ Killed \/ Start \/ Foreign
  \/ CheckAlive \/ \E s \in Screen : Push(s)
  \/ Server \/ Tab
  \/ Open \/ Drop \/ Tombstone \/ ClickChoice

(* Timers fire and messages arrive; a tab that lost its connection tries   *)
(* again.  Nobody has to push, click, start or stop.                       *)
Spec ==
  /\ Init /\ [][Next]_vars
  /\ \A s \in Screen : WF_vars(Announce(s))
  /\ WF_vars(Handle) /\ WF_vars(ReceiveReload) /\ WF_vars(Connect)
-----------------------------------------------------------------------------
(* A click is recorded at most once and in the order of the clicks,        *)
(* through drops, queued clicks and restarts.                              *)
ClicksInOrder ==
  \A i, j \in 1..Len(events) : i < j => events[i].n < events[j].n

(* A screen clears the events at most once, when it is new: iterating on   *)
(* it erases no click, not even when the server was restarted between.     *)
UpdateKeepsClicks ==
  [][\A s \in Screen :
       Announce(s) /\ s \in announced => events' = events]_vars

(* A server that found its port free listens where every earlier one did,  *)
(* under the key the open tab has: no fallback in between, of this or      *)
(* another session, moves the address.                                     *)
FallbackStrandsNobody == server.up /\ ~server.fell => server.addr = "own"

(* A page is up to date or will be: it shows the newest screen, the server *)
(* has told it to reload, or a timer runs for that screen.                 *)
UnderWay ==
  \/ tab.shown = Newest \/ reload
  \/ \E s \in timers : screens[s] = Newest

(* What is under way to a tab stays so, and what is written becomes so, in *)
(* every step that leaves the tab connected: no order of pushes, timers,   *)
(* reloads, drops and restarts loses a reload in between (server.cjs and   *)
(* helper.js), and the next screen repairs what a connection came too late *)
(* for.                                                                    *)
ReloadsAreKept ==
  [][tab'.linked /\ (UnderWay \/ Newest' # Newest) => UnderWay']_vars

(* Every screen reaches the tab: if from some time on the server is up at  *)
(* the tab's address, the tab shows the newest screen for good, but for    *)
(* one case: its socket opened, for the first time or again, after that    *)
(* screen had been announced, and it had not become a tombstone.           *)
ScreensReachTheTab ==
  <>[](server.up /\ tab.addr = server.addr /\ ~tab.stale)
    => <>[](tab.shown = Newest)

(* What SKILL.md says of the events: cleared when a new screen is pushed.  *)
(* When everything under way has arrived, no click on an earlier screen is *)
(* among them.                                                             *)
EventsAreOfTheNewScreen ==
  server.up /\ timers = {} /\ wire = <<>> /\ ~reload =>
    \A i \in 1..Len(events) : events[i].on >= fresh
=============================================================================
