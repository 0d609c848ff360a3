----------------------- MODULE VisualCompanion_proofs -----------------------
(***************************************************************************)
(* What holds of the visual companion for any number of screens, clicks,   *)
(* restarts and lost connections.                                          *)
(***************************************************************************)
EXTENDS VisualCompanion, SequenceTheorems, TLAPS

----------------------------------------------------------------------------
(* Type correctness.                                                       *)

\* Every stamp is that of a push, and the last push left the newest one.
StampInv ==
  /\ pushes \in 0..MaxPushes
  /\ screens \in [Screen -> 0..pushes]
  /\ pushes = 0 \/ \E s \in Screen : screens[s] = pushes

\* getNewestScreen finds what was pushed last.
LEMMA NewestIsLastPush == StampInv => Newest = pushes
<1> SUFFICES ASSUME StampInv PROVE Newest = pushes
  OBVIOUS
<1>1. MaxPushes \in Nat /\ pushes \in Nat
  BY CompanionAssumption DEF StampInv
<1>2. \A s \in Screen : screens[s] \in Nat /\ screens[s] <= pushes
  BY <1>1 DEF StampInv
<1> DEFINE stamps == {screens[s] : s \in Screen} \cup {0}
<1>3. pushes \in stamps
  BY DEF StampInv
<1>4. \A t \in stamps : (\A s \in Screen : screens[s] <= t) <=> t = pushes
  BY <1>1, <1>2 DEF StampInv
<1> QED BY <1>3, <1>4 DEF Newest

\* A page that loads is a page.
TabType ==
  [addr: Address \cup {"none"}, shown: Stamp, linked: BOOLEAN,
   tombstone: BOOLEAN, stale: BOOLEAN, queue: Seq(Click)]

\* What handleRequest answers is one, at every address.
LEMMA PageType ==
  ASSUME StampInv, NEW addr \in Address \cup {"none"}
  PROVE  Page(addr) \in TabType
BY NewestIsLastPush DEF Page, TabType, StampInv, Stamp

TypeInv == TypeOK /\ StampInv /\ clicks \in 0..MaxClicks

\* A click that is made is a click.
LEMMA ClickType ==
  ASSUME TypeInv, ClickChoice
  PROVE  [n |-> clicks', on |-> tab.shown] \in Click
<1>1. MaxClicks \in Nat /\ clicks \in 0..MaxClicks /\ clicks < MaxClicks /\ clicks' = clicks + 1
  BY CompanionAssumption DEF TypeInv, ClickChoice
<1>2. tab.shown \in Stamp
  BY DEF TypeInv, TypeOK
<1> QED BY <1>1, <1>2 DEF Click

\* A step leaves every variable of its type.
LEMMA TypeStep == TypeInv /\ [Next]_vars => TypeInv'
<1> SUFFICES ASSUME TypeInv, [Next]_vars PROVE TypeInv'
  OBVIOUS
<1> USE DEF TypeInv, TypeOK
<1>n. MaxPushes \in Nat /\ MaxClicks \in Nat
  BY CompanionAssumption
<1>t. tab \in TabType
  BY DEF TabType
<1>e. <<>> \in Seq(Click) /\ {} \subseteq Screen
  OBVIOUS
<1>1. CASE Shutdown \/ Killed
  <2>1. [tab EXCEPT !.linked = FALSE] \in TabType
    BY <1>t DEF TabType
  <2>2. Down /\ server' = [server EXCEPT !.up = FALSE]
        /\ markers' \subseteq {"server-info", "server-stopped"}
        /\ UNCHANGED <<saved, foreign, screens, events, agent, fresh, announced,
                      pushes, clicks>>
    BY <1>1 DEF Shutdown, Killed
  <2>3. server' \in [up: BOOLEAN, addr: Address, fell: BOOLEAN]
    BY <2>2
  <2>4. StampInv'
    BY <2>2 DEF StampInv
  <2> QED BY <1>e, <2>1, <2>2, <2>3, <2>4 DEF Down, TabType
<1>2. CASE Start
  <2>1. [tab EXCEPT !.linked = FALSE] \in TabType
    BY <1>t DEF TabType
  <2>2. PICK taken \in BOOLEAN :
          /\ server' = [up |-> TRUE, addr |-> Bound(taken), fell |-> taken]
          /\ saved' = Saved(taken)
    BY <1>2 DEF Start
  <2>3. Bound(taken) \in Address /\ Saved(taken) \in Address
    BY DEF Bound, Saved, Address
  <2>4. server' \in [up: BOOLEAN, addr: Address, fell: BOOLEAN] /\ saved' \in Address
    BY <2>2, <2>3
  <2>5. StampInv' /\ known' \subseteq Screen
    BY <1>2 DEF Start, StampInv, KnownAtStart
  <2> QED BY <1>2, <1>e, <2>1, <2>4, <2>5 DEF Start, TabType
<1>3. CASE Foreign \/ CheckAlive
  BY <1>3 DEF Foreign, CheckAlive, StampInv
<1>4. ASSUME NEW s \in Screen, Push(s)
      PROVE  TypeInv'
  <2>1. /\ pushes' = pushes + 1 /\ pushes < MaxPushes /\ pushes \in Nat
        /\ screens' = [screens EXCEPT ![s] = pushes']
    BY <1>4, <1>n DEF Push, StampInv
  <2>2. screens' \in [Screen -> 0..pushes'] /\ screens'[s] = pushes'
    BY <2>1 DEF StampInv
  <2>3. StampInv'
    BY <2>1, <2>2, <1>n DEF StampInv
  <2>4. screens' \in [Screen -> Stamp]
    BY <2>1, <2>2, <1>n DEF Stamp
  <2>5. fresh' \in Stamp
    BY <1>4, <2>1, <1>n DEF Push, Stamp
  <2> QED BY <1>4, <2>3, <2>4, <2>5 DEF Push
<1>5. ASSUME NEW s \in Screen, Announce(s)
      PROVE  TypeInv'
  <2>1. StampInv' /\ UNCHANGED <<server, markers, saved, foreign, screens, tab, wire,
                                 agent, fresh, pushes, clicks>>
    BY <1>5 DEF Announce, StampInv
  <2>2. /\ known' \subseteq Screen /\ announced' \subseteq Screen /\ timers' \subseteq Screen
        /\ events' \in Seq(Click)
    BY <1>5, <1>e DEF Announce
  <2>3. reload' \in BOOLEAN
    BY <1>5, <1>t DEF Announce, Told, TabType
  <2> QED BY <2>1, <2>2, <2>3
<1>6. CASE Handle
  <2>1. Head(wire) \in Click /\ Tail(wire) \in Seq(Click)
    BY <1>6 DEF Handle
  <2>2. Append(events, Head(wire)) \in Seq(Click)
    BY <2>1
  <2> QED BY <1>6, <2>1, <2>2 DEF Handle, StampInv
<1>7. CASE Open \/ ReceiveReload
  <2>1. \A addr \in Address \cup {"none"} : Page(addr) \in TabType
    BY PageType
  <2>2. tab' \in TabType
    BY <1>7, <2>1 DEF Open, ReceiveReload
  <2> QED BY <1>7, <2>2 DEF Open, ReceiveReload, StampInv, TabType
<1>8. CASE Connect
  <2>1. \A addr \in Address \cup {"none"} : Page(addr) \in TabType
    BY PageType
  <2>2. ASSUME NEW b \in BOOLEAN
        PROVE  [tab EXCEPT !.linked = TRUE, !.queue = <<>>, !.stale = b] \in TabType
    <3>1. [tab EXCEPT !.linked = TRUE] \in TabType
      BY <1>t DEF TabType
    <3>2. [[tab EXCEPT !.linked = TRUE] EXCEPT !.queue = <<>>] \in TabType
      BY <3>1, <1>e DEF TabType
    <3> QED BY <3>2 DEF TabType
  <2>3. tab' \in TabType
    BY <1>8, <2>1, <2>2 DEF Connect, QueueAfterOpen
  <2>4. wire' \in Seq(Click)
    BY <1>8 DEF Connect
  <2> QED BY <1>8, <2>3, <2>4 DEF Connect, StampInv, TabType
<1>9. CASE Drop
  <2>1. wire' \in Seq(Click)
    BY <1>9, SubSeqProperties DEF Drop, Prefixes
  <2>2. [tab EXCEPT !.linked = FALSE] \in TabType
    BY <1>t DEF TabType
  <2> QED BY <1>9, <2>1, <2>2 DEF Drop, StampInv, TabType
<1>10. CASE Tombstone
  <2>1. [tab EXCEPT !.tombstone = TRUE] \in TabType
    BY <1>t DEF TabType
  <2> QED BY <1>10, <2>1 DEF Tombstone, StampInv, TabType
<1>11. CASE ClickChoice
  <2>1. [n |-> clicks', on |-> tab.shown] \in Click
    BY <1>11, ClickType
  <2>2. Append(wire, [n |-> clicks', on |-> tab.shown]) \in Seq(Click)
    BY <2>1
  <2>3. Append(tab.queue, [n |-> clicks', on |-> tab.shown]) \in Seq(Click)
    BY <2>1
  <2>4. \A q \in Seq(Click) : [tab EXCEPT !.queue = q] \in TabType
    BY <1>t DEF TabType
  <2>5. tab' \in TabType /\ wire' \in Seq(Click)
    BY <1>11, <1>t, <2>2, <2>3, <2>4 DEF ClickChoice
  <2>6. clicks' \in 0..MaxClicks
    BY <1>11, <1>n DEF ClickChoice
  <2>7. StampInv'
    BY <1>11 DEF ClickChoice, StampInv
  <2> QED BY <1>11, <2>5, <2>6, <2>7 DEF ClickChoice, TabType
<1>12. CASE UNCHANGED vars
  BY <1>12 DEF vars, StampInv
<1> QED
  BY <1>1, <1>2, <1>3, <1>4, <1>5, <1>6, <1>7, <1>8, <1>9, <1>10, <1>11, <1>12
  DEF Next, Server, Tab

\* Before the first start everything has its type.
LEMMA TypeInit == Init => TypeInv
<1> SUFFICES ASSUME Init PROVE TypeInv
  OBVIOUS
<1>1. MaxPushes \in Nat /\ MaxClicks \in Nat
  BY CompanionAssumption
<1>2. StampInv
  BY <1>1 DEF Init, StampInv
<1>3. [Page("none") EXCEPT !.shown = 0] \in TabType
  BY <1>1, <1>2, PageType DEF TabType, Stamp
<1>4. tab \in TabType
  BY <1>3 DEF Init
<1>5. /\ server \in [up: BOOLEAN, addr: Address, fell: BOOLEAN]
      /\ markers \subseteq {"server-info", "server-stopped"}
      /\ saved \in Address /\ foreign \in BOOLEAN
  BY DEF Init, Address
<1>6. screens \in [Screen -> Stamp] /\ fresh \in Stamp
  BY <1>1 DEF Init, Stamp
<1>7. /\ known \subseteq Screen /\ timers \subseteq Screen /\ announced \subseteq Screen
      /\ reload \in BOOLEAN /\ agent \in {"idle", "ready"}
  BY DEF Init
<1>8. clicks \in 0..MaxClicks
  BY <1>1 DEF Init
<1>9. events \in Seq(Click) /\ wire \in Seq(Click)
  <2>1. <<>> \in Seq(Click)
    OBVIOUS
  <2> QED BY <2>1 DEF Init
<1> QED BY <1>2, <1>4, <1>5, <1>6, <1>7, <1>8, <1>9 DEF TypeInv, TypeOK, TabType

\* The types hold in every behaviour.
LEMMA TypeInvariant == Spec => []TypeInv
BY TypeInit, TypeStep, PTL DEF Spec

\* VisualCompanion: server, tab, wire and files keep their types in every
\* behaviour.
THEOREM CompanionTypeCorrect == Spec => []TypeOK
BY TypeInvariant, PTL DEF TypeInv

----------------------------------------------------------------------------
(* The address and the screens that are known.                             *)

\* What is saved is the address of the first start: a fallback saves nothing.
AddressInv == saved = "own" /\ FallbackStrandsNobody

\* server.cjs onListen: a server that found its port free listens where every
\* earlier one did, under the key the open tab has, whatever other sessions
\* start and stop in between.
THEOREM FallbackIsHarmless == Spec => []FallbackStrandsNobody
<1>1. Init => AddressInv
  BY DEF Init, AddressInv, FallbackStrandsNobody
<1>2. TypeInv /\ AddressInv /\ [Next]_vars => AddressInv'
  <2> SUFFICES ASSUME TypeInv, AddressInv, [Next]_vars PROVE AddressInv'
    OBVIOUS
  <2> USE DEF AddressInv, FallbackStrandsNobody
  <2>1. CASE Start
    BY <2>1 DEF Start, Bound, Saved
  <2>2. CASE Shutdown \/ Killed
    BY <2>2 DEF Shutdown, Killed, TypeInv, TypeOK
  <2>3. CASE UNCHANGED <<server, saved>>
    BY <2>3
  <2> QED
    BY <2>1, <2>2, <2>3
    DEF Next, Server, Tab, Foreign, CheckAlive, Push, Announce, Handle, Open, ReceiveReload,
        Connect, Drop, Tombstone, ClickChoice, vars
<1> QED BY <1>1, <1>2, TypeInvariant, PTL DEF Spec, AddressInv

\* A screen that has cleared the events, or that a timer runs for, was written;
\* and a server that is up knows the first, from its own announcement or from
\* the directory it found.
KnownInv ==
  /\ \A s \in announced \cup timers : screens[s] # 0
  /\ server.up => announced \subseteq known

\* Every step keeps that.
LEMMA KnownStep == TypeInv /\ KnownInv /\ [Next]_vars => KnownInv'
<1> SUFFICES ASSUME TypeInv, KnownInv, [Next]_vars PROVE KnownInv'
  OBVIOUS
<1> USE DEF KnownInv
<1>1. CASE Start
  BY <1>1 DEF Start, KnownAtStart, TypeInv, TypeOK
<1>2. CASE Shutdown \/ Killed
  BY <1>2 DEF Shutdown, Killed, Down, TypeInv, TypeOK
<1>3. ASSUME NEW s \in Screen, Push(s)
      PROVE  KnownInv'
  BY <1>3 DEF Push, TypeInv, TypeOK, StampInv
<1>4. ASSUME NEW s \in Screen, Announce(s)
      PROVE  KnownInv'
  BY <1>4 DEF Announce
<1>5. CASE UNCHANGED <<server, known, timers, screens, announced>>
  BY <1>5
<1> QED
  BY <1>1, <1>2, <1>3, <1>4, <1>5
  DEF Next, Server, Tab, Foreign, CheckAlive, Handle, Open, ReceiveReload,
      Connect, Drop, Tombstone, ClickChoice, vars

\* server.cjs: a screen clears the events at most once in its life; iterating on
\* it erases no click, through any number of restarts.
THEOREM UpdatesKeepClicks == Spec => UpdateKeepsClicks
<1>1. Init => KnownInv
  BY DEF Init, KnownInv
<1>2. KnownInv /\ [Next]_vars =>
        [\A s \in Screen : Announce(s) /\ s \in announced => events' = events]_vars
  BY DEF KnownInv, Announce
<1> QED
  BY <1>1, <1>2, KnownStep, TypeInvariant, PTL DEF Spec, UpdateKeepsClicks

----------------------------------------------------------------------------
(* The order of the clicks.  A click is in the page's queue, on the wire or *)
(* in the events file; each of the three is in order, and each is before    *)
(* the next.                                                                *)

Rising(s) == \A i, j \in 1..Len(s) : i < j => s[i].n < s[j].n
Before(s, t) == \A i \in 1..Len(s), j \in 1..Len(t) : s[i].n < t[j].n
UpTo(s, n) == \A i \in 1..Len(s) : s[i].n <= n

\* Two sequences in order, one before the other, are in order together.
LEMMA RisingConcat ==
  ASSUME NEW s \in Seq(Click), NEW t \in Seq(Click),
         Rising(s), Rising(t), Before(s, t)
  PROVE  Rising(s \o t)
<1>1. /\ Len(s \o t) = Len(s) + Len(t)
      /\ \A i \in 1..Len(s) + Len(t) :
           (s \o t)[i] = IF i <= Len(s) THEN s[i] ELSE t[i - Len(s)]
  BY ConcatProperties
<1> SUFFICES ASSUME NEW i \in 1..Len(s \o t), NEW j \in 1..Len(s \o t), i < j
             PROVE  (s \o t)[i].n < (s \o t)[j].n
  BY DEF Rising
<1>2. CASE j <= Len(s)
  BY <1>1, <1>2 DEF Rising
<1>3. CASE i <= Len(s) /\ j > Len(s)
  BY <1>1, <1>3 DEF Before
<1>4. CASE i > Len(s)
  <2>1. /\ i - Len(s) \in 1..Len(t) /\ j - Len(s) \in 1..Len(t)
        /\ i - Len(s) < j - Len(s)
    BY <1>1, <1>4
  <2>2. t[i - Len(s)].n < t[j - Len(s)].n
    BY <2>1 DEF Rising
  <2> QED BY <1>1, <1>4, <2>2
<1> QED BY <1>2, <1>3, <1>4

\* What is before or after both of two sequences is so of the two together.
LEMMA BeforeConcat ==
  ASSUME NEW s \in Seq(Click), NEW t \in Seq(Click), NEW u \in Seq(Click), NEW m
  PROVE  /\ Before(u, s) /\ Before(u, t) => Before(u, s \o t)
         /\ Before(s, u) /\ Before(t, u) => Before(s \o t, u)
         /\ UpTo(s, m) /\ UpTo(t, m) => UpTo(s \o t, m)
<1>1. /\ Len(s \o t) = Len(s) + Len(t)
      /\ \A i \in 1..Len(s) + Len(t) :
           (s \o t)[i] = IF i <= Len(s) THEN s[i] ELSE t[i - Len(s)]
  BY ConcatProperties
<1>2. \A i \in 1..Len(s \o t) :
        \/ i \in 1..Len(s) /\ (s \o t)[i] = s[i]
        \/ i - Len(s) \in 1..Len(t) /\ (s \o t)[i] = t[i - Len(s)]
  BY <1>1
<1> QED BY <1>2 DEF Before, UpTo

\* A part of a sequence has what the whole has.
LEMMA PrefixOrder ==
  ASSUME NEW s \in Seq(Click), NEW t \in Prefixes(s), NEW u \in Seq(Click), NEW m
  PROVE  /\ t \in Seq(Click)
         /\ Rising(s) => Rising(t)
         /\ Before(u, s) => Before(u, t)
         /\ Before(s, u) => Before(t, u)
         /\ UpTo(s, m) => UpTo(t, m)
<1>1. PICK l \in 0..Len(s) : t = SubSeq(s, 1, l)
  BY DEF Prefixes
<1>2. t \in Seq(Click) /\ Len(t) = l /\ \A i \in 1..l : t[i] = s[i]
  BY <1>1, SubSeqProperties
<1>3. \A i \in 1..Len(t) : i \in 1..Len(s) /\ t[i] = s[i]
  BY <1>2
<1> QED BY <1>2, <1>3 DEF Rising, Before, UpTo

\* Its first element is before the rest.
LEMMA HeadTailOrder ==
  ASSUME NEW s \in Seq(Click), s # <<>>, Rising(s), NEW u \in Seq(Click), NEW m
  PROVE  /\ Rising(Tail(s)) /\ Before(<<Head(s)>>, Tail(s))
         /\ Before(u, s) => Before(u, <<Head(s)>>) /\ Before(u, Tail(s))
         /\ Before(s, u) => Before(<<Head(s)>>, u) /\ Before(Tail(s), u)
         /\ UpTo(s, m) => UpTo(<<Head(s)>>, m) /\ UpTo(Tail(s), m)
<1>1. /\ Len(s) >= 1 /\ Head(s) = s[1] /\ Len(Tail(s)) = Len(s) - 1
      /\ \A i \in 1..Len(Tail(s)) : Tail(s)[i] = s[i + 1] /\ i + 1 \in 1..Len(s)
  BY HeadTailProperties
<1>2. Len(<<Head(s)>>) = 1 /\ <<Head(s)>>[1] = s[1] /\ 1 \in 1..Len(s)
  BY <1>1
<1>3. Rising(Tail(s))
  BY <1>1 DEF Rising
<1>4. Before(<<Head(s)>>, Tail(s))
  BY <1>1, <1>2 DEF Rising, Before
<1> QED BY <1>1, <1>2, <1>3, <1>4 DEF Before, UpTo

\* The invariant: besides the order, a page that is connected has no queue.
OrderInv ==
  /\ Rising(events) /\ Rising(wire) /\ Rising(tab.queue)
  /\ Before(events, wire) /\ Before(events, tab.queue) /\ Before(wire, tab.queue)
  /\ UpTo(events, clicks) /\ UpTo(wire, clicks) /\ UpTo(tab.queue, clicks)
  /\ tab.linked => tab.queue = <<>>

\* Nothing is out of order in an empty sequence.
LEMMA EmptyOrder ==
  /\ Rising(<<>>)
  /\ \A s \in Seq(Click) : Before(<<>>, s) /\ Before(s, <<>>)
  /\ \A m : UpTo(<<>>, m)
BY DEF Rising, Before, UpTo

\* The new click comes after all there are.
LEMMA NewClickOrder ==
  ASSUME TypeInv, NEW s \in Seq(Click), UpTo(s, clicks), NEW x \in Click, x.n = clicks + 1
  PROVE  /\ Before(s, <<x>>) /\ UpTo(s, clicks + 1) /\ UpTo(<<x>>, clicks + 1)
         /\ Rising(<<x>>) /\ <<x>> \in Seq(Click)
<1>1. \A i \in 1..Len(s) : s[i].n \in Int
  <2>1. \A y \in Click : y.n \in Int
    BY DEF Click
  <2>2. \A i \in 1..Len(s) : s[i] \in Click
    OBVIOUS
  <2> QED BY <2>1, <2>2
<1>2. clicks \in Int
  BY DEF TypeInv
<1> QED BY <1>1, <1>2 DEF Before, UpTo, Rising

\* Every step keeps the order.
LEMMA OrderStep == TypeInv /\ OrderInv /\ [Next]_vars => OrderInv'
<1> SUFFICES ASSUME TypeInv, OrderInv, [Next]_vars PROVE OrderInv'
  OBVIOUS
<1>t. /\ events \in Seq(Click) /\ wire \in Seq(Click) /\ tab.queue \in Seq(Click)
      /\ tab \in TabType
  BY DEF TypeInv, TypeOK, TabType
<1>p. \A addr : Page(addr).queue = <<>> /\ ~Page(addr).linked
  BY DEF Page
<1>1. CASE /\ UNCHANGED <<events, clicks>> /\ wire' = <<>>
           /\ tab'.queue = tab.queue /\ ~tab'.linked
  BY <1>1, <1>t, EmptyOrder DEF OrderInv
<1>2. CASE Shutdown \/ Killed \/ Start
  <2>1. /\ UNCHANGED <<events, clicks>> /\ wire' = <<>>
        /\ tab' = [tab EXCEPT !.linked = FALSE]
    BY <1>2 DEF Shutdown, Killed, Down, Start
  <2>2. tab'.queue = tab.queue /\ ~tab'.linked
    BY <2>1, <1>t DEF TabType
  <2> QED BY <1>1, <2>1, <2>2
<1>3. ASSUME NEW s \in Screen, Announce(s)
      PROVE  OrderInv'
  <2>1. events' = events \/ events' = <<>>
    BY <1>3 DEF Announce
  <2> QED BY <1>3, <2>1, <1>t, EmptyOrder DEF Announce, OrderInv
<1>4. CASE Handle
  <2>1. wire # <<>> /\ events' = events \o <<Head(wire)>> /\ wire' = Tail(wire)
        /\ UNCHANGED <<tab, clicks>>
    BY <1>4, <1>t DEF Handle
  <2>2. <<Head(wire)>> \in Seq(Click) /\ Tail(wire) \in Seq(Click)
    BY <2>1, <1>t
  <2>3. /\ Rising(Tail(wire)) /\ Before(<<Head(wire)>>, Tail(wire))
        /\ Before(events, <<Head(wire)>>) /\ Before(events, Tail(wire))
        /\ Before(<<Head(wire)>>, tab.queue) /\ Before(Tail(wire), tab.queue)
        /\ UpTo(<<Head(wire)>>, clicks) /\ UpTo(Tail(wire), clicks)
    <3>1. /\ Rising(wire) /\ Before(events, wire) /\ Before(wire, tab.queue)
          /\ UpTo(wire, clicks)
      BY DEF OrderInv
    <3>2. Rising(Tail(wire)) /\ Before(<<Head(wire)>>, Tail(wire))
      BY <2>1, <1>t, <3>1, HeadTailOrder
    <3>3. Before(events, <<Head(wire)>>) /\ Before(events, Tail(wire))
      BY <2>1, <1>t, <3>1, HeadTailOrder
    <3>4. Before(<<Head(wire)>>, tab.queue) /\ Before(Tail(wire), tab.queue)
      BY <2>1, <1>t, <3>1, HeadTailOrder
    <3>5. UpTo(<<Head(wire)>>, clicks) /\ UpTo(Tail(wire), clicks)
      BY <2>1, <1>t, <3>1, HeadTailOrder
    <3> QED BY <3>2, <3>3, <3>4, <3>5
  <2>4. Rising(<<Head(wire)>>)
    BY DEF Rising
  <2>5. Rising(events \o <<Head(wire)>>)
    BY <2>2, <2>3, <2>4, <1>t, RisingConcat DEF OrderInv
  <2>6. /\ Before(events \o <<Head(wire)>>, Tail(wire))
        /\ Before(events \o <<Head(wire)>>, tab.queue)
        /\ UpTo(events \o <<Head(wire)>>, clicks)
    BY <2>2, <2>3, <1>t, BeforeConcat DEF OrderInv
  <2> QED BY <2>1, <2>3, <2>5, <2>6 DEF OrderInv
<1>5. CASE Open \/ ReceiveReload
  <2>1. UNCHANGED <<events, wire, clicks>> /\ tab'.queue = <<>> /\ ~tab'.linked
    BY <1>5, <1>p DEF Open, ReceiveReload
  <2> QED BY <2>1, <1>t, EmptyOrder DEF OrderInv
<1>6. CASE Connect
  <2>1. /\ UNCHANGED <<events, clicks>> /\ wire' = wire \o tab.queue
        /\ tab'.queue = <<>>
    BY <1>6, <1>p, <1>t DEF Connect, QueueAfterOpen, TabType
  <2>2. Rising(wire \o tab.queue)
    BY <1>t, RisingConcat DEF OrderInv
  <2>3. Before(events, wire \o tab.queue) /\ UpTo(wire \o tab.queue, clicks)
    BY <1>t, BeforeConcat DEF OrderInv
  <2>4. wire \o tab.queue \in Seq(Click)
    BY <1>t
  <2> QED BY <2>1, <2>2, <2>3, <2>4, <1>t, EmptyOrder DEF OrderInv
<1>7. CASE Drop
  <2>1. UNCHANGED <<events, clicks>> /\ wire' \in Prefixes(wire)
        /\ tab' = [tab EXCEPT !.linked = FALSE]
    BY <1>7 DEF Drop
  <2>2. tab'.queue = tab.queue /\ ~tab'.linked
    BY <2>1, <1>t DEF TabType
  <2>3. /\ Rising(wire') /\ Before(events, wire') /\ Before(wire', tab.queue)
        /\ UpTo(wire', clicks)
    BY <2>1, <1>t, PrefixOrder DEF OrderInv
  <2> QED BY <2>1, <2>2, <2>3 DEF OrderInv
<1>8. CASE ClickChoice
  <2> DEFINE x == [n |-> clicks', on |-> tab.shown]
  <2>1. /\ x \in Click /\ x.n = clicks + 1
        /\ clicks' = clicks + 1 /\ events' = events
    BY <1>8, ClickType DEF ClickChoice
  <2>2. ASSUME NEW s \in {events, wire, tab.queue}
        PROVE  /\ s \in Seq(Click) /\ Before(s, <<x>>) /\ UpTo(s, clicks')
               /\ UpTo(<<x>>, clicks') /\ Rising(<<x>>) /\ <<x>> \in Seq(Click)
    BY <2>1, <1>t, NewClickOrder DEF OrderInv
  <2>3. CASE tab.linked
    <3>1. wire' = wire \o <<x>> /\ tab' = tab /\ tab.queue = <<>>
      <4>1. wire' = Append(wire, x) /\ tab' = tab
        BY <1>8, <2>3 DEF ClickChoice
      <4>2. Append(wire, x) = wire \o <<x>>
        BY <1>t, <2>1
      <4> QED BY <4>1, <4>2, <2>3 DEF OrderInv
    <3>2. Rising(wire \o <<x>>)
      BY <2>2, RisingConcat DEF OrderInv
    <3>3. Before(events, wire \o <<x>>) /\ UpTo(wire \o <<x>>, clicks')
      BY <2>2, BeforeConcat DEF OrderInv
    <3>4. wire \o <<x>> \in Seq(Click)
      BY <2>2
    <3> QED BY <2>1, <2>2, <3>1, <3>2, <3>3, <3>4, EmptyOrder DEF OrderInv
  <2>4. CASE ~tab.linked
    <3>1. wire' = wire /\ tab' = [tab EXCEPT !.queue = tab.queue \o <<x>>]
      <4>1. wire' = wire /\ tab' = [tab EXCEPT !.queue = Append(tab.queue, x)]
        BY <1>8, <2>4 DEF ClickChoice
      <4>2. Append(tab.queue, x) = tab.queue \o <<x>>
        <5>1. \A s \in Seq(Click) : Append(s, x) = s \o <<x>>
          BY <2>1
        <5> QED BY <1>t, <5>1
      <4> QED BY <4>1, <4>2
    <3>2. tab'.queue = tab.queue \o <<x>> /\ ~tab'.linked
      BY <2>4, <3>1, <1>t DEF TabType
    <3>3. Rising(tab.queue \o <<x>>)
      BY <2>2, RisingConcat DEF OrderInv
    <3>4. /\ Before(events, tab.queue \o <<x>>) /\ Before(wire, tab.queue \o <<x>>)
          /\ UpTo(tab.queue \o <<x>>, clicks')
      BY <2>2, BeforeConcat DEF OrderInv
    <3> QED BY <2>1, <2>2, <3>1, <3>2, <3>3, <3>4 DEF OrderInv
  <2> QED BY <2>3, <2>4
<1>9. CASE UNCHANGED <<events, wire, clicks>> /\ tab'.queue = tab.queue /\ tab'.linked = tab.linked
  BY <1>9 DEF OrderInv
<1>10. CASE Tombstone
  <2>1. tab'.queue = tab.queue /\ tab'.linked = tab.linked
    BY <1>10, <1>t DEF Tombstone, TabType
  <2> QED BY <1>9, <1>10, <2>1 DEF Tombstone
<1> QED
  BY <1>2, <1>3, <1>4, <1>5, <1>6, <1>7, <1>8, <1>9, <1>10
  DEF Next, Server, Tab, Foreign, CheckAlive, Push, vars

\* helper.js and server.cjs: every click is recorded at most once and in the
\* order of the clicks, through any number of drops, queued clicks, pages that
\* load again and servers that end and start.
THEOREM ClicksStayInOrder == Spec => []ClicksInOrder
<1>1. Init => OrderInv
  <2>1. Init => tab.queue = <<>> /\ ~tab.linked /\ events = <<>> /\ wire = <<>>
    BY DEF Init, Page
  <2>2. <<>> \in Seq(Click)
    OBVIOUS
  <2>3. Before(<<>>, <<>>)
    BY <2>2, EmptyOrder
  <2> QED BY <2>1, <2>3, EmptyOrder DEF OrderInv
<1>2. TypeInv /\ OrderInv => ClicksInOrder
  BY DEF OrderInv, Rising, ClicksInOrder
<1> QED BY <1>1, <1>2, OrderStep, TypeInvariant, PTL DEF Spec

----------------------------------------------------------------------------
(* No reload is lost.                                                      *)

\* A tab is connected to a server that is up.
LinkInv == tab.linked => server.up

\* A page that loads is not yet connected.
LEMMA PageIsUnlinked == \A addr : ~Page(addr).linked
BY DEF Page

\* Every step keeps that, and what is under way to a tab it leaves connected.
LEMMA ReloadStep ==
  TypeInv /\ TypeInv' /\ LinkInv /\ [Next]_vars =>
    /\ LinkInv'
    /\ tab'.linked /\ (UnderWay \/ Newest' # Newest) => UnderWay'
<1> DEFINE Kept == /\ LinkInv'
                   /\ tab'.linked /\ (UnderWay \/ Newest' # Newest) => UnderWay'
<1> SUFFICES ASSUME TypeInv, TypeInv', LinkInv, [Next]_vars PROVE Kept
  OBVIOUS
<1>t. tab \in TabType
  BY DEF TypeInv, TypeOK, TabType
<1>n. Newest = pushes /\ Newest' = pushes'
  BY NewestIsLastPush DEF TypeInv, StampInv, Newest
<1>u. ASSUME ~tab'.linked PROVE Kept
  BY <1>u DEF LinkInv
<1>1. CASE Shutdown \/ Killed \/ Start \/ Drop
  <2>1. tab' = [tab EXCEPT !.linked = FALSE]
    BY <1>1 DEF Shutdown, Killed, Down, Start, Drop
  <2>2. ~tab'.linked
    BY <2>1, <1>t DEF TabType
  <2> QED BY <1>u, <2>2
<1>2. CASE Open \/ ReceiveReload
  <2>1. ~tab'.linked
    BY <1>2, PageIsUnlinked DEF Open, ReceiveReload
  <2> QED BY <1>u, <2>1
<1>3. ASSUME NEW s \in Screen, Push(s)
      PROVE  Kept
  <2>1. /\ UNCHANGED <<server, tab, reload>> /\ screens'[s] = pushes'
        /\ server.up => s \in timers'
    BY <1>3 DEF Push, TypeInv, TypeOK
  <2> QED BY <1>n, <2>1 DEF LinkInv, UnderWay
<1>4. ASSUME NEW s \in Screen, Announce(s)
      PROVE  Kept
  <2>1. /\ UNCHANGED <<server, tab, screens>> /\ reload' = (reload \/ tab.linked)
    BY <1>4 DEF Announce, Told
  <2> QED BY <2>1 DEF LinkInv, UnderWay
<1>5. CASE Connect
  <2>1. CASE tab.tombstone
    BY <1>5, <1>u, <2>1, PageIsUnlinked DEF Connect
  <2>2. CASE ~tab.tombstone
    <3>1. /\ server'.up /\ UNCHANGED <<screens, timers, reload>> /\ Newest' = Newest
          /\ tab'.shown = tab.shown
      BY <1>n, <1>5, <1>t, <2>2 DEF Connect, TabType
    <3> QED BY <3>1 DEF LinkInv, UnderWay
  <2> QED BY <2>1, <2>2
<1>6. CASE /\ UNCHANGED <<server, screens, pushes, timers, reload>>
           /\ tab'.linked = tab.linked /\ tab'.shown = tab.shown
  BY <1>n, <1>6 DEF LinkInv, UnderWay
<1>7. CASE Tombstone \/ ClickChoice
  <2>1. \/ tab' = tab
        \/ tab' = [tab EXCEPT !.tombstone = TRUE]
        \/ \E q : tab' = [tab EXCEPT !.queue = q]
    BY <1>7 DEF Tombstone, ClickChoice
  <2>2. tab'.linked = tab.linked /\ tab'.shown = tab.shown
    BY <2>1, <1>t DEF TabType
  <2> QED BY <1>6, <1>7, <2>2 DEF Tombstone, ClickChoice
<1>8. CASE Foreign \/ CheckAlive \/ Handle \/ UNCHANGED vars
  BY <1>6, <1>8 DEF Foreign, CheckAlive, Handle, vars
<1> QED
  BY <1>1, <1>2, <1>3, <1>4, <1>5, <1>7, <1>8 DEF Next, Server, Tab

\* server.cjs and helper.js: no step that leaves a tab connected loses the reload
\* of the newest screen, for any order of pushes, timers, reloads, drops and
\* restarts; what was announced before the tab connected is not under way to it.
THEOREM NoReloadIsLost == Spec => ReloadsAreKept
<1>1. Init => LinkInv
  BY DEF Init, Page, LinkInv
<1>2. TypeInv /\ TypeInv' /\ LinkInv /\ [Next]_vars => LinkInv'
  BY ReloadStep
<1>3. TypeInv /\ TypeInv' /\ LinkInv /\ [Next]_vars
        => [tab'.linked /\ (UnderWay \/ Newest' # Newest) => UnderWay']_vars
  BY ReloadStep
<1> QED BY <1>1, <1>2, <1>3, TypeInvariant, PTL DEF Spec, ReloadsAreKept
=============================================================================
