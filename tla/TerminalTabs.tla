----------------------------- MODULE TerminalTabs -----------------------------
(* The tabs of the terminal product and the sessions behind them           *)
(* (src/frontend/src/products/terminal/TerminalWorkbench.tsx): connecting, *)
(* reconnecting, splitting, closing and the restore at start-up are        *)
(* functions that await the back end and then write the list of tabs; some *)
(* of them write the list, or the layout of a tab, that they read before.  *)
(*                                                                         *)
(* A layout is the set of the sessions of its panes. The directions and    *)
(* ratios of splits, the active tab, hosts and titles are left out; so is  *)
(* the saving of the workspace. Restored tabs have one pane, or fail at    *)
(* their second.                                                           *)
EXTENDS Naturals, FiniteSets

CONSTANTS
  Tabs,         \* tabs that come up, each with an id of its own
  MaxSessions,  \* bound: sessions opened
  Closers,      \* handlers that close tabs or panes, under way at a time
  MaxHandlers,  \* bound: handlers begun, the restore among them, new tabs not
  MaxPanes,     \* MAX_PANES
  MaxStored     \* bound: tabs of the stored workspace

ASSUME TerminalTabsAssumption ==
  /\ MaxSessions \in Nat /\ MaxStored \in Nat
  /\ MaxPanes \in Nat \ {0} /\ MaxHandlers \in Nat \ {0}

VARIABLES
  sess,      \* sess[s]: "unused", "open", "closed"
  tabs,      \* tabs[t]: state, id and panes
  opens,     \* opens[t]: calls in flight that open a session for the pending t
  reconn,    \* the reconnect under way (reconnectingTabId)
  split,     \* the split under way (splitting)
  closer,    \* closer[c]: a close under way, with the list it has read
  restore,   \* the restore: stored tabs to come, sessions opened so far
  excused,   \* sessions lost by handlers that met (see LostByOverlap)
  stale,     \* tabs last written by such a handler
  begun      \* number of handlers begun

ttVars == <<sess, tabs, opens, reconn, split, closer, restore, excused, stale, begun>>

Sessions == 1..MaxSessions

\* A tab has the id of its first session once that is open, 0 before.
Tab(st, id, panes) == [st |-> st, id |-> id, panes |-> panes]
Unborn == Tab("unborn", 0, {})
Closed == Tab("gone", 0, {})
Pending == {"connecting", "failed"}
Listed == {t \in Tabs : tabs[t].st \notin {"unborn", "gone"}}
Shown(list) == UNION {list[t].panes : t \in Tabs}

NoCall == [pc |-> "idle"]

\* Tabs and handlers come up in one order: which is of no account.
NewTab == CHOOSE t \in Tabs : tabs[t] = Unborn
NewCloser == CHOOSE c \in Closers : closer[c] = NoCall

TabsTypeOK ==
  LET TabType == [st : {"unborn", "connecting", "failed", "ready", "gone"},
                  id : 0..MaxSessions, panes : SUBSET Sessions]
  IN  /\ sess \in [Sessions -> {"unused", "open", "closed"}]
      /\ tabs \in [Tabs -> TabType]
      /\ opens \in [Tabs -> 0..2]
      /\ reconn \in {NoCall} \cup
           [pc : {"run"}, tab : Tabs, id : Sessions, old : SUBSET Sessions,
            left : SUBSET Sessions, got : SUBSET Sessions]
      /\ split \in {NoCall} \cup
           [pc : {"run"}, tab : Tabs, id : Sessions, old : SUBSET Sessions]
      /\ \A c \in Closers :
           \/ closer[c] = NoCall
           \/ /\ closer[c].pc \in {"tabs", "pane"} /\ closer[c].gone \subseteq Tabs
              /\ closer[c].list \in [Tabs -> TabType]
              /\ closer[c].left \subseteq Sessions /\ closer[c].cut \subseteq Sessions
      /\ restore.todo \in 0..MaxStored /\ restore.got \subseteq Sessions
      /\ restore.done \in BOOLEAN
      /\ excused \subseteq Sessions /\ stale \subseteq Tabs
      /\ begun \in 0..MaxHandlers

TabsInit ==
  /\ sess = [s \in Sessions |-> "unused"]
  /\ tabs = [t \in Tabs |-> Unborn] /\ opens = [t \in Tabs |-> 0]
  /\ reconn = NoCall /\ split = NoCall /\ closer = [c \in Closers |-> NoCall]
  /\ \E n \in 0..MaxStored :
       /\ restore = [todo |-> n, got |-> {}, done |-> n = 0]
       /\ begun = IF n = 0 THEN 0 ELSE 1
  /\ excused = {} /\ stale = {}

\* The back end opens a session and gives it the next id.
Fresh == {s \in Sessions : sess[s] = "unused"}
NewSession == CHOOSE s \in Fresh : \A r \in Fresh : s <= r
OpenSess == Fresh # {} /\ sess' = [sess EXCEPT ![NewSession] = "open"]

\* A session whose shell has ended keeps its pane and counts as open until it
\* is closed: CloseTerminal of it is no error to the handlers.
CloseSess(s) == sess' = [sess EXCEPT ![s] = "closed"]

Begin == begun < MaxHandlers /\ begun' = begun + 1
-----------------------------------------------------------------------------
(* What a handler that overlaps with another one loses: the panes that its *)
(* list or layout does not have, and the session it has opened for a tab   *)
(* that is gone. Without overlap nothing is excused.                       *)
LostByOverlap(overlap, lost, touched) ==
  /\ excused' = IF overlap THEN excused \cup lost ELSE excused
  /\ stale' = IF overlap THEN stale \cup touched ELSE stale

\* setTabs of a list: the tabs it does not have are gone.
SetList(list) ==
  [t \in Tabs |-> IF list[t] = Unborn /\ tabs[t] # Unborn THEN Closed ELSE list[t]]

\* updateTab of a layout, on the tab with that id if there is one.
Has(t, id) == tabs[t].st = "ready" /\ tabs[t].id = id
SetPanes(t, id, panes) ==
  tabs' = IF Has(t, id) THEN [tabs EXCEPT ![t].panes = panes] ELSE tabs
-----------------------------------------------------------------------------
(* connectLocal, connectHost and retryTabConnect.                          *)
Connect(t) ==
  /\ tabs[t] = Unborn /\ t = NewTab
  /\ tabs' = [tabs EXCEPT ![t] = Tab("connecting", 0, {})]
  /\ opens' = [opens EXCEPT ![t] = 1]
  /\ UNCHANGED <<sess, reconn, split, closer, restore, excused, stale, begun>>

Retry(t) ==
  /\ tabs[t].st = "failed" /\ opens[t] < 2
  /\ tabs' = [tabs EXCEPT ![t].st = "connecting"]
  /\ opens' = [opens EXCEPT ![t] = @ + 1]
  /\ Begin
  /\ UNCHANGED <<sess, reconn, split, closer, restore, excused, stale>>

\* The tab is looked up again after the call; if it is gone, nobody closes the
\* session.
OpenReturns(t) ==
  /\ opens[t] > 0 /\ OpenSess
  /\ opens' = [opens EXCEPT ![t] = @ - 1]
  /\ tabs' = IF tabs[t].st \in Pending
               THEN [tabs EXCEPT ![t] = Tab("ready", NewSession, {NewSession})] ELSE tabs
  /\ LostByOverlap(tabs[t].st \notin Pending, {NewSession}, {})
  /\ UNCHANGED <<reconn, split, closer, restore, begun>>

OpenFails(t) ==
  /\ opens[t] > 0
  /\ opens' = [opens EXCEPT ![t] = @ - 1]
  /\ tabs' = IF tabs[t].st \in Pending THEN [tabs EXCEPT ![t].st = "failed"] ELSE tabs
  /\ UNCHANGED <<sess, reconn, split, closer, restore, excused, stale, begun>>
-----------------------------------------------------------------------------
(* reconnectTab closes the sessions of the layout it was called with,      *)
(* opens as many, and puts them in the place of that layout.               *)
ReconnectTab(t) ==
  /\ reconn = NoCall /\ tabs[t].st = "ready"
  /\ reconn' = [pc |-> "run", tab |-> t, id |-> tabs[t].id, old |-> tabs[t].panes,
                left |-> tabs[t].panes, got |-> {}]
  /\ Begin
  /\ UNCHANGED <<sess, tabs, opens, split, closer, restore, excused, stale>>

ReconnectCloses(s) ==
  /\ reconn # NoCall /\ s \in reconn.left
  /\ CloseSess(s)
  /\ reconn' = [reconn EXCEPT !.left = @ \ {s}]
  /\ UNCHANGED <<tabs, opens, split, closer, restore, excused, stale, begun>>

ReconnectOpens ==
  /\ reconn # NoCall /\ reconn.left = {} /\ OpenSess
  /\ Cardinality(reconn.got) + 1 < Cardinality(reconn.old)
  /\ reconn' = [reconn EXCEPT !.got = @ \cup {NewSession}]
  /\ UNCHANGED <<tabs, opens, split, closer, restore, excused, stale, begun>>

ReconnectEnds ==
  LET t == reconn.tab
      got == reconn.got \cup {NewSession}
      mine == Has(t, reconn.id)
  IN  /\ reconn # NoCall /\ reconn.left = {} /\ OpenSess
      /\ Cardinality(got) = Cardinality(reconn.old)
      /\ SetPanes(t, reconn.id, got)
      /\ LostByOverlap(~mine \/ tabs[t].panes # reconn.old,
                       IF mine THEN tabs[t].panes ELSE got, {t})
      /\ reconn' = NoCall
      /\ UNCHANGED <<opens, split, closer, restore, begun>>

\* One open fails: the tab keeps its closed sessions, the others that were
\* opened are lost. This needs no overlap.
ReconnectFails ==
  /\ reconn # NoCall /\ reconn.left = {}
  /\ reconn' = NoCall
  /\ LostByOverlap(TRUE, reconn.got, {reconn.tab})
  /\ UNCHANGED <<sess, tabs, opens, split, closer, restore, begun>>
-----------------------------------------------------------------------------
(* splitActivePane adds a pane to the layout it was called with.           *)
SplitPane(t) ==
  /\ split = NoCall /\ tabs[t].st = "ready" /\ Cardinality(tabs[t].panes) < MaxPanes
  /\ split' = [pc |-> "run", tab |-> t, id |-> tabs[t].id, old |-> tabs[t].panes]
  /\ Begin
  /\ UNCHANGED <<sess, tabs, opens, reconn, closer, restore, excused, stale>>

SplitEnds ==
  LET t == split.tab
      mine == Has(t, split.id)
  IN  /\ split # NoCall /\ OpenSess
      /\ SetPanes(t, split.id, split.old \cup {NewSession})
      /\ LostByOverlap(~mine \/ tabs[t].panes # split.old,
                       IF mine THEN tabs[t].panes \ split.old ELSE {NewSession}, {t})
      /\ split' = NoCall
      /\ UNCHANGED <<opens, reconn, closer, restore, begun>>

SplitFails ==
  /\ split # NoCall
  /\ split' = NoCall
  /\ UNCHANGED <<sess, tabs, opens, reconn, closer, restore, excused, stale, begun>>
-----------------------------------------------------------------------------
(* closeTab, closeOtherTabs, closeAllTabs, confirmDeleteHost: the sessions *)
(* of some tabs are closed one by one, then the list that was read before  *)
(* is written without them. The handler of a tab without a session does    *)
(* not wait.                                                               *)
CloseTabs(c, gone) ==
  /\ closer[c] = NoCall /\ c = NewCloser /\ gone # {} /\ gone \subseteq Listed
  /\ LET left == UNION {tabs[t].panes : t \in gone}
     IN  IF left = {}
           THEN /\ tabs' = [t \in Tabs |-> IF t \in gone THEN Closed ELSE tabs[t]]
                /\ UNCHANGED closer
           ELSE /\ closer' = [closer EXCEPT ![c] = [pc |-> "tabs", gone |-> gone,
                                list |-> tabs, left |-> left, cut |-> {}]]
                /\ UNCHANGED tabs
  /\ Begin
  /\ UNCHANGED <<sess, opens, reconn, split, restore, excused, stale>>

\* closePaneInTab, one of several panes.
ClosePane(c, t, s) ==
  /\ closer[c] = NoCall /\ c = NewCloser /\ tabs[t].st = "ready"
  /\ s \in tabs[t].panes /\ Cardinality(tabs[t].panes) > 1
  /\ closer' = [closer EXCEPT ![c] = [pc |-> "pane", gone |-> {t}, list |-> tabs,
                  left |-> {s}, cut |-> {s}]]
  /\ Begin
  /\ UNCHANGED <<sess, tabs, opens, reconn, split, restore, excused, stale>>

CloserCloses_Skips(c, s) ==
  /\ closer[c] # NoCall /\ s \in closer[c].left
  /\ closer' = [closer EXCEPT ![c].left = {}]
  /\ UNCHANGED sess
  /\ UNCHANGED <<tabs, opens, reconn, split, restore, excused, stale, begun>>
CloserCloses(c, s) ==
  /\ closer[c] # NoCall /\ s \in closer[c].left
  /\ CloseSess(s)
  /\ closer' = [closer EXCEPT ![c].left = @ \ {s}]
  /\ UNCHANGED <<tabs, opens, reconn, split, restore, excused, stale, begun>>

\* Panes that are still open, and tabs that come back, are the harm of a list
\* that is older than the tabs.
CloseTabsEnds(c) ==
  LET list == [t \in Tabs |-> IF t \in closer[c].gone THEN Closed ELSE closer[c].list[t]]
  IN  /\ closer[c] # NoCall /\ closer[c].pc = "tabs" /\ closer[c].left = {}
      /\ tabs' = SetList(list)
      /\ LostByOverlap(tabs # closer[c].list, Shown(tabs) \ Shown(list),
                       {t \in Tabs : tabs[t] # tabs'[t]})
      /\ closer' = [closer EXCEPT ![c] = NoCall]
      /\ UNCHANGED <<sess, opens, reconn, split, restore, begun>>

ClosePaneEnds(c) ==
  \E t \in Tabs :
    LET old == closer[c].list[t]
        panes == old.panes \ closer[c].cut
    IN  /\ closer[c] # NoCall /\ closer[c].pc = "pane" /\ closer[c].gone = {t}
        /\ closer[c].left = {}
        /\ SetPanes(t, old.id, panes)
        /\ LostByOverlap(Has(t, old.id) /\ tabs[t].panes # old.panes,
                         tabs[t].panes \ panes, {t})
        /\ closer' = [closer EXCEPT ![c] = NoCall]
        /\ UNCHANGED <<sess, opens, reconn, split, restore, begun>>
-----------------------------------------------------------------------------
(* The restore opens the stored tabs one after the other and then sets the *)
(* list to them, whatever it holds by then.                                *)
RestoreOpens ==
  /\ restore.todo > 0 /\ OpenSess
  /\ restore' = [restore EXCEPT !.todo = @ - 1, !.got = @ \cup {NewSession}]
  /\ UNCHANGED <<tabs, opens, reconn, split, closer, excused, stale, begun>>

\* The tab is skipped, with the sessions of the panes that came before.
RestoreSkips ==
  /\ restore.todo > 0
  /\ restore' = [restore EXCEPT !.todo = @ - 1]
  /\ \/ UNCHANGED <<sess, excused, stale>>
     \/ OpenSess /\ LostByOverlap(TRUE, {NewSession}, {})
  /\ UNCHANGED <<tabs, opens, reconn, split, closer, begun>>

RestoreEnds ==
  /\ ~restore.done /\ restore.todo = 0
  /\ restore' = [restore EXCEPT !.done = TRUE, !.got = {}]
  /\ IF restore.got = {}
       THEN UNCHANGED <<tabs, excused, stale>>
       ELSE \E place \in [restore.got -> {t \in Tabs : tabs[t] = Unborn}] :
              /\ \A r, s \in restore.got : place[r] = place[s] => r = s
              /\ tabs' = [t \in Tabs |->
                   IF \E s \in restore.got : place[s] = t
                     THEN LET s == CHOOSE s \in restore.got : place[s] = t
                          IN  Tab("ready", s, {s})
                     ELSE IF tabs[t] = Unborn THEN Unborn ELSE Closed]
              /\ LostByOverlap(Listed # {}, Shown(tabs), Listed)
  /\ UNCHANGED <<sess, opens, reconn, split, closer, begun>>
-----------------------------------------------------------------------------
TabsNext ==
  \/ ReconnectOpens \/ ReconnectEnds \/ ReconnectFails
  \/ SplitEnds \/ SplitFails
  \/ RestoreOpens \/ RestoreSkips \/ RestoreEnds
  \/ \E s \in Sessions : ReconnectCloses(s)
  \/ \E t \in Tabs : \/ Connect(t) \/ Retry(t) \/ OpenReturns(t) \/ OpenFails(t)
                     \/ ReconnectTab(t) \/ SplitPane(t)
  \/ \E c \in Closers : \/ CloseTabsEnds(c) \/ ClosePaneEnds(c)
                        \/ \E gone \in SUBSET Tabs : CloseTabs(c, gone)
                        \/ \E s \in Sessions : CloserCloses(c, s)
                        \/ \E t \in Tabs, s \in Sessions : ClosePane(c, t, s)

TabsSpec == TabsInit /\ [][TabsNext]_ttVars
-----------------------------------------------------------------------------
\* Handlers that hold session s: they will show it or close it.
Held(s) ==
  \/ s \in restore.got
  \/ reconn # NoCall /\ s \in reconn.got \cup reconn.left
  \/ \E c \in Closers : closer[c] # NoCall /\ s \in closer[c].left

\* A session that runs has a pane, or a handler that will give it one or close
\* it, unless handlers overlapped or a part of one failed: closing a tab, or a
\* pane, or reconnecting it leaves no shell behind.
SessionsShown ==
  \A s \in Sessions : sess[s] = "open" => s \in Shown(tabs) \cup excused \/ Held(s)

\* No session has panes in two tabs, and none that a handler has just opened
\* has one.
OnePanePerSession ==
  /\ \A t, u \in Tabs : t # u => tabs[t].panes \cap tabs[u].panes = {}
  /\ restore.got \cap Shown(tabs) = {}
  /\ reconn # NoCall => reconn.got \cap Shown(tabs) = {}

\* A pane shows a session that was closed only while a handler is about to
\* replace it, unless the tab was last written by handlers that overlapped.
BeingReplaced(t) ==
  \/ reconn # NoCall /\ reconn.tab = t
  \/ \E c \in Closers : closer[c] # NoCall /\ t \in closer[c].gone
PanesAreLive ==
  \A t \in Tabs \ stale : (\E s \in tabs[t].panes : sess[s] = "closed") => BeingReplaced(t)

\* A tab that is shown as connecting has a call under way.
ConnectingIsAwaited ==
  \A t \in Tabs \ stale : tabs[t].st = "connecting" => opens[t] > 0

\* What the tabs promise: of the sessions and of what is shown.
TabsSafe == SessionsShown /\ OnePanePerSession /\ PanesAreLive /\ ConnectingIsAwaited
=============================================================================
