# WWorkbench in TLA+

WWorkbench is a desktop workbench (Go back end, React front end in a Wails
window) for databases, terminals, SFTP, Docker, logs, notes and plugin packs,
with an agent that works through the same tools and a local MCP endpoint for
external agents. This directory holds TLA+ modules of the parts of it whose
correctness depends on the order of steps, the TLC configurations that check
them, and proofs for TLAPS. Line numbers in `PROJECT.json` refer to the source
files in `src/`.

## The system

| Component | State | Operations | Hard because | Correct when |
|---|---|---|---|---|
| Turn registry (`internal/agent/runner.go`, `runner_sync.go`) | `Runner.runs`: one cancel function per thread; a context per turn | `Chat`, `ChatSync`, `Stop`, `runTurn` and its deferred cleanup | every turn is a goroutine; turns of a thread overlap; three sources of cancellation | the registry never names a finished turn; ends are reported once and truly; every turn reports |
| Guest loop and choices (`guest.go`, `runner.go`, `store/agent_pending.go`) | history, rows of pending choices, locals of the loop | model call, tool calls, `Choose`, resume | the user answers while other turns run; rows and history are separate files | every tool call gets one result; a resumed turn finds all of them |
| Agent panel (`useAgentSession.ts`, `agentStore.ts`) | phase, choice card, running steps | `send`, stop, submit, event handlers | events are asynchronous and name a thread, not a turn | the card shown can be answered; the panel never hangs |
| MCP confirmation (`mcp_confirm.go`, `agentUiActions.ts`, `askConfirm.ts`) | map of waiting calls, dialog queue, one dialog slot | `Await`, `Resolve`, show, click | a timeout races the click; the slot is shared | a call runs only after a yes to its own dialog |
| Plugin packs (`internal/pluginpack`) | source tree, built UI, releases, `lock.json` | seed, snapshot, build, rollback, enable, source edits | multi-step file operations, crashes, edits that bypass the lock | releases are whole; edits and choices survive |
| Cursor guest and bridge (`cursor_guest.go`, `cursorbridge`) | slots of the runner: one active thread, its context, a buffer of calls; one child process | turn, tool callback, ensure, stop | the slots are shared by all threads, callbacks outlive their request, the process dies | a call is filed once and in its thread; a cut turn ends; a dead bridge is restarted |
| Terminals (`internal/terminal`) | sessions, output tail with generation and waiters | open, write, wait, page, close | waiters and writers race; the tail is cut | no waiter misses output or waits for ever; pages join |
| Database sessions (`internal/session`) | sessions with handle and tunnel | open, switch, clear, close | checks and acts in separate critical sections | no handle is used after its close, none leaks; statements run where they were meant |
| SFTP transfers (`internal/sftp`, `useSftpTransferQueue.ts`) | queue of tasks and its refs; cancel table | enqueue, start, event, cancel, clear | events, results and cancels cross on the wire | slots are bounded, files are shown as they are, the queue drains |
| SFTP workspace (`SftpWorkbench.tsx`, `SftpTextEditor.tsx`) | tabs with sessions, one list, the text editor | connect, close, select, list, rename, delete, edit, save | answers come late and go on with the tab, path and text they began with | the list is that of the tab; files are changed where they were chosen; what is shown as saved is stored; sessions have tabs |
| Tunnels, forwards (`internal/tunnel`, `portforward`) | listener, client, table of forwards | start, forward, stop, close all | concurrent close, accept during close | a tunnel is closed once, the table matches the listeners |
| Log following (`app/log_follow.go`, `internal/logs`, `LogCenterWorkbench.tsx`) | follower per stream, last tail, lines of the view | start, poll, stop, deliver | successive tails are diffed; rotation; events before the id is known | the view has no gap and ends with the tail |
| Rebuild of a container (`docker/update.go`) | the two containers at the daemon | stop, rename, create, start, remove, and the undo | every call may fail, or work and time out | the container is never lost; all or nothing |
| Table editor (`TableDataEditor.tsx`) | page, row edits, sequence number of loads | load, edit, commit | answers in any order, a page number captured by a commit | the page shown is the one chosen; clean rows are fresh |
| Notebook (`NotebookWorkbench.tsx`, `internal/notebook`) | row, open note, save status, timers | type, timer, save, event, delete | a save reads after it wrote, tools write the same row | what is shown as saved is stored; edits are kept |
| Terminal tabs (`TerminalWorkbench.tsx`) | tabs with panes, sessions, handlers under way | connect, reconnect, split, close, restore | handlers await and then write lists they read before | every running session has a pane |
| Saved HTTP requests (`store/http_*.go`, `products/httpapi`) | rows of folders and requests; the sidebar's lists | drop, dialog, new, delete, tool | commands are computed from lists that may be old; several statements without a transaction | no folder below itself; drops land; deletes are whole |
| Stored workspaces (`workspacePersist.ts`, `bootstrapApp.ts`, `store/workspace.go`) | tabs shown, debounce timer, `<product>.json` and its temporary file | change, timer, write, rename, read, restore | the save at the mount races the restore; saves share a temporary file; the program ends at any moment | a tab opened and not closed comes back; at rest the file holds what is shown |
| MCP endpoint (`mcpserver`) | handler slot | serve | early requests | requests end |
| Environment, adapters, queries, other tables of the store, skills, HTTP client | the state is the machine's, the server's or one row | one call each | little interleaving of their own | answers agree with the outside world |
| The other React products and the shell | presentation | user interface | — | — |

How they meet: the panel calls the agent's bound methods and gets Wails events
back; a turn calls tools, which call the managers of terminals, databases and
so on; external agents reach the same tools through the MCP endpoint, where
dangerous ones pass the confirmation gate. Plugin packs decide which tools are
offered to a turn. `agent_pending` is the only persistent state that the guest
writes and the panel's answer removes. The Cursor guest is the other guest of a
turn: its process calls the tools back. The products (terminal, SFTP, logs,
tables, notes, requests) each keep lists of their own in the front end and
change the back end's through calls that are answered later, in any order;
the tools of the agent change the same rows behind them, and the events that
tell of it are the only link. Most of what can go wrong there is a list, a page
or a tab that was read before an `await` and written after it.

## Modules

`AgentTurns` — the turn registry. `pc[u]` is the place of the goroutine of
turn `u` in `runTurn`; `runs` is the map of the same name, `ctx[u]` the context
made by `context.WithTimeout`, `done[u]` the `agent:done` events emitted in the
name of the turn. One action per block of code: `Register` is the critical
section at the start; `SetGuest` puts the turn's guest into the one slot that
the runtime has for all turns (`slot`, `runner.go:804`) and `RunGuest` takes
what is in it then (`guest[u]`), which may be the guest of another turn: its
context is that of the goroutine, its thread and its `waiting` are its own.
`GuestAnswers`, `GuestOffers`, `GuestSeesContext`, `GuestFails` and
`GuestPanics` are the ways the guest ends, `ExecuteConfirmed` and
`ConfirmedReturns` a tool that runs under the context of the application
(`runner.go:521`), `LifecycleSucceeds`, `LifecycleFails` and `ReportFailure`
what `RunTurn`'s caller does with it, `Unregister` and `Recover` the deferred
functions. `stopped`, `superseded` and `timedOut` are history. `MCAgentTurns` adds, for the runs without liveness, the
symmetry of turns that differ only in name (the `ChatSync` ones among
themselves, the others among themselves).

`AgentChoices` — one conversation end to end: the guest's loop (`ModelAsks`,
`CallStarts`, `CallWaits`, `CallEnds`, `BatchEnds`), the rows (`row`), `Choose`
in its five steps, and the panel (`Send`, `ClickStop`, `Reopen`,
`SubmitChoice`, `Deliver` with `OnTool`, `OnOfferChoices`, `OnDone`). The
history is reduced to who asked a call and how many results it has. What
`AgentTurns` treats step by step (the time between report and cleanup, panics,
late stops) is one step here. A rewrite of an invalid `agent-choice` block
leaves the loop where it is and is not a step. Errors that the code drops
(`_ = history.Append(...)`) are assumed not to occur. A goroutine runs the guest
of its own turn here; that it may run another's is in `AgentTurns`. Task ids
(`chat:<milliseconds>`) are assumed to be different for different turns. While
a tool step runs the panel is in `tools`; when it has ended and before the next
delta the panel is `idle`, as in `finishToolStep`, so that a message can be
sent into a running turn.

`PackReleases` — one pack on disk. `op` is the operation that holds
`Manager.mu` and the file-system step it is at; `work`, `ui`, `releases` and
`lock` are the directories and `lock.json`; a tree is its version and the set
of user edits in it. `Crash` can happen between any two steps. `WriteSource`
takes no lock, as in `files.go`. `SnapBegin` to `PruneRelease` are shared by
snapshot, build, rollback and seeding. `SnapCopy` leaves out the edits below
`node_modules`, `.git` and `dist` (`Skipped`), as `copyTree` does. `SnapBegin`
tries the suffix of an id once and then writes over what is there. `Prune` reads
and cuts the list, and `PruneRelease` removes one release: what is left of it is
any part (`RestsOf`), since `os.RemoveAll` works file by file, may be cut off
and its error is dropped; the same holds of the source tree (`PartsOf`). A
`Crash` while `meta.json` is written over an old one leaves it unreadable.
`fate[i]` is history: whether release `i` is written over by a third snapshot of
its second, or its removal was begun, or it was made active after that.

`McpConfirm` — the gate (`call`, `wait`, `chan`, `due`) and the front end
(`queue`, `handler`, `slot`). `TakeAnswer` and `TakeTimeout` are the two
branches of the `select`; `ResolveTakes` and `ResolveSends` the two halves of
`Resolve`. `EditorAsks` is the other user of the dialog slot; since an open
dialog covers the window it is only enabled while the slot is free.

`OneShotConfirm` — what the gate promises: a question is opened once, answered
or lapsed once, and its call runs at most once and only after a yes.
`McpConfirm` implements it under `Phase`.

`Terminals` — sessions of terminals. `shell[s]` and `closers[s]` say whether
`Close` or the pump's `finish` took the session out of the table; the output
tail is reduced to how many lines were printed (`lines`), how many of them the
tail has dropped (`cut`) and the second of the last append (`at`). A reader is
a tool call of `get_shell_output`, which takes the session (`ResolveShell`),
reads the metadata (`ReadMeta`), registers as waiter if the generation is
still the one read (`RegisterWaiter`) and pages back (`ReadNewest`,
`ReadOlder`). An overflow halves the tail, in lines rather than bytes.

`DbSessions` — one session with its handle, `handles[h]` the database each
handle is connected to, `openOnes` those not closed. `OpenSession(name)` is a
connect, which names no database, or a reconnect, which names that of the
session before; PostgreSQL then connects to its default (`Connected`), and the
session keeps the name it was given. Tabs of an earlier session may be there. `SwitchBegins`,
`SwitchReadsTunnel`, `SwitchOpens` and `SwitchSwaps` (or `SwitchTooLate`) are
`SwitchDatabase`'s critical sections with the unlocked work between them;
`SwitchRenames` is the branch of the other engines; `MetaCall`, `MetaOpens` are
`DBForDatabase`; `TabCall` is a page or commit of a table tab.

`PortForwards` — `fwd[f]` is how far Start and the tunnel of a forward are,
`active` the manager's table, `closes[f]` how many calls of `Close` found
`t.closed` open; `conn` are the connections it accepted, with their dial and
the two copies.

`Transfers` — the queue of the front end (`task`, `startingRef`,
`cancelledRef`, `timers`) and the call of the back end (`call`, `ctx`, the
cancel on its way) with the messages between them (`wire`, in order per task:
progress events, then the result). `BindContext`, `CopyChunk`, `LastRead` and
`TransferEnds` are the points at which a cancel is or is not seen.

`SftpPanes` — the workspace of the SFTP product. A tab is known by its session;
`job` are the calls of the back end in flight, each with what its function has
captured; `listing` is the place whose entries the list shows. Whatever changes
the active tab or its path goes through `MoveTo`, which includes the effect
that empties the list and reads it anew. A prompt, a connect, a close of tabs
and the editor's Ctrl+S keep the tab, list or text of the rendering they come
from (`prompt`, `connecting`, `closer`, `editor.mount`). `late`, `mixed` and
`lost` are history.

`WorkspaceSaves` — the stored tabs of the database or the SFTP product
(`product`). `timer` is the debounce timer with the snapshot it holds, `saves`
the calls of `SaveWorkspace` in the steps of `SaveWorkspaceJSON` (`SaveOpens`,
`SaveFills`, `SaveRenames`, or `RenameFails` and `SaveRemoves`), each with the
name its open file has by now (`fd`); `reading` is the restore (`HostsListed`,
`LoadReads`, `RestoreOpens`, `RestoreEnds`). `ProgramEnds` can happen at any
moment. `owed` is history: the tabs the user has opened and not closed, less
those whose loss a step names; `spoiled` that a save failed or met another. A
tab is its host, and of two tabs to one host only one is counted.

These six share no state. `MCConnections` puts them side by side; the variable
`part` says which of them a behaviour is about, and the others rest.

`CursorTurns` — turns of the Cursor agent, one per prompt, on all threads, and
the process they talk to. `Register` cancels the turn it finds registered for
its thread and goes on at once, so turns overlap on one thread as on two.
`cursorActiveThread`, `cursorTurnCtx` and `cursorTurnBuf` are the runner's
slots, one each for all turns: `ActivateTurn` and `SetTurnCtx` set them,
`DropTurnCtx` and `EndTurn` are the deferred resets, which clear whatever is
there. `BindCall` is a callback that reads them, `PushCall` the append to the
buffer, `PersistTurn` the filing of the buffer, `SendReturns` and `SendFails`
the end of the request. `CutTurn` is Stop or the deadline, `cut` the turns whose
requests fail. `met` is history: which turns worked at the same time as which,
or while a late callback of theirs ran.

`LogFollow` — the file with its rotations, one follower per stream with the
tail of its last poll (`prev`), the chunks on their way and the view. `Poll` is
one tick of the loop: the tail, its diff with the last one, and the chunk.
`TakeLineWindow` and `DiffAppend` are the functions of that name in the code, on
sequences of lines.

`ContainerUpdate` — `step` is the next call to the daemon; each action is one
call, with its success, its failure, and its failure after it worked.
`named`, `aside` and `running` are the daemon's state, `expired` the 180 s of
the context, after which the undo fails as well.

`TableEdits` — the editor's page, row edits and added row, its calls in flight,
and the table. `loadSeq` decides which answer is taken. `Commit` captures the
page number and its batch; `CommitReturns` loads with the captured number.

`NotebookSaves` — one note: the row, its tab and open text, `saveByNote`, the
timer, calls of `saveNote` in their steps (`FlushSave` or `TimerFires`,
`SaveWrites`, `SaveReads`, `SaveReturns` or `SaveFails`), and calls of `getNote`
(`pull`), which put the row over the open text: `OpenNote` is `openNoteById`,
which does not look whether the note is dirty, `Refresh` is `handleRefreshList`,
`DeliverUpdate` the event of a tool's write (`IgnoreUpdate` where it is
dropped). `PullReturns` is their answer, or `OpenPromotes` where the opening
makes Markdown of a plain text and saves it. The agent's tool is two steps,
`ToolReads` and `ToolWrites`, as `notebook_append.go` has it: a read and an
upsert, between which the note may be saved or deleted. `DeleteNote` and
`DeliverDelete` are a delete and the editor's dropping of the note. `causes` is
history: what has come between the user's text and the row.

`TerminalTabs` — tabs with the set of sessions in their panes, and the
handlers under way, each with the list or layout it read before its first
`await` (`reconn`, `split`, `closer`, `restore`). `excused` and `stale` are
history: the sessions lost and the tabs written by handlers that overlapped or
failed in part (`LostByOverlap`).

`HttpTree` — `parent` is the stored tree, `listed` the tree as the sidebar's
two lists say, `due` and `answers` the refreshes asked for and read. A command
is a drop, the save of a dialog or of a new request, or a delete.
`Drop` takes the lists, `Layout` is what `buildHttpApiTreeLayout` makes of
them, `DropReads` and `ApplyLayout` are `ApplyHTTPApiTreeLayout`, whose check
for cycles walks a Go map in any order (`AcceptedIn`). `DeleteReads` and
`DeleteRows` are the statements of a delete, one at a time, `DeleteFails` and
`RestartTree` what ends it between two of them. The order of siblings is left
out. `crossed` is history: a folder was moved by a dialog that saved an old
parent, or while a layout that does not speak of it was being checked.

`MCWorkbench` puts these seven side by side as `MCConnections` does.

## Runs

| Run | Question | Bounds |
|---|---|---|
| `AgentTurns` | all properties of the registry, liveness included | 2 threads, 2 turns, one a `ChatSync`; two turns are enough for every overlap and every swap of guests, both on one thread or apart |
| `AgentTurns_stop` | does Stop reach every turn in progress? It does not | 1 thread, 3 turns (one a `ChatSync`): the third is registered when the second cleans up |
| `AgentTurns_cause` | is `stopped` only the user's Stop or a newer message? It is not | the same |
| `AgentChoices` | unique results, cards, resumption, liveness of the panel | 2 calls, in one answer of the model or two; 3 turns: the one that offers, the one that resumes, one sent in between; 2 submits under way; events at most 2 behind; one restart; poll limit 1 |
| `PackReleases` | whole releases, active release, edits, the user's choice | 2 seed versions, 2 launches, 2 operations of the user beside the seeding, room for 2 releases, 2 seconds, 3 snapshots in each, 1 edit, of a source file or in `node_modules` |
| `PackReleases_sameversion` | are edits kept at the same version? Not with a broken `pack.yml` | 1 breaking edit |
| `PackReleases_target` | does the target of a rollback survive its own snapshot? Not at the limit | room for 2 releases |
| `McpConfirm` | gate, dialogs, refinement, every Await returns | 3 calls and the editor: one shown, one queued, one late |
| `McpConfirm_shown` | is a call shown as confirmed one that was not refused? No | the same |
| `Connections` | the six Safe properties, and the end of what waits | terminals: 1 shell, 1 reader, 5 lines, a tail of 3 and pages of 1 line, 1 retry, 2 seconds; databases: 2 databases, one the default, a connect with either or with none, 2 callers, 3 calls, 4 handles, PostgreSQL or another engine; forwards: 2, on equal or different ports, 2 connections; transfers: 2, one of them a folder, 1 slot, 2 messages on the wire; SFTP tabs: 2 sessions, up to 2 of them restored, 2 directories, 2 calls in flight, 2 closes at a time, 1 text typed, 3 functions begun; stored workspace: 2 tabs, 2 saves in flight, 3 starts, tabs opened or closed |
| `Workbench` | the seven Safe properties, and progress | Cursor: 2 turns, of one thread or of two, 1 tool call; log: 3 line contents, tail of 2, 1 stream, 3 writes, 2 chunks on the wire; table: 2 pages, 2 calls in flight, 1 value entered; note: 2 saves and 1 read in flight, 2 texts, 2 reads, tool calls or deletes asked for; tabs: 2, 4 sessions, 3 handlers, 2 of them closers, 2 panes, 1 stored tab; tree: 2 folders, 1 request, 2 commands at a time, 3 in all where one that overlaps counts twice, 1 list on its way |
| `Cursor_dead` | is `Alive` only true of a process that runs? It is not | 1 thread, 1 call |

Why these are enough. A cut of the tail, a page across the cut and a wait in
the second of an append need 5 lines in a tail of 3. One session with two
callers has every overlap of two switches, and a switch with a statement or a
close. One slot for two transfers makes the second one wait for the first
(`MAX_CONCURRENT` is 3 in the code). Three lines and a tail of two have
rotation, scrolling past the tail and equal lines. The note's two saves are
those that overlap; the two texts are the user's and a tool's, in either order,
and the two requests a read or a tool call and the delete that crosses it. Two
turns of the Cursor agent are the old and the new one of a thread, or those of
two threads. Three snapshots in a second are the fewest of which one is written
over a listed release; two operations beside the seeding make a build and a
rollback, but a rollback onto a release that is torn or being written over takes
more operations than the run has: there the theorems speak.
Three functions of the SFTP workspace reach every
exception its properties name, and with four the run finds no more (that part
alone has 357,599 states instead of 83,914). Two starts and one tab opened are a
restore over which the user works; two saves in flight share the temporary
file. Four sessions allow a restored, a reconnected, a split and a new one. Two
folders make a cycle; a drop and a command that crosses it are two commands.
In a run the tool saves a request without its folder, which the store writes as
the root; the lists of an old tree then send it back.

Deadlock is not checked where all turns, calls or operations of the bounded
run can be used up; that is the end of the run and not a fault.

The poll limit is 3 in the code and 1 in the run, so that a limit in the middle
of a batch fits into two calls. `maxPackReleases` is 20 in the code and 2 in
the runs. `PerSecond` is 3 in the run of all properties: the second snapshot of a
second is handled by the id's suffix, the third is written over it (the suffix
is tried once, `release.go:199`). The theorems hold for any number.

Fairness. `AgentTurns`: goroutines run, and the 12 minutes of a turn's context
pass; a guest that comes back to the head of its loop again and again with its
context done returns (strong fairness, since a confirmed tool takes it away from
there), because model and tool calls take the context. Nothing is owed by a
confirmed tool, which runs under the context of the application and may hang. `AgentChoices`: goroutines run and their calls return, the
webview delivers events; the user owes nothing. `McpConfirm`: goroutines run
and the five minutes pass; neither the user nor the front end owes anything. `Connections`: timers fire, dials return, messages arrive, a
file ends; nothing is asked of users, shells and servers. `Workbench`: the
goroutine of a Cursor turn runs and its requests fail once their context is
cancelled or their process is dead; the polls of a followed log succeed again
and again (strong fairness, since a failing read is the file's, not the
loop's) and chunks are delivered; timers fire, calls of `saveNote` end and the
event of a delete arrives.

Properties worth a second look:

- `ReachableUnlessOverlapped` says how far Stop can be relied on: until a turn
  of the thread registers over another one.
- `StoppedHasCause` is what remains of the comment on `emitTurnDone` when the
  deadline of `ChatSync`, which goes through Stop, is counted as a cause.
- `WaitingIsFinal` and `EveryTurnReports` hold of a turn whose guest no other
  goroutine has run, and of the two turns together where one has: what a swap of
  guests leaves is that no goroutine ends without a report in one of the two
  names.
- `OfferReachesUser` lists everything that can cost the user a choice card:
  stopping or reopening over it, a message sent before the panel has seen the
  end of a turn, rejected answers, the poll limit, a restart. The row stays in
  `agent_pending` in each case and nothing shows it again.
- `ResumesAnswered` has no exception: through every overlap and a restart, a
  turn resumed by `Choose` finds each call of the task answered once.
- `OneResultPerCall` rests on the panel: `Choose` itself would answer twice if
  called twice at once; `submitChoice` takes the card away before it calls.
- `EditsSavedUnlessFailed` excepts edits in directories that snapshots skip,
  edits written while an operation is under way or found in a tree without a
  `pack.yml`, and operations whose snapshot failed, because the code ignores
  that failure.
- `ListIsSound` and `ReleaseImmutable` say what is left of an immutable list of
  whole releases: one that is not whole is one whose removal was begun or which
  the third snapshot of its second is being written over, and only that one, the
  second of the current second, is ever written over. `ListIsSound` includes that
  the active release is not pruned, that pruning takes only what lies past the
  newest `Keep` (`PrunedAreOldest`), and that the target of a rollback survives
  below the limit (`TargetKeptBelowLimit`).
- `TerminalsSafe`: no lost wake-up, and a reader sleeps over newer output only
  when it came in the very second of its last page, since `updatedAt` has
  whole seconds; pages join although the tail is cut between them.
- `DbSessionsSafe`: the handle of a PostgreSQL session is on the database the
  session names, or on the adapter's default as long as none was named; a
  statement that ran in another database than it was meant for came from a tab
  the session was switched away from or of an earlier session, or a switch fell
  between the comparison and the handle in `DBForDatabase`; nothing else makes
  it.
- `ForwardsSafe`: `Tunnel.Close` would panic if two callers found it open; the
  table lets only one of Stop, another Stop and CloseAll have it.
- `TransfersSafe`: slots include what was cancelled and still copies, and what
  is shown done too early.
- `WorkspaceSafe`: a tab is lost only where a step takes it out of `owed`: the
  hosts or the file cannot be read, its session cannot be opened, a restore or a
  close writes an older list, the empty list is saved before the stored one is
  read, or the program ends while a save is due, under way or has failed.
- `CursorSafe`, `PanesSafe`, `TabsSafe`, `NotebookSafe`, `TableSafe` state what
  is kept and name each overlap after which it is not (`met`, `late` and
  `lost`, `excused` and `stale`, `causes`, `strayed` and `doubled`).
- `NotebookSafe` is about what automatic saving promises: at rest, a note shown as
  saved is the one in the store, and the user's latest text is stored or shown
  as not saved; a deleted note stays deleted. `causes` names the ways around it
  one by one, so that any further one would be a violation.
- `WorkbenchProgress`: again and again all turns that were cut are gone, a view
  that is followed is at the end of the log, and no note is dirty unless a save
  has failed (`CutTurnsGone`, `ViewCaughtUp`, `DirtyIsSaved`).
- `UpdateSafe`: wherever the rebuild stops, one of the two containers is there,
  a container made with `--rm` excepted.
- `TreeSafe`: a drop that nothing crosses is not refused and moves its node and
  no other; a delete that nothing crosses leaves nothing in what it deleted; no
  folder is above itself unless `crossed`. The proof made that exception as wide
  as it is. Three commands in the run reach only one way to a cycle, a dialog
  that is overtaken by a drop. A fourth gives two more: a dialog opened from a
  list that was old already saves a folder below its own child although nothing
  ran beside it, and two layouts, each checked against rows read before the
  other wrote, move two folders below each other when one of the layouts does
  not speak of the folder the other moves.

## What the code does not keep

- `StopReachesLiveTurn`: the deferred `delete(r.runs, threadID)` removes the
  entry of the turn that took over (`runner.go:746`).
- `StoppedOnlyByUserOrNewer`: a `ChatSync` deadline is reported as stopped.
- `SameVersionKeepsEdits`: a `pack.yml` that cannot be parsed counts as not
  installed, and the next start copies the seed over the edits.
- `TargetKept`: at the limit, the snapshot before a rollback may prune the
  target, and the tree is removed before the copy fails.
- `ShownAsConfirmedRuns`: an approval that comes after the timeout is refused
  by the gate and shown as confirmed.

- `AliveMeansRunning`: `Alive` of the Cursor bridge looks at `ProcessState`,
  which only `Wait` sets, and nobody waits after the ready line: a bridge that
  died stays alive for `Ensure`, and every later turn fails on it.

Seen while modelling and kept as conditions of the properties or as notes.

In the turns: the runtime has one slot for guests, which `host.go:41` says is set
per turn ("Guest 由 Runner 按轮 Set") and which no lock ties to the turn
(`runner.go:804`). Two turns that start together may run each other's guest, or
one guest twice: events and reports then carry the thread of another, one turn
may report nothing and the other twice, and a choice card may be dropped. A tool
that runs under `executeConfirmed` has the context of the application
(`runner.go:521`): neither Stop nor the deadline ends it.

In the packs: the third snapshot of a second is written over the second one,
which `types.go:90` calls immutable ("一次不可变快照"). A release whose pruning was
cut off stays listed as long as its `meta.json` does, and can be rolled back to.
What the user writes below `node_modules`, `.git` or `dist`, which
`WriteSourceFile` accepts, is in no snapshot, and a rollback or an upgrade removes
it. A
failed snapshot before a rollback is ignored; a copy interrupted by a crash
leaves a tree that `pack.yml` alone makes look installed; the first snapshot of
a pack without a `lock.json` entry writes it as disabled; a rollback to an
older seed version is undone at the next start.

Elsewhere: `Resolve` answers true for an
approval whose Await takes the timeout; the error phase of the panel is
overwritten by idle.

In the connections: a cancel of a transfer before its context is bound or after
its last look at it is lost, the transfer completes and only its row says
otherwise; a folder is shown done after its first file; statements of a
PostgreSQL tab go to the database the session was switched to for another tab.

In the workspace of SFTP:
- Answers of listings carry no number. One of another tab or path that comes
  late takes the list, and an entry chosen in it is opened, renamed or deleted
  through the active tab. The list that follows a rename or a delete is that of
  the prompt's tab.
- Ctrl+S in the text editor is bound when the editor mounts: it writes the text
  as it was first read, to the tab active then, and the editor shows itself as
  clean. A save marks clean what was typed while it ran. The editor does not
  know its session: a reload and a save go to the active tab.
- A prompt opened while another operation runs does nothing when confirmed.
- A session whose home cannot be read is not closed. A close of tabs writes the
  list it was made with: tabs opened meanwhile lose their place and keep their
  session, tabs closed meanwhile come back.

In the stored workspaces:
- The effect that saves runs when SFTP or the terminals are mounted, with no tab
  yet. Unless the hosts and the file are read within 400 ms, the empty list is
  stored first; and while sessions are being restored an end of the program
  forgets them.
- The restore replaces tabs opened meanwhile, and a read that fails counts as an
  empty workspace, which is then saved over it.
- Nothing is saved on the way out: the last 400 ms of changes are lost.
- Two saves share `<product>.json.tmp`: the rename of one may publish the half of
  the other, and the older one may be the last.

In the workbench:
- The three slots of the Cursor guest are shared by all turns. With two at a time
  calls are shown and filed in the wrong one; and a turn that was superseded
  clears them at its end under the newer turn of the same thread, whose calls
  then go to no thread and do not see its context.
- A refresh while a log is followed puts another tail under the chunks.
- The load after a commit uses the page of the click; a second click on commit
  before the first returns inserts added rows again.
- Deleting one note leaves its save timer, which brings the note back (the
  deletion of several clears it); two saves may overlap and end in the wrong
  order; the text of a tool's event may come over text typed meanwhile.
- A click on the open note in the sidebar, a refresh of the list or a tool's write
  that reveals the note puts the stored row over text that is not saved yet, and
  shows it as saved. The tool's append reads the row and upserts it: it undoes a
  save that falls between, and brings back a note that is deleted there.
- A container made with `--rm` is lost when the step after its stop fails; the
  undo uses the context that may have expired.
- Closing a connecting tab of the terminal leaks its session; lists read before
  an `await` drop tabs opened meanwhile or bring back closed ones; a failed
  reconnect leaves a ready tab with closed sessions. The restore overwrites tabs
  opened meanwhile.
- After a drop in the tree of requests the folders are not listed again and the
  store emits no event: the next drop, or the renaming of the folder, moves it
  back where it was. A dialog writes the parent it was opened with unchecked: a
  slow write that crosses two drops can make a cycle. The tool's save of a
  request without `folderId` moves it to the root. Nodes saved or moved into a
  folder while it is deleted stay, and are shown at the root.

## Proofs

`AgentTurns_proofs` proves, for all sets of threads and turns, `TypeOK`,
`EntryIsAlive`, `ReachableUnlessOverlapped`, `StoppedHasCause` and the action
property `WaitingIsFinal`. The invariant `IInv` is their conjunction with
`CancelHasCause`: a context is not cancelled before the turn registers, and
after that only by one of the recorded causes or by the turn's own cleanup; and
with `GuestOK`: a goroutine takes a guest out of the slot once, and somebody has
set one by then. Without the first `StoppedHasCause` is not inductive, since
`emitTurnDone` looks at the context and not at who cancelled it. That nothing is
reported after an offer needs `WaitsQuietly`: a turn that has offered and whose
guest only its own goroutine has run is past its guest. The lemma `QuietStep`
covers the actions that move a turn without touching the registry.

`McpConfirm_proofs` proves, for any set of calls, `TypeOK`, `GateExact`,
`RunsOnlyIfApproved`, `DialogsAreSerial` and the refinement `Implements`. The
invariant adds four facts: a call that has not registered has left no trace
(`NotAskedYet`), an id is queued at most once (`QueuedOnce`), the handler
carries the answer the user gave (`HandlerCarries`), and a value in a channel is
the user's click on that dialog (`AnswersAreClicks`). Every step of the gate
maps to one step of `OneShotConfirm` or to none.

`PackReleases_proofs` proves `TypeOK`, `ListIsSound` and the action properties
`ReleaseImmutable`, `EditsSavedUnlessFailed` and `ChoiceIsKept` for any limit of
the list, any versions, edits, launches, seconds, snapshots per second and
operations, and a crash or a removal cut off anywhere, with no further
hypothesis. `PackInv` says which operation can be at which step and that the
active release is never among those being pruned (`OpOK`); that a directory which
is being filled is not listed unless it is being written over (`Newborn`), and
holds the edits the operation found that snapshots do not skip (`HasEdits`,
`SnapOK`); that the source tree is removed only when they are listed, were
written since, or the snapshot failed (`EditsOK`); and that a rollback below the
limit keeps its target through the pruning (`TargetOK`). That only a third
snapshot of a second is written over another needs the number of directories of
this second, which are no more than the snapshots begun in it (`DirsOK`).
`Newest` and `Doomed` are reasoned about by cardinalities, since what a pruned
list keeps is counted, not enumerated.

`Connections_proofs` proves `TerminalsSafe` for any numbers of shells, readers
and lines. The invariant says of each call that it is not ahead of the output
(`NotAhead`), that what it has not seen is no newer than its last page if the
generation is the one it read (`OldNews`), and that the next page begins no
higher than the last one ended (`NextIsBelow`), which survives cuts because
offsets count from the end; `OneCloser` is `CleanedOnce` made exact.

It proves `DbSessionsSafe` for any databases and callers. The
invariant says whose each open handle is (`HandlesOwned`, `HoldsOwn`), what a
call has compared (`RunsWhereMeant`), and that the handle is on the database that
is named, or on the default one, and a tab that is `fresh` names it
(`SessionOK`, `Named`).

It proves `ForwardsSafe`; with the types that is inductive as it stands. And it
proves of the composition, `MCConnections`, that every behaviour is one of each
of the six specifications (`PartsAreKept`), so that what is proved of each holds
of what the run checks; `ConnTypeCorrect` follows.

`Sftp_proofs` proves `TransfersSafe`. What makes `ShownAsItIs` inductive
is `WireOK`, which says what may be on the wire at each stage of the call, with
the result last; what makes `SlotsBounded` so is that `startingRef` has exactly
the calls at work or with messages to come (`StartingHoldsCalls`), and what
makes `IdleIsReported` so is `RefreshComes`. It proves `PanesSafe`, too: what is in
flight was begun at the place that is shown unless `late` says otherwise
(`InFlightIsHere`), the editor has one call at a time and what it carries is what
the editor and the file hold unless `mixed` does (`OneEditorCall`), the session
that connects is open and in no list that a close will set (`Numbered`), and a
close has closed what it has dealt with (`ClosersClose`). And it proves
`WorkspaceSafe`: the timer holds the list that is shown (`TimerIsLatest`), a save
that met no other has the latest list and a temporary file of its own
(`SavesOK`), and when nothing is due and nothing failed the file is the list
(`QuietIsStored`).

`AgentChoices_proofs` proves the five invariants of the conversation. The
choices of a turn pass from the guest to an offer among the events, to the card,
to the answers of a submit and to the batch that `Choose` writes. `HeldOK` says
that these never share a call (`Apart`), that they are of turns that have
returned (`OfGone`), that an offer and a card are all the rows of their turn,
whose other calls have results (`Offerable`), and what a submit in each of its
stages knows of its task (`SubmitOK`). `GuestOK` says the same of a turn that
runs: every call it asked has a result, a row, or is still to come. Together
with `CallsOK` (a row excludes a result) these are inductive, and the four
properties follow: `ResultsOnce`, `CardAcceptable`, `Resumed` and `TypeCorrect`.
`OffersReach` needs one more invariant, `Reaches`: as long as nobody disturbs it
the conversation is in one stage at a time (`OneStage`) and every row is held by
the stage it is in (`RowHeld`).

`Workbench_proofs` proves `CursorSafe` for any threads, turns and calls. Turns
that work at the same time have met, both ways (`Acquainted`). What the slots
name is a turn that works or nothing (`SlotsOfWorking`); as long as a turn has
met nobody they name it (`SlotsAreOurs`), the buffer has only calls it asked for
(`BufIsOurs`), and what was pushed for it is in the buffer or filed
(`PushedIsKept`). A call is filed by the turn that asked for it or by one that
met that turn (`FiledByMet`); `FiledOnce`, which has no exception, needs that what
is in the buffer is not filed yet (`BufNotFiled`). It proves `UpdateSafe` from `Whereabouts`: where the
two containers are before each call. And it proves `TableSafe`: the load that
is awaited is of the chosen page (`LoadIsChosen`), what it has read is the table
unless a commit was applied that is still to return, and will load again
(`ReadIsFresh`), and the commit of an added row is in flight as long as the
editor shows the row (`AddedIsSent`). That a row is inserted no oftener than
calls are in flight, which the type says, takes a count: as long as the editor
shows the row its copies are its commits that were applied and have not returned
(`CopiesOK`). It proves `NotebookSafe` for any number of saves in flight and any
texts: two saves are under way only after an overlap (`OneSave`); what was never
deleted has a row and an open text (`NoteThere`), and no text is ahead of what
was written (`Written`); what a save or
a read will bring back is what the store has (`NoteSaved`); the last text typed
is stored, or a timer or a save carries it (`NoteEdits`); after a deletion that
no save, write or read raced, nobody is about to write (`NoteDeleted`). And it proves of
`MCWorkbench` what `Connections_proofs` does of `MCConnections`:
`PartsAreKept` for all seven specifications, and `WorkbenchTypeCorrect`.

`Views_proofs` proves `LogFollowSafe`, `TabsSafe` and `TreeSafe`.

- The log, for any lengths of log, tail and wire. `Chain` says of the chunks
  under way that there are texts, each a contiguous part of all that was written,
  from one the view ends with to one that ends with the follower's last tail, and
  that each chunk leads from one to the next. That a chunk does (`DiffLinks`,
  `JoinedEnds`, `JoinedParts`) is about `DiffAppend` on any two sequences: the
  longest overlap exists (`LargestOverlap`), and the second tail is what it keeps
  of the first and the chunk. No gap in a log whose lines all differ follows,
  because equal lines are then at equal places.
- The tabs, for any tabs, sessions and handlers. `OwnInv` gives a session one
  tab among all that show it, have read it or will write it again (`Owns`);
  `OpenedInv` says that a session opened for a tab to come has none yet;
  `CloserInv` and `ReconnInv` that what a handler is to close and has no longer
  before it is closed; `LiveInv` that a dead session is shown only in a tab that
  a handler is about to write.
- The tree, for any finite set of folders. No set of folders holds the parents
  of all its members (`Acyclic`), a form that needs no induction where it is used:
  `MovesKeepAcyclic` is about moving folders below a place they are not above,
  `LayoutKeepsAcyclic` about a layout that was accepted folder by folder in some
  order, `AcyclicSays` about the walk of `isHTTPFolderDescendant`. `DropOK` and
  `DeleteOK` say what a command nobody wrote under knows of the rows.

The proofs use the named assumptions on the constants and nothing else. They
made three of these explicit that the runs satisfy without saying so: the marks
`Off` and `NoNote` of a note differ, and there are finitely many folders and
slots for calls.

Every safety invariant and every action property of the passing runs, and the
refinement of `OneShotConfirm`, is a theorem. Only model-checked are the
liveness properties (`EveryTurnReports`, `EveryAwaitReturns`, `PanelSettles`,
`ConnProgress`, `WorkbenchProgress`), which are beyond the prover, and what the
violation runs show, which has no proof but its counterexample.

## Not modelled

The table of components in `PROJECT.json` gives the reason for each. In short:
parts with no state that steps relate to (adapters, SQL text, prompts, HTTP
client, crypto), parts whose state belongs to something outside (most of Docker,
toolchains, the ningharness library), generated code (`wailsjs`), translations,
and presentation.

Of the parts that are modelled: `ConfirmSync` and chat modes of the agent;
creating, validating and building a pack (`BuildUI` holds `Manager.mu` while it
runs an npm install without a timeout, so every other operation of the packs
waits for it); the download, a change of the key and the shutdown of the Cursor
bridge; two log streams at once and older pages of a log; groups of notes, the closing of
its tabs and the deletion of several at once; the staging of
transfers, bookmarks, images and the conflict dialog; the order of siblings, the
editor of a request, the delete of one request and answers of lists that overtake
each other in the tree of requests; the
stored workspaces of Docker, logs and HTTP requests (the same saver), the active
tab and the order of the stored tabs, their migration from localStorage; the
sizes of panes and the command bus.

Details left out where they are: `TableEdits` has no commit that was applied but
came back as an error; `HttpTree` takes the two list reads of a layout as one;
`ContainerUpdate` leaves out the error of the last read of the new container,
after everything is done; `PackReleases` counts a UI that was half copied or half
removed as whole or as none.

The models of the front end take a handler as a sequence of synchronous blocks
between its awaits, as JavaScript runs it.

## Plan

What is left, in the order of its use:

1. The tabs of the database workbench (`DatabaseWorkbench.tsx`): sessions,
   active tab and the switch of a session's database under open table tabs.
2. The MCP endpoint with its handler slot, and the start and end of the
   application around it.
3. Refinements of the connections: an abstract session that is opened, used and
   closed once, implemented by `Terminals`, `DbSessions` and `PortForwards`.
