----------------------------- MODULE MCWorkbench -----------------------------
(* Seven features of the workbench, side by side: turns of the Cursor      *)
(* agent, a followed log, the rebuild of a container, the table editor,    *)
(* the automatic save of a note, the tabs of the terminals and the tree of *)
(* saved HTTP requests. They share no state, so a behaviour is about one   *)
(* of them, the part it starts with.                                       *)
EXTENDS CursorTurns, LogFollow, ContainerUpdate, TableEdits, NotebookSaves, TerminalTabs,
        HttpTree

VARIABLE part

vars == <<cursorVars, logVars, updVars, tableVars, noteVars, ttVars, treeVars, part>>

Cursor(A) == /\ part = "cursor" /\ A
             /\ UNCHANGED <<logVars, updVars, tableVars, noteVars, ttVars, treeVars, part>>
Log(A) == /\ part = "log" /\ A
          /\ UNCHANGED <<cursorVars, updVars, tableVars, noteVars, ttVars, treeVars, part>>
Upd(A) == /\ part = "update" /\ A
          /\ UNCHANGED <<cursorVars, logVars, tableVars, noteVars, ttVars, treeVars, part>>
Table(A) == /\ part = "table" /\ A
            /\ UNCHANGED <<cursorVars, logVars, updVars, noteVars, ttVars, treeVars, part>>
Note(A) == /\ part = "note" /\ A
           /\ UNCHANGED <<cursorVars, logVars, updVars, tableVars, ttVars, treeVars, part>>
Term(A) == /\ part = "terminal" /\ A
           /\ UNCHANGED <<cursorVars, logVars, updVars, tableVars, noteVars, treeVars, part>>
Tree(A) == /\ part = "tree" /\ A
           /\ UNCHANGED <<cursorVars, logVars, updVars, tableVars, noteVars, ttVars, part>>

\* The parts that rest start in one state. The thread of the first prompt is given:
\* threads differ in name only.
Init ==
  /\ CursorInit /\ LogInit /\ UpdInit /\ TableInit /\ NoteInit /\ TabsInit /\ TreeInit
  /\ part \in {"cursor", "log", "update", "table", "note", "terminal", "tree"}
  /\ threadOf[CHOOSE p \in Prompts : TRUE] = CHOOSE t \in Threads : TRUE
  /\ part # "cursor" => threadOf = [p \in Prompts |-> CHOOSE t \in Threads : TRUE]
  /\ part # "update" => wasRunning /\ autoRemove
  /\ part # "table" => loadSeq = CHOOSE r \in Requests : TRUE
  /\ part # "terminal" => restore.todo = 0
  /\ unused \in IF part = "tree" THEN {{}, Nodes} ELSE {{}}

CursorStep ==
  \/ Cursor(BridgeDies)
  \/ \E p \in Prompts :
       \/ Cursor(Register(p)) \/ Cursor(ActivateTurn(p)) \/ Cursor(SetTurnCtx(p))
       \/ Cursor(EnsureBridge(p)) \/ Cursor(AttachAgent(p)) \/ Cursor(SendReturns(p))
       \/ Cursor(PersistTurn(p)) \/ Cursor(DropTurnCtx(p)) \/ Cursor(EndTurn(p))
       \/ Cursor(Unregister(p)) \/ Cursor(CutTurn(p))
       \/ \E k \in Calls : Cursor(BridgeCalls(p, k))
  \/ \E k \in Calls : Cursor(BindCall(k)) \/ Cursor(PushCall(k))

\* Lines are 1..n: a line that differs from all before it is the next number.
LogStep ==
  \/ Log(RotateLog) \/ Log(FetchTail)
  \/ \E x \in 1..(Cardinality(Range(history)) + 1) : x \in Lines /\ Log(WriteLine(x))
  \/ \E s \in Streams :
       \/ Log(Poll(s)) \/ Log(PollFails(s)) \/ Log(FollowerEnds(s))
       \/ Log(StartFollow(s)) \/ Log(StartResolves(s)) \/ Log(StopFollow(s))
       \/ Log(DeliverChunk(s))

UpdateStep ==
  \/ Upd(StopOld) \/ Upd(RenameOld) \/ Upd(CreateNew) \/ Upd(StartNew) \/ Upd(RemoveOld)
  \/ Upd(RemoveNew) \/ Upd(RenameBack) \/ Upd(StartOld) \/ Upd(ProgramDies)

TableStep ==
  \/ Table(UpdateCell) \/ Table(AddRow) \/ Table(DeleteRow) \/ Table(DropAdded)
  \/ \E r \in Requests :
       \/ Table(LoadReads(r)) \/ Table(LoadReturns(r)) \/ Table(LoadFails(r))
       \/ Table(Commit(r)) \/ Table(ApplyMutations(r))
       \/ Table(CommitReturns(r)) \/ Table(CommitRefused(r))
       \/ \E p \in Pages : Table(ChoosePage(r, p))

\* Slots differ in name only: a call takes the one that is chosen.
NoteStep ==
  \/ Note(Type) \/ Note(TimerExpires) \/ Note(DeleteNote) \/ Note(DeliverDelete)
  \/ Note(ToolReads) \/ Note(ToolWrites) \/ Note(ToolFails) \/ Note(IgnoreUpdate)
  \/ \E i \in Slots :
       \/ Note(SaveWrites(i)) \/ Note(SaveReads(i))
       \/ Note(SaveFails(i)) \/ Note(SaveReturns(i))
       \/ /\ Saving # Slots /\ i = CHOOSE x \in Slots \ Saving : TRUE
          /\ \/ Note(TimerFires(i)) \/ Note(FlushSave(i))
             \/ \E j \in Reads : Note(OpenPromotes(j, i))
  \/ \E j \in Reads :
       \/ Note(OpenNote(j)) \/ Note(Refresh(j)) \/ Note(PullReads(j)) \/ Note(PullReturns(j))
       \/ \E reveal \in BOOLEAN : Note(DeliverUpdate(j, reveal))

TabStep ==
  \/ Term(ReconnectOpens) \/ Term(ReconnectEnds) \/ Term(ReconnectFails)
  \/ Term(SplitEnds) \/ Term(SplitFails)
  \/ Term(RestoreOpens) \/ Term(RestoreSkips) \/ Term(RestoreEnds)
  \/ \E s \in Sessions : Term(ReconnectCloses(s))
  \/ \E t \in Tabs :
       \/ Term(Connect(t)) \/ Term(Retry(t)) \/ Term(OpenReturns(t)) \/ Term(OpenFails(t))
       \/ Term(ReconnectTab(t)) \/ Term(SplitPane(t))
  \/ \E c \in Closers :
       \/ Term(CloseTabsEnds(c)) \/ Term(ClosePaneEnds(c))
       \/ \E gone \in SUBSET Tabs : Term(CloseTabs(c, gone))
       \/ \E s \in Sessions : Term(CloserCloses(c, s))
       \/ \E t \in Tabs, s \in Sessions : Term(ClosePane(c, t, s))

\* The tool of the agent leaves the folder out.
TreeStep ==
  \/ Tree(RestartTree)
  \/ \E n \in Apis : Tree(ToolSavesRequest(n, Top))
  \/ \E k \in Kinds : Tree(ListReads(k))
  \/ \E answer \in answers : Tree(ListReturns(answer))
  \/ \E c \in Commands :
       \/ Tree(DropReads(c)) \/ Tree(ApplyLayout(c)) \/ Tree(DropEnds(c))
       \/ Tree(SaveRow(c)) \/ Tree(SaveEnds(c))
       \/ Tree(DeleteReads(c)) \/ Tree(DeleteFails(c)) \/ Tree(DeleteEnds(c))
       \/ \E pc \in {"sent", "left"} : Tree(LeaveDialog(c, pc))
       \/ \E n \in Nodes : Tree(DeleteRows(c, n))
       \/ /\ command[c] = NoCommand /\ c = CHOOSE d \in Commands : command[d] = NoCommand
          /\ \/ \E n \in Nodes, p \in Places : Tree(Drop(c, n, p))
             \/ \E f \in Folders : Tree(OpenFolderDialog(c, f)) \/ Tree(DeleteFolder(c, f))
             \/ \E f \in Folders, p \in Places : Tree(OpenNewFolderDialog(c, f, p))
             \/ \E n \in Apis, p \in Places : Tree(CreateRequest(c, n, p))
             \/ \E selected \in SUBSET Nodes : Tree(BatchDelete(c, selected))

Next ==
  \/ part = "cursor" /\ CursorStep
  \/ part = "log" /\ LogStep
  \/ part = "update" /\ UpdateStep
  \/ part = "table" /\ TableStep
  \/ part = "note" /\ NoteStep
  \/ part = "terminal" /\ TabStep
  \/ part = "tree" /\ TreeStep

FairSpec == Init /\ [][Next]_vars /\ CursorFairness /\ LogFairness /\ NoteFairness

\* Every variable of the seven components has its type.
WorkbenchTypeOK ==
  CursorTypeOK /\ LogTypeOK /\ UpdTypeOK /\ TableTypeOK /\ NoteTypeOK /\ TabsTypeOK
  /\ TreeTypeOK

\* What is due happens: turns that were cut end, the view of a followed log catches
\* up again and again, and a note does not stay dirty for good. A part that rests
\* satisfies its conjunct, so the parts are asked for at once.
WorkbenchProgress == []<>(CutTurnsGone /\ ViewCaughtUp /\ DirtyIsSaved)
=============================================================================
