---------------------------- MODULE MCConnections ----------------------------
(* The stores of live connections, side by side: terminal sessions,        *)
(* database sessions, port forwards, SFTP transfers, the workspace of SFTP *)
(* sessions and the stored workspace. They share no state, so a behaviour  *)
(* is about one of them, the part it starts with.                          *)
EXTENDS Terminals, DbSessions, PortForwards, Transfers, SftpPanes,
        WorkspaceSaves

VARIABLE part

vars == <<termVars, dbVars, fwdVars, xferVars, paneVars, wsVars, part>>

Term(A) == /\ part = "terminals" /\ A
           /\ UNCHANGED <<dbVars, fwdVars, xferVars, paneVars, wsVars, part>>
Db(A) == /\ part = "databases" /\ A
         /\ UNCHANGED <<termVars, fwdVars, xferVars, paneVars, wsVars, part>>
Fwd(A) == /\ part = "forwards" /\ A
          /\ UNCHANGED <<termVars, dbVars, xferVars, paneVars, wsVars, part>>
Xfer(A) == /\ part = "transfers" /\ A
           /\ UNCHANGED <<termVars, dbVars, fwdVars, paneVars, wsVars, part>>
Files(A) == /\ part = "files" /\ A
            /\ UNCHANGED <<termVars, dbVars, fwdVars, xferVars, wsVars, part>>

Ws(A) == /\ part = "workspace" /\ A
         /\ UNCHANGED <<termVars, dbVars, fwdVars, xferVars, paneVars, part>>

\* All sessions begin in one directory: directories are alike.
Home == CHOOSE d \in Dirs : TRUE

\* The parts that rest start in the state of their first port and engine, and
\* without tabs.
Init ==
  /\ TermInit /\ DbInit /\ FwdInit /\ XferInit /\ PanesInit /\ WsInit
  /\ part \in {"terminals", "databases", "forwards", "transfers", "files", "workspace"}
  /\ part # "databases" => dbType = "mysql" /\ tab = [d \in Databases |-> "none"]
  /\ part # "forwards" => port = [f \in Forwards |-> CHOOSE p \in Ports : TRUE]
  /\ part # "files" => opened = 0
  /\ cwd = [s \in Remotes |-> Home]
  /\ disk \in {None, {}, {CHOOSE i \in Items : TRUE}, Items}
  /\ part # "workspace" => product = "sftp" /\ disk = None

TerminalStep ==
  \/ Term(TermTick)
  \/ \E s \in Shells :
       \/ Term(OpenShell(s)) \/ Term(PumpOutput(s)) \/ Term(PumpRetries(s))
       \/ Term(FinishShell(s)) \/ Term(CloseShell(s)) \/ Term(CleanupShell(s))
  \/ \E r \in Readers :
       \/ Term(ReadOlder(r)) \/ Term(ReadFails(r)) \/ Term(ResolveShell(r))
       \/ Term(ReadMeta(r)) \/ Term(RegisterWaiter(r)) \/ Term(WaitTimesOut(r))
       \/ \E s \in Shells : Term(ReadNewest(r, s))

DatabaseStep ==
  \/ Db(CloseSession) \/ Db(ClearDatabase)
  \/ \E name \in Databases \cup {NoName} : Db(OpenSession(name))
  \/ \E c \in Callers :
       \/ Db(SwitchRenames(c)) \/ Db(SwitchReadsTunnel(c)) \/ Db(SwitchOpens(c))
       \/ Db(SwitchSwaps(c)) \/ Db(SwitchTooLate(c))
       \/ Db(TakesHandle(c)) \/ Db(MetaOpens(c)) \/ Db(Runs(c))
       \/ \E d \in Databases :
            Db(SwitchBegins(c, d)) \/ Db(TabCall(c, d)) \/ Db(MetaCall(c, d))

ForwardStep ==
  \/ Fwd(CloseAll)
  \/ \E f \in Forwards :
       \/ Fwd(StartChecks(f)) \/ Fwd(StartDials(f)) \/ Fwd(StartRegisters(f))
       \/ Fwd(StopRemoves(f)) \/ Fwd(StopCloses(f)) \/ Fwd(TunnelCloses(f))
       \/ \E c \in Conns : Fwd(Accept(f, c))
  \/ \E c \in Conns : Fwd(Dialed(c)) \/ Fwd(CopyEnds(c)) \/ Fwd(PipeSeesClosed(c))

TransferStep ==
  \/ Xfer(ClearFinished)
  \/ \E k \in {"pump", "end"} : Xfer(RunTimer(k))
  \/ \E t \in Tasks :
       \/ Xfer(Enqueue(t)) \/ Xfer(CancelTask(t))
       \/ Xfer(DeliverEvent(t)) \/ Xfer(DeliverResult(t))
       \/ Xfer(BindContext(t)) \/ Xfer(TransferFails(t)) \/ Xfer(CopyChunk(t))
       \/ Xfer(FolderFileDone(t)) \/ Xfer(CopySeesCancel(t))
       \/ Xfer(LastRead(t)) \/ Xfer(TransferEnds(t)) \/ Xfer(CancelArrives(t))

FileStep ==
  \/ Files(ConnectHost) \/ Files(ConnectOpens) \/ Files(ConnectFails)
  \/ Files(SoftRefresh)
  \/ Files(OpenPrompt) \/ Files(CancelPrompt) \/ Files(ConfirmPrompt)
  \/ Files(OpenTextEditor) \/ Files(ReloadTextEditor) \/ Files(Type) \/ Files(CloseEditor)
  \/ Files(SaveButton) \/ Files(SaveKey)
  \/ Files(ConnectEnds(Home)) \/ \E d \in Dirs : Files(Navigate(d))
  \/ \E s \in Remotes : Files(SelectTab(s))
  \/ \E c \in Closers :
       \/ Files(CloseEnds(c))
       \/ \E s \in Remotes : Files(CloseRemote(c, s))
       \/ /\ closer[c] = Nil /\ c = CHOOSE d \in Closers : closer[d] = Nil
          /\ \/ Files(CloseAllTabs(c))
             \/ \E s \in Remotes : Files(CloseTab(c, s)) \/ Files(CloseOtherTabs(c, s))
  \/ \E j \in Jobs :
       \/ Files(ListReturns(j)) \/ Files(ListFails(j))
       \/ Files(MutateReturns(j)) \/ Files(MutateFails(j))
       \/ Files(TextReads(j)) \/ Files(TextReturns(j)) \/ Files(TextFails(j))
       \/ Files(SaveWrites(j)) \/ Files(SaveReturns(j)) \/ Files(SaveFails(j))

WorkspaceStep ==
  \/ Ws(StartProgram) \/ Ws(ProgramEnds)
  \/ Ws(HostsListed) \/ Ws(HostsFail) \/ Ws(LoadReads) \/ Ws(LoadFails)
  \/ Ws(RestoreEnds) \/ Ws(RemoveEnds)
  \/ \E i \in Items :
       Ws(RestoreOpens(i)) \/ Ws(RestoreSkips(i)) \/ Ws(AddTab(i)) \/ Ws(RemoveTab(i))
  \/ \E s \in Slots :
       \/ Ws(TimerFires(s)) \/ Ws(SaveOpens(s)) \/ Ws(SaveFills(s)) \/ Ws(WriteFails(s))
       \/ Ws(SaveRenames(s)) \/ Ws(RenameFails(s)) \/ Ws(SaveRemoves(s))

Next ==
  \/ part = "terminals" /\ TerminalStep
  \/ part = "databases" /\ DatabaseStep
  \/ part = "forwards" /\ ForwardStep
  \/ part = "transfers" /\ TransferStep
  \/ part = "files" /\ FileStep
  \/ part = "workspace" /\ WorkspaceStep

\* Timers fire, dials and goroutines that are ready run, messages arrive, and
\* a file comes to its end. Nothing is asked of users, shells or servers.
Fairness ==
  /\ \A r \in Readers : WF_vars(Term(WaitTimesOut(r)))
  /\ \A c \in Conns : WF_vars(Fwd(Dialed(c))) /\ WF_vars(Fwd(PipeSeesClosed(c)))
  /\ \A k \in {"pump", "end"} : WF_vars(Xfer(RunTimer(k)))
  /\ \A t \in Tasks :
       /\ WF_vars(Xfer(DeliverEvent(t))) /\ WF_vars(Xfer(DeliverResult(t)))
       /\ WF_vars(Xfer(BindContext(t))) /\ WF_vars(Xfer(CopySeesCancel(t)))
       /\ WF_vars(Xfer(LastRead(t))) /\ WF_vars(Xfer(TransferEnds(t)))

FairSpec == Init /\ [][Next]_vars /\ Fairness

\* Every variable of the six components has its type.
ConnTypeOK ==
  TermTypeOK /\ DbTypeOK /\ FwdTypeOK /\ XferTypeOK /\ PanesTypeOK /\ WsTypeOK

\* What waits ends: a call that waits for a shell's output, a connection of a
\* tunnel that was closed, a transfer of the queue.
ConnProgress == EveryWaitEnds /\ ConnsEnd /\ TransfersDrain
=============================================================================
