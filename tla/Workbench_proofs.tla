--------------------------- MODULE Workbench_proofs ---------------------------
(* Proofs about four features of the workbench, for every value of their   *)
(* constants: the turns of the Cursor agent (CursorTurns), the rebuild of  *)
(* a container (ContainerUpdate), the table editor (TableEdits) and the    *)
(* saving of a note (NotebookSaves); and about their composition with the  *)
(* features of Views_proofs (MCWorkbench).                                 *)
EXTENDS MCWorkbench, Views_proofs

(* CursorTurns. Turns that work at the same time have met (Acquainted). A  *)
(* turn that met nobody has the slots (SlotsAreOurs); what is in the slots *)
(* is always of a turn that works (SlotsOfWorking). The buffer holds calls *)
(* of the turn that fills it and of turns that met it (BufIsOurs). A call  *)
(* whose tool has run is in the buffer or in a history, once (PushedIsKept, *)
(* BufNotFiled).                                                           *)
Acquainted ==
  \A p, q \in Prompts : Works(p) /\ Works(q) /\ p # q => <<p, q>> \in met

HasCtx(p) == turn[p] \in {"begun", "connected", "sending", "sent", "ending"}

SlotsOfWorking ==
  /\ cursorTurnCtx # NoPrompt => HasCtx(cursorTurnCtx)
  /\ cursorActiveThread # NoThread =>
       \E q \in Prompts : Works(q) /\ threadOf[q] = cursorActiveThread

MetNobody(p) == \A q \in Prompts : <<p, q>> \notin met

SlotsAreOurs ==
  \A p \in Prompts : MetNobody(p) =>
    /\ Works(p) => cursorActiveThread = threadOf[p]
    /\ HasCtx(p) => cursorTurnCtx = p

\* Between the clearing of the buffer and its saving.
Filling(p) == turn[p] \in {"sending", "sent"}

BufIsOurs ==
  \A p \in Prompts : Filling(p) =>
    \A k \in Range(cursorTurnBuf) : asker[k] = p \/ <<asker[k], p>> \in met

PushedIsKept ==
  \A p \in Prompts, k \in Calls : call[k] = "pushed" /\ asker[k] = p =>
    \/ <<p, k>> \in filed
    \/ Filling(p) /\ k \in Range(cursorTurnBuf)
    \/ ~MetNobody(p)

BufNotFiled ==
  /\ cursorTurnBuf \in Seq(Calls)
  /\ \A k \in Range(cursorTurnBuf) : call[k] = "pushed"
       /\ \A p \in Prompts : <<p, k>> \notin filed

FiledWasPushed == \A p \in Prompts, k \in Calls : <<p, k>> \in filed => call[k] = "pushed"

AskersAreTurns == \A k \in Calls : call[k] # "none" => asker[k] \in Prompts

\* The same as CallsAttributed and CallsFiled, without sets of turns.
Attributed ==
  \A k \in Calls : call[k] \in {"bound", "pushed"} =>
    \/ target[k] = <<threadOf[asker[k]], asker[k]>>
    \/ /\ ~MetNobody(asker[k])
       /\ \/ target[k][1] = NoThread
          \/ \E q \in Prompts : /\ q = asker[k] \/ <<asker[k], q>> \in met
                                /\ target[k][1] = threadOf[q]
       /\ \/ target[k][2] \in {NoPrompt, asker[k]}
          \/ target[k][2] \in Prompts /\ <<asker[k], target[k][2]>> \in met

FiledByMet ==
  \A p \in Prompts, k \in Calls :
    <<p, k>> \in filed => asker[k] = p \/ <<asker[k], p>> \in met

CursorInv ==
  /\ CursorTypeOK /\ Attributed /\ FiledByMet /\ FiledOnce
  /\ Acquainted /\ SlotsOfWorking /\ SlotsAreOurs /\ BufIsOurs /\ PushedIsKept
  /\ BufNotFiled /\ FiledWasPushed /\ AskersAreTurns
-----------------------------------------------------------------------------
(* The buffer.                                                             *)
LEMMA EmptyBuffer == Range(<<>>) = {} /\ IsInjective(<<>>) /\ <<>> \in Seq(Calls)
BY DEF Range, IsInjective

LEMMA LongerBuffer ==
  ASSUME NEW s \in Seq(Calls), IsInjective(s), NEW k \in Calls, k \notin Range(s)
  PROVE  /\ Append(s, k) \in Seq(Calls)
         /\ IsInjective(Append(s, k))
         /\ Range(Append(s, k)) = Range(s) \cup {k}
<1>1. /\ Append(s, k) \in Seq(Calls) /\ DOMAIN s = 1..Len(s)
      /\ DOMAIN Append(s, k) = 1..(Len(s) + 1) /\ Len(s) \in Nat
      /\ \A i \in 1..Len(s) : Append(s, k)[i] = s[i]
      /\ Append(s, k)[Len(s) + 1] = k
  OBVIOUS
<1>2. \A i \in 1..(Len(s) + 1) : i \in 1..Len(s) \/ i = Len(s) + 1
  BY <1>1
<1>3. IsInjective(Append(s, k))
  BY <1>1, <1>2 DEF IsInjective, Range
<1>4. Range(Append(s, k)) = Range(s) \cup {k}
  BY <1>1, <1>2 DEF Range
<1>. QED
  BY <1>1, <1>3, <1>4
-----------------------------------------------------------------------------
LEMMA InitCursorInv == CursorInit => CursorInv
<1> SUFFICES ASSUME CursorInit PROVE CursorInv
  OBVIOUS
<1>. USE EmptyBuffer DEF CursorInit
<1>1. CursorTypeOK
  BY DEF CursorTypeOK, TurnSteps
<1>2. Attributed /\ FiledByMet /\ FiledOnce
  BY DEF Attributed, FiledByMet, FiledOnce
<1>3. Acquainted /\ SlotsOfWorking /\ SlotsAreOurs /\ BufIsOurs /\ PushedIsKept
  BY DEF Acquainted, SlotsOfWorking, SlotsAreOurs, BufIsOurs, PushedIsKept, Filling, Works, HasCtx
<1>4. BufNotFiled /\ FiledWasPushed /\ AskersAreTurns
  BY DEF BufNotFiled, FiledWasPushed, AskersAreTurns
<1>. QED
  BY <1>1, <1>2, <1>3, <1>4 DEF CursorInv

\* What a step of a turn that keeps the buffer, the calls and the histories has
\* to show.
LEMMA CallsUntouched ==
  ASSUME CursorInv,
         UNCHANGED <<threadOf, call, asker, target, filed, cursorTurnBuf>>,
         met \subseteq met', CursorTypeOK',
         \A q \in Prompts : Filling(q)' <=> Filling(q)
  PROVE  /\ Attributed' /\ FiledByMet' /\ FiledOnce' /\ BufIsOurs' /\ PushedIsKept'
         /\ BufNotFiled' /\ FiledWasPushed' /\ AskersAreTurns'
<1>. USE DEF CursorInv
<1>1. Attributed'
  BY DEF Attributed, MetNobody, CursorTypeOK
<1>2. FiledByMet' /\ FiledOnce' /\ FiledWasPushed' /\ AskersAreTurns'
  BY DEF FiledByMet, FiledOnce, FiledWasPushed, AskersAreTurns
<1>3. BufIsOurs' /\ BufNotFiled'
  BY DEF BufIsOurs, BufNotFiled
<1>4. PushedIsKept'
  BY DEF PushedIsKept, MetNobody
<1>. QED
  BY <1>1, <1>2, <1>3, <1>4

(* The turn of a prompt goes on: the others stay where they are.           *)
LEMMA TurnMoves ==
  ASSUME CursorTypeOK, NEW p \in Prompts, NEW from, NEW to \in TurnSteps, Moves(p, from, to)
  PROVE  /\ turn' \in [Prompts -> TurnSteps]
         /\ turn[p] = from /\ turn'[p] = to
         /\ \A q \in Prompts : q # p => turn'[q] = turn[q]
BY DEF CursorTypeOK, Moves

LEMMA RegisterInv ==
  ASSUME CursorInv, NEW p \in Prompts, Register(p)
  PROVE  CursorInv'
<1>1. /\ turn' \in [Prompts -> TurnSteps] /\ turn[p] = "unsent" /\ turn'[p] = "registered"
      /\ \A q \in Prompts : q # p => turn'[q] = turn[q]
  BY TurnMoves DEF Register, CursorInv, TurnSteps
<1>2. CursorTypeOK'
  BY <1>1 DEF Register, CursorInv, CursorTypeOK, slotVars, bridgeVars, callVars
<1>3. \A q \in Prompts : (Works(q)' <=> Works(q)) /\ (Filling(q)' <=> Filling(q))
  BY <1>1 DEF Works, Filling
<1>4. Acquainted' /\ SlotsOfWorking' /\ SlotsAreOurs'
  BY <1>1, <1>3
     DEF Register, slotVars, CursorInv, CursorTypeOK, Acquainted, SlotsOfWorking,
         SlotsAreOurs, MetNobody, HasCtx
<1>. QED
  BY <1>2, <1>3, <1>4, CallsUntouched DEF Register, slotVars, callVars, CursorInv

(* A turn becomes active and meets whoever works.                          *)
LEMMA ActivateTurnInv ==
  ASSUME CursorInv, NEW p \in Prompts, ActivateTurn(p)
  PROVE  CursorInv'
<1>1. /\ turn' \in [Prompts -> TurnSteps] /\ turn[p] = "registered" /\ turn'[p] = "active"
      /\ \A q \in Prompts : q # p => turn'[q] = turn[q]
  BY TurnMoves DEF ActivateTurn, CursorInv, TurnSteps
<1>2. /\ met \subseteq met' /\ met' \subseteq Prompts \X Prompts
      /\ \A q \in Prompts : Works(q) => <<p, q>> \in met' /\ <<q, p>> \in met'
  BY DEF ActivateTurn, Working, CursorInv, CursorTypeOK
<1>3. CursorTypeOK'
  BY <1>1, <1>2 DEF ActivateTurn, CursorInv, CursorTypeOK, slotVars, bridgeVars, callVars
<1>4. /\ \A q \in Prompts : Filling(q)' <=> Filling(q)
      /\ \A q \in Prompts : q # p => (Works(q)' <=> Works(q))
      /\ ~Works(p) /\ Works(p)'
  BY <1>1 DEF Works, Filling
<1>5. Acquainted'
  BY <1>2, <1>4 DEF CursorInv, Acquainted
<1>6. SlotsOfWorking'
  <2>1. /\ cursorTurnCtx' = cursorTurnCtx /\ threadOf' = threadOf
        /\ cursorActiveThread' = threadOf[p]
    BY DEF ActivateTurn
  <2>2. cursorTurnCtx' # NoPrompt => HasCtx(cursorTurnCtx)'
    BY <1>1, <2>1 DEF CursorInv, CursorTypeOK, SlotsOfWorking, HasCtx
  <2>. QED
    BY <1>4, <2>1, <2>2 DEF SlotsOfWorking
<1>7. SlotsAreOurs'
  <2> SUFFICES ASSUME NEW q \in Prompts, MetNobody(q)'
               PROVE  /\ Works(q)' => cursorActiveThread' = threadOf'[q]
                      /\ HasCtx(q)' => cursorTurnCtx' = q
    BY DEF SlotsAreOurs
  <2>1. MetNobody(q) /\ (q # p => ~Works(q))
    BY <1>2 DEF MetNobody
  <2>. QED
    BY <1>1, <1>4, <2>1 DEF ActivateTurn, CursorInv, SlotsAreOurs, Works, HasCtx
<1>. QED
  BY <1>2, <1>3, <1>4, <1>5, <1>6, <1>7, CallsUntouched
     DEF ActivateTurn, callVars, CursorInv

(* A working turn writes the slots of the thread and the context. Another  *)
(* that works has met it.                                                  *)
LEMMA SlotStepInv ==
  ASSUME CursorInv, NEW p \in Prompts, SetTurnCtx(p) \/ DropTurnCtx(p) \/ EndTurn(p)
  PROVE  CursorInv'
<1>1. /\ turn' \in [Prompts -> TurnSteps]
      /\ \A q \in Prompts : q # p => turn'[q] = turn[q]
      /\ \/ turn[p] = "active" /\ turn'[p] = "begun" /\ SetTurnCtx(p)
         \/ turn[p] = "ending" /\ turn'[p] = "dropped" /\ DropTurnCtx(p)
         \/ turn[p] = "dropped" /\ turn'[p] = "ended" /\ EndTurn(p)
  BY TurnMoves DEF SetTurnCtx, DropTurnCtx, EndTurn, CursorInv, TurnSteps
<1>2. /\ UNCHANGED <<threadOf, runs, cursorTurnBuf, cut, bridge, endpoint, call, asker,
                     target, filed, met>>
      /\ \/ cursorTurnCtx' = p /\ cursorActiveThread' = cursorActiveThread
         \/ cursorTurnCtx' = NoPrompt /\ cursorActiveThread' = cursorActiveThread
         \/ cursorTurnCtx' = cursorTurnCtx /\ cursorActiveThread' = NoThread
  BY DEF SetTurnCtx, DropTurnCtx, EndTurn, bridgeVars, callVars
<1>3. CursorTypeOK'
  BY <1>1, <1>2 DEF CursorInv, CursorTypeOK
<1>4. /\ \A q \in Prompts : Filling(q)' <=> Filling(q)
      /\ \A q \in Prompts : Works(q)' => Works(q)
      /\ \A q \in Prompts : q # p => (Works(q)' <=> Works(q))
      /\ Works(p)
  BY <1>1 DEF Works, Filling
<1>5. Acquainted'
  BY <1>2, <1>4 DEF CursorInv, Acquainted
<1>6. \A q \in Prompts : MetNobody(q) /\ Works(q) => q = p
  BY <1>4 DEF CursorInv, Acquainted, MetNobody
<1>7. SlotsAreOurs'
  <2> SUFFICES ASSUME NEW q \in Prompts, MetNobody(q)'
               PROVE  /\ Works(q)' => cursorActiveThread' = threadOf'[q]
                      /\ HasCtx(q)' => cursorTurnCtx' = q
    BY DEF SlotsAreOurs
  <2>1. MetNobody(q) /\ (Works(q) => q = p)
    BY <1>2, <1>6 DEF MetNobody
  <2>2. CASE q # p
    BY <1>1, <1>4, <2>1, <2>2 DEF Works, HasCtx, CursorInv, SlotsAreOurs
  <2>3. CASE q = p
    BY <1>1, <1>2, <2>1, <2>3 DEF SetTurnCtx, DropTurnCtx, EndTurn, CursorInv,
       SlotsAreOurs, Works, HasCtx
  <2>. QED
    BY <2>2, <2>3
<1>8. SlotsOfWorking'
  <2>. USE CursorAssumption
       DEF CursorInv, CursorTypeOK, SlotsOfWorking, HasCtx
  <2>1. CASE SetTurnCtx(p)
    <3>1. Works(p)' /\ HasCtx(p)' /\ threadOf' = threadOf /\ cursorTurnCtx' = p
          /\ cursorActiveThread' = cursorActiveThread
      BY <2>1, <1>1, <1>2 DEF Works, HasCtx, SetTurnCtx, Moves
    <3>. QED
      BY <3>1, <1>4
  <2>2. CASE DropTurnCtx(p)
    <3>1. Works(p)' /\ threadOf' = threadOf
      BY <2>2, <1>1, <1>2 DEF Works, DropTurnCtx, Moves
    <3>. QED
      BY <2>2, <3>1, <1>4 DEF DropTurnCtx
  <2>3. CASE EndTurn(p)
    <3>1. turn[p] = "dropped" /\ cursorTurnCtx' = cursorTurnCtx /\ cursorActiveThread' = NoThread
      BY <2>3 DEF EndTurn, Moves
    <3>. QED
      BY <3>1, <1>1
  <2>. QED
    BY <2>1, <2>2, <2>3
<1>. QED
  BY <1>2, <1>3, <1>4, <1>5, <1>7, <1>8, CallsUntouched DEF CursorInv

\* What a step has to show that leaves the thread and the context in their slots.
LEMMA SlotsUntouched ==
  ASSUME CursorInv, UNCHANGED <<threadOf, cursorActiveThread, cursorTurnCtx>>,
         met \subseteq met', CursorTypeOK',
         \A q \in Prompts : (Works(q)' <=> Works(q)) /\ (HasCtx(q)' <=> HasCtx(q))
  PROVE  Acquainted' /\ SlotsOfWorking' /\ SlotsAreOurs'
<1>1. Acquainted'
  BY DEF CursorInv, Acquainted
<1>2. SlotsOfWorking'
  BY DEF CursorInv, CursorTypeOK, SlotsOfWorking
<1>3. SlotsAreOurs'
  BY DEF CursorInv, SlotsAreOurs, MetNobody
<1>. QED
  BY <1>1, <1>2, <1>3

(* The bridge answers or fails, a Send returns, a turn is cut or leaves    *)
(* the registry: only the turn, its cut and the process change.            *)
LEMMA OtherStepInv ==
  ASSUME CursorInv, NEW p \in Prompts,
         EnsureBridge(p) \/ SendReturns(p) \/ Unregister(p) \/ CutTurn(p)
  PROVE  CursorInv'
<1>1. /\ turn' \in [Prompts -> TurnSteps]
      /\ \A q \in Prompts : q # p => turn'[q] = turn[q]
      /\ \/ turn'[p] = turn[p]
         \/ turn[p] = "begun" /\ turn'[p] \in {"connected", "ending"}
         \/ turn[p] = "sending" /\ turn'[p] = "sent"
         \/ turn[p] = "ended" /\ turn'[p] = "gone"
  BY DEF EnsureBridge, SendReturns, Unregister, CutTurn, Moves, CursorInv, CursorTypeOK,
         TurnSteps
<1>2. /\ UNCHANGED <<threadOf, cursorActiveThread, cursorTurnCtx, cursorTurnBuf, call,
                     asker, target, filed, met>>
      /\ cut' \in {cut, cut \cup {p}}
      /\ runs' \in {runs, [runs EXCEPT ![threadOf[p]] = NoPrompt]}
      /\ bridge' \in {bridge, "up"} /\ endpoint' \in {endpoint, TRUE}
  BY DEF EnsureBridge, SendReturns, Unregister, CutTurn, slotVars, callVars, bridgeVars
<1>3. CursorTypeOK'
  BY <1>1, <1>2 DEF CursorInv, CursorTypeOK
<1>4. /\ \A q \in Prompts : Filling(q)' <=> Filling(q)
      /\ \A q \in Prompts : (Works(q)' <=> Works(q)) /\ (HasCtx(q)' <=> HasCtx(q))
  BY <1>1 DEF Works, HasCtx, Filling
<1>. QED
  BY <1>2, <1>3, <1>4, CallsUntouched, SlotsUntouched DEF CursorInv

(* The buffer is empty when Send begins. A turn that lost calls so has met *)
(* the one that begins.                                                    *)
LEMMA AttachAgentInv ==
  ASSUME CursorInv, NEW p \in Prompts, AttachAgent(p)
  PROVE  CursorInv'
<1>1. /\ turn' \in [Prompts -> TurnSteps] /\ turn[p] = "connected"
      /\ \A q \in Prompts : q # p => turn'[q] = turn[q]
      /\ \/ turn'[p] = "sending" /\ cursorTurnBuf' = <<>>
         \/ turn'[p] = "ending" /\ cursorTurnBuf' = cursorTurnBuf
  BY DEF AttachAgent, ClearTurnBuf, Moves, CursorInv, CursorTypeOK, TurnSteps
<1>2. UNCHANGED <<threadOf, runs, cursorActiveThread, cursorTurnCtx, cut, bridge, endpoint,
                  call, asker, target, filed, met>>
  BY DEF AttachAgent, bridgeVars, callVars
<1>3. CursorTypeOK'
  BY <1>1, <1>2, EmptyBuffer DEF CursorInv, CursorTypeOK
<1>4. \A q \in Prompts : (Works(q)' <=> Works(q)) /\ (HasCtx(q)' <=> HasCtx(q))
  BY <1>1 DEF Works, HasCtx
<1>5. Acquainted' /\ SlotsOfWorking' /\ SlotsAreOurs'
  BY <1>2, <1>3, <1>4, SlotsUntouched
<1>6. \A q \in Prompts : q # p => (Filling(q)' <=> Filling(q))
  BY <1>1 DEF Filling
<1>7. Attributed' /\ FiledByMet' /\ FiledOnce' /\ FiledWasPushed' /\ AskersAreTurns'
  BY <1>2 DEF CursorInv, Attributed, MetNobody, FiledByMet, FiledOnce, FiledWasPushed,
              AskersAreTurns
<1>8. BufIsOurs' /\ BufNotFiled'
  BY <1>1, <1>2, <1>6, EmptyBuffer DEF CursorInv, BufIsOurs, BufNotFiled, Filling
<1>9. PushedIsKept'
  <2>1. \A q \in Prompts : Filling(q) => q # p /\ (MetNobody(q) => FALSE)
    BY <1>1 DEF CursorInv, Acquainted, Works, Filling, MetNobody
  <2>. QED
    BY <1>2, <2>1 DEF CursorInv, PushedIsKept, MetNobody
<1>. QED
  BY <1>3, <1>5, <1>7, <1>8, <1>9 DEF CursorInv

(* The calls of the buffer are filed by the turn, and by no other.         *)
LEMMA PersistTurnInv ==
  ASSUME CursorInv, NEW p \in Prompts, PersistTurn(p)
  PROVE  CursorInv'
<1>1. /\ turn' \in [Prompts -> TurnSteps] /\ turn[p] = "sent" /\ turn'[p] = "ending"
      /\ \A q \in Prompts : q # p => turn'[q] = turn[q]
      /\ cursorTurnBuf' = <<>>
  BY DEF PersistTurn, Moves, CursorInv, CursorTypeOK, TurnSteps
<1>2. UNCHANGED <<threadOf, runs, cursorActiveThread, cursorTurnCtx, cut, bridge, endpoint,
                  call, asker, target, met>>
  BY DEF PersistTurn, bridgeVars, callVars
<1>3. /\ filed' \subseteq Prompts \X Calls
      /\ \A q \in Prompts, k \in Calls :
           <<q, k>> \in filed' <=> <<q, k>> \in filed \/ (q = p /\ k \in Range(cursorTurnBuf))
  BY DEF PersistTurn, CursorInv, CursorTypeOK
<1>4. CursorTypeOK'
  BY <1>1, <1>2, <1>3, EmptyBuffer DEF CursorInv, CursorTypeOK
<1>5. \A q \in Prompts : (Works(q)' <=> Works(q)) /\ (HasCtx(q)' <=> HasCtx(q))
  BY <1>1 DEF Works, HasCtx
<1>6. Acquainted' /\ SlotsOfWorking' /\ SlotsAreOurs'
  BY <1>2, <1>4, <1>5, SlotsUntouched
<1>7. Attributed' /\ AskersAreTurns'
  BY <1>2 DEF CursorInv, Attributed, MetNobody, AskersAreTurns
<1>8. FiledByMet'
  BY <1>1, <1>2, <1>3 DEF CursorInv, FiledByMet, BufIsOurs, Filling
<1>9. FiledOnce' /\ FiledWasPushed'
  BY <1>2, <1>3 DEF CursorInv, FiledOnce, BufNotFiled, FiledWasPushed
<1>10. BufIsOurs' /\ BufNotFiled'
  BY <1>1, EmptyBuffer DEF BufIsOurs, BufNotFiled
<1>11. PushedIsKept'
  <2>1. \A q \in Prompts : Filling(q) /\ q # p => ~MetNobody(q)
    BY <1>1 DEF CursorInv, Acquainted, Works, Filling, MetNobody
  <2>. QED
    BY <1>2, <1>3, <2>1 DEF CursorInv, PushedIsKept, MetNobody
<1>. QED
  BY <1>4, <1>6, <1>7, <1>8, <1>9, <1>10, <1>11 DEF CursorInv

(* Steps of a callback. In time, its turn works and has met the others     *)
(* that do; late, it meets them and itself.                                *)
LEMMA BridgeCallsInv ==
  ASSUME CursorInv, NEW p \in Prompts, NEW k \in Calls, BridgeCalls(p, k)
  PROVE  CursorInv'
<1>1. /\ UNCHANGED <<threadOf, turn, runs, cursorActiveThread, cursorTurnCtx, cursorTurnBuf,
                     cut, bridge, endpoint, target, filed, met>>
      /\ call[k] = "none" /\ call' = [call EXCEPT ![k] = "asked"]
      /\ asker' = [asker EXCEPT ![k] = p]
  BY DEF BridgeCalls, slotVars, bridgeVars
<1>2. /\ call'[k] = "asked" /\ asker'[k] = p
      /\ \A j \in Calls : j # k => call'[j] = call[j] /\ asker'[j] = asker[j]
  BY <1>1 DEF CursorInv, CursorTypeOK
<1>3. CursorTypeOK'
  BY <1>1 DEF CursorInv, CursorTypeOK
<1>4. k \notin Range(cursorTurnBuf) /\ \A q \in Prompts : <<q, k>> \notin filed
  BY <1>1 DEF CursorInv, BufNotFiled, FiledWasPushed
<1>5. Acquainted' /\ SlotsOfWorking' /\ SlotsAreOurs'
  BY <1>1, <1>3, SlotsUntouched DEF Works, HasCtx
<1>6. Attributed' /\ FiledByMet' /\ FiledOnce' /\ FiledWasPushed' /\ AskersAreTurns'
  <2>1. Attributed'
    <3>1. \A j \in Calls : call'[j] \in {"bound", "pushed"} =>
            call[j] \in {"bound", "pushed"} /\ asker'[j] = asker[j]
      BY <1>2
    <3>. QED
      BY <1>1, <3>1 DEF CursorInv, Attributed, MetNobody
  <2>2. FiledByMet' /\ FiledOnce' /\ FiledWasPushed' /\ AskersAreTurns'
    BY <1>1, <1>2, <1>4 DEF CursorInv, FiledByMet, FiledOnce, FiledWasPushed, AskersAreTurns
  <2>. QED
    BY <2>1, <2>2
<1>7. BufIsOurs' /\ BufNotFiled' /\ PushedIsKept'
  BY <1>1, <1>2, <1>4 DEF CursorInv, CursorTypeOK, BufIsOurs, BufNotFiled, PushedIsKept,
     Filling, MetNobody
<1>. QED
  BY <1>3, <1>5, <1>6, <1>7 DEF CursorInv

LEMMA LateMeets ==
  ASSUME CursorInv, NEW k \in Calls, call[k] # "none", met' = met \cup Meets(k)
  PROVE  /\ asker[k] \in Prompts
         /\ met \subseteq met' /\ met' \subseteq Prompts \X Prompts
         /\ \A q \in Prompts : Works(q) => q = asker[k] \/ <<asker[k], q>> \in met'
         /\ \/ turn[asker[k]] = "sending"
            \/ <<asker[k], asker[k]>> \in met'
<1>1. asker[k] \in Prompts
  BY DEF CursorInv, AskersAreTurns
<1>2. met \subseteq met' /\ met' \subseteq Prompts \X Prompts
  BY <1>1 DEF Meets, Working, CursorInv, CursorTypeOK
<1>3. CASE turn[asker[k]] = "sending"
  BY <1>1, <1>2, <1>3 DEF CursorInv, Acquainted, Works
<1>4. CASE turn[asker[k]] # "sending"
  BY <1>1, <1>2, <1>4 DEF Meets, Working
<1>. QED
  BY <1>1, <1>2, <1>3, <1>4

LEMMA BindCallInv ==
  ASSUME CursorInv, NEW k \in Calls, BindCall(k)
  PROVE  CursorInv'
<1>1. /\ UNCHANGED <<threadOf, turn, runs, cursorActiveThread, cursorTurnCtx, cursorTurnBuf,
                     cut, bridge, endpoint, asker, filed>>
      /\ call[k] = "asked" /\ call' = [call EXCEPT ![k] = "bound"]
      /\ target' = [target EXCEPT ![k] = <<cursorActiveThread, cursorTurnCtx>>]
      /\ met' = met \cup Meets(k)
  BY DEF BindCall, slotVars, bridgeVars
<1>2. /\ call'[k] = "bound" /\ target'[k] = <<cursorActiveThread, cursorTurnCtx>>
      /\ \A j \in Calls : j # k => call'[j] = call[j] /\ target'[j] = target[j]
  BY <1>1 DEF CursorInv, CursorTypeOK
<1>3. /\ asker[k] \in Prompts
      /\ met \subseteq met' /\ met' \subseteq Prompts \X Prompts
      /\ \A q \in Prompts : Works(q) => q = asker[k] \/ <<asker[k], q>> \in met'
      /\ \/ turn[asker[k]] = "sending"
         \/ <<asker[k], asker[k]>> \in met'
  BY <1>1, LateMeets
<1>4. CursorTypeOK'
  BY <1>1, <1>3 DEF CursorInv, CursorTypeOK
<1>5. Acquainted' /\ SlotsOfWorking' /\ SlotsAreOurs'
  BY <1>1, <1>3, <1>4, SlotsUntouched DEF Works, HasCtx
<1>6. Attributed'
  <2> SUFFICES ASSUME NEW j \in Calls, call'[j] \in {"bound", "pushed"}
      PROVE
        \/ target'[j] = <<threadOf'[asker'[j]], asker'[j]>>
        \/ /\ ~MetNobody(asker[j])'
           /\ \/ target'[j][1] = NoThread
              \/ \E q \in Prompts : /\ q = asker[j] \/ <<asker[j], q>> \in met'
                                    /\ target'[j][1] = threadOf[q]
           /\ \/ target'[j][2] \in {NoPrompt, asker[j]}
              \/ target'[j][2] \in Prompts /\ <<asker[j], target'[j][2]>> \in met'
    BY <1>1 DEF Attributed, MetNobody
  <2>1. CASE j # k
    BY <2>1, <1>1, <1>2, <1>3 DEF CursorInv, Attributed, MetNobody
  <2>2. CASE j = k /\ turn[asker[k]] = "sending" /\ MetNobody(asker[k])
    BY <2>2, <1>1, <1>2, <1>3 DEF CursorInv, SlotsAreOurs, Works, HasCtx
  <2>3. CASE j = k /\ ~MetNobody(asker[k])'
    <3>1. \/ cursorActiveThread = NoThread
          \/ \E q \in Prompts : /\ q = asker[k] \/ <<asker[k], q>> \in met'
                                /\ cursorActiveThread = threadOf[q]
      BY <1>3 DEF CursorInv, SlotsOfWorking
    <3>2. \/ cursorTurnCtx \in {NoPrompt, asker[k]}
          \/ cursorTurnCtx \in Prompts /\ <<asker[k], cursorTurnCtx>> \in met'
      BY <1>3 DEF CursorInv, CursorTypeOK, SlotsOfWorking, Works, HasCtx
    <3>. QED
      BY <2>3, <3>1, <3>2, <1>2
  <2>. QED
    BY <2>1, <2>2, <2>3, <1>1, <1>3 DEF MetNobody
<1>7. FiledByMet' /\ FiledOnce' /\ FiledWasPushed' /\ AskersAreTurns'
  BY <1>1, <1>2, <1>3 DEF CursorInv, FiledByMet, FiledOnce, FiledWasPushed, AskersAreTurns
<1>8. BufIsOurs' /\ BufNotFiled'
  <2>1. BufIsOurs'
    BY <1>1, <1>3 DEF CursorInv, BufIsOurs, Filling
  <2>2. BufNotFiled'
    BY <1>1, <1>2 DEF CursorInv, CursorTypeOK, BufNotFiled
  <2>. QED
    BY <2>1, <2>2
<1>9. PushedIsKept'
  BY <1>1, <1>2, <1>3 DEF CursorInv, PushedIsKept, Filling, MetNobody
<1>. QED
  BY <1>4, <1>5, <1>6, <1>7, <1>8, <1>9 DEF CursorInv

LEMMA PushCallInv ==
  ASSUME CursorInv, NEW k \in Calls, PushCall(k)
  PROVE  CursorInv'
<1>1. /\ UNCHANGED <<threadOf, turn, runs, cursorActiveThread, cursorTurnCtx, cut, bridge,
                     endpoint, asker, target, filed>>
      /\ call[k] = "bound" /\ call' = [call EXCEPT ![k] = "pushed"]
      /\ cursorTurnBuf' = Append(cursorTurnBuf, k)
      /\ met' = met \cup Meets(k)
  BY DEF PushCall, bridgeVars
<1>2. /\ call'[k] = "pushed"
      /\ \A j \in Calls : j # k => call'[j] = call[j]
  BY <1>1 DEF CursorInv, CursorTypeOK
<1>3. /\ asker[k] \in Prompts
      /\ met \subseteq met' /\ met' \subseteq Prompts \X Prompts
      /\ \A q \in Prompts : Works(q) => q = asker[k] \/ <<asker[k], q>> \in met'
      /\ \/ turn[asker[k]] = "sending"
         \/ <<asker[k], asker[k]>> \in met'
  BY <1>1, LateMeets
<1>4. /\ k \notin Range(cursorTurnBuf) /\ \A q \in Prompts : <<q, k>> \notin filed
      /\ cursorTurnBuf' \in Seq(Calls) /\ IsInjective(cursorTurnBuf')
      /\ Range(cursorTurnBuf') = Range(cursorTurnBuf) \cup {k}
  BY <1>1, LongerBuffer DEF CursorInv, CursorTypeOK, BufNotFiled, FiledWasPushed
<1>5. CursorTypeOK'
  BY <1>1, <1>3, <1>4 DEF CursorInv, CursorTypeOK
<1>6. Acquainted' /\ SlotsOfWorking' /\ SlotsAreOurs'
  BY <1>1, <1>3, <1>5, SlotsUntouched DEF Works, HasCtx
<1>7. Attributed'
  <2>1. \A j \in Calls : call'[j] \in {"bound", "pushed"} => call[j] \in {"bound", "pushed"}
    BY <1>1, <1>2
  <2>. QED
    BY <1>1, <1>3, <2>1 DEF CursorInv, Attributed, MetNobody
<1>8. FiledByMet' /\ FiledOnce' /\ FiledWasPushed' /\ AskersAreTurns'
  BY <1>1, <1>2, <1>3 DEF CursorInv, FiledByMet, FiledOnce, FiledWasPushed, AskersAreTurns
<1>9. BufIsOurs' /\ BufNotFiled'
  <2>1. BufIsOurs'
    BY <1>1, <1>3, <1>4 DEF CursorInv, BufIsOurs, Filling, Works
  <2>2. BufNotFiled'
    BY <1>1, <1>2, <1>4 DEF CursorInv, CursorTypeOK, BufNotFiled
  <2>. QED
    BY <2>1, <2>2
<1>10. PushedIsKept'
  BY <1>1, <1>2, <1>3, <1>4 DEF CursorInv, PushedIsKept, Filling, MetNobody
<1>. QED
  BY <1>5, <1>6, <1>7, <1>8, <1>9, <1>10 DEF CursorInv

LEMMA BridgeDiesInv ==
  ASSUME CursorInv, BridgeDies
  PROVE  CursorInv'
<1>1. /\ UNCHANGED <<threadOf, turn, runs, cursorActiveThread, cursorTurnCtx, cursorTurnBuf,
                     endpoint, call, asker, target, filed, met>>
      /\ bridge' = "dead" /\ cut' = cut \cup Connected
  BY DEF BridgeDies, slotVars, callVars
<1>2. CursorTypeOK'
  BY <1>1 DEF CursorInv, CursorTypeOK, Connected
<1>3. \A q \in Prompts :
        (Works(q)' <=> Works(q)) /\ (HasCtx(q)' <=> HasCtx(q)) /\ (Filling(q)' <=> Filling(q))
  BY <1>1 DEF Works, HasCtx, Filling
<1>. QED
  BY <1>1, <1>2, <1>3, CallsUntouched, SlotsUntouched DEF CursorInv

LEMMA NextCursorInv == CursorInv /\ [CursorNext]_cursorVars => CursorInv'
<1> SUFFICES ASSUME CursorInv, [CursorNext]_cursorVars PROVE CursorInv'
  OBVIOUS
<1>1. CASE UNCHANGED cursorVars
  <2>1. CursorTypeOK'
    BY <1>1 DEF cursorVars, CursorInv, CursorTypeOK
  <2>2. \A q \in Prompts :
        (Works(q)' <=> Works(q)) /\ (HasCtx(q)' <=> HasCtx(q)) /\ (Filling(q)' <=> Filling(q))
    BY <1>1 DEF cursorVars, Works, HasCtx, Filling
  <2>. QED
    BY <1>1, <2>1, <2>2, CallsUntouched, SlotsUntouched DEF cursorVars, CursorInv
<1>2. ASSUME NEW p \in Prompts,
             \/ Register(p) \/ ActivateTurn(p) \/ SetTurnCtx(p) \/ EnsureBridge(p)
             \/ AttachAgent(p) \/ SendReturns(p) \/ PersistTurn(p) \/ DropTurnCtx(p)
             \/ EndTurn(p) \/ Unregister(p) \/ CutTurn(p)
      PROVE  CursorInv'
  BY <1>2, RegisterInv, ActivateTurnInv, SlotStepInv, OtherStepInv, AttachAgentInv,
     PersistTurnInv
<1>. QED
  BY <1>1, <1>2, BridgeCallsInv, BindCallInv, PushCallInv, BridgeDiesInv DEF CursorNext

THEOREM CursorInvariance == CursorSpec => []CursorInv
BY InitCursorInv, NextCursorInv, PTL DEF CursorSpec

(* The registry, the slots, the calls and the turns have their types.      *)
THEOREM CursorTypeCorrect == CursorSpec => []CursorTypeOK
BY CursorInvariance, PTL DEF CursorInv

(* Calls go to the turn that asked for them and are filed by it; what goes *)
(* astray goes to turns that were met; no call is filed twice.             *)
THEOREM CursorIsSafe == CursorSpec => []CursorSafe
<1>1. CursorInv => CallsAttributed
  BY DEF CursorInv, CursorTypeOK, Attributed, CallsAttributed, Met, MetNobody
<1>2. CursorInv => CallsFiled
  BY DEF CursorInv, FiledByMet, PushedIsKept, CallsFiled, Met, MetNobody, Filling
<1>. QED
  BY <1>1, <1>2, CursorInvariance, PTL DEF CursorInv, CursorSafe
-----------------------------------------------------------------------------
(* ContainerUpdate. What the update promises is said of its ends. It is    *)
(* inductive together with where the two containers are before each call   *)
(* (Whereabouts), which is known although a call that failed may have      *)
(* worked: such a failure only ever leads to an undo.                      *)

\* The daemon has removed the container when it stopped.
Lost == autoRemove /\ wasRunning

Whereabouts ==
  /\ ~wasRunning => running = {}
  /\ step = "stop" => named = {Old} /\ aside = {} /\ (wasRunning => running = {Old})
  /\ step = "rename" => aside = {} /\ New \notin named /\ (Old \in named \/ Lost)
  /\ step = "create" => named = {} /\ aside = {Old}
  /\ step \in {"start", "removeNew"} => named = {New} /\ aside = {Old} /\ wasRunning
  /\ step = "remove" => named = {New} /\ aside = {Old} /\ (wasRunning => New \in running)
  /\ step = "renameBack" => aside = {Old} /\ (unclean \/ named = {})
  /\ step = "startOld" => /\ wasRunning
                          /\ Old \in Exists \/ Lost
                          /\ unclean \/ Lost \/ (named = {Old} /\ aside = {})

UpdInv == UpdTypeOK /\ UpdateSafe /\ Whereabouts

LEMMA InitUpdInv == UpdInit => UpdInv
BY DEF UpdInit, UpdInv, UpdTypeOK, UpdateSafe, ContainerKept, UpdateIsAllOrNothing,
       Whereabouts, Lost, Exists, Undo

(* Each call of the update keeps the invariant, however it ends.           *)
LEMMA NextUpdInv == UpdInv /\ [UpdNext]_updVars => UpdInv'
<1> SUFFICES ASSUME UpdInv, [UpdNext]_updVars PROVE UpdInv'
  OBVIOUS
<1>. USE ContainersDiffer DEF UpdInv, UpdTypeOK, UpdateSafe, ContainerKept,
         UpdateIsAllOrNothing, Whereabouts, Lost, Exists, Undo, daemonVars
<1>1. CASE StopOld
  BY <1>1 DEF StopOld, Call, Becomes
<1>2. CASE RenameOld
  BY <1>2 DEF RenameOld, Call, AfterUndo
<1>3. CASE CreateNew
  BY <1>3 DEF CreateNew, Call
<1>4. CASE StartNew
  BY <1>4 DEF StartNew, Call, Starts
<1>5. CASE RemoveOld
  BY <1>5 DEF RemoveOld, Call
<1>6. CASE RemoveNew
  BY <1>6 DEF RemoveNew, Call
<1>7. CASE RenameBack
  BY <1>7 DEF RenameBack, Call, AfterUndo
<1>8. CASE StartOld
  BY <1>8 DEF StartOld, Call, Starts
<1>9. CASE ProgramDies
  BY <1>9 DEF ProgramDies, Becomes
<1>10. CASE UNCHANGED updVars
  BY <1>10 DEF updVars
<1>. QED
  BY <1>1, <1>2, <1>3, <1>4, <1>5, <1>6, <1>7, <1>8, <1>9, <1>10 DEF UpdNext

THEOREM UpdInvariance == UpdSpec => []UpdInv
BY InitUpdInv, NextUpdInv, PTL DEF UpdSpec

(* The state of the two containers and of the update has its type.         *)
THEOREM UpdTypeCorrect == UpdSpec => []UpdTypeOK
BY UpdInvariance, PTL DEF UpdInv

(* Wherever a rebuild stops one of the two containers is there, and a       *)
(* rebuild that failed and was undone has changed nothing.                 *)
THEOREM UpdateIsSafe == UpdSpec => []UpdateSafe
BY UpdInvariance, PTL DEF UpdInv
-----------------------------------------------------------------------------
(* TableEdits. The page that loads is the chosen one (LoadIsChosen); what  *)
(* the latest load has read is the table, unless a commit was applied that *)
(* has not returned, and will load again (ReadIsFresh); and the commits of *)
(* an added row are known as long as the editor shows it (AddedIsSent).    *)
CommitOf(r, v) == r \in InFlight("commit") /\ request[r].batch.insert = v
Applied == {r \in InFlight("commit") : request[r].phase = "applied"}
Loading == loadSeq \in InFlight("load")

TableData ==
  /\ table \in [Pages -> Values \cup {Gone}] /\ inserted \in [Values -> Nat]
  /\ pageNum \in Pages /\ page \in Pages \cup {None}
  /\ row \in [state : {"clean", "modified", "deleted"}, value : Values \cup {Gone}]
  /\ added \in Values \cup {None} /\ edits \in Values /\ doubled \subseteq Values
  /\ loadSeq \in Requests
  /\ request \in [Requests -> {None} \cup Loads \cup Commits]
  /\ strayed \in BOOLEAN

LoadIsChosen ==
  /\ Loading => page = None /\ (~strayed => request[loadSeq].page = pageNum)
  /\ page # None /\ ~strayed => page = pageNum

ReadIsFresh ==
  Applied = {} =>
    /\ page # None /\ row.state = "clean" => row.value = table[page]
    /\ Loading /\ request[loadSeq].phase = "read"
         => request[loadSeq].value = table[request[loadSeq].page]

AddedIsSent ==
  /\ added # None => added <= edits
  /\ \A v \in Values :
       /\ v > edits => inserted[v] = 0 /\ \A r \in Requests : ~CommitOf(r, v)
       /\ v \notin doubled =>
            /\ inserted[v] <= 1
            /\ \A r, s \in Requests : CommitOf(r, v) /\ CommitOf(s, v) => r = s
            /\ \A r \in Requests : CommitOf(r, v) /\ r \notin Applied => inserted[v] = 0
            /\ added = v /\ inserted[v] # 0 => \E r \in Requests : CommitOf(r, v)

TableInv == TableData /\ LoadIsChosen /\ ReadIsFresh /\ AddedIsSent

LEMMA InitTableInv == TableInit => TableInv
<1> SUFFICES ASSUME TableInit PROVE TableInv
  OBVIOUS
<1>. USE TableAssumption DEF TableInit, Load, EmptyRow, InFlight
<1>1. TableData
  <2>1. [kind |-> "load", page |-> 1, phase |-> "sent"] \in Loads
    BY DEF Loads
  <2>2. 0 \in Values /\ 0 \in Nat
    BY DEF Values
  <2>. QED
    BY <2>1, <2>2 DEF TableData
<1>2. LoadIsChosen /\ ReadIsFresh
  BY DEF LoadIsChosen, ReadIsFresh, Loading, Applied
<1>3. \A r \in Requests, v \in Values : ~CommitOf(r, v)
  BY DEF CommitOf
<1>4. AddedIsSent
  BY <1>3 DEF AddedIsSent, Values
<1>. QED
  BY <1>1, <1>2, <1>4 DEF TableInv

(* The kinds of the calls in flight.                                       *)
LEMMA RequestKinds ==
  ASSUME TableData, NEW r \in Requests
  PROVE  /\ r \in InFlight("load") <=> request[r] \in Loads
         /\ r \in InFlight("commit") <=> request[r] \in Commits
         /\ request[r] = None \/ request[r] \in Loads \/ request[r] \in Commits
         /\ ~(request[r] \in Loads /\ request[r] \in Commits)
         /\ None \notin Loads \cup Commits
<1>1. request[r] \in {None} \cup Loads \cup Commits
  BY DEF TableData
<1>2. \A x \in Loads : x.kind = "load"
  BY DEF Loads
<1>3. \A x \in Commits : x.kind = "commit"
  BY DEF Commits
<1>. QED
  BY <1>1, <1>2, <1>3, NoneIsNoCall DEF InFlight

(* A slot gets or loses a call; the others keep theirs.                    *)
LEMMA SlotMoves ==
  ASSUME TableData, NEW r \in Requests, NEW x \in {None} \cup Loads \cup Commits,
         request' = [request EXCEPT ![r] = x]
  PROVE  /\ request'[r] = x /\ request' \in [Requests -> {None} \cup Loads \cup Commits]
         /\ r \in InFlight("load")' <=> x \in Loads
         /\ r \in InFlight("commit")' <=> x \in Commits
         /\ r \in Applied' <=> x \in Commits /\ x.phase = "applied"
         /\ \A v : CommitOf(r, v)' <=> x \in Commits /\ x.batch.insert = v
         /\ \A q \in Requests \ {r} :
              /\ request'[q] = request[q]
              /\ q \in InFlight("load")' <=> q \in InFlight("load")
              /\ q \in InFlight("commit")' <=> q \in InFlight("commit")
              /\ q \in Applied' <=> q \in Applied
              /\ \A v : CommitOf(q, v)' <=> CommitOf(q, v)
<1>1. /\ request'[r] = x /\ \A q \in Requests \ {r} : request'[q] = request[q]
      /\ request' \in [Requests -> {None} \cup Loads \cup Commits]
  BY DEF TableData
<1>2. \A y \in Loads : y.kind = "load" /\ y # None
  BY NoneIsNoCall DEF Loads
<1>3. \A y \in Commits : y.kind = "commit" /\ y # None
  BY NoneIsNoCall DEF Commits
<1>. QED
  BY <1>1, <1>2, <1>3 DEF InFlight, Applied, CommitOf

(* A new load of the chosen page, or of the page of a commit that returns. *)
LEMMA StartLoadInv ==
  ASSUME TableInv, NEW r \in Requests, NEW p \in Pages, StartLoad(r, p), pageNum' \in Pages,
         request[r] = None \/ r \in Applied
  PROVE  TableInv'
<1>1. /\ request' = [request EXCEPT ![r] = Load(p)] /\ loadSeq' = r
      /\ page' = None /\ row' = EmptyRow /\ added' = None /\ strayed' = (p # pageNum')
      /\ table' = table /\ inserted' = inserted /\ edits' = edits /\ doubled' = doubled
  BY DEF StartLoad, serverVars
<1>2. Load(p) \in Loads /\ Load(p) \notin Commits /\ Load(p).page = p
        /\ Load(p).phase = "sent"
  BY DEF Load, Loads, Commits
<1>3. TableData
  BY DEF TableInv
<1>4. TableData'
  BY <1>1, <1>2, <1>3, SlotMoves DEF TableData, EmptyRow
<1>5. LoadIsChosen'
  BY <1>1, <1>2, <1>3, SlotMoves DEF LoadIsChosen, Loading
<1>6. ReadIsFresh'
  BY <1>1, <1>2, <1>3, SlotMoves DEF ReadIsFresh, Loading
<1>7. \A q \in Requests, v \in Values : CommitOf(q, v)' => q # r /\ CommitOf(q, v)
  BY <1>1, <1>2, <1>3, SlotMoves
<1>8. \A q \in Requests \ {r} : q \in Applied' <=> q \in Applied
  BY <1>1, <1>2, <1>3, SlotMoves
<1>9. None \notin Values
  BY TableAssumption DEF Values
<1>10. AddedIsSent'
  BY <1>1, <1>7, <1>8, <1>9 DEF TableInv, AddedIsSent
<1>. QED
  BY <1>4, <1>5, <1>6, <1>10 DEF TableInv

(* The user's edits. A new value is one that no commit has sent.           *)
LEMMA EditsInv ==
  ASSUME TableInv, UpdateCell \/ AddRow \/ DeleteRow \/ DropAdded
  PROVE  TableInv'
<1>1. /\ page # None
           /\ UNCHANGED <<serverVars, pageNum, page, loadSeq, request, doubled, strayed>>
      /\ \/ row' = row
         \/ row'.state # "clean"
              /\ row' \in [state : {"modified", "deleted"}, value : Values \cup {Gone}]
      /\ \/ edits' = edits /\ (added' = added \/ added' = None)
         \/ edits' = edits + 1 /\ edits' \in Values /\ (added' = added \/ added' = edits')
  <2>1. edits \in Values
          /\ row \in [state : {"clean", "modified", "deleted"}, value : Values \cup {Gone}]
    BY DEF TableInv, TableData
  <2>2. edits < MaxEdits => edits + 1 \in Values
    BY <2>1, TableAssumption DEF Values
  <2>3. CASE UpdateCell
    BY <2>1, <2>2, <2>3 DEF UpdateCell, EditsTo
  <2>4. CASE AddRow
    BY <2>1, <2>2, <2>4 DEF AddRow, EditsTo
  <2>5. CASE DeleteRow
    BY <2>1, <2>5 DEF DeleteRow, EditsTo
  <2>6. CASE DropAdded
    BY <2>6 DEF DropAdded, EditsTo
  <2>. QED
    BY <2>3, <2>4, <2>5, <2>6
<1>2. TableData'
  BY <1>1 DEF TableInv, TableData, serverVars
<1>3. LoadIsChosen'
  BY <1>1 DEF TableInv, LoadIsChosen, Loading, InFlight
<1>4. ReadIsFresh'
  BY <1>1 DEF TableInv, ReadIsFresh, Applied, Loading, InFlight, serverVars
<1>5. AddedIsSent'
  <2>1. \A q \in Requests : /\ q \in Applied' <=> q \in Applied
                            /\ \A v : CommitOf(q, v)' <=> CommitOf(q, v)
    BY <1>1 DEF Applied, CommitOf, InFlight
  <2>2. edits \in Nat /\ edits' \in Nat /\ edits' \in Values /\ \A v \in Values : v \in Nat
          /\ v # None
    BY <1>2, TableAssumption DEF TableInv, TableData, Values
  <2>3. inserted' = inserted /\ doubled' = doubled
    BY <1>1 DEF serverVars
  <2>4. added # None => added <= edits /\ added \in Nat
    BY <2>2 DEF TableInv, AddedIsSent, TableData
  <2>5. added' # None => added' <= edits'
    BY <1>1, <2>2, <2>4
  <2>6. ASSUME NEW v \in Values
        PROVE  /\ v > edits' => v > edits
               /\ added' = v /\ inserted[v] # 0 => added = v
    BY <1>1, <2>2 DEF TableInv, AddedIsSent
  <2>. QED
    BY <2>1, <2>3, <2>5, <2>6 DEF TableInv, AddedIsSent
<1>. QED
  BY <1>2, <1>3, <1>4, <1>5 DEF TableInv

LEMMA LoadReadsInv ==
  ASSUME TableInv, NEW r \in Requests, LoadReads(r)
  PROVE  TableInv'
<1>1. PICK x : x = [kind |-> "load", page |-> request[r].page, phase |-> "read",
                    value |-> table[request[r].page]]
  OBVIOUS
<1>2. /\ r \in InFlight("load") /\ request' = [request EXCEPT ![r] = x]
      /\ UNCHANGED <<serverVars, pageNum, page, row, added, loadSeq, edits, doubled, strayed>>
  BY <1>1 DEF LoadReads
<1>3. TableData /\ request[r] \in Loads
  BY <1>2, RequestKinds DEF TableInv
<1>4. x \in Loads /\ x \notin Commits /\ request[r] \notin Commits
  BY <1>1, <1>3 DEF TableData, Loads, Commits
<1>5. TableData'
  BY <1>2, <1>3, <1>4, SlotMoves DEF TableData, serverVars
<1>6. Applied' = Applied /\ \A q \in Requests, v \in Values : CommitOf(q, v)'
        <=> CommitOf(q, v)
  <2>1. r \notin InFlight("commit")
    BY <1>3, <1>4, RequestKinds
  <2>2. \A q \in Requests : q \in Applied' <=> q \in Applied
    BY <1>2, <1>3, <1>4, <2>1, SlotMoves DEF Applied
  <2>. QED
    BY <1>2, <1>3, <1>4, <2>1, <2>2, SlotMoves, ZenonT(60) DEF Applied, CommitOf, InFlight
<1>7. Loading' <=> Loading
  BY <1>2, <1>3, <1>4, SlotMoves DEF Loading, TableData
<1>8. loadSeq # r => request'[loadSeq] = request[loadSeq]
  BY <1>2, <1>3, <1>4, SlotMoves DEF TableData
<1>9. request'[r] = x /\ x.page = request[r].page /\ x.value = table[x.page]
        /\ x.phase = "read"
  <2>1. request'[r] = x
    BY <1>2, <1>3, <1>4, SlotMoves
  <2>. QED
    BY <1>1, <2>1
<1>10. LoadIsChosen'
  BY <1>2, <1>7, <1>8, <1>9 DEF TableInv, LoadIsChosen
<1>11. ReadIsFresh'
  BY <1>2, <1>6, <1>7, <1>8, <1>9 DEF TableInv, ReadIsFresh, serverVars
<1>12. AddedIsSent'
  BY <1>2, <1>6 DEF TableInv, AddedIsSent, serverVars
<1>. QED
  BY <1>5, <1>10, <1>11, <1>12 DEF TableInv

(* The answer of a load: the latest is taken, and a failure by nobody.     *)
LEMMA LoadEndsInv ==
  ASSUME TableInv, NEW r \in Requests, LoadReturns(r) \/ LoadFails(r)
  PROVE  TableInv'
<1>1. /\ r \in InFlight("load") /\ request' = [request EXCEPT ![r] = None]
      /\ UNCHANGED <<serverVars, pageNum, loadSeq, edits, doubled, strayed>>
      /\ \/ UNCHANGED <<page, row, added>>
         \/ /\ r = loadSeq /\ request[r].phase = "read" /\ page' = request[r].page
                 /\ added' = None
            /\ row' = [state |-> "clean", value |-> request[r].value]
  BY DEF LoadReturns, LoadFails, IsLatest
<1>2. TableData /\ request[r] \in Loads /\ request[r] \notin Commits
  BY <1>1, RequestKinds DEF TableInv
<1>3. request[r].page \in Pages
        /\ (request[r].phase = "read" => request[r].value \in Values \cup {Gone})
  BY <1>2 DEF Loads
<1>4. TableData'
  BY <1>1, <1>2, <1>3, SlotMoves DEF TableData, serverVars
<1>5. Applied' = Applied /\ \A q \in Requests, v \in Values : CommitOf(q, v)'
        <=> CommitOf(q, v)
  <2>1. r \notin InFlight("commit")
    BY <1>2, RequestKinds
  <2>2. \A q \in Requests : q \in Applied' <=> q \in Applied
    BY <1>1, <1>2, <2>1, NoneIsNoCall, SlotMoves DEF Applied
  <2>. QED
    BY <1>1, <1>2, <2>1, <2>2, NoneIsNoCall, SlotMoves DEF Applied, CommitOf, InFlight
<1>6. Loading' => Loading /\ r # loadSeq
  BY <1>1, <1>2, NoneIsNoCall, SlotMoves DEF Loading, TableData
<1>7. loadSeq # r => request'[loadSeq] = request[loadSeq]
  BY <1>1, <1>2, SlotMoves DEF TableData
<1>8. r = loadSeq => Loading
  BY <1>1 DEF Loading
<1>9. LoadIsChosen'
  BY <1>1, <1>6, <1>7, <1>8 DEF TableInv, LoadIsChosen
<1>10. ReadIsFresh'
  BY <1>1, <1>5, <1>6, <1>7, <1>8 DEF TableInv, ReadIsFresh, serverVars
<1>11. AddedIsSent'
  BY <1>1, <1>5, TableAssumption DEF TableInv, AddedIsSent, serverVars, Values
<1>. QED
  BY <1>4, <1>9, <1>10, <1>11 DEF TableInv

(* The batch is sent. A row that an unreturned commit has in its batch     *)
(* is doubled now.                                                         *)
LEMMA CommitInv ==
  ASSUME TableInv, NEW r \in Requests, Commit(r)
  PROVE  TableInv'
<1>1. PICK x : x = [kind |-> "commit", page |-> pageNum, phase |-> "sent",
                    batch |-> [state |-> row.state, value |-> row.value,
                               insert |-> added, rowPage |-> page]]
  OBVIOUS
<1>2. /\ request[r] = None /\ page # None /\ request' = [request EXCEPT ![r] = x]
      /\ doubled' = IF \E s \in InFlight("commit") : request[s].batch.insert = added
                      THEN doubled \cup ({added} \ {None}) ELSE doubled
      /\ UNCHANGED <<serverVars, pageNum, page, row, added, loadSeq, edits, strayed>>
  BY <1>1 DEF Commit
<1>3. TableData
  BY DEF TableInv
<1>4. x \in Commits /\ x \notin Loads /\ x.phase = "sent" /\ x.batch.insert = added
  BY <1>1, <1>2, <1>3 DEF TableData, Loads, Commits, Batches
<1>5. r \notin InFlight("load") /\ r \notin InFlight("commit") /\ r \notin Applied
  BY <1>2 DEF InFlight, Applied
<1>6. \A v : ~CommitOf(r, v)
  BY <1>5 DEF CommitOf
<1>7. TableData'
  <2>1. doubled' \subseteq Values
    BY <1>2, <1>3 DEF TableData
  <2>. QED
    BY <1>2, <1>3, <1>4, <2>1, SlotMoves DEF TableData, serverVars
<1>8. Applied' = Applied
  <2>1. \A q \in Requests : q \in Applied' <=> q \in Applied
    BY <1>2, <1>3, <1>4, <1>5, SlotMoves
  <2>. QED
    BY <2>1 DEF Applied, InFlight
<1>9. (Loading' <=> Loading) /\ (Loading => request'[loadSeq] = request[loadSeq])
  <2>1. /\ r \notin InFlight("load")'
        /\ \A q \in Requests \ {r} : /\ q \in InFlight("load")' <=> q \in InFlight("load")
                                     /\ request'[q] = request[q]
    BY <1>2, <1>3, <1>4, SlotMoves
  <2>. QED
    BY <1>2, <1>3, <1>4, <1>5, <2>1 DEF Loading, TableData
<1>10. LoadIsChosen'
  BY <1>2, <1>9 DEF TableInv, LoadIsChosen
<1>11. ReadIsFresh'
  BY <1>2, <1>8, <1>9 DEF TableInv, ReadIsFresh, serverVars
<1>12. AddedIsSent'
  <2>1. \A v : CommitOf(r, v)' <=> added = v
    <3>1. \A v : CommitOf(r, v)' <=> x \in Commits /\ x.batch.insert = v
      BY <1>2, <1>3, <1>4, SlotMoves
    <3>. QED
      BY <1>4, <3>1
  <2>2. \A q \in Requests \ {r}, v \in Values : CommitOf(q, v)' <=> CommitOf(q, v)
    BY <1>2, <1>3, <1>4, SlotMoves
  <2>3. ASSUME NEW v \in Values, v \notin doubled', added = v
        PROVE  \A q \in Requests : ~CommitOf(q, v)
    BY <1>2, <2>3, TableAssumption DEF CommitOf, Values
  <2>4. /\ added' = added /\ edits' = edits /\ inserted' = inserted
        /\ \A v : v \notin doubled' => v \notin doubled
    BY <1>2 DEF serverVars
  <2>5. added # None => added <= edits
    BY DEF TableInv, AddedIsSent
  <2>6. ASSUME NEW v \in Values
        PROVE  v > edits => inserted[v] = 0 /\ \A q \in Requests : ~CommitOf(q, v)'
    <3>1. v \in Nat /\ edits \in Nat /\ v # None
      BY <1>3, TableAssumption DEF TableData, Values
    <3>2. v > edits => added # v
      BY <2>5, <3>1
    <3>. QED
      BY <2>1, <2>2, <3>2 DEF TableInv, AddedIsSent
  <2>7. ASSUME NEW v \in Values, v \notin doubled'
        PROVE  /\ inserted[v] <= 1
               /\ \A q, s \in Requests : CommitOf(q, v)' /\ CommitOf(s, v)' => q = s
               /\ \A q \in Requests : CommitOf(q, v)' /\ q \notin Applied'
                    => inserted[v] = 0
               /\ added = v /\ inserted[v] # 0 => \E q \in Requests : CommitOf(q, v)'
    BY <1>8, <2>1, <2>2, <2>3, <2>4, <2>7 DEF TableInv, AddedIsSent
  <2>. QED
    BY <2>4, <2>5, <2>6, <2>7 DEF AddedIsSent
<1>. QED
  BY <1>7, <1>10, <1>11, <1>12 DEF TableInv

(* The transaction: all of the batch, or an error and nothing of it.       *)
LEMMA ApplyInv ==
  ASSUME TableInv, NEW r \in Requests, ApplyMutations(r)
  PROVE  TableInv'
<1>1. PICK b : b = request[r].batch
  OBVIOUS
<1>2. PICK ph \in {"applied", "refused"} :
        /\ request' = [request EXCEPT ![r].phase = ph]
        /\ ph = "refused" => table' = table /\ inserted' = inserted
        /\ ph = "applied" =>
             /\ table' = [table EXCEPT ![b.rowPage] = table'[b.rowPage]]
             /\ table'[b.rowPage] \in Values \cup {Gone}
             /\ inserted' = [v \in Values |-> inserted[v] + IF v = b.insert THEN 1 ELSE 0]
  <2>1. TableData /\ request[r] \in Commits
    BY RequestKinds DEF TableInv, ApplyMutations
  <2>2. b \in Batches /\ b.rowPage \in Pages
    BY <1>1, <2>1 DEF Commits, Batches
  <2>3. b.state = "modified" /\ table[b.rowPage] # Gone => b.value \in Values \cup {Gone}
    BY <2>2 DEF Batches
  <2>. QED
    BY <1>1, <2>1, <2>2, <2>3 DEF ApplyMutations, TableData, serverVars
<1>3. /\ r \in InFlight("commit") /\ request[r].phase = "sent"
      /\ UNCHANGED <<pageNum, page, row, added, loadSeq, edits, doubled, strayed>>
  BY DEF ApplyMutations
<1>4. TableData /\ request[r] \in Commits
  BY <1>3, RequestKinds DEF TableInv
<1>5. PICK x : x = [request[r] EXCEPT !.phase = ph]
  OBVIOUS
<1>6. /\ x \in Commits /\ x \notin Loads /\ x.phase = ph /\ x.batch = b
      /\ request' = [request EXCEPT ![r] = x] /\ r \notin InFlight("load")
           /\ r \notin Applied
  <2>1. x \in Commits /\ x.phase = ph /\ x.batch = b
    BY <1>1, <1>4, <1>5 DEF Commits
  <2>2. \A y \in Commits : y \notin Loads
    BY DEF Commits, Loads
  <2>3. request' = [request EXCEPT ![r] = x]
    BY <1>2, <1>5
  <2>4. r \notin InFlight("load") /\ r \notin Applied
    BY <1>3, <1>4, RequestKinds DEF Applied
  <2>. QED
    BY <2>1, <2>2, <2>3, <2>4
<1>7. inserted' \in [Values -> Nat] /\ table' \in [Pages -> Values \cup {Gone}]
  BY <1>2, <1>4 DEF TableData
<1>8. TableData'
  BY <1>3, <1>4, <1>6, <1>7, SlotMoves DEF TableData
<1>9. (Loading' <=> Loading) /\ (Loading => request'[loadSeq] = request[loadSeq])
  <2>1. /\ r \notin InFlight("load")'
        /\ \A q \in Requests \ {r} : /\ q \in InFlight("load")' <=> q \in InFlight("load")
                                     /\ request'[q] = request[q]
    BY <1>3, <1>4, <1>6, SlotMoves
  <2>. QED
    BY <1>3, <1>4, <1>6, <2>1 DEF Loading, TableData
<1>10. LoadIsChosen'
  BY <1>3, <1>9 DEF TableInv, LoadIsChosen
<1>11. /\ r \in Applied' <=> ph = "applied"
       /\ \A q \in Requests \ {r} : q \in Applied' <=> q \in Applied
  BY <1>4, <1>6, SlotMoves
<1>12. ReadIsFresh'
  <2>1. CASE ph = "applied"
    BY <1>11, <2>1 DEF ReadIsFresh
  <2>2. CASE ph = "refused"
    <3>1. Applied' = {} => Applied = {}
      BY <1>6, <1>11 DEF Applied, InFlight
    <3>. QED
      BY <1>2, <1>3, <1>9, <2>2, <3>1 DEF TableInv, ReadIsFresh
  <2>. QED
    BY <2>1, <2>2
<1>13. \A q \in Requests, v \in Values : CommitOf(q, v)' <=> CommitOf(q, v)
  <2>1. \A v : CommitOf(r, v)' <=> x \in Commits /\ x.batch.insert = v
    BY <1>4, <1>6, SlotMoves
  <2>2. \A v : CommitOf(r, v) <=> b.insert = v
    BY <1>1, <1>3 DEF CommitOf
  <2>3. \A q \in Requests \ {r}, v \in Values : CommitOf(q, v)' <=> CommitOf(q, v)
    BY <1>4, <1>6, SlotMoves
  <2>. QED
    BY <1>6, <2>1, <2>2, <2>3
<1>14. \A v \in Values : inserted'[v] = inserted[v]
         \/ (inserted'[v] = inserted[v] + 1 /\ CommitOf(r, v))
  BY <1>1, <1>2, <1>3, <1>4 DEF CommitOf, TableData
<1>15. AddedIsSent'
  <2>1. \A v \in Values : v > edits => inserted'[v] = 0
    BY <1>14 DEF TableInv, AddedIsSent
  <2>2. ASSUME NEW v \in Values, v \notin doubled
        PROVE  /\ inserted'[v] <= 1
               /\ \A q \in Requests : CommitOf(q, v)' /\ q \notin Applied'
                    => inserted'[v] = 0
               /\ added = v /\ inserted'[v] # 0 => \E q \in Requests : CommitOf(q, v)'
    <3>1. /\ inserted[v] <= 1 /\ inserted[v] \in Nat
          /\ \A q, s \in Requests : CommitOf(q, v) /\ CommitOf(s, v) => q = s
          /\ \A q \in Requests : CommitOf(q, v) /\ q \notin Applied => inserted[v] = 0
          /\ added = v /\ inserted[v] # 0 => \E q \in Requests : CommitOf(q, v)
      BY <1>4, <2>2 DEF TableInv, TableData, AddedIsSent
    <3>2. CASE CommitOf(r, v)
      <4>1. inserted[v] = 0
        BY <1>6, <3>1, <3>2
      <4>2. ph = "refused" => inserted'[v] = 0
        BY <1>2, <4>1
      <4>. QED
        BY <1>11, <1>13, <1>14, <3>1, <3>2, <4>1, <4>2
    <3>3. CASE ~CommitOf(r, v)
      BY <1>11, <1>13, <1>14, <3>1, <3>3
    <3>. QED
      BY <3>2, <3>3
  <2>. QED
    BY <1>3, <1>13, <2>1, <2>2 DEF TableInv, AddedIsSent
<1>. QED
  BY <1>8, <1>10, <1>12, <1>15 DEF TableInv

(* A refused commit leaves the edits in the editor.                        *)
LEMMA RefusedInv ==
  ASSUME TableInv, NEW r \in Requests, CommitRefused(r)
  PROVE  TableInv'
<1>1. /\ r \in InFlight("commit") /\ request[r].phase = "refused"
      /\ request' = [request EXCEPT ![r] = None]
      /\ UNCHANGED <<serverVars, pageNum, page, row, added, loadSeq, edits, doubled, strayed>>
  BY DEF CommitRefused
<1>2. TableData /\ request[r] \in Commits /\ r \notin InFlight("load") /\ r \notin Applied
  BY <1>1, RequestKinds DEF TableInv, Applied
<1>3. TableData'
  BY <1>1, <1>2, SlotMoves DEF TableData, serverVars
<1>4. (Loading' <=> Loading) /\ (Loading => request'[loadSeq] = request[loadSeq])
  BY <1>1, <1>2, NoneIsNoCall, SlotMoves DEF Loading, TableData
<1>5. \A q \in Requests : q \in Applied' <=> q \in Applied
  BY <1>1, <1>2, NoneIsNoCall, SlotMoves
<1>6. LoadIsChosen'
  BY <1>1, <1>4 DEF TableInv, LoadIsChosen
<1>7. ReadIsFresh'
  <2>1. Applied' = {} => Applied = {}
    BY <1>5 DEF Applied, InFlight
  <2>. QED
    BY <1>1, <1>4, <2>1 DEF TableInv, ReadIsFresh, serverVars
<1>8. \A q \in Requests, v \in Values : CommitOf(q, v)' <=> q # r /\ CommitOf(q, v)
  BY <1>1, <1>2, NoneIsNoCall, SlotMoves
<1>9. AddedIsSent'
  <2>1. inserted' = inserted /\ edits' = edits /\ added' = added /\ doubled' = doubled
    BY <1>1 DEF serverVars
  <2>. QED
    BY <1>2, <1>5, <1>8, <2>1 DEF TableInv, AddedIsSent
<1>. QED
  BY <1>3, <1>6, <1>7, <1>9 DEF TableInv

LEMMA NextTableInv == TableInv /\ [TableNext]_tableVars => TableInv'
<1> SUFFICES ASSUME TableInv, [TableNext]_tableVars PROVE TableInv'
  OBVIOUS
<1>1. ASSUME NEW r \in Requests, NEW p \in Pages, ChoosePage(r, p) PROVE TableInv'
  BY <1>1, StartLoadInv DEF ChoosePage
<1>2. ASSUME NEW r \in Requests, CommitReturns(r) PROVE TableInv'
  <2>1. /\ r \in InFlight("commit") /\ request[r].phase = "applied" /\ pageNum' = pageNum
        /\ StartLoad(r, request[r].page) /\ TableData
    BY <1>2 DEF CommitReturns, TableInv
  <2>2. request[r].page \in Pages /\ r \in Applied /\ pageNum' \in Pages
    BY <2>1, RequestKinds DEF Commits, Applied, TableData
  <2>. QED
    BY <2>1, <2>2, StartLoadInv
<1>3. CASE UNCHANGED tableVars
  BY <1>3 DEF tableVars, TableInv, TableData, LoadIsChosen, Loading, ReadIsFresh, Applied,
       AddedIsSent, CommitOf, InFlight
<1>. QED
  BY <1>1, <1>2, <1>3, EditsInv, LoadReadsInv, LoadEndsInv, CommitInv, ApplyInv, RefusedInv
     DEF TableNext

(* The editor shows the page that was chosen, an unedited row is what the  *)
(* table has once nothing is in flight, and an added row is inserted once; *)
(* each but for the user's commit of another page or of the same row.      *)
THEOREM TableIsSafe == TableSpec => []TableSafe
<1>1. ASSUME TableInv PROVE TableSafe
  <2>1. (\A r \in Requests : request[r] = None) => Applied = {}
    BY DEF Applied, InFlight
  <2>. QED
    BY <1>1, <2>1 DEF TableInv, LoadIsChosen, ReadIsFresh, AddedIsSent, TableSafe,
         ShowsChosenPage, CleanIsFresh, InsertedOnce
<1>. QED
  BY <1>1, InitTableInv, NextTableInv, PTL DEF TableSpec

(* The copies of a row: as long as the editor shows it they are the        *)
(* commits of it that were applied and have not returned, and no commit of *)
(* it is sent afterwards. So there are never more than calls in flight.    *)
Sent(v) == {r \in Requests : CommitOf(r, v) /\ r \notin Applied}
Done(v) == {r \in Requests : CommitOf(r, v) /\ r \in Applied}

CopiesOK(v) ==
  /\ added = v => inserted[v] = Cardinality(Done(v))
  /\ inserted[v] + Cardinality(Sent(v)) <= Cardinality(Requests)

CopiesInv == TableInv /\ \A v \in Values : CopiesOK(v)

LEMMA Counts ==
  ASSUME NEW A \in SUBSET Requests, NEW B \in SUBSET Requests, A \cap B = {}
  PROVE  /\ Cardinality(A) \in Nat /\ Cardinality(B) \in Nat
    /\ Cardinality(Requests) \in Nat
         /\ Cardinality(A) + Cardinality(B) <= Cardinality(Requests)
<1>1. IsFiniteSet(Requests) /\ IsFiniteSet(A) /\ IsFiniteSet(B)
  BY TableAssumption, FS_Subset
<1>2. /\ Cardinality(A) \in Nat /\ Cardinality(B) \in Nat /\ Cardinality(Requests) \in Nat
  BY <1>1, FS_CardinalityType, FS_Subset
<1>3. A \cup B \in SUBSET Requests /\ IsFiniteSet(A \cup B)
      /\ Cardinality(A \cup B) = Cardinality(A) + Cardinality(B) - Cardinality(A \cap B)
  BY <1>1, FS_Union
<1>4. Cardinality(A \cap B) = 0
  BY FS_EmptySet
<1>5. Cardinality(A \cup B) <= Cardinality(Requests)
  BY <1>1, <1>3, FS_Subset
<1>. QED BY <1>2, <1>3, <1>4, <1>5

\* A step that sends and applies no commit of row v.
LEMMA CopiesStay ==
  ASSUME NEW v \in Values, CopiesOK(v), inserted[v] \in Nat, inserted'[v] = inserted[v],
         Sent(v)' \subseteq Sent(v), added' = v => added = v /\ Done(v)' = Done(v)
  PROVE  CopiesOK(v)'
<1>1. Sent(v) \in SUBSET Requests /\ IsFiniteSet(Requests)
  BY TableAssumption DEF Sent
<1>2. Cardinality(Sent(v)') \in Nat /\ Cardinality(Sent(v)) \in Nat
      /\ Cardinality(Sent(v)') <= Cardinality(Sent(v)) /\ Cardinality(Requests) \in Nat
  BY <1>1, FS_Subset, FS_CardinalityType
<1>3. inserted[v] + Cardinality(Sent(v)) <= Cardinality(Requests)
  BY DEF CopiesOK
<1>4. inserted'[v] + Cardinality(Sent(v)') <= Cardinality(Requests)
  BY <1>2, <1>3
<1>5. added' = v => inserted'[v] = Cardinality(Done(v)')
  BY DEF CopiesOK
<1>. QED BY <1>4, <1>5 DEF CopiesOK

\* What is added up when the editor shows row v.
LEMMA CopiesAddUp ==
  ASSUME NEW v \in Values, inserted'[v] = Cardinality(Done(v)') PROVE CopiesOK(v)'
<1>1. Done(v)' \in SUBSET Requests /\ Sent(v)' \in SUBSET Requests
        /\ Done(v)' \cap Sent(v)' = {}
  BY DEF Done, Sent
<1>2. Cardinality(Done(v)') + Cardinality(Sent(v)') <= Cardinality(Requests)
  BY <1>1, Counts
<1>. QED BY <1>2 DEF CopiesOK

LEMMA CopyIsApplied ==
  ASSUME NEW v \in Values, CopiesOK(v), inserted[v] \in Nat, NEW r \in Sent(v),
         inserted'[v] = inserted[v] + 1, added' = added,
         Sent(v)' = Sent(v) \ {r}, Done(v)' = Done(v) \cup {r}
  PROVE  CopiesOK(v)'
<1>1. /\ Sent(v) \in SUBSET Requests /\ Done(v) \in SUBSET Requests /\ r \notin Done(v)
      /\ IsFiniteSet(Requests) /\ IsFiniteSet(Sent(v)) /\ IsFiniteSet(Done(v))
  <2>1. Sent(v) \in SUBSET Requests /\ Done(v) \in SUBSET Requests /\ r \notin Done(v)
    BY DEF Sent, Done
  <2>. QED BY <2>1, TableAssumption, FS_Subset
<1>2. Cardinality(Sent(v)') = Cardinality(Sent(v)) - 1 /\ Cardinality(Sent(v)) \in Nat
  BY <1>1, FS_RemoveElement, FS_CardinalityType
<1>3. Cardinality(Done(v)') = Cardinality(Done(v)) + 1
  BY <1>1, FS_AddElement
<1>4. Cardinality(Requests) \in Nat
        /\ inserted[v] + Cardinality(Sent(v)) <= Cardinality(Requests)
  BY <1>1, FS_CardinalityType DEF CopiesOK
<1>5. inserted'[v] + Cardinality(Sent(v)') <= Cardinality(Requests)
  BY <1>2, <1>4
<1>6. added' = v => inserted'[v] = Cardinality(Done(v)')
  BY <1>3 DEF CopiesOK
<1>. QED BY <1>5, <1>6 DEF CopiesOK

LEMMA CopiesInits == TableInit => CopiesInv
<1>. SUFFICES ASSUME TableInit PROVE CopiesInv
  OBVIOUS
<1>1. ASSUME NEW v \in Values PROVE CopiesOK(v)
  <2>1. Sent(v) = {} /\ inserted[v] = 0 /\ added # v
    BY TableAssumption DEF TableInit, Sent, CommitOf, InFlight, Load, Values
  <2>2. Cardinality(Sent(v)) = 0 /\ Cardinality(Requests) \in Nat
    BY <2>1, TableAssumption, FS_EmptySet, FS_CardinalityType
  <2>3. inserted[v] + Cardinality(Sent(v)) <= Cardinality(Requests)
    BY <2>1, <2>2
  <2>. QED BY <2>1, <2>3 DEF CopiesOK
<1>. QED BY <1>1, InitTableInv DEF CopiesInv

\* The slot that a step changes, and the row that it says to be the copy of.
LEMMA SlotCopies ==
  ASSUME TableInv, NEW r \in Requests, NEW x \in {None} \cup Loads \cup Commits,
         request' = [request EXCEPT ![r] = x], NEW v
  PROVE  /\ \A q : q # r => (q \in Sent(v)' <=> q \in Sent(v))
                            /\ (q \in Done(v)' <=> q \in Done(v))
         /\ r \in Sent(v)' <=> x \in Commits /\ x.batch.insert = v /\ x.phase # "applied"
         /\ r \in Done(v)' <=> x \in Commits /\ x.batch.insert = v /\ x.phase = "applied"
<1>0. TableData
  BY DEF TableInv
<1>1. /\ CommitOf(r, v)' <=> x \in Commits /\ x.batch.insert = v
      /\ r \in Applied' <=> x \in Commits /\ x.phase = "applied"
  <2>1. \A w : CommitOf(r, w)' <=> x \in Commits /\ x.batch.insert = w
    BY <1>0, SlotMoves
  <2>2. r \in Applied' <=> x \in Commits /\ x.phase = "applied"
    BY <1>0, SlotMoves
  <2>. QED
    BY <2>1, <2>2
<1>2. ASSUME NEW q \in Requests, q # r
      PROVE  (CommitOf(q, v)' <=> CommitOf(q, v)) /\ (q \in Applied' <=> q \in Applied)
  BY <1>2, SlotMoves DEF TableInv
<1>3. /\ \A q : q \in Sent(v)' <=> q \in Requests /\ CommitOf(q, v)' /\ q \notin Applied'
      /\ \A q : q \in Done(v)' <=> q \in Requests /\ CommitOf(q, v)' /\ q \in Applied'
      /\ \A q : q \in Sent(v) <=> q \in Requests /\ CommitOf(q, v) /\ q \notin Applied
      /\ \A q : q \in Done(v) <=> q \in Requests /\ CommitOf(q, v) /\ q \in Applied
  BY DEF Sent, Done
<1>. QED
  BY <1>1, <1>2, <1>3

LEMMA NextCopies == CopiesInv /\ [TableNext]_tableVars => CopiesInv'
<1>. SUFFICES ASSUME CopiesInv, [TableNext]_tableVars PROVE CopiesInv'
  OBVIOUS
<1>1. TableInv /\ TableInv' /\ TableData /\ None \notin Values
  BY NextTableInv, TableAssumption DEF CopiesInv, TableInv, Values
<1>. SUFFICES ASSUME NEW v \in Values PROVE CopiesOK(v)'
  BY <1>1 DEF CopiesInv
<1>2. CopiesOK(v) /\ inserted[v] \in Nat
  BY <1>1 DEF CopiesInv, TableData
<1>3. ASSUME UNCHANGED request, UNCHANGED inserted, added' = v => added = v
      PROVE  CopiesOK(v)'
  <2>1. Sent(v)' = Sent(v) /\ Done(v)' = Done(v)
    BY <1>3 DEF Sent, Done, CommitOf, Applied, InFlight
  <2>. QED BY <1>2, <1>3, <2>1, CopiesStay
<1>4. CASE UpdateCell \/ DeleteRow \/ DropAdded \/ UNCHANGED tableVars
  BY <1>1, <1>3, <1>4 DEF UpdateCell, DeleteRow, DropAdded, EditsTo, serverVars, tableVars
<1>5. CASE AddRow
  <2>1. UNCHANGED request /\ UNCHANGED inserted /\ added' = edits + 1 /\ edits \in Values
    BY <1>1, <1>5 DEF AddRow, EditsTo, serverVars, TableData
  <2>2. CASE v # edits + 1
    BY <1>3, <2>1, <2>2
  <2>3. CASE v = edits + 1
    <3>1. v > edits
      BY <2>1, <2>3 DEF Values
    <3>2. inserted[v] = 0 /\ \A r \in Requests : ~CommitOf(r, v)
      BY <1>1, <3>1 DEF TableInv, AddedIsSent
    <3>3. Done(v)' = {}
      BY <2>1, <3>2 DEF Done, CommitOf, InFlight
    <3>4. inserted'[v] = Cardinality(Done(v)')
      BY <2>1, <3>2, <3>3, FS_EmptySet
    <3>. QED BY <3>4, CopiesAddUp
  <2>. QED BY <2>2, <2>3
<1>6. ASSUME NEW r \in Requests, NEW x \in {None} \cup Loads,
             request' = [request EXCEPT ![r] = x],
             UNCHANGED inserted,
             added' = None \/ (added' = added /\ r \notin InFlight("commit"))
                \/ (added' = added /\ r \notin Applied)
      PROVE  CopiesOK(v)'
  <2>1. x \notin Commits
    BY NoneIsNoCall DEF Loads, Commits
  <2>2. Sent(v)' \subseteq Sent(v) /\ (r \notin Done(v) => Done(v)' = Done(v))
    <3>1. /\ \A q : q # r => (q \in Sent(v)' <=> q \in Sent(v))
                            /\ (q \in Done(v)' <=> q \in Done(v))
          /\ r \notin Sent(v)' /\ r \notin Done(v)'
      BY <1>1, <1>6, <2>1, SlotCopies
    <3>. QED BY <3>1
  <2>3. added' = v => added = v /\ r \notin Done(v)
    BY <1>1, <1>6 DEF Done, CommitOf
  <2>. QED BY <1>2, <1>6, <2>2, <2>3, CopiesStay
<1>7. ASSUME NEW r \in Requests, NEW p \in Pages, StartLoad(r, p) PROVE CopiesOK(v)'
  <2>1. Load(p) \in Loads
    BY DEF Load, Loads
  <2>. QED BY <1>6, <1>7, <2>1 DEF StartLoad, serverVars
<1>8. ASSUME NEW r \in Requests, CommitReturns(r) \/ \E p \in Pages : ChoosePage(r, p)
      PROVE  CopiesOK(v)'
  <2>1. CommitReturns(r) => request[r].page \in Pages
    BY <1>1, RequestKinds DEF CommitReturns, Commits
  <2>. QED BY <1>7, <1>8, <2>1 DEF CommitReturns, ChoosePage
<1>9. ASSUME NEW r \in Requests,
             LoadReads(r) \/ LoadReturns(r) \/ LoadFails(r) \/ CommitRefused(r)
      PROVE  CopiesOK(v)'
  <2>1. LoadReads(r) \/ LoadReturns(r) \/ LoadFails(r) => r \notin InFlight("commit")
    BY <1>1, RequestKinds DEF LoadReads, LoadReturns, LoadFails
  <2>2. CASE LoadReads(r)
    <3> DEFINE x == [kind |-> "load", page |-> request[r].page, phase |-> "read",
                     value |-> table[request[r].page]]
    <3>1. request[r] \in Loads
      BY <1>1, <2>2, RequestKinds DEF LoadReads
    <3>2. request[r].page \in Pages
      BY <3>1 DEF Loads
    <3>3. x \in Loads
      BY <1>1, <3>2 DEF Loads, TableData
    <3>4. request' = [request EXCEPT ![r] = x] /\ UNCHANGED inserted /\ added' = added
      BY <2>2 DEF LoadReads, serverVars
    <3>. HIDE DEF x
    <3>. QED BY <1>6, <2>1, <2>2, <3>3, <3>4
  <2>3. CASE LoadReturns(r)
    BY <1>6, <2>1, <2>3 DEF LoadReturns, serverVars
  <2>4. CASE LoadFails(r)
    BY <1>6, <2>1, <2>4 DEF LoadFails, serverVars
  <2>5. CASE CommitRefused(r)
    <3>1. r \notin Applied
      BY <2>5 DEF CommitRefused, Applied
    <3>. QED BY <1>6, <2>5, <3>1 DEF CommitRefused, serverVars
  <2>. QED BY <1>9, <2>2, <2>3, <2>4, <2>5
<1>10. ASSUME NEW r \in Requests, Commit(r) PROVE CopiesOK(v)'
  <2> DEFINE x == [kind |-> "commit", page |-> pageNum, phase |-> "sent",
                   batch |-> [state |-> row.state, value |-> row.value, insert |-> added,
                              rowPage |-> page]]
  <2>1. x \in Commits /\ x.batch.insert = added /\ x.phase = "sent"
    BY <1>1, <1>10 DEF Commit, Commits, Batches, TableData
  <2>2. /\ request' = [request EXCEPT ![r] = x] /\ UNCHANGED inserted /\ added' = added
        /\ request[r] = None
    BY <1>10 DEF Commit, serverVars
  <2>. HIDE DEF x
  <2>3. Done(v)' = Done(v)
    <3>1. (\A q : q # r => (q \in Done(v)' <=> q \in Done(v))) /\ r \notin Done(v)'
      BY <1>1, <2>1, <2>2, SlotCopies
    <3>2. r \notin Done(v)
      BY <2>2 DEF Done, CommitOf, InFlight
    <3>. QED BY <3>1, <3>2
  <2>4. CASE added = v
    BY <1>2, <2>2, <2>3, <2>4, CopiesAddUp DEF CopiesOK
  <2>5. CASE added # v
    <3>1. Sent(v)' \subseteq Sent(v)
      <4>1. (\A q : q # r => (q \in Sent(v)' <=> q \in Sent(v))) /\ r \notin Sent(v)'
        BY <1>1, <2>1, <2>2, <2>5, SlotCopies
      <4>. QED BY <4>1
    <3>. QED BY <1>2, <2>2, <2>5, <3>1, CopiesStay
  <2>. QED BY <2>4, <2>5
<1>11. ASSUME NEW r \in Requests, ApplyMutations(r) PROVE CopiesOK(v)'
  <2>1. /\ request[r] \in Commits /\ request[r].phase = "sent" /\ added' = added
        /\ r \in InFlight("commit")
    BY <1>1, <1>11, RequestKinds DEF ApplyMutations
  <2>2. PICK ph \in {"applied", "refused"} :
          /\ request' = [request EXCEPT ![r].phase = ph]
          /\ ph = "refused" => inserted' = inserted
          /\ ph = "applied" =>
               inserted' = [u \in Values |->
                              inserted[u] + IF u = request[r].batch.insert THEN 1 ELSE 0]
    BY <1>11 DEF ApplyMutations, serverVars
  <2> DEFINE x == [request[r] EXCEPT !.phase = ph]
  <2>3. x \in Commits /\ x.batch = request[r].batch /\ x.phase = ph
        /\ request' = [request EXCEPT ![r] = x]
    BY <2>1, <2>2 DEF Commits
  <2>4. CommitOf(r, v) <=> request[r].batch.insert = v
    BY <2>1 DEF CommitOf
  <2>5. r \notin Applied /\ (r \in Sent(v) <=> request[r].batch.insert = v)
    BY <2>1, <2>4 DEF Applied, Sent
  <2>. HIDE DEF x
  <2>6. /\ \A q : q # r => (q \in Sent(v)' <=> q \in Sent(v))
                          /\ (q \in Done(v)' <=> q \in Done(v))
        /\ r \in Sent(v)' <=> request[r].batch.insert = v /\ ph # "applied"
        /\ r \in Done(v)' <=> request[r].batch.insert = v /\ ph = "applied"
    BY <1>1, <2>3, SlotCopies
  <2>7. r \notin Done(v)
    BY <2>5 DEF Done
  <2>8. CASE ph = "refused"
    <3>1. Sent(v)' = Sent(v) /\ Done(v)' = Done(v)
      BY <2>5, <2>8, <2>6, <2>7
    <3>. QED BY <1>2, <2>1, <2>2, <2>8, <3>1, CopiesStay
  <2>9. CASE ph = "applied" /\ request[r].batch.insert # v
    <3>1. Sent(v)' = Sent(v) /\ Done(v)' = Done(v)
      BY <2>5, <2>9, <2>6, <2>7
    <3>2. inserted'[v] = inserted[v]
      BY <1>2, <2>2, <2>9
    <3>. QED BY <1>2, <2>1, <3>1, <3>2, CopiesStay
  <2>10. CASE ph = "applied" /\ request[r].batch.insert = v
    <3>1. Sent(v)' = Sent(v) \ {r} /\ Done(v)' = Done(v) \cup {r}
      BY <2>5, <2>10, <2>6, <2>7
    <3>2. inserted'[v] = inserted[v] + 1
      BY <2>2, <2>10
    <3>. QED BY <1>2, <2>1, <2>5, <2>10, <3>1, <3>2, CopyIsApplied
  <2>. QED BY <2>8, <2>9, <2>10
<1>. QED BY <1>4, <1>5, <1>8, <1>9, <1>10, <1>11 DEF TableNext

(* Every variable of the table editor keeps its type; a row is inserted    *)
(* no oftener than calls are in flight (TableDataEditor.tsx, commit).      *)
THEOREM TableTypeCorrect == TableSpec => []TableTypeOK
<1>1. ASSUME CopiesInv PROVE TableTypeOK
  <2>1. ASSUME NEW v \in Values PROVE inserted[v] \in 0..Cardinality(Requests)
    <3>1. inserted[v] + Cardinality(Sent(v)) <= Cardinality(Requests) /\ inserted[v] \in Nat
      BY <1>1 DEF CopiesInv, CopiesOK, TableInv, TableData
    <3>2. Sent(v) \in SUBSET Requests /\ {} \in SUBSET Requests /\ Sent(v) \cap {} = {}
      BY DEF Sent
    <3>3. Cardinality(Sent(v)) \in Nat /\ Cardinality(Requests) \in Nat
      BY <3>2, Counts
    <3>. QED BY <3>1, <3>3
  <2>2. inserted \in [Values -> 0..Cardinality(Requests)]
    BY <1>1, <2>1 DEF CopiesInv, TableInv, TableData
  <2>. QED BY <1>1, <2>2 DEF CopiesInv, TableInv, TableData, TableTypeOK
<1>. QED BY <1>1, CopiesInits, NextCopies, PTL DEF TableSpec
-----------------------------------------------------------------------------
(* NotebookSaves. The store, the tab and the calls under way agree up to   *)
(* the causes that are recorded: each part of the invariant says so for    *)
(* one promise.                                                            *)
(* A text anybody holds was typed or written before.                       *)
Written ==
  /\ stored # NoNote => stored <= texts
  /\ open # NoNote => open <= texts
  /\ timer \notin {Off, NoNote} => timer <= texts
  /\ \A i \in Saving : save[i].text <= texts
       /\ (save[i].phase = "read" => save[i].result <= texts)
  /\ \A j \in Reads : pull[j].phase = "read" => pull[j].result <= texts

(* Two saves are under way only if one began while another had not ended.  *)
OneSave == "crossed" \notin causes => \A i, j \in Saving : i = j

(* The note is in the store and has its tab, unless it was deleted.        *)
NoteThere ==
  /\ tab => open # NoNote /\ status # "none"
  /\ stored = NoNote \/ drop \/ ~tab => "deleted" \in causes
  /\ event # "none" => "tool" \in causes

(* What makes the status "saved" true: nothing waits to be saved, and what *)
(* a save or a read under way brings back is what the store has.           *)
NoteSaved ==
  causes \cap {"crossed", "missed", "readDue"} = {} =>
    /\ \A j, k \in Pulling : j = k
    /\ Pulling # {} => ~Unsaved
    /\ \A j \in Pulling : pull[j].phase = "read" =>
         stored # NoNote /\ (event = "none" => pull[j].result = stored)
    /\ tab /\ status = "saved" => timer = Off /\ Saving = {}
    /\ tab /\ timer # Off => \A i \in Saving : open # save[i].text
    /\ tab /\ ~drop =>
         /\ stored # NoNote
         /\ event = "none" =>
              /\ \A i \in Saving : save[i].phase = "read" => save[i].result = stored
              /\ status = "saved" /\ Pulling = {} => open = stored

(* The last text typed is in the store, or on its way there: a timer runs, *)
(* a save carries it, or the user has seen that a save failed. The note is *)
(* not read while it has another text.                                     *)
NoteEdits ==
  causes \cap {"crossed", "tool", "deleted"} = {} =>
    /\ open = typed
    /\ \A i \in Saving :
         /\ save[i].phase \in {"written", "read"} => stored = save[i].text
         /\ save[i].phase = "read" => save[i].result = save[i].text
         /\ save[i].text # typed => timer # Off /\ Pulling = {}
    /\ Pulling # {} => stored = typed
    /\ \A j \in Pulling : pull[j].phase = "read" => pull[j].result = typed
    /\ \/ stored = typed
       \/ timer # Off
       \/ \E i \in Saving : save[i].text = typed
       \/ status = "dirty" /\ "refused" \in causes

(* After a deletion that no save and no read raced, nobody is about to     *)
(* write the note again, or to show it.                                    *)
NoteDeleted ==
  ("deleted" \in causes /\ causes \cap {"saveDue", "readDue"} = {}) =>
    stored = NoNote /\ ~Unsaved /\ ~tool /\ \A j \in Reads : pull[j].phase # "read"

NoteInv == NoteTypeOK /\ Written /\ OneSave /\ NoteThere /\ NoteSaved /\ NoteEdits
  /\ NoteDeleted

(* Each action keeps the invariant.                                        *)
LEMMA NoteType ==
  ASSUME NoteInv, Type
  PROVE  NoteInv'
<1>1. NoteTypeOK'
  BY NoteAssumption DEF NoteInv, NoteTypeOK, Texts, Saving, If, Causes, frontVars,
     otherVars, Type
<1>2. Written'
  BY DEF NoteInv, Written, NoteTypeOK, Texts, Saving, Idle, Type
<1>3. OneSave'
  BY DEF NoteInv, OneSave, Saving, Causes, frontVars, Type
<1>4. NoteThere'
  BY NoteAssumption DEF NoteInv, NoteThere, NoteTypeOK, Texts, otherVars, Type
<1>5. NoteSaved'
  BY DEF NoteInv, NoteSaved, NoteTypeOK, Texts, Written, Saving, Pulling, If, otherVars,
     Type
<1>6. NoteEdits'
  BY NoteAssumption DEF NoteInv, NoteEdits, NoteTypeOK, Texts, Saving, Pulling, If, Type
<1>7. NoteDeleted'
  BY DEF NoteInv, NoteDeleted, If, Type
<1>. QED BY <1>1, <1>2, <1>3, <1>4, <1>5, <1>6, <1>7 DEF NoteInv

LEMMA NoteTimerExpires ==
  ASSUME NoteInv, TimerExpires
  PROVE  NoteInv'
<1>1. NoteTypeOK'
  BY DEF NoteInv, NoteTypeOK, otherVars, TimerExpires
<1>2. Written'
  BY DEF NoteInv, Written, Saving, TimerExpires
<1>3. OneSave'
  BY DEF NoteInv, OneSave, Saving, Causes, frontVars, TimerExpires
<1>4. NoteThere'
  BY DEF NoteInv, NoteThere, otherVars, TimerExpires
<1>5. NoteSaved'
  BY DEF NoteInv, NoteSaved, Unsaved, Saving, Pulling, otherVars, TimerExpires
<1>6. NoteEdits'
  BY DEF NoteInv, NoteEdits, NoteThere, TimerExpires
<1>7. NoteDeleted'
  BY DEF NoteInv, NoteDeleted, Unsaved, Saving, otherVars, TimerExpires
<1>. QED BY <1>1, <1>2, <1>3, <1>4, <1>5, <1>6, <1>7 DEF NoteInv

LEMMA NotePersist ==
  ASSUME NoteInv, NEW i \in Slots, NEW text \in Texts, Persist(i, text),
         UNCHANGED <<tab, open, pull>>, timer' = Off, text \in {open, timer}, tab => text = open,
         timer # Off \/ (tab /\ status # "saved")
  PROVE  NoteInv'
<1>1. NoteTypeOK'
  BY DEF NoteInv, NoteTypeOK, If, Causes, frontVars, otherVars, Persist
<1>2. Written'
  BY NoteAssumption DEF NoteInv, Written, Texts, Saving, Persist
<1>3. OneSave'
  BY DEF OneSave, Saving, If, Persist
<1>4. NoteThere'
  BY DEF NoteInv, NoteThere, otherVars, Persist
<1>5. NoteSaved'
  BY DEF NoteInv, NoteSaved, NoteThere, NoteTypeOK, Unsaved, Saving, Pulling, otherVars,
     Persist
<1>6. NoteEdits'
  BY DEF NoteInv, NoteEdits, NoteThere, OneSave, NoteTypeOK, Saving, Pulling, Idle, If,
     Persist
<1>7. NoteDeleted'
  BY DEF NoteInv, NoteDeleted, NoteThere, NoteTypeOK, Unsaved, If, Persist
<1>. QED BY <1>1, <1>2, <1>3, <1>4, <1>5, <1>6, <1>7 DEF NoteInv

LEMMA NoteSaveWrites ==
  ASSUME NoteInv, NEW i \in Slots, SaveWrites(i)
  PROVE  NoteInv'
<1>1. NoteTypeOK'
  BY DEF NoteInv, NoteTypeOK, Idle, frontVars, otherVars, SaveWrites
<1>2. Written'
  BY DEF NoteInv, Written, Saving, Idle, frontVars, SaveWrites
<1>3. OneSave'
  BY DEF NoteInv, OneSave, Saving, Idle, Causes, SaveWrites
<1>4. NoteThere'
  BY NoteAssumption DEF NoteInv, NoteThere, NoteTypeOK, Texts, Idle, frontVars, otherVars,
     SaveWrites
<1>5. NoteSaved'
  BY NoteAssumption DEF NoteInv, NoteSaved, OneSave, NoteTypeOK, Texts, Unsaved, Saving,
     Pulling, Idle, frontVars, SaveWrites
<1>6. NoteEdits'
  BY DEF NoteInv, NoteEdits, OneSave, Saving, Pulling, Idle, frontVars, SaveWrites
<1>7. NoteDeleted'
  BY DEF NoteInv, NoteDeleted, Unsaved, Saving, Idle, SaveWrites
<1>. QED BY <1>1, <1>2, <1>3, <1>4, <1>5, <1>6, <1>7 DEF NoteInv

LEMMA NoteSaveReads ==
  ASSUME NoteInv, NEW i \in Slots, SaveReads(i)
  PROVE  NoteInv'
<1>1. NoteTypeOK'
  BY DEF NoteInv, NoteTypeOK, Idle, frontVars, otherVars, SaveReads
<1>2. Written'
  BY DEF NoteInv, Written, Saving, Idle, frontVars, SaveReads
<1>3. OneSave'
  BY DEF NoteInv, OneSave, Saving, Idle, Causes, SaveReads
<1>4. NoteThere'
  BY DEF NoteInv, NoteThere, frontVars, otherVars, SaveReads
<1>5. NoteSaved'
  BY DEF NoteInv, NoteSaved, OneSave, Unsaved, Saving, Pulling, Idle, frontVars, SaveReads
<1>6. NoteEdits'
  BY DEF NoteInv, NoteEdits, Saving, Pulling, Idle, frontVars, SaveReads
<1>7. NoteDeleted'
  BY DEF NoteInv, NoteDeleted, SaveReads
<1>. QED BY <1>1, <1>2, <1>3, <1>4, <1>5, <1>6, <1>7 DEF NoteInv

LEMMA NoteSaveFails ==
  ASSUME NoteInv, NEW i \in Slots, SaveFails(i)
  PROVE  NoteInv'
<1>1. NoteTypeOK'
  BY DEF NoteInv, NoteTypeOK, Causes, frontVars, otherVars, SaveFails
<1>2. Written'
  BY DEF NoteInv, Written, Saving, SaveFails
<1>3. OneSave'
  BY DEF NoteInv, OneSave, Saving, Causes, frontVars, SaveFails
<1>4. NoteThere'
  BY DEF NoteInv, NoteThere, otherVars, SaveFails
<1>5. NoteSaved'
  BY DEF NoteInv, NoteSaved, Unsaved, Saving, Pulling, Idle, otherVars, SaveFails
<1>6. NoteEdits'
  BY DEF NoteInv, NoteEdits, Saving, Pulling, SaveFails
<1>7. NoteDeleted'
  BY DEF NoteInv, NoteDeleted, Unsaved, Saving, Idle, SaveFails
<1>. QED BY <1>1, <1>2, <1>3, <1>4, <1>5, <1>6, <1>7 DEF NoteInv

LEMMA NoteSaveReturns ==
  ASSUME NoteInv, NEW i \in Slots, SaveReturns(i)
  PROVE  NoteInv'
<1>1. NoteTypeOK'
  BY DEF NoteInv, NoteTypeOK, Idle, otherVars, SaveReturns, Rearms, Diverged
<1>2. Written'
  BY DEF NoteInv, Written, Saving, Idle, SaveReturns, Rearms, Diverged
<1>3. OneSave'
  BY DEF NoteInv, OneSave, Saving, Causes, frontVars, SaveReturns, Rearms, Diverged
<1>4. NoteThere'
  BY NoteAssumption DEF NoteInv, NoteThere, NoteTypeOK, Texts, Idle, otherVars, SaveReturns,
     Rearms, Diverged
<1>5. NoteSaved'
  BY DEF NoteInv, NoteSaved, NoteThere, OneSave, NoteTypeOK, Unsaved, Saving, Pulling, Idle,
     otherVars, SaveReturns, Rearms, Diverged
<1>6. NoteEdits'
  BY NoteAssumption DEF NoteInv, NoteEdits, NoteThere, Saving, Pulling, Idle, SaveReturns,
     Rearms, Diverged
<1>7. NoteDeleted'
  BY DEF NoteInv, NoteDeleted, Unsaved, Saving, Idle, SaveReturns, Rearms, Diverged
<1>. QED BY <1>1, <1>2, <1>3, <1>4, <1>5, <1>6, <1>7 DEF NoteInv

LEMMA NoteOpenNote ==
  ASSUME NoteInv, NEW j \in Reads, OpenNote(j)
  PROVE  NoteInv'
<1>1. NoteTypeOK'
  BY NoteAssumption DEF NoteInv, NoteTypeOK, Saving, If, Causes, frontVars, OpenNote,
     StartPull, Asks
<1>2. Written'
  BY DEF NoteInv, Written, Saving, frontVars, OpenNote, StartPull
<1>3. OneSave'
  BY DEF NoteInv, OneSave, Saving, Causes, OpenNote, StartPull
<1>4. NoteThere'
  BY DEF NoteInv, NoteThere, frontVars, OpenNote, StartPull
<1>5. NoteSaved'
  BY DEF NoteInv, NoteSaved, Unsaved, Saving, Pulling, If, frontVars, OpenNote, StartPull
<1>6. NoteEdits'
  BY DEF NoteInv, NoteEdits, Unsaved, Saving, Pulling, If, frontVars, OpenNote, StartPull
<1>7. NoteDeleted'
  BY DEF NoteInv, NoteDeleted, Unsaved, Saving, If, frontVars, OpenNote, StartPull
<1>. QED BY <1>1, <1>2, <1>3, <1>4, <1>5, <1>6, <1>7 DEF NoteInv

LEMMA NoteRefresh ==
  ASSUME NoteInv, NEW j \in Reads, Refresh(j)
  PROVE  NoteInv'
<1>1. NoteTypeOK'
  BY NoteAssumption DEF NoteInv, NoteTypeOK, Saving, If, Causes, frontVars, Refresh,
     StartPull, Asks
<1>2. Written'
  BY DEF NoteInv, Written, Saving, frontVars, Refresh, StartPull
<1>3. OneSave'
  BY DEF NoteInv, OneSave, Saving, Causes, Refresh, StartPull
<1>4. NoteThere'
  BY DEF NoteInv, NoteThere, frontVars, Refresh, StartPull
<1>5. NoteSaved'
  BY DEF NoteInv, NoteSaved, Unsaved, Saving, Pulling, If, frontVars, Refresh, StartPull
<1>6. NoteEdits'
  BY DEF NoteInv, NoteEdits, Unsaved, Saving, Pulling, If, frontVars, Refresh, StartPull
<1>7. NoteDeleted'
  BY DEF NoteInv, NoteDeleted, Unsaved, Saving, If, frontVars, Refresh, StartPull
<1>. QED BY <1>1, <1>2, <1>3, <1>4, <1>5, <1>6, <1>7 DEF NoteInv

LEMMA NotePullReads ==
  ASSUME NoteInv, NEW j \in Reads, PullReads(j)
  PROVE  NoteInv'
<1>1. NoteTypeOK'
  BY DEF NoteInv, NoteTypeOK, Idle, frontVars, otherVars, PullReads
<1>2. Written'
  BY DEF NoteInv, Written, Saving, Idle, frontVars, PullReads
<1>3. OneSave'
  BY DEF NoteInv, OneSave, Saving, Causes, PullReads
<1>4. NoteThere'
  BY DEF NoteInv, NoteThere, frontVars, otherVars, PullReads
<1>5. NoteSaved'
  BY DEF NoteInv, NoteSaved, Unsaved, Saving, Pulling, Idle, frontVars, otherVars, PullReads
<1>6. NoteEdits'
  BY DEF NoteInv, NoteEdits, Saving, Pulling, Idle, frontVars, PullReads
<1>7. NoteDeleted'
  BY DEF NoteInv, NoteDeleted, Unsaved, Saving, Idle, frontVars, otherVars, PullReads
<1>. QED BY <1>1, <1>2, <1>3, <1>4, <1>5, <1>6, <1>7 DEF NoteInv

LEMMA NotePullReturns ==
  ASSUME NoteInv, NEW j \in Reads, PullReturns(j)
  PROVE  NoteInv'
<1>1. NoteTypeOK'
  BY DEF NoteInv, NoteTypeOK, Idle, otherVars, PullReturns, PullEnds
<1>2. Written'
  BY DEF NoteInv, Written, Saving, Idle, PullReturns, PullEnds
<1>3. OneSave'
  BY DEF NoteInv, OneSave, Saving, Causes, frontVars, PullReturns, PullEnds
<1>4. NoteThere'
  BY NoteAssumption DEF NoteInv, NoteThere, NoteTypeOK, Texts, Idle, otherVars, PullReturns,
     PullEnds
<1>5. NoteSaved'
  BY DEF NoteInv, NoteSaved, Unsaved, Saving, Pulling, Idle, otherVars, PullReturns,
     PullEnds
<1>6. NoteEdits'
  BY DEF NoteInv, NoteEdits, Saving, Pulling, Idle, PullReturns, PullEnds
<1>7. NoteDeleted'
  BY DEF NoteInv, NoteDeleted, PullReturns, PullEnds
<1>. QED BY <1>1, <1>2, <1>3, <1>4, <1>5, <1>6, <1>7 DEF NoteInv

LEMMA NoteOpenPromotes ==
  ASSUME NoteInv, NEW j \in Reads, NEW i \in Slots, OpenPromotes(j, i)
  PROVE  NoteInv'
<1>1. NoteTypeOK'
  BY DEF NoteInv, NoteTypeOK, Idle, If, Causes, frontVars, otherVars, OpenPromotes,
     PullEnds, Persist
<1>2. Written'
  BY DEF NoteInv, Written, Saving, Idle, OpenPromotes, PullEnds, Persist
<1>3. OneSave'
  BY DEF OneSave, Saving, If, OpenPromotes, PullEnds, Persist
<1>4. NoteThere'
  BY NoteAssumption DEF NoteInv, NoteThere, NoteTypeOK, Texts, Idle, otherVars,
     OpenPromotes, PullEnds, Persist
<1>5. NoteSaved'
  BY DEF NoteInv, NoteSaved, NoteTypeOK, Unsaved, Saving, Pulling, Idle, OpenPromotes,
     PullEnds, Persist
<1>6. NoteEdits'
  BY DEF NoteInv, NoteEdits, Saving, Pulling, Idle, OpenPromotes, PullEnds, Persist
<1>7. NoteDeleted'
  BY DEF NoteInv, NoteDeleted, If, OpenPromotes, PullEnds, Persist
<1>. QED BY <1>1, <1>2, <1>3, <1>4, <1>5, <1>6, <1>7 DEF NoteInv

LEMMA NoteToolReads ==
  ASSUME NoteInv, ToolReads
  PROVE  NoteInv'
<1>1. NoteTypeOK'
  BY NoteAssumption DEF NoteInv, NoteTypeOK, frontVars, ToolReads, Asks
<1>2. Written'
  BY DEF NoteInv, Written, Saving, frontVars, ToolReads
<1>3. OneSave'
  BY DEF NoteInv, OneSave, Saving, Causes, ToolReads
<1>4. NoteThere'
  BY DEF NoteInv, NoteThere, frontVars, ToolReads
<1>5. NoteSaved'
  BY DEF NoteInv, NoteSaved, Unsaved, Saving, Pulling, frontVars, ToolReads
<1>6. NoteEdits'
  BY DEF NoteInv, NoteEdits, Saving, Pulling, frontVars, ToolReads
<1>7. NoteDeleted'
  BY DEF NoteInv, NoteDeleted, ToolReads
<1>. QED BY <1>1, <1>2, <1>3, <1>4, <1>5, <1>6, <1>7 DEF NoteInv

LEMMA NoteToolWrites ==
  ASSUME NoteInv, ToolWrites
  PROVE  NoteInv'
<1>1. NoteTypeOK'
  <2>1. stored' \in Texts \cup {NoNote} /\ texts' \in Texts
    BY NoteAssumption DEF NoteInv, NoteTypeOK, Texts, ToolWrites
  <2>2. causes' \subseteq Causes /\ event' \in {"none", "update"} /\ tool' \in BOOLEAN
    BY DEF NoteInv, NoteTypeOK, Causes, ToolWrites
  <2>. QED BY <2>1, <2>2 DEF NoteInv, NoteTypeOK, frontVars, ToolWrites
<1>2. Written'
  BY DEF NoteInv, Written, NoteTypeOK, Texts, Saving, Idle, frontVars, ToolWrites
<1>3. OneSave'
  BY DEF NoteInv, OneSave, Saving, Causes, ToolWrites
<1>4. NoteThere'
  BY NoteAssumption DEF NoteInv, NoteThere, NoteTypeOK, Texts, frontVars, ToolWrites
<1>5. NoteSaved'
  BY NoteAssumption DEF NoteInv, NoteSaved, NoteTypeOK, Texts, Unsaved, Saving, Pulling,
     frontVars, ToolWrites
<1>6. NoteEdits'
  BY DEF NoteEdits, ToolWrites
<1>7. NoteDeleted'
  BY DEF NoteInv, NoteDeleted, ToolWrites
<1>. QED BY <1>1, <1>2, <1>3, <1>4, <1>5, <1>6, <1>7 DEF NoteInv

LEMMA NoteToolFails ==
  ASSUME NoteInv, ToolFails
  PROVE  NoteInv'
<1>1. NoteTypeOK'
  <2>1. stored' \in Texts \cup {NoNote} /\ texts' \in Texts
    BY NoteAssumption DEF NoteInv, NoteTypeOK, Texts, ToolFails
  <2>2. causes' \subseteq Causes /\ event' \in {"none", "update"} /\ tool' \in BOOLEAN
    BY DEF NoteInv, NoteTypeOK, Causes, ToolFails
  <2>. QED BY <2>1, <2>2 DEF NoteInv, NoteTypeOK, frontVars, ToolFails
<1>2. Written'
  BY DEF NoteInv, Written, NoteTypeOK, Texts, Saving, Idle, frontVars, ToolFails
<1>3. OneSave'
  BY DEF NoteInv, OneSave, Saving, Causes, ToolFails
<1>4. NoteThere'
  BY NoteAssumption DEF NoteInv, NoteThere, NoteTypeOK, Texts, frontVars, ToolFails
<1>5. NoteSaved'
  BY DEF NoteInv, NoteSaved, Unsaved, Saving, Pulling, frontVars, ToolFails
<1>6. NoteEdits'
  BY DEF NoteInv, NoteEdits, Saving, Pulling, frontVars, ToolFails
<1>7. NoteDeleted'
  BY DEF NoteInv, NoteDeleted, ToolFails
<1>. QED BY <1>1, <1>2, <1>3, <1>4, <1>5, <1>6, <1>7 DEF NoteInv

LEMMA NoteDeliverUpdate ==
  ASSUME NoteInv, NEW j \in Reads, NEW reveal \in BOOLEAN, DeliverUpdate(j, reveal)
  PROVE  NoteInv'
<1>1. NoteTypeOK'
  BY DEF NoteInv, NoteTypeOK, If, Causes, frontVars, DeliverUpdate, StartPull
<1>2. Written'
  BY DEF NoteInv, Written, Saving, frontVars, DeliverUpdate, StartPull
<1>3. OneSave'
  BY DEF NoteInv, OneSave, Saving, Causes, DeliverUpdate, StartPull
<1>4. NoteThere'
  BY DEF NoteInv, NoteThere, frontVars, DeliverUpdate, StartPull
<1>5. NoteSaved'
  BY DEF NoteInv, NoteSaved, NoteTypeOK, Unsaved, Saving, Pulling, Idle, If, frontVars,
     DeliverUpdate, StartPull
<1>6. NoteEdits'
  BY DEF NoteInv, NoteEdits, NoteThere, DeliverUpdate, StartPull
<1>7. NoteDeleted'
  BY DEF NoteInv, NoteDeleted, Unsaved, Saving, If, frontVars, DeliverUpdate, StartPull
<1>. QED BY <1>1, <1>2, <1>3, <1>4, <1>5, <1>6, <1>7 DEF NoteInv

LEMMA NoteIgnoreUpdate ==
  ASSUME NoteInv, IgnoreUpdate
  PROVE  NoteInv'
<1>1. NoteTypeOK'
  BY DEF NoteInv, NoteTypeOK, If, Causes, frontVars, IgnoreUpdate
<1>2. Written'
  BY DEF NoteInv, Written, Saving, frontVars, IgnoreUpdate
<1>3. OneSave'
  BY DEF NoteInv, OneSave, Saving, Causes, IgnoreUpdate
<1>4. NoteThere'
  BY DEF NoteInv, NoteThere, frontVars, IgnoreUpdate
<1>5. NoteSaved'
  BY DEF NoteInv, NoteSaved, NoteThere, Pulling, If, frontVars, IgnoreUpdate
<1>6. NoteEdits'
  BY DEF NoteInv, NoteEdits, NoteThere, IgnoreUpdate
<1>7. NoteDeleted'
  BY DEF NoteInv, NoteDeleted, Unsaved, Saving, If, frontVars, IgnoreUpdate
<1>. QED BY <1>1, <1>2, <1>3, <1>4, <1>5, <1>6, <1>7 DEF NoteInv

LEMMA NoteDeleteNote ==
  ASSUME NoteInv, DeleteNote
  PROVE  NoteInv'
<1>1. NoteTypeOK'
  BY NoteAssumption DEF NoteInv, NoteTypeOK, Saving, Pulling, If, Causes, frontVars,
     DeleteNote, Asks
<1>2. Written'
  BY DEF NoteInv, Written, Saving, frontVars, DeleteNote
<1>3. OneSave'
  BY DEF NoteInv, OneSave, Saving, Causes, DeleteNote
<1>4. NoteThere'
  BY DEF NoteInv, NoteThere, frontVars, DeleteNote
<1>5. NoteSaved'
  BY DEF NoteInv, NoteSaved, Unsaved, Saving, Pulling, If, frontVars, DeleteNote
<1>6. NoteEdits'
  BY DEF NoteEdits, DeleteNote
<1>7. NoteDeleted'
  BY DEF NoteDeleted, Unsaved, Saving, If, frontVars, DeleteNote
<1>. QED BY <1>1, <1>2, <1>3, <1>4, <1>5, <1>6, <1>7 DEF NoteInv

LEMMA NoteDeliverDelete ==
  ASSUME NoteInv, DeliverDelete
  PROVE  NoteInv'
<1>1. NoteTypeOK'
  BY DEF NoteInv, NoteTypeOK, DeliverDelete
<1>2. Written'
  BY DEF NoteInv, Written, Saving, DeliverDelete
<1>3. OneSave'
  BY DEF NoteInv, OneSave, Saving, Causes, frontVars, DeliverDelete
<1>4. NoteThere'
  BY DEF NoteInv, NoteThere, DeliverDelete
<1>5. NoteSaved'
  BY DEF NoteInv, NoteSaved, Unsaved, Saving, Pulling, DeliverDelete
<1>6. NoteEdits'
  BY DEF NoteInv, NoteEdits, NoteThere, DeliverDelete
<1>7. NoteDeleted'
  BY DEF NoteInv, NoteDeleted, Unsaved, Saving, DeliverDelete
<1>. QED BY <1>1, <1>2, <1>3, <1>4, <1>5, <1>6, <1>7 DEF NoteInv

LEMMA NoteStepKeeps == NoteInv /\ [NoteNext]_noteVars => NoteInv'
<1> SUFFICES ASSUME NoteInv, [NoteNext]_noteVars PROVE NoteInv'
  OBVIOUS
<1>1. ASSUME NEW i \in Slots, TimerFires(i) PROVE NoteInv'
  <2>1. CASE open # NoNote /\ Persist(i, open)
    BY <1>1, <2>1, NotePersist DEF TimerFires, NoteInv, NoteTypeOK
  <2>2. CASE open = NoNote /\ timer # NoNote /\ Persist(i, timer)
    BY <1>1, <2>2, NotePersist DEF TimerFires, NoteInv, NoteTypeOK, NoteThere
  <2>. QED BY <1>1, <2>1, <2>2 DEF TimerFires
<1>2. ASSUME NEW i \in Slots, FlushSave(i) PROVE NoteInv'
  BY <1>2, NotePersist DEF FlushSave, NoteInv, NoteTypeOK, NoteThere
<1>3. ASSUME NEW i \in Slots,
             SaveWrites(i) \/ SaveReads(i) \/ SaveFails(i) \/ SaveReturns(i)
      PROVE  NoteInv'
  BY <1>3, NoteSaveWrites, NoteSaveReads, NoteSaveFails, NoteSaveReturns
<1>4. ASSUME NEW j \in Reads, OpenNote(j) \/ Refresh(j) \/ PullReads(j) \/ PullReturns(j)
      PROVE  NoteInv'
  BY <1>4, NoteOpenNote, NoteRefresh, NotePullReads, NotePullReturns
<1>5. ASSUME NEW j \in Reads, NEW reveal \in BOOLEAN, DeliverUpdate(j, reveal) PROVE NoteInv'
  BY <1>5, NoteDeliverUpdate
<1>6. ASSUME NEW j \in Reads, NEW i \in Slots, OpenPromotes(j, i) PROVE NoteInv'
  BY <1>6, NoteOpenPromotes
<1>7. CASE UNCHANGED noteVars
  BY <1>7 DEF noteVars, NoteInv, NoteTypeOK, Written, OneSave, NoteThere, NoteSaved,
     NoteEdits, NoteDeleted, Saving, Pulling, Unsaved
<1>. QED BY <1>1, <1>2, <1>3, <1>4, <1>5, <1>6, <1>7, NoteType, NoteTimerExpires,
            NoteToolReads, NoteToolWrites, NoteToolFails, NoteIgnoreUpdate,
            NoteDeleteNote, NoteDeliverDelete DEF NoteNext

LEMMA InitNoteInv == NoteInit => NoteInv
<1> SUFFICES ASSUME NoteInit PROVE NoteInv
  OBVIOUS
<1>1. Saving = {} /\ Pulling = {}
  BY DEF NoteInit, Saving, Pulling
<1>2. NoteTypeOK
  <2>1. 0 \in Texts /\ 0 \in 0..MaxAsked
    BY NoteAssumption DEF Texts
  <2>. QED BY <2>1 DEF NoteInit, NoteTypeOK, Idle
<1>3. \A j \in Reads : pull[j].phase = "idle"
  BY DEF NoteInit, Idle
<1>4. Written
  BY <1>1, <1>3 DEF NoteInit, Written
<1>6. OneSave /\ NoteEdits
  BY <1>1 DEF NoteInit, OneSave, NoteEdits
<1>7. NoteThere /\ NoteDeleted
  BY NoteAssumption DEF NoteInit, NoteThere, NoteDeleted
<1>5. NoteSaved
  BY <1>1, NoteAssumption DEF NoteInit, NoteSaved, Unsaved
<1>. QED BY <1>2, <1>4, <1>5, <1>6, <1>7 DEF NoteInv

(* The invariant of the note holds in every reachable state.               *)
THEOREM NoteInvariance == NoteSpec => []NoteInv
BY InitNoteInv, NoteStepKeeps, PTL DEF NoteSpec

(* Every variable of the note keeps its type (NotebookWorkbench.tsx).      *)
THEOREM NoteTypeCorrect == NoteSpec => []NoteTypeOK
<1>1. NoteInv => NoteTypeOK
  BY DEF NoteInv
<1>. QED BY <1>1, NoteInvariance, PTL

(* A note that rests as saved is the row of the store, what the user typed *)
(* last is not lost, and a note that was deleted stays deleted, except for *)
(* the causes that the properties name (NotebookWorkbench.tsx).            *)
THEOREM NotebookIsSafe == NoteSpec => []NotebookSafe
<1>1. NoteInv => NotebookSafe
  <2> SUFFICES ASSUME NoteInv PROVE NotebookSafe
    OBVIOUS
  <2>1. SavedIsStored
    BY DEF NoteInv, NoteSaved, SavedIsStored, AtRest
  <2>2. EditsKept
    BY DEF NoteInv, NoteEdits, EditsKept, AtRest
  <2>3. DeletedStaysAway
    BY DEF NoteInv, NoteDeleted, DeletedStaysAway
  <2>. QED BY <2>1, <2>2, <2>3 DEF NotebookSafe
<1>. QED BY <1>1, NoteInvariance, PTL
-----------------------------------------------------------------------------
(* The composition. A step of one part leaves the variables of the others  *)
(* alone, so that a behaviour of all is one of each.                       *)
LEMMA CursorStepIs ==
  ASSUME CursorStep
  PROVE  CursorNext /\ UNCHANGED <<logVars, updVars, tableVars, noteVars, ttVars, treeVars>>
BY DEF CursorStep, Cursor, CursorNext

LEMMA LogStepIs ==
  ASSUME LogStep
  PROVE  LogNext /\ UNCHANGED <<cursorVars, updVars, tableVars, noteVars, ttVars, treeVars>>
BY DEF LogStep, Log, LogNext

LEMMA UpdateStepIs ==
  ASSUME UpdateStep
  PROVE  UpdNext /\ UNCHANGED <<cursorVars, logVars, tableVars, noteVars, ttVars, treeVars>>
BY DEF UpdateStep, Upd, UpdNext

LEMMA TableStepIs ==
  ASSUME TableStep
  PROVE  TableNext /\ UNCHANGED <<cursorVars, logVars, updVars, noteVars, ttVars, treeVars>>
BY DEF TableStep, Table, TableNext

LEMMA NoteStepIs ==
  ASSUME NoteStep
  PROVE  NoteNext /\ UNCHANGED <<cursorVars, logVars, updVars, tableVars, ttVars, treeVars>>
<1>1. CASE \E j \in Reads : \/ Note(OpenNote(j)) \/ Note(Refresh(j)) \/ Note(PullReads(j))
                            \/ Note(PullReturns(j))
                            \/ \E reveal \in BOOLEAN : Note(DeliverUpdate(j, reveal))
  BY <1>1 DEF Note, NoteNext
<1>2. ASSUME NEW i \in Slots, NEW j \in Reads, Note(OpenPromotes(j, i))
      PROVE  NoteNext /\ UNCHANGED <<cursorVars, logVars, updVars, tableVars, ttVars, treeVars>>
  BY <1>2 DEF Note, NoteNext
<1>3. CASE \E i \in Slots : \/ Note(SaveWrites(i)) \/ Note(SaveReads(i)) \/ Note(SaveFails(i))
                            \/ Note(SaveReturns(i)) \/ Note(TimerFires(i)) \/ Note(FlushSave(i))
  BY <1>3 DEF Note, NoteNext
<1>4. CASE \/ Note(Type) \/ Note(TimerExpires) \/ Note(DeleteNote) \/ Note(DeliverDelete)
           \/ Note(ToolReads) \/ Note(ToolWrites) \/ Note(ToolFails) \/ Note(IgnoreUpdate)
  BY <1>4 DEF Note, NoteNext
<1>. QED BY <1>1, <1>2, <1>3, <1>4 DEF NoteStep

LEMMA TabStepIs ==
  ASSUME TabStep
  PROVE  TabsNext
    /\ UNCHANGED <<cursorVars, logVars, updVars, tableVars, noteVars, treeVars>>
BY DEF TabStep, Term, TabsNext

LEMMA TreeStepIs ==
  ASSUME TreeStep
  PROVE  TreeNext /\ UNCHANGED <<cursorVars, logVars, updVars, tableVars, noteVars, ttVars>>
<1>1. Top \in Places
  BY DEF Places
<1>. QED BY <1>1 DEF TreeStep, Tree, TreeNext

OwnSteps ==
  /\ [CursorNext]_cursorVars
  /\ [LogNext]_logVars
  /\ [UpdNext]_updVars
  /\ [TableNext]_tableVars
  /\ [NoteNext]_noteVars
  /\ [TabsNext]_ttVars
  /\ [TreeNext]_treeVars

LEMMA PartSteps == [Next]_vars => OwnSteps
<1>. SUFFICES ASSUME [Next]_vars PROVE OwnSteps
  OBVIOUS
<1>1. CASE CursorStep
  BY <1>1, CursorStepIs DEF OwnSteps
<1>2. CASE LogStep
  BY <1>2, LogStepIs DEF OwnSteps
<1>3. CASE UpdateStep
  BY <1>3, UpdateStepIs DEF OwnSteps
<1>4. CASE TableStep
  BY <1>4, TableStepIs DEF OwnSteps
<1>5. CASE NoteStep
  BY <1>5, NoteStepIs DEF OwnSteps
<1>6. CASE TabStep
  BY <1>6, TabStepIs DEF OwnSteps
<1>7. CASE TreeStep
  BY <1>7, TreeStepIs DEF OwnSteps
<1>8. CASE UNCHANGED vars
  BY <1>8 DEF vars, OwnSteps
<1>. QED BY <1>1, <1>2, <1>3, <1>4, <1>5, <1>6, <1>7, <1>8 DEF Next

(* What the features do side by side is what each of them may do: their    *)
(* composition, which a run checks, implements all seven specifications.   *)
THEOREM PartsAreKept ==
  FairSpec => CursorSpec /\ LogSpec /\ UpdSpec /\ TableSpec /\ NoteSpec /\ TabsSpec
    /\ TreeSpec
<1>1. Init => CursorInit /\ LogInit /\ UpdInit /\ TableInit /\ NoteInit /\ TabsInit
        /\ TreeInit
  BY DEF Init
<1>. QED BY <1>1, PartSteps, PTL
     DEF OwnSteps, FairSpec, CursorSpec, LogSpec, UpdSpec, TableSpec, NoteSpec, TabsSpec,
         TreeSpec

(* In the composition, too, every variable of the seven keeps its type.    *)
THEOREM WorkbenchTypeCorrect == FairSpec => []WorkbenchTypeOK
BY PartsAreKept, CursorTypeCorrect, LogTypeCorrect, UpdTypeCorrect, TableTypeCorrect,
   NoteTypeCorrect, TabsTypeCorrect, TreeTypeCorrect, PTL DEF WorkbenchTypeOK
=============================================================================
