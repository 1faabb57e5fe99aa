---------------------------- MODULE NotebookSaves ----------------------------
(* One note of the notebook: the editor with its automatic save (src/      *)
(* frontend/src/products/notebook/NotebookWorkbench.tsx), the row in the   *)
(* store (src/internal/notebook, src/internal/store/notebook.go), and the  *)
(* agent's tool that appends to the same note (src/internal/               *)
(* workbenchtools/notebook_append.go).                                     *)
(*                                                                         *)
(* Texts are numbered in the order in which they are written, whoever      *)
(* writes them; NoNote is the text of a note that is not there.            *)
EXTENDS Naturals, FiniteSets

CONSTANTS
  NoNote, Off,  \* no note; no timer
  Slots,      \* slots for calls of saveNote in flight
  Reads,      \* slots for calls of getNote in flight
  MaxTexts,   \* bound: texts written by the user and by tools
  MaxAsked    \* bound: reads, tool calls and deletes that are asked for

ASSUME NoteAssumption ==
  /\ NoNote \notin Nat /\ Off \notin Nat \cup {NoNote}
  /\ {MaxTexts, MaxAsked} \subseteq Nat

VARIABLES
  stored,     \* the row
  tab,        \* the note has a tab, and may be edited
  open,       \* the text in openNotes
  status,     \* saveByNote: "saved", "dirty", "saving"; "none" once deleted
  timer,      \* saveTimers: Off, or the text it saves if the note is not open
  save,       \* save[i]: a call of saveNote and how far it is
  pull,       \* pull[j]: a call of getNote, how far it is and whether it opens a tab
  tool,       \* the tool has read the row and will write it
  event,      \* the event of a tool's write on its way: "none", "update"
  drop,       \* a delete has been made and the editor has yet to drop the note
  typed,      \* the user's latest text
  texts,      \* texts written so far
  asked,      \* reads, tool calls and deletes so far
  causes      \* what has come between the user and the row

noteVars == <<stored, tab, open, status, timer, save, pull, tool, event, drop, typed, texts,
              asked, causes>>

Texts == 0..MaxTexts
Idle == [phase |-> "idle"]

\* "crossed": two saves overlapped, or the note was read while it had unsaved text
\* or was typed in. "missed": the event of a tool's write was dropped or never sent,
\* or two reads crossed. "saveDue", "readDue": a save or a write, a read, that was
\* under way when the note was deleted.
Causes == {"crossed", "missed", "tool", "refused", "deleted", "saveDue", "readDue"}

NoteTypeOK ==
  /\ tab \in BOOLEAN
  /\ stored \in Texts \cup {NoNote} /\ open \in Texts \cup {NoNote}
  /\ status \in {"saved", "dirty", "saving", "none"}
  /\ timer = Off \/ timer \in Texts \cup {NoNote}
  /\ save \in [Slots -> {Idle} \cup [phase : {"sent", "written"}, text : Texts]
                          \cup [phase : {"read"}, text : Texts, result : Texts]]
  /\ pull \in [Reads -> {Idle} \cup [phase : {"sent"}, opens : BOOLEAN]
                          \cup [phase : {"read"}, opens : BOOLEAN, result : Texts]]
  /\ event \in {"none", "update"} /\ tool \in BOOLEAN /\ drop \in BOOLEAN
  /\ typed \in Texts /\ texts \in Texts
  /\ asked \in 0..MaxAsked /\ causes \subseteq Causes

NoteInit ==
  /\ stored = 0 /\ tab = TRUE /\ open = 0 /\ status = "saved"
  /\ timer = Off /\ save = [i \in Slots |-> Idle]
  /\ pull = [j \in Reads |-> Idle] /\ tool = FALSE /\ event = "none" /\ drop = FALSE
  /\ typed = 0 /\ texts = 0 /\ asked = 0 /\ causes = {}

Saving == {i \in Slots : save[i] # Idle}
Pulling == {j \in Reads : pull[j] # Idle}
If(cause, P) == IF P THEN {cause} ELSE {}

\* The note is not shown as saved, or a save of it is due or under way.
Unsaved == status \in {"dirty", "saving"} \/ timer # Off \/ Saving # {}

frontVars == <<tab, open, status, timer>>
otherVars == <<tool, event, drop, asked>>

Asks == asked < MaxAsked /\ asked' = asked + 1
-----------------------------------------------------------------------------
(* The user.                                                               *)
Type ==
  /\ tab /\ texts < MaxTexts
  /\ texts' = texts + 1 /\ typed' = texts' /\ open' = texts'
  /\ status' = "dirty" /\ timer' = texts'
  /\ causes' = causes \cup If("saveDue", stored = NoNote) \cup If("crossed", Pulling # {})
  /\ UNCHANGED <<stored, tab, save, pull, otherVars>>

\* persistNote of one text, in a free slot.
Persist(i, text) ==
  /\ i \notin Saving
  /\ save' = [save EXCEPT ![i] = [phase |-> "sent", text |-> text]]
  /\ status' = "saving"
  /\ causes' = causes \cup If("crossed", Saving # {})
  /\ UNCHANGED <<stored, otherVars, typed, texts>>

\* The timer takes the latest text, or the one it was set for when the note is
\* not open any more; the timer of a save that fell behind has none.
TimerFires(i) ==
  /\ timer # Off /\ timer' = Off
  /\ \/ open # NoNote /\ Persist(i, open)
     \/ open = NoNote /\ timer # NoNote /\ Persist(i, timer)
  /\ UNCHANGED <<tab, open, pull>>

TimerExpires ==
  /\ timer = NoNote /\ open = NoNote /\ timer' = Off
  /\ UNCHANGED <<stored, tab, open, status, save, pull, otherVars, typed, texts, causes>>

FlushSave(i) ==
  /\ tab /\ status # "saved" /\ Persist(i, open) /\ timer' = Off
  /\ UNCHANGED <<tab, open, pull>>
-----------------------------------------------------------------------------
(* A call of saveNote: the upsert, the read that follows, the answer.      *)
SaveWrites(i) ==
  /\ save[i].phase = "sent"
  /\ stored' = save[i].text
  /\ save' = [save EXCEPT ![i].phase = "written"]
  /\ UNCHANGED <<frontVars, pull, otherVars, typed, texts, causes>>

SaveReads(i) ==
  /\ save[i].phase = "written" /\ stored # NoNote
  /\ save' = [save EXCEPT ![i] = [phase |-> "read", text |-> @.text, result |-> stored]]
  /\ UNCHANGED <<stored, frontVars, pull, otherVars, typed, texts, causes>>

SaveFails(i) ==
  /\ save[i].phase \in {"sent", "written"}
  /\ save' = [save EXCEPT ![i] = Idle]
  /\ status' = "dirty" /\ causes' = causes \cup {"refused"}
  /\ UNCHANGED <<stored, tab, open, timer, pull, otherVars, typed, texts>>

\* The user has typed on while the note was saved.
Diverged_Never(i) == FALSE
Diverged(i) == open # NoNote /\ open # save[i].text

\* The save that fell behind sets the timer again.
Rearms_Not == UNCHANGED timer
Rearms == timer' = NoNote

SaveReturns(i) ==
  /\ save[i].phase = "read"
  /\ save' = [save EXCEPT ![i] = Idle]
  /\ IF Diverged(i)
       THEN status' = "dirty" /\ Rearms /\ UNCHANGED open
       ELSE status' = "saved" /\ open' = save[i].result /\ UNCHANGED timer
  /\ UNCHANGED <<stored, tab, pull, otherVars, typed, texts, causes>>
-----------------------------------------------------------------------------
(* A call of getNote: its answer takes the place of the open text,         *)
(* whatever was typed meanwhile.                                           *)
StartPull(j, opens) ==
  /\ j \notin Pulling
  /\ pull' = [pull EXCEPT ![j] = [phase |-> "sent", opens |-> opens]]
  /\ causes' = causes \cup If("crossed", Unsaved) \cup If("missed", Pulling # {})
  /\ UNCHANGED <<stored, frontVars, save, tool, drop, typed, texts>>

\* A click on the note in the sidebar, or a command with its id: openNoteById,
\* whether the note is open and dirty or not.
OpenNote(j) == Asks /\ StartPull(j, TRUE) /\ UNCHANGED event

\* The refresh of the list reads the open notes again, but for those that were
\* dirty or being saved when it began.
Refresh(j) ==
  /\ Asks /\ tab /\ status \notin {"dirty", "saving"}
  /\ StartPull(j, FALSE) /\ UNCHANGED event

PullReads(j) ==
  /\ pull[j].phase = "sent"
  /\ pull' = [pull EXCEPT ![j] =
                IF stored = NoNote THEN Idle
                ELSE [phase |-> "read", opens |-> @.opens, result |-> stored]]
  /\ UNCHANGED <<stored, frontVars, save, otherVars, typed, texts, causes>>

PullEnds(j) ==
  /\ pull[j].phase = "read"
  /\ pull' = [pull EXCEPT ![j] = Idle]
  /\ open' = pull[j].result /\ tab' = (tab \/ pull[j].opens)

PullReturns(j) ==
  /\ PullEnds(j) /\ status' = "saved"
  /\ UNCHANGED <<stored, timer, save, otherVars, typed, texts, causes>>

\* The language of a plain text becomes Markdown as it is opened, which is saved.
OpenPromotes(j, i) ==
  /\ PullEnds(j) /\ pull[j].opens /\ Persist(i, pull[j].result)
  /\ UNCHANGED timer
-----------------------------------------------------------------------------
(* The agent's tool: it reads the row and writes it with its text at the   *)
(* end, an upsert. Its event reveals the note unless the model said no.    *)
ToolReads ==
  /\ Asks /\ stored # NoNote /\ ~tool /\ tool' = TRUE
  /\ UNCHANGED <<stored, frontVars, save, pull, event, drop, typed, texts, causes>>

ToolWrites ==
  /\ tool /\ texts < MaxTexts
  /\ tool' = FALSE /\ texts' = texts + 1 /\ stored' = texts'
  /\ event' = "update" /\ causes' = causes \cup {"tool"}
  /\ UNCHANGED <<frontVars, save, pull, drop, typed, asked>>

\* An error, of the write or of the read that follows it, makes no event.
ToolFails ==
  /\ tool /\ texts < MaxTexts
  /\ tool' = FALSE
  /\ \/ UNCHANGED <<stored, texts, causes>>
     \/ /\ texts' = texts + 1 /\ stored' = texts'
        /\ causes' = causes \cup {"tool", "missed"}
  /\ UNCHANGED <<frontVars, save, pull, event, drop, typed, asked>>

\* An event that finds the open note dirty or being saved is dropped; otherwise
\* the note is read again. One that reveals the note opens it all the same.
DeliverUpdate(j, reveal) ==
  /\ event = "update" /\ event' = "none" /\ UNCHANGED asked
  /\ reveal \/ (open # NoNote /\ status \notin {"dirty", "saving"})
  /\ StartPull(j, reveal)

IgnoreUpdate ==
  /\ event = "update" /\ event' = "none"
  /\ open = NoNote \/ status \in {"dirty", "saving"}
  /\ causes' = causes \cup If("missed", open # NoNote \/ Pulling # {})
  /\ UNCHANGED <<stored, frontVars, save, pull, tool, drop, typed, texts, asked>>
-----------------------------------------------------------------------------
\* The user, or a tool, deletes the note; the editor drops it afterwards, and
\* leaves a timer as it is.
DeleteNote ==
  /\ Asks /\ stored # NoNote /\ ~drop
  /\ stored' = NoNote /\ drop' = TRUE
  /\ causes' = causes \cup {"deleted"} \cup If("saveDue", Unsaved \/ tool)
                      \cup If("readDue", \E j \in Reads : pull[j].phase = "read")
  /\ UNCHANGED <<frontVars, save, pull, tool, event, typed, texts>>

DeliverDelete ==
  /\ drop /\ drop' = FALSE
  /\ tab' = FALSE /\ open' = NoNote /\ status' = "none"
  /\ UNCHANGED <<stored, timer, save, pull, tool, event, typed, texts, asked, causes>>

NoteNext ==
  \/ Type \/ TimerExpires \/ DeleteNote \/ DeliverDelete
  \/ ToolReads \/ ToolWrites \/ ToolFails \/ IgnoreUpdate
  \/ \E i \in Slots :
       \/ TimerFires(i) \/ FlushSave(i) \/ SaveWrites(i) \/ SaveReads(i)
       \/ SaveFails(i) \/ SaveReturns(i)
  \/ \E j \in Reads :
       \/ OpenNote(j) \/ Refresh(j) \/ PullReads(j) \/ PullReturns(j)
       \/ \E reveal \in BOOLEAN : DeliverUpdate(j, reveal)
       \/ \E i \in Slots : OpenPromotes(j, i)

NoteSpec == NoteInit /\ [][NoteNext]_noteVars

\* Timers fire, calls of saveNote end, the event of a delete arrives.
SaveStep(i) ==
  TimerFires(i) \/ SaveWrites(i) \/ SaveReads(i) \/ SaveFails(i) \/ SaveReturns(i)
NoteFairness == WF_noteVars(DeliverDelete) /\ \A i \in Slots : WF_noteVars(SaveStep(i))
-----------------------------------------------------------------------------
AtRest == timer = Off /\ Saving = {} /\ Pulling = {} /\ event = "none" /\ ~drop

\* When nothing is on its way, a note in a tab that is shown as saved is the one in
\* the store, unless a tool's write was dropped or its event never came, the text of
\* a read came over what the user had typed before or meanwhile, reads crossed, two
\* saves of the note overlapped, or the note was deleted while it was being read.
SavedIsStored ==
  (/\ AtRest /\ tab /\ status = "saved"
   /\ causes \cap {"crossed", "missed", "readDue"} = {})
    => open = stored

\* The user's latest text is in the store or still shown as not saved, unless two
\* saves of the note overlapped, a tool wrote the note, the note was deleted, or it
\* was opened or read again while it had unsaved text or was typed in.
EditsKept ==
  (AtRest /\ causes \cap {"crossed", "tool", "deleted"} = {})
    => open = typed /\ (stored = typed \/ (status = "dirty" /\ "refused" \in causes))

\* A note that was deleted stays deleted, unless a save of it or a write of the tool
\* was due when it was deleted, it was just being opened, or the user typed on
\* before the editor dropped it.
DeletedStaysAway ==
  ("deleted" \in causes /\ causes \cap {"saveDue", "readDue"} = {}) => stored = NoNote

\* What automatic saving promises.
NotebookSafe == SavedIsStored /\ EditsKept /\ DeletedStaysAway

\* The note has no text to be saved later, unless a save has failed.
DirtyIsSaved == status # "dirty" \/ "refused" \in causes
=============================================================================
