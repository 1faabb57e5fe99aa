---------------------------- MODULE WorkspaceSaves ----------------------------
(* The stored workspace of a product: the tabs that come back when the     *)
(* program is started again. The front end saves a snapshot of the tabs    *)
(* 400 ms after their last change (stores/workspacePersist.ts); the back   *)
(* end writes a temporary file and renames it (internal/store/workspace.go) *)
(* and answers two saves at once if the first is slow. The database        *)
(* product reads its workspace before anything is shown. The SFTP product, *)
(* and the terminal product like it, reads it when it is mounted, opens a  *)
(* session for every tab and then sets the list; the effect that saves has *)
(* been scheduled by then, with the list as it is: empty.                  *)
(*                                                                         *)
(* A workspace is the set of its tabs; {} stands for no tab and for the    *)
(* default tab of the database product. The active tab, order and paths    *)
(* are left out, and so is the migration from localStorage. Of two tabs to *)
(* the same host only one is counted.                                      *)
EXTENDS Naturals

CONSTANTS
  Items,      \* tabs that may be stored
  Slots,      \* saves in flight at a time
  MaxInputs,  \* bound: starts of the program, tabs opened or closed by the user
  None, Torn  \* no file, no timer; a file that was cut off

ASSUME WorkspaceSavesAssumption ==
  /\ MaxInputs \in Nat
  /\ None # Torn /\ \A list \in SUBSET Items : list # None /\ list # Torn

VARIABLES
  product,  \* "database" or "sftp"
  alive,    \* the program runs
  disk,     \* <product>.json
  tmp,      \* <product>.json.tmp
  timer,    \* the debounce timer: the snapshot it holds
  saves,    \* saves[s]: a call of SaveWorkspace
  open,     \* the tabs of the front end
  closing,  \* closeTab: the list it has read, while the session is closed
  reading,  \* the restore: tabs left to open, tabs opened
  owed,     \* tabs that the user has opened and not closed, but for the known losses
  spoiled,  \* a save has failed or met another, and none has succeeded alone since
  inputs

wsVars == <<product, alive, disk, tmp, timer, saves, open, closing, reading, owed,
            spoiled, inputs>>

Snapshots == SUBSET Items
NoSave == [pc |-> "idle"]
NotReading == [pc |-> "off", left |-> {}, got |-> {}]

\* What JSON.parse of the file yields; a file that is absent or cut off yields null.
Stored == IF disk \in {None, Torn} THEN {} ELSE disk

Saving == {s \in Slots : saves[s] # NoSave}

SaveType ==
  [pc : {"sent", "opened", "filled", "undo"}, snap : Snapshots,
   fd : {"none", "tmp", "file", "gone"}, alone : BOOLEAN]
ReadingType ==
  [pc : {"off", "hosts", "load", "open", "done"}, left : Snapshots, got : Snapshots]

WsTypeOK ==
  /\ product \in {"database", "sftp"} /\ alive \in BOOLEAN
  /\ disk \in {None, Torn} \cup Snapshots /\ tmp \in {None, Torn} \cup Snapshots
  /\ timer \in {None} \cup Snapshots
  /\ saves \in [Slots -> {NoSave} \cup SaveType]
  /\ open \subseteq Items /\ owed \subseteq Items
  /\ closing \in {None} \cup [gone : Items, list : Snapshots]
  /\ reading \in ReadingType
  /\ spoiled \in BOOLEAN
  /\ inputs \in 0..MaxInputs

WsInit ==
  /\ product \in {"database", "sftp"}
  /\ disk \in Snapshots \cup {None} /\ tmp = None
  /\ alive = FALSE /\ timer = None /\ saves = [s \in Slots |-> NoSave]
  /\ open = {} /\ closing = None /\ reading = NotReading
  /\ owed = Stored /\ spoiled = FALSE /\ inputs = 0
-----------------------------------------------------------------------------
Schedule_KeepsFirst(list) == timer' = IF timer = None THEN list ELSE timer

\* Each change of the list sets the timer anew, with the list of now.
Schedule(list) == timer' = list

\* The tabs that the program still has or can still read.
Unread == reading.pc \in {"off", "hosts", "load"}
Reached == open \cup reading.left \cup reading.got \cup (IF Unread THEN Stored ELSE {})

\* The saving is behind: what the user has may not be in the file.
Behind == timer # None \/ Saving # {} \/ reading.pc = "open"

UserActs == inputs < MaxInputs /\ inputs' = inputs + 1

\* The program comes up: the shell of the database product waits for the
\* workspace; the SFTP product is mounted, and both its effects run.
StartProgram ==
  /\ ~alive /\ UserActs
  /\ alive' = TRUE
  /\ IF product = "sftp"
     THEN Schedule({}) /\ reading' = [NotReading EXCEPT !.pc = "hosts"]
     ELSE reading' = [NotReading EXCEPT !.pc = "load"] /\ UNCHANGED timer
  /\ UNCHANGED <<product, disk, tmp, saves, open, closing, owed, spoiled>>

\* listShellHosts answers, or fails: then nothing is read.
HostsListed ==
  /\ reading.pc = "hosts"
  /\ reading' = [reading EXCEPT !.pc = "load"]
  /\ UNCHANGED <<product, alive, disk, tmp, timer, saves, open, closing, owed,
                 spoiled, inputs>>

HostsFail ==
  /\ reading.pc = "hosts"
  /\ reading' = [reading EXCEPT !.pc = "done"]
  /\ owed' = owed \cap open
  /\ UNCHANGED <<product, alive, disk, tmp, timer, saves, open, closing,
                 spoiled, inputs>>

\* The snapshot arrives. The database product shows it and saves it again; the
\* SFTP product begins to open its sessions.
TakeSnapshot(snap) ==
  /\ reading.pc = "load"
  /\ IF product = "database"
     THEN /\ open' = snap /\ Schedule(snap)
          /\ reading' = [reading EXCEPT !.pc = "done"]
     ELSE /\ reading' = [reading EXCEPT !.pc = IF snap = {} THEN "done" ELSE "open",
                                        !.left = snap]
          /\ UNCHANGED <<open, timer>>
  /\ owed' = owed \cap (open \cup snap)
  /\ UNCHANGED <<product, alive, disk, tmp, saves, closing, spoiled, inputs>>

LoadReads == TakeSnapshot(Stored)

\* loadWorkspaceSnapshot takes an error for an empty workspace.
LoadFails == TakeSnapshot({})

\* The sessions of the stored tabs are opened one after the other; what fails
\* is skipped.
RestoreOpens(i) ==
  /\ reading.pc = "open" /\ i \in reading.left
  /\ reading' = [reading EXCEPT !.left = @ \ {i}, !.got = @ \cup {i}]
  /\ UNCHANGED <<product, alive, disk, tmp, timer, saves, open, closing, owed,
                 spoiled, inputs>>

RestoreSkips(i) ==
  /\ reading.pc = "open" /\ i \in reading.left
  /\ reading' = [reading EXCEPT !.left = @ \ {i}]
  /\ owed' = owed \ ({i} \ open)
  /\ UNCHANGED <<product, alive, disk, tmp, timer, saves, open, closing,
                 spoiled, inputs>>

\* setTabs(restored): tabs that the user opened meanwhile are replaced.
RestoreEnds ==
  /\ reading.pc = "open" /\ reading.left = {}
  /\ reading' = [NotReading EXCEPT !.pc = "done"]
  /\ IF reading.got = {}
     THEN UNCHANGED <<open, timer, owed>>
     ELSE /\ open' = reading.got /\ Schedule(reading.got)
          /\ owed' = owed \cap reading.got
  /\ UNCHANGED <<product, alive, disk, tmp, saves, closing, spoiled, inputs>>
-----------------------------------------------------------------------------
TabsShown == alive /\ (product = "sftp" \/ reading.pc = "done")

\* connectHost has opened a session, or a tab of the database product is added.
AddTab(i) ==
  /\ TabsShown /\ UserActs
  /\ i \notin open \cup owed
  /\ open' = open \cup {i} /\ Schedule(open \cup {i}) /\ owed' = owed \cup {i}
  /\ UNCHANGED <<product, alive, disk, tmp, saves, closing, reading, spoiled>>

\* closeTab of the SFTP product closes the session first; the database product
\* takes the tab out at once.
RemoveTab(i) ==
  /\ TabsShown /\ UserActs
  /\ closing = None /\ i \in open
  /\ owed' = owed \ {i}
  /\ IF product = "sftp"
     THEN closing' = [gone |-> i, list |-> open] /\ UNCHANGED <<open, timer>>
     ELSE open' = open \ {i} /\ Schedule(open \ {i}) /\ UNCHANGED closing
  /\ UNCHANGED <<product, alive, disk, tmp, saves, reading, spoiled>>

\* It then writes the list that it read before: a tab that came up since is lost.
RemoveEnds ==
  /\ closing # None
  /\ LET next == closing.list \ {closing.gone}
     IN  /\ open' = next /\ Schedule(next)
         /\ owed' = owed \cap (next \cup (Reached \ open))
  /\ closing' = None
  /\ UNCHANGED <<product, alive, disk, tmp, saves, reading, spoiled, inputs>>
-----------------------------------------------------------------------------
\* The timer sends the snapshot. A save that meets another one shares its
\* temporary file.
TimerFires(s) ==
  /\ timer # None /\ saves[s] = NoSave
  /\ saves' = [r \in Slots |->
                 IF r = s
                 THEN [pc |-> "sent", snap |-> timer, fd |-> "none", alone |-> Saving = {}]
                 ELSE IF r \in Saving THEN [saves[r] EXCEPT !.alone = FALSE] ELSE NoSave]
  /\ timer' = None
  /\ spoiled' = (spoiled \/ Saving # {})
  /\ UNCHANGED <<product, alive, disk, tmp, open, closing, reading, owed, inputs>>

\* While the stored workspace is unread, a save takes the place of tabs that
\* nobody has seen. (file is evaluated after the step.)
OverwritesUnread ==
  owed' = IF Unread
          THEN owed \cap (open \cup IF disk' \in {None, Torn} THEN {} ELSE disk')
          ELSE owed

SaveAt(s, pc) == saves[s] # NoSave /\ saves[s].pc = pc

\* os.WriteFile opens the temporary file and empties it.
SaveOpens(s) ==
  /\ SaveAt(s, "sent")
  /\ tmp' = Torn
  /\ saves' = [saves EXCEPT ![s].pc = "opened", ![s].fd = "tmp"]
  /\ UNCHANGED <<product, alive, disk, timer, open, closing, reading, owed, spoiled,
                 inputs>>

\* The bytes go to the file it has opened, whatever its name is by now.
SaveFills(s) ==
  /\ SaveAt(s, "opened")
  /\ saves' = [saves EXCEPT ![s].pc = "filled"]
  /\ tmp' = IF saves[s].fd = "tmp" THEN saves[s].snap ELSE tmp
  /\ disk' = IF saves[s].fd = "file" THEN saves[s].snap ELSE disk
  /\ OverwritesUnread
  /\ UNCHANGED <<product, alive, timer, open, closing, reading, spoiled, inputs>>

\* The names of the files that the other saves write to change.
Renamed(s, fd) ==
  [r \in Slots |-> IF r = s \/ r \notin Saving THEN NoSave
                   ELSE [saves[r] EXCEPT !.fd = fd[@]]]
AfterRename == [none |-> "none", tmp |-> "file", file |-> "gone", gone |-> "gone"]
AfterRemove == [none |-> "none", tmp |-> "gone", file |-> "file", gone |-> "gone"]

SaveRenames(s) ==
  /\ SaveAt(s, "filled") /\ tmp # None
  /\ disk' = tmp /\ tmp' = None
  /\ saves' = Renamed(s, AfterRename)
  /\ spoiled' = (spoiled /\ ~saves[s].alone)
  /\ OverwritesUnread
  /\ UNCHANGED <<product, alive, timer, open, closing, reading, inputs>>

\* The rename fails, as when another save has renamed the file before; the
\* temporary file is removed, which may be that of a third.
RenameFails(s) ==
  /\ SaveAt(s, "filled")
  /\ saves' = [saves EXCEPT ![s].pc = "undo"]
  /\ spoiled' = TRUE
  /\ UNCHANGED <<product, alive, disk, tmp, timer, open, closing, reading, owed,
                 inputs>>

SaveRemoves(s) ==
  /\ SaveAt(s, "undo")
  /\ tmp' = None
  /\ saves' = Renamed(s, AfterRemove)
  /\ UNCHANGED <<product, alive, disk, timer, open, closing, reading, owed, spoiled,
                 inputs>>

\* The directory, the open or the write fails; the front end drops the error.
WriteFails(s) ==
  /\ SaveAt(s, "sent") \/ SaveAt(s, "opened")
  /\ saves' = [saves EXCEPT ![s] = NoSave]
  /\ spoiled' = TRUE
  /\ UNCHANGED <<product, alive, disk, tmp, timer, open, closing, reading, owed,
                 inputs>>

\* The program is quit or killed: nothing is saved on the way out.
ProgramEnds ==
  /\ alive /\ alive' = FALSE
  /\ timer' = None /\ saves' = [s \in Slots |-> NoSave]
  /\ open' = {} /\ closing' = None /\ reading' = NotReading
  /\ owed' = IF Behind \/ spoiled THEN owed \cap Stored ELSE owed
  /\ UNCHANGED <<product, disk, tmp, spoiled, inputs>>

WsNext ==
  \/ StartProgram \/ ProgramEnds
  \/ HostsListed \/ HostsFail \/ LoadReads \/ LoadFails \/ RestoreEnds \/ RemoveEnds
  \/ \E i \in Items : RestoreOpens(i) \/ RestoreSkips(i) \/ AddTab(i) \/ RemoveTab(i)
  \/ \E s \in Slots :
       \/ TimerFires(s) \/ SaveOpens(s) \/ SaveFills(s) \/ WriteFails(s)
       \/ SaveRenames(s) \/ RenameFails(s) \/ SaveRemoves(s)

WsSpec == WsInit /\ [][WsNext]_wsVars
-----------------------------------------------------------------------------
\* A tab that the user has opened and not closed is shown, about to be
\* restored, or stored for the next start, also when the program ends at any
\* moment: but for the losses that the steps above name, it comes back. A tab
\* is lost only if the list or the file of tabs could not be read, its session
\* could not be opened, a restore or a close wrote over it, the program ended
\* while the saving was behind, or the empty list was saved before the stored
\* one was read.
NothingForgotten == \A i \in owed : i \in Reached

\* When nothing is due, the file holds the tabs that are shown: the snapshot
\* that was saved last is the latest one, and tabs that were closed stay closed.
RestIsStored ==
  alive /\ ~Behind /\ ~spoiled /\ (product = "sftp" \/ reading.pc = "done")
    => Stored = open

\* The file is whole unless two saves shared a temporary file.
FileIsWhole == disk = Torn => spoiled

WorkspaceSafe == NothingForgotten /\ RestIsStored /\ FileIsWhole
=============================================================================
