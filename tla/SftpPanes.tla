------------------------------ MODULE SftpPanes ------------------------------
(* The workspace of the SFTP product                                       *)
(* (src/frontend/src/products/sftp/SftpWorkbench.tsx): tabs with a session *)
(* each, one file list for all of them, and the text editor. Its functions *)
(* await the back end and go on with the tab, the path and the text of the *)
(* rendering they were made in.                                            *)
(*                                                                         *)
(* Sessions are to different servers, with one text file each that all     *)
(* directories lead to, and are numbered as they are opened; this is also  *)
(* the order of their tabs. The restore at start-up has ended. Downloads,  *)
(* uploads and bookmarks are left out; an empty list has no entries.       *)
EXTENDS Naturals

CONSTANTS
  MaxRemotes,  \* bound: sessions opened
  MaxStored,   \* bound: tabs that were restored
  Dirs,        \* paths of directories
  Jobs,        \* slots for calls of the back end
  Closers,     \* slots for functions that close tabs
  MaxTexts,    \* bound: texts typed
  MaxClicks,   \* bound: functions that the user, or the transfer queue, begins
  Nil          \* no session, place, job, prompt or editor

Remotes == 1..MaxRemotes
Places == Remotes \X Dirs
Texts == 0..MaxTexts
Closes == [gone : SUBSET Remotes, left : SUBSET Remotes, list : SUBSET Remotes,
           active : 0..MaxRemotes \cup {Nil}]

ASSUME SftpPanesAssumption ==
  /\ MaxRemotes \in Nat /\ MaxStored \in 0..MaxRemotes /\ MaxTexts \in Nat
  /\ MaxClicks \in Nat
  /\ Nil \notin 0..MaxRemotes /\ Nil \notin Closes

VARIABLES
  remotes,     \* sessions that are open in the back end
  opened,      \* sessions opened so far
  paneTabs,    \* tabs: a tab is known by its session
  activeId,    \* activeTabId
  cwd,         \* cwd[s]: remotePath of the tab of s
  connecting,  \* the connect under way: its session, 0 until that is open
  closer,      \* closer[c]: a close under way, with the list it will set
  listing,     \* remoteFiles: the place it was read from, Nil when emptied
  job,         \* job[j]: a call in flight, with what its function has captured
  prompt,      \* the prompt of a rename, a delete or a new folder
  editor,      \* the text editor
  saving,      \* textSaving
  file,        \* file[s]: the text on the server
  typed,       \* texts typed so far
  late,        \* a call begun at another place outlived the last move
  mixed,       \* the editor's calls have met (see Mixes)
  clicks,      \* functions begun so far
  lost         \* sessions whose tab was lost or came back when functions met

paneVars == <<remotes, opened, paneTabs, activeId, cwd, connecting, closer, listing, job,
              prompt, editor, saving, file, typed, late, mixed, clicks, lost>>
tabVars == <<remotes, opened, paneTabs, activeId, cwd, connecting, closer, lost>>
listVars == <<listing, prompt, late>>
editVars == <<editor, saving, file, typed, mixed>>

\* activeTab and its remotePath.
PlaceOf(list, id, paths) == IF id \in list THEN <<id, paths[id]>> ELSE Nil
Here == PlaceOf(paneTabs, activeId, cwd)

Listings == [kind : {"fresh", "soft", "after"}, at : Places]
Mutations == [kind : {"mutate"}, at : Places, of : Places]
Reads == [kind : {"read"}, at : Places, of : Places, phase : {"sent"}]
           \cup [kind : {"read"}, at : Places, of : Places, phase : {"read"}, text : Texts]
Saves == [kind : {"save"}, at : Places, text : Texts, phase : {"sent", "written"}]
Mounts == [at : Places \cup {Nil}, text : Texts, saving : BOOLEAN]

PanesTypeOK ==
  /\ remotes \subseteq Remotes /\ opened \in 0..MaxRemotes
  /\ paneTabs \subseteq Remotes /\ activeId \in Remotes \cup {Nil}
  /\ cwd \in [Remotes -> Dirs]
  /\ connecting \in 0..MaxRemotes \cup {Nil}
  /\ closer \in [Closers -> {Nil} \cup Closes]
  /\ listing \in Places \cup {Nil}
  /\ job \in [Jobs -> {Nil} \cup Listings \cup Mutations \cup Reads \cup Saves]
  /\ prompt \in {Nil} \cup [at : Places, of : Places, busy : BOOLEAN]
  /\ editor \in {Nil} \cup [of : Remotes, text : Texts, dirty : BOOLEAN, mount : Mounts]
  /\ saving \in BOOLEAN /\ file \in [Remotes -> Texts] /\ typed \in Texts
  /\ late \in BOOLEAN /\ mixed \in BOOLEAN /\ lost \subseteq Remotes
  /\ clicks \in 0..MaxClicks

List(kind, at) == [kind |-> kind, at |-> at]

\* n tabs were restored, and the last of them is listed.
PanesInit ==
  \E n \in 0..MaxStored, home \in Dirs :
    /\ remotes = 1..n /\ opened = n /\ paneTabs = 1..n
    /\ activeId = (IF n = 0 THEN Nil ELSE n) /\ cwd = [s \in Remotes |-> home]
    /\ connecting = Nil /\ closer = [c \in Closers |-> Nil]
    /\ listing = Nil /\ prompt = Nil
    /\ job = [j \in Jobs |-> IF n > 0 /\ j = CHOOSE k \in Jobs : TRUE
                             THEN List("fresh", <<n, home>>) ELSE Nil]
    /\ editor = Nil /\ saving = FALSE /\ file = [s \in Remotes |-> 0] /\ typed = 0
    /\ late = FALSE /\ mixed = FALSE /\ lost = {} /\ clicks = 0

Running(kinds) == {j \in Jobs : job[j] # Nil /\ job[j].kind \in kinds}
Free == {j \in Jobs : job[j] = Nil}
Click == clicks < MaxClicks /\ clicks' = clicks + 1
NewJob == CHOOSE j \in Free : TRUE

\* A tab has its own loading key: its pane gives way to the spinner while its
\* own first listing of a place is in flight, and to no other one.
PaneShown ==
  /\ Here # Nil /\ prompt = Nil /\ editor = Nil
  /\ \A j \in Running({"fresh"}) : job[j].at[1] # activeId
Mutating == Running({"mutate", "after"}) # {}
-----------------------------------------------------------------------------
(* Whatever changes the active tab or its path renders, and the effect on  *)
(* the two empties the list and reads it anew.                             *)
Outlived ==
  \/ prompt # Nil \/ Running({"fresh", "soft", "mutate", "after", "save"}) # {}
  \/ \E j \in Running({"read"}) : job[j].of # job[j].at

Moved_TabOnly(old, new) == old # new /\ (old = Nil \/ new = Nil \/ old[1] # new[1])
Moved(old, new) == old # new

MoveTo(list, id, paths) ==
  LET new == PlaceOf(list, id, paths) IN
  /\ paneTabs' = list /\ activeId' = id /\ cwd' = paths
  /\ IF ~Moved(Here, new) THEN UNCHANGED <<listing, job, late>>
     ELSE /\ listing' = Nil /\ late' = Outlived
          /\ IF new = Nil THEN UNCHANGED job
             ELSE Free # {} /\ job' = [job EXCEPT ![NewJob] = List("fresh", new)]
  /\ UNCHANGED <<prompt, editVars>>

SelectTab(s) ==
  /\ s \in paneTabs /\ prompt = Nil /\ editor = Nil /\ Click /\ MoveTo(paneTabs, s, cwd)
  /\ UNCHANGED <<remotes, opened, connecting, closer, lost>>

Navigate(d) ==
  /\ PaneShown /\ Click /\ MoveTo(paneTabs, activeId, [cwd EXCEPT ![activeId] = d])
  /\ UNCHANGED <<remotes, opened, connecting, closer, lost>>
-----------------------------------------------------------------------------
(* connectHost, one at a time.                                             *)
OnlyTabs(vars) == UNCHANGED <<paneTabs, activeId, cwd, listing, job, prompt, editVars, late, vars>>

ConnectHost ==
  /\ connecting = Nil /\ opened < MaxRemotes /\ connecting' = 0
  /\ Click /\ OnlyTabs(<<remotes, opened, closer, lost>>)

ConnectOpens ==
  /\ connecting = 0
  /\ opened' = opened + 1 /\ remotes' = remotes \cup {opened'} /\ connecting' = opened'
  /\ OnlyTabs(<<closer, lost, clicks>>)

\* A session whose home cannot be read has no tab, and nobody closes it.
ConnectFails ==
  /\ connecting # Nil /\ connecting' = Nil
  /\ lost' = IF connecting = 0 THEN lost ELSE lost \cup {connecting}
  /\ OnlyTabs(<<remotes, opened, closer, clicks>>)

ConnectEnds(home) ==
  /\ connecting \in Remotes /\ connecting' = Nil
  /\ MoveTo(paneTabs \cup {connecting}, connecting, [cwd EXCEPT ![connecting] = home])
  /\ UNCHANGED <<remotes, opened, closer, clicks, lost>>
-----------------------------------------------------------------------------
(* closeTab, closeOtherTabs and closeAllTabs close sessions one by one and *)
(* then set the list they have computed from the one they were made with.  *)
StartClose(c, gone, active) ==
  /\ closer[c] = Nil /\ gone # {}
  /\ closer' = [closer EXCEPT ![c] =
                  [gone |-> gone, left |-> gone, list |-> paneTabs, active |-> active]]
  /\ Click /\ OnlyTabs(<<remotes, opened, connecting, lost>>)

Unchanged == 0
Last(list) == IF list = {} THEN Nil ELSE CHOOSE s \in list : \A r \in list : r <= s

CloseTab(c, s) ==
  s \in paneTabs /\ StartClose(c, {s}, IF activeId = s THEN Last(paneTabs \ {s}) ELSE Unchanged)
CloseOtherTabs(c, s) == s \in paneTabs /\ StartClose(c, paneTabs \ {s}, s)
CloseAllTabs(c) == StartClose(c, paneTabs, Nil)

CloseRemote(c, s) ==
  /\ closer[c] # Nil /\ s \in closer[c].left
  /\ remotes' = remotes \ {s} /\ closer' = [closer EXCEPT ![c].left = @ \ {s}]
  /\ OnlyTabs(<<opened, connecting, clicks, lost>>)

\* The tabs that came or went meanwhile go or come back.
CloseEnds(c) ==
  LET next == closer[c].list \ closer[c].gone IN
  /\ closer[c] # Nil /\ closer[c].left = {}
  /\ MoveTo(next, IF closer[c].active = Unchanged THEN activeId ELSE closer[c].active, cwd)
  /\ lost' = IF paneTabs = closer[c].list THEN lost
             ELSE lost \cup (paneTabs \ next) \cup (next \ paneTabs)
  /\ closer' = [closer EXCEPT ![c] = Nil]
  /\ UNCHANGED <<remotes, opened, connecting, clicks>>
-----------------------------------------------------------------------------
(* The list. An answer takes the place of what is there.                   *)
Job(j, new) == job' = [job EXCEPT ![j] = new]

\* The refresh button, and the queue of transfers when it is idle.
SoftRefresh ==
  /\ Here # Nil /\ Free # {} /\ Click /\ Job(NewJob, List("soft", Here))
  /\ UNCHANGED <<tabVars, listVars, editVars>>

ListReturns(j) ==
  /\ j \in Running({"fresh", "soft", "after"})
  /\ listing' = job[j].at /\ Job(j, Nil)
  /\ UNCHANGED <<tabVars, prompt, late, editVars, clicks>>

\* A call of a session that was closed fails; its answer may have left before.
ListFails(j) ==
  /\ j \in Running({"fresh", "soft", "after"}) /\ Job(j, Nil)
  /\ UNCHANGED <<tabVars, listVars, editVars, clicks>>
-----------------------------------------------------------------------------
(* openMkdir, openRename, openDelete and runMutating, made in one          *)
(* rendering: a prompt that was opened while another operation ran does    *)
(* nothing when it is confirmed.                                           *)
OpenPrompt ==
  /\ PaneShown
  /\ \E of \in {Here, listing} \ {Nil} : prompt' = [at |-> Here, of |-> of, busy |-> Mutating]
  /\ Click
  /\ UNCHANGED <<tabVars, listing, job, late, editVars>>

CancelPrompt ==
  /\ prompt # Nil /\ prompt' = Nil
  /\ UNCHANGED <<tabVars, listing, job, late, editVars, clicks>>

ConfirmPrompt ==
  /\ prompt # Nil /\ prompt' = Nil
  /\ IF prompt.busy THEN UNCHANGED job
     ELSE Free # {} /\ Job(NewJob, [kind |-> "mutate", at |-> prompt.at, of |-> prompt.of])
  /\ UNCHANGED <<tabVars, listing, late, editVars, clicks>>

\* What follows lists the place of the prompt, not the one on the screen.
MutateReturns(j) ==
  /\ j \in Running({"mutate"}) /\ job[j].at[1] \in remotes /\ Job(j, List("after", job[j].at))
  /\ UNCHANGED <<tabVars, listVars, editVars, clicks>>

MutateFails(j) ==
  /\ j \in Running({"mutate"}) /\ Job(j, Nil)
  /\ UNCHANGED <<tabVars, listVars, editVars, clicks>>
-----------------------------------------------------------------------------
(* The text editor. It knows its path, and not its session.                *)
EditorBusy == Running({"read", "save"}) # {}
Mixes(cause) == mixed' = (mixed \/ EditorBusy \/ cause)

StartRead(of) ==
  /\ Here # Nil /\ Free # {} /\ Click
  /\ Job(NewJob, [kind |-> "read", at |-> Here, of |-> of, phase |-> "sent"])
  /\ UNCHANGED <<tabVars, listVars, editor, saving, file, typed>>

OpenTextEditor ==
  PaneShown /\ listing # Nil /\ StartRead(listing) /\ mixed' = EditorBusy
ReloadTextEditor == editor # Nil /\ ~saving /\ StartRead(Here) /\ Mixes(FALSE)

TextReads(j) ==
  /\ j \in Running({"read"}) /\ job[j].phase = "sent" /\ job[j].at[1] \in remotes
  /\ Job(j, [kind |-> "read", at |-> job[j].at, of |-> job[j].of, phase |-> "read",
             text |-> file[job[j].at[1]]])
  /\ UNCHANGED <<tabVars, listVars, editVars, clicks>>

\* Ctrl+S is bound when the editor is mounted, to the functions of that rendering.
TextReturns(j) ==
  /\ j \in Running({"read"}) /\ job[j].phase = "read" /\ Job(j, Nil)
  /\ editor' = [of |-> job[j].at[1], text |-> job[j].text, dirty |-> FALSE,
                mount |-> IF editor # Nil THEN editor.mount
                          ELSE [at |-> Here, text |-> job[j].text, saving |-> saving]]
  /\ UNCHANGED <<tabVars, listVars, saving, file, typed, mixed, clicks>>

TextFails(j) ==
  /\ j \in Running({"read"}) /\ job[j].phase = "sent" /\ Job(j, Nil)
  /\ UNCHANGED <<tabVars, listVars, editVars, clicks>>

Type ==
  /\ editor # Nil /\ typed < MaxTexts /\ typed' = typed + 1
  /\ editor' = [editor EXCEPT !.text = typed', !.dirty = TRUE]
  /\ Mixes(FALSE) /\ UNCHANGED <<tabVars, listVars, job, saving, file, clicks>>

CloseEditor ==
  /\ editor # Nil /\ editor' = Nil
  /\ UNCHANGED <<tabVars, listVars, job, saving, file, typed, mixed, clicks>>

StartSave(at, text) ==
  /\ at # Nil /\ Free # {} /\ Click /\ saving' = TRUE
  /\ Job(NewJob, [kind |-> "save", at |-> at, text |-> text, phase |-> "sent"])
  /\ Mixes(text # editor.text \/ at[1] # editor.of)
  /\ UNCHANGED <<tabVars, listing, prompt, editor, file, typed>>

SaveButton ==
  editor # Nil /\ editor.dirty /\ ~saving /\ StartSave(Here, editor.text) /\ UNCHANGED late
SaveKey ==
  /\ editor # Nil /\ ~editor.mount.saving /\ StartSave(editor.mount.at, editor.mount.text)
  /\ late' = (late \/ editor.mount.at # Here)

SaveWrites(j) ==
  /\ j \in Running({"save"}) /\ job[j].phase = "sent" /\ job[j].at[1] \in remotes
  /\ file' = [file EXCEPT ![job[j].at[1]] = job[j].text]
  /\ Job(j, [job[j] EXCEPT !.phase = "written"])
  /\ UNCHANGED <<tabVars, listVars, editor, saving, typed, mixed, clicks>>

\* The new revision makes whatever the editor holds clean.
SaveReturns(j) ==
  /\ j \in Running({"save"}) /\ job[j].phase = "written"
  /\ Job(j, List("soft", job[j].at)) /\ saving' = FALSE
  /\ editor' = IF editor = Nil THEN Nil ELSE [editor EXCEPT !.dirty = FALSE]
  /\ UNCHANGED <<tabVars, listVars, file, typed, mixed, clicks>>

SaveFails(j) ==
  /\ j \in Running({"save"}) /\ job[j].phase = "sent" /\ Job(j, Nil) /\ saving' = FALSE
  /\ UNCHANGED <<tabVars, listVars, editor, file, typed, mixed, clicks>>
-----------------------------------------------------------------------------
PanesNext ==
  \/ ConnectHost \/ ConnectOpens \/ ConnectFails
  \/ SoftRefresh \/ OpenPrompt \/ CancelPrompt \/ ConfirmPrompt
  \/ OpenTextEditor \/ ReloadTextEditor \/ Type \/ CloseEditor \/ SaveButton \/ SaveKey
  \/ \E d \in Dirs : Navigate(d) \/ ConnectEnds(d)
  \/ \E s \in Remotes : SelectTab(s)
  \/ \E c \in Closers :
       \/ CloseAllTabs(c) \/ CloseEnds(c)
       \/ \E s \in Remotes : CloseTab(c, s) \/ CloseOtherTabs(c, s) \/ CloseRemote(c, s)
  \/ \E j \in Jobs :
       \/ ListReturns(j) \/ ListFails(j) \/ MutateReturns(j) \/ MutateFails(j)
       \/ TextReads(j) \/ TextReturns(j) \/ TextFails(j)
       \/ SaveWrites(j) \/ SaveReturns(j) \/ SaveFails(j)

PanesSpec == PanesInit /\ [][PanesNext]_paneVars
-----------------------------------------------------------------------------
\* The list on the screen is that of the active tab and its path, unless a call
\* that began elsewhere was still in flight, or a prompt open, at the last move.
ListingIsHere == listing # Nil /\ ~late => listing = Here

\* With the same exception a file is opened, renamed or deleted in the session
\* and the directory in whose list it was chosen.
ActsWhereChosen ==
  /\ prompt # Nil /\ ~late => prompt.of = prompt.at
  /\ \A j \in Running({"mutate", "read"}) : ~late => job[j].of = job[j].at

\* A text that the editor shows as saved is the file of the session it was read
\* from, unless the editor's calls overlapped each other or the typing, or a save
\* took another tab, or Ctrl+S an older text.
CleanIsSaved == editor # Nil /\ ~editor.dirty /\ ~mixed => file[editor.of] = editor.text

\* An open session has a tab, or a function that will give it one or close it,
\* and a tab an open session or one that closes it, but for what was lost.
RemotesHaveTabs ==
  /\ \A s \in remotes :
       \/ s \in paneTabs \/ connecting = s \/ s \in lost
       \/ \E c \in Closers : closer[c] # Nil /\ s \in closer[c].left
  /\ \A s \in paneTabs \ (remotes \cup lost) :
       \E c \in Closers : closer[c] # Nil /\ s \in closer[c].gone

\* What the SFTP workspace promises to its user.
PanesSafe == ListingIsHere /\ ActsWhereChosen /\ CleanIsSaved /\ RemotesHaveTabs
=============================================================================
