--------------------------- MODULE ContainerUpdate ---------------------------
(* UpdateContainerSpec (src/internal/docker/update.go): a container gets    *)
(* new ports and mounts by being stopped, renamed, replaced by a new one   *)
(* under its name and removed, with an undo for each step that fails. The  *)
(* Docker daemon is external; the program may die between two calls.       *)
CONSTANTS Old, New    \* the two containers

ASSUME ContainersDiffer == Old # New

VARIABLES
  step,         \* the Docker call that comes next, or how the update ended
  wasRunning,   \* the container ran when it was inspected
  autoRemove,   \* it was made with --rm: the daemon removes it when it stops
  named,        \* containers that exist under the name
  aside,        \* containers that exist under the temporary name
  running,      \* containers that run
  expired,      \* the 180 seconds of the context are over
  unclean       \* a call of an undo has failed, or one that failed had worked

updVars == <<step, wasRunning, autoRemove, named, aside, running, expired, unclean>>
daemonVars == <<named, aside, running>>

Exists == named \cup aside
Undo == {"renameBack", "removeNew", "startOld"}

UpdTypeOK ==
  /\ step \in {"stop", "rename", "create", "start", "remove", "ok", "failed", "dead"} \cup Undo
  /\ named \subseteq {Old, New} /\ aside \subseteq {Old} /\ running \subseteq Exists
  /\ {wasRunning, autoRemove, expired, unclean} \subseteq BOOLEAN

UpdInit ==
  /\ step = "stop"
  /\ wasRunning \in BOOLEAN /\ autoRemove \in BOOLEAN
  /\ named = {Old} /\ aside = {} /\ running = IF wasRunning THEN {Old} ELSE {}
  /\ expired = FALSE /\ unclean = FALSE
-----------------------------------------------------------------------------
(* A call of the Docker API: it works, it fails, or the context ends while  *)
(* it runs, and then it may have worked although it reports an error.      *)
Call(at, possible, effect, next, otherwise) ==
  /\ step = at
  /\ \/ /\ ~expired /\ possible /\ effect /\ step' = next
        /\ UNCHANGED <<expired, unclean>>
     \/ /\ UNCHANGED daemonVars /\ step' = otherwise
        /\ expired' \in {expired, TRUE}
        /\ unclean' = (unclean \/ at \in Undo)
     \/ /\ ~expired /\ possible /\ effect /\ step' = otherwise
        /\ expired' = TRUE /\ unclean' = TRUE
  /\ UNCHANGED <<wasRunning, autoRemove>>

Becomes(next) ==
  step' = next /\ UNCHANGED <<wasRunning, autoRemove, daemonVars, expired, unclean>>

Starts(c) == running' = running \cup {c} /\ UNCHANGED <<named, aside>>

\* The result of the stop is not looked at, nor is it called without need.
StopOld ==
  \/ wasRunning /\ Call("stop", TRUE,
                        /\ running' = running \ {Old} /\ UNCHANGED aside
                        /\ named' = IF autoRemove THEN named \ {Old} ELSE named,
                        "rename", "rename")
  \/ ~wasRunning /\ step = "stop" /\ Becomes("rename")

\* Every undo ends with starting the old container again, if it ran.
AfterUndo_Forgets == "failed"
AfterUndo == IF wasRunning THEN "startOld" ELSE "failed"

RenameOld ==
  Call("rename", Old \in named, named' = named \ {Old} /\ aside' = {Old} /\ UNCHANGED running,
       "create", AfterUndo)

CreateNew ==
  Call("create", named = {}, named' = {New} /\ UNCHANGED <<aside, running>>,
       IF wasRunning THEN "start" ELSE "remove", "renameBack")

StartNew == Call("start", New \in Exists, Starts(New), "remove", "removeNew")

RemoveOld ==
  Call("remove", Old \in Exists,
       named' = named \ {Old} /\ aside' = aside \ {Old} /\ running' = running \ {Old},
       "ok", "ok")
-----------------------------------------------------------------------------
(* The undo of a step goes on whatever its calls report.                   *)
RemoveNew ==
  Call("removeNew", New \in Exists,
       named' = named \ {New} /\ running' = running \ {New} /\ UNCHANGED aside,
       "renameBack", "renameBack")

RenameBack ==
  Call("renameBack", Old \in aside /\ named = {},
       named' = {Old} /\ aside' = {} /\ UNCHANGED running,
       AfterUndo, AfterUndo)

StartOld == Call("startOld", Old \in Exists, Starts(Old), "failed", "failed")

ProgramDies ==
  step \notin {"ok", "failed", "dead"} /\ Becomes("dead")

UpdNext ==
  \/ StopOld \/ RenameOld \/ CreateNew \/ StartNew \/ RemoveOld
  \/ RemoveNew \/ RenameBack \/ StartOld \/ ProgramDies

UpdSpec == UpdInit /\ [][UpdNext]_updVars
-----------------------------------------------------------------------------
\* Wherever the update stops, the old container is still there, or the new one
\* is and runs if the old one ran. (A container made with --rm is lost when the
\* step after its stop fails: the daemon has removed it.)
ContainerKept ==
  \/ Old \in Exists
  \/ New \in named /\ (wasRunning => New \in running)
  \/ autoRemove /\ wasRunning

\* A failure whose undo worked leaves everything as it was, and a success leaves
\* the new container under the name, running if the old one ran.
UpdateIsAllOrNothing ==
  /\ (step = "failed" /\ ~unclean /\ ~(autoRemove /\ wasRunning))
       => named = {Old} /\ aside = {} /\ running = (IF wasRunning THEN {Old} ELSE {})
  /\ step = "ok" => New \in named /\ (wasRunning => New \in running)

\* What rebuilding a container promises.
UpdateSafe == ContainerKept /\ UpdateIsAllOrNothing
=============================================================================
