------------------------------- MODULE HttpTree -------------------------------
(* The tree of saved HTTP requests: its folders and requests in the store  *)
(* (src/internal/store/http_layout.go, http_folder.go, http_request.go)    *)
(* and the lists of them from which the sidebar computes its commands      *)
(* (src/frontend/src/products/httpapi/).                                   *)
(*                                                                         *)
(* The order of siblings is left out: a layout says who is whose child.    *)
EXTENDS Naturals, FiniteSets, SequencesExt

CONSTANTS
  Folders, Apis,   \* ids of folders and of saved requests
  Commands,        \* slots for commands of the sidebar
  Top, Absent,     \* the root of the tree; the place of what is not stored
  NoCommand,
  MaxAnswers,      \* bound: lists that are read and not yet delivered
  MaxCommands      \* bound: commands and calls of the tool, one that overlaps another counts twice

Nodes == Folders \cup Apis

ASSUME TreeAssumption ==
  /\ Folders \cap Apis = {} /\ {Top, Absent} \cap Nodes = {} /\ Top # Absent
  /\ IsFiniteSet(Folders) /\ NoCommand \notin Commands
  /\ {MaxAnswers, MaxCommands} \subseteq Nat

VARIABLES
  parent,    \* parent[n]: the parent that the row of n names
  unused,    \* ids that no row has had
  listed,     \* what the sidebar's lists say of it
  due,       \* the lists that a refresh has asked for and not read
  answers,   \* the lists on their way to the sidebar
  command,   \* command[c]: the command in slot c
  issued,     \* commands so far, those that overlap another twice
  crossed    \* a folder was moved by a dialog, or while a layout was checked

treeVars == <<parent, unused, listed, due, answers, command, issued, crossed>>
rowVars == <<parent, unused>>
listVars == <<listed, due, answers>>

Kinds == {Folders, Apis}
Places == Folders \cup {Top}
Trees == [Nodes -> Places \cup {Absent}]

(* A command under way. Drops keep the lists they were made from, deletes  *)
(* what is left to do; alone: the lists were right and no other command    *)
(* has written since.                                                      *)
Drops == [kind : {"drop"}, pc : {"sent", "read", "done", "refused"},
          node : Nodes, to : Places, seen : Trees, read : Trees, alone : BOOLEAN]
Saves == [kind : {"save"}, pc : {"open", "sent", "done"},
          node : Nodes, to : Places \cup {Absent}, alone : BOOLEAN]
Deletes == [kind : {"delete"}, pc : {"sent", "apis", "folders", "done"},
            node : {Top}, ids : SUBSET Nodes, left : SUBSET Nodes, alone : BOOLEAN]

TreeTypeOK ==
  /\ parent \in Trees /\ listed \in Trees /\ unused \subseteq Nodes
  /\ due \subseteq Kinds
  /\ answers \subseteq UNION {[kind : {k}, list : [k -> Places \cup {Absent}]] : k \in Kinds}
  /\ command \in [Commands -> {NoCommand} \cup Drops \cup Saves \cup Deletes]
  /\ issued \in 0..MaxCommands /\ crossed \in BOOLEAN

TreeInit ==
  /\ unused \in SUBSET Nodes
  /\ parent = [n \in Nodes |-> IF n \in unused THEN Absent ELSE Top]
  /\ listed = parent /\ due = {} /\ answers = {}
  /\ command = [c \in Commands |-> NoCommand] /\ issued = 0
  /\ crossed = FALSE

In(tree) == {n \in Nodes : tree[n] # Absent}

(* n and the folders above it, as far as the tree has them: what is in     *)
(* every set with n that has the parent of each of its folders.            *)
UpClosed(tree, set) == \A f \in set : tree[f] \in Folders => tree[f] \in set
Upward(tree, n) ==
  {f \in Folders : \A set \in SUBSET Folders :
                     UpClosed(tree, set) /\ {n} \cap Folders \subseteq set => f \in set}

\* isHTTPFolderDescendant, and isFolderDescendant of the sidebar.
IsFolderDescendant(tree, f, target) == f \in Folders /\ f \in Upward(tree, target)
-----------------------------------------------------------------------------
(* The store. Whoever writes a row disturbs the other commands.            *)
Disturbed(c) ==
  [d \in Commands |->
     IF d # c /\ command[d] # NoCommand
       THEN [command[d] EXCEPT !.alone = FALSE] ELSE command[d]]

Turns(c, rec) == command' = [command EXCEPT ![c] = rec]

Writes(c, tree, rec) ==
  /\ parent' = tree
  /\ command' = [(IF tree # parent THEN Disturbed(c) ELSE command) EXCEPT ![c] = rec]
  /\ UNCHANGED <<unused, listVars, issued>>

\* The tool of the agent writes the whole row, its folder unchecked; the event
\* makes the sidebar list both kinds.
ToolSavesRequest(a, p) ==
  /\ \A c \in Commands : command[c] # NoCommand /\ command[c].kind = "save" => command[c].node # a
  /\ parent' = [parent EXCEPT ![a] = p] /\ unused' = unused \ {a}
  /\ command' = IF parent' # parent THEN Disturbed(NoCommand) ELSE command
  /\ issued < MaxCommands /\ issued' = issued + 1
  /\ due' = Kinds /\ UNCHANGED <<listed, answers, crossed>>
-----------------------------------------------------------------------------
(* The sidebar's lists. Refreshes asked for before one is read are merged. *)
ListReads(k) ==
  /\ k \in due /\ Cardinality(answers) < MaxAnswers
  /\ answers' = answers \cup {[kind |-> k, list |-> [n \in k |-> parent[n]]]}
  /\ due' = due \ {k} /\ UNCHANGED <<rowVars, listed, command, issued, crossed>>

ListReturns(answer) ==
  /\ answer \in answers /\ answers' = answers \ {answer}
  /\ listed' = [n \in Nodes |-> IF n \in answer.kind THEN answer.list[n] ELSE listed[n]]
  /\ UNCHANGED <<rowVars, due, command, issued, crossed>>

(* A dialog that is open keeps the user from everything else.              *)
StartsCommand(c, rec) ==
  /\ command[c] = NoCommand
  /\ \A d \in Commands : command[d] # NoCommand => command[d].pc # "open"
  /\ Turns(c, rec) /\ unused' = unused \ {rec.node}
  /\ issued' = issued + (IF \A d \in Commands : command[d] = NoCommand THEN 1 ELSE 2)
  /\ issued' <= MaxCommands /\ UNCHANGED <<parent, listVars, crossed>>

EndsCommand(c, refresh) ==
  /\ Turns(c, NoCommand) /\ due' = due \cup refresh
  /\ UNCHANGED <<rowVars, listed, answers, issued, crossed>>
-----------------------------------------------------------------------------
(* Dragging a node into a folder, or among its siblings: the layout is     *)
(* that of the whole tree, as the lists have it.                           *)
ShownPlaces == {Top} \cup (In(listed) \cap Folders)

Drop(c, n, p) ==
  /\ n \in In(listed) /\ p \in ShownPlaces /\ ~IsFolderDescendant(listed, n, p)
  /\ StartsCommand(c, [kind |-> "drop", pc |-> "sent", node |-> n, to |-> p, seen |-> listed,
                read |-> listed, alone |-> listed = parent])

\* What buildHttpApiTreeLayout says after the drop: the children of the root and
\* of the folders listed. A node whose folder is not listed is in no list.
Layout(d) ==
  LET after == [d.seen EXCEPT ![d.node] = d.to]
      found == {n \in Nodes : after[n] = Top \/ after[n] \in In(d.seen)}
  IN  [n \in found |-> after[n]]

DropReads(c) ==
  /\ command[c] # NoCommand /\ command[c].kind = "drop" /\ command[c].pc = "sent"
  /\ Turns(c, [command[c] EXCEPT !.pc = "read", !.read = parent])
  /\ UNCHANGED <<rowVars, listVars, issued, crossed>>

(* The map of the layout is walked in an order of Go's choosing; the check *)
(* of a folder sees the parents before it in that order as they will be.   *)
AcceptedIn(order, layout, read) ==
  \A i \in DOMAIN order :
    LET before == {order[j] : j \in 1..(i - 1)}
        now == [n \in Nodes |-> IF n \in DOMAIN layout /\ layout[n] \in before
                                  THEN layout[n] ELSE read[n]]
    IN  \A n \in DOMAIN layout :
          layout[n] = order[i] => ~IsFolderDescendant(now, n, order[i])

\* One transaction, on rows read before it: a row that is gone, or a folder that
\* would go below itself, undoes it all.
ApplyLayout(c) ==
  /\ command[c] # NoCommand /\ command[c].kind = "drop" /\ command[c].pc = "read"
  /\ LET d == command[c]
         layout == Layout(d)
         parents == {layout[n] : n \in DOMAIN layout}
         known == DOMAIN layout \cup (parents \ {Top}) \subseteq In(d.read)
         there == DOMAIN layout \subseteq In(parent)
     IN  \E order \in SetToSeqs(parents) :
           IF known /\ there /\ AcceptedIn(order, layout, d.read)
             THEN /\ Writes(c, [n \in Nodes |-> IF n \in DOMAIN layout THEN layout[n] ELSE parent[n]],
                            [d EXCEPT !.pc = "done", !.read = d.seen])
                  /\ crossed' = (crossed \/ \E f \in Folders \ DOMAIN layout :
                                               parent[f] \notin {d.read[f], Absent})
             ELSE /\ Writes(c, parent, [d EXCEPT !.pc = "refused", !.read = d.seen])
                  /\ UNCHANGED crossed

\* onTreeDrop lists the requests again, and not the folders.
DropEnds(c) ==
  /\ command[c] # NoCommand /\ command[c].kind = "drop" /\ command[c].pc \in {"done", "refused"}
  /\ EndsCommand(c, IF command[c].pc = "done" THEN {Apis} ELSE {})
-----------------------------------------------------------------------------
(* The dialog of a folder, new or to be renamed, and new requests: a row   *)
(* is written whole, its parent as the lists had it at first, and made     *)
(* again if it was deleted. The id of a new row is chosen here.            *)
OpenFolderDialog(c, f) ==
  /\ f \in Folders \cap In(listed)
  /\ StartsCommand(c, [kind |-> "save", pc |-> "open", node |-> f, to |-> listed[f],
                       alone |-> TRUE])

OpenNewFolderDialog(c, f, p) ==
  /\ f \in Folders \cap unused /\ p \in ShownPlaces
  /\ StartsCommand(c, [kind |-> "save", pc |-> "open", node |-> f, to |-> p, alone |-> TRUE])

CreateRequest(c, a, p) ==
  /\ a \in Apis \cap unused /\ p \in ShownPlaces
  /\ StartsCommand(c, [kind |-> "save", pc |-> "sent", node |-> a, to |-> p, alone |-> TRUE])

LeaveDialog(c, pc) ==
  /\ command[c] # NoCommand /\ command[c].kind = "save" /\ command[c].pc = "open"
  /\ Turns(c, IF pc = "sent" THEN [command[c] EXCEPT !.pc = "sent"] ELSE NoCommand)
  /\ UNCHANGED <<rowVars, listVars, issued, crossed>>

SaveRow(c) ==
  /\ command[c] # NoCommand /\ command[c].kind = "save" /\ command[c].pc = "sent"
  /\ LET s == command[c]
         after == [parent EXCEPT ![s.node] = s.to]
     IN  /\ Writes(c, after, [s EXCEPT !.pc = "done"])
         /\ crossed' = (crossed \/ (after # parent /\ \E f \in Folders : after[f] = s.node))

SaveEnds(c) ==
  /\ command[c] # NoCommand /\ command[c].kind = "save" /\ command[c].pc = "done"
  /\ EndsCommand(c, Kinds)
-----------------------------------------------------------------------------
(* Deletes: of one folder, or of what is selected, which the sidebar       *)
(* completes with what its lists show below; the store does so again.      *)
Below(tree, roots) == {n \in Nodes : Upward(tree, n) \cap roots # {} \/ tree[n] \in roots}

Delete(ids) ==
  [kind |-> "delete", pc |-> "sent", node |-> Top, ids |-> ids, left |-> {}, alone |-> TRUE]

DeleteFolder(c, f) == f \in In(listed) \cap Folders /\ StartsCommand(c, Delete({f}))

BatchDelete(c, selected) ==
  /\ selected # {} /\ selected \subseteq In(listed)
  /\ LET folders == Below(listed, selected \cap Folders) \cap Folders
         inside == {a \in Apis : listed[a] \in folders}
     IN  StartsCommand(c, Delete(folders \cup (selected \cap Apis) \cup inside))

ExpandDescendants_Roots(roots) == roots
ExpandDescendants(roots) == Below(parent, roots) \cap Folders

DeleteReads(c) ==
  /\ command[c] # NoCommand /\ command[c].kind = "delete" /\ command[c].pc = "sent"
  /\ LET ids == command[c].ids
         all == (ids \cap Apis) \cup ExpandDescendants(ids \cap Folders)
     IN  Turns(c, [command[c] EXCEPT !.pc = "apis", !.ids = all, !.left = all, !.alone = TRUE])
  /\ UNCHANGED <<rowVars, listVars, issued, crossed>>

\* One statement each, and no transaction: the requests in a folder, for every
\* folder, then the requests selected, then the folders.
DeleteRows(c, n) ==
  /\ command[c] # NoCommand /\ command[c].kind = "delete" /\ command[c].pc \in {"apis", "folders"}
  /\ LET d == command[c]
         left == d.left \ {n}
         rows == IF d.pc = "apis" /\ n \in Folders THEN {a \in Apis : parent[a] = n} ELSE {n}
         folders == d.ids \cap Folders
     IN  /\ n \in d.left /\ (n \in Folders \/ d.left \cap Folders = {})
         /\ Writes(c, [m \in Nodes |-> IF m \in rows THEN Absent ELSE parent[m]],
              CASE left # {} -> [d EXCEPT !.left = left]
                [] left = {} /\ d.pc = "apis" /\ folders # {}
                     -> [d EXCEPT !.pc = "folders", !.left = folders]
                [] OTHER -> [d EXCEPT !.pc = "done", !.left = {}])
  /\ UNCHANGED crossed

\* The error ends the command where it is, and nothing is listed again.
DeleteFails(c) ==
  /\ command[c] # NoCommand /\ command[c].kind = "delete" /\ command[c].pc # "done"
  /\ EndsCommand(c, {})

DeleteEnds(c) ==
  /\ command[c] # NoCommand /\ command[c].kind = "delete" /\ command[c].pc = "done"
  /\ EndsCommand(c, Kinds)

(* The program ends between two statements; the next one lists the tree.   *)
RestartTree ==
  /\ command' = [c \in Commands |-> NoCommand] /\ listed' = parent
  /\ due' = {} /\ answers' = {} /\ UNCHANGED <<rowVars, issued, crossed>>

TreeNext ==
  \/ RestartTree
  \/ \E a \in Apis, p \in Places : ToolSavesRequest(a, p)
  \/ \E k \in Kinds : ListReads(k)
  \/ \E answer \in answers : ListReturns(answer)
  \/ \E c \in Commands :
       \/ DropReads(c) \/ ApplyLayout(c) \/ DropEnds(c) \/ SaveRow(c) \/ SaveEnds(c)
       \/ DeleteReads(c) \/ DeleteFails(c) \/ DeleteEnds(c)
       \/ \E pc \in {"sent", "left"} : LeaveDialog(c, pc)
       \/ \E n \in Nodes : DeleteRows(c, n)
       \/ \E n \in Nodes, p \in Places : Drop(c, n, p)
       \/ \E f \in Folders : OpenFolderDialog(c, f) \/ DeleteFolder(c, f)
       \/ \E f \in Folders, p \in Places : OpenNewFolderDialog(c, f, p)
       \/ \E a \in Apis, p \in Places : CreateRequest(c, a, p)
       \/ \E selected \in SUBSET Nodes : BatchDelete(c, selected)

TreeSpec == TreeInit /\ [][TreeNext]_treeVars
-----------------------------------------------------------------------------
\* No stored folder is above itself: the sidebar would show neither it nor what
\* is in it. Layouts alone are checked for it, against rows read earlier: nothing
\* is promised once a folder of which a layout does not speak was moved since. A
\* dialog writes the parent that the lists had when it was opened: nothing is
\* promised once it has so moved a folder that has folders in it.
NoCycle ==
  ~crossed => \A f \in Folders :
                parent[f] # Absent => ~IsFolderDescendant(parent, f, parent[f])

\* A drop made from lists that are right, which no other command crosses, is not
\* refused, moves its node, and leaves every other in its place. (The rows of a
\* cycle would be refused.)
DropsLand ==
  \A c \in Commands :
    LET d == command[c]
    IN  d # NoCommand /\ d.kind = "drop" /\ d.alone /\ ~crossed =>
          /\ d.pc # "refused"
          /\ d.pc = "done" => parent = [d.seen EXCEPT ![d.node] = d.to]

\* A delete that no other command crosses leaves nothing in what it deleted.
DeletesAreWhole ==
  \A c \in Commands :
    LET d == command[c]
    IN  d # NoCommand /\ d.kind = "delete" /\ d.alone /\ d.pc = "done" =>
          \A n \in Nodes : n \in d.ids => parent[n] = Absent /\ n \notin {parent[m] : m \in Nodes}

\* What the tree of saved requests promises.
TreeSafe == NoCycle /\ DropsLand /\ DeletesAreWhole
=============================================================================
