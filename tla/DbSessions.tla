----------------------------- MODULE DbSessions -----------------------------
(* One database session and the calls that use it at the same time:        *)
(* SwitchDatabase, which opens a connection between two critical sections, *)
(* Close, the statements that take the session's handle and those that ask *)
(* DBForDatabase for one (src/internal/session, query, data, meta), and    *)
(* the table tabs of the workbench that send them.                         *)
EXTENDS Naturals

CONSTANTS
  Callers,     \* bound calls of the front end and tool calls, each a goroutine
  Databases,   \* databases of the connection
  DefaultDb,   \* the one of PostgreSQL that is used when none is named
  MaxHandles,  \* bound: connections opened
  MaxCalls     \* bound: calls made

\* The empty string, which names no database.
NoName == ""

ASSUME DbSessionsAssumption ==
  /\ DefaultDb \in Databases /\ NoName \notin Databases
  /\ MaxHandles \in Nat \ {0}
  /\ MaxCalls \in Nat

VARIABLES
  dbType,    \* "postgresql", or "mysql" for the engines that share one handle
  session,   \* "none", "open" (in the table), "closed"
  database,  \* Session.Database: a database, or NoName
  handle,    \* Session.DB
  handles,   \* handles[h]: the database it is connected to, NoName for none yet
  openOnes,  \* handles not closed yet
  tab,       \* tab[d]: none, fresh (the session is on d for it), away
  caller,    \* caller[c]: the call under way, or the last one
  calls      \* number of calls made

dbVars == <<dbType, session, database, handle, handles, openOnes, tab, caller, calls>>

NoCall == [pc |-> "idle", want |-> DefaultDb, h |-> 0, own |-> FALSE, raced |-> FALSE]

DbTypeOK ==
  /\ dbType \in {"postgresql", "mysql"}
  /\ session \in {"none", "open", "closed"}
  /\ database \in Databases \cup {NoName}
  /\ handle \in 0..MaxHandles
  /\ handles \in [1..MaxHandles -> Databases \cup {NoName}]
  /\ openOnes \subseteq 1..MaxHandles
  /\ tab \in [Databases -> {"none", "fresh", "away"}]
  /\ caller \in [Callers ->
       [pc : {"idle", "switching", "tunnelRead", "opened", "got", "mayUse",
              "mustOpen", "has", "ran", "failed"},
        want : Databases, h : 0..MaxHandles, own : BOOLEAN, raced : BOOLEAN]]
  /\ calls \in 0..MaxCalls

\* The tabs of an earlier session of the connection stay.
DbInit ==
  /\ dbType \in {"postgresql", "mysql"}
  /\ session = "none" /\ database = NoName /\ handle = 0
  /\ handles = [h \in 1..MaxHandles |-> NoName] /\ openOnes = {}
  /\ tab \in [Databases -> {"none", "away"}]
  /\ caller = [c \in Callers |-> NoCall]
  /\ calls = 0

Postgres == dbType = "postgresql"
Unused == {h \in 1..MaxHandles : handles[h] = NoName}
NewHandle == CHOOSE h \in Unused : TRUE

SetCall(c, rec) == caller' = [caller EXCEPT ![c] = rec]
At(c, pc) == caller[c].pc = pc
-----------------------------------------------------------------------------
(* The session.                                                            *)
\* The adapter of PostgreSQL chooses a database when it is given none.
Connected(name) == IF name = NoName THEN DefaultDb ELSE name

\* A connect names no database, a reconnect the one of the session before; the
\* session keeps the name that it was given.
OpenSession(name) ==
  /\ session = "none"
  /\ session' = "open" /\ database' = name
  /\ handle' = NewHandle /\ openOnes' = {NewHandle}
  /\ handles' = [handles EXCEPT ![NewHandle] = Connected(name)]
  /\ tab' = [d \in Databases |-> IF d = name THEN "fresh" ELSE tab[d]]
  /\ UNCHANGED <<dbType, caller, calls>>

CloseSession ==
  /\ session = "open"
  /\ session' = "closed"
  /\ openOnes' = openOnes \ {handle}
  /\ UNCHANGED <<dbType, database, handle, handles, tab, caller, calls>>

ClearDatabase ==
  /\ session = "open" /\ ~Postgres /\ database # NoName
  /\ database' = NoName
  /\ UNCHANGED <<dbType, session, handle, handles, openOnes, tab, caller, calls>>
-----------------------------------------------------------------------------
(* SwitchDatabase.                                                         *)
StartCall(c, d, pc) ==
  /\ caller[c].pc \in {"idle", "ran", "failed"}
  /\ session # "none" /\ calls < MaxCalls
  /\ calls' = calls + 1
  /\ SetCall(c, [NoCall EXCEPT !.want = d, !.pc = pc])

\* The tab of d is opened by the answer; the other tabs lose the session.
TabsAfter(d) ==
  [e \in Databases |-> IF e = d THEN "fresh"
                       ELSE IF tab[e] = "none" THEN "none" ELSE "away"]

SwitchBegins(c, d) ==
  /\ StartCall(c, d, IF session = "closed" THEN "failed"
                     ELSE IF database = d THEN "ran" ELSE "switching")
  /\ tab' = IF session = "open" /\ database = d THEN TabsAfter(d) ELSE tab
  /\ UNCHANGED <<dbType, session, database, handle, handles, openOnes>>

\* MySQL, SQLite and Redis: only the name changes; a closed session is no error.
SwitchRenames(c) ==
  /\ At(c, "switching") /\ ~Postgres
  /\ database' = IF session = "open" THEN caller[c].want ELSE database
  /\ tab' = TabsAfter(caller[c].want)
  /\ SetCall(c, [caller[c] EXCEPT !.pc = "ran"])
  /\ UNCHANGED <<dbType, session, handle, handles, openOnes, calls>>

SwitchReadsTunnel(c) ==
  /\ At(c, "switching") /\ Postgres
  /\ SetCall(c, [caller[c] EXCEPT !.pc = IF session = "open" THEN "tunnelRead" ELSE "failed"])
  /\ UNCHANGED <<dbType, session, database, handle, handles, openOnes, tab, calls>>

\* ad.Open, outside the lock: it may fail, and it may succeed after a Close
\* (without an SSH tunnel nothing ties it to the session).
OpenOwn(c, from, to) ==
  /\ At(c, from)
  /\ \/ /\ Unused # {} /\ session = "open"
        /\ handles' = [handles EXCEPT ![NewHandle] = caller[c].want]
        /\ openOnes' = openOnes \cup {NewHandle}
        /\ SetCall(c, [caller[c] EXCEPT !.pc = to, !.h = NewHandle, !.own = TRUE])
     \/ /\ SetCall(c, [caller[c] EXCEPT !.pc = "failed"])
        /\ UNCHANGED <<handles, openOnes>>
  /\ UNCHANGED <<dbType, session, database, handle, tab, calls>>

SwitchOpens(c) == OpenOwn(c, "tunnelRead", "opened")

Raced(c) == [d \in Callers |->
  IF d = c THEN [caller[c] EXCEPT !.pc = "ran", !.own = FALSE]
  ELSE IF At(d, "mayUse") THEN [caller[d] EXCEPT !.raced = TRUE] ELSE caller[d]]

SwitchSwaps_KeepsOld(c) ==
  /\ At(c, "opened") /\ session = "open"
  /\ handle' = caller[c].h /\ database' = caller[c].want
  /\ tab' = TabsAfter(caller[c].want) /\ caller' = Raced(c)
  /\ UNCHANGED <<dbType, session, handles, openOnes, calls>>

SwitchSwaps(c) ==
  /\ At(c, "opened") /\ session = "open"
  /\ handle' = caller[c].h /\ database' = caller[c].want
  /\ openOnes' = openOnes \ {handle}
  /\ tab' = TabsAfter(caller[c].want) /\ caller' = Raced(c)
  /\ UNCHANGED <<dbType, session, handles, calls>>

SwitchTooLate(c) ==
  /\ At(c, "opened") /\ session = "closed"
  /\ openOnes' = openOnes \ {caller[c].h}
  /\ SetCall(c, [caller[c] EXCEPT !.pc = "failed", !.own = FALSE])
  /\ UNCHANGED <<dbType, session, database, handle, handles, tab, calls>>
-----------------------------------------------------------------------------
(* Statements. A table tab reads and commits through the session's handle; *)
(* meta data and exports ask for a handle on their database.               *)
TabCall(c, d) ==
  /\ tab[d] # "none"
  /\ StartCall(c, d, IF session = "open" THEN "got" ELSE "failed")
  /\ UNCHANGED <<dbType, session, database, handle, handles, openOnes, tab>>

\* DBForDatabase compares the name without the lock...
UsesOwnHandle(d) == Postgres /\ database # d

MetaCall(c, d) ==
  /\ StartCall(c, d, IF session # "open" THEN "failed"
                     ELSE IF UsesOwnHandle(d) THEN "mustOpen" ELSE "mayUse")
  /\ UNCHANGED <<dbType, session, database, handle, handles, openOnes, tab>>

\* ... and reads the handle after it.
TakesHandle(c) ==
  /\ At(c, "got") \/ At(c, "mayUse")
  /\ SetCall(c, [caller[c] EXCEPT !.h = handle, !.pc = "has",
       !.raced = caller[c].raced \/ (At(c, "got") /\ tab[caller[c].want] = "away")])
  /\ UNCHANGED <<dbType, session, database, handle, handles, openOnes, tab, calls>>

MetaOpens(c) == OpenOwn(c, "mustOpen", "has")

\* A handle that a switch or a close has closed is an error; release closes
\* the caller's own one.
Runs(c) ==
  /\ At(c, "has")
  /\ SetCall(c, [caller[c] EXCEPT !.own = FALSE,
       !.pc = IF caller[c].h \in openOnes THEN "ran" ELSE "failed"])
  /\ openOnes' = IF caller[c].own THEN openOnes \ {caller[c].h} ELSE openOnes
  /\ UNCHANGED <<dbType, session, database, handle, handles, tab, calls>>
-----------------------------------------------------------------------------
DbNext ==
  \/ CloseSession \/ ClearDatabase
  \/ \E name \in Databases \cup {NoName} : OpenSession(name)
  \/ \E c \in Callers :
       \/ SwitchRenames(c) \/ SwitchReadsTunnel(c) \/ SwitchOpens(c)
       \/ SwitchSwaps(c) \/ SwitchTooLate(c)
       \/ TakesHandle(c) \/ MetaOpens(c) \/ Runs(c)
       \/ \E d \in Databases : SwitchBegins(c, d) \/ TabCall(c, d) \/ MetaCall(c, d)

DbSpec == DbInit /\ [][DbNext]_dbVars
-----------------------------------------------------------------------------
\* An open connection belongs to the open session or to the call that opened
\* it: no interleaving of switches, statements and Close leaks one, and the
\* session never holds a closed one.
HandlesOwned ==
  /\ session = "open" => handle \in openOnes
  /\ \A h \in openOnes :
       \/ session = "open" /\ h = handle
       \/ \E c \in Callers : caller[c].own /\ caller[c].h = h
  /\ \A c, d \in Callers : caller[c].own /\ caller[d].own /\ caller[c].h = caller[d].h => c = d

\* The handle of a PostgreSQL session is on the database that the session names;
\* as long as none was named, on the one that the adapter chooses.
NameMatchesHandle ==
  Postgres /\ session = "open" => handles[handle] = Connected(database)

\* Where a statement of PostgreSQL ran when it was meant for another database:
\* it came from a tab the session has been switched away from, or of an earlier
\* session (QueryTablePage and ApplyMutations of PostgreSQL ignore the database
\* they are given), or a switch fell between the comparison and the handle in
\* DBForDatabase.
RanAstray(c) ==
  /\ Postgres /\ At(c, "ran") /\ caller[c].h # 0
  /\ handles[caller[c].h] # caller[c].want
AstrayHasCause == \A c \in Callers : RanAstray(c) => caller[c].raced

\* What a session promises to concurrent callers.
DbSessionsSafe == HandlesOwned /\ NameMatchesHandle /\ AstrayHasCause
=============================================================================
