------------------------------ MODULE McpServers ------------------------------
(***************************************************************************)
(* The MCP capability of one process, redpanda/mcp, for one server id: the *)
(* registry servers.json, the control plane (application.py, approval.py,  *)
(* console.py), the tools a Session loaded,                                *)
(* and the cache of connections of client_manager.py.  The process runs    *)
(* tasks that interleave where the code awaits; another process of the     *)
(* product may change the registry at any time (Elsewhere).                *)
(*                                                                         *)
(* The tools belong to one Session, whose tool calls are tasks.  Proposals *)
(* and their revisions are in McpApprovals: here an approved change may be *)
(* executed whenever the management lock is free.                          *)
(***************************************************************************)
EXTENDS Naturals, Sequences, FiniteSets, McpRegistry

CONSTANTS
  Tasks,          \* asyncio tasks of the process
  MaxConnections  \* bound: connections open at the same time

ASSUME McpAssumption == MaxConnections \in Nat

VARIABLES
  loaded,      \* the snapshot of the server's tools the Session works with, or None
  connections, \* what each open connection was opened for, and its owner task
  cache,       \* _connections: number of the cached connection, or 0
  mcpTask,     \* where each task is
  managerOpen, \* ~_closed
  proof,       \* the configuration test_and_enable has enabled, or 0
  mishap       \* what went wrong outside: "none", "broken", or "foreign"

registryVars == <<server, installs, proof, mishap>>

mcpVars == <<registryVars, loaded, connections, cache, mcpTask, managerOpen>>

MIdle == [pc |-> "idle", why |-> "none", rec |-> None, tool |-> 0, conn |-> 0,
          wanted |-> TRUE]

Ended == [rev |-> 0, config |-> 0]

McpInit ==
  /\ server = None
  /\ installs = <<>>
  /\ proof = 0
  /\ mishap = "none"
  /\ loaded = None
  /\ connections = [c \in 1 .. MaxConnections |-> Ended]
  /\ cache = 0
  /\ mcpTask = [t \in Tasks |-> MIdle]
  /\ managerOpen = TRUE

\* Another process manages the same registry; only its own connections are invalidated.
\* Bound: see OwnerEnds.
Elsewhere ==
  /\ mishap = "none"
  /\ \/ \E enabled \in BOOLEAN : Upserted(enabled)
     \/ server # None /\ \E value \in BOOLEAN : EnabledAs(value)
     \/ server # None /\ Removed
  /\ mishap' = "foreign"
  /\ UNCHANGED <<proof, loaded, connections, cache, mcpTask, managerOpen>>

-------------------------------------------------------------------------------
\* Connections

Opening(t) == mcpTask[t].pc \in {"open", "publish"}

Alive(c) == c # 0 /\ connections[c].config # 0

\* The owner task is gone.  What is cached keeps the revision it is cached under.
Gone(cs) == [c \in DOMAIN connections |->
               IF c \in cs THEN [connections[c] EXCEPT !.config = 0] ELSE connections[c]]

\* close: the owner task is asked to end, and its caller waits for it.  Nobody but its users
\* can see a connection that is being closed, so it ends at once here.
Closed(cs) == [c \in DOMAIN connections |-> IF c \in cs THEN Ended ELSE connections[c]]

\* The transport broke, and the owner task ends by itself.  Bound: one mishap of either kind.
OwnerEnds ==
  /\ mishap = "none"
  /\ mishap' = "broken"
  /\ \E c \in DOMAIN connections : Alive(c) /\ connections' = Gone({c})
  /\ UNCHANGED <<server, installs, proof, loaded, cache, mcpTask, managerOpen>>

\* invalidate: _generations counts on, which whoever is opening a connection will see, and what
\* was cached is closed.
Invalidated(t, next, cs) ==
  /\ mcpTask' = [u \in Tasks |-> IF u = t THEN next
                                 ELSE [mcpTask[u] EXCEPT !.wanted = ~Opening(u)]]
  /\ connections' = Closed(cs \cup {cache})
  /\ cache' = 0

\* The management lock is held while test_and_enable waits for its test.
Manageable == \A t \in Tasks : mcpTask[t].why # "enable"

Manage(t) ==
  /\ mcpTask[t].pc = "idle"
  /\ Manageable
  /\ Invalidated(t, MIdle, {})

-------------------------------------------------------------------------------
\* Management: console commands and approved proposals

\* /mcp upsert, and the approved installs and updates, which save the configuration disabled
\* and test it under a lock of their own
UpsertServer(t) ==
  /\ Manage(t)
  /\ \E enabled \in BOOLEAN : Upserted(enabled)
  /\ proof' = 0
  /\ UNCHANGED <<mishap, loaded, managerOpen>>

SetServerEnabled(t) ==
  /\ server # None
  /\ Manage(t)
  /\ \E value \in BOOLEAN : EnabledAs(value)
  /\ proof' = 0
  /\ UNCHANGED <<mishap, loaded, managerOpen>>

RemoveServer(t) ==
  /\ server # None
  /\ Manage(t)
  /\ Removed
  /\ proof' = 0
  /\ UNCHANGED <<mishap, loaded, managerOpen>>

-------------------------------------------------------------------------------
\* Tasks that need a connection: discover_tools, the handler of a loaded tool, test_server,
\* and test_and_enable by a recovery, by the end of an install, or by /mcp retry

\* _ensure_connection up to its first lock: the cached connection of this revision, or pop what
\* is cached, close it and open another.  The lock is first come, first served, so that what
\* changes the record after it was read also invalidates after this step.
EnsureConnection(t, why) ==
  LET forced == why \in {"test", "enable"}
      usable == ~forced /\ Alive(cache) /\ connections[cache].rev = server.rev
      begun == [MIdle EXCEPT !.why = why, !.rec = server,
                         !.tool = IF why = "call" THEN loaded.config ELSE 0]
  IN
  /\ mcpTask[t].pc = "idle"
  /\ managerOpen
  /\ IF usable
     THEN /\ mcpTask' = [mcpTask EXCEPT ![t] = [begun EXCEPT !.pc = "use", !.conn = cache]]
          /\ UNCHANGED <<connections, cache>>
     ELSE /\ mcpTask' = [mcpTask EXCEPT ![t] = [begun EXCEPT !.pc = "open"]]
          /\ connections' = Closed({cache})
          /\ cache' = 0
  /\ UNCHANGED <<loaded, managerOpen>>

LoadTools(t) ==
  /\ server # None /\ server.enabled
  /\ EnsureConnection(t, "load")
  /\ UNCHANGED registryVars

\* The handler refuses a server that is disabled or has another revision.
SnapshotCurrent(t) == server # None /\ server.enabled /\ server.rev = loaded.rev

CallTool(t) ==
  /\ loaded # None
  /\ SnapshotCurrent(t)
  /\ EnsureConnection(t, "call")
  /\ UNCHANGED registryVars

TestServer(t) ==
  /\ server # None
  /\ EnsureConnection(t, "test")
  /\ UNCHANGED registryVars

TestAndEnable(t) ==
  /\ Manageable
  /\ server # None
  /\ EnsureConnection(t, "enable")
  /\ UNCHANGED registryVars

Forced(t) == mcpTask[t].why \in {"test", "enable"}

\* The owner task has entered the client's context.  The tools come with it.
Unused(c) ==
  connections[c] = Ended /\ c # cache /\ \A u \in Tasks : mcpTask[u].conn # c

Open(t) ==
  /\ mcpTask[t].pc = "open"
  /\ \E c \in DOMAIN connections :
       /\ Unused(c)
       /\ \A d \in 1 .. (c - 1) : ~Unused(d)
       /\ connections' = [connections EXCEPT ![c] =
            [rev |-> mcpTask[t].rec.rev, config |-> mcpTask[t].rec.config]]
       /\ mcpTask' = [mcpTask EXCEPT ![t].pc = "publish", ![t].conn = c]
  /\ UNCHANGED <<registryVars, loaded, cache, managerOpen>>

\* Mutant: what was invalidated while it was being opened is cached all the same.
NotClosed(t) == managerOpen

StillWanted(t) == managerOpen /\ mcpTask[t].wanted

\* _ensure_connection, under the second lock: a connection that is cached for the same revision
\* is returned, running or not.
Publish(t) ==
  LET new == mcpTask[t].conn
      same == cache # 0 /\ connections[cache].rev = mcpTask[t].rec.rev
  IN
  /\ mcpTask[t].pc = "publish"
  /\ StillWanted(t)
  /\ IF same
     THEN /\ connections' = Closed({new})
          /\ mcpTask' = [mcpTask EXCEPT ![t].pc = "use", ![t].conn = cache]
          /\ UNCHANGED cache
     ELSE /\ connections' = Closed({cache})
          /\ cache' = new
          /\ mcpTask' = [mcpTask EXCEPT ![t].pc = "use"]
  /\ UNCHANGED <<registryVars, loaded, managerOpen>>

\* Whether the end of the task invalidates: a call or a discovery that failed does, and a test
\* that had its connection, unless its record is enabled.
Invalidates(t) == IF Forced(t) THEN mcpTask[t].pc = "use" /\ ~mcpTask[t].rec.enabled ELSE TRUE

\* The task fails, closing the connections cs of its own.
Fail(t, cs) ==
  /\ IF Invalidates(t)
     THEN Invalidated(t, MIdle, cs)
     ELSE /\ connections' = Closed(cs)
          /\ mcpTask' = [mcpTask EXCEPT ![t] = MIdle]
          /\ UNCHANGED cache
  /\ UNCHANGED <<registryVars, loaded, managerOpen>>

\* The server does not answer, or the secrets of the record are gone.
OpenFails(t) ==
  /\ mcpTask[t].pc = "open"
  /\ Fail(t, {})

\* Closed or invalidated while it was being opened
Superfluous(t) ==
  /\ mcpTask[t].pc = "publish"
  /\ ~StillWanted(t)
  /\ Fail(t, {mcpTask[t].conn})

UseFails(t) ==
  /\ mcpTask[t].pc = "use"
  /\ ~Alive(mcpTask[t].conn)
  /\ Fail(t, {})

\* A command that is interrupted takes down the owner of the connection it was using.
Cancel(t) ==
  /\ mcpTask[t].why \in {"load", "call", "test"}
  /\ mcpTask[t].pc \in {"open", "publish", "use"}
  /\ IF mcpTask[t].why = "test" /\ Invalidates(t)
     THEN Fail(t, {mcpTask[t].conn})
     ELSE /\ connections' = IF mcpTask[t].conn = cache THEN Gone({cache})
                             ELSE Closed({mcpTask[t].conn})
          /\ mcpTask' = [mcpTask EXCEPT ![t] = MIdle]
          /\ UNCHANGED <<registryVars, loaded, cache, managerOpen>>

\* The tools of a connection that lists them become the snapshot the Session works with.
Discovered(t) ==
  LET c == connections[mcpTask[t].conn] IN
  /\ mcpTask[t].pc = "use" /\ mcpTask[t].why = "load"
  /\ Alive(mcpTask[t].conn)
  /\ loaded' = [rev |-> mcpTask[t].rec.rev, config |-> c.config]
  /\ mcpTask' = [mcpTask EXCEPT ![t] = MIdle]
  /\ UNCHANGED <<registryVars, connections, cache, managerOpen>>

Called(t) ==
  /\ mcpTask[t].pc = "use" /\ mcpTask[t].why = "call"
  /\ Alive(mcpTask[t].conn)
  /\ mcpTask' = [mcpTask EXCEPT ![t] = MIdle]
  /\ UNCHANGED <<registryVars, loaded, connections, cache, managerOpen>>

\* test_connection has its answer; the connection of a disabled record is invalidated first.
Tested(t) ==
  /\ mcpTask[t].pc = "use" /\ Forced(t)
  /\ Alive(mcpTask[t].conn)
  /\ IF mcpTask[t].rec.enabled
     THEN /\ mcpTask' = [mcpTask EXCEPT ![t].pc = "tested", ![t].conn = 0]
          /\ UNCHANGED <<connections, cache>>
     ELSE Invalidated(t, [mcpTask[t] EXCEPT !.pc = "tested"], {})
  /\ UNCHANGED <<registryVars, loaded, managerOpen>>

\* A test has nothing left but the status line.  A registration that is gone is an error.
EndTest(t) ==
  /\ mcpTask[t].pc = "tested"
  /\ mcpTask[t].why = "test" \/ server = None
  /\ mcpTask' = [mcpTask EXCEPT ![t] = MIdle]
  /\ UNCHANGED <<registryVars, loaded, connections, cache, managerOpen>>

EnableTested(t) ==
  /\ mcpTask[t].pc = "tested" /\ mcpTask[t].why = "enable"
  /\ server # None
  /\ EnabledAs(TRUE)
  /\ proof' = mcpTask[t].rec.config
  /\ Invalidated(t, MIdle, {})
  /\ UNCHANGED <<mishap, loaded, managerOpen>>

\* aclose, when the process ends
CloseManager ==
  /\ managerOpen
  /\ managerOpen' = FALSE
  /\ connections' = Closed({cache})
  /\ cache' = 0
  /\ UNCHANGED <<registryVars, loaded, mcpTask>>

-------------------------------------------------------------------------------
Management(t) ==
  \/ UpsertServer(t) \/ SetServerEnabled(t) \/ RemoveServer(t)
  \/ TestServer(t) \/ TestAndEnable(t) \/ EndTest(t) \/ EnableTested(t)

Connecting(t) ==
  \/ LoadTools(t) \/ CallTool(t)
  \/ Open(t) \/ OpenFails(t)
  \/ Publish(t) \/ Superfluous(t)
  \/ Discovered(t) \/ Called(t) \/ Tested(t) \/ UseFails(t) \/ Cancel(t)

McpNext ==
  \/ \E t \in Tasks : Management(t) \/ Connecting(t)
  \/ OwnerEnds \/ CloseManager
  \/ Elsewhere

McpSpec == McpInit /\ [][McpNext]_mcpVars

-------------------------------------------------------------------------------
\* Properties

Calling(t) ==
  mcpTask[t].pc = "use" /\ mcpTask[t].why = "call" /\ Alive(mcpTask[t].conn)

\* A tool a Session has loaded is never called on a server that was configured differently,
\* as long as the server is the same installation: neither the revision the handler compares
\* nor the connection that happens to be cached lets a call slip to a new configuration.
OnlyReinstallSwitches ==
  \A t \in Tasks : Calling(t) =>
    LET c == connections[mcpTask[t].conn].config IN
    c = mcpTask[t].tool \/ installs[c] # installs[mcpTask[t].tool]

\* A connection that was invalidated, while it was being opened too, is not cached: as long as
\* this process alone manages the server, what is cached belongs to what is registered.
CacheIsCurrent ==
  Alive(cache) /\ mishap # "foreign" => server # None /\ connections[cache].config = server.config

\* No owner task outlives its use: a running one is cached by a manager that is open, or
\* somebody is about to cache or to close it.
NoConnectionLeaks ==
  \A c \in DOMAIN connections : Alive(c) =>
    \/ managerOpen /\ c = cache
    \/ \E t \in Tasks : mcpTask[t].pc = "publish" /\ mcpTask[t].conn = c

\* test_and_enable enables the configuration it has tested, however long the test took, as
\* long as this process alone manages the server.
EnabledWasTested ==
  server # None /\ server.enabled /\ proof # 0 /\ mishap # "foreign" => proof = server.config

\* However a change, a close and a cancellation fall into the opening of a connection and
\* into a test: what runs is cached, what is cached is current, and what is called or enabled
\* is what was loaded or tested.
ServersAreCurrent ==
  OnlyReinstallSwitches /\ CacheIsCurrent /\ NoConnectionLeaks /\ EnabledWasTested

===============================================================================
