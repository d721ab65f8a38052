----------------------------- MODULE Terminals ------------------------------
(***************************************************************************)
(* The two terminals over a web socket: pty_ws.py, whose sessions run in   *)
(* threads and share the counter _live, and term.py, whose two tasks read  *)
(* the shell and the socket.  Each session has a shell on a pty.  What is  *)
(* typed and shown is left out.                                            *)
(***************************************************************************)
EXTENDS Integers, FiniteSets

CONSTANTS Term,         \* sessions, each begun once
          MaxSessions   \* MAX_SESSIONS
ASSUME TermAssumption == MaxSessions \in Nat \ {0} /\ IsFiniteSet(Term)

VARIABLES
  kind,     \* session -> "pty" (pty_ws.py) or "task" (term.py)
  live,     \* _live
  tpc,      \* where a session's thread, or its handler, is
  loaded,   \* what a thread has read of _live
  shell,    \* the state of its shell
  client,   \* the state of its client
  ended,    \* term.py: which of the two tasks have ended
  stopping, \* term.py: is the stop event set?
  lost      \* has a thread written _live over another's change?
termVars == <<kind, live, tpc, loaded, shell, client, ended, stopping, lost>>

Counted(t) == tpc[t] \in {"spawn", "loop", "leave", "store"}
Alive(t)   == shell[t] = "alive"

TerminalsTypeOK ==
  /\ live \in 0 .. Cardinality(Term) /\ lost \in BOOLEAN
  /\ tpc \in [Term -> {"idle", "refused", "shake", "count", "spawn", "loop", "leave", "store", "hang", "tasks", "done"}]
  /\ loaded \in [Term -> 0 .. Cardinality(Term)]
  /\ shell \in [Term -> {"none", "alive", "exited", "hung"}]
  /\ client \in [Term -> {"open", "closed"}]
  /\ ended \in [Term -> SUBSET {"from_pty", "from_ws"}] /\ stopping \in [Term -> BOOLEAN]

Moves(t, to) == tpc' = [tpc EXCEPT ![t] = to]

-----------------------------------------------------------------------------
(* The shell and the client                                                *)

ShellExits(t) ==
  /\ Alive(t)
  /\ shell' = [shell EXCEPT ![t] = "exited"]
  /\ UNCHANGED <<kind, live, tpc, loaded, client, ended, stopping, lost>>

ClientCloses(t) ==
  /\ client[t] = "open" /\ tpc[t] # "idle"
  /\ client' = [client EXCEPT ![t] = "closed"]
  /\ UNCHANGED <<kind, live, tpc, loaded, shell, ended, stopping, lost>>

-----------------------------------------------------------------------------
(* pty_ws.py: handle_term_ws                                               *)

\* The counter is compared before the handshake and raised after it.
Arrive(t) ==
  /\ tpc[t] = "idle" /\ kind[t] = "pty"
  /\ Moves(t, IF live >= MaxSessions THEN "refused" ELSE "shake")
  /\ UNCHANGED <<kind, live, loaded, shell, client, ended, stopping, lost>>

\* A client that has gone fails the handshake, and nothing has been counted.
Shake(t) ==
  /\ tpc[t] = "shake"
  /\ \/ Moves(t, "count")
     \/ client[t] = "closed" /\ Moves(t, "done")
  /\ UNCHANGED <<kind, live, loaded, shell, client, ended, stopping, lost>>

\* One load, add and store that no other thread comes between.
Count(t) ==
  /\ tpc[t] = "count"
  /\ live' = live + 1
  /\ lost' = (lost \/ \E u \in Term : tpc[u] = "store")
  /\ Moves(t, "spawn")
  /\ UNCHANGED <<kind, loaded, shell, client, ended, stopping>>

\* _spawn, which may fail; the failure ends in the same finally.
Spawn(t) ==
  /\ tpc[t] = "spawn"
  /\ \/ shell' = [shell EXCEPT ![t] = "alive"] /\ Moves(t, "loop")
     \/ UNCHANGED shell /\ Moves(t, "leave")
  /\ UNCHANGED <<kind, live, loaded, client, ended, stopping, lost>>

\* Mutant: a close frame returns at once.
LoopReturning(t) ==
  /\ tpc[t] = "loop"
  /\ Moves(t, IF client[t] = "closed" THEN "done" ELSE "leave")
  /\ UNCHANGED <<kind, live, loaded, shell, client, ended, stopping, lost>>

\* The select loop ends by a close frame, a lost connection, an EIO of a dead
\* shell, or what else raises: a full pty, a frame too large.
Loop(t) ==
  /\ tpc[t] = "loop"
  /\ Moves(t, "leave")
  /\ UNCHANGED <<kind, live, loaded, shell, client, ended, stopping, lost>>

\* _live = max(0, _live - 1): the call of max between the load and the store
\* lets another thread run.
Leave(t) ==
  /\ tpc[t] = "leave"
  /\ loaded' = [loaded EXCEPT ![t] = live]
  /\ lost' = (lost \/ \E u \in Term : tpc[u] = "store")
  /\ Moves(t, "store")
  /\ UNCHANGED <<kind, live, shell, client, ended, stopping>>

LeaveStore(t) ==
  /\ tpc[t] = "store"
  /\ live' = IF loaded[t] > 0 THEN loaded[t] - 1 ELSE 0
  /\ Moves(t, "hang")
  /\ UNCHANGED <<kind, loaded, shell, client, ended, stopping, lost>>

\* The master closes and the shell is signalled; its pty hangs up.  The
\* socket is closed.
Hang(t) ==
  /\ tpc[t] = "hang"
  /\ shell' = [shell EXCEPT ![t] = IF @ = "alive" THEN "hung" ELSE @]
  /\ client' = [client EXCEPT ![t] = "closed"]
  /\ Moves(t, "done")
  /\ UNCHANGED <<kind, live, loaded, ended, stopping, lost>>

-----------------------------------------------------------------------------
(* term.py: handle_term                                                    *)

Accept(t) ==
  /\ tpc[t] = "idle" /\ kind[t] = "task"
  /\ shell' = [shell EXCEPT ![t] = "alive"]
  /\ Moves(t, "tasks")
  /\ UNCHANGED <<kind, live, loaded, client, ended, stopping, lost>>

Ends(t, task) ==
  /\ ended' = [ended EXCEPT ![t] = @ \union {task}]
  /\ stopping' = [stopping EXCEPT ![t] = TRUE]
  /\ UNCHANGED <<kind, live, tpc, loaded, shell, client, lost>>

\* Reads of a dead shell are empty and the task goes on; it ends when told
\* to stop, or when it has something to send and the client is gone.
FromPty(t) ==
  /\ tpc[t] = "tasks" /\ "from_pty" \notin ended[t]
  /\ stopping[t] \/ (client[t] = "closed" /\ Alive(t))
  /\ Ends(t, "from_pty")

\* receive() returns when the client sends or closes; to write to a shell
\* that is gone may raise.
FromWs(t) ==
  /\ tpc[t] = "tasks" /\ "from_ws" \notin ended[t]
  /\ client[t] = "closed" \/ ~Alive(t) \/ stopping[t]
  /\ Ends(t, "from_ws")

\* gather is through: the shell is signalled and the master closed.
TermOver(t) ==
  /\ tpc[t] = "tasks" /\ ended[t] = {"from_pty", "from_ws"}
  /\ shell' = [shell EXCEPT ![t] = IF @ = "alive" THEN "hung" ELSE @]
  /\ Moves(t, "done")
  /\ UNCHANGED <<kind, live, loaded, client, ended, stopping, lost>>

TerminalsNext ==
  \E t \in DOMAIN kind :
    \/ ShellExits(t) \/ ClientCloses(t)
    \/ Arrive(t) \/ Shake(t) \/ Count(t) \/ Spawn(t) \/ Loop(t) \/ Leave(t) \/ LeaveStore(t) \/ Hang(t)
    \/ Accept(t) \/ FromPty(t) \/ FromWs(t) \/ TermOver(t)

=============================================================================
