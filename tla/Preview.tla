------------------------------ MODULE Preview ------------------------------
(***************************************************************************)
(* The loopback preview of the cockpit, app/preview.py: start() stops the  *)
(* child on record, picks a port, starts a child, waits for the port and   *)
(* only then writes preview.json; stop() kills the child on record and     *)
(* removes the file.  The endpoints run in a thread pool and the agent's   *)
(* tools in threads of their own; nothing serialises them.  The child has  *)
(* a session of its own and outlives the server.                           *)
(*                                                                         *)
(* A child is identified with the start that made it (its pid is fresh).   *)
(***************************************************************************)
EXTENDS Naturals, FiniteSets

CONSTANTS Start,       \* calls of start()
          Stop,        \* calls of stop()
          MaxPort,     \* ports tried: DEFAULT_PORT is 1
          MaxRestart,  \* bound: restarts of the server
          NoPid,       \* no preview.json
          Torn         \* preview.json opened and not written: _state() is None

ASSUME PreviewAssumption ==
  /\ Start \intersect Stop = {}
  /\ {NoPid, Torn} \intersect Start = {} /\ NoPid # Torn
  /\ MaxPort \in Nat
  /\ MaxRestart \in Nat

VARIABLES
  pc,        \* where each call is
  victim,    \* the pid each call has read and will kill
  child,     \* the child of each start: not started, starting up, serving, dead
  port,      \* the port each start has picked
  taken,     \* ports other programs listen on
  file,      \* whose pid preview.json holds
  claimed,   \* starts that answered listening=True
  restarts,  \* restarts so far
  disturbed  \* history: two calls overlapped, or a restart cut a call off

vars == <<pc, victim, child, port, taken, file, claimed, restarts, disturbed>>

Call == Start \union Stop
Port == 1 .. MaxPort
Live(s) == child[s] \in {"starting", "serving"}
\* _port_open: somebody accepts connections there.
PortOpen(p) == p \in taken \/ \E s \in Start : child[s] = "serving" /\ port[s] = p
Inside(c) == pc[c] \notin {"new", "ended"}

TypeOK ==
  /\ pc \in [Call -> {"new", "kill", "unlink", "pick", "popen", "wait", "save",
                      "writing", "unlinked", "ended"}]
  /\ victim \in [Call -> Start \union {NoPid, Torn}]
  /\ child \in [Start -> {"none", "starting", "serving", "dead"}]
  /\ port \in [Start -> 0 .. MaxPort]
  /\ taken \subseteq Port
  /\ file \in Start \union {NoPid, Torn}
  /\ claimed \subseteq Start
  /\ restarts \in 0 .. MaxRestart
  /\ disturbed \in BOOLEAN

Init ==
  /\ pc = [c \in Call |-> "new"]
  /\ victim = [c \in Call |-> NoPid]
  /\ child = [s \in Start |-> "none"]
  /\ port = [s \in Start |-> 0]
  /\ taken \in SUBSET Port
  /\ file = NoPid
  /\ claimed = {}
  /\ restarts = 0
  /\ disturbed = FALSE

-----------------------------------------------------------------------------
(* stop(), which is also how start() begins                                *)

\* _state(): the pid on record, read before it is used.
ReadState(c) ==
  /\ pc[c] = "new"
  /\ pc' = [pc EXCEPT ![c] = "kill"]
  /\ victim' = [victim EXCEPT ![c] = file]
  /\ disturbed' = (disturbed \/ \E d \in Call : Inside(d))
  /\ UNCHANGED <<child, port, taken, file, claimed, restarts>>

\* Mutant: the record goes, the child stays.
KillNothing(c) ==
  /\ pc[c] = "kill"
  /\ pc' = [pc EXCEPT ![c] = "unlink"]
  /\ UNCHANGED <<victim, child, port, taken, file, claimed, restarts, disturbed>>

\* _kill: SIGTERM, two seconds, SIGKILL to the group.
KillVictim(c) ==
  /\ pc[c] = "kill"
  /\ pc' = [pc EXCEPT ![c] = "unlink"]
  /\ child' = IF victim[c] \in Start
              THEN [child EXCEPT ![victim[c]] = "dead"] ELSE child
  /\ UNCHANGED <<victim, port, taken, file, claimed, restarts, disturbed>>

\* The file is removed whosever it is by now; a start that is writing it
\* goes on writing a file without a name.
Unlink(c) ==
  /\ pc[c] = "unlink"
  /\ file' = NoPid
  /\ pc' = [d \in Call |->
              CASE d = c -> IF c \in Start THEN "pick" ELSE "ended"
                [] d # c /\ pc[d] = "writing" -> "unlinked"
                [] OTHER -> pc[d]]
  /\ UNCHANGED <<victim, child, port, taken, claimed, restarts, disturbed>>

\* Another call took the file between exists() and unlink(): the call fails.
UnlinkFails(c) ==
  /\ pc[c] = "unlink" /\ file = NoPid /\ disturbed
  /\ pc' = [pc EXCEPT ![c] = "ended"]
  /\ UNCHANGED <<victim, child, port, taken, file, claimed, restarts, disturbed>>

-----------------------------------------------------------------------------
(* the rest of start()                                                     *)

\* No such directory, a line that is not allowed, no free port, no program.
Refuse(s) ==
  /\ pc[s] \in {"pick", "popen"}
  /\ pc' = [pc EXCEPT ![s] = "ended"]
  /\ UNCHANGED <<victim, child, port, taken, file, claimed, restarts, disturbed>>

\* Mutant: the preferred port as it is.
PickAny(s) ==
  /\ pc[s] = "pick"
  /\ \E p \in Port : port' = [port EXCEPT ![s] = p]
  /\ pc' = [pc EXCEPT ![s] = "popen"]
  /\ UNCHANGED <<victim, child, taken, file, claimed, restarts, disturbed>>

\* The port asked for, or else the first one that nobody listens on; a line
\* of the caller's names its own port and is refused if that is open.
PickPort(s) ==
  /\ pc[s] = "pick"
  /\ \E p \in Port : ~PortOpen(p) /\ port' = [port EXCEPT ![s] = p]
  /\ pc' = [pc EXCEPT ![s] = "popen"]
  /\ UNCHANGED <<victim, child, taken, file, claimed, restarts, disturbed>>

Popen(s) ==
  /\ pc[s] = "popen"
  /\ child' = [child EXCEPT ![s] = "starting"]
  /\ pc' = [pc EXCEPT ![s] = "wait"]
  /\ UNCHANGED <<victim, port, taken, file, claimed, restarts, disturbed>>

\* poll() says that the child is dead: an error, and nothing is saved.
SeesDeath(s) ==
  /\ pc[s] = "wait" /\ child[s] = "dead"
  /\ pc' = [pc EXCEPT ![s] = "ended"]
  /\ UNCHANGED <<victim, child, port, taken, file, claimed, restarts, disturbed>>

\* The port answers; poll() said a moment ago that the child lives.
SeesPort(s) ==
  /\ pc[s] = "wait" /\ Live(s) /\ PortOpen(port[s])
  /\ claimed' = claimed \union {s}
  /\ pc' = [pc EXCEPT ![s] = "save"]
  /\ UNCHANGED <<victim, child, port, taken, file, restarts, disturbed>>

\* Mutant: the wait has no end.
WaitOn(s) == FALSE /\ UNCHANGED vars

\* Twelve seconds are over: the start is recorded although nothing listens.
GiveUpWaiting(s) ==
  /\ pc[s] = "wait" /\ Live(s)
  /\ pc' = [pc EXCEPT ![s] = "save"]
  /\ UNCHANGED <<victim, child, port, taken, file, claimed, restarts, disturbed>>

\* _save: write_text empties the file, then fills it.
OpenFile(s) ==
  /\ pc[s] = "save"
  /\ file' = Torn
  /\ pc' = [pc EXCEPT ![s] = "writing"]
  /\ UNCHANGED <<victim, child, port, taken, claimed, restarts, disturbed>>

\* Over the text of another start the result may not parse.
WriteFile(s) ==
  /\ \/ pc[s] = "writing" /\ file' \in (IF file = Torn THEN {s} ELSE {s, Torn})
     \/ pc[s] = "unlinked" /\ UNCHANGED file
  /\ pc' = [pc EXCEPT ![s] = "ended"]
  /\ UNCHANGED <<victim, child, port, taken, claimed, restarts, disturbed>>

-----------------------------------------------------------------------------
(* the child and the server                                                *)

\* The child binds its port, or dies of EADDRINUSE.
Bind(s) ==
  /\ child[s] = "starting"
  /\ child' = [child EXCEPT ![s] = IF PortOpen(port[s]) THEN "dead" ELSE "serving"]
  /\ UNCHANGED <<pc, victim, port, taken, file, claimed, restarts, disturbed>>

ChildDies(s) ==
  /\ Live(s)
  /\ child' = [child EXCEPT ![s] = "dead"]
  /\ UNCHANGED <<pc, victim, port, taken, file, claimed, restarts, disturbed>>

Restart ==
  /\ restarts < MaxRestart
  /\ restarts' = restarts + 1
  /\ pc' = [c \in Call |-> IF Inside(c) THEN "ended" ELSE pc[c]]
  /\ disturbed' = (disturbed \/ \E c \in Call : Inside(c))
  /\ UNCHANGED <<victim, child, port, taken, file, claimed>>

StopPart(c) == KillVictim(c) \/ Unlink(c) \/ UnlinkFails(c)

StartPart(s) ==
  \/ Refuse(s) \/ PickPort(s) \/ Popen(s) \/ SeesDeath(s) \/ SeesPort(s)
  \/ GiveUpWaiting(s) \/ OpenFile(s) \/ WriteFile(s)

Next ==
  \/ \E c \in Call : ReadState(c) \/ StopPart(c)
  \/ \E s \in Start : StartPart(s) \/ Bind(s) \/ ChildDies(s)
  \/ Restart

Spec == Init /\ [][Next]_vars

\* The thread of a call goes on, and its twelve seconds pass.  Nothing is
\* assumed of the child.
FairSpec ==
  /\ Spec
  /\ \A c \in Call : WF_vars(StopPart(c))
  /\ \A s \in Start : WF_vars(StartPart(s))

-----------------------------------------------------------------------------
(* Properties                                                              *)

\* While calls come one after the other and no restart cuts one off, every
\* living child is on record or in the hands of the start that made it, so
\* that the next stop reaches it; a start leaves no second child behind.
OnRecord ==
  disturbed \/ \A s \in Start : Live(s) => file = s \/ pc[s] \in {"wait", "save", "writing"}

\* listening=True is said of the child just started, not of another program
\* on its port: while calls do not overlap, that child has bound the port.
ListensItself ==
  disturbed \/ \A s \in claimed : child[s] # "starting"

\* Every call answers, even if the child neither serves nor dies.
CallReturns == \A c \in Call : Inside(c) ~> pc[c] = "ended"

=============================================================================
