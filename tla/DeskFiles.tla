----------------------------- MODULE DeskFiles ------------------------------
(***************************************************************************)
(* The files of the desk that requests read, change and replace by way of  *)
(* one tmp each: a conversation and the index of its project (sessions.py),*)
(* the keys (secrets_store.py), config.toml with the timers that follow it *)
(* (runtime_config.py, kalived_config.py), and the buffer and window of    *)
(* the watch (hiroshima_watch.py).  Requests run in threads, the watch and *)
(* kalived_config in processes of their own; nobody takes a lock.          *)
(*                                                                         *)
(* A file's text is [kind |-> "none"] while there is none, "empty" when    *)
(* truncated, "torn" when two have mixed theirs, else "text" with a value: *)
(* a sequence of conversations, the writers that have set their key or     *)
(* added their lines, or a value for each timer.                           *)
(***************************************************************************)
EXTENDS Integers, Sequences, SequencesExt, FiniteSets

CONSTANTS Writer,      \* requests and jobs, each made once
          Session      \* conversations of one project

Timer == {"watch", "scan"}
File  == Session \union {"index", "env", "config", "buffer", "window"}

VARIABLES
  job,      \* what a writer does: [does, session, timer, on]
  text,     \* file -> its text
  draft,    \* file -> the text of its tmp
  fd,       \* writer -> where the tmp it has opened is by now
  fpc,      \* where a writer is
  held,     \* what it read
  turn,     \* how many files it has replaced
  old,      \* what the timers stood at when it began
  unit,     \* what systemd has enabled
  deskHit   \* files that two were at at once, or that a stop or a refusal cut off
fileVars == <<text, draft>>
deskVars == <<job, text, draft, fd, fpc, held, turn, old, unit, deskHit>>

CONSTANT MaxIndex      \* bound of the code: the index keeps so many (80)
ASSUME FilesAssumption ==
  /\ MaxIndex \in Nat \ {0}
  /\ IsFiniteSet(Session) /\ Session \intersect {"index", "env", "config", "buffer", "window"} = {}

NoText  == [kind |-> "none"]
Empty   == [kind |-> "empty"]
Torn    == [kind |-> "torn"]
Says(v) == [kind |-> "text", value |-> v]
Writing == {w \in DOMAIN job : fpc[w] \notin {"idle", "done"}}

\* The files a writer replaces, in order.
Files(w) ==
  CASE job[w].does \in {"create", "save"} -> <<job[w].session, "index">>
    [] job[w].does = "key"    -> <<"env">>
    [] job[w].does = "config" -> <<"config">>
    [] job[w].does = "watch"  -> <<"buffer", "window">>
TheFile(w) == Files(w)[turn[w]]

-----------------------------------------------------------------------------
(* Reading                                                                 *)

Then(w, to) == fpc' = [fpc EXCEPT ![w] = to]

\* Others that are between their reading of a file and its replacement.
Beside(f) == {v \in Writing : \E i \in turn[v] .. Len(Files(v)) : Files(v)[i] = f}

Start(w) ==
  /\ fpc[w] = "idle"
  /\ turn' = [turn EXCEPT ![w] = 1]
  /\ deskHit' = deskHit \union {f \in ToSet(Files(w)) : Beside(f) # {}}
  /\ Then(w, IF job[w].does = "create" THEN "open" ELSE "read")
  /\ held' = [held EXCEPT ![w] = <<>>]
  /\ UNCHANGED <<job, fileVars, fd, old, unit>>

\* What a reader makes of a text: _read_json's default, the lines that are
\* whole, or for config.toml the defaults or an error.
Made(f, t) ==
  LET defaults == Says([t1 \in Timer |-> t1 = "scan"])
  IN CASE t.kind = "text" -> {t}
       [] t.kind # "text" /\ f = "index"            -> {Says(<<>>)}
       [] t.kind # "text" /\ f \in {"env", "buffer"} -> {Says({})}
       [] t.kind # "text" /\ f = "config" -> IF t = NoText THEN {defaults} ELSE {defaults, Torn}
       [] t.kind # "text" /\ f \in Session -> {Torn}

\* A conversation that is not there, and a config that does not parse, end
\* the request.  config.put asks systemd for a timer the file does not name.
Read(w) ==
  /\ fpc[w] = "read"
  /\ \E m \in Made(TheFile(w), text[TheFile(w)]) :
       IF m = Torn THEN Then(w, "done") /\ UNCHANGED <<held, old>>
       ELSE LET now == IF TheFile(w) = "config" /\ text["config"] = NoText
                       THEN [m.value EXCEPT !["watch"] = unit["watch"]] ELSE m.value
            IN /\ held' = [held EXCEPT ![w] = now]
               /\ old' = IF TheFile(w) = "config" THEN [old EXCEPT ![w] = now] ELSE old
               /\ Then(w, "open")
  /\ UNCHANGED <<job, fileVars, fd, turn, unit, deskHit>>

-----------------------------------------------------------------------------
(* Writing                                                                 *)

\* [x for x in idx if x.id != sid]; an index lists a conversation once.
Without(idx, s) ==
  IF s \in ToSet(idx) THEN RemoveAt(idx, CHOOSE i \in DOMAIN idx : idx[i] = s) ELSE idx

\* Mutant: the index is what this request knows.
NewTextAlone(w) ==
  CASE TheFile(w) \in Session -> w
    [] TheFile(w) = "index"   -> <<job[w].session>>
    [] TheFile(w) = "config"  -> [held[w] EXCEPT ![job[w].timer] = job[w].on]
    [] OTHER                  -> held[w] \union {w}

\* Mutant: the body of the request is all that is set.
NewTextOfBody(w) ==
  CASE TheFile(w) \in Session -> w
    [] TheFile(w) = "index"   -> <<job[w].session>> \o Without(held[w], job[w].session)
    [] TheFile(w) = "config"  -> [held[w] EXCEPT ![job[w].timer] = job[w].on]
    [] OTHER                  -> {w}

\* The conversation used last comes first; the rest of the index is cut.
NewText(w) ==
  LET first == <<job[w].session>> \o Without(held[w], job[w].session)
  IN CASE TheFile(w) \in Session -> w
       [] TheFile(w) = "index"   -> SubSeq(first, 1, IF Len(first) < MaxIndex THEN Len(first) ELSE MaxIndex)
       [] TheFile(w) = "config"  -> [held[w] EXCEPT ![job[w].timer] = job[w].on]
       [] TheFile(w) = "window"  -> {w}
       [] OTHER                  -> held[w] \union {w}

\* write_text truncates a tmp that is there ...
Open(w) ==
  /\ fpc[w] = "open"
  /\ draft' = [draft EXCEPT ![TheFile(w)] = Empty]
  /\ fd' = [fd EXCEPT ![w] = "tmp"]
  /\ Then(w, "fill")
  /\ UNCHANGED <<job, text, held, turn, old, unit, deskHit>>

\* ... and writes to what it opened, which another may have moved since; over
\* another's text it may leave a mixture.
Over(t, v) == IF t = Empty THEN {Says(v)} ELSE {Says(v), Torn}

Fill(w) ==
  /\ fpc[w] = "fill"
  /\ LET f == TheFile(w)
     IN \/ /\ fd[w] = "tmp"
           /\ \E t \in Over(draft[f], NewText(w)) : draft' = [draft EXCEPT ![f] = t]
           /\ UNCHANGED text
        \/ /\ fd[w] = "file"
           /\ \E t \in Over(text[f], NewText(w)) : text' = [text EXCEPT ![f] = t]
           /\ UNCHANGED draft
        \/ fd[w] = "gone" /\ UNCHANGED fileVars
  /\ Then(w, "replace")
  /\ UNCHANGED <<job, fd, held, turn, old, unit, deskHit>>

\* The next file, or the timers, or the answer.
After(w) ==
  IF turn[w] < Len(Files(w)) THEN Then(w, IF Files(w)[turn[w] + 1] = "window" THEN "open" ELSE "read")
  ELSE Then(w, IF job[w].does = "config" THEN "ctl" ELSE "done")

\* A tmp that another has moved is an error; who has it open has the file
\* open now, and who had the file open has one without a name.
Replace(w) ==
  /\ fpc[w] = "replace"
  /\ LET f == TheFile(w)
     IN IF draft[f] = NoText
        THEN Then(w, "done") /\ UNCHANGED <<fileVars, fd, turn>>
        ELSE /\ text' = [text EXCEPT ![f] = draft[f]] /\ draft' = [draft EXCEPT ![f] = NoText]
             /\ fd' = [v \in Writer |->
                         IF v = w \/ v \notin Beside(f) \/ TheFile(v) # f THEN fd[v]
                         ELSE IF fd[v] = "tmp" THEN "file" ELSE "gone"]
             /\ turn' = [turn EXCEPT ![w] = IF @ < Len(Files(w)) THEN @ + 1 ELSE @]
             /\ After(w)
  /\ UNCHANGED <<job, held, old, unit, deskHit>>

\* kalived-ctl is asked for a timer that changes; it may refuse.
Ctl(w) ==
  /\ fpc[w] = "ctl"
  /\ LET t == job[w].timer
     IN \/ /\ job[w].on # old[w][t] /\ unit' = [unit EXCEPT ![t] = job[w].on]
           /\ UNCHANGED deskHit
        \/ job[w].on # old[w][t] /\ deskHit' = deskHit \union {"config"} /\ UNCHANGED unit
        \/ job[w].on = old[w][t] /\ UNCHANGED <<unit, deskHit>>
  /\ Then(w, "done")
  /\ UNCHANGED <<job, fileVars, fd, held, turn, old>>

\* The watch is not the server's.
ServerStops ==
  LET Gone == {w \in Writing : job[w].does # "watch"}
  IN /\ Gone # {}
     /\ fpc' = [w \in Writer |-> IF w \in Gone THEN "done" ELSE fpc[w]]
     /\ deskHit' = deskHit \union UNION {ToSet(Files(w)) : w \in Gone}
  /\ UNCHANGED <<job, fileVars, fd, held, turn, old, unit>>

DeskFilesNext(stops) ==
  \/ \E w \in DOMAIN job : Start(w) \/ Read(w) \/ Open(w) \/ Fill(w) \/ Replace(w) \/ Ctl(w)
  \/ stops /\ ServerStops

=============================================================================
