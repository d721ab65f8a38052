-------------------------------- MODULE Turn --------------------------------
(***************************************************************************)
(* One cockpit socket: app/ws.py receives the operator's messages, and one *)
(* task at a time runs a turn of app/llm.py, rounds of a model request and *)
(* the tool calls of its reply, braked by app/orchestrate.py.  A tool may  *)
(* hand its text to another agent, which runs a turn inside the turn.      *)
(*                                                                         *)
(* Both run on one event loop: the receive loop acts whenever the turn     *)
(* awaits the model, a tool or the socket.  What lies between two awaits   *)
(* is one action.                                                          *)
(***************************************************************************)
EXTENDS Naturals

CONSTANTS Calls,      \* bound: kinds of calls the model makes
          Agent,      \* agents the operator may talk to
          Sub,        \* agents that ask_agent may name
          Code,       \* agents of the code desk
          Tools,      \* the kinds of tools each agent has
          CodeCap,    \* tool rounds of a code-desk agent (16)
          OtherCap,   \* tool rounds of the others (MAX_ROUNDS, 8)
          SeeLimit,   \* WRITE_NUDGE_AT (3)
          IdleLimit,  \* rounds without a mutation before reading is cut (4)
          MaxCalls,   \* bound: tool calls in one reply
          MaxMsg      \* bound: messages of the operator

\* Kinds of tool calls.  look: repo_read, repo_grep, ping; git: repo_git that
\* only shows; commit: repo_git that commits; edit: repo_write, repo_edit;
\* canvas: iframe_write; bash: repo_bash, preview_serve; set: preview_set;
\* ask: ask_agent; job: hiroshima_job and its like, and tools without effect here.
Kind == {"look", "git", "commit", "edit", "canvas", "bash", "set", "ask", "job"}

ASSUME TurnAssumption ==
  /\ Calls \subseteq Kind
  /\ Agent # {} /\ Sub \subseteq Agent /\ Code \subseteq Agent
  /\ Tools \in [Agent -> (SUBSET Kind) \ {{}}]
  /\ {CodeCap, OtherCap, SeeLimit, IdleLimit, MaxCalls} \subseteq Nat \ {0}
  /\ MaxMsg \in Nat

VARIABLES
  conn,     \* is the socket up?
  stop,     \* the Event the turn is given as cancel
  at,       \* where the turn is
  depth,    \* 1 while a dispatched agent runs inside the turn
  frame,    \* the locals of run_turn, for the agent asked and the one it asks
  msgs,     \* messages received
  told,     \* how the end of this turn has been announced
  asked,    \* history: was a stop received in this turn?
  tardy,    \* history: tool calls begun since
  looked,   \* history: rounds in a row that did nothing but look
  jobOver   \* history: has a tool of this agent reported its job over?

history == <<asked, tardy, looked, jobOver>>
vars    == <<conn, stop, at, depth, frame, msgs, told, history>>

Running == at \notin {"none", "ended"}
See     == {"look", "git"}
Edit    == {"commit", "edit", "canvas"}
Mutate  == {"commit", "edit", "canvas", "bash"}
Verify  == {"commit", "bash", "set"}
Keep    == {"git", "commit", "edit", "bash", "set"}   \* WRITE_KEEP
Cap(a)  == IF a \in Code THEN CodeCap ELSE OtherCap
MaxCap  == IF CodeCap > OtherCap THEN CodeCap ELSE OtherCap

Fresh(a, use) ==
  [agent |-> a, rnd |-> 0, names |-> Tools[a], offered |-> use,
   left |-> 0, kind |-> "look", got |-> {}, seeing |-> TRUE,
   verified |-> FALSE, seen |-> 0, mutated |-> FALSE]

\* The locals of a turn that is not there.
Gone == Fresh(CHOOSE a \in Agent : TRUE, FALSE)

Frame ==
  [agent : Agent, rnd : 0 .. MaxCap,
   names : SUBSET Kind, offered : BOOLEAN, left : 0 .. MaxCalls, kind : Kind,
   got : SUBSET {"verify", "edit", "fail"}, seeing : BOOLEAN,
   verified : BOOLEAN, seen : Nat, mutated : BOOLEAN]

\* A round number never passes its cap: the line after the loop, "reached max
\* rounds without an answer", is never executed.
TypeOK ==
  /\ conn \in BOOLEAN
  /\ stop \in BOOLEAN
  /\ at \in {"none", "top", "model", "stream", "call", "tool", "finish", "memory", "ended"}
  /\ depth \in 0 .. 1
  /\ frame \in [0 .. 1 -> Frame]
  /\ \A d \in 0 .. 1 : frame[d].rnd <= Cap(frame[d].agent)
  /\ msgs \in 0 .. MaxMsg
  /\ told \subseteq {"done", "error", "stopped"}
  /\ asked \in BOOLEAN
  /\ tardy \in Nat
  /\ looked \in [0 .. 1 -> Nat]
  /\ jobOver \in [0 .. 1 -> BOOLEAN]

Init ==
  /\ conn = TRUE /\ stop = FALSE /\ at = "none" /\ depth = 0
  /\ frame = [d \in 0 .. 1 |-> Gone]
  /\ msgs = 0 /\ told = {}
  /\ asked = FALSE /\ tardy = 0
  /\ looked = [d \in 0 .. 1 |-> 0]
  /\ jobOver = [d \in 0 .. 1 |-> FALSE]

-----------------------------------------------------------------------------
(* handle_socket                                                           *)

\* Mutant: the event is cleared before the look at busy.
UserMessageClearsFirst ==
  /\ conn /\ msgs < MaxMsg
  /\ msgs' = msgs + 1
  /\ stop' = FALSE
  /\ IF Running
     THEN UNCHANGED <<conn, at, depth, frame, told, history>>
     ELSE /\ at' = "top" /\ depth' = 0 /\ told' = {}
          /\ \E a \in Agent, use \in BOOLEAN : frame' = [frame EXCEPT ![0] = Fresh(a, use)]
          /\ asked' = FALSE /\ tardy' = 0
          /\ UNCHANGED <<conn, looked, jobOver>>

\* A message while a turn runs is dropped with a log line.  Otherwise it
\* starts a turn, without tools when the memory gate says use_memory.
UserMessage ==
  /\ conn /\ msgs < MaxMsg
  /\ msgs' = msgs + 1
  /\ IF Running
     THEN UNCHANGED <<conn, stop, at, depth, frame, told, history>>
     ELSE /\ stop' = FALSE
          /\ at' = "top" /\ depth' = 0 /\ told' = {}
          /\ \E a \in Agent, use \in BOOLEAN : frame' = [frame EXCEPT ![0] = Fresh(a, use)]
          /\ asked' = FALSE /\ tardy' = 0
          /\ UNCHANGED <<conn, looked, jobOver>>

\* Mutant: the answer is left to the turn.
StopMessageUnanswered ==
  /\ conn
  /\ stop' = TRUE
  /\ asked' = (asked \/ Running)
  /\ UNCHANGED <<conn, at, depth, frame, msgs, told, tardy, looked, jobOver>>

StopMessage ==
  /\ conn
  /\ stop' = TRUE
  /\ told' = told \union {"stopped"}
  /\ asked' = (asked \/ Running)
  /\ UNCHANGED <<conn, at, depth, frame, msgs, tardy, looked, jobOver>>

\* The socket closes; the turn runs on and its words are lost.
Disconnect ==
  /\ conn
  /\ conn' = FALSE
  /\ UNCHANGED <<stop, at, depth, frame, msgs, told, history>>

-----------------------------------------------------------------------------
(* run_turn, of the agent at `depth`                                       *)

f == frame[depth]

\* run_turn of this agent is over: the asking agent goes on with its calls.
Leave(word) ==
  /\ told' = told \union word
  /\ at' = IF depth = 1 THEN "call" ELSE "finish"
  /\ depth' = 0
  /\ frame' = [frame EXCEPT ![depth] = Gone]
  /\ looked' = [looked EXCEPT ![depth] = 0]
  /\ jobOver' = [jobOver EXCEPT ![depth] = FALSE]
  /\ UNCHANGED <<conn, stop, msgs, asked, tardy>>

\* Mutant: no cap on the rounds.
LastUncapped == ~f.offered

\* The last request offers no tools and is streamed.
Last == f.rnd >= Cap(f.agent) \/ ~f.offered

\* The top of a round: nothing awaits between the look at cancel and the request.
TopStopped == at = "top" /\ stop /\ Leave({"stopped"})

\* Mutant: cancel is left to the waits.
RequestRegardless ==
  /\ at = "top"
  /\ at' = IF Last THEN "stream" ELSE "model"
  /\ UNCHANGED <<conn, stop, depth, frame, msgs, told, history>>

Request ==
  /\ at = "top" /\ ~stop
  /\ at' = IF Last THEN "stream" ELSE "model"
  /\ UNCHANGED <<conn, stop, depth, frame, msgs, told, history>>

\* _wait_or_pulse and the loop over the stream look at cancel now and then;
\* the answer may be there first.
WaitStopped == at \in {"model", "stream"} /\ stop /\ Leave({"stopped"})

Answer == at \in {"model", "stream"} /\ Leave({})

ToolCalls(n) ==
  /\ at = "model"
  /\ at' = "call"
  /\ frame' = [frame EXCEPT ![depth].left = n]
  /\ looked' = [looked EXCEPT ![depth] = IF "look" \in f.names THEN @ + 1 ELSE 0]
  /\ UNCHANGED <<conn, stop, depth, msgs, told, asked, tardy, jobOver>>

\* No key, an HTTP error, a time-out or an answer that is not JSON: the
\* exception ends the whole turn, from the inner agent too.  It is remembered
\* at once; the send of the error is what is awaited.
Fail ==
  /\ at \in {"model", "stream"} \/ (at = "top" /\ f.rnd = 0)
  /\ at' = "memory" /\ depth' = 0
  /\ told' = told \union {"error"}
  /\ frame' = [d \in 0 .. 1 |-> Gone]
  /\ looked' = [d \in 0 .. 1 |-> 0]
  /\ jobOver' = [d \in 0 .. 1 |-> FALSE]
  /\ UNCHANGED <<conn, stop, msgs, asked, tardy>>

\* A call runs to its end in a thread; cancel is not looked at before it.
Call(k) ==
  /\ at = "call" /\ f.left > 0
  /\ at' = "tool"
  /\ frame' = [frame EXCEPT ![depth].left = @ - 1, ![depth].kind = k]
  /\ tardy' = IF asked THEN tardy + 1 ELSE tardy
  /\ looked' = IF k = "look" /\ k \in f.names THEN looked ELSE [looked EXCEPT ![depth] = 0]
  /\ UNCHANGED <<conn, stop, depth, msgs, told, asked, jobOver>>

\* What is noted of a call of kind k with that outcome.  An edit counts as one
\* and as a mutation even if it failed or was refused.
Noted(k, outcome) ==
  [f EXCEPT !.kind = "look",
            !.got = @ \union {e \in {"verify", "edit", "fail"} :
                                CASE e = "verify" -> outcome = "good" /\ k \in Verify
                                  [] e = "edit"   -> k \in Edit
                                  [] e = "fail"   -> outcome = "error" /\ k \in Keep},
            !.seeing = @ /\ k \in See,
            !.mutated = @ \/ k \in Mutate]

\* call_tool refuses, with an error, a tool that is not among the names.
Result ==
  /\ at = "tool"
  /\ \E outcome \in {"good", "plain", "error"} :
       /\ f.kind \notin f.names => outcome = "error"
       /\ frame' = [frame EXCEPT ![depth] = Noted(f.kind, outcome)]
  /\ at' = "call"
  /\ UNCHANGED <<conn, stop, depth, msgs, told, history>>

\* The result says done, timeout or error: no more tools for this agent.
JobOver ==
  /\ at = "tool" /\ f.kind = "job" /\ "job" \in f.names
  /\ at' = "call"
  /\ frame' = [frame EXCEPT ![depth] = [Noted("job", "plain") EXCEPT !.offered = FALSE]]
  /\ jobOver' = [jobOver EXCEPT ![depth] = TRUE]
  /\ UNCHANGED <<conn, stop, depth, msgs, told, asked, tardy, looked>>

\* ask_agent: a turn of the other agent begins, at depth 0 only.
Dispatch(b) ==
  /\ at = "tool" /\ f.kind = "ask" /\ "ask" \in f.names
  /\ depth = 0 /\ b # f.agent
  /\ at' = "top" /\ depth' = 1
  /\ frame' = [frame EXCEPT ![0] = Noted("ask", "plain"), ![1] = Fresh(b, TRUE)]
  /\ UNCHANGED <<conn, stop, msgs, told, history>>

-----------------------------------------------------------------------------
(* After the calls of a round: next_brake and the cuts of run_turn         *)

\* next_brake.  see_streak is not kept: it is above 0 only once tools are off.
NextBrake ==
  LET rest == "fail" \notin f.got /\ "verify" \notin f.got /\ "edit" \notin f.got
      v    == IF "fail" \in f.got THEN FALSE
              ELSE "verify" \in f.got \/ ("edit" \notin f.got /\ f.verified)
      n    == IF rest /\ f.seeing THEN f.seen + 1 ELSE 0
  IN  [verified |-> v, seen |-> n, force |-> v /\ rest /\ f.seeing,
       write |-> ~v /\ n >= SeeLimit]

Braked == f.agent \in Code /\ f.offered

\* Mutant: the nudge without the cut.
CutNothing(g) == g

\* The tools that are left when reading is cut.
Cut(g) == [g EXCEPT !.names = @ \intersect Keep, !.offered = (g.names \intersect Keep # {})]

\* Mutant: the rounds are counted for an agent whose tools are off, too.
IdleWithoutTools(g) ==
  f.agent \in Code /\ f.rnd + 1 >= IdleLimit /\ ~f.mutated /\ g.names # {}

\* Four rounds and nothing changed.
Idle(g) ==
  f.agent \in Code /\ f.rnd + 1 >= IdleLimit /\ ~f.mutated /\ g.names # {} /\ g.offered

\* The frame after its round: braked, perhaps cut, one round on.
Rounded ==
  LET b == NextBrake
      g == IF Braked THEN [f EXCEPT !.verified = b.verified, !.seen = b.seen,
                                    !.offered = ~b.force]
                     ELSE f
      h == IF (Braked /\ b.write) \/ Idle(g) THEN Cut(g) ELSE g
  IN  [h EXCEPT !.rnd = @ + 1, !.got = {}, !.seeing = TRUE]

\* Mutant: a round that does not count.
RoundUncounted ==
  /\ at = "call" /\ f.left = 0
  /\ at' = "top"
  /\ UNCHANGED <<conn, stop, depth, frame, msgs, told, history>>

RoundEnds ==
  /\ at = "call" /\ f.left = 0
  /\ at' = "top"
  /\ frame' = [frame EXCEPT ![depth] = Rounded]
  /\ UNCHANGED <<conn, stop, depth, msgs, told, history>>

-----------------------------------------------------------------------------
(* The end of _run_chat_turn                                               *)

Finish ==
  /\ at = "finish"
  /\ at' = "memory"
  /\ told' = IF stop THEN told ELSE told \union {"done"}
  /\ UNCHANGED <<conn, stop, depth, frame, msgs, history>>

\* _remember_chat, which does not await, and the last send; a message is still
\* dropped until then.
Remembered ==
  /\ at = "memory"
  /\ at' = "ended"
  /\ UNCHANGED <<conn, stop, depth, frame, msgs, told, history>>

TurnStep ==
  \/ TopStopped \/ Request \/ WaitStopped \/ Answer \/ Fail
  \/ \E n \in 1 .. MaxCalls : ToolCalls(n)
  \/ \E k \in Calls : Call(k)
  \/ Result \/ JobOver \/ \E b \in Sub : Dispatch(b)
  \/ RoundEnds \/ Finish \/ Remembered

Next == UserMessage \/ StopMessage \/ Disconnect \/ TurnStep

Spec == Init /\ [][Next]_vars

\* The event loop goes on; a request ends or times out after 120 s, and a
\* tool returns.  Nothing is assumed of what the model answers.
FairSpec == Spec /\ WF_vars(TurnStep)

-----------------------------------------------------------------------------
(* Properties                                                              *)

\* The event that cancels belongs to the running turn: it is set if and only
\* if the operator has said stop during this turn.  No stop is lost to a later
\* message, and no turn is stopped by what was said before it began.
StopBelongs == Running => (stop <=> asked)

\* A stop ends the round: at most the calls of the replies at hand begin after
\* it, those of the asked agent and of the asking one, and no new request.
StopEndsRound == tardy < 2 * MaxCalls

\* A turn never ends in silence: the client has been told done, error or
\* stopped, whatever way the turn ended and however a stop raced its end.
Announced == (at = "ended" /\ conn) => told # {}

\* Once a tool has reported its job over, the agent that called it gets no
\* tools again; neither the brake nor a cut brings them back.
JobEndsTools ==
  \A d \in 0 .. 1 : jobOver[d] => ~frame[d].offered

\* "You have read enough": a code-desk agent never spends more than
\* WRITE_NUDGE_AT rounds in a row doing nothing but look.
ReadingEnds ==
  \A d \in 0 .. 1 :
    (frame[d].agent \in Code /\ at \notin {"call", "tool"}) => looked[d] <= SeeLimit

\* Every turn ends, whatever the model goes on asking for.
TurnEnds == Running ~> at = "ended"

=============================================================================
