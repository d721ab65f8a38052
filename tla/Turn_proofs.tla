---------------------------- MODULE Turn_proofs ----------------------------
(***************************************************************************)
(* Proofs about Turn for every set of agents, every cap and any number of  *)
(* calls and messages.                                                     *)
(*                                                                         *)
(* The argument has two layers.  Shape (TypeOK, CapInv, LeftInv) says what *)
(* the locals of the two frames can be: who is inside a round has not used *)
(* up its cap, and a call in progress has left its reply.  On it rest the  *)
(* promises about a stop (StopBelongs, SaidInv, TardyInv), about a job     *)
(* that is over (JobEndsTools) and about reading (ReadInv: the brake has   *)
(* counted every round that looked), each inductive beside Shape.          *)
(***************************************************************************)
EXTENDS Turn, TLAPS

\* An agent inside a round has rounds left.
InRound(d) == (d = depth /\ at \in {"model", "call", "tool"}) \/ (d = 0 /\ depth = 1)
CapInv == \A d \in 0 .. 1 : InRound(d) => frame[d].rnd < Cap(frame[d].agent)

\* The call in progress is no longer among those left of its reply.
LeftInv ==
  /\ at = "tool" => frame[depth].left < MaxCalls
  /\ depth = 1 => frame[0].left < MaxCalls

Shape == TypeOK /\ CapInv /\ LeftInv

-----------------------------------------------------------------------------
(* Frames                                                                  *)

LEMMA CapBounded ==
  MaxCap \in Nat /\ \A a \in Agent : Cap(a) \in Nat \ {0} /\ Cap(a) <= MaxCap
BY TurnAssumption DEF Cap, MaxCap

LEMMA FreshFrame ==
  \A a \in Agent, use \in BOOLEAN :
    /\ Fresh(a, use) \in Frame
    /\ Fresh(a, use).agent = a /\ Fresh(a, use).rnd = 0 /\ Fresh(a, use).left = 0
    /\ Fresh(a, use).offered = use
<1> TAKE a \in Agent, use \in BOOLEAN
<1>1. Tools[a] \in SUBSET Kind  BY TurnAssumption
<1>2. 0 \in 0 .. MaxCap  BY CapBounded
<1>3. 0 \in 0 .. MaxCalls  BY TurnAssumption
<1>4. "look" \in Kind  BY DEF Kind
<1> QED  BY <1>1, <1>2, <1>3, <1>4 DEF Fresh, Frame

LEMMA GoneFrame ==
  Gone \in Frame /\ Gone.rnd = 0 /\ Gone.left = 0 /\ Gone.offered = FALSE
<1> DEFINE a == CHOOSE x \in Agent : TRUE
<1>1. a \in Agent  BY TurnAssumption
<1> QED  BY <1>1, FreshFrame DEF Gone

\* A frame that fits in its place.
Fits(g) == g \in Frame /\ g.rnd <= Cap(g.agent)

LEMMA FrameFits == ASSUME TypeOK PROVE Fits(f) /\ depth \in {0, 1}
BY DEF TypeOK, Fits, f

LEMMA GoneFits == Fits(Gone)
<1>1. Gone.agent \in Agent  BY GoneFrame DEF Frame
<1> QED  BY <1>1, GoneFrame, CapBounded DEF Fits

LEMMA FreshFits == \A a \in Agent, use \in BOOLEAN : Fits(Fresh(a, use))
BY FreshFrame, CapBounded DEF Fits

LEMMA NotedFits ==
  ASSUME TypeOK, NEW k, NEW outcome
  PROVE  /\ Fits(Noted(k, outcome))
         /\ Noted(k, outcome).agent = f.agent
         /\ Noted(k, outcome).rnd = f.rnd
         /\ Noted(k, outcome).left = f.left
         /\ Noted(k, outcome).offered = f.offered
         /\ Noted(k, outcome).names = f.names
         /\ Noted(k, outcome).seen = f.seen
         /\ Noted(k, outcome).verified = f.verified
<1> DEFINE more == {e \in {"verify", "edit", "fail"} :
                      CASE e = "verify" -> outcome = "good" /\ k \in Verify
                        [] e = "edit"   -> k \in Edit
                        [] e = "fail"   -> outcome = "error" /\ k \in Keep}
<1>1. more \in SUBSET {"verify", "edit", "fail"}  OBVIOUS
<1>2. Fits(f)  BY FrameFits
<1> DEFINE all == f.seeing /\ k \in See
           mut == f.mutated \/ k \in Mutate
           got == f.got \union more
<1>3. Noted(k, outcome) = [f EXCEPT !.kind = "look", !.got = got, !.seeing = all,
                                    !.mutated = mut]
  BY DEF Noted
<1>4. "look" \in Kind  BY DEF Kind
<1>5. all \in BOOLEAN /\ mut \in BOOLEAN  OBVIOUS
<1>6. got \in SUBSET {"verify", "edit", "fail"}
  BY <1>1, <1>2 DEF Fits, Frame
<1> HIDE DEF more, all, mut, got
<1> QED  BY <1>2, <1>3, <1>4, <1>5, <1>6 DEF Fits, Frame

LEMMA BrakeTypes ==
  ASSUME f \in Frame
  PROVE  NextBrake \in [verified : BOOLEAN, seen : Nat, force : BOOLEAN, write : BOOLEAN]
<1> DEFINE rest == "fail" \notin f.got /\ "verify" \notin f.got /\ "edit" \notin f.got
           v    == IF "fail" \in f.got THEN FALSE
                   ELSE "verify" \in f.got \/ ("edit" \notin f.got /\ f.verified)
           n    == IF rest /\ f.seeing THEN f.seen + 1 ELSE 0
           fo   == v /\ rest /\ f.seeing
           wr   == ~v /\ n >= SeeLimit
<1>1. NextBrake = [verified |-> v, seen |-> n, force |-> fo, write |-> wr]
  BY DEF NextBrake
<1>2. f.seen \in Nat  BY DEF Frame
<1>3. v \in BOOLEAN  OBVIOUS
<1>4. n \in Nat  BY <1>2
<1>5. fo \in BOOLEAN /\ wr \in BOOLEAN  OBVIOUS
<1> HIDE DEF v, n, fo, wr
<1> QED  BY <1>1, <1>3, <1>4, <1>5

\* What the end of a round makes of a frame.
LEMMA RoundedFits ==
  ASSUME TypeOK, f.rnd < Cap(f.agent)
  PROVE  /\ Fits(Rounded)
         /\ Rounded.agent = f.agent /\ Rounded.left = f.left
         /\ Rounded.offered => f.offered
<1> DEFINE b == NextBrake
           g == IF Braked THEN [f EXCEPT !.verified = b.verified, !.seen = b.seen,
                                         !.offered = ~b.force]
                          ELSE f
           h == IF (Braked /\ b.write) \/ Idle(g) THEN Cut(g) ELSE g
<1>1. f \in Frame /\ f.rnd <= Cap(f.agent)  BY FrameFits DEF Fits
<1>2. b.verified \in BOOLEAN /\ b.seen \in Nat /\ b.force \in BOOLEAN
  BY <1>1, BrakeTypes
<1> HIDE DEF b
<1>3. g \in Frame /\ g.agent = f.agent /\ g.rnd = f.rnd /\ g.left = f.left
  BY <1>1, <1>2 DEF Frame
<1>4. g.offered => f.offered
  BY <1>1, <1>2 DEF Braked, Frame
<1>5. Idle(g) => g.offered  BY DEF Idle
<1> HIDE DEF g
<1>6. h \in Frame /\ h.agent = f.agent /\ h.rnd = f.rnd /\ h.left = f.left
  BY <1>3 DEF Cut, Frame
<1>7. h.offered => f.offered
  BY <1>3, <1>4, <1>5 DEF Cut, Braked, Frame
<1>8. Rounded = [h EXCEPT !.rnd = @ + 1, !.got = {}, !.seeing = TRUE]
  BY DEF Rounded, h, g, b
<1> HIDE DEF h
<1>9. f.rnd + 1 \in 0 .. MaxCap
  BY <1>1, CapBounded DEF Frame
<1>10. f.rnd + 1 <= Cap(f.agent)
  BY <1>1, CapBounded DEF Frame
<1> QED  BY <1>6, <1>7, <1>8, <1>9, <1>10 DEF Fits, Frame

-----------------------------------------------------------------------------
(* Shape is inductive                                                      *)

LEMMA ShapeInit == Init => Shape
<1> SUFFICES ASSUME Init PROVE Shape  OBVIOUS
<1>1. TypeOK
  <2>1. frame \in [0 .. 1 -> Frame] /\ \A d \in 0 .. 1 : frame[d].rnd <= Cap(frame[d].agent)
    BY GoneFits DEF Init, Fits
  <2>2. msgs \in 0 .. MaxMsg /\ told \subseteq {"done", "error", "stopped"}
    BY TurnAssumption DEF Init
  <2>3. looked \in [0 .. 1 -> Nat] /\ jobOver \in [0 .. 1 -> BOOLEAN]
    BY DEF Init
  <2>4. conn \in BOOLEAN /\ stop \in BOOLEAN /\ asked \in BOOLEAN
    BY DEF Init
  <2>5. /\ at \in {"none", "top", "model", "stream", "call", "tool", "finish", "memory", "ended"}
        /\ depth \in 0 .. 1 /\ tardy \in Nat
    BY DEF Init
  <2> QED  BY <2>1, <2>2, <2>3, <2>4, <2>5 DEF TypeOK
<1>2. CapInv /\ LeftInv
  BY DEF Init, CapInv, LeftInv, InRound
<1> QED  BY <1>1, <1>2 DEF Shape

\* The steps that put one frame that fits in the place of the current one.
LEMMA Replace ==
  ASSUME TypeOK, NEW g, Fits(g), NEW d \in 0 .. 1, frame' = [frame EXCEPT ![d] = g]
  PROVE  /\ frame' \in [0 .. 1 -> Frame]
         /\ frame'[d] = g /\ \A e \in 0 .. 1 : e # d => frame'[e] = frame[e]
         /\ \A e \in 0 .. 1 : frame'[e].rnd <= Cap(frame'[e].agent)
BY DEF TypeOK, Fits

LEMMA UserMessageShape == ASSUME Shape, UserMessage PROVE Shape'
<1>1. CASE Running
  <2>1. UNCHANGED <<conn, stop, at, depth, frame, told, asked, tardy, looked, jobOver>>
    BY <1>1 DEF UserMessage, history
  <2>2. msgs' \in 0 .. MaxMsg
    BY TurnAssumption DEF UserMessage, Shape, TypeOK
  <2> QED  BY <2>1, <2>2 DEF Shape, TypeOK, CapInv, LeftInv, InRound, Cap
<1>2. CASE ~Running
  <2>1. PICK a \in Agent, use \in BOOLEAN : frame' = [frame EXCEPT ![0] = Fresh(a, use)]
    BY <1>2 DEF UserMessage
  <2>2. /\ at' = "top" /\ depth' = 0 /\ told' = {} /\ asked' = FALSE /\ tardy' = 0
        /\ stop' = FALSE /\ msgs' = msgs + 1 /\ msgs < MaxMsg
        /\ UNCHANGED <<conn, looked, jobOver>>
    BY <1>2 DEF UserMessage
  <2>3. Fits(Fresh(a, use))  BY FreshFits
  <2>4. /\ frame' \in [0 .. 1 -> Frame]
        /\ \A e \in 0 .. 1 : frame'[e].rnd <= Cap(frame'[e].agent)
    <3>1. 0 \in 0 .. 1  OBVIOUS
    <3> QED  BY <2>1, <2>3, <3>1, Replace DEF Shape
  <2>5. msgs' \in 0 .. MaxMsg  BY <2>2, TurnAssumption DEF Shape, TypeOK
  <2>6. TypeOK'
    <3>1. stop' \in BOOLEAN /\ asked' \in BOOLEAN /\ told' \subseteq {"done", "error", "stopped"}
      BY <2>2
    <3>2. /\ at' \in {"none", "top", "model", "stream", "call", "tool", "finish", "memory", "ended"}
          /\ depth' \in 0 .. 1 /\ tardy' \in Nat
      BY <2>2
    <3>3. conn' \in BOOLEAN /\ looked' \in [0 .. 1 -> Nat] /\ jobOver' \in [0 .. 1 -> BOOLEAN]
      BY <2>2 DEF Shape, TypeOK
    <3> QED  BY <2>4, <2>5, <3>1, <3>2, <3>3 DEF TypeOK
  <2>7. CapInv' /\ LeftInv'
    BY <2>2 DEF CapInv, LeftInv, InRound
  <2> QED  BY <2>6, <2>7 DEF Shape
<1> QED  BY <1>1, <1>2

LEMMA LeaveShape ==
  ASSUME Shape, Running, NEW word \in SUBSET {"done", "error", "stopped"}, Leave(word)
  PROVE  Shape'
<1>1. /\ frame' \in [0 .. 1 -> Frame]
      /\ \A e \in 0 .. 1 : e # depth => frame'[e] = frame[e]
      /\ \A e \in 0 .. 1 : frame'[e].rnd <= Cap(frame'[e].agent)
  BY Replace, GoneFits DEF Shape, TypeOK, Leave
<1>2. TypeOK'
  BY <1>1 DEF Leave, Shape, TypeOK, Cap
<1>3. CapInv' /\ LeftInv'
  BY <1>1 DEF Leave, Shape, TypeOK, CapInv, LeftInv, InRound, Cap
<1> QED  BY <1>2, <1>3 DEF Shape

\* The steps of the receive loop that leave the turn alone, and those of the
\* turn that only move on.
LEMMA QuietShape ==
  ASSUME Shape,
         StopMessage \/ Disconnect \/ Request \/ Finish \/ Remembered \/ UNCHANGED vars
  PROVE  Shape'
<1>1. /\ UNCHANGED <<depth, frame, msgs, tardy, looked, jobOver>>
      /\ at' = at \/ at' \in {"top", "model", "stream", "memory", "ended"}
  BY DEF StopMessage, Disconnect, Request, Finish, Remembered, vars, history
<1>2. /\ conn' \in BOOLEAN /\ stop' \in BOOLEAN /\ asked' \in BOOLEAN
  BY DEF StopMessage, Disconnect, Request, Finish, Remembered, vars, history, Shape, TypeOK
<1>3. told' \subseteq {"done", "error", "stopped"}
  BY DEF StopMessage, Disconnect, Request, Finish, Remembered, vars, Shape, TypeOK
<1>4. TypeOK'
  <2>1. at' \in {"none", "top", "model", "stream", "call", "tool", "finish", "memory", "ended"}
    BY <1>1 DEF Shape, TypeOK
  <2> QED  BY <1>1, <1>2, <1>3, <2>1 DEF Shape, TypeOK, Cap
<1>5. LeftInv'
  BY <1>1 DEF Shape, LeftInv
<1>6. CapInv'
  <2>1. CASE at' # "model" \/ at = "model"
    BY <1>1, <2>1 DEF Shape, CapInv, InRound, Cap
  <2>2. CASE at' = "model" /\ at # "model"
    <3>1. ~Last /\ at = "top"
      BY <2>2 DEF StopMessage, Disconnect, Request, Finish, Remembered, vars
    <3>2. frame[depth].rnd < Cap(frame[depth].agent)
      <4>1. f \in Frame  BY FrameFits DEF Shape, Fits
      <4>2. f.rnd \in Nat /\ Cap(f.agent) \in Nat
        BY <4>1, CapBounded DEF Frame
      <4> QED  BY <3>1, <4>2 DEF Last, f
    <3> QED  BY <1>1, <3>2 DEF Shape, CapInv, InRound, Cap
  <2> QED  BY <2>1, <2>2
<1> QED  BY <1>4, <1>5, <1>6 DEF Shape

\* The steps that change the frame of the running agent and nothing else of
\* the frames.
LEMMA OneFrameShape ==
  ASSUME Shape, NEW g, Fits(g), frame' = [frame EXCEPT ![depth] = g],
         g.agent = f.agent,
         g.rnd = f.rnd \/ at' = "top",
         at \in {"model", "call", "tool"},
         at' \in {"top", "call", "tool"},
         at' = "tool" => g.left < MaxCalls,
         UNCHANGED <<conn, stop, depth, msgs, told, asked>>,
         tardy' \in Nat, looked' \in [0 .. 1 -> Nat], jobOver' \in [0 .. 1 -> BOOLEAN]
  PROVE  Shape'
<1>1. /\ frame' \in [0 .. 1 -> Frame]
      /\ frame'[depth] = g /\ \A e \in 0 .. 1 : e # depth => frame'[e] = frame[e]
      /\ \A e \in 0 .. 1 : frame'[e].rnd <= Cap(frame'[e].agent)
  BY Replace DEF Shape, TypeOK
<1>2. TypeOK'
  <2>1. at' \in {"none", "top", "model", "stream", "call", "tool", "finish", "memory", "ended"}
    OBVIOUS
  <2> QED  BY <1>1, <2>1 DEF Shape, TypeOK, Cap
<1>3. depth \in 0 .. 1 /\ depth' = depth  BY DEF Shape, TypeOK
<1>4. LeftInv'
  BY <1>1, <1>3 DEF Shape, LeftInv
<1>5. CapInv'
  BY <1>1, <1>3 DEF Shape, CapInv, InRound, Cap, f
<1> QED  BY <1>2, <1>4, <1>5 DEF Shape

LEMMA ToolCallsShape ==
  ASSUME Shape, NEW n \in 1 .. MaxCalls, ToolCalls(n) PROVE Shape'
<1> DEFINE g == [f EXCEPT !.left = n]
<1>1. f \in Frame /\ f.rnd <= Cap(f.agent) /\ depth \in 0 .. 1
  BY FrameFits DEF Shape, Fits, TypeOK
<1>2. n \in 0 .. MaxCalls  BY TurnAssumption
<1>3. Fits(g) /\ g.agent = f.agent /\ g.rnd = f.rnd
  BY <1>1, <1>2 DEF Fits, Frame
<1>4. frame' = [frame EXCEPT ![depth] = g]
  BY DEF ToolCalls, f
<1>5. looked' \in [0 .. 1 -> Nat]
  BY <1>1 DEF ToolCalls, Shape, TypeOK
<1> HIDE DEF g
<1> QED  BY <1>3, <1>4, <1>5, OneFrameShape DEF ToolCalls, Shape, TypeOK

LEMMA CallShape ==
  ASSUME Shape, NEW k \in Kind, Call(k) PROVE Shape'
<1> DEFINE g == [f EXCEPT !.left = @ - 1, !.kind = k]
<1>1. f \in Frame /\ f.rnd <= Cap(f.agent) /\ depth \in 0 .. 1
  BY FrameFits DEF Shape, Fits, TypeOK
<1>2. f.left \in 0 .. MaxCalls /\ f.left > 0  BY <1>1 DEF Frame, Call
<1>3. f.left - 1 \in 0 .. MaxCalls /\ f.left - 1 < MaxCalls
  BY <1>2, TurnAssumption
<1>4. Fits(g) /\ g.agent = f.agent /\ g.rnd = f.rnd /\ g.left < MaxCalls
  BY <1>1, <1>3 DEF Fits, Frame
<1>5. frame' = [frame EXCEPT ![depth] = g]
  BY DEF Call, f
<1>6. looked' \in [0 .. 1 -> Nat] /\ tardy' \in Nat
  BY <1>1 DEF Call, Shape, TypeOK
<1> HIDE DEF g
<1> QED  BY <1>4, <1>5, <1>6, OneFrameShape DEF Call, Shape, TypeOK

LEMMA ResultShape == ASSUME Shape, Result PROVE Shape'
<1>1. PICK outcome : frame' = [frame EXCEPT ![depth] = Noted(f.kind, outcome)]
  BY DEF Result
<1>2. /\ Fits(Noted(f.kind, outcome))
      /\ Noted(f.kind, outcome).agent = f.agent
      /\ Noted(f.kind, outcome).rnd = f.rnd
  BY NotedFits DEF Shape
<1>3. UNCHANGED <<conn, stop, depth, msgs, told, asked, tardy, looked, jobOver>>
      /\ at = "tool" /\ at' = "call"
  BY DEF Result, history
<1> QED  BY <1>1, <1>2, <1>3, OneFrameShape DEF Shape, TypeOK

LEMMA JobOverShape == ASSUME Shape, JobOver PROVE Shape'
<1> DEFINE g == [Noted("job", "plain") EXCEPT !.offered = FALSE]
<1>1. /\ Fits(Noted("job", "plain"))
      /\ Noted("job", "plain").agent = f.agent
      /\ Noted("job", "plain").rnd = f.rnd
  BY NotedFits DEF Shape
<1>2. Fits(g) /\ g.agent = f.agent /\ g.rnd = f.rnd
  BY <1>1 DEF Fits, Frame
<1>3. frame' = [frame EXCEPT ![depth] = g]  BY DEF JobOver
<1>4. jobOver' \in [0 .. 1 -> BOOLEAN]
  BY DEF JobOver, Shape, TypeOK
<1> HIDE DEF g
<1> QED  BY <1>2, <1>3, <1>4, OneFrameShape DEF JobOver, Shape, TypeOK

LEMMA RoundEndsShape == ASSUME Shape, RoundEnds PROVE Shape'
<1>1. f.rnd < Cap(f.agent)
  BY DEF Shape, CapInv, InRound, RoundEnds, TypeOK, f
<1>2. Fits(Rounded) /\ Rounded.agent = f.agent
  BY <1>1, RoundedFits DEF Shape
<1>3. UNCHANGED <<conn, stop, depth, msgs, told, asked, tardy, looked, jobOver>>
      /\ at = "call" /\ at' = "top" /\ frame' = [frame EXCEPT ![depth] = Rounded]
  BY DEF RoundEnds, history
<1> QED  BY <1>2, <1>3, OneFrameShape DEF Shape, TypeOK

LEMMA DispatchShape == ASSUME Shape, NEW b \in Sub, Dispatch(b) PROVE Shape'
<1> DEFINE g == Noted("ask", "plain")
           h == Fresh(b, TRUE)
<1>1. Fits(g) /\ g.agent = f.agent /\ g.rnd = f.rnd /\ g.left = f.left
  BY NotedFits DEF Shape
<1>2. Fits(h)
  BY FreshFits, TurnAssumption
<1>3. frame' = [frame EXCEPT ![0] = g, ![1] = h] /\ depth = 0 /\ depth' = 1
      /\ at = "tool" /\ at' = "top"
      /\ UNCHANGED <<conn, stop, msgs, told, asked, tardy, looked, jobOver>>
  BY DEF Dispatch, history
<1> HIDE DEF g, h
<1>4. frame'[0] = g /\ frame'[1] = h /\ frame' \in [0 .. 1 -> Frame]
  BY <1>1, <1>2, <1>3 DEF Shape, TypeOK, Fits
<1>5. \A e \in 0 .. 1 : frame'[e].rnd <= Cap(frame'[e].agent)
  BY <1>1, <1>2, <1>4 DEF Fits
<1>6. TypeOK'
  <2>1. at' \in {"none", "top", "model", "stream", "call", "tool", "finish", "memory", "ended"}
    BY <1>3
  <2> QED  BY <1>3, <1>4, <1>5, <2>1 DEF Shape, TypeOK, Cap
<1>7. LeftInv'
  BY <1>1, <1>3, <1>4 DEF Shape, LeftInv, f
<1>8. CapInv'
  BY <1>1, <1>3, <1>4 DEF Shape, CapInv, InRound, Cap, f
<1> QED  BY <1>6, <1>7, <1>8 DEF Shape

LEMMA FailShape == ASSUME Shape, Fail PROVE Shape'
<1>1. frame' = [d \in 0 .. 1 |-> Gone] /\ at' = "memory" /\ depth' = 0
      /\ told' = told \union {"error"}
      /\ looked' = [d \in 0 .. 1 |-> 0] /\ jobOver' = [d \in 0 .. 1 |-> FALSE]
      /\ UNCHANGED <<conn, stop, msgs, asked, tardy>>
  BY DEF Fail
<1>2. /\ frame' \in [0 .. 1 -> Frame]
      /\ \A e \in 0 .. 1 : frame'[e].rnd <= Cap(frame'[e].agent)
  BY <1>1, GoneFits DEF Fits
<1>3. TypeOK'
  <2>1. at' \in {"none", "top", "model", "stream", "call", "tool", "finish", "memory", "ended"}
        /\ depth' \in 0 .. 1
    BY <1>1
  <2>2. told' \subseteq {"done", "error", "stopped"}
    BY <1>1 DEF Shape, TypeOK
  <2>3. looked' \in [0 .. 1 -> Nat] /\ jobOver' \in [0 .. 1 -> BOOLEAN]
    BY <1>1
  <2> QED  BY <1>1, <1>2, <2>1, <2>2, <2>3 DEF Shape, TypeOK, Cap
<1>4. CapInv' /\ LeftInv'
  BY <1>1 DEF CapInv, LeftInv, InRound
<1> QED  BY <1>3, <1>4 DEF Shape

LEMMA ShapeStep == ASSUME Shape, [Next]_vars PROVE Shape'
<1>1. CASE UserMessage  BY <1>1, UserMessageShape
<1>2. CASE StopMessage \/ Disconnect \/ Request \/ Finish \/ Remembered \/ UNCHANGED vars
  BY <1>2, QuietShape
<1>3. CASE TopStopped \/ WaitStopped \/ Answer
  <2>1. PICK word \in SUBSET {"done", "error", "stopped"} : Leave(word)
    BY <1>3 DEF TopStopped, WaitStopped, Answer
  <2>2. Running  BY <1>3 DEF TopStopped, WaitStopped, Answer, Running
  <2> QED  BY <2>1, <2>2, LeaveShape
<1>4. ASSUME NEW n \in 1 .. MaxCalls, ToolCalls(n) PROVE Shape'  BY <1>4, ToolCallsShape
<1>5. ASSUME NEW k \in Calls, Call(k) PROVE Shape'
  BY <1>5, CallShape, TurnAssumption
<1>6. CASE Result  BY <1>6, ResultShape
<1>7. CASE JobOver  BY <1>7, JobOverShape
<1>8. ASSUME NEW b \in Sub, Dispatch(b) PROVE Shape'  BY <1>8, DispatchShape
<1>9. CASE RoundEnds  BY <1>9, RoundEndsShape
<1>10. CASE Fail  BY <1>10, FailShape
<1> QED
  BY <1>1, <1>2, <1>3, <1>4, <1>5, <1>6, <1>7, <1>8, <1>9, <1>10 DEF Next, TurnStep

\* The locals of a turn and of the turn inside it keep their types, and no
\* round number passes its cap: run_turn never reaches the line after its
\* loop, for any cap and whatever the model answers.
THEOREM TypeCorrect == Spec => []TypeOK
<1>1. Init => Shape  BY ShapeInit
<1>2. Shape /\ [Next]_vars => Shape'  BY ShapeStep
<1>3. Shape => TypeOK  BY DEF Shape
<1> QED  BY <1>1, <1>2, <1>3, PTL DEF Spec

-----------------------------------------------------------------------------
(* The stop                                                                *)

LEMMA TurnStepRuns ==
  ASSUME TurnStep PROVE Running /\ UNCHANGED <<conn, stop, msgs, asked>>
BY DEF TurnStep, TopStopped, Request, WaitStopped, Answer, Fail, ToolCalls, Call, Result,
       JobOver, Dispatch, RoundEnds, Finish, Remembered, Leave, Running, history

LEMMA StopBelongsStep ==
  ASSUME StopBelongs, [Next]_vars PROVE StopBelongs'
<1>1. CASE UserMessage
  BY <1>1 DEF UserMessage, StopBelongs, Running, history
<1>2. CASE StopMessage
  BY <1>2 DEF StopMessage, StopBelongs, Running
<1>3. CASE Disconnect
  BY <1>3 DEF Disconnect, StopBelongs, Running, history
<1>4. CASE TurnStep
  BY <1>4, TurnStepRuns DEF StopBelongs
<1>5. CASE UNCHANGED vars
  BY <1>5 DEF vars, history, StopBelongs, Running
<1> QED  BY <1>1, <1>2, <1>3, <1>4, <1>5 DEF Next

\* The event the turn is given as cancel is set exactly when the operator has
\* said stop during this turn.
THEOREM StopIsOfThisTurn == Spec => []StopBelongs
<1>1. Init => StopBelongs  BY DEF Init, StopBelongs, Running
<1>2. StopBelongs /\ [Next]_vars => StopBelongs'  BY StopBelongsStep
<1> QED  BY <1>1, <1>2, PTL DEF Spec

\* What has been said by the time it matters.
SaidInv ==
  /\ Running /\ asked => "stopped" \in told
  /\ at \in {"memory", "ended"} => told # {}

LEMMA SaidStep ==
  ASSUME StopBelongs, SaidInv, [Next]_vars PROVE SaidInv'
<1>1. CASE UserMessage
  BY <1>1 DEF UserMessage, SaidInv, Running, history
<1>2. CASE StopMessage
  BY <1>2 DEF StopMessage, SaidInv, Running
<1>3. CASE Disconnect
  BY <1>3 DEF Disconnect, SaidInv, Running, history
<1>4. CASE Finish
  BY <1>4 DEF Finish, SaidInv, StopBelongs, Running, history
<1>5. CASE Remembered
  BY <1>5 DEF Remembered, SaidInv, Running, history
<1>6. CASE Fail
  BY <1>6, TurnStepRuns DEF TurnStep, Fail, SaidInv
<1>7. CASE TopStopped \/ WaitStopped \/ Answer
  BY <1>7, TurnStepRuns DEF TurnStep, TopStopped, WaitStopped, Answer, Leave, SaidInv
<1>8. CASE \/ Request \/ Result \/ JobOver \/ RoundEnds
           \/ \E n \in 1 .. MaxCalls : ToolCalls(n)
           \/ \E k \in Calls : Call(k)
           \/ \E b \in Sub : Dispatch(b)
  <2>1. Running /\ UNCHANGED asked  BY <1>8, TurnStepRuns DEF TurnStep
  <2>2. UNCHANGED told /\ at' \notin {"memory", "ended"}
    BY <1>8 DEF Request, Result, JobOver, RoundEnds, ToolCalls, Call, Dispatch
  <2> QED  BY <2>1, <2>2 DEF SaidInv
<1>9. CASE UNCHANGED vars
  BY <1>9 DEF vars, history, SaidInv, Running
<1> QED
  BY <1>1, <1>2, <1>3, <1>4, <1>5, <1>6, <1>7, <1>8, <1>9 DEF Next, TurnStep

\* No turn ends in silence: by its end it has said done, error or stopped,
\* even when the stop came too late for the turn to notice.
THEOREM EndIsAnnounced == Spec => []Announced
<1> DEFINE Inv == StopBelongs /\ SaidInv
<1>1. Init => Inv  BY DEF Init, StopBelongs, SaidInv, Running
<1>2. Inv /\ [Next]_vars => Inv'  BY StopBelongsStep, SaidStep
<1>3. Inv => Announced  BY DEF SaidInv, Announced
<1> QED  BY <1>1, <1>2, <1>3, PTL DEF Spec

\* The calls that may still begin without another request.
Waiting == IF depth = 1 THEN frame[0].left ELSE 0
InHand ==
  IF at = "model" THEN MaxCalls ELSE IF at \in {"call", "tool"} THEN frame[depth].left ELSE 0

TardyInv ==
  IF asked THEN tardy + Waiting + InHand < 2 * MaxCalls ELSE tardy = 0

CallsBounded ==
  /\ frame[0].left \in 0 .. MaxCalls /\ frame[depth].left \in 0 .. MaxCalls
  /\ MaxCalls \in Nat \ {0} /\ Waiting \in Nat /\ InHand \in Nat /\ tardy \in Nat
  /\ Waiting < MaxCalls /\ InHand <= MaxCalls

LEMMA LeftBounded == Shape => CallsBounded
<1> SUFFICES ASSUME Shape PROVE CallsBounded  OBVIOUS
<1>1. frame[0] \in Frame /\ frame[depth] \in Frame /\ tardy \in Nat
  BY DEF Shape, TypeOK
<1>2. frame[0].left \in 0 .. MaxCalls /\ frame[depth].left \in 0 .. MaxCalls
  BY <1>1 DEF Frame
<1>3. MaxCalls \in Nat \ {0}  BY TurnAssumption
<1> QED  BY <1>1, <1>2, <1>3 DEF CallsBounded, Shape, LeftInv, TypeOK, Waiting, InHand

LEMMA SumShrinks ==
  ASSUME NEW a \in Nat, NEW b \in Nat, NEW c \in Nat, NEW d \in Nat, d <= b
  PROVE  a + 0 + d <= a + b + c
OBVIOUS

LEMMA SumStaysBelow ==
  ASSUME NEW a \in Nat, NEW b \in Nat, NEW c \in Nat, NEW m \in Nat,
         NEW x \in Nat, NEW y \in Nat, NEW z \in Nat,
         x + y + z <= a + b + c, a + b + c < 2 * m
  PROVE  x + y + z < 2 * m
<1> DEFINE s == x + y + z
           t == a + b + c
           u == 2 * m
<1>1. s \in Nat /\ t \in Nat /\ u \in Nat /\ s <= t /\ t < u  OBVIOUS
<1> HIDE DEF s, t, u
<1>2. s < u  BY <1>1
<1> QED  BY <1>2 DEF s, u

\* A step of the turn lets no more calls begin than were waiting or in hand.
LEMMA TurnStepCalls ==
  ASSUME Shape, Shape', StopBelongs, TurnStep, asked
  PROVE  tardy' + Waiting' + InHand' <= tardy + Waiting + InHand
<1>0. /\ frame[0].left \in 0 .. MaxCalls /\ frame[depth].left \in 0 .. MaxCalls
      /\ MaxCalls \in Nat \ {0} /\ Waiting \in Nat /\ InHand \in Nat /\ tardy \in Nat
      /\ depth \in 0 .. 1 /\ DOMAIN frame = 0 .. 1 /\ frame[depth] \in Frame
      /\ f = frame[depth]
  BY LeftBounded DEF CallsBounded, Shape, TypeOK, f
<1>1. stop  BY TurnStepRuns DEF StopBelongs
<1>2. CASE TopStopped \/ WaitStopped \/ Answer
  <2>1. /\ at' \in {"call", "finish"} /\ depth' = 0 /\ tardy' = tardy
        /\ at' = "call" => depth = 1
        /\ frame' = [frame EXCEPT ![depth] = Gone]
    BY <1>2, <1>0 DEF TopStopped, WaitStopped, Answer, Leave
  <2>2. Waiting' = 0  BY <2>1 DEF Waiting
  <2>3. InHand' <= Waiting
    BY <2>1, <1>0 DEF InHand, Waiting
  <2>4. InHand' \in Nat
    BY <2>1, <1>0 DEF InHand
  <2>5. tardy' = tardy  BY <2>1
  <2>6. tardy + 0 + InHand' <= tardy + Waiting + InHand
    BY <1>0, <2>3, <2>4, SumShrinks
  <2> QED  BY <2>2, <2>5, <2>6
<1>3. CASE Fail \/ Finish \/ Remembered
  <2>1. at' \in {"memory", "ended"} /\ (depth' = 0 \/ (depth' = depth /\ frame' = frame))
        /\ tardy' = tardy
    BY <1>3 DEF Fail, Finish, Remembered, history
  <2>2. Waiting' = 0 \/ Waiting' = Waiting  BY <2>1 DEF Waiting
  <2>3. InHand' = 0  BY <2>1 DEF InHand
  <2> QED  BY <1>0, <2>1, <2>2, <2>3
<1>4. CASE Request  BY <1>1, <1>4 DEF Request
<1>5. ASSUME NEW n \in 1 .. MaxCalls, ToolCalls(n)
      PROVE tardy' + Waiting' + InHand' <= tardy + Waiting + InHand
  <2>1. at = "model" /\ at' = "call" /\ depth' = depth /\ tardy' = tardy
        /\ frame' = [frame EXCEPT ![depth].left = n]
    BY <1>5 DEF ToolCalls
  <2>2. frame'[depth].left = n  BY <1>0, <2>1 DEF Frame
  <2>3. Waiting' = Waiting  BY <1>0, <2>1 DEF Waiting
  <2>4. InHand' = n /\ InHand = MaxCalls  BY <2>1, <2>2 DEF InHand
  <2> QED  BY <1>0, <2>1, <2>3, <2>4
<1>6. ASSUME NEW k \in Calls, Call(k)
      PROVE tardy' + Waiting' + InHand' <= tardy + Waiting + InHand
  <2>1. at = "call" /\ at' = "tool" /\ depth' = depth /\ tardy' = tardy + 1
        /\ frame' = [frame EXCEPT ![depth].left = @ - 1, ![depth].kind = k]
        /\ frame[depth].left > 0
    BY <1>6 DEF Call, f
  <2>2. frame'[depth].left = frame[depth].left - 1  BY <1>0, <2>1 DEF Frame
  <2>3. Waiting' = Waiting  BY <1>0, <2>1 DEF Waiting
  <2>4. InHand' = frame[depth].left - 1 /\ InHand = frame[depth].left
    BY <2>1, <2>2 DEF InHand
  <2> QED  BY <1>0, <2>1, <2>3, <2>4
<1>7. CASE Result \/ JobOver
  <2>1. PICK g : /\ frame' = [frame EXCEPT ![depth] = g] /\ g.left = f.left
                 /\ at = "tool" /\ at' = "call" /\ depth' = depth /\ tardy' = tardy
    <3>1. CASE Result
      <4>1. PICK o : frame' = [frame EXCEPT ![depth] = Noted(f.kind, o)]  BY <3>1 DEF Result
      <4>2. Noted(f.kind, o).left = f.left  BY NotedFits DEF Shape
      <4>3. at = "tool" /\ at' = "call" /\ depth' = depth /\ tardy' = tardy
        BY <3>1 DEF Result, history
      <4> QED  BY <4>1, <4>2, <4>3
    <3>2. CASE JobOver
      <4>1. Noted("job", "plain") \in Frame /\ Noted("job", "plain").left = f.left
        BY NotedFits DEF Shape, Fits
      <4>2. [Noted("job", "plain") EXCEPT !.offered = FALSE].left = f.left
        BY <4>1 DEF Frame
      <4> QED  BY <3>2, <4>2 DEF JobOver
    <3> QED  BY <1>7, <3>1, <3>2
  <2>2. frame'[depth].left = frame[depth].left  BY <1>0, <2>1
  <2>3. Waiting' = Waiting  BY <1>0, <2>1 DEF Waiting
  <2>4. InHand' = InHand  BY <2>1, <2>2 DEF InHand
  <2> QED  BY <1>0, <2>1, <2>3, <2>4
<1>8. ASSUME NEW b \in Sub, Dispatch(b)
      PROVE tardy' + Waiting' + InHand' <= tardy + Waiting + InHand
  <2>1. at = "tool" /\ at' = "top" /\ depth = 0 /\ depth' = 1 /\ tardy' = tardy
        /\ frame' = [frame EXCEPT ![0] = Noted("ask", "plain"), ![1] = Fresh(b, TRUE)]
    BY <1>8 DEF Dispatch, history
  <2>2. Noted("ask", "plain").left = f.left  BY NotedFits DEF Shape
  <2>3. frame'[0].left = frame[0].left  BY <1>0, <2>1, <2>2
  <2>4. Waiting' = frame[0].left /\ Waiting = 0  BY <2>1, <2>3 DEF Waiting
  <2>5. InHand' = 0 /\ InHand = frame[0].left  BY <2>1 DEF InHand
  <2> QED  BY <1>0, <2>1, <2>4, <2>5
<1>9. CASE RoundEnds
  <2>1. at = "call" /\ at' = "top" /\ depth' = depth /\ tardy' = tardy /\ f.left = 0
        /\ frame' = [frame EXCEPT ![depth] = Rounded]
    BY <1>9 DEF RoundEnds, history
  <2>2. Waiting' = Waiting  BY <1>0, <2>1 DEF Waiting
  <2>3. InHand' = 0 /\ InHand = 0  BY <1>0, <2>1 DEF InHand
  <2> QED  BY <1>0, <2>1, <2>2, <2>3
<1> QED
  BY <1>2, <1>3, <1>4, <1>5, <1>6, <1>7, <1>8, <1>9 DEF TurnStep

LEMMA TardyStep ==
  ASSUME Shape, Shape', StopBelongs, TardyInv, [Next]_vars PROVE TardyInv'
<1>1. CASE UserMessage
  <2>1. CASE Running
    BY <1>1, <2>1 DEF UserMessage, TardyInv, Waiting, InHand, history
  <2>2. CASE ~Running
    BY <1>1, <2>2 DEF UserMessage, TardyInv
  <2> QED  BY <2>1, <2>2
<1>2. CASE StopMessage
  <2>1. UNCHANGED <<at, depth, frame, tardy>> /\ asked' = (asked \/ Running)
    BY <1>2 DEF StopMessage
  <2>2. Waiting' = Waiting /\ InHand' = InHand  BY <2>1 DEF Waiting, InHand
  <2>3. Waiting < MaxCalls /\ InHand <= MaxCalls /\ Waiting \in Nat /\ InHand \in Nat
        /\ MaxCalls \in Nat
    BY LeftBounded DEF CallsBounded
  <2>4. asked => asked'  BY <2>1
  <2>5. asked \/ tardy = 0  BY DEF TardyInv
  <2>6. CASE asked
    BY <2>1, <2>2, <2>4, <2>6 DEF TardyInv
  <2>7. CASE ~asked
    <3>1. tardy' = 0  BY <2>1, <2>5, <2>7
    <3>2. tardy' + Waiting' + InHand' < 2 * MaxCalls
      BY <2>2, <2>3, <3>1
    <3> QED  BY <3>1, <3>2 DEF TardyInv
  <2> QED  BY <2>6, <2>7
<1>3. CASE Disconnect
  BY <1>3 DEF Disconnect, TardyInv, Waiting, InHand, history
<1>4. CASE TurnStep
  <2>1. CASE asked
    <3>1. tardy' + Waiting' + InHand' <= tardy + Waiting + InHand
      BY <1>4, <2>1, TurnStepCalls
    <3>2. CallsBounded /\ CallsBounded'  BY LeftBounded, PTL
    <3>3. /\ Waiting \in Nat /\ InHand \in Nat /\ tardy \in Nat /\ MaxCalls \in Nat
          /\ Waiting' \in Nat /\ InHand' \in Nat /\ tardy' \in Nat
      BY <3>2 DEF CallsBounded
    <3>4. tardy + Waiting + InHand < 2 * MaxCalls  BY <2>1 DEF TardyInv
    <3>5. tardy' + Waiting' + InHand' < 2 * MaxCalls
      BY <3>1, <3>3, <3>4, SumStaysBelow
    <3>6. asked'  BY <1>4, <2>1, TurnStepRuns
    <3> QED  BY <3>5, <3>6 DEF TardyInv
  <2>2. CASE ~asked
    <3>1. ~asked'  BY <1>4, <2>2, TurnStepRuns
    <3>2. tardy' = tardy
      BY <1>4, <2>2 DEF TurnStep, TopStopped, Request, WaitStopped, Answer, Fail, ToolCalls,
         Call, Result, JobOver, Dispatch, RoundEnds, Finish, Remembered, Leave, history
    <3> QED  BY <2>2, <3>1, <3>2 DEF TardyInv
  <2> QED  BY <2>1, <2>2
<1>5. CASE UNCHANGED vars
  BY <1>5 DEF vars, history, TardyInv, Waiting, InHand
<1> QED  BY <1>1, <1>2, <1>3, <1>4, <1>5 DEF Next

\* A stop ends the round: no request follows it, and of the calls the model
\* has asked for no more than two replies' worth, less one, begin after it.
THEOREM StopIsObeyed == Spec => []StopEndsRound
<1> DEFINE Inv == Shape /\ StopBelongs /\ TardyInv
<1>1. Init => Inv
  <2>1. Init => Shape  BY ShapeInit
  <2> QED  BY <2>1 DEF Init, StopBelongs, TardyInv, Running
<1>2. Inv /\ [Next]_vars => Inv'
  <2>1. Shape /\ [Next]_vars => Shape'  BY ShapeStep
  <2> QED  BY <2>1, StopBelongsStep, TardyStep
<1>3. Inv => StopEndsRound
  <2> SUFFICES ASSUME Inv PROVE StopEndsRound  OBVIOUS
  <2>1. Waiting \in Nat /\ InHand \in Nat /\ tardy \in Nat /\ MaxCalls \in Nat \ {0}
    BY LeftBounded DEF CallsBounded
  <2> QED  BY <2>1 DEF TardyInv, StopEndsRound
<1> QED  BY <1>1, <1>2, <1>3, PTL DEF Spec

-----------------------------------------------------------------------------
(* A job that is over                                                      *)

\* No job is over for an agent that is not there.
JobInv ==
  /\ JobEndsTools
  /\ at \in {"none", "finish", "memory", "ended"} => depth = 0 /\ ~jobOver[0]
  /\ depth = 0 => ~jobOver[1]

LEMMA JobLeaves ==
  ASSUME Shape, JobInv, NEW word, Leave(word) PROVE JobInv'
<1>1. /\ depth' = 0 /\ at' = IF depth = 1 THEN "call" ELSE "finish"
      /\ frame' = [frame EXCEPT ![depth] = Gone]
      /\ jobOver' = [jobOver EXCEPT ![depth] = FALSE]
  BY DEF Leave
<1>2. DOMAIN frame = 0 .. 1 /\ DOMAIN jobOver = 0 .. 1 /\ depth \in {0, 1}
  BY FrameFits DEF Shape, TypeOK
<1>3. ~jobOver'[1] /\ (depth = 0 => ~jobOver'[0])
  BY <1>1, <1>2 DEF JobInv
<1>4. JobEndsTools'
  BY <1>1, <1>2, GoneFrame DEF JobInv, JobEndsTools
<1> QED  BY <1>1, <1>2, <1>3, <1>4 DEF JobInv

\* The frame of the agent at work changes, and offers no tools it did not.
LEMMA JobStays ==
  ASSUME Shape, JobInv, Running, Running', at' \notin {"finish", "memory"},
         depth' = depth, jobOver' = jobOver,
         NEW g, frame' = [frame EXCEPT ![depth] = g], g.offered => f.offered
  PROVE  JobInv'
<1>1. DOMAIN frame = 0 .. 1 /\ depth \in {0, 1}
  BY FrameFits DEF Shape, TypeOK
<1>2. JobEndsTools'
  BY <1>1 DEF JobInv, JobEndsTools, f
<1>3. at' \notin {"none", "finish", "memory", "ended"}  BY DEF Running
<1> QED  BY <1>2, <1>3 DEF JobInv

LEMMA JobStep ==
  ASSUME Shape, Shape', JobInv, [Next]_vars PROVE JobInv'
<1>0. /\ DOMAIN frame = 0 .. 1 /\ DOMAIN jobOver = 0 .. 1 /\ depth \in {0, 1}
      /\ TypeOK /\ f \in Frame /\ f = frame[depth]
  BY FrameFits DEF Shape, TypeOK, Fits, f
<1>1. CASE UserMessage
  <2>1. CASE Running
    BY <1>1, <2>1 DEF UserMessage, JobInv, JobEndsTools, history
  <2>2. CASE ~Running
    <3>1. PICK a \in Agent, use \in BOOLEAN : frame' = [frame EXCEPT ![0] = Fresh(a, use)]
      BY <1>1, <2>2 DEF UserMessage
    <3>2. jobOver' = jobOver /\ depth' = 0 /\ at' = "top"
      BY <1>1, <2>2 DEF UserMessage
    <3>3. ~jobOver[0] /\ ~jobOver[1]  BY <2>2 DEF JobInv, Running
    <3> QED  BY <1>0, <3>1, <3>2, <3>3 DEF JobInv, JobEndsTools
  <2> QED  BY <2>1, <2>2
<1>2. CASE StopMessage \/ Disconnect \/ UNCHANGED vars
  <2>1. UNCHANGED <<at, depth, frame, jobOver>>
    BY <1>2 DEF StopMessage, Disconnect, vars, history
  <2> QED  BY <2>1 DEF JobInv, JobEndsTools
<1>3. CASE TopStopped \/ WaitStopped \/ Answer
  <2>1. Leave({"stopped"}) \/ Leave({})  BY <1>3 DEF TopStopped, WaitStopped, Answer
  <2> QED  BY <2>1, JobLeaves
<1>4. CASE Request
  <2>1. UNCHANGED <<depth, frame, jobOver>> /\ at' \in {"stream", "model"}
    BY <1>4 DEF Request, history
  <2> QED  BY <2>1 DEF JobInv, JobEndsTools
<1>5. CASE Fail
  <2>1. jobOver' = [d \in 0 .. 1 |-> FALSE] /\ depth' = 0  BY <1>5 DEF Fail
  <2>2. \A d \in 0 .. 1 : ~jobOver'[d]  BY <2>1
  <2> QED  BY <2>1, <2>2 DEF JobInv, JobEndsTools
<1>6. CASE Finish \/ Remembered
  <2>1. UNCHANGED <<depth, frame, jobOver>> /\ at \in {"finish", "memory"}
    BY <1>6 DEF Finish, Remembered, history
  <2> QED  BY <2>1 DEF JobInv, JobEndsTools
<1>7. ASSUME NEW n \in 1 .. MaxCalls, ToolCalls(n) PROVE JobInv'
  <2> DEFINE g == [frame[depth] EXCEPT !.left = n]
  <2>1. at = "model" /\ at' = "call" /\ depth' = depth /\ jobOver' = jobOver
        /\ frame' = [frame EXCEPT ![depth] = g]
    BY <1>7 DEF ToolCalls
  <2>2. g.offered => f.offered  BY <1>0 DEF Frame
  <2> HIDE DEF g
  <2> QED  BY <2>1, <2>2, JobStays DEF Running
<1>8. ASSUME NEW k \in Calls, Call(k) PROVE JobInv'
  <2> DEFINE g == [frame[depth] EXCEPT !.left = @ - 1, !.kind = k]
  <2>1. at = "call" /\ at' = "tool" /\ depth' = depth /\ jobOver' = jobOver
        /\ frame' = [frame EXCEPT ![depth] = g]
    BY <1>8, <1>0 DEF Call
  <2>2. g.offered => f.offered  BY <1>0 DEF Frame
  <2> HIDE DEF g
  <2> QED  BY <2>1, <2>2, JobStays DEF Running
<1>9. CASE Result
  <2>1. PICK o \in {"good", "plain", "error"} : frame' = [frame EXCEPT ![depth] = Noted(f.kind, o)]
    BY <1>9 DEF Result
  <2>2. Noted(f.kind, o).offered = f.offered  BY <1>0, NotedFits
  <2>3. at = "tool" /\ at' = "call" /\ depth' = depth /\ jobOver' = jobOver
    BY <1>9 DEF Result, history
  <2> QED  BY <2>1, <2>2, <2>3, JobStays DEF Running
<1>10. CASE JobOver
  <2> DEFINE g == [Noted("job", "plain") EXCEPT !.offered = FALSE]
  <2>1. /\ depth' = depth /\ at' = "call"
        /\ frame' = [frame EXCEPT ![depth] = g]
        /\ jobOver' = [jobOver EXCEPT ![depth] = TRUE]
    BY <1>10 DEF JobOver
  <2>2. Noted("job", "plain") \in Frame  BY <1>0, NotedFits DEF Fits
  <2>3. g.offered = FALSE  BY <2>2 DEF Frame
  <2> HIDE DEF g
  <2>4. JobEndsTools'
    BY <1>0, <2>1, <2>3 DEF JobInv, JobEndsTools
  <2>5. depth' = 0 => ~jobOver'[1]  BY <1>0, <2>1 DEF JobInv
  <2> QED  BY <2>1, <2>4, <2>5 DEF JobInv
<1>11. ASSUME NEW b \in Sub, Dispatch(b) PROVE JobInv'
  <2>1. /\ at' = "top" /\ depth = 0 /\ depth' = 1 /\ jobOver' = jobOver
        /\ frame' = [frame EXCEPT ![0] = Noted("ask", "plain"), ![1] = Fresh(b, TRUE)]
    BY <1>11 DEF Dispatch, history
  <2>2. Noted("ask", "plain").offered = frame[0].offered  BY <1>0, <2>1, NotedFits
  <2>3. frame'[0].offered = frame[0].offered  BY <1>0, <2>1, <2>2
  <2>4. ~jobOver[1]  BY <2>1 DEF JobInv
  <2>5. jobOver' = jobOver /\ at' = "top" /\ depth' = 1  BY <2>1
  <2>6. jobOver[0] => ~frame[0].offered
    <3>1. 0 \in 0 .. 1  OBVIOUS
    <3> QED  BY <3>1 DEF JobInv, JobEndsTools
  <2>7. JobEndsTools'
    <3> SUFFICES ASSUME NEW d \in 0 .. 1, jobOver'[d] PROVE ~frame'[d].offered
      BY DEF JobEndsTools
    <3>1. d = 0  BY <2>4, <2>5
    <3> QED  BY <2>3, <2>5, <2>6, <3>1
  <2> QED  BY <2>5, <2>7 DEF JobInv
<1>12. CASE RoundEnds
  <2>1. at = "call" /\ at' = "top" /\ depth' = depth /\ jobOver' = jobOver
        /\ frame' = [frame EXCEPT ![depth] = Rounded]
    BY <1>12 DEF RoundEnds, history
  <2>2. f.rnd < Cap(f.agent)
    BY <1>0, <2>1 DEF Shape, CapInv, InRound
  <2>3. Rounded.offered => f.offered  BY <1>0, <2>2, RoundedFits
  <2> QED  BY <2>1, <2>3, JobStays DEF Running
<1> QED
  BY <1>1, <1>2, <1>3, <1>4, <1>5, <1>6, <1>7, <1>8, <1>9, <1>10, <1>11, <1>12
  DEF Next, TurnStep

\* Once a tool has reported its job over, its agent gets no tools again,
\* whatever the brake and the cuts do afterwards.
THEOREM JobIsTheEnd == Spec => []JobEndsTools
<1> DEFINE Inv == Shape /\ JobInv
<1>1. Init => Inv
  <2>1. Init => Shape  BY ShapeInit
  <2>2. Init => JobInv
    BY DEF Init, JobInv, JobEndsTools
  <2> QED  BY <2>1, <2>2
<1>2. Inv /\ [Next]_vars => Inv'
  <2>1. Shape /\ [Next]_vars => Shape'  BY ShapeStep
  <2> QED  BY <2>1, JobStep
<1>3. Inv => JobEndsTools  BY DEF JobInv
<1> QED  BY <1>1, <1>2, <1>3, PTL DEF Spec

-----------------------------------------------------------------------------
(* Reading ends                                                            *)

Waits == at \in {"top", "model", "stream"}
Works == at \in {"call", "tool"}

\* Between rounds the agent has looked no longer than it has been counted
\* reading, and below the limit while it may still look; within a round that
\* has only looked, nothing but looking has been noted.
Counted ==
  /\ f.got = {} /\ f.seeing
  /\ f.agent \in Code =>
       /\ looked[depth] <= SeeLimit
       /\ f.offered /\ "look" \in f.names =>
            looked[depth] <= f.seen /\ f.seen < SeeLimit

OnlyLooks ==
  f.agent \in Code /\ looked[depth] > 0 =>
    /\ f.got = {} /\ f.seeing /\ f.offered
    /\ "look" \in f.names
    /\ looked[depth] <= f.seen + 1 /\ f.seen < SeeLimit

ReadInv ==
  /\ \A d \in 0 .. 1 : d # depth \/ ~(Waits \/ Works) => looked[d] = 0
  /\ at = "model" => f.offered
  /\ at = "tool" /\ f.kind # "look" => looked[depth] = 0
  /\ Waits => Counted
  /\ Works => OnlyLooks

LEMMA FreshCounted ==
  \A a \in Agent, use \in BOOLEAN :
    /\ Fresh(a, use).got = {} /\ Fresh(a, use).seeing
    /\ Fresh(a, use).seen = 0 /\ 0 < SeeLimit
BY TurnAssumption DEF Fresh

LEMMA BeginsCounted ==
  ASSUME NEW a \in Agent, NEW use \in BOOLEAN, f' = Fresh(a, use), looked'[depth'] = 0
  PROVE  Counted'
<1>1. Fresh(a, use).got = {} /\ Fresh(a, use).seeing /\ Fresh(a, use).seen = 0
  BY FreshCounted
<1>2. f'.got = {} /\ f'.seeing /\ f'.seen = 0
  BY <1>1, Zenon
<1>3. 0 <= SeeLimit /\ 0 < SeeLimit /\ 0 <= 0
  BY TurnAssumption
<1>4. /\ looked'[depth'] <= SeeLimit
      /\ looked'[depth'] <= f'.seen /\ f'.seen < SeeLimit
  BY <1>2, <1>3
<1> QED  BY <1>2, <1>4 DEF Counted

\* A look is noted nowhere.
LEMMA LookNotesNothing ==
  ASSUME f \in Frame, NEW outcome, f.got = {}, f.seeing
  PROVE  Noted("look", outcome).got = {} /\ Noted("look", outcome).seeing
<1> DEFINE more == {e \in {"verify", "edit", "fail"} :
                      CASE e = "verify" -> outcome = "good" /\ "look" \in Verify
                        [] e = "edit"   -> "look" \in Edit
                        [] e = "fail"   -> outcome = "error" /\ "look" \in Keep}
<1>1. more = {}
  BY DEF Verify, Edit, Keep
<1>2. f.got \union more = {}  BY <1>1
<1>3. "look" \in See  BY DEF See
<1> DEFINE got == f.got \union more
           all == f.seeing /\ "look" \in See
           mut == f.mutated \/ "look" \in Mutate
<1>4. Noted("look", outcome) =
        [f EXCEPT !.kind = "look", !.got = got, !.seeing = all, !.mutated = mut]
  BY DEF Noted
<1>5. got = {} /\ all  BY <1>2, <1>3
<1> HIDE DEF got, all, mut, more
<1> QED  BY <1>4, <1>5 DEF Frame

LEMMA RoundedClears == ASSUME TypeOK PROVE Rounded.got = {} /\ Rounded.seeing
<1> DEFINE b == NextBrake
           g == IF Braked THEN [f EXCEPT !.verified = b.verified, !.seen = b.seen,
                                         !.offered = ~b.force]
                          ELSE f
           h == IF (Braked /\ b.write) \/ Idle(g) THEN Cut(g) ELSE g
<1>1. f \in Frame  BY FrameFits DEF Fits
<1>2. b \in [verified : BOOLEAN, seen : Nat, force : BOOLEAN, write : BOOLEAN]
  BY <1>1, BrakeTypes
<1>3. Rounded = [h EXCEPT !.rnd = @ + 1, !.got = {}, !.seeing = TRUE]
  BY DEF Rounded
<1> HIDE DEF b
<1>4. g \in Frame  BY <1>1, <1>2 DEF Frame
<1> HIDE DEF g
<1>5. h \in Frame  BY <1>4 DEF Cut, Frame
<1> HIDE DEF h
<1> QED  BY <1>3, <1>5 DEF Frame

\* What the brake makes of the count: it is below the limit, or the reading is
\* cut, or the tools are gone.
LEMMA RoundedCounts ==
  ASSUME TypeOK, f.agent \in Code, OnlyLooks
  PROVE  /\ looked[depth] <= SeeLimit
         /\ Rounded.offered /\ "look" \in Rounded.names =>
              looked[depth] <= Rounded.seen /\ Rounded.seen < SeeLimit
<1> DEFINE b == NextBrake
           g == IF Braked THEN [f EXCEPT !.verified = b.verified, !.seen = b.seen,
                                         !.offered = ~b.force]
                          ELSE f
           cut == (Braked /\ b.write) \/ Idle(g)
           h == IF cut THEN Cut(g) ELSE g
<1>1. f \in Frame /\ depth \in 0 .. 1  BY FrameFits DEF Fits, TypeOK
<1>2. b \in [verified : BOOLEAN, seen : Nat, force : BOOLEAN, write : BOOLEAN]
  BY <1>1, BrakeTypes
<1>3. looked[depth] \in Nat /\ f.seen \in Nat /\ SeeLimit \in Nat \ {0}
  BY <1>1, TurnAssumption DEF TypeOK, Frame
<1>4. looked[depth] <= SeeLimit
  BY <1>3 DEF OnlyLooks
<1>5. ~b.force /\ ~b.write => b.seen < SeeLimit
  <2> DEFINE rest == "fail" \notin f.got /\ "verify" \notin f.got /\ "edit" \notin f.got
             v    == IF "fail" \in f.got THEN FALSE
                     ELSE "verify" \in f.got \/ ("edit" \notin f.got /\ f.verified)
             n    == IF rest /\ f.seeing THEN f.seen + 1 ELSE 0
  <2>1. b = [verified |-> v, seen |-> n, force |-> v /\ rest /\ f.seeing,
             write |-> ~v /\ n >= SeeLimit]
    BY DEF NextBrake
  <2>2. n \in Nat /\ (n = 0 \/ (rest /\ f.seeing))  BY <1>3
  <2> HIDE DEF rest, v, n
  <2>3. (b.force <=> v /\ rest /\ f.seeing) /\ (b.write <=> ~v /\ n >= SeeLimit) /\ b.seen = n
    BY <2>1
  <2> HIDE DEF b
  <2> QED  BY <2>2, <2>3, <1>3
<1>6. looked[depth] > 0 => b.seen = f.seen + 1
  BY <1>1 DEF NextBrake, OnlyLooks
<1>7. looked[depth] <= b.seen
  BY <1>2, <1>3, <1>6 DEF OnlyLooks
<1>8. Rounded = [h EXCEPT !.rnd = @ + 1, !.got = {}, !.seeing = TRUE]
  BY DEF Rounded
<1> HIDE DEF b
<1>9. /\ g \in Frame
      /\ Braked => g.seen = b.seen /\ g.offered = ~b.force
      /\ ~Braked => ~g.offered
  BY <1>1, <1>2 DEF Braked, Frame
<1>10. cut \/ ~Braked \/ ~b.write  OBVIOUS
<1> HIDE DEF g, cut
<1>11. h \in Frame /\ h.seen = g.seen
  BY <1>9 DEF Cut, Frame
<1>12. cut => "look" \notin h.names
  BY <1>9 DEF Cut, Frame, Keep
<1>13. ~cut => h = g  OBVIOUS
<1> HIDE DEF h
<1>14. /\ Rounded.seen = h.seen
       /\ Rounded.names = h.names /\ Rounded.offered = h.offered
  BY <1>8, <1>11 DEF Frame
<1>15. ASSUME Rounded.offered, "look" \in Rounded.names
       PROVE looked[depth] <= Rounded.seen /\ Rounded.seen < SeeLimit
  <2>1. ~cut /\ g.offered  BY <1>12, <1>13, <1>14, <1>15
  <2>2. Braked /\ ~b.force /\ ~b.write  BY <2>1, <1>9, <1>10
  <2>3. Rounded.seen = b.seen  BY <2>2, <1>9, <1>11, <1>14
  <2> QED  BY <2>2, <2>3, <1>5, <1>7
<1> QED  BY <1>4, <1>14, <1>15

\* The agent of this turn is done: nothing is counted of it any more, and the
\* agent that asked it has not been looking.
LEMMA ReadLeaves ==
  ASSUME Shape, ReadInv, Running, NEW word, Leave(word) PROVE ReadInv'
<1>1. /\ depth' = 0 /\ at' = IF depth = 1 THEN "call" ELSE "finish"
      /\ looked' = [looked EXCEPT ![depth] = 0]
  BY DEF Leave
<1>2. DOMAIN looked = 0 .. 1 /\ depth \in {0, 1}
  BY FrameFits DEF Shape, TypeOK
<1>3. \A d \in 0 .. 1 : looked'[d] = 0
  BY <1>1, <1>2 DEF ReadInv
<1>4. OnlyLooks'  BY <1>1, <1>3 DEF OnlyLooks
<1>5. ~Waits'  BY <1>1 DEF Waits
<1>6. at' \notin {"model", "tool"}  BY <1>1
<1> QED  BY <1>3, <1>4, <1>5, <1>6 DEF ReadInv

\* The frame of the agent at work changes, and the agent stays at work.
LEMMA ReadStays ==
  ASSUME Shape, ReadInv, Waits \/ Works, depth' = depth,
         at' \in {"top", "call", "tool"},
         NEW g, frame' = [frame EXCEPT ![depth] = g],
         NEW n, looked' = [looked EXCEPT ![depth] = n],
         at' = "tool" /\ g.kind # "look" => n = 0,
         at' = "top" => /\ g.got = {} /\ g.seeing
                        /\ g.agent \in Code =>
                             /\ n <= SeeLimit
                             /\ g.offered /\ "look" \in g.names =>
                                  n <= g.seen /\ g.seen < SeeLimit,
         at' # "top" => (g.agent \in Code /\ n > 0 =>
                           /\ g.got = {} /\ g.seeing /\ g.offered
                           /\ "look" \in g.names
                           /\ n <= g.seen + 1 /\ g.seen < SeeLimit)
  PROVE  ReadInv'
<1>1. /\ DOMAIN frame = 0 .. 1 /\ DOMAIN looked = 0 .. 1 /\ depth \in 0 .. 1
  BY DEF Shape, TypeOK
<1>2. f' = g /\ looked'[depth'] = n /\ \A d \in 0 .. 1 : d # depth => looked'[d] = looked[d]
  BY <1>1 DEF f
<1>3. \A d \in 0 .. 1 : d # depth' \/ ~(Waits' \/ Works') => looked'[d] = 0
  BY <1>2 DEF ReadInv, Waits, Works
<1>4. Waits' => Counted'  BY <1>2 DEF Waits, Counted
<1>5. Works' => OnlyLooks'  BY <1>2 DEF Works, OnlyLooks
<1>6. at' # "model" /\ (at' = "tool" /\ f'.kind # "look" => looked'[depth'] = 0)
  BY <1>2
<1> QED  BY <1>3, <1>4, <1>5, <1>6 DEF ReadInv

LEMMA ReadMessage == ASSUME Shape, ReadInv, UserMessage PROVE ReadInv'
<1>1. CASE Running
  <2>1. UNCHANGED <<at, depth, frame, looked>>
    BY <1>1 DEF UserMessage, history
  <2> QED  BY <2>1 DEF ReadInv, Waits, Works, Counted, OnlyLooks, f
<1>2. CASE ~Running
  <2>1. PICK a \in Agent, use \in BOOLEAN : frame' = [frame EXCEPT ![0] = Fresh(a, use)]
    BY <1>2 DEF UserMessage
  <2>2. at' = "top" /\ depth' = 0 /\ looked' = looked
    BY <1>2 DEF UserMessage
  <2>3. \A d \in 0 .. 1 : looked[d] = 0
    BY <1>2 DEF ReadInv, Waits, Works, Running
  <2>4. f' = Fresh(a, use) /\ looked'[depth'] = 0
    BY <2>1, <2>2, <2>3 DEF Shape, TypeOK, f
  <2>5. Counted'
    BY <2>4, BeginsCounted
  <2>6. at' \notin {"model", "tool"} /\ ~Works'  BY <2>2 DEF Works
  <2> QED  BY <2>2, <2>3, <2>5, <2>6 DEF ReadInv
<1> QED  BY <1>1, <1>2

LEMMA ReadToolCalls ==
  ASSUME Shape, ReadInv, NEW n \in 1 .. MaxCalls, ToolCalls(n) PROVE ReadInv'
<1> DEFINE g == [frame[depth] EXCEPT !.left = n]
           m == IF "look" \in f.names THEN looked[depth] + 1 ELSE 0
<1>0. f \in Frame /\ f = frame[depth] /\ depth \in 0 .. 1 /\ looked \in [0 .. 1 -> Nat]
      /\ SeeLimit \in Nat
  BY FrameFits, TurnAssumption DEF Fits, Shape, TypeOK, f
<1>1. /\ at = "model" /\ at' = "call" /\ depth' = depth
      /\ frame' = [frame EXCEPT ![depth] = g]
      /\ looked' = [looked EXCEPT ![depth] = m]
  BY <1>0 DEF ToolCalls
<1>2. g.agent = f.agent /\ g.got = f.got /\ g.seeing = f.seeing /\ g.offered = f.offered
      /\ g.names = f.names /\ g.seen = f.seen /\ f.seen \in Nat
  BY <1>0 DEF Frame
<1>3. Waits /\ f.offered /\ Counted
  BY <1>1 DEF ReadInv, Waits
<1>4. f.agent \in Code /\ m > 0 => "look" \in f.names  OBVIOUS
<1>5. f.agent \in Code /\ m > 0 => m <= f.seen + 1 /\ f.seen < SeeLimit
  BY <1>0, <1>2, <1>3 DEF Counted
<1> HIDE DEF g, m
<1>6. f.got = {} /\ f.seeing  BY <1>3 DEF Counted
<1> QED  BY <1>1, <1>2, <1>3, <1>4, <1>5, <1>6, ReadStays

LEMMA ReadCall ==
  ASSUME Shape, ReadInv, NEW k \in Kind, Call(k) PROVE ReadInv'
<1> DEFINE g == [frame[depth] EXCEPT !.left = @ - 1, !.kind = k]
           m == IF k = "look" /\ k \in f.names THEN looked[depth] ELSE 0
<1>0. f \in Frame /\ f = frame[depth] /\ depth \in 0 .. 1 /\ looked \in [0 .. 1 -> Nat]
  BY FrameFits DEF Fits, Shape, TypeOK, f
<1>1. /\ at = "call" /\ at' = "tool" /\ depth' = depth
      /\ frame' = [frame EXCEPT ![depth] = g]
      /\ looked' = [looked EXCEPT ![depth] = m]
  <2>1. looked' = IF k = "look" /\ k \in f.names THEN looked ELSE [looked EXCEPT ![depth] = 0]
    BY DEF Call
  <2>2. looked = [looked EXCEPT ![depth] = looked[depth]]  BY <1>0
  <2>3. looked' = [looked EXCEPT ![depth] = m]  BY <2>1, <2>2
  <2> QED  BY <1>0, <2>3 DEF Call
<1>2. g.agent = f.agent /\ g.got = f.got /\ g.seeing = f.seeing /\ g.offered = f.offered
      /\ g.names = f.names /\ g.seen = f.seen /\ g.kind = k
  BY <1>0 DEF Frame
<1>3. Works /\ OnlyLooks
  BY <1>1 DEF ReadInv, Works
<1>4. m = 0 \/ m = looked[depth]  OBVIOUS
<1>5. k # "look" => m = 0  OBVIOUS
<1> HIDE DEF g, m
<1>6. f.agent \in Code /\ m > 0 =>
        /\ f.got = {} /\ f.seeing /\ f.offered /\ "look" \in f.names
        /\ m <= f.seen + 1 /\ f.seen < SeeLimit
  BY <1>3, <1>4 DEF OnlyLooks
<1> QED  BY <1>1, <1>2, <1>3, <1>5, <1>6, ReadStays

LEMMA ReadResult == ASSUME Shape, ReadInv, Result PROVE ReadInv'
<1>0. f \in Frame /\ f = frame[depth] /\ depth \in 0 .. 1 /\ looked \in [0 .. 1 -> Nat]
  BY FrameFits DEF Fits, Shape, TypeOK, f
<1>1. PICK o \in {"good", "plain", "error"} : frame' = [frame EXCEPT ![depth] = Noted(f.kind, o)]
  BY DEF Result
<1>2. at = "tool" /\ at' = "call" /\ depth' = depth /\ looked' = looked
  BY DEF Result, history
<1>3. Works /\ OnlyLooks
  BY <1>2 DEF ReadInv, Works
<1>4. /\ Noted(f.kind, o).agent = f.agent /\ Noted(f.kind, o).offered = f.offered
      /\ Noted(f.kind, o).names = f.names /\ Noted(f.kind, o).seen = f.seen
  BY NotedFits DEF Shape
<1>5. looked' = [looked EXCEPT ![depth] = looked[depth]]  BY <1>0, <1>2
<1>6. looked[depth] > 0 => f.kind = "look"
  BY <1>0, <1>2 DEF ReadInv
<1>7. f.agent \in Code /\ looked[depth] > 0 =>
        /\ Noted(f.kind, o).got = {} /\ Noted(f.kind, o).seeing
        /\ f.offered /\ "look" \in f.names
        /\ looked[depth] <= f.seen + 1 /\ f.seen < SeeLimit
  BY <1>0, <1>3, <1>6, LookNotesNothing DEF OnlyLooks
<1> QED  BY <1>1, <1>2, <1>3, <1>4, <1>5, <1>7, ReadStays

LEMMA ReadJobOver == ASSUME Shape, ReadInv, JobOver PROVE ReadInv'
<1> DEFINE g == [Noted("job", "plain") EXCEPT !.offered = FALSE]
<1>0. depth \in 0 .. 1 /\ looked \in [0 .. 1 -> Nat]
  BY DEF Shape, TypeOK
<1>1. /\ at = "tool" /\ at' = "call" /\ depth' = depth /\ looked' = looked
      /\ frame' = [frame EXCEPT ![depth] = g] /\ f.kind = "job"
  BY DEF JobOver
<1>2. looked[depth] = 0  BY <1>1 DEF ReadInv
<1>3. looked' = [looked EXCEPT ![depth] = 0]  BY <1>0, <1>1, <1>2
<1>4. Works  BY <1>1 DEF Works
<1>5. ~(0 > 0)  OBVIOUS
<1> HIDE DEF g
<1> QED  BY <1>1, <1>3, <1>4, <1>5, ReadStays

\* The asked agent begins with nothing counted; the one that asks has just
\* done something else than look.
LEMMA ReadDispatch == ASSUME Shape, ReadInv, NEW b \in Sub, Dispatch(b) PROVE ReadInv'
<1>1. /\ at = "tool" /\ at' = "top" /\ depth = 0 /\ depth' = 1 /\ looked' = looked
      /\ frame' = [frame EXCEPT ![0] = Noted("ask", "plain"), ![1] = Fresh(b, TRUE)]
      /\ f.kind = "ask"
  BY DEF Dispatch, history
<1>2. \A d \in 0 .. 1 : looked'[d] = 0  BY <1>1 DEF ReadInv
<1>3. f' = Fresh(b, TRUE)
  BY <1>1 DEF Shape, TypeOK, f
<1>4. Counted'
  <2>1. looked'[depth'] = 0  BY <1>1, <1>2
  <2>2. b \in Agent  BY TurnAssumption
  <2> QED  BY <1>3, <2>1, <2>2, BeginsCounted
<1>5. ~Works' /\ at' \notin {"model", "tool"}  BY <1>1 DEF Works
<1> QED  BY <1>2, <1>4, <1>5 DEF ReadInv

LEMMA ReadRoundEnds == ASSUME Shape, ReadInv, RoundEnds PROVE ReadInv'
<1>0. f = frame[depth] /\ depth \in 0 .. 1 /\ looked \in [0 .. 1 -> Nat] /\ TypeOK
  BY DEF Shape, TypeOK, f
<1>1. at = "call" /\ at' = "top" /\ depth' = depth /\ looked' = looked
      /\ frame' = [frame EXCEPT ![depth] = Rounded]
  BY DEF RoundEnds, history
<1>2. Works /\ OnlyLooks  BY <1>1 DEF ReadInv, Works
<1>3. looked' = [looked EXCEPT ![depth] = looked[depth]]  BY <1>0, <1>1
<1>4. f.rnd < Cap(f.agent)
  BY <1>0, <1>1 DEF Shape, CapInv, InRound
<1>5. Rounded.agent = f.agent  BY <1>0, <1>4, RoundedFits
<1>6. Rounded.got = {} /\ Rounded.seeing  BY RoundedClears DEF Shape
<1>7. f.agent \in Code =>
        /\ looked[depth] <= SeeLimit
        /\ Rounded.offered /\ "look" \in Rounded.names =>
             looked[depth] <= Rounded.seen /\ Rounded.seen < SeeLimit
  BY <1>0, <1>2, RoundedCounts
<1> QED  BY <1>1, <1>2, <1>3, <1>5, <1>6, <1>7, ReadStays

LEMMA ReadStep == ASSUME Shape, ReadInv, [Next]_vars PROVE ReadInv'
<1>1. CASE UserMessage  BY <1>1, ReadMessage
<1>2. CASE StopMessage \/ Disconnect \/ UNCHANGED vars
  <2>1. UNCHANGED <<at, depth, frame, looked>>
    BY <1>2 DEF StopMessage, Disconnect, vars, history
  <2> QED  BY <2>1 DEF ReadInv, Waits, Works, Counted, OnlyLooks, f
<1>3. CASE TopStopped \/ WaitStopped \/ Answer
  <2>1. Leave({"stopped"}) \/ Leave({})  BY <1>3 DEF TopStopped, WaitStopped, Answer
  <2>2. Running  BY <1>3 DEF TopStopped, WaitStopped, Answer, Running
  <2> QED  BY <2>1, <2>2, ReadLeaves
<1>4. CASE Request
  <2>1. /\ UNCHANGED <<depth, frame, looked>> /\ at = "top"
        /\ at' = IF Last THEN "stream" ELSE "model"
    BY <1>4 DEF Request, history
  <2>2. at' = "model" => f.offered  BY <2>1 DEF Last
  <2>3. f' = f  BY <2>1 DEF f
  <2>4. Waits /\ Waits' /\ ~Works' /\ at' # "tool"  BY <2>1 DEF Waits, Works
  <2> QED  BY <2>1, <2>2, <2>3, <2>4 DEF ReadInv, Counted
<1>5. CASE Fail
  <2>1. looked' = [d \in 0 .. 1 |-> 0] /\ at' = "memory"  BY <1>5 DEF Fail
  <2>2. \A d \in 0 .. 1 : looked'[d] = 0  BY <2>1
  <2> QED  BY <2>1, <2>2 DEF ReadInv, Waits, Works
<1>6. CASE Finish \/ Remembered
  <2>1. looked' = looked /\ at \in {"finish", "memory"} /\ at' \in {"memory", "ended"}
    BY <1>6 DEF Finish, Remembered, history
  <2>2. \A d \in 0 .. 1 : looked[d] = 0  BY <2>1 DEF ReadInv, Waits, Works
  <2> QED  BY <2>1, <2>2 DEF ReadInv, Waits, Works
<1>7. ASSUME NEW n \in 1 .. MaxCalls, ToolCalls(n) PROVE ReadInv'  BY <1>7, ReadToolCalls
<1>8. ASSUME NEW k \in Calls, Call(k) PROVE ReadInv'
  BY <1>8, ReadCall, TurnAssumption
<1>9. CASE Result  BY <1>9, ReadResult
<1>10. CASE JobOver  BY <1>10, ReadJobOver
<1>11. ASSUME NEW b \in Sub, Dispatch(b) PROVE ReadInv'  BY <1>11, ReadDispatch
<1>12. CASE RoundEnds  BY <1>12, ReadRoundEnds
<1> QED
  BY <1>1, <1>2, <1>3, <1>4, <1>5, <1>6, <1>7, <1>8, <1>9, <1>10, <1>11, <1>12
  DEF Next, TurnStep

\* A code-desk agent never spends more than WRITE_NUDGE_AT rounds in a row
\* doing nothing but look, whatever the tools answer and however the brake,
\* the two cuts and a job that is over meet.
THEOREM ReadingIsCut == Spec => []ReadingEnds
<1> DEFINE Inv == Shape /\ ReadInv
<1>1. Init => Inv
  <2>1. Init => Shape  BY ShapeInit
  <2>2. Init => ReadInv  BY DEF Init, ReadInv, Waits, Works
  <2> QED  BY <2>1, <2>2
<1>2. Inv /\ [Next]_vars => Inv'
  <2>1. Shape /\ [Next]_vars => Shape'  BY ShapeStep
  <2> QED  BY <2>1, ReadStep
<1>3. Inv => ReadingEnds
  <2> SUFFICES ASSUME Inv, NEW d \in 0 .. 1, frame[d].agent \in Code, ~Works
               PROVE  looked[d] <= SeeLimit
    BY DEF ReadingEnds, Works
  <2>1. CASE d = depth /\ Waits
    BY <2>1 DEF ReadInv, Counted, f
  <2>2. CASE ~(d = depth /\ Waits)
    <3>1. looked[d] = 0  BY <2>2 DEF ReadInv
    <3> QED  BY <3>1, TurnAssumption
  <2> QED  BY <2>1, <2>2
<1> QED  BY <1>1, <1>2, <1>3, PTL DEF Spec

=============================================================================
