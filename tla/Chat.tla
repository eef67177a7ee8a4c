-------------------------------- MODULE Chat --------------------------------
(***************************************************************************)
(* The Orchestrator's chat: a socket serves one frame at a time, decides   *)
(* who answers it, runs one delivery agent's graph in the socket's own     *)
(* context, files what the agent produced and keeps both sides of the turn *)
(* in the run's transcript.  Several sockets may talk on one run: a second *)
(* tab, or a reconnection while the first socket is still waiting for a    *)
(* graph and has not noticed that its peer left.                           *)
(*                                                                         *)
(* Sources: orchestrator2/ws.py, dispatch.py, router.py (what route may    *)
(* return), sessions.py and deliverables.py, and conversation_service.py.  *)
(*                                                                         *)
(* A reply is only whether any text of it reached the client; a resolved   *)
(* model is the project it was resolved for.                               *)
(***************************************************************************)
EXTENDS Integers, FiniteSetsExt

CONSTANTS
    Sockets, Runs, Projects,
    Agents,      \* AGENT_IDS
    Streaming,   \* the agents whose capability has mode "stream"
    ProjectOf,   \* the project of a run, None for one that has none
    Roster,      \* the portfolio of the run's track
    MaxFrames,   \* frames received in all, a bound
    None

ASSUME RunsAssumption ==
    /\ Streaming \subseteq Agents
    /\ ProjectOf \in [Runs -> Projects \cup {None}]
    /\ Roster \in [Runs -> SUBSET Agents]
    /\ MaxFrames \in Nat
    /\ None \notin Runs \cup Projects \cup Agents \cup Nat

VARIABLES
    pc,            \* where each socket's loop stands
    turn,          \* the frame in hand
    wire,          \* what the client was sent since it sent its frame
    ctx,           \* the context variables of the socket's task
    last,          \* last_agent, per connection
    read,          \* the greatest seq an append under way has seen
    sessions,      \* the runs that have a conversation row
    transcript,    \* the messages of a run's conversation
    deliverables,  \* the rows captured from turns
    frames,        \* frames received so far
    heard,         \* history: the agents that said something on this connection
    talkers,       \* history: the sockets that had a turn on a run
    lost           \* history: why a run's messages were not kept

vars == <<pc, turn, wire, ctx, last, read, sessions, transcript, deliverables,
          frames, heard, talkers, lost>>

kept == <<read, sessions, transcript, talkers, lost>>

-----------------------------------------------------------------------------
(* The frame in hand, its events and the context it runs in.              *)

Turns == [run : Runs \cup {None}, agent : Agents \cup {None},
          said : BOOLEAN, ran : BOOLEAN, cut : BOOLEAN]

Wires == [asked : BOOLEAN, selected : Agents \cup {None}, text : BOOLEAN,
          error : BOOLEAN, ends : Nat, late : BOOLEAN]

Contexts == [project : Projects \cup {None}, model : Projects \cup {None},
             session : Runs \cup {None}]

Idle == [run |-> None, agent |-> None, said |-> FALSE, ran |-> FALSE, cut |-> FALSE]

Silence == [asked |-> FALSE, selected |-> None, text |-> FALSE, error |-> FALSE,
            ends |-> 0, late |-> FALSE]

\* A frame has arrived, and nothing was sent for it yet.
Asked == [Silence EXCEPT !.asked = TRUE]

Bound(project, model, session) ==
    [project |-> project, model |-> model, session |-> session]

Clear == Bound(None, None, None)

Places == {"listen", "checked", "question", "direct", "say", "enter", "resolve",
           "graph", "capture", "ending", "reply", "gone", "dropped"}

\* One event more on the wire; an event after stream_end is late.
Sent(w, event) ==
    [w EXCEPT !.text = @ \/ event = "text",
              !.error = @ \/ event = "error",
              !.ends = IF event = "end" THEN @ + 1 ELSE @,
              !.late = @ \/ w.ends > 0]

\* agent_selected names the agent that is about to run.
Announced(w, agent) == [w EXCEPT !.selected = agent, !.late = @ \/ w.ends > 0]

\* Mutant of Failed: a failure that forgets to end the turn.
FailedOpen(w) == Sent(w, "error")

\* A typed failure that still ends the turn.
Failed(w) == Sent(Sent(w, "error"), "end")

Rows == [seq : Nat, by : Sockets, role : {"user", "orchestrator", "agent"}]

TypeOK ==
    /\ pc \in [Sockets -> Places]
    /\ turn \in [Sockets -> Turns]
    /\ wire \in [Sockets -> Wires]
    /\ ctx \in [Sockets -> Contexts]
    /\ last \in [Sockets -> Agents \cup {None}]
    /\ read \in [Sockets -> Nat \cup {None}]
    /\ sessions \subseteq Runs
    /\ transcript \in [Runs -> SUBSET Rows]
    /\ deliverables \subseteq [run : Runs, agent : Agents, cut : BOOLEAN]
    /\ frames \in 0..MaxFrames
    /\ heard \in [Sockets -> SUBSET Agents]
    /\ talkers \in [Runs -> SUBSET Sockets]
    /\ lost \in [Runs -> SUBSET {"database", "clash"}]

Init ==
    /\ pc = [s \in Sockets |-> "listen"]
    /\ turn = [s \in Sockets |-> Idle]
    /\ wire = [s \in Sockets |-> Silence]
    /\ ctx = [s \in Sockets |-> Clear]
    /\ last = [s \in Sockets |-> None]
    /\ read = [s \in Sockets |-> None]
    /\ sessions = {}
    /\ transcript = [r \in Runs |-> {}]
    /\ deliverables = {}
    /\ frames = 0
    /\ heard = [s \in Sockets |-> {}]
    /\ talkers = [r \in Runs |-> {}]
    /\ lost = [r \in Runs |-> {}]

Go(s, place) == pc' = [pc EXCEPT ![s] = place]

Tell(s, w) == wire' = [wire EXCEPT ![s] = w]

-----------------------------------------------------------------------------
(* Receiving a frame and deciding who answers it.                          *)

\* A frame that is too large, no JSON object, of another type or without text
\* or run, a run that is not this tenant's, or one whose project the caller
\* does not administer.
Refuse(s) ==
    /\ pc[s] = "listen"
    /\ frames < MaxFrames
    /\ frames' = frames + 1
    /\ Tell(s, Failed(Asked))
    /\ UNCHANGED <<pc, turn, ctx, last, deliverables, heard, kept>>

\* A frame whose text, agent or run_id is a value that is not a string: strip
\* raises outside the turn's try, and the server ends the socket unanswered.
Choke(s) ==
    /\ pc[s] = "listen"
    /\ frames < MaxFrames
    /\ frames' = frames + 1
    /\ Tell(s, Asked)
    /\ Go(s, "dropped")
    /\ UNCHANGED <<turn, ctx, last, deliverables, heard, kept>>

\* The run and the caller's standing on its project are verified, then the
\* run's conversation row is made sure of; its failure is swallowed.
Accept(s) ==
    /\ pc[s] = "listen"
    /\ frames < MaxFrames
    /\ frames' = frames + 1
    /\ \E r \in Runs :
         /\ ProjectOf[r] # None
         /\ turn' = [turn EXCEPT ![s] = [Idle EXCEPT !.run = r]]
         /\ talkers' = [talkers EXCEPT ![r] = @ \cup {s}]
         /\ \/ sessions' = sessions \cup {r} /\ UNCHANGED lost
            \/ /\ r \notin sessions
               /\ lost' = [lost EXCEPT ![r] = @ \cup {"database"}]
               /\ UNCHANGED sessions
    /\ Tell(s, Asked)
    /\ Go(s, "checked")
    /\ UNCHANGED <<ctx, last, read, transcript, deliverables, heard>>

\* An agent the frame names is any known one; one the router chooses is in the
\* portfolio of the run's track.
Candidates(r, named) == IF named THEN Agents ELSE Roster[r]

Choose(s) ==
    /\ pc[s] = "checked"
    /\ \E named \in BOOLEAN : \E a \in Candidates(turn[s].run, named) :
         turn' = [turn EXCEPT ![s].agent = a]
    /\ Go(s, "question")
    /\ UNCHANGED <<wire, ctx, last, deliverables, frames, heard, kept>>

\* The router answers by itself.
AnswerDirectly(s) ==
    /\ pc[s] = "checked"
    /\ Go(s, "question")
    /\ UNCHANGED <<turn, wire, ctx, last, deliverables, frames, heard, kept>>

\* A document, tool or hand-off read failed, the router could not reach its
\* model, or the frame named an agent that does not exist.
FailToChoose(s) ==
    /\ pc[s] = "checked"
    /\ Tell(s, Failed(wire[s]))
    /\ turn' = [turn EXCEPT ![s] = Idle]
    /\ Go(s, "listen")
    /\ UNCHANGED <<ctx, last, deliverables, frames, heard, kept>>

-----------------------------------------------------------------------------
(* Keeping the transcript: append_message reads the greatest seq and       *)
(* inserts the next one, in two statements; persist_turn swallows whatever *)
(* goes wrong.                                                             *)

Recording == {"question", "direct", "reply"}

\* Mutant of NextSeq: the last number is taken for the next one.
NextSeqAgain(n) == n

NextSeq(n) == n + 1

Message(s) ==
    [seq |-> NextSeq(read[s]), by |-> s,
     role |-> CASE pc[s] = "question" -> "user"
                [] pc[s] = "direct" -> "orchestrator"
                [] pc[s] = "reply" -> "agent"]

\* Where the loop goes once the message is recorded, or lost.
Onwards(s) ==
    CASE pc[s] = "question" -> IF turn[s].agent = None THEN "direct" ELSE "enter"
      [] pc[s] = "direct" -> "say"
      [] pc[s] = "reply" -> "listen"

\* The numbers taken in a run's transcript, and the greatest of them or 0.
Taken(r) == {m.seq : m \in transcript[r]}

LastSeq(r) == Max(Taken(r) \cup {0})

ReadSeq(s) ==
    /\ pc[s] \in Recording
    /\ read[s] = None
    /\ read' = [read EXCEPT ![s] = LastSeq(turn[s].run)]
    /\ UNCHANGED <<pc, turn, wire, ctx, last, sessions, transcript, deliverables,
                   frames, heard, talkers, lost>>

Insert(s) ==
    LET r == turn[s].run
        taken == NextSeq(read[s]) \in Taken(r)
    IN  /\ pc[s] \in Recording
        /\ read[s] # None
        /\ \/ /\ r \in sessions /\ ~taken
              /\ transcript' = [transcript EXCEPT ![r] = @ \cup {Message(s)}]
              /\ UNCHANGED lost
           \/ /\ r \in sessions /\ taken
              /\ lost' = [lost EXCEPT ![r] = @ \cup {"clash"}]
              /\ UNCHANGED transcript
           \/ /\ lost' = [lost EXCEPT ![r] = @ \cup {"database"}]
              /\ UNCHANGED transcript
        /\ read' = [read EXCEPT ![s] = None]
        /\ turn' = [turn EXCEPT ![s] = IF pc[s] = "reply" THEN Idle ELSE @]
        /\ Go(s, Onwards(s))
        /\ UNCHANGED <<wire, ctx, last, sessions, deliverables, frames, heard, talkers>>

SayDirectly(s) ==
    /\ pc[s] = "say"
    /\ Tell(s, Sent(Sent(wire[s], "text"), "end"))
    /\ turn' = [turn EXCEPT ![s] = Idle]
    /\ Go(s, "listen")
    /\ UNCHANGED <<ctx, last, deliverables, frames, heard, kept>>

-----------------------------------------------------------------------------
(* run_agent.                                                              *)

\* The agents that dispatch will run for a run, whoever asked for them.
Runnable(r) == Roster[r]

\* Mutant of Completed: a turn is captured whichever way it ended.
CompletedAnyhow(how) == TRUE

\* The capture follows a graph that ran to its end, and the branch that found
\* no usable model.
Completed(how) == how \in {"finished", "refused"}

\* What run_agent does after the graph, or without it: the context is cleared,
\* and the turn goes to its capture or straight to its end.
Finish(s, how, w) ==
    /\ ctx' = [ctx EXCEPT ![s] = Clear]
    /\ Tell(s, w)
    /\ Go(s, IF Completed(how) THEN "capture" ELSE "ending")

\* run_agent clears the model and the project of the previous turn first, and
\* announces the agent before anything can fail.
Enter(s) ==
    LET a == turn[s].agent
        fresh(project) == Bound(project, None, ctx[s].session)
    IN  /\ pc[s] = "enter"
        /\ IF a \in Runnable(turn[s].run)
           THEN /\ Tell(s, Announced(wire[s], a))
                /\ ctx' = [ctx EXCEPT ![s] = fresh(ProjectOf[turn[s].run])]
                /\ Go(s, "resolve")
           ELSE /\ Tell(s, Sent(wire[s], "error"))
                /\ ctx' = [ctx EXCEPT ![s] = fresh(None)]
                /\ Go(s, "ending")
        /\ UNCHANGED <<turn, last, deliverables, frames, heard, kept>>

\* The model is resolved for the run's project, and the agent's own context
\* names the run, before the graph starts.
Resolve(s) ==
    /\ pc[s] = "resolve"
    /\ turn' = [turn EXCEPT ![s].ran = TRUE]
    /\ ctx' = [ctx EXCEPT ![s] = Bound(@.project, ProjectOf[turn[s].run], turn[s].run)]
    /\ Go(s, "graph")
    /\ UNCHANGED <<wire, last, deliverables, frames, heard, kept>>

\* No usable model, or one that the project may not use.
FindNoModel(s) ==
    /\ pc[s] = "resolve"
    /\ Finish(s, "refused", Sent(wire[s], "error"))
    /\ UNCHANGED <<turn, last, deliverables, frames, heard, kept>>

\* A streaming agent says something.
Chunk(s) ==
    /\ pc[s] = "graph"
    /\ turn[s].agent \in Streaming
    /\ Tell(s, Sent(wire[s], "text"))
    /\ turn' = [turn EXCEPT ![s].said = TRUE]
    /\ heard' = [heard EXCEPT ![s] = @ \cup {turn[s].agent}]
    /\ UNCHANGED <<pc, ctx, last, deliverables, frames, kept>>

\* The graph ends.  An agent that is invoked says everything now, and an empty
\* reply of it is an error; a streaming one has said what it had to say.
End(s) ==
    LET a == turn[s].agent
    IN  /\ pc[s] = "graph"
        /\ \/ /\ a \in Streaming
              /\ Finish(s, "finished", wire[s])
              /\ UNCHANGED <<turn, heard>>
           \/ /\ a \notin Streaming
              /\ turn' = [turn EXCEPT ![s].said = TRUE]
              /\ heard' = [heard EXCEPT ![s] = @ \cup {a}]
              /\ Finish(s, "finished", Sent(wire[s], "text"))
           \/ /\ a \notin Streaming
              /\ Finish(s, "finished", Sent(wire[s], "error"))
              /\ UNCHANGED <<turn, heard>>
        /\ UNCHANGED <<last, deliverables, frames, kept>>

\* A budget is spent, the graph cannot be loaded, or it raises.
Raise(s) ==
    /\ pc[s] \in {"resolve", "graph"}
    /\ turn' = [turn EXCEPT ![s].cut = TRUE]
    /\ Finish(s, "raised", Sent(wire[s], "error"))
    /\ UNCHANGED <<last, deliverables, frames, heard, kept>>

\* Mutant of Closed: the generator is abandoned, and its finally runs in a task
\* of its own, on a copy of the context.
ClosedElsewhere(c) == c

\* What is left of the socket's context when run_agent is closed at a yield:
\* aclosing runs its finally in the socket's own task.
Closed(c) == Clear

\* An event that cannot be encoded: the generator is closed where it stands,
\* the client is told, and the socket keeps serving.
Unsendable(s) ==
    /\ pc[s] = "graph"
    /\ ctx' = [ctx EXCEPT ![s] = Closed(@)]
    /\ Tell(s, Failed(wire[s]))
    /\ turn' = [turn EXCEPT ![s] = Idle]
    /\ Go(s, "listen")
    /\ UNCHANGED <<last, deliverables, frames, heard, kept>>

\* What the turn produced is filed: the reply or a tool's document, if either
\* is one.  A write that fails is told to the client and costs no turn.
Capture(s) ==
    /\ pc[s] = "capture"
    /\ \/ UNCHANGED <<wire, deliverables>>
       \/ /\ turn[s].ran
          /\ deliverables' = deliverables \cup
               {[run |-> turn[s].run, agent |-> turn[s].agent, cut |-> turn[s].cut]}
          /\ UNCHANGED wire
       \/ /\ turn[s].ran
          /\ Tell(s, Sent(wire[s], "error"))
          /\ UNCHANGED deliverables
    /\ Go(s, "ending")
    /\ UNCHANGED <<turn, ctx, last, frames, heard, kept>>

\* run_agent's last event.  The socket then holds the agent to have answered,
\* however the turn went, and records what it said unless that is nothing.
Conclude(s) ==
    /\ pc[s] = "ending"
    /\ Tell(s, Sent(wire[s], "end"))
    /\ last' = [last EXCEPT ![s] = turn[s].agent]
    /\ IF turn[s].said
       THEN Go(s, "reply") /\ UNCHANGED turn
       ELSE Go(s, "listen") /\ turn' = [turn EXCEPT ![s] = Idle]
    /\ UNCHANGED <<ctx, deliverables, frames, heard, kept>>

-----------------------------------------------------------------------------
(* The client.                                                             *)

\* A write or a receive finds that the peer has left: the loop ends, and a
\* generator that was being read is closed.
PeerGone(s) ==
    /\ pc[s] \notin Recording \cup {"gone", "dropped"}
    /\ ctx' = [ctx EXCEPT ![s] = Closed(@)]
    /\ turn' = [turn EXCEPT ![s] = Idle]
    /\ Go(s, "gone")
    /\ UNCHANGED <<wire, last, deliverables, frames, heard, kept>>

\* A new connection: nothing of the previous one is remembered.
Connect(s) ==
    /\ pc[s] \in {"gone", "dropped"}
    /\ frames < MaxFrames
    /\ Go(s, "listen")
    /\ wire' = [wire EXCEPT ![s] = Silence]
    /\ ctx' = [ctx EXCEPT ![s] = Clear]
    /\ last' = [last EXCEPT ![s] = None]
    /\ heard' = [heard EXCEPT ![s] = {}]
    /\ UNCHANGED <<turn, deliverables, frames, kept>>

Next ==
    \E s \in Sockets :
        \/ Refuse(s) \/ Choke(s) \/ Accept(s) \/ Choose(s) \/ AnswerDirectly(s) \/ FailToChoose(s)
        \/ ReadSeq(s) \/ Insert(s) \/ SayDirectly(s)
        \/ Enter(s) \/ Resolve(s) \/ FindNoModel(s) \/ Chunk(s) \/ End(s) \/ Raise(s)
        \/ Unsendable(s) \/ Capture(s) \/ Conclude(s) \/ PeerGone(s) \/ Connect(s)

Spec == Init /\ [][Next]_vars

-----------------------------------------------------------------------------
(* Properties.                                                             *)

\* A socket that keeps serving never leaves a frame hanging and never answers
\* it twice: when it listens again it has sent exactly one stream_end, nothing
\* after it, and before it something to read (ws.py:174: "a typed failure that
\* still terminates the turn"; dispatch.py:21-27).  A socket that the server
\* ends instead had begun no turn and sent nothing of one.
EveryFrameEnds ==
    \A s \in Sockets : LET w == wire[s] IN
        /\ w.ends <= 1 /\ ~w.late
        /\ (pc[s] = "listen" /\ w.asked) =>
               w.ends = 1 /\ (w.text \/ w.error \/ w.selected # None)
        /\ pc[s] = "dropped" => w = Asked /\ turn[s] = Idle

\* A graph runs as the agent the client was shown, one of its project's
\* portfolio, under a model of its own run's project, and in its own run's
\* workspace; nothing of it is left on the socket for the next frame, however
\* the turn ended (ws.py:902-914).
RunsAsAnnounced ==
    \A s \in Sockets : LET r == turn[s].run IN
        /\ pc[s] = "graph" =>
               /\ wire[s].selected = turn[s].agent
               /\ turn[s].agent \in Roster[r]
               /\ ctx[s] = Bound(ProjectOf[r], ProjectOf[r], r)
        /\ pc[s] \notin {"resolve", "graph"} => ctx[s] = Clear

\* Nothing is filed under an agent's name from a turn that was cut short: a
\* raising graph, a spent budget, an event that could not be sent or a peer
\* that left (dispatch.py:833-836).
DeliverablesAreWhole == \A d \in deliverables : ~d.cut

\* One socket has talked on a run so far, and the database has answered it.
Undisturbed(r) ==
    /\ \A s, t \in talkers[r] : s = t
    /\ "database" \notin lost[r]

\* While one socket at a time talks on a run and the database answers, no
\* message is lost, and the message just before an answer is its question:
\* what the transcript given to the next agent relies on (transcript.py:135-139).
AnswersFollowTheirQuestions ==
    \A r \in Runs : Undisturbed(r) =>
        /\ lost[r] = {}
        /\ \A m \in transcript[r] : m.role # "user" =>
               \E q \in transcript[r] :
                   q.seq = m.seq - 1 /\ q.role = "user" /\ q.by = m.by

-----------------------------------------------------------------------------
(* What the properties rest on: an inductive invariant.                    *)

\* A turn is in hand from the accepted frame to its end; once its question is
\* recorded it has an agent, and a cut one is never captured.
TurnIsHeld(place, tu) ==
    IF place \in {"listen", "gone", "dropped"} THEN tu = Idle
    ELSE /\ tu.run \in Runs
         /\ place \in {"enter", "resolve", "graph", "capture", "ending", "reply"}
                => tu.agent \in Agents
         /\ tu.cut => place \in {"ending", "reply"}

\* What the socket's context holds follows from where the turn stands.
ContextFollows(place, tu, w, c) ==
    /\ place \in {"resolve", "graph"} =>
           w.selected = tu.agent /\ tu.agent \in Roster[tu.run]
    /\ c = CASE place = "resolve" -> Bound(ProjectOf[tu.run], None, None)
             [] place = "graph" -> Bound(ProjectOf[tu.run], ProjectOf[tu.run], tu.run)
             [] OTHER -> Clear

\* A client waits from its frame to the turn's only end, and has been sent
\* something by then.
ClientWaits(place, w) ==
    /\ ~w.late
    /\ place \notin {"listen", "gone"} => w.asked
    /\ CASE place = "listen" -> w.ends = IF w.asked THEN 1 ELSE 0
         [] place = "gone" -> w.ends <= 1
         [] place = "reply" -> w.ends = 1
         [] OTHER -> w.ends = 0
    /\ place = "dropped" => w = Asked
    /\ \/ place \in {"resolve", "graph", "capture", "ending", "reply"}
       \/ place = "listen" /\ w.asked
       => w.text \/ w.error \/ w.selected # None

Fits(place, tu, w, c) ==
    TurnIsHeld(place, tu) /\ ContextFollows(place, tu, w, c) /\ ClientWaits(place, w)

\* A run's messages are numbered from 1 without a gap, and a number read is one
\* of them, or 0.
NumbersRunOn ==
    /\ \A r \in Runs : LastSeq(r) \in Nat /\ Taken(r) = 1..LastSeq(r)
    /\ \A s \in Sockets : read[s] # None =>
           pc[s] \in Recording /\ read[s] \in 0..LastSeq(turn[s].run)

\* The places between the recording of a question and of its answer.
Answering == {"direct", "enter", "resolve", "graph", "capture", "ending", "reply"}

\* While nothing disturbs a run, its last message is the question being
\* answered, and the number read for the answer is the question's.
QuestionsWait ==
    \A r \in Runs : Undisturbed(r) =>
        \A s \in Sockets : turn[s].run = r =>
            /\ s \in talkers[r]
            /\ read[s] # None => read[s] = LastSeq(r)
            /\ pc[s] \in Answering => \E q \in transcript[r] :
                   q.seq = LastSeq(r) /\ q.role = "user" /\ q.by = s

ChatInv ==
    /\ TypeOK /\ \A s \in Sockets : Fits(pc[s], turn[s], wire[s], ctx[s])
    /\ NumbersRunOn /\ DeliverablesAreWhole
    /\ QuestionsWait /\ AnswersFollowTheirQuestions

-----------------------------------------------------------------------------
(* What the comments promise.                                              *)

\* The agent held to be in conversation is one that said something on this
\* connection (ws.py:585 and 956-957).
LastAgentReplied ==
    \A s \in Sockets : last[s] # None => last[s] \in heard[s]

\* The server ends no socket by itself: "an exception never kills the socket -
\* the client keeps its connection and gets a typed failure" (ws.py:74-77).
NoExceptionKillsTheSocket == \A s \in Sockets : pc[s] # "dropped"

\* No message of a run is lost to another one that takes its number, whoever
\* talks on the run (conversation_service.py:320-333).
NoMessageIsLost == \A r \in Runs : "clash" \notin lost[r]

=============================================================================
