----------------------------- MODULE ChatProofs -----------------------------
(***************************************************************************)
(* Proofs about Chat for any number of sockets, runs, projects, agents and *)
(* frames: a frame ends once and says something, a graph runs as announced *)
(* in its own run's context, what is filed comes from a whole turn, and on *)
(* a run that one socket talks on an answer stands behind its question.    *)
(***************************************************************************)
EXTENDS Chat, TLAPS

USE RunsAssumption

-----------------------------------------------------------------------------
(* The greatest of the numbers 1..n and 0 is n.                            *)

LEMMA GreatestOf ==
    ASSUME NEW n \in Nat PROVE Max(1..n \cup {0}) = n
<1>1. n \in 1..n \cup {0} /\ \A y \in 1..n \cup {0} : n >= y
  OBVIOUS
<1>2. \A x \in 1..n \cup {0} : (\A y \in 1..n \cup {0} : x >= y) => x = n
  BY <1>1
<1> QED BY <1>1, <1>2 DEF Max

LEMMA EmptyRun ==
    ASSUME NEW r, transcript[r] = {} PROVE Taken(r) = 1..0 /\ LastSeq(r) = 0
<1>1. Taken(r) = 1..0
  BY DEF Taken
<1> QED BY <1>1, GreatestOf DEF LastSeq

-----------------------------------------------------------------------------
(* The wire.                                                               *)

LEMMA TextForm ==
    ASSUME NEW w \in Wires, ~ w.late, w.ends = 0
    PROVE  LET new == Sent(w, "text")
           IN  /\ new \in Wires /\ ~ new.late /\ new.ends = 0
               /\ new.asked = w.asked /\ new.selected = w.selected
               /\ new.text /\ (w.error => new.error)
<1>1. /\ (w.late \/ w.ends > 0) = FALSE /\ (w.text \/ "text" = "text") = TRUE
      /\ (w.error \/ "text" = "error") = w.error
      /\ (IF "text" = "end" THEN w.ends + 1 ELSE w.ends) = w.ends
  BY DEF Wires
<1>2. Sent(w, "text") = [w EXCEPT !.text = TRUE, !.error = w.error, !.ends = w.ends,
                                  !.late = FALSE]
  BY <1>1 DEF Sent
<1> QED BY <1>2 DEF Wires

LEMMA ErrorForm ==
    ASSUME NEW w \in Wires, ~ w.late, w.ends = 0
    PROVE  LET new == Sent(w, "error")
           IN  /\ new \in Wires /\ ~ new.late /\ new.ends = 0
               /\ new.asked = w.asked /\ new.selected = w.selected
               /\ new.error /\ (w.text => new.text)
<1>1. /\ (w.late \/ w.ends > 0) = FALSE /\ (w.error \/ "error" = "error") = TRUE
      /\ (w.text \/ "error" = "text") = w.text
      /\ (IF "error" = "end" THEN w.ends + 1 ELSE w.ends) = w.ends
  BY DEF Wires
<1>2. Sent(w, "error") = [w EXCEPT !.text = w.text, !.error = TRUE, !.ends = w.ends,
                                   !.late = FALSE]
  BY <1>1 DEF Sent
<1> QED BY <1>2 DEF Wires

LEMMA EndForm ==
    ASSUME NEW w \in Wires, ~ w.late, w.ends = 0
    PROVE  LET new == Sent(w, "end")
           IN  /\ new \in Wires /\ ~ new.late /\ new.ends = 1
               /\ new.asked = w.asked /\ new.selected = w.selected
               /\ (w.text => new.text) /\ (w.error => new.error)
<1>1. /\ (w.late \/ w.ends > 0) = FALSE /\ (w.text \/ "end" = "text") = w.text
      /\ (w.error \/ "end" = "error") = w.error
      /\ (IF "end" = "end" THEN w.ends + 1 ELSE w.ends) = 1
  BY DEF Wires
<1>2. Sent(w, "end") = [w EXCEPT !.text = w.text, !.error = w.error, !.ends = 1,
                                 !.late = FALSE]
  BY <1>1 DEF Sent
<1>5. Sent(w, "end") \in Wires
  <2>1. Sent(w, "end") = [w EXCEPT !.ends = 1, !.late = FALSE]
    BY <1>2 DEF Wires
  <2>2. \A n \in Nat : [w EXCEPT !.ends = n, !.late = FALSE] \in Wires
    BY DEF Wires
  <2> QED BY <2>1, <2>2
<1>3. /\ ~ Sent(w, "end").late /\ Sent(w, "end").ends = 1
      /\ Sent(w, "end").asked = w.asked /\ Sent(w, "end").selected = w.selected
  BY <1>2 DEF Wires
<1>4. Sent(w, "end").text = w.text /\ Sent(w, "end").error = w.error
  BY <1>2 DEF Wires
<1> QED BY <1>3, <1>4, <1>5

LEMMA AnnouncedForm ==
    ASSUME NEW w \in Wires, ~ w.late, w.ends = 0, NEW a \in Agents
    PROVE  LET new == Announced(w, a)
           IN  /\ new \in Wires /\ ~ new.late /\ new.ends = 0
               /\ new.asked = w.asked /\ new.selected = a
<1>1. (w.late \/ w.ends > 0) = FALSE
  OBVIOUS
<1>2. Announced(w, a) = [w EXCEPT !.selected = a, !.late = FALSE]
  BY <1>1 DEF Announced
<1> QED BY <1>2 DEF Wires

LEMMA FailedForm ==
    ASSUME NEW w \in Wires, ~ w.late, w.ends = 0
    PROVE  /\ Failed(w) \in Wires /\ ~ Failed(w).late /\ Failed(w).asked = w.asked
           /\ Failed(w).error /\ Failed(w).ends = 1
<1> DEFINE e == Sent(w, "error")
<1>1. e \in Wires /\ e.asked = w.asked /\ e.error /\ e.ends = 0 /\ ~ e.late
  BY ErrorForm
<1>2. Failed(w) = Sent(e, "end")
  BY DEF Failed
<1> HIDE DEF e
<1> QED BY <1>1, <1>2, EndForm

-----------------------------------------------------------------------------
(* One socket's step: the others stand still, and what the socket holds    *)
(* still fits together.                                                    *)

Moved(s) ==
    /\ pc' \in [Sockets -> Places] /\ turn' \in [Sockets -> Turns]
    /\ wire' \in [Sockets -> Wires] /\ ctx' \in [Sockets -> Contexts]
    /\ last' \in [Sockets -> Agents \cup {None}]
    /\ heard' \in [Sockets -> SUBSET Agents]
    /\ \A t \in Sockets \ {s} :
         /\ pc'[t] = pc[t] /\ turn'[t] = turn[t] /\ wire'[t] = wire[t]
         /\ ctx'[t] = ctx[t] /\ read'[t] = read[t]
    /\ Fits(pc'[s], turn'[s], wire'[s], ctx'[s])

LEMMA MoveFits ==
    ASSUME TypeOK, NEW s \in Sockets,
           NEW place \in Places, NEW tu \in Turns, NEW w \in Wires, NEW c \in Contexts,
           pc' = [pc EXCEPT ![s] = place], turn' = [turn EXCEPT ![s] = tu],
           wire' = [wire EXCEPT ![s] = w], ctx' = [ctx EXCEPT ![s] = c],
           last' \in [Sockets -> Agents \cup {None}],
           heard' \in [Sockets -> SUBSET Agents],
           \A t \in Sockets \ {s} : read'[t] = read[t],
           Fits(place, tu, w, c)
    PROVE  Moved(s)
<1>1. pc'[s] = place /\ turn'[s] = tu /\ wire'[s] = w /\ ctx'[s] = c
  BY DEF TypeOK
<1>2. Fits(pc'[s], turn'[s], wire'[s], ctx'[s])
  BY <1>1
<1>3. /\ pc' \in [Sockets -> Places] /\ turn' \in [Sockets -> Turns]
      /\ wire' \in [Sockets -> Wires] /\ ctx' \in [Sockets -> Contexts]
  BY DEF TypeOK
<1>4. \A t \in Sockets \ {s} :
         /\ pc'[t] = pc[t] /\ turn'[t] = turn[t] /\ wire'[t] = wire[t]
         /\ ctx'[t] = ctx[t] /\ read'[t] = read[t]
  BY DEF TypeOK
<1> QED BY <1>2, <1>3, <1>4 DEF Moved

\* What a socket holds, typed, and a function whose value stays.
LEMMA Held ==
    ASSUME TypeOK, NEW s \in Sockets
    PROVE  /\ pc[s] \in Places /\ turn[s] \in Turns /\ wire[s] \in Wires
           /\ ctx[s] \in Contexts /\ last[s] \in Agents \cup {None}
           /\ heard[s] \subseteq Agents
           /\ pc = [pc EXCEPT ![s] = pc[s]] /\ turn = [turn EXCEPT ![s] = turn[s]]
           /\ wire = [wire EXCEPT ![s] = wire[s]] /\ ctx = [ctx EXCEPT ![s] = ctx[s]]
BY DEF TypeOK

LEMMA Blanks ==
    /\ Idle \in Turns /\ Silence \in Wires /\ Clear \in Contexts
    /\ Asked \in Wires /\ Asked.asked /\ Asked.ends = 0 /\ ~ Asked.late
BY DEF Idle, Turns, Silence, Asked, Wires, Clear, Bound, Contexts

\* A step that leaves the transcript, and what was read of it, alone.
Quiet(s) ==
    /\ UNCHANGED kept
    /\ pc[s] \notin Recording
    /\ turn'[s].run \in {turn[s].run, None}
    /\ pc'[s] \in Answering => pc[s] \in Answering

LEMMA Choosing ==
    ASSUME ChatInv, NEW s \in Sockets,
           \/ Refuse(s) \/ Choke(s) \/ Choose(s) \/ AnswerDirectly(s)
           \/ FailToChoose(s) \/ SayDirectly(s)
    PROVE  Moved(s) /\ Quiet(s)
<1> TypeOK /\ Fits(pc[s], turn[s], wire[s], ctx[s])
  BY DEF ChatInv
<1>1. /\ pc[s] \in Places /\ turn[s] \in Turns /\ wire[s] \in Wires
      /\ ctx[s] \in Contexts
      /\ pc = [pc EXCEPT ![s] = pc[s]] /\ turn = [turn EXCEPT ![s] = turn[s]]
      /\ wire = [wire EXCEPT ![s] = wire[s]] /\ ctx = [ctx EXCEPT ![s] = ctx[s]]
  BY Held
<1>2. last \in [Sockets -> Agents \cup {None}] /\ heard \in [Sockets -> SUBSET Agents]
  BY DEF TypeOK
<1>3. CASE Refuse(s)
  <2> DEFINE w == Failed(Asked)
  <2>1. pc[s] = "listen" /\ wire' = [wire EXCEPT ![s] = w]
        /\ UNCHANGED <<pc, turn, ctx, last, heard, kept>>
    BY <1>3 DEF Refuse, Tell
  <2>2. w \in Wires /\ ~ w.late /\ w.asked /\ w.error /\ w.ends = 1
    BY Blanks, FailedForm
  <2> HIDE DEF w
  <2>3. Fits("listen", turn[s], w, ctx[s])
    BY <2>1, <2>2 DEF Fits, TurnIsHeld, ContextFollows, ClientWaits
  <2>4. /\ pc' = [pc EXCEPT ![s] = "listen"] /\ turn' = [turn EXCEPT ![s] = turn[s]]
        /\ ctx' = [ctx EXCEPT ![s] = ctx[s]] /\ "listen" \in Places
    BY <1>1, <2>1
  <2>5. /\ last' \in [Sockets -> Agents \cup {None}] /\ heard' \in [Sockets -> SUBSET Agents]
        /\ \A t \in Sockets \ {s} : read'[t] = read[t]
        /\ wire' = [wire EXCEPT ![s] = w]
    BY <1>2, <2>1 DEF kept
  <2>6. Moved(s)
    BY <1>1, <2>2, <2>3, <2>4, <2>5, MoveFits
  <2> QED BY <2>1, <2>6 DEF Quiet, Recording, Answering
<1>4. CASE Choose(s)
  <2>1. PICK a \in Agents : turn' = [turn EXCEPT ![s].agent = a]
    <3>1. TurnIsHeld(pc[s], turn[s]) /\ pc[s] = "checked"
      BY <1>4 DEF Choose, Fits
    <3>2. turn[s].run \in Runs
      BY <3>1 DEF TurnIsHeld
    <3> QED BY <1>4, <3>2 DEF Choose, Candidates
  <2>2. pc[s] = "checked" /\ pc' = [pc EXCEPT ![s] = "question"]
        /\ UNCHANGED <<wire, ctx, last, heard, kept>>
    BY <1>4 DEF Choose, Go
  <2> DEFINE tu == [turn[s] EXCEPT !.agent = a]
  <2>3. tu \in Turns /\ tu.run = turn[s].run /\ tu.cut = turn[s].cut
    BY <1>1 DEF Turns
  <2>4. turn' = [turn EXCEPT ![s] = tu]
    BY <2>1
  <2> HIDE DEF tu
  <2>5. Fits("question", tu, wire[s], ctx[s])
    BY <2>2, <2>3 DEF Fits, TurnIsHeld, ContextFollows, ClientWaits
  <2>6. "question" \in Places
    BY DEF Places
  <2>7. Moved(s)
    BY <1>1, <1>2, <2>2, <2>3, <2>4, <2>5, <2>6, MoveFits DEF kept
  <2>8. turn'[s] = tu /\ pc'[s] = "question"
    BY <2>2, <2>4 DEF TypeOK
  <2> QED BY <2>2, <2>3, <2>7, <2>8 DEF Quiet, Recording, Answering
<1>5. CASE AnswerDirectly(s)
  <2>1. pc[s] = "checked" /\ pc' = [pc EXCEPT ![s] = "question"]
        /\ UNCHANGED <<turn, wire, ctx, last, heard, kept>>
    BY <1>5 DEF AnswerDirectly, Go
  <2>2. Fits("question", turn[s], wire[s], ctx[s])
    BY <2>1 DEF Fits, TurnIsHeld, ContextFollows, ClientWaits
  <2>3. "question" \in Places
    BY DEF Places
  <2>4. Moved(s)
    BY <1>1, <1>2, <2>1, <2>2, <2>3, MoveFits DEF kept
  <2>5. pc'[s] = "question"
    BY <2>1 DEF TypeOK
  <2> QED BY <2>1, <2>4, <2>5 DEF Quiet, Recording, Answering
<1>6. CASE FailToChoose(s)
  <2> DEFINE w == Failed(wire[s])
  <2>1. /\ pc[s] = "checked" /\ pc' = [pc EXCEPT ![s] = "listen"]
        /\ wire' = [wire EXCEPT ![s] = w] /\ turn' = [turn EXCEPT ![s] = Idle]
        /\ UNCHANGED <<ctx, last, heard, kept>>
    BY <1>6 DEF FailToChoose, Go, Tell
  <2>2. w \in Wires /\ ~ w.late /\ w.asked /\ w.error /\ w.ends = 1
    BY <1>1, <2>1, FailedForm DEF Fits, ClientWaits
  <2> HIDE DEF w
  <2>3. Fits("listen", Idle, w, ctx[s])
    BY <2>1, <2>2 DEF Fits, TurnIsHeld, ContextFollows, ClientWaits
  <2>4. "listen" \in Places
    BY DEF Places
  <2>5. Moved(s)
    BY <1>1, <1>2, <2>1, <2>2, <2>3, <2>4, Blanks, MoveFits DEF kept
  <2>6. turn'[s] = Idle /\ pc'[s] = "listen"
    BY <2>1 DEF TypeOK
  <2> QED BY <2>1, <2>5, <2>6 DEF Quiet, Recording, Answering, Idle
<1>7. CASE SayDirectly(s)
  <2> DEFINE t == Sent(wire[s], "text")
             w == Sent(t, "end")
  <2>1. /\ pc[s] = "say" /\ pc' = [pc EXCEPT ![s] = "listen"]
        /\ wire' = [wire EXCEPT ![s] = w] /\ turn' = [turn EXCEPT ![s] = Idle]
        /\ UNCHANGED <<ctx, last, heard, kept>>
    BY <1>7 DEF SayDirectly, Go, Tell
  <2>2. t \in Wires /\ ~ t.late /\ t.asked /\ t.text /\ t.ends = 0
    BY <1>1, <2>1, TextForm DEF Fits, ClientWaits
  <2> HIDE DEF t
  <2>3. w \in Wires /\ ~ w.late /\ w.asked /\ w.text /\ w.ends = 1
    BY <2>2, EndForm
  <2> HIDE DEF w
  <2>4. Fits("listen", Idle, w, ctx[s])
    BY <2>1, <2>3 DEF Fits, TurnIsHeld, ContextFollows, ClientWaits
  <2>5. "listen" \in Places
    BY DEF Places
  <2>6. Moved(s)
    BY <1>1, <1>2, <2>1, <2>3, <2>4, <2>5, Blanks, MoveFits DEF kept
  <2>7. turn'[s] = Idle /\ pc'[s] = "listen"
    BY <2>1 DEF TypeOK
  <2> QED BY <2>1, <2>6, <2>7 DEF Quiet, Recording, Answering, Idle
<1>8. CASE Choke(s)
  <2>1. /\ pc[s] = "listen" /\ pc' = [pc EXCEPT ![s] = "dropped"]
        /\ wire' = [wire EXCEPT ![s] = Asked]
        /\ UNCHANGED <<turn, ctx, last, heard, kept>>
    BY <1>8 DEF Choke, Go, Tell
  <2>2. Fits("dropped", turn[s], Asked, ctx[s])
    BY <2>1, Blanks DEF Fits, TurnIsHeld, ContextFollows, ClientWaits
  <2>3. "dropped" \in Places
    BY DEF Places
  <2>4. Moved(s)
    BY <1>1, <1>2, <2>1, <2>2, <2>3, Blanks, MoveFits DEF kept
  <2>5. pc'[s] = "dropped"
    BY <2>1 DEF TypeOK
  <2> QED BY <2>1, <2>4, <2>5 DEF Quiet, Recording, Answering
<1> QED BY <1>3, <1>4, <1>5, <1>6, <1>7, <1>8

\* Finish leads to the capture or to the end, with a clear context.
LEMMA Finishing ==
    ASSUME ChatInv, NEW s \in Sockets, NEW how, NEW w \in Wires, NEW tu \in Turns,
           pc[s] \in {"resolve", "graph"}, Finish(s, how, w),
           turn' = [turn EXCEPT ![s] = tu], tu.run = turn[s].run,
           tu.agent = turn[s].agent, tu.cut => how = "raised",
           ~ w.late, w.asked, w.ends = 0, w.text \/ w.error \/ w.selected # None,
           last' = last, heard' \in [Sockets -> SUBSET Agents], UNCHANGED kept
    PROVE  Moved(s) /\ Quiet(s)
<1> TypeOK /\ Fits(pc[s], turn[s], wire[s], ctx[s])
  BY DEF ChatInv
<1>1. last' \in [Sockets -> Agents \cup {None}]
  BY DEF TypeOK
<1>2. PICK place \in {"capture", "ending"} :
         pc' = [pc EXCEPT ![s] = place] /\ (how = "raised" => place = "ending")
  <2>1. Completed("raised") = FALSE
    BY DEF Completed
  <2> QED BY <2>1 DEF Finish, Go
<1>3. wire' = [wire EXCEPT ![s] = w] /\ ctx' = [ctx EXCEPT ![s] = Clear]
  BY DEF Finish, Tell
<1>4. tu.run \in Runs /\ tu.agent \in Agents
  BY DEF Fits, TurnIsHeld
<1>5. Fits(place, tu, w, Clear)
  BY <1>2, <1>4 DEF Fits, TurnIsHeld, ContextFollows, ClientWaits
<1>6. place \in Places
  BY DEF Places
<1>7. Moved(s)
  BY <1>1, <1>2, <1>3, <1>5, <1>6, Blanks, MoveFits DEF kept
<1>8. pc'[s] = place /\ turn'[s] = tu
  BY <1>2 DEF TypeOK
<1> QED BY <1>2, <1>7, <1>8 DEF Quiet, Recording, Answering

LEMMA Running ==
    ASSUME ChatInv, NEW s \in Sockets,
           Enter(s) \/ Resolve(s) \/ FindNoModel(s) \/ Chunk(s) \/ End(s) \/ Raise(s)
    PROVE  Moved(s) /\ Quiet(s)
<1> TypeOK /\ Fits(pc[s], turn[s], wire[s], ctx[s])
  BY DEF ChatInv
<1>1. /\ pc[s] \in Places /\ turn[s] \in Turns /\ wire[s] \in Wires
      /\ ctx[s] \in Contexts
      /\ pc = [pc EXCEPT ![s] = pc[s]] /\ turn = [turn EXCEPT ![s] = turn[s]]
      /\ wire = [wire EXCEPT ![s] = wire[s]] /\ ctx = [ctx EXCEPT ![s] = ctx[s]]
  BY Held
<1>2. last \in [Sockets -> Agents \cup {None}] /\ heard \in [Sockets -> SUBSET Agents]
  BY DEF TypeOK
<1> DEFINE r == turn[s].run
           a == turn[s].agent
<1>3. pc[s] \in {"enter", "resolve", "graph"}
  BY DEF Enter, Resolve, FindNoModel, Chunk, End, Raise
<1>4. r \in Runs /\ a \in Agents /\ ~ turn[s].cut
  BY <1>3 DEF Fits, TurnIsHeld
<1>5. ~ wire[s].late /\ wire[s].asked /\ wire[s].ends = 0
  BY <1>3 DEF Fits, ClientWaits
<1>6. pc[s] \in {"resolve", "graph"} =>
         /\ wire[s].selected = a /\ a \in Roster[r]
         /\ wire[s].text \/ wire[s].error \/ wire[s].selected # None
  BY <1>4 DEF Fits, ContextFollows
<1>7. ProjectOf[r] \in Projects \cup {None}
  BY <1>4
<1>8. CASE Enter(s)
  <2>1. pc[s] = "enter" /\ ctx[s] = Clear
    BY <1>8 DEF Enter, Fits, ContextFollows
  <2>2. ctx[s].session = None
    BY <2>1 DEF Clear, Bound
  <2>3. turn' = turn /\ last' = last /\ heard' = heard /\ UNCHANGED kept
    BY <1>8 DEF Enter
  <2>4. CASE a \in Runnable(r)
    <3> DEFINE w == Announced(wire[s], a)
               c == Bound(ProjectOf[r], None, None)
    <3>1. /\ pc' = [pc EXCEPT ![s] = "resolve"] /\ wire' = [wire EXCEPT ![s] = w]
          /\ ctx' = [ctx EXCEPT ![s] = c]
      BY <1>8, <2>2, <2>4 DEF Enter, Go, Tell
    <3>2. w \in Wires /\ ~ w.late /\ w.asked /\ w.ends = 0 /\ w.selected = a
      BY <1>1, <1>4, <1>5, AnnouncedForm
    <3>3. c \in Contexts
      BY <1>7 DEF Contexts, Bound
    <3>4. a \in Roster[r] /\ a # None
      BY <1>4, <2>4 DEF Runnable
    <3> HIDE DEF w
    <3>5. TurnIsHeld("resolve", turn[s])
      BY <1>4 DEF TurnIsHeld
    <3>6. ContextFollows("resolve", turn[s], w, c)
      BY <3>2, <3>4 DEF ContextFollows
    <3>7. ClientWaits("resolve", w)
      BY <3>2, <3>4 DEF ClientWaits
    <3>8. "resolve" \in Places
      BY DEF Places
    <3> HIDE DEF c
    <3>9. Moved(s)
      BY <1>1, <1>2, <2>3, <3>1, <3>2, <3>3, <3>5, <3>6, <3>7, <3>8, MoveFits DEF Fits, kept
    <3> QED BY <2>1, <2>3, <3>9 DEF Quiet, Recording, Answering
  <2>5. CASE a \notin Runnable(r)
    <3> DEFINE w == Sent(wire[s], "error")
    <3>1. /\ pc' = [pc EXCEPT ![s] = "ending"] /\ wire' = [wire EXCEPT ![s] = w]
          /\ ctx' = [ctx EXCEPT ![s] = Clear]
      BY <1>8, <2>2, <2>5 DEF Enter, Go, Tell, Clear
    <3>2. w \in Wires /\ ~ w.late /\ w.asked /\ w.ends = 0 /\ w.error
      BY <1>1, <1>5, ErrorForm
    <3> HIDE DEF w
    <3>3. Fits("ending", turn[s], w, Clear)
      BY <1>4, <3>2 DEF Fits, TurnIsHeld, ContextFollows, ClientWaits
    <3>4. "ending" \in Places
      BY DEF Places
    <3>5. Moved(s)
      BY <1>1, <1>2, <2>3, <3>1, <3>2, <3>3, <3>4, Blanks, MoveFits DEF kept
    <3> QED BY <2>1, <2>3, <3>5 DEF Quiet, Recording, Answering
  <2> QED BY <2>4, <2>5
<1>9. CASE Resolve(s)
  <2> DEFINE tu == [turn[s] EXCEPT !.ran = TRUE]
             c == Bound(ProjectOf[r], ProjectOf[r], r)
  <2>1. pc[s] = "resolve" /\ ctx[s] = Bound(ProjectOf[r], None, None)
    BY <1>9 DEF Resolve, Fits, ContextFollows
  <2>2. ctx[s].project = ProjectOf[r]
    BY <2>1 DEF Bound
  <2>3. /\ pc' = [pc EXCEPT ![s] = "graph"] /\ turn' = [turn EXCEPT ![s] = tu]
        /\ ctx' = [ctx EXCEPT ![s] = c]
        /\ UNCHANGED <<wire, last, heard, kept>>
    BY <1>9, <2>2 DEF Resolve, Go
  <2>4. tu \in Turns /\ tu.run = r /\ tu.agent = a /\ ~ tu.cut
    BY <1>1, <1>4 DEF Turns
  <2>5. c \in Contexts
    BY <1>4, <1>7 DEF Contexts, Bound
  <2> HIDE DEF tu
  <2>6. TurnIsHeld("graph", tu) /\ ContextFollows("graph", tu, wire[s], c)
    BY <1>4, <1>6, <2>1, <2>4 DEF TurnIsHeld, ContextFollows
  <2>7. ClientWaits("graph", wire[s])
    BY <1>5, <1>6, <2>1 DEF ClientWaits
  <2>8. "graph" \in Places
    BY DEF Places
  <2> HIDE DEF c
  <2>9. Moved(s)
    BY <1>1, <1>2, <2>3, <2>4, <2>5, <2>6, <2>7, <2>8, MoveFits DEF Fits, kept
  <2>10. turn'[s] = tu
    BY <2>3 DEF TypeOK
  <2> QED BY <2>1, <2>3, <2>4, <2>9, <2>10 DEF Quiet, Recording, Answering
<1>10. CASE FindNoModel(s)
  <2> DEFINE w == Sent(wire[s], "error")
  <2>1. /\ pc[s] = "resolve" /\ Finish(s, "refused", w)
        /\ UNCHANGED <<turn, last, heard, kept>>
    BY <1>10 DEF FindNoModel
  <2>2. w \in Wires /\ ~ w.late /\ w.asked /\ w.ends = 0 /\ w.error
    BY <1>1, <1>5, ErrorForm
  <2> HIDE DEF w
  <2> QED BY <1>1, <1>2, <1>4, <2>1, <2>2, Finishing
<1>11. CASE Chunk(s)
  <2> DEFINE w == Sent(wire[s], "text")
             tu == [turn[s] EXCEPT !.said = TRUE]
  <2>1. /\ pc[s] = "graph" /\ wire' = [wire EXCEPT ![s] = w]
        /\ turn' = [turn EXCEPT ![s] = tu] /\ UNCHANGED <<pc, ctx, last, kept>>
    BY <1>11 DEF Chunk, Tell
  <2>2. heard' \in [Sockets -> SUBSET Agents]
    BY <1>2, <1>4, <1>11 DEF Chunk
  <2>3. w \in Wires /\ ~ w.late /\ w.asked /\ w.ends = 0 /\ w.text /\ w.selected = a
    BY <1>1, <1>5, <1>6, <2>1, TextForm
  <2>4. tu \in Turns /\ tu.run = r /\ tu.agent = a /\ ~ tu.cut
    BY <1>1, <1>4 DEF Turns
  <2> HIDE DEF w, tu
  <2>5. TurnIsHeld("graph", tu) /\ ClientWaits("graph", w)
    BY <1>4, <2>3, <2>4 DEF TurnIsHeld, ClientWaits
  <2>6. ContextFollows("graph", tu, w, ctx[s])
    BY <1>6, <2>1, <2>3, <2>4 DEF Fits, ContextFollows
  <2>7. pc' = [pc EXCEPT ![s] = "graph"] /\ ctx' = [ctx EXCEPT ![s] = ctx[s]]
        /\ "graph" \in Places
    BY <1>1, <2>1
  <2>8. Moved(s)
    BY <1>1, <1>2, <2>1, <2>2, <2>3, <2>4, <2>5, <2>6, <2>7, MoveFits DEF Fits, kept
  <2>9. turn'[s] = tu
    BY <2>1 DEF TypeOK
  <2> QED BY <2>1, <2>4, <2>8, <2>9 DEF Quiet, Recording, Answering
<1>12. CASE End(s)
  <2>1. pc[s] = "graph" /\ UNCHANGED <<last, kept>>
    BY <1>12 DEF End
  <2>2. CASE Finish(s, "finished", wire[s]) /\ UNCHANGED <<turn, heard>>
    BY <1>1, <1>2, <1>4, <1>5, <1>6, <2>1, <2>2, Finishing
  <2>3. CASE /\ turn' = [turn EXCEPT ![s].said = TRUE]
             /\ heard' = [heard EXCEPT ![s] = @ \cup {a}]
             /\ Finish(s, "finished", Sent(wire[s], "text"))
    <3> DEFINE w == Sent(wire[s], "text")
               tu == [turn[s] EXCEPT !.said = TRUE]
    <3>1. heard' \in [Sockets -> SUBSET Agents]
      BY <1>2, <1>4, <2>3
    <3>2. w \in Wires /\ ~ w.late /\ w.asked /\ w.ends = 0 /\ w.text
      BY <1>1, <1>5, TextForm
    <3>3. tu \in Turns /\ tu.run = r /\ tu.agent = a /\ ~ tu.cut
      BY <1>1, <1>4 DEF Turns
    <3>4. turn' = [turn EXCEPT ![s] = tu] /\ Finish(s, "finished", w)
      BY <2>3
    <3> HIDE DEF w, tu
    <3> QED BY <2>1, <3>1, <3>2, <3>3, <3>4, Finishing
  <2>4. CASE Finish(s, "finished", Sent(wire[s], "error")) /\ UNCHANGED <<turn, heard>>
    <3> DEFINE w == Sent(wire[s], "error")
    <3>1. w \in Wires /\ ~ w.late /\ w.asked /\ w.ends = 0 /\ w.error
      BY <1>1, <1>5, ErrorForm
    <3>2. Finish(s, "finished", w)
      BY <2>4
    <3> HIDE DEF w
    <3> QED BY <1>1, <1>2, <1>4, <2>1, <2>4, <3>1, <3>2, Finishing
  <2> QED BY <1>12, <2>2, <2>3, <2>4 DEF End
<1>13. CASE Raise(s)
  <2> DEFINE w == Sent(wire[s], "error")
             tu == [turn[s] EXCEPT !.cut = TRUE]
  <2>1. /\ pc[s] \in {"resolve", "graph"} /\ Finish(s, "raised", w)
        /\ turn' = [turn EXCEPT ![s] = tu] /\ UNCHANGED <<last, heard, kept>>
    BY <1>13 DEF Raise
  <2>2. w \in Wires /\ ~ w.late /\ w.asked /\ w.ends = 0 /\ w.error
    BY <1>1, <1>5, ErrorForm
  <2>3. tu \in Turns /\ tu.run = r /\ tu.agent = a
    BY <1>1 DEF Turns
  <2> HIDE DEF w, tu
  <2> QED BY <1>2, <2>1, <2>2, <2>3, Finishing
<1> QED BY <1>8, <1>9, <1>10, <1>11, <1>12, <1>13

LEMMA Closing ==
    ASSUME ChatInv, NEW s \in Sockets,
           Unsendable(s) \/ Capture(s) \/ Conclude(s) \/ PeerGone(s) \/ Connect(s)
    PROVE  Moved(s) /\ Quiet(s)
<1> TypeOK /\ Fits(pc[s], turn[s], wire[s], ctx[s])
  BY DEF ChatInv
<1>1. /\ pc[s] \in Places /\ turn[s] \in Turns /\ wire[s] \in Wires
      /\ ctx[s] \in Contexts
      /\ pc = [pc EXCEPT ![s] = pc[s]] /\ turn = [turn EXCEPT ![s] = turn[s]]
      /\ wire = [wire EXCEPT ![s] = wire[s]] /\ ctx = [ctx EXCEPT ![s] = ctx[s]]
  BY Held
<1>2. last \in [Sockets -> Agents \cup {None}] /\ heard \in [Sockets -> SUBSET Agents]
  BY DEF TypeOK
<1>3. CASE Unsendable(s)
  <2> DEFINE w == Failed(wire[s])
  <2>1. /\ pc[s] = "graph" /\ pc' = [pc EXCEPT ![s] = "listen"]
        /\ wire' = [wire EXCEPT ![s] = w] /\ turn' = [turn EXCEPT ![s] = Idle]
        /\ ctx' = [ctx EXCEPT ![s] = Clear] /\ UNCHANGED <<last, heard, kept>>
    BY <1>3 DEF Unsendable, Go, Tell, Closed
  <2>2. w \in Wires /\ ~ w.late /\ w.asked /\ w.error /\ w.ends = 1
    BY <1>1, <2>1, FailedForm DEF Fits, ClientWaits
  <2> HIDE DEF w
  <2>3. Fits("listen", Idle, w, Clear)
    BY <2>2 DEF Fits, TurnIsHeld, ContextFollows, ClientWaits
  <2>4. "listen" \in Places
    BY DEF Places
  <2>5. Moved(s)
    BY <1>2, <2>1, <2>2, <2>3, <2>4, Blanks, MoveFits DEF kept
  <2>6. turn'[s] = Idle /\ pc'[s] = "listen"
    BY <2>1 DEF TypeOK
  <2> QED BY <2>1, <2>5, <2>6 DEF Quiet, Recording, Answering, Idle
<1>4. CASE Capture(s)
  <2>1. /\ pc[s] = "capture" /\ pc' = [pc EXCEPT ![s] = "ending"]
        /\ UNCHANGED <<turn, ctx, last, heard, kept>>
    BY <1>4 DEF Capture, Go
  <2>2. /\ ~ wire[s].late /\ wire[s].asked /\ wire[s].ends = 0
        /\ wire[s].text \/ wire[s].error \/ wire[s].selected # None
    BY <2>1 DEF Fits, ClientWaits
  <2>3. PICK w \in Wires :
           /\ wire' = [wire EXCEPT ![s] = w]
           /\ ~ w.late /\ w.asked /\ w.ends = 0 /\ (w.text \/ w.error \/ w.selected # None)
    <3>1. CASE wire' = wire
      BY <1>1, <2>2, <3>1
    <3>2. CASE wire' = [wire EXCEPT ![s] = Sent(wire[s], "error")]
      BY <1>1, <2>2, <3>2, ErrorForm
    <3> QED BY <1>4, <3>1, <3>2 DEF Capture, Tell
  <2>4. turn[s].run \in Runs /\ turn[s].agent \in Agents /\ ctx[s] = Clear
    BY <2>1 DEF Fits, TurnIsHeld, ContextFollows
  <2>5. Fits("ending", turn[s], w, ctx[s])
    BY <2>3, <2>4 DEF Fits, TurnIsHeld, ContextFollows, ClientWaits
  <2>6. "ending" \in Places
    BY DEF Places
  <2>7. Moved(s)
    BY <1>1, <1>2, <2>1, <2>3, <2>5, <2>6, MoveFits DEF kept
  <2> QED BY <2>1, <2>7 DEF Quiet, Recording, Answering
<1>5. CASE Conclude(s)
  <2> DEFINE w == Sent(wire[s], "end")
  <2>1. /\ pc[s] = "ending" /\ wire' = [wire EXCEPT ![s] = w]
        /\ UNCHANGED <<ctx, heard, kept>>
        /\ last' = [last EXCEPT ![s] = turn[s].agent]
    BY <1>5 DEF Conclude, Tell
  <2>2. /\ ~ wire[s].late /\ wire[s].asked /\ wire[s].ends = 0
        /\ wire[s].text \/ wire[s].error \/ wire[s].selected # None
    BY <2>1 DEF Fits, ClientWaits
  <2>3. w \in Wires /\ ~ w.late /\ w.asked /\ w.ends = 1
    BY <1>1, <2>2, EndForm
  <2>4. w.text \/ w.error \/ w.selected # None
    BY <1>1, <2>2, EndForm
  <2> HIDE DEF w
  <2>5. turn[s].run \in Runs /\ turn[s].agent \in Agents /\ ctx[s] = Clear
    BY <2>1 DEF Fits, TurnIsHeld, ContextFollows
  <2>6. last' \in [Sockets -> Agents \cup {None}]
    BY <1>2, <2>1, <2>5
  <2>7. CASE pc' = [pc EXCEPT ![s] = "reply"] /\ turn' = turn
    <3>1. Fits("reply", turn[s], w, ctx[s])
      BY <2>3, <2>4, <2>5 DEF Fits, TurnIsHeld, ContextFollows, ClientWaits
    <3>2. "reply" \in Places
      BY DEF Places
    <3>3. Moved(s)
      BY <1>1, <1>2, <2>1, <2>3, <2>6, <2>7, <3>1, <3>2, MoveFits DEF kept
    <3> QED BY <2>1, <2>7, <3>3 DEF Quiet, Recording, Answering
  <2>8. CASE pc' = [pc EXCEPT ![s] = "listen"] /\ turn' = [turn EXCEPT ![s] = Idle]
    <3>1. Fits("listen", Idle, w, ctx[s])
      BY <2>3, <2>4, <2>5 DEF Fits, TurnIsHeld, ContextFollows, ClientWaits
    <3>2. "listen" \in Places
      BY DEF Places
    <3>3. Moved(s)
      BY <1>1, <1>2, <2>1, <2>3, <2>6, <2>8, <3>1, <3>2, Blanks, MoveFits DEF kept
    <3>4. turn'[s] = Idle
      BY <2>8 DEF TypeOK
    <3> QED BY <2>1, <3>3, <3>4 DEF Quiet, Recording, Answering, Idle
  <2> QED BY <1>5, <2>7, <2>8 DEF Conclude, Go
<1>6. CASE PeerGone(s)
  <2>1. /\ pc[s] \notin Recording /\ pc' = [pc EXCEPT ![s] = "gone"]
        /\ turn' = [turn EXCEPT ![s] = Idle] /\ ctx' = [ctx EXCEPT ![s] = Clear]
        /\ UNCHANGED <<wire, last, heard, kept>>
    BY <1>6 DEF PeerGone, Go, Closed
  <2>2. ~ wire[s].late /\ wire[s].ends <= 1
    BY <1>1 DEF Fits, ClientWaits, Wires
  <2>3. Fits("gone", Idle, wire[s], Clear)
    BY <2>2 DEF Fits, TurnIsHeld, ContextFollows, ClientWaits
  <2>4. "gone" \in Places
    BY DEF Places
  <2>5. Moved(s)
    BY <1>1, <1>2, <2>1, <2>3, <2>4, Blanks, MoveFits DEF kept
  <2>6. turn'[s] = Idle /\ pc'[s] = "gone"
    BY <2>1 DEF TypeOK
  <2> QED BY <2>1, <2>5, <2>6 DEF Quiet, Answering, Idle
<1>7. CASE Connect(s)
  <2>1. /\ pc[s] \in {"gone", "dropped"} /\ pc' = [pc EXCEPT ![s] = "listen"]
        /\ wire' = [wire EXCEPT ![s] = Silence] /\ ctx' = [ctx EXCEPT ![s] = Clear]
        /\ UNCHANGED <<turn, kept>>
    BY <1>7 DEF Connect, Go
  <2>2. last' \in [Sockets -> Agents \cup {None}] /\ heard' \in [Sockets -> SUBSET Agents]
    BY <1>2, <1>7 DEF Connect
  <2>3. turn[s] = Idle
    BY <2>1 DEF Fits, TurnIsHeld
  <2>4. Fits("listen", Idle, Silence, Clear)
    BY DEF Fits, TurnIsHeld, ContextFollows, ClientWaits, Silence
  <2>5. "listen" \in Places
    BY DEF Places
  <2>6. Moved(s)
    BY <1>1, <2>1, <2>2, <2>3, <2>4, <2>5, Blanks, MoveFits DEF kept
  <2>7. pc'[s] = "listen"
    BY <2>1 DEF TypeOK
  <2> QED BY <2>1, <2>6, <2>7 DEF Quiet, Recording, Answering
<1> QED BY <1>3, <1>4, <1>5, <1>6, <1>7

\* The three steps that touch what is kept are moves of their socket too.
LEMMA Keeping ==
    ASSUME ChatInv, NEW s \in Sockets, Accept(s) \/ ReadSeq(s) \/ Insert(s)
    PROVE  Moved(s)
<1> TypeOK /\ Fits(pc[s], turn[s], wire[s], ctx[s])
  BY DEF ChatInv
<1>1. /\ pc[s] \in Places /\ turn[s] \in Turns /\ wire[s] \in Wires
      /\ ctx[s] \in Contexts
      /\ pc = [pc EXCEPT ![s] = pc[s]] /\ turn = [turn EXCEPT ![s] = turn[s]]
      /\ wire = [wire EXCEPT ![s] = wire[s]] /\ ctx = [ctx EXCEPT ![s] = ctx[s]]
  BY Held
<1>2. /\ last \in [Sockets -> Agents \cup {None}] /\ heard \in [Sockets -> SUBSET Agents]
      /\ last' = last /\ heard' = heard
  BY DEF TypeOK, Accept, ReadSeq, Insert
<1>3. \A t \in Sockets \ {s} : read'[t] = read[t]
  BY DEF TypeOK, Accept, ReadSeq, Insert
<1>4. CASE Accept(s)
  <2> DEFINE w == Asked
  <2>1. PICK r \in Runs : turn' = [turn EXCEPT ![s] = [Idle EXCEPT !.run = r]]
    BY <1>4 DEF Accept
  <2> DEFINE tu == [Idle EXCEPT !.run = r]
  <2>2. /\ pc[s] = "listen" /\ pc' = [pc EXCEPT ![s] = "checked"]
        /\ wire' = [wire EXCEPT ![s] = w] /\ ctx' = ctx
    BY <1>4 DEF Accept, Go, Tell
  <2>3. tu \in Turns /\ tu.run = r /\ ~ tu.cut
    BY DEF Turns, Idle
  <2>4. w \in Wires /\ ~ w.late /\ w.asked /\ w.ends = 0
    BY Blanks
  <2>5. ctx[s] = Clear
    BY <2>2 DEF Fits, ContextFollows
  <2>6. turn' = [turn EXCEPT ![s] = tu]
    BY <2>1
  <2> HIDE DEF tu, w
  <2>7. Fits("checked", tu, w, ctx[s])
    BY <2>3, <2>4, <2>5 DEF Fits, TurnIsHeld, ContextFollows, ClientWaits
  <2>8. "checked" \in Places
    BY DEF Places
  <2> QED BY <1>1, <1>2, <1>3, <2>2, <2>3, <2>4, <2>6, <2>7, <2>8, MoveFits
<1>5. CASE ReadSeq(s)
  <2>1. UNCHANGED <<pc, turn, wire, ctx>>
    BY <1>5 DEF ReadSeq
  <2> QED BY <1>1, <1>2, <1>3, <2>1, MoveFits
<1>6. CASE Insert(s)
  <2>1. /\ pc[s] \in Recording /\ pc' = [pc EXCEPT ![s] = Onwards(s)]
        /\ turn' = [turn EXCEPT ![s] = IF pc[s] = "reply" THEN Idle ELSE turn[s]]
        /\ UNCHANGED <<wire, ctx>>
    BY <1>6 DEF Insert, Go
  <2>2. turn[s].run \in Runs /\ ctx[s] = Clear /\ ~ wire[s].late /\ wire[s].asked
    BY <2>1 DEF Recording, Fits, TurnIsHeld, ContextFollows, ClientWaits
  <2>3. CASE pc[s] = "reply"
    <3>1. Onwards(s) = "listen"
      BY <2>3 DEF Onwards
    <3>2. Fits("listen", Idle, wire[s], ctx[s])
      BY <2>2, <2>3 DEF Fits, TurnIsHeld, ContextFollows, ClientWaits
    <3>3. "listen" \in Places
      BY DEF Places
    <3>4. Idle \in Turns
      BY Blanks
    <3> QED BY <1>1, <1>2, <1>3, <2>1, <2>3, <3>1, <3>2, <3>3, <3>4, MoveFits
  <2>4. CASE pc[s] # "reply"
    <3>1. /\ wire[s].ends = 0 /\ ~ turn[s].cut
          /\ turn[s].agent \in Agents \cup {None}
      BY <1>1, <2>1, <2>4 DEF Recording, Fits, TurnIsHeld, ClientWaits, Turns
    <3>2. Onwards(s) \in {"direct", "enter", "say"}
          /\ (Onwards(s) = "enter" => turn[s].agent \in Agents)
      BY <2>1, <2>4, <3>1 DEF Onwards, Recording
    <3>3. Fits(Onwards(s), turn[s], wire[s], ctx[s])
      BY <2>2, <3>1, <3>2 DEF Fits, TurnIsHeld, ContextFollows, ClientWaits
    <3>4. Onwards(s) \in Places
      BY <3>2 DEF Places
    <3> DEFINE place == Onwards(s)
    <3>5. /\ pc' = [pc EXCEPT ![s] = place] /\ turn' = [turn EXCEPT ![s] = turn[s]]
          /\ wire' = [wire EXCEPT ![s] = wire[s]] /\ ctx' = [ctx EXCEPT ![s] = ctx[s]]
          /\ Fits(place, turn[s], wire[s], ctx[s]) /\ place \in Places
      BY <1>1, <2>1, <2>4, <3>3, <3>4
    <3> HIDE DEF place
    <3> QED BY <1>1, <1>2, <1>3, <3>5, MoveFits
  <2> QED BY <2>3, <2>4
<1> QED BY <1>4, <1>5, <1>6

-----------------------------------------------------------------------------
(* What is kept.                                                           *)

LEMMA StepIs ==
    ASSUME ChatInv, [Next]_vars
    PROVE  \/ UNCHANGED vars
           \/ \E s \in Sockets :
                Moved(s) /\ (Quiet(s) \/ Accept(s) \/ ReadSeq(s) \/ Insert(s))
<1>1. CASE UNCHANGED vars
  BY <1>1
<1>2. CASE Next
  <2>1. PICK s \in Sockets :
          \/ Refuse(s) \/ Choke(s) \/ Accept(s) \/ Choose(s) \/ AnswerDirectly(s) \/ FailToChoose(s)
          \/ ReadSeq(s) \/ Insert(s) \/ SayDirectly(s)
          \/ Enter(s) \/ Resolve(s) \/ FindNoModel(s) \/ Chunk(s) \/ End(s) \/ Raise(s)
          \/ Unsendable(s) \/ Capture(s) \/ Conclude(s) \/ PeerGone(s) \/ Connect(s)
    BY <1>2 DEF Next
  <2> QED BY <2>1, Choosing, Running, Closing, Keeping
<1> QED BY <1>1, <1>2

LEMMA FilesStay ==
    ASSUME ChatInv, [Next]_vars
    PROVE  /\ deliverables' \subseteq [run : Runs, agent : Agents, cut : BOOLEAN]
           /\ DeliverablesAreWhole' /\ frames' \in 0..MaxFrames
<1> TypeOK /\ DeliverablesAreWhole
  BY DEF ChatInv
<1>1. frames' \in 0..MaxFrames
  <2>1. frames' = frames \/ (frames < MaxFrames /\ frames' = frames + 1)
    BY DEF Next, vars, kept, Refuse, Choke, Accept, Choose, AnswerDirectly, FailToChoose,
           ReadSeq, Insert, SayDirectly, Enter, Resolve, FindNoModel, Chunk, End, Raise,
           Unsendable, Capture, Conclude, PeerGone, Connect
  <2> QED BY <2>1 DEF TypeOK
<1>2. CASE deliverables' = deliverables
  BY <1>1, <1>2 DEF TypeOK, DeliverablesAreWhole
<1>3. CASE deliverables' # deliverables
  <2>1. PICK s \in Sockets : Capture(s)
    BY <1>3 DEF Next, vars, kept, Refuse, Choke, Accept, Choose, AnswerDirectly, FailToChoose,
           ReadSeq, Insert, SayDirectly, Enter, Resolve, FindNoModel, Chunk, End, Raise,
           Unsendable, Conclude, PeerGone, Connect
  <2>2. /\ turn[s].run \in Runs /\ turn[s].agent \in Agents
        /\ ~ turn[s].cut /\ turn[s].cut \in BOOLEAN
    <3>1. pc[s] = "capture" /\ TurnIsHeld(pc[s], turn[s])
      BY <2>1 DEF ChatInv, Fits, Capture
    <3> QED BY <3>1 DEF TurnIsHeld, TypeOK, Turns
  <2> DEFINE d == [run |-> turn[s].run, agent |-> turn[s].agent, cut |-> turn[s].cut]
  <2>3. deliverables' = deliverables \cup {d}
    BY <1>3, <2>1 DEF Capture
  <2>4. d \in [run : Runs, agent : Agents, cut : BOOLEAN] /\ ~ d.cut
    BY <2>2
  <2> HIDE DEF d
  <2> QED BY <1>1, <2>3, <2>4 DEF TypeOK, DeliverablesAreWhole
<1> QED BY <1>2, <1>3

\* Nobody holds a number unless it is recording, and never one past the last.
LEMMA NumbersStay ==
    ASSUME ChatInv, NEW s \in Sockets, Moved(s), transcript' = transcript,
           \/ read' = read /\ pc[s] \notin Recording
           \/ ReadSeq(s)
    PROVE  NumbersRunOn'
<1>1. ASSUME NEW r \in Runs PROVE LastSeq(r)' \in Nat /\ Taken(r)' = 1..LastSeq(r)'
  <2>1. LastSeq(r) \in Nat /\ Taken(r) = 1..LastSeq(r)
    BY DEF ChatInv, NumbersRunOn
  <2>2. LastSeq(r)' = LastSeq(r) /\ Taken(r)' = Taken(r)
    BY DEF LastSeq, Taken
  <2> QED BY <2>1, <2>2
<1>2. ASSUME NEW t \in Sockets, read'[t] # None
      PROVE  pc'[t] \in Recording /\ read'[t] \in 0..LastSeq(turn[t].run)'
  <2>1. CASE t = s
    <3>1. ReadSeq(s)
      BY <1>2, <2>1 DEF ChatInv, NumbersRunOn
    <3>2. pc[s] \in Recording /\ read'[s] = LastSeq(turn[s].run) /\ pc' = pc /\ turn' = turn
      BY <3>1 DEF ReadSeq, ChatInv, TypeOK
    <3>3. turn[s].run \in Runs
      BY <3>2 DEF ChatInv, Fits, TurnIsHeld, Recording
    <3>4. LastSeq(turn[s].run) \in Nat
      BY <3>3 DEF ChatInv, NumbersRunOn
    <3>5. LastSeq(turn[s].run)' = LastSeq(turn[s].run)
      BY <3>2 DEF LastSeq, Taken
    <3> QED BY <2>1, <3>2, <3>4, <3>5
  <2>2. CASE t # s
    <3>1. read'[t] = read[t] /\ pc'[t] = pc[t] /\ turn'[t] = turn[t]
      BY <2>2 DEF Moved
    <3>2. pc[t] \in Recording /\ read[t] \in 0..LastSeq(turn[t].run)
      BY <1>2, <3>1 DEF ChatInv, NumbersRunOn
    <3>3. LastSeq(turn[t].run)' = LastSeq(turn[t].run)
      BY <3>1 DEF LastSeq, Taken
    <3> QED BY <3>1, <3>2, <3>3
  <2> QED BY <2>1, <2>2
<1> QED BY <1>1, <1>2 DEF NumbersRunOn

\* What an insertion does: nothing to the transcript, or the next number is
\* given to this socket's message.
LEMMA Inserting ==
    ASSUME ChatInv, NEW s \in Sockets, Insert(s)
    PROVE  LET r == turn[s].run IN
           /\ r \in Runs /\ pc[s] \in Recording /\ read[s] \in 0..LastSeq(r)
           /\ Message(s).by = s /\ Message(s).seq = read[s] + 1 /\ Message(s) \in Rows
           /\ read' = [read EXCEPT ![s] = None] /\ UNCHANGED <<sessions, talkers>>
           /\ \/ /\ transcript' = [transcript EXCEPT ![r] = @ \cup {Message(s)}]
                 /\ UNCHANGED lost /\ read[s] = LastSeq(r)
              \/ /\ read[s] + 1 \in Taken(r) /\ UNCHANGED transcript
                 /\ lost' = [lost EXCEPT ![r] = @ \cup {"clash"}]
              \/ /\ lost' = [lost EXCEPT ![r] = @ \cup {"database"}]
                 /\ UNCHANGED transcript
<1> DEFINE r == turn[s].run
<1>1. pc[s] \in Recording /\ read[s] # None
  BY DEF Insert
<1>2. r \in Runs
  BY <1>1 DEF ChatInv, Fits, TurnIsHeld, Recording
<1>3. read[s] \in 0..LastSeq(r) /\ Taken(r) = 1..LastSeq(r) /\ LastSeq(r) \in Nat
  BY <1>1, <1>2 DEF ChatInv, NumbersRunOn
<1>4. Message(s).by = s /\ Message(s).seq = read[s] + 1
  BY DEF Message, NextSeq
<1>5. Message(s) \in Rows
  <2>1. read[s] + 1 \in Nat
    BY <1>3
  <2>2. CASE pc[s] = "question"
    BY <2>1, <2>2 DEF Message, NextSeq, Rows
  <2>3. CASE pc[s] = "direct"
    BY <2>1, <2>3 DEF Message, NextSeq, Rows
  <2>4. CASE pc[s] = "reply"
    BY <2>1, <2>4 DEF Message, NextSeq, Rows
  <2> QED BY <1>1, <2>2, <2>3, <2>4 DEF Recording
<1>6. read[s] + 1 \notin Taken(r) => read[s] = LastSeq(r)
  BY <1>3
<1> HIDE DEF r
<1>7. /\ read' = [read EXCEPT ![s] = None] /\ UNCHANGED <<sessions, talkers>>
      /\ \/ /\ transcript' = [transcript EXCEPT ![r] = @ \cup {Message(s)}]
            /\ UNCHANGED lost /\ read[s] + 1 \notin Taken(r)
         \/ /\ read[s] + 1 \in Taken(r) /\ UNCHANGED transcript
            /\ lost' = [lost EXCEPT ![r] = @ \cup {"clash"}]
         \/ /\ lost' = [lost EXCEPT ![r] = @ \cup {"database"}]
            /\ UNCHANGED transcript
  BY DEF Insert, NextSeq, r
<1> QED BY <1>1, <1>2, <1>3, <1>4, <1>5, <1>6, <1>7 DEF r

\* The numbers of a run after an insertion: as they were, or one more.
LEMMA NumbersGrow ==
    ASSUME ChatInv, NEW s \in Sockets, Insert(s), NEW r \in Runs
    PROVE  /\ LastSeq(r) \in Nat /\ LastSeq(r)' \in Nat
           /\ Taken(r)' = 1..LastSeq(r)' /\ LastSeq(r) <= LastSeq(r)'
           /\ (r # turn[s].run \/ transcript' = transcript) =>
                 transcript'[r] = transcript[r] /\ LastSeq(r)' = LastSeq(r)
           /\ (r = turn[s].run /\ transcript' # transcript) =>
                 /\ transcript'[r] = transcript[r] \cup {Message(s)}
                 /\ read[s] = LastSeq(r) /\ lost' = lost
                 /\ LastSeq(r)' = LastSeq(r) + 1 /\ Message(s).seq = LastSeq(r) + 1
<1>1. LastSeq(r) \in Nat /\ Taken(r) = 1..LastSeq(r)
  BY DEF ChatInv, NumbersRunOn
<1>2. transcript \in [Runs -> SUBSET Rows]
  BY DEF ChatInv, TypeOK
<1>3. CASE r # turn[s].run \/ transcript' = transcript
  <2>1. transcript'[r] = transcript[r]
    BY <1>2, <1>3, Inserting
  <2>2. LastSeq(r)' = LastSeq(r) /\ Taken(r)' = Taken(r)
    BY <2>1 DEF LastSeq, Taken
  <2>3. ~ (r = turn[s].run /\ transcript' # transcript)
    BY <1>3
  <2> QED BY <1>1, <2>1, <2>2, <2>3
<1>4. CASE r = turn[s].run /\ transcript' # transcript
  <2>1. /\ transcript' = [transcript EXCEPT ![r] = @ \cup {Message(s)}]
        /\ lost' = lost /\ read[s] = LastSeq(r) /\ Message(s).seq = LastSeq(r) + 1
    BY <1>4, Inserting
  <2>2. transcript'[r] = transcript[r] \cup {Message(s)}
    BY <1>2, <2>1
  <2>3. Taken(r)' = Taken(r) \cup {LastSeq(r) + 1}
    BY <2>1, <2>2 DEF Taken
  <2>4. Taken(r)' = 1..(LastSeq(r) + 1)
    BY <1>1, <2>3
  <2>5. LastSeq(r)' = Max(Taken(r)' \cup {0})
    BY DEF LastSeq
  <2>6. LastSeq(r)' = LastSeq(r) + 1
    <3>1. LastSeq(r) + 1 \in Nat
      BY <1>1
    <3>2. Max(1..(LastSeq(r) + 1) \cup {0}) = LastSeq(r) + 1
      BY <3>1, GreatestOf
    <3> QED BY <2>4, <2>5, <3>2
  <2> QED BY <1>1, <1>4, <2>1, <2>2, <2>4, <2>6
<1> QED BY <1>3, <1>4

LEMMA InsertNumbers ==
    ASSUME ChatInv, NEW s \in Sockets, Moved(s), Insert(s)
    PROVE  NumbersRunOn'
<1>1. ASSUME NEW t \in Sockets, read'[t] # None
      PROVE  pc'[t] \in Recording /\ read'[t] \in 0..LastSeq(turn[t].run)'
             /\ turn'[t] = turn[t]
  <2>1. t # s
    BY <1>1, Inserting DEF ChatInv, TypeOK
  <2>2. read'[t] = read[t] /\ pc'[t] = pc[t] /\ turn'[t] = turn[t]
    BY <2>1 DEF Moved
  <2>3. pc[t] \in Recording /\ read[t] \in 0..LastSeq(turn[t].run)
    BY <1>1, <2>2 DEF ChatInv, NumbersRunOn
  <2>4. turn[t].run \in Runs
    BY <2>3 DEF ChatInv, Fits, TurnIsHeld, Recording
  <2> DEFINE r == turn[t].run
  <2>5. LastSeq(r) \in Nat /\ LastSeq(r)' \in Nat /\ LastSeq(r) <= LastSeq(r)'
    <3> SUFFICES ASSUME NEW q \in Runs
                 PROVE  LastSeq(q) \in Nat /\ LastSeq(q)' \in Nat /\ LastSeq(q) <= LastSeq(q)'
      BY <2>2, <2>4 DEF LastSeq, Taken
    <3> QED BY NumbersGrow
  <2> QED BY <2>2, <2>3, <2>5
<1>2. \A r \in Runs : LastSeq(r)' \in Nat /\ Taken(r)' = 1..LastSeq(r)'
  BY NumbersGrow
<1>3. \A t \in Sockets : read'[t] # None =>
         pc'[t] \in Recording /\ read'[t] \in 0..LastSeq(turn[t].run)' /\ turn'[t] = turn[t]
  BY <1>1
<1> QED BY <1>2, <1>3 DEF NumbersRunOn

-----------------------------------------------------------------------------
(* Questions and answers.                                                  *)

\* Calm is never regained.
LEMMA CalmEnds ==
    ASSUME ChatInv, NEW r \in Runs, NEW s \in Sockets, Undisturbed(r)',
           Quiet(s) \/ Accept(s) \/ ReadSeq(s) \/ Insert(s)
    PROVE  Undisturbed(r) /\ talkers[r] \subseteq talkers'[r]
           /\ "database" \notin lost'[r] /\ \A a, b \in talkers'[r] : a = b
<1>1. talkers \in [Runs -> SUBSET Sockets] /\ lost \in [Runs -> SUBSET {"database", "clash"}]
  BY DEF ChatInv, TypeOK
<1>2. "database" \notin lost'[r] /\ \A a, b \in talkers'[r] : a = b
  BY DEF Undisturbed
<1>3. talkers[r] \subseteq talkers'[r] /\ lost[r] \subseteq lost'[r]
  <2>1. CASE Quiet(s)
    BY <2>1 DEF Quiet, kept
  <2>2. CASE Accept(s)
    BY <1>1, <2>2 DEF Accept
  <2>3. CASE ReadSeq(s)
    BY <2>3 DEF ReadSeq
  <2>4. CASE Insert(s)
    BY <1>1, <2>4, Inserting
  <2> QED BY <2>1, <2>2, <2>3, <2>4
<1> QED BY <1>2, <1>3 DEF Undisturbed

\* What a calm run asks of one socket that talks on it.
Waits(s, r) ==
    /\ s \in talkers[r]
    /\ read[s] # None => read[s] = LastSeq(r)
    /\ pc[s] \in Answering => \E q \in transcript[r] :
           q.seq = LastSeq(r) /\ q.role = "user" /\ q.by = s

\* Where the transcript does not change, a calm run keeps its order.
LEMMA OrderStays ==
    ASSUME ChatInv, NEW s \in Sockets, Moved(s), transcript' = transcript,
           NEW r \in Runs, Undisturbed(r)',
           \/ Quiet(s)
           \/ Accept(s)
           \/ ReadSeq(s)
    PROVE  /\ lost'[r] = {}
           /\ \A t \in Sockets : turn'[t].run = r => Waits(t, r)'
<1>1. /\ Undisturbed(r) /\ talkers[r] \subseteq talkers'[r]
      /\ "database" \notin lost'[r] /\ \A a, b \in talkers'[r] : a = b
  BY CalmEnds
<1>2. lost[r] = {} /\ \A t \in Sockets : turn[t].run = r => Waits(t, r)
  BY <1>1 DEF ChatInv, QuestionsWait, AnswersFollowTheirQuestions, Waits
<1>3. LastSeq(r)' = LastSeq(r)
  BY DEF LastSeq, Taken
<1>4. lost'[r] = {}
  <2>1. CASE Quiet(s) \/ ReadSeq(s)
    BY <1>2, <2>1 DEF Quiet, kept, ReadSeq
  <2>2. CASE Accept(s)
    <3>1. lost \in [Runs -> SUBSET {"database", "clash"}]
      BY DEF ChatInv, TypeOK
    <3> QED BY <1>1, <1>2, <2>2, <3>1 DEF Accept
  <2> QED BY <2>1, <2>2
<1>5. ASSUME NEW t \in Sockets, turn'[t].run = r PROVE Waits(t, r)'
  <2>1. CASE t # s
    <3>1. pc'[t] = pc[t] /\ turn'[t] = turn[t] /\ read'[t] = read[t]
      BY <2>1 DEF Moved
    <3>2. Waits(t, r)
      BY <1>2, <1>5, <3>1
    <3> QED BY <1>1, <1>3, <3>1, <3>2 DEF Waits
  <2>2. CASE t = s /\ Quiet(s)
    <3>1. turn[s].run = r /\ (pc'[s] \in Answering => pc[s] \in Answering)
          /\ read' = read /\ talkers' = talkers
      BY <1>5, <2>2 DEF Quiet, kept
    <3>2. Waits(s, r)
      BY <1>2, <3>1
    <3> QED BY <1>3, <2>2, <3>1, <3>2 DEF Waits
  <2>3. CASE t = s /\ Accept(s)
    <3>1. /\ turn \in [Sockets -> Turns] /\ pc \in [Sockets -> Places]
          /\ talkers \in [Runs -> SUBSET Sockets]
      BY DEF ChatInv, TypeOK
    <3>2. PICK q \in Runs : /\ turn' = [turn EXCEPT ![s] = [Idle EXCEPT !.run = q]]
                            /\ talkers' = [talkers EXCEPT ![q] = @ \cup {s}]
      BY <2>3 DEF Accept
    <3>3. q = r
      BY <1>5, <2>3, <3>1, <3>2 DEF Idle
    <3>4. pc[s] = "listen" /\ pc'[s] = "checked" /\ read' = read
      BY <2>3, <3>1 DEF Accept, Go
    <3>5. read'[s] = None
      BY <3>4 DEF ChatInv, NumbersRunOn, Recording
    <3> QED BY <2>3, <3>1, <3>2, <3>3, <3>4, <3>5 DEF Waits, Answering
  <2>4. CASE t = s /\ ReadSeq(s)
    <3>1. UNCHANGED <<pc, turn, talkers>> /\ read'[s] = LastSeq(turn[s].run)
      BY <2>4 DEF ReadSeq, ChatInv, TypeOK
    <3>2. Waits(s, r) /\ turn[s].run = r
      BY <1>2, <1>5, <2>4, <3>1
    <3> QED BY <1>3, <2>4, <3>1, <3>2 DEF Waits
  <2> QED BY <2>1, <2>2, <2>3, <2>4
<1> QED BY <1>4, <1>5

LEMMA QuestionsStay ==
    ASSUME ChatInv, NEW s \in Sockets, Moved(s), transcript' = transcript,
           Quiet(s) \/ Accept(s) \/ ReadSeq(s)
    PROVE  QuestionsWait' /\ AnswersFollowTheirQuestions'
<1>1. ASSUME NEW r \in Runs, Undisturbed(r)'
      PROVE  /\ lost'[r] = {}
             /\ \A t \in Sockets : turn'[t].run = r => Waits(t, r)'
  BY <1>1, OrderStays
<1>2. QuestionsWait'
  BY <1>1 DEF QuestionsWait, Waits
<1>3. ASSUME NEW r \in Runs, Undisturbed(r)'
      PROVE  \A m \in transcript'[r] : m.role # "user" =>
                \E q \in transcript'[r] : q.seq = m.seq - 1 /\ q.role = "user" /\ q.by = m.by
  BY <1>3, CalmEnds DEF ChatInv, AnswersFollowTheirQuestions
<1> QED BY <1>1, <1>2, <1>3 DEF AnswersFollowTheirQuestions

\* An insertion on a calm run is the question's, or stands behind it.
LEMMA OrderGrows ==
    ASSUME ChatInv, NEW s \in Sockets, Moved(s), Insert(s),
           NEW r \in Runs, Undisturbed(r)'
    PROVE  /\ lost'[r] = {}
           /\ \A t \in Sockets : turn'[t].run = r => Waits(t, r)'
           /\ \A m \in transcript'[r] : m.role # "user" =>
                \E q \in transcript'[r] : q.seq = m.seq - 1 /\ q.role = "user" /\ q.by = m.by
<1>1. /\ Undisturbed(r) /\ talkers[r] \subseteq talkers'[r]
      /\ "database" \notin lost'[r] /\ \A a, b \in talkers'[r] : a = b
  BY CalmEnds
<1>2. lost[r] = {} /\ \A t \in Sockets : turn[t].run = r => Waits(t, r)
  BY <1>1 DEF ChatInv, QuestionsWait, AnswersFollowTheirQuestions, Waits
<1>3. \A m \in transcript[r] : m.role # "user" =>
         \E q \in transcript[r] : q.seq = m.seq - 1 /\ q.role = "user" /\ q.by = m.by
  BY <1>1 DEF ChatInv, AnswersFollowTheirQuestions
<1>4. /\ turn[s].run \in Runs /\ pc[s] \in Recording
      /\ talkers' = talkers /\ Message(s).by = s
      /\ read \in [Sockets -> Nat \cup {None}] /\ read' = [read EXCEPT ![s] = None]
  BY Inserting DEF ChatInv, TypeOK
<1>5. turn'[s].run \in {turn[s].run, None} /\ pc'[s] = Onwards(s)
  BY DEF Insert, Go, Idle, ChatInv, TypeOK
<1>6. ASSUME NEW t \in Sockets, t # s, turn'[t].run = r
      PROVE  Waits(t, r) /\ pc'[t] = pc[t] /\ read'[t] = read[t]
  BY <1>2, <1>6 DEF Moved
<1>7. CASE r # turn[s].run
  <2>1. transcript'[r] = transcript[r] /\ LastSeq(r)' = LastSeq(r)
    BY <1>7, NumbersGrow
  <2>2. lost'[r] = lost[r]
    BY <1>7, Inserting DEF ChatInv, TypeOK
  <2>3. ASSUME NEW t \in Sockets, turn'[t].run = r PROVE Waits(t, r)'
    <3>1. t # s
      BY <1>5, <1>7, <2>3
    <3> QED BY <1>4, <1>6, <2>1, <2>3, <3>1 DEF Waits
  <2> QED BY <1>2, <1>3, <2>1, <2>2, <2>3
<1>8. CASE r = turn[s].run
  <2>1. Waits(s, r)
    BY <1>2, <1>8
  <2>2. ASSUME NEW t \in Sockets, turn'[t].run = r PROVE t = s
    BY <1>1, <1>4, <1>6, <2>1, <2>2 DEF Waits
  <2>3. read[s] = LastSeq(r) /\ LastSeq(r) \in Nat
    BY <1>4, <1>8, <2>1, Inserting DEF Waits, ChatInv, NumbersRunOn
  <2>4. transcript' # transcript
    <3>1. read[s] + 1 \notin Taken(r)
      BY <2>3 DEF ChatInv, NumbersRunOn
    <3>2. lost \in [Runs -> SUBSET {"database", "clash"}]
      BY DEF ChatInv, TypeOK
    <3>3. ~ lost' = [lost EXCEPT ![r] = @ \cup {"database"}]
      BY <1>1, <3>2
    <3>4. transcript' = [transcript EXCEPT ![r] = @ \cup {Message(s)}]
      BY <1>8, <3>1, <3>3, Inserting
    <3>5. Message(s) \in transcript'[r]
      BY <3>4 DEF ChatInv, TypeOK
    <3>6. Message(s).seq = read[s] + 1
      BY Inserting
    <3>7. Message(s) \notin transcript[r]
      BY <3>1, <3>6 DEF Taken
    <3> QED BY <3>5, <3>7
  <2>5. /\ transcript'[r] = transcript[r] \cup {Message(s)} /\ lost' = lost
        /\ LastSeq(r)' = LastSeq(r) + 1 /\ Message(s).seq = LastSeq(r) + 1
    BY <1>8, <2>4, NumbersGrow
  <2>6. Waits(s, r)'
    <3>1. s \in talkers'[r] /\ read'[s] = None
      BY <1>1, <1>4, <2>1 DEF Waits
    <3>2. pc'[s] \in Answering => Message(s).role = "user"
      BY <1>4, <1>5 DEF Onwards, Answering, Recording, Message
    <3> QED BY <1>4, <2>5, <3>1, <3>2 DEF Waits
  <2>7. Message(s).role # "user" =>
           \E q \in transcript[r] : q.seq = LastSeq(r) /\ q.role = "user" /\ q.by = s
    <3>1. Message(s).role # "user" => pc[s] \in Answering
      BY <1>4 DEF Answering, Recording, Message
    <3> QED BY <2>1, <3>1 DEF Waits
  <2>8. ASSUME NEW m \in transcript'[r], m.role # "user"
        PROVE  \E q \in transcript'[r] : q.seq = m.seq - 1 /\ q.role = "user" /\ q.by = m.by
    <3>1. CASE m \in transcript[r]
      BY <1>3, <2>5, <2>8, <3>1
    <3>2. CASE m = Message(s)
      <4>1. m.seq - 1 = LastSeq(r) /\ m.by = s
        BY <1>4, <2>3, <2>5, <3>2
      <4> QED BY <2>5, <2>7, <2>8, <3>2, <4>1
    <3> QED BY <2>5, <2>8, <3>1, <3>2
  <2>9. lost'[r] = {}
    BY <1>2, <2>5
  <2>10. \A t \in Sockets : turn'[t].run = r => Waits(t, r)'
    BY <2>2, <2>6
  <2> QED BY <2>8, <2>9, <2>10
<1> QED BY <1>7, <1>8

LEMMA KeptTyped ==
    ASSUME ChatInv, NEW s \in Sockets,
           Quiet(s) \/ Accept(s) \/ ReadSeq(s) \/ Insert(s)
    PROVE  /\ read' \in [Sockets -> Nat \cup {None}] /\ sessions' \subseteq Runs
           /\ transcript' \in [Runs -> SUBSET Rows]
           /\ talkers' \in [Runs -> SUBSET Sockets]
           /\ lost' \in [Runs -> SUBSET {"database", "clash"}]
<1>1. /\ read \in [Sockets -> Nat \cup {None}] /\ sessions \subseteq Runs
      /\ transcript \in [Runs -> SUBSET Rows]
      /\ talkers \in [Runs -> SUBSET Sockets]
      /\ lost \in [Runs -> SUBSET {"database", "clash"}]
  BY DEF ChatInv, TypeOK
<1>2. CASE Quiet(s)
  BY <1>1, <1>2 DEF Quiet, kept
<1>3. CASE Accept(s)
  BY <1>1, <1>3 DEF Accept
<1>4. CASE ReadSeq(s)
  <2>1. LastSeq(turn[s].run) \in Nat
    BY <1>4 DEF ReadSeq, Recording, ChatInv, Fits, TurnIsHeld, NumbersRunOn
  <2> QED BY <1>1, <1>4, <2>1 DEF ReadSeq
<1>5. CASE Insert(s)
  <2>1. /\ turn[s].run \in Runs /\ Message(s) \in Rows
        /\ read' = [read EXCEPT ![s] = None] /\ UNCHANGED <<sessions, talkers>>
    BY <1>5, Inserting
  <2>2. /\ \/ transcript' = transcript
           \/ transcript' = [transcript EXCEPT ![turn[s].run] = @ \cup {Message(s)}]
        /\ \/ lost' = lost
           \/ lost' = [lost EXCEPT ![turn[s].run] = @ \cup {"clash"}]
           \/ lost' = [lost EXCEPT ![turn[s].run] = @ \cup {"database"}]
    BY <1>5, Inserting
  <2> QED BY <1>1, <2>1, <2>2
<1> QED BY <1>2, <1>3, <1>4, <1>5

-----------------------------------------------------------------------------
(* The inductive invariant and what follows from it.                       *)

LEMMA ChatInvInit == Init => ChatInv
<1> SUFFICES ASSUME Init PROVE ChatInv
  OBVIOUS
<1>1. TypeOK
  BY Blanks DEF Init, TypeOK, Places
<1>2. ASSUME NEW s \in Sockets PROVE Fits(pc[s], turn[s], wire[s], ctx[s])
  BY DEF Init, Fits, TurnIsHeld, ContextFollows, ClientWaits, Silence
<1>3. NumbersRunOn
  <2>1. ASSUME NEW r \in Runs PROVE LastSeq(r) \in Nat /\ Taken(r) = 1..LastSeq(r)
    <3>1. transcript[r] = {}
      BY DEF Init
    <3>2. Taken(r) = 1..0 /\ LastSeq(r) = 0
      BY <3>1, EmptyRun
    <3> QED BY <3>2
  <2>2. \A s \in Sockets : read[s] = None
    BY DEF Init
  <2> QED BY <2>1, <2>2 DEF NumbersRunOn
<1>4. DeliverablesAreWhole /\ AnswersFollowTheirQuestions
  BY DEF Init, DeliverablesAreWhole, AnswersFollowTheirQuestions
<1>5. QuestionsWait
  BY DEF Init, QuestionsWait, Idle
<1> QED BY <1>1, <1>2, <1>3, <1>4, <1>5 DEF ChatInv

LEMMA ChatInvStep == ChatInv /\ [Next]_vars => ChatInv'
<1> SUFFICES ASSUME ChatInv, [Next]_vars PROVE ChatInv'
  OBVIOUS
<1>1. CASE UNCHANGED vars
  <2>1. TypeOK' /\ DeliverablesAreWhole' /\ AnswersFollowTheirQuestions'
    BY <1>1 DEF vars, ChatInv, TypeOK, DeliverablesAreWhole, AnswersFollowTheirQuestions,
                Undisturbed
  <2>2. \A s \in Sockets : Fits(pc'[s], turn'[s], wire'[s], ctx'[s])
    BY <1>1 DEF vars, ChatInv
  <2>3. NumbersRunOn'
    BY <1>1 DEF vars, ChatInv, NumbersRunOn, LastSeq, Taken
  <2>4. QuestionsWait'
    <3>1. UNCHANGED <<pc, turn, read, transcript, talkers, lost>>
      BY <1>1 DEF vars
    <3>2. \A r \in Runs : LastSeq(r)' = LastSeq(r) /\ Undisturbed(r)' = Undisturbed(r)
      BY <3>1 DEF LastSeq, Taken, Undisturbed
    <3> QED BY <3>1, <3>2 DEF ChatInv, QuestionsWait
  <2> QED BY <2>1, <2>2, <2>3, <2>4 DEF ChatInv
<1>2. ASSUME NEW s \in Sockets, Moved(s),
             Quiet(s) \/ Accept(s) \/ ReadSeq(s) \/ Insert(s)
      PROVE  ChatInv'
  <2>1. TypeOK'
    <3>1. /\ deliverables' \subseteq [run : Runs, agent : Agents, cut : BOOLEAN]
          /\ frames' \in 0..MaxFrames
      BY FilesStay
    <3> QED BY <1>2, <3>1, KeptTyped DEF Moved, TypeOK
  <2>2. ASSUME NEW t \in Sockets PROVE Fits(pc'[t], turn'[t], wire'[t], ctx'[t])
    <3>1. CASE t = s
      BY <1>2, <3>1 DEF Moved
    <3>2. CASE t # s
      BY <1>2, <3>2 DEF Moved, ChatInv
    <3> QED BY <3>1, <3>2
  <2>3. NumbersRunOn'
    <3>1. CASE Quiet(s)
      BY <1>2, <3>1, NumbersStay DEF Quiet, kept
    <3>2. CASE Accept(s)
      <4>1. pc[s] \notin Recording /\ read' = read /\ transcript' = transcript
        BY <3>2 DEF Accept, Recording
      <4> QED BY <1>2, <4>1, NumbersStay
    <3>3. CASE ReadSeq(s)
      BY <1>2, <3>3, NumbersStay DEF ReadSeq
    <3>4. CASE Insert(s)
      BY <1>2, <3>4, InsertNumbers
    <3> QED BY <1>2, <3>1, <3>2, <3>3, <3>4
  <2>4. DeliverablesAreWhole'
    BY FilesStay
  <2>5. QuestionsWait' /\ AnswersFollowTheirQuestions'
    <3>1. CASE Quiet(s) \/ Accept(s) \/ ReadSeq(s)
      <4>1. transcript' = transcript
        BY <3>1 DEF Quiet, kept, Accept, ReadSeq
      <4> QED BY <1>2, <3>1, <4>1, QuestionsStay
    <3>2. CASE Insert(s)
      BY <1>2, <3>2, OrderGrows DEF QuestionsWait, AnswersFollowTheirQuestions, Waits
    <3> QED BY <1>2, <3>1, <3>2
  <2> QED BY <2>1, <2>2, <2>3, <2>4, <2>5 DEF ChatInv
<1> QED BY <1>1, <1>2, StepIs

\* Every value in Chat keeps its type, for any constants.
THEOREM ChatTyped == Spec => []TypeOK
<1>1. ChatInv => TypeOK
  BY DEF ChatInv
<1> QED BY <1>1, ChatInvInit, ChatInvStep, PTL DEF Spec

\* For any number of sockets, runs, agents and frames: a frame that a socket
\* survives is sent one stream_end, nothing after it and something to read before
\* it; a frame that ends its socket was sent nothing and began no turn.
THEOREM FramesEnd == Spec => []EveryFrameEnds
<1>1. ChatInv => EveryFrameEnds
  <2> SUFFICES ASSUME ChatInv, NEW s \in Sockets
               PROVE  /\ wire[s].ends <= 1 /\ ~ wire[s].late
                      /\ (pc[s] = "listen" /\ wire[s].asked) =>
                            /\ wire[s].ends = 1
                            /\ wire[s].text \/ wire[s].error \/ wire[s].selected # None
                      /\ pc[s] = "dropped" => wire[s] = Asked /\ turn[s] = Idle
    BY DEF EveryFrameEnds
  <2>1. /\ ClientWaits(pc[s], wire[s]) /\ TurnIsHeld(pc[s], turn[s])
        /\ wire[s] \in Wires
    BY DEF ChatInv, Fits, TypeOK
  <2> QED BY <2>1 DEF ClientWaits, TurnIsHeld, Wires
<1> QED BY <1>1, ChatInvInit, ChatInvStep, PTL DEF Spec

\* A graph runs as the announced agent of its project's portfolio, in the context
\* of its own run, and leaves nothing of it on the socket.
THEOREM GraphsRunAsAnnounced == Spec => []RunsAsAnnounced
<1>1. ChatInv => RunsAsAnnounced
  BY DEF ChatInv, Fits, ContextFollows, RunsAsAnnounced
<1> QED BY <1>1, ChatInvInit, ChatInvStep, PTL DEF Spec

\* Nothing is filed from a turn that was cut short.
THEOREM FiledWhole == Spec => []DeliverablesAreWhole
<1>1. ChatInv => DeliverablesAreWhole
  BY DEF ChatInv
<1> QED BY <1>1, ChatInvInit, ChatInvStep, PTL DEF Spec

\* On a run that one socket talks on, with a database that answers, no message is
\* lost and every answer stands right behind its question.
THEOREM AnswersBehindQuestions == Spec => []AnswersFollowTheirQuestions
<1>1. ChatInv => AnswersFollowTheirQuestions
  BY DEF ChatInv
<1> QED BY <1>1, ChatInvInit, ChatInvStep, PTL DEF Spec
=============================================================================
