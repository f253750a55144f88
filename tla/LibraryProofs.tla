--------------------------- MODULE LibraryProofs ---------------------------
(***************************************************************************)
(* Proofs about Library: for any contents, workloads, calls and ids.        *)
(***************************************************************************)
EXTENDS Library, FiniteSetTheorems, FunctionTheorems, NaturalsInduction, WellFoundedInduction, TLAPS

-----------------------------------------------------------------------------
(* The calls. *)

Fields == {"pc", "ask", "found", "answer", "seen", "saw", "alone"}
IsCall(x) == x = [f \in Fields |-> x[f]]

\* The statements that a request may be at.
Fits(pc, op) ==
  \/ pc = "list" /\ op \in {"egwBooks", "beliefs", "hymnals", "courses", "belief"}
  \/ pc \in {"item", "links"} /\ op = "feedItem"
  \/ pc \in {"edition", "paragraphs", "parallel edition", "parallel paragraphs"} /\ op = "egwChapter"
  \/ pc = "hymnal" /\ op \in {"hymns", "hymn"}
  \/ pc = "hymns" /\ op = "hymns"
  \/ pc \in {"hymn", "stanzas"} /\ op = "hymn"
  \/ pc \in {"week", "days"} /\ op = "week"
  \/ pc \in {"lesson", "questions", "options"} /\ op = "lesson"
  \/ pc \in {"option", "update", "lock", "insert", "commit"} /\ op = "answer"
  \/ pc = "answered"

InTransaction == {"lock", "insert", "commit"}

CallOK(c) ==
  \/ call[c] = Idle
  \/ /\ IsCall(call[c]) /\ call[c].ask \in load.asks
     /\ Fits(call[c].pc, call[c].ask.op)
CallsOK == call = [c \in Calls |-> call[c]] /\ \A c \in Calls : CallOK(c)
CallsInv == load \in Workloads /\ CallsOK

\* What of a call that is in progress stays, and that others are left alone.
Keeps(c) ==
  /\ call' = [k \in Calls |-> call'[k]] /\ \A k \in Calls \ {c} : call'[k] = call[k]
  /\ IsCall(call'[c])
  /\ call'[c].ask = call[c].ask /\ call'[c].seen = call[c].seen
  /\ call'[c].saw = call[c].saw /\ call'[c].alone = call[c].alone

LEMMA AskKind ==
  ASSUME CallsInv, NEW c \in Calls, call[c] # Idle
  PROVE  call[c].ask.op \in Ops
BY LibraryAssumption DEF CallsInv, CallsOK, CallOK, LibraryAssumption

LEMMA NotIdle ==
  ASSUME CallsInv, NEW c \in Calls
  PROVE  call[c] = Idle <=> call[c].pc = "idle"
<1>1. ASSUME call[c] # Idle PROVE call[c].pc # "idle"
  <2>1. Fits(call[c].pc, call[c].ask.op) /\ call[c].ask.op \in Ops
    BY <1>1, AskKind DEF CallsInv, CallsOK, CallOK
  <2> QED BY <2>1 DEF Fits, Ops
<1> QED BY <1>1 DEF Idle

LEMMA StepKind ==
  ASSUME CallsInv, NEW c \in Calls, call[c].pc # "idle"
  PROVE  Fits(call[c].pc, call[c].ask.op)
BY DEF CallsInv, CallsOK, CallOK, Idle

LEMMA ReplyEffect ==
  ASSUME CallsInv, NEW c \in Calls, call[c] # Idle, NEW a, Reply(c, a)
  PROVE  Keeps(c) /\ call'[c].pc = "answered" /\ call'[c].answer = a
<1>1. IsCall(call[c]) /\ call = [k \in Calls |-> call[k]]
  BY DEF CallsInv, CallsOK, CallOK
<1>2. call'[c] = [call[c] EXCEPT !.pc = "answered", !.found = <<>>, !.answer = a]
  BY <1>1 DEF Reply
<1> QED BY <1>1, <1>2 DEF Reply, Keeps, IsCall, Fields

LEMMA GotoEffect ==
  ASSUME CallsInv, NEW c \in Calls, call[c] # Idle, NEW pc, NEW x, Goto(c, pc, x)
  PROVE  Keeps(c) /\ call'[c].pc = pc /\ call'[c].found = Append(call[c].found, x)
<1>1. IsCall(call[c]) /\ call = [k \in Calls |-> call[k]]
  BY DEF CallsInv, CallsOK, CallOK
<1>2. call'[c] = [call[c] EXCEPT !.pc = pc, !.found = Append(@, x)]
  BY <1>1 DEF Goto
<1> QED BY <1>1, <1>2 DEF Goto, Keeps, IsCall, Fields

\* The statements of the reads, and the lookup of an answer.
Statement(c) ==
  \/ List(c) \/ FindItem(c) \/ ReadLinks(c)
  \/ FindEdition(c) \/ ReadParagraphs(c) \/ FindParallel(c) \/ ReadParallel(c)
  \/ FindHymnal(c) \/ ReadHymns(c) \/ FindHymn(c) \/ ReadStanzas(c)
  \/ FindWeek(c) \/ ReadDays(c)
  \/ FindLesson(c) \/ ReadQuestions(c) \/ ReadOptions(c)
  \/ FindOption(c) \/ Fail(c)

Goes(c, pc) == \E x : Goto(c, pc, x)
Replies(c)  == \E a : Reply(c, a)

\* A statement is one of a call in progress; it answers, or goes on to one
\* that comes before the transaction, of the same request.
LEMMA StatementMoves ==
  ASSUME CallsInv, NEW c \in Calls, Statement(c)
  PROVE  /\ c \in InProgress /\ Reads
         /\ \/ Replies(c)
            \/ \E pc : Fits(pc, call[c].ask.op) /\ pc \notin InTransaction \cup {"idle"} /\ Goes(c, pc)
<1> USE DEF Replies
<1>0. call[c].pc \notin {"idle", "answered"} => c \in InProgress
  BY DEF InProgress
<1>1. CASE List(c)
  <2>1. call[c].pc = "list" /\ Reads /\ Replies(c)
    BY <1>1 DEF List, At
  <2> QED BY <1>0, <2>1
<1>2. CASE FindItem(c)
  <2>1. call[c].pc = "item" /\ Reads /\ (Replies(c) \/ Goes(c, "links"))
    BY <1>2 DEF FindItem, At, Goes
  <2>2. Fits("links", call[c].ask.op) /\ "links" \notin InTransaction \cup {"idle"}
    BY <2>1, StepKind DEF Fits, InTransaction
  <2> QED BY <1>0, <2>1, <2>2
<1>3. CASE ReadLinks(c)
  <2>1. call[c].pc = "links" /\ Reads /\ Replies(c)
    BY <1>3 DEF ReadLinks, At
  <2> QED BY <1>0, <2>1
<1>4. CASE FindEdition(c)
  <2>1. call[c].pc = "edition" /\ Reads /\ (Replies(c) \/ Goes(c, "paragraphs"))
    BY <1>4 DEF FindEdition, At, Goes
  <2>2. Fits("paragraphs", call[c].ask.op) /\ "paragraphs" \notin InTransaction \cup {"idle"}
    BY <2>1, StepKind DEF Fits, InTransaction
  <2> QED BY <1>0, <2>1, <2>2
<1>5. CASE ReadParagraphs(c)
  <2>1. call[c].pc = "paragraphs" /\ Reads /\ (Replies(c) \/ Goes(c, "parallel edition"))
    BY <1>5 DEF ReadParagraphs, At, Goes
  <2>2. Fits("parallel edition", call[c].ask.op) /\ "parallel edition" \notin InTransaction \cup {"idle"}
    BY <2>1, StepKind DEF Fits, InTransaction
  <2> QED BY <1>0, <2>1, <2>2
<1>6. CASE FindParallel(c)
  <2>1. call[c].pc = "parallel edition" /\ Reads /\ (Replies(c) \/ Goes(c, "parallel paragraphs"))
    BY <1>6 DEF FindParallel, At, Goes
  <2>2. Fits("parallel paragraphs", call[c].ask.op) /\ "parallel paragraphs" \notin InTransaction \cup {"idle"}
    BY <2>1, StepKind DEF Fits, InTransaction
  <2> QED BY <1>0, <2>1, <2>2
<1>7. CASE ReadParallel(c)
  <2>1. call[c].pc = "parallel paragraphs" /\ Reads /\ Replies(c)
    BY <1>7 DEF ReadParallel, At
  <2> QED BY <1>0, <2>1
<1>8. CASE FindHymnal(c)
  <2>1. call[c].pc = "hymnal" /\ Reads
        /\ (Replies(c) \/ Goes(c, IF call[c].ask.op = "hymns" THEN "hymns" ELSE "hymn"))
    BY <1>8 DEF FindHymnal, At, Goes, AskOf
  <2>2. Fits((IF call[c].ask.op = "hymns" THEN "hymns" ELSE "hymn"), call[c].ask.op) /\ (IF call[c].ask.op = "hymns" THEN "hymns" ELSE "hymn") \notin InTransaction \cup {"idle"}
    BY <2>1, StepKind DEF Fits, InTransaction
  <2> QED BY <1>0, <2>1, <2>2
<1>9. CASE ReadHymns(c)
  <2>1. call[c].pc = "hymns" /\ Reads /\ Replies(c)
    BY <1>9 DEF ReadHymns, At
  <2> QED BY <1>0, <2>1
<1>10. CASE FindHymn(c)
  <2>1. call[c].pc = "hymn" /\ Reads /\ (Replies(c) \/ Goes(c, "stanzas"))
    BY <1>10 DEF FindHymn, At, Goes
  <2>2. Fits("stanzas", call[c].ask.op) /\ "stanzas" \notin InTransaction \cup {"idle"}
    BY <2>1, StepKind DEF Fits, InTransaction
  <2> QED BY <1>0, <2>1, <2>2
<1>11. CASE ReadStanzas(c)
  <2>1. call[c].pc = "stanzas" /\ Reads /\ Replies(c)
    BY <1>11 DEF ReadStanzas, At
  <2> QED BY <1>0, <2>1
<1>12. CASE FindWeek(c)
  <2>1. call[c].pc = "week" /\ Reads /\ (Replies(c) \/ Goes(c, "days"))
    BY <1>12 DEF FindWeek, At, Goes
  <2>2. Fits("days", call[c].ask.op) /\ "days" \notin InTransaction \cup {"idle"}
    BY <2>1, StepKind DEF Fits, InTransaction
  <2> QED BY <1>0, <2>1, <2>2
<1>13. CASE ReadDays(c)
  <2>1. call[c].pc = "days" /\ Reads /\ Replies(c)
    BY <1>13 DEF ReadDays, At
  <2> QED BY <1>0, <2>1
<1>14. CASE FindLesson(c)
  <2>1. call[c].pc = "lesson" /\ Reads /\ (Replies(c) \/ Goes(c, "questions"))
    BY <1>14 DEF FindLesson, At, Goes
  <2>2. Fits("questions", call[c].ask.op) /\ "questions" \notin InTransaction \cup {"idle"}
    BY <2>1, StepKind DEF Fits, InTransaction
  <2> QED BY <1>0, <2>1, <2>2
<1>15. CASE ReadQuestions(c)
  <2>1. call[c].pc = "questions" /\ Reads /\ Goes(c, "options")
    BY <1>15 DEF ReadQuestions, At, Goes
  <2>2. Fits("options", call[c].ask.op) /\ "options" \notin InTransaction \cup {"idle"}
    BY <2>1, StepKind DEF Fits, InTransaction
  <2> QED BY <1>0, <2>1, <2>2
<1>16. CASE ReadOptions(c)
  <2>1. call[c].pc = "options" /\ Reads /\ Replies(c)
    BY <1>16 DEF ReadOptions, At
  <2> QED BY <1>0, <2>1
<1>17. CASE FindOption(c)
  <2>1. call[c].pc = "option" /\ Reads /\ (Replies(c) \/ Goes(c, "update"))
    BY <1>17 DEF FindOption, At, Goes
  <2>2. Fits("update", call[c].ask.op) /\ "update" \notin InTransaction \cup {"idle"}
    BY <2>1, StepKind DEF Fits, InTransaction
  <2> QED BY <1>0, <2>1, <2>2
<1>18. CASE Fail(c)
  BY <1>18 DEF Fail
<1> QED BY <1>1, <1>2, <1>3, <1>4, <1>5, <1>6, <1>7, <1>8, <1>9, <1>10, <1>11, <1>12, <1>13, <1>14,
           <1>15, <1>16, <1>17, <1>18 DEF Statement

LEMMA AskEffect ==
  ASSUME CallsInv, NEW c \in Calls, NEW a \in load.asks, call[c].pc = "idle",
         call' = [k \in Calls |->
            IF k = c THEN Started(a)
            ELSE IF a.op = "answer" /\ k \in Answering(a.question) THEN [call[k] EXCEPT !.alone = FALSE]
            ELSE call[k]]
  PROVE  /\ call' = [k \in Calls |-> call'[k]]
         /\ call'[c] = Started(a)
         /\ IsCall(call'[c]) /\ call'[c].ask = a /\ Fits(call'[c].pc, a.op) /\ call'[c].pc # "idle"
         /\ \A k \in Calls \ {c} :
              IF a.op = "answer" /\ k \in Answering(a.question) THEN call'[k] = [call[k] EXCEPT !.alone = FALSE]
              ELSE call'[k] = call[k]
<1>1. call' = [k \in Calls |-> call'[k]] /\ call'[c] = Started(a)
  OBVIOUS
<1>2. a.op \in Ops
  BY LibraryAssumption DEF LibraryAssumption, CallsInv
<1>3. Fits(FirstStatement[a.op], a.op) /\ FirstStatement[a.op] # "idle"
  <2>1. \A op \in {"egwBooks", "beliefs", "hymnals", "courses", "belief"} : FirstStatement[op] = "list"
    BY DEF FirstStatement
  <2>2. FirstStatement["egwChapter"] = "edition" /\ FirstStatement["week"] = "week" /\ FirstStatement["lesson"] = "lesson"
    BY DEF FirstStatement
  <2>3. FirstStatement["hymns"] = "hymnal" /\ FirstStatement["hymn"] = "hymnal"
    BY DEF FirstStatement
  <2>4. FirstStatement["answer"] = "option" /\ FirstStatement["feedItem"] = "item"
    BY DEF FirstStatement
  <2> QED BY <1>2, <2>1, <2>2, <2>3, <2>4 DEF Fits, Ops
<1>4. Fits("answered", a.op)
  BY DEF Fits
<1>5. IsCall(Started(a)) /\ Started(a).ask = a
      /\ Started(a).pc = IF Refusal(a) = 0 THEN FirstStatement[a.op] ELSE "answered"
  BY DEF Started, IsCall, Fields
<1>6. \A k \in Calls \ {c} :
              IF a.op = "answer" /\ k \in Answering(a.question) THEN call'[k] = [call[k] EXCEPT !.alone = FALSE]
              ELSE call'[k] = call[k]
  OBVIOUS
<1> QED BY <1>1, <1>3, <1>4, <1>5, <1>6

\* A call whose flag or contents change is otherwise what it was.
LEMMA Flagged ==
  ASSUME CallsInv, NEW k \in Calls, call[k] # Idle,
         (\E v : call'[k] = [call[k] EXCEPT !.alone = v]) \/ (\E v : call'[k] = [call[k] EXCEPT !.seen = v])
  PROVE  /\ IsCall(call'[k])
         /\ call'[k].pc = call[k].pc /\ call'[k].ask = call[k].ask /\ call'[k].saw = call[k].saw
         /\ call'[k].found = call[k].found /\ call'[k].answer = call[k].answer
<1>1. IsCall(call[k])
  BY DEF CallsInv, CallsOK, CallOK
<1>2. CASE \E v : call'[k] = [call[k] EXCEPT !.alone = v]
  <2>1. PICK v : call'[k] = [call[k] EXCEPT !.alone = v]
    BY <1>2
  <2> QED BY <1>1, <2>1 DEF IsCall, Fields
<1>3. CASE \E v : call'[k] = [call[k] EXCEPT !.seen = v]
  <2>1. PICK v : call'[k] = [call[k] EXCEPT !.seen = v]
    BY <1>3
  <2> QED BY <1>1, <2>1 DEF IsCall, Fields
<1> QED BY <1>2, <1>3

LEMMA FlaggedOK ==
  ASSUME CallsInv, NEW k \in Calls, call[k] # Idle, UNCHANGED load,
         (\E v : call'[k] = [call[k] EXCEPT !.alone = v]) \/ (\E v : call'[k] = [call[k] EXCEPT !.seen = v])
  PROVE  CallOK(k)'
<1>1. IsCall(call'[k]) /\ call'[k].pc = call[k].pc /\ call'[k].ask = call[k].ask
  BY Flagged
<1> QED BY <1>1 DEF CallsInv, CallsOK, CallOK

LEMMA CallsKept ==
  ASSUME CallsInv, NEW c \in Calls, call[c] # Idle, Keeps(c), UNCHANGED load, Fits(call'[c].pc, call[c].ask.op)
  PROVE  CallsInv'
BY DEF CallsInv, CallsOK, CallOK, Keeps

LEMMA CallsInit == Init => CallsInv
BY DEF Init, CallsInv, CallsOK, CallOK

\* The call is in progress in the statements of the transaction.
LEMMA BeginUpdateEffect ==
  ASSUME CallsInv, NEW c \in Calls, BeginUpdate(c)
  PROVE  /\ call[c].pc = "update" /\ call[c].ask.op = "answer" /\ call[c] # Idle
         /\ call' = [k \in Calls |-> call'[k]] /\ \A k \in Calls \ {c} : call'[k] = call[k]
         /\ IsCall(call'[c]) /\ call'[c].pc \in {"lock", "insert"}
         /\ call'[c].ask = call[c].ask /\ call'[c].seen = call[c].seen
         /\ call'[c].saw = RowsOf(Target(c)) /\ call'[c].alone = call[c].alone /\ call'[c].found = call[c].found
<1>1. call[c].pc = "update" /\ call[c] # Idle
  BY DEF BeginUpdate, At, Idle
<1>2. IsCall(call[c]) /\ call = [k \in Calls |-> call[k]]
  BY <1>1 DEF CallsInv, CallsOK, CallOK
<1>3. call'[c] = [call[c] EXCEPT !.saw = Matched(c), !.pc = IF Matched(c) = {} THEN "insert" ELSE "lock"]
  BY <1>2 DEF BeginUpdate
<1>4. call[c].ask.op = "answer"
  BY <1>1, StepKind DEF Fits
<1> QED BY <1>1, <1>2, <1>3, <1>4 DEF BeginUpdate, IsCall, Fields, Matched

LEMMA WriteEffect ==
  ASSUME CallsInv, NEW c \in Calls, UpdateQuizAnswer(c) \/ InsertQuizAnswer(c)
  PROVE  /\ call[c].pc \in {"lock", "insert"} /\ call[c].ask.op = "answer" /\ call[c] # Idle
         /\ Keeps(c) /\ call'[c].pc = "commit" /\ call'[c].found = call[c].found
<1>1. call[c].pc \in {"lock", "insert"} /\ call[c] # Idle
  BY DEF UpdateQuizAnswer, InsertQuizAnswer, At, Idle
<1>2. IsCall(call[c]) /\ call = [k \in Calls |-> call[k]] /\ call' = [call EXCEPT ![c].pc = "commit"]
  BY <1>1 DEF CallsInv, CallsOK, CallOK, UpdateQuizAnswer, InsertQuizAnswer
<1>3. call'[c] = [call[c] EXCEPT !.pc = "commit"]
  BY <1>2
<1>4. call[c].ask.op = "answer"
  BY <1>1, StepKind DEF Fits
<1> QED BY <1>1, <1>2, <1>3, <1>4 DEF Keeps, IsCall, Fields

LEMMA CommitEffect ==
  ASSUME CallsInv, NEW c \in Calls, Commit(c)
  PROVE  /\ call[c].pc = "commit" /\ call[c].ask.op = "answer" /\ call[c] # Idle
         /\ Keeps(c) /\ call'[c].pc = "answered" /\ call'[c].answer = OK(Found(c)[1])
<1>1. call[c].pc = "commit" /\ call[c] # Idle
  BY DEF Commit, Idle
<1>2. call[c].ask.op = "answer"
  BY <1>1, StepKind DEF Fits
<1>3. PICK a : a = OK(Found(c)[1]) /\ Reply(c, a)
  BY DEF Commit
<1> QED BY <1>1, <1>2, <1>3, ReplyEffect

LEMMA EditEffect ==
  ASSUME CallsInv, Edit
  PROVE  /\ call' = [k \in Calls |-> call'[k]]
         /\ \A k \in Calls : IF k \in InProgress THEN call'[k] = [call[k] EXCEPT !.seen = @ \cup {db'}]
                             ELSE call'[k] = call[k]
         /\ \A k \in InProgress : call[k] # Idle /\ IsCall(call[k])
  BY DEF Edit, CallsInv, CallsOK, CallOK, InProgress, Idle

LEMMA CallsStep == CallsInv /\ [Next]_vars => CallsInv'
<1> SUFFICES ASSUME CallsInv, [Next]_vars PROVE CallsInv'
  OBVIOUS
<1>1. CASE UNCHANGED vars
  BY <1>1 DEF vars, CallsInv, CallsOK, CallOK
<1>2. ASSUME Push PROVE CallsInv'
  <2>1. PICK r \in Refs : call' = [c \in Calls |-> IF c \in Answering(r) THEN [call[c] EXCEPT !.alone = FALSE] ELSE call[c]]
    BY <1>2 DEF Push
  <2>2. UNCHANGED load
    BY <1>2 DEF Push
  <2>3. call' = [k \in Calls |-> call'[k]]
    BY <2>1
  <2>4. ASSUME NEW k \in Calls PROVE CallOK(k)'
    <3>1. CASE k \in Answering(r)
      <4>1. IsCall(call[k]) /\ call[k] # Idle
        BY <3>1 DEF Answering, InProgress, CallsInv, CallsOK, CallOK, Idle
      <4>2. call'[k] = [call[k] EXCEPT !.alone = FALSE]
        BY <2>1, <3>1
      <4> QED BY <2>2, <4>1, <4>2, FlaggedOK
    <3>2. CASE k \notin Answering(r)
      BY <2>1, <2>2, <3>2 DEF CallsInv, CallsOK, CallOK
    <3> QED BY <3>1, <3>2
  <2> QED BY <2>2, <2>3, <2>4 DEF CallsInv, CallsOK
<1>3. ASSUME Edit PROVE CallsInv'
  <2>1. UNCHANGED load
    BY <1>3 DEF Edit
  <2>2. ASSUME NEW k \in Calls PROVE CallOK(k)'
    <3>1. CASE k \in InProgress
      <4>1. IsCall(call[k]) /\ call[k] # Idle /\ call'[k] = [call[k] EXCEPT !.seen = @ \cup {db'}]
        BY <1>3, <3>1, EditEffect
      <4>2. PICK v : call'[k] = [call[k] EXCEPT !.seen = v]
        BY <4>1
      <4> QED BY <2>1, <4>1, <4>2, FlaggedOK
    <3>2. CASE k \notin InProgress
      BY <1>3, <2>1, <3>2, EditEffect DEF CallsInv, CallsOK, CallOK
    <3> QED BY <3>1, <3>2
  <2> QED BY <1>3, <2>1, <2>2, EditEffect DEF CallsInv, CallsOK
<1>4. ASSUME NEW c \in Calls, Ask(c) PROVE CallsInv'
  <2>1. PICK a \in load.asks :
          call' = [k \in Calls |->
            IF k = c THEN Started(a)
            ELSE IF a.op = "answer" /\ k \in Answering(a.question) THEN [call[k] EXCEPT !.alone = FALSE]
            ELSE call[k]]
    BY <1>4 DEF Ask
  <2>2. UNCHANGED load /\ call[c].pc = "idle"
    BY <1>4 DEF Ask
  <2>3. ASSUME NEW k \in Calls PROVE CallOK(k)'
    <3>1. CASE k = c
      <4>1. IsCall(call'[c]) /\ call'[c].ask = a /\ Fits(call'[c].pc, a.op)
        BY <2>1, <2>2, AskEffect
      <4> QED BY <2>2, <3>1, <4>1 DEF CallOK
    <3>2. CASE k # c /\ a.op = "answer" /\ k \in Answering(a.question)
      <4>1. IsCall(call[k]) /\ call[k] # Idle
        BY <3>2 DEF Answering, InProgress, CallsInv, CallsOK, CallOK, Idle
      <4>2. call'[k] = [call[k] EXCEPT !.alone = FALSE]
        BY <2>1, <2>2, <3>2
      <4> QED BY <2>2, <4>1, <4>2, FlaggedOK
    <3>3. CASE k # c /\ ~(a.op = "answer" /\ k \in Answering(a.question))
      BY <2>1, <2>2, <3>3 DEF CallsInv, CallsOK, CallOK
    <3> QED BY <3>1, <3>2, <3>3
  <2>4. call' = [k \in Calls |-> call'[k]]
    BY <2>1
  <2> QED BY <2>2, <2>3, <2>4 DEF CallsInv, CallsOK
<1>5. ASSUME NEW c \in Calls, Statement(c) PROVE CallsInv'
  <2>1. c \in InProgress /\ Reads
    BY <1>5, StatementMoves
  <2>2. call[c] # Idle
    BY <2>1 DEF InProgress, Idle
  <2>3. CASE Replies(c)
    <3>1. PICK a : Reply(c, a)
      BY <2>3 DEF Replies
    <3>2. Keeps(c) /\ call'[c].pc = "answered"
      BY <2>2, <3>1, ReplyEffect
    <3>3. Fits("answered", call[c].ask.op)
      BY DEF Fits
    <3> QED BY <2>1, <2>2, <3>2, <3>3, CallsKept DEF Reads
  <2>4. CASE \E pc : Fits(pc, call[c].ask.op) /\ pc \notin InTransaction \cup {"idle"} /\ Goes(c, pc)
    <3>1. PICK pc, x : Fits(pc, call[c].ask.op) /\ Goto(c, pc, x)
      BY <2>4 DEF Goes
    <3>2. Keeps(c) /\ call'[c].pc = pc
      BY <2>2, <3>1, GotoEffect
    <3> QED BY <2>1, <2>2, <3>1, <3>2, CallsKept DEF Reads
  <2> QED BY <1>5, <2>3, <2>4, StatementMoves
<1>6. ASSUME NEW c \in Calls, BeginUpdate(c) PROVE CallsInv'
  <2>1. UNCHANGED load
    BY <1>6 DEF BeginUpdate, At, Reads
  <2>2. Fits(call'[c].pc, call'[c].ask.op)
    BY <1>6, BeginUpdateEffect DEF Fits
  <2> QED BY <1>6, <2>1, <2>2, BeginUpdateEffect DEF CallsInv, CallsOK, CallOK
<1>7. ASSUME NEW c \in Calls, UpdateQuizAnswer(c) \/ InsertQuizAnswer(c) PROVE CallsInv'
  <2>1. UNCHANGED load
    BY <1>7 DEF UpdateQuizAnswer, InsertQuizAnswer, At, Reads
  <2>2. Fits("commit", call[c].ask.op)
    BY <1>7, WriteEffect DEF Fits
  <2> QED BY <1>7, <2>1, <2>2, WriteEffect, CallsKept
<1>8. ASSUME NEW c \in Calls, Commit(c) PROVE CallsInv'
  <2>1. UNCHANGED load
    BY <1>8 DEF Commit
  <2>2. Fits("answered", call[c].ask.op)
    BY DEF Fits
  <2> QED BY <1>8, <2>1, <2>2, CommitEffect, CallsKept
<1>9. ASSUME NEW c \in Calls, Done(c) PROVE CallsInv'
  <2>1. UNCHANGED load /\ call' = [call EXCEPT ![c] = Idle]
    BY <1>9 DEF Done, At, Reads
  <2> QED BY <2>1 DEF CallsInv, CallsOK, CallOK
<1> QED
  <2>1. CASE \E c \in Calls : Handle(c)
    BY <2>1, <1>4, <1>5, <1>6, <1>7, <1>8, <1>9 DEF Handle, Statement
  <2> QED BY <1>1, <1>2, <1>3, <2>1 DEF Next

-----------------------------------------------------------------------------
(* The answers. A transaction writes the rows it saw; an answer that nothing  *)
(* disturbed is the only one to its question, and saw every row there is.     *)

RowRec == [ref : Refs, option : Int, live : BOOLEAN]
RowsOK == rows \in [AnswerIds -> {NoRow} \cup RowRec]
SawOK == \A c \in Calls : call[c].pc \in InTransaction => call[c].saw \subseteq RowsOf(Target(c))
Undisturbed(c) == call[c].alone \/ Target(c) \notin overlap
AloneOK ==
  \A c \in InProgress : call[c].ask.op = "answer" /\ Undisturbed(c) =>
    /\ Answering(Target(c)) = {c}
    /\ call[c].pc \in InTransaction => call[c].saw = RowsOf(Target(c))
OneRow == \A r \in Refs \ overlap : \E i : RowsOf(r) \subseteq {i}
StandsOK == stands = [r \in Refs |-> stands[r]]
AnswersInv == RowsOK /\ SawOK /\ AloneOK /\ OneRow /\ StandsOK /\ LatestAnswerStands

LEMMA AnswersInit == Init => AnswersInv
<1> SUFFICES ASSUME Init PROVE AnswersInv
  OBVIOUS
<1>1. \A r : RowsOf(r) = {}
  BY DEF Init, RowsOf
<1>2. \A c \in Calls : call[c].pc = "idle"
  BY DEF Init, Idle
<1>3. RowsOK /\ SawOK /\ AloneOK /\ OneRow
  BY <1>1, <1>2 DEF Init, RowsOK, SawOK, AloneOK, OneRow, InTransaction, InProgress
<1>4. StandsOK /\ LatestAnswerStands
  BY DEF Init, StandsOK, LatestAnswerStands
<1> QED BY <1>3, <1>4 DEF AnswersInv

LEMMA Int32Type == ASSUME NEW n \in Int PROVE Int32(n) \in Int
<1>1. IntSize \in Nat /\ IntSize > 0
  BY LibraryAssumption DEF LibraryAssumption
<1>2. IntSize \div 2 \in Int
  BY <1>1
<1>3. \A x \in Int : x % IntSize \in Int
  BY <1>1
<1> QED BY <1>2, <1>3 DEF Int32

LEMMA AnswerType ==
  ASSUME CallsInv, NEW c \in Calls, call[c] # Idle, call[c].ask.op = "answer"
  PROVE  Target(c) \in Refs /\ Answer(c) \in RowRec /\ Answer(c) # NoRow /\ Answer(c).ref = Target(c)
<1>1. load \in Workloads /\ call[c].ask \in load.asks
  BY DEF CallsInv, CallsOK, CallOK
<1>2. call[c].ask.option \in Int
  BY <1>1, LibraryAssumption DEF LibraryAssumption
<1>3. Target(c) \in Refs
  BY <1>1 DEF Target, AskOf, Refs
<1>4. Answer(c) \in RowRec /\ Answer(c).ref = Target(c)
  BY <1>2, <1>3, Int32Type DEF Answer, RowRec, AskOf
<1>5. NoRow \notin RowRec
  BY LibraryAssumption DEF LibraryAssumption, RowRec
<1> QED BY <1>3, <1>4, <1>5

\* What keeps the parts about calls: none starts, none but asks what it
\* asked, and what it saw is what it saw before or all there is.
LEMMA NoneStarts ==
  ASSUME AnswersInv, overlap \subseteq overlap',
         \A k \in InProgress' : /\ k \in InProgress /\ call'[k].ask = call[k].ask
                                /\ call'[k].alone => call[k].alone,
         \A k \in Calls : call'[k].pc \in InTransaction =>
            /\ call'[k].ask = call[k].ask
            /\ \/ call[k].pc \in InTransaction /\ call'[k].saw = call[k].saw
               \/ call'[k].saw = RowsOf(Target(k)),
         \A r : RowsOf(r) \subseteq RowsOf(r)',
         \A k \in InProgress' : call'[k].ask.op = "answer" /\ Undisturbed(k)' => RowsOf(Target(k))' = RowsOf(Target(k))
  PROVE  SawOK' /\ AloneOK'
<1>1. SawOK'
  <2> SUFFICES ASSUME NEW c \in Calls, call'[c].pc \in InTransaction
               PROVE  call'[c].saw \subseteq RowsOf(Target(c))'
    BY DEF SawOK
  <2>1. Target(c)' = Target(c)
    BY DEF Target, AskOf
  <2>2. call'[c].saw \subseteq RowsOf(Target(c))
    BY DEF AnswersInv, SawOK
  <2>3. RowsOf(Target(c)) \subseteq RowsOf(Target(c))'
    <3>1. PICK r : r = Target(c)
      OBVIOUS
    <3>2. RowsOf(r) \subseteq RowsOf(r)'
      OBVIOUS
    <3> QED BY <2>1, <3>1, <3>2 DEF RowsOf
  <2> QED BY <2>2, <2>3
<1>2. AloneOK'
  <2> SUFFICES ASSUME NEW c \in InProgress', call'[c].ask.op = "answer", Undisturbed(c)'
               PROVE  /\ Answering(Target(c))' = {c}
                      /\ call'[c].pc \in InTransaction => call'[c].saw = RowsOf(Target(c))'
    BY DEF AloneOK
  <2>1. c \in InProgress /\ call'[c].ask = call[c].ask /\ (call'[c].alone => call[c].alone)
    OBVIOUS
  <2>2. Target(c)' = Target(c) /\ call[c].ask.op = "answer"
    BY <2>1 DEF Target, AskOf
  <2>3. Undisturbed(c)
    BY <2>1, <2>2 DEF Undisturbed
  <2>4. Answering(Target(c)) = {c} /\ (call[c].pc \in InTransaction => call[c].saw = RowsOf(Target(c)))
    BY <2>1, <2>2, <2>3 DEF AnswersInv, AloneOK
  <2>5. Answering(Target(c))' = {c}
    <3>1. c \in Answering(Target(c))'
      BY DEF Answering, Target, AskOf
    <3>2. ASSUME NEW k \in Answering(Target(c))' PROVE k = c
      <4>1. k \in InProgress' /\ call'[k].ask.op = "answer" /\ call'[k].ask.question = Target(c)'
        BY DEF Answering
      <4>2. k \in InProgress /\ call[k].ask.op = "answer" /\ call[k].ask.question = Target(c)
        BY <2>2, <4>1
      <4>3. k \in Answering(Target(c))
        BY <4>2 DEF Answering
      <4> QED BY <2>4, <4>3
    <3> QED BY <3>1, <3>2
  <2>6. RowsOf(Target(c))' = RowsOf(Target(c))
    OBVIOUS
  <2>7. ASSUME call'[c].pc \in InTransaction PROVE call'[c].saw = RowsOf(Target(c))
    BY <2>1, <2>4, <2>7 DEF InProgress
  <2> QED BY <2>5, <2>6, <2>7
<1> QED BY <1>1, <1>2

\* A step that writes no row.
LEMMA NoRowWritten ==
  ASSUME AnswersInv, UNCHANGED <<rows, overlap, stands>>,
         \A k \in InProgress' : /\ k \in InProgress /\ call'[k].ask = call[k].ask
                                /\ call'[k].alone => call[k].alone,
         \A k \in Calls : call'[k].pc \in InTransaction =>
            /\ call'[k].ask = call[k].ask
            /\ \/ call[k].pc \in InTransaction /\ call'[k].saw = call[k].saw
               \/ call'[k].saw = RowsOf(Target(k))
  PROVE  AnswersInv'
<1>1. \A r : RowsOf(r)' = RowsOf(r)
  BY DEF RowsOf
<1>2. \A k \in InProgress' : RowsOf(Target(k))' = RowsOf(Target(k))
  BY DEF RowsOf, Target, AskOf
<1>3. SawOK' /\ AloneOK'
  BY <1>1, <1>2, NoneStarts
<1>4. RowsOK' /\ OneRow' /\ StandsOK' /\ LatestAnswerStands'
  BY <1>1 DEF AnswersInv, RowsOK, OneRow, StandsOK, LatestAnswerStands
<1> QED BY <1>3, <1>4 DEF AnswersInv

LEMMA AnswersAsk ==
  ASSUME CallsInv, AnswersInv, NEW c \in Calls, Ask(c)
  PROVE  AnswersInv'
<1>1. PICK a \in load.asks :
        /\ call' = [k \in Calls |->
            IF k = c THEN Started(a)
            ELSE IF a.op = "answer" /\ k \in Answering(a.question) THEN [call[k] EXCEPT !.alone = FALSE]
            ELSE call[k]]
        /\ overlap' = IF a.op = "answer" /\ Answering(a.question) # {} THEN overlap \cup {a.question} ELSE overlap
  BY DEF Ask
<1>2. UNCHANGED <<load, db, rows, stands>> /\ call[c].pc = "idle"
  BY DEF Ask
<1>3. /\ call'[c] = Started(a) /\ call'[c].ask = a
      /\ \A k \in Calls \ {c} :
              IF a.op = "answer" /\ k \in Answering(a.question) THEN call'[k] = [call[k] EXCEPT !.alone = FALSE]
              ELSE call'[k] = call[k]
  BY <1>1, <1>2, AskEffect
<1>4. call'[c].pc \notin InTransaction
  <2>1. call'[c].pc = IF Refusal(a) = 0 THEN FirstStatement[a.op] ELSE "answered"
    BY <1>3 DEF Started
  <2>2. a.op \in Ops
    BY LibraryAssumption DEF LibraryAssumption, CallsInv
  <2>3. \A op \in Ops : FirstStatement[op] \notin InTransaction
    BY DEF Ops, FirstStatement, InTransaction
  <2> QED BY <2>1, <2>2, <2>3 DEF InTransaction
<1>5. (call'[c].alone => Answering(a.question) = {}) /\ c \notin InProgress
  <2>1. Started(a).alone <=> a.op = "answer" /\ Answering(a.question) = {}
    BY Zenon DEF Started
  <2> QED BY <1>2, <1>3, <2>1 DEF InProgress
<1>6. ASSUME NEW k \in Calls \ {c}
      PROVE  /\ call'[k].pc = call[k].pc /\ call'[k].ask = call[k].ask /\ call'[k].saw = call[k].saw
             /\ a.op = "answer" /\ k \in Answering(a.question) => call'[k].alone = FALSE
             /\ ~(a.op = "answer" /\ k \in Answering(a.question)) => call'[k].alone = call[k].alone
  <2>1. CASE a.op = "answer" /\ k \in Answering(a.question)
    <3>1. IsCall(call[k]) /\ call[k] # Idle
      BY <2>1 DEF Answering, InProgress, CallsInv, CallsOK, CallOK, Idle
    <3>2. call'[k] = [call[k] EXCEPT !.alone = FALSE]
      BY <1>3, <2>1
    <3> QED BY <2>1, <3>1, <3>2 DEF IsCall, Fields
  <2>2. CASE ~(a.op = "answer" /\ k \in Answering(a.question))
    BY <1>3, <2>2
  <2> QED BY <2>1, <2>2
<1>7. \A r : RowsOf(r)' = RowsOf(r)
  BY <1>2 DEF RowsOf
<1>8. ASSUME NEW r PROVE Answering(r)' \subseteq Answering(r) \cup {c}
  BY <1>6 DEF Answering, InProgress
<1>9. SawOK'
  <2> SUFFICES ASSUME NEW k \in Calls, call'[k].pc \in InTransaction
               PROVE  call'[k].saw \subseteq RowsOf(Target(k))'
    BY DEF SawOK
  <2>1. k # c
    BY <1>4
  <2>2. call[k].saw \subseteq RowsOf(Target(k)) /\ call'[k].saw = call[k].saw /\ call'[k].ask = call[k].ask
    BY <1>6, <2>1 DEF AnswersInv, SawOK
  <2> QED BY <1>2, <2>2 DEF RowsOf, Target, AskOf
<1>10. AloneOK'
  <2> SUFFICES ASSUME NEW k \in InProgress', call'[k].ask.op = "answer", Undisturbed(k)'
               PROVE  /\ Answering(Target(k))' = {k}
                      /\ call'[k].pc \in InTransaction => call'[k].saw = RowsOf(Target(k))'
    BY DEF AloneOK
  <2>0. PICK q : q = call'[k].ask.question
    OBVIOUS
  <2>1. Target(k)' = q /\ k \in Answering(q)' /\ k \in Calls
    BY <2>0 DEF Target, AskOf, Answering, InProgress
  <2>2. CASE k = c
    <3>1. a.op = "answer" /\ q = a.question
      BY <1>3, <2>0, <2>2
    <3>2. Answering(q) = {}
      <4>1. CASE call'[c].alone
        BY <1>5, <3>1, <4>1
      <4>2. CASE ~call'[c].alone
        <5>1. q \notin overlap'
          BY <2>1, <2>2, <4>2 DEF Undisturbed
        <5> QED BY <1>1, <3>1, <5>1
      <4> QED BY <4>1, <4>2
    <3>3. Answering(q)' = {c}
      BY <1>8, <2>1, <2>2, <3>2
    <3> QED BY <1>4, <2>1, <2>2, <3>3
  <2>3. CASE k # c
    <3>1. call'[k].pc = call[k].pc /\ call'[k].ask = call[k].ask /\ call'[k].saw = call[k].saw
      BY <1>6, <2>1, <2>3
    <3>2. k \in InProgress /\ k \in Answering(q) /\ Target(k) = q
      BY <2>0, <3>1 DEF InProgress, Answering, Target, AskOf
    <3>3. ~(a.op = "answer" /\ a.question = q)
      <4> SUFFICES ASSUME a.op = "answer", a.question = q PROVE FALSE
        OBVIOUS
      <4>1. k \in Answering(a.question)
        BY <3>2
      <4>2. call'[k].alone = FALSE
        BY <1>6, <2>1, <2>3, <4>1
      <4>3. q \in overlap'
        BY <1>1, <4>1
      <4> QED BY <2>1, <4>2, <4>3 DEF Undisturbed
    <3>4. call'[k].alone = call[k].alone
      <4>1. ~(a.op = "answer" /\ k \in Answering(a.question))
        BY <3>2, <3>3 DEF Answering, Target, AskOf
      <4> QED BY <1>6, <2>1, <2>3, <4>1
    <3>5. overlap \subseteq overlap'
      BY <1>1
    <3>6. Undisturbed(k)
      BY <2>1, <3>2, <3>4, <3>5 DEF Undisturbed
    <3>7. Answering(q) = {k} /\ (call[k].pc \in InTransaction => call[k].saw = RowsOf(q))
      BY <3>1, <3>2, <3>6 DEF AnswersInv, AloneOK
    <3>8. c \notin Answering(q)'
      BY <1>3, <3>3 DEF Answering
    <3>9. Answering(q)' = {k}
      BY <1>8, <2>1, <3>7, <3>8
    <3>10. RowsOf(q)' = RowsOf(q)
      BY <1>7
    <3> QED BY <2>1, <3>1, <3>7, <3>9, <3>10 DEF RowsOf
  <2> QED BY <2>2, <2>3
<1>11. RowsOK' /\ OneRow' /\ StandsOK' /\ LatestAnswerStands'
  BY <1>1, <1>2, <1>7 DEF AnswersInv, RowsOK, OneRow, StandsOK, LatestAnswerStands
<1> QED BY <1>9, <1>10, <1>11 DEF AnswersInv

\* A commit writes the rows that the transaction saw, or one that is new.
LEMMA CommitRows ==
  ASSUME CallsInv, AnswersInv, NEW c \in Calls, Commit(c)
  PROVE  /\ RowsOK'
         /\ \A r : r # Target(c) => RowsOf(r)' = RowsOf(r) /\ \A i \in RowsOf(r) : rows'[i] = rows[i]
         /\ RowsOf(Target(c)) \subseteq RowsOf(Target(c))'
         /\ call[c].saw # {} => RowsOf(Target(c))' = RowsOf(Target(c))
         /\ call[c].saw = RowsOf(Target(c)) =>
              /\ \A i \in RowsOf(Target(c))' : rows'[i] = Answer(c)
              /\ RowsOf(Target(c))' # {}
              /\ call[c].saw = {} => \E i : RowsOf(Target(c))' = {i}
<1> DEFINE t == Target(c)
           x == Answer(c)
<1>0. PICK q, y : q = Target(c) /\ y = Answer(c)
  OBVIOUS
<1>1. call[c].pc = "commit" /\ call[c].ask.op = "answer" /\ call[c] # Idle /\ call'[c].ask = call[c].ask
  BY CommitEffect DEF Keeps
<1>2. q \in Refs /\ y \in RowRec /\ y # NoRow /\ y.ref = q
  BY <1>0, <1>1, AnswerType
<1>3. rows \in [AnswerIds -> {NoRow} \cup RowRec] /\ call[c].saw \subseteq RowsOf(q)
  BY <1>0, <1>1 DEF AnswersInv, RowsOK, SawOK, InTransaction
<1>4. Target(c)' = q
  BY <1>0, <1>1 DEF Target, AskOf
<1>5. CASE call[c].saw # {}
  <2>1. rows' = [i \in AnswerIds |-> IF i \in call[c].saw THEN y ELSE rows[i]]
    BY <1>0, <1>5 DEF Commit, Written
  <2>2. RowsOK'
    BY <1>2, <1>3, <2>1 DEF RowsOK
  <2>3. \A r : RowsOf(r)' = RowsOf(r)
    BY <1>2, <1>3, <2>1 DEF RowsOf
  <2>4. \A r : r # q => \A i \in RowsOf(r) : rows'[i] = rows[i]
    BY <1>2, <1>3, <2>1 DEF RowsOf
  <2>5. call[c].saw = RowsOf(q) => \A i \in RowsOf(q)' : rows'[i] = y
    BY <2>1, <2>3 DEF RowsOf
  <2>6. RowsOf(q)' = RowsOf(q) /\ (call[c].saw = RowsOf(q) => RowsOf(q)' # {})
    BY <1>5, <2>3
  <2>7. RowsOf(Target(c))' = RowsOf(q)' /\ RowsOf(Target(c)) = RowsOf(q)
    BY <1>0, <1>4 DEF RowsOf
  <2> QED BY <1>0, <1>5, <2>2, <2>3, <2>4, <2>5, <2>6, <2>7
<1>6. CASE call[c].saw = {}
  <2>1. PICK i \in AnswerIds : rows[i] = NoRow /\ rows' = [rows EXCEPT ![i] = y]
    BY <1>0, <1>6 DEF Commit
  <2>2. RowsOK'
    BY <1>2, <1>3, <2>1 DEF RowsOK
  <2>3. \A r : r # q => RowsOf(r)' = RowsOf(r) /\ \A k \in RowsOf(r) : rows'[k] = rows[k]
    BY <1>2, <1>3, <2>1 DEF RowsOf
  <2>4. RowsOf(q)' = RowsOf(q) \cup {i} /\ rows'[i] = y
    BY <1>2, <1>3, <2>1 DEF RowsOf
  <2>5. RowsOf(Target(c))' = RowsOf(q)' /\ RowsOf(Target(c)) = RowsOf(q)
    BY <1>0, <1>4 DEF RowsOf
  <2>6. call[c].saw = RowsOf(q) => RowsOf(q)' = {i}
    BY <1>6, <2>4
  <2> QED BY <1>0, <1>6, <2>2, <2>3, <2>4, <2>5, <2>6
<1> QED BY <1>5, <1>6

LEMMA AnswersCommit ==
  ASSUME CallsInv, AnswersInv, NEW c \in Calls, Commit(c)
  PROVE  AnswersInv'
<1>0. PICK q : q = Target(c)
  OBVIOUS
<1>1. /\ call[c].pc = "commit" /\ call[c].ask.op = "answer" /\ call[c] # Idle
      /\ Keeps(c) /\ call'[c].pc = "answered"
  BY CommitEffect
<1>2. UNCHANGED <<load, db, overlap>>
  BY DEF Commit
<1>3. stands' = [stands EXCEPT ![q] = IF call[c].alone THEN Answer(c).option ELSE NoRow]
  BY <1>0 DEF Commit
<1>4. c \in InProgress /\ Target(c)' = q /\ q \in Refs
  BY <1>0, <1>1, AnswerType DEF InProgress, Keeps, Target, AskOf
<1>5. /\ \A r : r # q => RowsOf(r)' = RowsOf(r) /\ \A i \in RowsOf(r) : rows'[i] = rows[i]
      /\ RowsOf(q) \subseteq RowsOf(q)' /\ RowsOK'
      /\ call[c].saw # {} => RowsOf(q)' = RowsOf(q)
      /\ call[c].saw = RowsOf(q) =>
              /\ \A i \in RowsOf(q)' : rows'[i] = Answer(c)
              /\ RowsOf(q)' # {}
              /\ call[c].saw = {} => \E i : RowsOf(q)' = {i}
  <2>1. RowsOf(Target(c))' = RowsOf(q)'
    BY <1>4 DEF RowsOf
  <2> QED BY <1>0, <2>1, CommitRows
<1>6. ASSUME NEW k \in InProgress'
      PROVE  /\ k \in InProgress /\ k # c /\ call'[k].ask = call[k].ask /\ (call'[k].alone => call[k].alone)
             /\ call'[k].ask.op = "answer" /\ Undisturbed(k)' => RowsOf(Target(k))' = RowsOf(Target(k))
  <2>1. k \in Calls /\ k # c /\ call'[k] = call[k] /\ k \in InProgress
    BY <1>1 DEF InProgress, Keeps
  <2>2. ASSUME call'[k].ask.op = "answer", Undisturbed(k)' PROVE RowsOf(Target(k))' = RowsOf(Target(k))
    <3>1. Undisturbed(k) /\ Target(k)' = Target(k)
      BY <1>2, <2>1, <2>2 DEF Undisturbed, Target, AskOf
    <3>2. Answering(Target(k)) = {k}
      BY <2>1, <2>2, <3>1 DEF AnswersInv, AloneOK
    <3>3. Target(k) # q
      BY <1>0, <1>1, <1>4, <2>1, <3>2 DEF Answering, Target, AskOf
    <3>4. PICK r : r = Target(k)
      OBVIOUS
    <3>5. RowsOf(r)' = RowsOf(r)
      BY <1>5, <3>3, <3>4
    <3> QED BY <3>1, <3>4, <3>5 DEF RowsOf
  <2> QED BY <2>1, <2>2
<1>7. \A k \in Calls : call'[k].pc \in InTransaction =>
            /\ call'[k].ask = call[k].ask
            /\ \/ call[k].pc \in InTransaction /\ call'[k].saw = call[k].saw
               \/ call'[k].saw = RowsOf(Target(k))
  BY <1>1 DEF Keeps, InTransaction
<1>8. \A r : RowsOf(r) \subseteq RowsOf(r)'
  BY <1>5
<1>9. SawOK' /\ AloneOK'
  BY <1>2, <1>6, <1>7, <1>8, NoneStarts
<1>10. ASSUME call[c].alone \/ q \notin overlap PROVE call[c].saw = RowsOf(q)
  BY <1>0, <1>1, <1>4, <1>10 DEF AnswersInv, AloneOK, Undisturbed, InTransaction
<1>11. OneRow'
  <2> SUFFICES ASSUME NEW r \in Refs \ overlap' PROVE \E i : RowsOf(r)' \subseteq {i}
    BY DEF OneRow
  <2>1. r \notin overlap /\ \E i : RowsOf(r) \subseteq {i}
    BY <1>2 DEF AnswersInv, OneRow
  <2>2. CASE r = q
    BY <1>5, <1>10, <2>1, <2>2
  <2>3. CASE r # q
    BY <1>5, <2>1, <2>3
  <2> QED BY <2>2, <2>3
<1>12. LatestAnswerStands'
  <2> SUFFICES ASSUME NEW r \in Refs, stands'[r] # NoRow
               PROVE  /\ RowsOf(r)' # {}
                      /\ \A i \in RowsOf(r)' : rows'[i].live /\ rows'[i].option = stands'[r]
    BY DEF LatestAnswerStands
  <2>1. CASE r = q
    <3>1. call[c].alone /\ stands'[r] = Answer(c).option
      BY <1>3, <2>1 DEF AnswersInv, StandsOK
    <3>2. \A i \in RowsOf(q)' : rows'[i] = Answer(c)
      BY <1>5, <1>10, <3>1
    <3>3. Answer(c).live
      BY DEF Answer
    <3> QED BY <1>5, <1>10, <2>1, <3>1, <3>2, <3>3
  <2>2. CASE r # q
    <3>1. stands'[r] = stands[r]
      BY <1>3, <2>2
    <3> QED BY <1>5, <2>2, <3>1 DEF AnswersInv, LatestAnswerStands
  <2> QED BY <2>1, <2>2
<1>13. StandsOK'
  BY <1>3 DEF AnswersInv, StandsOK
<1> QED BY <1>5, <1>9, <1>11, <1>12, <1>13 DEF AnswersInv

LEMMA AnswersPush ==
  ASSUME CallsInv, AnswersInv, Push
  PROVE  AnswersInv'
<1>1. PICK i \in AnswerIds, q \in Refs, live \in BOOLEAN :
       /\ rows[i] # NoRow => rows[i].ref = q
       /\ rows' = [rows EXCEPT ![i] = [ref |-> q, option |-> 0, live |-> live]]
       /\ overlap' = IF rows[i] = NoRow THEN overlap \cup {q} ELSE overlap
       /\ stands' = [stands EXCEPT ![q] = NoRow]
       /\ call' = [c \in Calls |-> IF c \in Answering(q) THEN [call[c] EXCEPT !.alone = FALSE] ELSE call[c]]
  BY DEF Push
<1>2. rows \in [AnswerIds -> {NoRow} \cup RowRec]
  BY DEF AnswersInv, RowsOK
<1>3. PICK y : y = [ref |-> q, option |-> 0, live |-> live]
  OBVIOUS
<1>4. y \in RowRec /\ y.ref = q
  BY <1>3 DEF RowRec
<1>5. y # NoRow
  BY <1>4, LibraryAssumption DEF LibraryAssumption, RowRec
<1>6. rows' = [rows EXCEPT ![i] = y]
  BY <1>1, <1>3
<1>7. \A r : r # q => RowsOf(r)' = RowsOf(r) /\ \A k \in RowsOf(r) : rows'[k] = rows[k]
  BY <1>1, <1>2, <1>4, <1>5, <1>6 DEF RowsOf
<1>8. \A r : RowsOf(r) \subseteq RowsOf(r)'
  BY <1>1, <1>2, <1>4, <1>5, <1>6 DEF RowsOf
<1>9. rows[i] # NoRow => RowsOf(q)' = RowsOf(q)
  BY <1>1, <1>2, <1>4, <1>5, <1>6 DEF RowsOf
<1>10. RowsOK'
  BY <1>2, <1>4, <1>6 DEF RowsOK
<1>11. ASSUME NEW k \in Calls
       PROVE  /\ call'[k].pc = call[k].pc /\ call'[k].ask = call[k].ask /\ call'[k].saw = call[k].saw
              /\ k \in Answering(q) => call'[k].alone = FALSE
              /\ k \notin Answering(q) => call'[k].alone = call[k].alone
  <2>1. CASE k \in Answering(q)
    <3>1. IsCall(call[k]) /\ call[k] # Idle
      BY <2>1 DEF Answering, InProgress, CallsInv, CallsOK, CallOK, Idle
    <3>2. call'[k] = [call[k] EXCEPT !.alone = FALSE]
      BY <1>1, <2>1
    <3> QED BY <2>1, <3>1, <3>2 DEF IsCall, Fields
  <2>2. CASE k \notin Answering(q)
    BY <1>1, <2>2
  <2> QED BY <2>1, <2>2
<1>12. ASSUME NEW k \in InProgress'
       PROVE  /\ k \in InProgress /\ call'[k].ask = call[k].ask /\ (call'[k].alone => call[k].alone)
              /\ call'[k].ask.op = "answer" /\ Undisturbed(k)' => RowsOf(Target(k))' = RowsOf(Target(k))
  <2>1. k \in Calls /\ k \in InProgress /\ call'[k].ask = call[k].ask
    BY <1>11 DEF InProgress
  <2>2. call'[k].alone => call[k].alone
    BY <1>11, <2>1
  <2>3. ASSUME call'[k].ask.op = "answer", Undisturbed(k)' PROVE RowsOf(Target(k))' = RowsOf(Target(k))
    <3>1. PICK r : r = Target(k)
      OBVIOUS
    <3>2. Target(k)' = r
      BY <2>1, <3>1 DEF Target, AskOf
    <3>3. CASE r = q
      <4>1. k \in Answering(q)
        BY <2>1, <2>3, <3>1, <3>3 DEF Answering, Target, AskOf
      <4>2. q \notin overlap'
        BY <1>11, <2>1, <2>3, <3>2, <3>3, <4>1 DEF Undisturbed
      <4>3. rows[i] # NoRow
        BY <1>1, <4>2
      <4> QED BY <1>9, <3>1, <3>2, <3>3, <4>3 DEF RowsOf
    <3>4. CASE r # q
      <4>1. RowsOf(r)' = RowsOf(r)
        BY <1>7, <3>4
      <4> QED BY <3>1, <3>2, <4>1 DEF RowsOf
    <3> QED BY <3>3, <3>4
  <2> QED BY <2>1, <2>2, <2>3
<1>13. \A k \in Calls : call'[k].pc \in InTransaction =>
            /\ call'[k].ask = call[k].ask
            /\ \/ call[k].pc \in InTransaction /\ call'[k].saw = call[k].saw
               \/ call'[k].saw = RowsOf(Target(k))
  BY <1>11
<1>14. overlap \subseteq overlap'
  BY <1>1
<1>15. SawOK' /\ AloneOK'
  BY <1>8, <1>12, <1>13, <1>14, NoneStarts
<1>16. OneRow'
  <2> SUFFICES ASSUME NEW r \in Refs \ overlap' PROVE \E k : RowsOf(r)' \subseteq {k}
    BY DEF OneRow
  <2>1. \E k : RowsOf(r) \subseteq {k}
    BY <1>14 DEF AnswersInv, OneRow
  <2>2. RowsOf(r)' = RowsOf(r)
    BY <1>1, <1>7, <1>9
  <2> QED BY <2>1, <2>2
<1>17. LatestAnswerStands'
  <2> SUFFICES ASSUME NEW r \in Refs, stands'[r] # NoRow
               PROVE  /\ RowsOf(r)' # {}
                      /\ \A k \in RowsOf(r)' : rows'[k].live /\ rows'[k].option = stands'[r]
    BY DEF LatestAnswerStands
  <2>1. r # q
    BY <1>1 DEF AnswersInv, StandsOK
  <2>2. stands'[r] = stands[r]
    BY <1>1, <2>1
  <2>3. RowsOf(r) # {} /\ \A k \in RowsOf(r) : rows[k].live /\ rows[k].option = stands[r]
    BY <2>2 DEF AnswersInv, LatestAnswerStands
  <2> QED BY <1>7, <2>1, <2>2, <2>3
<1>18. StandsOK'
  BY <1>1 DEF AnswersInv, StandsOK
<1> QED BY <1>10, <1>15, <1>16, <1>17, <1>18 DEF AnswersInv

LEMMA AnswersStep == CallsInv /\ AnswersInv /\ [Next]_vars => AnswersInv'
<1> SUFFICES ASSUME CallsInv, AnswersInv, [Next]_vars PROVE AnswersInv'
  OBVIOUS
<1>1. CASE UNCHANGED vars
  <2>1. UNCHANGED <<rows, overlap, stands, call>> /\ InProgress' = InProgress
    BY <1>1 DEF vars, InProgress
  <2>2. \A k \in Calls : call[k].pc \in InTransaction => call[k].pc \in InTransaction /\ call'[k] = call[k]
    BY <2>1
  <2> QED BY <2>1, <2>2, NoRowWritten
<1>2. CASE Push
  BY <1>2, AnswersPush
<1>3. CASE Edit
  <2>1. UNCHANGED <<rows, overlap, stands>>
    BY <1>3 DEF Edit
  <2>2. ASSUME NEW k \in Calls
        PROVE  call'[k].pc = call[k].pc /\ call'[k].ask = call[k].ask /\ call'[k].saw = call[k].saw
               /\ call'[k].alone = call[k].alone
    <3>1. CASE k \in InProgress
      <4>1. IsCall(call[k]) /\ call'[k] = [call[k] EXCEPT !.seen = @ \cup {db'}]
        BY <1>3, <3>1, EditEffect
      <4> QED BY <4>1 DEF IsCall, Fields
    <3>2. CASE k \notin InProgress
      BY <1>3, <3>2, EditEffect
    <3> QED BY <3>1, <3>2
  <2>3. \A k \in InProgress' : k \in InProgress /\ k \in Calls
    BY <2>2 DEF InProgress
  <2> QED BY <2>1, <2>2, <2>3, NoRowWritten
<1>4. ASSUME NEW c \in Calls, Statement(c) PROVE AnswersInv'
  <2>1. c \in InProgress /\ Reads /\ call[c] # Idle
    BY <1>4, StatementMoves DEF InProgress, Idle
  <2>2. Keeps(c) /\ call'[c].pc \notin InTransaction
    <3>1. CASE Replies(c)
      <4>1. PICK a : Reply(c, a)
        BY <3>1 DEF Replies
      <4> QED BY <2>1, <4>1, ReplyEffect DEF InTransaction
    <3>2. CASE \E pc : Fits(pc, call[c].ask.op) /\ pc \notin InTransaction \cup {"idle"} /\ Goes(c, pc)
      <4>1. PICK pc, x : pc \notin InTransaction /\ Goto(c, pc, x)
        BY <3>2 DEF Goes
      <4> QED BY <2>1, <4>1, GotoEffect
    <3> QED BY <1>4, <3>1, <3>2, StatementMoves
  <2>3. \A k \in InProgress' : k \in InProgress /\ call'[k].ask = call[k].ask /\ (call'[k].alone => call[k].alone)
    BY <2>1, <2>2 DEF InProgress, Keeps
  <2>4. \A k \in Calls : call'[k].pc \in InTransaction =>
            call'[k].ask = call[k].ask /\ call[k].pc \in InTransaction /\ call'[k].saw = call[k].saw
    BY <2>2 DEF Keeps
  <2> QED BY <2>1, <2>3, <2>4, NoRowWritten DEF Reads
<1>5. ASSUME NEW c \in Calls, BeginUpdate(c) PROVE AnswersInv'
  <2>1. UNCHANGED <<rows, overlap, stands>>
    BY <1>5 DEF BeginUpdate, At, Reads
  <2>2. \A k \in InProgress' : k \in InProgress /\ call'[k].ask = call[k].ask /\ (call'[k].alone => call[k].alone)
    BY <1>5, BeginUpdateEffect DEF InProgress
  <2>3. \A k \in Calls : call'[k].pc \in InTransaction =>
            /\ call'[k].ask = call[k].ask
            /\ \/ call[k].pc \in InTransaction /\ call'[k].saw = call[k].saw
               \/ call'[k].saw = RowsOf(Target(k))
    BY <1>5, BeginUpdateEffect
  <2> QED BY <2>1, <2>2, <2>3, NoRowWritten
<1>6. ASSUME NEW c \in Calls, UpdateQuizAnswer(c) \/ InsertQuizAnswer(c) PROVE AnswersInv'
  <2>1. UNCHANGED <<rows, overlap, stands>>
    BY <1>6 DEF UpdateQuizAnswer, InsertQuizAnswer, At, Reads
  <2>2. \A k \in InProgress' : k \in InProgress /\ call'[k].ask = call[k].ask /\ (call'[k].alone => call[k].alone)
    BY <1>6, WriteEffect DEF InProgress, Keeps
  <2>3. \A k \in Calls : call'[k].pc \in InTransaction =>
            call'[k].ask = call[k].ask /\ call[k].pc \in InTransaction /\ call'[k].saw = call[k].saw
    BY <1>6, WriteEffect DEF Keeps, InTransaction
  <2> QED BY <2>1, <2>2, <2>3, NoRowWritten
<1>7. ASSUME NEW c \in Calls, Done(c) PROVE AnswersInv'
  <2>1. UNCHANGED <<rows, overlap, stands>> /\ call' = [call EXCEPT ![c] = Idle]
    BY <1>7 DEF Done, At, Reads
  <2>2. call'[c].pc = "idle" /\ \A k \in Calls \ {c} : call'[k] = call[k]
    BY <2>1 DEF Idle, CallsInv, CallsOK
  <2>3. \A k \in InProgress' : k \in InProgress /\ call'[k].ask = call[k].ask /\ (call'[k].alone => call[k].alone)
    BY <2>2 DEF InProgress
  <2>4. \A k \in Calls : call'[k].pc \in InTransaction =>
            call'[k].ask = call[k].ask /\ call[k].pc \in InTransaction /\ call'[k].saw = call[k].saw
    BY <2>2 DEF InTransaction
  <2> QED BY <2>1, <2>3, <2>4, NoRowWritten
<1> QED
  <2>1. CASE \E c \in Calls : Handle(c)
    BY <2>1, <1>4, <1>5, <1>6, <1>7, AnswersAsk, AnswersCommit DEF Handle, Statement
  <2> QED BY <1>1, <1>2, <1>3, <2>1 DEF Next

\* However answers, deletions by devices and failures interleave: an answer
\* that nothing disturbed is what every row of its question says, revived
\* rows and duplicates included.
THEOREM AnswersStand == Spec => []LatestAnswerStands
<1>1. Init => CallsInv /\ AnswersInv
  BY CallsInit, AnswersInit
<1>2. CallsInv /\ AnswersInv /\ [Next]_vars => (CallsInv /\ AnswersInv)'
  BY CallsStep, AnswersStep
<1>3. AnswersInv => LatestAnswerStands
  BY DEF AnswersInv
<1> QED BY <1>1, <1>2, <1>3, PTL DEF Spec

\* One row per question, as long as no two answers to it overlap and no
\* device adds one: the update and the insert of a transaction without a
\* unique key are enough then, and only then.
THEOREM OneAnswerEach == Spec => []OneAnswer
<1>1. Init => CallsInv /\ AnswersInv
  BY CallsInit, AnswersInit
<1>2. CallsInv /\ AnswersInv /\ [Next]_vars => (CallsInv /\ AnswersInv)'
  BY CallsStep, AnswersStep
<1>3. AnswersInv => OneAnswer
  <2> SUFFICES ASSUME AnswersInv, NEW r \in Refs \ overlap PROVE Cardinality(RowsOf(r)) <= 1
    BY DEF OneAnswer
  <2>1. PICK i : RowsOf(r) \subseteq {i}
    BY DEF AnswersInv, OneRow
  <2>2. RowsOf(r) = {} \/ RowsOf(r) = {i}
    BY <2>1
  <2>3. Cardinality({}) = 0 /\ Cardinality({i}) = 1
    BY FS_EmptySet, FS_Singleton
  <2> QED BY <2>2, <2>3
<1> QED BY <1>1, <1>2, <1>3, PTL DEF Spec

-----------------------------------------------------------------------------
(* ORDER BY. *)

\* A finite set that is strictly and totally ordered can be put in that order.
LEMMA InOrderExists ==
  ASSUME NEW S, IsFiniteSet(S), NEW lt \in SUBSET (S \X S),
         \A u \in S : <<u, u>> \notin lt,
         \A u, v, w \in S : <<u, v>> \in lt /\ <<v, w>> \in lt => <<u, w>> \in lt,
         \A u, v \in S : u = v \/ <<u, v>> \in lt \/ <<v, u>> \in lt
  PROVE  \E s \in [1 .. Cardinality(S) -> S] : Range(s) = S /\ \A i, k \in DOMAIN s : i < k => <<s[k], s[i]>> \notin lt
<1> DEFINE n == Cardinality(S)
           below(v) == {u \in S : u = v \/ <<u, v>> \in lt}
           rank == [v \in S |-> Cardinality(below(v))]
<1>1. n \in Nat
  BY FS_CardinalityType
<1>2. ASSUME NEW v \in S PROVE IsFiniteSet(below(v)) /\ rank[v] \in 1 .. n
  <2>1. below(v) \in SUBSET S /\ v \in below(v)
    OBVIOUS
  <2>2. IsFiniteSet(below(v)) /\ Cardinality(below(v)) <= n
    BY <2>1, FS_Subset
  <2>3. Cardinality(below(v)) \in Nat /\ Cardinality(below(v)) # 0
    BY <2>1, <2>2, FS_CardinalityType, FS_EmptySet
  <2> QED BY <1>1, <2>2, <2>3
<1>3. ASSUME NEW u \in S, NEW v \in S, <<u, v>> \in lt PROVE rank[u] < rank[v]
  <2>1. v \notin below(u)
    <3>1. u # v /\ <<v, u>> \notin lt
      BY <1>3
    <3> QED BY <3>1
  <2>2. below(u) \in SUBSET below(v) /\ v \in below(v)
    BY <1>3
  <2>3. Cardinality(below(u)) <= Cardinality(below(v)) /\ Cardinality(below(u)) # Cardinality(below(v))
    BY <1>2, <2>1, <2>2, FS_Subset
  <2>4. rank[u] \in Nat /\ rank[v] \in Nat
    BY <1>2
  <2> QED BY <2>3, <2>4
<1>4. rank \in [S -> 1 .. n]
  BY <1>2
<1> HIDE DEF rank
<1>5. \A u, v \in S : rank[u] = rank[v] => u = v
  <2> SUFFICES ASSUME NEW u \in S, NEW v \in S, rank[u] = rank[v], u # v PROVE FALSE
    OBVIOUS
  <2>1. <<u, v>> \in lt \/ <<v, u>> \in lt
    OBVIOUS
  <2>2. rank[u] \in Nat /\ rank[v] \in Nat
    BY <1>4
  <2> QED BY <1>3, <2>1, <2>2
<1>6. rank \in Injection(S, 1 .. n)
  BY <1>4, <1>5, Fun_IsInj
<1>7. IsFiniteSet(1 .. n) /\ Cardinality(1 .. n) = n
  BY <1>1, FS_Interval
<1>8. rank \in Surjection(S, 1 .. n)
  BY <1>6, <1>7, FS_Injection
<1>9. \A i \in 1 .. n : \E v \in S : rank[v] = i
  BY <1>8, Fun_SurjectionProperties
<1> DEFINE s == [i \in 1 .. n |-> CHOOSE v \in S : rank[v] = i]
<1>10. s \in [1 .. n -> S] /\ \A i \in 1 .. n : rank[s[i]] = i
  BY <1>9
<1> HIDE DEF s
<1>11. Range(s) = S
  <2>1. ASSUME NEW v \in S PROVE s[rank[v]] = v /\ rank[v] \in 1 .. n
    BY <1>4, <1>5, <1>10
  <2> QED BY <1>10, <2>1 DEF Range
<1>12. ASSUME NEW i \in 1 .. n, NEW k \in 1 .. n, i < k PROVE <<s[k], s[i]>> \notin lt
  <2>1. s[i] \in S /\ s[k] \in S /\ rank[s[i]] = i /\ rank[s[k]] = k
    BY <1>10
  <2>2. ~(rank[s[k]] < rank[s[i]])
    BY <1>12, <2>1
  <2> QED BY <1>3, <2>1, <2>2
<1> QED BY <1>10, <1>11, <1>12

\* So can one in which rows may stand level, in no order of their own.
LEMMA LevelOrderExists ==
  ASSUME NEW S, IsFiniteSet(S), NEW lt \in SUBSET (S \X S),
         \A u, v \in S : <<u, v>> \in lt => <<v, u>> \notin lt,
         \A u, v, w \in S : <<u, w>> \in lt => <<u, v>> \in lt \/ <<v, w>> \in lt
  PROVE  \E s \in [1 .. Cardinality(S) -> S] : Range(s) = S /\ \A i, k \in DOMAIN s : i < k => <<s[k], s[i]>> \notin lt
<1> DEFINE n == Cardinality(S)
<1>1. n \in Nat
  BY FS_CardinalityType
<1>2. PICK b \in Bijection(S, 1 .. n) : TRUE
  BY FS_CardinalityType, Fun_ExistsBijSymmetric, Fun_ExistsBij
<1>3. b \in [S -> 1 .. n] /\ \A u, v \in S : b[u] = b[v] => u = v
  BY <1>2 DEF Bijection, Injection, IsInjective
<1>4. \A u \in S : b[u] \in Int
  BY <1>1, <1>3
<1> DEFINE first == {p \in S \X S : p \in lt \/ (<<p[2], p[1]>> \notin lt /\ b[p[1]] < b[p[2]])}
<1>5. \A u, v \in S : <<u, v>> \in first <=> <<u, v>> \in lt \/ (<<v, u>> \notin lt /\ b[u] < b[v])
  OBVIOUS
<1>6. first \in SUBSET (S \X S)
  OBVIOUS
<1> HIDE DEF first
<1>7. \A u \in S : <<u, u>> \notin first
  BY <1>4, <1>5
<1>8. \A u, v, w \in S : <<u, v>> \in first /\ <<v, w>> \in first => <<u, w>> \in first
  <2> SUFFICES ASSUME NEW u \in S, NEW v \in S, NEW w \in S, <<u, v>> \in first, <<v, w>> \in first
               PROVE  <<u, w>> \in first
    OBVIOUS
  <2>1. <<v, u>> \notin lt /\ <<w, v>> \notin lt
    BY <1>5
  <2>2. <<w, u>> \notin lt
    BY <2>1
  <2>3. CASE <<u, v>> \in lt \/ <<v, w>> \in lt
    BY <1>5, <2>1, <2>3
  <2>4. CASE b[u] < b[v] /\ b[v] < b[w]
    BY <1>4, <1>5, <2>2, <2>4
  <2> QED BY <1>5, <2>3, <2>4
<1>9. \A u, v \in S : u = v \/ <<u, v>> \in first \/ <<v, u>> \in first
  <2> SUFFICES ASSUME NEW u \in S, NEW v \in S, u # v PROVE <<u, v>> \in first \/ <<v, u>> \in first
    OBVIOUS
  <2>1. b[u] < b[v] \/ b[v] < b[u]
    BY <1>3, <1>4
  <2> QED BY <1>5, <2>1
<1>10. PICK s \in [1 .. n -> S] : Range(s) = S /\ \A i, k \in DOMAIN s : i < k => <<s[k], s[i]>> \notin first
  BY <1>6, <1>7, <1>8, <1>9, InOrderExists
<1>11. \A i, k \in DOMAIN s : i < k => <<s[k], s[i]>> \notin lt
  <2> SUFFICES ASSUME NEW i \in DOMAIN s, NEW k \in DOMAIN s, i < k PROVE <<s[k], s[i]>> \notin lt
    OBVIOUS
  <2>1. s[i] \in S /\ s[k] \in S
    BY <1>10
  <2> QED BY <1>5, <1>10, <2>1
<1> QED BY <1>10, <1>11

\* A sequence of all members of a set, as long as the set is large, has each once.
LEMMA EachOnce ==
  ASSUME NEW S, IsFiniteSet(S), NEW s \in [1 .. Cardinality(S) -> S], Range(s) = S
  PROVE  /\ Cardinality(S) \in Nat /\ s \in Seq(S) /\ Len(s) = Cardinality(S)
         /\ \A i, j \in DOMAIN s : s[i] = s[j] => i = j
<1> DEFINE n == Cardinality(S)
<1>1. n \in Nat
  BY FS_CardinalityType
<1>2. s \in Seq(S) /\ Len(s) = n
  BY <1>1
<1>3. \A v \in S : \E i \in 1 .. n : s[i] = v
  BY DEF Range
<1>4. s \in Surjection(1 .. n, S)
  BY <1>3, Fun_IsSurj
<1>5. IsFiniteSet(1 .. n) /\ Cardinality(1 .. n) = n
  BY <1>1, FS_Interval
<1>6. s \in Injection(1 .. n, S)
  BY <1>4, <1>5, FS_SurjSameCardinalityImpliesInj
<1>7. \A i, j \in 1 .. n : s[i] = s[j] => i = j
  BY <1>6, Fun_IsInj DEF Injection, IsInjective
<1> QED BY <1>1, <1>2, <1>7

LEMMA SortedInOrder ==
  ASSUME NEW S, NEW column, Numbers(S, column)
  PROVE  Sorted(S, column) \in [1 .. Cardinality(S) -> S] /\ InOrder(Sorted(S, column), S, column)
<1> DEFINE lt == {p \in S \X S : p[1][column] < p[2][column]}
           n == Cardinality(S)
<1>1. IsFiniteSet(S) /\ \A x \in S : x[column] \in Int
  BY DEF Numbers
<1>2. \A u, v \in S : <<u, v>> \in lt <=> u[column] < v[column]
  OBVIOUS
<1>3. lt \in SUBSET (S \X S)
  OBVIOUS
<1> HIDE DEF lt
<1>4. \A u, v \in S : <<u, v>> \in lt => <<v, u>> \notin lt
  BY <1>1, <1>2
<1>5. \A u, v, w \in S : <<u, w>> \in lt => <<u, v>> \in lt \/ <<v, w>> \in lt
  BY <1>1, <1>2
<1>6. PICK t \in [1 .. n -> S] : Range(t) = S /\ \A i, k \in DOMAIN t : i < k => <<t[k], t[i]>> \notin lt
  BY <1>1, <1>3, <1>4, <1>5, LevelOrderExists
<1>7. \A i, j \in DOMAIN t : i < j => ~(t[j][column] < t[i][column])
  BY <1>2, <1>6
<1>8. PICK s : s = Sorted(S, column)
  OBVIOUS
<1>9. s = CHOOSE q \in [1 .. n -> S] : Range(q) = S /\ \A i, j \in DOMAIN q : i < j => ~(q[j][column] < q[i][column])
  BY <1>8 DEF Sorted, OrderBy
<1>10. s \in [1 .. n -> S] /\ Range(s) = S /\ \A i, j \in DOMAIN s : i < j => ~(s[j][column] < s[i][column])
  BY <1>6, <1>7, <1>9
<1>11. \A i, j \in DOMAIN s : i < j => s[i][column] <= s[j][column]
  BY <1>1, <1>10
<1> QED BY <1>1, <1>8, <1>10, <1>11, EachOnce DEF InOrder

\* Options by question and order.
Listing(os, S) ==
  /\ IsFiniteSet(S) /\ os \in [1 .. Cardinality(S) -> S] /\ Range(os) = S /\ \A o \in S : o.ord \in Int
  /\ \A i, j \in DOMAIN os : i < j /\ os[i].question = os[j].question => os[i].ord <= os[j].ord

LEMMA OptionsListed ==
  ASSUME NEW d \in Databases, NEW id, NEW S,
         S = {o \in d.options : \E q \in d.questions : q.lesson = id /\ q.id = o.question}
  PROVE  Listing(ListLessonOptions(d, id), S)
<1> DEFINE before(o, p) == o.question < p.question \/ (o.question = p.question /\ o.ord < p.ord)
           n == Cardinality(S)
<1>1. IsFiniteSet(d.options) /\ \A o \in S : o.question \in Int /\ o.ord \in Int
  BY LibraryAssumption DEF LibraryAssumption
<1>2. IsFiniteSet(S) /\ n \in Nat
  BY <1>1, FS_Subset, FS_CardinalityType
<1> DEFINE lt == {p \in S \X S : before(p[1], p[2])}
<1>3. \A u, v \in S : <<u, v>> \in lt <=> before(u, v)
  OBVIOUS
<1>4. lt \in SUBSET (S \X S)
  OBVIOUS
<1> HIDE DEF lt
<1>5. \A u, v \in S : <<u, v>> \in lt => <<v, u>> \notin lt
  BY <1>1, <1>3
<1>6. \A u, v, w \in S : <<u, w>> \in lt => <<u, v>> \in lt \/ <<v, w>> \in lt
  BY <1>1, <1>3
<1>7. PICK t \in [1 .. n -> S] : Range(t) = S /\ \A i, k \in DOMAIN t : i < k => <<t[k], t[i]>> \notin lt
  BY <1>2, <1>4, <1>5, <1>6, LevelOrderExists
<1>8. \A i, j \in DOMAIN t : i < j => ~before(t[j], t[i])
  <2> HIDE DEF before
  <2> QED BY <1>3, <1>7
<1>9. PICK os : os = ListLessonOptions(d, id)
  OBVIOUS
<1>10. os = CHOOSE s \in [1 .. n -> S] : Range(s) = S /\ \A i, j \in DOMAIN s : i < j => ~before(s[j], s[i])
  BY <1>9 DEF ListLessonOptions, OrderBy
<1>11. os \in [1 .. n -> S] /\ Range(os) = S /\ \A i, j \in DOMAIN os : i < j => ~before(os[j], os[i])
  <2> HIDE DEF before
  <2> QED BY <1>7, <1>8, <1>10
<1>12. \A i, j \in DOMAIN os : i < j /\ os[i].question = os[j].question => os[i].ord <= os[j].ord
  BY <1>1, <1>11
<1> QED BY <1>1, <1>2, <1>9, <1>11, <1>12 DEF Listing

\* The options under one question are those of the list that name it, each
\* once and in their order.
LEMMA UnderTheirQuestion ==
  ASSUME NEW os, NEW S, Listing(os, S), NEW q, NEW U, U = {o \in S : o.question = q}
  PROVE  InOrder(OptionsUnder(os, q), U, "ord")
<1> USE DEF Listing
<1> DEFINE places == {i \in DOMAIN os : os[i].question = q}
           m == Cardinality(places)
<1>0. Cardinality(S) \in Nat /\ \A i, j \in DOMAIN os : os[i] = os[j] => i = j
  BY EachOnce
<1>1. places \in SUBSET (1 .. Cardinality(S)) /\ \A i : i \in places <=> i \in DOMAIN os /\ os[i].question = q
  OBVIOUS
<1>2. IsFiniteSet(places)
  <2>1. IsFiniteSet(1 .. Cardinality(S))
    BY <1>0, FS_Interval
  <2> QED BY <1>1, <2>1, FS_Subset
<1> HIDE DEF places
<1> DEFINE lt == {p \in places \X places : p[1] < p[2]}
<1>3. \A u, v \in places : <<u, v>> \in lt <=> u < v
  OBVIOUS
<1>4. \A u \in places : u \in Int
  BY <1>0, <1>1
<1>5. lt \in SUBSET (places \X places)
  OBVIOUS
<1> HIDE DEF lt
<1>6. /\ \A u, v \in places : <<u, v>> \in lt => <<v, u>> \notin lt
      /\ \A u, v, w \in places : <<u, w>> \in lt => <<u, v>> \in lt \/ <<v, w>> \in lt
  BY <1>3, <1>4
<1>7. \E t \in [1 .. m -> places] : Range(t) = places /\ \A i, k \in DOMAIN t : i < k => <<t[k], t[i]>> \notin lt
  BY <1>2, <1>5, <1>6, LevelOrderExists
<1>8. \E t \in [1 .. m -> places] : Range(t) = places /\ \A i, j \in DOMAIN t : i < j => ~(t[j] < t[i])
  BY <1>3, <1>7
<1>9. PICK s : s = OrderBy(places, <)
  OBVIOUS
<1>10. s = CHOOSE t \in [1 .. m -> places] : Range(t) = places /\ \A i, j \in DOMAIN t : i < j => ~(t[j] < t[i])
  BY <1>9 DEF OrderBy
<1>11. s \in [1 .. m -> places] /\ Range(s) = places /\ \A i, j \in DOMAIN s : i < j => ~(s[j] < s[i])
  BY <1>8, <1>10
<1>12. m \in Nat /\ \A i, j \in DOMAIN s : s[i] = s[j] => i = j
  BY <1>2, <1>11, EachOnce
<1> DEFINE r == [k \in DOMAIN s |-> os[s[k]]]
<1>13. OptionsUnder(os, q) = r
  BY <1>9 DEF OptionsUnder, places
<1>14. \A k \in 1 .. m : r[k] = os[s[k]] /\ s[k] \in places /\ s[k] \in DOMAIN os /\ r[k] \in U
  BY <1>1, <1>11
<1>15. \A o \in U : \E k \in 1 .. m : r[k] = o
  <2> SUFFICES ASSUME NEW o \in U PROVE \E k \in 1 .. m : r[k] = o
    OBVIOUS
  <2>1. PICK i \in DOMAIN os : os[i] = o
    BY DEF Range
  <2>2. i \in places
    BY <1>1, <2>1
  <2>3. PICK k \in DOMAIN s : s[k] = i
    BY <1>11, <2>2 DEF Range
  <2> QED BY <1>11, <1>14, <2>1, <2>3
<1>16. r \in [1 .. m -> U] /\ DOMAIN r = 1 .. m
  BY <1>11, <1>14
<1>17. \A i, j \in 1 .. m : i < j => r[i].ord <= r[j].ord
  <2> SUFFICES ASSUME NEW i \in 1 .. m, NEW j \in 1 .. m, i < j PROVE r[i].ord <= r[j].ord
    OBVIOUS
  <2>1. s[i] \in places /\ s[j] \in places /\ ~(s[j] < s[i]) /\ s[i] # s[j]
    BY <1>11, <1>12
  <2>2. s[i] < s[j]
    BY <1>4, <2>1
  <2>3. os[s[i]].question = os[s[j]].question /\ s[i] \in DOMAIN os /\ s[j] \in DOMAIN os
    BY <1>1, <2>1
  <2> QED BY <1>14, <2>2, <2>3
<1>18. \A i, j \in 1 .. m : r[i] = r[j] => i = j
  BY <1>0, <1>11, <1>12, <1>14
<1> HIDE DEF r
<1>19. Range(r) = U
  BY <1>15, <1>16 DEF Range
<1>20. r \in Seq(U) /\ Len(r) = m
  BY <1>12, <1>16
<1>21. Cardinality(U) = m
  <2>1. r \in Bijection(1 .. m, U)
    BY <1>15, <1>16, <1>18, Fun_IsBij, Fun_IsSurj, Fun_IsInj DEF Bijection, Injection, Surjection, IsInjective
  <2>2. ExistsBijection(1 .. m, U)
    BY <2>1 DEF ExistsBijection
  <2> QED BY <1>12, <2>2, FS_Bijection, FS_Interval
<1> QED BY <1>13, <1>16, <1>17, <1>19, <1>20, <1>21 DEF InOrder

-----------------------------------------------------------------------------
(* What is published. What a call found, and what it answers, was published  *)
(* in a content that there was since the request came.                       *)

SomePublishedCourse(x, id) == \E d \in x.seen : \E b \in Published(d.courses) : b.id = id

\* x is a call, d the content there is.
FoundOK(x, d) ==
  /\ x.pc \notin {"idle", "answered"} => d \in x.seen
  /\ x.pc \in {"item", "week", "lesson"} => x.found = <<>>
  /\ x.pc = "links" => \E i : x.found = <<i>> /\ i.at <= x.ask.now /\ \E e \in x.seen : i \in Published(e.items)
  /\ x.pc = "days" => \E w : x.found = <<w>> /\ \E e \in x.seen : w \in Published(e.weeks)
  /\ x.pc = "questions" => \E s : x.found = <<s>> /\ SomePublishedCourse(x, s.course)
  /\ x.pc = "options" => SomePublishedCourse(x, x.found[1].course)
  /\ x.pc \in {"update", "lock", "insert", "commit"} => SomePublishedCourse(x, Int32(x.ask.course))

\* The requests whose answers are about publication.
Publishing == {"beliefs", "courses", "belief", "week", "feedItem", "lesson", "answer"}

ShownOK(x) ==
  LET body == x.answer.body
  IN  x.pc = "answered" /\ x.answer.status = 200 =>
    /\ x.ask.op = "beliefs" => \E d \in x.seen : Range(body) \subseteq Published(d.beliefs)
    /\ x.ask.op = "courses" => \E d \in x.seen : {y.id : y \in Range(body)} \subseteq {b.id : b \in Published(d.courses)}
    /\ x.ask.op = "belief" => \E d \in x.seen : \E b \in Published(d.beliefs) : b.n = x.ask.n /\ b.lang = x.ask.lang
    /\ x.ask.op = "week" => \E d \in x.seen : body.week \in Published(d.weeks)
    /\ x.ask.op = "feedItem" => body.item.at <= x.ask.now /\ \E d \in x.seen : body.item \in Published(d.items)
    /\ x.ask.op = "lesson" =>
         /\ SomePublishedCourse(x, body.lesson.course)
         /\ \A q \in Range(body.questions) : \A o \in Range(q.options) :
              \E d \in x.seen : o \in d.options /\ o.question = q.id
    /\ x.ask.op = "answer" => SomePublishedCourse(x, Int32(x.ask.course))

ContentOK(x, d) == FoundOK(x, d) /\ ShownOK(x)
ContentInv == db \in load.versions /\ \A c \in Calls : ContentOK(call[c], db)

LEMMA ContentImplies == CallsInv /\ ContentInv => OnlyPublished
<1> SUFFICES ASSUME CallsInv, ContentInv PROVE OnlyPublished
  OBVIOUS
<1>1. \A c \in Calls : ShownOK(call[c])
  BY DEF ContentInv, ContentOK
<1> QED BY <1>1 DEF OnlyPublished, ShownOK, SomePublishedCourse, AskOf

LEMMA IdleContent == ASSUME NEW d PROVE ContentOK(Idle, d)
BY DEF ContentOK, FoundOK, ShownOK, Idle

\* Contents that were seen stay seen.
LEMMA ContentGrows ==
  ASSUME NEW x, NEW y, NEW d, NEW e, ContentOK(x, d),
         y.pc = x.pc, y.ask = x.ask, y.found = x.found, y.answer = x.answer, x.seen \subseteq y.seen,
         e = d \/ e \in y.seen \/ x.pc \in {"idle", "answered"}
  PROVE  ContentOK(y, e)
<1>1. \A id : SomePublishedCourse(x, id) => SomePublishedCourse(y, id)
  BY DEF SomePublishedCourse
<1>2. FoundOK(y, e)
  BY <1>1 DEF ContentOK, FoundOK
<1>3. ShownOK(y)
  BY <1>1 DEF ContentOK, ShownOK
<1> QED BY <1>2, <1>3 DEF ContentOK

LEMMA OneOf == ASSUME NEW S, One(S) # NoRow PROVE One(S) \in S
BY DEF One

LEMMA ContentInit == Init => ContentInv
BY IdleContent DEF Init, ContentInv

\* A step of one call, while the content is what it is.
LEMMA OneCallMoves ==
  ASSUME ContentInv, UNCHANGED <<load, db>>, NEW c \in Calls,
         \A k \in Calls \ {c} : call'[k] = call[k], ContentOK(call'[c], db)
  PROVE  ContentInv'
BY DEF ContentInv

LEMMA Refused ==
  ASSUME CallsInv, ContentInv, NEW c \in Calls, call[c] # Idle, NEW a, Reply(c, a), Reads,
         a.status # 200 \/ call[c].ask.op \notin Publishing
  PROVE  ContentInv'
<1>1. Keeps(c) /\ call'[c].pc = "answered" /\ call'[c].answer = a
  BY ReplyEffect
<1>2. ContentOK(call'[c], db)
  BY <1>1 DEF Keeps, ContentOK, FoundOK, ShownOK, Publishing
<1> QED BY <1>1, <1>2, OneCallMoves DEF Keeps, Reads

\* The statements whose answers are not about publication.
LEMMA NotShown ==
  ASSUME CallsInv, ContentInv, NEW c \in Calls, Statement(c),
         call[c].ask.op \notin Publishing
  PROVE  ContentInv'
<1>1. c \in InProgress /\ Reads /\ call[c] # Idle
  BY StatementMoves DEF InProgress, Idle
<1>2. CASE Replies(c)
  <2>1. PICK a : Reply(c, a)
    BY <1>2 DEF Replies
  <2> QED BY <1>1, <2>1, Refused
<1>3. CASE \E pc : Fits(pc, call[c].ask.op) /\ pc \notin InTransaction \cup {"idle"} /\ Goes(c, pc)
  <2>1. PICK pc, x : Fits(pc, call[c].ask.op) /\ Goto(c, pc, x)
    BY <1>3 DEF Goes
  <2>2. Keeps(c) /\ call'[c].pc = pc
    BY <1>1, <2>1, GotoEffect
  <2>3. db \in call[c].seen
    BY <1>1 DEF ContentInv, ContentOK, FoundOK, InProgress
  <2>4. ContentOK(call'[c], db)
    BY <2>1, <2>2, <2>3 DEF Fits, Keeps, ContentOK, FoundOK, ShownOK, Publishing
  <2> QED BY <1>1, <2>2, <2>4, OneCallMoves DEF Keeps, Reads
<1> QED BY <1>2, <1>3, StatementMoves

LEMMA SeesContent ==
  ASSUME ContentInv, NEW c \in InProgress
  PROVE  db \in call[c].seen /\ FoundOK(call[c], db) /\ call[c] # Idle
BY DEF ContentInv, ContentOK, FoundOK, InProgress, Idle

\* What the lists of beliefs and courses name is published.
LEMMA ListedBeliefs ==
  ASSUME NEW d \in Databases, NEW l
  PROVE  Range(ListBeliefs(d, l)) \subseteq Published(d.beliefs)
<1> DEFINE S == Published(InLang(d.beliefs, l))
<1>1. S \subseteq d.beliefs /\ S \subseteq Published(d.beliefs)
  BY DEF Published, InLang
<1>2. Numbers(S, "n")
  <2>1. Numbers(d.beliefs, "n")
    BY ContentAssumption DEF ContentAssumption
  <2> HIDE DEF S
  <2> QED BY <1>1, <2>1, FS_Subset DEF Numbers
<1>3. ListBeliefs(d, l) = Sorted(S, "n")
  BY DEF ListBeliefs
<1> HIDE DEF S
<1> QED BY <1>1, <1>2, <1>3, SortedInOrder DEF InOrder

LEMMA ListedCourses ==
  ASSUME NEW d \in Databases, NEW l
  PROVE  {y.id : y \in Range(ListCourses(d, l))} \subseteq {b.id : b \in Published(d.courses)}
<1> DEFINE S == Published(InLang(d.courses, l))
<1>1. S \subseteq d.courses /\ S \subseteq Published(d.courses)
  BY DEF Published, InLang
<1>2. Numbers(S, "title")
  <2>1. Numbers(d.courses, "title")
    BY ContentAssumption DEF ContentAssumption
  <2> HIDE DEF S
  <2> QED BY <1>1, <2>1, FS_Subset DEF Numbers
<1>3. PICK cs : cs = Sorted(S, "title")
  OBVIOUS
<1>4. PICK r : r = ListCourses(d, l)
  OBVIOUS
<1>5. r = [i \in DOMAIN cs |-> [id |-> cs[i].id, lessons |-> Cardinality({s \in d.lessons : s.course = cs[i].id})]]
  BY <1>3, <1>4 DEF ListCourses
<1> HIDE DEF S
<1>6. cs \in [1 .. Cardinality(S) -> S]
  BY <1>2, <1>3, SortedInOrder
<1>7. \A y \in Range(r) : \E b \in Published(d.courses) : y.id = b.id
  <2> SUFFICES ASSUME NEW y \in Range(r) PROVE \E b \in Published(d.courses) : y.id = b.id
    OBVIOUS
  <2>1. PICK i \in DOMAIN cs : y = r[i]
    BY <1>5 DEF Range
  <2>2. y.id = cs[i].id /\ cs[i] \in S
    BY <1>5, <1>6, <2>1
  <2> QED BY <1>1, <2>2
<1>8. \A y \in Range(r) : y.id \in {b.id : b \in Published(d.courses)}
  BY <1>7
<1> QED BY <1>4, <1>8

LEMMA ContentList == ASSUME CallsInv, ContentInv, NEW c \in Calls, List(c) PROVE ContentInv'
<1>1. call[c].pc = "list" /\ Reads /\ c \in InProgress
  BY DEF List, At, InProgress
<1>2. db \in call[c].seen /\ call[c] # Idle
  BY <1>1, SeesContent
<1>3. PICK a : a = Listed(call[c].ask) /\ Reply(c, a)
  BY DEF List, AskOf
<1>4. CASE call[c].ask.op \notin {"beliefs", "courses", "belief"}
  <2>1. call[c].ask.op \notin Publishing
    BY <1>1, <1>4, StepKind DEF Fits, Publishing
  <2> QED BY <1>1, <1>2, <1>3, <2>1, Refused
<1>6. CASE call[c].ask.op \in {"beliefs", "courses"}
  <2>1. PICK d, l, s : d = db /\ l = call[c].ask.lang
                       /\ s = IF call[c].ask.op = "beliefs" THEN ListBeliefs(d, l) ELSE ListCourses(d, l)
    OBVIOUS
  <2>2. d \in Databases
    BY <2>1, LibraryAssumption DEF ContentInv, CallsInv, LibraryAssumption
  <2>3. a = OK(s) /\ a.body = s
    BY <1>3, <1>6, <2>1 DEF Listed, OK
  <2>4. Keeps(c) /\ call'[c].pc = "answered" /\ call'[c].answer = a
    BY <1>2, <1>3, ReplyEffect
  <2>5. CASE call[c].ask.op = "beliefs"
    <3>1. Range(s) \subseteq Published(d.beliefs)
      BY <2>1, <2>2, <2>5, ListedBeliefs
    <3>2. ContentOK(call'[c], db)
      BY <1>2, <2>1, <2>3, <2>4, <2>5, <3>1 DEF Keeps, ContentOK, FoundOK, ShownOK
    <3> QED BY <1>1, <2>4, <3>2, OneCallMoves DEF Keeps, Reads
  <2>6. CASE call[c].ask.op = "courses"
    <3>1. {y.id : y \in Range(s)} \subseteq {b.id : b \in Published(d.courses)}
      BY <2>1, <2>2, <2>6, ListedCourses
    <3>2. ContentOK(call'[c], db)
      BY <1>2, <2>1, <2>3, <2>4, <2>6, <3>1 DEF Keeps, ContentOK, FoundOK, ShownOK
    <3> QED BY <1>1, <2>4, <3>2, OneCallMoves DEF Keeps, Reads
  <2> QED BY <1>6, <2>5, <2>6
<1>5. CASE call[c].ask.op = "belief"
  <2>0. PICK b : b = GetBelief(db, call[c].ask.n, call[c].ask.lang)
    OBVIOUS
  <2>1. a = IF b = NoRow THEN NotFound ELSE OK(b)
    BY <1>3, <1>5, <2>0 DEF Listed
  <2>2. CASE b = NoRow
    BY <1>1, <1>2, <1>3, <2>1, <2>2, Refused DEF NotFound
  <2>3. CASE b # NoRow
    <3>1. b \in {x \in Published(InLang(db.beliefs, call[c].ask.lang)) : x.n = call[c].ask.n}
      BY <2>0, <2>3, OneOf DEF GetBelief
    <3>2. b \in Published(db.beliefs) /\ b.n = call[c].ask.n /\ b.lang = call[c].ask.lang
      BY <3>1 DEF Published, InLang
    <3>3. Keeps(c) /\ call'[c].pc = "answered"
      BY <1>2, <1>3, ReplyEffect
    <3>4. ContentOK(call'[c], db)
      BY <1>2, <1>5, <3>2, <3>3 DEF Keeps, ContentOK, FoundOK, ShownOK
    <3> QED BY <1>1, <3>3, <3>4, OneCallMoves DEF Keeps, Reads
  <2> QED BY <2>2, <2>3
<1> QED BY <1>4, <1>5, <1>6

LEMMA ContentItem == ASSUME CallsInv, ContentInv, NEW c \in Calls, FindItem(c) \/ ReadLinks(c) PROVE ContentInv'
<1>1. call[c].pc \in {"item", "links"} /\ Reads /\ c \in InProgress
  BY DEF FindItem, ReadLinks, At, InProgress
<1>2. db \in call[c].seen /\ call[c] # Idle /\ FoundOK(call[c], db) /\ call[c].ask.op = "feedItem"
  BY <1>1, SeesContent, StepKind DEF Fits
<1>3. CASE FindItem(c)
  <2>0. PICK i : i = GetFeedItem(db, call[c].ask.id, call[c].ask.now)
    OBVIOUS
  <2>1. IF i = NoRow THEN Reply(c, NotFound) ELSE Goto(c, "links", i)
    BY <1>3, <2>0 DEF FindItem, AskOf
  <2>2. CASE i = NoRow
    <3>1. PICK a : a = NotFound /\ Reply(c, a)
      BY <2>1, <2>2
    <3> QED BY <1>1, <1>2, <3>1, Refused DEF NotFound
  <2>3. CASE i # NoRow
    <3>1. i \in Published(db.items) /\ i.at <= call[c].ask.now
      BY <2>0, <2>3, OneOf DEF GetFeedItem
    <3>2. Keeps(c) /\ call'[c].pc = "links" /\ call'[c].found = Append(call[c].found, i)
      BY <1>2, <2>1, <2>3, GotoEffect
    <3>3. call[c].found = <<>>
      BY <1>2, <1>3 DEF FoundOK, FindItem, At
    <3>4. call'[c].found = <<i>>
      BY <3>2, <3>3
    <3>5. ContentOK(call'[c], db)
      BY <1>2, <3>1, <3>2, <3>4 DEF Keeps, ContentOK, FoundOK, ShownOK
    <3> QED BY <1>1, <3>2, <3>5, OneCallMoves DEF Keeps, Reads
  <2> QED BY <2>2, <2>3
<1>4. CASE ReadLinks(c)
  <2>1. PICK i : call[c].found = <<i>> /\ i.at <= call[c].ask.now /\ \E e \in call[c].seen : i \in Published(e.items)
    BY <1>2, <1>4 DEF FoundOK, ReadLinks, At
  <2>2. PICK a, links : a = OK([item |-> i, links |-> links]) /\ Reply(c, a)
    BY <1>4, <2>1 DEF ReadLinks, Found
  <2>3. Keeps(c) /\ call'[c].pc = "answered" /\ call'[c].answer = a
    BY <1>2, <2>2, ReplyEffect
  <2>4. a.body.item = i
    BY <2>2 DEF OK
  <2>5. ContentOK(call'[c], db)
    BY <1>2, <2>1, <2>3, <2>4 DEF Keeps, ContentOK, FoundOK, ShownOK
  <2> QED BY <1>1, <2>3, <2>5, OneCallMoves DEF Keeps, Reads
<1> QED BY <1>3, <1>4

LEMMA ContentWeek == ASSUME CallsInv, ContentInv, NEW c \in Calls, FindWeek(c) \/ ReadDays(c) PROVE ContentInv'
<1>1. call[c].pc \in {"week", "days"} /\ Reads /\ c \in InProgress
  BY DEF FindWeek, ReadDays, At, InProgress
<1>2. db \in call[c].seen /\ call[c] # Idle /\ FoundOK(call[c], db) /\ call[c].ask.op = "week"
  BY <1>1, SeesContent, StepKind DEF Fits
<1>3. CASE FindWeek(c)
  <2>0. PICK w : w = GetSabbathSchoolLesson(db, call[c].ask.lang, Today(call[c].ask))
    OBVIOUS
  <2>1. IF w = NoRow THEN Reply(c, NotFound) ELSE Goto(c, "days", w)
    BY <1>3, <2>0 DEF FindWeek, AskOf
  <2>2. CASE w = NoRow
    <3>1. PICK a : a = NotFound /\ Reply(c, a)
      BY <2>1, <2>2
    <3> QED BY <1>1, <1>2, <3>1, Refused DEF NotFound
  <2>3. CASE w # NoRow
    <3>1. w \in Published(InLang(db.weeks, call[c].ask.lang))
      BY <2>0, <2>3, OneOf DEF GetSabbathSchoolLesson
    <3>2. w \in Published(db.weeks)
      BY <3>1 DEF Published, InLang
    <3>3. Keeps(c) /\ call'[c].pc = "days" /\ call'[c].found = Append(call[c].found, w)
      BY <1>2, <2>1, <2>3, GotoEffect
    <3>4. call[c].found = <<>>
      BY <1>2, <1>3 DEF FoundOK, FindWeek, At
    <3>5. call'[c].found = <<w>>
      BY <3>3, <3>4
    <3>6. ContentOK(call'[c], db)
      BY <1>2, <3>2, <3>3, <3>5 DEF Keeps, ContentOK, FoundOK, ShownOK
    <3> QED BY <1>1, <3>3, <3>6, OneCallMoves DEF Keeps, Reads
  <2> QED BY <2>2, <2>3
<1>4. CASE ReadDays(c)
  <2>1. PICK w : call[c].found = <<w>> /\ \E e \in call[c].seen : w \in Published(e.weeks)
    BY <1>2, <1>4 DEF FoundOK, ReadDays, At
  <2>2. PICK a, days : a = OK([week |-> w, days |-> days]) /\ Reply(c, a)
    <3>1. Found(c)[1] = w
      BY <2>1 DEF Found
    <3>2. \E days : Reply(c, OK([week |-> Found(c)[1], days |-> days]))
      BY <1>4 DEF ReadDays
    <3> QED BY <3>1, <3>2
  <2>3. Keeps(c) /\ call'[c].pc = "answered" /\ call'[c].answer = a
    BY <1>2, <2>2, ReplyEffect
  <2>4. a.body.week = w
    BY <2>2 DEF OK
  <2>5. ContentOK(call'[c], db)
    BY <1>2, <2>1, <2>3, <2>4 DEF Keeps, ContentOK, FoundOK, ShownOK
  <2> QED BY <1>1, <2>3, <2>5, OneCallMoves DEF Keeps, Reads
<1> QED BY <1>3, <1>4

LEMMA ContentLesson ==
  ASSUME CallsInv, ContentInv, NEW c \in Calls, FindLesson(c) \/ ReadQuestions(c) \/ ReadOptions(c)
  PROVE  ContentInv'
<1>1. call[c].pc \in {"lesson", "questions", "options"} /\ Reads /\ c \in InProgress
  BY DEF FindLesson, ReadQuestions, ReadOptions, At, InProgress
<1>2. db \in call[c].seen /\ call[c] # Idle /\ FoundOK(call[c], db) /\ call[c].ask.op = "lesson"
  BY <1>1, SeesContent, StepKind DEF Fits
<1>3. CASE FindLesson(c)
  <2>0. PICK s : s = GetCourseLesson(db, call[c].ask.course, call[c].ask.n)
    OBVIOUS
  <2>1. IF s = NoRow THEN Reply(c, NotFound) ELSE Goto(c, "questions", s)
    BY <1>3, <2>0 DEF FindLesson, AskOf
  <2>2. CASE s = NoRow
    <3>1. PICK a : a = NotFound /\ Reply(c, a)
      BY <2>1, <2>2
    <3> QED BY <1>1, <1>2, <3>1, Refused DEF NotFound
  <2>3. CASE s # NoRow
    <3>1. \E b \in Published(db.courses) : b.id = s.course
      BY <2>0, <2>3, OneOf DEF GetCourseLesson
    <3>2. Keeps(c) /\ call'[c].pc = "questions" /\ call'[c].found = Append(call[c].found, s)
      BY <1>2, <2>1, <2>3, GotoEffect
    <3>3. call[c].found = <<>>
      BY <1>2, <1>3 DEF FoundOK, FindLesson, At
    <3>4. call'[c].found = <<s>>
      BY <3>2, <3>3
    <3>5. ContentOK(call'[c], db)
      BY <1>2, <3>1, <3>2, <3>4 DEF Keeps, ContentOK, FoundOK, ShownOK, SomePublishedCourse
    <3> QED BY <1>1, <3>2, <3>5, OneCallMoves DEF Keeps, Reads
  <2> QED BY <2>2, <2>3
<1>4. CASE ReadQuestions(c)
  <2>1. PICK s : call[c].found = <<s>> /\ SomePublishedCourse(call[c], s.course)
    BY <1>2, <1>4 DEF FoundOK, ReadQuestions, At
  <2>2. PICK qs : Goto(c, "options", qs)
    BY <1>4 DEF ReadQuestions
  <2>3. Keeps(c) /\ call'[c].pc = "options" /\ call'[c].found = Append(call[c].found, qs)
    BY <1>2, <2>2, GotoEffect
  <2>4. call'[c].found[1] = s
    <3>1. <<s>> \in Seq({s}) /\ Append(<<s>>, qs)[1] = s
      OBVIOUS
    <3> QED BY <2>1, <2>3, <3>1
  <2>5. ContentOK(call'[c], db)
    BY <1>2, <2>1, <2>3, <2>4 DEF Keeps, ContentOK, FoundOK, ShownOK, SomePublishedCourse
  <2> QED BY <1>1, <2>3, <2>5, OneCallMoves DEF Keeps, Reads
<1>5. CASE ReadOptions(c)
  <2>1. PICK s, qs : s = call[c].found[1] /\ qs = call[c].found[2] /\ SomePublishedCourse(call[c], s.course)
    BY <1>2, <1>5 DEF FoundOK, ReadOptions, At
  <2>2. PICK d : d = db
    OBVIOUS
  <2>3. PICK os : os = ListLessonOptions(d, s.id)
    OBVIOUS
  <2>4. d \in Databases
    BY <2>2, LibraryAssumption DEF LibraryAssumption, ContentInv, CallsInv
  <2>5. PICK S : S = {o \in d.options : \E q \in d.questions : q.lesson = s.id /\ q.id = o.question}
    OBVIOUS
  <2> DEFINE questions == [i \in DOMAIN qs |-> [id |-> qs[i].id, options |-> OptionsUnder(os, qs[i].id)]]
  <2>6. PICK a : a = OK([lesson |-> s, questions |-> questions]) /\ Reply(c, a)
    BY <1>5, <2>1, <2>2, <2>3 DEF ReadOptions, Found
  <2>7. Keeps(c) /\ call'[c].pc = "answered" /\ call'[c].answer = a
    BY <1>2, <2>6, ReplyEffect
  <2>8. \A q \in Range(questions) : \A o \in Range(q.options) : o \in d.options /\ o.question = q.id
    <3> SUFFICES ASSUME NEW q \in Range(questions), NEW o \in Range(q.options) PROVE o \in d.options /\ o.question = q.id
      OBVIOUS
    <3>1. PICK i \in DOMAIN qs : q = [id |-> qs[i].id, options |-> OptionsUnder(os, qs[i].id)]
      BY DEF Range
    <3>2. o \in Range(OptionsUnder(os, qs[i].id)) /\ q.id = qs[i].id
      BY <3>1
    <3>3. PICK U : U = {p \in S : p.question = qs[i].id}
      OBVIOUS
    <3>4. InOrder(OptionsUnder(os, qs[i].id), U, "ord")
      <4>1. Listing(os, S)
        BY <2>3, <2>4, <2>5, OptionsListed
      <4> QED BY <3>3, <4>1, UnderTheirQuestion
    <3>5. o \in U
      BY <3>2, <3>4 DEF InOrder
    <3> QED BY <2>5, <3>2, <3>3, <3>5
  <2> HIDE DEF questions
  <2>9. a.body.lesson = s /\ a.body.questions = questions
    BY <2>6 DEF OK
  <2>10. SomePublishedCourse(call'[c], s.course) /\ d \in call'[c].seen
    BY <1>2, <2>1, <2>2, <2>7 DEF Keeps, SomePublishedCourse
  <2>11. FoundOK(call'[c], db)
    BY <2>7 DEF FoundOK
  <2>12. ShownOK(call'[c])
    BY <1>2, <2>7, <2>8, <2>9, <2>10 DEF Keeps, ShownOK
  <2> QED BY <1>1, <2>7, <2>11, <2>12, OneCallMoves DEF Keeps, Reads, ContentOK
<1> QED BY <1>3, <1>4, <1>5

LEMMA ContentOption == ASSUME CallsInv, ContentInv, NEW c \in Calls, FindOption(c) PROVE ContentInv'
<1>1. call[c].pc = "option" /\ Reads /\ c \in InProgress
  BY DEF FindOption, At, InProgress
<1>2. db \in call[c].seen /\ call[c] # Idle /\ FoundOK(call[c], db) /\ call[c].ask.op = "answer"
  BY <1>1, SeesContent, StepKind DEF Fits
<1>3. PICK x, ask, right : /\ x = GetQuizOptionForLesson(db, ask) /\ ask = call[c].ask
                           /\ right = CorrectOption(db, x.question)
  OBVIOUS
<1>4. IF x = NoRow THEN Reply(c, NotFound)
      ELSE IF right = NoRow THEN Reply(c, [status |-> 500])
      ELSE Goto(c, "update", [correct |-> x.correct, right |-> right.id])
  BY <1>3 DEF FindOption, AskOf
<1>5. CASE x = NoRow \/ right = NoRow
  <2>1. PICK a : (a = NotFound \/ a = [status |-> 500]) /\ Reply(c, a)
    BY <1>4, <1>5
  <2> QED BY <1>1, <1>2, <2>1, Refused DEF NotFound
<1>6. CASE ~(x = NoRow \/ right = NoRow)
  <2>1. PICK y : Goto(c, "update", y)
    BY <1>4, <1>6
  <2>2. Keeps(c) /\ call'[c].pc = "update"
    BY <1>2, <2>1, GotoEffect
  <2>3. GetCourseLesson(db, ask.course, ask.n) # NoRow
    <3> SUFFICES ASSUME GetCourseLesson(db, ask.course, ask.n) = NoRow PROVE FALSE
      OBVIOUS
    <3>1. GetQuizOptionForLesson(db, ask) = One({})
      BY DEF GetQuizOptionForLesson
    <3> QED BY <1>3, <1>6, <3>1 DEF One
  <2>4. PICK s : s = GetCourseLesson(db, ask.course, ask.n)
    OBVIOUS
  <2>5. s.course = Int32(ask.course) /\ \E b \in Published(db.courses) : b.id = s.course
    BY <2>3, <2>4, OneOf DEF GetCourseLesson
  <2>6. SomePublishedCourse(call'[c], Int32(call'[c].ask.course))
    BY <1>2, <1>3, <2>2, <2>5 DEF Keeps, SomePublishedCourse
  <2>7. ContentOK(call'[c], db)
    BY <1>2, <2>2, <2>6 DEF Keeps, ContentOK, FoundOK, ShownOK
  <2> QED BY <1>1, <2>2, <2>7, OneCallMoves DEF Keeps, Reads
<1> QED BY <1>5, <1>6

\* The transaction neither reads nor shows content.
LEMMA ContentWrites ==
  ASSUME CallsInv, ContentInv, NEW c \in Calls,
         BeginUpdate(c) \/ UpdateQuizAnswer(c) \/ InsertQuizAnswer(c) \/ Commit(c)
  PROVE  ContentInv'
<1>1. UNCHANGED <<load, db>>
  BY DEF BeginUpdate, UpdateQuizAnswer, InsertQuizAnswer, Commit, At, Reads
<1>2. /\ call[c].pc \in {"update", "lock", "insert", "commit"} /\ call[c].ask.op = "answer"
      /\ call'[c].ask = call[c].ask /\ call'[c].seen = call[c].seen
      /\ call'[c].pc \in {"lock", "insert", "commit", "answered"}
      /\ \A k \in Calls \ {c} : call'[k] = call[k]
  BY BeginUpdateEffect, WriteEffect, CommitEffect DEF Keeps
<1>3. db \in call[c].seen /\ FoundOK(call[c], db)
  BY <1>2, SeesContent DEF InProgress
<1>4. SomePublishedCourse(call'[c], Int32(call'[c].ask.course))
  BY <1>2, <1>3 DEF FoundOK, SomePublishedCourse
<1>5. ContentOK(call'[c], db)
  BY <1>2, <1>3, <1>4 DEF ContentOK, FoundOK, ShownOK
<1> QED BY <1>1, <1>2, <1>5, OneCallMoves

LEMMA ContentAsk == ASSUME CallsInv, ContentInv, NEW c \in Calls, Ask(c) PROVE ContentInv'
<1>1. PICK a \in load.asks :
        call' = [k \in Calls |->
            IF k = c THEN Started(a)
            ELSE IF a.op = "answer" /\ k \in Answering(a.question) THEN [call[k] EXCEPT !.alone = FALSE]
            ELSE call[k]]
  BY DEF Ask
<1>2. UNCHANGED <<load, db>> /\ call[c].pc = "idle"
  BY DEF Ask
<1>3. a.op \in Ops
  BY LibraryAssumption DEF LibraryAssumption, CallsInv
<1>4. ASSUME NEW k \in Calls PROVE ContentOK(call'[k], db)
  <2>1. CASE k = c
    <3>1. call'[c] = Started(a)
      BY <1>1
    <3>2. call'[c].found = <<>> /\ db \in call'[c].seen /\ call'[c].answer.status = Refusal(a)
          /\ call'[c].pc = IF Refusal(a) = 0 THEN FirstStatement[a.op] ELSE "answered"
      BY <3>1 DEF Started
    <3>3. Refusal(a) \in {0, 400, 404}
      BY DEF Refusal
    <3>4. \A op \in Ops : FirstStatement[op] \in {"list", "item", "edition", "hymnal", "week", "lesson", "option"}
      BY DEF Ops, FirstStatement
    <3>5. call'[c].pc \in {"list", "item", "edition", "hymnal", "week", "lesson", "option", "answered"}
          /\ call'[c].answer.status # 200
      BY <1>3, <3>2, <3>3, <3>4
    <3> QED BY <2>1, <3>2, <3>5 DEF ContentOK, FoundOK, ShownOK
  <2>2. CASE k # c /\ a.op = "answer" /\ k \in Answering(a.question)
    <3>1. IsCall(call[k]) /\ call[k] # Idle
      BY <2>2 DEF Answering, InProgress, CallsInv, CallsOK, CallOK, Idle
    <3>2. call'[k] = [call[k] EXCEPT !.alone = FALSE]
      BY <1>1, <2>2
    <3>3. PICK x, y, d : x = call[k] /\ y = [x EXCEPT !.alone = FALSE] /\ d = db
      OBVIOUS
    <3>4. y.pc = x.pc /\ y.ask = x.ask /\ y.found = x.found /\ y.answer = x.answer /\ x.seen \subseteq y.seen
      BY <3>1, <3>3 DEF IsCall, Fields
    <3>5. ContentOK(x, d)
      BY <3>3 DEF ContentInv
    <3> QED BY <3>2, <3>3, <3>4, <3>5, ContentGrows
  <2>3. CASE k # c /\ ~(a.op = "answer" /\ k \in Answering(a.question))
    BY <1>1, <2>3 DEF ContentInv
  <2> QED BY <2>1, <2>2, <2>3
<1> QED BY <1>2, <1>4 DEF ContentInv

LEMMA ContentPush == ASSUME CallsInv, ContentInv, Push PROVE ContentInv'
<1>1. PICK r \in Refs : call' = [c \in Calls |-> IF c \in Answering(r) THEN [call[c] EXCEPT !.alone = FALSE] ELSE call[c]]
  BY DEF Push
<1>2. UNCHANGED <<load, db>>
  BY DEF Push
<1>3. ASSUME NEW k \in Calls PROVE ContentOK(call'[k], db)
  <2>1. CASE k \in Answering(r)
    <3>1. IsCall(call[k]) /\ call[k] # Idle
      BY <2>1 DEF Answering, InProgress, CallsInv, CallsOK, CallOK, Idle
    <3>2. call'[k] = [call[k] EXCEPT !.alone = FALSE]
      BY <1>1, <2>1
    <3>3. PICK x, y, d : x = call[k] /\ y = [x EXCEPT !.alone = FALSE] /\ d = db
      OBVIOUS
    <3>4. y.pc = x.pc /\ y.ask = x.ask /\ y.found = x.found /\ y.answer = x.answer /\ x.seen \subseteq y.seen
      BY <3>1, <3>3 DEF IsCall, Fields
    <3>5. ContentOK(x, d)
      BY <3>3 DEF ContentInv
    <3> QED BY <3>2, <3>3, <3>4, <3>5, ContentGrows
  <2>2. CASE k \notin Answering(r)
    BY <1>1, <2>2 DEF ContentInv
  <2> QED BY <2>1, <2>2
<1> QED BY <1>2, <1>3 DEF ContentInv

LEMMA ContentEdit == ASSUME CallsInv, ContentInv, Edit PROVE ContentInv'
<1>1. UNCHANGED load /\ db' \in load.versions
  BY DEF Edit
<1>2. ASSUME NEW k \in Calls PROVE ContentOK(call'[k], db')
  <2>1. CASE k \in InProgress
    <3>1. IsCall(call[k]) /\ call'[k] = [call[k] EXCEPT !.seen = @ \cup {db'}]
      BY <2>1, EditEffect
    <3>2. PICK x, d, e : x = call[k] /\ d = db /\ e = db'
      OBVIOUS
    <3>3. PICK y : y = [x EXCEPT !.seen = @ \cup {e}]
      OBVIOUS
    <3>4. y.pc = x.pc /\ y.ask = x.ask /\ y.found = x.found /\ y.answer = x.answer /\ x.seen \subseteq y.seen /\ e \in y.seen
      BY <3>1, <3>2, <3>3 DEF IsCall, Fields
    <3>5. ContentOK(x, d)
      BY <3>2 DEF ContentInv
    <3>6. ContentOK(y, e)
      BY <3>4, <3>5, ContentGrows
    <3> QED BY <3>1, <3>2, <3>3, <3>6
  <2>2. CASE k \notin InProgress
    <3>1. call'[k] = call[k] /\ call[k].pc \in {"idle", "answered"}
      BY <2>2, EditEffect DEF InProgress
    <3>2. PICK x, d, e : x = call[k] /\ d = db /\ e = db'
      OBVIOUS
    <3>3. ContentOK(x, e)
      BY <3>1, <3>2, ContentGrows DEF ContentInv
    <3> QED BY <3>1, <3>2, <3>3
  <2> QED BY <2>1, <2>2
<1> QED BY <1>1, <1>2 DEF ContentInv

LEMMA ContentStep == CallsInv /\ ContentInv /\ [Next]_vars => ContentInv'
<1> SUFFICES ASSUME CallsInv, ContentInv, [Next]_vars PROVE ContentInv'
  OBVIOUS
<1>1. CASE UNCHANGED vars
  BY <1>1 DEF vars, ContentInv
<1>2. ASSUME NEW c \in Calls, Fail(c) PROVE ContentInv'
  <2>1. c \in InProgress /\ Reads /\ call[c] # Idle
    BY <1>2 DEF Fail, InProgress, Idle
  <2>2. PICK a : a = [status |-> 500] /\ Reply(c, a)
    BY <1>2 DEF Fail
  <2> QED BY <2>1, <2>2, Refused
<1>3. ASSUME NEW c \in Calls, Done(c) PROVE ContentInv'
  <2>1. UNCHANGED <<load, db>> /\ call' = [call EXCEPT ![c] = Idle]
    BY <1>3 DEF Done, At, Reads
  <2>2. call'[c] = Idle /\ \A k \in Calls \ {c} : call'[k] = call[k]
    BY <2>1 DEF CallsInv, CallsOK
  <2> QED BY <2>1, <2>2, IdleContent, OneCallMoves
<1>4. ASSUME NEW c \in Calls,
             FindEdition(c) \/ ReadParagraphs(c) \/ FindParallel(c) \/ ReadParallel(c)
               \/ FindHymnal(c) \/ ReadHymns(c) \/ FindHymn(c) \/ ReadStanzas(c)
      PROVE  ContentInv'
  <2>1. call[c].pc \in {"edition", "paragraphs", "parallel edition", "parallel paragraphs",
                        "hymnal", "hymns", "hymn", "stanzas"}
    BY <1>4 DEF FindEdition, ReadParagraphs, FindParallel, ReadParallel, FindHymnal, ReadHymns, FindHymn, ReadStanzas, At
  <2>2. call[c].ask.op \in {"egwChapter", "hymns", "hymn"}
    BY <2>1, StepKind DEF Fits
  <2> QED BY <1>4, <2>2, NotShown DEF Statement, Publishing
<1> QED
  <2>1. CASE \E c \in Calls : Handle(c)
    BY <2>1, <1>2, <1>3, <1>4, ContentAsk, ContentList, ContentItem, ContentWeek, ContentLesson, ContentOption,
       ContentWrites DEF Handle
  <2> QED BY <1>1, <2>1, ContentPush, ContentEdit DEF Next

\* Whatever editors do between the statements of a read: no draft is shown,
\* no item before it is due, no answer is taken for a course that was never
\* published, and no option stands under a question that it was never one of.
THEOREM NoDraftIsShown == Spec => []OnlyPublished
<1>1. Init => CallsInv /\ ContentInv
  BY CallsInit, ContentInit
<1>2. CallsInv /\ ContentInv /\ [Next]_vars => (CallsInv /\ ContentInv)'
  BY CallsStep, ContentStep
<1>3. CallsInv /\ ContentInv => OnlyPublished
  BY ContentImplies
<1> QED BY <1>1, <1>2, <1>3, PTL DEF Spec

-----------------------------------------------------------------------------
(* What is read. While the content stays what it was, what a call found is    *)
(* what its queries find in it, and its answer is made of that.               *)

EditionOf(d, a, e) == e \in d.editions /\ e.id = Int32(a.edition)
HymnalOf(d, a, h)  == h \in d.hymnals /\ h.code = a.code
WeekOf(d, a, w)    == w \in Asked(d, a) /\ \A v \in Asked(d, a) : v.start <= w.start
IsParallel(d, a, e, g) == g \in d.editions /\ g.book = e.book /\ g.lang = a.parallel

\* x is a call, d the one content there was since its request came.
Finds(x, d) ==
  LET a == x.ask
      f == x.found
  IN  /\ x.pc \in {"list", "item", "edition", "hymnal", "week", "lesson", "option"} => f = <<>>
      /\ x.pc = "links" => f = <<f[1]>> /\ f[1] \in Asked(d, a)
      /\ x.pc = "paragraphs" => f = <<f[1]>> /\ EditionOf(d, a, f[1])
      /\ x.pc \in {"parallel edition", "parallel paragraphs"} =>
           /\ EditionOf(d, a, f[1]) /\ f[2] = ListEgwChapterParagraphs(d, f[1].id, a.n)
           /\ a.parallel \notin {NoLang, f[1].lang}
      /\ x.pc = "parallel edition" => f = <<f[1], f[2]>>
      /\ x.pc = "parallel paragraphs" => IsParallel(d, a, f[1], f[3])
      /\ x.pc \in {"hymns", "hymn"} => f = <<f[1]>> /\ HymnalOf(d, a, f[1])
      /\ x.pc = "stanzas" => f[2] \in Asked(d, a)
      /\ x.pc = "days" => WeekOf(d, a, f[1])
      /\ x.pc = "questions" => f = <<f[1]>> /\ f[1] \in Asked(d, a)
      /\ x.pc = "options" => f[1] \in Asked(d, a) /\ f[2] = ListLessonQuestions(d, f[1].id)
      /\ x.pc \in {"update", "lock", "insert", "commit"} => IsContent(d, a, f[1])

\* Nobody edited since the request came, and it says numbers that an int32 holds.
Still(x, d) == x.seen = {d} /\ NumbersHold(x.ask)
IsExact(x, d) == Finds(x, d) /\ (x.pc = "answered" => IsAnswer(d, x.ask, x.answer))
Exact(x) == x.pc # "idle" => \A d \in Databases : Still(x, d) => IsExact(x, d)
ExactInv == \A c \in Calls : Exact(call[c])

LEMMA Int32Same == ASSUME NEW n, IsInt32(n) PROVE Int32(n) = n
<1>1. IntSize \in Nat /\ IntSize > 0 /\ IntSize % 2 = 0
  BY LibraryAssumption DEF LibraryAssumption
<1>2. PICK h \in Nat : h = IntSize \div 2 /\ IntSize = 2 * h
  BY <1>1
<1>3. n \in Int /\ n + h \in 0 .. IntSize - 1
  BY <1>1, <1>2 DEF IsInt32
<1>4. \A x \in 0 .. IntSize - 1 : x % IntSize = x
  BY <1>1
<1> QED BY <1>2, <1>3, <1>4 DEF Int32

\* A query that finds nothing, though no row is none, has nothing to find.
LEMMA OneNone == ASSUME NEW S, NoRow \notin S, One(S) = NoRow PROVE S = {}
BY DEF One

LEMMA SomeRows ==
  ASSUME NEW S, NEW column, Numbers(S, column), NEW T \in SUBSET S
  PROVE  Numbers(T, column)
BY FS_Subset DEF Numbers

\* Rows of which no two are level are in their order strictly.
LEMMA StrictlyInOrder ==
  ASSUME NEW S, NEW column, Numbers(S, column), \A x, y \in S : x[column] = y[column] => x = y
  PROVE  LET s == Sorted(S, column)
         IN  /\ s \in [1 .. Cardinality(S) -> S] /\ Range(s) = S /\ Cardinality(S) \in Nat
             /\ \A i, j \in 1 .. Cardinality(S) : i < j => s[i][column] < s[j][column]
<1>1. PICK s, n : s = Sorted(S, column) /\ n = Cardinality(S)
  OBVIOUS
<1>2. s \in [1 .. n -> S] /\ Range(s) = S /\ \A i, j \in DOMAIN s : i < j => s[i][column] <= s[j][column]
  BY <1>1, SortedInOrder DEF InOrder
<1>3. n \in Nat /\ \A i, j \in DOMAIN s : s[i] = s[j] => i = j
  BY <1>1, <1>2, EachOnce DEF Numbers
<1>4. ASSUME NEW i \in 1 .. n, NEW j \in 1 .. n, i < j PROVE s[i][column] < s[j][column]
  <2>1. s[i] \in S /\ s[j] \in S /\ s[i] # s[j]
    BY <1>2, <1>3, <1>4
  <2>2. s[i][column] \in Int /\ s[j][column] \in Int /\ s[i][column] # s[j][column]
    BY <2>1 DEF Numbers
  <2> QED BY <1>2, <1>4, <2>2
<1> QED BY <1>1, <1>2, <1>3, <1>4
\* A set of numbers has a least one, so a bounded one has a greatest.
LEMMA LeastNat ==
  ASSUME NEW T \in SUBSET Nat, T # {}
  PROVE  \E m \in T : \A k \in T : m <= k
<1>1. IsWellFoundedOn(OpToRel(<, Nat), Nat)
  BY NatLessThanWellFounded
<1>2. PICK m \in T : \A k \in T : ~ (<<k, m>> \in OpToRel(<, Nat))
  BY <1>1, WFMin
<1>3. ASSUME NEW k \in T PROVE m <= k
  <2>1. m \in Nat /\ k \in Nat
    OBVIOUS
  <2>2. ~(k < m)
    BY <1>2, <2>1 DEF OpToRel
  <2> QED BY <2>1, <2>2
<1> QED BY <1>3

LEMMA MaxIs ==
  ASSUME NEW n \in Nat, NEW S \in SUBSET (0 .. n), S # {}
  PROVE  Max(S) \in S /\ \A j \in S : j <= Max(S)
<1> DEFINE T == {n - j : j \in S}
<1>0. \A j \in S : j \in 0 .. n /\ n - j \in Nat
  OBVIOUS
<1>1. T \in SUBSET Nat /\ T # {}
  BY <1>0
<1>2. PICK m \in T : \A k \in T : m <= k
  BY <1>1, LeastNat
<1>3. PICK x \in S : m = n - x
  BY <1>2
<1>4. \A j \in S : n - j \in T
  OBVIOUS
<1>5. \A j \in S : j <= x
  <2> SUFFICES ASSUME NEW j \in S PROVE j <= x
    OBVIOUS
  <2>1. n - x <= n - j
    BY <1>2, <1>3, <1>4
  <2>2. j \in Nat /\ x \in Nat
    OBVIOUS
  <2> QED BY <2>1, <2>2
<1> QED BY <1>5 DEF Max

\* The text of a paragraph with the reference, if there is one.
LEMMA ByRefIs ==
  ASSUME NEW S, NEW qs, IsFiniteSet(S), qs \in [1 .. Cardinality(S) -> S], Range(qs) = S, NEW p
  PROVE  IF \E q \in S : q.ref = p.ref THEN \E q \in S : q.ref = p.ref /\ ByRef(qs, p) = q.text
         ELSE ByRef(qs, p) = NoRow
<1> DEFINE same == {i \in DOMAIN qs : qs[i].ref = p.ref}
<1>1. PICK n \in Nat : n = Cardinality(S)
  BY FS_CardinalityType
<1>2. \A i : i \in same <=> i \in 1 .. n /\ qs[i].ref = p.ref
  BY <1>1
<1>3. ByRef(qs, p) = IF same = {} THEN NoRow ELSE qs[Max(same)].text
  BY DEF ByRef
<1> HIDE DEF same
<1>4. \A i \in 1 .. n : qs[i] \in S
  BY <1>1
<1>5. CASE \E q \in S : q.ref = p.ref
  <2>1. PICK i \in 1 .. n : qs[i].ref = p.ref
    BY <1>1, <1>5 DEF Range
  <2>2. same # {} /\ same \in SUBSET (0 .. n)
    <3>1. \A j \in same : j \in 0 .. n
      BY <1>1, <1>2
    <3> QED BY <1>2, <2>1, <3>1
  <2>3. Max(same) \in same
    BY <1>1, <2>2, MaxIs
  <2> QED BY <1>2, <1>3, <1>4, <1>5, <2>2, <2>3
<1>6. CASE ~\E q \in S : q.ref = p.ref
  <2>1. same = {}
    BY <1>2, <1>4, <1>6
  <2> QED BY <1>3, <1>6, <2>1
<1> QED BY <1>5, <1>6

\* A chapter beside the same chapter of the edition in the other language, if
\* there is one, by reference.
LEMMA ChapterRead ==
  ASSUME NEW d \in Databases, NEW a, a.op = "egwChapter", NEW e, EditionOf(d, a, e), NumbersHold(a),
         NEW ps, ps = ListEgwChapterParagraphs(d, e.id, a.n), NEW parallel,
         \/ /\ parallel = NoText(ps)
            /\ a.parallel \in {NoLang, e.lang} \/ \A g : ~IsParallel(d, a, e, g)
         \/ /\ a.parallel \notin {NoLang, e.lang}
            /\ \E g : /\ IsParallel(d, a, e, g)
                      /\ parallel = [i \in DOMAIN ps |-> ByRef(ListEgwChapterParagraphs(d, g.id, a.n), ps[i])]
  PROVE  ChapterIs(d, a, Beside(ps, parallel))
<1> DEFINE of(x) == {p \in d.paragraphs : p.edition = x /\ p.chapter = a.n}
           own == of(a.edition)
           other == {g \in d.editions : g.lang = a.parallel
                       /\ \E o \in d.editions : o.id = a.edition /\ o.book = g.book /\ o.lang # g.lang}
           beside(r) == {p \in d.paragraphs : p.ref = r /\ p.chapter = a.n /\ \E g \in other : g.id = p.edition}
           lines == Beside(ps, parallel)
<1>1. Int32(a.edition) = a.edition /\ Int32(a.n) = a.n
  BY Int32Same DEF NumbersHold
<1>2. \A x : IsFiniteSet(of(x)) /\ Numbers(of(x), "ord")
  <2>1. Numbers(d.paragraphs, "ord")
    BY ContentAssumption DEF ContentAssumption
  <2> QED BY <2>1, FS_Subset DEF Numbers
<1>3. \A x : ListEgwChapterParagraphs(d, x, a.n) = Sorted(of(x), "ord")
  BY <1>1 DEF ListEgwChapterParagraphs
<1>4. \A x : LET qs == ListEgwChapterParagraphs(d, x, a.n)
             IN  qs \in [1 .. Cardinality(of(x)) -> of(x)] /\ InOrder(qs, of(x), "ord")
  <2> HIDE DEF of
  <2> QED BY <1>2, <1>3, SortedInOrder
<1>5. ps \in [1 .. Cardinality(own) -> own] /\ InOrder(ps, own, "ord")
  <2>1. e.id = a.edition
    BY <1>1 DEF EditionOf
  <2> HIDE DEF of
  <2> QED BY <1>4, <2>1
<1>6. DOMAIN lines = DOMAIN ps
      /\ \A i \in DOMAIN ps : lines[i].ref = ps[i].ref /\ lines[i].text = ps[i].text /\ lines[i].parallel = parallel[i]
  BY DEF Beside
<1>7. \A g : g \in other <=> IsParallel(d, a, e, g) /\ a.parallel # e.lang
  <2>1. \A o \in d.editions : o.id = a.edition => o = e
    BY <1>1, ContentAssumption DEF ContentAssumption, Key, EditionOf
  <2> QED BY <1>1, <2>1 DEF IsParallel, EditionOf
<1>8. \A g, h : IsParallel(d, a, e, g) /\ IsParallel(d, a, e, h) => g = h
  BY ContentAssumption DEF ContentAssumption, IsParallel
<1>9. \A g : IsParallel(d, a, e, g) => a.parallel # NoLang
  BY ContentAssumption DEF ContentAssumption, IsParallel
<1>10. ASSUME NEW i \in DOMAIN ps
       PROVE  IF lines[i].parallel = NoRow THEN beside(ps[i].ref) = {}
              ELSE \E p \in beside(ps[i].ref) : p.text = lines[i].parallel
  <2>1. CASE parallel = NoText(ps) /\ (a.parallel \in {NoLang, e.lang} \/ \A g : ~IsParallel(d, a, e, g))
    <3>1. other = {}
      BY <1>7, <1>9, <2>1
    <3>2. beside(ps[i].ref) = {}
      BY <3>1
    <3>3. lines[i].parallel = NoRow
      BY <1>6, <2>1 DEF NoText
    <3> QED BY <3>2, <3>3
  <2>2. ASSUME NEW g, IsParallel(d, a, e, g), a.parallel # e.lang,
               parallel = [k \in DOMAIN ps |-> ByRef(ListEgwChapterParagraphs(d, g.id, a.n), ps[k])]
        PROVE  IF lines[i].parallel = NoRow THEN beside(ps[i].ref) = {}
               ELSE \E p \in beside(ps[i].ref) : p.text = lines[i].parallel
    <3>1. PICK qs, S : qs = ListEgwChapterParagraphs(d, g.id, a.n) /\ S = of(g.id)
      OBVIOUS
    <3>2. IsFiniteSet(S) /\ qs \in [1 .. Cardinality(S) -> S] /\ Range(qs) = S
      <4> HIDE DEF of
      <4> QED BY <1>2, <1>4, <3>1 DEF InOrder
    <3>3. PICK p : p = ps[i]
      OBVIOUS
    <3>4. lines[i].parallel = ByRef(qs, p)
      BY <1>6, <2>2, <3>1, <3>3
    <3>5. IF \E q \in S : q.ref = p.ref THEN \E q \in S : q.ref = p.ref /\ ByRef(qs, p) = q.text
          ELSE ByRef(qs, p) = NoRow
      BY <3>2, ByRefIs
    <3>6. g \in other /\ \A x \in other : x = g
      BY <1>7, <1>8, <2>2
    <3>7. \A q : q \in beside(p.ref) <=> q \in S /\ q.ref = p.ref
      <4> HIDE DEF other
      <4> QED BY <3>1, <3>6
    <3>8. \A q \in S : q.text # NoRow
      BY <3>1, ContentAssumption DEF ContentAssumption
    <3> HIDE DEF beside, lines
    <3> QED BY <3>3, <3>4, <3>5, <3>7, <3>8
  <2> QED BY <2>1, <2>2
<1>11. \E qs \in [1 .. Cardinality(own) -> own] :
        /\ InOrder(qs, own, "ord") /\ DOMAIN lines = DOMAIN qs
        /\ \A i \in DOMAIN qs :
             /\ lines[i].ref = qs[i].ref /\ lines[i].text = qs[i].text
             /\ IF lines[i].parallel = NoRow THEN beside(qs[i].ref) = {}
                ELSE \E p \in beside(qs[i].ref) : p.text = lines[i].parallel
  <2> HIDE DEF own, beside, lines
  <2> QED BY <1>5, <1>6, <1>10
<1>12. Asked(d, a) = own
  BY DEF Asked
<1>13. LineByLine(lines, own, "ord", LAMBDA line, p :
        /\ line.ref = p.ref /\ line.text = p.text
        /\ IF line.parallel = NoRow THEN beside(p.ref) = {} ELSE \E q \in beside(p.ref) : q.text = line.parallel)
  <2> HIDE DEF own, beside, lines
  <2> QED BY <1>11 DEF LineByLine
<1> QED BY <1>12, <1>13 DEF ChapterIs

\* A chapter that is not found is not there: of no edition, or without a line.
LEMMA NoChapter ==
  ASSUME NEW d \in Databases, NEW a, a.op = "egwChapter", NumbersHold(a),
         \/ GetEgwEdition(d, a.edition) = NoRow
         \/ \E e : EditionOf(d, a, e) /\ ListEgwChapterParagraphs(d, e.id, a.n) = <<>>
  PROVE  Asked(d, a) = {}
<1>1. Int32(a.edition) = a.edition /\ Int32(a.n) = a.n
  BY Int32Same DEF NumbersHold
<1> DEFINE own == {p \in d.paragraphs : p.edition = a.edition /\ p.chapter = a.n}
<1>2. Asked(d, a) = own
  BY DEF Asked
<1>3. CASE GetEgwEdition(d, a.edition) = NoRow
  <2>1. PICK S : S = {e \in d.editions : e.id = Int32(a.edition)}
    OBVIOUS
  <2>2. One(S) = NoRow /\ NoRow \notin S
    BY <1>3, <2>1, ContentAssumption DEF GetEgwEdition, ContentAssumption
  <2>3. S = {}
    BY <2>2, OneNone
  <2>4. \A p \in d.paragraphs : \E e \in d.editions : e.id = p.edition
    BY ContentAssumption DEF ContentAssumption
  <2> QED BY <1>1, <1>2, <2>1, <2>3, <2>4
<1>4. ASSUME NEW e, EditionOf(d, a, e), ListEgwChapterParagraphs(d, e.id, a.n) = <<>> PROVE Asked(d, a) = {}
  <2>1. Numbers(own, "ord")
    <3>1. Numbers(d.paragraphs, "ord")
      BY ContentAssumption DEF ContentAssumption
    <3> QED BY <3>1, SomeRows
  <2>2. Sorted(own, "ord") = <<>>
    BY <1>1, <1>4 DEF ListEgwChapterParagraphs, EditionOf
  <2> HIDE DEF own
  <2>3. Range(<<>>) = own
    BY <2>1, <2>2, SortedInOrder DEF InOrder
  <2> QED BY <1>2, <2>3 DEF Range
<1> QED BY <1>3, <1>4

\* Lists.
LEMMA BooksRead ==
  ASSUME NEW d \in Databases, NEW a, a.op = "egwBooks"
  PROVE  BooksAre(d, a, ListEgwBooks(d, a.lang))
<1> DEFINE S == InLang(d.editions, a.lang)
           chapters(i) == {p.chapter : p \in {q \in d.paragraphs : q.edition = i}}
<1>1. Numbers(S, "title") /\ Asked(d, a) = S
  <2>1. Numbers(d.editions, "title")
    BY ContentAssumption DEF ContentAssumption
  <2>2. S \in SUBSET d.editions
    BY DEF InLang
  <2>3. Asked(d, a) = S
    BY DEF Asked, InLang
  <2> HIDE DEF S
  <2> QED BY <2>1, <2>2, <2>3, SomeRows
<1>2. PICK es, r : es = Sorted(S, "title") /\ r = ListEgwBooks(d, a.lang)
  OBVIOUS
<1>3. r = [i \in DOMAIN es |-> [id |-> es[i].id, book |-> es[i].book, chapters |-> Cardinality(chapters(es[i].id))]]
  BY <1>2 DEF ListEgwBooks, ChaptersOf
<1> HIDE DEF S
<1>4. es \in [1 .. Cardinality(S) -> S] /\ InOrder(es, S, "title")
  BY <1>1, <1>2, SortedInOrder
<1>5. DOMAIN r = DOMAIN es
      /\ \A i \in DOMAIN es : r[i].id = es[i].id /\ r[i].book = es[i].book /\ r[i].chapters = Cardinality(chapters(es[i].id))
  BY <1>3
<1>6. LineByLine(r, S, "title", LAMBDA b, e :
        b.id = e.id /\ b.book = e.book /\ b.chapters = Cardinality(chapters(e.id)))
  <2> HIDE DEF chapters
  <2> QED BY <1>4, <1>5 DEF LineByLine
<1> QED BY <1>1, <1>2, <1>6 DEF BooksAre

LEMMA CoursesRead ==
  ASSUME NEW d \in Databases, NEW a, a.op = "courses"
  PROVE  CoursesAre(d, a, ListCourses(d, a.lang))
<1> DEFINE S == Published(InLang(d.courses, a.lang))
           lessons(i) == {s \in d.lessons : s.course = i}
<1>1. Numbers(S, "title") /\ Asked(d, a) = S
  <2>1. Numbers(d.courses, "title")
    BY ContentAssumption DEF ContentAssumption
  <2>2. S \in SUBSET d.courses
    BY DEF InLang, Published
  <2>3. Asked(d, a) = S
    BY DEF Asked, InLang, Published
  <2> HIDE DEF S
  <2> QED BY <2>1, <2>2, <2>3, SomeRows
<1>2. PICK cs, r : cs = Sorted(S, "title") /\ r = ListCourses(d, a.lang)
  OBVIOUS
<1>3. r = [i \in DOMAIN cs |-> [id |-> cs[i].id, lessons |-> Cardinality(lessons(cs[i].id))]]
  BY <1>2 DEF ListCourses
<1> HIDE DEF S
<1>4. cs \in [1 .. Cardinality(S) -> S] /\ InOrder(cs, S, "title")
  BY <1>1, <1>2, SortedInOrder
<1>5. DOMAIN r = DOMAIN cs
      /\ \A i \in DOMAIN cs : r[i].id = cs[i].id /\ r[i].lessons = Cardinality(lessons(cs[i].id))
  BY <1>3
<1>6. LineByLine(r, S, "title", LAMBDA x, c : x.id = c.id /\ x.lessons = Cardinality(lessons(c.id)))
  <2> HIDE DEF lessons
  <2> QED BY <1>4, <1>5 DEF LineByLine
<1> QED BY <1>1, <1>2, <1>6 DEF CoursesAre

LEMMA BeliefsRead ==
  ASSUME NEW d \in Databases, NEW a, a.op = "beliefs"
  PROVE  InOrder(ListBeliefs(d, a.lang), Asked(d, a), "n")
<1>1. PICK S : S = Asked(d, a)
  OBVIOUS
<1>2. ListBeliefs(d, a.lang) = Sorted(S, "n") /\ S \in SUBSET d.beliefs
  <2>1. S = Published(InLang(d.beliefs, a.lang))
    BY <1>1 DEF Asked, Published, InLang
  <2>2. S \in SUBSET d.beliefs
    BY <2>1 DEF Published, InLang
  <2> QED BY <2>1, <2>2 DEF ListBeliefs
<1>3. Numbers(S, "n")
  <2>1. Numbers(d.beliefs, "n")
    BY ContentAssumption DEF ContentAssumption
  <2> QED BY <1>2, <2>1, SomeRows
<1> QED BY <1>1, <1>2, <1>3, SortedInOrder

LEMMA BeliefRead ==
  ASSUME NEW d \in Databases, NEW a, a.op = "belief", NEW b, b = GetBelief(d, a.n, a.lang)
  PROVE  IF b = NoRow THEN Asked(d, a) = {} ELSE b \in Asked(d, a)
<1>1. PICK S : S = {x \in Published(InLang(d.beliefs, a.lang)) : x.n = a.n}
  OBVIOUS
<1>2. S = Asked(d, a)
  BY <1>1 DEF Asked, Published, InLang
<1>3. NoRow \notin S
  BY <1>1, ContentAssumption DEF ContentAssumption, Published, InLang
<1>4. b = One(S)
  BY <1>1 DEF GetBelief
<1> QED BY <1>2, <1>3, <1>4, OneOf, OneNone

LEMMA HymnalsRead ==
  ASSUME NEW d \in Databases, NEW a, a.op = "hymnals"
  PROVE  HymnalsAre(d, a, ListHymnals(d))
<1> DEFINE before(g, h) == g.lang < h.lang \/ (g.lang = h.lang /\ g.code < h.code)
<1>1. PICK S, n : S = d.hymnals /\ n = Cardinality(S)
  OBVIOUS
<1>2. /\ IsFiniteSet(S) /\ \A g \in S : g.lang \in Int /\ g.code \in Int
      /\ \A g, h \in S : g.code = h.code => g = h
  BY <1>1, ContentAssumption DEF ContentAssumption, Numbers, Key
<1> DEFINE lt == {p \in S \X S : before(p[1], p[2])}
<1>3. \A u, v \in S : <<u, v>> \in lt <=> before(u, v)
  OBVIOUS
<1>4. lt \in SUBSET (S \X S)
  OBVIOUS
<1> HIDE DEF lt
<1>5. \A u, v \in S : <<u, v>> \in lt => <<v, u>> \notin lt
  BY <1>2, <1>3
<1>6. \A u, v, w \in S : <<u, w>> \in lt => <<u, v>> \in lt \/ <<v, w>> \in lt
  BY <1>2, <1>3
<1>7. \E t \in [1 .. n -> S] : Range(t) = S /\ \A i, k \in DOMAIN t : i < k => <<t[k], t[i]>> \notin lt
  BY <1>1, <1>2, <1>4, <1>5, <1>6, LevelOrderExists
<1>8. \E t \in [1 .. n -> S] : Range(t) = S /\ \A i, j \in DOMAIN t : i < j => ~before(t[j], t[i])
  <2> HIDE DEF before
  <2> QED BY <1>3, <1>7
<1>9. PICK s : s = ListHymnals(d)
  OBVIOUS
<1>10. s = CHOOSE t \in [1 .. n -> S] : Range(t) = S /\ \A i, j \in DOMAIN t : i < j => ~before(t[j], t[i])
  BY <1>1, <1>9 DEF ListHymnals, OrderBy
<1>11. s \in [1 .. n -> S] /\ Range(s) = S /\ \A i, j \in DOMAIN s : i < j => ~before(s[j], s[i])
  <2> HIDE DEF before
  <2> QED BY <1>8, <1>10
<1>12. n \in Nat /\ Len(s) = n /\ \A i, j \in DOMAIN s : s[i] = s[j] => i = j
  BY <1>1, <1>2, <1>11, EachOnce
<1>13. \A i, j \in DOMAIN s : i < j => before(s[i], s[j])
  <2> SUFFICES ASSUME NEW i \in DOMAIN s, NEW j \in DOMAIN s, i < j PROVE before(s[i], s[j])
    OBVIOUS
  <2>1. s[i] \in S /\ s[j] \in S /\ s[i] # s[j] /\ ~before(s[j], s[i])
    BY <1>11, <1>12
  <2> QED BY <1>2, <2>1
<1>14. Asked(d, a) = S
  BY <1>1 DEF Asked
<1> QED BY <1>1, <1>9, <1>11, <1>12, <1>13, <1>14 DEF HymnalsAre

\* The first of the hymns that fit, as many as a list holds.
LEMMA LimitedIs ==
  ASSUME NEW S, NEW hs \in Seq(S)
  PROVE  \E m \in 0 .. Len(hs) :
           /\ DOMAIN Limited(hs) = 1 .. m /\ Len(Limited(hs)) = m /\ m <= HymnLimit /\ (m < Len(hs) => m = HymnLimit)
           /\ \A i \in 1 .. m : Limited(hs)[i] = hs[i]
<1>1. HymnLimit \in Nat /\ Len(hs) \in Nat
  BY LibraryAssumption DEF LibraryAssumption
<1>2. PICK m : m = IF Len(hs) < HymnLimit THEN Len(hs) ELSE HymnLimit
  OBVIOUS
<1>3. m \in 0 .. Len(hs) /\ m <= HymnLimit /\ (m < Len(hs) => m = HymnLimit)
  BY <1>1, <1>2
<1>4. PICK t : t = SubSeq(hs, 1, m)
  OBVIOUS
<1>5. t \in Seq(S) /\ Len(t) = m /\ \A i \in 1 .. m : t[i] = hs[i]
  BY <1>1, <1>3, <1>4
<1>6. Limited(hs) = t
  BY <1>2, <1>4 DEF Limited
<1>7. DOMAIN t = 1 .. m
  BY <1>5
<1> QED BY <1>3, <1>5, <1>6, <1>7

LEMMA HymnsRead ==
  ASSUME NEW d \in Databases, NEW a, a.op = "hymns", NumbersHold(a), NEW g, HymnalOf(d, a, g)
  PROVE  HymnsAre(d, a, ListHymns(d, g.id, a.q))
<1> DEFINE fit == {h \in d.hymns : /\ \E x \in Asked(d, a) : x.id = h.hymnal
                                   /\ a.q.t = "number" => h.number = a.q.n
                                   /\ a.q.t = "title" => h.title \in a.q.like}
<1>1. Asked(d, a) = {g}
  BY ContentAssumption DEF ContentAssumption, Key, HymnalOf, Asked
<1>2. \A h : h \in fit <=> h \in d.hymns /\ h.hymnal = g.id /\ Matches(a.q, h)
  <2>1. a.q.t = "number" => Int32(a.q.n) = a.q.n
    BY Int32Same DEF NumbersHold
  <2>2. \A h : (\E x \in Asked(d, a) : x.id = h.hymnal) <=> h.hymnal = g.id
    BY <1>1
  <2>3. \A h : Matches(a.q, h) <=> ((a.q.t = "number" => h.number = a.q.n) /\ (a.q.t = "title" => h.title \in a.q.like))
    BY <2>1 DEF Matches
  <2> QED BY <2>2, <2>3
<1>3. PICK S : S = {h \in d.hymns : h.hymnal = g.id /\ Matches(a.q, h)}
  OBVIOUS
<1>4. Numbers(S, "number") /\ \A x, y \in S : x.number = y.number => x = y
  <2>1. Numbers(d.hymns, "number") /\ \A h, k \in d.hymns : h.hymnal = k.hymnal /\ h.number = k.number => h = k
    BY ContentAssumption DEF ContentAssumption
  <2> QED BY <1>3, <2>1, SomeRows
<1>5. PICK hs, n : hs = Sorted(S, "number") /\ n = Cardinality(S)
  OBVIOUS
<1>6. /\ hs \in [1 .. n -> S] /\ Range(hs) = S /\ n \in Nat
      /\ \A i, j \in 1 .. n : i < j => hs[i].number < hs[j].number
  BY <1>4, <1>5, StrictlyInOrder
<1>0. hs \in Seq(S) /\ Len(hs) = n
  BY <1>6
<1>7. PICK t : t = Limited(hs)
  OBVIOUS
<1>8. PICK m \in 0 .. n :
        /\ DOMAIN t = 1 .. m /\ Len(t) = m /\ m <= HymnLimit /\ (m < n => m = HymnLimit)
        /\ \A i \in 1 .. m : t[i] = hs[i]
  BY <1>0, <1>7, LimitedIs
<1>9. \A i, j \in DOMAIN t : i < j => t[i].number < t[j].number
  BY <1>6, <1>8
<1>10. ASSUME NEW h \in S \ Range(t) PROVE Len(t) = HymnLimit /\ \A i \in DOMAIN t : t[i].number < h.number
  <2>1. PICK k \in 1 .. n : hs[k] = h
    BY <1>6 DEF Range
  <2>2. ~(k <= m)
    <3> SUFFICES ASSUME k <= m PROVE FALSE
      OBVIOUS
    <3>1. k \in 1 .. m
      BY <1>6, <1>8
    <3>2. t[k] = h /\ k \in DOMAIN t
      BY <1>8, <2>1, <3>1
    <3> QED BY <3>2 DEF Range
  <2>3. m < k /\ m = HymnLimit
    BY <1>6, <1>7, <1>8, <2>2
  <2> QED BY <1>6, <1>8, <2>1, <2>3
<1>11. Range(t) \subseteq S
  BY <1>6, <1>8 DEF Range
<1>12. fit = S
  BY <1>2, <1>3
<1>13. ListHymns(d, g.id, a.q) = t
  BY <1>3, <1>5, <1>7 DEF ListHymns
<1> HIDE DEF fit
<1>14. /\ Asked(d, a) # {} /\ Range(t) \subseteq fit /\ Len(t) <= HymnLimit
       /\ \A i, j \in DOMAIN t : i < j => t[i].number < t[j].number
       /\ \A h \in fit \ Range(t) : Len(t) = HymnLimit /\ \A i \in DOMAIN t : t[i].number < h.number
  BY <1>1, <1>8, <1>9, <1>10, <1>11, <1>12
<1> USE DEF fit
<1>15. HymnsAre(d, a, t)
  BY <1>14 DEF HymnsAre
<1> QED BY <1>13, <1>15

LEMMA NoHymnal ==
  ASSUME NEW d \in Databases, NEW a, a.op \in {"hymns", "hymn"}, GetHymnal(d, a.code) = NoRow
  PROVE  Asked(d, a) = {}
<1>1. PICK S : S = {h \in d.hymnals : h.code = a.code}
  OBVIOUS
<1>2. One(S) = NoRow /\ NoRow \notin S
  BY <1>1, ContentAssumption DEF GetHymnal, ContentAssumption
<1>3. \A h \in d.hymnals : h.code # a.code
  BY <1>1, <1>2, OneNone
<1>4. CASE a.op = "hymns"
  BY <1>3, <1>4 DEF Asked
<1>5. CASE a.op = "hymn"
  BY <1>3, <1>5 DEF Asked
<1> QED BY <1>4, <1>5

LEMMA HymnFound ==
  ASSUME NEW d \in Databases, NEW a, a.op = "hymn", NumbersHold(a), NEW g, HymnalOf(d, a, g),
         NEW y, y = GetHymn(d, g.id, a.number)
  PROVE  IF y = NoRow THEN Asked(d, a) = {} ELSE y \in Asked(d, a)
<1>1. PICK S : S = {h \in d.hymns : h.hymnal = g.id /\ h.number = Int32(a.number)}
  OBVIOUS
<1>2. Int32(a.number) = a.number
  BY Int32Same DEF NumbersHold
<1>3. \A x \in d.hymnals : x.code = a.code => x = g
  BY ContentAssumption DEF ContentAssumption, Key, HymnalOf
<1>4. S = Asked(d, a)
  BY <1>1, <1>2, <1>3 DEF Asked, HymnalOf
<1>5. NoRow \notin S
  BY <1>1, ContentAssumption DEF ContentAssumption
<1>6. y = One(S)
  BY <1>1 DEF GetHymn
<1> QED BY <1>4, <1>5, <1>6, OneOf, OneNone

LEMMA HymnRead ==
  ASSUME NEW d \in Databases, NEW a, NEW body, body.hymn \in Asked(d, a),
         body.stanzas = ListHymnStanzas(d, body.hymn.id)
  PROVE  HymnIs(d, a, body)
<1> DEFINE S == {s \in d.stanzas : s.hymn = body.hymn.id}
<1>1. Numbers(S, "idx")
  <2>1. Numbers(d.stanzas, "idx")
    BY ContentAssumption DEF ContentAssumption
  <2> QED BY <2>1, SomeRows
<1>2. body.stanzas = Sorted(S, "idx")
  BY DEF ListHymnStanzas
<1>3. InOrder(body.stanzas, S, "idx")
  <2> HIDE DEF S
  <2> QED BY <1>1, <1>2, SortedInOrder
<1> QED BY <1>3 DEF HymnIs

LEMMA ItemFound ==
  ASSUME NEW d \in Databases, NEW a, a.op = "feedItem", NEW i, i = GetFeedItem(d, a.id, a.now)
  PROVE  IF i = NoRow THEN Asked(d, a) = {} ELSE i \in Asked(d, a)
<1>1. PICK S : S = {x \in Published(d.items) : x.id = a.id /\ x.at <= a.now}
  OBVIOUS
<1>2. S = Asked(d, a)
  BY <1>1 DEF Asked, Published
<1>3. NoRow \notin S
  BY <1>1, ContentAssumption DEF ContentAssumption, Published
<1>4. i = One(S)
  BY <1>1 DEF GetFeedItem
<1> QED BY <1>2, <1>3, <1>4, OneOf, OneNone

LEMMA ItemRead ==
  ASSUME NEW d \in Databases, NEW a, NEW body, body.item \in Asked(d, a), body.links = ListFeedLinks(d, a.id)
  PROVE  ItemIs(d, a, body)
<1> DEFINE S == {k \in d.links : k.item = a.id}
<1>1. Numbers(S, "ord")
  <2>1. Numbers(d.links, "ord")
    BY ContentAssumption DEF ContentAssumption
  <2> QED BY <2>1, SomeRows
<1>2. body.links = Sorted(S, "ord")
  BY DEF ListFeedLinks
<1>3. InOrder(body.links, S, "ord")
  <2> HIDE DEF S
  <2> QED BY <1>1, <1>2, SortedInOrder
<1> QED BY <1>3 DEF ItemIs

\* Of weeks that hold the same day one starts last.
LEMMA LatestWeek ==
  ASSUME NEW S, S # {}, NEW day \in Int, \A w \in S : w.start \in Int /\ w.start <= day
  PROVE  \E w \in S : \A v \in S : v.start <= w.start
<1> DEFINE T == {day - w.start : w \in S}
<1>1. \A w \in S : day - w.start \in Nat /\ day - w.start \in T
  OBVIOUS
<1>2. T \in SUBSET Nat /\ T # {}
  BY <1>1
<1>3. PICK m \in T : \A k \in T : m <= k
  BY <1>2, LeastNat
<1>4. PICK w \in S : m = day - w.start
  BY <1>3
<1>5. ASSUME NEW v \in S PROVE v.start <= w.start
  <2>1. day - w.start <= day - v.start
    BY <1>1, <1>3, <1>4
  <2> QED BY <2>1
<1> QED BY <1>5

\* The weeks of the day in Nairobi.
LEMMA WeekFound ==
  ASSUME NEW d \in Databases, NEW w \in Workloads, NEW a \in w.asks, a.op = "week",
         NEW x, x = GetSabbathSchoolLesson(d, a.lang, Today(a))
  PROVE  IF x = NoRow THEN Asked(d, a) = {} ELSE WeekOf(d, a, x)
<1>1. a.now \in Int /\ a.date \in Int /\ \A v \in d.weeks : v.start \in Int
  BY ContentAssumption DEF ContentAssumption, Numbers
<1>2. PICK day : day = Today(a)
  OBVIOUS
<1>3. \A n \in Int : n \div 24 \in Int /\ 24 * (n \div 24) <= n /\ n < 24 * (n \div 24) + 24
  OBVIOUS
<1>4. day \in Int /\ NairobiDay(a, day)
  BY <1>1, <1>2, <1>3 DEF Today, HoursAhead, NairobiDay
<1>5. \A k \in Int : NairobiDay(a, k) => k = day
  <2> SUFFICES ASSUME NEW k \in Int, NairobiDay(a, k) PROVE k = day
    OBVIOUS
  <2> QED BY <1>1, <1>4 DEF NairobiDay
<1>6. PICK S : S = {v \in Published(InLang(d.weeks, a.lang)) : v.start <= day /\ day < v.start + 7}
  OBVIOUS
<1>7. \A v \in d.weeks : (v.start <= day /\ day < v.start + 7) <=> \E k \in v.start .. v.start + 6 : NairobiDay(a, k)
  <2> SUFFICES ASSUME NEW v \in d.weeks
               PROVE  (v.start <= day /\ day < v.start + 7) <=> \E k \in v.start .. v.start + 6 : NairobiDay(a, k)
    OBVIOUS
  <2>1. v.start \in Int
    BY <1>1
  <2>2. ASSUME NEW k \in v.start .. v.start + 6, NairobiDay(a, k) PROVE v.start <= day /\ day < v.start + 7
    <3>1. k \in Int
      BY <2>1
    <3>2. k = day
      BY <1>5, <2>2, <3>1
    <3> QED BY <2>1, <3>2
  <2>3. ASSUME v.start <= day, day < v.start + 7 PROVE \E k \in v.start .. v.start + 6 : NairobiDay(a, k)
    <3>1. day \in v.start .. v.start + 6
      BY <1>4, <2>1, <2>3
    <3> QED BY <1>4, <3>1
  <2> QED BY <2>2, <2>3
<1>8. S = Asked(d, a)
  <2>1. \A v : v \in S <=> v \in d.weeks /\ v.lang = a.lang /\ v.status = "published" /\ v.start <= day /\ day < v.start + 7
    BY <1>6 DEF Published, InLang
  <2>2. \A v : v \in Asked(d, a) <=> v \in d.weeks /\ v.lang = a.lang /\ v.status = "published"
                                      /\ \E k \in v.start .. v.start + 6 : NairobiDay(a, k)
    BY DEF Asked
  <2>3. \A v : v \in S <=> v \in Asked(d, a)
    BY <1>7, <2>1, <2>2
  <2> QED BY <2>1, <2>2, <2>3
<1>9. PICK L : L = {v \in S : \A u \in S : u.start <= v.start}
  OBVIOUS
<1>10. x = One(L)
  BY <1>2, <1>6, <1>9 DEF GetSabbathSchoolLesson
<1>11. NoRow \notin S /\ \A v \in S : v.start \in Int /\ v.start <= day
  BY <1>1, <1>6, ContentAssumption DEF ContentAssumption, Published, InLang
<1>12. S # {} => L # {}
  BY <1>4, <1>9, <1>11, LatestWeek
<1>13. CASE x = NoRow
  <2>1. L = {}
    BY <1>9, <1>10, <1>11, <1>13, OneNone
  <2> QED BY <1>8, <1>12, <1>13, <2>1
<1>14. CASE x # NoRow
  <2>1. x \in L
    BY <1>10, <1>14, OneOf
  <2> QED BY <1>8, <1>9, <1>14, <2>1 DEF WeekOf
<1> QED BY <1>13, <1>14

LEMMA WeekRead ==
  ASSUME NEW d \in Databases, NEW a, NEW body, WeekOf(d, a, body.week),
         NEW ds, ds = ListSabbathSchoolDays(d, body.week.id),
         body.days = [i \in DOMAIN ds |-> [date |-> body.week.start + ds[i].idx, text |-> ds[i].text]]
  PROVE  WeekIs(d, a, body)
<1> DEFINE S == {s \in d.days : s.week = body.week.id}
<1>1. Numbers(S, "idx")
  <2>1. Numbers(d.days, "idx")
    BY ContentAssumption DEF ContentAssumption
  <2> QED BY <2>1, SomeRows
<1>2. ds = Sorted(S, "idx")
  BY DEF ListSabbathSchoolDays
<1>3. ds \in [1 .. Cardinality(S) -> S] /\ InOrder(ds, S, "idx")
  <2> HIDE DEF S
  <2> QED BY <1>1, <1>2, SortedInOrder
<1>4. DOMAIN body.days = DOMAIN ds
      /\ \A i \in DOMAIN ds : body.days[i].date = body.week.start + ds[i].idx /\ body.days[i].text = ds[i].text
  OBVIOUS
<1>5. LineByLine(body.days, S, "idx", LAMBDA x, s : x.date = body.week.start + s.idx /\ x.text = s.text)
  <2> HIDE DEF S
  <2> QED BY <1>3, <1>4 DEF LineByLine
<1> QED BY <1>5 DEF WeekIs, WeekOf

\* The lessons of published courses.
LEMMA LessonFound ==
  ASSUME NEW d \in Databases, NEW a, IsInt32(a.course), IsInt32(a.n), NEW s, s = GetCourseLesson(d, a.course, a.n)
  PROVE  IF s = NoRow THEN LessonsFor(d, a) = {} ELSE s \in LessonsFor(d, a)
<1>1. PICK S : S = {x \in d.lessons : x.n = Int32(a.n) /\ x.course = Int32(a.course)
                                     /\ \E c \in Published(d.courses) : c.id = x.course}
  OBVIOUS
<1>2. Int32(a.course) = a.course /\ Int32(a.n) = a.n
  BY Int32Same
<1>3. S = LessonsFor(d, a)
  BY <1>1, <1>2 DEF LessonsFor, Published
<1>4. NoRow \notin S
  BY <1>1, ContentAssumption DEF ContentAssumption
<1>5. s = One(S)
  BY <1>1 DEF GetCourseLesson
<1> QED BY <1>3, <1>4, <1>5, OneOf, OneNone

\* The questions of the lesson, each with all its options.
LEMMA LessonRead ==
  ASSUME NEW d \in Databases, NEW a, NEW s, s \in Asked(d, a),
         NEW qs, qs = ListLessonQuestions(d, s.id), NEW os, os = ListLessonOptions(d, s.id),
         NEW body, body.lesson = s,
         body.questions = [i \in DOMAIN qs |-> [id |-> qs[i].id, options |-> OptionsUnder(os, qs[i].id)]]
  PROVE  LessonIs(d, a, body)
<1> DEFINE Q == {q \in d.questions : q.lesson = s.id}
           S == {o \in d.options : \E q \in d.questions : q.lesson = s.id /\ q.id = o.question}
<1>1. Numbers(Q, "id")
  <2>1. Numbers(d.questions, "id")
    BY ContentAssumption DEF ContentAssumption
  <2> QED BY <2>1, SomeRows
<1>2. qs \in [1 .. Cardinality(Q) -> Q] /\ InOrder(qs, Q, "id")
  <2>1. qs = Sorted(Q, "id")
    BY DEF ListLessonQuestions
  <2> HIDE DEF Q
  <2> QED BY <1>1, <2>1, SortedInOrder
<1>3. Listing(os, S)
  <2>1. PICK T : T = S
    OBVIOUS
  <2> QED BY <2>1, OptionsListed
<1>4. PICK lines : lines = body.questions
  OBVIOUS
<1>5. DOMAIN lines = DOMAIN qs
      /\ \A i \in DOMAIN qs : lines[i].id = qs[i].id /\ lines[i].options = OptionsUnder(os, qs[i].id)
  BY <1>4
<1>6. ASSUME NEW i \in DOMAIN qs
      PROVE  InOrder(lines[i].options, {o \in d.options : o.question = qs[i].id}, "ord")
  <2>1. PICK q : q = qs[i] /\ q \in Q
    BY <1>2
  <2>2. PICK U : U = {o \in S : o.question = q.id}
    OBVIOUS
  <2>3. U = {o \in d.options : o.question = q.id}
    BY <2>1, <2>2
  <2>4. InOrder(OptionsUnder(os, q.id), U, "ord")
    <3> HIDE DEF S
    <3>1. PICK r : r = q.id
      OBVIOUS
    <3> QED BY <1>3, <2>2, <3>1, UnderTheirQuestion
  <2>5. lines[i].options = OptionsUnder(os, q.id)
    BY <1>5, <2>1
  <2> QED BY <2>1, <2>3, <2>4, <2>5
<1>7. LineByLine(lines, Q, "id", LAMBDA x, q : x.id = q.id /\ InOrder(x.options, {o \in d.options : o.question = q.id}, "ord"))
  <2> HIDE DEF Q
  <2> QED BY <1>2, <1>5, <1>6 DEF LineByLine
<1> QED BY <1>4, <1>7 DEF LessonIs

\* The option that was chosen, and the first of its question that is correct.
LEMMA OptionFound ==
  ASSUME NEW d \in Databases, NEW a, a.op = "answer", NumbersHold(a), NEW o, o = GetQuizOptionForLesson(d, a)
  PROVE  IF o = NoRow THEN Asked(d, a) = {} ELSE o \in Asked(d, a) /\ o.question = a.question
<1>1. /\ Int32(a.question) = a.question /\ Int32(a.option) = a.option
      /\ IsInt32(a.course) /\ IsInt32(a.n)
  BY Int32Same DEF NumbersHold
<1>2. PICK s, L : s = GetCourseLesson(d, a.course, a.n) /\ L = LessonsFor(d, a)
  OBVIOUS
<1>3. IF s = NoRow THEN L = {} ELSE s \in L
  BY <1>1, <1>2, LessonFound
<1>4. \A x, y \in L : x.id = y.id
  BY <1>2, ContentAssumption DEF LessonsFor, ContentAssumption
<1>5. PICK S : S = {p \in d.options :
                     /\ p.id = Int32(a.option) /\ p.question = Int32(a.question)
                     /\ \E q \in d.questions : q.id = p.question /\ s # NoRow /\ q.lesson = s.id}
  OBVIOUS
<1>6. \A q : (s # NoRow /\ q.lesson = s.id) <=> \E x \in L : q.lesson = x.id
  <2>1. NoRow \notin L
    BY <1>2, ContentAssumption DEF LessonsFor, ContentAssumption
  <2> QED BY <1>3, <1>4, <2>1
<1>7. S = Asked(d, a)
  <2>1. \A p : p \in S <=> /\ p \in d.options /\ p.id = a.option /\ p.question = a.question
                           /\ \E q \in d.questions : q.id = a.question /\ \E x \in L : q.lesson = x.id
    BY <1>1, <1>5, <1>6
  <2>2. \A p : p \in Asked(d, a) <=> /\ p \in d.options /\ p.id = a.option /\ p.question = a.question
                                     /\ \E q \in d.questions, x \in L : q.id = a.question /\ q.lesson = x.id
    BY <1>2 DEF Asked
  <2>3. \A p : p \in S <=> p \in Asked(d, a)
    BY <2>1, <2>2
  <2> QED BY <1>5, <2>2, <2>3 DEF Asked
<1>8. NoRow \notin S /\ \A p \in S : p.question = a.question
  BY <1>1, <1>5, ContentAssumption DEF ContentAssumption
<1>9. o = One(S)
  BY <1>2, <1>5 DEF GetQuizOptionForLesson
<1> QED BY <1>7, <1>8, <1>9, OneOf, OneNone

LEMMA VerdictRead ==
  ASSUME NEW d \in Databases, NEW a, NEW o, o \in Asked(d, a), NEW right, right = CorrectOption(d, a.question),
         right # NoRow, NEW body, body.correct = o.correct, body.right = right.id
  PROVE  VerdictIs(d, a, body)
<1>1. PICK S, C : C = CorrectOf(d, a.question) /\ S = {p \in C : \A r \in C : p.ord <= r.ord}
  OBVIOUS
<1>2. right = One(S)
  BY <1>1 DEF CorrectOption
<1>3. right \in S
  BY <1>2, OneOf
<1> QED BY <1>1, <1>3 DEF VerdictIs

LEMMA ExactNow ==
  ASSUME CallsInv, ContentInv, ExactInv, NEW c \in InProgress
  PROVE  /\ db \in Databases /\ db \in call[c].seen /\ call[c] # Idle
         /\ Still(call[c], db) => Finds(call[c], db)
<1>1. db \in call[c].seen /\ call[c] # Idle /\ c \in Calls /\ call[c].pc # "idle"
  BY SeesContent DEF InProgress
<1>2. db \in Databases
  BY LibraryAssumption DEF LibraryAssumption, ContentInv, CallsInv
<1> QED BY <1>1, <1>2 DEF ExactInv, Exact, IsExact

\* A step of one call, of which only the content there is matters.
LEMMA ExactMoves ==
  ASSUME CallsInv, ContentInv, ExactInv, NEW c \in InProgress,
         call'[c].seen = call[c].seen, call'[c].ask = call[c].ask, \A k \in Calls \ {c} : call'[k] = call[k],
         NEW x, x = call'[c], NEW d, d = db, Still(call[c], d) => IsExact(x, d)
  PROVE  ExactInv'
<1>1. Exact(x)
  <2> SUFFICES ASSUME NEW e \in Databases, Still(x, e) PROVE IsExact(x, e)
    BY DEF Exact
  <2>1. e = d /\ Still(call[c], d)
    BY ExactNow DEF Still
  <2> QED BY <2>1
<1>2. \A k \in Calls \ {c} : Exact(call'[k])
  BY DEF ExactInv
<1> QED BY <1>1, <1>2 DEF ExactInv

LEMMA ExactReply ==
  ASSUME CallsInv, ContentInv, ExactInv, NEW c \in InProgress, NEW a, Reply(c, a), NEW d, d = db,
         Still(call[c], d) => IsAnswer(d, call[c].ask, a)
  PROVE  ExactInv'
<1>1. Keeps(c) /\ call'[c].pc = "answered" /\ call'[c].answer = a
  BY ExactNow, ReplyEffect DEF InProgress
<1>2. PICK x : x = call'[c]
  OBVIOUS
<1>3. Finds(x, d)
  BY <1>1, <1>2 DEF Finds
<1>4. x.pc = "answered" /\ x.answer = a /\ x.ask = call[c].ask
  BY <1>1, <1>2 DEF Keeps
<1>5. Still(call[c], d) => IsExact(x, d)
  BY <1>3, <1>4 DEF IsExact
<1> QED BY <1>1, <1>2, <1>5, ExactMoves DEF Keeps

LEMMA ExactGoto ==
  ASSUME CallsInv, ContentInv, ExactInv, NEW c \in InProgress, NEW pc, NEW y, Goto(c, pc, y), NEW d, d = db,
         pc # "answered",
         Still(call[c], d) =>
           \A x : x.pc = pc /\ x.ask = call[c].ask /\ x.found = Append(call[c].found, y) => Finds(x, d)
  PROVE  ExactInv'
<1>1. Keeps(c) /\ call'[c].pc = pc /\ call'[c].found = Append(call[c].found, y)
  BY ExactNow, GotoEffect DEF InProgress
<1>2. PICK x : x = call'[c]
  OBVIOUS
<1>3. x.pc = pc /\ x.ask = call[c].ask /\ x.found = Append(call[c].found, y)
  BY <1>1, <1>2 DEF Keeps
<1>4. Still(call[c], d) => IsExact(x, d)
  BY <1>3 DEF IsExact
<1> QED BY <1>1, <1>2, <1>4, ExactMoves DEF Keeps

\* What is answered, what is not found, and what fails.
LEMMA ExactOK ==
  ASSUME CallsInv, ContentInv, ExactInv, NEW c \in InProgress, NEW body, Reply(c, OK(body)), NEW d, d = db,
         Still(call[c], d) => IsContent(d, call[c].ask, body)
  PROVE  ExactInv'
<1>1. PICK r, a : r = OK(body) /\ a = call[c].ask
  OBVIOUS
<1>2. r.status = 200 /\ r.body = body
  BY <1>1 DEF OK
<1>3. Still(call[c], d) => IsAnswer(d, a, r)
  BY <1>1, <1>2 DEF IsAnswer
<1> QED BY <1>1, <1>3, ExactReply

LEMMA ExactNone ==
  ASSUME CallsInv, ContentInv, ExactInv, NEW c \in InProgress, Reply(c, NotFound), NEW d, d = db,
         Still(call[c], d) => Asked(d, call[c].ask) = {}
  PROVE  ExactInv'
<1>1. PICK r, a : r = NotFound /\ a = call[c].ask
  OBVIOUS
<1>2. r.status = 404
  BY <1>1 DEF NotFound
<1>3. Still(call[c], d) => IsAnswer(d, a, r)
  BY <1>1, <1>2 DEF IsAnswer
<1> QED BY <1>1, <1>3, ExactReply

LEMMA ExactFails ==
  ASSUME CallsInv, ContentInv, ExactInv, NEW c \in InProgress, Reply(c, [status |-> 500])
  PROVE  ExactInv'
<1>1. PICK r, a, d : r = [status |-> 500] /\ a = call[c].ask /\ d = db
  OBVIOUS
<1>2. r.status = 500
  BY <1>1
<1>3. IsAnswer(d, a, r)
  BY <1>2 DEF IsAnswer
<1> QED BY <1>1, <1>3, ExactReply

\* What is appended comes last.
LEMMA Appended ==
  ASSUME NEW f, NEW y
  PROVE  /\ f = <<>> => Append(f, y) = <<y>> /\ Append(f, y)[1] = y
         /\ f = <<f[1]>> => Append(f, y) = <<f[1], y>> /\ Append(f, y)[1] = f[1] /\ Append(f, y)[2] = y
         /\ f = <<f[1], f[2]>> => Append(f, y)[1] = f[1] /\ Append(f, y)[2] = f[2] /\ Append(f, y)[3] = y
<1>1. f = <<>> => Append(f, y) = <<y>> /\ Append(f, y)[1] = y
  OBVIOUS
<1>2. ASSUME NEW u, f = <<u>> PROVE Append(f, y) = <<u, y>> /\ Append(f, y)[1] = u /\ Append(f, y)[2] = y
  <2>1. <<u>> \in Seq({u, y}) /\ Len(<<u>>) = 1 /\ y \in {u, y}
    OBVIOUS
  <2>2. PICK t : t = Append(<<u>>, y)
    OBVIOUS
  <2>3. t \in Seq({u, y}) /\ Len(t) = 2 /\ t[1] = u /\ t[2] = y
    BY <2>1, <2>2
  <2>4. t = <<u, y>>
    BY <2>3
  <2> QED BY <1>2, <2>2, <2>3, <2>4
<1>3. ASSUME NEW u, NEW v, f = <<u, v>>
      PROVE  Append(f, y)[1] = u /\ Append(f, y)[2] = v /\ Append(f, y)[3] = y
  <2>1. <<u, v>> \in Seq({u, v})
    OBVIOUS
  <2> QED BY <1>3, <2>1
<1> QED BY <1>1, <1>2, <1>3

LEMMA ExactItem ==
  ASSUME CallsInv, ContentInv, ExactInv, NEW c \in Calls, FindItem(c) \/ ReadLinks(c)
  PROVE  ExactInv'
<1>1. call[c].pc \in {"item", "links"} /\ c \in InProgress
  BY DEF FindItem, ReadLinks, At, InProgress
<1>2. PICK d, x, a, f : d = db /\ x = call[c] /\ a = x.ask /\ f = x.found
  OBVIOUS
<1>3. a.op = "feedItem" /\ d \in Databases /\ (Still(x, d) => Finds(x, d))
  BY <1>1, <1>2, ExactNow, StepKind DEF Fits
<1>4. CASE FindItem(c)
  <2>1. PICK i : i = GetFeedItem(d, a.id, a.now)
    OBVIOUS
  <2>2. IF i = NoRow THEN Reply(c, NotFound) ELSE Goto(c, "links", i)
    BY <1>2, <1>4, <2>1 DEF FindItem, AskOf
  <2>3. CASE i = NoRow
    BY <1>1, <1>2, <1>3, <2>1, <2>2, <2>3, ItemFound, ExactNone
  <2>4. CASE i # NoRow
    <3>1. i \in Asked(d, a)
      BY <1>3, <2>1, <2>4, ItemFound
    <3>2. ASSUME Still(x, d), NEW y, y.pc = "links", y.ask = a, y.found = Append(f, i) PROVE Finds(y, d)
      <4>1. y.found = <<i>> /\ y.found[1] = i
        BY <1>2, <1>3, <1>4, <3>2, Appended DEF Finds, FindItem, At
      <4> QED BY <3>1, <3>2, <4>1 DEF Finds
    <3> QED BY <1>1, <1>2, <2>2, <2>4, <3>2, ExactGoto
  <2> QED BY <2>3, <2>4
<1>5. CASE ReadLinks(c)
  <2>1. PICK body : body = [item |-> f[1], links |-> ListFeedLinks(d, a.id)]
    OBVIOUS
  <2>2. Reply(c, OK(body))
    BY <1>2, <1>5, <2>1 DEF ReadLinks, AskOf, Found
  <2>3. ASSUME Still(x, d) PROVE IsContent(d, a, body)
    <3>1. f[1] \in Asked(d, a)
      BY <1>2, <1>3, <1>5, <2>3 DEF Finds, ReadLinks, At
    <3>2. body.item = f[1] /\ body.links = ListFeedLinks(d, a.id)
      BY <2>1
    <3> QED BY <1>3, <3>1, <3>2, ItemRead DEF IsContent
  <2> QED BY <1>1, <1>2, <2>2, <2>3, ExactOK
<1> QED BY <1>4, <1>5

LEMMA ExactList == ASSUME CallsInv, ContentInv, ExactInv, NEW c \in Calls, List(c) PROVE ExactInv'
<1>1. c \in InProgress /\ call[c].pc = "list" /\ call[c].pc # "idle"
  BY DEF List, At, InProgress
<1>2. PICK d, a : d = db /\ a = call[c].ask
  OBVIOUS
<1>3. a.op \in {"egwBooks", "beliefs", "hymnals", "courses", "belief"} /\ d \in Databases
  BY <1>1, <1>2, ExactNow, StepKind DEF Fits
<1>4. Reply(c, Listed(a))
  BY <1>2 DEF List, AskOf
<1>5. CASE a.op = "egwBooks"
  <2>1. PICK body : body = ListEgwBooks(d, a.lang)
    OBVIOUS
  <2>2. Reply(c, OK(body))
    BY <1>2, <1>4, <1>5, <2>1 DEF Listed
  <2>3. IsContent(d, a, body)
    BY <1>3, <1>5, <2>1, BooksRead DEF IsContent
  <2> QED BY <1>1, <1>2, <2>2, <2>3, ExactOK
<1>6. CASE a.op = "beliefs"
  <2>1. PICK body : body = ListBeliefs(d, a.lang)
    OBVIOUS
  <2>2. Reply(c, OK(body))
    BY <1>2, <1>4, <1>6, <2>1 DEF Listed
  <2>3. IsContent(d, a, body)
    BY <1>3, <1>6, <2>1, BeliefsRead DEF IsContent
  <2> QED BY <1>1, <1>2, <2>2, <2>3, ExactOK
<1>7. CASE a.op = "hymnals"
  <2>1. PICK body : body = ListHymnals(d)
    OBVIOUS
  <2>2. Reply(c, OK(body))
    BY <1>2, <1>4, <1>7, <2>1 DEF Listed
  <2>3. IsContent(d, a, body)
    BY <1>3, <1>7, <2>1, HymnalsRead DEF IsContent
  <2> QED BY <1>1, <1>2, <2>2, <2>3, ExactOK
<1>8. CASE a.op = "courses"
  <2>1. PICK body : body = ListCourses(d, a.lang)
    OBVIOUS
  <2>2. Reply(c, OK(body))
    BY <1>2, <1>4, <1>8, <2>1 DEF Listed
  <2>3. IsContent(d, a, body)
    BY <1>3, <1>8, <2>1, CoursesRead DEF IsContent
  <2> QED BY <1>1, <1>2, <2>2, <2>3, ExactOK
<1>9. CASE a.op = "belief"
  <2>1. PICK b : b = GetBelief(d, a.n, a.lang)
    OBVIOUS
  <2>2. Reply(c, IF b = NoRow THEN NotFound ELSE OK(b))
    BY <1>2, <1>4, <1>9, <2>1 DEF Listed
  <2>3. IF b = NoRow THEN Asked(d, a) = {} ELSE b \in Asked(d, a)
    BY <1>3, <1>9, <2>1, BeliefRead
  <2>4. CASE b = NoRow
    BY <1>1, <1>2, <2>2, <2>3, <2>4, ExactNone
  <2>5. CASE b # NoRow
    <3>1. IsContent(d, a, b)
      BY <1>9, <2>3, <2>5 DEF IsContent
    <3>2. Reply(c, OK(b))
      BY <2>2, <2>5
    <3> QED BY <1>1, <1>2, <3>1, <3>2, ExactOK
  <2> QED BY <2>4, <2>5
<1> QED BY <1>3, <1>5, <1>6, <1>7, <1>8, <1>9

LEMMA ExactChapter ==
  ASSUME CallsInv, ContentInv, ExactInv, NEW c \in Calls,
         FindEdition(c) \/ ReadParagraphs(c) \/ FindParallel(c) \/ ReadParallel(c)
  PROVE  ExactInv'
<1>1. call[c].pc \in {"edition", "paragraphs", "parallel edition", "parallel paragraphs"}
  BY DEF FindEdition, ReadParagraphs, FindParallel, ReadParallel, At
<1>0. c \in InProgress
  BY <1>1 DEF InProgress
<1>2. PICK d, x, a, f : d = db /\ x = call[c] /\ a = x.ask /\ f = x.found
  OBVIOUS
<1>3. a.op = "egwChapter" /\ d \in Databases /\ (Still(x, d) => Finds(x, d))
  BY <1>0, <1>1, <1>2, ExactNow, StepKind DEF Fits
<1>4. ASSUME NEW body, Reply(c, OK(body)),
             Still(x, d) => ChapterIs(d, a, body)
      PROVE  ExactInv'
  <2>1. Still(x, d) => IsContent(d, a, body)
    BY <1>3, <1>4 DEF IsContent
  <2> QED BY <1>0, <1>2, <1>4, <2>1, ExactOK
<1>5. CASE FindEdition(c)
  <2>1. PICK e : e = GetEgwEdition(d, a.edition)
    OBVIOUS
  <2>2. IF e = NoRow THEN Reply(c, NotFound) ELSE Goto(c, "paragraphs", e)
    BY <1>2, <1>5, <2>1 DEF FindEdition, AskOf
  <2>3. CASE e = NoRow
    <3>1. ASSUME Still(x, d) PROVE Asked(d, a) = {}
      BY <1>2, <1>3, <2>1, <2>3, <3>1, NoChapter DEF Still
    <3> QED BY <1>0, <1>2, <2>2, <2>3, <3>1, ExactNone
  <2>4. CASE e # NoRow
    <3>1. EditionOf(d, a, e)
      BY <2>1, <2>4, OneOf DEF GetEgwEdition, EditionOf
    <3>2. ASSUME Still(x, d), NEW y, y.pc = "paragraphs", y.ask = a, y.found = Append(f, e) PROVE Finds(y, d)
      <4>1. y.found = <<e>> /\ y.found[1] = e
        BY <1>2, <1>3, <1>5, <3>2, Appended DEF Finds, FindEdition, At
      <4> QED BY <3>1, <3>2, <4>1 DEF Finds
    <3> QED BY <1>0, <1>2, <2>2, <2>4, <3>2, ExactGoto
  <2> QED BY <2>3, <2>4
<1>6. CASE ReadParagraphs(c)
  <2>1. PICK e, ps : e = f[1] /\ ps = ListEgwChapterParagraphs(d, e.id, a.n)
    OBVIOUS
  <2>2. PICK wants \in BOOLEAN : wants <=> a.parallel # NoLang /\ a.parallel # e.lang
    OBVIOUS
  <2>3. IF ps = <<>> THEN Reply(c, NotFound)
        ELSE IF wants THEN Goto(c, "parallel edition", ps)
        ELSE Reply(c, OK(Beside(ps, NoText(ps))))
    BY <1>2, <1>6, <2>1, <2>2 DEF ReadParagraphs, AskOf, Found, WantsParallel
  <2>4. ASSUME Still(x, d) PROVE f = <<e>> /\ EditionOf(d, a, e)
    BY <1>2, <1>3, <1>6, <2>1, <2>4 DEF Finds, ReadParagraphs, At
  <2>5. CASE ps = <<>>
    <3>1. ASSUME Still(x, d) PROVE Asked(d, a) = {}
      <4>1. \E h : EditionOf(d, a, h) /\ ListEgwChapterParagraphs(d, h.id, a.n) = <<>>
        BY <2>1, <2>4, <2>5, <3>1
      <4>2. NumbersHold(a)
        BY <1>2, <3>1 DEF Still
      <4> QED BY <1>3, <4>1, <4>2, NoChapter
    <3> QED BY <1>0, <1>2, <2>3, <2>5, <3>1, ExactNone
  <2>6. CASE ps # <<>> /\ wants
    <3>1. PICK pc : pc = "parallel edition"
      OBVIOUS
    <3>2. pc # "answered"
      BY <3>1
    <3>3. ASSUME Still(x, d), NEW y, y.pc = pc, y.ask = a, y.found = Append(f, ps) PROVE Finds(y, d)
      <4>1. f = <<f[1]>> /\ f[1] = e
        BY <2>1, <2>4, <3>3
      <4>2. y.found = <<e, ps>> /\ y.found[1] = e /\ y.found[2] = ps
        BY <3>3, <4>1, Appended
      <4> QED BY <2>1, <2>2, <2>4, <2>6, <3>1, <3>3, <4>2 DEF Finds
    <3>4. Goto(c, pc, ps)
      BY <2>3, <2>6, <3>1
    <3> QED BY <1>0, <1>2, <3>2, <3>3, <3>4, ExactGoto
  <2>7. CASE ps # <<>> /\ ~wants
    <3>1. PICK body : body = Beside(ps, NoText(ps))
      OBVIOUS
    <3>2. ASSUME Still(x, d) PROVE ChapterIs(d, a, body)
      <4>1. PICK parallel : parallel = NoText(ps) /\ a.parallel \in {NoLang, e.lang}
        BY <2>2, <2>7
      <4> QED BY <1>2, <1>3, <2>1, <2>4, <3>1, <3>2, <4>1, ChapterRead DEF Still
    <3> QED BY <1>4, <2>3, <2>7, <3>1, <3>2
  <2> QED BY <2>5, <2>6, <2>7
<1>7. CASE FindParallel(c)
  <2>1. PICK e, ps, g : e = f[1] /\ ps = f[2] /\ g = GetEgwEditionByBookLang(d, e.book, a.parallel)
    OBVIOUS
  <2>2. IF g = NoRow THEN Reply(c, OK(Beside(ps, NoText(ps)))) ELSE Goto(c, "parallel paragraphs", g)
    BY <1>2, <1>7, <2>1 DEF FindParallel, AskOf, Found
  <2>3. ASSUME Still(x, d)
        PROVE  /\ f = <<e, ps>> /\ EditionOf(d, a, e) /\ ps = ListEgwChapterParagraphs(d, e.id, a.n)
               /\ a.parallel \notin {NoLang, e.lang}
    BY <1>2, <1>3, <1>7, <2>1, <2>3 DEF Finds, FindParallel, At
  <2>4. CASE g = NoRow
    <3>1. PICK body : body = Beside(ps, NoText(ps))
      OBVIOUS
    <3>2. \A h : ~IsParallel(d, a, e, h)
      <4>1. NoRow \notin d.editions
        BY <1>3, ContentAssumption DEF ContentAssumption
      <4> QED BY <2>1, <2>4, <4>1 DEF GetEgwEditionByBookLang, One, InLang, IsParallel
    <3>3. ASSUME Still(x, d) PROVE ChapterIs(d, a, body)
      <4>1. PICK parallel : parallel = NoText(ps)
        OBVIOUS
      <4> QED BY <1>2, <1>3, <2>3, <3>1, <3>2, <3>3, <4>1, ChapterRead DEF Still
    <3> QED BY <1>4, <2>2, <2>4, <3>1, <3>3
  <2>5. CASE g # NoRow
    <3>1. IsParallel(d, a, e, g)
      BY <2>1, <2>5, OneOf DEF GetEgwEditionByBookLang, InLang, IsParallel
    <3>2. PICK pc : pc = "parallel paragraphs"
      OBVIOUS
    <3>3. pc # "answered"
      BY <3>2
    <3>4. ASSUME Still(x, d), NEW y, y.pc = pc, y.ask = a, y.found = Append(f, g) PROVE Finds(y, d)
      <4>1. f = <<f[1], f[2]>> /\ f[1] = e /\ f[2] = ps
        BY <2>1, <2>3, <3>4
      <4>2. Append(f, g)[1] = f[1] /\ Append(f, g)[2] = f[2] /\ Append(f, g)[3] = g
        BY <4>1, Appended
      <4>3. y.found[1] = e /\ y.found[2] = ps /\ y.found[3] = g
        BY <3>4, <4>1, <4>2
      <4> QED BY <2>3, <3>1, <3>2, <3>4, <4>3 DEF Finds
    <3>5. Goto(c, pc, g)
      BY <2>2, <2>5, <3>2
    <3> QED BY <1>0, <1>2, <3>4, <3>5, <3>3, ExactGoto
  <2> QED BY <2>4, <2>5
<1>8. CASE ReadParallel(c)
  <2>1. PICK e, ps, g, qs : e = f[1] /\ ps = f[2] /\ g = f[3] /\ qs = ListEgwChapterParagraphs(d, g.id, a.n)
    OBVIOUS
  <2>2. PICK parallel : parallel = [i \in DOMAIN ps |-> ByRef(qs, ps[i])]
    OBVIOUS
  <2>3. PICK body : body = Beside(ps, parallel)
    OBVIOUS
  <2>4. Reply(c, OK(body))
    BY <1>2, <1>8, <2>1, <2>2, <2>3 DEF ReadParallel, AskOf, Found
  <2>5. ASSUME Still(x, d) PROVE ChapterIs(d, a, body)
    <3>1. /\ EditionOf(d, a, e) /\ ps = ListEgwChapterParagraphs(d, e.id, a.n) /\ a.parallel \notin {NoLang, e.lang}
          /\ IsParallel(d, a, e, g)
      BY <1>2, <1>3, <1>8, <2>1, <2>5 DEF Finds, ReadParallel, At
    <3>2. parallel = [i \in DOMAIN ps |-> ByRef(ListEgwChapterParagraphs(d, g.id, a.n), ps[i])]
      BY <2>1, <2>2
    <3>3. \E h : /\ IsParallel(d, a, e, h)
                 /\ parallel = [i \in DOMAIN ps |-> ByRef(ListEgwChapterParagraphs(d, h.id, a.n), ps[i])]
      BY <3>1, <3>2
    <3> QED BY <1>2, <1>3, <2>3, <2>5, <3>1, <3>3, ChapterRead DEF Still
  <2> QED BY <1>4, <2>4, <2>5
<1> QED BY <1>5, <1>6, <1>7, <1>8

LEMMA ExactHymn ==
  ASSUME CallsInv, ContentInv, ExactInv, NEW c \in Calls,
         FindHymnal(c) \/ ReadHymns(c) \/ FindHymn(c) \/ ReadStanzas(c)
  PROVE  ExactInv'
<1>1. call[c].pc \in {"hymnal", "hymns", "hymn", "stanzas"} /\ c \in InProgress
  BY DEF FindHymnal, ReadHymns, FindHymn, ReadStanzas, At, InProgress
<1>2. PICK d, x, a, f : d = db /\ x = call[c] /\ a = x.ask /\ f = x.found
  OBVIOUS
<1>3. /\ a.op \in {"hymns", "hymn"} /\ d \in Databases /\ (Still(x, d) => Finds(x, d))
      /\ x.pc = "hymns" => a.op = "hymns"
      /\ x.pc \in {"hymn", "stanzas"} => a.op = "hymn"
  BY <1>1, <1>2, ExactNow, StepKind DEF Fits
<1>4. CASE FindHymnal(c)
  <2>1. PICK h, pc : h = GetHymnal(d, a.code) /\ pc = IF a.op = "hymns" THEN "hymns" ELSE "hymn"
    OBVIOUS
  <2>2. IF h = NoRow THEN Reply(c, NotFound) ELSE Goto(c, pc, h)
    BY <1>2, <1>4, <2>1 DEF FindHymnal, AskOf
  <2>3. CASE h = NoRow
    <3>1. Asked(d, a) = {}
      <4>1. GetHymnal(d, a.code) = NoRow /\ d \in Databases /\ a.op \in {"hymns", "hymn"}
        BY <1>3, <2>1, <2>3
      <4> QED BY <4>1, NoHymnal
    <3> QED BY <1>1, <1>2, <2>2, <2>3, <3>1, ExactNone
  <2>4. CASE h # NoRow
    <3>1. HymnalOf(d, a, h)
      BY <2>1, <2>4, OneOf DEF GetHymnal, HymnalOf
    <3>2. ASSUME Still(x, d), NEW y, y.pc = pc, y.ask = a, y.found = Append(f, h) PROVE Finds(y, d)
      <4>1. y.found = <<h>> /\ y.found[1] = h
        BY <1>2, <1>3, <1>4, <3>2, Appended DEF Finds, FindHymnal, At
      <4>2. y.pc \in {"hymns", "hymn"}
        BY <2>1, <3>2
      <4> QED BY <3>1, <3>2, <4>1, <4>2 DEF Finds
    <3>3. pc # "answered"
      BY <2>1
    <3> QED BY <1>1, <1>2, <2>2, <2>4, <3>2, <3>3, ExactGoto
  <2> QED BY <2>3, <2>4
<1>5. CASE ReadHymns(c)
  <2>1. PICK h, hs : h = f[1] /\ hs = ListHymns(d, h.id, a.q)
    OBVIOUS
  <2>2. Reply(c, OK(hs))
    BY <1>2, <1>5, <2>1 DEF ReadHymns, AskOf, Found
  <2>3. ASSUME Still(x, d) PROVE IsContent(d, a, hs)
    <3>1. HymnalOf(d, a, h) /\ a.op = "hymns" /\ NumbersHold(a)
      BY <1>2, <1>3, <1>5, <2>1, <2>3 DEF Finds, ReadHymns, At, Still
    <3>2. HymnsAre(d, a, hs)
      BY <1>3, <2>1, <3>1, HymnsRead
    <3> QED BY <3>1, <3>2 DEF IsContent
  <2> QED BY <1>1, <1>2, <2>2, <2>3, ExactOK
<1>6. CASE FindHymn(c)
  <2>1. PICK h, y : h = f[1] /\ y = GetHymn(d, h.id, a.number)
    OBVIOUS
  <2>2. IF y = NoRow THEN Reply(c, NotFound) ELSE Goto(c, "stanzas", y)
    BY <1>2, <1>6, <2>1 DEF FindHymn, AskOf, Found
  <2>3. ASSUME Still(x, d)
        PROVE  f = <<h>> /\ HymnalOf(d, a, h) /\ IF y = NoRow THEN Asked(d, a) = {} ELSE y \in Asked(d, a)
    <3>1. f = <<h>> /\ HymnalOf(d, a, h) /\ a.op = "hymn" /\ NumbersHold(a)
      BY <1>2, <1>3, <1>6, <2>1, <2>3 DEF Finds, FindHymn, At, Still
    <3> QED BY <1>3, <2>1, <3>1, HymnFound
  <2>4. CASE y = NoRow
    BY <1>1, <1>2, <2>2, <2>3, <2>4, ExactNone
  <2>5. CASE y # NoRow
    <3>1. ASSUME Still(x, d), NEW z, z.pc = "stanzas", z.ask = a, z.found = Append(f, y) PROVE Finds(z, d)
      <4>1. z.found[2] = y
        BY <2>3, <3>1, Appended
      <4> QED BY <2>3, <2>5, <3>1, <4>1 DEF Finds
    <3> QED BY <1>1, <1>2, <2>2, <2>5, <3>1, ExactGoto
  <2> QED BY <2>4, <2>5
<1>7. CASE ReadStanzas(c)
  <2>1. PICK h, y : h = f[1] /\ y = f[2]
    OBVIOUS
  <2>2. PICK body : body = [hymn |-> y, stanzas |-> ListHymnStanzas(d, y.id)]
    OBVIOUS
  <2>3. Reply(c, OK(body))
    BY <1>2, <1>7, <2>1, <2>2 DEF ReadStanzas, Found
  <2>4. ASSUME Still(x, d) PROVE IsContent(d, a, body)
    <3>1. y \in Asked(d, a) /\ a.op = "hymn"
      BY <1>2, <1>3, <1>7, <2>1, <2>4 DEF Finds, ReadStanzas, At
    <3>2. body.hymn = y /\ body.stanzas = ListHymnStanzas(d, body.hymn.id)
      BY <2>2
    <3>3. HymnIs(d, a, body)
      BY <1>3, <3>1, <3>2, HymnRead
    <3> QED BY <3>1, <3>3 DEF IsContent
  <2> QED BY <1>1, <1>2, <2>3, <2>4, ExactOK
<1> QED BY <1>4, <1>5, <1>6, <1>7

LEMMA ExactWeek ==
  ASSUME CallsInv, ContentInv, ExactInv, NEW c \in Calls, FindWeek(c) \/ ReadDays(c)
  PROVE  ExactInv'
<1>1. call[c].pc \in {"week", "days"} /\ c \in InProgress
  BY DEF FindWeek, ReadDays, At, InProgress
<1>2. PICK d, x, a, f : d = db /\ x = call[c] /\ a = x.ask /\ f = x.found
  OBVIOUS
<1>3. a.op = "week" /\ d \in Databases /\ (Still(x, d) => Finds(x, d))
  BY <1>1, <1>2, ExactNow, StepKind DEF Fits
<1>4. PICK work \in Workloads : a \in work.asks
  BY <1>1, <1>2, ExactNow DEF CallsInv, CallsOK, CallOK
<1>5. CASE FindWeek(c)
  <2>1. PICK w : w = GetSabbathSchoolLesson(d, a.lang, Today(a))
    OBVIOUS
  <2>2. IF w = NoRow THEN Reply(c, NotFound) ELSE Goto(c, "days", w)
    BY <1>2, <1>5, <2>1 DEF FindWeek, AskOf
  <2>3. CASE w = NoRow
    BY <1>1, <1>2, <1>3, <1>4, <2>1, <2>2, <2>3, WeekFound, ExactNone
  <2>4. CASE w # NoRow
    <3>1. WeekOf(d, a, w)
      BY <1>3, <1>4, <2>1, <2>4, WeekFound
    <3>2. ASSUME Still(x, d), NEW y, y.pc = "days", y.ask = a, y.found = Append(f, w) PROVE Finds(y, d)
      <4>1. y.found[1] = w
        BY <1>2, <1>3, <1>5, <3>2, Appended DEF Finds, FindWeek, At
      <4> QED BY <3>1, <3>2, <4>1 DEF Finds
    <3> QED BY <1>1, <1>2, <2>2, <2>4, <3>2, ExactGoto
  <2> QED BY <2>3, <2>4
<1>6. CASE ReadDays(c)
  <2>1. PICK w, ds : w = f[1] /\ ds = ListSabbathSchoolDays(d, w.id)
    OBVIOUS
  <2>2. PICK body : body = [week |-> w, days |-> [i \in DOMAIN ds |-> [date |-> w.start + ds[i].idx, text |-> ds[i].text]]]
    OBVIOUS
  <2>3. Reply(c, OK(body))
    BY <1>2, <1>6, <2>1, <2>2 DEF ReadDays, Found
  <2>4. ASSUME Still(x, d) PROVE IsContent(d, a, body)
    <3>1. WeekOf(d, a, w)
      BY <1>2, <1>3, <1>6, <2>1, <2>4 DEF Finds, ReadDays, At
    <3>2. body.week = w /\ body.days = [i \in DOMAIN ds |-> [date |-> body.week.start + ds[i].idx, text |-> ds[i].text]]
      BY <2>2
    <3>3. WeekOf(d, a, body.week) /\ ds = ListSabbathSchoolDays(d, body.week.id)
      BY <2>1, <3>1, <3>2
    <3>4. WeekIs(d, a, body)
      BY <1>3, <3>2, <3>3, WeekRead
    <3> QED BY <1>3, <3>4 DEF IsContent
  <2> QED BY <1>1, <1>2, <2>3, <2>4, ExactOK
<1> QED BY <1>5, <1>6

LEMMA ExactLesson ==
  ASSUME CallsInv, ContentInv, ExactInv, NEW c \in Calls, FindLesson(c) \/ ReadQuestions(c) \/ ReadOptions(c)
  PROVE  ExactInv'
<1>1. call[c].pc \in {"lesson", "questions", "options"} /\ c \in InProgress
  BY DEF FindLesson, ReadQuestions, ReadOptions, At, InProgress
<1>2. PICK d, x, a, f : d = db /\ x = call[c] /\ a = x.ask /\ f = x.found
  OBVIOUS
<1>3. a.op = "lesson" /\ d \in Databases /\ (Still(x, d) => Finds(x, d))
  BY <1>1, <1>2, ExactNow, StepKind DEF Fits
<1>4. CASE FindLesson(c)
  <2>1. PICK s : s = GetCourseLesson(d, a.course, a.n)
    OBVIOUS
  <2>2. IF s = NoRow THEN Reply(c, NotFound) ELSE Goto(c, "questions", s)
    BY <1>2, <1>4, <2>1 DEF FindLesson, AskOf
  <2>3. ASSUME Still(x, d) PROVE IF s = NoRow THEN Asked(d, a) = {} ELSE s \in Asked(d, a)
    <3>1. IsInt32(a.course) /\ IsInt32(a.n)
      BY <1>2, <1>3, <2>3 DEF Still, NumbersHold
    <3>2. Asked(d, a) = LessonsFor(d, a)
      BY <1>3 DEF Asked
    <3> QED BY <1>3, <2>1, <3>1, <3>2, LessonFound
  <2>4. CASE s = NoRow
    BY <1>1, <1>2, <2>2, <2>3, <2>4, ExactNone
  <2>5. CASE s # NoRow
    <3>2. ASSUME Still(x, d), NEW y, y.pc = "questions", y.ask = a, y.found = Append(f, s) PROVE Finds(y, d)
      <4>1. y.found = <<s>> /\ y.found[1] = s
        BY <1>2, <1>3, <1>4, <3>2, Appended DEF Finds, FindLesson, At
      <4> QED BY <2>3, <2>5, <3>2, <4>1 DEF Finds
    <3> QED BY <1>1, <1>2, <2>2, <2>5, <3>2, ExactGoto
  <2> QED BY <2>4, <2>5
<1>5. CASE ReadQuestions(c)
  <2>1. PICK s, qs : s = f[1] /\ qs = ListLessonQuestions(d, s.id)
    OBVIOUS
  <2>2. Goto(c, "options", qs)
    BY <1>2, <1>5, <2>1 DEF ReadQuestions, Found
  <2>3. ASSUME Still(x, d), NEW y, y.pc = "options", y.ask = a, y.found = Append(f, qs) PROVE Finds(y, d)
    <3>1. f = <<s>> /\ s \in Asked(d, a)
      BY <1>2, <1>3, <1>5, <2>1, <2>3 DEF Finds, ReadQuestions, At
    <3>2. y.found[1] = s /\ y.found[2] = qs
      BY <2>1, <2>3, <3>1, Appended
    <3> QED BY <2>1, <2>3, <3>1, <3>2 DEF Finds
  <2> QED BY <1>1, <1>2, <2>2, <2>3, ExactGoto
<1>6. CASE ReadOptions(c)
  <2>1. PICK s, qs, os : s = f[1] /\ qs = f[2] /\ os = ListLessonOptions(d, s.id)
    OBVIOUS
  <2>2. PICK body : body = [lesson |-> s,
           questions |-> [i \in DOMAIN qs |-> [id |-> qs[i].id, options |-> OptionsUnder(os, qs[i].id)]]]
    OBVIOUS
  <2>3. Reply(c, OK(body))
    BY <1>2, <1>6, <2>1, <2>2 DEF ReadOptions, Found
  <2>4. ASSUME Still(x, d) PROVE IsContent(d, a, body)
    <3>1. s \in Asked(d, a) /\ qs = ListLessonQuestions(d, s.id)
      BY <1>2, <1>3, <1>6, <2>1, <2>4 DEF Finds, ReadOptions, At
    <3>2. body.lesson = s
          /\ body.questions = [i \in DOMAIN qs |-> [id |-> qs[i].id, options |-> OptionsUnder(os, qs[i].id)]]
      BY <2>2
    <3>3. LessonIs(d, a, body)
      BY <1>3, <2>1, <3>1, <3>2, LessonRead
    <3> QED BY <1>3, <3>3 DEF IsContent
  <2> QED BY <1>1, <1>2, <2>3, <2>4, ExactOK
<1> QED BY <1>4, <1>5, <1>6

LEMMA ExactOption == ASSUME CallsInv, ContentInv, ExactInv, NEW c \in Calls, FindOption(c) PROVE ExactInv'
<1>1. call[c].pc = "option" /\ c \in InProgress
  BY DEF FindOption, At, InProgress
<1>2. PICK d, x, a, f, o : d = db /\ x = call[c] /\ a = x.ask /\ f = x.found /\ o = GetQuizOptionForLesson(d, a)
  OBVIOUS
<1>3. a.op = "answer" /\ d \in Databases /\ (Still(x, d) => Finds(x, d))
  BY <1>1, <1>2, ExactNow, StepKind DEF Fits
<1>4. PICK right, v : right = CorrectOption(d, o.question) /\ v = [correct |-> o.correct, right |-> right.id]
  OBVIOUS
<1>5. IF o = NoRow THEN Reply(c, NotFound)
      ELSE IF right = NoRow THEN Reply(c, [status |-> 500])
      ELSE Goto(c, "update", v)
  BY <1>2, <1>4 DEF FindOption, AskOf
<1>6. ASSUME Still(x, d)
      PROVE  IF o = NoRow THEN Asked(d, a) = {} ELSE o \in Asked(d, a) /\ o.question = a.question
  BY <1>2, <1>3, <1>6, OptionFound DEF Still
<1>7. CASE o = NoRow
  BY <1>1, <1>2, <1>5, <1>6, <1>7, ExactNone
<1>8. CASE o # NoRow /\ right = NoRow
  BY <1>1, <1>5, <1>8, ExactFails
<1>9. CASE o # NoRow /\ right # NoRow
  <2>1. v.correct = o.correct /\ v.right = right.id
    BY <1>4
  <2>2. ASSUME Still(x, d) PROVE IsContent(d, a, v)
    <3>1. o \in Asked(d, a) /\ right = CorrectOption(d, a.question)
      BY <1>4, <1>6, <1>9, <2>2
    <3>2. VerdictIs(d, a, v)
      BY <1>3, <1>9, <2>1, <3>1, VerdictRead
    <3> QED BY <1>3, <3>2 DEF IsContent
  <2>3. ASSUME Still(x, d), NEW z, z.pc = "update", z.ask = a, z.found = Append(f, v) PROVE Finds(z, d)
    <3>1. f = <<>>
      BY <1>1, <1>2, <1>3, <2>3 DEF Finds
    <3>2. z.found[1] = v
      BY <2>3, <3>1, Appended
    <3> QED BY <2>2, <2>3, <3>2 DEF Finds
  <2> QED BY <1>1, <1>2, <1>5, <1>9, <2>3, ExactGoto
<1> QED BY <1>7, <1>8, <1>9

\* The transaction keeps the verdict, and answers with it.
LEMMA ExactWrites ==
  ASSUME CallsInv, ContentInv, ExactInv, NEW c \in Calls,
         BeginUpdate(c) \/ UpdateQuizAnswer(c) \/ InsertQuizAnswer(c) \/ Commit(c)
  PROVE  ExactInv'
<1>1. /\ call[c].pc \in {"update", "lock", "insert", "commit"} /\ c \in InProgress
  BY DEF BeginUpdate, UpdateQuizAnswer, InsertQuizAnswer, Commit, At, InProgress
<1>2. PICK d, x, a, f : d = db /\ x = call[c] /\ a = x.ask /\ f = x.found
  OBVIOUS
<1>3. Still(x, d) => IsContent(d, a, f[1])
  BY <1>1, <1>2, ExactNow DEF Finds
<1>4. CASE BeginUpdate(c) \/ UpdateQuizAnswer(c) \/ InsertQuizAnswer(c)
  <2>1. PICK y : y = call'[c]
    OBVIOUS
  <2>2. /\ y.ask = a /\ y.seen = x.seen /\ y.found = f /\ y.pc \in {"lock", "insert", "commit"}
        /\ \A k \in Calls \ {c} : call'[k] = call[k]
    BY <1>2, <1>4, <2>1, BeginUpdateEffect, WriteEffect DEF Keeps
  <2>3. Still(x, d) => IsExact(y, d)
    BY <1>3, <2>2 DEF Finds, IsExact
  <2> QED BY <1>1, <1>2, <2>1, <2>2, <2>3, ExactMoves
<1>5. CASE Commit(c)
  <2>1. Reply(c, OK(f[1]))
    BY <1>2, <1>5 DEF Commit, Found
  <2> QED BY <1>1, <1>2, <1>3, <2>1, ExactOK
<1> QED BY <1>4, <1>5

LEMMA ExactFlagged ==
  ASSUME CallsInv, ExactInv, NEW k \in Calls, call[k] # Idle, call'[k] = [call[k] EXCEPT !.alone = FALSE]
  PROVE  Exact(call'[k])
<1>1. IsCall(call[k]) /\ Exact(call[k])
  BY DEF CallsInv, CallsOK, CallOK, ExactInv
<1>2. PICK x, y : x = call[k] /\ y = [x EXCEPT !.alone = FALSE]
  OBVIOUS
<1>3. y.pc = x.pc /\ y.ask = x.ask /\ y.found = x.found /\ y.answer = x.answer /\ y.seen = x.seen
  BY <1>1, <1>2 DEF IsCall, Fields
<1>4. ASSUME NEW d, Finds(x, d) PROVE Finds(y, d)
  <2>1. PICK f, a, pc : f = x.found /\ a = x.ask /\ pc = x.pc
    OBVIOUS
  <2>2. y.found = f /\ y.ask = a /\ y.pc = pc
    BY <1>3, <2>1
  <2> QED BY <1>4, <2>1, <2>2 DEF Finds
<1>5. Exact(y)
  BY <1>1, <1>2, <1>3, <1>4 DEF Exact, IsExact, Still
<1> QED BY <1>2, <1>5

\* What is refused before a statement: a list in no language, and rows that the
\* tables cannot hold.
LEMMA RefusalIsRight ==
  ASSUME NEW d \in Databases, NEW a, NEW x, x.status = Refusal(a), Refusal(a) # 0
  PROVE  IsAnswer(d, a, x)
<1>1. CASE a.op \in {"egwBooks", "beliefs", "courses"} /\ a.lang = NoLang
  BY <1>1 DEF Refusal, IsAnswer
<1>2. CASE ~(a.op \in {"egwBooks", "beliefs", "courses"} /\ a.lang = NoLang)
  <2>1. x.status = 404 /\ ((a.op = "belief" /\ (a.lang = NoLang \/ a.n < 1 \/ a.n > 28)) \/ (a.op = "week" /\ a.lang = NoLang))
    <3>1. Refusal(a) = IF a.op = "belief" /\ (a.lang = NoLang \/ a.n < 1 \/ a.n > 28) THEN 404
                       ELSE IF a.op = "week" /\ a.lang = NoLang THEN 404 ELSE 0
      BY <1>2 DEF Refusal
    <3> QED BY <3>1
  <2>2. CASE a.op = "belief" /\ (a.lang = NoLang \/ a.n < 1 \/ a.n > 28)
    <3>1. \A b \in d.beliefs : b.lang # NoLang /\ b.n \in 1 .. 28
      BY ContentAssumption DEF ContentAssumption
    <3>2. \A b \in d.beliefs : ~(b.n = a.n /\ b.lang = a.lang)
      BY <2>2, <3>1
    <3>3. Asked(d, a) = {}
      BY <2>2, <3>2 DEF Asked
    <3> QED BY <2>1, <3>3 DEF IsAnswer
  <2>3. CASE a.op = "week" /\ a.lang = NoLang
    <3>1. \A w \in d.weeks : w.lang # a.lang
      BY <2>3, ContentAssumption DEF ContentAssumption
    <3>2. Asked(d, a) = {}
      BY <2>3, <3>1 DEF Asked
    <3> QED BY <2>1, <3>2 DEF IsAnswer
  <2> QED BY <2>1, <2>2, <2>3
<1> QED BY <1>1, <1>2

LEMMA ExactAsk == ASSUME CallsInv, ContentInv, ExactInv, NEW c \in Calls, Ask(c) PROVE ExactInv'
<1>1. PICK a \in load.asks :
        call' = [k \in Calls |->
            IF k = c THEN Started(a)
            ELSE IF a.op = "answer" /\ k \in Answering(a.question) THEN [call[k] EXCEPT !.alone = FALSE]
            ELSE call[k]]
  BY DEF Ask
<1>2. a.op \in Ops
  BY LibraryAssumption DEF LibraryAssumption, CallsInv
<1>3. PICK x : x = Started(a)
  OBVIOUS
<1>4. Exact(x)
  <2>1. /\ x.found = <<>> /\ x.ask = a /\ x.answer.status = Refusal(a)
        /\ x.pc = IF Refusal(a) = 0 THEN FirstStatement[a.op] ELSE "answered"
    BY <1>3 DEF Started
  <2>2. \A op \in Ops : FirstStatement[op] \in {"list", "item", "edition", "hymnal", "week", "lesson", "option"}
    BY DEF Ops, FirstStatement
  <2>3. x.pc \in {"list", "item", "edition", "hymnal", "week", "lesson", "option", "answered"}
    BY <1>2, <2>1, <2>2
  <2>4. ASSUME NEW d PROVE Finds(x, d)
    BY <2>1, <2>3 DEF Finds
  <2>5. ASSUME x.pc = "answered", NEW d \in Databases PROVE IsAnswer(d, a, x.answer)
    <3>1. Refusal(a) # 0
      BY <1>2, <2>1, <2>2, <2>5
    <3> QED BY <2>1, <3>1, RefusalIsRight
  <2> QED BY <2>1, <2>4, <2>5 DEF Exact, IsExact
<1>5. ASSUME NEW k \in Calls PROVE Exact(call'[k])
  <2>1. CASE k = c
    BY <1>1, <1>3, <1>4, <2>1
  <2>2. CASE k # c /\ a.op = "answer" /\ k \in Answering(a.question)
    <3>1. call[k] # Idle /\ call'[k] = [call[k] EXCEPT !.alone = FALSE]
      BY <1>1, <2>2 DEF Answering, InProgress, Idle
    <3> QED BY <3>1, ExactFlagged
  <2>3. CASE k # c /\ ~(a.op = "answer" /\ k \in Answering(a.question))
    BY <1>1, <2>3 DEF ExactInv
  <2> QED BY <2>1, <2>2, <2>3
<1> QED BY <1>5 DEF ExactInv

LEMMA ExactPush == ASSUME CallsInv, ExactInv, Push PROVE ExactInv'
<1>1. PICK r \in Refs : call' = [c \in Calls |-> IF c \in Answering(r) THEN [call[c] EXCEPT !.alone = FALSE] ELSE call[c]]
  BY DEF Push
<1>2. ASSUME NEW k \in Calls PROVE Exact(call'[k])
  <2>1. CASE k \in Answering(r)
    <3>1. call[k] # Idle /\ call'[k] = [call[k] EXCEPT !.alone = FALSE]
      BY <1>1, <2>1 DEF Answering, InProgress, Idle
    <3> QED BY <3>1, ExactFlagged
  <2>2. CASE k \notin Answering(r)
    BY <1>1, <2>2 DEF ExactInv
  <2> QED BY <2>1, <2>2
<1> QED BY <1>2 DEF ExactInv

\* A call that is in progress at an edit has seen two contents.
LEMMA ExactEdit == ASSUME CallsInv, ContentInv, ExactInv, Edit PROVE ExactInv'
<1>1. ASSUME NEW k \in Calls PROVE Exact(call'[k])
  <2>1. CASE k \in InProgress
    <3>1. IsCall(call[k]) /\ call'[k] = [call[k] EXCEPT !.seen = @ \cup {db'}] /\ db \in call[k].seen
      BY <2>1, EditEffect, ExactNow
    <3>2. db \in call'[k].seen /\ db' \in call'[k].seen
      BY <3>1 DEF IsCall, Fields
    <3>3. PICK x, d, e : x = call'[k] /\ d = db /\ e = db' /\ d # e
      BY DEF Edit
    <3>4. Exact(x)
      BY <3>2, <3>3 DEF Exact, Still
    <3> QED BY <3>3, <3>4
  <2>2. CASE k \notin InProgress
    BY <2>2, EditEffect DEF ExactInv
  <2> QED BY <2>1, <2>2
<1> QED BY <1>1 DEF ExactInv

LEMMA ExactStep == CallsInv /\ ContentInv /\ ExactInv /\ [Next]_vars => ExactInv'
<1> SUFFICES ASSUME CallsInv, ContentInv, ExactInv, [Next]_vars PROVE ExactInv'
  OBVIOUS
<1>1. CASE UNCHANGED vars
  BY <1>1 DEF vars, ExactInv
<1>2. ASSUME NEW c \in Calls, Fail(c) PROVE ExactInv'
  BY <1>2, ExactFails DEF Fail
<1>3. ASSUME NEW c \in Calls, Done(c) PROVE ExactInv'
  <2>1. call'[c] = Idle /\ \A k \in Calls \ {c} : call'[k] = call[k]
    BY <1>3 DEF Done, CallsInv, CallsOK
  <2>2. Exact(Idle)
    BY DEF Exact, Idle
  <2> QED BY <2>1, <2>2 DEF ExactInv
<1> QED
  <2>1. CASE \E c \in Calls : Handle(c)
    BY <2>1, <1>2, <1>3, ExactAsk, ExactList, ExactItem, ExactChapter, ExactHymn, ExactWeek, ExactLesson, ExactOption,
       ExactWrites DEF Handle
  <2> QED BY <1>1, <2>1, ExactPush, ExactEdit DEF Next

\* While nobody edits, every request of the twelve kinds is answered with the
\* content: the rows that it asks for, each once and in the order of its query,
\* with those that belong to them (paragraphs beside the texts of the same
\* reference, links, stanzas, days, questions and their options), of a list of
\* hymns as many as LIMIT leaves; the week of the day in Nairobi; the verdict
\* that the options give; and a 404 only if there is nothing. For any contents
\* that the tables can hold, rows level in their order among them, and any
\* numbers that an int32 holds.
THEOREM AnswersAreContent == Spec => []AnswersAreTheContent
<1>1. Init => CallsInv /\ ContentInv /\ ExactInv
  <2>1. Init => ExactInv
    BY DEF Init, ExactInv, Exact, Idle
  <2> QED BY <2>1, CallsInit, ContentInit
<1>2. CallsInv /\ ContentInv /\ ExactInv /\ [Next]_vars => (CallsInv /\ ContentInv /\ ExactInv)'
  BY CallsStep, ContentStep, ExactStep
<1>3. ExactInv => AnswersAreTheContent
  BY DEF ExactInv, Exact, IsExact, Still, AnswersAreTheContent, Unedited, AskOf
<1> QED BY <1>1, <1>2, <1>3, PTL DEF Spec
=============================================================================
