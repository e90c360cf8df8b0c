------------------------- MODULE StreamTextProofs -------------------------
(***************************************************************************)
(* Proofs about StreamText, for any numbers of guardrails, turns and       *)
(* events.                                                                 *)
(***************************************************************************)
EXTENDS StreamText, SequenceTheorems, TLAPS

PCs == {"turn", "generate", "recv", "guard", "rest", "assemble", "answer",
        "reason", "check", "respond", "done"}

Chunks == [turn : Nat, chunk : Nat, by : Nat]
Texts  == Seq(Chunks)
Deltas == [text : Texts, tags : Tags]

ControlInv ==
  /\ pc \in PCs
  /\ step \in Nat /\ events \in Nat /\ chunkIndex \in Nat /\ rule \in Nat
  /\ sawDelta \in BOOLEAN /\ adjusted \in BOOLEAN /\ toolCalls \in BOOLEAN

TextInv ==
  /\ buffered \in Texts /\ message \in Texts /\ shown \in Texts
  /\ candidate \in Texts
  /\ delta \in Deltas /\ original \in Deltas
  /\ event.message \in {"none", "empty", "raw", "other"}

-----------------------------------------------------------------------------
(***************************************************************************)
(* How an adjusted text survives the run.  As long as no adjustment is     *)
(* marked, the buffer is what the model has sent in the turn, but for a    *)
(* chunk that is still in the guardrails (MarkInv).                        *)
(***************************************************************************)
CountInv ==
  /\ sawDelta <=> chunkIndex > 0
  /\ pc = "guard" \/ adjusted => sawDelta
  /\ events = 0 \/ pc = "generate" => ~sawDelta

\* The chunks of the turn that have left the guardrails.
Passed == IF pc = "guard" THEN chunkIndex - 1 ELSE chunkIndex

DeltaInv ==
  pc = "guard" => original.text = <<Chunk(step, chunkIndex, Model)>>

MarkInv ==
  pc \notin {"turn", "done"} /\ ~adjusted => buffered = Raw(step, Passed)

ShownInv == buffered = shown

AnswerInv ==
  /\ pc = "answer" /\ ~toolCalls /\ Adjusted => message = shown
  /\ pc \in {"reason", "check", "respond"} /\ source = "model" /\ Adjusted =>
       candidate = shown

(***************************************************************************)
(* How the final text gets to the memory and the response: the answer is   *)
(* a prefix of what the output guardrails make of it, and nothing is saved *)
(* before the last of them has passed it.                                  *)
(***************************************************************************)
Begins(s, t) == Len(s) <= Len(t) /\ SubSeq(t, 1, Len(s)) = s

ResultInv ==
  /\ result # "none" => pc = "done"
  /\ pc \notin {"respond", "done"} => saved = <<>>
  /\ pc = "reason" => rule = 1 /\ candidate = message
  /\ pc = "check" => rule <= OutputRules + 1 /\ Begins(candidate, message)
  /\ pc = "respond" =>
       rule = OutputRules + 1 /\ Begins(candidate, message) /\ saved = <<message>>
  /\ result = "completed" =>
       rule = OutputRules + 1 /\ Begins(candidate, message) /\ saved = <<message>>
  /\ result = "failed" => saved = <<>>

IInv ==
  /\ ControlInv /\ TextInv /\ CountInv /\ DeltaInv /\ MarkInv /\ ShownInv
  /\ AnswerInv /\ ResultInv

-----------------------------------------------------------------------------
(* Every step is one of these. *)

Repeat == \E from \in {"answer", "reason"} : Again(from)

Failing ==
  \E from \in {"generate", "recv", "guard", "answer", "reason", "check"} : FailFrom(from)

LEMMA NextCases ==
  ASSUME [Next]_vars
  PROVE  \/ Turn \/ Generate \/ Recv \/ RecvEOF
         \/ RuleAllows \/ RuleTransforms \/ RuleDrops \/ EmitDelta
         \/ Rest \/ Assemble \/ Answer \/ Accept \/ Replace
         \/ OutputAllows \/ OutputTransforms \/ Save \/ Complete
         \/ Repeat \/ Failing \/ UNCHANGED vars
  BY DEF Next, Repeat, Failing, ModelFails, RuleAborts, ToolTurn, AnswerFails,
         ReasonAgain, OutOfSteps, OutputBlocks, SaveFails

\* What is known of texts.
LEMMA SmallTexts ==
  /\ None \in Texts /\ Other \in Texts
  /\ \A t, k, by \in Nat : <<Chunk(t, k, by)>> \in Texts
  /\ \A t, n \in Nat : Raw(t, n) \in Texts
  <1>1. \A t, k, by \in Nat : Chunk(t, k, by) \in Chunks BY DEF Chunk, Chunks
  <1>2. \A t, n \in Nat : Raw(t, n) \in [1..n -> Chunks]
    BY <1>1 DEF Raw, Model
  <1>3. \A t, n \in Nat : Raw(t, n) \in Texts
    BY <1>2, SeqDef DEF Texts
  <1>4. QED BY <1>1, <1>3 DEF Texts, None, Other, Model

LEMMA DefaultTags ==
  ASSUME NEW tags \in Tags, NEW sent \in Tags PROVE Default(tags, sent) \in Tags
  BY DEF Default, Tags

LEMMA PrefixSelf == ASSUME NEW s \in Texts PROVE Begins(s, s)
  BY SubSeqFull, LenProperties DEF Texts, Begins

LEMMA PrefixAppend ==
  ASSUME NEW s \in Texts, NEW t \in Texts, NEW c \in Chunks, Begins(s, t)
  PROVE  Begins(s, Append(t, c)) /\ Append(t, c) \in Texts
  <1> DEFINE u == Append(t, c)
  <1>1. /\ u \in Texts /\ Len(u) = Len(t) + 1
        /\ \A i \in 1..Len(t) : u[i] = t[i]
    BY AppendProperties DEF Texts
  <1>2. /\ Len(s) \in Nat /\ Len(t) \in Nat /\ Len(s) <= Len(t)
        /\ \A i \in 1..Len(t) : t[i] \in Chunks
    BY LenProperties DEF Texts, Begins
  <1> HIDE DEF u
  <1>3. /\ SubSeq(u, 1, Len(s)) \in Texts /\ Len(SubSeq(u, 1, Len(s))) = Len(s)
        /\ \A i \in 1..Len(s) : SubSeq(u, 1, Len(s))[i] = t[i]
    <2>1. \A i \in 1..Len(s) : u[i] \in Chunks /\ u[i] = t[i] BY <1>1, <1>2
    <2>2. /\ SubSeq(u, 1, Len(s)) \in Seq(Chunks)
          /\ Len(SubSeq(u, 1, Len(s))) = IF 1 <= Len(s) THEN Len(s) - 1 + 1 ELSE 0
          /\ \A i \in 1..(Len(s) - 1 + 1) : SubSeq(u, 1, Len(s))[i] = u[1 + i - 1]
      BY <1>2, <2>1, SubSeqProperties
    <2>3. QED BY <1>2, <2>1, <2>2 DEF Texts
  <1>4. /\ Len(SubSeq(t, 1, Len(s))) = Len(s)
        /\ \A i \in 1..Len(s) : SubSeq(t, 1, Len(s))[i] = t[i]
    <2>1. /\ Len(SubSeq(t, 1, Len(s))) = IF 1 <= Len(s) THEN Len(s) - 1 + 1 ELSE 0
          /\ \A i \in 1..(Len(s) - 1 + 1) : SubSeq(t, 1, Len(s))[i] = t[1 + i - 1]
      BY <1>2, SubSeqProperties
    <2>2. QED BY <1>2, <2>1
  <1>5. \A i \in 1..Len(s) : SubSeq(u, 1, Len(s))[i] = s[i]
    BY <1>3, <1>4 DEF Begins
  <1>6. SubSeq(u, 1, Len(s)) = s
    BY <1>3, <1>5, SeqEqual DEF Texts
  <1>7. QED BY <1>1, <1>2, <1>6 DEF Begins, u

-----------------------------------------------------------------------------
LEMMA ControlNext ==
  ASSUME ControlInv, [Next]_vars
  PROVE  ControlInv'
  <1>1. CASE Turn
    BY <1>1 DEF Turn, Goto, FreshTurn, ControlInv, PCs, streamVars, endVars,
       optVars
  <1>2. CASE Generate
    BY <1>2 DEF Generate, Goto, ControlInv, PCs, streamVars, endVars, optVars
  <1>3. CASE Recv
    <2>1. /\ pc' \in PCs /\ step' \in Nat
          /\ events' \in Nat /\ chunkIndex' \in Nat /\ rule' \in Nat
      BY <1>3 DEF Recv, Goto, ControlInv, PCs
    <2>2. sawDelta' \in {TRUE, sawDelta} /\ UNCHANGED <<adjusted, toolCalls>>
      BY <1>3 DEF Recv
    <2>3. QED BY <2>1, <2>2 DEF ControlInv
  <1>4. CASE RuleDrops
    BY <1>4 DEF RuleDrops, Goto, MarkAdjusted, ControlInv, PCs, streamVars,
       endVars, optVars
  <1>5. CASE EmitDelta
    BY <1>5 DEF EmitDelta, Goto, Buffer, MarkAdjusted, ControlInv, PCs,
       streamVars, endVars, optVars
  <1>6. CASE Rest
    BY <1>6 DEF Rest, Goto, ControlInv, PCs, streamVars, endVars, optVars
  <1>7. CASE RecvEOF \/ RuleAllows \/ RuleTransforms \/ Assemble \/ Answer \/
       Accept \/ Replace \/ OutputAllows
    BY <1>7 DEF Goto, RecvEOF, RuleAllows, RuleTransforms, Assemble, Answer,
       Accept, Replace, OutputAllows, ControlInv, PCs, streamVars, endVars,
       optVars
  <1>8. CASE OutputTransforms \/ Save \/ Complete \/ Repeat \/ Failing \/
       UNCHANGED vars
    BY <1>8 DEF Goto, OutputTransforms, Save, Complete, Repeat, Failing, Again,
       FailFrom, SaveMessage, ControlInv, PCs, streamVars, endVars, optVars,
       vars
  <1>9. QED BY <1>1, <1>2, <1>3, <1>4, <1>5, <1>6, <1>7, <1>8, NextCases

LEMMA TextNext ==
  ASSUME ControlInv, TextInv, [Next]_vars
  PROVE  TextInv'
  <1>1. CASE Turn
    BY <1>1, SmallTexts DEF Turn, Goto, FreshTurn, NoEvent, NoDelta, Deltas,
       Tags, TextInv, streamVars, endVars, optVars
  <1>2. CASE Generate
    BY <1>2, SmallTexts DEF Generate, Goto, TextInv, streamVars, endVars,
       optVars
  <1>3. CASE Recv
    <2>1. original' \in Deltas \/ original' = original
      <3>1. <<Chunk(step, chunkIndex + 1, Model)>> \in Texts
        BY SmallTexts DEF ControlInv, Model
      <3>2. QED BY <1>3, <3>1 DEF Recv, Deltas
    <2>2. original' \in Deltas BY <2>1 DEF TextInv
    <2>3. \/ delta' = [original' EXCEPT !.tags = Default(original'.tags, original'.tags)]
          \/ delta' = delta
      BY <1>3 DEF Recv
    <2>4. delta' \in Deltas
      <3>1. Default(original'.tags, original'.tags) \in Tags
        BY <2>2, DefaultTags DEF Deltas
      <3> DEFINE given == Default(original'.tags, original'.tags)
      <3> HIDE DEF given
      <3>2. given \in Tags BY <3>1 DEF given
      <3>3. [original' EXCEPT !.tags = given] \in Deltas BY <2>2, <3>2 DEF Deltas
      <3>4. QED BY <2>3, <3>3 DEF given, TextInv
    <2>5. event'.message \in {"none", "empty", "raw", "other"} BY <1>3 DEF Recv
    <2>6. QED BY <1>3, <2>2, <2>4, <2>5 DEF Recv, TextInv, endVars
  <1>4. CASE RuleTransforms
    <2>1. PICK text \in {<<Chunk(step, chunkIndex, rule)>>, None, original.text},
               tags \in Tags :
            delta' = [text |-> text, tags |-> Default(tags, original.tags)]
      BY <1>4 DEF RuleTransforms
    <2>2. text \in Texts BY SmallTexts DEF ControlInv, TextInv, Deltas
    <2>3. Default(tags, original.tags) \in Tags BY DefaultTags DEF TextInv, Deltas
    <2>4. delta' \in Deltas BY <2>1, <2>2, <2>3 DEF Deltas
    <2>5. QED BY <1>4, <2>4 DEF RuleTransforms, TextInv, endVars
  <1>5. CASE EmitDelta
    <2>1. buffered \o delta.text \in Texts /\ shown \o delta.text \in Texts
      BY ConcatProperties DEF TextInv, Deltas, Texts
    <2>2. QED BY <1>5, <2>1 DEF EmitDelta, Buffer, TextInv, endVars, optVars
  <1>6. CASE Rest
    BY <1>6, SmallTexts DEF Rest, Goto, ControlInv, TextInv, streamVars,
       endVars, optVars
  <1>7. CASE Replace
    BY <1>7, SmallTexts DEF Replace, Goto, TextInv, streamVars, endVars,
       optVars
  <1>8. CASE OutputTransforms
    <2>1. Chunk(step, 0, rule) \in Chunks BY DEF Chunk, Chunks, ControlInv
    <2>2. Tagged(message) \in Texts
      BY <2>1, AppendProperties DEF Tagged, TextInv, Texts
    <2>3. QED BY <1>8, <2>2 DEF OutputTransforms, TextInv, endVars, optVars
  <1>9. CASE RecvEOF \/ RuleAllows \/ RuleDrops \/ Assemble \/ Answer \/ Accept
       \/ OutputAllows \/ Save
    BY <1>9 DEF Goto, RecvEOF, RuleAllows, RuleDrops, Assemble, Answer, Accept,
       OutputAllows, Save, MarkAdjusted, SaveMessage, TextInv, streamVars,
       endVars, optVars
  <1>10. CASE Complete \/ Repeat \/ Failing \/ UNCHANGED vars
    BY <1>10 DEF Goto, Complete, Repeat, Failing, Again, FailFrom, TextInv,
       streamVars, endVars, optVars, vars
  <1>11. QED BY <1>1, <1>2, <1>3, <1>4, <1>5, <1>6, <1>7, <1>8, <1>9, <1>10,
       NextCases

LEMMA CountNext ==
  ASSUME ControlInv, CountInv, [Next]_vars
  PROVE  CountInv'
  <1>1. CASE Turn \/ Generate \/ Recv \/ RecvEOF \/ RuleAllows \/
       RuleTransforms \/ RuleDrops \/ EmitDelta
    BY <1>1 DEF Goto, Turn, Generate, Recv, RecvEOF, RuleAllows,
       RuleTransforms, RuleDrops, EmitDelta, Buffer, FreshTurn, MarkAdjusted,
       CountInv, ControlInv, streamVars, endVars, optVars
  <1>2. CASE Rest \/ Assemble \/ Answer \/ Accept \/ Replace \/ OutputAllows \/
       OutputTransforms \/ Save
    BY <1>2 DEF Goto, Rest, Assemble, Answer, Accept, Replace, OutputAllows,
       OutputTransforms, Save, SaveMessage, CountInv, ControlInv, streamVars,
       endVars, optVars
  <1>3. CASE Complete \/ Repeat \/ Failing \/ UNCHANGED vars
    BY <1>3 DEF Goto, Complete, Repeat, Failing, Again, FailFrom, CountInv,
       ControlInv, streamVars, endVars, optVars, vars
  <1>4. QED BY <1>1, <1>2, <1>3, NextCases

LEMMA DeltaNext ==
  ASSUME ControlInv, DeltaInv, [Next]_vars
  PROVE  DeltaInv'
  <1>1. CASE Recv
    BY <1>1 DEF Recv, Goto, DeltaInv, ControlInv
  <1>2. CASE Turn \/ Generate \/ RecvEOF \/ RuleAllows \/ RuleTransforms \/ RuleDrops
        \/ EmitDelta \/ Rest \/ Assemble
    BY <1>2 DEF Goto, Turn, Generate, RecvEOF, RuleAllows, RuleTransforms, RuleDrops,
       EmitDelta, Rest, Assemble, FreshTurn, DeltaInv, streamVars
  <1>3. CASE Answer \/ Accept \/ Replace \/ OutputAllows \/ OutputTransforms \/
       Save \/ Complete \/ Repeat
    BY <1>3 DEF Goto, Answer, Accept, Replace, OutputAllows, OutputTransforms,
       Save, Complete, Repeat, Again, DeltaInv, streamVars
  <1>4. CASE Failing \/ UNCHANGED vars
    BY <1>4 DEF Goto, Failing, FailFrom, DeltaInv, streamVars, vars
  <1>5. QED BY <1>1, <1>2, <1>3, <1>4, NextCases

\* What the model has sent, one chunk after another.
LEMMA RawGrows ==
  /\ \A t \in Nat : Raw(t, 0) = None
  /\ \A t \in Nat, n \in Nat \ {0} : Raw(t, n) = Raw(t, n - 1) \o <<Chunk(t, n, Model)>>
  <1>1. \A t \in Nat : Raw(t, 0) = None
    <2>1. \A t \in Nat : Raw(t, 0) \in Texts BY SmallTexts
    <2>2. \A t \in Nat : Len(Raw(t, 0)) = 0 BY <2>1, LenProperties DEF Raw, Texts
    <2>3. QED BY <2>1, <2>2, EmptySeq DEF Texts, None
  <1>2. ASSUME NEW t \in Nat, NEW n \in Nat \ {0}
        PROVE  Raw(t, n) = Raw(t, n - 1) \o <<Chunk(t, n, Model)>>
    <2> DEFINE head == Raw(t, n - 1)
               last == <<Chunk(t, n, Model)>>
    <2>1. /\ head \in Texts /\ last \in Texts /\ Raw(t, n) \in Texts
          /\ n - 1 \in Nat
      BY SmallTexts DEF Model
    <2>2. Len(head) = n - 1 /\ Len(last) = 1 /\ Len(Raw(t, n)) = n
      BY <2>1, LenProperties DEF Raw, Texts
    <2>3. /\ head \o last \in Texts /\ Len(head \o last) = n
          /\ \A i \in 1..n : (head \o last)[i] = IF i <= n - 1 THEN head[i]
                                                  ELSE last[i - (n - 1)]
      <3> HIDE DEF head, last
      <3>1. /\ head \o last \in Texts
            /\ Len(head \o last) = Len(head) + Len(last)
            /\ \A i \in 1..(Len(head) + Len(last)) :
                 (head \o last)[i] = IF i <= Len(head) THEN head[i]
                                     ELSE last[i - Len(head)]
        BY <2>1, ConcatProperties DEF Texts
      <3>2. Len(head) + Len(last) = n BY <2>2
      <3>3. QED BY <2>2, <3>1, <3>2
    <2>4. \A i \in 1..n : (head \o last)[i] = Raw(t, n)[i]
      <3>1. ASSUME NEW i \in 1..(n - 1) PROVE head[i] = Raw(t, n)[i] BY <3>1 DEF Raw
      <3>2. last[1] = Raw(t, n)[n] BY DEF Raw
      <3> HIDE DEF head, last
      <3>3. QED BY <2>3, <3>1, <3>2
    <2> HIDE DEF head, last
    <2>5. Raw(t, n) = head \o last BY <2>1, <2>2, <2>3, <2>4, SeqEqual DEF Texts
    <2>6. QED BY <2>5 DEF head, last
  <1>3. QED BY <1>1, <1>2

LEMMA MarkNext ==
  ASSUME ControlInv, CountInv, DeltaInv, MarkInv, [Next]_vars
  PROVE  MarkInv'
  <1>1. CASE Turn
    BY <1>1, RawGrows DEF Turn, Goto, FreshTurn, MarkInv, Passed, ControlInv
  <1>2. CASE Generate
    BY <1>2 DEF Generate, Goto, MarkInv, Passed
  <1>3. CASE Recv
    BY <1>3 DEF Recv, Goto, MarkInv, Passed, ControlInv
  <1>4. CASE RuleDrops
    BY <1>4 DEF RuleDrops, MarkAdjusted, MarkInv
  <1>5. CASE EmitDelta
    <2>1. pc = "guard" /\ pc' = "rest" /\ UNCHANGED <<step, chunkIndex>>
          /\ adjusted' = (adjusted \/ delta # original)
          /\ buffered' = buffered \o delta.text
      BY <1>5 DEF EmitDelta, Goto, Buffer, MarkAdjusted
    <2>2. ASSUME ~adjusted, delta = original PROVE buffered' = Raw(step, chunkIndex)
      <3>1. chunkIndex \in Nat \ {0} BY <2>1 DEF CountInv, ControlInv
      <3>2. buffered = Raw(step, chunkIndex - 1) BY <2>1, <2>2 DEF MarkInv, Passed
      <3>3. delta.text = <<Chunk(step, chunkIndex, Model)>> BY <2>1, <2>2 DEF DeltaInv
      <3>4. QED BY <2>1, <3>1, <3>2, <3>3, RawGrows DEF ControlInv
    <2>3. QED BY <2>1, <2>2 DEF MarkInv, Passed, ControlInv
  <1>6. CASE RecvEOF \/ RuleAllows \/ RuleTransforms \/ Rest \/ Assemble \/ Answer
        \/ Accept \/ Replace
    BY <1>6 DEF Goto, RecvEOF, RuleAllows, RuleTransforms, Rest, Assemble, Answer,
       Accept, Replace, MarkInv, Passed, streamVars
  <1>7. CASE OutputAllows \/ OutputTransforms \/ Save \/ Complete \/ Repeat \/ Failing
        \/ UNCHANGED vars
    BY <1>7 DEF Goto, OutputAllows, OutputTransforms, Save, Complete, Repeat, Again,
       Failing, FailFrom, MarkInv, Passed, streamVars, vars
  <1>8. QED BY <1>1, <1>2, <1>3, <1>4, <1>5, <1>6, <1>7, NextCases

LEMMA ShownNext ==
  ASSUME ShownInv, [Next]_vars
  PROVE  ShownInv'
  <1>1. CASE Turn \/ Generate \/ Recv \/ RecvEOF \/ RuleAllows \/
       RuleTransforms \/ RuleDrops
    <2>1. CASE Turn BY <2>1 DEF Turn, FreshTurn, ShownInv
    <2>2. CASE Generate \/ Recv \/ RecvEOF
      BY <2>2 DEF Generate, Recv, RecvEOF, ShownInv, streamVars
    <2>3. CASE RuleAllows \/ RuleDrops BY <2>3 DEF RuleAllows, RuleDrops, ShownInv
    <2>4. CASE RuleTransforms BY <2>4 DEF RuleTransforms, ShownInv
    <2>5. QED BY <1>1, <2>1, <2>2, <2>3, <2>4
  <1>2. CASE Rest \/ Assemble \/ Answer \/ Accept \/ Replace \/ OutputAllows \/
       OutputTransforms \/ Save
    BY <1>2 DEF Goto, Rest, Assemble, Answer, Accept, Replace, OutputAllows,
       OutputTransforms, Save, SaveMessage, ShownInv, streamVars, endVars,
       optVars
  <1>3. CASE Complete \/ Repeat \/ Failing \/ UNCHANGED vars
    BY <1>3 DEF Goto, Complete, Repeat, Failing, Again, FailFrom, ShownInv,
       streamVars, endVars, optVars, vars
  <1>4. CASE EmitDelta BY <1>4 DEF EmitDelta, Buffer, ShownInv
  <1>5. QED BY <1>1, <1>2, <1>3, <1>4, NextCases

LEMMA AnswerNext ==
  ASSUME ControlInv, CountInv, MarkInv, ShownInv, AnswerInv, [Next]_vars
  PROVE  AnswerInv'
  <1>1. CASE Generate
    <2>1. pc = "generate" /\ pc' = "answer"
          /\ UNCHANGED <<step, chunkIndex, shown, candidate, source>>
      BY <1>1 DEF Generate, Goto, endVars
    <2>2. ~adjusted BY <2>1 DEF CountInv
    <2>3. shown = Raw(step, chunkIndex) BY <2>1, <2>2 DEF MarkInv, ShownInv, Passed
    <2>4. QED BY <2>1, <2>3 DEF AnswerInv, Adjusted
  <1>2. CASE Assemble
    <2>1. pc = "assemble" /\ pc' = "answer"
          /\ UNCHANGED <<step, chunkIndex, shown, toolCalls, candidate, source>>
          /\ (~toolCalls /\ sawDelta /\ adjusted => message' = buffered)
      BY <1>2 DEF Assemble, Goto, endVars
    <2>2. Adjusted => sawDelta /\ adjusted
      BY <2>1 DEF Adjusted, CountInv, MarkInv, ShownInv, Passed
    <2>3. QED BY <2>1, <2>2 DEF AnswerInv, ShownInv, Adjusted
  <1>3. CASE Answer
    BY <1>3 DEF Answer, Goto, AnswerInv, Adjusted, ControlInv, streamVars,
       endVars, optVars
  <1>4. CASE Replace
    BY <1>4 DEF Replace, Goto, AnswerInv, Adjusted, ControlInv, streamVars,
       endVars, optVars
  <1>5. CASE Turn \/ Recv \/ RecvEOF \/ RuleAllows \/ RuleTransforms \/
       RuleDrops \/ EmitDelta \/ Rest
    BY <1>5 DEF Goto, Turn, Recv, RecvEOF, RuleAllows, RuleTransforms,
       RuleDrops, EmitDelta, Rest, Buffer, FreshTurn, MarkAdjusted, AnswerInv,
       Adjusted, ControlInv, streamVars, endVars, optVars
  <1>6. CASE Accept \/ OutputAllows \/ OutputTransforms \/ Save \/ Complete \/
       Repeat \/ Failing \/ UNCHANGED vars
    BY <1>6 DEF Goto, Accept, OutputAllows, OutputTransforms, Save, Complete,
       Repeat, Failing, Again, FailFrom, SaveMessage, AnswerInv, Adjusted,
       ControlInv, streamVars, endVars, optVars, vars
  <1>7. QED BY <1>1, <1>2, <1>3, <1>4, <1>5, <1>6, NextCases

LEMMA ResultNext ==
  ASSUME ControlInv, TextInv, ResultInv, [Next]_vars
  PROVE  ResultInv'
  <1>1. CASE Answer
    BY <1>1, PrefixSelf, BoundsAssumption DEF Answer, Goto, TextInv, ResultInv,
       ControlInv, streamVars, endVars, optVars
  <1>2. CASE Accept
    BY <1>2, PrefixSelf, BoundsAssumption DEF Accept, Goto, TextInv, ResultInv,
       ControlInv, streamVars, endVars, optVars
  <1>3. CASE Replace
    BY <1>3, SmallTexts, PrefixSelf, BoundsAssumption DEF Replace, Goto,
       ResultInv, ControlInv, streamVars, endVars, optVars
  <1>4. CASE OutputAllows
    BY <1>4, BoundsAssumption DEF OutputAllows, Goto, ResultInv, ControlInv,
       streamVars, endVars, optVars
  <1>5. CASE OutputTransforms
    <2>1. Chunk(step, 0, rule) \in Chunks BY DEF Chunk, Chunks, ControlInv
    <2>2. Begins(candidate, message) => Begins(candidate, Tagged(message))
      BY <2>1, PrefixAppend DEF Tagged, TextInv
    <2>3. QED
      BY <1>5, <2>2, BoundsAssumption
      DEF OutputTransforms, Goto, ResultInv, ControlInv, endVars, optVars
  <1>6. CASE Save
    BY <1>6, BoundsAssumption DEF Save, Goto, SaveMessage, ResultInv,
       ControlInv, streamVars, endVars, optVars
  <1>7. CASE Turn \/ Generate \/ Recv \/ RecvEOF \/ RuleAllows \/
       RuleTransforms \/ RuleDrops \/ EmitDelta
    BY <1>7 DEF Goto, Turn, Generate, Recv, RecvEOF, RuleAllows,
       RuleTransforms, RuleDrops, EmitDelta, Buffer, FreshTurn, MarkAdjusted,
       ResultInv, ControlInv, streamVars, endVars, optVars
  <1>8. CASE Rest \/ Assemble \/ Complete \/ Repeat \/ Failing \/ UNCHANGED
       vars
    BY <1>8 DEF Goto, Rest, Assemble, Complete, Repeat, Failing, Again,
       FailFrom, ResultInv, ControlInv, streamVars, endVars, optVars, vars
  <1>9. QED BY <1>1, <1>2, <1>3, <1>4, <1>5, <1>6, <1>7, <1>8, NextCases

-----------------------------------------------------------------------------
LEMMA IInvInit == Init => IInv
  <1> SUFFICES ASSUME Init PROVE IInv OBVIOUS
  <1>1. ControlInv BY DEF Init, ControlInv, PCs
  <1>2. TextInv BY SmallTexts DEF Init, TextInv, Deltas, Tags, NoEvent, NoDelta
  <1>3. CountInv /\ DeltaInv /\ MarkInv /\ ShownInv
    BY DEF Init, CountInv, DeltaInv, MarkInv, ShownInv
  <1>4. AnswerInv /\ ResultInv BY DEF Init, AnswerInv, ResultInv
  <1>5. QED BY <1>1, <1>2, <1>3, <1>4 DEF IInv

LEMMA IInvNext == IInv /\ [Next]_vars => IInv'
  BY ControlNext, TextNext, CountNext, DeltaNext, MarkNext, ShownNext,
     AnswerNext, ResultNext DEF IInv

LEMMA Invariance == Spec => []IInv
  BY IInvInit, IInvNext, PTL DEF Spec

\* Whatever the model sends besides its deltas, and however many guardrails there
\* are: the answer of a turn whose text they have changed, by dropping or rewriting
\* a chunk, is the text the consumer was shown (AdjustedTextStays).
THEOREM AdjustedTextKept == Spec => []AdjustedTextStays
  <1>1. IInv => AdjustedTextStays BY DEF IInv, AnswerInv, AdjustedTextStays
  <1>2. QED BY <1>1, Invariance, PTL

\* What a stream guardrail is given as the text so far is what was shown of the
\* turn.
THEOREM BufferKept == Spec => []BufferIsShown
  <1>1. IInv => BufferIsShown BY DEF IInv, ShownInv, BufferIsShown
  <1>2. QED BY <1>1, Invariance, PTL

\* Memory and response have the same text, made of the answer by the last output
\* guardrail; a run that failed has saved nothing.
THEOREM FinalTextAgrees == Spec => []OneFinalText
  <1>1. IInv => OneFinalText BY DEF IInv, ResultInv, Begins, OneFinalText
  <1>2. QED BY <1>1, Invariance, PTL
=============================================================================
