------------------------------- MODULE TextFilters -------------------------------
(***************************************************************************)
(* The filters a stream may pass through besides the parsers (api/utils.py,*)
(* api/tool_calling.py): one drops tool-call blocks, one routes thinking   *)
(* and text to blocks, one takes the code fence from around JSON.  Each    *)
(* holds back what may be the beginning of a tag.                          *)
(***************************************************************************)
EXTENDS Texts

CONSTANTS FilterKinds,      \* "calls", "think", "fence"
          FilterAnswers,    \* the texts filtered
          FilterChunks,     \* the chunks in which they come
          MaxToolBuffer,    \* _MAX_TOOL_BUFFER_BYTES
          TailHoldback      \* _TAIL_HOLDBACK

ASSUME FilterAssumption ==
  /\ FilterKinds \subseteq {"calls", "think", "fence"}
  /\ MaxToolBuffer \in Nat \ {0} /\ TailHoldback \in Nat

VARIABLES filterKind, filterAnswer, filterText,
          filterState,      \* the buffer, and the state between the tags
          filterOut,        \* what was let through, as pieces [kind, text]
          filterEvents,     \* the content blocks made of them
          filterDone        \* flush or finalize was called

filterVars == <<filterKind, filterAnswer, filterText, filterState, filterOut,
                filterEvents, filterDone>>

TagPair(open, close) == [open |-> open, close |-> close]
\* _TOOL_CALL_TAGS, in the order in which they are looked for.
ToolCallTags == <<TagPair(<<-71, -72>>, <<-73, -74>>), TagPair(<<-75, -76>>, <<-77>>)>>
NoTag == <<>>

FreshFilter == [buffer |-> <<>>, close |-> NoTag, thinks |-> FALSE, opened |-> FALSE]

\* The longest end of the text that begins one of the tags.
HeldBack(text, tags) ==
  LET begins(n) == \E t \in tags : n < Len(t) /\ Drop(text, Len(text) - n) = Take(t, n)
  IN Max({0} \cup {n \in 1..Len(text) : begins(n)})

Let(state, kind, text) ==
  [state |-> state, out |-> IF text = <<>> THEN <<>> ELSE <<[kind |-> kind, text |-> text]>>]
Joined(first, second) == [state |-> second.state, out |-> first.out \o second.out]

(* StreamingToolCallFilter                                                  *)

\* Mutant: a tag that is cut by the end of the chunk is let through.
ScanForOpen_NoHoldBack(state) == Let([state EXCEPT !.buffer = <<>>], "text", state.buffer)

RECURSIVE ScanForOpen(_), ConsumeBlock(_)
ScanForOpen(state) ==
  LET found == {i \in DOMAIN ToolCallTags : Has(state.buffer, ToolCallTags[i].open)}
      tag == ToolCallTags[Min(found)]
      held == HeldBack(state.buffer, {ToolCallTags[i].open : i \in DOMAIN ToolCallTags})
      safe == Len(state.buffer) - held
  IN IF found # {}
     THEN Joined(Let(state, "text", Before(state.buffer, tag.open)),
                 ConsumeBlock([state EXCEPT !.buffer = After(state.buffer, tag.open),
                                            !.close = tag.close]))
     ELSE Let([state EXCEPT !.buffer = Drop(@, safe)], "text", Take(state.buffer, safe))
\* Inside a block all is dropped; a block that grows too long is given up.
ConsumeBlock(state) ==
  LET left == [state EXCEPT !.buffer = After(state.buffer, state.close), !.close = NoTag]
  IN IF Has(state.buffer, state.close)
     THEN IF left.buffer = <<>> THEN Let(left, "text", <<>>) ELSE ScanForOpen(left)
     ELSE IF Len(state.buffer) > MaxToolBuffer
     THEN Let([state EXCEPT !.buffer = <<>>, !.close = NoTag], "text", <<>>)
     ELSE Let(state, "text", <<>>)

FilterProcess(state, delta) ==
  LET fed == [state EXCEPT !.buffer = @ \o delta]
  IN IF fed.close # NoTag THEN ConsumeBlock(fed) ELSE ScanForOpen(fed)
FilterFlush(state) ==
  Let([state EXCEPT !.buffer = <<>>, !.close = NoTag], "text",
      IF state.close # NoTag THEN <<>> ELSE state.buffer)

(* StreamingThinkRouter                                                     *)

RECURSIVE ExtractPieces(_)
ExtractPieces(state) ==
  LET tag == IF state.thinks THEN ThinkClose ELSE ThinkOpen
      kind == IF state.thinks THEN "thinking" ELSE "text"
      safe == Len(state.buffer) - HeldBack(state.buffer, {tag})
  IN IF Has(state.buffer, tag)
     THEN Joined(Let(state, kind, Before(state.buffer, tag)),
                 ExtractPieces([state EXCEPT !.buffer = After(state.buffer, tag), !.thinks = ~@]))
     ELSE Let([state EXCEPT !.buffer = Drop(@, safe)], kind, Take(state.buffer, safe))
RouterProcess(state, delta) == ExtractPieces([state EXCEPT !.buffer = @ \o delta])
RouterFlush(state) ==
  Let([state EXCEPT !.buffer = <<>>, !.thinks = FALSE],
      IF state.thinks THEN "thinking" ELSE "text", state.buffer)

\* _emit_content_pieces: a block per run of pieces of one kind.
EmitContentPieces(events, pieces) ==
  LET step(piece, done) ==
        LET last == Last(done)
        IN IF done # <<>> /\ last.kind = piece.kind
           THEN Append(done, [last EXCEPT !.what = "delta"])
           ELSE done \o (IF done = <<>> THEN <<>> ELSE <<[last EXCEPT !.what = "stop"]>>)
                \o <<[what |-> "start", kind |-> piece.kind,
                      index |-> IF done = <<>> THEN 0 ELSE last.index + 1],
                     [what |-> "delta", kind |-> piece.kind,
                      index |-> IF done = <<>> THEN 0 ELSE last.index + 1]>>
  IN FoldLeft(LAMBDA done, piece : step(piece, done), events, pieces)

(* StreamingJsonFenceStripper                                               *)

Tick == -61
Json == <<-62, -63>>
Fence == <<Tick, Tick, Tick>>
FenceOpenings == <<Fence \o Json \o <<Blank>>, Fence \o Json, Fence \o <<Blank>>, Fence>>
RightStripped(s) == Reverse(Stripped(Reverse(s)))
BeginsOpening(text) ==
  \E i \in DOMAIN FenceOpenings : Len(text) < Len(FenceOpenings[i]) /\ IsPrefix(text, FenceOpenings[i])
WithoutOpening(text) ==
  LET found == {i \in DOMAIN FenceOpenings : IsPrefix(FenceOpenings[i], text)}
  IN IF found = {} THEN text ELSE Stripped(Drop(text, Len(FenceOpenings[Min(found)])))

\* Ticks and white space at the end wait, and so do the last symbols.
FenceEmit(state) ==
  LET solid == {i \in DOMAIN state.buffer : state.buffer[i] \notin {Tick, Blank}}
      end == Min({IF solid = {} THEN 0 ELSE Max(solid), Len(state.buffer) - TailHoldback})
  IN IF end <= 0 THEN Let(state, "text", <<>>)
     ELSE Let([state EXCEPT !.buffer = Drop(@, end)], "text", Take(state.buffer, end))
FenceFeed(state, delta) ==
  LET fed == [state EXCEPT !.buffer = @ \o delta]
      text == Stripped(fed.buffer)
  IN IF delta = <<>> THEN Let(state, "text", <<>>)
     ELSE IF state.opened THEN FenceEmit(fed)
     ELSE IF text = <<>> \/ BeginsOpening(text) THEN Let(fed, "text", <<>>)
     ELSE FenceEmit([fed EXCEPT !.buffer = WithoutOpening(text), !.opened = TRUE])
FenceFinalize(state) ==
  LET text == Stripped(state.buffer)
      tail == IF state.opened THEN state.buffer
              ELSE IF BeginsOpening(text) THEN <<>> ELSE WithoutOpening(text)
      closed == RightStripped(tail)
      left == IF IsSuffix(Fence, closed)
              THEN RightStripped(Take(closed, Len(closed) - Len(Fence))) ELSE tail
  IN Let([state EXCEPT !.buffer = <<>>, !.opened = TRUE], "text",
         IF state.buffer = <<>> THEN <<>> ELSE left)

(* A filtered stream.                                                       *)

FilterInit ==
  /\ filterKind \in FilterKinds /\ filterAnswer \in FilterAnswers[filterKind]
  /\ filterText = <<>> /\ filterOut = <<>> /\ filterEvents = <<>> /\ filterDone = FALSE
  /\ filterState = FreshFilter

FilterSays(step) ==
  /\ filterState' = step.state /\ filterOut' = filterOut \o step.out
  /\ filterEvents' = IF filterKind = "think" THEN EmitContentPieces(filterEvents, step.out)
                     ELSE filterEvents
  /\ UNCHANGED <<filterKind, filterAnswer>>

FilterFed(chunk) ==
  LET delta == Numbered(chunk, filterText)
  IN /\ ~filterDone /\ IsPrefix(chunk, Drop(filterAnswer, Len(filterText)))
     /\ filterText' = filterText \o delta
     /\ FilterSays(CASE filterKind = "calls" -> FilterProcess(filterState, delta)
                     [] filterKind = "think" -> RouterProcess(filterState, delta)
                     [] OTHER -> FenceFeed(filterState, delta))
     /\ UNCHANGED filterDone

FilterEnds ==
  /\ ~filterDone /\ filterDone' = TRUE
  /\ FilterSays(CASE filterKind = "calls" -> FilterFlush(filterState)
                  [] filterKind = "think" -> RouterFlush(filterState)
                  [] OTHER -> FenceFinalize(filterState))
  /\ UNCHANGED filterText

FilterNext == (\E chunk \in FilterChunks : FilterFed(chunk)) \/ FilterEnds

FilterTypeOK ==
  /\ filterKind \in FilterKinds /\ filterDone \in BOOLEAN
  /\ Len(filterText) <= Len(filterAnswer)

OutText(kinds) ==
  FlattenSeq([i \in DOMAIN filterOut |->
                IF filterOut[i].kind \in kinds THEN filterOut[i].text ELSE <<>>])

\* Text outside the blocks is let through, in order, and text inside is not, however the
\* chunks cut the tags; what is held back is bounded, and a block longer than the bound
\* is given up.
BlocksDropped ==
  filterKind = "calls" =>
    LET tags == {ToolCallTags[k] : k \in DOMAIN ToolCallTags}
        ends(tag, o) == {e \in Places(filterText, tag.close) : e > o}
        inside(i) == \E tag \in tags : \E o \in Places(filterText, tag.open) :
                       o < i /\ \A e \in ends(tag, o) : e > i
        long == \E tag \in tags : \E o \in Places(filterText, tag.open) :
                  Min(ends(tag, o) \cup {Len(filterText)}) - o > MaxToolBuffer
        outside == At(filterText, {i \in DOMAIN filterText : filterText[i] > 0 /\ ~inside(i)})
    IN /\ ~long => Letters(OutText({"text"})) = outside
       /\ Len(filterState.buffer) <= MaxToolBuffer

\* A letter goes to the block that the last tag before it opened; the blocks follow one
\* another.
PiecesRouted ==
  filterKind = "think" =>
    LET opens == Places(filterText, ThinkOpen)  closes == Places(filterText, ThinkClose)
        thought(i) == \E o \in opens : o < i /\ \A c \in closes : ~(o < c /\ c < i)
        letters(thinks) == At(filterText, {i \in DOMAIN filterText :
                                             filterText[i] > 0 /\ (thought(i) <=> thinks)})
        starts == SelectSeq(filterEvents, LAMBDA e : e.what = "start")
    IN /\ Letters(OutText({"thinking"})) = letters(TRUE) /\ Letters(OutText({"text"})) = letters(FALSE)
       /\ \A i \in DOMAIN starts : starts[i].index = i - 1
       /\ \A i \in 1..Len(starts) - 1 : starts[i].kind # starts[i + 1].kind

\* What is left of a text when the stripper has it as one chunk.
FenceSound ==
  filterKind = "fence" =>
    LET fed == FenceFeed(FreshFilter, filterText)
        end == FenceFinalize(fed.state)
        whole == FlattenSeq([i \in DOMAIN (fed.out \o end.out) |-> (fed.out \o end.out)[i].text])
        out == OutText({"text"})
    IN IF filterDone THEN out = whole
       ELSE IsPrefix(Letters(out), Letters(whole)) /\ (Has(out, Fence) => Has(whole, Fence))

FiltersSound == BlocksDropped /\ PiecesRouted /\ FenceSound
================================================================================
